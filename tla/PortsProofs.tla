------------------------------- MODULE PortsProofs -------------------------------
(***************************************************************************)
(* Proofs about Ports, for any applications, processes, sockets and         *)
(* manifests.                                                               *)
(***************************************************************************)
EXTENDS Ports, SequenceTheorems, FiniteSetTheorems, TLAPS

AllViews == [declared : SUBSET Endpoints, observed : SUBSET Items, status : Statuses]
Verdicts == {"PORT_DISCOVERY_UNAVAILABLE", "PORT_CONFLICT", "start"}
Entries  == [app : Apps, items : SUBSET Items]

Requests ==
    [pc : {"observe", "scan", "discover", "answer", "done"}, kind : {"start", "ports"},
     app : Apps, declared : Manifests, up : BOOLEAN, seen : SUBSET Items, observed : BOOLEAN,
     listeners : SUBSET Items, scanned : BOOLEAN, todo : SUBSET Apps, managed : Seq(Entries),
     answer : SUBSET (AllViews \cup Verdicts)]

Busy    == req # Idle
Scanned == Busy /\ req.pc \in {"discover", "answer", "done"}

\* system_ports: no application is asked twice
Typed ==
    /\ sockets \subseteq Sockets /\ truth \subseteq Sockets
    /\ own \in BOOLEAN /\ partial \in BOOLEAN /\ changes \in Nat
    /\ req \in {Idle} \cup Requests
    /\ Busy => \A i \in DOMAIN req.managed : req.managed[i].app \notin req.todo
    /\ Busy => \A i, j \in DOMAIN req.managed :
                  req.managed[i].app = req.managed[j].app => i = j
    /\ Busy /\ req.pc # "done" => req.answer = {}

\* The answer is computed from what the request has found
Result(r) == IF r.kind = "ports" THEN Views(r) ELSE Verdict(r)

Answered ==
    /\ Scanned /\ req.declared # {} /\ req.scanned => req.listeners = Listeners(truth)
    /\ Busy /\ req.pc = "done" => req.answer = Result(req)

\* An application that holds no socket is given no listener
Foreign ==
    Busy /\ ~own =>
        /\ Known(req.app, sockets) = {}
        /\ \A i \in DOMAIN req.managed : req.managed[i].app = req.app => req.managed[i].items = {}

\* What a complete discovery of an application finds among the sockets S
Whole(a, S) ==
    IF a \in Composed THEN {[s EXCEPT !.pid = NoPid] : s \in Known(a, S)} ELSE Known(a, S)

\* Nothing has changed and nothing was missed: what was found is what is there
Complete ==
    /\ req.scanned /\ req.observed
    /\ req.kind = "ports" /\ req.pc # "observe" => req.seen = Whole(req.app, sockets)
    /\ \A i \in DOMAIN req.managed :
          req.managed[i].items = Whole(req.managed[i].app, sockets)
    /\ \A a \in Apps \ req.todo : \E i \in DOMAIN req.managed : req.managed[i].app = a
    /\ req.pc \in {"answer", "done"} /\ req.declared # {} => req.pc = "done" /\ req.todo = {}

Quiet ==
    /\ Busy /\ req.pc = "observe" => ~partial
    /\ Scanned /\ changes = 0 => truth = sockets
    /\ Busy /\ changes = 0 /\ ~partial => Complete

-----------------------------------------------------------------------------
(* What the operators return                                                *)

\* scan_host_listeners hides some pids and keeps address and port
LEMMA ListenersType ==
    ASSUME NEW S \in SUBSET Sockets
    PROVE  Listeners(S) \subseteq Items
  <1> SUFFICES ASSUME NEW s \in S
               PROVE  [s EXCEPT !.pid = IF @ \in Hidden THEN NoPid ELSE @] \in Items
    BY DEF Listeners
  <1>1. s \in Sockets
    OBVIOUS
  <1> QED
    BY <1>1 DEF Sockets, Items

\* discover: types; nothing is found that the application does not hold, and a complete discovery
\* finds all of it
LEMMA DiscoveredFacts ==
    ASSUME sockets \subseteq Sockets, NEW a \in Apps, NEW f \in Discovered(a)
    PROVE  /\ f.items \subseteq Items /\ f.all \in BOOLEAN
           /\ Known(a, sockets) = {} => f.items = {}
           /\ f.all => f.items = Whole(a, sockets)
  <1>1. CASE a \in Composed
    <2> DEFINE K == Known(a, sockets)  addr(s, B) == NormalizeAddress(IF s \in B THEN Blank ELSE s.addr)
               strip(s) == [s EXCEPT !.pid = NoPid]
               item(s, B) == [s EXCEPT !.pid = NoPid, !.addr = addr(s, B)]
    <2>1. PICK B \in SUBSET {s \in K : s.addr \in {Any4, Any6}} :
              f = [items |-> FoundCompose(a, B), all |-> \A s \in B : s.addr = Any4]
      BY <1>1 DEF Discovered
    <2>2. f.items = FoundCompose(a, B) /\ f.all = (\A s \in B : s.addr = Any4)
      BY <2>1
    <2>3. FoundCompose(a, B) = {item(s, B) : s \in K}
      BY DEF FoundCompose, Sockets, Known
    <2>4. K \subseteq Sockets
      BY DEF Known
    <2>5. \A s \in K : s.addr \in Addresses /\ s.addr # Blank /\ Any4 \in Addresses
      BY <2>4, PortsAssumption DEF Sockets, Addresses
    <2>6. \A s \in K : addr(s, B) = IF s \in B THEN Any4 ELSE s.addr
      BY <2>5 DEF NormalizeAddress
    <2>7. \A s \in K : item(s, B) \in Items
      BY <2>4, <2>5, <2>6 DEF Sockets, Items
    <2>8. f.all => \A s \in K : addr(s, B) = s.addr
      BY <2>2, <2>6
    <2>9. f.all => \A s \in K : item(s, B) = strip(s)
      BY <2>4, <2>8 DEF Sockets
    <2>10. Whole(a, sockets) = {strip(s) : s \in K}
      BY <1>1 DEF Whole
    <2>11. f.all \in BOOLEAN
      BY <2>2
    <2> HIDE DEF K, item, strip
    <2>12. f.all => f.items = Whole(a, sockets)
      BY <2>2, <2>3, <2>9, <2>10
    <2>13. f.items \subseteq Items /\ (K = {} => f.items = {})
      BY <2>2, <2>3, <2>7
    <2> QED
      BY <2>11, <2>12, <2>13 DEF K
  <1>2. CASE a \notin Composed
    <2>1. PICK Q \in SUBSET PidsOf[a] : f = [items |-> FoundProcess(Q), all |-> (Q = PidsOf[a])]
      BY <1>2 DEF Discovered, UnitProcesses
    <2>2. FoundProcess(Q) \subseteq Known(a, sockets)
      BY <1>2, <2>1, PortsAssumption DEF FoundProcess, Known
    <2>3. Sockets \subseteq Items
      BY DEF Sockets, Items
    <2>4. f.items = FoundProcess(Q) /\ f.all = (Q = PidsOf[a])
      BY <2>1
    <2>5. f.all => f.items = Whole(a, sockets)
      BY <1>2, <2>4, PortsAssumption DEF Whole, FoundProcess, Known
    <2>6. f.all \in BOOLEAN
      BY <2>4
    <2>7. f.items \subseteq Items
      BY <2>2, <2>3, <2>4 DEF Known
    <2> QED
      BY <2>2, <2>4, <2>5, <2>6, <2>7
  <1> QED
    BY <1>1, <1>2

LEMMA StatusType ==
    ASSUME NEW d, NEW r
    PROVE  Status(d, r) \in Statuses
  BY DEF Status, Statuses

LEMMA ResultType ==
    ASSUME NEW r \in Requests
    PROVE  /\ Result(r) \subseteq AllViews \cup Verdicts
           /\ \A v \in Views(r) : v.status \in Statuses
  <1>1. /\ r.declared \in SUBSET Endpoints /\ r.seen \subseteq Items
    BY DEF Requests, Manifests
  <1>2. ASSUME NEW v \in Views(r)
        PROVE  v \in AllViews /\ v.status \in Statuses
    <2>1. CASE \E d \in r.declared :
                 v = [declared |-> {d}, observed |-> IF Match(d, r.seen) = {} THEN {}
                                     ELSE {CHOOSE item \in Match(d, r.seen) : TRUE},
                      status |-> Status(d, r)]
      <3>1. PICK d \in r.declared :
                 v = [declared |-> {d}, observed |-> IF Match(d, r.seen) = {} THEN {}
                                     ELSE {CHOOSE item \in Match(d, r.seen) : TRUE},
                      status |-> Status(d, r)]
        BY <2>1
      <3>2. Status(d, r) \in Statuses
        BY StatusType
      <3>3. (IF Match(d, r.seen) = {} THEN {}
             ELSE {CHOOSE item \in Match(d, r.seen) : TRUE}) \subseteq Items
        BY <1>1 DEF Match
      <3> QED
        BY <1>1, <3>1, <3>2, <3>3 DEF AllViews
    <2>2. CASE \E item \in Remaining(r) :
                 v = [declared |-> {}, observed |-> {item}, status |-> "UNDECLARED"]
      BY <1>1, <2>2 DEF Remaining, AllViews, Statuses
    <2> QED
      BY <1>2, <2>1, <2>2 DEF Views
  <1>3. Verdict(r) \subseteq Verdicts
    BY DEF Verdict, Verdicts
  <1> QED
    BY <1>2, <1>3 DEF Result

-----------------------------------------------------------------------------
(* Types                                                                    *)

\* A request that goes on keeps its shape
LEMMA BusyShape ==
    ASSUME Typed, Busy
    PROVE  req \in Requests
  BY DEF Typed, Busy

LEMMA IdleShape == Idle.pc = "idle" /\ Idle \notin Requests
  <1>1. Idle.pc = "idle"
    BY DEF Idle
  <1>2. \A r \in Requests : r.pc # "idle"
    BY DEF Requests
  <1> QED
    BY <1>1, <1>2

LEMMA TypeInit == Init => Typed
  <1> SUFFICES ASSUME Init PROVE Typed
    OBVIOUS
  <1>1. own \in BOOLEAN /\ partial \in BOOLEAN
    BY DEF Init
  <1>2. changes \in Nat /\ ~Busy /\ sockets \subseteq Sockets /\ truth \subseteq Sockets /\ req = Idle
    BY DEF Init, Busy
  <1> QED
    BY <1>1, <1>2 DEF Typed

\* The sockets change, the request does not
LEMMA HostFacts ==
    ASSUME Typed, NEW s \in Sockets, Bind(s) \/ Unbind(s)
    PROVE  /\ sockets' \subseteq Sockets /\ UNCHANGED <<req, truth, partial>>
           /\ changes' \in Nat /\ (Busy => changes' # 0)
           /\ own' = (Busy /\ (own \/ Known(req.app, sockets') # {}))
  <1>1. HostChange /\ sockets' \subseteq Sockets
    BY DEF Bind, Unbind, Typed
  <1>2. changes' \in Nat /\ (Busy => changes' # 0)
    BY <1>1 DEF HostChange, Typed, Busy
  <1> QED
    BY <1>1, <1>2 DEF HostChange, Busy

\* An application is asked, or cannot be
LEMMA DiscoverFacts ==
    ASSUME Typed, NEW a \in Apps, Discover(a)
    PROVE  \E f \in Discovered(a) :
             /\ Busy /\ a \in req.todo /\ f.items \subseteq Items
             /\ req' = [req EXCEPT !.todo = @ \ {a},
                                   !.managed = Append(@, [app |-> a, items |-> f.items])]
             /\ req' \in Requests /\ req'.pc = "discover" /\ req'.todo = req.todo \ {a}
             /\ DOMAIN req.managed = 1..Len(req.managed) /\ Len(req.managed) \in Nat
             /\ DOMAIN req'.managed = 1..(Len(req.managed) + 1)
             /\ \A i \in 1..Len(req.managed) : req'.managed[i] = req.managed[i]
             /\ req'.managed[Len(req.managed) + 1] = [app |-> a, items |-> f.items]
             /\ partial' = (partial \/ ~f.all) /\ f.all \in BOOLEAN
  <1>1. PICK f \in Discovered(a) :
             /\ req' = [req EXCEPT !.todo = @ \ {a},
                                   !.managed = Append(@, [app |-> a, items |-> f.items])]
             /\ partial' = (partial \/ ~f.all)
    BY DEF Discover
  <1>2. Busy /\ req \in Requests /\ a \in req.todo /\ req.pc = "discover"
    <2>1. req.pc = "discover" /\ a \in req.todo
      BY DEF Discover
    <2>2. Busy
      BY <2>1, IdleShape DEF Busy
    <2> QED
      BY <2>1, <2>2, BusyShape
  <1>3. f.items \subseteq Items /\ f.all \in BOOLEAN
    BY DiscoveredFacts DEF Typed
  <1> DEFINE m == req.managed  e == [app |-> a, items |-> f.items]
  <1>4. m \in Seq(Entries) /\ e \in Entries
    BY <1>2, <1>3 DEF Requests, Entries
  <1>5. /\ Append(m, e) \in Seq(Entries) /\ Len(m) \in Nat
        /\ Len(Append(m, e)) = Len(m) + 1
        /\ \A i \in 1..Len(m) : Append(m, e)[i] = m[i]
        /\ Append(m, e)[Len(m) + 1] = e
    BY <1>4, AppendProperties, LenProperties
  <1>6. DOMAIN m = 1..Len(m) /\ DOMAIN Append(m, e) = 1..(Len(m) + 1)
    BY <1>4, <1>5, LenProperties
  <1>7. /\ req' \in Requests /\ req'.managed = Append(m, e)
        /\ req'.pc = "discover" /\ req'.todo = req.todo \ {a}
    BY <1>1, <1>2, <1>5 DEF Requests
  <1> QED
    BY <1>1, <1>2, <1>3, <1>5, <1>6, <1>7

LEMMA TypeNext == Typed /\ [Next]_vars => Typed'
  <1> SUFFICES ASSUME Typed, [Next]_vars PROVE Typed'
    OBVIOUS
  <1>1. ASSUME NEW s \in Sockets, Bind(s) \/ Unbind(s) PROVE Typed'
    <2>1. own' \in BOOLEAN
      BY <1>1, HostFacts
    <2> QED
      BY <1>1, <2>1, HostFacts DEF Typed, Busy
  <1>2. ASSUME NEW a \in Apps, NEW D \in Manifests, NEW kind \in {"start", "ports"},
               NEW up \in BOOLEAN, Request(a, D, kind, up)
        PROVE  Typed'
    <2>1. <<>> \in Seq(Entries) /\ DOMAIN <<>> = {}
      OBVIOUS
    <2>2. req' \in Requests /\ req'.managed = <<>> /\ req'.answer = {}
      BY <1>2, <2>1 DEF Request, Requests
    <2>3. own' \in BOOLEAN /\ partial' \in BOOLEAN
      BY <1>2 DEF Request
    <2>4. sockets' \subseteq Sockets /\ truth' \subseteq Sockets /\ changes' \in Nat
      BY <1>2 DEF Request, Typed
    <2> QED
      BY <2>1, <2>2, <2>3, <2>4 DEF Typed
  <1>3. CASE Observe
    <2>1. Busy /\ req \in Requests
      BY <1>3, IdleShape, BusyShape DEF Observe, Busy
    <2>2. PICK f \in Discovered(req.app) :
              req' = [req EXCEPT !.pc = "scan", !.seen = f.items] /\ partial' = ~f.all
      BY <1>3 DEF Observe
    <2>3. f.items \subseteq Items /\ req.app \in Apps
      BY <2>1, DiscoveredFacts DEF Typed, Requests
    <2>4. /\ req' \in Requests /\ req'.managed = req.managed /\ req'.todo = req.todo
          /\ req'.answer = req.answer /\ req.pc = "observe"
      BY <1>3, <2>1, <2>2, <2>3 DEF Requests, Observe
    <2>5. partial' \in BOOLEAN /\ own' \in BOOLEAN
      BY <1>3, <2>2 DEF Observe, Typed
    <2> QED
      BY <1>3, <2>1, <2>4, <2>5 DEF Observe, Typed
  <1>4. CASE ObserveFails
    <2>1. Busy /\ req \in Requests
      BY <1>4, IdleShape, BusyShape DEF ObserveFails, Busy
    <2>2. /\ req' \in Requests /\ req'.managed = req.managed /\ req'.todo = req.todo
          /\ req'.answer = req.answer /\ req.pc = "observe"
      BY <1>4, <2>1 DEF ObserveFails, Requests
    <2>3. partial' \in BOOLEAN /\ own' \in BOOLEAN
      BY <1>4 DEF ObserveFails, Typed
    <2> QED
      BY <1>4, <2>1, <2>2, <2>3 DEF ObserveFails, Typed
  <1>5. CASE Scan
    <2>1. Busy /\ req \in Requests
      BY <1>5, IdleShape, BusyShape DEF Scan, Busy
    <2>2. Listeners(sockets) \subseteq Items
      BY ListenersType DEF Typed
    <2>3. /\ req' \in Requests /\ req'.managed = req.managed /\ req'.todo = req.todo
          /\ req'.answer = req.answer /\ req.pc = "scan"
      BY <1>5, <2>1, <2>2 DEF Scan, Requests
    <2> QED
      BY <1>5, <2>1, <2>3 DEF Scan, Typed
  <1>6. CASE ScanFails
    <2>1. Busy /\ req \in Requests
      BY <1>6, IdleShape, BusyShape DEF ScanFails, Busy
    <2>2. /\ req' \in Requests /\ req'.managed = req.managed /\ req'.todo = req.todo
          /\ req'.answer = req.answer /\ req.pc = "scan"
      BY <1>6, <2>1 DEF ScanFails, Requests
    <2>3. partial' \in BOOLEAN /\ own' \in BOOLEAN
      BY <1>6 DEF ScanFails, Typed
    <2> QED
      BY <1>6, <2>1, <2>2, <2>3 DEF ScanFails, Typed
  <1>7. ASSUME NEW a \in Apps, Discover(a) PROVE Typed'
    <2>1. PICK f \in Discovered(a) :
             /\ Busy /\ a \in req.todo
             /\ req' \in Requests /\ req'.pc = "discover" /\ req'.todo = req.todo \ {a}
             /\ DOMAIN req.managed = 1..Len(req.managed) /\ Len(req.managed) \in Nat
             /\ DOMAIN req'.managed = 1..(Len(req.managed) + 1)
             /\ \A i \in 1..Len(req.managed) : req'.managed[i] = req.managed[i]
             /\ req'.managed[Len(req.managed) + 1] = [app |-> a, items |-> f.items]
             /\ partial' = (partial \/ ~f.all)
      BY <1>7, DiscoverFacts
    <2>2. \A i \in DOMAIN req'.managed :
             i \in DOMAIN req.managed \/ (i = Len(req.managed) + 1 /\ req'.managed[i].app = a)
      BY <2>1
    <2>3. \A i \in DOMAIN req'.managed : req'.managed[i].app \notin req'.todo
      BY <2>1, <2>2 DEF Typed
    <2>4. \A i \in DOMAIN req.managed : req'.managed[i].app # a
      BY <2>1 DEF Typed
    <2>5. \A i, j \in DOMAIN req'.managed : req'.managed[i].app = req'.managed[j].app => i = j
      BY <2>1, <2>2, <2>4 DEF Typed
    <2>6. partial' \in BOOLEAN /\ own' \in BOOLEAN
      BY <1>7, <2>1 DEF Discover, Typed
    <2>7. req'.answer = req.answer /\ req.pc # "done"
      BY <1>7, <2>1, BusyShape DEF Discover, Requests
    <2> QED
      BY <1>7, <2>1, <2>3, <2>5, <2>6, <2>7 DEF Discover, Typed
  <1>8. ASSUME NEW a \in Apps, DiscoverFails(a) PROVE Typed'
    <2>1. Busy /\ req \in Requests
      BY <1>8, IdleShape, BusyShape DEF DiscoverFails, Busy
    <2>2. /\ req' \in Requests /\ req'.managed = req.managed /\ req'.todo = req.todo \ {a}
          /\ req'.answer = req.answer /\ req.pc = "discover"
      BY <1>8, <2>1 DEF DiscoverFails, Requests
    <2>3. partial' \in BOOLEAN /\ own' \in BOOLEAN
      BY <1>8 DEF DiscoverFails, Typed
    <2> QED
      BY <1>8, <2>1, <2>2, <2>3 DEF DiscoverFails, Typed
  <1>9. CASE Answer
    <2>1. Busy /\ req \in Requests
      BY <1>9, IdleShape, BusyShape DEF Answer, Busy
    <2>2. Result(req) \subseteq AllViews \cup Verdicts
      BY <2>1, ResultType
    <2>3. /\ req' \in Requests /\ req'.managed = req.managed /\ req'.todo = req.todo
          /\ req'.pc = "done"
      BY <1>9, <2>1, <2>2 DEF Answer, Requests, Result
    <2> QED
      BY <1>9, <2>1, <2>3 DEF Answer, Typed, history
  <1>10. CASE Done
    <2>1. partial' \in BOOLEAN /\ own' \in BOOLEAN /\ changes' \in Nat
      BY <1>10 DEF Done
    <2> QED
      BY <1>10, <2>1 DEF Done, Typed, Busy
  <1>11. CASE UNCHANGED vars
    BY <1>11 DEF vars, history, Typed, Busy
  <1> QED
    BY <1>1, <1>2, <1>3, <1>4, <1>5, <1>6, <1>7, <1>8, <1>9, <1>10, <1>11 DEF Next

-----------------------------------------------------------------------------
(* Answers                                                                  *)

\* The answer does not depend on where the request stands
LEMMA SameResult ==
    ASSUME NEW r, NEW q,
           q.kind = r.kind, q.app = r.app, q.declared = r.declared, q.up = r.up, q.seen = r.seen,
           q.observed = r.observed, q.listeners = r.listeners, q.scanned = r.scanned,
           q.managed = r.managed
    PROVE  Result(q) = Result(r)
  <1>1. Conflicts(q) = Conflicts(r)
    BY DEF Conflicts
  <1>2. \A d : Status(d, q) = Status(d, r)
    BY <1>1 DEF Status
  <1>3. Remaining(q) = Remaining(r)
    BY DEF Remaining
  <1>4. Verdict(q) = Verdict(r)
    BY <1>1 DEF Verdict
  <1>5. Views(q) = Views(r)
    <2> DEFINE V(d, x) ==
                 [declared |-> {d}, observed |-> IF Match(d, x.seen) = {} THEN {}
                                     ELSE {CHOOSE item \in Match(d, x.seen) : TRUE},
                  status |-> Status(d, x)]
               U(x) == {[declared |-> {}, observed |-> {item}, status |-> "UNDECLARED"] :
                          item \in Remaining(x)}
    <2>1. \A d : V(d, q) = V(d, r)
      BY <1>2
    <2>2. U(q) = U(r)
      BY <1>3
    <2>3. \A x : Views(x) = {V(d, x) : d \in x.declared} \cup U(x)
      BY DEF Views
    <2> HIDE DEF V, U
    <2>4. {V(d, q) : d \in q.declared} = {V(d, r) : d \in r.declared}
      BY <2>1
    <2> QED
      BY <2>2, <2>3, <2>4
  <1> QED
    BY <1>4, <1>5 DEF Result

LEMMA AnsweredNext == Typed /\ Answered /\ [Next]_vars => Answered'
  <1> SUFFICES ASSUME Typed, Answered, [Next]_vars PROVE Answered'
    OBVIOUS
  <1>1. ASSUME NEW s \in Sockets, Bind(s) \/ Unbind(s) PROVE Answered'
    <2>1. UNCHANGED <<req, truth>>
      BY <1>1, HostFacts
    <2>2. Result(req') = Result(req)
      BY <2>1
    <2> QED
      BY <2>1, <2>2, Zenon DEF Answered, Scanned, Busy
  <1>2. ASSUME NEW a \in Apps, NEW D \in Manifests, NEW kind \in {"start", "ports"},
               NEW up \in BOOLEAN, Request(a, D, kind, up)
        PROVE  Answered'
    BY <1>2 DEF Request, Answered, Scanned
  <1>3. CASE Observe
    <2>1. Busy /\ req \in Requests
      BY <1>3, IdleShape, BusyShape DEF Observe, Busy
    <2>2. req'.pc = "scan"
      BY <1>3, <2>1 DEF Observe, Requests
    <2> QED
      BY <2>2 DEF Answered, Scanned
  <1>4. CASE ObserveFails
    <2>1. Busy /\ req \in Requests
      BY <1>4, IdleShape, BusyShape DEF ObserveFails, Busy
    <2>2. req'.pc = "scan"
      BY <1>4, <2>1 DEF ObserveFails, Requests
    <2> QED
      BY <2>2 DEF Answered, Scanned
  <1>5. CASE Scan
    <2>1. Busy /\ req \in Requests
      BY <1>5, IdleShape, BusyShape DEF Scan, Busy
    <2>2. /\ req'.declared = req.declared /\ req'.pc # "done"
          /\ req'.declared # {} => req'.listeners = Listeners(sockets)
      BY <1>5, <2>1 DEF Scan, Requests
    <2>3. truth' = sockets
      BY <1>5 DEF Scan
    <2> QED
      BY <2>2, <2>3 DEF Answered, Scanned, Listeners
  <1>6. CASE ScanFails
    <2>1. Busy /\ req \in Requests
      BY <1>6, IdleShape, BusyShape DEF ScanFails, Busy
    <2>2. ~req'.scanned /\ req'.pc = "answer"
      BY <1>6, <2>1 DEF ScanFails, Requests
    <2> QED
      BY <2>2 DEF Answered, Scanned
  <1>7. ASSUME NEW a \in Apps, Discover(a) \/ DiscoverFails(a) PROVE Answered'
    <2>1. Busy /\ req \in Requests /\ req.pc = "discover"
      BY <1>7, IdleShape, BusyShape DEF Discover, DiscoverFails, Busy
    <2>2. /\ req'.pc = "discover" /\ req'.declared = req.declared
          /\ req'.scanned = req.scanned /\ req'.listeners = req.listeners /\ truth' = truth
      BY <1>7, <2>1 DEF Discover, DiscoverFails, Requests
    <2> QED
      BY <2>1, <2>2 DEF Answered, Scanned, Listeners
  <1>8. CASE Answer
    <2>1. Busy /\ req \in Requests /\ req.pc \in {"discover", "answer"}
      BY <1>8, IdleShape, BusyShape DEF Answer, Busy
    <2>2. /\ req'.kind = req.kind /\ req'.app = req.app /\ req'.declared = req.declared
          /\ req'.up = req.up /\ req'.seen = req.seen /\ req'.observed = req.observed
          /\ req'.listeners = req.listeners /\ req'.scanned = req.scanned
          /\ req'.managed = req.managed /\ req'.answer = Result(req)
      BY <1>8, <2>1 DEF Answer, Requests, Result
    <2>3. Result(req') = Result(req)
      BY <2>2, SameResult
    <2>4. truth' = truth
      BY <1>8 DEF Answer, history
    <2> QED
      BY <2>1, <2>2, <2>3, <2>4 DEF Answered, Scanned, Listeners
  <1>9. CASE Done
    BY <1>9 DEF Done, Answered, Scanned, Busy
  <1>10. CASE UNCHANGED vars
    <2>1. UNCHANGED <<req, truth>>
      BY <1>10 DEF vars, history
    <2>2. Result(req') = Result(req)
      BY <2>1
    <2> QED
      BY <2>1, <2>2, Zenon DEF Answered, Scanned, Busy
  <1> QED
    BY <1>1, <1>2, <1>3, <1>4, <1>5, <1>6, <1>7, <1>8, <1>9, <1>10 DEF Next

\* Every variable has the values that the scan, the discoveries and the service's models can have.
THEOREM PortsTyping == Spec => []TypeOK
  <1>1. Init => Answered
    BY DEF Init, Answered, Scanned, Busy
  <1>2. Spec => [](Typed /\ Answered)
    BY TypeInit, TypeNext, AnsweredNext, <1>1, PTL DEF Spec
  <1>3. Typed /\ Answered => TypeOK
    <2> SUFFICES ASSUME Typed, Answered PROVE TypeOK
      OBVIOUS
    <2>1. {own, partial} \subseteq BOOLEAN /\ changes \in Nat
      BY DEF Typed
    <2>2. ASSUME req # Idle
          PROVE  /\ req.app \in Apps /\ req.declared \in Manifests
                 /\ req.seen \subseteq Items /\ req.listeners \subseteq Items
                 /\ \A i \in DOMAIN req.managed : /\ req.managed[i].app \in Apps \ req.todo
                                                  /\ req.managed[i].items \subseteq Items
                 /\ req.kind = "ports" => \A v \in req.answer : v.status \in Statuses
      <3>1. req \in Requests /\ Busy
        BY <2>2, BusyShape DEF Busy
      <3>2. \A i \in DOMAIN req.managed : req.managed[i] \in Entries
        <4>1. req.managed \in Seq(Entries)
          BY <3>1 DEF Requests
        <4> QED
          BY <4>1, ElementOfSeq, LenProperties
      <3>3. ASSUME req.kind = "ports", NEW v \in req.answer
            PROVE  v.status \in Statuses
        <4>1. req.pc = "done" /\ req.answer = Views(req)
          BY <3>1, <3>3 DEF Typed, Answered, Result
        <4> QED
          BY <3>1, <3>3, <4>1, ResultType
      <3>4. /\ req.app \in Apps /\ req.declared \in Manifests
            /\ req.seen \subseteq Items /\ req.listeners \subseteq Items
        BY <3>1 DEF Requests
      <3>5. \A i \in DOMAIN req.managed : /\ req.managed[i].app \in Apps \ req.todo
                                          /\ req.managed[i].items \subseteq Items
        BY <3>1, <3>2 DEF Typed, Entries
      <3> QED
        BY <3>3, <3>4, <3>5
    <2> QED
      BY <2>1, <2>2 DEF Typed, TypeOK
  <1> QED
    BY <1>2, <1>3, PTL

-----------------------------------------------------------------------------
(* Ownership                                                                *)

\* A step that neither asks an application nor begins or ends a request
Carried ==
    /\ Busy /\ Busy' /\ req'.app = req.app /\ req'.managed = req.managed
    /\ UNCHANGED <<sockets, own>>

\* What a step does to a request: begin or end it, carry it on, ask an application
LEMMA Steps ==
    ASSUME Typed, [Next]_vars
    PROVE  \/ \E s \in Sockets : Bind(s) \/ Unbind(s)
           \/ \E a \in Apps, D \in Manifests, kind \in {"start", "ports"}, up \in BOOLEAN :
                 Request(a, D, kind, up)
           \/ Carried
           \/ \E a \in Apps : Discover(a)
           \/ ~Busy'
           \/ UNCHANGED vars
  <1>1. CASE Observe
    <2>1. Busy /\ req \in Requests
      BY <1>1, IdleShape, BusyShape DEF Observe, Busy
    <2>2. req'.pc = "scan" /\ req'.app = req.app /\ req'.managed = req.managed
      BY <1>1, <2>1 DEF Observe, Requests
    <2> QED
      BY <1>1, <2>1, <2>2, IdleShape DEF Observe, Carried, Busy
  <1>2. CASE ObserveFails
    <2>1. Busy /\ req \in Requests
      BY <1>2, IdleShape, BusyShape DEF ObserveFails, Busy
    <2>2. req'.pc = "scan" /\ req'.app = req.app /\ req'.managed = req.managed
      BY <1>2, <2>1 DEF ObserveFails, Requests
    <2> QED
      BY <1>2, <2>1, <2>2, IdleShape DEF ObserveFails, Carried, Busy
  <1>3. CASE Scan
    <2>1. Busy /\ req \in Requests
      BY <1>3, IdleShape, BusyShape DEF Scan, Busy
    <2>2. /\ req'.pc \in {"answer", "discover"} /\ req'.app = req.app
          /\ req'.managed = req.managed
      BY <1>3, <2>1 DEF Scan, Requests
    <2> QED
      BY <1>3, <2>1, <2>2, IdleShape DEF Scan, Carried, Busy
  <1>4. CASE ScanFails
    <2>1. Busy /\ req \in Requests
      BY <1>4, IdleShape, BusyShape DEF ScanFails, Busy
    <2>2. req'.pc = "answer" /\ req'.app = req.app /\ req'.managed = req.managed
      BY <1>4, <2>1 DEF ScanFails, Requests
    <2> QED
      BY <1>4, <2>1, <2>2, IdleShape DEF ScanFails, Carried, Busy
  <1>5. ASSUME NEW a \in Apps, DiscoverFails(a) PROVE Carried
    <2>1. Busy /\ req \in Requests
      BY <1>5, IdleShape, BusyShape DEF DiscoverFails, Busy
    <2>2. req'.pc = "discover" /\ req'.app = req.app /\ req'.managed = req.managed
      BY <1>5, <2>1 DEF DiscoverFails, Requests
    <2> QED
      BY <1>5, <2>1, <2>2, IdleShape DEF DiscoverFails, Carried, Busy
  <1>6. CASE Answer
    <2>1. Busy /\ req \in Requests
      BY <1>6, IdleShape, BusyShape DEF Answer, Busy
    <2>2. req'.pc = "done" /\ req'.app = req.app /\ req'.managed = req.managed
      BY <1>6, <2>1 DEF Answer, Requests
    <2> QED
      BY <1>6, <2>1, <2>2, IdleShape DEF Answer, Carried, Busy, history
  <1>7. CASE Done
    BY <1>7 DEF Done, Busy
  <1> QED
    BY <1>1, <1>2, <1>3, <1>4, <1>5, <1>6, <1>7 DEF Next

LEMMA ForeignNext == Typed /\ Foreign /\ [Next]_vars => Foreign'
  <1> SUFFICES ASSUME Typed, Foreign, [Next]_vars PROVE Foreign'
    OBVIOUS
  <1>1. ASSUME NEW s \in Sockets, Bind(s) \/ Unbind(s) PROVE Foreign'
    <2>1. UNCHANGED req /\ own' = (Busy /\ (own \/ Known(req.app, sockets') # {}))
      BY <1>1, HostFacts
    <2>2. own \in BOOLEAN
      BY DEF Typed
    <2> QED
      BY <2>1, <2>2 DEF Foreign, Busy, Known
  <1>2. ASSUME NEW a \in Apps, NEW D \in Manifests, NEW kind \in {"start", "ports"},
               NEW up \in BOOLEAN, Request(a, D, kind, up)
        PROVE  Foreign'
    <2>1. req'.app = a /\ req'.managed = <<>> /\ sockets' = sockets
      BY <1>2 DEF Request
    <2>2. own' = (Known(a, sockets) # {})
      BY <1>2 DEF Request
    <2>3. DOMAIN <<>> = {}
      OBVIOUS
    <2> QED
      BY <2>1, <2>2, <2>3 DEF Foreign, Known
  <1>3. CASE Carried
    BY <1>3 DEF Carried, Foreign, Known
  <1>4. ASSUME NEW a \in Apps, Discover(a) PROVE Foreign'
    <2>1. PICK f \in Discovered(a) :
             /\ Busy /\ a \in req.todo
             /\ req' = [req EXCEPT !.todo = @ \ {a},
                                   !.managed = Append(@, [app |-> a, items |-> f.items])]
             /\ DOMAIN req.managed = 1..Len(req.managed) /\ Len(req.managed) \in Nat
             /\ DOMAIN req'.managed = 1..(Len(req.managed) + 1)
             /\ \A i \in 1..Len(req.managed) : req'.managed[i] = req.managed[i]
             /\ req'.managed[Len(req.managed) + 1] = [app |-> a, items |-> f.items]
      BY <1>4, DiscoverFacts
    <2>2. req'.app = req.app /\ UNCHANGED <<sockets, own>>
      BY <1>4, <2>1, BusyShape DEF Discover, Requests
    <2>3. Known(a, sockets) = {} => f.items = {}
      BY DiscoveredFacts DEF Typed
    <2>4. \A i \in DOMAIN req'.managed :
             \/ i \in DOMAIN req.managed /\ req'.managed[i] = req.managed[i]
             \/ req'.managed[i].app = a /\ req'.managed[i].items = f.items
      BY <2>1
    <2> QED
      BY <2>1, <2>2, <2>3, <2>4 DEF Foreign, Known
  <1>5. CASE ~Busy'
    BY <1>5 DEF Foreign
  <1>6. CASE UNCHANGED vars
    BY <1>6 DEF vars, history, Foreign, Busy, Known
  <1> QED
    BY <1>1, <1>2, <1>3, <1>4, <1>5, <1>6, Steps

\* addresses_conflict: through two addresses that conflict some address is reached, and, but for
\* mapped ones, only through them
LEMMA ConflictIsCollision ==
    ASSUME NEW a \in Addresses, NEW b \in Addresses
    PROVE  /\ AddressesConflict(a, b) => Reached(a) \cap Reached(b) # {}
           /\ a \notin Mapped /\ b \notin Mapped /\ Reached(a) \cap Reached(b) # {} =>
                AddressesConflict(a, b)
  <1>1. /\ Any4 \in V4 /\ Any6 \in V6 /\ V4 \cap V6 = {} /\ Any4 # Any6
        /\ Mapped \subseteq V6 /\ Any6 \notin Mapped /\ \A x \in Mapped : MapOf[x] \in V4
    BY PortsAssumption
  <1>2. \A x \in Addresses : /\ Unmapped(x) \in Addresses
                            /\ Unmapped(x) \in Reached(x) /\ (x = Any6 => Reached(x) = Addresses)
                            /\ (x \in V4 => Unmapped(x) = x)
    BY <1>1 DEF Unmapped, Reached, Addresses
  <1>3. ASSUME AddressesConflict(a, b) PROVE Reached(a) \cap Reached(b) # {}
    <2>1. CASE a = b
      BY <1>2, <2>1
    <2>2. CASE a = Any6
      BY <1>2, <2>2
    <2>3. CASE b = Any6
      BY <1>2, <2>3
    <2>4. CASE a = Any4 /\ b \in V4
      BY <1>1, <1>2, <2>4 DEF Reached
    <2>5. CASE b = Any4 /\ a \in V4
      BY <1>1, <1>2, <2>5 DEF Reached
    <2> QED
      BY <1>3, <2>1, <2>2, <2>3, <2>4, <2>5 DEF AddressesConflict
  <1>4. ASSUME a \notin Mapped, b \notin Mapped, NEW x \in Reached(a) \cap Reached(b)
        PROVE  AddressesConflict(a, b)
    <2>1. Unmapped(a) = a /\ Unmapped(b) = b
      BY <1>4 DEF Unmapped
    <2> QED
      BY <1>1, <1>4, <2>1 DEF Reached, AddressesConflict, Addresses
  <1> QED
    BY <1>3, <1>4

\* A listener stands for a socket
LEMMA Masked ==
    ASSUME NEW S \in SUBSET Sockets
    PROVE  /\ \A s \in S : \E l \in Listeners(S) :
                /\ l.addr = s.addr /\ l.port = s.port
                /\ l.pid = IF s.pid \in Hidden THEN NoPid ELSE s.pid
           /\ \A l \in Listeners(S) : \E s \in S :
                /\ l.addr = s.addr /\ l.port = s.port
                /\ l.pid = IF s.pid \in Hidden THEN NoPid ELSE s.pid
  <1> DEFINE mask(s) == [s EXCEPT !.pid = IF @ \in Hidden THEN NoPid ELSE @]
  <1>1. \A s \in Sockets :
           /\ mask(s).addr = s.addr /\ mask(s).port = s.port
           /\ mask(s).pid = IF s.pid \in Hidden THEN NoPid ELSE s.pid
    BY DEF Sockets
  <1>2. Listeners(S) = {mask(s) : s \in S}
    BY DEF Listeners
  <1> HIDE DEF mask
  <1> QED
    BY <1>1, <1>2

LEMMA ViewOf ==
    ASSUME NEW r, NEW d, NEW v \in Views(r), v.declared = {d}
    PROVE  d \in r.declared /\ v.status = Status(d, r)
  <1>1. CASE \E e \in r.declared :
               v = [declared |-> {e}, observed |-> IF Match(e, r.seen) = {} THEN {}
                                   ELSE {CHOOSE item \in Match(e, r.seen) : TRUE},
                    status |-> Status(e, r)]
    <2>1. PICK e \in r.declared : v.declared = {e} /\ v.status = Status(e, r)
      BY <1>1
    <2>2. e = d
      BY <2>1
    <2> QED
      BY <2>1, <2>2
  <1>2. CASE \E item \in Remaining(r) :
               v = [declared |-> {}, observed |-> {item}, status |-> "UNDECLARED"]
    BY <1>2
  <1> QED
    BY <1>1, <1>2 DEF Views

\* conflicts: without sockets of its own the application owns no listener, so that every listener
\* that collides with a declared port is a conflict (but for mapped addresses); and a scan that fails is never taken for an
\* empty one.  A start is let through, and a port is shown as not in use, only if it was free.
THEOREM FreePortsAreFree == Spec => []FreeMeansFree
  <1>1. Init => Answered /\ Foreign
    BY DEF Init, Answered, Foreign, Scanned, Busy
  <1>2. Spec => [](Typed /\ Answered /\ Foreign)
    BY TypeInit, TypeNext, AnsweredNext, ForeignNext, <1>1, PTL DEF Spec
  <1>3. Typed /\ Answered /\ Foreign => FreeMeansFree
    <2> SUFFICES ASSUME Typed, Answered, Foreign, ~own,
                        NEW d \in Free, NEW s \in truth, Collide(d, s),
                        d.addr \notin Mapped, s.addr \notin Mapped
                 PROVE  FALSE
      BY DEF FreeMeansFree
    <2>1. req.pc = "done" /\ d \in req.declared
      BY DEF Free
    <2>2. Busy /\ req \in Requests
      BY <2>1, IdleShape, BusyShape DEF Busy
    <2>3. s \in Sockets /\ d \in Endpoints /\ truth \in SUBSET Sockets
      BY <2>1, <2>2 DEF Typed, Requests, Manifests
    <2>4. req.answer = Result(req)
      BY <2>1, <2>2 DEF Answered
    <2>5. \A l : ~Owner(l, req.managed, req.app)
      BY <2>2 DEF Foreign, Owner
    <2>6. req.scanned => \E l \in Conflicts(req) : l.port = d.port
      <3>1. PICK l \in Listeners(truth) : l.addr = s.addr /\ l.port = s.port
        BY <2>3, Masked
      <3>2. d.port = s.port /\ AddressesConflict(d.addr, s.addr)
        BY <2>3, ConflictIsCollision DEF Collide, Endpoints, Sockets
      <3>3. Overlap(d, l)
        BY <3>1, <3>2 DEF Overlap
      <3>4. req.scanned => req.listeners = Listeners(truth)
        BY <2>1, <2>2 DEF Answered, Scanned
      <3> QED
        BY <2>1, <2>5, <3>1, <3>2, <3>3, <3>4 DEF Conflicts
    <2>7. CASE req.kind = "start"
      <3>1. req.answer = {"start"}
        BY <2>1, <2>7 DEF Free
      <3>2. Verdict(req) = {"start"}
        BY <2>4, <2>7, <3>1 DEF Result
      <3> QED
        BY <2>6, <3>2 DEF Verdict
    <2>8. CASE req.kind = "ports"
      <3>1. PICK v \in req.answer : v.declared = {d} /\ v.status \in {"NOT_LISTENING", "DECLARED"}
        BY <2>1, <2>8 DEF Free
      <3>2. Status(d, req) \in {"NOT_LISTENING", "DECLARED"}
        BY <2>4, <2>8, <3>1, ViewOf DEF Result
      <3> QED
        BY <2>6, <3>2 DEF Status
    <2> QED
      BY <2>2, <2>7, <2>8 DEF Requests
  <1> QED
    BY <1>2, <1>3, PTL

-----------------------------------------------------------------------------
(* A quiet host                                                             *)

LEMMA QuietNext == Typed /\ Quiet /\ [Next]_vars => Quiet'
  <1> SUFFICES ASSUME Typed, Quiet, [Next]_vars PROVE Quiet'
    OBVIOUS
  <1>1. ASSUME NEW s \in Sockets, Bind(s) \/ Unbind(s) PROVE Quiet'
    BY <1>1, HostFacts DEF Quiet, Scanned, Busy
  <1>2. ASSUME NEW a \in Apps, NEW D \in Manifests, NEW kind \in {"start", "ports"},
               NEW up \in BOOLEAN, Request(a, D, kind, up)
        PROVE  Quiet'
    <2>1. /\ req'.pc = (IF kind = "ports" THEN "observe" ELSE "scan") /\ req'.kind = kind
          /\ req'.todo = Apps /\ req'.managed = <<>>
      BY <1>2 DEF Request
    <2>2. req'.scanned /\ req'.observed
      BY <1>2 DEF Request
    <2>3. DOMAIN <<>> = {}
      OBVIOUS
    <2>4. Complete'
      BY <2>1, <2>2, <2>3 DEF Complete
    <2>5. ~partial'
      BY <1>2 DEF Request
    <2> QED
      BY <2>1, <2>4, <2>5 DEF Quiet, Scanned
  <1>3. CASE Observe
    <2>1. Busy /\ req \in Requests /\ req.pc = "observe"
      BY <1>3, IdleShape, BusyShape DEF Observe, Busy
    <2>2. PICK f \in Discovered(req.app) :
              req' = [req EXCEPT !.pc = "scan", !.seen = f.items] /\ partial' = ~f.all
      BY <1>3 DEF Observe
    <2>3. /\ req'.pc = "scan" /\ req'.seen = f.items /\ req'.app = req.app
          /\ req'.scanned = req.scanned /\ req'.observed = req.observed
          /\ req'.managed = req.managed /\ req'.todo = req.todo
      BY <2>1, <2>2 DEF Requests
    <2>4. UNCHANGED <<sockets, truth, changes>>
      BY <1>3 DEF Observe
    <2>5. ~partial' => f.items = Whole(req.app, sockets)
      BY <2>1, <2>2, DiscoveredFacts DEF Typed, Requests
    <2>6. changes = 0 => Complete
      BY <2>1 DEF Quiet
    <2>7. changes' = 0 /\ ~partial' => Complete'
      BY <2>3, <2>4, <2>5, <2>6 DEF Complete
    <2> QED
      BY <2>3, <2>7 DEF Quiet, Scanned
  <1>4. CASE ObserveFails
    <2>1. Busy /\ req \in Requests
      BY <1>4, IdleShape, BusyShape DEF ObserveFails, Busy
    <2>2. req'.pc = "scan"
      BY <1>4, <2>1 DEF ObserveFails, Requests
    <2> QED
      BY <1>4, <2>2 DEF ObserveFails, Quiet, Scanned
  <1>5. CASE Scan
    <2>1. Busy /\ req \in Requests /\ req.pc = "scan"
      BY <1>5, IdleShape, BusyShape DEF Scan, Busy
    <2>2. /\ req'.pc = (IF req.declared = {} THEN "answer" ELSE "discover")
          /\ req'.declared = req.declared /\ req'.kind = req.kind
          /\ req'.seen = req.seen /\ req'.app = req.app
          /\ req'.scanned = req.scanned /\ req'.observed = req.observed
          /\ req'.managed = req.managed /\ req'.todo = req.todo
      BY <1>5, <2>1 DEF Scan, Requests
    <2>3. UNCHANGED <<sockets, changes, partial>> /\ truth' = sockets
      BY <1>5 DEF Scan
    <2>4. Complete => Complete'
      BY <2>1, <2>2, <2>3 DEF Complete
    <2> QED
      BY <2>1, <2>2, <2>3, <2>4 DEF Quiet
  <1>6. CASE ScanFails
    <2>1. Busy /\ req \in Requests
      BY <1>6, IdleShape, BusyShape DEF ScanFails, Busy
    <2>2. req'.pc = "answer"
      BY <1>6, <2>1 DEF ScanFails, Requests
    <2> QED
      BY <1>6, <2>2 DEF ScanFails, Quiet, Scanned
  <1>7. ASSUME NEW a \in Apps, Discover(a) PROVE Quiet'
    <2>1. PICK f \in Discovered(a) :
             /\ Busy /\ a \in req.todo
             /\ req' = [req EXCEPT !.todo = @ \ {a},
                                   !.managed = Append(@, [app |-> a, items |-> f.items])]
             /\ req'.pc = "discover" /\ req'.todo = req.todo \ {a}
             /\ DOMAIN req.managed = 1..Len(req.managed) /\ Len(req.managed) \in Nat
             /\ DOMAIN req'.managed = 1..(Len(req.managed) + 1)
             /\ \A i \in 1..Len(req.managed) : req'.managed[i] = req.managed[i]
             /\ req'.managed[Len(req.managed) + 1] = [app |-> a, items |-> f.items]
             /\ partial' = (partial \/ ~f.all)
      BY <1>7, DiscoverFacts
    <2>2. UNCHANGED <<sockets, changes, truth>> /\ req.pc = "discover" /\ req \in Requests
      BY <1>7, <2>1, BusyShape DEF Discover
    <2>3. /\ req'.declared = req.declared /\ req'.kind = req.kind
          /\ req'.seen = req.seen /\ req'.app = req.app
          /\ req'.scanned = req.scanned /\ req'.observed = req.observed
      BY <2>1, <2>2 DEF Requests
    <2>4. f.all => f.items = Whole(a, sockets)
      BY DiscoveredFacts DEF Typed
    <2>5. \A i \in DOMAIN req'.managed :
             \/ i \in DOMAIN req.managed /\ req'.managed[i] = req.managed[i]
             \/ req'.managed[i].app = a /\ req'.managed[i].items = f.items
      BY <2>1
    <2>6. ASSUME Complete, f.all
          PROVE  Complete'
      <3>1. \A i \in DOMAIN req'.managed :
               req'.managed[i].items = Whole(req'.managed[i].app, sockets')
        BY <2>2, <2>4, <2>5, <2>6 DEF Complete
      <3>2. \A b \in Apps \ req'.todo : \E i \in DOMAIN req'.managed : req'.managed[i].app = b
        <4> SUFFICES ASSUME NEW b \in Apps \ req'.todo
                     PROVE  \E i \in DOMAIN req'.managed : req'.managed[i].app = b
          OBVIOUS
        <4>1. CASE b = a
          <5>1. Len(req.managed) + 1 \in DOMAIN req'.managed
            BY <2>1
          <5> QED
            BY <2>1, <4>1, <5>1
        <4>2. CASE b # a
          <5>1. PICK i \in DOMAIN req.managed : req.managed[i].app = b
            BY <2>1, <2>6, <4>2 DEF Complete
          <5>2. i \in DOMAIN req'.managed /\ req'.managed[i] = req.managed[i]
            BY <2>1, <5>1
          <5> QED
            BY <5>1, <5>2
        <4> QED
          BY <4>1, <4>2
      <3> QED
        BY <2>1, <2>2, <2>3, <2>6, <3>1, <3>2 DEF Complete
    <2>7. ~partial' => ~partial /\ f.all
      BY <2>1
    <2> QED
      BY <2>1, <2>2, <2>6, <2>7 DEF Quiet, Scanned
  <1>8. ASSUME NEW a \in Apps, DiscoverFails(a) PROVE Quiet'
    <2>1. Busy /\ req \in Requests /\ req.pc = "discover"
      BY <1>8, IdleShape, BusyShape DEF DiscoverFails, Busy
    <2>2. req'.pc = "discover"
      BY <1>8, <2>1 DEF DiscoverFails, Requests
    <2> QED
      BY <1>8, <2>1, <2>2 DEF DiscoverFails, Quiet, Scanned
  <1>9. CASE Answer
    <2>1. Busy /\ req \in Requests /\ (req.pc = "answer" \/ (req.pc = "discover" /\ req.todo = {}))
      BY <1>9, IdleShape, BusyShape DEF Answer, Busy
    <2>2. /\ req'.pc = "done"
          /\ req'.declared = req.declared /\ req'.kind = req.kind
          /\ req'.seen = req.seen /\ req'.app = req.app
          /\ req'.scanned = req.scanned /\ req'.observed = req.observed
          /\ req'.managed = req.managed /\ req'.todo = req.todo
      BY <1>9, <2>1 DEF Answer, Requests
    <2>3. UNCHANGED <<sockets, changes, partial, truth>>
      BY <1>9 DEF Answer, history
    <2>4. Complete => Complete'
      BY <2>1, <2>2, <2>3 DEF Complete
    <2> QED
      BY <2>1, <2>2, <2>3, <2>4 DEF Quiet, Scanned
  <1>10. CASE Done
    BY <1>10 DEF Done, Quiet, Scanned, Busy
  <1>11. CASE UNCHANGED vars
    BY <1>11 DEF vars, history, Quiet, Complete, Scanned, Busy
  <1> QED
    BY <1>1, <1>2, <1>3, <1>4, <1>5, <1>6, <1>7, <1>8, <1>9, <1>10, <1>11 DEF Next

\* A complete discovery has an item for each socket of the application, and no other
LEMMA WholeItems ==
    ASSUME NEW S \in SUBSET Sockets, NEW a
    PROVE  /\ \A t \in Known(a, S) : \E item \in Whole(a, S) :
                item.addr = t.addr /\ item.port = t.port
           /\ \A item \in Whole(a, S) : \E t \in Known(a, S) :
                /\ item.addr = t.addr /\ item.port = t.port
                /\ item.pid = IF a \in Composed THEN NoPid ELSE t.pid
  <1>1. Known(a, S) \subseteq Sockets
    BY DEF Known
  <1>2. CASE a \in Composed
    <2> DEFINE strip(s) == [s EXCEPT !.pid = NoPid]
    <2>1. \A s \in Sockets :
             strip(s).addr = s.addr /\ strip(s).port = s.port /\ strip(s).pid = NoPid
      BY DEF Sockets
    <2>2. Whole(a, S) = {strip(s) : s \in Known(a, S)}
      BY <1>2 DEF Whole
    <2> HIDE DEF strip
    <2> QED
      BY <1>1, <1>2, <2>1, <2>2
  <1>3. CASE a \notin Composed
    BY <1>3 DEF Whole
  <1> QED
    BY <1>2, <1>3

LEMMA CollideSymmetric ==
    ASSUME NEW x, NEW y, Collide(x, y)
    PROVE  Collide(y, x)
  BY DEF Collide

\* system_ports with complete discoveries: a listener matches an item of an application only by a
\* process that they share or by addresses that collide
LEMMA MatchMeans ==
    ASSUME NEW s \in Sockets, NEW t \in Sockets, NEW b, NEW l, NEW item,
           l.addr = s.addr, l.port = s.port, l.pid = IF s.pid \in Hidden THEN NoPid ELSE s.pid,
           item.addr = t.addr, item.port = t.port,
           item.pid = IF b \in Composed THEN NoPid ELSE t.pid
    PROVE  /\ Matches(l, item) => s.pid = t.pid \/ Collide(s, t)
           /\ s.addr = t.addr /\ s.port = t.port => Matches(l, item)
  <1>1. s.addr \in Addresses /\ t.addr \in Addresses
    BY DEF Sockets
  <1>2. Overlap(l, item) => Collide(s, t)
    BY <1>1, ConflictIsCollision DEF Overlap, Collide
  <1>3. l.pid # NoPid /\ l.pid = item.pid => s.pid = t.pid
    OBVIOUS
  <1>4. s.addr = t.addr /\ s.port = t.port => Overlap(l, item)
    BY DEF Overlap, AddressesConflict
  <1> QED
    BY <1>2, <1>3, <1>4 DEF Matches

\* The attribution is exact when nothing changes, nothing is missed and no address is shared
LEMMA OwnerExact ==
    ASSUME Typed, Quiet, Busy, req.pc = "done", changes = 0, ~partial, req.declared # {},
           ~Ambiguous(req.app), NEW s \in truth, NEW l,
           l.addr = s.addr, l.port = s.port, l.pid = IF s.pid \in Hidden THEN NoPid ELSE s.pid
    PROVE  Owner(l, req.managed, req.app) <=> s \in Known(req.app, truth)
  <1> DEFINE a == req.app  m == req.managed
  <1>1. req \in Requests /\ a \in Apps /\ truth = sockets /\ truth \in SUBSET Sockets /\ Complete
    BY BusyShape DEF Quiet, Scanned, Typed, Requests
  <1>2. /\ \A i \in DOMAIN m : m[i].items = Whole(m[i].app, truth)
        /\ \E i \in DOMAIN m : m[i].app = a
    BY <1>1 DEF Complete
  <1>3. m \in Seq(Entries) /\ DOMAIN m = 1..Len(m) /\ Len(m) \in Nat
    BY <1>1, LenProperties DEF Requests
  <1>4. \A i \in DOMAIN m : m[i].app \in Apps
    <2>1. \A i \in DOMAIN m : m[i] \in Entries
      BY <1>3, ElementOfSeq
    <2> QED
      BY <2>1 DEF Entries
  <1>5. ASSUME NEW i \in DOMAIN m, m[i].app = a, NEW item \in m[i].items, Matches(l, item)
        PROVE  s \in Known(a, truth)
    <2>1. item \in Whole(a, truth)
      BY <1>2, <1>5
    <2>2. PICK t \in Known(a, truth) :
              /\ item.addr = t.addr /\ item.port = t.port
              /\ item.pid = IF a \in Composed THEN NoPid ELSE t.pid
      BY <1>1, <2>1, WholeItems
    <2>3. t \in truth /\ t \in Sockets /\ s \in Sockets
      BY <1>1, <2>2 DEF Known
    <2>4. s.pid = t.pid \/ Collide(s, t)
      BY <1>5, <2>2, <2>3, MatchMeans
    <2>5. CASE s.pid = t.pid
      BY <2>2, <2>5 DEF Known
    <2>6. CASE Collide(s, t)
      BY <2>2, <2>6, CollideSymmetric DEF Ambiguous
    <2> QED
      BY <2>4, <2>5, <2>6
  <1>6. ASSUME s \in Known(a, truth), NEW j \in DOMAIN m, m[j].app # a, NEW item \in m[j].items
        PROVE  ~Matches(l, item)
    <2> DEFINE b == m[j].app
    <2>1. item \in Whole(b, truth) /\ b \in Apps /\ b # a
      BY <1>2, <1>4, <1>6
    <2>2. PICK t \in Known(b, truth) :
              /\ item.addr = t.addr /\ item.port = t.port
              /\ item.pid = IF b \in Composed THEN NoPid ELSE t.pid
      BY <1>1, <2>1, WholeItems
    <2>3. t \in truth /\ t \in Sockets /\ s \in Sockets
      BY <1>1, <2>2 DEF Known
    <2>4. Matches(l, item) => s.pid = t.pid \/ Collide(s, t)
      BY <2>2, <2>3, MatchMeans
    <2>5. PidsOf[a] \cap PidsOf[b] = {}
      BY <1>1, <2>1, PortsAssumption
    <2>6. s.pid \in PidsOf[a] /\ t.pid \in PidsOf[b]
      BY <1>6, <2>2 DEF Known
    <2>7. s.pid # t.pid /\ t \notin Known(a, truth)
      BY <2>5, <2>6 DEF Known
    <2>8. ~Collide(s, t)
      BY <1>6, <2>3, <2>7 DEF Ambiguous
    <2> QED
      BY <2>4, <2>7, <2>8
  <1>7. ASSUME s \in Known(a, truth) PROVE Owner(l, m, a)
    <2>1. PICK i \in DOMAIN m : m[i].app = a
      BY <1>2
    <2>2. PICK item \in Whole(a, truth) : item.addr = s.addr /\ item.port = s.port
      BY <1>1, <1>7, WholeItems
    <2>3. item \in m[i].items
      BY <1>2, <2>1, <2>2
    <2>4. Matches(l, item)
      BY <2>2 DEF Matches, Overlap, AddressesConflict
    <2>5. \A j \in 1..(i - 1) : j \in DOMAIN m /\ m[j].app # a
      <3>1. \A j \in 1..(i - 1) : j \in DOMAIN m /\ j # i
        BY <1>3, <2>1
      <3> QED
        BY <2>1, <3>1 DEF Typed
    <2>6. \A j \in 1..(i - 1) : ~ \E x \in m[j].items : Matches(l, x)
      BY <1>6, <1>7, <2>5
    <2> QED
      BY <2>1, <2>3, <2>4, <2>6 DEF Owner
  <1> QED
    BY <1>5, <1>7 DEF Owner

LEMMA ConflictsExact ==
    ASSUME Typed, Answered, Quiet, Busy, req.pc = "done", changes = 0, ~partial,
           Unmixed, ~Ambiguous(req.app)
    PROVE  /\ Conflicts(req) # {} <=> \E d \in req.declared : Others(d)
           /\ \A d \in req.declared : (\E l \in Conflicts(req) : l.port = d.port) <=> Others(d)
  <1>1. req \in Requests /\ truth \in SUBSET Sockets /\ req.declared \in Manifests /\ req.scanned
    BY BusyShape DEF Typed, Requests, Quiet, Complete
  <1>2. CASE req.declared = {}
    BY <1>2 DEF Conflicts
  <1>3. CASE req.declared # {}
    <2>1. req.listeners = Listeners(truth)
      BY <1>1, <1>3 DEF Answered, Scanned
    <2>2. req.declared \subseteq Endpoints /\ \A d, e \in req.declared : d.port = e.port => d = e
      BY <1>1 DEF Manifests
    \* A listener overlaps with a declared port as its socket does
    <2>3. ASSUME NEW d \in req.declared, NEW s \in truth, NEW l, l.addr = s.addr, l.port = s.port
          PROVE  Overlap(d, l) <=> Collide(d, s)
      <3>1. d.addr \in Addresses /\ s.addr \in Addresses
        BY <1>1, <2>2 DEF Endpoints, Sockets
      <3> QED
        BY <2>3, <3>1, ConflictIsCollision DEF Overlap, Collide, Unmixed
    <2>4. ASSUME NEW l \in Conflicts(req)
          PROVE  \E d \in req.declared : Others(d) /\ l.port = d.port
      <3>1. PICK d \in req.declared : Overlap(d, l)
        BY <2>4 DEF Conflicts
      <3>2. l \in Listeners(truth) /\ ~Owner(l, req.managed, req.app)
        BY <2>1, <2>4 DEF Conflicts
      <3>3. PICK s \in truth : /\ l.addr = s.addr /\ l.port = s.port
                               /\ l.pid = IF s.pid \in Hidden THEN NoPid ELSE s.pid
        BY <1>1, <3>2, Masked
      <3>4. s \notin Known(req.app, truth)
        BY <1>3, <3>2, <3>3, OwnerExact
      <3>5. Collide(d, s)
        BY <2>3, <3>1, <3>3
      <3> QED
        BY <3>1, <3>3, <3>4, <3>5 DEF Others, Overlap
    <2>5. ASSUME NEW d \in req.declared, Others(d)
          PROVE  \E l \in Conflicts(req) : l.port = d.port
      <3>1. PICK s \in truth \ Known(req.app, truth) : Collide(d, s)
        BY <2>5 DEF Others
      <3>2. PICK l \in Listeners(truth) : /\ l.addr = s.addr /\ l.port = s.port
                                          /\ l.pid = IF s.pid \in Hidden THEN NoPid ELSE s.pid
        BY <1>1, Masked
      <3>3. ~Owner(l, req.managed, req.app)
        BY <1>3, <3>1, <3>2, OwnerExact
      <3>4. Overlap(d, l)
        BY <2>3, <3>1, <3>2
      <3> QED
        BY <2>1, <3>2, <3>3, <3>4 DEF Conflicts, Overlap
    <2>6. \A d, e \in req.declared : d.port = e.port => d = e
      BY <2>2
    <2> QED
      BY <2>4, <2>5, <2>6
  <1> QED
    BY <1>2, <1>3

\* system_ports, conflicts and ports: when the sockets stay as they are and every discovery is
\* complete, the first application that matches a listener by process or address is its owner (no
\* two applications share a process), so the verdict and every status are the true ones.
THEOREM QuietAnswersExact == Spec => []QuietAnswerExact
  <1>1. Init => Answered /\ Quiet
    BY DEF Init, Answered, Quiet, Scanned, Busy
  <1>2. Spec => [](Typed /\ Answered /\ Quiet)
    BY TypeInit, TypeNext, AnsweredNext, QuietNext, <1>1, PTL DEF Spec
  <1>3. Typed /\ Answered /\ Quiet => QuietAnswerExact
    <2> SUFFICES ASSUME Typed, Answered, Quiet, req.pc = "done", changes = 0, ~partial,
                        Unmixed, ~Ambiguous(req.app)
                 PROVE  QuietAnswerExact
      BY DEF QuietAnswerExact
    <2>1. Busy /\ req \in Requests
      BY IdleShape, BusyShape DEF Busy
    <2>2. /\ Conflicts(req) # {} <=> \E d \in req.declared : Others(d)
          /\ \A d \in req.declared : (\E l \in Conflicts(req) : l.port = d.port) <=> Others(d)
      BY <2>1, ConflictsExact
    <2>3. req.answer = Result(req) /\ Complete /\ truth = sockets /\ truth \in SUBSET Sockets
      BY <2>1 DEF Answered, Quiet, Scanned, Typed
    <2>4. req.scanned /\ req.observed
      BY <2>3 DEF Complete
    <2>5. CASE req.kind = "start"
      <3>1. req.answer = IF \E d \in req.declared : Others(d) THEN {"PORT_CONFLICT"} ELSE {"start"}
        BY <2>2, <2>3, <2>4, <2>5 DEF Result, Verdict
      <3> QED
        BY <2>5, <3>1 DEF QuietAnswerExact
    <2>6. CASE req.kind = "ports"
      <3>1. req.seen = Whole(req.app, truth)
        BY <2>3, <2>6 DEF Complete
      <3>2. ASSUME NEW d \in req.declared
            PROVE  Match(d, req.seen) # {} <=>
                     \E s \in Known(req.app, truth) : s.addr = d.addr /\ s.port = d.port
        BY <2>3, <3>1, WholeItems DEF Match
      <3>3. ASSUME NEW d \in req.declared, NEW v \in req.answer, v.declared = {d}
            PROVE  v.status = Status(d, req)
        BY <2>3, <2>6, <3>3, ViewOf DEF Result
      <3>4. ASSUME NEW d \in req.declared
            PROVE  Status(d, req) =
                     IF \E s \in Known(req.app, truth) : s.addr = d.addr /\ s.port = d.port
                     THEN "LISTENING"
                     ELSE IF Others(d) THEN "CONFLICTED"
                     ELSE IF req.up THEN "NOT_LISTENING" ELSE "DECLARED"
        BY <2>2, <2>4, <3>2 DEF Status
      <3> QED
        BY <2>6, <3>3, <3>4 DEF QuietAnswerExact
    <2> QED
      BY <2>1, <2>5, <2>6 DEF Requests
  <1> QED
    BY <1>2, <1>3, PTL

-----------------------------------------------------------------------------
(* Views                                                                    *)

\* Each observed port is taken by the declared port at its address, or listed as undeclared
LEMMA ShownOnce ==
    ASSUME NEW r \in Requests
    PROVE  /\ \A d \in r.declared : \E w : {v \in Views(r) : d \in v.declared} = {w}
           /\ \A item \in r.seen : \E w : {v \in Views(r) : item \in v.observed} = {w}
  <1> DEFINE Taken(d)  == CHOOSE item \in Match(d, r.seen) : TRUE
             Has(d)    == Match(d, r.seen) # {}
             View(d)   == [declared |-> {d}, observed |-> IF Match(d, r.seen) = {} THEN {}
                                     ELSE {CHOOSE item \in Match(d, r.seen) : TRUE},
                           status |-> Status(d, r)]
             Rest(x)   == [declared |-> {}, observed |-> {x}, status |-> "UNDECLARED"]
  <1>1. Views(r) = {View(d) : d \in r.declared} \cup {Rest(x) : x \in Remaining(r)}
    BY DEF Views
  <1>2. Remaining(r) = r.seen \ {Taken(d) : d \in {e \in r.declared : Has(e)}}
    BY DEF Remaining
  <1>3. \A d : View(d).declared = {d} /\ View(d).observed = IF Has(d) THEN {Taken(d)} ELSE {}
    OBVIOUS
  <1>4. \A x : Rest(x).declared = {} /\ Rest(x).observed = {x}
    OBVIOUS
  <1>5. \A d : Has(d) => Taken(d).addr = d.addr /\ Taken(d).port = d.port
    BY DEF Match
  <1>6. \A d, e \in r.declared : d.addr = e.addr /\ d.port = e.port => d = e
    BY DEF Requests, Manifests
  <1> HIDE DEF Taken, Has, View, Rest
  <1>7. ASSUME NEW d \in r.declared
        PROVE  {v \in Views(r) : d \in v.declared} = {View(d)}
    BY <1>1, <1>3, <1>4
  <1>8. ASSUME NEW item \in r.seen
        PROVE  \E w : {v \in Views(r) : item \in v.observed} = {w}
    <2>1. CASE \E d \in r.declared : Has(d) /\ Taken(d) = item
      <3>1. PICK d \in r.declared : Has(d) /\ Taken(d) = item
        BY <2>1
      <3>2. \A e \in r.declared : item \in View(e).observed => e = d
        <4> SUFFICES ASSUME NEW e \in r.declared, item \in View(e).observed PROVE e = d
          OBVIOUS
        <4>1. Has(e) /\ Taken(e) = item
          BY <1>3
        <4>2. item.addr = e.addr /\ item.port = e.port /\ item.addr = d.addr /\ item.port = d.port
          BY <1>5, <3>1, <4>1
        <4> QED
          BY <1>6, <4>2
      <3>3. item \notin Remaining(r)
        BY <1>2, <3>1
      <3>4. \A x \in Remaining(r) : item \notin Rest(x).observed
        BY <1>4, <3>3
      <3>5. View(d) \in Views(r) /\ item \in View(d).observed
        BY <1>1, <1>3, <3>1
      <3>6. {v \in Views(r) : item \in v.observed} = {View(d)}
        BY <1>1, <3>2, <3>4, <3>5
      <3> QED
        BY <3>6
    <2>2. CASE ~ \E d \in r.declared : Has(d) /\ Taken(d) = item
      <3>1. item \in Remaining(r)
        BY <1>2, <2>2
      <3>2. \A e \in r.declared : item \notin View(e).observed
        BY <1>3, <2>2
      <3>3. \A x : item \in Rest(x).observed <=> x = item
        BY <1>4
      <3>4. {v \in Views(r) : item \in v.observed} = {Rest(item)}
        BY <1>1, <3>1, <3>2, <3>3
      <3> QED
        BY <3>4
    <2> QED
      BY <2>1, <2>2
  <1> QED
    BY <1>7, <1>8

\* ports: a manifest declares a host port once, so no observed port is taken by two declared ones,
\* and one that was taken is not listed again.
THEOREM PortsShownOnce == Spec => []EveryPortShownOnce
  <1>1. Init => Answered
    BY DEF Init, Answered, Scanned, Busy
  <1>2. Spec => [](Typed /\ Answered)
    BY TypeInit, TypeNext, AnsweredNext, <1>1, PTL DEF Spec
  <1>3. Typed /\ Answered => EveryPortShownOnce
    <2> SUFFICES ASSUME Typed, Answered, req.pc = "done", req.kind = "ports"
                 PROVE  EveryPortShownOnce
      BY DEF EveryPortShownOnce
    <2>1. Busy /\ req \in Requests
      BY IdleShape, BusyShape DEF Busy
    <2>2. req.answer = Views(req)
      BY <2>1 DEF Answered, Result
    <2>3. \A x : Cardinality({x}) = 1
      BY FS_Singleton
    <2>4. ASSUME NEW d \in req.declared
          PROVE  Cardinality({v \in req.answer : d \in v.declared}) = 1
      <3>1. PICK w : {v \in req.answer : d \in v.declared} = {w}
        BY <2>1, <2>2, ShownOnce
      <3> QED
        BY <2>3, <3>1
    <2>5. ASSUME NEW item \in req.seen
          PROVE  Cardinality({v \in req.answer : item \in v.observed}) = 1
      <3>1. PICK w : {v \in req.answer : item \in v.observed} = {w}
        BY <2>1, <2>2, ShownOnce
      <3> QED
        BY <2>3, <3>1
    <2> QED
      BY <2>4, <2>5 DEF EveryPortShownOnce
  <1> QED
    BY <1>2, <1>3, PTL

=============================================================================
