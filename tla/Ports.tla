--------------------------------- MODULE Ports ----------------------------------
(***************************************************************************)
(* The port check before a start or restart, and the port view of an        *)
(* application, against a host on which sockets come and go.                *)
(*                                                                         *)
(* Both scan the host's listeners, then ask every registered application in *)
(* turn which sockets its processes or containers hold, and attribute each  *)
(* listener to the first application that matches by process or by address. *)
(* Every step is an await: sockets change in between, and a step may fail   *)
(* or see only part of an application's processes.                          *)
(*                                                                         *)
(* A port stands for a transport protocol with a port number.               *)
(***************************************************************************)
EXTENDS Naturals, Sequences, FiniteSets

CONSTANTS
    Apps,           \* registered applications
    Composed,       \* those of them that run under Docker Compose
    Pids,           \* processes of the host
    PidsOf,         \* the processes of each application
    Hidden,         \* processes of other users, whose pid psutil does not report
    HostNet,        \* processes of containers on the host's network, whose sockets Docker does
                    \* not publish
    NoPid,          \* a pid of None
    Ports,
    V4, V6,         \* addresses of each family
    Any4, Any6,     \* 0.0.0.0 and ::
    Mapped,         \* IPv6 addresses that stand for IPv4 ones, such as ::ffff:127.0.0.1
    MapOf,          \* the IPv4 address of each
    Blank,          \* an address that Docker reports as empty
    MaxSockets,     \* bound on the sockets of the host
    MaxChanges      \* bound on the changes of sockets during a request

Addresses == V4 \cup V6
Endpoints == [addr : Addresses, port : Ports]
Sockets   == [pid : Pids, addr : Addresses, port : Ports]

ASSUME PortsAssumption ==
    /\ Composed \subseteq Apps /\ Hidden \subseteq Pids /\ NoPid \notin Pids
    /\ PidsOf \in [Apps -> SUBSET Pids]
    /\ \A a, b \in Apps : a # b => PidsOf[a] \cap PidsOf[b] = {}
    /\ \A a \in Apps \ Composed : PidsOf[a] \cap (Hidden \cup HostNet) = {}
    /\ Any4 \in V4 /\ Any6 \in V6 /\ V4 \cap V6 = {} /\ Blank \notin Addresses
    /\ Mapped \subseteq V6 \ {Any6} /\ MapOf \in [Mapped -> V4]
    /\ MaxSockets \in Nat /\ MaxChanges \in Nat

VARIABLES
    sockets,    \* the listening sockets of the host
    req,        \* the request being served
    truth,      \* history: the sockets when the listeners were scanned
    own,        \* history: the application held a socket since the request began
    changes,    \* history: changes of the sockets since the request began
    partial     \* history: a discovery failed, missed processes, or was told of :: as Blank

history == <<truth, own, changes, partial>>
vars    == <<sockets, req, history>>

Idle == [pc |-> "idle"]

\* Manifests declare a host port at most once
Manifests == {D \in SUBSET Endpoints : \A d, e \in D : d.port = e.port => d = e}

-----------------------------------------------------------------------------
(* The host                                                                 *)

SameFamily(a, b) == {a, b} \subseteq V4 \/ {a, b} \subseteq V6

\* A socket bound to a mapped address takes the connections to its IPv4 address
Unmapped(addr) == IF addr \in Mapped THEN MapOf[addr] ELSE addr

\* Two sockets the kernel does not let coexist; :: may be bound for IPv6 only, and
\* processes of one application may share a port
Exclude(s, t) ==
    LET x == Unmapped(s.addr)
        y == Unmapped(t.addr)
    IN  /\ s.port = t.port /\ SameFamily(x, y)
        /\ x = y \/ {x, y} \cap {Any4, Any6} # {}
        /\ ~ \E a \in Apps : {s.pid, t.pid} \subseteq PidsOf[a]

\* The sockets an application can be known by: of a Compose application, the published ones
Known(a, S) == {s \in S : s.pid \in PidsOf[a] \ HostNet}

HostChange ==
    /\ changes < MaxChanges
    /\ changes' = IF req = Idle THEN 0 ELSE changes + 1
    /\ own' = (req # Idle /\ (own \/ Known(req.app, sockets') # {}))
    /\ UNCHANGED <<req, truth, partial>>

Bind(s) ==
    /\ s \notin sockets /\ Cardinality(sockets) < MaxSockets
    /\ \A t \in sockets : ~Exclude(s, t)
    /\ sockets' = sockets \cup {s} /\ HostChange

Unbind(s) ==
    /\ s \in sockets
    /\ sockets' = sockets \ {s} /\ HostChange

-----------------------------------------------------------------------------
(* Addresses and ownership                                                  *)

\* Faulty variant of AddressesConflict: only equal addresses overlap
AddressesConflictEqual(a, b) == a = b

\* addresses_conflict: a mapped address is one of IPv6 like any other
AddressesConflict(a, b) ==
    \/ a = b
    \/ Any6 \in {a, b}
    \/ a = Any4 /\ b \in V4
    \/ b = Any4 /\ a \in V4

Overlap(x, y) == x.port = y.port /\ AddressesConflict(x.addr, y.addr)

\* scan_host_listeners
Listeners(S) == {[s EXCEPT !.pid = IF @ \in Hidden THEN NoPid ELSE @] : s \in S}

\* _unit_processes: main process, control group or children; what cannot be read is left out
UnitProcesses(a) == SUBSET PidsOf[a]

\* ProcessPortDiscovery.discover with the unit's processes P
FoundProcess(P) == {s \in sockets : s.pid \in P}

\* _normalize_address
NormalizeAddress(addr) == IF addr = Blank THEN Any4 ELSE addr

\* ComposePortDiscovery: the published bindings of the project's containers carry no pid; for
\* those in B Docker leaves the address out
FoundCompose(a, B) ==
    {[s EXCEPT !.pid = NoPid, !.addr = NormalizeAddress(IF s \in B THEN Blank ELSE @)] :
        s \in Known(a, sockets)}

\* RuntimePortDiscovery: what a discovery of application a may find, and whether it is all
Discovered(a) ==
    IF a \in Composed
    THEN {[items |-> FoundCompose(a, B), all |-> \A s \in B : s.addr = Any4] :
            B \in SUBSET {s \in Known(a, sockets) : s.addr \in {Any4, Any6}}}
    ELSE {[items |-> FoundProcess(P), all |-> (P = PidsOf[a])] : P \in UnitProcesses(a)}

Matches(l, item) == (l.pid # NoPid /\ l.pid = item.pid) \/ Overlap(l, item)

\* system_ports: application a is the first whose discovery has an item matching listener l
Owner(l, managed, a) ==
    \E i \in DOMAIN managed :
        /\ managed[i].app = a /\ \E item \in managed[i].items : Matches(l, item)
        /\ \A j \in 1..(i - 1) : ~ \E item \in managed[j].items : Matches(l, item)

\* conflicts
Conflicts(r) ==
    {l \in r.listeners : (\E d \in r.declared : Overlap(d, l)) /\ ~Owner(l, r.managed, r.app)}

-----------------------------------------------------------------------------
(* A request: start (also restart), or ports                                *)

\* `up`: the application's recorded status is RUNNING or UNHEALTHY
Request(a, D, kind, up) ==
    /\ req = Idle
    /\ req' = [pc |-> IF kind = "ports" THEN "observe" ELSE "scan", kind |-> kind, app |-> a,
               declared |-> D, up |-> up, seen |-> {}, observed |-> TRUE, listeners |-> {},
               scanned |-> TRUE, todo |-> Apps, managed |-> <<>>, answer |-> {}]
    /\ own' = (Known(a, sockets) # {}) /\ changes' = 0 /\ partial' = FALSE /\ truth' = {}
    /\ UNCHANGED sockets

\* _observed
Observe ==
    /\ req.pc = "observe"
    /\ \E f \in Discovered(req.app) :
         /\ req' = [req EXCEPT !.pc = "scan", !.seen = f.items]
         /\ partial' = ~f.all
    /\ UNCHANGED <<sockets, truth, own, changes>>

ObserveFails ==
    /\ req.pc = "observe"
    /\ req' = [req EXCEPT !.pc = "scan", !.observed = FALSE] /\ partial' = TRUE
    /\ UNCHANGED <<sockets, truth, own, changes>>

\* conflicts returns at once for a manifest without ports
Scan ==
    /\ req.pc = "scan"
    /\ req' = IF req.declared = {} THEN [req EXCEPT !.pc = "answer"]
              ELSE [req EXCEPT !.pc = "discover", !.listeners = Listeners(sockets)]
    /\ truth' = sockets
    /\ UNCHANGED <<sockets, own, changes, partial>>

\* Faulty variant of ScanFails: a failed scan counts as an empty one
ScanFailsOpen ==
    /\ req.pc = "scan" /\ req.declared # {}
    /\ req' = [req EXCEPT !.pc = "answer"]
    /\ truth' = sockets /\ partial' = TRUE
    /\ UNCHANGED <<sockets, own, changes>>

ScanFails ==
    /\ req.pc = "scan" /\ req.declared # {}
    /\ req' = [req EXCEPT !.pc = "answer", !.scanned = FALSE]
    /\ truth' = sockets /\ partial' = TRUE
    /\ UNCHANGED <<sockets, own, changes>>

\* Faulty variant of Discover: an application is asked again
DiscoverAgain(a) ==
    /\ req.pc = "discover" /\ a \in req.todo
    /\ \E f \in Discovered(a) :
         req' = [req EXCEPT !.managed = Append(@, [app |-> a, items |-> f.items])]
    /\ UNCHANGED <<sockets, history>>

\* _managed_observations: applications in the order the database returns them
Discover(a) ==
    /\ req.pc = "discover" /\ a \in req.todo
    /\ \E f \in Discovered(a) :
         /\ req' = [req EXCEPT !.todo = @ \ {a},
                               !.managed = Append(@, [app |-> a, items |-> f.items])]
         /\ partial' = (partial \/ ~f.all)
    /\ UNCHANGED <<sockets, truth, own, changes>>

\* A failed discovery is skipped; for Compose, SDK and command line must both have failed
DiscoverFails(a) ==
    /\ req.pc = "discover" /\ a \in req.todo
    /\ req' = [req EXCEPT !.todo = @ \ {a}] /\ partial' = TRUE
    /\ UNCHANGED <<sockets, truth, own, changes>>

Match(d, seen) == {item \in seen : item.addr = d.addr /\ item.port = d.port}

\* PortStatus of a declared port
Status(d, r) ==
    IF Match(d, r.seen) # {} THEN "LISTENING"
    ELSE IF \E l \in Conflicts(r) : l.port = d.port THEN "CONFLICTED"
    ELSE IF ~r.observed \/ ~r.scanned THEN "UNKNOWN"
    ELSE IF r.up THEN "NOT_LISTENING"
    ELSE "DECLARED"

\* Faulty variant of Remaining: what is matched is listed again
RemainingAll(r) == r.seen

\* Observed ports no declared port took
Remaining(r) ==
    r.seen \ {CHOOSE item \in Match(d, r.seen) : TRUE :
                d \in {e \in r.declared : Match(e, r.seen) # {}}}

\* The views of ports
Views(r) ==
    {[declared |-> {d}, observed |-> IF Match(d, r.seen) = {} THEN {}
                                     ELSE {CHOOSE item \in Match(d, r.seen) : TRUE},
      status |-> Status(d, r)] : d \in r.declared}
    \cup {[declared |-> {}, observed |-> {item}, status |-> "UNDECLARED"] : item \in Remaining(r)}

\* action: a start is refused when the scan failed or a conflict was found
Verdict(r) ==
    IF ~r.scanned THEN {"PORT_DISCOVERY_UNAVAILABLE"}
    ELSE IF Conflicts(r) # {} THEN {"PORT_CONFLICT"}
    ELSE {"start"}

Answer ==
    /\ req.pc = "answer" \/ (req.pc = "discover" /\ req.todo = {})
    /\ req' = [req EXCEPT !.pc = "done",
                          !.answer = IF req.kind = "ports" THEN Views(req) ELSE Verdict(req)]
    /\ UNCHANGED <<sockets, history>>

\* The workload binds its sockets in its own time, by Bind
Done ==
    /\ req.pc = "done" /\ req' = Idle
    /\ truth' = {} /\ own' = FALSE /\ changes' = 0 /\ partial' = FALSE
    /\ UNCHANGED sockets

Init ==
    /\ sockets = {} /\ req = Idle
    /\ truth = {} /\ own = FALSE /\ changes = 0 /\ partial = FALSE

Next ==
    \/ \E s \in Sockets : Bind(s) \/ Unbind(s)
    \/ \E a \in Apps, D \in Manifests, kind \in {"start", "ports"}, up \in BOOLEAN :
         Request(a, D, kind, up)
    \/ Observe \/ ObserveFails \/ Scan \/ ScanFails
    \/ \E a \in Apps : Discover(a) \/ DiscoverFails(a)
    \/ Answer \/ Done

Spec == Init /\ [][Next]_vars

-----------------------------------------------------------------------------
(* Properties                                                               *)

Items == [pid : Pids \cup {NoPid}, addr : Addresses, port : Ports]
Statuses == {"LISTENING", "CONFLICTED", "UNKNOWN", "NOT_LISTENING", "DECLARED", "UNDECLARED"}

TypeOK ==
    /\ sockets \subseteq Sockets /\ truth \subseteq Sockets
    /\ {own, partial} \subseteq BOOLEAN /\ changes \in Nat
    /\ req # Idle =>
         /\ req.app \in Apps /\ req.declared \in Manifests
         /\ req.seen \subseteq Items /\ req.listeners \subseteq Items
         /\ \A i \in DOMAIN req.managed : /\ req.managed[i].app \in Apps \ req.todo
                                          /\ req.managed[i].items \subseteq Items
         /\ req.kind = "ports" => \A v \in req.answer : v.status \in Statuses

\* The addresses at which a socket bound to addr takes connections; :: may take IPv4 too
Reached(addr) ==
    CASE Unmapped(addr) = Any4 -> V4
      [] addr = Any6 -> Addresses
      [] OTHER -> {Unmapped(addr)}

Collide(x, y) == x.port = y.port /\ Reached(x.addr) \cap Reached(y.addr) # {}

\* The declared ports that an answered request reports as free
Free ==
    IF req.pc # "done" THEN {}
    ELSE IF req.kind = "start" THEN IF req.answer = {"start"} THEN req.declared ELSE {}
    ELSE {d \in req.declared : \E v \in req.answer : /\ v.declared = {d}
                                                     /\ v.status \in {"NOT_LISTENING", "DECLARED"}}

\* conflicts and ports fail closed: whatever fails or changes during a request, a start that is
\* let through and a port shown as not in use had no listener at any address in common at the
\* time of the scan, provided the application itself held no socket meanwhile.  The exception is
\* a mapped address on either side, which addresses_conflict does not compare with IPv4
FreeMeansFree ==
    ~own => \A d \in Free, s \in truth : Collide(d, s) => {d.addr, s.addr} \cap Mapped # {}

\* Some socket the application is known by takes connections where one of another process does
Ambiguous(a) ==
    \E s \in Known(a, truth), t \in truth \ Known(a, truth) : Collide(s, t)

Others(d) == \E t \in truth \ Known(req.app, truth) : Collide(d, t)

\* No mapped address takes part
Unmixed == \A x \in truth \cup req.declared : x.addr \notin Mapped

\* system_ports with ports and conflicts: when nothing changes and every discovery is complete,
\* attribution by process and address gives the true owners: a start is refused exactly if a
\* listener collides with a declared port that is not one the application is known by (another's,
\* or its own container's on the host's network), and each declared port has the status its
\* sockets say.  Mapped addresses are excepted, and an application that shares a port with
\* another through different families
QuietAnswerExact ==
    (req.pc = "done" /\ changes = 0 /\ ~partial /\ Unmixed /\ ~Ambiguous(req.app)) =>
        IF req.kind = "start"
        THEN req.answer = IF \E d \in req.declared : Others(d) THEN {"PORT_CONFLICT"} ELSE {"start"}
        ELSE \A d \in req.declared, v \in req.answer : v.declared = {d} =>
               v.status = IF \E s \in Known(req.app, truth) : s.addr = d.addr /\ s.port = d.port
                          THEN "LISTENING"
                          ELSE IF Others(d) THEN "CONFLICTED"
                          ELSE IF req.up THEN "NOT_LISTENING" ELSE "DECLARED"

\* ports: every declared port and every observed one is in exactly one view
EveryPortShownOnce ==
    (req.pc = "done" /\ req.kind = "ports") =>
        /\ \A d \in req.declared : Cardinality({v \in req.answer : d \in v.declared}) = 1
        /\ \A item \in req.seen : Cardinality({v \in req.answer : item \in v.observed}) = 1

=============================================================================
