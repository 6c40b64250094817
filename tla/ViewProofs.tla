------------------------------ MODULE ViewProofs -------------------------------
(***************************************************************************)
(* Proofs about the two views of the page: Dashboard, for any number of     *)
(* connections and snapshots, and AuditLog, for any page size, any number   *)
(* of events and requests, and any filters.                                 *)
(***************************************************************************)
EXTENDS Dashboard, AuditLog, SequenceTheorems, FunctionTheorems, FiniteSetTheorems,
        WellFoundedInduction, TLAPS

\* _run: a collection is only begun below the bound
Room == collector = "collect" => latest < MaxSnapshots

\* stop: the collector has ended before a marker is put, and none is owed before
Stopping ==
    /\ phase \in {"stopping", "stopped"} => collector = "none"
    /\ owed # {} => phase = "stopped"

\* _dashboard_stream and subscribe: how the handler and its fetch task stand to each other
Paired ==
    \A c \in Connections :
        /\ pc[c] = "new" => fetch[c] = "none" /\ c \notin subscribers
        /\ fetch[c] = "created" => c \notin subscribers
        /\ pc[c] = "send" => fetch[c] = "none"
        /\ fetch[c] = "item" => pc[c] = "wait"

\* A marker stays in its queue also while an older snapshot is fetched or sent
MarkerInv ==
    \A c \in owed :
        /\ fetch[c] # "created"
        /\ fetch[c] \in {"waiting", "item"} \/ pc[c] = "send" => queue[c] = <<End>>

\* A snapshot on its way to the client is the latest unless a newer one waits behind it
NewestInv ==
    \A c \in subscribers : pc[c] # "closed" =>
        /\ queue[c] # <<>> => Head(queue[c]) \in {latest, End}
        /\ queue[c] = <<>> =>
              /\ fetch[c] = "waiting" => seen[c] = latest
              /\ fetch[c] = "item" \/ pc[c] = "send" => item[c] = latest

\* Only a shutdown by force leaves the queue of a closed connection among the subscribers
ClosedIsGone ==
    \A c \in Connections : pc[c] = "closed" =>
        /\ fetch[c] \in {"none", "waiting"}
        /\ c \in subscribers => /\ phase # "running" /\ fetch[c] = "waiting"
                                /\ phase = "stopped" => queue[c] = <<End>>

\* The one snapshot that goes out late was already being sent
LateInv ==
    \A c \in Connections :
        \/ late[c] = 0
        \/ late[c] = 1 /\ expired[c] /\ pc[c] # "send"

-----------------------------------------------------------------------------
(* Types                                                                    *)

Typed == TypeOK /\ Room

LEMMA TypeInit == Init => Typed
  BY DashboardAssumption DEF Init, Typed, TypeOK, Room, End

LEMMA QueueValue ==
    ASSUME TypeOK, NEW c \in Connections, queue[c] # <<>>
    PROVE  /\ Head(queue[c]) \in 0..MaxSnapshots
           /\ queue[c] = <<Head(queue[c])>>
  <1>1. queue[c] \in {<<>>} \cup {<<x>> : x \in 0..MaxSnapshots}
    BY DEF TypeOK
  <1>2. PICK x \in 0..MaxSnapshots : queue[c] = <<x>>
    BY <1>1
  <1> QED
    BY <1>2

LEMMA TypeNext == Typed /\ [Next]_vars => Typed'
  <1> SUFFICES ASSUME Typed, [Next]_vars PROVE Typed'
    OBVIOUS
  <1> USE DashboardAssumption DEF Typed, TypeOK, Room
  <1>1. CASE Collect
    BY <1>1 DEF Collect, handlers, clients, history
  <1>2. CASE Publish
    <2>1. latest' \in 1..MaxSnapshots
      BY <1>2 DEF Publish
    <2>2. queue' \in [Connections -> {<<>>} \cup {<<x>> : x \in 0..MaxSnapshots}]
      BY <1>2, <2>1 DEF Publish, Replace, Put
    <2> QED
      BY <1>2, <2>1, <2>2 DEF Publish, handlers, clients, history
  <1>3. CASE CollectFails
    BY <1>3 DEF CollectFails, handlers, clients, history
  <1>4. CASE Quit
    BY <1>4 DEF Quit, handlers, clients, history
  <1>5. CASE StopCollector
    BY <1>5 DEF StopCollector, handlers, clients, history
  <1>6. CASE StopSubscribers
    <2>1. queue' \in [Connections -> {<<>>} \cup {<<x>> : x \in 0..MaxSnapshots}]
      BY <1>6 DEF StopSubscribers, Put, End
    <2> QED
      BY <1>6, <2>1 DEF StopSubscribers, handlers, clients
  <1>7. ASSUME NEW c \in Connections, Connect(c) PROVE Typed'
    BY <1>7 DEF Connect, service, clients, history
  <1>8. ASSUME NEW c \in Connections, Subscribe(c) PROVE Typed'
    <2>1. queue' \in [Connections -> {<<>>} \cup {<<x>> : x \in 0..MaxSnapshots}]
      BY <1>8 DEF Subscribe
    <2> QED
      BY <1>8, <2>1 DEF Subscribe, service, clients, history
  <1>9. ASSUME NEW c \in Connections, Fetched(c) PROVE Typed'
    <2>1. Head(queue[c]) \in 0..MaxSnapshots
      BY <1>9, QueueValue DEF Fetched
    <2>2. queue' \in [Connections -> {<<>>} \cup {<<x>> : x \in 0..MaxSnapshots}]
      BY <1>9 DEF Fetched
    <2>3. fetch' \in [Connections -> {"none", "created", "waiting", "item", "end"}]
      BY <1>9 DEF Fetched
    <2>4. subscribers' \subseteq Connections
      BY <1>9 DEF Fetched
    <2> QED
      BY <1>9, <2>1, <2>2, <2>3, <2>4 DEF Fetched, service, clients, history
  <1>10. ASSUME NEW c \in Connections, Wake(c) PROVE Typed'
    BY <1>10 DEF Wake, Close, service, clients, history
  <1>11. ASSUME NEW c \in Connections, Send(c) PROVE Typed'
    BY <1>11 DEF Send, service, clients
  <1>12. ASSUME NEW c \in Connections, SendFails(c) PROVE Typed'
    BY <1>12 DEF SendFails, Close, service, clients, history
  <1>13. ASSUME NEW c \in Connections, CancelHandler(c) PROVE Typed'
    BY <1>13 DEF CancelHandler, Close, service, clients, history
  <1>14. ASSUME NEW c \in Connections, SessionEnds(c) PROVE Typed'
    BY <1>14 DEF SessionEnds, service, handlers, history
  <1>15. ASSUME NEW c \in Connections, CheckSession(c) \/ CheckFails(c) PROVE Typed'
    <2>1. expired' = [expired EXCEPT ![c] = TRUE]
      BY <1>15 DEF CheckSession, CheckFails
    <2>2. UNCHANGED <<service, subscribers, queue, handlers, live, gone, history>>
      BY <1>15 DEF CheckSession, CheckFails
    <2> QED
      BY <2>1, <2>2 DEF service, handlers, history
  <1>16. ASSUME NEW c \in Connections, Leave(c) PROVE Typed'
    BY <1>16 DEF Leave, service, handlers, history
  <1>17. CASE UNCHANGED vars
    BY <1>17 DEF vars, service, handlers, clients, history
  <1> QED
    BY <1>1, <1>2, <1>3, <1>4, <1>5, <1>6, <1>7, <1>8, <1>9, <1>10, <1>11, <1>12, <1>13, <1>14,
       <1>15, <1>16, <1>17 DEF Next, Serve

\* The one-place queues and every task and handler have the values they can have
THEOREM DashboardTyping == Spec => []TypeOK
  <1>1. Spec => []Typed
    BY TypeInit, TypeNext, PTL DEF Spec
  <1> QED
    BY <1>1, PTL DEF Typed

-----------------------------------------------------------------------------
(* Shutdown                                                                 *)

LEMMA StoppingNext == TypeOK /\ Stopping /\ [Next]_vars => Stopping'
  <1> SUFFICES ASSUME TypeOK, Stopping, [Next]_vars PROVE Stopping'
    OBVIOUS
  <1> USE DEF TypeOK, Stopping
  <1>1. CASE Collect
    BY <1>1 DEF Collect, service, handlers, clients, history
  <1>2. CASE Publish
    BY <1>2 DEF Publish, Replace, Put, service, handlers, clients, history
  <1>3. CASE CollectFails
    BY <1>3 DEF CollectFails, service, handlers, clients, history
  <1>4. CASE Quit
    BY <1>4 DEF Quit, service, handlers, clients, history
  <1>5. CASE StopCollector
    BY <1>5 DEF StopCollector, service, handlers, clients, history
  <1>6. CASE StopSubscribers
    BY <1>6 DEF StopSubscribers, Put, service, handlers, clients, history
  <1>7. ASSUME NEW c \in Connections, Connect(c) PROVE Stopping'
    BY <1>7 DEF Connect, service, handlers, clients, history
  <1>8. ASSUME NEW c \in Connections, Subscribe(c) PROVE Stopping'
    BY <1>8 DEF Subscribe, service, handlers, clients, history
  <1>9. ASSUME NEW c \in Connections, Fetched(c) PROVE Stopping'
    BY <1>9 DEF Fetched, service, handlers, clients, history
  <1>10. ASSUME NEW c \in Connections, Wake(c) PROVE Stopping'
    BY <1>10 DEF Wake, Close, service, handlers, clients, history
  <1>11. ASSUME NEW c \in Connections, Send(c) PROVE Stopping'
    BY <1>11 DEF Send, service, handlers, clients, history
  <1>12. ASSUME NEW c \in Connections, SendFails(c) PROVE Stopping'
    BY <1>12 DEF SendFails, Close, service, handlers, clients, history
  <1>13. ASSUME NEW c \in Connections, CancelHandler(c) PROVE Stopping'
    BY <1>13 DEF CancelHandler, Close, service, handlers, clients, history
  <1>14. ASSUME NEW c \in Connections, SessionEnds(c) PROVE Stopping'
    BY <1>14 DEF SessionEnds, service, handlers, clients, history
  <1>15. ASSUME NEW c \in Connections, CheckSession(c) PROVE Stopping'
    BY <1>15 DEF CheckSession, service, handlers, clients, history
  <1>16. ASSUME NEW c \in Connections, CheckFails(c) PROVE Stopping'
    BY <1>16 DEF CheckFails, service, handlers, clients, history
  <1>17. ASSUME NEW c \in Connections, Leave(c) PROVE Stopping'
    BY <1>17 DEF Leave, service, handlers, clients, history
  <1>18. CASE UNCHANGED vars
    BY <1>18 DEF vars, service, handlers, clients, history
  <1> QED
    BY <1>1, <1>2, <1>3, <1>4, <1>5, <1>6, <1>7, <1>8, <1>9, <1>10, <1>11, <1>12, <1>13, <1>14,
       <1>15, <1>16, <1>17, <1>18 DEF Next, Serve

-----------------------------------------------------------------------------
(* Handlers and fetch tasks                                                 *)

LEMMA PairedNext == TypeOK /\ Paired /\ [Next]_vars => Paired'
  <1> SUFFICES ASSUME TypeOK, Paired, [Next]_vars PROVE Paired'
    OBVIOUS
  <1> USE DEF TypeOK, Paired
  <1>1. CASE Collect
    BY <1>1 DEF Collect, service, handlers, clients, history
  <1>2. CASE Publish
    BY <1>2 DEF Publish, Replace, Put, service, handlers, clients, history
  <1>3. CASE CollectFails
    BY <1>3 DEF CollectFails, service, handlers, clients, history
  <1>4. CASE Quit
    BY <1>4 DEF Quit, service, handlers, clients, history
  <1>5. CASE StopCollector
    BY <1>5 DEF StopCollector, service, handlers, clients, history
  <1>6. CASE StopSubscribers
    BY <1>6 DEF StopSubscribers, Put, service, handlers, clients, history
  <1>7. ASSUME NEW c \in Connections, Connect(c) PROVE Paired'
    BY <1>7 DEF Connect, service, handlers, clients, history
  <1>8. ASSUME NEW c \in Connections, Subscribe(c) PROVE Paired'
    BY <1>8 DEF Subscribe, service, handlers, clients, history
  <1>9. ASSUME NEW c \in Connections, Fetched(c) PROVE Paired'
    BY <1>9 DEF Fetched, service, handlers, clients, history
  <1>10. ASSUME NEW c \in Connections, Wake(c) PROVE Paired'
    BY <1>10 DEF Wake, Close, service, handlers, clients, history
  <1>11. ASSUME NEW c \in Connections, Send(c) PROVE Paired'
    BY <1>11 DEF Send, service, handlers, clients, history
  <1>12. ASSUME NEW c \in Connections, SendFails(c) PROVE Paired'
    BY <1>12 DEF SendFails, Close, service, handlers, clients, history
  <1>13. ASSUME NEW c \in Connections, CancelHandler(c) PROVE Paired'
    BY <1>13 DEF CancelHandler, Close, service, handlers, clients, history
  <1>14. ASSUME NEW c \in Connections, SessionEnds(c) PROVE Paired'
    BY <1>14 DEF SessionEnds, service, handlers, clients, history
  <1>15. ASSUME NEW c \in Connections, CheckSession(c) PROVE Paired'
    BY <1>15 DEF CheckSession, service, handlers, clients, history
  <1>16. ASSUME NEW c \in Connections, CheckFails(c) PROVE Paired'
    BY <1>16 DEF CheckFails, service, handlers, clients, history
  <1>17. ASSUME NEW c \in Connections, Leave(c) PROVE Paired'
    BY <1>17 DEF Leave, service, handlers, clients, history
  <1>18. CASE UNCHANGED vars
    BY <1>18 DEF vars, service, handlers, clients, history
  <1> QED
    BY <1>1, <1>2, <1>3, <1>4, <1>5, <1>6, <1>7, <1>8, <1>9, <1>10, <1>11, <1>12, <1>13, <1>14,
       <1>15, <1>16, <1>17, <1>18 DEF Next, Serve

-----------------------------------------------------------------------------
(* The end marker                                                           *)

LEMMA MarkerNext == TypeOK /\ Stopping /\ Paired /\ MarkerInv /\ [Next]_vars => MarkerInv'
  <1> SUFFICES ASSUME TypeOK, Stopping, Paired, MarkerInv, [Next]_vars PROVE MarkerInv'
    OBVIOUS
  <1> USE DEF TypeOK, Stopping, Paired, MarkerInv
  <1>1. CASE Collect
    BY <1>1 DEF Collect, service, handlers, clients, history
  <1>2. CASE Publish
    BY <1>2 DEF Publish, Replace, Put, service, handlers, clients, history
  <1>3. CASE CollectFails
    BY <1>3 DEF CollectFails, service, handlers, clients, history
  <1>4. CASE Quit
    BY <1>4 DEF Quit, service, handlers, clients, history
  <1>5. CASE StopCollector
    BY <1>5 DEF StopCollector, service, handlers, clients, history
  <1>6. CASE StopSubscribers
    BY <1>6 DEF StopSubscribers, Put, service, handlers, clients, history
  <1>7. ASSUME NEW c \in Connections, Connect(c) PROVE MarkerInv'
    BY <1>7 DEF Connect, service, handlers, clients, history
  <1>8. ASSUME NEW c \in Connections, Subscribe(c) PROVE MarkerInv'
    BY <1>8 DEF Subscribe, service, handlers, clients, history
  <1>9. ASSUME NEW c \in Connections, Fetched(c) PROVE MarkerInv'
    BY <1>9 DEF Fetched, service, handlers, clients, history
  <1>10. ASSUME NEW c \in Connections, Wake(c) PROVE MarkerInv'
    BY <1>10 DEF Wake, Close, service, handlers, clients, history
  <1>11. ASSUME NEW c \in Connections, Send(c) PROVE MarkerInv'
    BY <1>11 DEF Send, service, handlers, clients, history
  <1>12. ASSUME NEW c \in Connections, SendFails(c) PROVE MarkerInv'
    BY <1>12 DEF SendFails, Close, service, handlers, clients, history
  <1>13. ASSUME NEW c \in Connections, CancelHandler(c) PROVE MarkerInv'
    BY <1>13 DEF CancelHandler, Close, service, handlers, clients, history
  <1>14. ASSUME NEW c \in Connections, SessionEnds(c) PROVE MarkerInv'
    BY <1>14 DEF SessionEnds, service, handlers, clients, history
  <1>15. ASSUME NEW c \in Connections, CheckSession(c) PROVE MarkerInv'
    BY <1>15 DEF CheckSession, service, handlers, clients, history
  <1>16. ASSUME NEW c \in Connections, CheckFails(c) PROVE MarkerInv'
    BY <1>16 DEF CheckFails, service, handlers, clients, history
  <1>17. ASSUME NEW c \in Connections, Leave(c) PROVE MarkerInv'
    BY <1>17 DEF Leave, service, handlers, clients, history
  <1>18. CASE UNCHANGED vars
    BY <1>18 DEF vars, service, handlers, clients, history
  <1> QED
    BY <1>1, <1>2, <1>3, <1>4, <1>5, <1>6, <1>7, <1>8, <1>9, <1>10, <1>11, <1>12, <1>13, <1>14,
       <1>15, <1>16, <1>17, <1>18 DEF Next, Serve

\* stop: whatever handlers, fetches and the session watch do meanwhile, the end marker put for a
\* subscriber is there until the subscriber reads it
THEOREM MarkerStays == Spec => []EndMarkerStays
  <1>1. Init => Stopping /\ Paired /\ MarkerInv
    BY DEF Init, Stopping, Paired, MarkerInv
  <1>2. Spec => [](TypeOK /\ Stopping /\ Paired /\ MarkerInv)
    BY <1>1, DashboardTyping, StoppingNext, PairedNext, MarkerNext, PTL DEF Spec
  <1>3. MarkerInv => EndMarkerStays
    BY DEF MarkerInv, EndMarkerStays
  <1> QED
    BY <1>2, <1>3, PTL

-----------------------------------------------------------------------------
(* Snapshots                                                                *)

LEMMA NewestNext == TypeOK /\ Paired /\ NewestInv /\ [Next]_vars => NewestInv'
  <1> SUFFICES ASSUME TypeOK, Paired, NewestInv, [Next]_vars PROVE NewestInv'
    OBVIOUS
  <1> USE DEF TypeOK, Paired, NewestInv
  <1>1. CASE Collect
    BY <1>1 DEF Collect, service, handlers, clients, history
  <1>2. CASE Publish
    BY <1>2 DEF Publish, Replace, Put, service, handlers, clients, history
  <1>3. CASE CollectFails
    BY <1>3 DEF CollectFails, service, handlers, clients, history
  <1>4. CASE Quit
    BY <1>4 DEF Quit, service, handlers, clients, history
  <1>5. CASE StopCollector
    BY <1>5 DEF StopCollector, service, handlers, clients, history
  <1>6. CASE StopSubscribers
    BY <1>6 DEF StopSubscribers, Put, service, handlers, clients, history
  <1>7. ASSUME NEW c \in Connections, Connect(c) PROVE NewestInv'
    BY <1>7 DEF Connect, service, handlers, clients, history
  <1>8. ASSUME NEW c \in Connections, Subscribe(c) PROVE NewestInv'
    BY <1>8 DEF Subscribe, service, handlers, clients, history
  <1>9. ASSUME NEW c \in Connections, Fetched(c) PROVE NewestInv'
    BY <1>9 DEF Fetched, service, handlers, clients, history
  <1>10. ASSUME NEW c \in Connections, Wake(c) PROVE NewestInv'
    BY <1>10 DEF Wake, Close, service, handlers, clients, history
  <1>11. ASSUME NEW c \in Connections, Send(c) PROVE NewestInv'
    BY <1>11 DEF Send, service, handlers, clients, history
  <1>12. ASSUME NEW c \in Connections, SendFails(c) PROVE NewestInv'
    BY <1>12 DEF SendFails, Close, service, handlers, clients, history
  <1>13. ASSUME NEW c \in Connections, CancelHandler(c) PROVE NewestInv'
    BY <1>13 DEF CancelHandler, Close, service, handlers, clients, history
  <1>14. ASSUME NEW c \in Connections, SessionEnds(c) PROVE NewestInv'
    BY <1>14 DEF SessionEnds, service, handlers, clients, history
  <1>15. ASSUME NEW c \in Connections, CheckSession(c) PROVE NewestInv'
    BY <1>15 DEF CheckSession, service, handlers, clients, history
  <1>16. ASSUME NEW c \in Connections, CheckFails(c) PROVE NewestInv'
    BY <1>16 DEF CheckFails, service, handlers, clients, history
  <1>17. ASSUME NEW c \in Connections, Leave(c) PROVE NewestInv'
    BY <1>17 DEF Leave, service, handlers, clients, history
  <1>18. CASE UNCHANGED vars
    BY <1>18 DEF vars, service, handlers, clients, history
  <1> QED
    BY <1>1, <1>2, <1>3, <1>4, <1>5, <1>6, <1>7, <1>8, <1>9, <1>10, <1>11, <1>12, <1>13, <1>14,
       <1>15, <1>16, <1>17, <1>18 DEF Next, Serve

\* _collect_and_publish and subscribe: a slow client loses only what a newer snapshot replaces
THEOREM NewestArrives == Spec => []NothingNewerIsLost
  <1>1. Init => Paired /\ NewestInv
    BY DEF Init, Paired, NewestInv
  <1>2. Spec => [](TypeOK /\ Paired /\ NewestInv)
    BY <1>1, DashboardTyping, PairedNext, NewestNext, PTL DEF Spec
  <1>3. NewestInv => NothingNewerIsLost
    BY DEF NewestInv, NothingNewerIsLost
  <1> QED
    BY <1>2, <1>3, PTL

-----------------------------------------------------------------------------
(* The session                                                              *)

LEMMA LateNext == TypeOK /\ LateInv /\ [Next]_vars => LateInv'
  <1> SUFFICES ASSUME TypeOK, LateInv, [Next]_vars PROVE LateInv'
    OBVIOUS
  <1> USE DEF TypeOK, LateInv
  <1>1. CASE Collect
    BY <1>1 DEF Collect, service, handlers, clients, history
  <1>2. CASE Publish
    BY <1>2 DEF Publish, Replace, Put, service, handlers, clients, history
  <1>3. CASE CollectFails
    BY <1>3 DEF CollectFails, service, handlers, clients, history
  <1>4. CASE Quit
    BY <1>4 DEF Quit, service, handlers, clients, history
  <1>5. CASE StopCollector
    BY <1>5 DEF StopCollector, service, handlers, clients, history
  <1>6. CASE StopSubscribers
    BY <1>6 DEF StopSubscribers, Put, service, handlers, clients, history
  <1>7. ASSUME NEW c \in Connections, Connect(c) PROVE LateInv'
    BY <1>7 DEF Connect, service, handlers, clients, history
  <1>8. ASSUME NEW c \in Connections, Subscribe(c) PROVE LateInv'
    BY <1>8 DEF Subscribe, service, handlers, clients, history
  <1>9. ASSUME NEW c \in Connections, Fetched(c) PROVE LateInv'
    BY <1>9 DEF Fetched, service, handlers, clients, history
  <1>10. ASSUME NEW c \in Connections, Wake(c) PROVE LateInv'
    BY <1>10 DEF Wake, Close, service, handlers, clients, history
  <1>11. ASSUME NEW c \in Connections, Send(c) PROVE LateInv'
    BY <1>11 DEF Send, service, handlers, clients, history
  <1>12. ASSUME NEW c \in Connections, SendFails(c) PROVE LateInv'
    BY <1>12 DEF SendFails, Close, service, handlers, clients, history
  <1>13. ASSUME NEW c \in Connections, CancelHandler(c) PROVE LateInv'
    BY <1>13 DEF CancelHandler, Close, service, handlers, clients, history
  <1>14. ASSUME NEW c \in Connections, SessionEnds(c) PROVE LateInv'
    BY <1>14 DEF SessionEnds, service, handlers, clients, history
  <1>15. ASSUME NEW c \in Connections, CheckSession(c) PROVE LateInv'
    BY <1>15 DEF CheckSession, service, handlers, clients, history
  <1>16. ASSUME NEW c \in Connections, CheckFails(c) PROVE LateInv'
    BY <1>16 DEF CheckFails, service, handlers, clients, history
  <1>17. ASSUME NEW c \in Connections, Leave(c) PROVE LateInv'
    BY <1>17 DEF Leave, service, handlers, clients, history
  <1>18. CASE UNCHANGED vars
    BY <1>18 DEF vars, service, handlers, clients, history
  <1> QED
    BY <1>1, <1>2, <1>3, <1>4, <1>5, <1>6, <1>7, <1>8, <1>9, <1>10, <1>11, <1>12, <1>13, <1>14,
       <1>15, <1>16, <1>17, <1>18 DEF Next, Serve

\* _dashboard_stream: after the session watch has finished at most the snapshot that was being sent
\* reaches the client
THEOREM SessionEndStops == Spec => []LittleAfterSessionEnd
  <1>1. Init => LateInv
    BY DEF Init, LateInv
  <1>2. Spec => []LateInv
    BY <1>1, DashboardTyping, LateNext, PTL DEF Spec
  <1>3. LateInv => LittleAfterSessionEnd
    <2>1. 0 <= 1 /\ 1 <= 1
      OBVIOUS
    <2> QED
      BY <2>1, Zenon DEF LateInv, LittleAfterSessionEnd
  <1> QED
    BY <1>2, <1>3, PTL

-----------------------------------------------------------------------------
(* Closed connections                                                       *)

\* Every step keeps it: what closes a handler removes its queue, except for CancelHandler
LEMMA ClosedNext == TypeOK /\ Stopping /\ Paired /\ ClosedIsGone /\ [Next]_vars => ClosedIsGone'
  <1> SUFFICES ASSUME TypeOK, Stopping, Paired, ClosedIsGone, [Next]_vars PROVE ClosedIsGone'
    OBVIOUS
  <1> USE DEF TypeOK, Stopping, Paired, ClosedIsGone
  <1>1. CASE Collect
    BY <1>1 DEF Collect, service, handlers, clients, history
  <1>2. CASE Publish
    BY <1>2 DEF Publish, Replace, Put, service, handlers, clients, history
  <1>3. CASE CollectFails
    BY <1>3 DEF CollectFails, service, handlers, clients, history
  <1>4. CASE Quit
    BY <1>4 DEF Quit, service, handlers, clients, history
  <1>5. CASE StopCollector
    BY <1>5 DEF StopCollector, service, handlers, clients, history
  <1>6. CASE StopSubscribers
    BY <1>6 DEF StopSubscribers, Put, service, handlers, clients, history
  <1>7. ASSUME NEW c \in Connections, Connect(c) PROVE ClosedIsGone'
    BY <1>7 DEF Connect, service, handlers, clients, history
  <1>8. ASSUME NEW c \in Connections, Subscribe(c) PROVE ClosedIsGone'
    BY <1>8 DEF Subscribe, service, handlers, clients, history
  <1>9. ASSUME NEW c \in Connections, Fetched(c) PROVE ClosedIsGone'
    BY <1>9 DEF Fetched, service, handlers, clients, history
  <1>10. ASSUME NEW c \in Connections, Wake(c) PROVE ClosedIsGone'
    BY <1>10 DEF Wake, Close, service, handlers, clients, history
  <1>11. ASSUME NEW c \in Connections, Send(c) PROVE ClosedIsGone'
    BY <1>11 DEF Send, service, handlers, clients, history
  <1>12. ASSUME NEW c \in Connections, SendFails(c) PROVE ClosedIsGone'
    BY <1>12 DEF SendFails, Close, service, handlers, clients, history
  <1>13. ASSUME NEW c \in Connections, CancelHandler(c) PROVE ClosedIsGone'
    BY <1>13 DEF CancelHandler, Close, service, handlers, clients, history
  <1>14. ASSUME NEW c \in Connections, SessionEnds(c) PROVE ClosedIsGone'
    BY <1>14 DEF SessionEnds, service, handlers, clients, history
  <1>15. ASSUME NEW c \in Connections, CheckSession(c) PROVE ClosedIsGone'
    BY <1>15 DEF CheckSession, service, handlers, clients, history
  <1>16. ASSUME NEW c \in Connections, CheckFails(c) PROVE ClosedIsGone'
    BY <1>16 DEF CheckFails, service, handlers, clients, history
  <1>17. ASSUME NEW c \in Connections, Leave(c) PROVE ClosedIsGone'
    BY <1>17 DEF Leave, service, handlers, clients, history
  <1>18. CASE UNCHANGED vars
    BY <1>18 DEF vars, service, handlers, clients, history
  <1> QED
    BY <1>1, <1>2, <1>3, <1>4, <1>5, <1>6, <1>7, <1>8, <1>9, <1>10, <1>11, <1>12, <1>13, <1>14,
       <1>15, <1>16, <1>17, <1>18 DEF Next, Serve

\* _dashboard_stream and subscribe: while the service runs, a connection that is closed has no
\* queue among the subscribers, so that none is filled for nobody; a shutdown by force may leave
\* one, and the task that waits at it then finds the end marker
THEOREM ClosedUnsubscribes == Spec => []ClosedIsGone
  <1>1. Init => Stopping /\ Paired /\ ClosedIsGone
    BY DEF Init, Stopping, Paired, ClosedIsGone
  <1> QED
    BY <1>1, DashboardTyping, StoppingNext, PairedNext, ClosedNext, PTL DEF Spec

-----------------------------------------------------------------------------
(* The audit list: labels and conditions                                    *)

\* _category_condition against category_for, and the action conditions against normalized_action:
\* for the kinds of events that the code writes, the filter asks for a label exactly when the
\* event is shown under it
THEOREM LabelIsCondition ==
    ASSUME NEW k \in Kinds
    PROVE  /\ \A c : InCategory(k, c) <=> Category(k) = c
           /\ \A a : HasAction(k, a) <=> Action(k) = a
  <1>1. CASE AuthKind(k)
    <2>1. \A c : InCategory(k, c) <=> Category(k) = c
      BY <1>1 DEF AuthKind, InCategory, Category
    <2>2. \A a : HasAction(k, a) <=> Action(k) = a
      <3>1. CASE k.verb = "setup"
        BY <1>1, <3>1 DEF AuthKind, HasAction, Action, AuthLabels, Login
      <3>2. CASE k.verb = "login"
        BY <1>1, <3>2 DEF AuthKind, HasAction, Action, AuthLabels, Login
      <3>3. CASE k.verb = "logout"
        BY <1>1, <3>3 DEF AuthKind, HasAction, Action, AuthLabels, Login
      <3> QED
        BY <1>1, <3>1, <3>2, <3>3 DEF AuthKind
    <2> QED
      BY <2>1, <2>2
  <1>2. CASE ApplicationKind(k)
    <2>1. \A c : InCategory(k, c) <=> Category(k) = c
      BY <1>2 DEF ApplicationKind, InCategory, Category
    <2>2. \A a : HasAction(k, a) <=> Action(k) = a
      BY <1>2 DEF ApplicationKind, HasAction, Action, AuthLabels, Login
    <2> QED
      BY <2>1, <2>2
  <1> QED
    BY <1>1, <1>2, AuditAssumption

\* list: the conditions on the rows select what the filter, read against the labels, asks for
LEMMA SelectedIsWanted ==
    ASSUME NEW e \in Event, NEW f
    PROVE  Selected(e, f) <=> Wanted(e, f)
  <1>1. e.kind \in Kinds
    BY DEF Event
  <1> QED
    BY <1>1, LabelIsCondition, Zenon DEF Selected, Wanted

-----------------------------------------------------------------------------
(* The audit list: its order                                                *)

\* Identifiers are the table's key
Distinct(S) == \A d, e \in S : d.id = e.id => d = e

\* Identifiers and times are numbers
LEMMA EventNumbers ==
    ASSUME NEW e \in Event
    PROVE  e.id \in Nat /\ e.at \in Nat
  <1>1. e.id \in 1..MaxEvents /\ e.at \in 0..MaxTime
    BY DEF Event
  <1> QED
    BY <1>1, AuditAssumption

\* The order of the list is a strict order of the events
LEMMA BeforeOrder ==
    /\ \A d \in Event : ~Before(d, d)
    /\ \A c, d, e \in Event : Before(c, d) /\ Before(d, e) => Before(c, e)
    /\ \A d, e \in Event : Before(d, e) => d # e /\ ~Before(e, d)
  <1>1. \A e \in Event : e.id \in Nat /\ e.at \in Nat
    BY EventNumbers
  <1> QED
    BY <1>1 DEF Before

\* A set of numbers has a least one
LEMMA Least ==
    ASSUME NEW U \in SUBSET Nat, U # {}
    PROVE  \E x \in U : \A y \in U : x <= y
  <1> DEFINE R == OpToRel(<, Nat)
  <1>1. IsWellFoundedOn(R, Nat)
    BY NatLessThanWellFounded
  <1>2. PICK x \in U : \A y \in U : ~ (<<y, x>> \in R)
    <2> HIDE DEF R
    <2> QED
      BY <1>1, WFMin
  <1>3. \A y \in U : ~ (y < x)
    BY <1>2 DEF OpToRel
  <1> QED
    BY <1>3

\* The event that comes last: of the earliest ones, the one with the least identifier
LEMMA LastEvent ==
    ASSUME NEW T \in SUBSET Event, Distinct(T), T # {}
    PROVE  \E z \in T : \A e \in T \ {z} : Before(e, z)
  <1>1. \A e \in T : e.id \in Nat /\ e.at \in Nat
    BY EventNumbers
  <1> DEFINE U == {e.at : e \in T}
  <1>2. U \in SUBSET Nat /\ U # {}
    BY <1>1
  <1>3. PICK t \in U : \A y \in U : t <= y
    <2> HIDE DEF U
    <2> QED
      BY <1>2, Least
  <1>4. t \in Nat /\ \A e \in T : t <= e.at
    BY <1>1, <1>3
  <1> DEFINE V == {e \in T : e.at = t}  W == {e.id : e \in V}
  <1>5. W \in SUBSET Nat /\ W # {}
    BY <1>1, <1>3
  <1>6. PICK n \in W : \A y \in W : n <= y
    <2> HIDE DEF W
    <2> QED
      BY <1>5, Least
  <1>7. PICK z \in T : z.at = t /\ z.id = n
    BY <1>6
  <1>8. ASSUME NEW e \in T \ {z} PROVE Before(e, z)
    <2>1. e.id # z.id
      BY DEF Distinct
    <2>2. CASE e.at = t
      <3>1. n <= e.id
        BY <1>6, <2>2
      <3> QED
        BY <1>1, <1>7, <2>1, <2>2, <3>1 DEF Before
    <2>3. CASE e.at # t
      BY <1>1, <1>4, <1>7, <2>3 DEF Before
    <2> QED
      BY <2>2, <2>3
  <1> QED
    BY <1>8

\* A listing of T that its last event is missing from is made one of T
LEMMA AddLast ==
    ASSUME NEW T \in SUBSET Event, IsFiniteSet(T), NEW z \in T,
           \A e \in T \ {z} : Before(e, z),
           NEW s \in SetToSeqs(T \ {z}), InOrder(s)
    PROVE  \E t \in SetToSeqs(T) : InOrder(t)
  <1> DEFINE n == Cardinality(T)  m == Cardinality(T \ {z})
             t == [i \in 1..n |-> IF i = n THEN z ELSE s[i]]
  <1>1. n \in Nat /\ m \in Nat /\ n = m + 1
    <2>1. m = n - 1 /\ IsFiniteSet(T \ {z})
      BY FS_RemoveElement
    <2>2. n \in Nat /\ m \in Nat
      BY <2>1, FS_CardinalityType
    <2> HIDE DEF n, m
    <2> QED
      BY <2>1, <2>2
  <1>2. /\ s \in [1..m -> T \ {z}]
        /\ \A i, j \in 1..m : i # j => s[i] # s[j]
        /\ \A i, j \in 1..m : i < j => Before(s[i], s[j])
    <2>1. s \in [1..m -> T \ {z}] /\ \A i, j \in 1..m : i # j => s[i] # s[j]
      BY DEF SetToSeqs
    <2> QED
      BY <2>1 DEF InOrder
  <1>3. ASSUME NEW i \in 1..n PROVE \/ i = n /\ t[i] = z
                                    \/ i < n /\ i \in 1..m /\ t[i] = s[i] /\ s[i] \in T \ {z}
    <2> HIDE DEF n, m
    <2> QED
      BY <1>1, <1>2
  <1>4. t \in [1..n -> T]
    BY <1>3
  <1>5. \A i, j \in 1..n : i # j => t[i] # t[j]
    <2> HIDE DEF t, n, m
    <2> QED
      BY <1>2, <1>3
  <1>6. \A i, j \in 1..n : i < j => Before(t[i], t[j])
    <2> SUFFICES ASSUME NEW i \in 1..n, NEW j \in 1..n, i < j PROVE Before(t[i], t[j])
      OBVIOUS
    <2> HIDE DEF t, n, m
    <2>1. i < n
      BY <1>1
    <2>2. i \in 1..m /\ t[i] = s[i] /\ s[i] \in T \ {z}
      BY <1>1, <1>3, <2>1
    <2>3. CASE j = n
      BY <1>1, <1>3, <2>2, <2>3
    <2>4. CASE j # n
      BY <1>2, <1>3, <2>2, <2>4
    <2> QED
      BY <2>3, <2>4
  <1>7. t \in SetToSeqs(T)
    <2> HIDE DEF t
    <2> QED
      BY <1>4, <1>5 DEF SetToSeqs
  <1>8. InOrder(t)
    <2>1. DOMAIN t = 1..n
      OBVIOUS
    <2> HIDE DEF t, n
    <2> QED
      BY <1>6, <2>1 DEF InOrder
  <1> QED
    BY <1>7, <1>8

\* Every set of events can be listed in order: a least set that cannot would still be one without
\* its last event
LEMMA OrderExists ==
    ASSUME NEW S \in SUBSET Event, IsFiniteSet(S), Distinct(S)
    PROVE  \E s \in SetToSeqs(S) : InOrder(s)
  <1> DEFINE Listed(T) == \E s \in SetToSeqs(T) : InOrder(s)
             U == {Cardinality(T) : T \in {X \in SUBSET S : ~Listed(X)}}
  <1> SUFFICES ASSUME ~Listed(S) PROVE FALSE
    OBVIOUS
  <1>1. \A T \in SUBSET S : IsFiniteSet(T) /\ Cardinality(T) \in Nat
    BY FS_Subset, FS_CardinalityType
  <1>2. U \in SUBSET Nat /\ U # {}
    <2>1. Cardinality(S) \in U
      OBVIOUS
    <2>2. U \in SUBSET Nat
      <3> HIDE DEF Listed
      <3> QED
        BY <1>1
    <2> QED
      BY <2>1, <2>2, Zenon
  <1>3. PICK n \in U : \A y \in U : n <= y
    <2> HIDE DEF U
    <2> QED
      BY <1>2, Least
  <1>4. PICK T \in SUBSET S : ~Listed(T) /\ Cardinality(T) = n
    <2> HIDE DEF Listed
    <2> QED
      BY <1>3
  <1>5. T # {}
    <2> SUFFICES ASSUME T = {} PROVE FALSE
      OBVIOUS
    <2> DEFINE s == [i \in 1..0 |-> {}]
    <2>1. Cardinality(T) = 0
      BY FS_EmptySet
    <2>2. 1..0 = {}
      OBVIOUS
    <2>3. s \in SetToSeqs(T) /\ InOrder(s)
      BY <2>1, <2>2 DEF SetToSeqs, InOrder
    <2> QED
      BY <1>4, <2>3
  <1>6. T \in SUBSET Event /\ IsFiniteSet(T) /\ Distinct(T)
    BY <1>1 DEF Distinct
  <1>7. PICK z \in T : \A e \in T \ {z} : Before(e, z)
    BY <1>5, <1>6, LastEvent
  <1>8. Listed(T \ {z})
    <2>1. T \ {z} \in SUBSET S
      OBVIOUS
    <2>2. Cardinality(T \ {z}) = Cardinality(T) - 1
      BY <1>6, FS_RemoveElement
    <2>3. ~(n <= Cardinality(T \ {z}))
      BY <1>1, <1>4, <2>1, <2>2
    <2>4. Cardinality(T \ {z}) \notin U
      <3> HIDE DEF U
      <3> QED
        BY <1>3, <2>3
    <2> HIDE DEF Listed
    <2> QED
      BY <2>1, <2>4
  <1>9. PICK s \in SetToSeqs(T \ {z}) : InOrder(s)
    BY <1>8
  <1>10. Listed(T)
    BY <1>6, <1>7, <1>9, AddLast
  <1> QED
    BY <1>4, <1>10

-----------------------------------------------------------------------------
(* The audit list: a page                                                   *)

\* What the table holds
Table(E) == E \subseteq Event /\ IsFiniteSet(E) /\ Distinct(E)

\* What the conditions of a request leave
Left(f, c) == {e \in events : Selected(e, f) /\ (c # Unset => Beyond(e, c))}

\* The rows are all that the conditions leave, each of them once and in order
LEMMA RowsListed ==
    ASSUME Table(events), NEW f, NEW c
    PROVE  /\ Rows(f, c) \in Seq(Left(f, c)) /\ InOrder(Rows(f, c))
           /\ \A e \in Left(f, c) : \E i \in 1..Len(Rows(f, c)) : Rows(f, c)[i] = e
  <1> DEFINE S == Left(f, c)  s == Rows(f, c)  n == Cardinality(S)
  <1>1. S \in SUBSET events
    BY DEF Left
  <1>2. S \in SUBSET Event /\ IsFiniteSet(S) /\ Distinct(S) /\ n \in Nat
    <2> HIDE DEF S
    <2> QED
      BY <1>1, FS_Subset, FS_CardinalityType DEF Table, Distinct
  <1>3. s = CHOOSE t \in SetToSeqs(S) : InOrder(t)
    BY DEF Rows, Left
  <1>4. s \in SetToSeqs(S) /\ InOrder(s)
    <2> HIDE DEF S, s
    <2> QED
      BY <1>2, <1>3, OrderExists
  <1>5. s \in [1..n -> S] /\ \A i, j \in 1..n : i # j => s[i] # s[j]
    <2> HIDE DEF S, s
    <2> QED
      BY <1>4 DEF SetToSeqs
  <1>6. s \in Seq(S) /\ Len(s) = n
    <2> HIDE DEF S, s, n
    <2> QED
      BY <1>2, <1>5
  <1>7. \A e \in S : \E i \in 1..n : s[i] = e
    <2> DEFINE D == 1..n
    <2>1. s \in Injection(D, S)
      <3> HIDE DEF S, s, n
      <3> QED
        BY <1>5 DEF Injection, IsInjective
    <2>2. Cardinality(D) = n
      <3> HIDE DEF S, s, n
      <3>1. Cardinality(1..n) = IF 1 > n THEN 0 ELSE n - 1 + 1
        BY <1>2, FS_Interval
      <3> QED
        BY <1>2, <3>1
    <2>3. s \in Surjection(D, S)
      <3> HIDE DEF S, s, D
      <3> QED
        BY <1>2, <2>1, <2>2, FS_Injection
    <2> HIDE DEF S, s, n
    <2> QED
      BY <2>3 DEF Surjection
  <1> HIDE DEF S, s, n
  <1>8. s \in Seq(S) /\ InOrder(s) /\ \A e \in S : \E i \in 1..Len(s) : s[i] = e
    BY <1>4, <1>6, <1>7
  <1> QED
    BY <1>8 DEF S, s

\* A page is the rows up to the limit: what is left of it is behind its cursor
LEMMA PageGives ==
    ASSUME Table(events), NEW f, NEW c
    PROVE  LET p == Page(f, c)
           IN  /\ p.events \in Seq(Left(f, c)) /\ InOrder(p.events)
               /\ p.hasMore \in BOOLEAN
               /\ p.hasMore => /\ Len(p.events) \in 1..Len(p.events)
                               /\ p.cursor = p.events[Len(p.events)] /\ p.cursor \in Left(f, c)
               /\ ~p.hasMore => p.cursor = Unset
               /\ \A e \in Left(f, c) : \/ e \in ToSet(p.events)
                                        \/ p.hasMore /\ Before(p.cursor, e)
  <1> DEFINE S == Left(f, c)  s == Rows(f, c)  n == Min({Limit, Len(s)})  p == Page(f, c)
             h == Len(s) > Limit
  <1>1. /\ s \in Seq(S) /\ InOrder(s) /\ Len(s) \in Nat /\ DOMAIN s = 1..Len(s)
        /\ \A e \in S : \E i \in 1..Len(s) : s[i] = e
    <2>1. /\ s \in Seq(S) /\ InOrder(s)
          /\ \A e \in S : \E i \in 1..Len(s) : s[i] = e
      BY RowsListed
    <2> HIDE DEF S, s
    <2> QED
      BY <2>1
  <1>2. Limit \in Nat \ {0}
    BY AuditAssumption
  <1>3. /\ p.events = SubSeq(s, 1, n) /\ p.hasMore = h
        /\ Len(s) > Limit => p.cursor = s[Limit]
        /\ ~(Len(s) > Limit) => p.cursor = Unset
    BY DEF Page
  <1> HIDE DEF S, s, p
  <1>4. /\ n \in Nat /\ n <= Len(s) /\ n <= Limit
        /\ Len(s) > Limit => n = Limit
        /\ ~(Len(s) > Limit) => n = Len(s)
    <2>1. \E x \in {Limit, Len(s)} : \A y \in {Limit, Len(s)} : x <= y
      BY <1>1, <1>2
    <2>2. n \in {Limit, Len(s)} /\ \A y \in {Limit, Len(s)} : n <= y
      BY <2>1 DEF Min
    <2>3. n <= Limit /\ n <= Len(s) /\ (n = Limit \/ n = Len(s))
      BY <2>2, Zenon
    <2> DEFINE l == Len(s)
    <2>4. l \in Nat
      BY <1>1
    <2> HIDE DEF n, l
    <2>5. n <= Limit /\ n <= l /\ (n = Limit \/ n = l)
      BY <2>3 DEF l
    <2>6. n \in Nat /\ (l > Limit => n = Limit) /\ (~(l > Limit) => n = l)
      BY <1>2, <2>4, <2>5
    <2> QED
      BY <2>5, <2>6 DEF l
  <1> HIDE DEF n, h
  <1>5. \A i \in 1..n : i \in 1..Len(s) /\ s[i] \in S
    <2>1. n \in Nat /\ Len(s) \in Nat /\ n <= Len(s)
      BY <1>1, <1>4
    <2>2. \A i \in 1..n : i \in 1..Len(s)
      BY <2>1
    <2> QED
      BY <1>1, <2>2, ElementOfSeq
  <1> DEFINE q == SubSeq(s, 1, n)
  <1>6. q \in Seq(S) /\ Len(q) = n /\ DOMAIN q = 1..n /\ \A i \in 1..n : q[i] = s[i]
    <2>1. /\ q \in Seq(S) /\ Len(q) = IF 1 <= n THEN n - 1 + 1 ELSE 0
          /\ \A i \in 1..n - 1 + 1 : q[i] = s[1 + i - 1]
      BY <1>4, <1>5, SubSeqProperties
    <2> HIDE DEF q
    <2>2. Len(q) = n
      BY <1>4, <2>1
    <2>3. \A i \in 1..n : q[i] = s[i]
      <3>1. \A i \in 1..n : i \in 1..n - 1 + 1 /\ 1 + i - 1 = i
        BY <1>4
      <3> QED
        BY <2>1, <3>1
    <2> QED
      BY <2>1, <2>2, <2>3
  <1>7. p.events = q
    BY <1>3
  <1> HIDE DEF q
  <1>8. InOrder(q)
    BY <1>1, <1>5, <1>6 DEF InOrder
  <1>9. Len(s) > Limit => /\ Len(q) \in 1..Len(q) /\ p.cursor = q[Len(q)] /\ p.cursor \in S
    BY <1>2, <1>3, <1>4, <1>5, <1>6
  <1>10. ASSUME NEW e \in S PROVE e \in ToSet(q) \/ (Len(s) > Limit /\ Before(p.cursor, e))
    <2>1. PICK j \in 1..Len(s) : s[j] = e
      BY <1>1
    <2>2. /\ Len(s) \in Nat /\ n \in Nat /\ Limit \in Nat \ {0}
          /\ Len(s) > Limit => n = Limit
          /\ ~(Len(s) > Limit) => n = Len(s)
      BY <1>1, <1>2, <1>4
    <2> DEFINE l == Len(s)
    <2> HIDE DEF l
    <2>3. l \in Nat /\ (l > Limit => n = Limit) /\ (~(l > Limit) => n = l) /\ j \in 1..l
      BY <2>2 DEF l
    <2>4. j \in 1..n \/ (l > Limit /\ Limit \in 1..l /\ Limit < j)
      BY <2>2, <2>3
    <2>5. CASE j \in 1..n
      BY <1>6, <2>1, <2>5 DEF ToSet
    <2>6. CASE l > Limit /\ Limit \in 1..l /\ Limit < j
      <3>1. Before(s[Limit], s[j])
        BY <1>1, <2>6 DEF InOrder, l
      <3> QED
        BY <1>3, <2>1, <2>6, <3>1 DEF l
    <2> QED
      BY <2>4, <2>5, <2>6
  <1>11. h \in BOOLEAN /\ (h <=> Len(s) > Limit)
    BY DEF h
  <1> QED
    BY <1>3, <1>6, <1>7, <1>8, <1>9, <1>10, <1>11 DEF S, p

-----------------------------------------------------------------------------
(* The audit list: what is shown                                            *)

\* The list L, with the cursor cur behind it if there is more (m), shows what was asked for by the
\* basis b: in order, nothing else, and everything up to the cursor.  E is the table.
Shown(E, L, cur, m, b) ==
    /\ L \in Seq(E) /\ InOrder(L)
    /\ \A e \in ToSet(L) : Wanted(e, b.filter)
    /\ \A e \in b.wanted : e \in E /\ Wanted(e, b.filter)
    /\ m => Len(L) \in 1..Len(L) /\ cur = L[Len(L)]
    /\ \A e \in b.wanted : e \in ToSet(L) \/ (m /\ Before(cur, e))

\* A list of rows is one of a larger table, too
LEMMA SeqGrows ==
    ASSUME NEW E, NEW F, E \subseteq F, NEW s \in Seq(E)
    PROVE  s \in Seq(F)
  OBVIOUS

\* Events that are written meanwhile change nothing
LEMMA ShownGrows ==
    ASSUME NEW E, NEW F, E \subseteq F, NEW L, NEW cur, NEW m, NEW b, Shown(E, L, cur, m, b)
    PROVE  Shown(F, L, cur, m, b)
  BY SeqGrows DEF Shown

\* The first page
LEMMA ShownFirst ==
    ASSUME Table(events), NEW f
    PROVE  LET p == Page(f, Unset)
               b == [filter |-> f, wanted |-> {e \in events : Wanted(e, f)}]
           IN  Shown(events, p.events, p.cursor, p.hasMore, b)
  <1> DEFINE p == Page(f, Unset)  S == Left(f, Unset)  W == {e \in events : Wanted(e, f)}
             b == [filter |-> f, wanted |-> W]
  <1>1. S = W
    BY SelectedIsWanted DEF Left, Table
  <1>2. /\ p.events \in Seq(S) /\ InOrder(p.events)
        /\ p.hasMore => Len(p.events) \in 1..Len(p.events) /\ p.cursor = p.events[Len(p.events)]
        /\ \A e \in S : e \in ToSet(p.events) \/ (p.hasMore /\ Before(p.cursor, e))
    BY PageGives
  <1>3. b.filter = f /\ b.wanted = W
    OBVIOUS
  <1>4. \A e \in W : e \in events /\ Wanted(e, f)
    OBVIOUS
  <1> HIDE DEF p, S, W, b
  <1>5. \A e \in ToSet(p.events) : e \in S
    BY <1>2, ElementOfSeq DEF ToSet
  <1>6. p.events \in Seq(events)
    BY <1>1, <1>2, <1>4, SeqGrows
  <1>7. Shown(events, p.events, p.cursor, p.hasMore, b)
    BY <1>1, <1>2, <1>3, <1>4, <1>5, <1>6 DEF Shown
  <1> QED
    BY <1>7 DEF p, W, b

\* A list that ends at the cursor, and one that is all behind it
LEMMA OrderJoined ==
    ASSUME NEW E \in SUBSET Event, NEW L \in Seq(E), NEW P \in Seq(E), InOrder(L), InOrder(P),
           Len(L) \in 1..Len(L), \A e \in ToSet(P) : Before(L[Len(L)], e)
    PROVE  InOrder(L \o P)
  <1> DEFINE l == Len(L)  k == Len(P)
  <1>1. l \in Nat /\ k \in Nat /\ DOMAIN L = 1..l /\ DOMAIN P = 1..k
    OBVIOUS
  <1>2. /\ L \o P \in Seq(E) /\ DOMAIN (L \o P) = 1..(l + k)
        /\ \A i \in 1..(l + k) : (L \o P)[i] = IF i <= l THEN L[i] ELSE P[i - l]
    <2>1. /\ L \o P \in Seq(E) /\ Len(L \o P) = l + k
          /\ \A i \in 1..(l + k) : (L \o P)[i] = IF i <= l THEN L[i] ELSE P[i - l]
      BY ConcatProperties
    <2> QED
      BY <2>1
  <1>3. /\ \A i \in 1..l : L[i] \in Event
        /\ \A i \in 1..k : P[i] \in Event
    BY ElementOfSeq
  <1>4. \A j \in 1..k : Before(L[l], P[j])
    BY <1>1 DEF ToSet
  <1> HIDE DEF l, k
  <1>5. \A i \in 1..l, j \in 1..k : Before(L[i], P[j])
    <2> SUFFICES ASSUME NEW i \in 1..l, NEW j \in 1..k PROVE Before(L[i], P[j])
      OBVIOUS
    <2>0. l \in 1..l
      BY DEF l
    <2>1. CASE i = l
      BY <1>4, <2>1
    <2>2. CASE i # l
      <3>1. i < l
        BY <1>1, <2>2
      <3>2. Before(L[i], L[l])
        BY <1>1, <2>0, <3>1 DEF InOrder
      <3> QED
        BY <1>3, <1>4, <2>0, <3>2, BeforeOrder
    <2> QED
      BY <2>1, <2>2
  <1>6. ASSUME NEW i \in 1..(l + k), NEW j \in 1..(l + k), i < j
        PROVE  Before((L \o P)[i], (L \o P)[j])
    <2>1. CASE j <= l
      <3>1. i \in 1..l /\ j \in 1..l /\ i <= l
        BY <1>1, <1>6, <2>1
      <3> QED
        BY <1>1, <1>2, <1>6, <2>1, <3>1 DEF InOrder
    <2>2. CASE i <= l /\ ~(j <= l)
      <3>1. i \in 1..l /\ j - l \in 1..k
        BY <1>1, <2>2
      <3> QED
        BY <1>2, <1>5, <2>2, <3>1
    <2>3. CASE ~(i <= l) /\ ~(j <= l)
      <3>1. i - l \in 1..k /\ j - l \in 1..k /\ i - l < j - l
        BY <1>1, <1>6, <2>3
      <3>2. Before(P[i - l], P[j - l])
        BY <1>1, <3>1 DEF InOrder
      <3> QED
        BY <1>2, <2>3, <3>2
    <2>4. i <= l \/ ~(j <= l)
      BY <1>1, <1>6
    <2> QED
      BY <2>1, <2>2, <2>3, <2>4
  <1> QED
    BY <1>2, <1>6 DEF InOrder

\* The elements and the last element of two lists joined
LEMMA Joined ==
    ASSUME NEW E, NEW L \in Seq(E), NEW P \in Seq(E)
    PROVE  /\ L \o P \in Seq(E)
           /\ ToSet(L \o P) = ToSet(L) \cup ToSet(P)
           /\ Len(P) \in 1..Len(P) => /\ Len(L \o P) \in 1..Len(L \o P)
                                      /\ (L \o P)[Len(L \o P)] = P[Len(P)]
  <1> DEFINE l == Len(L)  k == Len(P)  j == L \o P
  <1>1. l \in Nat /\ k \in Nat /\ DOMAIN L = 1..l /\ DOMAIN P = 1..k
    OBVIOUS
  <1>2. /\ j \in Seq(E) /\ Len(j) = l + k
        /\ \A i \in 1..(l + k) : j[i] = IF i <= l THEN L[i] ELSE P[i - l]
    BY ConcatProperties
  <1>3. DOMAIN j = 1..(l + k)
    BY <1>2
  <1> HIDE DEF l, k, j
  <1>4. \A i \in 1..l : i \in 1..(l + k) /\ j[i] = L[i]
    BY <1>1, <1>2
  <1>5. \A i \in 1..k : l + i \in 1..(l + k) /\ j[l + i] = P[i]
    BY <1>1, <1>2
  <1>6. \A i \in 1..(l + k) : (i \in 1..l /\ j[i] = L[i]) \/ (i - l \in 1..k /\ j[i] = P[i - l])
    <2> SUFFICES ASSUME NEW i \in 1..(l + k)
                 PROVE  (i \in 1..l /\ j[i] = L[i]) \/ (i - l \in 1..k /\ j[i] = P[i - l])
      OBVIOUS
    <2>1. CASE i \in 1..l
      BY <1>4, <2>1
    <2>2. CASE i \notin 1..l
      <3>1. i - l \in 1..k /\ ~(i <= l)
        BY <1>1, <2>2
      <3> QED
        BY <1>2, <3>1
    <2> QED
      BY <2>1, <2>2
  <1>7. ToSet(j) = ToSet(L) \cup ToSet(P)
    <2>1. \A x \in ToSet(j) : x \in ToSet(L) \cup ToSet(P)
      BY <1>1, <1>3, <1>6 DEF ToSet
    <2>2. \A x \in ToSet(L) : x \in ToSet(j)
      BY <1>1, <1>3, <1>4 DEF ToSet
    <2>3. \A x \in ToSet(P) : x \in ToSet(j)
      BY <1>1, <1>3, <1>5 DEF ToSet
    <2> QED
      BY <2>1, <2>2, <2>3
  <1>8. k \in 1..k => Len(j) \in 1..Len(j) /\ j[Len(j)] = P[k]
    BY <1>1, <1>2, <1>5
  <1> QED
    BY <1>2, <1>7, <1>8 DEF j, k

\* A page after the list
LEMMA ShownMore ==
    ASSUME Table(events), NEW L, NEW cur \in Event, NEW m, m, NEW b, Shown(events, L, cur, m, b)
    PROVE  LET p == Page(b.filter, cur)
           IN  Shown(events, L \o p.events, p.cursor, p.hasMore, b)
  <1> DEFINE f == b.filter  p == Page(f, cur)  S == Left(f, cur)  P == p.events
  <1>1. /\ P \in Seq(S) /\ InOrder(P)
        /\ p.hasMore => Len(P) \in 1..Len(P) /\ p.cursor = P[Len(P)]
        /\ \A e \in S : e \in ToSet(P) \/ (p.hasMore /\ Before(p.cursor, e))
    BY PageGives
  <1>2. S = {e \in events : Wanted(e, f) /\ Before(cur, e)}
    BY AuditAssumption, SelectedIsWanted DEF Left, Table, Beyond
  <1>3. /\ L \in Seq(events) /\ InOrder(L) /\ Len(L) \in 1..Len(L) /\ cur = L[Len(L)]
        /\ \A e \in ToSet(L) : Wanted(e, f)
        /\ \A e \in b.wanted : e \in events /\ Wanted(e, f)
        /\ \A e \in b.wanted : e \in ToSet(L) \/ Before(cur, e)
    BY DEF Shown
  <1> HIDE DEF p, S, P, f
  <1>4. P \in Seq(events) /\ \A e \in ToSet(P) : e \in S
    <2>1. S \subseteq events
      BY <1>2
    <2>2. \A e \in ToSet(P) : e \in S
      BY <1>1, ElementOfSeq DEF ToSet
    <2> QED
      BY <1>1, <2>1, <2>2, SeqGrows
  <1>5. InOrder(L \o P)
    <2>1. \A e \in ToSet(P) : Before(L[Len(L)], e)
      BY <1>2, <1>3, <1>4
    <2>2. events \in SUBSET Event
      BY DEF Table
    <2> QED
      BY <1>1, <1>3, <1>4, <2>1, <2>2, OrderJoined
  <1>6. /\ L \o P \in Seq(events) /\ ToSet(L \o P) = ToSet(L) \cup ToSet(P)
        /\ p.hasMore => /\ Len(L \o P) \in 1..Len(L \o P)
                        /\ p.cursor = (L \o P)[Len(L \o P)]
    BY <1>1, <1>3, <1>4, Joined
  <1>7. \A e \in ToSet(L \o P) : Wanted(e, f)
    BY <1>2, <1>3, <1>4, <1>6
  <1>8. \A e \in b.wanted : e \in ToSet(L \o P) \/ (p.hasMore /\ Before(p.cursor, e))
    BY <1>1, <1>2, <1>3, <1>6
  <1>9. Shown(events, L \o P, p.cursor, p.hasMore, b)
    BY <1>3, <1>5, <1>6, <1>7, <1>8 DEF Shown, f
  <1> QED
    BY <1>9 DEF P, p, f

-----------------------------------------------------------------------------
(* The audit list: types                                                    *)

PageRecord == [events : Seq(Event), hasMore : BOOLEAN, cursor : Event \cup {Unset}]

Basis == [filter : Filters, wanted : SUBSET Event]

Request == [reset : BOOLEAN, page : PageRecord \cup {Unset}, basis : Basis \cup {Unset}]

\* An answer shows rows of the table, and has a cursor exactly if there is more
PageOK(p, E) ==
    /\ p.events \in Seq(E)
    /\ p.cursor \in E \cup {Unset} /\ p.hasMore \in BOOLEAN /\ (p.hasMore <=> p.cursor # Unset)

\* The variables, with the answers on their way
AuditTyped ==
    /\ Table(events)
    /\ list \in Seq(events)
    /\ cursor \in events \cup {Unset} /\ more \in BOOLEAN /\ (cursor # Unset => more)
    /\ asked \in Seq(Request) /\ Len(asked) <= MaxAsked
    /\ \A i \in 1..Len(asked) : asked[i].page # Unset => PageOK(asked[i].page, events)
    /\ busy \in BOOLEAN /\ clean \in BOOLEAN

\* A request that is answered or fails is taken out from among the others
LEMMA TakenOut ==
    ASSUME NEW S, NEW s \in Seq(S), NEW i \in 1..Len(s)
    PROVE  /\ RemoveAt(s, i) \in Seq(S) /\ Len(RemoveAt(s, i)) = Len(s) - 1
           /\ \A j \in 1..Len(RemoveAt(s, i)) : \E k \in 1..Len(s) : RemoveAt(s, i)[j] = s[k]
  <1> DEFINE n == Len(s)  a == SubSeq(s, 1, i - 1)  b == SubSeq(s, i + 1, n)
             A == {s[k] : k \in 1..n}
  <1>1. n \in Nat /\ i \in 1..n /\ \A k \in 1..n : s[k] \in A /\ s[k] \in S
    BY ElementOfSeq
  <1>2. RemoveAt(s, i) = a \o b
    BY DEF RemoveAt
  <1>3. \A x \in A : \E k \in 1..n : x = s[k]
    OBVIOUS
  <1>4. A \subseteq S
    BY <1>1
  <1> HIDE DEF n, A
  <1>5. a \in Seq(A) /\ Len(a) = i - 1
    <2>1. \A k \in 1..(i - 1) : k \in 1..n
      BY <1>1
    <2>2. \A k \in 1..(i - 1) : s[k] \in A
      BY <1>1, <2>1
    <2>3. i - 1 \in Int /\ 1 \in Int
      BY <1>1
    <2>4. a \in Seq(A) /\ Len(a) = IF 1 <= i - 1 THEN i - 1 - 1 + 1 ELSE 0
      BY <2>2, <2>3, SubSeqProperties
    <2> HIDE DEF a
    <2> QED
      BY <1>1, <2>4
  <1>6. b \in Seq(A) /\ Len(b) = n - i
    <2>1. \A k \in (i + 1)..n : k \in 1..n
      BY <1>1
    <2>2. \A k \in (i + 1)..n : s[k] \in A
      BY <1>1, <2>1
    <2>3. i + 1 \in Int /\ n \in Int
      BY <1>1
    <2>4. b \in Seq(A) /\ Len(b) = IF i + 1 <= n THEN n - (i + 1) + 1 ELSE 0
      BY <2>2, <2>3, SubSeqProperties
    <2> HIDE DEF b
    <2> QED
      BY <1>1, <2>4
  <1> HIDE DEF a, b
  <1> DEFINE r == a \o b
  <1>7. r \in Seq(A) /\ Len(r) = Len(a) + Len(b)
    BY <1>5, <1>6, ConcatProperties
  <1> HIDE DEF r
  <1>8. Len(r) = n - 1
    BY <1>1, <1>5, <1>6, <1>7
  <1>9. \A j \in 1..Len(r) : \E k \in 1..n : r[j] = s[k]
    BY <1>3, <1>7, ElementOfSeq
  <1>10. r \in Seq(S)
    BY <1>4, <1>7, SeqGrows
  <1> QED
    BY <1>2, <1>8, <1>9, <1>10 DEF r, n

\* ... and so is a page
LEMMA PageGrows ==
    ASSUME NEW E, NEW F, E \subseteq F, NEW p, PageOK(p, E)
    PROVE  PageOK(p, F)
  BY SeqGrows DEF PageOK

\* A page that is read has its type
LEMMA PageTyped ==
    ASSUME Table(events), NEW f, NEW c
    PROVE  PageOK(Page(f, c), events) /\ Page(f, c) \in PageRecord
  <1> DEFINE p == Page(f, c)  S == Left(f, c)
  <1>1. /\ p.events \in Seq(S) /\ p.hasMore \in BOOLEAN
        /\ p.hasMore => p.cursor \in S
        /\ ~p.hasMore => p.cursor = Unset
    BY PageGives
  <1>2. S \subseteq events /\ events \subseteq Event /\ Unset \notin Event
    BY AuditAssumption DEF Left, Table
  <1>3. p = [events |-> p.events, hasMore |-> p.hasMore, cursor |-> p.cursor]
    BY DEF Page
  <1> HIDE DEF p, S
  <1>4. p.events \in Seq(events) /\ p.events \in Seq(Event)
    BY <1>1, <1>2, SeqGrows
  <1>5. p.cursor \in events \cup {Unset} /\ p.cursor \in Event \cup {Unset}
    BY <1>1, <1>2
  <1>6. p.hasMore <=> p.cursor # Unset
    BY <1>1, <1>2
  <1>7. PageOK(p, events)
    BY <1>1, <1>4, <1>5, <1>6 DEF PageOK
  <1>8. p \in PageRecord
    BY <1>1, <1>3, <1>4, <1>5 DEF PageRecord
  <1> QED
    BY <1>7, <1>8 DEF p

\* What Ask adds to the requests
Sent(reset, f) ==
    [reset |-> reset,
     page  |-> IF Refused(f) THEN Unset ELSE Page(f, IF reset THEN Unset ELSE cursor),
     basis |-> IF reset /\ ~Refused(f) /\ asked = <<>>
               THEN [filter |-> f, wanted |-> {e \in events : Wanted(e, f)}]
               ELSE Unset]

\* It has its type
LEMMA SentTyped ==
    ASSUME Table(events), NEW reset \in BOOLEAN, NEW f \in Filters
    PROVE  /\ Sent(reset, f) \in Request
           /\ Sent(reset, f).page # Unset => PageOK(Sent(reset, f).page, events)
  <1> DEFINE p == Page(f, IF reset THEN Unset ELSE cursor)
             b == [filter |-> f, wanted |-> {e \in events : Wanted(e, f)}]
             r == Sent(reset, f)
  <1>1. PageOK(p, events) /\ p \in PageRecord
    BY PageTyped
  <1>2. b \in Basis
    BY DEF Basis, Table
  <1>3. r = [reset |-> reset, page |-> IF Refused(f) THEN Unset ELSE p,
             basis |-> IF reset /\ ~Refused(f) /\ asked = <<>> THEN b ELSE Unset]
    BY DEF Sent
  <1> HIDE DEF p, b, r
  <1>4. r \in Request
    BY <1>1, <1>2, <1>3 DEF Request
  <1>5. r.page # Unset => PageOK(r.page, events)
    BY <1>1, <1>3
  <1> QED
    BY <1>4, <1>5 DEF r

\* ... and so have the requests with it
LEMMA AskTyped ==
    ASSUME AuditTyped, NEW reset \in BOOLEAN, NEW f \in Filters, Ask(reset, f), clean' \in BOOLEAN,
           cursor' \in {cursor, Unset}
    PROVE  AuditTyped'
  <1> DEFINE r == Sent(reset, f)
  <1>1. asked' = Append(asked, r) /\ Len(asked) < MaxAsked /\ busy' = TRUE
    BY DEF Ask, Sent
  <1>2. r \in Request /\ (r.page # Unset => PageOK(r.page, events))
    BY SentTyped DEF AuditTyped
  <1> HIDE DEF r
  <1>3. /\ asked' \in Seq(Request) /\ Len(asked') = Len(asked) + 1
        /\ \A i \in 1..Len(asked) : asked'[i] = asked[i]
        /\ asked'[Len(asked) + 1] = r
    BY <1>1, <1>2, AppendProperties DEF AuditTyped
  <1>4. Len(asked) \in Nat /\ MaxAsked \in Nat
    BY AuditAssumption DEF AuditTyped
  <1>5. Len(asked') <= MaxAsked
    BY <1>1, <1>3, <1>4
  <1>6. \A i \in 1..Len(asked') : i \in 1..Len(asked) \/ i = Len(asked) + 1
    BY <1>3, <1>4
  <1>7. \A i \in 1..Len(asked') : asked'[i].page # Unset => PageOK(asked'[i].page, events)
    BY <1>2, <1>3, <1>6 DEF AuditTyped
  <1> QED
    BY <1>1, <1>3, <1>5, <1>7 DEF AuditTyped, Ask

\* Every step of writers and page keeps the types
LEMMA AuditTypedNext ==
    ASSUME AuditTyped, [AuditNext]_auditVars
    PROVE  AuditTyped'
  <1>1. ASSUME NEW id \in 1..MaxEvents, NEW at \in 0..MaxTime, NEW kind \in Kinds,
               Write(id, at, kind)
        PROVE  AuditTyped'
    <2> DEFINE e == [id |-> id, at |-> at, kind |-> kind]
    <2>1. e \in Event /\ e.id = id
      BY DEF Event
    <2> HIDE DEF e
    <2>2. events' = events \cup {e} /\ \A d \in events : d.id # id
      BY <1>1 DEF Write, e
    <2>3. Table(events)'
      <3>1. IsFiniteSet(events')
        BY <2>2, FS_AddElement DEF AuditTyped, Table
      <3> QED
        BY <2>1, <2>2, <3>1 DEF AuditTyped, Table, Distinct
    <2>4. events \subseteq events' /\ UNCHANGED <<list, cursor, more, busy, asked, clean>>
      BY <1>1, <2>2 DEF Write
    <2>5. list' \in Seq(events')
      BY <2>4, SeqGrows DEF AuditTyped
    <2>6. \A i \in 1..Len(asked) : asked[i].page # Unset => PageOK(asked[i].page, events')
      BY <2>4, PageGrows DEF AuditTyped
    <2> QED
      BY <2>3, <2>4, <2>5, <2>6 DEF AuditTyped
  <1>2. ASSUME NEW f \in Filters, Reload(f) PROVE AuditTyped'
    BY <1>2, AskTyped DEF Reload
  <1>7. ASSUME NEW f \in Filters, SwitchView(f) PROVE AuditTyped'
    BY <1>7, AskTyped DEF SwitchView
  <1>3. ASSUME NEW f \in Filters, More(f) PROVE AuditTyped'
    BY <1>3, AskTyped DEF More
  <1>4. ASSUME NEW i \in DOMAIN asked, Arrive(i) PROVE AuditTyped'
    <2> DEFINE r == asked[i]
    <2>1. asked \in Seq(Request) /\ i \in 1..Len(asked) /\ Len(asked) \in Nat
      BY DEF AuditTyped
    <2>2. /\ asked' \in Seq(Request) /\ Len(asked') = Len(asked) - 1
          /\ \A j \in 1..Len(asked') : \E k \in 1..Len(asked) : asked'[j] = asked[k]
      <3> DEFINE t == RemoveAt(asked, i)
      <3>1. /\ t \in Seq(Request) /\ Len(t) = Len(asked) - 1
            /\ \A j \in 1..Len(t) : \E k \in 1..Len(asked) : t[j] = asked[k]
        BY <2>1, TakenOut
      <3>2. asked' = t
        BY <1>4 DEF Arrive
      <3> QED
        BY <3>1, <3>2
    <2>3. Len(asked') <= MaxAsked
      BY <2>1, <2>2, AuditAssumption DEF AuditTyped
    <2>4. PageOK(r.page, events)
      BY <1>4, <2>1 DEF Arrive, AuditTyped
    <2>5. list' \in Seq(events)
      BY <1>4, <2>4, ConcatProperties DEF Arrive, PageOK, AuditTyped
    <2>6. \A j \in 1..Len(asked') : asked'[j].page # Unset => PageOK(asked'[j].page, events)
      BY <2>2 DEF AuditTyped
    <2>7. /\ cursor' \in events \cup {Unset} /\ more' \in BOOLEAN /\ (more' <=> cursor' # Unset)
          /\ events' = events /\ busy' \in BOOLEAN /\ clean' = clean
      BY <1>4, <2>4 DEF Arrive, PageOK
    <2> QED
      BY <2>2, <2>3, <2>5, <2>6, <2>7 DEF AuditTyped
  <1>5. ASSUME NEW i \in DOMAIN asked, Fail(i) PROVE AuditTyped'
    <2>1. asked \in Seq(Request) /\ i \in 1..Len(asked) /\ Len(asked) \in Nat
      BY DEF AuditTyped
    <2>2. /\ asked' \in Seq(Request) /\ Len(asked') = Len(asked) - 1
          /\ \A j \in 1..Len(asked') : \E k \in 1..Len(asked) : asked'[j] = asked[k]
      <3> DEFINE t == RemoveAt(asked, i)
      <3>1. /\ t \in Seq(Request) /\ Len(t) = Len(asked) - 1
            /\ \A j \in 1..Len(t) : \E k \in 1..Len(asked) : t[j] = asked[k]
        BY <2>1, TakenOut
      <3>2. asked' = t
        BY <1>5 DEF Fail
      <3> QED
        BY <3>1, <3>2
    <2>3. Len(asked') <= MaxAsked
      BY <2>1, <2>2, AuditAssumption DEF AuditTyped
    <2>4. \A j \in 1..Len(asked') : asked'[j].page # Unset => PageOK(asked'[j].page, events)
      BY <2>2 DEF AuditTyped
    <2>5. UNCHANGED <<events, list, cursor, more>> /\ busy' \in BOOLEAN /\ clean' \in BOOLEAN
      BY <1>5 DEF Fail
    <2> QED
      BY <2>2, <2>3, <2>4, <2>5 DEF AuditTyped
  <1>6. CASE UNCHANGED auditVars
    BY <1>6 DEF auditVars, AuditTyped
  <1>8. CASE Logout
    <2>1. <<>> \in Seq(events)
      OBVIOUS
    <2> QED
      BY <1>8, <2>1 DEF Logout, AuditTyped
  <1> QED
    BY <1>1, <1>2, <1>3, <1>4, <1>5, <1>6, <1>7, <1>8 DEF AuditNext

\* The types, the table's key and the answers on their way included
THEOREM AuditTypedAlways == AuditSpec => []AuditTyped
  <1>1. AuditInit => AuditTyped
    <2> SUFFICES ASSUME AuditInit PROVE AuditTyped
      OBVIOUS
    <2>1. Table(events)
      BY FS_EmptySet DEF AuditInit, Table, Distinct
    <2>2. MaxAsked \in Nat
      BY AuditAssumption
    <2>3. asked \in Seq(Request) /\ Len(asked) = 0 /\ list \in Seq(events)
      BY DEF AuditInit
    <2>4. Len(asked) <= MaxAsked /\ 1..Len(asked) = {}
      BY <2>2, <2>3
    <2> QED
      BY <2>1, <2>3, <2>4 DEF AuditInit, AuditTyped
  <1> QED
    BY <1>1, AuditTypedNext, PTL DEF AuditSpec

-----------------------------------------------------------------------------
(* The audit list: nothing is skipped                                       *)

\* A request on its way, and what its answer will show: a new list, or the list that is shown and
\* a page after it
Coming(r) ==
    IF r.reset
    THEN r.page # Unset =>
            Shown(events, r.page.events, r.page.cursor, r.page.hasMore, r.basis)
    ELSE /\ Shown(events, list, cursor, more, basis)
         /\ r.page # Unset =>
               Shown(events, list \o r.page.events, r.page.cursor, r.page.hasMore, basis)

\* Requests made one at a time with one filter
ListInv ==
    clean =>
        /\ asked = <<>> => Shown(events, list, cursor, more, basis)
        /\ asked # <<>> => Len(asked) = 1 /\ Coming(asked[1])

\* Every step of writers and page keeps what is shown, and what will be
LEMMA ListNext ==
    ASSUME AuditTyped, ListInv, [AuditNext]_auditVars
    PROVE  ListInv'
  <1>1. ASSUME NEW id \in 1..MaxEvents, NEW at \in 0..MaxTime, NEW kind \in Kinds,
               Write(id, at, kind)
        PROVE  ListInv'
    <2>1. /\ events \subseteq events'
          /\ list' = list /\ cursor' = cursor /\ more' = more /\ asked' = asked
          /\ basis' = basis /\ clean' = clean
      BY <1>1 DEF Write
    <2>2. \A L, c, m, b : Shown(events, L, c, m, b) => Shown(events', L, c, m, b)
      BY <2>1, ShownGrows
    <2> QED
      BY <2>1, <2>2, Zenon DEF ListInv, Coming
  <1>2. ASSUME NEW f \in Filters, Reload(f) \/ SwitchView(f) PROVE ListInv'
    <2> SUFFICES ASSUME clean' PROVE asked' # <<>> /\ Len(asked') = 1 /\ Coming(asked[1])'
      BY DEF ListInv
    <2> DEFINE r == Sent(TRUE, f)
    <2>1. asked = <<>> /\ asked' = Append(asked, r) /\ events' = events
      BY <1>2 DEF Reload, SwitchView, Ask, Sent
    <2>2. r.reset /\ (r.page # Unset => Shown(events, r.page.events, r.page.cursor,
                                              r.page.hasMore, r.basis))
      BY <2>1, ShownFirst DEF Sent, AuditTyped
    <2> HIDE DEF r
    <2>3. asked' = <<r>>
      BY <2>1
    <2> QED
      BY <2>1, <2>2, <2>3 DEF Coming
  <1>3. ASSUME NEW f \in Filters, More(f) PROVE ListInv'
    <2> SUFFICES ASSUME clean' PROVE asked' # <<>> /\ Len(asked') = 1 /\ Coming(asked[1])'
      BY DEF ListInv
    <2> DEFINE r == Sent(FALSE, f)
    <2>1. /\ asked = <<>> /\ asked' = Append(asked, r) /\ clean /\ f = basis.filter /\ more
          /\ events' = events /\ list' = list /\ cursor' = cursor /\ more' = more
          /\ basis' = basis
      BY <1>3 DEF More, Ask, Sent
    <2>2. Shown(events, list, cursor, more, basis)
      BY <2>1 DEF ListInv
    <2>3. Table(events) /\ cursor \in Event
      BY <2>1, <2>2, ElementOfSeq DEF Shown, AuditTyped, Table
    <2> DEFINE p == Page(f, cursor)
    <2>4. Shown(events, list \o p.events, p.cursor, p.hasMore, basis)
      BY <2>1, <2>2, <2>3, ShownMore
    <2>5. ~r.reset /\ (r.page # Unset => r.page = p)
      BY DEF Sent
    <2> HIDE DEF r, p
    <2>6. asked' = <<r>>
      BY <2>1
    <2>7. asked' # <<>> /\ Len(asked') = 1 /\ asked'[1] = r
      BY <2>6
    <2>8. Shown(events', list', cursor', more', basis')
      BY <2>1, <2>2, Zenon
    <2>9. r.page # Unset =>
             Shown(events', list' \o r.page.events, r.page.cursor, r.page.hasMore, basis')
      BY <2>1, <2>4, <2>5, Zenon
    <2> QED
      BY <2>5, <2>7, <2>8, <2>9, Zenon DEF Coming
  <1>4. ASSUME NEW i \in DOMAIN asked, Arrive(i) PROVE ListInv'
    <2> SUFFICES ASSUME clean' PROVE ListInv'
      BY DEF ListInv
    <2>1. clean /\ asked # <<>> /\ Len(asked) = 1 /\ i = 1 /\ Coming(asked[1])
      BY <1>4 DEF Arrive, ListInv, AuditTyped
    <2>2. asked' \in Seq(Request) /\ Len(asked') = Len(asked) - 1
      BY <1>4, TakenOut DEF Arrive, AuditTyped
    <2>3. asked' = <<>>
      BY <2>1, <2>2
    <2>4. Shown(events, list, cursor, more, basis)'
      BY <1>4, <2>1 DEF Arrive, Coming
    <2> QED
      BY <2>3, <2>4 DEF ListInv
  <1>5. ASSUME NEW i \in DOMAIN asked, Fail(i) PROVE ListInv'
    <2> SUFFICES ASSUME clean' PROVE ListInv'
      BY DEF ListInv
    <2>1. /\ clean /\ ~asked[1].reset /\ asked # <<>> /\ Len(asked) = 1 /\ i = 1
          /\ Coming(asked[1])
      <3>1. clean /\ ~asked[i].reset
        BY <1>5 DEF Fail
      <3>2. i \in 1..Len(asked) /\ asked # <<>>
        BY DEF AuditTyped
      <3>3. Len(asked) = 1 /\ Coming(asked[1])
        BY <3>1, <3>2 DEF ListInv
      <3>4. i = 1
        BY <3>2, <3>3
      <3> QED
        BY <3>1, <3>2, <3>3, <3>4
    <2>2. asked' \in Seq(Request) /\ Len(asked') = Len(asked) - 1
      BY <1>5, TakenOut DEF Fail, AuditTyped
    <2>3. asked' = <<>>
      BY <2>1, <2>2
    <2>4. Shown(events, list, cursor, more, basis)'
      BY <1>5, <2>1 DEF Fail, Coming
    <2> QED
      BY <2>3, <2>4 DEF ListInv
  <1>6. CASE UNCHANGED auditVars
    BY <1>6 DEF auditVars, ListInv, Coming
  <1>7. CASE Logout
    BY <1>7 DEF Logout, ListInv
  <1> QED
    BY <1>1, <1>2, <1>3, <1>4, <1>5, <1>6, <1>7 DEF AuditNext

\* loadAudit: while requests are made one at a time with one filter, what is shown is complete up
\* to the cursor, and so is what the answer on its way will make of it
THEOREM ListAlways == AuditSpec => []ListInv
  <1>1. AuditInit => ListInv
    <2> SUFFICES ASSUME AuditInit PROVE ListInv
      OBVIOUS
    <2>1. list = <<>> /\ asked = <<>> /\ ~more /\ basis.wanted = {}
      BY DEF AuditInit
    <2>2. ToSet(list) = {} /\ InOrder(list) /\ list \in Seq(events)
      BY <2>1 DEF ToSet, InOrder
    <2> QED
      BY <2>1, <2>2 DEF ListInv, Shown
  <1> QED
    BY <1>1, AuditTypedAlways, ListNext, PTL DEF AuditSpec

\* The types of the audit list; and loadAudit: while there is a cursor the button that asks for more
\* is shown, and with requests made one at a time, no new list having failed, only then
THEOREM AuditTyping == AuditSpec => []AuditTypeOK
  <1>1. AuditTyped /\ ListInv => AuditTypeOK
    <2> SUFFICES ASSUME AuditTyped, ListInv PROVE AuditTypeOK
      OBVIOUS
    <2>1. ToSet(list) \subseteq events
      BY ElementOfSeq DEF AuditTyped, ToSet
    <2>2. {busy, clean} \subseteq BOOLEAN
      BY DEF AuditTyped
    <2>3. ASSUME clean, asked = <<>>, more PROVE cursor # Unset
      <3>1. list \in Seq(events) /\ Len(list) \in 1..Len(list) /\ cursor = list[Len(list)]
        BY <2>3 DEF ListInv, Shown
      <3>2. cursor \in events
        BY <3>1, ElementOfSeq
      <3> QED
        BY <3>2, AuditAssumption DEF AuditTyped, Table
    <2> QED
      BY <2>1, <2>2, <2>3 DEF AuditTyped, AuditTypeOK, Table
  <1> QED
    BY <1>1, AuditTypedAlways, ListAlways, PTL

\* list and its cursor: whatever is written while a list is paged through, no event that was there
\* at the first page is skipped, and none is shown twice
THEOREM NothingIsSkipped == AuditSpec => []NothingSkipped
  <1>1. AuditTyped /\ ListInv => NothingSkipped
    <2> SUFFICES ASSUME AuditTyped, ListInv, clean, asked = <<>>
                 PROVE  /\ \A i \in 1..(Len(list) - 1) : Before(list[i], list[i + 1])
                        /\ \A e \in basis.wanted :
                              (more => ~Before(cursor, e)) => e \in ToSet(list)
      BY DEF NothingSkipped
    <2>1. Shown(events, list, cursor, more, basis)
      BY DEF ListInv
    <2>2. \A i \in 1..(Len(list) - 1) : Before(list[i], list[i + 1])
      <3>1. InOrder(list) /\ list \in Seq(events)
        BY <2>1 DEF Shown
      <3>2. Len(list) \in Nat /\ DOMAIN list = 1..Len(list)
        BY <3>1
      <3>3. \A i \in 1..(Len(list) - 1) : i \in 1..Len(list) /\ i + 1 \in 1..Len(list) /\ i < i + 1
        BY <3>2
      <3> QED
        BY <3>1, <3>2, <3>3 DEF InOrder
    <2>3. \A e \in basis.wanted : (more => ~Before(cursor, e)) => e \in ToSet(list)
      BY <2>1 DEF Shown
    <2> QED
      BY <2>2, <2>3
  <1> QED
    BY <1>1, AuditTypedAlways, ListAlways, PTL

\* _category_condition and the action conditions against category_for and normalized_action: what
\* is listed is shown under the labels that the filter asks for
THEOREM LabelsMatch == AuditSpec => []FilterMatchesLabel
  <1>1. ListInv => FilterMatchesLabel
    BY DEF ListInv, Shown, FilterMatchesLabel
  <1> QED
    BY <1>1, ListAlways, PTL

=============================================================================
