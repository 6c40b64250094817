------------------------------- MODULE Dashboard --------------------------------
(***************************************************************************)
(* The metrics service and the WebSocket connections it feeds.              *)
(*                                                                         *)
(* One collector task takes a snapshot every interval and puts it into the  *)
(* one-place queue of every subscriber, replacing an unread one.  A         *)
(* connection's handler waits for two tasks: one that fetches the next      *)
(* snapshot from the subscription, and one that watches the session.  The   *)
(* server's shutdown cancels the collector and puts an end marker into the  *)
(* queues.                                                                  *)
(*                                                                         *)
(* Snapshots are numbered in the order of their collection.                 *)
(***************************************************************************)
EXTENDS Naturals, Sequences

CONSTANTS
    Connections,
    MaxSnapshots    \* bound on the snapshots collected

ASSUME DashboardAssumption == MaxSnapshots \in Nat \ {0}

VARIABLES
    phase,          \* the server: "running", "quitting", "stopping", "stopped"
    collector,      \* the collector task: "sleep", "collect", "none"
    latest,         \* _snapshot
    subscribers,    \* _subscribers
    queue,          \* each subscription's queue
    pc,             \* each handler
    fetch,          \* its snapshot_task: none, created, waiting, item, end
    item,           \* the snapshot the task has fetched, or the handler sends
    live,           \* the session is neither revoked nor expired
    expired,        \* the session watch has finished
    gone,           \* the client has disconnected
    seen,           \* history: the last snapshot the client was sent
    owed,           \* history: subscribers when stop() put its end markers
    late            \* history: snapshots sent after the watch had finished

service  == <<phase, collector, latest>>
handlers == <<pc, fetch, item>>
clients  == <<live, expired, gone>>
history  == <<seen, owed, late>>
vars     == <<service, subscribers, queue, handlers, clients, history>>

End == 0    \* the end marker

Put(Q, S, x) == [c \in Connections |-> IF c \in S THEN <<x>> ELSE Q[c]]

-----------------------------------------------------------------------------
(* The collector                                                            *)

Collect ==
    /\ collector = "sleep" /\ latest < MaxSnapshots /\ collector' = "collect"
    /\ UNCHANGED <<phase, latest, subscribers, queue, handlers, clients, history>>

\* Faulty variant of Replace: a full queue keeps what it has
ReplaceIfEmpty(x) ==
    queue' = Put(queue, {c \in subscribers : queue[c] = <<>>}, x)

\* Faulty variant of Replace: nothing is removed from a full queue
ReplaceAppend(x) ==
    queue' = [c \in Connections |-> IF c \in subscribers THEN Append(queue[c], x) ELSE queue[c]]

\* A full queue is emptied first
Replace(x) == queue' = Put(queue, subscribers, x)

Publish ==
    /\ collector = "collect" /\ collector' = "sleep"
    /\ latest' = latest + 1 /\ Replace(latest')
    /\ UNCHANGED <<phase, subscribers, handlers, clients, history>>

\* _run goes on with the snapshot it had
CollectFails ==
    /\ collector = "collect" /\ collector' = "sleep"
    /\ UNCHANGED <<phase, latest, subscribers, queue, handlers, clients, history>>

-----------------------------------------------------------------------------
(* Shutdown                                                                 *)

Quit ==
    /\ phase = "running" /\ phase' = "quitting"
    /\ UNCHANGED <<collector, latest, subscribers, queue, handlers, clients, history>>

\* Faulty variant of StopCollector: the task is not cancelled
StopCollectorLater ==
    /\ phase = "quitting" /\ phase' = "stopping"
    /\ UNCHANGED <<collector, latest, subscribers, queue, handlers, clients, history>>

\* stop: the collector is cancelled and awaited
StopCollector ==
    /\ phase = "quitting" /\ phase' = "stopping"
    /\ collector' = "none"
    /\ UNCHANGED <<latest, subscribers, queue, handlers, clients, history>>

\* ... and every subscriber gets the end marker
StopSubscribers ==
    /\ phase = "stopping" /\ phase' = "stopped"
    /\ queue' = Put(queue, subscribers, End) /\ owed' = subscribers
    /\ UNCHANGED <<collector, latest, subscribers, handlers, clients, seen, late>>

-----------------------------------------------------------------------------
(* A connection                                                             *)

\* Authenticate, accept, start the session watch and the first fetch; a request without a
\* valid session, from another origin or with query parameters is closed
Connect(c) ==
    /\ pc[c] = "new" /\ phase = "running"
    /\ \/ /\ live[c] /\ pc' = [pc EXCEPT ![c] = "wait"]
          /\ fetch' = [fetch EXCEPT ![c] = "created"]
       \/ pc' = [pc EXCEPT ![c] = "closed"] /\ UNCHANGED fetch
    /\ UNCHANGED <<service, subscribers, queue, item, clients, history>>

\* subscribe up to its first await: startup has left a snapshot, so latest() does not wait
Subscribe(c) ==
    /\ fetch[c] = "created" /\ fetch' = [fetch EXCEPT ![c] = "waiting"]
    /\ subscribers' = subscribers \cup {c}
    /\ queue' = [queue EXCEPT ![c] = <<latest>>]
    /\ UNCHANGED <<service, pc, item, clients, history>>

\* queue.get returns; the end marker ends the subscription, and so does an item nobody waits
\* for any more
Fetched(c) ==
    /\ fetch[c] = "waiting" /\ queue[c] # <<>>
    /\ queue' = [queue EXCEPT ![c] = <<>>]
    /\ item' = [item EXCEPT ![c] = Head(queue[c])]
    /\ fetch' = [fetch EXCEPT ![c] = IF pc[c] = "closed" THEN "none"
                                     ELSE IF Head(queue[c]) = End THEN "end"
                                     ELSE "item"]
    /\ subscribers' = IF fetch'[c] = "item" THEN subscribers ELSE subscribers \ {c}
    /\ UNCHANGED <<service, pc, clients, history>>

\* Faulty variant of Close: the subscription is not closed
CloseOnly(c) ==
    /\ pc' = [pc EXCEPT ![c] = "closed"] /\ fetch' = [fetch EXCEPT ![c] = "none"]
    /\ UNCHANGED subscribers

\* The fetch is cancelled or finished, the subscription's finally block removes the queue
Close(c) ==
    /\ pc' = [pc EXCEPT ![c] = "closed"] /\ fetch' = [fetch EXCEPT ![c] = "none"]
    /\ subscribers' = subscribers \ {c}

\* Faulty variant of Wake: a fetched snapshot is sent even if the watch has finished
WakeItemFirst(c) ==
    /\ pc[c] = "wait" /\ (fetch[c] \in {"item", "end"} \/ expired[c])
    /\ IF fetch[c] = "item"
       THEN /\ pc' = [pc EXCEPT ![c] = "send"] /\ fetch' = [fetch EXCEPT ![c] = "none"]
            /\ UNCHANGED subscribers
       ELSE Close(c)
    /\ UNCHANGED <<service, queue, item, clients, history>>

\* asyncio.wait returns: the session's end is looked at first (4401), then the end of the
\* subscription (1012)
Wake(c) ==
    /\ pc[c] = "wait" /\ (fetch[c] \in {"item", "end"} \/ expired[c])
    /\ IF fetch[c] = "item" /\ ~expired[c]
       THEN /\ pc' = [pc EXCEPT ![c] = "send"] /\ fetch' = [fetch EXCEPT ![c] = "none"]
            /\ UNCHANGED subscribers
       ELSE Close(c)
    /\ UNCHANGED <<service, queue, item, clients, history>>

\* The snapshot is sent and the next fetch started
Send(c) ==
    /\ pc[c] = "send" /\ pc' = [pc EXCEPT ![c] = "wait"]
    /\ fetch' = [fetch EXCEPT ![c] = "waiting"]
    /\ seen' = [seen EXCEPT ![c] = item[c]]
    /\ late' = [late EXCEPT ![c] = IF expired[c] THEN @ + 1 ELSE @]
    /\ UNCHANGED <<service, subscribers, queue, item, clients, owed>>

\* Only a send notices that the client is gone
SendFails(c) ==
    /\ pc[c] = "send" /\ gone[c] /\ Close(c)
    /\ UNCHANGED <<service, queue, item, clients, history>>

\* A shutdown by force cancels the handlers before it stops the service; the generator cannot
\* be closed while the fetch runs in it, the RuntimeError is suppressed and the fetch is left
\* behind
CancelHandler(c) ==
    /\ phase = "quitting" /\ pc[c] \in {"wait", "send"}
    /\ IF fetch[c] = "waiting"
       THEN pc' = [pc EXCEPT ![c] = "closed"] /\ UNCHANGED <<fetch, subscribers>>
       ELSE Close(c)
    /\ UNCHANGED <<service, queue, item, clients, history>>

-----------------------------------------------------------------------------
(* The session and the client                                               *)

SessionEnds(c) ==
    /\ live[c] /\ live' = [live EXCEPT ![c] = FALSE]
    /\ UNCHANGED <<service, subscribers, queue, handlers, expired, gone, history>>

\* wait_for_websocket_session_end
CheckSession(c) ==
    /\ pc[c] \in {"wait", "send"} /\ ~expired[c]
    /\ ~live[c] /\ expired' = [expired EXCEPT ![c] = TRUE]
    /\ UNCHANGED <<service, subscribers, queue, handlers, live, gone, history>>

\* A database error counts as the end of the session
CheckFails(c) ==
    /\ pc[c] \in {"wait", "send"} /\ ~expired[c]
    /\ live[c] /\ expired' = [expired EXCEPT ![c] = TRUE]
    /\ UNCHANGED <<service, subscribers, queue, handlers, live, gone, history>>

Leave(c) ==
    /\ pc[c] \in {"wait", "send"} /\ ~gone[c] /\ gone' = [gone EXCEPT ![c] = TRUE]
    /\ UNCHANGED <<service, subscribers, queue, handlers, live, expired, history>>

-----------------------------------------------------------------------------
\* start() collects a first snapshot, or startup fails, before connections are served
Init ==
    /\ phase = "running" /\ collector = "sleep" /\ latest = 1
    /\ subscribers = {} /\ queue = [c \in Connections |-> <<>>]
    /\ pc = [c \in Connections |-> "new"] /\ fetch = [c \in Connections |-> "none"]
    /\ item = [c \in Connections |-> End]
    /\ live = [c \in Connections |-> TRUE]
    /\ expired = [c \in Connections |-> FALSE] /\ gone = [c \in Connections |-> FALSE]
    /\ seen = [c \in Connections |-> 0] /\ owed = {}
    /\ late = [c \in Connections |-> 0]

Serve(c) == Subscribe(c) \/ Fetched(c) \/ Wake(c) \/ Send(c) \/ SendFails(c)

Next ==
    \/ Collect \/ Publish \/ CollectFails \/ Quit \/ StopCollector \/ StopSubscribers
    \/ \E c \in Connections :
         \/ Connect(c) \/ Serve(c) \/ CancelHandler(c)
         \/ SessionEnds(c) \/ CheckSession(c) \/ CheckFails(c) \/ Leave(c)

\* The event loop runs every task that can; sessions expire, and the watch asks every two
\* seconds; a shutdown goes through
Fairness ==
    /\ WF_vars(StopCollector) /\ WF_vars(StopSubscribers)
    /\ \A c \in Connections :
         /\ WF_vars(Serve(c)) /\ WF_vars(SessionEnds(c)) /\ WF_vars(CheckSession(c))

Spec == Init /\ [][Next]_vars /\ Fairness

-----------------------------------------------------------------------------
(* Properties                                                               *)

TypeOK ==
    /\ phase \in {"running", "quitting", "stopping", "stopped"}
    /\ collector \in {"sleep", "collect", "none"} /\ latest \in 1..MaxSnapshots
    /\ subscribers \subseteq Connections /\ owed \subseteq Connections
    /\ queue \in [Connections -> {<<>>} \cup {<<x>> : x \in 0..MaxSnapshots}]
    /\ pc \in [Connections -> {"new", "wait", "send", "closed"}]
    /\ fetch \in [Connections -> {"none", "created", "waiting", "item", "end"}]
    /\ item \in [Connections -> 0..MaxSnapshots] /\ seen \in [Connections -> 0..MaxSnapshots]
    /\ {live, expired, gone} \subseteq [Connections -> BOOLEAN]
    /\ late \in [Connections -> Nat]

\* _collect_and_publish and subscribe: what waits in a queue is the latest snapshot or the end
\* marker, and a connection that waits at an empty queue has been sent the latest: the one-place
\* queue loses only what a newer snapshot replaces
NothingNewerIsLost ==
    \A c \in subscribers : pc[c] # "closed" =>
        /\ queue[c] # <<>> => Head(queue[c]) \in {latest, End}
        /\ (fetch[c] = "waiting" /\ queue[c] = <<>>) => seen[c] = latest

\* stop: the end marker put for a subscriber is neither replaced nor lost before the subscriber
\* has read it, because the collector no longer runs
EndMarkerStays ==
    \A c \in owed : fetch[c] = "waiting" \/ pc[c] = "send" => queue[c] = <<End>>

\* _dashboard_stream: after the session watch has finished only a snapshot whose sending had
\* already begun still goes out
LittleAfterSessionEnd == \A c \in Connections : late[c] <= 1

\* _dashboard_stream: every connection ends, with its queue removed from the subscribers, at
\* the latest when its session does, also if the client has gone unnoticed, the collector fails
\* for good or the server stops while the connection subscribes
EveryConnectionEnds ==
    \A c \in Connections : pc[c] = "wait" ~> (pc[c] = "closed" /\ c \notin subscribers)

=============================================================================
