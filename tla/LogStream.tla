------------------------------- MODULE LogStream -------------------------------
(***************************************************************************)
(* One connection to /ws/v1/applications/{id}/logs.                         *)
(*                                                                         *)
(* The handler sends the history, then starts a producer task that follows  *)
(* the log through a child process and puts events into a bounded queue,    *)
(* dropping the oldest event when the queue is full.  The handler sends     *)
(* what it takes from the queue, and watches the client and the session.    *)
(* Handler, producer, the task that takes from the queue and the task that  *)
(* checks the session interleave at their awaits.                           *)
(*                                                                         *)
(* Log events are numbered in the order in which the application wrote them.*)
(***************************************************************************)
EXTENDS Naturals, Sequences

CONSTANTS
    QueueSize,      \* LOG_QUEUE_SIZE
    HistoryLimit,   \* the request's history parameter
    MaxEvents,      \* bound on the events the application writes
    MaxReconnects,  \* bound on the followers that replace another one
    Time            \* the time an event carries, as --since can tell times apart

ASSUME LogAssumption ==
    /\ QueueSize \in Nat \ {0}
    /\ HistoryLimit \in Nat
    /\ MaxEvents \in Nat /\ MaxReconnects \in Nat
    /\ Time \in [1 .. MaxEvents -> Nat]
    /\ \A e, f \in 1 .. MaxEvents : e <= f => Time[e] <= Time[f]

VARIABLES
    journal,    \* TRUE: journalctl, FALSE: docker compose logs; never changes
    written,    \* events the application has written
    pc,         \* where the handler is
    cursor,     \* the last event of the history, 0 when there was none
    due,        \* the next event of the history to send
    producer,   \* the producer task
    child,      \* a log reader process exists
    position,   \* the last event the reader has read
    last,       \* the event of last_timestamp, 0 for None
    resumed,    \* followers that have replaced another one
    joined,     \* the event after which following began
    queue,      \* the bounded queue
    taken,      \* the item the handler's task took from the queue, if any
    dropped,    \* events dropped since the last warning
    count,      \* events the warning being sent is about
    warned,     \* events the client has been told it lost
    received,   \* events the client received while following
    active,     \* the session is neither revoked nor expired
    expired,    \* the session check has seen that it is not
    hung,       \* the client disconnected or sent something
    registered, \* the connection is in log_connections
    late        \* events sent while following after expired became TRUE

reader   == <<producer, child, position, last, resumed, joined>>
transfer == <<queue, taken, dropped, count>>
client   == <<warned, received>>
session  == <<active, expired>>
vars     == <<journal, written, pc, cursor, due, reader, transfer, client, session, hung,
              registered, late>>

\* Items of the queue: an event, or 0 for the eof or error envelope
Envelope == 0
Nothing  == MaxEvents + 1       \* no item taken

-----------------------------------------------------------------------------
(* The application, the session and the client                              *)

Write ==
    /\ written < MaxEvents /\ written' = written + 1
    /\ UNCHANGED <<journal, pc, cursor, due, reader, transfer, client, session, hung,
                   registered, late>>

Revoke ==
    /\ active /\ active' = FALSE
    /\ UNCHANGED <<journal, written, pc, cursor, due, reader, transfer, client, expired, hung,
                   registered, late>>

HangUp ==
    /\ pc # "closed" /\ ~hung /\ hung' = TRUE
    /\ UNCHANGED <<journal, written, pc, cursor, due, reader, transfer, client, session, registered,
                   late>>

\* LogConnectionRegistry.close_all
Shutdown ==
    /\ registered /\ registered' = FALSE /\ hung' = TRUE
    /\ UNCHANGED <<journal, written, pc, cursor, due, reader, transfer, client, session, late>>

\* wait_for_websocket_session_end, every two seconds
CheckSession ==
    /\ pc \notin {"connect", "closed"} /\ ~expired
    /\ ~active /\ expired' = TRUE
    /\ UNCHANGED <<journal, written, pc, cursor, due, reader, transfer, client, active, hung,
                   registered, late>>

\* A database error counts as the end of the session
CheckFails ==
    /\ pc \notin {"connect", "closed"} /\ ~expired
    /\ active /\ expired' = TRUE
    /\ UNCHANGED <<journal, written, pc, cursor, due, reader, transfer, client, active, hung,
                   registered, late>>

-----------------------------------------------------------------------------
(* The handler until it follows                                             *)

Oldest == IF written > HistoryLimit THEN written - HistoryLimit + 1 ELSE 1

\* Authenticate before accepting; another origin and a database error are refused too
Connect ==
    /\ pc = "connect"
    /\ \/ active /\ pc' = "query" /\ registered' = TRUE
       \/ pc' = "closed" /\ UNCHANGED registered
    /\ UNCHANGED <<journal, written, cursor, due, reader, transfer, client, session, hung, late>>

\* _parse_query and the child process of history(); an invalid query, unknown application or
\* unavailable source ends the connection with an error envelope
OpenHistory ==
    /\ pc = "query"
    /\ \/ pc' = "closing" /\ UNCHANGED child
       \/ pc' = "reading" /\ child' = TRUE
    /\ UNCHANGED <<journal, written, cursor, due, producer, position, last, resumed, joined,
                   transfer, client, session, hung, registered, late>>

\* The child has written its lines and exited, or failed.  No timeout limits it, and nobody
\* looks at the client or the session meanwhile
ReadHistory ==
    /\ pc = "reading" /\ child' = FALSE
    /\ \/ pc' = "closing" /\ UNCHANGED <<cursor, due>>
       \/ /\ due' = Oldest
          /\ cursor' = IF HistoryLimit = 0 THEN 0 ELSE written
          /\ pc' = "history"
    /\ UNCHANGED <<journal, written, producer, position, last, resumed, joined, transfer, client,
                   session, hung, registered, late>>

\* Nothing but the client's absence interrupts the history
SendHistory ==
    /\ pc = "history" /\ due <= cursor
    /\ \/ /\ due' = due + 1
          /\ UNCHANGED pc
       \/ hung /\ pc' = "closing" /\ UNCHANGED due
    /\ UNCHANGED <<journal, written, cursor, reader, transfer, client, session, hung, registered, late>>

\* follow=false ends here with eof, else producer and watchers are started
HistorySent ==
    /\ pc = "history" /\ due > cursor
    /\ \/ pc' = "closing" /\ UNCHANGED producer
       \/ pc' = "wait" /\ producer' = "starting"
    /\ UNCHANGED <<journal, written, cursor, due, child, position, last, resumed, joined, transfer,
                   client, session, hung, registered, late>>

-----------------------------------------------------------------------------
(* The producer                                                             *)

\* Faulty variant of Enqueue: the dropped event is not counted
EnqueueUncounted(item) ==
    /\ queue' = Append(IF Len(queue) = QueueSize THEN Tail(queue) ELSE queue, item)
    /\ UNCHANGED dropped

\* Faulty variant of Enqueue: nothing is dropped
EnqueueUnbounded(item) ==
    queue' = Append(queue, item) /\ UNCHANGED dropped

\* enqueue_bounded
Enqueue(item) ==
    IF Len(queue) = QueueSize
    THEN queue' = Append(Tail(queue), item) /\ dropped' = dropped + 1
    ELSE queue' = Append(queue, item) /\ UNCHANGED dropped

\* Faulty variant of StartReader: the last events are read again, as --tail would do
StartReaderTail ==
    /\ producer = "starting" /\ producer' = "running" /\ child' = TRUE
    /\ joined' = cursor
    /\ position' = IF cursor > 0 THEN cursor - 1 ELSE 0
    /\ UNCHANGED <<journal, written, pc, cursor, due, last, resumed, transfer, client, session, hung,
                   registered, late>>

\* The child process starts after the cursor, or at the end of the log; or not at all
StartReader ==
    /\ producer = "starting"
    /\ \/ /\ producer' = "running" /\ child' = TRUE
          /\ position' = IF journal /\ cursor > 0 THEN cursor ELSE written
          /\ joined' = position'
          /\ UNCHANGED <<queue, dropped>>
       \/ /\ producer' = "ended" /\ Enqueue(Envelope)    \* LogSourceError
          /\ UNCHANGED <<child, position, joined>>
    /\ UNCHANGED <<journal, written, pc, cursor, due, last, resumed, taken, count, client, session,
                   hung, registered, late>>

Produce ==
    /\ producer = "running" /\ position < written
    /\ position' = position + 1 /\ last' = position'
    /\ Enqueue(position')
    /\ UNCHANGED <<journal, written, pc, cursor, due, producer, child, resumed, joined, taken, count,
                   client, session, hung, registered, late>>

\* The child ends: eof or error; Compose follows again while containers run
ReaderEnds ==
    /\ producer = "running" /\ child' = FALSE
    /\ \/ producer' = "ended" /\ Enqueue(Envelope) /\ UNCHANGED resumed
       \/ /\ ~journal /\ resumed < MaxReconnects
          /\ producer' = "reconnect" /\ resumed' = resumed + 1 /\ UNCHANGED <<queue, dropped>>
    /\ UNCHANGED <<journal, written, pc, cursor, due, position, last, joined, taken, count, client,
                   session, hung, registered, late>>

\* Where `logs --follow --tail 0 --since last_timestamp' may start: --since admits what is not older
\* than the last event, that event itself again; --tail 0 skips what is there.  Which of it Docker
\* prints is left open
Resumed ==
    IF last = 0 THEN {written}
    ELSE {p \in 0 .. written : \A e \in 1 .. written : p < e => Time[last] <= Time[e]}

Reconnect ==
    /\ producer = "reconnect"
    /\ \/ /\ producer' = "running" /\ child' = TRUE
          /\ position' \in Resumed
          /\ UNCHANGED <<queue, dropped>>
       \/ /\ producer' = "ended" /\ Enqueue(Envelope)    \* LogSourceError
          /\ UNCHANGED <<child, position>>
    /\ UNCHANGED <<journal, written, pc, cursor, due, last, resumed, joined, taken, count, client,
                   session, hung, registered, late>>

-----------------------------------------------------------------------------
(* The handler while it follows                                             *)

\* The task `queued' gets an item
Take ==
    /\ pc = "wait" /\ taken = Nothing /\ queue # <<>>
    /\ taken' = Head(queue) /\ queue' = Tail(queue)
    /\ UNCHANGED <<journal, written, pc, cursor, due, reader, dropped, count, client, session, hung,
                   registered, late>>

\* Go on with an item: first announce what was dropped meanwhile
Proceed ==
    IF dropped > 0 THEN pc' = "warn" /\ count' = dropped /\ dropped' = 0
                   ELSE pc' = "send" /\ UNCHANGED <<count, dropped>>

\* Faulty variant of Wake: an item that has been taken goes first
WakeItemFirst ==
    /\ pc = "wait"
    /\ \/ taken = Nothing /\ (expired \/ hung) /\ pc' = "closing" /\ UNCHANGED <<count, dropped>>
       \/ taken # Nothing /\ Proceed
    /\ UNCHANGED <<journal, written, cursor, due, reader, queue, taken, client, session, hung,
                   registered, late>>

\* asyncio.wait returns: the session first, then the client, then the item
Wake ==
    /\ pc = "wait"
    /\ \/ (expired \/ hung) /\ pc' = "closing" /\ UNCHANGED <<count, dropped>>
       \/ ~expired /\ ~hung /\ taken # Nothing /\ Proceed
    /\ UNCHANGED <<journal, written, cursor, due, reader, queue, taken, client, session, hung,
                   registered, late>>

\* Faulty variant of Warn: the counter is reset once more when the warning is sent
WarnResetsAgain ==
    /\ pc = "warn"
    /\ warned' = warned + count /\ count' = 0 /\ dropped' = 0 /\ pc' = "send"
    /\ UNCHANGED <<journal, written, cursor, due, reader, queue, taken, received, session, hung,
                   registered, late>>

\* The warning has been sent, or the client is gone
Warn ==
    /\ pc = "warn"
    /\ \/ warned' = warned + count /\ count' = 0 /\ pc' = "send"
       \/ hung /\ pc' = "closing" /\ UNCHANGED <<count, warned>>
    /\ UNCHANGED <<journal, written, cursor, due, reader, queue, taken, dropped, received, session,
                   hung, registered, late>>

\* Send the item; an envelope ends the stream, and so does a client that is gone
Send ==
    /\ pc = "send"
    /\ \/ /\ taken # Envelope
          /\ received' = Append(received, taken) /\ taken' = Nothing
          /\ late' = IF expired THEN late + 1 ELSE late
          /\ pc' = IF hung THEN "closing" ELSE "wait"
       \/ taken = Envelope /\ pc' = "ended" /\ UNCHANGED <<received, taken, late>>
       \/ hung /\ pc' = "closing" /\ UNCHANGED <<received, taken, late>>
    /\ UNCHANGED <<journal, written, cursor, due, reader, queue, dropped, count, warned, session,
                   hung, registered>>

\* Faulty variant of Close: the producer is left to itself
CloseOnly ==
    /\ pc \in {"closing", "ended"}
    /\ registered' = FALSE /\ pc' = "closed"
    /\ UNCHANGED <<journal, written, cursor, due, reader, transfer, client, session, hung, late>>

\* finally: cancel the tasks; cancelling the producer terminates, or kills, the child
Close ==
    /\ pc \in {"closing", "ended"}
    /\ producer' = IF producer = "none" THEN producer ELSE "ended"
    /\ child' = FALSE
    /\ registered' = FALSE
    /\ pc' = "closed"
    /\ UNCHANGED <<journal, written, cursor, due, position, last, resumed, joined, transfer, client,
                   session, hung, late>>

-----------------------------------------------------------------------------

Init ==
    /\ journal \in BOOLEAN
    /\ written \in 0 .. MaxEvents
    /\ pc = "connect" /\ cursor = 0 /\ due = 1
    /\ producer = "none" /\ child = FALSE /\ position = 0 /\ joined = 0
    /\ last = 0 /\ resumed = 0
    /\ queue = <<>> /\ taken = Nothing /\ dropped = 0 /\ count = 0
    /\ warned = 0 /\ received = <<>>
    /\ active \in BOOLEAN /\ expired = FALSE
    /\ hung = FALSE /\ registered = FALSE
    /\ late = 0

Handler  == Connect \/ OpenHistory \/ SendHistory \/ HistorySent
            \/ Wake \/ Warn \/ Send \/ Close
Producer == StartReader \/ Produce \/ ReaderEnds \/ Reconnect

\* The connection is over, whatever the application does
Over == pc = "closed" /\ UNCHANGED vars

Next ==
    \/ Write \/ Revoke \/ HangUp \/ Shutdown \/ CheckSession \/ CheckFails
    \/ Handler \/ ReadHistory \/ Producer \/ Take
    \/ Over

\* The event loop resumes every task; sends complete or fail, since the server
\* pings the client and closes a connection that does not answer.  Nothing makes the
\* history's reader end
Fairness == WF_vars(Handler) /\ WF_vars(Take) /\ WF_vars(CheckSession)

Spec == Init /\ [][Next]_vars
FairSpec == Spec /\ Fairness

-----------------------------------------------------------------------------
(* Properties                                                               *)

\* Every variable has the values its local, task or process can have; the queue
\* never holds more than QueueSize items.
TypeOK ==
    /\ journal \in BOOLEAN
    /\ written \in 0 .. MaxEvents
    /\ pc \in {"connect", "query", "reading", "history", "wait", "warn", "send", "ended",
               "closing", "closed"}
    /\ cursor \in 0 .. MaxEvents /\ due \in 1 .. MaxEvents + 1
    /\ producer \in {"none", "starting", "running", "reconnect", "ended"}
    /\ child \in BOOLEAN
    /\ position \in 0 .. MaxEvents /\ joined \in 0 .. MaxEvents
    /\ last \in 0 .. MaxEvents /\ resumed \in 0 .. MaxReconnects
    /\ queue \in Seq(0 .. MaxEvents) /\ Len(queue) <= QueueSize
    /\ taken \in 0 .. Nothing
    /\ dropped \in Nat /\ count \in Nat /\ warned \in Nat
    /\ received \in Seq(1 .. MaxEvents)
    /\ active \in BOOLEAN /\ expired \in BOOLEAN
    /\ hung \in BOOLEAN /\ registered \in BOOLEAN
    /\ late \in Nat

\* An event may be delivered before another one; a Compose follower tells only times apart
Before(x, y) == IF journal THEN x < y ELSE Time[x] <= Time[y]

\* From the journal the client receives events in the order in which they were written, none twice
\* and none of the history again: drops only make gaps.  From Compose, whose followers may repeat
\* events when they reconnect, what it receives never goes back in time: --since excludes all that
\* is older than the last event read.
InOrder ==
    /\ \A i, j \in DOMAIN received : i < j => Before(received[i], received[j])
    /\ journal => \A i \in DOMAIN received : received[i] > joined

\* When the client gets the final envelope, every event read from the journal is either
\* received or in the count of a warning it got before: enqueue_bounded and the
\* handler's reset of the counter lose none, whatever the interleaving.
EndAccountsForAll ==
    journal /\ pc = "ended" => position - joined = Len(received) + warned

\* Events from the beginning of following to the last one that the client received
Span == IF received = <<>> THEN 0 ELSE received[Len(received)] - joined

Announced == Span <= Len(received) + warned + count + dropped

\* A gap in what the client receives from the journal is covered by a warning it has
\* got, or by drops that are still to be announced.
GapsAreAnnounced == journal => Announced

\* Once the session check has seen the session end, at most the event that was
\* being sent still reaches a client that follows.  (While the history is sent nobody
\* looks at the session.)
RevocationStopsFollowing == late <= 1

\* Closed, without producer, log reader process or registration
Released == pc = "closed" /\ ~child /\ producer \in {"none", "ended"} /\ ~registered

\* A client that is gone, or whose session is over, leaves no log reader, producer or registration
\* behind, however the handler ends; and none comes back.  The history's reader must end by itself:
\* while it hangs, so does the handler, and nobody terminates it.
ReaderIsReleased ==
    []<>(pc # "reading") =>
        /\ hung ~> []Released
        /\ ~active ~> []Released

=============================================================================
