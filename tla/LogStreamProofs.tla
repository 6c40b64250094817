------------------------------- MODULE LogStreamProofs -------------------------------
(***************************************************************************)
(* Proofs about LogStream, for any queue size, history and number of        *)
(* events.                                                                  *)
(***************************************************************************)
EXTENDS LogStream, SequenceTheorems, TLAPS

\* An item is an event, neither envelope nor nothing
Event(x) == x # Envelope /\ x # Nothing

\* Nothing has gone through the queue
Untouched ==
    /\ queue = <<>> /\ taken = Nothing /\ received = <<>>
    /\ dropped = 0 /\ count = 0 /\ warned = 0 /\ position = 0 /\ last = 0 /\ joined = 0

\* The envelope is in the queue; it is then the last item
Ended  == queue # <<>> /\ queue[Len(queue)] = Envelope
Events == IF Ended THEN Len(queue) - 1 ELSE Len(queue)
Taken  == IF Event(taken) THEN 1 ELSE 0

\* log_websocket: an item is on its way while one is announced or sent
Typed == TypeOK /\ (pc \in {"warn", "send", "ended"} => taken # Nothing)

\* The handler starts the producer after the history; the reader never runs ahead of the log
Started ==
    /\ pc \in {"connect", "query", "reading", "history"} => producer = "none"
    /\ producer \in {"none", "starting"} => Untouched
    /\ cursor <= written /\ position <= written /\ last <= written
    /\ journal => joined <= position
    /\ journal => producer # "reconnect"

\* _produce_live_events: the envelope is the producer's last item
EnvelopeLast ==
    /\ producer # "ended" => taken # Envelope
    /\ producer # "ended" => \A i \in 1..Len(queue) : queue[i] # Envelope
    /\ \A i \in 1..(Len(queue) - 1) : queue[i] # Envelope
    /\ taken = Envelope => queue = <<>>
    /\ pc = "ended" => taken = Envelope

\* The handler counts down before it goes on: a warning under way is the only one
Counting ==
    /\ count # 0 => pc \in {"warn", "closing", "closed"}
    /\ taken = Envelope /\ pc \in {"warn", "send", "ended"} => dropped = 0

Control == Started /\ EnvelopeLast /\ Counting

\* What was dropped, announced or not
Lost == dropped + count + warned

\* What was read is received, taken, queued or counted
Account ==
    journal => position - joined = Len(received) + Taken + Events + Lost

\* The events in the queue are the last ones that were read, without a gap: drops are at its head
Contiguous == journal => \A i \in 1..Events : queue[i] = position - Events + i

\* The event that was taken is announced like the ones that were received
TakenAnnounced ==
    journal /\ Event(taken) => taken - joined <= Len(received) + 1 + Lost

\* The pairs of events that may be delivered in this order; the events that have been read: from the
\* journal up to `position', from Compose up to the time of the last one
Order == {p \in (1..MaxEvents) \X (1..MaxEvents) : Before(p[1], p[2])}
Seen  == {x \in 1..MaxEvents : IF journal THEN joined < x /\ x <= position
                                          ELSE last # 0 /\ Time[x] <= Time[last]}

\* --since: what a Compose follower is still to read is not older than what was read
Ahead == last # 0 => \A e \in 1..MaxEvents : position < e => Time[last] <= Time[e]

\* Received, taken and queued events follow each other, and have been read
Ordered ==
    /\ \A i, j \in 1..Len(received) : i < j => <<received[i], received[j]>> \in Order
    /\ \A i \in 1..Len(received) : received[i] \in Seen
    /\ Event(taken) => taken \in Seen
    /\ Event(taken) => \A i \in 1..Len(received) : <<received[i], taken>> \in Order
    /\ \A i \in 1..Events : queue[i] \in Seen
    /\ \A i, j \in 1..Events : i < j => <<queue[i], queue[j]>> \in Order
    /\ Event(taken) => \A i \in 1..Events : <<taken, queue[i]>> \in Order
    /\ \A i \in 1..Len(received), j \in 1..Events : <<received[i], queue[j]>> \in Order

\* The session's end is looked at before an item
LateInv == late = 0 \/ (late = 1 /\ expired /\ pc \notin {"warn", "send"})

\* finally: the child belongs to the producer, the producer to a connection that is not closed
Owned ==
    /\ child => producer = "running" \/ pc = "reading"
    /\ pc = "closed" => producer \in {"none", "ended"}
    /\ pc \in {"connect", "closed"} => ~registered

-----------------------------------------------------------------------------
(* The queue                                                                *)

\* enqueue_bounded: the item is the last, and one is dropped from a full queue and counted
LEMMA EnqueueEffect ==
    ASSUME TypeOK, NEW x \in 0..MaxEvents, Enqueue(x)
    PROVE  LET k == IF Len(queue) = QueueSize THEN 1 ELSE 0
           IN  /\ queue' \in Seq(0..MaxEvents)
               /\ Len(queue') = Len(queue) - k + 1 /\ Len(queue') <= QueueSize
               /\ dropped' = dropped + k /\ dropped' \in Nat
               /\ queue' # <<>> /\ queue'[Len(queue')] = x
               /\ \A i \in 1..(Len(queue') - 1) : queue'[i] = queue[i + k]
  <1>1. queue \in Seq(0..MaxEvents) /\ Len(queue) <= QueueSize /\ QueueSize \in Nat \ {0}
        /\ dropped \in Nat /\ Len(queue) \in Nat
    BY LogAssumption DEF TypeOK
  <1>2. CASE Len(queue) = QueueSize
    <2>1. queue # <<>>
      BY <1>1, <1>2
    <2>2. /\ Tail(queue) \in Seq(0..MaxEvents) /\ Len(Tail(queue)) = Len(queue) - 1
          /\ \A i \in 1..(Len(queue) - 1) : Tail(queue)[i] = queue[i + 1]
      BY <1>1, <2>1
    <2>3. queue' = Append(Tail(queue), x) /\ dropped' = dropped + 1
      BY <1>2 DEF Enqueue
    <2> QED
      BY <1>1, <1>2, <2>2, <2>3
  <1>3. CASE Len(queue) # QueueSize
    <2>1. queue' = Append(queue, x) /\ dropped' = dropped
      BY <1>3 DEF Enqueue
    <2> QED
      BY <1>1, <1>3, <2>1
  <1> QED
    BY <1>2, <1>3

\* The task of the handler takes the first item
LEMMA TakeEffect ==
    ASSUME TypeOK, Take
    PROVE  /\ queue' \in Seq(0..MaxEvents) /\ Len(queue) \in Nat \ {0}
           /\ Len(queue') = Len(queue) - 1
           /\ taken' = queue[1] /\ taken' \in 0..MaxEvents
           /\ \A i \in 1..Len(queue') : queue'[i] = queue[i + 1]
  <1>1. queue \in Seq(0..MaxEvents) /\ queue # <<>>
    BY DEF TypeOK, Take
  <1>2. Len(queue) \in Nat \ {0}
    BY <1>1
  <1>3. Head(queue) = queue[1]
    BY <1>1
  <1>5. queue[1] \in 0..MaxEvents
    <2>1. 1 \in 1..Len(queue)
      BY <1>2
    <2> QED
      BY <1>1, <2>1, ElementOfSeq
  <1>4. /\ Tail(queue) \in Seq(0..MaxEvents) /\ Len(Tail(queue)) = Len(queue) - 1
        /\ \A i \in 1..(Len(queue) - 1) : Tail(queue)[i] = queue[i + 1]
    BY <1>1
  <1> QED
    BY <1>2, <1>3, <1>4, <1>5 DEF Take

-----------------------------------------------------------------------------
(* Types                                                                    *)

LEMMA TypeInit == Init => Typed
  <1> SUFFICES ASSUME Init PROVE Typed
    OBVIOUS
  <1>1. active \in BOOLEAN /\ journal \in BOOLEAN
    BY DEF Init
  <1>2. <<>> \in Seq(0..MaxEvents) /\ <<>> \in Seq(1..MaxEvents) /\ Len(<<>>) = 0
    OBVIOUS
  <1>3. Nothing \in 0..Nothing /\ Nothing \in Nat
    BY LogAssumption DEF Nothing
  <1>4. {child, expired, hung, registered} \subseteq BOOLEAN
    BY DEF Init
  <1> QED
    BY <1>1, <1>2, <1>3, <1>4, LogAssumption DEF Init, Typed, TypeOK

LEMMA TypeNext == Typed /\ [Next]_vars => Typed'
  <1> SUFFICES ASSUME Typed, [Next]_vars PROVE Typed'
    OBVIOUS
  <1> USE LogAssumption DEF Typed, TypeOK
  <1>1. CASE Write
    BY <1>1 DEF Write, reader, transfer, client, session
  <1>2. CASE Revoke
    <2>1. active' \in BOOLEAN
      BY <1>2 DEF Revoke
    <2> QED
      BY <1>2, <2>1 DEF Revoke, reader, transfer, client
  <1>3. CASE HangUp
    BY <1>3 DEF HangUp, reader, transfer, client, session
  <1>4. CASE Shutdown
    BY <1>4 DEF Shutdown, reader, transfer, client, session
  <1>5. CASE CheckSession
    BY <1>5 DEF CheckSession, reader, transfer, client, session
  <1>6. CASE CheckFails
    BY <1>6 DEF CheckFails, reader, transfer, client, session
  <1>7. CASE Connect
    BY <1>7 DEF Connect, reader, transfer, client, session
  <1>8. CASE ReadHistory
    <2>1. child' \in BOOLEAN
      BY <1>8, Zenon DEF ReadHistory
    <2> QED
      BY <1>8, <2>1 DEF ReadHistory, Oldest, transfer, client, session
  <1>9. CASE SendHistory
    BY <1>9 DEF SendHistory, reader, transfer, client, session
  <1>10. CASE HistorySent
    BY <1>10 DEF HistorySent, reader, transfer, client, session
  <1>11. CASE Wake
    BY <1>11 DEF Wake, Proceed, reader, transfer, client, session
  <1>12. CASE Warn
    BY <1>12 DEF Warn, reader, transfer, client, session
  <1>13. CASE Send
    <2>1. taken # Envelope => taken \in 1..MaxEvents
      BY <1>13 DEF Send, Envelope, Nothing
    <2>2. received' \in Seq(1..MaxEvents)
      <3>1. CASE received' = Append(received, taken) /\ taken # Envelope
        BY <2>1, <3>1
      <3>2. CASE received' = received
        BY <3>2
      <3> QED
        BY <1>13, <3>1, <3>2 DEF Send
    <2>3. late' \in Nat /\ taken' \in 0..Nothing
      BY <1>13 DEF Send, Nothing
    <2> QED
      BY <1>13, <2>2, <2>3 DEF Send, reader, session
  <1>14. CASE Close
    BY <1>14 DEF Close, reader, transfer, client, session
  <1>15. CASE StartReader
    <2>1. CASE producer' = "running"
      BY <1>15, <2>1 DEF StartReader, client, session
    <2>2. CASE producer' = "ended" /\ Enqueue(Envelope)
      BY <1>15, <2>2, EnqueueEffect DEF StartReader, Envelope, client, session
    <2> QED
      BY <1>15, <2>1, <2>2 DEF StartReader
  <1>16. CASE Produce
    <2>1. position' \in 0..MaxEvents
      BY <1>16 DEF Produce
    <2> QED
      BY <1>16, <2>1, EnqueueEffect DEF Produce, client, session
  <1>17. CASE ReaderEnds
    <2>1. CASE producer' = "ended" /\ Enqueue(Envelope)
      <3>1. Envelope \in 0..MaxEvents
        BY DEF Envelope
      <3>2. child' \in BOOLEAN
        BY <1>17, Zenon DEF ReaderEnds
      <3> QED
        BY <1>17, <2>1, <3>1, <3>2, EnqueueEffect DEF ReaderEnds, client, session
    <2>2. CASE producer' = "reconnect" /\ UNCHANGED <<queue, dropped>>
      <3>1. child' \in BOOLEAN
        BY <1>17, Zenon DEF ReaderEnds
      <3>2. resumed' \in 0..MaxReconnects
        BY <1>17 DEF ReaderEnds
      <3> QED
        BY <1>17, <2>2, <3>1, <3>2 DEF ReaderEnds, client, session
    <2> QED
      BY <1>17, <2>1, <2>2 DEF ReaderEnds
  <1>18. CASE Reconnect
    <2>1. CASE producer' = "running"
      BY <1>18, <2>1 DEF Reconnect, Resumed, client, session
    <2>2. CASE producer' = "ended" /\ Enqueue(Envelope)
      BY <1>18, <2>2, EnqueueEffect DEF Reconnect, Envelope, client, session
    <2> QED
      BY <1>18, <2>1, <2>2 DEF Reconnect
  <1>19. CASE Take
    BY <1>19, TakeEffect DEF Take, Nothing, reader, client, session
  <1>20. CASE Over
    BY <1>20 DEF Over, vars, reader, transfer, client, session
  <1>21. CASE UNCHANGED vars
    BY <1>21 DEF vars, reader, transfer, client, session
  <1>22. CASE OpenHistory
    BY <1>22 DEF OpenHistory, reader, transfer, client, session
  <1> QED
    BY <1>1, <1>2, <1>3, <1>4, <1>5, <1>6, <1>7, <1>8, <1>9, <1>10, <1>11, <1>12,
       <1>13, <1>14, <1>15, <1>16, <1>17, <1>18, <1>19, <1>20, <1>21, <1>22
    DEF Next, Handler, Producer

\* enqueue_bounded and its callers: every variable keeps its type, and the queue its bound
THEOREM LogTyping == Spec => []TypeOK
  <1>1. Spec => []Typed
    BY TypeInit, TypeNext, PTL DEF Spec
  <1> QED
    BY <1>1, PTL DEF Typed

-----------------------------------------------------------------------------
(* Control                                                                  *)

LEMMA StartedNext == Typed /\ Started /\ [Next]_vars => Started'
  <1> SUFFICES ASSUME Typed, Started, [Next]_vars PROVE Started'
    OBVIOUS
  <1> USE LogAssumption DEF Typed, TypeOK, Started, Untouched
  <1>1. CASE Write
    BY <1>1 DEF Write, reader, transfer, client, session
  <1>2. CASE Revoke
    BY <1>2 DEF Revoke, reader, transfer, client, session
  <1>3. CASE HangUp
    BY <1>3 DEF HangUp, reader, transfer, client, session
  <1>4. CASE Shutdown
    BY <1>4 DEF Shutdown, reader, transfer, client, session
  <1>5. CASE CheckSession
    BY <1>5 DEF CheckSession, reader, transfer, client, session
  <1>6. CASE CheckFails
    BY <1>6 DEF CheckFails, reader, transfer, client, session
  <1>7. CASE Connect
    BY <1>7 DEF Connect, reader, transfer, client, session
  <1>8. CASE ReadHistory
    BY <1>8 DEF ReadHistory, Oldest, reader, transfer, client, session
  <1>9. CASE SendHistory
    BY <1>9 DEF SendHistory, reader, transfer, client, session
  <1>10. CASE HistorySent
    BY <1>10 DEF HistorySent, reader, transfer, client, session
  <1>11. CASE Wake
    BY <1>11 DEF Wake, Proceed, reader, transfer, client, session
  <1>12. CASE Warn
    BY <1>12 DEF Warn, reader, transfer, client, session
  <1>13. CASE Send
    BY <1>13 DEF Send, reader, transfer, client, session
  <1>14. CASE Close
    BY <1>14 DEF Close, reader, transfer, client, session
  <1>15. CASE StartReader
    BY <1>15 DEF StartReader, reader, transfer, client, session
  <1>16. CASE Produce
    BY <1>16 DEF Produce, reader, transfer, client, session
  <1>17. CASE ReaderEnds
    BY <1>17 DEF ReaderEnds, reader, transfer, client, session
  <1>18. CASE Reconnect
    BY <1>18 DEF Reconnect, Resumed, reader, transfer, client, session
  <1>19. CASE Take
    BY <1>19 DEF Take, reader, transfer, client, session
  <1>20. CASE Over
    BY <1>20 DEF Over, vars, reader, transfer, client, session
  <1>21. CASE UNCHANGED vars
    BY <1>21 DEF vars, reader, transfer, client, session
  <1>22. CASE OpenHistory
    BY <1>22 DEF OpenHistory, reader, transfer, client, session
  <1> QED
    BY <1>1, <1>2, <1>3, <1>4, <1>5, <1>6, <1>7, <1>8, <1>9, <1>10, <1>11, <1>12,
       <1>13, <1>14, <1>15, <1>16, <1>17, <1>18, <1>19, <1>20, <1>21, <1>22
    DEF Next, Handler, Producer

\* An item that joins the others leaves no envelope before it
LEMMA EnqueueBehind ==
    ASSUME TypeOK, EnvelopeLast, producer # "ended", NEW x \in 0..MaxEvents, Enqueue(x)
    PROVE  /\ taken # Envelope /\ pc # "ended" /\ queue' # <<>>
           /\ \A i \in 1..(Len(queue') - 1) : queue'[i] # Envelope
           /\ x # Envelope => \A i \in 1..Len(queue') : queue'[i] # Envelope
  <1> DEFINE k == IF Len(queue) = QueueSize THEN 1 ELSE 0
  <1>1. taken # Envelope /\ pc # "ended"
    BY DEF EnvelopeLast
  <1>2. Len(queue) \in Nat /\ Len(queue') \in Nat /\ Len(queue') = Len(queue) - k + 1
    BY EnqueueEffect DEF TypeOK
  <1>3. ASSUME NEW i \in 1..(Len(queue') - 1)
        PROVE  queue'[i] # Envelope
    <2>1. queue'[i] = queue[i + k]
      BY EnqueueEffect
    <2>2. i + k \in 1..Len(queue)
      BY <1>2, <1>3
    <2> QED
      BY <2>1, <2>2 DEF EnvelopeLast
  <1>4. queue' # <<>> /\ queue'[Len(queue')] = x
    BY EnqueueEffect
  <1>5. ASSUME x # Envelope, NEW i \in 1..Len(queue')
        PROVE  queue'[i] # Envelope
    <2>1. CASE i = Len(queue')
      BY <1>4, <1>5, <2>1
    <2>2. CASE i # Len(queue')
      BY <1>2, <1>3, <1>5, <2>2
    <2> QED
      BY <2>1, <2>2
  <1> QED
    BY <1>1, <1>3, <1>4, <1>5

LEMMA EnvelopeNext == Typed /\ Started /\ EnvelopeLast /\ [Next]_vars => EnvelopeLast'
  <1> SUFFICES ASSUME Typed, Started, EnvelopeLast, [Next]_vars PROVE EnvelopeLast'
    OBVIOUS
  <1> USE LogAssumption DEF Typed, TypeOK, EnvelopeLast
  <1>1. CASE Write
    BY <1>1 DEF Write, reader, transfer, client, session
  <1>2. CASE Revoke
    BY <1>2 DEF Revoke, reader, transfer, client, session
  <1>3. CASE HangUp
    BY <1>3 DEF HangUp, reader, transfer, client, session
  <1>4. CASE Shutdown
    BY <1>4 DEF Shutdown, reader, transfer, client, session
  <1>5. CASE CheckSession
    BY <1>5 DEF CheckSession, reader, transfer, client, session
  <1>6. CASE CheckFails
    BY <1>6 DEF CheckFails, reader, transfer, client, session
  <1>7. CASE Connect
    BY <1>7 DEF Connect, reader, transfer, client, session
  <1>8. CASE ReadHistory
    BY <1>8 DEF ReadHistory, Oldest, reader, transfer, client, session
  <1>9. CASE SendHistory
    BY <1>9 DEF SendHistory, reader, transfer, client, session
  <1>10. CASE HistorySent
    BY <1>10 DEF HistorySent, Started, reader, transfer, client, session
  <1>11. CASE Wake
    BY <1>11 DEF Wake, Proceed, reader, transfer, client, session
  <1>12. CASE Warn
    BY <1>12 DEF Warn, reader, transfer, client, session
  <1>13. CASE Send
    BY <1>13 DEF Send, Envelope, Nothing, reader, client, session
  <1>14. CASE Close
    BY <1>14 DEF Close, reader, transfer, client, session
  <1>15. CASE StartReader
    <2>1. CASE Enqueue(Envelope) /\ producer' = "ended"
      <3>1. Envelope \in 0..MaxEvents /\ producer # "ended" /\ taken' = taken /\ pc' = pc
        BY <1>15 DEF StartReader, Envelope
      <3> QED
        BY <2>1, <3>1, EnqueueBehind
    <2>2. CASE UNCHANGED queue
      BY <1>15, <2>2 DEF StartReader
    <2> QED
      BY <1>15, <2>1, <2>2 DEF StartReader
  <1>16. CASE Produce
    <2>1. position' \in 0..MaxEvents /\ position' # Envelope
      BY <1>16 DEF Produce, Envelope
    <2>2. Enqueue(position') /\ producer # "ended" /\ taken' = taken /\ pc' = pc /\ producer' = producer
      BY <1>16 DEF Produce
    <2> QED
      BY <2>1, <2>2, EnqueueBehind DEF EnvelopeLast
  <1>17. CASE ReaderEnds
    <2>1. CASE Enqueue(Envelope) /\ producer' = "ended"
      <3>1. Envelope \in 0..MaxEvents /\ producer # "ended" /\ taken' = taken /\ pc' = pc
        BY <1>17 DEF ReaderEnds, Envelope
      <3> QED
        BY <2>1, <3>1, EnqueueBehind
    <2>2. CASE UNCHANGED queue
      BY <1>17, <2>2 DEF ReaderEnds
    <2> QED
      BY <1>17, <2>1, <2>2 DEF ReaderEnds
  <1>18. CASE Reconnect
    <2>1. CASE Enqueue(Envelope) /\ producer' = "ended"
      <3>1. Envelope \in 0..MaxEvents /\ producer # "ended" /\ taken' = taken /\ pc' = pc
        BY <1>18 DEF Reconnect, Envelope
      <3> QED
        BY <2>1, <3>1, EnqueueBehind
    <2>2. CASE UNCHANGED queue
      BY <1>18, <2>2 DEF Reconnect
    <2> QED
      BY <1>18, <2>1, <2>2 DEF Reconnect
  <1>19. CASE Take
    BY <1>19 DEF Take, reader, transfer, client, session
  <1>20. CASE Over
    BY <1>20 DEF Over, vars, reader, transfer, client, session
  <1>21. CASE UNCHANGED vars
    BY <1>21 DEF vars, reader, transfer, client, session
  <1>22. CASE OpenHistory
    BY <1>22 DEF OpenHistory, reader, transfer, client, session
  <1> QED
    BY <1>1, <1>2, <1>3, <1>4, <1>5, <1>6, <1>7, <1>8, <1>9, <1>10, <1>11, <1>12,
       <1>13, <1>14, <1>15, <1>16, <1>17, <1>18, <1>19, <1>20, <1>21, <1>22
    DEF Next, Handler, Producer

LEMMA CountingNext == Typed /\ Started /\ EnvelopeLast /\ Counting /\ [Next]_vars => Counting'
  <1> SUFFICES ASSUME Typed, Started, EnvelopeLast, Counting, [Next]_vars PROVE Counting'
    OBVIOUS
  <1> USE LogAssumption DEF Typed, TypeOK, Counting
  <1>1. CASE Write
    BY <1>1 DEF Write, reader, transfer, client, session
  <1>2. CASE Revoke
    BY <1>2 DEF Revoke, reader, transfer, client, session
  <1>3. CASE HangUp
    BY <1>3 DEF HangUp, reader, transfer, client, session
  <1>4. CASE Shutdown
    BY <1>4 DEF Shutdown, reader, transfer, client, session
  <1>5. CASE CheckSession
    BY <1>5 DEF CheckSession, reader, transfer, client, session
  <1>6. CASE CheckFails
    BY <1>6 DEF CheckFails, reader, transfer, client, session
  <1>7. CASE Connect
    BY <1>7 DEF Connect, reader, transfer, client, session
  <1>8. CASE ReadHistory
    BY <1>8 DEF ReadHistory, Oldest, reader, transfer, client, session
  <1>9. CASE SendHistory
    BY <1>9 DEF SendHistory, reader, transfer, client, session
  <1>10. CASE HistorySent
    BY <1>10 DEF HistorySent, reader, transfer, client, session
  <1>11. CASE Wake
    BY <1>11 DEF Wake, Proceed, reader, transfer, client, session
  <1>12. CASE Warn
    BY <1>12 DEF Warn, reader, transfer, client, session
  <1>13. CASE Send
    BY <1>13 DEF Send, reader, transfer, client, session
  <1>14. CASE Close
    BY <1>14 DEF Close, reader, transfer, client, session
  <1>15. CASE StartReader
    BY <1>15 DEF StartReader, EnvelopeLast, Envelope, reader, client, session
  <1>16. CASE Produce
    BY <1>16 DEF Produce, EnvelopeLast, Envelope, reader, client, session
  <1>17. CASE ReaderEnds
    BY <1>17 DEF ReaderEnds, EnvelopeLast, Envelope, reader, client, session
  <1>18. CASE Reconnect
    BY <1>18 DEF Reconnect, EnvelopeLast, Envelope, reader, client, session
  <1>19. CASE Take
    BY <1>19 DEF Take, reader, transfer, client, session
  <1>20. CASE Over
    BY <1>20 DEF Over, vars, reader, transfer, client, session
  <1>21. CASE UNCHANGED vars
    BY <1>21 DEF vars, reader, transfer, client, session
  <1>22. CASE OpenHistory
    BY <1>22 DEF OpenHistory, reader, transfer, client, session
  <1> QED
    BY <1>1, <1>2, <1>3, <1>4, <1>5, <1>6, <1>7, <1>8, <1>9, <1>10, <1>11, <1>12,
       <1>13, <1>14, <1>15, <1>16, <1>17, <1>18, <1>19, <1>20, <1>21, <1>22
    DEF Next, Handler, Producer

-----------------------------------------------------------------------------
(* Where events are                                                         *)

LEMMA EventsBound ==
    ASSUME TypeOK
    PROVE  Len(queue) \in Nat /\ Events \in Nat /\ Events <= Len(queue)
  <1>1. Len(queue) \in Nat /\ (queue # <<>> => Len(queue) > 0)
    BY DEF TypeOK
  <1> QED
    BY <1>1 DEF Events, Ended

LEMMA EventsEnqueue ==
    ASSUME TypeOK, EnvelopeLast, producer # "ended", NEW x \in 0..MaxEvents, Enqueue(x)
    PROVE  LET k == IF Len(queue) = QueueSize THEN 1 ELSE 0
           IN  /\ Events = Len(queue) /\ Events - k \in Nat
               /\ Events' = IF x = Envelope THEN Events - k ELSE Events - k + 1
               /\ dropped' = dropped + k
               /\ \A i \in 1..(Events - k) : queue'[i] = queue[i + k]
               /\ x # Envelope => queue'[Events'] = x
  <1> DEFINE k == IF Len(queue) = QueueSize THEN 1 ELSE 0
  <1>1. Len(queue) \in Nat /\ (queue # <<>> => Len(queue) > 0) /\ QueueSize \in Nat \ {0}
    BY LogAssumption DEF TypeOK
  <1>8. k \in 0..1 /\ Len(queue) - k \in Nat
    BY <1>1
  <1>2. ~Ended
    <2>1. Len(queue) > 0 => Len(queue) \in 1..Len(queue)
      BY <1>1
    <2> QED
      BY <1>1, <2>1 DEF Ended, EnvelopeLast
  <1>3. Events = Len(queue) /\ Events - k \in Nat
    BY <1>1, <1>2 DEF Events
  <1>4. /\ queue' # <<>> /\ queue'[Len(queue')] = x /\ Len(queue') = Len(queue) - k + 1
        /\ dropped' = dropped + k /\ \A i \in 1..(Len(queue') - 1) : queue'[i] = queue[i + k]
    BY EnqueueEffect
  <1> HIDE DEF k
  <1>5. Ended' <=> x = Envelope
    BY <1>4 DEF Ended
  <1>6. Events' = IF x = Envelope THEN Events - k ELSE Events - k + 1
    <2>1. Events' = IF x = Envelope THEN Len(queue') - 1 ELSE Len(queue')
      BY <1>5 DEF Events
    <2> QED
      BY <1>1, <1>3, <1>4, <1>8, <2>1
  <1>7. Len(queue') - 1 = Events - k
    BY <1>1, <1>3, <1>4, <1>8
  <1>9. x # Envelope => queue'[Events'] = x
    BY <1>1, <1>3, <1>4, <1>6, <1>7, <1>8
  <1>10. \A i \in 1..(Events - k) : queue'[i] = queue[i + k]
    BY <1>4, <1>7
  <1> QED
    BY <1>3, <1>4, <1>6, <1>9, <1>10 DEF k

LEMMA EventsTake ==
    ASSUME TypeOK, EnvelopeLast, Take
    PROVE  /\ taken = Nothing /\ taken' = queue[1] /\ taken' # Nothing
           /\ taken' = Envelope => Events = 0 /\ Events' = 0
           /\ taken' # Envelope =>
                 /\ Events >= 1 /\ Events' = Events - 1
                 /\ \A i \in 1..Events' : queue'[i] = queue[i + 1]
  <1>1. /\ taken' = queue[1] /\ taken' \in 0..MaxEvents
        /\ Len(queue) \in Nat \ {0} /\ Len(queue') = Len(queue) - 1
        /\ \A i \in 1..Len(queue') : queue'[i] = queue[i + 1]
        /\ queue' \in Seq(0..MaxEvents)
    BY TakeEffect
  <1>2. taken = Nothing /\ queue # <<>> /\ taken' # Nothing
    BY <1>1, LogAssumption DEF Take, Nothing
  <1>3. queue' # <<>> <=> Len(queue') > 0
    BY <1>1
  <1>4. CASE taken' = Envelope
    <2>1. Len(queue) = 1
      <3>1. Len(queue) > 1 => 1 \in 1..(Len(queue) - 1)
        BY <1>1
      <3>2. \A i \in 1..(Len(queue) - 1) : queue[i] # Envelope
        BY DEF EnvelopeLast
      <3>3. ~(Len(queue) > 1)
        BY <1>1, <1>4, <3>1, <3>2
      <3> QED
        BY <1>1, <3>3
    <2>2. Ended
      BY <1>1, <1>2, <1>4, <2>1 DEF Ended
    <2>3. Len(queue') = 0 /\ queue' = <<>>
      BY <1>1, <1>3, <2>1
    <2>4. ~Ended'
      BY <2>3 DEF Ended
    <2> QED
      BY <1>1, <1>2, <1>4, <2>1, <2>2, <2>3, <2>4 DEF Events
  <1>5. CASE taken' # Envelope
    <2>1. CASE Len(queue) = 1
      <3>1. ~Ended /\ ~Ended'
        BY <1>1, <1>3, <1>5, <2>1 DEF Ended
      <3> QED
        BY <1>1, <1>2, <1>5, <2>1, <3>1 DEF Events
    <2>2. CASE Len(queue) # 1
      <3>1. queue'[Len(queue')] = queue[Len(queue)] /\ queue' # <<>>
        BY <1>1, <1>3, <2>2
      <3>2. Ended' <=> Ended
        BY <1>2, <3>1 DEF Ended
      <3> QED
        BY <1>1, <1>2, <1>5, <2>2, <3>2 DEF Events
    <2> QED
      BY <2>1, <2>2
  <1> QED
    BY <1>2, <1>4, <1>5, <1>1

LEMMA Numbers ==
    ASSUME TypeOK
    PROVE  /\ position \in Nat /\ joined \in Nat /\ Len(received) \in Nat
           /\ dropped \in Nat /\ count \in Nat /\ warned \in Nat
           /\ Taken \in 0..1 /\ Events \in Nat
  BY EventsBound, LogAssumption DEF TypeOK, Taken

\* Who leaves the queue and the item alone leaves their events alone
LEMMA EventsKept ==
    /\ UNCHANGED queue => UNCHANGED Events
    /\ UNCHANGED taken => UNCHANGED Taken
  BY DEF Events, Ended, Taken, Event

\* What a step does to the events under way: nothing (what was dropped may be announced), ...
Still == Lost' = Lost /\ UNCHANGED <<journal, position, last, joined, queue, taken, received>>

\* ... hand over the item, ...
Deliver ==
    /\ Event(taken) /\ received' = Append(received, taken) /\ taken' = Nothing
    /\ Lost' = Lost /\ UNCHANGED <<journal, position, last, joined, queue>>

\* ... begin to follow, go on elsewhere in the log, ...
Join ==
    /\ Untouched /\ joined' = position'
    /\ Lost' = Lost /\ UNCHANGED <<journal, last, queue, taken, received>>

Skip ==
    /\ ~journal /\ position' \in Resumed /\ Lost' = Lost
    /\ UNCHANGED <<journal, last, joined, queue, taken, received>>

\* ... or put an item into the queue
Put(x) ==
    /\ producer # "ended" /\ Enqueue(x) /\ x \in 0..MaxEvents
    /\ IF x = Envelope THEN position' = position /\ last' = last
                       ELSE x = position + 1 /\ position' = x /\ last' = x
    /\ UNCHANGED <<journal, joined, taken, received, count, warned>>

LEMMA Flows ==
    ASSUME Typed, Typed', Started, Counting, [Next]_vars
    PROVE  Still \/ Deliver \/ Join \/ Skip \/ (\E x : Put(x)) \/ Take
  <1> USE LogAssumption DEF Typed, TypeOK
  <1>1. CASE Write
    BY <1>1 DEF Write, Still, Lost, reader, transfer, client, session
  <1>2. CASE Revoke
    BY <1>2 DEF Revoke, Still, Lost, reader, transfer, client, session
  <1>3. CASE HangUp
    BY <1>3 DEF HangUp, Still, Lost, reader, transfer, client, session
  <1>4. CASE Shutdown
    BY <1>4 DEF Shutdown, Still, Lost, reader, transfer, client, session
  <1>5. CASE CheckSession
    BY <1>5 DEF CheckSession, Still, Lost, reader, transfer, client, session
  <1>6. CASE CheckFails
    BY <1>6 DEF CheckFails, Still, Lost, reader, transfer, client, session
  <1>7. CASE Connect
    BY <1>7 DEF Connect, Still, Lost, reader, transfer, client, session
  <1>8. CASE ReadHistory
    BY <1>8 DEF ReadHistory, Still, Lost, reader, transfer, client, session
  <1>9. CASE SendHistory
    BY <1>9 DEF SendHistory, Still, Lost, reader, transfer, client, session
  <1>10. CASE HistorySent
    BY <1>10 DEF HistorySent, Still, Lost, reader, transfer, client, session
  <1>11. CASE Close
    BY <1>11 DEF Close, Still, Lost, reader, transfer, client, session
  <1>12. CASE Over
    BY <1>12 DEF Over, Still, Lost, vars, reader, transfer, client, session
  <1>13. CASE Wake
    <2>1. count = 0
      BY <1>13 DEF Wake, Counting
    <2>2. CASE count' = dropped /\ dropped' = 0
      BY <1>13, <2>1, <2>2 DEF Wake, Still, Lost, reader, client
    <2>3. CASE UNCHANGED <<count, dropped>>
      BY <1>13, <2>3 DEF Wake, Still, Lost, reader, client
    <2> QED
      BY <1>13, <2>2, <2>3 DEF Wake, Proceed
  <1>14. CASE Warn
    <2>1. CASE warned' = warned + count /\ count' = 0
      BY <1>14, <2>1 DEF Warn, Still, Lost, reader
    <2>2. CASE UNCHANGED <<count, warned>>
      BY <1>14, <2>2 DEF Warn, Still, Lost, reader
    <2> QED
      BY <1>14, <2>1, <2>2 DEF Warn
  <1>15. CASE Send
    BY <1>15 DEF Send, Still, Deliver, Event, Lost, reader
  <1>16. CASE StartReader
    <2>1. CASE Enqueue(Envelope) /\ UNCHANGED <<position, joined>>
      <3>1. Put(Envelope)
        BY <1>16, <2>1 DEF StartReader, Put, Envelope, client
      <3> QED
        BY <3>1
    <2>2. CASE producer' = "running"
      BY <1>16, <2>2 DEF StartReader, Join, Started, Lost, client
    <2> QED
      BY <1>16, <2>1, <2>2 DEF StartReader
  <1>17. CASE ReaderEnds
    <2>1. CASE Enqueue(Envelope) /\ UNCHANGED <<position, joined>>
      <3>1. Put(Envelope)
        BY <1>17, <2>1 DEF ReaderEnds, Put, Envelope, client
      <3> QED
        BY <3>1
    <2>2. CASE UNCHANGED <<queue, dropped>>
      BY <1>17, <2>2 DEF ReaderEnds, Still, Lost, client
    <2> QED
      BY <1>17, <2>1, <2>2 DEF ReaderEnds
  <1>18. CASE Reconnect
    <2>1. CASE Enqueue(Envelope) /\ UNCHANGED <<position, joined>>
      <3>1. Put(Envelope)
        BY <1>18, <2>1 DEF Reconnect, Put, Envelope, client
      <3> QED
        BY <3>1
    <2>2. CASE position' \in Resumed /\ UNCHANGED <<queue, dropped>>
      BY <1>18, <2>2 DEF Reconnect, Skip, Started, Lost, client
    <2> QED
      BY <1>18, <2>1, <2>2 DEF Reconnect
  <1>19. CASE Produce
    <2>1. Put(position')
      BY <1>19 DEF Produce, Put, Envelope, client
    <2> QED
      BY <2>1
  <1>20. CASE UNCHANGED vars
    BY <1>20 DEF Still, Lost, vars, reader, transfer, client
  <1>21. CASE OpenHistory
    BY <1>21 DEF OpenHistory, Still, Lost, reader, transfer, client, session
  <1> QED
    BY <1>1, <1>2, <1>3, <1>4, <1>5, <1>6, <1>7, <1>8, <1>9, <1>10, <1>11, <1>12,
       <1>13, <1>14, <1>15, <1>16, <1>17, <1>18, <1>19, <1>20, <1>21
    DEF Next, Handler, Producer

\* What the flows need to know of the numbers before and after
LEMMA AllNumbers ==
    ASSUME Typed, Typed'
    PROVE  /\ position \in Nat /\ joined \in Nat /\ Len(received) \in Nat /\ Lost \in Nat
           /\ Taken \in 0..1 /\ Events \in Nat
           /\ position' \in Nat /\ joined' \in Nat /\ Len(received') \in Nat /\ Lost' \in Nat
           /\ Taken' \in 0..1 /\ Events' \in Nat
  <1>1. TypeOK /\ TypeOK'
    BY DEF Typed
  <1>2. /\ position \in Nat /\ joined \in Nat /\ Len(received) \in Nat
        /\ dropped \in Nat /\ count \in Nat /\ warned \in Nat
        /\ Taken \in 0..1 /\ Events \in Nat
    BY <1>1, Numbers
  <1>3. /\ position' \in Nat /\ joined' \in Nat /\ Len(received') \in Nat
        /\ dropped' \in Nat /\ count' \in Nat /\ warned' \in Nat
    BY <1>1, LogAssumption DEF TypeOK
  <1>4. Taken' \in 0..1
    BY DEF Taken
  <1>5. Events' \in Nat
    <2>1. Len(queue') \in Nat /\ (queue' # <<>> => Len(queue') > 0)
      <3>1. \A s \in Seq(0..MaxEvents) : Len(s) \in Nat /\ (s # <<>> => Len(s) > 0)
        OBVIOUS
      <3>2. queue' \in Seq(0..MaxEvents)
        BY <1>1 DEF TypeOK
      <3> QED
        BY <3>1, <3>2, Zenon
    <2> QED
      BY <2>1 DEF Events, Ended
  <1>6. Lost \in Nat
    BY <1>2 DEF Lost
  <1>7. Lost' \in Nat
    <2>1. \A a, b, c \in Nat : a + b + c \in Nat
      OBVIOUS
    <2>2. Lost' = dropped' + count' + warned'
      BY DEF Lost
    <2> QED
      BY <1>3, <2>1, <2>2, Zenon
  <1> QED
    BY <1>2, <1>3, <1>4, <1>5, <1>6, <1>7

\* Nothing is under way before the reader starts
LEMMA Empty ==
    ASSUME Untouched
    PROVE  Events = 0 /\ Taken = 0 /\ Len(received) = 0 /\ Lost = 0
  BY DEF Untouched, Events, Ended, Taken, Event, Lost

LEMMA Handed ==
    ASSUME Typed, Deliver
    PROVE  /\ Taken = 1 /\ Taken' = 0 /\ Len(received') = Len(received) + 1
           /\ received'[Len(received')] = taken
           /\ \A i \in 1..Len(received) : received'[i] = received[i]
           /\ Event(taken) /\ ~Event(taken')
           /\ UNCHANGED <<journal, position, last, joined, queue, Events, Lost>>
  <1>1. received \in Seq(1..MaxEvents) /\ taken \in 1..MaxEvents
    BY LogAssumption DEF Typed, TypeOK, Deliver, Event, Envelope, Nothing
  <1>2. Taken = 1 /\ Taken' = 0 /\ Event(taken) /\ ~Event(taken')
    BY DEF Deliver, Taken, Event
  <1> QED
    BY <1>1, <1>2, EventsKept DEF Deliver

-----------------------------------------------------------------------------
(* Nothing is lost without being counted                                    *)

\* What a step needs to know of one that puts an item into the queue
LEMMA PutEffect ==
    ASSUME Typed, EnvelopeLast, NEW x, Put(x)
    PROVE  \E k \in 0..1 :
               /\ Events - k \in Nat /\ Lost' = Lost + k
               /\ Events' = IF x = Envelope THEN Events - k ELSE Events - k + 1
               /\ \A i \in 1..(Events - k) : queue'[i] = queue[i + k]
               /\ x # Envelope => queue'[Events'] = x
               /\ UNCHANGED <<journal, joined, taken, received, Taken>>
               /\ IF x = Envelope THEN position' = position ELSE x = position + 1 /\ position' = x
  <1>1. TypeOK /\ producer # "ended" /\ Enqueue(x) /\ x \in 0..MaxEvents
    BY DEF Typed, Put
  <1> DEFINE k == IF Len(queue) = QueueSize THEN 1 ELSE 0
  <1>2. /\ Events - k \in Nat /\ dropped' = dropped + k
        /\ Events' = IF x = Envelope THEN Events - k ELSE Events - k + 1
        /\ \A i \in 1..(Events - k) : queue'[i] = queue[i + k]
        /\ x # Envelope => queue'[Events'] = x
    BY <1>1, EventsEnqueue
  <1>3. k \in 0..1
    OBVIOUS
  <1> HIDE DEF k
  <1>4. Lost' = Lost + k
    BY <1>1, <1>2, <1>3 DEF Put, Lost, TypeOK
  <1>5. /\ UNCHANGED <<journal, joined, taken, received, Taken>>
        /\ IF x = Envelope THEN position' = position ELSE x = position + 1 /\ position' = x
    BY EventsKept DEF Put
  <1> QED
    BY <1>2, <1>3, <1>4, <1>5

\* The handler's task takes an event, or the envelope behind all of them
LEMMA TakenEffect ==
    ASSUME Typed, EnvelopeLast, Take
    PROVE  /\ Taken = 0 /\ Taken' \in 0..1 /\ Events - Taken' \in Nat
           /\ Events' = Events - Taken' /\ Lost' = Lost
           /\ Taken' = 1 <=> Event(taken')
           /\ Taken' = 1 => taken' = queue[1]
           /\ Taken' = 1 => \A i \in 1..Events' : queue'[i] = queue[i + 1]
           /\ Taken' = 0 => Events' = 0
           /\ UNCHANGED <<journal, position, last, joined, received>>
  <1>1. TypeOK /\ Events \in Nat
    BY Numbers DEF Typed
  <1>2. /\ taken = Nothing /\ taken' = queue[1] /\ taken' # Nothing
        /\ taken' = Envelope => Events = 0 /\ Events' = 0
        /\ taken' # Envelope =>
              /\ Events >= 1 /\ Events' = Events - 1
              /\ \A i \in 1..Events' : queue'[i] = queue[i + 1]
    BY <1>1, EventsTake
  <1>3. Taken = 0 /\ (Taken' = IF taken' = Envelope THEN 0 ELSE 1)
    BY <1>2 DEF Taken, Event
  <1>4. UNCHANGED <<journal, position, last, joined, received>> /\ Lost' = Lost
    BY DEF Take, Lost, reader, client
  <1> QED
    BY <1>1, <1>2, <1>3, <1>4 DEF Event

-----------------------------------------------------------------------------
(* Nothing is lost without being counted                                    *)

LEMMA AccountNext ==
    ASSUME Typed, Typed', Control, Account, [Next]_vars
    PROVE  Account'
  <1>1. /\ position \in Nat /\ joined \in Nat /\ Len(received) \in Nat /\ Lost \in Nat
        /\ Taken \in 0..1 /\ Events \in Nat
        /\ position' \in Nat /\ joined' \in Nat /\ Len(received') \in Nat /\ Lost' \in Nat
        /\ Taken' \in 0..1 /\ Events' \in Nat
    BY AllNumbers
  <1> HIDE DEF Lost
  <1>2. journal => position - joined = Len(received) + Taken + Events + Lost
    BY DEF Account
  <1> SUFFICES ASSUME journal'
               PROVE  position' - joined' = Len(received') + Taken' + Events' + Lost'
    BY DEF Account
  <1>3. CASE Still
    BY <1>1, <1>2, <1>3, EventsKept DEF Still
  <1>4. CASE Deliver
    <2>1. /\ Taken = 1 /\ Taken' = 0 /\ Len(received') = Len(received) + 1
          /\ UNCHANGED <<journal, position, joined, Events, Lost>>
      BY <1>4, Handed
    <2> QED
      BY <1>1, <1>2, <2>1
  <1>5. CASE Join
    <2>1. Taken = 0 /\ Events = 0 /\ Len(received) = 0 /\ Lost = 0
      BY <1>5, Empty DEF Join
    <2>2. /\ Taken' = Taken /\ Events' = Events /\ received' = received /\ Lost' = Lost
          /\ joined' = position'
      BY <1>5, EventsKept DEF Join
    <2>3. \A n \in Nat : n - n = 0
      OBVIOUS
    <2>4. position' - joined' = 0
      BY <1>1, <2>2, <2>3, Zenon
    <2> QED
      BY <2>1, <2>2, <2>4
  <1>6. CASE Skip
    BY <1>6 DEF Skip
  <1>7. CASE \E x : Put(x)
    <2>1. PICK x : Put(x)
      BY <1>7
    <2>2. PICK k \in 0..1 :
              /\ Lost' = Lost + k
              /\ Events' = IF x = Envelope THEN Events - k ELSE Events - k + 1
              /\ UNCHANGED <<journal, joined, received, Taken>>
              /\ IF x = Envelope THEN position' = position ELSE x = position + 1 /\ position' = x
      BY <2>1, PutEffect DEF Control
    <2> QED
      BY <1>1, <1>2, <2>2
  <1>8. CASE Take
    <2>1. /\ Taken = 0 /\ Events' = Events - Taken' /\ Lost' = Lost
          /\ UNCHANGED <<journal, position, joined, received>>
      BY <1>8, TakenEffect DEF Control
    <2> QED
      BY <1>1, <1>2, <2>1
  <1> QED
    BY <1>3, <1>4, <1>5, <1>6, <1>7, <1>8, Flows DEF Control

-----------------------------------------------------------------------------
(* The queue holds the last events that were read                           *)

LEMMA ContiguousNext ==
    ASSUME Typed, Typed', Control, Contiguous, [Next]_vars
    PROVE  Contiguous'
  <1>1. /\ position \in Nat /\ Events \in Nat /\ position' \in Nat /\ Events' \in Nat
    BY AllNumbers
  <1> SUFFICES ASSUME journal', NEW i \in 1..Events'
               PROVE  queue'[i] = position' - Events' + i
    BY DEF Contiguous
  <1>2. CASE Still
    BY <1>2, EventsKept DEF Still, Contiguous
  <1>3. CASE Deliver
    BY <1>3, Handed DEF Contiguous
  <1>4. CASE Join
    BY <1>1, <1>4, Empty, EventsKept DEF Join
  <1>5. CASE Skip
    BY <1>5 DEF Skip
  <1>6. CASE \E x : Put(x)
    <2>1. PICK x : Put(x)
      BY <1>6
    <2>2. PICK k \in 0..1 :
              /\ Events - k \in Nat
              /\ Events' = IF x = Envelope THEN Events - k ELSE Events - k + 1
              /\ \A j \in 1..(Events - k) : queue'[j] = queue[j + k]
              /\ x # Envelope => queue'[Events'] = x
              /\ UNCHANGED journal
              /\ IF x = Envelope THEN position' = position ELSE x = position + 1 /\ position' = x
      BY <2>1, PutEffect DEF Control
    <2>3. CASE i \in 1..(Events - k)
      <3>1. queue'[i] = queue[i + k]
        BY <2>2, <2>3
      <3>2. i + k \in 1..Events
        BY <1>1, <2>2, <2>3
      <3>3. queue[i + k] = position - Events + (i + k)
        BY <2>2, <3>2 DEF Contiguous
      <3>4. position - Events + (i + k) = position' - Events' + i
        <4>1. CASE x = Envelope
          BY <1>1, <2>2, <4>1
        <4>2. CASE x # Envelope
          BY <1>1, <2>2, <4>2
        <4> QED
          BY <4>1, <4>2
      <3> QED
        BY <3>1, <3>3, <3>4
    <2>4. CASE i \notin 1..(Events - k)
      <3>1. x # Envelope /\ i = Events'
        BY <1>1, <2>2, <2>4
      <3> QED
        BY <1>1, <2>2, <3>1
    <2> QED
      BY <2>3, <2>4
  <1>7. CASE Take
    <2>1. /\ Events' = Events - Taken' /\ UNCHANGED <<journal, position>> /\ Taken' \in 0..1
          /\ Taken' = 1 => \A j \in 1..Events' : queue'[j] = queue[j + 1]
          /\ Taken' = 0 => Events' = 0
      BY <1>7, TakenEffect DEF Control
    <2>2. Taken' = 1
      <3>1. Events' # 0
        BY <1>1
      <3>2. Taken' = 0 \/ Taken' = 1
        BY DEF Taken
      <3> QED
        BY <2>1, <3>1, <3>2
    <2>3. i + 1 \in 1..Events /\ queue'[i] = queue[i + 1]
      BY <1>1, <2>1, <2>2
    <2>4. queue[i + 1] = position - Events + (i + 1)
      BY <2>1, <2>3 DEF Contiguous
    <2> QED
      BY <1>1, <2>1, <2>2, <2>3, <2>4
  <1> QED
    BY <1>2, <1>3, <1>4, <1>5, <1>6, <1>7, Flows DEF Control

-----------------------------------------------------------------------------
(* Gaps are announced                                                       *)

\* The event that is taken follows directly on the ones before it and the ones that are lost
LEMMA GapsNext ==
    ASSUME Typed, Typed', Control, Account, Contiguous, TakenAnnounced, GapsAreAnnounced,
           [Next]_vars
    PROVE  TakenAnnounced' /\ GapsAreAnnounced'
  <1>1. /\ position \in Nat /\ joined \in Nat /\ Len(received) \in Nat /\ Lost \in Nat
        /\ Events \in Nat /\ Lost' \in Nat
    BY AllNumbers
  <1>2. /\ received \in Seq(1..MaxEvents) /\ taken \in 0..Nothing /\ Nothing \in Nat
        /\ received # <<>> => received[Len(received)] \in Nat
    <2>1. received \in Seq(1..MaxEvents) /\ taken \in 0..Nothing /\ Nothing \in Nat
      BY LogAssumption DEF Typed, TypeOK, Nothing
    <2>2. received # <<>> => Len(received) \in 1..Len(received)
      BY <2>1
    <2>3. received # <<>> => received[Len(received)] \in 1..MaxEvents
      BY <2>1, <2>2, ElementOfSeq
    <2> QED
      BY <2>1, <2>3
  <1>3. /\ TakenAnnounced <=> (journal /\ Event(taken) => taken - joined <= Len(received) + 1 + Lost)
        /\ GapsAreAnnounced <=> (journal => Span <= Len(received) + Lost)
    BY <1>1 DEF TakenAnnounced, GapsAreAnnounced, Announced, Lost, Typed, TypeOK
  <1>4. /\ TakenAnnounced' <=>
             (journal' /\ Event(taken') => taken' - joined' <= Len(received') + 1 + Lost')
        /\ GapsAreAnnounced' <=> (journal' => Span' <= Len(received') + Lost')
    <2>2. Len(received') \in Nat /\ dropped' \in Nat /\ count' \in Nat /\ warned' \in Nat
      BY AllNumbers DEF Typed, TypeOK
    <2>3. Len(received') + warned' + count' + dropped' = Len(received') + Lost'
      <3>1. Lost' = dropped' + count' + warned'
        BY DEF Lost
      <3>2. Len(received') + warned' + count' + dropped'
            = Len(received') + (dropped' + count' + warned')
        <4> DEFINE l == Len(received')  d == dropped'  c == count'  w == warned'
        <4>1. l \in Nat /\ d \in Nat /\ c \in Nat /\ w \in Nat
          BY <2>2
        <4> HIDE DEF l, d, c, w
        <4>2. l + w + c + d = l + (d + c + w)
          BY <4>1
        <4> QED
          BY <4>2 DEF l, d, c, w
      <3> QED
        BY <3>1, <3>2, Zenon
    <2> QED
      BY <2>3 DEF TakenAnnounced, GapsAreAnnounced, Announced
  <1>5. Span \in Int
    BY <1>1, <1>2 DEF Span
  \* More is lost and nothing else happens
  <1>6. CASE UNCHANGED <<journal, taken, joined, received>> /\ Lost <= Lost'
    <2>1. Span' = Span
      BY <1>6 DEF Span
    <2> QED
      BY <1>1, <1>2, <1>3, <1>4, <1>5, <1>6, <2>1
  <1>7. CASE Still
    BY <1>1, <1>6, <1>7 DEF Still
  <1>8. CASE Deliver
    <2>1. /\ Len(received') = Len(received) + 1 /\ received'[Len(received')] = taken
          /\ Event(taken) /\ ~Event(taken') /\ UNCHANGED <<journal, joined, Lost>>
      BY <1>8, Handed
    <2>2. Span' = taken - joined
      <3>1. received' # <<>>
        BY <1>2, <1>8 DEF Deliver
      <3> QED
        BY <2>1, <3>1 DEF Span
    <2> QED
      BY <1>1, <1>2, <1>3, <1>4, <2>1, <2>2
  <1>9. CASE Join
    <2>1. received' = <<>> /\ ~Event(taken') /\ Len(received') = 0
      BY <1>9 DEF Join, Untouched, Event
    <2>2. Span' = 0
      BY <2>1 DEF Span
    <2>3. 0 <= Len(received') + Lost'
      <3>1. \A n \in Nat : 0 <= 0 + n
        OBVIOUS
      <3> QED
        BY <1>1, <2>1, <3>1, Zenon
    <2> QED
      BY <1>4, <2>1, <2>2, <2>3
  <1>10. CASE Skip
    BY <1>4, <1>10 DEF Skip
  <1>11. CASE \E x : Put(x)
    <2>1. PICK x : Put(x)
      BY <1>11
    <2>2. PICK k \in 0..1 : Lost' = Lost + k /\ UNCHANGED <<journal, joined, taken, received>>
      BY <2>1, PutEffect DEF Control
    <2> QED
      BY <1>1, <1>6, <2>2
  <1>12. CASE Take
    <2>1. /\ Taken = 0 /\ Lost' = Lost /\ UNCHANGED <<journal, position, joined, received>>
          /\ Event(taken') => Events >= 1 /\ taken' = queue[1]
      <3>1. /\ Taken = 0 /\ Lost' = Lost /\ UNCHANGED <<journal, position, joined, received>>
            /\ Taken' = 1 <=> Event(taken')
            /\ Taken' = 1 => taken' = queue[1]
            /\ Events - Taken' \in Nat
        BY <1>12, TakenEffect DEF Control
      <3> QED
        BY <1>1, <3>1
    <2>2. journal /\ Event(taken') => taken' = position - Events + 1
      BY <1>1, <2>1 DEF Contiguous
    <2>3. journal => position - joined = Len(received) + Taken + Events + Lost
      BY DEF Account
    <2>4. journal /\ Event(taken') => taken' - joined = Len(received) + 1 + Lost
      BY <1>1, <2>1, <2>2, <2>3
    <2>5. Span' = Span
      BY <2>1 DEF Span
    <2> QED
      BY <1>1, <1>3, <1>4, <2>1, <2>4, <2>5
  <1> QED
    BY <1>7, <1>8, <1>9, <1>10, <1>11, <1>12, Flows DEF Control

-----------------------------------------------------------------------------
(* Order                                                                    *)

LEMMA AheadNext ==
    ASSUME Typed, Typed', Control, Ahead, [Next]_vars
    PROVE  Ahead'
  <1> USE LogAssumption
  <1>1. /\ position \in 0..MaxEvents /\ last \in 0..MaxEvents /\ written \in 0..MaxEvents
        /\ position' \in 0..MaxEvents /\ last <= written
    BY DEF Typed, TypeOK, Control, Started
  <1>2. CASE UNCHANGED <<position, last>>
    BY <1>2 DEF Ahead
  <1>3. CASE Join
    BY <1>3 DEF Join, Untouched, Ahead
  <1>4. CASE Skip
    <2> SUFFICES ASSUME last # 0, NEW e \in 1..MaxEvents, position' < e
                 PROVE  Time[last] <= Time[e]
      BY <1>4 DEF Skip, Ahead
    <2>1. CASE e <= written
      BY <1>1, <1>4, <2>1 DEF Skip, Resumed
    <2>2. CASE e > written
      BY <1>1, <2>2
    <2> QED
      BY <1>1, <2>1, <2>2
  <1>5. CASE \E x : Put(x)
    <2>1. PICK x : Put(x)
      BY <1>5
    <2>2. CASE x = Envelope
      BY <1>2, <2>1, <2>2 DEF Put
    <2>3. CASE x # Envelope
      <3>1. position' = x /\ last' = x /\ x \in 0..MaxEvents
        BY <2>1, <2>3 DEF Put
      <3> QED
        BY <1>1, <3>1 DEF Ahead
    <2> QED
      BY <2>2, <2>3
  <1> QED
    BY <1>2, <1>3, <1>4, <1>5, Flows DEF Control, Still, Deliver, Take, reader

\* What has been read stays read; the next event follows on all of them
LEMMA SeenNext ==
    ASSUME Typed, Typed', Control, Ahead, NEW x, Put(x)
    PROVE  /\ Order' = Order /\ Seen \subseteq Seen'
           /\ x # Envelope => x \in Seen' /\ \A y \in Seen : <<y, x>> \in Order
  <1> USE LogAssumption
  <1>1. /\ position \in 0..MaxEvents /\ last \in 0..MaxEvents /\ joined \in 0..MaxEvents
        /\ journal' = journal /\ joined' = joined /\ x \in 0..MaxEvents
    BY DEF Typed, TypeOK, Put
  <1>2. Order' = Order
    BY <1>1 DEF Order, Before
  <1>3. CASE x = Envelope
    BY <1>1, <1>2, <1>3 DEF Put, Seen
  <1>4. CASE x # Envelope
    <2>1. x = position + 1 /\ position' = x /\ last' = x /\ x \in 1..MaxEvents
      BY <1>1, <1>4 DEF Put, Envelope
    <2>2. last # 0 => Time[last] <= Time[x]
      BY <1>1, <2>1 DEF Ahead
    <2>3. ASSUME NEW y \in Seen
          PROVE  y \in Seen' /\ <<y, x>> \in Order
      <3>1. y \in 1..MaxEvents /\ Time[y] \in Nat /\ Time[x] \in Nat
        BY <2>1 DEF Seen
      <3>2. CASE journal
        BY <1>1, <2>1, <3>1, <3>2 DEF Seen, Order, Before
      <3>3. CASE ~journal
        <4>1. last # 0 /\ Time[y] <= Time[last] /\ Time[last] \in Nat
          BY <1>1, <3>3 DEF Seen
        <4>2. Time[y] <= Time[x]
          BY <2>2, <3>1, <4>1
        <4> QED
          BY <1>1, <2>1, <3>1, <3>3, <4>2 DEF Seen, Order, Before
      <3> QED
        BY <3>2, <3>3
    <2>4. journal => joined < x
      BY <1>1, <2>1 DEF Typed, TypeOK, Control, Started
    <2>5. x \in Seen'
      BY <1>1, <2>1, <2>4 DEF Seen
    <2> QED
      BY <1>2, <2>3, <2>5
  <1> QED
    BY <1>3, <1>4

LEMMA OrderedNext ==
    ASSUME Typed, Typed', Control, Ahead, Ordered, [Next]_vars
    PROVE  Ordered'
  <1>1. Len(received) \in Nat /\ Events \in Nat
    BY AllNumbers
  <1> USE DEF Ordered
  \* Neither the items nor what has been read change
  <1>2. CASE UNCHANGED <<journal, joined, received, taken, queue, Events, Seen>>
    BY <1>2 DEF Order, Before
  <1>3. CASE Still
    BY <1>2, <1>3, EventsKept DEF Still, Seen
  <1>4. CASE Skip
    BY <1>2, <1>4, EventsKept DEF Skip, Seen
  <1>5. CASE Deliver
    <2>1. /\ Len(received') = Len(received) + 1 /\ received'[Len(received')] = taken
          /\ \A i \in 1..Len(received) : received'[i] = received[i]
          /\ Event(taken) /\ ~Event(taken') /\ UNCHANGED <<journal, position, last, joined, queue, Events>>
      BY <1>5, Handed
    <2>2. Order' = Order /\ Seen' = Seen
      BY <2>1 DEF Order, Before, Seen
    <2>3. \A i \in 1..Len(received') : i \in 1..Len(received) \/ i = Len(received')
      BY <1>1, <2>1
    <2>4. \A i, j \in 1..Len(received') : i < j => i \in 1..Len(received)
      BY <1>1, <2>1
    <2>5. \A i, j \in 1..Len(received') : i < j => <<received'[i], received'[j]>> \in Order
      BY <2>1, <2>3, <2>4
    <2>6. \A i \in 1..Len(received') : received'[i] \in Seen
      BY <2>1, <2>3
    <2>7. \A i \in 1..Len(received'), j \in 1..Events' : <<received'[i], queue'[j]>> \in Order
      BY <2>1, <2>3
    <2> QED
      BY <2>1, <2>2, <2>5, <2>6, <2>7
  <1>6. CASE Join
    <2>1. Events' = 0 /\ Len(received') = 0 /\ ~Event(taken')
      BY <1>6, Empty, EventsKept DEF Join, Untouched, Event
    <2> QED
      BY <2>1
  <1>7. CASE \E x : Put(x)
    <2>1. PICK x : Put(x)
      BY <1>7
    <2>2. PICK k \in 0..1 :
              /\ Events - k \in Nat
              /\ Events' = IF x = Envelope THEN Events - k ELSE Events - k + 1
              /\ \A i \in 1..(Events - k) : queue'[i] = queue[i + k]
              /\ x # Envelope => queue'[Events'] = x
              /\ UNCHANGED <<taken, received>>
      BY <2>1, PutEffect DEF Control
    <2>3. /\ Order' = Order /\ Seen \subseteq Seen'
          /\ x # Envelope => x \in Seen' /\ \A y \in Seen : <<y, x>> \in Order
      BY <2>1, SeenNext
    <2>4. PICK n \in Nat : n = Events'
      BY AllNumbers
    <2>5. ASSUME NEW i \in 1..n
          PROVE  \/ i + k \in 1..Events /\ queue'[i] = queue[i + k]
                 \/ i = n /\ x # Envelope /\ queue'[i] = x
      BY <1>1, <2>2, <2>4
    <2>6. \A i \in 1..n : queue'[i] \in Seen'
      BY <2>3, <2>5
    <2>7. \A i, j \in 1..n : i < j => <<queue'[i], queue'[j]>> \in Order
      <3> SUFFICES ASSUME NEW i \in 1..n, NEW j \in 1..n, i < j
                   PROVE  <<queue'[i], queue'[j]>> \in Order
        OBVIOUS
      <3>1. i + k \in 1..Events /\ queue'[i] = queue[i + k]
        BY <2>4, <2>5
      <3>2. CASE j + k \in 1..Events /\ queue'[j] = queue[j + k]
        <4>1. i + k < j + k
          BY <2>2
        <4> QED
          BY <3>1, <3>2, <4>1
      <3>3. CASE x # Envelope /\ queue'[j] = x
        BY <2>3, <3>1, <3>3
      <3> QED
        BY <2>5, <3>2, <3>3
    <2>8. Event(taken) => \A i \in 1..n : <<taken, queue'[i]>> \in Order
      BY <2>3, <2>5
    <2>9. \A i \in 1..Len(received), j \in 1..n : <<received[i], queue'[j]>> \in Order
      BY <2>3, <2>5
    <2> QED
      BY <2>2, <2>3, <2>4, <2>6, <2>7, <2>8, <2>9
  <1>8. CASE Take
    <2>1. /\ Events' = Events - Taken' /\ UNCHANGED <<journal, position, last, joined, received>>
          /\ Taken' = 1 <=> Event(taken')
          /\ Taken' = 1 => taken' = queue[1]
          /\ Taken' = 1 => \A i \in 1..Events' : queue'[i] = queue[i + 1]
          /\ Taken' = 0 => Events' = 0
      BY <1>8, TakenEffect DEF Control
    <2>2. Order' = Order /\ Seen' = Seen
      BY <2>1 DEF Order, Before, Seen
    <2>3. CASE ~Event(taken')
      <3>1. Events' = 0
        BY <2>1, <2>3 DEF Taken
      <3> QED
        BY <2>1, <2>2, <2>3, <3>1
    <2>4. CASE Event(taken')
      <3>1. PICK n \in Nat : n = Events' /\ n = Events - 1
        BY <1>1, <2>1, <2>4, AllNumbers
      <3>2. 1 \in 1..Events /\ \A i \in 1..n : i + 1 \in 1..Events /\ 1 < i + 1
        BY <1>1, <3>1
      <3>3. taken' = queue[1] /\ \A i \in 1..n : queue'[i] = queue[i + 1]
        BY <2>1, <2>4, <3>1
      <3>4. taken' \in Seen /\ \A i \in 1..Len(received) : <<received[i], taken'>> \in Order
        BY <3>2, <3>3
      <3>5. \A i \in 1..n : /\ queue'[i] \in Seen /\ <<taken', queue'[i]>> \in Order
                            /\ \A j \in 1..Len(received) : <<received[j], queue'[i]>> \in Order
        BY <3>2, <3>3
      <3>6. \A i, j \in 1..n : i < j => <<queue'[i], queue'[j]>> \in Order
        <4>1. \A i, j \in 1..n : i < j => i + 1 < j + 1
          BY <3>1
        <4> QED
          BY <3>2, <3>3, <4>1
      <3> QED
        BY <2>1, <2>2, <3>1, <3>4, <3>5, <3>6
    <2> QED
      BY <2>3, <2>4
  <1> QED
    BY <1>3, <1>4, <1>5, <1>6, <1>7, <1>8, Flows DEF Control

-----------------------------------------------------------------------------
(* The session                                                              *)

LEMMA LateNext == TypeOK /\ LateInv /\ [Next]_vars => LateInv'
  <1> SUFFICES ASSUME TypeOK, LateInv, [Next]_vars PROVE LateInv'
    OBVIOUS
  <1> USE DEF TypeOK, LateInv
  <1>1. CASE Write
    BY <1>1 DEF Write, reader, transfer, client, session
  <1>2. CASE Revoke
    BY <1>2 DEF Revoke, reader, transfer, client, session
  <1>3. CASE HangUp
    BY <1>3 DEF HangUp, reader, transfer, client, session
  <1>4. CASE Shutdown
    BY <1>4 DEF Shutdown, reader, transfer, client, session
  <1>5. CASE CheckSession
    BY <1>5 DEF CheckSession, reader, transfer, client, session
  <1>6. CASE CheckFails
    BY <1>6 DEF CheckFails, reader, transfer, client, session
  <1>7. CASE Connect
    BY <1>7 DEF Connect, reader, transfer, client, session
  <1>8. CASE ReadHistory
    BY <1>8 DEF ReadHistory, Oldest, reader, transfer, client, session
  <1>9. CASE SendHistory
    BY <1>9 DEF SendHistory, reader, transfer, client, session
  <1>10. CASE HistorySent
    BY <1>10 DEF HistorySent, reader, transfer, client, session
  <1>11. CASE Wake
    BY <1>11 DEF Wake, Proceed, reader, transfer, client, session
  <1>12. CASE Warn
    BY <1>12 DEF Warn, reader, transfer, client, session
  <1>13. CASE Send
    BY <1>13 DEF Send, reader, transfer, client, session
  <1>14. CASE Close
    BY <1>14 DEF Close, reader, transfer, client, session
  <1>15. CASE StartReader
    BY <1>15 DEF StartReader, reader, transfer, client, session
  <1>16. CASE Produce
    BY <1>16 DEF Produce, reader, transfer, client, session
  <1>17. CASE ReaderEnds
    BY <1>17 DEF ReaderEnds, reader, transfer, client, session
  <1>18. CASE Reconnect
    BY <1>18 DEF Reconnect, reader, transfer, client, session
  <1>19. CASE Take
    BY <1>19 DEF Take, reader, transfer, client, session
  <1>20. CASE Over
    BY <1>20 DEF Over, vars, reader, transfer, client, session
  <1>21. CASE UNCHANGED vars
    BY <1>21 DEF vars, reader, transfer, client, session
  <1>22. CASE OpenHistory
    BY <1>22 DEF OpenHistory, reader, transfer, client, session
  <1> QED
    BY <1>1, <1>2, <1>3, <1>4, <1>5, <1>6, <1>7, <1>8, <1>9, <1>10, <1>11, <1>12,
       <1>13, <1>14, <1>15, <1>16, <1>17, <1>18, <1>19, <1>20, <1>21, <1>22
    DEF Next, Handler, Producer

-----------------------------------------------------------------------------
(* The end                                                                  *)

LEMMA OwnedNext == TypeOK /\ Started /\ Owned /\ [Next]_vars => Owned'
  <1> SUFFICES ASSUME TypeOK, Started, Owned, [Next]_vars PROVE Owned'
    OBVIOUS
  <1> USE DEF TypeOK, Started, Owned
  <1>1. CASE Write
    BY <1>1 DEF Write, reader, transfer, client, session
  <1>2. CASE Revoke
    BY <1>2 DEF Revoke, reader, transfer, client, session
  <1>3. CASE HangUp
    BY <1>3 DEF HangUp, reader, transfer, client, session
  <1>4. CASE Shutdown
    BY <1>4 DEF Shutdown, reader, transfer, client, session
  <1>5. CASE CheckSession
    BY <1>5 DEF CheckSession, reader, transfer, client, session
  <1>6. CASE CheckFails
    BY <1>6 DEF CheckFails, reader, transfer, client, session
  <1>7. CASE Connect
    BY <1>7 DEF Connect, reader, transfer, client, session
  <1>8. CASE ReadHistory
    BY <1>8 DEF ReadHistory, Oldest, reader, transfer, client, session
  <1>9. CASE SendHistory
    BY <1>9 DEF SendHistory, reader, transfer, client, session
  <1>10. CASE HistorySent
    BY <1>10 DEF HistorySent, reader, transfer, client, session
  <1>11. CASE Wake
    BY <1>11 DEF Wake, Proceed, reader, transfer, client, session
  <1>12. CASE Warn
    BY <1>12 DEF Warn, reader, transfer, client, session
  <1>13. CASE Send
    BY <1>13 DEF Send, reader, transfer, client, session
  <1>14. CASE Close
    BY <1>14 DEF Close, reader, transfer, client, session
  <1>15. CASE StartReader
    BY <1>15 DEF StartReader, reader, transfer, client, session
  <1>16. CASE Produce
    BY <1>16 DEF Produce, reader, transfer, client, session
  <1>17. CASE ReaderEnds
    BY <1>17 DEF ReaderEnds, reader, transfer, client, session
  <1>18. CASE Reconnect
    BY <1>18 DEF Reconnect, reader, transfer, client, session
  <1>19. CASE Take
    BY <1>19 DEF Take, reader, transfer, client, session
  <1>20. CASE Over
    BY <1>20 DEF Over, vars, reader, transfer, client, session
  <1>21. CASE UNCHANGED vars
    BY <1>21 DEF vars, reader, transfer, client, session
  <1>22. CASE OpenHistory
    BY <1>22 DEF OpenHistory, reader, transfer, client, session
  <1> QED
    BY <1>1, <1>2, <1>3, <1>4, <1>5, <1>6, <1>7, <1>8, <1>9, <1>10, <1>11, <1>12,
       <1>13, <1>14, <1>15, <1>16, <1>17, <1>18, <1>19, <1>20, <1>21, <1>22
    DEF Next, Handler, Producer

-----------------------------------------------------------------------------
(* Theorems                                                                 *)

LEMMA ControlInit == Init => Control
  <1> SUFFICES ASSUME Init PROVE Control
    OBVIOUS
  <1>1. Started
    BY LogAssumption DEF Init, Started, Untouched
  <1>2. EnvelopeLast
    BY LogAssumption DEF Init, EnvelopeLast, Nothing, Envelope
  <1>3. Counting
    BY DEF Init, Counting
  <1> QED
    BY <1>1, <1>2, <1>3 DEF Control

LEMMA ControlInvariant == Spec => [](Typed /\ Control)
  <1>1. Typed /\ Control /\ [Next]_vars => Typed' /\ Control'
    BY TypeNext, StartedNext, EnvelopeNext, CountingNext DEF Control
  <1> QED
    BY TypeInit, ControlInit, <1>1, PTL DEF Spec

LEMMA FlowInit ==
    Init => Account /\ Contiguous /\ TakenAnnounced /\ GapsAreAnnounced /\ Ahead /\ Ordered
  <1> SUFFICES ASSUME Init
               PROVE  Account /\ Contiguous /\ TakenAnnounced /\ GapsAreAnnounced /\ Ahead /\ Ordered
    OBVIOUS
  <1>1. Untouched /\ ~Event(taken)
    BY DEF Init, Untouched, Event
  <1>2. Events = 0 /\ Taken = 0 /\ Len(received) = 0 /\ Lost = 0 /\ position - joined = 0
    BY <1>1, Empty DEF Untouched
  <1>3. Account
    BY <1>2 DEF Account
  <1>4. Contiguous /\ Ahead /\ Ordered
    BY <1>1, <1>2 DEF Contiguous, Ahead, Ordered, Untouched
  <1>5. TakenAnnounced
    BY <1>1 DEF TakenAnnounced
  <1>6. GapsAreAnnounced
    BY <1>1 DEF GapsAreAnnounced, Announced, Span, Untouched
  <1> QED
    BY <1>3, <1>4, <1>5, <1>6

\* The producer reads forward, a Compose follower resumes no earlier than --since says, the queue keeps
\* its order, and the handler takes from its head: from the journal the client receives events in the
\* order in which they were written, none twice and none of the history, however many are dropped;
\* from Compose it receives nothing older than what it has, however often the follower is replaced.
THEOREM OrderKept == Spec => []InOrder
  <1>1. Typed /\ Control /\ Ahead /\ Ordered /\ Typed' /\ [Next]_vars => Ahead' /\ Ordered'
    BY AheadNext, OrderedNext
  <1>2. Spec => [](Ahead /\ Ordered)
    BY ControlInvariant, FlowInit, <1>1, PTL DEF Spec
  <1>3. Typed /\ Ordered => InOrder
    <2> SUFFICES ASSUME Typed, Ordered PROVE InOrder
      OBVIOUS
    <2>1. DOMAIN received = 1..Len(received)
      BY DEF Typed, TypeOK
    <2>2. \A i, j \in DOMAIN received : i < j => Before(received[i], received[j])
      BY <2>1 DEF Ordered, Order
    <2>3. journal => \A i \in DOMAIN received : received[i] > joined
      <3>1. journal => \A x \in Seen : x > joined
        BY DEF Seen, Typed, TypeOK
      <3> QED
        BY <2>1, <3>1 DEF Ordered
    <2> QED
      BY <2>2, <2>3 DEF InOrder
  <1> QED
    BY <1>2, <1>3, ControlInvariant, PTL

\* enqueue_bounded counts what it drops, and the handler moves the count into the warning before it
\* goes on with the item: when the envelope ends the stream, the events that were read from the
\* journal are the ones received and the ones announced as lost.
THEOREM AllAccountedFor == Spec => []EndAccountsForAll
  <1>1. Typed /\ Control /\ Account /\ Typed' /\ [Next]_vars => Account'
    BY AccountNext
  <1>2. Spec => []Account
    BY ControlInvariant, FlowInit, <1>1, PTL DEF Spec
  <1>3. Typed /\ Control /\ Account => EndAccountsForAll
    <2> SUFFICES ASSUME Typed, Control, Account, journal, pc = "ended"
                 PROVE  position - joined = Len(received) + warned
      BY DEF EndAccountsForAll
    <2>1. taken = Envelope /\ queue = <<>> /\ dropped = 0 /\ count = 0
      BY DEF Control, EnvelopeLast, Counting, Typed, TypeOK
    <2>2. Events = 0 /\ Taken = 0
      BY <2>1 DEF Events, Ended, Taken, Event
    <2> QED
      BY <2>1, <2>2, Numbers DEF Account, Lost, Typed
  <1> QED
    BY <1>2, <1>3, ControlInvariant, PTL

\* The oldest event is the one that enqueue_bounded drops, so a gap opens before the item the handler
\* takes next: by the time the client has that item, the gap is in a warning it got or in the count
\* still to be announced.
THEOREM GapsAnnounced == Spec => []GapsAreAnnounced
  <1> DEFINE Inv == Account /\ Contiguous /\ TakenAnnounced /\ GapsAreAnnounced
  <1>1. Typed /\ Control /\ Inv /\ Typed' /\ [Next]_vars => Inv'
    BY AccountNext, ContiguousNext, GapsNext
  <1>2. Init => Inv
    BY FlowInit
  <1> QED
    BY ControlInvariant, <1>1, <1>2, PTL DEF Spec

\* The handler looks at the session's end before it looks at an item: at most the event that was being
\* sent when the session ended still reaches the client.
THEOREM RevocationStops == Spec => []RevocationStopsFollowing
  <1>1. Init => LateInv
    BY DEF Init, LateInv
  <1>2. Spec => []LateInv
    BY ControlInvariant, LateNext, <1>1, PTL DEF Spec, Typed
  <1>3. LateInv => RevocationStopsFollowing
    <2>1. 0 <= 1 /\ 1 <= 1
      OBVIOUS
    <2> QED
      BY <2>1, Zenon DEF LateInv, RevocationStopsFollowing
  <1> QED
    BY <1>2, <1>3, PTL

\* The handler's finally clause: a closed connection has no producer, no child process and no
\* registration, however it came to be closed.
THEOREM ClosedReleases == Spec => [](pc = "closed" => Released)
  <1>1. Init => Owned
    BY DEF Init, Owned
  <1>2. Spec => []Owned
    BY ControlInvariant, OwnedNext, <1>1, PTL DEF Spec, Typed, Control
  <1>3. Owned => (pc = "closed" => Released)
    BY DEF Owned, Released
  <1> QED
    BY <1>2, <1>3, PTL

=============================================================================
