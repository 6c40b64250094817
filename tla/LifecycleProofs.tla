---------------------------- MODULE LifecycleProofs ----------------------------
(***************************************************************************)
(* Proofs about Lifecycle, for any number of applications and requests.     *)
(***************************************************************************)
EXTENDS Lifecycle, SequenceTheorems, TLAPS

\* Whoever is in the locked region of an application is the head of its queue
LockInv == \A r \in Requests : pc[r] \in Holding => Holds(r)

\* Whoever carries out a lifecycle action was asked to
KindInv == \A r \in Requests : pc[r] \in InAction => kind[r] \in Actions

BaseInv == TypeOK /\ LockInv /\ KindInv

-----------------------------------------------------------------------------
(* The lock                                                                 *)

\* A request that joins the queue of asyncio.Lock waiters disturbs no holder: the head
\* of the queue stays the head.
LEMMA EnqueueLemma ==
    ASSUME TypeOK, LockInv, KindInv, NEW r \in Requests, NEW a \in Apps,
           pc[r] = "idle", Enqueue(r, a),
           \A q \in Requests : q # r => app'[q] = app[q] /\ kind'[q] = kind[q]
    PROVE  /\ queue' \in [Apps -> Seq(Requests)]
           /\ pc' \in [Requests -> Points]
           /\ loop' \in Requests \cup {None}
           /\ LockInv'
           /\ KindInv'
  <1>1. queue' \in [Apps -> Seq(Requests)]
    BY AppendProperties DEF TypeOK, Enqueue
  <1>2. pc' \in [Requests -> Points]
    BY DEF TypeOK, Enqueue, Points
  <1>3. LockInv'
    <2> SUFFICES ASSUME NEW q \in Requests, pc'[q] \in Holding
                 PROVE  Holds(q)'
      BY DEF LockInv
    <2>1. q # r /\ pc[q] \in Holding /\ app'[q] = app[q]
      BY DEF TypeOK, Enqueue, Holding, InAction
    <2>2. queue[app[q]] # <<>> /\ Head(queue[app[q]]) = q
      BY <2>1 DEF LockInv, Holds
    <2>3. CASE app[q] # a
      BY <2>1, <2>2, <2>3 DEF TypeOK, Enqueue, Holds
    <2>4. CASE app[q] = a
      <3>1. queue'[a] = Append(queue[a], r) /\ queue[a] \in Seq(Requests)
        BY DEF TypeOK, Enqueue
      <3>2. queue'[a] # <<>> /\ Head(queue'[a]) = Head(queue[a])
        BY <2>2, <2>4, <3>1, AppendProperties, HeadTailAppend
      <3> QED
        BY <2>1, <2>2, <2>4, <3>2 DEF Holds
    <2> QED
      BY <2>3, <2>4
  <1> QED
    BY <1>1, <1>2, <1>3 DEF TypeOK, Enqueue, InAction, KindInv

\* Leaving the locked region hands the lock to the next waiter and to nobody else.
LEMMA ReleaseLemma ==
    ASSUME TypeOK, LockInv, KindInv, NEW r \in Requests, NEW point \in Ended,
           Holds(r), Release(r, point), UNCHANGED request
    PROVE  /\ queue' \in [Apps -> Seq(Requests)]
           /\ pc' \in [Requests -> Points]
           /\ loop' \in Requests \cup {None}
           /\ obs' \in [Requests -> Statuses \cup {None}]
           /\ LockInv'
           /\ KindInv'
  <1> USE DEF request
  <1>1. queue' \in [Apps -> Seq(Requests)]
    BY HeadTailProperties DEF TypeOK, Release, Holds
  <1>2. pc' \in [Requests -> Points]
    BY DEF TypeOK, Release, Points
  <1>3. LockInv'
    <2> SUFFICES ASSUME NEW q \in Requests, pc'[q] \in Holding
                 PROVE  Holds(q)'
      BY DEF LockInv
    <2>1. q # r /\ pc[q] \in Holding
      BY DEF TypeOK, Release, Holding, InAction, Ended
    <2>2. app[q] # app[r]
      BY <2>1 DEF LockInv, Holds
    <2> QED
      BY <2>1, <2>2 DEF TypeOK, Release, Holds, LockInv
  <1> QED
    BY <1>1, <1>2, <1>3 DEF TypeOK, Release, InAction, Ended, KindInv

\* A step of r inside its locked region
LEMMA MoveLemma ==
    ASSUME TypeOK, LockInv, KindInv, NEW r \in Requests, NEW point \in Points,
           Goto(r, point), point \in Holding => Holds(r),
           point \in InAction => kind[r] \in Actions, UNCHANGED <<request, queue>>
    PROVE  pc' \in [Requests -> Points] /\ LockInv' /\ KindInv'
  BY DEF TypeOK, LockInv, KindInv, Goto, Holds, request

-----------------------------------------------------------------------------
(* Types, and the queue discipline                                          *)

\* The registry as it is after a start of the process is well typed and unlocked.
LEMMA BaseInit == Init => BaseInv
  <1> SUFFICES ASSUME Init PROVE TypeOK /\ LockInv /\ KindInv
    BY DEF BaseInv
  <1>1. (CHOOSE a \in Apps : TRUE) \in Apps
    BY AppsAssumption
  <1>2. /\ inst \in [Apps -> Requests \cup {None, Initial}]
        /\ seenInst \in [Requests -> Requests \cup {None, Initial}]
    BY DEF Init
  <1>3. /\ status \in [Apps -> Statuses]
        /\ runtime \in [Apps -> RuntimeStates]
    BY DEF Init, Statuses, RuntimeStates
  <1>4. queue \in [Apps -> Seq(Requests)]
    BY EmptySeq DEF Init
  <1> QED
    BY <1>1, <1>2, <1>3, <1>4 DEF Init, TypeOK, LockInv, KindInv, Points, Kinds, Actions, Statuses, Holding, InAction

\* Every action of a handler, of the runtime and of a crash keeps types and queues.
LEMMA BaseStep == BaseInv /\ [Next]_vars => BaseInv'
  <1> SUFFICES ASSUME TypeOK, LockInv, KindInv, [Next]_vars PROVE TypeOK' /\ LockInv' /\ KindInv'
    BY DEF BaseInv
  <1> USE DEF database, world, sessions, request
  <1>1. ASSUME NEW r \in Requests, NEW a \in Apps, Create(r, a) PROVE TypeOK' /\ LockInv' /\ KindInv'
    <2>1. TypeOK'
      <3>1. /\ inst' \in [Apps -> Requests \cup {None, Initial}]
            /\ enabled' \in [Apps -> BOOLEAN]
            /\ status' \in [Apps -> Statuses]
        <4>1. CASE UNCHANGED <<inst, enabled, status>>
          BY <4>1 DEF TypeOK
        <4>2. ASSUME NEW on \in BOOLEAN, inst' = [inst EXCEPT ![a] = r],
                     enabled' = [enabled EXCEPT ![a] = on],
                     status' = [status EXCEPT ![a] = IF on THEN "STOPPED" ELSE "DISABLED"]
              PROVE  /\ inst' \in [Apps -> Requests \cup {None, Initial}]
                     /\ enabled' \in [Apps -> BOOLEAN]
                     /\ status' \in [Apps -> Statuses]
          <5>1. (IF on THEN "STOPPED" ELSE "DISABLED") \in Statuses
            BY DEF Statuses
          <5> QED
            BY <4>2, <5>1 DEF TypeOK
        <4> QED
          BY <1>1, <4>1, <4>2 DEF Create
      <3>2. pc' \in [Requests -> Points] /\ kind' \in [Requests -> Kinds] /\ app' \in [Requests -> Apps]
        BY <1>1 DEF Create, Goto, TypeOK, Points, Kinds, Ended
      <3> QED
        BY <1>1, <3>1, <3>2 DEF Create, TypeOK
    <2>2. \A q \in Requests : pc'[q] \in Holding =>
              pc'[q] = pc[q] /\ app'[q] = app[q] /\ kind'[q] = kind[q]
      BY <1>1 DEF Create, Goto, TypeOK, Holding, InAction
    <2> QED
      BY <1>1, <2>1, <2>2 DEF Create, LockInv, KindInv, Holds, Holding
  <1>2. ASSUME NEW r \in Requests, NEW a \in Apps, NEW k \in Kinds, Arrive(r, a, k)
        PROVE TypeOK' /\ LockInv' /\ KindInv'
    BY <1>2, EnqueueLemma DEF Arrive, TypeOK
  <1>3. ASSUME NEW r \in Requests, NEW a \in Apps, NEW k \in Kinds, ReadBeforeLock(r, a, k)
        PROVE TypeOK' /\ LockInv' /\ KindInv'
    <2>1. CASE Goto(r, "done") /\ UNCHANGED queue /\ UNCHANGED <<loop, seen, seenInst>>
      BY <1>3, <2>1 DEF ReadBeforeLock, Goto, TypeOK, LockInv, KindInv, Holds, Points, Statuses, Ended, Holding, InAction
    <2>2. CASE Enqueue(r, a) /\ SetSeen(r, status[a]) /\ seenInst' = [seenInst EXCEPT ![r] = inst[a]]
               /\ UNCHANGED status
      BY <1>3, <2>2, EnqueueLemma DEF ReadBeforeLock, SetSeen, TypeOK
    <2> QED
      BY <1>3, <2>1, <2>2 DEF ReadBeforeLock
  <1>4. ASSUME NEW r \in Requests, Update(r) PROVE TypeOK' /\ LockInv' /\ KindInv'
    BY <1>4, ReleaseLemma DEF Update, TypeOK, Ended
  <1>5. ASSUME NEW r \in Requests, Delete(r) PROVE TypeOK' /\ LockInv' /\ KindInv'
    BY <1>5, ReleaseLemma DEF Delete, TypeOK, Ended, Statuses
  <1>6. ASSUME NEW r \in Requests, AskAdapter(r) PROVE TypeOK' /\ LockInv' /\ KindInv'
    BY <1>6, MoveLemma DEF AskAdapter, Await, TypeOK, Points, Holding, InAction
  <1>7. ASSUME NEW r \in Requests, Reconcile(r) PROVE TypeOK' /\ LockInv' /\ KindInv'
    <2>0. Holds(r)
      BY <1>7 DEF Reconcile, LockInv, Holding
    <2>1. CASE Release(r, "raised") /\ UNCHANGED <<status, seen>>
      BY <1>7, <2>0, <2>1, ReleaseLemma DEF Reconcile, TypeOK, Ended
    <2>2. CASE Continue(r, "reconciled") /\ UNCHANGED queue
      <3>1. PICK s \in Observations(app[r]) : WriteStatus(r, s) /\ obs' = [obs EXCEPT ![r] = s]
        BY <1>7, <2>2 DEF Reconcile, Continue, Goto, Release, TypeOK
      <3>2. s \in Statuses
        BY DEF Observations, TypeOK, RuntimeStates, Statuses
      <3>3. status' \in [Apps -> Statuses]
        BY <3>1, <3>2 DEF WriteStatus, TypeOK
      <3>4. seen' \in [Requests -> Statuses]
        BY <1>7, <2>2, <3>3 DEF Reconcile, SetSeen, TypeOK, Release, Continue, Goto
      <3> QED
        BY <1>7, <2>0, <2>2, <3>1, <3>2, <3>3, <3>4, MoveLemma
           DEF Reconcile, Continue, TypeOK, Points, Holding, InAction
    <2> QED
      BY <1>7, <2>1, <2>2 DEF Reconcile
  <1>8. ASSUME NEW r \in Requests, Answer(r) PROVE TypeOK' /\ LockInv' /\ KindInv'
    <2>0. Holds(r)
      BY <1>8 DEF Answer, LockInv, Holding
    <2> QED
      BY <1>8, <2>0, ReleaseLemma DEF Answer, TypeOK, Ended
  <1>9. ASSUME NEW r \in Requests, Reject(r) PROVE TypeOK' /\ LockInv' /\ KindInv'
    BY <1>9, ReleaseLemma DEF Reject, TypeOK, Ended
  <1>10. ASSUME NEW r \in Requests, Accept(r) PROVE TypeOK' /\ LockInv' /\ KindInv'
    BY <1>10, MoveLemma DEF Accept, Await, Continue, SetSeen, TypeOK, Points, Holding, InAction
  <1>11. ASSUME NEW r \in Requests, PortsChecked(r) PROVE TypeOK' /\ LockInv' /\ KindInv'
    <2>0. Holds(r) /\ kind[r] \in Actions
      BY <1>11 DEF PortsChecked, LockInv, KindInv, Holding, InAction
    <2> QED
      BY <1>11, <2>0, MoveLemma, ReleaseLemma
         DEF PortsChecked, Continue, Finish, TypeOK, Points, Holding, InAction, Ended
  <1>12. ASSUME NEW r \in Requests, Transition(r) PROVE TypeOK' /\ LockInv' /\ KindInv'
    <2>0. Holds(r)
      BY <1>12 DEF Transition, LockInv, Holding, InAction
    <2>1. CASE Finish(r, "FAILED") /\ Release(r, "done") /\ UNCHANGED <<status, seen, job>>
      BY <1>12, <2>0, <2>1, ReleaseLemma DEF Transition, Finish, TypeOK, Ended
    <2>2. CASE /\ WriteStatus(r, FirstTarget(kind[r])) /\ SetSeen(r, FirstTarget(kind[r]))
               /\ UNCHANGED <<exec, queue, obs>>
               /\ MayBecome(seen[r], FirstTarget(kind[r]))
               /\ IF kind[r] = "start"
                  THEN Continue(r, "checked") /\ UNCHANGED job
                  ELSE Await(r, "op") /\ job' = [job EXCEPT ![app[r]] = kind[r]]
      <3>0. kind[r] \in Actions
        BY <1>12 DEF Transition, InAction, KindInv
      <3>1. FirstTarget(kind[r]) \in Statuses /\ job' \in [Apps -> Actions \cup {None}]
        BY <2>2, <3>0 DEF FirstTarget, Actions, Statuses, TypeOK
      <3> QED
        BY <1>12, <2>0, <2>2, <3>0, <3>1, MoveLemma
           DEF Transition, WriteStatus, SetSeen, Continue, Await, TypeOK, Points, Holding, InAction
    <2> QED
      BY <1>12, <2>1, <2>2 DEF Transition
  <1>13. ASSUME NEW r \in Requests, AnnounceStarting(r) PROVE TypeOK' /\ LockInv' /\ KindInv'
    <2>0. Holds(r) /\ kind[r] \in Actions
      BY <1>13 DEF AnnounceStarting, LockInv, KindInv, Holding, InAction
    <2> QED
      BY <1>13, <2>0, MoveLemma
         DEF AnnounceStarting, WriteStatus, SetSeen, Await, TypeOK, Points, Holding, InAction, Statuses
  <1>14. ASSUME NEW r \in Requests, OpSucceeds(r) PROVE TypeOK' /\ LockInv' /\ KindInv'
    BY <1>14, MoveLemma DEF OpSucceeds, Await, LockInv, KindInv, TypeOK, Points, Holding, InAction
  <1>15. ASSUME NEW r \in Requests, OpFails(r) PROVE TypeOK' /\ LockInv' /\ KindInv'
    BY <1>15, MoveLemma
       DEF OpFails, Continue, WriteStatus, SetSeen, LockInv, KindInv, TypeOK, Points, Holding, InAction, Statuses
  <1>16. ASSUME NEW r \in Requests, OpRaises(r) PROVE TypeOK' /\ LockInv' /\ KindInv'
    <2>0. Holds(r)
      BY <1>16 DEF OpRaises, LockInv, Holding, InAction
    <2> QED
      BY <1>16, <2>0, ReleaseLemma DEF OpRaises, TypeOK, Ended
  <1>17. ASSUME NEW r \in Requests, FinishFailed(r) PROVE TypeOK' /\ LockInv' /\ KindInv'
    <2>0. Holds(r)
      BY <1>17 DEF FinishFailed, LockInv, Holding, InAction
    <2> QED
      BY <1>17, <2>0, ReleaseLemma DEF FinishFailed, Finish, TypeOK, Ended
  <1>18. ASSUME NEW r \in Requests, Confirm(r) PROVE TypeOK' /\ LockInv' /\ KindInv'
    <2>0. Holds(r) /\ kind[r] \in Actions
      BY <1>18 DEF Confirm, LockInv, KindInv, Holding, InAction
    <2>1. PICK s \in Observations(app[r]) : WriteStatus(r, s) /\ obs' = [obs EXCEPT ![r] = s]
      BY <1>18 DEF Confirm
    <2>2. s \in Statuses
      BY DEF Observations, TypeOK, RuntimeStates, Statuses
    <2>3. status' \in [Apps -> Statuses]
      BY <2>1, <2>2 DEF WriteStatus, TypeOK
    <2>4. seen' \in [Requests -> Statuses]
      BY <1>18, <2>3 DEF Confirm, SetSeen, TypeOK
    <2> QED
      BY <1>18, <2>0, <2>1, <2>2, <2>3, <2>4, MoveLemma
         DEF Confirm, Continue, TypeOK, Points, Holding, InAction
  <1>19. ASSUME NEW r \in Requests, FinishConfirmed(r) PROVE TypeOK' /\ LockInv' /\ KindInv'
    <2>0. Holds(r)
      BY <1>19 DEF FinishConfirmed, LockInv, Holding, InAction
    <2> QED
      BY <1>19, <2>0, ReleaseLemma DEF FinishConfirmed, Finish, TypeOK, Ended
  <1>20. ASSUME NEW a \in Apps, RunJob(a) PROVE TypeOK' /\ LockInv' /\ KindInv'
    BY <1>20 DEF RunJob, JobOutcomes, TypeOK, LockInv, KindInv, Holds, RuntimeStates, Actions
  <1>21. ASSUME NEW a \in Apps, Drift(a) PROVE TypeOK' /\ LockInv' /\ KindInv'
    BY <1>21 DEF Drift, Drifts, TypeOK, LockInv, KindInv, Holds, RuntimeStates
  <1>22. CASE Crash
    BY <1>22, EmptySeq DEF Crash, TypeOK, LockInv, KindInv, Points, Ended, Holding, InAction
  <1>23. CASE UNCHANGED vars
    BY <1>23 DEF vars, TypeOK, LockInv, KindInv, Holds
  <1> QED
    BY <1>1, <1>2, <1>3, <1>4, <1>5, <1>6, <1>7, <1>8, <1>9, <1>10, <1>11, <1>12, <1>13,
       <1>14, <1>15, <1>16, <1>17, <1>18, <1>19, <1>20, <1>21, <1>22, <1>23
       DEF Next, Submit, Serve, Quiet

\* Every reachable state is well typed, the request in a locked region heads the
\* queue of its lock, and only lifecycle requests carry out lifecycle actions.
THEOREM Base == Spec => []BaseInv
  BY BaseInit, BaseStep, PTL DEF Spec

\* TypeOK holds for every set of applications and requests.
THEOREM Typing == Spec => []TypeOK
  BY Base, PTL DEF BaseInv

\* The locks of ApplicationLockRegistry exclude: two requests are never both in
\* the locked region of one application.
THEOREM MutualExclusion == Spec => []OneHolderPerApplication
  <1>1. BaseInv => OneHolderPerApplication
    BY DEF BaseInv, LockInv, OneHolderPerApplication, Holds
  <1> QED
    BY <1>1, Base, PTL

-----------------------------------------------------------------------------
(* Nobody is stranded at a lock                                             *)

\* r has arrived and is not over
Open(r) == pc[r] \notin Ended \cup {"idle"}

\* The line at the lock of a is of open requests about a, each once
LineInv ==
    \A a \in Apps :
        /\ \A i \in 1..Len(queue[a]) : app[queue[a][i]] = a /\ Open(queue[a][i])
        /\ \A i, j \in 1..Len(queue[a]) : queue[a][i] = queue[a][j] => i = j

\* Every open request stands in the line of its application, and the event loop runs none but
\* the head of a line
PlaceInv ==
    /\ \A r \in Requests : Open(r) => \E i \in 1..Len(queue[app[r]]) : queue[app[r]][i] = r
    /\ loop # None => Open(loop) /\ Holds(loop)

\* A request that is not over never waits for one that is: the lock it waits for is held by an
\* open request about the same application, and whoever occupies the event loop holds its lock.
NobodyStranded ==
    /\ \A r \in Requests : Open(r) =>
          /\ queue[app[r]] # <<>>
          /\ Head(queue[app[r]]) \in Requests
          /\ Open(Head(queue[app[r]])) /\ app[Head(queue[app[r]])] = app[r]
    /\ loop # None => Open(loop) /\ Holds(loop)

\* A request joins the end of its line
LEMMA JoinLine ==
    ASSUME TypeOK, LineInv, PlaceInv, NEW r \in Requests, NEW a \in Apps, pc[r] = "idle",
           loop = None, Enqueue(r, a), app' = [app EXCEPT ![r] = a]
    PROVE  LineInv' /\ PlaceInv'
  <1> DEFINE s == queue[a]  t == Append(s, r)
  <1>1. s \in Seq(Requests) /\ Len(s) \in Nat
    BY DEF TypeOK
  <1>2. /\ queue'[a] = t
        /\ \A b \in Apps \ {a} : queue'[b] = queue[b]
        /\ \A q \in Requests \ {r} : pc'[q] = pc[q] /\ app'[q] = app[q] /\ app[q] \in Apps
        /\ app'[r] = a /\ pc'[r] = "queued"
    BY DEF TypeOK, Enqueue
  <1>3. /\ t \in Seq(Requests) /\ t # <<>> /\ Len(t) = Len(s) + 1
        /\ \A i \in 1..Len(s) : t[i] = s[i]
        /\ t[Len(s) + 1] = r
    BY <1>1, AppendProperties
  <1>4. \A i \in 1..Len(t) : i \in 1..Len(s) \/ i = Len(s) + 1
    BY <1>1, <1>3
  <1>5. \A i \in 1..Len(s) : i \in 1..Len(t)
    BY <1>1, <1>3
  <1>6. Len(s) + 1 \in 1..Len(t)
    BY <1>1, <1>3
  <1>7. \A b \in Apps : \A i \in 1..Len(queue[b]) :
            queue[b][i] \in Requests \ {r} /\ Open(queue[b][i]) /\ app[queue[b][i]] = b
    <2> SUFFICES ASSUME NEW b \in Apps, NEW i \in 1..Len(queue[b])
                 PROVE  queue[b][i] \in Requests \ {r} /\ Open(queue[b][i]) /\ app[queue[b][i]] = b
      OBVIOUS
    <2>1. queue[b][i] \in Requests
      BY ElementOfSeq DEF TypeOK
    <2>2. Open(queue[b][i]) /\ app[queue[b][i]] = b
      BY DEF LineInv
    <2>3. ~Open(r)
      BY DEF Open
    <2> QED
      BY <2>1, <2>2, <2>3
  <1>8. \A q \in Requests \ {r} : Open(q)' <=> Open(q)
    BY <1>2 DEF Open
  <1>9. Open(r)'
    BY <1>2 DEF Open, Ended
  <1>10. LineInv'
    <2> SUFFICES ASSUME NEW b \in Apps
                 PROVE  /\ \A i \in 1..Len(queue'[b]) : app'[queue'[b][i]] = b /\ Open(queue[b][i])'
                        /\ \A i, j \in 1..Len(queue'[b]) : queue'[b][i] = queue'[b][j] => i = j
      BY DEF LineInv
    <2>1. CASE b # a
      BY <1>2, <1>7, <2>1 DEF LineInv, Open
    <2>2. CASE b = a
      <3>1. \A i \in 1..Len(t) : app'[t[i]] = a /\ pc'[t[i]] \notin Ended \cup {"idle"}
        <4> SUFFICES ASSUME NEW i \in 1..Len(t)
                     PROVE  app'[t[i]] = a /\ pc'[t[i]] \notin Ended \cup {"idle"}
          OBVIOUS
        <4> HIDE DEF t
        <4>1. CASE i \in 1..Len(s)
          BY <1>2, <1>3, <1>7, <4>1 DEF Open
        <4>2. CASE i = Len(s) + 1
          BY <1>2, <1>3, <1>9, <4>2 DEF Open
        <4> QED
          BY <1>4, <4>1, <4>2
      <3>2. \A i, j \in 1..Len(t) : t[i] = t[j] => i = j
        <4> SUFFICES ASSUME NEW i \in 1..Len(t), NEW j \in 1..Len(t), t[i] = t[j] PROVE i = j
          OBVIOUS
        <4>1. \A k \in 1..Len(s) : s[k] # r
          BY <1>7
        <4>2. \A k, l \in 1..Len(s) : s[k] = s[l] => k = l
          BY DEF LineInv
        <4> HIDE DEF t, s
        <4> QED
          BY <1>3, <1>4, <4>1, <4>2
      <3> HIDE DEF t
      <3> QED
        BY <1>2, <2>2, <3>1, <3>2 DEF Open
    <2> QED
      BY <2>1, <2>2
  <1>11. \A q \in Requests : Open(q)' => \E i \in 1..Len(queue'[app'[q]]) : queue'[app'[q]][i] = q
    <2> SUFFICES ASSUME NEW q \in Requests, Open(q)'
                 PROVE  \E i \in 1..Len(queue'[app'[q]]) : queue'[app'[q]][i] = q
      OBVIOUS
    <2> HIDE DEF t
    <2>1. CASE q = r
      BY <1>2, <1>3, <1>6, <2>1
    <2>2. CASE q # r
      <3>1. PICK i \in 1..Len(queue[app[q]]) : queue[app[q]][i] = q
        BY <1>8, <2>2 DEF PlaceInv
      <3>2. app'[q] = app[q] /\ app[q] \in Apps
        BY <1>2, <2>2
      <3>3. CASE app[q] # a
        BY <1>2, <3>1, <3>2, <3>3
      <3>4. CASE app[q] = a
        BY <1>2, <1>3, <1>5, <3>1, <3>2, <3>4
      <3> QED
        BY <3>3, <3>4
    <2> QED
      BY <2>1, <2>2
  <1>12. loop' # None => Open(loop)' /\ Holds(loop)'
    <2> SUFFICES ASSUME loop' # None PROVE Open(loop)' /\ Holds(loop)'
      OBVIOUS
    <2>1. s = <<>> /\ loop' = r
      BY DEF Enqueue
    <2>2. t = <<r>>
      BY <2>1
    <2> HIDE DEF t
    <2>3. queue'[app'[r]] # <<>> /\ Head(queue'[app'[r]]) = r
      BY <1>2, <2>2
    <2> QED
      BY <1>9, <2>1, <2>3 DEF Holds, Open
  <1> QED
    BY <1>10, <1>11, <1>12 DEF PlaceInv

\* The head of a line leaves it when it is over
LEMMA LeaveLine ==
    ASSUME TypeOK, LineInv, PlaceInv, NEW r \in Requests, NEW point \in Ended, Holds(r),
           Release(r, point), app' = app
    PROVE  LineInv' /\ PlaceInv'
  <1> DEFINE a == app[r]  s == queue[a]  t == Tail(s)
  <1>1. a \in Apps /\ s \in Seq(Requests) /\ Len(s) \in Nat /\ s # <<>> /\ Head(s) = r
    BY DEF TypeOK, Holds
  <1>2. /\ queue'[a] = t
        /\ \A b \in Apps \ {a} : queue'[b] = queue[b]
        /\ \A q \in Requests \ {r} : pc'[q] = pc[q]
        /\ pc'[r] = point /\ loop' = None
        /\ \A q \in Requests : app'[q] = app[q] /\ app[q] \in Apps
    BY DEF TypeOK, Release
  <1>3. s[1] = r /\ 1 \in 1..Len(s)
    BY <1>1
  <1>4. /\ t \in Seq(Requests) /\ Len(t) = Len(s) - 1
        /\ \A i \in 1..Len(t) : t[i] = s[i + 1]
    BY <1>1, HeadTailProperties
  <1>5. \A i, j \in 1..Len(s) : s[i] = s[j] => i = j
    BY <1>1 DEF LineInv
  <1>6. \A q \in Requests \ {r} : Open(q)' <=> Open(q)
    BY <1>2 DEF Open
  <1>7. ~Open(r)'
    BY <1>2 DEF Open
  <1>8. \A b \in Apps : \A i \in 1..Len(queue[b]) :
            queue[b][i] \in Requests /\ Open(queue[b][i]) /\ app[queue[b][i]] = b
    BY ElementOfSeq DEF LineInv, TypeOK
  <1> HIDE DEF t, s, a
  <1>9. \A i \in 1..Len(t) : i + 1 \in 1..Len(s) /\ i + 1 # 1
    BY <1>1, <1>4
  <1>10. \A i \in 2..Len(s) : i - 1 \in 1..Len(t) /\ t[i - 1] = s[i]
    BY <1>1, <1>4
  <1>11. \A i \in 1..Len(t) : t[i] \in Requests \ {r} /\ Open(t[i]) /\ app[t[i]] = a
    BY <1>1, <1>3, <1>4, <1>5, <1>8, <1>9 DEF s
  <1>12. LineInv'
    <2> SUFFICES ASSUME NEW b \in Apps
                 PROVE  /\ \A i \in 1..Len(queue'[b]) : app'[queue'[b][i]] = b /\ Open(queue[b][i])'
                        /\ \A i, j \in 1..Len(queue'[b]) : queue'[b][i] = queue'[b][j] => i = j
      BY DEF LineInv
    <2>1. CASE b # a
      <3>1. \A i \in 1..Len(queue[b]) : queue[b][i] \in Requests \ {r}
        BY <1>8, <2>1 DEF a
      <3> QED
        BY <1>2, <1>8, <2>1, <3>1 DEF LineInv, Open
    <2>2. CASE b = a
      <3>1. \A i \in 1..Len(t) : app'[t[i]] = a /\ pc'[t[i]] \notin Ended \cup {"idle"}
        BY <1>2, <1>11 DEF Open
      <3>2. \A i, j \in 1..Len(t) : t[i] = t[j] => i = j
        <4> SUFFICES ASSUME NEW i \in 1..Len(t), NEW j \in 1..Len(t), t[i] = t[j] PROVE i = j
          OBVIOUS
        <4>1. i + 1 = j + 1
          BY <1>4, <1>5, <1>9
        <4> QED
          BY <4>1
      <3> QED
        BY <1>2, <2>2, <3>1, <3>2 DEF Open
    <2> QED
      BY <2>1, <2>2
  <1>13. \A q \in Requests : Open(q)' => \E i \in 1..Len(queue'[app'[q]]) : queue'[app'[q]][i] = q
    <2> SUFFICES ASSUME NEW q \in Requests, Open(q)'
                 PROVE  \E i \in 1..Len(queue'[app'[q]]) : queue'[app'[q]][i] = q
      OBVIOUS
    <2>1. q # r /\ Open(q)
      BY <1>6, <1>7
    <2>2. PICK i \in 1..Len(queue[app[q]]) : queue[app[q]][i] = q
      BY <2>1 DEF PlaceInv
    <2>3. CASE app[q] # a
      BY <1>2, <2>2, <2>3
    <2>4. CASE app[q] = a
      <3>1. i \in 1..Len(s) /\ s[i] = q /\ i # 1
        BY <1>3, <2>1, <2>2, <2>4 DEF s
      <3>2. i \in 2..Len(s)
        BY <1>1, <3>1
      <3>3. i - 1 \in 1..Len(t) /\ t[i - 1] = q
        BY <1>10, <3>1, <3>2
      <3> QED
        BY <1>2, <2>4, <3>3
    <2> QED
      BY <2>3, <2>4
  <1> QED
    BY <1>2, <1>12, <1>13 DEF PlaceInv

\* A step of r inside its locked region
LEMMA StayInLine ==
    ASSUME TypeOK, LineInv, PlaceInv, NEW r \in Requests, NEW point, point \notin Ended \cup {"idle"},
           Goto(r, point), Open(r), loop' = None \/ (loop' = r /\ Holds(r)),
           app' = app, queue' = queue
    PROVE  LineInv' /\ PlaceInv'
  <1>1. \A q \in Requests : Open(q)' <=> Open(q)
    BY DEF Goto, Open, TypeOK
  <1>2. \A b \in Apps : \A i \in 1..Len(queue[b]) : queue[b][i] \in Requests
    BY ElementOfSeq DEF TypeOK
  <1>3. LineInv'
    BY <1>1, <1>2 DEF LineInv, Open
  <1>4. loop' # None => Open(loop)' /\ Holds(loop)'
    BY <1>1 DEF Holds, Open
  <1> QED
    BY <1>1, <1>3, <1>4 DEF PlaceInv

\* A request that is answered before it asks for a lock
LEMMA NeverInLine ==
    ASSUME TypeOK, LineInv, PlaceInv, NEW r \in Requests, NEW a \in Apps, pc[r] = "idle", loop = None,
           Goto(r, "done"), app' = [app EXCEPT ![r] = a], queue' = queue, loop' = loop
    PROVE  LineInv' /\ PlaceInv'
  <1>1. ~Open(r) /\ ~Open(r)'
    BY DEF Open, Ended, Goto, TypeOK
  <1>2. \A q \in Requests \ {r} : (Open(q)' <=> Open(q)) /\ app'[q] = app[q]
    BY DEF Goto, Open, TypeOK
  <1>3. \A b \in Apps : \A i \in 1..Len(queue[b]) : queue[b][i] \in Requests \ {r}
    BY <1>1, ElementOfSeq DEF TypeOK, LineInv
  <1>4. LineInv'
    BY <1>2, <1>3 DEF LineInv, Open
  <1> QED
    BY <1>1, <1>2, <1>4 DEF PlaceInv

\* Every path through a handler, its exceptions included, leaves the line when it ends.
LEMMA LineStep == BaseInv /\ LineInv /\ PlaceInv /\ [Next]_vars => LineInv' /\ PlaceInv'
  <1> SUFFICES ASSUME BaseInv, LineInv, PlaceInv, [Next]_vars PROVE LineInv' /\ PlaceInv'
    OBVIOUS
  <1> USE DEF database, world, sessions, request
  <1>0. TypeOK /\ LockInv /\ KindInv
    BY DEF BaseInv
  <1>h. \A r \in Requests : pc[r] \in Holding => Holds(r) /\ Open(r)
    BY <1>0 DEF LockInv, Open, Holding, InAction, Ended
  <1>1. ASSUME NEW r \in Requests, NEW a \in Apps, Create(r, a) PROVE LineInv' /\ PlaceInv'
    BY <1>0, <1>1, NeverInLine DEF Create
  <1>2. ASSUME NEW r \in Requests, NEW a \in Apps, NEW k \in Kinds, Arrive(r, a, k)
        PROVE  LineInv' /\ PlaceInv'
    BY <1>0, <1>2, JoinLine DEF Arrive
  <1>3. ASSUME NEW r \in Requests, NEW a \in Apps, NEW k \in Kinds, ReadBeforeLock(r, a, k)
        PROVE  LineInv' /\ PlaceInv'
    BY <1>0, <1>3, NeverInLine, JoinLine DEF ReadBeforeLock
  <1>4. ASSUME NEW r \in Requests, Update(r) \/ Delete(r) \/ Reject(r) PROVE LineInv' /\ PlaceInv'
    BY <1>0, <1>4, LeaveLine DEF Update, Delete, Reject, Ended
  <1>5. ASSUME NEW r \in Requests, AskAdapter(r) \/ Accept(r) PROVE LineInv' /\ PlaceInv'
    <2>1. Open(r) /\ Holds(r) /\ app' = app /\ queue' = queue
      BY <1>5 DEF AskAdapter, Accept, Open, Ended
    <2>2. \E point \in {"observe", "transition", "ports"} :
             Goto(r, point) /\ loop' \in {None, r}
      BY <1>5 DEF AskAdapter, Accept, Await, Continue
    <2> QED
      BY <1>0, <2>1, <2>2, StayInLine DEF Ended
  <1>6. ASSUME NEW r \in Requests, Reconcile(r) \/ PortsChecked(r) \/ Transition(r)
        PROVE  LineInv' /\ PlaceInv'
    <2>1. Open(r) /\ Holds(r) /\ app' = app
      BY <1>6, <1>h DEF Reconcile, PortsChecked, Transition, Holding, InAction
    <2>2. \/ \E point \in Ended : Release(r, point)
          \/ /\ \E point \in {"reconciled", "transition", "checked", "op"} :
                   Goto(r, point) /\ loop' \in {None, r}
             /\ queue' = queue
      BY <1>6 DEF Reconcile, PortsChecked, Transition, Await, Continue, Ended
    <2> QED
      BY <1>0, <2>1, <2>2, StayInLine, LeaveLine DEF Ended
  <1>7. ASSUME NEW r \in Requests, AnnounceStarting(r) \/ OpSucceeds(r) \/ OpFails(r) \/ Confirm(r)
        PROVE  LineInv' /\ PlaceInv'
    <2>1. Open(r) /\ Holds(r) /\ app' = app /\ queue' = queue
      BY <1>7, <1>h DEF AnnounceStarting, OpSucceeds, OpFails, Confirm, Holding, InAction
    <2>2. \E point \in {"op", "confirm", "failed", "applied"} :
             Goto(r, point) /\ loop' \in {None, r}
      BY <1>7 DEF AnnounceStarting, OpSucceeds, OpFails, Confirm, Await, Continue
    <2> QED
      BY <1>0, <2>1, <2>2, StayInLine DEF Ended
  <1>8. ASSUME NEW r \in Requests, Answer(r) \/ OpRaises(r) \/ FinishFailed(r) \/ FinishConfirmed(r)
        PROVE  LineInv' /\ PlaceInv'
    <2>1. Holds(r) /\ app' = app
      BY <1>8, <1>h DEF Answer, OpRaises, FinishFailed, FinishConfirmed, Holding, InAction
    <2>2. \E point \in Ended : Release(r, point)
      BY <1>8 DEF Answer, OpRaises, FinishFailed, FinishConfirmed, Ended
    <2> QED
      BY <1>0, <2>1, <2>2, LeaveLine
  <1>9. CASE \/ \E a \in Apps : RunJob(a) \/ Drift(a)
             \/ UNCHANGED vars
    <2>1. queue' = queue /\ pc' = pc /\ loop' = loop /\ app' = app
      BY <1>9 DEF RunJob, Drift, vars
    <2> QED
      BY <2>1 DEF LineInv, PlaceInv, Open, Holds
  <1>10. CASE Crash
    <2>1. \A a \in Apps : Len(queue'[a]) = 0
      BY <1>10 DEF Crash
    <2>2. loop' = None /\ \A r \in Requests : ~Open(r)'
      BY <1>10 DEF Crash, Open, Ended
    <2>3. 1..0 = {}
      OBVIOUS
    <2> QED
      BY <2>1, <2>2, <2>3 DEF LineInv, PlaceInv
  <1> QED
    BY <1>1, <1>2, <1>3, <1>4, <1>5, <1>6, <1>7, <1>8, <1>9, <1>10 DEF Next, Submit, Serve, Quiet

\* ApplicationLockRegistry and every handler that uses it: no path, through an error, an exception
\* that nothing catches or a crash, leaves a lock to a request that is over.  It is the safety half
\* of EveryRequestEnds, for any number of requests and applications.
THEOREM NoLockIsLeft == Spec => []NobodyStranded
  <1>1. Init => LineInv /\ PlaceInv
    <2> SUFFICES ASSUME Init PROVE LineInv /\ PlaceInv
      OBVIOUS
    <2>1. \A a \in Apps : Len(queue[a]) = 0
      BY DEF Init
    <2>2. loop = None /\ \A r \in Requests : ~Open(r)
      BY DEF Init, Open
    <2>3. 1..0 = {}
      OBVIOUS
    <2> QED
      BY <2>1, <2>2, <2>3 DEF LineInv, PlaceInv
  <1>2. Spec => [](BaseInv /\ LineInv /\ PlaceInv)
    BY <1>1, Base, LineStep, PTL DEF Spec
  <1>3. BaseInv /\ LineInv /\ PlaceInv => NobodyStranded
    <2> SUFFICES ASSUME TypeOK, LineInv, PlaceInv, NEW r \in Requests, Open(r)
                 PROVE  /\ queue[app[r]] # <<>>
                        /\ Head(queue[app[r]]) \in Requests
                        /\ Open(Head(queue[app[r]])) /\ app[Head(queue[app[r]])] = app[r]
      BY DEF BaseInv, PlaceInv, NobodyStranded
    <2> DEFINE a == app[r]  s == queue[a]
    <2>1. a \in Apps /\ s \in Seq(Requests)
      BY DEF TypeOK
    <2>2. PICK i \in 1..Len(s) : s[i] = r
      BY DEF PlaceInv
    <2> HIDE DEF s
    <2>3. s # <<>> /\ 1 \in 1..Len(s) /\ Head(s) = s[1]
      BY <2>1, <2>2
    <2>4. s[1] \in Requests
      BY <2>1, <2>3, ElementOfSeq
    <2>5. app[s[1]] = a /\ Open(s[1])
      BY <2>1, <2>3 DEF LineInv, s
    <2> QED
      BY <2>3, <2>4, <2>5 DEF s
  <1> QED
    BY <1>2, <1>3, PTL

\* How far r still has to go through its handler
Rank(p) ==
    IF p = "queued" THEN 7
    ELSE IF p \in {"ports", "observe"} THEN 6
    ELSE IF p \in {"transition", "reconciled"} THEN 5
    ELSE IF p = "checked" THEN 4
    ELSE IF p = "op" THEN 3
    ELSE IF p \in {"confirm", "failed"} THEN 2
    ELSE 1

\* An open request moves only forward: through its handler, and in the line of its application,
\* where nobody overtakes it
OnlyForward ==
    [][\A r \in Requests : Open(r) /\ Open(r)' =>
          /\ app'[r] = app[r]
          /\ pc'[r] = pc[r] \/ Rank(pc'[r]) < Rank(pc[r])
          /\ \A i \in 1..Len(queue[app[r]]) : queue[app[r]][i] = r =>
                \/ i \in 1..Len(queue'[app[r]]) /\ queue'[app[r]][i] = r
                \/ i - 1 \in 1..Len(queue'[app[r]]) /\ queue'[app[r]][i - 1] = r]_vars

\* What a step does to a handler
LEMMA HandlerForward ==
    ASSUME BaseInv, [Next]_vars, NEW r \in Requests, Open(r), Open(r)'
    PROVE  app'[r] = app[r] /\ (pc'[r] = pc[r] \/ Rank(pc'[r]) < Rank(pc[r]))
  <1> DEFINE Fwd == app'[r] = app[r] /\ (pc'[r] = pc[r] \/ Rank(pc'[r]) < Rank(pc[r]))
  <1> USE DEF database, world, sessions, request
  <1>0. TypeOK
    BY DEF BaseInv
  <1>1. ASSUME NEW q \in Requests, Submit(q) PROVE Fwd
    <2>1. q # r
      BY <1>1 DEF Submit, Create, Arrive, ReadBeforeLock, Open
    <2> QED
      BY <1>0, <1>1, <2>1 DEF Submit, Create, Arrive, ReadBeforeLock, Enqueue, Goto, TypeOK
  <1>2. ASSUME NEW q \in Requests, q # r, Serve(q) PROVE Fwd
    BY <1>0, <1>2 DEF Serve, Update, Delete, AskAdapter, Reconcile, Answer, Reject, Accept,
       PortsChecked, Transition, AnnounceStarting, OpSucceeds, OpFails, OpRaises, FinishFailed,
       Confirm, FinishConfirmed, Release, Await, Continue, Goto, TypeOK
  <1>3. CASE Update(r) \/ Delete(r) \/ Reject(r) \/ Answer(r) \/ OpRaises(r) \/ FinishFailed(r)
             \/ FinishConfirmed(r)
    <2>1. ~Open(r)'
      BY <1>0, <1>3 DEF Update, Delete, Reject, Answer, OpRaises, FinishFailed, FinishConfirmed,
         Release, Open, Ended, TypeOK
    <2> QED
      BY <2>1
  <1>4. CASE AskAdapter(r) \/ Accept(r)
    BY <1>0, <1>4 DEF AskAdapter, Accept, Await, Continue, Goto, TypeOK, Rank
  <1>5. CASE Reconcile(r) \/ PortsChecked(r)
    <2>1. app'[r] = app[r] /\ pc[r] \in {"observe", "ports"}
      BY <1>5 DEF Reconcile, PortsChecked
    <2>2. pc'[r] \in {"reconciled", "transition"}
      BY <1>0, <1>5 DEF Reconcile, PortsChecked, Release, Continue, Goto, Open, Ended, TypeOK
    <2> QED
      BY <2>1, <2>2 DEF Rank
  <1>6. CASE Transition(r)
    <2>1. app'[r] = app[r] /\ pc[r] = "transition"
      BY <1>6 DEF Transition
    <2>2. pc'[r] \in {"checked", "op"}
      BY <1>0, <1>6 DEF Transition, Release, Continue, Await, Goto, Open, Ended, TypeOK
    <2> QED
      BY <2>1, <2>2 DEF Rank
  <1>7. CASE AnnounceStarting(r) \/ OpSucceeds(r) \/ OpFails(r) \/ Confirm(r)
    BY <1>0, <1>7 DEF AnnounceStarting, OpSucceeds, OpFails, Confirm, Await, Continue, Goto,
       TypeOK, Rank
  <1>8. CASE (\E a \in Apps : RunJob(a) \/ Drift(a)) \/ UNCHANGED vars
    BY <1>8 DEF RunJob, Drift, vars
  <1>9. CASE Crash
    BY <1>9 DEF Crash, Open, Ended
  <1> QED
    BY <1>1, <1>2, <1>3, <1>4, <1>5, <1>6, <1>7, <1>8, <1>9 DEF Next, Serve, Quiet

\* What a step does to a line: one joins at the end, or the head is over
LEMMA LineForward ==
    ASSUME BaseInv, [Next]_vars, ~Crash, NEW a \in Apps
    PROVE  \/ queue'[a] = queue[a]
           \/ \E q \in Requests : queue'[a] = Append(queue[a], q)
           \/ /\ queue[a] # <<>> /\ queue'[a] = Tail(queue[a])
              /\ pc'[Head(queue[a])] \in Ended
  <1> DEFINE Fwd == \/ queue'[a] = queue[a]
                    \/ \E q \in Requests : queue'[a] = Append(queue[a], q)
                    \/ /\ queue[a] # <<>> /\ queue'[a] = Tail(queue[a])
                       /\ pc'[Head(queue[a])] \in Ended
  <1> USE DEF database, world, sessions, request
  <1>0. TypeOK /\ LockInv
    BY DEF BaseInv
  <1>1. ASSUME NEW q \in Requests, NEW b \in Apps, Enqueue(q, b) PROVE Fwd
    BY <1>0, <1>1 DEF Enqueue, TypeOK
  <1>2. ASSUME NEW q \in Requests, NEW point \in Ended, Holds(q), Release(q, point) PROVE Fwd
    BY <1>0, <1>2 DEF Release, Holds, TypeOK
  <1>3. CASE queue' = queue
    BY <1>3
  <1>4. ASSUME NEW q \in Requests, Submit(q) PROVE Fwd
    <2>1. queue' = queue \/ \E b \in Apps : Enqueue(q, b)
      BY <1>4 DEF Submit, Create, Arrive, ReadBeforeLock
    <2> QED
      BY <1>1, <1>3, <2>1
  <1>5. ASSUME NEW q \in Requests, Serve(q) PROVE Fwd
    <2>1. Holds(q)
      BY <1>0, <1>5 DEF Serve, Update, Delete, AskAdapter, Reconcile, Answer, Reject, Accept,
         PortsChecked, Transition, AnnounceStarting, OpSucceeds, OpFails, OpRaises, FinishFailed,
         Confirm, FinishConfirmed, LockInv, Holding, InAction
    <2>2. queue' = queue \/ \E point \in Ended : Release(q, point)
      BY <1>5 DEF Serve, Update, Delete, AskAdapter, Reconcile, Answer, Reject, Accept,
         PortsChecked, Transition, AnnounceStarting, OpSucceeds, OpFails, OpRaises, FinishFailed,
         Confirm, FinishConfirmed, Ended
    <2> QED
      BY <1>2, <1>3, <2>1, <2>2
  <1>6. CASE (\E b \in Apps : RunJob(b) \/ Drift(b)) \/ UNCHANGED vars
    BY <1>3, <1>6 DEF RunJob, Drift, vars
  <1> QED
    BY <1>4, <1>5, <1>6 DEF Next, Quiet

\* LifecycleService and asyncio.Lock: no handler goes back to an earlier point, and no request is
\* overtaken at a lock.  With NoLockIsLeft it says why every request ends once the event loop is
\* fair: each step of a head brings it nearer to its end, each end brings the others nearer to
\* the head.
THEOREM Forward == Spec => OnlyForward
  <1>1. ASSUME BaseInv, [Next]_vars
        PROVE  \A r \in Requests : Open(r) /\ Open(r)' =>
          /\ app'[r] = app[r]
          /\ pc'[r] = pc[r] \/ Rank(pc'[r]) < Rank(pc[r])
          /\ \A i \in 1..Len(queue[app[r]]) : queue[app[r]][i] = r =>
                \/ i \in 1..Len(queue'[app[r]]) /\ queue'[app[r]][i] = r
                \/ i - 1 \in 1..Len(queue'[app[r]]) /\ queue'[app[r]][i - 1] = r
    <2> SUFFICES ASSUME NEW r \in Requests, Open(r), Open(r)',
                        NEW i \in 1..Len(queue[app[r]]), queue[app[r]][i] = r
                 PROVE  \/ i \in 1..Len(queue'[app[r]]) /\ queue'[app[r]][i] = r
                        \/ i - 1 \in 1..Len(queue'[app[r]]) /\ queue'[app[r]][i - 1] = r
      BY <1>1, HandlerForward
    <2> DEFINE a == app[r]  s == queue[a]  t == queue'[a]
    <2>1. a \in Apps /\ s \in Seq(Requests) /\ Len(s) \in Nat
      BY <1>1 DEF BaseInv, TypeOK
    <2>2. ~Crash
      BY <1>1 DEF Crash, Open, Ended
    <2>3. \/ t = s
          \/ \E q \in Requests : t = Append(s, q)
          \/ s # <<>> /\ t = Tail(s) /\ pc'[Head(s)] \in Ended
      BY <1>1, <2>1, <2>2, LineForward
    <2>4. i \in 1..Len(s) /\ s[i] = r /\ pc'[r] \notin Ended
      BY DEF Open
    <2> HIDE DEF a, s, t
    <2>5. CASE t = s
      BY <2>4, <2>5 DEF s, t, a
    <2>6. ASSUME NEW q \in Requests, t = Append(s, q)
          PROVE  i \in 1..Len(t) /\ t[i] = r
      <3>1. Len(t) = Len(s) + 1 /\ \A j \in 1..Len(s) : t[j] = s[j]
        BY <2>1, <2>6, AppendProperties
      <3> QED
        BY <2>1, <2>4, <3>1
    <2>7. CASE s # <<>> /\ t = Tail(s) /\ pc'[Head(s)] \in Ended
      <3>1. Len(t) = Len(s) - 1 /\ \A j \in 1..Len(t) : t[j] = s[j + 1]
        BY <2>1, <2>7, HeadTailProperties
      <3>2. Head(s) = s[1]
        BY <2>1, <2>7
      <3>3. i # 1
        BY <2>4, <2>7, <3>2
      <3>4. i - 1 \in 1..Len(t) /\ i - 1 + 1 = i
        BY <2>1, <2>4, <3>1, <3>3
      <3>5. t[i - 1] = r
        BY <2>4, <3>1, <3>4
      <3> QED
        BY <3>4, <3>5 DEF t, a
    <2> QED
      BY <2>3, <2>5, <2>6, <2>7 DEF t, a
  <1> QED
    BY <1>1, Base, PTL DEF Spec, OnlyForward

-----------------------------------------------------------------------------
(* An action works on the current row                                       *)

\* Whoever carries out an action on another application than r's is elsewhere
LEMMA Elsewhere ==
    ASSUME BaseInv, NEW r \in Requests, NEW q \in Requests, q # r,
           Holds(r), pc[q] \in InAction
    PROVE  app[q] # app[r]
  BY DEF BaseInv, LockInv, Holding, Holds

\* At the start no action works on a row.
LEMMA RowInit == Init => ActionRowCurrent
  BY DEF Init, ActionRowCurrent, InAction

\* Update, delete, create and the other handlers cannot change the rows of an action
\* that is under way, since each of them holds the lock when it writes, except a status
\* request that finds the application disabled, which an action excludes.
LEMMA RowStep == BaseInv /\ ActionRowCurrent /\ [Next]_vars => ActionRowCurrent'
  <1> SUFFICES ASSUME BaseInv, ActionRowCurrent, [Next]_vars,
                      NEW q \in Requests, pc'[q] \in InAction
               PROVE  /\ inst'[app'[q]] # None
                      /\ inst'[app'[q]] = seenInst'[q]
                      /\ enabled'[app'[q]]
                      /\ status'[app'[q]] = seen'[q]
    BY DEF ActionRowCurrent
  <1> DEFINE Current == /\ inst'[app'[q]] # None
                        /\ inst'[app'[q]] = seenInst'[q]
                        /\ enabled'[app'[q]]
                        /\ status'[app'[q]] = seen'[q]
  <1> USE DEF database, world, sessions, request
  <1>0. TypeOK /\ LockInv /\ KindInv
    BY DEF BaseInv
  \* Rows only change in ways that a request elsewhere does not notice
  <1>e. ASSUME NEW r \in Requests, q # r, pc'[q] = pc[q], Holds(r), UNCHANGED request,
               seen'[q] = seen[q], seenInst'[q] = seenInst[q],
               \A b \in Apps : b # app[r] => /\ inst'[b] = inst[b]
                                           /\ enabled'[b] = enabled[b]
                                           /\ status'[b] = status[b]
        PROVE  Current
    BY <1>0, <1>e, Elsewhere DEF ActionRowCurrent, TypeOK
  <1>1. ASSUME NEW r \in Requests, NEW a \in Apps, Create(r, a) PROVE Current
    <2>1. q # r /\ pc[q] \in InAction /\ app'[q] = app[q]
      BY <1>0, <1>1 DEF Create, Goto, TypeOK, InAction
    <2>2. inst[app[q]] # None /\ app[q] \in Apps
      BY <1>0, <2>1 DEF ActionRowCurrent, TypeOK
    <2>3. /\ inst'[app[q]] = inst[app[q]]
          /\ enabled'[app[q]] = enabled[app[q]]
          /\ status'[app[q]] = status[app[q]]
      BY <1>0, <1>1, <2>2 DEF Create, TypeOK
    <2> QED
      BY <1>1, <2>1, <2>3 DEF Create, ActionRowCurrent
  <1>2. ASSUME NEW r \in Requests, NEW a \in Apps, NEW k \in Kinds, Arrive(r, a, k) PROVE Current
    <2>1. q # r /\ pc[q] \in InAction /\ app'[q] = app[q]
      BY <1>0, <1>2 DEF Arrive, Enqueue, TypeOK, InAction
    <2> QED
      BY <1>2, <2>1 DEF Arrive, ActionRowCurrent
  <1>3. ASSUME NEW r \in Requests, NEW a \in Apps, NEW k \in Kinds, ReadBeforeLock(r, a, k)
        PROVE Current
    <2>1. q # r /\ pc[q] \in InAction /\ app'[q] = app[q]
      BY <1>0, <1>3 DEF ReadBeforeLock, Goto, Enqueue, TypeOK, InAction
    <2>2. seen'[q] = seen[q] /\ seenInst'[q] = seenInst[q]
      BY <1>0, <1>3, <2>1 DEF ReadBeforeLock, SetSeen, TypeOK
    <2>3. status'[app[q]] = status[app[q]]
      BY <1>0, <1>3, <2>1 DEF ReadBeforeLock, ActionRowCurrent, TypeOK
    <2> QED
      BY <1>3, <2>1, <2>2, <2>3 DEF ReadBeforeLock, ActionRowCurrent
  <1>4. ASSUME NEW r \in Requests, Update(r) PROVE Current
    <2>1. q # r /\ pc'[q] = pc[q]
      BY <1>0, <1>4 DEF Update, Release, TypeOK, InAction
    <2> QED
      BY <1>0, <1>4, <2>1, <1>e DEF Update, TypeOK
  <1>5. ASSUME NEW r \in Requests, Delete(r) PROVE Current
    <2>1. q # r /\ pc'[q] = pc[q]
      BY <1>0, <1>5 DEF Delete, Release, TypeOK, InAction
    <2> QED
      BY <1>0, <1>5, <2>1, <1>e DEF Delete, TypeOK
  <1>6. ASSUME NEW r \in Requests, AskAdapter(r) PROVE Current
    BY <1>0, <1>6 DEF AskAdapter, Await, Goto, TypeOK, InAction, ActionRowCurrent
  <1>7. ASSUME NEW r \in Requests, Reconcile(r) PROVE Current
    <2>0. Holds(r)
      BY <1>0, <1>7 DEF Reconcile, LockInv, Holding
    <2>1. q # r /\ pc'[q] = pc[q]
      BY <1>0, <1>7 DEF Reconcile, Release, Continue, Goto, TypeOK, InAction
    <2>2. seen'[q] = seen[q]
      BY <1>0, <1>7, <2>1 DEF Reconcile, SetSeen, TypeOK
    <2>3. \A b \in Apps : b # app[r] => status'[b] = status[b]
      BY <1>0, <1>7 DEF Reconcile, WriteStatus, TypeOK
    <2> QED
      BY <1>0, <1>7, <2>0, <2>1, <2>2, <2>3, <1>e DEF Reconcile, TypeOK
  <1>8. ASSUME NEW r \in Requests, Answer(r) \/ Reject(r) PROVE Current
    <2>1. q # r /\ pc'[q] = pc[q]
      BY <1>0, <1>8 DEF Answer, Reject, Release, TypeOK, InAction
    <2> QED
      BY <1>8, <2>1 DEF Answer, Reject, ActionRowCurrent
  <1>9. ASSUME NEW r \in Requests, Accept(r) PROVE Current
    <2>1. CASE q = r
      BY <1>0, <1>9, <2>1 DEF Accept, SetSeen, TypeOK
    <2>2. CASE q # r
      <3>1. pc'[q] = pc[q]
        BY <1>0, <1>9, <2>2 DEF Accept, Continue, Await, Goto, TypeOK
      <3> QED
        BY <1>0, <1>9, <2>2, <3>1, <1>e DEF Accept, SetSeen, TypeOK
    <2> QED
      BY <2>1, <2>2
  <1>10. ASSUME NEW r \in Requests, PortsChecked(r) \/ FinishFailed(r) \/ FinishConfirmed(r) \/ OpSucceeds(r)
                                     \/ OpRaises(r)
         PROVE Current
    <2>1. pc[q] \in InAction
      BY <1>0, <1>10 DEF PortsChecked, FinishFailed, FinishConfirmed, OpSucceeds, OpRaises,
                         Continue, Await, Goto, Release, TypeOK, InAction
    <2> QED
      BY <1>10, <2>1 DEF PortsChecked, FinishFailed, FinishConfirmed, OpSucceeds, OpRaises, ActionRowCurrent
  \* The steps by which an action writes the status
  <1>w. ASSUME NEW r \in Requests, pc[r] \in InAction, NEW s, WriteStatus(r, s),
               SetSeen(r, s) \/ SetSeen(r, status'[app[r]]),
               q # r => pc'[q] = pc[q], UNCHANGED <<inst, enabled, request, seenInst>>
        PROVE  Current
    <2>0. Holds(r) /\ status[app[r]] = seen[r] /\ app[r] \in Apps
      BY <1>0, <1>w DEF LockInv, Holding, ActionRowCurrent, TypeOK
    <2>1. status'[app[r]] = s
      BY <1>0, <1>w, <2>0 DEF WriteStatus, TypeOK
    <2>2. CASE q = r
      BY <1>0, <1>w, <2>1, <2>2 DEF SetSeen, TypeOK, ActionRowCurrent
    <2>3. CASE q # r
      BY <1>0, <1>w, <2>0, <2>3, <1>e DEF SetSeen, WriteStatus, TypeOK
    <2> QED
      BY <2>2, <2>3
  <1>11. ASSUME NEW r \in Requests, Transition(r) PROVE Current
    <2>0. pc[r] \in InAction /\ (q # r => pc'[q] = pc[q])
      BY <1>0, <1>11 DEF Transition, InAction, Continue, Await, Goto, Release, TypeOK
    <2>1. CASE MayBecome(seen[r], FirstTarget(kind[r]))
      BY <1>11, <2>0, <2>1, <1>w DEF Transition
    <2>2. CASE ~MayBecome(seen[r], FirstTarget(kind[r]))
      <3>1. q # r
        BY <1>0, <1>11, <2>2 DEF Transition, Release, TypeOK, InAction
      <3> QED
        BY <1>11, <2>0, <2>2, <3>1 DEF Transition, ActionRowCurrent
    <2> QED
      BY <2>1, <2>2
  <1>12. ASSUME NEW r \in Requests, AnnounceStarting(r) PROVE Current
    <2>0. pc[r] \in InAction /\ (q # r => pc'[q] = pc[q])
      BY <1>0, <1>12 DEF AnnounceStarting, InAction, Await, Goto, TypeOK
    <2> QED
      BY <1>12, <2>0, <1>w DEF AnnounceStarting
  <1>13. ASSUME NEW r \in Requests, OpFails(r) PROVE Current
    <2>0. pc[r] \in InAction /\ (q # r => pc'[q] = pc[q])
      BY <1>0, <1>13 DEF OpFails, InAction, Continue, Goto, TypeOK
    <2> QED
      BY <1>13, <2>0, <1>w DEF OpFails
  <1>14. ASSUME NEW r \in Requests, Confirm(r) PROVE Current
    <2>0. pc[r] \in InAction /\ (q # r => pc'[q] = pc[q])
      BY <1>0, <1>14 DEF Confirm, InAction, Continue, Goto, TypeOK
    <2> QED
      BY <1>14, <2>0, <1>w DEF Confirm
  <1>15. ASSUME NEW a \in Apps, RunJob(a) \/ Drift(a) PROVE Current
    BY <1>15 DEF RunJob, Drift, ActionRowCurrent
  <1>16. CASE Crash
    BY <1>0, <1>16 DEF Crash, TypeOK, Ended, InAction
  <1>17. CASE UNCHANGED vars
    BY <1>17 DEF vars, ActionRowCurrent
  <1> QED
    BY <1>1, <1>2, <1>3, <1>4, <1>5, <1>6, <1>7, <1>8, <1>9, <1>10, <1>11, <1>12, <1>13,
       <1>14, <1>15, <1>16, <1>17 DEF Next, Submit, Serve, Quiet

\* Through all its awaits an action works on the current row of a registered and
\* enabled application, and its copy of the status is the persisted one.
THEOREM RowCurrent == Spec => []ActionRowCurrent
  BY RowInit, RowStep, Base, PTL DEF Spec

-----------------------------------------------------------------------------
(* Results, and what CHECKING means                                         *)

\* The execution row of a request, by where the request is
ExecInv ==
    \A r \in Requests :
        /\ pc[r] \in {"idle", "queued", "observe", "reconciled"} => exec[r] = "none"
        /\ pc[r] \in InAction => exec[r] = "RUNNING"

\* What an action knows, by where it is
PhaseInv ==
    \A r \in Requests :
        /\ pc[r] = "checked" => kind[r] = "start"
        /\ pc[r] = "applied" => obs[r] = seen[r]
        /\ pc[r] \in InAction /\ kind[r] = "start" /\ seen[r] = "CHECKING" => pc[r] = "checked"

FullInv == BaseInv /\ ActionRowCurrent /\ ExecInv /\ PhaseInv /\ CheckingIsExplained

\* An execution row is written by its own request only.
LEMMA ExecStep == BaseInv /\ ExecInv /\ [Next]_vars => ExecInv'
  <1> SUFFICES ASSUME BaseInv, ExecInv, [Next]_vars, NEW q \in Requests
               PROVE  /\ pc'[q] \in {"idle", "queued", "observe", "reconciled"} => exec'[q] = "none"
                      /\ pc'[q] \in InAction => exec'[q] = "RUNNING"
    BY DEF ExecInv
  <1> DEFINE Good == /\ pc'[q] \in {"idle", "queued", "observe", "reconciled"} => exec'[q] = "none"
                     /\ pc'[q] \in InAction => exec'[q] = "RUNNING"
  <1> USE DEF database, world, sessions, request, InAction
  <1>0. pc \in [Requests -> Points] /\ exec \in [Requests -> {"none", "RUNNING", "SUCCEEDED", "FAILED"}]
    BY DEF BaseInv, TypeOK
  <1>1. ASSUME NEW r \in Requests, Submit(r) PROVE Good
    BY <1>0, <1>1 DEF Submit, Create, Arrive, ReadBeforeLock, Enqueue, Goto, ExecInv
  <1>2. ASSUME NEW r \in Requests, Update(r) \/ Delete(r) \/ Answer(r) \/ Reject(r) \/ OpRaises(r) PROVE Good
    BY <1>0, <1>2 DEF Update, Delete, Answer, Reject, OpRaises, Release, ExecInv
  <1>3. ASSUME NEW r \in Requests, AskAdapter(r) \/ Reconcile(r) PROVE Good
    BY <1>0, <1>3 DEF AskAdapter, Reconcile, Release, Await, Continue, Goto, ExecInv
  <1>4. ASSUME NEW r \in Requests, Accept(r) PROVE Good
    BY <1>0, <1>4 DEF Accept, Await, Continue, Goto, ExecInv
  <1>5. ASSUME NEW r \in Requests, PortsChecked(r) \/ Transition(r) PROVE Good
    BY <1>0, <1>5 DEF PortsChecked, Transition, Release, Finish, Await, Continue, Goto, ExecInv
  <1>6. ASSUME NEW r \in Requests, AnnounceStarting(r) \/ OpSucceeds(r) \/ OpFails(r) \/ Confirm(r) PROVE Good
    BY <1>0, <1>6 DEF AnnounceStarting, OpSucceeds, OpFails, Confirm, Await, Continue, Goto, ExecInv
  <1>7. ASSUME NEW r \in Requests, FinishFailed(r) \/ FinishConfirmed(r) PROVE Good
    BY <1>0, <1>7 DEF FinishFailed, FinishConfirmed, Finish, Release, ExecInv
  <1>8. ASSUME NEW a \in Apps, RunJob(a) \/ Drift(a) PROVE Good
    BY <1>8 DEF RunJob, Drift, ExecInv
  <1>9. CASE Crash
    BY <1>0, <1>9 DEF Crash, ExecInv, Ended
  <1>10. CASE UNCHANGED vars
    BY <1>10 DEF vars, ExecInv
  <1> QED
    BY <1>1, <1>2, <1>3, <1>4, <1>5, <1>6, <1>7, <1>8, <1>9, <1>10 DEF Next, Serve, Quiet

\* An action is where its kind and the status it last wrote say: of the points of a
\* start, only the one between its two transitions has CHECKING.
LEMMA PhaseStep == BaseInv /\ ActionRowCurrent /\ PhaseInv /\ [Next]_vars => PhaseInv'
  <1> SUFFICES ASSUME BaseInv, ActionRowCurrent, PhaseInv, [Next]_vars, NEW q \in Requests
               PROVE  /\ pc'[q] = "checked" => kind'[q] = "start"
                      /\ pc'[q] = "applied" => obs'[q] = seen'[q]
                      /\ pc'[q] \in InAction /\ kind'[q] = "start" /\ seen'[q] = "CHECKING"
                            => pc'[q] = "checked"
    BY DEF PhaseInv
  <1> DEFINE Good == /\ pc'[q] = "checked" => kind'[q] = "start"
                     /\ pc'[q] = "applied" => obs'[q] = seen'[q]
                     /\ pc'[q] \in InAction /\ kind'[q] = "start" /\ seen'[q] = "CHECKING"
                           => pc'[q] = "checked"
  <1> USE DEF database, world, sessions, request, InAction
  <1>0. /\ pc \in [Requests -> Points] /\ kind \in [Requests -> Kinds]
        /\ seen \in [Requests -> Statuses] /\ obs \in [Requests -> Statuses \cup {None}]
        /\ status \in [Apps -> Statuses] /\ app \in [Requests -> Apps]
        /\ runtime \in [Apps -> RuntimeStates]
    BY DEF BaseInv, TypeOK
  <1>1. ASSUME NEW r \in Requests, Submit(r) PROVE Good
    BY <1>0, <1>1 DEF Submit, Create, Arrive, ReadBeforeLock, Enqueue, Goto, SetSeen, PhaseInv
  <1>2. ASSUME NEW r \in Requests, Update(r) \/ Delete(r) \/ Answer(r) \/ Reject(r) \/ OpRaises(r)
                                    \/ FinishFailed(r) \/ FinishConfirmed(r)
        PROVE Good
    BY <1>0, <1>2 DEF Update, Delete, Answer, Reject, OpRaises, FinishFailed, FinishConfirmed, Release, PhaseInv
  <1>3. ASSUME NEW r \in Requests, AskAdapter(r) \/ Reconcile(r) PROVE Good
    BY <1>0, <1>3 DEF AskAdapter, Reconcile, Release, Await, Continue, Goto, SetSeen, PhaseInv
  <1>4. ASSUME NEW r \in Requests, Accept(r) PROVE Good
    BY <1>0, <1>4 DEF Accept, Refused, Await, Continue, Goto, SetSeen, PhaseInv
  <1>5. ASSUME NEW r \in Requests, PortsChecked(r) PROVE Good
    BY <1>0, <1>5 DEF PortsChecked, Release, Continue, Goto, PhaseInv
  <1>6. ASSUME NEW r \in Requests, Transition(r) PROVE Good
    BY <1>0, <1>6 DEF Transition, FirstTarget, Release, Await, Continue, Goto, SetSeen, PhaseInv
  <1>7. ASSUME NEW r \in Requests, AnnounceStarting(r) \/ OpSucceeds(r) \/ OpFails(r) PROVE Good
    BY <1>0, <1>7 DEF AnnounceStarting, OpSucceeds, OpFails, Await, Continue, Goto, SetSeen, PhaseInv
  <1>8. ASSUME NEW r \in Requests, Confirm(r) PROVE Good
    <2>1. PICK s \in Observations(app[r]) : WriteStatus(r, s) /\ obs' = [obs EXCEPT ![r] = s]
      BY <1>8 DEF Confirm
    <2>2. status[app[r]] = seen[r] /\ app[r] \in Apps
      BY <1>0, <1>8 DEF Confirm, ActionRowCurrent
    <2>3. status'[app[r]] = s /\ s # "CHECKING"
      BY <1>0, <2>1, <2>2 DEF WriteStatus, Observations, RuntimeStates
    <2> QED
      BY <1>0, <1>8, <2>1, <2>3 DEF Confirm, Continue, Goto, SetSeen, PhaseInv
  <1>9. ASSUME NEW a \in Apps, RunJob(a) \/ Drift(a) PROVE Good
    BY <1>9 DEF RunJob, Drift, PhaseInv
  <1>10. CASE Crash
    BY <1>0, <1>10 DEF Crash, PhaseInv, Ended
  <1>11. CASE UNCHANGED vars
    BY <1>11 DEF vars, PhaseInv
  <1> QED
    BY <1>1, <1>2, <1>3, <1>4, <1>5, <1>6, <1>7, <1>8, <1>9, <1>10, <1>11 DEF Next, Serve, Quiet

\* CHECKING is written by a start, and left by that start or after its death.
LEMMA CheckingStep == FullInv /\ [Next]_vars => CheckingIsExplained'
  <1> SUFFICES ASSUME FullInv, [Next]_vars, NEW a \in Apps, status'[a] = "CHECKING"
               PROVE  \E r \in Requests : app'[r] = a /\ kind'[r] = "start" /\ exec'[r] = "RUNNING"
    BY DEF CheckingIsExplained
  <1> DEFINE Explained == \E r \in Requests : app'[r] = a /\ kind'[r] = "start" /\ exec'[r] = "RUNNING"
  <1> USE DEF database, world, sessions, request
  <1>0. TypeOK /\ ActionRowCurrent /\ ExecInv /\ PhaseInv /\ CheckingIsExplained
    BY DEF FullInv, BaseInv
  \* A step that leaves the explanation alone
  <1>k. ASSUME status[a] = "CHECKING",
               \A p \in Requests : exec[p] = "RUNNING" /\ kind[p] = "start" /\ app[p] = a =>
                   app'[p] = app[p] /\ kind'[p] = kind[p] /\ exec'[p] = exec[p]
        PROVE  Explained
    BY <1>0, <1>k DEF CheckingIsExplained
  \* A step by which an action ends, at a point where its status is not CHECKING
  <1>f. ASSUME NEW r \in Requests, pc[r] \in InAction \ {"checked"}, NEW o, Finish(r, o),
               UNCHANGED <<status, request>>
        PROVE  Explained
    <2>1. \A p \in Requests : exec[p] = "RUNNING" /\ kind[p] = "start" /\ app[p] = a => p # r
      BY <1>0, <1>f DEF ActionRowCurrent, PhaseInv
    <2> QED
      BY <1>0, <1>f, <2>1, <1>k DEF Finish, TypeOK
  <1>1. ASSUME NEW r \in Requests, NEW b \in Apps, Create(r, b) PROVE Explained
    BY <1>0, <1>1, <1>k DEF Create, TypeOK, ExecInv
  <1>2. ASSUME NEW r \in Requests, NEW b \in Apps, NEW k \in Kinds, Arrive(r, b, k) PROVE Explained
    BY <1>0, <1>2, <1>k DEF Arrive, TypeOK, ExecInv
  <1>3. ASSUME NEW r \in Requests, NEW b \in Apps, NEW k \in Kinds, ReadBeforeLock(r, b, k) PROVE Explained
    <2>1. status[a] = "CHECKING"
      BY <1>0, <1>3 DEF ReadBeforeLock, TypeOK
    <2> QED
      BY <1>0, <1>3, <2>1, <1>k DEF ReadBeforeLock, TypeOK, ExecInv
  <1>4. ASSUME NEW r \in Requests, Update(r) \/ Answer(r) \/ Reject(r) \/ AskAdapter(r) \/ OpSucceeds(r)
                                    \/ OpRaises(r)
        PROVE Explained
    BY <1>4, <1>k DEF Update, Answer, Reject, AskAdapter, OpSucceeds, OpRaises
  <1>5. ASSUME NEW r \in Requests, Delete(r) PROVE Explained
    <2>1. status[a] = "CHECKING"
      BY <1>0, <1>5 DEF Delete, TypeOK
    <2> QED
      BY <1>5, <2>1, <1>k DEF Delete
  <1>6. ASSUME NEW r \in Requests, Reconcile(r) \/ Confirm(r) PROVE Explained
    <2>1. \A s \in Observations(app[r]) : s # "CHECKING"
      BY <1>0 DEF Observations, RuntimeStates, TypeOK
    <2>2. status[a] = "CHECKING"
      BY <1>0, <1>6, <2>1 DEF Reconcile, Confirm, WriteStatus, TypeOK
    <2> QED
      BY <1>6, <2>2, <1>k DEF Reconcile, Confirm
  <1>7. ASSUME NEW r \in Requests, Accept(r) PROVE Explained
    BY <1>0, <1>7, <1>k DEF Accept, TypeOK, ExecInv
  <1>8. ASSUME NEW r \in Requests, PortsChecked(r) PROVE Explained
    BY <1>8, <1>f, <1>k DEF PortsChecked, InAction
  <1>9. ASSUME NEW r \in Requests, Transition(r) PROVE Explained
    <2>1. CASE Finish(r, "FAILED") /\ UNCHANGED status
      BY <1>9, <2>1, <1>f DEF Transition, InAction
    <2>2. CASE WriteStatus(r, FirstTarget(kind[r])) /\ UNCHANGED exec
      <3>1. CASE status[a] = "CHECKING"
        BY <1>9, <2>2, <3>1, <1>k DEF Transition
      <3>2. CASE status[a] # "CHECKING"
        <4>1. app[r] = a /\ FirstTarget(kind[r]) = "CHECKING"
          BY <1>0, <2>2, <3>2 DEF WriteStatus, TypeOK
        <4>2. kind[r] \in Actions /\ exec[r] = "RUNNING"
          BY <1>0, <1>9 DEF Transition, FullInv, BaseInv, KindInv, ExecInv, InAction
        <4> QED
          BY <1>9, <2>2, <4>1, <4>2 DEF Transition, FirstTarget, Actions
      <3> QED
        BY <3>1, <3>2
    <2> QED
      BY <1>9, <2>1, <2>2 DEF Transition
  <1>10. ASSUME NEW r \in Requests, AnnounceStarting(r) \/ OpFails(r) PROVE Explained
    <2>1. status[a] = "CHECKING"
      BY <1>0, <1>10 DEF AnnounceStarting, OpFails, WriteStatus, TypeOK
    <2> QED
      BY <1>10, <2>1, <1>k DEF AnnounceStarting, OpFails
  <1>11. ASSUME NEW r \in Requests, FinishFailed(r) \/ FinishConfirmed(r) PROVE Explained
    BY <1>11, <1>f DEF FinishFailed, FinishConfirmed, InAction
  <1>12. ASSUME NEW b \in Apps, RunJob(b) \/ Drift(b) PROVE Explained
    BY <1>12, <1>k DEF RunJob, Drift
  <1>13. CASE Crash
    BY <1>13, <1>k DEF Crash
  <1>14. CASE UNCHANGED vars
    BY <1>14, <1>k DEF vars
  <1> QED
    BY <1>1, <1>2, <1>3, <1>4, <1>5, <1>6, <1>7, <1>8, <1>9, <1>10, <1>11, <1>12, <1>13, <1>14
       DEF Next, Submit, Serve, Quiet

\* The conjunction of the five invariants is inductive, and holds throughout.
THEOREM Full == Spec => []FullInv
  <1>1. Init => ExecInv /\ PhaseInv /\ CheckingIsExplained
    BY DEF Init, ExecInv, PhaseInv, CheckingIsExplained, InAction
  <1>2. FullInv /\ [Next]_vars => FullInv'
    BY BaseStep, RowStep, ExecStep, PhaseStep, CheckingStep DEF FullInv
  <1>3. Init => FullInv
    BY <1>1, BaseInit, RowInit DEF FullInv
  <1> QED
    BY <1>2, <1>3, PTL DEF Spec

\* A CHECKING status in the database always belongs to a start whose execution is
\* still recorded as RUNNING, whatever crashes and failures happened.
THEOREM Checking == Spec => []CheckingIsExplained
  BY Full, PTL DEF FullInv

\* A result SUCCEEDED is only recorded when the database shows what the runtime
\* has just reported and that is what the action was meant to reach.
THEOREM Success == Spec => SuccessIsConfirmed
  <1> DEFINE Confirmed == \A r \in Requests : exec[r] = "RUNNING" /\ exec'[r] = "SUCCEEDED" =>
                              /\ status[app[r]] = obs[r]
                              /\ obs[r] \in Expected(kind[r])
  <1>1. FullInv /\ [Next]_vars => [Confirmed]_vars
    <2> SUFFICES ASSUME FullInv, Next, NEW q \in Requests, exec[q] = "RUNNING", exec'[q] = "SUCCEEDED"
                 PROVE  status[app[q]] = obs[q] /\ obs[q] \in Expected(kind[q])
      OBVIOUS
    <2> USE DEF database, world, sessions, request
    <2>0. TypeOK
      BY DEF FullInv, BaseInv
    <2>1. FinishConfirmed(q)
      <3>1. \A r \in Requests : Submit(r) => UNCHANGED exec
        BY DEF Submit, Create, Arrive, ReadBeforeLock
      <3>2. \A r \in Requests : Update(r) \/ Delete(r) \/ AskAdapter(r) \/ Reconcile(r) \/ Answer(r)
                                \/ Reject(r) \/ AnnounceStarting(r) \/ OpSucceeds(r) \/ OpFails(r)
                                \/ OpRaises(r) \/ Confirm(r) => UNCHANGED exec
        BY DEF Update, Delete, AskAdapter, Reconcile, Answer, Reject, AnnounceStarting, OpSucceeds,
               OpFails, OpRaises, Confirm
      <3>3. \A r \in Requests : Accept(r) \/ PortsChecked(r) \/ Transition(r) \/ FinishFailed(r)
                                => exec'[q] \in {exec[q], "RUNNING", "FAILED"}
        BY <2>0 DEF Accept, PortsChecked, Transition, FinishFailed, Finish, TypeOK
      <3>4. \A r \in Requests : FinishConfirmed(r) /\ r # q => exec'[q] = exec[q]
        BY <2>0 DEF FinishConfirmed, Finish, TypeOK
      <3>5. (\E a \in Apps : RunJob(a) \/ Drift(a)) \/ Crash \/ Quiet => UNCHANGED exec
        BY DEF RunJob, Drift, Crash, Quiet, vars
      <3> QED
        BY <3>1, <3>2, <3>3, <3>4, <3>5 DEF Next, Serve
    <2>2. obs[q] = seen[q] /\ status[app[q]] = seen[q]
      BY <2>1 DEF FinishConfirmed, FullInv, PhaseInv, ActionRowCurrent, InAction
    <2>3. seen[q] \in Expected(kind[q])
      BY <2>0, <2>1 DEF FinishConfirmed, Finish, TypeOK
    <2> QED
      BY <2>2, <2>3
  <1> QED
    BY <1>1, Full, PTL DEF Spec, SuccessIsConfirmed

-----------------------------------------------------------------------------
(* Lifecycle implements SerialOperations                                    *)

\* The operation under way on an application is the request carrying it out
LEMMA OperationIs ==
    BaseInv => /\ \A r \in Requests : pc[r] \in InAction => Operation[app[r]] = r
               /\ \A a \in Apps : \/ Operation[a] = None
                                  \/ /\ Operation[a] \in Requests
                                     /\ pc[Operation[a]] \in InAction
                                     /\ app[Operation[a]] = a
  <1> SUFFICES ASSUME BaseInv
               PROVE  /\ \A r \in Requests : pc[r] \in InAction => Operation[app[r]] = r
                      /\ \A a \in Apps : \/ Operation[a] = None
                                         \/ /\ Operation[a] \in Requests
                                            /\ pc[Operation[a]] \in InAction
                                            /\ app[Operation[a]] = a
    OBVIOUS
  <1>1. \A a \in Apps : UnderWay(a) # {} => (CHOOSE r \in UnderWay(a) : TRUE) \in UnderWay(a)
    OBVIOUS
  <1>2. \A a \in Apps : \/ Operation[a] = None /\ UnderWay(a) = {}
                        \/ Operation[a] \in UnderWay(a)
    BY <1>1 DEF Operation
  <1>3. ASSUME NEW r \in Requests, pc[r] \in InAction PROVE Operation[app[r]] = r
    <2>1. r \in UnderWay(app[r]) /\ app[r] \in Apps
      BY <1>3 DEF UnderWay, BaseInv, TypeOK
    <2>2. Operation[app[r]] \in UnderWay(app[r])
      BY <1>2, <2>1
    <2> QED
      BY <1>3, <2>2 DEF UnderWay, BaseInv, LockInv, Holding, Holds
  <1> QED
    BY <1>2, <1>3 DEF UnderWay

\* Each step of Lifecycle is a step of SerialOperations, or changes nothing it shows.
LEMMA SerialStep ==
    FullInv /\ FullInv' /\ [Next]_vars => [Serial!Next]_(Serial!vars)
  <1> SUFFICES ASSUME FullInv, FullInv', [Next]_vars
               PROVE  Serial!Next \/ UNCHANGED <<inst, enabled, Operation, exec>>
    BY DEF Serial!vars
  <1> USE DEF database, world, sessions, request
  <1>0. /\ BaseInv /\ BaseInv' /\ TypeOK /\ TypeOK'
        /\ ActionRowCurrent /\ ExecInv /\ ExecInv'
    BY DEF FullInv, BaseInv
  <1>1. /\ \A r \in Requests : pc[r] \in InAction => Operation[app[r]] = r
        /\ \A a \in Apps : \/ Operation[a] = None
                           \/ /\ Operation[a] \in Requests
                              /\ pc[Operation[a]] \in InAction
                              /\ app[Operation[a]] = a
    BY <1>0, OperationIs
  <1>2. (/\ \A r \in Requests : pc[r] \in InAction => Operation[app[r]] = r
         /\ \A a \in Apps : \/ Operation[a] = None
                            \/ /\ Operation[a] \in Requests
                               /\ pc[Operation[a]] \in InAction
                               /\ app[Operation[a]] = a)'
    BY <1>0, OperationIs, PTL
  <1>3. /\ Operation = [a \in Apps |-> Operation[a]]
        /\ Operation' = [a \in Apps |-> Operation'[a]]
    BY DEF Operation
  \* A step after which the same requests carry out actions
  <1>s. ASSUME \A q \in Requests : /\ pc'[q] \in InAction <=> pc[q] \in InAction
                                   /\ pc[q] \in InAction => app'[q] = app[q]
        PROVE  Operation' = Operation
    <2> SUFFICES ASSUME NEW a \in Apps PROVE Operation'[a] = Operation[a]
      BY <1>3
    <2>1. CASE Operation[a] = None
      BY <1>1, <1>2, <1>s, <2>1, IdentityAssumption
    <2>2. CASE Operation[a] # None
      BY <1>1, <1>2, <1>s, <2>2
    <2> QED
      BY <2>1, <2>2
  \* A step by which r stops carrying out its action
  <1>l. ASSUME NEW r \in Requests, pc[r] \in InAction, pc'[r] \notin InAction,
               \A q \in Requests : q # r => pc'[q] = pc[q], UNCHANGED app
        PROVE  Operation' = [Operation EXCEPT ![app[r]] = None]
    <2>0. app[r] \in Apps
      BY <1>0 DEF TypeOK
    <2> SUFFICES ASSUME NEW a \in Apps
                 PROVE Operation'[a] = IF a = app[r] THEN None ELSE Operation[a]
      BY <1>3, <2>0
    <2>1. CASE a = app[r]
      BY <1>1, <1>2, <1>l, <2>1
    <2>2. CASE a # app[r] /\ Operation[a] = None
      BY <1>1, <1>2, <1>l, <2>2, IdentityAssumption
    <2>3. CASE a # app[r] /\ Operation[a] # None
      BY <1>1, <1>2, <1>l, <2>3
    <2> QED
      BY <2>1, <2>2, <2>3
  \* Nobody carries out an action where r holds the lock and does not
  <1>h. ASSUME NEW r \in Requests, Holds(r), pc[r] \notin InAction
        PROVE  Operation[app[r]] = None
    BY <1>0, <1>1, <1>h, Elsewhere DEF TypeOK
  <1>4. ASSUME NEW r \in Requests, NEW a \in Apps, Create(r, a)
        PROVE  Serial!Next \/ UNCHANGED <<inst, enabled, Operation, exec>>
    <2>1. Operation' = Operation
      BY <1>0, <1>4, <1>s DEF Create, Goto, TypeOK, InAction
    <2>2. CASE inst[a] # None
      BY <1>4, <2>1, <2>2 DEF Create
    <2>3. CASE inst[a] = None
      <3>1. Operation[a] = None
        BY <1>0, <1>1, <2>3 DEF ActionRowCurrent
      <3>2. Serial!Reconfigure(a)
        BY <1>4, <2>1, <2>3, <3>1 DEF Create, Serial!Reconfigure
      <3> QED
        BY <3>2 DEF Serial!Next
    <2> QED
      BY <2>2, <2>3
  <1>5. ASSUME NEW r \in Requests, NEW a \in Apps, NEW k \in Kinds, Arrive(r, a, k) \/ ReadBeforeLock(r, a, k)
        PROVE  UNCHANGED <<inst, enabled, Operation, exec>>
    <2>1. Operation' = Operation
      <3>1. CASE Arrive(r, a, k)
        BY <1>0, <3>1, <1>s DEF Arrive, Enqueue, Goto, TypeOK, InAction
      <3>2. CASE ReadBeforeLock(r, a, k)
        <4>1. /\ pc[r] = "idle" /\ app' = [app EXCEPT ![r] = a]
              /\ \/ pc' = [pc EXCEPT ![r] = "done"]
                 \/ pc' = [pc EXCEPT ![r] = "queued"]
          BY <3>2 DEF ReadBeforeLock, Enqueue, Goto
        <4> QED
          BY <1>0, <4>1, <1>s DEF TypeOK, InAction
      <3> QED
        BY <1>5, <3>1, <3>2
    <2> QED
      BY <1>5, <2>1 DEF Arrive, ReadBeforeLock
  <1>6. ASSUME NEW r \in Requests, Update(r) \/ Delete(r)
        PROVE  Serial!Next
    <2>1. Operation' = Operation
      BY <1>0, <1>6, <1>s DEF Update, Delete, Release, TypeOK, InAction
    <2>2. Operation[app[r]] = None /\ app[r] \in Apps
      BY <1>0, <1>6, <1>h DEF Update, Delete, InAction, TypeOK
    <2>3. /\ \E id \in {None, inst[app[r]]} \cup Requests : inst' = [inst EXCEPT ![app[r]] = id]
          /\ \E b \in BOOLEAN : enabled' = [enabled EXCEPT ![app[r]] = b]
      <3>1. CASE Update(r)
        BY <1>0, <2>2, <3>1 DEF Update, TypeOK
      <3>2. CASE Delete(r)
        BY <1>0, <2>2, <3>2 DEF Delete, TypeOK
      <3> QED
        BY <1>6, <3>1, <3>2
    <2>4. Serial!Reconfigure(app[r])
      BY <1>6, <2>1, <2>2, <2>3 DEF Update, Delete, Serial!Reconfigure
    <2> QED
      BY <2>2, <2>4 DEF Serial!Next
  <1>7. ASSUME NEW r \in Requests, AskAdapter(r) \/ Reconcile(r) \/ Answer(r) \/ Reject(r)
        PROVE  UNCHANGED <<inst, enabled, Operation, exec>>
    <2>1. Operation' = Operation
      BY <1>0, <1>7, <1>s DEF AskAdapter, Reconcile, Answer, Reject, Release, Await, Continue, Goto, TypeOK, InAction
    <2> QED
      BY <1>7, <2>1 DEF AskAdapter, Reconcile, Answer, Reject
  <1>8. ASSUME NEW r \in Requests, Accept(r) PROVE Serial!Next
    <2>1. Operation[app[r]] = None /\ app[r] \in Apps
      BY <1>0, <1>8, <1>h DEF Accept, InAction, TypeOK
    <2>2. pc'[r] \in InAction /\ \A q \in Requests : q # r => pc'[q] = pc[q]
      BY <1>0, <1>8 DEF Accept, Await, Continue, Goto, TypeOK, InAction
    <2>3. Operation' = [Operation EXCEPT ![app[r]] = r]
      <3> SUFFICES ASSUME NEW a \in Apps
                   PROVE Operation'[a] = IF a = app[r] THEN r ELSE Operation[a]
        BY <1>3, <2>1
      <3>0. UNCHANGED app
        BY <1>8 DEF Accept
      <3>1. CASE a = app[r]
        BY <1>2, <2>2, <3>0, <3>1
      <3>2. CASE a # app[r] /\ Operation[a] = None
        BY <1>1, <1>2, <2>2, <3>0, <3>2, IdentityAssumption
      <3>3. CASE a # app[r] /\ Operation[a] # None
        BY <1>1, <1>2, <1>8, <2>2, <3>0, <3>3 DEF Accept, InAction
      <3> QED
        BY <3>1, <3>2, <3>3
    <2>4. exec[r] = "none"
      BY <1>0, <1>8 DEF Accept, ExecInv
    <2>5. Serial!Begin(r, app[r])
      BY <1>8, <2>1, <2>3, <2>4 DEF Accept, Serial!Begin
    <2> QED
      BY <2>1, <2>5 DEF Serial!Next
  \* A step by which an action ends with a result
  <1>f. ASSUME NEW r \in Requests, pc[r] \in InAction, NEW o \in {"SUCCEEDED", "FAILED"},
               Finish(r, o), Release(r, "done"), UNCHANGED <<inst, enabled, app>>
        PROVE  Serial!Next
    <2>1. Operation[app[r]] = r /\ app[r] \in Apps
      BY <1>0, <1>1, <1>f DEF TypeOK
    <2>2. Operation' = [Operation EXCEPT ![app[r]] = None]
      BY <1>0, <1>f, <1>l DEF Release, TypeOK, InAction
    <2>3. Serial!End(r, app[r])
      BY <1>f, <2>1, <2>2 DEF Finish, Serial!End
    <2> QED
      BY <2>1, <2>3 DEF Serial!Next
  <1>9. ASSUME NEW r \in Requests, PortsChecked(r)
        PROVE  Serial!Next \/ UNCHANGED <<inst, enabled, Operation, exec>>
    <2>1. CASE Continue(r, "transition") /\ UNCHANGED exec
      BY <1>0, <1>9, <2>1, <1>s DEF PortsChecked, Continue, Goto, TypeOK, InAction
    <2>2. CASE Finish(r, "FAILED") /\ Release(r, "done")
      BY <1>9, <2>2, <1>f DEF PortsChecked, InAction
    <2> QED
      BY <1>9, <2>1, <2>2 DEF PortsChecked
  <1>10. ASSUME NEW r \in Requests, Transition(r)
         PROVE  Serial!Next \/ UNCHANGED <<inst, enabled, Operation, exec>>
    <2>1. CASE (Continue(r, "checked") \/ Await(r, "op")) /\ UNCHANGED exec
      BY <1>0, <1>10, <2>1, <1>s DEF Transition, Continue, Await, Goto, TypeOK, InAction
    <2>2. CASE Finish(r, "FAILED") /\ Release(r, "done")
      BY <1>10, <2>2, <1>f DEF Transition, InAction
    <2> QED
      BY <1>10, <2>1, <2>2 DEF Transition
  <1>11. ASSUME NEW r \in Requests, AnnounceStarting(r) \/ OpSucceeds(r) \/ OpFails(r) \/ Confirm(r)
         PROVE  UNCHANGED <<inst, enabled, Operation, exec>>
    <2>1. Operation' = Operation
      BY <1>0, <1>11, <1>s DEF AnnounceStarting, OpSucceeds, OpFails, Confirm, Await, Continue, Goto, TypeOK, InAction
    <2> QED
      BY <1>11, <2>1 DEF AnnounceStarting, OpSucceeds, OpFails, Confirm
  <1>12. ASSUME NEW r \in Requests, OpRaises(r) PROVE Serial!Next
    <2>1. Operation' = [Operation EXCEPT ![app[r]] = None]
      BY <1>0, <1>12, <1>l DEF OpRaises, Release, TypeOK, InAction
    <2>2. Serial!Interrupt({app[r]})
      BY <1>3, <1>12, <2>1 DEF OpRaises, Serial!Interrupt
    <2>3. {app[r]} \in SUBSET Apps
      BY <1>0 DEF TypeOK
    <2> QED
      BY <2>2, <2>3 DEF Serial!Next
  <1>13. ASSUME NEW r \in Requests, FinishFailed(r) \/ FinishConfirmed(r) PROVE Serial!Next
    BY <1>13, <1>f DEF FinishFailed, FinishConfirmed, InAction
  <1>14. ASSUME NEW a \in Apps, RunJob(a) \/ Drift(a)
         PROVE  UNCHANGED <<inst, enabled, Operation, exec>>
    BY <1>14, <1>s DEF RunJob, Drift
  <1>15. CASE Crash
    <2>1. \A q \in Requests : pc'[q] \notin InAction
      BY <1>0, <1>15 DEF Crash, TypeOK, Ended, InAction
    <2>2. \A a \in Apps : Operation'[a] = None
      BY <1>2, <2>1
    <2>3. Serial!Interrupt(Apps)
      BY <1>3, <1>15, <2>2 DEF Crash, Serial!Interrupt
    <2> QED
      BY <2>3 DEF Serial!Next
  <1>16. CASE UNCHANGED vars
    BY <1>16, <1>s DEF vars
  <1> QED
    BY <1>4, <1>5, <1>6, <1>7, <1>8, <1>9, <1>10, <1>11, <1>12, <1>13, <1>14, <1>15, <1>16
       DEF Next, Submit, Serve, Quiet

\* The registry and the lifecycle service, with all their interleavings, failures
\* and crashes, behave as serial operations on each application.
THEOREM Serialises == Spec => SerialSpec
  <1>1. Init => Serial!Init
    <2> SUFFICES ASSUME Init PROVE Serial!Init
      OBVIOUS
    <2>1. \A a \in Apps : UnderWay(a) = {}
      BY DEF Init, UnderWay, InAction
    <2>2. Operation = [a \in Apps |-> None]
      BY <2>1 DEF Operation
    <2> QED
      BY <2>2 DEF Init, Serial!Init
  <1> QED
    BY <1>1, SerialStep, Full, PTL DEF Spec, SerialSpec, Serial!Spec
=============================================================================
