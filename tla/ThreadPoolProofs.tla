-------------------------- MODULE ThreadPoolProofs --------------------------
(***************************************************************************)
(* What ThreadPool guarantees for any number of workers, clients, tasks    *)
(* and priorities.  The argument is one inductive invariant, IInv, whose   *)
(* parts are disturbed by different actions; the counting parts follow     *)
(* from how each action adds an element to, or removes one from, the sets  *)
(* that are counted.                                                       *)
(***************************************************************************)
EXTENDS ThreadPool, FiniteSetTheorems, TLAPS

\* Sets of threads and tasks can be counted, in every state.
LEMMA CountsAreNat ==
    ASSUME TypeOK
    PROVE  /\ IsFiniteSet(queue) /\ Cardinality(queue) \in Nat
           /\ IsFiniteSet(AtLock) /\ Cardinality(AtLock) \in Nat
           /\ IsFiniteSet(Notifying) /\ Cardinality(Notifying) \in Nat
           /\ IsFiniteSet(Counted) /\ Cardinality(Counted) \in Nat
<1>1. /\ queue \in SUBSET Tasks
      /\ AtLock \in SUBSET Workers
      /\ Notifying \in SUBSET Clients
      /\ Counted \in SUBSET Workers
  BY DEF TypeOK, AtLock, Notifying, Counted
<1>2. IsFiniteSet(Workers) /\ IsFiniteSet(Clients) /\ IsFiniteSet(Tasks)
  BY PoolAssumption DEF PoolAssumption
<1>3. /\ IsFiniteSet(queue) /\ IsFiniteSet(AtLock)
      /\ IsFiniteSet(Notifying) /\ IsFiniteSet(Counted)
  BY <1>1, <1>2, FS_Subset
<1> QED
  BY <1>3, FS_CardinalityType

\* Every variable keeps its type: part of the inductive invariant that the
\* other parts rest on.
LEMMA TypeStep ==
    ASSUME IInv, [Next]_vars
    PROVE  TypeOK'
<1> USE DEF IInv, TypeOK, FutureState, WorkerPC, OwnerPC
<1>1. ASSUME NEW c \in Clients, NEW t \in Tasks, Enqueue(c, t) PROVE TypeOK'
  BY <1>1 DEF Enqueue
<1>2. ASSUME NEW c \in Clients, NEW t \in Tasks, EnqueueStopped(c, t)
      PROVE  TypeOK'
  BY <1>2 DEF EnqueueStopped
<1>3. ASSUME NEW c \in Clients, NotifyOne(c) PROVE TypeOK'
  BY <1>3 DEF NotifyOne, Waiting
<1>4. ASSUME NEW c \in Clients, CancelAll(c) PROVE TypeOK'
  BY <1>4 DEF CancelAll, Cleared
<1>5. ASSUME NEW w \in Workers, Sleep(w) PROVE TypeOK'
  BY <1>5 DEF Sleep
<1>6. ASSUME NEW w \in Workers, SpuriousWake(w) PROVE TypeOK'
  BY <1>6 DEF SpuriousWake
<1>7. ASSUME NEW w \in Workers, Exit(w) PROVE TypeOK'
  BY <1>7 DEF Exit
<1>8. ASSUME NEW w \in Workers, Take(w) PROVE TypeOK'
  BY <1>8 DEF Take, Top, Popped
<1>9. ASSUME NEW w \in Workers, Begin(w) PROVE TypeOK'
  BY <1>9 DEF Begin, Incremented
<1>10. ASSUME NEW w \in Workers, Run(w) PROVE TypeOK'
  BY <1>10 DEF Run
<1>11. ASSUME NEW w \in Workers, End(w) PROVE TypeOK'
  <2>1. w \in Counted
    BY <1>11 DEF End, Counted
  <2>2. active # 0
    BY <2>1, CountsAreNat, FS_EmptySet DEF ActiveIsExact
  <2> QED
    BY <2>2, <1>11 DEF End, Decremented
<1>12. CASE Stop
  BY <1>12 DEF Stop
<1>13. CASE NotifyAll
  BY <1>13 DEF NotifyAll
<1>14. CASE Join
  BY <1>14 DEF Join
<1>15. CASE Terminated \/ UNCHANGED vars
  BY <1>15 DEF Terminated, vars
<1> QED
  BY <1>1, <1>2, <1>3, <1>4, <1>5, <1>6, <1>7, <1>8, <1>9, <1>10, <1>11,
     <1>12, <1>13, <1>14, <1>15 DEF Next, WorkerStep

\* The parts of IInv that do not count.
LEMMA ControlStep ==
    ASSUME IInv, [Next]_vars
    PROVE  /\ HeldWhenBusy'
           /\ StopIsShutdown'
           /\ ExitedMeansDrained'
           /\ JoinedMeansExited'
           /\ NoSleeperAfterStop'
<1> DEFINE Control == /\ HeldWhenBusy
                      /\ StopIsShutdown
                      /\ ExitedMeansDrained
                      /\ JoinedMeansExited
                      /\ NoSleeperAfterStop
<1> SUFFICES Control'
  OBVIOUS
<1> USE PoolAssumption DEF PoolAssumption, IInv, TypeOK, HeldWhenBusy,
        StopIsShutdown, ExitedMeansDrained, JoinedMeansExited,
        NoSleeperAfterStop, Busy, Waiting
<1>1. ASSUME NEW c \in Clients, NEW t \in Tasks, Enqueue(c, t) PROVE Control'
  BY <1>1 DEF Enqueue, Accepting
<1>2. ASSUME NEW c \in Clients, NEW t \in Tasks, EnqueueStopped(c, t)
      PROVE  Control'
  BY <1>2 DEF EnqueueStopped
<1>3. ASSUME NEW c \in Clients, NotifyOne(c) PROVE Control'
  BY <1>3 DEF NotifyOne
<1>4. ASSUME NEW c \in Clients, CancelAll(c) PROVE Control'
  BY <1>4 DEF CancelAll, Cleared
<1>5. ASSUME NEW w \in Workers, Sleep(w) PROVE Control'
  BY <1>5 DEF Sleep, WaitPredicate
<1>6. ASSUME NEW w \in Workers, SpuriousWake(w) PROVE Control'
  BY <1>6 DEF SpuriousWake
<1>7. ASSUME NEW w \in Workers, Exit(w) PROVE Control'
  BY <1>7 DEF Exit, MayReturn
<1>8. ASSUME NEW w \in Workers, Take(w) PROVE Control'
  BY <1>8 DEF Take, Top, Popped
<1>9. ASSUME NEW w \in Workers, Begin(w) PROVE Control'
  BY <1>9 DEF Begin, Incremented
<1>10. ASSUME NEW w \in Workers, Run(w) PROVE Control'
  BY <1>10 DEF Run
<1>11. ASSUME NEW w \in Workers, End(w) PROVE Control'
  BY <1>11 DEF End
<1>12. CASE Stop
  BY <1>12 DEF Stop
<1>13. CASE NotifyAll
  BY <1>13 DEF NotifyAll, Woken
<1>14. CASE Join
  BY <1>14 DEF Join
<1>15. CASE Terminated \/ UNCHANGED vars
  BY <1>15 DEF Terminated, vars
<1> HIDE DEF Control
<1> QED
  BY <1>1, <1>2, <1>3, <1>4, <1>5, <1>6, <1>7, <1>8, <1>9, <1>10, <1>11,
     <1>12, <1>13, <1>14, <1>15 DEF Next, WorkerStep

\* A task is moved between the queue, one worker and its settled future, and
\* never copied or dropped.
LEMMA OnePlaceStep ==
    ASSUME IInv, [Next]_vars
    PROVE  OnePlace'
<1> USE PoolAssumption DEF PoolAssumption, IInv, TypeOK, HeldWhenBusy, OnePlace,
        Busy, Unfinished
<1>1. ASSUME NEW c \in Clients, NEW t \in Tasks, Enqueue(c, t) PROVE OnePlace'
  BY <1>1 DEF Enqueue, Accepting
<1>2. ASSUME NEW c \in Clients, NEW t \in Tasks, EnqueueStopped(c, t)
      PROVE  OnePlace'
  BY <1>2 DEF EnqueueStopped
<1>3. ASSUME NEW c \in Clients, NotifyOne(c) PROVE OnePlace'
  BY <1>3 DEF NotifyOne, Waiting
<1>4. ASSUME NEW c \in Clients, CancelAll(c) PROVE OnePlace'
  BY <1>4 DEF CancelAll, Cleared
<1>5. ASSUME NEW w \in Workers, Sleep(w) PROVE OnePlace'
  BY <1>5 DEF Sleep
<1>6. ASSUME NEW w \in Workers, SpuriousWake(w) PROVE OnePlace'
  BY <1>6 DEF SpuriousWake
<1>7. ASSUME NEW w \in Workers, Exit(w) PROVE OnePlace'
  BY <1>7 DEF Exit
<1>8. ASSUME NEW w \in Workers, Take(w) PROVE OnePlace'
  BY <1>8 DEF Take, Top, Popped
<1>9. ASSUME NEW w \in Workers, Begin(w) PROVE OnePlace'
  BY <1>9 DEF Begin, Incremented
<1>10. ASSUME NEW w \in Workers, Run(w) PROVE OnePlace'
  BY <1>10 DEF Run
<1>11. ASSUME NEW w \in Workers, End(w) PROVE OnePlace'
  BY <1>11 DEF End
<1>12. CASE Stop
  BY <1>12 DEF Stop
<1>13. CASE NotifyAll
  BY <1>13 DEF NotifyAll, Woken, Waiting
<1>14. CASE Join
  BY <1>14 DEF Join
<1>15. CASE Terminated \/ UNCHANGED vars
  BY <1>15 DEF Terminated, vars
<1> HIDE DEF OnePlace
<1> QED
  BY <1>1, <1>2, <1>3, <1>4, <1>5, <1>6, <1>7, <1>8, <1>9, <1>10, <1>11,
     <1>12, <1>13, <1>14, <1>15 DEF Next, WorkerStep

\* activeCount_ moves by one exactly when a worker enters or leaves Counted.
LEMMA ActiveStep ==
    ASSUME IInv, [Next]_vars
    PROVE  ActiveIsExact'
<1>0. /\ TypeOK
      /\ active = Cardinality(Counted)
      /\ IsFiniteSet(Counted)
      /\ Cardinality(Counted) \in Nat
  BY CountsAreNat DEF IInv, ActiveIsExact
<1>1. ASSUME NEW w \in Workers, Begin(w) PROVE ActiveIsExact'
  <2>1. w \notin Counted /\ Counted' = Counted \cup {w}
    BY <1>0, <1>1 DEF Begin, Counted, TypeOK
  <2>2. active' = active + 1
    BY <1>1 DEF Begin, Incremented
  <2> QED
    BY <1>0, <2>1, <2>2, FS_AddElement DEF ActiveIsExact
<1>2. ASSUME NEW w \in Workers, End(w) PROVE ActiveIsExact'
  <2>1. w \in Counted /\ Counted' = Counted \ {w}
    BY <1>0, <1>2 DEF End, Counted, TypeOK
  <2>2. active' = active - 1
    BY <1>2 DEF End, Decremented
  <2> QED
    BY <1>0, <2>1, <2>2, FS_RemoveElement DEF ActiveIsExact
<1>3. ASSUME active' = active, Counted' = Counted PROVE ActiveIsExact'
  BY <1>0, <1>3 DEF ActiveIsExact
<1> USE <1>0, <1>3 DEF TypeOK, Counted, Waiting
<1>4. ASSUME NEW c \in Clients, NEW t \in Tasks,
             Enqueue(c, t) \/ EnqueueStopped(c, t)
      PROVE  ActiveIsExact'
  BY <1>4 DEF Enqueue, EnqueueStopped
<1>5. ASSUME NEW c \in Clients, NotifyOne(c) \/ CancelAll(c)
      PROVE  ActiveIsExact'
  BY <1>5 DEF NotifyOne, CancelAll
<1>6. ASSUME NEW w \in Workers,
             \/ Sleep(w) \/ SpuriousWake(w) \/ Exit(w)
             \/ Take(w) \/ Run(w)
      PROVE  ActiveIsExact'
  BY <1>6 DEF Sleep, SpuriousWake, Exit, Take, Run
<1>7. CASE Stop \/ NotifyAll \/ Join \/ Terminated \/ UNCHANGED vars
  BY <1>7 DEF Stop, NotifyAll, Woken, Join, Terminated, vars
<1> QED
  BY <1>1, <1>2, <1>4, <1>5, <1>6, <1>7 DEF Next, WorkerStep

\* Only a push lengthens the queue, and it leaves a notification behind; a
\* notification is consumed by a sleeper that becomes a worker at the lock;
\* a worker leaves the lock with a task, or to sleep on an empty queue.
LEMMA WakeupStep ==
    ASSUME IInv, [Next]_vars
    PROVE  NoLostWakeup'
<1> DEFINE q == Cardinality(queue)
           n == Cardinality(Notifying)
           a == Cardinality(AtLock)
<1>0. /\ TypeOK /\ TypeOK'
      /\ NoLostWakeup
      /\ IsFiniteSet(queue) /\ IsFiniteSet(Notifying) /\ IsFiniteSet(AtLock)
      /\ q \in Nat /\ n \in Nat /\ a \in Nat
  BY CountsAreNat, TypeStep DEF IInv
<1>1. SUFFICES ASSUME Waiting' # {}
      PROVE  q' <= n' + a'
  BY DEF NoLostWakeup, q, n, a
<1>2. Waiting # {} => q <= n + a
  BY <1>0 DEF NoLostWakeup
<1> HIDE DEF q, n, a
<1>3. ASSUME NEW c \in Clients, NEW t \in Tasks, Enqueue(c, t)
      PROVE  q' <= n' + a'
  <2>1. /\ queue' = queue \cup {t}
        /\ c \notin Notifying /\ Notifying' = Notifying \cup {c}
        /\ AtLock' = AtLock /\ Waiting' = Waiting
    BY <1>0, <1>3 DEF Enqueue, Notifying, AtLock, Waiting, TypeOK
  <2>2. q' = q \/ q' = q + 1
    <3>1. Cardinality(queue \cup {t}) =
             IF t \in queue THEN Cardinality(queue) ELSE Cardinality(queue) + 1
      BY <1>0, FS_AddElement
    <3> QED
      BY <2>1, <3>1 DEF q
  <2>3. n' = n + 1 /\ a' = a
    BY <1>0, <2>1, FS_AddElement DEF n, a
  <2> QED
    BY <1>0, <1>1, <1>2, <2>1, <2>2, <2>3
<1>4. ASSUME NEW c \in Clients, NEW t \in Tasks, EnqueueStopped(c, t)
      PROVE  q' <= n' + a'
  <2>1. /\ queue' = queue /\ Notifying' = Notifying
        /\ AtLock' = AtLock /\ Waiting' = Waiting
    BY <1>4 DEF EnqueueStopped, Notifying, AtLock, Waiting
  <2> QED
    BY <1>1, <1>2, <2>1 DEF q, n, a
<1>5. ASSUME NEW c \in Clients, NotifyOne(c) PROVE q' <= n' + a'
  <2>1. /\ queue' = queue
        /\ c \in Notifying /\ Notifying' = Notifying \ {c}
    BY <1>0, <1>5 DEF NotifyOne, Notifying, TypeOK
  <2>2. Waiting # {}
    BY <1>0, <1>1, <1>5 DEF NotifyOne, Waiting, TypeOK
  <2>3. PICK w \in Waiting : wpc' = [wpc EXCEPT ![w] = "lock"]
    BY <1>5, <2>2 DEF NotifyOne
  <2>4. w \notin AtLock /\ AtLock' = AtLock \cup {w}
    BY <1>0, <2>3 DEF AtLock, Waiting, TypeOK
  <2>5. q' = q
    BY <2>1 DEF q
  <2>6. n' = n - 1
    BY <1>0, <2>1, FS_RemoveElement DEF n
  <2>7. a' = a + 1
    BY <1>0, <2>4, FS_AddElement DEF a
  <2> QED
    BY <1>0, <1>2, <2>2, <2>5, <2>6, <2>7
<1>6. ASSUME NEW c \in Clients, CancelAll(c) PROVE q' <= n' + a'
  <2>1. q' = 0
    BY <1>6, FS_EmptySet DEF CancelAll, Cleared, q
  <2>2. n' = n /\ a' = a
    BY <1>6 DEF CancelAll, n, a, Notifying, AtLock
  <2> QED
    BY <1>0, <2>1, <2>2
<1>7. ASSUME NEW w \in Workers, Sleep(w) PROVE q' <= n' + a'
  <2>1. q' = 0
    BY <1>7, FS_EmptySet DEF Sleep, WaitPredicate, q
  <2>2. /\ Notifying' = Notifying
        /\ w \in AtLock /\ AtLock' = AtLock \ {w}
    BY <1>0, <1>7 DEF Sleep, Notifying, AtLock, TypeOK
  <2>3. n' = n
    BY <2>2 DEF n
  <2>4. a' = a - 1 /\ a # 0
    BY <1>0, <2>2, FS_RemoveElement, FS_EmptySet DEF a
  <2> QED
    BY <1>0, <2>1, <2>3, <2>4
<1>8. ASSUME NEW w \in Workers, SpuriousWake(w) PROVE q' <= n' + a'
  <2>1. /\ queue' = queue /\ Notifying' = Notifying
        /\ w \notin AtLock /\ AtLock' = AtLock \cup {w} /\ w \in Waiting
    BY <1>0, <1>8 DEF SpuriousWake, Notifying, AtLock, Waiting, TypeOK
  <2>2. q' = q /\ n' = n
    BY <2>1 DEF q, n
  <2>3. a' = a + 1
    BY <1>0, <2>1, FS_AddElement DEF a
  <2> QED
    BY <1>0, <1>2, <2>1, <2>2, <2>3
<1>9. ASSUME NEW w \in Workers, Exit(w) PROVE q' <= n' + a'
  <2>1. q' = 0
    BY <1>9, FS_EmptySet DEF Exit, MayReturn, q
  <2>2. /\ Notifying' = Notifying
        /\ w \in AtLock /\ AtLock' = AtLock \ {w}
    BY <1>0, <1>9 DEF Exit, Notifying, AtLock, TypeOK
  <2>3. n' = n
    BY <2>2 DEF n
  <2>4. a' = a - 1 /\ a # 0
    BY <1>0, <2>2, FS_RemoveElement, FS_EmptySet DEF a
  <2> QED
    BY <1>0, <2>1, <2>3, <2>4
<1>10. ASSUME NEW w \in Workers, Take(w) PROVE q' <= n' + a'
  <2>1. PICK t \in queue : queue' = queue \ {t}
    BY <1>10 DEF Take, Top, Popped
  <2>2. /\ Notifying' = Notifying /\ Waiting' = Waiting
        /\ w \in AtLock /\ AtLock' = AtLock \ {w}
    BY <1>0, <1>10 DEF Take, Notifying, AtLock, Waiting, TypeOK
  <2>3. q' = q - 1
    BY <1>0, <2>1, FS_RemoveElement DEF q
  <2>4. n' = n
    BY <2>2 DEF n
  <2>5. a' = a - 1
    BY <1>0, <2>2, FS_RemoveElement DEF a
  <2> QED
    BY <1>0, <1>1, <1>2, <2>2, <2>3, <2>4, <2>5
<1>11. ASSUME NEW w \in Workers, Begin(w) \/ Run(w) PROVE q' <= n' + a'
  <2>1. /\ queue' = queue /\ Notifying' = Notifying
        /\ AtLock' = AtLock /\ Waiting' = Waiting
    BY <1>0, <1>11 DEF Begin, Run, Notifying, AtLock, Waiting, TypeOK
  <2> QED
    BY <1>1, <1>2, <2>1 DEF q, n, a
<1>12. ASSUME NEW w \in Workers, End(w) PROVE q' <= n' + a'
  <2>1. /\ queue' = queue /\ Notifying' = Notifying /\ Waiting' = Waiting
        /\ w \notin AtLock /\ AtLock' = AtLock \cup {w}
    BY <1>0, <1>12 DEF End, Notifying, AtLock, Waiting, TypeOK
  <2>2. q' = q /\ n' = n
    BY <2>1 DEF q, n
  <2>3. a' = a + 1
    BY <1>0, <2>1, FS_AddElement DEF a
  <2> QED
    BY <1>0, <1>1, <1>2, <2>1, <2>2, <2>3
<1>13. CASE NotifyAll
  <2>1. Waiting' = {}
    BY <1>0, <1>13 DEF NotifyAll, Woken, Waiting, TypeOK
  <2> QED
    BY <1>1, <2>1
<1>14. CASE Stop \/ Join \/ Terminated \/ UNCHANGED vars
  <2>1. /\ queue' = queue /\ Notifying' = Notifying
        /\ AtLock' = AtLock /\ Waiting' = Waiting
    BY <1>14 DEF Stop, Join, Terminated, vars, Notifying, AtLock, Waiting
  <2> QED
    BY <1>1, <1>2, <2>1 DEF q, n, a
<1> QED
  BY <1>3, <1>4, <1>5, <1>6, <1>7, <1>8, <1>9, <1>10, <1>11, <1>12, <1>13,
     <1>14 DEF Next, WorkerStep

-----------------------------------------------------------------------------

\* The pool starts with every thread at the lock and nothing queued.
LEMMA InitEstablishes == Init => IInv
<1> SUFFICES ASSUME Init PROVE IInv
  OBVIOUS
<1>1. TypeOK
  BY DEF Init, TypeOK, FutureState, WorkerPC, OwnerPC
<1>2. queue = {} /\ Waiting = {} /\ Counted = {} /\ Busy = {} /\ Unfinished = {}
  BY DEF Init, Waiting, Counted, Busy, Unfinished
<1>3. ActiveIsExact
  BY <1>2, FS_EmptySet DEF Init, ActiveIsExact
<1>4. NoLostWakeup /\ NoSleeperAfterStop
  BY <1>2 DEF NoLostWakeup, NoSleeperAfterStop
<1>5. /\ HeldWhenBusy /\ StopIsShutdown /\ ExitedMeansDrained
      /\ JoinedMeansExited /\ OnePlace
  BY <1>2 DEF Init, HeldWhenBusy, StopIsShutdown, ExitedMeansDrained,
              JoinedMeansExited, OnePlace
<1> QED
  BY <1>1, <1>3, <1>4, <1>5 DEF IInv

\* IInv holds in every state of every run of workerLoop, enqueue, cancelAll
\* and shutdown, whatever the threads, tasks and priorities.
THEOREM Invariance == Spec => []IInv
<1>1. IInv /\ [Next]_vars => IInv'
  BY TypeStep, ControlStep, OnePlaceStep, ActiveStep, WakeupStep DEF IInv
<1> QED
  BY InitEstablishes, <1>1, PTL DEF Spec

\* Every accepted task is in exactly one place (enqueue, workerLoop).
THEOREM OnePlaceHolds == Spec => []OnePlace
<1>1. IInv => OnePlace
  BY DEF IInv
<1> QED
  BY <1>1, Invariance, PTL

\* While a worker sleeps, each queued task has a notification under way or a
\* worker on its way to the lock: notify_one after the unlock loses nothing.
THEOREM NoLostWakeupHolds == Spec => []NoLostWakeup
<1>1. IInv => NoLostWakeup
  BY DEF IInv
<1> QED
  BY <1>1, Invariance, PTL

\* activeCount_ is the number of workers executing a task.
THEOREM ActiveIsExactHolds == Spec => []ActiveIsExact
<1>1. IInv => ActiveIsExact
  BY DEF IInv
<1> QED
  BY <1>1, Invariance, PTL

\* shutdown is graceful: when join returns nothing accepted is unfinished.
THEOREM DrainedWhenJoinedHolds == Spec => []DrainedWhenJoined
<1>1. IInv => DrainedWhenJoined
  <2> SUFFICES ASSUME IInv, owner = "joined", Workers # {}
      PROVE  queue = {} /\ active = 0 /\ \A t \in Tasks : future[t] # "pending"
    BY DEF DrainedWhenJoined
  <2>1. \A w \in Workers : wpc[w] = "exited"
    BY DEF IInv, JoinedMeansExited
  <2>2. queue = {}
    BY <2>1 DEF IInv, ExitedMeansDrained
  <2>3. Counted = {} /\ Unfinished = {}
    BY <2>1 DEF Counted, Unfinished
  <2>4. active = 0
    BY <2>3, FS_EmptySet DEF IInv, ActiveIsExact
  <2> QED
    BY <2>2, <2>3, <2>4 DEF IInv, OnePlace
<1> QED
  BY <1>1, Invariance, PTL

\* A shared state is never set twice: enqueue only uses fresh futures, and by
\* OnePlace cancelAll and the workers only touch tasks that are pending.
THEOREM SettlesOnceHolds == Spec => SettlesOnce
<1> DEFINE Once == \A t \in Tasks :
                     future[t] \in {"value", "error", "broken", "refused"} =>
                       future'[t] = future[t]
<1>1. ASSUME IInv, [Next]_vars PROVE Once
  <2> USE <1>1 DEF IInv, TypeOK, OnePlace
  <2>1. ASSUME NEW c \in Clients, NEW t \in Tasks,
               Enqueue(c, t) \/ EnqueueStopped(c, t)
        PROVE  Once
    BY <2>1 DEF Enqueue, EnqueueStopped
  <2>2. ASSUME NEW c \in Clients, NotifyOne(c) \/ CancelAll(c) PROVE Once
    BY <2>2 DEF NotifyOne, CancelAll
  <2>3. ASSUME NEW w \in Workers, Run(w) PROVE Once
    BY <2>3 DEF Run, Unfinished
  <2>4. ASSUME NEW w \in Workers,
               \/ Sleep(w) \/ SpuriousWake(w) \/ Exit(w)
               \/ Take(w) \/ Begin(w) \/ End(w)
        PROVE  Once
    BY <2>4 DEF Sleep, SpuriousWake, Exit, Take, Begin, End
  <2>5. CASE Stop \/ NotifyAll \/ Join \/ Terminated \/ UNCHANGED vars
    BY <2>5 DEF Stop, NotifyAll, Join, Terminated, vars
  <2> HIDE DEF Once
  <2> QED
    BY <2>1, <2>2, <2>3, <2>4, <2>5 DEF Next, WorkerStep
<1>2. IInv /\ [Next]_vars => [Once]_vars
  BY <1>1
<1> QED
  BY <1>2, Invariance, PTL DEF Spec, SettlesOnce

\* Of two queued tasks the less urgent never gets a worker first: only Take
\* removes one task of several, and it removes a smallest number.
THEOREM UrgentFirstHolds == Spec => UrgentFirst
<1> DEFINE Ordered == \A t, u \in queue :
                        (prio[t] < prio[u] /\ u \notin queue') => t \notin queue'
<1>1. ASSUME IInv, [Next]_vars PROVE Ordered
  <2> USE <1>1 DEF IInv, TypeOK
  <2>1. ASSUME NEW c \in Clients, NEW t \in Tasks,
               Enqueue(c, t) \/ EnqueueStopped(c, t)
        PROVE  Ordered
    BY <2>1 DEF Enqueue, EnqueueStopped
  <2>2. ASSUME NEW c \in Clients, NotifyOne(c) \/ CancelAll(c) PROVE Ordered
    BY <2>2 DEF NotifyOne, CancelAll, Cleared
  <2>3. ASSUME NEW w \in Workers, Take(w) PROVE Ordered
    <3>1. PICK s \in Top : queue' = queue \ {s}
      BY <2>3 DEF Take, Popped
    <3>2. \A u \in queue : prio[s] <= prio[u]
      BY <3>1 DEF Top
    <3>3. \A u \in queue : prio[u] \in Nat
      BY PoolAssumption DEF PoolAssumption
    <3> QED
      BY <3>1, <3>2, <3>3 DEF Top
  <2>4. ASSUME NEW w \in Workers,
               \/ Sleep(w) \/ SpuriousWake(w) \/ Exit(w)
               \/ Begin(w) \/ Run(w) \/ End(w)
        PROVE  Ordered
    BY <2>4 DEF Sleep, SpuriousWake, Exit, Begin, Run, End
  <2>5. CASE Stop \/ NotifyAll \/ Join \/ Terminated \/ UNCHANGED vars
    BY <2>5 DEF Stop, NotifyAll, Join, Terminated, vars
  <2> HIDE DEF Ordered
  <2> QED
    BY <2>1, <2>2, <2>3, <2>4, <2>5 DEF Next, WorkerStep
<1>2. IInv /\ [Next]_vars => [Ordered]_vars
  BY <1>1
<1> QED
  BY <1>2, Invariance, PTL DEF Spec, UrgentFirst

-----------------------------------------------------------------------------
(* Refinement.  Push, refusal, pop, settlement, cancellation and stop_ are *)
(* the executor's steps; everything else the threads do is invisible.      *)

\* The refinement mapping, as terms of its own.
status == [t \in Tasks |-> StatusOf(t)]
slot == [w \in Workers |-> IF w \in Unfinished THEN held[w] ELSE NoTask]

LEMMA StatusStutters ==
    ASSUME future' = future, queue' = queue
    PROVE  status' = status
BY DEF status, StatusOf

LEMMA PopIsStart ==
    ASSUME IInv, NEW w \in Workers, Take(w)
    PROVE  \E t \in Tasks : Executor!Start(t, w)
<1> USE PoolAssumption DEF PoolAssumption, IInv, TypeOK, OnePlace
<1>1. PICK t \in Top : queue' = queue \ {t} /\ held' = [held EXCEPT ![w] = t]
  BY DEF Take, Popped
<1>2. /\ t \in queue /\ t \in Tasks /\ future[t] = "pending"
      /\ \A u \in queue : prio[t] <= prio[u]
  BY <1>1 DEF Top
<1>3. /\ wpc[w] = "lock" /\ wpc' = [wpc EXCEPT ![w] = "taken"]
      /\ future' = future /\ prio' = prio /\ stop' = stop
  BY DEF Take
<1>4. slot[w] = NoTask
  BY <1>3 DEF slot, Unfinished
<1>5. status[t] = "pending"
  BY <1>2 DEF status, StatusOf
<1>6. \A u \in Tasks : status[u] = "pending" => prio[t] <= prio[u]
  <2> SUFFICES ASSUME NEW u \in Tasks, status[u] = "pending" PROVE u \in queue
    BY <1>2
  <2>1. future[u] \in FutureState
    OBVIOUS
  <2> QED
    BY <2>1 DEF status, StatusOf, FutureState
<1>7. status' = [status EXCEPT ![t] = "running"]
  <2>1. \A u \in Tasks : u # t => StatusOf(u)' = StatusOf(u)
    BY <1>1, <1>3 DEF StatusOf
  <2>2. StatusOf(t)' = "running"
    BY <1>1, <1>2, <1>3 DEF StatusOf
  <2> QED
    BY <2>1, <2>2 DEF status
<1>8. slot' = [slot EXCEPT ![w] = t]
  BY <1>1, <1>3 DEF slot, Unfinished
<1> QED
  BY <1>2, <1>3, <1>4, <1>5, <1>6, <1>7, <1>8
  DEF Executor!Start, status, slot

LEMMA RunIsSettle ==
    ASSUME IInv, NEW w \in Workers, Run(w)
    PROVE  Executor!Settle(w)
<1> USE PoolAssumption DEF PoolAssumption, IInv, TypeOK, OnePlace
<1>1. /\ wpc[w] = "running" /\ wpc' = [wpc EXCEPT ![w] = "ran"]
      /\ queue' = queue /\ held' = held /\ prio' = prio /\ stop' = stop
  BY DEF Run
<1>2. PICK outcome \in {"value", "error"} :
        future' = [future EXCEPT ![held[w]] = outcome]
  BY DEF Run
<1>3. w \in Unfinished /\ held[w] \in Tasks /\ slot[w] = held[w]
  BY <1>1 DEF Unfinished, HeldWhenBusy, Busy, slot
<1>4. status' = [status EXCEPT ![held[w]] = "settled"]
  <2>1. PICK t \in Tasks : t = held[w]
    BY <1>3
  <2>2. \A u \in Tasks : u # t => StatusOf(u)' = StatusOf(u)
    BY <1>1, <1>2, <2>1 DEF StatusOf
  <2>3. StatusOf(t)' = "settled"
    BY <1>1, <1>2, <2>1 DEF StatusOf
  <2>4. status' = [status EXCEPT ![t] = "settled"]
    BY <2>2, <2>3 DEF status
  <2> QED
    BY <2>1, <2>4
<1>5. slot' = [slot EXCEPT ![w] = NoTask]
  BY <1>1 DEF slot, Unfinished
<1> QED
  BY <1>1, <1>3, <1>4, <1>5 DEF Executor!Settle, status, slot

LEMMA CancelAllIsCancelPending ==
    ASSUME IInv, NEW c \in Clients, CancelAll(c)
    PROVE  Executor!CancelPending
<1> USE DEF IInv, TypeOK, OnePlace
<1>1. /\ queue # {} /\ queue' = {}
      /\ future' = [t \in Tasks |-> IF t \in queue THEN "broken" ELSE future[t]]
      /\ wpc' = wpc /\ held' = held /\ prio' = prio /\ stop' = stop
  BY DEF CancelAll, Cleared
<1>2. \A t \in Tasks : status[t] = "pending" <=> t \in queue
  BY DEF status, StatusOf, FutureState
<1>3. \A t \in Tasks : status'[t] = IF t \in queue THEN "cancelled" ELSE status[t]
  <2>1. \A t \in queue : StatusOf(t)' = "cancelled"
    BY <1>1 DEF StatusOf
  <2>2. \A t \in Tasks \ queue : StatusOf(t)' = StatusOf(t)
    BY <1>1 DEF StatusOf
  <2> QED
    BY <2>1, <2>2 DEF status
<1>4. slot' = slot
  BY <1>1 DEF slot, Unfinished
<1>5. status' = [t \in Tasks |-> IF status[t] = "pending" THEN "cancelled"
                                                          ELSE status[t]]
  BY <1>2, <1>3 DEF status
<1> QED
  BY <1>1, <1>2, <1>4, <1>5 DEF Executor!CancelPending, status, slot

\* Whatever the threads do, the pool behaves as the executor of TaskExecutor:
\* accepted tasks start at most once, in order of urgency, and none is accepted
\* after stop_.
THEOREM RefinesExecutor == Spec => Executor!Safety
<1>1. Init => Executor!Init
  BY DEF Init, Executor!Init, StatusOf, Unfinished
<1>2. ASSUME IInv, [Next]_vars PROVE [Executor!Next]_Executor!vars
  <2> USE <1>2 DEF IInv, TypeOK
  <2> DEFINE Stutter == UNCHANGED <<status, prio, slot, ~stop>>
  <2>0. Stutter => UNCHANGED Executor!vars
    BY DEF Executor!vars, status, slot
  <2>1. ASSUME NEW c \in Clients, NEW t \in Tasks, Enqueue(c, t)
        PROVE  Executor!Submit(t)
    <3>1. status[t] = "new" /\ status' = [status EXCEPT ![t] = "pending"]
      <4>1. StatusOf(t) = "new"
        BY <2>1 DEF Enqueue, StatusOf
      <4>2. StatusOf(t)' = "pending"
        BY <2>1 DEF Enqueue, StatusOf
      <4>3. \A u \in Tasks : u # t => StatusOf(u)' = StatusOf(u)
        BY <2>1 DEF Enqueue, StatusOf
      <4> QED
        BY <4>1, <4>2, <4>3 DEF status
    <3>2. slot' = slot /\ prio' = prio /\ ~stop /\ stop' = stop
      BY <2>1 DEF Enqueue, Accepting, slot, Unfinished
    <3> QED
      BY <3>1, <3>2 DEF Executor!Submit, status, slot
  <2>2. ASSUME NEW c \in Clients, NEW t \in Tasks, EnqueueStopped(c, t)
        PROVE  Executor!Refuse(t)
    <3>1. status[t] = "new" /\ status' = [status EXCEPT ![t] = "refused"]
      <4>1. StatusOf(t) = "new" /\ StatusOf(t)' = "refused"
        BY <2>2 DEF EnqueueStopped, StatusOf
      <4>2. \A u \in Tasks : u # t => StatusOf(u)' = StatusOf(u)
        BY <2>2 DEF EnqueueStopped, StatusOf
      <4> QED
        BY <4>1, <4>2 DEF status
    <3>2. slot' = slot /\ prio' = prio /\ stop /\ stop' = stop
      BY <2>2 DEF EnqueueStopped, slot, Unfinished
    <3> QED
      BY <3>1, <3>2 DEF Executor!Refuse, status, slot
  <2>3. ASSUME NEW c \in Clients, NotifyOne(c) PROVE Stutter
    <3>1. future' = future /\ queue' = queue /\ prio' = prio /\ stop' = stop
      BY <2>3 DEF NotifyOne
    <3>2. slot' = slot
      BY <2>3 DEF NotifyOne, Waiting, slot, Unfinished
    <3> QED
      BY <3>1, <3>2, StatusStutters
  <2>4. ASSUME NEW w \in Workers,
               \/ Sleep(w) \/ SpuriousWake(w) \/ Exit(w)
               \/ Begin(w) \/ End(w)
        PROVE  Stutter
    <3>1. future' = future /\ queue' = queue /\ prio' = prio /\ stop' = stop
      BY <2>4 DEF Sleep, SpuriousWake, Exit, Begin, End
    <3>2. slot' = slot
      BY <2>4 DEF Sleep, SpuriousWake, Exit, Begin, End, slot, Unfinished
    <3> QED
      BY <3>1, <3>2, StatusStutters
  <2>5. CASE Stop
    <3>1. future' = future /\ queue' = queue /\ prio' = prio
      BY <2>5 DEF Stop
    <3>2. ~stop /\ stop' /\ slot' = slot
      BY <2>5 DEF Stop, StopIsShutdown, slot, Unfinished
    <3> QED
      BY <3>1, <3>2, StatusStutters DEF Executor!Close, Executor!Next, status, slot
  <2>6. CASE NotifyAll \/ Join \/ Terminated \/ UNCHANGED vars
    <3>1. future' = future /\ queue' = queue /\ prio' = prio /\ stop' = stop
      BY <2>6 DEF NotifyAll, Join, Terminated, vars
    <3>2. slot' = slot
      BY <2>6 DEF NotifyAll, Woken, Waiting, Join, Terminated, vars, slot,
                  Unfinished
    <3>3. Stutter
      BY <3>1, <3>2, StatusStutters
    <3> QED
      BY <2>0, <3>3
  <2> HIDE DEF Stutter
  <2> QED
    BY <2>0, <2>1, <2>2, <2>3, <2>4, <2>5, <2>6, PopIsStart, RunIsSettle,
       CancelAllIsCancelPending
    DEF Next, WorkerStep, Executor!Next
<1> QED
  BY <1>1, <1>2, Invariance, PTL DEF Spec, Executor!Safety

-----------------------------------------------------------------------------
(* What AcceptedSettles and ShutdownReturns rest on. *)

\* While a task is pending in a pool that has workers, one of them is at work,
\* on its way to the queue, or about to be notified; and while the owner joins,
\* a worker that has not left is not asleep.
NeverStuck ==
    /\ Workers # {} /\ (\E t \in Tasks : future[t] = "pending") =>
         \/ Unfinished # {}
         \/ queue # {} /\ (AtLock # {} \/ Busy # {} \/ Notifying # {})
    /\ owner = "joining" =>
         \/ \A w \in Workers : wpc[w] = "exited"
         \/ AtLock # {} \/ Busy # {}

\* ThreadPool::workerLoop and shutdown: whatever notify_one woke, lost or was
\* late for, no state of the pool is one where everybody sleeps over a task or
\* over a join.
THEOREM NeverStuckHolds == Spec => []NeverStuck
<1>1. ASSUME IInv, Workers # {}, NEW t \in Tasks, future[t] = "pending"
      PROVE  \/ Unfinished # {}
             \/ queue # {} /\ (AtLock # {} \/ Busy # {} \/ Notifying # {})
  <2> SUFFICES ASSUME t \in queue
               PROVE  AtLock # {} \/ Busy # {} \/ Notifying # {}
    BY <1>1 DEF IInv, OnePlace
  <2>1. CASE Waiting = {}
    <3>1. \A w \in Workers : wpc[w] \notin {"wait", "exited"}
      BY <1>1, <2>1 DEF IInv, ExitedMeansDrained, Waiting
    <3>2. PICK w \in Workers : TRUE
      BY <1>1
    <3>3. wpc[w] \in {"lock", "taken", "running", "ran"}
      BY <1>1, <3>1 DEF IInv, TypeOK, WorkerPC
    <3> QED
      BY <3>3 DEF AtLock, Busy
  <2>2. CASE Waiting # {}
    <3> SUFFICES ASSUME AtLock = {}, Notifying = {} PROVE FALSE
      OBVIOUS
    <3>1. Cardinality(queue) <= 0
      <4>1. Cardinality(AtLock) = 0 /\ Cardinality(Notifying) = 0
        BY FS_EmptySet
      <4> QED
        BY <1>1, <2>2, <4>1 DEF IInv, NoLostWakeup
    <3>2. IsFiniteSet(queue)
      BY <1>1, PoolAssumption, FS_Subset DEF IInv, TypeOK
    <3> QED
      BY <3>1, <3>2, FS_EmptySet, FS_CardinalityType
  <2> QED
    BY <2>1, <2>2
<1>2. ASSUME IInv, owner = "joining"
      PROVE  \/ \A w \in Workers : wpc[w] = "exited"
             \/ AtLock # {} \/ Busy # {}
  <2>1. \A w \in Workers : wpc[w] # "wait"
    BY <1>2 DEF IInv, NoSleeperAfterStop, Waiting
  <2>2. \A w \in Workers :
          wpc[w] \in {"lock", "taken", "running", "ran", "exited"}
    BY <1>2, <2>1 DEF IInv, TypeOK, WorkerPC
  <2> QED
    BY <2>2 DEF AtLock, Busy
<1>3. IInv => NeverStuck
  BY <1>1, <1>2 DEF NeverStuck
<1> QED
  BY <1>3, Invariance, PTL

=============================================================================
