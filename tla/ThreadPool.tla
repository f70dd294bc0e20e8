----------------------------- MODULE ThreadPool -----------------------------
(***************************************************************************)
(* The priority thread pool of the native core (ThreadPool.hpp/.cpp).      *)
(*                                                                         *)
(* Every block of the code that runs under queueMutex_ is one atomic       *)
(* action; everything between two such blocks is a step of its own, so the *)
(* gap between pushing a task and notify_one, the gap between raising      *)
(* stop_ and notify_all, and the gap between taking a task and counting it *)
(* as active are all visible to the other threads.                         *)
(***************************************************************************)
EXTENDS Naturals, FiniteSets

CONSTANTS
    Workers,    \* the pool's threads (hardware_concurrency() may give none)
    Clients,    \* threads that call enqueue and cancelAll
    Tasks,      \* the calls to enqueue there may ever be, one task each
    Priority,   \* TaskPriority: 0 is IMMEDIATE, 4 is BACKGROUND
    NoTask      \* "holds no task"

ASSUME PoolAssumption ==
    /\ IsFiniteSet(Workers)
    /\ IsFiniteSet(Clients)
    /\ IsFiniteSet(Tasks)
    /\ Priority \subseteq Nat
    /\ NoTask \notin Tasks

VARIABLES
    queue,      \* tasks_: what is in the priority queue
    prio,       \* prio[t]: the priority t is enqueued with
    future,     \* future[t]: what the holder of the std::future would see
    stop,       \* stop_
    wpc,        \* wpc[w]: where worker w is in workerLoop
    held,       \* held[w]: the local variable `task` of worker w
    active,     \* activeCount_
    cpc,        \* cpc[c]: whether client c still has to call notify_one
    owner       \* the thread that destroys the pool

vars == <<queue, prio, future, stop, wpc, held, active, cpc, owner>>

(***************************************************************************)
(* none: not enqueued.  pending: enqueued, not finished.  value, error:    *)
(* the packaged_task returned or threw.  broken: destroyed without having  *)
(* run (broken_promise).  refused: enqueue threw.                          *)
(***************************************************************************)
FutureState == {"none", "pending", "value", "error", "broken", "refused"}

\* lock: about to take queueMutex_ and test the predicate; wait: asleep on
\* condition_; taken: left the lock with a task; running: inside task.func();
\* ran: func returned or threw; exited: workerLoop returned.
WorkerPC == {"lock", "wait", "taken", "running", "ran", "exited"}

OwnerPC == {"up", "stopping", "joining", "joined"}

TypeOK ==
    /\ queue \subseteq Tasks
    /\ prio \in [Tasks -> Priority]
    /\ future \in [Tasks -> FutureState]
    /\ stop \in BOOLEAN
    /\ wpc \in [Workers -> WorkerPC]
    /\ held \in [Workers -> Tasks \cup {NoTask}]
    /\ active \in Nat
    /\ cpc \in [Clients -> {"idle", "notify"}]
    /\ owner \in OwnerPC

Waiting == {w \in Workers : wpc[w] = "wait"}

AtLock == {w \in Workers : wpc[w] = "lock"}

Notifying == {c \in Clients : cpc[c] = "notify"}

Init ==
    /\ queue = {}
    /\ prio \in [Tasks -> Priority]
    /\ future = [t \in Tasks |-> "none"]
    /\ stop = FALSE
    /\ wpc = [w \in Workers |-> "lock"]
    /\ held = [w \in Workers |-> NoTask]
    /\ active = 0
    /\ cpc = [c \in Clients |-> "idle"]
    /\ owner = "up"

-----------------------------------------------------------------------------
(* Threads that use the pool. *)

\* enqueue, up to the end of the locked block: a stopped pool throws.
Accepting_Always == TRUE
Accepting == ~stop

Enqueue(c, t) ==
    /\ cpc[c] = "idle"
    /\ future[t] = "none"
    /\ Accepting
    /\ queue' = queue \cup {t}
    /\ future' = [future EXCEPT ![t] = "pending"]
    /\ cpc' = [cpc EXCEPT ![c] = "notify"]
    /\ UNCHANGED <<prio, stop, wpc, held, active, owner>>

EnqueueStopped(c, t) ==
    /\ cpc[c] = "idle"
    /\ future[t] = "none"
    /\ stop
    /\ future' = [future EXCEPT ![t] = "refused"]
    /\ UNCHANGED <<queue, prio, stop, wpc, held, active, cpc, owner>>

\* condition_.notify_one(): wakes one sleeper, and is lost if nobody sleeps.
NotifyOne(c) ==
    /\ cpc[c] = "notify"
    /\ cpc' = [cpc EXCEPT ![c] = "idle"]
    /\ \/ /\ Waiting = {}
          /\ UNCHANGED wpc
       \/ \E w \in Waiting : wpc' = [wpc EXCEPT ![w] = "lock"]
    /\ UNCHANGED <<queue, prio, future, stop, held, active, owner>>

\* cancelAll: no task ever has a `cancelled` flag, so all it does is empty
\* the queue, which destroys the packaged_tasks.
Cleared_Marked == queue
Cleared == {}

CancelAll(c) ==
    /\ cpc[c] = "idle"
    /\ queue # {}
    /\ queue' = Cleared
    /\ future' = [t \in Tasks |-> IF t \in queue THEN "broken" ELSE future[t]]
    /\ UNCHANGED <<prio, stop, wpc, held, active, cpc, owner>>

-----------------------------------------------------------------------------
(* workerLoop *)

\* The predicate of condition_.wait; while it is false the worker releases
\* the mutex and sleeps.
WaitPredicate_NoTasks == stop
WaitPredicate == stop \/ queue # {}

Sleep(w) ==
    /\ wpc[w] = "lock"
    /\ ~WaitPredicate
    /\ wpc' = [wpc EXCEPT ![w] = "wait"]
    /\ UNCHANGED <<queue, prio, future, stop, held, active, cpc, owner>>

\* A condition variable may wake without a notification.
SpuriousWake(w) ==
    /\ wpc[w] = "wait"
    /\ wpc' = [wpc EXCEPT ![w] = "lock"]
    /\ UNCHANGED <<queue, prio, future, stop, held, active, cpc, owner>>

\* What lets a worker return from workerLoop.
MayReturn_Early == stop
MayReturn == stop /\ queue = {}

Exit(w) ==
    /\ wpc[w] = "lock"
    /\ MayReturn
    /\ wpc' = [wpc EXCEPT ![w] = "exited"]
    /\ UNCHANGED <<queue, prio, future, stop, held, active, cpc, owner>>

\* tasks_.top() under Task::operator<: a smallest priority number.  Ties are
\* broken by the layout of the heap, which is not modelled: any may win.
Top_Reversed == {t \in queue : \A u \in queue : prio[u] <= prio[t]}
Top == {t \in queue : \A u \in queue : prio[t] <= prio[u]}

\* tasks_.pop()
Popped_Kept(t) == queue
Popped(t) == queue \ {t}

Take(w) ==
    /\ wpc[w] = "lock"
    /\ WaitPredicate
    /\ \E t \in Top :
         /\ queue' = Popped(t)
         /\ held' = [held EXCEPT ![w] = t]
    /\ wpc' = [wpc EXCEPT ![w] = "taken"]
    /\ UNCHANGED <<prio, future, stop, active, cpc, owner>>

\* activeCount_++.  The `cancelled` test before it never skips a task: nothing
\* in the repository sets that pointer.
Incremented == active + 1

Begin(w) ==
    /\ wpc[w] = "taken"
    /\ active' = Incremented
    /\ wpc' = [wpc EXCEPT ![w] = "running"]
    /\ UNCHANGED <<queue, prio, future, stop, held, cpc, owner>>

\* task.func(): the packaged_task keeps what the function returned or threw.
Run(w) ==
    /\ wpc[w] = "running"
    /\ \E outcome \in {"value", "error"} :
         future' = [future EXCEPT ![held[w]] = outcome]
    /\ wpc' = [wpc EXCEPT ![w] = "ran"]
    /\ UNCHANGED <<queue, prio, stop, held, active, cpc, owner>>

\* activeCount_--, and the local `task` goes out of scope.
Decremented(w) == active - 1

End(w) ==
    /\ wpc[w] = "ran"
    /\ active' = Decremented(w)
    /\ held' = [held EXCEPT ![w] = NoTask]
    /\ wpc' = [wpc EXCEPT ![w] = "lock"]
    /\ UNCHANGED <<queue, prio, future, stop, cpc, owner>>

-----------------------------------------------------------------------------
(* shutdown, which the destructor calls. *)

Stop ==
    /\ owner = "up"
    /\ stop' = TRUE
    /\ owner' = "stopping"
    /\ UNCHANGED <<queue, prio, future, wpc, held, active, cpc>>

Woken_One == IF Waiting = {} THEN {} ELSE {CHOOSE w \in Waiting : TRUE}
Woken == Waiting

NotifyAll ==
    /\ owner = "stopping"
    /\ wpc' = [w \in Workers |-> IF w \in Woken THEN "lock" ELSE wpc[w]]
    /\ owner' = "joining"
    /\ UNCHANGED <<queue, prio, future, stop, held, active, cpc>>

Join ==
    /\ owner = "joining"
    /\ \A w \in Workers : wpc[w] = "exited"
    /\ owner' = "joined"
    /\ UNCHANGED <<queue, prio, future, stop, wpc, held, active, cpc>>

\* Every call has been made and the pool is gone: nothing is left to happen.
Terminated ==
    /\ owner = "joined"
    /\ \A c \in Clients : cpc[c] = "idle"
    /\ \A t \in Tasks : future[t] # "none"
    /\ UNCHANGED vars

-----------------------------------------------------------------------------

WorkerStep(w) ==
    Sleep(w) \/ Exit(w) \/ Take(w) \/ Begin(w) \/ Run(w) \/ End(w)

Next ==
    \/ \E c \in Clients, t \in Tasks : Enqueue(c, t) \/ EnqueueStopped(c, t)
    \/ \E c \in Clients : NotifyOne(c) \/ CancelAll(c)
    \/ \E w \in Workers : WorkerStep(w) \/ SpuriousWake(w)
    \/ Stop \/ NotifyAll \/ Join
    \/ Terminated

\* Every thread that can run is run.  Nothing forces anyone to submit a task,
\* to cancel, to shut down, or a sleeper to wake by itself.  That Run is fair
\* says that the task returns: a guest that loops for ever is not excused.
Fairness ==
    /\ \A w \in Workers : WF_vars(WorkerStep(w))
    /\ \A c \in Clients : WF_vars(NotifyOne(c))
    /\ WF_vars(NotifyAll)
    /\ WF_vars(Join)

Spec == Init /\ [][Next]_vars /\ Fairness

-----------------------------------------------------------------------------
(* Properties *)

Busy == {w \in Workers : wpc[w] \in {"taken", "running", "ran"}}

Counted == {w \in Workers : wpc[w] \in {"running", "ran"}}

Unfinished == {w \in Workers : wpc[w] \in {"taken", "running"}}

\* Every accepted task is in exactly one place: in the queue, in the hands of
\* exactly one worker, or settled.  (workerLoop takes under the lock what
\* enqueue put there; nothing runs twice and nothing vanishes.)
OnePlace ==
    /\ \A t \in queue : future[t] = "pending"
    /\ \A w \in Unfinished : held[w] \notin queue /\ future[held[w]] = "pending"
    /\ \A v, w \in Unfinished : held[v] = held[w] => v = w
    /\ \A t \in Tasks : future[t] = "pending" =>
         t \in queue \/ \E w \in Unfinished : held[w] = t

\* activeCount_ counts exactly the threads between its increment and its
\* decrement, whether their tasks return or throw.
ActiveIsExact == active = Cardinality(Counted)

\* No lost wakeup: as long as some worker sleeps, every queued task has a
\* notification under way or a worker on its way to the lock to take it.
NoLostWakeup ==
    Waiting # {} =>
      Cardinality(queue) <= Cardinality(Notifying) + Cardinality(AtLock)

\* A stopped pool leaves no sleeper behind once notify_all has run: the join
\* that follows can wait only for workers that are working.
NoSleeperAfterStop ==
    owner \in {"joining", "joined"} => Waiting = {}

\* "Graceful shutdown" (ThreadPool.hpp): when join returns, everything that
\* was ever accepted has been run or cancelled, and nothing is running.
DrainedWhenJoined ==
    (owner = "joined" /\ Workers # {}) =>
      /\ queue = {}
      /\ active = 0
      /\ \A t \in Tasks : future[t] # "pending"

\* A future is settled once and for all; a refused or cancelled task never
\* runs, and a task that has settled is never run again.
SettlesOnce ==
    [][\A t \in Tasks :
         future[t] \in {"value", "error", "broken", "refused"} =>
           future'[t] = future[t]]_vars

\* TaskPriority, "Lower number = higher priority": of two tasks that are
\* queued together, the less urgent one never gets a worker before the other.
UrgentFirst ==
    [][\A t, u \in queue :
         (prio[t] < prio[u] /\ u \notin queue') => t \notin queue']_vars

\* Whatever is accepted is eventually settled, even if a shutdown intervenes.
AcceptedSettles ==
    \A t \in Tasks : (future[t] = "pending") ~> (future[t] # "pending")

\* shutdown returns: no worker sleeps through it or waits for ever.
ShutdownReturns == (owner = "stopping") ~> (owner = "joined")

-----------------------------------------------------------------------------
(* The inductive invariant behind the safety properties. *)

\* A worker holds a task exactly while it is busy with it.
HeldWhenBusy == \A w \in Workers : held[w] # NoTask <=> w \in Busy

\* Only shutdown raises stop_, and raises it first.
StopIsShutdown == stop <=> owner # "up"

\* A worker leaves only a stopped pool with nothing queued; as a stopped pool
\* accepts nothing, the queue stays empty from then on.
ExitedMeansDrained ==
    \A w \in Workers : wpc[w] = "exited" => stop /\ queue = {}

JoinedMeansExited ==
    owner = "joined" => \A w \in Workers : wpc[w] = "exited"

IInv ==
    /\ TypeOK
    /\ HeldWhenBusy
    /\ StopIsShutdown
    /\ ExitedMeansDrained
    /\ JoinedMeansExited
    /\ OnePlace
    /\ ActiveIsExact
    /\ NoLostWakeup
    /\ NoSleeperAfterStop

-----------------------------------------------------------------------------
(* The pool implements the executor of TaskExecutor. *)

StatusOf(t) ==
    CASE future[t] = "none" -> "new"
      [] future[t] = "pending" -> IF t \in queue THEN "pending" ELSE "running"
      [] future[t] \in {"value", "error"} -> "settled"
      [] future[t] = "broken" -> "cancelled"
      [] future[t] = "refused" -> "refused"

Executor == INSTANCE TaskExecutor WITH
    Slots <- Workers,
    status <- [t \in Tasks |-> StatusOf(t)],
    urgency <- prio,
    slot <- [w \in Workers |-> IF w \in Unfinished THEN held[w] ELSE NoTask],
    open <- ~stop

\* The pool is such an executor, including that pending work gets started.
ImplementsExecutor == Executor!Spec

=============================================================================
