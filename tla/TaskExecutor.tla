---------------------------- MODULE TaskExecutor ----------------------------
(***************************************************************************)
(* What CrossNative promises of its thread pool, without threads, mutexes  *)
(* or condition variables: a bounded number of slots in which submitted    *)
(* tasks run.  A task accepted before the executor is closed is started at *)
(* most once, never while a more urgent one is pending, and ends settled   *)
(* or cancelled; a task submitted after that is refused.  ThreadPool is    *)
(* shown to implement this specification.                                  *)
(***************************************************************************)
EXTENDS Naturals

CONSTANTS
    Slots,      \* where tasks run
    Tasks,      \* the tasks that may ever be submitted
    Priority,   \* the urgencies, smaller is more urgent
    NoTask      \* the content of a free slot

VARIABLES
    status,     \* status[t]: where task t is in its life
    urgency,    \* urgency[t]: the priority t was submitted with
    slot,       \* slot[s]: the task running in slot s
    open        \* whether submissions are still accepted

vars == <<status, urgency, slot, open>>

Status == {"new", "pending", "running", "settled", "cancelled", "refused"}

TypeOK ==
    /\ status \in [Tasks -> Status]
    /\ urgency \in [Tasks -> Priority]
    /\ slot \in [Slots -> Tasks \cup {NoTask}]
    /\ open \in BOOLEAN

Init ==
    /\ status = [t \in Tasks |-> "new"]
    /\ urgency \in [Tasks -> Priority]
    /\ slot = [s \in Slots |-> NoTask]
    /\ open = TRUE

Submit(t) ==
    /\ open
    /\ status[t] = "new"
    /\ status' = [status EXCEPT ![t] = "pending"]
    /\ UNCHANGED <<urgency, slot, open>>

Refuse(t) ==
    /\ ~open
    /\ status[t] = "new"
    /\ status' = [status EXCEPT ![t] = "refused"]
    /\ UNCHANGED <<urgency, slot, open>>

Start(t, s) ==
    /\ slot[s] = NoTask
    /\ status[t] = "pending"
    /\ \A u \in Tasks : status[u] = "pending" => urgency[t] <= urgency[u]
    /\ status' = [status EXCEPT ![t] = "running"]
    /\ slot' = [slot EXCEPT ![s] = t]
    /\ UNCHANGED <<urgency, open>>

Settle(s) ==
    /\ slot[s] # NoTask
    /\ status' = [status EXCEPT ![slot[s]] = "settled"]
    /\ slot' = [slot EXCEPT ![s] = NoTask]
    /\ UNCHANGED <<urgency, open>>

\* Everything still pending is dropped at once; what runs is left alone.
CancelPending ==
    /\ \E t \in Tasks : status[t] = "pending"
    /\ status' = [t \in Tasks |->
                    IF status[t] = "pending" THEN "cancelled" ELSE status[t]]
    /\ UNCHANGED <<urgency, slot, open>>

Close ==
    /\ open
    /\ open' = FALSE
    /\ UNCHANGED <<status, urgency, slot>>

Next ==
    \/ \E t \in Tasks : Submit(t) \/ Refuse(t)
    \/ \E t \in Tasks, s \in Slots : Start(t, s)
    \/ \E s \in Slots : Settle(s)
    \/ CancelPending
    \/ Close

\* A pending task and a free slot meet; a running task ends.
Fairness ==
    /\ WF_vars(\E t \in Tasks, s \in Slots : Start(t, s))
    /\ \A s \in Slots : WF_vars(Settle(s))

Safety == Init /\ [][Next]_vars

Spec == Safety /\ Fairness

=============================================================================
