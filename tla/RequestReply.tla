---------------------------- MODULE RequestReply ----------------------------
(***************************************************************************)
(* What a backend promises to the bridge above it: a request is worked on  *)
(* at most once, its promise settles at most once, with the outcome of its *)
(* own work - or with a failure if the connection broke.                   *)
(***************************************************************************)
EXTENDS Naturals

CONSTANT Ids

VARIABLES
    promise,   \* promise[i]: none, pending, answered or failed
    outcome,   \* outcome[i]: of the work for i: unknown, good or bad
    broken     \* the host is gone or the backend disposed

vars == <<promise, outcome, broken>>

Init ==
    /\ promise = [i \in Ids |-> "none"]
    /\ outcome = [i \in Ids |-> "unknown"]
    /\ broken = FALSE

Ask(i) ==
    /\ promise[i] = "none"
    /\ promise' = [promise EXCEPT ![i] = "pending"]
    /\ UNCHANGED <<outcome, broken>>

\* A request that cannot be written at all is refused where it is made.
Refuse(i) ==
    /\ promise[i] = "none"
    /\ promise' = [promise EXCEPT ![i] = "failed"]
    /\ UNCHANGED <<outcome, broken>>

\* A request that turns out hopeless while it is being made fails later.
AskInVain(i) ==
    /\ promise[i] = "none"
    /\ outcome[i] = "unknown"
    /\ promise' = [promise EXCEPT ![i] = "pending"]
    /\ outcome' = [outcome EXCEPT ![i] = "bad"]
    /\ UNCHANGED broken

Work(i) ==
    /\ promise[i] # "none"
    /\ outcome[i] = "unknown"
    /\ \E o \in {"good", "bad"} : outcome' = [outcome EXCEPT ![i] = o]
    /\ UNCHANGED <<promise, broken>>

Answer(i) ==
    /\ promise[i] = "pending"
    /\ outcome[i] = "good"
    /\ promise' = [promise EXCEPT ![i] = "answered"]
    /\ UNCHANGED <<outcome, broken>>

Fail(i) ==
    /\ promise[i] = "pending"
    /\ outcome[i] = "bad"
    /\ promise' = [promise EXCEPT ![i] = "failed"]
    /\ UNCHANGED <<outcome, broken>>

\* The connection breaks, and what is pending may fail with it.
Break ==
    /\ broken' = TRUE
    /\ \E S \in SUBSET {i \in Ids : promise[i] = "pending"} :
         promise' = [i \in Ids |-> IF i \in S THEN "failed" ELSE promise[i]]
    /\ UNCHANGED outcome

Next ==
    \/ Break
    \/ \E i \in Ids :
         Ask(i) \/ AskInVain(i) \/ Refuse(i) \/ Work(i) \/ Answer(i) \/ Fail(i)

Spec == Init /\ [][Next]_vars

=============================================================================
