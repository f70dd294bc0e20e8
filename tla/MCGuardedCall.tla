--------------------------- MODULE MCGuardedCall ---------------------------
(***************************************************************************)
(* An instance of CallGuard and WasmCall together: a guarded call above a  *)
(* module instance that serves its call and others', one after another.    *)
(* The guard knows of the instance only that its promise settles at some   *)
(* time or never, in either way, so the two run freely side by side.       *)
(***************************************************************************)
EXTENDS CallGuard, WasmCall, TLC

GuardedInit == CallInit /\ Init

GuardedNext ==
    \/ CallNext /\ UNCHANGED vars
    \/ Next /\ UNCHANGED callVars

GuardedSpec ==
    GuardedInit /\ [][GuardedNext]_<<callVars, vars>> /\ CallFairness

=============================================================================
