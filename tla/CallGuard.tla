------------------------------ MODULE CallGuard ------------------------------
(***************************************************************************)
(* One call of a module's function from JavaScript, as createNativeModule  *)
(* wraps it: withPlugins runs the plugins' hooks around it, guardCall      *)
(* bounds the caller's wait by a timeout and an AbortSignal.  The native   *)
(* call keeps running whatever the guard decides.                          *)
(*                                                                         *)
(* An action is what JavaScript runs between two awaits; the timer, the    *)
(* signal and the native promise come in any order, or never.              *)
(*                                                                         *)
(* The names CallInit, CallNext and so on leave Init and Next to the       *)
(* bridge a call goes through, so that one module can speak of both.       *)
(***************************************************************************)
EXTENDS Naturals, Sequences

CONSTANT NPlugins    \* how many plugins are configured

ASSUME CallGuardAssumption == NPlugins \in Nat

Plugins == 1..NPlugins

VARIABLES
    via,       \* how the caller calls: module.call or module.fns
    options,   \* which of timeout and signal the caller gives
    stage,     \* where the wrapped call is
    at,        \* the plugin whose hook comes next
    hooks,     \* hooks[p]: the hooks of plugin p that have run, in order
    threw,     \* history: a hook threw
    nativePromise,  \* the native promise: none, running, resolved or rejected
    outcome,   \* how guardCall's promise settled (settled: not "none")
    timer,     \* none, armed, fired or cleared
    aborted,   \* the caller's signal
    listening, \* guardCall listens to it
    answer     \* what the caller got: none, result or error

wrapVars == <<stage, at, hooks, threw, answer>>
guardVars == <<nativePromise, outcome, timer, aborted, listening>>
callVars == <<via, options, wrapVars, guardVars>>

CallTypeOK ==
    /\ via \in {"call", "fns"}
    /\ options \subseteq {"timeout", "signal"}
    /\ stage \in {"before", "waiting", "after", "error", "end"}
    /\ at \in 1..(NPlugins + 1)
    /\ hooks \in [Plugins -> Seq({"before", "after", "error"})]
    /\ threw \in BOOLEAN
    /\ nativePromise \in {"none", "running", "resolved", "rejected"}
    /\ outcome \in {"none", "result", "error", "timeout", "aborted"}
    /\ timer \in {"none", "armed", "fired", "cleared"}
    /\ aborted \in BOOLEAN
    /\ listening \in BOOLEAN
    /\ answer \in {"none", "result", "error"}

\* The functions of module.fns take no options.
CallInit ==
    /\ via \in {"call", "fns"}
    /\ options \in IF via = "fns" THEN {{}} ELSE SUBSET {"timeout", "signal"}
    /\ stage = "before"
    /\ at = 1
    /\ hooks = [p \in Plugins |-> << >>]
    /\ threw = FALSE
    /\ nativePromise = "none"
    /\ outcome = "none"
    /\ timer = "none"
    /\ aborted \in IF "signal" \in options THEN BOOLEAN ELSE {FALSE}
    /\ listening = FALSE
    /\ answer = "none"

-----------------------------------------------------------------------------
(* withPlugins *)

\* module.fns was built over the bridge's own call: no plugin sees it.
Wrapped == IF via = "call" THEN Plugins ELSE {}

\* One hook of the plugin whose turn it is, awaited; `after` and `error` come
\* in the same order as `before`.
RunHook(h) ==
    /\ stage = h
    /\ at \in Wrapped
    /\ hooks' = [hooks EXCEPT ![at] = Append(@, h)]
    /\ at' = at + 1
    /\ UNCHANGED <<via, options, stage, threw, answer, guardVars>>

\* A throwing beforeCall or onError rejects the call there and then; a throwing
\* afterCall is taken for a failure of the call.
HookThrows(h) ==
    /\ stage = h
    /\ at \in Wrapped
    /\ hooks' = [hooks EXCEPT ![at] = Append(@, h)]
    /\ at' = 1
    /\ threw' = TRUE
    /\ IF h = "after"
         THEN stage' = "error" /\ UNCHANGED answer
         ELSE stage' = "end" /\ answer' = "error"
    /\ UNCHANGED <<via, options, guardVars>>

\* Which hooks come after the await.
HooksAfter_Result == "after"
HooksAfter == IF outcome = "result" THEN "after" ELSE "error"

\* withPlugins goes on when guardCall's promise has settled.
Resume ==
    /\ stage = "waiting"
    /\ outcome # "none"
    /\ stage' = HooksAfter
    /\ at' = 1
    /\ UNCHANGED <<via, options, hooks, threw, answer, guardVars>>

Done ==
    /\ stage \in {"after", "error"}
    /\ at \notin Wrapped
    /\ answer' = IF stage = "after" THEN "result" ELSE "error"
    /\ stage' = "end"
    /\ UNCHANGED <<via, options, at, hooks, threw, guardVars>>

-----------------------------------------------------------------------------
(* guardCall *)

ArmsTimer_Either == "timeout" \in options /\ "signal" \notin options
ArmsTimer == "timeout" \in options

\* Start the native call, react to it, and unless the signal has been aborted
\* already arm the timer and listen.
Invoke ==
    /\ stage = "before"
    /\ at \notin Wrapped
    /\ stage' = "waiting"
    /\ nativePromise' = "running"
    /\ IF aborted
         THEN outcome' = "aborted" /\ UNCHANGED <<timer, listening>>
         ELSE /\ timer' = IF ArmsTimer THEN "armed" ELSE "none"
              /\ listening' = ("signal" \in options)
              /\ UNCHANGED outcome
    /\ UNCHANGED <<via, options, at, hooks, threw, aborted, answer>>

\* finish: the first to settle decides, and cleans up.
Cleaned_TimerOnly == FALSE
Cleaned == TRUE

Finish(o) ==
    /\ outcome' = IF outcome = "none" THEN o ELSE outcome
    /\ listening' = IF outcome = "none" /\ Cleaned THEN FALSE ELSE listening

Cleared == IF timer = "armed" /\ outcome = "none" THEN "cleared" ELSE timer

NativeSettles ==
    /\ nativePromise = "running"
    /\ \/ nativePromise' = "resolved" /\ Finish("result")
       \/ nativePromise' = "rejected" /\ Finish("error")
    /\ timer' = Cleared
    /\ UNCHANGED <<via, options, wrapVars, aborted>>

TimerFires ==
    /\ timer = "armed"
    /\ timer' = "fired"
    /\ Finish("timeout")
    /\ UNCHANGED <<via, options, wrapVars, nativePromise, aborted>>

Abort ==
    /\ "signal" \in options
    /\ ~aborted
    /\ aborted' = TRUE
    /\ IF listening
         THEN Finish("aborted") /\ timer' = Cleared
         ELSE UNCHANGED <<outcome, listening, timer>>
    /\ UNCHANGED <<via, options, wrapVars, nativePromise>>

Wrap ==
    \/ \E h \in {"before", "after", "error"} : RunHook(h) \/ HookThrows(h)
    \/ Invoke \/ Resume \/ Done

CallNext == Wrap \/ NativeSettles \/ TimerFires \/ Abort

\* JavaScript goes on, and a timer that is armed fires.  The native call may
\* never return, and the signal may never be aborted.
CallFairness == WF_callVars(Wrap) /\ WF_callVars(TimerFires)

CallSpec == CallInit /\ [][CallNext]_callVars /\ CallFairness

-----------------------------------------------------------------------------
(* Properties *)

\* Once the wait is over nothing of it is left: no timer keeps the process
\* alive, no listener keeps the call reachable from a long-lived signal.
NothingLeft == outcome # "none" => timer # "armed" /\ ~listening

\* The caller gets a result only when the call gave one and every plugin has
\* seen it begin once and end once, well; and a failure, unless a hook threw,
\* only when the call failed and every plugin has seen it begin and fail once.
HooksBracket ==
    answer # "none" /\ via = "call" =>
      IF answer = "result"
        THEN /\ outcome = "result"
             /\ \A p \in Plugins : hooks[p] = <<"before", "after">>
        ELSE \/ threw
             \/ /\ outcome # "result"
                /\ \A p \in Plugins : hooks[p] = <<"before", "error">>

\* A timeout frees the caller even if the native call never returns ("this
\* cancels the wait, not the work", createNativeModule.ts:115).
CallerIsFreed == ("timeout" \in options) ~> (answer # "none")

=============================================================================
