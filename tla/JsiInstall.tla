----------------------------- MODULE JsiInstall -----------------------------
(***************************************************************************)
(* How the proxy gets into the JavaScript runtime and how promises come    *)
(* back out of it: native/src/index.ts (the memoised installation), the    *)
(* Android and iOS install methods, installCrossNative/uninstallCrossNative*)
(* and Deferred in CrossNativeJSI.cpp.                                     *)
(*                                                                         *)
(* The JS thread runs one job at a time, in the order in which invokeAsync *)
(* queued them; a job is one action.  Pool workers and the native-modules  *)
(* thread run beside it.  The pool itself is ThreadPool: here a task is    *)
(* run once, in any order.                                                 *)
(*                                                                         *)
(* The core is reference counted, and whoever drops the last reference runs*)
(* its destructor, which waits for the pool's tasks.  A core is named after*)
(* the attempt to install that made it.                                    *)
(***************************************************************************)
EXTENDS Naturals, Sequences

CONSTANTS
    Calls,        \* promises JavaScript may ask for
    MaxInstalls,  \* bound: attempts to install
    None

Installs == 1..MaxInstalls

ASSUME JsiAssumption ==
    /\ MaxInstalls \in Nat
    /\ None \notin Installs

VARIABLES
    android,    \* TRUE: install waits with a timeout and nothing uninstalls;
                \* FALSE (iOS): install replies from its job, invalidate exists
    jsq,        \* jobs queued for the JS thread by invokeAsync
    memo,       \* `installation` of index.ts: none, asking or done
    attempt,    \* how many times native.install() was called
    native,     \* what the native-modules thread does about the last attempt
    ran,        \* the attempts whose install job has run
    current,    \* gInstallations[&runtime]
    alive,      \* the Installations whose alive flag is set
    proxy,      \* the Installation behind globalThis.__CrossNativeProxy
    invalidated,\* how far iOS has torn the native module down
    owned,      \* the core of _core (iOS) or gCore (Android)
    coreOf,     \* coreOf[n]: the core attempt n to install captured
    uncollected,\* the Installations whose host functions are not collected
    destroyedBy,\* destroyedBy[k]: the thread that runs, or ran, ~CrossNative
    gone,       \* the cores whose destructor has returned
    promise,    \* promise[c]: the Promise JavaScript holds
    inst,       \* inst[c]: the Installation its Deferred was made with
    task,       \* task[c]: the pool task that will settle it
    settled,    \* the Deferreds whose settled_ flag is set
    holders,    \* holders[c]: which closures hold a reference to the Deferred
    releasedBy, \* releasedBy[c]: the thread that dropped the last reference
    unheard     \* history: the calls whose answer an exception swallowed

vars == <<android, jsq, memo, attempt, native, ran, current, alive, proxy,
          invalidated, owned, coreOf, uncollected, destroyedBy, gone, promise,
          inst, task, settled, holders, releasedBy, unheard>>

coreVars == <<owned, coreOf, uncollected, destroyedBy, gone>>
installVars == <<android, memo, attempt, native, ran, current, alive, proxy,
                 invalidated, owned, coreOf, uncollected>>
promiseVars == <<promise, inst, task, settled, holders, releasedBy, unheard>>

Job == [kind : {"install"}, n : Installs] \cup [kind : {"uninstall"}]
         \cup [kind : {"reply"}, ok : BOOLEAN]
         \cup [kind : {"settle"}, c : Calls, as : {"resolved", "rejected"}]

\* Who can drop a reference to a core.  Which thread finalizes a host function
\* is up to the JavaScript engine: its collector is a thread of its own here.
Thread == {"js", "native", "collector", "worker"}

TypeOK ==
    /\ android \in BOOLEAN
    /\ jsq \in Seq(Job)
    /\ memo \in {"none", "asking", "done"}
    /\ attempt \in 0..MaxInstalls
    /\ native \in {"idle", "asked", "waiting"}
    /\ ran \subseteq Installs
    /\ current \in Installs \cup {None}
    /\ alive \subseteq Installs
    /\ proxy \in Installs \cup {None}
    /\ invalidated \in {"no", "queued", "yes"}
    /\ owned \in Installs \cup {None}
    /\ coreOf \in [Installs -> Installs \cup {None}]
    /\ uncollected \subseteq Installs
    /\ destroyedBy \in [Installs -> {"nobody"} \cup Thread]
    /\ gone \subseteq Installs
    /\ promise \in [Calls -> {"none", "pending", "resolved", "rejected"}]
    /\ inst \in [Calls -> Installs \cup {None}]
    /\ task \in [Calls -> {"none", "queued", "thrown", "ran", "gone"}]
    /\ settled \subseteq Calls
    /\ holders \in [Calls -> SUBSET {"task", "job"}]
    /\ releasedBy \in [Calls -> {"nobody", "js", "worker"}]
    /\ unheard \subseteq Calls

Init ==
    /\ android \in BOOLEAN
    /\ jsq = << >>
    /\ memo = "none"
    /\ attempt = 0
    /\ native = "idle"
    /\ ran = {}
    /\ current = None
    /\ alive = {}
    /\ proxy = None
    /\ invalidated = "no"
    /\ owned = None
    /\ coreOf = [n \in Installs |-> None]
    /\ uncollected = {}
    /\ destroyedBy = [n \in Installs |-> "nobody"]
    /\ gone = {}
    /\ promise = [c \in Calls |-> "none"]
    /\ inst = [c \in Calls |-> None]
    /\ task = [c \in Calls |-> "none"]
    /\ settled = {}
    /\ holders = [c \in Calls |-> {}]
    /\ releasedBy = [c \in Calls |-> "nobody"]
    /\ unheard = {}

-----------------------------------------------------------------------------
(* Who keeps a core *)

\* A thread inside ~CrossNative does nothing else.
Free(thread) == \A k \in Installs : destroyedBy[k] = thread => k \in gone

\* A task's closure holds `this` and the callback, and the callback holds the
\* Deferred: neither holds the Installation.
TaskKeeps_Installation(c) == task[c] \in {"queued", "thrown", "ran"}
TaskKeeps(c) == FALSE

\* Somebody holds a reference to core k: the native module, a queued install
\* job, gInstallations, or the host functions of a proxy.
Kept(k) ==
    \/ owned = k
    \/ \E i \in DOMAIN jsq : jsq[i].kind = "install" /\ coreOf[jsq[i].n] = k
    \/ current # None /\ coreOf[current] = k
    \/ \E n \in uncollected : coreOf[n] = k
    \/ \E c \in Calls : TaskKeeps(c) /\ coreOf[inst[c]] = k

\* The thread that makes this step destroys the cores it leaves unreferenced.
Drops(thread) ==
    destroyedBy' = [k \in Installs |->
                      IF Kept(k) /\ ~Kept(k)' THEN thread ELSE destroyedBy[k]]

\* ~CrossNative: the pool's destructor joins every worker, and returns once all
\* its tasks are done.  No worker can join itself.
Destroyed(k) ==
    /\ destroyedBy[k] \notin {"nobody", "worker"}
    /\ k \notin gone
    /\ \A c \in Calls :
         inst[c] # None /\ coreOf[inst[c]] = k => task[c] \in {"none", "gone"}
    /\ gone' = gone \cup {k}
    /\ UNCHANGED <<jsq, destroyedBy, installVars, promiseVars>>

-----------------------------------------------------------------------------
(* Installing *)

EnsureInstalled_Blind ==
    /\ Free("js")
    /\ memo = "none"
    /\ attempt < MaxInstalls
    /\ memo' = "asking"
    /\ attempt' = attempt + 1
    /\ native' = "asked"
    /\ UNCHANGED <<android, jsq, ran, current, alive, proxy, invalidated,
                   coreVars, promiseVars>>

\* installCrossNative (index.ts) while nothing is memoised: done at once when
\* the proxy is there, otherwise ask the native side.
EnsureInstalled ==
    /\ Free("js")
    /\ memo = "none"
    /\ \/ /\ proxy # None
          /\ memo' = "done"
          /\ UNCHANGED <<attempt, native>>
       \/ /\ proxy = None
          /\ attempt < MaxInstalls
          /\ memo' = "asking"
          /\ attempt' = attempt + 1
          /\ native' = "asked"
    /\ UNCHANGED <<android, jsq, ran, current, alive, proxy, invalidated,
                   coreVars, promiseVars>>

\* The native-modules thread does one thing at a time.
NativeReady == native = "asked" /\ invalidated # "queued" /\ Free("native")

\* nativeInstall / install: make the core unless there is one, and schedule the
\* job on the JS thread.  Android then waits on its future; iOS returns.
NativeInstall ==
    /\ NativeReady
    /\ owned' = IF owned = None THEN attempt ELSE owned
    /\ coreOf' = [coreOf EXCEPT ![attempt] = owned']
    /\ jsq' = Append(jsq, [kind |-> "install", n |-> attempt])
    /\ native' = IF android THEN "waiting" ELSE "idle"
    /\ UNCHANGED <<android, memo, attempt, ran, current, alive, proxy,
                   invalidated, uncollected, destroyedBy, gone, promiseVars>>

\* No CallInvoker: the Java or Objective-C promise is rejected right away.
NativeRefuses ==
    /\ NativeReady
    /\ jsq' = Append(jsq, [kind |-> "reply", ok |-> FALSE])
    /\ native' = "idle"
    /\ UNCHANGED <<android, memo, attempt, ran, current, alive, proxy,
                   invalidated, coreVars, promiseVars>>

\* future.wait_for(kInstallTimeout): ready, or given up before the job has run.
NativeWakes ==
    /\ native = "waiting"
    /\ jsq' = Append(jsq, [kind |-> "reply", ok |-> attempt \in ran])
    /\ native' = "idle"
    /\ UNCHANGED <<android, memo, attempt, ran, current, alive, proxy,
                   invalidated, coreVars, promiseVars>>

\* The alive flags after Installation n replaces what was installed.
AliveAfter(n) == (alive \ {current}) \cup {n}

\* installCrossNative (C++), on the JS thread.
InstallJob(n, rest) ==
    /\ alive' = AliveAfter(n)
    /\ current' = n
    /\ proxy' = n
    /\ uncollected' = uncollected \cup {n}
    /\ ran' = ran \cup {n}
    /\ jsq' = IF android THEN rest
                         ELSE Append(rest, [kind |-> "reply", ok |-> TRUE])
    /\ UNCHANGED <<android, memo, attempt, native, invalidated, owned, coreOf,
                   gone, promiseVars>>

\* The await in index.ts goes on: check that the proxy is really there, and
\* forget a failed attempt so that it can be retried.
MemoAfter_Unchecked(ok) == "done"
MemoAfter(ok) == IF ok /\ proxy # None THEN "done" ELSE "none"

ReplyJob(ok, rest) ==
    /\ memo' = MemoAfter(ok)
    /\ jsq' = rest
    /\ UNCHANGED <<android, attempt, native, ran, current, alive, proxy,
                   invalidated, owned, coreOf, uncollected, gone, promiseVars>>

\* iOS invalidate: have the JS thread uninstall, and then drop _core.
Invalidate ==
    /\ ~android
    /\ invalidated = "no"
    /\ Free("native")
    /\ invalidated' = "queued"
    /\ jsq' = Append(jsq, [kind |-> "uninstall"])
    /\ UNCHANGED <<android, memo, attempt, native, ran, current, alive, proxy,
                   coreVars, promiseVars>>

ResetCore ==
    /\ invalidated = "queued"
    /\ invalidated' = "yes"
    /\ owned' = None
    /\ UNCHANGED <<android, jsq, memo, attempt, native, ran, current, alive,
                   proxy, coreOf, uncollected, gone, promiseVars>>
    /\ Drops("native")

\* uninstallCrossNative: nothing to do for a runtime that has no installation.
UninstallJob(rest) ==
    /\ IF current = None
         THEN UNCHANGED <<alive, current, proxy>>
         ELSE /\ alive' = alive \ {current}
              /\ current' = None
              /\ proxy' = None
    /\ jsq' = rest
    /\ UNCHANGED <<android, memo, attempt, native, ran, invalidated, owned,
                   coreOf, uncollected, gone, promiseVars>>

\* The host functions of a proxy that globalThis no longer has are finalized, on
\* the JS thread or on the collector's.
Collect(n) ==
    /\ n \in uncollected \ {proxy}
    /\ uncollected' = uncollected \ {n}
    /\ UNCHANGED <<android, jsq, memo, attempt, native, ran, current, alive,
                   proxy, invalidated, owned, coreOf, gone, promiseVars>>
    /\ \E thread \in {"js", "collector"} : Free(thread) /\ Drops(thread)

-----------------------------------------------------------------------------
(* Promises *)

Released(c, left, by) ==
    /\ holders' = [holders EXCEPT ![c] = left]
    /\ releasedBy' = [releasedBy EXCEPT ![c] = IF left = {} THEN by ELSE @]

\* JavaScript calls a proxy method that returns a promise, once installed.
MayCall(c) ==
    /\ Free("js")
    /\ memo = "done"
    /\ proxy # None
    /\ promise[c] = "none"
    /\ inst' = [inst EXCEPT ![c] = proxy]

\* makePromise: the executor hands the Deferred to a pool task.
StartCall(c) ==
    /\ MayCall(c)
    /\ promise' = [promise EXCEPT ![c] = "pending"]
    /\ task' = [task EXCEPT ![c] = "queued"]
    /\ holders' = [holders EXCEPT ![c] = {"task"}]
    /\ UNCHANGED <<jsq, settled, releasedBy, unheard, destroyedBy, gone,
                   installVars>>

\* loadModule with a path that cannot be read: rejected from the executor.
RejectCall(c) ==
    /\ MayCall(c)
    /\ promise' = [promise EXCEPT ![c] = "pending"]
    /\ settled' = settled \cup {c}
    /\ holders' = [holders EXCEPT ![c] = {"job"}]
    /\ jsq' = Append(jsq, [kind |-> "settle", c |-> c, as |-> "rejected"])
    /\ UNCHANGED <<task, releasedBy, unheard, destroyedBy, gone, installVars>>

\* Reading the file, the enqueue or the dispatcher throws: the Deferred dies
\* with the executor, and the Promise constructor rejects.
ExecutorThrows(c) ==
    /\ MayCall(c)
    /\ promise' = [promise EXCEPT ![c] = "rejected"]
    /\ releasedBy' = [releasedBy EXCEPT ![c] = "js"]
    /\ UNCHANGED <<jsq, task, settled, holders, unheard, destroyedBy, gone,
                   installVars>>

\* Deferred::settle on a worker: once, and by way of the dispatcher.
MaySettle_Again(c) == TRUE
MaySettle(c) == c \notin settled

Settle(c, as) ==
    IF MaySettle(c)
      THEN /\ settled' = settled \cup {c}
           /\ holders' = [holders EXCEPT ![c] = @ \cup {"job"}]
           /\ jsq' = Append(jsq, [kind |-> "settle", c |-> c, as |-> as])
      ELSE UNCHANGED <<settled, holders, jsq>>

\* settled_ is set, and then the dispatcher throws: no closure was queued.
SettleInVain(c) ==
    /\ MaySettle(c)
    /\ settled' = settled \cup {c}
    /\ unheard' = unheard \cup {c}
    /\ UNCHANGED <<holders, jsq>>

Ran(c, how) == task' = [task EXCEPT ![c] = how]

\* The pool runs a task and its callback, with a result or an error; which of
\* the two kinds of task it is, is left open.  What the callback of a function
\* call throws ends up in the future of a packaged_task nobody looks at.
\* loadModuleFromBytesAsync calls callback(true, "") inside its try: a throw of
\* the dispatcher there ("thrown") has the handler call the callback again.
RunTask(c) ==
    /\ task[c] = "queued"
    /\ \/ /\ \E as \in {"resolved", "rejected"} : Settle(c, as)
          /\ Ran(c, "ran")
          /\ UNCHANGED unheard
       \/ /\ Settle(c, "resolved")  \* and then the dispatcher throws
          /\ Ran(c, "thrown")
          /\ UNCHANGED unheard
       \/ /\ SettleInVain(c)
          /\ \E how \in {"ran", "thrown"} : Ran(c, how)
       \/ /\ unheard' = unheard \cup {c}  \* toEnvelopeJson throws
          /\ Ran(c, "ran")
          /\ UNCHANGED <<settled, holders, jsq>>
    /\ UNCHANGED <<promise, inst, releasedBy, destroyedBy, gone, installVars>>

\* The handler calls the callback again to report a failure, and settled_ is
\* what stops it.
RunCallbackAgain(c) ==
    /\ task[c] = "thrown"
    /\ Settle(c, "rejected")
    /\ Ran(c, "ran")
    /\ UNCHANGED <<promise, inst, releasedBy, unheard, destroyedBy, gone,
                   installVars>>

\* The worker destroys the task, and with it its reference to the Deferred.
DestroyTask(c) ==
    /\ task[c] = "ran"
    /\ task' = [task EXCEPT ![c] = "gone"]
    /\ Released(c, holders[c] \ {"task"}, "worker")
    /\ UNCHANGED <<jsq, promise, inst, settled, unheard, gone, installVars>>
    /\ Drops("worker")

\* The dispatched closure: settle the Promise unless its Installation is gone.
\* A JSIException on the way is caught and dropped.
MayTouch_Always(c) == TRUE
MayTouch_Inverted(c) == inst[c] \notin alive
MayTouch(c) == inst[c] \in alive

SettleJob(c, as, rest) ==
    /\ \/ /\ promise' = IF MayTouch(c) THEN [promise EXCEPT ![c] = as]
                                       ELSE promise
          /\ UNCHANGED unheard
       \/ /\ MayTouch(c)
          /\ unheard' = unheard \cup {c}
          /\ UNCHANGED promise
    /\ jsq' = rest
    /\ Released(c, holders[c] \ {"job"}, "js")
    /\ UNCHANGED <<inst, task, settled, gone, installVars>>

-----------------------------------------------------------------------------

\* Every job lets go of what its closure holds when it has run.
RunJob ==
    /\ Free("js")
    /\ jsq # << >>
    /\ LET job == Head(jsq) IN
         \/ job.kind = "install" /\ InstallJob(job.n, Tail(jsq))
         \/ job.kind = "uninstall" /\ UninstallJob(Tail(jsq))
         \/ job.kind = "reply" /\ ReplyJob(job.ok, Tail(jsq))
         \/ job.kind = "settle" /\ SettleJob(job.c, job.as, Tail(jsq))
    /\ Drops("js")

Native == NativeInstall \/ NativeRefuses \/ NativeWakes

Quiet ==
    /\ jsq = << >>
    /\ invalidated # "queued"
    /\ native = "idle"
    /\ \A c \in Calls : task[c] \in {"none", "gone"}
    /\ UNCHANGED vars

Next ==
    \/ EnsureInstalled \/ Native \/ Invalidate \/ ResetCore \/ RunJob
    \/ \E n \in Installs : Collect(n) \/ Destroyed(n)
    \/ \E c \in Calls :
         \/ StartCall(c) \/ RejectCall(c) \/ ExecutorThrows(c)
         \/ RunTask(c) \/ RunCallbackAgain(c) \/ DestroyTask(c)
    \/ Quiet

\* The JS thread drains its queue, the native thread answers (by its timeout at
\* the latest), the pool runs what it accepted, and a destructor returns once
\* the workers it joins have ended.
Fairness ==
    /\ WF_vars(RunJob)
    /\ WF_vars(Native)
    /\ WF_vars(ResetCore)
    /\ \A k \in Installs : WF_vars(Destroyed(k))
    /\ \A c \in Calls :
         /\ WF_vars(RunTask(c))
         /\ WF_vars(RunCallbackAgain(c))
         /\ WF_vars(DestroyTask(c))

Spec == Init /\ [][Next]_vars /\ Fairness

-----------------------------------------------------------------------------
(* Properties *)

\* "a Promise settles once" (CrossNativeJSI.cpp:70), whichever callbacks run.
SettlesOnce ==
    [][\A c \in Calls :
         promise[c] \in {"resolved", "rejected"} => promise'[c] = promise[c]]_vars

\* A late callback never settles a promise of an installation that has been
\* removed or replaced ("so late callbacks do not touch a dead runtime").
SettledUnderCurrent ==
    [][\A c \in Calls :
         promise'[c] \notin {"none", promise[c]} /\ promise[c] # "none" =>
           inst[c] = current]_vars

\* "Safe to call repeatedly - the work happens once" (index.ts:21), in spite of
\* timeouts, late installs and retries: no retry installs over an installation
\* that JavaScript never saw removed.
NeverReplaced ==
    [][current # None => current' \in {current, None}]_vars

\* JavaScript that believes the proxy is installed finds it installed.  (On iOS
\* an invalidation takes it away; the JS context goes with it.)
DoneMeansInstalled == android /\ memo = "done" => proxy # None

\* A promise made under an installation that stays is settled, unless one of
\* the exceptions the code drops took its answer away.
SettlesUnlessUnheard ==
    \A c \in Calls :
      (promise[c] = "pending") ~>
        (promise[c] # "pending" \/ inst[c] \notin alive \/ c \in unheard)

\* "the callback must fire no matter what - otherwise the JS promise never
\* settles" (CrossNative.cpp:277): the task of a call that has run has at least
\* asked for its promise to be settled.
CallbackFires == \A c \in Calls : task[c] \in {"ran", "gone"} => c \in settled

\* Tearing the core down ends, on whichever thread it happens, with calls in
\* flight: no worker ever runs ~CrossNative, which would wait for that worker
\* itself, and no worker waits for a JS thread that is waiting for the pool.
TeardownEnds ==
    \A k \in Installs : (destroyedBy[k] # "nobody") ~> (k \in gone)

\* "jsi::Function may only be touched on the JS thread" (CrossNativeJSI.cpp:35):
\* the resolve/reject pair is destroyed by whoever drops the Deferred last.
ReleasedOnJsThread == \A c \in Calls : releasedBy[c] # "worker"

=============================================================================
