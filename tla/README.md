# Cross-Native in TLA+

Cross-Native runs modules written in Rust, C and other languages inside React
Native. A module is compiled to WebAssembly and interpreted by WAMR, or linked
into the app as a native library; JavaScript loads it, calls its functions and
gets promises back. This directory models the part of the repository where
things happen at the same time or in an order nobody chose: the thread pool,
the tables of loaded modules and their teardown, the way promises cross threads,
the development host process, the JavaScript bridge, the memory a call borrows
from a module, and the builds that produce the modules.

Contents: [the system](#the-system), [the modules](#the-modules),
[the runs](#the-runs), [fairness](#fairness), [the proofs](#the-proofs),
[where code and text disagree](#where-code-and-text-disagree),
[what is not modelled](#what-is-not-modelled), [the plan](#the-plan).

Run a model with `tlc -config MCThreadPool.cfg MCThreadPool.tla`, check a proof
with `tlapm ThreadPoolProofs.tla`. `PROJECT.json` holds the component list, the
source lines behind every definition, the hazards with the properties that
cover them, and for each property a mutation of the model that breaks it.

## The system

```
 JavaScript    useNativeModule -> createNativeModule -> NativeBridge -> backend
                  (mount)          (hooks, guard)        (cache)       /      \
                                                                  JSI proxy   NodeHostBackend
 ---------------------------------------------------------------------|-----------|- stdio
 C++                                              Deferred, Installation        Host (own process)
                                                                      \         /
                                                                  CrossNative core
                                                 ThreadPool   modules_   WasmRuntime
                                                                 |            |
                                                 SharedLibraryModule    WasmModule, ModuleEntry
 -----------------------------------------------------------------|-----------|---
 guest                              native.rs LAST_RESULT or shim   cn_alloc, cn_free
 -----------------------------------------------------------------|-----------|---
 build time                            Metro transformer -> cross-native build -> drivers
```

Short paths below: `cpp/`, `jsi/`, `android/`, `ios/`, `host/` are under
`src/packages/native/`; `bridge/` and `api/` under `src/packages/core/src/`;
`lib.rs` and `native.rs` under `src/packages/crossnative-rs/crossnative/src/`;
`bin/` and `drivers/` are those of `src/packages/compiler/`.

| component | state it keeps | operations | interacts by | what makes it correct |
|---|---|---|---|---|
| ThreadPool (`cpp/ThreadPool.*`) | priority heap, `stop_`, `activeCount_`, worker threads | enqueue, cancelAll, shutdown, workerLoop | mutex, condition variable, futures | no task lost, doubled or overtaken by a less urgent one; no lost wakeup; shutdown drains and returns |
| CrossNative core (`cpp/CrossNative.*`) | `modules_`, counters, shared buffers | load, call, unload, register, destructor | tasks on the pool; `modulesMutex_` | its table agrees with the runtime's; what was loaded can be called until it is unloaded; nothing outlives the destructor |
| WasmRuntime (`cpp/WasmRuntime.*`) | map of `ModuleEntry`, WAMR handles | load, unload, call, read manifest | its own mutex, `callMutex` per entry, shared ownership | one call per instance; every guest allocation is freed; sizes do not wrap; traps do not outlive a call |
| NativeModule (`cpp/NativeModule.*`) | `runtime_` or a dlopen handle | call, manifest, dispose | shared by the registry and running calls | disposed once, by whoever lets go last |
| JSI bindings (`jsi/`, `android/`, `ios/`, `native/src/index.ts`) | `gInstallations`, alive flags, `Deferred`, the memo in index.ts | install, uninstall, proxy methods, settle | `invokeAsync` jobs on the JS thread | installed once in spite of timeouts and retries; a promise settles once, never in a dead runtime |
| Node host (`host/host_main.cpp`, `bridge/node-host.ts`) | pending requests, stdio, helper threads | request, reply, exit, dispose; load, call, end of input | JSON lines over pipes | every request is settled by its own outcome or by the loss of the host |
| NativeBridge, useNative (`bridge/bridge.ts`, `api/useNative.ts`) | cache of handles, backend, mounts | initialize, loadModule, dispose, mount, unmount | promises | a handle is usable while held, and what is given up is unloaded |
| withPlugins, guardCall (`api/createNativeModule.ts`) | hook position, timer, listener | call with hooks, timeout, abort | promises, timers, AbortSignal | hooks bracket the call; the wait ends and leaves nothing behind |
| crossnative-rs (`lib.rs`, `native.rs`) | guest heap, `LAST_RESULT` | cn_alloc, cn_free, pack_slice, respond | raw pointers and sizes | frees match allocations; an answer lives until it is copied |
| backend interface, buffers, callables, plugins, detector, memory (`core/src/`) | none shared | conversions and lookups | plain calls | pure functions of their arguments |
| compiler, language registry, Metro transformer (`bin/cross-native.mjs`, `drivers/*.ts`, `native/metro-transformer.js`) | a directory's manifest and artifacts | build, toolchain fix, AOT, embed | processes that share a directory | what a build embeds is current code of its own source; the developer's files stay |
| crossnative macro | none | expansion | compile time | pure |
| WAMR, nlohmann json | vendored | | | external |

Hard to test here: pool workers, the JS thread and the native-modules thread run
at the same time and share two tables with a mutex each; an unload arrives under
a running call; the installer's timeout races its late job; the host dies with
requests pending; JavaScript resumes after an `await` in a world that has
changed; a call fails halfway through binding its arguments; the core is
destroyed with tasks queued; two builds write one artifact. The complete list,
with the line where each bites, is under "hazards" in `PROJECT.json`.

## The modules

One module per component, one action per operation or per step between two
points where somebody else can run: between two locked blocks in C++, between
two awaits in JavaScript, between two jobs on the JS thread. Names follow the
source. Definitions such as `WaitPredicate` and `WaitPredicate_NoTasks` come in
pairs: the first is the code, the second a plausible bug used to check that the
properties can fail.

**TaskExecutor** is what the pool promises, without threads: slots, pending
tasks, urgency, open or closed. **ThreadPool** implements it. Each locked block
of `cpp/ThreadPool.*` is an action. `Enqueue` and `NotifyOne` are separate
because `notify_one` is called after the lock is released; so are `Stop` and
`NotifyAll`, and `Take`, `Begin`, `Run` and `End` (`activeCount_` is changed
outside the lock). `Sleep` is the wait with a false predicate, `SpuriousWake`
what the standard allows. The heap orders by priority alone, so among equals
any task may be taken. `cancelAll` only ever empties the queue, because nothing
in the repository sets a task's `cancelled` pointer. The client that enqueues
or cancels and the owner that destroys the pool are environment.

**ModuleRegistry** composes `CrossNative::modules_`, the runtime's map, and the
objects in them. `RuntimeLoad` and `Register` are the two halves of a load,
under different mutexes; `FindModule`, `TestRuntime`, `FindEntry`, `Enter`,
`Return` are the steps of a call, with `EnterLinked` for linked modules. Shared
ownership is modelled by who still points at a module; `Release` runs the
destructor, and with it `Dispose`, when the last holder lets go. `Fault` is the
call through the pointer that an unload on another thread has just cleared: the
read in `NativeModule.cpp:33` is not synchronised, so the model lets it come out
either way. `disturbed` and `reloaded` are history variables: the target of
this call was unloaded meanwhile; some id was loaded while it was loaded. They
let one run show both what always holds and what holds on that condition.
`ClearModules`, `DestroyTables` and `DestroyRuntime` are the destructor of the
core: its body, then its members in reverse order of declaration
(`cpp/CrossNative.hpp:160-173`), the tables before the pool is joined. Between
the two, `UseDestroyed` is a task that locks a destroyed mutex; as that is
undefined, the model stops there. JsiInstall says who can start
all this.

**JsiInstall** has a queue of JS-thread jobs, served in order, the
native-modules thread, and the Deferreds. `android` is chosen in `Init`: there,
`install` waits for its job with a timeout and nothing uninstalls; on iOS it
replies from the job, and `invalidate` may come at any time. Both platforms
share the C++ actions. The timeout's reply is queued behind everything queued
before it, the late install job included when it is already there, which is why
a retry finds the proxy; `NeverReplaced` checks that for every order. `holders`
records which closures share a Deferred, and `releasedBy` which thread dropped
the last reference. Exceptions are followed to where the code drops them.
`RunTask` may end before the callback has called `resolve` (`toEnvelopeJson`
throws, the packaged task swallows it), or after `settled_` was set but before
the dispatcher took the closure (`SettleInVain`), or after it took it; in the
two latter cases the handler of a load calls the callback again
(`RunCallbackAgain`). `SettleJob` may meet a `JSIException` that it drops, and
an exception in the executor rejects the promise at once (`ExecutorThrows`).
`unheard` is a history variable: the calls whose answer was lost in one of these
ways. The core is reference counted too: the native module,
install jobs that are queued, `gInstallations` and the host functions of a proxy
hold it; the pool's tasks do not (`TaskKeeps`). `ResetCore`, the uninstall job
and `Collect` let go of it, the last one on whichever thread the engine
collects; `Drops` gives the destructor to the thread that let go last, and it
returns (`Destroyed`) when the pool has run dry.

**NodeHost** holds both ends of the line protocol and the pipes between them,
and implements **RequestReply**: a promise settles at most once, as its own work
ended or because the connection broke. The JSI backend implements it too, as
`JsiInstallProofs` shows; a call that fails while it is being made is the
latter's `AskInVain`. On the client: `Request`, `RequestThrows`,
`WriteFails`, `HandleLine`, `ExitEvent`, `Dispose`. In the host: `HandleLoad`,
which blocks the reader until the load is done (`loading`), `HandleCall`, which
starts a helper thread, `HandleInline` for everything answered at once, and
`ReadEOF` and `LeaveMain`, which join the helpers first. `Crash` may come
whenever the process is alive: what it had not read is lost, what it wrote is
still delivered, and the exit event may overtake it.

**NativeBridge** follows loads through the awaits of `initialize` and
`loadModule`, with the cache of each bridge and the one core that all bridges
share; `Unmount` and `DisposeHandle` are the effect of `useNativeModule`. An
unload reaches the core at once: in the app it is a synchronous proxy call, and
on Node the requests of one bridge are served in the order they were written.
A load is *abandoned* when its caller gets an error though the core has the
module: the manifest could not be read, or a plugin's `onModuleLoad` threw
(`PluginThrows`). A bridge may be disposed of between any two awaits, also of
its own loads. `overlapped` is a history variable: some name was loaded while
another load held it.

**CallGuard** is one call through `withPlugins` and `guardCall`, with any number
of plugins whose hooks may throw. A call through `fns` meets no hooks and has no
options, as in the code. Its specification is called `CallSpec`, so that
`BridgeProofs` can speak of the bridge and of a call in one module.

**WasmCall** is the sequence of calls into one instance (`callMutex` makes them
a sequence: the guard of `Enter` in ModuleRegistry). Contents are left out;
blocks of the guest's heap and their sizes are kept, and sizes are narrowed to
words of `MaxWord`, standing for 32 bits. A trap is an exception pending in the
instance (`Trap`, and `AllocTraps` inside cn_alloc) until the host has read and
cleared it (`HandleTrap`); WAMR fails every call that ends with one pending,
whoever raised it. `struck` is a history variable: this very call trapped or
found no memory. Functions that throw - a buffer element that
is no number, text that is not UTF-8 - leave by stack unwinding, which is where
the binder's destructor matters. Guests that allocate for themselves and keep
it are outside the model: what is followed is what the host asked for and what
`pack_slice` handed to it.

**LinkedLibrary** is `SharedLibraryModule` over a linked library, where the
answer is a pointer into the one string the library keeps. `lib` is chosen in
`Init`: `native.rs`, which builds the new string and then replaces the old one
under a mutex (`Keep`), or the shim that the compiler's `native-lib.ts`
generates for the other languages, which frees the old string (`FreeLast`), then
allocates the new one (`Build`), and has no lock. The allocator puts an answer
at any free address, so at one that another caller still points to if the answer
there was freed: `Copy` then reads freed memory or somebody else's answer.
`crossed` is a history variable: the last answer was freed while another call
was replacing it or had not copied its own.

**ModuleBuild** is a directory of sources with the builds that work on it: one
process per `cross-native build` or per source that Metro transforms. The shared
state is on disk: Cargo.toml, the `.wasm` named after the directory (one for
Rust in cargo's target directory, one beside the sources for all of Zig, C, C++
and Go), the `.aot` beside it, the toolchain. A build opens and completes its
output in two steps, and reads it by name in a third. "rust" and "zig" stand for
the two classes of driver, through cargo and with an output path; the languages
of the second class share one artifact. The developer edits sources and the manifest at any time, and
compilers and wamrc fail at any time.

`MC*.tla` give the models their constants, with symmetry where a run checks
only safety; `*Proofs.tla` hold the theorems.

## The runs

| run | checks | shows |
|---|---|---|
| `pool` | `OnePlace`, `NoLostWakeup`, `DrainedWhenJoined`, `AcceptedSettles`, `ShutdownReturns`, `ImplementsExecutor` | under every interleaving of workers, clients, `cancelAll` and a shutdown nothing is lost, doubled or taken out of order, no wakeup is lost, what was accepted settles, join returns on a drained pool; the pool implements TaskExecutor, fairness included |
| `registry` | `LossNeedsReload`, `TablesAgree`, `NoOrphanEntry`, `AttachedWhileHeld`, `FaultNeedsOverlap`, `NothingOutlivesCore`, `OperationEnds` | loads, calls, unloads and the core's destruction interleaved over two tables keep them in agreement unless an id is loaded while loaded; even then no instance is leaked or outlives the core, and everything ends unless the process crashes |
| `registry_load_twice` | `NoSpuriousLoss` (violated) | loading a loaded id makes the next call fail |
| `jsi` | `DoneMeansInstalled`, `SettlesOnce`, `SettledUnderCurrent`, `NeverReplaced`, `SettlesUnlessUnheard`, `TeardownEnds` | timeouts, late jobs, retries, refusals, exceptions and invalidation: installed once, promises settle once, only under a living installation, and always unless a dropped exception took the answer; whoever drops the core last, its destructor returns |
| `jsi_release` | `ReleasedOnJsThread` (violated) | a worker may destroy the `jsi::Function`s |
| `jsi_unheard` | `CallbackFires` (violated) | a callback may throw before it has asked for its promise to be settled, which then stays pending |
| `host` | `NothingAwaitsTheDead`, `LoadBeforeCall`, `DrainedBeforeTeardown`, `RequestSettles`, `RepliesToItsOwn` | any kinds of request, replies in any order, failed writes, a crash or a dispose at any moment |
| `bridge` | `CacheIsLive`, `UsableWhileHeld`, `CachedInTurn`, `NothingLeftLoaded`, `GivenUpIsUnloaded` | loads, unmounts, failures and disposals of handles and bridges between any two awaits |
| `guarded_call` | `HooksBracket`, `NothingLeft`, `CallerIsFreed`, `NothingLeaks`, `NoOverrun`, `FailsByItself` | CallGuard above WasmCall: answer, timer, signal and throwing hooks in any order, while calls of the instance below succeed, are refused anywhere, run out of room, trap or throw: nothing leaks, nothing is overrun, and nobody is told of another call's trap |
| `linked` | `AnsweredInTurn`, `FreedOnce` | whatever memory is used again, callers get their own answers as long as none is freed before it was copied, and nothing is freed twice unless calls into the generated shim cross or find no memory |
| `linked_dangling` | `NeverDangles` (violated) | an overlapping call frees an answer before it is copied |
| `build` | `FreshInTurn`, `AuthoredIsKept` | whatever was built, failed or edited before, a build embeds whole, current code of its own source unless it overlaps another of the same artifact or the manifest names something else, and never replaces a manifest it had found |

Bounds, and why they are enough to be interesting:

- `pool`: two workers, two clients, three tasks at two priorities. Three tasks
  and two workers leave one waiting while both are busy, so sleepers, workers
  on their way and queued tasks all exist at once; two clients race a
  notification, a cancel and the shutdown. The proofs remove these bounds.
- `registry`: two ids, two workers (unload and linked loads run on the JS
  thread besides), three loads, two calls. Three loads of one id are a load, a
  reload and a load after that; two calls are what can overlap on two workers.
  The second id makes an operation on another module visible. The core may be
  destroyed at any point.
- `jsi`: two promises, three attempts: a timeout, a retry whose job is late
  too, and one more.
- `host`: three requests: two loads and a call, or a call on each side of a
  load, with the third overtaking.
- `bridge`: three loads, two bridges, one name. One name, because all sharing is
  by name; three loads put two on one bridge and one on the other.
- `guarded_call`: two plugins, so one hook can throw after another has run;
  words of four bits, a heap of 12 bytes, element sizes 1 and 4, counts on both
  sides of `MaxWord / 4` and of `MaxWord`, two arguments, so that the second can
  fail after the first was allocated. The number of the instance's calls is not
  bounded. The guard knows of the instance only that a promise settles at some
  time or never, in either way, so the composition lets both run freely side by
  side: every order the code can produce is among those.
- `linked`: two workers and the JS thread, two calls each, and four addresses:
  an answer in the hands of every thread and the one that is kept.
- `build`: two builds at a time and any number one after the other, two
  sources, one of which has the conventional name, one edit of each. `MCInit`
  leaves out directories where two toolchains are incomplete or one that nothing
  needs, and AOT in a directory of both classes, whose builds share no file.

`TypeOK` in each module documents the domain of every variable; in the modules
with proofs it is part of the inductive invariant. `CHECK_DEADLOCK FALSE` stands
where the system may rest for ever: no caller has to come, a native call without
a timeout may never return.

## Fairness

- Pool: workers that can step do, a client between push and `notify_one` goes
  on, and so does the owner between `stop_`, `notify_all` and join. Nobody has
  to submit, cancel or shut down, and no sleeper has to wake by itself: liveness
  never leans on a spurious wakeup. That `Run` is fair says tasks return; a
  guest that loops for ever blocks its worker in the code too.
- Registry: a worker inside an operation goes on. Arguments may be bad but do
  not have to be, so a call waiting for `callMutex` cannot be rescued by
  failing. Weak fairness of `Enter` is enough because finitely many calls
  compete; `std::mutex` promises no more. A destructor that has begun goes on;
  nobody has to begin it.
- JSI: the JS thread drains its queue, the native side answers (by its timeout
  at the latest), the pool runs what it accepted (`AcceptedSettles`), an
  exception handler that was entered goes on (`RunCallbackAgain`), the module
  that was invalidated lets go of its core (`ResetCore`), and a destructor
  returns once no task is left (`ShutdownReturns`). Garbage collection is never
  forced.
- Host: the event loop delivers, the host reads and answers, calls return.
  Crash, dispose and requests are never forced.
- Bridge: promises settle - the creation of the backend, the core's load, the
  continuations. Mounting and unmounting are free.
- Guard: JavaScript continues and an armed timer fires. The native call has no
  fairness, so `CallerIsFreed` really rests on the timer.
- Wasm, linked libraries and builds are checked for safety only.

## The proofs

`ThreadPoolProofs`, for every number of workers (none included), clients and
tasks, from `PoolAssumption` alone (finite sets, natural priorities, `NoTask` is
not a task):

- The inductive invariant `IInv` (in ThreadPool) joins the safety properties
  with what they need from each other: `HeldWhenBusy` ties a worker's local
  variable to its position, so that a `Take` cannot drop a task;
  `StopIsShutdown` and `ExitedMeansDrained` carry the fact that a stopped pool
  accepts nothing, hence that its queue stays empty once a worker has left;
  `JoinedMeansExited` brings this to the end of `shutdown`.
- `NoLostWakeup` alone is not inductive: when a worker goes to sleep nothing
  may be queued, which is the wait predicate, and when it leaves the pool is
  stopped and drained, which is `ExitedMeansDrained`. The count
  `|queue| <= |Notifying| + |AtLock|` is then kept action by action, by adding
  or removing one element on both sides.
- `OnePlaceHolds`, `NoLostWakeupHolds`, `ActiveIsExactHolds` and
  `DrainedWhenJoinedHolds` are its corollaries; `SettlesOnceHolds` and
  `UrgentFirstHolds` are action properties under it.
- `NeverStuckHolds`: no state is one where everybody sleeps over a queued task,
  or where the owner joins a sleeper. A pool without workers is excepted.
- `RefinesExecutor`: every initial state maps to one of TaskExecutor and every
  step to a step or a stutter (`Spec => Executor!Safety`).

`ModuleRegistryProofs`, for any ids, workers, loads and calls, the core's
destruction included. There are two invariants. `RInv` holds whatever is loaded:
a thread holds the module it works on (`Holding`), a module is registered under
the id it was loaded for (`Named`), one that is not registered yet is its
loader's alone (`Private`), an instance in the runtime's map has a module that
will unload it (`Owned`), and the tables are empty once destroyed. From it
follow `AttachedWhileHeldHolds`, `NoOrphanEntryHolds` and
`NothingOutlivesCoreHolds`: the order of the members is safe for the runtime
because a module still attached is held by a thread, and the pool is joined
before the runtime goes. `CInv` adds what holds until an id is loaded twice: a
module about to be registered replaces nothing (`Vacant`), so the entry under
the id of an attached module is its own (`Current`), so only an unload takes a
module from a call (`Undisturbed`). `TablesAgreeHolds`, `LossNeedsReloadHolds`
and `FaultNeedsOverlapHolds` follow; `registry_load_twice` shows that the
condition cannot be dropped.

`NodeHostProofs`, for any number of requests: `NothingAwaitsTheDeadHolds`,
`LoadBeforeCallHolds`, `DrainedBeforeTeardownHolds`, and `RefinesRequestReply`,
the whole of the refinement that `RepliesToItsOwn` checks. `HInv` follows a
request along its way. It is in the pipe, in order of ids and untouched
(`Unread`); or a task, and the reader waits for the only load there is
(`OneLoad`), a helper for every call (`Helped`); or a reply, which tells how its
own work ended (`Replies`). `LoadsEnded` is what `LoadBeforeCall` needs to be
inductive: while the host reads, every load it has read has ended, but for the
one it waits for. A second invariant follows the answers: `AnswerOwedHolds` says
that a living host forgets no request and stops reading only after `dispose`,
and `NeverStuckHolds` that a step of the event loop, the host or its pool is due
as long as a promise is pending.

`JsiInstallProofs`, for both platforms and any number of attempts and promises.
The invariant `JInv` had to answer what the queue of JS-thread jobs may hold:

- `Timely` is what a queued job relies on when its turn comes. An install job:
  its attempt is the last one and index.ts still waits for it, so nothing is
  installed. An answer: the native side is idle. A settlement: the promise is
  pending, and the job holds its Deferred.
- `Ordered` is what may be queued behind what (`MayFollow`): behind an install
  job no second one, behind an answer neither an install job nor another answer.
  This is the order of a late install and the reply of its timeout that makes a
  retry find the proxy. One Deferred is settled by one job.
- `Deferreds` follows a Deferred from its creation to its release, task,
  closures and promise together, and says where an answer that is not on its way
  can have gone: a task that has run has settled or is `unheard`; `CoresMade` and `CoresLive` say who keeps a
  core and that what is kept is not being destroyed.

One lemma per action keeps `JInv`. `DoneMeansInstalledHolds`,
`NeverReplacedHolds`, `SettlesOnceHolds` and `SettledUnderCurrentHolds` follow,
and `ReleasedIsDoneHolds`: whichever thread releases a Deferred, it was settled
or lost its answer to an exception, and nothing is left that would use it. Two groups of theorems are the halves of liveness properties
that need no fairness. Of `TeardownEnds`: no worker destroys a core, which would
wait for itself (`TeardownIsSafeHolds`), and a core being destroyed is given no
more work (`NoWorkForTheDyingHolds`). Of `SettlesUnlessUnheard`: what JavaScript
awaits is on its way, unless an exception that the code drops took it
(`AnswersAreOwedHolds`).

`JsiImplementsRequestReply` maps the backend to the specification the node host
implements. How a call's work ended is forgotten by the code when it queues the
settlement, so a history variable, `worked`, keeps it (`HSpec`); that the queue
carries the same verdict is the invariant `Carried`. An exception that is dropped
is a stutter, one in the executor the specification's `Refuse`.

`BridgeProofs`, for any loads, bridges and names, however loads share them:
`CacheIsLiveHolds`, `UsableWhileHeldHolds`, `CachedInTurnHolds`,
`NothingLeftLoadedHolds`. A cached handle is live and filed under its own bridge
and name (`Filed`), and what the core has, some load has brought in and nobody
has disposed of (`BroughtIn`). `InTurn` holds until a name is loaded while
another load holds it: one load of a name is under way at a time (`Single`), a
live handle is the only one of its name and is cached (`Sole`), and once the
core has been asked for a name nobody has a live handle of it (`Alternate`).

The same module, for one call and any number of plugins: `HooksBracketHolds` and
`NothingLeftHolds`. The invariant says for each stage which hooks have run on
each side of the plugin whose turn it is, that the outcome is decided before
`after` and `error` are entered, and that nothing of the guard exists before the
call is made; that the outcome never changes once decided lets answer, timer
and signal be handled as one case. Of `CallerIsFreed` two halves are proved:
a caller who waits and asked for a timeout has an armed timer
(`TimeoutIsArmedHolds`), and every step of the wrapper lowers `StepsLeft`, a
number below `3 * NPlugins + 5`, which nothing raises (`AnswerComesNearerHolds`).

`WasmCallProofs`, for words of any width, any room, sizes, counts and number of
arguments: `NothingLeaksHolds`, `NoOverrunHolds`, `FailsByItselfHolds`.
`Accounted` says that every block of the guest's heap is one the binder or the
reader of the result will free; since blocks never share a pointer, and the size
given to `cn_free` is the size given to `cn_alloc`, the heap is empty when both
are done. That the sizes agree rests on two facts of arithmetic, the lemmas
`Fits` and `Narrows`: a count that passes the guard `count <= MaxWord / size` is
not changed by the narrowing to a word. `FailsByItself` needs that an exception
is pending only between a trap and its handling, so that no step of another call
can find one.

`LinkedLibraryProofs`, for any threads, addresses and calls:
`AnsweredInTurnHolds`, `FreedOnceHolds` and `KeepsOneHolds`. An answer that has
been built is where its pointer says, and in a Rust library never where the last
one still is (`Placed`); between two answers the kept one is still allocated
(`Intact`). Only a shim frees before it has built (`ShimFrees`) and what it hands
back can be followed (`Pointed`). Unless calls have crossed, one call at a time
depends on the last answer (`Turns`), and that answer stays until it is copied
(`StillThere`), so the memory that the allocator uses again is never one that a
caller has yet to read. The condition is sharp: `NeverDangles` fails as soon as
two calls cross.

`ModuleBuildProofs`, for any number of builds, sources and edits, from any state
of the toolchains: `FreshInTurnHolds` and `AuthoredIsKeptHolds`. A build that
nobody disturbs has, at each stage, the wanted code in hand, in the artifact or
in the machine code (`Kept`), because two builds of one artifact that run at a
time both know of it (`Overlap`).

Three theorems state properties of the pool that no run lists, because
`ImplementsExecutor` covers what they say or another property does:
`ActiveIsExactHolds`, `SettlesOnceHolds`, `UrgentFirstHolds`. `KeepsOneHolds`,
that a Rust library keeps one answer at most, no run lists either.

Every safety invariant and action property that a passing run checks is stated
by a theorem. Only model-checked: the liveness properties and the fairness half
of `ImplementsExecutor`, since temporal reasoning with ENABLED is out of the
prover's reach. For `AcceptedSettles`, `ShutdownReturns`, `RequestSettles`,
`SettlesUnlessUnheard`, `TeardownEnds` and `CallerIsFreed` the theorems named above
prove what does not need fairness: that the waiting is for something that is
there, and that a step towards it is due or nothing leads away from it.

## Where code and text disagree

Four runs exhibit a disagreement; the lines are quoted under "findings".

1. `registry_load_twice`: `registerModule` drops the module it replaces after
   the runtime's entry was replaced. The old module's destructor unloads
   whatever the runtime has under the id, the new entry. The load reports
   success, `isModuleLoaded` says yes, calls say "not loaded".
2. `jsi_release`: a comment says `jsi::Function` is only touched on the JS
   thread. The pool task shares the Deferred; if the JS thread is quicker than
   the worker's clean-up, the worker destroys both functions.
3. `linked_dangling`: the string behind a linked module's answer is meant not to
   dangle while the host reads it; a second call on another worker frees it, and
   may put its own answer in the same place.
4. `jsi_unheard`: the callback "must fire no matter what — otherwise the JS
   promise never settles", but it is called outside the try that guards the
   work, and may throw before it resolves: the error text of a failed call is
   dumped to JSON unguarded, and dumping text that is not UTF-8 throws.

Met on the way, without a run of their own:

- "Repeated loads of the same name return the cached handle" (`bridge.ts:76-77`)
  holds for loads that follow one another (`CachedInTurn`), not for loads that
  overlap: the cache is looked up before the core is asked and filled after it.
  `CachedHandle` in NativeBridge states the sentence as it stands.
- `WasmModule::call` reads `runtime_` twice without a lock while an unload may
  clear it (`NativeModule.cpp:30-33`). `FaultNeedsOverlap` shows that this takes
  an unload during the call.
- `useNativeModule` speaks of "the lifetime of a component" (`useNative.ts:24`),
  but two components with one module name share the module in the core, and the
  first to unmount unloads it for both. `UsableWhileHeld` states what does hold.
- The functions of `fns` go straight to the bridge: hooks and default timeout do
  not apply to them (`createNativeModule.ts:54,66`, `useNative.ts:54`).
- `afterCall` that throws makes every plugin's `onError` run, also of plugins
  whose `afterCall` succeeded (`createNativeModule.ts:91-98`).
- An empty typed argument asks the guest for zero bytes; `cn_alloc` answers null
  and the call is reported as out of memory (`WasmRuntime.cpp:305`).
- A plugin that throws in `onModuleLoad` leaves the module loaded with nobody to
  unload it (`createNativeModule.ts:39`); `NothingLeftLoaded` excepts it by
  name.
- A task that is queued when the core is destroyed looks a module up in a table,
  and locks a mutex, that go before the pool is joined (`CrossNative.cpp:99`,
  `UseDestroyed`). JsiInstall shows the way there: on iOS a reload drops the
  core, and tasks in flight do not keep it.
- The sources of a directory are built into one artifact named after the
  directory - Rust's has a place of its own, Zig's, C's, C++'s and Go's is the
  same file - with no lock but cargo's: builds that overlap may embed
  each other's code (`FreshInTurn` excepts them). `docs/getting-started.md:86`
  asks for one folder per module, while its examples put compute.go,
  compute.zig, compute.c and compute.cpp all into `native/`.
- A generated Cargo.toml names the entry of the build that wrote it; a later
  `--entry` is ignored. A crate whose package is renamed builds elsewhere, and
  the artifact an earlier build left under the directory's name is taken for the
  result (`drivers/rust.ts:137`).
- Cargo.toml is looked for well before it is written (`AuthoredIsKept` excepts
  a manifest that appears in between).
- The default `--out`, `../src/generated/native.ts`, is shared by sibling
  directories, and `build-native` leaves its generated Zig source where language
  detection may find it.
- `IMMEDIATE` is commented "Run on current thread" (`ThreadPool.hpp:20`); the
  pool queues it like the others.

## What is not modelled

Of 212,000 lines of implementation, 206,000 are vendored: WAMR's interpreter,
loader and AOT runtime in C, and nlohmann's `json.hpp`. They are represented by
their outcomes (a call returns, traps or throws; text parses or does not). The
project's own code has some 6,000 lines, and the share that has state or
interleavings is what the modules above model. Left out of it:

- Shared buffers and their finalizers (each buffer is held by shared ownership
  and used by its `ArrayBuffer` alone), statistics and log levels.
- The conversion of proxy arguments in `CrossNativeJSI.cpp`, of typed arrays in
  `bridge/buffers.ts`, and manifest parsing: functions of one input without
  state; what they can do to a call (refuse it, throw) is an outcome in
  WasmCall, JsiInstall or NodeHost.
- A guest that never returns, except in CallGuard, which is about that.
- A Node host that cannot be started at all: the 'error' handler of spawn.
- dlopen and dlsym; the environment detector, the memory helpers, and the
  console and performance plugins.
- In the compiler: how `build-native` parses sources and prints the shim (what
  the shim does is LinkedLibrary), `doctor`, the messages of the language
  registry, and the crossnative macro.
- Fairness between priorities: with endless urgent work a background task may
  wait for ever; nothing in the repository says otherwise.

## The plan

Done: ThreadPool with TaskExecutor, ModuleRegistry with the core's destructor,
JsiInstall with the release of the core, NodeHost with RequestReply,
NativeBridge, CallGuard, WasmCall, LinkedLibrary with both kinds of library,
ModuleBuild; and proofs of every safety property the runs check.

Left:

1. `GivenUpIsUnloaded` and `OperationEnds`: that what is waited for is there, as
   for the other liveness properties.
2. NativeBridge over RequestReply: that the core's answers, as the bridge uses
   them, are what both backends implement.
3. Shared buffers: creation, lookup and the `ArrayBuffer` that keeps one alive
   after the core forgot it.
4. A registry whose tasks are those of ThreadPool, with more modules than
   workers.
