--------------------------- MODULE ModuleRegistry ---------------------------
(***************************************************************************)
(* The two tables behind a loaded module and the objects they point to:    *)
(* CrossNative::modules_ (id -> NativeModule) and WasmRuntime's map (id -> *)
(* ModuleEntry, the instantiated WASM).  Each has a mutex of its own, and  *)
(* every operation on both takes them one after the other, so loads, calls *)
(* and unloads of one id interleave between the two tables.  The core's    *)
(* destructor takes both down, in the order its members are declared in,   *)
(* while queued and running tasks still use them.                          *)
(*                                                                         *)
(* Load number n creates ModuleEntry n and NativeModule n.  Both are       *)
(* reference counted (shared_ptr): what is counted here is who still       *)
(* points at them, and the destructor that runs when nobody does.          *)
(***************************************************************************)
EXTENDS Naturals, FiniteSets

CONSTANTS
    Ids,        \* module ids
    Threads,    \* pool workers, running load tasks and call tasks
    MaxLoads,   \* bound: how many loads are performed
    MaxCalls,   \* bound: how many calls are performed
    None        \* the absent value

Loads == 1..MaxLoads

ASSUME RegistryAssumption ==
    /\ MaxLoads \in Nat
    /\ MaxCalls \in Nat
    /\ None \notin Loads
    /\ None \notin Ids

VARIABLES
    registry,   \* modules_: the module registered under each id
    runtime,    \* WasmRuntime's map: the entry loaded under each id
    idOf,       \* idOf[n]: the id load n was for, None before it
    linked,     \* the loads that made a SharedLibraryModule
    attached,   \* the WasmModules whose runtime_ is not nullptr
    pc,         \* where each thread is in installWasmModule or executeCall
    target,     \* the module id the thread works on
    module,     \* the shared_ptr<NativeModule> the thread holds
    entry,      \* the shared_ptr<ModuleEntry> the thread holds
    result,     \* how the thread's last operation ended
    totalCalls, \* totalCalls_
    core,       \* how far ~CrossNative has come
    disturbed,  \* history: the target was unloaded under the running call
    reloaded    \* history: some id was loaded while loaded or being loaded

vars == <<registry, runtime, idOf, linked, attached, pc, target, module, entry,
          result, totalCalls, core, disturbed, reloaded>>

\* register: runtime loaded, module not registered yet; found: module looked up;
\* deref: runtime_ tested; entry: entry looked up; guest: inside the module.
PC == {"idle", "register", "found", "deref", "entry", "guest", "fault"}

\* cleared: the destructor's body has run; dying: modules_ and modulesMutex_ are
\* destroyed; gone: so are the pool and the runtime.
Core == {"up", "cleared", "dying", "gone"}

\* answered: loaded, or the guest's value or error; refused: bad bytes, arguments
\* that are no array, or an id that is not registered.
Result == {"none", "answered", "refused", "disposed", "notLoaded"}

TypeOK ==
    /\ registry \in [Ids -> Loads \cup {None}]
    /\ runtime \in [Ids -> Loads \cup {None}]
    /\ idOf \in [Loads -> Ids \cup {None}]
    /\ linked \subseteq Loads
    /\ attached \subseteq Loads
    /\ pc \in [Threads -> PC]
    /\ target \in [Threads -> Ids \cup {None}]
    /\ module \in [Threads -> Loads \cup {None}]
    /\ entry \in [Threads -> Loads \cup {None}]
    /\ result \in [Threads -> Result]
    /\ totalCalls \in 0..MaxCalls
    /\ core \in Core
    /\ disturbed \in [Threads -> BOOLEAN]
    /\ reloaded \in BOOLEAN

Init ==
    /\ registry = [i \in Ids |-> None]
    /\ runtime = [i \in Ids |-> None]
    /\ idOf = [n \in Loads |-> None]
    /\ linked = {}
    /\ attached = {}
    /\ pc = [t \in Threads |-> "idle"]
    /\ target = [t \in Threads |-> None]
    /\ module = [t \in Threads |-> None]
    /\ entry = [t \in Threads |-> None]
    /\ result = [t \in Threads |-> "none"]
    /\ totalCalls = 0
    /\ core = "up"
    /\ disturbed = [t \in Threads |-> FALSE]
    /\ reloaded = FALSE

-----------------------------------------------------------------------------
(* Objects and references *)

\* Loads are numbered in the order in which they happen.
IsNext(n) == idOf[n] = None /\ \A k \in 1..(n - 1) : idOf[k] # None

\* The pool's workers exist, and run what is queued, until they are joined.
WorkersRun == core # "gone"

\* modules_ and modulesMutex_ can be used.
TablesExist == core \in {"up", "cleared"}

Crashed == \E t \in Threads : pc[t] = "fault"

\* WasmModule::dispose: unload whatever the runtime has under the module's id,
\* which need not be the entry this module was made for, and detach.  On a
\* detached module, and on a linked one (no handle to close), it does nothing.
Dispose_KeepEntry(m) == attached' = attached \ {m} /\ UNCHANGED runtime
Dispose_KeepPointer(m) ==
    /\ runtime' = IF m \in attached THEN [runtime EXCEPT ![idOf[m]] = None]
                                    ELSE runtime
    /\ UNCHANGED attached
Dispose(m) ==
    /\ runtime' = IF m \in attached THEN [runtime EXCEPT ![idOf[m]] = None]
                                    ELSE runtime
    /\ attached' = attached \ {m}

\* A reference to m goes away; when the registry and every thread have let go
\* of m, ~WasmModule runs, and it calls dispose.
Release_Leak(m, stillHeld) == UNCHANGED <<runtime, attached>>
Release_Early(m, stillHeld) ==
    IF m = None THEN UNCHANGED <<runtime, attached>> ELSE Dispose(m)
Release(m, stillHeld) ==
    IF m = None \/ stillHeld THEN UNCHANGED <<runtime, attached>>
                             ELSE Dispose(m)

HeldByOther(t, m) == \E u \in Threads \ {t} : module[u] = m

-----------------------------------------------------------------------------
(* Loading *)

\* The id is loaded, or another load of it is under way.
Occupied(i) ==
    registry[i] # None \/ \E u \in Threads : pc[u] = "register" /\ target[u] = i

\* WasmRuntime::loadModule: instantiate, then store the entry under its id.  An
\* entry that was there loses that reference.  The new WasmModule is attached.
RuntimeLoad(t, i, n) ==
    /\ pc[t] = "idle"
    /\ WorkersRun
    /\ IsNext(n)
    /\ reloaded' = (reloaded \/ Occupied(i))
    /\ idOf' = [idOf EXCEPT ![n] = i]
    /\ runtime' = [runtime EXCEPT ![i] = n]
    /\ attached' = attached \cup {n}
    /\ module' = [module EXCEPT ![t] = n]
    /\ target' = [target EXCEPT ![t] = i]
    /\ pc' = [pc EXCEPT ![t] = "register"]
    /\ UNCHANGED <<registry, linked, entry, result, totalCalls, core,
                   disturbed>>

\* The bytes do not load or do not instantiate: nothing is stored.
RuntimeLoadFails(t) ==
    /\ pc[t] = "idle"
    /\ WorkersRun
    /\ result' = [result EXCEPT ![t] = "refused"]
    /\ UNCHANGED <<registry, runtime, idOf, linked, attached, pc, target, module,
                   entry, totalCalls, core, disturbed, reloaded>>

\* registerModule: modules_[id] = module under modulesMutex_.  The module that
\* was there loses the registry's reference.
Register(t) ==
    LET old == registry[target[t]] IN
    /\ pc[t] = "register"
    /\ TablesExist
    /\ registry' = [registry EXCEPT ![target[t]] = module[t]]
    /\ Release(old, \E u \in Threads : module[u] = old)
    /\ module' = [module EXCEPT ![t] = None]
    /\ target' = [target EXCEPT ![t] = None]
    /\ result' = [result EXCEPT ![t] = "answered"]
    /\ pc' = [pc EXCEPT ![t] = "idle"]
    /\ UNCHANGED <<idOf, linked, entry, totalCalls, core, disturbed, reloaded>>

\* loadLinkedModule, on the JS thread: no runtime entry, just a registration.
LoadLinked(i, n) ==
    LET old == registry[i] IN
    /\ core = "up"
    /\ IsNext(n)
    /\ reloaded' = (reloaded \/ Occupied(i))
    /\ idOf' = [idOf EXCEPT ![n] = i]
    /\ linked' = linked \cup {n}
    /\ registry' = [registry EXCEPT ![i] = n]
    /\ Release(old, \E u \in Threads : module[u] = old)
    /\ UNCHANGED <<pc, target, module, entry, result, totalCalls, core,
                   disturbed>>

\* modules_.erase
Erased(i) == [registry EXCEPT ![i] = None]

\* unloadModule, on the JS thread: dispose and erase under modulesMutex_,
\* whoever may be calling the module.
Unload(i) ==
    /\ core = "up"
    /\ registry[i] # None
    /\ Dispose(registry[i])
    /\ registry' = Erased(i)
    /\ disturbed' = [t \in Threads |-> disturbed[t] \/ target[t] = i]
    /\ UNCHANGED <<idOf, linked, pc, target, module, entry, result, totalCalls,
                   core, reloaded>>

-----------------------------------------------------------------------------
(* Calling *)

\* The call ends with result r and its references are dropped, the entry first.
Finish(t, r) ==
    /\ Release(module[t], HeldByOther(t, module[t])
                            \/ registry[target[t]] = module[t])
    /\ entry' = [entry EXCEPT ![t] = None]
    /\ module' = [module EXCEPT ![t] = None]
    /\ target' = [target EXCEPT ![t] = None]
    /\ result' = [result EXCEPT ![t] = r]
    /\ pc' = [pc EXCEPT ![t] = "idle"]
    /\ UNCHANGED <<registry, idOf, linked, totalCalls, core, disturbed, reloaded>>

\* totalCalls_.fetch_add(1)
Counted == totalCalls + 1

\* executeCall: count the call, look the module up under modulesMutex_.
FindModule(t, i) ==
    /\ pc[t] = "idle"
    /\ TablesExist
    /\ totalCalls < MaxCalls
    /\ totalCalls' = Counted
    /\ disturbed' = [disturbed EXCEPT ![t] = FALSE]
    /\ IF registry[i] = None
         THEN /\ result' = [result EXCEPT ![t] = "refused"]
              /\ UNCHANGED <<pc, target, module>>
         ELSE /\ module' = [module EXCEPT ![t] = registry[i]]
              /\ target' = [target EXCEPT ![t] = i]
              /\ pc' = [pc EXCEPT ![t] = "found"]
              /\ result' = [result EXCEPT ![t] = "none"]
    /\ UNCHANGED <<registry, runtime, idOf, linked, attached, entry, core,
                   reloaded>>

\* SharedLibraryModule::call goes straight into the library.
EnterLinked(t) ==
    /\ pc[t] = "found"
    /\ module[t] \in linked
    /\ pc' = [pc EXCEPT ![t] = "guest"]
    /\ UNCHANGED <<registry, runtime, idOf, linked, attached, target, module,
                   entry, result, totalCalls, core, disturbed, reloaded>>

\* WasmModule::call: if (!runtime_) ...
TestRuntime(t) ==
    /\ pc[t] = "found"
    /\ module[t] \in attached
    /\ pc' = [pc EXCEPT ![t] = "deref"]
    /\ UNCHANGED <<registry, runtime, idOf, linked, attached, target, module,
                   entry, result, totalCalls, core, disturbed, reloaded>>

Detached(t) ==
    /\ pc[t] = "found"
    /\ module[t] \notin attached \cup linked
    /\ Finish(t, "disposed")

\* ... return runtime_->call(...).  Nothing orders this second read of runtime_
\* with a dispose on another thread: the build may reuse the pointer it tested,
\* or read nullptr now and call through it.
Fault(t) ==
    /\ pc[t] = "deref"
    /\ module[t] \notin attached
    /\ pc' = [pc EXCEPT ![t] = "fault"]
    /\ UNCHANGED <<registry, runtime, idOf, linked, attached, target, module,
                   entry, result, totalCalls, core, disturbed, reloaded>>

\* WasmRuntime::call: look the entry up under the runtime's mutex.
FindEntry(t) ==
    /\ pc[t] = "deref"
    /\ runtime[target[t]] # None
    /\ entry' = [entry EXCEPT ![t] = runtime[target[t]]]
    /\ pc' = [pc EXCEPT ![t] = "entry"]
    /\ UNCHANGED <<registry, runtime, idOf, linked, attached, target, module,
                   result, totalCalls, core, disturbed, reloaded>>

EntryGone(t) ==
    /\ pc[t] = "deref"
    /\ runtime[target[t]] = None
    /\ Finish(t, "notLoaded")

\* The arguments are not a JSON array: refused before callMutex is taken.
RejectArgs(t) ==
    /\ pc[t] = "entry"
    /\ Finish(t, "refused")

\* std::lock_guard callLock(entry->callMutex): one call at a time in an instance.
MutexFree_Twice(e) == \A u \in Threads : entry[u] # e
MutexFree(e) == \A u \in Threads : ~(pc[u] = "guest" /\ entry[u] = e)

Enter(t) ==
    /\ pc[t] = "entry"
    /\ MutexFree(entry[t])
    /\ pc' = [pc EXCEPT ![t] = "guest"]
    /\ UNCHANGED <<registry, runtime, idOf, linked, attached, target, module,
                   entry, result, totalCalls, core, disturbed, reloaded>>

Return(t) ==
    /\ pc[t] = "guest"
    /\ Finish(t, "answered")

-----------------------------------------------------------------------------
(* Destroying the core *)

\* The body of ~CrossNative: under modulesMutex_ it disposes of every module,
\* whoever may be calling it, and clears the table.
ClearModules ==
    LET mods == {registry[i] : i \in Ids} \cap attached IN
    /\ core = "up"
    /\ runtime' = [i \in Ids |->
                     IF \E m \in mods : idOf[m] = i THEN None ELSE runtime[i]]
    /\ attached' = attached \ mods
    /\ registry' = [i \in Ids |-> None]
    /\ disturbed' = [t \in Threads |-> disturbed[t] \/ target[t] # None]
    /\ core' = "cleared"
    /\ UNCHANGED <<idOf, linked, pc, target, module, entry, result, totalCalls,
                   reloaded>>

\* modules_ and its mutex are declared after the pool, so they go before it: a
\* module registered since the body ran is let go of, its destructor running if
\* no call holds it.
DestroyTables ==
    LET free == {m \in {registry[i] : i \in Ids} \cap attached :
                   \A t \in Threads : module[t] # m} IN
    /\ core = "cleared"
    /\ runtime' = [i \in Ids |->
                     IF \E m \in free : idOf[m] = i THEN None ELSE runtime[i]]
    /\ attached' = attached \ free
    /\ registry' = [i \in Ids |-> None]
    /\ core' = "dying"
    /\ UNCHANGED <<idOf, linked, pc, target, module, entry, result, totalCalls,
                   disturbed, reloaded>>

\* A task that registers its module or looks one up now locks a mutex and walks
\* a table that no longer exist: what follows is undefined.
UseDestroyed(t) ==
    /\ core = "dying"
    /\ \/ pc[t] = "register"
       \/ pc[t] = "idle" /\ totalCalls < MaxCalls
    /\ pc' = [pc EXCEPT ![t] = "fault"]
    /\ UNCHANGED <<registry, runtime, idOf, linked, attached, target, module,
                   entry, result, totalCalls, core, disturbed, reloaded>>

\* ~ThreadPool: the workers finish what is queued and are joined.
PoolJoined_Skipped == TRUE
PoolJoined == \A t \in Threads : pc[t] = "idle"

\* wasmRuntime_ is declared before the pool and goes after it, with every entry
\* it has left.
DestroyRuntime ==
    /\ core = "dying"
    /\ PoolJoined
    /\ runtime' = [i \in Ids |-> None]
    /\ core' = "gone"
    /\ UNCHANGED <<registry, idOf, linked, attached, pc, target, module, entry,
                   result, totalCalls, disturbed, reloaded>>

Destructor == DestroyTables \/ DestroyRuntime

-----------------------------------------------------------------------------

CallStep(t) ==
    \/ EnterLinked(t) \/ TestRuntime(t) \/ Detached(t) \/ Fault(t)
    \/ FindEntry(t) \/ EntryGone(t) \/ Enter(t) \/ Return(t)

\* The bounds are used up, or the process has crashed.
Finished ==
    /\ \/ Crashed
       \/ core = "gone"
       \/ /\ \A t \in Threads : pc[t] = "idle"
          /\ totalCalls = MaxCalls
    /\ UNCHANGED vars

Next ==
    \/ /\ ~Crashed
       /\ \/ \E t \in Threads, i \in Ids, n \in Loads : RuntimeLoad(t, i, n)
          \/ \E t \in Threads : RuntimeLoadFails(t) \/ Register(t)
          \/ \E t \in Threads : CallStep(t) \/ RejectArgs(t)
          \/ \E i \in Ids, n \in Loads : LoadLinked(i, n)
          \/ \E i \in Ids : Unload(i)
          \/ \E t \in Threads, i \in Ids : FindModule(t, i)
          \/ ClearModules \/ Destructor
          \/ \E t \in Threads : UseDestroyed(t)
    \/ Finished

\* A worker inside an operation goes on, and arguments are not bound to be bad.
\* A waiter for callMutex gets it: only MaxCalls calls compete for it, and every
\* guest call returns.  A destructor that has begun goes on.
Fairness ==
    /\ \A t \in Threads :
         WF_vars(/\ ~Crashed
                 /\ \/ Register(t) \/ CallStep(t)
                    \/ pc[t] = "register" /\ UseDestroyed(t))
    /\ WF_vars(~Crashed /\ Destructor)

Spec == Init /\ [][Next]_vars /\ Fairness

-----------------------------------------------------------------------------
(* Properties *)

\* A call whose module was found never fails because the module is gone,
\* unless it was unloaded under the call: the two tables do not lose a module
\* between them.  (The caller of load that gets true expects this.)
NoSpuriousLoss ==
    \A t \in Threads :
      result[t] \in {"disposed", "notLoaded"} => disturbed[t]

\* The code keeps that promise as long as no id is loaded while it is loaded:
\* unloads, later loads of the id and calls may interleave at will.
LossNeedsReload == ~reloaded => NoSpuriousLoss

\* isModuleLoaded does not lie: as long as no id is loaded twice, a registered
\* WASM module has its own entry in the runtime.
TablesAgree ==
    ~reloaded =>
      \A i \in Ids :
        registry[i] # None /\ registry[i] \notin linked => runtime[i] = registry[i]

\* No instance is leaked: an entry in the runtime's map belongs to an id that
\* is registered, is being registered, or whose module a call still holds.
NoOrphanEntry ==
    \A i \in Ids :
      runtime[i] # None => \/ registry[i] # None
                           \/ \E t \in Threads : target[t] = i

\* A module found in the registry has not been disposed, and a module that has
\* not been disposed is reachable: its destructor has not been skipped.
AttachedWhileHeld ==
    /\ \A i \in Ids : registry[i] # None => registry[i] \in attached \cup linked
    /\ \A m \in attached :
         registry[idOf[m]] = m \/ \E t \in Threads : module[t] = m

\* "calling an unloaded module fails cleanly" (native/test/test_main.cpp:219):
\* the only way to call through nullptr is an unload, or the core's destruction,
\* that overlaps the call.
FaultNeedsOverlap ==
    ~reloaded =>
      \A t \in Threads : pc[t] = "fault" => disturbed[t] \/ core # "up"

\* The members of the core are declared in an order that makes its destructor
\* safe for the runtime (CrossNative.hpp:160-164): when it is destroyed no task
\* runs, and no module is left whose destructor would call into it.
NothingOutlivesCore ==
    core = "gone" => attached = {} /\ \A t \in Threads : pc[t] = "idle"

\* Every load and call ends, unless the process crashes under it.
OperationEnds ==
    \A t \in Threads : (pc[t] # "idle") ~> (pc[t] = "idle" \/ Crashed)

=============================================================================
