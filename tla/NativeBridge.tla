---------------------------- MODULE NativeBridge ----------------------------
(***************************************************************************)
(* The JavaScript side of a module's life: NativeBridge (bridge.ts) with   *)
(* its cache of handles and its backend, createNativeModule, which gives   *)
(* each module a bridge of its own, and the effect of useNativeModule,     *)
(* which loads on mount and disposes on unmount.  All of them name the     *)
(* native module by the configured name, and all bridges reach one core.   *)
(*                                                                         *)
(* JavaScript runs one thing at a time: an action is what runs between two *)
(* awaits.  A load is named once; its handle, if any, bears its name.      *)
(***************************************************************************)
EXTENDS Naturals, FiniteSets

CONSTANTS
    Loads,      \* the loads asked for: a mount, or a call of loadModule
    Bridges,
    Names,
    BridgeOf,   \* the bridge a load goes through
    NameOf,     \* the name it loads
    None

ASSUME NativeBridgeAssumption ==
    /\ BridgeOf \in [Loads -> Bridges]
    /\ NameOf \in [Loads -> Names]
    /\ None \notin Loads

VARIABLES
    pc,           \* pc[l]: where the load is
    handle,       \* handle[l]: the handle it returned
    unmounted,    \* loads whose caller gives the module up
    disposed,     \* handles whose disposed flag is set
    modules,      \* modules[b]: NativeBridge.modules, name to handle
    backend,      \* bridges whose `backend` is set
    creating,     \* creating[b]: createBackend calls under way
    closing,      \* bridges whose dispose() has still to null `backend`
    native,       \* names the core has loaded (isModuleLoaded)
    overlapped    \* history: a name was loaded while another load held it

vars == <<pc, handle, unmounted, disposed, modules, backend, creating, closing,
          native, overlapped>>

\* abandoned: the caller was refused, but the core has the module.
TypeOK ==
    /\ pc \in [Loads -> {"idle", "initializing", "initialized", "loading",
                         "loaded", "done", "failed", "abandoned"}]
    /\ handle \in [Loads -> Loads \cup {None}]
    /\ unmounted \subseteq Loads
    /\ disposed \subseteq Loads
    /\ modules \in [Bridges -> [Names -> Loads \cup {None}]]
    /\ backend \subseteq Bridges
    /\ creating \in [Bridges -> Nat]
    /\ closing \subseteq Bridges
    /\ native \subseteq Names
    /\ overlapped \in BOOLEAN

Init ==
    /\ pc = [l \in Loads |-> "idle"]
    /\ handle = [l \in Loads |-> None]
    /\ unmounted = {}
    /\ disposed = {}
    /\ modules = [b \in Bridges |-> [n \in Names |-> None]]
    /\ backend = {}
    /\ creating = [b \in Bridges |-> 0]
    /\ closing = {}
    /\ native = {}
    /\ overlapped = FALSE

-----------------------------------------------------------------------------

\* A handle its caller may still use.
Live(h) == handle[h] = h /\ h \notin disposed

\* A load that has a bridge to itself, as every createNativeModule does.
Alone(l) == \A k \in Loads \ {l} : BridgeOf[k] # BridgeOf[l]

\* Nobody else holds, or is about to hold, the name of l, and no abandoned load
\* occupies it; or l will be given the handle that its own bridge has cached.
Free(l) ==
    \A k \in Loads \ {l} : NameOf[k] = NameOf[l] =>
      \/ pc[k] \in {"idle", "failed"}
      \/ /\ pc[k] = "done"
         /\ ~Live(handle[k]) \/ BridgeOf[k] = BridgeOf[l]

\* initialize: the first caller creates the backend, the others share it.
Creates(b) == IF creating[b] = 0 THEN 1 ELSE creating[b]

Start(l) ==
    LET b == BridgeOf[l] IN
    /\ pc[l] = "idle"
    /\ overlapped' = (overlapped \/ ~Free(l))
    /\ IF b \in backend
         THEN /\ pc' = [pc EXCEPT ![l] = "initialized"]
              /\ UNCHANGED creating
         ELSE /\ pc' = [pc EXCEPT ![l] = "initializing"]
              /\ creating' = [creating EXCEPT ![b] = Creates(b)]
    /\ UNCHANGED <<handle, unmounted, disposed, modules, backend, closing,
                   native>>

\* createBackend settles: everyone awaiting it goes on together, and
\* `initializing` is cleared, so that a failed attempt can be retried.
Initialized(b, ok) ==
    /\ creating[b] > 0
    /\ pc' = [l \in Loads |->
                IF BridgeOf[l] = b /\ pc[l] = "initializing"
                  THEN IF ok THEN "initialized" ELSE "failed"
                  ELSE pc[l]]
    /\ creating' = [creating EXCEPT ![b] = 0]
    /\ backend' = IF ok THEN backend \cup {b} ELSE backend
    /\ UNCHANGED <<handle, unmounted, disposed, modules, closing, native,
                   overlapped>>

\* loadModule after its first await: the cached handle, or the backend's load.
\* A bridge disposed meanwhile has no backend: the load throws.
Cached_Never(l) == None
Cached(l) == modules[BridgeOf[l]][NameOf[l]]

UseCache(l) ==
    /\ pc[l] = "initialized"
    /\ Cached(l) # None
    /\ pc' = [pc EXCEPT ![l] = "done"]
    /\ handle' = [handle EXCEPT ![l] = Cached(l)]
    /\ UNCHANGED <<unmounted, disposed, modules, backend, creating, closing,
                   native, overlapped>>

AskBackend(l) ==
    /\ pc[l] = "initialized"
    /\ Cached(l) = None
    /\ pc' = [pc EXCEPT ![l] =
                IF BridgeOf[l] \in backend THEN "loading" ELSE "failed"]
    /\ UNCHANGED <<handle, unmounted, disposed, modules, backend, creating,
                   closing, native, overlapped>>

\* The core loads the module, on a worker; or cannot; or has loaded it, but its
\* manifest is unreadable and JSIBackend.load throws.
CoreLoads(l) ==
    /\ pc[l] = "loading"
    /\ \/ /\ pc' = [pc EXCEPT ![l] = "failed"]
          /\ UNCHANGED native
       \/ /\ \E p \in {"loaded", "abandoned"} : pc' = [pc EXCEPT ![l] = p]
          /\ native' = native \cup {NameOf[l]}
    /\ UNCHANGED <<handle, unmounted, disposed, modules, backend, creating,
                   closing, overlapped>>

\* loadModule after its last await: a handle of its own, into the cache.
Return(l) ==
    /\ pc[l] = "loaded"
    /\ pc' = [pc EXCEPT ![l] = "done"]
    /\ handle' = [handle EXCEPT ![l] = l]
    /\ modules' = [modules EXCEPT ![BridgeOf[l]][NameOf[l]] = l]
    /\ UNCHANGED <<unmounted, disposed, backend, creating, closing, native,
                   overlapped>>

\* createNativeModule: a plugin's onModuleLoad throws.  The handle stays in the
\* cache of a bridge that nobody has.
PluginThrows(l) ==
    /\ pc[l] = "loaded"
    /\ Alone(l)
    /\ pc' = [pc EXCEPT ![l] = "abandoned"]
    /\ handle' = [handle EXCEPT ![l] = l]
    /\ modules' = [modules EXCEPT ![BridgeOf[l]][NameOf[l]] = l]
    /\ UNCHANGED <<unmounted, disposed, backend, creating, closing, native,
                   overlapped>>

-----------------------------------------------------------------------------

\* A handle's dispose, for all the handles of H: flag, cache entry, unload.
MayDispose_Again(H) == H
MayDispose(H) == H \ disposed

Forgotten_Kept(H) == modules
Forgotten(H) ==
    [b \in Bridges |-> [n \in Names |->
       IF \E h \in H : BridgeOf[h] = b /\ NameOf[h] = n
         THEN None ELSE modules[b][n]]]

DisposeHandles_NoUnload(H) ==
    /\ disposed' = disposed \cup MayDispose(H)
    /\ modules' = Forgotten(MayDispose(H))
    /\ UNCHANGED native
DisposeHandles(H) ==
    /\ disposed' = disposed \cup MayDispose(H)
    /\ modules' = Forgotten(MayDispose(H))
    /\ native' = native \ {NameOf[h] : h \in MayDispose(H)}

\* The caller lets go; a load still under way is disposed when it ends.
Unmount(l) ==
    /\ pc[l] # "idle"
    /\ l \notin unmounted
    /\ unmounted' = unmounted \cup {l}
    /\ UNCHANGED <<pc, handle, disposed, modules, backend, creating, closing,
                   native, overlapped>>

\* loading.then(module => module.dispose()); dispose may well be called twice.
DisposeHandle(l) ==
    /\ l \in unmounted
    /\ pc[l] = "done"
    /\ DisposeHandles({handle[l]})
    /\ UNCHANGED <<pc, handle, unmounted, backend, creating, closing,
                   overlapped>>

\* NativeBridge.dispose: every cached module, then - an await later when the
\* bridge owns its backend - the backend.
DisposeBridge(b) ==
    /\ b \notin closing
    /\ ~\E l \in Loads : BridgeOf[l] = b /\ Alone(l) /\ pc[l] = "abandoned"
    /\ closing' = closing \cup {b}
    /\ DisposeHandles({h \in Loads : \E n \in Names : modules[b][n] = h})
    /\ UNCHANGED <<pc, handle, unmounted, backend, creating, overlapped>>

NullBackend(b) ==
    /\ b \in closing
    /\ closing' = closing \ {b}
    /\ backend' = backend \ {b}
    /\ UNCHANGED <<pc, handle, unmounted, disposed, modules, creating,
                   native, overlapped>>

Next ==
    \/ \E l \in Loads :
         \/ Start(l) \/ UseCache(l) \/ AskBackend(l) \/ CoreLoads(l) \/ Return(l)
         \/ PluginThrows(l) \/ Unmount(l) \/ DisposeHandle(l)
    \/ \E b \in Bridges :
         \/ \E ok \in BOOLEAN : Initialized(b, ok)
         \/ DisposeBridge(b) \/ NullBackend(b)

\* Promises settle: the backend's creation, the core's load, the microtasks.
Fairness ==
    /\ \A b \in Bridges : WF_vars(\E ok \in BOOLEAN : Initialized(b, ok))
    /\ \A l \in Loads :
         /\ WF_vars(UseCache(l) \/ AskBackend(l)) /\ WF_vars(CoreLoads(l))
         /\ WF_vars(Return(l) \/ PluginThrows(l)) /\ WF_vars(DisposeHandle(l))

Spec == Init /\ [][Next]_vars /\ Fairness

-----------------------------------------------------------------------------
(* Properties *)

\* The cache never hands out a handle that throws on use.
CacheIsLive ==
    \A b \in Bridges, n \in Names : modules[b][n] # None => Live(modules[b][n])

\* A module is usable for as long as somebody holds a live handle to it: "for
\* the lifetime of a component" (useNative.ts:24).  The code counts no holders:
\* callers who share a name must take turns, or share a bridge.
UsableWhileHeld ==
    ~overlapped => \A h \in Loads : Live(h) => NameOf[h] \in native

\* Once nothing is loading and every handle that was given out is disposed of -
\* by its caller, by its bridge, or by neither in time for the other's load - the
\* core has no module left, but for those of abandoned loads.
Settled(l) == pc[l] \in {"idle", "done", "failed", "abandoned"}

NothingLeftLoaded ==
    (\A l \in Loads : Settled(l) /\ (pc[l] = "done" => handle[l] \in disposed))
      => native \subseteq {NameOf[l] : l \in {k \in Loads : pc[k] = "abandoned"}}

\* What a caller has given up - while it was still loading, perhaps - is out of
\* the core in the end, unless somebody else has the name or a load of it was
\* abandoned.
HeldByOther(l) ==
    \E k \in Loads \ {l} :
      /\ NameOf[k] = NameOf[l]
      /\ \/ pc[k] \in {"loaded", "abandoned"}
         \/ pc[k] = "done" /\ Live(handle[k])

GivenUpIsUnloaded ==
    \A l \in Loads :
      (l \in unmounted) ~>
        \/ pc[l] \in {"failed", "abandoned"}
        \/ pc[l] = "done" /\ (NameOf[l] \in native => HeldByOther(l))

\* "Repeated loads of the same name return the cached handle" (bridge.ts:76-77):
\* two loads of one name through one bridge never yield two live handles.
CachedHandle ==
    \A h, k \in Loads :
      (Live(h) /\ Live(k) /\ BridgeOf[h] = BridgeOf[k] /\ NameOf[h] = NameOf[k])
        => h = k

\* True of loads that follow one another: the cache is looked up before the
\* backend's load and filled after it, so loads that overlap both miss it.
CachedInTurn == ~overlapped => CachedHandle

=============================================================================
