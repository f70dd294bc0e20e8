---------------------------- MODULE BridgeProofs ----------------------------
(***************************************************************************)
(* What runs in JavaScript between a component and a backend.              *)
(*                                                                         *)
(* The bridges' caches and the core, for any loads, bridges and names: no  *)
(* cache holds a dead handle, nothing stays loaded once every handle is    *)
(* disposed of, and loads that do not overlap share one handle, usable for *)
(* as long as it is held.                                                  *)
(*                                                                         *)
(* The guarded call, for any number of plugins: the hooks bracket the call,*)
(* the wait leaves nothing behind, and every step brings the answer nearer.*)
(***************************************************************************)
EXTENDS NativeBridge, CallGuard, SequenceTheorems, TLAPS

-----------------------------------------------------------------------------
(* The bridges: NativeBridge                                               *)

\* A load has a handle once it has returned, and only then: its own, or that of
\* an earlier load of the same name through the same bridge.
Returned ==
    \A l \in Loads :
      /\ pc[l] \notin {"done", "abandoned"} => handle[l] = None
      /\ pc[l] = "done" => handle[l] # None
      /\ handle[l] # None =>
           /\ handle[handle[l]] = handle[l]
           /\ BridgeOf[handle[l]] = BridgeOf[l]
           /\ NameOf[handle[l]] = NameOf[l]

\* A handle in the cache is live, and of that bridge and name.
Filed ==
    \A b \in Bridges, n \in Names : modules[b][n] # None =>
      /\ Live(modules[b][n])
      /\ BridgeOf[modules[b][n]] = b
      /\ NameOf[modules[b][n]] = n

\* Only a handle that was given out is disposed of.
OnceGiven == \A h \in disposed : handle[h] = h

\* The core has what some load has brought in and nobody has disposed of.
BroughtIn ==
    \A n \in native : \E l \in Loads :
      /\ NameOf[l] = n
      /\ \/ pc[l] \in {"loaded", "abandoned"}
         \/ pc[l] = "done" /\ handle[l] \notin disposed

Going == {"initializing", "initialized", "loading", "loaded"}

\* What loads of one name owe to each other as long as none has overlapped.
\* One of them is under way at a time, and no abandoned one is in its way;
Single ==
    \A l, k \in Loads :
      (NameOf[l] = NameOf[k] /\ pc[l] \in Going /\ k # l) =>
          pc[k] \in {"idle", "failed", "done"}

\* a live handle is the only one of its name, is in its bridge's cache, and its
\* module is loaded;
Sole ==
    \A h \in Loads : Live(h) =>
      /\ \A k \in Loads : (Live(k) /\ NameOf[k] = NameOf[h]) => k = h
      /\ modules[BridgeOf[h]][NameOf[h]] = h
      /\ NameOf[h] \in native

\* while a load is under way, only its own bridge may have one, and once the
\* core has been asked nobody has.
Alternate ==
    \A l, h \in Loads :
      (Live(h) /\ NameOf[h] = NameOf[l] /\ pc[l] \in Going) =>
          /\ pc[l] \in {"initializing", "initialized"}
          /\ BridgeOf[h] = BridgeOf[l]

\* What the core has loaded for a load stays until that load returns.
Arrived == \A l \in Loads : pc[l] = "loaded" => NameOf[l] \in native

InTurn == Single /\ Sole /\ Alternate /\ Arrived

BInv ==
    /\ TypeOK
    /\ Returned
    /\ Filed
    /\ OnceGiven
    /\ BroughtIn
    /\ ~overlapped => InTurn

----------------------------------------------------------------------------
(* Each action keeps the invariant.                                        *)

LEMMA StartKeeps ==
    ASSUME BInv, NEW l \in Loads, Start(l)
    PROVE  BInv'
<1> USE NativeBridgeAssumption DEF BInv
<1>a. /\ pc[l] = "idle"
      /\ \E p \in {"initializing", "initialized"} :
           pc' = [pc EXCEPT ![l] = p]
      /\ overlapped' = (overlapped \/ ~Free(l))
      /\ UNCHANGED <<handle, disposed, modules, native>>
  BY DEF Start
<1>1. TypeOK'
  <2>1. BridgeOf[l] \in Bridges
    OBVIOUS
  <2>2. Creates(BridgeOf[l]) \in Nat
    BY <2>1 DEF Creates, TypeOK
  <2>3. pc' \in [Loads -> {"idle", "initializing", "initialized", "loading",
                           "loaded", "done", "failed", "abandoned"}]
    BY DEF TypeOK, Start
  <2>4. creating' \in [Bridges -> Nat]
    BY <2>1, <2>2 DEF TypeOK, Start
  <2>5. overlapped' \in BOOLEAN
    BY DEF TypeOK, Start
  <2> QED
    BY <2>3, <2>4, <2>5 DEF TypeOK, Start
<1>2. Returned'
  BY DEF TypeOK, Returned, Start
<1>3. Filed'
  BY DEF Filed, Live, Start
<1>4. OnceGiven'
  BY DEF OnceGiven, Start
<1>5. BroughtIn'
  BY DEF TypeOK, BroughtIn, Start, Free
<1>6. ASSUME ~overlapped' PROVE InTurn'
  <2>0. ~overlapped /\ InTurn
    BY <1>6 DEF Start
  <2>1. Single'
    <3>1. Free(l)
      BY <1>a, <1>6
    <3>2. \A k \in Loads \ {l} : NameOf[k] = NameOf[l] =>
            pc[k] \in {"idle", "failed", "done"}
      BY <3>1 DEF Free
    <3> QED
      BY <1>a, <2>0, <3>2 DEF InTurn, Single, Going
  <2>2. Sole'
    BY <2>0, <1>6 DEF InTurn, Live, Sole, Start
  <2>3. Alternate'
    <3>1. Free(l)
      BY <1>a, <1>6
    <3>2. ASSUME NEW h \in Loads, Live(h), NameOf[h] = NameOf[l]
          PROVE  BridgeOf[h] = BridgeOf[l]
      <4>1. handle[h] = h /\ h # None
        BY <3>2 DEF Live
      <4>2. pc[h] \in {"done", "abandoned"} /\ h # l
        BY <1>a, <4>1 DEF Returned
      <4> QED
        BY <3>1, <3>2, <4>1, <4>2 DEF Free
    <3>3. ASSUME NEW k \in Loads, NEW h \in Loads, Live(h)',
                 NameOf[h] = NameOf[k], pc'[k] \in Going
          PROVE  /\ pc'[k] \in {"initializing", "initialized"}
                 /\ BridgeOf[h] = BridgeOf[k]
      <4>1. Live(h)
        BY <1>a, <3>3 DEF Live
      <4>2. CASE k = l
        BY <1>a, <4>1, <4>2, <3>2, <3>3 DEF TypeOK
      <4>3. CASE k # l
        BY <1>a, <4>1, <4>3, <2>0, <3>3 DEF TypeOK, InTurn, Alternate
      <4> QED
        BY <4>2, <4>3
    <3> QED
      BY <3>3 DEF Alternate
  <2>4. Arrived'
    BY <2>0, <1>6 DEF InTurn, TypeOK, Arrived, Start
  <2> QED
    BY <2>1, <2>2, <2>3, <2>4 DEF InTurn
<1> QED
  BY <1>1, <1>2, <1>3, <1>4, <1>5, <1>6

LEMMA UseCacheKeeps ==
    ASSUME BInv, NEW l \in Loads, UseCache(l)
    PROVE  BInv'
<1> USE NativeBridgeAssumption DEF BInv
<1> DEFINE h == Cached(l)
<1>a. /\ h \in Loads
      /\ Live(h)
      /\ BridgeOf[h] = BridgeOf[l]
      /\ NameOf[h] = NameOf[l]
  <2>1. BridgeOf[l] \in Bridges /\ NameOf[l] \in Names
    OBVIOUS
  <2>2. h = modules[BridgeOf[l]][NameOf[l]] /\ h # None
    BY DEF UseCache, Cached
  <2>3. h \in Loads
    BY <2>1, <2>2 DEF TypeOK
  <2> QED
    BY <2>1, <2>2, <2>3 DEF Filed
<1>b. /\ pc[l] = "initialized"
      /\ pc' = [pc EXCEPT ![l] = "done"]
      /\ handle' = [handle EXCEPT ![l] = h]
      /\ UNCHANGED <<unmounted, disposed, modules, backend, creating, closing,
                     native, overlapped>>
  BY DEF UseCache
<1>c. handle[l] = None /\ h # l
  BY <1>a, <1>b DEF Returned, Live
<1> HIDE DEF h
<1>1. TypeOK'
  BY <1>a, <1>b DEF TypeOK
<1>2. Returned'
  BY <1>a, <1>b, <1>c DEF Returned, TypeOK, Live
<1>3. Filed'
  BY DEF Filed, Live, Returned, UseCache
<1>4. OnceGiven'
  BY <1>a, <1>b, <1>c DEF OnceGiven, TypeOK
<1>5. BroughtIn'
  BY DEF BroughtIn, UseCache
<1>6. ASSUME ~overlapped' PROVE InTurn'
  <2>0. ~overlapped /\ InTurn
    BY <1>6 DEF UseCache, Cached
  <2>1. Single'
    BY <2>0, <1>6 DEF InTurn, Going, Single, UseCache
  <2>2. Sole'
    <3>1. \A k \in Loads : Live(k)' => Live(k)
      BY <1>b, <1>c DEF Live, TypeOK
    <3> QED
      BY <2>0, <1>b, <3>1 DEF InTurn, Sole
  <2>3. Alternate'
    BY <2>0, <1>6 DEF InTurn, Going, Live, Single, Alternate, UseCache
  <2>4. Arrived'
    BY <2>0, <1>6 DEF InTurn, Arrived, UseCache
  <2> QED
    BY <2>1, <2>2, <2>3, <2>4 DEF InTurn
<1> QED
  BY <1>1, <1>2, <1>3, <1>4, <1>5, <1>6

LEMMA AskBackendKeeps ==
    ASSUME BInv, NEW l \in Loads, AskBackend(l)
    PROVE  BInv'
<1> USE NativeBridgeAssumption DEF BInv
<1>1. TypeOK'
  BY DEF TypeOK, AskBackend, Cached
<1>2. Returned'
  BY DEF Returned, AskBackend
<1>3. Filed'
  BY DEF Filed, Live, AskBackend
<1>4. OnceGiven'
  BY DEF OnceGiven, AskBackend
<1>5. BroughtIn'
  BY DEF BroughtIn, AskBackend
<1>6. ASSUME ~overlapped' PROVE InTurn'
  <2>0. ~overlapped /\ InTurn
    BY <1>6 DEF AskBackend, Cached
  <2>1. Single'
    BY <2>0, <1>6 DEF InTurn, Going, Single, AskBackend
  <2>2. Sole'
    BY <2>0, <1>6 DEF InTurn, Live, Sole, AskBackend
  <2>3. Alternate'
    BY <2>0, <1>6 DEF InTurn, Going, Live, Sole, Alternate, AskBackend, Cached
  <2>4. Arrived'
    BY <2>0, <1>6 DEF InTurn, Arrived, AskBackend
  <2> QED
    BY <2>1, <2>2, <2>3, <2>4 DEF InTurn
<1> QED
  BY <1>1, <1>2, <1>3, <1>4, <1>5, <1>6

LEMMA CoreLoadsKeeps ==
    ASSUME BInv, NEW l \in Loads, CoreLoads(l)
    PROVE  BInv'
<1> USE NativeBridgeAssumption DEF BInv
<1>1. TypeOK'
  BY DEF TypeOK, CoreLoads
<1>2. Returned'
  BY DEF TypeOK, Returned, CoreLoads
<1>3. Filed'
  BY DEF Filed, Live, CoreLoads
<1>4. OnceGiven'
  BY DEF OnceGiven, CoreLoads
<1>5. BroughtIn'
  BY DEF TypeOK, BroughtIn, Returned, OnceGiven, CoreLoads
<1>6. ASSUME ~overlapped' PROVE InTurn'
  <2>0. ~overlapped /\ InTurn
    BY <1>6 DEF CoreLoads
  <2>1. Single'
    <3>1. /\ pc[l] = "loading"
          /\ \E p \in {"failed", "loaded", "abandoned"} :
               pc' = [pc EXCEPT ![l] = p]
      BY DEF CoreLoads
    <3>2. \A k \in Loads : (k # l /\ NameOf[k] = NameOf[l]) =>
            pc[k] \in {"idle", "failed", "done"}
      BY <2>0, <3>1 DEF InTurn, Single, Going
    <3> QED
      BY <2>0, <3>1, <3>2 DEF InTurn, Single
  <2>2. Sole'
    BY <2>0, <1>6 DEF InTurn, Live, Sole, CoreLoads
  <2>3. Alternate'
    BY <2>0, <1>6 DEF InTurn, Going, TypeOK, Live, Alternate, CoreLoads
  <2>4. Arrived'
    BY <2>0, <1>6 DEF InTurn, TypeOK, Arrived, CoreLoads
  <2> QED
    BY <2>1, <2>2, <2>3, <2>4 DEF InTurn
<1> QED
  BY <1>1, <1>2, <1>3, <1>4, <1>5, <1>6

LEMMA ReturnKeeps ==
    ASSUME BInv, NEW l \in Loads, Return(l)
    PROVE  BInv'
<1> USE NativeBridgeAssumption DEF BInv
<1>a. /\ pc[l] = "loaded"
      /\ pc' = [pc EXCEPT ![l] = "done"]
      /\ handle' = [handle EXCEPT ![l] = l]
      /\ modules' = [modules EXCEPT ![BridgeOf[l]][NameOf[l]] = l]
      /\ UNCHANGED <<disposed, native, overlapped>>
  BY DEF Return
<1>b. handle[l] = None /\ l \notin disposed
  BY <1>a DEF Returned, OnceGiven
<1>1. TypeOK'
  BY DEF TypeOK, Return
<1>2. Returned'
  BY DEF TypeOK, Returned, Return
<1>3. Filed'
  BY DEF TypeOK, Filed, Live, Returned, OnceGiven, Return
<1>4. OnceGiven'
  BY DEF OnceGiven, Return
<1>5. BroughtIn'
  BY DEF TypeOK, BroughtIn, Returned, OnceGiven, Return
<1>6. ASSUME ~overlapped' PROVE InTurn'
  <2>0. ~overlapped /\ InTurn
    BY <1>6 DEF Return
  <2>1. Single'
    BY <2>0, <1>6 DEF InTurn, Going, Single, Return
  <2>2. Sole'
    <3>1. \A h \in Loads : (Live(h)' /\ h # l) =>
            Live(h) /\ NameOf[h] # NameOf[l]
      <4>1. \A h \in Loads : (Live(h)' /\ h # l) => Live(h)
        BY <1>a DEF Live, TypeOK
      <4> QED
        BY <1>a, <4>1, <2>0 DEF InTurn, Alternate, Going
    <3>2. NameOf[l] \in native
      BY <1>a, <2>0 DEF InTurn, Arrived
    <3>3. ASSUME NEW h \in Loads, Live(h)', h # l
          PROVE  modules'[BridgeOf[h]][NameOf[h]] = h /\ NameOf[h] \in native
      <4>1. modules[BridgeOf[h]][NameOf[h]] = h /\ NameOf[h] \in native
        BY <2>0, <3>1, <3>3 DEF InTurn, Sole
      <4>2. NameOf[h] # NameOf[l] /\ BridgeOf[h] \in Bridges
        BY <3>1, <3>3
      <4> QED
        BY <1>a, <4>1, <4>2 DEF TypeOK
    <3>4. modules'[BridgeOf[l]][NameOf[l]] = l
      BY <1>a DEF TypeOK
    <3>5. \A h, k \in Loads :
            (Live(h)' /\ Live(k)' /\ NameOf[k] = NameOf[h]) => k = h
      BY <2>0, <3>1 DEF InTurn, Sole
    <3> QED
      BY <1>a, <3>2, <3>3, <3>4, <3>5 DEF Sole
  <2>3. Alternate'
    <3>1. ASSUME NEW k \in Loads, NEW h \in Loads, Live(h)',
                 NameOf[h] = NameOf[k], pc'[k] \in Going
          PROVE  /\ pc'[k] \in {"initializing", "initialized"}
                 /\ BridgeOf[h] = BridgeOf[k]
      <4>1. k # l /\ pc'[k] = pc[k]
        BY <1>a, <3>1 DEF TypeOK, Going
      <4>2. h # l
        BY <1>a, <2>0, <3>1, <4>1 DEF InTurn, Single, Going
      <4>3. Live(h)
        BY <1>a, <3>1, <4>2 DEF Live, TypeOK
      <4> QED
        BY <2>0, <3>1, <4>1, <4>3 DEF InTurn, Alternate
    <3> QED
      BY <3>1 DEF Alternate
  <2>4. Arrived'
    BY <2>0, <1>6 DEF InTurn, Arrived, Return
  <2> QED
    BY <2>1, <2>2, <2>3, <2>4 DEF InTurn
<1> QED
  BY <1>1, <1>2, <1>3, <1>4, <1>5, <1>6

LEMMA PluginThrowsKeeps ==
    ASSUME BInv, NEW l \in Loads, PluginThrows(l)
    PROVE  BInv'
<1> USE NativeBridgeAssumption DEF BInv
<1>a. /\ pc[l] = "loaded"
      /\ pc' = [pc EXCEPT ![l] = "abandoned"]
      /\ handle' = [handle EXCEPT ![l] = l]
      /\ modules' = [modules EXCEPT ![BridgeOf[l]][NameOf[l]] = l]
      /\ UNCHANGED <<disposed, native, overlapped>>
  BY DEF PluginThrows
<1>b. handle[l] = None /\ l \notin disposed
  BY <1>a DEF Returned, OnceGiven
<1>1. TypeOK'
  BY DEF TypeOK, PluginThrows, Alone
<1>2. Returned'
  BY DEF TypeOK, Returned, PluginThrows
<1>3. Filed'
  BY DEF TypeOK, Filed, Live, Returned, OnceGiven, PluginThrows
<1>4. OnceGiven'
  BY DEF OnceGiven, PluginThrows
<1>5. BroughtIn'
  BY DEF BroughtIn, PluginThrows
<1>6. ASSUME ~overlapped' PROVE InTurn'
  <2>0. ~overlapped /\ InTurn
    BY <1>6 DEF PluginThrows, Alone
  <2>1. Single'
    BY <2>0, <1>6 DEF InTurn, Going, Single, PluginThrows
  <2>2. Sole'
    <3>1. \A h \in Loads : (Live(h)' /\ h # l) =>
            Live(h) /\ NameOf[h] # NameOf[l]
      <4>1. \A h \in Loads : (Live(h)' /\ h # l) => Live(h)
        BY <1>a DEF Live, TypeOK
      <4> QED
        BY <1>a, <4>1, <2>0 DEF InTurn, Alternate, Going
    <3>2. NameOf[l] \in native
      BY <1>a, <2>0 DEF InTurn, Arrived
    <3>3. ASSUME NEW h \in Loads, Live(h)', h # l
          PROVE  modules'[BridgeOf[h]][NameOf[h]] = h /\ NameOf[h] \in native
      <4>1. modules[BridgeOf[h]][NameOf[h]] = h /\ NameOf[h] \in native
        BY <2>0, <3>1, <3>3 DEF InTurn, Sole
      <4>2. NameOf[h] # NameOf[l] /\ BridgeOf[h] \in Bridges
        BY <3>1, <3>3
      <4> QED
        BY <1>a, <4>1, <4>2 DEF TypeOK
    <3>4. modules'[BridgeOf[l]][NameOf[l]] = l
      BY <1>a DEF TypeOK
    <3>5. \A h, k \in Loads :
            (Live(h)' /\ Live(k)' /\ NameOf[k] = NameOf[h]) => k = h
      BY <2>0, <3>1 DEF InTurn, Sole
    <3> QED
      BY <1>a, <3>2, <3>3, <3>4, <3>5 DEF Sole
  <2>3. Alternate'
    <3>1. ASSUME NEW k \in Loads, NEW h \in Loads, Live(h)',
                 NameOf[h] = NameOf[k], pc'[k] \in Going
          PROVE  /\ pc'[k] \in {"initializing", "initialized"}
                 /\ BridgeOf[h] = BridgeOf[k]
      <4>1. k # l /\ pc'[k] = pc[k]
        BY <1>a, <3>1 DEF TypeOK, Going
      <4>2. h # l
        BY <1>a, <2>0, <3>1, <4>1 DEF InTurn, Single, Going
      <4>3. Live(h)
        BY <1>a, <3>1, <4>2 DEF Live, TypeOK
      <4> QED
        BY <2>0, <3>1, <4>1, <4>3 DEF InTurn, Alternate
    <3> QED
      BY <3>1 DEF Alternate
  <2>4. Arrived'
    BY <2>0, <1>6 DEF InTurn, Arrived, PluginThrows
  <2> QED
    BY <2>1, <2>2, <2>3, <2>4 DEF InTurn
<1> QED
  BY <1>1, <1>2, <1>3, <1>4, <1>5, <1>6

LEMMA UnmountKeeps ==
    ASSUME BInv, NEW l \in Loads, Unmount(l)
    PROVE  BInv'
<1> USE NativeBridgeAssumption DEF BInv
<1>1. TypeOK'
  BY DEF TypeOK, Unmount
<1>2. Returned'
  BY DEF Returned, Unmount
<1>3. Filed'
  BY DEF Filed, Live, Unmount
<1>4. OnceGiven'
  BY DEF OnceGiven, Unmount
<1>5. BroughtIn'
  BY DEF BroughtIn, Unmount
<1>6. ASSUME ~overlapped' PROVE InTurn'
  <2>0. ~overlapped /\ InTurn
    BY <1>6 DEF Unmount
  <2>1. Single'
    BY <2>0, <1>6 DEF InTurn, Single, Unmount
  <2>2. Sole'
    BY <2>0, <1>6 DEF InTurn, Live, Sole, Unmount
  <2>3. Alternate'
    BY <2>0, <1>6 DEF InTurn, Live, Alternate, Unmount
  <2>4. Arrived'
    BY <2>0, <1>6 DEF InTurn, Arrived, Unmount
  <2> QED
    BY <2>1, <2>2, <2>3, <2>4 DEF InTurn
<1> QED
  BY <1>1, <1>2, <1>3, <1>4, <1>5, <1>6

LEMMA DisposeHandleKeeps ==
    ASSUME BInv, NEW l \in Loads, DisposeHandle(l)
    PROVE  BInv'
<1> USE NativeBridgeAssumption DEF BInv
<1> DEFINE H == MayDispose({handle[l]})
<1>a. H \subseteq Loads \ disposed
  BY DEF DisposeHandle, MayDispose, Returned, TypeOK
<1>b. \A h \in H : Live(h)
  BY DEF DisposeHandle, MayDispose, Returned, Live
<1>c. /\ disposed' = disposed \cup H
      /\ modules' = Forgotten(H)
      /\ native' = native \ {NameOf[h] : h \in H}
      /\ UNCHANGED <<pc, handle, unmounted, backend, creating, closing,
                     overlapped>>
  BY DEF DisposeHandle, DisposeHandles
<1> HIDE DEF H
<1>1. TypeOK'
  BY <1>a, <1>c DEF TypeOK, Forgotten
<1>2. Returned'
  BY DEF Returned, DisposeHandle
<1>3. Filed'
  BY DEF Filed, Live, DisposeHandle, DisposeHandles, MayDispose, Forgotten
<1>4. OnceGiven'
  BY DEF OnceGiven, Returned, DisposeHandle, DisposeHandles, MayDispose
<1>5. BroughtIn'
  BY DEF BroughtIn, Returned, DisposeHandle, DisposeHandles, MayDispose
<1>6. ASSUME ~overlapped' PROVE InTurn'
  <2>0. ~overlapped /\ InTurn
    BY <1>6 DEF DisposeHandle
  <2>1. Single'
    BY <2>0, <1>6 DEF InTurn, Single, DisposeHandle
  <2>2. Sole'
    <3>1. \A k \in Loads : Live(k)' => Live(k) /\ k \notin H
      BY <1>c DEF Live
    <3>2. ASSUME NEW k \in Loads, Live(k)'
          PROVE  /\ modules'[BridgeOf[k]][NameOf[k]] = k
                 /\ NameOf[k] \in native'
      <4>1. \A h \in H : NameOf[h] # NameOf[k]
        BY <1>a, <1>b, <2>0, <3>1, <3>2 DEF InTurn, Sole
      <4>2. modules[BridgeOf[k]][NameOf[k]] = k /\ NameOf[k] \in native
        BY <2>0, <3>1, <3>2 DEF InTurn, Sole
      <4>3. BridgeOf[k] \in Bridges /\ NameOf[k] \in Names
        OBVIOUS
      <4> QED
        BY <1>c, <4>1, <4>2, <4>3 DEF Forgotten
    <3> QED
      BY <2>0, <3>1, <3>2 DEF InTurn, Sole
  <2>3. Alternate'
    BY <2>0, <1>6 DEF InTurn, Live, Alternate, DisposeHandle, DisposeHandles
  <2>4. Arrived'
    <3> SUFFICES ASSUME NEW k \in Loads, pc[k] = "loaded"
                 PROVE  NameOf[k] \in native'
      BY <1>c DEF Arrived
    <3>1. NameOf[k] \in native
      BY <2>0 DEF InTurn, Arrived
    <3>2. \A h \in H : NameOf[h] # NameOf[k]
      BY <1>a, <1>b, <2>0 DEF InTurn, Alternate, Going
    <3> QED
      BY <1>c, <3>1, <3>2
  <2> QED
    BY <2>1, <2>2, <2>3, <2>4 DEF InTurn
<1> QED
  BY <1>1, <1>2, <1>3, <1>4, <1>5, <1>6

LEMMA DisposeBridgeKeeps ==
    ASSUME BInv, NEW b \in Bridges, DisposeBridge(b)
    PROVE  BInv'
<1> USE NativeBridgeAssumption DEF BInv
<1> DEFINE H == MayDispose({h \in Loads : \E n \in Names : modules[b][n] = h})
<1>a. H \subseteq Loads \ disposed
  BY DEF MayDispose
<1>b. \A h \in H : Live(h)
  BY DEF MayDispose, Filed
<1>c. /\ disposed' = disposed \cup H
      /\ modules' = Forgotten(H)
      /\ native' = native \ {NameOf[h] : h \in H}
      /\ UNCHANGED <<pc, handle, unmounted, backend, creating, overlapped>>
  BY DEF DisposeBridge, DisposeHandles
<1> HIDE DEF H
<1>1. TypeOK'
  BY DEF TypeOK, DisposeBridge, DisposeHandles, MayDispose, Forgotten
<1>2. Returned'
  BY DEF Returned, DisposeBridge
<1>3. Filed'
  BY DEF Filed, Live, DisposeBridge, DisposeHandles, MayDispose, Forgotten
<1>4. OnceGiven'
  BY DEF OnceGiven, Live, Filed, DisposeBridge, DisposeHandles, MayDispose
<1>5. BroughtIn'
  BY DEF BroughtIn, Returned, DisposeBridge, DisposeHandles, MayDispose
<1>6. ASSUME ~overlapped' PROVE InTurn'
  <2>0. ~overlapped /\ InTurn
    BY <1>6 DEF DisposeBridge
  <2>1. Single'
    BY <2>0, <1>6 DEF InTurn, Single, DisposeBridge
  <2>2. Sole'
    <3>1. \A k \in Loads : Live(k)' => Live(k) /\ k \notin H
      BY <1>c DEF Live
    <3>2. ASSUME NEW k \in Loads, Live(k)'
          PROVE  /\ modules'[BridgeOf[k]][NameOf[k]] = k
                 /\ NameOf[k] \in native'
      <4>1. \A h \in H : NameOf[h] # NameOf[k]
        BY <1>a, <1>b, <2>0, <3>1, <3>2 DEF InTurn, Sole
      <4>2. modules[BridgeOf[k]][NameOf[k]] = k /\ NameOf[k] \in native
        BY <2>0, <3>1, <3>2 DEF InTurn, Sole
      <4>3. BridgeOf[k] \in Bridges /\ NameOf[k] \in Names
        OBVIOUS
      <4> QED
        BY <1>c, <4>1, <4>2, <4>3 DEF Forgotten
    <3> QED
      BY <2>0, <3>1, <3>2 DEF InTurn, Sole
  <2>3. Alternate'
    BY <2>0, <1>6 DEF InTurn, Live, Alternate, DisposeBridge, DisposeHandles
  <2>4. Arrived'
    <3> SUFFICES ASSUME NEW k \in Loads, pc[k] = "loaded"
                 PROVE  NameOf[k] \in native'
      BY <1>c DEF Arrived
    <3>1. NameOf[k] \in native
      BY <2>0 DEF InTurn, Arrived
    <3>2. \A h \in H : NameOf[h] # NameOf[k]
      BY <1>a, <1>b, <2>0 DEF InTurn, Alternate, Going
    <3> QED
      BY <1>c, <3>1, <3>2
  <2> QED
    BY <2>1, <2>2, <2>3, <2>4 DEF InTurn
<1> QED
  BY <1>1, <1>2, <1>3, <1>4, <1>5, <1>6

LEMMA NullBackendKeeps ==
    ASSUME BInv, NEW b \in Bridges, NullBackend(b)
    PROVE  BInv'
<1> USE NativeBridgeAssumption DEF BInv
<1>1. TypeOK'
  BY DEF TypeOK, NullBackend
<1>2. Returned'
  BY DEF Returned, NullBackend
<1>3. Filed'
  BY DEF Filed, Live, NullBackend
<1>4. OnceGiven'
  BY DEF OnceGiven, NullBackend
<1>5. BroughtIn'
  BY DEF BroughtIn, NullBackend
<1>6. ASSUME ~overlapped' PROVE InTurn'
  <2>0. ~overlapped /\ InTurn
    BY <1>6 DEF NullBackend
  <2>1. Single'
    BY <2>0, <1>6 DEF InTurn, Single, NullBackend
  <2>2. Sole'
    BY <2>0, <1>6 DEF InTurn, Live, Sole, NullBackend
  <2>3. Alternate'
    BY <2>0, <1>6 DEF InTurn, Live, Alternate, NullBackend
  <2>4. Arrived'
    BY <2>0, <1>6 DEF InTurn, Arrived, NullBackend
  <2> QED
    BY <2>1, <2>2, <2>3, <2>4 DEF InTurn
<1> QED
  BY <1>1, <1>2, <1>3, <1>4, <1>5, <1>6

LEMMA InitializedKeeps ==
    ASSUME BInv, NEW b \in Bridges, NEW ok \in BOOLEAN, Initialized(b, ok)
    PROVE  BInv'
<1> USE NativeBridgeAssumption DEF BInv
<1>1. TypeOK'
  BY DEF TypeOK, Initialized
<1>2. Returned'
  BY DEF Returned, Initialized
<1>3. Filed'
  BY DEF Filed, Live, Initialized
<1>4. OnceGiven'
  BY DEF OnceGiven, Initialized
<1>5. BroughtIn'
  BY DEF BroughtIn, Initialized
<1>6. ASSUME ~overlapped' PROVE InTurn'
  <2>0. ~overlapped /\ InTurn
    BY <1>6 DEF Initialized
  <2>1. Single'
    BY <2>0, <1>6 DEF InTurn, Going, Single, Initialized
  <2>2. Sole'
    BY <2>0, <1>6 DEF InTurn, Live, Sole, Initialized
  <2>3. Alternate'
    BY <2>0, <1>6 DEF InTurn, Going, Live, Alternate, Initialized
  <2>4. Arrived'
    BY <2>0, <1>6 DEF InTurn, Arrived, Initialized
  <2> QED
    BY <2>1, <2>2, <2>3, <2>4 DEF InTurn
<1> QED
  BY <1>1, <1>2, <1>3, <1>4, <1>5, <1>6
----------------------------------------------------------------------------
(* The theorems.                                                           *)

LEMMA BInvInit == Init => BInv
<1> SUFFICES ASSUME Init PROVE BInv
  OBVIOUS
<1> USE NativeBridgeAssumption DEF Init
<1>1. TypeOK
  BY DEF TypeOK
<1>2. Returned /\ Filed /\ OnceGiven /\ BroughtIn
  BY DEF Returned, Filed, OnceGiven, BroughtIn
<1>3. InTurn
  BY DEF InTurn, Single, Sole, Alternate, Arrived, Live
<1> QED
  BY <1>1, <1>2, <1>3 DEF BInv

LEMMA BInvNext == BInv /\ [Next]_vars => BInv'
<1> SUFFICES ASSUME BInv, [Next]_vars PROVE BInv'
  OBVIOUS
<1>1. CASE UNCHANGED vars
  BY <1>1
     DEF vars, BInv, TypeOK, Returned, Filed, OnceGiven, BroughtIn, InTurn,
         Single, Sole, Alternate, Arrived, Live
<1>2. CASE Next
  BY <1>2, StartKeeps, UseCacheKeeps, AskBackendKeeps, CoreLoadsKeeps,
     ReturnKeeps, PluginThrowsKeeps, UnmountKeeps, DisposeHandleKeeps,
     InitializedKeeps, DisposeBridgeKeeps, NullBackendKeeps DEF Next
<1> QED
  BY <1>1, <1>2

LEMMA BInvAlways == Spec => []BInv
  BY BInvInit, BInvNext, PTL DEF Spec

\* Every variable keeps its domain.
THEOREM TypeCorrect == Spec => []TypeOK
<1>1. BInv => TypeOK
  BY DEF BInv
<1> QED
  BY <1>1, BInvAlways, PTL

\* loadModule never answers with a cached handle that was disposed of, however
\* loads, disposals and the bridge's own end interleave (bridge.ts).
THEOREM CacheIsLiveHolds == Spec => []CacheIsLive
<1>1. BInv => CacheIsLive
  BY DEF BInv, Filed, CacheIsLive
<1> QED
  BY <1>1, BInvAlways, PTL

\* Loads of one name that take turns never take the module from each other.
THEOREM UsableWhileHeldHolds == Spec => []UsableWhileHeld
<1>1. BInv => UsableWhileHeld
  BY DEF BInv, InTurn, Sole, UsableWhileHeld
<1> QED
  BY <1>1, BInvAlways, PTL

\* Repeated loads through one bridge return one handle, unless they overlap.
THEOREM CachedInTurnHolds == Spec => []CachedInTurn
<1>1. BInv => CachedInTurn
  BY DEF BInv, InTurn, Sole, CachedInTurn, CachedHandle
<1> QED
  BY <1>1, BInvAlways, PTL

\* Once every handle that was given out is disposed of, by whomever, the core
\* keeps no module but those of abandoned loads.
THEOREM NothingLeftLoadedHolds == Spec => []NothingLeftLoaded
<1>1. BInv => NothingLeftLoaded
  BY DEF BInv, BroughtIn, NothingLeftLoaded, Settled
<1> QED
  BY <1>1, BInvAlways, PTL

-----------------------------------------------------------------------------
(* One call through a handle: CallGuard *)

\* The hooks that have run: s for the plugins before `at` and r for the rest.
Ran(s, r) == \A p \in Plugins : hooks[p] = IF p < at THEN s ELSE r

\* Where the hooks are at each stage of a call that goes through withPlugins.
BeforeStage ==
    stage = "before" => ~threw /\ Ran(<<"before">>, << >>)

WaitingStage ==
    stage = "waiting" =>
      ~threw /\ \A p \in Plugins : hooks[p] = <<"before">>

AfterStage ==
    stage = "after" =>
      outcome = "result" /\ ~threw /\ Ran(<<"before", "after">>, <<"before">>)

ErrorStage ==
    stage = "error" =>
      \/ threw
      \/ /\ outcome \notin {"none", "result"}
         /\ Ran(<<"before", "error">>, <<"before">>)

EndStage ==
    stage = "end" =>
      IF answer = "result"
        THEN /\ outcome = "result"
             /\ \A p \in Plugins : hooks[p] = <<"before", "after">>
        ELSE \/ threw
             \/ /\ outcome \notin {"none", "result"}
                /\ \A p \in Plugins : hooks[p] = <<"before", "error">>

Stages ==
    via = "call" =>
      BeforeStage /\ WaitingStage /\ AfterStage /\ ErrorStage /\ EndStage

\* The caller is answered where the wrapper ends and nowhere else.
AnsweredAtEnd == answer # "none" <=> stage = "end"

\* Nothing of guardCall is set up before the call is made.
Unguarded ==
    stage = "before" =>
      /\ nativePromise = "none" /\ outcome = "none"
      /\ timer = "none" /\ ~listening

GInv ==
    /\ CallTypeOK
    /\ Stages /\ AnsweredAtEnd /\ Unguarded
    /\ NothingLeft

-----------------------------------------------------------------------------

\* What one more hook makes of what a plugin has seen.
LEMMA FirstHook == ASSUME NEW a PROVE Append(<< >>, a) = <<a>>
  OBVIOUS

\* A plugin's second hook, after one that has run.
LEMMA SecondHook ==
    ASSUME NEW S, NEW a \in S, NEW b \in S
    PROVE  Append(<<a>>, b) = <<a, b>>
<1> DEFINE s == <<a>>
           r == Append(s, b)
<1>1. s \in Seq(S) /\ Len(s) = 1 /\ s[1] = a
  OBVIOUS
<1>2. r \in Seq(S) /\ Len(r) = 2 /\ r[1] = a /\ r[2] = b
  BY <1>1, AppendProperties
<1>3. /\ <<a, b>> \in Seq(S) /\ Len(<<a, b>>) = 2
      /\ <<a, b>>[1] = a /\ <<a, b>>[2] = b
  OBVIOUS
<1> HIDE DEF r
<1>4. \A i \in 1..Len(r) : r[i] = <<a, b>>[i]
  BY <1>2, <1>3
<1> QED
  BY <1>2, <1>3, <1>4, SeqEqual DEF r

\* What a hook adds to each plugin's record.
LEMMA OneMore ==
    /\ Append(<< >>, "before") = <<"before">>
    /\ Append(<<"before">>, "after") = <<"before", "after">>
    /\ Append(<<"before">>, "error") = <<"before", "error">>
<1> DEFINE H == {"before", "after", "error"}
<1>1. "before" \in H /\ "after" \in H /\ "error" \in H
  OBVIOUS
<1> HIDE DEF H
<1>2. Append(<< >>, "before") = <<"before">>
  BY FirstHook
<1>3. Append(<<"before">>, "after") = <<"before", "after">>
  BY <1>1, SecondHook
<1>4. Append(<<"before">>, "error") = <<"before", "error">>
  BY <1>1, SecondHook
<1> QED
  BY <1>2, <1>3, <1>4

\* A call that has not begun: no hook has run and nothing is guarded.
LEMMA InitGInv == CallInit => GInv
<1> SUFFICES ASSUME CallInit PROVE GInv
  OBVIOUS
<1> USE CallGuardAssumption
<1>1. CallTypeOK
  <2>1. at \in 1..(NPlugins + 1)
    BY DEF CallInit
  <2>2. hooks \in [Plugins -> Seq({"before", "after", "error"})]
    BY DEF CallInit
  <2>3. options \subseteq {"timeout", "signal"} /\ aborted \in BOOLEAN
    BY DEF CallInit
  <2> QED
    BY <2>1, <2>2, <2>3 DEF CallInit, CallTypeOK
<1>2. Stages
  BY DEF CallInit, Stages, BeforeStage, WaitingStage, AfterStage, ErrorStage,
         EndStage, Ran, Plugins
<1>3. AnsweredAtEnd /\ Unguarded /\ NothingLeft
  BY DEF CallInit, AnsweredAtEnd, Unguarded, NothingLeft
<1> QED
  BY <1>1, <1>2, <1>3 DEF GInv

\* Hooks run one after the other: those of the plugins before `at` grow by h.
LEMMA HookGInv ==
    ASSUME GInv, NEW h \in {"before", "after", "error"},
           RunHook(h) \/ HookThrows(h)
    PROVE  GInv'
<1> USE CallGuardAssumption DEF GInv
<1>0. /\ at \in Plugins /\ at \in Nat /\ at + 1 \in 1..(NPlugins + 1)
      /\ via = "call" /\ stage = h
  BY DEF RunHook, HookThrows, Wrapped, Plugins,
         CallTypeOK
<1>1. hooks' = [hooks EXCEPT ![at] = Append(@, h)]
  BY DEF RunHook, HookThrows
<1>2. hooks' \in [Plugins -> Seq({"before", "after", "error"})]
  BY <1>0, <1>1 DEF CallTypeOK
<1>3. AnsweredAtEnd' /\ Unguarded' /\ NothingLeft'
  BY <1>0
     DEF AnsweredAtEnd, Unguarded, NothingLeft, RunHook,
         HookThrows, guardVars
<1>4. CallTypeOK'
  <2>1. at' \in 1..(NPlugins + 1)
    BY <1>0 DEF RunHook, HookThrows
  <2>2. /\ stage' \in {"before", "waiting", "after", "error", "end"}
        /\ threw' \in BOOLEAN
        /\ answer' \in {"none", "result", "error"}
    <3>1. CASE RunHook(h)
      BY <3>1 DEF RunHook, CallTypeOK
    <3>2. CASE HookThrows(h)
      BY <3>2 DEF HookThrows, CallTypeOK
    <3> QED
      BY <3>1, <3>2
  <2>3. UNCHANGED <<via, options, guardVars>>
    BY DEF RunHook, HookThrows
  <2> QED
    BY <1>2, <2>1, <2>2, <2>3 DEF CallTypeOK, guardVars
<1>5. CASE HookThrows(h)
  BY <1>0, <1>3, <1>4, <1>5
     DEF HookThrows, Stages, BeforeStage, WaitingStage, AfterStage,
         ErrorStage, EndStage, guardVars
<1>6. CASE RunHook(h)
  <2> USE <1>6 DEF RunHook, guardVars
  <2>1. ASSUME NEW s, NEW r, Ran(s, r), Append(r, h) = s
        PROVE  Ran(s, r)'
    <3> SUFFICES ASSUME NEW p \in Plugins
                 PROVE  hooks'[p] = IF p < at' THEN s ELSE r
      BY DEF Ran
    <3>1. CASE p = at
      BY <1>0, <1>1, <2>1, <3>1 DEF Ran, Plugins, CallTypeOK
    <3>2. CASE p # at
      BY <1>0, <1>1, <2>1, <3>2 DEF Ran, Plugins, CallTypeOK
    <3> QED
      BY <3>1, <3>2
  <2>2. CASE h = "before"
    <3>1. Ran(<<"before">>, << >>)'
      BY <1>0, <2>1, <2>2, OneMore DEF Stages, BeforeStage
    <3> QED
      BY <1>0, <1>3, <1>4, <2>2, <3>1
         DEF Stages, BeforeStage, WaitingStage, AfterStage, ErrorStage,
             EndStage
  <2>3. CASE h = "after"
    <3>1. Ran(<<"before", "after">>, <<"before">>)'
      BY <1>0, <2>1, <2>3, OneMore DEF Stages, AfterStage
    <3> QED
      BY <1>0, <1>3, <1>4, <2>3, <3>1
         DEF Stages, BeforeStage, WaitingStage, AfterStage, ErrorStage,
             EndStage
  <2>4. CASE h = "error"
    <3>1. ~threw => Ran(<<"before", "error">>, <<"before">>)'
      BY <1>0, <2>1, <2>4, OneMore DEF Stages, ErrorStage
    <3> QED
      BY <1>0, <1>3, <1>4, <2>4, <3>1
         DEF Stages, BeforeStage, WaitingStage, AfterStage, ErrorStage,
             EndStage
  <2> QED
    BY <1>3, <1>4, <2>2, <2>3, <2>4
<1> QED
  BY <1>5, <1>6

\* Each stage hands over to the next with the hooks the latter expects.
LEMMA NextGInv == GInv /\ [CallNext]_callVars => GInv'
<1> SUFFICES ASSUME GInv, [CallNext]_callVars PROVE GInv'
  OBVIOUS
<1> USE CallGuardAssumption DEF GInv
\* When `at` has passed the last plugin, every plugin has seen the hook.
<1>0. ASSUME via = "call", at \notin Wrapped
      PROVE  \A p \in Plugins : p < at
  BY <1>0 DEF Wrapped, Plugins, CallTypeOK
<1>1. ASSUME NEW h \in {"before", "after", "error"},
             RunHook(h) \/ HookThrows(h)
      PROVE  GInv'
  BY <1>1, HookGInv
<1>2. CASE Invoke
  <2> USE <1>2 DEF Invoke
  <2>1. CallTypeOK'
    <3>1. outcome' \in {"none", "result", "error", "timeout", "aborted"}
      BY DEF CallTypeOK
    <3>2. timer' \in {"none", "armed", "fired", "cleared"}
      BY DEF CallTypeOK
    <3>3. listening' \in BOOLEAN
      <4>1. CASE aborted
        BY <4>1 DEF CallTypeOK
      <4>2. CASE ~aborted
        <5>1. listening' = ("signal" \in options)
          BY <4>2
        <5>2. ("signal" \in options) \in BOOLEAN
          OBVIOUS
        <5> QED
          BY <5>1, <5>2, Zenon
      <4> QED
        BY <4>1, <4>2
    <3>4. UNCHANGED <<via, options, at, hooks, threw, aborted, answer>>
      OBVIOUS
    <3> QED
      BY <3>1, <3>2, <3>3, <3>4 DEF CallTypeOK
  <2>2. Stages'
    BY <1>0 DEF Stages, BeforeStage, WaitingStage, AfterStage, ErrorStage,
                EndStage, Ran
  <2>3. AnsweredAtEnd' /\ Unguarded' /\ NothingLeft'
    BY DEF AnsweredAtEnd, Unguarded, NothingLeft
  <2> QED
    BY <2>1, <2>2, <2>3
<1>3. CASE Resume
  <2> USE <1>3 DEF Resume, HooksAfter, guardVars
  <2>1. CallTypeOK'
    BY DEF CallTypeOK
  <2>2. Stages'
    BY DEF Stages, BeforeStage, WaitingStage, AfterStage, ErrorStage, EndStage,
           Ran, Plugins
  <2>3. AnsweredAtEnd' /\ Unguarded' /\ NothingLeft'
    BY DEF AnsweredAtEnd, Unguarded, NothingLeft
  <2> QED
    BY <2>1, <2>2, <2>3
<1>4. CASE Done
  <2> USE <1>4 DEF Done, guardVars
  <2>1. CallTypeOK'
    BY DEF CallTypeOK
  <2>2. Stages'
    BY <1>0 DEF Stages, BeforeStage, WaitingStage, AfterStage, ErrorStage,
                EndStage, Ran
  <2>3. AnsweredAtEnd' /\ Unguarded' /\ NothingLeft'
    BY DEF AnsweredAtEnd, Unguarded, NothingLeft
  <2> QED
    BY <2>1, <2>2, <2>3
\* guardCall settles once: what comes later changes nothing the wrapper sees.
<1>5. CASE NativeSettles \/ TimerFires \/ Abort
  <2>1. outcome' # outcome => outcome = "none"
    BY <1>5
       DEF NativeSettles, TimerFires, Abort, Finish
  <2>2. UNCHANGED <<via, options, wrapVars>>
    BY <1>5 DEF NativeSettles, TimerFires, Abort
  <2>3. \/ stage # "before"
        \/ UNCHANGED <<nativePromise, outcome, timer, listening>>
    BY <1>5 DEF NativeSettles, TimerFires, Abort, Unguarded
  <2>4. CallTypeOK'
    <3>1. /\ nativePromise' \in {"none", "running", "resolved", "rejected"}
          /\ outcome' \in {"none", "result", "error", "timeout", "aborted"}
          /\ timer' \in {"none", "armed", "fired", "cleared"}
      BY <1>5
         DEF CallTypeOK, NativeSettles, TimerFires, Abort,
             Finish, Cleared
    <3>2. listening' \in BOOLEAN
      BY <1>5
         DEF CallTypeOK, NativeSettles, TimerFires, Abort,
             Finish, Cleaned
    <3>3. aborted' \in BOOLEAN
      BY <1>5
         DEF CallTypeOK, NativeSettles, TimerFires, Abort
    <3> QED
      BY <2>2, <3>1, <3>2, <3>3 DEF CallTypeOK, wrapVars
  <2>5. Stages'
    BY <2>1, <2>2
       DEF Stages, BeforeStage, WaitingStage, AfterStage, ErrorStage, EndStage,
           Ran, wrapVars
  <2>6. AnsweredAtEnd' /\ Unguarded'
    BY <2>2, <2>3 DEF AnsweredAtEnd, Unguarded, wrapVars
  <2>7. NothingLeft'
    BY <1>5
       DEF NothingLeft, NativeSettles, TimerFires,
           Abort, Finish, Cleaned, Cleared
  <2> QED
    BY <2>4, <2>5, <2>6, <2>7
<1>6. CASE UNCHANGED callVars
  BY <1>6
     DEF callVars, wrapVars, guardVars, CallTypeOK, Stages,
         BeforeStage, WaitingStage, AfterStage, ErrorStage, EndStage, Ran,
         AnsweredAtEnd, Unguarded, NothingLeft
<1> QED
  BY <1>1, <1>2, <1>3, <1>4, <1>5, <1>6 DEF CallNext, Wrap

\* What holds of every reachable state of a guarded call.
LEMMA GInvHolds == CallSpec => []GInv
  BY InitGInv, NextGInv, PTL DEF CallSpec

\* withPlugins: whatever throws, times out or is aborted, a result comes only
\* through every plugin's beforeCall and afterCall, and a failure that no hook
\* caused through every beforeCall and onError.
THEOREM HooksBracketHolds == CallSpec => []HooksBracket
<1>1. GInv => HooksBracket
  BY DEF GInv, HooksBracket, Stages, EndStage, AnsweredAtEnd
<1> QED
  BY <1>1, GInvHolds, PTL

\* guardCall: however the race between answer, timer and signal ends, no armed
\* timer and no listener outlive it.
THEOREM NothingLeftHolds == CallSpec => []NothingLeft
<1>1. GInv => NothingLeft
  BY DEF GInv
<1> QED
  BY <1>1, GInvHolds, PTL

-----------------------------------------------------------------------------

\* How many more times JavaScript goes on before the caller has its answer:
\* hooks, the call, the end of the wait, the answer.
HooksLeft == NPlugins + 1 - at
StepsLeft ==
    CASE stage = "before"  -> 2 * NPlugins + 4 + HooksLeft
      [] stage = "waiting" -> 2 * NPlugins + 3
      [] stage = "after"   -> NPlugins + 2 + HooksLeft
      [] stage = "error"   -> 1 + HooksLeft
      [] stage = "end"     -> 0

\* Every step of the wrapper brings the answer nearer, and nothing else takes
\* it farther away.
AnswerComesNearer ==
    [][/\ StepsLeft \in 0..(3 * NPlugins + 4)
       /\ Wrap => StepsLeft' < StepsLeft
       /\ ~Wrap => StepsLeft' = StepsLeft]_callVars

\* Plugins still to come are none to all of them.
LEMMA LeftInRange ==
    ASSUME NEW n \in Nat, NEW i \in 1..(n + 1)
    PROVE  n + 1 - i \in 0..n
  OBVIOUS

\* The distance from the answer is bounded.
LEMMA StepsLeftRange ==
    ASSUME CallTypeOK
    PROVE  StepsLeft \in 0..(3 * NPlugins + 4)
<1> USE CallGuardAssumption
<1>1. HooksLeft \in 0..NPlugins
  BY DEF CallTypeOK, HooksLeft
<1>2. stage \in {"before", "waiting", "after", "error", "end"}
  BY DEF CallTypeOK
<1> HIDE DEF HooksLeft
<1> QED
  BY <1>1, <1>2 DEF StepsLeft

\* withPlugins: however hooks throw and outcomes change under them, JavaScript
\* goes on at most 3 * NPlugins + 4 times between call and answer; no step, of
\* the wrapper or of anybody else, sends it back to a hook that has run.
THEOREM AnswerComesNearerHolds == CallSpec => AnswerComesNearer
<1> USE CallGuardAssumption
<1>1. ASSUME GInv, GInv', [CallNext]_callVars
      PROVE  [/\ StepsLeft \in 0..(3 * NPlugins + 4)
              /\ Wrap => StepsLeft' < StepsLeft
              /\ ~Wrap => StepsLeft' = StepsLeft]_callVars
  <2> SUFFICES ASSUME CallNext
               PROVE  /\ StepsLeft \in 0..(3 * NPlugins + 4)
                      /\ Wrap => StepsLeft' < StepsLeft
                      /\ ~Wrap => StepsLeft' = StepsLeft
    BY <1>1
  <2>0. /\ HooksLeft \in 0..NPlugins /\ HooksLeft' \in 0..NPlugins
        /\ HooksLeft = NPlugins + 1 - at /\ HooksLeft' = NPlugins + 1 - at'
        /\ at \in Nat
    <3>1. at \in 1..(NPlugins + 1) /\ at' \in 1..(NPlugins + 1)
      BY <1>1 DEF GInv, CallTypeOK
    <3>2. HooksLeft = NPlugins + 1 - at /\ HooksLeft' = NPlugins + 1 - at'
      BY DEF HooksLeft
    <3>3. HooksLeft \in 0..NPlugins /\ at \in Nat
      BY <3>1, <3>2
    <3>4. HooksLeft' \in 0..NPlugins
      BY <3>1, <3>2, LeftInRange
    <3> QED
      BY <3>2, <3>3, <3>4
  <2>1. StepsLeft \in 0..(3 * NPlugins + 4)
    BY <1>1, StepsLeftRange DEF GInv
  <2> HIDE DEF HooksLeft
  <2>2. ASSUME Wrap PROVE StepsLeft' < StepsLeft
    <3>1. ASSUME NEW h \in {"before", "after", "error"}, RunHook(h)
          PROVE  StepsLeft' < StepsLeft
      BY <2>0, <3>1 DEF RunHook, StepsLeft
    <3>2. ASSUME NEW h \in {"before", "after", "error"}, HookThrows(h)
          PROVE  StepsLeft' < StepsLeft
      BY <2>0, <3>2 DEF HookThrows, StepsLeft
    <3>3. CASE Invoke
      BY <2>0, <3>3 DEF Invoke, StepsLeft
    <3>4. CASE Resume
      BY <2>0, <3>4 DEF Resume, HooksAfter, StepsLeft
    <3>5. CASE Done
      BY <2>0, <3>5 DEF Done, StepsLeft
    <3> QED
      BY <2>2, <3>1, <3>2, <3>3, <3>4, <3>5 DEF Wrap
  <2>3. ASSUME ~Wrap PROVE StepsLeft' = StepsLeft
    BY <2>3 DEF CallNext, NativeSettles, TimerFires, Abort,
                wrapVars, StepsLeft, HooksLeft
  <2> QED
    BY <2>1, <2>2, <2>3
<1> QED
  BY <1>1, GInvHolds, PTL DEF CallSpec, AnswerComesNearer

\* A caller with a timeout who is still waiting has a timer that runs: the wait
\* ends by the native promise, the signal or the timer, and nothing else is
\* needed.
TimeoutIsArmed ==
    stage = "waiting" /\ outcome = "none" /\ "timeout" \in options =>
      timer = "armed"

\* guardCall: the timer is set before the wait begins and cleared by nothing but
\* the end of the wait, so a caller who asked for a timeout is never left to a
\* native call that does not return.
THEOREM TimeoutIsArmedHolds == CallSpec => []TimeoutIsArmed
<1>1. CallInit => TimeoutIsArmed
  BY DEF CallInit, TimeoutIsArmed
<1>2. TimeoutIsArmed /\ [CallNext]_callVars => TimeoutIsArmed'
  BY DEF TimeoutIsArmed, CallNext, Wrap, RunHook,
         HookThrows, Invoke, ArmsTimer, Resume,
         HooksAfter, Done, NativeSettles, TimerFires,
         Abort, Finish, Cleared, Cleaned, callVars,
         guardVars, wrapVars
<1> QED
  BY <1>1, <1>2, PTL DEF CallSpec

=============================================================================
