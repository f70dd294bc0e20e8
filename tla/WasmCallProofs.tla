-------------------------- MODULE WasmCallProofs --------------------------
(***************************************************************************)
(* Calls into one WASM module, for any width of its words, any room, sizes *)
(* and counts, and any number of arguments: nothing leaks, no allocation   *)
(* is overrun, and no call is told the trap of another.                    *)
(***************************************************************************)
EXTENDS WasmCall, FiniteSetTheorems, TLAPS

Allocation ==
    [ptr : Nat \ {0}, size : Nat \ {0}, count : Counts, elem : Sizes]

\* The blocks the binder will free.
Arguments ==
    {[ptr |-> allocations[i].ptr, size |-> allocations[i].size] :
        i \in DOMAIN allocations}

\* The block that the reader of the result will free.
Returned ==
    IF handle.ptr = 0
      THEN {}
      ELSE {[ptr |-> handle.ptr, size |-> handle.count * handle.elem]}

\* A returned slice is there to be read, is not empty and fits into a word.
Readable ==
    /\ handle \in [ptr : Nat, count : Nat, elem : Nat]
    /\ handle.ptr # 0 =>
           /\ pc = "reading"
           /\ handle.count # 0
           /\ handle.count * handle.elem <= MaxWord

\* An exception is pending only until the host has read it, and what the call
\* is told comes from its own run of the module's code.
Told ==
    /\ exception => pc = "trapped"
    /\ pc = "trapped" => handle.ptr = 0
    /\ FailsByItself

\* Somebody will free every block there is.
Accounted == heap \subseteq Arguments \cup Returned

WInv ==
    /\ TypeOK
    /\ allocations \in Seq(Allocation)
    /\ IsFiniteSet(heap)
    /\ Told
    /\ pc = "idle" => allocations = << >>
    /\ Readable
    /\ Accounted
    /\ NoOverrun

----------------------------------------------------------------------------
(* Sizes and pointers.                                                     *)

\* The guard before the multiplication is exact enough.
LEMMA Fits ==
    ASSUME NEW count \in Nat, NEW elem \in Nat \ {0}, NEW w \in Nat,
           count <= w \div elem
    PROVE  count * elem <= w
<1> DEFINE q == w \div elem
<1>1. q \in Nat /\ q * elem <= w
  OBVIOUS
<1>2. count <= q
  OBVIOUS
<1>3. count * elem <= q * elem
  <2> HIDE DEF q
  <2>1. elem * (q - count) \in Nat
    BY <1>1, <1>2
  <2>2. elem * (q - count) = q * elem - count * elem
    BY <1>1, <1>2
  <2> QED
    BY <1>1, <2>1, <2>2
<1> QED
  BY <1>1, <1>3

\* What fits into a word is not changed by narrowing it.
LEMMA Narrows ==
    ASSUME NEW n \in 0 .. MaxWord
    PROVE  Narrowed(n) = n
  BY WasmCallAssumption DEF Narrowed

LEMMA NarrowedType ==
    ASSUME NEW n \in Nat
    PROVE  Narrowed(n) \in 0 .. MaxWord
  BY WasmCallAssumption DEF Narrowed

\* There is a pointer that no block has, and it is not null.
LEMMA Fresh ==
    ASSUME IsFiniteSet(heap)
    PROVE  FreshPtr \in Nat \ {0}
<1> DEFINE N == Cardinality(heap) + 1
           P == {b.ptr : b \in heap}
<1>1. Cardinality(heap) \in Nat
  BY FS_CardinalityType
<1>2. IsFiniteSet(P) /\ Cardinality(P) <= Cardinality(heap)
  <2> DEFINE f == [b \in heap |-> b.ptr]
  <2>1. f \in Surjection(heap, P)
    BY DEF Surjection
  <2> QED
    BY <2>1, FS_Surjection
<1>3. IsFiniteSet(1 .. N) /\ Cardinality(1 .. N) = N
  BY <1>1, FS_Interval
<1>4. ~(1 .. N \subseteq P)
  <2>1. SUFFICES ASSUME 1 .. N \subseteq P PROVE FALSE
    OBVIOUS
  <2>2. Cardinality(1 .. N) <= Cardinality(P)
    BY <1>2, <2>1, FS_Subset
  <2>3. Cardinality(P) \in Nat
    BY <1>2, FS_CardinalityType
  <2> QED
    BY <1>1, <1>2, <1>3, <2>2, <2>3
<1>5. \E p \in 1 .. N : \A b \in heap : b.ptr # p
  BY <1>4
<1> QED
  BY <1>1, <1>5 DEF FreshPtr

LEMMA ProductType ==
    ASSUME NEW count \in Counts, NEW elem \in Sizes
    PROVE  /\ count \in Nat /\ elem \in Nat \ {0}
           /\ count * elem \in Nat
  BY WasmCallAssumption

LEMMA Appended ==
    ASSUME NEW S, NEW s \in Seq(S), NEW e \in S
    PROVE  /\ Append(s, e) \in Seq(S)
           /\ DOMAIN s = 1 .. Len(s)
           /\ DOMAIN Append(s, e) = 1 .. (Len(s) + 1)
           /\ \A i \in DOMAIN s : Append(s, e)[i] = s[i]
           /\ Append(s, e)[Len(s) + 1] = e
  OBVIOUS

----------------------------------------------------------------------------
(* The steps.                                                              *)

\* Neither the module's heap nor what is recorded of it changes.
LEMMA HeapAtRest ==
    ASSUME WInv, UNCHANGED <<allocations, heap, handle>>, Told',
           handle.ptr # 0 => pc' = "reading", pc' # "idle", TypeOK'
    PROVE  WInv'
<1>1. Readable'
  BY DEF WInv, Readable
<1>2. Accounted' /\ NoOverrun'
  BY DEF WInv, Accounted, Arguments, Returned, NoOverrun
<1> QED
  BY <1>1, <1>2 DEF WInv

LEMMA BindingKeeps ==
    ASSUME WInv, Begin \/ Refuse \/ BindScalar \/ Bound
    PROVE  WInv'
<1> USE DEF Begin, Refuse, BindScalar, Bound
<1>1. TypeOK'
  <2>1. bound' \in 0 .. MaxArgs
    BY WasmCallAssumption DEF WInv, TypeOK
  <2> QED
    BY <2>1 DEF WInv, TypeOK
<1>2. handle.ptr = 0
  BY DEF WInv, Readable
<1>3. Told'
  BY <1>2 DEF WInv, Told, FailsByItself
<1> QED
  BY <1>1, <1>2, <1>3, HeapAtRest DEF WInv

LEMMA NothingBound ==
    ASSUME WInv, NEW count \in Counts, NEW elem \in Sizes,
           \/ TooLarge(count, elem)
           \/ AllocFails(count, elem)
           \/ AllocTraps(count, elem)
    PROVE  WInv'
<1> USE DEF TooLarge, AllocFails, AllocTraps, Asks
<1>1. Narrowed(count * elem) \in 0 .. MaxWord
  BY ProductType, NarrowedType
<1>2. TypeOK'
  BY <1>1 DEF WInv, TypeOK
<1>3. handle.ptr = 0
  BY DEF WInv, Readable
<1>4. Told'
  <2>1. ~exception
    BY DEF WInv, Told
  <2>2. CASE TooLarge(count, elem)
    BY <1>3, <2>1, <2>2 DEF Told, FailsByItself
  <2>3. CASE AllocFails(count, elem)
    BY <1>3, <2>1, <2>3 DEF Told, FailsByItself
  <2>4. CASE AllocTraps(count, elem)
    <3>1. struck' /\ pc' = "trapped"
      BY <2>1, <2>4
    <3> QED
      BY <1>3, <2>4, <3>1 DEF Told, FailsByItself
  <2> QED
    BY <2>2, <2>3, <2>4
<1> QED
  BY <1>2, <1>3, <1>4, HeapAtRest

LEMMA BindBytesKeeps ==
    ASSUME WInv, NEW count \in Counts, NEW elem \in Sizes, NEW fills \in BOOLEAN,
           BindBytes(count, elem, fills)
    PROVE  WInv'
<1> DEFINE size == Narrowed(count * elem)
           ptr == FreshPtr
           block == [ptr |-> ptr, size |-> size]
           a == [ptr |-> ptr, size |-> size, count |-> count, elem |-> elem]
<1>1. size = count * elem /\ size \in 0 .. MaxWord
  BY ProductType, WasmCallAssumption, Fits, Narrows DEF BindBytes, Addressable
<1>2. size \in 1 .. Room /\ size \in Nat \ {0}
  BY <1>1 DEF BindBytes, CanAlloc
<1>3. ptr \in Nat \ {0}
  BY Fresh DEF WInv
<1>4. a \in Allocation /\ block \in Block
  BY <1>2, <1>3 DEF Allocation, Block
<1>5. /\ pc = "binding" /\ bound < MaxArgs
      /\ asked' = size
      /\ heap' = heap \cup {block}
      /\ allocations' = Append(allocations, a)
      /\ bound' = bound + 1
      /\ pc' \in {"binding", "leaving"}
      /\ verdict' \in {verdict, "thrown"}
      /\ UNCHANGED <<typed, handle, exception, struck>>
  BY DEF BindBytes, Recorded
<1>6. /\ a.ptr = ptr /\ a.size = size /\ a.count = count /\ a.elem = elem
      /\ block = [ptr |-> a.ptr, size |-> a.size]
  OBVIOUS
<1> HIDE DEF size, ptr, block, a
<1>7. /\ allocations' \in Seq(Allocation)
      /\ DOMAIN allocations = 1 .. Len(allocations)
      /\ DOMAIN allocations' = 1 .. (Len(allocations) + 1)
      /\ Len(allocations) \in Nat
      /\ \A i \in DOMAIN allocations : allocations'[i] = allocations[i]
      /\ allocations'[Len(allocations) + 1] = a
  BY <1>4, <1>5, Appended DEF WInv
<1>8. \A i \in DOMAIN allocations' :
          i \in DOMAIN allocations \/ i = Len(allocations) + 1
  BY <1>7
<1>9. TypeOK'
  <2>1. ASSUME NEW i \in DOMAIN allocations'
        PROVE  /\ [ptr |-> allocations'[i].ptr, size |-> allocations'[i].size]
                     \in Block
               /\ allocations'[i].count \in Counts
    BY <1>4, <1>6, <1>7, <1>8 DEF WInv, TypeOK
  <2>2. heap' \subseteq Block
    BY <1>4, <1>5 DEF WInv, TypeOK
  <2>3. bound' \in 0 .. MaxArgs
    BY <1>5, WasmCallAssumption DEF WInv, TypeOK
  <2> QED
    BY <1>1, <1>5, <2>1, <2>2, <2>3 DEF WInv, TypeOK
<1>10. IsFiniteSet(heap')
  BY <1>5, FS_AddElement DEF WInv
<1>11. Readable'
  BY <1>5 DEF WInv, Readable
<1>12. Accounted'
  <2>1. Arguments \subseteq Arguments' /\ Returned' = Returned
    BY <1>5, <1>7 DEF Arguments, Returned
  <2>2. block \in Arguments'
    BY <1>6, <1>7 DEF Arguments
  <2> QED
    BY <1>5, <2>1, <2>2 DEF WInv, Accounted
<1>13. NoOverrun'
  <2>1. a.count * a.elem <= a.size
    BY <1>1, <1>6
  <2> QED
    BY <1>7, <1>8, <2>1 DEF WInv, NoOverrun
<1>14. Told'
  BY <1>5 DEF WInv, Told, FailsByItself
<1> QED
  BY <1>5, <1>7, <1>9, <1>10, <1>11, <1>12, <1>13, <1>14 DEF WInv

LEMMA CallingKeeps ==
    ASSUME WInv, Trap \/ HandleTrap \/ ReturnScalar
    PROVE  WInv'
<1> USE DEF Trap, HandleTrap, ReturnScalar, AfterTrap
<1>1. TypeOK'
  BY DEF WInv, TypeOK
<1>2. handle.ptr = 0
  BY DEF WInv, Readable
<1>3. Told'
  <2>1. CASE Trap
    <3>1. struck' /\ pc' = "trapped"
      BY <2>1 DEF WInv, Told
    <3> QED
      BY <1>2, <2>1, <3>1 DEF Told, FailsByItself
  <2>2. CASE HandleTrap \/ ReturnScalar
    BY <1>2, <2>2 DEF WInv, Told, FailsByItself
  <2> QED
    BY <2>1, <2>2
<1> QED
  BY <1>1, <1>2, <1>3, HeapAtRest

LEMMA ReturnSliceKeeps ==
    ASSUME WInv, NEW count \in Counts, NEW elem \in Sizes,
           ReturnSlice(count, elem)
    PROVE  WInv'
<1> DEFINE size == count * elem
           ptr == FreshPtr
           block == [ptr |-> ptr, size |-> size]
<1>1. count \in Nat /\ elem \in Nat /\ size \in Nat /\ size \in 1 .. Room
  BY ProductType DEF ReturnSlice, CanAlloc
<1>2. count # 0
  BY <1>1
<1>3. ptr \in Nat \ {0}
  BY Fresh DEF WInv
<1>4. size <= MaxWord
  BY <1>1, WasmCallAssumption
<1>5. /\ pc = "calling" /\ pc' = "reading"
      /\ heap' = heap \cup {block}
      /\ handle' = [ptr |-> ptr, count |-> count, elem |-> elem]
      /\ UNCHANGED <<typed, bound, allocations, exception, asked, verdict, struck>>
  BY DEF ReturnSlice
<1>6. block \in Block
  BY <1>1, <1>3 DEF Block
<1>7. Returned' = {block}
  BY <1>3, <1>5 DEF Returned
<1>8. Readable'
  BY <1>1, <1>2, <1>3, <1>4, <1>5 DEF Readable
<1> HIDE DEF ptr, block
<1>9. TypeOK'
  BY <1>3, <1>5, <1>6 DEF WInv, TypeOK
<1>10. IsFiniteSet(heap')
  BY <1>5, FS_AddElement DEF WInv
<1>11. Accounted'
  BY <1>5, <1>7 DEF WInv, Accounted, Arguments, Returned, Readable
<1>12. NoOverrun'
  BY <1>5 DEF WInv, NoOverrun
<1>13. Told'
  BY <1>5 DEF WInv, Told, FailsByItself
<1> QED
  BY <1>5, <1>8, <1>9, <1>10, <1>11, <1>12, <1>13 DEF WInv

LEMMA ReadResultKeeps ==
    ASSUME WInv, ReadResult
    PROVE  WInv'
<1>1. /\ pc' = "leaving" /\ handle' = NoHandle
      /\ heap' \subseteq heap
      /\ verdict' \in {"success", "thrown"}
      /\ UNCHANGED <<typed, bound, allocations, exception, asked, struck>>
  BY DEF ReadResult, HeapWithout
<1>2. heap' \subseteq heap \ Returned
  <2>1. CASE handle.ptr = 0
    BY <1>1, <2>1 DEF Returned
  <2>2. CASE handle.ptr # 0
    <3>1. handle.count * handle.elem \in 0 .. MaxWord /\ handle.count # 0
      BY <2>2 DEF WInv, Readable
    <3>2. SliceBytes(handle) = handle.count * handle.elem
      BY <3>1, Narrows DEF SliceBytes
    <3> QED
      BY <2>2, <3>1, <3>2 DEF ReadResult, HeapWithout, Returned
  <2> QED
    BY <2>1, <2>2
<1>3. TypeOK'
  BY <1>1 DEF WInv, TypeOK, ReadResult, NoHandle
<1>4. IsFiniteSet(heap')
  BY <1>1, FS_Subset DEF WInv
<1>5. Readable'
  BY <1>1 DEF Readable, NoHandle
<1>6. Accounted'
  BY <1>1, <1>2 DEF WInv, Accounted, Arguments, Returned
<1>7. NoOverrun'
  BY <1>1 DEF WInv, NoOverrun
<1>8. Told'
  <2>1. pc = "reading"
    BY DEF ReadResult
  <2> QED
    BY <1>1, <2>1 DEF WInv, Told, FailsByItself
<1> QED
  BY <1>1, <1>3, <1>4, <1>5, <1>6, <1>7, <1>8 DEF WInv

\* What is left of the list after its first element.
LEMMA TailOf ==
    ASSUME NEW S, NEW s \in Seq(S), s # << >>
    PROVE  /\ Tail(s) \in Seq(S)
           /\ 1 \in DOMAIN s
           /\ \A i \in DOMAIN Tail(s) : i + 1 \in DOMAIN s /\ Tail(s)[i] = s[i + 1]
           /\ \A i \in DOMAIN s : i = 1 \/ i - 1 \in DOMAIN Tail(s)
  OBVIOUS

LEMMA FreeOneKeeps ==
    ASSUME WInv, FreeOne
    PROVE  WInv'
<1> DEFINE first == [ptr |-> allocations[1].ptr, size |-> allocations[1].size]
<1>1. /\ pc = "leaving" /\ pc' = pc
      /\ allocations # << >> /\ allocations' = Tail(allocations)
      /\ ~exception /\ exception' = FALSE
      /\ heap' = heap \ {first}
      /\ UNCHANGED <<typed, bound, handle, asked, verdict, struck>>
  BY DEF WInv, Told, FreeOne, HeapWithout
<1>2. /\ allocations' \in Seq(Allocation)
      /\ 1 \in DOMAIN allocations
      /\ \A i \in DOMAIN allocations' :
           i + 1 \in DOMAIN allocations /\ allocations'[i] = allocations[i + 1]
      /\ \A i \in DOMAIN allocations : i = 1 \/ i - 1 \in DOMAIN allocations'
  BY <1>1, TailOf DEF WInv
<1>3. TypeOK'
  <2>1. ASSUME NEW i \in DOMAIN allocations'
        PROVE  /\ [ptr |-> allocations'[i].ptr, size |-> allocations'[i].size]
                     \in Block
               /\ allocations'[i].count \in Counts
    BY <1>2 DEF WInv, TypeOK
  <2>2. heap' \subseteq Block
    BY <1>1 DEF WInv, TypeOK
  <2> QED
    BY <1>1, <2>1, <2>2 DEF WInv, TypeOK
<1>4. IsFiniteSet(heap')
  BY <1>1, FS_Subset DEF WInv
<1>5. Readable' /\ Told'
  BY <1>1 DEF WInv, Readable, Told, FailsByItself
<1>6. Accounted'
  <2>1. ASSUME NEW b \in heap'
        PROVE  b \in Arguments'
    <3>1. handle.ptr = 0 /\ b \in Arguments
      BY <1>1 DEF WInv, Readable, Accounted, Returned
    <3>2. PICK i \in DOMAIN allocations :
              b = [ptr |-> allocations[i].ptr, size |-> allocations[i].size]
      BY <3>1 DEF Arguments
    <3>3. i # 1
      BY <1>1, <3>2
    <3>4. i - 1 \in DOMAIN allocations' /\ allocations'[i - 1] = allocations[i]
      <4>1. i \in Nat /\ i - 1 + 1 = i
        BY DEF WInv
      <4> QED
        BY <1>2, <3>3, <4>1
    <3> QED
      BY <3>2, <3>4 DEF Arguments
  <2> QED
    BY <2>1 DEF Accounted
<1>7. NoOverrun'
  BY <1>2 DEF WInv, NoOverrun
<1> QED
  BY <1>1, <1>2, <1>3, <1>4, <1>5, <1>6, <1>7 DEF WInv

LEMMA LeaveKeeps ==
    ASSUME WInv, Leave
    PROVE  WInv'
<1>1. /\ pc = "leaving" /\ pc' = "idle" /\ allocations = << >>
      /\ UNCHANGED <<typed, bound, allocations, heap, handle, exception, asked,
                     verdict, struck>>
  BY DEF Leave
<1>2. handle.ptr = 0 /\ ~exception
  BY <1>1 DEF WInv, Readable, Told
<1>3. TypeOK'
  BY <1>1 DEF WInv, TypeOK
<1>4. Readable' /\ Accounted' /\ NoOverrun' /\ Told'
  BY <1>1, <1>2 DEF WInv, Readable, Accounted, Arguments, Returned, NoOverrun,
                    Told, FailsByItself
<1> QED
  BY <1>1, <1>3, <1>4 DEF WInv

----------------------------------------------------------------------------
(* The theorems.                                                           *)

LEMMA WInvInit == Init => WInv
<1> SUFFICES ASSUME Init PROVE WInv
  OBVIOUS
<1> USE WasmCallAssumption DEF Init, NoHandle
<1>a. bound \in 0 .. MaxArgs
  OBVIOUS
<1>b. asked \in 0 .. MaxWord
  OBVIOUS
<1>c. \A i \in DOMAIN allocations :
         /\ [ptr |-> allocations[i].ptr, size |-> allocations[i].size] \in Block
         /\ allocations[i].count \in Counts
  <2>1. DOMAIN allocations = {}
    BY DEF Init
  <2> QED
    BY <2>1
<1>d. handle.ptr \in Nat
  OBVIOUS
<1>1. TypeOK
  BY <1>a, <1>b, <1>c, <1>d DEF TypeOK
<1>2. IsFiniteSet(heap)
  BY FS_EmptySet
<1>3. Readable /\ Accounted /\ NoOverrun /\ Told
  BY DEF Readable, Accounted, NoOverrun, Told, FailsByItself
<1> QED
  BY <1>1, <1>2, <1>3 DEF WInv

LEMMA WInvNext == WInv /\ [Next]_vars => WInv'
<1> SUFFICES ASSUME WInv, [Next]_vars PROVE WInv'
  OBVIOUS
<1>1. CASE UNCHANGED vars
  BY <1>1 DEF vars, WInv, TypeOK, Readable, Accounted, Arguments, Returned,
              NoOverrun, Told, FailsByItself
<1>2. CASE Next
  BY <1>2, BindingKeeps, NothingBound, BindBytesKeeps, CallingKeeps,
     ReturnSliceKeeps, ReadResultKeeps, FreeOneKeeps, LeaveKeeps DEF Next
<1> QED
  BY <1>1, <1>2

LEMMA WInvAlways == Spec => []WInv
  BY WInvInit, WInvNext, PTL DEF Spec

\* Every variable keeps its domain.
THEOREM TypeCorrect == Spec => []TypeOK
<1>1. WInv => TypeOK
  BY DEF WInv
<1> QED
  BY <1>1, WInvAlways, PTL

\* Every cn_alloc meets its cn_free, with the same size, whichever way the call
\* ended (WasmRuntime.cpp, ~ArgumentBinder and the readers of results).
THEOREM NothingLeaksHolds == Spec => []NothingLeaks
<1>1. WInv => NothingLeaks
  <2> SUFFICES ASSUME WInv, pc = "idle" PROVE heap = {}
    BY DEF NothingLeaks
  <2>1. Arguments = {} /\ Returned = {}
    BY DEF WInv, Arguments, Returned, Readable
  <2> QED
    BY <2>1 DEF WInv, Accounted
<1> QED
  BY <1>1, WInvAlways, PTL

\* The binder never writes more than it allocated, for words of any width.
THEOREM NoOverrunHolds == Spec => []NoOverrun
<1>1. WInv => NoOverrun
  BY DEF WInv
<1> QED
  BY <1>1, WInvAlways, PTL

\* No call is told the trap of another: whatever failed before, the exception was
\* cleared before the module is entered again (WasmRuntime.cpp:302, 318, 814).
THEOREM FailsByItselfHolds == Spec => []FailsByItself
<1>1. WInv => FailsByItself
  BY DEF WInv, Told
<1> QED
  BY <1>1, WInvAlways, PTL

=============================================================================
