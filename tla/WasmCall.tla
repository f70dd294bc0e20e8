------------------------------ MODULE WasmCall ------------------------------
(***************************************************************************)
(* One call after another into a WASM module: WasmRuntime::call from the   *)
(* moment it holds callMutex, with ArgumentBinder and the readers of       *)
(* results (WasmRuntime.cpp), and the allocator the module exports         *)
(* (cn_alloc, cn_free and pack_slice of crossnative-rs).                   *)
(*                                                                         *)
(* callMutex makes the calls of one module a sequence (ModuleRegistry), so *)
(* there is one call at a time.  Contents are left out: what counts is     *)
(* which blocks of the module's heap are allocated, how large they are, and*)
(* whether a trap is pending in the instance.  WAMR reports every call that*)
(* ends with an exception pending as failed, whoever raised it             *)
(* (wasm_call_function in wasm_runtime.c): what one call leaves behind, the*)
(* next one is told.                                                       *)
(***************************************************************************)
EXTENDS Naturals, Sequences, FiniteSets, FiniteSetsExt

CONSTANTS
    MaxWord,    \* the largest uint32_t (4294967295 in the code)
    Room,       \* bytes the module's allocator can hand out
    Sizes,      \* element sizes
    Counts,     \* element counts callers pass
    MaxArgs     \* bound: arguments of one call

ASSUME WasmCallAssumption ==
    /\ MaxWord \in Nat /\ Room \in Nat /\ MaxArgs \in Nat
    /\ Room <= MaxWord
    /\ Sizes \subseteq Nat \ {0}
    /\ Counts \subseteq Nat

VARIABLES
    pc,          \* idle, binding, calling, trapped, reading or leaving
    typed,       \* whether the function has a declared signature
    bound,       \* how many arguments have been bound
    allocations, \* ArgumentBinder::allocations_
    heap,        \* the blocks the module's allocator has handed out
    handle,      \* the block behind the packed value the function returned
    exception,   \* whether the instance has a pending exception
    asked,       \* the size last asked of cn_alloc
    verdict,     \* what the call will answer
    struck       \* history: in this call the module's code trapped, or its
                 \* allocator answered null

vars == <<pc, typed, bound, allocations, heap, handle, exception, asked,
          verdict, struck>>

Block == [ptr : Nat \ {0}, size : Nat \ {0}]
NoHandle == [ptr |-> 0, count |-> 0, elem |-> 0]

TypeOK ==
    /\ pc \in {"idle", "binding", "calling", "trapped", "reading", "leaving"}
    /\ typed \in BOOLEAN
    /\ bound \in 0..MaxArgs
    /\ \A i \in DOMAIN allocations :
         /\ [ptr |-> allocations[i].ptr, size |-> allocations[i].size] \in Block
         /\ allocations[i].count \in Counts
    /\ heap \subseteq Block
    /\ handle.ptr \in Nat
    /\ exception \in BOOLEAN
    /\ asked \in 0..MaxWord
    /\ verdict \in {"none", "success", "refused", "noroom", "trap", "thrown"}
    /\ struck \in BOOLEAN

Init ==
    /\ pc = "idle"
    /\ typed = FALSE
    /\ bound = 0
    /\ allocations = << >>
    /\ heap = {}
    /\ handle = NoHandle
    /\ exception = FALSE
    /\ asked = 0
    /\ verdict = "none"
    /\ struck = FALSE

-----------------------------------------------------------------------------
(* The module's allocator *)

Used(blocks) == MapThenSumSet(LAMBDA b : b.size, blocks)

\* A pointer no block overlaps; which one does not matter.
FreshPtr == CHOOSE p \in 1..(Cardinality(heap) + 1) : \A b \in heap : b.ptr # p

\* cn_alloc returns null for no bytes, or when there is no room.
CanAlloc(size) == size \in 1..Room /\ Used(heap) + size <= Room

\* cn_free does nothing unless pointer and size are those of a block.
HeapWithout(ptr, size) == heap \ {[ptr |-> ptr, size |-> size]}

-----------------------------------------------------------------------------
(* ArgumentBinder *)

Begin ==
    /\ pc = "idle"
    /\ pc' = "binding"
    /\ typed' \in BOOLEAN
    /\ bound' = 0
    /\ verdict' = "none"
    /\ struck' = FALSE
    /\ UNCHANGED <<allocations, heap, handle, exception, asked>>

\* Wrong argument count, a value of the wrong shape, a missing slot, an empty
\* buffer argument, no cn_alloc to call, an array whose conversion throws:
\* nothing is allocated for it.
Refuse ==
    /\ pc = "binding"
    /\ pc' = "leaving"
    /\ verdict' = "refused"
    /\ UNCHANGED <<typed, bound, allocations, heap, handle, exception, asked,
                   struck>>

BindScalar ==
    /\ pc = "binding"
    /\ bound < MaxArgs
    /\ bound' = bound + 1
    /\ UNCHANGED <<pc, typed, allocations, heap, handle, exception, asked, verdict,
                   struck>>

\* The guard before the size is narrowed to 32 bits.
Addressable_Always(count, elem) == TRUE
Addressable(count, elem) == count <= MaxWord \div elem

Narrowed(n) == n % (MaxWord + 1)

TooLarge(count, elem) ==
    /\ pc = "binding"
    /\ bound < MaxArgs
    /\ ~Addressable(count, elem)
    /\ pc' = "leaving"
    /\ verdict' = "refused"
    /\ UNCHANGED <<typed, bound, allocations, heap, handle, exception, asked,
                   struck>>

\* wasmAlloc asks for so many bytes.  A raw buffer is never empty:
\* parseBufferSpec.
Asks(count, elem) ==
    /\ pc = "binding"
    /\ bound < MaxArgs
    /\ typed \/ count # 0
    /\ Addressable(count, elem)
    /\ asked' = Narrowed(count * elem)

\* It answers null ...
AllocFails(count, elem) ==
    /\ Asks(count, elem)
    /\ ~CanAlloc(asked')
    /\ ~exception
    /\ pc' = "leaving"
    /\ verdict' = "noroom"
    /\ struck' = TRUE
    /\ UNCHANGED <<typed, bound, allocations, heap, handle, exception>>

\* ... or its call fails: it traps, or an exception was pending already.
AllocTraps(count, elem) ==
    /\ Asks(count, elem)
    /\ exception' = TRUE
    /\ struck' = (struck \/ ~exception)
    /\ pc' = "trapped"
    /\ verdict' = "noroom"
    /\ UNCHANGED <<typed, bound, allocations, heap, handle>>

\* bindBuffer and bindBytes: allocate, record the allocation, then fill it.  In
\* a raw buffer an element that is no number makes the filling throw; a typed
\* array is converted before anything is allocated.
Recorded_AfterFill(list, block, fills) == IF fills THEN Append(list, block) ELSE list
Recorded(list, block, fills) == Append(list, block)

BindBytes(count, elem, fills) ==
    LET size == Narrowed(count * elem)
        ptr == FreshPtr
    IN /\ pc = "binding"
       /\ bound < MaxArgs
       /\ typed => fills
       /\ Addressable(count, elem)
       /\ CanAlloc(size)
       /\ ~exception
       /\ asked' = size
       /\ heap' = heap \cup {[ptr |-> ptr, size |-> size]}
       /\ allocations' =
            Recorded(allocations,
                     [ptr |-> ptr, size |-> size, count |-> count, elem |-> elem], fills)
       /\ bound' = bound + 1
       /\ IF fills THEN UNCHANGED <<pc, verdict>>
                   ELSE pc' = "leaving" /\ verdict' = "thrown"
       /\ UNCHANGED <<typed, handle, exception, struck>>

Bound ==
    /\ pc = "binding"
    /\ pc' = "calling"
    /\ UNCHANGED <<typed, bound, allocations, heap, handle, exception, asked,
                   verdict, struck>>

-----------------------------------------------------------------------------
(* WasmRuntime::call *)

\* The call fails: the module's code traps, or an exception was pending.
Trap ==
    /\ pc = "calling"
    /\ exception' = TRUE
    /\ struck' = (struck \/ ~exception)
    /\ pc' = "trapped"
    /\ verdict' = "trap"
    /\ UNCHANGED <<typed, bound, allocations, heap, handle, asked>>

\* The host reads the exception for its answer, and clears it.
AfterTrap_Kept == exception
AfterTrap == FALSE

HandleTrap ==
    /\ pc = "trapped"
    /\ exception' = AfterTrap
    /\ pc' = "leaving"
    /\ UNCHANGED <<typed, bound, allocations, heap, handle, asked, verdict,
                   struck>>

\* The function returns nothing to free: void, a scalar, an empty slice, or
\* whatever an untyped function returns.
ReturnScalar ==
    /\ pc = "calling"
    /\ ~exception
    /\ pc' = "reading"
    /\ UNCHANGED <<typed, bound, allocations, heap, handle, exception, asked,
                   verdict, struck>>

\* pack_slice: a block of its own for a typed array or text, packed with the
\* element count - or null when there is no room.
ReturnSlice(count, elem) ==
    LET size == count * elem IN
    /\ pc = "calling"
    /\ typed
    /\ ~exception
    /\ CanAlloc(size)
    /\ heap' = heap \cup {[ptr |-> FreshPtr, size |-> size]}
    /\ handle' = [ptr |-> FreshPtr, count |-> count, elem |-> elem]
    /\ pc' = "reading"
    /\ UNCHANGED <<typed, bound, allocations, exception, asked, verdict,
                   struck>>

\* What the host passes to cn_free for a returned slice.
SliceBytes(h) == Narrowed(h.count * h.elem)

\* readOutputs, readTypedReturn and the response; dumping it throws when the
\* text the module returned is not UTF-8.
ReadResult ==
    /\ pc = "reading"
    /\ IF handle.ptr # 0 /\ handle.count # 0
         THEN heap' = HeapWithout(handle.ptr, SliceBytes(handle))
         ELSE UNCHANGED heap
    /\ handle' = NoHandle
    /\ pc' = "leaving"
    /\ \/ verdict' = "success"
       \/ typed /\ verdict' = "thrown"
    /\ UNCHANGED <<typed, bound, allocations, exception, asked, struck>>

\* ~ArgumentBinder frees the allocations one after the other, best effort: with
\* an exception pending cn_free may not have run, but the exception is cleared.
FreeOne ==
    /\ pc = "leaving"
    /\ allocations # << >>
    /\ \/ heap' = HeapWithout(allocations[1].ptr, allocations[1].size)
       \/ exception /\ UNCHANGED heap
    /\ exception' = FALSE
    /\ allocations' = Tail(allocations)
    /\ UNCHANGED <<pc, typed, bound, handle, asked, verdict, struck>>

Leave ==
    /\ pc = "leaving"
    /\ allocations = << >>
    /\ pc' = "idle"
    /\ UNCHANGED <<typed, bound, allocations, heap, handle, exception, asked,
                   verdict, struck>>

Next ==
    \/ Begin \/ Refuse \/ BindScalar \/ Bound
    \/ \E count \in Counts, elem \in Sizes :
         \/ TooLarge(count, elem)
         \/ AllocFails(count, elem) \/ AllocTraps(count, elem)
         \/ \E fills \in BOOLEAN : BindBytes(count, elem, fills)
         \/ ReturnSlice(count, elem)
    \/ Trap \/ HandleTrap \/ ReturnScalar \/ ReadResult \/ FreeOne \/ Leave

Spec == Init /\ [][Next]_vars

-----------------------------------------------------------------------------
(* Properties *)

\* Whatever a call did - succeeded, was refused halfway through its arguments,
\* trapped, threw while filling a buffer or building its answer - it leaves no
\* block behind in the module's heap: every cn_alloc meets its cn_free, with
\* the same size.
NothingLeaks == pc = "idle" => heap = {}

\* The binder never writes more elements than it allocated room for, although
\* sizes are narrowed to 32 bits ("a huge payload can never truncate into a
\* small allocation").
NoOverrun ==
    \A i \in DOMAIN allocations : allocations[i].count * allocations[i].elem
                                    <= allocations[i].size

\* A call is told of a trap, or of an allocation that failed, only when its own
\* run of the module's code trapped or ran out of memory: it is never told the
\* trap of the call before it, which would make a working function fail.
FailsByItself == verdict \in {"trap", "noroom"} => struck

=============================================================================
