--------------------------- MODULE LinkedLibrary ---------------------------
(***************************************************************************)
(* Calls into a module linked into the app: SharedLibraryModule (C++) and  *)
(* the entry points of the library, which hand their answer back as a      *)
(* pointer into a string kept until the next answer.  A Rust library keeps *)
(* it in LAST_RESULT, under a mutex (crossnative-rs' native.rs); a Zig, C, *)
(* C++ or Go one in last_result of the dispatch shim the compiler generates*)
(* (native-lib.ts), which nothing protects.  Pool workers call functions   *)
(* and the JS thread asks for the manifest; nothing above serialises them, *)
(* and the allocator may give the memory of an answer that was freed to    *)
(* the next one.                                                           *)
(***************************************************************************)
EXTENDS Naturals

CONSTANTS
    Threads,
    Addresses, \* where the allocator can put an answer
    MaxCalls,  \* bound: calls per thread
    None,      \* a null pointer, and what freed memory holds
    Garbage,   \* what a read of freed memory yields
    Empty      \* the empty answer, a constant of the library

ASSUME LinkedLibraryAssumption ==
    /\ MaxCalls \in Nat
    /\ None # Garbage /\ None # Empty /\ Garbage # Empty
    /\ {None, Garbage, Empty} \cap (Threads \X (1..MaxCalls)) = {}
    /\ {None, Empty} \cap Addresses = {}

VARIABLES
    lib,        \* who answers: rust, or the generated shim
    pc,         \* pc[t]: where the call is; freed: the shim has freed the last
                \* answer; built: the new one is there, but not kept yet
    calls,      \* calls[t]: calls begun; an answer is named <<t, calls[t]>>
    mem,        \* mem[a]: the answer at address a, None if that is free
    last,       \* what LAST_RESULT or last_result points to
    ptr,        \* ptr[t]: the pointer the call hands back
    got,        \* got[t]: what the host copied last
    freedTwice, \* whether memory was freed that already was
    crossed,    \* history: a call freed the last answer while another was
                \* replacing it, or had not copied its own
    roomless    \* history: the shim found no memory for an answer

vars == <<lib, pc, calls, mem, last, ptr, got, freedTwice, crossed, roomless>>

Answers == Threads \X (1..MaxCalls)
Own(t) == <<t, calls[t]>>

TypeOK ==
    /\ lib \in {"rust", "shim"}
    /\ pc \in [Threads -> {"idle", "inside", "freed", "built", "returned"}]
    /\ calls \in [Threads -> 0..MaxCalls]
    /\ mem \in [Addresses -> Answers \cup {None}]
    /\ last \in Addresses \cup {None}
    /\ ptr \in [Threads -> Addresses \cup {None, Empty}]
    /\ got \in [Threads -> Answers \cup {None, Garbage, Empty}]
    /\ freedTwice \in BOOLEAN
    /\ crossed \in BOOLEAN
    /\ roomless \in BOOLEAN

Init ==
    /\ lib \in {"rust", "shim"}
    /\ pc = [t \in Threads |-> "idle"]
    /\ calls = [t \in Threads |-> 0]
    /\ mem = [a \in Addresses |-> None]
    /\ last = None
    /\ ptr = [t \in Threads |-> None]
    /\ got = [t \in Threads |-> None]
    /\ freedTwice = FALSE
    /\ crossed = FALSE
    /\ roomless = FALSE

\* SharedLibraryModule::call or getManifest enters the library.
Call(t) ==
    /\ pc[t] = "idle"
    /\ calls[t] < MaxCalls
    /\ pc' = [pc EXCEPT ![t] = "inside"]
    /\ calls' = [calls EXCEPT ![t] = @ + 1]
    /\ UNCHANGED <<lib, mem, last, ptr, got, freedTwice, crossed, roomless>>

\* Whose answer is lost if the one kept is freed now.
Depends(u) ==
    pc[u] \in IF lib = "rust" THEN {"returned"} ELSE {"freed", "built", "returned"}

\* free(p): of a null pointer nothing, of freed memory the second time.
Free(t, p) ==
    /\ mem' = [a \in Addresses |-> IF a = p THEN None ELSE mem[a]]
    /\ freedTwice' = (p # None /\ mem[p] = None)
    /\ crossed' = (crossed \/ \E u \in Threads \ {t} : Depends(u))

\* The shim's respond begins by freeing what last_result points to.
FreeLast(t) ==
    /\ lib = "shim"
    /\ pc[t] = "inside"
    /\ pc' = [pc EXCEPT ![t] = "freed"]
    /\ Free(t, last)
    /\ UNCHANGED <<lib, calls, last, ptr, got, roomless>>

\* The answer is built, wherever there is room, and the pointer taken.
Build(t) ==
    /\ pc[t] = IF lib = "rust" THEN "inside" ELSE "freed"
    /\ pc' = [pc EXCEPT ![t] = "built"]
    /\ \E a \in Addresses :
         /\ mem[a] = None
         /\ mem' = [mem EXCEPT ![a] = Own(t)]
         /\ ptr' = [ptr EXCEPT ![t] = a]
    /\ UNCHANGED <<lib, calls, last, got, freedTwice, crossed, roomless>>

\* The shim finds no room, and leaves last_result as it is.
NoRoom(t) ==
    /\ pc[t] = "freed"
    /\ pc' = [pc EXCEPT ![t] = "returned"]
    /\ ptr' = [ptr EXCEPT ![t] = Empty]
    /\ roomless' = TRUE
    /\ UNCHANGED <<lib, calls, mem, last, got, freedTwice, crossed>>

\* The answer that assigning to LAST_RESULT drops.
Replaced_After(t) == ptr[t]
Replaced(t) == last

\* The answer is kept: by native.rs' respond holding the mutex, which drops the
\* one before; by the shim's with a plain assignment.
Keep_Sometimes(t) ==
    /\ pc[t] = "built"
    /\ pc' = [pc EXCEPT ![t] = "returned"]
    /\ last' \in {last, ptr[t]}
    /\ IF lib = "rust" THEN Free(t, Replaced(t))
                       ELSE UNCHANGED <<mem, freedTwice, crossed>>
    /\ UNCHANGED <<lib, calls, ptr, got, roomless>>
Keep(t) ==
    /\ pc[t] = "built"
    /\ pc' = [pc EXCEPT ![t] = "returned"]
    /\ last' = ptr[t]
    /\ IF lib = "rust" THEN Free(t, Replaced(t))
                       ELSE UNCHANGED <<mem, freedTwice, crossed>>
    /\ UNCHANGED <<lib, calls, ptr, got, roomless>>

\* What is at the other end of a pointer: the answer of whoever has that memory
\* by now.
Read(p) ==
    CASE p = Empty -> Empty
      [] p # Empty -> IF mem[p] = None THEN Garbage ELSE mem[p]

\* std::string(result): the host copies what the pointer points to.
Copy(t) ==
    /\ pc[t] = "returned"
    /\ pc' = [pc EXCEPT ![t] = "idle"]
    /\ got' = [got EXCEPT ![t] = Read(ptr[t])]
    /\ UNCHANGED <<lib, calls, mem, last, ptr, freedTwice, crossed, roomless>>

Step(t) ==
    \/ Call(t) \/ FreeLast(t) \/ Build(t) \/ NoRoom(t) \/ Keep(t) \/ Copy(t)

\* After memory has been freed twice the heap is corrupt and nothing is said.
Next == ~freedTwice /\ \E t \in Threads : Step(t)

Spec == Init /\ [][Next]_vars

-----------------------------------------------------------------------------
(* Properties *)

\* What a caller has when its call is over.
Answered(t) == got[t] = Own(t) \/ (lib = "shim" /\ roomless /\ got[t] = Empty)

\* A caller gets the answer to its own call - not another's that was put where
\* its own had been, not freed memory - as long as no call frees the last answer
\* while another has not copied its own.  Calls may overlap otherwise.
AnsweredInTurn ==
    ~crossed =>
      \A t \in Threads : pc[t] = "idle" /\ calls[t] > 0 => Answered(t)

\* No memory is freed twice: never by crossnative-rs, and by the generated shim
\* only once calls have crossed or an allocation has failed.  (Its respond
\* frees last_result without clearing it, native-lib.ts:178-180.)
FreedOnce == lib = "rust" \/ ~(crossed \/ roomless) => ~freedTwice

\* At most one answer is kept per Rust library, however many calls overlap.
KeepsOne ==
    lib = "rust" =>
      \A a \in Addresses :
        mem[a] # None =>
          a = last \/ \E t \in Threads : pc[t] = "built" /\ ptr[t] = a

\* "so the host can read the pointer we hand back without it dangling"
\* (native.rs:35-36).
NeverDangles ==
    lib = "rust" =>
      \A t \in Threads : pc[t] = "idle" /\ calls[t] > 0 => got[t] = Own(t)

=============================================================================
