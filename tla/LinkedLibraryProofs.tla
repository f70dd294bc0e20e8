------------------------ MODULE LinkedLibraryProofs ------------------------
(***************************************************************************)
(* Calls into a linked library, for any number of threads, calls and       *)
(* addresses: a caller gets its own answer as long as no call frees the    *)
(* last one under it, a Rust library keeps one answer at most, and no      *)
(* memory is freed twice unless calls into a generated shim cross or run   *)
(* out of memory.  The first one is sharp: LinkedLibrary's NeverDangles    *)
(* fails as soon as two calls cross.                                       *)
(***************************************************************************)
EXTENDS LinkedLibrary, TLAPS

\* A thread inside a call has begun one: its answer has a name.
Begun == \A t \in Threads : pc[t] # "idle" => calls[t] \in 1..MaxCalls

\* Only the shim frees before it has the new answer.
ShimFrees == \A t \in Threads : pc[t] = "freed" => lib = "shim"

\* What is handed back is a pointer that can be followed.
Pointed ==
    \A t \in Threads :
      /\ pc[t] = "built" => ptr[t] \in Addresses
      /\ pc[t] = "returned" => ptr[t] \in Addresses \cup {Empty}

\* An answer that has been built is where its pointer says, and crossnative-rs
\* never builds one where the last one still is.
Placed ==
    \A t \in Threads :
      pc[t] = "built" =>
        /\ lib = "rust" \/ ~crossed => mem[ptr[t]] = Own(t)
        /\ lib = "rust" => ptr[t] # last

\* Between two answers, the one that is kept is there.
Intact ==
    /\ lib = "rust" \/ ~(crossed \/ roomless)
    /\ lib = "rust" \/ \A t \in Threads : pc[t] \notin {"freed", "built"}
    => last = None \/ mem[last] # None

\* Unless calls have crossed, one of them at a time depends on the last answer.
Turns ==
    ~crossed => \A t, u \in Threads : Depends(t) /\ Depends(u) => t = u

\* Unless calls have crossed, an answer is kept until it has been copied.
StillThere ==
    ~crossed =>
      \A t \in Threads :
        pc[t] = "returned" =>
          \/ ptr[t] \in Addresses /\ mem[ptr[t]] = Own(t)
          \/ lib = "shim" /\ roomless /\ ptr[t] = Empty

LInv ==
    /\ TypeOK /\ Begun /\ ShimFrees /\ Pointed /\ Placed /\ KeepsOne
    /\ Intact /\ Turns /\ StillThere /\ FreedOnce /\ AnsweredInTurn

LEMMA InitLInv == Init => LInv
<1> SUFFICES ASSUME Init PROVE LInv
  OBVIOUS
<1>1. TypeOK
  <2>1. freedTwice \in BOOLEAN /\ crossed \in BOOLEAN /\ roomless \in BOOLEAN
    BY Zenon DEF Init
  <2>2. pc \in [Threads -> {"idle", "inside", "freed", "built", "returned"}]
    BY DEF Init
  <2>3. calls \in [Threads -> 0..MaxCalls]
    BY LinkedLibraryAssumption DEF Init
  <2> QED
    BY <2>1, <2>2, <2>3 DEF Init, TypeOK
<1>2. Begun /\ ShimFrees /\ Pointed /\ Placed /\ KeepsOne
  BY DEF Init, Begun, ShimFrees, Pointed, Placed, KeepsOne
<1>3. Intact /\ Turns /\ StillThere /\ FreedOnce /\ AnsweredInTurn
  BY DEF Init, Intact, Turns, Depends, StillThere, FreedOnce, AnsweredInTurn
<1> QED
  BY <1>1, <1>2, <1>3 DEF LInv

LEMMA OwnIsAnswer ==
    ASSUME TypeOK, Begun, NEW t \in Threads, pc[t] # "idle"
    PROVE  Own(t) \in Answers /\ Own(t) \notin {None, Garbage, Empty}
  BY LinkedLibraryAssumption DEF Begun, Own, Answers

LEMMA CallLInv ==
    ASSUME LInv, NEW t \in Threads, Call(t) PROVE LInv'
<1> USE DEF LInv, Call
<1>1. TypeOK'
  BY LinkedLibraryAssumption DEF TypeOK, Answers
<1>2. Begun'
  BY LinkedLibraryAssumption DEF Begun, TypeOK
<1>3. ShimFrees' /\ Pointed'
  BY DEF ShimFrees, Pointed, TypeOK
<1>4. Placed'
  BY DEF Placed, Own, TypeOK
<1>5. KeepsOne' /\ FreedOnce' /\ Intact'
  BY DEF KeepsOne, FreedOnce, Intact, TypeOK
<1>6. Turns'
  BY DEF Turns, Depends, TypeOK
<1>7. StillThere' /\ AnsweredInTurn'
  BY DEF StillThere, AnsweredInTurn, Answered, Own, TypeOK
<1> QED
  BY <1>1, <1>2, <1>3, <1>4, <1>5, <1>6, <1>7

LEMMA FreeLastLInv ==
    ASSUME LInv, NEW t \in Threads, FreeLast(t) PROVE LInv'
<1> USE DEF LInv, FreeLast
<1>1. /\ mem' = [a \in Addresses |-> IF a = last THEN None ELSE mem[a]]
      /\ freedTwice' = (last # None /\ mem[last] = None)
      /\ crossed' = (crossed \/ \E u \in Threads \ {t} : Depends(u))
      /\ lib = "shim" /\ pc[t] = "inside" /\ pc' = [pc EXCEPT ![t] = "freed"]
      /\ UNCHANGED <<lib, calls, last, ptr, got, roomless>>
  BY DEF Free
<1>2. TypeOK'
  <2>1. freedTwice' \in BOOLEAN /\ crossed' \in BOOLEAN
    BY <1>1, Zenon DEF TypeOK
  <2> QED
    BY <1>1, <2>1 DEF TypeOK
<1>3. Begun'
  BY DEF Begun, TypeOK
<1>4. ShimFrees' /\ Pointed'
  BY DEF ShimFrees, Pointed, TypeOK
<1>5. ~crossed' => ~crossed /\ \A u \in Threads : ~Depends(u)
  BY <1>1 DEF Depends
<1>6. ~crossed' => \A u \in Threads : pc[u] \notin {"freed", "built", "returned"}
  BY <1>1, <1>5 DEF Depends
<1>7. Placed' /\ StillThere'
  BY <1>1, <1>6 DEF Placed, StillThere, TypeOK
<1>8. KeepsOne' /\ Intact'
  BY <1>1 DEF KeepsOne, Intact, TypeOK
<1>9. FreedOnce'
  BY <1>1, <1>5, <1>6 DEF FreedOnce, Intact
<1>10. Turns'
  BY <1>1, <1>6 DEF Turns, Depends, TypeOK
<1>11. AnsweredInTurn'
  BY <1>1, <1>5 DEF AnsweredInTurn, Answered, Own, TypeOK
<1> QED
  BY <1>2, <1>3, <1>4, <1>7, <1>8, <1>9, <1>10, <1>11

LEMMA BuildLInv ==
    ASSUME LInv, NEW t \in Threads, Build(t) PROVE LInv'
<1> USE DEF LInv
<1>1. PICK a \in Addresses :
        /\ mem[a] = None
        /\ mem' = [mem EXCEPT ![a] = Own(t)]
        /\ ptr' = [ptr EXCEPT ![t] = a]
  BY DEF Build
<1>2. /\ pc[t] = IF lib = "rust" THEN "inside" ELSE "freed"
      /\ pc' = [pc EXCEPT ![t] = "built"]
      /\ UNCHANGED <<lib, calls, last, got, freedTwice, crossed, roomless>>
  BY DEF Build
<1>3. Own(t) \in Answers /\ Own(t) # None /\ Own(t)' = Own(t)
  BY <1>2, OwnIsAnswer DEF Own
<1>4. TypeOK'
  BY <1>1, <1>2, <1>3 DEF TypeOK
<1>5. Begun' /\ ShimFrees'
  BY <1>2 DEF Begun, ShimFrees, TypeOK
<1>6. Pointed'
  BY <1>1, <1>2 DEF Pointed, TypeOK
<1>7. ptr'[t] = a /\ mem'[a] = Own(t) /\ pc'[t] = "built"
  BY <1>1, <1>2 DEF TypeOK
<1>8. \A u \in Threads : u # t =>
        /\ pc'[u] = pc[u] /\ ptr'[u] = ptr[u] /\ Own(u)' = Own(u)
        /\ Depends(u)' = Depends(u)
  BY <1>1, <1>2 DEF TypeOK, Own, Depends
<1>9. \A b \in Addresses : mem[b] # None => mem'[b] = mem[b]
  BY <1>1 DEF TypeOK
<1>10. Placed'
  <2> SUFFICES ASSUME NEW u \in Threads, pc'[u] = "built"
               PROVE  /\ lib' = "rust" \/ ~crossed' => mem'[ptr'[u]] = Own(u)'
                      /\ lib' = "rust" => ptr'[u] # last'
    BY DEF Placed
  <2>1. CASE u = t
    <3>1. lib = "rust" => a # last
      BY <1>1, LinkedLibraryAssumption DEF Intact
    <3> QED
      BY <1>2, <1>3, <1>7, <2>1, <3>1
  <2>2. CASE u # t
    <3>1. pc[u] = "built" /\ ptr'[u] = ptr[u] /\ ptr[u] \in Addresses
      BY <1>8, <2>2 DEF Pointed
    <3>2. Own(u) # None /\ Own(u)' = Own(u)
      BY <1>8, <2>2, <3>1, OwnIsAnswer
    <3>3. lib = "rust" \/ ~crossed => mem'[ptr[u]] = Own(u)
      BY <1>9, <3>1, <3>2 DEF Placed
    <3> QED
      BY <1>2, <3>1, <3>2, <3>3 DEF Placed
  <2> QED
    BY <2>1, <2>2
<1>11. KeepsOne'
  <2> SUFFICES ASSUME lib' = "rust", NEW b \in Addresses, mem'[b] # None
               PROVE  b = last' \/ \E u \in Threads : pc'[u] = "built" /\ ptr'[u] = b
    BY DEF KeepsOne
  <2>1. CASE b = a
    BY <1>7, <2>1
  <2>2. CASE b # a
    <3>1. mem[b] # None
      BY <1>1, <2>2 DEF TypeOK
    <3>2. b = last \/ \E u \in Threads : pc[u] = "built" /\ ptr[u] = b
      BY <1>2, <3>1 DEF KeepsOne
    <3> QED
      BY <1>2, <1>8, <3>2
  <2> QED
    BY <2>1, <2>2
<1>12. FreedOnce'
  BY <1>2 DEF FreedOnce
<1>13. Intact'
  BY <1>2, <1>7, <1>9 DEF Intact, TypeOK
<1>14. Turns'
  <2>1. Depends(t)' => Depends(t)
    BY <1>2, <1>7 DEF Depends, TypeOK
  <2> QED
    BY <1>2, <1>8, <2>1 DEF Turns
<1>15. StillThere'
  <2> SUFFICES ASSUME ~crossed, NEW u \in Threads, pc'[u] = "returned"
               PROVE  \/ ptr'[u] \in Addresses /\ mem'[ptr'[u]] = Own(u)'
                      \/ lib' = "shim" /\ roomless' /\ ptr'[u] = Empty
    BY <1>2 DEF StillThere
  <2>1. u # t /\ pc[u] = "returned"
    BY <1>7, <1>8
  <2>2. Own(u) # None
    BY <2>1, OwnIsAnswer
  <2> QED
    BY <1>2, <1>8, <1>9, <2>1, <2>2 DEF StillThere
<1>16. AnsweredInTurn'
  BY <1>2, <1>7, <1>8 DEF AnsweredInTurn, Answered
<1> QED
  BY <1>4, <1>5, <1>6, <1>10, <1>11, <1>12, <1>13, <1>14, <1>15, <1>16

LEMMA NoRoomLInv ==
    ASSUME LInv, NEW t \in Threads, NoRoom(t) PROVE LInv'
<1> USE DEF LInv, NoRoom
<1>1. lib = "shim"
  BY DEF ShimFrees
<1>2. TypeOK'
  BY DEF TypeOK
<1>3. Begun' /\ ShimFrees' /\ Pointed'
  BY DEF Begun, ShimFrees, Pointed, TypeOK
<1>4. Placed'
  BY DEF Placed, Own, TypeOK
<1>5. KeepsOne' /\ FreedOnce' /\ Intact'
  BY <1>1 DEF KeepsOne, FreedOnce, Intact
<1>6. Turns'
  <2>1. Depends(t)
    BY <1>1 DEF Depends
  <2>2. \A u \in Threads : Depends(u)' => Depends(u)
    BY <2>1 DEF Depends, TypeOK
  <2> QED
    BY <2>2 DEF Turns
<1>7. StillThere'
  BY <1>1 DEF StillThere, Own, TypeOK
<1>8. AnsweredInTurn'
  BY DEF AnsweredInTurn, Answered, Own, TypeOK
<1> QED
  BY <1>2, <1>3, <1>4, <1>5, <1>6, <1>7, <1>8

LEMMA KeepRustLInv ==
    ASSUME LInv, NEW t \in Threads, Keep(t), lib = "rust" PROVE LInv'
<1> USE DEF LInv
<1>1. /\ mem' = [a \in Addresses |-> IF a = last THEN None ELSE mem[a]]
      /\ freedTwice' = (last # None /\ mem[last] = None)
      /\ crossed' = (crossed \/ \E u \in Threads \ {t} : Depends(u))
      /\ pc[t] = "built" /\ pc' = [pc EXCEPT ![t] = "returned"]
      /\ last' = ptr[t]
      /\ UNCHANGED <<lib, calls, ptr, got, roomless>>
  BY DEF Keep, Free, Replaced
<1>2. ptr[t] \in Addresses /\ ptr[t] # last
  BY <1>1 DEF Pointed, Placed
<1>3. mem[ptr[t]] = Own(t) /\ mem'[ptr[t]] = Own(t) /\ Own(t) # None
  BY <1>1, <1>2, OwnIsAnswer DEF Placed
<1>4. ~freedTwice'
  BY <1>1 DEF Intact
<1>5. TypeOK'
  <2>1. freedTwice' \in BOOLEAN /\ crossed' \in BOOLEAN
    BY <1>1, Zenon DEF TypeOK
  <2> QED
    BY <1>1, <1>2, <2>1 DEF TypeOK
<1>6. \A u \in Threads : u # t => pc'[u] = pc[u]
  BY <1>1 DEF TypeOK
<1>7. \A u \in Threads : Own(u)' = Own(u)
  BY <1>1 DEF Own
<1>8. Begun' /\ ShimFrees' /\ Pointed'
  BY <1>1, <1>2 DEF Begun, ShimFrees, Pointed, TypeOK
<1>9. Placed'
  <2> SUFFICES ASSUME NEW u \in Threads, pc'[u] = "built"
               PROVE  mem'[ptr[u]] = Own(u) /\ ptr[u] # ptr[t]
    BY <1>1, <1>7 DEF Placed
  <2>1. u # t /\ pc[u] = "built"
    BY <1>1, <1>6 DEF TypeOK
  <2>2. ptr[u] \in Addresses /\ ptr[u] # last /\ mem[ptr[u]] = Own(u)
    BY <2>1 DEF Pointed, Placed
  <2>3. Own(u) # Own(t)
    BY <2>1 DEF Own
  <2> QED
    BY <1>1, <1>3, <2>2, <2>3
<1>10. KeepsOne'
  <2> SUFFICES ASSUME NEW b \in Addresses, mem'[b] # None
               PROVE  b = ptr[t] \/ \E u \in Threads : pc'[u] = "built" /\ ptr[u] = b
    BY <1>1 DEF KeepsOne
  <2>1. b # last /\ mem[b] # None
    BY <1>1
  <2>2. PICK u \in Threads : pc[u] = "built" /\ ptr[u] = b
    BY <2>1 DEF KeepsOne
  <2> QED
    BY <1>6, <2>2
<1>11. FreedOnce' /\ Intact'
  BY <1>1, <1>3, <1>4 DEF FreedOnce, Intact
<1>12. ~crossed' => ~crossed /\ \A u \in Threads : pc'[u] = "returned" => u = t
  BY <1>1, <1>6 DEF Depends
<1>13. Turns'
  BY <1>1, <1>12 DEF Turns, Depends
<1>14. StillThere'
  BY <1>1, <1>2, <1>3, <1>7, <1>12 DEF StillThere
<1>15. AnsweredInTurn'
  BY <1>1, <1>6, <1>7, <1>12 DEF AnsweredInTurn, Answered, TypeOK
<1> QED
  BY <1>5, <1>8, <1>9, <1>10, <1>11, <1>13, <1>14, <1>15

LEMMA KeepShimLInv ==
    ASSUME LInv, NEW t \in Threads, Keep(t), lib # "rust" PROVE LInv'
<1> USE DEF LInv
<1>1. /\ pc[t] = "built" /\ pc' = [pc EXCEPT ![t] = "returned"]
      /\ last' = ptr[t]
      /\ UNCHANGED <<lib, calls, mem, ptr, got, freedTwice, crossed, roomless>>
  BY DEF Keep
<1>2. ptr[t] \in Addresses /\ lib = "shim"
  BY <1>1 DEF Pointed, TypeOK
<1>3. Own(t) # None /\ (~crossed => mem[ptr[t]] = Own(t))
  BY <1>1, OwnIsAnswer DEF Placed
<1>4. TypeOK'
  BY <1>1, <1>2 DEF TypeOK
<1>5. \A u \in Threads : Own(u)' = Own(u) /\ (u # t => pc'[u] = pc[u])
  BY <1>1 DEF Own, TypeOK
<1>6. Begun' /\ ShimFrees' /\ Pointed'
  BY <1>1, <1>2 DEF Begun, ShimFrees, Pointed, TypeOK
<1>7. Placed'
  <2> SUFFICES ASSUME NEW u \in Threads, pc'[u] = "built", ~crossed
               PROVE  mem[ptr[u]] = Own(u)
    BY <1>1, <1>2, <1>5 DEF Placed
  <2>1. pc[u] = "built"
    BY <1>1, <1>5 DEF TypeOK
  <2> QED
    BY <2>1 DEF Placed
<1>8. KeepsOne' /\ FreedOnce'
  BY <1>1 DEF KeepsOne, FreedOnce
<1>9. Intact'
  BY <1>1, <1>3 DEF Intact
<1>10. \A u \in Threads : Depends(u)' => Depends(u)
  BY <1>1, <1>5 DEF Depends
<1>11. Turns'
  BY <1>1, <1>10 DEF Turns
<1>12. StillThere'
  BY <1>1, <1>2, <1>3, <1>5 DEF StillThere
<1>13. AnsweredInTurn'
  BY <1>1, <1>5 DEF AnsweredInTurn, Answered, TypeOK
<1> QED
  BY <1>4, <1>6, <1>7, <1>8, <1>9, <1>11, <1>12, <1>13

LEMMA CopyLInv ==
    ASSUME LInv, NEW t \in Threads, Copy(t) PROVE LInv'
<1> USE DEF LInv, Copy
<1>1. TypeOK'
  <2>1. Read(ptr[t]) \in Answers \cup {None, Garbage, Empty}
    BY DEF Read, Pointed, TypeOK
  <2> QED
    BY <2>1 DEF TypeOK
<1>2. Begun' /\ ShimFrees' /\ Pointed'
  BY DEF Begun, ShimFrees, Pointed, TypeOK
<1>3. Placed'
  BY DEF Placed, Own, TypeOK
<1>4. KeepsOne' /\ FreedOnce'
  BY DEF KeepsOne, FreedOnce, TypeOK
<1>5. Intact'
  BY DEF Intact, TypeOK
<1>6. Turns'
  <2>1. \A u \in Threads : Depends(u)' => Depends(u)
    BY DEF Depends, TypeOK
  <2> QED
    BY <2>1 DEF Turns
<1>7. StillThere'
  BY DEF StillThere, Own, TypeOK
<1>8. AnsweredInTurn'
  <2> SUFFICES ASSUME ~crossed, NEW u \in Threads, pc'[u] = "idle", calls[u] > 0
               PROVE  Answered(u)'
    BY DEF AnsweredInTurn
  <2>1. CASE u = t
    <3>1. got'[t] = Read(ptr[t]) /\ Own(t)' = Own(t)
      BY DEF TypeOK, Own
    <3>2. CASE ptr[t] \in Addresses /\ mem[ptr[t]] = Own(t)
      <4>1. Own(t) # None /\ ptr[t] # Empty
        BY <3>2, OwnIsAnswer, LinkedLibraryAssumption
      <4> QED
        BY <2>1, <3>1, <3>2, <4>1 DEF Read, Answered
    <3>3. CASE lib = "shim" /\ roomless /\ ptr[t] = Empty
      BY <2>1, <3>1, <3>3 DEF Read, Answered
    <3> QED
      BY <3>2, <3>3 DEF StillThere
  <2>2. CASE u # t
    BY <2>2 DEF AnsweredInTurn, Answered, Own, TypeOK
  <2> QED
    BY <2>1, <2>2
<1> QED
  BY <1>1, <1>2, <1>3, <1>4, <1>5, <1>6, <1>7, <1>8

LEMMA NextLInv == LInv /\ [Next]_vars => LInv'
<1> SUFFICES ASSUME LInv, [Next]_vars PROVE LInv'
  OBVIOUS
<1>1. CASE UNCHANGED vars
  BY <1>1 DEF vars, LInv, TypeOK, Begun, Own, ShimFrees, Pointed, Placed,
              KeepsOne, Intact, Turns, Depends, StillThere, FreedOnce,
              AnsweredInTurn, Answered
<1>2. CASE Next
  <2> PICK t \in Threads : Step(t)
    BY <1>2 DEF Next
  <2> QED
    BY CallLInv, FreeLastLInv, BuildLInv, NoRoomLInv, KeepRustLInv,
       KeepShimLInv, CopyLInv DEF Step
<1> QED
  BY <1>1, <1>2

LEMMA LInvHolds == Spec => []LInv
  BY InitLInv, NextLInv, PTL DEF Spec

\* SharedLibraryModule::call over either library: a caller has the answer to its
\* own call unless another call freed the last answer before it was copied.
THEOREM AnsweredInTurnHolds == Spec => []AnsweredInTurn
<1>1. LInv => AnsweredInTurn
  BY DEF LInv
<1> QED
  BY <1>1, LInvHolds, PTL

\* No answer is freed twice, by native.rs' respond at all and by the generated
\* respond while calls do not cross and memory lasts.
THEOREM FreedOnceHolds == Spec => []FreedOnce
<1>1. LInv => FreedOnce
  BY DEF LInv
<1> QED
  BY <1>1, LInvHolds, PTL

\* LAST_RESULT holds one answer however many calls overlap: nothing piles up.
THEOREM KeepsOneHolds == Spec => []KeepsOne
<1>1. LInv => KeepsOne
  BY DEF LInv
<1> QED
  BY <1>1, LInvHolds, PTL

=============================================================================
