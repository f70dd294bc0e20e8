---------------------------- MODULE MCModuleBuild ----------------------------
(***************************************************************************)
(* ModuleBuild on one directory of two sources, with two builds at a time  *)
(* and any number one after the other.                                     *)
(***************************************************************************)
EXTENDS ModuleBuild, TLC

\* Builds are interchangeable; no liveness is checked.
BuildSymmetry == Permutations(Builds)

\* One toolchain at most is incomplete, and one that is needed; a directory
\* of both classes, whose builds share no file, is checked without AOT.
MCInit ==
    /\ Init
    /\ \E l \in Buildable : \A k \in Buildable \ {l} : tools[k] = "ready"
    /\ \A l \in Buildable : Sources(l) = {} => tools[l] = "ready"
    /\ language[Main] # "planned"
    /\ aot => \A l \in Buildable : Sources(l) \in {{}, Files}

MCSpec == MCInit /\ [][Next]_vars
==============================================================================
