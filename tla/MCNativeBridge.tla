--------------------------- MODULE MCNativeBridge ---------------------------
(* Instances of NativeBridge for TLC. *)
EXTENDS NativeBridge, TLC

CONSTANTS l1, l2, l3, b1, b2, n1

\* Two loads through one bridge and one through another, as createNativeModule
\* makes one per module; all of them name the same module.
TwoBridges == [l \in Loads |-> IF l = l2 THEN b2 ELSE b1]
OneName == [l \in Loads |-> n1]

=============================================================================
