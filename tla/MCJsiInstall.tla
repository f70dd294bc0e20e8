---------------------------- MODULE MCJsiInstall ----------------------------
(* Instances of JsiInstall for TLC. *)
EXTENDS JsiInstall, TLC

=============================================================================
