-------------------------- MODULE MCModuleRegistry --------------------------
(* Instances of ModuleRegistry for TLC. *)
EXTENDS ModuleRegistry, TLC

=============================================================================
