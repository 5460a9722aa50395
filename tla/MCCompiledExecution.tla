-------------------------- MODULE MCCompiledExecution --------------------------
(* Instances of CompiledExecution for TLC. *)
EXTENDS CompiledExecution
CONSTANTS x, y, l1, l2
NoParams == <<>>
==============================================================================
