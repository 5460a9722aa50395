-------------------------- MODULE MCFunctionPipeline --------------------------
(* Instances of FunctionPipeline for TLC. *)
EXTENDS PipelineInvariant
CONSTANTS x, y, l1, l2
NoParams == <<>>
OneParam == <<x>>
TwoParams == <<x, y>>
==============================================================================
