--------------------------- MODULE MCFunctionLinkage ---------------------------
(***************************************************************************)
(* Instances of FunctionLinkage for TLC.  All names are external, and no   *)
(* definition tells them apart.                                            *)
(***************************************************************************)
EXTENDS FunctionLinkage, TLC

NameSymmetry == Permutations(Name)
==============================================================================
