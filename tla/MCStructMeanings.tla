---------------------------- MODULE MCStructMeanings ----------------------------
(* The instance of StructMeanings for TLC.  No definition tells tags or fields *)
(* apart.                                                                      *)
EXTENDS StructMeanings, TLC
Symmetry == Permutations(Tag) \cup Permutations(Field)
==============================================================================
