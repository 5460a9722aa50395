------------------------- MODULE MCExpressionExecution -------------------------
(***************************************************************************)
(* Instances of ExpressionExecution for TLC.                               *)
(***************************************************************************)
EXTENDS ExpressionExecution

SmallIntegers == {-4, -2, -1, 0, 1, 3}

Variables == [i |-> IntType, c |-> CharType, p |-> Pointer(IntType), v |-> Pointer(VoidType),
              s |-> StructType, n |-> VoidType]
Layout == [i |-> 1, c |-> 2, p |-> 3, v |-> 4, s |-> 5, n |-> 6, string |-> 7]

Conversions == {"i", "c", "zero", "one", "*", "+", "-", "=", "<", "==", "negation"}
Addressing  == {"i", "c", "p", "v", "s", "zero", "one", "+", "-", "=", "==", "!=", "not"}
Branches    == {"i", "c", "zero", "one", "call", "&&", "||", "?:", "<", "=", "not"}

Pointers    == {"i", "p", "zero", "reference", "dereference", "index", "="}
Members     == {"c", "s", "v", "one", "reference", "dereference", ".", "->", "=", "?:", "sizeof", "apply"}
Strings     == {"c", "v", "n", "string", "reference", "dereference", "sizeof", "="}

AllVocabularies == {Conversions, Addressing, Branches, Pointers, Members, Strings}
Sizes == [V \in AllVocabularies |->
  CASE V \in {Conversions, Addressing} -> 5
    [] V \in {Branches, Members, Strings} -> 6
    [] V = Pointers -> 7]
==============================================================================
