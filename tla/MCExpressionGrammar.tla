-------------------------- MODULE MCExpressionGrammar --------------------------
(***************************************************************************)
(* The instance of ExpressionGrammar for TLC.                              *)
(***************************************************************************)
EXTENDS ExpressionGrammar

BinaryTokens  == {"id", "*", "+", "<", "==", "&&", "||"}
BranchTokens  == {"id", "||", "-", "?", ":", "=", "(", ")"}
OperandTokens == {"id", "(", ")", "[", "]", "->", ",", "&", "!", "sizeof"}
DeclaratorTokens == {"int", "id", "*", "(", ")", ","}
StructTokens  == {"char", "struct", "id", "*", "{", "}", ";"}
TypeNameTokens == {"sizeof", "void", "*", "(", ")"}
AllVocabularies ==
  {BinaryTokens, BranchTokens, OperandTokens, DeclaratorTokens, StructTokens, TypeNameTokens}
Lengths == [v \in AllVocabularies |->
  CASE v = OperandTokens -> 6
    [] v \in {BinaryTokens, BranchTokens} -> 7
    [] v = DeclaratorTokens -> 8
    [] v \in {StructTokens, TypeNameTokens} -> 9]

\* The grammar is not ambiguous.
ASSUME Cardinality({e[1] : e \in Statements}) = Cardinality(Statements)
==============================================================================
