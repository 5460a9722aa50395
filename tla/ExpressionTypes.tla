---------------------------- MODULE ExpressionTypes ----------------------------
(***************************************************************************)
(* The type rules of expressions: what the operators accept, the type of   *)
(* the result, and the types the operands are cast to.                     *)
(*                                                                         *)
(* A type is a sequence: <<"pointer", "int">> is int*.  There is one       *)
(* struct, which has an int field.  The type of a function is left out:    *)
(* "apply" is the call of one with a char parameter that returns a char.   *)
(***************************************************************************)
EXTENDS Naturals, Sequences

IntType     == <<"int">>
CharType    == <<"char">>
VoidType    == <<"void">>
NullptrType == <<"nullptr">>     \* of the constant 0
StructType  == <<"struct">>
FieldType   == IntType
StringType  == <<"pointer", "char">>
Pointer(t)  == <<"pointer">> \o t
NoType      == <<"none">>

Type == LET Base == {IntType, CharType, VoidType, NullptrType, StructType}
            Pointed == Base \ {NullptrType}
        IN Base \cup {Pointer(t) : t \in Pointed} \cup {Pointer(Pointer(t)) : t \in Pointed}

TypeKind == {"int", "char", "void", "nullptr", "struct", "pointer"}
Kind(t) == t[1]
Inner(t) == Tail(t)

IsPointer(t)    == Kind(t) \in {"pointer", "nullptr"}
IsInteger(t)    == Kind(t) \in {"int", "nullptr"}
IsScalar(t)     == Kind(t) \in {"int", "char", "nullptr", "pointer"}
IsArithmetic(t) == Kind(t) \in {"int", "char", "nullptr"}
IsObjectType(t) == Kind(t) # "void"
IsComplete(t)   == Kind(t) # "void"

\* Type::equals, PointerType::equals, StructType::equals; not symmetric.
Equals[s \in Type] == [t \in Type |->
  IF Kind(s) = "pointer"
  THEN \/ Kind(t) = "nullptr" \/ Kind(Inner(s)) = "void"
       \/ /\ Kind(t) = "pointer"
          /\ Kind(Inner(t)) = "void" \/ Equals[Inner(s)][Inner(t)]
  ELSE \/ Kind(s) = Kind(t)
       \/ IsInteger(s) /\ IsInteger(t)
       \/ Kind(s) = "nullptr" /\ Kind(t) = "pointer"]

StrongEquals(s, t) == s = t

\* unifyTypes, where equal types are not unified.
Unify(s, t) ==
  IF /\ ~StrongEquals(s, t)
     /\ \/ {Kind(s), Kind(t)} = {"char", "int"}
        \/ Kind(s) = "int" /\ IsPointer(t)
        \/ IsPointer(s) /\ Kind(t) = "int"
        \/ {Kind(s), Kind(t)} = {"char", "nullptr"}
  THEN IntType ELSE NoType

(***************************************************************************)
(* The typecheck functions.  A result with NoType is an error; an operand  *)
(* that is cast to NoType is not cast.                                     *)
(***************************************************************************)
Result(t, casts) == [type |-> t, casts |-> casts]
Illegal == Result(NoType, <<>>)
Uncast == <<NoType, NoType>>

\* Multiply, and the arithmetic case of Add and Subtract.
ArithmeticResult(l, r) ==
  LET u == Unify(l, r)
  IN IF u # NoType THEN Result(u, <<u, u>>) ELSE Result(IntType, Uncast)

AreArithmetic(l, r) == IsArithmetic(l) /\ IsArithmetic(r)
MultiplyResult(l, r) == IF AreArithmetic(l, r) THEN ArithmeticResult(l, r) ELSE Illegal

AddResult(l, r) ==
  CASE AreArithmetic(l, r) -> ArithmeticResult(l, r)
    [] Kind(l) = "pointer" /\ IsArithmetic(r) -> Result(l, <<NoType, IntType>>)
    [] IsArithmetic(l) /\ Kind(r) = "pointer" -> Result(r, <<IntType, NoType>>)
    [] OTHER -> Illegal

SubtractResult(l, r) ==
  CASE AreArithmetic(l, r) -> ArithmeticResult(l, r)
    [] Kind(l) = "pointer" /\ Kind(r) = "pointer" /\ Equals[l][r] ->
         IF IsObjectType(Inner(l)) /\ IsObjectType(Inner(r)) THEN Result(IntType, Uncast) ELSE Illegal
    [] Kind(l) = "pointer" /\ IsArithmetic(r) ->
         IF IsObjectType(Inner(l)) THEN Result(l, Uncast) ELSE Illegal
    [] OTHER -> Illegal

\* Of <, == and != with type int; of ?: with the common type.
CommonType(l, r) ==
  IF Unify(l, r) # NoType THEN Unify(l, r) ELSE IF Equals[l][r] THEN l ELSE NoType
CompareResult(l, r) ==
  LET u == CommonType(l, r) IN IF u = NoType THEN Illegal ELSE Result(IntType, <<u, u>>)

LogicalResult(l, r) ==
  CASE ~(IsScalar(l) /\ IsScalar(r)) -> Illegal
    [] IsPointer(l) /\ IsPointer(r) -> Result(IntType, Uncast)
    [] OTHER -> CompareResult(l, r)

\* The left operand is a modifiable lvalue.
AssignResult(l, r) ==
  LET legal == Result(l, Uncast) IN
  CASE AreArithmetic(l, r) -> IF StrongEquals(r, l) THEN legal ELSE Result(l, <<NoType, l>>)
    [] Kind(l) = "struct" -> IF Equals[l][r] THEN legal ELSE Illegal
    [] Kind(l) = "pointer" /\ Kind(r) = "pointer" ->
         IF \/ Equals[l][r]
            \/ IsObjectType(Inner(l)) /\ Kind(Inner(r)) = "void"
            \/ Kind(Inner(l)) = "void" /\ IsObjectType(Inner(r))
         THEN legal ELSE Illegal
    [] Kind(l) = "pointer" /\ Kind(r) = "nullptr" -> legal
    [] OTHER -> Illegal

TernaryResult(c, l, r) ==
  IF ~IsScalar(c) THEN Illegal
  ELSE IF VoidType \in {l, r} THEN Result(VoidType, <<NoType, VoidType, VoidType>>)
  ELSE LET u == CommonType(l, r)
       IN IF u = NoType THEN Illegal ELSE Result(u, <<NoType, u, u>>)

NegationResult(t) == IF IsArithmetic(t) THEN Result(IntType, <<NoType>>) ELSE Illegal
NotResult(t)      == IF IsScalar(t) THEN Result(IntType, <<NoType>>) ELSE Illegal

(***************************************************************************)
(* The operators on addresses, and calls.  The operands of an index        *)
(* expression change places if the first one is the integer.               *)
(***************************************************************************)
IsSwapped(e, i) == ~(IsPointer(e) /\ IsInteger(i))
IndexResult(e, i) ==
  LET pointer == IF IsSwapped(e, i) THEN i ELSE e
      index == IF IsSwapped(e, i) THEN e ELSE i
      element == IF pointer = NullptrType THEN VoidType ELSE Inner(pointer) IN
  IF /\ IsPointer(pointer) /\ IsInteger(index)
     /\ IsComplete(element) /\ IsObjectType(element)
  THEN Result(element, <<NoType, IntType>>) ELSE Illegal

DereferenceResult(t) == IF Kind(t) = "pointer" THEN Result(Inner(t), <<NoType>>) ELSE Illegal
ReferenceResult(t)   == Result(Pointer(t), <<NoType>>)     \* of an lvalue
DotResult(t)    == IF Kind(t) = "struct" THEN Result(FieldType, <<NoType>>) ELSE Illegal
ArrowResult(t)  == IF t = Pointer(StructType) THEN Result(FieldType, <<NoType>>) ELSE Illegal
SizeofResult(t) == Result(IntType, <<NoType>>)

ApplyResult(t) ==
  IF Equals[t][CharType] \/ Unify(t, CharType) # NoType
  THEN Result(CharType, <<CharType>>) ELSE Illegal

ResultOf(op, ts) ==
  CASE op = "*"                -> MultiplyResult(ts[1], ts[2])
    [] op = "+"                -> AddResult(ts[1], ts[2])
    [] op = "-"                -> SubtractResult(ts[1], ts[2])
    [] op \in {"<", "==", "!="} -> CompareResult(ts[1], ts[2])
    [] op \in {"&&", "||"}     -> LogicalResult(ts[1], ts[2])
    [] op = "="                -> AssignResult(ts[1], ts[2])
    [] op = "?:"               -> TernaryResult(ts[1], ts[2], ts[3])
    [] op = "negation"         -> NegationResult(ts[1])
    [] op = "not"              -> NotResult(ts[1])
    [] op = "index"            -> IndexResult(ts[1], ts[2])
    [] op = "dereference"      -> DereferenceResult(ts[1])
    [] op = "reference"        -> ReferenceResult(ts[1])
    [] op = "."                -> DotResult(ts[1])
    [] op = "->"               -> ArrowResult(ts[1])
    [] op = "sizeof"           -> SizeofResult(ts[1])
    [] op = "apply"            -> ApplyResult(ts[1])
==============================================================================
