------------------------ MODULE ExpressionCodegenProofs ------------------------
(***************************************************************************)
(* The code of an expression, for every expression over any variables: it  *)
(* is well-formed, a phi names the predecessors of its block, and the code *)
(* generator stops only where it cannot compute an address.                *)
(***************************************************************************)
EXTENDS ExpressionCodegen, Integers, WellFoundedInduction, TLAPS

(***************************************************************************)
(* Types.                                                                  *)
(***************************************************************************)
LEMMA PointerOf ==
  ASSUME NEW t \in Seq(TypeKind)
  PROVE  /\ Pointer(t) \in Seq(TypeKind) /\ Len(Pointer(t)) = Len(t) + 1
         /\ Kind(Pointer(t)) = "pointer" /\ Inner(Pointer(t)) = t
         /\ \A i \in 1..Len(t) : Pointer(t)[i + 1] = t[i]
<1>1. <<"pointer">> \in Seq(TypeKind) /\ Len(<<"pointer">>) = 1 /\ <<"pointer">>[1] = "pointer"
  BY DEF TypeKind
<1>2. Pointer(t) \in Seq(TypeKind) /\ Len(Pointer(t)) = Len(t) + 1
  BY <1>1 DEF Pointer
<1>3. Pointer(t)[1] = "pointer"
  BY <1>1 DEF Pointer
<1>4. \A i \in 1..Len(t) : Pointer(t)[i + 1] = t[i]
  BY <1>1 DEF Pointer
<1>5. Inner(Pointer(t)) \in Seq(TypeKind) /\ Len(Inner(Pointer(t))) = Len(t)
  BY <1>2 DEF Inner
<1>6. \A i \in 1..Len(t) : Inner(Pointer(t))[i] = t[i]
  BY <1>2, <1>4 DEF Inner
<1>7. Inner(Pointer(t)) = t
  BY <1>5, <1>6
<1> QED BY <1>2, <1>3, <1>4, <1>7 DEF Kind

BaseType == {IntType, CharType, VoidType, NullptrType, StructType}
PointedBase == BaseType \ {NullptrType}

LEMMA BaseTypes ==
  /\ BaseType \subseteq Seq(TypeKind)
  /\ Kind(IntType) = "int" /\ Kind(CharType) = "char" /\ Kind(VoidType) = "void"
  /\ Kind(NullptrType) = "nullptr" /\ Kind(StructType) = "struct" /\ Kind(NoType) = "none"
<1>1. BaseType \subseteq Seq(TypeKind)
  BY DEF BaseType, TypeKind, IntType, CharType, VoidType, NullptrType, StructType
<1>2. /\ Kind(IntType) = "int" /\ Kind(CharType) = "char" /\ Kind(VoidType) = "void"
      /\ Kind(NullptrType) = "nullptr" /\ Kind(StructType) = "struct" /\ Kind(NoType) = "none"
  BY DEF IntType, CharType, VoidType, NullptrType, StructType, NoType, Kind
<1> QED BY <1>1, <1>2

LEMMA TypeCases ==
  ASSUME NEW t \in Type
  PROVE  \/ t \in BaseType
         \/ \E b \in PointedBase : t = Pointer(b)
         \/ \E b \in PointedBase : t = Pointer(Pointer(b))
BY DEF Type, BaseType, PointedBase

LEMMA TypesListed ==
  /\ BaseType \subseteq Type
  /\ \A b \in PointedBase : Pointer(b) \in Type /\ Pointer(Pointer(b)) \in Type
BY DEF Type, BaseType, PointedBase

\* The types an lvalue can have: there is a pointer to each.
LvalueType == {t \in Type : Pointer(t) \in Type}

LEMMA TypeShape ==
  ASSUME NEW t \in Type
  PROVE  /\ Kind(t) \in TypeKind /\ t # NoType
         /\ Kind(t) # "pointer" => t \in BaseType
         /\ Kind(t) = "pointer" => Inner(t) \in LvalueType
<1>1. CASE t \in BaseType
  BY <1>1, BaseTypes DEF BaseType, TypeKind
<1>2. ASSUME NEW b \in PointedBase, t = Pointer(b)
      PROVE  Kind(t) = "pointer" /\ Inner(t) = b /\ b \in LvalueType
  <2>1. b \in BaseType /\ b \in Seq(TypeKind)
    BY BaseTypes DEF PointedBase
  <2>2. Kind(t) = "pointer" /\ Inner(t) = b
    BY <1>2, <2>1, PointerOf
  <2> QED BY <2>1, <2>2, TypesListed DEF LvalueType
<1>3. ASSUME NEW b \in PointedBase, t = Pointer(Pointer(b))
      PROVE  Kind(t) = "pointer" /\ Inner(t) = Pointer(b) /\ Pointer(b) \in LvalueType
  <2>1. b \in Seq(TypeKind)
    BY BaseTypes DEF PointedBase
  <2>2. Pointer(b) \in Seq(TypeKind)
    BY <2>1, PointerOf
  <2>3. Kind(t) = "pointer" /\ Inner(t) = Pointer(b)
    BY <1>3, <2>2, PointerOf
  <2> QED BY <2>3, TypesListed DEF LvalueType
<1>4. CASE Kind(t) = "pointer" /\ Inner(t) \in LvalueType
  BY <1>4, BaseTypes DEF TypeKind
<1> QED BY <1>1, <1>2, <1>3, <1>4, TypeCases

LEMMA NamedTypes ==
  /\ {IntType, CharType, VoidType, NullptrType, StructType, FieldType, StringType} \subseteq Type
  /\ {IntType, CharType, VoidType, StructType, FieldType, StringType} \subseteq LvalueType
  /\ NoType \notin Type /\ IntType # VoidType /\ CharType # VoidType
<1>1. {IntType, CharType, VoidType, StructType} \subseteq LvalueType
  <2>1. {IntType, CharType, VoidType, StructType} \subseteq PointedBase
    BY BaseTypes DEF PointedBase, BaseType
  <2>2. PointedBase \subseteq Type
    BY TypesListed DEF PointedBase
  <2> QED BY <2>1, <2>2, TypesListed DEF LvalueType
<1>2. StringType = Pointer(CharType)
  <2>1. CharType \in Seq(TypeKind) /\ Len(CharType) = 1 /\ CharType[1] = "char"
    BY DEF CharType, TypeKind
  <2>2. PICK p \in Seq(TypeKind) : p = Pointer(CharType)
    BY <2>1, PointerOf
  <2>3. Len(p) = 2 /\ p[1] = "pointer" /\ p[2] = "char"
    <3>1. Len(p) = Len(CharType) + 1 /\ p[1] = "pointer"
      BY <2>1, <2>2, PointerOf DEF Kind
    <3>2. 1 \in 1..Len(CharType)
      BY <2>1
    <3>3. p[1 + 1] = CharType[1]
      BY <2>1, <2>2, <3>2, PointerOf
    <3> QED BY <2>1, <3>1, <3>3
  <2>4. StringType \in Seq(TypeKind) /\ Len(StringType) = 2
        /\ StringType[1] = "pointer" /\ StringType[2] = "char"
    BY DEF StringType, TypeKind
  <2> QED BY <2>2, <2>3, <2>4
<1>3. StringType \in LvalueType
  <2>1. CharType \in PointedBase
    BY BaseTypes DEF PointedBase, BaseType
  <2> QED BY <1>2, <2>1, TypesListed DEF LvalueType
<1>4. NullptrType \in Type
  BY TypesListed DEF BaseType
<1>5. NoType \notin Type
  BY TypeShape
<1>6. IntType # VoidType /\ CharType # VoidType
  BY BaseTypes
<1> QED BY <1>1, <1>3, <1>4, <1>5, <1>6 DEF LvalueType, FieldType

LEMMA TypeDepth ==
  ASSUME NEW t \in Type, Kind(t) = "pointer", Kind(Inner(t)) = "pointer"
  PROVE  Kind(Inner(Inner(t))) # "pointer"
<1>0. \A b \in PointedBase : b \in Seq(TypeKind) /\ Kind(b) # "pointer"
  BY BaseTypes DEF PointedBase, BaseType
<1>1. CASE t \in BaseType
  BY <1>1, BaseTypes DEF BaseType
<1>2. ASSUME NEW b \in PointedBase, t = Pointer(b) PROVE FALSE
  BY <1>0, <1>2, PointerOf
<1>3. ASSUME NEW b \in PointedBase, t = Pointer(Pointer(b))
      PROVE  Kind(Inner(Inner(t))) # "pointer"
  <2>1. PICK p \in Seq(TypeKind) : p = Pointer(b)
    BY <1>0, PointerOf
  <2>2. Inner(t) = p
    BY <1>3, <2>1, PointerOf
  <2>3. Inner(p) = b
    BY <1>0, <2>1, PointerOf
  <2> QED BY <1>0, <2>2, <2>3
<1> QED BY <1>1, <1>2, <1>3, TypeCases

\* PointerType::equals enters its own loop at most twice: a type is no deeper.
EqualsBase(s, t) ==
  \/ Kind(s) = Kind(t)
  \/ IsInteger(s) /\ IsInteger(t)
  \/ Kind(s) = "nullptr" /\ Kind(t) = "pointer"
EqualsPointer(s, t, inner) ==
  \/ Kind(t) = "nullptr" \/ Kind(Inner(s)) = "void"
  \/ Kind(t) = "pointer" /\ (Kind(Inner(t)) = "void" \/ inner)
EqualsOnce(s, t) ==
  IF Kind(s) = "pointer" THEN EqualsPointer(s, t, EqualsBase(Inner(s), Inner(t)))
  ELSE EqualsBase(s, t)
EqualsTwice(s, t) ==
  IF Kind(s) = "pointer" THEN EqualsPointer(s, t, EqualsOnce(Inner(s), Inner(t)))
  ELSE EqualsBase(s, t)

LEMMA EqualsEquation ==
  \A s \in Type : \A t \in Type :
    Equals[s][t] <=> IF Kind(s) = "pointer" THEN EqualsPointer(s, t, Equals[Inner(s)][Inner(t)])
                     ELSE EqualsBase(s, t)
<1> DEFINE Unfold(g) == [s \in Type |-> [t \in Type |->
             IF Kind(s) = "pointer"
             THEN \/ Kind(t) = "nullptr" \/ Kind(Inner(s)) = "void"
                  \/ /\ Kind(t) = "pointer"
                     /\ Kind(Inner(t)) = "void" \/ g[Inner(s)][Inner(t)]
             ELSE \/ Kind(s) = Kind(t)
                  \/ IsInteger(s) /\ IsInteger(t)
                  \/ Kind(s) = "nullptr" /\ Kind(t) = "pointer"]]
<1> DEFINE g == [s \in Type |-> [t \in Type |-> EqualsTwice(s, t)]]
<1>1. ASSUME NEW s \in Type, NEW t \in Type
      PROVE  g[s][t] = (IF Kind(s) = "pointer"
                        THEN \/ Kind(t) = "nullptr" \/ Kind(Inner(s)) = "void"
                             \/ /\ Kind(t) = "pointer"
                                /\ Kind(Inner(t)) = "void" \/ g[Inner(s)][Inner(t)]
                        ELSE \/ Kind(s) = Kind(t)
                             \/ IsInteger(s) /\ IsInteger(t)
                             \/ Kind(s) = "nullptr" /\ Kind(t) = "pointer")
  <2>0. g[s][t] = EqualsTwice(s, t)
    OBVIOUS
  <2>1. CASE Kind(s) # "pointer"
    BY <2>0, <2>1 DEF EqualsTwice, EqualsBase
  <2>2. CASE Kind(s) = "pointer" /\ Kind(t) # "pointer"
    BY <2>0, <2>2 DEF EqualsTwice, EqualsPointer
  <2>3. CASE Kind(s) = "pointer" /\ Kind(t) = "pointer"
    <3>1. Inner(s) \in Type /\ Inner(t) \in Type
      BY <2>3, TypeShape DEF LvalueType
    <3>2. g[Inner(s)][Inner(t)] = EqualsTwice(Inner(s), Inner(t))
      BY <3>1
    <3>3. Kind(Inner(s)) = "pointer" => Kind(Inner(Inner(s))) # "pointer"
      BY <2>3, TypeDepth
    <3>4. EqualsTwice(Inner(s), Inner(t)) = EqualsOnce(Inner(s), Inner(t))
      BY <3>3 DEF EqualsTwice, EqualsOnce, EqualsPointer
    <3> HIDE DEF g
    <3> QED BY <2>0, <2>3, <3>2, <3>4 DEF EqualsTwice, EqualsPointer
  <2> QED BY <2>1, <2>2, <2>3
<1>2. g = Unfold(g)
  BY <1>1
<1> HIDE DEF g
<1>3. Equals = CHOOSE f : f = Unfold(f)
  BY DEF Equals
<1>4. Equals = Unfold(Equals)
  BY <1>2, <1>3
<1> QED BY ZenonT(40), <1>4 DEF EqualsPointer, EqualsBase

LEMMA StructIsNoVoid == ~Equals[StructType][VoidType]
BY EqualsEquation, NamedTypes, BaseTypes DEF EqualsBase, IsInteger

(***************************************************************************)
(* The type rules: whatever an operator accepts, its result is a type, and *)
(* there is a cast for each operand.                                       *)
(***************************************************************************)
CastTarget == Type \cup {NoType}
IsResult(r, n) == r.type \in Type /\ r.casts \in Seq(CastTarget) /\ Len(r.casts) = n

LEMMA ResultIs ==
  ASSUME NEW t \in Type
  PROVE  /\ \A c \in CastTarget : IsResult(Result(t, <<c>>), 1)
         /\ \A c, d \in CastTarget : IsResult(Result(t, <<c, d>>), 2)
         /\ \A c, d, e \in CastTarget : IsResult(Result(t, <<c, d, e>>), 3)
         /\ IsResult(Result(t, Uncast), 2)
<1>1. \A c \in CastTarget : <<c>> \in Seq(CastTarget) /\ Len(<<c>>) = 1
  OBVIOUS
<1>2. \A c, d \in CastTarget : <<c, d>> \in Seq(CastTarget) /\ Len(<<c, d>>) = 2
  OBVIOUS
<1>3. \A c, d, e \in CastTarget : <<c, d, e>> \in Seq(CastTarget) /\ Len(<<c, d, e>>) = 3
  OBVIOUS
<1>4. NoType \in CastTarget
  BY DEF CastTarget
<1> QED BY <1>1, <1>2, <1>3, <1>4 DEF IsResult, Result, Uncast

LEMMA CastTypes ==
  /\ Type \subseteq CastTarget /\ NoType \in CastTarget
  /\ {IntType, CharType, VoidType} \subseteq CastTarget
  /\ \A s, t : Unify(s, t) \in {IntType, NoType} /\ Unify(s, t) \in CastTarget
BY NamedTypes DEF CastTarget, Unify

LEMMA BinaryResults ==
  ASSUME NEW l \in Type, NEW r \in Type
  PROVE  /\ IsResult(ArithmeticResult(l, r), 2)
         /\ MultiplyResult(l, r) # Illegal => IsResult(MultiplyResult(l, r), 2)
         /\ AddResult(l, r) # Illegal => IsResult(AddResult(l, r), 2)
         /\ SubtractResult(l, r) # Illegal => IsResult(SubtractResult(l, r), 2)
<1>1. IsResult(ArithmeticResult(l, r), 2)
  <2>1. IsResult(Result(IntType, Uncast), 2) /\ IsResult(Result(IntType, <<IntType, IntType>>), 2)
    BY ResultIs, NamedTypes, CastTypes
  <2> QED BY <2>1, CastTypes DEF ArithmeticResult
<1>2. MultiplyResult(l, r) \in {ArithmeticResult(l, r), Illegal}
  BY DEF MultiplyResult
<1>3. AddResult(l, r) \in {ArithmeticResult(l, r), Illegal, Result(l, <<NoType, IntType>>),
                           Result(r, <<IntType, NoType>>)}
  BY DEF AddResult
<1>4. SubtractResult(l, r) \in {ArithmeticResult(l, r), Illegal, Result(IntType, Uncast),
                                Result(l, Uncast)}
  BY DEF SubtractResult
<1>5. /\ IsResult(Result(l, <<NoType, IntType>>), 2) /\ IsResult(Result(r, <<IntType, NoType>>), 2)
      /\ IsResult(Result(IntType, Uncast), 2) /\ IsResult(Result(l, Uncast), 2)
  BY ResultIs, NamedTypes, CastTypes
<1> QED BY <1>1, <1>2, <1>3, <1>4, <1>5

LEMMA CommonTypes ==
  ASSUME NEW l \in Type, NEW r \in Type
  PROVE  /\ CommonType(l, r) \in CastTarget
         /\ CommonType(l, r) \in {IntType, l, NoType}
BY CastTypes DEF CommonType

LEMMA DecisionResults ==
  ASSUME NEW l \in Type, NEW r \in Type
  PROVE  /\ CompareResult(l, r) # Illegal => IsResult(CompareResult(l, r), 2)
         /\ LogicalResult(l, r) # Illegal => IsResult(LogicalResult(l, r), 2)
<1>1. CompareResult(l, r) \in {Illegal, Result(IntType, <<CommonType(l, r), CommonType(l, r)>>)}
  BY DEF CompareResult
<1>2. LogicalResult(l, r) \in {Illegal, Result(IntType, Uncast), CompareResult(l, r)}
  BY DEF LogicalResult
<1>3. /\ IsResult(Result(IntType, Uncast), 2)
      /\ IsResult(Result(IntType, <<CommonType(l, r), CommonType(l, r)>>), 2)
  BY ResultIs, NamedTypes, CommonTypes
<1> QED BY <1>1, <1>2, <1>3

\* What is assigned is a value.
LEMMA AssignResults ==
  ASSUME NEW l \in Type, NEW r \in Type, AssignResult(l, r) # Illegal
  PROVE  IsResult(AssignResult(l, r), 2) /\ r # VoidType
<1>1. AssignResult(l, r) \in {Illegal, Result(l, Uncast), Result(l, <<NoType, l>>)}
  BY DEF AssignResult
<1>2. IsResult(Result(l, Uncast), 2) /\ IsResult(Result(l, <<NoType, l>>), 2)
  BY ResultIs, CastTypes
<1>3. ASSUME r = VoidType PROVE FALSE
  <2>1. Kind(r) = "void" /\ ~AreArithmetic(l, r)
    BY <1>3, BaseTypes DEF AreArithmetic, IsArithmetic
  <2>2. Kind(l) = "struct" /\ Equals[l][r]
    BY <2>1 DEF AssignResult
  <2>3. l = StructType
    BY <2>2, TypeShape, BaseTypes DEF BaseType
  <2> QED BY <1>3, <2>2, <2>3, StructIsNoVoid
<1> QED BY <1>1, <1>2, <1>3

\* A conditional that has a value has two.
LEMMA TernaryResults ==
  ASSUME NEW c \in Type, NEW l \in Type, NEW r \in Type, TernaryResult(c, l, r) # Illegal
  PROVE  /\ IsResult(TernaryResult(c, l, r), 3)
         /\ TernaryResult(c, l, r).type # VoidType => l # VoidType /\ r # VoidType
<1>1. CASE VoidType \in {l, r}
  <2>1. TernaryResult(c, l, r) = Result(VoidType, <<NoType, VoidType, VoidType>>)
    BY <1>1 DEF TernaryResult
  <2>2. IsResult(Result(VoidType, <<NoType, VoidType, VoidType>>), 3)
    BY ResultIs, NamedTypes, CastTypes
  <2> QED BY <2>1, <2>2 DEF Result
<1>2. CASE VoidType \notin {l, r}
  <2>1. /\ TernaryResult(c, l, r) = Result(CommonType(l, r), <<NoType, CommonType(l, r), CommonType(l, r)>>)
        /\ CommonType(l, r) # NoType
    BY <1>2 DEF TernaryResult
  <2>2. CommonType(l, r) \in Type
    BY <2>1, CommonTypes, NamedTypes
  <2>3. PICK u \in Type : u = CommonType(l, r)
    BY <2>2
  <2>4. IsResult(Result(u, <<NoType, u, u>>), 3)
    BY ResultIs, CastTypes
  <2> QED BY <1>2, <2>1, <2>3, <2>4
<1> QED BY <1>1, <1>2

LEMMA UnaryResults ==
  ASSUME NEW t \in Type
  PROVE  /\ NegationResult(t) # Illegal => IsResult(NegationResult(t), 1)
         /\ NotResult(t) # Illegal => IsResult(NotResult(t), 1)
         /\ SizeofResult(t) # Illegal => IsResult(SizeofResult(t), 1)
         /\ ApplyResult(t) # Illegal => IsResult(ApplyResult(t), 1)
         /\ t \in LvalueType => IsResult(ReferenceResult(t), 1)
<1>1. /\ NegationResult(t) \in {Illegal, Result(IntType, <<NoType>>)}
      /\ NotResult(t) \in {Illegal, Result(IntType, <<NoType>>)}
      /\ SizeofResult(t) \in {Illegal, Result(IntType, <<NoType>>)}
  BY DEF NegationResult, NotResult, SizeofResult
<1>2. ApplyResult(t) \in {Illegal, Result(CharType, <<CharType>>)}
  BY DEF ApplyResult
<1>3. IsResult(Result(IntType, <<NoType>>), 1) /\ IsResult(Result(CharType, <<CharType>>), 1)
  BY ResultIs, NamedTypes, CastTypes
<1>4. ASSUME t \in LvalueType PROVE IsResult(ReferenceResult(t), 1)
  BY <1>4, ResultIs, CastTypes DEF ReferenceResult, LvalueType
<1> QED BY <1>1, <1>2, <1>3, <1>4

LEMMA LvalueResults ==
  ASSUME NEW t \in Type, NEW i \in Type
  PROVE  /\ IndexResult(t, i) # Illegal =>
              IsResult(IndexResult(t, i), 2) /\ IndexResult(t, i).type \in LvalueType
         /\ DereferenceResult(t) # Illegal =>
              /\ IsResult(DereferenceResult(t), 1) /\ DereferenceResult(t).type \in LvalueType
              /\ Kind(t) = "pointer"
         /\ DotResult(t) # Illegal => IsResult(DotResult(t), 1) /\ DotResult(t).type \in LvalueType
         /\ ArrowResult(t) # Illegal => IsResult(ArrowResult(t), 1) /\ ArrowResult(t).type \in LvalueType
<1>1. ASSUME IndexResult(t, i) # Illegal
      PROVE  IsResult(IndexResult(t, i), 2) /\ IndexResult(t, i).type \in LvalueType
  <2> DEFINE pointer == IF IsSwapped(t, i) THEN i ELSE t
             element == IF pointer = NullptrType THEN VoidType ELSE Inner(pointer)
  <2>1. /\ IsPointer(pointer) /\ IsComplete(element)
        /\ IndexResult(t, i) = Result(element, <<NoType, IntType>>)
    BY <1>1 DEF IndexResult
  <2>2. pointer \in Type /\ pointer # NullptrType
    BY <2>1, BaseTypes DEF IsComplete
  <2>3. Kind(pointer) = "pointer"
    BY <2>1, <2>2, TypeShape, BaseTypes DEF IsPointer, BaseType
  <2>4. element = Inner(pointer) /\ element \in LvalueType
    BY <2>2, <2>3, TypeShape
  <2>5. IsResult(Result(element, <<NoType, IntType>>), 2)
    BY <2>4, ResultIs, CastTypes DEF LvalueType
  <2> QED BY <2>1, <2>4, <2>5 DEF Result
<1>2. ASSUME DereferenceResult(t) # Illegal
      PROVE  /\ IsResult(DereferenceResult(t), 1) /\ DereferenceResult(t).type \in LvalueType
             /\ Kind(t) = "pointer"
  <2>1. Kind(t) = "pointer" /\ DereferenceResult(t) = Result(Inner(t), <<NoType>>)
    BY <1>2 DEF DereferenceResult
  <2>2. PICK e \in LvalueType : e = Inner(t)
    BY <2>1, TypeShape
  <2>3. IsResult(Result(e, <<NoType>>), 1) /\ Result(e, <<NoType>>).type = e
    BY ResultIs, CastTypes DEF LvalueType, Result
  <2> QED BY <2>1, <2>2, <2>3
<1>3. IsResult(Result(FieldType, <<NoType>>), 1) /\ Result(FieldType, <<NoType>>).type \in LvalueType
  BY ResultIs, NamedTypes, CastTypes DEF Result
<1>4. /\ DotResult(t) \in {Illegal, Result(FieldType, <<NoType>>)}
      /\ ArrowResult(t) \in {Illegal, Result(FieldType, <<NoType>>)}
  BY DEF DotResult, ArrowResult
<1> QED BY <1>1, <1>2, <1>3, <1>4

IsRule(op, ts, r) ==
  /\ IsResult(r, Arity(op))
  /\ op \in {"index", "dereference", ".", "->"} => r.type \in LvalueType
  /\ op = "dereference" => Kind(ts[1]) = "pointer"
  /\ op = "=" => ts[2] # VoidType
  /\ op = "?:" /\ r.type # VoidType => ts[2] # VoidType /\ ts[3] # VoidType

LEMMA RulesGiveTypes ==
  ASSUME NEW op \in Operator, NEW ts, \A k \in 1..Arity(op) : ts[k] \in Type,
         ResultOf(op, ts) # Illegal, op = "reference" => ts[1] \in LvalueType
  PROVE  IsRule(op, ts, ResultOf(op, ts))
<1>1. CASE op \in {"*", "+", "-", "=", "index", "<", "==", "!=", "&&", "||"}
  <2>1. Arity(op) = 2 /\ ts[1] \in Type /\ ts[2] \in Type
    <3>1. Arity(op) = 2
      BY <1>1 DEF Arity, Prefix
    <3> QED BY <3>1
  <2>2. CASE op \in {"*", "+", "-"}
    BY <2>1, <2>2, BinaryResults DEF ResultOf, IsRule
  <2>3. CASE op \in {"<", "==", "!=", "&&", "||"}
    BY <2>1, <2>3, DecisionResults DEF ResultOf, IsRule
  <2>4. CASE op = "="
    BY <2>1, <2>4, AssignResults DEF ResultOf, IsRule
  <2>5. CASE op = "index"
    BY <2>1, <2>5, LvalueResults DEF ResultOf, IsRule
  <2> QED BY <1>1, <2>2, <2>3, <2>4, <2>5
<1>2. CASE op = "?:"
  <2>1. Arity(op) = 3 /\ ts[1] \in Type /\ ts[2] \in Type /\ ts[3] \in Type
    <3>1. Arity(op) = 3
      BY <1>2 DEF Arity, Prefix
    <3> QED BY <3>1
  <2> QED BY <1>2, <2>1, TernaryResults DEF ResultOf, IsRule
<1>3. CASE op \in Prefix
  <2>1. Arity(op) = 1 /\ ts[1] \in Type
    <3>1. Arity(op) = 1
      BY <1>3 DEF Arity, Prefix
    <3> QED BY <3>1
  <2>2. CASE op \in {"negation", "not", "sizeof", "apply", "reference"}
    BY <2>1, <2>2, UnaryResults DEF ResultOf, IsRule
  <2>3. CASE op \in {"dereference", ".", "->"}
    BY <2>1, <2>3, LvalueResults DEF ResultOf, IsRule
  <2> QED BY <1>3, <2>2, <2>3 DEF Prefix
<1> QED BY <1>1, <1>2, <1>3 DEF Operator, Comparison, Branching, Logical

(***************************************************************************)
(* The nodes, and which of them are lvalues.                               *)
(***************************************************************************)
\* Node x at place n.
Fits(x, n) ==
  /\ x.op \in Operator => Len(x.kids) = Arity(x.op) /\ Len(x.casts) = Arity(x.op)
  /\ x.op \notin Operator => x.kids = <<>>
  /\ x.op = "constant" => x.of \in Constant
  /\ \A k \in 1..Len(x.kids) : x.kids[k] \in 1..(n - 1)
  /\ x.op \in {"variable", "dereference", "index", ".", "->"} \/ x.of = "string" =>
       x.type \in LvalueType
  /\ x.op \in {"reference", "="} => IsLvalue[x.kids[1]]
  /\ x.op = "dereference" => Kind(nodes[x.kids[1]].type) = "pointer"
  /\ x.op = "=" => nodes[x.kids[2]].type # VoidType
  /\ x.op = "?:" /\ x.type # VoidType =>
       nodes[x.kids[2]].type # VoidType /\ nodes[x.kids[3]].type # VoidType

NodesInv ==
  /\ nodes \in Seq(Node)
  /\ \A n \in 1..Len(nodes) : Fits(nodes[n], n)

\* The operands alone, which is what the recursion of IsLvalue is about.
OperandsInFront ==
  /\ nodes \in Seq(Node)
  /\ \A n \in 1..Len(nodes) : nodes[n].op = "." => nodes[n].kids[1] \in 1..(n - 1)

\* The least set that is closed under the rules of isLvalue.
IsPlainLvalue(n) ==
  nodes[n].op \in {"variable", "dereference", "index", "->"} \/ nodes[n].of = "string"
FollowsFrom(n, S) == IsPlainLvalue(n) \/ (nodes[n].op = "." /\ nodes[n].kids[1] \in S)
IsClosedUnder(S) == \A n \in 1..Len(nodes) : FollowsFrom(n, S) => n \in S
Lvalues == {n \in 1..Len(nodes) : \A S \in SUBSET (1..Len(nodes)) : IsClosedUnder(S) => n \in S}

LEMMA LvaluesFollow ==
  ASSUME NEW n \in 1..Len(nodes), nodes \in Seq(Node)
  PROVE  n \in Lvalues <=> FollowsFrom(n, Lvalues)
<1>1. Lvalues \subseteq 1..Len(nodes)
  BY DEF Lvalues
<1>2. ASSUME NEW S \in SUBSET (1..Len(nodes)), IsClosedUnder(S) PROVE Lvalues \subseteq S
  BY <1>2 DEF Lvalues
<1>3. ASSUME NEW m \in 1..Len(nodes), FollowsFrom(m, Lvalues) PROVE m \in Lvalues
  <2> SUFFICES ASSUME NEW S \in SUBSET (1..Len(nodes)), IsClosedUnder(S) PROVE m \in S
    BY DEF Lvalues
  <2>1. FollowsFrom(m, S)
    BY <1>2, <1>3 DEF FollowsFrom
  <2> QED BY <2>1 DEF IsClosedUnder
<1>4. ASSUME n \in Lvalues, ~FollowsFrom(n, Lvalues) PROVE FALSE
  <2> DEFINE S == Lvalues \ {n}
  <2>1. IsClosedUnder(S)
    <3> SUFFICES ASSUME NEW m \in 1..Len(nodes), FollowsFrom(m, S) PROVE m \in S
      BY DEF IsClosedUnder
    <3>1. FollowsFrom(m, Lvalues)
      BY DEF FollowsFrom
    <3> QED BY <1>3, <1>4, <3>1
  <2>2. S \in SUBSET (1..Len(nodes))
    BY <1>1
  <2> QED BY <1>2, <1>4, <2>1, <2>2
<1> QED BY <1>3, <1>4

LEMMA LvalueEquation ==
  OperandsInFront =>
    \A n \in 1..Len(nodes) :
      IsLvalue[n] <=> IsPlainLvalue(n) \/ (nodes[n].op = "." /\ IsLvalue[nodes[n].kids[1]])
<1> SUFFICES ASSUME OperandsInFront
             PROVE  \A n \in 1..Len(nodes) :
                      IsLvalue[n] <=> IsPlainLvalue(n)
                                        \/ (nodes[n].op = "." /\ IsLvalue[nodes[n].kids[1]])
  OBVIOUS
<1> DEFINE Unfold(h) == [n \in 1..Len(nodes) |->
             \/ nodes[n].op \in {"variable", "dereference", "index", "->"} \/ nodes[n].of = "string"
             \/ nodes[n].op = "." /\ h[nodes[n].kids[1]]]
<1> DEFINE Rule(h, n) ==
             \/ nodes[n].op \in {"variable", "dereference", "index", "->"} \/ nodes[n].of = "string"
             \/ nodes[n].op = "." /\ h[nodes[n].kids[1]]
           g == [n \in 1..Len(nodes) |-> IF n \in Lvalues THEN TRUE ELSE FALSE]
<1>1. ASSUME NEW n \in 1..Len(nodes) PROVE g[n] = Rule(g, n)
  <2>1. n \in Lvalues <=> FollowsFrom(n, Lvalues)
    BY LvaluesFollow DEF OperandsInFront
  <2>2. nodes[n].op = "." => (g[nodes[n].kids[1]] <=> nodes[n].kids[1] \in Lvalues)
    <3>1. nodes[n].op = "." => nodes[n].kids[1] \in 1..Len(nodes)
      BY DEF OperandsInFront
    <3> QED BY <3>1
  <2>3. g[n] = IF n \in Lvalues THEN TRUE ELSE FALSE
    OBVIOUS
  <2> HIDE DEF g
  <2>4. n \in Lvalues <=> Rule(g, n)
    BY <2>1, <2>2 DEF FollowsFrom, IsPlainLvalue
  <2>5. CASE n \in Lvalues
    <3>1. g[n] = TRUE
      BY <2>3, <2>5
    <3>2. Rule(g, n) = TRUE
      BY <2>4, <2>5
    <3> QED BY <3>1, <3>2
  <2>6. CASE n \notin Lvalues
    <3>1. g[n] = FALSE
      BY <2>3, <2>6
    <3>2. Rule(g, n) = FALSE
      BY <2>4, <2>6
    <3> QED BY <3>1, <3>2
  <2> QED BY <2>5, <2>6
<1>2. g = Unfold(g)
  BY <1>1
<1> HIDE DEF g
<1>3. IsLvalue = CHOOSE f : f = Unfold(f)
  BY DEF IsLvalue
<1>4. IsLvalue = Unfold(IsLvalue)
  BY <1>2, <1>3
<1> QED BY <1>4 DEF IsPlainLvalue

LEMMA LvalueEquationNext ==
  OperandsInFront' =>
    (\A n \in 1..Len(nodes) :
      IsLvalue[n] <=> IsPlainLvalue(n) \/ (nodes[n].op = "." /\ IsLvalue[nodes[n].kids[1]]))'
<1>1. OperandsInFront =>
    \A n \in 1..Len(nodes) :
      IsLvalue[n] <=> IsPlainLvalue(n) \/ (nodes[n].op = "." /\ IsLvalue[nodes[n].kids[1]])
  BY LvalueEquation
<1> QED BY <1>1, PTL

LEMMA Least ==
  ASSUME NEW T \in SUBSET Nat, T # {}
  PROVE  \E m \in T : \A k \in T : m <= k
<1>1. IsWellFoundedOn(OpToRel(<, Nat), Nat)
  BY NatLessThanWellFounded
<1>2. PICK m \in T : \A k \in T : ~ (<<k, m>> \in OpToRel(<, Nat))
  BY <1>1, WFMin
<1>3. \A k \in T : ~(k < m)
  BY <1>2 DEF OpToRel
<1> QED BY <1>3

\* A new node does not change what the nodes in front of it are.
LEMMA LvaluesKept ==
  ASSUME OperandsInFront, OperandsInFront', NEW x \in Node, nodes' = Append(nodes, x),
         NEW n \in 1..Len(nodes)
  PROVE  IsLvalue'[n] <=> IsLvalue[n]
<1> DEFINE T == {m \in 1..Len(nodes) : ~(IsLvalue'[m] <=> IsLvalue[m])}
<1>1. \A m \in 1..Len(nodes) : nodes'[m] = nodes[m] /\ m \in 1..Len(nodes') /\ m \in Nat
  BY DEF OperandsInFront
<1>2. ASSUME NEW m \in T, \A k \in T : m <= k PROVE FALSE
  <2>1. IsLvalue[m] <=> IsPlainLvalue(m) \/ (nodes[m].op = "." /\ IsLvalue[nodes[m].kids[1]])
    BY LvalueEquation
  <2>2. IsLvalue'[m] <=> IsPlainLvalue(m) \/ (nodes[m].op = "." /\ IsLvalue'[nodes[m].kids[1]])
    <3>1. IsLvalue'[m] <=> IsPlainLvalue(m)' \/ (nodes'[m].op = "." /\ IsLvalue'[nodes'[m].kids[1]])
      BY <1>1, LvalueEquationNext
    <3> QED BY <1>1, <3>1 DEF IsPlainLvalue
  <2>3. CASE nodes[m].op = "."
    <3>1. PICK k \in 1..(m - 1) : k = nodes[m].kids[1]
      BY <2>3 DEF OperandsInFront
    <3>2. k \in 1..Len(nodes) /\ k \notin T
      BY <1>1, <1>2
    <3> QED BY <2>1, <2>2, <3>1, <3>2
  <2> QED BY <2>1, <2>2, <2>3
<1>3. CASE T = {}
  BY <1>3
<1>4. CASE T # {}
  <2>1. T \in SUBSET Nat
    BY <1>1
  <2> HIDE DEF T
  <2> QED BY <1>2, <1>4, <2>1, Least
<1> QED BY <1>3, <1>4

LEMMA Arities ==
  /\ \A op \in Operator : Arity(op) \in 1..3
  /\ \A op \in {".", "->", "reference", "dereference", "sizeof", "not", "negation", "apply"} :
       op \in Operator /\ Arity(op) = 1
  /\ \A op \in {"=", "index", "*", "+", "-", "<", "==", "!=", "&&", "||"} :
       op \in Operator /\ Arity(op) = 2
  /\ "?:" \in Operator /\ Arity("?:") = 3
BY DEF Arity, Prefix, Operator, Comparison, Branching, Logical

LEMMA OperandsAreInFront ==
  ASSUME NodesInv
  PROVE  OperandsInFront
<1>1. ASSUME NEW m \in 1..Len(nodes), nodes[m].op = "." PROVE nodes[m].kids[1] \in 1..(m - 1)
  <2>1. Len(nodes[m].kids) = 1
    BY <1>1, Arities DEF NodesInv, Fits
  <2> QED BY <2>1 DEF NodesInv, Fits
<1> QED BY <1>1 DEF OperandsInFront, NodesInv

LEMMA LvaluesHaveTypes ==
  ASSUME NodesInv, NEW n \in 1..Len(nodes), IsLvalue[n]
  PROVE  nodes[n].type \in LvalueType
<1>1. IsPlainLvalue(n) \/ nodes[n].op = "."
  BY OperandsAreInFront, LvalueEquation
<1> QED BY <1>1 DEF NodesInv, Fits, IsPlainLvalue

LEMMA FittingNode ==
  ASSUME NodesInv, NEW x \in Node, nodes' = Append(nodes, x), Fits(x, Len(nodes) + 1)
  PROVE  NodesInv'
<1>1. /\ nodes \in Seq(Node) /\ Len(nodes) \in Nat
      /\ nodes' \in Seq(Node) /\ Len(nodes') = Len(nodes) + 1
      /\ \A m \in 1..Len(nodes) : nodes'[m] = nodes[m]
      /\ nodes'[Len(nodes) + 1] = x
  BY DEF NodesInv
<1>2. OperandsInFront /\ OperandsInFront'
  <2>1. OperandsInFront
    BY OperandsAreInFront
  <2>2. x.op = "." => x.kids[1] \in 1..Len(nodes)
    <3>1. x.op = "." => Len(x.kids) = 1
      BY Arities DEF Fits
    <3> QED BY <1>1, <3>1 DEF Fits
  <2> QED BY <1>1, <2>1, <2>2 DEF OperandsInFront
<1>3. ASSUME NEW y \in Node, NEW n \in 1..(Len(nodes) + 1), Fits(y, n)
      PROVE  Fits(y, n)'
  <2>1. \A k \in 1..Len(y.kids) : y.kids[k] \in 1..Len(nodes)
    BY <1>1, <1>3 DEF Fits
  <2>2. ASSUME y.op \in {"reference", "="} PROVE IsLvalue'[y.kids[1]]
    <3>1. 1 \in 1..Len(y.kids)
      BY <1>3, <2>2, Arities DEF Fits
    <3> QED BY <1>1, <1>2, <1>3, <2>1, <2>2, <3>1, LvaluesKept DEF Fits
  <2>3. ASSUME NEW k \in 1..3, y.op \in Operator, k <= Arity(y.op)
        PROVE  nodes'[y.kids[k]] = nodes[y.kids[k]]
    <3>1. k \in 1..Len(y.kids)
      BY <1>3, <2>3, Arities DEF Fits
    <3> QED BY <1>1, <2>1, <3>1
  <2>4. y.op = "dereference" => Kind(nodes'[y.kids[1]].type) = "pointer"
    BY <1>3, <2>3, Arities DEF Fits
  <2>5. y.op = "=" => nodes'[y.kids[2]].type # VoidType
    BY <1>3, <2>3, Arities DEF Fits
  <2>6. y.op = "?:" /\ y.type # VoidType =>
          nodes'[y.kids[2]].type # VoidType /\ nodes'[y.kids[3]].type # VoidType
    BY <1>3, <2>3, Arities DEF Fits
  <2> QED BY <1>3, <2>2, <2>4, <2>5, <2>6 DEF Fits
<1>4. ASSUME NEW n \in 1..(Len(nodes) + 1)
      PROVE  \E y \in Node : y = nodes'[n] /\ Fits(y, n)'
  <2>1. CASE n = Len(nodes) + 1
    BY <1>1, <1>3, <2>1
  <2>2. CASE n # Len(nodes) + 1
    <3>1. n \in 1..Len(nodes) /\ nodes'[n] = nodes[n] /\ nodes[n] \in Node
      BY <1>1, <2>2
    <3>2. PICK y \in Node : y = nodes[n]
      BY <3>1
    <3>3. Fits(y, n)
      BY <3>1, <3>2 DEF NodesInv
    <3> QED BY <1>3, <3>1, <3>2, <3>3
  <2> QED BY <2>1, <2>2
<1>5. ASSUME NEW n \in 1..(Len(nodes) + 1) PROVE Fits(nodes[n], n)'
  <2>1. PICK y \in Node : y = nodes'[n] /\ Fits(y, n)'
    BY <1>4
  <2> QED BY <2>1 DEF Fits
<1> QED BY <1>1, <1>5 DEF NodesInv

(***************************************************************************)
(* The code under construction.                                            *)
(***************************************************************************)
Ir == [regs : Seq(Instruction), blocks : Seq(Block), at : Nat]

Preds(g, b) == {p \in 1..Len(g.blocks) : \E k \in 1..Len(g.blocks[p].to) : g.blocks[p].to[k] = b}
JoinsAll(i, ps) == {i.from[1], i.from[2]} = ps /\ i.from[1] # i.from[2]

CodeOK(g, b) ==
  /\ \A k \in 1..Len(g.blocks[b].code) :
       /\ g.blocks[b].code[k] \in 1..Len(g.regs)
       /\ g.regs[g.blocks[b].code[k]].op = "phi" =>
            JoinsAll(g.regs[g.blocks[b].code[k]], Preds(g, b))
  /\ \A k \in 1..Len(g.blocks[b].to) : g.blocks[b].to[k] \in 1..Len(g.blocks)

IrOK(g) ==
  /\ g \in Ir /\ g.at \in 1..Len(g.blocks) /\ g.blocks[g.at].to = <<>>
  /\ \A b \in 1..Len(g.blocks) : CodeOK(g, b)

\* Instructions were added to the block of the insert point.
Extends(g, h) ==
  /\ IrOK(h) /\ h.at = g.at /\ Len(h.blocks) = Len(g.blocks)
  /\ Len(g.regs) <= Len(h.regs) /\ \A r \in 1..Len(g.regs) : h.regs[r] = g.regs[r]
  /\ \A b \in 1..Len(g.blocks) :
       h.blocks[b].to = g.blocks[b].to /\ (b # g.at => h.blocks[b] = g.blocks[b])

LEMMA ExtendsItself ==
  ASSUME NEW g, IrOK(g)
  PROVE  Extends(g, g)
BY DEF Extends, IrOK, Ir

LEMMA ExtendsTwice ==
  ASSUME NEW f, NEW g, NEW h, IrOK(f), Extends(f, g), Extends(g, h)
  PROVE  Extends(f, h)
<1>1. Len(f.regs) \in Nat /\ Len(g.regs) \in Nat /\ Len(h.regs) \in Nat
  BY DEF Extends, IrOK, Ir
<1> QED BY <1>1 DEF Extends

LEMMA ExtendsPreds ==
  ASSUME NEW g, NEW h, Extends(g, h), NEW b
  PROVE  Preds(h, b) = Preds(g, b)
BY DEF Extends, Preds

LEMMA Emitted ==
  ASSUME NEW g \in Ir, g.at \in 1..Len(g.blocks), NEW i \in Instruction
  PROVE  /\ Emit(g, i) \in Ir /\ Len(Emit(g, i).regs) = Len(g.regs) + 1
         /\ Len(g.regs) \in Nat
         /\ \A r \in 1..Len(g.regs) : Emit(g, i).regs[r] = g.regs[r]
         /\ Emit(g, i).regs[Len(g.regs) + 1] = i
         /\ Emit(g, i).at = g.at /\ Len(Emit(g, i).blocks) = Len(g.blocks)
         /\ \A b \in 1..Len(g.blocks) : b # g.at => Emit(g, i).blocks[b] = g.blocks[b]
         /\ Emit(g, i).blocks[g.at].to = g.blocks[g.at].to
         /\ Emit(g, i).blocks[g.at].code = Append(g.blocks[g.at].code, Len(g.regs) + 1)
<1>1. g.regs \in Seq(Instruction) /\ g.blocks \in Seq(Block) /\ g.blocks[g.at] \in Block
  BY DEF Ir
<1>2. PICK n \in Nat : n = Len(g.regs)
  BY <1>1
<1>3. PICK regs \in Seq(Instruction) : regs = Append(g.regs, i)
  <2>1. Append(g.regs, i) \in Seq(Instruction)
    BY <1>1
  <2> QED BY <2>1
<1>4. Len(regs) = n + 1 /\ regs[n + 1] = i /\ \A r \in 1..n : regs[r] = g.regs[r]
  BY <1>1, <1>2, <1>3
<1>5. PICK block \in Block : block = [g.blocks[g.at] EXCEPT !.code = Append(@, n + 1)]
  <2>1. g.blocks[g.at].code \in Seq(Nat)
    BY <1>1 DEF Block
  <2>2. Append(g.blocks[g.at].code, n + 1) \in Seq(Nat)
    BY <2>1
  <2>3. [g.blocks[g.at] EXCEPT !.code = Append(g.blocks[g.at].code, n + 1)] \in Block
    BY <1>1, <2>2 DEF Block
  <2> QED BY <2>3
<1>6. block.to = g.blocks[g.at].to /\ block.code = Append(g.blocks[g.at].code, n + 1)
  BY <1>1, <1>5 DEF Block
<1>7. PICK blocks \in Seq(Block) : blocks = [g.blocks EXCEPT ![g.at] = block]
  <2>1. [g.blocks EXCEPT ![g.at] = block] \in Seq(Block)
    BY <1>1
  <2> QED BY <2>1
<1>8. /\ Len(blocks) = Len(g.blocks) /\ blocks[g.at] = block
      /\ \A b \in 1..Len(g.blocks) : b # g.at => blocks[b] = g.blocks[b]
  BY <1>1, <1>7
<1>9. Emit(g, i) = [g EXCEPT !.regs = regs, !.blocks = blocks]
  BY <1>2, <1>3, <1>5, <1>7 DEF Emit, Latest
<1>10. /\ Emit(g, i) \in Ir /\ Emit(g, i).regs = regs /\ Emit(g, i).blocks = blocks
       /\ Emit(g, i).at = g.at
  BY <1>9 DEF Ir
<1> QED BY <1>2, <1>4, <1>6, <1>8, <1>10

LEMMA EmitExtends ==
  ASSUME NEW g, IrOK(g), NEW i \in Instruction,
         i.op = "phi" => JoinsAll(i, Preds(g, g.at))
  PROVE  /\ Extends(g, Emit(g, i))
         /\ Latest(g) \in Nat /\ Latest(Emit(g, i)) = Latest(g) + 1
<1>0. PICK h : h = Emit(g, i)
  OBVIOUS
<1>1. /\ h \in Ir /\ Len(h.regs) = Len(g.regs) + 1 /\ Len(g.regs) \in Nat
      /\ \A r \in 1..Len(g.regs) : h.regs[r] = g.regs[r]
      /\ h.regs[Len(g.regs) + 1] = i
      /\ h.at = g.at /\ Len(h.blocks) = Len(g.blocks)
      /\ \A b \in 1..Len(g.blocks) : b # g.at => h.blocks[b] = g.blocks[b]
      /\ h.blocks[g.at].to = g.blocks[g.at].to
      /\ h.blocks[g.at].code = Append(g.blocks[g.at].code, Len(g.regs) + 1)
  BY ZenonT(40), <1>0, Emitted DEF IrOK
<1>2. \A b \in 1..Len(g.blocks) : h.blocks[b].to = g.blocks[b].to
  BY <1>1
<1>3. Len(h.regs) = Len(g.regs) + 1 /\ Len(g.regs) \in Nat
  BY <1>1
<1>4. /\ Len(g.regs) + 1 \in 1..Len(h.regs) /\ Len(g.regs) <= Len(h.regs)
      /\ \A r \in 1..Len(g.regs) : r \in 1..Len(h.regs)
  BY <1>3
<1>5. \A r \in 1..Len(g.regs) : h.regs[r] = g.regs[r] /\ r \in 1..Len(h.regs)
  BY <1>1, <1>4
<1>6. \A b : Preds(h, b) = Preds(g, b)
  BY <1>1, <1>2 DEF Preds
<1>7. ASSUME NEW b \in 1..Len(g.blocks) PROVE CodeOK(h, b)
  <2>1. CodeOK(g, b)
    BY DEF IrOK
  <2>2. \A k \in 1..Len(h.blocks[b].to) : h.blocks[b].to[k] \in 1..Len(h.blocks)
    BY <1>1, <1>2, <2>1 DEF CodeOK
  <2>3. CASE b # g.at
    <3>1. h.blocks[b] = g.blocks[b]
      BY <1>1, <2>3
    <3>2. ASSUME NEW k \in 1..Len(g.blocks[b].code)
          PROVE  /\ g.blocks[b].code[k] \in 1..Len(h.regs)
                 /\ h.regs[g.blocks[b].code[k]] = g.regs[g.blocks[b].code[k]]
      <4>1. PICK r \in 1..Len(g.regs) : r = g.blocks[b].code[k]
        BY <2>1 DEF CodeOK
      <4>2. r \in 1..Len(h.regs) /\ h.regs[r] = g.regs[r]
        BY <1>5
      <4> QED BY <4>1, <4>2
    <3> QED BY <1>6, <2>1, <2>2, <3>1, <3>2 DEF CodeOK
  <2>4. CASE b = g.at
    <3>1. g.blocks[b].code \in Seq(Nat)
      <4>1. g.blocks[b] \in Block
        BY DEF IrOK, Ir
      <4> QED BY <4>1 DEF Block
    <3>2. PICK c \in Seq(Nat) : c = g.blocks[b].code
      BY <3>1
    <3>3. h.blocks[b].code = Append(c, Len(g.regs) + 1)
      BY <1>1, <2>4, <3>2
    <3>4. /\ Len(Append(c, Len(g.regs) + 1)) = Len(c) + 1
          /\ \A k \in 1..Len(c) : Append(c, Len(g.regs) + 1)[k] = c[k]
          /\ Append(c, Len(g.regs) + 1)[Len(c) + 1] = Len(g.regs) + 1
      BY <1>3
    <3>5. ASSUME NEW k \in 1..(Len(c) + 1)
          PROVE  /\ h.blocks[b].code[k] \in 1..Len(h.regs)
                 /\ h.regs[h.blocks[b].code[k]].op = "phi" =>
                      JoinsAll(h.regs[h.blocks[b].code[k]], Preds(h, b))
      <4>1. CASE k = Len(c) + 1
        <5>1. h.blocks[b].code[k] = Len(g.regs) + 1
          BY <3>3, <3>4, <4>1
        <5>2. Preds(h, b) = Preds(g, g.at)
          BY <1>6, <2>4
        <5>3. h.regs[h.blocks[b].code[k]] = i /\ Len(g.regs) + 1 \in 1..Len(h.regs)
          BY <1>1, <1>4, <5>1
        <5> QED BY <5>1, <5>2, <5>3
      <4>2. CASE k # Len(c) + 1
        <5>1. k \in 1..Len(c)
          BY <4>2
        <5>2. h.blocks[b].code[k] = c[k] /\ c[k] \in 1..Len(g.regs)
          BY <2>1, <3>2, <3>3, <3>4, <5>1 DEF CodeOK
        <5>3. PICK r \in 1..Len(g.regs) : r = c[k]
          BY <5>2
        <5>4. h.regs[r] = g.regs[r] /\ r \in 1..Len(h.regs)
          BY <1>5
        <5>5. g.regs[r].op = "phi" => JoinsAll(g.regs[r], Preds(g, b))
          BY <2>1, <3>2, <5>1, <5>3 DEF CodeOK
        <5> QED BY <1>6, <5>2, <5>3, <5>4, <5>5
      <4> QED BY <4>1, <4>2
    <3> QED BY <2>2, <3>3, <3>4, <3>5 DEF CodeOK
  <2> QED BY <2>3, <2>4
<1>8. IrOK(h)
  BY <1>1, <1>7 DEF IrOK
<1>9. Extends(g, h)
  BY <1>1, <1>2, <1>8, <1>4 DEF Extends
<1> QED BY <1>0, <1>3, <1>9 DEF Latest

LEMMA LlvmTypes ==
  /\ LlvmInt \subseteq LlvmType /\ {"ptr", "struct", "void"} \subseteq LlvmType
  /\ \A t \in Type : ToLlvm(t) \in LlvmType
<1>1. \A t \in Type : Kind(t) \in TypeKind
  BY TypeShape
<1>2. \A t \in Type : ToLlvm(t) \in {"i32", "i8", "ptr", "void", "struct"}
  BY <1>1 DEF ToLlvm, TypeKind
<1> QED BY <1>2 DEF LlvmType, LlvmInt

LEMMA InstrIs ==
  ASSUME NEW op \in OpCode, NEW type \in LlvmType, NEW args \in Seq(Nat)
  PROVE  /\ Instr(op, type, args) \in Instruction /\ Instr(op, type, args).op = op
         /\ \A x \in Variable \cup Constant \cup LlvmType \cup TypeKind \cup {"none"} :
              /\ Of(Instr(op, type, args), x) \in Instruction
              /\ Of(Instr(op, type, args), x).op = op
<1>1. <<>> \in Seq(Nat)
  OBVIOUS
<1>2. Instr(op, type, args) \in Instruction
  BY <1>1 DEF Instr, Instruction
<1> QED BY <1>2 DEF Instr, Instruction, Of

LEMMA PhiIs ==
  ASSUME NEW type \in LlvmType, NEW l \in Nat, NEW r \in Nat, NEW p \in Nat, NEW q \in Nat
  PROVE  /\ Phi(type, <<l, r>>, <<p, q>>) \in Instruction
         /\ Phi(type, <<l, r>>, <<p, q>>).from[1] = p /\ Phi(type, <<l, r>>, <<p, q>>).from[2] = q
<1>1. /\ <<l, r>> \in Seq(Nat) /\ <<p, q>> \in Seq(Nat)
      /\ <<p, q>>[1] = p /\ <<p, q>>[2] = q
  OBVIOUS
<1>2. "phi" \in OpCode
  BY DEF OpCode
<1>3. PICK a \in Seq(Nat) : a = <<l, r>>
  BY <1>1
<1>4. PICK b \in Seq(Nat) : b = <<p, q>>
  BY <1>1
<1>5. /\ Phi(type, a, b) \in Instruction /\ Phi(type, a, b).from = b
  <2>1. Instr("phi", type, a) \in Instruction
    BY <1>2, InstrIs
  <2> QED BY <2>1 DEF Phi, Instruction
<1> QED BY <1>1, <1>3, <1>4, <1>5

(***************************************************************************)
(* A register that is converted stays a register.                          *)
(***************************************************************************)
IsConversion(g, h, r) ==
  /\ Extends(g, h)
  /\ Converted(g, h, r) \in 0..Latest(h)
  /\ Converted(g, h, r) = 0 => r = 0

LEMMA Conversion ==
  ASSUME NEW g, IrOK(g), NEW r \in 0..Latest(g), NEW h,
         h = g \/ \E i \in Instruction : i.op # "phi" /\ h = Emit(g, i)
  PROVE  IsConversion(g, h, r)
<1>1. CASE h = g
  BY <1>1, ExtendsItself DEF IsConversion, Converted
<1>2. ASSUME NEW i \in Instruction, i.op # "phi", h = Emit(g, i)
      PROVE  IsConversion(g, h, r)
  <2>1. Extends(g, h) /\ Latest(g) \in Nat /\ Latest(h) = Latest(g) + 1
    BY <1>2, EmitExtends
  <2>2. h # g
    BY <2>1
  <2>3. Converted(g, h, r) = Latest(h)
    BY <2>2 DEF Converted
  <2> QED BY <2>1, <2>3 DEF IsConversion
<1> QED BY <1>1, <1>2

LEMMA CastConverts ==
  ASSUME NEW g, IrOK(g), NEW r \in 0..Latest(g), NEW from, NEW to \in CastTarget
  PROVE  IsConversion(g, Cast(g, r, from, to), r)
<1>1. CASE to = NoType
  <2>1. Cast(g, r, from, to) = g
    <3>1. Kind(to) = "none"
      BY <1>1, BaseTypes
    <3> QED BY <1>1, <3>1 DEF Cast, IsInteger, IsPointer
  <2> QED BY <2>1, Conversion
<1>2. CASE to # NoType
  <2>1. ToLlvm(to) \in LlvmType
    BY <1>2, LlvmTypes DEF CastTarget
  <2>2. PICK a \in Seq(Nat) : a = <<r>>
    <3>1. r \in Nat
      OBVIOUS
    <3>2. <<r>> \in Seq(Nat)
      BY <3>1
    <3> QED BY <3>2
  <2>3. \A op \in {"intcast", "inttoptr", "ptrtoint"} :
          Instr(op, ToLlvm(to), <<r>>) \in Instruction /\ Instr(op, ToLlvm(to), <<r>>).op # "phi"
    <3>1. \A op \in {"intcast", "inttoptr", "ptrtoint"} : op \in OpCode /\ op # "phi"
      BY DEF OpCode
    <3>2. \A op \in {"intcast", "inttoptr", "ptrtoint"} :
            Instr(op, ToLlvm(to), a) \in Instruction /\ Instr(op, ToLlvm(to), a).op # "phi"
      BY <2>1, <3>1, InstrIs
    <3> QED BY <2>2, <3>2
  <2>4. \/ Cast(g, r, from, to) = g
        \/ \E op \in {"intcast", "inttoptr", "ptrtoint"} :
             Cast(g, r, from, to) = Emit(g, Instr(op, ToLlvm(to), <<r>>))
    BY DEF Cast
  <2>5. \/ Cast(g, r, from, to) = g
        \/ \E i \in Instruction : i.op # "phi" /\ Cast(g, r, from, to) = Emit(g, i)
    BY <2>3, <2>4
  <2> QED BY <2>5, Conversion
<1> QED BY <1>1, <1>2

LEMMA ToBoolConverts ==
  ASSUME NEW g, IrOK(g), NEW r \in 0..Latest(g)
  PROVE  IsConversion(g, ToBool(g, r), r)
<1>1. PICK a \in Seq(Nat) : a = <<r>>
  <2>1. r \in Nat
    OBVIOUS
  <2>2. <<r>> \in Seq(Nat)
    BY <2>1
  <2> QED BY <2>2
<1>2. Instr("nonzero", "i1", <<r>>) \in Instruction /\ Instr("nonzero", "i1", <<r>>).op # "phi"
  <2>1. "nonzero" \in OpCode /\ "i1" \in LlvmType
    BY DEF OpCode, LlvmType, LlvmInt
  <2>2. Instr("nonzero", "i1", a) \in Instruction /\ Instr("nonzero", "i1", a).op # "phi"
    BY <2>1, InstrIs
  <2> QED BY <1>1, <2>2
<1>3. ToBool(g, r) = g \/ ToBool(g, r) = Emit(g, Instr("nonzero", "i1", <<r>>))
  BY DEF ToBool
<1> QED BY <1>2, <1>3, Conversion

(***************************************************************************)
(* The block of the insert point ends; what follows begins in block "at",  *)
(* which is new or was reserved.                                           *)
(***************************************************************************)
IsTarget(to, b) == \E k \in 1..Len(to) : to[k] = b
Branched(g, to, n, at, h) ==
  /\ IrOK(h) /\ h.at = at /\ h.regs = g.regs /\ Len(h.blocks) = Len(g.blocks) + n
  /\ h.blocks[g.at].to = to
  /\ \A b \in 1..Len(g.blocks) : b # g.at => h.blocks[b] = g.blocks[b]
  /\ \A b \in (Len(g.blocks) + 1)..(Len(g.blocks) + n) : h.blocks[b] = EmptyBlock
  /\ \A b : ~IsTarget(to, b) => Preds(h, b) = Preds(g, b)
  /\ \A b : IsTarget(to, b) => Preds(h, b) = Preds(g, b) \cup {g.at}

\* The blocks after a branch to "to", with n more of them.
Rebuilt(g, to, n, at, h) ==
  /\ h \in Ir /\ h.at = at /\ h.regs = g.regs /\ Len(h.blocks) = Len(g.blocks) + n
  /\ h.blocks[g.at].to = to /\ h.blocks[g.at].code = g.blocks[g.at].code
  /\ \A p \in 1..Len(g.blocks) : p # g.at => h.blocks[p] = g.blocks[p]
  /\ \A p \in 1..(Len(g.blocks) + n) : p \notin 1..Len(g.blocks) => h.blocks[p] = EmptyBlock

LEMMA BlocksEnd ==
  ASSUME NEW g, IrOK(g), NEW cond \in Nat, NEW to \in Seq(Nat), NEW n \in Nat,
         NEW at \in 1..(Len(g.blocks) + n),
         NEW added \in Seq({EmptyBlock}), Len(added) = n,
         NEW h, h = [regs |-> g.regs,
                     blocks |-> [g.blocks EXCEPT ![g.at].cond = cond, ![g.at].to = to] \o added, at |-> at]
  PROVE  Rebuilt(g, to, n, at, h)
<1>1. /\ g.blocks \in Seq(Block) /\ g.at \in 1..Len(g.blocks) /\ g.blocks[g.at] \in Block
  BY DEF IrOK, Ir
<1>2. EmptyBlock \in Block
  BY DEF EmptyBlock, Block
<1>3. PICK x \in Block : x = [g.blocks[g.at] EXCEPT !.cond = cond, !.to = to]
  <2>1. [g.blocks[g.at] EXCEPT !.cond = cond, !.to = to] \in Block
    BY <1>1 DEF Block
  <2> QED BY <2>1
<1>4. x.to = to /\ x.code = g.blocks[g.at].code
  BY <1>1, <1>3 DEF Block
<1>5. PICK ended \in Seq(Block) : ended = [g.blocks EXCEPT ![g.at] = x]
  <2>1. [g.blocks EXCEPT ![g.at] = x] \in Seq(Block)
    BY <1>1
  <2> QED BY <2>1
<1>6. [g.blocks EXCEPT ![g.at].cond = cond, ![g.at].to = to] = ended
  BY <1>1, <1>3, <1>5
<1>7. /\ Len(ended) = Len(g.blocks) /\ ended[g.at] = x
      /\ \A b \in 1..Len(g.blocks) : b # g.at => ended[b] = g.blocks[b]
  BY <1>1, <1>5
<1>8. added \in Seq(Block) /\ \A b \in 1..n : added[b] = EmptyBlock
  BY <1>2
<1>9. PICK blocks \in Seq(Block) : blocks = ended \o added
  <2>1. ended \o added \in Seq(Block)
    BY <1>8
  <2> QED BY <2>1
<1>10. /\ Len(blocks) = Len(ended) + n
       /\ \A b \in 1..Len(ended) : blocks[b] = ended[b]
       /\ \A b \in (Len(ended) + 1)..(Len(ended) + n) : blocks[b] = added[b - Len(ended)]
  <2>1. PICK rest \in Seq(Block) : rest = added
    BY <1>8
  <2>2. PICK d \in Nat : d = Len(ended)
    OBVIOUS
  <2>3. blocks = ended \o rest /\ Len(rest) = n
    BY <1>9, <2>1
  <2>4. Len(ended \o rest) = Len(ended) + Len(rest)
    OBVIOUS
  <2>5. Len(blocks) = d + n /\ Len(rest) = n
    BY <2>2, <2>3, <2>4
  <2>6. \A b \in 1..d : blocks[b] = ended[b]
    BY <2>2, <2>3
  <2>7. \A b \in (d + 1)..(d + n) : blocks[b] = rest[b - d]
    BY <2>2, <2>5, <2>3
  <2> QED BY <2>1, <2>2, <2>5, <2>6, <2>7
<1>11. PICK m \in Nat : m = Len(g.blocks)
  <2>1. Len(g.blocks) \in Nat
    BY <1>1
  <2> QED BY <2>1
<1>12. /\ Len(blocks) = m + n /\ blocks[g.at] = x
       /\ \A p \in 1..m : p # g.at => blocks[p] = g.blocks[p]
       /\ \A p \in 1..(m + n) : p \notin 1..m => blocks[p] = EmptyBlock
  <2>1. ASSUME NEW b \in 1..(m + n), b \notin 1..m PROVE blocks[b] = EmptyBlock
    <3>1. b - m \in 1..n /\ b \in (m + 1)..(m + n)
      BY <2>1
    <3>2. blocks[b] = added[b - m]
      BY <1>7, <1>10, <1>11, <3>1
    <3> QED BY <1>8, <3>1, <3>2
  <2>2. Len(blocks) = m + n /\ blocks[g.at] = x
    BY <1>1, <1>7, <1>10, <1>11
  <2>3. \A b \in 1..m : b # g.at => blocks[b] = g.blocks[b]
    BY <1>7, <1>10, <1>11
  <2> QED BY <2>1, <2>2, <2>3
<1>13. h = [regs |-> g.regs, blocks |-> blocks, at |-> at]
  BY <1>6, <1>9
<1>14. h \in Ir /\ h.blocks = blocks /\ h.at = at /\ h.regs = g.regs
  <2>1. g.regs \in Seq(Instruction) /\ at \in Nat
    BY <1>11 DEF IrOK, Ir
  <2>2. PICK r : r = [regs |-> g.regs, blocks |-> blocks, at |-> at]
    OBVIOUS
  <2>3. r \in Ir /\ r.blocks = blocks /\ r.at = at /\ r.regs = g.regs
    BY <2>1, <2>2 DEF Ir
  <2> QED BY <1>13, <2>2, <2>3
<1> QED BY <1>4, <1>11, <1>12, <1>14 DEF Rebuilt

LEMMA BlocksBranch ==
  ASSUME NEW g, IrOK(g), NEW to \in Seq(Nat), NEW n \in Nat, NEW m \in Nat, m = Len(g.blocks),
         \A k \in 1..Len(to) : to[k] \in 1..(m + n),
         \A b \in 1..m : IsTarget(to, b) => g.blocks[b].code = <<>>,
         NEW at \in 1..(m + n), at # g.at, at \in 1..m => g.blocks[at].to = <<>>,
         NEW h, Rebuilt(g, to, n, at, h)
  PROVE  Branched(g, to, n, at, h)
<1>1. /\ g.at \in 1..m /\ Len(g.blocks[g.at].to) = 0
      /\ EmptyBlock.to = <<>> /\ EmptyBlock.code = <<>> /\ Len(<<>>) = 0
  <2>1. Len(<<>>) = 0
    OBVIOUS
  <2>2. g.blocks[g.at].to = <<>>
    BY DEF IrOK
  <2> QED BY <2>1, <2>2 DEF IrOK, EmptyBlock
<1>2. /\ h \in Ir /\ h.at = at /\ h.regs = g.regs /\ Len(h.blocks) = m + n
      /\ h.blocks[g.at].to = to /\ h.blocks[g.at].code = g.blocks[g.at].code
      /\ \A p \in 1..m : p # g.at => h.blocks[p] = g.blocks[p]
      /\ \A p \in 1..(m + n) : p \notin 1..m => h.blocks[p] = EmptyBlock
  BY DEF Rebuilt
<1>3. ASSUME NEW b
      PROVE  /\ g.at \in Preds(h, b) <=> IsTarget(to, b)
             /\ g.at \notin Preds(g, b)
  <2>1. g.at \in 1..Len(h.blocks)
    BY <1>1, <1>2
  <2>2. g.at \notin Preds(g, b)
    BY <1>1 DEF Preds
  <2> QED BY <1>2, <2>1, <2>2 DEF Preds, IsTarget
<1>4. ASSUME NEW b, NEW p, p # g.at PROVE p \in Preds(h, b) <=> p \in Preds(g, b)
  <2>1. CASE p \in 1..m
    <3>1. h.blocks[p] = g.blocks[p] /\ p \in 1..(m + n)
      BY <1>2, <1>4, <2>1
    <3> QED BY <1>2, <2>1, <3>1 DEF Preds
  <2>2. CASE p \in 1..(m + n) /\ p \notin 1..m
    <3>1. h.blocks[p].to = <<>>
      BY <1>1, <1>2, <2>2
    <3> QED BY <1>1, <1>2, <2>2, <3>1 DEF Preds
  <2>3. CASE p \notin 1..(m + n)
    <3>1. p \notin 1..m
      BY <2>3
    <3> QED BY <1>2, <2>3, <3>1 DEF Preds
  <2> QED BY <2>1, <2>2, <2>3
<1>5. ASSUME NEW b, ~IsTarget(to, b) PROVE Preds(h, b) = Preds(g, b)
  <2>1. \A p : p \in Preds(h, b) <=> p \in Preds(g, b)
    BY <1>3, <1>4, <1>5
  <2> QED BY <2>1 DEF Preds
<1>6. ASSUME NEW b, IsTarget(to, b) PROVE Preds(h, b) = Preds(g, b) \cup {g.at}
  <2>1. \A p : p \in Preds(h, b) <=> p \in Preds(g, b) \cup {g.at}
    BY <1>3, <1>4, <1>6
  <2> QED BY <2>1 DEF Preds
<1>7. ASSUME NEW b \in 1..(m + n) PROVE CodeOK(h, b)
  <2>1. ASSUME b \in 1..m PROVE h.blocks[b].code = g.blocks[b].code
    BY <1>2, <2>1
  <2>2. \A k \in 1..Len(h.blocks[b].to) : h.blocks[b].to[k] \in 1..Len(h.blocks)
    <3>1. CASE b = g.at
      <4>1. h.blocks[b].to = to /\ Len(h.blocks) = m + n
        BY <1>2, <3>1
      <4> QED BY <4>1
    <3>2. CASE b \in 1..m /\ b # g.at
      <4>1. h.blocks[b] = g.blocks[b]
        BY <1>2, <3>2
      <4>2. \A k \in 1..Len(g.blocks[b].to) : g.blocks[b].to[k] \in 1..m
        BY <3>2 DEF IrOK, CodeOK
      <4>3. Len(h.blocks) = m + n
        BY <1>2
      <4>4. \A k \in 1..Len(h.blocks[b].to) : h.blocks[b].to[k] \in 1..m
        BY <4>1, <4>2
      <4>5. \A x \in 1..m : x \in 1..Len(h.blocks)
        BY <4>3
      <4> QED BY <4>4, <4>5
    <3>3. CASE b \notin 1..m
      BY <1>1, <1>2, <3>3
    <3> QED BY <3>1, <3>2, <3>3
  <2>3. CASE b \in 1..m /\ ~IsTarget(to, b)
    <3>1. \A k \in 1..Len(g.blocks[b].code) :
            /\ g.blocks[b].code[k] \in 1..Len(g.regs)
            /\ g.regs[g.blocks[b].code[k]].op = "phi" =>
                 JoinsAll(g.regs[g.blocks[b].code[k]], Preds(g, b))
      BY <2>3 DEF IrOK, CodeOK
    <3>2. h.regs = g.regs /\ Preds(h, b) = Preds(g, b) /\ h.blocks[b].code = g.blocks[b].code
      BY <1>2, <1>5, <2>1, <2>3
    <3>3. \A k \in 1..Len(h.blocks[b].code) :
            /\ h.blocks[b].code[k] \in 1..Len(h.regs)
            /\ h.regs[h.blocks[b].code[k]].op = "phi" =>
                 JoinsAll(h.regs[h.blocks[b].code[k]], Preds(h, b))
      BY <3>1, <3>2
    <3> QED BY <2>2, <3>3 DEF CodeOK
  <2>4. CASE (b \in 1..m /\ IsTarget(to, b)) \/ b \notin 1..m
    <3>1. h.blocks[b].code = <<>>
      BY <1>1, <1>2, <2>1, <2>4
    <3>2. Len(h.blocks[b].code) = 0
      BY <1>1, <3>1
    <3> QED BY <2>2, <3>2 DEF CodeOK
  <2> QED BY <2>3, <2>4
<1>8. h.blocks[at].to = <<>>
  BY <1>1, <1>2
<1>9. IrOK(h)
  BY <1>2, <1>7, <1>8 DEF IrOK
<1>10. \A b \in (m + 1)..(m + n) : h.blocks[b] = EmptyBlock
  <2>1. \A b \in (m + 1)..(m + n) : b \in 1..(m + n) /\ b \notin 1..m
    OBVIOUS
  <2> QED BY <1>2, <2>1
<1> QED BY <1>2, <1>5, <1>6, <1>9, <1>10 DEF Branched

LEMMA EndsWith ==
  ASSUME NEW g, IrOK(g), NEW cond \in Nat, NEW to \in Seq(Nat)
  PROVE  /\ EndWith(g, cond, to) =
              [regs |-> g.regs,
               blocks |-> [g.blocks EXCEPT ![g.at].cond = cond, ![g.at].to = to], at |-> g.at]
         /\ [g.blocks EXCEPT ![g.at].cond = cond, ![g.at].to = to] \in Seq(Block)
<1>1. g = [regs |-> g.regs, blocks |-> g.blocks, at |-> g.at]
  BY DEF IrOK, Ir
<1>2. g.blocks \in Seq(Block) /\ g.at \in 1..Len(g.blocks) /\ g.blocks[g.at] \in Block
  BY DEF IrOK, Ir
<1>3. PICK x \in Block : x = [g.blocks[g.at] EXCEPT !.cond = cond, !.to = to]
  <2>1. [g.blocks[g.at] EXCEPT !.cond = cond, !.to = to] \in Block
    BY <1>2 DEF Block
  <2> QED BY <2>1
<1>4. [g.blocks EXCEPT ![g.at] = x] \in Seq(Block)
  BY <1>2
<1>5. [g.blocks EXCEPT ![g.at].cond = cond, ![g.at].to = to] = [g.blocks EXCEPT ![g.at] = x]
  BY <1>2, <1>3
<1>6. EndWith(g, cond, to) =
        [g EXCEPT !.blocks = [g.blocks EXCEPT ![g.at].cond = cond, ![g.at].to = to]]
  BY <1>1 DEF EndWith
<1> QED BY <1>1, <1>4, <1>5, <1>6

LEMMA Updates ==
  ASSUME NEW regs, NEW blocks, NEW at, NEW x
  PROVE  /\ [[regs |-> regs, blocks |-> blocks, at |-> at] EXCEPT !.blocks = x]
              = [regs |-> regs, blocks |-> x, at |-> at]
         /\ [[regs |-> regs, blocks |-> blocks, at |-> at] EXCEPT !.at = x]
              = [regs |-> regs, blocks |-> blocks, at |-> x]
OBVIOUS

LEMMA BranchToNew ==
  ASSUME NEW g, IrOK(g), NEW cond \in Nat, NEW to \in Seq(Nat), NEW n \in Nat,
         NEW m \in Nat, m = Len(g.blocks),
         \A k \in 1..Len(to) : to[k] \in (m + 1)..(m + n),
         NEW at \in (m + 1)..(m + n)
  PROVE  Branched(g, to, n, at, SetInsertPoint(WithBlocks(EndWith(g, cond, to), n), at))
<1>1. PICK added \in Seq({EmptyBlock}) : added = [k \in 1..n |-> EmptyBlock] /\ Len(added) = n
  <2>1. [k \in 1..n |-> EmptyBlock] \in Seq({EmptyBlock})
    OBVIOUS
  <2>2. Len([k \in 1..n |-> EmptyBlock]) = n
    OBVIOUS
  <2> QED BY <2>1, <2>2
<1>2. PICK h : h = SetInsertPoint(WithBlocks(EndWith(g, cond, to), n), at)
  OBVIOUS
<1>3. h = [regs |-> g.regs,
           blocks |-> [g.blocks EXCEPT ![g.at].cond = cond, ![g.at].to = to] \o added, at |-> at]
  <2>1. PICK blocks : blocks = [g.blocks EXCEPT ![g.at].cond = cond, ![g.at].to = to]
    OBVIOUS
  <2>2. EndWith(g, cond, to) = [regs |-> g.regs, blocks |-> blocks, at |-> g.at]
    BY <2>1, EndsWith
  <2>3. PICK regs : regs = g.regs
    OBVIOUS
  <2>4. PICK before : before = g.at
    OBVIOUS
  <2>5. PICK longer : longer = blocks \o added
    OBVIOUS
  <2>6. PICK e : e = [regs |-> regs, blocks |-> blocks, at |-> before]
    OBVIOUS
  <2>7. e.blocks = blocks /\ e = EndWith(g, cond, to)
    BY <2>2, <2>3, <2>4, <2>6
  <2>8. WithBlocks(e, n) = [e EXCEPT !.blocks = longer]
    BY <1>1, <2>5, <2>7 DEF WithBlocks
  <2>9. WithBlocks(e, n) = [regs |-> regs, blocks |-> longer, at |-> before]
    BY <2>6, <2>8, Updates
  <2>10. h = [regs |-> regs, blocks |-> longer, at |-> at]
    <3>1. PICK w : w = WithBlocks(e, n)
      OBVIOUS
    <3>2. h = [w EXCEPT !.at = at]
      BY <1>2, <2>7, <3>1 DEF SetInsertPoint
    <3>3. w = [regs |-> regs, blocks |-> longer, at |-> before]
      BY <2>9, <3>1
    <3> QED BY <3>2, <3>3, Updates
  <2> QED BY <2>1, <2>3, <2>5, <2>10
<1>4. g.at \in 1..m /\ at \in 1..(m + n) /\ at \notin 1..m
  BY DEF IrOK
<1>5. Rebuilt(g, to, n, at, h)
  BY <1>1, <1>3, <1>4, BlocksEnd
<1>6. /\ \A k \in 1..Len(to) : to[k] \in 1..(m + n)
      /\ \A b \in 1..m : ~IsTarget(to, b)
  BY SMTT(20) DEF IsTarget
<1>7. Branched(g, to, n, at, h)
  BY <1>4, <1>5, <1>6, BlocksBranch
<1> QED BY <1>2, <1>7

LEMMA BranchToOld ==
  ASSUME NEW g, IrOK(g), NEW end \in 1..Len(g.blocks), g.blocks[end].code = <<>>,
         NEW at \in 1..Len(g.blocks), at # g.at, g.blocks[at].to = <<>>
  PROVE  Branched(g, <<end>>, 0, at, SetInsertPoint(EndWith(g, NoValue, <<end>>), at))
<1>1. PICK m \in Nat : m = Len(g.blocks)
  <2>1. Len(g.blocks) \in Nat
    BY DEF IrOK, Ir
  <2> QED BY <2>1
<1>2. PICK to \in Seq(Nat) : to = <<end>> /\ Len(to) = 1 /\ to[1] = end
  <2>1. end \in Nat
    BY <1>1
  <2>2. <<end>> \in Seq(Nat) /\ Len(<<end>>) = 1 /\ <<end>>[1] = end
    BY <2>1
  <2> QED BY <2>2
<1>3. PICK h : h = SetInsertPoint(EndWith(g, NoValue, to), at)
  OBVIOUS
<1>4. <<>> \in Seq({EmptyBlock}) /\ Len(<<>>) = 0 /\ 0 \in Nat /\ NoValue = 0
  BY DEF NoValue
<1>5. h = [regs |-> g.regs,
           blocks |-> [g.blocks EXCEPT ![g.at].cond = NoValue, ![g.at].to = to] \o <<>>, at |-> at]
  <2>1. PICK blocks \in Seq(Block) :
          blocks = [g.blocks EXCEPT ![g.at].cond = NoValue, ![g.at].to = to]
    <3>1. NoValue \in Nat
      BY <1>4
    <3> QED BY <3>1, EndsWith
  <2>2. EndWith(g, NoValue, to) = [regs |-> g.regs, blocks |-> blocks, at |-> g.at]
    <3>1. NoValue \in Nat
      BY <1>4
    <3> QED BY <2>1, <3>1, EndsWith
  <2>3. h = [regs |-> g.regs, blocks |-> blocks, at |-> at]
    BY <1>3, <2>2 DEF SetInsertPoint
  <2>4. blocks \o <<>> = blocks
    OBVIOUS
  <2> QED BY <2>1, <2>3, <2>4
<1>6. Rebuilt(g, to, 0, at, h)
  <2>1. PICK z \in Nat : z = 0
    BY <1>4
  <2>2. PICK added \in Seq({EmptyBlock}) : added = <<>> /\ Len(added) = z
    BY <1>4, <2>1
  <2>3. at \in 1..(Len(g.blocks) + z)
    BY <1>1, <2>1
  <2>4. PICK cond \in Nat : cond = NoValue
    BY <1>4
  <2>5. h = [regs |-> g.regs,
             blocks |-> [g.blocks EXCEPT ![g.at].cond = cond, ![g.at].to = to] \o added, at |-> at]
    BY <1>5, <2>2, <2>4
  <2>6. Rebuilt(g, to, z, at, h)
    BY <2>2, <2>3, <2>5, BlocksEnd
  <2> QED BY <2>1, <2>6
<1>7. /\ \A k \in 1..Len(to) : to[k] \in 1..(m + 0)
      /\ \A b \in 1..m : IsTarget(to, b) => g.blocks[b].code = <<>>
  BY <1>1, <1>2 DEF IsTarget
<1>8. Branched(g, to, 0, at, h)
  <2>1. PICK z \in Nat : z = 0
    BY <1>4
  <2>2. at \in 1..(m + z)
    BY <1>1, <2>1
  <2> QED BY <1>1, <1>6, <1>7, <2>1, <2>2, BlocksBranch
<1> QED BY <1>2, <1>3, <1>8

(***************************************************************************)
(* The blocks O are reserved: they are empty, and nothing is inserted into *)
(* them.                                                                   *)
(***************************************************************************)
Reserved(g, O) ==
  O \subseteq 1..Len(g.blocks) /\ \A b \in O : b # g.at /\ g.blocks[b] = EmptyBlock
Keeps(g, h, O) ==
  /\ IrOK(h) /\ Latest(g) <= Latest(h) /\ Len(g.blocks) <= Len(h.blocks)
  /\ Reserved(h, O) /\ \A b \in O : Preds(h, b) = Preds(g, b)

LEMMA Sizes ==
  ASSUME NEW g, IrOK(g)
  PROVE  /\ Latest(g) \in Nat /\ Len(g.blocks) \in Nat /\ g.at \in 1..Len(g.blocks)
         /\ g.blocks[g.at].to = <<>>
BY DEF IrOK, Ir, Latest

LEMMA ExtendsKeeps ==
  ASSUME NEW g, IrOK(g), NEW h, Extends(g, h), NEW O, Reserved(g, O)
  PROVE  Keeps(g, h, O)
<1>1. Len(g.blocks) \in Nat
  BY Sizes
<1>2. \A b \in O : Preds(h, b) = Preds(g, b)
  BY ExtendsPreds
<1> QED BY <1>1, <1>2 DEF Extends, Reserved, Keeps, Latest

LEMMA BranchKeeps ==
  ASSUME NEW g, IrOK(g), NEW h, NEW to, NEW n \in Nat, NEW at, Branched(g, to, n, at, h),
         NEW O, Reserved(g, O), at \notin O, \A b \in O : ~IsTarget(to, b)
  PROVE  Keeps(g, h, O)
<1>1. Len(g.blocks) \in Nat /\ Latest(g) \in Nat /\ Latest(h) = Latest(g)
  BY Sizes DEF Branched, Latest
<1>2. Len(h.blocks) = Len(g.blocks) + n
  BY DEF Branched
<1>3. Reserved(h, O)
  BY <1>1, <1>2 DEF Branched, Reserved
<1> QED BY <1>1, <1>2, <1>3 DEF Branched, Keeps

LEMMA KeepsTwice ==
  ASSUME NEW f, IrOK(f), NEW g, NEW h, NEW O, Keeps(f, g, O), Keeps(g, h, O)
  PROVE  Keeps(f, h, O)
<1>1. /\ Latest(f) \in Nat /\ Latest(g) \in Nat /\ Latest(h) \in Nat
      /\ Len(f.blocks) \in Nat /\ Len(g.blocks) \in Nat /\ Len(h.blocks) \in Nat
  BY Sizes DEF Keeps
<1> QED BY <1>1 DEF Keeps

(***************************************************************************)
(* The active calls.  An operator that branches owes the blocks that it    *)
(* created and has not yet begun; at stage s it has begun operand s.       *)
(***************************************************************************)
CallFrame(g) == [node : 1..Len(nodes), lvalue : BOOLEAN, values : Seq(0..Latest(g)),
                 blocks : Seq(1..Len(g.blocks))]

OpOf(f) == nodes[f.node].op
Owed(f, s) ==
  IF OpOf(f) \in Logical /\ s = 2 THEN {f.blocks[2]}
  ELSE IF OpOf(f) = "?:" /\ s = 2 THEN {f.blocks[2], f.blocks[3]}
  ELSE IF OpOf(f) = "?:" /\ s = 3 THEN {f.blocks[3]} ELSE {}

\* A phi will find the blocks it names.
Joins(f, s, g) ==
  /\ OpOf(f) \in Logical /\ s = 2 =>
       Len(f.blocks) = 2 /\ Preds(g, f.blocks[2]) = {f.blocks[1]}
  /\ OpOf(f) = "?:" /\ s = 2 =>
       Len(f.blocks) = 3 /\ f.blocks[2] # f.blocks[3] /\ Preds(g, f.blocks[3]) = {}
  /\ OpOf(f) = "?:" /\ s = 3 =>
       Len(f.blocks) = 3 /\ Preds(g, f.blocks[3]) = {f.blocks[1]}

\* Only an operand without a value has the null value.
ValuesOK(f) ==
  /\ Len(f.values) <= OperandCount(f.node)
  /\ \A k \in 1..Len(f.values) :
       f.values[k] = NoValue => nodes[Operand(f.node, k)].type = VoidType /\ ~TakesLvalue(f.node, k)

FrameOK(f, s, g) ==
  f \in CallFrame(g) /\ ValuesOK(f) /\ Reserved(g, Owed(f, s)) /\ Joins(f, s, g)

Stage(w, i) == IF i = 1 THEN Len(w[i].values) ELSE Len(w[i].values) + 1
OwedBy(w, i) == Owed(w[i], Stage(w, i))
CallersOwed(w) == UNION {OwedBy(w, i) : i \in 2..Len(w)}

\* Call c compiles operand s of f.
IsCallOf(c, f, s) ==
  /\ c.node = Operand(f.node, s) /\ c.lvalue = TakesLvalue(f.node, s)
  /\ s <= OperandCount(f.node)

WorkOK(w, g) ==
  /\ w \in Seq(CallFrame(g))
  /\ \A i \in 1..Len(w) : FrameOK(w[i], Stage(w, i), g)
  /\ \A i \in 2..Len(w) : IsCallOf(w[i - 1], w[i], Stage(w, i))
  /\ w # <<>> => ~w[Len(w)].lvalue
  /\ \A i, j \in 1..Len(w) : i # j => OwedBy(w, i) \cap OwedBy(w, j) = {}

LEMMA SeqIncludes ==
  ASSUME NEW S, NEW T, S \subseteq T, NEW s \in Seq(S)
  PROVE  s \in Seq(T)
<1>1. s \in [1..Len(s) -> S] /\ Len(s) \in Nat
  OBVIOUS
<1>2. s \in [1..Len(s) -> T]
  BY <1>1
<1> QED BY <1>1, <1>2

LEMMA CallFramesKept ==
  ASSUME NEW g, IrOK(g), NEW h, NEW O, Keeps(g, h, O)
  PROVE  CallFrame(g) \subseteq CallFrame(h)
<1>1. 0..Latest(g) \subseteq 0..Latest(h) /\ 1..Len(g.blocks) \subseteq 1..Len(h.blocks)
  <2>1. /\ Latest(g) \in Nat /\ Latest(h) \in Nat /\ Len(g.blocks) \in Nat /\ Len(h.blocks) \in Nat
        /\ Latest(g) <= Latest(h) /\ Len(g.blocks) <= Len(h.blocks)
    BY Sizes DEF Keeps
  <2> QED BY <2>1
<1>2. ASSUME NEW f \in CallFrame(g) PROVE f \in CallFrame(h)
  <2>1. f.values \in Seq(0..Latest(h)) /\ f.blocks \in Seq(1..Len(h.blocks))
    <3>1. f.values \in Seq(0..Latest(g)) /\ f.blocks \in Seq(1..Len(g.blocks))
      BY DEF CallFrame
    <3>2. PICK A : A = 0..Latest(g)
      OBVIOUS
    <3>3. PICK B : B = 1..Len(g.blocks)
      OBVIOUS
    <3>4. PICK C : C = 0..Latest(h)
      OBVIOUS
    <3>5. PICK D : D = 1..Len(h.blocks)
      OBVIOUS
    <3>6. f.values \in Seq(A) /\ A \subseteq C /\ f.blocks \in Seq(B) /\ B \subseteq D
      BY <1>1, <3>1, <3>2, <3>3, <3>4, <3>5
    <3>7. f.values \in Seq(C) /\ f.blocks \in Seq(D)
      BY <3>6, SeqIncludes
    <3> QED BY <3>4, <3>5, <3>7
  <2> QED BY <2>1 DEF CallFrame
<1> QED BY <1>2

LEMMA FrameKept ==
  ASSUME NEW g, IrOK(g), NEW h, NEW f, NEW s, FrameOK(f, s, g), NEW O, Keeps(g, h, O),
         Owed(f, s) \subseteq O
  PROVE  FrameOK(f, s, h)
<1>1. f \in CallFrame(h)
  BY CallFramesKept DEF FrameOK
<1>2. Reserved(h, Owed(f, s))
  BY DEF Keeps, Reserved
<1>3. \A b \in Owed(f, s) : Preds(h, b) = Preds(g, b)
  BY DEF Keeps
<1>4. Joins(f, s, h)
  <2>1. CASE OpOf(f) \in Logical /\ s = 2
    <3>1. f.blocks[2] \in Owed(f, s)
      BY <2>1 DEF Owed
    <3>2. OpOf(f) # "?:"
      BY <2>1 DEF Logical
    <3> QED BY <1>3, <2>1, <3>1, <3>2 DEF FrameOK, Joins
  <2>2. CASE OpOf(f) = "?:" /\ s \in {2, 3}
    <3>1. OpOf(f) \notin Logical
      BY <2>2 DEF Logical
    <3>2. f.blocks[3] \in Owed(f, s)
      BY <2>2, <3>1 DEF Owed
    <3> QED BY <1>3, <2>2, <3>1, <3>2 DEF FrameOK, Joins
  <2>3. CASE ~(OpOf(f) \in Logical /\ s = 2) /\ ~(OpOf(f) = "?:" /\ s \in {2, 3})
    BY <2>3 DEF Joins
  <2> QED BY <2>1, <2>2, <2>3
<1> QED BY <1>1, <1>2, <1>4 DEF FrameOK

\* From place m on, u has the frames that w has from place m - d on; that of
\* place m itself has changed.
Follows(w, u, m, d, h) ==
  /\ m \in 1..2 /\ d \in Int /\ m - d \in 1..Len(w)
  /\ u \in Seq(CallFrame(h)) /\ Len(u) = Len(w) + d
  /\ \A i \in (m + 1)..Len(u) : u[i] = w[i - d]
  /\ u[m].node = w[m - d].node /\ u[m].lvalue = w[m - d].lvalue
  /\ \A i \in 1..m : FrameOK(u[i], Stage(u, i), h)
  /\ \A i \in (m + 1)..Len(u) : OwedBy(u, m) \cap OwedBy(w, i - d) = {}
  /\ m = 2 => IsCallOf(u[1], u[2], Stage(u, 2)) /\ OwedBy(u, 1) = {}

LEMMA Rearranged ==
  ASSUME NEW g, IrOK(g), NEW h, NEW w, WorkOK(w, g), Keeps(g, h, CallersOwed(w)),
         NEW u, NEW m, NEW d, Follows(w, u, m, d, h)
  PROVE  WorkOK(u, h)
<1> /\ m \in 1..2 /\ d \in Int /\ m - d \in 1..Len(w)
    /\ u \in Seq(CallFrame(h)) /\ Len(u) = Len(w) + d
    /\ \A i \in (m + 1)..Len(u) : u[i] = w[i - d]
    /\ u[m].node = w[m - d].node /\ u[m].lvalue = w[m - d].lvalue
    /\ \A i \in 1..m : FrameOK(u[i], Stage(u, i), h)
    /\ \A i \in (m + 1)..Len(u) : OwedBy(u, m) \cap OwedBy(w, i - d) = {}
    /\ m = 2 => IsCallOf(u[1], u[2], Stage(u, 2)) /\ OwedBy(u, 1) = {}
  BY DEF Follows
<1>1. Len(u) \in Nat /\ Len(w) \in Nat /\ u # <<>> /\ w # <<>>
  <2>1. Len(u) \in Nat /\ Len(w) \in Nat
    BY DEF WorkOK
  <2>2. Len(u) # 0 /\ Len(w) # 0 /\ Len(<<>>) = 0
    BY <2>1
  <2> QED BY <2>1, <2>2
<1>2. ASSUME NEW i \in (m + 1)..Len(u)
      PROVE  /\ i - d \in 2..Len(w) /\ i - d \in 1..Len(w) /\ u[i] = w[i - d]
             /\ Stage(u, i) = Stage(w, i - d) /\ OwedBy(u, i) = OwedBy(w, i - d)
  <2>1. i - d \in 2..Len(w) /\ i - d \in 1..Len(w) /\ i # 1 /\ i - d # 1
    BY <1>1
  <2>2. PICK j : j = i - d
    OBVIOUS
  <2>3. u[i] = w[j]
    BY <2>2
  <2>4. Stage(u, i) = Stage(w, j)
    BY <2>1, <2>2, <2>3 DEF Stage
  <2> QED BY <2>1, <2>2, <2>3, <2>4 DEF OwedBy
<1>3. ASSUME NEW i \in 1..Len(u) PROVE FrameOK(u[i], Stage(u, i), h)
  <2>1. CASE i \in 1..m
    BY <2>1
  <2>2. CASE i \notin 1..m
    <3>1. i \in (m + 1)..Len(u)
      BY <1>1, <2>2
    <3>2. PICK j \in 2..Len(w) : /\ j = i - d /\ j \in 1..Len(w) /\ u[i] = w[j]
                                 /\ Stage(u, i) = Stage(w, j)
      BY <1>2, <3>1
    <3>3. FrameOK(w[j], Stage(w, j), g)
      BY <3>2 DEF WorkOK
    <3>4. Owed(w[j], Stage(w, j)) \subseteq CallersOwed(w)
      BY <3>2 DEF CallersOwed, OwedBy
    <3>5. FrameOK(w[j], Stage(w, j), h)
      BY <3>3, <3>4, FrameKept
    <3> QED BY <3>2, <3>5
  <2> QED BY <2>1, <2>2
<1>4. ASSUME NEW i \in 2..Len(u) PROVE IsCallOf(u[i - 1], u[i], Stage(u, i))
  <2>1. CASE i \in 1..m
    <3>1. m = 2 /\ i = 2
      BY <1>1, <2>1
    <3> QED BY <3>1
  <2>2. CASE i \notin 1..m
    <3>1. i \in (m + 1)..Len(u)
      BY <1>1, <2>2
    <3>2. PICK j \in 2..Len(w) : j = i - d /\ u[i] = w[j] /\ Stage(u, i) = Stage(w, j)
      BY <1>2, <3>1
    <3>3. IsCallOf(w[j - 1], w[j], Stage(w, j))
      BY <3>2 DEF WorkOK
    <3>4. u[i - 1].node = w[j - 1].node /\ u[i - 1].lvalue = w[j - 1].lvalue
      <4>1. CASE i = m + 1
        <5>1. i - 1 = m /\ j - 1 = m - d
          BY <3>2, <4>1
        <5> QED BY <5>1
      <4>2. CASE i # m + 1
        <5>1. i - 1 \in (m + 1)..Len(u) /\ (i - 1) - d = j - 1
          BY <1>1, <3>1, <3>2, <4>2
        <5>2. u[i - 1] = w[j - 1]
          BY <1>2, <5>1
        <5> QED BY <5>2
      <4> QED BY <4>1, <4>2
    <3> QED BY <3>2, <3>3, <3>4 DEF IsCallOf
  <2> QED BY <2>1, <2>2
<1>5. ~u[Len(u)].lvalue
  <2>1. ~w[Len(w)].lvalue
    BY <1>1 DEF WorkOK
  <2>2. CASE Len(u) = m
    <3>1. m - d = Len(w)
      BY <1>1, <2>2
    <3> QED BY <2>1, <2>2, <3>1
  <2>3. CASE Len(u) # m
    <3>1. Len(u) \in (m + 1)..Len(u) /\ Len(u) - d = Len(w)
      BY <1>1, <2>3
    <3>2. u[Len(u)] = w[Len(w)]
      BY <1>2, <3>1
    <3> QED BY <2>1, <3>2
  <2> QED BY <2>2, <2>3
<1>6. ASSUME NEW i \in 1..m, NEW j \in 1..Len(u), i # j
      PROVE  OwedBy(u, i) \cap OwedBy(u, j) = {}
  <2>1. CASE m = 2 /\ (i = 1 \/ j = 1)
    BY <2>1
  <2>2. CASE ~(m = 2 /\ (i = 1 \/ j = 1))
    <3>1. i = m /\ j \in (m + 1)..Len(u)
      BY <1>1, <1>6, <2>2
    <3>2. OwedBy(u, j) = OwedBy(w, j - d)
      BY <1>2, <3>1
    <3> QED BY <3>1, <3>2
  <2> QED BY <2>1, <2>2
<1>7. ASSUME NEW i \in (m + 1)..Len(u), NEW j \in (m + 1)..Len(u), i # j
      PROVE  OwedBy(u, i) \cap OwedBy(u, j) = {}
  <2>1. PICK k \in 1..Len(w) : k = i - d /\ OwedBy(u, i) = OwedBy(w, k)
    BY <1>2
  <2>2. PICK l \in 1..Len(w) : l = j - d /\ OwedBy(u, j) = OwedBy(w, l)
    BY <1>2
  <2>3. k # l
    BY <1>7, <2>1, <2>2
  <2> QED BY <2>1, <2>2, <2>3 DEF WorkOK
<1>8. ASSUME NEW i \in 1..Len(u), NEW j \in 1..Len(u), i # j
      PROVE  OwedBy(u, i) \cap OwedBy(u, j) = {}
  <2>1. CASE i \in 1..m
    BY <1>6, <1>8, <2>1
  <2>2. CASE j \in 1..m
    BY <1>6, <1>8, <2>2
  <2>3. CASE i \notin 1..m /\ j \notin 1..m
    <3>1. i \in (m + 1)..Len(u) /\ j \in (m + 1)..Len(u)
      BY <1>1, <2>3
    <3> QED BY <1>7, <1>8, <3>1
  <2> QED BY <2>1, <2>2, <2>3
<1> QED BY <1>3, <1>4, <1>5, <1>8 DEF WorkOK

LEMMA Fronts ==
  ASSUME NEW S, NEW w \in Seq(S), w # <<>>, NEW f \in S, NEW c \in S
  PROVE  /\ <<f>> \o Tail(w) \in Seq(S) /\ Len(<<f>> \o Tail(w)) = Len(w)
         /\ (<<f>> \o Tail(w))[1] = f
         /\ \A i \in 2..Len(w) : (<<f>> \o Tail(w))[i] = w[i]
         /\ <<c, f>> \o Tail(w) \in Seq(S) /\ Len(<<c, f>> \o Tail(w)) = Len(w) + 1
         /\ (<<c, f>> \o Tail(w))[1] = c /\ (<<c, f>> \o Tail(w))[2] = f
         /\ \A i \in 3..(Len(w) + 1) : (<<c, f>> \o Tail(w))[i] = w[i - 1]
<1>1. PICK n \in Nat : n = Len(w) /\ n >= 1
  <2>1. Len(w) \in Nat /\ Len(w) # 0
    OBVIOUS
  <2> QED BY <2>1
<1>2. PICK t \in Seq(S) : /\ t = Tail(w) /\ Len(t) = n - 1
                          /\ \A i \in 1..(n - 1) : t[i] = w[i + 1]
  <2>1. Tail(w) \in Seq(S) /\ Len(Tail(w)) = n - 1
    BY <1>1
  <2>2. \A i \in 1..(n - 1) : Tail(w)[i] = w[i + 1]
    BY <1>1
  <2> QED BY <2>1, <2>2
<1>3. PICK a \in Seq(S) : a = <<f>> /\ Len(a) = 1 /\ a[1] = f
  <2>1. <<f>> \in Seq(S) /\ Len(<<f>>) = 1 /\ <<f>>[1] = f
    OBVIOUS
  <2> QED BY <2>1
<1>4. PICK b \in Seq(S) : b = <<c, f>> /\ Len(b) = 2 /\ b[1] = c /\ b[2] = f
  <2>1. <<c, f>> \in Seq(S) /\ Len(<<c, f>>) = 2 /\ <<c, f>>[1] = c /\ <<c, f>>[2] = f
    OBVIOUS
  <2> QED BY <2>1
<1>5. /\ a \o t \in Seq(S) /\ Len(a \o t) = n /\ (a \o t)[1] = f
      /\ \A i \in 2..n : (a \o t)[i] = w[i]
  <2>1. a \o t \in Seq(S) /\ Len(a \o t) = n /\ (a \o t)[1] = f
    BY <1>1, <1>2, <1>3
  <2>2. ASSUME NEW i \in 2..n PROVE (a \o t)[i] = w[i]
    <3>1. (a \o t)[i] = t[i - 1]
      BY <1>1, <1>2, <1>3
    <3>2. i - 1 \in 1..(n - 1) /\ (i - 1) + 1 = i
      BY <1>1
    <3> QED BY <1>2, <3>1, <3>2
  <2> QED BY <2>1, <2>2
<1>6. /\ b \o t \in Seq(S) /\ Len(b \o t) = n + 1 /\ (b \o t)[1] = c /\ (b \o t)[2] = f
      /\ \A i \in 3..(n + 1) : (b \o t)[i] = w[i - 1]
  <2>1. b \o t \in Seq(S) /\ Len(b \o t) = n + 1 /\ (b \o t)[1] = c /\ (b \o t)[2] = f
    BY <1>1, <1>2, <1>4
  <2>2. ASSUME NEW i \in 3..(n + 1) PROVE (b \o t)[i] = w[i - 1]
    <3>1. (b \o t)[i] = t[i - 2]
      BY <1>1, <1>2, <1>4
    <3>2. i - 2 \in 1..(n - 1) /\ (i - 2) + 1 = i - 1
      BY <1>1
    <3> QED BY <1>2, <3>1, <3>2
  <2> QED BY <2>1, <2>2
<1> QED BY <1>1, <1>2, <1>3, <1>4, <1>5, <1>6

\* The code of the active call goes on.
LEMMA Continued ==
  ASSUME NEW g, IrOK(g), NEW h, NEW w, WorkOK(w, g), w # <<>>, Keeps(g, h, CallersOwed(w)),
         NEW f, FrameOK(f, Len(f.values), h), f.node = w[1].node, f.lvalue = w[1].lvalue,
         Owed(f, Len(f.values)) \cap CallersOwed(w) = {}
  PROVE  WorkOK(<<f>> \o Tail(w), h)
<1>1. w \in Seq(CallFrame(h)) /\ f \in CallFrame(h)
  BY CallFramesKept, SeqIncludes DEF WorkOK, FrameOK
<1>2. PICK u \in Seq(CallFrame(h)) :
        /\ u = <<f>> \o Tail(w) /\ Len(u) = Len(w) /\ u[1] = f
        /\ \A i \in 2..Len(w) : u[i] = w[i]
  <2>1. PICK S : S = CallFrame(h)
    OBVIOUS
  <2>2. w \in Seq(S) /\ f \in S
    BY <1>1, <2>1
  <2>3. /\ <<f>> \o Tail(w) \in Seq(S) /\ Len(<<f>> \o Tail(w)) = Len(w)
        /\ (<<f>> \o Tail(w))[1] = f
        /\ \A i \in 2..Len(w) : (<<f>> \o Tail(w))[i] = w[i]
    BY <2>2, Fronts
  <2> QED BY <2>1, <2>3
<1>3. Len(w) \in Nat /\ Len(w) >= 1
  BY <1>1
<1>4. Stage(u, 1) = Len(f.values) /\ OwedBy(u, 1) = Owed(f, Len(f.values))
  BY <1>2 DEF Stage, OwedBy
<1>5. \A i \in 2..Len(w) : OwedBy(u, 1) \cap OwedBy(w, i) = {}
  BY <1>4 DEF CallersOwed
<1>6. PICK m \in 1..2 : m = 1
  OBVIOUS
<1>7. PICK d \in Int : d = 0
  OBVIOUS
<1>8. /\ Len(u) = Len(w) + d /\ m - d \in 1..Len(w) /\ m - d = 1
      /\ \A i \in (m + 1)..Len(u) : i - d = i /\ i \in 2..Len(w)
  BY <1>2, <1>3, <1>6, <1>7
<1>9. \A i \in (m + 1)..Len(u) : u[i] = w[i - d]
  BY <1>2, <1>8
<1>10. \A i \in (m + 1)..Len(u) : OwedBy(u, m) \cap OwedBy(w, i - d) = {}
  BY <1>5, <1>6, <1>8
<1>11. \A i \in 1..m : FrameOK(u[i], Stage(u, i), h)
  BY <1>2, <1>4, <1>6
<1>12. u[m].node = w[m - d].node /\ u[m].lvalue = w[m - d].lvalue
  BY <1>2, <1>6, <1>8
<1>13. WorkOK(u, h)
  <2>1. m # 2
    BY <1>6
  <2>2. Follows(w, u, m, d, h)
    BY <2>1, <1>6, <1>8, <1>9, <1>10, <1>11, <1>12 DEF Follows
  <2> QED BY <2>2, Rearranged
<1> QED BY <1>2, <1>13

LEMMA OperandsTyped ==
  ASSUME NodesInv, NEW n \in 1..Len(nodes)
  PROVE  /\ OperandCount(n) \in Nat
         /\ nodes[n].op \in Operator \ {"sizeof"} => OperandCount(n) = Arity(nodes[n].op)
         /\ \A k \in 1..OperandCount(n) :
              Operand(n, k) \in 1..Len(nodes) /\ CastOf(n, k) \in CastTarget
<1>1. /\ nodes[n] \in Node /\ Fits(nodes[n], n) /\ Len(nodes) \in Nat
      /\ \A k \in 1..Len(nodes[n].kids) : nodes[n].kids[k] \in 1..(n - 1)
  BY DEF NodesInv, Fits
<1>2. /\ nodes[n].kids \in Seq(Nat) /\ nodes[n].casts \in Seq(CastTarget)
      /\ Len(nodes[n].kids) \in Nat
  BY <1>1 DEF Node, CastTarget
<1>3. /\ OperandCount(n) \in Nat /\ OperandCount(n) <= Len(nodes[n].kids)
      /\ nodes[n].op # "sizeof" => OperandCount(n) = Len(nodes[n].kids)
  BY <1>2 DEF OperandCount
<1>4. nodes[n].op \in Operator =>
        Len(nodes[n].kids) = Arity(nodes[n].op) /\ Len(nodes[n].casts) = Arity(nodes[n].op)
  BY <1>1 DEF Fits
<1>5. ASSUME NEW k \in 1..OperandCount(n)
      PROVE  Operand(n, k) \in 1..Len(nodes) /\ CastOf(n, k) \in CastTarget
  <2>1. k \in 1..Len(nodes[n].kids)
    BY <1>2, <1>3
  <2>2. Operand(n, k) \in 1..Len(nodes)
    BY <1>1, <2>1 DEF Operand
  <2>3. nodes[n].op \in Operator
    <3>1. nodes[n].op \notin Operator => nodes[n].kids = <<>>
      BY <1>1 DEF Fits
    <3>2. nodes[n].kids # <<>>
      BY <1>2, <2>1
    <3> QED BY <3>1, <3>2
  <2>4. k \in 1..Len(nodes[n].casts)
    BY <1>4, <2>1, <2>3
  <2> QED BY <1>2, <2>2, <2>4 DEF CastOf
<1> QED BY <1>3, <1>4, <1>5

LEMMA NewFrame ==
  ASSUME NodesInv, NEW h, IrOK(h), NEW n \in 1..Len(nodes), NEW lvalue \in BOOLEAN
  PROVE  FrameOK(Frame(n, lvalue), 0, h) /\ Owed(Frame(n, lvalue), 0) = {}
<1>1. /\ Frame(n, lvalue).node = n /\ Frame(n, lvalue).lvalue = lvalue
      /\ Frame(n, lvalue).values = <<>> /\ Frame(n, lvalue).blocks = <<>> /\ Len(<<>>) = 0
  BY DEF Frame
<1>2. Frame(n, lvalue) \in CallFrame(h)
  <2>1. <<>> \in Seq(0..Latest(h)) /\ <<>> \in Seq(1..Len(h.blocks))
    OBVIOUS
  <2> QED BY <2>1 DEF CallFrame, Frame
<1>3. Owed(Frame(n, lvalue), 0) = {} /\ Joins(Frame(n, lvalue), 0, h)
  BY DEF Owed, Joins
<1>4. OperandCount(n) \in Nat
  BY OperandsTyped
<1>5. ValuesOK(Frame(n, lvalue))
  BY <1>1, <1>4 DEF ValuesOK
<1> QED BY <1>2, <1>3, <1>5 DEF FrameOK, Reserved

\* The active call calls for its next operand.
LEMMA Called ==
  ASSUME NodesInv, NEW g, IrOK(g), NEW h, NEW w, WorkOK(w, g), w # <<>>,
         Keeps(g, h, CallersOwed(w)),
         NEW f, NEW s, s = Len(f.values) + 1, s <= OperandCount(f.node), FrameOK(f, s, h),
         f.node = w[1].node, f.lvalue = w[1].lvalue,
         Owed(f, s) \cap CallersOwed(w) = {}
  PROVE  WorkOK(<<Frame(Operand(f.node, s), TakesLvalue(f.node, s)), f>> \o Tail(w), h)
<1>1. w \in Seq(CallFrame(h)) /\ f \in CallFrame(h)
  BY CallFramesKept, SeqIncludes DEF WorkOK, FrameOK
<1>2. PICK c : c = Frame(Operand(f.node, s), TakesLvalue(f.node, s))
  OBVIOUS
<1>3. c.node = Operand(f.node, s) /\ c.lvalue = TakesLvalue(f.node, s) /\ Len(c.values) = 0
  BY <1>2 DEF Frame
<1>4. FrameOK(c, 0, h) /\ Owed(c, 0) = {} /\ c \in CallFrame(h)
  <2>1. f.node \in 1..Len(nodes) /\ s \in Nat /\ s >= 1
    BY <1>1 DEF CallFrame
  <2>2. OperandCount(f.node) \in Nat
    BY <2>1, OperandsTyped
  <2>3. s \in 1..OperandCount(f.node)
    BY <2>1, <2>2
  <2>4. Operand(f.node, s) \in 1..Len(nodes)
    BY <2>1, <2>3, OperandsTyped
  <2>5. TakesLvalue(f.node, s) \in BOOLEAN
    BY DEF TakesLvalue
  <2>6. PICK n \in 1..Len(nodes) : n = Operand(f.node, s)
    BY <2>4
  <2>7. PICK b \in BOOLEAN : b = TakesLvalue(f.node, s)
    BY <2>5
  <2>8. IrOK(h)
    BY DEF Keeps
  <2> QED BY <1>2, <2>6, <2>7, <2>8, NewFrame DEF FrameOK
<1>5. PICK u \in Seq(CallFrame(h)) :
        /\ u = <<c, f>> \o Tail(w) /\ Len(u) = Len(w) + 1 /\ u[1] = c /\ u[2] = f
        /\ \A i \in 3..(Len(w) + 1) : u[i] = w[i - 1]
  <2>1. PICK S : S = CallFrame(h)
    OBVIOUS
  <2>2. w \in Seq(S) /\ f \in S /\ c \in S
    BY <1>1, <1>4, <2>1
  <2>3. /\ <<c, f>> \o Tail(w) \in Seq(S) /\ Len(<<c, f>> \o Tail(w)) = Len(w) + 1
        /\ (<<c, f>> \o Tail(w))[1] = c /\ (<<c, f>> \o Tail(w))[2] = f
        /\ \A i \in 3..(Len(w) + 1) : (<<c, f>> \o Tail(w))[i] = w[i - 1]
    BY <2>2, Fronts
  <2> QED BY <2>1, <2>3
<1>6. Len(w) \in Nat /\ Len(w) >= 1
  BY <1>1
<1>7. /\ Stage(u, 1) = 0 /\ OwedBy(u, 1) = {}
      /\ Stage(u, 2) = s /\ OwedBy(u, 2) = Owed(f, s)
  BY <1>3, <1>4, <1>5 DEF Stage, OwedBy
<1>8. \A i \in 2..Len(w) : OwedBy(u, 2) \cap OwedBy(w, i) = {}
  BY <1>7 DEF CallersOwed
<1>9. PICK m \in 1..2 : m = 2
  OBVIOUS
<1>10. PICK d \in Int : d = 1
  OBVIOUS
<1>11. /\ Len(u) = Len(w) + d /\ m - d \in 1..Len(w) /\ m - d = 1
       /\ \A i \in (m + 1)..Len(u) : i - d = i - 1 /\ i \in 3..(Len(w) + 1) /\ i - 1 \in 2..Len(w)
  BY <1>5, <1>6, <1>9, <1>10
<1>12. \A i \in (m + 1)..Len(u) : u[i] = w[i - d]
  BY <1>5, <1>11
<1>13. \A i \in (m + 1)..Len(u) : OwedBy(u, m) \cap OwedBy(w, i - d) = {}
  BY <1>8, <1>9, <1>11
<1>14. \A i \in 1..m : FrameOK(u[i], Stage(u, i), h)
  <2>1. \A i \in 1..m : i = 1 \/ i = 2
    BY <1>9
  <2> QED BY <1>4, <1>5, <1>7, <2>1
<1>15. u[m].node = w[m - d].node /\ u[m].lvalue = w[m - d].lvalue
  BY <1>5, <1>9, <1>11
<1>16. IsCallOf(u[1], u[2], Stage(u, 2)) /\ OwedBy(u, 1) = {}
  BY <1>3, <1>5, <1>7 DEF IsCallOf
<1>17. Follows(w, u, m, d, h)
  BY <1>11, <1>12, <1>13, <1>14, <1>15, <1>16 DEF Follows
<1> QED BY <1>2, <1>5, <1>17, Rearranged

\* The active call returns to its caller.
LEMMA Returned ==
  ASSUME NEW g, IrOK(g), NEW h, NEW w, WorkOK(w, g), Len(w) >= 2, Keeps(g, h, CallersOwed(w)),
         NEW f, FrameOK(f, Len(f.values), h), f.node = w[2].node, f.lvalue = w[2].lvalue,
         f.blocks = w[2].blocks, Len(f.values) = Len(w[2].values) + 1
  PROVE  WorkOK(<<f>> \o SubSeq(w, 3, Len(w)), h)
<1>1. w \in Seq(CallFrame(h)) /\ f \in CallFrame(h)
  BY CallFramesKept, SeqIncludes DEF WorkOK, FrameOK
<1>2. PICK n \in Nat : n = Len(w) /\ n >= 2
  <2>1. Len(w) \in Nat
    BY <1>1
  <2> QED BY <2>1
<1>3. PICK t \in Seq(CallFrame(h)) : /\ t = SubSeq(w, 3, Len(w)) /\ Len(t) = n - 2
                                     /\ \A i \in 1..(n - 2) : t[i] = w[i + 2]
  <2>1. SubSeq(w, 3, Len(w)) \in Seq(CallFrame(h))
    BY <1>1, <1>2
  <2>2. Len(SubSeq(w, 3, Len(w))) = n - 2
    BY <1>1, <1>2
  <2>3. \A i \in 1..(n - 2) : SubSeq(w, 3, Len(w))[i] = w[i + 2]
    BY <1>1, <1>2
  <2> QED BY <2>1, <2>2, <2>3
<1>4. PICK a \in Seq(CallFrame(h)) : a = <<f>> /\ Len(a) = 1 /\ a[1] = f
  <2>1. <<f>> \in Seq(CallFrame(h)) /\ Len(<<f>>) = 1 /\ <<f>>[1] = f
    BY <1>1
  <2> QED BY <2>1
<1>5. PICK u \in Seq(CallFrame(h)) :
        /\ u = a \o t /\ Len(u) = n - 1 /\ u[1] = f
        /\ \A i \in 2..(n - 1) : u[i] = w[i + 1]
  <2>1. a \o t \in Seq(CallFrame(h)) /\ Len(a \o t) = n - 1 /\ (a \o t)[1] = f
    BY <1>2, <1>3, <1>4
  <2>2. ASSUME NEW i \in 2..(n - 1) PROVE (a \o t)[i] = w[i + 1]
    <3>1. (a \o t)[i] = t[i - 1]
      BY <1>2, <1>3, <1>4
    <3>2. i - 1 \in 1..(n - 2) /\ (i - 1) + 2 = i + 1
      BY <1>2
    <3> QED BY <1>3, <3>1, <3>2
  <2> QED BY <2>1, <2>2
<1>6. Stage(u, 1) = Len(f.values) /\ OwedBy(u, 1) = OwedBy(w, 2)
  <2>1. Stage(u, 1) = Len(f.values) /\ Stage(w, 2) = Len(f.values)
    BY <1>5 DEF Stage
  <2> QED BY <1>5, <2>1 DEF OwedBy, Owed, OpOf
<1>7. PICK m \in 1..2 : m = 1
  OBVIOUS
<1>8. PICK d \in Int : d = -1
  OBVIOUS
<1>9. /\ Len(u) = Len(w) + d /\ m - d \in 1..Len(w) /\ m - d = 2
      /\ \A i \in (m + 1)..Len(u) :
           i - d = i + 1 /\ i \in 2..(n - 1) /\ i + 1 \in 1..Len(w) /\ i + 1 # 2
      /\ 2 \in 1..Len(w)
  BY <1>2, <1>5, <1>7, <1>8
<1>10. \A i \in (m + 1)..Len(u) : u[i] = w[i - d]
  BY <1>5, <1>9
<1>11. \A i \in (m + 1)..Len(u) : OwedBy(u, m) \cap OwedBy(w, i - d) = {}
  <2>1. \A i \in (m + 1)..Len(u) : OwedBy(w, 2) \cap OwedBy(w, i + 1) = {}
    BY <1>9 DEF WorkOK
  <2> QED BY <1>6, <1>7, <1>9, <2>1
<1>12. \A i \in 1..m : FrameOK(u[i], Stage(u, i), h)
  <2>1. FrameOK(u[1], Stage(u, 1), h)
    BY <1>5, <1>6
  <2>2. \A i \in 1..m : i = 1
    BY <1>7
  <2> QED BY <2>1, <2>2
<1>13. u[m].node = w[m - d].node /\ u[m].lvalue = w[m - d].lvalue /\ m # 2
  BY <1>5, <1>7, <1>9
<1>14. Follows(w, u, m, d, h)
  BY <1>9, <1>10, <1>11, <1>12, <1>13 DEF Follows
<1> QED BY <1>3, <1>4, <1>5, <1>14, Rearranged

(***************************************************************************)
(* What is true of the code whenever a call is active.                     *)
(***************************************************************************)
CodeInv ==
  /\ IrOK(ir) /\ WorkOK(work, ir) /\ value \in 0..Latest(ir)
  /\ phase = "compile" => work # <<>>

LEMMA CodeInvFollows ==
  ASSUME nodes' = nodes, NEW h, NEW u, ir' = h, work' = u, IrOK(h), WorkOK(u, h),
         value' \in 0..Latest(h), phase' = "compile" => u # <<>>
  PROVE  CodeInv'
<1>1. ASSUME NEW f, NEW s, NEW g, FrameOK(f, s, g) PROVE FrameOK(f, s, g)'
  BY <1>1 DEF FrameOK, CallFrame, ValuesOK, OperandCount, Operand, TakesLvalue, Joins,
              Owed, OpOf, Reserved, Preds, Latest
<1>2. ASSUME NEW c, NEW f, NEW s, IsCallOf(c, f, s) PROVE IsCallOf(c, f, s)'
  BY <1>2 DEF IsCallOf, Operand, TakesLvalue, OperandCount
<1>3. \A w, i : OwedBy(w, i)' = OwedBy(w, i)
  BY DEF OwedBy, Owed, OpOf
<1>4. u \in Seq(CallFrame(h))'
  BY DEF WorkOK, CallFrame
<1>5. WorkOK(u, h)'
  BY <1>1, <1>2, <1>3, <1>4 DEF WorkOK
<1>6. WorkOK(work, ir)'
  BY <1>5
<1>7. IrOK(ir)'
  OBVIOUS
<1> QED BY <1>6, <1>7 DEF CodeInv

LEMMA NoWork ==
  ASSUME NEW g
  PROVE  WorkOK(<<>>, g)
<1>1. <<>> \in Seq(CallFrame(g)) /\ Len(<<>>) = 0
  OBVIOUS
<1> QED BY <1>1 DEF WorkOK

LEMMA ValueAdded ==
  ASSUME NEW h, IrOK(h), NEW f, NEW s, FrameOK(f, s, h), s = Len(f.values) + 1,
         s <= OperandCount(f.node), NEW v \in 0..Latest(h),
         v = NoValue => nodes[Operand(f.node, s)].type = VoidType /\ ~TakesLvalue(f.node, s),
         NEW e, e = [f EXCEPT !.values = Append(@, v)]
  PROVE  /\ FrameOK(e, s, h) /\ Len(e.values) = s /\ Owed(e, s) = Owed(f, s)
         /\ e.node = f.node /\ e.lvalue = f.lvalue /\ e.blocks = f.blocks
<1>1. f \in CallFrame(h) /\ f.values \in Seq(0..Latest(h))
  BY DEF FrameOK, CallFrame
<1>2. PICK vs \in Seq(0..Latest(h)) :
        /\ vs = Append(f.values, v) /\ Len(vs) = Len(f.values) + 1
        /\ \A k \in 1..Len(f.values) : vs[k] = f.values[k]
        /\ vs[s] = v
  <2>1. PICK S : S = 0..Latest(h)
    OBVIOUS
  <2>2. PICK old \in Seq(S) : old = f.values
    BY <1>1, <2>1
  <2>3. /\ Append(old, v) \in Seq(S) /\ Len(Append(old, v)) = Len(old) + 1
        /\ \A k \in 1..Len(old) : Append(old, v)[k] = old[k]
        /\ Append(old, v)[Len(old) + 1] = v
    BY <2>1
  <2> QED BY <2>1, <2>2, <2>3
<1>3. /\ e.values = vs /\ e \in CallFrame(h)
      /\ e.node = f.node /\ e.lvalue = f.lvalue /\ e.blocks = f.blocks
  BY <1>1, <1>2 DEF CallFrame
<1>4. Len(f.values) \in Nat
  BY <1>1
<1>5. ValuesOK(e)
  <2>1. ASSUME NEW k \in 1..s, vs[k] = NoValue
        PROVE  nodes[Operand(f.node, k)].type = VoidType /\ ~TakesLvalue(f.node, k)
    <3>1. CASE k = s
      BY <1>2, <2>1, <3>1
    <3>2. CASE k # s
      <4>1. k \in 1..Len(f.values)
        BY <1>4, <3>2
      <4> QED BY <1>2, <2>1, <4>1 DEF FrameOK, ValuesOK
    <3> QED BY <3>1, <3>2
  <2> QED BY <1>2, <1>3, <2>1 DEF ValuesOK
<1>6. Owed(e, s) = Owed(f, s) /\ Joins(e, s, h)
  BY <1>3 DEF FrameOK, Owed, OpOf, Joins
<1> QED BY <1>2, <1>3, <1>5, <1>6 DEF FrameOK

\* The frame of the caller is as it was.
LEMMA CallerKept ==
  ASSUME NEW g, IrOK(g), NEW w, WorkOK(w, g), Len(w) >= 2, NEW h, Keeps(g, h, CallersOwed(w))
  PROVE  FrameOK(w[2], Len(w[2].values) + 1, h) /\ IsCallOf(w[1], w[2], Len(w[2].values) + 1)
<1>1. Len(w) \in Nat /\ 2 \in 1..Len(w) /\ 2 \in 2..Len(w)
  BY DEF WorkOK
<1>2. Stage(w, 2) = Len(w[2].values) + 1
  BY DEF Stage
<1>3. FrameOK(w[2], Stage(w, 2), g) /\ IsCallOf(w[1], w[2], Stage(w, 2))
  BY <1>1 DEF WorkOK
<1>4. Owed(w[2], Stage(w, 2)) \subseteq CallersOwed(w)
  BY <1>1 DEF CallersOwed, OwedBy
<1>5. FrameOK(w[2], Stage(w, 2), h)
  BY <1>3, <1>4, FrameKept
<1> QED BY <1>2, <1>3, <1>5

LEMMA ReturnKeeps ==
  ASSUME NodesInv, CodeInv, nodes' = nodes, phase = "compile",
         NEW g, Keeps(ir, g, CallersOwed(work)), NEW r \in 0..Latest(g),
         r = NoValue => nodes[Current].type = VoidType /\ ~work[1].lvalue,
         Return(g, r)
  PROVE  CodeInv' /\ phase' \in {"compile", "compiled"}
<1>1. IrOK(ir) /\ IrOK(g) /\ work # <<>> /\ Len(work) \in Nat /\ Len(work) # 0
  <2>1. work # <<>> /\ work \in Seq(CallFrame(ir))
    BY DEF CodeInv, WorkOK
  <2> QED BY <2>1 DEF CodeInv, Keeps
<1>2. CASE Len(work) = 1
  <2>1. PICK u : u = <<>> /\ work' = u /\ WorkOK(u, g)
    BY <1>2, NoWork DEF Return
  <2>2. ir' = g /\ value' \in 0..Latest(g) /\ phase' = "compiled"
    BY <1>2 DEF Return
  <2> QED BY <1>1, <2>1, <2>2, CodeInvFollows
<1>3. CASE Len(work) # 1
  <2> DEFINE f == work[2]
             s == Len(f.values) + 1
             h == Cast(g, r, nodes[Current].type, CastOf(f.node, s))
             v == Converted(g, h, r)
             e == [f EXCEPT !.values = Append(@, v)]
  <2>1. Len(work) >= 2
    <3>1. PICK m \in Nat : m = Len(work)
      BY <1>1
    <3>2. m # 0 /\ m # 1
      BY <1>1, <1>3, <3>1
    <3>3. m >= 2
      BY <3>2
    <3> QED BY <3>1, <3>3
  <2>2. IsCallOf(work[1], f, s) /\ FrameOK(f, s, g)
    BY <1>1, <2>1, CallerKept DEF CodeInv
  <2>3. f.node \in 1..Len(nodes) /\ s \in 1..OperandCount(f.node)
    <3>1. f.node \in 1..Len(nodes) /\ Len(f.values) \in Nat
      BY <2>2 DEF FrameOK, CallFrame
    <3>2. OperandCount(f.node) \in Nat
      BY <3>1, OperandsTyped
    <3> QED BY <2>2, <3>1, <3>2 DEF IsCallOf
  <2>4. CastOf(f.node, s) \in CastTarget
    BY <2>3, OperandsTyped
  <2>5. IsConversion(g, h, r)
    BY <1>1, <2>4, CastConverts
  <2>6. Keeps(g, h, CallersOwed(work)) /\ Keeps(ir, h, CallersOwed(work)) /\ IrOK(h)
    <3>1. Keeps(g, h, CallersOwed(work))
      BY <1>1, <2>5, ExtendsKeeps DEF IsConversion, Keeps
    <3>2. Keeps(ir, h, CallersOwed(work))
      BY <1>1, <3>1, KeepsTwice
    <3> QED BY <3>1, <3>2 DEF Keeps
  <2>7. FrameOK(f, s, h)
    BY <1>1, <2>1, <2>6, CallerKept DEF CodeInv
  <2>8. /\ v \in 0..Latest(h)
        /\ v = NoValue => nodes[Operand(f.node, s)].type = VoidType /\ ~TakesLvalue(f.node, s)
    BY <2>2, <2>5 DEF IsConversion, IsCallOf, NoValue, Current
  <2>9. PICK d : d = e
    OBVIOUS
  <2>10. /\ FrameOK(d, s, h) /\ Len(d.values) = s
         /\ d.node = f.node /\ d.lvalue = f.lvalue /\ d.blocks = f.blocks
    <3> HIDE DEF h, v, f
    <3> QED BY <2>3, <2>6, <2>7, <2>8, <2>9, ValueAdded
  <2>11. PICK u : u = <<d>> \o SubSeq(work, 3, Len(work)) /\ WorkOK(u, h)
    BY <1>1, <2>1, <2>6, <2>10, Returned DEF CodeInv
  <2>12. ir' = h /\ work' = u /\ phase' = phase /\ value' = value
    BY <1>3, <2>9, <2>11 DEF Return
  <2>13. value' \in 0..Latest(h)
    <3>1. Latest(ir) \in Nat /\ Latest(h) \in Nat /\ Latest(ir) <= Latest(h)
      BY <1>1, <2>6, Sizes DEF Keeps
    <3>2. value \in 0..Latest(ir)
      BY DEF CodeInv
    <3> QED BY <2>12, <3>1, <3>2
  <2>14. u # <<>>
    <3>1. SubSeq(work, 3, Len(work)) \in Seq(CallFrame(ir))
      <4>1. work \in Seq(CallFrame(ir))
        BY DEF CodeInv, WorkOK
      <4> QED BY <1>1, <4>1
    <3>2. PICK t \in Seq(CallFrame(ir)) : t = SubSeq(work, 3, Len(work))
      BY <3>1
    <3>3. u \in Seq(CallFrame(h))
      BY <2>11 DEF WorkOK
    <3>4. Len(u) >= 1
      BY <2>11, <3>2
    <3> QED BY <3>4
  <2> HIDE DEF h, e
  <2> QED BY <2>6, <2>11, <2>12, <2>13, <2>14, CodeInvFollows
<1> QED BY <1>2, <1>3

LEMMA CallKeeps ==
  ASSUME NodesInv, CodeInv, nodes' = nodes, phase = "compile",
         NEW g, Keeps(ir, g, CallersOwed(work)), NEW f, NEW s, FrameOK(f, s, g),
         s = Len(f.values) + 1, s <= OperandCount(f.node),
         f.node = work[1].node, f.lvalue = work[1].lvalue,
         Owed(f, s) \cap CallersOwed(work) = {}, CallOperand(f, g, s)
  PROVE  CodeInv' /\ phase' = "compile"
<1>1. IrOK(ir) /\ IrOK(g) /\ work # <<>> /\ WorkOK(work, ir)
  BY DEF CodeInv, Keeps
<1> DEFINE n == Operand(f.node, s)
           to == CastOf(f.node, s)
           i == Of(Instr("const", ToLlvm(to), <<>>), "zero")
<1>2. f.node \in 1..Len(nodes) /\ s \in 1..OperandCount(f.node)
  <2>1. f.node \in 1..Len(nodes) /\ Len(f.values) \in Nat
    BY DEF FrameOK, CallFrame
  <2>2. OperandCount(f.node) \in Nat
    BY <2>1, OperandsTyped
  <2> QED BY <2>1, <2>2
<1>3. /\ phase' = phase /\ value' = value
      /\ ConvertsNull(nodes[n].type, to) =>
           /\ ir' = Emit(g, i)
           /\ work' = <<[f EXCEPT !.values = Append(@, Latest(Emit(g, i)))]>> \o Tail(work)
      /\ ~ConvertsNull(nodes[n].type, to) =>
           ir' = g /\ work' = <<Frame(n, TakesLvalue(f.node, s)), f>> \o Tail(work)
  BY DEF CallOperand
<1>4. ASSUME NEW h, Keeps(ir, h, CallersOwed(work)) PROVE value' \in 0..Latest(h)
  <2>1. Latest(ir) \in Nat /\ Latest(h) \in Nat /\ Latest(ir) <= Latest(h)
    BY <1>1, <1>4, Sizes DEF Keeps
  <2>2. value \in 0..Latest(ir)
    BY DEF CodeInv
  <2> QED BY <1>3, <2>1, <2>2
<1>5. CASE ConvertsNull(nodes[n].type, to)
  <2>1. i \in Instruction /\ i.op # "phi"
    <3>1. to \in Type
      <4>1. to \in CastTarget
        BY <1>2, OperandsTyped
      <4>2. Kind(to) # "none"
        BY <1>5 DEF ConvertsNull
      <4> QED BY <4>1, <4>2, BaseTypes DEF CastTarget
    <3>2. PICK a \in Seq(Nat) : a = <<>>
      <4>1. <<>> \in Seq(Nat)
        OBVIOUS
      <4> QED BY <4>1
    <3>3. PICK t \in LlvmType : t = ToLlvm(to)
      BY <3>1, LlvmTypes
    <3>4. "const" \in OpCode /\ "zero" \in Constant
      BY DEF OpCode, Constant
    <3>5. Of(Instr("const", t, a), "zero") \in Instruction /\ Of(Instr("const", t, a), "zero").op = "const"
      BY <3>4, InstrIs
    <3> QED BY <3>2, <3>3, <3>5
  <2>2. PICK h : h = Emit(g, i)
    OBVIOUS
  <2>3. Extends(g, h) /\ Latest(g) \in Nat /\ Latest(h) = Latest(g) + 1
    <3> HIDE DEF i
    <3> QED BY <1>1, <2>1, <2>2, EmitExtends
  <2>4. Reserved(g, CallersOwed(work)) /\ Reserved(g, Owed(f, s))
    BY DEF Keeps, FrameOK
  <2>5. Keeps(ir, h, CallersOwed(work)) /\ Keeps(g, h, Owed(f, s)) /\ IrOK(h)
    <3>1. Keeps(g, h, CallersOwed(work)) /\ Keeps(g, h, Owed(f, s))
      BY <1>1, <2>3, <2>4, ExtendsKeeps
    <3> QED BY <1>1, <3>1, KeepsTwice DEF Keeps
  <2>6. FrameOK(f, s, h)
    BY <1>1, <2>5, FrameKept
  <2>7. Latest(h) \in 0..Latest(h) /\ Latest(h) # NoValue
    BY <2>3 DEF NoValue
  <2>8. PICK d : d = [f EXCEPT !.values = Append(@, Latest(h))]
    OBVIOUS
  <2>9. /\ FrameOK(d, s, h) /\ Len(d.values) = s /\ Owed(d, s) = Owed(f, s)
        /\ d.node = f.node /\ d.lvalue = f.lvalue
    BY <1>2, <2>5, <2>6, <2>7, <2>8, ValueAdded
  <2>10. PICK u : u = <<d>> \o Tail(work) /\ WorkOK(u, h)
    BY <1>1, <2>5, <2>9, Continued
  <2>11. ir' = h /\ work' = u
    BY <1>3, <1>5, <2>2, <2>8, <2>10
  <2>12. u # <<>>
    <3>1. work \in Seq(CallFrame(ir)) /\ d \in CallFrame(h)
      BY <1>1, <2>9 DEF WorkOK, FrameOK
    <3>2. PICK S : S = CallFrame(h)
      OBVIOUS
    <3>3. work \in Seq(S) /\ d \in S
      BY <1>1, <2>5, <3>1, <3>2, CallFramesKept, SeqIncludes
    <3>4. Len(u) = Len(work) /\ Len(work) # 0 /\ Len(<<>>) = 0
      BY <1>1, <2>10, <3>3, Fronts
    <3> QED BY <3>4
  <2> QED BY <1>3, <1>4, <2>5, <2>10, <2>11, <2>12, CodeInvFollows
<1>6. CASE ~ConvertsNull(nodes[n].type, to)
  <2>1. PICK u : u = <<Frame(n, TakesLvalue(f.node, s)), f>> \o Tail(work) /\ WorkOK(u, g)
    BY <1>1, Called
  <2>2. ir' = g /\ work' = u
    BY <1>3, <1>6, <2>1
  <2>3. u # <<>>
    <3>1. \A a, b, t : <<a, b>> \o t # <<>>
      OBVIOUS
    <3> QED BY <2>1, <3>1
  <2> QED BY <1>1, <1>3, <1>4, <2>1, <2>2, <2>3, CodeInvFollows
<1> QED BY <1>5, <1>6

LEMMA CallersReserved ==
  ASSUME CodeInv
  PROVE  Reserved(ir, CallersOwed(work))
<1>1. ASSUME NEW b \in CallersOwed(work)
      PROVE  b \in 1..Len(ir.blocks) /\ b # ir.at /\ ir.blocks[b] = EmptyBlock
  <2>1. PICK i \in 2..Len(work) : b \in Owed(work[i], Stage(work, i))
    BY DEF CallersOwed, OwedBy
  <2>2. i \in 1..Len(work)
    BY DEF CodeInv, WorkOK
  <2>3. FrameOK(work[i], Stage(work, i), ir)
    BY <2>2 DEF CodeInv, WorkOK
  <2> QED BY <2>1, <2>3 DEF FrameOK, Reserved
<1> QED BY <1>1 DEF Reserved

\* The node, the operands and the values of the active call.
LEMMA CurrentTyped ==
  ASSUME NodesInv, CodeInv, phase = "compile"
  PROVE  /\ Current \in 1..Len(nodes) /\ nodes[Current] \in Node /\ nodes[Current].type \in Type
         /\ ToLlvm(nodes[Current].type) \in LlvmType
         /\ Values \in Seq(0..Latest(ir)) /\ Values \in Seq(Nat)
         /\ FrameOK(work[1], Len(Values), ir) /\ work # <<>>
         /\ OperandCount(Current) \in Nat /\ Len(Values) <= OperandCount(Current)
         /\ \A k \in 1..Len(Values) : Values[k] \in 0..Latest(ir) /\ Values[k] \in Nat
<1>1. work \in Seq(CallFrame(ir)) /\ work # <<>> /\ 1 \in 1..Len(work)
  <2>1. work \in Seq(CallFrame(ir)) /\ work # <<>>
    BY DEF CodeInv, WorkOK
  <2>2. Len(work) \in Nat /\ Len(work) # 0
    BY <2>1
  <2> QED BY <2>1, <2>2
<1>2. Stage(work, 1) = Len(Values)
  BY DEF Stage, Values
<1>3. FrameOK(work[1], Len(Values), ir)
  BY <1>1, <1>2 DEF CodeInv, WorkOK
<1>4. Current \in 1..Len(nodes) /\ Values \in Seq(0..Latest(ir))
  BY <1>3 DEF FrameOK, CallFrame, Current, Values
<1>5. nodes[Current] \in Node
  BY <1>4 DEF NodesInv
<1>6. nodes[Current].type \in Type
  BY <1>5 DEF Node
<1>7. OperandCount(Current) \in Nat /\ Len(Values) <= OperandCount(Current)
  BY <1>3, <1>4, OperandsTyped DEF FrameOK, ValuesOK, Current, Values
<1>8. Values \in Seq(Nat)
  <2>1. PICK A : A = 0..Latest(ir)
    OBVIOUS
  <2>2. A \subseteq Nat /\ Values \in Seq(A)
    BY <1>4, <2>1
  <2> QED BY <2>2, SeqIncludes
<1>9. \A k \in 1..Len(Values) : Values[k] \in 0..Latest(ir) /\ Values[k] \in Nat
  <2>1. PICK A : A = 0..Latest(ir)
    OBVIOUS
  <2>2. Values \in Seq(A)
    BY <1>4, <2>1
  <2>3. \A k \in 1..Len(Values) : Values[k] \in A /\ Values[k] \in Nat
    BY <1>8, <2>2
  <2> QED BY <2>1, <2>3
<1> QED BY <1>1, <1>3, <1>4, <1>5, <1>6, <1>7, <1>8, <1>9, LlvmTypes

\* The emitted code returns the register of its last instruction.
LEMMA EmitReturns ==
  ASSUME NodesInv, CodeInv, nodes' = nodes, phase = "compile",
         NEW g, Keeps(ir, g, CallersOwed(work)), NEW i \in Instruction,
         i.op = "phi" => JoinsAll(i, Preds(g, g.at)),
         Return(Emit(g, i), Latest(Emit(g, i)))
  PROVE  CodeInv' /\ phase' \in {"compile", "compiled"}
<1>1. PICK h : h = Emit(g, i)
  OBVIOUS
<1>2. IrOK(ir) /\ IrOK(g) /\ Extends(g, h) /\ Latest(g) \in Nat /\ Latest(h) = Latest(g) + 1
  BY <1>1, EmitExtends DEF CodeInv, Keeps
<1>3. Keeps(ir, h, CallersOwed(work))
  <2>1. Keeps(g, h, CallersOwed(work))
    BY <1>2, ExtendsKeeps DEF Keeps
  <2> QED BY <1>2, <2>1, KeepsTwice
<1>4. Latest(h) \in 0..Latest(h) /\ Latest(h) # NoValue
  BY <1>2 DEF NoValue
<1>5. Return(h, Latest(h))
  BY <1>1
<1> QED BY <1>3, <1>4, <1>5, ReturnKeeps

\* An address is returned, or what is there is loaded.
LEMMA ReturnFromKeeps ==
  ASSUME NodesInv, CodeInv, nodes' = nodes, phase = "compile",
         NEW g, Keeps(ir, g, CallersOwed(work)), NEW address \in 0..Latest(g), work[1].lvalue => address # NoValue,
         ReturnFrom(g, address)
  PROVE  CodeInv' /\ phase' \in {"compile", "compiled"}
<1>1. CASE work[1].lvalue
  <2>1. Return(g, address)
    BY <1>1 DEF ReturnFrom
  <2> QED BY <1>1, <2>1, ReturnKeeps
<1>2. CASE ~work[1].lvalue
  <2> DEFINE i == Instr("load", ToLlvm(nodes[Current].type), <<address>>)
  <2>1. Return(Emit(g, i), Latest(Emit(g, i)))
    BY <1>2 DEF ReturnFrom
  <2>2. i \in Instruction /\ i.op # "phi"
    <3>1. PICK t \in LlvmType : t = ToLlvm(nodes[Current].type)
      <4>1. nodes[Current] \in Node
        BY CurrentTyped
      <4>2. nodes[Current].type \in Type
        BY <4>1 DEF Node
      <4> QED BY <4>2, LlvmTypes
    <3>2. PICK a \in Seq(Nat) : a = <<address>>
      <4>1. address \in Nat
        OBVIOUS
      <4>2. <<address>> \in Seq(Nat)
        BY <4>1
      <4> QED BY <4>2
    <3>3. "load" \in OpCode
      BY DEF OpCode
    <3>4. Instr("load", t, a) \in Instruction /\ Instr("load", t, a).op # "phi"
      BY <3>3, InstrIs
    <3> QED BY <3>1, <3>2, <3>4
  <2> HIDE DEF i
  <2> QED BY <2>1, <2>2, EmitReturns
<1> QED BY <1>1, <1>2

LEMMA CodeKept ==
  ASSUME CodeInv
  PROVE  /\ Keeps(ir, ir, CallersOwed(work))
         /\ \A g : Extends(ir, g) => Keeps(ir, g, CallersOwed(work))
BY CallersReserved, ExtendsKeeps, ExtendsItself DEF CodeInv

\* An instruction was emitted, whose register is returned or holds an address.
LEMMA EmitsOne ==
  ASSUME NodesInv, CodeInv, nodes' = nodes, phase = "compile", NEW i \in Instruction, i.op # "phi",
         \/ Return(Emit(ir, i), Latest(Emit(ir, i)))
         \/ ReturnFrom(Emit(ir, i), Latest(Emit(ir, i)))
  PROVE  CodeInv' /\ phase' \in {"compile", "compiled"}
<1>1. CASE Return(Emit(ir, i), Latest(Emit(ir, i)))
  BY <1>1, CodeKept, EmitReturns
<1>2. CASE ReturnFrom(Emit(ir, i), Latest(Emit(ir, i)))
  <2>1. PICK g : g = Emit(ir, i)
    OBVIOUS
  <2>2. Extends(ir, g) /\ Latest(ir) \in Nat /\ Latest(g) = Latest(ir) + 1
    BY <2>1, EmitExtends DEF CodeInv
  <2>3. Latest(g) \in 0..Latest(g) /\ Latest(g) # NoValue
    BY <2>2 DEF NoValue
  <2>4. ReturnFrom(g, Latest(g))
    BY <1>2, <2>1
  <2> QED BY <2>2, <2>3, <2>4, CodeKept, ReturnFromKeeps
<1> QED BY <1>1, <1>2

LEMMA VariableKeeps ==
  ASSUME NodesInv, CodeInv, CompileVariable
  PROVE  CodeInv' /\ phase' \in {"compile", "compiled"}
<1> DEFINE i == Of(Instr("address", "ptr", <<>>), nodes[Current].of)
<1>1. nodes' = nodes /\ phase = "compile" /\ ReturnFrom(Emit(ir, i), Latest(Emit(ir, i)))
  BY DEF CompileVariable, At, Compiling
<1>2. i \in Instruction /\ i.op # "phi"
  <2>1. nodes[Current].of \in Variable \cup Constant \cup {"none"}
    BY <1>1, CurrentTyped DEF Node
  <2>2. PICK a \in Seq(Nat) : a = <<>>
    <3>1. <<>> \in Seq(Nat)
      OBVIOUS
    <3> QED BY <3>1
  <2>3. "address" \in OpCode /\ "ptr" \in LlvmType
    BY DEF OpCode, LlvmType
  <2>4. PICK x : x = nodes[Current].of
    OBVIOUS
  <2>5. /\ Of(Instr("address", "ptr", a), x) \in Instruction
        /\ Of(Instr("address", "ptr", a), x).op = "address"
    BY <2>1, <2>3, <2>4, InstrIs
  <2> QED BY <2>2, <2>4, <2>5
<1> HIDE DEF i
<1> QED BY <1>1, <1>2, EmitsOne

LEMMA ConstantKeeps ==
  ASSUME NodesInv, CodeInv, CompileConstant
  PROVE  CodeInv' /\ phase' \in {"compile", "compiled"}
<1> DEFINE leaf == nodes[Current]
           op == CASE leaf.of = "zero" -> "null" [] leaf.of = "one" -> "const" [] OTHER -> leaf.of
           i == Of(Instr(op, ToLlvm(leaf.type), <<>>), leaf.of)
<1>1. nodes' = nodes /\ phase = "compile" /\ Return(Emit(ir, i), Latest(Emit(ir, i)))
  BY DEF CompileConstant, At, Compiling
<1>2. i \in Instruction /\ i.op # "phi"
  <2>1. leaf.of \in Constant
    <3>1. leaf.op = "constant"
      BY DEF CompileConstant, At, Op
    <3>2. Fits(leaf, Current)
      BY <1>1, CurrentTyped DEF NodesInv
    <3> QED BY <3>1, <3>2 DEF Fits
  <2>2. op \in {"null", "const", "call", "string"}
    BY <2>1 DEF Constant
  <2>3. op \in OpCode /\ op # "phi"
    BY <2>2 DEF OpCode
  <2>4. PICK a \in Seq(Nat) : a = <<>>
    <3>1. <<>> \in Seq(Nat)
      OBVIOUS
    <3> QED BY <3>1
  <2>5. PICK t \in LlvmType : t = ToLlvm(leaf.type)
    BY <1>1, CurrentTyped
  <2>6. PICK x : x = leaf.of
    OBVIOUS
  <2> HIDE DEF op
  <2>7. Of(Instr(op, t, a), x) \in Instruction /\ Of(Instr(op, t, a), x).op = op
    BY <2>1, <2>3, <2>6, InstrIs
  <2> QED BY <2>3, <2>4, <2>5, <2>6, <2>7
<1> HIDE DEF i
<1> QED BY <1>1, <1>2, EmitsOne

\* Instructions on the values of the operands.
LEMMA OperandInstr ==
  ASSUME NodesInv, CodeInv, phase = "compile"
  PROVE  /\ \A op \in OpCode, t \in LlvmType :
              Instr(op, t, Values) \in Instruction /\ Instr(op, t, Values).op = op
         /\ \A op \in OpCode, t \in LlvmType, x \in LlvmType \cup Constant \cup TypeKind :
              /\ Of(Instr(op, t, Values), x) \in Instruction
              /\ Of(Instr(op, t, Values), x).op = op
<1>1. PICK a \in Seq(Nat) : a = Values
  BY CurrentTyped
<1>2. ASSUME NEW op \in OpCode, NEW t \in LlvmType
      PROVE  /\ Instr(op, t, a) \in Instruction /\ Instr(op, t, a).op = op
             /\ \A x \in LlvmType \cup Constant \cup TypeKind :
                  Of(Instr(op, t, a), x) \in Instruction /\ Of(Instr(op, t, a), x).op = op
  BY InstrIs
<1> QED BY <1>1, <1>2

LEMMA NegationKeeps ==
  ASSUME NodesInv, CodeInv, CompileNegation
  PROVE  CodeInv' /\ phase' \in {"compile", "compiled"}
<1> DEFINE i == Instr("neg", "i32", Values)
<1>1. nodes' = nodes /\ phase = "compile" /\ Return(Emit(ir, i), Latest(Emit(ir, i)))
  BY DEF CompileNegation, At, Compiling
<1>2. i \in Instruction /\ i.op # "phi"
  <2>1. "neg" \in OpCode /\ "i32" \in LlvmType
    BY DEF OpCode, LlvmType, LlvmInt
  <2> QED BY <1>1, <2>1, OperandInstr
<1> HIDE DEF i
<1> QED BY <1>1, <1>2, EmitsOne

LEMMA MemberKeeps ==
  ASSUME NodesInv, CodeInv, CompileMember
  PROVE  CodeInv' /\ phase' \in {"compile", "compiled"}
<1> DEFINE i == Instr("field", "ptr", Values)
<1>1. nodes' = nodes /\ phase = "compile" /\ ReturnFrom(Emit(ir, i), Latest(Emit(ir, i)))
  BY DEF CompileMember, At, Compiling
<1>2. i \in Instruction /\ i.op # "phi"
  <2>1. "field" \in OpCode /\ "ptr" \in LlvmType
    BY DEF OpCode, LlvmType
  <2> QED BY <1>1, <2>1, OperandInstr
<1> HIDE DEF i
<1> QED BY <1>1, <1>2, EmitsOne

LEMMA ApplyKeeps ==
  ASSUME NodesInv, CodeInv, CompileApply
  PROVE  CodeInv' /\ phase' \in {"compile", "compiled"}
<1> DEFINE i == Instr("apply", ToLlvm(CharType), Values)
<1>1. nodes' = nodes /\ phase = "compile" /\ Return(Emit(ir, i), Latest(Emit(ir, i)))
  BY DEF CompileApply, At, Compiling
<1>2. i \in Instruction /\ i.op # "phi"
  <2>1. "apply" \in OpCode /\ "apply" # "phi"
    BY DEF OpCode
  <2>2. PICK t \in LlvmType : t = ToLlvm(CharType)
    BY LlvmTypes, NamedTypes
  <2> QED BY <1>1, <2>1, <2>2, OperandInstr
<1> HIDE DEF i
<1> QED BY <1>1, <1>2, EmitsOne

LEMMA SizeofKeeps ==
  ASSUME NodesInv, CodeInv, CompileSizeof
  PROVE  CodeInv' /\ phase' \in {"compile", "compiled"}
<1> DEFINE n == nodes[Current].kids[1]
           x == IF HasStringLength(n) THEN "string" ELSE ToLlvm(nodes[n].type)
           i == Of(Instr("size", "i32", <<>>), x)
<1>1. /\ nodes' = nodes /\ phase = "compile" /\ Op = "sizeof"
      /\ Return(Emit(ir, i), Latest(Emit(ir, i)))
  BY DEF CompileSizeof, At, Compiling
<1>2. n \in 1..Len(nodes)
  <2>1. Current \in 1..Len(nodes) /\ Fits(nodes[Current], Current) /\ Len(nodes) \in Nat
    BY <1>1, CurrentTyped DEF NodesInv
  <2>2. Len(nodes[Current].kids) = 1
    BY <1>1, <2>1, Arities DEF Fits, Op
  <2>3. n \in 1..(Current - 1)
    BY <2>1, <2>2 DEF Fits
  <2> QED BY <2>1, <2>3
<1>3. x \in LlvmType \cup Constant
  <2>1. nodes[n].type \in Type
    <3> HIDE DEF n
    <3>1. nodes[n] \in Node
      BY <1>2 DEF NodesInv
    <3> QED BY <3>1 DEF Node
  <2>2. ToLlvm(nodes[n].type) \in LlvmType
    BY <2>1, LlvmTypes
  <2> QED BY <2>2 DEF Constant
<1>4. i \in Instruction /\ i.op # "phi"
  <2>1. "size" \in OpCode /\ "i32" \in LlvmType
    BY DEF OpCode, LlvmType, LlvmInt
  <2>2. PICK a \in Seq(Nat) : a = <<>>
    <3>1. <<>> \in Seq(Nat)
      OBVIOUS
    <3> QED BY <3>1
  <2> HIDE DEF x
  <2>3. Of(Instr("size", "i32", a), x) \in Instruction /\ Of(Instr("size", "i32", a), x).op = "size"
    BY <1>3, <2>1, InstrIs
  <2> QED BY <2>2, <2>3
<1> HIDE DEF i
<1> QED BY <1>1, <1>4, EmitsOne

LEMMA TwoArguments ==
  ASSUME NEW op \in OpCode, NEW t \in LlvmType, NEW l \in Nat, NEW r \in Nat
  PROVE  /\ Instr(op, t, <<l, r>>) \in Instruction /\ Instr(op, t, <<l, r>>).op = op
         /\ \A x \in LlvmType \cup TypeKind :
              Of(Instr(op, t, <<l, r>>), x) \in Instruction /\ Of(Instr(op, t, <<l, r>>), x).op = op
<1>1. PICK a \in Seq(Nat) : a = <<l, r>>
  <2>1. <<l, r>> \in Seq(Nat)
    OBVIOUS
  <2> QED BY <2>1
<1>2. /\ Instr(op, t, a) \in Instruction /\ Instr(op, t, a).op = op
      /\ \A x \in LlvmType \cup TypeKind :
           Of(Instr(op, t, a), x) \in Instruction /\ Of(Instr(op, t, a), x).op = op
  BY InstrIs
<1> QED BY <1>1, <1>2

LEMMA ShiftIs ==
  ASSUME NEW t \in Type, NEW l \in Nat, NEW r \in Nat
  PROVE  /\ Pointed(t) \in TypeKind
         /\ \A op \in {"shift", "shift back"} :
              Shift(op, l, r, t) \in Instruction /\ Shift(op, l, r, t).op # "phi"
<1>1. Pointed(t) \in TypeKind
  <2>1. CASE Kind(t) = "pointer"
    <3>1. Inner(t) \in Type
      BY <2>1, TypeShape DEF LvalueType
    <3> QED BY <2>1, <3>1, TypeShape DEF Pointed
  <2>2. CASE Kind(t) # "pointer"
    BY <2>2 DEF Pointed, TypeKind
  <2> QED BY <2>1, <2>2
<1>2. PICK x \in TypeKind : x = Pointed(t)
  BY <1>1
<1>3. ASSUME NEW op \in {"shift", "shift back"}
      PROVE  Shift(op, l, r, t) \in Instruction /\ Shift(op, l, r, t).op # "phi"
  <2>1. op \in OpCode /\ op # "phi" /\ "ptr" \in LlvmType
    BY DEF OpCode, LlvmType
  <2>2. Of(Instr(op, "ptr", <<l, r>>), x) \in Instruction /\ Of(Instr(op, "ptr", <<l, r>>), x).op = op
    <3>1. PICK o \in OpCode : o = op
      BY <2>1
    <3>2. PICK p \in LlvmType : p = "ptr"
      BY <2>1
    <3>3. x \in LlvmType \cup TypeKind
      OBVIOUS
    <3>4. \A y \in LlvmType \cup TypeKind :
            Of(Instr(o, p, <<l, r>>), y) \in Instruction /\ Of(Instr(o, p, <<l, r>>), y).op = o
      BY TwoArguments
    <3>5. Of(Instr(o, p, <<l, r>>), x) \in Instruction /\ Of(Instr(o, p, <<l, r>>), x).op = o
      BY <3>3, <3>4
    <3> QED BY <3>1, <3>2, <3>5
  <2> QED BY <1>2, <2>1, <2>2 DEF Shift
<1> QED BY <1>1, <1>3

LEMMA CastTypesAreTypes ==
  ASSUME NodesInv, NEW n \in 1..Len(nodes), NEW k \in 1..OperandCount(n)
  PROVE  CastType(n, k) \in Type /\ nodes[Operand(n, k)].type \in Type
<1>1. Operand(n, k) \in 1..Len(nodes) /\ CastOf(n, k) \in CastTarget
  BY OperandsTyped
<1>2. nodes[Operand(n, k)] \in Node
  BY <1>1 DEF NodesInv
<1>3. nodes[Operand(n, k)].type \in Type
  BY <1>2 DEF Node
<1> QED BY <1>1, <1>3 DEF CastType, CastTarget

\* An operator of two operands, both compiled.
LEMMA TwoValues ==
  ASSUME NodesInv, CodeInv, phase = "compile", Len(Values) = 2
  PROVE  /\ Values[1] \in 0..Latest(ir) /\ Values[2] \in 0..Latest(ir)
         /\ Values[1] \in Nat /\ Values[2] \in Nat
         /\ 1 \in 1..OperandCount(Current) /\ 2 \in 1..OperandCount(Current)
<1>1. 1 \in 1..Len(Values) /\ 2 \in 1..Len(Values)
  OBVIOUS
<1>2. OperandCount(Current) \in Nat /\ Len(Values) <= OperandCount(Current)
  BY CurrentTyped
<1>3. 1 \in 1..OperandCount(Current) /\ 2 \in 1..OperandCount(Current)
  BY <1>2
<1> QED BY <1>1, <1>3, CurrentTyped

LEMMA IndexKeeps ==
  ASSUME NodesInv, CodeInv, CompileIndex
  PROVE  CodeInv' /\ phase' \in {"compile", "compiled"}
<1> DEFINE i == Shift("shift", Values[1], Values[2], nodes[Operand(Current, 1)].type)
<1>1. /\ nodes' = nodes /\ phase = "compile" /\ ReturnFrom(Emit(ir, i), Latest(Emit(ir, i)))
      /\ Len(Values) = 2
  BY DEF CompileIndex, At, Compiling
<1>2. i \in Instruction /\ i.op # "phi"
  <2>1. Values[1] \in Nat /\ Values[2] \in Nat /\ 1 \in 1..OperandCount(Current)
    BY <1>1, TwoValues
  <2>2. PICK t \in Type : t = nodes[Operand(Current, 1)].type
    BY <1>1, <2>1, CurrentTyped, CastTypesAreTypes
  <2> QED BY <2>1, <2>2, ShiftIs
<1> HIDE DEF i
<1> QED BY <1>1, <1>2, EmitsOne

LEMMA BinaryKeeps ==
  ASSUME NodesInv, CodeInv, CompileBinary
  PROVE  CodeInv' /\ phase' \in {"compile", "compiled"}
<1> DEFINE l == Values[1]
           r == Values[2]
           i == CASE Op = "*" -> Instr("mul", "i32", <<l, r>>)
                  [] Op = "+" -> AddCode(l, r)
                  [] Op = "-" -> SubtractCode(l, r)
                  [] OTHER    -> Instr(Op, "i1", <<l, r>>)
<1>1. /\ nodes' = nodes /\ phase = "compile" /\ Return(Emit(ir, i), Latest(Emit(ir, i)))
      /\ Len(Values) = 2 /\ Op \in {"*", "+", "-"} \cup Comparison
  BY DEF CompileBinary, At, Compiling
<1>2. l \in Nat /\ r \in Nat /\ 1 \in 1..OperandCount(Current) /\ 2 \in 1..OperandCount(Current)
  BY <1>1, TwoValues
<1>3. PICK s \in Type : s = CastType(Current, 1)
  BY <1>1, <1>2, CurrentTyped, CastTypesAreTypes
<1>4. PICK t \in Type : t = CastType(Current, 2)
  BY <1>1, <1>2, CurrentTyped, CastTypesAreTypes
<1>5. \A a, b \in Nat : \A u \in Type :
        /\ Shift("shift", a, b, u) \in Instruction /\ Shift("shift", a, b, u).op # "phi"
        /\ Shift("shift back", a, b, u) \in Instruction /\ Shift("shift back", a, b, u).op # "phi"
  BY ShiftIs
<1>6. \A op \in {"mul", "add", "sub"} \cup Comparison : op \in OpCode /\ op # "phi"
  BY DEF OpCode, Comparison
<1>7. "difference" \in OpCode /\ {"i32", "i1"} \subseteq LlvmType
  BY DEF OpCode, LlvmType, LlvmInt
<1>8. \A op \in {"mul", "add", "sub"} \cup Comparison : \A w \in {"i32", "i1"} :
        Instr(op, w, <<l, r>>) \in Instruction /\ Instr(op, w, <<l, r>>).op # "phi"
  <2> HIDE DEF l, r
  <2> QED BY <1>2, <1>6, <1>7, TwoArguments
<1>9. \A u \in Type : /\ Of(Instr("difference", "i32", <<l, r>>), Pointed(u)) \in Instruction
                      /\ Of(Instr("difference", "i32", <<l, r>>), Pointed(u)).op # "phi"
  <2> HIDE DEF l, r
  <2> TAKE u \in Type
  <2>1. PICK x \in TypeKind : x = Pointed(u)
    BY <1>2, ShiftIs
  <2>2. /\ Of(Instr("difference", "i32", <<l, r>>), x) \in Instruction
        /\ Of(Instr("difference", "i32", <<l, r>>), x).op = "difference"
    BY <1>2, <1>7, TwoArguments
  <2> QED BY <2>1, <2>2
<1> HIDE DEF l, r
<1>10. AddCode(l, r) \in Instruction /\ AddCode(l, r).op # "phi"
  <2>1. AddCode(l, r) \in {Shift("shift", l, r, s), Shift("shift", r, l, t), Instr("add", "i32", <<l, r>>)}
    BY <1>3, <1>4 DEF AddCode
  <2>2. Instr("add", "i32", <<l, r>>) \in Instruction /\ Instr("add", "i32", <<l, r>>).op # "phi"
    BY <1>8
  <2>3. /\ Shift("shift", l, r, s) \in Instruction /\ Shift("shift", l, r, s).op # "phi"
        /\ Shift("shift", r, l, t) \in Instruction /\ Shift("shift", r, l, t).op # "phi"
    BY <1>2, <1>5
  <2> QED BY <2>1, <2>2, <2>3
<1>11. SubtractCode(l, r) \in Instruction /\ SubtractCode(l, r).op # "phi"
  <2>1. SubtractCode(l, r) \in {Of(Instr("difference", "i32", <<l, r>>), Pointed(s)),
                                Of(Instr("difference", "i32", <<l, r>>), Pointed(t)),
                                Shift("shift back", l, r, s), Instr("sub", "i32", <<l, r>>)}
    BY <1>3, <1>4 DEF SubtractCode
  <2>2. Instr("sub", "i32", <<l, r>>) \in Instruction /\ Instr("sub", "i32", <<l, r>>).op # "phi"
    BY <1>8
  <2>3. Shift("shift back", l, r, s) \in Instruction /\ Shift("shift back", l, r, s).op # "phi"
    BY <1>2, <1>5
  <2> QED BY <1>9, <2>1, <2>2, <2>3
<1>12. i \in Instruction /\ i.op # "phi"
  <2>1. CASE Op \in {"*", "+", "-"}
    <3>1. Instr("mul", "i32", <<l, r>>) \in Instruction /\ Instr("mul", "i32", <<l, r>>).op # "phi"
      BY <1>8
    <3> QED BY <1>10, <1>11, <2>1, <3>1
  <2>2. CASE Op \in Comparison
    <3>1. Instr(Op, "i1", <<l, r>>) \in Instruction /\ Instr(Op, "i1", <<l, r>>).op # "phi"
      BY <1>8, <2>2
    <3>2. Op \notin {"*", "+", "-"}
      BY <2>2 DEF Comparison
    <3> QED BY <3>1, <3>2
  <2> QED BY <1>1, <2>1, <2>2
<1> HIDE DEF i
<1> QED BY <1>1, <1>12, EmitsOne

LEMMA NotKeeps ==
  ASSUME NodesInv, CodeInv, CompileNot
  PROVE  CodeInv' /\ phase' \in {"compile", "compiled"}
<1> DEFINE b == ToBool(ir, Values[1])
           v == Converted(ir, b, Values[1])
           i == Instr("is zero", "i32", <<v>>)
<1>1. /\ nodes' = nodes /\ phase = "compile" /\ Return(Emit(b, i), Latest(Emit(b, i)))
      /\ Len(Values) = 1
  BY DEF CompileNot, At, Compiling
<1>2. Values[1] \in 0..Latest(ir)
  <2>1. Len(Values) = 1
    BY <1>1
  <2>2. 1 \in 1..Len(Values)
    BY <2>1
  <2> QED BY <1>1, <2>2, CurrentTyped
<1>3. IsConversion(ir, b, Values[1])
  BY <1>2, ToBoolConverts DEF CodeInv
<1>4. Keeps(ir, b, CallersOwed(work))
  BY <1>3, CodeKept DEF IsConversion
<1>5. i \in Instruction /\ i.op # "phi"
  <2>1. v \in Nat
    <3>1. v \in 0..Latest(b)
      BY <1>3 DEF IsConversion
    <3> HIDE DEF v, b
    <3> QED BY <3>1
  <2> HIDE DEF v
  <2>2. PICK a \in Seq(Nat) : a = <<v>>
    <3>1. <<v>> \in Seq(Nat)
      BY <2>1
    <3> QED BY <3>1
  <2>3. "is zero" \in OpCode /\ "i32" \in LlvmType
    BY DEF OpCode, LlvmType, LlvmInt
  <2>4. Instr("is zero", "i32", a) \in Instruction /\ Instr("is zero", "i32", a).op = "is zero"
    BY <2>3, InstrIs
  <2> QED BY <2>2, <2>4
<1> HIDE DEF i, b
<1> QED BY <1>1, <1>4, <1>5, EmitReturns

LEMMA AssignKeeps ==
  ASSUME NodesInv, CodeInv, CompileAssign
  PROVE  CodeInv' /\ phase' \in {"compile", "compiled"}
<1> DEFINE i == Of(Instr("store", "void", Values), ToLlvm(nodes[Current].type))
<1>1. /\ nodes' = nodes /\ phase = "compile" /\ Return(Emit(ir, i), Values[2])
      /\ Len(Values) = 2 /\ nodes[Current].op = "="
  BY DEF CompileAssign, At, Compiling, Op
<1>2. i \in Instruction /\ i.op # "phi"
  <2>1. "store" \in OpCode /\ "store" # "phi" /\ "void" \in LlvmType
    BY DEF OpCode, LlvmType
  <2>2. PICK t \in LlvmType : t = ToLlvm(nodes[Current].type)
    BY <1>1, CurrentTyped
  <2>3. /\ Of(Instr("store", "void", Values), t) \in Instruction
        /\ Of(Instr("store", "void", Values), t).op = "store"
    BY <1>1, <2>1, OperandInstr
  <2> QED BY <2>2, <2>3
<1> HIDE DEF i
<1>3. PICK g : g = Emit(ir, i)
  OBVIOUS
<1>4. Extends(ir, g) /\ Latest(ir) \in Nat /\ Latest(g) = Latest(ir) + 1
  BY <1>2, <1>3, EmitExtends DEF CodeInv
<1>5. Values[2] \in 0..Latest(g) /\ Values[2] # NoValue
  <2>1. Values[2] \in 0..Latest(ir) /\ 2 \in 1..Len(Values)
    BY <1>1, TwoValues
  <2>2. nodes[Operand(Current, 2)].type # VoidType
    <3>1. Fits(nodes[Current], Current)
      BY <1>1, CurrentTyped DEF NodesInv
    <3> QED BY <1>1, <3>1 DEF Fits, Operand
  <2>3. Values[2] # NoValue
    <3>1. ValuesOK(work[1])
      BY <1>1, CurrentTyped DEF FrameOK
    <3> QED BY <2>1, <2>2, <3>1 DEF ValuesOK, Values, Current
  <2> QED BY <1>4, <2>1, <2>3
<1>6. Return(g, Values[2])
  BY <1>1, <1>3
<1> QED BY <1>1, <1>4, <1>5, <1>6, CodeKept, ReturnKeeps

\* The address of an lvalue is a value.
LEMMA DereferenceKeeps ==
  ASSUME NodesInv, CodeInv, CompileDereference
  PROVE  CodeInv' /\ phase' \in {"compile", "compiled"}
<1>1. /\ nodes' = nodes /\ phase = "compile" /\ ReturnFrom(ir, Values[1])
      /\ Len(Values) = 1 /\ nodes[Current].op = "dereference"
  BY DEF CompileDereference, At, Compiling, Op
<1>2. 1 \in 1..Len(Values)
  <2>1. Len(Values) = 1
    BY <1>1
  <2> QED BY <2>1
<1>3. Values[1] \in 0..Latest(ir)
  BY <1>1, <1>2, CurrentTyped
<1>4. Kind(nodes[Operand(Current, 1)].type) = "pointer"
  <2>1. Fits(nodes[Current], Current)
    BY <1>1, CurrentTyped DEF NodesInv
  <2> QED BY <1>1, <2>1 DEF Fits, Operand
<1>5. Values[1] # NoValue
  <2>1. ValuesOK(work[1])
    BY <1>1, CurrentTyped DEF FrameOK
  <2>2. nodes[Operand(Current, 1)].type # VoidType
    BY <1>4, BaseTypes
  <2> QED BY <1>2, <2>1, <2>2 DEF ValuesOK, Values, Current
<1> QED BY <1>1, <1>3, <1>5, CodeKept, ReturnFromKeeps

LEMMA ReferenceKeeps ==
  ASSUME NodesInv, CodeInv, CompileReference
  PROVE  CodeInv' /\ phase' \in {"compile", "compiled"}
<1>1. /\ nodes' = nodes /\ phase = "compile" /\ Return(ir, Values[1])
      /\ Len(Values) = 1 /\ nodes[Current].op = "reference"
  BY DEF CompileReference, At, Compiling, Op
<1>2. 1 \in 1..Len(Values)
  <2>1. Len(Values) = 1
    BY <1>1
  <2> QED BY <2>1
<1>3. Values[1] \in 0..Latest(ir)
  BY <1>1, <1>2, CurrentTyped
<1>4. Values[1] # NoValue
  <2>1. ValuesOK(work[1])
    BY <1>1, CurrentTyped DEF FrameOK
  <2>2. TakesLvalue(Current, 1)
    BY <1>1 DEF TakesLvalue
  <2> QED BY <1>2, <2>1, <2>2 DEF ValuesOK, Values, Current
<1> QED BY <1>1, <1>3, <1>4, CodeKept, ReturnKeeps

\* An operand that begins in the block where the others have ended.
LEMMA NextOperandKeeps ==
  ASSUME NodesInv, CodeInv, nodes' = nodes, phase = "compile",
         Op \notin Branching \/ Len(Values) = 0,
         NEW s, s = Len(Values) + 1, s <= OperandCount(Current), CallOperand(work[1], ir, s)
  PROVE  CodeInv' /\ phase' = "compile"
<1>1. PICK f : f = work[1]
  OBVIOUS
<1>2. FrameOK(f, Len(f.values), ir) /\ s = Len(f.values) + 1 /\ s <= OperandCount(f.node)
  BY <1>1, CurrentTyped DEF Values, Current
<1>3. Owed(f, s) = {} /\ Joins(f, s, ir)
  <2>1. CASE Op \notin Branching
    <3>1. OpOf(f) \notin Logical /\ OpOf(f) # "?:"
      BY <1>1, <2>1 DEF OpOf, Op, Current, Branching
    <3> QED BY <3>1 DEF Owed, Joins
  <2>2. CASE Len(Values) = 0
    <3>1. s # 2 /\ s # 3
      BY <2>2
    <3> QED BY <3>1 DEF Owed, Joins
  <2> QED BY <2>1, <2>2
<1>4. FrameOK(f, s, ir)
  BY <1>2, <1>3 DEF FrameOK, Reserved
<1>5. CallOperand(f, ir, s)
  BY <1>1
<1> QED BY <1>1, <1>2, <1>3, <1>4, <1>5, CodeKept, CallKeeps

LEMMA OperandKeeps ==
  ASSUME NodesInv, CodeInv, CompileOperand
  PROVE  CodeInv' /\ phase' = "compile"
<1>1. /\ nodes' = nodes /\ phase = "compile" /\ Op \notin Branching
      /\ Len(Values) < OperandCount(Current) /\ CallOperand(work[1], ir, Len(Values) + 1)
  BY DEF CompileOperand, Compiling
<1>2. Len(Values) \in Nat /\ OperandCount(Current) \in Nat
  BY <1>1, CurrentTyped
<1>3. PICK s : s = Len(Values) + 1
  OBVIOUS
<1>4. s <= OperandCount(Current) /\ CallOperand(work[1], ir, s)
  BY <1>1, <1>2, <1>3
<1> QED BY <1>1, <1>3, <1>4, NextOperandKeeps

LEMMA BranchingOperands ==
  ASSUME NodesInv, CodeInv, phase = "compile", Op \in Branching
  PROVE  /\ OpOf(work[1]) = Op /\ work[1].node = Current
         /\ Op \in Logical => OperandCount(Current) = 2 /\ Op # "?:"
         /\ Op = "?:" => OperandCount(Current) = 3 /\ Op \notin Logical
<1>1. nodes[Current].op \in Operator \ {"sizeof"}
  BY DEF Op, Branching, Logical, Operator, Prefix
<1>2. OperandCount(Current) = Arity(nodes[Current].op)
  BY <1>1, CurrentTyped, OperandsTyped
<1> QED BY <1>2, Arities DEF Op, OpOf, Current, Logical

LEMMA ConditionKeeps ==
  ASSUME NodesInv, CodeInv, CompileCondition
  PROVE  CodeInv' /\ phase' = "compile"
<1>1. /\ nodes' = nodes /\ phase = "compile" /\ Op \in Branching /\ Len(Values) = 0
      /\ CallOperand(work[1], ir, 1)
  BY DEF CompileCondition, At, Compiling
<1>2. OperandCount(Current) \in {2, 3}
  BY <1>1, BranchingOperands DEF Branching
<1>3. PICK s : s = Len(Values) + 1
  OBVIOUS
<1>4. s = 1 /\ s <= OperandCount(Current)
  BY <1>1, <1>2, <1>3
<1>5. CallOperand(work[1], ir, s)
  BY <1>1, <1>4
<1> QED BY <1>1, <1>3, <1>4, <1>5, NextOperandKeeps

(***************************************************************************)
(* The operators that branch.                                              *)
(***************************************************************************)
LEMMA NoPredecessors ==
  ASSUME NEW g, IrOK(g), NEW b, b \notin 1..Len(g.blocks)
  PROVE  Preds(g, b) = {}
BY DEF IrOK, CodeOK, Preds

\* What the current call has reserved, it has not reserved for a caller.
LEMMA OwedApart ==
  ASSUME CodeInv, phase = "compile"
  PROVE  Owed(work[1], Len(Values)) \cap CallersOwed(work) = {}
<1>1. work # <<>> /\ WorkOK(work, ir)
  BY DEF CodeInv
<1>2. Len(work) \in Nat /\ 1 \in 1..Len(work)
  BY <1>1 DEF WorkOK
<1>3. Owed(work[1], Len(Values)) = OwedBy(work, 1)
  BY DEF OwedBy, Stage, Values
<1>4. ASSUME NEW i \in 2..Len(work) PROVE OwedBy(work, 1) \cap OwedBy(work, i) = {}
  <2>1. i \in 1..Len(work) /\ i # 1
    BY <1>2
  <2> QED BY <1>1, <1>2, <2>1 DEF WorkOK
<1> QED BY <1>3, <1>4 DEF CallersOwed

LEMMA FrameUpdated ==
  ASSUME NEW g, NEW h, NEW f \in CallFrame(g), NEW values \in Seq(0..Latest(h)),
         NEW blocks \in Seq(1..Len(h.blocks)), NEW e, e = [f EXCEPT !.values = values, !.blocks = blocks]
  PROVE  /\ e \in CallFrame(h) /\ e.values = values /\ e.blocks = blocks
         /\ e.node = f.node /\ e.lvalue = f.lvalue /\ OpOf(e) = OpOf(f)
BY DEF CallFrame, OpOf

LEMMA BlocksUpdated ==
  ASSUME NEW g, NEW f \in CallFrame(g), NEW blocks
  PROVE  /\ [f EXCEPT !.blocks = blocks] = [f EXCEPT !.values = f.values, !.blocks = blocks]
         /\ \A b : [f EXCEPT !.blocks[1] = b] = [f EXCEPT !.values = f.values, !.blocks = [f.blocks EXCEPT ![1] = b]]
BY DEF CallFrame

\* The condition of a branch, as an i1.
LEMMA Decided ==
  ASSUME NodesInv, CodeInv, phase = "compile", NEW k \in 1..Len(Values),
         NEW g, g = ToBool(ir, Values[k]), NEW v, v = Converted(ir, g, Values[k])
  PROVE  /\ Keeps(ir, g, CallersOwed(work)) /\ Extends(ir, g) /\ IrOK(g)
         /\ v \in 0..Latest(g) /\ v \in Nat
         /\ v = NoValue => Values[k] = NoValue
<1>1. Values[k] \in 0..Latest(ir)
  BY CurrentTyped
<1>2. IsConversion(ir, g, Values[k])
  BY <1>1, ToBoolConverts DEF CodeInv
<1>3. Extends(ir, g) /\ v \in 0..Latest(g) /\ (v = 0 => Values[k] = 0)
  BY <1>2 DEF IsConversion
<1>4. Keeps(ir, g, CallersOwed(work)) /\ IrOK(g)
  BY <1>3, CodeKept DEF Extends
<1>5. v \in Nat
  BY <1>3
<1> QED BY <1>3, <1>4, <1>5 DEF NoValue

\* A value that was converted takes the place of the one it was converted from.
LEMMA FirstConverted ==
  ASSUME NodesInv, CodeInv, phase = "compile", Len(Values) = 1, NEW g, NEW v \in 0..Latest(g),
         v = NoValue => Values[1] = NoValue,
         NEW f, f.node = work[1].node, f.values = <<v>>
  PROVE  ValuesOK(f)
<1>1. /\ ValuesOK(work[1]) /\ Values = work[1].values /\ f.node = Current
      /\ Len(Values) <= OperandCount(Current)
  BY CurrentTyped DEF FrameOK, Values, Current
<1>2. Len(f.values) = 1 /\ f.values[1] = v
  OBVIOUS
<1>3. ASSUME v = NoValue
      PROVE  nodes[Operand(f.node, 1)].type = VoidType /\ ~TakesLvalue(f.node, 1)
  <2>1. 1 \in 1..Len(Values) /\ Values[1] = NoValue
    BY <1>3
  <2> QED BY <1>1, <2>1 DEF ValuesOK, Current
<1>4. ASSUME NEW k \in 1..Len(f.values), f.values[k] = NoValue
      PROVE  nodes[Operand(f.node, k)].type = VoidType /\ ~TakesLvalue(f.node, k)
  <2>1. k = 1
    BY <1>2
  <2> QED BY <1>2, <1>3, <1>4, <2>1
<1>5. Len(f.values) <= OperandCount(f.node)
  BY <1>1, <1>2
<1> QED BY <1>4, <1>5 DEF ValuesOK

\* The left operand of a logical operator has decided: f is the call that goes on
\* with the right one, in the code h.
BranchesLogical(g, lhs, h, f) ==
  /\ Op \in Logical /\ Len(Values) = 1
  /\ g = ToBool(ir, Values[1]) /\ lhs = Converted(ir, g, Values[1])
  /\ Keeps(ir, h, CallersOwed(work)) /\ IrOK(h) /\ h.regs = g.regs
  /\ f.node = work[1].node /\ f.lvalue = work[1].lvalue /\ f.values = <<lhs>>
  /\ OpOf(f) = OpOf(work[1]) /\ OperandCount(f.node) = 2
  /\ FrameOK(f, 2, h) /\ Owed(f, 2) \cap CallersOwed(work) = {} /\ CallOperand(f, h, 2)


LEMMA BranchLogicalParts ==
  ASSUME NodesInv, CodeInv, BranchLogical
  PROVE  /\ nodes' = nodes /\ phase = "compile"
         /\ \E g, lhs, h, f : BranchesLogical(g, lhs, h, f)
<1> DEFINE O == CallersOwed(work)
<1>1. /\ nodes' = nodes /\ phase = "compile" /\ Op \in Logical /\ Len(Values) = 1
      /\ \E g, lhs, rhs, end, h, f :
           /\ g = ToBool(ir, Values[1]) /\ lhs = Converted(ir, g, Values[1])
           /\ rhs = Len(g.blocks) + 1 /\ end = rhs + 1
           /\ h = SetInsertPoint(WithBlocks(EndWith(g, lhs, Targets(Op, rhs, end)), 2), rhs)
           /\ f = [work[1] EXCEPT !.values = <<lhs>>, !.blocks = <<g.at, end>>]
           /\ CallOperand(f, h, 2)
  BY DEF BranchLogical, At, Compiling
<1>2. PICK g, lhs, rhs, end, h, f :
           /\ g = ToBool(ir, Values[1]) /\ lhs = Converted(ir, g, Values[1])
           /\ rhs = Len(g.blocks) + 1 /\ end = rhs + 1
           /\ h = SetInsertPoint(WithBlocks(EndWith(g, lhs, Targets(Op, rhs, end)), 2), rhs)
           /\ f = [work[1] EXCEPT !.values = <<lhs>>, !.blocks = <<g.at, end>>]
           /\ CallOperand(f, h, 2)
  BY <1>1
<1>3. 1 \in 1..Len(Values)
  <2>1. Len(Values) = 1
    BY <1>1
  <2> QED BY <2>1
<1>4. /\ Keeps(ir, g, O) /\ IrOK(g) /\ lhs \in 0..Latest(g) /\ lhs \in Nat
      /\ lhs = NoValue => Values[1] = NoValue
  BY <1>1, <1>2, <1>3, Decided
<1>5. PICK m \in Nat : m = Len(g.blocks)
  BY <1>4, Sizes
<1>6. rhs = m + 1 /\ end = m + 2 /\ rhs \in (m + 1)..(m + 2) /\ end \in (m + 1)..(m + 2)
  BY <1>2, <1>5
<1>7. PICK to \in Seq(Nat) : to = Targets(Op, rhs, end)
  <2>1. <<rhs, end>> \in Seq(Nat) /\ <<end, rhs>> \in Seq(Nat)
    BY <1>6
  <2> QED BY <2>1 DEF Targets
<1>8. /\ \A k \in 1..Len(to) : to[k] \in (m + 1)..(m + 2)
      /\ IsTarget(to, end)
  <2>1. to = <<rhs, end>> \/ to = <<end, rhs>>
    BY <1>7 DEF Targets
  <2>2. CASE to = <<rhs, end>>
    <3>1. Len(to) = 2 /\ to[1] = rhs /\ to[2] = end
      BY <2>2
    <3> QED BY <1>6, <3>1 DEF IsTarget
  <2>3. CASE to = <<end, rhs>>
    <3>1. Len(to) = 2 /\ to[1] = end /\ to[2] = rhs
      BY <2>3
    <3> QED BY <1>6, <3>1 DEF IsTarget
  <2> QED BY <2>1, <2>2, <2>3
<1>9. Branched(g, to, 2, rhs, h)
  BY <1>2, <1>4, <1>5, <1>6, <1>7, <1>8, BranchToNew
<1>10. Reserved(g, O) /\ \A b \in O : b \in 1..m
  BY <1>4, <1>5 DEF Keeps, Reserved
<1>11. Keeps(g, h, O)
  <2>1. rhs \notin O /\ \A b \in O : ~IsTarget(to, b)
    BY <1>6, <1>8, <1>10 DEF IsTarget
  <2> HIDE DEF O
  <2> QED BY <1>4, <1>9, <1>10, <2>1, BranchKeeps
<1>12. Keeps(ir, h, O)
  BY <1>4, <1>11, KeepsTwice DEF CodeInv
<1>13. /\ IrOK(h) /\ h.at = rhs /\ Latest(h) = Latest(g) /\ Len(h.blocks) = m + 2
       /\ h.blocks[end] = EmptyBlock
  BY <1>5, <1>6, <1>9 DEF Branched, Latest
<1>14. Preds(h, end) = {g.at} /\ g.at \in 1..m
  <2>1. Preds(g, end) = {}
    BY <1>4, <1>5, <1>6, NoPredecessors
  <2> QED BY <1>4, <1>5, <1>8, <1>9, <2>1, Sizes DEF Branched
<1>15. /\ f \in CallFrame(h) /\ f.values = <<lhs>> /\ f.blocks = <<g.at, end>>
       /\ f.node = work[1].node /\ f.lvalue = work[1].lvalue /\ OpOf(f) = OpOf(work[1])
  <2>1. PICK c \in CallFrame(ir) : c = work[1]
    BY <1>1, CurrentTyped DEF FrameOK
  <2>2. PICK values \in Seq(0..Latest(h)) : values = <<lhs>>
    <3>1. lhs \in 0..Latest(h)
      BY <1>4, <1>13
    <3>2. <<lhs>> \in Seq(0..Latest(h))
      BY <3>1
    <3> QED BY <3>2
  <2>3. PICK blocks \in Seq(1..Len(h.blocks)) : blocks = <<g.at, end>>
    <3>1. g.at \in 1..Len(h.blocks) /\ end \in 1..Len(h.blocks)
      BY <1>6, <1>13, <1>14
    <3>2. <<g.at, end>> \in Seq(1..Len(h.blocks))
      BY <3>1
    <3> QED BY <3>2
  <2>4. f = [c EXCEPT !.values = values, !.blocks = blocks]
    BY <1>2, <2>1, <2>2, <2>3
  <2>5. /\ f \in CallFrame(h) /\ f.values = values /\ f.blocks = blocks
        /\ f.node = c.node /\ f.lvalue = c.lvalue /\ OpOf(f) = OpOf(c)
    BY <2>4 DEF CallFrame, OpOf
  <2> QED BY <2>1, <2>2, <2>3, <2>5
<1>16. /\ OpOf(f) \in Logical /\ OpOf(f) # "?:" /\ OperandCount(f.node) = 2
  BY <1>1, <1>15, BranchingOperands DEF Branching
<1>17. Len(f.values) = 1 /\ Len(f.blocks) = 2 /\ f.blocks[1] = g.at /\ f.blocks[2] = end
  BY <1>15
<1>18. Owed(f, 2) = {end}
  BY <1>16, <1>17 DEF Owed
<1>19. FrameOK(f, 2, h)
  <2>1. ValuesOK(f)
    BY <1>1, <1>4, <1>15, FirstConverted
  <2>2. Reserved(h, Owed(f, 2))
    BY <1>6, <1>13, <1>18 DEF Reserved
  <2>3. Joins(f, 2, h)
    BY <1>14, <1>16, <1>17 DEF Joins
  <2> QED BY <1>15, <2>1, <2>2, <2>3 DEF FrameOK
<1>20. Owed(f, 2) \cap O = {}
  BY <1>6, <1>10, <1>18
<1>21. h.regs = g.regs
  BY <1>9 DEF Branched
<1>22. BranchesLogical(g, lhs, h, f)
  BY <1>1, <1>2, <1>12, <1>13, <1>15, <1>16, <1>19, <1>20, <1>21 DEF BranchesLogical
<1> QED BY <1>1, <1>22

\* The block of the right operand and the one after it are new.
LEMMA BranchLogicalKeeps ==
  ASSUME NodesInv, CodeInv, BranchLogical
  PROVE  CodeInv' /\ phase' = "compile"
<1>1. nodes' = nodes /\ phase = "compile"
  BY BranchLogicalParts
<1>2. PICK g, lhs, h, f : BranchesLogical(g, lhs, h, f)
  BY BranchLogicalParts
<1>3. 2 = Len(f.values) + 1 /\ 2 <= OperandCount(f.node)
  <2>1. f.values = <<lhs>> /\ OperandCount(f.node) = 2
    BY <1>2 DEF BranchesLogical
  <2>2. Len(<<lhs>>) = 1
    OBVIOUS
  <2> QED BY <2>1, <2>2
<1> QED BY <1>1, <1>2, <1>3, CallKeeps DEF BranchesLogical

\* Both operands have decided: i joins what they say, and j extends it.
JoinsLogical(g, rhs, e, i, from, h, j) ==
  /\ Op \in Logical /\ Len(Values) = 2
  /\ g = ToBool(ir, Values[2]) /\ rhs = Converted(ir, g, Values[2])
  /\ IrOK(e) /\ e.regs = g.regs
  /\ i = Phi("i1", <<Values[1], rhs>>, from) /\ i \in Instruction /\ JoinsAll(i, Preds(e, e.at))
  /\ h = Emit(e, i) /\ Keeps(ir, h, CallersOwed(work)) /\ IrOK(h)
  /\ j = Instr("zext", "i32", <<Latest(h)>>) /\ j \in Instruction /\ j.op # "phi"
  /\ Return(Emit(h, j), Latest(Emit(h, j)))


LEMMA JoinLogicalParts ==
  ASSUME NodesInv, CodeInv, JoinLogical
  PROVE  /\ nodes' = nodes /\ phase = "compile"
         /\ \E g, rhs, e, i, from, h, j : JoinsLogical(g, rhs, e, i, from, h, j)
<1> DEFINE O == CallersOwed(work)
<1>1. /\ nodes' = nodes /\ phase = "compile" /\ Op \in Logical /\ Len(Values) = 2
      /\ \E g, rhs, lhsBlock, end, e, i, h, z, j :
           /\ g = ToBool(ir, Values[2]) /\ rhs = Converted(ir, g, Values[2])
           /\ lhsBlock = work[1].blocks[1] /\ end = work[1].blocks[2]
           /\ e = SetInsertPoint(EndWith(g, NoValue, <<end>>), end)
           /\ i = Phi("i1", <<Values[1], rhs>>, <<lhsBlock, g.at>>)
           /\ h = Emit(e, i) /\ j = Instr("zext", "i32", <<Latest(h)>>)
           /\ z = Emit(h, j) /\ Return(z, Latest(z))
  BY DEF JoinLogical, At, Compiling, InsertBlock
<1>2. PICK g, rhs, lhsBlock, end, e, i, h, z, j :
           /\ g = ToBool(ir, Values[2]) /\ rhs = Converted(ir, g, Values[2])
           /\ lhsBlock = work[1].blocks[1] /\ end = work[1].blocks[2]
           /\ e = SetInsertPoint(EndWith(g, NoValue, <<end>>), end)
           /\ i = Phi("i1", <<Values[1], rhs>>, <<lhsBlock, g.at>>)
           /\ h = Emit(e, i) /\ j = Instr("zext", "i32", <<Latest(h)>>)
           /\ z = Emit(h, j) /\ Return(z, Latest(z))
  BY <1>1
<1>3. 2 \in 1..Len(Values)
  <2>1. Len(Values) = 2
    BY <1>1
  <2> QED BY <2>1
<1>4. /\ Keeps(ir, g, O) /\ Extends(ir, g) /\ IrOK(g) /\ rhs \in Nat
  BY <1>1, <1>2, <1>3, Decided
<1>5. /\ FrameOK(work[1], 2, ir) /\ OpOf(work[1]) \in Logical /\ work[1] \in CallFrame(ir)
  BY <1>1, CurrentTyped, BranchingOperands DEF FrameOK, Branching
<1>6. /\ Len(work[1].blocks) = 2 /\ Preds(ir, end) = {lhsBlock} /\ Owed(work[1], 2) = {end}
      /\ Reserved(ir, {end})
  BY <1>2, <1>5 DEF FrameOK, Joins, Owed
<1>7. Preds(g, end) = {lhsBlock} /\ Reserved(g, {end})
  <2>1. Keeps(ir, g, {end})
    BY <1>4, <1>6, ExtendsKeeps DEF CodeInv
  <2> QED BY <1>6, <2>1 DEF Keeps
<1>8. /\ end \in 1..Len(g.blocks) /\ end # g.at /\ g.blocks[end] = EmptyBlock
      /\ g.blocks[end].code = <<>> /\ g.blocks[end].to = <<>>
  BY <1>7 DEF Reserved, EmptyBlock
<1>9. Branched(g, <<end>>, 0, end, e)
  BY <1>2, <1>4, <1>8, BranchToOld
<1>10. IsTarget(<<end>>, end) /\ \A b : b # end => ~IsTarget(<<end>>, b)
  <2>1. Len(<<end>>) = 1 /\ <<end>>[1] = end
    OBVIOUS
  <2> QED BY <2>1 DEF IsTarget
<1>11. Preds(e, end) = {lhsBlock, g.at} /\ e.at = end /\ IrOK(e)
  BY <1>7, <1>9, <1>10 DEF Branched
<1>12. lhsBlock # g.at
  <2>1. lhsBlock \in Preds(g, end)
    BY <1>7
  <2>2. g.blocks[lhsBlock].to # <<>>
    BY <2>1 DEF Preds
  <2> QED BY <1>4, <2>2, Sizes
<1>13. Keeps(g, e, O)
  <2>1. end \notin O
    <3>1. Owed(work[1], 2) \cap O = {}
      BY <1>1, OwedApart
    <3> HIDE DEF O
    <3> QED BY <1>6, <3>1
  <2>2. Reserved(g, O)
    BY <1>4 DEF Keeps
  <2>3. \A b \in O : ~IsTarget(<<end>>, b)
    <3> HIDE DEF O
    <3> QED BY <1>10, <2>1
  <2>4. PICK to : to = <<end>>
    OBVIOUS
  <2>5. Branched(g, to, 0, end, e) /\ \A b \in O : ~IsTarget(to, b)
    BY <1>9, <2>3, <2>4
  <2> HIDE DEF O
  <2> QED BY <1>4, <2>1, <2>2, <2>5, BranchKeeps
<1>14. Keeps(ir, e, O)
  BY <1>4, <1>13, KeepsTwice DEF CodeInv
<1>15. i \in Instruction /\ JoinsAll(i, Preds(e, e.at))
  <2>1. Values[1] \in Nat
    BY <1>1, TwoValues
  <2>2. "i1" \in LlvmType
    BY DEF LlvmType, LlvmInt
  <2>3. lhsBlock \in Nat /\ g.at \in Nat
    <3>1. lhsBlock \in 1..Len(g.blocks)
      BY <1>7 DEF Preds
    <3>2. g.at \in 1..Len(g.blocks)
      BY <1>4, Sizes
    <3> QED BY <3>1, <3>2
  <2>4. i \in Instruction /\ i.from[1] = lhsBlock /\ i.from[2] = g.at
    <3>1. PICK l \in Nat : l = Values[1]
      BY <2>1
    <3>2. PICK t \in LlvmType : t = "i1"
      BY <2>2
    <3>3. PICK q \in Nat : q = g.at
      BY <2>3
    <3>4. i = Phi(t, <<l, rhs>>, <<lhsBlock, q>>)
      BY <1>2, <3>1, <3>2, <3>3
    <3> QED BY <1>4, <2>3, <3>3, <3>4, PhiIs
  <2> QED BY <1>11, <1>12, <2>4 DEF JoinsAll
<1>16. Extends(e, h) /\ Latest(h) \in Nat
  <2>1. Extends(e, h) /\ Latest(e) \in Nat /\ Latest(h) = Latest(e) + 1
    BY <1>2, <1>11, <1>15, EmitExtends
  <2> QED BY <2>1
<1>17. Keeps(ir, h, O)
  <2>1. Reserved(e, O)
    BY <1>14 DEF Keeps
  <2>2. Keeps(e, h, O)
    BY <1>11, <1>16, <2>1, ExtendsKeeps
  <2> QED BY <1>14, <2>2, KeepsTwice DEF CodeInv
<1>18. j \in Instruction /\ j.op # "phi"
  <2>1. PICK a \in Seq(Nat) : a = <<Latest(h)>>
    <3>1. <<Latest(h)>> \in Seq(Nat)
      BY <1>16
    <3> QED BY <3>1
  <2>2. "zext" \in OpCode /\ "i32" \in LlvmType
    BY DEF OpCode, LlvmType, LlvmInt
  <2>3. Instr("zext", "i32", a) \in Instruction /\ Instr("zext", "i32", a).op = "zext"
    BY <2>2, InstrIs
  <2> QED BY <1>2, <2>1, <2>3
<1>19. Return(Emit(h, j), Latest(Emit(h, j)))
  BY <1>2
<1>20. e.regs = g.regs
  BY <1>9 DEF Branched
<1>21. PICK from : from = <<lhsBlock, g.at>>
  OBVIOUS
<1>22. JoinsLogical(g, rhs, e, i, from, h, j)
  <2>1. i = Phi("i1", <<Values[1], rhs>>, from)
    BY <1>2, <1>21
  <2>2. IrOK(h)
    BY <1>16 DEF Extends
  <2> QED BY <1>1, <1>2, <1>11, <1>15, <1>17, <1>18, <1>19, <1>20, <2>1, <2>2 DEF JoinsLogical
<1> QED BY <1>1, <1>22

\* The block of the left operand is not the one of the right: it is the only
\* one that branched to the end before.
LEMMA JoinLogicalKeeps ==
  ASSUME NodesInv, CodeInv, JoinLogical
  PROVE  CodeInv' /\ phase' \in {"compile", "compiled"}
<1>1. nodes' = nodes /\ phase = "compile"
  BY JoinLogicalParts
<1>2. PICK g, rhs, e, i, from, h, j : JoinsLogical(g, rhs, e, i, from, h, j)
  BY JoinLogicalParts
<1> QED BY <1>1, <1>2, EmitReturns DEF JoinsLogical

\* The condition has decided: f goes on with the second operand.
BranchesTernary(g, h, f) ==
  /\ Op = "?:" /\ Len(Values) = 1 /\ g = ToBool(ir, Values[1])
  /\ Keeps(ir, h, CallersOwed(work)) /\ IrOK(h) /\ h.regs = g.regs
  /\ f.node = work[1].node /\ f.lvalue = work[1].lvalue /\ f.values = Values
  /\ OpOf(f) = OpOf(work[1]) /\ OperandCount(f.node) = 3
  /\ FrameOK(f, 2, h) /\ Owed(f, 2) \cap CallersOwed(work) = {} /\ CallOperand(f, h, 2)


LEMMA BranchTernaryParts ==
  ASSUME NodesInv, CodeInv, BranchTernary
  PROVE  /\ nodes' = nodes /\ phase = "compile"
         /\ \E g, h, f : BranchesTernary(g, h, f)
<1> DEFINE O == CallersOwed(work)
<1>1. /\ nodes' = nodes /\ phase = "compile" /\ Op = "?:" /\ Len(Values) = 1
      /\ \E g, condition, lhs, rhs, end, h, f :
           /\ g = ToBool(ir, Values[1]) /\ condition = Converted(ir, g, Values[1])
           /\ lhs = Len(g.blocks) + 1 /\ rhs = lhs + 1 /\ end = lhs + 2
           /\ h = SetInsertPoint(WithBlocks(EndWith(g, condition, <<lhs, rhs>>), 3), lhs)
           /\ f = [work[1] EXCEPT !.blocks = <<lhs, rhs, end>>]
           /\ CallOperand(f, h, 2)
  BY DEF BranchTernary, At, Compiling
<1>2. PICK g, condition, lhs, rhs, end, h, f :
           /\ g = ToBool(ir, Values[1]) /\ condition = Converted(ir, g, Values[1])
           /\ lhs = Len(g.blocks) + 1 /\ rhs = lhs + 1 /\ end = lhs + 2
           /\ h = SetInsertPoint(WithBlocks(EndWith(g, condition, <<lhs, rhs>>), 3), lhs)
           /\ f = [work[1] EXCEPT !.blocks = <<lhs, rhs, end>>]
           /\ CallOperand(f, h, 2)
  BY <1>1
<1>3. 1 \in 1..Len(Values)
  <2>1. Len(Values) = 1
    BY <1>1
  <2> QED BY <2>1
<1>4. Keeps(ir, g, O) /\ IrOK(g) /\ condition \in Nat
  BY <1>1, <1>2, <1>3, Decided
<1>5. PICK m \in Nat : m = Len(g.blocks)
  BY <1>4, Sizes
<1>6. /\ lhs = m + 1 /\ rhs = m + 2 /\ end = m + 3
      /\ lhs \in (m + 1)..(m + 3) /\ rhs \in (m + 1)..(m + 3) /\ end \in (m + 1)..(m + 3)
  BY <1>2, <1>5
<1>7. PICK to \in Seq(Nat) : to = <<lhs, rhs>>
  <2>1. <<lhs, rhs>> \in Seq(Nat)
    BY <1>6
  <2> QED BY <2>1
<1>8. (\A k \in 1..Len(to) : to[k] \in (m + 1)..(m + 3)) /\ ~IsTarget(to, end)
  <2>1. Len(to) = 2 /\ to[1] = lhs /\ to[2] = rhs
    BY <1>7
  <2> QED BY <1>6, <2>1 DEF IsTarget
<1>9. Branched(g, to, 3, lhs, h)
  BY <1>2, <1>4, <1>5, <1>6, <1>7, <1>8, BranchToNew
<1>10. Reserved(g, O) /\ \A b \in O : b \in 1..m
  BY <1>4, <1>5 DEF Keeps, Reserved
<1>11. Keeps(g, h, O)
  <2>1. lhs \notin O /\ \A b \in O : ~IsTarget(to, b)
    BY <1>6, <1>8, <1>10 DEF IsTarget
  <2> HIDE DEF O
  <2> QED BY <1>4, <1>9, <1>10, <2>1, BranchKeeps
<1>12. Keeps(ir, h, O)
  BY <1>4, <1>11, KeepsTwice DEF CodeInv
<1>13. /\ IrOK(h) /\ h.at = lhs /\ Latest(h) = Latest(g) /\ Len(h.blocks) = m + 3
       /\ h.blocks[rhs] = EmptyBlock /\ h.blocks[end] = EmptyBlock
  BY <1>5, <1>6, <1>9 DEF Branched, Latest
<1>14. Preds(h, end) = {}
  <2>1. Preds(g, end) = {}
    BY <1>4, <1>5, <1>6, NoPredecessors
  <2> QED BY <1>8, <1>9, <2>1 DEF Branched
<1>15. /\ f \in CallFrame(h) /\ f.values = Values /\ f.blocks = <<lhs, rhs, end>>
       /\ f.node = work[1].node /\ f.lvalue = work[1].lvalue /\ OpOf(f) = OpOf(work[1])
  <2>1. PICK c \in CallFrame(h) : c = work[1]
    <3>1. work[1] \in CallFrame(ir)
      BY <1>1, CurrentTyped DEF FrameOK
    <3>2. CallFrame(ir) \subseteq CallFrame(h)
      BY <1>12, CallFramesKept DEF CodeInv
    <3> QED BY <3>1, <3>2
  <2>2. PICK blocks \in Seq(1..Len(h.blocks)) : blocks = <<lhs, rhs, end>>
    <3>1. lhs \in 1..Len(h.blocks) /\ rhs \in 1..Len(h.blocks) /\ end \in 1..Len(h.blocks)
      BY <1>6, <1>13
    <3>2. <<lhs, rhs, end>> \in Seq(1..Len(h.blocks))
      BY <3>1
    <3> QED BY <3>2
  <2>3. f = [c EXCEPT !.blocks = blocks]
    BY <1>2, <2>1, <2>2
  <2>4. /\ f \in CallFrame(h) /\ f.values = c.values /\ f.blocks = blocks
        /\ f.node = c.node /\ f.lvalue = c.lvalue /\ OpOf(f) = OpOf(c)
    BY <2>3 DEF CallFrame, OpOf
  <2> QED BY <2>1, <2>2, <2>4 DEF Values
<1>16. /\ OpOf(f) \notin Logical /\ OpOf(f) = "?:" /\ OperandCount(f.node) = 3
  BY <1>1, <1>15, BranchingOperands DEF Branching
<1>17. /\ Len(f.values) = 1 /\ Len(f.blocks) = 3 /\ f.blocks[1] = lhs /\ f.blocks[2] = rhs
       /\ f.blocks[3] = end
  <2>1. Len(f.values) = 1
    BY <1>1, <1>15
  <2> QED BY <1>15, <2>1
<1>18. Owed(f, 2) = {rhs, end}
  BY <1>16, <1>17 DEF Owed
<1>19. FrameOK(f, 2, h)
  <2>1. ValuesOK(f)
    <3>1. ValuesOK(work[1])
      BY <1>1, CurrentTyped DEF FrameOK
    <3> QED BY <1>15, <3>1 DEF ValuesOK, Values
  <2>2. Reserved(h, Owed(f, 2))
    BY <1>6, <1>13, <1>18 DEF Reserved
  <2>3. Joins(f, 2, h)
    BY <1>6, <1>14, <1>16, <1>17 DEF Joins
  <2> QED BY <1>15, <2>1, <2>2, <2>3 DEF FrameOK
<1>20. Owed(f, 2) \cap O = {}
  BY <1>6, <1>10, <1>18
<1>21. h.regs = g.regs
  BY <1>9 DEF Branched
<1>22. BranchesTernary(g, h, f)
  BY <1>1, <1>2, <1>12, <1>13, <1>15, <1>16, <1>19, <1>20, <1>21 DEF BranchesTernary
<1> QED BY <1>1, <1>22

LEMMA BranchTernaryKeeps ==
  ASSUME NodesInv, CodeInv, BranchTernary
  PROVE  CodeInv' /\ phase' = "compile"
<1>1. nodes' = nodes /\ phase = "compile"
  BY BranchTernaryParts
<1>2. PICK g, h, f : BranchesTernary(g, h, f)
  BY BranchTernaryParts
<1>3. 2 = Len(f.values) + 1 /\ 2 <= OperandCount(f.node)
  <2>1. Len(f.values) = 1 /\ OperandCount(f.node) = 3
    BY <1>2 DEF BranchesTernary
  <2> QED BY <2>1
<1> QED BY <1>1, <1>2, <1>3, CallKeeps DEF BranchesTernary

\* The second operand is computed: f goes on with the third.
ElsesTernary(g, f) ==
  /\ Op = "?:" /\ Len(Values) = 2
  /\ Keeps(ir, g, CallersOwed(work)) /\ IrOK(g) /\ g.regs = ir.regs
  /\ f.node = work[1].node /\ f.lvalue = work[1].lvalue /\ f.values = Values
  /\ OpOf(f) = OpOf(work[1]) /\ OperandCount(f.node) = 3
  /\ FrameOK(f, 3, g) /\ Owed(f, 3) \cap CallersOwed(work) = {} /\ CallOperand(f, g, 3)


LEMMA ElseTernaryParts ==
  ASSUME NodesInv, CodeInv, ElseTernary
  PROVE  /\ nodes' = nodes /\ phase = "compile"
         /\ \E g, f : ElsesTernary(g, f)
<1> DEFINE O == CallersOwed(work)
<1>1. /\ nodes' = nodes /\ phase = "compile" /\ Op = "?:" /\ Len(Values) = 2
      /\ \E rhs, end, g, f :
           /\ rhs = work[1].blocks[2] /\ end = work[1].blocks[3]
           /\ g = SetInsertPoint(EndWith(ir, NoValue, <<end>>), rhs)
           /\ f = [work[1] EXCEPT !.blocks[1] = ir.at] /\ CallOperand(f, g, 3)
  BY DEF ElseTernary, At, Compiling, InsertBlock
<1>2. PICK rhs, end, g, f :
           /\ rhs = work[1].blocks[2] /\ end = work[1].blocks[3]
           /\ g = SetInsertPoint(EndWith(ir, NoValue, <<end>>), rhs)
           /\ f = [work[1] EXCEPT !.blocks[1] = ir.at] /\ CallOperand(f, g, 3)
  BY <1>1
<1>3. /\ FrameOK(work[1], 2, ir) /\ OpOf(work[1]) = "?:" /\ OpOf(work[1]) \notin Logical
      /\ IrOK(ir) /\ OperandCount(work[1].node) = 3
  BY <1>1, CurrentTyped, BranchingOperands DEF Branching, CodeInv
<1>4. /\ Len(work[1].blocks) = 3 /\ rhs # end /\ Preds(ir, end) = {}
      /\ Owed(work[1], 2) = {rhs, end} /\ Reserved(ir, {rhs, end})
  BY <1>2, <1>3 DEF FrameOK, Joins, Owed
<1>5. /\ rhs \in 1..Len(ir.blocks) /\ end \in 1..Len(ir.blocks) /\ rhs # ir.at /\ end # ir.at
      /\ ir.blocks[end] = EmptyBlock /\ ir.blocks[end].code = <<>> /\ ir.blocks[rhs].to = <<>>
  BY <1>4 DEF Reserved, EmptyBlock
<1>6. PICK to : to = <<end>>
  OBVIOUS
<1>7. IsTarget(to, end) /\ \A b : b # end => ~IsTarget(to, b)
  <2>1. Len(to) = 1 /\ to[1] = end
    BY <1>6
  <2> QED BY <2>1 DEF IsTarget
<1>8. Branched(ir, to, 0, rhs, g)
  <2>1. Branched(ir, <<end>>, 0, rhs, g)
    BY <1>2, <1>3, <1>5, BranchToOld
  <2> QED BY <1>6, <2>1
<1>9. rhs \notin O /\ end \notin O
  <2>1. Owed(work[1], 2) \cap O = {}
    BY <1>1, OwedApart
  <2> HIDE DEF O
  <2> QED BY <1>4, <2>1
<1>10. Keeps(ir, g, O)
  <2>1. Reserved(ir, O)
    BY CallersReserved
  <2>2. \A b \in O : ~IsTarget(to, b)
    <3> HIDE DEF O
    <3> QED BY <1>7, <1>9
  <2> HIDE DEF O
  <2> QED BY <1>3, <1>8, <1>9, <2>1, <2>2, BranchKeeps
<1>11. /\ IrOK(g) /\ g.at = rhs /\ Latest(g) = Latest(ir) /\ Len(g.blocks) = Len(ir.blocks)
       /\ g.blocks[end] = EmptyBlock /\ Preds(g, end) = {ir.at}
  <2>1. Len(ir.blocks) \in Nat
    BY <1>3, Sizes
  <2> QED BY <1>4, <1>5, <1>7, <1>8, <2>1 DEF Branched, Latest
<1>12. PICK at \in 1..Len(g.blocks) : at = ir.at
  BY <1>3, <1>11, Sizes
<1>13. /\ f \in CallFrame(g) /\ f.values = Values /\ Len(f.blocks) = 3
       /\ f.blocks[1] = ir.at /\ f.blocks[3] = end
       /\ f.node = work[1].node /\ f.lvalue = work[1].lvalue /\ OpOf(f) = OpOf(work[1])
  <2>1. PICK c \in CallFrame(g) : c = work[1]
    <3>1. CallFrame(ir) \subseteq CallFrame(g)
      BY <1>3, <1>10, CallFramesKept
    <3> QED BY <1>3, <3>1 DEF FrameOK
  <2>2. c.blocks \in Seq(1..Len(g.blocks)) /\ Len(c.blocks) = 3 /\ c.blocks[3] = end
    BY <1>2, <1>4, <2>1 DEF CallFrame
  <2>3. PICK blocks \in Seq(1..Len(g.blocks)) : blocks = [c.blocks EXCEPT ![1] = at]
    <3>1. [c.blocks EXCEPT ![1] = at] \in Seq(1..Len(g.blocks))
      BY <2>2
    <3> QED BY <3>1
  <2>4. Len(blocks) = 3 /\ blocks[1] = at /\ blocks[3] = end
    BY <2>2, <2>3
  <2>5. f = [c EXCEPT !.blocks = blocks]
    BY <1>2, <1>12, <2>1, <2>3
  <2>6. /\ f \in CallFrame(g) /\ f.values = c.values /\ f.blocks = blocks
        /\ f.node = c.node /\ f.lvalue = c.lvalue /\ OpOf(f) = OpOf(c)
    BY <2>5 DEF CallFrame, OpOf
  <2> QED BY <1>12, <2>1, <2>4, <2>6 DEF Values
<1>14. Owed(f, 3) = {end}
  BY <1>3, <1>13 DEF Owed
<1>15. FrameOK(f, 3, g)
  <2>1. ValuesOK(f)
    <3>1. ValuesOK(work[1])
      BY <1>3 DEF FrameOK
    <3> QED BY <1>13, <3>1 DEF ValuesOK, Values
  <2>2. Reserved(g, Owed(f, 3))
    BY <1>4, <1>5, <1>11, <1>14 DEF Reserved
  <2>3. Joins(f, 3, g)
    BY <1>3, <1>11, <1>13 DEF Joins
  <2> QED BY <1>13, <2>1, <2>2, <2>3 DEF FrameOK
<1>16. Owed(f, 3) \cap O = {}
  <2> HIDE DEF O
  <2> QED BY <1>9, <1>14
<1>17. g.regs = ir.regs
  BY <1>8 DEF Branched
<1>18. ElsesTernary(g, f)
  BY <1>1, <1>2, <1>3, <1>10, <1>11, <1>13, <1>15, <1>16, <1>17 DEF ElsesTernary
<1> QED BY <1>1, <1>18

\* The end has no predecessor until the left operand ends.
LEMMA ElseTernaryKeeps ==
  ASSUME NodesInv, CodeInv, ElseTernary
  PROVE  CodeInv' /\ phase' = "compile"
<1>1. nodes' = nodes /\ phase = "compile"
  BY ElseTernaryParts
<1>2. PICK g, f : ElsesTernary(g, f)
  BY ElseTernaryParts
<1>3. 3 = Len(f.values) + 1 /\ 3 <= OperandCount(f.node)
  <2>1. Len(f.values) = 2 /\ OperandCount(f.node) = 3
    BY <1>2 DEF ElsesTernary
  <2> QED BY <2>1
<1> QED BY <1>1, <1>2, <1>3, CallKeeps DEF ElsesTernary

\* An operand with a value has an LLVM type.
LEMMA WidthIs ==
  ASSUME CodeInv, NEW r \in 0..Latest(ir), r # NoValue
  PROVE  Width(ir.regs, r) \in LlvmType
<1>1. ir.regs \in Seq(Instruction) /\ Latest(ir) \in Nat
  BY DEF CodeInv, IrOK, Ir, Latest
<1>2. r \in 1..Len(ir.regs)
  BY <1>1 DEF Latest, NoValue
<1>3. ir.regs[r] \in Instruction
  BY <1>1, <1>2
<1> QED BY <1>3 DEF Width, Instruction

\* All operands are computed: i joins the second and the third, if they have a value.
JoinsTernary(g, i, from) ==
  /\ Op = "?:" /\ Len(Values) = 3 /\ (work[1].lvalue => HasLvalue)
  /\ Keeps(ir, g, CallersOwed(work)) /\ IrOK(g) /\ g.regs = ir.regs
  /\ i = Phi(Width(ir.regs, Values[2]), <<Values[2], Values[3]>>, from)
  /\ IF nodes[Current].type = VoidType THEN Return(g, NoValue)
     ELSE /\ i \in Instruction /\ JoinsAll(i, Preds(g, g.at))
          /\ Return(Emit(g, i), Latest(Emit(g, i)))


LEMMA JoinTernaryParts ==
  ASSUME NodesInv, CodeInv, JoinTernary
  PROVE  /\ nodes' = nodes /\ phase = "compile"
         /\ \E g, i, from : JoinsTernary(g, i, from)
<1> DEFINE O == CallersOwed(work)
<1>1. /\ nodes' = nodes /\ phase = "compile" /\ Op = "?:" /\ Len(Values) = 3
      /\ work[1].lvalue => HasLvalue
      /\ \E lhsBlock, end, g, i :
           /\ lhsBlock = work[1].blocks[1] /\ end = work[1].blocks[3]
           /\ g = SetInsertPoint(EndWith(ir, NoValue, <<end>>), end)
           /\ i = Phi(Width(ir.regs, Values[2]), <<Values[2], Values[3]>>, <<lhsBlock, ir.at>>)
           /\ IF nodes[Current].type = VoidType THEN Return(g, NoValue)
              ELSE Return(Emit(g, i), Latest(Emit(g, i)))
  BY DEF JoinTernary, At, Compiling, InsertBlock
<1>2. PICK lhsBlock, end, g, i :
           /\ lhsBlock = work[1].blocks[1] /\ end = work[1].blocks[3]
           /\ g = SetInsertPoint(EndWith(ir, NoValue, <<end>>), end)
           /\ i = Phi(Width(ir.regs, Values[2]), <<Values[2], Values[3]>>, <<lhsBlock, ir.at>>)
           /\ IF nodes[Current].type = VoidType THEN Return(g, NoValue)
              ELSE Return(Emit(g, i), Latest(Emit(g, i)))
  BY <1>1
<1>3. /\ FrameOK(work[1], 3, ir) /\ OpOf(work[1]) = "?:" /\ OpOf(work[1]) \notin Logical
      /\ IrOK(ir)
  BY <1>1, CurrentTyped, BranchingOperands DEF Branching, CodeInv
<1>4. /\ Preds(ir, end) = {lhsBlock} /\ Owed(work[1], 3) = {end} /\ Reserved(ir, {end})
  BY <1>2, <1>3 DEF FrameOK, Joins, Owed
<1>5. /\ end \in 1..Len(ir.blocks) /\ end # ir.at
      /\ ir.blocks[end] = EmptyBlock /\ ir.blocks[end].code = <<>> /\ ir.blocks[end].to = <<>>
  BY <1>4 DEF Reserved, EmptyBlock
<1>6. PICK to : to = <<end>>
  OBVIOUS
<1>7. IsTarget(to, end) /\ \A b : b # end => ~IsTarget(to, b)
  <2>1. Len(to) = 1 /\ to[1] = end
    BY <1>6
  <2> QED BY <2>1 DEF IsTarget
<1>8. Branched(ir, to, 0, end, g)
  <2>1. Branched(ir, <<end>>, 0, end, g)
    BY <1>2, <1>3, <1>5, BranchToOld
  <2> QED BY <1>6, <2>1
<1>9. Preds(g, g.at) = {lhsBlock, ir.at} /\ IrOK(g)
  BY <1>4, <1>7, <1>8 DEF Branched
<1>10. lhsBlock # ir.at
  <2>1. lhsBlock \in Preds(ir, end)
    BY <1>4
  <2>2. ir.blocks[lhsBlock].to # <<>>
    BY <2>1 DEF Preds
  <2> QED BY <1>3, <2>2, Sizes
<1>11. Keeps(ir, g, O)
  <2>1. Reserved(ir, O)
    BY CallersReserved
  <2>2. end \notin O
    <3>1. Owed(work[1], 3) \cap O = {}
      BY <1>1, OwedApart
    <3> HIDE DEF O
    <3> QED BY <1>4, <3>1
  <2>3. \A b \in O : ~IsTarget(to, b)
    <3> HIDE DEF O
    <3> QED BY <1>7, <2>2
  <2> HIDE DEF O
  <2> QED BY <1>3, <1>8, <2>1, <2>2, <2>3, BranchKeeps
<1>12. g.regs = ir.regs
  BY <1>8 DEF Branched
<1>13. ASSUME nodes[Current].type # VoidType
       PROVE  i \in Instruction /\ JoinsAll(i, Preds(g, g.at))
  <2>1. /\ 2 \in 1..Len(Values) /\ 3 \in 1..Len(Values)
    <3>1. Len(Values) = 3
      BY <1>1
    <3> QED BY <3>1
  <2>2. nodes[Operand(Current, 2)].type # VoidType
    <3>1. Fits(nodes[Current], Current)
      BY <1>1, CurrentTyped DEF NodesInv
    <3> QED BY <1>1, <1>13, <3>1 DEF Fits, Operand, Op
  <2>3. Values[2] # NoValue
    <3>1. ValuesOK(work[1])
      BY <1>3 DEF FrameOK
    <3> QED BY <2>1, <2>2, <3>1 DEF ValuesOK, Values, Current
  <2>4. PICK t \in LlvmType : t = Width(ir.regs, Values[2])
    <3>1. Values[2] \in 0..Latest(ir)
      BY <1>1, <2>1, CurrentTyped
    <3> QED BY <2>3, <3>1, WidthIs
  <2>5. Values[2] \in Nat /\ Values[3] \in Nat
    BY <1>1, <2>1, CurrentTyped
  <2>6. lhsBlock \in Nat /\ ir.at \in Nat
    <3>1. lhsBlock \in 1..Len(ir.blocks)
      BY <1>4 DEF Preds
    <3>2. ir.at \in 1..Len(ir.blocks)
      BY <1>3, Sizes
    <3> QED BY <3>1, <3>2
  <2>7. i \in Instruction /\ i.from[1] = lhsBlock /\ i.from[2] = ir.at
    <3>1. PICK l \in Nat : l = Values[2]
      BY <2>5
    <3>2. PICK r \in Nat : r = Values[3]
      BY <2>5
    <3>3. PICK q \in Nat : q = ir.at
      BY <2>6
    <3>4. i = Phi(t, <<l, r>>, <<lhsBlock, q>>)
      BY <1>2, <2>4, <3>1, <3>2, <3>3
    <3> QED BY <2>6, <3>3, <3>4, PhiIs
  <2>8. JoinsAll(i, Preds(g, g.at))
    BY <1>9, <1>10, <2>7 DEF JoinsAll
  <2> QED BY <2>7, <2>8
<1>14. PICK from : from = <<lhsBlock, ir.at>>
  OBVIOUS
<1>15. JoinsTernary(g, i, from)
  <2>1. i = Phi(Width(ir.regs, Values[2]), <<Values[2], Values[3]>>, from)
    BY <1>2, <1>14
  <2> QED BY <1>1, <1>2, <1>9, <1>11, <1>12, <1>13, <2>1 DEF JoinsTernary
<1> QED BY <1>1, <1>15

LEMMA JoinTernaryKeeps ==
  ASSUME NodesInv, CodeInv, JoinTernary
  PROVE  CodeInv' /\ phase' \in {"compile", "compiled"}
<1>1. nodes' = nodes /\ phase = "compile"
  BY JoinTernaryParts
<1>2. PICK g, i, from : JoinsTernary(g, i, from)
  BY JoinTernaryParts
<1>3. CASE nodes[Current].type = VoidType
  <2>1. ~work[1].lvalue
    BY <1>2 DEF JoinsTernary, HasLvalue
  <2>2. PICK r : r = NoValue
    OBVIOUS
  <2>3. r \in 0..Latest(g)
    BY <1>2, <2>2, Sizes DEF JoinsTernary, NoValue
  <2>4. Return(g, r)
    BY <1>2, <1>3, <2>2 DEF JoinsTernary
  <2> QED BY <1>1, <1>2, <1>3, <2>1, <2>3, <2>4, ReturnKeeps DEF JoinsTernary
<1>4. CASE nodes[Current].type # VoidType
  BY <1>1, <1>2, <1>4, EmitReturns DEF JoinsTernary
<1> QED BY <1>3, <1>4

(***************************************************************************)
(* Where the code generator stops.                                         *)
(***************************************************************************)
LEMMA StopsAtValues ==
  ASSUME NodesInv, CodeInv, CannotComputeLvalue
  PROVE  \E n \in 1..Len(nodes) :
           /\ nodes[n].op \in {"reference", "=", "."}
           /\ IsString(nodes[n].kids[1]) \/ (nodes[n].op = "." /\ ~IsLvalue[nodes[n].kids[1]])
<1>1. phase = "compile" /\ work[1].lvalue /\ ~HasLvalue
  BY DEF CannotComputeLvalue
<1>2. WorkOK(work, ir) /\ work # <<>> /\ Len(work) \in Nat
  BY <1>1 DEF CodeInv, WorkOK
<1>3. Len(work) >= 2
  <2>1. ~work[Len(work)].lvalue
    BY <1>2 DEF WorkOK
  <2>2. Len(work) # 0
    BY <1>2 DEF WorkOK
  <2> QED BY <1>1, <1>2, <2>1, <2>2
<1>4. PICK s : IsCallOf(work[1], work[2], s) /\ s = Stage(work, 2)
  <2>1. 2 \in 2..Len(work)
    BY <1>2, <1>3
  <2> QED BY <1>2, <2>1 DEF WorkOK
<1>5. work[2] \in CallFrame(ir)
  BY <1>2, <1>3 DEF WorkOK
<1>6. PICK n \in 1..Len(nodes) : n = work[2].node
  BY <1>5 DEF CallFrame
<1>7. /\ TakesLvalue(n, s) /\ Current = Operand(n, s)
  BY <1>1, <1>4, <1>6 DEF IsCallOf, Current
<1>8. s = 1 /\ nodes[n].op \in {"reference", ".", "="} /\ Current = nodes[n].kids[1]
  BY <1>7 DEF TakesLvalue, Operand
<1>9. CASE nodes[n].op = "." /\ ~IsLvalue[Current]
  BY <1>8, <1>9
<1>10. CASE IsLvalue[Current]
  <2>1. Current \in 1..Len(nodes)
    BY <1>1, CurrentTyped
  <2>2. IsPlainLvalue(Current) \/ nodes[Current].op = "."
    BY <1>10, <2>1, OperandsAreInFront, LvalueEquation
  <2>3. IsString(Current)
    BY <1>1, <2>2 DEF IsPlainLvalue, HasLvalue, Op, IsString
  <2> QED BY <1>8, <2>3
<1>11. CASE nodes[n].op \in {"reference", "="}
  <2>1. Fits(nodes[n], n)
    BY DEF NodesInv
  <2>2. IsLvalue[Current]
    BY <1>8, <1>11, <2>1 DEF Fits
  <2> QED BY <1>10, <2>2
<1> QED BY <1>8, <1>9, <1>10, <1>11

(***************************************************************************)
(* The type checker.                                                       *)
(***************************************************************************)
LEMMA LeafFits ==
  ASSUME NodesInv, NEW y \in Variable \cup Constant,
         NEW x, x = [op |-> IF y \in Variable THEN "variable" ELSE "constant", of |-> y,
                     kids |-> <<>>, type |-> LeafType(y), casts |-> <<>>]
  PROVE  x \in Node /\ Fits(x, Len(nodes) + 1)
<1>1. /\ y \in Variable => LeafType(y) \in LvalueType
      /\ LeafType(y) \in Type
      /\ y = "string" => LeafType(y) \in LvalueType
  <2>1. CASE y \in Variable
    <3>1. {TypeOfVariable[y], Pointer(TypeOfVariable[y])} \subseteq Type /\ y \notin Constant
      BY <2>1, ExpressionAssumption
    <3>2. LeafType(y) = TypeOfVariable[y]
      BY <2>1, <3>1 DEF LeafType, Constant
    <3> QED BY <3>1, <3>2 DEF LvalueType
  <2>2. CASE y \notin Variable
    BY <2>2, NamedTypes DEF LeafType, Constant
  <2> QED BY <2>1, <2>2
<1>2. /\ x.op \in {"variable", "constant"} /\ x.of = y /\ x.kids = <<>> /\ x.casts = <<>>
      /\ x.type = LeafType(y) /\ (x.op = "variable" => y \in Variable)
      /\ (x.op = "constant" => y \in Constant)
  OBVIOUS
<1>3. x \in Node
  <2>1. <<>> \in Seq(Nat) /\ <<>> \in Seq(Type \cup {NoType})
    OBVIOUS
  <2> QED BY <1>1, <2>1 DEF Node
<1>4. x.op \notin Operator
  BY <1>2 DEF Operator, Prefix, Comparison, Branching, Logical
<1> QED BY <1>1, <1>2, <1>3, <1>4 DEF Fits

LEMMA FitsAsOperator ==
  ASSUME NEW x, NEW n, x.op \in Operator, x.op # "constant",
         Len(x.kids) = Arity(x.op) /\ Len(x.casts) = Arity(x.op),
         \A k \in 1..Len(x.kids) : x.kids[k] \in 1..(n - 1),
         x.op \in {"variable", "dereference", "index", ".", "->"} \/ x.of = "string" =>
           x.type \in LvalueType,
         x.op \in {"reference", "="} => IsLvalue[x.kids[1]],
         x.op = "dereference" => Kind(nodes[x.kids[1]].type) = "pointer",
         x.op = "=" => nodes[x.kids[2]].type # VoidType,
         x.op = "?:" /\ x.type # VoidType =>
           nodes[x.kids[2]].type # VoidType /\ nodes[x.kids[3]].type # VoidType
  PROVE  Fits(x, n)
BY DEF Fits

LEMMA NodeIs ==
  ASSUME NEW op \in Operator, NEW kids \in Seq(Nat), NEW type \in Type,
         NEW casts \in Seq(Type \cup {NoType})
  PROVE  [op |-> op, of |-> "none", kids |-> kids, type |-> type, casts |-> casts] \in Node
BY DEF Node

LEMMA OperatorFits ==
  ASSUME NodesInv, NEW op \in Operator, NEW kids \in Seq(1..Len(nodes)), Len(kids) = Arity(op),
         NEW types, types = [k \in 1..Arity(op) |-> nodes[kids[k]].type],
         NEW result, result = ResultOf(op, types), result # Illegal, SuitableOperand(op, kids[1]),
         NEW x, x = [op |-> op, of |-> "none", type |-> result.type, casts |-> result.casts,
                     kids |-> IF op = "index" /\ IsSwapped(types[1], types[2])
                              THEN <<kids[2], kids[1]>> ELSE kids]
  PROVE  x \in Node /\ Fits(x, Len(nodes) + 1)
<1>0. Len(nodes) \in Nat /\ nodes \in Seq(Node)
  BY DEF NodesInv
<1>1. Arity(op) \in 1..3
  BY Arities
<1>2. \A k \in 1..Arity(op) : kids[k] \in 1..Len(nodes)
  OBVIOUS
<1>3. \A k \in 1..Arity(op) : types[k] \in Type /\ types[k] = nodes[kids[k]].type
  <2> SUFFICES ASSUME NEW k \in 1..Arity(op)
               PROVE  nodes[kids[k]].type \in Type
    OBVIOUS
  <2>1. nodes[kids[k]] \in Node
    BY <1>0, <1>2
  <2> QED BY <2>1 DEF Node
<1>4. op = "reference" => types[1] \in LvalueType
  <2>1. 1 \in 1..Arity(op)
    BY <1>1
  <2> QED BY <1>2, <1>3, <2>1, LvaluesHaveTypes DEF SuitableOperand
<1>5. IsRule(op, types, result)
  BY <1>3, <1>4, RulesGiveTypes
<1>6. /\ result.type \in Type /\ result.casts \in Seq(CastTarget) /\ Len(result.casts) = Arity(op)
  BY <1>5 DEF IsRule, IsResult
<1>7. /\ x.op = op /\ x.of = "none" /\ x.type = result.type /\ x.casts = result.casts
      /\ op # "index" => x.kids = kids
  OBVIOUS
<1>8. x.kids \in Seq(1..Len(nodes)) /\ Len(x.kids) = Arity(op)
  <2>1. CASE op = "index" /\ IsSwapped(types[1], types[2])
    <3>1. Arity(op) = 2
      BY <2>1, Arities
    <3>2. kids[1] \in 1..Len(nodes) /\ kids[2] \in 1..Len(nodes)
      BY <1>2, <3>1
    <3>3. <<kids[2], kids[1]>> \in Seq(1..Len(nodes)) /\ Len(<<kids[2], kids[1]>>) = 2
      BY <3>2
    <3> QED BY <2>1, <3>1, <3>3
  <2>2. CASE ~(op = "index" /\ IsSwapped(types[1], types[2]))
    BY <2>2
  <2> QED BY <2>1, <2>2
<1>9. PICK ks \in Seq(1..Len(nodes)) : ks = x.kids /\ Len(ks) = Arity(op)
  BY <1>8
<1>10. ks \in Seq(Nat)
  <2>1. 1..Len(nodes) \subseteq Nat
    OBVIOUS
  <2> QED BY <2>1, SeqIncludes
<1>11. x \in Node
  <2>1. PICK t \in Type : t = result.type
    BY <1>6
  <2>2. PICK casts \in Seq(Type \cup {NoType}) : casts = result.casts
    BY <1>6 DEF CastTarget
  <2>3. x = [op |-> op, of |-> "none", kids |-> ks, type |-> t, casts |-> casts]
    BY <1>9, <2>1, <2>2
  <2>4. [op |-> op, of |-> "none", kids |-> ks, type |-> t, casts |-> casts] \in Node
    BY <1>10, NodeIs
  <2> QED BY <2>3, <2>4
<1>12. op \notin {"variable", "constant"}
  BY DEF Operator, Prefix, Comparison, Branching, Logical
<1>13. op \in {"dereference", "index", ".", "->"} => x.type \in LvalueType
  BY <1>5, <1>7 DEF IsRule
<1>14. op \in {"reference", "="} => IsLvalue[x.kids[1]]
  BY <1>7 DEF SuitableOperand
<1>15. op = "dereference" => Kind(nodes[x.kids[1]].type) = "pointer"
  BY <1>3, <1>5, <1>7, Arities DEF IsRule
<1>16. op = "=" => nodes[x.kids[2]].type # VoidType
  BY <1>3, <1>5, <1>7, Arities DEF IsRule
<1>17. op = "?:" /\ x.type # VoidType =>
         nodes[x.kids[2]].type # VoidType /\ nodes[x.kids[3]].type # VoidType
  BY <1>3, <1>5, <1>7, Arities DEF IsRule
<1>18. x.of # "string" /\ x.op = op
  BY <1>7
<1>19. Len(x.kids) = Arity(x.op) /\ Len(x.casts) = Arity(x.op)
  BY <1>6, <1>7, <1>8
<1>20. x.op \in {"variable", "dereference", "index", ".", "->"} \/ x.of = "string" =>
         x.type \in LvalueType
  BY <1>12, <1>13, <1>18
<1>21. /\ x.op \in {"reference", "="} => IsLvalue[x.kids[1]]
       /\ x.op = "dereference" => Kind(nodes[x.kids[1]].type) = "pointer"
       /\ x.op = "=" => nodes[x.kids[2]].type # VoidType
       /\ x.op = "?:" /\ x.type # VoidType =>
            nodes[x.kids[2]].type # VoidType /\ nodes[x.kids[3]].type # VoidType
  BY <1>14, <1>15, <1>16, <1>17, <1>18
<1>22. x.op \in Operator /\ x.op # "constant"
  BY <1>12, <1>18
<1>23. Fits(x, Len(nodes) + 1)
  <2>1. PICK y : y = x
    OBVIOUS
  <2>2. PICK n \in Nat : n = Len(nodes) + 1 /\ n - 1 = Len(nodes)
    BY <1>0
  <2>3. \A k \in 1..Len(y.kids) : y.kids[k] \in 1..(n - 1)
    <3>1. y.kids = ks
      BY <1>9, <2>1
    <3> QED BY <2>2, <3>1
  <2>4. /\ y.op \in Operator /\ y.op # "constant"
        /\ Len(y.kids) = Arity(y.op) /\ Len(y.casts) = Arity(y.op)
    BY <1>19, <1>22, <2>1
  <2>5. y.op \in {"variable", "dereference", "index", ".", "->"} \/ y.of = "string" =>
          y.type \in LvalueType
    BY <1>20, <2>1
  <2>6. /\ y.op \in {"reference", "="} => IsLvalue[y.kids[1]]
        /\ y.op = "dereference" => Kind(nodes[y.kids[1]].type) = "pointer"
        /\ y.op = "=" => nodes[y.kids[2]].type # VoidType
        /\ y.op = "?:" /\ y.type # VoidType =>
             nodes[y.kids[2]].type # VoidType /\ nodes[y.kids[3]].type # VoidType
    BY <1>21, <2>1
  <2>7. Fits(y, n)
    BY <2>3, <2>4, <2>5, <2>6, FitsAsOperator
  <2> QED BY <2>1, <2>2, <2>7
<1> QED BY <1>11, <1>23

(***************************************************************************)
(* The inductive invariant.                                                *)
(***************************************************************************)
Phase == {"typecheck", "compile", "compiled", "rejected", "failed"}
ExpressionInv ==
  /\ NodesInv /\ CodeInv /\ AcceptedExpressionsCompile
  /\ phase \in Phase /\ pending \in Seq(1..Len(nodes))
  /\ phase = "typecheck" => work = <<>>

LEMMA CodegenInit == Init => ExpressionInv
<1> SUFFICES ASSUME Init PROVE ExpressionInv
  OBVIOUS
<1>1. NodesInv
  <2>1. nodes = <<>>
    BY DEF Init
  <2> QED BY <2>1 DEF NodesInv
<1>2. IrOK(ir) /\ Latest(ir) = 0
  <2>1. ir = [regs |-> <<>>, blocks |-> <<EmptyBlock>>, at |-> 1]
    BY DEF Init
  <2>2. EmptyBlock \in Block /\ EmptyBlock.code = <<>> /\ EmptyBlock.to = <<>>
    BY DEF EmptyBlock, Block
  <2>3. /\ <<EmptyBlock>> \in Seq(Block) /\ Len(<<EmptyBlock>>) = 1
        /\ <<EmptyBlock>>[1] = EmptyBlock /\ <<>> \in Seq(Instruction)
    BY <2>2
  <2>4. ir \in Ir
    BY <2>1, <2>3 DEF Ir
  <2>5. /\ Len(ir.blocks) = 1 /\ ir.blocks[1].code = <<>> /\ ir.blocks[1].to = <<>> /\ ir.at = 1
        /\ Len(ir.regs) = 0
    BY <2>1, <2>2, <2>3
  <2> QED BY <2>4, <2>5 DEF IrOK, CodeOK, Latest
<1>3. WorkOK(work, ir)
  BY NoWork DEF Init
<1>4. value = 0 /\ phase = "typecheck" /\ work = <<>> /\ pending = <<>>
  BY DEF Init, NoValue
<1>5. CodeInv
  BY <1>2, <1>3, <1>4 DEF CodeInv
<1> QED BY <1>1, <1>4, <1>5 DEF ExpressionInv, Phase, AcceptedExpressionsCompile

\* A node is added while nothing is compiled yet.
LEMMA PushKeeps ==
  ASSUME ExpressionInv, phase = "typecheck", NEW x \in Node, Fits(x, Len(nodes) + 1), Push(x),
         NEW rest \in Seq(1..Len(nodes)), pending' = Append(rest, Len(nodes) + 1)
  PROVE  ExpressionInv'
<1>1. /\ nodes' = Append(nodes, x) /\ phase' = phase /\ work' = work /\ ir' = ir /\ value' = value
      /\ NodesInv /\ CodeInv /\ work = <<>> /\ nodes \in Seq(Node)
  BY DEF Push, ExpressionInv, NodesInv
<1>2. NodesInv'
  BY <1>1, FittingNode
<1>3. Len(nodes') = Len(nodes) + 1 /\ Len(nodes) \in Nat
  BY <1>1
<1>4. pending' \in Seq(1..Len(nodes'))
  <2>1. 1..Len(nodes) \subseteq 1..Len(nodes')
    BY <1>3
  <2>2. rest \in Seq(1..Len(nodes'))
    BY <2>1, SeqIncludes
  <2>3. Len(nodes) + 1 \in 1..Len(nodes')
    BY <1>3
  <2> QED BY <2>2, <2>3
<1>5. WorkOK(work, ir)'
  <2>1. work' = <<>>
    BY <1>1
  <2> QED BY <2>1 DEF WorkOK
<1>6. CodeInv'
  <2>1. IrOK(ir') /\ value' \in 0..Latest(ir') /\ phase' # "compile"
    BY <1>1 DEF CodeInv
  <2> QED BY <1>5, <2>1 DEF CodeInv
<1>7. phase' = "typecheck" /\ work' = <<>>
  BY <1>1
<1> QED BY <1>2, <1>4, <1>6, <1>7 DEF ExpressionInv, Phase, AcceptedExpressionsCompile

LEMMA NodesLeft ==
  ASSUME NodesInv, nodes' = nodes
  PROVE  NodesInv'
<1>1. IsLvalue' = IsLvalue
  BY DEF IsLvalue
<1> QED BY <1>1 DEF NodesInv, Fits

LEMMA LeafKeeps ==
  ASSUME ExpressionInv, CheckLeaf
  PROVE  ExpressionInv'
<1>1. PICK y \in Variable \cup Constant :
        Push([op |-> IF y \in Variable THEN "variable" ELSE "constant", of |-> y,
              kids |-> <<>>, type |-> LeafType(y), casts |-> <<>>])
  BY DEF CheckLeaf
<1>2. phase = "typecheck" /\ pending' = Append(pending, Len(nodes) + 1)
  BY DEF CheckLeaf
<1>3. PICK x : x = [op |-> IF y \in Variable THEN "variable" ELSE "constant", of |-> y,
                    kids |-> <<>>, type |-> LeafType(y), casts |-> <<>>]
  OBVIOUS
<1>4. x \in Node /\ Fits(x, Len(nodes) + 1)
  BY <1>3, LeafFits DEF ExpressionInv
<1>5. Push(x) /\ pending \in Seq(1..Len(nodes))
  BY <1>1, <1>3 DEF ExpressionInv
<1> QED BY <1>2, <1>4, <1>5, PushKeeps

\* The code is kept by a step that leaves it alone, unless it starts to compile.
LEMMA CodeLeft ==
  ASSUME CodeInv, nodes' = nodes, work' = work, ir' = ir, value' = value,
         phase' = "compile" => work # <<>>
  PROVE  CodeInv'
<1>1. IrOK(ir) /\ WorkOK(work, ir) /\ value' \in 0..Latest(ir)
  BY DEF CodeInv
<1> QED BY <1>1, CodeInvFollows

LEMMA OperatorKeeps ==
  ASSUME ExpressionInv, CheckOperator
  PROVE  ExpressionInv'
<1>1. PICK op, waiting, kids, types, result, x :
        /\ op \in Operator /\ waiting = Len(pending) - Arity(op) /\ waiting >= 0 /\ phase = "typecheck"
        /\ kids = SubSeq(pending, waiting + 1, Len(pending))
        /\ types = [k \in 1..Arity(op) |-> nodes[kids[k]].type]
        /\ result = ResultOf(op, types)
        /\ x = [op |-> op, of |-> "none", type |-> result.type, casts |-> result.casts,
                kids |-> IF op = "index" /\ IsSwapped(types[1], types[2])
                         THEN <<kids[2], kids[1]>> ELSE kids]
        /\ IF result = Illegal \/ ~SuitableOperand(op, kids[1])
           THEN phase' = "rejected" /\ UNCHANGED <<nodes, pending, work, ir, value>>
           ELSE /\ pending' = Append(SubSeq(pending, 1, waiting), Len(nodes) + 1) /\ Push(x)
  BY ZenonT(40) DEF CheckOperator
<1>2. NodesInv /\ pending \in Seq(1..Len(nodes))
  BY DEF ExpressionInv
<1>3. CASE result = Illegal \/ ~SuitableOperand(op, kids[1])
  <2>1. phase' = "rejected" /\ UNCHANGED <<nodes, pending, work, ir, value>>
    BY <1>1, <1>3
  <2>2. CodeInv'
    BY <2>1, CodeLeft DEF ExpressionInv
  <2>3. NodesInv'
    BY <1>2, <2>1, NodesLeft
  <2> QED BY <1>2, <2>1, <2>2, <2>3 DEF ExpressionInv, Phase, AcceptedExpressionsCompile
<1>4. CASE ~(result = Illegal \/ ~SuitableOperand(op, kids[1]))
  <2>1. /\ result # Illegal /\ SuitableOperand(op, kids[1]) /\ Push(x)
        /\ pending' = Append(SubSeq(pending, 1, waiting), Len(nodes) + 1)
    BY <1>1, <1>4
  <2>2. PICK last \in Nat : last = Len(pending)
    BY <1>2
  <2>3. PICK arity \in 1..3 : arity = Arity(op)
    BY <1>1, Arities
  <2>4. waiting \in Nat /\ waiting <= last /\ last = waiting + arity
    <3>1. waiting = last - arity /\ waiting >= 0
      BY <1>1, <2>2, <2>3
    <3> QED BY <3>1
  <2>5. kids = SubSeq(pending, waiting + 1, last) /\ Len(pending) = last
    BY <1>1, <2>2
  <2>6. kids \in Seq(1..Len(nodes)) /\ Len(kids) = arity
    BY <1>2, <2>4, <2>5
  <2>7. x \in Node /\ Fits(x, Len(nodes) + 1)
    <3>1. Len(kids) = Arity(op)
      BY <2>3, <2>6
    <3>2. /\ types = [k \in 1..Arity(op) |-> nodes[kids[k]].type]
          /\ result = ResultOf(op, types) /\ op \in Operator
      BY <1>1
    <3>3. x = [op |-> op, of |-> "none", type |-> result.type, casts |-> result.casts,
               kids |-> IF op = "index" /\ IsSwapped(types[1], types[2])
                        THEN <<kids[2], kids[1]>> ELSE kids]
      BY <1>1
    <3> QED BY <1>2, <2>1, <2>6, <3>1, <3>2, <3>3, OperatorFits
  <2>8. PICK rest \in Seq(1..Len(nodes)) : rest = SubSeq(pending, 1, waiting)
    <3>1. SubSeq(pending, 1, waiting) \in Seq(1..Len(nodes))
      BY <1>2, <2>4, <2>5
    <3> QED BY <3>1
  <2>9. phase = "typecheck" /\ pending' = Append(rest, Len(nodes) + 1)
    BY <1>1, <2>1, <2>8
  <2> QED BY <2>1, <2>7, <2>9, PushKeeps
<1> QED BY <1>3, <1>4

LEMMA FinishKeeps ==
  ASSUME ExpressionInv, FinishCheck
  PROVE  ExpressionInv'
<1>1. /\ phase = "typecheck" /\ Len(pending) = 1 /\ phase' = "compile"
      /\ work' = <<Frame(pending[1], FALSE)>> /\ UNCHANGED <<nodes, pending, ir, value>>
  BY DEF FinishCheck
<1>2. NodesInv /\ CodeInv /\ pending \in Seq(1..Len(nodes)) /\ IrOK(ir)
  BY DEF ExpressionInv, CodeInv
<1>3. PICK n \in 1..Len(nodes) : n = pending[1]
  <2>1. 1 \in 1..Len(pending)
    BY <1>1
  <2> QED BY <1>2, <2>1
<1>4. PICK f : f = Frame(n, FALSE)
  OBVIOUS
<1>5. FrameOK(f, 0, ir) /\ Owed(f, 0) = {}
  BY <1>2, <1>4, NewFrame
<1>6. ~f.lvalue /\ f.values = <<>>
  BY <1>4 DEF Frame
<1>7. PICK u \in Seq(CallFrame(ir)) : u = <<f>>
  <2>1. f \in CallFrame(ir)
    BY <1>5 DEF FrameOK
  <2>2. <<f>> \in Seq(CallFrame(ir))
    BY <2>1
  <2> QED BY <2>2
<1>8. Len(u) = 1 /\ u[1] = f /\ u # <<>>
  BY <1>7
<1>9. WorkOK(u, ir)
  <2>1. Stage(u, 1) = 0
    BY <1>6, <1>8 DEF Stage
  <2>2. \A i \in 1..Len(u) : i = 1
    BY <1>8
  <2>3. \A i \in 1..Len(u) : FrameOK(u[i], Stage(u, i), ir)
    BY <1>5, <1>8, <2>1, <2>2
  <2>4. \A i \in 2..Len(u) : FALSE
    BY <1>8
  <2>5. \A i, j \in 1..Len(u) : i # j => FALSE
    BY <2>2
  <2> QED BY <1>6, <1>7, <1>8, <2>3, <2>4, <2>5 DEF WorkOK
<1>10. CodeInv'
  <2>1. work' = u /\ ir' = ir /\ nodes' = nodes /\ value' \in 0..Latest(ir)
    BY <1>1, <1>2, <1>3, <1>4, <1>7 DEF CodeInv
  <2> QED BY <1>2, <1>8, <1>9, <2>1, CodeInvFollows
<1>11. NodesInv'
  BY <1>1, <1>2, NodesLeft
<1> QED BY <1>1, <1>2, <1>10, <1>11 DEF ExpressionInv, Phase, AcceptedExpressionsCompile

\* A step of the code generator.
LEMMA CompileKeeps ==
  ASSUME ExpressionInv, UNCHANGED <<nodes, pending>>, CodeInv', phase' \in {"compile", "compiled"}
  PROVE  ExpressionInv'
<1>1. NodesInv'
  BY NodesLeft DEF ExpressionInv
<1> QED BY <1>1 DEF ExpressionInv, Phase, AcceptedExpressionsCompile

LEMMA FailureKeeps ==
  ASSUME ExpressionInv, CannotComputeLvalue
  PROVE  ExpressionInv'
<1>1. phase' = "failed" /\ UNCHANGED <<nodes, pending, work, ir, value>> /\ NodesInv /\ CodeInv
  BY DEF CannotComputeLvalue, ExpressionInv
<1>2. CodeInv' /\ NodesInv'
  BY <1>1, CodeLeft, NodesLeft
<1>3. IsLvalue' = IsLvalue
  BY <1>1 DEF IsLvalue
<1>4. PICK n \in 1..Len(nodes) :
        /\ nodes[n].op \in {"reference", "=", "."}
        /\ IsString(nodes[n].kids[1]) \/ (nodes[n].op = "." /\ ~IsLvalue[nodes[n].kids[1]])
  BY <1>1, StopsAtValues
<1>5. AcceptedExpressionsCompile'
  BY <1>1, <1>3, <1>4 DEF AcceptedExpressionsCompile, IsString
<1> QED BY <1>1, <1>2, <1>5 DEF ExpressionInv, Phase

LEMMA CodegenNext == ExpressionInv /\ [Next]_vars => ExpressionInv'
<1> SUFFICES ASSUME ExpressionInv, [Next]_vars PROVE ExpressionInv'
  OBVIOUS
<1>0. NodesInv /\ CodeInv
  BY DEF ExpressionInv
<1>1. CASE CheckLeaf
  BY <1>1, LeafKeeps
<1>2. CASE CheckOperator
  BY <1>2, OperatorKeeps
<1>3. CASE FinishCheck
  BY <1>3, FinishKeeps
<1>4. CASE CompileVariable
  <2>1. UNCHANGED <<nodes, pending>>
    BY <1>4 DEF CompileVariable, At, Compiling
  <2> QED BY <1>0, <1>4, <2>1, VariableKeeps, CompileKeeps
<1>5. CASE CompileConstant
  <2>1. UNCHANGED <<nodes, pending>>
    BY <1>5 DEF CompileConstant, At, Compiling
  <2> QED BY <1>0, <1>5, <2>1, ConstantKeeps, CompileKeeps
<1>6. CASE CannotComputeLvalue
  BY <1>6, FailureKeeps
<1>7. CASE CompileOperand
  <2>1. UNCHANGED <<nodes, pending>>
    BY <1>7 DEF CompileOperand, Compiling
  <2> QED BY <1>0, <1>7, <2>1, OperandKeeps, CompileKeeps
<1>8. CASE CompileIndex
  <2>1. UNCHANGED <<nodes, pending>>
    BY <1>8 DEF CompileIndex, At, Compiling
  <2> QED BY <1>0, <1>8, <2>1, IndexKeeps, CompileKeeps
<1>9. CASE CompileDereference
  <2>1. UNCHANGED <<nodes, pending>>
    BY <1>9 DEF CompileDereference, At, Compiling
  <2> QED BY <1>0, <1>9, <2>1, DereferenceKeeps, CompileKeeps
<1>10. CASE CompileReference
  <2>1. UNCHANGED <<nodes, pending>>
    BY <1>10 DEF CompileReference, At, Compiling
  <2> QED BY <1>0, <1>10, <2>1, ReferenceKeeps, CompileKeeps
<1>11. CASE CompileMember
  <2>1. UNCHANGED <<nodes, pending>>
    BY <1>11 DEF CompileMember, At, Compiling
  <2> QED BY <1>0, <1>11, <2>1, MemberKeeps, CompileKeeps
<1>12. CASE CompileSizeof
  <2>1. UNCHANGED <<nodes, pending>>
    BY <1>12 DEF CompileSizeof, At, Compiling
  <2> QED BY <1>0, <1>12, <2>1, SizeofKeeps, CompileKeeps
<1>13. CASE CompileApply
  <2>1. UNCHANGED <<nodes, pending>>
    BY <1>13 DEF CompileApply, At, Compiling
  <2> QED BY <1>0, <1>13, <2>1, ApplyKeeps, CompileKeeps
<1>14. CASE CompileBinary
  <2>1. UNCHANGED <<nodes, pending>>
    BY <1>14 DEF CompileBinary, At, Compiling
  <2> QED BY <1>0, <1>14, <2>1, BinaryKeeps, CompileKeeps
<1>15. CASE CompileNegation
  <2>1. UNCHANGED <<nodes, pending>>
    BY <1>15 DEF CompileNegation, At, Compiling
  <2> QED BY <1>0, <1>15, <2>1, NegationKeeps, CompileKeeps
<1>16. CASE CompileNot
  <2>1. UNCHANGED <<nodes, pending>>
    BY <1>16 DEF CompileNot, At, Compiling
  <2> QED BY <1>0, <1>16, <2>1, NotKeeps, CompileKeeps
<1>17. CASE CompileAssign
  <2>1. UNCHANGED <<nodes, pending>>
    BY <1>17 DEF CompileAssign, At, Compiling
  <2> QED BY <1>0, <1>17, <2>1, AssignKeeps, CompileKeeps
<1>18. CASE CompileCondition
  <2>1. UNCHANGED <<nodes, pending>>
    BY <1>18 DEF CompileCondition, At, Compiling
  <2> QED BY <1>0, <1>18, <2>1, ConditionKeeps, CompileKeeps
<1>19. CASE BranchLogical
  <2>1. UNCHANGED <<nodes, pending>>
    BY <1>19 DEF BranchLogical, At, Compiling
  <2> QED BY <1>0, <1>19, <2>1, BranchLogicalKeeps, CompileKeeps
<1>20. CASE JoinLogical
  <2>1. UNCHANGED <<nodes, pending>>
    BY <1>20 DEF JoinLogical, At, Compiling
  <2> QED BY <1>0, <1>20, <2>1, JoinLogicalKeeps, CompileKeeps
<1>21. CASE BranchTernary
  <2>1. UNCHANGED <<nodes, pending>>
    BY <1>21 DEF BranchTernary, At, Compiling
  <2> QED BY <1>0, <1>21, <2>1, BranchTernaryKeeps, CompileKeeps
<1>22. CASE ElseTernary
  <2>1. UNCHANGED <<nodes, pending>>
    BY <1>22 DEF ElseTernary, At, Compiling
  <2> QED BY <1>0, <1>22, <2>1, ElseTernaryKeeps, CompileKeeps
<1>23. CASE JoinTernary
  <2>1. UNCHANGED <<nodes, pending>>
    BY <1>23 DEF JoinTernary, At, Compiling
  <2> QED BY <1>0, <1>23, <2>1, JoinTernaryKeeps, CompileKeeps
<1>24. CASE UNCHANGED vars
  <2>1. UNCHANGED <<phase, nodes, pending, work, ir, value>>
    BY <1>24 DEF vars
  <2>2. CodeInv' /\ NodesInv'
    BY <1>0, <2>1, CodeLeft, NodesLeft DEF CodeInv
  <2>3. IsLvalue' = IsLvalue
    BY <2>1 DEF IsLvalue
  <2>4. AcceptedExpressionsCompile'
    BY <2>1, <2>3 DEF ExpressionInv, AcceptedExpressionsCompile, IsString
  <2> QED BY <2>1, <2>2, <2>4 DEF ExpressionInv
<1> QED
  BY <1>1, <1>2, <1>3, <1>4, <1>5, <1>6, <1>7, <1>8, <1>9, <1>10, <1>11, <1>12, <1>13, <1>14,
     <1>15, <1>16, <1>17, <1>18, <1>19, <1>20, <1>21, <1>22, <1>23, <1>24 DEF Next

\* The nodes, the code and the active calls fit together, whatever the program is
\* doing.
THEOREM CodegenInvariant == Spec => []ExpressionInv
BY CodegenInit, CodegenNext, PTL DEF Spec

\* Every register, block and node that the code generator names exists.
THEOREM CodegenTypes == Spec => []CodegenTypeOK
<1>1. ExpressionInv => CodegenTypeOK
  <2> SUFFICES ASSUME ExpressionInv PROVE CodegenTypeOK
    OBVIOUS
  <2>1. NodesInv /\ CodeInv /\ phase \in Phase /\ pending \in Seq(1..Len(nodes))
    BY DEF ExpressionInv
  <2>2. /\ ir.regs \in Seq(Instruction) /\ ir.blocks \in Seq(Block) /\ ir.at \in 1..Len(ir.blocks)
    BY <2>1 DEF CodeInv, IrOK, Ir
  <2>3. /\ work \in Seq(CallFrame(ir)) /\ value \in 0..Latest(ir) /\ nodes \in Seq(Node)
    BY <2>1 DEF CodeInv, WorkOK, NodesInv
  <2> QED BY <2>1, <2>2, <2>3 DEF CodegenTypeOK, CallFrame, Phase
<1> QED BY <1>1, CodegenInvariant, PTL

\* The phi of a logical or conditional operator names the two blocks that branch
\* to its own, however deep the operands branch (binary.cpp:336, ternary.cpp:77).
THEOREM PhisAreRight == Spec => []PhisMatchPredecessors
<1>1. ExpressionInv => PhisMatchPredecessors
  <2> SUFFICES ASSUME ExpressionInv, NEW b \in 1..Len(ir.blocks), NEW k \in DOMAIN ir.blocks[b].code,
                      ir.regs[ir.blocks[b].code[k]].op = "phi"
               PROVE  JoinsAll(ir.regs[ir.blocks[b].code[k]], Predecessors(b))
    BY DEF PhisMatchPredecessors, JoinsAll
  <2>1. IrOK(ir) /\ CodeOK(ir, b) /\ ir.blocks \in Seq(Block)
    BY DEF ExpressionInv, CodeInv, IrOK, Ir
  <2>2. ir.blocks[b] \in Block
    BY <2>1
  <2>3. k \in 1..Len(ir.blocks[b].code)
    BY <2>2 DEF Block
  <2>4. JoinsAll(ir.regs[ir.blocks[b].code[k]], Preds(ir, b))
    BY <2>1, <2>3 DEF CodeOK
  <2>5. \A p \in 1..Len(ir.blocks) : DOMAIN ir.blocks[p].to = 1..Len(ir.blocks[p].to)
    <3> TAKE p \in 1..Len(ir.blocks)
    <3>1. ir.blocks[p] \in Block
      BY <2>1
    <3> QED BY <3>1 DEF Block
  <2>6. Preds(ir, b) = Predecessors(b)
    BY <2>5 DEF Preds, Predecessors
  <2> QED BY <2>4, <2>6
<1> QED BY <1>1, CodegenInvariant, PTL

\* compileLValue throws only at a string or at the field of a struct that is no
\* lvalue: the type checker has refused every other operand without an address
\* (expression.cpp:22).
THEOREM CodegenCompletes == Spec => []AcceptedExpressionsCompile
<1>1. ExpressionInv => AcceptedExpressionsCompile
  BY DEF ExpressionInv
<1> QED BY <1>1, CodegenInvariant, PTL
==============================================================================
