------------------------- MODULE ExpressionWidthProofs -------------------------
(***************************************************************************)
(* The instructions of an accepted expression take operands of the types   *)
(* they have, for every expression over any variables, but in the five     *)
(* kinds of expressions that the type checker should have refused.         *)
(***************************************************************************)
EXTENDS ExpressionCodegenProofs

(***************************************************************************)
(* Types, by their kinds.                                                  *)
(***************************************************************************)
VoidPointer == Pointer(VoidType)

LEMMA NullptrHasNoPointer == NullptrType \notin LvalueType
<1> SUFFICES ASSUME Pointer(NullptrType) \in Type PROVE FALSE
  BY DEF LvalueType
<1>1. NullptrType \in Seq(TypeKind) /\ Kind(NullptrType) = "nullptr"
  BY BaseTypes DEF BaseType
<1>2. PICK p \in Seq(TypeKind) : p = Pointer(NullptrType) /\ Kind(p) = "pointer"
                                /\ Inner(p) = NullptrType
  BY <1>1, PointerOf
<1>3. \A b \in PointedBase : b \in Seq(TypeKind) /\ Kind(b) # "pointer" /\ Kind(b) # "nullptr"
  BY BaseTypes DEF PointedBase, BaseType
<1>4. p \notin BaseType
  BY <1>2, BaseTypes DEF BaseType
<1>5. ASSUME NEW b \in PointedBase, p = Pointer(b) PROVE FALSE
  BY <1>1, <1>2, <1>3, <1>5, PointerOf
<1>6. ASSUME NEW b \in PointedBase, p = Pointer(Pointer(b)) PROVE FALSE
  <2>1. PICK q \in Seq(TypeKind) : q = Pointer(b) /\ Kind(q) = "pointer"
    BY <1>3, PointerOf
  <2>2. Inner(p) = q
    BY <1>6, <2>1, PointerOf
  <2> QED BY <1>1, <1>2, <2>1, <2>2
<1> QED BY <1>2, <1>4, <1>5, <1>6, TypeCases

LEMMA ByKind ==
  ASSUME NEW t \in Type
  PROVE  /\ Kind(t) \in {"int", "char", "void", "nullptr", "struct", "pointer"}
         /\ t = IntType <=> Kind(t) = "int"
         /\ t = CharType <=> Kind(t) = "char"
         /\ t = VoidType <=> Kind(t) = "void"
         /\ t = NullptrType <=> Kind(t) = "nullptr"
         /\ t = StructType <=> Kind(t) = "struct"
         /\ Kind(t) = "pointer" =>
              /\ Inner(t) \in Type /\ Kind(Inner(t)) # "nullptr"
              /\ Kind(Inner(t)) = "void" <=> Inner(t) = VoidType
         /\ t = VoidPointer <=> Kind(t) = "pointer" /\ Kind(Inner(t)) = "void"
<1>1. Kind(t) \in TypeKind /\ (Kind(t) # "pointer" => t \in BaseType)
  BY TypeShape
<1>2. /\ t = IntType <=> Kind(t) = "int"
      /\ t = CharType <=> Kind(t) = "char"
      /\ t = VoidType <=> Kind(t) = "void"
      /\ t = NullptrType <=> Kind(t) = "nullptr"
      /\ t = StructType <=> Kind(t) = "struct"
  BY <1>1, BaseTypes DEF BaseType
<1>3. ASSUME Kind(t) = "pointer"
      PROVE  /\ Inner(t) \in Type /\ Kind(Inner(t)) # "nullptr"
             /\ Kind(Inner(t)) = "void" <=> Inner(t) = VoidType
  <2>1. PICK e \in LvalueType : e = Inner(t)
    BY <1>3, TypeShape
  <2>2. e \in Type
    BY DEF LvalueType
  <2>3. (Kind(e) = "nullptr" => e = NullptrType) /\ (Kind(e) = "void" <=> e = VoidType)
    BY <2>2, TypeShape, BaseTypes DEF BaseType
  <2> QED BY <2>1, <2>2, <2>3, NullptrHasNoPointer
<1>4. VoidType \in Seq(TypeKind)
  BY BaseTypes DEF BaseType
<1>5. Kind(VoidPointer) = "pointer" /\ Inner(VoidPointer) = VoidType
  BY <1>4, PointerOf DEF VoidPointer
<1>6. ASSUME Kind(t) = "pointer", Inner(t) = VoidType PROVE t = VoidPointer
  <2>1. CASE t \in BaseType
    BY <1>6, <2>1, BaseTypes DEF BaseType
  <2>2. ASSUME NEW b \in PointedBase, t = Pointer(b) PROVE t = VoidPointer
    <3>1. b \in Seq(TypeKind)
      BY BaseTypes DEF PointedBase
    <3>2. Inner(t) = b
      BY <2>2, <3>1, PointerOf
    <3> QED BY <1>6, <2>2, <3>2 DEF VoidPointer
  <2>3. ASSUME NEW b \in PointedBase, t = Pointer(Pointer(b)) PROVE FALSE
    <3>1. b \in Seq(TypeKind)
      BY BaseTypes DEF PointedBase
    <3>2. PICK q \in Seq(TypeKind) : q = Pointer(b) /\ Kind(q) = "pointer"
      BY <3>1, PointerOf
    <3>3. Inner(t) = q
      BY <2>3, <3>2, PointerOf
    <3> QED BY <1>6, <3>2, <3>3, BaseTypes
  <2> QED BY <2>1, <2>2, <2>3, TypeCases
<1>7. t = VoidPointer <=> Kind(t) = "pointer" /\ Kind(Inner(t)) = "void"
  BY <1>3, <1>5, <1>6, BaseTypes
<1> QED BY <1>1, <1>2, <1>3, <1>7 DEF TypeKind

LEMMA LlvmByKind ==
  ASSUME NEW t \in Type
  PROVE  /\ Kind(t) = "int" => ToLlvm(t) = "i32"
         /\ Kind(t) = "char" => ToLlvm(t) = "i8"
         /\ Kind(t) = "void" => ToLlvm(t) = "void"
         /\ Kind(t) = "struct" => ToLlvm(t) = "struct"
         /\ Kind(t) \in {"nullptr", "pointer"} => ToLlvm(t) = "ptr"
BY DEF ToLlvm

\* What can be decided upon, and what can be computed with.
Scalar == LlvmInt \cup {"ptr"}
IsNumber(t) == Kind(t) \in {"int", "char"}
IsArrow(t)  == Kind(t) = "pointer" /\ Kind(Inner(t)) # "void"

LEMMA LlvmOf ==
  ASSUME NEW t \in Type
  PROVE  /\ ToLlvm(t) = "void" <=> t = VoidType
         /\ IsNumber(t) => ToLlvm(t) \in LlvmInt
         /\ IsPointer(t) => ToLlvm(t) = "ptr"
         /\ IsScalar(t) => ToLlvm(t) \in Scalar
         /\ ToLlvm(t) # "nullptr"
<1>1. /\ Kind(t) \in {"int", "char", "void", "nullptr", "struct", "pointer"}
      /\ t = VoidType <=> Kind(t) = "void"
  BY ByKind
<1> QED BY <1>1, LlvmByKind DEF IsNumber, IsPointer, IsScalar, Scalar, LlvmInt

\* Type::equals without its recursion: two pointers apart.
LEMMA EqualKinds ==
  ASSUME NEW s \in Type, NEW t \in Type
  PROVE  /\ Kind(s) # "pointer" => (Equals[s][t] <=> EqualsBase(s, t))
         /\ Kind(s) = "pointer" /\ Kind(t) # "pointer" =>
              (Equals[s][t] <=> Kind(t) = "nullptr" \/ Kind(Inner(s)) = "void")
BY EqualsEquation DEF EqualsPointer

(***************************************************************************)
(* What the casts of the type checker do.  A null pointer constant that is *)
(* to be an integer is no operand of a cast.                               *)
(***************************************************************************)
Seen(t, c) == IF c = NoType THEN t ELSE c
GoodCast(from, to) ==
  \/ ToLlvm(from) = ToLlvm(to)
  \/ IsNumber(from) /\ IsNumber(to)
  \/ IsArrow(from) /\ to = IntType
CastsWell(from, to) == to \in {NoType, VoidType} \/ ConvertsNull(from, to) \/ GoodCast(from, to)

LEMMA CastIs ==
  ASSUME NEW from \in Type, NEW to \in CastTarget, ~ConvertsNull(from, to), NEW g, NEW r
  PROVE  \/ /\ Cast(g, r, from, to) = g
            /\ to # NoType /\ GoodCast(from, to) => ToLlvm(from) = ToLlvm(to)
         \/ \E op \in {"intcast", "inttoptr", "ptrtoint"} :
              /\ Cast(g, r, from, to) = Emit(g, Instr(op, ToLlvm(to), <<r>>))
              /\ to \in Type /\ IsScalar(to)
              /\ IF op = "ptrtoint" THEN Kind(from) = "pointer" ELSE IsNumber(from)
<1>1. CASE to = NoType
  BY <1>1 DEF Cast
<1>2. ASSUME to # NoType
      PROVE  \/ /\ Cast(g, r, from, to) = g
                /\ GoodCast(from, to) => ToLlvm(from) = ToLlvm(to)
             \/ \E op \in {"intcast", "inttoptr", "ptrtoint"} :
                  /\ Cast(g, r, from, to) = Emit(g, Instr(op, ToLlvm(to), <<r>>))
                  /\ to \in Type /\ IsScalar(to)
                  /\ IF op = "ptrtoint" THEN Kind(from) = "pointer" ELSE IsNumber(from)
  <2>0. to \in Type
    BY <1>2 DEF CastTarget
  <2>1. /\ Kind(from) \in {"int", "char", "void", "nullptr", "struct", "pointer"}
        /\ Kind(to) \in {"int", "char", "void", "nullptr", "struct", "pointer"}
        /\ to = IntType <=> Kind(to) = "int"
    BY <2>0, ByKind
  <2>2. /\ Kind(from) # "pointer" => (Equals[from][to] <=> EqualsBase(from, to))
        /\ Kind(from) = "pointer" /\ Kind(to) # "pointer" =>
             (Equals[from][to] <=> Kind(to) = "nullptr" \/ Kind(Inner(from)) = "void")
    BY <2>0, EqualKinds
  <2>3. Kind(from) = Kind(to) => ToLlvm(from) = ToLlvm(to)
    BY <2>0, <2>1, LlvmByKind
  <2>4. Kind(from) \in {"nullptr", "pointer"} /\ Kind(to) \in {"nullptr", "pointer"} =>
          ToLlvm(from) = ToLlvm(to)
    BY <2>0, <2>1, LlvmByKind
  <2>5. ~(Kind(from) = "nullptr" /\ Kind(to) \in {"int", "char"})
    BY DEF ConvertsNull
  <2>6. CASE Equals[from][to]
    <3>1. Cast(g, r, from, to) = g
      BY <2>6 DEF Cast
    <3>2. GoodCast(from, to) => ToLlvm(from) = ToLlvm(to)
      BY <2>1, <2>2, <2>3, <2>4, <2>5, <2>6 DEF GoodCast, EqualsBase, IsNumber, IsArrow, IsInteger
    <3> QED BY <3>1, <3>2
  <2>7. CASE ~Equals[from][to]
    <3>1. CASE (Kind(from) = "char" /\ IsInteger(to)) \/ (IsInteger(from) /\ Kind(to) = "char")
      <4>1. Cast(g, r, from, to) = Emit(g, Instr("intcast", ToLlvm(to), <<r>>))
        BY <1>2, <2>7, <3>1 DEF Cast
      <4>2. IsScalar(to) /\ IsNumber(from)
        BY <2>1, <2>5, <3>1 DEF IsScalar, IsNumber, IsInteger
      <4> QED BY <2>0, <4>1, <4>2
    <3>2. CASE ~((Kind(from) = "char" /\ IsInteger(to)) \/ (IsInteger(from) /\ Kind(to) = "char"))
      <4>1. CASE IsInteger(from) /\ IsPointer(to)
        <5>1. Cast(g, r, from, to) = Emit(g, Instr("inttoptr", ToLlvm(to), <<r>>))
          BY <1>2, <2>7, <3>2, <4>1 DEF Cast
        <5>2. Kind(from) # "nullptr"
          BY <2>2, <2>7, <4>1 DEF EqualsBase, IsPointer
        <5>3. IsScalar(to) /\ IsNumber(from)
          BY <4>1, <5>2 DEF IsScalar, IsNumber, IsInteger, IsPointer
        <5> QED BY <2>0, <5>1, <5>3
      <4>2. CASE ~(IsInteger(from) /\ IsPointer(to)) /\ IsPointer(from) /\ IsInteger(to)
        <5>1. Cast(g, r, from, to) = Emit(g, Instr("ptrtoint", ToLlvm(to), <<r>>))
          BY <1>2, <2>7, <3>2, <4>2 DEF Cast
        <5>2. IsScalar(to) /\ Kind(from) = "pointer"
          BY <2>5, <4>2 DEF IsScalar, IsInteger, IsPointer
        <5> QED BY <2>0, <5>1, <5>2
      <4>3. CASE ~(IsInteger(from) /\ IsPointer(to)) /\ ~(IsPointer(from) /\ IsInteger(to))
        <5>1. Cast(g, r, from, to) = g
          BY <1>2, <2>7, <3>2, <4>3 DEF Cast
        <5>2. IsNumber(from) /\ IsNumber(to) => Kind(from) = Kind(to)
          BY <2>1, <3>2 DEF IsNumber, IsInteger
        <5>3. ~(IsArrow(from) /\ to = IntType)
          BY <2>1, <4>3 DEF IsArrow, IsPointer, IsInteger
        <5> QED BY <2>3, <5>1, <5>2, <5>3 DEF GoodCast
      <4> QED BY <4>1, <4>2, <4>3
    <3> QED BY <3>1, <3>2
  <2> QED BY <2>6, <2>7
<1> QED BY <1>1, <1>2

(***************************************************************************)
(* Instructions that have operands of the types they take.                 *)
(***************************************************************************)
TakesTwo == {"phi", "shift", "shift back", "difference", "store"} \cup Comparison
TakesOne == {"ptrtoint", "load", "apply", "field", "zext", "is zero"}
Arguments(op) == IF op \in TakesTwo THEN 2 ELSE IF op \in TakesOne THEN 1 ELSE 0
Typed(regs, i) ==
  /\ i.args \in Seq(0..Len(regs)) /\ Len(i.args) >= Arguments(i.op)
  /\ IsWellTyped(regs, i)
CodeTyped(regs) == \A r \in 1..Len(regs) : Typed(regs, regs[r])

\* Instructions were added.
Longer(regs, more) ==
  /\ Len(regs) \in Nat /\ Len(more) \in Nat /\ Len(regs) <= Len(more)
  /\ \A r \in 1..Len(regs) : more[r] = regs[r]

LEMMA LongerTwice ==
  ASSUME NEW a, NEW b, NEW c, Longer(a, b), Longer(b, c)
  PROVE  Longer(a, c)
BY DEF Longer

LEMMA LongerWidth ==
  ASSUME NEW regs, NEW more, Longer(regs, more), NEW r \in 0..Len(regs)
  PROVE  Width(more, r) = Width(regs, r)
BY DEF Longer, Width, NoValue

LEMMA LongerTyped ==
  ASSUME NEW regs, NEW more, Longer(regs, more), NEW i, Typed(regs, i)
  PROVE  Typed(more, i)
<1> DEFINE W(k) == Width(regs, i.args[k])
           M(k) == Width(more, i.args[k])
<1>1. PICK A : A = 0..Len(regs)
  OBVIOUS
<1>2. PICK B : B = 0..Len(more)
  OBVIOUS
<1>3. A \subseteq B
  BY <1>1, <1>2 DEF Longer
<1>4. PICK args \in Seq(A) : args = i.args /\ Len(args) >= Arguments(i.op)
  BY <1>1 DEF Typed
<1>5. args \in Seq(B)
  BY <1>3, SeqIncludes
<1>6. ASSUME NEW k \in 1..Len(args) PROVE args[k] \in A /\ M(k) = W(k)
  <2>1. args[k] \in 0..Len(regs)
    BY <1>1, <1>4
  <2>2. PICK r \in 0..Len(regs) : r = args[k]
    BY <2>1
  <2> QED BY <1>1, <1>4, <2>2, LongerWidth
<1>7. DOMAIN args = 1..Len(args) /\ Len(args) \in Nat
  OBVIOUS
<1>8. AreInts(regs, args) => AreInts(more, args)
  BY <1>4, <1>6, <1>7 DEF AreInts
<1>9. Arguments(i.op) = 2 => M(1) = W(1) /\ M(2) = W(2)
  <2> SUFFICES ASSUME Arguments(i.op) = 2 PROVE M(1) = W(1) /\ M(2) = W(2)
    OBVIOUS
  <2>1. 1 \in 1..Len(args) /\ 2 \in 1..Len(args)
    BY <1>4, <1>7
  <2> HIDE DEF W, M
  <2> QED BY <1>6, <2>1
<1>10. Arguments(i.op) = 1 => M(1) = W(1)
  <2> SUFFICES ASSUME Arguments(i.op) = 1 PROVE M(1) = W(1)
    OBVIOUS
  <2>1. 1 \in 1..Len(args)
    BY <1>4, <1>7
  <2> HIDE DEF W, M
  <2> QED BY <1>6, <2>1
<1>11. IsWellTyped(regs, i)
  BY DEF Typed
<1>12. IsWellTyped(more, i)
  <2>1. CASE i.op \in TakesTwo
    <3>1. M(1) = W(1) /\ M(2) = W(2)
      BY <1>9, <2>1 DEF Arguments
    <3> QED BY <1>11, <2>1, <3>1 DEF IsWellTyped, Comparison, TakesTwo
  <2>2. CASE i.op \in TakesOne
    <3>1. Arguments(i.op) = 1
      BY <2>2 DEF Arguments, TakesOne, TakesTwo, Comparison
    <3>2. M(1) = W(1)
      BY <1>10, <3>1
    <3> QED BY <1>11, <2>2, <3>2 DEF IsWellTyped, Comparison, TakesOne
  <2>3. CASE i.op \notin TakesTwo /\ i.op \notin TakesOne
    BY <1>4, <1>8, <1>11, <2>3 DEF IsWellTyped, TakesOne, TakesTwo
  <2> QED BY <2>1, <2>2, <2>3
<1> QED BY <1>2, <1>4, <1>5, <1>12 DEF Typed

\* An instruction that is typed was added to code that is.
LEMMA EmitTyped ==
  ASSUME NEW g, IrOK(g), CodeTyped(g.regs), NEW i \in Instruction, Typed(g.regs, i),
         NEW h, h = Emit(g, i)
  PROVE  /\ CodeTyped(h.regs) /\ Longer(g.regs, h.regs)
         /\ Latest(g) \in Nat /\ Latest(h) = Latest(g) + 1 /\ Len(h.regs) = Latest(h)
         /\ Width(h.regs, Latest(h)) = i.type
<1>1. /\ Len(h.regs) = Len(g.regs) + 1 /\ Len(g.regs) \in Nat
      /\ \A r \in 1..Len(g.regs) : h.regs[r] = g.regs[r]
      /\ h.regs[Len(g.regs) + 1] = i
  BY Emitted DEF IrOK
<1>2. Longer(g.regs, h.regs)
  BY <1>1 DEF Longer
<1>3. ASSUME NEW r \in 1..Len(h.regs) PROVE Typed(h.regs, h.regs[r])
  <2>1. CASE r = Len(g.regs) + 1
    <3>1. Typed(h.regs, i)
      BY <1>2, LongerTyped
    <3> QED BY <1>1, <2>1, <3>1
  <2>2. CASE r # Len(g.regs) + 1
    <3>1. r \in 1..Len(g.regs)
      BY <1>1, <2>2
    <3>2. PICK j : j = g.regs[r] /\ Typed(g.regs, j)
      BY <3>1 DEF CodeTyped
    <3>3. Typed(h.regs, j)
      BY <1>2, <3>2, LongerTyped
    <3> QED BY <1>1, <3>1, <3>2, <3>3
  <2> QED BY <2>1, <2>2
<1>4. Width(h.regs, Len(h.regs)) = i.type
  BY <1>1 DEF Width, NoValue
<1> QED BY <1>1, <1>2, <1>3, <1>4 DEF CodeTyped, Latest

LEMMA ExtendsLonger ==
  ASSUME NEW g, IrOK(g), NEW h, Extends(g, h)
  PROVE  Longer(g.regs, h.regs)
BY DEF Extends, IrOK, Ir, Longer
(***************************************************************************)
(* What the type rules promise the code generator: the casts can be done,  *)
(* and the operands have the types that the instructions take.             *)
(***************************************************************************)
LEMMA ResultParts ==
  ASSUME NEW t
  PROVE  /\ \A c : Result(t, <<c>>).type = t /\ Result(t, <<c>>).casts[1] = c
         /\ \A c, d : /\ Result(t, <<c, d>>).type = t
                      /\ Result(t, <<c, d>>).casts[1] = c /\ Result(t, <<c, d>>).casts[2] = d
         /\ \A c, d, e : /\ Result(t, <<c, d, e>>).type = t
                         /\ Result(t, <<c, d, e>>).casts[1] = c /\ Result(t, <<c, d, e>>).casts[2] = d
                         /\ Result(t, <<c, d, e>>).casts[3] = e
         /\ Result(t, Uncast).type = t
         /\ Result(t, Uncast).casts[1] = NoType /\ Result(t, Uncast).casts[2] = NoType
BY DEF Result, Uncast

\* Casts to int.
LEMMA CastsToInt ==
  ASSUME NEW t \in Type, IsArithmetic(t) \/ IsArrow(t)
  PROVE  CastsWell(t, IntType)
BY ByKind, BaseTypes DEF CastsWell, ConvertsNull, GoodCast, IsNumber, IsArithmetic, IsArrow

\* A value that is not cast, or to its own type.
LEMMA CastsToItself ==
  ASSUME NEW t \in Type
  PROVE  CastsWell(t, NoType) /\ CastsWell(t, t)
BY DEF CastsWell, GoodCast

LEMMA ArithmeticRule ==
  ASSUME NEW l \in Type, NEW r \in Type, AreArithmetic(l, r),
         NEW u, u = ArithmeticResult(l, r), NEW c, c = u.casts[1], NEW d, d = u.casts[2],
         Seen(l, c) # NullptrType, Seen(r, d) # NullptrType
  PROVE  /\ u.type = IntType /\ CastsWell(l, c) /\ CastsWell(r, d)
         /\ IsNumber(Seen(l, c)) /\ IsNumber(Seen(r, d))
<1>1. IsArithmetic(l) /\ IsArithmetic(r)
  BY DEF AreArithmetic
<1>2. CASE Unify(l, r) # NoType
  <2>1. Unify(l, r) = IntType
    BY <1>2, CastTypes
  <2>2. u = Result(IntType, <<IntType, IntType>>)
    BY <1>2, <2>1 DEF ArithmeticResult
  <2>3. u.type = IntType /\ c = IntType /\ d = IntType
    BY <2>2, ResultParts
  <2>4. Seen(l, c) = IntType /\ Seen(r, d) = IntType
    BY <2>3, NamedTypes DEF Seen
  <2> QED BY <1>1, <2>3, <2>4, CastsToInt, BaseTypes DEF IsNumber
<1>3. CASE Unify(l, r) = NoType
  <2>1. u = Result(IntType, Uncast)
    BY <1>3 DEF ArithmeticResult
  <2>2. u.type = IntType /\ c = NoType /\ d = NoType
    BY <2>1, ResultParts
  <2>3. Seen(l, c) = l /\ Seen(r, d) = r
    BY <2>2 DEF Seen
  <2>4. Kind(l) # "nullptr" /\ Kind(r) # "nullptr"
    BY <2>3, ByKind
  <2> QED BY <1>1, <2>2, <2>3, <2>4, CastsToItself DEF IsNumber, IsArithmetic
<1> QED BY <1>2, <1>3

\* What is added to a pointer is an int; void* has no elements.
LEMMA AddRule ==
  ASSUME NEW l \in Type, NEW r \in Type, l # VoidPointer, r # VoidPointer,
         NEW u, u = AddResult(l, r), u # Illegal, NEW c, c = u.casts[1], NEW d, d = u.casts[2],
         Seen(l, c) # NullptrType, Seen(r, d) # NullptrType
  PROVE  /\ CastsWell(l, c) /\ CastsWell(r, d)
         /\ \/ u.type = IntType /\ IsNumber(Seen(l, c)) /\ IsNumber(Seen(r, d))
            \/ u.type = l /\ Seen(l, c) = l /\ IsArrow(l) /\ IsNumber(Seen(r, d))
            \/ u.type = r /\ Seen(r, d) = r /\ IsArrow(r) /\ IsNumber(Seen(l, c))
<1>0. IsNumber(IntType) /\ IntType # NoType
  BY BaseTypes, NamedTypes DEF IsNumber
<1>1. CASE AreArithmetic(l, r)
  <2>1. u = ArithmeticResult(l, r)
    BY <1>1 DEF AddResult, AreArithmetic, IsArithmetic
  <2> QED BY <1>1, <2>1, ArithmeticRule
<1>2. CASE Kind(l) = "pointer" /\ IsArithmetic(r)
  <2>1. u = Result(l, <<NoType, IntType>>)
    BY <1>2 DEF AddResult, AreArithmetic, IsArithmetic
  <2>2. u.type = l /\ c = NoType /\ d = IntType
    <3>1. PICK x : x = Result(l, <<NoType, IntType>>)
      OBVIOUS
    <3>2. x.type = l /\ x.casts[1] = NoType /\ x.casts[2] = IntType
      BY <3>1 DEF Result
    <3> QED BY <2>1, <3>1, <3>2
  <2>3. IsArrow(l)
    BY <1>2, ByKind DEF IsArrow
  <2> QED BY <1>0, <1>2, <2>2, <2>3, CastsToInt, CastsToItself DEF Seen
<1>3. CASE IsArithmetic(l) /\ Kind(r) = "pointer"
  <2>1. u = Result(r, <<IntType, NoType>>)
    BY <1>3 DEF AddResult, AreArithmetic, IsArithmetic
  <2>2. u.type = r /\ c = IntType /\ d = NoType
    BY <2>1, ResultParts
  <2>3. IsArrow(r)
    BY <1>3, ByKind DEF IsArrow
  <2> QED BY <1>0, <1>3, <2>2, <2>3, CastsToInt, CastsToItself DEF Seen
<1> QED BY <1>1, <1>2, <1>3 DEF AddResult

LEMMA SubtractRule ==
  ASSUME NEW l \in Type, NEW r \in Type,
         NEW u, u = SubtractResult(l, r), u # Illegal, NEW c, c = u.casts[1], NEW d, d = u.casts[2],
         Seen(l, c) # NullptrType, Seen(r, d) # NullptrType
  PROVE  /\ CastsWell(l, c) /\ CastsWell(r, d)
         /\ \/ u.type = IntType /\ IsNumber(Seen(l, c)) /\ IsNumber(Seen(r, d))
            \/ u.type = l /\ Seen(l, c) = l /\ IsArrow(l) /\ IsNumber(Seen(r, d))
            \/ u.type = IntType /\ Seen(l, c) = l /\ Seen(r, d) = r /\ IsArrow(l) /\ IsArrow(r)
<1>1. CASE AreArithmetic(l, r)
  <2>1. u = ArithmeticResult(l, r)
    BY <1>1 DEF SubtractResult, AreArithmetic, IsArithmetic
  <2> QED BY <1>1, <2>1, ArithmeticRule
<1>2. CASE Kind(l) = "pointer" /\ Kind(r) = "pointer" /\ Equals[l][r]
  <2>1. u = Result(IntType, Uncast) /\ IsObjectType(Inner(l)) /\ IsObjectType(Inner(r))
    BY <1>2 DEF SubtractResult, AreArithmetic, IsArithmetic
  <2>2. u.type = IntType /\ c = NoType /\ d = NoType
    BY <2>1, ResultParts
  <2> QED BY <1>2, <2>1, <2>2, CastsToItself DEF Seen, IsArrow, IsObjectType
<1>3. CASE Kind(l) = "pointer" /\ IsArithmetic(r)
  <2>1. u = Result(l, Uncast) /\ IsObjectType(Inner(l))
    BY <1>3 DEF SubtractResult, AreArithmetic, IsArithmetic
  <2>2. u.type = l /\ c = NoType /\ d = NoType
    BY <2>1, ResultParts
  <2>3. IsNumber(r)
    BY <1>3, <2>2, ByKind DEF Seen, IsNumber, IsArithmetic
  <2> QED BY <1>3, <2>1, <2>2, <2>3, CastsToItself DEF Seen, IsArrow, IsObjectType
<1> QED BY <1>1, <1>2, <1>3 DEF SubtractResult

\* The common type of two operands that have a value.  A void* equals every type,
\* so it has to be with a pointer.
LEMMA CommonRule ==
  ASSUME NEW l \in Type, NEW r \in Type, l # VoidType, r # VoidType,
         VoidPointer \in {l, r} => IsPointer(l) /\ IsPointer(r),
         NEW u, u = CommonType(l, r), u # NoType
  PROVE  /\ u \in Type /\ u # VoidType /\ CastsWell(l, u) /\ CastsWell(r, u)
         /\ l # StructType => IsScalar(u)
<1>1. /\ Kind(l) \in {"int", "char", "void", "nullptr", "struct", "pointer"}
      /\ Kind(r) \in {"int", "char", "void", "nullptr", "struct", "pointer"}
      /\ Kind(l) # "void" /\ Kind(r) # "void"
  BY ByKind
<1>2. CASE Unify(l, r) # NoType
  <2>1. u = IntType
    BY <1>2, CastTypes DEF CommonType
  <2>2. \/ {Kind(l), Kind(r)} = {"char", "int"}
        \/ Kind(l) = "int" /\ IsPointer(r)
        \/ IsPointer(l) /\ Kind(r) = "int"
        \/ {Kind(l), Kind(r)} = {"char", "nullptr"}
    BY <1>2 DEF Unify
  <2>3. ~IsPointer(l) \/ ~IsPointer(r)
    <3>1. {Kind(l), Kind(r)} = {"char", "int"} => ~IsPointer(l)
      BY DEF IsPointer
    <3>2. {Kind(l), Kind(r)} = {"char", "nullptr"} => Kind(l) = "char" \/ Kind(r) = "char"
      OBVIOUS
    <3> QED BY <2>2, <3>1, <3>2 DEF IsPointer
  <2>4. l # VoidPointer /\ r # VoidPointer
    BY <2>3
  <2>5. \A t \in {l, r} : IsArithmetic(t) \/ Kind(t) = "pointer"
    BY <2>2 DEF IsArithmetic, IsPointer
  <2>6. \A t \in {l, r} : IsArithmetic(t) \/ IsArrow(t)
    BY <2>4, <2>5, ByKind DEF IsArrow
  <2> QED BY <2>1, <2>6, CastsToInt, NamedTypes, BaseTypes DEF IsScalar
<1>3. CASE Unify(l, r) = NoType
  <2>1. u = l /\ Equals[l][r]
    BY <1>3 DEF CommonType
  <2>2. ToLlvm(l) = ToLlvm(r)
    <3>1. CASE Kind(l) = "pointer"
      <4>1. Kind(r) \in {"nullptr", "pointer"}
        <5>1. CASE l = VoidPointer
          BY <5>1 DEF IsPointer
        <5>2. CASE l # VoidPointer
          BY <1>1, <2>1, <3>1, <5>2, ByKind, EqualKinds
        <5> QED BY <5>1, <5>2
      <4> QED BY <3>1, <4>1, LlvmByKind
    <3>2. CASE Kind(l) # "pointer"
      <4>1. EqualsBase(l, r)
        BY <2>1, <3>2, EqualKinds
      <4>2. CASE Kind(l) = Kind(r)
        BY <1>1, <3>2, <4>2, LlvmByKind
      <4>3. CASE Kind(l) # Kind(r) /\ IsInteger(l) /\ IsInteger(r)
        <5>1. l # r
          BY <4>3
        <5>2. (Kind(l) = "int" /\ IsPointer(r)) \/ (IsPointer(l) /\ Kind(r) = "int")
          BY <4>3 DEF IsInteger, IsPointer
        <5>3. Unify(l, r) = IntType
          BY <5>1, <5>2 DEF Unify, StrongEquals
        <5> QED BY <1>3, <5>3, NamedTypes
      <4>4. CASE Kind(l) = "nullptr" /\ Kind(r) = "pointer"
        BY <4>4, LlvmByKind
      <4> QED BY <4>1, <4>2, <4>3, <4>4 DEF EqualsBase
    <3> QED BY <3>1, <3>2
  <2>3. l # StructType => IsScalar(l)
    BY <1>1, ByKind DEF IsScalar
  <2> QED BY <2>1, <2>2, <2>3 DEF CastsWell, GoodCast
<1> QED BY <1>2, <1>3
LEMMA CompareRule ==
  ASSUME NEW l \in Type, NEW r \in Type, {l, r} \cap {StructType, VoidType} = {},
         VoidPointer \in {l, r} => IsPointer(l) /\ IsPointer(r),
         NEW u, u = CompareResult(l, r), u # Illegal, NEW c, c = u.casts[1], NEW d, d = u.casts[2]
  PROVE  /\ u.type = IntType /\ c \in Type /\ d = c /\ IsScalar(c)
         /\ CastsWell(l, c) /\ CastsWell(r, c)
<1>1. PICK v : v = CommonType(l, r) /\ v # NoType
  BY DEF CompareResult
<1>2. u = Result(IntType, <<v, v>>)
  BY <1>1 DEF CompareResult
<1>3. u.type = IntType /\ c = v /\ d = v
  BY <1>2 DEF Result
<1>4. l # VoidType /\ r # VoidType /\ l # StructType
  OBVIOUS
<1> QED BY <1>1, <1>3, <1>4, CommonRule

\* The operands of && and || are decided upon, cast or not.
LEMMA LogicalRule ==
  ASSUME NEW l \in Type, NEW r \in Type, NEW u, u = LogicalResult(l, r), u # Illegal
  PROVE  u.type = IntType /\ IsScalar(l) /\ IsScalar(r)
<1>1. IsScalar(l) /\ IsScalar(r)
  BY DEF LogicalResult, IsPointer, IsScalar
<1>2. CASE IsPointer(l) /\ IsPointer(r)
  <2>1. u = Result(IntType, Uncast)
    BY <1>1, <1>2 DEF LogicalResult
  <2> QED BY <1>1, <2>1 DEF Result
<1>3. CASE ~(IsPointer(l) /\ IsPointer(r))
  <2>1. u = CompareResult(l, r)
    BY <1>1, <1>3 DEF LogicalResult
  <2>2. u = Result(IntType, <<CommonType(l, r), CommonType(l, r)>>)
    BY <2>1 DEF CompareResult
  <2> QED BY <1>1, <2>2 DEF Result
<1> QED BY <1>2, <1>3

LEMMA TernaryRule ==
  ASSUME NEW t \in Type, NEW l \in Type, NEW r \in Type,
         VoidPointer \in {l, r} => IsPointer(l) /\ IsPointer(r),
         NEW u, u = TernaryResult(t, l, r), u # Illegal,
         NEW c, c = u.casts[2], NEW d, d = u.casts[3]
  PROVE  /\ IsScalar(t) /\ c = u.type /\ d = u.type
         /\ CastsWell(l, c) /\ CastsWell(r, d)
<1>1. IsScalar(t)
  BY DEF TernaryResult
<1>2. CASE VoidType \in {l, r}
  <2>1. u = Result(VoidType, <<NoType, VoidType, VoidType>>)
    BY <1>1, <1>2 DEF TernaryResult
  <2>2. u.type = VoidType /\ c = VoidType /\ d = VoidType
    BY <2>1 DEF Result
  <2> QED BY <1>1, <2>2 DEF CastsWell
<1>3. CASE VoidType \notin {l, r}
  <2>1. PICK v : v = CommonType(l, r) /\ v # NoType
    BY <1>1, <1>3 DEF TernaryResult
  <2>2. u = Result(v, <<NoType, v, v>>)
    BY <1>1, <1>3, <2>1 DEF TernaryResult
  <2>3. u.type = v /\ c = v /\ d = v
    BY <2>2 DEF Result
  <2> QED BY <1>1, <1>3, <2>1, <2>3, CommonRule
<1> QED BY <1>2, <1>3

\* What is assigned has the type of the left operand, which has none of a null pointer.
LEMMA AssignRule ==
  ASSUME NEW l \in Type, NEW r \in Type, l # NullptrType,
         NEW u, u = AssignResult(l, r), u # Illegal,
         NEW c, c = u.casts[1], NEW d, d = u.casts[2]
  PROVE  /\ u.type = l /\ c = NoType /\ CastsWell(r, d) /\ r # VoidType
         /\ ToLlvm(Seen(r, d)) = ToLlvm(l)
<1>1. /\ Kind(l) \in {"int", "char", "void", "struct", "pointer"}
      /\ Kind(r) \in {"int", "char", "void", "nullptr", "struct", "pointer"}
      /\ r # VoidType
  BY ByKind, AssignResults
<1>2. CASE AreArithmetic(l, r)
  <2>1. CASE r = l
    <3>1. u = Result(l, Uncast)
      BY <1>2, <2>1 DEF AssignResult, StrongEquals, AreArithmetic, IsArithmetic
    <3>2. u.type = l /\ c = NoType /\ d = NoType
      BY <3>1 DEF Result, Uncast
    <3> QED BY <1>1, <2>1, <3>2, CastsToItself DEF Seen
  <2>2. CASE r # l
    <3>1. u = Result(l, <<NoType, l>>)
      BY <1>2, <2>2 DEF AssignResult, StrongEquals, AreArithmetic, IsArithmetic
    <3>2. u.type = l /\ c = NoType /\ d = l
      BY <3>1 DEF Result
    <3>3. CastsWell(r, l)
      BY <1>1, <1>2 DEF CastsWell, ConvertsNull, GoodCast, IsNumber, AreArithmetic, IsArithmetic
    <3>4. Seen(r, l) = l
      BY NamedTypes DEF Seen
    <3> QED BY <1>1, <3>2, <3>3, <3>4
  <2> QED BY <2>1, <2>2
<1>3. CASE ~AreArithmetic(l, r)
  <2>1. u = Result(l, Uncast) /\ ToLlvm(r) = ToLlvm(l)
    <3>1. CASE Kind(l) = "struct"
      <4>1. u = Result(l, Uncast) /\ Equals[l][r]
        BY <1>3, <3>1 DEF AssignResult
      <4>2. Kind(r) = "struct"
        BY <3>1, <4>1, EqualKinds DEF EqualsBase, IsInteger
      <4> QED BY <3>1, <4>1, <4>2, LlvmByKind
    <3>2. CASE Kind(l) = "pointer" /\ Kind(r) = "pointer"
      <4>1. u = Result(l, Uncast)
        BY <1>3, <3>2 DEF AssignResult
      <4> QED BY <3>2, <4>1, LlvmByKind
    <3>3. CASE Kind(l) = "pointer" /\ Kind(r) = "nullptr"
      <4>1. u = Result(l, Uncast)
        BY <1>3, <3>3 DEF AssignResult
      <4> QED BY <3>3, <4>1, LlvmByKind
    <3> QED BY <1>3, <3>1, <3>2, <3>3 DEF AssignResult
  <2>2. u.type = l /\ c = NoType /\ d = NoType
    BY <2>1 DEF Result, Uncast
  <2> QED BY <1>1, <2>1, <2>2, CastsToItself DEF Seen
<1> QED BY <1>2, <1>3

LEMMA UnaryRules ==
  ASSUME NEW t \in Type
  PROVE  /\ NegationResult(t) # Illegal =>
              /\ NegationResult(t).type = IntType /\ NegationResult(t).casts[1] = NoType
              /\ IsArithmetic(t)
         /\ NotResult(t) # Illegal => NotResult(t).type = IntType /\ IsScalar(t)
         /\ SizeofResult(t).type = IntType
         /\ ReferenceResult(t).type = Pointer(t) /\ ReferenceResult(t).casts[1] = NoType
         /\ DereferenceResult(t) # Illegal =>
              DereferenceResult(t).casts[1] = NoType /\ Kind(t) = "pointer"
         /\ DotResult(t) # Illegal =>
              DotResult(t).type = IntType /\ DotResult(t).casts[1] = NoType
         /\ ArrowResult(t) # Illegal =>
              /\ ArrowResult(t).type = IntType /\ ArrowResult(t).casts[1] = NoType
              /\ Kind(t) = "pointer"
<1>1. NegationResult(t) # Illegal =>
        /\ NegationResult(t).type = IntType /\ NegationResult(t).casts[1] = NoType
        /\ IsArithmetic(t)
  BY DEF NegationResult, Result
<1>2. NotResult(t) # Illegal => NotResult(t).type = IntType /\ IsScalar(t)
  BY DEF NotResult, Result
<1>3. SizeofResult(t).type = IntType
  BY DEF SizeofResult, Result
<1>4. ReferenceResult(t).type = Pointer(t) /\ ReferenceResult(t).casts[1] = NoType
  BY DEF ReferenceResult, Result
<1>5. DereferenceResult(t) # Illegal =>
        DereferenceResult(t).casts[1] = NoType /\ Kind(t) = "pointer"
  BY DEF DereferenceResult, Result
<1>6. DotResult(t) # Illegal => DotResult(t).type = IntType /\ DotResult(t).casts[1] = NoType
  BY DEF DotResult, Result, FieldType
<1>7. ArrowResult(t) # Illegal =>
        ArrowResult(t).type = IntType /\ ArrowResult(t).casts[1] = NoType /\ Kind(t) = "pointer"
  <2>1. Kind(Pointer(StructType)) = "pointer"
    BY BaseTypes, PointerOf DEF BaseType
  <2> QED BY <2>1 DEF ArrowResult, Result, FieldType
<1> QED BY <1>1, <1>2, <1>3, <1>4, <1>5, <1>6, <1>7

\* The operands of an index expression that is not swapped any more.
LEMMA IndexRule ==
  ASSUME NEW e \in Type, NEW t \in Type, ~IsSwapped(e, t),
         NEW u, u = IndexResult(e, t), u # Illegal, NEW c, c = u.casts[1], NEW d, d = u.casts[2]
  PROVE  /\ u.type # VoidType /\ c = NoType /\ d = IntType
         /\ IsArrow(e) /\ CastsWell(t, IntType)
<1>1. IsPointer(e) /\ IsInteger(t)
  BY DEF IsSwapped
<1>2. PICK element : element = IF e = NullptrType THEN VoidType ELSE Inner(e)
  OBVIOUS
<1>3. u = Result(element, <<NoType, IntType>>) /\ IsComplete(element)
  BY <1>2 DEF IndexResult
<1>4. u.type = element /\ c = NoType /\ d = IntType
  BY <1>3 DEF Result
<1>5. Kind(element) # "void" /\ element # VoidType
  BY <1>3, BaseTypes DEF IsComplete
<1>6. e # NullptrType /\ element = Inner(e)
  BY <1>2, <1>5
<1>7. Kind(e) = "pointer"
  BY <1>1, <1>6, ByKind DEF IsPointer
<1>8. IsArithmetic(t)
  BY <1>1 DEF IsInteger, IsArithmetic
<1> QED BY <1>4, <1>5, <1>6, <1>7, <1>8, CastsToInt DEF IsArrow

LEMMA ApplyRule ==
  ASSUME NEW t \in Type, t # VoidPointer,
         NEW u, u = ApplyResult(t), u # Illegal, NEW c, c = u.casts[1]
  PROVE  u.type = CharType /\ c = CharType /\ CastsWell(t, CharType)
<1>1. u = Result(CharType, <<CharType>>) /\ (Equals[t][CharType] \/ Unify(t, CharType) # NoType)
  BY DEF ApplyResult
<1>2. u.type = CharType /\ c = CharType
  BY <1>1 DEF Result
<1>3. Kind(CharType) = "char" /\ CharType \in Type
  BY BaseTypes, NamedTypes
<1>4. Kind(t) \in {"char", "int", "nullptr"}
  <2>1. CASE Unify(t, CharType) # NoType
    <3>1. {Kind(t), Kind(CharType)} \in {{"char", "int"}, {"char", "nullptr"}}
      BY <1>3, <2>1 DEF Unify, IsPointer
    <3> QED BY <3>1
  <2>2. CASE Equals[t][CharType]
    <3>1. CASE Kind(t) = "pointer"
      <4>1. Kind(Inner(t)) = "void"
        BY <1>3, <2>2, <3>1, EqualKinds
      <4> QED BY <3>1, <4>1, ByKind
    <3>2. CASE Kind(t) # "pointer"
      BY <1>3, <2>2, <3>2, EqualKinds DEF EqualsBase, IsInteger
    <3> QED BY <3>1, <3>2
  <2> QED BY <1>1, <2>1, <2>2
<1> QED BY <1>2, <1>3, <1>4 DEF CastsWell, ConvertsNull, GoodCast, IsNumber
(***************************************************************************)
(* The nodes: what the type checker has decided of them, and what follows  *)
(* for the code, in the expressions that are not of the five kinds.        *)
(***************************************************************************)
TypesOf(x) == [k \in 1..Arity(x.op) |-> nodes[x.kids[k]].type]
IsChecked(x) ==
  x.op \in Operator =>
    LET u == ResultOf(x.op, TypesOf(x)) IN
    /\ u # Illegal /\ x.type = u.type /\ x.casts = u.casts
    /\ x.op = "index" => ~IsSwapped(TypesOf(x)[1], TypesOf(x)[2])

Ordinary ==
  ~(\/ ComparisonIsValue \/ ComputesWithNull \/ ComparesStructs \/ ComputesWithVoidPointer
    \/ LoadsVoid)

OperandType(n, k) == TypeOf(Operand(n, k))
Converts(n) ==
  \A k \in 1..OperandCount(n) :
    /\ TakesLvalue(n, k) => CastOf(n, k) = NoType
    /\ Decides(n, k) => IsScalar(OperandType(n, k))
    /\ ~Decides(n, k) => CastsWell(OperandType(n, k), CastOf(n, k))
Promise(n) ==
  LET op == nodes[n].op  t == TypeOf(n)  S(k) == CastType(n, k) IN
  /\ op = "*" => t = IntType /\ IsNumber(S(1)) /\ IsNumber(S(2))
  /\ op = "+" => \/ t = IntType /\ IsNumber(S(1)) /\ IsNumber(S(2))
                 \/ t = S(1) /\ IsArrow(S(1)) /\ IsNumber(S(2))
                 \/ t = S(2) /\ IsArrow(S(2)) /\ IsNumber(S(1))
  /\ op = "-" => \/ t = IntType /\ IsNumber(S(1)) /\ IsNumber(S(2))
                 \/ t = S(1) /\ IsArrow(S(1)) /\ IsNumber(S(2))
                 \/ t = IntType /\ IsArrow(S(1)) /\ IsArrow(S(2))
  /\ op \in Comparison => t = IntType /\ S(2) = S(1) /\ IsScalar(S(1))
  /\ op \in Logical \cup {"not", "sizeof", ".", "->"} => t = IntType
  /\ op = "=" => /\ t = OperandType(n, 1) /\ t # VoidType /\ S(2) # VoidType
                 /\ ToLlvm(S(2)) = ToLlvm(t)
  /\ op = "?:" => S(2) = t /\ S(3) = t
  /\ op = "negation" => t = IntType /\ IsNumber(S(1))
  /\ op = "index" => t # VoidType /\ S(1) = OperandType(n, 1) /\ IsArrow(S(1)) /\ S(2) = IntType
  /\ op \in {"dereference", "->"} => Kind(S(1)) = "pointer"
  /\ op = "reference" => Kind(t) = "pointer"
  /\ op = "apply" => t = CharType /\ S(1) = CharType

LEMMA RuleOf ==
  ASSUME NEW ts
  PROVE  /\ ResultOf("*", ts) = MultiplyResult(ts[1], ts[2])
         /\ ResultOf("+", ts) = AddResult(ts[1], ts[2])
         /\ ResultOf("-", ts) = SubtractResult(ts[1], ts[2])
         /\ \A op \in Comparison : ResultOf(op, ts) = CompareResult(ts[1], ts[2])
         /\ \A op \in Logical : ResultOf(op, ts) = LogicalResult(ts[1], ts[2])
         /\ ResultOf("=", ts) = AssignResult(ts[1], ts[2])
         /\ ResultOf("?:", ts) = TernaryResult(ts[1], ts[2], ts[3])
         /\ ResultOf("negation", ts) = NegationResult(ts[1])
         /\ ResultOf("not", ts) = NotResult(ts[1])
         /\ ResultOf("index", ts) = IndexResult(ts[1], ts[2])
         /\ ResultOf("dereference", ts) = DereferenceResult(ts[1])
         /\ ResultOf("reference", ts) = ReferenceResult(ts[1])
         /\ ResultOf(".", ts) = DotResult(ts[1])
         /\ ResultOf("->", ts) = ArrowResult(ts[1])
         /\ ResultOf("sizeof", ts) = SizeofResult(ts[1])
         /\ ResultOf("apply", ts) = ApplyResult(ts[1])
BY DEF ResultOf, Comparison, Logical

\* The result of the rule of a node, and what is not in the expression.
LEMMA NodeParts ==
  ASSUME NodesInv, NEW n \in 1..Len(nodes), IsChecked(nodes[n]), nodes[n].op \in Operator, Ordinary
  PROVE  /\ \A k \in 1..Arity(nodes[n].op) : OperandType(n, k) \in Type
         /\ \E ts, u :
              /\ u = ResultOf(nodes[n].op, ts) /\ u # Illegal
              /\ \A k \in 1..Arity(nodes[n].op) : ts[k] = OperandType(n, k)
              /\ TypeOf(n) = u.type
              /\ \A k : CastOf(n, k) = u.casts[k]
              /\ \A k : CastType(n, k) = Seen(OperandType(n, k), u.casts[k])
              /\ nodes[n].op = "index" => ~IsSwapped(ts[1], ts[2])
         /\ Arity(nodes[n].op) \in 1..3
         /\ nodes[n].op # "sizeof" => OperandCount(n) = Arity(nodes[n].op)
<1>1. nodes[n] \in Node /\ Fits(nodes[n], n) /\ Len(nodes[n].kids) = Arity(nodes[n].op)
  BY DEF NodesInv, Fits
<1>2. Arity(nodes[n].op) \in 1..3
  BY Arities
<1>3. ASSUME NEW k \in 1..Arity(nodes[n].op) PROVE OperandType(n, k) \in Type
  <2>1. Operand(n, k) \in 1..(n - 1)
    BY <1>1, <1>3 DEF Fits, Operand
  <2>2. Operand(n, k) \in 1..Len(nodes)
    BY <2>1
  <2>3. nodes[Operand(n, k)] \in Node
    BY <2>2 DEF NodesInv
  <2> QED BY <2>3 DEF Node, OperandType, TypeOf
<1>4. PICK ts : ts = TypesOf(nodes[n])
  OBVIOUS
<1>5. PICK u : u = ResultOf(nodes[n].op, ts)
  OBVIOUS
<1>6. u # Illegal /\ nodes[n].type = u.type /\ nodes[n].casts = u.casts
      /\ (nodes[n].op = "index" => ~IsSwapped(ts[1], ts[2]))
  BY <1>4, <1>5 DEF IsChecked
<1>7. \A k \in 1..Arity(nodes[n].op) : ts[k] = OperandType(n, k)
  BY <1>4 DEF TypesOf, OperandType, TypeOf, Operand
<1>8. \A k : CastOf(n, k) = u.casts[k]
  BY <1>6 DEF CastOf
<1>9. \A k : CastType(n, k) = Seen(OperandType(n, k), u.casts[k])
  BY <1>8 DEF CastType, Seen, OperandType, TypeOf
<1>10. TypeOf(n) = u.type
  BY <1>6 DEF TypeOf
<1>11. nodes[n].op # "sizeof" => OperandCount(n) = Arity(nodes[n].op)
  BY <1>1 DEF OperandCount
<1> QED BY <1>2, <1>3, <1>5, <1>6, <1>7, <1>8, <1>9, <1>10, <1>11

LEMMA OrdinaryParts ==
  ASSUME NodesInv, NEW n \in 1..Len(nodes), nodes[n].op \in Operator, Ordinary
  PROVE  /\ nodes[n].op \in {"*", "+", "-"} =>
              CastType(n, 1) # NullptrType /\ CastType(n, 2) # NullptrType
         /\ nodes[n].op = "negation" => CastType(n, 1) # NullptrType
         /\ nodes[n].op \in Comparison =>
              {OperandType(n, 1), OperandType(n, 2)} \cap {StructType, VoidType} = {}
         /\ nodes[n].op = "apply" => OperandType(n, 1) # VoidPointer
         /\ nodes[n].op = "+" => OperandType(n, 1) # VoidPointer /\ OperandType(n, 2) # VoidPointer
         /\ nodes[n].op \in Comparison /\ VoidPointer \in {OperandType(n, 1), OperandType(n, 2)} =>
              IsPointer(OperandType(n, 1)) /\ IsPointer(OperandType(n, 2))
         /\ nodes[n].op = "?:" /\ VoidPointer \in {OperandType(n, 2), OperandType(n, 3)} =>
              IsPointer(OperandType(n, 2)) /\ IsPointer(OperandType(n, 3))
<1>1. Len(nodes[n].kids) = Arity(nodes[n].op)
  BY DEF NodesInv, Fits
<1>2. nodes[n].op # "sizeof" => OperandCount(n) = Arity(nodes[n].op)
  BY <1>1 DEF OperandCount
<1>3. ~ComputesWithNull /\ ~ComparesStructs /\ ~ComputesWithVoidPointer
  BY DEF Ordinary
<1>4. ASSUME nodes[n].op \in {"*", "+", "-"} \cup Comparison
      PROVE  /\ Len(nodes[n].kids) = 2 /\ OperandCount(n) = 2
             /\ 1 \in 1..OperandCount(n) /\ 2 \in 1..OperandCount(n)
  BY <1>1, <1>2, <1>4, Arities DEF Comparison
<1>5. nodes[n].op \in {"*", "+", "-"} => CastType(n, 1) # NullptrType /\ CastType(n, 2) # NullptrType
  BY <1>3, <1>4 DEF ComputesWithNull
<1>6. nodes[n].op = "negation" => CastType(n, 1) # NullptrType
  <2> SUFFICES ASSUME nodes[n].op = "negation" PROVE CastType(n, 1) # NullptrType
    OBVIOUS
  <2>1. 1 \in 1..OperandCount(n)
    BY <1>2, Arities
  <2> QED BY <1>3, <2>1 DEF ComputesWithNull
<1>7. nodes[n].op \in Comparison =>
        {OperandType(n, 1), OperandType(n, 2)} \cap {StructType, VoidType} = {}
  BY <1>3, <1>4 DEF ComparesStructs, OperandType
<1>8. nodes[n].op = "apply" => OperandType(n, 1) # VoidPointer
  BY <1>3 DEF ComputesWithVoidPointer, OperandType, Operand, VoidPointer
<1>9. ASSUME NEW k \in {1, 2}, Len(nodes[n].kids) = k + 1, nodes[n].op # "=",
             NEW l \in {k, k + 1}, OperandType(n, l) = VoidPointer
      PROVE  nodes[n].op # "+" /\ IsPointer(OperandType(n, k)) /\ IsPointer(OperandType(n, k + 1))
  <2>1. PICK count : count = Len(nodes[n].kids) /\ count - 1 = k /\ count = k + 1 /\ count >= 2
    BY <1>9
  <2>2. nodes[n].kids[l] \in {nodes[n].kids[count - 1], nodes[n].kids[count]}
    BY <1>9, <2>1
  <2>3. \A r \in {nodes[n].kids[count - 1], nodes[n].kids[count]} :
          nodes[n].op # "+" /\ IsPointer(TypeOf(r))
    BY <1>3, <1>9, <2>1, <2>2 DEF ComputesWithVoidPointer, OperandType, Operand, VoidPointer
  <2> QED BY <2>1, <2>3 DEF OperandType, Operand
<1>10. ASSUME nodes[n].op \in {"+"} \cup Comparison,
              VoidPointer \in {OperandType(n, 1), OperandType(n, 2)}
       PROVE  nodes[n].op # "+" /\ IsPointer(OperandType(n, 1)) /\ IsPointer(OperandType(n, 2))
  <2>1. Len(nodes[n].kids) = 2 /\ nodes[n].op # "="
    BY <1>4, <1>10 DEF Comparison
  <2>2. PICK l \in {1, 2} : OperandType(n, l) = VoidPointer
    BY <1>10
  <2> QED BY <1>9, <2>1, <2>2
<1>11. ASSUME nodes[n].op = "?:", VoidPointer \in {OperandType(n, 2), OperandType(n, 3)}
       PROVE  IsPointer(OperandType(n, 2)) /\ IsPointer(OperandType(n, 3))
  <2>1. Len(nodes[n].kids) = 3 /\ nodes[n].op # "="
    BY <1>1, <1>11, Arities
  <2>2. PICK l \in {2, 3} : OperandType(n, l) = VoidPointer
    BY <1>11
  <2> QED BY <1>9, <2>1, <2>2
<1> QED BY <1>5, <1>6, <1>7, <1>8, <1>10, <1>11
LEMMA PointersHaveKind ==
  ASSUME NEW t \in Type
  PROVE  Kind(Pointer(t)) = "pointer"
<1>1. \A b \in BaseType : /\ b \in Seq(TypeKind) /\ Pointer(b) \in Seq(TypeKind)
                         /\ Pointer(Pointer(b)) \in Seq(TypeKind)
  <2> TAKE b \in BaseType
  <2>1. PICK p \in Seq(TypeKind) : p = Pointer(b)
    BY BaseTypes, PointerOf
  <2> QED BY <2>1, BaseTypes, PointerOf
<1>2. t \in Seq(TypeKind)
  BY <1>1, TypeCases DEF PointedBase
<1> QED BY <1>2, PointerOf

\* What is assigned to is an lvalue, and there is no pointer to what has the type of 0.
LEMMA AssignedTypes ==
  ASSUME NodesInv, NEW n \in 1..Len(nodes), nodes[n].op = "="
  PROVE  OperandType(n, 1) # NullptrType
<1>1. Fits(nodes[n], n) /\ nodes[n].op \in Operator /\ Arity(nodes[n].op) = 2
  BY Arities DEF NodesInv
<1>2. IsLvalue[nodes[n].kids[1]] /\ nodes[n].kids[1] \in 1..Len(nodes)
  BY <1>1 DEF Fits
<1>3. nodes[nodes[n].kids[1]].type \in LvalueType
  BY <1>2, LvaluesHaveTypes
<1> QED BY <1>3, NullptrHasNoPointer DEF OperandType, TypeOf, Operand

LEMMA TwoOperandRules ==
  ASSUME NodesInv, NEW n \in 1..Len(nodes), IsChecked(nodes[n]), Ordinary,
         nodes[n].op \in {"*", "+", "-", "=", "index"} \cup Comparison \cup Logical
  PROVE  Converts(n) /\ Promise(n)
<1> DEFINE op == nodes[n].op
<1>1. op \in Operator /\ Arity(op) = 2 /\ op # "sizeof" /\ op # "?:" /\ op \notin {"reference", "."}
  BY Arities DEF Comparison, Logical
<1>2. PICK l \in Type : l = OperandType(n, 1)
  BY <1>1, NodeParts
<1>3. PICK r \in Type : r = OperandType(n, 2)
  BY <1>1, NodeParts
<1>4. PICK ts, u :
         /\ u = ResultOf(op, ts) /\ u # Illegal /\ ts[1] = l /\ ts[2] = r
         /\ TypeOf(n) = u.type
         /\ CastOf(n, 1) = u.casts[1] /\ CastOf(n, 2) = u.casts[2]
         /\ CastType(n, 1) = Seen(l, u.casts[1]) /\ CastType(n, 2) = Seen(r, u.casts[2])
         /\ op = "index" => ~IsSwapped(l, r)
  BY <1>1, <1>2, <1>3, NodeParts
<1>5. PICK c : c = u.casts[1]
  OBVIOUS
<1>6. PICK d : d = u.casts[2]
  OBVIOUS
<1>7. OperandCount(n) = 2
  BY <1>1, NodeParts
<1>8. ASSUME op \in {"*", "+", "-"} PROVE Seen(l, c) # NullptrType /\ Seen(r, d) # NullptrType
  BY <1>1, <1>4, <1>5, <1>6, <1>8, OrdinaryParts
<1> HIDE DEF op
<1> DEFINE Casts == CastsWell(l, c) /\ CastsWell(r, d)
<1>9. Casts /\ op # "=" /\ op \notin Logical => Converts(n)
  <2> SUFFICES ASSUME Casts, op # "=", op \notin Logical PROVE Converts(n)
    OBVIOUS
  <2>1. \A k \in 1..2 : ~TakesLvalue(n, k) /\ ~Decides(n, k)
    <3>1. op # "not"
      BY DEF op, Comparison, Logical
    <3> QED BY <1>1, <3>1 DEF TakesLvalue, Decides, op
  <2> QED BY <1>2, <1>3, <1>4, <1>5, <1>6, <1>7, <2>1 DEF Converts
<1>10. CASE op = "*"
  <2>1. u = ArithmeticResult(l, r) /\ AreArithmetic(l, r)
    BY <1>4, <1>10, RuleOf DEF MultiplyResult
  <2>2. u.type = IntType /\ Casts /\ IsNumber(Seen(l, c)) /\ IsNumber(Seen(r, d))
    BY <1>5, <1>6, <1>8, <1>10, <2>1, ArithmeticRule
  <2>3. Promise(n)
    BY <1>4, <1>5, <1>6, <1>10, <2>2 DEF Promise, op, Comparison, Logical
  <2> QED BY <1>9, <1>10, <2>2, <2>3 DEF Logical
<1>11. CASE op = "+"
  <2>1. u = AddResult(l, r) /\ l # VoidPointer /\ r # VoidPointer
    BY <1>1, <1>2, <1>3, <1>4, <1>11, RuleOf, OrdinaryParts DEF op
  <2>2. /\ Casts
        /\ \/ u.type = IntType /\ IsNumber(Seen(l, c)) /\ IsNumber(Seen(r, d))
           \/ u.type = l /\ Seen(l, c) = l /\ IsArrow(l) /\ IsNumber(Seen(r, d))
           \/ u.type = r /\ Seen(r, d) = r /\ IsArrow(r) /\ IsNumber(Seen(l, c))
    BY <1>4, <1>5, <1>6, <1>8, <1>11, <2>1, AddRule
  <2>3. Promise(n)
    BY <1>4, <1>5, <1>6, <1>11, <2>2 DEF Promise, op, Comparison, Logical
  <2> QED BY <1>9, <1>11, <2>2, <2>3 DEF Logical
<1>12. CASE op = "-"
  <2>1. u = SubtractResult(l, r)
    BY <1>4, <1>12, RuleOf
  <2>2. /\ Casts
        /\ \/ u.type = IntType /\ IsNumber(Seen(l, c)) /\ IsNumber(Seen(r, d))
           \/ u.type = l /\ Seen(l, c) = l /\ IsArrow(l) /\ IsNumber(Seen(r, d))
           \/ u.type = IntType /\ Seen(l, c) = l /\ Seen(r, d) = r /\ IsArrow(l) /\ IsArrow(r)
    BY <1>4, <1>5, <1>6, <1>8, <1>12, <2>1, SubtractRule
  <2>3. Promise(n)
    BY <1>4, <1>5, <1>6, <1>12, <2>2 DEF Promise, op, Comparison, Logical
  <2> QED BY <1>9, <1>12, <2>2, <2>3 DEF Logical
<1>13. CASE op \in Comparison
  <2>1. u = CompareResult(l, r)
    BY <1>4, <1>13, RuleOf
  <2>2. /\ {l, r} \cap {StructType, VoidType} = {}
        /\ VoidPointer \in {l, r} => IsPointer(l) /\ IsPointer(r)
    BY <1>1, <1>2, <1>3, <1>13, OrdinaryParts DEF op
  <2>3. u.type = IntType /\ c \in Type /\ d = c /\ IsScalar(c) /\ Casts
    BY <1>4, <1>5, <1>6, <2>1, <2>2, CompareRule
  <2>4. Seen(l, c) = c /\ Seen(r, d) = c
    BY <2>3, NamedTypes DEF Seen
  <2>5. Promise(n)
    BY <1>4, <1>5, <1>6, <1>13, <2>3, <2>4 DEF Promise, op, Comparison, Logical
  <2> QED BY <1>9, <1>13, <2>3, <2>5 DEF Logical, Comparison
<1>14. CASE op \in Logical
  <2>1. u = LogicalResult(l, r)
    BY <1>4, <1>14, RuleOf
  <2>2. u.type = IntType /\ IsScalar(l) /\ IsScalar(r)
    BY <1>4, <2>1, LogicalRule
  <2>3. Promise(n)
    BY <1>4, <1>14, <2>2 DEF Promise, op, Comparison, Logical
  <2>4. Converts(n)
    <3>1. \A k \in 1..2 : ~TakesLvalue(n, k) /\ Decides(n, k)
      BY <1>14 DEF TakesLvalue, Decides, op, Logical
    <3> QED BY <1>2, <1>3, <1>7, <2>2, <3>1 DEF Converts
  <2> QED BY <2>3, <2>4
<1>15. CASE op = "="
  <2>1. u = AssignResult(l, r) /\ l # NullptrType
    BY <1>2, <1>4, <1>15, RuleOf, AssignedTypes DEF op
  <2>2. /\ u.type = l /\ c = NoType /\ CastsWell(r, d) /\ r # VoidType
        /\ ToLlvm(Seen(r, d)) = ToLlvm(l)
    BY <1>4, <1>5, <1>6, <2>1, AssignRule
  <2>3. l # VoidType
    BY <1>4, <2>1, BaseTypes DEF AssignResult, AreArithmetic, IsArithmetic
  <2>4. Seen(r, d) # VoidType
    BY <2>2, <2>3, LlvmOf, BaseTypes, LlvmByKind, NamedTypes
  <2>5. Promise(n)
    BY <1>2, <1>4, <1>5, <1>6, <1>15, <2>2, <2>3, <2>4 DEF Promise, op, Comparison, Logical
  <2>6. Converts(n)
    <3>1. ~Decides(n, 1) /\ ~Decides(n, 2) /\ ~TakesLvalue(n, 2)
      BY <1>15 DEF Decides, TakesLvalue, op, Logical
    <3>2. CastsWell(l, c)
      BY <2>2 DEF CastsWell
    <3> QED BY <1>2, <1>3, <1>4, <1>5, <1>6, <1>7, <2>2, <3>1, <3>2 DEF Converts
  <2> QED BY <2>5, <2>6
<1>16. CASE op = "index"
  <2>1. u = IndexResult(l, r)
    BY <1>4, <1>16, RuleOf
  <2>2. /\ u.type # VoidType /\ c = NoType /\ d = IntType
        /\ IsArrow(l) /\ CastsWell(r, IntType)
    BY <1>4, <1>5, <1>6, <1>16, <2>1, IndexRule
  <2>3. Seen(l, c) = l /\ Seen(r, d) = IntType /\ CastsWell(l, c)
    BY <2>2, NamedTypes DEF Seen, CastsWell
  <2>4. Promise(n)
    BY <1>2, <1>4, <1>5, <1>6, <1>16, <2>2, <2>3 DEF Promise, op, Comparison, Logical
  <2> QED BY <1>9, <1>16, <2>2, <2>3, <2>4 DEF Logical
<1> QED BY <1>10, <1>11, <1>12, <1>13, <1>14, <1>15, <1>16 DEF op
LEMMA OneOperandRules ==
  ASSUME NodesInv, NEW n \in 1..Len(nodes), IsChecked(nodes[n]), Ordinary, nodes[n].op \in Prefix
  PROVE  Converts(n) /\ Promise(n)
<1> DEFINE op == nodes[n].op
<1>1. op \in Operator /\ Arity(op) = 1
  BY DEF Operator, Prefix, Arity
<1>2. op \notin {"*", "+", "-", "=", "index", "?:"} \cup Comparison \cup Logical
  BY DEF Prefix, Comparison, Logical
<1>3. PICK t \in Type : t = OperandType(n, 1)
  BY <1>1, NodeParts
<1>4. PICK ts, u :
         /\ u = ResultOf(op, ts) /\ u # Illegal /\ ts[1] = t
         /\ TypeOf(n) = u.type
         /\ CastOf(n, 1) = u.casts[1] /\ CastType(n, 1) = Seen(t, u.casts[1])
  BY <1>1, <1>3, NodeParts
<1>5. op # "sizeof" => OperandCount(n) = 1
  BY <1>1, NodeParts
<1>6. NoType \in {NoType, VoidType} /\ Seen(t, NoType) = t
  BY DEF Seen
<1>7. TakesLvalue(n, 1) => op \in {"reference", "."}
  BY <1>2 DEF TakesLvalue
<1>8. Decides(n, 1) <=> op = "not"
  BY <1>2 DEF Decides
<1>9. t # NullptrType => (IsArithmetic(t) => IsNumber(t))
  BY ByKind DEF IsArithmetic, IsNumber
<1> HIDE DEF op
<1>10. op # "sizeof" /\ op # "not" /\ CastsWell(t, u.casts[1]) /\
         (op \in {"reference", "."} => u.casts[1] = NoType) => Converts(n)
  BY <1>3, <1>4, <1>5, <1>7, <1>8 DEF Converts
<1>11. CastsWell(t, NoType)
  BY DEF CastsWell
<1>12. CASE op = "negation"
  <2>1. u = NegationResult(t)
    BY <1>4, <1>12, RuleOf
  <2>2. u.type = IntType /\ u.casts[1] = NoType /\ IsArithmetic(t)
    BY <1>4, <2>1, UnaryRules
  <2>3. t # NullptrType
    BY <1>1, <1>4, <1>6, <1>12, <2>2, OrdinaryParts DEF op
  <2>4. Promise(n)
    BY <1>2, <1>4, <1>6, <1>9, <1>12, <2>2, <2>3 DEF Promise, op
  <2> QED BY <1>10, <1>11, <1>12, <2>2, <2>4
<1>13. CASE op = "not"
  <2>1. u = NotResult(t)
    BY <1>4, <1>13, RuleOf
  <2>2. u.type = IntType /\ IsScalar(t)
    BY <1>4, <2>1, UnaryRules
  <2>3. Promise(n)
    BY <1>2, <1>4, <1>13, <2>2 DEF Promise, op
  <2>4. Converts(n)
    BY <1>3, <1>5, <1>7, <1>8, <1>13, <2>2 DEF Converts
  <2> QED BY <2>3, <2>4
<1>14. CASE op = "sizeof"
  <2>1. u = SizeofResult(t)
    BY <1>4, <1>14, RuleOf
  <2>2. u.type = IntType
    BY <2>1, UnaryRules
  <2>3. Promise(n)
    BY <1>2, <1>4, <1>14, <2>2 DEF Promise, op
  <2>4. OperandCount(n) = 0
    BY <1>14 DEF OperandCount, op
  <2> QED BY <2>3, <2>4 DEF Converts
<1>15. CASE op = "reference"
  <2>1. u = ReferenceResult(t)
    BY <1>4, <1>15, RuleOf
  <2>2. u.type = Pointer(t) /\ u.casts[1] = NoType /\ Kind(Pointer(t)) = "pointer"
    BY <2>1, UnaryRules, PointersHaveKind
  <2>3. Promise(n)
    BY <1>2, <1>4, <1>15, <2>2 DEF Promise, op
  <2> QED BY <1>10, <1>11, <1>15, <2>2, <2>3
<1>16. CASE op = "dereference"
  <2>1. u = DereferenceResult(t)
    BY <1>4, <1>16, RuleOf
  <2>2. u.casts[1] = NoType /\ Kind(t) = "pointer"
    BY <1>4, <2>1, UnaryRules
  <2>3. Promise(n)
    BY <1>2, <1>4, <1>6, <1>16, <2>2 DEF Promise, op
  <2> QED BY <1>10, <1>11, <1>16, <2>2, <2>3
<1>17. CASE op = "."
  <2>1. u = DotResult(t)
    BY <1>4, <1>17, RuleOf
  <2>2. u.type = IntType /\ u.casts[1] = NoType
    BY <1>4, <2>1, UnaryRules
  <2>3. Promise(n)
    BY <1>2, <1>4, <1>17, <2>2 DEF Promise, op
  <2> QED BY <1>10, <1>11, <1>17, <2>2, <2>3
<1>18. CASE op = "->"
  <2>1. u = ArrowResult(t)
    BY <1>4, <1>18, RuleOf
  <2>2. u.type = IntType /\ u.casts[1] = NoType /\ Kind(t) = "pointer"
    BY <1>4, <2>1, UnaryRules
  <2>3. Promise(n)
    BY <1>2, <1>4, <1>6, <1>18, <2>2 DEF Promise, op
  <2> QED BY <1>10, <1>11, <1>18, <2>2, <2>3
<1>19. CASE op = "apply"
  <2>1. u = ApplyResult(t) /\ t # VoidPointer
    BY <1>1, <1>3, <1>4, <1>19, RuleOf, OrdinaryParts DEF op
  <2>2. u.type = CharType /\ u.casts[1] = CharType /\ CastsWell(t, CharType)
    BY <1>4, <2>1, ApplyRule
  <2>3. Seen(t, CharType) = CharType
    BY NamedTypes DEF Seen
  <2>4. Promise(n)
    BY <1>2, <1>4, <1>19, <2>2, <2>3 DEF Promise, op
  <2> QED BY <1>10, <1>19, <2>2, <2>4
<1> QED BY <1>12, <1>13, <1>14, <1>15, <1>16, <1>17, <1>18, <1>19 DEF Prefix, op

LEMMA TernaryRules ==
  ASSUME NodesInv, NEW n \in 1..Len(nodes), IsChecked(nodes[n]), Ordinary, nodes[n].op = "?:"
  PROVE  Converts(n) /\ Promise(n)
<1>1. nodes[n].op \in Operator /\ Arity(nodes[n].op) = 3 /\ OperandCount(n) = 3
  BY NodeParts, Arities
<1>2. PICK t \in Type : t = OperandType(n, 1)
  BY <1>1, NodeParts
<1>3. PICK l \in Type : l = OperandType(n, 2)
  BY <1>1, NodeParts
<1>4. PICK r \in Type : r = OperandType(n, 3)
  BY <1>1, NodeParts
<1>5. PICK ts, u :
         /\ u = ResultOf("?:", ts) /\ u # Illegal /\ ts[1] = t /\ ts[2] = l /\ ts[3] = r
         /\ TypeOf(n) = u.type
         /\ CastOf(n, 2) = u.casts[2] /\ CastOf(n, 3) = u.casts[3]
         /\ CastType(n, 2) = Seen(l, u.casts[2]) /\ CastType(n, 3) = Seen(r, u.casts[3])
  BY <1>1, <1>2, <1>3, <1>4, NodeParts
<1>6. u = TernaryResult(t, l, r)
  BY <1>5, RuleOf
<1>7. VoidPointer \in {l, r} => IsPointer(l) /\ IsPointer(r)
  BY <1>1, <1>3, <1>4, OrdinaryParts
<1>8. /\ IsScalar(t) /\ u.casts[2] = u.type /\ u.casts[3] = u.type
      /\ CastsWell(l, u.casts[2]) /\ CastsWell(r, u.casts[3])
  BY <1>5, <1>6, <1>7, TernaryRule
<1>9. u.type \in Type
  BY <1>5, <1>6, TernaryResults DEF IsResult
<1>10. CastType(n, 2) = u.type /\ CastType(n, 3) = u.type
  BY <1>5, <1>8, <1>9, NamedTypes DEF Seen
<1>11. Promise(n)
  BY <1>5, <1>10 DEF Promise, Comparison, Logical
<1>12. Converts(n)
  <2>1. ~TakesLvalue(n, 1) /\ ~TakesLvalue(n, 2) /\ ~TakesLvalue(n, 3)
    BY DEF TakesLvalue
  <2>2. Decides(n, 1) /\ ~Decides(n, 2) /\ ~Decides(n, 3)
    BY DEF Decides, Logical
  <2> QED BY <1>1, <1>2, <1>3, <1>4, <1>5, <1>8, <2>1, <2>2 DEF Converts
<1> QED BY <1>11, <1>12

LEMMA NodeRules ==
  ASSUME NodesInv, NEW n \in 1..Len(nodes), IsChecked(nodes[n]), Ordinary
  PROVE  Converts(n) /\ Promise(n)
<1>1. nodes[n].op \in Operator \cup {"variable", "constant"} /\ Fits(nodes[n], n)
  <2>1. nodes[n] \in Node /\ Fits(nodes[n], n)
    BY DEF NodesInv
  <2> QED BY <2>1 DEF Node
<1>2. CASE nodes[n].op \notin Operator
  <2>1. nodes[n].kids = <<>> /\ nodes[n].op \in {"variable", "constant"}
    BY <1>1, <1>2 DEF Fits
  <2>2. OperandCount(n) = 0
    BY <2>1 DEF OperandCount
  <2>3. Promise(n)
    BY <2>1 DEF Promise, Comparison, Logical
  <2> QED BY <2>2, <2>3 DEF Converts
<1>3. CASE nodes[n].op \in Operator
  BY <1>3, TwoOperandRules, OneOperandRules, TernaryRules DEF Operator, Branching
<1> QED BY <1>1, <1>2, <1>3
(***************************************************************************)
(* The values of the operands.                                             *)
(***************************************************************************)
\* What a call returns.  A comparison has an i1.
IsResultOf(c, w) ==
  IF c.lvalue THEN w = "ptr"
  ELSE \/ TypeOf(c.node) = VoidType \/ w = ToLlvm(TypeOf(c.node))
       \/ nodes[c.node].op \in Comparison /\ w = "i1"

\* The width of the value of operand k at stage s of a call.
IsValueOf(f, k, s, w) ==
  IF TakesLvalue(f.node, k) THEN w = "ptr"
  ELSE IF Decides(f.node, k)
  THEN w \in Scalar /\ (OpOf(f) \in Logical /\ k = 1 /\ s = 2 => w = "i1")
  ELSE CastType(f.node, k) = VoidType \/ w = ToLlvm(CastType(f.node, k))

LEMMA OneArgument ==
  ASSUME NEW regs, Len(regs) \in Nat, NEW r \in 0..Len(regs), NEW op, NEW t
  PROVE  /\ Instr(op, t, <<r>>).args \in Seq(0..Len(regs)) /\ Len(Instr(op, t, <<r>>).args) = 1
         /\ Instr(op, t, <<r>>).args[1] = r /\ Instr(op, t, <<r>>).op = op
         /\ Instr(op, t, <<r>>).type = t
<1>1. PICK S : S = 0..Len(regs)
  OBVIOUS
<1>2. <<r>> \in Seq(S) /\ Len(<<r>>) = 1 /\ <<r>>[1] = r
  BY <1>1
<1> QED BY <1>1, <1>2 DEF Instr

LEMMA OneArgumentTyped ==
  ASSUME NEW regs, Len(regs) \in Nat, NEW r \in 0..Len(regs), NEW op, NEW t
  PROVE  /\ op \in {"intcast", "inttoptr", "neg"} /\ Width(regs, r) \in LlvmInt =>
              Typed(regs, Instr(op, t, <<r>>))
         /\ op = "ptrtoint" /\ Width(regs, r) = "ptr" => Typed(regs, Instr(op, t, <<r>>))
         /\ op \in {"zext", "is zero"} /\ Width(regs, r) = "i1" => Typed(regs, Instr(op, t, <<r>>))
         /\ op = "load" /\ Width(regs, r) = "ptr" /\ t # "void" => Typed(regs, Instr(op, t, <<r>>))
         /\ op = "field" /\ Width(regs, r) = "ptr" => Typed(regs, Instr(op, t, <<r>>))
         /\ op = "apply" /\ Width(regs, r) = "i8" => Typed(regs, Instr(op, t, <<r>>))
         /\ op \in {"nonzero"} => Typed(regs, Instr(op, t, <<r>>))
<1>1. PICK i : /\ i = Instr(op, t, <<r>>) /\ i.args \in Seq(0..Len(regs)) /\ Len(i.args) = 1
               /\ i.args[1] = r /\ i.op = op /\ i.type = t
  BY OneArgument
<1>2. DOMAIN i.args = {1}
  <2>1. PICK S : S = 0..Len(regs)
    OBVIOUS
  <2>2. PICK a \in Seq(S) : a = i.args /\ Len(a) = 1
    BY <1>1, <2>1
  <2> QED BY <2>2
<1>3. op \in TakesOne \cup {"intcast", "inttoptr", "neg", "nonzero"} => Len(i.args) >= Arguments(i.op)
  <2>1. op \in TakesOne \cup {"intcast", "inttoptr", "neg", "nonzero"} => op \notin TakesTwo
    BY DEF TakesTwo, TakesOne, Comparison
  <2>2. Arguments(op) = 0 \/ Arguments(op) = 1 \/ op \in TakesTwo
    BY DEF Arguments
  <2>3. Len(i.args) = 1 /\ i.op = op
    BY <1>1
  <2> QED BY <2>1, <2>2, <2>3
<1>4. AreInts(regs, i.args) <=> Width(regs, r) \in LlvmInt
  BY <1>1, <1>2 DEF AreInts
<1>5. op \in TakesOne \cup {"intcast", "inttoptr", "neg", "nonzero"} /\ IsWellTyped(regs, i) => Typed(regs, i)
  BY <1>1, <1>3 DEF Typed
<1>6. op \in {"intcast", "inttoptr", "neg"} /\ Width(regs, r) \in LlvmInt => IsWellTyped(regs, i)
  BY <1>1, <1>4 DEF IsWellTyped, Comparison
<1>7. op = "ptrtoint" /\ Width(regs, r) = "ptr" => IsWellTyped(regs, i)
  BY <1>1 DEF IsWellTyped, Comparison
<1>8. op \in {"zext", "is zero"} /\ Width(regs, r) = "i1" => IsWellTyped(regs, i)
  BY <1>1 DEF IsWellTyped, Comparison
<1>9. op = "load" /\ Width(regs, r) = "ptr" /\ t # "void" => IsWellTyped(regs, i)
  BY <1>1 DEF IsWellTyped, Comparison
<1>10. op = "field" /\ Width(regs, r) = "ptr" => IsWellTyped(regs, i)
  BY <1>1 DEF IsWellTyped, Comparison
<1>11. op = "apply" /\ Width(regs, r) = "i8" => IsWellTyped(regs, i)
  BY <1>1 DEF IsWellTyped, Comparison
<1>12. op = "nonzero" => IsWellTyped(regs, i)
  BY <1>1 DEF IsWellTyped, Comparison
<1> QED BY <1>1, <1>5, <1>6, <1>7, <1>8, <1>9, <1>10, <1>11, <1>12 DEF TakesOne

LEMMA CastTyped ==
  ASSUME NEW g, IrOK(g), CodeTyped(g.regs), NEW r \in 0..Latest(g),
         NEW from \in Type, NEW to \in CastTarget, ~ConvertsNull(from, to),
         IsNumber(from) => Width(g.regs, r) \in LlvmInt,
         Kind(from) = "pointer" => Width(g.regs, r) = "ptr",
         NEW h, h = Cast(g, r, from, to), NEW v, v = Converted(g, h, r)
  PROVE  /\ CodeTyped(h.regs) /\ Longer(g.regs, h.regs)
         /\ \/ h = g /\ v = r /\ (to # NoType /\ GoodCast(from, to) => ToLlvm(from) = ToLlvm(to))
            \/ to \in Type /\ IsScalar(to) /\ Width(h.regs, v) = ToLlvm(to)
<1>1. Len(g.regs) \in Nat /\ r \in 0..Len(g.regs) /\ r \in Nat
  BY Sizes DEF Latest
<1>2. \/ h = g /\ (to # NoType /\ GoodCast(from, to) => ToLlvm(from) = ToLlvm(to))
      \/ \E op \in {"intcast", "inttoptr", "ptrtoint"} :
           /\ h = Emit(g, Instr(op, ToLlvm(to), <<r>>)) /\ to \in Type /\ IsScalar(to)
           /\ IF op = "ptrtoint" THEN Kind(from) = "pointer" ELSE IsNumber(from)
  BY CastIs
<1>3. CASE h = g /\ (to # NoType /\ GoodCast(from, to) => ToLlvm(from) = ToLlvm(to))
  BY <1>1, <1>3 DEF Converted, Longer
<1>4. ASSUME NEW op \in {"intcast", "inttoptr", "ptrtoint"},
             h = Emit(g, Instr(op, ToLlvm(to), <<r>>)), to \in Type, IsScalar(to),
             IF op = "ptrtoint" THEN Kind(from) = "pointer" ELSE IsNumber(from)
      PROVE  CodeTyped(h.regs) /\ Longer(g.regs, h.regs) /\ Width(h.regs, v) = ToLlvm(to)
  <2>1. PICK t \in LlvmType : t = ToLlvm(to)
    BY <1>4, LlvmTypes
  <2>2. PICK i : i = Instr(op, t, <<r>>) /\ i.type = t
    BY <1>1, OneArgument
  <2>3. Typed(g.regs, i)
    BY <1>1, <1>4, <2>2, OneArgumentTyped
  <2>4. i \in Instruction
    <3>1. PICK a \in Seq(Nat) : a = <<r>>
      <4>1. <<r>> \in Seq(Nat)
        BY <1>1
      <4> QED BY <4>1
    <3>2. op \in OpCode
      BY <1>4 DEF OpCode
    <3> QED BY <2>2, <3>1, <3>2, InstrIs
  <2>5. h = Emit(g, i)
    BY <1>4, <2>1, <2>2
  <2>6. /\ CodeTyped(h.regs) /\ Longer(g.regs, h.regs)
        /\ Latest(g) \in Nat /\ Latest(h) = Latest(g) + 1 /\ Width(h.regs, Latest(h)) = i.type
    BY <2>3, <2>4, <2>5, EmitTyped
  <2>7. h # g
    BY <2>6
  <2> QED BY <2>1, <2>2, <2>6, <2>7 DEF Converted
<1> QED BY <1>2, <1>3, <1>4
\* The operands of a call have the widths that their operator takes.
FrameTyped(f, s, regs) ==
  \A k \in 1..Len(f.values) : IsValueOf(f, k, s, Width(regs, f.values[k]))
\* The call c computes an operand of f: it is no null that becomes an integer.
IsPassed(c, f) == ~ConvertsNull(TypeOf(c.node), CastOf(f.node, Len(f.values) + 1))
FramesTyped(w, regs) ==
  /\ \A i \in 1..Len(w) : FrameTyped(w[i], Stage(w, i), regs)
  /\ \A i \in 2..Len(w) : IsPassed(w[i - 1], w[i])
Rooted(w) == w # <<>> => Len(pending) = 1 /\ w[Len(w)].node = pending[1]
Sound(w, regs) == Rooted(w) /\ CodeTyped(regs) /\ FramesTyped(w, regs)

LEMMA FrameStaysTyped ==
  ASSUME NEW g, NEW f \in CallFrame(g), NEW s, FrameTyped(f, s, g.regs),
         NEW more, Longer(g.regs, more)
  PROVE  FrameTyped(f, s, more)
<1> SUFFICES ASSUME NEW k \in 1..Len(f.values)
             PROVE  IsValueOf(f, k, s, Width(more, f.values[k]))
  BY DEF FrameTyped
<1>1. f.values \in Seq(0..Len(g.regs))
  BY DEF CallFrame, Latest
<1>2. PICK S : S = 0..Len(g.regs)
  OBVIOUS
<1>3. f.values[k] \in S
  BY <1>1, <1>2
<1>4. Width(more, f.values[k]) = Width(g.regs, f.values[k])
  BY <1>2, <1>3, LongerWidth
<1> QED BY <1>4 DEF FrameTyped

\* From place m on, u has the frames that w has from place m - d on.
LEMMA SoundRearranged ==
  ASSUME NEW g, NEW w \in Seq(CallFrame(g)), Sound(w, g.regs),
         NEW more, Longer(g.regs, more), CodeTyped(more),
         NEW m \in 1..2, NEW d \in Int, m - d \in 1..Len(w),
         NEW u, Len(u) = Len(w) + d, \A i \in (m + 1)..Len(u) : u[i] = w[i - d],
         u[m].node = w[m - d].node,
         \A i \in 1..m : FrameTyped(u[i], Stage(u, i), more),
         m = 2 => IsPassed(u[1], u[2])
  PROVE  Sound(u, more)
<1>1. Len(w) \in Nat /\ Len(w) > 0 /\ w # <<>> /\ Len(u) \in Nat /\ Len(u) >= m
  BY DEF CallFrame
<1>2. Rooted(u)
  <2>1. Len(pending) = 1 /\ w[Len(w)].node = pending[1]
    BY <1>1 DEF Sound, Rooted
  <2>2. CASE Len(u) = m
    BY <1>1, <2>1, <2>2 DEF Rooted
  <2>3. CASE Len(u) # m
    <3>1. Len(u) \in (m + 1)..Len(u) /\ Len(u) - d = Len(w)
      BY <1>1, <2>3
    <3> QED BY <2>1, <3>1 DEF Rooted
  <2> QED BY <2>2, <2>3
<1>3. ASSUME NEW i \in 1..Len(u) PROVE FrameTyped(u[i], Stage(u, i), more)
  <2>1. CASE i \in 1..m
    BY <2>1
  <2>2. CASE i \notin 1..m
    <3>1. i \in (m + 1)..Len(u) /\ i - d \in 2..Len(w) /\ i # 1
      BY <1>1, <2>2
    <3>2. PICK j \in 2..Len(w) : j = i - d /\ j # 1 /\ j \in 1..Len(w)
      BY <3>1
    <3>3. u[i] = w[j]
      BY <3>1, <3>2
    <3>4. Stage(u, i) = Stage(w, j)
      BY <3>1, <3>2, <3>3 DEF Stage
    <3>5. PICK f \in CallFrame(g) : f = w[j]
      BY <3>2
    <3>6. FrameTyped(f, Stage(w, j), g.regs)
      BY <3>2, <3>5 DEF Sound, FramesTyped
    <3> QED BY <3>3, <3>4, <3>5, <3>6, FrameStaysTyped
  <2> QED BY <2>1, <2>2
<1>4. ASSUME NEW i \in 2..Len(u) PROVE IsPassed(u[i - 1], u[i])
  <2>1. CASE i <= m
    <3>1. i = 2 /\ m = 2
      BY <2>1
    <3> QED BY <3>1
  <2>2. CASE i > m
    <3>1. i \in (m + 1)..Len(u)
      BY <1>1, <2>2
    <3>2. PICK j \in 2..Len(w) : j = i - d
      BY <1>1, <3>1
    <3>3. u[i] = w[j] /\ IsPassed(w[j - 1], w[j])
      BY <3>1, <3>2 DEF Sound, FramesTyped
    <3>4. u[i - 1].node = w[j - 1].node
      <4>1. CASE i = m + 1
        <5>1. i - 1 = m /\ j - 1 = m - d
          BY <3>2, <4>1
        <5> QED BY <5>1
      <4>2. CASE i # m + 1
        <5>1. i - 1 \in (m + 1)..Len(u) /\ (i - 1) - d = j - 1
          BY <1>1, <3>1, <3>2, <4>2
        <5> QED BY <5>1
      <4> QED BY <4>1, <4>2
    <3> QED BY <3>3, <3>4 DEF IsPassed
  <2> QED BY <2>1, <2>2
<1> QED BY <1>2, <1>3, <1>4 DEF Sound, FramesTyped

LEMMA NothingIsSound ==
  ASSUME NEW regs, CodeTyped(regs)
  PROVE  Sound(<<>>, regs)
BY DEF Sound, Rooted, FramesTyped

IsReturned(u, w, f) ==
  /\ u = <<f>> \o SubSeq(w, 3, Len(w)) /\ Len(u) = Len(w) - 1 /\ u[1] = f
  /\ \A i \in 2..(Len(w) - 1) : u[i] = w[i + 1]

LEMMA ReturnShape ==
  ASSUME NEW S, NEW w \in Seq(S), Len(w) >= 2, NEW f \in S
  PROVE  \E u : IsReturned(u, w, f)
<1>1. PICK n \in Nat : n = Len(w) /\ n >= 2
  OBVIOUS
<1>2. PICK t \in Seq(S) : /\ t = SubSeq(w, 3, Len(w)) /\ Len(t) = n - 2
                          /\ \A i \in 1..(n - 2) : t[i] = w[i + 2]
  <2>1. SubSeq(w, 3, Len(w)) \in Seq(S)
    BY <1>1
  <2>2. Len(SubSeq(w, 3, Len(w))) = n - 2
    BY <1>1
  <2>3. \A i \in 1..(n - 2) : SubSeq(w, 3, Len(w))[i] = w[i + 2]
    BY <1>1
  <2> QED BY <2>1, <2>2, <2>3
<1>3. PICK a \in Seq(S) : a = <<f>> /\ Len(a) = 1 /\ a[1] = f
  <2>1. <<f>> \in Seq(S) /\ Len(<<f>>) = 1 /\ <<f>>[1] = f
    OBVIOUS
  <2> QED BY <2>1
<1>4. PICK u : u = a \o t /\ u = <<f>> \o SubSeq(w, 3, Len(w))
  BY <1>2, <1>3
<1>5. Len(a \o t) = n - 1 /\ (a \o t)[1] = f
  BY <1>1, <1>2, <1>3
<1>6. ASSUME NEW i \in 2..(n - 1) PROVE (a \o t)[i] = w[i + 1]
  <2>1. (a \o t)[i] = t[i - 1]
    BY <1>1, <1>2, <1>3
  <2>2. i - 1 \in 1..(n - 2) /\ (i - 1) + 2 = i + 1
    BY <1>1
  <2> QED BY <1>2, <2>1, <2>2
<1> QED BY <1>1, <1>4, <1>5, <1>6 DEF IsReturned

(***************************************************************************)
(* Calls and returns.                                                      *)
(***************************************************************************)
Checked == \A n \in 1..Len(nodes) : IsChecked(nodes[n])
\* A node is the operand of one node at most.
IsKid(m, n) == \E k \in 1..Len(nodes[m].kids) : nodes[m].kids[k] = n
IsTree ==
  /\ \A m, n, x \in 1..Len(nodes) : IsKid(m, x) /\ IsKid(n, x) => m = n
  /\ \A i, j \in 1..Len(pending) : i # j => pending[i] # pending[j]
  /\ \A i \in 1..Len(pending) : \A m \in 1..Len(nodes) : ~IsKid(m, pending[i])
Ready == NodesInv /\ CodeInv /\ Checked /\ IsTree /\ Ordinary /\ Sound(work, ir.regs)

\* What a call returns becomes a value of its caller.
LEMMA ResultConverted ==
  ASSUME NodesInv, Checked, Ordinary, NEW n \in 1..Len(nodes), NEW s \in 1..OperandCount(n),
         ~ConvertsNull(OperandType(n, s), CastOf(n, s)),
         NEW f, f.node = n, NEW c, c.node = Operand(n, s), c.lvalue = TakesLvalue(n, s),
         NEW g, IrOK(g), CodeTyped(g.regs), NEW r \in 0..Latest(g),
         IsResultOf(c, Width(g.regs, r)),
         NEW h, h = Cast(g, r, OperandType(n, s), CastOf(n, s)), NEW v, v = Converted(g, h, r)
  PROVE  /\ CodeTyped(h.regs) /\ Longer(g.regs, h.regs)
         /\ IsValueOf(f, s, s, Width(h.regs, v))
<1>1. PICK from \in Type : from = OperandType(n, s)
  BY CastTypesAreTypes DEF OperandType, TypeOf
<1>2. PICK to \in CastTarget : to = CastOf(n, s)
  BY OperandsTyped
<1>3. IsChecked(nodes[n]) /\ Converts(n) /\ Operand(n, s) \in 1..Len(nodes)
  BY NodeRules, OperandsTyped DEF Checked
<1>4. /\ TakesLvalue(n, s) => to = NoType
      /\ Decides(n, s) => IsScalar(from)
      /\ ~Decides(n, s) => CastsWell(from, to)
  BY <1>1, <1>2, <1>3 DEF Converts
<1>5. CastType(n, s) = Seen(from, to)
  BY <1>1, <1>2 DEF CastType, Seen, OperandType, TypeOf
<1>6. PICK w : w = Width(g.regs, r)
  OBVIOUS
<1>7. CASE TakesLvalue(n, s)
  <2>1. h = g /\ v = r
    BY <1>2, <1>4, <1>7 DEF Cast, Converted
  <2>2. w = "ptr"
    BY <1>6, <1>7 DEF IsResultOf
  <2>3. Longer(g.regs, g.regs)
    BY Sizes DEF Longer, Latest
  <2> QED BY <1>6, <1>7, <2>1, <2>2, <2>3 DEF IsValueOf
<1>8. CASE ~TakesLvalue(n, s)
  <2>1. \/ from = VoidType \/ w = ToLlvm(from)
        \/ nodes[Operand(n, s)].op \in Comparison /\ w = "i1" /\ from = IntType
    <3>1. nodes[Operand(n, s)].op \in Comparison => from = IntType
      <4>1. PICK x \in 1..Len(nodes) : x = Operand(n, s)
        BY <1>3
      <4>2. Promise(x)
        BY <4>1, NodeRules DEF Checked
      <4> QED BY <1>1, <4>1, <4>2 DEF Promise, OperandType
    <3> QED BY <1>1, <1>6, <1>8, <3>1 DEF IsResultOf, OperandType
  <2>2. /\ IsNumber(from) => w \in LlvmInt
        /\ Kind(from) = "pointer" => w = "ptr"
        /\ IsScalar(from) => w \in Scalar
    <3>1. from = VoidType => Kind(from) = "void"
      BY BaseTypes
    <3>2. from = IntType => Kind(from) = "int"
      BY BaseTypes
    <3>3. "i1" \in LlvmInt /\ "i1" \in Scalar
      BY DEF LlvmInt, Scalar
    <3>4. /\ IsNumber(from) => ToLlvm(from) \in LlvmInt
          /\ Kind(from) = "pointer" => ToLlvm(from) = "ptr"
          /\ IsScalar(from) => ToLlvm(from) \in Scalar
      BY LlvmOf, LlvmByKind
    <3> QED BY <2>1, <3>1, <3>2, <3>3, <3>4 DEF IsNumber, IsScalar
  <2>3. /\ CodeTyped(h.regs) /\ Longer(g.regs, h.regs)
        /\ \/ h = g /\ v = r /\ (to # NoType /\ GoodCast(from, to) => ToLlvm(from) = ToLlvm(to))
           \/ to \in Type /\ IsScalar(to) /\ Width(h.regs, v) = ToLlvm(to)
    BY <1>1, <1>2, <1>6, <2>2, CastTyped
  <2>4. CASE Decides(n, s)
    <3>1. Width(h.regs, v) \in Scalar
      BY <1>4, <1>6, <2>2, <2>3, <2>4, LlvmOf
    <3>2. ~(s = 1 /\ s = 2)
      OBVIOUS
    <3> QED BY <1>8, <2>3, <2>4, <3>1, <3>2 DEF IsValueOf
  <2>5. CASE ~Decides(n, s)
    <3>1. nodes[Operand(n, s)].op \notin Comparison
      BY <2>5 DEF Ordinary, ComparisonIsValue
    <3>2. from = VoidType \/ w = ToLlvm(from)
      BY <2>1, <3>1
    <3>3. CASE to = NoType
      <4>1. h = g /\ v = r
        BY <1>2, <3>3 DEF Cast, Converted
      <4>2. CastType(n, s) = from
        BY <1>5, <3>3 DEF Seen
      <4> QED BY <1>6, <1>8, <2>3, <2>5, <3>2, <4>1, <4>2 DEF IsValueOf
    <3>4. CASE to = VoidType
      <4>1. CastType(n, s) = VoidType
        BY <1>5, <3>4, NamedTypes DEF Seen
      <4> QED BY <1>8, <2>3, <2>5, <4>1 DEF IsValueOf
    <3>5. CASE to \notin {NoType, VoidType}
      <4>1. GoodCast(from, to) /\ to \in Type
        BY <1>1, <1>2, <1>4, <2>5, <3>5 DEF CastsWell, CastTarget
      <4>2. CastType(n, s) = to
        BY <1>5, <3>5 DEF Seen
      <4>3. Width(h.regs, v) = ToLlvm(to)
        <5>1. CASE h = g /\ v = r /\ ToLlvm(from) = ToLlvm(to)
          <6>1. from # VoidType
            BY <3>5, <4>1, <5>1, LlvmOf
          <6> QED BY <1>6, <3>2, <5>1, <6>1
        <5> QED BY <2>3, <3>5, <4>1, <5>1
      <4> QED BY <1>8, <2>3, <2>5, <4>2, <4>3 DEF IsValueOf
    <3> QED BY <3>3, <3>4, <3>5
  <2> QED BY <2>4, <2>5
<1> QED BY <1>7, <1>8

LEMMA ReturnSound ==
  ASSUME Ready, phase = "compile",
         NEW g, IrOK(g), CodeTyped(g.regs), Longer(ir.regs, g.regs), NEW r \in 0..Latest(g),
         IsResultOf(work[1], Width(g.regs, r)), Return(g, r)
  PROVE  Sound(work', ir'.regs)
<1>1. NodesInv /\ Checked /\ Ordinary /\ WorkOK(work, ir) /\ IrOK(ir) /\ Sound(work, ir.regs)
  BY DEF Ready, CodeInv
<1>2. PICK S : S = CallFrame(ir)
  OBVIOUS
<1>3. PICK w \in Seq(S) : w = work /\ w # <<>>
  BY <1>2 DEF Ready, CodeInv, WorkOK
<1>4. CASE Len(work) = 1
  <2>1. work' = <<>> /\ ir' = g
    BY <1>4 DEF Return
  <2> QED BY <2>1, NothingIsSound
<1>5. CASE Len(work) # 1
  <2>1. Len(w) >= 2
    <3>1. PICK m \in Nat : m = Len(w)
      BY <1>3
    <3>2. m # 0 /\ m # 1
      BY <1>3, <1>5, <3>1
    <3>3. m >= 2
      BY <3>2
    <3> QED BY <3>1, <3>3
  <2>2. 2 \in 1..Len(w) /\ 1 \in 1..Len(w) /\ 2 \in 2..Len(w)
    BY <1>3, <2>1
  <2>3. PICK f \in S : f = w[2]
    BY <1>3, <2>2
  <2>4. PICK s : s = Len(f.values) + 1
    OBVIOUS
  <2>5. Stage(work, 2) = s
    BY <1>3, <2>3, <2>4 DEF Stage
  <2>6. IsCallOf(work[1], f, s) /\ IsPassed(work[1], f) /\ FrameTyped(f, s, ir.regs)
    <3>1. IsCallOf(work[2 - 1], work[2], Stage(work, 2)) /\ IsPassed(work[2 - 1], work[2])
      BY <1>1, <1>3, <2>2 DEF WorkOK, Sound, FramesTyped
    <3>2. FrameTyped(work[2], Stage(work, 2), ir.regs)
      BY <1>1, <1>3, <2>2 DEF Sound, FramesTyped
    <3> QED BY <1>3, <2>3, <2>5, <3>1, <3>2
  <2>7. PICK n \in 1..Len(nodes) : n = f.node
    BY <1>2, <2>3 DEF CallFrame
  <2>8. s \in 1..OperandCount(n)
    <3>1. Len(f.values) \in Nat
      BY <1>2, <2>3 DEF CallFrame
    <3>2. OperandCount(n) \in Nat
      BY <1>1, OperandsTyped
    <3> QED BY <2>4, <2>6, <2>7, <3>1, <3>2 DEF IsCallOf
  <2>9. PICK c : c = work[1] /\ c.node = Operand(n, s) /\ c.lvalue = TakesLvalue(n, s)
    BY <2>6, <2>7 DEF IsCallOf
  <2>10. ~ConvertsNull(OperandType(n, s), CastOf(n, s))
    BY <2>4, <2>6, <2>7, <2>9 DEF IsPassed, OperandType
  <2>11. PICK h : h = Cast(g, r, OperandType(n, s), CastOf(n, s))
    OBVIOUS
  <2>12. PICK v : v = Converted(g, h, r)
    OBVIOUS
  <2>13. /\ CodeTyped(h.regs) /\ Longer(g.regs, h.regs)
         /\ IsValueOf(f, s, s, Width(h.regs, v))
    BY <1>1, <2>7, <2>8, <2>9, <2>10, <2>11, <2>12, ResultConverted
  <2>14. Longer(ir.regs, h.regs)
    BY <2>13, LongerTwice
  <2>15. PICK e : e = [f EXCEPT !.values = Append(@, v)]
    OBVIOUS
  <2>16. PICK u : u = <<e>> \o SubSeq(w, 3, Len(w))
    OBVIOUS
  <2>17. ir' = h /\ work' = u
    <3>1. CastOf(n, s) = CastOf(f.node, Len(f.values) + 1) /\ work[2] = f
      BY <1>3, <2>3, <2>4, <2>7
    <3>2. nodes[Current].type = OperandType(n, s)
      BY <2>9 DEF Current, OperandType, TypeOf
    <3> QED BY <1>3, <1>5, <2>11, <2>12, <2>15, <2>16, <3>1, <3>2 DEF Return
  <2>18. /\ e.node = f.node /\ e.values = Append(f.values, v) /\ Len(e.values) = s
         /\ \A k \in 1..Len(f.values) : e.values[k] = f.values[k]
         /\ e.values[s] = v /\ Len(f.values) \in Nat
    <3>1. f.values \in Seq(0..Latest(ir)) /\ e.node = f.node /\ e.values = Append(f.values, v)
      BY <1>2, <2>3, <2>15 DEF CallFrame
    <3>2. PICK A : A = 0..Latest(ir)
      OBVIOUS
    <3>3. PICK T : T = A \cup {v}
      OBVIOUS
    <3>4. PICK a \in Seq(A) : a = f.values
      BY <3>1, <3>2
    <3>5. A \subseteq T /\ v \in T
      BY <3>3
    <3>6. a \in Seq(T)
      BY <3>5, SeqIncludes
    <3> QED BY <2>4, <3>1, <3>4, <3>5, <3>6
  <2>19. FrameTyped(e, s, h.regs)
    <3>1. FrameTyped(f, s, h.regs)
      BY <1>2, <2>3, <2>6, <2>14, FrameStaysTyped
    <3>2. \A k, x : IsValueOf(f, k, s, x) => IsValueOf(e, k, s, x)
      BY <2>18 DEF IsValueOf, OpOf
    <3>3. \A k \in 1..Len(e.values) : k \in 1..Len(f.values) \/ k = s
      BY <2>4, <2>18
    <3> QED BY <2>13, <2>18, <3>1, <3>2, <3>3 DEF FrameTyped
  <2>20. Len(u) = Len(w) - 1 /\ u[1] = e /\ \A i \in 2..(Len(w) - 1) : u[i] = w[i + 1]
    <3>1. PICK T : T = S \cup {e}
      OBVIOUS
    <3>2. S \subseteq T /\ e \in T
      BY <3>1
    <3>3. w \in Seq(T)
      BY <3>2, SeqIncludes
    <3>4. PICK y \in Seq(T) : y = w /\ Len(y) >= 2
      BY <2>1, <3>3
    <3>5. PICK x \in T : x = e
      BY <3>2
    <3>6. Len(y) >= 2
      BY <3>4
    <3>7. \E z : IsReturned(z, y, x)
      BY ONLY y \in Seq(T), x \in T, <3>6, ReturnShape
    <3> QED BY <2>16, <3>4, <3>5, <3>7 DEF IsReturned
  <2>21. Stage(u, 1) = s
    BY <2>18, <2>20 DEF Stage
  <2>22. PICK m \in 1..2 : m = 1
    OBVIOUS
  <2>23. PICK d \in Int : d = -1
    OBVIOUS
  <2>24. /\ m - d \in 1..Len(w) /\ m - d = 2 /\ Len(u) = Len(w) + d
         /\ \A i \in (m + 1)..Len(u) : i - d = i + 1 /\ i \in 2..(Len(w) - 1)
    BY <1>3, <2>1, <2>20, <2>22, <2>23
  <2>25. \A i \in (m + 1)..Len(u) : u[i] = w[i - d]
    BY <2>20, <2>24
  <2>26. u[m].node = w[m - d].node /\ m # 2
    BY <2>3, <2>18, <2>20, <2>22, <2>24
  <2>27. \A i \in 1..m : FrameTyped(u[i], Stage(u, i), h.regs)
    <3>1. \A i \in 1..m : i = 1
      BY <2>22
    <3> QED BY <2>19, <2>20, <2>21, <3>1
  <2>28. Sound(u, h.regs)
    BY <1>1, <1>2, <1>3, <2>13, <2>14, <2>24, <2>25, <2>26, <2>27, SoundRearranged
  <2> QED BY <2>17, <2>28
<1> QED BY <1>4, <1>5
\* What has no value is a variable or is behind a pointer, and only its address is
\* taken: that is seen at the operator around it, the only one.
LEMMA LoadedIsNoVoid ==
  ASSUME Ready, phase = "compile", ~work[1].lvalue,
         nodes[Current].op \in {"variable", "dereference"}
  PROVE  TypeOf(Current) # VoidType
<1> SUFFICES ASSUME TypeOf(Current) = VoidType PROVE FALSE
  OBVIOUS
<1>1. /\ NodesInv /\ CodeInv /\ ~LoadsVoid /\ IsTree /\ WorkOK(work, ir) /\ Rooted(work)
      /\ FramesTyped(work, ir.regs)
  BY DEF Ready, CodeInv, Ordinary, Sound
<1>2. PICK n \in 1..Len(nodes) : n = Current /\ work # <<>>
  BY <1>1, CurrentTyped
<1>3. PICK m \in 1..Len(nodes) : nodes[m].kids = <<n>> /\ nodes[m].op = "reference"
  BY <1>1, <1>2 DEF LoadsVoid
<1>4. IsKid(m, n)
  <2>1. Len(<<n>>) = 1 /\ <<n>>[1] = n
    OBVIOUS
  <2>2. Len(nodes[m].kids) = 1 /\ nodes[m].kids[1] = n
    BY <1>3, <2>1
  <2> QED BY <2>2 DEF IsKid
<1>5. Len(work) \in Nat /\ Len(work) # 0
  <2>1. work \in Seq(CallFrame(ir))
    BY <1>1 DEF WorkOK
  <2> QED BY <1>2, <2>1
<1>6. CASE Len(work) = 1
  <2>1. Len(pending) = 1 /\ n = pending[1]
    BY <1>1, <1>2, <1>6 DEF Rooted, Current
  <2> QED BY <1>1, <1>4, <2>1 DEF IsTree
<1>7. CASE Len(work) # 1
  <2>1. 2 \in 2..Len(work) /\ 2 \in 1..Len(work)
    <3>1. PICK k \in Nat : k = Len(work) /\ k # 0 /\ k # 1
      BY <1>5, <1>7
    <3>2. k >= 2
      BY <3>1
    <3> QED BY <3>1, <3>2
  <2>2. PICK f \in CallFrame(ir) : f = work[2]
    BY <1>1, <2>1 DEF WorkOK
  <2>3. PICK p \in 1..Len(nodes) : p = f.node
    BY DEF CallFrame
  <2>4. PICK s \in Nat : s = Len(f.values) + 1 /\ s >= 1
    <3>1. Len(f.values) \in Nat
      BY DEF CallFrame
    <3> QED BY <3>1
  <2>5. IsCallOf(work[1], f, s)
    <3>1. Stage(work, 2) = s
      BY <2>2, <2>4 DEF Stage
    <3>2. IsCallOf(work[2 - 1], work[2], Stage(work, 2))
      BY <1>1, <2>1 DEF WorkOK
    <3> QED BY <2>2, <3>1, <3>2
  <2>6. n = nodes[p].kids[s] /\ s \in 1..Len(nodes[p].kids)
    <3>1. OperandCount(p) \in Nat
      BY <1>1, OperandsTyped
    <3>2. n = nodes[p].kids[s] /\ s <= OperandCount(p)
      BY <1>2, <2>3, <2>5 DEF IsCallOf, Operand, Current
    <3>3. OperandCount(p) = Len(nodes[p].kids)
      BY <2>4, <3>1, <3>2 DEF OperandCount
    <3> QED BY <2>4, <3>1, <3>2, <3>3
  <2>7. p = m
    <3>1. IsKid(p, n)
      BY <2>6 DEF IsKid
    <3> QED BY <1>1, <1>4, <3>1 DEF IsTree
  <2>8. s = 1
    <3>1. Len(<<n>>) = 1
      OBVIOUS
    <3> QED BY <1>3, <2>6, <2>7, <3>1
  <2>9. TakesLvalue(p, s)
    BY <1>3, <2>7, <2>8 DEF TakesLvalue
  <2> QED BY <2>3, <2>5, <2>9 DEF IsCallOf
<1> QED BY <1>6, <1>7

\* A value that the code g has computed with the instruction i.
LEMMA EmitsSound ==
  ASSUME Ready, phase = "compile",
         NEW g, IrOK(g), CodeTyped(g.regs), Longer(ir.regs, g.regs),
         NEW i \in Instruction, Typed(g.regs, i), i.op = "phi" => JoinsAll(i, Preds(g, g.at)),
         IsResultOf(work[1], i.type),
         Return(Emit(g, i), Latest(Emit(g, i)))
  PROVE  Sound(work', ir'.regs)
<1>1. PICK h : h = Emit(g, i)
  OBVIOUS
<1>2. /\ CodeTyped(h.regs) /\ Longer(g.regs, h.regs) /\ Latest(h) = Latest(g) + 1
      /\ Latest(g) \in Nat /\ Width(h.regs, Latest(h)) = i.type
  BY <1>1, EmitTyped
<1>3. IrOK(h)
  BY <1>1, EmitExtends DEF Extends
<1>4. Longer(ir.regs, h.regs) /\ Latest(h) \in 0..Latest(h)
  BY <1>2, LongerTwice
<1>5. Return(h, Latest(h))
  BY <1>1
<1> QED BY <1>2, <1>3, <1>4, <1>5, ReturnSound

LEMMA ReturnFromSound ==
  ASSUME Ready, phase = "compile",
         NEW g, IrOK(g), CodeTyped(g.regs), Longer(ir.regs, g.regs),
         NEW address \in 0..Latest(g), Width(g.regs, address) = "ptr",
         TypeOf(Current) = VoidType => nodes[Current].op \in {"variable", "dereference"},
         ReturnFrom(g, address)
  PROVE  Sound(work', ir'.regs)
<1>1. CASE work[1].lvalue
  <2>1. Return(g, address)
    BY <1>1 DEF ReturnFrom
  <2>2. IsResultOf(work[1], Width(g.regs, address))
    BY <1>1 DEF IsResultOf
  <2> QED BY <2>1, <2>2, ReturnSound
<1>2. CASE ~work[1].lvalue
  <2>1. TypeOf(Current) # VoidType
    BY <1>2, LoadedIsNoVoid
  <2>2. PICK t \in LlvmType : t = ToLlvm(nodes[Current].type) /\ t # "void"
    <3>1. nodes[Current].type \in Type /\ ToLlvm(nodes[Current].type) \in LlvmType
      BY CurrentTyped DEF Ready
    <3> QED BY <2>1, <3>1, LlvmOf DEF TypeOf
  <2>3. Len(g.regs) \in Nat /\ address \in 0..Len(g.regs) /\ address \in Nat
    BY Sizes DEF Latest
  <2>4. PICK i : i = Instr("load", t, <<address>>) /\ i.type = t
    BY <2>3, OneArgument
  <2>5. Typed(g.regs, i)
    BY <2>2, <2>3, <2>4, OneArgumentTyped
  <2>6. i \in Instruction /\ i.op # "phi"
    <3>1. PICK a \in Seq(Nat) : a = <<address>>
      <4>1. <<address>> \in Seq(Nat)
        BY <2>3
      <4> QED BY <4>1
    <3>2. "load" \in OpCode
      BY DEF OpCode
    <3>3. Instr("load", t, a) \in Instruction /\ Instr("load", t, a).op = "load"
      BY <3>2, InstrIs
    <3> QED BY <2>4, <3>1, <3>3
  <2>7. Return(Emit(g, i), Latest(Emit(g, i)))
    BY <1>2, <2>2, <2>4 DEF ReturnFrom
  <2>8. IsResultOf(work[1], i.type)
    BY <1>2, <2>2, <2>4 DEF IsResultOf, TypeOf, Current
  <2> QED BY <2>5, <2>6, <2>7, <2>8, EmitsSound
<1> QED BY <1>1, <1>2
LEMMA NoArgumentTyped ==
  ASSUME NEW regs, Len(regs) \in Nat,
         NEW op \in {"address", "const", "null", "call", "string", "size"}, NEW t, NEW x,
         op = "size" => IsSized(x)
  PROVE  Typed(regs, Of(Instr(op, t, <<>>), x)) /\ Of(Instr(op, t, <<>>), x).type = t
<1>0. PICK i : i = Of(Instr(op, t, <<>>), x)
  OBVIOUS
<1>1. i.op = op /\ i.args = <<>> /\ i.type = t /\ i.of = x
  BY <1>0 DEF Of, Instr
<1>2. Arguments(op) = 0
  BY DEF Arguments, TakesTwo, TakesOne, Comparison
<1>3. IsWellTyped(regs, i)
  BY <1>1 DEF IsWellTyped, Comparison
<1>4. PICK S : S = 0..Len(regs)
  OBVIOUS
<1>5. <<>> \in Seq(S) /\ Len(<<>>) = 0
  OBVIOUS
<1>6. i.args \in Seq(S) /\ Len(i.args) = 0 /\ Arguments(i.op) = 0
  BY <1>1, <1>2, <1>5
<1>7. Typed(regs, i)
  BY <1>3, <1>4, <1>6 DEF Typed
<1> QED BY <1>0, <1>1, <1>7

\* The operand s of the call f is next: it is called, or is a null that is to be
\* an integer.
LEMMA CallSound ==
  ASSUME Ready, phase = "compile",
         NEW g, IrOK(g), CodeTyped(g.regs), Longer(ir.regs, g.regs),
         NEW f \in CallFrame(g), f.node = work[1].node,
         NEW s, s = Len(f.values) + 1, s <= OperandCount(f.node),
         FrameTyped(f, s, g.regs), CallOperand(f, g, s)
  PROVE  Sound(work', ir'.regs)
<1>1. NodesInv /\ Checked /\ Ordinary /\ WorkOK(work, ir) /\ IrOK(ir) /\ Sound(work, ir.regs)
  BY DEF Ready, CodeInv
<1>2. PICK S : S = CallFrame(ir)
  OBVIOUS
<1>3. PICK w \in Seq(S) : w = work /\ w # <<>>
  BY <1>2 DEF Ready, CodeInv, WorkOK
<1>4. Len(w) \in Nat /\ Len(w) >= 1
  BY <1>3
<1>5. PICK n \in 1..Len(nodes) : n = f.node
  BY DEF CallFrame
<1>6. s \in 1..OperandCount(n)
  <2>1. Len(f.values) \in Nat
    BY DEF CallFrame
  <2>2. OperandCount(n) \in Nat
    BY <1>1, OperandsTyped
  <2> QED BY <1>5, <2>1, <2>2
<1>7. PICK x : x = Operand(n, s)
  OBVIOUS
<1>8. PICK to \in CastTarget : to = CastOf(n, s)
  BY <1>1, <1>6, OperandsTyped
<1>9. PICK from \in Type : from = OperandType(n, s)
  BY <1>1, <1>6, CastTypesAreTypes DEF OperandType, TypeOf
<1>10. CASE ConvertsNull(from, to)
  <2>1. to \in Type /\ IsScalar(to) /\ to # NoType
    <3>1. Kind(to) \in {"int", "char"}
      BY <1>10 DEF ConvertsNull
    <3> QED BY <1>8, <3>1, BaseTypes DEF IsScalar, CastTarget
  <2>2. PICK t \in LlvmType : t = ToLlvm(to) /\ t \in Scalar
    BY <2>1, LlvmTypes, LlvmOf
  <2>3. PICK i : i = Of(Instr("const", t, <<>>), "zero")
    OBVIOUS
  <2>4. Typed(g.regs, i) /\ i.type = t
    <3>1. PICK regs : regs = g.regs /\ Len(regs) \in Nat
      BY Sizes DEF Latest
    <3>2. PICK op \in {"address", "const", "null", "call", "string", "size"} : op = "const"
      OBVIOUS
    <3>3. Typed(regs, i) /\ i.type = t
      BY <2>3, <3>1, <3>2, NoArgumentTyped
    <3> QED BY <3>1, <3>3
  <2>5. i \in Instruction
    <3>1. PICK a \in Seq(Nat) : a = <<>>
      <4>1. <<>> \in Seq(Nat)
        OBVIOUS
      <4> QED BY <4>1
    <3>2. "const" \in OpCode /\ "zero" \in Constant
      BY DEF OpCode, Constant
    <3> QED BY <2>3, <3>1, <3>2, InstrIs
  <2>6. PICK h : h = Emit(g, i)
    OBVIOUS
  <2>7. /\ CodeTyped(h.regs) /\ Longer(g.regs, h.regs) /\ Width(h.regs, Latest(h)) = t
        /\ Latest(h) = Latest(g) + 1
    BY <2>4, <2>5, <2>6, EmitTyped
  <2>8. Longer(ir.regs, h.regs)
    BY <2>7, LongerTwice
  <2>9. PICK v : v = Latest(h)
    OBVIOUS
  <2>10. PICK e : e = [f EXCEPT !.values = Append(@, v)]
    OBVIOUS
  <2>11. PICK u : u = <<e>> \o Tail(w)
    OBVIOUS
  <2>12. ir' = h /\ work' = u
    <3>1. CastOf(f.node, s) = to /\ nodes[Operand(f.node, s)].type = from
      BY <1>5, <1>8, <1>9 DEF OperandType, TypeOf
    <3> QED BY <1>3, <1>10, <2>2, <2>3, <2>6, <2>9, <2>10, <2>11, <3>1 DEF CallOperand
  <2>13. /\ e.node = f.node /\ e.values = Append(f.values, v) /\ Len(e.values) = s
         /\ \A k \in 1..Len(f.values) : e.values[k] = f.values[k]
         /\ e.values[s] = v /\ Len(f.values) \in Nat
    <3>1. f.values \in Seq(0..Latest(g)) /\ e.node = f.node /\ e.values = Append(f.values, v)
      BY <2>10 DEF CallFrame
    <3>2. PICK A : A = 0..Latest(g)
      OBVIOUS
    <3>3. PICK T : T = A \cup {v}
      OBVIOUS
    <3>4. PICK a \in Seq(A) : a = f.values
      BY <3>1, <3>2
    <3>5. A \subseteq T /\ v \in T
      BY <3>3
    <3>6. a \in Seq(T)
      BY <3>5, SeqIncludes
    <3> QED BY <3>1, <3>4, <3>5, <3>6
  <2>14. IsValueOf(e, s, s, t)
    <3>1. Converts(n)
      BY <1>1, NodeRules DEF Checked
    <3>2. ~TakesLvalue(n, s)
      BY <1>6, <1>8, <2>1, <3>1 DEF Converts
    <3>3. CastType(n, s) = to
      BY <1>8, <2>1 DEF CastType
    <3>4. ~(s = 1 /\ s = 2)
      OBVIOUS
    <3> QED BY <1>5, <2>2, <2>13, <3>2, <3>3, <3>4 DEF IsValueOf
  <2>15. FrameTyped(e, s, h.regs)
    <3>1. FrameTyped(f, s, h.regs)
      BY <2>7, FrameStaysTyped
    <3>2. \A k, y : IsValueOf(f, k, s, y) => IsValueOf(e, k, s, y)
      BY <2>13 DEF IsValueOf, OpOf
    <3>3. \A k \in 1..Len(e.values) : k \in 1..Len(f.values) \/ k = s
      BY <2>13
    <3> QED BY <2>7, <2>9, <2>13, <2>14, <3>1, <3>2, <3>3 DEF FrameTyped
  <2>16. Len(u) = Len(w) /\ u[1] = e /\ \A i2 \in 2..Len(w) : u[i2] = w[i2]
    <3>1. PICK T : T = S \cup {e}
      OBVIOUS
    <3>2. S \subseteq T /\ e \in T
      BY <3>1
    <3>3. PICK y \in Seq(T) : y = w /\ y # <<>>
      BY <1>3, <3>2, SeqIncludes
    <3>4. PICK b \in T : b = e
      BY <3>2
    <3>5. /\ Len(<<b>> \o Tail(y)) = Len(y) /\ (<<b>> \o Tail(y))[1] = b
          /\ \A i2 \in 2..Len(y) : (<<b>> \o Tail(y))[i2] = y[i2]
      BY <3>3, Fronts
    <3> QED BY <2>11, <3>3, <3>4, <3>5
  <2>17. Stage(u, 1) = s
    BY <2>13, <2>16 DEF Stage
  <2>18. PICK m \in 1..2 : m = 1
    OBVIOUS
  <2>19. PICK d \in Int : d = 0
    OBVIOUS
  <2>20. /\ m - d \in 1..Len(w) /\ m - d = 1 /\ Len(u) = Len(w) + d
         /\ \A j \in (m + 1)..Len(u) : j - d = j /\ j \in 2..Len(w)
    BY <1>4, <2>16, <2>18, <2>19
  <2>21. \A j \in (m + 1)..Len(u) : u[j] = w[j - d]
    BY <2>16, <2>20
  <2>22. u[m].node = w[m - d].node /\ m # 2
    BY <1>3, <2>13, <2>16, <2>18, <2>20
  <2>23. \A j \in 1..m : FrameTyped(u[j], Stage(u, j), h.regs)
    <3>1. \A j \in 1..m : j = 1
      BY <2>18
    <3> QED BY <2>15, <2>16, <2>17, <3>1
  <2>24. Sound(u, h.regs)
    BY <1>1, <1>2, <1>3, <2>7, <2>8, <2>20, <2>21, <2>22, <2>23, SoundRearranged
  <2> QED BY <2>12, <2>24
<1>11. CASE ~ConvertsNull(from, to)
  <2>1. PICK c : c = Frame(x, TakesLvalue(n, s)) /\ c.node = x /\ c.values = <<>>
    <3>1. PICK b : b = TakesLvalue(n, s)
      OBVIOUS
    <3>2. Frame(x, b).node = x /\ Frame(x, b).values = <<>>
      BY DEF Frame
    <3> QED BY <3>1, <3>2
  <2>2. PICK u : u = <<c, f>> \o Tail(w)
    OBVIOUS
  <2>3. ir' = g /\ work' = u
    <3>1. CastOf(f.node, s) = to /\ nodes[Operand(f.node, s)].type = from
      BY <1>5, <1>8, <1>9 DEF OperandType, TypeOf
    <3> QED BY <1>3, <1>5, <1>7, <1>11, <2>1, <2>2, <3>1 DEF CallOperand
  <2>4. IsPassed(c, f)
    BY <1>5, <1>7, <1>8, <1>9, <1>11, <2>1 DEF IsPassed, OperandType
  <2>5. /\ Len(u) = Len(w) + 1 /\ u[1] = c /\ u[2] = f
        /\ \A j \in 3..(Len(w) + 1) : u[j] = w[j - 1]
    <3>1. PICK T : T = S \cup {c, f}
      OBVIOUS
    <3>2. S \subseteq T /\ c \in T /\ f \in T
      BY <3>1
    <3>3. PICK y \in Seq(T) : y = w /\ y # <<>>
      BY <1>3, <3>2, SeqIncludes
    <3>4. PICK b \in T : b = c
      BY <3>2
    <3>5. PICK q \in T : q = f
      BY <3>2
    <3>6. /\ Len(<<b, q>> \o Tail(y)) = Len(y) + 1
          /\ (<<b, q>> \o Tail(y))[1] = b /\ (<<b, q>> \o Tail(y))[2] = q
          /\ \A j \in 3..(Len(y) + 1) : (<<b, q>> \o Tail(y))[j] = y[j - 1]
      BY <3>3, Fronts
    <3> QED BY <2>2, <3>3, <3>4, <3>5, <3>6
  <2>6. FrameTyped(c, 0, g.regs)
    <3>1. Len(c.values) = 0
      BY <2>1
    <3> QED BY <3>1 DEF FrameTyped
  <2>7. Stage(u, 1) = 0 /\ Stage(u, 2) = s
    <3>1. Len(<<>>) = 0
      OBVIOUS
    <3> QED BY <2>1, <2>5, <3>1 DEF Stage
  <2>8. PICK m \in 1..2 : m = 2
    OBVIOUS
  <2>9. PICK d \in Int : d = 1
    OBVIOUS
  <2>10. /\ m - d \in 1..Len(w) /\ m - d = 1 /\ Len(u) = Len(w) + d
         /\ \A j \in (m + 1)..Len(u) : j - d = j - 1 /\ j \in 3..(Len(w) + 1)
    BY <1>4, <2>5, <2>8, <2>9
  <2>11. \A j \in (m + 1)..Len(u) : u[j] = w[j - d]
    BY <2>5, <2>10
  <2>12. u[m].node = w[m - d].node
    BY <1>3, <2>5, <2>8, <2>10
  <2>13. \A j \in 1..m : FrameTyped(u[j], Stage(u, j), g.regs)
    <3>1. \A j \in 1..m : j = 1 \/ j = 2
      BY <2>8
    <3> QED BY <2>5, <2>6, <2>7, <3>1
  <2>14. IsPassed(u[1], u[2])
    BY <2>4, <2>5
  <2>15. Sound(u, g.regs)
    BY <1>1, <1>2, <1>3, <2>10, <2>11, <2>12, <2>13, <2>14, SoundRearranged
  <2> QED BY <2>3, <2>15
<1> QED BY <1>10, <1>11
(***************************************************************************)
(* The steps of the code generator.                                        *)
(***************************************************************************)
LEMMA CurrentSound ==
  ASSUME Ready, phase = "compile"
  PROVE  /\ IrOK(ir) /\ CodeTyped(ir.regs) /\ Longer(ir.regs, ir.regs)
         /\ Len(ir.regs) \in Nat /\ Latest(ir) = Len(ir.regs)
         /\ Current \in 1..Len(nodes) /\ TypeOf(Current) \in Type
         /\ Converts(Current) /\ Promise(Current)
         /\ work[1] \in CallFrame(ir) /\ FrameTyped(work[1], Len(Values), ir.regs)
         /\ OpOf(work[1]) = nodes[Current].op /\ work[1].node = Current /\ work[1].values = Values
<1>1. NodesInv /\ CodeInv /\ Checked /\ Ordinary /\ Sound(work, ir.regs)
  BY DEF Ready
<1>2. IrOK(ir) /\ Longer(ir.regs, ir.regs) /\ Len(ir.regs) \in Nat
  BY <1>1, Sizes DEF CodeInv, Longer, Latest
<1>3. /\ Current \in 1..Len(nodes) /\ nodes[Current].type \in Type /\ work # <<>>
      /\ FrameOK(work[1], Len(Values), ir)
  BY <1>1, CurrentTyped
<1>4. Converts(Current) /\ Promise(Current)
  BY <1>1, <1>3, NodeRules DEF Checked
<1>5. FrameTyped(work[1], Len(Values), ir.regs)
  <2>1. 1 \in 1..Len(work)
    <3>1. work \in Seq(CallFrame(ir))
      BY <1>1 DEF CodeInv, WorkOK
    <3> QED BY <1>3, <3>1
  <2>2. Stage(work, 1) = Len(Values)
    BY DEF Stage, Values
  <2> QED BY <1>1, <2>1, <2>2 DEF Sound, FramesTyped
<1> QED BY <1>1, <1>2, <1>3, <1>4, <1>5 DEF FrameOK, Sound, TypeOf, OpOf, Current, Values, Latest

LEMMA ValuesSound ==
  ASSUME Ready, phase = "compile", NEW k \in 1..Len(Values), NEW w, w = Width(ir.regs, Values[k])
  PROVE  /\ Values[k] \in 0..Len(ir.regs) /\ Values[k] \in Nat
         /\ TakesLvalue(Current, k) => w = "ptr"
         /\ ~TakesLvalue(Current, k) /\ Decides(Current, k) =>
              /\ w \in Scalar
              /\ nodes[Current].op \in Logical /\ k = 1 /\ Len(Values) = 2 => w = "i1"
         /\ ~TakesLvalue(Current, k) /\ ~Decides(Current, k) /\ CastType(Current, k) # VoidType =>
              w = ToLlvm(CastType(Current, k))
         /\ CastType(Current, k) \in Type
<1>1. Values[k] \in 0..Latest(ir) /\ Values[k] \in Nat /\ k \in 1..OperandCount(Current)
  <2>1. /\ Values[k] \in 0..Latest(ir) /\ Values[k] \in Nat
        /\ Len(Values) <= OperandCount(Current) /\ OperandCount(Current) \in Nat
        /\ Values \in Seq(Nat)
    BY CurrentTyped DEF Ready
  <2> QED BY <2>1
<1>2. IsValueOf(work[1], k, Len(Values), w)
  BY CurrentSound DEF FrameTyped
<1>3. OpOf(work[1]) = nodes[Current].op /\ work[1].node = Current /\ Latest(ir) = Len(ir.regs)
  BY CurrentSound
<1>4. CastType(Current, k) \in Type
  BY <1>1, CurrentTyped, CastTypesAreTypes DEF Ready
<1> QED BY <1>1, <1>2, <1>3, <1>4 DEF IsValueOf

\* An instruction that gives the value of the call, or its address.
LEMMA EmitsOneSound ==
  ASSUME Ready, phase = "compile", NEW i \in Instruction, i.op # "phi", Typed(ir.regs, i),
         \/ /\ Return(Emit(ir, i), Latest(Emit(ir, i)))
            /\ IsResultOf(work[1], i.type)
         \/ /\ ReturnFrom(Emit(ir, i), Latest(Emit(ir, i))) /\ i.type = "ptr"
            /\ TypeOf(Current) = VoidType => nodes[Current].op \in {"variable", "dereference"}
  PROVE  Sound(work', ir'.regs)
<1>1. IrOK(ir) /\ CodeTyped(ir.regs) /\ Longer(ir.regs, ir.regs)
  BY CurrentSound
<1>2. CASE Return(Emit(ir, i), Latest(Emit(ir, i))) /\ IsResultOf(work[1], i.type)
  BY <1>1, <1>2, EmitsSound
<1>3. CASE /\ ReturnFrom(Emit(ir, i), Latest(Emit(ir, i))) /\ i.type = "ptr"
           /\ TypeOf(Current) = VoidType => nodes[Current].op \in {"variable", "dereference"}
  <2>1. PICK g : g = Emit(ir, i)
    OBVIOUS
  <2>2. /\ CodeTyped(g.regs) /\ Longer(ir.regs, g.regs) /\ Latest(g) = Latest(ir) + 1
        /\ Latest(ir) \in Nat /\ Width(g.regs, Latest(g)) = i.type
    BY <1>1, <2>1, EmitTyped
  <2>3. IrOK(g)
    BY <1>1, <2>1, EmitExtends DEF Extends
  <2>4. Latest(g) \in 0..Latest(g)
    BY <2>2
  <2>5. ReturnFrom(g, Latest(g))
    BY <1>3, <2>1
  <2> QED BY <1>3, <2>2, <2>3, <2>4, <2>5, ReturnFromSound
<1> QED BY <1>2, <1>3

LEMMA VariableSound ==
  ASSUME Ready, CompileVariable
  PROVE  Sound(work', ir'.regs)
<1>1. PICK x : x = nodes[Current].of
  OBVIOUS
<1>2. PICK i : i = Of(Instr("address", "ptr", <<>>), x)
  OBVIOUS
<1>3. /\ phase = "compile" /\ ReturnFrom(Emit(ir, i), Latest(Emit(ir, i)))
      /\ nodes[Current].op = "variable"
  BY <1>1, <1>2 DEF CompileVariable, At, Compiling, Op
<1>4. i \in Instruction /\ i.op # "phi"
  <2>1. x \in Variable \cup Constant \cup {"none"}
    BY <1>1, <1>3, CurrentTyped DEF Node, Ready
  <2>2. PICK a \in Seq(Nat) : a = <<>>
    <3>1. <<>> \in Seq(Nat)
      OBVIOUS
    <3> QED BY <3>1
  <2>3. "address" \in OpCode /\ "ptr" \in LlvmType
    BY DEF OpCode, LlvmType
  <2>4. /\ Of(Instr("address", "ptr", a), x) \in Instruction
        /\ Of(Instr("address", "ptr", a), x).op = "address"
    BY <2>1, <2>3, InstrIs
  <2> QED BY <1>2, <2>2, <2>4
<1>5. Typed(ir.regs, i) /\ i.type = "ptr"
  BY <1>2, <1>3, CurrentSound, NoArgumentTyped
<1> QED BY <1>3, <1>4, <1>5, EmitsOneSound

LEMMA ConstantSound ==
  ASSUME Ready, CompileConstant
  PROVE  Sound(work', ir'.regs)
<1>1. PICK leaf : leaf = nodes[Current]
  OBVIOUS
<1>2. PICK op : op = CASE leaf.of = "zero" -> "null" [] leaf.of = "one" -> "const" [] OTHER -> leaf.of
  OBVIOUS
<1>3. PICK i : i = Of(Instr(op, ToLlvm(leaf.type), <<>>), leaf.of)
  OBVIOUS
<1>4. /\ phase = "compile" /\ Return(Emit(ir, i), Latest(Emit(ir, i)))
      /\ leaf.op = "constant" /\ ~work[1].lvalue
  <2>1. /\ phase = "compile" /\ Return(Emit(ir, i), Latest(Emit(ir, i)))
        /\ Op = "constant" /\ (work[1].lvalue => HasLvalue)
    BY <1>1, <1>2, <1>3 DEF CompileConstant, At, Compiling
  <2> QED BY <1>1, <2>1 DEF HasLvalue, Op
<1>5. leaf.of \in Constant
  <2>1. Fits(leaf, Current)
    BY <1>1, <1>4, CurrentTyped DEF NodesInv, Ready
  <2> QED BY <1>4, <2>1 DEF Fits
<1>6. op \in {"null", "const", "call", "string"}
  BY <1>2, <1>5 DEF Constant
<1>7. PICK t \in LlvmType : t = ToLlvm(leaf.type)
  BY <1>1, <1>4, CurrentTyped DEF Ready
<1>8. i \in Instruction /\ i.op # "phi"
  <2>1. op \in OpCode /\ op # "phi"
    BY <1>6 DEF OpCode
  <2>2. PICK a \in Seq(Nat) : a = <<>>
    <3>1. <<>> \in Seq(Nat)
      OBVIOUS
    <3> QED BY <3>1
  <2>3. PICK x \in Constant : x = leaf.of
    BY <1>5
  <2>4. Of(Instr(op, t, a), x) \in Instruction /\ Of(Instr(op, t, a), x).op = op
    BY <2>1, InstrIs
  <2> QED BY <1>3, <1>7, <2>1, <2>2, <2>3, <2>4
<1>9. Typed(ir.regs, i) /\ i.type = t
  <2>1. Len(ir.regs) \in Nat
    BY <1>4, CurrentSound
  <2>2. op \in {"address", "const", "null", "call", "string", "size"} /\ op # "size"
    BY <1>6
  <2> QED BY <1>3, <1>7, <2>1, <2>2, NoArgumentTyped
<1>10. IsResultOf(work[1], i.type)
  BY <1>1, <1>4, <1>7, <1>9 DEF IsResultOf, TypeOf, Current
<1> QED BY <1>4, <1>8, <1>9, <1>10, EmitsOneSound
LEMMA NextOperandSound ==
  ASSUME Ready, phase = "compile", Op \notin Branching \/ Len(Values) = 0,
         NEW s, s = Len(Values) + 1, s <= OperandCount(Current), CallOperand(work[1], ir, s)
  PROVE  Sound(work', ir'.regs)
<1>1. /\ IrOK(ir) /\ CodeTyped(ir.regs) /\ Longer(ir.regs, ir.regs)
      /\ work[1] \in CallFrame(ir) /\ FrameTyped(work[1], Len(Values), ir.regs)
      /\ OpOf(work[1]) = Op /\ work[1].node = Current /\ work[1].values = Values
  BY CurrentSound DEF Op
<1>2. FrameTyped(work[1], s, ir.regs)
  <2>1. CASE Len(Values) = 0
    BY <1>1, <2>1 DEF FrameTyped
  <2>2. CASE Op \notin Branching
    <3>1. OpOf(work[1]) \notin Logical
      BY <1>1, <2>2 DEF Branching
    <3>2. \A k, w : IsValueOf(work[1], k, Len(Values), w) => IsValueOf(work[1], k, s, w)
      BY <3>1 DEF IsValueOf
    <3> QED BY <1>1, <3>2 DEF FrameTyped
  <2> QED BY <2>1, <2>2
<1>3. PICK f \in CallFrame(ir) : f = work[1]
  BY <1>1
<1> QED BY <1>1, <1>2, <1>3, CallSound

LEMMA OperandSound ==
  ASSUME Ready, CompileOperand
  PROVE  Sound(work', ir'.regs)
<1>1. /\ phase = "compile" /\ Op \notin Branching /\ Len(Values) < OperandCount(Current)
      /\ CallOperand(work[1], ir, Len(Values) + 1)
  BY DEF CompileOperand, Compiling
<1>2. Len(Values) \in Nat /\ OperandCount(Current) \in Nat
  <2>1. Values \in Seq(Nat) /\ OperandCount(Current) \in Nat
    BY <1>1, CurrentTyped DEF Ready
  <2> QED BY <2>1
<1>3. Len(Values) + 1 <= OperandCount(Current)
  BY <1>1, <1>2
<1> QED BY <1>1, <1>3, NextOperandSound

LEMMA ConditionSound ==
  ASSUME Ready, CompileCondition
  PROVE  Sound(work', ir'.regs)
<1>1. /\ phase = "compile" /\ Op \in Branching /\ Len(Values) = 0
      /\ CallOperand(work[1], ir, 1)
  BY DEF CompileCondition, At, Compiling
<1>2. 1 = Len(Values) + 1 /\ 1 <= OperandCount(Current)
  BY <1>1, BranchingOperands DEF Ready, Branching
<1> QED BY <1>1, <1>2, NextOperandSound

LEMMA OneValue ==
  ASSUME Ready, phase = "compile", Len(Values) = 1
  PROVE  /\ 1 \in 1..Len(Values) /\ Values = <<Values[1]>>
         /\ Values[1] \in 0..Len(ir.regs) /\ Values[1] \in Nat
<1>1. 1 \in 1..Len(Values)
  <2>1. Len(Values) = 1
    OBVIOUS
  <2> QED BY <2>1
<1>2. Values \in Seq(Nat)
  BY CurrentTyped DEF Ready
<1>3. Values = <<Values[1]>>
  BY <1>2
<1>4. Values[1] \in 0..Len(ir.regs) /\ Values[1] \in Nat
  BY <1>1, ValuesSound
<1> QED BY <1>1, <1>3, <1>4

LEMMA NegationSound ==
  ASSUME Ready, CompileNegation
  PROVE  Sound(work', ir'.regs)
<1>1. PICK v : v = Values[1]
  OBVIOUS
<1>2. /\ phase = "compile" /\ Return(Emit(ir, Instr("neg", "i32", Values)),
                                      Latest(Emit(ir, Instr("neg", "i32", Values))))
      /\ nodes[Current].op = "negation" /\ Len(Values) = 1
  BY DEF CompileNegation, At, Compiling, Op
<1>3. 1 \in 1..Len(Values) /\ Values = <<v>> /\ v \in 0..Len(ir.regs)
  BY <1>1, <1>2, OneValue
<1>4. PICK i : i = Instr("neg", "i32", <<v>>)
  OBVIOUS
<1>5. i \in Instruction /\ i.op # "phi"
  <2>1. "neg" \in OpCode /\ "i32" \in LlvmType
    BY DEF OpCode, LlvmType, LlvmInt
  <2> QED BY <1>2, <1>3, <1>4, <2>1, OperandInstr DEF Ready
<1>6. TypeOf(Current) = IntType /\ IsNumber(CastType(Current, 1))
  BY <1>2, CurrentSound DEF Promise
<1>7. ~TakesLvalue(Current, 1) /\ ~Decides(Current, 1)
  BY <1>2 DEF TakesLvalue, Decides, Logical
<1>8. Width(ir.regs, v) \in LlvmInt
  <2>1. /\ CastType(Current, 1) # VoidType => Width(ir.regs, v) = ToLlvm(CastType(Current, 1))
        /\ CastType(Current, 1) \in Type
    BY <1>1, <1>2, <1>3, <1>7, ValuesSound
  <2>2. CastType(Current, 1) # VoidType
    BY <1>6, BaseTypes DEF IsNumber
  <2> QED BY <1>6, <2>1, <2>2, LlvmOf
<1>9. Typed(ir.regs, i) /\ i.type = "i32"
  <2>1. PICK regs : regs = ir.regs /\ Len(regs) \in Nat
    BY <1>2, CurrentSound
  <2>2. v \in 0..Len(regs) /\ Width(regs, v) \in LlvmInt
    BY <1>3, <1>8, <2>1
  <2>3. Typed(regs, i)
    BY <1>4, <2>1, <2>2, OneArgumentTyped
  <2> QED BY <1>4, <2>1, <2>3 DEF Instr
<1>10. IsResultOf(work[1], i.type)
  <2>1. ToLlvm(IntType) = "i32" /\ ~work[1].lvalue
    BY <1>2, NamedTypes, BaseTypes, LlvmByKind DEF CompileNegation, At, Compiling, HasLvalue, Op
  <2> QED BY <1>6, <1>9, <2>1 DEF IsResultOf, Current
<1>11. Return(Emit(ir, i), Latest(Emit(ir, i)))
  BY <1>2, <1>3, <1>4
<1> QED BY <1>2, <1>5, <1>9, <1>10, <1>11, EmitsOneSound
LEMMA MemberSound ==
  ASSUME Ready, CompileMember
  PROVE  Sound(work', ir'.regs)
<1>1. PICK v : v = Values[1]
  OBVIOUS
<1>2. /\ phase = "compile"
      /\ ReturnFrom(Emit(ir, Instr("field", "ptr", Values)), Latest(Emit(ir, Instr("field", "ptr", Values))))
      /\ nodes[Current].op \in {".", "->"} /\ Len(Values) = 1
  BY DEF CompileMember, At, Compiling, Op
<1>3. 1 \in 1..Len(Values) /\ Values = <<v>> /\ v \in 0..Len(ir.regs)
  BY <1>1, <1>2, OneValue
<1>4. PICK i : i = Instr("field", "ptr", <<v>>)
  OBVIOUS
<1>5. i \in Instruction /\ i.op # "phi"
  <2>1. "field" \in OpCode /\ "ptr" \in LlvmType
    BY DEF OpCode, LlvmType
  <2> QED BY <1>2, <1>3, <1>4, <2>1, OperandInstr DEF Ready
<1>6. /\ TypeOf(Current) = IntType
      /\ nodes[Current].op = "->" => Kind(CastType(Current, 1)) = "pointer"
  BY <1>2, CurrentSound DEF Promise
<1>7. Width(ir.regs, v) = "ptr"
  <2>1. CASE nodes[Current].op = "."
    <3>1. TakesLvalue(Current, 1)
      BY <2>1 DEF TakesLvalue
    <3> QED BY <1>1, <1>2, <1>3, <3>1, ValuesSound
  <2>2. CASE nodes[Current].op = "->"
    <3>1. ~TakesLvalue(Current, 1) /\ ~Decides(Current, 1)
      BY <2>2 DEF TakesLvalue, Decides, Logical
    <3>2. CastType(Current, 1) # VoidType
      BY <1>6, <2>2, BaseTypes
    <3>3. CastType(Current, 1) \in Type /\ Width(ir.regs, v) = ToLlvm(CastType(Current, 1))
      BY <1>1, <1>2, <1>3, <3>1, <3>2, ValuesSound
    <3> QED BY <1>6, <2>2, <3>3, LlvmByKind
  <2> QED BY <1>2, <2>1, <2>2
<1>8. Typed(ir.regs, i) /\ i.type = "ptr"
  <2>1. PICK regs : regs = ir.regs /\ Len(regs) \in Nat
    BY <1>2, CurrentSound
  <2>2. v \in 0..Len(regs) /\ Width(regs, v) = "ptr"
    BY <1>3, <1>7, <2>1
  <2>3. Typed(regs, i)
    BY <1>4, <2>1, <2>2, OneArgumentTyped
  <2> QED BY <1>4, <2>1, <2>3 DEF Instr
<1>9. ReturnFrom(Emit(ir, i), Latest(Emit(ir, i)))
  BY <1>2, <1>3, <1>4
<1> QED BY <1>2, <1>5, <1>6, <1>8, <1>9, NamedTypes, EmitsOneSound

LEMMA ApplySound ==
  ASSUME Ready, CompileApply
  PROVE  Sound(work', ir'.regs)
<1>1. PICK v : v = Values[1]
  OBVIOUS
<1>2. PICK t : t = ToLlvm(CharType) /\ t = "i8"
  BY NamedTypes, BaseTypes, LlvmByKind
<1>3. /\ phase = "compile"
      /\ Return(Emit(ir, Instr("apply", t, Values)), Latest(Emit(ir, Instr("apply", t, Values))))
      /\ nodes[Current].op = "apply" /\ Len(Values) = 1 /\ ~work[1].lvalue
  BY <1>2 DEF CompileApply, At, Compiling, Op, HasLvalue
<1>4. 1 \in 1..Len(Values) /\ Values = <<v>> /\ v \in 0..Len(ir.regs)
  BY <1>1, <1>3, OneValue
<1>5. PICK i : i = Instr("apply", t, <<v>>)
  OBVIOUS
<1>6. i \in Instruction /\ i.op # "phi"
  <2>1. "apply" \in OpCode /\ t \in LlvmType
    BY <1>2 DEF OpCode, LlvmType, LlvmInt
  <2> QED BY <1>3, <1>4, <1>5, <2>1, OperandInstr DEF Ready
<1>7. TypeOf(Current) = CharType /\ CastType(Current, 1) = CharType
  BY <1>3, CurrentSound DEF Promise
<1>8. Width(ir.regs, v) = "i8"
  <2>1. ~TakesLvalue(Current, 1) /\ ~Decides(Current, 1)
    BY <1>3 DEF TakesLvalue, Decides, Logical
  <2> QED BY <1>1, <1>2, <1>3, <1>4, <1>7, <2>1, ValuesSound, NamedTypes
<1>9. Typed(ir.regs, i) /\ i.type = t
  <2>1. PICK regs : regs = ir.regs /\ Len(regs) \in Nat
    BY <1>3, CurrentSound
  <2>2. v \in 0..Len(regs) /\ Width(regs, v) = "i8"
    BY <1>4, <1>8, <2>1
  <2>3. Typed(regs, i)
    BY <1>5, <2>1, <2>2, OneArgumentTyped
  <2> QED BY <1>5, <2>1, <2>3 DEF Instr
<1>10. IsResultOf(work[1], i.type)
  BY <1>2, <1>3, <1>7, <1>9 DEF IsResultOf, Current
<1>11. Return(Emit(ir, i), Latest(Emit(ir, i)))
  BY <1>3, <1>4, <1>5
<1> QED BY <1>3, <1>6, <1>9, <1>10, <1>11, EmitsOneSound

\* What is behind a pointer is at its value.
LEMMA DereferenceSound ==
  ASSUME Ready, CompileDereference
  PROVE  Sound(work', ir'.regs)
<1>1. PICK v : v = Values[1]
  OBVIOUS
<1>2. /\ phase = "compile" /\ ReturnFrom(ir, v)
      /\ nodes[Current].op = "dereference" /\ Len(Values) = 1
  BY <1>1 DEF CompileDereference, At, Compiling, Op
<1>3. 1 \in 1..Len(Values) /\ v \in 0..Len(ir.regs)
  BY <1>1, <1>2, OneValue
<1>4. Kind(CastType(Current, 1)) = "pointer"
  BY <1>2, CurrentSound DEF Promise
<1>5. Width(ir.regs, v) = "ptr"
  <2>1. ~TakesLvalue(Current, 1) /\ ~Decides(Current, 1)
    BY <1>2 DEF TakesLvalue, Decides, Logical
  <2>2. CastType(Current, 1) # VoidType
    BY <1>4, BaseTypes
  <2>3. CastType(Current, 1) \in Type /\ Width(ir.regs, v) = ToLlvm(CastType(Current, 1))
    BY <1>1, <1>2, <1>3, <2>1, <2>2, ValuesSound
  <2> QED BY <1>4, <2>3, LlvmByKind
<1>6. PICK g : g = ir /\ IrOK(g) /\ CodeTyped(g.regs) /\ Longer(ir.regs, g.regs) /\ v \in 0..Latest(g)
  BY <1>2, <1>3, CurrentSound
<1>7. ReturnFrom(g, v) /\ Width(g.regs, v) = "ptr"
  BY <1>2, <1>5, <1>6
<1> QED BY <1>2, <1>6, <1>7, ReturnFromSound

LEMMA ReferenceSound ==
  ASSUME Ready, CompileReference
  PROVE  Sound(work', ir'.regs)
<1>1. PICK v : v = Values[1]
  OBVIOUS
<1>2. /\ phase = "compile" /\ Return(ir, v) /\ ~work[1].lvalue
      /\ nodes[Current].op = "reference" /\ Len(Values) = 1
  BY <1>1 DEF CompileReference, At, Compiling, Op, HasLvalue
<1>3. 1 \in 1..Len(Values) /\ v \in 0..Len(ir.regs)
  BY <1>1, <1>2, OneValue
<1>4. Kind(TypeOf(Current)) = "pointer" /\ TypeOf(Current) \in Type
  BY <1>2, CurrentSound DEF Promise
<1>5. Width(ir.regs, v) = "ptr"
  <2>1. TakesLvalue(Current, 1)
    BY <1>2 DEF TakesLvalue
  <2> QED BY <1>1, <1>2, <1>3, <2>1, ValuesSound
<1>6. PICK g : g = ir /\ IrOK(g) /\ CodeTyped(g.regs) /\ Longer(ir.regs, g.regs) /\ v \in 0..Latest(g)
  BY <1>2, <1>3, CurrentSound
<1>7. IsResultOf(work[1], Width(g.regs, v))
  BY <1>2, <1>4, <1>5, <1>6, LlvmByKind DEF IsResultOf, Current
<1>8. Return(g, v)
  BY <1>2, <1>6
<1> QED BY <1>2, <1>6, <1>7, <1>8, ReturnSound
LEMMA TwoArgumentsTyped ==
  ASSUME NEW regs, Len(regs) \in Nat, NEW l \in 0..Len(regs), NEW r \in 0..Len(regs),
         NEW i, i.args = <<l, r>>, NEW a, a = Width(regs, l), NEW b, b = Width(regs, r)
  PROVE  /\ i.op \in {"mul", "add", "sub"} /\ a \in LlvmInt /\ b \in LlvmInt => Typed(regs, i)
         /\ i.op \in Comparison /\ a = b /\ a \in Scalar => Typed(regs, i)
         /\ i.op = "phi" /\ a = b => Typed(regs, i)
         /\ i.op \in {"shift", "shift back"} /\ a = "ptr" /\ b \in LlvmInt /\ IsSized(i.of) => Typed(regs, i)
         /\ i.op = "difference" /\ a = "ptr" /\ b = "ptr" /\ IsSized(i.of) => Typed(regs, i)
         /\ i.op = "store" /\ a = "ptr" /\ b = i.of => Typed(regs, i)
<1>1. /\ i.args \in Seq(0..Len(regs)) /\ Len(i.args) = 2 /\ DOMAIN i.args = {1, 2}
      /\ i.args[1] = l /\ i.args[2] = r
  <2>1. PICK S : S = 0..Len(regs)
    OBVIOUS
  <2>2. <<l, r>> \in Seq(S) /\ Len(<<l, r>>) = 2 /\ <<l, r>>[1] = l /\ <<l, r>>[2] = r
    BY <2>1
  <2>3. DOMAIN <<l, r>> = {1, 2}
    OBVIOUS
  <2> QED BY <2>1, <2>2, <2>3
<1>2. Len(i.args) >= Arguments(i.op)
  <2>1. Arguments(i.op) = 0 \/ Arguments(i.op) = 1 \/ Arguments(i.op) = 2
    BY DEF Arguments
  <2> QED BY <1>1, <2>1
<1>3. AreInts(regs, i.args) <=> a \in LlvmInt /\ b \in LlvmInt
  BY <1>1 DEF AreInts
<1>4. IsWellTyped(regs, i) => Typed(regs, i)
  BY <1>1, <1>2 DEF Typed
<1>5. i.op \in {"mul", "add", "sub"} /\ a \in LlvmInt /\ b \in LlvmInt => IsWellTyped(regs, i)
  BY <1>3 DEF IsWellTyped, Comparison
<1>6. i.op \in Comparison /\ a = b /\ a \in Scalar => IsWellTyped(regs, i)
  BY <1>1 DEF IsWellTyped, Comparison, Scalar
<1>7. i.op = "phi" /\ a = b => IsWellTyped(regs, i)
  BY <1>1 DEF IsWellTyped, Comparison
<1>8. i.op \in {"shift", "shift back"} /\ a = "ptr" /\ b \in LlvmInt /\ IsSized(i.of) => IsWellTyped(regs, i)
  BY <1>1 DEF IsWellTyped, Comparison
<1>9. i.op = "difference" /\ a = "ptr" /\ b = "ptr" /\ IsSized(i.of) => IsWellTyped(regs, i)
  BY <1>1 DEF IsWellTyped, Comparison
<1>10. i.op = "store" /\ a = "ptr" /\ b = i.of => IsWellTyped(regs, i)
  BY <1>1 DEF IsWellTyped, Comparison
<1> QED BY <1>4, <1>5, <1>6, <1>7, <1>8, <1>9, <1>10

\* What an operator decides upon becomes an i1.
LEMMA DecidedTyped ==
  ASSUME Ready, phase = "compile", NEW k \in 1..Len(Values),
         Width(ir.regs, Values[k]) \in Scalar,
         NEW g, g = ToBool(ir, Values[k]), NEW v, v = Converted(ir, g, Values[k])
  PROVE  /\ IrOK(g) /\ CodeTyped(g.regs) /\ Longer(ir.regs, g.regs)
         /\ v \in 0..Len(g.regs) /\ v \in Nat /\ Width(g.regs, v) = "i1" /\ Len(g.regs) \in Nat
<1>1. IrOK(ir) /\ CodeTyped(ir.regs) /\ Longer(ir.regs, ir.regs) /\ Len(ir.regs) \in Nat
  BY CurrentSound
<1>2. PICK r \in 0..Len(ir.regs) : r = Values[k] /\ r \in Nat
  BY ValuesSound
<1>3. r # NoValue
  BY <1>2 DEF Width, Scalar, LlvmInt
<1>4. IrOK(g) /\ v \in 0..Len(g.regs) /\ v \in Nat /\ Len(g.regs) \in Nat
  <2>1. IrOK(g) /\ v \in 0..Latest(g) /\ v \in Nat
    BY Decided DEF Ready
  <2> QED BY <2>1, Sizes DEF Latest
<1>5. CASE Width(ir.regs, r) = "i1"
  <2>1. g = ir
    BY <1>2, <1>3, <1>5 DEF ToBool, Width
  <2> QED BY <1>1, <1>2, <1>4, <1>5, <2>1 DEF Converted
<1>6. CASE Width(ir.regs, r) # "i1"
  <2>1. PICK i : i = Instr("nonzero", "i1", <<r>>) /\ i.type = "i1"
    BY <1>1, OneArgument
  <2>2. g = Emit(ir, i)
    BY <1>2, <1>3, <1>6, <2>1 DEF ToBool, Width, Scalar, LlvmInt
  <2>3. i \in Instruction
    <3>1. PICK a \in Seq(Nat) : a = <<r>>
      <4>1. <<r>> \in Seq(Nat)
        BY <1>2
      <4> QED BY <4>1
    <3>2. "nonzero" \in OpCode /\ "i1" \in LlvmType
      BY DEF OpCode, LlvmType, LlvmInt
    <3> QED BY <2>1, <3>1, <3>2, InstrIs
  <2>4. Typed(ir.regs, i)
    <3>1. PICK regs : regs = ir.regs /\ Len(regs) \in Nat
      BY <1>1
    <3>2. r \in 0..Len(regs)
      BY <3>1
    <3>3. Typed(regs, i)
      BY <2>1, <3>1, <3>2, OneArgumentTyped
    <3> QED BY <3>1, <3>3
  <2>5. /\ CodeTyped(g.regs) /\ Longer(ir.regs, g.regs) /\ Latest(ir) \in Nat
        /\ Latest(g) = Latest(ir) + 1 /\ Width(g.regs, Latest(g)) = "i1"
    BY <1>1, <2>1, <2>2, <2>3, <2>4, EmitTyped
  <2>6. g # ir
    BY <2>5
  <2>7. v = Latest(g)
    BY <2>6 DEF Converted
  <2> QED BY <1>4, <2>5, <2>7
<1> QED BY <1>5, <1>6

LEMMA NotSound ==
  ASSUME Ready, CompileNot
  PROVE  Sound(work', ir'.regs)
<1>1. PICK g : g = ToBool(ir, Values[1])
  OBVIOUS
<1>2. PICK v : v = Converted(ir, g, Values[1])
  OBVIOUS
<1>3. PICK i : i = Instr("is zero", "i32", <<v>>)
  OBVIOUS
<1>4. /\ phase = "compile" /\ Return(Emit(g, i), Latest(Emit(g, i)))
      /\ nodes[Current].op = "not" /\ Len(Values) = 1 /\ ~work[1].lvalue
  BY <1>1, <1>2, <1>3 DEF CompileNot, At, Compiling, Op, HasLvalue
<1>5. 1 \in 1..Len(Values)
  BY <1>4, OneValue
<1>6. Width(ir.regs, Values[1]) \in Scalar
  <2>1. ~TakesLvalue(Current, 1) /\ Decides(Current, 1)
    BY <1>4 DEF TakesLvalue, Decides
  <2> QED BY <1>4, <1>5, <2>1, ValuesSound
<1>7. /\ IrOK(g) /\ CodeTyped(g.regs) /\ Longer(ir.regs, g.regs)
      /\ v \in 0..Len(g.regs) /\ v \in Nat /\ Width(g.regs, v) = "i1" /\ Len(g.regs) \in Nat
  BY <1>1, <1>2, <1>4, <1>5, <1>6, DecidedTyped
<1>8. i \in Instruction /\ i.op # "phi"
  <2>1. PICK a \in Seq(Nat) : a = <<v>>
    <3>1. <<v>> \in Seq(Nat)
      BY <1>7
    <3> QED BY <3>1
  <2>2. "is zero" \in OpCode /\ "i32" \in LlvmType
    BY DEF OpCode, LlvmType, LlvmInt
  <2>3. Instr("is zero", "i32", a) \in Instruction /\ Instr("is zero", "i32", a).op = "is zero"
    BY <2>2, InstrIs
  <2> QED BY <1>3, <2>1, <2>3
<1>9. Typed(g.regs, i) /\ i.type = "i32"
  <2>1. PICK regs : regs = g.regs
    OBVIOUS
  <2>2. Typed(regs, i)
    BY <1>3, <1>7, <2>1, OneArgumentTyped
  <2> QED BY <1>3, <2>1, <2>2 DEF Instr
<1>10. IsResultOf(work[1], i.type)
  <2>1. TypeOf(Current) = IntType
    BY <1>4, CurrentSound DEF Promise
  <2>2. ToLlvm(IntType) = "i32"
    BY NamedTypes, BaseTypes, LlvmByKind
  <2> QED BY <1>4, <1>9, <2>1, <2>2 DEF IsResultOf, Current
<1> QED BY <1>4, <1>7, <1>8, <1>9, <1>10, EmitsSound

\* The operand of sizeof is no void, and a null pointer constant has the size of a pointer.
LEMMA SizeofSound ==
  ASSUME Ready, CompileSizeof
  PROVE  Sound(work', ir'.regs)
<1>1. PICK n : n = nodes[Current].kids[1]
  OBVIOUS
<1>2. PICK x : x = IF HasStringLength(n) THEN "string" ELSE ToLlvm(nodes[n].type)
  OBVIOUS
<1>3. PICK i : i = Of(Instr("size", "i32", <<>>), x)
  OBVIOUS
<1>4. /\ phase = "compile" /\ Return(Emit(ir, i), Latest(Emit(ir, i)))
      /\ nodes[Current].op = "sizeof" /\ ~work[1].lvalue
  BY <1>1, <1>2, <1>3 DEF CompileSizeof, At, Compiling, Op, HasLvalue
<1>5. Current \in 1..Len(nodes) /\ Fits(nodes[Current], Current) /\ NodesInv /\ ~LoadsVoid
  BY <1>4, CurrentSound DEF Ready, NodesInv, Ordinary
<1>6. n \in 1..Len(nodes) /\ nodes[Current].kids = <<n>>
  <2>1. Len(nodes[Current].kids) = 1 /\ nodes[Current].kids \in Seq(Nat)
    <3>1. nodes[Current] \in Node
      BY <1>5 DEF NodesInv
    <3>2. Len(nodes[Current].kids) = 1
      BY <1>4, <1>5, Arities DEF Fits
    <3> QED BY <3>1, <3>2 DEF Node
  <2>2. n \in 1..(Current - 1)
    BY <1>1, <1>5, <2>1 DEF Fits
  <2>3. nodes[Current].kids = <<n>>
    BY <1>1, <2>1
  <2> QED BY <1>5, <2>2, <2>3
<1>7. TypeOf(n) # VoidType
  BY <1>4, <1>5, <1>6 DEF LoadsVoid
<1>8. TypeOf(n) \in Type
  <2>1. nodes[n] \in Node
    BY <1>5, <1>6 DEF NodesInv
  <2> QED BY <2>1 DEF Node, TypeOf
<1>9. x \in LlvmType \cup Constant /\ IsSized(x)
  <2>1. CASE HasStringLength(n)
    BY <1>2, <2>1 DEF Constant, IsSized
  <2>2. CASE ~HasStringLength(n)
    <3>1. x = ToLlvm(TypeOf(n))
      BY <1>2, <2>2 DEF TypeOf
    <3>2. x \in LlvmType /\ x # "void" /\ x # "nullptr"
      BY <1>7, <1>8, <3>1, LlvmTypes, LlvmOf
    <3> QED BY <3>2 DEF IsSized
  <2> QED BY <2>1, <2>2
<1>10. i \in Instruction /\ i.op # "phi"
  <2>1. "size" \in OpCode /\ "i32" \in LlvmType
    BY DEF OpCode, LlvmType, LlvmInt
  <2>2. PICK a \in Seq(Nat) : a = <<>>
    <3>1. <<>> \in Seq(Nat)
      OBVIOUS
    <3> QED BY <3>1
  <2>3. Of(Instr("size", "i32", a), x) \in Instruction /\ Of(Instr("size", "i32", a), x).op = "size"
    BY <1>9, <2>1, InstrIs
  <2> QED BY <1>3, <2>2, <2>3
<1>11. Typed(ir.regs, i) /\ i.type = "i32"
  <2>1. PICK regs : regs = ir.regs /\ Len(regs) \in Nat
    BY <1>4, CurrentSound
  <2>2. PICK op \in {"address", "const", "null", "call", "string", "size"} : op = "size"
    OBVIOUS
  <2>3. Typed(regs, i) /\ i.type = "i32"
    BY <1>3, <1>9, <2>1, <2>2, NoArgumentTyped
  <2> QED BY <2>1, <2>3
<1>12. IsResultOf(work[1], i.type)
  <2>1. TypeOf(Current) = IntType
    BY <1>4, CurrentSound DEF Promise
  <2>2. ToLlvm(IntType) = "i32"
    BY NamedTypes, BaseTypes, LlvmByKind
  <2> QED BY <1>4, <1>11, <2>1, <2>2 DEF IsResultOf, Current
<1> QED BY <1>4, <1>10, <1>11, <1>12, EmitsOneSound
LEMMA TwoValuesSound ==
  ASSUME Ready, phase = "compile", Len(Values) = 2, NEW l, l = Values[1], NEW r, r = Values[2]
  PROVE  /\ 1 \in 1..Len(Values) /\ 2 \in 1..Len(Values) /\ Values = <<l, r>>
         /\ l \in 0..Len(ir.regs) /\ l \in Nat /\ r \in 0..Len(ir.regs) /\ r \in Nat
         /\ CastType(Current, 1) \in Type /\ CastType(Current, 2) \in Type
         /\ nodes[Current].op \notin Branching \cup {"not", "="} =>
              \A k \in {1, 2} : /\ k \in 1..Len(Values)
                                /\ ~TakesLvalue(Current, k) /\ ~Decides(Current, k)
                                     /\ CastType(Current, k) # VoidType =>
                                     Width(ir.regs, Values[k]) = ToLlvm(CastType(Current, k))
<1>1. 1 \in 1..Len(Values) /\ 2 \in 1..Len(Values)
  <2>1. Len(Values) = 2
    OBVIOUS
  <2> QED BY <2>1
<1>2. Values \in Seq(Nat)
  BY CurrentTyped DEF Ready
<1>3. Values = <<l, r>>
  BY <1>2
<1>4. \A k \in 1..Len(Values) :
        /\ Values[k] \in 0..Len(ir.regs) /\ Values[k] \in Nat /\ CastType(Current, k) \in Type
        /\ ~TakesLvalue(Current, k) /\ ~Decides(Current, k) /\ CastType(Current, k) # VoidType =>
             Width(ir.regs, Values[k]) = ToLlvm(CastType(Current, k))
  BY ValuesSound
<1> QED BY <1>1, <1>3, <1>4

\* The widths of the operands of an operator that only computes.
LEMMA WidthsSound ==
  ASSUME Ready, phase = "compile", Len(Values) = 2,
         nodes[Current].op \in {"*", "+", "-", "index"} \cup Comparison,
         NEW k \in {1, 2}, NEW w, w = Width(ir.regs, Values[k]), NEW t, t = CastType(Current, k)
  PROVE  /\ IsNumber(t) => w \in LlvmInt
         /\ IsArrow(t) => w = "ptr"
         /\ IsScalar(t) => w \in Scalar /\ w = ToLlvm(t)
         /\ t = IntType => w = "i32"
<1>1. t \in Type /\ k \in 1..Len(Values)
  BY TwoValuesSound
<1>2. ~TakesLvalue(Current, k) /\ ~Decides(Current, k)
  BY DEF TakesLvalue, Decides, Logical, Comparison
<1>3. t # VoidType => w = ToLlvm(t)
  BY <1>1, <1>2, ValuesSound
<1>4. t = VoidType <=> Kind(t) = "void"
  BY <1>1, ByKind
<1>5. IsNumber(t) => t # VoidType
  BY <1>4 DEF IsNumber
<1>6. IsArrow(t) => t # VoidType
  BY <1>4 DEF IsArrow
<1>7. IsScalar(t) => t # VoidType
  BY <1>4 DEF IsScalar
<1>8. IsArrow(t) => ToLlvm(t) = "ptr"
  BY <1>1, LlvmByKind DEF IsArrow
<1>9. (IsNumber(t) => ToLlvm(t) \in LlvmInt) /\ (IsScalar(t) => ToLlvm(t) \in Scalar)
  BY <1>1, LlvmOf
<1>10. t = IntType => ToLlvm(t) = "i32" /\ t # VoidType
  BY <1>1, <1>4, BaseTypes, LlvmByKind
<1> QED BY <1>3, <1>5, <1>6, <1>7, <1>8, <1>9, <1>10

\* The elements of an array have a size.
LEMMA ArrowsShift ==
  ASSUME NEW t \in Type, IsArrow(t)
  PROVE  IsSized(Pointed(t)) /\ IsPointer(t) /\ ~IsNumber(t) /\ t # NullptrType
<1>1. /\ Kind(t) = "pointer" /\ Kind(Inner(t)) \notin {"void", "nullptr"}
      /\ t = NullptrType <=> Kind(t) = "nullptr"
  BY ByKind DEF IsArrow
<1> QED BY <1>1 DEF IsSized, Pointed, IsPointer, IsNumber

LEMMA ShiftTyped ==
  ASSUME NEW regs, Len(regs) \in Nat, NEW l \in Nat, NEW r \in Nat,
         l \in 0..Len(regs), r \in 0..Len(regs), NEW t \in Type, IsArrow(t),
         Width(regs, l) = "ptr", Width(regs, r) \in LlvmInt
  PROVE  \A op \in {"shift", "shift back"} :
           /\ Shift(op, l, r, t) \in Instruction /\ Shift(op, l, r, t).op # "phi"
           /\ Typed(regs, Shift(op, l, r, t)) /\ Shift(op, l, r, t).type = "ptr"
<1> TAKE op \in {"shift", "shift back"}
<1>1. PICK i : i = Shift(op, l, r, t)
  OBVIOUS
<1>2. i.args = <<l, r>> /\ i.op = op /\ i.of = Pointed(t) /\ i.type = "ptr"
  BY <1>1 DEF Shift, Of, Instr
<1>3. IsSized(i.of)
  BY <1>2, ArrowsShift
<1>4. Typed(regs, i)
  <2>1. i.op \in {"shift", "shift back"}
    BY <1>2
  <2> QED BY <1>2, <1>3, <2>1, TwoArgumentsTyped
<1>5. i \in Instruction /\ i.op # "phi"
  BY <1>1, ShiftIs
<1> QED BY <1>1, <1>2, <1>4, <1>5

LEMMA IndexSound ==
  ASSUME Ready, CompileIndex
  PROVE  Sound(work', ir'.regs)
<1>1. PICK l, r : l = Values[1] /\ r = Values[2]
  OBVIOUS
<1>2. PICK t : t = nodes[Operand(Current, 1)].type
  OBVIOUS
<1>3. PICK i : i = Shift("shift", l, r, t)
  OBVIOUS
<1>4. /\ phase = "compile" /\ ReturnFrom(Emit(ir, i), Latest(Emit(ir, i)))
      /\ nodes[Current].op = "index" /\ Len(Values) = 2
  BY <1>1, <1>2, <1>3 DEF CompileIndex, At, Compiling, Op
<1>5. /\ TypeOf(Current) # VoidType /\ t = CastType(Current, 1) /\ IsArrow(t)
      /\ CastType(Current, 2) = IntType
  <2>1. t = OperandType(Current, 1)
    BY <1>2 DEF OperandType, TypeOf
  <2> QED BY <1>4, <2>1, CurrentSound DEF Promise
<1>6. l \in 0..Len(ir.regs) /\ r \in 0..Len(ir.regs) /\ t \in Type /\ l \in Nat /\ r \in Nat
  BY <1>1, <1>4, <1>5, TwoValuesSound
<1>7. Width(ir.regs, l) = "ptr" /\ Width(ir.regs, r) \in LlvmInt
  <2>1. Width(ir.regs, l) = "ptr"
    <3>1. PICK k \in {1, 2} : k = 1
      OBVIOUS
    <3> QED BY <1>1, <1>4, <1>5, <3>1, WidthsSound
  <2>2. Width(ir.regs, r) = "i32"
    <3>1. PICK k \in {1, 2} : k = 2
      OBVIOUS
    <3> QED BY <1>1, <1>4, <1>5, <3>1, WidthsSound
  <2> QED BY <2>1, <2>2 DEF LlvmInt
<1>8. i \in Instruction /\ i.op # "phi" /\ Typed(ir.regs, i) /\ i.type = "ptr"
  <2>1. PICK regs : regs = ir.regs /\ Len(regs) \in Nat
    BY <1>4, CurrentSound
  <2>2. l \in 0..Len(regs) /\ r \in 0..Len(regs) /\ Width(regs, l) = "ptr" /\ Width(regs, r) \in LlvmInt
    BY <1>6, <1>7, <2>1
  <2>3. i \in Instruction /\ i.op # "phi" /\ Typed(regs, i) /\ i.type = "ptr"
    BY <1>3, <1>5, <1>6, <2>1, <2>2, ShiftTyped
  <2> QED BY <2>1, <2>3
<1> QED BY <1>4, <1>5, <1>8, EmitsOneSound

\* The value that is stored has the type of the object.
LEMMA AssignSound ==
  ASSUME Ready, CompileAssign
  PROVE  Sound(work', ir'.regs)
<1>1. PICK l, r : l = Values[1] /\ r = Values[2]
  OBVIOUS
<1>2. PICK t : t = ToLlvm(nodes[Current].type)
  OBVIOUS
<1>3. PICK i : i = Of(Instr("store", "void", Values), t)
  OBVIOUS
<1>4. PICK g : g = Emit(ir, i)
  OBVIOUS
<1>5. /\ phase = "compile" /\ Return(g, r) /\ ~work[1].lvalue
      /\ nodes[Current].op = "=" /\ Len(Values) = 2
  BY <1>1, <1>2, <1>3, <1>4 DEF CompileAssign, At, Compiling, Op, HasLvalue
<1>6. /\ 1 \in 1..Len(Values) /\ 2 \in 1..Len(Values) /\ Values = <<l, r>>
      /\ l \in 0..Len(ir.regs) /\ r \in 0..Len(ir.regs)
  BY <1>1, <1>5, TwoValuesSound
<1>7. CastType(Current, 2) # VoidType /\ ToLlvm(CastType(Current, 2)) = t
  BY <1>2, <1>5, CurrentSound DEF Promise, TypeOf
<1>8. Width(ir.regs, l) = "ptr"
  <2>1. TakesLvalue(Current, 1)
    BY <1>5 DEF TakesLvalue
  <2> QED BY <1>1, <1>5, <1>6, <2>1, ValuesSound
<1>9. Width(ir.regs, r) = t
  <2>1. ~TakesLvalue(Current, 2) /\ ~Decides(Current, 2)
    BY <1>5 DEF TakesLvalue, Decides, Logical
  <2> QED BY <1>1, <1>5, <1>6, <1>7, <2>1, ValuesSound
<1>10. Typed(ir.regs, i)
  <2>1. PICK regs : regs = ir.regs /\ Len(regs) \in Nat
    BY <1>5, CurrentSound
  <2>2. i.args = <<l, r>> /\ i.op = "store" /\ i.of = t
    BY <1>3, <1>6 DEF Of, Instr
  <2>3. Typed(regs, i)
    BY <1>6, <1>8, <1>9, <2>1, <2>2, TwoArgumentsTyped
  <2> QED BY <2>1, <2>3
<1>11. i \in Instruction
  <2>1. t \in LlvmType
    BY <1>2, <1>5, CurrentTyped DEF Ready
  <2>2. "store" \in OpCode /\ "void" \in LlvmType
    BY DEF OpCode, LlvmType
  <2> QED BY <1>3, <1>5, <2>1, <2>2, OperandInstr DEF Ready
<1>12. IrOK(ir) /\ CodeTyped(ir.regs)
  BY <1>5, CurrentSound
<1>13. /\ CodeTyped(g.regs) /\ Longer(ir.regs, g.regs) /\ Latest(g) = Latest(ir) + 1
       /\ Latest(ir) \in Nat /\ Latest(ir) = Len(ir.regs)
  BY <1>4, <1>10, <1>11, <1>12, EmitTyped DEF Latest
<1>14. IrOK(g)
  <2>1. i.op # "phi"
    BY <1>3 DEF Of, Instr
  <2> QED BY <1>4, <1>11, <1>12, <2>1, EmitExtends DEF Extends
<1>15. r \in 0..Latest(g)
  BY <1>6, <1>13
<1>16. Width(g.regs, r) = t
  BY <1>6, <1>9, <1>13, LongerWidth
<1>17. IsResultOf(work[1], Width(g.regs, r))
  BY <1>2, <1>5, <1>16 DEF IsResultOf, TypeOf, Current
<1> QED BY <1>5, <1>13, <1>14, <1>15, <1>17, ReturnSound
\* An instruction that computes the value of the call.
IsCode(i) ==
  i \in Instruction /\ i.op # "phi" /\ Typed(ir.regs, i) /\ IsResultOf(work[1], i.type)

LEMMA ArithmeticSound ==
  ASSUME Ready, phase = "compile", Len(Values) = 2, ~work[1].lvalue,
         nodes[Current].op \in {"*", "+", "-"}, TypeOf(Current) = IntType,
         IsNumber(CastType(Current, 1)), IsNumber(CastType(Current, 2)),
         NEW l, l = Values[1], NEW r, r = Values[2]
  PROVE  \A op \in {"mul", "add", "sub"} : IsCode(Instr(op, "i32", <<l, r>>))
<1> TAKE op \in {"mul", "add", "sub"}
<1>1. PICK i : i = Instr(op, "i32", <<l, r>>)
  OBVIOUS
<1>2. i.args = <<l, r>> /\ i.op = op /\ i.type = "i32"
  BY <1>1 DEF Instr
<1>3. l \in 0..Len(ir.regs) /\ l \in Nat /\ r \in 0..Len(ir.regs) /\ r \in Nat
  BY TwoValuesSound
<1>4. Width(ir.regs, l) \in LlvmInt /\ Width(ir.regs, r) \in LlvmInt
  <2>1. PICK k, m \in {1, 2} : k = 1 /\ m = 2
    OBVIOUS
  <2> QED BY <2>1, WidthsSound
<1>5. Typed(ir.regs, i)
  <2>1. PICK regs : regs = ir.regs /\ Len(regs) \in Nat
    BY CurrentSound
  <2>2. i.op \in {"mul", "add", "sub"}
    BY <1>2
  <2>3. Typed(regs, i)
    BY <1>2, <1>3, <1>4, <2>1, <2>2, TwoArgumentsTyped
  <2> QED BY <2>1, <2>3
<1>6. i \in Instruction /\ i.op # "phi"
  <2>1. op \in OpCode /\ op # "phi" /\ "i32" \in LlvmType
    BY DEF OpCode, LlvmType, LlvmInt
  <2> QED BY <1>1, <1>3, <2>1, TwoArguments
<1>7. IsResultOf(work[1], i.type)
  <2>1. ToLlvm(IntType) = "i32"
    BY NamedTypes, BaseTypes, LlvmByKind
  <2> QED BY <1>2, <2>1 DEF IsResultOf, Current
<1> QED BY <1>1, <1>5, <1>6, <1>7 DEF IsCode

\* An array and a number of elements.
LEMMA ArraySound ==
  ASSUME Ready, phase = "compile", Len(Values) = 2, ~work[1].lvalue,
         nodes[Current].op \in {"+", "-"},
         NEW a \in {1, 2}, NEW b \in {1, 2},
         NEW t, t = CastType(Current, a), TypeOf(Current) = t, IsArrow(t), IsNumber(CastType(Current, b))
  PROVE  \A op \in {"shift", "shift back"} : IsCode(Shift(op, Values[a], Values[b], t))
<1>1. PICK l : l = Values[a]
  OBVIOUS
<1>2. PICK r : r = Values[b]
  OBVIOUS
<1>3. /\ l \in 0..Len(ir.regs) /\ l \in Nat /\ r \in 0..Len(ir.regs) /\ r \in Nat
      /\ CastType(Current, a) \in Type
  BY <1>1, <1>2, TwoValuesSound
<1>4. t \in Type
  BY <1>3
<1>5. Width(ir.regs, l) = "ptr"
  BY <1>1, WidthsSound
<1>6. Width(ir.regs, r) \in LlvmInt
  BY <1>2, WidthsSound
<1>7. PICK regs : regs = ir.regs /\ Len(regs) \in Nat
  BY CurrentSound
<1>8. \A op \in {"shift", "shift back"} :
        /\ Shift(op, l, r, t) \in Instruction /\ Shift(op, l, r, t).op # "phi"
        /\ Typed(regs, Shift(op, l, r, t)) /\ Shift(op, l, r, t).type = "ptr"
  <2>1. l \in 0..Len(regs) /\ r \in 0..Len(regs) /\ Width(regs, l) = "ptr" /\ Width(regs, r) \in LlvmInt
    BY <1>3, <1>5, <1>6, <1>7
  <2>2. l \in Nat /\ r \in Nat /\ Len(regs) \in Nat
    BY <1>3, <1>7
  <2>3. IsArrow(t)
    OBVIOUS
  <2> QED BY ONLY <1>4, <2>1, <2>2, <2>3, ShiftTyped
<1>9. IsResultOf(work[1], "ptr")
  <2>1. ToLlvm(t) = "ptr"
    BY <1>4, LlvmByKind DEF IsArrow
  <2> QED BY <2>1 DEF IsResultOf, Current
<1> QED BY <1>1, <1>2, <1>7, <1>8, <1>9 DEF IsCode

LEMMA DifferenceSound ==
  ASSUME Ready, phase = "compile", Len(Values) = 2, ~work[1].lvalue,
         nodes[Current].op = "-", TypeOf(Current) = IntType,
         NEW s, s = CastType(Current, 1), IsArrow(s), IsArrow(CastType(Current, 2)),
         NEW l, l = Values[1], NEW r, r = Values[2]
  PROVE  /\ IsCode(Of(Instr("difference", "i32", <<l, r>>), Pointed(s)))
         /\ Width(ir.regs, l) = "ptr" /\ Width(ir.regs, r) = "ptr" /\ s # NullptrType
<1>1. /\ l \in 0..Len(ir.regs) /\ l \in Nat /\ r \in 0..Len(ir.regs) /\ r \in Nat
      /\ CastType(Current, 1) \in Type
  BY TwoValuesSound
<1>2. PICK x \in TypeKind : x = Pointed(s)
  BY <1>1, ShiftIs
<1>3. PICK i : i = Of(Instr("difference", "i32", <<l, r>>), x)
  OBVIOUS
<1>4. i.args = <<l, r>> /\ i.op = "difference" /\ i.type = "i32" /\ i.of = x
  BY <1>3 DEF Of, Instr
<1>5. IsSized(x) /\ s # NullptrType
  BY <1>1, <1>2, ArrowsShift
<1>6. Width(ir.regs, l) = "ptr" /\ Width(ir.regs, r) = "ptr"
  <2>1. PICK k, m \in {1, 2} : k = 1 /\ m = 2
    OBVIOUS
  <2> QED BY <2>1, WidthsSound
<1>7. Typed(ir.regs, i)
  <2>1. PICK regs : regs = ir.regs /\ Len(regs) \in Nat
    BY CurrentSound
  <2>2. Typed(regs, i)
    BY <1>1, <1>4, <1>5, <1>6, <2>1, TwoArgumentsTyped
  <2> QED BY <2>1, <2>2
<1>8. i \in Instruction /\ i.op # "phi"
  <2>1. "difference" \in OpCode /\ "i32" \in LlvmType /\ x \in LlvmType \cup TypeKind
    BY DEF OpCode, LlvmType, LlvmInt
  <2>2. i \in Instruction
    BY <1>1, <1>3, <2>1, TwoArguments
  <2> QED BY <1>4, <2>2
<1>9. IsResultOf(work[1], i.type)
  <2>1. ToLlvm(IntType) = "i32"
    BY NamedTypes, BaseTypes, LlvmByKind
  <2> QED BY <1>4, <2>1 DEF IsResultOf, Current
<1> QED BY <1>2, <1>3, <1>5, <1>6, <1>7, <1>8, <1>9 DEF IsCode

LEMMA ComparisonSound ==
  ASSUME Ready, phase = "compile", Len(Values) = 2, ~work[1].lvalue,
         NEW op \in Comparison, nodes[Current].op = op,
         NEW l, l = Values[1], NEW r, r = Values[2]
  PROVE  IsCode(Instr(op, "i1", <<l, r>>))
<1>1. PICK i : i = Instr(op, "i1", <<l, r>>)
  OBVIOUS
<1>2. i.args = <<l, r>> /\ i.op = op /\ i.type = "i1"
  BY <1>1 DEF Instr
<1>3. l \in 0..Len(ir.regs) /\ l \in Nat /\ r \in 0..Len(ir.regs) /\ r \in Nat
  BY TwoValuesSound
<1>4. CastType(Current, 2) = CastType(Current, 1) /\ IsScalar(CastType(Current, 1))
  BY CurrentSound DEF Promise
<1>5. Width(ir.regs, l) = Width(ir.regs, r) /\ Width(ir.regs, l) \in Scalar
  <2>1. PICK k, m \in {1, 2} : k = 1 /\ m = 2
    OBVIOUS
  <2>2. Width(ir.regs, l) = ToLlvm(CastType(Current, 1)) /\ Width(ir.regs, l) \in Scalar
    BY <1>4, <2>1, WidthsSound
  <2>3. Width(ir.regs, r) = ToLlvm(CastType(Current, 2))
    BY <1>4, <2>1, WidthsSound
  <2> QED BY <1>4, <2>2, <2>3
<1>6. Typed(ir.regs, i)
  <2>1. PICK regs : regs = ir.regs /\ Len(regs) \in Nat
    BY CurrentSound
  <2>2. Typed(regs, i)
    BY <1>2, <1>3, <1>5, <2>1, TwoArgumentsTyped
  <2> QED BY <2>1, <2>2
<1>7. i \in Instruction /\ i.op # "phi"
  <2>1. op \in OpCode /\ op # "phi" /\ "i1" \in LlvmType
    BY DEF OpCode, LlvmType, LlvmInt, Comparison
  <2> QED BY <1>1, <1>3, <2>1, TwoArguments
<1>8. IsResultOf(work[1], i.type)
  BY <1>2 DEF IsResultOf, Current
<1> QED BY <1>1, <1>6, <1>7, <1>8 DEF IsCode

LEMMA BinarySound ==
  ASSUME Ready, CompileBinary
  PROVE  Sound(work', ir'.regs)
<1>1. PICK l, r : l = Values[1] /\ r = Values[2]
  OBVIOUS
<1>2. PICK i : i = CASE Op = "*" -> Instr("mul", "i32", <<l, r>>)
                     [] Op = "+" -> AddCode(l, r)
                     [] Op = "-" -> SubtractCode(l, r)
                     [] OTHER    -> Instr(Op, "i1", <<l, r>>)
  OBVIOUS
<1>3. PICK op : op = nodes[Current].op
  OBVIOUS
<1>4. /\ phase = "compile" /\ Return(Emit(ir, i), Latest(Emit(ir, i)))
      /\ op \in {"*", "+", "-"} \cup Comparison /\ Len(Values) = 2 /\ ~work[1].lvalue /\ Op = op
  <2>1. /\ phase = "compile" /\ Return(Emit(ir, i), Latest(Emit(ir, i)))
        /\ Op \in {"*", "+", "-"} \cup Comparison /\ Len(Values) = 2 /\ (work[1].lvalue => HasLvalue)
    BY <1>1, <1>2 DEF CompileBinary, At, Compiling
  <2> QED BY <1>3, <2>1 DEF HasLvalue, Comparison, Op
<1>5. PICK s : s = CastType(Current, 1)
  OBVIOUS
<1>6. PICK t : t = CastType(Current, 2)
  OBVIOUS
<1>7. s \in Type /\ t \in Type
  BY <1>4, <1>5, <1>6, TwoValuesSound
<1>8. Promise(Current)
  BY <1>4, CurrentSound
<1>9. ASSUME op \in {"*", "+", "-"}, TypeOf(Current) = IntType, IsNumber(s), IsNumber(t)
      PROVE  /\ \A o \in {"mul", "add", "sub"} : IsCode(Instr(o, "i32", <<l, r>>))
             /\ ~IsPointer(s) /\ ~IsPointer(t) /\ Width(ir.regs, l) # "ptr"
  <2>1. \A o \in {"mul", "add", "sub"} : IsCode(Instr(o, "i32", <<l, r>>))
    BY <1>1, <1>3, <1>4, <1>5, <1>6, <1>9, ArithmeticSound
  <2>2. ~IsPointer(s) /\ ~IsPointer(t)
    BY <1>9 DEF IsPointer, IsNumber
  <2>3. Width(ir.regs, l) \in LlvmInt
    <3>1. PICK k \in {1, 2} : k = 1
      OBVIOUS
    <3> QED BY <1>1, <1>3, <1>4, <1>5, <1>9, <3>1, WidthsSound
  <2> QED BY <2>1, <2>2, <2>3 DEF LlvmInt
<1>10. ASSUME op \in {"+", "-"}, TypeOf(Current) = s, IsArrow(s), IsNumber(t)
       PROVE  /\ \A o \in {"shift", "shift back"} : IsCode(Shift(o, l, r, s))
              /\ IsPointer(s) /\ Width(ir.regs, r) # "ptr"
  <2>1. PICK k, m \in {1, 2} : k = 1 /\ m = 2
    OBVIOUS
  <2>2. \A o \in {"shift", "shift back"} : IsCode(Shift(o, Values[k], Values[m], s))
    <3>1. /\ s = CastType(Current, k) /\ IsNumber(CastType(Current, m))
          /\ nodes[Current].op \in {"+", "-"}
      BY <1>3, <1>5, <1>6, <1>10, <2>1
    <3> QED BY <1>4, <1>10, <3>1, ArraySound
  <2>3. Width(ir.regs, r) \in LlvmInt
    BY <1>1, <1>3, <1>4, <1>6, <1>10, <2>1, WidthsSound
  <2>4. IsPointer(s)
    BY <1>7, <1>10, ArrowsShift
  <2> QED BY <1>1, <2>1, <2>2, <2>3, <2>4 DEF LlvmInt
<1>11. ASSUME op = "+", TypeOf(Current) = t, IsArrow(t), IsNumber(s)
       PROVE  IsCode(Shift("shift", r, l, t)) /\ IsPointer(t) /\ ~IsPointer(s)
  <2>1. PICK k, m \in {1, 2} : k = 2 /\ m = 1
    OBVIOUS
  <2>2. \A o \in {"shift", "shift back"} : IsCode(Shift(o, Values[k], Values[m], t))
    <3>1. /\ t = CastType(Current, k) /\ IsNumber(CastType(Current, m))
          /\ nodes[Current].op \in {"+", "-"}
      BY <1>3, <1>5, <1>6, <1>11, <2>1
    <3> QED BY <1>4, <1>11, <3>1, ArraySound
  <2>3. IsPointer(t) /\ ~IsPointer(s)
    BY <1>7, <1>11, ArrowsShift DEF IsNumber, IsPointer
  <2> QED BY <1>1, <2>1, <2>2, <2>3
<1>12. IsCode(i)
  <2>1. CASE op = "*"
    <3>1. i = Instr("mul", "i32", <<l, r>>)
      BY <1>2, <1>4, <2>1
    <3>2. TypeOf(Current) = IntType /\ IsNumber(s) /\ IsNumber(t)
      BY <1>3, <1>5, <1>6, <1>8, <2>1 DEF Promise
    <3> QED BY <1>9, <2>1, <3>1, <3>2
  <2>2. CASE op = "+"
    <3>1. i = AddCode(l, r)
      BY <1>2, <1>4, <2>2
    <3>2. \/ TypeOf(Current) = IntType /\ IsNumber(s) /\ IsNumber(t)
          \/ TypeOf(Current) = s /\ IsArrow(s) /\ IsNumber(t)
          \/ TypeOf(Current) = t /\ IsArrow(t) /\ IsNumber(s)
      BY <1>3, <1>5, <1>6, <1>8, <2>2 DEF Promise
    <3>3. CASE TypeOf(Current) = IntType /\ IsNumber(s) /\ IsNumber(t)
      <4>1. i = Instr("add", "i32", <<l, r>>)
        BY <1>5, <1>6, <1>9, <2>2, <3>1, <3>3 DEF AddCode
      <4> QED BY <1>9, <2>2, <3>3, <4>1
    <3>4. CASE TypeOf(Current) = s /\ IsArrow(s) /\ IsNumber(t)
      <4>1. i = Shift("shift", l, r, s)
        BY <1>5, <1>10, <2>2, <3>1, <3>4 DEF AddCode
      <4> QED BY <1>10, <2>2, <3>4, <4>1
    <3>5. CASE TypeOf(Current) = t /\ IsArrow(t) /\ IsNumber(s)
      <4>1. i = Shift("shift", r, l, t)
        BY <1>5, <1>6, <1>11, <2>2, <3>1, <3>5 DEF AddCode
      <4> QED BY <1>11, <2>2, <3>5, <4>1
    <3> QED BY <3>2, <3>3, <3>4, <3>5
  <2>3. CASE op = "-"
    <3>1. i = SubtractCode(l, r)
      BY <1>2, <1>4, <2>3
    <3>2. \/ TypeOf(Current) = IntType /\ IsNumber(s) /\ IsNumber(t)
          \/ TypeOf(Current) = s /\ IsArrow(s) /\ IsNumber(t)
          \/ TypeOf(Current) = IntType /\ IsArrow(s) /\ IsArrow(t)
      BY <1>3, <1>5, <1>6, <1>8, <2>3 DEF Promise
    <3>3. CASE TypeOf(Current) = IntType /\ IsNumber(s) /\ IsNumber(t)
      <4>1. i = Instr("sub", "i32", <<l, r>>)
        BY <1>5, <1>9, <2>3, <3>1, <3>3 DEF SubtractCode
      <4> QED BY <1>9, <2>3, <3>3, <4>1
    <3>4. CASE TypeOf(Current) = s /\ IsArrow(s) /\ IsNumber(t)
      <4>1. i = Shift("shift back", l, r, s)
        BY <1>5, <1>10, <2>3, <3>1, <3>4 DEF SubtractCode
      <4> QED BY <1>10, <2>3, <3>4, <4>1
    <3>5. CASE TypeOf(Current) = IntType /\ IsArrow(s) /\ IsArrow(t)
      <4>1. /\ IsCode(Of(Instr("difference", "i32", <<l, r>>), Pointed(s)))
            /\ Width(ir.regs, l) = "ptr" /\ Width(ir.regs, r) = "ptr" /\ s # NullptrType
        BY <1>1, <1>3, <1>4, <1>5, <1>6, <2>3, <3>5, DifferenceSound
      <4>2. i = Of(Instr("difference", "i32", <<l, r>>), Pointed(s))
        BY <1>5, <3>1, <4>1 DEF SubtractCode
      <4> QED BY <4>1, <4>2
    <3> QED BY <3>2, <3>3, <3>4, <3>5
  <2>4. CASE op \in Comparison
    <3>1. i = Instr(op, "i1", <<l, r>>)
      <4>1. op \notin {"*", "+", "-"}
        BY <2>4 DEF Comparison
      <4> QED BY <1>2, <1>4, <4>1
    <3> QED BY <1>1, <1>3, <1>4, <2>4, <3>1, ComparisonSound
  <2> QED BY <1>4, <2>1, <2>2, <2>3, <2>4
<1> QED BY <1>4, <1>12, EmitsOneSound DEF IsCode
\* What is known of the values of a frame whose values are those of the current one.
LEMMA ValuesTyped ==
  ASSUME Ready, phase = "compile", NEW s, nodes[Current].op \notin Logical,
         NEW regs, Longer(ir.regs, regs), NEW f, f.node = work[1].node, f.values = Values
  PROVE  FrameTyped(f, s, regs)
<1>1. /\ work[1] \in CallFrame(ir) /\ FrameTyped(work[1], Len(Values), ir.regs)
      /\ OpOf(work[1]) = nodes[Current].op /\ work[1].values = Values /\ work[1].node = Current
  BY CurrentSound
<1>2. FrameTyped(work[1], Len(Values), regs)
  BY <1>1, FrameStaysTyped
<1>3. \A k, w : IsValueOf(work[1], k, Len(Values), w) => IsValueOf(f, k, s, w)
  BY <1>1 DEF IsValueOf, OpOf
<1> QED BY <1>1, <1>2, <1>3 DEF FrameTyped

LEMMA BranchLogicalSound ==
  ASSUME Ready, BranchLogical
  PROVE  Sound(work', ir'.regs)
<1>1. NodesInv /\ CodeInv
  BY DEF Ready
<1>2. phase = "compile"
  BY <1>1, BranchLogicalParts
<1>3. PICK g, v, h, f : BranchesLogical(g, v, h, f)
  BY <1>1, BranchLogicalParts
<1>4. /\ nodes[Current].op \in Logical /\ Len(Values) = 1
      /\ g = ToBool(ir, Values[1]) /\ v = Converted(ir, g, Values[1])
      /\ IrOK(h) /\ h.regs = g.regs /\ f.node = work[1].node /\ f.values = <<v>>
      /\ f \in CallFrame(h) /\ OperandCount(f.node) = 2 /\ CallOperand(f, h, 2)
  BY <1>3 DEF BranchesLogical, FrameOK, Op
<1>5. 1 \in 1..Len(Values)
  BY <1>2, <1>4, OneValue
<1>6. ~TakesLvalue(Current, 1) /\ Decides(Current, 1)
  BY <1>4 DEF TakesLvalue, Decides, Logical
<1>7. Width(ir.regs, Values[1]) \in Scalar
  BY <1>2, <1>5, <1>6, ValuesSound
<1>8. CodeTyped(g.regs) /\ Longer(ir.regs, g.regs) /\ Width(g.regs, v) = "i1"
  BY <1>2, <1>4, <1>5, <1>7, DecidedTyped
<1>9. Len(f.values) = 1 /\ f.values[1] = v
  <2>1. Len(<<v>>) = 1 /\ <<v>>[1] = v
    OBVIOUS
  <2> QED BY <1>4, <2>1
<1>10. FrameTyped(f, 2, h.regs)
  <2>1. IsValueOf(f, 1, 2, "i1")
    BY <1>4, <1>6 DEF IsValueOf, Scalar, LlvmInt, Current
  <2>2. \A k \in 1..Len(f.values) : k = 1
    BY <1>9
  <2> QED BY <1>4, <1>8, <1>9, <2>1, <2>2 DEF FrameTyped
<1>11. PICK s : s = Len(f.values) + 1 /\ s = 2
  BY <1>9
<1>12. s <= OperandCount(f.node) /\ FrameTyped(f, s, h.regs) /\ CallOperand(f, h, s)
  BY <1>4, <1>10, <1>11
<1> QED BY <1>2, <1>4, <1>8, <1>11, <1>12, CallSound

LEMMA BranchTernarySound ==
  ASSUME Ready, BranchTernary
  PROVE  Sound(work', ir'.regs)
<1>1. NodesInv /\ CodeInv
  BY DEF Ready
<1>2. phase = "compile"
  BY <1>1, BranchTernaryParts
<1>3. PICK g, h, f : BranchesTernary(g, h, f)
  BY <1>1, BranchTernaryParts
<1>4. /\ nodes[Current].op = "?:" /\ Len(Values) = 1 /\ g = ToBool(ir, Values[1])
      /\ IrOK(h) /\ h.regs = g.regs /\ f.node = work[1].node /\ f.values = Values
      /\ f \in CallFrame(h) /\ OperandCount(f.node) = 3 /\ CallOperand(f, h, 2)
  BY <1>3 DEF BranchesTernary, FrameOK, Op
<1>5. 1 \in 1..Len(Values)
  BY <1>2, <1>4, OneValue
<1>6. ~TakesLvalue(Current, 1) /\ Decides(Current, 1)
  BY <1>4 DEF TakesLvalue, Decides
<1>7. Width(ir.regs, Values[1]) \in Scalar
  BY <1>2, <1>5, <1>6, ValuesSound
<1>8. CodeTyped(g.regs) /\ Longer(ir.regs, g.regs)
  BY <1>2, <1>4, <1>5, <1>7, DecidedTyped
<1>9. nodes[Current].op \notin Logical
  BY <1>4 DEF Logical
<1>10. FrameTyped(f, 2, h.regs)
  BY <1>2, <1>4, <1>8, <1>9, ValuesTyped
<1>11. PICK s : s = Len(f.values) + 1 /\ s = 2
  <2>1. Len(f.values) = 1
    BY <1>4
  <2> QED BY <2>1
<1>12. s <= OperandCount(f.node) /\ FrameTyped(f, s, h.regs) /\ CallOperand(f, h, s)
  BY <1>4, <1>10, <1>11
<1> QED BY <1>2, <1>4, <1>8, <1>11, <1>12, CallSound

LEMMA ElseTernarySound ==
  ASSUME Ready, ElseTernary
  PROVE  Sound(work', ir'.regs)
<1>1. NodesInv /\ CodeInv
  BY DEF Ready
<1>2. phase = "compile"
  BY <1>1, ElseTernaryParts
<1>3. PICK g, f : ElsesTernary(g, f)
  BY <1>1, ElseTernaryParts
<1>4. /\ nodes[Current].op = "?:" /\ Len(Values) = 2
      /\ IrOK(g) /\ g.regs = ir.regs /\ f.node = work[1].node /\ f.values = Values
      /\ f \in CallFrame(g) /\ OperandCount(f.node) = 3 /\ CallOperand(f, g, 3)
  BY <1>3 DEF ElsesTernary, FrameOK, Op
<1>5. CodeTyped(g.regs) /\ Longer(ir.regs, g.regs)
  BY <1>2, <1>4, CurrentSound
<1>6. nodes[Current].op \notin Logical
  BY <1>4 DEF Logical
<1>7. FrameTyped(f, 3, g.regs)
  BY <1>2, <1>4, <1>5, <1>6, ValuesTyped
<1>8. PICK s : s = Len(f.values) + 1 /\ s = 3
  <2>1. Len(f.values) = 2
    BY <1>4
  <2> QED BY <2>1
<1>9. s <= OperandCount(f.node) /\ FrameTyped(f, s, g.regs) /\ CallOperand(f, g, s)
  BY <1>4, <1>7, <1>8
<1> QED BY <1>2, <1>4, <1>5, <1>8, <1>9, CallSound
LEMMA JoinLogicalSound ==
  ASSUME Ready, JoinLogical
  PROVE  Sound(work', ir'.regs)
<1>1. NodesInv /\ CodeInv
  BY DEF Ready
<1>2. phase = "compile"
  BY <1>1, JoinLogicalParts
<1>3. PICK g, rhs, e, i, from, h, j : JoinsLogical(g, rhs, e, i, from, h, j)
  BY <1>1, JoinLogicalParts
<1>4. PICK lhs : lhs = Values[1]
  OBVIOUS
<1>5. /\ nodes[Current].op \in Logical /\ Len(Values) = 2
      /\ g = ToBool(ir, Values[2]) /\ rhs = Converted(ir, g, Values[2])
      /\ IrOK(e) /\ e.regs = g.regs
      /\ i = Phi("i1", <<lhs, rhs>>, from) /\ i \in Instruction
      /\ h = Emit(e, i) /\ IrOK(h)
      /\ j = Instr("zext", "i32", <<Latest(h)>>) /\ j \in Instruction /\ j.op # "phi"
      /\ Return(Emit(h, j), Latest(Emit(h, j)))
  BY <1>3, <1>4 DEF JoinsLogical, Op
<1>6. 1 \in 1..Len(Values) /\ 2 \in 1..Len(Values) /\ lhs \in 0..Len(ir.regs)
  BY <1>2, <1>4, <1>5, TwoValuesSound
<1>7. \A k \in {1, 2} : ~TakesLvalue(Current, k) /\ Decides(Current, k)
  BY <1>5 DEF TakesLvalue, Decides, Logical
<1>8. Width(ir.regs, lhs) = "i1" /\ Width(ir.regs, Values[2]) \in Scalar
  <2>1. Width(ir.regs, Values[1]) = "i1"
    BY <1>2, <1>5, <1>6, <1>7, ValuesSound
  <2>2. Width(ir.regs, Values[2]) \in Scalar
    BY <1>2, <1>6, <1>7, ValuesSound
  <2> QED BY <1>4, <2>1, <2>2
<1>9. /\ CodeTyped(g.regs) /\ Longer(ir.regs, g.regs) /\ Len(g.regs) \in Nat
      /\ rhs \in 0..Len(g.regs) /\ Width(g.regs, rhs) = "i1"
  BY <1>2, <1>5, <1>6, <1>8, DecidedTyped
<1>10. Width(g.regs, lhs) = "i1" /\ lhs \in 0..Len(g.regs)
  <2>1. Width(g.regs, lhs) = "i1"
    BY <1>6, <1>8, <1>9, LongerWidth
  <2>2. Len(ir.regs) <= Len(g.regs) /\ Len(ir.regs) \in Nat
    BY <1>9 DEF Longer
  <2> QED BY <1>6, <1>9, <2>1, <2>2
<1>11. Typed(e.regs, i) /\ i.type = "i1"
  <2>1. PICK regs : regs = e.regs /\ regs = g.regs
    BY <1>5
  <2>2. i.args = <<lhs, rhs>> /\ i.op = "phi" /\ i.type = "i1"
    BY <1>5 DEF Phi, Instr
  <2>3. /\ lhs \in 0..Len(regs) /\ rhs \in 0..Len(regs) /\ Len(regs) \in Nat
        /\ Width(regs, lhs) = Width(regs, rhs)
    BY <1>9, <1>10, <2>1
  <2>4. Typed(regs, i)
    BY <2>2, <2>3, TwoArgumentsTyped
  <2> QED BY <2>1, <2>2, <2>4
<1>12. /\ CodeTyped(h.regs) /\ Longer(e.regs, h.regs) /\ Width(h.regs, Latest(h)) = "i1"
       /\ Len(h.regs) = Latest(h) /\ Latest(e) \in Nat /\ Latest(h) = Latest(e) + 1
  <2>1. CodeTyped(e.regs)
    BY <1>5, <1>9
  <2> QED BY <1>5, <1>11, <2>1, EmitTyped
<1>13. Longer(ir.regs, h.regs)
  <2>1. Longer(g.regs, h.regs)
    BY <1>5, <1>12
  <2> QED BY <1>9, <2>1, LongerTwice
<1>14. Typed(h.regs, j) /\ j.type = "i32"
  <2>1. PICK regs : regs = h.regs
    OBVIOUS
  <2>2. PICK r : r = Latest(h)
    OBVIOUS
  <2>3. r \in 0..Len(regs) /\ Len(regs) \in Nat /\ Width(regs, r) = "i1"
    BY <1>12, <2>1, <2>2
  <2>4. Typed(regs, Instr("zext", "i32", <<r>>))
    BY <2>3, OneArgumentTyped
  <2>5. j = Instr("zext", "i32", <<r>>)
    BY <1>5, <2>2
  <2> QED BY <2>1, <2>4, <2>5 DEF Instr
<1>15. IsResultOf(work[1], j.type)
  <2>1. TypeOf(Current) = IntType
    BY <1>2, <1>5, CurrentSound DEF Promise
  <2>2. ToLlvm(IntType) = "i32"
    BY NamedTypes, BaseTypes, LlvmByKind
  <2>3. ~work[1].lvalue
    <3>1. work[1].lvalue => HasLvalue
      BY DEF JoinLogical, At, Compiling
    <3> QED BY <1>5, <3>1 DEF HasLvalue, Logical, Op
  <2> QED BY <1>14, <2>1, <2>2, <2>3 DEF IsResultOf, Current
<1> QED BY <1>2, <1>5, <1>12, <1>13, <1>14, <1>15, EmitsSound

LEMMA JoinTernarySound ==
  ASSUME Ready, JoinTernary
  PROVE  Sound(work', ir'.regs)
<1>1. NodesInv /\ CodeInv
  BY DEF Ready
<1>2. phase = "compile"
  BY <1>1, JoinTernaryParts
<1>3. PICK g, i, from : JoinsTernary(g, i, from)
  BY <1>1, JoinTernaryParts
<1>4. PICK l, r : l = Values[2] /\ r = Values[3]
  OBVIOUS
<1>5. /\ nodes[Current].op = "?:" /\ Len(Values) = 3 /\ ~work[1].lvalue
      /\ IrOK(g) /\ g.regs = ir.regs
      /\ i = Phi(Width(ir.regs, l), <<l, r>>, from)
      /\ IF nodes[Current].type = VoidType THEN Return(g, NoValue)
         ELSE /\ i \in Instruction /\ JoinsAll(i, Preds(g, g.at))
              /\ Return(Emit(g, i), Latest(Emit(g, i)))
  BY <1>3, <1>4 DEF JoinsTernary, Op, HasLvalue
<1>6. /\ CodeTyped(g.regs) /\ Longer(ir.regs, g.regs) /\ Len(ir.regs) \in Nat
      /\ Latest(ir) = Len(ir.regs) /\ Promise(Current) /\ TypeOf(Current) \in Type
  BY <1>2, <1>5, CurrentSound
<1>7. CASE nodes[Current].type = VoidType
  <2>1. IsResultOf(work[1], Width(g.regs, NoValue))
    BY <1>5, <1>7 DEF IsResultOf, TypeOf, Current
  <2>2. NoValue \in 0..Latest(g)
    BY <1>5, <1>6 DEF NoValue, Latest
  <2>3. Return(g, NoValue)
    BY <1>5, <1>7
  <2>4. PICK v : v = NoValue
    OBVIOUS
  <2>5. v \in 0..Latest(g) /\ Return(g, v) /\ IsResultOf(work[1], Width(g.regs, v))
    BY <2>1, <2>2, <2>3, <2>4
  <2> QED BY <1>2, <1>5, <1>6, <2>5, ReturnSound
<1>8. CASE nodes[Current].type # VoidType
  <2>1. 2 \in 1..Len(Values) /\ 3 \in 1..Len(Values)
    <3>1. Len(Values) = 3
      BY <1>5
    <3> QED BY <3>1
  <2>2. \A k \in {2, 3} : CastType(Current, k) = TypeOf(Current)
    BY <1>5, <1>6 DEF Promise
  <2>3. \A k \in {2, 3} : ~TakesLvalue(Current, k) /\ ~Decides(Current, k)
    BY <1>5 DEF TakesLvalue, Decides, Logical
  <2>4. ASSUME NEW k \in {2, 3}
        PROVE  Width(ir.regs, Values[k]) = ToLlvm(TypeOf(Current)) /\ Values[k] \in 0..Len(ir.regs)
    <3>1. k \in 1..Len(Values) /\ CastType(Current, k) # VoidType
      BY <1>8, <2>1, <2>2 DEF TypeOf
    <3>2. Values[k] \in 0..Len(ir.regs) /\ Width(ir.regs, Values[k]) = ToLlvm(CastType(Current, k))
      BY <1>2, <2>3, <3>1, ValuesSound
    <3> QED BY <2>2, <3>2
  <2>5. PICK regs : regs = g.regs /\ regs = ir.regs
    BY <1>5
  <2>6. /\ l \in 0..Len(regs) /\ r \in 0..Len(regs) /\ Len(regs) \in Nat
        /\ Width(regs, l) = ToLlvm(TypeOf(Current)) /\ Width(regs, r) = Width(regs, l)
    BY <1>4, <1>6, <2>4, <2>5
  <2>7. i.args = <<l, r>> /\ i.op = "phi" /\ i.type = Width(regs, l)
    BY <1>5, <2>5 DEF Phi, Instr
  <2>8. Typed(g.regs, i)
    <3>1. Typed(regs, i)
      BY <2>6, <2>7, TwoArgumentsTyped
    <3> QED BY <2>5, <3>1
  <2>9. IsResultOf(work[1], i.type)
    BY <1>5, <2>6, <2>7 DEF IsResultOf, Current
  <2> QED BY <1>2, <1>5, <1>6, <1>8, <2>8, <2>9, EmitsSound
<1> QED BY <1>7, <1>8
(***************************************************************************)
(* The inductive invariant.                                                *)
(***************************************************************************)
WidthInv ==
  /\ Checked /\ IsTree
  /\ phase = "typecheck" => ir.regs = <<>>
  /\ Ordinary => Sound(work, ir.regs)

\* A step that leaves the nodes alone leaves what they say alone.
LEMMA NodesKept ==
  ASSUME nodes' = nodes, pending' = pending
  PROVE  /\ Checked => Checked'
         /\ IsTree => IsTree'
         /\ Ordinary' => Ordinary
<1>1. ASSUME NEW x PROVE TypesOf(x)' = TypesOf(x)
  BY DEF TypesOf
<1>2. ASSUME NEW x PROVE IsChecked(x)' = IsChecked(x)
  BY <1>1 DEF IsChecked
<1>3. Checked => Checked'
  BY <1>2 DEF Checked
<1>4. IsTree => IsTree'
  BY DEF IsTree, IsKid
<1>5. ComparisonIsValue => ComparisonIsValue'
  BY DEF ComparisonIsValue, OperandCount, Operand, Decides
<1>6. ComputesWithNull => ComputesWithNull'
  BY DEF ComputesWithNull, OperandCount, Operand, CastType, CastOf
<1>7. ComparesStructs => ComparesStructs'
  BY DEF ComparesStructs, OperandCount, Operand, TypeOf
<1>8. ComputesWithVoidPointer => ComputesWithVoidPointer'
  BY DEF ComputesWithVoidPointer, TypeOf
<1>9. LoadsVoid => LoadsVoid'
  BY DEF LoadsVoid, TypeOf
<1> QED BY <1>3, <1>4, <1>5, <1>6, <1>7, <1>8, <1>9 DEF Ordinary

LEMMA SoundKept ==
  ASSUME nodes' = nodes, pending' = pending, NEW u, NEW regs, Sound(u, regs),
         work' = u, ir'.regs = regs
  PROVE  Sound(work, ir.regs)'
<1>1. \A f, k : CastType(f.node, k)' = CastType(f.node, k)
  BY DEF CastType, CastOf, Operand
<1>2. \A f, k, s, w : IsValueOf(f, k, s, w)' = IsValueOf(f, k, s, w)
  BY <1>1 DEF IsValueOf, TakesLvalue, Decides, OpOf
<1>3. \A f, s : FrameTyped(f, s, regs) => FrameTyped(f, s, regs)'
  BY <1>2 DEF FrameTyped
<1>4. \A c, f : IsPassed(c, f)' = IsPassed(c, f)
  BY DEF IsPassed, TypeOf, CastOf
<1>5. FramesTyped(u, regs)'
  BY <1>3, <1>4 DEF FramesTyped, Sound
<1>6. Rooted(u)'
  BY DEF Rooted, Sound
<1>7. CodeTyped(regs)'
  BY DEF Sound
<1>8. Sound(u, regs)'
  BY <1>5, <1>6, <1>7 DEF Sound
<1> QED BY <1>8

\* A step of the code generator.
LEMMA CompileWidth ==
  ASSUME ExpressionInv, WidthInv, UNCHANGED <<nodes, pending>>, phase' # "typecheck",
         Ordinary => Sound(work', ir'.regs)
  PROVE  WidthInv'
<1>1. Checked' /\ IsTree' /\ (Ordinary' => Ordinary)
  BY NodesKept DEF WidthInv
<1>2. ASSUME Ordinary' PROVE Sound(work, ir.regs)'
  <2>1. PICK u, regs : u = work' /\ regs = ir'.regs
    OBVIOUS
  <2>2. Sound(u, regs)
    BY <1>1, <1>2, <2>1
  <2> QED BY <2>1, <2>2, SoundKept
<1> QED BY <1>1, <1>2 DEF WidthInv

LEMMA WidthInit == Init => WidthInv
<1> SUFFICES ASSUME Init PROVE WidthInv
  OBVIOUS
<1>1. nodes = <<>> /\ pending = <<>> /\ work = <<>> /\ ir.regs = <<>>
  BY DEF Init
<1>2. Len(nodes) = 0 /\ Len(pending) = 0 /\ Len(ir.regs) = 0
  BY <1>1
<1>3. Checked /\ IsTree /\ CodeTyped(ir.regs)
  BY <1>2 DEF Checked, IsTree, CodeTyped
<1> QED BY <1>1, <1>3, NothingIsSound DEF WidthInv
\* The types of the operands of y, when a node is added behind them.
LEMMA CheckKept ==
  ASSUME nodes \in Seq(Node), NEW z, nodes' = Append(nodes, z), NEW y,
         y.op \in Operator => \A k \in 1..Arity(y.op) : y.kids[k] \in 1..Len(nodes),
         IsChecked(y)
  PROVE  IsChecked(y)'
<1>1. CASE y.op \in Operator
  <2>1. \A k \in 1..Arity(y.op) : nodes'[y.kids[k]] = nodes[y.kids[k]]
    BY <1>1
  <2>2. TypesOf(y)' = TypesOf(y)
    BY <2>1 DEF TypesOf
  <2> QED BY <2>2 DEF IsChecked
<1>2. CASE y.op \notin Operator
  BY <1>2 DEF IsChecked
<1> QED BY <1>1, <1>2

\* A node is added: its operands have waited for it, and wait no more.
LEMMA PushWidth ==
  ASSUME ExpressionInv, WidthInv, phase = "typecheck",
         NEW x \in Node, Fits(x, Len(nodes) + 1), Push(x), IsChecked(x),
         NEW rest \in Seq(1..Len(nodes)), pending' = Append(rest, Len(nodes) + 1),
         \A i, j \in 1..Len(rest) : i # j => rest[i] # rest[j],
         \A i \in 1..Len(rest) : \A m \in 1..Len(nodes) : ~IsKid(m, rest[i]),
         \A i \in 1..Len(rest) : \A k \in 1..Len(x.kids) : x.kids[k] # rest[i],
         \A k \in 1..Len(x.kids) : \A m \in 1..Len(nodes) : ~IsKid(m, x.kids[k])
  PROVE  WidthInv'
<1>1. /\ nodes' = Append(nodes, x) /\ phase' = phase /\ work' = work /\ ir' = ir
      /\ NodesInv /\ work = <<>> /\ nodes \in Seq(Node) /\ ir.regs = <<>>
      /\ Checked /\ IsTree
  BY DEF Push, ExpressionInv, NodesInv, WidthInv
<1>2. PICK last \in Nat : last = Len(nodes)
  BY <1>1
<1>3. /\ Len(nodes') = last + 1 /\ nodes'[last + 1] = x
      /\ \A n \in 1..last : nodes'[n] = nodes[n]
  BY <1>1, <1>2
<1>4. \A n \in 1..last : Fits(nodes[n], n)
  BY <1>1, <1>2 DEF NodesInv
<1>5. \A k \in 1..Len(x.kids) : x.kids[k] \in 1..last
  BY <1>2 DEF Fits
<1>6. \A n \in 1..(last + 1) : n \in 1..last \/ n = last + 1
  BY <1>2
<1>7. Checked'
  <2>1. ASSUME NEW n \in 1..last PROVE IsChecked(nodes[n])'
    <3>1. IsChecked(nodes[n])
      BY <1>1, <1>2 DEF Checked
    <3>2. nodes[n].op \in Operator =>
            \A k \in 1..Arity(nodes[n].op) : nodes[n].kids[k] \in 1..(n - 1)
      BY <1>4 DEF Fits
    <3>3. 1..(n - 1) \subseteq 1..Len(nodes)
      BY <1>2
    <3>4. PICK y : y = nodes[n] /\ y = nodes'[n]
      BY <1>3
    <3>5. y.op \in Operator => \A k \in 1..Arity(y.op) : y.kids[k] \in 1..Len(nodes)
      BY <3>2, <3>3, <3>4
    <3>6. IsChecked(y)'
      BY <1>1, <3>1, <3>4, <3>5, CheckKept
    <3> QED BY <3>4, <3>6
  <2>2. IsChecked(x)'
    <3>1. x.op \in Operator => \A k \in 1..Arity(x.op) : x.kids[k] \in 1..Len(nodes)
      BY <1>2, <1>5 DEF Fits
    <3> QED BY <1>1, <3>1, CheckKept
  <2>3. ASSUME NEW n \in 1..(last + 1) PROVE IsChecked(nodes[n])'
    <3>1. CASE n \in 1..last
      BY <2>1, <3>1
    <3>2. CASE n = last + 1
      BY <1>3, <2>2, <3>2
    <3> QED BY <1>6, <3>1, <3>2
  <2> QED BY <1>3, <2>3 DEF Checked
<1>8. ASSUME NEW m \in 1..last, NEW y
      PROVE  (IsKid(m, y)' <=> IsKid(m, y)) /\ (IsKid(m, y) => y \in 1..last)
  <2>1. \A k \in 1..Len(nodes[m].kids) : nodes[m].kids[k] \in 1..(m - 1)
    BY <1>4 DEF Fits
  <2>2. 1..(m - 1) \subseteq 1..last
    BY <1>2
  <2>3. nodes'[m] = nodes[m]
    BY <1>3
  <2> QED BY <2>1, <2>2, <2>3 DEF IsKid
<1>9. ASSUME NEW y
      PROVE  /\ IsKid(last + 1, y)' => \E k \in 1..Len(x.kids) : x.kids[k] = y
             /\ IsKid(last + 1, y)' => y \in 1..last /\ \A m \in 1..last : ~IsKid(m, y)
  <2>1. IsKid(last + 1, y)' => \E k \in 1..Len(x.kids) : x.kids[k] = y
    BY <1>3 DEF IsKid
  <2> QED BY <1>2, <1>5, <2>1
<1>10. ASSUME NEW m \in 1..(last + 1), NEW n \in 1..(last + 1), NEW y \in 1..(last + 1),
              IsKid(m, y)', IsKid(n, y)'
       PROVE  m = n
  <2>1. CASE m \in 1..last /\ n \in 1..last
    <3>1. IsKid(m, y) /\ IsKid(n, y) /\ y \in 1..Len(nodes)
      BY <1>2, <1>8, <1>10, <2>1
    <3> QED BY <1>1, <1>2, <2>1, <3>1 DEF IsTree
  <2>2. CASE m \in 1..last /\ n = last + 1
    <3>1. IsKid(m, y)
      BY <1>8, <1>10, <2>2
    <3>2. ~IsKid(m, y)
      BY <1>9, <1>10, <2>2
    <3> QED BY <3>1, <3>2
  <2>3. CASE m = last + 1 /\ n \in 1..last
    <3>1. IsKid(n, y)
      BY <1>8, <1>10, <2>3
    <3>2. ~IsKid(n, y)
      BY <1>9, <1>10, <2>3
    <3> QED BY <3>1, <3>2
  <2> QED BY <1>6, <2>1, <2>2, <2>3
<1>11. PICK r \in Nat : r = Len(rest) /\ Len(pending') = r + 1
  <2>1. Len(Append(rest, Len(nodes) + 1)) = Len(rest) + 1 /\ Len(rest) \in Nat
    OBVIOUS
  <2> QED BY <2>1
<1>12. /\ \A i \in 1..r : pending'[i] = rest[i] /\ rest[i] \in 1..last
       /\ pending'[r + 1] = last + 1 /\ last + 1 \notin 1..last
       /\ \A i \in 1..(r + 1) : i \in 1..r \/ i = r + 1
  <2>1. \A i \in 1..r : Append(rest, Len(nodes) + 1)[i] = rest[i] /\ rest[i] \in 1..Len(nodes)
    BY <1>11
  <2>2. Append(rest, Len(nodes) + 1)[r + 1] = Len(nodes) + 1
    BY <1>11
  <2>3. last + 1 \notin 1..last
    OBVIOUS
  <2> QED BY <1>2, <1>11, <2>1, <2>2, <2>3
<1>13. ASSUME NEW i \in 1..(r + 1), NEW j \in 1..(r + 1), i # j PROVE pending'[i] # pending'[j]
  BY <1>11, <1>12, <1>13
<1>14. ASSUME NEW i \in 1..(r + 1), NEW m \in 1..(last + 1), IsKid(m, pending[i])' PROVE FALSE
  <2>1. CASE i = r + 1
    <3>1. \A y : IsKid(m, y)' => y \in 1..last
      BY <1>6, <1>8, <1>9
    <3> QED BY <1>12, <1>14, <2>1, <3>1
  <2>2. CASE i \in 1..r
    <3>1. pending'[i] = rest[i] /\ IsKid(m, rest[i])'
      BY <1>12, <1>14, <2>2
    <3>2. CASE m \in 1..last
      <4>1. IsKid(m, rest[i])
        BY <1>8, <3>1, <3>2
      <4> QED BY <1>2, <1>11, <2>2, <3>2, <4>1
    <3>3. CASE m = last + 1
      <4>1. \E k \in 1..Len(x.kids) : x.kids[k] = rest[i]
        BY <1>9, <3>1, <3>3
      <4> QED BY <1>11, <2>2, <4>1
    <3> QED BY <1>6, <3>2, <3>3
  <2> QED BY <1>12, <2>1, <2>2
<1>15. IsTree'
  BY <1>3, <1>10, <1>11, <1>13, <1>14 DEF IsTree
<1>16. Sound(work, ir.regs)'
  <2>1. ir'.regs = <<>> /\ work' = <<>> /\ Len(ir'.regs) = 0
    BY <1>1
  <2>2. CodeTyped(ir'.regs)
    BY <2>1 DEF CodeTyped
  <2>3. Rooted(work)' /\ FramesTyped(work, ir.regs)'
    BY <2>1 DEF Rooted, FramesTyped
  <2> QED BY <2>2, <2>3 DEF Sound
<1> QED BY <1>1, <1>7, <1>15, <1>16 DEF WidthInv
LEMMA LeafWidth ==
  ASSUME ExpressionInv, WidthInv, CheckLeaf
  PROVE  WidthInv'
<1>1. PICK y \in Variable \cup Constant :
        Push([op |-> IF y \in Variable THEN "variable" ELSE "constant", of |-> y,
              kids |-> <<>>, type |-> LeafType(y), casts |-> <<>>])
  BY DEF CheckLeaf
<1>2. phase = "typecheck" /\ pending' = Append(pending, Len(nodes) + 1)
  BY DEF CheckLeaf
<1>3. PICK x : x = [op |-> IF y \in Variable THEN "variable" ELSE "constant", of |-> y,
                    kids |-> <<>>, type |-> LeafType(y), casts |-> <<>>]
  OBVIOUS
<1>4. x \in Node /\ Fits(x, Len(nodes) + 1)
  BY <1>3, LeafFits DEF ExpressionInv
<1>5. Push(x) /\ pending \in Seq(1..Len(nodes))
  BY <1>1, <1>3 DEF ExpressionInv
<1>6. x.op \in {"variable", "constant"} /\ Len(x.kids) = 0
  BY <1>3
<1>7. IsChecked(x)
  BY <1>6 DEF IsChecked, Operator, Prefix, Comparison, Branching, Logical
<1>8. /\ \A i, j \in 1..Len(pending) : i # j => pending[i] # pending[j]
      /\ \A i \in 1..Len(pending) : \A m \in 1..Len(nodes) : ~IsKid(m, pending[i])
  BY DEF WidthInv, IsTree
<1>9. \A k \in 1..Len(x.kids) : FALSE
  BY <1>6
<1> QED BY <1>2, <1>4, <1>5, <1>7, <1>8, <1>9, PushWidth

\* The operands of an index expression are in their places when they changed them.
LEMMA SwappedRule ==
  ASSUME NEW e, NEW i, IsSwapped(e, i), IndexResult(e, i) # Illegal
  PROVE  ~IsSwapped(i, e) /\ IndexResult(i, e) = IndexResult(e, i)
<1>1. IsPointer(i) /\ IsInteger(e)
  BY DEF IndexResult
<1>2. ~IsSwapped(i, e)
  BY <1>1 DEF IsSwapped
<1> QED BY <1>1, <1>2 DEF IndexResult

\* The node of an operator that the type checker accepts.
IsNodeOf(x, op, kids, types, result) ==
  /\ types = [k \in 1..Arity(op) |-> nodes[kids[k]].type]
  /\ result = ResultOf(op, types) /\ result # Illegal
  /\ x = [op |-> op, of |-> "none", type |-> result.type, casts |-> result.casts,
          kids |-> IF op = "index" /\ IsSwapped(types[1], types[2])
                   THEN <<kids[2], kids[1]>> ELSE kids]

LEMMA OperatorChecked ==
  ASSUME NEW x, NEW op \in Operator, NEW kids \in Seq(1..Len(nodes)), Len(kids) = Arity(op),
         NEW types, NEW result, IsNodeOf(x, op, kids, types, result)
  PROVE  /\ IsChecked(x)
         /\ \A k \in 1..Len(x.kids) : \E j \in 1..Arity(op) : x.kids[k] = kids[j]
<1>1. /\ x.op = op /\ x.type = result.type /\ x.casts = result.casts
      /\ x.kids = IF op = "index" /\ IsSwapped(types[1], types[2])
                  THEN <<kids[2], kids[1]>> ELSE kids
      /\ types = [k \in 1..Arity(op) |-> nodes[kids[k]].type]
      /\ result = ResultOf(op, types) /\ result # Illegal
  BY DEF IsNodeOf
<1>2. CASE ~(op = "index" /\ IsSwapped(types[1], types[2]))
  <2>1. x.kids = kids /\ TypesOf(x) = types
    BY <1>1, <1>2 DEF TypesOf
  <2> QED BY <1>1, <1>2, <2>1 DEF IsChecked
<1>3. CASE op = "index" /\ IsSwapped(types[1], types[2])
  <2>1. Arity(op) = 2
    BY <1>3, Arities
  <2>2. x.kids = <<kids[2], kids[1]>> /\ Len(x.kids) = 2
    BY <1>1, <1>3
  <2>3. types[1] = nodes[kids[1]].type /\ types[2] = nodes[kids[2]].type
    BY <1>1, <2>1
  <2>4. PICK e, i : e = types[1] /\ i = types[2]
    OBVIOUS
  <2>5. result = IndexResult(e, i)
    BY <1>1, <1>3, <2>4, RuleOf
  <2>6. ~IsSwapped(i, e) /\ IndexResult(i, e) = result
    BY <1>1, <1>3, <2>4, <2>5, SwappedRule
  <2>7. PICK ts : ts = TypesOf(x)
    OBVIOUS
  <2>8. ts[1] = i /\ ts[2] = e
    BY <1>1, <2>1, <2>2, <2>3, <2>4, <2>7 DEF TypesOf
  <2>9. ResultOf("index", ts) = result
    <3>1. ResultOf("index", ts) = IndexResult(ts[1], ts[2])
      BY RuleOf
    <3> QED BY <2>6, <2>8, <3>1
  <2>10. IsChecked(x)
    BY <1>1, <1>3, <2>6, <2>7, <2>8, <2>9 DEF IsChecked
  <2>11. ASSUME NEW k \in 1..Len(x.kids) PROVE \E j \in 1..Arity(op) : x.kids[k] = kids[j]
    <3>1. PICK n : n = Len(x.kids) /\ n = 2
      BY <2>2
    <3>2. k \in 1..2
      BY <3>1
    <3>3. 1 \in 1..Arity(op) /\ 2 \in 1..Arity(op)
      BY <2>1
    <3>4. x.kids[1] = kids[2] /\ x.kids[2] = kids[1]
      BY <2>2
    <3> QED BY <3>2, <3>3, <3>4
  <2> QED BY <2>10, <2>11
<1> QED BY <1>2, <1>3
LEMMA OperatorWidth ==
  ASSUME ExpressionInv, WidthInv, CheckOperator
  PROVE  WidthInv'
<1>1. PICK op, waiting, kids, types, result, x :
        /\ op \in Operator /\ waiting = Len(pending) - Arity(op) /\ waiting >= 0 /\ phase = "typecheck"
        /\ kids = SubSeq(pending, waiting + 1, Len(pending))
        /\ types = [k \in 1..Arity(op) |-> nodes[kids[k]].type]
        /\ result = ResultOf(op, types)
        /\ x = [op |-> op, of |-> "none", type |-> result.type, casts |-> result.casts,
                kids |-> IF op = "index" /\ IsSwapped(types[1], types[2])
                         THEN <<kids[2], kids[1]>> ELSE kids]
        /\ IF result = Illegal \/ ~SuitableOperand(op, kids[1])
           THEN phase' = "rejected" /\ UNCHANGED <<nodes, pending, work, ir, value>>
           ELSE /\ pending' = Append(SubSeq(pending, 1, waiting), Len(nodes) + 1) /\ Push(x)
  BY ZenonT(40) DEF CheckOperator
<1>2. NodesInv /\ pending \in Seq(1..Len(nodes)) /\ work = <<>> /\ ir.regs = <<>>
  BY <1>1 DEF ExpressionInv, WidthInv
<1>3. CASE result = Illegal \/ ~SuitableOperand(op, kids[1])
  <2>1. phase' = "rejected" /\ UNCHANGED <<nodes, pending, work, ir, value>>
    BY <1>1, <1>3
  <2>2. Ordinary => Sound(work', ir'.regs)
    BY <2>1 DEF WidthInv
  <2> QED BY <2>1, <2>2, CompileWidth
<1>4. CASE ~(result = Illegal \/ ~SuitableOperand(op, kids[1]))
  <2>1. /\ result # Illegal /\ SuitableOperand(op, kids[1]) /\ Push(x)
        /\ pending' = Append(SubSeq(pending, 1, waiting), Len(nodes) + 1)
    BY <1>1, <1>4
  <2>2. PICK last \in Nat : last = Len(pending)
    BY <1>2
  <2>3. PICK arity \in 1..3 : arity = Arity(op)
    BY <1>1, Arities
  <2>4. waiting \in Nat /\ waiting <= last /\ last = waiting + arity
    <3>1. waiting = last - arity /\ waiting >= 0
      BY <1>1, <2>2, <2>3
    <3> QED BY <3>1
  <2>5. kids = SubSeq(pending, waiting + 1, last) /\ Len(pending) = last
    BY <1>1, <2>2
  <2>6. kids \in Seq(1..Len(nodes)) /\ Len(kids) = arity
    BY <1>2, <2>4, <2>5
  <2>7. \A k \in 1..arity : kids[k] = pending[waiting + k]
    BY <1>2, <2>4, <2>5
  <2>8. /\ types = [k \in 1..Arity(op) |-> nodes[kids[k]].type]
        /\ result = ResultOf(op, types) /\ op \in Operator /\ Len(kids) = Arity(op)
    BY <1>1, <2>3, <2>6
  <2>9. x = [op |-> op, of |-> "none", type |-> result.type, casts |-> result.casts,
             kids |-> IF op = "index" /\ IsSwapped(types[1], types[2])
                      THEN <<kids[2], kids[1]>> ELSE kids]
    BY <1>1
  <2>10. x \in Node /\ Fits(x, Len(nodes) + 1)
    BY <1>2, <2>1, <2>6, <2>8, <2>9, OperatorFits
  <2>11. /\ IsChecked(x)
         /\ \A k \in 1..Len(x.kids) : \E j \in 1..Arity(op) : x.kids[k] = kids[j]
    <3>1. Len(kids) = Arity(op)
      BY <2>3, <2>6
    <3>2. IsNodeOf(x, op, kids, types, result)
      BY <2>1, <2>8, <2>9 DEF IsNodeOf
    <3> QED BY <2>6, <2>8, <3>1, <3>2, OperatorChecked
  <2>12. PICK rest \in Seq(1..Len(nodes)) : rest = SubSeq(pending, 1, waiting)
    <3>1. SubSeq(pending, 1, waiting) \in Seq(1..Len(nodes))
      BY <1>2, <2>4, <2>5
    <3> QED BY <3>1
  <2>13. Len(rest) = waiting /\ \A i \in 1..waiting : rest[i] = pending[i]
    <3>1. PICK p \in Seq(1..Len(nodes)) : p = pending /\ Len(p) = last
      BY <1>2, <2>5
    <3>2. Len(SubSeq(p, 1, waiting)) = waiting
      BY <2>4, <3>1
    <3>3. \A i \in 1..waiting : SubSeq(p, 1, waiting)[i] = p[i]
      BY <2>4, <3>1
    <3> QED BY <2>12, <3>1, <3>2, <3>3
  <2>14. /\ \A i, j \in 1..last : i # j => pending[i] # pending[j]
         /\ \A i \in 1..last : \A m \in 1..Len(nodes) : ~IsKid(m, pending[i])
    BY <2>2 DEF WidthInv, IsTree
  <2>15. 1..waiting \subseteq 1..last
    BY <2>4
  <2>16. ASSUME NEW k \in 1..Len(x.kids)
         PROVE  \E j \in 1..last : j \notin 1..waiting /\ x.kids[k] = pending[j]
    <3>1. PICK j \in 1..arity : x.kids[k] = kids[j]
      BY <2>3, <2>11
    <3>2. waiting + j \in 1..last /\ waiting + j \notin 1..waiting
      BY <2>4
    <3> QED BY <2>7, <3>1, <3>2
  <2>17. /\ \A i, j \in 1..Len(rest) : i # j => rest[i] # rest[j]
         /\ \A i \in 1..Len(rest) : \A m \in 1..Len(nodes) : ~IsKid(m, rest[i])
    BY <2>13, <2>14, <2>15
  <2>18. \A i \in 1..Len(rest) : \A k \in 1..Len(x.kids) : x.kids[k] # rest[i]
    BY <2>13, <2>14, <2>15, <2>16
  <2>19. \A k \in 1..Len(x.kids) : \A m \in 1..Len(nodes) : ~IsKid(m, x.kids[k])
    BY <2>14, <2>16
  <2>20. phase = "typecheck" /\ pending' = Append(rest, Len(nodes) + 1)
    BY <1>1, <2>1, <2>12
  <2> QED BY <2>1, <2>10, <2>11, <2>17, <2>18, <2>19, <2>20, PushWidth
<1> QED BY <1>3, <1>4

LEMMA FinishWidth ==
  ASSUME ExpressionInv, WidthInv, FinishCheck
  PROVE  WidthInv'
<1>1. /\ Len(pending) = 1 /\ phase' = "compile" /\ ir.regs = <<>>
      /\ work' = <<Frame(pending[1], FALSE)>> /\ UNCHANGED <<nodes, pending, ir, value>>
  BY DEF FinishCheck, WidthInv
<1>2. PICK f : f = Frame(pending[1], FALSE)
  OBVIOUS
<1>3. PICK u : u = <<f>> /\ Len(u) = 1 /\ u[1] = f
  <2>1. Len(<<f>>) = 1 /\ <<f>>[1] = f
    OBVIOUS
  <2> QED BY <2>1
<1>4. f.node = pending[1] /\ Len(f.values) = 0
  BY <1>2 DEF Frame
<1>5. Rooted(u)
  BY <1>1, <1>3, <1>4 DEF Rooted
<1>6. CodeTyped(ir.regs)
  BY <1>1 DEF CodeTyped
<1>7. FramesTyped(u, ir.regs)
  <2>1. \A s : FrameTyped(f, s, ir.regs)
    BY <1>4 DEF FrameTyped
  <2>2. \A i \in 1..Len(u) : i = 1
    BY <1>3
  <2>3. \A i \in 2..Len(u) : FALSE
    BY <1>3
  <2> QED BY <1>3, <2>1, <2>2, <2>3 DEF FramesTyped
<1>8. Sound(u, ir.regs)
  BY <1>5, <1>6, <1>7 DEF Sound
<1>9. Sound(work', ir'.regs)
  BY <1>1, <1>2, <1>3, <1>8
<1> QED BY <1>1, <1>9, CompileWidth
LEMMA WidthNext == ExpressionInv /\ WidthInv /\ [Next]_vars => WidthInv'
<1> SUFFICES ASSUME ExpressionInv, WidthInv, [Next]_vars PROVE WidthInv'
  OBVIOUS
<1>0. NodesInv /\ CodeInv /\ (Ordinary => Ready)
  BY DEF ExpressionInv, WidthInv, Ready
<1>1. CASE CheckLeaf
  BY <1>1, LeafWidth
<1>2. CASE CheckOperator
  BY <1>2, OperatorWidth
<1>3. CASE FinishCheck
  BY <1>3, FinishWidth
<1>4. CASE CannotComputeLvalue
  <2>1. phase' = "failed" /\ UNCHANGED <<nodes, pending, work, ir, value>>
    BY <1>4 DEF CannotComputeLvalue
  <2>2. Ordinary => Sound(work', ir'.regs)
    BY <2>1 DEF WidthInv
  <2> QED BY <2>1, <2>2, CompileWidth
<1>5. CASE CompileVariable
  <2>1. UNCHANGED <<nodes, pending>>
    BY <1>5 DEF CompileVariable, At, Compiling
  <2>2. phase' # "typecheck"
    BY <1>0, <1>5, VariableKeeps
  <2>3. Ordinary => Sound(work', ir'.regs)
    BY <1>0, <1>5, VariableSound
  <2> QED BY <2>1, <2>2, <2>3, CompileWidth
<1>6. CASE CompileConstant
  <2>1. UNCHANGED <<nodes, pending>>
    BY <1>6 DEF CompileConstant, At, Compiling
  <2>2. phase' # "typecheck"
    BY <1>0, <1>6, ConstantKeeps
  <2>3. Ordinary => Sound(work', ir'.regs)
    BY <1>0, <1>6, ConstantSound
  <2> QED BY <2>1, <2>2, <2>3, CompileWidth
<1>7. CASE CompileOperand
  <2>1. UNCHANGED <<nodes, pending>>
    BY <1>7 DEF CompileOperand, Compiling
  <2>2. phase' # "typecheck"
    BY <1>0, <1>7, OperandKeeps
  <2>3. Ordinary => Sound(work', ir'.regs)
    BY <1>0, <1>7, OperandSound
  <2> QED BY <2>1, <2>2, <2>3, CompileWidth
<1>8. CASE CompileIndex
  <2>1. UNCHANGED <<nodes, pending>>
    BY <1>8 DEF CompileIndex, At, Compiling
  <2>2. phase' # "typecheck"
    BY <1>0, <1>8, IndexKeeps
  <2>3. Ordinary => Sound(work', ir'.regs)
    BY <1>0, <1>8, IndexSound
  <2> QED BY <2>1, <2>2, <2>3, CompileWidth
<1>9. CASE CompileDereference
  <2>1. UNCHANGED <<nodes, pending>>
    BY <1>9 DEF CompileDereference, At, Compiling
  <2>2. phase' # "typecheck"
    BY <1>0, <1>9, DereferenceKeeps
  <2>3. Ordinary => Sound(work', ir'.regs)
    BY <1>0, <1>9, DereferenceSound
  <2> QED BY <2>1, <2>2, <2>3, CompileWidth
<1>10. CASE CompileReference
  <2>1. UNCHANGED <<nodes, pending>>
    BY <1>10 DEF CompileReference, At, Compiling
  <2>2. phase' # "typecheck"
    BY <1>0, <1>10, ReferenceKeeps
  <2>3. Ordinary => Sound(work', ir'.regs)
    BY <1>0, <1>10, ReferenceSound
  <2> QED BY <2>1, <2>2, <2>3, CompileWidth
<1>11. CASE CompileMember
  <2>1. UNCHANGED <<nodes, pending>>
    BY <1>11 DEF CompileMember, At, Compiling
  <2>2. phase' # "typecheck"
    BY <1>0, <1>11, MemberKeeps
  <2>3. Ordinary => Sound(work', ir'.regs)
    BY <1>0, <1>11, MemberSound
  <2> QED BY <2>1, <2>2, <2>3, CompileWidth
<1>12. CASE CompileSizeof
  <2>1. UNCHANGED <<nodes, pending>>
    BY <1>12 DEF CompileSizeof, At, Compiling
  <2>2. phase' # "typecheck"
    BY <1>0, <1>12, SizeofKeeps
  <2>3. Ordinary => Sound(work', ir'.regs)
    BY <1>0, <1>12, SizeofSound
  <2> QED BY <2>1, <2>2, <2>3, CompileWidth
<1>13. CASE CompileApply
  <2>1. UNCHANGED <<nodes, pending>>
    BY <1>13 DEF CompileApply, At, Compiling
  <2>2. phase' # "typecheck"
    BY <1>0, <1>13, ApplyKeeps
  <2>3. Ordinary => Sound(work', ir'.regs)
    BY <1>0, <1>13, ApplySound
  <2> QED BY <2>1, <2>2, <2>3, CompileWidth
<1>14. CASE CompileBinary
  <2>1. UNCHANGED <<nodes, pending>>
    BY <1>14 DEF CompileBinary, At, Compiling
  <2>2. phase' # "typecheck"
    BY <1>0, <1>14, BinaryKeeps
  <2>3. Ordinary => Sound(work', ir'.regs)
    BY <1>0, <1>14, BinarySound
  <2> QED BY <2>1, <2>2, <2>3, CompileWidth
<1>15. CASE CompileNegation
  <2>1. UNCHANGED <<nodes, pending>>
    BY <1>15 DEF CompileNegation, At, Compiling
  <2>2. phase' # "typecheck"
    BY <1>0, <1>15, NegationKeeps
  <2>3. Ordinary => Sound(work', ir'.regs)
    BY <1>0, <1>15, NegationSound
  <2> QED BY <2>1, <2>2, <2>3, CompileWidth
<1>16. CASE CompileNot
  <2>1. UNCHANGED <<nodes, pending>>
    BY <1>16 DEF CompileNot, At, Compiling
  <2>2. phase' # "typecheck"
    BY <1>0, <1>16, NotKeeps
  <2>3. Ordinary => Sound(work', ir'.regs)
    BY <1>0, <1>16, NotSound
  <2> QED BY <2>1, <2>2, <2>3, CompileWidth
<1>17. CASE CompileAssign
  <2>1. UNCHANGED <<nodes, pending>>
    BY <1>17 DEF CompileAssign, At, Compiling
  <2>2. phase' # "typecheck"
    BY <1>0, <1>17, AssignKeeps
  <2>3. Ordinary => Sound(work', ir'.regs)
    BY <1>0, <1>17, AssignSound
  <2> QED BY <2>1, <2>2, <2>3, CompileWidth
<1>18. CASE CompileCondition
  <2>1. UNCHANGED <<nodes, pending>>
    BY <1>18 DEF CompileCondition, At, Compiling
  <2>2. phase' # "typecheck"
    BY <1>0, <1>18, ConditionKeeps
  <2>3. Ordinary => Sound(work', ir'.regs)
    BY <1>0, <1>18, ConditionSound
  <2> QED BY <2>1, <2>2, <2>3, CompileWidth
<1>19. CASE BranchLogical
  <2>1. UNCHANGED <<nodes, pending>>
    BY <1>19 DEF BranchLogical, At, Compiling
  <2>2. phase' # "typecheck"
    BY <1>0, <1>19, BranchLogicalKeeps
  <2>3. Ordinary => Sound(work', ir'.regs)
    BY <1>0, <1>19, BranchLogicalSound
  <2> QED BY <2>1, <2>2, <2>3, CompileWidth
<1>20. CASE JoinLogical
  <2>1. UNCHANGED <<nodes, pending>>
    BY <1>20 DEF JoinLogical, At, Compiling
  <2>2. phase' # "typecheck"
    BY <1>0, <1>20, JoinLogicalKeeps
  <2>3. Ordinary => Sound(work', ir'.regs)
    BY <1>0, <1>20, JoinLogicalSound
  <2> QED BY <2>1, <2>2, <2>3, CompileWidth
<1>21. CASE BranchTernary
  <2>1. UNCHANGED <<nodes, pending>>
    BY <1>21 DEF BranchTernary, At, Compiling
  <2>2. phase' # "typecheck"
    BY <1>0, <1>21, BranchTernaryKeeps
  <2>3. Ordinary => Sound(work', ir'.regs)
    BY <1>0, <1>21, BranchTernarySound
  <2> QED BY <2>1, <2>2, <2>3, CompileWidth
<1>22. CASE ElseTernary
  <2>1. UNCHANGED <<nodes, pending>>
    BY <1>22 DEF ElseTernary, At, Compiling
  <2>2. phase' # "typecheck"
    BY <1>0, <1>22, ElseTernaryKeeps
  <2>3. Ordinary => Sound(work', ir'.regs)
    BY <1>0, <1>22, ElseTernarySound
  <2> QED BY <2>1, <2>2, <2>3, CompileWidth
<1>23. CASE JoinTernary
  <2>1. UNCHANGED <<nodes, pending>>
    BY <1>23 DEF JoinTernary, At, Compiling
  <2>2. phase' # "typecheck"
    BY <1>0, <1>23, JoinTernaryKeeps
  <2>3. Ordinary => Sound(work', ir'.regs)
    BY <1>0, <1>23, JoinTernarySound
  <2> QED BY <2>1, <2>2, <2>3, CompileWidth
<1>24. CASE UNCHANGED vars
  <2>1. UNCHANGED <<phase, nodes, pending, work, ir, value>>
    BY <1>24 DEF vars
  <2>2. Checked' /\ IsTree' /\ (Ordinary' => Ordinary)
    BY <2>1, NodesKept DEF WidthInv
  <2>3. ASSUME Ordinary' PROVE Sound(work, ir.regs)'
    <3>1. PICK u, regs : u = work /\ regs = ir.regs /\ work' = u /\ ir'.regs = regs
      BY <2>1
    <3>2. Sound(u, regs)
      BY <2>2, <2>3, <3>1 DEF WidthInv
    <3> QED BY <2>1, <3>1, <3>2, SoundKept
  <2> QED BY <2>1, <2>2, <2>3 DEF WidthInv
<1> QED
  BY <1>1, <1>2, <1>3, <1>4, <1>5, <1>6, <1>7, <1>8, <1>9, <1>10, <1>11, <1>12, <1>13, <1>14,
     <1>15, <1>16, <1>17, <1>18, <1>19, <1>20, <1>21, <1>22, <1>23, <1>24 DEF Next

\* What the type checker promised of the nodes, and the code keeps.
THEOREM WidthInvariant == Spec => [](ExpressionInv /\ WidthInv)
<1>1. Init => ExpressionInv /\ WidthInv
  BY CodegenInit, WidthInit
<1>2. ExpressionInv /\ WidthInv /\ [Next]_vars => ExpressionInv' /\ WidthInv'
  BY CodegenNext, WidthNext
<1> QED BY <1>1, <1>2, PTL DEF Spec

\* Whatever expression the type checker accepts, the instructions that are emitted
\* for it take operands of the types they have, while it is compiled and when it
\* is done, unless it is one of the five kinds that the checker should have
\* refused: the operand of an arithmetic, of a comparison, of a phi, of a store or
\* of a load has the type that the builder asks for (program.cpp:129).
THEOREM ExpressionsAreWellTyped == Spec => []AcceptedExpressionsAreWellTyped
<1>1. ExpressionInv /\ WidthInv => AcceptedExpressionsAreWellTyped
  <2> SUFFICES ASSUME WidthInv, Ordinary PROVE IllTyped = {}
    BY DEF AcceptedExpressionsAreWellTyped, Ordinary
  <2>1. CodeTyped(ir.regs)
    BY DEF WidthInv, Sound
  <2> QED BY <2>1 DEF CodeTyped, Typed, IllTyped, Latest
<1> QED BY <1>1, WidthInvariant, PTL
==============================================================================
