--------------------------- MODULE ExpressionCodegen ---------------------------
(***************************************************************************)
(* The code of an expression: its nodes are type checked bottom up and     *)
(* then compiled top down into basic blocks.                               *)
(*                                                                         *)
(* compileRValue and compileLValue call each other for the operands;       *)
(* "work" holds the calls that are active, the innermost first, and a step *)
(* is the code between two calls.  An int has 32 bits, a char 8, a         *)
(* comparison 1: instructions whose operands have the wrong type are       *)
(* emitted here all the same, where the builder of LLVM stops with an      *)
(* assertion, if it has them.                                              *)
(***************************************************************************)
EXTENDS ExpressionTypes

CONSTANTS
  TypeOfVariable,   \* the variables, with their types
  Vocabularies,     \* sets of leaves and operators: an expression keeps to one of them
  MaxNodes          \* bound: the nodes of the expressions of each vocabulary

Variable == DOMAIN TypeOfVariable
Constant == {"zero", "one", "call", "string"}     \* the other leaves: 0, 1, a call of a void function

Prefix == {"negation", "not", "dereference", "reference", "sizeof", ".", "->", "apply"}
Arity(op) == CASE op = "?:" -> 3 [] op \in Prefix -> 1 [] OTHER -> 2
Comparison == {"<", "==", "!="}
Logical == {"&&", "||"}
Branching == Logical \cup {"?:"}
Operator == {"*", "+", "-", "=", "index"} \cup Prefix \cup Comparison \cup Branching

ASSUME ExpressionAssumption ==
  /\ Variable \cap Constant = {}     \* the names of the leaves tell them apart
  /\ \A v \in Variable : {TypeOfVariable[v], Pointer(TypeOfVariable[v])} \subseteq Type
  /\ Vocabularies \subseteq SUBSET (Variable \cup Constant \cup Operator)
  /\ MaxNodes \in [Vocabularies -> Nat]

VARIABLES
  phase,     \* "typecheck", "compile", "compiled", "rejected" or "failed"
  nodes,     \* the typed nodes, operands before their operators
  pending,   \* the nodes that wait for their operator
  work,      \* the active calls of compileRValue and compileLValue
  ir,        \* the code: its registers, its blocks and the insert point
  value      \* the register of the expression, or NoValue

vars == <<phase, nodes, pending, work, ir, value>>

Node == [op : Operator \cup {"variable", "constant"}, of : Variable \cup Constant \cup {"none"},
         kids : Seq(Nat), type : Type, casts : Seq(Type \cup {NoType})]

(***************************************************************************)
(* LLVM.  Each instruction has a register; the extensions to 32 bits that  *)
(* the operators ask for are part of their instructions.                   *)
(***************************************************************************)
LlvmInt == {"i1", "i8", "i32"}
LlvmType == LlvmInt \cup {"ptr", "struct", "void"}
ToLlvm(t) ==
  CASE Kind(t) = "int" -> "i32" [] Kind(t) = "char" -> "i8"
    [] Kind(t) \in {"nullptr", "pointer"} -> "ptr" [] OTHER -> Kind(t)
NoValue == 0     \* a null llvm::Value*

OpCode ==
  {"address", "const", "null", "call", "string", "load", "store", "field", "size", "apply",
   "intcast", "inttoptr", "ptrtoint", "nonzero", "is zero", "zext", "phi", "mul", "add", "sub",
   "neg", "<", "==", "!=", "shift", "shift back", "difference"}
\* of: the variable, the constant or the type pointed to; from: the blocks of a phi.
Instruction == [op : OpCode, type : LlvmType, args : Seq(Nat), from : Seq(Nat),
                of : Variable \cup Constant \cup LlvmType \cup TypeKind \cup {"none"}]
Instr(op, type, args) == [op |-> op, type |-> type, args |-> args, of |-> "none", from |-> <<>>]
Of(i, name) == [i EXCEPT !.of = name]
Phi(type, args, from) == [Instr("phi", type, args) EXCEPT !.from = from]

Block == [code : Seq(Nat), cond : Nat, to : Seq(Nat)]
EmptyBlock == [code |-> <<>>, cond |-> 0, to |-> <<>>]

Latest(g) == Len(g.regs)
Emit(g, i) ==
  [g EXCEPT !.regs = Append(@, i), !.blocks[g.at].code = Append(@, Latest(g) + 1)]
\* A block ends with a branch: one target, or two and the register that decides.
EndWith(g, cond, to) == [g EXCEPT !.blocks[g.at].cond = cond, !.blocks[g.at].to = to]
\* Mutant: the last block is forgotten.
WithoutEnd(g, n) == [g EXCEPT !.blocks = @ \o [k \in 1..(n - 1) |-> EmptyBlock]]
WithBlocks(g, n) == [g EXCEPT !.blocks = @ \o [k \in 1..n |-> EmptyBlock]]
SetInsertPoint(g, b) == [g EXCEPT !.at = b]

CodegenTypeOK ==
  /\ phase \in {"typecheck", "compile", "compiled", "rejected", "failed"}
  /\ nodes \in Seq(Node)
  /\ pending \in Seq(1..Len(nodes))
  /\ work \in Seq([node : 1..Len(nodes), lvalue : BOOLEAN, values : Seq(0..Latest(ir)),
                   blocks : Seq(1..Len(ir.blocks))])
  /\ ir.regs \in Seq(Instruction) /\ ir.blocks \in Seq(Block)
  /\ ir.at \in 1..Len(ir.blocks)
  /\ value \in 0..Latest(ir)

Init ==
  /\ phase = "typecheck" /\ nodes = <<>> /\ pending = <<>> /\ work = <<>>
  /\ ir = [regs |-> <<>>, blocks |-> <<EmptyBlock>>, at |-> 1]
  /\ value = NoValue
------------------------------------------------------------------------------
(***************************************************************************)
(* The type checker.                                                       *)
(***************************************************************************)
Symbol(node) == IF node.of = "none" THEN node.op ELSE node.of
InBounds(symbol) ==
  \E V \in Vocabularies :
    /\ Len(nodes) < MaxNodes[V] /\ symbol \in V
    /\ \A n \in DOMAIN nodes : Symbol(nodes[n]) \in V

Push(node) == nodes' = Append(nodes, node) /\ UNCHANGED <<phase, work, ir, value>>

LeafType(of) ==
  CASE of \in Variable -> TypeOfVariable[of]
    [] of = "zero" -> NullptrType [] of = "one" -> IntType [] of = "call" -> VoidType
    [] of = "string" -> StringType

CheckLeaf ==
  /\ phase = "typecheck"
  /\ pending' = Append(pending, Len(nodes) + 1)
  /\ \E x \in Variable \cup Constant :
       InBounds(x) /\ Push([op |-> IF x \in Variable THEN "variable" ELSE "constant", of |-> x,
             kids |-> <<>>, type |-> LeafType(x), casts |-> <<>>])

\* isLvalue; no constant but a string is one.
IsLvalue[n \in 1..Len(nodes)] ==
  \/ nodes[n].op \in {"variable", "dereference", "index", "->"} \/ nodes[n].of = "string"
  \/ nodes[n].op = "." /\ IsLvalue[nodes[n].kids[1]]

\* What an operator asks of its first operand.
SuitableOperand(op, n) ==
  /\ op \in {"reference", "="} => IsLvalue[n]
  /\ op = "=" => IsComplete(nodes[n].type)

CheckOperator ==
  \E op \in Operator :
    LET waiting == Len(pending) - Arity(op)
        kids == SubSeq(pending, waiting + 1, Len(pending))
        types == [k \in 1..Arity(op) |-> nodes[kids[k]].type]
        result == ResultOf(op, types) IN
    /\ phase = "typecheck" /\ waiting >= 0 /\ InBounds(op)
    /\ IF result = Illegal \/ ~SuitableOperand(op, kids[1])
       THEN phase' = "rejected" /\ UNCHANGED <<nodes, pending, work, ir, value>>
       ELSE /\ pending' = Append(SubSeq(pending, 1, waiting), Len(nodes) + 1)
            /\ Push([op |-> op, of |-> "none", type |-> result.type, casts |-> result.casts,
                     kids |-> IF op = "index" /\ IsSwapped(types[1], types[2])
                              THEN <<kids[2], kids[1]>> ELSE kids])

Frame(n, lvalue) == [node |-> n, lvalue |-> lvalue, values |-> <<>>, blocks |-> <<>>]

FinishCheck ==
  /\ phase = "typecheck" /\ Len(pending) = 1
  /\ phase' = "compile"
  /\ work' = <<Frame(pending[1], FALSE)>>
  /\ UNCHANGED <<nodes, pending, ir, value>>
------------------------------------------------------------------------------
(***************************************************************************)
(* Casts.                                                                  *)
(***************************************************************************)
\* The operands that are compiled, and those of which only the lvalue is.
OperandCount(n) == IF nodes[n].op = "sizeof" THEN 0 ELSE Len(nodes[n].kids)
\* Mutant: an arrow takes its pointer as a dot takes its struct.
TakesLvalueForArrow(n, k) == k = 1 /\ nodes[n].op \in {"reference", ".", "->", "="}
TakesLvalue(n, k) == k = 1 /\ nodes[n].op \in {"reference", ".", "="}
Operand(n, k) == nodes[n].kids[k]
CastOf(n, k)  == nodes[n].casts[k]
\* The type of the operand as its operator sees it.
CastType(n, k) == IF CastOf(n, k) = NoType THEN nodes[Operand(n, k)].type ELSE CastOf(n, k)

\* CastExpression::convertNullptrs
ConvertsNull(from, to) == Kind(from) = "nullptr" /\ Kind(to) \in {"int", "char"}

\* CastExpression::castArithmetics; the mutant forgets the chars.
CastsPointers(g, r, from, to) ==
  IF IsPointer(from) /\ Kind(to) = "int" THEN Emit(g, Instr("ptrtoint", "i32", <<r>>)) ELSE g
Cast(g, r, from, to) ==
  IF to = NoType \/ Equals[from][to] THEN g
  ELSE IF \/ Kind(from) = "char" /\ IsInteger(to)
          \/ IsInteger(from) /\ Kind(to) = "char" THEN Emit(g, Instr("intcast", ToLlvm(to), <<r>>))
  ELSE IF IsInteger(from) /\ IsPointer(to) THEN Emit(g, Instr("inttoptr", ToLlvm(to), <<r>>))
  ELSE IF IsPointer(from) /\ IsInteger(to) THEN Emit(g, Instr("ptrtoint", ToLlvm(to), <<r>>))
  ELSE g

\* toBoolTy
ToBool(g, r) ==
  IF g.regs[r].type \in {"i32", "i8", "ptr"} THEN Emit(g, Instr("nonzero", "i1", <<r>>)) ELSE g

\* The register of r after code was perhaps emitted to convert it.
Converted(g, h, r) == IF h = g THEN r ELSE Latest(h)
------------------------------------------------------------------------------
(***************************************************************************)
(* The compileRValue and compileLValue functions.                          *)
(***************************************************************************)
Current == work[1].node
Values == work[1].values
Op == nodes[Current].op
HasLvalue == Op \in {"variable", "dereference", "index", ".", "->"}
Compiling ==
  phase = "compile" /\ (work[1].lvalue => HasLvalue) /\ UNCHANGED <<nodes, pending>>
At(op, computed) == Compiling /\ Op \in op /\ Len(Values) = computed

\* Compile operand k in the code g; a null pointer constant that is cast to an
\* integer is the constant, whatever the operand.
CallOperand(f, g, k) ==
  LET n == Operand(f.node, k)  to == CastOf(f.node, k)
      h == Emit(g, Of(Instr("const", ToLlvm(to), <<>>), "zero")) IN
  /\ UNCHANGED <<phase, value>>
  /\ IF ConvertsNull(nodes[n].type, to)
     THEN ir' = h /\ work' = <<[f EXCEPT !.values = Append(@, Latest(h))]>> \o Tail(work)
     ELSE ir' = g /\ work' = <<Frame(n, TakesLvalue(f.node, k)), f>> \o Tail(work)

\* The call returns the register r, which its caller casts.
Return(g, r) ==
  IF Len(work) = 1
  THEN ir' = g /\ value' = r /\ phase' = "compiled" /\ work' = <<>>
  ELSE LET f == work[2]
           h == Cast(g, r, nodes[Current].type, CastOf(f.node, Len(f.values) + 1)) IN
       /\ ir' = h /\ UNCHANGED <<phase, value>>
       /\ work' = <<[f EXCEPT !.values = Append(@, Converted(g, h, r))]>> \o SubSeq(work, 3, Len(work))

\* The code g has computed the address of an lvalue.
ReturnFrom(g, address) ==
  LET h == Emit(g, Instr("load", ToLlvm(nodes[Current].type), <<address>>)) IN
  IF work[1].lvalue THEN Return(g, address) ELSE Return(h, Latest(h))

CompileVariable ==
  LET g == Emit(ir, Of(Instr("address", "ptr", <<>>), nodes[Current].of)) IN
  At({"variable"}, 0) /\ ReturnFrom(g, Latest(g))

CompileConstant ==
  LET leaf == nodes[Current]
      i == Instr(CASE leaf.of = "zero" -> "null" [] leaf.of = "one" -> "const" [] OTHER -> leaf.of,
                 ToLlvm(leaf.type), <<>>)
      g == Emit(ir, Of(i, leaf.of)) IN
  At({"constant"}, 0) /\ Return(g, Latest(g))

\* Expression::compileLValue
CannotComputeLvalue ==
  /\ phase = "compile" /\ work[1].lvalue /\ ~HasLvalue
  /\ phase' = "failed" /\ UNCHANGED <<nodes, pending, work, ir, value>>

CompileOperand ==
  /\ Compiling /\ Op \notin Branching /\ Len(Values) < OperandCount(Current)
  /\ CallOperand(work[1], ir, Len(Values) + 1)

Width(regs, r) == IF r = NoValue THEN "none" ELSE regs[r].type
\* The type of the elements of an array; a null pointer constant has none.
Pointed(t) == IF Kind(t) = "pointer" THEN Kind(Inner(t)) ELSE "nullptr"

Shift(op, p, k, t) == Of(Instr(op, "ptr", <<p, k>>), Pointed(t))
AddCode(l, r) ==
  LET s == CastType(Current, 1)  t == CastType(Current, 2) IN
  IF IsPointer(s) THEN Shift("shift", l, r, s)
  ELSE IF IsPointer(t) THEN Shift("shift", r, l, t)
  ELSE Instr("add", "i32", <<l, r>>)

SubtractCode(l, r) ==
  LET s == CastType(Current, 1)  t == CastType(Current, 2) IN
  IF Width(ir.regs, l) = "ptr" /\ Width(ir.regs, r) = "ptr"
  THEN Of(Instr("difference", "i32", <<l, r>>), Pointed(IF s = NullptrType THEN t ELSE s))
  ELSE IF IsPointer(s) THEN Shift("shift back", l, r, s)
  ELSE Instr("sub", "i32", <<l, r>>)

CompileBinary ==
  LET l == Values[1]  r == Values[2]
      g == Emit(ir, CASE Op = "*" -> Instr("mul", "i32", <<l, r>>)
                      [] Op = "+" -> AddCode(l, r)
                      [] Op = "-" -> SubtractCode(l, r)
                      [] OTHER    -> Instr(Op, "i1", <<l, r>>)) IN
  At({"*", "+", "-"} \cup Comparison, 2) /\ Return(g, Latest(g))

CompileNegation ==
  LET g == Emit(ir, Instr("neg", "i32", Values)) IN
  At({"negation"}, 1) /\ Return(g, Latest(g))

CompileNot ==
  LET b == ToBool(ir, Values[1])
      g == Emit(b, Instr("is zero", "i32", <<Converted(ir, b, Values[1])>>)) IN
  At({"not"}, 1) /\ Return(g, Latest(g))

CompileAssign ==
  LET g == Emit(ir, Of(Instr("store", "void", Values), ToLlvm(nodes[Current].type))) IN
  At({"="}, 2) /\ Return(g, Values[2])

CompileIndex ==
  LET g == Emit(ir, Shift("shift", Values[1], Values[2], nodes[Operand(Current, 1)].type)) IN
  At({"index"}, 2) /\ ReturnFrom(g, Latest(g))

CompileDereference == At({"dereference"}, 1) /\ ReturnFrom(ir, Values[1])
CompileReference   == At({"reference"}, 1) /\ Return(ir, Values[1])

CompileMember ==
  LET g == Emit(ir, Instr("field", "ptr", Values)) IN
  At({".", "->"}, 1) /\ ReturnFrom(g, Latest(g))

\* getStringLength
IsString(n) == nodes[n].of = "string"
IsStringAddress(n) == nodes[n].op = "reference" /\ IsString(Operand(n, 1))
HasStringLength(n) ==
  IsString(n) \/ (nodes[n].op = "dereference" /\ IsStringAddress(Operand(n, 1)))

\* The operand of sizeof is not compiled.
CompileSizeof ==
  LET n == nodes[Current].kids[1]
      g == Emit(ir, Of(Instr("size", "i32", <<>>),
                       IF HasStringLength(n) THEN "string" ELSE ToLlvm(nodes[n].type))) IN
  At({"sizeof"}, 0) /\ Return(g, Latest(g))

CompileApply ==
  LET g == Emit(ir, Instr("apply", ToLlvm(CharType), Values)) IN
  At({"apply"}, 1) /\ Return(g, Latest(g))

(***************************************************************************)
(* The operators that branch.  The block in which an operand ends is not   *)
(* the one in which it begins, if it branches itself.  Mutants: it is the  *)
(* last but one that was created; || has the targets of &&.                *)
(***************************************************************************)
BlockOfOperand(g) == Len(g.blocks) - 1
InsertBlock(g) == g.at
SameTargets(op, rhs, end) == <<rhs, end>>
Targets(op, rhs, end) == IF op = "&&" THEN <<rhs, end>> ELSE <<end, rhs>>

BranchLogical ==
  LET g == ToBool(ir, Values[1])  lhs == Converted(ir, g, Values[1])
      rhs == Len(g.blocks) + 1  end == rhs + 1
      h == SetInsertPoint(WithBlocks(EndWith(g, lhs, Targets(Op, rhs, end)), 2), rhs) IN
  /\ At(Logical, 1)
  /\ CallOperand([work[1] EXCEPT !.values = <<lhs>>, !.blocks = <<g.at, end>>], h, 2)

JoinLogical ==
  LET g == ToBool(ir, Values[2])  rhs == Converted(ir, g, Values[2])
      lhsBlock == work[1].blocks[1]  end == work[1].blocks[2]
      h == Emit(SetInsertPoint(EndWith(g, NoValue, <<end>>), end),
                Phi("i1", <<Values[1], rhs>>, <<lhsBlock, InsertBlock(g)>>))
      z == Emit(h, Instr("zext", "i32", <<Latest(h)>>)) IN
  At(Logical, 2) /\ Return(z, Latest(z))

BranchTernary ==
  LET g == ToBool(ir, Values[1])  condition == Converted(ir, g, Values[1])
      lhs == Len(g.blocks) + 1  rhs == lhs + 1  end == lhs + 2
      h == SetInsertPoint(WithBlocks(EndWith(g, condition, <<lhs, rhs>>), 3), lhs) IN
  /\ At({"?:"}, 1)
  /\ CallOperand([work[1] EXCEPT !.blocks = <<lhs, rhs, end>>], h, 2)

ElseTernary ==
  LET f == work[1]
      g == SetInsertPoint(EndWith(ir, NoValue, <<f.blocks[3]>>), f.blocks[2]) IN
  /\ At({"?:"}, 2)
  /\ CallOperand([f EXCEPT !.blocks[1] = InsertBlock(ir)], g, 3)

JoinTernary ==
  LET end == work[1].blocks[3]
      g == SetInsertPoint(EndWith(ir, NoValue, <<end>>), end)
      h == Emit(g, Phi(Width(ir.regs, Values[2]), <<Values[2], Values[3]>>,
                       <<work[1].blocks[1], InsertBlock(ir)>>)) IN
  /\ At({"?:"}, 3)
  /\ IF nodes[Current].type = VoidType THEN Return(g, NoValue) ELSE Return(h, Latest(h))

CompileCondition == At(Branching, 0) /\ CallOperand(work[1], ir, 1)

Next ==
  \/ CheckLeaf \/ CheckOperator \/ FinishCheck
  \/ CompileVariable \/ CompileConstant \/ CannotComputeLvalue
  \/ CompileOperand \/ CompileIndex \/ CompileDereference \/ CompileReference \/ CompileMember
  \/ CompileSizeof \/ CompileApply \/ CompileBinary \/ CompileNegation \/ CompileNot
  \/ CompileAssign \/ CompileCondition \/ BranchLogical \/ JoinLogical
  \/ BranchTernary \/ ElseTernary \/ JoinTernary

Spec == Init /\ [][Next]_vars
------------------------------------------------------------------------------
(***************************************************************************)
(* What the instructions take.                                             *)
(***************************************************************************)
AreInts(regs, rs) == \A k \in DOMAIN rs : Width(regs, rs[k]) \in LlvmInt
IsSized(pointed) == pointed \notin {"void", "nullptr"}
IsWellTyped(regs, i) ==
  LET W(k) == Width(regs, i.args[k]) IN
  CASE i.op \in {"add", "sub", "mul", "neg", "intcast", "inttoptr"} -> AreInts(regs, i.args)
    [] i.op \in Comparison -> W(1) = W(2) /\ W(1) \in LlvmInt \cup {"ptr"}
    [] i.op = "phi"        -> W(1) = W(2)
    [] i.op = "ptrtoint"   -> W(1) = "ptr"
    [] i.op \in {"shift", "shift back"} -> W(1) = "ptr" /\ W(2) \in LlvmInt /\ IsSized(i.of)
    [] i.op = "difference" -> W(1) = "ptr" /\ W(2) = "ptr" /\ IsSized(i.of)
    [] i.op = "load"       -> W(1) = "ptr" /\ i.type # "void"
    [] i.op = "store"      -> W(1) = "ptr" /\ W(2) = i.of
    [] i.op = "size"       -> IsSized(i.of)
    [] i.op = "apply"      -> W(1) = "i8"
    [] i.op = "field"      -> W(1) = "ptr"
    [] i.op \in {"zext", "is zero"} -> W(1) = "i1"
    [] OTHER -> TRUE
IllTyped == {r \in 1..Latest(ir) : ~IsWellTyped(ir.regs, ir.regs[r])}

\* What the code does not get right, in the expression.
TypeOf(n) == nodes[n].type
Decides(n, k) == nodes[n].op \in Logical \cup {"not"} \/ (nodes[n].op = "?:" /\ k = 1)

\* A comparison has an i1, not the i32 of its type.
ComparisonIsValue == \E n \in 1..Len(nodes) : \E k \in 1..OperandCount(n) :
  nodes[Operand(n, k)].op \in Comparison /\ ~Decides(n, k)
\* 0 is cast to int only if the other operand is an int or a char.
ComputesWithNull == \E n \in 1..Len(nodes) : \E k \in 1..OperandCount(n) :
  nodes[n].op \in {"*", "+", "-", "negation"} /\ CastType(n, k) = NullptrType
\* Structs are comparable, and so is what has no value.
ComparesStructs == \E n \in 1..Len(nodes) : \E k \in 1..OperandCount(n) :
  nodes[n].op \in Comparison /\ TypeOf(Operand(n, k)) \in {StructType, VoidType}
\* A void* equals every type, and its elements have no size.
ComputesWithVoidPointer == \E n \in 1..Len(nodes) :
  LET count == Len(nodes[n].kids) IN
  \/ nodes[n].op = "apply" /\ TypeOf(nodes[n].kids[1]) = Pointer(VoidType)
  \/ /\ count >= 2 /\ nodes[n].op # "="
     /\ \E l, r \in {nodes[n].kids[count - 1], nodes[n].kids[count]} :
          TypeOf(l) = Pointer(VoidType) /\ (nodes[n].op = "+" \/ ~IsPointer(TypeOf(r)))
\* A variable of type void, or what a void* points to, is loaded or has its size taken.
LoadsVoid == \E n \in 1..Len(nodes) :
  LET users == {nodes[m].op : m \in {m \in 1..Len(nodes) : nodes[m].kids = <<n>>}} IN
  /\ TypeOf(n) = VoidType
  /\ "sizeof" \in users \/ (nodes[n].op \in {"variable", "dereference"} /\ "reference" \notin users)

(***************************************************************************)
(* The instructions of an expression that the type checker accepts have    *)
(* operands of the types they take, but in five kinds of expressions       *)
(* (program.cpp:129, which does not look at the result of verifyModule).   *)
(***************************************************************************)
AcceptedExpressionsAreWellTyped ==
  \/ IllTyped = {}
  \/ ComparisonIsValue \/ ComputesWithNull \/ ComparesStructs \/ ComputesWithVoidPointer
  \/ LoadsVoid

(***************************************************************************)
(* The code generator takes addresses only where the type checker has seen *)
(* an lvalue, except of strings, and of structs that are only values, as   *)
(* in (s = t).x: it stops there, with an expression that was accepted      *)
(* (primary.cpp:133, suffix.cpp:186-215, expression.cpp:22).               *)
(***************************************************************************)
AcceptedExpressionsCompile ==
  phase = "failed" => \E n \in 1..Len(nodes) :
    /\ nodes[n].op \in {"reference", "=", "."}
    /\ IsString(nodes[n].kids[1]) \/ (nodes[n].op = "." /\ ~IsLvalue[nodes[n].kids[1]])

(***************************************************************************)
(* The blocks a phi names are the blocks that branch to its own, also when *)
(* an operand has branches of its own (binary.cpp:336, ternary.cpp:77).    *)
(***************************************************************************)
Predecessors(b) == {p \in 1..Len(ir.blocks) : \E k \in DOMAIN ir.blocks[p].to : ir.blocks[p].to[k] = b}
PhisMatchPredecessors ==
  \A b \in 1..Len(ir.blocks) : \A k \in DOMAIN ir.blocks[b].code :
    LET i == ir.regs[ir.blocks[b].code[k]] IN
    i.op = "phi" => {i.from[1], i.from[2]} = Predecessors(b) /\ i.from[1] # i.from[2]

(***************************************************************************)
(* An assignment stores a value, and has one, of the type of its left      *)
(* operand (the comment at binary.cpp:436).                                *)
(***************************************************************************)
AssignmentsHaveTheTypeOfTheLeft ==
  \A r \in 1..Latest(ir) :
    ir.regs[r].op = "store" =>
      Width(ir.regs, ir.regs[r].args[2]) = ir.regs[r].of
==============================================================================
