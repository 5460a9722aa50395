-------------------------- MODULE ExpressionExecution --------------------------
(***************************************************************************)
(* What the code of an expression computes, and what the expression means  *)
(* in C; the operands are evaluated from left to right, one of the orders  *)
(* C allows.                                                               *)
(*                                                                         *)
(* The widths are small: 3 bits for an int, 2 for a char, 5 for a pointer. *)
(* The elements of an array have size 1; a variable is one cell of the     *)
(* memory, and so is a string.  The field of a struct is its first and has *)
(* its address; "apply" returns its argument.                              *)
(***************************************************************************)
EXTENDS ExpressionCodegen, SequencesExt

CONSTANTS
  AddressOf,   \* the addresses of the variables and of the string
  Addresses,   \* the values of pointers
  Integer      \* the values of the other variables

Bits == [i1 |-> 1, i8 |-> 2, i32 |-> 3, ptr |-> 5]
Signed(w, v) == LET m == 2 ^ Bits[w] IN ((v + m \div 2) % m) - m \div 2
Unsigned(w, v) == v % 2 ^ Bits[w]
Truth(b) == IF b THEN 1 ELSE 0

\* A char variable holds the integers that fit.
Fits(t, v) == Kind(t) # "char" \/ v = Signed("i8", v)
Valued == {x \in Variable : TypeOfVariable[x] # VoidType}
Store ==
  {s \in [Valued -> Integer \cup Addresses] :
     \A x \in Valued :
       IF IsPointer(TypeOfVariable[x]) THEN s[x] \in Addresses
       ELSE s[x] \in Integer /\ Fits(TypeOfVariable[x], s[x])}
\* The stores that differ in the variables V, those of the expression.
Stores ==
  {[uses |-> V, stores |-> {[x \in Variable |-> IF x \in V THEN s[x] ELSE 0] : s \in Store}] :
     V \in SUBSET Valued}
StoresOf(V) == (CHOOSE s \in Stores : s.uses = V).stores

(***************************************************************************)
(* The memory.  It can be used through addresses of cells that have the    *)
(* type in LLVM, and the string is constant; it is not valid any longer    *)
(* once it was used in another way.                                        *)
(***************************************************************************)
CellType(x) == IF x = "string" THEN "i8" ELSE ToLlvm(TypeOfVariable[x])
Cells(a, w) ==
  {x \in Variable \cup {"string"} :
     AddressOf[x] = a /\ (CellType(x) = w \/ (CellType(x) = "struct" /\ w = ToLlvm(FieldType)))}
Memory(s) == [cells |-> [x \in Variable \cup {"string"} |-> IF x = "string" THEN 1 ELSE s[x]],
              valid |-> TRUE]
Load(m, a, w) == IF Cells(a, w) = {} THEN 0 ELSE m.cells[CHOOSE x \in Cells(a, w) : TRUE]
AfterLoad(m, a, w) == [m EXCEPT !.valid = @ /\ Cells(a, w) # {}]
AfterStore(m, a, w, v) ==
  LET written == Cells(a, w) \ {"string"} IN
  [cells |-> [x \in DOMAIN m.cells |-> IF x \in written THEN v ELSE m.cells[x]],
   valid |-> m.valid /\ written # {}]

SizeIn == [i8 |-> 1, i32 |-> 2, struct |-> 2, string |-> 2, ptr |-> 3, void |-> 0]

(***************************************************************************)
(* The code.  An i1 is kept as 0 or 1, the other integers signed; a state  *)
(* has the values of the registers and the memory.                         *)
(***************************************************************************)
Extend(w, v) == IF w = "i1" THEN -v ELSE v

ValueOf(i, vals, memory, from) ==
  LET A(k) == vals[i.args[k]]
      W(k) == ir.regs[i.args[k]].type
      S(k) == Extend(W(k), A(k))
      Index == Signed("i32", Unsigned(W(2), A(2))) IN
  CASE i.op = "address"    -> AddressOf[i.of]
    [] i.op = "string"     -> AddressOf["string"]
    [] i.op = "load"       -> Load(memory, A(1), i.type)
    [] i.op \in {"field", "apply"} -> A(1)
    [] i.op = "size"       -> SizeIn[i.of]
    [] i.op = "const"      -> Truth(i.of = "one")
    [] i.op = "intcast"    -> Signed(i.type, S(1))
    [] i.op = "inttoptr"   -> Signed("ptr", Unsigned(W(1), A(1)))
    [] i.op = "ptrtoint"   -> Signed("i32", A(1))
    [] i.op = "mul"        -> Signed("i32", S(1) * S(2))
    [] i.op = "add"        -> Signed("i32", S(1) + S(2))
    [] i.op = "sub"        -> Signed("i32", S(1) - S(2))
    [] i.op = "neg"        -> Signed("i32", -S(1))
    [] i.op = "shift"      -> Signed("ptr", A(1) + Index)
    [] i.op = "shift back" -> Signed("ptr", A(1) + Signed("i32", -Index))
    [] i.op = "difference" -> Signed("i32", A(1) - A(2))
    [] i.op = "<"          -> Truth(S(1) < S(2))
    [] i.op = "=="         -> Truth(A(1) = A(2))
    [] i.op = "!="         -> Truth(A(1) # A(2))
    [] i.op = "nonzero"    -> Truth((IF W(1) = "ptr" THEN Signed("i32", A(1)) ELSE A(1)) # 0)
    [] i.op = "is zero"    -> 1 - A(1)
    [] i.op = "zext"       -> A(1)
    [] i.op = "phi"        -> IF from = i.from[1] THEN A(1) ELSE A(2)
    [] OTHER               -> 0     \* null, call and store

RECURSIVE RunBlock(_, _, _, _)
RunBlock(b, from, vals, memory) ==
  LET Step(state, r) ==
        LET i == ir.regs[r]  m == state.memory  address == state.vals[i.args[1]] IN
        [vals   |-> [state.vals EXCEPT ![r] = ValueOf(i, state.vals, m, from)],
         memory |-> CASE i.op = "load"  -> AfterLoad(m, address, i.type)
                      [] i.op = "store" -> AfterStore(m, address, ir.regs[i.args[2]].type,
                                                      state.vals[i.args[2]])
                      [] OTHER -> m]
      end == FoldLeft(Step, [vals |-> vals, memory |-> memory], ir.blocks[b].code)
      to == ir.blocks[b].to IN
  CASE to = <<>>   -> end
    [] Len(to) = 1 -> RunBlock(to[1], b, end.vals, end.memory)
    [] OTHER       -> RunBlock(IF end.vals[ir.blocks[b].cond] # 0 THEN to[1] ELSE to[2],
                               b, end.vals, end.memory)
Run(s) == RunBlock(1, 1, [r \in 1..Latest(ir) |-> 0], Memory(s))

(***************************************************************************)
(* The expression.  A value of type t is that of an int with its width.    *)
(***************************************************************************)
Convert(t, v) ==
  CASE Kind(t) = "char" -> Signed("i8", v) [] IsPointer(t) -> Signed("ptr", v)
    [] Kind(t) = "struct" -> v [] OTHER -> Signed("i32", v)

Compute(op, a, b) ==
  CASE op = "*" -> a * b [] op = "+" -> a + b [] op = "-" -> a - b
    [] op = "<" -> Truth(a < b) [] op = "==" -> Truth(a = b) [] op = "!=" -> Truth(a # b)

\* A string literal as it is taken for sizeof: an array.
IsArray[n \in 1..Len(nodes)] ==
  \/ IsString(n)
  \/ /\ nodes[n].op = "dereference" /\ nodes[nodes[n].kids[1]].op = "reference"
     /\ IsArray[nodes[nodes[n].kids[1]].kids[1]]
SizeOf(n) == SizeIn[IF IsArray[n] THEN "string" ELSE ToLlvm(TypeOf(n))]

\* The value of node n, or its address if it is taken as an lvalue.
RECURSIVE Eval(_, _, _)
Eval(n, lvalue, m) ==
  LET node == nodes[n]
      first == Eval(node.kids[1], TakesLvalue(n, 1), m)
      second == Eval(node.kids[2], FALSE, first.memory)
      Is(v, after) == [value |-> v, memory |-> after]
      From(a, after) ==
        LET w == ToLlvm(node.type) IN
        IF lvalue THEN Is(a, after) ELSE Is(Load(after, a, w), AfterLoad(after, a, w))
      assigned ==
        LET v == Convert(node.type, second.value)
        IN  Is(v, AfterStore(second.memory, first.value, ToLlvm(node.type), v)) IN
  CASE node.op = "variable" -> From(AddressOf[node.of], m)
    [] node.of = "string"   -> Is(AddressOf["string"], m)
    [] node.op = "constant" -> Is(Truth(node.of = "one"), m)
    [] node.op \in {"dereference", ".", "->"} -> From(first.value, first.memory)
    [] node.op = "reference" -> first
    [] node.op = "index"    -> From(Convert(Pointer(node.type), first.value + second.value), second.memory)
    [] node.op = "sizeof"   -> Is(Convert(IntType, SizeOf(node.kids[1])), m)
    [] node.op = "apply"    -> Is(Convert(CharType, first.value), first.memory)
    [] node.op = "negation" -> Is(Convert(IntType, -first.value), first.memory)
    [] node.op = "not"      -> Is(Truth(first.value = 0), first.memory)
    [] node.op = "="        -> assigned
    [] node.op \in Logical  ->
         IF (first.value = 0) = (node.op = "&&")
         THEN Is(Truth(first.value # 0), first.memory)
         ELSE Is(Truth(second.value # 0), second.memory)
    [] node.op = "?:"       -> IF first.value # 0 THEN second ELSE Eval(node.kids[3], FALSE, first.memory)
    [] node.op = "-" /\ IsPointer(TypeOf(node.kids[1])) /\ ~IsPointer(TypeOf(node.kids[2])) ->
         \* The least int has no negative: no array has an element that far.
         Is(Convert(node.type, first.value + Convert(IntType, -second.value)), second.memory)
    [] OTHER -> Is(Convert(node.type, Compute(node.op, first.value, second.value)), second.memory)

\* 0 as the result of a branch is converted without its condition.
BranchIsNull == \E n \in 1..Len(nodes) : nodes[n].op = "?:" /\ TypeOf(n) = NullptrType
\* The index that is subtracted from a pointer is not cast to int.
SubtractsChar == \E n \in 1..Len(nodes) :
  nodes[n].op = "-" /\ Kind(TypeOf(n)) = "pointer" /\ TypeOf(Operand(n, 2)) = CharType
\* The length of a string is found behind one * and &.
LosesArray == \E n \in 1..Len(nodes) : IsArray[n] /\ ~HasStringLength(n)

\* An address that does not fit into an int is compared as one.
TruncatesAddress(vals) == \E r \in 1..Latest(ir) :
  LET i == ir.regs[r]
  IN i.op \in {"ptrtoint", "nonzero"} /\ vals[i.args[1]] # Signed("i32", vals[i.args[1]])

Agrees(s) ==
  LET code == Run(s)  meaning == Eval(Len(nodes), FALSE, Memory(s)) IN
  \/ ~meaning.memory.valid \/ TruncatesAddress(code.vals)
  \/ /\ code.memory = meaning.memory
     /\ TypeOf(Len(nodes)) # VoidType => code.vals[value] = meaning.value

(***************************************************************************)
(* The code of an expression leaves the value and the memory that C gives  *)
(* them: casts, short circuits, order of the operands, addresses.  What is *)
(* not well typed has no meaning; four more kinds of expressions go wrong  *)
(* (binary.cpp:196, cast.cpp:33, expression.cpp:45, unary.cpp:90-96).      *)
(***************************************************************************)
ImplementsExpression ==
  \/ phase # "compiled"
  \/ ComparisonIsValue \/ ComputesWithNull \/ ComparesStructs \/ ComputesWithVoidPointer
  \/ LoadsVoid \/ BranchIsNull \/ SubtractsChar \/ LosesArray
  \/ \A s \in StoresOf({nodes[n].of : n \in 1..Len(nodes)} \cap Valued) : Agrees(s)
==============================================================================
