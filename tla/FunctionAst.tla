------------------------------ MODULE FunctionAst ------------------------------
(***************************************************************************)
(* What the passes over one function definition share: the statements of   *)
(* its body, and the progress of the pass that is running.                 *)
(*                                                                         *)
(* A statement is a number, given out in the order in which the parser     *)
(* starts the statements; 1 is the body, a BlockStatement.  The handlers   *)
(* of the code are recursive (parseStatement, and the typecheck and the    *)
(* compile of every statement class).  Each is called once per statement   *)
(* and pass, so an activation is identified by its statement: "at" is the  *)
(* innermost active one, its callers are the ancestors of "at", and what a *)
(* handler does between two recursive calls is one step.                   *)
(***************************************************************************)
EXTENDS Integers, Sequences, FiniteSets

CONSTANTS
  MaxStatements,  \* bound on the statements of the body, the body included
  SourceKinds,    \* the kinds of statement the program under study uses
  Label,          \* the names of its labels
  Name,           \* the identifiers of its variables
  Params,         \* the parameters of the function, in order
  Global,         \* the names that are declared at file scope
  NoName,         \* no identifier
  VoidFunction    \* whether the function returns void

VARIABLES
  phase,    \* the pass that runs, or how the compilation ended
  ast,      \* the statements of the body
  size,     \* the number of statements started so far
  at,       \* the statement whose handler is running
  labels,   \* Parser::_labels, then FunctionDefinition::_labels
  status    \* how far the running pass is with the handler of each statement

Stmt == 1..MaxStatements
Root == 1
None == 0   \* no statement: the caller of the handler of the body

Passes == {"parse", "typecheck", "compile"}
Ends   == {"compiled", "rejected", "crashed"}

BranchKind == {"if", "while", "labeled"}  \* their children are no declarations
LeafKind   == {"declaration", "expression", "empty", "goto", "break",
               "continue", "return", "return value"}
Kind       == {"block"} \cup BranchKind \cup LeafKind

\* The kinds that hold an expression, which is abstracted to one identifier
\* that it reads, or NoName.
EvalKind == {"expression", "if", "while", "return value"}

\* The function has a body; a parameter and a global are names of variables,
\* and FunctionDefinition::typecheck has refused equal parameter names.
ASSUME AstAssumption ==
  /\ MaxStatements \in Nat \ {0}
  /\ SourceKinds \subseteq Kind
  /\ Params \in Seq(Name)
  /\ Global \subseteq Name
  /\ NoName \notin Name
  /\ VoidFunction \in BOOLEAN

(***************************************************************************)
(* A statement.  "name" is the label of a labeled statement and of a goto, *)
(* the variable of a declaration (NoName if it is abstract) and the one an *)
(* expression reads.  An if with an else has two children.                 *)
(***************************************************************************)
Statement ==
  [kind : Kind, name : Name \cup Label \cup {NoName},
   parent : Stmt \cup {None}, kids : Seq(Stmt)]

Unparsed == [kind |-> "empty", name |-> NoName, parent |-> None, kids |-> <<>>]

KindOf(n) == ast[n].kind
Kids(n)   == ast[n].kids
Parent(n) == ast[n].parent
OfKind(k) == {n \in 1..size : ast[n].kind = k}

\* The statement that a goto l continues with.
Labeled(l) == CHOOSE n \in OfKind("labeled") : ast[n].name = l

\* The statements that enclose n, n included.
Enclosing[n \in Stmt \cup {None}] ==
  IF n = None THEN {} ELSE {n} \cup Enclosing[ast[n].parent]

EnclosingBlocks(n) == {b \in Stmt : b \in Enclosing[n] /\ KindOf(b) = "block"}
EnclosingWhiles(n) == {w \in Stmt : w # n /\ w \in Enclosing[n] /\ KindOf(w) = "while"}

\* Of statements on one path from the body, the innermost has the largest
\* number.
IsInnermost(n, S) == n \in S /\ \A m \in S : m <= n
Innermost(S) == CHOOSE n \in S : IsInnermost(n, S)

\* A handler is called once per pass; then it is running until it returns.
Statuses   == {"uncalled", "running", "returned"}
AllUncalled == [n \in Stmt |-> "uncalled"]
Called(n)  == status[n] # "uncalled"

\* "at" has just been called, or a call of its own has just returned.
Entering == status[at] = "uncalled"
Resuming == status[at] = "running"

Run    == status' = [status EXCEPT ![at] = "running"]
Return == status' = [status EXCEPT ![at] = "returned"] /\ at' = Parent(at)
Reject == phase' = "rejected"

AllCalled(q) == \A i \in 1..Len(q) : Called(q[i])
==============================================================================
