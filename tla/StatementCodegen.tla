---------------------------- MODULE StatementCodegen ----------------------------
(***************************************************************************)
(* FunctionDefinition::compile, the compile of every statement class, and  *)
(* CompileScope: how the statements of a body become basic blocks.         *)
(*                                                                         *)
(* A basic block is named by its role and the statement (or label) it is   *)
(* created for, and is a sequence of instructions.  The main IRBuilder     *)
(* appends at the end of its block, "cur".  The alloca builder stays in    *)
(* the entry block: SetInsertPoint(block) puts it at the end, and          *)
(* SetInsertPoint(block, begin) in front of the first instruction, which   *)
(* is the end again as long as the block is empty.                         *)
(***************************************************************************)
EXTENDS FunctionAst

VARIABLES
  code,          \* the instructions of every basic block
  created,       \* the basic blocks created so far
  cur,           \* the block the builder appends to
  allocaAtEnd,   \* whether the alloca builder is at the end of the entry block
  targets,       \* the break and continue blocks of the CompileScope that a
                 \* handler gives its children
  allocas        \* CompileScope::_allocas of the scope of a block

codegenVars == <<code, created, cur, allocaAtEnd, targets, allocas>>

Roles   == {"header", "then", "else", "body", "end", "dead"}
Entry   == <<"entry", Root>>
NoBlock == <<"none", Root>>
Block   == (Roles \X Stmt) \cup ({"label"} \X Label) \cup {Entry}

LabelBlock(l) == <<"label", l>>

(***************************************************************************)
(* Instructions.  "eval" is the code of the expression of statement "of",  *)
(* which reads the variable found in the CompileScope of block "scope"     *)
(* (None: the module's); an alloca or the parameter stores have no target. *)
(***************************************************************************)
Terminators == {"br", "condbr", "ret", "ret value"}
Instr ==
  [op : Terminators \cup {"eval", "alloca", "store"},
   of : Stmt \cup {None}, scope : Stmt \cup {None}, to : Seq(Block)]

Plain(op, n)   == [op |-> op, of |-> n, scope |-> None, to |-> <<>>]
Eval(n, b)     == [op |-> "eval", of |-> n, scope |-> b, to |-> <<>>]
Br(b)          == [op |-> "br", of |-> None, scope |-> None, to |-> <<b>>]
CondBr(n, b, c) == [op |-> "condbr", of |-> n, scope |-> None, to |-> <<b, c>>]

IsTerminator(i)  == i.op \in Terminators
\* Mutant: any instruction counts.
HasInstruction(b) == code[b] # <<>>
HasTerminator(b) == code[b] # <<>> /\ IsTerminator(code[b][Len(code[b])])

CodegenTypeOK ==
  /\ code \in [Block -> Seq(Instr)]
  /\ created \subseteq Block
  /\ cur \in Block
  /\ allocaAtEnd \in BOOLEAN
  /\ targets \in [Stmt -> [break : Block \cup {NoBlock}, continue : Block \cup {NoBlock}]]
  /\ allocas \in [Stmt -> SUBSET Name]

NoTargets == [break |-> NoBlock, continue |-> NoBlock]

CodegenInit ==
  /\ code = [b \in Block |-> <<>>]
  /\ created = {}
  /\ cur = Entry
  /\ allocaAtEnd = TRUE
  /\ targets = [n \in Stmt |-> NoTargets]
  /\ allocas = [n \in Stmt |-> {}]

\* The parameters: an alloca in front of the entry block for each and a store
\* at its end.  In front of the empty block means at its end.
Prologue == [i \in 1..(2 * Len(Params)) |->
               Plain(IF i <= Len(Params) THEN "alloca" ELSE "store", None)]

\* The break and continue blocks that a new CompileScope copies from the one
\* the running handler was called with.
Inherited == IF at = Root THEN NoTargets ELSE targets[Parent(at)]

\* CompileScope::getAlloca: outwards through the blocks, then the parameters,
\* which are recorded for the body, then the module; an identifier that is
\* nowhere is std::nullopt, whose value() throws.
Holding(x) == {b \in EnclosingBlocks(at) : x \in allocas[b]}
IsParam(x) == \E i \in 1..Len(Params) : Params[i] = x
HasAlloca(x) == x = NoName \/ x \in Global \/ IsParam(x) \/ Holding(x) # {}
\* The mutant asks the module first.
FindsGlobalFirst(x, b) ==
  IF x \in Global \/ Holding(x) = {} THEN b = None ELSE IsInnermost(b, Holding(x))
FindsAlloca(x, b) ==
  IF Holding(x) # {} THEN IsInnermost(b, Holding(x))
  ELSE b = IF IsParam(x) THEN Root ELSE None

\* The code of the expression of the running statement.
Evaluations == {Eval(at, b) : b \in {c \in Stmt \cup {None} : FindsAlloca(ast[at].name, c)}}

\* What is left of the state after a throw is not looked at.
AfterEvaluation == phase' = IF HasAlloca(ast[at].name) THEN phase ELSE "crashed"

Generates(K) == phase = "compile" /\ at # None /\ Entering /\ KindOf(at) \in K

\* FunctionDefinition::compile up to the compile of the body: the entry block,
\* the parameters, a block for every label.
\* Mutant: without the reset in the loop over the parameters.
PrologueEndsAtEnd == FALSE
PrologueEndsAtFront == Len(Params) > 1
CompileFunction ==
  /\ Generates({"block"}) /\ at = Root
  /\ created' = {Entry} \cup {LabelBlock(l) : l \in labels}
  /\ code' = [code EXCEPT ![Entry] = Prologue]
  /\ cur' = Entry
  /\ allocaAtEnd' = ~PrologueEndsAtFront
  /\ targets' = [targets EXCEPT ![at] = Inherited]
  /\ Run
  /\ UNCHANGED <<phase, ast, size, at, labels, allocas>>

\* A nested block and a labeled statement: a new scope, and for the latter a
\* branch to the block of the label, which is continued ("Unknown label" if
\* there is none).
CompileScope ==
  /\ Generates({"block", "labeled"}) /\ at # Root
  /\ targets' = [targets EXCEPT ![at] = Inherited]
  /\ IF KindOf(at) = "block" THEN UNCHANGED <<code, cur>>
     ELSE /\ code' = [code EXCEPT ![cur] = Append(@, Br(LabelBlock(ast[at].name)))]
          /\ cur' = LabelBlock(ast[at].name)
  /\ phase' = IF KindOf(at) = "block" \/ LabelBlock(ast[at].name) \in created
              THEN phase ELSE "rejected"
  /\ Run
  /\ UNCHANGED <<ast, size, at, labels, created, allocaAtEnd, allocas>>

\* An if or a while up to the first branch: header, condition, conditional
\* branch.  Only the scope of a loop body gets blocks of its own.
HasElse == Len(Kids(at)) = 2
FirstRole == IF KindOf(at) = "while" THEN "body" ELSE "then"
FalseRole == IF KindOf(at) = "if" /\ HasElse THEN "else" ELSE "end"
\* Mutant: break and continue swapped.
SwappedTargets == [break |-> <<"header", at>>, continue |-> <<"end", at>>]
LoopTargets == [break |-> <<"end", at>>, continue |-> <<"header", at>>]

\* Mutant: an if with an else creates no block to continue in.
BranchBlocksWithoutEnd == {<<"header", at>>, <<FirstRole, at>>, <<FalseRole, at>>}
BranchBlocks == {<<"header", at>>, <<FirstRole, at>>, <<FalseRole, at>>, <<"end", at>>}

CompileCondition ==
  LET header == <<"header", at>>
      first  == <<FirstRole, at>>
      false  == <<FalseRole, at>> IN
  /\ Generates({"if", "while"}) /\ AfterEvaluation
  /\ created' = created \cup BranchBlocks
  /\ \E e \in Evaluations :
       code' = [code EXCEPT ![cur]    = Append(@, Br(header)),
                            ![header] = <<e, CondBr(at, first, false)>>]
  /\ cur' = first
  /\ targets' = [targets EXCEPT ![at] =
                   IF KindOf(at) = "while" THEN LoopTargets ELSE Inherited]
  /\ Run
  /\ UNCHANGED <<ast, size, at, labels, allocaAtEnd, allocas>>

\* BlockStatement::compile goes through its items twice, the declarations
\* first; every other handler has its children in order.
IsDecl(n) == KindOf(n) = "declaration"
\* Mutants: an item waits for itself; the items are compiled in order.
CompiledUpTo(m, n) == IF IsDecl(m) = IsDecl(n) THEN m <= n ELSE IsDecl(m)
CompiledInOrder(m, n) == m < n
CompiledBefore(m, n) == IF IsDecl(m) = IsDecl(n) THEN m < n ELSE IsDecl(m)

IsElse(i) == KindOf(at) = "if" /\ i = 2

\* A handler calls that of its next child.  Between the branches of an if lies
\* the jump over the else branch.
CompileChild ==
  /\ phase = "compile" /\ at # None /\ Resuming
  /\ \E i \in 1..Len(Kids(at)) :
       /\ ~Called(Kids(at)[i])
       /\ \A j \in 1..Len(Kids(at)) :
            CompiledBefore(Kids(at)[j], Kids(at)[i]) => Called(Kids(at)[j])
       /\ at' = Kids(at)[i]
       /\ IF IsElse(i)
          THEN /\ code' = [code EXCEPT ![cur] = Append(@, Br(<<"end", at>>))]
               /\ cur' = <<"else", at>>
          ELSE UNCHANGED <<code, cur>>
  /\ UNCHANGED <<phase, ast, size, labels, status, created, allocaAtEnd,
                 targets, allocas>>

\* The last child has returned: an if jumps to its end block, a while back to
\* its header, and both continue in the end block.
BackTo == IF KindOf(at) = "while" THEN <<"header", at>> ELSE <<"end", at>>
LeaveCompiled ==
  /\ phase = "compile" /\ at \notin {None, Root} /\ Resuming /\ AllCalled(Kids(at))
  /\ IF KindOf(at) \in {"if", "while"}
     THEN /\ code' = [code EXCEPT ![cur] = Append(@, Br(BackTo))]
          /\ cur' = <<"end", at>>
     ELSE UNCHANGED <<code, cur>>
  /\ Return
  /\ UNCHANGED <<phase, ast, size, labels, created, allocaAtEnd,
                 targets, allocas>>

\* DeclarationStatement::compile: the alloca, and the reset of the alloca
\* builder behind it, unless the declaration is abstract.
AddAlloca(instrs) ==
  IF allocaAtEnd THEN Append(instrs, Plain("alloca", at))
  ELSE <<Plain("alloca", at)>> \o instrs

\* Mutant: an abstract declaration is not left out.
NeverAbstract(n) == FALSE
IsAbstract(n) == ast[n].name = NoName

CompileDeclaration ==
  /\ Generates({"declaration"})
  /\ IF IsAbstract(at) THEN UNCHANGED <<code, allocaAtEnd, allocas>>
     ELSE /\ code' = [code EXCEPT ![Entry] = AddAlloca(@)]
          /\ allocaAtEnd' = FALSE
          /\ allocas' = [allocas EXCEPT ![Parent(at)] = @ \cup {ast[at].name}]
  /\ Return
  /\ UNCHANGED <<phase, ast, size, labels, created, cur, targets>>

CompileExpression ==
  /\ Generates({"expression"}) /\ AfterEvaluation
  /\ \E e \in Evaluations : code' = [code EXCEPT ![cur] = Append(@, e)]
  /\ Return
  /\ UNCHANGED <<ast, size, labels, created, cur, allocaAtEnd, targets, allocas>>

CompileEmpty ==
  /\ Generates({"empty"})
  /\ Return
  /\ UNCHANGED <<phase, ast, size, labels, codegenVars>>

\* Where a goto, break or continue branches to: no branch is generated if the
\* scope has no such block.
LabelTarget(l) == IF LabelBlock(l) \in created THEN LabelBlock(l) ELSE NoBlock
JumpTarget ==
  CASE KindOf(at) = "goto"     -> LabelTarget(ast[at].name)
    [] KindOf(at) = "break"    -> Inherited.break
    [] KindOf(at) = "continue" -> Inherited.continue
JumpCode == IF JumpTarget = NoBlock THEN <<>> ELSE <<Br(JumpTarget)>>

\* Every jump leaves the builder in a new block, for the code behind it; in
\* the mutant it stays where it is.
SameBlock == cur
AfterJump == <<"dead", at>>
Jump(instrs) ==
  /\ code' = [code EXCEPT ![cur] = @ \o instrs]
  /\ created' = created \cup {<<"dead", at>>}
  /\ cur' = AfterJump
  /\ Return
  /\ UNCHANGED <<ast, size, labels, allocaAtEnd, targets, allocas>>

CompileJump ==
  \/ Generates({"goto", "break", "continue"}) /\ Jump(JumpCode) /\ UNCHANGED phase
  \/ Generates({"return"}) /\ Jump(<<Plain("ret", None)>>) /\ UNCHANGED phase
  \/ /\ Generates({"return value"}) /\ AfterEvaluation
     /\ \E e \in Evaluations : Jump(<<e, Plain("ret value", None)>>)

\* FunctionDefinition::compile after the body: a return, if one is missing.
DefaultReturn == Plain(IF VoidFunction THEN "ret" ELSE "ret value", None)
FinishFunction ==
  /\ phase = "compile" /\ at = Root /\ Resuming /\ AllCalled(Kids(Root))
  /\ code' = IF HasTerminator(cur) THEN code
             ELSE [code EXCEPT ![cur] = Append(@, DefaultReturn)]
  /\ phase' = "compiled"
  /\ UNCHANGED <<ast, size, at, labels, status, created, cur, allocaAtEnd,
                 targets, allocas>>

Compile ==
  \/ CompileFunction \/ CompileScope \/ CompileCondition \/ CompileChild \/ LeaveCompiled
  \/ CompileDeclaration \/ CompileExpression \/ CompileEmpty \/ CompileJump
  \/ FinishFunction
==============================================================================
