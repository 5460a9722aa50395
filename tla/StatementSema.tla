----------------------------- MODULE StatementSema -----------------------------
(***************************************************************************)
(* FunctionDefinition::typecheck and the typecheck of every statement      *)
(* class: the scopes a body is checked in, the loop counter that decides   *)
(* about break and continue, the label set that decides about goto.  The   *)
(* types of expressions are abstracted: an expression is accepted or not.  *)
(*                                                                         *)
(* A Scope is named by the block it is created for; the scope of the body  *)
(* is the one of the function type, which holds the parameters too.  The   *)
(* Scope a handler gets is an argument in the code and here the one its    *)
(* caller, the parent statement, recorded in "scopeOf".                    *)
(***************************************************************************)
EXTENDS FunctionAst

VARIABLES
  scopeOf,      \* the Scope that the handler of a statement gives its children
  vars,         \* Scope::_vars: the names a scope declares
  loopCounter,  \* Scope::loop_counter
  resolved      \* the Scope in which the lookup for a statement's expression ended

semaVars == <<scopeOf, vars, loopCounter, resolved>>

SemaTypeOK ==
  /\ scopeOf \in [Stmt -> Stmt \cup {None}]
  /\ vars \in [Stmt -> SUBSET Name]
  /\ loopCounter \in [Stmt -> Int]
  /\ resolved \in [Stmt -> Stmt \cup {None}]

\* FunctionDefinition::typecheck adds the parameters to the scope of the
\* function type before it checks the body.
ParamNames == {Params[i] : i \in 1..Len(Params)}
FunctionScopeVars == ParamNames

SemaInit ==
  /\ scopeOf = [n \in Stmt |-> None]
  /\ vars = [n \in Stmt |-> IF n = Root THEN FunctionScopeVars ELSE {}]
  /\ loopCounter = [n \in Stmt |-> 0]
  /\ resolved = [n \in Stmt |-> None]

\* The Scope that the running handler was called with.
Scope == scopeOf[Parent(at)]

\* BlockStatement::typecheck creates a child scope, which copies the loop
\* counter; typecheckInner, used for the body, does not.
ScopeForKids == IF KindOf(at) = "block" THEN at ELSE Scope
CopiedLoopCounter(n) == IF n = Root THEN 0 ELSE loopCounter[Scope]

\* Scope::getVarType: the innermost scope, from the current one outwards, that
\* declares x.  The root scope, that of the file, is None.
\* The mutant also finds the scopes that have been left.
DeclaringAnywhere(x) == {b \in OfKind("block") : x \in vars[b]}
Declaring(x) == {b \in EnclosingBlocks(at) : x \in vars[b]}
IsDeclared(x) == x = NoName \/ x \in Global \/ Declaring(x) # {}
\* The mutant looks from the root scope inwards.
LooksUpOutermost(x, b) ==
  IF Declaring(x) = {} THEN b = None
  ELSE b \in Declaring(x) /\ \A c \in Declaring(x) : b <= c
LooksUp(x, b) ==
  IF Declaring(x) = {} THEN b = None ELSE IsInnermost(b, Declaring(x))

Resolve == \E b \in Stmt \cup {None} :
             LooksUp(ast[at].name, b) /\ resolved' = [resolved EXCEPT ![at] = b]

Checks(K) == phase = "typecheck" /\ at # None /\ Entering /\ KindOf(at) \in K

\* The handler returns without having called another one.
CheckedLeaf == Return /\ UNCHANGED <<phase, ast, size, labels>>

\* BlockStatement::typecheck up to the first item.
CheckBlock ==
  /\ Checks({"block"})
  /\ scopeOf' = [scopeOf EXCEPT ![at] = ScopeForKids]
  /\ loopCounter' = [loopCounter EXCEPT ![at] = CopiedLoopCounter(at)]
  /\ Run
  /\ UNCHANGED <<phase, ast, size, at, labels, vars, resolved>>

\* The condition of an if or a while, before the first branch; a while then
\* increments the counter of the scope it is in.
CountLoop == loopCounter[Scope] + 1
CheckCondition ==
  /\ Checks({"if", "while"}) /\ IsDeclared(ast[at].name)
  /\ Resolve
  /\ scopeOf' = [scopeOf EXCEPT ![at] = Scope]
  /\ loopCounter' = IF KindOf(at) = "while"
                    THEN [loopCounter EXCEPT ![Scope] = CountLoop] ELSE loopCounter
  /\ Run
  /\ UNCHANGED <<phase, ast, size, at, labels, vars>>

CheckLabeled ==
  /\ Checks({"labeled"})
  /\ scopeOf' = [scopeOf EXCEPT ![at] = Scope]
  /\ Run
  /\ UNCHANGED <<phase, ast, size, at, labels, vars, loopCounter, resolved>>

\* A handler calls that of its first child it has not called yet.
CheckChild ==
  /\ phase = "typecheck" /\ at # None /\ Resuming
  /\ \E i \in 1..Len(Kids(at)) :
       /\ ~Called(Kids(at)[i])
       /\ \A j \in 1..(i - 1) : Called(Kids(at)[j])
       /\ at' = Kids(at)[i]
  /\ UNCHANGED <<phase, ast, size, labels, status, semaVars>>

\* The last child has been checked; a while restores the counter, unless in
\* the mutant.
LoopStaysCounted == loopCounter[Scope]
UncountLoop == loopCounter[Scope] - 1
LeaveChecked ==
  /\ phase = "typecheck" /\ at \notin {None, Root} /\ Resuming
  /\ AllCalled(Kids(at))
  /\ loopCounter' = IF KindOf(at) = "while"
                    THEN [loopCounter EXCEPT ![Scope] = UncountLoop] ELSE loopCounter
  /\ Return
  /\ UNCHANGED <<phase, ast, size, labels, scopeOf, vars, resolved>>

\* Scope::addDeclaration of a variable, which is no function.
IsDuplicate(x) == x \in vars[Scope]
CheckDeclaration ==
  /\ Checks({"declaration"}) /\ ~IsDuplicate(ast[at].name)
  /\ vars' = IF ast[at].name = NoName THEN vars
             ELSE [vars EXCEPT ![Scope] = @ \cup {ast[at].name}]
  /\ CheckedLeaf
  /\ UNCHANGED <<scopeOf, loopCounter, resolved>>

\* A return with a value is checked against the return type.
FitsReturnType(k) == k = "return value" <=> ~VoidFunction
Evaluates(k) == k = "expression" \/ (k = "return value" /\ FitsReturnType(k))
CheckExpression ==
  /\ Checks({"expression", "return value"}) /\ Evaluates(KindOf(at))
  /\ IsDeclared(ast[at].name)
  /\ Resolve
  /\ CheckedLeaf
  /\ UNCHANGED <<scopeOf, vars, loopCounter>>

\* Scope::isLabelDefined finds the labels in the scope of the function.
IsLabelDefined(l) == l \in labels
IsInLoop == loopCounter[Scope] # 0
IsLegalJump ==
  CASE KindOf(at) = "goto"                  -> IsLabelDefined(ast[at].name)
    [] KindOf(at) \in {"break", "continue"} -> IsInLoop
    [] KindOf(at) = "return"                -> FitsReturnType("return")
    [] KindOf(at) = "empty"                 -> TRUE
CheckJump ==
  /\ Checks({"goto", "break", "continue", "return", "empty"}) /\ IsLegalJump
  /\ CheckedLeaf
  /\ UNCHANGED semaVars

\* errorloc: one of the checks above fails, or a type is not what the statement
\* needs, which may be so for every expression and declaration.
IsIllegal ==
  CASE KindOf(at) \in EvalKind \cup {"declaration"} -> TRUE
    [] KindOf(at) \in {"block", "labeled"}           -> FALSE
    [] OTHER                                         -> ~IsLegalJump
RejectStatement ==
  /\ Checks(Kind) /\ IsIllegal
  /\ Reject
  /\ UNCHANGED <<ast, size, at, labels, status, semaVars>>

\* Program::typecheck returns to main, which compiles the program.
FinishTypecheck ==
  /\ phase = "typecheck" /\ at = Root /\ Resuming /\ AllCalled(Kids(Root))
  /\ phase' = "compile"
  /\ status' = AllUncalled
  /\ UNCHANGED <<ast, size, at, labels, semaVars>>

Typecheck ==
  \/ CheckBlock \/ CheckCondition \/ CheckLabeled \/ CheckChild \/ LeaveChecked
  \/ CheckDeclaration \/ CheckExpression \/ CheckJump
  \/ RejectStatement \/ FinishTypecheck
------------------------------------------------------------------------------
(***************************************************************************)
(* break and continue are judged by a counter that child scopes copy and   *)
(* while statements increment and decrement.  When a statement is about to *)
(* be checked the counter is the number of while statements around it:     *)
(* a loop that has been left is not counted, one of an outer block is      *)
(* (scope.h:14-19, controlflow.cpp:172-180).                               *)
(***************************************************************************)
LoopCounterCountsLoops ==
  phase = "typecheck" /\ Entering /\ at # Root =>
    loopCounter[Scope] = Cardinality(EnclosingWhiles(at))

(***************************************************************************)
(* A lookup sees only declarations in front of it: the scope in which the  *)
(* name of an expression was found declares it in an earlier statement, or *)
(* has it as a parameter, and no scope in between does                     *)
(* (scope.cpp:3-11 and 54-78).                                             *)
(***************************************************************************)
DeclaredBefore(b, n) ==
  {ast[d].name : d \in {e \in OfKind("declaration") : Parent(e) = b /\ e < n}}
    \cup (IF b = Root THEN ParamNames ELSE {})

LookupFindsInnermostDeclaration ==
  \A n \in 1..size : phase = "typecheck" /\ Called(n) /\ KindOf(n) \in EvalKind =>
    LET candidates == {b \in EnclosingBlocks(n) : ast[n].name \in DeclaredBefore(b, n)}
    IN resolved[n] = IF candidates = {} \/ ast[n].name = NoName
                     THEN None ELSE Innermost(candidates)
==============================================================================
