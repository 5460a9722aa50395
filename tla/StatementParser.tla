---------------------------- MODULE StatementParser ----------------------------
(***************************************************************************)
(* The statement part of the recursive-descent parser: parseStatement,     *)
(* parseNonDeclStatement and parseBlockStatement, from the "{" that        *)
(* parseProgram sees after a declaration to the FunctionDefinition.        *)
(*                                                                         *)
(* The token stream is the environment: a step chooses the tokens of the   *)
(* head of the next statement (up to its first substatement, expressions   *)
(* abstracted), the "}" or the "else" that the parser finds there.  One    *)
(* fact about a token outlives the step that looked at it: an if whose     *)
(* accept(TK_ELSE) failed returns with the current token unread, and the   *)
(* callers see the same token.                                             *)
(***************************************************************************)
EXTENDS FunctionAst

VARIABLE notElse   \* accept(TK_ELSE) has failed on the current token

parserVars == <<phase, ast, size, at, labels, status, notElse>>

ParserTypeOK ==
  /\ phase \in Passes \cup Ends
  /\ ast \in [Stmt -> Statement]
  /\ size \in 0..MaxStatements
  /\ at \in Stmt \cup {None}
  /\ labels \subseteq Label
  /\ status \in [Stmt -> Statuses]
  /\ notElse \in BOOLEAN

\* _labels may still hold the labels of an earlier function definition.
ParserInit ==
  /\ phase = "parse"
  /\ ast = [n \in Stmt |-> Unparsed]
  /\ size = 0
  /\ at = None
  /\ labels \in SUBSET Label
  /\ status = AllUncalled
  /\ notElse = FALSE

\* The names the head of a statement of kind k can hold.
HeadNames(k) ==
  CASE k \in {"labeled", "goto"}           -> Label
    [] k \in EvalKind \cup {"declaration"} -> Name \cup {NoName}
    [] OTHER                               -> {NoName}

\* What the handler at "at" is given by parseStatement: a new statement, which
\* joins its children once it is complete.
NewStatement(k, x) == [kind |-> k, name |-> x, parent |-> at, kids |-> <<>>]
WithKid(a, p, n) == [a EXCEPT ![p].kids = Append(@, n)]

\* Mutant: _labels is not cleared.
LabelsKept == labels

\* parseProgram has read a declaration, finds "{" and clears _labels.
ClearedLabels == {}

StartBody ==
  /\ phase = "parse" /\ size = 0
  /\ labels' = ClearedLabels
  /\ ast' = [ast EXCEPT ![Root] = NewStatement("block", NoName)]
  /\ size' = 1
  /\ at' = Root
  /\ UNCHANGED <<phase, status, notElse>>

\* The handler at "at" calls parseStatement or parseNonDeclStatement: a block
\* as long as no "}" comes, an if for its then branch and after an else.
ReadsStatement ==
  /\ phase = "parse" /\ at # None
  /\ CASE KindOf(at) = "block" -> TRUE
       [] KindOf(at) = "if"    -> Kids(at) = <<>> \/ (Len(Kids(at)) = 1 /\ ~notElse)
       [] OTHER                -> Kids(at) = <<>>

\* MaxStatements leaves room for the statement that a head demands.
HasRoom(k) == size + (IF k \in BranchKind THEN 2 ELSE 1) <= MaxStatements

IsDuplicateLabel(k, x) == k = "labeled" /\ x \in labels
IsMisplaced(k) == k = "declaration" /\ KindOf(at) \in BranchKind

\* What the parser knows of the current token once it has read a statement.
TokenAfterStatement == FALSE

\* parseStatement reads the head of a statement with substatements.
OpenStatement(k, x) ==
  LET n == size + 1 IN
  /\ ReadsStatement /\ HasRoom(k)
  /\ k \notin LeafKind /\ ~IsDuplicateLabel(k, x)
  /\ ast' = [ast EXCEPT ![n] = NewStatement(k, x)]
  /\ size' = n
  /\ at' = n
  /\ labels' = labels \cup (IF k = "labeled" THEN {x} ELSE {})
  /\ notElse' = TokenAfterStatement
  /\ UNCHANGED <<phase, status>>

\* parseStatement reads a statement without substatements and returns it.
LeafStatement(k, x) ==
  LET n == size + 1 IN
  /\ ReadsStatement /\ HasRoom(k)
  /\ k \in LeafKind /\ ~IsMisplaced(k)
  /\ ast' = WithKid([ast EXCEPT ![n] = NewStatement(k, x)], at, n)
  /\ size' = n
  /\ notElse' = TokenAfterStatement
  /\ UNCHANGED <<phase, at, labels, status>>

\* The errors of the parser proper: a label that is taken, a declaration as
\* a substatement.
RefuseStatement(k, x) ==
  /\ ReadsStatement /\ HasRoom(k)
  /\ IsDuplicateLabel(k, x) \/ IsMisplaced(k)
  /\ Reject
  /\ UNCHANGED <<ast, size, at, labels, status, notElse>>

\* expect() finds another token, wherever the parser is.
SyntaxError ==
  /\ phase = "parse"
  /\ Reject
  /\ UNCHANGED <<ast, size, at, labels, status, notElse>>

\* The handler at "at" has what it needs: a block finds "}", an if has its
\* else branch or finds no else.
Complete == KindOf(at) = "block" \/ Kids(at) # <<>>

\* Mutant: the token is taken for read.
NotElseForgotten == TokenAfterStatement

\* What the parser knows of the current token when the handler returns.
NotElseAfter ==
  CASE KindOf(at) = "block"                      -> TokenAfterStatement
    [] KindOf(at) = "if" /\ Len(Kids(at)) = 1    -> TRUE
    [] OTHER                                     -> notElse

FinishStatement ==
  /\ phase = "parse" /\ at \notin {None, Root} /\ Complete
  /\ ast' = WithKid(ast, Parent(at), at)
  /\ at' = Parent(at)
  /\ notElse' = NotElseAfter
  /\ UNCHANGED <<phase, size, labels, status>>

\* parseBlockStatement returns to parseProgram, which keeps the labels in the
\* FunctionDefinition; main then type checks the program.
FinishBody ==
  /\ phase = "parse" /\ at = Root
  /\ phase' = "typecheck"
  /\ UNCHANGED <<ast, size, at, labels, status, notElse>>

Parse ==
  \/ StartBody
  \/ \E k \in SourceKinds : \E x \in HeadNames(k) :
       OpenStatement(k, x) \/ LeafStatement(k, x) \/ RefuseStatement(k, x)
  \/ SyntaxError
  \/ FinishStatement
  \/ FinishBody
------------------------------------------------------------------------------
(***************************************************************************)
(* A goto finds its target by name alone.  From the "{" of the body on,    *)
(* the label set of the function holds the label of every labeled          *)
(* statement and nothing else, none left over from an earlier function,    *)
(* and no two statements share one (parser.cpp:547-559 and 593).           *)
(***************************************************************************)
LabelsIdentifyStatements ==
  size > 0 =>
    /\ labels = {ast[n].name : n \in OfKind("labeled")}
    /\ \A m, n \in OfKind("labeled") : ast[m].name = ast[n].name => m = n

(***************************************************************************)
(* An else belongs to the nearest if that can take it: along the last      *)
(* substatements of a then branch that an else follows there is no if      *)
(* without an else (parser.cpp:473-481).                                   *)
(***************************************************************************)
EndsIn[n \in Stmt] ==
  {n} \cup (IF KindOf(n) \in BranchKind /\ Kids(n) # <<>>
            THEN EndsIn[Kids(n)[Len(Kids(n))]] ELSE {})

ElseBelongsToNearestIf ==
  \A n \in OfKind("if") : Len(Kids(n)) = 2 =>
    \A m \in EndsIn[Kids(n)[1]] : KindOf(m) = "if" => Len(Kids(m)) = 2
==============================================================================
