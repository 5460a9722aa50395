--------------------------- MODULE PipelineInvariant ---------------------------
(***************************************************************************)
(* The inductive invariant of FunctionPipeline behind the theorems of      *)
(* FunctionPipelineProofs and CompiledBlocksProofs.                        *)
(***************************************************************************)
EXTENDS FunctionPipeline

Walks == {"typecheck", "compile"}

\* The statements form a tree: parents are started first and are no leaves,
\* children know their parent, and "at" is a started statement.
TreeInv ==
  /\ size = 0 <=> at = None
  /\ at <= size
  /\ phase # "parse" /\ phase \notin Ends => size > 0
  /\ phase = "parse" /\ at # None => KindOf(at) \notin LeafKind
  /\ size > 0 => KindOf(Root) = "block" /\ Parent(Root) = None
  /\ \A n \in 2..size : Parent(n) \in 1..(n - 1) /\ KindOf(Parent(n)) \notin LeafKind
  /\ \A n \in 1..size : ast[n].name \in HeadNames(KindOf(n))
  /\ \A n \in 1..size : \A i \in 1..Len(Kids(n)) :
       Kids(n)[i] \in 2..size /\ Parent(Kids(n)[i]) = n

\* A pass calls the handler of a statement from that of its parent.
PassInv ==
  /\ phase = "parse" => status = AllUncalled
  /\ phase \in Walks =>
       /\ at # Root => Called(Parent(at))
       /\ \A n \in Stmt \ {Root} : Called(n) => n <= size /\ Called(Parent(n))
       /\ ~Called(Root) => at = Root /\ status = AllUncalled

\* A handler that calls others has a scope to give them.
ScopeInv ==
  phase = "typecheck" =>
    \A n \in 1..size :
      Called(n) /\ KindOf(n) \notin LeafKind => scopeOf[n] \in 1..size
------------------------------------------------------------------------------
\* A block that is empty and that the builder is not in.
IsFresh(b) == code[b] = <<>> /\ cur # b

\* Instructions without a terminator, and with none but the last.
NoTerminator(s) == \A i \in 1..Len(s) : ~IsTerminator(s[i])
OnlyLastTerminator(s) == \A i \in 1..Len(s) : i < Len(s) => ~IsTerminator(s[i])

\* Before the handler of the body is called there is no code at all.
NoCodeYet ==
  phase \in {"parse", "typecheck"} \/ (phase = "compile" /\ ~Called(Root)) =>
    cur = Entry /\ \A b \in Block : code[b] = <<>>

\* The blocks that a handler has still to continue in are fresh: all of its
\* own before it is called, its end block until it returns, its else block
\* until it calls the else branch, and the block of a label until the
\* labeled statement.
FreshBlocks ==
  /\ \A n \in Stmt : ~Called(n) => \A r \in Roles : IsFresh(<<r, n>>)
  /\ \A n \in 1..size :
       status[n] = "running" /\ KindOf(n) \in {"if", "while"} => IsFresh(<<"end", n>>)
  /\ \A n \in 1..size :
       /\ status[n] = "running" /\ KindOf(n) = "if" /\ Len(Kids(n)) >= 2
       /\ ~Called(Kids(n)[2]) /\ at # Kids(n)[2]
       => IsFresh(<<"else", n>>)
  /\ \A n \in OfKind("labeled") : ~Called(n) => IsFresh(LabelBlock(ast[n].name))

CodeInv ==
  /\ NoCodeYet
  /\ phase = "compile" => FreshBlocks /\ NoTerminator(code[cur])

TreeAndTypes == TypeOK /\ TreeInv /\ PassInv /\ ScopeInv
------------------------------------------------------------------------------
(***************************************************************************)
(* The order of the statements.  They are numbered in the order of the     *)
(* source, so no two of them overlap, and the children of a statement are  *)
(* in ascending order.                                                     *)
(***************************************************************************)
IsKid(n, p) == \E i \in 1..Len(Kids(p)) : Kids(p)[i] = n
Joined(n) == IsKid(n, Parent(n))

ShapeInv ==
  /\ \A m, n \in 2..size : m < n /\ Parent(n) < m => Parent(m) >= Parent(n)
  /\ \A n \in 1..size : \A i, j \in 1..Len(Kids(n)) : i < j => Kids(n)[i] < Kids(n)[j]
  /\ \A n \in OfKind("if") : Len(Kids(n)) <= 2
  /\ \A n \in OfKind("declaration") : KindOf(Parent(n)) = "block"
  /\ phase \in Walks => \A n \in 2..size : Joined(n)

\* The statements the parser has not read to their end are those around "at".
OpenInv ==
  phase = "parse" =>
    /\ \A n \in 2..size : n > at => Parent(n) >= at /\ Joined(n)
    /\ at \notin {None, Root} => ~Joined(at)
    /\ \A n \in 2..size : ~Joined(n) /\ Parent(n) # Root => ~Joined(Parent(n))
    /\ \A m, n \in 2..size : ~Joined(m) /\ ~Joined(n) /\ m < n => m <= Parent(n)
    /\ \A n \in 2..size : ~Joined(n) /\ KindOf(Parent(n)) = "if" => Len(Kids(Parent(n))) <= 1

\* Along the last substatements of n there is no if without an else: so it is
\* for a then branch behind which the else branch has been started, and for
\* the last child of "at" as long as an else may follow it.
IsClosed(n) == \A m \in EndsIn[n] : KindOf(m) = "if" => Len(Kids(m)) = 2

ElseInv ==
  /\ \A n \in OfKind("if") : Kids(n) # <<>> =>
       \A m \in 2..size : Parent(m) = n /\ m # Kids(n)[1] => IsClosed(Kids(n)[1])
  /\ phase = "parse" /\ at # None /\ ~notElse /\ Kids(at) # <<>> =>
       IsClosed(Kids(at)[Len(Kids(at))])

\* The running handlers are those of the statements around "at", and a
\* handler returns only when those of all children have.
IsRunning(n) == status[n] = "running"
IsActive(n) == IsRunning(n) \/ n = at

PathInv ==
  phase \in Walks =>
    /\ at # Root => IsRunning(Parent(at))
    /\ \A n \in 2..size : IsRunning(n) => IsRunning(Parent(n))
    /\ \A n \in 1..size : IsRunning(n) => n <= at /\ KindOf(n) \notin LeafKind
    /\ \A m, n \in 1..size : IsRunning(m) /\ IsActive(n) /\ m < n => m <= Parent(n)
    /\ \A n \in 1..size : status[n] = "returned" =>
         \A i \in 1..Len(Kids(n)) : status[Kids(n)[i]] = "returned"
    /\ status[Root] # "returned"
------------------------------------------------------------------------------
\* The type checker goes through the statements in the order of the source.
OrderInv ==
  phase = "typecheck" =>
    \A m, n \in 1..size : m < n /\ (Called(n) \/ n = at) => Called(m)

\* A block has a scope of its own, every other statement that of its parent.
OwnScopeInv ==
  /\ \A n \in Stmt : scopeOf[n] <= n
  /\ phase = "typecheck" =>
       \A n \in 1..size : Called(n) =>
         /\ KindOf(n) = "block" => scopeOf[n] = n
         /\ KindOf(n) \in BranchKind => scopeOf[n] = scopeOf[Parent(n)]

\* A scope holds what the declarations that a pass has called declare.
CalledDeclarations(b) == {d \in OfKind("declaration") : Parent(d) = b /\ Called(d)}
NamesOf(D) == {ast[d].name : d \in D} \ {NoName}

VarsInv ==
  phase \in {"parse", "typecheck"} =>
    \A b \in Stmt : vars[b] = NamesOf(CalledDeclarations(b))
                                \cup (IF b = Root THEN ParamNames ELSE {})

\* The counter of a scope counts the loops around the innermost running
\* handler that uses the scope.
LoopsAround(n) == {w \in Stmt : w \in Enclosing[n] /\ KindOf(w) = "while"}
IsInnermostIn(n, s) ==
  /\ IsRunning(n) /\ scopeOf[n] = s
  /\ \A m \in 1..size : IsRunning(m) /\ m > n => scopeOf[m] # s

CounterInv ==
  phase = "typecheck" =>
    \A n \in 1..size : IsInnermostIn(n, scopeOf[n]) =>
      loopCounter[scopeOf[n]] = Cardinality(LoopsAround(n))

\* What the type checker has found out of a statement it has accepted.
Visible(n) == {b \in EnclosingBlocks(n) : ast[n].name \in DeclaredBefore(b, n)}

IsAccepted(n) ==
  /\ KindOf(n) \in EvalKind =>
       /\ ast[n].name \in Global \cup {NoName} \/ Visible(n) # {}
       /\ resolved[n] = IF Visible(n) = {} \/ ast[n].name = NoName
                        THEN None ELSE Innermost(Visible(n))
  /\ KindOf(n) \in {"return", "return value"} => FitsReturnType(KindOf(n))
  /\ KindOf(n) = "goto" => ast[n].name \in labels
  /\ KindOf(n) \in {"break", "continue"} => EnclosingWhiles(n) # {}

IsChecked(n) == phase = "compile" \/ (phase = "typecheck" /\ Called(n))
CheckedInv == \A n \in 1..size : IsChecked(n) => IsAccepted(n)
------------------------------------------------------------------------------
\* The declarations of the blocks around a statement are compiled before it.
DeclarationsFirst ==
  phase = "compile" =>
    \A n \in 1..size : IsActive(n) /\ KindOf(n) # "declaration" =>
      \A b \in EnclosingBlocks(n) : b # n =>
        \A d \in OfKind("declaration") : Parent(d) = b => Called(d)

AllocasInv ==
  /\ phase \in {"parse", "typecheck"} => \A b \in Stmt : allocas[b] = {}
  /\ phase = "compile" => \A b \in Stmt : allocas[b] = NamesOf(CalledDeclarations(b))

\* Inside a loop there are blocks to break and continue to.
TargetsInv ==
  phase = "compile" =>
    \A n \in 1..size : IsRunning(n) =>
      LET t == {targets[n].break, targets[n].continue} IN
      /\ t \subseteq created \cup {NoBlock}
      /\ LoopsAround(n) # {} => NoBlock \notin t

\* The blocks that a handler has created and not continued in yet.
OwesElse(n) ==
  IsRunning(n) /\ KindOf(n) = "if" /\ Len(Kids(n)) = 2
  /\ ~Called(Kids(n)[2]) /\ at # Kids(n)[2]
EndsOwed   == {n \in 1..size : IsRunning(n) /\ KindOf(n) \in {"if", "while"}}
ElsesOwed  == {n \in 1..size : OwesElse(n)}
LabelsOwed == {n \in OfKind("labeled") : ~Called(n)}
Pending ==
  {<<"end", n>> : n \in EndsOwed} \cup {<<"else", n>> : n \in ElsesOwed}
    \cup {LabelBlock(ast[n].name) : n \in LabelsOwed}

FitsFunction(i) ==
  /\ \A t \in 1..Len(i.to) : i.to[t] \in created
  /\ i.op \in {"ret", "ret value"} => VoidFunction = (i.op = "ret")

CodeFits == \A b \in Block : \A i \in 1..Len(code[b]) : FitsFunction(code[b][i])

BlocksInv ==
  phase = "compile" =>
    /\ \A b \in Block : b \notin created => code[b] = <<>>
    /\ Called(Root) =>
         /\ cur \in created /\ Entry \in created /\ Pending \subseteq created
         /\ \A l \in labels : LabelBlock(l) \in created
         /\ \A n \in 1..size : IsRunning(n) /\ KindOf(n) = "while" => <<"header", n>> \in created
         /\ \A b \in created : NoTerminator(code[b]) => b = cur \/ b \in Pending
         /\ CodeFits

\* Where allocas are added in front of the instructions that are there.
EntryInv ==
  /\ phase = "compile" =>
       /\ (Len(Params) > 1 /\ Called(Root)) \/ (\E b \in Stmt : allocas[b] # {}) => ~allocaAtEnd
       /\ IsMovedEarly /\ allocaAtEnd => NoTerminator(code[Entry])
  /\ phase \in {"compile", "compiled"} /\ IsMovedEarly => OnlyLastTerminator(code[Entry])

\* Every evaluation in the code reads the variable the type checker meant.
EvalsInv ==
  /\ phase \in {"parse", "typecheck"} => \A b \in Block : code[b] = <<>>
  /\ ResolutionsAgree

\* The invariant as a whole, for the model checker.
ActivationInv == ShapeInv /\ OpenInv /\ ElseInv /\ PathInv
SemaInv == OrderInv /\ OwnScopeInv /\ VarsInv /\ CounterInv /\ CheckedInv
CompileInv == DeclarationsFirst /\ AllocasInv /\ TargetsInv /\ BlocksInv /\ EntryInv /\ EvalsInv
Invariant == /\ TreeAndTypes /\ LabelsIdentifyStatements /\ CodeInv /\ OneTerminator
             /\ ActivationInv /\ SemaInv /\ CompileInv
==============================================================================
