-------------------------- MODULE RefinementInvariant --------------------------
(***************************************************************************)
(* What is true of the code, complete or not, that makes its executions    *)
(* executions of the source: the invariant behind the refinement theorem   *)
(* of CompiledBlocksProofs.                                                *)
(***************************************************************************)
EXTENDS PipelineInvariant, CompiledExecution

\* Substatements: a while and a labeled statement have one, an if has one.
KidsInv ==
  /\ \A n \in 2..size : Joined(n) /\ KindOf(n) \in BranchKind => Kids(n) # <<>>
  /\ \A n \in 1..size : KindOf(n) \in {"while", "labeled"} => Len(Kids(n)) <= 1
  /\ phase = "parse" =>
       \A n \in 2..size : ~Joined(n) /\ KindOf(Parent(n)) \in {"while", "labeled"} =>
         Kids(Parent(n)) = <<>>

\* The code generator goes through the statements that are no declarations in
\* the order of the source: one is called when those before it have returned.
SiblingsInOrder ==
  phase = "compile" =>
    \A m, n \in 2..size :
      /\ m < n /\ Parent(m) = Parent(n) /\ ~IsDecl(m) /\ ~IsDecl(n)
      /\ Called(n) \/ n = at
      => status[m] = "returned"

\* The break and continue blocks are those of the innermost loop.
TargetsOf(w) == [break |-> <<"end", w>>, continue |-> <<"header", w>>]
LoopTargetsInv ==
  phase = "compile" =>
    \A n \in 1..size : IsRunning(n) /\ LoopsAround(n) # {} =>
      targets[n] = TargetsOf(Innermost(LoopsAround(n)))

\* A block of a label is that of a label of the function.
LabelBlocksInv ==
  /\ phase \in {"parse", "typecheck"} => created = {}
  /\ phase \in {"compile", "compiled"} =>
       \A l \in Label : LabelBlock(l) \in created => l \in labels
------------------------------------------------------------------------------
\* What the source does behind an evaluation.
After(instr) ==
  CASE KindOf(instr.of) = "expression"   -> First[Leave(instr.of)]
    [] KindOf(instr.of) = "return value" -> Returning
    [] OTHER                             -> <<"branch", instr.of>>

\* What has to happen at instruction i of s, if "start" does at the first.
LoudBefore(s, i) == {j \in 1..Len(s) : j < i /\ ~IsSilent(s[j])}
Expected(s, start, i) ==
  IF LoudBefore(s, i) = {} THEN start ELSE After(s[Innermost(LoudBefore(s, i))])
Flows(s, start) ==
  \A i \in 1..Len(s) : ~IsSilent(s[i]) => Shown(s[i]) = Expected(s, start, i)
ExpectedBehind(s, start) == Expected(s, start, Len(s) + 1)

\* An evaluation is that of a statement; the two targets of a conditional
\* branch are the two sides of its statement.
FalseSide(n) == IF Len(Kids(n)) = 2 THEN First[Enter(Kids(n)[2])] ELSE First[Leave(n)]
FitsSource(instr) ==
  /\ instr.op \in {"eval", "condbr"} => instr.of \in 1..size
  /\ instr.op = "br" => Len(instr.to) = 1
  /\ instr.op = "condbr" =>
       /\ Len(instr.to) = 2
       /\ Start(instr.to[1]) = First[Enter(Kids(instr.of)[1])]
       /\ Start(instr.to[2]) = FalseSide(instr.of)

\* What the running handler of statement p goes on with.
LeftToCall(p) == {m \in 1..size : Parent(m) = p /\ ~IsDecl(m) /\ ~Called(m)}
Ahead(p) ==
  IF KindOf(p) = "block"
  THEN IF LeftToCall(p) = {} THEN Leave(p) ELSE Enter(Smallest(LeftToCall(p)))
  ELSE IF ~Called(Kids(p)[1]) THEN Enter(Kids(p)[1])
  ELSE IF KindOf(p) = "while" THEN Enter(p) ELSE Leave(p)
Continuation ==
  IF IsDecl(at) THEN Ahead(Parent(at))
  ELSE IF Entering THEN Enter(at) ELSE Ahead(at)

FlowInv ==
  phase \in {"compile", "compiled"} =>
    \A b \in Block :
      /\ Flows(code[b], Inside(b))
      /\ \A i \in 1..Len(code[b]) : FitsSource(code[b][i])

BuilderInv ==
  phase = "compile" /\ Called(Root) =>
    ExpectedBehind(code[cur], Inside(cur)) = First[Continuation]

\* Also when it is finished, the block of a label is where the label is passed.
LabelEventsInv ==
  phase = "compiled" =>
    \A l \in labels : /\ Labeled(l) \in 1..size
                       /\ First[Enter(Labeled(l))] = <<"label", Labeled(l)>>

Refinement ==
  /\ KidsInv /\ SiblingsInOrder /\ LoopTargetsInv /\ LabelBlocksInv /\ LabelEventsInv
  /\ FlowInv /\ BuilderInv
==============================================================================
