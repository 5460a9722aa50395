---------------------------- MODULE SourceExecution ----------------------------
(***************************************************************************)
(* What the statements of a function body mean.  This is the abstract      *)
(* specification of the code generator.  "here" is the next thing that     *)
(* happens: the evaluation of the expression of a statement, the branch on *)
(* a condition just evaluated, the passing of a label, or the return.      *)
(***************************************************************************)
EXTENDS SourceOrder

VARIABLE here

SourceInit == here = NotRunning

\* The function is called, which it can be once it is compiled.
Call ==
  /\ here = NotRunning /\ here' # NotRunning
  /\ here' = First[Enter(Root)]

\* Evaluating the expression of statement n.
Evaluate(n) ==
  /\ here = <<"eval", n>>
  /\ here' = CASE KindOf(n) = "expression"   -> First[Leave(n)]
               [] KindOf(n) = "return value" -> Returning
               [] OTHER                      -> <<"branch", n>>

\* The condition of statement n was nonzero, or zero.
Branch(n) ==
  /\ here = <<"branch", n>>
  /\ \/ here' = First[Enter(Kids(n)[1])]
     \/ here' = IF Len(Kids(n)) = 2 THEN First[Enter(Kids(n)[2])] ELSE First[Leave(n)]

PassLabel(n) ==
  /\ here = <<"label", n>>
  /\ here' = First[Enter(Kids(n)[1])]

SourceNext ==
  \/ Call
  \/ \E n \in 1..size : Evaluate(n) \/ Branch(n) \/ PassLabel(n)

SourceSpec == SourceInit /\ [][SourceNext /\ UNCHANGED ast]_here
==============================================================================
