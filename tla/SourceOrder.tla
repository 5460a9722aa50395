------------------------------ MODULE SourceOrder ------------------------------
(***************************************************************************)
(* The order in which the statements of a function body are executed, read *)
(* off the statements alone.  A position of the body is the point where a  *)
(* statement is entered, or left; an event is what happens there, if       *)
(* anything does.                                                          *)
(***************************************************************************)
EXTENDS FunctionAst

NotRunning == <<"not running", None>>
Returning  == <<"return", None>>

Position == (1..size) \X {"enter", "leave"}
Enter(n) == <<n, "enter">>
Leave(n) == <<n, "leave">>

Smallest(S) == CHOOSE m \in S : \A o \in S : m <= o

\* What block p executes behind its child n, or all of it if n is the block.
Behind(p, n) == {m \in 1..size : Parent(m) = p /\ m > n /\ KindOf(m) # "declaration"}

IsEvent(x) ==
  IF x[2] = "enter" THEN KindOf(x[1]) \in EvalKind \cup {"labeled", "return"} ELSE x[1] = Root

EventAt(x) ==
  IF x[2] = "leave" \/ KindOf(x[1]) = "return" THEN Returning
  ELSE <<IF KindOf(x[1]) = "labeled" THEN "label" ELSE "eval", x[1]>>

\* From a position where nothing happens to the next one.
Loop(n) == Innermost(EnclosingWhiles(n))
FromEntered(n) ==
  CASE KindOf(n) = "block" /\ Behind(n, n) # {} -> Enter(Smallest(Behind(n, n)))
    [] KindOf(n) = "goto"                       -> Enter(Labeled(ast[n].name))
    [] KindOf(n) = "break"                      -> Leave(Loop(n))
    [] KindOf(n) = "continue"                   -> Enter(Loop(n))
    [] OTHER                                    -> Leave(n)
FromLeft(n, p) ==
  CASE KindOf(p) = "while"                      -> Enter(p)
    [] KindOf(p) = "block" /\ Behind(p, n) # {} -> Enter(Smallest(Behind(p, n)))
    [] OTHER                                    -> Leave(p)
NextPosition(x) == IF x[2] = "enter" THEN FromEntered(x[1]) ELSE FromLeft(x[1], Parent(x[1]))

\* The first thing that happens from a position on.
First[x \in Position] == IF IsEvent(x) THEN EventAt(x) ELSE First[NextPosition(x)]
==============================================================================
