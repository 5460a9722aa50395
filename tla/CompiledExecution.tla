--------------------------- MODULE CompiledExecution ---------------------------
(***************************************************************************)
(* The execution of a compiled function: once the pipeline has compiled    *)
(* it, "pc" walks through its basic blocks the way LLVM defines it.  It    *)
(* implements the execution of the statements the function was written as  *)
(* (SourceExecution): the code generator put evaluations, branches, labels *)
(* and returns into the right order.                                       *)
(***************************************************************************)
EXTENDS FunctionPipeline, SourceOrder

VARIABLE pc   \* the block and the number of instructions of it begun

Stopped == [block |-> NoBlock, index |-> 0]

ExecutionInit == Init /\ pc = Stopped

Instruction == code[pc.block][pc.index]
GoTo(b) == pc' = [block |-> b, index |-> 0]

Begin == phase = "compiled" /\ pc = Stopped /\ GoTo(Entry)

\* The first instruction of the block that was branched to.
StartBlock == pc # Stopped /\ pc.index = 0 /\ pc' = [pc EXCEPT !.index = 1]

Executes(ops) == pc # Stopped /\ pc.index > 0 /\ Instruction.op \in ops

StepOver ==
  Executes({"eval", "alloca", "store"}) /\ pc' = [pc EXCEPT !.index = @ + 1]

TakeBranch == Executes({"br", "condbr"}) /\ \E i \in 1..Len(Instruction.to) :
                GoTo(Instruction.to[i])

Execute == Begin \/ StartBlock \/ StepOver \/ TakeBranch

ExecutionNext ==
  \/ Next /\ UNCHANGED pc
  \/ Execute /\ UNCHANGED vars_

executionVars == <<vars_, pc>>

(***************************************************************************)
(* Execution leaves a block through a terminator, to a block of the        *)
(* function, and never runs off its end.  That includes the entry block    *)
(* with allocas behind the terminator and the blocks behind jumps          *)
(* (jump.cpp, function_definition.cpp:118-134).                            *)
(***************************************************************************)
ExecutionStaysInBlocks ==
  pc # Stopped => pc.block \in created /\ pc.index \in 0..Len(code[pc.block])

\* The compiler is one thread that keeps running until it ends; the compiled function need not.
ExecutionSpec == ExecutionInit /\ [][ExecutionNext]_executionVars /\ WF_vars_(Next)
------------------------------------------------------------------------------
(***************************************************************************)
(* The refinement mapping.  A block stands for the position of the source  *)
(* it was created for.  Within a block the next thing that happens is the  *)
(* next instruction that is no alloca and no store: what it evaluates or   *)
(* branches on, or what happens first where it goes.  A block is stuck if  *)
(* its code begins with anything but what happens at its position.         *)
(***************************************************************************)
PositionOf(b) ==
  CASE b = Entry                    -> Enter(Root)
    [] b[1] = "label"               -> Enter(Labeled(b[2]))
    [] b[1] = "header"              -> Enter(b[2])
    [] b[1] \in {"then", "body"}    -> Enter(Kids(b[2])[1])
    [] b[1] = "else"                -> Enter(Kids(b[2])[2])
    [] OTHER                        -> Leave(b[2])
Start(b) == First[PositionOf(b)]

\* What happens first in the code of block b: behind the label, if it is that of one.
Inside(b) == IF b[1] = "label" THEN First[Enter(Kids(Labeled(b[2]))[1])] ELSE Start(b)

IsSilent(instr) == instr.op \in {"alloca", "store"}
Shown(instr) ==
  CASE instr.op = "eval"   -> <<"eval", instr.of>>
    [] instr.op = "condbr" -> <<"branch", instr.of>>
    [] instr.op = "br"     -> Start(instr.to[1])
    [] OTHER               -> Returning

\* The instructions from i on that are not silent, and what the first one shows.
LoudFrom(s, i) == {j \in 1..Len(s) : j >= i /\ ~IsSilent(s[j])}
Stuck == <<"stuck", None>>
ShownFrom(s, i) ==
  IF LoudFrom(s, i) = {} THEN Stuck ELSE Shown(s[Smallest(LoudFrom(s, i))])

NextEvent(b, i) ==
  IF i > 0 THEN ShownFrom(code[b], i)
  ELSE IF ShownFrom(code[b], 1) = Inside(b) THEN Start(b) ELSE Stuck

Source == INSTANCE SourceExecution WITH
  here <- IF pc = Stopped THEN NotRunning ELSE NextEvent(pc.block, pc.index)

(***************************************************************************)
(* Every execution of the compiled function is one of its source: same     *)
(* evaluations, same branches, break, continue, goto and return lead where *)
(* the statements say, code behind a jump is not reached.                  *)
(***************************************************************************)
ImplementsSource == Source!SourceSpec
==============================================================================
