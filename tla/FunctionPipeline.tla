---------------------------- MODULE FunctionPipeline ----------------------------
(***************************************************************************)
(* One function definition through the compiler: parsed, type checked and  *)
(* compiled, each pass walking the statements the parser produced.  main   *)
(* runs the passes in this order, and an error in one ends the program.    *)
(***************************************************************************)
EXTENDS StatementParser, StatementSema, StatementCodegen

vars_ == <<parserVars, semaVars, codegenVars>>

TypeOK == ParserTypeOK /\ SemaTypeOK /\ CodegenTypeOK

Init == ParserInit /\ SemaInit /\ CodegenInit

Next ==
  \/ Parse /\ UNCHANGED <<semaVars, codegenVars>>
  \/ Typecheck /\ UNCHANGED <<notElse, codegenVars>>
  \/ Compile /\ UNCHANGED <<notElse, semaVars>>

Spec == Init /\ [][Next]_vars_
------------------------------------------------------------------------------
\* The terminators of block b, by position.
TerminatorsOf(b) == {i \in 1..Len(code[b]) : IsTerminator(code[b][i])}

(***************************************************************************)
(* The main builder never appends to a block that has its terminator: the  *)
(* dead block behind every jump, and the order in which the end, else and  *)
(* label blocks are continued, keep it from doing so.  What does follow a  *)
(* terminator is an alloca in the entry block (jump.cpp, controlflow.cpp). *)
(***************************************************************************)
OneTerminator ==
  \A b \in Block : \A i, j \in 1..Len(code[b]) :
    i < j /\ IsTerminator(code[b][i]) => b = Entry /\ code[b][j].op = "alloca"

(***************************************************************************)
(* In a compiled function every block that was created, also those behind  *)
(* jumps and of labels, got its terminator; every branch goes to a block   *)
(* of the function, and every return fits the return type                  *)
(* (function_definition.cpp:118-134).                                      *)
(***************************************************************************)
BlocksAreComplete ==
  phase = "compiled" =>
    \A b \in Block :
      /\ (TerminatorsOf(b) # {}) = (b \in created)
      /\ \A i \in 1..Len(code[b]) :
           /\ \A t \in 1..Len(code[b][i].to) : code[b][i].to[t] \in created
           /\ code[b][i].op \in {"ret", "ret value"} =>
                VoidFunction = (code[b][i].op = "ret")

(***************************************************************************)
(* program.cpp:129-130 calls verifyModule to "ensure that we created a     *)
(* valid module": the last instruction of every block of a compiled        *)
(* function is its terminator.                                             *)
(***************************************************************************)
TerminatorIsLast ==
  phase = "compiled" => \A b \in created : HasTerminator(b)

(***************************************************************************)
(* The alloca builder starts at the end of the entry block.  It is moved   *)
(* to the front by the second parameter or the first declaration; if that  *)
(* happens before the first branch, every block ends in its terminator     *)
(* (function_definition.cpp:90-105, inline.cpp:60-66).                     *)
(***************************************************************************)
IsMovedEarly ==
  \/ Len(Params) > 1
  \/ \E d \in OfKind("declaration") : Parent(d) = Root /\ ast[d].name # NoName

EarlyAllocasKeepEntryValid == IsMovedEarly => TerminatorIsLast

(***************************************************************************)
(* What the type checker accepts the code generator can compile: it throws *)
(* no exception for an identifier without an alloca, which primary.cpp:45  *)
(* relies on, and misses no label.                                         *)
(***************************************************************************)
AcceptedFunctionsCompile ==
  [][phase = "compile" => phase' \in {"compile", "compiled"}]_vars_

(***************************************************************************)
(* Type checker and code generator resolve an identifier alike, except to  *)
(* a variable that an enclosing block declares behind the use: the code    *)
(* generator compiles the declarations of a block first (block.cpp:36-46). *)
(***************************************************************************)
DeclaredLaterIn(b, n) ==
  \E d \in OfKind("declaration") : Parent(d) = b /\ n < d /\ ast[d].name = ast[n].name

ResolutionsAgree ==
  \A b \in Block : \A i \in 1..Len(code[b]) :
    LET e == code[b][i] IN
    e.op = "eval" => e.scope = resolved[e.of] \/ DeclaredLaterIn(e.scope, e.of)

(***************************************************************************)
(* Every compilation ends: no handler waits for a child that is not called *)
(* and every handler returns.                                              *)
(***************************************************************************)
CompilationEnds == <>(phase \in Ends)
==============================================================================
