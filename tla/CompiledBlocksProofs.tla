-------------------------- MODULE CompiledBlocksProofs --------------------------
(***************************************************************************)
(* The code of a function the type checker has accepted, for every body:   *)
(* the code generator throws nothing and rejects nothing, every block gets *)
(* its terminator, every branch its target, every identifier is read where *)
(* the type checker found it, and executing the code is executing the      *)
(* statements.                                                             *)
(***************************************************************************)
EXTENDS FunctionPipelineProofs, RefinementInvariant, SequenceTheorems

\* What the code generator starts with.
LEMMA StartsCompiling ==
  ASSUME TreeAndTypes, phase \in {"parse", "typecheck"}, Next, phase' = "compile"
  PROVE  /\ FinishTypecheck /\ UNCHANGED <<ast, size, labels, resolved, codegenVars>>
         /\ at' = 1 /\ size' = size /\ \A n \in 1..size : status'[n] = "uncalled"
<1>1. ~Compile
  BY CompileKinds
<1>2. FinishTypecheck /\ UNCHANGED codegenVars
  BY <1>1 DEF Next, Parse, StartBody, OpenStatement, LeafStatement, RefuseStatement, SyntaxError,
     FinishStatement, FinishBody, ReadsStatement, Reject, Typecheck, CheckBlock, CheckCondition,
     CheckLabeled, CheckChild, LeaveChecked, CheckDeclaration, CheckExpression, CheckJump, Checks,
     CheckedLeaf, RejectStatement
<1>3. status' = AllUncalled /\ at' = 1
  BY <1>2 DEF FinishTypecheck, Root
<1> QED BY <1>2, <1>3, Ranges DEF FinishTypecheck, AllUncalled, semaVars

\* The step before a state of the code generator.
LEMMA CompilePhase ==
  ASSUME TreeAndTypes, [Next]_vars_, phase' = "compile"
  PROVE  \/ phase \in {"parse", "typecheck"} /\ FinishTypecheck
         \/ phase = "compile" /\ Compile
         \/ phase = "compile" /\ UNCHANGED vars_
<1>1. CASE UNCHANGED vars_
  BY <1>1 DEF vars_, parserVars
<1>2. CASE Parse
  BY <1>2 DEF Parse, StartBody, OpenStatement, LeafStatement, RefuseStatement, SyntaxError,
     FinishStatement, FinishBody, ReadsStatement, Reject
<1>3. CASE Typecheck
  <2>1. phase = "typecheck" /\ phase' = "compile"
    BY <1>3, CheckKinds
  <2>2. FinishTypecheck
    BY <1>3, <2>1 DEF Typecheck, CheckBlock, CheckCondition, CheckLabeled, CheckChild, LeaveChecked,
       CheckDeclaration, CheckExpression, CheckJump, Checks, CheckedLeaf, RejectStatement, Reject
  <2> QED BY <2>1, <2>2
<1>4. CASE Compile
  BY <1>4, CompileKinds
<1> QED BY <1>1, <1>2, <1>3, <1>4 DEF Next, vars_, parserVars
------------------------------------------------------------------------------
\* The declarations of a block are compiled first.

LEMMA DeclarationsCalled ==
  ASSUME TreeAndTypes, TreeAndTypes', ShapeInv, PathInv, DeclarationsFirst, phase = "compile",
         at # None, Calls, CompileChild, UNCHANGED <<ast, size>>,
         NEW k \in 1..size, k = at', KindOf(k) # "declaration",
         NEW b \in EnclosingBlocks(k), b # k, NEW d \in OfKind("declaration"), Parent(d) = b
  PROVE  Called(d)
<1>0. PICK a \in 1..size : a = at
  BY Basics DEF None
<1>1. PICK i \in 1..Len(Kids(a)) :
        /\ \A j \in 1..Len(Kids(a)) : CompiledBefore(Kids(a)[j], Kids(a)[i]) => Called(Kids(a)[j])
        /\ k = Kids(a)[i]
  BY <1>0 DEF CompileChild
<1>2. k \in 2..size /\ Parent(k) = a /\ a \in Stmt
  BY <1>0, <1>1, Basics, Ranges
<1>3. IsRunning(a) /\ KindOf(a) \notin LeafKind
  BY <1>0 DEF Calls, Resuming, IsRunning, PathInv, Walks
<1>4. CASE b = a
  <2>1. d \in 2..size
    <3>1. KindOf(1) = "block" /\ size \in Nat /\ d \in 1..size /\ KindOf(d) = "declaration"
      BY <1>0, Ranges DEF TreeAndTypes, TreeInv, Root, OfKind, KindOf
    <3> QED BY <3>1
  <2>2. PICK j \in 1..Len(Kids(a)) : Kids(a)[j] = d
    BY <1>4, <2>1 DEF ShapeInv, Walks, Joined, IsKid
  <2>3. CompiledBefore(d, k)
    BY DEF CompiledBefore, IsDecl, OfKind, KindOf
  <2> QED BY <1>1, <2>2, <2>3
<1>5. CASE b # a
  <2>1. Enclosing[k] = {k} \cup Enclosing[a]
    BY <1>2, Basics, Ranges, EnclosingUnfolds
  <2>2. b \in EnclosingBlocks(a)
    BY <2>1 DEF EnclosingBlocks
  <2>3. KindOf(a) # "declaration"
    BY <1>3 DEF LeafKind
  <2> QED BY <1>0, <1>5, <2>2, <2>3 DEF DeclarationsFirst, IsActive
<1> QED BY <1>4, <1>5

LEMMA DeclarationsFirstStep ==
  ASSUME TreeAndTypes, TreeAndTypes', ShapeInv, PathInv, DeclarationsFirst, [Next]_vars_
  PROVE  DeclarationsFirst'
<1>1. SUFFICES ASSUME phase' = "compile" PROVE DeclarationsFirst'
  BY DEF DeclarationsFirst
<1>2. CASE phase \in {"parse", "typecheck"} /\ FinishTypecheck
  <2>1. /\ at' = 1 /\ size' = size /\ UNCHANGED ast /\ \A n \in 1..size : status'[n] = "uncalled"
    BY <1>1, <1>2, StartsCompiling DEF vars_, parserVars, FinishTypecheck, AllUncalled, Root
  <2>2. size > 0
    BY <1>2, Ranges DEF FinishTypecheck, TreeAndTypes, TreeInv, None, Root
  <2>3. Enclosing'[1] = Enclosing[1] /\ Enclosing[1] \subseteq 1..1 /\ size \in Nat
    BY <2>1, <2>2, EnclosingKept, EnclosingRange, Ranges
  <2>4. EnclosingBlocks(1)' \subseteq {1}
    BY <2>3 DEF EnclosingBlocks
  <2>5. \A n \in 1..size : IsActive(n)' => n = 1
    BY <2>1 DEF IsActive, IsRunning
  <2> QED BY <2>1, <2>4, <2>5 DEF DeclarationsFirst
<1>3. CASE phase = "compile" /\ Compile
  <2>1. at # None /\ UNCHANGED <<ast, size>> /\ (Enters \/ (Calls /\ CompileChild) \/ Leaves)
    BY <1>1, <1>3, CompileKinds
  <2>2. PICK a \in 1..size : a = at
    BY <2>1, Basics DEF None
  <2>3. \A n : KindOf(n)' = KindOf(n) /\ Parent(n)' = Parent(n) /\ OfKind("declaration")' = OfKind("declaration")
    BY <2>1 DEF KindOf, Parent, OfKind
  <2>4. \A n \in 1..size : EnclosingBlocks(n)' = EnclosingBlocks(n)
    BY <2>1, LoopsKept
  <2>5. \A n \in 1..size : Called(n) => Called(n)'
    BY <2>2, <2>1, CalledAfter
  <2>6. ASSUME NEW n \in 1..size, IsActive(n)', KindOf(n) # "declaration",
               NEW b \in EnclosingBlocks(n), b # n, NEW d \in OfKind("declaration"), Parent(d) = b
        PROVE  Called(d)'
    <3>0. d \in 1..size
      BY DEF OfKind
    <3>1. CASE IsActive(n)
      BY <1>3, <2>5, <2>6, <3>0, <3>1 DEF DeclarationsFirst
    <3>2. CASE ~IsActive(n)
      <4>1. n = at' /\ Calls /\ CompileChild
        <5>1. CASE Enters
          BY <2>2, <2>1, <2>6, <3>2, <5>1, CalledAfter DEF IsActive, IsRunning, Enters
        <5>2. CASE Leaves
          <6>1. IsRunning(Parent(at)) /\ at' = Parent(at)
            BY <1>3, <5>2, LargestRunning DEF Leaves, Return, Walks
          <6>2. \A m \in 1..size : IsRunning(m)' => IsRunning(m)
            <7>1. status' = [status EXCEPT ![a] = "returned"] /\ status \in [Stmt -> Statuses]
              BY <2>2, <5>2 DEF Leaves, Return, TreeAndTypes, TypeOK, ParserTypeOK
            <7> QED BY <7>1, Ranges DEF IsRunning
          <6> QED BY <2>6, <3>2, <6>1, <6>2 DEF IsActive
        <5>3. CASE Calls /\ CompileChild
          BY <2>6, <3>2, <5>3 DEF IsActive, IsRunning, Calls
        <5> QED BY <2>1, <5>1, <5>2, <5>3
      <4>2. Called(d)
        BY <1>3, <2>1, <2>6, <4>1, DeclarationsCalled
      <4> QED BY <2>5, <3>0, <4>2
    <3> QED BY <3>1, <3>2
  <2> QED BY <2>1, <2>3, <2>4, <2>6 DEF DeclarationsFirst
<1>4. CASE phase = "compile" /\ UNCHANGED vars_
  <2>1. UNCHANGED <<ast, size, status, at>>
    BY <1>4 DEF vars_, parserVars
  <2>2. \A n \in 1..size : EnclosingBlocks(n)' = EnclosingBlocks(n)
    BY <2>1, LoopsKept
  <2> QED BY <1>4, <2>1, <2>2 DEF DeclarationsFirst, IsActive, IsRunning, Called, KindOf, Parent, OfKind
<1> QED BY <1>1, <1>2, <1>3, <1>4, CompilePhase
------------------------------------------------------------------------------
\* The variables that the code generator has allocated.

LEMMA NamesKept ==
  ASSUME UNCHANGED <<ast, size>>, \A d \in OfKind("declaration") : Called(d)' <=> Called(d), NEW b
  PROVE  NamesOf(CalledDeclarations(b))' = NamesOf(CalledDeclarations(b))
<1>1. OfKind("declaration")' = OfKind("declaration")
  BY DEF OfKind
<1>2. CalledDeclarations(b)' = CalledDeclarations(b)
  BY <1>1 DEF CalledDeclarations, Parent
<1> QED BY <1>2 DEF NamesOf

LEMMA AllocasDeclared ==
  ASSUME TreeAndTypes, ShapeInv, AllocasInv, CompileDeclaration
  PROVE  AllocasInv'
<1>1. /\ at \in 2..size /\ at \in 1..size /\ KindOf(at) = "declaration" /\ phase = "compile"
      /\ phase' = "compile" /\ UNCHANGED <<ast, size>>
  <2>1. at # None /\ KindOf(at) = "declaration"
    BY DEF CompileDeclaration, Generates
  <2>2. at \in 2..size
    BY <2>1, InnerStatement, ParentType
  <2> QED BY <2>1, <2>2, Ranges DEF CompileDeclaration, Generates
<1>2. PICK a \in 2..size : a = at
  BY <1>1
<1>3. PICK p \in 1..size : p = Parent(a)
  BY <1>2, Ranges
<1>4. PICK x \in Name \cup {NoName} : x = ast[a].name
  <2>1. ast[a].name \in HeadNames("declaration")
    BY <1>2, <1>1 DEF TreeAndTypes, TreeInv
  <2> QED BY <2>1, HeadNamesType
<1>5. /\ allocas \in [Stmt -> SUBSET Name] /\ a \in Stmt /\ p \in Stmt
      /\ allocas' = IF x = NoName THEN allocas ELSE [allocas EXCEPT ![p] = @ \cup {x}]
      /\ status \in [Stmt -> Statuses] /\ status' = [status EXCEPT ![a] = "returned"]
      /\ a \in OfKind("declaration")
  BY <1>2, <1>1, <1>3, <1>4, Ranges DEF CompileDeclaration, IsAbstract, Return, TreeAndTypes,
     TypeOK, CodegenTypeOK, ParserTypeOK, OfKind, KindOf
<1>6. OfKind("declaration")' = OfKind("declaration") /\ \A d : Parent(d)' = Parent(d)
  BY <1>1 DEF OfKind, Parent
<1>7. \A d \in 1..size : Called(d)' <=> Called(d) \/ d = a
  BY <1>5, Ranges DEF Called
<1>8. ASSUME NEW b \in Stmt PROVE allocas'[b] = NamesOf(CalledDeclarations(b))'
  <2>1. allocas[b] = NamesOf(CalledDeclarations(b))
    BY <1>1 DEF AllocasInv
  <2>2. \A d \in OfKind("declaration") : d \in 1..size
    BY DEF OfKind
  <2>3. CASE b = p
    <3>1. CalledDeclarations(b)' = CalledDeclarations(b) \cup {a}
      BY <1>3, <1>5, <1>6, <1>7, <2>2, <2>3 DEF CalledDeclarations
    <3>2. NamesOf(CalledDeclarations(b))' = NamesOf(CalledDeclarations(b)) \cup ({x} \ {NoName})
      <4>1. NamesOf(CalledDeclarations(b))' = NamesOf(CalledDeclarations(b) \cup {a})
        BY <1>1, <3>1 DEF NamesOf
      <4> QED BY <1>4, <4>1, NamesAdded
    <3>3. allocas'[b] = allocas[b] \cup ({x} \ {NoName})
      BY <1>5, <2>3
    <3> QED BY <2>1, <3>2, <3>3
  <2>4. CASE b # p
    <3>1. CalledDeclarations(b)' = CalledDeclarations(b)
      BY <1>3, <1>5, <1>6, <1>7, <2>2, <2>4 DEF CalledDeclarations
    <3>2. NamesOf(CalledDeclarations(b))' = NamesOf(CalledDeclarations(b))
      BY <1>1, <3>1 DEF NamesOf
    <3>3. allocas'[b] = allocas[b]
      BY <1>5, <2>4
    <3> QED BY <2>1, <3>2, <3>3
  <2> QED BY <2>3, <2>4
<1> QED BY <1>1, <1>8 DEF AllocasInv

\* Every other action calls no declaration.
LEMMA OtherKinds ==
  ASSUME TreeAndTypes, Compile, ~CompileDeclaration, phase' = "compile"
  PROVE  /\ allocas' = allocas
         /\ \A d \in OfKind("declaration") : Called(d)' <=> Called(d)
<1>1. /\ allocas' = allocas /\ (Entering => KindOf(at) # "declaration")
  BY DEF Compile, CompileFunction, CompileScope, CompileCondition, CompileChild, LeaveCompiled,
     CompileExpression, CompileEmpty, CompileJump, Jump, FinishFunction, Generates, Entering,
     Resuming, codegenVars
<1>2. at # None /\ (Enters \/ Calls \/ Leaves)
  BY CompileKinds
<1>3. PICK a \in 1..size : a = at
  BY <1>2, Basics DEF None
<1>4. \A d \in OfKind("declaration") : d \in 1..size /\ KindOf(d) = "declaration"
  BY DEF OfKind, KindOf
<1> QED BY <1>1, <1>2, <1>3, <1>4, CalledAfter

LEMMA AllocasStep ==
  ASSUME TreeAndTypes, TreeAndTypes', ShapeInv, AllocasInv, [Next]_vars_
  PROVE  AllocasInv'
<1>1. CASE phase' = "compile"
  <2>1. CASE phase \in {"parse", "typecheck"} /\ FinishTypecheck
    <3>1. allocas' = allocas /\ size' = size /\ \A n \in 1..size : ~Called(n)'
      BY <1>1, <2>1, StartsCompiling DEF codegenVars, Called, vars_, parserVars
    <3>2. \A b : CalledDeclarations(b)' = {}
      BY <3>1 DEF CalledDeclarations, OfKind
    <3>3. \A b \in Stmt : NamesOf(CalledDeclarations(b))' = {}
      BY <3>2 DEF NamesOf
    <3> QED BY <1>1, <2>1, <3>1, <3>3 DEF AllocasInv
  <2>2. CASE phase = "compile" /\ Compile
    <3>1. CASE ~CompileDeclaration
      BY <1>1, <2>2, <3>1, CompileKinds, OtherKinds, NamesKept DEF AllocasInv
    <3> QED BY <3>1, AllocasDeclared
  <2>3. CASE phase = "compile" /\ UNCHANGED vars_
    <3>1. UNCHANGED <<ast, size, allocas, status>>
      BY <2>3 DEF vars_, parserVars, codegenVars
    <3> QED BY <1>1, <2>3, <3>1, NamesKept DEF AllocasInv, Called
  <2> QED BY <1>1, <2>1, <2>2, <2>3, CompilePhase
<1>2. CASE phase' \in {"parse", "typecheck"}
  <2>1. allocas' = allocas /\ phase \in {"parse", "typecheck"}
    <3>1. CASE Compile
      BY <1>2, <3>1, CompileKinds DEF Ends
    <3>2. CASE Parse /\ UNCHANGED codegenVars
      BY <3>2 DEF codegenVars, Parse, StartBody, OpenStatement, LeafStatement, RefuseStatement,
         SyntaxError, FinishStatement, FinishBody, ReadsStatement
    <3>3. CASE Typecheck /\ UNCHANGED codegenVars
      BY <3>3, CheckKinds DEF codegenVars
    <3>4. CASE UNCHANGED vars_
      BY <1>2, <3>4 DEF vars_, parserVars, codegenVars
    <3> QED BY <3>1, <3>2, <3>3, <3>4 DEF Next
  <2> QED BY <1>2, <2>1 DEF AllocasInv
<1> QED BY <1>1, <1>2 DEF AllocasInv
------------------------------------------------------------------------------
(***************************************************************************)
(* The variable that the code of an expression reads.  All declarations of *)
(* the blocks around the expression have been compiled, those behind it    *)
(* too; without the latter the code generator finds what the type checker  *)
(* has found.                                                              *)
(***************************************************************************)
DeclaresIn(c, x) == \E d \in OfKind("declaration") : Parent(d) = c /\ ast[d].name = x

LEMMA HoldingDeclares ==
  ASSUME TreeAndTypes, DeclarationsFirst, AllocasInv, phase = "compile",
         NEW a \in 1..size, a = at, KindOf(a) \in EvalKind, NEW x, x # NoName
  PROVE  Holding(x) = {c \in EnclosingBlocks(a) : DeclaresIn(c, x)}
<1>1. ASSUME NEW c \in EnclosingBlocks(a) PROVE x \in allocas[c] <=> DeclaresIn(c, x)
  <2>1. c \in Stmt /\ c # a /\ KindOf(a) # "declaration"
    BY DEF EnclosingBlocks, EvalKind
  <2>2. \A d \in OfKind("declaration") : Parent(d) = c => Called(d)
    BY <2>1 DEF DeclarationsFirst, IsActive
  <2>3. allocas[c] = NamesOf(CalledDeclarations(c))
    BY <2>1 DEF AllocasInv
  <2>4. CalledDeclarations(c) = {d \in OfKind("declaration") : Parent(d) = c}
    BY <2>2 DEF CalledDeclarations
  <2> QED BY <2>3, <2>4 DEF NamesOf, DeclaresIn
<1> QED BY <1>1 DEF Holding

LEMMA VisibleDeclares ==
  ASSUME NEW a, NEW x, x = ast[a].name
  PROVE  \A c : c \in Visible(a)
           <=> /\ c \in EnclosingBlocks(a)
               /\ \/ \E d \in OfKind("declaration") : Parent(d) = c /\ d < a /\ ast[d].name = x
                  \/ c = Root /\ IsParam(x)
BY DEF Visible, DeclaredBefore, ParamNames, IsParam

LEMMA EvaluationAgrees ==
  ASSUME TreeAndTypes, DeclarationsFirst, AllocasInv, CheckedInv, phase = "compile",
         at # None, KindOf(at) \in EvalKind
  PROVE  /\ HasAlloca(ast[at].name)
         /\ \A e \in Evaluations :
              /\ e.op = "eval" /\ e.of = at /\ e.to = <<>>
              /\ e.scope = resolved[at] \/ DeclaredLaterIn(e.scope, at)
<1>0. PICK a \in 1..size : a = at
  BY Basics DEF None
<1> DEFINE x == ast[a].name
<1>1. IsAccepted(a)
  BY DEF CheckedInv, IsChecked
<1>2. /\ x \in Global \cup {NoName} \/ Visible(a) # {}
      /\ resolved[a] = IF Visible(a) = {} \/ x = NoName THEN None ELSE Innermost(Visible(a))
  BY <1>0, <1>1 DEF IsAccepted
<1> HIDE DEF x
<1>3. \A c : c \in Visible(a)
        <=> /\ c \in EnclosingBlocks(a)
            /\ \/ \E d \in OfKind("declaration") : Parent(d) = c /\ d < a /\ ast[d].name = x
               \/ c = Root /\ IsParam(x)
  BY VisibleDeclares DEF x
<1>4. x # NoName => Holding(x) = {c \in EnclosingBlocks(a) : DeclaresIn(c, x)}
  BY <1>0, HoldingDeclares
<1>5. HasAlloca(x)
  <2>1. CASE x \in Global \cup {NoName}
    BY <2>1 DEF HasAlloca
  <2>2. CASE x # NoName /\ Visible(a) # {}
    <3>1. PICK c : c \in Visible(a)
      BY <2>2
    <3>2. c \in Holding(x) \/ IsParam(x)
      BY <1>3, <1>4, <2>2, <3>1 DEF DeclaresIn
    <3> QED BY <3>2 DEF HasAlloca
  <2> QED BY <1>2, <2>1, <2>2
<1>6. ASSUME NEW b \in Stmt \cup {None}, FindsAlloca(x, b)
      PROVE  b = resolved[a] \/ DeclaredLaterIn(b, a)
  <2>0. /\ \A c \in EnclosingBlocks(a) : c \in 1..MaxStatements
        /\ Root \in EnclosingBlocks(a) /\ MaxStatements \in Nat
    <3>1. Root \in Enclosing[a] /\ KindOf(Root) = "block" /\ Root \in Stmt
      BY EnclosingRange, Ranges, AstAssumption DEF TreeAndTypes, TreeInv, Root, Stmt
    <3> QED BY <3>1, AstAssumption DEF EnclosingBlocks, Stmt
  <2>1. Visible(a) \subseteq Int
    BY <1>3, <2>0
  <2>2. CASE x = NoName
    <3>1. ~IsParam(x)
      BY <2>2, AstAssumption DEF IsParam
    <3>2. Holding(x) = {}
      <4>1. \A c \in EnclosingBlocks(at) : x \notin allocas[c]
        BY <2>2, AstAssumption DEF EnclosingBlocks, TreeAndTypes, TypeOK, CodegenTypeOK
      <4> QED BY <4>1 DEF Holding
    <3> QED BY <1>2, <1>6, <2>2, <3>1, <3>2 DEF FindsAlloca
  <2>3. CASE x # NoName /\ Holding(x) = {}
    <3>1. \A c : c \in Visible(a) <=> c = Root /\ IsParam(x)
      BY <1>3, <1>4, <2>0, <2>3 DEF DeclaresIn
    <3>2. b = IF IsParam(x) THEN Root ELSE None
      BY <1>6, <2>3 DEF FindsAlloca
    <3>3. CASE IsParam(x)
      <4>1. IsInnermost(Root, Visible(a))
        BY <3>1, <3>3 DEF IsInnermost, Root
      <4> QED BY <1>2, <2>1, <2>3, <3>1, <3>2, <3>3, <4>1, InnermostIs
    <3> QED BY <1>2, <3>1, <3>2, <3>3
  <2>4. CASE x # NoName /\ Holding(x) # {}
    <3>1. b \in Holding(x) /\ \A m \in Holding(x) : m <= b
      BY <1>6, <2>4 DEF FindsAlloca, IsInnermost
    <3>2. b \in EnclosingBlocks(a) /\ DeclaresIn(b, x)
      BY <1>4, <2>4, <3>1
    <3>3. ASSUME ~DeclaredLaterIn(b, a) PROVE b = resolved[a]
      <4>1. b \in Visible(a)
        <5>1. PICK d \in OfKind("declaration") : Parent(d) = b /\ ast[d].name = x
          BY <3>2 DEF DeclaresIn
        <5>2. d \in 1..size /\ d # a
          BY <1>0, <5>1 DEF OfKind, KindOf, EvalKind
        <5>3. ~(a < d)
          BY <3>3, <5>1 DEF DeclaredLaterIn, x
        <5>4. d < a
          BY <5>2, <5>3, Ranges
        <5> QED BY <1>3, <3>2, <5>1, <5>4
      <4>2. ASSUME NEW m \in Visible(a) PROVE m <= b
        <5>1. CASE m = Root
          BY <2>0, <3>2, <5>1 DEF Root
        <5>2. CASE m # Root
          <6>1. m \in Holding(x)
            BY <1>3, <1>4, <2>4, <5>2 DEF DeclaresIn
          <6> QED BY <3>1, <6>1
        <5> QED BY <5>1, <5>2
      <4>3. IsInnermost(b, Visible(a))
        BY <4>1, <4>2 DEF IsInnermost
      <4> QED BY <1>2, <2>1, <2>4, <4>1, <4>3, InnermostIs
    <3> QED BY <3>3
  <2> QED BY <2>2, <2>3, <2>4
<1>7. ASSUME NEW e \in Evaluations
      PROVE  /\ e.op = "eval" /\ e.of = at /\ e.to = <<>>
             /\ e.scope = resolved[at] \/ DeclaredLaterIn(e.scope, at)
  <2>1. PICK b \in Stmt \cup {None} : FindsAlloca(x, b) /\ e = Eval(at, b)
    BY <1>0 DEF Evaluations, x
  <2>2. e.op = "eval" /\ e.of = at /\ e.to = <<>> /\ e.scope = b
    BY <2>1 DEF Eval
  <2> QED BY <1>0, <1>6, <2>1, <2>2
<1> QED BY <1>0, <1>5, <1>7 DEF x
------------------------------------------------------------------------------
\* The blocks that a break or continue branches to.

\* The handler of the body is the first to be called.
LEMMA FunctionStarts ==
  ASSUME TreeAndTypes, CompileFunction
  PROVE  /\ at = 1 /\ at' = 1 /\ size' = size /\ 1 \in 1..size /\ UNCHANGED <<ast, phase>>
         /\ status'[1] = "running" /\ \A n \in 1..size : n # 1 => status'[n] = "uncalled"
         /\ \A n \in 1..size : status[n] = "uncalled"
<1>1. /\ at = 1 /\ at' = 1 /\ size' = size /\ UNCHANGED <<ast, phase>> /\ phase = "compile"
      /\ status' = [status EXCEPT ![1] = "running"] /\ ~Called(1)
  BY DEF CompileFunction, Generates, Root, Run, Entering, Called
<1>2. status = AllUncalled
  BY <1>1 DEF TreeAndTypes, PassInv, Walks, Root
<1>3. size > 0
  BY <1>1, Ranges DEF TreeAndTypes, TreeInv, None
<1> QED BY <1>1, <1>2, <1>3, Ranges DEF AllUncalled

LEMMA TargetsEffects ==
  ASSUME TreeAndTypes, Compile, phase' = "compile"
  PROVE  \/ CompileFunction
         \/ created \subseteq created' /\ targets' = targets /\ (Calls \/ Leaves)
         \/ /\ created \subseteq created' /\ Enters /\ at # Root
            /\ targets' = [targets EXCEPT ![at] =
                             IF KindOf(at) = "while" THEN LoopTargets ELSE Inherited]
            /\ KindOf(at) = "while" => {<<"end", at>>, <<"header", at>>} \subseteq created'
<1>1. CASE CompileScope
  BY <1>1 DEF CompileScope, Generates, Enters, LeafKind
<1>2. CASE CompileCondition
  <2>1. Enters /\ at # Root /\ KindOf(at) \in {"if", "while"}
    <3>1. at # None /\ KindOf(at) \in {"if", "while"}
      BY <1>2 DEF CompileCondition, Generates
    <3> QED BY <1>2, <3>1, InnerStatement DEF CompileCondition, Generates, Enters, LeafKind
  <2> QED BY <1>2, <2>1 DEF CompileCondition, BranchBlocks
<1>3. CASE CompileChild
  BY <1>3 DEF CompileChild, Calls
<1>4. CASE LeaveCompiled
  BY <1>4 DEF LeaveCompiled, Leaves
<1>5. CASE CompileDeclaration \/ CompileExpression \/ CompileEmpty \/ CompileJump
  <2>1. /\ targets' = targets /\ created \subseteq created' /\ ~Enters /\ ~Calls
    BY <1>5 DEF CompileDeclaration, CompileExpression, CompileEmpty, CompileJump, Jump, Generates,
       codegenVars, Enters, Calls, Entering, Resuming, LeafKind
  <2>2. phase' # "compiled"
    OBVIOUS
  <2> QED BY <2>1, <2>2, CompileKinds
<1>6. ~FinishFunction
  BY DEF FinishFunction
<1> QED BY <1>1, <1>2, <1>3, <1>4, <1>5, <1>6 DEF Compile

LEMMA TargetsStep ==
  ASSUME TreeAndTypes, TreeAndTypes', PathInv, TargetsInv, [Next]_vars_
  PROVE  TargetsInv'
<1> DEFINE GoodTargets(n) ==
             /\ {targets[n].break, targets[n].continue} \subseteq created \cup {NoBlock}
             /\ LoopsAround(n) # {} => NoBlock \notin {targets[n].break, targets[n].continue}
<1>1. SUFFICES ASSUME phase' = "compile", NEW n \in 1..size', IsRunning(n)'
               PROVE  GoodTargets(n)'
  BY DEF TargetsInv
<1>2. phase = "compile" => \A m \in 1..size : IsRunning(m) => GoodTargets(m)
  BY DEF TargetsInv
<1>3. CASE phase \in {"parse", "typecheck"} /\ FinishTypecheck
  <2>1. n \in Stmt /\ status' = AllUncalled
    BY <1>3, Ranges DEF FinishTypecheck
  <2> QED BY <1>1, <2>1 DEF IsRunning, AllUncalled
<1>4. CASE phase = "compile" /\ CompileFunction
  <2>1. n = 1 /\ 1 \in Stmt /\ at = 1
    BY <1>1, <1>4, FunctionStarts, Ranges DEF IsRunning
  <2>2. targets'[1] = NoTargets
    BY <1>4, <2>1 DEF CompileFunction, Inherited, Root, TreeAndTypes, TypeOK, CodegenTypeOK
  <2>3. LoopsAround(1)' = {}
    <3>1. LoopsAround(1)' = LoopsAround(1)
      BY <1>4, FunctionStarts, LoopsKept
    <3>2. size > 0
      BY <1>4, FunctionStarts, Ranges
    <3> QED BY <3>1, <3>2, NoLoopsAroundRoot DEF Root
  <2> QED BY <2>1, <2>2, <2>3 DEF NoTargets
<1>5. CASE phase = "compile" /\ Compile /\ ~CompileFunction
  <2>1. at # None /\ UNCHANGED <<ast, size>> /\ (Enters \/ Calls \/ Leaves)
    BY <1>1, <1>5, CompileKinds
  <2>2. PICK a \in 1..size : a = at
    BY <2>1, Basics DEF None
  <2>3. n \in 1..size /\ LoopsAround(n)' = LoopsAround(n) /\ created \subseteq created'
    BY <1>1, <1>5, <2>1, LoopsKept, TargetsEffects
  <2>4. CASE n # a \/ ~Enters
    <3>1. IsRunning(n)
      <4>1. status' = [status EXCEPT ![a] = IF Enters THEN "running" ELSE "returned"]
            \/ status' = status
        BY <2>2, <2>1 DEF Enters, Calls, Leaves, Run, Return
      <4>2. status \in [Stmt -> Statuses] /\ n \in Stmt /\ a \in Stmt
        BY <2>2, <2>3, Ranges DEF TreeAndTypes, TypeOK, ParserTypeOK
      <4> QED BY <1>1, <2>4, <4>1, <4>2 DEF IsRunning
    <3>2. targets'[n] = targets[n]
      <4>1. targets' = targets \/ (\E t : targets' = [targets EXCEPT ![a] = t] /\ Enters)
        BY <1>1, <1>5, <2>2, TargetsEffects
      <4>2. DOMAIN targets = Stmt
        BY DEF TreeAndTypes, TypeOK, CodegenTypeOK
      <4> QED BY <2>3, <2>4, <4>1, <4>2, Ranges
    <3> QED BY <1>2, <1>5, <2>3, <3>1, <3>2
  <2>5. CASE n = a /\ Enters
    <3>1. /\ a # Root
          /\ KindOf(a) = "while" => {<<"end", a>>, <<"header", a>>} \subseteq created'
          /\ targets' = [targets EXCEPT ![a] =
                           IF KindOf(a) = "while" THEN LoopTargets ELSE Inherited]
      <4>1. ~Calls
        BY <2>5 DEF Enters, Calls, Entering, Resuming
      <4>2. ~Leaves
        BY <2>5 DEF Enters, Leaves, Entering, Resuming
      <4> QED BY <1>1, <1>5, <2>2, <4>1, <4>2, TargetsEffects
    <3>2. targets'[a] = IF KindOf(a) = "while" THEN LoopTargets ELSE Inherited
      BY <2>2, <3>1, Ranges DEF TreeAndTypes, TypeOK, CodegenTypeOK
    <3>3. CASE KindOf(a) = "while"
      <4>1. targets'[a].break = <<"end", a>> /\ targets'[a].continue = <<"header", a>>
        BY <2>2, <3>2, <3>3 DEF LoopTargets
      <4>2. <<"end", a>> # NoBlock /\ <<"header", a>> # NoBlock
        BY DEF NoBlock
      <4> QED BY <2>5, <3>1, <3>3, <4>1, <4>2
    <3>4. CASE KindOf(a) # "while"
      <4>1. a \in 2..size
        BY <3>1, Ranges DEF Root
      <4>2. PICK p \in 1..size : p = Parent(a) /\ IsRunning(p)
        BY <1>5, <2>2, <3>1, <4>1, Ranges DEF PathInv, Walks
      <4>3. targets'[a] = targets[p]
        BY <2>2, <3>1, <3>2, <3>4, <4>2 DEF Inherited
      <4>4. LoopsAround(a) = LoopsAround(p)
        BY <3>4, <4>1, <4>2, LoopsAroundParent
      <4> QED BY <1>2, <1>5, <2>3, <2>5, <4>2, <4>3, <4>4
    <3> QED BY <3>3, <3>4
  <2> QED BY <2>4, <2>5
<1>6. CASE phase = "compile" /\ UNCHANGED vars_
  <2>1. UNCHANGED <<ast, size, status, targets, created>>
    BY <1>6 DEF vars_, parserVars, codegenVars
  <2>2. LoopsAround(n)' = LoopsAround(n)
    BY <2>1, LoopsKept
  <2> QED BY <1>1, <1>2, <1>6, <2>1, <2>2 DEF IsRunning
<1> QED BY <1>1, <1>3, <1>4, <1>5, <1>6, CompilePhase

\* A jump that the type checker has accepted has a block to go to.
LEMMA JumpHasTarget ==
  ASSUME TreeAndTypes, PathInv, CheckedInv, TargetsInv, BlocksInv, phase = "compile",
         at # None, KindOf(at) \in {"goto", "break", "continue"}
  PROVE  JumpTarget \in created /\ JumpTarget # NoBlock
<1>1. at \in 2..size /\ at \in 1..size /\ at # Root /\ size > 0
  <2>1. at \notin {None, Root}
    BY InnerStatement
  <2> QED BY <2>1, ParentType, Ranges, Basics
<1>2. PICK a \in 2..size : a = at /\ a # Root
  BY <1>1
<1>3. PICK p \in 1..size : p = Parent(a) /\ IsRunning(p) /\ Called(p)
  BY <1>2, Ranges DEF PathInv, Walks, IsRunning, Called
<1>4. IsAccepted(a)
  BY <1>2, <1>1 DEF CheckedInv, IsChecked
<1>5. Called(Root)
  BY <1>3, Ranges DEF TreeAndTypes, PassInv, Walks, AllUncalled, Called
<1>6. CASE KindOf(a) = "goto"
  <2>1. ast[a].name \in labels
    BY <1>4, <1>6 DEF IsAccepted
  <2>2. LabelBlock(ast[a].name) \in created
    BY <1>5, <2>1 DEF BlocksInv
  <2> QED BY <1>2, <1>6, <2>2 DEF JumpTarget, LabelTarget, LabelBlock, NoBlock
<1>7. CASE KindOf(a) \in {"break", "continue"}
  <2>1. LoopsAround(p) # {}
    BY <1>3, <1>4, <1>7, LoopsAroundParent DEF IsAccepted
  <2>2. /\ {targets[p].break, targets[p].continue} \subseteq created
        /\ NoBlock \notin {targets[p].break, targets[p].continue}
    BY <1>3, <2>1 DEF TargetsInv
  <2>3. Inherited = targets[p]
    BY <1>2, <1>3 DEF Inherited
  <2> QED BY <1>2, <1>7, <2>2, <2>3 DEF JumpTarget
<1> QED BY <1>2, <1>6, <1>7
------------------------------------------------------------------------------
(***************************************************************************)
(* The instructions of a block as a set.  Every action adds instructions   *)
(* to one or two blocks and removes none.                                  *)
(***************************************************************************)
Elements(s) == {s[i] : i \in 1..Len(s)}
InstrsOf(b) == Elements(code[b])
Adds(b, N)  == \A c \in Block : InstrsOf(c)' = IF c = b THEN InstrsOf(c) \cup N ELSE InstrsOf(c)

LEMMA ElementsJoined ==
  ASSUME NEW q \in Seq(Instr), NEW s \in Seq(Instr)
  PROVE  q \o s \in Seq(Instr) /\ Elements(q \o s) = Elements(q) \cup Elements(s)
<1>1. /\ q \o s \in Seq(Instr) /\ Len(q \o s) = Len(q) + Len(s)
      /\ Len(q) \in Nat /\ Len(s) \in Nat
      /\ \A i \in 1..Len(q) : (q \o s)[i] = q[i]
      /\ \A i \in 1..Len(s) : (q \o s)[i + Len(q)] = s[i]
      /\ \A i \in 1..Len(q \o s) :
           \/ i \in 1..Len(q) /\ (q \o s)[i] = q[i]
           \/ i - Len(q) \in 1..Len(s) /\ (q \o s)[i] = s[i - Len(q)]
  OBVIOUS
<1>2. ASSUME NEW e \in Elements(q \o s) PROVE e \in Elements(q) \cup Elements(s)
  BY <1>1 DEF Elements
<1>3. ASSUME NEW e \in Elements(q) PROVE e \in Elements(q \o s)
  <2>1. PICK i \in 1..Len(q) : e = q[i]
    BY DEF Elements
  <2>2. i \in 1..Len(q \o s)
    BY <1>1
  <2> QED BY <1>1, <2>1, <2>2 DEF Elements
<1>4. ASSUME NEW e \in Elements(s) PROVE e \in Elements(q \o s)
  <2>1. PICK i \in 1..Len(s) : e = s[i]
    BY DEF Elements
  <2>2. i + Len(q) \in 1..Len(q \o s)
    BY <1>1
  <2> QED BY <1>1, <2>1, <2>2 DEF Elements
<1> QED BY <1>1, <1>2, <1>3, <1>4

LEMMA ElementsShort ==
  ASSUME NEW a \in Instr, NEW b \in Instr
  PROVE  /\ Elements(<<>>) = {} /\ Elements(<<a>>) = {a} /\ Elements(<<a, b>>) = {a, b}
         /\ <<a>> \in Seq(Instr) /\ <<a, b>> \in Seq(Instr)
         /\ \A q \in Seq(Instr) : Append(q, a) = q \o <<a>>
<1>1. Elements(<<>>) = {}
  BY DEF Elements
<1>2. Len(<<a>>) = 1 /\ <<a>>[1] = a /\ <<a>> \in Seq(Instr)
  OBVIOUS
<1>3. Elements(<<a>>) = {a}
  BY <1>2 DEF Elements
<1>4. <<a, b>> \in Seq(Instr) /\ Len(<<a, b>>) = 2 /\ <<a, b>>[1] = a /\ <<a, b>>[2] = b
  OBVIOUS
<1>5. Elements(<<a, b>>) = {a, b}
  <2> DEFINE s == <<a, b>>
  <2>1. Len(s) = 2 /\ s[1] = a /\ s[2] = b
    BY <1>4
  <2> HIDE DEF s
  <2>2. 1..Len(s) = {1, 2}
    BY <2>1
  <2> QED BY <2>1, <2>2 DEF Elements, s
<1>6. \A q \in Seq(Instr) : Append(q, a) = q \o <<a>>
  OBVIOUS
<1> QED BY <1>1, <1>2, <1>3, <1>4, <1>5, <1>6

LEMMA AddsJoined ==
  ASSUME TreeAndTypes, NEW b \in Block, NEW s \in Seq(Instr),
         code' = [code EXCEPT ![b] = @ \o s] \/ code' = [code EXCEPT ![b] = s \o @]
  PROVE  Adds(b, Elements(s))
<1>1. code \in [Block -> Seq(Instr)] /\ code[b] \in Seq(Instr)
  BY DEF TreeAndTypes, TypeOK, CodegenTypeOK
<1>2. /\ code'[b] = code[b] \o s \/ code'[b] = s \o code[b]
      /\ \A c \in Block : c # b => code'[c] = code[c]
  BY <1>1
<1>3. Elements(code[b] \o s) = Elements(code[b]) \cup Elements(s)
  BY <1>1, ElementsJoined
<1>4. Elements(s \o code[b]) = Elements(s) \cup Elements(code[b])
  BY <1>1, ElementsJoined
<1>5. Elements(code'[b]) = Elements(code[b]) \cup Elements(s)
  <2>1. CASE code'[b] = code[b] \o s
    BY <1>3, <2>1
  <2>2. CASE code'[b] = s \o code[b]
    BY <1>4, <2>2
  <2> QED BY <1>2, <2>1, <2>2
<1>6. \A c : InstrsOf(c)' = Elements(code'[c]) /\ InstrsOf(c) = Elements(code[c])
  BY DEF InstrsOf, Elements
<1>7. \A c \in Block : c # b => Elements(code'[c]) = Elements(code[c])
  BY <1>2
<1> QED BY <1>5, <1>6, <1>7 DEF Adds

LEMMA AddsAppended ==
  ASSUME TreeAndTypes, NEW b \in Block, NEW i \in Instr,
         code' = [code EXCEPT ![b] = Append(@, i)]
  PROVE  Adds(b, {i})
<1>1. code \in [Block -> Seq(Instr)] /\ code[b] \in Seq(Instr)
  BY DEF TreeAndTypes, TypeOK, CodegenTypeOK
<1>2. code' = [code EXCEPT ![b] = @ \o <<i>>]
  BY <1>1, ElementsShort
<1>3. <<i>> \in Seq(Instr) /\ Elements(<<i>>) = {i}
  BY ElementsShort
<1> QED BY <1>2, <1>3, AddsJoined

LEMMA AddsNothing ==
  ASSUME code' = code, NEW b
  PROVE  Adds(b, {})
BY DEF Adds, InstrsOf, Elements

\* The properties of the code in terms of these sets.
CodeAsSets ==
  /\ \A b \in Block : code[b] = <<>> <=> InstrsOf(b) = {}
  /\ \A b \in Block : NoTerminator(code[b]) <=> \A i \in InstrsOf(b) : ~IsTerminator(i)
  /\ \A b \in Block : NoTerminator(code[b]) <=> TerminatorsOf(b) = {}
  /\ CodeFits <=> \A b \in Block : \A i \in InstrsOf(b) : FitsFunction(i)
  /\ ResolutionsAgree <=> \A b \in Block : \A e \in InstrsOf(b) :
       e.op = "eval" => e.scope = resolved[e.of] \/ DeclaredLaterIn(e.scope, e.of)

LEMMA CodeIsSets ==
  ASSUME TreeAndTypes
  PROVE  CodeAsSets
<1>1. \A b \in Block : code[b] \in Seq(Instr)
  BY DEF TreeAndTypes, TypeOK, CodegenTypeOK
<1>2. ASSUME NEW s \in Seq(Instr) PROVE s = <<>> <=> Elements(s) = {}
  <2>1. Len(s) \in Nat /\ (s = <<>> <=> Len(s) = 0)
    OBVIOUS
  <2>2. CASE Len(s) = 0
    BY <2>1, <2>2 DEF Elements
  <2>3. CASE Len(s) # 0
    <3>1. 1 \in 1..Len(s)
      BY <2>1, <2>3
    <3>2. s[1] \in Elements(s)
      BY <3>1 DEF Elements
    <3> QED BY <2>1, <2>3, <3>2
  <2> QED BY <2>2, <2>3
<1>3. \A b \in Block : code[b] = <<>> <=> InstrsOf(b) = {}
  BY <1>1, <1>2 DEF InstrsOf
<1> QED BY <1>3 DEF InstrsOf, Elements, NoTerminator, TerminatorsOf, CodeFits,
     ResolutionsAgree, CodeAsSets

LEMMA CodeIsSetsNext == TreeAndTypes' => CodeAsSets'
<1>1. TreeAndTypes => CodeAsSets
  BY CodeIsSets
<1> QED BY <1>1, PTL
------------------------------------------------------------------------------
\* The blocks that are still to be continued in.

LEMMA StatusAfter ==
  ASSUME TreeAndTypes, NEW a \in 1..size, a = at, NEW v, status' = [status EXCEPT ![a] = v]
  PROVE  status'[a] = v /\ \A n \in 1..size : n # a => status'[n] = status[n]
<1>1. status \in [Stmt -> Statuses] /\ a \in Stmt /\ \A n \in 1..size : n \in Stmt
  BY Ranges DEF TreeAndTypes, TypeOK, ParserTypeOK
<1> QED BY <1>1

LEMMA SecondKid ==
  ASSUME TreeAndTypes, NEW n \in 1..size, Len(Kids(n)) = 2
  PROVE  /\ Kids(n)[2] \in 2..size /\ Kids(n)[2] \in 1..size /\ Parent(Kids(n)[2]) = n
         /\ Kids(n)[2] # n /\ Kids(n)[2] # 1
<1>1. 2 \in 1..Len(Kids(n)) /\ 1 \in 1..Len(Kids(n))
  OBVIOUS
<1>2. Kids(n)[2] \in 2..size /\ Parent(Kids(n)[2]) = n /\ n < Kids(n)[2]
  BY <1>1, Basics
<1> QED BY <1>2, Ranges

LEMMA PendingEntered ==
  ASSUME TreeAndTypes, TreeAndTypes', phase = "compile", Enters, UNCHANGED <<ast, size>>,
         NEW a \in 1..size, a = at
  PROVE  /\ EndsOwed' = EndsOwed \cup (IF KindOf(a) \in {"if", "while"} THEN {a} ELSE {})
         /\ ElsesOwed' = ElsesOwed
              \cup (IF KindOf(a) = "if" /\ Len(Kids(a)) = 2 THEN {a} ELSE {})
         /\ LabelsOwed' = LabelsOwed \ {a}
<1>1. /\ at' = a /\ size' = size /\ status[a] = "uncalled" /\ status'[a] = "running"
      /\ \A n \in 1..size : n # a => status'[n] = status[n]
  BY StatusAfter DEF Enters, Entering, Run
<1>2. \A n : KindOf(n)' = KindOf(n) /\ Kids(n)' = Kids(n)
  BY DEF KindOf, Kids
<1>3. EndsOwed' = EndsOwed \cup (IF KindOf(a) \in {"if", "while"} THEN {a} ELSE {})
  BY <1>1, <1>2 DEF EndsOwed, IsRunning
<1>4. LabelsOwed' = LabelsOwed \ {a}
  <2>1. OfKind("labeled")' = OfKind("labeled") /\ \A n \in OfKind("labeled") : n \in 1..size
    BY DEF OfKind
  <2> QED BY <1>1, <2>1 DEF LabelsOwed, Called
<1>5. ASSUME NEW n \in 1..size, KindOf(n) = "if", Len(Kids(n)) = 2
      PROVE  OwesElse(n)' <=> OwesElse(n) \/ n = a
  <2>1. PICK k \in 1..size : k = Kids(n)[2] /\ k \in 2..size /\ Parent(k) = n /\ k # n /\ k # 1
    BY <1>5, SecondKid
  <2>2. CASE n = a
    <3>1. ~Called(k)
      <4>1. k \in Stmt \ {Root} /\ ~Called(a)
        BY <1>1, <2>1, Ranges DEF Root, Called
      <4> QED BY <2>1, <2>2, <4>1 DEF TreeAndTypes, PassInv, Walks
    <3>2. status'[k] = "uncalled" /\ status'[n] = "running" /\ at' # k
      BY <1>1, <2>1, <2>2, <3>1 DEF Called
    <3> QED BY <1>2, <1>5, <2>1, <2>2, <3>2 DEF OwesElse, IsRunning, Called
  <2>3. CASE n # a
    <3>1. CASE k = a
      BY <1>1, <1>2, <2>1, <2>3, <3>1 DEF OwesElse, Called
    <3>2. CASE k # a
      BY <1>1, <1>2, <1>5, <2>1, <2>3, <3>2 DEF OwesElse, IsRunning, Called
    <3> QED BY <3>1, <3>2
  <2> QED BY <2>2, <2>3
<1>6. \A n \in 1..size : OwesElse(n)' => KindOf(n) = "if" /\ Len(Kids(n)) = 2
  BY <1>2 DEF OwesElse
<1>7. \A n \in 1..size : OwesElse(n) => KindOf(n) = "if" /\ Len(Kids(n)) = 2
  BY DEF OwesElse
<1>8. ElsesOwed' = ElsesOwed \cup (IF KindOf(a) = "if" /\ Len(Kids(a)) = 2 THEN {a} ELSE {})
  BY <1>1, <1>5, <1>6, <1>7 DEF ElsesOwed
<1> QED BY <1>3, <1>4, <1>8

LEMMA PendingCalled ==
  ASSUME TreeAndTypes, TreeAndTypes', ShapeInv, status' = status, Resuming, UNCHANGED <<ast, size>>,
         NEW a \in 1..size, a = at, NEW i \in 1..Len(Kids(a)), at' = Kids(a)[i]
  PROVE  /\ EndsOwed' = EndsOwed /\ LabelsOwed' = LabelsOwed
         /\ ElsesOwed' = IF IsElse(i) THEN ElsesOwed \ {a} ELSE ElsesOwed
<1>1. /\ size' = size /\ status[a] = "running" /\ Len(Kids(a)) \in Nat
  BY Basics DEF Resuming
<1>2. \A n : KindOf(n)' = KindOf(n) /\ Kids(n)' = Kids(n)
  BY DEF KindOf, Kids
<1>3. EndsOwed' = EndsOwed
  BY <1>1, <1>2 DEF EndsOwed, IsRunning
<1>4. LabelsOwed' = LabelsOwed
  BY DEF LabelsOwed, Called, OfKind
<1>5. ASSUME NEW n \in 1..size, KindOf(n) = "if", Len(Kids(n)) = 2
      PROVE  OwesElse(n)' <=> OwesElse(n) /\ ~(n = a /\ i = 2)
  <2>1. PICK k \in 1..size : k = Kids(n)[2] /\ k \in 2..size /\ Parent(k) = n /\ k # n
    BY <1>5, SecondKid
  <2>2. at' \in 2..size /\ Parent(at') = a
    BY Basics
  <2>3. CASE n = a
    <3>1. at' = k <=> i = 2
      <4>1. CASE i = 2
        BY <2>1, <2>3, <4>1
      <4>2. CASE i = 1
        <5>1. 1 \in 1..Len(Kids(a)) /\ 2 \in 1..Len(Kids(a))
          BY <1>5, <2>3
        <5>2. Kids(a)[1] < Kids(a)[2]
          BY <5>1 DEF ShapeInv
        <5> QED BY <2>1, <2>2, <2>3, <4>2, <5>2
      <4>3. i = 1 \/ i = 2
        <5>1. Len(Kids(a)) = 2
          BY <1>5, <2>3
        <5>2. i \in 1..2
          BY <5>1
        <5> QED BY <5>2
      <4> QED BY <4>1, <4>2, <4>3
    <3>2. at # k
      BY <2>1, <2>3
    <3> QED BY <1>2, <1>5, <2>1, <2>3, <3>1, <3>2 DEF OwesElse, IsRunning, Called
  <2>4. CASE n # a
    <3>1. at' # k
      BY <2>1, <2>2, <2>4
    <3>2. CASE k = a
      BY <1>1, <1>2, <2>1, <3>2 DEF OwesElse, Called
    <3>3. CASE k # a
      BY <1>2, <1>5, <2>1, <2>4, <3>1, <3>3 DEF OwesElse, IsRunning, Called
    <3> QED BY <3>2, <3>3
  <2> QED BY <2>3, <2>4
<1>6. \A n \in 1..size : OwesElse(n)' => KindOf(n) = "if" /\ Len(Kids(n)) = 2
  BY <1>2 DEF OwesElse
<1>7. \A n \in 1..size : OwesElse(n) => KindOf(n) = "if" /\ Len(Kids(n)) = 2
  BY DEF OwesElse
<1>8. ElsesOwed' = IF IsElse(i) THEN ElsesOwed \ {a} ELSE ElsesOwed
  BY <1>1, <1>5, <1>6, <1>7 DEF ElsesOwed, IsElse
<1> QED BY <1>3, <1>4, <1>8

LEMMA PendingLeft ==
  ASSUME TreeAndTypes, TreeAndTypes', PathInv, phase = "compile", Leaves, UNCHANGED <<ast, size>>,
         NEW a \in 1..size, a = at
  PROVE  EndsOwed' = EndsOwed \ {a} /\ ElsesOwed' = ElsesOwed /\ LabelsOwed' = LabelsOwed
<1>1. /\ at' = Parent(a) /\ size' = size /\ status'[a] = "returned"
      /\ \A n \in 1..size : n # a => status'[n] = status[n]
  BY StatusAfter DEF Leaves, Return
<1>2. \A n : KindOf(n)' = KindOf(n) /\ Kids(n)' = Kids(n)
  BY DEF KindOf, Kids
<1>3. EndsOwed' = EndsOwed \ {a}
  BY <1>1, <1>2 DEF EndsOwed, IsRunning
<1>4. LabelsOwed' = LabelsOwed
  <2>1. OfKind("labeled")' = OfKind("labeled")
    BY DEF OfKind
  <2>2. \A n \in OfKind("labeled") : n \in 1..size /\ KindOf(n) = "labeled"
    BY DEF OfKind, KindOf
  <2>3. KindOf(a) = "labeled" => status[a] = "running"
    BY DEF Leaves, LeafKind, Resuming
  <2>4. \A n \in OfKind("labeled") : Called(n)' <=> Called(n)
    BY <1>1, <2>2, <2>3 DEF Called
  <2> QED BY <2>1, <2>4 DEF LabelsOwed
<1>5. ASSUME NEW n \in 1..size, KindOf(n) = "if", Len(Kids(n)) = 2
      PROVE  OwesElse(n)' <=> OwesElse(n)
  <2>1. PICK k \in 1..size : k = Kids(n)[2] /\ k \in 2..size /\ Parent(k) = n /\ k # n
    BY <1>5, SecondKid
  <2>2. CASE n = a
    <3>1. ~OwesElse(n)
      <4>1. CASE Entering
        BY <2>2, <4>1 DEF OwesElse, IsRunning, Entering
      <4>2. CASE AllCalled(Kids(a))
        <5>1. Called(k)
          <6>1. 2 \in 1..Len(Kids(a))
            BY <1>5, <2>2
          <6>2. Called(Kids(a)[2])
            BY <4>2, <6>1 DEF AllCalled
          <6> QED BY <2>1, <2>2, <6>2
        <5> QED BY <2>1, <5>1 DEF OwesElse
      <4> QED BY <2>2, <4>1, <4>2 DEF Leaves
    <3>2. ~OwesElse(n)'
      BY <1>1, <2>2 DEF OwesElse, IsRunning
    <3> QED BY <3>1, <3>2
  <2>3. CASE n # a /\ k = a
    BY <1>1, <1>2, <2>1, <2>3 DEF OwesElse, Called
  <2>4. CASE n # a /\ k # a
    <3>1. IsRunning(Parent(a))
      BY LargestRunning DEF Leaves, Walks
    <3>2. CASE k = Parent(a)
      <4>1. Called(k) /\ Called(k)'
        BY <1>1, <2>1, <2>4, <3>1, <3>2 DEF IsRunning, Called
      <4> QED BY <1>2, <2>1, <4>1 DEF OwesElse
    <3>3. CASE k # Parent(a)
      BY <1>1, <1>2, <1>5, <2>1, <2>4, <3>3 DEF OwesElse, IsRunning, Called
    <3> QED BY <3>2, <3>3
  <2> QED BY <2>2, <2>3, <2>4
<1>6. \A n \in 1..size : OwesElse(n)' => KindOf(n) = "if" /\ Len(Kids(n)) = 2
  BY <1>2 DEF OwesElse
<1>7. \A n \in 1..size : OwesElse(n) => KindOf(n) = "if" /\ Len(Kids(n)) = 2
  BY DEF OwesElse
<1>8. ElsesOwed' = ElsesOwed
  BY <1>1, <1>5, <1>6, <1>7 DEF ElsesOwed
<1> QED BY <1>3, <1>4, <1>8
------------------------------------------------------------------------------
(***************************************************************************)
(* Every block but the current one and those that are owed is complete.    *)
(***************************************************************************)

\* A step that adds the instructions W[b] to every block b.
LEMMA BlocksKept ==
  ASSUME TreeAndTypes, TreeAndTypes', BlocksInv, phase = "compile", Called(Root), labels' = labels,
         NEW W, \A b \in Block : InstrsOf(b)' = InstrsOf(b) \cup W[b],
         \A b \in Block : \A i \in W[b] : b \in created' /\ FitsFunction(i)',
         created \subseteq created', cur' \in created', Pending' \subseteq created',
         \A n \in 1..size' : IsRunning(n)' /\ KindOf(n)' = "while" => <<"header", n>> \in created',
         \A b \in created' : b \notin created \/ b = cur \/ b \in Pending
           => b = cur' \/ b \in Pending' \/ \E i \in W[b] : IsTerminator(i)
  PROVE  BlocksInv'
<1>1. CodeAsSets /\ CodeAsSets'
  BY CodeIsSets, CodeIsSetsNext
<1>2. created' \subseteq Block
  BY DEF TreeAndTypes, TypeOK, CodegenTypeOK
<1>3. ASSUME NEW b \in Block, b \notin created' PROVE code'[b] = <<>>
  <2>1. InstrsOf(b) = {}
    BY <1>1, <1>3 DEF BlocksInv, CodeAsSets
  <2>2. W[b] = {}
    BY <1>3
  <2>3. InstrsOf(b)' = {}
    BY <2>1, <2>2
  <2> QED BY <1>1, <2>3 DEF CodeAsSets
<1>4. Entry \in created' /\ \A l \in labels' : LabelBlock(l) \in created'
  BY DEF BlocksInv
<1>5. CodeFits'
  <2>1. ASSUME NEW b \in Block, NEW i \in InstrsOf(b)' PROVE FitsFunction(i)'
    <3>1. CASE i \in InstrsOf(b)
      <4>1. FitsFunction(i)
        BY <1>1, <3>1 DEF BlocksInv, CodeAsSets
      <4> QED BY <4>1 DEF FitsFunction
    <3> QED BY <3>1
  <2> QED BY <1>1, <2>1 DEF CodeAsSets
<1>6. ASSUME NEW b \in created', NoTerminator(code[b])' PROVE b = cur' \/ b \in Pending'
  <2>1. \A i \in InstrsOf(b)' : ~IsTerminator(i)
    BY <1>1, <1>2, <1>6 DEF CodeAsSets, IsTerminator
  <2>2. \A i \in InstrsOf(b) \cup W[b] : ~IsTerminator(i)
    BY <1>2, <2>1
  <2>3. NoTerminator(code[b])
    BY <1>1, <1>2, <2>2 DEF CodeAsSets
  <2>4. b \notin created \/ b = cur \/ b \in Pending
    BY <2>3 DEF BlocksInv
  <2> QED BY <2>2, <2>4
<1> QED BY <1>3, <1>4, <1>5, <1>6 DEF BlocksInv

\* A step that adds instructions to one block.
LEMMA BlocksAdded ==
  ASSUME TreeAndTypes, TreeAndTypes', BlocksInv, phase = "compile", Called(Root), labels' = labels,
         NEW c \in Block, NEW N, Adds(c, N), \A i \in N : c \in created' /\ FitsFunction(i)',
         created \subseteq created', cur' \in created', Pending' \subseteq created',
         \A n \in 1..size' : IsRunning(n)' /\ KindOf(n)' = "while" => <<"header", n>> \in created',
         \A b \in created' : b \notin created \/ b = cur \/ b \in Pending
           => b = cur' \/ b \in Pending' \/ (b = c /\ \E i \in N : IsTerminator(i))
  PROVE  BlocksInv'
<1> DEFINE W == [b \in Block |-> IF b = c THEN N ELSE {}]
<1>1. \A b \in Block : W[b] = IF b = c THEN N ELSE {}
  OBVIOUS
<1>2. \A b \in Block : InstrsOf(b)' = InstrsOf(b) \cup W[b]
  BY <1>1 DEF Adds
<1>3. \A b \in Block : \A i \in W[b] : b \in created' /\ FitsFunction(i)'
  BY <1>1
<1>4. created' \subseteq Block
  BY DEF TreeAndTypes, TypeOK, CodegenTypeOK
<1>5. \A b \in created' : b \notin created \/ b = cur \/ b \in Pending
        => b = cur' \/ b \in Pending' \/ \E i \in W[b] : IsTerminator(i)
  BY <1>1, <1>4
<1> HIDE DEF W
<1> QED BY <1>2, <1>3, <1>5, BlocksKept

LEMMA RootIsCalled ==
  ASSUME TreeAndTypes, phase = "compile", at # None, at # Root \/ Resuming
  PROVE  Called(Root) /\ size > 0
<1>1. size > 0
  BY Ranges DEF TreeAndTypes, TreeInv
<1>2. CASE at # Root
  BY <1>1, <1>2, Ranges DEF TreeAndTypes, PassInv, Walks
<1>3. CASE at = Root
  BY <1>1, <1>3 DEF Resuming, Called
<1> QED BY <1>2, <1>3

\* Headers of loops: those of the running handlers are not created again.
LEMMA HeadersKept ==
  ASSUME TreeAndTypes, BlocksInv, phase = "compile", at # None, Called(Root),
         Enters \/ Calls \/ Leaves, UNCHANGED <<ast, size>>, created \subseteq created',
         Enters /\ KindOf(at) = "while" => <<"header", at>> \in created'
  PROVE  \A n \in 1..size' : IsRunning(n)' /\ KindOf(n)' = "while" => <<"header", n>> \in created'
<1>0. PICK a \in 1..size : a = at
  BY Basics DEF None
<1> SUFFICES ASSUME NEW n \in 1..size, status'[n] = "running", KindOf(n) = "while"
             PROVE  <<"header", n>> \in created'
  BY DEF IsRunning, KindOf
<1>1. CASE n = a /\ Enters
  BY <1>0, <1>1
<1>2. CASE n # a \/ ~Enters
  <2>1. status[n] = "running"
    <3>1. CASE Calls
      BY <3>1 DEF Calls
    <3>2. CASE Enters
      BY <1>0, <1>2, <3>2, StatusAfter DEF Enters, Run
    <3>3. CASE Leaves
      BY <1>0, <3>3, StatusAfter DEF Leaves, Return
    <3> QED BY <3>1, <3>2, <3>3
  <2> QED BY <2>1 DEF BlocksInv, IsRunning
<1> QED BY <1>1, <1>2
\* The instructions that the code generator writes fit the function.
LEMMA FitsNext ==
  /\ \A b : b \in created' => FitsFunction(Br(b))'
  /\ \A n, b, c : b \in created' /\ c \in created' => FitsFunction(CondBr(n, b, c))'
  /\ \A op, n : (op \in {"ret", "ret value"} => VoidFunction = (op = "ret"))
       => FitsFunction(Plain(op, n))'
  /\ \A e : e.op = "eval" /\ e.to = <<>> => FitsFunction(e)'
<1>1. ASSUME NEW b, b \in created' PROVE FitsFunction(Br(b))'
  BY <1>1 DEF FitsFunction, Br
<1>2. ASSUME NEW n, NEW b, NEW c, b \in created', c \in created'
      PROVE  FitsFunction(CondBr(n, b, c))'
  BY <1>2 DEF FitsFunction, CondBr
<1>3. ASSUME NEW op, NEW n, op \in {"ret", "ret value"} => VoidFunction = (op = "ret")
      PROVE  FitsFunction(Plain(op, n))'
  <2>1. PICK i : i = Plain(op, n)
    OBVIOUS
  <2>2. i.op = op /\ i.to = <<>>
    BY <2>1 DEF Plain
  <2>3. i.op \in {"ret", "ret value"} => VoidFunction = (i.op = "ret")
    BY <1>3, <2>2
  <2>4. \A t \in 1..Len(i.to) : i.to[t] \in created'
    BY <2>2
  <2>5. FitsFunction(i)'
    BY <2>3, <2>4, Zenon DEF FitsFunction
  <2> QED BY <2>1, <2>5
<1>4. ASSUME NEW e, e.op = "eval", e.to = <<>> PROVE FitsFunction(e)'
  BY <1>4 DEF FitsFunction
<1> QED BY <1>1, <1>2, <1>3, <1>4

LEMMA TerminatorKinds ==
  /\ \A b : IsTerminator(Br(b))
  /\ \A n, b, c : IsTerminator(CondBr(n, b, c))
  /\ \A n : IsTerminator(Plain("ret", n)) /\ IsTerminator(Plain("ret value", n))
BY DEF IsTerminator, Terminators, Br, CondBr, Plain

LEMMA PendingNext ==
  ASSUME ast' = ast
  PROVE  Pending' = {<<"end", n>> : n \in EndsOwed'} \cup {<<"else", n>> : n \in ElsesOwed'}
                      \cup {LabelBlock(ast[n].name) : n \in LabelsOwed'}
BY DEF Pending

Generating ==
  /\ TreeAndTypes /\ LabelsIdentifyStatements /\ ShapeInv /\ PathInv /\ CodeInv /\ CheckedInv
  /\ DeclarationsFirst /\ AllocasInv /\ TargetsInv /\ BlocksInv

LEMMA FunctionBlocks ==
  ASSUME Generating, TreeAndTypes', CompileFunction
  PROVE  BlocksInv'
<1> USE DEF Generating
<1>1. /\ at = 1 /\ at' = 1 /\ size' = size /\ 1 \in 1..size /\ UNCHANGED <<ast, phase, labels>>
      /\ status'[1] = "running" /\ \A n \in 1..size : n # 1 => status'[n] = "uncalled"
      /\ KindOf(1) = "block" /\ phase = "compile" /\ size > 0
  BY FunctionStarts, Ranges DEF CompileFunction, Generates
<1>2. \A b \in Block : code[b] = <<>>
  BY <1>1 DEF CodeInv, NoCodeYet, CompileFunction, Generates, Entering, Called, Root
<1>3. /\ created' = {Entry} \cup {LabelBlock(l) : l \in labels} /\ cur' = Entry
      /\ code' = [code EXCEPT ![Entry] = Prologue] /\ code \in [Block -> Seq(Instr)]
  BY DEF CompileFunction, TreeAndTypes, TypeOK, CodegenTypeOK
<1>4. \A b \in Block : b # Entry => code'[b] = <<>>
  BY <1>2, <1>3
<1>5. code'[Entry] = Prologue
  BY <1>3, BlockNames
<1>6. labels = {ast[n].name : n \in OfKind("labeled")}
  BY <1>1 DEF LabelsIdentifyStatements
<1>7. LabelsOwed' = OfKind("labeled") /\ EndsOwed' = {} /\ ElsesOwed' = {}
  <2>1. /\ OfKind("labeled")' = OfKind("labeled")
        /\ \A n \in OfKind("labeled") : n \in 1..size /\ n # 1
    BY <1>1 DEF OfKind, KindOf
  <2>2. LabelsOwed' = OfKind("labeled")
    BY <1>1, <2>1 DEF LabelsOwed, Called
  <2>3. \A n \in 1..size : IsRunning(n)' => KindOf(n)' = "block"
    BY <1>1 DEF IsRunning, KindOf
  <2> QED BY <1>1, <2>2, <2>3 DEF EndsOwed, ElsesOwed, OwesElse
<1>8. Pending' = {LabelBlock(l) : l \in labels}
  BY <1>1, <1>6, <1>7, PendingNext
<1>9. CodeFits'
  <2>1. \A i \in 1..Len(Prologue) : Prologue[i].to = <<>> /\ Prologue[i].op \in {"alloca", "store"}
    <3>1. Len(Params) \in Nat
      BY AstAssumption
    <3>2. Len(Prologue) = 2 * Len(Params)
      BY <3>1, PrologueType DEF Prologue
    <3> QED BY <3>1, <3>2 DEF Prologue, Plain
  <2>2. ASSUME NEW b \in Block, NEW i \in 1..Len(code'[b]) PROVE FitsFunction(code[b][i])'
    <3>1. CASE b = Entry
      <4>1. code'[b][i].to = <<>> /\ code'[b][i].op \in {"alloca", "store"}
        BY <1>5, <2>1, <2>2, <3>1
      <4>2. \A t \in 1..Len(code'[b][i].to) : code'[b][i].to[t] \in created'
        BY <4>1
      <4> QED BY <4>1, <4>2 DEF FitsFunction
    <3>2. CASE b # Entry
      <4>1. code'[b] = <<>>
        BY <1>4, <3>2
      <4> QED BY <2>2, <4>1
    <3> QED BY <3>1, <3>2
  <2> QED BY <2>2 DEF CodeFits
<1>10. \A n \in 1..size' : IsRunning(n)' /\ KindOf(n)' = "while" => FALSE
  BY <1>1 DEF IsRunning, KindOf
<1> QED BY <1>1, <1>3, <1>4, <1>8, <1>9, <1>10 DEF BlocksInv

LEMMA ScopeBlocks ==
  ASSUME Generating, TreeAndTypes', CompileScope, phase' = "compile"
  PROVE  BlocksInv'
<1> USE DEF Generating
<1>1. /\ phase = "compile" /\ at # None /\ at # Root /\ KindOf(at) \in {"block", "labeled"}
      /\ UNCHANGED <<ast, size, labels, created>> /\ Enters
  BY DEF CompileScope, Generates, Enters, LeafKind
<1>2. PICK a \in 1..size : a = at
  BY <1>1, Basics DEF None
<1>3. Called(Root)
  BY <1>1, RootIsCalled
<1>4. \A n \in 1..size' : IsRunning(n)' /\ KindOf(n)' = "while" => <<"header", n>> \in created'
  BY <1>1, <1>3, HeadersKept
<1>5. EndsOwed' = EndsOwed /\ ElsesOwed' = ElsesOwed /\ LabelsOwed' = LabelsOwed \ {a}
  BY <1>2, <1>1, PendingEntered
<1>6. /\ cur \in Block /\ cur \in created /\ created \subseteq Block /\ Pending \subseteq created
      /\ Pending' \subseteq created
  <2>1. Pending' \subseteq Pending
    BY <1>1, <1>5, PendingNext DEF Pending
  <2> QED BY <1>1, <1>3, <2>1 DEF BlocksInv, TreeAndTypes, TypeOK, CodegenTypeOK
<1>7. CASE KindOf(a) = "block"
  <2>1. code' = code /\ cur' = cur
    BY <1>2, <1>7 DEF CompileScope
  <2>2. Pending' = Pending
    <3>1. a \notin LabelsOwed
      BY <1>7 DEF LabelsOwed, OfKind, KindOf
    <3> QED BY <1>1, <1>5, <3>1, PendingNext DEF Pending
  <2>3. Adds(cur, {})
    BY <2>1, AddsNothing
  <2> QED BY <1>1, <1>3, <1>4, <1>6, <2>1, <2>2, <2>3, BlocksAdded
<1>8. CASE KindOf(a) = "labeled"
  <2>1. a \in LabelsOwed
    BY <1>2, <1>1, <1>8 DEF LabelsOwed, OfKind, KindOf, Enters, Entering, Called
  <2>2. PICK b \in Block : b = LabelBlock(ast[a].name) /\ b \in created
    BY <1>6, <2>1 DEF Pending
  <2>3. code' = [code EXCEPT ![cur] = Append(@, Br(b))] /\ cur' = b
    BY <1>2, <1>8, <2>2 DEF CompileScope
  <2>4. Adds(cur, {Br(b)}) /\ FitsFunction(Br(b))' /\ IsTerminator(Br(b))
    BY <1>1, <1>6, <2>2, <2>3, InstrTypes, AddsAppended, FitsNext, TerminatorKinds
  <2>5. \A c \in Pending : c = b \/ c \in Pending'
    BY <1>1, <1>5, <2>2, PendingNext DEF Pending
  <2> QED BY <1>1, <1>3, <1>4, <1>6, <2>2, <2>3, <2>4, <2>5, BlocksAdded
<1> QED BY <1>2, <1>1, <1>7, <1>8

\* A condition is written into a block of its own.
LEMMA AddsCondition ==
  ASSUME TreeAndTypes, NEW c \in Block, NEW h \in Block, c # h, code[h] = <<>>,
         NEW i \in Instr, NEW j \in Instr, NEW k \in Instr,
         code' = [code EXCEPT ![c] = Append(@, i), ![h] = <<j, k>>]
  PROVE  \A b \in Block :
           InstrsOf(b)' = InstrsOf(b) \cup (IF b = c THEN {i} ELSE IF b = h THEN {j, k} ELSE {})
<1>1. /\ code \in [Block -> Seq(Instr)] /\ code'[c] = Append(code[c], i)
      /\ \A b \in Block : b # c /\ b # h => code'[b] = code[b]
  BY DEF TreeAndTypes, TypeOK, CodegenTypeOK
<1>2. code'[h] = <<j, k>>
  BY <1>1
<1>3. Elements(code'[c]) = Elements(code[c]) \cup {i}
  <2>1. Append(code[c], i) = code[c] \o <<i>> /\ <<i>> \in Seq(Instr) /\ Elements(<<i>>) = {i}
    BY <1>1, ElementsShort
  <2> QED BY <1>1, <2>1, ElementsJoined, ZenonT(40)
<1>4. Elements(code'[h]) = {j, k} /\ Elements(code[h]) = {}
  BY <1>2, ElementsShort
<1>5. \A b : InstrsOf(b)' = Elements(code'[b]) /\ InstrsOf(b) = Elements(code[b])
  BY DEF InstrsOf, Elements
<1>6. \A b \in Block : b # c /\ b # h => Elements(code'[b]) = Elements(code[b])
  BY <1>1
<1> QED BY <1>3, <1>4, <1>5, <1>6

\* The step of the if or while a, with the evaluation e, its header h and the
\* blocks f and g that the condition branches to.
WritesCondition(a, e, h, f, g) ==
  /\ h = <<"header", a>> /\ f = <<FirstRole, a>> /\ g = <<FalseRole, a>>
  /\ cur' = f /\ cur # h /\ code[h] = <<>>
  /\ FirstRole \in {"body", "then"} /\ FalseRole \in {"else", "end"}
  /\ code' = [code EXCEPT ![cur] = Append(@, Br(h)), ![h] = <<e, CondBr(a, f, g)>>]
  /\ \A b \in Block :
       InstrsOf(b)' = InstrsOf(b) \cup (IF b = cur THEN {Br(h)}
                                       ELSE IF b = h THEN {e, CondBr(a, f, g)} ELSE {})

LEMMA ConditionEffects ==
  ASSUME TreeAndTypes, CodeInv, CompileCondition, NEW a \in 1..size, a = at
  PROVE  /\ phase = "compile" /\ at # None /\ at # Root /\ KindOf(a) \in {"if", "while"}
         /\ UNCHANGED <<ast, size, labels>> /\ Enters /\ cur \in Block
         /\ \E e \in Evaluations, h, f, g \in Block : WritesCondition(a, e, h, f, g)
<1>1. /\ phase = "compile" /\ at # None /\ KindOf(a) \in {"if", "while"} /\ ~Called(a)
      /\ UNCHANGED <<ast, size, labels>> /\ Enters
  BY DEF CompileCondition, Generates, Enters, Entering, Called, LeafKind
<1>2. at # Root /\ a \in Stmt /\ at \in Stmt
  BY <1>1, InnerStatement, Ranges
<1>3. /\ code \in [Block -> Seq(Instr)] /\ cur \in Block
      /\ FirstRole \in {"body", "then"} /\ FalseRole \in {"else", "end"}
  BY DEF TreeAndTypes, TypeOK, CodegenTypeOK, FirstRole, FalseRole
<1>4. PICK h \in Block : h = <<"header", a>> /\ cur # h /\ code[h] = <<>>
  BY <1>1, <1>2, BlockNames DEF CodeInv, FreshBlocks, IsFresh, Roles
<1>5. PICK f \in Block : f = <<FirstRole, a>>
  BY <1>2, <1>3, BlockNames DEF Roles
<1>6. PICK g \in Block : g = <<FalseRole, a>>
  BY <1>2, <1>3, BlockNames DEF Roles
<1>7. PICK e \in Evaluations :
        code' = [code EXCEPT ![cur] = Append(@, Br(h)), ![h] = <<e, CondBr(a, f, g)>>]
  BY <1>4, <1>5, <1>6 DEF CompileCondition
<1>8. e \in Instr /\ Br(h) \in Instr /\ CondBr(a, f, g) \in Instr
  BY <1>2, InstrTypes, EvaluationType
<1>9. cur' = f
  BY <1>5 DEF CompileCondition
<1>10. \A b \in Block : InstrsOf(b)' =
         InstrsOf(b) \cup (IF b = cur THEN {Br(h)}
                           ELSE IF b = h THEN {e, CondBr(a, f, g)} ELSE {})
  <2>1. PICK c \in Block : c = cur
    BY <1>3
  <2>2. PICK i \in Instr : i = Br(h)
    BY <1>8
  <2>3. PICK k \in Instr : k = CondBr(a, f, g)
    BY <1>8
  <2>4. code' = [code EXCEPT ![c] = Append(@, i), ![h] = <<e, k>>]
    BY <1>7, <2>1, <2>2, <2>3
  <2>5. \A b \in Block :
          InstrsOf(b)' = InstrsOf(b) \cup (IF b = c THEN {i} ELSE IF b = h THEN {e, k} ELSE {})
    <3>1. c # h /\ code[h] = <<>> /\ e \in Instr
      BY <1>4, <1>8, <2>1
    <3> QED BY <2>4, <3>1, AddsCondition, ZenonT(40)
  <2> QED BY <2>1, <2>2, <2>3, <2>5
<1>11. WritesCondition(a, e, h, f, g)
  BY <1>3, <1>4, <1>5, <1>6, <1>7, <1>9, <1>10 DEF WritesCondition
<1> QED BY <1>1, <1>2, <1>3, <1>11

LEMMA ConditionBlocks ==
  ASSUME Generating, TreeAndTypes', CompileCondition
  PROVE  BlocksInv'
<1> USE DEF Generating
<1>0. PICK a \in 1..size : a = at
  BY Basics DEF CompileCondition, Generates, None
<1>1. /\ phase = "compile" /\ at # None /\ at # Root /\ KindOf(a) \in {"if", "while"}
      /\ UNCHANGED <<ast, size, labels>> /\ Enters /\ cur \in Block
  BY <1>0, ConditionEffects
<1>2. PICK e \in Evaluations, h, f, g \in Block : WritesCondition(a, e, h, f, g)
  BY <1>0, ConditionEffects
<1>3. /\ h = <<"header", a>> /\ f = <<FirstRole, a>> /\ g = <<FalseRole, a>>
      /\ cur' = f /\ FirstRole \in {"body", "then"} /\ FalseRole \in {"else", "end"}
      /\ cur # h
      /\ \A b \in Block : InstrsOf(b)' =
           InstrsOf(b) \cup (IF b = cur THEN {Br(h)}
                             ELSE IF b = h THEN {e, CondBr(a, f, g)} ELSE {})
  BY <1>2 DEF WritesCondition
<1>4. Called(Root)
  BY <1>1, RootIsCalled
<1>5. created' = created \cup {h, f, g, <<"end", a>>}
  BY <1>0, <1>3 DEF CompileCondition, BranchBlocks
<1>6. \A n \in 1..size' : IsRunning(n)' /\ KindOf(n)' = "while" => <<"header", n>> \in created'
  BY <1>0, <1>1, <1>3, <1>4, <1>5, HeadersKept
<1>7. /\ EndsOwed' = EndsOwed \cup {a} /\ LabelsOwed' = LabelsOwed
      /\ ElsesOwed' = ElsesOwed \cup (IF KindOf(a) = "if" /\ Len(Kids(a)) = 2 THEN {a} ELSE {})
  <2>1. a \notin LabelsOwed
    BY <1>1 DEF LabelsOwed, OfKind, KindOf
  <2> QED BY <1>0, <1>1, <2>1, PendingEntered
<1>8. /\ Pending \subseteq Pending' /\ <<"end", a>> \in Pending' /\ g \in Pending'
      /\ Pending' \subseteq Pending \cup {g, <<"end", a>>}
  <2>1. /\ <<"end", a>> \in Pending'
        /\ Pending' = Pending \cup {<<"end", a>>}
             \cup {<<"else", n>> : n \in IF KindOf(a) = "if" /\ Len(Kids(a)) = 2 THEN {a} ELSE {}}
    BY <1>1, <1>7, PendingNext DEF Pending
  <2>2. g = IF KindOf(a) = "if" /\ Len(Kids(a)) = 2 THEN <<"else", a>> ELSE <<"end", a>>
    BY <1>0, <1>3 DEF FalseRole, HasElse
  <2> QED BY <2>1, <2>2
<1>9. /\ cur \in created /\ created \subseteq Block /\ Pending' \subseteq created'
  BY <1>1, <1>4, <1>5, <1>8 DEF BlocksInv, TreeAndTypes, TypeOK, CodegenTypeOK
<1>10. /\ FitsFunction(Br(h))' /\ FitsFunction(CondBr(a, f, g))' /\ FitsFunction(e)'
  <2>1. e.op = "eval" /\ e.to = <<>>
    BY <1>0, <1>1, EvaluationAgrees DEF EvalKind
  <2> QED BY <1>5, <2>1, FitsNext
<1>11. IsTerminator(Br(h)) /\ IsTerminator(CondBr(a, f, g))
  BY TerminatorKinds
<1> DEFINE W == [b \in Block |-> IF b = cur THEN {Br(h)}
                                 ELSE IF b = h THEN {e, CondBr(a, f, g)} ELSE {}]
<1>12. \A b \in Block : W[b] = IF b = cur THEN {Br(h)}
                               ELSE IF b = h THEN {e, CondBr(a, f, g)} ELSE {}
  OBVIOUS
<1> HIDE DEF W
<1>13. \A b \in Block : InstrsOf(b)' = InstrsOf(b) \cup W[b]
  BY <1>3, <1>12
<1>14. \A b \in Block : \A i \in W[b] : b \in created' /\ FitsFunction(i)'
  BY <1>5, <1>9, <1>10, <1>12
<1>15. \A b \in created' : b \notin created \/ b = cur \/ b \in Pending
         => b = cur' \/ b \in Pending' \/ \E i \in W[b] : IsTerminator(i)
  <2> SUFFICES ASSUME NEW b \in created', b \notin created \/ b = cur \/ b \in Pending
               PROVE  b = cur' \/ b \in Pending' \/ \E i \in W[b] : IsTerminator(i)
    OBVIOUS
  <2>1. CASE b = cur
    BY <1>1, <1>11, <1>12, <2>1
  <2>2. CASE b = h
    BY <1>3, <1>11, <1>12, <2>2
  <2>3. CASE b # cur /\ b # h
    BY <1>3, <1>5, <1>8, <2>3
  <2> QED BY <2>1, <2>2, <2>3
<1> QED BY <1>1, <1>3, <1>4, <1>5, <1>6, <1>9, <1>13, <1>14, <1>15, BlocksKept

LEMMA ChildBlocks ==
  ASSUME Generating, TreeAndTypes', CompileChild
  PROVE  BlocksInv'
<1> USE DEF Generating
<1>1. /\ phase = "compile" /\ at # None /\ Resuming /\ status' = status /\ Calls
      /\ UNCHANGED <<ast, size, labels, created>>
  BY DEF CompileChild, Calls
<1>2. PICK a \in 1..size : a = at
  BY <1>1, Basics DEF None
<1>3. PICK i \in 1..Len(Kids(a)) :
        /\ ~Called(Kids(a)[i]) /\ at' = Kids(a)[i]
        /\ IF IsElse(i)
           THEN /\ code' = [code EXCEPT ![cur] = Append(@, Br(<<"end", a>>))]
                /\ cur' = <<"else", a>>
           ELSE UNCHANGED <<code, cur>>
  BY <1>2 DEF CompileChild
<1>4. Called(Root)
  BY <1>1, RootIsCalled
<1>5. \A n \in 1..size' : IsRunning(n)' /\ KindOf(n)' = "while" => <<"header", n>> \in created'
  BY <1>1, <1>4, HeadersKept DEF Enters, Entering, Resuming
<1>6. /\ EndsOwed' = EndsOwed /\ LabelsOwed' = LabelsOwed
      /\ ElsesOwed' = IF IsElse(i) THEN ElsesOwed \ {a} ELSE ElsesOwed
  BY <1>2, <1>1, <1>3, PendingCalled
<1>7. /\ cur \in Block /\ cur \in created /\ created \subseteq Block /\ Pending \subseteq created
      /\ Pending' \subseteq created
  <2>1. Pending' \subseteq Pending
    BY <1>1, <1>6, PendingNext DEF Pending
  <2> QED BY <1>1, <1>4, <2>1 DEF BlocksInv, TreeAndTypes, TypeOK, CodegenTypeOK
<1>8. CASE ~IsElse(i)
  <2>1. Pending' = Pending
    BY <1>1, <1>6, <1>8, PendingNext DEF Pending
  <2>2. Adds(cur, {}) /\ cur' = cur
    BY <1>3, <1>8, AddsNothing
  <2> QED BY <1>1, <1>4, <1>5, <1>7, <2>1, <2>2, BlocksAdded
<1>9. CASE IsElse(i)
  <2>1. KindOf(a) = "if" /\ i = 2 /\ Len(Kids(a)) = 2
    <3>1. KindOf(a) = "if" /\ i = 2
      BY <1>2, <1>9 DEF IsElse
    <3>2. a \in OfKind("if")
      BY <3>1 DEF OfKind, KindOf
    <3>3. Len(Kids(a)) <= 2 /\ Len(Kids(a)) \in Nat
      BY <3>2, Basics DEF ShapeInv
    <3>4. PICK l \in Nat : l = Len(Kids(a)) /\ l <= 2
      BY <3>3
    <3>5. 2 \in 1..l
      BY <1>3, <3>1, <3>4
    <3>6. l = 2
      BY <3>4, <3>5
    <3> QED BY <3>1, <3>4, <3>6
  <2>2. a \in EndsOwed /\ a \in ElsesOwed
    <3>1. IsRunning(a)
      BY <1>2, <1>1 DEF IsRunning, Resuming
    <3>2. at # Kids(a)[2]
      BY <1>2, <2>1, SecondKid
    <3> QED BY <1>3, <2>1, <3>1, <3>2 DEF EndsOwed, ElsesOwed, OwesElse
  <2>3. PICK b \in Block : b = <<"end", a>> /\ b \in created /\ b \in Pending'
    <3>1. <<"end", a>> \in Pending /\ <<"end", a>> \in Pending'
      BY <1>1, <1>6, <2>2, PendingNext DEF Pending
    <3> QED BY <1>7, <3>1
  <2>4. cur' \in created /\ cur' = <<"else", a>>
    BY <1>3, <1>7, <1>9, <2>2 DEF Pending
  <2>5. code' = [code EXCEPT ![cur] = Append(@, Br(b))]
    BY <1>3, <1>9, <2>3
  <2>6. Adds(cur, {Br(b)}) /\ FitsFunction(Br(b))' /\ IsTerminator(Br(b))
    BY <1>1, <1>7, <2>3, <2>5, InstrTypes, AddsAppended, FitsNext, TerminatorKinds
  <2>7. \A c \in Pending : c = cur' \/ c \in Pending'
    BY <1>1, <1>6, <2>4, PendingNext DEF Pending
  <2> QED BY <1>1, <1>4, <1>5, <1>7, <2>4, <2>6, <2>7, BlocksAdded
<1> QED BY <1>8, <1>9

LEMMA LeaveBlocks ==
  ASSUME Generating, TreeAndTypes', LeaveCompiled
  PROVE  BlocksInv'
<1> USE DEF Generating
<1>1. /\ phase = "compile" /\ at # None /\ at # Root /\ Resuming /\ Leaves
      /\ UNCHANGED <<ast, size, labels, created>>
  BY DEF LeaveCompiled, Leaves
<1>2. PICK a \in 1..size : a = at
  BY <1>1, Basics DEF None
<1>3. Called(Root)
  BY <1>1, RootIsCalled
<1>4. \A n \in 1..size' : IsRunning(n)' /\ KindOf(n)' = "while" => <<"header", n>> \in created'
  BY <1>1, <1>3, HeadersKept DEF Enters, Entering, Resuming
<1>5. EndsOwed' = EndsOwed \ {a} /\ ElsesOwed' = ElsesOwed /\ LabelsOwed' = LabelsOwed
  BY <1>2, <1>1, PendingLeft
<1>6. /\ cur \in Block /\ cur \in created /\ created \subseteq Block /\ Pending \subseteq created
      /\ Pending' \subseteq created
  <2>1. Pending' \subseteq Pending
    BY <1>1, <1>5, PendingNext DEF Pending
  <2> QED BY <1>1, <1>3, <2>1 DEF BlocksInv, TreeAndTypes, TypeOK, CodegenTypeOK
<1>7. CASE KindOf(a) \notin {"if", "while"}
  <2>1. code' = code /\ cur' = cur
    BY <1>2, <1>7 DEF LeaveCompiled
  <2>2. Pending' = Pending
    <3>1. a \notin EndsOwed
      BY <1>7 DEF EndsOwed
    <3> QED BY <1>1, <1>5, <3>1, PendingNext DEF Pending
  <2>3. Adds(cur, {})
    BY <2>1, AddsNothing
  <2> QED BY <1>1, <1>3, <1>4, <1>6, <2>1, <2>2, <2>3, BlocksAdded
<1>8. CASE KindOf(a) \in {"if", "while"}
  <2>1. IsRunning(a) /\ a \in EndsOwed
    BY <1>2, <1>1, <1>8 DEF IsRunning, Resuming, EndsOwed
  <2>2. <<"end", a>> \in created
    BY <1>6, <2>1 DEF Pending
  <2>3. PICK b \in Block : b = BackTo /\ b \in created
    <3>1. BackTo \in created
      BY <1>2, <1>1, <1>3, <2>1, <2>2 DEF BackTo, BlocksInv
    <3> QED BY <1>6, <3>1
  <2>4. code' = [code EXCEPT ![cur] = Append(@, Br(b))] /\ cur' = <<"end", a>>
    BY <1>2, <1>8, <2>3 DEF LeaveCompiled
  <2>5. Adds(cur, {Br(b)}) /\ FitsFunction(Br(b))' /\ IsTerminator(Br(b))
    BY <1>1, <1>6, <2>3, <2>4, InstrTypes, AddsAppended, FitsNext, TerminatorKinds
  <2>6. \A c \in Pending : c = cur' \/ c \in Pending'
    BY <1>1, <1>5, <2>4, PendingNext DEF Pending
  <2> QED BY <1>1, <1>3, <1>4, <1>6, <2>2, <2>4, <2>5, <2>6, BlocksAdded
<1> QED BY <1>7, <1>8

\* What the handlers of the leaves have in common.
LEMMA LeafFacts ==
  ASSUME Generating, TreeAndTypes', NEW K \in SUBSET LeafKind, Generates(K), Return,
         UNCHANGED <<ast, size>>, created \subseteq created'
  PROVE  /\ phase = "compile" /\ at # None /\ at # Root /\ at \in 1..size /\ KindOf(at) \in K
         /\ Called(Root) /\ Pending' = Pending /\ cur \in Block /\ cur \in created
         /\ created \subseteq Block /\ Pending \subseteq created /\ Entry \in created
         /\ \A n \in 1..size' : IsRunning(n)' /\ KindOf(n)' = "while"
              => <<"header", n>> \in created'
<1> USE DEF Generating
<1>1. phase = "compile" /\ at # None /\ KindOf(at) \in K /\ Entering
  BY DEF Generates
<1>2. at \notin {None, Root} /\ Leaves
  <2>1. at # Root
    BY <1>1, InnerStatement DEF LeafKind
  <2> QED BY <1>1, <2>1 DEF Leaves
<1>3. PICK a \in 1..size : a = at
  BY <1>1, Basics DEF None
<1>4. Called(Root)
  BY <1>1, <1>2, RootIsCalled
<1>5. Pending' = Pending
  <2>1. EndsOwed' = EndsOwed \ {a} /\ ElsesOwed' = ElsesOwed /\ LabelsOwed' = LabelsOwed
    BY <1>3, <1>1, <1>2, PendingLeft
  <2>2. a \notin EndsOwed
    BY <1>3, <1>1 DEF EndsOwed, LeafKind
  <2> QED BY <2>1, <2>2, PendingNext DEF Pending
<1>6. \A n \in 1..size' : IsRunning(n)' /\ KindOf(n)' = "while" => <<"header", n>> \in created'
  BY <1>1, <1>2, <1>4, HeadersKept DEF Enters, Entering, LeafKind
<1> QED BY <1>3, <1>1, <1>2, <1>4, <1>5, <1>6
      DEF BlocksInv, TreeAndTypes, TypeOK, CodegenTypeOK

LEMMA DeclarationBlocks ==
  ASSUME Generating, TreeAndTypes', CompileDeclaration
  PROVE  BlocksInv'
<1>1. /\ Generates({"declaration"}) /\ Return /\ UNCHANGED <<phase, ast, size, labels, created, cur>>
      /\ {"declaration"} \in SUBSET LeafKind
  BY DEF CompileDeclaration, LeafKind
<1>2. /\ phase = "compile" /\ at # None /\ at \in 1..size
      /\ Called(Root) /\ Pending' = Pending /\ cur \in Block /\ cur \in created
      /\ created \subseteq Block /\ Pending \subseteq created /\ Entry \in created
      /\ \A n \in 1..size' : IsRunning(n)' /\ KindOf(n)' = "while" => <<"header", n>> \in created'
  BY <1>1, LeafFacts
<1> USE DEF Generating
<1>3. CASE IsAbstract(at)
  <2>1. Adds(cur, {})
    BY <1>3, AddsNothing DEF CompileDeclaration
  <2> QED BY <1>1, <1>2, <2>1, BlocksAdded
<1>4. CASE ~IsAbstract(at)
  <2>1. PICK i \in Instr : i = Plain("alloca", at)
    BY <1>2, InstrTypes, Ranges
  <2>2. code \in [Block -> Seq(Instr)] /\ Entry \in Block
    BY BlockNames DEF TreeAndTypes, TypeOK, CodegenTypeOK
  <2>3. code' = [code EXCEPT ![Entry] = @ \o <<i>>] \/ code' = [code EXCEPT ![Entry] = <<i>> \o @]
    <3>1. code' = [code EXCEPT ![Entry] = AddAlloca(code[Entry])]
      BY <1>4, <2>2 DEF CompileDeclaration
    <3>2. AddAlloca(code[Entry]) = code[Entry] \o <<i>> \/ AddAlloca(code[Entry]) = <<i>> \o code[Entry]
      BY <2>1, <2>2, ElementsShort DEF AddAlloca
    <3> QED BY <3>1, <3>2
  <2>4. Adds(Entry, {i})
    <3>1. <<i>> \in Seq(Instr) /\ Elements(<<i>>) = {i}
      BY ElementsShort
    <3> QED BY <2>2, <2>3, <3>1, AddsJoined
  <2>5. FitsFunction(i)'
    <3>1. i.op = "alloca" /\ i.to = <<>>
      BY <2>1 DEF Plain
    <3> QED BY <3>1 DEF FitsFunction
  <2> QED BY <1>1, <1>2, <2>2, <2>4, <2>5, BlocksAdded
<1> QED BY <1>3, <1>4

LEMMA ExpressionBlocks ==
  ASSUME Generating, TreeAndTypes', CompileExpression
  PROVE  BlocksInv'
<1>1. /\ Generates({"expression"}) /\ Return /\ UNCHANGED <<ast, size, labels, created, cur>>
      /\ {"expression"} \in SUBSET LeafKind
  BY DEF CompileExpression, LeafKind
<1>2. /\ phase = "compile" /\ at # None /\ at \in 1..size /\ KindOf(at) \in {"expression"}
      /\ Called(Root) /\ Pending' = Pending /\ cur \in Block /\ cur \in created
      /\ created \subseteq Block /\ Pending \subseteq created /\ Entry \in created
      /\ \A n \in 1..size' : IsRunning(n)' /\ KindOf(n)' = "while" => <<"header", n>> \in created'
  BY <1>1, LeafFacts
<1> USE DEF Generating
<1>3. PICK e \in Evaluations : code' = [code EXCEPT ![cur] = Append(@, e)]
  BY DEF CompileExpression
<1>4. e \in Instr /\ e.op = "eval" /\ e.to = <<>>
  BY <1>2, EvaluationType, EvaluationAgrees, Ranges DEF EvalKind
<1>5. Adds(cur, {e}) /\ FitsFunction(e)'
  BY <1>2, <1>3, <1>4, AddsAppended, FitsNext
<1> QED BY <1>1, <1>2, <1>5, BlocksAdded

LEMMA EmptyBlocks ==
  ASSUME Generating, TreeAndTypes', CompileEmpty
  PROVE  BlocksInv'
<1>1. /\ Generates({"empty"}) /\ Return /\ UNCHANGED <<ast, size, labels, created, cur, code>>
      /\ {"empty"} \in SUBSET LeafKind
  BY DEF CompileEmpty, LeafKind, codegenVars
<1>2. /\ phase = "compile" /\ Called(Root) /\ Pending' = Pending /\ cur \in Block
      /\ cur \in created /\ Pending \subseteq created
      /\ \A n \in 1..size' : IsRunning(n)' /\ KindOf(n)' = "while" => <<"header", n>> \in created'
  BY <1>1, LeafFacts
<1>3. Adds(cur, {})
  BY <1>1, AddsNothing
<1> QED BY <1>1, <1>2, <1>3, BlocksAdded DEF Generating

\* The instructions s that a jump writes: its terminator is the last.
LEMMA JumpAdds ==
  ASSUME Generating, TreeAndTypes', CompileJump, phase' = "compile"
  PROVE  \E s \in Seq(Instr) :
           /\ code' = [code EXCEPT ![cur] = @ \o s]
           /\ \A i \in Elements(s) : FitsFunction(i)' /\ (i.op = "eval" => i \in Evaluations)
           /\ \E i \in Elements(s) : IsTerminator(i)
           /\ \A i \in Elements(s) : i.op = "eval" => KindOf(at) \in EvalKind
<1> USE DEF Generating
<1>1. /\ phase = "compile" /\ at # None /\ at \in 1..size /\ KindOf(at) \in LeafKind
      /\ created \subseteq created'
  <2>1. phase = "compile" /\ at # None /\ created \subseteq created'
    BY DEF CompileJump, Jump, Generates
  <2>2. KindOf(at) \in LeafKind
    BY DEF CompileJump, Generates, LeafKind
  <2> QED BY <2>1, <2>2, Basics DEF None
<1>2. CASE Generates({"goto", "break", "continue"}) /\ Jump(JumpCode)
  <2>1. KindOf(at) \in {"goto", "break", "continue"}
    BY <1>2 DEF Generates
  <2>2. PICK b \in Block : b = JumpTarget /\ b \in created /\ b # NoBlock
    <3>1. JumpTarget \in created /\ JumpTarget # NoBlock
      BY <1>1, <2>1, JumpHasTarget
    <3> QED BY <3>1 DEF TreeAndTypes, TypeOK, CodegenTypeOK
  <2>3. PICK i \in Instr : i = Br(b)
    BY InstrTypes
  <2>4. code' = [code EXCEPT ![cur] = @ \o <<i>>]
    <3>1. code' = [code EXCEPT ![cur] = @ \o JumpCode] /\ JumpCode = <<i>>
      BY <1>2, <2>2, <2>3 DEF Jump, JumpCode
    <3> QED BY <3>1
  <2>5. FitsFunction(i)' /\ IsTerminator(i) /\ i.op # "eval"
    <3>1. i.op = "br"
      BY <2>3 DEF Br
    <3> QED BY <1>1, <2>2, <2>3, <3>1, FitsNext, TerminatorKinds
  <2>6. <<i>> \in Seq(Instr) /\ Elements(<<i>>) = {i}
    BY ElementsShort
  <2> QED BY <2>4, <2>5, <2>6
<1>3. CASE Generates({"return"}) /\ Jump(<<Plain("ret", None)>>)
  <2>1. KindOf(at) = "return"
    BY <1>3 DEF Generates
  <2>2. VoidFunction
    <3>1. IsAccepted(at)
      BY <1>1 DEF CheckedInv, IsChecked
    <3> QED BY <2>1, <3>1 DEF IsAccepted, FitsReturnType
  <2>3. PICK i \in Instr : i = Plain("ret", None)
    BY InstrTypes
  <2>4. code' = [code EXCEPT ![cur] = @ \o <<i>>]
    BY <1>3, <2>3 DEF Jump
  <2>5. FitsFunction(i)' /\ IsTerminator(i) /\ i.op # "eval"
    <3>1. i.op = "ret" /\ i.to = <<>>
      BY <2>3 DEF Plain
    <3>2. FitsFunction(Plain("ret", None))'
      BY <2>2, FitsNext
    <3>3. FitsFunction(i)'
      BY <2>3, <3>2
    <3> QED BY <3>1, <3>3 DEF IsTerminator, Terminators
  <2>6. <<i>> \in Seq(Instr) /\ Elements(<<i>>) = {i}
    BY ElementsShort
  <2> QED BY <2>4, <2>5, <2>6
<1>4. CASE /\ Generates({"return value"})
           /\ \E e \in Evaluations : Jump(<<e, Plain("ret value", None)>>)
  <2>1. KindOf(at) = "return value" /\ KindOf(at) \in EvalKind
    BY <1>4 DEF Generates, EvalKind
  <2>2. VoidFunction = FALSE
    <3>1. IsAccepted(at)
      BY <1>1 DEF CheckedInv, IsChecked
    <3> QED BY <2>1, <3>1, AstAssumption DEF IsAccepted, FitsReturnType
  <2>3. PICK i \in Instr : i = Plain("ret value", None)
    BY InstrTypes
  <2>4. PICK e \in Evaluations : code' = [code EXCEPT ![cur] = @ \o <<e, i>>]
    BY <1>4, <2>3 DEF Jump
  <2>5. FitsFunction(i)' /\ IsTerminator(i) /\ i.op # "eval"
    <3>1. i.op = "ret value" /\ i.to = <<>>
      BY <2>3 DEF Plain
    <3>2. FitsFunction(Plain("ret value", None))'
      BY <2>2, FitsNext
    <3>3. FitsFunction(i)'
      BY <2>3, <3>2
    <3> QED BY <3>1, <3>3 DEF IsTerminator, Terminators
  <2>6. e \in Instr /\ e.op = "eval" /\ e.to = <<>>
    BY <1>1, <2>1, EvaluationType, EvaluationAgrees, Ranges
  <2>7. FitsFunction(e)'
    BY <2>6, FitsNext
  <2>8. <<e, i>> \in Seq(Instr) /\ Elements(<<e, i>>) = {e, i}
    BY <2>6, ElementsShort
  <2> QED BY <2>1, <2>4, <2>5, <2>7, <2>8
<1> QED BY <1>2, <1>3, <1>4 DEF CompileJump

LEMMA JumpBlocks ==
  ASSUME Generating, TreeAndTypes', CompileJump, phase' = "compile"
  PROVE  BlocksInv'
<1>1. /\ Generates({"goto", "break", "continue", "return", "return value"})
      /\ Return /\ UNCHANGED <<ast, size, labels>>
      /\ created' = created \cup {<<"dead", at>>} /\ cur' = <<"dead", at>>
  BY DEF CompileJump, Jump, AfterJump, Generates
<1>2. /\ phase = "compile" /\ Called(Root) /\ Pending' = Pending /\ cur \in Block
      /\ cur \in created /\ Pending \subseteq created
      /\ \A n \in 1..size' : IsRunning(n)' /\ KindOf(n)' = "while" => <<"header", n>> \in created'
  <2>1. {"goto", "break", "continue", "return", "return value"} \in SUBSET LeafKind
    BY DEF LeafKind
  <2> QED BY <1>1, <2>1, LeafFacts
<1>3. PICK s \in Seq(Instr) :
        /\ code' = [code EXCEPT ![cur] = @ \o s]
        /\ \A i \in Elements(s) : FitsFunction(i)'
        /\ \E i \in Elements(s) : IsTerminator(i)
  BY JumpAdds
<1>4. Adds(cur, Elements(s))
  BY <1>2, <1>3, AddsJoined DEF Generating
<1> QED BY <1>1, <1>2, <1>3, <1>4, BlocksAdded DEF Generating

LEMMA BlocksStep ==
  ASSUME Generating, TreeAndTypes', [Next]_vars_
  PROVE  BlocksInv'
<1>1. SUFFICES ASSUME phase' = "compile" PROVE BlocksInv'
  BY DEF BlocksInv
<1>2. CASE phase \in {"parse", "typecheck"} /\ FinishTypecheck
  <2>1. /\ code' = code /\ size' = size /\ size > 0
        /\ \A n \in 1..size : status'[n] = "uncalled"
    <3>1. size > 0
      BY <1>2, Ranges DEF Generating, FinishTypecheck, TreeAndTypes, TreeInv, None, Root
    <3> QED BY <1>1, <1>2, <3>1, StartsCompiling DEF Generating, codegenVars, vars_, parserVars
  <2>2. ~Called(Root)'
    BY <2>1, Ranges DEF Called, Root, Generating
  <2>3. \A b \in Block : code'[b] = <<>>
    BY <1>2, <2>1 DEF Generating, CodeInv, NoCodeYet
  <2> QED BY <2>2, <2>3 DEF BlocksInv
<1>3. CASE phase = "compile" /\ Compile
  <2>1. ~FinishFunction
    BY <1>1 DEF FinishFunction
  <2> QED BY <1>1, <1>3, <2>1, FunctionBlocks, ScopeBlocks, ConditionBlocks, ChildBlocks,
             LeaveBlocks, DeclarationBlocks, ExpressionBlocks, EmptyBlocks, JumpBlocks
          DEF Compile
<1>4. CASE phase = "compile" /\ UNCHANGED vars_
  <2>1. UNCHANGED <<ast, size, labels, at, status, phase, code, created, cur>>
    BY <1>4 DEF vars_, parserVars, codegenVars
  <2>2. Pending' = Pending
    BY <2>1 DEF Pending, EndsOwed, ElsesOwed, LabelsOwed, OwesElse, IsRunning, Called, KindOf,
       Kids, OfKind
  <2>3. /\ \A s : NoTerminator(s)' <=> NoTerminator(s)
        /\ \A i : FitsFunction(i)' <=> FitsFunction(i)
    BY <2>1 DEF NoTerminator, FitsFunction
  <2> QED BY <1>4, <2>1, <2>2, <2>3 DEF Generating, BlocksInv, CodeFits, NoTerminator, FitsFunction,
             Called, IsRunning, KindOf
<1> QED BY <1>1, <1>2, <1>3, <1>4, CompilePhase DEF Generating
------------------------------------------------------------------------------
\* An accepted function is compiled: no lookup and no label is missing.

LEMMA CompileSucceeds ==
  ASSUME Generating, Compile
  PROVE  phase' \in {"compile", "compiled"}
<1> USE DEF Generating
<1>1. phase = "compile" /\ at # None
  BY CompileKinds
<1>2. PICK a \in 1..size : a = at
  BY <1>1, Basics DEF None
<1>3. CASE CompileScope
  <2>1. CASE KindOf(a) = "block"
    BY <1>2, <1>1, <1>3, <2>1 DEF CompileScope
  <2>2. CASE KindOf(a) = "labeled"
    <3>1. Called(Root)
      BY <1>1, <1>3, RootIsCalled DEF CompileScope
    <3>2. a \in LabelsOwed
      BY <1>2, <1>3, <2>2 DEF CompileScope, Generates, Entering, Called, LabelsOwed, OfKind, KindOf
    <3>3. LabelBlock(ast[a].name) \in created
      BY <1>1, <3>1, <3>2 DEF BlocksInv, Pending
    <3> QED BY <1>2, <1>1, <1>3, <3>3 DEF CompileScope
  <2> QED BY <1>2, <1>3, <2>1, <2>2 DEF CompileScope, Generates
<1>4. CASE CompileCondition \/ CompileExpression \/ (Generates({"return value"}) /\ AfterEvaluation)
  <2>1. AfterEvaluation /\ KindOf(at) \in EvalKind
    BY <1>4 DEF CompileCondition, CompileExpression, Generates, EvalKind
  <2>2. HasAlloca(ast[at].name)
    BY <1>1, <2>1, EvaluationAgrees
  <2> QED BY <1>1, <2>1, <2>2 DEF AfterEvaluation
<1>5. CASE CompileJump
  BY <1>1, <1>4, <1>5 DEF CompileJump
<1>6. CASE \/ CompileFunction \/ CompileChild \/ LeaveCompiled \/ CompileDeclaration
           \/ CompileEmpty \/ FinishFunction
  BY <1>1, <1>6 DEF CompileFunction, CompileChild, LeaveCompiled, CompileDeclaration, CompileEmpty,
     FinishFunction
<1> QED BY <1>3, <1>4, <1>5, <1>6 DEF Compile

\* What can happen after the parser.
LEMMA AfterParsing ==
  ASSUME Generating, [Next]_vars_
  PROVE  /\ phase = "compile" => UNCHANGED vars_ \/ (Compile /\ UNCHANGED semaVars)
         /\ phase \in Ends => UNCHANGED vars_
         /\ phase \in {"parse", "typecheck"} => UNCHANGED codegenVars /\ phase' # "compiled"
<1> USE DEF Generating
<1>1. CASE UNCHANGED vars_
  BY <1>1 DEF vars_, codegenVars, parserVars
<1>2. CASE Parse /\ UNCHANGED codegenVars
  BY <1>2 DEF Ends, Parse, StartBody, OpenStatement, LeafStatement, RefuseStatement,
     SyntaxError, FinishStatement, FinishBody, ReadsStatement, Reject
<1>3. CASE Typecheck /\ UNCHANGED codegenVars
  BY <1>3, CheckKinds DEF Ends
<1>4. CASE Compile /\ UNCHANGED semaVars
  BY <1>4, CompileKinds DEF Ends
<1> QED BY <1>1, <1>2, <1>3, <1>4 DEF Next
------------------------------------------------------------------------------
(***************************************************************************)
(* What the main builder writes, as a set and at the end of the entry      *)
(* block.                                                                  *)
(***************************************************************************)
Writes(W) ==
  /\ \A b \in Block : InstrsOf(b)' \subseteq InstrsOf(b) \cup W
  /\ \A i \in W : i.op = "eval" => i \in Evaluations /\ KindOf(at) \in EvalKind

LEMMA WritesAppended ==
  ASSUME TreeAndTypes, NEW b \in Block, NEW i \in Instr, i.op # "eval",
         code' = [code EXCEPT ![b] = Append(@, i)]
  PROVE  Writes({i})
<1>1. Adds(b, {i})
  BY AddsAppended
<1> QED BY <1>1 DEF Adds, Writes

LEMMA WritesNothing ==
  ASSUME code' = code
  PROVE  Writes({})
<1>1. Adds(Entry, {})
  BY AddsNothing
<1> QED BY <1>1 DEF Adds, Writes

LEMMA BranchOps ==
  /\ \A b : Br(b).op = "br"
  /\ \A n, b, c : CondBr(n, b, c).op = "condbr"
  /\ \A op, n : Plain(op, n).op = op
BY DEF Br, CondBr, Plain

LEMMA FunctionWrites ==
  ASSUME TreeAndTypes, CompileFunction
  PROVE  Writes(Elements(Prologue))
<1>1. Prologue \in Seq(Instr) /\ Entry \in Block
  BY PrologueType, BlockNames
<1>2. code' = [code EXCEPT ![Entry] = Prologue] /\ code \in [Block -> Seq(Instr)]
  BY DEF CompileFunction, TreeAndTypes, TypeOK, CodegenTypeOK
<1>3. \A b \in Block : InstrsOf(b)' \subseteq InstrsOf(b) \cup Elements(Prologue)
  <2>1. \A b : InstrsOf(b)' = Elements(code'[b])
    BY DEF InstrsOf, Elements
  <2>2. code'[Entry] = Prologue /\ \A b \in Block : b # Entry => code'[b] = code[b]
    BY <1>1, <1>2
  <2> QED BY <2>1, <2>2 DEF InstrsOf
<1>4. \A i \in Elements(Prologue) : i.op # "eval"
  <2>1. \A i \in 1..Len(Prologue) : Prologue[i].op \in {"alloca", "store"}
    <3>1. Len(Params) \in Nat
      BY AstAssumption
    <3>2. Len(Prologue) = 2 * Len(Params)
      BY <3>1, PrologueType DEF Prologue
    <3> QED BY <3>1, <3>2 DEF Prologue, Plain
  <2> QED BY <2>1 DEF Elements
<1> QED BY <1>3, <1>4 DEF Writes

LEMMA ScopeWrites ==
  ASSUME TreeAndTypes, CompileScope
  PROVE  \E W : Writes(W)
<1>1. CASE code' = code
  BY <1>1, WritesNothing
<1>2. CASE code' # code
  <2>1. at \in 1..size /\ cur \in Block /\ KindOf(at) = "labeled"
    BY <1>2, Basics DEF CompileScope, Generates, None, TreeAndTypes, TypeOK, CodegenTypeOK
  <2>2. PICK b \in Block : b = LabelBlock(ast[at].name)
    <3>1. ast[at].name \in Label
      BY <2>1, HeadNamesType DEF TreeAndTypes, TreeInv
    <3> QED BY <3>1, BlockNames
  <2>3. PICK i \in Instr : i = Br(b) /\ i.op # "eval"
    BY InstrTypes, BranchOps
  <2>4. code' = [code EXCEPT ![cur] = Append(@, i)]
    BY <1>2, <2>2, <2>3 DEF CompileScope
  <2> QED BY <2>1, <2>3, <2>4, WritesAppended
<1> QED BY <1>1, <1>2

LEMMA BranchWrites ==
  ASSUME TreeAndTypes, CompileChild \/ LeaveCompiled
  PROVE  \E W : Writes(W)
<1>1. CASE code' = code
  BY <1>1, WritesNothing
<1>2. CASE code' # code
  <2>1. at \in Stmt /\ cur \in Block
    BY Basics DEF CompileChild, LeaveCompiled, None, TreeAndTypes, TypeOK, CodegenTypeOK
  <2>2. <<"header", at>> \in Block /\ <<"end", at>> \in Block
    BY <2>1, BlockNames DEF Roles
  <2>3. \E b \in Block : code' = [code EXCEPT ![cur] = Append(@, Br(b))]
    BY <1>2, <2>2 DEF CompileChild, LeaveCompiled, BackTo
  <2>4. PICK b \in Block : code' = [code EXCEPT ![cur] = Append(@, Br(b))]
    BY <2>3
  <2>5. PICK i \in Instr : i = Br(b) /\ i.op # "eval"
    BY InstrTypes, BranchOps
  <2>6. code' = [code EXCEPT ![cur] = Append(@, i)]
    BY <2>4, <2>5
  <2> QED BY <2>1, <2>5, <2>6, WritesAppended
<1> QED BY <1>1, <1>2

LEMMA CompileWrites ==
  ASSUME Generating, TreeAndTypes', Compile
  PROVE  \E W : Writes(W)
<1> USE DEF Generating
<1>1. phase = "compile" /\ at # None /\ at \in 1..size /\ at \in Stmt
      /\ code \in [Block -> Seq(Instr)] /\ cur \in Block /\ phase' \in {"compile", "compiled"}
  <2>1. phase = "compile" /\ at # None
    BY CompileKinds
  <2> QED BY <2>1, CompileSucceeds, Basics DEF None, TreeAndTypes, TypeOK, CodegenTypeOK
<1>2. CASE CompileFunction
  BY <1>2, FunctionWrites
<1>3. CASE CompileScope
  BY <1>3, ScopeWrites
<1>4. CASE CompileCondition
  <2>1. KindOf(at) \in EvalKind
    BY <1>4 DEF CompileCondition, Generates, EvalKind
  <2>2. PICK e \in Evaluations, h, f, g \in Block : WritesCondition(at, e, h, f, g)
    BY <1>1, <1>4, ConditionEffects
  <2>3. \A b \in Block : InstrsOf(b)' \subseteq InstrsOf(b) \cup {Br(h), e, CondBr(at, f, g)}
    BY <2>2 DEF WritesCondition
  <2>4. \A i \in {Br(h), e, CondBr(at, f, g)} : i.op = "eval" => i \in Evaluations
    BY BranchOps
  <2> QED BY <2>1, <2>3, <2>4, ZenonT(40) DEF Writes
<1>5. CASE CompileChild \/ LeaveCompiled
  BY <1>5, BranchWrites
<1>6. CASE CompileDeclaration
  <2>1. CASE code' = code
    BY <2>1, WritesNothing
  <2>2. CASE code' # code
    <3>1. PICK i \in Instr : i = Plain("alloca", at) /\ i.op # "eval"
      <4>1. Plain("alloca", at) \in Instr /\ Plain("alloca", at).op = "alloca"
        BY <1>1, InstrTypes, BranchOps
      <4> QED BY <4>1
    <3>2. Entry \in Block /\ code' = [code EXCEPT ![Entry] = AddAlloca(@)]
      BY <1>6, <2>2, BlockNames DEF CompileDeclaration
    <3>3. code' = [code EXCEPT ![Entry] = @ \o <<i>>] \/ code' = [code EXCEPT ![Entry] = <<i>> \o @]
      <4>1. code' = [code EXCEPT ![Entry] = AddAlloca(code[Entry])]
        BY <1>1, <3>2
      <4>2. AddAlloca(code[Entry]) = code[Entry] \o <<i>> \/ AddAlloca(code[Entry]) = <<i>> \o code[Entry]
        BY <1>1, <3>1, <3>2, ElementsShort DEF AddAlloca
      <4> QED BY <4>1, <4>2
    <3>4. Adds(Entry, {i})
      <4>1. <<i>> \in Seq(Instr) /\ Elements(<<i>>) = {i}
        BY ElementsShort
      <4> QED BY <3>2, <3>3, <4>1, AddsJoined
    <3>5. \A b \in Block : InstrsOf(b)' \subseteq InstrsOf(b) \cup {i}
      BY <3>4 DEF Adds
    <3>6. Writes({i})
      BY <3>1, <3>5 DEF Writes
    <3> QED BY <3>6
  <2> QED BY <2>1, <2>2
<1>7. CASE CompileExpression
  <2>1. PICK e \in Evaluations : code' = [code EXCEPT ![cur] = Append(@, e)]
    BY <1>7 DEF CompileExpression
  <2>2. KindOf(at) \in EvalKind /\ e \in Instr
    BY <1>1, <1>7, EvaluationType DEF CompileExpression, Generates, EvalKind
  <2>3. Adds(cur, {e})
    BY <1>1, <2>1, <2>2, AddsAppended
  <2>4. Writes({e})
    <3>1. \A b \in Block : InstrsOf(b)' \subseteq InstrsOf(b) \cup {e}
      BY <2>3 DEF Adds
    <3> QED BY <2>2, <3>1 DEF Writes
  <2> QED BY <2>4
<1>8. CASE CompileEmpty
  BY <1>8, WritesNothing DEF CompileEmpty, codegenVars
<1>9. CASE CompileJump
  <2>1. phase' = "compile"
    BY <1>1, <1>9 DEF CompileJump, AfterEvaluation
  <2>2. PICK s \in Seq(Instr) :
          /\ code' = [code EXCEPT ![cur] = @ \o s]
          /\ \A i \in Elements(s) : i.op = "eval" => i \in Evaluations /\ KindOf(at) \in EvalKind
    BY <1>9, <2>1, JumpAdds
  <2>3. Adds(cur, Elements(s))
    BY <1>1, <2>2, AddsJoined
  <2> QED BY <2>2, <2>3 DEF Adds, Writes
<1>10. CASE FinishFunction
  <2>1. CASE code' = code
    BY <2>1, WritesNothing
  <2>2. CASE code' # code
    <3>1. PICK i \in Instr : i = DefaultReturn /\ i.op # "eval"
      BY InstrTypes, BranchOps, ZenonT(40) DEF DefaultReturn
    <3>2. code' = [code EXCEPT ![cur] = Append(@, i)]
      BY <1>10, <2>2, <3>1 DEF FinishFunction
    <3> QED BY <1>1, <3>1, <3>2, WritesAppended
  <2> QED BY <2>1, <2>2
<1> QED BY <1>2, <1>3, <1>4, <1>5, <1>6, <1>7, <1>8, <1>9, <1>10 DEF Compile

LEMMA ResolutionsStep ==
  ASSUME Generating, TreeAndTypes', EvalsInv, [Next]_vars_
  PROVE  EvalsInv'
<1> USE DEF Generating
<1>0. CodeAsSets /\ CodeAsSets'
  BY CodeIsSets, CodeIsSetsNext
<1>1. CASE phase \in {"parse", "typecheck"}
  <2>1. \A b \in Block : code'[b] = <<>>
    BY <1>1, AfterParsing DEF EvalsInv, codegenVars
  <2>2. ResolutionsAgree'
    BY <2>1 DEF ResolutionsAgree
  <2> QED BY <2>1, <2>2 DEF EvalsInv
<1>2. CASE UNCHANGED vars_
  <2>1. UNCHANGED <<ast, size, phase, code, resolved>>
    BY <1>2 DEF vars_, parserVars, semaVars, codegenVars
  <2> QED BY <2>1 DEF EvalsInv, ResolutionsAgree, DeclaredLaterIn, OfKind, Parent
<1>3. CASE phase = "compile" /\ Compile /\ UNCHANGED semaVars
  <2>1. UNCHANGED <<ast, size, resolved>> /\ at # None /\ phase' \notin {"parse", "typecheck"}
    BY <1>3, CompileKinds, CompileSucceeds DEF semaVars
  <2>2. PICK W : Writes(W)
    BY <1>3, CompileWrites
  <2>3. ASSUME NEW b \in Block, NEW e \in InstrsOf(b)', e.op = "eval"
        PROVE  e.scope = resolved'[e.of] \/ DeclaredLaterIn(e.scope, e.of)'
    <3>1. e.scope = resolved[e.of] \/ DeclaredLaterIn(e.scope, e.of)
      <4>1. CASE e \in InstrsOf(b)
        BY <1>0, <2>3, <4>1 DEF EvalsInv, CodeAsSets
      <4>2. CASE e \in W
        <5>1. e \in Evaluations /\ KindOf(at) \in EvalKind
          BY <2>2, <2>3, <4>2 DEF Writes
        <5>2. e.of = at /\ (e.scope = resolved[at] \/ DeclaredLaterIn(e.scope, at))
          BY <1>3, <2>1, <5>1, EvaluationAgrees
        <5> QED BY <5>2
      <4> QED BY <2>2, <4>1, <4>2 DEF Writes
    <3> QED BY <2>1, <3>1 DEF DeclaredLaterIn, OfKind, Parent
  <2>4. ResolutionsAgree'
    BY <1>0, <2>3 DEF CodeAsSets
  <2> QED BY <2>1, <2>4 DEF EvalsInv
<1>4. phase \in {"parse", "typecheck", "compile"} \cup Ends
  BY DEF TreeAndTypes, TypeOK, ParserTypeOK, Passes
<1> QED BY <1>1, <1>2, <1>3, <1>4, AfterParsing
------------------------------------------------------------------------------
(***************************************************************************)
(* The last instruction of the entry block.  If the alloca builder is      *)
(* moved to the front by a parameter or a declaration of the body, that    *)
(* happens before anything but the body and its declarations is compiled.  *)
(***************************************************************************)

LEMMA EarlyKept ==
  ASSUME UNCHANGED <<ast, size>>
  PROVE  IsMovedEarly' <=> IsMovedEarly
BY DEF IsMovedEarly, OfKind, Parent

LEMMA RootWasCalled ==
  ASSUME TreeAndTypes, Compile, ~CompileFunction
  PROVE  Called(Root)
<1>1. phase = "compile" /\ at # None
  BY CompileKinds
<1>2. at # Root \/ Resuming
  BY <1>1, InnerStatement DEF Compile, CompileScope, CompileCondition, CompileChild, LeaveCompiled,
     CompileDeclaration, CompileExpression, CompileEmpty, CompileJump, FinishFunction, Generates
<1> QED BY <1>1, <1>2, RootIsCalled

\* Until then nothing but the body and its declarations is compiled.
LEMMA StillAtTheBody ==
  ASSUME Generating, EntryInv, Compile, Called(Root), IsMovedEarly, allocaAtEnd
  PROVE  /\ at = Root \/ KindOf(at) = "declaration"
         /\ \E d \in OfKind("declaration") : d \in 2..size /\ Parent(d) = Root /\ ~Called(d)
<1> USE DEF Generating
<1>1. phase = "compile" /\ at # None /\ at \in 1..size /\ Root \in Stmt
  <2>1. phase = "compile" /\ at # None
    BY CompileKinds
  <2> QED BY <2>1, Basics, AstAssumption DEF None, Root, Stmt
<1>2. ~(Len(Params) > 1) /\ allocas[Root] = {}
  BY <1>1 DEF EntryInv
<1>3. PICK d \in OfKind("declaration") : Parent(d) = Root /\ ast[d].name # NoName
  BY <1>2 DEF IsMovedEarly
<1>4. ~Called(d)
  <2>1. allocas[Root] = NamesOf(CalledDeclarations(Root))
    BY <1>1 DEF AllocasInv
  <2>2. d \notin CalledDeclarations(Root)
    BY <1>2, <1>3, <2>1 DEF NamesOf
  <2> QED BY <1>3, <2>2 DEF CalledDeclarations
<1>5. d \in 2..size
  <2>1. d \in 1..size /\ KindOf(d) = "declaration" /\ KindOf(1) = "block" /\ size \in Nat
    BY <1>1, Ranges DEF OfKind, KindOf, TreeAndTypes, TreeInv, Root
  <2> QED BY <2>1
<1>6. ASSUME at # Root, KindOf(at) # "declaration" PROVE FALSE
  <2>1. Root \in EnclosingBlocks(at)
    <3>1. Root \in Enclosing[at] /\ KindOf(Root) = "block"
      BY <1>1, EnclosingRange, Ranges DEF TreeAndTypes, TreeInv
    <3> QED BY <1>1, <3>1 DEF EnclosingBlocks
  <2>2. Called(d)
    BY <1>1, <1>3, <1>6, <2>1 DEF DeclarationsFirst, IsActive
  <2> QED BY <1>4, <2>2
<1> QED BY <1>3, <1>4, <1>5, <1>6

LEMMA NoCodeYetWritten ==
  ASSUME Generating, EntryInv, Compile, ~CompileFunction, ~CompileDeclaration, IsMovedEarly,
         allocaAtEnd
  PROVE  code' = code
<1> USE DEF Generating
<1>1. Called(Root)
  BY RootWasCalled
<1>2. PICK d \in 2..size : Parent(d) = Root /\ ~Called(d)
  BY <1>1, StillAtTheBody
<1>3. at = Root \/ KindOf(at) = "declaration"
  BY <1>1, StillAtTheBody
<1>4. phase = "compile" /\ at # None /\ KindOf(Root) = "block" /\ size > 0
  <2>1. phase = "compile" /\ at # None
    BY CompileKinds
  <2> QED BY <2>1, Ranges DEF TreeAndTypes, TreeInv
<1>5. ~FinishFunction
  <2>1. PICK j \in 1..Len(Kids(Root)) : Kids(Root)[j] = d
    BY <1>2, <1>4 DEF ShapeInv, Walks, Joined, IsKid
  <2> QED BY <1>2, <2>1 DEF FinishFunction, AllCalled
<1>6. CASE CompileChild
  <2>1. Resuming /\ at \in 1..size /\ at # None
    BY <1>6, Basics DEF CompileChild, None
  <2>2. KindOf(at) # "if"
    BY <1>3, <1>4
  <2> QED BY <1>6, <2>2 DEF CompileChild, IsElse
<1>7. CASE LeaveCompiled
  <2>1. KindOf(at) \notin {"if", "while"}
    BY <1>3, <1>4
  <2> QED BY <1>7, <2>1 DEF LeaveCompiled
<1>8. CASE CompileScope
  BY <1>3, <1>8 DEF CompileScope, Generates
<1>9. CASE CompileEmpty
  BY <1>9 DEF CompileEmpty, codegenVars
<1>10. ~(CompileCondition \/ CompileExpression \/ CompileJump)
  BY <1>3, <1>4 DEF CompileCondition, CompileExpression, CompileJump, Generates
<1> QED BY <1>5, <1>6, <1>7, <1>8, <1>9, <1>10 DEF Compile

\* The alloca builder and the allocas of the declarations.
LEMMA BuilderKept ==
  ASSUME Compile, ~CompileFunction, ~CompileDeclaration
  PROVE  allocaAtEnd' = allocaAtEnd /\ allocas' = allocas
BY DEF Compile, CompileScope, CompileCondition, CompileChild, LeaveCompiled, CompileExpression,
   CompileEmpty, CompileJump, Jump, FinishFunction, codegenVars

\* The main builder writes behind what has no terminator yet.
WritesBehind == \E s \in Seq(Instr) : OnlyLastTerminator(s) /\ code'[Entry] = code[Entry] \o s

LEMMA OneInstruction ==
  ASSUME NEW i \in Instr
  PROVE  <<i>> \in Seq(Instr) /\ OnlyLastTerminator(<<i>>)
         /\ \A q \in Seq(Instr) : Append(q, i) = q \o <<i>>
<1>1. /\ <<i>> \in Seq(Instr) /\ Len(<<i>>) = 1
      /\ \A q \in Seq(Instr) : Append(q, i) = q \o <<i>>
  BY ElementsShort
<1>2. OnlyLastTerminator(<<i>>)
  BY <1>1 DEF OnlyLastTerminator
<1> QED BY <1>1, <1>2

LEMMA AppendsBehind ==
  ASSUME TreeAndTypes, cur = Entry, NEW i \in Instr,
         code'[Entry] = Append(code[Entry], i)
  PROVE  WritesBehind
<1>1. code[Entry] \in Seq(Instr)
  BY BlockNames DEF TreeAndTypes, TypeOK, CodegenTypeOK
<1> QED BY <1>1, OneInstruction DEF WritesBehind

LEMMA EntryWritten ==
  ASSUME Generating, TreeAndTypes', Compile, ~CompileFunction, ~CompileDeclaration
  PROVE  code'[Entry] = code[Entry] \/ (cur = Entry /\ WritesBehind)
<1> USE DEF Generating
<1>1. /\ phase = "compile" /\ at # None /\ at \in 1..size /\ at \in Stmt
      /\ code \in [Block -> Seq(Instr)] /\ cur \in Block /\ Entry \in Block
      /\ phase' \in {"compile", "compiled"}
  <2>1. phase = "compile" /\ at # None
    BY CompileKinds
  <2> QED BY <2>1, CompileSucceeds, Basics, BlockNames, SMTT(20) DEF None, TreeAndTypes, TypeOK, CodegenTypeOK
<1>2. ASSUME NEW i \in Instr, code' = [code EXCEPT ![cur] = Append(@, i)]
      PROVE  code'[Entry] = code[Entry] \/ (cur = Entry /\ WritesBehind)
  <2>1. CASE cur = Entry
    BY <1>1, <1>2, <2>1, AppendsBehind
  <2>2. CASE cur # Entry
    BY <1>1, <1>2, <2>2
  <2> QED BY <2>1, <2>2
<1>3. CASE CompileScope
  <2>1. CASE KindOf(at) = "labeled"
    <3>1. PICK b \in Block : b = LabelBlock(ast[at].name)
      <4>1. ast[at].name \in Label
        BY <1>1, <2>1, HeadNamesType DEF TreeAndTypes, TreeInv
      <4> QED BY <4>1, BlockNames
    <3>2. PICK i \in Instr : i = Br(b)
      BY InstrTypes
    <3>3. code' = [code EXCEPT ![cur] = Append(@, i)]
      BY <1>3, <2>1, <3>1, <3>2 DEF CompileScope
    <3> QED BY <1>2, <3>3
  <2> QED BY <1>3, <2>1 DEF CompileScope, Generates
<1>4. CASE CompileCondition
  <2>1. PICK e \in Evaluations, h, f, g \in Block : WritesCondition(at, e, h, f, g)
    BY <1>1, <1>4, ConditionEffects
  <2>2. PICK i \in Instr : i = Br(h)
    BY InstrTypes
  <2>3. h # Entry /\ cur # h
    BY <2>1 DEF WritesCondition, Entry
  <2>4. code' = [code EXCEPT ![cur] = Append(@, i), ![h] = <<e, CondBr(at, f, g)>>]
    BY <2>1, <2>2 DEF WritesCondition
  <2>5. CASE cur = Entry
    <3>1. code'[Entry] = Append(code[Entry], i)
      BY <1>1, <2>3, <2>4, <2>5
    <3> QED BY <2>5, <3>1, AppendsBehind
  <2>6. CASE cur # Entry
    BY <1>1, <2>3, <2>4, <2>6
  <2> QED BY <2>5, <2>6
<1>5. CASE CompileChild \/ LeaveCompiled
  <2>1. CASE code' = code
    BY <2>1
  <2>2. CASE code' # code
    <3>1. <<"header", at>> \in Block /\ <<"end", at>> \in Block
      BY <1>1, BlockNames DEF Roles
    <3>2. PICK b \in Block : code' = [code EXCEPT ![cur] = Append(@, Br(b))]
      BY <1>5, <2>2, <3>1 DEF CompileChild, LeaveCompiled, BackTo
    <3>3. PICK i \in Instr : i = Br(b)
      BY InstrTypes
    <3> QED BY <1>2, <3>2, <3>3
  <2> QED BY <2>1, <2>2
<1>6. CASE CompileExpression
  <2>1. PICK e \in Evaluations : code' = [code EXCEPT ![cur] = Append(@, e)]
    BY <1>6 DEF CompileExpression
  <2> QED BY <1>1, <1>2, <2>1, EvaluationType
<1>7. CASE CompileEmpty
  BY <1>7 DEF CompileEmpty, codegenVars
<1>8. CASE CompileJump
  <2>1. PICK s \in Seq(Instr) : OnlyLastTerminator(s) /\ Jump(s)
    BY <1>8, JumpInstructions
  <2>2. code' = [code EXCEPT ![cur] = @ \o s]
    BY <2>1 DEF Jump
  <2>3. CASE cur = Entry
    BY <1>1, <2>1, <2>2, <2>3 DEF WritesBehind
  <2>4. CASE cur # Entry
    BY <1>1, <2>2, <2>4
  <2> QED BY <2>3, <2>4
<1>9. CASE FinishFunction
  <2>1. PICK i \in Instr : i = DefaultReturn
    BY InstrTypes DEF DefaultReturn
  <2> QED BY <1>2, <1>9, <2>1 DEF FinishFunction
<1> QED BY <1>3, <1>4, <1>5, <1>6, <1>7, <1>8, <1>9 DEF Compile

LEMMA AllocaAdded ==
  ASSUME NEW q \in Seq(Instr), NEW i \in Instr, ~IsTerminator(i)
  PROVE  /\ NoTerminator(q) => OnlyLastTerminator(Append(q, i))
         /\ OnlyLastTerminator(q) => OnlyLastTerminator(<<i>> \o q)
<1>1. NoTerminator(q) => OnlyLastTerminator(Append(q, i))
  BY Appended
<1>2. ASSUME OnlyLastTerminator(q), NEW j \in 1..Len(<<i>> \o q), j < Len(<<i>> \o q)
      PROVE  ~IsTerminator((<<i>> \o q)[j])
  <2>1. /\ Len(<<i>> \o q) = Len(q) + 1 /\ (<<i>> \o q)[1] = i /\ Len(q) \in Nat
        /\ j > 1 => (<<i>> \o q)[j] = q[j - 1] /\ j - 1 \in 1..Len(q)
    OBVIOUS
  <2>2. CASE j = 1
    BY <2>1, <2>2
  <2>3. CASE j > 1
    <3>1. j - 1 \in 1..Len(q) /\ j - 1 < Len(q)
      BY <1>2, <2>1, <2>3
    <3>2. ~IsTerminator(q[j - 1])
      BY <1>2, <3>1 DEF OnlyLastTerminator
    <3> QED BY <2>1, <2>3, <3>2
  <2> QED BY <2>1, <2>2, <2>3
<1> QED BY <1>1, <1>2 DEF OnlyLastTerminator

\* The parts of EntryInv, without the phases.
BuilderMoved == (Len(Params) > 1 /\ Called(Root)) \/ (\E b \in Stmt : allocas[b] # {}) => ~allocaAtEnd
NothingWritten == IsMovedEarly /\ allocaAtEnd => NoTerminator(code[Entry])
EntryEnds == IsMovedEarly => OnlyLastTerminator(code[Entry])

LEMMA EntryParts ==
  /\ EntryInv <=> /\ phase = "compile" => BuilderMoved /\ NothingWritten
                  /\ phase \in {"compile", "compiled"} => EntryEnds
  /\ EntryInv' <=> /\ phase' = "compile" => BuilderMoved' /\ NothingWritten'
                   /\ phase' \in {"compile", "compiled"} => EntryEnds'
BY DEF EntryInv, BuilderMoved, NothingWritten, EntryEnds

LEMMA EntryStarted ==
  ASSUME Generating, CompileFunction
  PROVE  BuilderMoved' /\ NothingWritten' /\ EntryEnds'
<1> USE DEF Generating
<1>1. \A n \in 1..size : status[n] = "uncalled"
  BY FunctionStarts
<1>2. \A b \in Stmt : allocas'[b] = {}
  <2>1. phase = "compile" /\ allocas' = allocas
    BY DEF CompileFunction, Generates
  <2>2. \A b \in Stmt : CalledDeclarations(b) = {}
    BY <1>1 DEF CalledDeclarations, OfKind, Called
  <2>3. \A b \in Stmt : NamesOf(CalledDeclarations(b)) = {}
    BY <2>2 DEF NamesOf
  <2> QED BY <2>1, <2>3 DEF AllocasInv
<1>3. allocaAtEnd' = ~(Len(Params) > 1)
  BY DEF CompileFunction, PrologueEndsAtFront
<1>4. code'[Entry] = Prologue
  BY BlockNames DEF CompileFunction, TreeAndTypes, TypeOK, CodegenTypeOK
<1>5. NoTerminator(code'[Entry])
  BY <1>4, PrologueHasNoTerminator
<1>6. OnlyLastTerminator(code'[Entry])
  BY <1>5 DEF NoTerminator, OnlyLastTerminator
<1>7. BuilderMoved'
  BY <1>2, <1>3 DEF BuilderMoved
<1>8. NothingWritten'
  BY <1>5 DEF NothingWritten, NoTerminator
<1>9. EntryEnds'
  BY <1>6 DEF EntryEnds, OnlyLastTerminator
<1> QED BY <1>7, <1>8, <1>9

LEMMA EntryDeclared ==
  ASSUME Generating, EntryInv, CompileDeclaration
  PROVE  BuilderMoved' /\ NothingWritten' /\ EntryEnds'
<1> USE DEF Generating
<1>1. /\ phase = "compile" /\ at \in Stmt /\ at \notin {None, Root} /\ UNCHANGED <<ast, size>>
      /\ code \in [Block -> Seq(Instr)] /\ code[Entry] \in Seq(Instr) /\ Entry \in Block
  BY InnerStatement, Basics, BlockNames DEF CompileDeclaration, Generates, TreeAndTypes, TypeOK,
     CodegenTypeOK, None
<1>2. BuilderMoved /\ NothingWritten /\ EntryEnds /\ Called(Root) /\ (IsMovedEarly' <=> IsMovedEarly)
  BY <1>1, EntryParts, RootIsCalled, EarlyKept
<1>3. CASE IsAbstract(at)
  <2>1. UNCHANGED <<code, allocaAtEnd, allocas>>
    BY <1>3 DEF CompileDeclaration
  <2>2. BuilderMoved'
    BY <1>2, <2>1 DEF BuilderMoved
  <2>3. NothingWritten'
    BY <1>2, <2>1 DEF NothingWritten, NoTerminator
  <2>4. EntryEnds'
    BY <1>2, <2>1 DEF EntryEnds, OnlyLastTerminator
  <2> QED BY <2>2, <2>3, <2>4
<1>4. CASE ~IsAbstract(at)
  <2>1. allocaAtEnd' = FALSE /\ code' = [code EXCEPT ![Entry] = AddAlloca(code[Entry])]
    BY <1>1, <1>4 DEF CompileDeclaration
  <2>2. PICK i \in Instr : i = Plain("alloca", at) /\ ~IsTerminator(i)
    <3>1. Plain("alloca", at) \in Instr /\ Plain("alloca", at).op = "alloca"
      BY <1>1, InstrTypes, BranchOps
    <3> QED BY <3>1 DEF IsTerminator, Terminators
  <2>3. code'[Entry] = IF allocaAtEnd THEN Append(code[Entry], i) ELSE <<i>> \o code[Entry]
    BY <1>1, <2>1, <2>2 DEF AddAlloca
  <2>4. IsMovedEarly => OnlyLastTerminator(code'[Entry])
    BY <1>1, <1>2, <2>2, <2>3, AllocaAdded DEF NothingWritten, EntryEnds
  <2>5. EntryEnds'
    BY <1>2, <2>4 DEF EntryEnds, OnlyLastTerminator
  <2> QED BY <2>1, <2>5 DEF BuilderMoved, NothingWritten
<1> QED BY <1>3, <1>4

LEMMA EntryOthers ==
  ASSUME Generating, TreeAndTypes', EntryInv, Compile, ~CompileFunction, ~CompileDeclaration
  PROVE  BuilderMoved' /\ NothingWritten' /\ EntryEnds'
<1> USE DEF Generating
<1>1. phase = "compile" /\ UNCHANGED <<ast, size, allocaAtEnd, allocas>>
  BY CompileKinds, BuilderKept
<1>2. BuilderMoved /\ NothingWritten /\ EntryEnds /\ Called(Root) /\ (IsMovedEarly' <=> IsMovedEarly)
  BY <1>1, EntryParts, RootWasCalled, EarlyKept
<1>3. BuilderMoved'
  BY <1>1, <1>2 DEF BuilderMoved
<1>4. NothingWritten'
  <2>1. IsMovedEarly /\ allocaAtEnd => code' = code
    BY NoCodeYetWritten
  <2> QED BY <1>1, <1>2, <2>1 DEF NothingWritten, NoTerminator
<1>5. EntryEnds'
  <2>1. ASSUME IsMovedEarly PROVE OnlyLastTerminator(code'[Entry])
    <3>1. OnlyLastTerminator(code[Entry])
      BY <1>2, <2>1 DEF EntryEnds
    <3>2. CASE cur = Entry /\ WritesBehind
      <4>1. PICK s \in Seq(Instr) : OnlyLastTerminator(s) /\ code'[Entry] = code[Entry] \o s
        BY <3>2 DEF WritesBehind
      <4>2. NoTerminator(code[Entry]) /\ code[Entry] \in Seq(Instr)
        BY <1>1, <3>2, BlockNames DEF CodeInv, TreeAndTypes, TypeOK, CodegenTypeOK
      <4> QED BY <4>1, <4>2, Concatenated
    <3> QED BY <3>1, <3>2, EntryWritten
  <2> QED BY <1>2, <2>1 DEF EntryEnds, OnlyLastTerminator
<1> QED BY <1>3, <1>4, <1>5

LEMMA EntryStep ==
  ASSUME Generating, TreeAndTypes', EntryInv, [Next]_vars_
  PROVE  EntryInv'
<1> USE DEF Generating
<1>1. CASE phase \in {"parse", "typecheck"}
  <2>1. UNCHANGED codegenVars /\ phase' # "compiled"
    BY <1>1, AfterParsing
  <2>2. SUFFICES ASSUME phase' = "compile" PROVE BuilderMoved' /\ NothingWritten' /\ EntryEnds'
    BY <2>1, EntryParts
  <2>3. ~Called(Root)'
    <3>1. /\ size' = size /\ \A n \in 1..size : status'[n] = "uncalled"
      BY <1>1, <2>2, StartsCompiling DEF vars_, parserVars
    <3>2. size > 0
      <4>1. size' > 0
        BY <2>2 DEF TreeAndTypes, TreeInv, Ends
      <4> QED BY <3>1, <4>1
    <3> QED BY <3>1, <3>2, Ranges DEF Called, Root
  <2>4. code'[Entry] = <<>> /\ \A b \in Stmt : allocas'[b] = {}
    BY <1>1, <2>1, BlockNames DEF CodeInv, NoCodeYet, AllocasInv, codegenVars
  <2> QED BY <2>3, <2>4 DEF BuilderMoved, NothingWritten, EntryEnds, NoTerminator, OnlyLastTerminator
<1>2. CASE UNCHANGED vars_
  <2>1. UNCHANGED <<ast, size, phase, status, code, allocas, allocaAtEnd>>
    BY <1>2 DEF vars_, parserVars, semaVars, codegenVars
  <2>2. IsMovedEarly' <=> IsMovedEarly
    BY <2>1, EarlyKept
  <2> QED BY <2>1, <2>2 DEF EntryInv, NoTerminator, OnlyLastTerminator, Called
<1>3. CASE phase = "compile" /\ Compile
  BY <1>3, EntryStarted, EntryDeclared, EntryOthers, EntryParts
<1>4. phase \in {"parse", "typecheck", "compile"} \cup Ends
  BY DEF TreeAndTypes, TypeOK, ParserTypeOK, Passes
<1> QED BY <1>1, <1>2, <1>3, <1>4, AfterParsing
------------------------------------------------------------------------------
\* What the code generator leaves behind.

LEMMA BlocksFinished ==
  ASSUME Generating, TreeAndTypes', FinishFunction
  PROVE  BlocksAreComplete'
<1> USE DEF Generating
<1>1. /\ phase = "compile" /\ at = Root /\ Resuming /\ AllCalled(Kids(Root)) /\ created' = created
      /\ code \in [Block -> Seq(Instr)] /\ cur \in Block /\ created \subseteq Block
      /\ KindOf(Root) = "block" /\ at # None
  <2>1. at # None
    BY DEF FinishFunction, Root, None
  <2>2. size > 0
    BY <2>1, Ranges DEF TreeAndTypes, TreeInv
  <2> QED BY <2>1, <2>2 DEF FinishFunction, TreeAndTypes, TreeInv, TypeOK, CodegenTypeOK
<1>2. Called(Root) /\ NoTerminator(code[cur]) /\ CodeAsSets /\ CodeAsSets'
  BY <1>1, CodeIsSets, CodeIsSetsNext DEF CodeInv, Resuming, Called
<1>3. Pending = {}
  <2>1. \A n \in 1..size : status[n] = IF n = Root THEN "running" ELSE "returned"
    BY <1>1, PassComplete DEF Walks
  <2>2. EndsOwed = {} /\ ElsesOwed = {}
    BY <1>1, <2>1 DEF EndsOwed, ElsesOwed, OwesElse, IsRunning
  <2>3. LabelsOwed = {}
    BY <2>1 DEF LabelsOwed, OfKind, Called
  <2> QED BY <2>2, <2>3 DEF Pending
<1>4. ~HasTerminator(cur)
  <2>1. code[cur] \in Seq(Instr)
    BY <1>1
  <2>2. code[cur] # <<>> => Len(code[cur]) \in 1..Len(code[cur])
    BY <2>1
  <2> QED BY <1>2, <2>2 DEF HasTerminator, NoTerminator
<1>5. PICK i \in Instr : i = DefaultReturn
  BY InstrTypes DEF DefaultReturn
<1>6. code' = [code EXCEPT ![cur] = Append(@, i)]
  BY <1>4, <1>5 DEF FinishFunction
<1>7. Adds(cur, {i})
  BY <1>1, <1>6, AddsAppended
<1>8. IsTerminator(i) /\ FitsFunction(i)'
  <2>1. IsTerminator(i)
    BY <1>5, TerminatorKinds DEF DefaultReturn
  <2>2. FitsFunction(DefaultReturn)'
    <3>1. CASE VoidFunction
      <4>1. FitsFunction(Plain("ret", None))'
        BY <3>1, FitsNext
      <4> QED BY <3>1, <4>1 DEF DefaultReturn
    <3>2. CASE ~VoidFunction
      <4>1. FitsFunction(Plain("ret value", None))'
        BY <3>2, FitsNext, AstAssumption
      <4> QED BY <3>2, <4>1 DEF DefaultReturn
    <3> QED BY <3>1, <3>2
  <2> QED BY <1>5, <2>1, <2>2
<1>9. ASSUME NEW b \in Block
      PROVE  (TerminatorsOf(b)' # {}) <=> b \in created'
  <2>1. (TerminatorsOf(b)' # {}) <=> \E j \in InstrsOf(b)' : IsTerminator(j)
    BY <1>2 DEF CodeAsSets, IsTerminator
  <2>2. CASE b = cur
    BY <1>1, <1>2, <1>7, <1>8, <2>1, <2>2 DEF Adds, BlocksInv
  <2>3. CASE b # cur /\ b \in created
    <3>1. ~NoTerminator(code[b])
      BY <1>1, <1>2, <1>3, <2>3 DEF BlocksInv
    <3>2. \E j \in InstrsOf(b) : IsTerminator(j)
      BY <1>2, <3>1 DEF CodeAsSets
    <3> QED BY <1>1, <1>7, <2>1, <2>3, <3>2 DEF Adds
  <2>4. CASE b \notin created
    <3>1. b # cur /\ code[b] = <<>>
      BY <1>1, <1>2, <2>4 DEF BlocksInv
    <3>2. InstrsOf(b) = {}
      BY <1>2, <3>1 DEF CodeAsSets
    <3> QED BY <1>1, <1>7, <2>1, <2>4, <3>1, <3>2 DEF Adds
  <2> QED BY <2>2, <2>3, <2>4
<1>10. CodeFits'
  <2>1. ASSUME NEW b \in Block, NEW j \in InstrsOf(b)' PROVE FitsFunction(j)'
    <3>1. CASE j \in InstrsOf(b)
      <4>1. FitsFunction(j)
        BY <1>1, <1>2, <3>1 DEF BlocksInv, CodeAsSets
      <4> QED BY <1>1, <4>1 DEF FitsFunction
    <3>2. CASE j = i
      BY <1>8, <3>2
    <3> QED BY <1>7, <3>1, <3>2 DEF Adds
  <2> QED BY <1>2, <2>1 DEF CodeAsSets
<1>11. \A b \in Block : (TerminatorsOf(b)' # {}) = (b \in created')
  BY <1>9
<1>12. ASSUME NEW b \in Block, NEW j \in 1..Len(code'[b])
       PROVE  /\ \A t \in 1..Len(code'[b][j].to) : code'[b][j].to[t] \in created'
              /\ code'[b][j].op \in {"ret", "ret value"} =>
                   VoidFunction = (code'[b][j].op = "ret")
  BY <1>10, <1>12, Zenon DEF CodeFits, FitsFunction
<1> HIDE DEF Generating
<1> QED BY <1>11, <1>12, Zenon DEF BlocksAreComplete

LEMMA CompleteStep ==
  ASSUME Generating, TreeAndTypes', BlocksAreComplete, [Next]_vars_
  PROVE  BlocksAreComplete'
<1> USE DEF Generating
<1>1. SUFFICES ASSUME phase' = "compiled" PROVE BlocksAreComplete'
  BY DEF BlocksAreComplete
<1>2. CASE UNCHANGED vars_
  <2>1. UNCHANGED <<phase, code, created>>
    BY <1>2 DEF vars_, parserVars, codegenVars
  <2>2. \A b : TerminatorsOf(b)' = TerminatorsOf(b)
    BY <2>1 DEF TerminatorsOf, IsTerminator
  <2>3. \A b \in Block :
          /\ (TerminatorsOf(b) # {}) = (b \in created)
          /\ \A i \in 1..Len(code[b]) : FitsFunction(code[b][i])
    BY <1>1, <2>1 DEF BlocksAreComplete, FitsFunction
  <2>4. \A b \in Block : (TerminatorsOf(b)' # {}) = (b \in created')
    BY <2>1, <2>2, <2>3
  <2>5. \A b \in Block : \A i \in 1..Len(code'[b]) : FitsFunction(code'[b][i])
    BY <2>1, <2>3
  <2> QED BY <2>1, <2>4, <2>5 DEF BlocksAreComplete, FitsFunction
<1>3. CASE phase = "compile" /\ Compile
  <2>1. FinishFunction
    BY <1>1, <1>3 DEF Compile, CompileFunction, CompileScope, CompileCondition, CompileChild,
       LeaveCompiled, CompileDeclaration, CompileExpression, CompileEmpty, CompileJump,
       AfterEvaluation
  <2> QED BY <2>1, BlocksFinished
<1>4. phase \in {"parse", "typecheck", "compile"} \cup Ends
  BY DEF TreeAndTypes, TypeOK, ParserTypeOK, Passes
<1> QED BY <1>1, <1>2, <1>3, <1>4, AfterParsing
------------------------------------------------------------------------------
\* The invariant of the whole pipeline, and the properties that follow.

LEMMA InvariantParts ==
  Invariant => /\ Generating /\ Checking /\ OneTerminator /\ EntryInv /\ EvalsInv
               /\ LabelsIdentifyStatements
BY DEF Invariant, Generating, Checking, ActivationInv, SemaInv, CompileInv

LEMMA InitInvariant == Init => Invariant
<1> SUFFICES ASSUME Init PROVE Invariant
  OBVIOUS
<1>1. Checking /\ CodeInv /\ OneTerminator
  BY InitChecking, InitCode
<1>2. /\ phase = "parse" /\ size = 0 /\ (\A b \in Block : code[b] = <<>>)
      /\ \A b \in Stmt : allocas[b] = {}
  BY DEF Init, ParserInit, CodegenInit
<1>3. LabelsIdentifyStatements
  BY DEF Init, ParserInit, LabelsIdentifyStatements
<1>4. CompileInv
  BY <1>2 DEF CompileInv, DeclarationsFirst, AllocasInv, TargetsInv, BlocksInv, EntryInv, EvalsInv,
     ResolutionsAgree
<1>5. ElseInv
  BY InitElse
<1> QED BY <1>1, <1>3, <1>4, <1>5 DEF Invariant, Checking, ActivationInv

LEMMA InvariantStep ==
  ASSUME Invariant, [Next]_vars_
  PROVE  Invariant'
<1>1. /\ Generating /\ Checking /\ OneTerminator /\ EntryInv /\ EvalsInv
      /\ LabelsIdentifyStatements
  BY InvariantParts
<1>2. Checking' /\ TreeAndTypes'
  BY <1>1, CheckingStep DEF Checking
<1>3. LabelsIdentifyStatements' /\ CodeInv' /\ OneTerminator'
  BY <1>1, <1>2, LabelsStep, CodeStep DEF Generating
<1>4. DeclarationsFirst' /\ AllocasInv' /\ TargetsInv' /\ BlocksInv'
  BY <1>1, <1>2, DeclarationsFirstStep, AllocasStep, TargetsStep, BlocksStep DEF Generating
<1>5. EntryInv' /\ EvalsInv'
  BY <1>1, <1>2, EntryStep, ResolutionsStep
<1>6. ElseInv'
  BY <1>1, <1>2, ElseStep DEF Checking, Invariant, ActivationInv
<1> QED BY <1>2, <1>3, <1>4, <1>5, <1>6 DEF Invariant, Checking, ActivationInv, CompileInv

(***************************************************************************)
(* The invariant that TLC checks on the small instances holds for every    *)
(* body, every set of names and labels and every bound on the statements.  *)
(***************************************************************************)
THEOREM InvariantHolds == Spec => []Invariant
BY InitInvariant, InvariantStep, PTL DEF Spec

(***************************************************************************)
(* Whatever the body, every block of a compiled function, those behind     *)
(* jumps and of labels nobody branches to included, has a terminator, all  *)
(* branches go to blocks of the function, and every return fits the return *)
(* type (function_definition.cpp:118-134).                                 *)
(***************************************************************************)
THEOREM BlocksGetTerminators == Spec => []BlocksAreComplete
<1>1. Init => BlocksAreComplete
  BY DEF Init, ParserInit, BlocksAreComplete
<1>2. Invariant /\ Invariant' /\ BlocksAreComplete /\ [Next]_vars_ => BlocksAreComplete'
  <2> SUFFICES ASSUME Invariant, Invariant', BlocksAreComplete, [Next]_vars_
               PROVE  BlocksAreComplete'
    OBVIOUS
  <2>1. TreeAndTypes'
    BY DEF Invariant
  <2> QED BY <2>1, InvariantParts, CompleteStep
<1> QED BY <1>1, <1>2, InvariantHolds, PTL DEF Spec

(***************************************************************************)
(* Whatever the body, a function with more than one parameter or with a    *)
(* declaration in the body's own block ends every block in its terminator: *)
(* the allocas that are added later go in front (inline.cpp:60-66).        *)
(***************************************************************************)
THEOREM EarlyAllocasAreSound == Spec => []EarlyAllocasKeepEntryValid
<1>1. Invariant /\ BlocksAreComplete => EarlyAllocasKeepEntryValid
  <2> SUFFICES ASSUME Invariant, BlocksAreComplete, IsMovedEarly, phase = "compiled",
                      NEW b \in created
               PROVE  HasTerminator(b)
    BY DEF EarlyAllocasKeepEntryValid, TerminatorIsLast
  <2>1. TreeAndTypes /\ OneTerminator /\ EntryInv
    BY DEF Invariant, CompileInv
  <2>2. b \in Block /\ code[b] \in Seq(Instr)
    BY <2>1 DEF TreeAndTypes, TypeOK, CodegenTypeOK
  <2>3. PICK i \in 1..Len(code[b]) : IsTerminator(code[b][i])
    <3>1. (TerminatorsOf(b) # {}) = (b \in created)
      BY <2>2 DEF BlocksAreComplete
    <3>2. TerminatorsOf(b) # {}
      BY <3>1
    <3> QED BY <3>2 DEF TerminatorsOf
  <2>4. i = Len(code[b])
    <3>1. Len(code[b]) \in Nat /\ Len(code[b]) \in 1..Len(code[b])
      BY <2>2, <2>3
    <3>2. CASE b = Entry
      <4>1. OnlyLastTerminator(code[b])
        BY <2>1, <3>2 DEF EntryInv
      <4> QED BY <2>3, <3>1, <4>1 DEF OnlyLastTerminator
    <3>3. CASE b # Entry
      BY <2>1, <2>2, <2>3, <3>1, <3>3 DEF OneTerminator
    <3> QED BY <3>2, <3>3
  <2>5. code[b] # <<>>
    BY <2>3
  <2> QED BY <2>3, <2>4, <2>5 DEF HasTerminator
<1> QED BY <1>1, InvariantHolds, BlocksGetTerminators, PTL

(***************************************************************************)
(* Whatever the body, the code of an expression reads the variable the     *)
(* type checker resolved it to, or one that an enclosing block declares    *)
(* behind the expression (block.cpp:36-46).                                *)
(***************************************************************************)
THEOREM ResolutionsAlwaysAgree == Spec => []ResolutionsAgree
<1>1. Invariant => ResolutionsAgree
  BY DEF Invariant, CompileInv, EvalsInv
<1> QED BY <1>1, InvariantHolds, PTL

(***************************************************************************)
(* Whatever the body, a function that the type checker has accepted is     *)
(* compiled to its end: getAlloca finds every identifier and getLabel      *)
(* every label (primary.cpp:45, inline.cpp:23-25).                         *)
(***************************************************************************)
THEOREM AcceptedFunctionsAreCompiled == Spec => AcceptedFunctionsCompile
<1>1. Invariant /\ [Next]_vars_
        => [phase = "compile" => phase' \in {"compile", "compiled"}]_vars_
  <2> SUFFICES ASSUME Invariant, [Next]_vars_, phase = "compile", ~UNCHANGED vars_
               PROVE  phase' \in {"compile", "compiled"}
    OBVIOUS
  <2>1. Generating
    BY InvariantParts
  <2> QED BY <2>1, AfterParsing, CompileSucceeds
<1> QED BY <1>1, InvariantHolds, PTL DEF Spec, AcceptedFunctionsCompile
------------------------------------------------------------------------------
\* The execution of the compiled function.

LEMMA EntryIsCreated ==
  ASSUME Invariant, Invariant', phase = "compiled" => Entry \in created, [Next]_vars_
  PROVE  (phase = "compiled" => Entry \in created)'
<1>1. Generating
  BY InvariantParts
<1>2. CASE phase = "compile" /\ Compile
  <2>1. ASSUME phase' = "compiled" PROVE FinishFunction
    BY <1>2, <2>1 DEF Compile, CompileFunction, CompileScope, CompileCondition, CompileChild,
       LeaveCompiled, CompileDeclaration, CompileExpression, CompileEmpty, CompileJump, Jump,
       Generates, AfterEvaluation
  <2>2. ASSUME FinishFunction PROVE Entry \in created'
    <3>1. phase = "compile" /\ at = Root /\ Resuming /\ created' = created
      BY <2>2 DEF FinishFunction
    <3>2. Called(Root)
      BY <3>1 DEF Resuming, Called
    <3> QED BY <1>1, <3>1, <3>2 DEF Generating, BlocksInv
  <2> QED BY <2>1, <2>2
<1>3. CASE UNCHANGED vars_
  BY <1>3 DEF vars_, parserVars, codegenVars
<1>4. phase \in {"parse", "typecheck", "compile"} \cup Ends
  BY <1>1 DEF Generating, TreeAndTypes, TypeOK, ParserTypeOK, Passes
<1> QED BY <1>1, <1>2, <1>3, <1>4, AfterParsing

\* A terminator is still to come in the block.
StaysIn(b, i) ==
  /\ b \in created /\ i \in Nat
  /\ \E t \in 1..Len(code[b]) : IsTerminator(code[b][t]) /\ i <= t

ExecutionInv ==
  /\ Invariant /\ BlocksAreComplete /\ (phase = "compiled" => Entry \in created)
  /\ pc # Stopped => phase = "compiled" /\ StaysIn(pc.block, pc.index)
                     /\ pc = [block |-> pc.block, index |-> pc.index]

LEMMA StartsIn ==
  ASSUME ExecutionInv, phase = "compiled", NEW b \in created
  PROVE  StaysIn(b, 0)
<1>1. b \in Block
  BY DEF ExecutionInv, Invariant, TreeAndTypes, TypeOK, CodegenTypeOK
<1>2. (TerminatorsOf(b) # {}) = (b \in created)
  BY <1>1 DEF ExecutionInv, BlocksAreComplete
<1>3. TerminatorsOf(b) # {}
  BY <1>2
<1> QED BY <1>3 DEF TerminatorsOf, StaysIn

LEMMA ExecuteStep ==
  ASSUME ExecutionInv, Execute, UNCHANGED vars_
  PROVE  phase = "compiled" /\ StaysIn(pc'.block, pc'.index)
         /\ pc' = [block |-> pc'.block, index |-> pc'.index]
<1>1. CASE Begin
  <2>1. phase = "compiled" /\ pc' = [block |-> Entry, index |-> 0] /\ Entry \in created
    BY <1>1 DEF Begin, GoTo, ExecutionInv
  <2> QED BY <2>1, StartsIn
<1>2. CASE pc # Stopped
  <2>1. PICK b, i : pc = [block |-> b, index |-> i]
    BY <1>2 DEF ExecutionInv
  <2>2. phase = "compiled" /\ StaysIn(b, i) /\ b \in created /\ i \in Nat
    BY <1>2, <2>1 DEF ExecutionInv, StaysIn
  <2>3. PICK t \in 1..Len(code[b]) : IsTerminator(code[b][t]) /\ i <= t
    BY <2>2 DEF StaysIn
  <2>4. b \in Block /\ code[b] \in Seq(Instr)
    BY <2>2 DEF ExecutionInv, Invariant, TreeAndTypes, TypeOK, CodegenTypeOK
  <2>5. CASE StartBlock
    <3>1. pc' = [block |-> b, index |-> 1]
      BY <2>1, <2>5 DEF StartBlock
    <3>2. StaysIn(b, 1)
      BY <2>2, <2>3 DEF StaysIn
    <3> QED BY <2>2, <3>1, <3>2
  <2>6. CASE StepOver
    <3>1. pc' = [block |-> b, index |-> i + 1] /\ code[b][i].op \in {"eval", "alloca", "store"}
      BY <2>1, <2>6 DEF StepOver, Executes, Instruction
    <3>2. ~IsTerminator(code[b][i])
      BY <3>1 DEF IsTerminator, Terminators
    <3>3. i + 1 <= t /\ i + 1 \in Nat
      BY <2>2, <2>3, <3>2
    <3>4. StaysIn(b, i + 1)
      BY <2>2, <2>3, <3>3 DEF StaysIn
    <3> QED BY <2>2, <3>1, <3>4
  <2>7. CASE TakeBranch
    <3>1. PICK k \in 1..Len(code[b][i].to) : pc' = [block |-> code[b][i].to[k], index |-> 0]
      BY <2>1, <2>7 DEF TakeBranch, Instruction, GoTo
    <3>2. i \in 1..Len(code[b])
      <4>1. i > 0
        BY <2>1, <2>7 DEF TakeBranch, Executes
      <4> QED BY <2>2, <2>3, <2>4, <4>1
    <3>3. code[b][i].to[k] \in created
      BY <2>2, <2>4, <3>1, <3>2 DEF ExecutionInv, BlocksAreComplete
    <3>4. StaysIn(code[b][i].to[k], 0)
      BY <2>2, <3>3, StartsIn
    <3> QED BY <2>2, <3>1, <3>4
  <2>8. ~Begin
    BY <1>2 DEF Begin
  <2> QED BY <2>5, <2>6, <2>7, <2>8 DEF Execute
<1> QED BY <1>1, <1>2 DEF Execute, Begin, StartBlock, StepOver, TakeBranch, Executes

\* An execution is one of the pipeline, and keeps to complete blocks.
LEMMA ExecutionInvHolds == ExecutionSpec => []ExecutionInv
<1>1. ExecutionSpec => Spec
  <2>1. ExecutionInit => Init
    BY DEF ExecutionInit
  <2>2. [ExecutionNext]_executionVars => [Next]_vars_
    BY DEF ExecutionNext, executionVars
  <2> QED BY <2>1, <2>2, PTL DEF ExecutionSpec, Spec
<1>2. ExecutionInit => ExecutionInv
  <2> SUFFICES ASSUME ExecutionInit PROVE ExecutionInv
    OBVIOUS
  <2>1. Invariant /\ phase = "parse"
    BY InitInvariant DEF ExecutionInit, Init, ParserInit
  <2> QED BY <2>1 DEF ExecutionInv, ExecutionInit, BlocksAreComplete
<1>3. ExecutionInv /\ Invariant' /\ BlocksAreComplete' /\ [ExecutionNext]_executionVars
        => ExecutionInv'
  <2> SUFFICES ASSUME ExecutionInv, Invariant', BlocksAreComplete',
                      [ExecutionNext]_executionVars
               PROVE  ExecutionInv'
    OBVIOUS
  <2>1. [Next]_vars_
    BY DEF ExecutionNext, executionVars
  <2>2. (phase = "compiled" => Entry \in created)'
    BY <2>1, EntryIsCreated DEF ExecutionInv
  <2>3. (pc # Stopped => phase = "compiled" /\ StaysIn(pc.block, pc.index)
                          /\ pc = [block |-> pc.block, index |-> pc.index])'
    <3>1. CASE UNCHANGED vars_
      <4>0. UNCHANGED <<phase, code, created>>
        BY <3>1 DEF vars_, parserVars, codegenVars
      <4>1. CASE Execute
        <5>1. phase = "compiled" /\ StaysIn(pc'.block, pc'.index)
              /\ pc' = [block |-> pc'.block, index |-> pc'.index]
          BY <3>1, <4>1, ExecuteStep
        <5> QED BY <4>0, <5>1 DEF StaysIn, IsTerminator
      <4>2. CASE UNCHANGED pc
        BY <4>0, <4>2 DEF ExecutionInv, StaysIn, IsTerminator, Stopped
      <4> QED BY <4>1, <4>2 DEF ExecutionNext, executionVars
    <3>2. CASE Next /\ UNCHANGED pc
      <4>1. ASSUME phase = "compiled" PROVE UNCHANGED vars_
        BY <2>1, <4>1, InvariantParts, AfterParsing DEF ExecutionInv, Ends
      <4>2. CASE phase = "compiled"
        BY <3>1, <4>1, <4>2
      <4>3. CASE phase # "compiled"
        BY <3>2, <4>3 DEF ExecutionInv, Stopped
      <4> QED BY <4>2, <4>3
    <3> QED BY <3>1, <3>2 DEF ExecutionNext, executionVars
  <2> QED BY <2>2, <2>3 DEF ExecutionInv
<1> QED BY <1>1, <1>2, <1>3, InvariantHolds, BlocksGetTerminators, PTL DEF ExecutionSpec

(***************************************************************************)
(* Whatever the body, the execution of the compiled function goes from     *)
(* instruction to instruction and from block to block of the function,     *)
(* and never runs off the end of a block (function_definition.cpp:118-134).*)
(***************************************************************************)
THEOREM ExecutionsStayInBlocks == ExecutionSpec => []ExecutionStaysInBlocks
<1>1. ExecutionInv => ExecutionStaysInBlocks
  <2> SUFFICES ASSUME ExecutionInv, pc # Stopped
               PROVE  pc.block \in created /\ pc.index \in 0..Len(code[pc.block])
    BY DEF ExecutionStaysInBlocks
  <2>1. PICK b, i : b = pc.block /\ i = pc.index
    OBVIOUS
  <2>2. b \in created /\ i \in Nat /\ \E t \in 1..Len(code[b]) : i <= t
    BY <2>1 DEF ExecutionInv, StaysIn
  <2>3. code[b] \in Seq(Instr)
    BY <2>2 DEF ExecutionInv, Invariant, TreeAndTypes, TypeOK, CodegenTypeOK
  <2> QED BY <2>1, <2>2, <2>3
<1> QED BY <1>1, ExecutionInvHolds, PTL
------------------------------------------------------------------------------
(***************************************************************************)
(* The definition of First is recursive.  The events that every set of     *)
(* positions closed under the moves contains solve its equation.           *)
(***************************************************************************)
MovesStay == \A x \in Position : ~IsEvent(x) => NextPosition(x) \in Position
ClosedOnward(S) == \A x \in S : ~IsEvent(x) => NextPosition(x) \in S
EventsFrom(x) ==
  {t \in Position : IsEvent(t) /\ \A S \in SUBSET Position : x \in S /\ ClosedOnward(S) => t \in S}

\* Where nothing happens, the events are those of the next position.
LEMMA EventsFromMove ==
  ASSUME NEW x \in Position, ~IsEvent(x), NextPosition(x) \in Position
  PROVE  EventsFrom(x) = EventsFrom(NextPosition(x))
<1>1. ASSUME NEW t \in EventsFrom(x) PROVE t \in EventsFrom(NextPosition(x))
  <2> SUFFICES ASSUME NEW S \in SUBSET Position, NextPosition(x) \in S, ClosedOnward(S)
               PROVE  t \in S
    BY <1>1 DEF EventsFrom
  <2>1. S \cup {x} \in SUBSET Position /\ x \in S \cup {x} /\ ClosedOnward(S \cup {x})
    BY DEF ClosedOnward
  <2>2. t \in S \cup {x} /\ IsEvent(t)
    BY <1>1, <2>1 DEF EventsFrom
  <2> QED BY <2>2
<1>2. ASSUME NEW t \in EventsFrom(NextPosition(x)) PROVE t \in EventsFrom(x)
  <2> SUFFICES ASSUME NEW S \in SUBSET Position, x \in S, ClosedOnward(S)
               PROVE  t \in S
    BY <1>2 DEF EventsFrom
  <2>1. NextPosition(x) \in S
    BY DEF ClosedOnward
  <2> QED BY <1>2, <2>1 DEF EventsFrom
<1> QED BY <1>1, <1>2

\* Where something happens, it is the only event.
LEMMA EventsFromEvent ==
  ASSUME NEW x \in Position, IsEvent(x)
  PROVE  EventsFrom(x) = {x}
<1>1. {x} \in SUBSET Position /\ ClosedOnward({x})
  BY DEF ClosedOnward
<1> QED BY <1>1 DEF EventsFrom

\* So First is what its equation says, however far it has to go, if no move leaves the body.
LEMMA FirstUnfolds ==
  ASSUME MovesStay
  PROVE  \A x \in Position :
           First[x] = IF IsEvent(x) THEN EventAt(x) ELSE First[NextPosition(x)]
<1> DEFINE g == [x \in Position |-> EventAt(CHOOSE t : t \in EventsFrom(x))]
           Solves(h) == h = [x \in Position |->
                              IF IsEvent(x) THEN EventAt(x) ELSE h[NextPosition(x)]]
<1>1. ASSUME NEW x \in Position, IsEvent(x) PROVE g[x] = EventAt(x)
  <2>1. \A t : t \in EventsFrom(x) <=> t = x
    BY <1>1, EventsFromEvent
  <2>2. (CHOOSE t : t \in EventsFrom(x)) = x
    BY <2>1
  <2> QED BY <2>2
<1>2. ASSUME NEW x \in Position, ~IsEvent(x) PROVE g[x] = g[NextPosition(x)]
  <2>1. NextPosition(x) \in Position
    BY <1>2 DEF MovesStay
  <2>2. EventsFrom(x) = EventsFrom(NextPosition(x))
    BY <1>2, <2>1, EventsFromMove
  <2> QED BY <2>1, <2>2
<1>3. Solves(g)
  <2>1. g = [x \in Position |-> g[x]]
    OBVIOUS
  <2> HIDE DEF g
  <2>2. ASSUME NEW x \in Position
        PROVE  g[x] = IF IsEvent(x) THEN EventAt(x) ELSE g[NextPosition(x)]
    BY <1>1, <1>2
  <2> QED BY <2>1, <2>2
<1> HIDE DEF g
<1>4. \E h : Solves(h)
  BY <1>3
<1>5. Solves(First)
  BY <1>4, Zenon DEF First
<1> QED BY <1>5, Zenon

\* First is a matter of the statements.
LEMMA FirstKept ==
  ASSUME UNCHANGED <<ast, size>>
  PROVE  First' = First
BY SMT DEF First, Position, IsEvent, EventAt, NextPosition, FromEntered, FromLeft, Enter, Leave,
   Behind, Smallest, Loop, Innermost, IsInnermost, EnclosingWhiles, Enclosing, KindOf, Parent,
   Labeled, OfKind
------------------------------------------------------------------------------
(***************************************************************************)
(* Substatements.                                                          *)
(***************************************************************************)

\* Statement e joins the children of p, and no others do.
KidsGrow(p, e) ==
  \A m \in 1..size : /\ ast'[m].kind = ast[m].kind /\ ast'[m].parent = ast[m].parent
                     /\ m # p => ast'[m].kids = ast[m].kids
                     /\ m = p => ast'[m].kids = Append(ast[m].kids, e)

\* Which statements have joined their parents, when one more does.
LEMMA JoinedGrown ==
  ASSUME TreeAndTypes, NEW p \in 1..size, NEW e \in Stmt, KidsGrow(p, e)
  PROVE  /\ \A m \in 2..size : Joined(m)' <=> Joined(m) \/ (m = e /\ Parent(m) = p)
         /\ (ast'[e].parent = p => Joined(e)')
<1>1. /\ Len(Kids(p)) \in Nat /\ Len(ast'[p].kids) = Len(Kids(p)) + 1
      /\ ast'[p].kids[Len(Kids(p)) + 1] = e
      /\ \A i \in 1..Len(Kids(p)) : ast'[p].kids[i] = Kids(p)[i]
  <2>1. ast'[p].kids = Append(Kids(p), e)
    BY DEF KidsGrow, Kids
  <2>2. Kids(p) \in Seq(Stmt)
    BY Basics
  <2> QED BY <2>1, <2>2, KidsAppended
<1>2. IsKid(e, p)'
  <2>1. Len(Kids(p)) + 1 \in 1..Len(ast'[p].kids)
    BY <1>1
  <2> QED BY <1>1, <2>1 DEF IsKid, Kids
<1>3. ASSUME NEW m \in 2..size PROVE Joined(m)' <=> Joined(m) \/ (m = e /\ Parent(m) = p)
  <2>1. PICK q \in 1..size : q = Parent(m)
    BY Basics
  <2>2. Parent(m)' = q /\ m \in 1..size
    BY <2>1, Basics DEF KidsGrow, Parent
  <2>3. CASE q = p
    <3>1. ASSUME IsKid(m, p) PROVE IsKid(m, p)'
      <4>1. PICK i \in 1..Len(Kids(p)) : Kids(p)[i] = m
        BY <3>1 DEF IsKid
      <4>2. i \in 1..Len(ast'[p].kids) /\ ast'[p].kids[i] = m
        BY <1>1, <4>1
      <4> QED BY <4>2 DEF IsKid, Kids
    <3>2. ASSUME IsKid(m, p)' PROVE IsKid(m, p) \/ m = e
      <4>1. PICK i \in 1..Len(ast'[p].kids) : ast'[p].kids[i] = m
        BY <3>2 DEF IsKid, Kids
      <4>2. m = e \/ (i \in 1..Len(Kids(p)) /\ Kids(p)[i] = m)
        BY <1>1, <4>1
      <4> QED BY <4>2 DEF IsKid
    <3> QED BY <1>2, <2>1, <2>2, <2>3, <3>1, <3>2 DEF Joined
  <2>4. CASE q # p
    <3>1. IsKid(m, q)' <=> IsKid(m, q)
      BY <2>4 DEF IsKid, Kids, KidsGrow
    <3> QED BY <2>1, <2>2, <2>4, <3>1 DEF Joined
  <2> QED BY <2>3, <2>4
<1>4. ast'[e].parent = p => Joined(e)'
  BY <1>2 DEF Joined, Parent
<1> QED BY <1>3, <1>4

\* A statement is opened: it has no children and has not joined its parent.
LEMMA KidsOpened ==
  ASSUME TreeAndTypes, OpenInv, KidsInv,
         NEW k \in Kind, NEW x \in HeadNames(k), OpenStatement(k, x)
  PROVE  KidsInv'
<1>0. PICK n \in Int : n = size + 1
  BY Basics
<1>1. /\ phase = "parse" /\ phase' = "parse" /\ ReadsStatement
      /\ at \in 1..size /\ size' = n /\ n = size + 1 /\ size \in Nat
      /\ ast'[n].kind = k /\ ast'[n].kids = <<>> /\ ast'[n].parent = at
  BY <1>0, OpenedTree, Basics
<1>2. \A m \in 1..size : /\ ast'[m].kind = ast[m].kind /\ ast'[m].kids = ast[m].kids
                         /\ ast'[m].parent = ast[m].parent
  BY OpenedTree
<1>3. \A m \in 2..size : Parent(m) \in 1..size /\ m \in 1..size
  BY Basics
<1>4. \A m \in 2..size : Joined(m)' <=> Joined(m)
  <2> SUFFICES ASSUME NEW m \in 2..size PROVE Joined(m)' <=> Joined(m)
    OBVIOUS
  <2>1. PICK p \in 1..size : p = Parent(m)
    BY <1>3
  <2>2. Parent(m)' = p /\ Kids(p)' = Kids(p)
    BY <1>2, <1>3, <2>1 DEF Parent, Kids
  <2>3. IsKid(m, p)' <=> IsKid(m, p)
    BY <2>2 DEF IsKid
  <2> QED BY <2>1, <2>2, <2>3 DEF Joined
<1>5. ~Joined(n)'
  <2>1. PICK a \in 1..size : a = at
    BY <1>1
  <2>2. Parent(n)' = a /\ Kids(a)' = Kids(a)
    BY <1>1, <1>2, <2>1 DEF Parent, Kids
  <2>3. \A i \in 1..Len(Kids(a)) : Kids(a)[i] \in 2..size
    BY Basics
  <2>4. ~IsKid(n, a)'
    BY <1>1, <2>2, <2>3 DEF IsKid
  <2> QED BY <2>2, <2>4 DEF Joined
<1>6. \A m \in 2..n : m = n \/ m \in 2..size
  BY <1>1
<1>7. ASSUME NEW m \in 2..n, Joined(m)', ast'[m].kind \in BranchKind PROVE ast'[m].kids # <<>>
  BY <1>2, <1>3, <1>4, <1>5, <1>6, <1>7 DEF KidsInv, KindOf, Kids
<1>8. ASSUME NEW m \in 1..n, ast'[m].kind \in {"while", "labeled"} PROVE Len(ast'[m].kids) <= 1
  <2>1. CASE m = n
    BY <1>1, <2>1
  <2>2. CASE m # n
    <3>1. m \in 1..size
      BY <1>1, <2>2
    <3> QED BY <1>2, <1>8, <3>1 DEF KidsInv, KindOf, Kids
  <2> QED BY <2>1, <2>2
<1>9. ASSUME NEW m \in 2..n, ~Joined(m)', ast'[ast'[m].parent].kind \in {"while", "labeled"}
      PROVE  ast'[ast'[m].parent].kids = <<>>
  <2>1. CASE m = n
    <3>1. ast[at].kind \in {"while", "labeled"} /\ ast'[at].kids = ast[at].kids
      BY <1>1, <1>2, <1>9, <2>1
    <3> QED BY <1>1, <2>1, <3>1 DEF ReadsStatement, KindOf, Kids
  <2>2. CASE m \in 2..size
    <3>1. PICK p \in 1..size : p = Parent(m)
      BY <1>3, <2>2
    <3>2. ast'[m].parent = p
      BY <1>2, <1>3, <2>2, <3>1 DEF Parent
    <3> QED BY <1>1, <1>2, <1>4, <1>9, <2>2, <3>1, <3>2 DEF KidsInv, KindOf, Kids
  <2> QED BY <1>6, <2>1, <2>2
<1> QED BY <1>1, <1>7, <1>8, <1>9 DEF KidsInv, KindOf, Kids, Parent

\* What a statement that joins its parent must be for KidsInv to stay true.
LEMMA KidsGrown ==
  ASSUME TreeAndTypes, KidsInv, phase = "parse", phase' = "parse",
         NEW p \in 1..size, NEW e \in Stmt, KidsGrow(p, e),
         size' \in Nat, size <= size', \A m \in 1..size' : m \in 1..size \/ m = e,
         e \in 2..size', ast'[e].parent = p,
         KindOf(p) \in {"while", "labeled"} =>
           Kids(p) = <<>> /\ \A m \in 2..size : Parent(m) = p /\ ~Joined(m) => m = e,
         ast'[e].kind \in BranchKind => ast'[e].kids # <<>>,
         e \notin 1..size => Len(ast'[e].kids) = 0
  PROVE  KidsInv'
<1>0. size \in Nat /\ size' \in Nat
  BY Basics
<1>1. \A m \in 2..size : Joined(m)' <=> Joined(m) \/ (m = e /\ Parent(m) = p)
  BY JoinedGrown
<1>2. Joined(e)'
  BY JoinedGrown
<1>3. /\ Len(Kids(p)) \in Nat /\ Len(ast'[p].kids) = Len(Kids(p)) + 1
  <2>1. ast'[p].kids = Append(Kids(p), e) /\ Kids(p) \in Seq(Stmt)
    BY Basics DEF KidsGrow, Kids
  <2> QED BY <2>1, KidsAppended
<1>4. \A m \in 1..size : /\ ast'[m].kind = ast[m].kind /\ ast'[m].parent = ast[m].parent
                         /\ m # p => ast'[m].kids = ast[m].kids
  BY DEF KidsGrow
<1>5. \A m \in 2..size : Parent(m) \in 1..size /\ m \in 1..size
  BY Basics
<1>6. \A m \in 2..size' : m = e \/ m \in 2..size
  BY <1>0
<1>7. ASSUME NEW m \in 2..size', Joined(m)', ast'[m].kind \in BranchKind
      PROVE  ast'[m].kids # <<>>
  <2>1. CASE m = e
    BY <1>7, <2>1
  <2>2. CASE m # e /\ m = p
    BY <1>3, <2>2
  <2>3. CASE m # e /\ m # p
    <3>1. m \in 2..size
      BY <1>6, <2>3
    <3> QED BY <1>1, <1>4, <1>5, <1>7, <2>3, <3>1 DEF KidsInv, KindOf, Kids
  <2> QED BY <2>1, <2>2, <2>3
<1>8. ASSUME NEW m \in 1..size', ast'[m].kind \in {"while", "labeled"}
      PROVE  Len(ast'[m].kids) <= 1
  <2>1. CASE m \notin 1..size
    BY <2>1
  <2>2. CASE m \in 1..size /\ m = p
    <3>1. Kids(p) = <<>>
      BY <1>4, <1>8, <2>2 DEF KindOf
    <3>2. Len(Kids(p)) = 0
      BY <3>1
    <3>3. Len(ast'[p].kids) = 1
      BY <1>3, <3>2
    <3>4. m = p
      BY <2>2
    <3>5. Len(ast'[p].kids) <= 1
      BY <3>3
    <3> QED BY <3>4, <3>5
  <2>3. CASE m \in 1..size /\ m # p
    BY <1>4, <1>8, <2>3 DEF KidsInv, KindOf, Kids
  <2> QED BY <2>1, <2>2, <2>3
<1>9. ASSUME NEW m \in 2..size', ~Joined(m)', ast'[ast'[m].parent].kind \in {"while", "labeled"}
      PROVE  ast'[ast'[m].parent].kids = <<>>
  <2>1. m # e /\ m \in 2..size
    BY <1>2, <1>6, <1>9
  <2>2. PICK q \in 1..size : q = Parent(m)
    BY <1>5, <2>1
  <2>3. ast'[m].parent = q /\ ~Joined(m)
    BY <1>1, <1>4, <1>5, <1>9, <2>1, <2>2 DEF Parent
  <2>4. q # p
    BY <1>4, <1>9, <2>1, <2>2, <2>3 DEF KindOf
  <2> QED BY <1>4, <1>9, <2>1, <2>2, <2>3, <2>4 DEF KidsInv, KindOf, Kids
<1> QED BY <1>7, <1>8, <1>9 DEF KidsInv, KindOf, Kids, Parent

\* A statement without children joins its parent.
LEMMA KidsLeaf ==
  ASSUME TreeAndTypes, OpenInv, KidsInv,
         NEW k \in Kind, NEW x \in HeadNames(k), LeafStatement(k, x)
  PROVE  KidsInv'
<1>0. PICK n \in Int : n = size + 1
  BY Basics
<1>1. /\ phase = "parse" /\ phase' = "parse" /\ ReadsStatement /\ k \in LeafKind
      /\ at \in 1..size /\ size' = n /\ n \in Stmt /\ n = size + 1 /\ size \in Nat
      /\ ast'[n].kind = k /\ ast'[n].kids = <<>> /\ ast'[n].parent = at /\ KeepsOthers(at)
      /\ ast'[at].kids = Append(ast[at].kids, n)
  BY <1>0, LeafTree, Basics
<1>2. PICK p \in 1..size : p = at
  BY <1>1
<1>3. KidsGrow(p, n)
  BY <1>1, <1>2 DEF KeepsOthers, KidsGrow
<1>4. KindOf(p) \in {"while", "labeled"} => Kids(p) = <<>>
  BY <1>1, <1>2 DEF ReadsStatement
<1>5. \A m \in 2..size : Parent(m) = p /\ ~Joined(m) => m = n
  <2>1. \A m \in 2..size : Parent(m) = p => m > at
    BY <1>2, Basics
  <2> QED BY <1>1, <2>1 DEF OpenInv
<1>6. ast'[n].kind \notin BranchKind /\ Len(ast'[n].kids) = 0
  BY <1>1 DEF LeafKind, BranchKind
<1>7. /\ size' \in Nat /\ size <= size' /\ (\A m \in 1..size' : m \in 1..size \/ m = n)
      /\ n \in 2..size'
  BY <1>1
<1> QED BY <1>1, <1>2, <1>3, <1>4, <1>5, <1>6, <1>7, KidsGrown

\* The open statement has its children and joins its parent.
LEMMA KidsFinished ==
  ASSUME TreeAndTypes, OpenInv, KidsInv, FinishStatement
  PROVE  KidsInv'
<1>0. PICK a \in 2..size : a = at
  BY FinishedTree
<1>1. PICK p \in 1..size : p = Parent(a)
  BY Basics
<1>2. /\ phase = "parse" /\ phase' = "parse" /\ size' = size /\ size \in Nat
      /\ p < a /\ a \in Stmt /\ a \in 1..size /\ KeepsOthers(p)
      /\ ast'[p].kids = Append(ast[p].kids, a) /\ ast'[a].parent = p
      /\ ast'[a].kids = ast[a].kids /\ ast'[a].kind = ast[a].kind
  <2>1. /\ phase = "parse" /\ phase' = "parse" /\ size' = size /\ size \in Nat
        /\ p < a /\ a \in Stmt /\ a \in 1..size /\ KeepsOthers(p)
        /\ ast'[p].kids = Append(ast[p].kids, a)
    BY <1>0, <1>1, FinishedTree, Basics
  <2> QED BY <1>1, <2>1 DEF KeepsOthers, Parent
<1>3. KidsGrow(p, a)
  BY <1>2 DEF KeepsOthers, KidsGrow
<1>4. ~Joined(a)
  BY <1>0, <1>2 DEF OpenInv, None, Root
<1>5. KindOf(p) \in {"while", "labeled"} => Kids(p) = <<>>
  BY <1>1, <1>2, <1>4 DEF KidsInv
<1>6. ASSUME Kids(p) = <<>>, NEW m \in 2..size, Parent(m) = p PROVE m = a
  BY <1>0, <1>1, <1>2, <1>6, OnlyOpenChild
<1>7. ast'[a].kind \in BranchKind => ast'[a].kids # <<>>
  BY <1>0, <1>2 DEF FinishStatement, Complete, KindOf, Kids, BranchKind
<1> QED BY <1>0, <1>2, <1>3, <1>5, <1>6, <1>7, KidsGrown

\* A step that leaves the tree alone keeps the numbers of children.
LEMMA KidsKept ==
  ASSUME KidsInv, UNCHANGED <<ast, size>>, phase' = "parse" => phase = "parse"
  PROVE  KidsInv'
<1>1. \A n : Parent(n)' = Parent(n) /\ Kids(n)' = Kids(n) /\ KindOf(n)' = KindOf(n)
  BY DEF Parent, Kids, KindOf
<1>2. \A n : Joined(n)' <=> Joined(n)
  BY DEF Joined, IsKid, Kids, Parent
<1> QED BY <1>1, <1>2 DEF KidsInv

\* Every step keeps the numbers of children.
LEMMA KidsStep ==
  ASSUME TreeAndTypes, OpenInv, KidsInv, [Next]_vars_
  PROVE  KidsInv'
<1>1. CASE StartBody
  <2>1. size' = 1 /\ ast'[1].kind = "block"
    <3>1. ast \in [Stmt -> Statement] /\ 1 \in Stmt
      BY Basics, AstAssumption DEF Stmt
    <3> QED BY <1>1, <3>1 DEF StartBody, NewStatement, Root
  <2> QED BY <2>1 DEF KidsInv, KindOf
<1>2. CASE \E k \in SourceKinds : \E x \in HeadNames(k) :
             OpenStatement(k, x) \/ LeafStatement(k, x) \/ RefuseStatement(k, x)
  <2>1. PICK k \in SourceKinds : \E x \in HeadNames(k) :
          OpenStatement(k, x) \/ LeafStatement(k, x) \/ RefuseStatement(k, x)
    BY <1>2
  <2>2. PICK x \in HeadNames(k) :
          OpenStatement(k, x) \/ LeafStatement(k, x) \/ RefuseStatement(k, x)
    BY <2>1
  <2>3. k \in Kind
    BY AstAssumption
  <2>4. CASE RefuseStatement(k, x)
    BY <2>4, KidsKept DEF RefuseStatement, Reject
  <2> QED BY <2>2, <2>3, <2>4, KidsOpened, KidsLeaf
<1>3. CASE SyntaxError
  BY <1>3, KidsKept DEF SyntaxError, Reject
<1>4. CASE FinishStatement
  BY <1>4, KidsFinished
<1>5. CASE FinishBody
  BY <1>5, KidsKept DEF FinishBody
<1>6. CASE Typecheck
  BY <1>6, KidsKept DEF Typecheck, Checks, CheckBlock, CheckCondition, CheckLabeled, CheckChild,
       LeaveChecked, CheckDeclaration, CheckExpression, CheckJump, RejectStatement,
       FinishTypecheck, CheckedLeaf, Reject
<1>7. CASE Compile
  BY <1>7, KidsKept DEF Compile, Generates, CompileFunction, CompileScope, CompileCondition,
       CompileChild, LeaveCompiled, CompileDeclaration, CompileExpression, CompileEmpty,
       CompileJump, Jump, FinishFunction, AfterEvaluation
<1>8. CASE UNCHANGED vars_
  BY <1>8, KidsKept DEF vars_, parserVars
<1> QED BY <1>1, <1>2, <1>3, <1>4, <1>5, <1>6, <1>7, <1>8 DEF Next, Parse
------------------------------------------------------------------------------
\* The order of siblings.

\* The siblings in front of the child that is called have returned.
LEMMA SiblingCalled ==
  ASSUME TreeAndTypes, ShapeInv, PathInv, phase = "compile", at # None, Calls, CompileChild,
         NEW m \in 2..size, NEW n \in 2..size, m < n, Parent(m) = Parent(n), ~IsDecl(m), ~IsDecl(n),
         n = at'
  PROVE  status[m] = "returned"
<1>0. PICK a \in 1..size : a = at
  BY Basics DEF None
<1>1. PICK i \in 1..Len(Kids(a)) :
        /\ \A j \in 1..Len(Kids(a)) : CompiledBefore(Kids(a)[j], Kids(a)[i]) => Called(Kids(a)[j])
        /\ n = Kids(a)[i]
  BY <1>0 DEF CompileChild
<1>2. Parent(n) = a /\ m \in 1..size /\ a < m
  BY <1>0, <1>1, Basics, Ranges
<1>3. PICK j \in 1..Len(Kids(a)) : Kids(a)[j] = m
  BY <1>2 DEF ShapeInv, Walks, Joined, IsKid
<1>4. Called(m)
  BY <1>1, <1>3 DEF CompiledBefore, IsDecl
<1>5. ~IsRunning(m)
  BY <1>0, <1>2, Basics DEF PathInv, Walks
<1>6. status[m] \in Statuses
  BY <1>2, Ranges
<1> QED BY <1>4, <1>5, <1>6 DEF Called, IsRunning, Statuses

\* Every step keeps the siblings in order.
LEMMA SiblingsStep ==
  ASSUME TreeAndTypes, TreeAndTypes', ShapeInv, PathInv, SiblingsInOrder, [Next]_vars_
  PROVE  SiblingsInOrder'
<1>1. SUFFICES ASSUME phase' = "compile", NEW m \in 2..size', NEW n \in 2..size', m < n,
                      (Parent(m) = Parent(n) /\ ~IsDecl(m) /\ ~IsDecl(n))',
                      Called(n)' \/ n = at'
               PROVE  status'[m] = "returned"
  BY DEF SiblingsInOrder
<1>2. CASE phase \in {"parse", "typecheck"} /\ FinishTypecheck
  <2>1. at' = 1 /\ size' = size /\ \A k \in 1..size : status'[k] = "uncalled"
    BY <1>1, <1>2, StartsCompiling DEF vars_, parserVars, FinishTypecheck, AllUncalled, Root
  <2> QED BY <1>1, <2>1, Ranges DEF Called
<1>3. CASE phase = "compile" /\ Compile
  <2>1. at # None /\ UNCHANGED <<ast, size>> /\ (Enters \/ (Calls /\ CompileChild) \/ Leaves)
    BY <1>1, <1>3, CompileKinds
  <2>2. PICK a \in 1..size : a = at
    BY <2>1, Basics DEF None
  <2>3. /\ m \in 2..size /\ n \in 2..size /\ m \in 1..size /\ n \in 1..size
        /\ Parent(m) = Parent(n) /\ ~IsDecl(m) /\ ~IsDecl(n)
    BY <1>1, <2>1, Ranges DEF Parent, IsDecl, KindOf
  <2>4. Called(n) \/ n = at => status[m] = "returned"
    BY <1>1, <1>3, <2>3 DEF SiblingsInOrder
  <2>5. CASE Enters
    <3>1. status' = [status EXCEPT ![a] = "running"] /\ at' = a /\ status[a] = "uncalled"
      BY <2>2, <2>5 DEF Enters, Run, Entering
    <3>2. status'[a] = "running" /\ \A k \in 1..size : k # a => status'[k] = status[k]
      BY <2>2, <3>1, StatusAfter
    <3>3. Called(n) \/ n = at
      BY <1>1, <2>2, <2>3, <3>1, <3>2 DEF Called
    <3>4. m # a
      BY <2>4, <3>1, <3>3
    <3> QED BY <2>3, <2>4, <3>2, <3>3, <3>4
  <2>6. CASE Leaves
    <3>1. status' = [status EXCEPT ![a] = "returned"] /\ at' = Parent(a) /\ at \notin {None, Root}
      BY <2>2, <2>6 DEF Leaves, Return
    <3>2. status'[a] = "returned" /\ \A k \in 1..size : k # a => status'[k] = status[k]
      BY <2>2, <3>1, StatusAfter
    <3>3. Called(Parent(a))
      BY <1>3, <2>2, <3>1, LargestRunning DEF Walks
    <3>4. Called(n) \/ n = at
      BY <1>1, <2>2, <2>3, <3>1, <3>2, <3>3 DEF Called
    <3> QED BY <2>3, <2>4, <3>2, <3>4
  <2>7. CASE Calls /\ CompileChild
    <3>1. status' = status
      BY <2>7 DEF Calls
    <3>2. CASE n = at'
      <4>1. status[m] = "returned"
        BY <1>1, <1>3, <2>1, <2>3, <2>7, <3>2, SiblingCalled
      <4> QED BY <3>1, <4>1
    <3>3. CASE n # at'
      BY <1>1, <2>4, <3>1, <3>3 DEF Called
    <3> QED BY <3>2, <3>3
  <2> QED BY <2>1, <2>5, <2>6, <2>7
<1>4. CASE phase = "compile" /\ UNCHANGED vars_
  <2>1. UNCHANGED <<ast, size, status, at>>
    BY <1>4 DEF vars_, parserVars
  <2>2. Parent(m) = Parent(n) /\ ~IsDecl(m) /\ ~IsDecl(n) /\ (Called(n) \/ n = at)
    BY <1>1, <2>1 DEF Parent, IsDecl, KindOf, Called
  <2>3. m \in 2..size /\ n \in 2..size
    BY <1>1, <2>1
  <2>4. status[m] = "returned"
    BY <1>1, <1>4, <2>2, <2>3 DEF SiblingsInOrder
  <2> QED BY <2>1, <2>4
<1> QED BY <1>1, <1>2, <1>3, <1>4, CompilePhase
------------------------------------------------------------------------------
\* The targets of break and continue.

\* A while statement is the innermost of the loops its handler sets targets for.
LEMMA OwnLoop ==
  ASSUME TreeAndTypes, NEW a \in 2..size, KindOf(a) = "while"
  PROVE  Innermost(LoopsAround(a)) = a
<1>1. LoopsAround(a) \subseteq 1..a /\ a \in LoopsAround(a) /\ a \in 1..size
  <2>1. a \in 1..size /\ a \in Stmt
    BY Ranges
  <2>2. Enclosing[a] \subseteq 1..a /\ a \in Enclosing[a]
    BY <2>1, EnclosingRange
  <2> QED BY <2>1, <2>2 DEF LoopsAround
<1>2. IsInnermost(a, LoopsAround(a)) /\ LoopsAround(a) \subseteq Int
  BY <1>1 DEF IsInnermost
<1> QED BY <1>2, InnermostIs

\* Every step keeps the targets of the running handlers.
LEMMA LoopTargetsStep ==
  ASSUME TreeAndTypes, TreeAndTypes', PathInv, LoopTargetsInv, [Next]_vars_
  PROVE  LoopTargetsInv'
<1> DEFINE Good(n) == LoopsAround(n) # {} => targets[n] = TargetsOf(Innermost(LoopsAround(n)))
<1>1. SUFFICES ASSUME phase' = "compile", NEW n \in 1..size', IsRunning(n)'
               PROVE  Good(n)'
  BY DEF LoopTargetsInv
<1>2. phase = "compile" => \A m \in 1..size : IsRunning(m) => Good(m)
  BY DEF LoopTargetsInv
<1>3. CASE phase \in {"parse", "typecheck"} /\ FinishTypecheck
  <2>1. n \in Stmt /\ status' = AllUncalled
    BY <1>3, Ranges DEF FinishTypecheck
  <2> QED BY <1>1, <2>1 DEF IsRunning, AllUncalled
<1>4. CASE phase = "compile" /\ CompileFunction
  <2>1. n = 1 /\ 1 \in Stmt /\ at = 1
    BY <1>1, <1>4, FunctionStarts, Ranges DEF IsRunning
  <2>2. LoopsAround(1)' = {}
    <3>1. LoopsAround(1)' = LoopsAround(1)
      BY <1>4, FunctionStarts, LoopsKept
    <3>2. size > 0
      BY <1>4, FunctionStarts, Ranges
    <3> QED BY <3>1, <3>2, NoLoopsAroundRoot DEF Root
  <2> QED BY <2>1, <2>2
<1>5. CASE phase = "compile" /\ Compile /\ ~CompileFunction
  <2>1. at # None /\ UNCHANGED <<ast, size>> /\ (Enters \/ Calls \/ Leaves)
    BY <1>1, <1>5, CompileKinds
  <2>2. PICK a \in 1..size : a = at
    BY <2>1, Basics DEF None
  <2>3. n \in 1..size /\ LoopsAround(n)' = LoopsAround(n)
    BY <1>1, <1>5, <2>1, LoopsKept
  <2>4. CASE n # a \/ ~Enters
    <3>1. IsRunning(n)
      <4>1. status' = [status EXCEPT ![a] = IF Enters THEN "running" ELSE "returned"]
            \/ status' = status
        BY <2>2, <2>1 DEF Enters, Calls, Leaves, Run, Return
      <4>2. status \in [Stmt -> Statuses] /\ n \in Stmt /\ a \in Stmt
        BY <2>2, <2>3, Ranges DEF TreeAndTypes, TypeOK, ParserTypeOK
      <4> QED BY <1>1, <2>4, <4>1, <4>2 DEF IsRunning
    <3>2. targets'[n] = targets[n]
      <4>1. targets' = targets \/ (\E t : targets' = [targets EXCEPT ![a] = t] /\ Enters)
        BY <1>1, <1>5, <2>2, TargetsEffects
      <4>2. DOMAIN targets = Stmt
        BY DEF TreeAndTypes, TypeOK, CodegenTypeOK
      <4> QED BY <2>3, <2>4, <4>1, <4>2, Ranges
    <3> QED BY <1>2, <1>5, <2>3, <3>1, <3>2
  <2>5. CASE n = a /\ Enters
    <3>1. /\ a # Root
          /\ targets' = [targets EXCEPT ![a] =
                           IF KindOf(a) = "while" THEN LoopTargets ELSE Inherited]
      <4>1. ~Calls
        BY <2>5 DEF Enters, Calls, Entering, Resuming
      <4>2. ~Leaves
        BY <2>5 DEF Enters, Leaves, Entering, Resuming
      <4> QED BY <1>1, <1>5, <2>2, <4>1, <4>2, TargetsEffects
    <3>2. targets'[a] = IF KindOf(a) = "while" THEN LoopTargets ELSE Inherited
      BY <2>2, <3>1, Ranges DEF TreeAndTypes, TypeOK, CodegenTypeOK
    <3>3. a \in 2..size
      BY <3>1, Ranges DEF Root
    <3>4. CASE KindOf(a) = "while"
      <4>1. targets'[a] = TargetsOf(a)
        BY <2>2, <3>2, <3>4 DEF LoopTargets, TargetsOf
      <4> QED BY <2>3, <2>5, <3>3, <3>4, <4>1, OwnLoop
    <3>5. CASE KindOf(a) # "while"
      <4>1. PICK p \in 1..size : p = Parent(a) /\ IsRunning(p)
        BY <1>5, <2>2, <3>1, <3>3, Ranges DEF PathInv, Walks
      <4>2. targets'[a] = targets[p]
        BY <2>2, <3>1, <3>2, <3>5, <4>1 DEF Inherited
      <4>3. LoopsAround(a) = LoopsAround(p)
        BY <3>3, <3>5, <4>1, LoopsAroundParent
      <4> QED BY <1>2, <1>5, <2>3, <2>5, <4>1, <4>2, <4>3
    <3> QED BY <3>4, <3>5
  <2> QED BY <2>4, <2>5
<1>6. CASE phase = "compile" /\ UNCHANGED vars_
  <2>1. UNCHANGED <<ast, size, status, targets>>
    BY <1>6 DEF vars_, parserVars, codegenVars
  <2>2. LoopsAround(n)' = LoopsAround(n)
    BY <2>1, LoopsKept
  <2> QED BY <1>1, <1>2, <1>6, <2>1, <2>2 DEF IsRunning
<1> QED BY <1>1, <1>3, <1>4, <1>5, <1>6, CompilePhase
------------------------------------------------------------------------------
\* The blocks of labels.

\* The blocks that a step creates.
LEMMA CreatedEffects ==
  ASSUME Compile
  PROVE  \/ CompileFunction /\ created' = {Entry} \cup {LabelBlock(l) : l \in labels}
         \/ created' = created
         \/ created' = created \cup {<<"dead", at>>}
         \/ created' = created \cup BranchBlocks
BY DEF Compile, CompileFunction, CompileScope, CompileCondition, CompileChild, LeaveCompiled,
   CompileDeclaration, CompileExpression, CompileEmpty, CompileJump, Jump, FinishFunction,
   codegenVars

\* No step creates the block of a label the function does not have.
LEMMA LabelBlocksStep ==
  ASSUME TreeAndTypes, LabelBlocksInv, [Next]_vars_
  PROVE  LabelBlocksInv'
<1>1. CASE Compile
  <2>1. phase = "compile" /\ phase' \in {"compile"} \cup Ends
    BY <1>1, CompileKinds
  <2>2. labels' = labels
    BY <1>1 DEF Compile, CompileFunction, CompileScope, CompileCondition, CompileChild,
       LeaveCompiled, CompileDeclaration, CompileExpression, CompileEmpty, CompileJump, Jump,
       FinishFunction
  <2>3. ASSUME NEW l \in Label, LabelBlock(l) \in created' PROVE l \in labels
    <3>1. LabelBlock(l) = <<"label", l>> /\ Entry = <<"entry", 1>>
      BY DEF LabelBlock, Entry, Root
    <3>2. CASE created' = {Entry} \cup {LabelBlock(k) : k \in labels}
      BY <2>3, <3>1, <3>2 DEF LabelBlock
    <3>3. CASE created' = created \cup {<<"dead", at>>}
      BY <2>1, <2>3, <3>1, <3>3 DEF LabelBlocksInv
    <3>4. CASE created' = created \cup BranchBlocks
      <4>1. LabelBlock(l) \notin BranchBlocks
        BY <3>1 DEF BranchBlocks, FirstRole, FalseRole
      <4> QED BY <2>1, <2>3, <3>4, <4>1 DEF LabelBlocksInv
    <3>5. CASE created' = created
      BY <2>1, <2>3, <3>5 DEF LabelBlocksInv
    <3> QED BY <1>1, <3>2, <3>3, <3>4, <3>5, CreatedEffects
  <2> QED BY <2>1, <2>2, <2>3 DEF LabelBlocksInv, Ends
<1>2. CASE Parse /\ UNCHANGED codegenVars
  <2>1. phase = "parse" /\ phase' \in {"parse", "typecheck", "rejected"} /\ created' = created
    BY <1>2 DEF Parse, StartBody, OpenStatement, LeafStatement, RefuseStatement, SyntaxError,
       FinishStatement, FinishBody, ReadsStatement, Reject, codegenVars
  <2> QED BY <2>1 DEF LabelBlocksInv
<1>3. CASE Typecheck /\ UNCHANGED codegenVars
  <2>1. phase = "typecheck" /\ phase' \in {"typecheck", "compile", "rejected"} /\ created' = created
    BY <1>3, CheckKinds DEF codegenVars
  <2> QED BY <2>1 DEF LabelBlocksInv
<1>4. CASE UNCHANGED vars_
  BY <1>4 DEF LabelBlocksInv, vars_, parserVars, codegenVars
<1> QED BY <1>1, <1>2, <1>3, <1>4 DEF Next
------------------------------------------------------------------------------
\* What the source expects is a matter of the statements, which stay.

\* Start, Inside, Shown, After and FitsSource do not look at the code.
LEMMA SourceKept ==
  ASSUME UNCHANGED <<ast, size>>
  PROVE  /\ \A b : Start(b)' = Start(b) /\ Inside(b)' = Inside(b)
         /\ \A i : Shown(i)' = Shown(i) /\ After(i)' = After(i)
         /\ \A i : FitsSource(i)' <=> FitsSource(i)
<1>1. First' = First
  BY FirstKept
<1>2. \A n : Kids(n)' = Kids(n) /\ KindOf(n)' = KindOf(n) /\ Labeled(n)' = Labeled(n)
  BY SMT DEF Kids, KindOf, Labeled, OfKind
<1>3. \A b : Start(b)' = Start(b)
  BY <1>1, <1>2 DEF Start, PositionOf, Enter, Leave
<1>4. \A b : Inside(b)' = Inside(b)
  BY <1>1, <1>2, <1>3 DEF Inside, Enter
<1>5. \A i : Shown(i)' = Shown(i) /\ After(i)' = After(i)
  BY <1>1, <1>2, <1>3 DEF Shown, After, Enter, Leave
<1>6. \A i : FitsSource(i)' <=> FitsSource(i)
  BY <1>1, <1>2, <1>3 DEF FitsSource, FalseSide, Enter, Leave
<1> QED BY <1>3, <1>4, <1>5, <1>6

\* An unchanged flow is that of the next state.
LEMMA FlowsNext ==
  ASSUME UNCHANGED <<ast, size>>, NEW b \in Block, NEW s, s = code'[b]
  PROVE  /\ Flows(s, Inside(b)) => Flows(code[b], Inside(b))'
         /\ (\A i \in 1..Len(s) : FitsSource(s[i])) => (\A i \in 1..Len(code[b]) : FitsSource(code[b][i]))'
<1>1. \A i : Shown(i)' = Shown(i) /\ After(i)' = After(i)
  BY SourceKept
<1>2. Inside(b)' = Inside(b)
  BY SourceKept
<1>3. Flows(s, Inside(b)) => Flows(code[b], Inside(b))'
  BY <1>1, <1>2 DEF Flows, Expected
<1>4. \A i : FitsSource(i)' <=> FitsSource(i)
  BY SourceKept
<1> QED BY <1>3, <1>4

\* So is what the builder is expected to go on with.
LEMMA BuilderNext ==
  ASSUME UNCHANGED <<ast, size>>, NEW c, c = cur', NEW s, s = code'[c]
  PROVE  ExpectedBehind(code[cur], Inside(cur))' = ExpectedBehind(s, Inside(c))
<1>1. \A i : Shown(i)' = Shown(i) /\ After(i)' = After(i)
  BY SourceKept
<1>2. Inside(cur)' = Inside(c)
  BY SourceKept
<1> QED BY <1>1, <1>2 DEF ExpectedBehind, Expected
------------------------------------------------------------------------------
(***************************************************************************)
(* What happens along a sequence of instructions.                          *)
(***************************************************************************)

\* A set of positions has a last one.
LEMMA Greatest ==
  ASSUME NEW k \in Nat, NEW S, S \subseteq 1..k, S # {}
  PROVE  Innermost(S) \in S /\ \A j \in S : j <= Innermost(S)
<1> DEFINE T == {k - j : j \in S}
<1>1. T \subseteq Nat /\ T # {}
  <2>1. \A j \in S : k - j \in Nat
    OBVIOUS
  <2> QED BY <2>1
<1>2. PICK t \in T : \A u \in T : t <= u
  <2> HIDE DEF T
  <2> QED BY <1>1, Least
<1>3. PICK i \in S : t = k - i
  BY <1>2
<1>4. ASSUME NEW j \in S PROVE j <= i
  <2>1. k - j \in T
    OBVIOUS
  <2>2. k - i <= k - j
    BY <1>2, <1>3, <2>1
  <2>3. i \in Nat /\ j \in Nat
    OBVIOUS
  <2> QED BY <2>2, <2>3
<1>5. IsInnermost(i, S)
  BY <1>4 DEF IsInnermost
<1>6. S \subseteq Int
  OBVIOUS
<1>7. Innermost(S) = i
  BY <1>5, <1>6, InnermostIs
<1> QED BY <1>4, <1>7

\* What is expected depends on the instructions in front alone.
IsShifted(s, t, i, d) ==
  /\ \A j \in 1..Len(s) : j < i => j + d \in 1..Len(t) /\ t[j + d] = s[j]
  /\ \A j \in 1..Len(t) : j < i + d => (j - d \in 1..Len(s) \/ IsSilent(t[j]))

\* Where a sequence differs from another only by silent instructions, it expects the same.
LEMMA ExpectedSame ==
  ASSUME NEW s \in Seq(Instr), NEW t \in Seq(Instr), NEW start, NEW i \in Nat, NEW d \in Nat,
         IsShifted(s, t, i, d)
  PROVE  Expected(t, start, i + d) = Expected(s, start, i)
<1> DEFINE B == LoudBefore(s, i)
           C == LoudBefore(t, i + d)
<1>0. Len(s) \in Nat /\ Len(t) \in Nat
  OBVIOUS
<1>1. \A j \in B : j + d \in C /\ t[j + d] = s[j] /\ j \in 1..Len(s)
  BY <1>0 DEF LoudBefore, IsShifted
<1>2. \A j \in C : j - d \in B /\ j \in 1..Len(t)
  <2> SUFFICES ASSUME NEW j \in C PROVE j - d \in B /\ j \in 1..Len(t)
    OBVIOUS
  <2>1. j \in 1..Len(t) /\ j < i + d /\ ~IsSilent(t[j])
    BY DEF LoudBefore
  <2>2. j - d \in 1..Len(s) /\ j - d < i
    BY <1>0, <2>1 DEF IsShifted
  <2>3. (j - d) + d = j /\ t[(j - d) + d] = s[j - d]
    BY <1>0, <2>1, <2>2 DEF IsShifted
  <2> QED BY <2>1, <2>2, <2>3 DEF LoudBefore
<1>3. B \subseteq 1..Len(s) /\ C \subseteq 1..Len(t)
  BY DEF LoudBefore
<1> HIDE DEF B, C
<1>4. CASE B = {}
  <2>1. C = {}
    BY <1>2, <1>4
  <2> QED BY <1>4, <2>1 DEF Expected, B, C
<1>5. CASE B # {}
  <2>1. Innermost(B) \in B /\ \A j \in B : j <= Innermost(B)
    BY <1>0, <1>3, <1>5, Greatest
  <2>2. PICK b \in B : b = Innermost(B)
    BY <2>1
  <2>3. b + d \in C /\ t[b + d] = s[b] /\ b \in Nat
    BY <1>1, <1>3
  <2>4. \A j \in C : j <= b + d
    BY <1>0, <1>2, <1>3, <2>1, <2>2
  <2>5. IsInnermost(b + d, C) /\ C \subseteq Int
    BY <1>3, <2>3, <2>4 DEF IsInnermost
  <2>6. Innermost(C) = b + d /\ C # {}
    BY <2>3, <2>5, InnermostIs
  <2>7. Expected(s, start, i) = After(s[b])
    BY <1>5, <2>2 DEF Expected, B
  <2>8. Expected(t, start, i + d) = After(t[b + d])
    BY <2>6 DEF Expected, C
  <2> QED BY <2>3, <2>7, <2>8
<1> QED BY <1>4, <1>5

\* The elements of a sequence with one more behind them.
LEMMA AppendedElements ==
  ASSUME NEW s \in Seq(Instr), NEW e \in Instr
  PROVE  /\ Append(s, e) \in Seq(Instr) /\ Len(Append(s, e)) = Len(s) + 1 /\ Len(s) \in Nat
         /\ Append(s, e)[Len(s) + 1] = e /\ \A j \in 1..Len(s) : Append(s, e)[j] = s[j]
OBVIOUS

\* What may be appended to a flow, and what is expected then.
LEMMA FlowsAppended ==
  ASSUME NEW s \in Seq(Instr), NEW e \in Instr, NEW start, Flows(s, start),
         ~IsSilent(e) => Shown(e) = ExpectedBehind(s, start)
  PROVE  /\ Flows(Append(s, e), start)
         /\ ExpectedBehind(Append(s, e), start) =
              IF IsSilent(e) THEN ExpectedBehind(s, start) ELSE After(e)
<1>0. PICK t \in Seq(Instr) : t = Append(s, e)
  BY AppendedElements
<1>1. PICK k \in Nat : k = Len(s)
  BY AppendedElements
<1>2. Len(t) = k + 1 /\ t[k + 1] = e /\ \A j \in 1..k : t[j] = s[j]
  BY <1>0, <1>1, AppendedElements
<1>3. ASSUME NEW i \in Nat, i <= k + 1 PROVE Expected(t, start, i) = Expected(s, start, i)
  <2>1. \A j \in 1..Len(s) : j < i => j + 0 \in 1..Len(t) /\ t[j + 0] = s[j]
    BY <1>1, <1>2
  <2>2. \A j \in 1..Len(t) : j < i + 0 => (j - 0 \in 1..Len(s) \/ IsSilent(t[j]))
    BY <1>1, <1>2, <1>3
  <2>3. IsShifted(s, t, i, 0)
    BY <2>1, <2>2 DEF IsShifted
  <2>4. Expected(t, start, i + 0) = Expected(s, start, i)
    BY <2>3, ExpectedSame
  <2>5. i + 0 = i
    OBVIOUS
  <2> QED BY <2>4, <2>5
<1>4. ASSUME NEW i \in 1..Len(t), ~IsSilent(t[i]) PROVE Shown(t[i]) = Expected(t, start, i)
  <2>1. i \in Nat /\ i <= k + 1
    BY <1>2
  <2>2. CASE i = k + 1
    BY <1>1, <1>2, <1>3, <1>4, <2>1, <2>2 DEF ExpectedBehind
  <2>3. CASE i # k + 1
    <3>1. i \in 1..Len(s) /\ t[i] = s[i]
      BY <1>1, <1>2, <2>1, <2>3
    <3> QED BY <1>3, <1>4, <2>1, <3>1 DEF Flows
  <2> QED BY <2>2, <2>3
<1>5. CASE IsSilent(e)
  <2>1. LoudBefore(t, k + 2) = LoudBefore(s, k + 1)
    BY <1>1, <1>2, <1>5 DEF LoudBefore
  <2>2. \A j \in LoudBefore(s, k + 1) : t[j] = s[j]
    BY <1>1, <1>2 DEF LoudBefore
  <2>3. LoudBefore(s, k + 1) \subseteq 1..k
    BY <1>1 DEF LoudBefore
  <2>4. LoudBefore(s, k + 1) # {} => Innermost(LoudBefore(s, k + 1)) \in LoudBefore(s, k + 1)
    BY <2>3, Greatest
  <2>5. Expected(t, start, k + 2) = Expected(s, start, k + 1)
    BY <2>1, <2>2, <2>4 DEF Expected
  <2>6. (k + 1) + 1 = k + 2
    OBVIOUS
  <2> QED BY <1>0, <1>1, <1>2, <1>4, <1>5, <2>5, <2>6 DEF Flows, ExpectedBehind
<1>6. CASE ~IsSilent(e)
  <2>1. k + 1 \in LoudBefore(t, k + 2) /\ LoudBefore(t, k + 2) \subseteq 1..(k + 1)
    BY <1>2, <1>6 DEF LoudBefore
  <2>2. IsInnermost(k + 1, LoudBefore(t, k + 2)) /\ LoudBefore(t, k + 2) \subseteq Int
    BY <2>1 DEF IsInnermost
  <2>3. Innermost(LoudBefore(t, k + 2)) = k + 1
    BY <2>2, InnermostIs
  <2>4. Expected(t, start, k + 2) = After(e)
    BY <1>2, <2>1, <2>3 DEF Expected
  <2>5. (k + 1) + 1 = k + 2
    OBVIOUS
  <2> QED BY <1>0, <1>1, <1>2, <1>4, <1>6, <2>4, <2>5 DEF Flows, ExpectedBehind
<1> QED BY <1>5, <1>6

\* Silent instructions expect nothing.
LEMMA FlowsSilent ==
  ASSUME NEW s \in Seq(Instr), NEW start, \A i \in 1..Len(s) : IsSilent(s[i])
  PROVE  Flows(s, start) /\ ExpectedBehind(s, start) = start
<1>1. LoudBefore(s, Len(s) + 1) = {}
  BY DEF LoudBefore
<1> QED BY <1>1 DEF Flows, ExpectedBehind, Expected

\* An empty sequence expects what it has to start with.
LEMMA FlowsEmpty ==
  ASSUME NEW start
  PROVE  Flows(<<>>, start) /\ ExpectedBehind(<<>>, start) = start
<1>1. <<>> \in Seq(Instr) /\ \A i \in 1..Len(<<>>) : IsSilent(<<>>[i])
  OBVIOUS
<1> QED BY <1>1, FlowsSilent

\* The elements of a sequence with one more in front of them.
LEMMA PrependedElements ==
  ASSUME NEW s \in Seq(Instr), NEW e \in Instr
  PROVE  /\ <<e>> \o s \in Seq(Instr) /\ Len(<<e>> \o s) = Len(s) + 1 /\ Len(s) \in Nat
         /\ (<<e>> \o s)[1] = e /\ \A j \in 1..Len(s) : (<<e>> \o s)[j + 1] = s[j]
OBVIOUS

\* A silent instruction may be put in front of a flow.
LEMMA FlowsPrepended ==
  ASSUME NEW s \in Seq(Instr), NEW e \in Instr, NEW start, Flows(s, start), IsSilent(e)
  PROVE  /\ Flows(<<e>> \o s, start)
         /\ ExpectedBehind(<<e>> \o s, start) = ExpectedBehind(s, start)
<1>0. PICK t \in Seq(Instr) : t = <<e>> \o s
  BY PrependedElements
<1>1. PICK k \in Nat : k = Len(s)
  BY PrependedElements
<1>2. Len(t) = k + 1 /\ t[1] = e /\ \A j \in 1..k : t[j + 1] = s[j]
  BY <1>0, <1>1, PrependedElements
<1>3. ASSUME NEW i \in Nat, i <= k + 1 PROVE Expected(t, start, i + 1) = Expected(s, start, i)
  <2>1. \A j \in 1..Len(s) : j < i => j + 1 \in 1..Len(t) /\ t[j + 1] = s[j]
    BY <1>1, <1>2
  <2>2. \A j \in 1..Len(t) : j < i + 1 => (j - 1 \in 1..Len(s) \/ IsSilent(t[j]))
    <3> SUFFICES ASSUME NEW j \in 1..Len(t) PROVE j - 1 \in 1..Len(s) \/ IsSilent(t[j])
      OBVIOUS
    <3>1. CASE j = 1
      BY <1>2, <3>1
    <3>2. CASE j # 1
      BY <1>1, <1>2, <3>2
    <3> QED BY <3>1, <3>2
  <2>3. IsShifted(s, t, i, 1)
    BY <2>1, <2>2 DEF IsShifted
  <2> QED BY <2>3, ExpectedSame
<1>4. ASSUME NEW i \in 1..Len(t), ~IsSilent(t[i]) PROVE Shown(t[i]) = Expected(t, start, i)
  <2>1. i # 1
    BY <1>2, <1>4
  <2>2. PICK j \in 1..k : i = j + 1
    <3>1. i - 1 \in 1..k /\ i = (i - 1) + 1
      BY <1>2, <2>1
    <3> QED BY <3>1
  <2>3. t[i] = s[j] /\ j \in 1..Len(s) /\ j \in Nat /\ j <= k + 1
    BY <1>1, <1>2, <2>2
  <2>4. Shown(s[j]) = Expected(s, start, j)
    BY <1>4, <2>3 DEF Flows
  <2> QED BY <1>3, <2>2, <2>3, <2>4
<1>5. Expected(t, start, (k + 1) + 1) = Expected(s, start, k + 1)
  BY <1>3
<1> QED BY <1>0, <1>1, <1>2, <1>4, <1>5 DEF Flows, ExpectedBehind
------------------------------------------------------------------------------
(***************************************************************************)
(* The moves of the source.  Of a function the type checker has accepted   *)
(* they all lead to positions of its body.                                 *)
(***************************************************************************)

\* The smallest of a set of statements is one of them.
LEMMA SmallestIs ==
  ASSUME NEW S, S \subseteq Nat, S # {}
  PROVE  Smallest(S) \in S /\ \A m \in S : Smallest(S) <= m
<1>1. \E m \in S : \A o \in S : m <= o
  BY Least
<1> QED BY <1>1, Zenon DEF Smallest

\* And it is the only one that is smallest.
LEMMA SmallestUnique ==
  ASSUME NEW S, S \subseteq Nat, NEW m \in S, \A o \in S : m <= o
  PROVE  Smallest(S) = m
<1>1. Smallest(S) \in S /\ \A o \in S : Smallest(S) <= o
  BY SmallestIs
<1>2. Smallest(S) <= m /\ m <= Smallest(S) /\ m \in Nat /\ Smallest(S) \in Nat
  BY <1>1
<1> QED BY <1>2

Walkable ==
  /\ TreeAndTypes /\ ShapeInv /\ CheckedInv /\ LabelsIdentifyStatements /\ phase = "compile"

\* The label of a goto is one of the function.
LEMMA GotoLabel ==
  ASSUME Walkable, NEW n \in 1..size, KindOf(n) = "goto"
  PROVE  /\ Labeled(ast[n].name) \in 1..size /\ KindOf(Labeled(ast[n].name)) = "labeled"
         /\ ast[Labeled(ast[n].name)].name = ast[n].name /\ ast[n].name \in labels
<1>1. ast[n].name \in labels
  BY DEF Walkable, CheckedInv, IsChecked, IsAccepted
<1>2. size > 0
  BY Ranges DEF Walkable
<1>3. \E m \in OfKind("labeled") : ast[m].name = ast[n].name
  BY <1>1, <1>2 DEF Walkable, LabelsIdentifyStatements
<1>4. /\ Labeled(ast[n].name) \in OfKind("labeled")
      /\ ast[Labeled(ast[n].name)].name = ast[n].name
  BY <1>3, Zenon DEF Labeled
<1> QED BY <1>1, <1>4 DEF OfKind, KindOf

\* A label of the function has its statement.
LEMMA LabeledIs ==
  ASSUME TreeAndTypes, LabelsIdentifyStatements, NEW n \in 1..size, KindOf(n) = "labeled"
  PROVE  Labeled(ast[n].name) = n
<1>1. n \in OfKind("labeled") /\ size > 0
  BY Ranges DEF OfKind, KindOf
<1>2. /\ Labeled(ast[n].name) \in OfKind("labeled")
      /\ ast[Labeled(ast[n].name)].name = ast[n].name
  BY <1>1, Zenon DEF Labeled
<1> QED BY <1>1, <1>2 DEF LabelsIdentifyStatements

\* A break or continue has a loop around it.
LEMMA LoopIs ==
  ASSUME Walkable, NEW n \in 1..size, KindOf(n) \in {"break", "continue"}
  PROVE  Loop(n) \in 1..size /\ KindOf(Loop(n)) = "while" /\ EnclosingWhiles(n) # {}
<1>1. EnclosingWhiles(n) # {}
  BY DEF Walkable, CheckedInv, IsChecked, IsAccepted
<1>2. EnclosingWhiles(n) \subseteq 1..n /\ n \in Nat /\ size \in Nat
  BY EnclosingRange, Basics DEF EnclosingWhiles, Walkable
<1>3. Loop(n) \in EnclosingWhiles(n)
  BY <1>1, <1>2, Greatest DEF Loop
<1> QED BY <1>1, <1>2, <1>3 DEF EnclosingWhiles

\* The first of the statements behind another is one of them.
LEMMA BehindIs ==
  ASSUME TreeAndTypes, NEW p, NEW n, Behind(p, n) # {}
  PROVE  Smallest(Behind(p, n)) \in Behind(p, n) /\ Smallest(Behind(p, n)) \in 1..size
<1>1. Behind(p, n) \subseteq 1..size /\ 1..size \subseteq Nat
  BY Basics DEF Behind
<1>2. Smallest(Behind(p, n)) \in Behind(p, n)
  BY <1>1, SmallestIs
<1> QED BY <1>1, <1>2

\* Positions are entered and left statements.
LEMMA PositionsOf ==
  /\ \A n \in 1..size : Enter(n) \in Position /\ Leave(n) \in Position
  /\ \A n : Enter(n)[1] = n /\ Enter(n)[2] = "enter" /\ Leave(n)[1] = n /\ Leave(n)[2] = "leave"
  /\ \A x \in Position : x[1] \in 1..size /\ (x = Enter(x[1]) \/ x = Leave(x[1]))
BY DEF Position, Enter, Leave

\* The moves stay in the body.
LEMMA MovesAreInside ==
  ASSUME Walkable
  PROVE  MovesStay
<1>1. ASSUME NEW n \in 1..size PROVE FromEntered(n) \in Position
  <2>1. CASE KindOf(n) = "block"
    BY <2>1, BehindIs, PositionsOf DEF FromEntered, Walkable
  <2>2. CASE KindOf(n) = "goto"
    BY <2>2, GotoLabel, PositionsOf DEF FromEntered
  <2>3. CASE KindOf(n) = "break"
    BY <2>3, LoopIs, PositionsOf DEF FromEntered
  <2>4. CASE KindOf(n) = "continue"
    BY <2>4, LoopIs, PositionsOf DEF FromEntered
  <2>5. CASE KindOf(n) \notin {"block", "goto", "break", "continue"}
    BY <2>5, PositionsOf DEF FromEntered
  <2> QED BY <2>1, <2>2, <2>3, <2>4, <2>5
<1>2. ASSUME NEW n \in 1..size, n # Root PROVE FromLeft(n, Parent(n)) \in Position
  <2>1. PICK p \in 1..size : p = Parent(n)
    BY <1>2, Basics DEF Walkable, Root
  <2> QED BY <2>1, BehindIs, PositionsOf DEF FromLeft, Walkable
<1>3. ASSUME NEW x \in Position, ~IsEvent(x) PROVE NextPosition(x) \in Position
  <2>1. PICK n \in 1..size : n = x[1]
    BY PositionsOf
  <2>2. CASE x[2] = "enter"
    BY <1>1, <2>1, <2>2 DEF NextPosition
  <2>3. CASE x[2] # "enter"
    BY <1>2, <1>3, <2>1, <2>3 DEF NextPosition, IsEvent
  <2> QED BY <2>2, <2>3
<1> QED BY <1>3 DEF MovesStay

\* What happens first when a statement is entered.
LEMMA FirstEntered ==
  ASSUME Walkable, NEW n \in 1..size
  PROVE  /\ KindOf(n) \in EvalKind => First[Enter(n)] = <<"eval", n>>
         /\ KindOf(n) = "labeled" => First[Enter(n)] = <<"label", n>>
         /\ KindOf(n) = "return" => First[Enter(n)] = Returning
         /\ KindOf(n) \notin EvalKind \cup {"labeled", "return"} =>
              First[Enter(n)] = First[FromEntered(n)]
<1>1. Enter(n) \in Position /\ Enter(n)[1] = n /\ Enter(n)[2] = "enter"
  BY PositionsOf
<1>2. First[Enter(n)] = IF IsEvent(Enter(n)) THEN EventAt(Enter(n))
                        ELSE First[NextPosition(Enter(n))]
  BY <1>1, MovesAreInside, FirstUnfolds
<1>3. IsEvent(Enter(n)) <=> KindOf(n) \in EvalKind \cup {"labeled", "return"}
  BY <1>1 DEF IsEvent
<1>4. EventAt(Enter(n)) = CASE KindOf(n) = "return"  -> Returning
                            [] KindOf(n) = "labeled" -> <<"label", n>>
                            [] OTHER                 -> <<"eval", n>>
  BY <1>1 DEF EventAt
<1>5. NextPosition(Enter(n)) = FromEntered(n)
  BY <1>1 DEF NextPosition
<1> QED BY <1>2, <1>3, <1>4, <1>5 DEF EvalKind

\* What happens first when it is left.
LEMMA FirstLeft ==
  ASSUME Walkable, NEW n \in 1..size
  PROVE  /\ n = Root => First[Leave(n)] = Returning
         /\ n # Root => First[Leave(n)] = First[FromLeft(n, Parent(n))]
<1>1. Leave(n) \in Position /\ Leave(n)[1] = n /\ Leave(n)[2] = "leave"
  BY PositionsOf
<1>2. First[Leave(n)] = IF IsEvent(Leave(n)) THEN EventAt(Leave(n))
                        ELSE First[NextPosition(Leave(n))]
  BY <1>1, MovesAreInside, FirstUnfolds
<1>3. IsEvent(Leave(n)) <=> n = Root
  BY <1>1 DEF IsEvent
<1>4. EventAt(Leave(n)) = Returning
  BY <1>1 DEF EventAt
<1>5. NextPosition(Leave(n)) = FromLeft(n, Parent(n))
  BY <1>1 DEF NextPosition
<1> QED BY <1>2, <1>3, <1>4, <1>5
------------------------------------------------------------------------------
(***************************************************************************)
(* What the running handler goes on with before and behind a step.         *)
(***************************************************************************)
Walking == Walkable /\ PathInv /\ KidsInv /\ SiblingsInOrder

\* An if, a while or a labeled statement has a first child, which is no declaration.
LEMMA FirstKid ==
  ASSUME Walking, NEW n \in 1..size, KindOf(n) \in BranchKind
  PROVE  /\ Len(Kids(n)) \in Nat /\ Len(Kids(n)) >= 1
         /\ Kids(n)[1] \in 2..size /\ Kids(n)[1] \in 1..size /\ Parent(Kids(n)[1]) = n
         /\ Kids(n)[1] # n /\ ~IsDecl(Kids(n)[1])
<1>1. TreeAndTypes /\ ShapeInv /\ phase \in Walks
  BY DEF Walking, Walkable, Walks
<1>2. n \in 2..size
  <2>1. KindOf(1) = "block"
    BY <1>1, Ranges DEF TreeAndTypes, TreeInv, Root
  <2> QED BY <2>1 DEF BranchKind
<1>3. Joined(n)
  BY <1>1, <1>2 DEF ShapeInv
<1>4. Kids(n) # <<>>
  BY <1>2, <1>3 DEF Walking, KidsInv
<1>5. Kids(n) \in Seq(Stmt) /\ Len(Kids(n)) \in Nat
  BY <1>1, Basics
<1>6. Len(Kids(n)) >= 1
  BY <1>4, <1>5
<1>7. PICK m \in 2..size : m = Kids(n)[1] /\ Parent(m) = n /\ n < m /\ m \in 1..size
  <2>1. 1 \in 1..Len(Kids(n))
    BY <1>5, <1>6
  <2>2. Kids(n)[1] \in 2..size /\ Parent(Kids(n)[1]) = n /\ n < Kids(n)[1]
    BY <1>1, <2>1, Basics
  <2>3. Kids(n)[1] \in 1..size
    BY <1>1, <2>2, Ranges
  <2> QED BY <2>2, <2>3
<1>8. ~IsDecl(m)
  BY <1>1, <1>7 DEF ShapeInv, OfKind, IsDecl, KindOf, BranchKind
<1> QED BY <1>5, <1>6, <1>7, <1>8

\* The child of a while or labeled statement, and those of an if.
LEMMA BranchKids ==
  ASSUME Walking, NEW n \in 2..size, NEW p \in 1..size, p = Parent(n)
  PROVE  /\ KindOf(p) \in {"while", "labeled"} => Kids(p)[1] = n
         /\ KindOf(p) = "if" => Kids(p)[1] = n \/ (Kids(p)[1] < n /\ Kids(p)[2] = n)
         /\ KindOf(p) \in BranchKind \cup {"block"}
<1>1. TreeAndTypes /\ ShapeInv /\ phase \in Walks
  BY DEF Walking, Walkable, Walks
<1>2. PICK j \in 1..Len(Kids(p)) : Kids(p)[j] = n
  BY <1>1 DEF ShapeInv, Joined, IsKid
<1>3. Len(Kids(p)) \in Nat
  BY <1>1, Basics
<1>4. KindOf(p) \in {"while", "labeled"} => Len(Kids(p)) <= 1
  BY DEF Walking, KidsInv
<1>5. KindOf(p) = "if" => Len(Kids(p)) <= 2
  BY <1>1 DEF ShapeInv, OfKind, KindOf
<1>6. j = 1 \/ (1 \in 1..Len(Kids(p)) /\ 1 < j)
  BY <1>2, <1>3
<1>7. j = 1 \/ Kids(p)[1] < n
  BY <1>1, <1>2, <1>6 DEF ShapeInv
<1>8. KindOf(p) \in {"while", "labeled"} => j = 1
  BY <1>2, <1>3, <1>4
<1>9. KindOf(p) = "if" => j = 1 \/ j = 2
  BY <1>2, <1>3, <1>5
<1>10. KindOf(p) \notin LeafKind /\ KindOf(p) \in Kind
  <2>1. p \in Stmt /\ ast \in [Stmt -> Statement]
    BY <1>1, Basics
  <2>2. KindOf(p) \in Kind
    BY <2>1 DEF Statement, KindOf
  <2> QED BY <1>1, <2>2 DEF TreeAndTypes, TreeInv
<1> QED BY <1>2, <1>7, <1>8, <1>9, <1>10 DEF Kind

LeftThen(p) == {m \in 1..size : Parent(m) = p /\ ~IsDecl(m) /\ status'[m] = "uncalled"}

\* What a handler goes on with when the statuses of its children have changed.
LEMMA AheadThen ==
  ASSUME UNCHANGED <<ast, size>>, NEW p
  PROVE  /\ KindOf(p) = "block" /\ LeftThen(p) = {} => Ahead(p)' = Leave(p)
         /\ KindOf(p) = "block" /\ LeftThen(p) # {} => Ahead(p)' = Enter(Smallest(LeftThen(p)))
         /\ KindOf(p) # "block" =>
              /\ status'[Kids(p)[1]] = "uncalled" => Ahead(p)' = Enter(Kids(p)[1])
              /\ status'[Kids(p)[1]] # "uncalled" =>
                   Ahead(p)' = IF KindOf(p) = "while" THEN Enter(p) ELSE Leave(p)
<1>1. LeftToCall(p)' = LeftThen(p)
  BY DEF LeftToCall, LeftThen, Parent, IsDecl, KindOf, Called
<1> QED BY <1>1 DEF Ahead, KindOf, Kids, Enter, Leave, Called, Smallest

\* The continuation in the next state, from that of the handler that runs then.
LEMMA ContinuesThen ==
  ASSUME UNCHANGED <<ast, size>>, NEW a, a = at', NEW p, p = Parent(a)
  PROVE  /\ IsDecl(a) => Continuation' = Ahead(p)'
         /\ ~IsDecl(a) /\ status'[a] = "uncalled" => Continuation' = Enter(a)
         /\ ~IsDecl(a) /\ status'[a] # "uncalled" => Continuation' = Ahead(a)'
<1>1. IsDecl(at)' <=> IsDecl(a)
  BY DEF IsDecl, KindOf
<1>2. Ahead(Parent(at))' = Ahead(p)'
  BY DEF Ahead, Parent, LeftToCall, Called, KindOf, Kids, IsDecl, Enter, Leave, Smallest
<1>3. Ahead(at)' = Ahead(a)'
  BY DEF Ahead, Parent, LeftToCall, Called, KindOf, Kids, IsDecl, Enter, Leave, Smallest
<1>4. Entering' <=> status'[a] = "uncalled"
  BY DEF Entering
<1>5. Enter(at)' = Enter(a)
  BY DEF Enter
<1> QED BY <1>1, <1>2, <1>3, <1>4, <1>5 DEF Continuation

\* A handler that is called goes on into its statement.
LEMMA EnteredAhead ==
  ASSUME Walking, NEW a \in 1..size, a = at, Enters, UNCHANGED <<ast, size>>
  PROVE  /\ KindOf(a) = "block" => Continuation' = FromEntered(a)
         /\ KindOf(a) # "block" => Continuation' = Enter(Kids(a)[1])
<1>0. TreeAndTypes /\ phase = "compile"
  BY DEF Walking, Walkable
<1>1. status' = [status EXCEPT ![a] = "running"] /\ at' = a /\ KindOf(a) \notin LeafKind
      /\ ~Called(a)
  BY DEF Enters, Run, Entering, Called
<1>2. status'[a] = "running" /\ \A n \in 1..size : n # a => status'[n] = status[n]
  BY <1>0, <1>1, StatusAfter
<1>3. \A n \in 2..size : Parent(n) = a => n # a /\ n \in 1..size /\ status'[n] = "uncalled" /\ n > a
  <2> SUFFICES ASSUME NEW n \in 2..size, Parent(n) = a
               PROVE  n # a /\ n \in 1..size /\ status'[n] = "uncalled" /\ n > a
    OBVIOUS
  <2>1. n \in 1..size /\ n \in Stmt \ {Root} /\ a < n
    BY <1>0, Basics, Ranges DEF Root
  <2>2. ~Called(n)
    BY <1>0, <1>1, <2>1 DEF TreeAndTypes, PassInv, Walks
  <2> QED BY <1>2, <2>1, <2>2 DEF Called
<1>4. Parent(1) = 0 /\ size \in Nat /\ \A m \in 1..size : m = 1 \/ m \in 2..size
  BY <1>0, Ranges DEF TreeAndTypes, TreeInv, Root, None
<1>5. ~IsDecl(a) /\ Continuation' = Ahead(a)'
  <2>1. ~IsDecl(a)
    BY <1>1 DEF IsDecl, LeafKind
  <2> QED BY <1>1, <1>2, <2>1, ContinuesThen
<1>6. ASSUME KindOf(a) = "block" PROVE Ahead(a)' = FromEntered(a)
  <2>1. LeftThen(a) = Behind(a, a)
    BY <1>3, <1>4 DEF LeftThen, Behind, IsDecl
  <2> QED BY <1>6, <2>1, AheadThen DEF FromEntered
<1>7. ASSUME KindOf(a) # "block" PROVE Ahead(a)' = Enter(Kids(a)[1])
  <2>1. KindOf(a) \in BranchKind
    <3>1. a \in Stmt /\ ast \in [Stmt -> Statement]
      BY <1>0, Basics
    <3>2. KindOf(a) \in Kind
      BY <3>1 DEF Statement, KindOf
    <3> QED BY <1>1, <1>7, <3>2 DEF Kind
  <2>2. Kids(a)[1] \in 2..size /\ Parent(Kids(a)[1]) = a
    BY <2>1, FirstKid
  <2> QED BY <1>3, <1>7, <2>2, AheadThen
<1> QED BY <1>5, <1>6, <1>7

\* A handler that returns leaves its statement.
LEMMA LeftAhead ==
  ASSUME Walking, NEW a \in 1..size, a = at, Leaves, ~IsDecl(a), UNCHANGED <<ast, size>>
  PROVE  First[Leave(a)] = First[Continuation']
<1>0. TreeAndTypes /\ ShapeInv /\ PathInv /\ phase = "compile" /\ phase \in Walks
  BY DEF Walking, Walkable, Walks
<1>1. /\ status' = [status EXCEPT ![a] = "returned"] /\ at' = Parent(a) /\ a \in 2..size
      /\ at \notin {None, Root} /\ status[a] # "returned"
  <2>1. a # 1 /\ at \notin {None, Root} /\ status[a] # "returned"
    BY DEF Leaves, Root, Entering, Resuming
  <2> QED BY <1>0, <2>1, Ranges DEF Leaves, Return
<1>2. status'[a] = "returned" /\ \A n \in 1..size : n # a => status'[n] = status[n]
  BY <1>0, <1>1, StatusAfter
<1>3. PICK p \in 1..size : p = Parent(a) /\ IsRunning(p) /\ p # a
  BY <1>0, <1>1, LargestRunning
<1>4. KindOf(p) \in BranchKind \cup {"block"}
  BY <1>1, <1>3, BranchKids
<1>5. Continuation' = Ahead(p)'
  <2>1. ~IsDecl(p) /\ status'[p] = "running"
    BY <1>2, <1>3, <1>4 DEF IsDecl, IsRunning, BranchKind
  <2> QED BY <1>1, <1>3, <2>1, ContinuesThen
<1>6. \A m \in 2..size : Parent(m) = p /\ ~IsDecl(m) /\ m < a => status[m] = "returned"
  BY <1>0, <1>1, <1>3 DEF Walking, SiblingsInOrder
<1>7. \A m \in 2..size : Parent(m) = p /\ ~IsDecl(m) /\ a < m => status[m] = "uncalled"
  BY <1>0, <1>1, <1>3 DEF Walking, SiblingsInOrder, Called
<1>8. Ahead(p)' = FromLeft(a, p)
  <2>1. CASE KindOf(p) = "block"
    <3>1. Parent(1) = 0 /\ size \in Nat /\ \A m \in 1..size : m = 1 \/ m \in 2..size
      BY <1>0, Ranges DEF TreeAndTypes, TreeInv, Root, None
    <3>2. \A m \in 2..size : m < a \/ m = a \/ a < m
      BY <1>1
    <3>3. LeftThen(p) = Behind(p, a)
      <4>1. ASSUME NEW m \in LeftThen(p) PROVE m \in Behind(p, a)
        BY <1>2, <1>3, <1>6, <3>1, <3>2 DEF LeftThen, Behind, IsDecl
      <4>2. ASSUME NEW m \in Behind(p, a) PROVE m \in LeftThen(p)
        <5>1. m \in 2..size /\ Parent(m) = p /\ ~IsDecl(m) /\ a < m
          BY <1>3, <3>1 DEF Behind, IsDecl
        <5>2. status[m] = "uncalled" /\ m # a /\ m \in 1..size
          BY <1>1, <1>7, <5>1, <3>1
        <5> QED BY <1>2, <5>1, <5>2 DEF LeftThen
      <4> QED BY <4>1, <4>2
    <3> QED BY <2>1, <3>3, AheadThen DEF FromLeft
  <2>2. CASE KindOf(p) \in BranchKind
    <3>1. /\ Kids(p)[1] \in 2..size /\ Kids(p)[1] \in 1..size /\ Parent(Kids(p)[1]) = p
          /\ ~IsDecl(Kids(p)[1])
      BY <2>2, FirstKid
    <3>2. Kids(p)[1] = a \/ Kids(p)[1] < a
      BY <1>1, <1>3, <2>2, BranchKids DEF BranchKind
    <3>3. status'[Kids(p)[1]] # "uncalled"
      <4>1. PICK k \in 2..size : k = Kids(p)[1]
        BY <3>1
      <4> QED BY <1>2, <1>6, <3>1, <3>2, <4>1
    <3> QED BY <2>2, <3>3, AheadThen DEF FromLeft, BranchKind
  <2> QED BY <1>4, <2>1, <2>2
<1>9. First[Leave(a)] = First[FromLeft(a, p)]
  BY <1>0, <1>1, <1>3, FirstLeft DEF Walking, Root
<1> QED BY <1>5, <1>8, <1>9
------------------------------------------------------------------------------
(***************************************************************************)
(* The code follows the source: what the actions of the code generator     *)
(* append is what happens next.                                            *)
(***************************************************************************)
Flowing == Generating /\ Refinement

\* What happens first at the position of each kind of block.
LEMMA Places ==
  ASSUME NEW n
  PROVE  /\ Start(<<"header", n>>) = First[Enter(n)] /\ Inside(<<"header", n>>) = First[Enter(n)]
         /\ \A r \in {"then", "body"} : /\ Start(<<r, n>>) = First[Enter(Kids(n)[1])]
                                        /\ Inside(<<r, n>>) = First[Enter(Kids(n)[1])]
         /\ Start(<<"else", n>>) = First[Enter(Kids(n)[2])]
         /\ Inside(<<"else", n>>) = First[Enter(Kids(n)[2])]
         /\ \A r \in {"end", "dead"} : /\ Start(<<r, n>>) = First[Leave(n)]
                                       /\ Inside(<<r, n>>) = First[Leave(n)]
         /\ Inside(Entry) = First[Enter(Root)]
         /\ Start(LabelBlock(n)) = First[Enter(Labeled(n))]
         /\ Inside(LabelBlock(n)) = First[Enter(Kids(Labeled(n))[1])]
<1>1. \A r : Entry # <<r, n>> \/ r = "entry"
  BY DEF Entry
<1>2. \A r : <<r, n>>[1] = r /\ <<r, n>>[2] = n
  OBVIOUS
<1>3. Entry[1] = "entry"
  BY DEF Entry
<1> QED BY <1>1, <1>2, <1>3 DEF Start, Inside, PositionOf, LabelBlock

FlowAt(b, s) == Flows(s, Inside(b)) /\ \A i \in 1..Len(s) : FitsSource(s[i])

\* The flow of every block of the next state is that of the next state.
LEMMA FlowsTo ==
  ASSUME UNCHANGED <<ast, size>>, \A b \in Block : FlowAt(b, code'[b])
  PROVE  FlowInv'
<1>1. ASSUME NEW b \in Block
      PROVE  Flows(code[b], Inside(b))' /\ (\A i \in 1..Len(code[b]) : FitsSource(code[b][i]))'
  <2>1. PICK s : s = code'[b]
    OBVIOUS
  <2> QED BY <2>1, FlowsNext DEF FlowAt
<1>2. Block' = Block
  BY DEF Block, Entry
<1> QED BY <1>1, <1>2 DEF FlowInv

\* The builder of the next state goes on with the next continuation.
LEMMA BuilderTo ==
  ASSUME UNCHANGED <<ast, size>>, NEW c, c = cur', NEW s, s = code'[c],
         ExpectedBehind(s, Inside(c)) = First[Continuation']
  PROVE  BuilderInv'
<1>1. First' = First
  BY FirstKept
<1>2. ExpectedBehind(code[cur], Inside(cur))' = ExpectedBehind(s, Inside(c))
  BY BuilderNext
<1> QED BY <1>1, <1>2 DEF BuilderInv

\* What the flow invariants say while the code generator runs.
LEMMA FlowNow ==
  ASSUME Flowing, phase = "compile"
  PROVE  /\ cur \in Block /\ code \in [Block -> Seq(Instr)] /\ Walking /\ TreeAndTypes
         /\ \A b \in Block : code[b] \in Seq(Instr) /\ FlowAt(b, code[b])
         /\ Called(Root) => ExpectedBehind(code[cur], Inside(cur)) = First[Continuation]
<1>1. TreeAndTypes /\ Walking
  BY DEF Flowing, Generating, Refinement, Walking, Walkable
<1>2. cur \in Block /\ code \in [Block -> Seq(Instr)]
  BY <1>1 DEF TreeAndTypes, TypeOK, CodegenTypeOK
<1> QED BY <1>1, <1>2 DEF Flowing, Refinement, FlowInv, BuilderInv, FlowAt

\* A fitting instruction is appended to a block.
LEMMA FlowAtAppended ==
  ASSUME NEW b, NEW s \in Seq(Instr), NEW e \in Instr, FlowAt(b, s), FitsSource(e),
         ~IsSilent(e) => Shown(e) = ExpectedBehind(s, Inside(b))
  PROVE  /\ FlowAt(b, Append(s, e)) /\ Append(s, e) \in Seq(Instr)
         /\ ~IsSilent(e) => ExpectedBehind(Append(s, e), Inside(b)) = After(e)
         /\ IsSilent(e) => ExpectedBehind(Append(s, e), Inside(b)) = ExpectedBehind(s, Inside(b))
<1>1. PICK x : x = Inside(b)
  OBVIOUS
<1>2. /\ Flows(Append(s, e), x)
      /\ ExpectedBehind(Append(s, e), x) =
           IF IsSilent(e) THEN ExpectedBehind(s, x) ELSE After(e)
  BY <1>1, FlowsAppended DEF FlowAt
<1>3. \A i \in 1..Len(Append(s, e)) : FitsSource(Append(s, e)[i])
  <2>1. PICK t \in Seq(Instr) : t = Append(s, e)
    BY AppendedElements
  <2>2. Len(t) = Len(s) + 1 /\ Len(s) \in Nat /\ t[Len(s) + 1] = e /\ \A j \in 1..Len(s) : t[j] = s[j]
    BY <2>1, AppendedElements
  <2>3. \A i \in 1..Len(t) : i = Len(s) + 1 \/ i \in 1..Len(s)
    BY <2>2
  <2>4. \A i \in 1..Len(t) : FitsSource(t[i])
    BY <2>2, <2>3 DEF FlowAt
  <2> QED BY <2>1, <2>4
<1> QED BY <1>1, <1>2, <1>3, AppendedElements DEF FlowAt

\* An empty block expects what happens at its position.
LEMMA FlowAtNothing ==
  ASSUME NEW b
  PROVE  FlowAt(b, <<>>) /\ ExpectedBehind(<<>>, Inside(b)) = Inside(b)
<1>1. PICK x : x = Inside(b)
  OBVIOUS
<1>2. Flows(<<>>, x) /\ ExpectedBehind(<<>>, x) = x
  BY FlowsEmpty
<1>3. Len(<<>>) = 0
  OBVIOUS
<1> QED BY <1>1, <1>2, <1>3 DEF FlowAt

\* The code stays, or only other blocks are written.
LEMMA FlowKept ==
  ASSUME Flowing, phase = "compile", Called(Root), UNCHANGED <<ast, size, code, cur>>,
         First[Continuation] = First[Continuation']
  PROVE  FlowInv' /\ BuilderInv'
<1>1. FlowInv'
  BY FlowNow, FlowsTo
<1>2. PICK c : c = cur' /\ c = cur
  OBVIOUS
<1>3. PICK s : s = code'[c] /\ s = code[c]
  OBVIOUS
<1>4. ExpectedBehind(s, Inside(c)) = First[Continuation']
  BY <1>2, <1>3, FlowNow
<1> QED BY <1>1, <1>2, <1>3, <1>4, BuilderTo

\* Something is appended, and the builder stays.
LEMMA FlowOn ==
  ASSUME Flowing, phase = "compile", Called(Root), UNCHANGED <<ast, size, cur>>,
         NEW e \in Instr, code' = [code EXCEPT ![cur] = Append(@, e)],
         ~IsSilent(e), FitsSource(e), Shown(e) = First[Continuation],
         After(e) = First[Continuation']
  PROVE  FlowInv' /\ BuilderInv'
<1>1. PICK c \in Block : c = cur /\ c = cur'
  BY FlowNow
<1>2. PICK s \in Seq(Instr) : s = code[c] /\ FlowAt(c, s)
  BY <1>1, FlowNow
<1>3. FlowAt(c, Append(s, e)) /\ ExpectedBehind(Append(s, e), Inside(c)) = After(e)
  BY <1>1, <1>2, FlowNow, FlowAtAppended
<1>4. code'[c] = Append(s, e) /\ \A b \in Block : b # c => code'[b] = code[b]
  BY <1>1, <1>2, FlowNow
<1>5. FlowInv'
  BY <1>3, <1>4, FlowNow, FlowsTo
<1>6. PICK t : t = code'[c]
  OBVIOUS
<1>7. ExpectedBehind(t, Inside(c)) = First[Continuation']
  BY <1>3, <1>4, <1>6
<1> QED BY <1>1, <1>5, <1>6, <1>7, BuilderTo

\* Something is appended, and the builder goes on in a fresh block.
LEMMA FlowElsewhere ==
  ASSUME Flowing, phase = "compile", Called(Root), UNCHANGED <<ast, size>>,
         NEW s \in Seq(Instr), FlowAt(cur, s), code' = [code EXCEPT ![cur] = s],
         NEW d \in Block, cur' = d, IsFresh(d), Inside(d) = First[Continuation']
  PROVE  FlowInv' /\ BuilderInv'
<1>1. PICK c \in Block : c = cur
  BY FlowNow
<1>2. code'[c] = s /\ \A b \in Block : b # c => code'[b] = code[b]
  BY <1>1, FlowNow
<1>3. FlowInv'
  BY <1>1, <1>2, FlowNow, FlowsTo
<1>4. d # c /\ code[d] = <<>>
  BY <1>1 DEF IsFresh
<1>5. PICK t : t = code'[d] /\ t = <<>>
  BY <1>2, <1>4
<1>6. ExpectedBehind(t, Inside(d)) = First[Continuation']
  BY <1>5, FlowAtNothing
<1> QED BY <1>3, <1>5, <1>6, BuilderTo

\* A loud instruction is appended, and the builder goes on in a fresh block.
LEMMA FlowAcross ==
  ASSUME Flowing, phase = "compile", Called(Root), UNCHANGED <<ast, size>>,
         NEW e \in Instr, code' = [code EXCEPT ![cur] = Append(@, e)],
         ~IsSilent(e), FitsSource(e), Shown(e) = First[Continuation],
         NEW d \in Block, cur' = d, IsFresh(d), Inside(d) = First[Continuation']
  PROVE  FlowInv' /\ BuilderInv'
<1>1. PICK c \in Block : c = cur
  BY FlowNow
<1>2. PICK s \in Seq(Instr) : s = code[c] /\ FlowAt(c, s) /\ Shown(e) = ExpectedBehind(s, Inside(c))
  BY <1>1, FlowNow
<1>3. PICK t \in Seq(Instr) : t = Append(s, e) /\ FlowAt(c, t)
  BY <1>2, FlowAtAppended
<1>4. code' = [code EXCEPT ![cur] = t]
  BY <1>1, <1>2, <1>3, FlowNow
<1> QED BY <1>1, <1>3, <1>4, FlowElsewhere

\* What the instructions show.
LEMMA ShownInstructions ==
  /\ \A b : ~IsSilent(Br(b)) /\ FitsSource(Br(b)) /\ Shown(Br(b)) = Start(b)
  /\ \A n : \A op \in {"ret", "ret value"} :
       /\ ~IsSilent(Plain(op, n)) /\ FitsSource(Plain(op, n)) /\ Shown(Plain(op, n)) = Returning
  /\ \A n : \A op \in {"alloca", "store"} : IsSilent(Plain(op, n)) /\ FitsSource(Plain(op, n))
  /\ \A e : e.op = "eval" => /\ ~IsSilent(e) /\ Shown(e) = <<"eval", e.of>>
                             /\ e.of \in 1..size => FitsSource(e)
<1>1. \A b : Br(b).op = "br" /\ Br(b).to = <<b>>
  BY DEF Br
<1>2. \A op, n : Plain(op, n).op = op
  BY DEF Plain
<1>3. \A b : Len(<<b>>) = 1 /\ <<b>>[1] = b
  OBVIOUS
<1> QED BY <1>1, <1>2, <1>3 DEF IsSilent, FitsSource, Shown

\* The evaluation of the running statement shows that statement.
LEMMA EvaluationShown ==
  ASSUME Flowing, phase = "compile", NEW a \in 1..size, a = at, NEW e \in Evaluations
  PROVE  /\ e \in Instr /\ ~IsSilent(e) /\ FitsSource(e) /\ Shown(e) = <<"eval", a>>
         /\ e.of = a
<1>1. a \in Stmt
  BY Ranges DEF Flowing, Generating
<1>2. e \in Instr /\ e.op = "eval" /\ e.of = a
  BY <1>1, EvaluationType DEF Evaluations, Eval
<1> QED BY <1>2, ShownInstructions
------------------------------------------------------------------------------
\* The same behind an empty sequence.
LEMMA TwoAppended ==
  ASSUME NEW a \in Instr, NEW b \in Instr
  PROVE  Append(<<a>>, b) = <<a, b>>
<1>1. <<a>> \in Seq(Instr) /\ <<a, b>> \in Seq(Instr) /\ Append(<<a>>, b) \in Seq(Instr)
  OBVIOUS
<1>2. Len(Append(<<a>>, b)) = 2 /\ Len(<<a, b>>) = 2
  BY <1>1
<1>3. \A i \in 1..2 : Append(<<a>>, b)[i] = <<a, b>>[i]
  BY <1>1
<1> QED BY <1>1, <1>2, <1>3, SeqEqual

\* Two instructions appended one by one are appended at once.
LEMMA AppendedTwo ==
  ASSUME NEW s \in Seq(Instr), NEW a \in Instr, NEW b \in Instr
  PROVE  Append(Append(s, a), b) = s \o <<a, b>>
<1> DEFINE t == Append(Append(s, a), b)
           u == s \o <<a, b>>
<1>1. Append(s, a) \in Seq(Instr) /\ Len(Append(s, a)) = Len(s) + 1 /\ Len(s) \in Nat
  OBVIOUS
<1>2. t \in Seq(Instr) /\ Len(t) = Len(s) + 2
  BY <1>1
<1>3. <<a, b>> \in Seq(Instr) /\ Len(<<a, b>>) = 2
  OBVIOUS
<1>4. u \in Seq(Instr) /\ Len(u) = Len(s) + 2
  BY <1>3
<1>5. \A i \in 1..Len(s) : t[i] = s[i] /\ u[i] = s[i]
  BY <1>1, <1>3
<1>6. t[Len(s) + 1] = a /\ u[Len(s) + 1] = a
  BY <1>1, <1>3
<1>7. t[Len(s) + 2] = b /\ u[Len(s) + 2] = b
  BY <1>1, <1>3
<1>8. \A i \in 1..Len(t) : i \in 1..Len(s) \/ i = Len(s) + 1 \/ i = Len(s) + 2
  BY <1>1, <1>2
<1> HIDE DEF t, u
<1>9. \A i \in 1..Len(t) : t[i] = u[i]
  BY <1>5, <1>6, <1>7, <1>8
<1> QED BY <1>2, <1>4, <1>9, SeqEqual DEF t, u

\* The prologue: it is silent, and the builder goes on with the body.
LEMMA FunctionFlow ==
  ASSUME Flowing, CompileFunction
  PROVE  FlowInv' /\ BuilderInv'
<1>1. /\ at = 1 /\ UNCHANGED <<ast, size, phase>> /\ phase = "compile" /\ 1 \in 1..size /\ at' = at
      /\ KindOf(1) = "block" /\ ~Called(Root) /\ TreeAndTypes /\ Walking
  <2>1. TreeAndTypes /\ phase = "compile"
    BY DEF Flowing, Generating, CompileFunction, Generates
  <2> QED BY <2>1, FunctionStarts, FlowNow
          DEF CompileFunction, Generates, TreeAndTypes, TreeInv, Root, Entering, Called
<1>2. \A b \in Block : code[b] = <<>>
  BY <1>1 DEF Flowing, Generating, CodeInv, NoCodeYet
<1>3. PICK s \in Seq(Instr) : s = Prologue
  BY PrologueType
<1>4. code'[Entry] = s /\ cur' = Entry /\ \A b \in Block : b # Entry => code'[b] = <<>>
  BY <1>1, <1>2, <1>3, BlockNames, FlowNow DEF CompileFunction
<1>5. \A i \in 1..Len(s) : IsSilent(s[i]) /\ FitsSource(s[i])
  <2> SUFFICES ASSUME NEW i \in 1..Len(Prologue)
               PROVE  IsSilent(Prologue[i]) /\ FitsSource(Prologue[i])
    BY <1>3
  <2>1. 2 * Len(Params) \in Nat /\ Len(Params) \in Nat
    BY AstAssumption
  <2>2. Len(Prologue) = 2 * Len(Params)
    BY <2>1 DEF Prologue
  <2>3. Prologue[i] = Plain(IF i <= Len(Params) THEN "alloca" ELSE "store", None)
    BY <2>1, <2>2 DEF Prologue
  <2> QED BY <2>3, ShownInstructions
<1>6. FlowAt(Entry, s) /\ ExpectedBehind(s, Inside(Entry)) = Inside(Entry)
  BY <1>5, FlowsSilent DEF FlowAt
<1>7. FlowInv'
  BY <1>1, <1>4, <1>6, FlowAtNothing, FlowsTo
<1>8. Enters
  BY <1>1 DEF CompileFunction, Generates, Enters, LeafKind
<1>9. Inside(Entry) = First[Continuation']
  <2>1. Continuation' = FromEntered(1)
    BY <1>1, <1>8, EnteredAhead
  <2>2. First[Enter(1)] = First[FromEntered(1)]
    BY <1>1, FirstEntered DEF Walking, EvalKind
  <2> QED BY <2>1, <2>2, Places DEF Root
<1> QED BY <1>1, <1>4, <1>6, <1>7, <1>9, BuilderTo

\* The statement that is called is the next thing to happen.
LEMMA EnterNow ==
  ASSUME Flowing, phase = "compile", NEW a \in 1..size, a = at, Entering, ~IsDecl(a)
  PROVE  Continuation = Enter(a) /\ Walkable /\ Walking
BY FlowNow DEF Continuation, Walking

\* A nested block is only entered; a labeled statement branches to its label.
LEMMA ScopeFlow ==
  ASSUME Flowing, CompileScope, phase' = "compile"
  PROVE  FlowInv' /\ BuilderInv'
<1>1. /\ phase = "compile" /\ at # None /\ at # Root /\ UNCHANGED <<ast, size>> /\ TreeAndTypes
      /\ KindOf(at) \in {"block", "labeled"} /\ Entering /\ Enters
  BY DEF Flowing, Generating, CompileScope, Generates, Enters, LeafKind
<1>2. PICK a \in 1..size : a = at
  BY <1>1, Basics DEF None
<1>3. Called(Root) /\ Continuation = Enter(a) /\ Walkable /\ Walking
  <2>1. ~IsDecl(a)
    BY <1>1, <1>2 DEF IsDecl
  <2> QED BY <1>1, <1>2, <2>1, EnterNow, RootIsCalled
<1>4. CASE KindOf(a) = "block"
  <2>1. UNCHANGED <<code, cur>>
    BY <1>2, <1>4 DEF CompileScope
  <2>2. First[Enter(a)] = First[FromEntered(a)]
    BY <1>3, <1>4, FirstEntered DEF EvalKind
  <2>3. Continuation' = FromEntered(a)
    BY <1>1, <1>2, <1>3, <1>4, EnteredAhead
  <2> QED BY <1>1, <1>3, <2>1, <2>2, <2>3, FlowKept
<1>5. CASE KindOf(a) = "labeled"
  <2>1. a \in OfKind("labeled") /\ ast[a].name \in Label
    <3>1. ast[a].name \in HeadNames("labeled")
      BY <1>1, <1>5 DEF TreeAndTypes, TreeInv, KindOf
    <3> QED BY <1>5, <3>1, HeadNamesType DEF OfKind, KindOf
  <2>2. PICK d \in Block : d = LabelBlock(ast[a].name)
    BY <2>1, BlockNames
  <2>3. code' = [code EXCEPT ![cur] = Append(@, Br(d))] /\ cur' = d
    BY <1>2, <1>5, <2>2 DEF CompileScope
  <2>4. IsFresh(d)
    BY <1>1, <1>2, <2>1, <2>2 DEF Flowing, Generating, CodeInv, FreshBlocks, Entering, Called
  <2>5. Labeled(ast[a].name) = a
    BY <1>1, <1>5, LabeledIs DEF Flowing, Generating
  <2>6. Start(d) = First[Enter(a)] /\ Inside(d) = First[Enter(Kids(a)[1])]
    BY <2>2, <2>5, Places
  <2>7. Continuation' = Enter(Kids(a)[1])
    BY <1>1, <1>2, <1>3, <1>5, EnteredAhead
  <2>8. PICK e \in Instr : e = Br(d)
    BY InstrTypes
  <2>9. ~IsSilent(e) /\ FitsSource(e) /\ Shown(e) = First[Continuation]
    BY <1>3, <2>6, <2>8, ShownInstructions
  <2>10. code' = [code EXCEPT ![cur] = Append(@, e)]
    BY <2>3, <2>8
  <2>11. Inside(d) = First[Continuation']
    BY <2>6, <2>7
  <2> QED BY <1>1, <1>3, <2>3, <2>4, <2>9, <2>10, <2>11, FlowAcross
<1> QED BY <1>1, <1>2, <1>4, <1>5

\* A while statement has no second child.
LEMMA LoopKids ==
  ASSUME Walking, NEW n \in 1..size, KindOf(n) = "while"
  PROVE  Len(Kids(n)) # 2
<1>1. PICK l \in Nat : l = Len(Kids(n))
  BY FirstKid DEF BranchKind
<1>2. l <= 1
  BY <1>1 DEF Walking, KidsInv
<1>3. l # 2
  BY <1>2
<1> QED BY <1>1, <1>3

\* A condition: a branch to its header, evaluation, and the two sides.
LEMMA ConditionFlow ==
  ASSUME Flowing, CompileCondition, phase' = "compile"
  PROVE  FlowInv' /\ BuilderInv'
<1>0. TreeAndTypes /\ CodeInv
  BY DEF Flowing, Generating
<1>1. PICK a \in 1..size : a = at
  BY <1>0, Basics DEF CompileCondition, Generates, None
<1>2. /\ phase = "compile" /\ at # None /\ at # Root /\ KindOf(a) \in {"if", "while"}
      /\ UNCHANGED <<ast, size, labels>> /\ Enters /\ Entering
  BY <1>0, <1>1, ConditionEffects DEF Enters
<1>3. Called(Root) /\ Continuation = Enter(a) /\ Walkable /\ Walking
  <2>1. ~IsDecl(a)
    BY <1>2 DEF IsDecl
  <2> QED BY <1>0, <1>1, <1>2, <2>1, EnterNow, RootIsCalled
<1>4. PICK e \in Evaluations, h \in Block, f \in Block, g \in Block : WritesCondition(a, e, h, f, g)
  BY <1>0, <1>1, ConditionEffects
<1>5. /\ h = <<"header", a>> /\ f = <<FirstRole, a>> /\ g = <<FalseRole, a>>
      /\ cur' = f /\ cur # h /\ code[h] = <<>>
      /\ FirstRole \in {"body", "then"} /\ FalseRole \in {"else", "end"}
      /\ code' = [code EXCEPT ![cur] = Append(@, Br(h)), ![h] = <<e, CondBr(a, f, g)>>]
  BY <1>4 DEF WritesCondition
<1>6. PICK c \in Block : c = cur
  BY <1>2, FlowNow
<1>7. PICK s \in Seq(Instr) : s = code[c] /\ FlowAt(c, s)
                              /\ ExpectedBehind(s, Inside(c)) = First[Enter(a)]
  BY <1>2, <1>3, <1>6, FlowNow
<1>8. First[Enter(a)] = <<"eval", a>>
  BY <1>2, <1>3, FirstEntered DEF EvalKind
<1>9. PICK i \in Instr : i = Br(h)
  BY InstrTypes
<1>10. FlowAt(c, Append(s, i))
  <2>1. ~IsSilent(i) /\ FitsSource(i) /\ Shown(i) = Start(h)
    BY <1>9, ShownInstructions
  <2>2. Start(h) = First[Enter(a)]
    BY <1>5, Places
  <2> QED BY <1>7, <2>1, <2>2, FlowAtAppended
<1>11. PICK k \in Instr : k = CondBr(a, f, g)
  BY <1>1, <1>0, Ranges, InstrTypes
<1>12. FlowAt(h, <<e, k>>)
  <2>1. e \in Instr /\ ~IsSilent(e) /\ FitsSource(e) /\ Shown(e) = <<"eval", a>> /\ e.of = a
    BY <1>1, <1>2, EvaluationShown
  <2>2. PICK q \in Seq(Instr) : /\ q = <<>> /\ FlowAt(h, q)
                                /\ ExpectedBehind(q, Inside(h)) = First[Enter(a)]
    <3>1. FlowAt(h, <<>>) /\ ExpectedBehind(<<>>, Inside(h)) = First[Enter(a)]
      BY <1>5, FlowAtNothing, Places
    <3>2. <<>> \in Seq(Instr)
      OBVIOUS
    <3> QED BY <3>1, <3>2
  <2>3. Shown(e) = ExpectedBehind(q, Inside(h))
    BY <1>8, <2>1, <2>2
  <2>4. PICK u \in Seq(Instr) : /\ u = Append(q, e) /\ FlowAt(h, u)
                                /\ ExpectedBehind(u, Inside(h)) = After(e)
    <3>1. PICK j \in Instr : j = e /\ ~IsSilent(j) /\ FitsSource(j)
                              /\ Shown(j) = ExpectedBehind(q, Inside(h))
      BY <2>1, <2>3
    <3>2. /\ FlowAt(h, Append(q, j)) /\ Append(q, j) \in Seq(Instr)
          /\ ExpectedBehind(Append(q, j), Inside(h)) = After(j)
      BY <2>2, <3>1, FlowAtAppended
    <3> QED BY <3>1, <3>2
  <2>5. After(e) = <<"branch", a>>
    BY <1>2, <2>1 DEF After
  <2>6. k.op = "condbr" /\ k.of = a /\ k.to = <<f, g>>
    BY <1>11 DEF CondBr
  <2>7. ~IsSilent(k) /\ Shown(k) = <<"branch", a>>
    BY <2>6 DEF IsSilent, Shown
  <2>8. FitsSource(k)
    <3>1. Len(k.to) = 2 /\ k.to[1] = f /\ k.to[2] = g
      BY <2>6
    <3>2. Start(f) = First[Enter(Kids(a)[1])]
      BY <1>5, Places
    <3>3. Start(g) = FalseSide(a)
      <4>1. CASE KindOf(a) = "while"
        <5>1. Len(Kids(a)) # 2
          BY <1>3, <4>1, LoopKids
        <5>2. g = <<"end", a>>
          BY <1>1, <1>5, <4>1 DEF FalseRole
        <5> QED BY <5>1, <5>2, Places DEF FalseSide
      <4>2. CASE KindOf(a) = "if"
        <5>1. g = IF Len(Kids(a)) = 2 THEN <<"else", a>> ELSE <<"end", a>>
          BY <1>1, <1>5, <4>2 DEF FalseRole, HasElse
        <5> QED BY <5>1, Places DEF FalseSide
      <4> QED BY <1>2, <4>1, <4>2
    <3> QED BY <2>6, <3>1, <3>2, <3>3 DEF FitsSource
  <2>9. FlowAt(h, Append(u, k))
    BY <2>4, <2>5, <2>7, <2>8, FlowAtAppended
  <2>10. Append(u, k) = <<e, k>>
    <3>1. Append(<<>>, e) = <<e>>
      OBVIOUS
    <3> QED BY <2>1, <2>2, <2>4, <3>1, TwoAppended
  <2> QED BY <2>9, <2>10
<1>13. /\ code'[c] = Append(s, i) /\ code'[h] = <<e, k>>
       /\ \A b \in Block : b # c /\ b # h => code'[b] = code[b]
  <2>1. code' = [code EXCEPT ![c] = Append(@, i), ![h] = <<e, k>>]
    BY <1>5, <1>6, <1>9, <1>11
  <2> QED BY <1>2, <1>5, <1>6, <1>7, <2>1, FlowNow
<1>14. FlowInv'
  BY <1>2, <1>10, <1>12, <1>13, FlowNow, FlowsTo
<1>15. f # c /\ f # h /\ code[f] = <<>>
  <2>1. FirstRole \in Roles /\ FirstRole # "header"
    BY <1>5 DEF Roles
  <2>2. IsFresh(f)
    BY <1>0, <1>1, <1>2, <1>5, <2>1, Ranges DEF CodeInv, FreshBlocks, Entering, Called
  <2> QED BY <1>5, <1>6, <2>1, <2>2 DEF IsFresh
<1>16. PICK t : t = code'[f] /\ t = <<>>
  BY <1>13, <1>15
<1>17. Inside(f) = First[Continuation']
  <2>1. Continuation' = Enter(Kids(a)[1])
    BY <1>1, <1>2, <1>3, EnteredAhead
  <2> QED BY <1>5, <2>1, Places
<1>18. ExpectedBehind(t, Inside(f)) = First[Continuation']
  BY <1>16, <1>17, FlowAtNothing
<1> QED BY <1>2, <1>5, <1>14, <1>16, <1>18, BuilderTo
------------------------------------------------------------------------------
\* A handler that has been called back goes on with what is ahead of it.
LEMMA ResumedAhead ==
  ASSUME Flowing, phase = "compile", NEW a \in 1..size, a = at, Resuming
  PROVE  /\ Continuation = Ahead(a) /\ Walkable /\ Walking /\ Called(Root)
         /\ IsRunning(a) /\ KindOf(a) \notin LeafKind
<1>1. TreeAndTypes /\ Walking /\ Walkable
  BY FlowNow DEF Walking
<1>2. IsRunning(a) /\ KindOf(a) \notin LeafKind
  BY <1>1 DEF Resuming, IsRunning, Walking, PathInv, Walks
<1>3. ~IsDecl(a) /\ ~Entering
  BY <1>2 DEF IsDecl, LeafKind, Resuming, Entering
<1>4. Called(Root)
  BY <1>1, RootIsCalled, Basics DEF None
<1> QED BY <1>1, <1>2, <1>3, <1>4 DEF Continuation

\* The next child is called; in front of an else is the jump over it.
LEMMA ChildFlow ==
  ASSUME Flowing, CompileChild
  PROVE  FlowInv' /\ BuilderInv'
<1>0. TreeAndTypes /\ CodeInv /\ ShapeInv
  BY DEF Flowing, Generating
<1>1. /\ phase = "compile" /\ at # None /\ Resuming /\ UNCHANGED <<ast, size, status>>
  BY DEF CompileChild
<1>2. PICK a \in 1..size : a = at
  BY <1>0, <1>1, Basics DEF None
<1>3. /\ Continuation = Ahead(a) /\ Walkable /\ Walking /\ Called(Root)
      /\ IsRunning(a) /\ KindOf(a) \notin LeafKind
  BY <1>1, <1>2, ResumedAhead
<1>4. PICK i \in 1..Len(Kids(a)) :
        /\ ~Called(Kids(a)[i])
        /\ \A j \in 1..Len(Kids(a)) : CompiledBefore(Kids(a)[j], Kids(a)[i]) => Called(Kids(a)[j])
        /\ at' = Kids(a)[i]
        /\ IsElse(i) => /\ code' = [code EXCEPT ![cur] = Append(@, Br(<<"end", a>>))]
                        /\ cur' = <<"else", a>>
        /\ ~IsElse(i) => UNCHANGED <<code, cur>>
  BY <1>2 DEF CompileChild
<1>5. PICK k \in 2..size : k = Kids(a)[i] /\ Parent(k) = a /\ a < k /\ k \in 1..size
  BY <1>0, <1>4, Basics, Ranges
<1>6. at' = k /\ ~Called(k) /\ status'[k] = "uncalled"
  BY <1>1, <1>4, <1>5 DEF Called
<1>7. IsDecl(k) => Continuation' = Ahead(a)'
  BY <1>1, <1>5, <1>6, ContinuesThen
<1>8. ~IsDecl(k) => Continuation' = Enter(k)
  BY <1>1, <1>5, <1>6, ContinuesThen
<1>9. Ahead(a)' = Ahead(a)
  BY <1>1 DEF Ahead, Parent, LeftToCall, Called, KindOf, Kids, IsDecl, Enter, Leave, Smallest
<1>10. CASE KindOf(a) = "block"
  <2>1. UNCHANGED <<code, cur>>
    BY <1>2, <1>4, <1>10 DEF IsElse
  <2>2. ASSUME ~IsDecl(k) PROVE Ahead(a) = Enter(k)
    <3>1. k \in LeftToCall(a) /\ LeftToCall(a) \subseteq Nat
      BY <1>0, <1>5, <1>6, <2>2, Basics DEF LeftToCall
    <3>2. ASSUME NEW m \in LeftToCall(a) PROVE k <= m
      <4>1. m \in 1..size /\ Parent(m) = a /\ ~IsDecl(m) /\ ~Called(m)
        BY <3>2 DEF LeftToCall
      <4>2. m \in 2..size
        <5>1. Parent(1) = 0
          BY <1>0, <4>1, Ranges DEF TreeAndTypes, TreeInv, Root, None
        <5> QED BY <4>1, <5>1
      <4>3. PICK j \in 1..Len(Kids(a)) : Kids(a)[j] = m
        BY <1>0, <1>1, <4>1, <4>2 DEF ShapeInv, Walks, Joined, IsKid
      <4>4. ~(m < k)
        BY <1>4, <1>5, <2>2, <4>1, <4>3 DEF CompiledBefore, IsDecl
      <4> QED BY <4>1, <4>4
    <3>3. Smallest(LeftToCall(a)) = k
      BY <3>1, <3>2, SmallestUnique
    <3> QED BY <1>10, <3>1, <3>3 DEF Ahead
  <2>3. Continuation' = Continuation
    BY <1>3, <1>7, <1>8, <1>9, <2>2
  <2>4. First[Continuation] = First[Continuation']
    BY <2>3
  <2> QED BY <1>1, <1>3, <2>1, <2>4, FlowKept
<1>11. CASE KindOf(a) \in BranchKind
  <2>1. ~IsDecl(k)
    BY <1>0, <1>5, <1>11 DEF ShapeInv, OfKind, IsDecl, KindOf, BranchKind
  <2>2. /\ KindOf(a) \in {"while", "labeled"} => Kids(a)[1] = k
        /\ KindOf(a) = "if" => Kids(a)[1] = k \/ (Kids(a)[1] < k /\ Kids(a)[2] = k)
    BY <1>3, <1>5, BranchKids
  <2>3. /\ Len(Kids(a)) \in Nat /\ 1 \in 1..Len(Kids(a))
        /\ Kids(a)[1] \in 2..size /\ ~IsDecl(Kids(a)[1])
    BY <1>3, <1>11, FirstKid
  <2>4. \A j, l \in 1..Len(Kids(a)) : j < l => Kids(a)[j] < Kids(a)[l]
    BY <1>0 DEF ShapeInv
  <2>5. CASE Kids(a)[1] = k
    <3>1. i = 1
      <4>1. ~(1 < i)
        BY <1>0, <1>4, <1>5, <2>3, <2>4, <2>5, Basics
      <4> QED BY <2>3, <4>1
    <3>2. UNCHANGED <<code, cur>>
      BY <1>4, <3>1 DEF IsElse
    <3>3. Ahead(a) = Enter(k)
      BY <1>6, <1>11, <2>5 DEF Ahead, BranchKind
    <3>4. First[Continuation] = First[Continuation']
      BY <1>3, <1>8, <2>1, <3>3
    <3> QED BY <1>1, <1>3, <3>2, <3>4, FlowKept
  <2>6. CASE Kids(a)[1] # k
    <3>1. KindOf(a) = "if" /\ Kids(a)[1] < k /\ Kids(a)[2] = k
      BY <1>11, <2>2, <2>6 DEF BranchKind
    <3>2. i = 2 /\ Len(Kids(a)) >= 2
      <4>1. Len(Kids(a)) <= 2
        BY <1>0, <3>1 DEF ShapeInv, OfKind, KindOf
      <4>2. i # 1
        BY <1>5, <2>6
      <4> QED BY <2>3, <4>1, <4>2
    <3>3. Called(Kids(a)[1])
      BY <1>4, <1>5, <2>1, <2>3, <3>1 DEF CompiledBefore, IsDecl
    <3>4. Ahead(a) = Leave(a)
      BY <3>1, <3>3 DEF Ahead
    <3>5. IsElse(i)
      BY <1>2, <3>1, <3>2 DEF IsElse
    <3>6. PICK g \in Block : g = <<"end", a>>
      BY <1>0, BlockNames, Ranges DEF Roles
    <3>7. PICK d \in Block : d = <<"else", a>>
      BY <1>0, BlockNames, Ranges DEF Roles
    <3>8. PICK e \in Instr : e = Br(g)
      BY InstrTypes
    <3>9. code' = [code EXCEPT ![cur] = Append(@, e)] /\ cur' = d
      BY <1>4, <3>5, <3>6, <3>7, <3>8
    <3>10. IsFresh(d)
      <4>1. status[a] = "running" /\ ~Called(Kids(a)[2]) /\ at # Kids(a)[2]
        BY <1>2, <1>3, <1>5, <1>6, <3>1 DEF IsRunning
      <4> QED BY <1>0, <1>1, <3>1, <3>2, <3>7, <4>1 DEF CodeInv, FreshBlocks
    <3>11. ~IsSilent(e) /\ FitsSource(e) /\ Shown(e) = First[Continuation]
      <4>1. Start(g) = First[Leave(a)]
        BY <3>6, Places
      <4> QED BY <1>3, <3>4, <3>8, <4>1, ShownInstructions
    <3>12. Inside(d) = First[Continuation']
      <4>1. Inside(d) = First[Enter(Kids(a)[2])]
        BY <3>7, Places
      <4> QED BY <1>8, <2>1, <3>1, <4>1
    <3> QED BY <1>1, <1>3, <3>9, <3>10, <3>11, <3>12, FlowAcross
  <2> QED BY <2>5, <2>6
<1>12. KindOf(a) \in Kind
  <2>1. a \in Stmt /\ ast \in [Stmt -> Statement]
    BY <1>0, Basics
  <2> QED BY <2>1 DEF Statement, KindOf
<1> QED BY <1>3, <1>10, <1>11, <1>12 DEF Kind

\* An if or a while ends with a branch to its end or its header.
LEMMA LeaveFlow ==
  ASSUME Flowing, LeaveCompiled
  PROVE  FlowInv' /\ BuilderInv'
<1>0. TreeAndTypes /\ CodeInv /\ ShapeInv
  BY DEF Flowing, Generating
<1>1. /\ phase = "compile" /\ at \notin {None, Root} /\ Resuming /\ UNCHANGED <<ast, size>>
      /\ AllCalled(Kids(at)) /\ Leaves
  BY DEF LeaveCompiled, Leaves
<1>2. PICK a \in 1..size : a = at
  BY <1>0, <1>1, Basics DEF None
<1>3. /\ Continuation = Ahead(a) /\ Walkable /\ Walking /\ Called(Root)
      /\ IsRunning(a) /\ KindOf(a) \notin LeafKind
  BY <1>1, <1>2, ResumedAhead
<1>4. ~IsDecl(a)
  BY <1>3 DEF IsDecl, LeafKind
<1>5. First[Leave(a)] = First[Continuation']
  BY <1>1, <1>2, <1>3, <1>4, LeftAhead
<1>6. \A j \in 1..Len(Kids(a)) : Called(Kids(a)[j])
  BY <1>1, <1>2 DEF AllCalled
<1>7. ASSUME KindOf(a) \in BranchKind
      PROVE  Ahead(a) = IF KindOf(a) = "while" THEN Enter(a) ELSE Leave(a)
  <2>1. Called(Kids(a)[1])
    <3>1. 1 \in 1..Len(Kids(a))
      BY <1>3, <1>7, FirstKid
    <3> QED BY <1>6, <3>1
  <2> QED BY <1>7, <2>1 DEF Ahead, BranchKind
<1>8. CASE KindOf(a) \in {"if", "while"}
  <2>1. PICK g \in Block : g = IF KindOf(a) = "while" THEN <<"header", a>> ELSE <<"end", a>>
    BY <1>0, BlockNames, Ranges DEF Roles
  <2>2. PICK d \in Block : d = <<"end", a>>
    BY <1>0, BlockNames, Ranges DEF Roles
  <2>3. PICK e \in Instr : e = Br(g)
    BY InstrTypes
  <2>4. code' = [code EXCEPT ![cur] = Append(@, e)] /\ cur' = d
    BY <1>2, <1>8, <2>1, <2>2, <2>3 DEF LeaveCompiled, BackTo
  <2>5. IsFresh(d)
    BY <1>0, <1>1, <1>3, <1>8, <2>2 DEF CodeInv, FreshBlocks, IsRunning
  <2>6. ~IsSilent(e) /\ FitsSource(e) /\ Shown(e) = First[Continuation]
    <3>1. Start(g) = First[Ahead(a)]
      BY <1>7, <1>8, <2>1, Places DEF BranchKind
    <3> QED BY <1>3, <2>3, <3>1, ShownInstructions
  <2>7. Inside(d) = First[Continuation']
    <3>1. Inside(d) = First[Leave(a)]
      BY <2>2, Places
    <3> QED BY <1>5, <3>1
  <2> QED BY <1>1, <1>3, <2>4, <2>5, <2>6, <2>7, FlowAcross
<1>9. CASE KindOf(a) \notin {"if", "while"}
  <2>1. UNCHANGED <<code, cur>>
    BY <1>2, <1>9 DEF LeaveCompiled
  <2>2. Ahead(a) = Leave(a)
    <3>1. CASE KindOf(a) = "block"
      <4>1. LeftToCall(a) = {}
        <5> SUFFICES ASSUME NEW m \in LeftToCall(a) PROVE FALSE
          OBVIOUS
        <5>1. m \in 1..size /\ Parent(m) = a /\ ~Called(m)
          BY DEF LeftToCall
        <5>2. m \in 2..size
          <6>1. Parent(1) = 0
            BY <1>0, <5>1, Ranges DEF TreeAndTypes, TreeInv, Root, None
          <6> QED BY <5>1, <6>1
        <5>3. PICK j \in 1..Len(Kids(a)) : Kids(a)[j] = m
          BY <1>0, <1>1, <5>1, <5>2 DEF ShapeInv, Walks, Joined, IsKid
        <5> QED BY <1>6, <5>1, <5>3
      <4> QED BY <3>1, <4>1 DEF Ahead
    <3>2. CASE KindOf(a) \in BranchKind
      BY <1>7, <1>9, <3>2 DEF BranchKind
    <3>3. KindOf(a) \in Kind
      <4>1. a \in Stmt /\ ast \in [Stmt -> Statement]
        BY <1>0, Basics
      <4> QED BY <4>1 DEF Statement, KindOf
    <3> QED BY <1>3, <3>1, <3>2, <3>3 DEF Kind
  <2>3. First[Continuation] = First[Continuation']
    BY <1>3, <1>5, <2>2
  <2> QED BY <1>1, <1>3, <2>1, <2>3, FlowKept
<1> QED BY <1>8, <1>9

\* A declaration only adds a silent instruction to the entry block.
LEMMA DeclarationFlow ==
  ASSUME Flowing, CompileDeclaration
  PROVE  FlowInv' /\ BuilderInv'
<1>0. TreeAndTypes /\ ShapeInv /\ PathInv
  BY DEF Flowing, Generating
<1>1. /\ phase = "compile" /\ at # None /\ KindOf(at) = "declaration" /\ Entering /\ Return
      /\ UNCHANGED <<ast, size, cur>>
  BY DEF CompileDeclaration, Generates
<1>2. PICK a \in 1..size : a = at
  BY <1>0, <1>1, Basics DEF None
<1>3. at \notin {None, Root} /\ Called(Root) /\ a \in 2..size
  <2>1. at \notin {None, Root}
    BY <1>0, <1>1, InnerStatement
  <2> QED BY <1>0, <1>1, <1>2, <2>1, RootIsCalled, Ranges DEF Root
<1>4. PICK p \in 1..size : p = Parent(a) /\ IsRunning(p) /\ p # a /\ KindOf(p) = "block"
  <2>1. Parent(a) \in 1..size /\ IsRunning(Parent(a)) /\ Parent(a) < a
    BY <1>0, <1>1, <1>2, <1>3, LargestRunning DEF Walks
  <2>2. KindOf(Parent(a)) = "block"
    BY <1>0, <1>1, <1>2 DEF ShapeInv, OfKind, KindOf
  <2> QED BY <2>1, <2>2
<1>5. Continuation = Ahead(p)
  BY <1>1, <1>2, <1>4 DEF Continuation, IsDecl
<1>6. status'[a] = "returned" /\ \A n \in 1..size : n # a => status'[n] = status[n]
  <2>1. status' = [status EXCEPT ![a] = "returned"]
    BY <1>1, <1>2 DEF Return
  <2> QED BY <1>0, <1>2, <2>1, StatusAfter
<1>7. Continuation' = Ahead(p)'
  <2>1. at' = p /\ ~IsDecl(p) /\ status'[p] = "running"
    BY <1>1, <1>2, <1>4, <1>6 DEF Return, IsDecl, IsRunning
  <2> QED BY <1>1, <2>1, ContinuesThen
<1>8. Ahead(p)' = Ahead(p)
  <2>1. LeftThen(p) = LeftToCall(p)
    BY <1>1, <1>2, <1>6 DEF LeftThen, LeftToCall, Called, IsDecl
  <2> QED BY <1>1, <1>4, <2>1, AheadThen DEF Ahead
<1>9. First[Continuation] = First[Continuation']
  BY <1>5, <1>7, <1>8
<1>10. CASE UNCHANGED code
  BY <1>1, <1>3, <1>9, <1>10, FlowKept
<1>11. CASE code' = [code EXCEPT ![Entry] = AddAlloca(@)]
  <2>1. PICK e \in Instr : e = Plain("alloca", a)
    BY <1>0, <1>2, InstrTypes, Ranges
  <2>2. IsSilent(e) /\ FitsSource(e)
    BY <2>1, ShownInstructions
  <2>3. PICK y \in Block : y = Entry
    BY BlockNames
  <2>4. PICK s \in Seq(Instr) : s = code[y] /\ FlowAt(y, s)
    BY <1>1, <2>3, FlowNow
  <2>5. PICK t \in Seq(Instr) : t = AddAlloca(s) /\ t = (IF allocaAtEnd THEN Append(s, e) ELSE <<e>> \o s)
    <3>1. Append(s, e) \in Seq(Instr) /\ <<e>> \o s \in Seq(Instr)
      BY AppendedElements, PrependedElements
    <3>2. AddAlloca(s) = (IF allocaAtEnd THEN Append(s, e) ELSE <<e>> \o s)
      BY <1>2, <2>1 DEF AddAlloca
    <3> QED BY <3>1, <3>2
  <2>6. FlowAt(y, t) /\ ExpectedBehind(t, Inside(y)) = ExpectedBehind(s, Inside(y))
    <3>1. CASE allocaAtEnd
      BY <2>2, <2>4, <2>5, <3>1, FlowAtAppended
    <3>2. CASE ~allocaAtEnd
      <4>1. t = <<e>> \o s
        BY <2>5, <3>2
      <4>2. PICK x : x = Inside(y)
        OBVIOUS
      <4>3. Flows(t, x) /\ ExpectedBehind(t, x) = ExpectedBehind(s, x)
        BY <2>2, <2>4, <4>1, <4>2, FlowsPrepended DEF FlowAt
      <4>4. /\ Len(t) = Len(s) + 1 /\ Len(s) \in Nat /\ t[1] = e
            /\ \A j \in 1..Len(s) : t[j + 1] = s[j]
        BY <4>1, PrependedElements
      <4>5. \A i \in 1..Len(t) : FitsSource(t[i])
        <5> SUFFICES ASSUME NEW i \in 1..Len(t), i # 1 PROVE FitsSource(t[i])
          BY <2>2, <4>4
        <5>1. PICK j \in 1..Len(s) : i = j + 1
          <6>1. i - 1 \in 1..Len(s) /\ i = (i - 1) + 1
            BY <4>4
          <6> QED BY <6>1
        <5> QED BY <2>4, <4>4, <5>1 DEF FlowAt
      <4> QED BY <4>2, <4>3, <4>5 DEF FlowAt
    <3> QED BY <3>1, <3>2
  <2>7. code'[y] = t /\ \A b \in Block : b # y => code'[b] = code[b]
    BY <1>1, <1>11, <2>3, <2>4, <2>5, FlowNow
  <2>8. FlowInv'
    BY <1>1, <2>6, <2>7, FlowNow, FlowsTo
  <2>9. PICK c \in Block : c = cur /\ c = cur'
    BY <1>1, FlowNow
  <2>10. PICK u : u = code'[c]
    OBVIOUS
  <2>11. ExpectedBehind(u, Inside(c)) = First[Continuation']
    <3>1. ExpectedBehind(code[c], Inside(c)) = First[Continuation']
      BY <1>1, <1>3, <1>9, <2>9, FlowNow
    <3>2. CASE c = y
      BY <2>4, <2>6, <2>7, <2>10, <3>1, <3>2
    <3>3. CASE c # y
      BY <2>7, <2>10, <3>1, <3>3
    <3> QED BY <3>2, <3>3
  <2> QED BY <1>1, <2>8, <2>9, <2>10, <2>11, BuilderTo
<1> QED BY <1>10, <1>11 DEF CompileDeclaration
------------------------------------------------------------------------------
\* A leaf that returns at once.
LEMMA LeafNow ==
  ASSUME Flowing, NEW K, K \subseteq LeafKind \ {"declaration"}, Generates(K), Return,
         UNCHANGED <<ast, size>>, NEW a, a = at
  PROVE  /\ phase = "compile" /\ a \in 1..size /\ KindOf(a) \in K /\ Called(Root)
         /\ Continuation = Enter(a) /\ Walkable /\ Walking /\ TreeAndTypes
         /\ First[Leave(a)] = First[Continuation']
         /\ \A r \in Roles : <<r, a>> \in Block /\ IsFresh(<<r, a>>)
<1>0. TreeAndTypes /\ CodeInv
  BY DEF Flowing, Generating
<1>1. /\ phase = "compile" /\ at # None /\ KindOf(a) \in K /\ Entering /\ KindOf(a) \in LeafKind
      /\ ~IsDecl(a) /\ KindOf(a) # "block"
  BY DEF Generates, IsDecl, LeafKind
<1>2. a \in 1..size /\ at \notin {None, Root}
  BY <1>0, <1>1, InnerStatement, Basics DEF None
<1>3. Continuation = Enter(a) /\ Walkable /\ Walking /\ Called(Root)
  BY <1>0, <1>1, <1>2, EnterNow, RootIsCalled
<1>4. Leaves
  BY <1>1, <1>2 DEF Leaves
<1>5. First[Leave(a)] = First[Continuation']
  BY <1>1, <1>2, <1>3, <1>4, LeftAhead
<1>6. \A r \in Roles : <<r, a>> \in Block /\ IsFresh(<<r, a>>)
  BY <1>0, <1>1, <1>2, BlockNames, Ranges DEF CodeInv, FreshBlocks, Entering, Called
<1> QED BY <1>0, <1>1, <1>2, <1>3, <1>5, <1>6

\* An expression statement evaluates, and leaves.
LEMMA ExpressionFlow ==
  ASSUME Flowing, CompileExpression, phase' = "compile"
  PROVE  FlowInv' /\ BuilderInv'
<1>1. PICK a : a = at
  OBVIOUS
<1>2. Generates({"expression"}) /\ Return /\ UNCHANGED <<ast, size, cur>>
  BY DEF CompileExpression
<1>3. /\ phase = "compile" /\ a \in 1..size /\ KindOf(a) = "expression" /\ Called(Root)
      /\ Continuation = Enter(a) /\ Walkable /\ First[Leave(a)] = First[Continuation']
  <2>1. {"expression"} \subseteq LeafKind \ {"declaration"}
    BY DEF LeafKind
  <2> QED BY <1>1, <1>2, <2>1, LeafNow
<1>4. PICK e \in Evaluations : code' = [code EXCEPT ![cur] = Append(@, e)]
  BY DEF CompileExpression
<1>5. e \in Instr /\ ~IsSilent(e) /\ FitsSource(e) /\ Shown(e) = <<"eval", a>> /\ e.of = a
  BY <1>1, <1>3, EvaluationShown
<1>6. First[Enter(a)] = <<"eval", a>>
  BY <1>3, FirstEntered DEF EvalKind
<1>7. Shown(e) = First[Continuation] /\ After(e) = First[Continuation']
  BY <1>3, <1>5, <1>6 DEF After
<1>8. PICK i \in Instr : i = e
  BY <1>5
<1>9. /\ code' = [code EXCEPT ![cur] = Append(@, i)] /\ ~IsSilent(i) /\ FitsSource(i)
      /\ Shown(i) = First[Continuation] /\ After(i) = First[Continuation']
  BY <1>4, <1>5, <1>7, <1>8
<1> QED BY <1>2, <1>3, <1>9, FlowOn

\* An empty statement leaves.
LEMMA EmptyFlow ==
  ASSUME Flowing, CompileEmpty
  PROVE  FlowInv' /\ BuilderInv'
<1>1. PICK a : a = at
  OBVIOUS
<1>2. Generates({"empty"}) /\ Return /\ UNCHANGED <<ast, size, cur, code>>
  BY DEF CompileEmpty, codegenVars
<1>3. /\ phase = "compile" /\ a \in 1..size /\ KindOf(a) = "empty" /\ Called(Root)
      /\ Continuation = Enter(a) /\ Walkable /\ First[Leave(a)] = First[Continuation']
  <2>1. {"empty"} \subseteq LeafKind \ {"declaration"}
    BY DEF LeafKind
  <2> QED BY <1>1, <1>2, <2>1, LeafNow
<1>4. First[Enter(a)] = First[Leave(a)]
  BY <1>3, FirstEntered DEF EvalKind, FromEntered
<1>5. First[Continuation] = First[Continuation']
  BY <1>3, <1>4
<1> QED BY <1>2, <1>3, <1>5, FlowKept

\* The branch of a goto, break or continue leads where the statement does.
LEMMA JumpStart ==
  ASSUME Flowing, phase = "compile", NEW a \in 1..size, a = at, Entering,
         KindOf(a) \in {"goto", "break", "continue"}
  PROVE  /\ JumpTarget \in Block /\ JumpTarget # NoBlock
         /\ Start(JumpTarget) = First[Enter(a)]
<1>0. TreeAndTypes /\ Walkable /\ PathInv /\ at # None
  <2>1. TreeAndTypes /\ Walkable /\ PathInv
    BY FlowNow DEF Walking
  <2> QED BY <2>1, Basics DEF None
<1>1. JumpTarget \in created /\ JumpTarget # NoBlock
  BY <1>0, JumpHasTarget DEF Flowing, Generating
<1>2. JumpTarget \in Block
  BY <1>0, <1>1 DEF TreeAndTypes, TypeOK, CodegenTypeOK
<1>3. First[Enter(a)] = First[FromEntered(a)]
  BY <1>0, FirstEntered DEF EvalKind
<1>4. CASE KindOf(a) = "goto"
  <2>1. JumpTarget = LabelBlock(ast[a].name)
    BY <1>1, <1>4 DEF JumpTarget, LabelTarget
  <2>2. Start(JumpTarget) = First[Enter(Labeled(ast[a].name))]
    BY <2>1, Places
  <2> QED BY <1>1, <1>2, <1>3, <1>4, <2>2 DEF FromEntered
<1>5. CASE KindOf(a) \in {"break", "continue"}
  <2>1. at \notin {None, Root} /\ a \in 2..size
    <3>1. at \notin {None, Root}
      BY <1>0, <1>5, InnerStatement
    <3> QED BY <1>0, <3>1, Ranges DEF Root
  <2>2. PICK p \in 1..size : p = Parent(a) /\ IsRunning(p)
    BY <1>0, <2>1, LargestRunning DEF Walks
  <2>3. EnclosingWhiles(a) = LoopsAround(p) /\ EnclosingWhiles(a) # {}
    BY <1>0, <1>5, <2>1, <2>2, LoopsAroundParent, LoopIs
  <2>4. targets[p] = TargetsOf(Loop(a))
    BY <2>2, <2>3 DEF Flowing, Refinement, LoopTargetsInv, Loop
  <2>5. Inherited = targets[p]
    BY <2>1, <2>2 DEF Inherited
  <2>6. JumpTarget = IF KindOf(a) = "break" THEN <<"end", Loop(a)>> ELSE <<"header", Loop(a)>>
    BY <1>5, <2>4, <2>5 DEF JumpTarget, TargetsOf
  <2>7. FromEntered(a) = IF KindOf(a) = "break" THEN Leave(Loop(a)) ELSE Enter(Loop(a))
    BY <1>5 DEF FromEntered
  <2>8. Start(JumpTarget) = First[FromEntered(a)]
    BY <1>5, <2>6, <2>7, Places
  <2> QED BY <1>1, <1>2, <1>3, <2>8
<1> QED BY <1>4, <1>5

\* A jump ends its block; the fresh one is where the statement is left.
LEMMA JumpFlow ==
  ASSUME Flowing, CompileJump, phase' = "compile"
  PROVE  FlowInv' /\ BuilderInv'
<1>1. PICK a : a = at
  OBVIOUS
<1>2. PICK d : d = <<"dead", a>>
  OBVIOUS
<1>3. "dead" \in Roles /\ Inside(d) = First[Leave(a)]
  BY <1>2, Places DEF Roles
<1>4. ASSUME NEW i \in Instr, code' = [code EXCEPT ![cur] = @ \o <<i>>], cur' = d,
             ~IsSilent(i), FitsSource(i), Shown(i) = First[Continuation],
             phase = "compile", Called(Root), UNCHANGED <<ast, size>>, d \in Block, IsFresh(d),
             Inside(d) = First[Continuation']
      PROVE  FlowInv' /\ BuilderInv'
  <2>1. code[cur] \in Seq(Instr)
    BY <1>4, FlowNow
  <2>2. Append(code[cur], i) = code[cur] \o <<i>>
    BY <1>4, <2>1, ElementsShort
  <2>3. code' = [code EXCEPT ![cur] = Append(@, i)]
    BY <1>4, <2>2, FlowNow
  <2> QED BY <1>4, <2>3, FlowAcross
<1>5. CASE Generates({"goto", "break", "continue"}) /\ Jump(JumpCode)
  <2>1. Return /\ UNCHANGED <<ast, size>> /\ cur' = d /\ code' = [code EXCEPT ![cur] = @ \o JumpCode]
        /\ Entering
    BY <1>1, <1>2, <1>5 DEF Jump, AfterJump, Generates
  <2>2. {"goto", "break", "continue"} \subseteq LeafKind \ {"declaration"}
    BY DEF LeafKind
  <2>3. /\ phase = "compile" /\ a \in 1..size /\ KindOf(a) \in {"goto", "break", "continue"}
        /\ Called(Root) /\ Continuation = Enter(a)
        /\ First[Leave(a)] = First[Continuation'] /\ d \in Block /\ IsFresh(d)
    BY <1>1, <1>2, <1>3, <1>5, <2>1, <2>2, LeafNow
  <2>4. JumpTarget \in Block /\ JumpTarget # NoBlock /\ Start(JumpTarget) = First[Enter(a)]
    BY <1>1, <2>1, <2>3, JumpStart
  <2>5. PICK i \in Instr : i = Br(JumpTarget)
    BY <2>4, InstrTypes
  <2>6. JumpCode = <<i>>
    BY <2>4, <2>5 DEF JumpCode
  <2>7. ~IsSilent(i) /\ FitsSource(i) /\ Shown(i) = First[Continuation]
    BY <2>3, <2>4, <2>5, ShownInstructions
  <2> QED BY <1>3, <1>4, <2>1, <2>3, <2>6, <2>7
<1>6. CASE Generates({"return"}) /\ Jump(<<Plain("ret", None)>>)
  <2>1. Return /\ UNCHANGED <<ast, size>> /\ cur' = d
        /\ code' = [code EXCEPT ![cur] = @ \o <<Plain("ret", None)>>]
    BY <1>1, <1>2, <1>6 DEF Jump, AfterJump
  <2>2. {"return"} \subseteq LeafKind \ {"declaration"}
    BY DEF LeafKind
  <2>3. /\ phase = "compile" /\ a \in 1..size /\ KindOf(a) = "return" /\ Walkable
        /\ Called(Root) /\ Continuation = Enter(a)
        /\ First[Leave(a)] = First[Continuation'] /\ d \in Block /\ IsFresh(d)
    BY <1>1, <1>2, <1>3, <1>6, <2>1, <2>2, LeafNow
  <2>4. PICK i \in Instr : i = Plain("ret", None)
    BY InstrTypes
  <2>5. First[Enter(a)] = Returning
    BY <2>3, FirstEntered
  <2>6. ~IsSilent(i) /\ FitsSource(i) /\ Shown(i) = First[Continuation]
    BY <2>3, <2>4, <2>5, ShownInstructions
  <2> QED BY <1>3, <1>4, <2>1, <2>3, <2>4, <2>6
<1>7. ASSUME NEW e \in Evaluations, Generates({"return value"}),
             Jump(<<e, Plain("ret value", None)>>)
      PROVE  FlowInv' /\ BuilderInv'
  <2>1. Return /\ UNCHANGED <<ast, size>> /\ cur' = d
        /\ code' = [code EXCEPT ![cur] = @ \o <<e, Plain("ret value", None)>>]
    BY <1>1, <1>2, <1>7 DEF Jump, AfterJump
  <2>2. {"return value"} \subseteq LeafKind \ {"declaration"}
    BY DEF LeafKind
  <2>3. /\ phase = "compile" /\ a \in 1..size /\ KindOf(a) = "return value" /\ Walkable
        /\ Called(Root) /\ Continuation = Enter(a)
        /\ First[Leave(a)] = First[Continuation'] /\ d \in Block /\ IsFresh(d)
    <3>1. PICK K : K = {"return value"}
      OBVIOUS
    <3>2. K \subseteq LeafKind \ {"declaration"} /\ Generates(K)
      BY <1>7, <2>2, <3>1
    <3>3. /\ phase = "compile" /\ a \in 1..size /\ KindOf(a) \in K /\ Walkable
          /\ Called(Root) /\ Continuation = Enter(a)
          /\ First[Leave(a)] = First[Continuation']
          /\ \A r \in Roles : <<r, a>> \in Block /\ IsFresh(<<r, a>>)
      BY <1>1, <2>1, <3>2, LeafNow
    <3> QED BY <1>2, <1>3, <3>1, <3>3
  <2>4. PICK k \in Instr : k = Plain("ret value", None)
    BY InstrTypes
  <2>5. PICK i \in Instr : i = e /\ ~IsSilent(i) /\ FitsSource(i) /\ Shown(i) = <<"eval", a>>
                           /\ i.of = a
    BY <1>1, <2>3, EvaluationShown
  <2>6. Shown(i) = First[Continuation] /\ After(i) = Returning
    <3>1. First[Enter(a)] = <<"eval", a>>
      BY <2>3, FirstEntered DEF EvalKind
    <3> QED BY <2>3, <2>5, <3>1 DEF After
  <2>7. PICK c \in Block : c = cur
    BY <2>3, FlowNow
  <2>8. PICK s \in Seq(Instr) : s = code[c] /\ FlowAt(c, s)
                                /\ ExpectedBehind(s, Inside(c)) = First[Continuation]
    BY <2>3, <2>7, FlowNow
  <2>9. PICK t \in Seq(Instr) : t = Append(s, i) /\ FlowAt(c, t)
                                /\ ExpectedBehind(t, Inside(c)) = Returning
    <3>1. Shown(i) = ExpectedBehind(s, Inside(c))
      BY <2>6, <2>8
    <3>2. /\ FlowAt(c, Append(s, i)) /\ Append(s, i) \in Seq(Instr)
          /\ ExpectedBehind(Append(s, i), Inside(c)) = After(i)
      BY <2>5, <2>8, <3>1, FlowAtAppended
    <3> QED BY <2>6, <3>2
  <2>10. PICK u \in Seq(Instr) : u = Append(t, k) /\ FlowAt(c, u)
    <3>1. ~IsSilent(k) /\ FitsSource(k) /\ Shown(k) = Returning
      BY <2>4, ShownInstructions
    <3> QED BY <2>9, <3>1, FlowAtAppended
  <2>11. u = s \o <<i, k>>
    BY <2>9, <2>10, AppendedTwo
  <2>12. code' = [code EXCEPT ![cur] = u]
    BY <2>1, <2>3, <2>4, <2>5, <2>7, <2>8, <2>11, FlowNow
  <2>13. Inside(d) = First[Continuation'] /\ FlowAt(cur, u)
    BY <1>3, <2>3, <2>7, <2>10
  <2> QED BY <2>1, <2>3, <2>12, <2>13, FlowElsewhere
<1> QED BY <1>5, <1>6, <1>7 DEF CompileJump

\* The default return.
LEMMA FinishFlow ==
  ASSUME Flowing, FinishFunction
  PROVE  FlowInv' /\ BuilderInv'
<1>0. TreeAndTypes /\ CodeInv /\ ShapeInv
  BY DEF Flowing, Generating
<1>1. /\ phase = "compile" /\ at = 1 /\ Resuming /\ UNCHANGED <<ast, size, cur>>
      /\ AllCalled(Kids(1)) /\ phase' = "compiled"
  BY DEF FinishFunction, Root
<1>2. 1 \in 1..size /\ KindOf(1) = "block"
  <2>1. size > 0
    BY <1>0, <1>1, Basics
  <2> QED BY <1>0, <2>1, Ranges DEF TreeAndTypes, TreeInv, Root
<1>3. /\ Continuation = Ahead(1) /\ Walkable /\ Walking /\ Called(Root)
  BY <1>1, <1>2, ResumedAhead
<1>4. Ahead(1) = Leave(1)
  <2>1. LeftToCall(1) = {}
    <3> SUFFICES ASSUME NEW m \in LeftToCall(1) PROVE FALSE
      OBVIOUS
    <3>1. m \in 1..size /\ Parent(m) = 1 /\ ~Called(m)
      BY DEF LeftToCall
    <3>2. m \in 2..size
      <4>1. Parent(1) = 0
        BY <1>0, <3>1, Ranges DEF TreeAndTypes, TreeInv, Root, None
      <4> QED BY <3>1, <4>1
    <3>3. PICK j \in 1..Len(Kids(1)) : Kids(1)[j] = m
      BY <1>0, <1>1, <3>1, <3>2 DEF ShapeInv, Walks, Joined, IsKid
    <3> QED BY <1>1, <3>1, <3>3 DEF AllCalled
  <2> QED BY <1>2, <2>1 DEF Ahead
<1>5. First[Continuation] = Returning
  BY <1>2, <1>3, <1>4, FirstLeft DEF Root
<1>6. PICK c \in Block : c = cur
  BY <1>1, FlowNow
<1>7. PICK s \in Seq(Instr) : s = code[c] /\ FlowAt(c, s) /\ ExpectedBehind(s, Inside(c)) = Returning
  BY <1>1, <1>3, <1>5, <1>6, FlowNow
<1>8. PICK e \in Instr : e = DefaultReturn
  BY InstrTypes DEF DefaultReturn
<1>9. ~IsSilent(e) /\ FitsSource(e) /\ Shown(e) = Returning
  BY <1>8, ShownInstructions DEF DefaultReturn
<1>10. FlowAt(c, Append(s, e))
  BY <1>7, <1>9, FlowAtAppended
<1>11. \A b \in Block : FlowAt(b, code'[b])
  <2>1. code' = code \/ code' = [code EXCEPT ![c] = Append(@, e)]
    BY <1>6, <1>8 DEF FinishFunction
  <2>2. ASSUME NEW b \in Block PROVE FlowAt(b, code[b])
    BY <1>1, FlowNow
  <2>3. ASSUME code' = [code EXCEPT ![c] = Append(@, e)], NEW b \in Block
        PROVE  code'[b] = code[b] \/ (b = c /\ code'[b] = Append(s, e))
    BY <1>1, <1>7, <2>3, FlowNow
  <2> QED BY <1>10, <2>1, <2>2, <2>3
<1>12. FlowInv'
  BY <1>1, <1>11, FlowsTo
<1> QED BY <1>1, <1>12 DEF BuilderInv
------------------------------------------------------------------------------
\* Every step of the pipeline keeps the flow and the builder.
LEMMA FlowStep ==
  ASSUME Flowing, [Next]_vars_
  PROVE  FlowInv' /\ BuilderInv'
<1>0. Generating /\ TreeAndTypes
  BY DEF Flowing, Generating
<1>1. CASE phase \in {"parse", "typecheck"}
  <2>1. UNCHANGED codegenVars /\ phase' # "compiled"
    BY <1>0, <1>1, AfterParsing
  <2>2. CASE phase' # "compile"
    BY <2>1, <2>2 DEF FlowInv, BuilderInv
  <2>3. CASE phase' = "compile"
    <3>1. UNCHANGED <<ast, size>> /\ \A n \in 1..size : status'[n] = "uncalled"
      <4>1. CASE Next
        BY <1>0, <1>1, <2>3, <4>1, StartsCompiling
      <4>2. CASE UNCHANGED vars_
        BY <1>1, <2>3, <4>2 DEF vars_, parserVars
      <4> QED BY <4>1, <4>2
    <3>2. \A b \in Block : code'[b] = <<>>
      BY <1>1, <2>1 DEF codegenVars, Flowing, Generating, CodeInv, NoCodeYet
    <3>3. FlowInv'
      BY <3>1, <3>2, FlowAtNothing, FlowsTo
    <3>4. ~Called(Root)'
      <4>1. size' > 0
        <5>1. TreeAndTypes'
          BY <1>0, TreeAndTypesStep
        <5> QED BY <2>3, <5>1 DEF TreeAndTypes, TreeInv, Ends
      <4>2. 1 \in 1..size
        BY <1>0, <3>1, <4>1, Ranges
      <4> QED BY <3>1, <4>2 DEF Called, Root
    <3> QED BY <3>3, <3>4 DEF BuilderInv
  <2> QED BY <2>2, <2>3
<1>2. CASE phase = "compile" /\ Compile
  <2>1. phase' \in {"compile", "compiled"}
    BY <1>0, <1>2, CompileSucceeds
  <2>2. CASE phase' = "compile"
    BY <1>2, <2>2, FunctionFlow, ScopeFlow, ConditionFlow, ChildFlow, LeaveFlow,
       DeclarationFlow, ExpressionFlow, EmptyFlow, JumpFlow, FinishFlow DEF Compile
  <2>3. CASE phase' = "compiled"
    <3>1. FinishFunction
      BY <1>2, <2>3 DEF Compile, CompileFunction, CompileScope, CompileCondition, CompileChild,
         LeaveCompiled, CompileDeclaration, CompileExpression, CompileEmpty, CompileJump, Jump,
         Generates, AfterEvaluation
    <3> QED BY <3>1, FinishFlow
  <2> QED BY <2>1, <2>2, <2>3
<1>3. CASE UNCHANGED vars_
  <2>1. UNCHANGED <<phase, ast, size, status, at, code, cur>>
    BY <1>3 DEF vars_, parserVars, codegenVars
  <2>2. ASSUME phase \in {"compile", "compiled"} PROVE FlowInv'
    <3>1. \A b \in Block : FlowAt(b, code'[b])
      BY <2>1, <2>2 DEF Flowing, Refinement, FlowInv, FlowAt
    <3> QED BY <2>1, <3>1, FlowsTo
  <2>3. ASSUME phase = "compile", Called(Root) PROVE BuilderInv'
    <3>1. Continuation' = Continuation
      BY <2>1 DEF Continuation, Entering, Ahead, Parent, LeftToCall, Called, KindOf, Kids, IsDecl,
         Enter, Leave, Smallest
    <3>2. First[Continuation] = First[Continuation']
      BY <3>1
    <3> QED BY <2>1, <2>3, <3>2, FlowKept
  <2>4. Called(Root)' <=> Called(Root)
    BY <2>1 DEF Called
  <2>5. phase \notin {"compile", "compiled"} => FlowInv'
    BY <2>1 DEF FlowInv
  <2>6. phase # "compile" \/ ~Called(Root) => BuilderInv'
    BY <2>1, <2>4 DEF BuilderInv
  <2> QED BY <2>2, <2>3, <2>5, <2>6
<1>4. phase \in {"parse", "typecheck", "compile"} \cup Ends
  BY <1>0 DEF TreeAndTypes, TypeOK, ParserTypeOK, Passes
<1> QED BY <1>0, <1>1, <1>2, <1>3, <1>4, AfterParsing

\* Every step keeps the events of labels.
LEMMA LabelEventsStep ==
  ASSUME Flowing, [Next]_vars_
  PROVE  LabelEventsInv'
<1>0. Generating /\ TreeAndTypes
  BY DEF Flowing, Generating
<1>1. CASE phase' # "compiled"
  BY <1>1 DEF LabelEventsInv
<1>2. CASE phase' = "compiled" /\ phase = "compile" /\ Compile
  <2>1. UNCHANGED <<ast, size, labels>>
    BY <1>2 DEF Compile, CompileFunction, CompileScope, CompileCondition, CompileChild,
       LeaveCompiled, CompileDeclaration, CompileExpression, CompileEmpty, CompileJump, Jump,
       FinishFunction, Generates, AfterEvaluation
  <2>2. ASSUME NEW l \in labels
        PROVE  Labeled(l) \in 1..size /\ First[Enter(Labeled(l))] = <<"label", Labeled(l)>>
    <3>1. size > 0
      BY <1>0, <1>2 DEF TreeAndTypes, TreeInv, Ends
    <3>2. \E m \in OfKind("labeled") : ast[m].name = l
      BY <1>0, <2>2, <3>1 DEF Generating, LabelsIdentifyStatements
    <3>3. Labeled(l) \in OfKind("labeled")
      BY <3>2, Zenon DEF Labeled
    <3>4. Labeled(l) \in 1..size /\ KindOf(Labeled(l)) = "labeled"
      BY <3>3 DEF OfKind, KindOf
    <3>5. Walkable
      BY <1>2, FlowNow DEF Walking
    <3> QED BY <3>4, <3>5, FirstEntered
  <2>3. First' = First
    BY <2>1, FirstKept
  <2>4. \A l : Labeled(l)' = Labeled(l)
    BY <2>1, SMT DEF Labeled, OfKind
  <2> QED BY <2>1, <2>2, <2>3, <2>4 DEF LabelEventsInv, Enter
<1>3. CASE phase' = "compiled" /\ UNCHANGED vars_
  <2>1. UNCHANGED <<phase, ast, size, labels>>
    BY <1>3 DEF vars_, parserVars
  <2>2. First' = First
    BY <2>1, FirstKept
  <2>3. \A l : Labeled(l)' = Labeled(l)
    BY <2>1, SMT DEF Labeled, OfKind
  <2> QED BY <1>3, <2>1, <2>2, <2>3 DEF LabelEventsInv, Enter, Flowing, Refinement
<1>4. phase \in {"parse", "typecheck", "compile"} \cup Ends
  BY <1>0 DEF TreeAndTypes, TypeOK, ParserTypeOK, Passes
<1> QED BY <1>0, <1>1, <1>2, <1>3, <1>4, AfterParsing
------------------------------------------------------------------------------
\* Set up by InitInvariant: nothing has been started.
LEMMA InitRefinement == Init => Refinement
<1> SUFFICES ASSUME Init PROVE Refinement
  OBVIOUS
<1>1. phase = "parse" /\ size = 0 /\ created = {}
  BY DEF Init, ParserInit, CodegenInit
<1> QED BY <1>1 DEF Refinement, KidsInv, SiblingsInOrder, LoopTargetsInv, LabelBlocksInv,
     LabelEventsInv, FlowInv, BuilderInv

\* The invariant of the refinement is inductive, given that of the pipeline.
LEMMA RefinementStep ==
  ASSUME Invariant, Invariant', Refinement, [Next]_vars_
  PROVE  Refinement'
<1>1. Generating /\ Checking /\ TreeAndTypes /\ TreeAndTypes'
  BY InvariantParts DEF Invariant
<1>2. ShapeInv /\ PathInv /\ OpenInv
  BY <1>1 DEF Checking
<1>3. Flowing
  BY <1>1 DEF Flowing
<1>4. KidsInv'
  BY <1>1, <1>2, KidsStep DEF Refinement
<1>5. SiblingsInOrder'
  BY <1>1, <1>2, SiblingsStep DEF Refinement
<1>6. LoopTargetsInv'
  BY <1>1, <1>2, LoopTargetsStep DEF Refinement
<1>7. LabelBlocksInv'
  BY <1>1, LabelBlocksStep DEF Refinement
<1> QED BY <1>3, <1>4, <1>5, <1>6, <1>7, FlowStep, LabelEventsStep DEF Refinement
------------------------------------------------------------------------------
(***************************************************************************)
(* The instructions that are not silent, from one of them to the next.     *)
(***************************************************************************)

\* The next instruction that is not silent.
LEMMA LoudRange ==
  ASSUME NEW s \in Seq(Instr), NEW i \in Nat, LoudFrom(s, i) # {}
  PROVE  /\ Smallest(LoudFrom(s, i)) \in LoudFrom(s, i)
         /\ \A j \in LoudFrom(s, i) : Smallest(LoudFrom(s, i)) <= j
         /\ LoudFrom(s, i) \subseteq 1..Len(s) /\ Len(s) \in Nat
<1>1. LoudFrom(s, i) \subseteq 1..Len(s) /\ Len(s) \in Nat
  BY DEF LoudFrom
<1>2. LoudFrom(s, i) \subseteq Nat
  BY <1>1
<1> QED BY <1>1, <1>2, SmallestIs

\* It is the current one, if that is not silent.
LEMMA LoudHere ==
  ASSUME NEW s \in Seq(Instr), NEW i \in 1..Len(s), ~IsSilent(s[i])
  PROVE  LoudFrom(s, i) # {} /\ Smallest(LoudFrom(s, i)) = i
<1>1. i \in LoudFrom(s, i) /\ \A j \in LoudFrom(s, i) : i <= j
  BY DEF LoudFrom
<1>2. LoudFrom(s, i) \subseteq Nat
  BY DEF LoudFrom
<1> QED BY <1>1, <1>2, SmallestUnique

\* Otherwise it is that of the next instruction.
LEMMA LoudLater ==
  ASSUME NEW s \in Seq(Instr), NEW i \in 1..Len(s), IsSilent(s[i])
  PROVE  LoudFrom(s, i) = LoudFrom(s, i + 1)
<1>1. \A j \in 1..Len(s) : j >= i <=> j = i \/ j >= i + 1
  OBVIOUS
<1> QED BY <1>1 DEF LoudFrom

\* The first of a block shows what happens at its position.
LEMMA LoudFirst ==
  ASSUME NEW s \in Seq(Instr), NEW start, Flows(s, start), LoudFrom(s, 1) # {}
  PROVE  Shown(s[Smallest(LoudFrom(s, 1))]) = start
<1>1. PICK j \in 1..Len(s) : /\ j = Smallest(LoudFrom(s, 1)) /\ ~IsSilent(s[j])
                             /\ \A i \in LoudFrom(s, 1) : j <= i
  BY LoudRange DEF LoudFrom
<1>2. LoudBefore(s, j) = {}
  <2> SUFFICES ASSUME NEW i \in LoudBefore(s, j) PROVE FALSE
    OBVIOUS
  <2>1. i \in 1..Len(s) /\ i < j /\ ~IsSilent(s[i])
    BY DEF LoudBefore
  <2>2. i \in LoudFrom(s, 1)
    BY <2>1 DEF LoudFrom
  <2> QED BY <1>1, <2>1, <2>2
<1> QED BY <1>1, <1>2 DEF Flows, Expected

\* And the next one what happens behind it.
LEMMA LoudNext ==
  ASSUME NEW s \in Seq(Instr), NEW start, Flows(s, start),
         NEW i \in 1..Len(s), ~IsSilent(s[i]), LoudFrom(s, i + 1) # {}
  PROVE  Shown(s[Smallest(LoudFrom(s, i + 1))]) = After(s[i])
<1>1. PICK j \in 1..Len(s) : /\ j = Smallest(LoudFrom(s, i + 1)) /\ ~IsSilent(s[j]) /\ j >= i + 1
                             /\ \A k \in LoudFrom(s, i + 1) : j <= k
  <2>1. PICK l \in Nat : l = i + 1
    OBVIOUS
  <2>2. /\ Smallest(LoudFrom(s, l)) \in LoudFrom(s, l)
        /\ \A k \in LoudFrom(s, l) : Smallest(LoudFrom(s, l)) <= k
    BY <2>1, LoudRange
  <2>3. \A k \in LoudFrom(s, l) : k \in 1..Len(s) /\ ~IsSilent(s[k]) /\ k >= l
    BY DEF LoudFrom
  <2> QED BY <2>1, <2>2, <2>3
<1>2. i \in LoudBefore(s, j)
  BY <1>1 DEF LoudBefore
<1>3. ASSUME NEW k \in LoudBefore(s, j) PROVE k <= i
  <2>1. k \in 1..Len(s) /\ k < j /\ ~IsSilent(s[k])
    BY <1>3 DEF LoudBefore
  <2>2. k \notin LoudFrom(s, i + 1)
    BY <1>1, <2>1
  <2>3. ~(k >= i + 1)
    BY <2>1, <2>2 DEF LoudFrom
  <2> QED BY <2>1, <2>3
<1>4. Innermost(LoudBefore(s, j)) = i
  <2>1. LoudBefore(s, j) \subseteq Int
    BY DEF LoudBefore
  <2> QED BY <1>2, <1>3, <2>1, InnermostIs DEF IsInnermost
<1>5. LoudBefore(s, j) # {}
  BY <1>2
<1>6. Shown(s[j]) = Expected(s, start, j)
  BY <1>1 DEF Flows
<1> QED BY <1>1, <1>4, <1>5, <1>6 DEF Expected
------------------------------------------------------------------------------
(***************************************************************************)
(* The source under the mapping: its definitions are those of the pipeline.*)
(***************************************************************************)

\* First under the mapping is First.
LEMMA SourceFirst == Source!First = First
BY SMT DEF Source!First, Source!Position, Source!IsEvent, Source!EventAt, Source!NextPosition,
   Source!FromEntered, Source!FromLeft, Source!Enter, Source!Leave, Source!Behind,
   Source!Smallest, Source!Loop, Source!Innermost, Source!IsInnermost, Source!EnclosingWhiles,
   Source!Enclosing, Source!KindOf, Source!Parent, Source!Labeled, Source!OfKind,
   First, Position, IsEvent, EventAt, NextPosition, FromEntered, FromLeft, Enter, Leave,
   Behind, Smallest, Loop, Innermost, IsInnermost, EnclosingWhiles, Enclosing, KindOf, Parent,
   Labeled, OfKind, Source!EvalKind, EvalKind, Source!Returning, Returning, Source!Root, Root,
   Source!None, None, Source!Stmt, Stmt

Here == IF pc = Stopped THEN NotRunning ELSE NextEvent(pc.block, pc.index)

\* The actions of the source, of what the compiled function does next.
LEMMA SourceActions ==
  /\ Source!Call <=> Here = NotRunning /\ Here' # NotRunning /\ Here' = First[Enter(Root)]
  /\ \A n : Source!Evaluate(n) <=>
       /\ Here = <<"eval", n>>
       /\ Here' = CASE KindOf(n) = "expression"   -> First[Leave(n)]
                    [] KindOf(n) = "return value" -> Returning
                    [] OTHER                      -> <<"branch", n>>
  /\ \A n : Source!Branch(n) <=>
       /\ Here = <<"branch", n>>
       /\ Here' = First[Enter(Kids(n)[1])] \/ Here' = FalseSide(n)
  /\ \A n : Source!PassLabel(n) <=>
       Here = <<"label", n>> /\ Here' = First[Enter(Kids(n)[1])]
<1>1. Source!Call <=> Here = NotRunning /\ Here' # NotRunning /\ Here' = First[Enter(Root)]
  BY SourceFirst DEF Here, Source!Call, Source!NotRunning, NotRunning, Source!Enter, Enter,
     Source!Root, Root, Source!None, None
<1>2. ASSUME NEW n
      PROVE  Source!Evaluate(n) <=>
               /\ Here = <<"eval", n>>
               /\ Here' = CASE KindOf(n) = "expression"   -> First[Leave(n)]
                            [] KindOf(n) = "return value" -> Returning
                            [] OTHER                      -> <<"branch", n>>
  BY SourceFirst DEF Here, Source!Evaluate, Source!NotRunning, NotRunning, Source!Leave, Leave,
     Source!KindOf, KindOf, Source!Returning, Returning, Source!None, None
<1>3. ASSUME NEW n
      PROVE  Source!Branch(n) <=>
               /\ Here = <<"branch", n>>
               /\ Here' = First[Enter(Kids(n)[1])] \/ Here' = FalseSide(n)
  BY SourceFirst DEF Here, Source!Branch, Source!NotRunning, NotRunning, Source!Enter, Enter,
     Source!Leave, Leave, Source!Kids, Kids, FalseSide, Source!None, None
<1>4. ASSUME NEW n
      PROVE  Source!PassLabel(n) <=>
               Here = <<"label", n>> /\ Here' = First[Enter(Kids(n)[1])]
  BY SourceFirst DEF Here, Source!PassLabel, Source!NotRunning, NotRunning, Source!Enter, Enter,
     Source!Kids, Kids, Source!None, None
<1> QED BY <1>1, <1>2, <1>3, <1>4

\* What happens next does not change with the pipeline.
LEMMA NextEventKept ==
  ASSUME UNCHANGED <<ast, size, code>>, NEW b, NEW i
  PROVE  NextEvent(b, i)' = NextEvent(b, i)
<1>1. /\ \A c : Start(c)' = Start(c)
      /\ \A e : Shown(e)' = Shown(e)
      /\ Inside(b)' = Inside(b)
  BY SourceKept
<1>2. PICK s : s = code[b]
  OBVIOUS
<1>3. \A j : ShownFrom(s, j)' = ShownFrom(s, j)
  BY <1>1 DEF ShownFrom, LoudFrom, IsSilent, Smallest
<1> QED BY <1>1, <1>2, <1>3 DEF NextEvent

\* What happens next in the next state.
LEMMA HereThen ==
  ASSUME UNCHANGED <<ast, size, code>>, NEW b, NEW i, pc' = [block |-> b, index |-> i],
         [block |-> b, index |-> i] # Stopped
  PROVE  Here' = NextEvent(b, i)
<1>1. NextEvent(b, i)' = NextEvent(b, i)
  BY NextEventKept
<1>2. pc'.block = b /\ pc'.index = i /\ pc' # Stopped
  OBVIOUS
<1>3. NextEvent(pc.block, pc.index)' = NextEvent(b, i)'
  BY <1>2
<1> QED BY <1>1, <1>2, <1>3 DEF Here, Stopped
------------------------------------------------------------------------------
\* A program counter with a terminator ahead, and what happens next there.
LEMMA NextLoud ==
  ASSUME ExecutionInv, Refinement, phase = "compiled", NEW b, NEW i, StaysIn(b, i)
  PROVE  /\ b \in Block /\ code[b] \in Seq(Instr) /\ i \in Nat /\ FlowAt(b, code[b])
         /\ LoudFrom(code[b], i) # {}
         /\ i = 0 => NextEvent(b, i) = Start(b)
         /\ i # 0 => /\ i \in 1..Len(code[b])
                     /\ NextEvent(b, i) = Shown(code[b][Smallest(LoudFrom(code[b], i))])
<1>1. b \in Block /\ code[b] \in Seq(Instr) /\ i \in Nat
  BY DEF ExecutionInv, Invariant, TreeAndTypes, TypeOK, CodegenTypeOK, StaysIn
<1>2. FlowAt(b, code[b])
  BY <1>1 DEF Refinement, FlowInv, FlowAt
<1>3. PICK t \in 1..Len(code[b]) : IsTerminator(code[b][t]) /\ i <= t
  BY DEF StaysIn
<1>4. t \in LoudFrom(code[b], i)
  BY <1>1, <1>3 DEF LoudFrom, IsSilent, IsTerminator, Terminators
<1>5. i # 0 => i \in 1..Len(code[b])
  BY <1>1, <1>3
<1>6. CASE i = 0
  <2>1. t \in LoudFrom(code[b], 1)
    BY <1>4, <1>6 DEF LoudFrom
  <2>2. ShownFrom(code[b], 1) = Inside(b)
    BY <1>1, <1>2, <2>1, LoudFirst DEF ShownFrom, FlowAt
  <2> QED BY <1>1, <1>2, <1>4, <1>6, <2>2 DEF NextEvent
<1>7. CASE i # 0
  BY <1>1, <1>2, <1>4, <1>5, <1>7 DEF NextEvent, ShownFrom
<1> QED BY <1>6, <1>7

SourceStep == Source!SourceNext \/ Here' = Here

\* A program counter in a block is not the stopped one.
LEMMA CounterHas ==
  ASSUME NEW b, NEW i
  PROVE  /\ [block |-> b, index |-> i].block = b /\ [block |-> b, index |-> i].index = i
         /\ b \in Block => [block |-> b, index |-> i] # Stopped
<1>1. NoBlock \notin Block
  BY DEF NoBlock, Block, Roles, Entry
<1> QED BY <1>1 DEF Stopped

\* The function is called.
LEMMA BeginStep ==
  ASSUME ExecutionInv, Refinement, Begin, UNCHANGED vars_
  PROVE  SourceStep
<1>1. /\ phase = "compiled" /\ pc = Stopped /\ pc' = [block |-> Entry, index |-> 0]
      /\ UNCHANGED <<ast, size, code>>
  BY DEF Begin, GoTo, vars_, parserVars, codegenVars
<1>2. Here' = NextEvent(Entry, 0)
  BY <1>1, HereThen, CounterHas, BlockNames
<1>3. NextEvent(Entry, 0) = First[Enter(Root)]
  <2>1. Entry[1] # "label"
    BY DEF Entry
  <2>2. Start(Entry) = First[Enter(Root)]
    BY <2>1, Places DEF Inside
  <2>3. StaysIn(Entry, 0)
    BY <1>1, StartsIn DEF ExecutionInv
  <2> QED BY <1>1, <2>2, <2>3, NextLoud
<1>4. Here = NotRunning
  BY <1>1 DEF Here
<1> QED BY <1>2, <1>3, <1>4, SourceActions DEF SourceStep, Source!SourceNext

\* The first instruction of a block: the label is passed, if it is that of one.
LEMMA StartStep ==
  ASSUME ExecutionInv, Refinement, phase = "compiled", UNCHANGED <<ast, size, code>>,
         NEW b, StaysIn(b, 0), StaysIn(b, 1), pc = [block |-> b, index |-> 0],
         pc' = [block |-> b, index |-> 1]
  PROVE  SourceStep
<1>1. b \in Block /\ code[b] \in Seq(Instr) /\ FlowAt(b, code[b]) /\ NextEvent(b, 0) = Start(b)
  BY NextLoud
<1>2. LoudFrom(code[b], 1) # {} /\ NextEvent(b, 1) = Shown(code[b][Smallest(LoudFrom(code[b], 1))])
  BY NextLoud
<1>3. NextEvent(b, 1) = Inside(b)
  BY <1>1, <1>2, LoudFirst DEF FlowAt
<1>4. Here = Start(b)
  BY <1>1, CounterHas DEF Here
<1>5. Here' = Inside(b)
  BY <1>1, <1>3, HereThen, CounterHas
<1>6. CASE b[1] # "label"
  BY <1>4, <1>5, <1>6 DEF Inside, SourceStep
<1>7. CASE b[1] = "label"
  <2>1. PICK l \in Label : b = LabelBlock(l)
    BY <1>1, <1>7 DEF Block, Roles, Entry, LabelBlock
  <2>2. l \in labels
    BY <2>1 DEF Refinement, LabelBlocksInv, StaysIn
  <2>3. PICK n \in 1..size : n = Labeled(l) /\ First[Enter(n)] = <<"label", n>>
    BY <2>2 DEF Refinement, LabelEventsInv
  <2>4. Here = <<"label", n>> /\ Here' = First[Enter(Kids(n)[1])]
    BY <1>4, <1>5, <2>1, <2>3, Places
  <2>5. Source!PassLabel(n)
    BY <2>4, SourceActions
  <2> QED BY <2>3, <2>5 DEF SourceStep, Source!SourceNext
<1> QED BY <1>6, <1>7

\* The next instruction: the expression has been evaluated, if it did that.
LEMMA OverStep ==
  ASSUME ExecutionInv, Refinement, phase = "compiled", UNCHANGED <<ast, size, code>>,
         NEW b, NEW i \in Nat, i # 0, StaysIn(b, i), StaysIn(b, i + 1),
         pc = [block |-> b, index |-> i], pc' = [block |-> b, index |-> i + 1],
         code[b][i].op \in {"eval", "alloca", "store"}
  PROVE  SourceStep
<1>1. PICK k \in Nat : k = i + 1 /\ k # 0
  OBVIOUS
<1>2. /\ b \in Block /\ FlowAt(b, code[b]) /\ i \in 1..Len(code[b])
      /\ NextEvent(b, i) = Shown(code[b][Smallest(LoudFrom(code[b], i))])
  BY NextLoud
<1>3. PICK s \in Seq(Instr) : s = code[b]
  BY NextLoud
<1>4. /\ LoudFrom(s, k) # {} /\ NextEvent(b, k) = Shown(s[Smallest(LoudFrom(s, k))])
  BY <1>1, <1>3, NextLoud
<1>5. Here = NextEvent(b, i)
  BY <1>2, CounterHas DEF Here
<1>6. Here' = NextEvent(b, k)
  BY <1>1, <1>2, HereThen, CounterHas
<1>7. CASE s[i].op \in {"alloca", "store"}
  <2>1. LoudFrom(s, i) = LoudFrom(s, k)
    BY <1>1, <1>2, <1>3, <1>7, LoudLater DEF IsSilent
  <2> QED BY <1>2, <1>3, <1>4, <1>5, <1>6, <2>1 DEF SourceStep
<1>8. CASE s[i].op = "eval"
  <2>1. ~IsSilent(s[i])
    BY <1>8 DEF IsSilent
  <2>2. NextEvent(b, i) = Shown(s[i])
    BY <1>2, <1>3, <2>1, LoudHere
  <2>3. NextEvent(b, k) = After(s[i])
    <3>1. PICK x : x = Inside(b)
      OBVIOUS
    <3>2. Flows(s, x)
      BY <1>2, <1>3, <3>1 DEF FlowAt
    <3> QED BY <1>1, <1>2, <1>3, <1>4, <2>1, <3>2, LoudNext
  <2>4. PICK n \in 1..size : n = s[i].of
    BY <1>2, <1>3, <1>8 DEF FlowAt, FitsSource
  <2>5. Here = <<"eval", n>> /\ Here' = After(s[i])
    BY <1>5, <1>6, <1>8, <2>2, <2>3, <2>4 DEF Shown
  <2>6. Source!Evaluate(n)
    BY <2>4, <2>5, SourceActions DEF After
  <2> QED BY <2>4, <2>6 DEF SourceStep, Source!SourceNext
<1> QED BY <1>3, <1>7, <1>8

\* A branch: unconditional ones are not seen in the source.
LEMMA BranchStep ==
  ASSUME ExecutionInv, Refinement, phase = "compiled", UNCHANGED <<ast, size, code>>,
         NEW b, NEW i \in Nat, i # 0, StaysIn(b, i), pc = [block |-> b, index |-> i],
         code[b][i].op \in {"br", "condbr"},
         NEW j \in 1..Len(code[b][i].to), NEW c, c = code[b][i].to[j], StaysIn(c, 0),
         pc' = [block |-> c, index |-> 0]
  PROVE  SourceStep
<1>1. /\ b \in Block /\ FlowAt(b, code[b]) /\ i \in 1..Len(code[b])
      /\ NextEvent(b, i) = Shown(code[b][Smallest(LoudFrom(code[b], i))])
  BY NextLoud
<1>2. PICK s \in Seq(Instr) : s = code[b]
  BY NextLoud
<1>3. PICK e : e = s[i] /\ e.op \in {"br", "condbr"} /\ FitsSource(e) /\ c = e.to[j]
                /\ j \in 1..Len(e.to)
  BY <1>1, <1>2 DEF FlowAt
<1>4. Here = Shown(e)
  <2>1. ~IsSilent(s[i])
    BY <1>3 DEF IsSilent
  <2>2. Smallest(LoudFrom(s, i)) = i
    BY <1>1, <1>2, <2>1, LoudHere
  <2>3. Here = NextEvent(b, i)
    BY <1>1, CounterHas DEF Here
  <2> QED BY <1>1, <1>2, <1>3, <2>2, <2>3
<1>5. Here' = Start(c)
  <2>1. c \in Block /\ NextEvent(c, 0) = Start(c)
    BY NextLoud
  <2> QED BY <2>1, HereThen, CounterHas
<1>6. CASE e.op = "br"
  <2>1. j = 1
    BY <1>3, <1>6 DEF FitsSource
  <2> QED BY <1>3, <1>4, <1>5, <1>6, <2>1 DEF Shown, SourceStep
<1>7. CASE e.op = "condbr"
  <2>1. j = 1 \/ j = 2
    <3>1. Len(e.to) = 2
      BY <1>3, <1>7 DEF FitsSource
    <3> QED BY <1>3, <3>1
  <2>2. PICK n \in 1..size : n = e.of
    BY <1>3, <1>7 DEF FitsSource
  <2>3. Here = <<"branch", n>>
    BY <1>4, <1>7, <2>2 DEF Shown
  <2>4. Here' = First[Enter(Kids(n)[1])] \/ Here' = FalseSide(n)
    BY <1>3, <1>5, <1>7, <2>1, <2>2 DEF FitsSource
  <2>5. Source!Branch(n)
    BY <2>3, <2>4, SourceActions
  <2> QED BY <2>2, <2>5 DEF SourceStep, Source!SourceNext
<1> QED BY <1>3, <1>6, <1>7

\* Every step of the compiled function is one of the source, or not seen there.
LEMMA ExecuteImplements ==
  ASSUME ExecutionInv, Refinement, Execute, UNCHANGED vars_
  PROVE  SourceStep
<1>0. UNCHANGED <<ast, size, code>>
  BY DEF vars_, parserVars, codegenVars
<1>1. CASE Begin
  BY <1>1, BeginStep
<1>2. CASE pc # Stopped
  <2>1. PICK b, i : pc = [block |-> b, index |-> i] /\ b = pc.block /\ i = pc.index
    BY <1>2 DEF ExecutionInv
  <2>2. phase = "compiled" /\ StaysIn(b, i) /\ i \in Nat
    BY <1>2, <2>1 DEF ExecutionInv, StaysIn
  <2>3. StaysIn(pc'.block, pc'.index)
    BY ExecuteStep
  <2>4. CASE StartBlock
    <3>1. i = 0 /\ pc' = [block |-> b, index |-> 1]
      BY <2>1, <2>4 DEF StartBlock
    <3> QED BY <1>0, <2>1, <2>2, <2>3, <3>1, StartStep, CounterHas
  <2>5. CASE StepOver
    <3>1. /\ i # 0 /\ pc' = [block |-> b, index |-> i + 1]
          /\ code[b][i].op \in {"eval", "alloca", "store"}
      BY <2>1, <2>5 DEF StepOver, Executes, Instruction
    <3>2. StaysIn(b, i + 1)
      BY <2>3, <3>1, CounterHas
    <3> QED BY <1>0, <2>1, <2>2, <3>1, <3>2, OverStep
  <2>6. CASE TakeBranch
    <3>1. PICK j \in 1..Len(code[b][i].to) : pc' = [block |-> code[b][i].to[j], index |-> 0]
      BY <2>1, <2>6 DEF TakeBranch, Instruction, GoTo
    <3>2. i # 0 /\ code[b][i].op \in {"br", "condbr"}
      BY <2>1, <2>6 DEF TakeBranch, Executes, Instruction
    <3>3. PICK c : c = code[b][i].to[j]
      OBVIOUS
    <3>4. StaysIn(c, 0) /\ pc' = [block |-> c, index |-> 0]
      BY <2>3, <3>1, <3>3, CounterHas
    <3> QED BY <1>0, <2>1, <2>2, <3>2, <3>3, <3>4, BranchStep
  <2>7. ~Begin
    BY <1>2 DEF Begin
  <2> QED BY <2>4, <2>5, <2>6, <2>7 DEF Execute
<1> QED BY <1>1, <1>2 DEF Execute, Begin, StartBlock, StepOver, TakeBranch, Executes
------------------------------------------------------------------------------
\* Every step of the pipeline or of the compiled function is one of the source.
LEMMA SourceKeepsStep ==
  ASSUME ExecutionInv, Refinement, [ExecutionNext]_executionVars
  PROVE  (Source!SourceNext /\ UNCHANGED ast) \/ Here' = Here
<1>1. CASE Execute /\ UNCHANGED vars_
  <2>1. UNCHANGED ast
    BY <1>1 DEF vars_, parserVars
  <2> QED BY <1>1, <2>1, ExecuteImplements DEF SourceStep
<1>2. CASE [Next]_vars_ /\ UNCHANGED pc
  <2>1. CASE pc = Stopped
    BY <1>2, <2>1 DEF Here, Stopped, NotRunning
  <2>2. CASE pc # Stopped
    <3>1. phase = "compiled"
      BY <2>2 DEF ExecutionInv
    <3>2. UNCHANGED vars_
      BY <1>2, <3>1, InvariantParts, AfterParsing DEF ExecutionInv, Ends
    <3>3. UNCHANGED <<ast, size, code>>
      BY <3>2 DEF vars_, parserVars, codegenVars
    <3>4. PICK b, i : pc = [block |-> b, index |-> i] /\ b = pc.block /\ i = pc.index
      BY <2>2 DEF ExecutionInv
    <3>5. Here' = NextEvent(b, i)
      BY <1>2, <2>2, <3>3, <3>4, HereThen
    <3> QED BY <2>2, <3>4, <3>5 DEF Here
  <2> QED BY <2>1, <2>2
<1> QED BY <1>1, <1>2 DEF ExecutionNext, executionVars

(***************************************************************************)
(* Every execution of the compiled function is one of its source: the      *)
(* evaluations and branches that the compile functions of the statements   *)
(* generated happen in the order of the statements, whatever the body      *)
(* (block.cpp:33-47, controlflow.cpp:52-239, jump.cpp:24-149).             *)
(***************************************************************************)
THEOREM CompiledCodeImplementsSource == ExecutionSpec => ImplementsSource
<1>1. ExecutionSpec => []ExecutionInv
  BY ExecutionInvHolds
<1>2. ExecutionInit => Refinement /\ Source!SourceInit
  <2> SUFFICES ASSUME ExecutionInit PROVE Refinement /\ Source!SourceInit
    OBVIOUS
  <2>1. Refinement
    BY InitRefinement DEF ExecutionInit
  <2>2. Here = NotRunning
    BY DEF ExecutionInit, Here
  <2>3. Source!SourceInit
    BY <2>2 DEF Source!SourceInit, Here, Source!NotRunning, NotRunning, Source!None, None
  <2> QED BY <2>1, <2>3
<1>3. ExecutionInv /\ ExecutionInv' /\ Refinement /\ [ExecutionNext]_executionVars => Refinement'
  <2>1. [ExecutionNext]_executionVars => [Next]_vars_
    BY DEF ExecutionNext, executionVars
  <2> QED BY <2>1, RefinementStep DEF ExecutionInv
<1>4. ExecutionInv /\ Refinement /\ [ExecutionNext]_executionVars
        => [Source!SourceNext /\ UNCHANGED ast]_(IF pc = Stopped THEN NotRunning
                                                 ELSE NextEvent(pc.block, pc.index))
  BY SourceKeepsStep DEF Here
<1> QED BY <1>1, <1>2, <1>3, <1>4, PTL DEF ExecutionSpec, ImplementsSource, Source!SourceSpec
==============================================================================
