------------------------- MODULE FunctionPipelineProofs -------------------------
(***************************************************************************)
(* FunctionPipeline keeps its types, the labels of a function identify its *)
(* labeled statements, no basic block gets a second terminator, an else    *)
(* belongs to the nearest if, and the type checker finds the right         *)
(* declarations and counts the loops, for every function body.             *)
(***************************************************************************)
EXTENDS PipelineInvariant, WellFoundedInduction, FiniteSetTheorems, TLAPS

\* What the head of a statement can hold (parser.cpp:455-600).
LEMMA HeadNamesType ==
  ASSUME NEW k, NEW x \in HeadNames(k)
  PROVE  /\ x \in Name \cup Label \cup {NoName}
         /\ k \in {"labeled", "goto"} => x \in Label
         /\ k = "declaration" => x \in Name \cup {NoName}
BY DEF HeadNames, EvalKind

LEMMA Bounded == MaxStatements \in Nat \ {0}
BY AstAssumption

LEMMA InitTreeAndTypes == Init => TreeAndTypes
<1> SUFFICES ASSUME Init PROVE TreeAndTypes
  OBVIOUS
<1> USE AstAssumption DEF Init, Root, None, Stmt
<1>1. ParserTypeOK
  <2>1. <<>> \in Seq(1..MaxStatements)
    OBVIOUS
  <2>2. Unparsed \in Statement
    BY <2>1 DEF Unparsed, Statement, Kind, LeafKind
  <2>3. phase \in Passes \cup Ends /\ size \in 0..MaxStatements /\ labels \subseteq Label
    BY DEF ParserInit, Passes
  <2>4. status \in [Stmt -> Statuses]
    BY DEF ParserInit, Statuses, AllUncalled
  <2> QED BY <2>2, <2>3, <2>4 DEF ParserInit, ParserTypeOK
<1>2. SemaTypeOK
  <2>1. ParamNames \subseteq Name
    BY DEF ParamNames
  <2> QED BY <2>1 DEF SemaInit, SemaTypeOK, FunctionScopeVars
<1>3. CodegenTypeOK
  BY DEF CodegenInit, CodegenTypeOK, Block, Entry, NoTargets
<1>4. TreeInv /\ PassInv /\ ScopeInv
  BY DEF ParserInit, TreeInv, PassInv, ScopeInv, Walks, Ends
<1> QED BY <1>1, <1>2, <1>3, <1>4 DEF TreeAndTypes, TypeOK
------------------------------------------------------------------------------
\* The actions of the parser.

LEMMA StartBodyStep ==
  ASSUME TreeAndTypes, StartBody, UNCHANGED <<semaVars, codegenVars>>
  PROVE  TreeAndTypes'
<1> USE AstAssumption DEF TreeAndTypes, StartBody, semaVars, codegenVars, Root, None, Stmt
<1>1. ParserTypeOK'
  <2>1. NewStatement("block", NoName) \in Statement
    <3>1. <<>> \in Seq(1..MaxStatements)
      OBVIOUS
    <3> QED BY <3>1 DEF NewStatement, Statement, Kind, TypeOK, ParserTypeOK
  <2>2. labels' \subseteq Label
    BY DEF ClearedLabels
  <2> QED BY <2>1, <2>2 DEF TypeOK, ParserTypeOK
<1>2. SemaTypeOK' /\ CodegenTypeOK'
  BY DEF TypeOK, SemaTypeOK, CodegenTypeOK
<1>3. TreeInv'
  <2>1. ast' = [ast EXCEPT ![1] = [kind |-> "block", name |-> NoName, parent |-> 0, kids |-> <<>>]]
    BY DEF NewStatement, TreeInv
  <2>2. /\ ast'[1].kind = "block" /\ ast'[1].name = NoName
        /\ ast'[1].parent = 0 /\ ast'[1].kids = <<>>
    BY <2>1 DEF TypeOK, ParserTypeOK
  <2>3. NoName \in HeadNames("block")
    BY DEF HeadNames, EvalKind
  <2>4. size' = 1 /\ at' = 1 /\ phase' = "parse"
    OBVIOUS
  <2>5. \A n \in 1..1 : ast'[n].name \in HeadNames(KindOf(n))'
    BY <2>2, <2>3 DEF KindOf
  <2>6. \A n \in 1..1 : Len(Kids(n)') = 0
    BY <2>2 DEF Kids
  <2>7. \A n \in 1..1 : \A i \in 1..Len(Kids(n)') :
          Kids(n)'[i] \in 2..1 /\ Parent(Kids(n)[i])' = n
    BY <2>6
  <2>8. (KindOf(Root) = "block" /\ Parent(Root) = None /\ KindOf(at) \notin LeafKind)'
    BY <2>2, <2>4 DEF KindOf, Parent, LeafKind
  <2> HIDE DEF StartBody
  <2> QED BY <2>2, <2>4, <2>5, <2>7, <2>8 DEF TreeInv
<1>4. PassInv' /\ ScopeInv'
  BY DEF TreeInv, PassInv, ScopeInv, Walks, AllUncalled
<1> QED BY <1>1, <1>2, <1>3, <1>4 DEF TypeOK

LEMMA OpenStatementStep ==
  ASSUME TreeAndTypes, NEW k \in Kind, NEW x \in HeadNames(k), OpenStatement(k, x),
         UNCHANGED <<semaVars, codegenVars>>
  PROVE  TreeAndTypes'
<1> USE AstAssumption DEF TreeAndTypes, semaVars, codegenVars, Root, None, Stmt
<1> DEFINE n == size + 1
           s == NewStatement(k, x)
<1>1. /\ size \in Nat /\ n \in 2..MaxStatements /\ at \in 1..size /\ phase = "parse" /\ phase' = "parse"
      /\ size' = n /\ at' = n /\ ast' = [ast EXCEPT ![n] = s] /\ k \notin LeafKind
      /\ ast \in [Stmt -> Statement] /\ status' = status
  BY DEF OpenStatement, ReadsStatement, HasRoom, TypeOK, ParserTypeOK, TreeInv
<1>2. s \in Statement /\ s.kind = k /\ s.name = x /\ s.parent = at /\ s.kids = <<>>
  <2>1. <<>> \in Seq(1..MaxStatements)
    OBVIOUS
  <2> QED BY <1>1, <2>1, HeadNamesType DEF Statement, NewStatement
<1> HIDE DEF s
<1>3. ParserTypeOK'
  <2>1. labels' \subseteq Label /\ notElse' \in BOOLEAN
    BY HeadNamesType DEF OpenStatement, TypeOK, ParserTypeOK, TokenAfterStatement
  <2> QED BY <1>1, <1>2, <2>1 DEF TypeOK, ParserTypeOK, Passes
<1>4. SemaTypeOK' /\ CodegenTypeOK'
  BY DEF TypeOK, SemaTypeOK, CodegenTypeOK
<1>5. TreeInv'
  <2>1. /\ ast'[n].kind = k /\ ast'[n].name = x /\ ast'[n].parent = at
        /\ ast'[n].kids = <<>> /\ \A m \in 1..size : ast'[m] = ast[m]
    BY <1>1, <1>2
  <2>2. KindOf(at) \notin LeafKind
    BY <1>1 DEF TreeInv
  <2>3. \A m \in 2..n : (Parent(m) \in 1..(m - 1) /\ KindOf(Parent(m)) \notin LeafKind)'
    <3> SUFFICES ASSUME NEW m \in 2..n
                 PROVE  ast'[m].parent \in 1..(m - 1) /\ ast'[ast'[m].parent].kind \notin LeafKind
      BY DEF Parent, KindOf
    <3>1. CASE m = n
      BY <1>1, <2>2, <2>1, <3>1 DEF KindOf
    <3>2. CASE m # n
      <4>1. m \in 2..size /\ m \in 1..size
        BY <1>1, <3>2
      <4>2. Parent(m) \in 1..(m - 1) /\ KindOf(Parent(m)) \notin LeafKind
        BY <4>1 DEF TreeInv
      <4> QED BY <1>1, <2>1, <4>1, <4>2 DEF Parent, KindOf
    <3> QED BY <3>1, <3>2
  <2>4. \A m \in 1..n : (ast[m].name \in HeadNames(KindOf(m)))'
    <3> SUFFICES ASSUME NEW m \in 1..n PROVE ast'[m].name \in HeadNames(ast'[m].kind)
      BY DEF KindOf
    <3>1. CASE m = n
      BY <2>1, <3>1
    <3>2. CASE m # n
      <4>1. m \in 1..size
        BY <1>1, <3>2
      <4> QED BY <2>1, <4>1 DEF TreeInv, KindOf
    <3> QED BY <3>1, <3>2
  <2>5. \A m \in 1..n : \A i \in 1..Len(Kids(m)') :
          Kids(m)'[i] \in 2..n /\ Parent(Kids(m)[i])' = m
    BY <1>1, <2>1, SMTT(20) DEF TreeInv, Kids, Parent
  <2> QED BY <1>1, <2>1, <2>3, <2>4, <2>5 DEF TreeInv, KindOf, Parent, Kids
<1>6. PassInv' /\ ScopeInv'
  BY <1>1 DEF PassInv, ScopeInv, Walks, AllUncalled
<1> QED BY <1>3, <1>4, <1>5, <1>6 DEF TypeOK

\* The effect of adding n to the children of p.
LEMMA AppendOne ==
  ASSUME NEW S, NEW q \in Seq(S), NEW e \in S
  PROVE  /\ Append(q, e) \in Seq(S)
         /\ Len(Append(q, e)) = Len(q) + 1
         /\ \A i \in 1..Len(Append(q, e)) :
              \/ i \in 1..Len(q) /\ Append(q, e)[i] = q[i]
              \/ i = Len(q) + 1 /\ Append(q, e)[i] = e
OBVIOUS

LEMMA KidAdded ==
  ASSUME NEW a \in [Stmt -> Statement], NEW p \in Stmt, NEW n \in Stmt,
         NEW b, b = WithKid(a, p, n)
  PROVE  /\ b \in [Stmt -> Statement]
         /\ \A m \in Stmt : /\ b[m].kind = a[m].kind /\ b[m].name = a[m].name
                            /\ b[m].parent = a[m].parent
                            /\ m # p => b[m].kids = a[m].kids
         /\ \A i \in 1..Len(b[p].kids) :
              \/ b[p].kids[i] = n
              \/ i \in 1..Len(a[p].kids) /\ b[p].kids[i] = a[p].kids[i]
<1> DEFINE q == Append(a[p].kids, n)
           t == [a[p] EXCEPT !.kids = q]
<1>1. a[p] \in Statement /\ a[p].kids \in Seq(Stmt)
  BY DEF Statement
<1>2. q \in Seq(Stmt)
  BY <1>1, AppendOne
<1>3. /\ t \in Statement /\ t.kids = q
      /\ t.kind = a[p].kind /\ t.name = a[p].name /\ t.parent = a[p].parent
  BY <1>1, <1>2 DEF Statement
<1>4. b = [a EXCEPT ![p] = t]
  BY DEF WithKid
<1> HIDE DEF t
<1>5. b[p] = t /\ \A m \in Stmt : m # p => b[m] = a[m]
  BY <1>4
<1>6. b \in [Stmt -> Statement]
  BY <1>3, <1>4
<1>7. \A i \in 1..Len(q) :
        \/ q[i] = n
        \/ i \in 1..Len(a[p].kids) /\ q[i] = a[p].kids[i]
  BY <1>1, AppendOne
<1> HIDE DEF q
<1> QED BY <1>3, <1>5, <1>6, <1>7

LEMMA LeafStatementStep ==
  ASSUME TreeAndTypes, NEW k \in Kind, NEW x \in HeadNames(k), LeafStatement(k, x),
         UNCHANGED <<semaVars, codegenVars>>
  PROVE  TreeAndTypes'
<1> USE Bounded DEF TreeAndTypes, semaVars, codegenVars, Root, None, Stmt
<1> DEFINE n == size + 1
           s == NewStatement(k, x)
           a == [ast EXCEPT ![n] = s]
<1>1. /\ size \in Nat /\ n \in 2..MaxStatements /\ at \in 1..size /\ phase = "parse"
      /\ phase' = "parse" /\ size' = n /\ at' = at /\ status' = status
      /\ KindOf(at) \notin LeafKind /\ ast \in [Stmt -> Statement]
      /\ ast' = WithKid(a, at, n)
  BY DEF LeafStatement, ReadsStatement, HasRoom, TypeOK, ParserTypeOK, TreeInv
<1>2. s \in Statement /\ s.kind = k /\ s.name = x /\ s.parent = at /\ s.kids = <<>>
  <2>1. <<>> \in Seq(1..MaxStatements)
    OBVIOUS
  <2> QED BY <1>1, <2>1, HeadNamesType DEF Statement, NewStatement
<1>3. /\ a \in [Stmt -> Statement]
      /\ a[n] = s /\ \A m \in 1..size : a[m] = ast[m]
  BY <1>1, <1>2
<1> HIDE DEF a, s
<1>4. /\ ast' \in [Stmt -> Statement]
      /\ \A m \in Stmt : /\ ast'[m].kind = a[m].kind /\ ast'[m].name = a[m].name
                         /\ ast'[m].parent = a[m].parent
                         /\ m # at => ast'[m].kids = a[m].kids
      /\ \A i \in 1..Len(ast'[at].kids) :
           \/ ast'[at].kids[i] = n
           \/ i \in 1..Len(a[at].kids) /\ ast'[at].kids[i] = a[at].kids[i]
  <2>1. at \in Stmt /\ n \in Stmt
    BY <1>1
  <2>2. a \in [Stmt -> Statement] /\ ast' = WithKid(a, at, n)
    BY <1>1, <1>3
  <2> HIDE DEF TreeAndTypes, Stmt, n, semaVars, codegenVars
  <2> QED BY <2>1, <2>2, KidAdded
<1>5. ParserTypeOK'
  <2>1. UNCHANGED labels /\ notElse' \in BOOLEAN
    BY DEF LeafStatement, TokenAfterStatement
  <2> QED BY <1>1, <1>4, <2>1 DEF TypeOK, ParserTypeOK, Passes
<1>6. SemaTypeOK' /\ CodegenTypeOK'
  BY DEF TypeOK, SemaTypeOK, CodegenTypeOK
<1>7. TreeInv'
  <2>1. \A m \in 1..size : /\ ast'[m].kind = ast[m].kind /\ ast'[m].name = ast[m].name
                           /\ ast'[m].parent = ast[m].parent
    BY <1>1, <1>3, <1>4
  <2>2. ast'[n].kind = k /\ ast'[n].name = x /\ ast'[n].parent = at /\ ast'[n].kids = <<>>
    BY <1>1, <1>2, <1>3, <1>4
  <2>3. \A m \in 2..n : (Parent(m) \in 1..(m - 1) /\ KindOf(Parent(m)) \notin LeafKind)'
    <3> SUFFICES ASSUME NEW m \in 2..n
                 PROVE  ast'[m].parent \in 1..(m - 1) /\ ast'[ast'[m].parent].kind \notin LeafKind
      BY DEF Parent, KindOf
    <3>1. CASE m = n
      BY <1>1, <2>1, <2>2, <3>1 DEF KindOf
    <3>2. CASE m # n
      <4>1. m \in 2..size /\ m \in 1..size
        BY <1>1, <3>2
      <4>2. Parent(m) \in 1..(m - 1) /\ KindOf(Parent(m)) \notin LeafKind
        BY <4>1 DEF TreeInv
      <4>3. Parent(m) \in 1..size
        BY <1>1, <4>1, <4>2
      <4>4. ast'[m].parent = Parent(m) /\ ast'[Parent(m)].kind = KindOf(Parent(m))
        BY <2>1, <4>1, <4>3 DEF Parent, KindOf
      <4> QED BY <4>2, <4>4
    <3> QED BY <3>1, <3>2
  <2>4. \A m \in 1..n : (ast[m].name \in HeadNames(KindOf(m)))'
    <3> SUFFICES ASSUME NEW m \in 1..n PROVE ast'[m].name \in HeadNames(ast'[m].kind)
      BY DEF KindOf
    <3>1. CASE m = n
      BY <2>2, <3>1
    <3>2. CASE m # n
      <4>1. m \in 1..size
        BY <1>1, <3>2
      <4> QED BY <2>1, <4>1 DEF TreeInv, KindOf
    <3> QED BY <3>1, <3>2
  <2>5. \A m \in 1..n : \A i \in 1..Len(Kids(m)') :
          Kids(m)'[i] \in 2..n /\ Parent(Kids(m)[i])' = m
    <3> SUFFICES ASSUME NEW m \in 1..n, NEW i \in 1..Len(ast'[m].kids)
                 PROVE  ast'[m].kids[i] \in 2..n /\ ast'[ast'[m].kids[i]].parent = m
      BY DEF Kids, Parent
    <3>1. CASE m = n
      BY <2>2, <3>1
    <3>2. CASE m = at
      <4>1. CASE ast'[at].kids[i] = n
        <5>1. ast'[m].kids[i] = n
          BY <3>2, <4>1
        <5> QED BY <1>1, <2>2, <3>2, <5>1
      <4>2. CASE i \in 1..Len(Kids(at)) /\ ast'[at].kids[i] = Kids(at)[i]
        <5>1. Kids(at)[i] \in 2..size /\ Parent(Kids(at)[i]) = at
          BY <1>1, <4>2 DEF TreeInv
        <5> QED BY <1>1, <2>1, <3>2, <4>2, <5>1, SMTT(20) DEF Parent
      <4> QED BY <1>1, <1>3, <1>4, <3>2, <4>1, <4>2 DEF Kids
    <3>3. CASE m # n /\ m # at
      <4>1. m \in 1..size /\ ast'[m].kids = ast[m].kids
        BY <1>1, <1>3, <1>4, <3>3
      <4>2. Kids(m)[i] \in 2..size /\ Parent(Kids(m)[i]) = m
        BY <4>1 DEF TreeInv, Kids
      <4>3. Kids(m)[i] \in 1..size /\ ast'[m].kids[i] = Kids(m)[i]
        BY <1>1, <4>1, <4>2 DEF Kids
      <4> QED BY <1>1, <2>1, <4>2, <4>3, SMTT(20) DEF Parent
    <3> QED BY <3>1, <3>2, <3>3
  <2>6. (size > 0 => KindOf(Root) = "block" /\ Parent(Root) = None)'
        /\ KindOf(at)' \notin LeafKind
    BY <1>1, <2>1 DEF TreeInv, KindOf, Parent
  <2> HIDE DEF TreeAndTypes
  <2> QED BY <1>1, <2>3, <2>4, <2>5, <2>6, SMTT(20) DEF TreeInv
<1>8. PassInv' /\ ScopeInv'
  BY <1>1 DEF PassInv, ScopeInv, Walks, AllUncalled
<1> QED BY <1>5, <1>6, <1>7, <1>8 DEF TypeOK

LEMMA FinishStatementStep ==
  ASSUME TreeAndTypes, FinishStatement, UNCHANGED <<semaVars, codegenVars>>
  PROVE  TreeAndTypes'
<1> USE Bounded DEF TreeAndTypes, semaVars, codegenVars, Root, None, Stmt
<1> DEFINE p == Parent(at)
<1>1. /\ size \in 0..MaxStatements /\ at \in 2..size /\ phase = "parse" /\ phase' = "parse"
      /\ size' = size /\ at' = p /\ status' = status /\ labels' = labels
      /\ notElse' = NotElseAfter /\ ast \in [Stmt -> Statement]
      /\ ast' = WithKid(ast, p, at)
  BY DEF FinishStatement, TypeOK, ParserTypeOK, TreeInv
<1>2. p \in 1..(at - 1) /\ p \in 1..size /\ KindOf(p) \notin LeafKind
  BY <1>1 DEF TreeInv
<1> HIDE DEF p
<1>3. /\ ast' \in [Stmt -> Statement]
      /\ \A m \in Stmt : /\ ast'[m].kind = ast[m].kind /\ ast'[m].name = ast[m].name
                         /\ ast'[m].parent = ast[m].parent
                         /\ m # p => ast'[m].kids = ast[m].kids
      /\ \A i \in 1..Len(ast'[p].kids) :
           \/ ast'[p].kids[i] = at
           \/ i \in 1..Len(ast[p].kids) /\ ast'[p].kids[i] = ast[p].kids[i]
  <2>1. p \in Stmt /\ at \in Stmt
    BY <1>1, <1>2
  <2>2. ast \in [Stmt -> Statement] /\ ast' = WithKid(ast, p, at)
    BY <1>1
  <2> HIDE DEF TreeAndTypes, Stmt, semaVars, codegenVars
  <2> QED BY <2>1, <2>2, KidAdded
<1>4. ParserTypeOK'
  <2>1. notElse' \in BOOLEAN
    BY <1>1 DEF NotElseAfter, TokenAfterStatement, TypeOK, ParserTypeOK
  <2> QED BY <1>1, <1>2, <1>3, <2>1 DEF TypeOK, ParserTypeOK, Passes
<1>5. SemaTypeOK' /\ CodegenTypeOK'
  BY DEF TypeOK, SemaTypeOK, CodegenTypeOK
<1>6. TreeInv'
  <2>1. \A m \in 1..size : /\ ast'[m].kind = ast[m].kind /\ ast'[m].name = ast[m].name
                           /\ ast'[m].parent = ast[m].parent
    BY <1>1, <1>3
  <2>2. \A m \in 2..size : (Parent(m) \in 1..(m - 1) /\ KindOf(Parent(m)) \notin LeafKind)'
    <3> SUFFICES ASSUME NEW m \in 2..size
                 PROVE  ast'[m].parent \in 1..(m - 1) /\ ast'[ast'[m].parent].kind \notin LeafKind
      BY DEF Parent, KindOf
    <3>1. Parent(m) \in 1..(m - 1) /\ KindOf(Parent(m)) \notin LeafKind
      BY DEF TreeInv
    <3>2. m \in 1..size /\ Parent(m) \in 1..size
      BY <1>1, <3>1
    <3> QED BY <2>1, <3>1, <3>2 DEF Parent, KindOf
  <2>3. \A m \in 1..size : (ast[m].name \in HeadNames(KindOf(m)))'
    <3> SUFFICES ASSUME NEW m \in 1..size PROVE ast'[m].name \in HeadNames(ast'[m].kind)
      BY DEF KindOf
    <3> QED BY <2>1 DEF TreeInv, KindOf
  <2>4. \A m \in 1..size : \A i \in 1..Len(Kids(m)') :
          Kids(m)'[i] \in 2..size /\ Parent(Kids(m)[i])' = m
    <3> SUFFICES ASSUME NEW m \in 1..size, NEW i \in 1..Len(ast'[m].kids)
                 PROVE  ast'[m].kids[i] \in 2..size /\ ast'[ast'[m].kids[i]].parent = m
      BY DEF Kids, Parent
    <3>1. CASE m = p /\ ast'[p].kids[i] = at
      <4>1. ast'[m].kids[i] = at /\ ast[at].parent = m
        BY <3>1 DEF p, Parent
      <4> QED BY <1>1, <2>1, <4>1
    <3>2. CASE i \in 1..Len(Kids(m)) /\ ast'[m].kids[i] = Kids(m)[i]
      <4>1. Kids(m)[i] \in 2..size /\ Parent(Kids(m)[i]) = m
        BY <3>2 DEF TreeInv
      <4>2. Kids(m)[i] \in 1..size
        BY <1>1, <4>1
      <4> QED BY <2>1, <3>2, <4>1, <4>2 DEF Parent
    <3> QED BY <1>1, <1>3, <3>1, <3>2 DEF Kids
  <2>5. (size > 0 => KindOf(Root) = "block" /\ Parent(Root) = None)'
    BY <1>1, <2>1 DEF TreeInv, KindOf, Parent
  <2>6. KindOf(at)' \notin LeafKind
    BY <1>1, <1>2, <2>1 DEF KindOf
  <2> HIDE DEF TreeAndTypes
  <2> QED BY <1>1, <1>2, <2>2, <2>3, <2>4, <2>5, <2>6, SMTT(20) DEF TreeInv
<1>7. PassInv' /\ ScopeInv'
  BY <1>1 DEF PassInv, ScopeInv, Walks, AllUncalled
<1> QED BY <1>4, <1>5, <1>6, <1>7 DEF TypeOK

\* The pass goes on or ends; nothing else changes.
LEMMA PhaseStep ==
  ASSUME TreeAndTypes, phase' \in {phase, "rejected", "crashed", "compiled"},
         UNCHANGED <<ast, size, at, labels, status, notElse, semaVars, codegenVars>>
  PROVE  TreeAndTypes'
<1> USE DEF TreeAndTypes, semaVars, codegenVars
<1>1. TypeOK'
  BY DEF TypeOK, ParserTypeOK, SemaTypeOK, CodegenTypeOK, Passes, Ends
<1>2. phase' = phase \/ phase' \in Ends
  BY DEF Ends
<1>3. TreeInv'
  BY <1>2 DEF TreeInv, Ends, KindOf, Kids, Parent
<1>4. PassInv'
  BY <1>2 DEF PassInv, Ends, Walks, Called, Parent
<1>5. ScopeInv'
  BY <1>2 DEF ScopeInv, Ends, Called, KindOf
<1> QED BY <1>1, <1>3, <1>4, <1>5

LEMMA FinishBodyStep ==
  ASSUME TreeAndTypes, FinishBody, UNCHANGED <<semaVars, codegenVars>>
  PROVE  TreeAndTypes'
<1> USE AstAssumption DEF TreeAndTypes, FinishBody, semaVars, codegenVars
<1>1. TypeOK'
  BY DEF TypeOK, ParserTypeOK, SemaTypeOK, CodegenTypeOK, Passes, Ends
<1>2. status = AllUncalled /\ phase' = "typecheck" /\ at' = Root
  BY DEF PassInv
<1>3. size > 0
  BY DEF TreeInv, TypeOK, ParserTypeOK, Root, None
<1>4. TreeInv'
  BY <1>2, <1>3 DEF TreeInv, Ends, KindOf, Kids, Parent
<1>5. PassInv' /\ ScopeInv'
  <2>1. \A n \in Stmt : ~Called(n)' /\ status'[n] = "uncalled"
    BY <1>2 DEF AllUncalled, Called
  <2>2. size \in 0..MaxStatements /\ size' = size
    BY DEF TypeOK, ParserTypeOK
  <2> QED BY <1>2, <2>1, <2>2 DEF PassInv, ScopeInv, Walks, Stmt
<1> QED BY <1>1, <1>4, <1>5

LEMMA ParseStep ==
  ASSUME TreeAndTypes, Parse, UNCHANGED <<semaVars, codegenVars>>
  PROVE  TreeAndTypes'
<1>1. CASE StartBody
  BY <1>1, StartBodyStep
<1>2. CASE \E k \in SourceKinds : \E x \in HeadNames(k) :
             OpenStatement(k, x) \/ LeafStatement(k, x) \/ RefuseStatement(k, x)
  <2>1. PICK k \in SourceKinds : \E x \in HeadNames(k) :
          OpenStatement(k, x) \/ LeafStatement(k, x) \/ RefuseStatement(k, x)
    BY <1>2
  <2>2. PICK x \in HeadNames(k) :
          OpenStatement(k, x) \/ LeafStatement(k, x) \/ RefuseStatement(k, x)
    BY <2>1
  <2>3. k \in Kind
    BY AstAssumption
  <2>4. CASE OpenStatement(k, x)
    BY <2>3, <2>4, OpenStatementStep
  <2>5. CASE LeafStatement(k, x)
    BY <2>3, <2>5, LeafStatementStep
  <2>6. CASE RefuseStatement(k, x)
    BY <2>6, PhaseStep DEF RefuseStatement, Reject
  <2> QED BY <2>2, <2>4, <2>5, <2>6
<1>3. CASE SyntaxError
  BY <1>3, PhaseStep DEF SyntaxError, Reject
<1>4. CASE FinishStatement
  BY <1>4, FinishStatementStep
<1>5. CASE FinishBody
  BY <1>5, FinishBodyStep
<1> QED BY <1>1, <1>2, <1>3, <1>4, <1>5 DEF Parse
------------------------------------------------------------------------------
(***************************************************************************)
(* The type checker and the code generator walk the tree alike: a handler  *)
(* is entered, calls that of a child, or returns.                          *)
(***************************************************************************)

LEMMA WalkRun ==
  ASSUME TreeAndTypes, phase \in Walks, phase' \in {phase} \cup Ends, at # None, Run,
         UNCHANGED <<ast, size, at, labels, notElse>>
  PROVE  ParserTypeOK' /\ TreeInv' /\ PassInv'
<1> USE DEF TreeAndTypes
<1>1. /\ at \in Stmt /\ status \in [Stmt -> Statuses] /\ ParserTypeOK
      /\ status' = [status EXCEPT ![at] = "running"]
  BY DEF TypeOK, ParserTypeOK, Run
<1>2. ParserTypeOK'
  BY <1>1 DEF ParserTypeOK, Passes, Ends, Statuses, Walks
<1>3. TreeInv'
  <2>1. phase # "parse" /\ phase \notin Ends /\ phase' # "parse"
    BY DEF Walks, Ends
  <2> QED BY <2>1 DEF TreeInv, KindOf, Kids, Parent
<1>4. PassInv'
  <2>1. /\ \A n \in Stmt : status'[n] # "uncalled" <=> n = at \/ status[n] # "uncalled"
        /\ Root \in Stmt
    BY <1>1, AstAssumption DEF Stmt, Root
  <2>2. phase' # "parse"
    BY DEF Walks, Ends
  <2>3. at \in 1..size /\ \A n \in 2..size : ast[n].parent \in 1..size
    BY <1>1 DEF TreeInv, ParserTypeOK, None, Parent, Stmt, Root
  <2>4. ASSUME phase' \in Walks, at # Root PROVE Called(Parent(at))'
    <3>1. Parent(at) \in Stmt
      BY <1>1, <2>3, <2>4, AstAssumption DEF ParserTypeOK, Parent, Stmt, Root
    <3> QED BY <2>1, <2>4, <3>1 DEF PassInv, Called, Parent
  <2>5. ASSUME phase' \in Walks, NEW n \in Stmt \ {Root}, Called(n)'
        PROVE  n <= size /\ Called(Parent(n))'
    <3>1. CASE n = at
      <4> QED BY <1>1, <2>3, <2>4, <2>5, <3>1 DEF ParserTypeOK
    <3>2. CASE n # at
      <4>1. n <= size /\ Called(Parent(n))
        BY <2>1, <2>5, <3>2 DEF PassInv, Called
      <4>2. Parent(n) \in Stmt
        BY <1>1, <2>3, <4>1, AstAssumption DEF ParserTypeOK, Parent, Stmt, Root
      <4> QED BY <2>1, <4>1, <4>2 DEF Called, Parent
    <3> QED BY <3>1, <3>2
  <2>6. ~Called(Root)' => FALSE
    BY <2>1 DEF PassInv, Called
  <2> QED BY <2>2, <2>4, <2>5, <2>6 DEF PassInv
<1> QED BY <1>2, <1>3, <1>4

LEMMA WalkReturn ==
  ASSUME TreeAndTypes, phase \in Walks, phase' \in {phase} \cup Ends, at \notin {None, Root},
         Return, UNCHANGED <<ast, size, labels, notElse>>
  PROVE  ParserTypeOK' /\ TreeInv' /\ PassInv'
<1> USE DEF TreeAndTypes
<1>1. /\ at \in 2..size /\ size \in 0..MaxStatements /\ MaxStatements \in Nat
      /\ ast \in [Stmt -> Statement] /\ status \in [Stmt -> Statuses] /\ ParserTypeOK
      /\ status' = [status EXCEPT ![at] = "returned"] /\ at' = Parent(at)
      /\ phase' # "parse" /\ phase # "parse" /\ phase \notin Ends
  BY AstAssumption DEF TypeOK, ParserTypeOK, TreeInv, Return, Walks, Ends, None, Root, Stmt
<1>2. \A n \in 2..size : Parent(n) \in 1..(n - 1) /\ Parent(n)' = Parent(n)
  BY DEF TreeInv, Parent
<1>3. at' \in 1..(at - 1) /\ at' \in Stmt /\ at \in Stmt
  BY <1>1, <1>2 DEF Stmt
<1>4. ParserTypeOK'
  <2>1. status' \in [Stmt -> Statuses]
    BY <1>1, <1>3 DEF Statuses
  <2> QED BY <1>1, <1>3, <2>1 DEF ParserTypeOK, Passes, Ends, Walks
<1>5. TreeInv'
  BY <1>1, <1>3 DEF TreeInv, KindOf, Kids, Parent, None
<1>6. PassInv'
  <2>1. \A n \in Stmt : status'[n] # "uncalled" <=> n = at \/ status[n] # "uncalled"
    BY <1>1
  <2>2. ASSUME phase' \in Walks PROVE Called(at')
    BY <1>1 DEF PassInv, Walks, Root
  <2>3. ASSUME phase' \in Walks, NEW n \in Stmt \ {Root}, Called(n)'
        PROVE  n <= size /\ n \in 2..size /\ Called(Parent(n))
    <3>1. n = at \/ Called(n)
      BY <2>1, <2>3 DEF Called
    <3>2. n <= size /\ Called(Parent(n))
      BY <1>1, <2>2, <2>3, <3>1 DEF PassInv, Called
    <3> QED BY <1>1, <3>2 DEF Stmt, Root
  <2>4. ASSUME phase' \in Walks, at' # Root
        PROVE  Called(Parent(at'))
    <3>1. at' \in Stmt \ {Root} /\ Called(at')
      BY <1>3, <2>2, <2>4
    <3> QED BY <3>1 DEF PassInv
  <2>5. \A n \in Stmt : Called(n) => Called(n)'
    BY <2>1 DEF Called
  <2>6. \A n \in 2..size : Parent(n) \in Stmt
    BY <1>1, <1>2 DEF Stmt
  <2>7. (\A n \in Stmt \ {Root} : Called(n) => n <= size /\ Called(Parent(n)))'
        \/ phase' \notin Walks
    <3> SUFFICES ASSUME phase' \in Walks, NEW n \in Stmt \ {Root}, Called(n)'
                 PROVE  n <= size' /\ Called(Parent(n))'
      OBVIOUS
    <3>1. n <= size /\ n \in 2..size /\ Called(Parent(n))
      BY <2>3
    <3> QED BY <1>2, <2>5, <2>6, <3>1 DEF Called
  <2>8. (at # Root => Called(Parent(at)))' \/ phase' \notin Walks
    <3> SUFFICES ASSUME phase' \in Walks, at' # Root PROVE Called(Parent(at))'
      OBVIOUS
    <3>1. at' \in 2..size /\ Called(Parent(at'))
      BY <1>1, <1>3, <2>4 DEF Root
    <3>2. Parent(at)' = Parent(at')
      BY DEF Parent
    <3> QED BY <2>5, <2>6, <3>1, <3>2 DEF Called
  <2>9. phase' \in Walks => Called(Root)'
    <3>1. phase' \in Walks => Called(Root)
      BY <1>1 DEF PassInv
    <3>2. Root \in Stmt
      BY AstAssumption DEF Root, Stmt
    <3> QED BY <2>5, <3>1, <3>2
  <2> QED BY <1>1, <2>7, <2>8, <2>9 DEF PassInv
<1> QED BY <1>4, <1>5, <1>6

LEMMA WalkChild ==
  ASSUME TreeAndTypes, phase \in Walks, at # None, Resuming,
         NEW i \in 1..Len(Kids(at)), at' = Kids(at)[i],
         UNCHANGED <<phase, ast, size, labels, status, notElse>>
  PROVE  ParserTypeOK' /\ TreeInv' /\ PassInv'
<1> USE DEF TreeAndTypes
<1>1. at \in 1..size /\ at \in Stmt /\ size \in 0..MaxStatements /\ MaxStatements \in Nat
  BY AstAssumption DEF TypeOK, ParserTypeOK, TreeInv, None, Stmt
<1>2. at' \in 2..size /\ at' \in Stmt /\ Parent(at)' = at
  BY <1>1 DEF TreeInv, Parent, Stmt
<1>3. ParserTypeOK'
  BY <1>2 DEF TypeOK, ParserTypeOK
<1>4. TreeInv'
  <2>1. phase # "parse"
    BY DEF Walks
  <2> QED BY <1>1, <1>2, <2>1 DEF TreeInv, KindOf, Kids, Parent, None
<1>5. PassInv'
  <2>1. Called(at) /\ (at = Root \/ Called(Parent(at)))
    BY DEF Resuming, Called, PassInv
  <2>2. Called(Root)
    BY <2>1 DEF PassInv, AllUncalled, Called
  <2>3. Called(Parent(at))'
    BY <1>2, <2>1 DEF Called
  <2>4. \A n \in Stmt : Called(n)' = Called(n) /\ Parent(n)' = Parent(n)
    BY DEF Called, Parent
  <2>5. \A n \in Stmt \ {Root} : Called(n)' => n <= size' /\ Called(Parent(n))'
    BY DEF PassInv, Called, Parent
  <2>6. Called(Root)' /\ phase' # "parse"
    BY <2>2 DEF Called, Walks
  <2> QED BY <2>3, <2>5, <2>6 DEF PassInv
<1> QED BY <1>3, <1>4, <1>5

\* The scope that the running handler was called with.
LEMMA ScopeType ==
  ASSUME TreeAndTypes, phase = "typecheck", at \notin {None, Root}
  PROVE  Parent(at) \in 1..size /\ Scope \in Stmt /\ Scope \in 1..size
<1> USE DEF TreeAndTypes
<1>1. at \in 2..size /\ size \in 0..MaxStatements /\ MaxStatements \in Nat
  BY AstAssumption DEF TypeOK, ParserTypeOK, TreeInv, None, Root, Stmt
<1>2. Parent(at) \in 1..(at - 1) /\ KindOf(Parent(at)) \notin LeafKind
  BY <1>1 DEF TreeInv
<1>3. Called(Parent(at)) /\ Parent(at) \in 1..size
  BY <1>1, <1>2 DEF PassInv, Walks
<1> QED BY <1>1, <1>2, <1>3 DEF ScopeInv, Scope, Stmt
------------------------------------------------------------------------------
\* The actions of the type checker.

\* A handler that calls others is entered with the scope for them.
LEMMA CheckEntered ==
  ASSUME TreeAndTypes, phase = "typecheck", phase' = phase, at # None, Run,
         scopeOf'[at] \in 1..size, \A n \in Stmt : n # at => scopeOf'[n] = scopeOf[n],
         UNCHANGED <<ast, size, at, labels, notElse, codegenVars>>, SemaTypeOK'
  PROVE  TreeAndTypes'
<1>1. ParserTypeOK' /\ TreeInv' /\ PassInv'
  BY WalkRun DEF Walks
<1>2. CodegenTypeOK'
  BY DEF TreeAndTypes, TypeOK, CodegenTypeOK, codegenVars
<1>3. ScopeInv'
  <2>1. \A n \in 1..size : n \in Stmt /\ (Called(n)' => n = at \/ Called(n))
    BY AstAssumption DEF TreeAndTypes, TypeOK, ParserTypeOK, Run, Called, Stmt
  <2> QED BY <2>1 DEF TreeAndTypes, ScopeInv, KindOf
<1> QED BY <1>1, <1>2, <1>3 DEF TreeAndTypes, TypeOK

\* A handler that does not call others, or has done so, returns.
LEMMA CheckReturned ==
  ASSUME TreeAndTypes, phase = "typecheck", phase' = phase, at \notin {None, Root}, Return,
         Called(at) \/ KindOf(at) \in LeafKind,
         UNCHANGED <<ast, size, labels, notElse, scopeOf, codegenVars>>, SemaTypeOK'
  PROVE  TreeAndTypes'
<1>1. ParserTypeOK' /\ TreeInv' /\ PassInv'
  BY WalkReturn DEF Walks
<1>2. CodegenTypeOK'
  BY DEF TreeAndTypes, TypeOK, CodegenTypeOK, codegenVars
<1>3. ScopeInv'
  <2>1. \A n \in 1..size : n \in Stmt /\ (Called(n)' => n = at \/ Called(n))
    BY AstAssumption DEF TreeAndTypes, TypeOK, ParserTypeOK, Return, Called, Stmt
  <2> QED BY <2>1 DEF TreeAndTypes, ScopeInv, KindOf
<1> QED BY <1>1, <1>2, <1>3 DEF TreeAndTypes, TypeOK

LEMMA ResolveType ==
  ASSUME TypeOK, Resolve
  PROVE  resolved' \in [Stmt -> Stmt \cup {None}]
BY DEF Resolve, TypeOK, SemaTypeOK

LEMMA InnerStatement ==
  ASSUME TreeAndTypes, at # None, KindOf(at) # "block"
  PROVE  at \notin {None, Root}
BY DEF TreeAndTypes, TreeInv, TypeOK, ParserTypeOK, None, Root, Stmt

LEMMA TypecheckStep ==
  ASSUME TreeAndTypes, Typecheck, UNCHANGED <<notElse, codegenVars>>
  PROVE  TreeAndTypes'
<1> USE DEF TreeAndTypes, Checks, semaVars
<1>0. /\ SemaTypeOK /\ ParserTypeOK /\ at \in Stmt \cup {None}
      /\ at # None => at \in Stmt /\ at \in 1..size
  BY DEF TypeOK, ParserTypeOK, TreeInv, None, Stmt
<1>1. CASE CheckBlock
  <2>1. /\ phase = "typecheck" /\ phase' = phase /\ at # None /\ at \in Stmt /\ Run
        /\ scopeOf' = [scopeOf EXCEPT ![at] = at]
        /\ loopCounter' = [loopCounter EXCEPT ![at] = CopiedLoopCounter(at)]
        /\ UNCHANGED <<ast, size, at, labels, vars, resolved>>
    BY <1>0, <1>1 DEF CheckBlock, ScopeForKids
  <2>2. CopiedLoopCounter(at) \in Int
    BY <1>0, <2>1, ScopeType DEF CopiedLoopCounter, SemaTypeOK
  <2>3. SemaTypeOK'
    BY <1>0, <2>1, <2>2 DEF SemaTypeOK
  <2>4. scopeOf'[at] \in 1..size /\ \A n \in Stmt : n # at => scopeOf'[n] = scopeOf[n]
    BY <1>0, <2>1 DEF SemaTypeOK
  <2> QED BY <2>1, <2>3, <2>4, CheckEntered
<1>2. CASE CheckCondition
  <2>1. /\ phase = "typecheck" /\ phase' = phase /\ at \notin {None, Root} /\ at \in Stmt /\ Run
        /\ scopeOf' = [scopeOf EXCEPT ![at] = Scope] /\ Resolve
        /\ \/ loopCounter' = [loopCounter EXCEPT ![Scope] = CountLoop]
           \/ loopCounter' = loopCounter
        /\ UNCHANGED <<ast, size, at, labels, vars>>
    BY <1>0, <1>2, InnerStatement DEF CheckCondition
  <2>2. Scope \in Stmt /\ Scope \in 1..size
    BY <2>1, ScopeType
  <2>3. CountLoop \in Int
    BY <1>0, <2>2 DEF CountLoop, SemaTypeOK
  <2>4. SemaTypeOK'
    BY <1>0, <2>1, <2>2, <2>3, ResolveType DEF SemaTypeOK
  <2>5. scopeOf'[at] \in 1..size /\ \A n \in Stmt : n # at => scopeOf'[n] = scopeOf[n]
    BY <1>0, <2>1, <2>2 DEF SemaTypeOK
  <2> QED BY <2>1, <2>4, <2>5, CheckEntered
<1>3. CASE CheckLabeled
  <2>1. /\ phase = "typecheck" /\ phase' = phase /\ at \notin {None, Root} /\ at \in Stmt /\ Run
        /\ scopeOf' = [scopeOf EXCEPT ![at] = Scope]
        /\ UNCHANGED <<ast, size, at, labels, vars, loopCounter, resolved>>
    BY <1>0, <1>3, InnerStatement DEF CheckLabeled
  <2>2. Scope \in Stmt /\ Scope \in 1..size
    BY <2>1, ScopeType
  <2>3. SemaTypeOK'
    BY <1>0, <2>1, <2>2 DEF SemaTypeOK
  <2>4. scopeOf'[at] \in 1..size /\ \A n \in Stmt : n # at => scopeOf'[n] = scopeOf[n]
    BY <1>0, <2>1, <2>2 DEF SemaTypeOK
  <2> QED BY <2>1, <2>3, <2>4, CheckEntered
<1>4. CASE CheckChild
  <2>1. PICK i \in 1..Len(Kids(at)) : at' = Kids(at)[i]
    BY <1>4 DEF CheckChild
  <2>2. ParserTypeOK' /\ TreeInv' /\ PassInv'
    BY <1>4, <2>1, WalkChild DEF CheckChild, Walks
  <2>3. SemaTypeOK' /\ CodegenTypeOK'
    BY <1>4 DEF CheckChild, TypeOK, SemaTypeOK, CodegenTypeOK, codegenVars
  <2>4. ScopeInv'
    BY <1>4 DEF CheckChild, ScopeInv, Called, KindOf
  <2> QED BY <2>2, <2>3, <2>4 DEF TypeOK
<1>5. CASE LeaveChecked
  <2>1. /\ phase = "typecheck" /\ phase' = phase /\ at \notin {None, Root} /\ Return
        /\ Called(at)
        /\ \/ loopCounter' = [loopCounter EXCEPT ![Scope] = UncountLoop]
           \/ loopCounter' = loopCounter
        /\ UNCHANGED <<ast, size, labels, scopeOf, vars, resolved>>
    BY <1>5 DEF LeaveChecked, Resuming, Called
  <2>2. UncountLoop \in Int
    BY <1>0, <2>1, ScopeType DEF UncountLoop, SemaTypeOK
  <2>3. SemaTypeOK'
    BY <1>0, <2>1, <2>2 DEF SemaTypeOK
  <2> QED BY <2>1, <2>3, CheckReturned
<1>6. CASE CheckDeclaration
  <2>1. /\ phase = "typecheck" /\ phase' = phase /\ at \notin {None, Root} /\ Return
        /\ KindOf(at) \in LeafKind /\ KindOf(at) = "declaration"
        /\ UNCHANGED <<ast, size, labels, scopeOf, loopCounter, resolved>>
    BY <1>0, <1>6, InnerStatement DEF CheckDeclaration, CheckedLeaf, LeafKind
  <2>2. ast[at].name \in Name \cup {NoName}
    BY <1>0, <2>1, HeadNamesType DEF TreeInv
  <2>3. \/ vars' = vars
        \/ /\ vars' = [vars EXCEPT ![Scope] = @ \cup {ast[at].name}]
           /\ ast[at].name \in Name
    BY <1>6, <2>2 DEF CheckDeclaration
  <2>4. SemaTypeOK'
    BY <1>0, <2>1, <2>3 DEF SemaTypeOK
  <2> QED BY <2>1, <2>4, CheckReturned
<1>7. CASE CheckExpression
  <2>1. /\ phase = "typecheck" /\ phase' = phase /\ at \notin {None, Root} /\ Return
        /\ KindOf(at) \in LeafKind /\ Resolve
        /\ UNCHANGED <<ast, size, labels, scopeOf, vars, loopCounter>>
    BY <1>0, <1>7, InnerStatement DEF CheckExpression, CheckedLeaf, LeafKind
  <2>2. SemaTypeOK'
    BY <1>0, <2>1, ResolveType DEF SemaTypeOK
  <2> QED BY <2>1, <2>2, CheckReturned
<1>8. CASE CheckJump
  <2>1. /\ phase = "typecheck" /\ phase' = phase /\ at \notin {None, Root} /\ Return
        /\ KindOf(at) \in LeafKind
        /\ UNCHANGED <<ast, size, labels, semaVars>>
    BY <1>0, <1>8, InnerStatement DEF CheckJump, CheckedLeaf, LeafKind
  <2>2. SemaTypeOK'
    BY <1>0, <2>1 DEF SemaTypeOK
  <2> QED BY <2>1, <2>2, CheckReturned
<1>9. CASE RejectStatement
  BY <1>9, PhaseStep DEF RejectStatement, Reject
<1>10. CASE FinishTypecheck
  <2>1. /\ phase = "typecheck" /\ phase' = "compile" /\ at = Root /\ status' = AllUncalled
        /\ UNCHANGED <<ast, size, at, labels, notElse, semaVars, codegenVars>>
    BY <1>10 DEF FinishTypecheck
  <2>2. TypeOK'
    BY <2>1 DEF TypeOK, ParserTypeOK, SemaTypeOK, CodegenTypeOK, codegenVars, Passes,
                AllUncalled, Statuses
  <2>3. TreeInv'
    BY <2>1 DEF TreeInv, KindOf, Kids, Parent, Ends
  <2>4. PassInv' /\ ScopeInv'
    BY <2>1 DEF PassInv, ScopeInv, Called, AllUncalled
  <2> QED BY <2>2, <2>3, <2>4
<1> QED BY <1>1, <1>2, <1>3, <1>4, <1>5, <1>6, <1>7, <1>8, <1>9, <1>10 DEF Typecheck
------------------------------------------------------------------------------
\* The actions of the code generator.

LEMMA BlockNames ==
  /\ \A n \in Stmt : \A r \in Roles : <<r, n>> \in Block
  /\ \A l \in Label : LabelBlock(l) \in Block
  /\ Entry \in Block
BY DEF Block, LabelBlock

LEMMA InstrTypes ==
  /\ \A op \in {"ret", "ret value", "alloca", "store"} : \A n \in Stmt \cup {None} :
       Plain(op, n) \in Instr
  /\ \A n \in Stmt : \A b \in Stmt \cup {None} : Eval(n, b) \in Instr
  /\ \A b \in Block : Br(b) \in Instr
  /\ \A n \in Stmt : \A b, c \in Block : CondBr(n, b, c) \in Instr
<1>1. /\ <<>> \in Seq(Block) /\ \A b \in Block : <<b>> \in Seq(Block)
      /\ \A b, c \in Block : <<b, c>> \in Seq(Block)
  OBVIOUS
<1> QED BY <1>1 DEF Instr, Plain, Eval, Br, CondBr, Terminators

LEMMA EvaluationType ==
  ASSUME at \in Stmt, NEW e \in Evaluations
  PROVE  e \in Instr /\ ~IsTerminator(e)
<1>1. PICK b \in Stmt \cup {None} : e = Eval(at, b)
  BY DEF Evaluations
<1> QED BY <1>1, InstrTypes DEF Eval, IsTerminator, Terminators

LEMMA TargetsType ==
  ASSUME TreeAndTypes, at # None
  PROVE  /\ Inherited \in [break : Block \cup {NoBlock}, continue : Block \cup {NoBlock}]
         /\ LoopTargets \in [break : Block \cup {NoBlock}, continue : Block \cup {NoBlock}]
<1> USE DEF TreeAndTypes
<1>1. at \in Stmt /\ (at # Root => Parent(at) \in Stmt)
  BY AstAssumption DEF TypeOK, ParserTypeOK, TreeInv, None, Root, Stmt
<1> QED BY <1>1, BlockNames DEF Inherited, LoopTargets, NoTargets, TypeOK, CodegenTypeOK, Roles

LEMMA CompileEntered ==
  ASSUME TreeAndTypes, phase = "compile", phase' \in {phase} \cup Ends, at # None, Run,
         UNCHANGED <<ast, size, at, labels, notElse, semaVars>>, CodegenTypeOK'
  PROVE  TreeAndTypes'
<1>1. ParserTypeOK' /\ TreeInv' /\ PassInv'
  BY WalkRun DEF Walks
<1>2. SemaTypeOK' /\ ScopeInv'
  BY DEF TreeAndTypes, TypeOK, SemaTypeOK, ScopeInv, Ends, semaVars
<1> QED BY <1>1, <1>2 DEF TreeAndTypes, TypeOK

LEMMA CompileReturned ==
  ASSUME TreeAndTypes, phase = "compile", phase' \in {phase} \cup Ends,
         at \notin {None, Root}, Return,
         UNCHANGED <<ast, size, labels, notElse, semaVars>>, CodegenTypeOK'
  PROVE  TreeAndTypes'
<1>1. ParserTypeOK' /\ TreeInv' /\ PassInv'
  BY WalkReturn DEF Walks
<1>2. SemaTypeOK' /\ ScopeInv'
  BY DEF TreeAndTypes, TypeOK, SemaTypeOK, ScopeInv, Ends, semaVars
<1> QED BY <1>1, <1>2 DEF TreeAndTypes, TypeOK

\* Instructions at the end of the current block.
LEMMA AppendType ==
  ASSUME CodegenTypeOK, NEW i \in Instr
  PROVE  [code EXCEPT ![cur] = Append(@, i)] \in [Block -> Seq(Instr)]
<1>1. Append(code[cur], i) \in Seq(Instr)
  BY AppendOne DEF CodegenTypeOK
<1> QED BY <1>1 DEF CodegenTypeOK

LEMMA PrologueType == Prologue \in Seq(Instr)
<1>1. Len(Params) \in Nat
  BY AstAssumption
<1>2. \A i \in 1..(2 * Len(Params)) :
        Plain(IF i <= Len(Params) THEN "alloca" ELSE "store", None) \in Instr
  BY InstrTypes
<1> QED BY <1>1, <1>2 DEF Prologue

LEMMA JumpType ==
  ASSUME TreeAndTypes, at \notin {None, Root}, NEW instrs \in Seq(Instr), Jump(instrs)
  PROVE  CodegenTypeOK'
<1>1. CodegenTypeOK /\ at \in Stmt
  BY DEF TreeAndTypes, TypeOK, ParserTypeOK
<1>2. <<"dead", at>> \in Block
  BY <1>1, BlockNames DEF Roles
<1>3. [code EXCEPT ![cur] = @ \o instrs] \in [Block -> Seq(Instr)]
  <2>1. code[cur] \o instrs \in Seq(Instr)
    BY <1>1 DEF CodegenTypeOK
  <2> QED BY <1>1, <2>1 DEF CodegenTypeOK
<1> QED BY <1>1, <1>2, <1>3 DEF CodegenTypeOK, Jump, AfterJump

\* What a goto, break or continue appends.
LEMMA JumpCodeType ==
  ASSUME TreeAndTypes, at \notin {None, Root}, KindOf(at) \in {"goto", "break", "continue"}
  PROVE  JumpCode = <<>> \/ \E b \in Block : JumpCode = <<Br(b)>>
<1>1. KindOf(at) = "goto" => LabelBlock(ast[at].name) \in Block
  <2>1. ast[at].name \in HeadNames(KindOf(at))
    BY DEF TreeAndTypes, TreeInv, TypeOK, ParserTypeOK, None, Root, Stmt
  <2> QED BY <2>1, BlockNames, HeadNamesType
<1>2. JumpTarget \in Block \cup {NoBlock}
  BY <1>1, TargetsType DEF JumpTarget, LabelTarget
<1> QED BY <1>2 DEF JumpCode

LEMMA ShortSequences ==
  ASSUME NEW S, NEW a \in S, NEW b \in S
  PROVE  <<>> \in Seq(S) /\ <<a>> \in Seq(S) /\ <<a, b>> \in Seq(S)
OBVIOUS

LEMMA ParentType ==
  ASSUME TreeAndTypes, at \notin {None, Root}
  PROVE  at \in 2..size /\ Parent(at) \in Stmt /\ Parent(at) \in 1..size
<1>1. at \in 2..size /\ size \in 0..MaxStatements /\ MaxStatements \in Nat
  BY AstAssumption DEF TreeAndTypes, TypeOK, ParserTypeOK, TreeInv, None, Root, Stmt
<1>2. Parent(at) \in 1..(at - 1)
  BY <1>1 DEF TreeAndTypes, TreeInv
<1> QED BY <1>1, <1>2 DEF Stmt

LEMMA CompileStep ==
  ASSUME TreeAndTypes, Compile, UNCHANGED <<notElse, semaVars>>
  PROVE  TreeAndTypes'
<1> USE DEF Generates
<1>0. /\ CodegenTypeOK /\ at \in Stmt \cup {None} /\ code \in [Block -> Seq(Instr)]
      /\ at # None => at \in Stmt /\ at \in 1..size
      /\ cur \in Block /\ labels \subseteq Label
  BY DEF TreeAndTypes, TypeOK, CodegenTypeOK, ParserTypeOK, TreeInv, None, Stmt
<1>1. CASE CompileFunction
  <2>1. {Entry} \cup {LabelBlock(l) : l \in labels} \subseteq Block
    BY <1>0, BlockNames
  <2>2. CodegenTypeOK'
    BY <1>0, <1>1, <2>1, BlockNames, PrologueType, TargetsType DEF CompileFunction, CodegenTypeOK
  <2> QED BY <1>1, <2>2, CompileEntered DEF CompileFunction
<1>2. CASE CompileScope
  <2>1. KindOf(at) = "block" \/ KindOf(at) = "labeled"
    BY <1>2 DEF CompileScope
  <2>2. CASE KindOf(at) = "block"
    <3>1. UNCHANGED <<code, cur>>
      BY <1>2, <2>2 DEF CompileScope
    <3>2. CodegenTypeOK'
      BY <1>0, <1>2, <3>1, TargetsType DEF CompileScope, CodegenTypeOK
    <3> QED BY <1>2, <2>2, <3>2, CompileEntered DEF CompileScope
  <2>3. CASE KindOf(at) = "labeled"
    <3>1. LabelBlock(ast[at].name) \in Block
      <4>1. ast[at].name \in HeadNames(KindOf(at))
        BY <1>0, <1>2 DEF CompileScope, TreeAndTypes, TreeInv
      <4> QED BY <2>3, <4>1, HeadNamesType, BlockNames
    <3>2. code' \in [Block -> Seq(Instr)] /\ cur' \in Block
      BY <1>0, <1>2, <2>3, <3>1, InstrTypes, AppendType DEF CompileScope
    <3>3. CodegenTypeOK'
      BY <1>0, <1>2, <3>2, TargetsType DEF CompileScope, CodegenTypeOK
    <3>4. phase' \in {phase} \cup Ends
      BY <1>2 DEF CompileScope, Ends
    <3> QED BY <1>2, <3>3, <3>4, CompileEntered DEF CompileScope
  <2> QED BY <2>1, <2>2, <2>3
<1>3. CASE CompileCondition
  <2>1. at \in Stmt
    BY <1>0, <1>3 DEF CompileCondition
  <2>2. /\ <<"header", at>> \in Block /\ <<FirstRole, at>> \in Block
        /\ <<FalseRole, at>> \in Block /\ <<"end", at>> \in Block
    BY <2>1, BlockNames DEF Roles, FirstRole, FalseRole
  <2>3. PICK e \in Evaluations :
          code' = [code EXCEPT
                     ![cur] = Append(@, Br(<<"header", at>>)),
                     ![<<"header", at>>] = <<e, CondBr(at, <<FirstRole, at>>, <<FalseRole, at>>)>>]
    BY <1>3 DEF CompileCondition
  <2>4. <<e, CondBr(at, <<FirstRole, at>>, <<FalseRole, at>>)>> \in Seq(Instr)
    BY <2>1, <2>2, EvaluationType, InstrTypes, ShortSequences
  <2>5. [code EXCEPT ![cur] = Append(@, Br(<<"header", at>>))] \in [Block -> Seq(Instr)]
    BY <1>0, <2>2, InstrTypes, AppendType
  <2>6. code' \in [Block -> Seq(Instr)]
    BY <2>3, <2>4, <2>5
  <2>7. CodegenTypeOK'
    BY <1>0, <1>3, <2>2, <2>6, TargetsType DEF CompileCondition, CodegenTypeOK, BranchBlocks
  <2>8. phase' \in {phase} \cup Ends
    BY <1>3 DEF CompileCondition, AfterEvaluation, Ends
  <2> QED BY <1>3, <2>7, <2>8, CompileEntered DEF CompileCondition
<1>4. CASE CompileChild
  <2>1. PICK i \in 1..Len(Kids(at)) :
          /\ at' = Kids(at)[i]
          /\ IF IsElse(i)
             THEN /\ code' = [code EXCEPT ![cur] = Append(@, Br(<<"end", at>>))]
                  /\ cur' = <<"else", at>>
             ELSE UNCHANGED <<code, cur>>
    BY <1>4 DEF CompileChild
  <2>2. ParserTypeOK' /\ TreeInv' /\ PassInv'
    BY <1>4, <2>1, WalkChild DEF CompileChild, Walks
  <2>3. <<"end", at>> \in Block /\ <<"else", at>> \in Block
    BY <1>0, <1>4, BlockNames DEF CompileChild, Roles
  <2>4. code' \in [Block -> Seq(Instr)] /\ cur' \in Block
    BY <1>0, <2>1, <2>3, InstrTypes, AppendType
  <2>5. CodegenTypeOK'
    BY <1>0, <1>4, <2>4 DEF CompileChild, CodegenTypeOK
  <2>6. SemaTypeOK' /\ ScopeInv'
    BY <1>4 DEF CompileChild, TreeAndTypes, TypeOK, SemaTypeOK, ScopeInv, semaVars
  <2> QED BY <2>2, <2>5, <2>6 DEF TreeAndTypes, TypeOK
<1>5. CASE LeaveCompiled
  <2>1. <<"end", at>> \in Block /\ BackTo \in Block
    BY <1>0, <1>5, BlockNames DEF LeaveCompiled, BackTo, Roles
  <2>2. code' \in [Block -> Seq(Instr)] /\ cur' \in Block
    BY <1>0, <1>5, <2>1, InstrTypes, AppendType DEF LeaveCompiled
  <2>3. CodegenTypeOK'
    BY <1>0, <1>5, <2>2 DEF LeaveCompiled, CodegenTypeOK
  <2> QED BY <1>5, <2>3, CompileReturned DEF LeaveCompiled
<1>6. CASE CompileDeclaration
  <2>1. at \in Stmt /\ at \notin {None, Root} /\ Parent(at) \in Stmt
    BY <1>0, <1>6, InnerStatement, ParentType DEF CompileDeclaration
  <2>2. CodegenTypeOK'
    <3>1. CASE IsAbstract(at)
      BY <1>0, <1>6, <3>1 DEF CompileDeclaration, CodegenTypeOK
    <3>2. CASE ~IsAbstract(at)
      <4>1. AddAlloca(code[Entry]) \in Seq(Instr)
        <5>1. Plain("alloca", at) \in Instr /\ code[Entry] \in Seq(Instr)
          BY <1>0, <2>1, InstrTypes, BlockNames
        <5>2. <<Plain("alloca", at)>> \o code[Entry] \in Seq(Instr)
          BY <5>1
        <5> QED BY <5>1, <5>2, AppendOne DEF AddAlloca
      <4>2. ast[at].name \in Name
        <5>1. ast[at].name \in HeadNames(KindOf(at))
          BY <1>0, <2>1 DEF TreeAndTypes, TreeInv
        <5> QED BY <1>6, <3>2, <5>1, HeadNamesType DEF CompileDeclaration, IsAbstract
      <4>3. code' = [code EXCEPT ![Entry] = AddAlloca(code[Entry])]
        BY <1>6, <3>2 DEF CompileDeclaration
      <4>4. code' \in [Block -> Seq(Instr)]
        BY <1>0, <4>1, <4>3
      <4>5. allocas' \in [Stmt -> SUBSET Name]
        BY <1>0, <1>6, <3>2, <4>2, SMTT(20) DEF CompileDeclaration, CodegenTypeOK
      <4> QED BY <1>0, <1>6, <3>2, <4>4, <4>5 DEF CompileDeclaration, CodegenTypeOK
    <3> QED BY <3>1, <3>2
  <2> QED BY <1>6, <2>1, <2>2, CompileReturned DEF CompileDeclaration
<1>7. CASE CompileExpression
  <2>1. at \in Stmt /\ at \notin {None, Root}
    BY <1>0, <1>7, InnerStatement DEF CompileExpression
  <2>2. PICK e \in Evaluations : code' = [code EXCEPT ![cur] = Append(@, e)]
    BY <1>7 DEF CompileExpression
  <2>3. code' \in [Block -> Seq(Instr)]
    BY <1>0, <2>1, <2>2, EvaluationType, AppendType
  <2>4. CodegenTypeOK'
    BY <1>0, <1>7, <2>3 DEF CompileExpression, CodegenTypeOK
  <2>5. phase' \in {phase} \cup Ends
    BY <1>7 DEF CompileExpression, AfterEvaluation, Ends
  <2> QED BY <1>7, <2>1, <2>4, <2>5, CompileReturned DEF CompileExpression
<1>8. CASE CompileEmpty
  <2>1. at \notin {None, Root} /\ CodegenTypeOK'
    BY <1>0, <1>8, InnerStatement DEF CompileEmpty, CodegenTypeOK, codegenVars
  <2> QED BY <1>8, <2>1, CompileReturned DEF CompileEmpty
<1>9. CASE CompileJump
  <2>1. /\ phase = "compile" /\ at \in Stmt /\ at \notin {None, Root}
        /\ phase' \in {phase} \cup Ends
    BY <1>0, <1>9, InnerStatement DEF CompileJump, AfterEvaluation, Ends
  <2>2. PICK instrs \in Seq(Instr) : Jump(instrs)
    <3>1. CASE Generates({"goto", "break", "continue"}) /\ Jump(JumpCode)
      <4>1. JumpCode \in Seq(Instr)
        <5>1. JumpCode = <<>> \/ \E b \in Block : JumpCode = <<Br(b)>>
          BY <2>1, <3>1, JumpCodeType
        <5>2. \A b \in Block : <<Br(b)>> \in Seq(Instr)
          BY InstrTypes, ShortSequences
        <5>3. <<>> \in Seq(Instr)
          OBVIOUS
        <5> QED BY <5>1, <5>2, <5>3
      <4> QED BY <3>1, <4>1
    <3>2. CASE Jump(<<Plain("ret", None)>>)
      <4>1. <<Plain("ret", None)>> \in Seq(Instr)
        BY InstrTypes, ShortSequences
      <4> QED BY <3>2, <4>1
    <3>3. CASE \E e \in Evaluations : Jump(<<e, Plain("ret value", None)>>)
      <4>1. PICK e \in Evaluations : Jump(<<e, Plain("ret value", None)>>)
        BY <3>3
      <4>2. <<e, Plain("ret value", None)>> \in Seq(Instr)
        BY <2>1, InstrTypes, EvaluationType, ShortSequences
      <4> QED BY <4>1, <4>2
    <3> QED BY <1>9, <3>1, <3>2, <3>3 DEF CompileJump
  <2>3. CodegenTypeOK'
    BY <2>1, <2>2, JumpType
  <2> QED BY <2>1, <2>2, <2>3, CompileReturned DEF Jump
<1>10. CASE FinishFunction
  <2>1. DefaultReturn \in Instr
    BY InstrTypes DEF DefaultReturn
  <2>2. code' \in [Block -> Seq(Instr)]
    BY <1>0, <1>10, <2>1, AppendType DEF FinishFunction
  <2>3. CodegenTypeOK'
    BY <1>0, <1>10, <2>2 DEF FinishFunction, CodegenTypeOK
  <2>4. ParserTypeOK' /\ SemaTypeOK' /\ TreeInv' /\ PassInv' /\ ScopeInv'
    BY <1>10 DEF FinishFunction, TreeAndTypes, TypeOK, ParserTypeOK, SemaTypeOK, semaVars,
       TreeInv, PassInv, ScopeInv, Ends, Walks, KindOf, Kids, Parent
  <2> QED BY <2>3, <2>4 DEF TreeAndTypes, TypeOK
<1> QED BY <1>1, <1>2, <1>3, <1>4, <1>5, <1>6, <1>7, <1>8, <1>9, <1>10 DEF Compile
------------------------------------------------------------------------------
LEMMA StutterStep ==
  ASSUME TreeAndTypes, UNCHANGED vars_
  PROVE  TreeAndTypes'
BY PhaseStep DEF vars_, parserVars

LEMMA TreeAndTypesStep ==
  ASSUME TreeAndTypes, [Next]_vars_
  PROVE  TreeAndTypes'
BY ParseStep, TypecheckStep, CompileStep, StutterStep DEF Next

(***************************************************************************)
(* Whatever the function, every variable keeps its type: the parser builds *)
(* statements whose parents and children are statements, no pass leaves    *)
(* the tree, and the code is made of blocks and instructions only.         *)
(***************************************************************************)
THEOREM TypeCorrect == Spec => []TypeOK
<1>1. Spec => []TreeAndTypes
  BY InitTreeAndTypes, TreeAndTypesStep, PTL DEF Spec
<1>2. TreeAndTypes => TypeOK
  BY DEF TreeAndTypes
<1> QED BY <1>1, <1>2, PTL
------------------------------------------------------------------------------
\* The labels: only a step of the parser that starts a statement matters.

LEMMA LabelsKeep ==
  ASSUME LabelsIdentifyStatements, size' = size, labels' = labels,
         \A m \in 1..size : ast'[m].kind = ast[m].kind /\ ast'[m].name = ast[m].name
  PROVE  LabelsIdentifyStatements'
<1>1. OfKind("labeled")' = OfKind("labeled")
  BY DEF OfKind
<1>2. \A m \in OfKind("labeled") : ast'[m].name = ast[m].name
  BY DEF OfKind
<1> QED BY <1>1, <1>2 DEF LabelsIdentifyStatements

LEMMA LabelsGrow ==
  ASSUME LabelsIdentifyStatements, size \in Nat \ {0}, size' = size + 1,
         NEW k, NEW x, ~IsDuplicateLabel(k, x),
         labels' = labels \cup (IF k = "labeled" THEN {x} ELSE {}),
         ast'[size + 1].kind = k, ast'[size + 1].name = x,
         \A m \in 1..size : ast'[m].kind = ast[m].kind /\ ast'[m].name = ast[m].name
  PROVE  LabelsIdentifyStatements'
<1> DEFINE L == OfKind("labeled")
           New == IF k = "labeled" THEN {size + 1} ELSE {}
<1>1. OfKind("labeled")' = L \cup New
  BY DEF OfKind
<1>2. \A m \in L : m \in 1..size /\ ast'[m].name = ast[m].name
  BY DEF OfKind
<1>3. labels = {ast[n].name : n \in L} /\ \A m, n \in L : ast[m].name = ast[n].name => m = n
  BY DEF LabelsIdentifyStatements
<1>4. labels' = {ast'[n].name : n \in L \cup New}
  BY <1>2, <1>3
<1>5. \A m, n \in L \cup New : ast'[m].name = ast'[n].name => m = n
  BY <1>2, <1>3 DEF IsDuplicateLabel
<1> QED BY <1>1, <1>4, <1>5 DEF LabelsIdentifyStatements

LEMMA LabelsStep ==
  ASSUME TreeAndTypes, LabelsIdentifyStatements, [Next]_vars_
  PROVE  LabelsIdentifyStatements'
<1> USE AstAssumption DEF TreeAndTypes
<1>0. /\ ast \in [Stmt -> Statement] /\ size \in 0..MaxStatements /\ MaxStatements \in Nat
      /\ Stmt = 1..MaxStatements
      /\ at \in Stmt \cup {None} /\ (size = 0 <=> at = None) /\ at <= size
  BY DEF TypeOK, ParserTypeOK, TreeInv, Stmt
<1>1. CASE UNCHANGED <<ast, size, labels>>
  BY <1>1, LabelsKeep
<1>2. CASE StartBody
  <2>1. size' = 1 /\ labels' = {} /\ ast'[1].kind = "block"
    BY <1>0, <1>2 DEF StartBody, ClearedLabels, NewStatement, Root
  <2>2. OfKind("labeled")' = {}
    BY <2>1 DEF OfKind
  <2> QED BY <2>1, <2>2 DEF LabelsIdentifyStatements
<1>3. ASSUME NEW k, NEW x, OpenStatement(k, x) PROVE LabelsIdentifyStatements'
  <2>1. /\ size \in Nat \ {0} /\ size + 1 \in Stmt /\ size' = size + 1
        /\ ~IsDuplicateLabel(k, x)
        /\ labels' = labels \cup (IF k = "labeled" THEN {x} ELSE {})
        /\ ast' = [ast EXCEPT ![size + 1] = NewStatement(k, x)]
    BY <1>0, <1>3 DEF OpenStatement, ReadsStatement, HasRoom, None
  <2>2. ast'[size + 1].kind = k /\ ast'[size + 1].name = x
    BY <1>0, <2>1 DEF NewStatement
  <2>3. \A m \in 1..size : ast'[m] = ast[m]
    BY <1>0, <2>1
  <2> QED BY <2>1, <2>2, <2>3, LabelsGrow
<1>4. ASSUME NEW k \in Kind, NEW x \in HeadNames(k), LeafStatement(k, x)
      PROVE LabelsIdentifyStatements'
  <2> DEFINE a == [ast EXCEPT ![size + 1] = NewStatement(k, x)]
  <2>0. /\ size \in Nat \ {0} /\ size + 1 \in Stmt /\ at \in Stmt
        /\ k # "labeled"
    <3>1. at # None /\ HasRoom(k) /\ k \in LeafKind
      BY <1>4 DEF LeafStatement, ReadsStatement
    <3>2. size + 1 <= MaxStatements
      BY <1>0, <3>1 DEF HasRoom
    <3>3. k # "labeled"
      BY <3>1 DEF LeafKind
    <3> QED BY <1>0, <3>1, <3>2, <3>3 DEF None
  <2>1. /\ size \in Nat \ {0} /\ size + 1 \in Stmt /\ at \in Stmt /\ size' = size + 1
        /\ k # "labeled" /\ labels' = labels /\ ast' = WithKid(a, at, size + 1)
    BY <1>4, <2>0 DEF LeafStatement
  <2>2. NewStatement(k, x) \in Statement
    <3>1. <<>> \in Seq(Stmt) /\ x \in Name \cup Label \cup {NoName}
      BY HeadNamesType
    <3> QED BY <2>1, <3>1 DEF NewStatement, Statement
  <2>3. a \in [Stmt -> Statement]
    BY <1>0, <2>1, <2>2
  <2>4. /\ a[size + 1].kind = k /\ a[size + 1].name = x
        /\ \A m \in 1..size : a[m] = ast[m]
    BY <1>0, <2>1 DEF NewStatement
  <2> HIDE DEF a
  <2>5. \A m \in Stmt : ast'[m].kind = a[m].kind /\ ast'[m].name = a[m].name
    BY <2>1, <2>3, KidAdded
  <2>6. /\ ast'[size + 1].kind = k /\ ast'[size + 1].name = x
        /\ \A m \in 1..size : ast'[m].kind = ast[m].kind /\ ast'[m].name = ast[m].name
    BY <1>0, <2>1, <2>4, <2>5
  <2>7. ~IsDuplicateLabel(k, x) /\ labels' = labels \cup (IF k = "labeled" THEN {x} ELSE {})
    BY <2>1 DEF IsDuplicateLabel
  <2> QED BY <2>1, <2>6, <2>7, LabelsGrow
<1>5. CASE FinishStatement
  <2>1. /\ size' = size /\ labels' = labels /\ at \in Stmt /\ Parent(at) \in Stmt
        /\ ast' = WithKid(ast, Parent(at), at)
    BY <1>0, <1>5, ParentType DEF FinishStatement
  <2>2. \A m \in Stmt : ast'[m].kind = ast[m].kind /\ ast'[m].name = ast[m].name
    BY <1>0, <2>1, KidAdded
  <2>3. \A m \in 1..size : m \in Stmt
    BY <1>0
  <2> QED BY <2>1, <2>2, <2>3, LabelsKeep
<1>6. ASSUME Parse PROVE LabelsIdentifyStatements'
  <2>1. ASSUME NEW k \in SourceKinds, NEW x \in HeadNames(k),
               OpenStatement(k, x) \/ LeafStatement(k, x) \/ RefuseStatement(k, x)
        PROVE  LabelsIdentifyStatements'
    BY <1>1, <1>3, <1>4, <2>1 DEF RefuseStatement
  <2> QED BY <1>1, <1>2, <1>5, <1>6, <2>1 DEF Parse, SyntaxError, FinishBody
<1>7. ASSUME Typecheck PROVE UNCHANGED <<ast, size, labels>>
  BY <1>7 DEF Typecheck, CheckBlock, CheckCondition, CheckLabeled, CheckChild, LeaveChecked,
     CheckDeclaration, CheckExpression, CheckJump, RejectStatement, FinishTypecheck, CheckedLeaf
<1>8. ASSUME Compile PROVE UNCHANGED <<ast, size, labels>>
  BY <1>8 DEF Compile, CompileFunction, CompileScope, CompileCondition, CompileChild,
     LeaveCompiled, CompileDeclaration, CompileExpression, CompileEmpty, CompileJump,
     Jump, FinishFunction
<1>9. CASE UNCHANGED vars_
  BY <1>1, <1>9 DEF vars_, parserVars
<1> QED BY <1>1, <1>6, <1>7, <1>8, <1>9 DEF Next

(***************************************************************************)
(* The labels a goto can name are, at every moment after the "{" of the    *)
(* body, exactly those of the labeled statements read so far, and each     *)
(* names one statement, whatever labels an earlier function left in        *)
(* Parser::_labels (parser.cpp:547-559 and 593).                           *)
(***************************************************************************)
THEOREM LabelsAreUnique == Spec => []LabelsIdentifyStatements
<1>1. Init => LabelsIdentifyStatements
  BY DEF Init, ParserInit, LabelsIdentifyStatements
<1>2. Init => TreeAndTypes
  BY InitTreeAndTypes
<1>3. TreeAndTypes /\ LabelsIdentifyStatements /\ [Next]_vars_
      => (TreeAndTypes /\ LabelsIdentifyStatements)'
  BY TreeAndTypesStep, LabelsStep
<1> QED BY <1>1, <1>2, <1>3, PTL DEF Spec
------------------------------------------------------------------------------
(***************************************************************************)
(* No basic block of a function gets a second terminator, for every body.  *)
(*                                                                         *)
(* The builder only ever continues in a block that is still empty: in one  *)
(* of the statement whose handler runs, because every statement has blocks *)
(* of its own and its handler is called once, or in the block of a label,  *)
(* because no two labeled statements share one.                            *)
(***************************************************************************)

LEMMA Concatenated ==
  ASSUME NEW q \in Seq(Instr), NEW s \in Seq(Instr), NoTerminator(q)
  PROVE  /\ OnlyLastTerminator(s) => OnlyLastTerminator(q \o s)
         /\ NoTerminator(s) => NoTerminator(q \o s)
<1>1. /\ q \o s \in Seq(Instr) /\ Len(q \o s) = Len(q) + Len(s)
      /\ Len(q) \in Nat /\ Len(s) \in Nat
      /\ \A i \in 1..Len(q \o s) :
           \/ i \in 1..Len(q) /\ (q \o s)[i] = q[i]
           \/ i - Len(q) \in 1..Len(s) /\ (q \o s)[i] = s[i - Len(q)]
  OBVIOUS
<1>2. ASSUME OnlyLastTerminator(s), NEW i \in 1..Len(q \o s), i < Len(q \o s)
      PROVE  ~IsTerminator((q \o s)[i])
  <2>1. CASE i \in 1..Len(q) /\ (q \o s)[i] = q[i]
    BY <2>1 DEF NoTerminator
  <2>2. CASE i - Len(q) \in 1..Len(s) /\ (q \o s)[i] = s[i - Len(q)]
    <3>1. i - Len(q) < Len(s)
      BY <1>1, <1>2
    <3> QED BY <1>2, <2>2, <3>1 DEF OnlyLastTerminator
  <2> QED BY <1>1, <2>1, <2>2
<1>3. ASSUME NoTerminator(s), NEW i \in 1..Len(q \o s)
      PROVE  ~IsTerminator((q \o s)[i])
  BY <1>1, <1>3 DEF NoTerminator
<1> QED BY <1>2, <1>3 DEF NoTerminator, OnlyLastTerminator

LEMMA Appended ==
  ASSUME NEW q \in Seq(Instr), NEW i \in Instr, NoTerminator(q)
  PROVE  /\ OnlyLastTerminator(Append(q, i))
         /\ ~IsTerminator(i) => NoTerminator(Append(q, i))
<1>1. /\ Append(q, i) \in Seq(Instr) /\ Len(Append(q, i)) = Len(q) + 1 /\ Len(q) \in Nat
      /\ \A j \in 1..Len(Append(q, i)) :
           \/ j \in 1..Len(q) /\ Append(q, i)[j] = q[j]
           \/ j = Len(q) + 1 /\ Append(q, i)[j] = i
  BY AppendOne
<1> QED BY <1>1 DEF NoTerminator, OnlyLastTerminator

\* Blocks that change may have a terminator at their end.
LEMMA BlocksStaySound ==
  ASSUME TypeOK, OneTerminator, code' \in [Block -> Seq(Instr)],
         \A b \in Block : code'[b] = code[b] \/ OnlyLastTerminator(code'[b])
  PROVE  OneTerminator'
<1> SUFFICES ASSUME NEW b \in Block, NEW i \in 1..Len(code'[b]), NEW j \in 1..Len(code'[b]),
                    i < j, IsTerminator(code'[b][i])
             PROVE  b = Entry /\ code'[b][j].op = "alloca"
  BY DEF OneTerminator, IsTerminator
<1>1. code'[b] \in Seq(Instr)
  OBVIOUS
<1>2. CASE code'[b] = code[b]
  BY <1>2 DEF OneTerminator
<1>3. CASE OnlyLastTerminator(code'[b])
  BY <1>1, <1>3 DEF OnlyLastTerminator
<1> QED BY <1>2, <1>3

\* The blocks a step of the handler at "at" may write to or continue in.
OwnBlocks ==
  (Roles \X {at}) \cup {Entry}
    \cup (IF KindOf(at) = "labeled" THEN {LabelBlock(ast[at].name)} ELSE {})

LEMMA UntouchedStaysFresh ==
  ASSUME NEW T, \A b \in Block : b \notin T /\ b # cur => code'[b] = code[b],
         cur' = cur \/ cur' \in T, NEW b \in Block, b \notin T, IsFresh(b)
  PROVE  IsFresh(b)'
BY DEF IsFresh

(***************************************************************************)
(* A step that writes to blocks of its own leaves those fresh that other   *)
(* handlers will continue in, and has to see to its end and else block.    *)
(***************************************************************************)
LEMMA FreshStep ==
  ASSUME TreeAndTypes, LabelsIdentifyStatements, FreshBlocks, at # None,
         NEW T, T \subseteq OwnBlocks,
         \A b \in Block : b \notin T /\ b # cur => code'[b] = code[b],
         cur' = cur \/ cur' \in T, ast' = ast, size' = size,
         \A n \in Stmt : n # at => status'[n] = status[n],
         status'[at] # "uncalled",
         status'[at] = "running" /\ KindOf(at) \in {"if", "while"}
           => code'[<<"end", at>>] = <<>> /\ cur' # <<"end", at>>,
         status'[at] = "running" /\ KindOf(at) = "if" /\ Len(Kids(at)) >= 2
           /\ status'[Kids(at)[2]] = "uncalled" /\ at' # Kids(at)[2]
           => code'[<<"else", at>>] = <<>> /\ cur' # <<"else", at>>
  PROVE  FreshBlocks'
<1> USE DEF TreeAndTypes
<1>1. /\ at \in 1..size /\ \A n \in 1..size : n \in Stmt
      /\ \A n \in 1..size : KindOf(n)' = KindOf(n) /\ Kids(n)' = Kids(n)
  BY AstAssumption DEF TypeOK, ParserTypeOK, TreeInv, None, Stmt, KindOf, Kids
<1>2. \A n \in Stmt : \A r \in Roles : n # at => <<r, n>> \notin T
  BY DEF OwnBlocks, Entry, LabelBlock, Roles
<1>3. \A n \in Stmt : \A r \in Roles : <<r, n>> \in Block
  BY BlockNames
<1>4. ASSUME NEW n \in Stmt, NEW r \in Roles, n # at, IsFresh(<<r, n>>)
      PROVE  IsFresh(<<r, n>>)'
  BY <1>2, <1>3, <1>4 DEF IsFresh
<1>5. ASSUME NEW n \in Stmt, ~Called(n)', NEW r \in Roles
      PROVE  IsFresh(<<r, n>>)'
  <2>1. n # at /\ ~Called(n)
    BY <1>5 DEF Called
  <2> QED BY <1>4, <2>1 DEF FreshBlocks
<1>6. ASSUME NEW n \in 1..size, status'[n] = "running", KindOf(n) \in {"if", "while"}
      PROVE  IsFresh(<<"end", n>>)'
  <2>1. CASE n = at
    BY <1>6, <2>1 DEF IsFresh
  <2>2. CASE n # at
    BY <1>1, <1>4, <1>6, <2>2 DEF FreshBlocks, Roles
  <2> QED BY <2>1, <2>2
<1>7. ASSUME NEW n \in 1..size, status'[n] = "running", KindOf(n) = "if", Len(Kids(n)) >= 2,
             status'[Kids(n)[2]] = "uncalled", at' # Kids(n)[2]
      PROVE  IsFresh(<<"else", n>>)'
  <2>1. CASE n = at
    BY <1>7, <2>1 DEF IsFresh
  <2>2. CASE n # at
    <3>1. Kids(n)[2] \in 1..size /\ Kids(n)[2] # at
      <4>1. Kids(n)[2] \in 2..size
        BY <1>7 DEF TreeInv
      <4> QED BY <1>7, <4>1
    <3>2. status[n] = "running" /\ ~Called(Kids(n)[2])
      BY <1>1, <1>7, <2>2, <3>1 DEF Called
    <3> QED BY <1>1, <1>4, <1>7, <2>2, <3>1, <3>2 DEF FreshBlocks, Roles
  <2> QED BY <2>1, <2>2
<1>8. ASSUME NEW n \in OfKind("labeled"), ~Called(n)'
      PROVE  IsFresh(LabelBlock(ast[n].name))'
  <2>1. n \in 1..size /\ KindOf(n) = "labeled" /\ n # at /\ ~Called(n)
    BY <1>1, <1>8 DEF OfKind, KindOf, Called
  <2>2. LabelBlock(ast[n].name) \in Block
    <3>1. ast[n].name \in HeadNames("labeled")
      BY <2>1 DEF TreeInv
    <3> QED BY <3>1, HeadNamesType, BlockNames
  <2>3. LabelBlock(ast[n].name) \notin T
    <3>1. KindOf(at) = "labeled" => ast[at].name # ast[n].name
      <4>1. size > 0 /\ n \in OfKind("labeled")
        BY <1>1, <2>1, <1>8 DEF TypeOK, ParserTypeOK
      <4>2. KindOf(at) = "labeled" => at \in OfKind("labeled")
        BY <1>1 DEF OfKind, KindOf
      <4> QED BY <2>1, <4>1, <4>2 DEF LabelsIdentifyStatements
    <3> QED BY <3>1 DEF OwnBlocks, LabelBlock, Entry, Roles
  <2> QED BY <2>1, <2>2, <2>3, UntouchedStaysFresh, <1>8 DEF FreshBlocks, IsFresh
<1>9. OfKind("labeled")' = OfKind("labeled")
  BY DEF OfKind
<1> QED BY <1>1, <1>5, <1>6, <1>7, <1>8, <1>9 DEF FreshBlocks, Called
------------------------------------------------------------------------------
\* Before the code generator starts.

LEMMA CodeUntouched ==
  ASSUME OneTerminator, UNCHANGED codegenVars
  PROVE  OneTerminator'
BY DEF OneTerminator, codegenVars, IsTerminator

LEMMA BeforeCompile ==
  ASSUME TreeAndTypes', CodeInv, phase \in {"parse", "typecheck"}, UNCHANGED codegenVars,
         phase' = "compile" => status' = AllUncalled
  PROVE  CodeInv'
<1>1. cur' = Entry /\ \A b \in Block : code'[b] = <<>>
  BY DEF CodeInv, NoCodeYet, codegenVars
<1>2. NoCodeYet'
  BY <1>1 DEF NoCodeYet
<1>3. ASSUME phase' = "compile" PROVE FreshBlocks' /\ NoTerminator(code[cur])'
  <2>1. \A n \in Stmt : status'[n] = "uncalled"
    BY <1>3 DEF AllUncalled
  <2>2. \A n \in Stmt : \A r \in Roles : IsFresh(<<r, n>>)'
    BY <1>1, BlockNames DEF IsFresh, Entry, Roles
  <2>3. \A n \in 1..size' : n \in Stmt
    BY AstAssumption DEF TreeAndTypes, TypeOK, ParserTypeOK, Stmt
  <2>4. ASSUME NEW n \in OfKind("labeled")' PROVE IsFresh(LabelBlock(ast[n].name))'
    <3>1. n \in 1..size' /\ ast'[n].kind = "labeled"
      BY DEF OfKind
    <3>2. ast'[n].name \in HeadNames("labeled")
      BY <3>1 DEF TreeAndTypes, TreeInv, KindOf
    <3>3. LabelBlock(ast'[n].name) \in Block
      BY <3>2, HeadNamesType, BlockNames
    <3> QED BY <1>1, <3>3 DEF IsFresh, LabelBlock, Entry
  <2>5. FreshBlocks'
    BY <2>1, <2>2, <2>3, <2>4 DEF FreshBlocks, Called
  <2> QED BY <1>1, <2>5, BlockNames DEF NoTerminator
<1> QED BY <1>2, <1>3 DEF CodeInv
------------------------------------------------------------------------------
\* The actions of the code generator.

LEMMA CodeInvStep ==
  ASSUME TreeAndTypes', phase' \in {"compile"} \cup Ends, at \in Stmt,
         status'[at] # "uncalled", FreshBlocks', NoTerminator(code'[cur'])
  PROVE  CodeInv'
<1>1. phase' = "compile" => Called(Root)'
  BY DEF TreeAndTypes, PassInv, Walks, AllUncalled
<1>2. NoCodeYet'
  BY <1>1 DEF NoCodeYet, Ends
<1> QED BY <1>2 DEF CodeInv

LEMMA PrologueHasNoTerminator == NoTerminator(Prologue)
<1>1. \A i \in 1..Len(Prologue) : Prologue[i].op \in {"alloca", "store"}
  <2>1. Len(Params) \in Nat
    BY AstAssumption
  <2>2. \A i \in 1..(2 * Len(Params)) : Prologue[i].op \in {"alloca", "store"}
    BY <2>1 DEF Prologue, Plain
  <2>3. Len(Prologue) = 2 * Len(Params)
    BY <2>1, PrologueType DEF Prologue
  <2> QED BY <2>2, <2>3
<1> QED BY <1>1 DEF NoTerminator, IsTerminator, Terminators

LEMMA FunctionCode ==
  ASSUME TreeAndTypes, TreeAndTypes', LabelsIdentifyStatements, CodeInv, OneTerminator,
         CompileFunction
  PROVE  CodeInv' /\ OneTerminator'
<1>1. /\ at \in Stmt /\ at # None /\ at = Root /\ phase = "compile" /\ phase' = "compile"
      /\ status \in [Stmt -> Statuses] /\ status' = [status EXCEPT ![at] = "running"]
      /\ code \in [Block -> Seq(Instr)] /\ code' = [code EXCEPT ![Entry] = Prologue]
      /\ cur' = Entry /\ UNCHANGED <<ast, size, at>> /\ KindOf(at) = "block"
  BY DEF TreeAndTypes, TypeOK, ParserTypeOK, CodegenTypeOK, CompileFunction, Generates, Run, None
<1>2. /\ code'[Entry] = Prologue /\ \A b \in Block : b # Entry => code'[b] = code[b]
      /\ code' \in [Block -> Seq(Instr)]
  BY <1>1, BlockNames, PrologueType
<1>3. FreshBlocks'
  <2>1. FreshBlocks
    BY <1>1 DEF CodeInv
  <2>2. {Entry} \subseteq OwnBlocks
    BY DEF OwnBlocks
  <2>3. status'[at] = "running" /\ \A n \in Stmt : n # at => status'[n] = status[n]
    BY <1>1
  <2> QED BY <1>1, <1>2, <2>1, <2>2, <2>3, FreshStep
<1>4. NoTerminator(code'[cur'])
  BY <1>1, <1>2, PrologueHasNoTerminator
<1>5. CodeInv'
  BY <1>1, <1>3, <1>4, CodeInvStep
<1>6. OneTerminator'
  <2>1. OnlyLastTerminator(Prologue)
    BY PrologueHasNoTerminator DEF NoTerminator, OnlyLastTerminator
  <2> QED BY <1>2, <2>1, BlocksStaySound DEF TreeAndTypes
<1> QED BY <1>5, <1>6

LEMMA ScopeCode ==
  ASSUME TreeAndTypes, TreeAndTypes', LabelsIdentifyStatements, CodeInv, OneTerminator,
         CompileScope
  PROVE  CodeInv' /\ OneTerminator'
<1>1. /\ at \in Stmt /\ at # None /\ phase = "compile" /\ phase' \in {"compile"} \cup Ends
      /\ status \in [Stmt -> Statuses] /\ status[at] = "uncalled"
      /\ status' = [status EXCEPT ![at] = "running"]
      /\ code \in [Block -> Seq(Instr)] /\ cur \in Block
      /\ UNCHANGED <<ast, size, at>> /\ KindOf(at) \in {"block", "labeled"}
  BY DEF TreeAndTypes, TypeOK, ParserTypeOK, CodegenTypeOK, CompileScope, Generates, Entering,
         Run, None, Ends
<1>2. FreshBlocks /\ NoTerminator(code[cur])
  BY <1>1 DEF CodeInv
<1>3. status'[at] = "running" /\ \A n \in Stmt : n # at => status'[n] = status[n]
  BY <1>1
<1>4. CASE KindOf(at) = "block"
  <2>1. code' = code /\ cur' = cur
    BY <1>4 DEF CompileScope
  <2>2. FreshBlocks'
    BY <1>1, <1>2, <1>3, <1>4, <2>1, FreshStep
  <2>3. OneTerminator'
    BY <2>1 DEF OneTerminator, IsTerminator
  <2> QED BY <1>1, <1>2, <1>3, <2>1, <2>2, <2>3, CodeInvStep
<1>5. CASE KindOf(at) = "labeled"
  <2> DEFINE b == LabelBlock(ast[at].name)
             i == Br(b)
  <2>1. at \in OfKind("labeled") /\ ~Called(at)
    BY <1>1, <1>5 DEF TreeAndTypes, TypeOK, ParserTypeOK, TreeInv, OfKind, KindOf, Called,
       Stmt, None
  <2>2. b \in Block /\ i \in Instr
    <3>1. ast[at].name \in HeadNames("labeled")
      BY <2>1, <1>5 DEF TreeAndTypes, TreeInv, OfKind
    <3> QED BY <3>1, HeadNamesType, BlockNames, InstrTypes
  <2>3. IsFresh(b)
    BY <1>2, <2>1 DEF FreshBlocks
  <2>4. code' = [code EXCEPT ![cur] = Append(@, i)] /\ cur' = b
    BY <1>5 DEF CompileScope
  <2> HIDE DEF b, i
  <2>5. /\ code' \in [Block -> Seq(Instr)] /\ code'[cur] = Append(code[cur], i)
        /\ \A c \in Block : c # cur => code'[c] = code[c]
    BY <1>1, <2>2, <2>4, AppendOne
  <2>6. NoTerminator(code'[cur'])
    BY <2>2, <2>3, <2>4, <2>5 DEF IsFresh, NoTerminator
  <2>7. FreshBlocks'
    <3>1. {b} \subseteq OwnBlocks
      BY <1>5 DEF OwnBlocks, b
    <3>2. KindOf(at) \notin {"if", "while"}
      BY <1>5
    <3> QED BY <1>1, <1>2, <1>3, <2>4, <2>5, <3>1, <3>2, FreshStep
  <2>8. OneTerminator'
    BY <1>1, <1>2, <2>2, <2>5, Appended, BlocksStaySound DEF TreeAndTypes
  <2> QED BY <1>1, <1>3, <2>6, <2>7, <2>8, CodeInvStep
<1> QED BY <1>1, <1>4, <1>5

LEMMA ConditionCode ==
  ASSUME TreeAndTypes, TreeAndTypes', LabelsIdentifyStatements, CodeInv, OneTerminator,
         CompileCondition
  PROVE  CodeInv' /\ OneTerminator'
<1> DEFINE header == <<"header", at>>
           first == <<FirstRole, at>>
           false == <<FalseRole, at>>
<1>1. /\ at \in Stmt /\ at # None /\ phase = "compile" /\ phase' \in {"compile"} \cup Ends
      /\ status \in [Stmt -> Statuses] /\ ~Called(at)
      /\ status' = [status EXCEPT ![at] = "running"]
      /\ code \in [Block -> Seq(Instr)] /\ cur \in Block
      /\ UNCHANGED <<ast, size, at>> /\ KindOf(at) \in {"if", "while"}
  BY DEF TreeAndTypes, TypeOK, ParserTypeOK, CodegenTypeOK, CompileCondition, Generates,
     Entering, Called, Run, None, Ends, AfterEvaluation
<1>2. FreshBlocks /\ NoTerminator(code[cur])
  BY <1>1 DEF CodeInv
<1>3. status'[at] = "running" /\ \A n \in Stmt : n # at => status'[n] = status[n]
  BY <1>1
<1>4. \A r \in Roles : <<r, at>> \in Block /\ IsFresh(<<r, at>>)
  BY <1>1, <1>2, BlockNames DEF FreshBlocks
<1>5. FirstRole \in {"body", "then"} /\ FalseRole \in {"else", "end"}
  BY DEF FirstRole, FalseRole
<1>6. first \in Block /\ false \in Block /\ header \in Block /\ IsFresh(first) /\ IsFresh(header)
      /\ first # header
  BY <1>4, <1>5 DEF Roles
<1>7. PICK e \in Evaluations :
        code' = [code EXCEPT ![cur] = Append(@, Br(header)),
                             ![header] = <<e, CondBr(at, first, false)>>]
  BY DEF CompileCondition
<1>8. /\ e \in Instr /\ ~IsTerminator(e) /\ Br(header) \in Instr
      /\ CondBr(at, first, false) \in Instr
  BY <1>1, <1>6, EvaluationType, InstrTypes
<1>9. cur' = first
  BY DEF CompileCondition
<1> DEFINE q == Append(code[cur], Br(header))
           h == <<e, CondBr(at, first, false)>>
<1>10. q \in Seq(Instr) /\ h \in Seq(Instr)
  BY <1>1, <1>8, AppendOne, ShortSequences
<1>11. OnlyLastTerminator(q) /\ OnlyLastTerminator(h)
  <2>1. OnlyLastTerminator(q)
    BY <1>1, <1>2, <1>8, Appended
  <2>2. Len(h) = 2 /\ h[1] = e
    OBVIOUS
  <2>3. OnlyLastTerminator(h)
    BY <1>8, <2>2 DEF OnlyLastTerminator
  <2> QED BY <2>1, <2>3
<1>12. code' = [code EXCEPT ![cur] = q, ![header] = h]
  BY <1>7
<1> HIDE DEF q, h, header, first, false
<1>13. /\ code' \in [Block -> Seq(Instr)] /\ code'[cur] = q /\ code'[header] = h
       /\ \A b \in Block : b # cur /\ b # header => code'[b] = code[b]
  BY <1>1, <1>6, <1>10, <1>12 DEF IsFresh
<1>14. FreshBlocks'
  <2>1. {header, first} \subseteq OwnBlocks
    BY <1>5 DEF OwnBlocks, header, first, Roles
  <2>2. \A r \in {"end", "else"} : code'[<<r, at>>] = <<>> /\ cur' # <<r, at>>
    <3> SUFFICES ASSUME NEW r \in {"end", "else"}
                 PROVE  code'[<<r, at>>] = <<>> /\ cur' # <<r, at>>
      OBVIOUS
    <3>1. <<r, at>> \in Block /\ IsFresh(<<r, at>>)
      BY <1>4 DEF Roles
    <3>2. <<r, at>> # header /\ <<r, at>> # first
      BY <1>5 DEF header, first
    <3> QED BY <1>9, <1>13, <3>1, <3>2 DEF IsFresh
  <2> QED BY <1>1, <1>2, <1>3, <1>9, <1>13, <2>1, <2>2, FreshStep, ZenonT(40)
<1>15. NoTerminator(code'[cur'])
  BY <1>6, <1>9, <1>13 DEF IsFresh, NoTerminator
<1>16. OneTerminator'
  BY <1>11, <1>13, BlocksStaySound DEF TreeAndTypes
<1> QED BY <1>1, <1>3, <1>14, <1>15, <1>16, CodeInvStep

\* A child of "at" is another statement.
LEMMA KidIsOther ==
  ASSUME TreeAndTypes, at # None, NEW i \in 1..Len(Kids(at))
  PROVE  Kids(at)[i] \in Stmt /\ Kids(at)[i] # at
<1>1. at \in 1..size /\ size \in 0..MaxStatements /\ MaxStatements \in Nat
  BY AstAssumption DEF TreeAndTypes, TypeOK, ParserTypeOK, TreeInv, None, Stmt
<1>2. Kids(at)[i] \in 2..size /\ Parent(Kids(at)[i]) = at
  BY <1>1 DEF TreeAndTypes, TreeInv
<1>3. at \in 1..(Kids(at)[i] - 1)
  BY <1>2 DEF TreeAndTypes, TreeInv
<1> QED BY <1>1, <1>2, <1>3 DEF Stmt

LEMMA ChildCode ==
  ASSUME TreeAndTypes, TreeAndTypes', LabelsIdentifyStatements, CodeInv, OneTerminator,
         CompileChild
  PROVE  CodeInv' /\ OneTerminator'
<1>1. /\ at \in Stmt /\ at \in 1..size /\ at # None /\ phase = "compile" /\ phase' = "compile"
      /\ status[at] = "running" /\ status' = status
      /\ code \in [Block -> Seq(Instr)] /\ cur \in Block
      /\ UNCHANGED <<ast, size>>
  BY DEF TreeAndTypes, TypeOK, ParserTypeOK, CodegenTypeOK, TreeInv, CompileChild, Resuming,
     None, Stmt
<1>2. FreshBlocks /\ NoTerminator(code[cur])
  BY <1>1 DEF CodeInv
<1>3. PICK i \in 1..Len(Kids(at)) :
        /\ ~Called(Kids(at)[i]) /\ at' = Kids(at)[i]
        /\ IF IsElse(i)
           THEN /\ code' = [code EXCEPT ![cur] = Append(@, Br(<<"end", at>>))]
                /\ cur' = <<"else", at>>
           ELSE UNCHANGED <<code, cur>>
  BY DEF CompileChild
<1>4. <<"end", at>> \in Block /\ <<"else", at>> \in Block
  BY <1>1, BlockNames DEF Roles
<1>5. KindOf(at) \in {"if", "while"} => IsFresh(<<"end", at>>)
  BY <1>1, <1>2 DEF FreshBlocks
<1>6. KindOf(at) = "if" /\ Len(Kids(at)) >= 2 /\ ~Called(Kids(at)[2]) => IsFresh(<<"else", at>>)
  BY <1>1, <1>2, KidIsOther DEF FreshBlocks
<1>7. CASE ~IsElse(i)
  <2>1. code' = code /\ cur' = cur
    BY <1>3, <1>7
  <2>2. FreshBlocks'
    <3>1. KindOf(at) \in {"if", "while"} => code'[<<"end", at>>] = <<>> /\ cur' # <<"end", at>>
      BY <1>5, <2>1 DEF IsFresh
    <3>2. KindOf(at) = "if" /\ Len(Kids(at)) >= 2 /\ status'[Kids(at)[2]] = "uncalled"
          => code'[<<"else", at>>] = <<>> /\ cur' # <<"else", at>>
      BY <1>1, <1>6, <2>1 DEF IsFresh, Called
    <3> QED BY <1>1, <1>2, <2>1, <3>1, <3>2, FreshStep
  <2>3. OneTerminator'
    BY <2>1 DEF OneTerminator, IsTerminator
  <2> QED BY <1>1, <1>2, <2>1, <2>2, <2>3, CodeInvStep
<1>8. CASE IsElse(i)
  <2>1. i = 2 /\ KindOf(at) = "if"
    BY <1>8 DEF IsElse
  <2>2. IsFresh(<<"else", at>>)
    <3>1. Len(Kids(at)) \in Nat /\ 2 \in 1..Len(Kids(at)) /\ ~Called(Kids(at)[2])
      BY <1>3, <2>1 DEF TreeAndTypes
    <3> QED BY <1>6, <2>1, <3>1
  <2> DEFINE b == <<"else", at>>
             j == Br(<<"end", at>>)
  <2>3. b \in Block /\ j \in Instr /\ IsFresh(b)
    BY <1>4, <2>2, InstrTypes
  <2>4. code' = [code EXCEPT ![cur] = Append(@, j)] /\ cur' = b
    BY <1>3, <1>8
  <2>5. <<"end", at>> # b /\ IsFresh(<<"end", at>>) /\ b \in OwnBlocks
    BY <1>5, <2>1 DEF OwnBlocks, Roles
  <2>6. at' = Kids(at)[2]
    BY <1>3, <2>1
  <2> HIDE DEF b, j
  <2>7. /\ code' \in [Block -> Seq(Instr)] /\ code'[cur] = Append(code[cur], j)
        /\ \A c \in Block : c # cur => code'[c] = code[c]
    BY <1>1, <2>3, <2>4, AppendOne
  <2>8. NoTerminator(code'[cur'])
    BY <2>3, <2>4, <2>7 DEF IsFresh, NoTerminator
  <2>9. code'[<<"end", at>>] = <<>> /\ cur' # <<"end", at>>
    BY <1>4, <2>4, <2>5, <2>7 DEF IsFresh
  <2>10. FreshBlocks'
    <3>1. {b} \subseteq OwnBlocks
      BY <2>5
    <3> QED BY <1>1, <1>2, <2>4, <2>6, <2>7, <2>9, <3>1, FreshStep
  <2>11. OneTerminator'
    BY <1>1, <1>2, <2>3, <2>7, Appended, BlocksStaySound DEF TreeAndTypes
  <2> QED BY <1>1, <2>8, <2>10, <2>11, CodeInvStep
<1> QED BY <1>7, <1>8

LEMMA LeaveCode ==
  ASSUME TreeAndTypes, TreeAndTypes', LabelsIdentifyStatements, CodeInv, OneTerminator,
         LeaveCompiled
  PROVE  CodeInv' /\ OneTerminator'
<1>1. /\ at \in Stmt /\ at \in 1..size /\ at # None /\ phase = "compile" /\ phase' = "compile"
      /\ status[at] = "running" /\ status \in [Stmt -> Statuses]
      /\ status' = [status EXCEPT ![at] = "returned"]
      /\ code \in [Block -> Seq(Instr)] /\ cur \in Block
      /\ UNCHANGED <<ast, size>>
  BY DEF TreeAndTypes, TypeOK, ParserTypeOK, CodegenTypeOK, TreeInv, LeaveCompiled, Resuming,
     Return, None, Stmt
<1>2. FreshBlocks /\ NoTerminator(code[cur])
  BY <1>1 DEF CodeInv
<1>3. status'[at] = "returned" /\ \A n \in Stmt : n # at => status'[n] = status[n]
  BY <1>1
<1>4. CASE KindOf(at) \notin {"if", "while"}
  <2>1. code' = code /\ cur' = cur
    BY <1>4 DEF LeaveCompiled
  <2>2. FreshBlocks'
    BY <1>1, <1>2, <1>3, <2>1, FreshStep
  <2>3. OneTerminator'
    BY <2>1 DEF OneTerminator, IsTerminator
  <2> QED BY <1>1, <1>2, <1>3, <2>1, <2>2, <2>3, CodeInvStep
<1>5. CASE KindOf(at) \in {"if", "while"}
  <2> DEFINE b == <<"end", at>>
             j == Br(BackTo)
  <2>1. b \in Block /\ BackTo \in Block
    BY <1>1, BlockNames DEF BackTo, Roles
  <2>2. j \in Instr /\ IsFresh(b)
    BY <1>1, <1>2, <1>5, <2>1, InstrTypes DEF FreshBlocks
  <2>3. code' = [code EXCEPT ![cur] = Append(@, j)] /\ cur' = b
    BY <1>5 DEF LeaveCompiled
  <2>4. b \in OwnBlocks
    BY DEF OwnBlocks, Roles
  <2> HIDE DEF b, j
  <2>5. /\ code' \in [Block -> Seq(Instr)] /\ code'[cur] = Append(code[cur], j)
        /\ \A c \in Block : c # cur => code'[c] = code[c]
    BY <1>1, <2>2, <2>3, AppendOne
  <2>6. NoTerminator(code'[cur'])
    BY <2>1, <2>2, <2>3, <2>5 DEF IsFresh, NoTerminator
  <2>7. FreshBlocks'
    <3>1. {b} \subseteq OwnBlocks
      BY <2>4
    <3> QED BY <1>1, <1>2, <1>3, <2>3, <2>5, <3>1, FreshStep
  <2>8. OneTerminator'
    BY <1>1, <1>2, <2>2, <2>5, Appended, BlocksStaySound DEF TreeAndTypes
  <2> QED BY <1>1, <1>3, <2>6, <2>7, <2>8, CodeInvStep
<1> QED BY <1>4, <1>5

LEMMA DeclarationCode ==
  ASSUME TreeAndTypes, TreeAndTypes', LabelsIdentifyStatements, CodeInv, OneTerminator,
         CompileDeclaration
  PROVE  CodeInv' /\ OneTerminator'
<1>1. /\ at \in Stmt /\ at # None /\ phase = "compile" /\ phase' = "compile"
      /\ status \in [Stmt -> Statuses] /\ status' = [status EXCEPT ![at] = "returned"]
      /\ code \in [Block -> Seq(Instr)] /\ cur \in Block /\ cur' = cur
      /\ UNCHANGED <<ast, size>>
  BY DEF TreeAndTypes, TypeOK, ParserTypeOK, CodegenTypeOK, CompileDeclaration, Generates,
     Return, None
<1>2. FreshBlocks /\ NoTerminator(code[cur])
  BY <1>1 DEF CodeInv
<1>3. status'[at] = "returned" /\ \A n \in Stmt : n # at => status'[n] = status[n]
  BY <1>1
<1>4. \A b \in Block : b # Entry => code'[b] = code[b]
  BY <1>1 DEF CompileDeclaration
<1>5. FreshBlocks'
  <2>1. {Entry} \subseteq OwnBlocks
    BY DEF OwnBlocks
  <2> QED BY <1>1, <1>2, <1>3, <1>4, <2>1, FreshStep
<1>6. CASE IsAbstract(at)
  <2>1. code' = code
    BY <1>6 DEF CompileDeclaration
  <2>2. OneTerminator'
    BY <2>1 DEF OneTerminator, IsTerminator
  <2> QED BY <1>1, <1>2, <1>3, <1>5, <2>1, <2>2, CodeInvStep
<1>7. CASE ~IsAbstract(at)
  <2> DEFINE a == Plain("alloca", at)
             q == code[Entry]
             r == AddAlloca(q)
  <2>1. a \in Instr /\ ~IsTerminator(a) /\ a.op = "alloca" /\ q \in Seq(Instr)
    BY <1>1, InstrTypes, BlockNames DEF Plain, IsTerminator, Terminators
  <2>2. code' = [code EXCEPT ![Entry] = r] /\ code'[Entry] = r
    BY <1>1, <1>7, BlockNames DEF CompileDeclaration
  <2>3. r = Append(q, a) \/ r = <<a>> \o q
    BY DEF AddAlloca
  <2> HIDE DEF a, q, r
  <2>4. /\ <<a>> \in Seq(Instr) /\ Len(<<a>>) = 1 /\ <<a>>[1] = a
        /\ Len(q) \in Nat /\ <<a>> \o q \in Seq(Instr) /\ Append(q, a) \in Seq(Instr)
    BY <2>1, AppendOne
  <2>5. NoTerminator(<<a>>)
    BY <2>1, <2>4 DEF NoTerminator
  <2>6. NoTerminator(q) => NoTerminator(r)
    BY <2>1, <2>3, <2>4, <2>5, Appended, Concatenated
  <2>7. ASSUME NEW i \in 1..Len(r), NEW j \in 1..Len(r), i < j, IsTerminator(r[i])
        PROVE  r[j].op = "alloca"
    <3>1. \A m, n \in 1..Len(q) : m < n /\ IsTerminator(q[m]) => q[n].op = "alloca"
      BY BlockNames DEF OneTerminator, q
    <3>2. CASE r = Append(q, a)
      <4>1. \A m \in 1..Len(r) : \/ m \in 1..Len(q) /\ r[m] = q[m]
                                 \/ m = Len(q) + 1 /\ r[m] = a
        BY <2>1, <3>2, AppendOne
      <4>2. i \in 1..Len(q) /\ r[i] = q[i]
        BY <2>1, <2>7, <4>1
      <4>3. CASE j \in 1..Len(q) /\ r[j] = q[j]
        BY <2>7, <3>1, <4>2, <4>3
      <4>4. CASE r[j] = a
        BY <2>1, <4>4
      <4> QED BY <4>1, <4>3, <4>4
    <3>3. CASE r = <<a>> \o q
      <4>1. /\ r[1] = a
            /\ \A m \in 1..Len(r) : m # 1 => m - 1 \in 1..Len(q) /\ r[m] = q[m - 1]
        BY <2>1, <2>4, <3>3
      <4>2. i # 1 /\ j # 1
        BY <2>1, <2>4, <2>7, <4>1
      <4>3. /\ i - 1 \in 1..Len(q) /\ r[i] = q[i - 1]
            /\ j - 1 \in 1..Len(q) /\ r[j] = q[j - 1] /\ i - 1 < j - 1
        BY <2>4, <2>7, <4>1, <4>2
      <4> QED BY <2>7, <3>1, <4>3
    <3> QED BY <2>3, <3>2, <3>3
  <2>8. OneTerminator'
    <3> SUFFICES ASSUME NEW b \in Block, NEW i \in 1..Len(code'[b]), NEW j \in 1..Len(code'[b]),
                        i < j, IsTerminator(code'[b][i])
                 PROVE  b = Entry /\ code'[b][j].op = "alloca"
      BY DEF OneTerminator, IsTerminator
    <3>1. CASE b = Entry
      BY <2>2, <2>7, <3>1
    <3>2. CASE b # Entry
      BY <1>4, <3>2 DEF OneTerminator
    <3> QED BY <3>1, <3>2
  <2>9. NoTerminator(code'[cur'])
    <3>1. CASE cur = Entry
      BY <1>1, <1>2, <2>2, <2>6, <3>1 DEF q
    <3>2. CASE cur # Entry
      BY <1>1, <1>2, <1>4, <3>2
    <3> QED BY <3>1, <3>2
  <2> QED BY <1>1, <1>3, <1>5, <2>8, <2>9, CodeInvStep
<1> QED BY <1>6, <1>7

LEMMA ExpressionCode ==
  ASSUME TreeAndTypes, TreeAndTypes', LabelsIdentifyStatements, CodeInv, OneTerminator,
         CompileExpression
  PROVE  CodeInv' /\ OneTerminator'
<1>1. /\ at \in Stmt /\ at # None /\ phase = "compile" /\ phase' \in {"compile"} \cup Ends
      /\ status \in [Stmt -> Statuses] /\ status' = [status EXCEPT ![at] = "returned"]
      /\ code \in [Block -> Seq(Instr)] /\ cur \in Block /\ cur' = cur
      /\ UNCHANGED <<ast, size>>
  BY DEF TreeAndTypes, TypeOK, ParserTypeOK, CodegenTypeOK, CompileExpression, Generates,
     Return, None, Ends, AfterEvaluation
<1>2. FreshBlocks /\ NoTerminator(code[cur])
  BY <1>1 DEF CodeInv
<1>3. status'[at] = "returned" /\ \A n \in Stmt : n # at => status'[n] = status[n]
  BY <1>1
<1>4. PICK e \in Evaluations : code' = [code EXCEPT ![cur] = Append(@, e)]
  BY DEF CompileExpression
<1>5. e \in Instr /\ ~IsTerminator(e)
  BY <1>1, EvaluationType
<1>6. /\ code' \in [Block -> Seq(Instr)] /\ code'[cur] = Append(code[cur], e)
      /\ \A c \in Block : c # cur => code'[c] = code[c]
  BY <1>1, <1>4, <1>5, AppendOne
<1>7. FreshBlocks'
  BY <1>1, <1>2, <1>3, <1>6, FreshStep
<1>8. NoTerminator(code'[cur'])
  BY <1>1, <1>2, <1>5, <1>6, Appended
<1>9. OneTerminator'
  BY <1>1, <1>2, <1>5, <1>6, Appended, BlocksStaySound DEF TreeAndTypes
<1> QED BY <1>1, <1>3, <1>7, <1>8, <1>9, CodeInvStep

LEMMA EmptyCode ==
  ASSUME TreeAndTypes, TreeAndTypes', LabelsIdentifyStatements, CodeInv, OneTerminator,
         CompileEmpty
  PROVE  CodeInv' /\ OneTerminator'
<1>1. /\ at \in Stmt /\ at # None /\ phase = "compile" /\ phase' = "compile"
      /\ status \in [Stmt -> Statuses] /\ status' = [status EXCEPT ![at] = "returned"]
      /\ code' = code /\ cur' = cur /\ UNCHANGED <<ast, size>>
  BY DEF TreeAndTypes, TypeOK, ParserTypeOK, CompileEmpty, Generates, Return, None, codegenVars
<1>2. FreshBlocks /\ NoTerminator(code[cur])
  BY <1>1 DEF CodeInv
<1>3. status'[at] = "returned" /\ \A n \in Stmt : n # at => status'[n] = status[n]
  BY <1>1
<1>4. FreshBlocks'
  BY <1>1, <1>2, <1>3, FreshStep
<1>5. OneTerminator'
  BY <1>1 DEF OneTerminator, IsTerminator
<1> QED BY <1>1, <1>2, <1>3, <1>4, <1>5, CodeInvStep

\* A jump appends at most one terminator, at the end.
LEMMA JumpInstructions ==
  ASSUME TreeAndTypes, CompileJump
  PROVE  \E s \in Seq(Instr) : OnlyLastTerminator(s) /\ Jump(s)
<1>1. /\ at \in Stmt /\ at \notin {None, Root}
  BY InnerStatement DEF CompileJump, Generates, TreeAndTypes, TypeOK, ParserTypeOK
<1>2. Plain("ret", None) \in Instr /\ Plain("ret value", None) \in Instr
  BY InstrTypes
<1>3. CASE Generates({"goto", "break", "continue"}) /\ Jump(JumpCode)
  <2>1. CASE JumpCode = <<>>
    <3>1. <<>> \in Seq(Instr) /\ OnlyLastTerminator(<<>>)
      BY DEF OnlyLastTerminator
    <3> QED BY <1>3, <2>1, <3>1
  <2>2. CASE \E b \in Block : JumpCode = <<Br(b)>>
    <3>1. PICK b \in Block : JumpCode = <<Br(b)>>
      BY <2>2
    <3>2. <<Br(b)>> \in Seq(Instr) /\ Len(<<Br(b)>>) = 1
      BY InstrTypes, ShortSequences
    <3>3. OnlyLastTerminator(<<Br(b)>>)
      BY <3>2 DEF OnlyLastTerminator
    <3> QED BY <1>3, <3>1, <3>2, <3>3
  <2> QED BY <1>1, <1>3, <2>1, <2>2, JumpCodeType DEF Generates
<1>4. CASE Jump(<<Plain("ret", None)>>)
  <2>1. <<Plain("ret", None)>> \in Seq(Instr) /\ Len(<<Plain("ret", None)>>) = 1
    BY <1>2, ShortSequences
  <2>2. OnlyLastTerminator(<<Plain("ret", None)>>)
    BY <2>1 DEF OnlyLastTerminator
  <2> QED BY <1>4, <2>1, <2>2
<1>5. CASE \E e \in Evaluations : Jump(<<e, Plain("ret value", None)>>)
  <2>1. PICK e \in Evaluations : Jump(<<e, Plain("ret value", None)>>)
    BY <1>5
  <2> DEFINE s == <<e, Plain("ret value", None)>>
  <2>2. e \in Instr /\ ~IsTerminator(e)
    BY <1>1, EvaluationType
  <2>3. s \in Seq(Instr) /\ Len(s) = 2 /\ s[1] = e
    BY <1>2, <2>2, ShortSequences
  <2>4. Jump(s)
    BY <2>1
  <2> HIDE DEF s
  <2>5. OnlyLastTerminator(s)
    BY <2>2, <2>3 DEF OnlyLastTerminator
  <2> QED BY <2>3, <2>4, <2>5
<1> QED BY <1>3, <1>4, <1>5 DEF CompileJump

LEMMA JumpStep ==
  ASSUME TreeAndTypes, TreeAndTypes', LabelsIdentifyStatements, CodeInv, OneTerminator,
         CompileJump
  PROVE  CodeInv' /\ OneTerminator'
<1>1. /\ at \in Stmt /\ at # None /\ phase = "compile" /\ phase' \in {"compile"} \cup Ends
      /\ status \in [Stmt -> Statuses] /\ ~Called(at)
      /\ code \in [Block -> Seq(Instr)] /\ cur \in Block
  BY DEF TreeAndTypes, TypeOK, ParserTypeOK, CodegenTypeOK, CompileJump, Generates, Entering,
     Called, None, Ends, AfterEvaluation
<1>2. FreshBlocks /\ NoTerminator(code[cur])
  BY <1>1 DEF CodeInv
<1>3. PICK s \in Seq(Instr) : OnlyLastTerminator(s) /\ Jump(s)
  BY JumpInstructions
<1> DEFINE b == <<"dead", at>>
<1>4. b \in Block /\ IsFresh(b) /\ b \in OwnBlocks
  BY <1>1, <1>2, BlockNames DEF FreshBlocks, OwnBlocks, Roles
<1>5. /\ code' = [code EXCEPT ![cur] = @ \o s] /\ cur' = b
      /\ status' = [status EXCEPT ![at] = "returned"] /\ UNCHANGED <<ast, size>>
  BY <1>3 DEF Jump, AfterJump, Return
<1>6. status'[at] = "returned" /\ \A n \in Stmt : n # at => status'[n] = status[n]
  BY <1>1, <1>5
<1> HIDE DEF b
<1>7. /\ code' \in [Block -> Seq(Instr)] /\ code'[cur] = code[cur] \o s
      /\ \A c \in Block : c # cur => code'[c] = code[c]
  <2>1. code[cur] \o s \in Seq(Instr)
    BY <1>1
  <2> QED BY <1>1, <1>5, <2>1
<1>8. FreshBlocks'
  <2>1. {b} \subseteq OwnBlocks
    BY <1>4
  <2> QED BY <1>1, <1>2, <1>5, <1>6, <1>7, <2>1, FreshStep
<1>9. NoTerminator(code'[cur'])
  BY <1>4, <1>5, <1>7 DEF IsFresh, NoTerminator
<1>10. OneTerminator'
  BY <1>1, <1>2, <1>3, <1>7, Concatenated, BlocksStaySound DEF TreeAndTypes
<1> QED BY <1>1, <1>6, <1>8, <1>9, <1>10, CodeInvStep

LEMMA FinishCode ==
  ASSUME TreeAndTypes, CodeInv, OneTerminator, FinishFunction
  PROVE  CodeInv' /\ OneTerminator'
<1>1. /\ phase = "compile" /\ phase' = "compiled"
      /\ code \in [Block -> Seq(Instr)] /\ cur \in Block
  BY DEF TreeAndTypes, TypeOK, CodegenTypeOK, FinishFunction
<1>2. CodeInv'
  BY <1>1 DEF CodeInv, NoCodeYet
<1>3. NoTerminator(code[cur]) /\ DefaultReturn \in Instr
  BY <1>1, InstrTypes DEF CodeInv, DefaultReturn
<1>4. CASE code' = code
  BY <1>2, <1>4 DEF OneTerminator, IsTerminator
<1>5. CASE code' = [code EXCEPT ![cur] = Append(@, DefaultReturn)]
  <2>1. /\ code' \in [Block -> Seq(Instr)] /\ code'[cur] = Append(code[cur], DefaultReturn)
        /\ \A c \in Block : c # cur => code'[c] = code[c]
    BY <1>1, <1>3, <1>5, AppendOne
  <2>2. OneTerminator'
    BY <1>1, <1>3, <2>1, Appended, BlocksStaySound DEF TreeAndTypes
  <2> QED BY <1>2, <2>2
<1> QED BY <1>4, <1>5 DEF FinishFunction
------------------------------------------------------------------------------
LEMMA CodeStep ==
  ASSUME TreeAndTypes, TreeAndTypes', LabelsIdentifyStatements, CodeInv, OneTerminator,
         [Next]_vars_
  PROVE  CodeInv' /\ OneTerminator'
<1>1. CASE Parse /\ UNCHANGED codegenVars
  <2>1. phase = "parse" /\ phase' # "compile"
    BY <1>1 DEF Parse, StartBody, OpenStatement, LeafStatement, RefuseStatement, ReadsStatement,
       SyntaxError, FinishStatement, FinishBody, Reject
  <2>2. CodeInv'
    BY <1>1, <2>1, BeforeCompile
  <2>3. OneTerminator'
    BY <1>1, CodeUntouched
  <2> QED BY <2>2, <2>3
<1>2. CASE Typecheck /\ UNCHANGED codegenVars
  <2>1. phase = "typecheck" /\ (phase' = "compile" => status' = AllUncalled)
    BY <1>2 DEF Typecheck, Checks, CheckBlock, CheckCondition, CheckLabeled, CheckChild,
       LeaveChecked, CheckDeclaration, CheckExpression, CheckJump, RejectStatement,
       FinishTypecheck, CheckedLeaf, Reject
  <2>2. CodeInv'
    BY <1>2, <2>1, BeforeCompile
  <2>3. OneTerminator'
    BY <1>2, CodeUntouched
  <2> QED BY <2>2, <2>3
<1>3. CASE Compile
  BY <1>3, FunctionCode, ScopeCode, ConditionCode, ChildCode, LeaveCode, DeclarationCode,
     ExpressionCode, EmptyCode, JumpStep, FinishCode DEF Compile
<1>4. CASE UNCHANGED vars_
  <2>1. CodeInv'
    BY <1>4 DEF vars_, parserVars, codegenVars, CodeInv, NoCodeYet, FreshBlocks, NoTerminator,
       IsFresh, Called, KindOf, Kids, OfKind, IsTerminator
  <2> QED BY <1>4, <2>1, CodeUntouched DEF vars_
<1> QED BY <1>1, <1>2, <1>3, <1>4 DEF Next

LEMMA InitCode == Init => CodeInv /\ OneTerminator
<1> SUFFICES ASSUME Init PROVE CodeInv /\ OneTerminator
  OBVIOUS
<1>1. phase = "parse" /\ cur = Entry /\ \A b \in Block : code[b] = <<>>
  BY DEF Init, ParserInit, CodegenInit
<1> QED BY <1>1 DEF CodeInv, NoCodeYet, OneTerminator

(***************************************************************************)
(* Whatever statements a function is made of, however they are nested, the *)
(* main builder never appends to a block that has its terminator, not even *)
(* for code behind jumps: all that can follow a terminator is an alloca in *)
(* the entry block (jump.cpp, controlflow.cpp, block.cpp, inline.cpp).     *)
(***************************************************************************)
THEOREM OneTerminatorPerBlock == Spec => []OneTerminator
<1>1. Init => TreeAndTypes /\ LabelsIdentifyStatements /\ CodeInv /\ OneTerminator
  <2>1. Init => LabelsIdentifyStatements
    BY DEF Init, ParserInit, LabelsIdentifyStatements
  <2> QED BY <2>1, InitTreeAndTypes, InitCode
<1>2. TreeAndTypes /\ LabelsIdentifyStatements /\ CodeInv /\ OneTerminator /\ [Next]_vars_
      => (TreeAndTypes /\ LabelsIdentifyStatements /\ CodeInv /\ OneTerminator)'
  BY TreeAndTypesStep, LabelsStep, CodeStep
<1> QED BY <1>1, <1>2, PTL DEF Spec

(***************************************************************************)
(* The order in which the passes over a function walk its statements, and  *)
(* what the type checker knows when it is about to check one.              *)
(*                                                                         *)
(* The parser numbers the statements in the order of the source, the       *)
(* running handlers are those of the statements around "at", and a pass is *)
(* over only when the handler of every statement has returned.  So the     *)
(* scopes hold the declarations in front of the statement and no others,   *)
(* and the loop counter is the number of loops around it.                  *)
(***************************************************************************)

LEMMA Ranges ==
  ASSUME TreeAndTypes
  PROVE  /\ size \in Nat /\ \A n \in 2..size : n \in 1..size /\ n \in Stmt
         /\ \A n \in 1..size : n \in Stmt /\ status[n] \in Statuses
         /\ \A n \in 2..size : Parent(n) \in 1..size /\ Parent(n) < n
         /\ \A n \in 1..size : Kids(n) \in Seq(Stmt)
         /\ size > 0 => 1 \in 1..size /\ 1 \in Stmt
<1>1. MaxStatements \in Nat /\ size \in 0..MaxStatements /\ Stmt = 1..MaxStatements
  BY AstAssumption DEF Stmt, TreeAndTypes, TypeOK, ParserTypeOK
<1>2. \A n \in 1..size : n \in Stmt
  BY <1>1
<1>3. \A n \in Stmt : status[n] \in Statuses /\ Kids(n) \in Seq(Stmt)
  BY DEF TreeAndTypes, TypeOK, ParserTypeOK, Statement, Kids
<1>4. \A n \in 2..size : Parent(n) \in 1..(n - 1)
  BY DEF TreeAndTypes, TreeInv
<1> QED BY <1>1, <1>2, <1>3, <1>4

LEMMA Basics ==
  ASSUME TreeAndTypes
  PROVE  /\ MaxStatements \in Nat /\ size \in 0..MaxStatements /\ Stmt = 1..MaxStatements
         /\ at \in 0..size /\ status \in [Stmt -> Statuses] /\ ast \in [Stmt -> Statement]
         /\ \A n \in 1..size : n \in Stmt /\ Kids(n) \in Seq(Stmt) /\ Len(Kids(n)) \in Nat
         /\ \A n \in 2..size : Parent(n) \in 1..(n - 1) /\ Parent(n) \in 1..size
         /\ \A n \in 1..size : \A i \in 1..Len(Kids(n)) :
              Kids(n)[i] \in 2..size /\ Parent(Kids(n)[i]) = n /\ n < Kids(n)[i]
         /\ \A n \in 1..size : KindOf(n) \in LeafKind => Len(Kids(n)) = 0
<1> USE DEF TreeAndTypes, TypeOK, ParserTypeOK
<1>1. MaxStatements \in Nat /\ size \in 0..MaxStatements /\ Stmt = 1..MaxStatements
  BY AstAssumption DEF Stmt
<1>2. at \in 0..size /\ \A n \in 1..size : n \in Stmt
  BY <1>1 DEF TreeInv, None
<1>3. \A n \in Stmt : Kids(n) \in Seq(Stmt) /\ Len(Kids(n)) \in Nat
  BY DEF Statement, Kids
<1>4. \A n \in 2..size : Parent(n) \in 1..(n - 1) /\ Parent(n) \in 1..size
  BY <1>1 DEF TreeInv
<1>5. \A n \in 1..size : \A i \in 1..Len(Kids(n)) :
        Kids(n)[i] \in 2..size /\ Parent(Kids(n)[i]) = n /\ n < Kids(n)[i]
  BY <1>1, <1>4 DEF TreeInv
<1>6. ASSUME NEW n \in 1..size, KindOf(n) \in LeafKind PROVE Len(Kids(n)) = 0
  <2>1. ASSUME 1 \in 1..Len(Kids(n)) PROVE FALSE
    <3>1. Kids(n)[1] \in 2..size /\ Parent(Kids(n)[1]) = n
      BY <1>5, <2>1
    <3> QED BY <1>6, <3>1 DEF TreeInv
  <2> QED BY <1>2, <1>3, <2>1
<1> QED BY <1>1, <1>2, <1>3, <1>4, <1>5, <1>6

\* A set of statements has a first one.
LEMMA Least ==
  ASSUME NEW T, T \subseteq Nat, T # {}
  PROVE  \E x \in T : \A y \in T : x <= y
<1> DEFINE R == OpToRel(<, Nat)
<1>1. \E x \in T : \A y \in T : ~(<<y, x>> \in R)
  <2>1. IsWellFoundedOn(R, Nat)
    BY NatLessThanWellFounded
  <2> HIDE DEF R
  <2> QED BY <2>1, WFMin
<1>2. PICK x \in T : \A y \in T : ~(<<y, x>> \in R)
  BY <1>1
<1>3. ASSUME NEW y \in T PROVE x <= y
  <2>1. y \in Nat /\ x \in Nat
    OBVIOUS
  <2>2. ~(<<y, x>> \in R)
    BY <1>2
  <2>3. ~(y < x)
    BY <2>1, <2>2 DEF OpToRel
  <2> QED BY <2>1, <2>3
<1> QED BY <1>3
------------------------------------------------------------------------------
(***************************************************************************)
(* The statements around a statement.  The definition of Enclosing is      *)
(* recursive; the statements that every set closed under Parent contains   *)
(* solve its equation.                                                     *)
(***************************************************************************)
ClosedUp(S) == \A m \in S : m # None => Parent(m) \in S
Above(n) == {m \in Stmt : \A S \in SUBSET (Stmt \cup {None}) : n \in S /\ ClosedUp(S) => m \in S}

LEMMA AboveUnfolds ==
  ASSUME NEW n \in Stmt, Parent(n) \in Stmt \cup {None}
  PROVE  Above(n) = {n} \cup Above(Parent(n))
<1>1. ASSUME NEW m \in Above(n) PROVE m \in {n} \cup Above(Parent(n))
  <2> SUFFICES ASSUME m # n, NEW S \in SUBSET (Stmt \cup {None}), Parent(n) \in S, ClosedUp(S)
               PROVE  m \in S
    BY <1>1 DEF Above
  <2>1. /\ n \in S \cup {n} /\ ClosedUp(S \cup {n})
        /\ S \cup {n} \in SUBSET (Stmt \cup {None})
    BY DEF ClosedUp
  <2> QED BY <1>1, <2>1 DEF Above
<1>2. ASSUME NEW m \in Above(Parent(n)) PROVE m \in Above(n)
  <2>1. n # None
    BY AstAssumption DEF Stmt, None
  <2> QED BY <1>2, <2>1 DEF Above, ClosedUp
<1>3. n \in Above(n)
  BY DEF Above
<1> QED BY <1>1, <1>2, <1>3

LEMMA EnclosingUnfolds ==
  ASSUME ast \in [Stmt -> Statement]
  PROVE  Enclosing[None] = {} /\ \A n \in Stmt : Enclosing[n] = {n} \cup Enclosing[Parent(n)]
<1>0. None \notin Stmt /\ \A n \in Stmt : Parent(n) \in Stmt \cup {None}
  BY AstAssumption DEF Stmt, None, Parent, Statement
<1>1. Above(None) = {}
  <2>1. ClosedUp({None}) /\ {None} \in SUBSET (Stmt \cup {None})
    BY DEF ClosedUp
  <2> QED BY <1>0, <2>1 DEF Above
<1> DEFINE g == [n \in Stmt \cup {None} |-> Above(n)]
<1>2. g = [n \in Stmt \cup {None} |-> IF n = None THEN {} ELSE {n} \cup g[ast[n].parent]]
  <2>1. ASSUME NEW n \in Stmt \cup {None}
        PROVE  g[n] = IF n = None THEN {} ELSE {n} \cup g[ast[n].parent]
    BY <1>0, <1>1, AboveUnfolds DEF Parent
  <2> QED BY <2>1
<1> HIDE DEF g
<1>3. \E h : h = [n \in Stmt \cup {None} |-> IF n = None THEN {} ELSE {n} \cup h[ast[n].parent]]
  BY <1>2, Zenon
<1>4. Enclosing = [n \in Stmt \cup {None} |->
                     IF n = None THEN {} ELSE {n} \cup Enclosing[ast[n].parent]]
  BY <1>3, Zenon DEF Enclosing
<1>5. \A n \in Stmt \cup {None} :
        Enclosing[n] = IF n = None THEN {} ELSE {n} \cup Enclosing[ast[n].parent]
  BY <1>4, Zenon
<1> QED BY <1>0, <1>5 DEF Parent

\* The statements around n come before it, and the body is one of them.
LEMMA EnclosingRange ==
  ASSUME TreeAndTypes, NEW n \in 1..size
  PROVE  Enclosing[n] \subseteq 1..n /\ n \in Enclosing[n] /\ Root \in Enclosing[n]
<1> DEFINE IsGood(m) == Enclosing[m] \subseteq 1..m /\ m \in Enclosing[m] /\ Root \in Enclosing[m]
           T == {m \in 1..size : ~IsGood(m)}
<1>0. /\ size \in Nat /\ \A m \in 1..size : m \in Stmt
      /\ \A m \in 2..size : Parent(m) \in 1..(m - 1)
      /\ Parent(1) = None /\ None = 0 /\ Root = 1
  BY Basics DEF TreeAndTypes, TreeInv, Root, None
<1>1. Enclosing[None] = {} /\ \A m \in Stmt : Enclosing[m] = {m} \cup Enclosing[Parent(m)]
  BY Basics, EnclosingUnfolds
<1>2. ASSUME T # {} PROVE FALSE
  <2>1. PICK m \in T : \A k \in T : m <= k
    <3>1. T \subseteq Nat
      BY <1>0
    <3> HIDE DEF T
    <3> QED BY <1>2, <3>1, Least
  <2>2. m \in 1..size /\ Enclosing[m] = {m} \cup Enclosing[Parent(m)]
    BY <1>0, <1>1
  <2>3. CASE m = 1
    BY <1>0, <1>1, <2>2, <2>3
  <2>4. CASE m # 1
    <3>1. Parent(m) \in 1..(m - 1) /\ Parent(m) \in 1..size
      BY <1>0, <2>2, <2>4
    <3>2. IsGood(Parent(m))
      BY <1>0, <2>1, <2>2, <3>1
    <3> QED BY <1>0, <2>2, <3>1, <3>2
  <2> QED BY <2>3, <2>4
<1> QED BY <1>2

LEMMA EnclosingUnfoldsNext ==
  (ast \in [Stmt -> Statement])'
    => (Enclosing[None] = {} /\ \A n \in Stmt : Enclosing[n] = {n} \cup Enclosing[Parent(n)])'
<1>1. ast \in [Stmt -> Statement]
        => Enclosing[None] = {} /\ \A n \in Stmt : Enclosing[n] = {n} \cup Enclosing[Parent(n)]
  BY EnclosingUnfolds
<1> QED BY <1>1, PTL

LEMMA EnclosingKept ==
  ASSUME TreeAndTypes, TreeAndTypes', ast' = ast, size' = size, NEW n \in 1..size
  PROVE  Enclosing'[n] = Enclosing[n]
<1> DEFINE T == {m \in 1..size : Enclosing'[m] # Enclosing[m]}
<1>0. /\ size \in Nat /\ \A m \in 1..size : m \in Stmt
      /\ \A m \in 2..size : Parent(m) \in 1..(m - 1)
      /\ Parent(1) = None
  BY Basics DEF TreeAndTypes, TreeInv, Root, None
<1>1. Enclosing[None] = {} /\ \A m \in Stmt : Enclosing[m] = {m} \cup Enclosing[Parent(m)]
  BY Basics, EnclosingUnfolds
<1>2. Enclosing'[None] = {} /\ \A m \in Stmt : Enclosing'[m] = {m} \cup Enclosing'[Parent(m)]
  <2>1. (ast \in [Stmt -> Statement])'
    BY DEF TreeAndTypes, TypeOK, ParserTypeOK
  <2>2. \A m : Parent(m)' = Parent(m)
    BY DEF Parent
  <2> QED BY <2>1, <2>2, EnclosingUnfoldsNext
<1>3. ASSUME T # {} PROVE FALSE
  <2>1. PICK m \in T : \A k \in T : m <= k
    <3>1. T \subseteq Nat
      BY <1>0
    <3> HIDE DEF T
    <3> QED BY <1>3, <3>1, Least
  <2>2. m \in 1..size /\ m \in Stmt
    BY <1>0
  <2>3. CASE m = 1
    BY <1>0, <1>1, <1>2, <2>2, <2>3, ZenonT(40)
  <2>4. CASE m # 1
    <3>1. Parent(m) \in 1..(m - 1) /\ Parent(m) \in 1..size
      BY <1>0, <2>2, <2>4
    <3>2. Enclosing'[Parent(m)] = Enclosing[Parent(m)]
      BY <1>0, <2>1, <2>2, <3>1
    <3> QED BY <1>1, <1>2, <2>1, <2>2, <3>2
  <2> QED BY <2>3, <2>4
<1> QED BY <1>3
------------------------------------------------------------------------------
\* What the actions of the parser do to the tree.

LEMMA OpenedTree ==
  ASSUME TreeAndTypes, NEW k \in Kind, NEW x \in HeadNames(k), OpenStatement(k, x)
  PROVE  /\ phase = "parse" /\ phase' = "parse" /\ ReadsStatement /\ k \notin LeafKind
         /\ at \in 1..size /\ at' = size + 1 /\ size' = size + 1 /\ size + 1 \in Stmt
         /\ ast'[size + 1].kind = k /\ ast'[size + 1].kids = <<>> /\ ast'[size + 1].parent = at
         /\ \A m \in 1..size : /\ ast'[m].kind = ast[m].kind /\ ast'[m].kids = ast[m].kids
                              /\ ast'[m].parent = ast[m].parent
<1> DEFINE n == size + 1
           s == NewStatement(k, x)
<1>1. /\ size \in Nat /\ n \in 2..MaxStatements /\ n \in Stmt /\ at \in 1..size
      /\ phase = "parse" /\ phase' = "parse" /\ size' = n /\ at' = n /\ k \notin LeafKind
      /\ ast' = [ast EXCEPT ![n] = s] /\ ast \in [Stmt -> Statement] /\ ReadsStatement
  BY Basics DEF OpenStatement, ReadsStatement, HasRoom, TreeAndTypes, TreeInv, None, Stmt
<1>2. s.kind = k /\ s.parent = at /\ s.kids = <<>>
  BY DEF NewStatement
<1> HIDE DEF s
<1>3. ast'[n] = s /\ \A m \in 1..size : ast'[m] = ast[m]
  BY <1>1
<1> QED BY <1>1, <1>2, <1>3

\* Only the children of p change.
KeepsOthers(p) ==
  \A m \in 1..size : /\ ast'[m].kind = ast[m].kind /\ ast'[m].parent = ast[m].parent
                     /\ m # p => ast'[m].kids = ast[m].kids

LEMMA LeafTree ==
  ASSUME TreeAndTypes, NEW k \in Kind, NEW x \in HeadNames(k), LeafStatement(k, x)
  PROVE  /\ phase = "parse" /\ phase' = "parse" /\ ReadsStatement /\ ~IsMisplaced(k)
         /\ k \in LeafKind
         /\ at \in 1..size /\ at' = at /\ size' = size + 1 /\ size + 1 \in Stmt
         /\ ast'[size + 1].kind = k /\ ast'[size + 1].kids = <<>> /\ ast'[size + 1].parent = at
         /\ KeepsOthers(at)
         /\ ast'[at].kids = Append(ast[at].kids, size + 1)
<1> DEFINE n == size + 1
           s == NewStatement(k, x)
           a == [ast EXCEPT ![n] = s]
           q == Append(a[at].kids, n)
           t == [a[at] EXCEPT !.kids = q]
<1>1. /\ size \in Nat /\ n \in 2..MaxStatements /\ n \in Stmt /\ at \in 1..size /\ at \in Stmt
      /\ phase = "parse" /\ phase' = "parse" /\ size' = n /\ at' = at /\ k \in LeafKind
      /\ ast' = WithKid(a, at, n) /\ ast \in [Stmt -> Statement] /\ ReadsStatement
      /\ ~IsMisplaced(k)
  BY Basics DEF LeafStatement, ReadsStatement, HasRoom, TreeAndTypes, TreeInv, None, Stmt
<1>2. s.kind = k /\ s.parent = at /\ s.kids = <<>> /\ s \in Statement
  <2>1. <<>> \in Seq(Stmt)
    OBVIOUS
  <2> QED BY <1>1, <2>1, HeadNamesType DEF NewStatement, Statement
<1> HIDE DEF s
<1>3. /\ a[n] = s /\ \A m \in 1..size : a[m] = ast[m]
      /\ a \in [Stmt -> Statement]
  BY <1>1, <1>2
<1>4. ast' = [a EXCEPT ![at] = t]
  BY <1>1 DEF WithKid
<1> HIDE DEF a
<1>5. t.kids = q /\ t.kind = a[at].kind /\ t.parent = a[at].parent
  BY <1>1, <1>3 DEF Statement
<1> HIDE DEF t
<1>6. ast'[at] = t /\ \A m \in Stmt : m # at => ast'[m] = a[m]
  BY <1>1, <1>3, <1>4
<1>7. q = Append(ast[at].kids, n) /\ n # at
  BY <1>1, <1>3
<1> HIDE DEF q
<1>8. \A m \in 1..size : m \in Stmt
  BY <1>1, Basics
<1>9. KeepsOthers(at)
  BY <1>1, <1>3, <1>5, <1>6, <1>8 DEF KeepsOthers
<1> QED BY <1>1, <1>2, <1>3, <1>5, <1>6, <1>7, <1>9

LEMMA FinishedTree ==
  ASSUME TreeAndTypes, FinishStatement
  PROVE  /\ phase = "parse" /\ phase' = "parse" /\ at \in 2..size /\ size' = size
         /\ at' = Parent(at) /\ Parent(at) \in 1..(at - 1) /\ Parent(at) \in 1..size
         /\ KeepsOthers(Parent(at))
         /\ ast'[Parent(at)].kids = Append(ast[Parent(at)].kids, at)
<1> DEFINE p == Parent(at)
           q == Append(ast[p].kids, at)
           t == [ast[p] EXCEPT !.kids = q]
<1>1. /\ phase = "parse" /\ phase' = "parse" /\ at \in 2..size /\ size' = size
      /\ at' = p /\ p \in 1..(at - 1) /\ p \in 1..size /\ p \in Stmt
      /\ ast' = WithKid(ast, p, at) /\ ast \in [Stmt -> Statement]
  BY Basics DEF FinishStatement, None, Root
<1> HIDE DEF p
<1>2. ast' = [ast EXCEPT ![p] = t]
  BY <1>1 DEF WithKid
<1>3. t.kids = q /\ t.kind = ast[p].kind /\ t.parent = ast[p].parent
  BY <1>1 DEF Statement
<1> HIDE DEF t, q
<1>4. ast'[p] = t /\ \A m \in Stmt : m # p => ast'[m] = ast[m]
  BY <1>1, <1>2
<1>5. \A m \in 1..size : m \in Stmt
  BY <1>1, Basics
<1>6. KeepsOthers(p)
  BY <1>1, <1>3, <1>4, <1>5 DEF KeepsOthers
<1> QED BY <1>1, <1>3, <1>4, <1>6 DEF p, q
------------------------------------------------------------------------------
\* Statements keep the order of the source, and those that are not read to
\* their end are the ones around "at".

\* What a child of a statement becomes when e is appended.
LEMMA KidsAppended ==
  ASSUME NEW q \in Seq(Stmt), NEW e \in Stmt
  PROVE  /\ Len(Append(q, e)) = Len(q) + 1 /\ Len(q) \in Nat
         /\ Append(q, e)[Len(q) + 1] = e
         /\ \A i \in 1..Len(q) : Append(q, e)[i] = q[i]
OBVIOUS

LEMMA ShapeOpened ==
  ASSUME TreeAndTypes, ShapeInv, OpenInv,
         NEW k \in Kind, NEW x \in HeadNames(k), OpenStatement(k, x)
  PROVE  ShapeInv' /\ OpenInv'
<1>0. PICK n \in Int : n = size + 1
  BY Basics
<1>1. /\ phase = "parse" /\ phase' = "parse" /\ ReadsStatement /\ k \notin LeafKind
      /\ at \in 1..size /\ at' = n /\ size' = n /\ n = size + 1 /\ size \in Nat
      /\ ast'[n].kind = k /\ ast'[n].kids = <<>> /\ ast'[n].parent = at
  BY <1>0, OpenedTree, Basics
<1>2. \A m \in 1..size : /\ ast'[m].kind = ast[m].kind /\ ast'[m].kids = ast[m].kids
                         /\ ast'[m].parent = ast[m].parent
  BY OpenedTree
<1>3. \A m \in 2..size : /\ Parent(m) \in 1..(m - 1) /\ Parent(m) \in 1..size
                         /\ KindOf(Parent(m)) \notin LeafKind
  BY Basics DEF TreeAndTypes, TreeInv
<1>4. \A m \in 1..size : \A i \in 1..Len(Kids(m)) : Kids(m)[i] \in 2..size /\ Len(Kids(m)) \in Nat
  BY Basics
<1>5. \A m \in 2..size : Joined(m)' <=> Joined(m)
  <2> SUFFICES ASSUME NEW m \in 2..size PROVE Joined(m)' <=> Joined(m)
    OBVIOUS
  <2>1. PICK p \in 1..size : p = Parent(m)
    BY <1>3
  <2>2. Parent(m)' = p /\ Kids(p)' = Kids(p)
    BY <1>2, <2>1 DEF Parent, Kids
  <2>3. IsKid(m, p)' <=> IsKid(m, p)
    BY <2>2 DEF IsKid
  <2> QED BY <2>1, <2>2, <2>3 DEF Joined
<1>6. PICK a \in 1..size : a = at
  BY <1>1
<1>7. \A m \in 2..size : m > at => Parent(m) >= at /\ Joined(m)
  BY <1>1 DEF OpenInv
<1>8. ShapeInv'
  <2>1. ASSUME NEW m \in 2..n, NEW o \in 2..n, m < o, ast'[o].parent < m
        PROVE  ast'[m].parent >= ast'[o].parent
    <3>1. m \in 2..size /\ ast'[m].parent = Parent(m)
      BY <1>1, <1>2, <2>1 DEF Parent
    <3>2. CASE o = n
      BY <1>1, <1>7, <2>1, <3>1, <3>2
    <3>3. CASE o # n
      <4>1. o \in 2..size /\ ast'[o].parent = Parent(o)
        BY <1>1, <1>2, <3>3 DEF Parent
      <4> QED BY <2>1, <3>1, <4>1 DEF ShapeInv
    <3> QED BY <3>2, <3>3
  <2>2. ASSUME NEW m \in 1..n, NEW i \in 1..Len(ast'[m].kids), NEW j \in 1..Len(ast'[m].kids), i < j
        PROVE  ast'[m].kids[i] < ast'[m].kids[j]
    <3>1. m # n
      BY <1>1, <2>2
    <3>2. m \in 1..size /\ ast'[m].kids = Kids(m)
      BY <1>1, <1>2, <3>1 DEF Kids
    <3> QED BY <2>2, <3>2 DEF ShapeInv
  <2>3. ASSUME NEW m \in 1..n, ast'[m].kind = "if" PROVE Len(ast'[m].kids) <= 2
    <3>1. CASE m = n
      BY <1>1, <3>1
    <3>2. CASE m # n
      <4>1. m \in OfKind("if") /\ ast'[m].kids = Kids(m)
        BY <1>1, <1>2, <2>3, <3>2 DEF Kids, OfKind
      <4> QED BY <4>1 DEF ShapeInv
    <3> QED BY <3>1, <3>2
  <2>4. ASSUME NEW m \in 1..n, ast'[m].kind = "declaration" PROVE ast'[ast'[m].parent].kind = "block"
    <3>1. m # n
      BY <1>1, <2>4 DEF LeafKind
    <3>2. m \in OfKind("declaration") /\ m \in 1..size /\ ast'[m].parent = Parent(m)
      BY <1>1, <1>2, <2>4, <3>1 DEF OfKind, Parent
    <3>3. KindOf(Parent(m)) = "block"
      BY <3>2 DEF ShapeInv
    <3>4. m # 1
      BY <1>1, <3>2 DEF TreeAndTypes, TreeInv, OfKind, KindOf, Root
    <3> QED BY <1>2, <1>3, <3>2, <3>3, <3>4 DEF KindOf
  <2>5. phase' \notin Walks
    BY <1>1 DEF Walks
  <2> QED BY <1>1, <2>1, <2>2, <2>3, <2>4, <2>5 DEF ShapeInv, Parent, Kids, KindOf, OfKind
<1>9. OpenInv'
  <2>1. ~Joined(n)'
    <3>1. Parent(n)' = a /\ Kids(a)' = Kids(a)
      BY <1>1, <1>2, <1>6 DEF Parent, Kids
    <3>2. ~IsKid(n, a)'
      BY <1>1, <1>4, <3>1 DEF IsKid
    <3> QED BY <3>1, <3>2 DEF Joined
  <2>2. ASSUME NEW m \in 2..n, NEW p, p = Parent(m)', ~Joined(m)', p # Root PROVE ~Joined(p)'
    <3>1. CASE m = n
      <4>1. at \in 2..size /\ ~Joined(at) /\ p = at
        BY <1>1, <2>2, <3>1 DEF OpenInv, Root, None, Parent
      <4> QED BY <1>5, <4>1
    <3>2. CASE m # n
      <4>1. m \in 2..size /\ ~Joined(m) /\ p = Parent(m)
        BY <1>1, <1>2, <1>5, <2>2, <3>2 DEF Parent
      <4>2. p \in 2..size /\ ~Joined(p)
        BY <1>1, <1>3, <2>2, <4>1 DEF OpenInv, Root
      <4> QED BY <1>5, <4>2
    <3> QED BY <3>1, <3>2
  <2>3. ASSUME NEW m \in 2..n, NEW o \in 2..n, ~Joined(m)', ~Joined(o)', m < o
        PROVE  m <= ast'[o].parent
    <3>1. m \in 2..size /\ ~Joined(m)
      BY <1>1, <1>5, <2>3
    <3>2. CASE o = n
      BY <1>1, <1>7, <3>1, <3>2
    <3>3. CASE o # n
      <4>1. o \in 2..size /\ ~Joined(o) /\ ast'[o].parent = Parent(o)
        BY <1>1, <1>2, <1>5, <2>3, <3>3 DEF Parent
      <4> QED BY <1>1, <2>3, <3>1, <4>1 DEF OpenInv
    <3> QED BY <3>2, <3>3
  <2>4. ASSUME NEW m \in 2..n, NEW p, p = Parent(m)', ~Joined(m)', ast'[p].kind = "if"
        PROVE  Len(ast'[p].kids) <= 1
    <3>1. CASE m = n
      <4>1. p = at /\ KindOf(at) = "if"
        BY <1>1, <1>2, <2>4, <3>1 DEF KindOf, Parent
      <4>2. Len(Kids(a)) <= 1
        <5>1. Kids(a) = <<>> \/ Len(Kids(a)) = 1
          BY <1>1, <1>6, <4>1 DEF ReadsStatement
        <5>2. CASE Len(Kids(a)) = 1
          BY <5>2
        <5>3. CASE Kids(a) = <<>>
          BY <5>3
        <5> QED BY <5>1, <5>2, <5>3
      <4>3. ast'[p].kids = Kids(a)
        BY <1>1, <1>2, <1>6, <4>1 DEF Kids
      <4> QED BY <4>2, <4>3
    <3>2. CASE m # n
      <4>1. m \in 2..size /\ ~Joined(m) /\ p = Parent(m)
        BY <1>1, <1>2, <1>5, <2>4, <3>2 DEF Parent
      <4>2. KindOf(p) = "if" /\ ast'[p].kids = Kids(p)
        BY <1>2, <1>3, <2>4, <4>1 DEF KindOf, Kids
      <4> QED BY <1>1, <4>1, <4>2 DEF OpenInv
    <3> QED BY <3>1, <3>2
  <2>5. (\A m \in 2..size : m > at => Parent(m) >= at /\ Joined(m))'
    BY <1>1
  <2>6. (at \notin {None, Root} => ~Joined(at))'
    BY <1>1, <2>1
  <2>7. (\A m \in 2..size : ~Joined(m) /\ Parent(m) # Root => ~Joined(Parent(m)))'
    BY <1>1, <2>2
  <2>8. (\A m, o \in 2..size : ~Joined(m) /\ ~Joined(o) /\ m < o => m <= Parent(o))'
    BY <1>1, <2>3 DEF Parent
  <2>9. (\A m \in 2..size : ~Joined(m) /\ KindOf(Parent(m)) = "if" => Len(Kids(Parent(m))) <= 1)'
    BY <1>1, <2>4 DEF KindOf, Kids
  <2> QED BY <2>5, <2>6, <2>7, <2>8, <2>9 DEF OpenInv
<1> QED BY <1>8, <1>9

LEMMA ShapeLeaf ==
  ASSUME TreeAndTypes, ShapeInv, OpenInv,
         NEW k \in Kind, NEW x \in HeadNames(k), LeafStatement(k, x)
  PROVE  ShapeInv' /\ OpenInv'
<1>0. PICK n \in Int : n = size + 1
  BY Basics
<1>1. /\ phase = "parse" /\ phase' = "parse" /\ ReadsStatement /\ ~IsMisplaced(k)
      /\ k \in LeafKind /\ n \in Stmt
      /\ at \in 1..size /\ at' = at /\ size' = n /\ n = size + 1 /\ size \in Nat
      /\ ast'[n].kind = k /\ ast'[n].kids = <<>> /\ ast'[n].parent = at
  BY <1>0, LeafTree, Basics
<1>2. \A m \in 1..size : /\ ast'[m].kind = ast[m].kind /\ ast'[m].parent = ast[m].parent
                         /\ m # at => ast'[m].kids = ast[m].kids
  <2>1. KeepsOthers(at)
    BY LeafTree
  <2> QED BY <2>1 DEF KeepsOthers
<1>3. \A m \in 2..size : /\ Parent(m) \in 1..(m - 1) /\ Parent(m) \in 1..size
                         /\ KindOf(Parent(m)) \notin LeafKind
  BY Basics DEF TreeAndTypes, TreeInv
<1>4. \A m \in 1..size : \A i \in 1..Len(Kids(m)) : Kids(m)[i] \in 2..size
  BY Basics
<1>5. PICK a \in 1..size : a = at
  BY <1>1
<1>6. \A m \in 2..size : m > a => Parent(m) >= a /\ Joined(m)
  BY <1>1, <1>5 DEF OpenInv
<1>7. /\ ast'[a].kids = Append(Kids(a), n) /\ Len(Kids(a)) \in Nat
      /\ Len(ast'[a].kids) = Len(Kids(a)) + 1 /\ ast'[a].kids[Len(Kids(a)) + 1] = n
      /\ \A i \in 1..Len(Kids(a)) : ast'[a].kids[i] = Kids(a)[i]
  <2>1. ast'[a].kids = Append(Kids(a), n)
    BY <1>0, <1>5, LeafTree DEF Kids
  <2>2. Kids(a) \in Seq(Stmt) /\ n \in Stmt
    BY <1>1, <1>5, Basics
  <2> QED BY <2>1, <2>2, KidsAppended
<1>8. \A m \in 2..size : Joined(m)' <=> Joined(m)
  <2> SUFFICES ASSUME NEW m \in 2..size PROVE Joined(m)' <=> Joined(m)
    OBVIOUS
  <2>1. PICK p \in 1..size : p = Parent(m)
    BY <1>3
  <2>2. Parent(m)' = p
    BY <1>2, <2>1 DEF Parent
  <2>3. CASE p = a
    <3>1. ASSUME IsKid(m, p) PROVE IsKid(m, p)'
      <4>1. PICK i \in 1..Len(Kids(a)) : Kids(a)[i] = m
        BY <2>3, <3>1 DEF IsKid
      <4>2. i \in 1..Len(ast'[a].kids) /\ ast'[a].kids[i] = m
        BY <1>7, <4>1
      <4> QED BY <2>3, <4>2 DEF IsKid, Kids
    <3>2. ASSUME IsKid(m, p)' PROVE IsKid(m, p)
      <4>1. PICK i \in 1..Len(ast'[a].kids) : ast'[a].kids[i] = m
        BY <2>3, <3>2 DEF IsKid, Kids
      <4>2. i \in 1..Len(Kids(a)) /\ Kids(a)[i] = m
        BY <1>1, <1>7, <4>1
      <4> QED BY <2>3, <4>2 DEF IsKid
    <3> QED BY <2>1, <2>2, <3>1, <3>2 DEF Joined
  <2>4. CASE p # a
    <3>1. IsKid(m, p)' <=> IsKid(m, p)
      BY <1>2, <1>5, <2>4 DEF IsKid, Kids
    <3> QED BY <2>1, <2>2, <3>1 DEF Joined
  <2> QED BY <2>3, <2>4
<1>9. Joined(n)'
  <2>1. Parent(n)' = a
    BY <1>1, <1>5 DEF Parent
  <2>2. Len(Kids(a)) + 1 \in 1..Len(ast'[a].kids)
    BY <1>7
  <2>3. IsKid(n, a)'
    BY <1>7, <2>2 DEF IsKid, Kids
  <2> QED BY <2>1, <2>3 DEF Joined
<1>10. KindOf(a) \notin LeafKind
  BY <1>1, <1>5 DEF TreeAndTypes, TreeInv, None
<1>11. ShapeInv'
  <2>1. ASSUME NEW m \in 2..n, NEW o \in 2..n, m < o, ast'[o].parent < m
        PROVE  ast'[m].parent >= ast'[o].parent
    <3>1. m \in 2..size /\ ast'[m].parent = Parent(m)
      BY <1>1, <1>2, <2>1 DEF Parent
    <3>2. CASE o = n
      BY <1>1, <1>5, <1>6, <2>1, <3>1, <3>2
    <3>3. CASE o # n
      <4>1. o \in 2..size /\ ast'[o].parent = Parent(o)
        BY <1>1, <1>2, <3>3 DEF Parent
      <4> QED BY <2>1, <3>1, <4>1 DEF ShapeInv
    <3> QED BY <3>2, <3>3
  <2>2. ASSUME NEW m \in 1..n, NEW i \in 1..Len(ast'[m].kids), NEW j \in 1..Len(ast'[m].kids), i < j
        PROVE  ast'[m].kids[i] < ast'[m].kids[j]
    <3>1. m # n
      BY <1>1, <2>2
    <3>2. CASE m = a
      <4>1. i \in 1..Len(Kids(a)) /\ ast'[m].kids[i] = Kids(a)[i] /\ Kids(a)[i] \in 2..size
        BY <1>4, <1>7, <2>2, <3>2, SMTT(20)
      <4>2. CASE j = Len(Kids(a)) + 1
        BY <1>1, <1>7, <3>2, <4>1, <4>2
      <4>3. CASE j # Len(Kids(a)) + 1
        <5>1. j \in 1..Len(Kids(a)) /\ ast'[m].kids[j] = Kids(a)[j]
          BY <1>7, <2>2, <3>2, <4>3
        <5> QED BY <2>2, <4>1, <5>1 DEF ShapeInv
      <4> QED BY <4>2, <4>3
    <3>3. CASE m # a
      <4>1. m \in 1..size /\ ast'[m].kids = Kids(m)
        BY <1>1, <1>2, <1>5, <3>1, <3>3 DEF Kids
      <4> QED BY <2>2, <4>1 DEF ShapeInv
    <3> QED BY <3>2, <3>3
  <2>3. ASSUME NEW m \in 1..n, ast'[m].kind = "if" PROVE Len(ast'[m].kids) <= 2
    <3>1. m # n
      BY <1>1, <2>3 DEF LeafKind
    <3>2. CASE m = a
      <4>1. KindOf(a) = "if"
        BY <1>2, <2>3, <3>2 DEF KindOf
      <4>2. Len(Kids(a)) <= 1
        <5>1. Kids(a) = <<>> \/ Len(Kids(a)) = 1
          BY <1>1, <1>5, <4>1 DEF ReadsStatement
        <5>2. Len(<<>>) = 0
          OBVIOUS
        <5> QED BY <5>1, <5>2
      <4> QED BY <1>7, <3>2, <4>2
    <3>3. CASE m # a
      <4>1. m \in OfKind("if") /\ ast'[m].kids = Kids(m)
        BY <1>1, <1>2, <1>5, <2>3, <3>1, <3>3 DEF Kids, OfKind
      <4> QED BY <4>1 DEF ShapeInv
    <3> QED BY <3>2, <3>3
  <2>4. ASSUME NEW m \in 1..n, NEW p, p = ast'[m].parent, ast'[m].kind = "declaration"
        PROVE  ast'[p].kind = "block"
    <3>1. CASE m = n
      <4>1. KindOf(a) \notin BranchKind /\ KindOf(a) \in Kind
        <5>1. ast[a] \in Statement
          BY <1>5, Basics
        <5> QED BY <1>1, <1>5, <2>4, <3>1, <5>1 DEF IsMisplaced, KindOf, Statement
      <4>2. KindOf(a) = "block"
        BY <1>10, <4>1 DEF Kind
      <4> QED BY <1>1, <1>2, <1>5, <2>4, <3>1, <4>2 DEF KindOf
    <3>2. CASE m # n
      <4>1. m \in OfKind("declaration") /\ m \in 1..size /\ p = Parent(m)
        BY <1>1, <1>2, <2>4, <3>2 DEF OfKind, Parent
      <4>2. KindOf(p) = "block"
        BY <4>1 DEF ShapeInv
      <4>3. m # 1
        BY <1>1, <4>1 DEF TreeAndTypes, TreeInv, OfKind, KindOf, Root
      <4> QED BY <1>2, <1>3, <4>1, <4>2, <4>3 DEF KindOf
    <3> QED BY <3>1, <3>2
  <2>5. phase' \notin Walks
    BY <1>1 DEF Walks
  <2> QED BY <1>1, <2>1, <2>2, <2>3, <2>4, <2>5 DEF ShapeInv, Parent, Kids, KindOf, OfKind
<1>12. OpenInv'
  <2>1. (\A m \in 2..size : m > at => Parent(m) >= at /\ Joined(m))'
    <3> SUFFICES ASSUME NEW m \in 2..n, m > a PROVE ast'[m].parent >= a /\ Joined(m)'
      BY <1>1, <1>5 DEF Parent
    <3>1. CASE m = n
      BY <1>1, <1>5, <1>9, <3>1
    <3>2. CASE m # n
      BY <1>1, <1>2, <1>8, <1>6, <3>2 DEF Parent
    <3> QED BY <3>1, <3>2
  <2>2. (at \notin {None, Root} => ~Joined(at))'
    <3>1. a # Root => ~Joined(a) /\ a \in 2..size
      BY <1>1, <1>5 DEF OpenInv, None, Root
    <3> QED BY <1>1, <1>8, <1>5, <3>1 DEF None
  <2>3. \A m \in 2..n : ~Joined(m)' => m \in 2..size /\ ~Joined(m) /\ ast'[m].parent = Parent(m)
    BY <1>1, <1>2, <1>8, <1>9 DEF Parent
  <2>4. ASSUME NEW m \in 2..n, NEW p, p = Parent(m)', ~Joined(m)', p # Root PROVE ~Joined(p)'
    <3>1. p = Parent(m) /\ m \in 2..size /\ ~Joined(m)
      BY <2>3, <2>4 DEF Parent
    <3>2. p \in 2..size /\ ~Joined(p)
      BY <1>1, <1>3, <2>4, <3>1 DEF OpenInv, Root
    <3> QED BY <1>8, <3>2
  <2>5. ASSUME NEW m \in 2..n, NEW o \in 2..n, ~Joined(m)', ~Joined(o)', m < o
        PROVE  m <= ast'[o].parent
    BY <1>1, <2>3, <2>5 DEF OpenInv
  <2>6. ASSUME NEW m \in 2..n, NEW p, p = Parent(m)', ~Joined(m)', ast'[p].kind = "if"
        PROVE  Len(ast'[p].kids) <= 1
    <3>1. p = Parent(m) /\ m \in 2..size /\ ~Joined(m) /\ p \in 1..size /\ m > p
      BY <1>3, <2>3, <2>6 DEF Parent
    <3>2. p # a
      BY <1>6, <3>1
    <3>3. KindOf(p) = "if" /\ ast'[p].kids = Kids(p)
      BY <1>2, <1>5, <2>6, <3>1, <3>2 DEF KindOf, Kids
    <3> QED BY <1>1, <3>1, <3>3 DEF OpenInv
  <2>7. (\A m \in 2..size : ~Joined(m) /\ Parent(m) # Root => ~Joined(Parent(m)))'
    BY <1>1, <2>4
  <2>8. (\A m, o \in 2..size : ~Joined(m) /\ ~Joined(o) /\ m < o => m <= Parent(o))'
    BY <1>1, <2>5 DEF Parent
  <2>9. (\A m \in 2..size : ~Joined(m) /\ KindOf(Parent(m)) = "if" => Len(Kids(Parent(m))) <= 1)'
    BY <1>1, <2>6 DEF KindOf, Kids
  <2> QED BY <2>1, <2>2, <2>7, <2>8, <2>9 DEF OpenInv
<1> QED BY <1>11, <1>12

LEMMA ShapeFinished ==
  ASSUME TreeAndTypes, ShapeInv, OpenInv, FinishStatement
  PROVE  ShapeInv' /\ OpenInv'
<1>0. PICK a \in 2..size : a = at
  BY FinishedTree
<1>1. PICK p \in 1..size : p = Parent(a)
  BY Basics
<1>2. /\ phase = "parse" /\ phase' = "parse" /\ at' = p /\ size' = size /\ size \in Nat
      /\ p < a /\ a \in Stmt /\ a \in 1..size
  BY <1>0, <1>1, FinishedTree, Basics
<1>3. \A m \in 1..size : /\ ast'[m].kind = ast[m].kind /\ ast'[m].parent = ast[m].parent
                         /\ m # p => ast'[m].kids = ast[m].kids
  <2>1. KeepsOthers(p)
    BY <1>0, <1>1, FinishedTree
  <2> QED BY <2>1 DEF KeepsOthers
<1>4. /\ Len(Kids(p)) \in Nat /\ Len(ast'[p].kids) = Len(Kids(p)) + 1
      /\ ast'[p].kids[Len(Kids(p)) + 1] = a
      /\ \A i \in 1..Len(Kids(p)) : ast'[p].kids[i] = Kids(p)[i]
  <2>1. ast'[p].kids = Append(Kids(p), a)
    BY <1>0, <1>1, FinishedTree DEF Kids
  <2>2. Kids(p) \in Seq(Stmt) /\ a \in Stmt
    BY <1>1, <1>2, Basics
  <2> QED BY <2>1, <2>2, KidsAppended
<1>5. \A m \in 1..size : \A i \in 1..Len(Kids(m)) : Kids(m)[i] \in 2..size /\ Parent(Kids(m)[i]) = m
  BY Basics
<1>6. \A m \in 2..size : Parent(m) \in 1..(m - 1) /\ Parent(m) \in 1..size /\ Parent(m)' = Parent(m)
  BY <1>3, Basics DEF Parent
<1>7. /\ \A m \in 2..size : m > a => Parent(m) >= a /\ Joined(m)
      /\ ~Joined(a)
      /\ \A m \in 2..size : ~Joined(m) /\ Parent(m) # Root => ~Joined(Parent(m))
      /\ \A m, o \in 2..size : ~Joined(m) /\ ~Joined(o) /\ m < o => m <= Parent(o)
      /\ \A m \in 2..size : ~Joined(m) /\ KindOf(Parent(m)) = "if" => Len(Kids(Parent(m))) <= 1
  BY <1>0, <1>2 DEF OpenInv, None, Root
<1>8. \A m \in 2..size : Joined(m)' <=> Joined(m) \/ m = a
  <2> SUFFICES ASSUME NEW m \in 2..size PROVE Joined(m)' <=> Joined(m) \/ m = a
    OBVIOUS
  <2>1. PICK q \in 1..size : q = Parent(m) /\ Parent(m)' = q
    BY <1>6
  <2>2. CASE q = p
    <3>1. ASSUME IsKid(m, p) PROVE IsKid(m, p)'
      <4>1. PICK i \in 1..Len(Kids(p)) : Kids(p)[i] = m
        BY <3>1 DEF IsKid
      <4>2. i \in 1..Len(ast'[p].kids) /\ ast'[p].kids[i] = m
        BY <1>4, <4>1
      <4> QED BY <4>2 DEF IsKid, Kids
    <3>2. ASSUME IsKid(m, p)' PROVE IsKid(m, p) \/ m = a
      <4>1. PICK i \in 1..Len(ast'[p].kids) : ast'[p].kids[i] = m
        BY <3>2 DEF IsKid, Kids
      <4>2. m = a \/ (i \in 1..Len(Kids(p)) /\ Kids(p)[i] = m)
        BY <1>4, <4>1
      <4> QED BY <4>2 DEF IsKid
    <3>3. IsKid(a, p)'
      <4>1. Len(Kids(p)) + 1 \in 1..Len(ast'[p].kids)
        BY <1>4
      <4> QED BY <1>4, <4>1 DEF IsKid, Kids
    <3> QED BY <2>1, <2>2, <3>1, <3>2, <3>3 DEF Joined
  <2>3. CASE q # p
    <3>1. IsKid(m, q)' <=> IsKid(m, q)
      BY <1>3, <2>3 DEF IsKid, Kids
    <3>2. m # a
      BY <1>1, <2>1, <2>3
    <3> QED BY <2>1, <3>1, <3>2 DEF Joined
  <2> QED BY <2>2, <2>3
<1>9. \A m \in 2..size : m > p => Parent(m) >= p /\ Joined(m)'
  <2> SUFFICES ASSUME NEW m \in 2..size, m > p PROVE Parent(m) >= p /\ Joined(m)'
    OBVIOUS
  <2>1. CASE m > a
    BY <1>2, <1>6, <1>7, <1>8, <2>1
  <2>2. CASE m = a
    BY <1>1, <1>2, <1>8, <2>2
  <2>3. CASE m < a
    <3>1. Parent(m) >= p
      BY <1>1, <2>3 DEF ShapeInv
    <3>2. Joined(m)
      BY <1>1, <1>2, <1>7, <2>3
    <3> QED BY <1>8, <3>1, <3>2
  <2> QED BY <1>2, <2>1, <2>2, <2>3
<1>10. ShapeInv'
  <2>1. ASSUME NEW m \in 2..size, NEW o \in 2..size, m < o, ast'[o].parent < m
        PROVE  ast'[m].parent >= ast'[o].parent
    BY <1>6, <2>1 DEF ShapeInv, Parent
  <2>2. ASSUME NEW m \in 1..size, NEW i \in 1..Len(ast'[m].kids), NEW j \in 1..Len(ast'[m].kids), i < j
        PROVE  ast'[m].kids[i] < ast'[m].kids[j]
    <3>1. CASE m = p
      <4>1. i \in 1..Len(Kids(p)) /\ ast'[m].kids[i] = Kids(p)[i]
        BY <1>4, <2>2, <3>1
      <4>2. CASE j = Len(Kids(p)) + 1
        <5>1. PICK k \in 2..size : k = Kids(p)[i] /\ Parent(k) = p
          BY <1>5, <4>1
        <5>2. IsKid(k, p) /\ Joined(k)
          BY <4>1, <5>1 DEF IsKid, Joined
        <5>3. k < a
          BY <1>2, <1>7, <5>1, <5>2
        <5> QED BY <1>4, <3>1, <4>1, <4>2, <5>1, <5>3
      <4>3. CASE j # Len(Kids(p)) + 1
        <5>1. j \in 1..Len(Kids(p)) /\ ast'[m].kids[j] = Kids(p)[j]
          BY <1>4, <2>2, <3>1, <4>3
        <5> QED BY <2>2, <4>1, <5>1 DEF ShapeInv
      <4> QED BY <4>2, <4>3
    <3>2. CASE m # p
      <4>1. ast'[m].kids = Kids(m)
        BY <1>3, <3>2 DEF Kids
      <4> QED BY <2>2, <4>1 DEF ShapeInv
    <3> QED BY <3>1, <3>2
  <2>3. ASSUME NEW m \in 1..size, ast'[m].kind = "if" PROVE Len(ast'[m].kids) <= 2
    <3>1. CASE m = p
      <4>1. KindOf(Parent(a)) = "if"
        BY <1>1, <1>3, <2>3, <3>1 DEF KindOf
      <4>2. Len(Kids(p)) <= 1
        BY <1>1, <1>7, <4>1
      <4> QED BY <1>4, <3>1, <4>2
    <3>2. CASE m # p
      <4>1. m \in OfKind("if") /\ ast'[m].kids = Kids(m)
        BY <1>3, <2>3, <3>2 DEF Kids, OfKind
      <4> QED BY <4>1 DEF ShapeInv
    <3> QED BY <3>1, <3>2
  <2>4. ASSUME NEW m \in 1..size, NEW q, q = ast'[m].parent, ast'[m].kind = "declaration"
        PROVE  ast'[q].kind = "block"
    <3>1. m \in OfKind("declaration") /\ q = Parent(m)
      BY <1>3, <2>4 DEF OfKind, Parent
    <3>2. KindOf(q) = "block"
      BY <3>1 DEF ShapeInv
    <3>3. m # 1
      BY <1>2, <3>1 DEF TreeAndTypes, TreeInv, OfKind, KindOf, Root
    <3> QED BY <1>3, <1>6, <3>1, <3>2, <3>3 DEF KindOf
  <2>5. phase' \notin Walks
    BY <1>2 DEF Walks
  <2> QED BY <1>2, <2>1, <2>2, <2>3, <2>4, <2>5 DEF ShapeInv, Parent, Kids, KindOf, OfKind
<1>11. OpenInv'
  <2>0. \A m \in 2..size : ~Joined(m)' => ~Joined(m) /\ m # a /\ m <= p
    BY <1>2, <1>8, <1>9
  <2>1. (\A m \in 2..size : m > at => Parent(m) >= at /\ Joined(m))'
    BY <1>2, <1>6, <1>9
  <2>2. (at \notin {None, Root} => ~Joined(at))'
    <3>1. p # Root => ~Joined(p) /\ p \in 2..size /\ p # a
      BY <1>1, <1>2, <1>7 DEF Root
    <3> QED BY <1>2, <1>8, <3>1 DEF None
  <2>3. ASSUME NEW m \in 2..size, NEW q, q = Parent(m)', ~Joined(m)', q # Root PROVE ~Joined(q)'
    <3>1. q = Parent(m) /\ ~Joined(m) /\ m <= p /\ q \in 1..(m - 1) /\ q \in 2..size
      BY <1>2, <1>6, <2>0, <2>3 DEF Root
    <3>2. ~Joined(q) /\ q # a
      BY <1>2, <1>7, <2>3, <3>1
    <3> QED BY <1>8, <3>1, <3>2
  <2>4. (\A m, o \in 2..size : ~Joined(m) /\ ~Joined(o) /\ m < o => m <= Parent(o))'
    BY <1>2, <1>6, <1>7, <2>0
  <2>5. ASSUME NEW m \in 2..size, NEW q, q = Parent(m)', ~Joined(m)', ast'[q].kind = "if"
        PROVE  Len(ast'[q].kids) <= 1
    <3>1. q = Parent(m) /\ ~Joined(m) /\ m <= p /\ q \in 1..(m - 1) /\ q \in 1..size
      BY <1>6, <2>0, <2>5
    <3>2. q # p
      BY <3>1
    <3>3. KindOf(q) = "if" /\ ast'[q].kids = Kids(q)
      BY <1>3, <2>5, <3>1, <3>2 DEF KindOf, Kids
    <3> QED BY <1>7, <3>1, <3>3
  <2>6. (\A m \in 2..size : ~Joined(m) /\ Parent(m) # Root => ~Joined(Parent(m)))'
    BY <1>2, <2>3
  <2>7. (\A m \in 2..size : ~Joined(m) /\ KindOf(Parent(m)) = "if" => Len(Kids(Parent(m))) <= 1)'
    BY <1>2, <2>5 DEF KindOf, Kids
  <2> QED BY <2>1, <2>2, <2>4, <2>6, <2>7 DEF OpenInv
<1> QED BY <1>10, <1>11

\* Steps that leave the tree alone.
LEMMA ShapeKept ==
  ASSUME ShapeInv, OpenInv, UNCHANGED <<ast, size>>,
         phase' \in Walks => phase \in Walks,
         phase' = "parse" => phase = "parse" /\ at' = at
  PROVE  ShapeInv' /\ OpenInv'
<1>1. /\ \A n : Parent(n)' = Parent(n) /\ Kids(n)' = Kids(n) /\ KindOf(n)' = KindOf(n)
      /\ \A k : OfKind(k)' = OfKind(k)
  BY DEF Parent, Kids, KindOf, OfKind
<1>2. \A n : Joined(n)' <=> Joined(n)
  BY DEF Joined, IsKid, Kids, Parent
<1>3. ShapeInv'
  BY <1>1, <1>2 DEF ShapeInv
<1>4. OpenInv'
  BY <1>1, <1>2 DEF OpenInv
<1> QED BY <1>3, <1>4

LEMMA ShapeStep ==
  ASSUME TreeAndTypes, ShapeInv, OpenInv, [Next]_vars_
  PROVE  ShapeInv' /\ OpenInv'
<1>1. CASE StartBody
  <2>1. size' = 1 /\ at' = 1 /\ phase' = "parse" /\ ast'[1].kind = "block" /\ ast'[1].kids = <<>>
    <3>1. ast \in [Stmt -> Statement] /\ 1 \in Stmt
      BY Basics, AstAssumption DEF Stmt
    <3> QED BY <1>1, <3>1 DEF StartBody, NewStatement, Root
  <2>2. Kids(1)' = <<>> /\ KindOf(1)' = "block"
    BY <2>1 DEF Kids, KindOf
  <2>3. OfKind("if")' = {} /\ OfKind("declaration")' = {}
    BY <2>1 DEF OfKind
  <2>4. ShapeInv'
    BY <2>1, <2>2, <2>3 DEF ShapeInv, Walks
  <2>5. OpenInv'
    BY <2>1 DEF OpenInv, Root
  <2> QED BY <2>4, <2>5
<1>2. CASE \E k \in SourceKinds : \E x \in HeadNames(k) :
             OpenStatement(k, x) \/ LeafStatement(k, x) \/ RefuseStatement(k, x)
  <2>1. PICK k \in SourceKinds : \E x \in HeadNames(k) :
          OpenStatement(k, x) \/ LeafStatement(k, x) \/ RefuseStatement(k, x)
    BY <1>2
  <2>2. PICK x \in HeadNames(k) :
          OpenStatement(k, x) \/ LeafStatement(k, x) \/ RefuseStatement(k, x)
    BY <2>1
  <2>3. k \in Kind
    BY AstAssumption
  <2>4. CASE RefuseStatement(k, x)
    BY <2>4, ShapeKept DEF RefuseStatement, Reject, Walks
  <2> QED BY <2>2, <2>3, <2>4, ShapeOpened, ShapeLeaf
<1>3. CASE SyntaxError
  BY <1>3, ShapeKept DEF SyntaxError, Reject, Walks
<1>4. CASE FinishStatement
  BY <1>4, ShapeFinished
<1>5. CASE FinishBody
  <2>1. /\ phase = "parse" /\ phase' = "typecheck" /\ at = 1 /\ UNCHANGED <<ast, size>>
    BY <1>5 DEF FinishBody, Root
  <2>2. \A m \in 2..size : Joined(m)
    BY <2>1, Basics DEF OpenInv
  <2>3. /\ \A n : Parent(n)' = Parent(n) /\ Kids(n)' = Kids(n) /\ KindOf(n)' = KindOf(n)
        /\ \A k : OfKind(k)' = OfKind(k)
    BY <2>1 DEF Parent, Kids, KindOf, OfKind
  <2>4. \A n : Joined(n)' <=> Joined(n)
    BY <2>1 DEF Joined, IsKid, Kids, Parent
  <2> QED BY <2>1, <2>2, <2>3, <2>4 DEF ShapeInv, OpenInv
<1>6. CASE Typecheck
  <2>1. phase = "typecheck" /\ phase' # "parse" /\ UNCHANGED <<ast, size>>
    BY <1>6 DEF Typecheck, Checks, CheckBlock, CheckCondition, CheckLabeled, CheckChild,
       LeaveChecked, CheckDeclaration, CheckExpression, CheckJump, RejectStatement,
       FinishTypecheck, CheckedLeaf, Reject
  <2> QED BY <2>1, ShapeKept DEF Walks
<1>7. CASE Compile
  <2>1. phase = "compile" /\ phase' # "parse" /\ UNCHANGED <<ast, size>>
    BY <1>7 DEF Compile, Generates, CompileFunction, CompileScope, CompileCondition,
       CompileChild, LeaveCompiled, CompileDeclaration, CompileExpression, CompileEmpty,
       CompileJump, Jump, FinishFunction, AfterEvaluation
  <2> QED BY <2>1, ShapeKept DEF Walks
<1>8. CASE UNCHANGED vars_
  BY <1>8, ShapeKept DEF vars_, parserVars
<1> QED BY <1>1, <1>2, <1>3, <1>4, <1>5, <1>6, <1>7, <1>8 DEF Next, Parse
------------------------------------------------------------------------------
(***************************************************************************)
(* What a step of a pass does to the activations: it enters the handler of *)
(* "at", calls that of a child, or leaves the one of "at".                 *)
(***************************************************************************)
Enters == Entering /\ Run /\ at' = at /\ KindOf(at) \notin LeafKind
Calls ==
  /\ Resuming /\ status' = status
  /\ \E i \in 1..Len(Kids(at)) : ~Called(Kids(at)[i]) /\ at' = Kids(at)[i]
Leaves ==
  /\ at \notin {None, Root} /\ Return
  /\ (Entering /\ KindOf(at) \in LeafKind) \/ (Resuming /\ AllCalled(Kids(at)))

LEMMA CheckKinds ==
  ASSUME TreeAndTypes, Typecheck
  PROVE  /\ phase = "typecheck" /\ at # None /\ UNCHANGED <<ast, size>>
         /\ \/ phase' = "typecheck" /\ (Enters \/ (Calls /\ CheckChild) \/ Leaves)
            \/ phase' = "compile" /\ status' = AllUncalled /\ at' = Root /\ at = Root
               /\ Resuming /\ AllCalled(Kids(Root))
            \/ phase' = "rejected"
<1>1. CASE CheckBlock \/ CheckCondition \/ CheckLabeled
  BY <1>1 DEF CheckBlock, CheckCondition, CheckLabeled, Checks, Enters, LeafKind
<1>2. CASE CheckChild
  BY <1>2 DEF CheckChild, Calls
<1>3. CASE LeaveChecked
  BY <1>3 DEF LeaveChecked, Leaves
<1>4. CASE CheckDeclaration \/ CheckExpression \/ CheckJump
  <2>1. /\ phase = "typecheck" /\ phase' = phase /\ at # None /\ UNCHANGED <<ast, size>>
        /\ Entering /\ Return /\ KindOf(at) \in LeafKind
    BY <1>4 DEF CheckDeclaration, CheckExpression, CheckJump, Checks, CheckedLeaf, LeafKind
  <2>2. at \notin {None, Root}
    BY <2>1, InnerStatement DEF LeafKind
  <2> QED BY <2>1, <2>2 DEF Leaves
<1>5. CASE RejectStatement
  BY <1>5 DEF RejectStatement, Checks, Reject
<1>6. CASE FinishTypecheck
  BY <1>6 DEF FinishTypecheck, Root, None
<1> QED BY <1>1, <1>2, <1>3, <1>4, <1>5, <1>6 DEF Typecheck

LEMMA CompileKinds ==
  ASSUME TreeAndTypes, Compile
  PROVE  /\ phase = "compile" /\ at # None /\ UNCHANGED <<ast, size>>
         /\ phase' \in {"compile"} \cup Ends
         /\ \/ Enters \/ (Calls /\ CompileChild) \/ Leaves
            \/ phase' = "compiled" /\ UNCHANGED <<at, status>> /\ at = Root
               /\ Resuming /\ AllCalled(Kids(Root))
<1>0. CASE CompileFunction
  BY <1>0 DEF CompileFunction, Generates, Enters, LeafKind
<1>1. CASE CompileScope
  BY <1>1 DEF CompileScope, Generates, Enters, LeafKind, Ends
<1>2. CASE CompileCondition
  BY <1>2 DEF CompileCondition, Generates, Enters, LeafKind, Ends, AfterEvaluation
<1>3. CASE CompileChild
  BY <1>3 DEF CompileChild, Calls
<1>4. CASE LeaveCompiled
  BY <1>4 DEF LeaveCompiled, Leaves
<1>5. CASE CompileDeclaration \/ CompileExpression \/ CompileEmpty \/ CompileJump
  <2>1. /\ phase = "compile" /\ phase' \in {"compile"} \cup Ends /\ at # None
        /\ UNCHANGED <<ast, size>> /\ Entering /\ Return /\ KindOf(at) \in LeafKind
    <3>1. CASE CompileDeclaration \/ CompileExpression \/ CompileEmpty
      BY <1>5, <3>1 DEF CompileDeclaration, CompileExpression, CompileEmpty, Generates, Ends,
         AfterEvaluation, LeafKind
    <3>2. CASE CompileJump
      BY <3>2 DEF CompileJump, Jump, Generates, Ends, AfterEvaluation, LeafKind
    <3> QED BY <1>5, <3>1, <3>2
  <2>2. at \notin {None, Root}
    BY <2>1, InnerStatement DEF LeafKind
  <2> QED BY <2>1, <2>2 DEF Leaves
<1>6. CASE FinishFunction
  BY <1>6 DEF FinishFunction, Root, None, Ends
<1> QED BY <1>0, <1>1, <1>2, <1>3, <1>4, <1>5, <1>6 DEF Compile

\* What PathInv says of a pass.
OnPath ==
  /\ at # Root => IsRunning(Parent(at))
  /\ \A n \in 2..size : IsRunning(n) => IsRunning(Parent(n))
  /\ \A n \in 1..size : IsRunning(n) => n <= at /\ KindOf(n) \notin LeafKind
  /\ \A m, n \in 1..size : IsRunning(m) /\ IsActive(n) /\ m < n => m <= Parent(n)
  /\ \A n \in 1..size : status[n] = "returned" =>
       \A i \in 1..Len(Kids(n)) : status[Kids(n)[i]] = "returned"
  /\ status[Root] # "returned"

LEMMA PathFresh ==
  ASSUME TreeAndTypes', (status = AllUncalled /\ at = Root)'
  PROVE  OnPath'
<1>1. \A n \in 1..size' : status'[n] = "uncalled" /\ n <= MaxStatements
  BY AstAssumption DEF TreeAndTypes, TypeOK, ParserTypeOK, AllUncalled, Stmt
<1>2. status'[1] = "uncalled"
  BY AstAssumption DEF AllUncalled, Stmt
<1>3. \A n \in 2..size' : n \in 1..size'
  BY DEF TreeAndTypes, TypeOK, ParserTypeOK
<1> QED BY <1>1, <1>2, <1>3 DEF OnPath, IsRunning, IsActive, Root

LEMMA PathEntered ==
  ASSUME TreeAndTypes, OnPath, at # None, Enters, UNCHANGED <<ast, size>>
  PROVE  OnPath'
<1>0. PICK a \in 1..size : a = at
  BY Basics DEF None
<1>1. /\ at' = a /\ size' = size /\ status[a] = "uncalled" /\ status'[a] = "running"
      /\ \A n \in 1..size : n # a => status'[n] = status[n]
  BY <1>0, Basics DEF Enters, Entering, Run
<1>2. \A n : Parent(n)' = Parent(n) /\ Kids(n)' = Kids(n) /\ KindOf(n)' = KindOf(n)
  BY DEF Parent, Kids, KindOf
<1>3. /\ size \in Nat
      /\ \A n \in 2..size : Parent(n) \in 1..(n - 1) /\ Parent(n) \in 1..size
      /\ \A n \in 1..size : \A i \in 1..Len(Kids(n)) : Kids(n)[i] \in 2..size
  BY Basics
<1> USE DEF OnPath, IsRunning, IsActive, Root
<1>4. a # Root => status'[Parent(a)] = "running"
  BY <1>0, <1>1, <1>3
<1>5. ASSUME NEW n \in 2..size, status'[n] = "running" PROVE status'[Parent(n)] = "running"
  <2>1. CASE n = a
    BY <1>4, <2>1
  <2>2. CASE n # a
    <3>1. n \in 1..size /\ status[n] = "running"
      BY <1>1, <1>3, <1>5, <2>2
    <3>2. status[Parent(n)] = "running" /\ Parent(n) \in 1..size
      BY <1>3, <3>1
    <3> QED BY <1>1, <3>2
  <2> QED BY <2>1, <2>2
<1>6. ASSUME NEW n \in 1..size, status'[n] = "running"
      PROVE  n <= a /\ KindOf(n) \notin LeafKind
  <2>1. CASE n = a
    BY <1>0, <1>3, <2>1 DEF Enters
  <2>2. CASE n # a
    BY <1>0, <1>1, <1>6, <2>2
  <2> QED BY <2>1, <2>2
<1>7. ASSUME NEW m \in 1..size, NEW n \in 1..size, status'[m] = "running",
             status'[n] = "running" \/ n = a, m < n
      PROVE  m <= Parent(n)
  <2>1. n <= a
    BY <1>6, <1>7
  <2>2. m # a
    BY <1>3, <1>7, <2>1
  <2>3. status[m] = "running" /\ (status[n] = "running" \/ n = at)
    BY <1>0, <1>1, <1>7, <2>2
  <2> QED BY <1>7, <2>3
<1>8. ASSUME NEW n \in 1..size, status'[n] = "returned", NEW i \in 1..Len(Kids(n))
      PROVE  status'[Kids(n)[i]] = "returned"
  <2>1. status[n] = "returned"
    BY <1>1, <1>8
  <2>2. status[Kids(n)[i]] = "returned" /\ Kids(n)[i] \in 1..size
    BY <1>3, <1>8, <2>1
  <2> QED BY <1>1, <2>2
<1>9. status'[Root] # "returned"
  BY <1>1, <1>3
<1> QED BY <1>1, <1>2, <1>4, <1>5, <1>6, <1>7, <1>8, <1>9

LEMMA PathCalled ==
  ASSUME TreeAndTypes, OnPath, at # None, Calls, UNCHANGED <<ast, size>>
  PROVE  OnPath'
<1>0. PICK a \in 1..size : a = at
  BY Basics DEF None
<1>1. PICK k \in 2..size : at' = k /\ Parent(k) = a /\ a < k
  BY <1>0, Basics DEF Calls
<1>2. /\ size' = size /\ status' = status /\ status[a] = "running"
      /\ \A n : Parent(n)' = Parent(n) /\ Kids(n)' = Kids(n) /\ KindOf(n)' = KindOf(n)
  BY <1>0 DEF Calls, Resuming, Parent, Kids, KindOf
<1>3. size \in Nat
  BY Basics
<1>4. ASSUME NEW m \in 1..size, NEW n \in 1..size, status[m] = "running",
             status[n] = "running" \/ n = k, m < n
      PROVE  m <= Parent(n)
  BY <1>0, <1>1, <1>4 DEF OnPath, IsRunning, IsActive
<1>5. \A n \in 1..size : status[n] = "running" => n <= k /\ KindOf(n) \notin LeafKind
  BY <1>0, <1>1, <1>3 DEF OnPath, IsRunning
<1> QED BY <1>1, <1>2, <1>4, <1>5 DEF OnPath, IsRunning, IsActive

LEMMA PathLeft ==
  ASSUME TreeAndTypes, OnPath, Leaves, UNCHANGED <<ast, size>>
  PROVE  OnPath'
<1>0. PICK a \in 2..size : a = at
  BY Basics DEF Leaves, None, Root
<1>1. PICK p \in 1..size : p = Parent(a) /\ p < a
  BY <1>0, Basics
<1>2. /\ at' = p /\ size' = size /\ status'[a] = "returned" /\ size \in Nat
      /\ \A n \in 1..size : n # a => status'[n] = status[n]
  BY <1>0, <1>1, Basics DEF Leaves, Return
<1>3. \A n : Parent(n)' = Parent(n) /\ Kids(n)' = Kids(n) /\ KindOf(n)' = KindOf(n)
  BY DEF Parent, Kids, KindOf
<1>4. /\ \A n \in 2..size : Parent(n) \in 1..(n - 1) /\ Parent(n) \in 1..size
      /\ \A n \in 1..size : \A i \in 1..Len(Kids(n)) : Kids(n)[i] \in 2..size /\ n < Kids(n)[i]
      /\ \A n \in 1..size : KindOf(n) \in LeafKind => Len(Kids(n)) = 0
      /\ \A n \in 1..size : status[n] \in Statuses
  BY Basics
<1> USE DEF OnPath, IsRunning, IsActive, Root
<1>5. status'[p] = "running"
  BY <1>0, <1>1, <1>2
<1>6. ASSUME p # Root PROVE status'[Parent(p)] = "running"
  <2>1. p \in 2..size /\ status[p] = "running"
    BY <1>0, <1>1, <1>2, <1>5, <1>6
  <2>2. PICK q \in 1..size : q = Parent(p) /\ q < p
    BY <1>4, <2>1
  <2>3. status[q] = "running" /\ q # a
    BY <1>0, <1>1, <1>2, <2>1, <2>2
  <2> QED BY <1>2, <2>2, <2>3
<1>7. ASSUME NEW n \in 2..size, status'[n] = "running" PROVE status'[Parent(n)] = "running"
  <2>1. status[n] = "running" /\ n # a /\ n <= a
    BY <1>0, <1>2, <1>7
  <2>2. status[Parent(n)] = "running" /\ Parent(n) # a /\ Parent(n) \in 1..size
    BY <1>4, <2>1
  <2> QED BY <1>2, <2>2
<1>8. \A n \in 1..size : status'[n] = "running" => n <= p /\ KindOf(n) \notin LeafKind
  BY <1>0, <1>1, <1>2
<1>9. ASSUME NEW m \in 1..size, NEW n \in 1..size, status'[m] = "running",
             status'[n] = "running" \/ n = p, m < n
      PROVE  m <= Parent(n)
  BY <1>0, <1>2, <1>5, <1>9
<1>10. ASSUME NEW n \in 1..size, status'[n] = "returned", NEW i \in 1..Len(Kids(n))
       PROVE  status'[Kids(n)[i]] = "returned"
  <2>0. PICK k \in 2..size : k = Kids(n)[i] /\ n < k
    BY <1>4
  <2>1. CASE n = a
    <3>1. status[a] = "running" /\ status[k] # "uncalled"
      BY <1>0, <1>4, <2>0, <2>1 DEF Leaves, AllCalled, Resuming, Called
    <3>2. status[k] # "running"
      BY <1>0, <2>0, <2>1
    <3>3. k \in 1..size /\ k # a
      BY <1>2, <2>0, <2>1
    <3>4. status[k] \in Statuses
      BY <1>4, <3>3
    <3>5. status'[k] = "returned"
      BY <1>2, <3>1, <3>2, <3>3, <3>4 DEF Statuses
    <3> QED BY <2>0, <3>5
  <2>2. CASE n # a
    <3>1. status[n] = "returned"
      BY <1>2, <1>10, <2>2
    <3>2. status[k] = "returned" /\ k \in 1..size
      BY <1>2, <2>0, <3>1
    <3>3. status'[k] = "returned"
      BY <1>2, <3>2
    <3> QED BY <2>0, <3>3
  <2> QED BY <2>1, <2>2
<1>11. status'[Root] # "returned"
  BY <1>0, <1>2, <1>5
<1> QED BY <1>1, <1>2, <1>3, <1>5, <1>6, <1>7, <1>8, <1>9, <1>10, <1>11

LEMMA PathStep ==
  ASSUME TreeAndTypes, TreeAndTypes', PathInv, [Next]_vars_
  PROVE  PathInv'
<1>0. PathInv <=> (phase \in Walks => OnPath)
  BY DEF PathInv, OnPath
<1>1. PathInv' <=> (phase' \in Walks => OnPath')
  BY DEF PathInv, OnPath
<1>2. CASE Parse
  <2>1. phase' \in Walks => FinishBody
    BY <1>2 DEF Parse, StartBody, OpenStatement, LeafStatement, RefuseStatement, SyntaxError,
       FinishStatement, ReadsStatement, Reject, Walks
  <2>2. FinishBody => status' = AllUncalled /\ at' = Root
    BY DEF FinishBody, TreeAndTypes, PassInv
  <2> QED BY <1>1, <2>1, <2>2, PathFresh
<1>3. CASE Typecheck
  <2>1. /\ phase = "typecheck" /\ at # None /\ UNCHANGED <<ast, size>>
        /\ \/ phase' = "typecheck" /\ (Enters \/ Calls \/ Leaves)
           \/ phase' = "compile" /\ status' = AllUncalled /\ at' = Root
           \/ phase' = "rejected"
    BY <1>3, CheckKinds
  <2> QED BY <1>0, <1>1, <2>1, PathEntered, PathCalled, PathLeft, PathFresh DEF Walks
<1>4. CASE Compile
  <2>1. /\ phase = "compile" /\ at # None /\ UNCHANGED <<ast, size>>
        /\ \/ Enters \/ Calls \/ Leaves
           \/ phase' = "compiled"
    BY <1>4, CompileKinds
  <2> QED BY <1>0, <1>1, <2>1, PathEntered, PathCalled, PathLeft DEF Walks
<1>5. CASE UNCHANGED vars_
  BY <1>5 DEF vars_, parserVars, PathInv, IsRunning, IsActive, Parent, Kids, KindOf
<1> QED BY <1>2, <1>3, <1>4, <1>5 DEF Next
------------------------------------------------------------------------------
(***************************************************************************)
(* The last substatements of a statement.  The definition of EndsIn is     *)
(* recursive; the statements that every set closed under LastKid contains  *)
(* solve its equation.                                                     *)
(***************************************************************************)
HasLastKid(n) == KindOf(n) \in BranchKind /\ Kids(n) # <<>>
LastKid(n) == Kids(n)[Len(Kids(n))]
ClosedDown(S) == \A m \in S : HasLastKid(m) => LastKid(m) \in S
Below(n) == {m \in Stmt : \A S \in SUBSET Stmt : n \in S /\ ClosedDown(S) => m \in S}

LEMMA LastKidType ==
  ASSUME ast \in [Stmt -> Statement], NEW n \in Stmt, Kids(n) # <<>>
  PROVE  LastKid(n) \in Stmt
<1>1. Kids(n) \in Seq(Stmt)
  BY DEF Kids, Statement
<1> QED BY <1>1 DEF LastKid

LEMMA BelowUnfolds ==
  ASSUME NEW n \in Stmt, HasLastKid(n) => LastKid(n) \in Stmt
  PROVE  Below(n) = {n} \cup (IF HasLastKid(n) THEN Below(LastKid(n)) ELSE {})
<1>1. CASE HasLastKid(n)
  <2>1. ASSUME NEW m \in Below(n) PROVE m \in {n} \cup Below(LastKid(n))
    <3> SUFFICES ASSUME m # n, NEW S \in SUBSET Stmt, LastKid(n) \in S, ClosedDown(S)
                 PROVE  m \in S
      BY <2>1 DEF Below
    <3>1. /\ n \in S \cup {n} /\ ClosedDown(S \cup {n})
          /\ S \cup {n} \in SUBSET Stmt
      BY DEF ClosedDown
    <3> QED BY <2>1, <3>1 DEF Below
  <2>2. ASSUME NEW m \in Below(LastKid(n)) PROVE m \in Below(n)
    BY <1>1, <2>2 DEF Below, ClosedDown
  <2>3. n \in Below(n)
    BY DEF Below
  <2> QED BY <1>1, <2>1, <2>2, <2>3
<1>2. CASE ~HasLastKid(n)
  <2>1. {n} \in SUBSET Stmt /\ ClosedDown({n})
    BY <1>2 DEF ClosedDown
  <2> QED BY <1>2, <2>1 DEF Below
<1> QED BY <1>1, <1>2

LEMMA EndsInUnfolds ==
  ASSUME ast \in [Stmt -> Statement]
  PROVE  \A n \in Stmt : EndsIn[n] = {n} \cup (IF HasLastKid(n) THEN EndsIn[LastKid(n)] ELSE {})
<1> DEFINE g == [n \in Stmt |-> Below(n)]
<1>1. g = [n \in Stmt |-> {n} \cup (IF KindOf(n) \in BranchKind /\ Kids(n) # <<>>
                                    THEN g[Kids(n)[Len(Kids(n))]] ELSE {})]
  <2>1. ASSUME NEW n \in Stmt
        PROVE  g[n] = {n} \cup (IF KindOf(n) \in BranchKind /\ Kids(n) # <<>>
                                THEN g[Kids(n)[Len(Kids(n))]] ELSE {})
    BY LastKidType, BelowUnfolds DEF HasLastKid, LastKid
  <2> QED BY <2>1
<1> HIDE DEF g
<1>2. \E h : h = [n \in Stmt |-> {n} \cup (IF KindOf(n) \in BranchKind /\ Kids(n) # <<>>
                                           THEN h[Kids(n)[Len(Kids(n))]] ELSE {})]
  BY <1>1, Zenon
<1>3. EndsIn = [n \in Stmt |-> {n} \cup (IF KindOf(n) \in BranchKind /\ Kids(n) # <<>>
                                         THEN EndsIn[Kids(n)[Len(Kids(n))]] ELSE {})]
  BY <1>2, Zenon DEF EndsIn
<1>4. \A n \in Stmt : EndsIn[n] = {n} \cup (IF KindOf(n) \in BranchKind /\ Kids(n) # <<>>
                                            THEN EndsIn[Kids(n)[Len(Kids(n))]] ELSE {})
  BY <1>3, Zenon
<1> QED BY <1>4 DEF HasLastKid, LastKid

LEMMA EndsInUnfoldsNext ==
  (ast \in [Stmt -> Statement])'
    => (\A n \in Stmt : EndsIn[n] = {n} \cup (IF HasLastKid(n) THEN EndsIn[LastKid(n)] ELSE {}))'
<1>1. ast \in [Stmt -> Statement]
        => \A n \in Stmt : EndsIn[n] = {n} \cup (IF HasLastKid(n) THEN EndsIn[LastKid(n)] ELSE {})
  BY EndsInUnfolds
<1> QED BY <1>1, PTL

\* The statements that have been read to their end and joined their parents.
JoinedStatements == {m \in 2..size : Joined(m)}
KeepsJoined ==
  \A m \in JoinedStatements : ast'[m].kind = ast[m].kind /\ ast'[m].kids = ast[m].kids

LEMMA KidJoins ==
  ASSUME TreeAndTypes, NEW n \in 1..size, Kids(n) # <<>>
  PROVE  LastKid(n) \in JoinedStatements /\ Kids(n)[1] \in JoinedStatements /\ n < LastKid(n)
<1>1. Kids(n) \in Seq(Stmt) /\ Len(Kids(n)) \in Nat
  BY Basics
<1>2. 1 \in 1..Len(Kids(n)) /\ Len(Kids(n)) \in 1..Len(Kids(n))
  BY <1>1
<1>3. \A i \in 1..Len(Kids(n)) :
        Kids(n)[i] \in 2..size /\ Parent(Kids(n)[i]) = n /\ n < Kids(n)[i]
  BY Basics
<1>4. \A i \in 1..Len(Kids(n)) : Kids(n)[i] \in JoinedStatements
  BY <1>3 DEF JoinedStatements, Joined, IsKid
<1> QED BY <1>2, <1>3, <1>4 DEF LastKid

\* A step that leaves those alone leaves the ends of each alone.
LEMMA ClosedKept ==
  ASSUME TreeAndTypes, TreeAndTypes', KeepsJoined, NEW n \in JoinedStatements
  PROVE  /\ EndsIn'[n] = EndsIn[n] /\ EndsIn[n] \subseteq JoinedStatements
         /\ IsClosed(n) => IsClosed(n)'
<1> DEFINE IsKept(m) == EndsIn'[m] = EndsIn[m] /\ EndsIn[m] \subseteq JoinedStatements
           T == {k \in 0..size : size - k \in JoinedStatements /\ ~IsKept(size - k)}
<1>0. size \in Nat /\ \A m \in JoinedStatements : m \in 2..size /\ m \in 1..size /\ m \in Stmt
  BY Basics DEF JoinedStatements
<1>1. \A m \in Stmt : EndsIn[m] = {m} \cup (IF HasLastKid(m) THEN EndsIn[LastKid(m)] ELSE {})
  BY Basics, EndsInUnfolds
<1>2. ASSUME NEW m \in JoinedStatements
      PROVE  EndsIn'[m] = {m} \cup (IF HasLastKid(m) THEN EndsIn'[LastKid(m)] ELSE {})
  <2>1. (ast \in [Stmt -> Statement])'
    BY DEF TreeAndTypes, TypeOK, ParserTypeOK
  <2>2. (HasLastKid(m)' <=> HasLastKid(m)) /\ LastKid(m)' = LastKid(m)
    BY DEF KeepsJoined, HasLastKid, LastKid, KindOf, Kids
  <2>3. EndsIn'[m] = {m} \cup (IF HasLastKid(m)' THEN EndsIn'[LastKid(m)'] ELSE {})
    BY <1>0, <2>1, EndsInUnfoldsNext
  <2> QED BY <2>2, <2>3
<1>3. ASSUME T # {} PROVE FALSE
  <2>1. PICK k \in T : \A j \in T : k <= j
    <3>1. T \subseteq Nat
      BY <1>0
    <3> HIDE DEF T
    <3> QED BY <1>3, <3>1, Least
  <2>2. PICK m \in JoinedStatements : m = size - k /\ ~IsKept(m) /\ k = size - m
    BY <1>0, <2>1
  <2>3. CASE ~HasLastKid(m)
    BY <1>0, <1>1, <1>2, <2>2, <2>3
  <2>4. CASE HasLastKid(m)
    <3>1. PICK c \in JoinedStatements : c = LastKid(m) /\ m < c
      BY <1>0, <2>4, KidJoins DEF HasLastKid
    <3>2. IsKept(c)
      <4>1. size - c \in 0..size /\ size - (size - c) = c /\ size - c < k
        BY <1>0, <2>2, <3>1
      <4>2. size - c \notin T
        BY <1>0, <2>1, <4>1
      <4> QED BY <4>1, <4>2
    <3> QED BY <1>0, <1>1, <1>2, <2>2, <2>4, <3>1, <3>2
  <2> QED BY <2>3, <2>4
<1>4. IsKept(n)
  <2>1. size - n \in 0..size /\ size - (size - n) = n
    BY <1>0
  <2> QED BY <1>3, <2>1
<1>5. IsClosed(n) => IsClosed(n)'
  BY <1>4 DEF IsClosed, KeepsJoined, KindOf, Kids
<1> QED BY <1>4, <1>5

LEMMA InitElse == Init => ElseInv
BY DEF Init, ParserInit, ElseInv, OfKind, None

LEMMA ElseKept ==
  ASSUME TreeAndTypes, TreeAndTypes', ElseInv, UNCHANGED <<ast, size>>,
         phase' = "parse" => phase = "parse" /\ UNCHANGED <<at, notElse>>
  PROVE  ElseInv'
<1>1. /\ \A n : Parent(n)' = Parent(n) /\ Kids(n)' = Kids(n)
      /\ OfKind("if")' = OfKind("if")
  BY DEF Parent, Kids, OfKind
<1>2. KeepsJoined
  BY DEF KeepsJoined
<1>3. ASSUME NEW n \in 1..size, Kids(n) # <<>>
      PROVE  /\ IsClosed(Kids(n)[1]) => IsClosed(Kids(n)[1])'
             /\ IsClosed(LastKid(n)) => IsClosed(LastKid(n))'
  <2>1. PICK c \in JoinedStatements : c = Kids(n)[1]
    BY <1>3, KidJoins
  <2>2. PICK d \in JoinedStatements : d = LastKid(n)
    BY <1>3, KidJoins
  <2>3. Kids(n)[1]' = c /\ LastKid(n)' = d
    BY <1>1, <2>1, <2>2 DEF LastKid
  <2>4. (IsClosed(c) => IsClosed(c)') /\ (IsClosed(d) => IsClosed(d)')
    BY <1>2, ClosedKept
  <2> QED BY <2>1, <2>2, <2>3, <2>4 DEF IsClosed
<1>4. (\A n \in OfKind("if") : Kids(n) # <<>> =>
         \A m \in 2..size : Parent(m) = n /\ m # Kids(n)[1] => IsClosed(Kids(n)[1]))'
  <2>1. ASSUME NEW n \in OfKind("if"), Kids(n) # <<>>,
               NEW m \in 2..size, Parent(m) = n, m # Kids(n)[1]
        PROVE  IsClosed(Kids(n)[1])'
    BY <1>3, <2>1 DEF ElseInv, OfKind
  <2> QED BY <1>1, <2>1
<1>5. (phase = "parse" /\ at # None /\ ~notElse /\ Kids(at) # <<>>
         => IsClosed(Kids(at)[Len(Kids(at))]))'
  <2>1. ASSUME phase = "parse", at # None, ~notElse, Kids(at) # <<>>, UNCHANGED at
        PROVE  IsClosed(LastKid(at))'
    <3>1. at \in 1..size /\ IsClosed(LastKid(at))
      BY <2>1, Basics DEF ElseInv, LastKid, None
    <3> QED BY <1>3, <2>1, <3>1
  <2> QED BY <1>1, <2>1 DEF LastKid
<1> QED BY <1>4, <1>5 DEF ElseInv

\* What is true of the then branches in front of the step is so afterwards.
LEMMA ThensKept ==
  ASSUME TreeAndTypes, TreeAndTypes', ElseInv, KeepsJoined,
         NEW n \in OfKind("if"), Kids(n) # <<>>,
         NEW m \in 2..size, Parent(m) = n, m # Kids(n)[1],
         NEW c, c = Kids(n)[1]
  PROVE  IsClosed(c)'
<1>1. c \in JoinedStatements
  BY KidJoins DEF OfKind
<1>2. IsClosed(c)
  BY DEF ElseInv
<1> QED BY <1>1, <1>2, ClosedKept

LEMMA ElseOpened ==
  ASSUME TreeAndTypes, TreeAndTypes', OpenInv, ElseInv,
         NEW k \in Kind, NEW x \in HeadNames(k), OpenStatement(k, x)
  PROVE  ElseInv'
<1>0. PICK n \in Int : n = size + 1
  BY Basics
<1>1. /\ phase = "parse" /\ ReadsStatement /\ size \in Nat
      /\ at \in 1..size /\ at' = n /\ size' = n /\ n = size + 1
      /\ ast'[n].kids = <<>> /\ ast'[n].parent = at
  BY <1>0, OpenedTree, Basics
<1>2. \A m \in 1..size : /\ ast'[m].kind = ast[m].kind /\ ast'[m].kids = ast[m].kids
                         /\ ast'[m].parent = ast[m].parent
  BY OpenedTree
<1>3. KeepsJoined
  BY <1>1, <1>2 DEF KeepsJoined, JoinedStatements
<1>4. ASSUME NEW i \in 1..n, ast'[i].kind = "if", ast'[i].kids # <<>>,
             NEW m \in 2..n, ast'[m].parent = i, NEW c, c = ast'[i].kids[1], m # c
      PROVE  IsClosed(c)'
  <2>1. i \in 1..size /\ KindOf(i) = "if" /\ ast'[i].kids = Kids(i) /\ i \in OfKind("if")
    BY <1>1, <1>2, <1>4 DEF KindOf, Kids, OfKind
  <2>2. CASE m = n
    <3>1. i = at /\ Len(Kids(i)) = 1 /\ ~notElse
      BY <1>1, <1>4, <2>1, <2>2 DEF ReadsStatement
    <3>2. c \in JoinedStatements /\ IsClosed(c)
      BY <1>1, <1>4, <2>1, <3>1, KidJoins DEF ElseInv, None
    <3> QED BY <1>3, <3>2, ClosedKept
  <2>3. CASE m # n
    <3>1. m \in 2..size /\ Parent(m) = i
      BY <1>1, <1>2, <1>4, <2>3 DEF Parent
    <3> QED BY <1>3, <1>4, <2>1, <3>1, ThensKept
  <2> QED BY <2>2, <2>3
<1>5. Kids(at)' = <<>>
  BY <1>1 DEF Kids
<1>6. (\A i \in OfKind("if") : Kids(i) # <<>> =>
         \A m \in 2..size : Parent(m) = i /\ m # Kids(i)[1] => IsClosed(Kids(i)[1]))'
  <2>1. ASSUME NEW i \in OfKind("if")', ast'[i].kids # <<>>, NEW m \in 2..n,
               ast'[m].parent = i, m # ast'[i].kids[1]
        PROVE  IsClosed(Kids(i)[1])'
    <3>1. PICK c : c = ast'[i].kids[1]
      OBVIOUS
    <3>2. IsClosed(c)'
      BY <1>1, <1>4, <2>1, <3>1 DEF OfKind
    <3> QED BY <3>1, <3>2 DEF IsClosed, Kids
  <2> QED BY <1>1, <2>1 DEF Kids, Parent
<1> QED BY <1>5, <1>6 DEF ElseInv

\* A statement without children has at most one substatement being read.
LEMMA OnlyOpenChild ==
  ASSUME TreeAndTypes, OpenInv, phase = "parse", NEW n \in 1..size, Kids(n) = <<>>,
         NEW m \in 2..size, Parent(m) = n
  PROVE  m # at => n # at /\ Parent(at) # n
<1>1. ~Joined(m)
  BY DEF Joined, IsKid
<1>2. n # at
  <2> SUFFICES ASSUME n = at PROVE FALSE
    OBVIOUS
  <2>1. m > at
    BY Basics
  <2> QED BY <1>1, <2>1 DEF OpenInv
<1>3. ASSUME m # at, Parent(at) = n PROVE FALSE
  <2>1. at \in 2..size
    <3>1. at \in 0..size /\ Parent(1) = 0 /\ n # 0
      BY Basics DEF TreeAndTypes, TreeInv, Root, None
    <3>2. at # 0
      <4>1. size \in Nat /\ size > 0
        BY Basics
      <4> QED BY <4>1 DEF TreeAndTypes, TreeInv, None
    <3>3. at # 1
      BY <1>3, <3>1
    <3> QED BY <3>1, <3>2, <3>3
  <2>2. ~Joined(at)
    BY <2>1 DEF OpenInv, None, Root
  <2>3. n < m /\ n < at /\ n \in Int /\ m \in Int
    BY <1>3, <2>1, Basics
  <2>4. CASE m < at
    BY <1>1, <1>3, <2>1, <2>2, <2>3, <2>4 DEF OpenInv
  <2>5. CASE at < m
    BY <1>1, <2>1, <2>2, <2>3, <2>5 DEF OpenInv
  <2> QED BY <1>3, <2>1, <2>3, <2>4, <2>5
<1> QED BY <1>2, <1>3

\* The ends of a statement from those of its last child.
LEMMA ClosedNext ==
  ASSUME TreeAndTypes', NEW n \in Stmt, (KindOf(n) = "if" => Len(Kids(n)) = 2)',
         NEW c, HasLastKid(n)' => c = LastKid(n)' /\ IsClosed(c)'
  PROVE  IsClosed(n)'
<1>1. (ast \in [Stmt -> Statement])'
  BY DEF TreeAndTypes, TypeOK, ParserTypeOK
<1>2. EndsIn'[n] = {n} \cup (IF HasLastKid(n)' THEN EndsIn'[LastKid(n)'] ELSE {})
  BY <1>1, EndsInUnfoldsNext
<1>3. EndsIn'[n] = {n} \cup (IF HasLastKid(n)' THEN EndsIn'[c] ELSE {})
  BY <1>2
<1> QED BY <1>3 DEF IsClosed

LEMMA ElseLeaf ==
  ASSUME TreeAndTypes, TreeAndTypes', OpenInv, ElseInv,
         NEW k \in Kind, NEW x \in HeadNames(k), LeafStatement(k, x)
  PROVE  ElseInv'
<1>0. PICK n \in Int : n = size + 1
  BY Basics
<1>1. /\ phase = "parse" /\ ReadsStatement /\ size \in Nat /\ k \in LeafKind /\ n \in Stmt
      /\ at \in 1..size /\ at' = at /\ size' = n /\ n = size + 1
      /\ ast'[n].kind = k /\ ast'[n].kids = <<>> /\ ast'[n].parent = at
  BY <1>0, LeafTree, Basics
<1>2. PICK a \in 1..size : a = at
  BY <1>1
<1>3. \A m \in 1..size : /\ ast'[m].kind = ast[m].kind /\ ast'[m].parent = ast[m].parent
                         /\ m # a => ast'[m].kids = ast[m].kids
  <2>1. KeepsOthers(at)
    BY LeafTree
  <2> QED BY <1>2, <2>1 DEF KeepsOthers
<1>4. /\ Kids(a) \in Seq(Stmt) /\ ast'[a].kids = Append(Kids(a), n)
      /\ Len(ast'[a].kids) = Len(Kids(a)) + 1 /\ ast'[a].kids[Len(Kids(a)) + 1] = n
      /\ Kids(a) = <<>> => ast'[a].kids[1] = n
      /\ Kids(a) # <<>> => ast'[a].kids[1] = Kids(a)[1]
  <2>1. ast'[a].kids = Append(Kids(a), n)
    BY <1>0, <1>2, LeafTree DEF Kids
  <2>2. Kids(a) \in Seq(Stmt) /\ n \in Stmt
    BY <1>1, <1>2, Basics
  <2> QED BY <2>1, <2>2
<1>5. KeepsJoined
  <2>1. a \notin JoinedStatements
    BY <1>1, <1>2 DEF JoinedStatements, OpenInv, None, Root
  <2> QED BY <1>1, <1>3, <2>1 DEF KeepsJoined, JoinedStatements
<1>6. ASSUME NEW i \in 1..n, ast'[i].kind = "if", ast'[i].kids # <<>>,
             NEW m \in 2..n, ast'[m].parent = i, NEW c, c = ast'[i].kids[1], m # c
      PROVE  IsClosed(c)'
  <2>1. i \in 1..size /\ KindOf(i) = "if" /\ i \in OfKind("if")
    BY <1>1, <1>3, <1>6 DEF KindOf, OfKind
  <2>2. CASE m = n /\ Kids(a) # <<>>
    <3>1. i = a /\ c = Kids(a)[1]
      BY <1>1, <1>2, <1>4, <1>6, <2>2
    <3>2. Len(Kids(a)) = 1 /\ ~notElse
      BY <1>1, <1>2, <2>1, <2>2, <3>1 DEF ReadsStatement
    <3>3. c \in JoinedStatements /\ IsClosed(c)
      BY <1>1, <1>2, <2>2, <3>1, <3>2, KidJoins DEF ElseInv, None
    <3> QED BY <1>5, <3>3, ClosedKept
  <2>3. CASE m = n /\ Kids(a) = <<>>
    BY <1>1, <1>2, <1>4, <1>6, <2>3
  <2>4. CASE m # n
    <3>1. m \in 2..size /\ Parent(m) = i
      BY <1>1, <1>3, <1>6, <2>4 DEF Parent
    <3>2. CASE i # a
      <4>1. ast'[i].kids = Kids(i)
        BY <1>3, <2>1, <3>2 DEF Kids
      <4> QED BY <1>5, <1>6, <2>1, <3>1, <4>1, ThensKept
    <3>3. CASE i = a /\ Kids(a) # <<>>
      BY <1>4, <1>5, <1>6, <2>1, <3>1, <3>3, ThensKept
    <3>4. CASE i = a /\ Kids(a) = <<>>
      <4>1. m # at
        BY <1>2, <2>1, <3>1, <3>4, Basics
      <4> QED BY <1>1, <1>2, <2>1, <3>1, <3>4, <4>1, OnlyOpenChild
    <3> QED BY <3>2, <3>3, <3>4
  <2> QED BY <2>2, <2>3, <2>4
<1>7. IsClosed(n)'
  <2>1. k # "if" /\ k \notin BranchKind
    BY <1>1 DEF LeafKind, BranchKind
  <2>2. KindOf(n)' = k /\ ~HasLastKid(n)'
    BY <1>1, <2>1 DEF KindOf, HasLastKid
  <2> QED BY <1>1, <2>1, <2>2, ClosedNext
<1>8. (\A i \in OfKind("if") : Kids(i) # <<>> =>
         \A m \in 2..size : Parent(m) = i /\ m # Kids(i)[1] => IsClosed(Kids(i)[1]))'
  <2>1. ASSUME NEW i \in OfKind("if")', ast'[i].kids # <<>>, NEW m \in 2..n,
               ast'[m].parent = i, m # ast'[i].kids[1]
        PROVE  IsClosed(Kids(i)[1])'
    <3>1. PICK c : c = ast'[i].kids[1]
      OBVIOUS
    <3>2. IsClosed(c)'
      BY <1>1, <1>6, <2>1, <3>1 DEF OfKind
    <3> QED BY <3>1, <3>2 DEF IsClosed, Kids
  <2> QED BY <1>1, <2>1 DEF Kids, Parent
<1>9. IsClosed(Kids(at)[Len(Kids(at))])'
  <2>1. Kids(at)' = ast'[a].kids /\ ast'[a].kids[Len(ast'[a].kids)] = n
    BY <1>1, <1>2, <1>4 DEF Kids
  <2> QED BY <1>7, <2>1 DEF IsClosed
<1> QED BY <1>8, <1>9 DEF ElseInv

LEMMA ElseFinished ==
  ASSUME TreeAndTypes, TreeAndTypes', ShapeInv, OpenInv, ElseInv, FinishStatement
  PROVE  ElseInv'
<1>0. PICK a \in 2..size : a = at
  BY FinishedTree
<1>1. PICK p \in 1..size : p = Parent(a) /\ p < a
  BY <1>0, Basics
<1>2. /\ phase = "parse" /\ size' = size /\ at' = p /\ size \in Nat /\ a \in Stmt /\ a \in 1..size
      /\ notElse' = NotElseAfter /\ Complete /\ at \in 1..size
  BY <1>0, <1>1, FinishedTree, Basics DEF FinishStatement
<1>3. \A m \in 1..size : /\ ast'[m].kind = ast[m].kind /\ ast'[m].parent = ast[m].parent
                         /\ m # p => ast'[m].kids = ast[m].kids
  <2>1. KeepsOthers(Parent(at))
    BY FinishedTree
  <2> QED BY <1>0, <1>1, <2>1 DEF KeepsOthers
<1>4. /\ Kids(p) \in Seq(Stmt) /\ ast'[p].kids = Append(Kids(p), a)
      /\ Len(ast'[p].kids) = Len(Kids(p)) + 1 /\ ast'[p].kids[Len(Kids(p)) + 1] = a
      /\ Kids(p) = <<>> => ast'[p].kids[1] = a
      /\ Kids(p) # <<>> => ast'[p].kids[1] = Kids(p)[1]
  <2>1. ast'[p].kids = Append(Kids(p), a)
    BY <1>0, <1>1, FinishedTree DEF Kids
  <2>2. Kids(p) \in Seq(Stmt) /\ a \in Stmt
    BY <1>1, <1>2, Basics
  <2> QED BY <2>1, <2>2
<1>5. KeepsJoined
  <2>1. p \notin JoinedStatements
    BY <1>0, <1>1, <1>2 DEF JoinedStatements, OpenInv, None, Root
  <2> QED BY <1>2, <1>3, <2>1 DEF KeepsJoined, JoinedStatements
<1>6. ASSUME NEW i \in 1..size, ast'[i].kind = "if", ast'[i].kids # <<>>,
             NEW m \in 2..size, ast'[m].parent = i, NEW c, c = ast'[i].kids[1], m # c
      PROVE  IsClosed(c)'
  <2>1. KindOf(i) = "if" /\ i \in OfKind("if")
    BY <1>3, <1>6 DEF KindOf, OfKind
  <2>2. Parent(m) = i
    BY <1>2, <1>3, <1>6 DEF Parent
  <2>3. CASE i # p
    <3>1. ast'[i].kids = Kids(i)
      BY <1>3, <2>3 DEF Kids
    <3> QED BY <1>5, <1>6, <2>1, <2>2, <3>1, ThensKept
  <2>4. CASE i = p /\ Kids(p) # <<>>
    BY <1>4, <1>5, <1>6, <2>1, <2>2, <2>4, ThensKept
  <2>5. CASE i = p /\ Kids(p) = <<>>
    <3>1. m # at
      BY <1>0, <1>4, <1>6, <2>5
    <3> QED BY <1>0, <1>1, <1>2, <2>2, <2>5, <3>1, OnlyOpenChild
  <2> QED BY <2>3, <2>4, <2>5
<1>7. (\A i \in OfKind("if") : Kids(i) # <<>> =>
         \A m \in 2..size : Parent(m) = i /\ m # Kids(i)[1] => IsClosed(Kids(i)[1]))'
  <2>1. ASSUME NEW i \in OfKind("if")', ast'[i].kids # <<>>, NEW m \in 2..size,
               ast'[m].parent = i, m # ast'[i].kids[1]
        PROVE  IsClosed(Kids(i)[1])'
    <3>1. PICK c : c = ast'[i].kids[1]
      OBVIOUS
    <3>2. IsClosed(c)'
      BY <1>2, <1>6, <2>1, <3>1 DEF OfKind
    <3> QED BY <3>1, <3>2 DEF IsClosed, Kids
  <2> QED BY <1>2, <2>1 DEF Kids, Parent
<1>8. /\ KindOf(a)' = KindOf(a) /\ Kids(a)' = Kids(a) /\ LastKid(a)' = LastKid(a)
      /\ HasLastKid(a)' <=> HasLastKid(a)
  BY <1>1, <1>2, <1>3 DEF KindOf, Kids, LastKid, HasLastKid
<1>9. ASSUME ~notElse' PROVE IsClosed(a)'
  <2>1. KindOf(a) \notin LeafKind
    BY <1>0, <1>2 DEF TreeAndTypes, TreeInv, None
  <2>2. CASE KindOf(a) = "block"
    <3>1. ~HasLastKid(a)'
      BY <1>8, <2>2 DEF HasLastKid, BranchKind
    <3> QED BY <1>2, <1>8, <2>2, <3>1, ClosedNext
  <2>3. CASE KindOf(a) # "block"
    <3>1. Kids(a) # <<>>
      BY <1>0, <1>2, <2>3 DEF Complete
    <3>2. ~notElse /\ (KindOf(a) = "if" => Len(Kids(a)) # 1)
      <4>1. NotElseAfter = IF KindOf(a) = "if" /\ Len(Kids(a)) = 1 THEN TRUE ELSE notElse
        BY <1>0, <2>3 DEF NotElseAfter
      <4> QED BY <1>2, <1>9, <4>1
    <3>3. KindOf(a) = "if" => Len(Kids(a)) = 2
      <4>1. KindOf(a) = "if" => Len(Kids(a)) <= 2
        BY <1>2 DEF ShapeInv, OfKind, KindOf
      <4>2. PICK l \in Nat : l = Len(Kids(a)) /\ l # 0
        <5>1. Kids(a) \in Seq(Stmt)
          BY <1>2, Basics
        <5> QED BY <3>1, <5>1
      <4> QED BY <3>2, <4>1, <4>2
    <3>4. PICK c \in JoinedStatements : c = LastKid(a)
      BY <1>2, <3>1, KidJoins
    <3>5. IsClosed(c)
      BY <1>0, <1>2, <3>1, <3>2, <3>4 DEF ElseInv, LastKid, None
    <3>6. IsClosed(c)'
      BY <1>5, <3>5, ClosedKept
    <3> QED BY <1>2, <1>8, <3>3, <3>4, <3>6, ClosedNext
  <2> QED BY <2>2, <2>3
<1>10. ASSUME ~notElse' PROVE IsClosed(Kids(at)[Len(Kids(at))])'
  <2>1. Kids(at)' = ast'[p].kids /\ ast'[p].kids[Len(ast'[p].kids)] = a
    BY <1>2, <1>4 DEF Kids
  <2> QED BY <1>9, <1>10, <2>1 DEF IsClosed
<1> QED BY <1>7, <1>10 DEF ElseInv

LEMMA ElseStep ==
  ASSUME TreeAndTypes, TreeAndTypes', ShapeInv, OpenInv, ElseInv, [Next]_vars_
  PROVE  ElseInv'
<1>1. CASE StartBody
  <2>1. size' = 1 /\ at' = 1 /\ ast'[1].kind = "block" /\ ast'[1].kids = <<>>
    <3>1. ast \in [Stmt -> Statement] /\ 1 \in Stmt
      BY Basics, AstAssumption DEF Stmt
    <3> QED BY <1>1, <3>1 DEF StartBody, NewStatement, Root
  <2>2. OfKind("if")' = {} /\ Kids(at)' = <<>>
    BY <2>1 DEF OfKind, Kids
  <2> QED BY <2>2 DEF ElseInv
<1>2. CASE \E k \in SourceKinds : \E x \in HeadNames(k) :
             OpenStatement(k, x) \/ LeafStatement(k, x) \/ RefuseStatement(k, x)
  <2>1. PICK k \in SourceKinds : \E x \in HeadNames(k) :
          OpenStatement(k, x) \/ LeafStatement(k, x) \/ RefuseStatement(k, x)
    BY <1>2
  <2>2. PICK x \in HeadNames(k) :
          OpenStatement(k, x) \/ LeafStatement(k, x) \/ RefuseStatement(k, x)
    BY <2>1
  <2>3. k \in Kind
    BY AstAssumption
  <2>4. CASE RefuseStatement(k, x)
    BY <2>4, ElseKept DEF RefuseStatement, Reject
  <2> QED BY <2>2, <2>3, <2>4, ElseOpened, ElseLeaf
<1>3. CASE SyntaxError
  BY <1>3, ElseKept DEF SyntaxError, Reject
<1>4. CASE FinishStatement
  BY <1>4, ElseFinished
<1>5. CASE FinishBody
  BY <1>5, ElseKept DEF FinishBody
<1>6. CASE Typecheck
  <2>1. phase' # "parse" /\ UNCHANGED <<ast, size>>
    BY <1>6 DEF Typecheck, Checks, CheckBlock, CheckCondition, CheckLabeled, CheckChild,
       LeaveChecked, CheckDeclaration, CheckExpression, CheckJump, RejectStatement,
       FinishTypecheck, CheckedLeaf, Reject
  <2> QED BY <2>1, ElseKept
<1>7. CASE Compile
  <2>1. phase' # "parse" /\ UNCHANGED <<ast, size>>
    BY <1>7 DEF Compile, Generates, CompileFunction, CompileScope, CompileCondition,
       CompileChild, LeaveCompiled, CompileDeclaration, CompileExpression, CompileEmpty,
       CompileJump, Jump, FinishFunction, AfterEvaluation
  <2> QED BY <2>1, ElseKept
<1>8. CASE UNCHANGED vars_
  BY <1>8, ElseKept DEF vars_, parserVars
<1> QED BY <1>1, <1>2, <1>3, <1>4, <1>5, <1>6, <1>7, <1>8 DEF Next, Parse

(***************************************************************************)
(* However ifs are nested, without blocks between them, an else belongs to *)
(* the nearest one in front that can take it: the if in whose handler      *)
(* accept(TK_ELSE) fails first has no else, and no if around it gets one   *)
(* before the next token is read (parser.cpp:469-481).                     *)
(***************************************************************************)
THEOREM ElsesBelongToNearestIfs == Spec => []ElseBelongsToNearestIf
<1> DEFINE Nested == TreeAndTypes /\ ShapeInv /\ OpenInv /\ ElseInv
<1>1. Init => Nested
  <2> SUFFICES ASSUME Init PROVE Nested
    OBVIOUS
  <2>1. phase = "parse" /\ size = 0 /\ at = None
    BY DEF Init, ParserInit
  <2>2. ShapeInv /\ OpenInv
    BY <2>1 DEF ShapeInv, OpenInv, Walks, OfKind, None
  <2> QED BY <2>2, InitTreeAndTypes, InitElse
<1>2. Nested /\ [Next]_vars_ => Nested'
  BY TreeAndTypesStep, ShapeStep, ElseStep
<1>3. Nested => ElseBelongsToNearestIf
  <2> SUFFICES ASSUME Nested, NEW n \in OfKind("if"), Len(Kids(n)) = 2
               PROVE  IsClosed(Kids(n)[1])
    BY DEF ElseBelongsToNearestIf, IsClosed
  <2>1. n \in 1..size /\ 1 \in 1..Len(Kids(n)) /\ 2 \in 1..Len(Kids(n)) /\ Kids(n) # <<>>
    BY DEF OfKind
  <2>2. Kids(n)[2] \in 2..size /\ Parent(Kids(n)[2]) = n
    BY <2>1, Basics
  <2>3. Kids(n)[1] < Kids(n)[2]
    BY <2>1 DEF ShapeInv
  <2>4. Kids(n)[1] \in 2..size
    BY <2>1, Basics
  <2> QED BY <2>1, <2>2, <2>3, <2>4 DEF ElseInv
<1> QED BY <1>1, <1>2, <1>3, PTL DEF Spec

(***************************************************************************)
(* The scopes and the loop counter of the type checker.                    *)
(***************************************************************************)
LEMMA PassComplete ==
  ASSUME TreeAndTypes, ShapeInv, PathInv, phase \in Walks, at = Root, Resuming,
         AllCalled(Kids(Root))
  PROVE  \A n \in 1..size : status[n] = IF n = Root THEN "running" ELSE "returned"
<1> DEFINE T == {n \in 2..size : status[n] # "returned"}
<1>0. /\ size \in Nat /\ status[1] = "running" /\ Root = 1 /\ Kids(1) \in Seq(Stmt)
      /\ \A n \in 2..size : n \in 1..size /\ status[n] \in Statuses
      /\ \A n \in 2..size : Parent(n) \in 1..(n - 1) /\ Parent(n) \in 1..size
  <2>1. size > 0
    BY Ranges DEF TreeAndTypes, TreeInv, None, Root
  <2>2. \A n \in 2..size : Parent(n) \in 1..(n - 1)
    BY DEF TreeAndTypes, TreeInv
  <2> QED BY <2>1, <2>2, Ranges DEF Resuming, Root
<1>1. ASSUME T # {} PROVE FALSE
  <2>1. PICK m \in T : \A k \in T : m <= k
    <3>1. T \subseteq Nat
      BY <1>0
    <3> HIDE DEF T
    <3> QED BY <1>1, <3>1, Least
  <2>2. m \in 2..size /\ status[m] # "returned"
    BY <2>1
  <2>3. PICK p \in 1..size : p = Parent(m) /\ p < m
    BY <1>0, <2>2
  <2>4. PICK i \in 1..Len(Kids(p)) : Kids(p)[i] = m
    BY <2>2, <2>3 DEF ShapeInv, Joined, IsKid
  <2>5. CASE p = 1
    <3>1. status[m] # "uncalled"
      BY <1>0, <2>4, <2>5 DEF AllCalled, Called
    <3>2. status[m] # "running"
      BY <1>0, <2>2 DEF PathInv, IsRunning
    <3> QED BY <1>0, <2>2, <3>1, <3>2 DEF Statuses
  <2>6. CASE p # 1
    <3>1. status[p] = "returned"
      BY <1>0, <2>1, <2>3, <2>6
    <3> QED BY <2>2, <2>4, <3>1 DEF PathInv
  <2> QED BY <2>5, <2>6
<1> QED BY <1>0, <1>1

\* The only handler that a step calls is that of "at".
LEMMA CalledAfter ==
  ASSUME TreeAndTypes, NEW a \in 1..size, a = at, Enters \/ Calls \/ Leaves
  PROVE  /\ \A n \in 1..size : n # a => status'[n] = status[n] /\ (Called(n)' <=> Called(n))
         /\ \A n \in 1..size : ~Entering => (Called(n)' <=> Called(n))
         /\ Entering => Called(a)' /\ ~Called(a)
<1>1. a \in Stmt /\ (\A n \in 1..size : n \in Stmt) /\ status \in [Stmt -> Statuses]
  BY Ranges DEF TreeAndTypes, TypeOK, ParserTypeOK
<1>2. CASE Calls
  BY <1>2 DEF Calls, Entering, Resuming, Called
<1>3. CASE Enters \/ Leaves
  <2>1. PICK v \in {"running", "returned"} : status' = [status EXCEPT ![a] = v]
    BY <1>3 DEF Enters, Leaves, Run, Return
  <2>2. status[a] \in {"uncalled", "running"}
    BY <1>3 DEF Enters, Leaves, Entering, Resuming
  <2> QED BY <1>1, <2>1, <2>2 DEF Called, Entering
<1> QED BY <1>2, <1>3

\* The largest running handlers: that of "at" and that of its parent.
LEMMA LargestRunning ==
  ASSUME TreeAndTypes, PathInv, phase \in Walks, at \notin {None, Root}
  PROVE  /\ Parent(at) \in 1..size /\ at \in 2..size /\ Parent(at) < at
         /\ IsRunning(Parent(at)) /\ Called(Parent(at))
         /\ \A m \in 1..size : IsRunning(m) => m <= at /\ (m # at => m <= Parent(at))
<1>1. at \in 2..size /\ Parent(at) \in 1..size /\ Parent(at) < at /\ size \in Nat
  BY Basics DEF None, Root
<1>2. IsRunning(Parent(at)) /\ \A m \in 1..size : IsRunning(m) => m <= at
  BY <1>1 DEF PathInv
<1>3. \A m \in 1..size : IsRunning(m) /\ m < at => m <= Parent(at)
  BY <1>1 DEF PathInv, IsActive
<1> QED BY <1>1, <1>2, <1>3 DEF IsRunning, Called

LEMMA LoopsAroundParent ==
  ASSUME TreeAndTypes, NEW n \in 2..size
  PROVE  /\ EnclosingWhiles(n) = LoopsAround(Parent(n))
         /\ LoopsAround(n) = IF KindOf(n) = "while" THEN LoopsAround(Parent(n)) \cup {n}
                             ELSE LoopsAround(Parent(n))
         /\ n \notin LoopsAround(Parent(n)) /\ IsFiniteSet(LoopsAround(Parent(n)))
<1>1. /\ n \in Stmt /\ n \in 1..size /\ Parent(n) \in 1..(n - 1) /\ Parent(n) \in 1..size
      /\ Stmt = 1..MaxStatements /\ size \in Nat
  BY Basics
<1>2. Enclosing[n] = {n} \cup Enclosing[Parent(n)]
  BY <1>1, Basics, EnclosingUnfolds
<1>3. Enclosing[Parent(n)] \subseteq 1..Parent(n)
  BY <1>1, EnclosingRange
<1>4. n \notin Enclosing[Parent(n)]
  BY <1>1, <1>3
<1>5. IsFiniteSet(LoopsAround(Parent(n)))
  <2>1. IsFiniteSet(1..Parent(n))
    BY <1>1, FS_Interval
  <2>2. LoopsAround(Parent(n)) \subseteq 1..Parent(n)
    BY <1>3 DEF LoopsAround
  <2> QED BY <2>1, <2>2, FS_Subset
<1> QED BY <1>1, <1>2, <1>4, <1>5 DEF LoopsAround, EnclosingWhiles

\* The number of loops around a statement, from that around its parent.
LEMMA LoopCount ==
  ASSUME TreeAndTypes, NEW n \in 2..size, NEW p, p = Parent(n)
  PROVE  /\ Cardinality(EnclosingWhiles(n)) = Cardinality(LoopsAround(p))
         /\ Cardinality(LoopsAround(p)) \in Nat
         /\ KindOf(n) = "while" =>
              Cardinality(LoopsAround(n)) = Cardinality(LoopsAround(p)) + 1
         /\ KindOf(n) # "while" => Cardinality(LoopsAround(n)) = Cardinality(LoopsAround(p))
<1>1. Cardinality(LoopsAround(p)) \in Nat
  BY LoopsAroundParent, FS_CardinalityType
<1>2. Cardinality(LoopsAround(p) \cup {n}) = Cardinality(LoopsAround(p)) + 1
  BY LoopsAroundParent, FS_AddElement
<1> QED BY <1>1, <1>2, LoopsAroundParent

LEMMA NoLoopsAroundRoot ==
  ASSUME TreeAndTypes, size > 0
  PROVE  LoopsAround(Root) = {} /\ Cardinality(LoopsAround(Root)) = 0
<1>1. Enclosing[Root] \subseteq 1..1 /\ KindOf(Root) = "block"
  BY Basics, EnclosingRange DEF TreeAndTypes, TreeInv, Root
<1>2. LoopsAround(Root) = {}
  BY <1>1 DEF LoopsAround, Root
<1> QED BY <1>2, FS_EmptySet

LEMMA LoopsKept ==
  ASSUME TreeAndTypes, TreeAndTypes', UNCHANGED <<ast, size>>, NEW n \in 1..size
  PROVE  /\ LoopsAround(n)' = LoopsAround(n) /\ EnclosingBlocks(n)' = EnclosingBlocks(n)
         /\ EnclosingWhiles(n)' = EnclosingWhiles(n)
<1>1. Enclosing'[n] = Enclosing[n]
  BY EnclosingKept
<1> QED BY <1>1 DEF LoopsAround, EnclosingBlocks, EnclosingWhiles, KindOf
------------------------------------------------------------------------------
\* The order in which the type checker calls the handlers.

LEMMA OrderChild ==
  ASSUME TreeAndTypes, ShapeInv, PathInv, OrderInv, phase = "typecheck", at # None, CheckChild
  PROVE  OrderInv'
<1>0. PICK a \in 1..size : a = at
  BY Basics DEF None
<1>1. PICK i \in 1..Len(Kids(a)) :
        /\ ~Called(Kids(a)[i]) /\ \A j \in 1..(i - 1) : Called(Kids(a)[j])
        /\ at' = Kids(a)[i]
  BY <1>0 DEF CheckChild
<1>2. PICK k \in 2..size : k = Kids(a)[i] /\ Parent(k) = a /\ a < k
  BY Basics
<1>3. /\ size \in Nat /\ size' = size /\ status' = status /\ status[a] = "running"
      /\ Kids(a) \in Seq(Stmt) /\ Called(a) /\ Called(Root)
      /\ \A n \in 2..size : n \in 1..size /\ Parent(n) \in 1..size /\ Parent(n) < n
      /\ \A n \in 1..size : status[n] \in Statuses
  <2>1. Called(a) /\ status[a] = "running"
    BY <1>0 DEF CheckChild, Resuming, Called
  <2>2. Called(Root)
    BY <1>0, <2>1 DEF TreeAndTypes, PassInv, Walks
  <2> QED BY <2>1, <2>2, Ranges DEF CheckChild
<1> DEFINE T == {m \in 1..size : m < k /\ ~Called(m)}
<1>4. ASSUME T # {} PROVE FALSE
  <2>1. PICK m \in T : \A n \in T : m <= n
    <3>1. T \subseteq Nat
      BY <1>3
    <3> HIDE DEF T
    <3> QED BY <1>4, <3>1, Least
  <2>2. m \in 2..size /\ m < k /\ ~Called(m) /\ m # a
    BY <1>3, <2>1 DEF Root
  <2>3. PICK p \in 1..size : p = Parent(m) /\ p < m
    BY <1>3, <2>2
  <2>4. Called(p)
    BY <1>3, <2>1, <2>2, <2>3
  <2>5. PICK j \in 1..Len(Kids(p)) : Kids(p)[j] = m
    BY <2>2, <2>3 DEF ShapeInv, Joined, IsKid, Walks
  <2>6. status[p] = "running"
    <3>1. status[p] # "returned"
      BY <2>2, <2>5 DEF PathInv, Walks, Called
    <3> QED BY <1>3, <2>4, <3>1 DEF Statuses, Called
  <2>7. p <= a
    BY <1>0, <2>6 DEF PathInv, Walks, IsRunning
  <2>8. CASE p = a
    <3>1. j < i
      <4>1. ~(i < j)
        BY <1>2, <2>2, <2>5, <2>8 DEF ShapeInv
      <4>2. i # j
        BY <1>2, <2>2, <2>5, <2>8
      <4> QED BY <1>3, <2>5, <2>8, <4>1, <4>2
    <3> QED BY <1>1, <1>3, <2>2, <2>5, <2>8, <3>1
  <2>9. CASE p < a /\ m > a
    BY <1>2, <2>2, <2>3, <2>9 DEF ShapeInv
  <2>10. CASE m < a
    BY <1>0, <1>3, <2>2, <2>10 DEF OrderInv
  <2> QED BY <1>3, <2>2, <2>3, <2>7, <2>8, <2>9, <2>10
<1>5. \A m \in 1..size : m < k => Called(m)
  BY <1>4
<1>6. ASSUME NEW m \in 1..size, NEW n \in 1..size, m < n, Called(n) \/ n = k
      PROVE  Called(m)
  BY <1>5, <1>6 DEF OrderInv
<1> QED BY <1>1, <1>2, <1>3, <1>6 DEF OrderInv, Called

LEMMA OrderStep ==
  ASSUME TreeAndTypes, ShapeInv, PathInv, OrderInv, [Next]_vars_
  PROVE  OrderInv'
<1>1. CASE Parse
  <2>1. phase' = "typecheck" => FinishBody
    BY <1>1 DEF Parse, StartBody, OpenStatement, LeafStatement, RefuseStatement, SyntaxError,
       FinishStatement, ReadsStatement, Reject
  <2>2. CASE FinishBody
    <3>1. status' = AllUncalled /\ at' = 1 /\ size' = size /\ size \in Nat
      BY <2>2, Basics DEF FinishBody, TreeAndTypes, PassInv, Root
    <3>2. \A n \in 1..size : ~Called(n)'
      BY <3>1, Basics DEF AllUncalled, Called
    <3> QED BY <3>1, <3>2 DEF OrderInv
  <2> QED BY <2>1, <2>2 DEF OrderInv
<1>2. CASE Typecheck
  <2>1. /\ phase = "typecheck" /\ at # None /\ UNCHANGED <<ast, size>>
        /\ phase' = "typecheck" => Enters \/ CheckChild \/ Leaves
    BY <1>2, CheckKinds
  <2>2. PICK a \in 1..size : a = at
    BY <2>1, Basics DEF None
  <2>3. CASE Enters
    <3>1. at' = a /\ size' = size /\ \A n \in 1..size : Called(n)' <=> Called(n) \/ n = a
      BY <2>2, <2>1, <2>3, Basics DEF Enters, Run, Called
    <3> QED BY <2>2, <2>1, <3>1 DEF OrderInv
  <2>4. CASE Leaves
    <3>1. /\ at' = Parent(a) /\ size' = size /\ a \in 2..size
          /\ \A n \in 1..size : Called(n)' <=> Called(n) \/ n = a
      BY <2>2, <2>1, <2>4, Basics DEF Leaves, Return, Called, None, Root
    <3>2. PICK p \in 1..size : p = Parent(a) /\ p < a
      BY <3>1, Basics
    <3>3. Called(p)
      BY <2>2, <2>1, <3>2 DEF OrderInv
    <3> QED BY <2>2, <2>1, <3>1, <3>2, <3>3 DEF OrderInv
  <2>5. CASE CheckChild
    BY <2>1, <2>5, OrderChild
  <2> QED BY <2>1, <2>3, <2>4, <2>5 DEF OrderInv
<1>3. CASE Compile
  BY <1>3, CompileKinds DEF OrderInv, Ends
<1>4. CASE UNCHANGED vars_
  BY <1>4 DEF vars_, parserVars, OrderInv, Called
<1> QED BY <1>1, <1>2, <1>3, <1>4 DEF Next
------------------------------------------------------------------------------
\* The scopes of the statements.

LEMMA ScopeEffects ==
  ASSUME TreeAndTypes, Typecheck, phase' = "typecheck"
  PROVE  \/ Enters /\ KindOf(at) \notin LeafKind /\ scopeOf' = [scopeOf EXCEPT ![at] = ScopeForKids]
         \/ CheckChild /\ scopeOf' = scopeOf
         \/ Leaves /\ scopeOf' = scopeOf
<1>1. CASE CheckBlock \/ CheckCondition \/ CheckLabeled
  BY <1>1 DEF CheckBlock, CheckCondition, CheckLabeled, Checks, Enters, ScopeForKids, LeafKind
<1>2. CASE CheckChild
  BY <1>2 DEF CheckChild, semaVars
<1>3. CASE LeaveChecked
  BY <1>3 DEF LeaveChecked, Leaves
<1>4. CASE CheckDeclaration \/ CheckExpression \/ CheckJump
  <2>1. /\ at # None /\ scopeOf' = scopeOf
        /\ Entering /\ Return /\ KindOf(at) \in LeafKind
    BY <1>4 DEF CheckDeclaration, CheckExpression, CheckJump, Checks, CheckedLeaf, LeafKind, semaVars
  <2>2. at \notin {None, Root}
    BY <2>1, InnerStatement DEF LeafKind
  <2> QED BY <2>1, <2>2 DEF Leaves
<1>5. ~RejectStatement /\ ~FinishTypecheck
  BY DEF RejectStatement, Reject, FinishTypecheck
<1> QED BY <1>1, <1>2, <1>3, <1>4, <1>5 DEF Typecheck

LEMMA ScopeBound ==
  ASSUME TreeAndTypes, OwnScopeInv, [Next]_vars_
  PROVE  \A n \in Stmt : scopeOf'[n] <= n
<1>0. scopeOf \in [Stmt -> Stmt \cup {None}] /\ \A n \in Stmt : scopeOf[n] <= n
  BY DEF TreeAndTypes, TypeOK, SemaTypeOK, OwnScopeInv
<1>1. CASE Typecheck /\ phase' = "typecheck"
  <2>1. phase = "typecheck" /\ at # None
    BY <1>1, CheckKinds
  <2>2. PICK a \in 1..size : a = at
    BY <2>1, Basics DEF None
  <2>3. CASE Enters /\ KindOf(at) \notin LeafKind /\ scopeOf' = [scopeOf EXCEPT ![at] = ScopeForKids]
    <3>1. ScopeForKids <= a
      <4>1. CASE KindOf(a) = "block"
        BY <2>2, <4>1 DEF ScopeForKids
      <4>2. CASE KindOf(a) # "block"
        <5>1. a \in 2..size
          <6>1. KindOf(1) = "block" /\ size \in Nat
            BY Ranges DEF TreeAndTypes, TreeInv, Root
          <6> QED BY <4>2, <6>1
        <5>2. PICK p \in 1..size : p = Parent(a) /\ p < a
          BY <5>1, Ranges
        <5>3. scopeOf[p] <= p /\ scopeOf[p] \in Int
          BY <1>0, <5>2, Ranges, AstAssumption DEF Stmt, None
        <5> QED BY <2>2, <4>2, <5>2, <5>3 DEF ScopeForKids, Scope
      <4> QED BY <4>1, <4>2
    <3> QED BY <1>0, <2>2, <2>3, <3>1
  <2> QED BY <1>0, <1>1, <2>3, ScopeEffects
<1>2. CASE Typecheck /\ phase' # "typecheck"
  <2>1. RejectStatement \/ FinishTypecheck
    BY <1>2 DEF Typecheck, CheckBlock, CheckCondition, CheckLabeled, CheckChild, LeaveChecked,
       CheckDeclaration, CheckExpression, CheckJump, Checks, CheckedLeaf
  <2> QED BY <1>0, <2>1 DEF RejectStatement, FinishTypecheck, semaVars
<1>3. CASE UNCHANGED semaVars
  BY <1>0, <1>3 DEF semaVars
<1> QED BY <1>1, <1>2, <1>3 DEF Next, vars_

LEMMA OwnScopeStep ==
  ASSUME TreeAndTypes, TreeAndTypes', OwnScopeInv, [Next]_vars_
  PROVE  OwnScopeInv'
<1>0. \A n \in Stmt : scopeOf'[n] <= n
  BY ScopeBound
<1>1. CASE Parse
  <2>1. phase' = "typecheck" => FinishBody
    BY <1>1 DEF Parse, StartBody, OpenStatement, LeafStatement, RefuseStatement, SyntaxError,
       FinishStatement, ReadsStatement, Reject
  <2>2. CASE FinishBody
    <3>1. status' = AllUncalled /\ size' = size
      BY <2>2 DEF FinishBody, TreeAndTypes, PassInv
    <3>2. \A n \in 1..size : ~Called(n)'
      BY <3>1, Ranges DEF AllUncalled, Called
    <3> QED BY <1>0, <3>1, <3>2 DEF OwnScopeInv
  <2> QED BY <1>0, <2>1, <2>2 DEF OwnScopeInv
<1>2. CASE Typecheck /\ phase' = "typecheck"
  <2>1. /\ phase = "typecheck" /\ at # None /\ UNCHANGED <<ast, size>>
    BY <1>2, CheckKinds
  <2>2. PICK a \in 1..size : a = at
    BY <2>1, Basics DEF None
  <2>3. \A n : KindOf(n)' = KindOf(n) /\ Parent(n)' = Parent(n)
    BY <2>1 DEF KindOf, Parent
  <2>4. CASE Enters /\ KindOf(at) \notin LeafKind /\ scopeOf' = [scopeOf EXCEPT ![at] = ScopeForKids]
    <3>1. /\ scopeOf'[a] = IF KindOf(a) = "block" THEN a ELSE scopeOf[Parent(a)]
          /\ \A n \in Stmt : n # a => scopeOf'[n] = scopeOf[n]
          /\ \A n \in 1..size : Called(n)' <=> Called(n) \/ n = a
          /\ ~Called(a) /\ a \in Stmt
      <4>1. a \in Stmt /\ \A n \in 1..size : n \in Stmt
        BY <2>2, Ranges
      <4>2. scopeOf \in [Stmt -> Stmt \cup {None}] /\ status \in [Stmt -> Statuses]
        BY DEF TreeAndTypes, TypeOK, ParserTypeOK, SemaTypeOK
      <4>3. /\ scopeOf' = [scopeOf EXCEPT ![a] = IF KindOf(a) = "block" THEN a ELSE scopeOf[Parent(a)]]
            /\ status' = [status EXCEPT ![a] = "running"] /\ ~Called(a)
        BY <2>2, <2>4 DEF ScopeForKids, Scope, Enters, Entering, Run, Called
      <4> QED BY <4>1, <4>2, <4>3 DEF Called
    <3>2. ASSUME NEW n \in 1..size, Called(n)'
          PROVE  /\ KindOf(n) = "block" => scopeOf'[n] = n
                 /\ KindOf(n) \in BranchKind => scopeOf'[n] = scopeOf'[Parent(n)]
      <4>0. KindOf(n) # "block" => n \in 2..size
        <5>1. KindOf(1) = "block" /\ size \in Nat
          BY Ranges DEF TreeAndTypes, TreeInv, Root
        <5> QED BY <5>1
      <4>1. CASE n = a
        <5>1. CASE KindOf(a) = "block"
          BY <3>1, <4>1, <5>1 DEF BranchKind
        <5>2. CASE KindOf(a) # "block"
          <6>1. PICK p \in 1..size : p = Parent(a) /\ p < a
            BY <4>0, <4>1, <5>2, Ranges
          <6>2. Called(p) /\ KindOf(p) \notin LeafKind
            BY <2>2, <2>1, <4>0, <4>1, <5>2, <6>1 DEF TreeAndTypes, TreeInv, PassInv, Walks, Root
          <6>3. scopeOf'[p] = scopeOf[p]
            BY <3>1, <6>1, <6>2, Ranges
          <6> QED BY <3>1, <4>1, <5>2, <6>1, <6>3, Ranges
        <5> QED BY <5>1, <5>2
      <4>2. CASE n # a
        <5>1. Called(n) /\ scopeOf'[n] = scopeOf[n]
          BY <3>1, <3>2, <4>2, Ranges
        <5>2. n \in 2..size => scopeOf'[Parent(n)] = scopeOf[Parent(n)]
          <6> SUFFICES ASSUME n \in 2..size PROVE scopeOf'[Parent(n)] = scopeOf[Parent(n)]
            OBVIOUS
          <6>1. PICK p \in 1..size : p = Parent(n)
            BY Ranges
          <6>2. Called(p) /\ p \in Stmt
            BY <2>1, <5>1, <6>1, Ranges DEF TreeAndTypes, PassInv, Walks, Root
          <6> QED BY <3>1, <6>1, <6>2
        <5> QED BY <2>1, <4>0, <5>1, <5>2 DEF OwnScopeInv, BranchKind
      <4> QED BY <4>1, <4>2
    <3> QED BY <1>0, <2>1, <2>3, <3>2 DEF OwnScopeInv
  <2>5. CASE (CheckChild \/ Leaves) /\ scopeOf' = scopeOf
    <3>1. \A n \in 1..size : Called(n)' => Called(n) \/ KindOf(n) \in LeafKind
      <4>1. CASE CheckChild
        BY <4>1 DEF CheckChild, Called
      <4>2. CASE Leaves
        BY <4>2, Ranges DEF Leaves, Return, Resuming, Called
      <4> QED BY <2>5, <4>1, <4>2
    <3>2. "block" \notin LeafKind /\ BranchKind \cap LeafKind = {}
      BY DEF LeafKind, BranchKind
    <3> QED BY <1>0, <2>1, <2>3, <2>5, <3>1, <3>2 DEF OwnScopeInv
  <2> QED BY <1>2, <2>4, <2>5, ScopeEffects
<1>3. CASE Compile
  BY <1>0, <1>3, CompileKinds DEF OwnScopeInv, Ends
<1>4. CASE UNCHANGED vars_
  BY <1>4 DEF vars_, parserVars, semaVars, OwnScopeInv, Called, KindOf, Parent
<1> QED BY <1>0, <1>1, <1>2, <1>3, <1>4 DEF Next, OwnScopeInv
------------------------------------------------------------------------------
\* The variables of the scopes.

LEMMA NamesAdded ==
  ASSUME NEW D, NEW a
  PROVE  /\ NamesOf({}) = {}
         /\ NamesOf(D \cup {a}) = NamesOf(D) \cup ({ast[a].name} \ {NoName})
BY DEF NamesOf

\* A step that calls no declaration and declares no variable.
LEMMA VarsKept ==
  ASSUME VarsInv, phase \in {"parse", "typecheck"}, UNCHANGED <<ast, size, vars>>,
         \A d \in OfKind("declaration") : Called(d)' <=> Called(d)
  PROVE  VarsInv'
<1>1. OfKind("declaration")' = OfKind("declaration")
  BY DEF OfKind
<1>2. \A b : CalledDeclarations(b)' = CalledDeclarations(b)
  BY <1>1 DEF CalledDeclarations, Parent
<1>3. \A D : NamesOf(D)' = NamesOf(D)
  BY DEF NamesOf
<1>4. ASSUME NEW b \in Stmt
      PROVE  vars'[b] = NamesOf(CalledDeclarations(b))'
                          \cup (IF b = Root THEN ParamNames ELSE {})
  <2>1. NamesOf(CalledDeclarations(b))' = NamesOf(CalledDeclarations(b))
    BY <1>2 DEF NamesOf
  <2>2. vars[b] = NamesOf(CalledDeclarations(b)) \cup (IF b = Root THEN ParamNames ELSE {})
    BY DEF VarsInv
  <2> QED BY <2>1, <2>2
<1> QED BY <1>4 DEF VarsInv

\* A declaration declares its variable in the scope of the block around it.
LEMMA DeclaresInBlock ==
  ASSUME TreeAndTypes, ShapeInv, OwnScopeInv, CheckDeclaration
  PROVE  /\ at \in 2..size /\ Parent(at) \in 1..size /\ KindOf(Parent(at)) = "block"
         /\ Scope = Parent(at)
<1>1. at \in OfKind("declaration") /\ phase = "typecheck" /\ at \notin {None, Root}
  <2>1. at # None /\ KindOf(at) = "declaration"
    BY DEF CheckDeclaration, Checks
  <2>2. at \in 1..size
    BY <2>1, Basics DEF None
  <2> QED BY <2>1, <2>2, InnerStatement DEF CheckDeclaration, Checks, OfKind, KindOf
<1>2. at \in 2..size /\ Parent(at) \in 1..size
  BY <1>1, Basics DEF None, Root
<1>3. KindOf(Parent(at)) = "block" /\ Called(Parent(at))
  BY <1>1 DEF ShapeInv, TreeAndTypes, PassInv, Walks
<1> QED BY <1>1, <1>2, <1>3 DEF OwnScopeInv, Scope

LEMMA VarsDeclared ==
  ASSUME TreeAndTypes, ShapeInv, OwnScopeInv, VarsInv, CheckDeclaration
  PROVE  VarsInv'
<1>0. PICK a \in 2..size : a = at
  BY DeclaresInBlock
<1>1. PICK p \in 1..size : p = Parent(a) /\ Scope = p
  BY <1>0, DeclaresInBlock
<1>2. PICK x \in Name \cup {NoName} : x = ast[a].name
  <2>1. ast[a].name \in HeadNames("declaration")
    BY <1>0, Ranges DEF TreeAndTypes, TreeInv, CheckDeclaration, Checks
  <2> QED BY <2>1, HeadNamesType
<1>3. /\ vars \in [Stmt -> SUBSET Name] /\ UNCHANGED <<ast, size>> /\ a \in Stmt /\ p \in Stmt
      /\ vars' = IF x = NoName THEN vars ELSE [vars EXCEPT ![p] = @ \cup {x}]
      /\ status \in [Stmt -> Statuses] /\ status' = [status EXCEPT ![a] = "returned"]
      /\ phase = "typecheck" /\ phase' = "typecheck" /\ a \in OfKind("declaration")
  <2>1. KindOf(a) = "declaration" /\ a \in 1..size
    BY <1>0, Ranges DEF CheckDeclaration, Checks
  <2> QED BY <1>0, <1>1, <1>2, <2>1, Ranges DEF CheckDeclaration, Checks, CheckedLeaf, Return,
        TreeAndTypes, TypeOK, SemaTypeOK, ParserTypeOK, OfKind, KindOf
<1>4. OfKind("declaration")' = OfKind("declaration") /\ \A d : Parent(d)' = Parent(d)
  BY <1>3 DEF OfKind, Parent
<1>5. \A d \in 1..size : Called(d)' <=> Called(d) \/ d = a
  BY <1>3, Ranges DEF Called
<1>6. ASSUME NEW b \in Stmt
      PROVE  vars'[b] = NamesOf(CalledDeclarations(b))'
                          \cup (IF b = Root THEN ParamNames ELSE {})
  <2>1. vars[b] = NamesOf(CalledDeclarations(b)) \cup (IF b = Root THEN ParamNames ELSE {})
    BY <1>3 DEF VarsInv
  <2>2. \A d \in OfKind("declaration") : d \in 1..size
    BY DEF OfKind
  <2>3. CASE b = p
    <3>1. CalledDeclarations(b)' = CalledDeclarations(b) \cup {a}
      BY <1>1, <1>3, <1>4, <1>5, <2>2, <2>3 DEF CalledDeclarations
    <3>2. NamesOf(CalledDeclarations(b))' = NamesOf(CalledDeclarations(b)) \cup ({x} \ {NoName})
      <4>1. NamesOf(CalledDeclarations(b))' = NamesOf(CalledDeclarations(b) \cup {a})
        BY <1>3, <3>1 DEF NamesOf
      <4> QED BY <1>2, <4>1, NamesAdded
    <3>3. vars'[b] = vars[b] \cup ({x} \ {NoName})
      BY <1>3, <2>3
    <3> QED BY <2>1, <3>2, <3>3
  <2>4. CASE b # p
    <3>1. CalledDeclarations(b)' = CalledDeclarations(b)
      BY <1>1, <1>3, <1>4, <1>5, <2>2, <2>4 DEF CalledDeclarations
    <3>2. NamesOf(CalledDeclarations(b))' = NamesOf(CalledDeclarations(b))
      BY <1>3, <3>1 DEF NamesOf
    <3>3. vars'[b] = vars[b]
      BY <1>3, <2>4
    <3> QED BY <2>1, <3>2, <3>3
  <2> QED BY <2>3, <2>4
<1> QED BY <1>3, <1>6 DEF VarsInv

LEMMA VarsStep ==
  ASSUME TreeAndTypes, ShapeInv, OwnScopeInv, VarsInv, [Next]_vars_
  PROVE  VarsInv'
<1>1. CASE Parse /\ UNCHANGED semaVars
  <2>1. phase = "parse" /\ status' = status /\ vars' = vars /\ status = AllUncalled
    BY <1>1 DEF Parse, StartBody, OpenStatement, LeafStatement, RefuseStatement, SyntaxError,
       FinishStatement, FinishBody, ReadsStatement, semaVars, TreeAndTypes, PassInv
  <2>2. \A b : CalledDeclarations(b) = {}
    <3>1. \A d \in OfKind("declaration") : d \in Stmt
      BY Ranges DEF OfKind
    <3> QED BY <2>1, <3>1 DEF CalledDeclarations, Called, AllUncalled
  <2>3. size' \in Nat /\ size' <= MaxStatements
    BY <1>1, TreeAndTypesStep, AstAssumption DEF TreeAndTypes, TypeOK, ParserTypeOK
  <2>4. \A b : CalledDeclarations(b)' = {}
    <3>1. \A d \in OfKind("declaration")' : d \in Stmt
      BY <2>3, AstAssumption DEF OfKind, Stmt
    <3> QED BY <2>1, <3>1 DEF CalledDeclarations, Called, AllUncalled
  <2>5. NamesOf({}) = {} /\ NamesOf({})' = {}
    BY DEF NamesOf
  <2>6. ASSUME NEW b \in Stmt
        PROVE  vars'[b] = NamesOf(CalledDeclarations(b))'
                            \cup (IF b = Root THEN ParamNames ELSE {})
    <3>1. NamesOf(CalledDeclarations(b)) = {} /\ NamesOf(CalledDeclarations(b))' = {}
      BY <2>2, <2>4 DEF NamesOf
    <3> QED BY <2>1, <3>1 DEF VarsInv
  <2> QED BY <2>6 DEF VarsInv
<1>2. CASE Typecheck /\ phase' = "typecheck"
  <2>1. phase = "typecheck" /\ at # None /\ UNCHANGED <<ast, size>> /\ status \in [Stmt -> Statuses]
    BY <1>2, CheckKinds DEF TreeAndTypes, TypeOK, ParserTypeOK
  <2>2. CASE CheckDeclaration
    BY <2>2, VarsDeclared
  <2>3. CASE ~CheckDeclaration
    <3>1. vars' = vars
      BY <1>2, <2>3 DEF Typecheck, CheckBlock, CheckCondition, CheckLabeled, CheckChild, LeaveChecked,
         CheckExpression, CheckJump, RejectStatement, FinishTypecheck, semaVars
    <3>2. \A d \in OfKind("declaration") : d \in Stmt /\ KindOf(d) = "declaration"
      BY Ranges DEF OfKind, KindOf
    <3>3. ASSUME NEW d \in OfKind("declaration") PROVE Called(d)' <=> Called(d)
      <4>1. CASE CheckBlock \/ CheckCondition \/ CheckLabeled
        <5>1. KindOf(at) # "declaration" /\ status' = [status EXCEPT ![at] = "running"]
          BY <4>1 DEF CheckBlock, CheckCondition, CheckLabeled, Checks, Run
        <5> QED BY <2>1, <3>2, <5>1 DEF Called
      <4>2. CASE CheckChild
        BY <4>2 DEF CheckChild, Called
      <4>3. CASE LeaveChecked
        <5>1. status[at] = "running" /\ status' = [status EXCEPT ![at] = "returned"]
          BY <4>3 DEF LeaveChecked, Resuming, Return
        <5> QED BY <2>1, <3>2, <5>1 DEF Called
      <4>4. CASE CheckExpression \/ CheckJump
        <5>1. KindOf(at) # "declaration" /\ status' = [status EXCEPT ![at] = "returned"]
          BY <4>4 DEF CheckExpression, CheckJump, Checks, CheckedLeaf, Return
        <5> QED BY <2>1, <3>2, <5>1 DEF Called
      <4>5. ~RejectStatement /\ ~FinishTypecheck
        BY <1>2 DEF RejectStatement, Reject, FinishTypecheck
      <4> QED BY <1>2, <2>3, <4>1, <4>2, <4>3, <4>4, <4>5 DEF Typecheck
    <3> QED BY <2>1, <3>1, <3>3, VarsKept
  <2> QED BY <2>2, <2>3
<1>3. CASE Typecheck /\ phase' # "typecheck"
  BY <1>3, CheckKinds DEF VarsInv
<1>4. CASE Compile
  BY <1>4, CompileKinds DEF VarsInv, Ends
<1>5. CASE UNCHANGED vars_
  <2>1. UNCHANGED <<phase, ast, size, vars, status>>
    BY <1>5 DEF vars_, parserVars, semaVars
  <2>2. CASE phase \in {"parse", "typecheck"}
    BY <2>1, <2>2, VarsKept DEF Called
  <2> QED BY <2>1, <2>2 DEF VarsInv
<1> QED BY <1>1, <1>2, <1>3, <1>4, <1>5 DEF Next
------------------------------------------------------------------------------
\* The loop counter.

\* The handler of the parent is the innermost that uses its scope.
LEMMA CounterHere ==
  ASSUME TreeAndTypes, PathInv, CounterInv, phase = "typecheck", Entering, at \notin {None, Root}
  PROVE  loopCounter[Scope] = Cardinality(LoopsAround(Parent(at)))
<1>1. /\ Parent(at) \in 1..size /\ IsRunning(Parent(at))
      /\ \A m \in 1..size : IsRunning(m) => m <= at /\ (m # at => m <= Parent(at))
  BY LargestRunning DEF Walks
<1>2. ASSUME NEW m \in 1..size, IsRunning(m), m > Parent(at) PROVE FALSE
  <2>1. m # at
    BY <1>2 DEF Entering, IsRunning
  <2> QED BY <1>1, <1>2, <2>1, Ranges
<1>3. IsInnermostIn(Parent(at), scopeOf[Parent(at)])
  BY <1>1, <1>2 DEF IsInnermostIn
<1> QED BY <1>1, <1>3 DEF CounterInv, Scope

\* What the actions of the type checker do to the counters.
CountsOnEntry ==
  loopCounter' =
    CASE KindOf(at) = "block" -> [loopCounter EXCEPT ![at] = CopiedLoopCounter(at)]
      [] KindOf(at) = "while" -> [loopCounter EXCEPT ![Scope] = CountLoop]
      [] OTHER                -> loopCounter
CountsOnReturn ==
  loopCounter' = IF KindOf(at) = "while"
                 THEN [loopCounter EXCEPT ![Scope] = UncountLoop] ELSE loopCounter

LEMMA CounterEffects ==
  ASSUME TreeAndTypes, Typecheck, phase' = "typecheck"
  PROVE  \/ /\ Enters /\ KindOf(at) \notin LeafKind
            /\ scopeOf' = [scopeOf EXCEPT ![at] = ScopeForKids] /\ CountsOnEntry
         \/ CheckChild /\ scopeOf' = scopeOf /\ loopCounter' = loopCounter
         \/ Leaves /\ Entering /\ scopeOf' = scopeOf /\ loopCounter' = loopCounter
         \/ Leaves /\ Resuming /\ scopeOf' = scopeOf /\ CountsOnReturn
<1>1. CASE CheckBlock
  <2>1. KindOf(at) = "block" /\ ScopeForKids = at
    BY <1>1 DEF CheckBlock, Checks, ScopeForKids
  <2> QED BY <1>1, <2>1 DEF CheckBlock, Checks, Enters, LeafKind, CountsOnEntry
<1>2. CASE CheckCondition
  BY <1>2 DEF CheckCondition, Checks, Enters, LeafKind, ScopeForKids, CountsOnEntry
<1>3. CASE CheckLabeled
  BY <1>3 DEF CheckLabeled, Checks, Enters, LeafKind, ScopeForKids, CountsOnEntry
<1>4. CASE CheckChild
  BY <1>4 DEF CheckChild, semaVars
<1>5. CASE LeaveChecked
  BY <1>5 DEF LeaveChecked, Leaves, CountsOnReturn
<1>6. CASE CheckDeclaration \/ CheckExpression \/ CheckJump
  <2>1. /\ at # None /\ scopeOf' = scopeOf /\ loopCounter' = loopCounter
        /\ Entering /\ Return /\ KindOf(at) \in LeafKind
    BY <1>6 DEF CheckDeclaration, CheckExpression, CheckJump, Checks, CheckedLeaf, LeafKind, semaVars
  <2>2. at \notin {None, Root}
    BY <2>1, InnerStatement DEF LeafKind
  <2> QED BY <2>1, <2>2 DEF Leaves
<1>7. ~RejectStatement /\ ~FinishTypecheck
  BY DEF RejectStatement, Reject, FinishTypecheck
<1> QED BY <1>1, <1>2, <1>3, <1>4, <1>5, <1>6, <1>7 DEF Typecheck

\* A handler is called: it uses a scope that it creates or that of its caller.
LEMMA CounterEntered ==
  ASSUME TreeAndTypes, PathInv, OwnScopeInv, CounterInv, phase = "typecheck",
         NEW a \in 1..size, a = at, Enters,
         scopeOf' = [scopeOf EXCEPT ![at] = ScopeForKids], CountsOnEntry,
         NEW n \in 1..size, status'[n] = "running",
         \A m \in 1..size : status'[m] = "running" /\ m > n => scopeOf'[m] # scopeOf'[n]
  PROVE  loopCounter'[scopeOf'[n]] = Cardinality(LoopsAround(n))
<1>1. /\ status[a] = "uncalled" /\ a \in Stmt /\ n \in Stmt /\ size \in Nat
      /\ loopCounter \in [Stmt -> Int] /\ scopeOf \in [Stmt -> Stmt \cup {None}]
  BY Ranges DEF TreeAndTypes, TypeOK, SemaTypeOK, Enters, Entering
<1>2. /\ \A m \in 1..size : m # a => (status'[m] = status[m] /\ scopeOf'[m] = scopeOf[m])
      /\ status'[a] = "running" /\ scopeOf'[a] = ScopeForKids
  <2>1. status' = [status EXCEPT ![a] = "running"] /\ status \in [Stmt -> Statuses]
    BY DEF Enters, Run, TreeAndTypes, TypeOK, ParserTypeOK
  <2> QED BY <1>1, <2>1, Ranges
<1>3. KindOf(1) = "block"
  BY <1>1 DEF TreeAndTypes, TreeInv, Root
<1>4. KindOf(a) # "block" => scopeOf'[a] = Scope
  BY <1>2 DEF ScopeForKids
<1>5. a # Root => Scope \in Stmt /\ a \in 2..size
  BY <1>1, ScopeType DEF Root, None
<1>6. CASE n = a
  <2>1. CASE a = Root
    <3>1. scopeOf'[a] = a /\ loopCounter' = [loopCounter EXCEPT ![a] = 0]
      BY <1>2, <1>3, <2>1 DEF ScopeForKids, CountsOnEntry, CopiedLoopCounter, Root
    <3> QED BY <1>1, <1>6, <2>1, <3>1, NoLoopsAroundRoot
  <2>2. CASE a # Root
    <3>0. PICK p \in 1..size : p = Parent(a)
      BY <1>5, <2>2, Ranges
    <3>1. loopCounter[Scope] = Cardinality(LoopsAround(p)) /\ Scope \in Stmt /\ a \in 2..size
      BY <1>5, <2>2, <3>0, CounterHere DEF Enters, None
    <3>2. CASE KindOf(a) = "block"
      <4>1. loopCounter' = [loopCounter EXCEPT ![a] = loopCounter[Scope]] /\ scopeOf'[a] = a
        BY <1>2, <2>2, <3>2 DEF CountsOnEntry, CopiedLoopCounter, ScopeForKids
      <4>2. Cardinality(LoopsAround(a)) = Cardinality(LoopsAround(p))
        BY <3>0, <3>1, <3>2, LoopCount
      <4> QED BY <1>1, <1>6, <3>1, <4>1, <4>2
    <3>3. CASE KindOf(a) = "while"
      <4>1. loopCounter' = [loopCounter EXCEPT ![Scope] = loopCounter[Scope] + 1]
        BY <3>3 DEF CountsOnEntry, CountLoop
      <4>2. Cardinality(LoopsAround(a)) = Cardinality(LoopsAround(p)) + 1
        BY <3>0, <3>1, <3>3, LoopCount
      <4> QED BY <1>1, <1>4, <1>6, <3>1, <3>3, <4>1, <4>2
    <3>4. CASE KindOf(a) \notin {"block", "while"}
      <4>1. loopCounter' = loopCounter
        BY <3>4 DEF CountsOnEntry
      <4>2. Cardinality(LoopsAround(a)) = Cardinality(LoopsAround(p))
        BY <3>0, <3>1, <3>4, LoopCount
      <4> QED BY <1>4, <1>6, <3>1, <3>4, <4>1, <4>2
    <3> QED BY <3>2, <3>3, <3>4
  <2> QED BY <2>1, <2>2
<1>7. CASE n # a
  <2>1. IsRunning(n) /\ n < a /\ scopeOf'[n] = scopeOf[n]
    BY <1>1, <1>2, <1>7 DEF PathInv, Walks, IsRunning
  <2>2. ASSUME NEW m \in 1..size, IsRunning(m), m > n PROVE scopeOf[m] # scopeOf[n]
    <3>1. m # a
      BY <1>1, <2>2 DEF IsRunning
    <3> QED BY <1>2, <2>1, <2>2, <3>1 DEF IsRunning
  <2>3. loopCounter[scopeOf[n]] = Cardinality(LoopsAround(n))
    BY <2>1, <2>2 DEF CounterInv, IsInnermostIn
  <2>4. scopeOf'[a] # scopeOf[n]
    BY <1>1, <1>2, <2>1
  <2>5. CASE KindOf(a) = "block"
    <3>1. scopeOf[n] <= n
      BY <1>1 DEF OwnScopeInv
    <3>2. scopeOf[n] # a
      BY <1>1, <2>1, <3>1, AstAssumption DEF Stmt, None
    <3>3. \E v : loopCounter' = [loopCounter EXCEPT ![a] = v]
      BY <2>5 DEF CountsOnEntry
    <3> QED BY <1>1, <2>1, <2>3, <3>2, <3>3
  <2>6. CASE KindOf(a) = "while"
    <3>1. \E v : loopCounter' = [loopCounter EXCEPT ![Scope] = v]
      BY <2>6 DEF CountsOnEntry
    <3> QED BY <1>1, <1>4, <2>1, <2>3, <2>4, <2>6, <3>1
  <2>7. CASE KindOf(a) \notin {"block", "while"}
    BY <2>1, <2>3, <2>7 DEF CountsOnEntry
  <2> QED BY <2>5, <2>6, <2>7
<1> QED BY <1>6, <1>7

\* A handler returns: a while takes back what it has counted.
LEMMA CounterLeft ==
  ASSUME TreeAndTypes, PathInv, OwnScopeInv, CounterInv, phase = "typecheck",
         NEW a \in 2..size, a = at, Leaves, Resuming, scopeOf' = scopeOf, CountsOnReturn,
         NEW n \in 1..size, status'[n] = "running",
         \A m \in 1..size : status'[m] = "running" /\ m > n => scopeOf[m] # scopeOf[n]
  PROVE  loopCounter'[scopeOf[n]] = Cardinality(LoopsAround(n))
<1>0. PICK p \in 1..size : p = Parent(a) /\ p < a
  BY Ranges
<1>1. /\ status[a] = "running" /\ a \in Stmt /\ n \in Stmt /\ size \in Nat /\ a \in 1..size
      /\ loopCounter \in [Stmt -> Int] /\ scopeOf \in [Stmt -> Stmt \cup {None}]
  BY Ranges DEF TreeAndTypes, TypeOK, SemaTypeOK, Resuming
<1>2. /\ \A m \in 1..size : m # a => status'[m] = status[m]
      /\ status'[a] = "returned"
  <2>1. status' = [status EXCEPT ![a] = "returned"] /\ status \in [Stmt -> Statuses]
    BY DEF Leaves, Return, TreeAndTypes, TypeOK, ParserTypeOK
  <2> QED BY <1>1, <2>1, Ranges
<1>3. Scope \in Stmt /\ Scope = scopeOf[p] /\ status[p] = "running"
      /\ \A m \in 1..size : status[m] = "running" => m <= a /\ (m # a => m <= p)
  <2>1. at \notin {None, Root}
    BY DEF Leaves
  <2>2. IsRunning(Parent(at)) /\ \A m \in 1..size : IsRunning(m) => m <= at /\ (m # at => m <= Parent(at))
    BY <2>1, LargestRunning DEF Walks
  <2> QED BY <1>0, <2>1, <2>2, ScopeType DEF Scope, IsRunning
<1>4. status[n] = "running" /\ n # a /\ n <= p /\ status'[p] = "running"
  BY <1>0, <1>1, <1>2, <1>3
<1>5. /\ KindOf(a) = "block" => scopeOf[a] = a
      /\ KindOf(a) # "block" => scopeOf[a] = Scope
  <2>1. KindOf(a) \notin LeafKind
    BY <1>1 DEF PathInv, Walks, IsRunning
  <2>2. KindOf(a) \in Kind
    BY <1>1 DEF TreeAndTypes, TypeOK, ParserTypeOK, Statement, KindOf
  <2>3. KindOf(a) = "block" \/ KindOf(a) \in BranchKind
    BY <2>1, <2>2 DEF Kind
  <2>4. Called(a)
    BY <1>1 DEF Called
  <2> QED BY <1>0, <1>1, <1>3, <2>3, <2>4 DEF OwnScopeInv, BranchKind
<1>6. loopCounter[scopeOf[a]] = Cardinality(LoopsAround(a))
  <2>1. IsInnermostIn(a, scopeOf[a])
    BY <1>1, <1>3 DEF IsInnermostIn, IsRunning
  <2> QED BY <1>1, <2>1 DEF CounterInv
<1>7. /\ Cardinality(LoopsAround(p)) \in Nat
      /\ KindOf(a) = "while" => Cardinality(LoopsAround(a)) = Cardinality(LoopsAround(p)) + 1
      /\ KindOf(a) # "while" => Cardinality(LoopsAround(a)) = Cardinality(LoopsAround(p))
  BY <1>0, LoopCount
<1>8. CASE scopeOf[n] = scopeOf[a]
  <2>1. KindOf(a) # "block"
    <3>1. scopeOf[n] <= n /\ scopeOf[n] \in Int
      BY <1>1, AstAssumption DEF OwnScopeInv, Stmt, None
    <3> QED BY <1>0, <1>1, <1>4, <1>5, <1>8, <3>1
  <2>2. scopeOf[n] = Scope /\ scopeOf[p] = Scope
    BY <1>3, <1>5, <1>8, <2>1
  <2>3. n = p
    BY <1>4, <2>2
  <2>4. CASE KindOf(a) = "while"
    <3>1. loopCounter' = [loopCounter EXCEPT ![Scope] = loopCounter[Scope] - 1]
      BY <2>4 DEF CountsOnReturn, UncountLoop
    <3>2. loopCounter'[Scope] = loopCounter[Scope] - 1
      BY <1>1, <1>3, <3>1
    <3> QED BY <1>6, <1>7, <1>8, <2>2, <2>3, <2>4, <3>2
  <2>5. CASE KindOf(a) # "while"
    BY <1>6, <1>7, <1>8, <2>3, <2>5 DEF CountsOnReturn
  <2> QED BY <2>4, <2>5
<1>9. CASE scopeOf[n] # scopeOf[a]
  <2>1. ASSUME NEW m \in 1..size, IsRunning(m), m > n PROVE scopeOf[m] # scopeOf[n]
    BY <1>2, <1>9, <2>1 DEF IsRunning
  <2>2. loopCounter[scopeOf[n]] = Cardinality(LoopsAround(n))
    BY <1>4, <2>1 DEF CounterInv, IsInnermostIn, IsRunning
  <2>3. CASE KindOf(a) = "while"
    <3>1. scopeOf[n] # Scope
      BY <1>5, <1>9, <2>3
    <3>2. loopCounter' = [loopCounter EXCEPT ![Scope] = UncountLoop]
      BY <2>3 DEF CountsOnReturn
    <3> QED BY <1>1, <2>2, <3>1, <3>2
  <2>4. CASE KindOf(a) # "while"
    BY <2>2, <2>4 DEF CountsOnReturn
  <2> QED BY <2>3, <2>4
<1> QED BY <1>8, <1>9

LEMMA CounterStep ==
  ASSUME TreeAndTypes, TreeAndTypes', PathInv, OwnScopeInv, CounterInv, [Next]_vars_
  PROVE  CounterInv'
<1>1. CASE Parse
  <2>1. phase' = "typecheck" => FinishBody
    BY <1>1 DEF Parse, StartBody, OpenStatement, LeafStatement, RefuseStatement, SyntaxError,
       FinishStatement, ReadsStatement, Reject
  <2>2. CASE FinishBody
    <3>1. status' = AllUncalled /\ size' = size
      BY <2>2 DEF FinishBody, TreeAndTypes, PassInv
    <3>2. \A n \in 1..size : ~IsRunning(n)'
      BY <3>1, Ranges DEF AllUncalled, IsRunning
    <3> QED BY <3>1, <3>2 DEF CounterInv, IsInnermostIn
  <2> QED BY <2>1, <2>2 DEF CounterInv
<1>2. CASE Typecheck /\ phase' = "typecheck"
  <2>1. phase = "typecheck" /\ at # None /\ UNCHANGED <<ast, size>>
    BY <1>2, CheckKinds
  <2>2. PICK a \in 1..size : a = at
    BY <2>1, Basics DEF None
  <2>3. SUFFICES ASSUME NEW n \in 1..size, status'[n] = "running",
                        \A m \in 1..size : status'[m] = "running" /\ m > n => scopeOf'[m] # scopeOf'[n]
                 PROVE  loopCounter'[scopeOf'[n]] = Cardinality(LoopsAround(n))
    <3>1. \A n \in 1..size : Cardinality(LoopsAround(n))' = Cardinality(LoopsAround(n))
      BY <2>1, LoopsKept
    <3>2. \A n \in 1..size : IsInnermostIn(n, scopeOf[n])' => status'[n] = "running" /\
            \A m \in 1..size : status'[m] = "running" /\ m > n => scopeOf'[m] # scopeOf'[n]
      BY <2>1 DEF IsInnermostIn, IsRunning
    <3> QED BY <2>1, <2>3, <3>1, <3>2 DEF CounterInv
  <2>4. CASE Enters /\ scopeOf' = [scopeOf EXCEPT ![at] = ScopeForKids] /\ CountsOnEntry
    BY <2>2, <2>1, <2>3, <2>4, CounterEntered
  <2>5. CASE (CheckChild \/ (Leaves /\ Entering)) /\ scopeOf' = scopeOf /\ loopCounter' = loopCounter
    <3>1. \A m \in 1..size : status'[m] = "running" <=> IsRunning(m)
      <4>1. CASE CheckChild
        BY <4>1 DEF CheckChild, IsRunning
      <4>2. CASE Leaves /\ Entering
        <5>1. status' = [status EXCEPT ![a] = "returned"] /\ status[a] = "uncalled"
          BY <2>2, <4>2 DEF Leaves, Return, Entering
        <5>2. status \in [Stmt -> Statuses]
          BY DEF TreeAndTypes, TypeOK, ParserTypeOK
        <5> QED BY <5>1, <5>2, Ranges DEF IsRunning
      <4> QED BY <2>5, <4>1, <4>2
    <3> QED BY <2>1, <2>3, <2>5, <3>1 DEF CounterInv, IsInnermostIn
  <2>6. CASE Leaves /\ Resuming /\ scopeOf' = scopeOf /\ CountsOnReturn
    <3>1. a \in 2..size
      BY <2>2, <2>6, Ranges DEF Leaves, Root
    <3> QED BY <2>2, <2>1, <2>3, <2>6, <3>1, CounterLeft
  <2> QED BY <1>2, <2>4, <2>5, <2>6, CounterEffects
<1>3. CASE Typecheck /\ phase' # "typecheck"
  BY <1>3 DEF CounterInv
<1>4. CASE Compile
  BY <1>4, CompileKinds DEF CounterInv, Ends
<1>5. CASE UNCHANGED vars_
  <2>1. UNCHANGED <<phase, ast, size, status, scopeOf, loopCounter>>
    BY <1>5 DEF vars_, parserVars, semaVars
  <2>2. \A n \in 1..size : Cardinality(LoopsAround(n))' = Cardinality(LoopsAround(n))
    BY <2>1, LoopsKept
  <2> QED BY <2>1, <2>2 DEF CounterInv, IsInnermostIn, IsRunning
<1> QED BY <1>1, <1>2, <1>3, <1>4, <1>5 DEF Next
------------------------------------------------------------------------------
\* What the type checker finds out of a statement.

\* The scopes hold the declarations in front of "at" and no others.
LEMMA DeclaringIsVisible ==
  ASSUME TreeAndTypes, OrderInv, VarsInv, phase = "typecheck", at # None, Entering
  PROVE  Declaring(ast[at].name) = IF ast[at].name = NoName THEN {} ELSE Visible(at)
<1>0. PICK a \in 1..size : a = at
  BY Basics DEF None
<1> DEFINE x == ast[a].name
<1>1. /\ vars \in [Stmt -> SUBSET Name] /\ NoName \notin Name /\ ParamNames \subseteq Name
  BY AstAssumption DEF TreeAndTypes, TypeOK, SemaTypeOK, ParamNames
<1>2. \A d \in 1..size : Called(d) <=> d < a
  <2>1. ~Called(a)
    BY <1>0 DEF Entering, Called
  <2> QED BY <1>0, <2>1, Ranges DEF OrderInv
<1>3. \A d \in OfKind("declaration") : d \in 1..size
  BY DEF OfKind
<1>4. ASSUME NEW b \in Stmt, x # NoName
      PROVE  x \in vars[b] <=> x \in DeclaredBefore(b, a)
  <2>1. vars[b] = NamesOf(CalledDeclarations(b)) \cup (IF b = Root THEN ParamNames ELSE {})
    BY DEF VarsInv
  <2>2. CalledDeclarations(b) = {e \in OfKind("declaration") : Parent(e) = b /\ e < a}
    BY <1>2, <1>3 DEF CalledDeclarations
  <2>3. x \in NamesOf(CalledDeclarations(b))
          <=> x \in {ast[d].name : d \in {e \in OfKind("declaration") : Parent(e) = b /\ e < a}}
    BY <1>4, <2>2 DEF NamesOf
  <2> QED BY <2>1, <2>3 DEF DeclaredBefore
<1>5. CASE x = NoName
  <2>1. \A b \in EnclosingBlocks(at) : x \notin vars[b]
    BY <1>1, <1>5 DEF EnclosingBlocks
  <2> QED BY <1>0, <1>5, <2>1 DEF Declaring
<1>6. CASE x # NoName
  <2>1. \A b \in EnclosingBlocks(a) : b \in Stmt
    BY DEF EnclosingBlocks
  <2> HIDE DEF x
  <2>2. Declaring(x) = {b \in EnclosingBlocks(a) : x \in vars[b]}
    BY <1>0 DEF Declaring
  <2>3. Visible(a) = {b \in EnclosingBlocks(a) : x \in DeclaredBefore(b, a)}
    BY DEF Visible, x
  <2>4. Declaring(x) = Visible(a)
    BY <1>4, <1>6, <2>1, <2>2, <2>3
  <2> QED BY <1>0, <1>6, <2>4 DEF x
<1> QED BY <1>5, <1>6

LEMMA InnermostIs ==
  ASSUME NEW S, S \subseteq Int, NEW b, IsInnermost(b, S)
  PROVE  Innermost(S) = b
<1>1. b \in S /\ \A m \in S : m <= b
  BY DEF IsInnermost
<1>2. \E c \in S : IsInnermost(c, S)
  BY <1>1
<1>3. Innermost(S) \in S /\ IsInnermost(Innermost(S), S)
  BY <1>2, Zenon DEF Innermost
<1>4. Innermost(S) <= b /\ b <= Innermost(S) /\ b \in Int /\ Innermost(S) \in Int
  BY <1>1, <1>3 DEF IsInnermost
<1> QED BY <1>4

LEMMA ResolvedInnermost ==
  ASSUME TreeAndTypes, OrderInv, VarsInv, phase = "typecheck", at # None, Entering, Resolve
  PROVE  /\ resolved'[at] = IF Visible(at) = {} \/ ast[at].name = NoName
                            THEN None ELSE Innermost(Visible(at))
         /\ \A n \in Stmt : n # at => resolved'[n] = resolved[n]
<1>1. PICK b \in Stmt \cup {None} :
        LooksUp(ast[at].name, b) /\ resolved' = [resolved EXCEPT ![at] = b]
  BY DEF Resolve
<1>2. resolved \in [Stmt -> Stmt \cup {None}] /\ at \in Stmt
  BY Basics, Ranges DEF TreeAndTypes, TypeOK, SemaTypeOK, None
<1>3. Declaring(ast[at].name) = IF ast[at].name = NoName THEN {} ELSE Visible(at)
  BY DeclaringIsVisible
<1>4. Visible(at) \subseteq Int
  BY AstAssumption DEF Visible, EnclosingBlocks, Stmt
<1>5. b = IF Visible(at) = {} \/ ast[at].name = NoName THEN None ELSE Innermost(Visible(at))
  <2>1. CASE Visible(at) = {} \/ ast[at].name = NoName
    BY <1>1, <1>3, <2>1 DEF LooksUp
  <2>2. CASE Visible(at) # {} /\ ast[at].name # NoName
    <3>1. IsInnermost(b, Visible(at))
      BY <1>1, <1>3, <2>2 DEF LooksUp
    <3> QED BY <1>4, <2>2, <3>1, InnermostIs
  <2> QED BY <2>1, <2>2
<1> QED BY <1>1, <1>2, <1>5

\* The facts about an accepted statement are about the statements alone.
LEMMA AcceptedKept ==
  ASSUME TreeAndTypes, TreeAndTypes', UNCHANGED <<ast, size, labels>>, NEW n \in 1..size,
         resolved'[n] = resolved[n]
  PROVE  IsAccepted(n)' <=> IsAccepted(n)
<1>1. EnclosingBlocks(n)' = EnclosingBlocks(n) /\ EnclosingWhiles(n)' = EnclosingWhiles(n)
  BY LoopsKept
<1>2. \A b : DeclaredBefore(b, n)' = DeclaredBefore(b, n)
  BY DEF DeclaredBefore, OfKind, Parent
<1>3. Visible(n)' = Visible(n)
  BY <1>1, <1>2 DEF Visible
<1>4. KindOf(n)' = KindOf(n)
  BY DEF KindOf
<1> QED BY <1>1, <1>3, <1>4 DEF IsAccepted

\* A statement is accepted by the step that checks it.
LEMMA AcceptedNow ==
  ASSUME TreeAndTypes, TreeAndTypes', PathInv, OrderInv, VarsInv, CounterInv,
         Typecheck, phase' = "typecheck", NEW a \in 1..size, a = at, Entering
  PROVE  IsAccepted(a)' /\ \A n \in 1..size : n # a => resolved'[n] = resolved[n]
<1>1. phase = "typecheck" /\ at # None /\ UNCHANGED <<ast, size, labels>>
  <2>1. UNCHANGED labels
    BY DEF Typecheck, CheckBlock, CheckCondition, CheckLabeled, CheckChild, LeaveChecked,
       CheckDeclaration, CheckExpression, CheckJump, RejectStatement, FinishTypecheck, CheckedLeaf
  <2> QED BY <2>1, CheckKinds
<1>2. EnclosingBlocks(a)' = EnclosingBlocks(a) /\ EnclosingWhiles(a)' = EnclosingWhiles(a)
  BY <1>1, LoopsKept
<1>3. Visible(a)' = Visible(a)
  <2>1. \A b : DeclaredBefore(b, a)' = DeclaredBefore(b, a)
    BY <1>1 DEF DeclaredBefore, OfKind, Parent
  <2> QED BY <1>1, <1>2, <2>1 DEF Visible
<1>4. KindOf(a)' = KindOf(a) /\ ast'[a].name = ast[a].name
  BY <1>1 DEF KindOf
<1>5. CASE CheckBlock \/ CheckLabeled \/ CheckDeclaration
  <2>1. KindOf(a) \in {"block", "labeled", "declaration"} /\ resolved' = resolved
    BY <1>5 DEF CheckBlock, CheckLabeled, CheckDeclaration, Checks
  <2> QED BY <1>4, <2>1 DEF IsAccepted, EvalKind
<1>6. CASE CheckCondition \/ CheckExpression
  <2>1. /\ KindOf(a) \in EvalKind /\ IsDeclared(ast[a].name) /\ Resolve
        /\ KindOf(a) = "return value" => FitsReturnType("return value")
    BY <1>6 DEF CheckCondition, CheckExpression, Checks, Evaluates, EvalKind
  <2>2. /\ resolved'[a] = IF Visible(a) = {} \/ ast[a].name = NoName
                          THEN None ELSE Innermost(Visible(a))
        /\ \A n \in Stmt : n # a => resolved'[n] = resolved[n]
    BY <1>1, <2>1, ResolvedInnermost
  <2>3. ast[a].name \in Global \cup {NoName} \/ Visible(a) # {}
    <3>1. Declaring(ast[at].name) = IF ast[at].name = NoName THEN {} ELSE Visible(at)
      BY <1>1, DeclaringIsVisible
    <3> QED BY <2>1, <3>1 DEF IsDeclared
  <2> QED BY <1>3, <1>4, <2>1, <2>2, <2>3, Ranges DEF IsAccepted, EvalKind
<1>7. CASE CheckJump
  <2>1. /\ KindOf(a) \in {"goto", "break", "continue", "return", "empty"} /\ IsLegalJump
        /\ resolved' = resolved
    BY <1>7 DEF CheckJump, Checks, semaVars
  <2>2. KindOf(a) = "goto" => ast[a].name \in labels
    BY <2>1 DEF IsLegalJump, IsLabelDefined
  <2>3. KindOf(a) \in {"break", "continue"} => EnclosingWhiles(a) # {}
    <3> SUFFICES ASSUME KindOf(a) \in {"break", "continue"}, EnclosingWhiles(a) = {} PROVE FALSE
      OBVIOUS
    <3>1. at \notin {None, Root} /\ a \in 2..size
      BY <1>1, InnerStatement, Ranges DEF Root
    <3>2. loopCounter[Scope] = Cardinality(LoopsAround(Parent(a)))
      BY <1>1, <3>1, CounterHere
    <3>3. LoopsAround(Parent(a)) = {}
      BY <3>1, LoopsAroundParent
    <3>4. loopCounter[Scope] # 0
      BY <2>1 DEF IsLegalJump, IsInLoop
    <3> QED BY <3>2, <3>3, <3>4, FS_EmptySet
  <2>4. KindOf(a) = "return" => FitsReturnType("return")
    BY <2>1 DEF IsLegalJump
  <2> QED BY <1>1, <1>2, <1>4, <2>1, <2>2, <2>3, <2>4 DEF IsAccepted, EvalKind
<1>8. ~CheckChild /\ ~LeaveChecked /\ ~RejectStatement /\ ~FinishTypecheck
  BY DEF CheckChild, LeaveChecked, RejectStatement, Reject, FinishTypecheck, Entering, Resuming
<1> QED BY <1>5, <1>6, <1>7, <1>8 DEF Typecheck

LEMMA CheckedStep ==
  ASSUME TreeAndTypes, TreeAndTypes', ShapeInv, PathInv, OrderInv, VarsInv, CounterInv,
         CheckedInv, [Next]_vars_
  PROVE  CheckedInv'
<1>1. CASE Parse
  <2>1. phase' # "compile" /\ (phase' = "typecheck" => FinishBody)
    BY <1>1 DEF Parse, StartBody, OpenStatement, LeafStatement, RefuseStatement, SyntaxError,
       FinishStatement, FinishBody, ReadsStatement, Reject
  <2>2. CASE FinishBody
    <3>1. status' = AllUncalled /\ size' = size
      BY <2>2 DEF FinishBody, TreeAndTypes, PassInv
    <3>2. \A n \in 1..size : ~Called(n)'
      BY <3>1, Ranges DEF AllUncalled, Called
    <3> QED BY <2>1, <3>1, <3>2 DEF CheckedInv, IsChecked
  <2> QED BY <2>1, <2>2 DEF CheckedInv, IsChecked
<1>2. CASE Typecheck /\ phase' = "typecheck"
  <2>1. phase = "typecheck" /\ at # None /\ UNCHANGED <<ast, size, labels>>
    <3>1. UNCHANGED labels
      BY <1>2 DEF Typecheck, CheckBlock, CheckCondition, CheckLabeled, CheckChild, LeaveChecked,
         CheckDeclaration, CheckExpression, CheckJump, RejectStatement, FinishTypecheck, CheckedLeaf
    <3> QED BY <1>2, <3>1, CheckKinds
  <2>2. PICK a \in 1..size : a = at
    BY <2>1, Basics DEF None
  <2>3. ASSUME NEW n \in 1..size, Called(n)' PROVE IsAccepted(n)'
    <3>1. CASE Entering
      <4>1. IsAccepted(a)' /\ (n # a => resolved'[n] = resolved[n])
        BY <1>2, <2>2, <3>1, AcceptedNow
      <4>2. n # a => Called(n)
        BY <1>2, <2>2, <2>3, CheckKinds, CalledAfter
      <4> QED BY <2>1, <4>1, <4>2, AcceptedKept DEF CheckedInv, IsChecked
    <3>2. CASE ~Entering
      <4>1. CheckChild \/ LeaveChecked
        BY <1>2, <3>2 DEF Typecheck, CheckBlock, CheckCondition, CheckLabeled, CheckDeclaration,
           CheckExpression, CheckJump, Checks, RejectStatement, FinishTypecheck
      <4>2. resolved' = resolved
        BY <4>1 DEF CheckChild, LeaveChecked, semaVars
      <4>3. Called(n)
        BY <1>2, <2>2, <2>3, <3>2, CheckKinds, CalledAfter
      <4> QED BY <2>1, <4>2, <4>3, AcceptedKept DEF CheckedInv, IsChecked
    <3> QED BY <3>1, <3>2
  <2> QED BY <1>2, <2>1, <2>3 DEF CheckedInv, IsChecked
<1>3. CASE Typecheck /\ phase' # "typecheck"
  <2>1. CASE RejectStatement
    BY <2>1 DEF RejectStatement, Reject, CheckedInv, IsChecked
  <2>2. CASE FinishTypecheck
    <3>1. /\ phase = "typecheck" /\ at = Root /\ Resuming /\ AllCalled(Kids(Root))
          /\ UNCHANGED <<ast, size, labels, resolved>>
      BY <2>2 DEF FinishTypecheck, semaVars
    <3>2. \A n \in 1..size : Called(n)
      BY <3>1, PassComplete DEF Walks, Called
    <3> QED BY <3>1, <3>2, AcceptedKept DEF CheckedInv, IsChecked
  <2> QED BY <1>3, <2>1, <2>2 DEF Typecheck, CheckBlock, CheckCondition, CheckLabeled, CheckChild,
        LeaveChecked, CheckDeclaration, CheckExpression, CheckJump, Checks, CheckedLeaf
<1>4. CASE Compile /\ UNCHANGED semaVars
  <2>1. phase = "compile" /\ UNCHANGED <<ast, size, labels, resolved>>
    BY <1>4, CompileKinds DEF semaVars, Compile, CompileFunction, CompileScope, CompileCondition,
       CompileChild, LeaveCompiled, CompileDeclaration, CompileExpression, CompileEmpty,
       CompileJump, Jump, FinishFunction
  <2>2. phase' # "typecheck"
    BY <1>4, CompileKinds DEF Ends
  <2> QED BY <2>1, <2>2, AcceptedKept DEF CheckedInv, IsChecked
<1>5. CASE UNCHANGED vars_
  <2>1. UNCHANGED <<phase, ast, size, labels, status, resolved>>
    BY <1>5 DEF vars_, parserVars, semaVars
  <2> QED BY <2>1, AcceptedKept DEF CheckedInv, IsChecked, Called
<1> QED BY <1>1, <1>2, <1>3, <1>4, <1>5 DEF Next
------------------------------------------------------------------------------
Checking ==
  TreeAndTypes /\ ShapeInv /\ OpenInv /\ PathInv /\ SemaInv

LEMMA InitChecking == Init => Checking
<1> SUFFICES ASSUME Init PROVE Checking
  OBVIOUS
<1>1. phase = "parse" /\ size = 0 /\ at = 0 /\ status = AllUncalled
  BY DEF Init, ParserInit, None
<1>2. TreeAndTypes
  BY InitTreeAndTypes
<1>3. ShapeInv /\ OpenInv /\ PathInv
  BY <1>1 DEF ShapeInv, OpenInv, PathInv, Walks, OfKind, None
<1>4. OrderInv /\ CounterInv /\ CheckedInv
  BY <1>1 DEF OrderInv, CounterInv, CheckedInv
<1>5. OwnScopeInv
  BY <1>1, AstAssumption DEF OwnScopeInv, Init, SemaInit, None, Stmt
<1>6. VarsInv
  <2>1. \A b : CalledDeclarations(b) = {}
    BY <1>1 DEF CalledDeclarations, OfKind
  <2>2. NamesOf({}) = {}
    BY DEF NamesOf
  <2> QED BY <2>1, <2>2 DEF VarsInv, Init, SemaInit, FunctionScopeVars
<1> QED BY <1>2, <1>3, <1>4, <1>5, <1>6 DEF Checking, SemaInv

LEMMA CheckingStep ==
  ASSUME Checking, [Next]_vars_
  PROVE  Checking'
<1> USE DEF Checking, SemaInv
<1>1. TreeAndTypes'
  BY TreeAndTypesStep
<1>2. ShapeInv' /\ OpenInv' /\ PathInv'
  BY <1>1, ShapeStep, PathStep
<1>3. OrderInv' /\ OwnScopeInv' /\ VarsInv'
  BY <1>1, OrderStep, OwnScopeStep, VarsStep
<1>4. CounterInv' /\ CheckedInv'
  BY <1>1, CounterStep, CheckedStep
<1> QED BY <1>1, <1>2, <1>3, <1>4

LEMMA CheckingHolds == Spec => []Checking
BY InitChecking, CheckingStep, PTL DEF Spec

(***************************************************************************)
(* Whatever the body, the lookup for an expression ends in the innermost   *)
(* scope that an earlier declaration, or a parameter, has put its name     *)
(* into: a scope holds at that moment what is declared in front of the     *)
(* statement and nothing else (scope.cpp:3-11 and 54-78).                  *)
(***************************************************************************)
THEOREM LookupsFindDeclarations == Spec => []LookupFindsInnermostDeclaration
<1>1. Checking => LookupFindsInnermostDeclaration
  <2> SUFFICES ASSUME Checking, NEW n \in 1..size, phase = "typecheck", Called(n),
                      KindOf(n) \in EvalKind
               PROVE  resolved[n] = IF Visible(n) = {} \/ ast[n].name = NoName
                                    THEN None ELSE Innermost(Visible(n))
    BY DEF LookupFindsInnermostDeclaration, Visible
  <2> QED BY DEF Checking, SemaInv, CheckedInv, IsChecked, IsAccepted
<1> QED BY <1>1, CheckingHolds, PTL

(***************************************************************************)
(* However deep the nesting of blocks and loops, the counter that decides  *)
(* about a break or continue is the number of while statements around it   *)
(* (scope.h:14-19, controlflow.cpp:172-180).                               *)
(***************************************************************************)
THEOREM LoopsAreCounted == Spec => []LoopCounterCountsLoops
<1>1. Checking => LoopCounterCountsLoops
  <2> SUFFICES ASSUME Checking, phase = "typecheck", Entering, at # Root
               PROVE  loopCounter[Scope] = Cardinality(EnclosingWhiles(at))
    BY DEF LoopCounterCountsLoops
  <2>1. at \in 2..size
    BY Basics DEF Checking, TreeAndTypes, TreeInv, Ends, None, Root
  <2>2. EnclosingWhiles(at) = LoopsAround(Parent(at))
    BY <2>1, LoopsAroundParent DEF Checking
  <2>3. loopCounter[Scope] = Cardinality(LoopsAround(Parent(at)))
    BY <2>1, CounterHere DEF Checking, SemaInv, None, Root
  <2> QED BY <2>2, <2>3
<1> QED BY <1>1, CheckingHolds, PTL
==============================================================================
