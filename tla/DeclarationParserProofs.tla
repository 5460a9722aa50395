------------------------ MODULE DeclarationParserProofs ------------------------
(***************************************************************************)
(* The parser's variables, the frames of its callers included, keep their  *)
(* types for inputs of any length; and whatever a function of the parser   *)
(* returns is a tree, never nothing.                                       *)
(***************************************************************************)
EXTENDS DeclarationParser, TLAPS

(***************************************************************************)
(* The inductive invariant.  A caller that goes on behind an operand needs *)
(* an operator to put behind it, and the functions that have begun a tree  *)
(* have one.                                                               *)
(***************************************************************************)
NeedsOperator == {"right", "prefix"}
HasBegun == {"return", "components", "next component", "suffixes", "parameters",
             "next parameter"}
Place == {"assign", "assigned", "condition", "then", "else", "operand", "right",
          "prefix", "primary", "index", "argument", "parentheses", "type name",
          "specified", "component", "declared", "nonfun", "parenthesized", "pointed",
          "parameter"}

InputOK == tokens \in Seq(Token \cup {End}) /\ pos \in Nat \ {0}
CallersOK ==
  /\ stack \in Seq(Frame)
  /\ \A k \in 1..Len(stack) : stack[k].to \in NeedsOperator => stack[k].op \in Node
CallOK ==
  /\ fn \in Function \cup {"accepted", "rejected"}
  /\ left \in Seq(Node)
  /\ minPrec \in Level \cup {6} /\ declKind \in DeclKind
  /\ fn \in HasBegun => left # NoTree

ParserInv == InputOK /\ CallOK /\ CallersOK

LEMMA InvTypes == ParserInv => ParserTypeOK
BY DEF ParserInv, ParserTypeOK, InputOK, CallOK, CallersOK

(***************************************************************************)
(* Trees and stacks.                                                       *)
(***************************************************************************)
LEMMA NoTreeIsTree == NoTree \in Seq(Node)
BY DEF NoTree

LEMMA Joined ==
  ASSUME NEW s \in Seq(Node), NEW t \in Seq(Node)
  PROVE  /\ s \o t \in Seq(Node)
         /\ s # NoTree \/ t # NoTree => s \o t # NoTree
<1>1. s \o t \in Seq(Node)
  OBVIOUS
<1>2. Len(s \o t) = Len(s) + Len(t) /\ Len(s) \in Nat /\ Len(t) \in Nat
  OBVIOUS
<1>3. (s = NoTree <=> Len(s) = 0) /\ (t = NoTree <=> Len(t) = 0)
  BY DEF NoTree
<1>4. ASSUME s # NoTree \/ t # NoTree PROVE s \o t # NoTree
  BY <1>2, <1>3, <1>4 DEF NoTree
<1> QED BY <1>1, <1>4

LEMMA Leaf ==
  ASSUME NEW n \in Node
  PROVE  <<n>> \in Seq(Node) /\ <<n>> # NoTree
BY DEF NoTree

\* A node is written behind one tree, or behind two.
LEMMA NodeBehind ==
  ASSUME NEW s \in Seq(Node), NEW n \in Node
  PROVE  s \o <<n>> \in Seq(Node) /\ s \o <<n>> # NoTree
BY Leaf, Joined

LEMMA NodeBehindTwo ==
  ASSUME NEW s \in Seq(Node), NEW t \in Seq(Node), NEW n \in Node
  PROVE  s \o t \o <<n>> \in Seq(Node) /\ s \o t \o <<n>> # NoTree
<1>1. PICK u \in Seq(Node) : u = s \o t
  BY Joined
<1> QED BY <1>1, NodeBehind

LEMMA Innermost ==
  ASSUME CallersOK, stack # <<>>
  PROVE  /\ stack[1].to \in Place /\ stack[1].tree \in Seq(Node)
         /\ stack[1].op \in Node \cup {"none"}
         /\ stack[1].minPrec \in Level \cup {6} /\ stack[1].declKind \in DeclKind
         /\ stack[1].to \in NeedsOperator => stack[1].op \in Node
<1>1. stack \in Seq(Frame) /\ 1 \in 1..Len(stack)
  BY DEF CallersOK
<1>2. stack[1] \in Frame
  BY <1>1
<1> QED BY <1>1, <1>2 DEF CallersOK, Frame, Place

LEMMA Pushed ==
  ASSUME CallersOK, NEW frame \in Frame, frame.to \in NeedsOperator => frame.op \in Node,
         stack' = <<frame>> \o stack
  PROVE  CallersOK'
<1>1. stack \in Seq(Frame) /\ <<frame>> \in Seq(Frame)
  BY DEF CallersOK
<1>2. stack' \in Seq(Frame) /\ Len(stack') = Len(stack) + 1 /\ Len(stack) \in Nat
  BY <1>1
<1>3. ASSUME NEW k \in 1..Len(stack')
      PROVE  stack'[k] = frame \/ \E j \in 1..Len(stack) : stack'[k] = stack[j]
  <2>1. stack'[k] = IF k = 1 THEN frame ELSE stack[k - 1]
    BY <1>1, <1>2
  <2>2. k # 1 => k - 1 \in 1..Len(stack)
    BY <1>2
  <2> QED BY <2>1, <2>2
<1> QED BY <1>2, <1>3 DEF CallersOK

LEMMA Popped ==
  ASSUME CallersOK, stack # <<>>, stack' = Tail(stack)
  PROVE  CallersOK'
<1>1. stack \in Seq(Frame) /\ Len(stack) \in Nat \ {0}
  BY DEF CallersOK
<1>2. stack' \in Seq(Frame) /\ Len(stack') = Len(stack) - 1
  BY <1>1
<1>3. ASSUME NEW k \in 1..Len(stack') PROVE stack'[k] = stack[k + 1] /\ k + 1 \in 1..Len(stack)
  BY <1>1, <1>2
<1> QED BY <1>2, <1>3 DEF CallersOK

\* Records of five fields, two of which are set.
LEMMA ExceptTwo ==
  ASSUME NEW P, NEW T, NEW O, NEW M, NEW D,
         NEW f \in [to : P, tree : T, op : O, minPrec : M, declKind : D],
         NEW to \in P, NEW tree \in T
  PROVE  /\ [f EXCEPT !.to = to, !.tree = tree]
              \in [to : P, tree : T, op : O, minPrec : M, declKind : D]
         /\ [f EXCEPT !.to = to, !.tree = tree].to = to
OBVIOUS

LEMMA Replaced ==
  ASSUME CallersOK, stack # <<>>, NEW to \in Place \ NeedsOperator, NEW tree \in Seq(Node),
         stack' = <<[stack[1] EXCEPT !.to = to, !.tree = tree]>> \o Tail(stack)
  PROVE  CallersOK'
<1>1. stack \in Seq(Frame) /\ Len(stack) \in Nat \ {0} /\ stack[1] \in Frame
  BY DEF CallersOK
<1>2. PICK frame \in Frame : /\ frame = [stack[1] EXCEPT !.to = to, !.tree = tree]
                             /\ frame.to = to
  <2>1. PICK f \in Frame : f = stack[1]
    BY <1>1
  <2>2. /\ [f EXCEPT !.to = to, !.tree = tree] \in Frame
        /\ [f EXCEPT !.to = to, !.tree = tree].to = to
    BY ExceptTwo DEF Frame, Place
  <2> QED BY <2>1, <2>2
<1>3. PICK rest \in Seq(Frame) : /\ rest = Tail(stack) /\ Len(rest) = Len(stack) - 1
                                 /\ \A k \in 1..Len(rest) : rest[k] = stack[k + 1]
  <2>0. Tail(stack) \in Seq(Frame)
    BY ONLY <1>1
  <2>1. PICK rest \in Seq(Frame) : rest = Tail(stack)
    BY <2>0
  <2>2. Len(rest) = Len(stack) - 1
    BY <1>1, <2>1
  <2>3. \A k \in 1..Len(rest) : rest[k] = stack[k + 1]
    BY <1>1, <2>1, <2>2
  <2> QED BY <2>1, <2>2, <2>3
<1>4. stack' = <<frame>> \o rest
  BY <1>2, <1>3
<1>5. stack' \in Seq(Frame) /\ Len(stack') = Len(stack)
  BY <1>1, <1>3, <1>4
<1>6. ASSUME NEW k \in 1..Len(stack')
      PROVE  stack'[k] = frame \/ \E j \in 1..Len(stack) : stack'[k] = stack[j]
  <2>1. stack'[k] = IF k = 1 THEN frame ELSE rest[k - 1]
    BY <1>1, <1>3, <1>4, <1>5
  <2>2. k # 1 => k - 1 \in 1..Len(rest)
    BY <1>1, <1>3, <1>5
  <2>3. k # 1 => rest[k - 1] = stack[k]
    BY <1>3, <2>2
  <2> QED BY <1>5, <2>1, <2>3
<1> QED BY <1>2, <1>5, <1>6 DEF CallersOK

(***************************************************************************)
(* What the ways to go on keep.                                            *)
(***************************************************************************)
LEMMA Moves ==
  ASSUME InputOK, Pop \/ Stay
  PROVE  InputOK'
BY DEF InputOK, Pop, Stay

LEMMA CallerIsFrame ==
  ASSUME CallOK, NEW to \in Place, NEW tree \in Seq(Node), NEW op \in Node \cup {"none"}
  PROVE  /\ CallerOf(to, tree, op) \in Frame
         /\ CallerOf(to, tree, op).to = to /\ CallerOf(to, tree, op).op = op
<1>1. CallerOf(to, tree, op)
        \in [to : Place, tree : Seq(Node), op : Node \cup {"none"}, minPrec : Level \cup {6},
             declKind : DeclKind]
  BY DEF CallerOf, CallOK
<1>2. CallerOf(to, tree, op) \in Frame
  BY <1>1 DEF Frame, Place
<1>3. CallerOf(to, tree, op).to = to /\ CallerOf(to, tree, op).op = op
  BY DEF CallerOf
<1> QED BY <1>2, <1>3

LEMMA Calls ==
  ASSUME CallOK, CallersOK,
         NEW f \in Function \ HasBegun, NEW prec \in Level \cup {6}, NEW kind \in DeclKind,
         NEW to \in Place, NEW tree \in Seq(Node), NEW op \in Node \cup {"none"},
         to \in NeedsOperator => op \in Node,
         CallWith(f, prec, kind, CallerOf(to, tree, op))
  PROVE  CallOK' /\ CallersOK'
<1>1. PICK frame \in Frame : frame = CallerOf(to, tree, op) /\ frame.to = to /\ frame.op = op
  BY CallerIsFrame
<1>2. CallersOK'
  BY <1>1, Pushed DEF CallWith
<1>3. CallOK'
  BY NoTreeIsTree DEF CallWith, CallOK
<1> QED BY <1>2, <1>3

\* A call with the arguments that most calls have.
LEMMA PlainCalls ==
  ASSUME CallOK, CallersOK, NEW f \in Function \ HasBegun, NEW to \in Place \ NeedsOperator,
         NEW tree \in Seq(Node), Call(f, CallerOf(to, tree, "none"))
  PROVE  CallOK' /\ CallersOK'
<1>1. declKind \in DeclKind /\ 0 \in Level \cup {6}
  BY DEF CallOK, Level
<1>2. CallWith(f, 0, declKind, CallerOf(to, tree, "none"))
  BY DEF Call
<1>3. to \in Place /\ "none" \in Node \cup {"none"} /\ ~(to \in NeedsOperator)
  OBVIOUS
<1> QED BY <1>1, <1>2, <1>3, Calls

LEMMA GoesOn ==
  ASSUME CallOK, CallersOK, NEW f \in Function, NEW tree \in Seq(Node),
         f \in HasBegun => tree # NoTree, GoOn(f, tree)
  PROVE  CallOK' /\ CallersOK'
BY DEF GoOn, CallOK, CallersOK

LEMMA Returns ==
  ASSUME CallOK, CallersOK, NEW tree \in Seq(Node), tree # NoTree, Return(tree)
  PROVE  CallOK' /\ CallersOK'
BY GoesOn DEF Return, Function

LEMMA Rejects ==
  ASSUME ParserInv, Reject
  PROVE  ParserInv'
BY Moves DEF ParserInv, CallOK, CallersOK, Reject, HasBegun

LEMMA Continues ==
  ASSUME CallOK, CallersOK, stack # <<>>, NEW f \in Function, NEW tree \in Seq(Node),
         f \in HasBegun => tree # NoTree, Continue(f, tree)
  PROVE  CallOK' /\ CallersOK'
<1>1. CallersOK'
  BY Popped DEF Continue
<1>2. CallOK'
  BY Innermost DEF Continue, CallOK
<1> QED BY <1>1, <1>2

LEMMA CallsAgain ==
  ASSUME CallOK, CallersOK, stack # <<>>, NEW f \in Function \ HasBegun,
         NEW to \in Place \ NeedsOperator, NEW tree \in Seq(Node), CallAgain(f, to, tree)
  PROVE  CallOK' /\ CallersOK'
<1>1. CallersOK'
  BY Replaced DEF CallAgain
<1>2. CallOK'
  BY Innermost, NoTreeIsTree DEF CallAgain, CallOK, Level
<1> QED BY <1>1, <1>2

LEMMA Expects ==
  ASSUME ParserInv, stack # <<>>, NEW k, NEW f \in Function, NEW tree \in Seq(Node),
         f \in HasBegun => tree # NoTree, Expect(k, f, tree)
  PROVE  ParserInv'
<1>1. CASE Pop /\ Continue(f, tree)
  BY <1>1, Moves, Continues DEF ParserInv
<1>2. CASE Reject
  BY <1>2, Rejects
<1> QED BY <1>1, <1>2 DEF Expect

\* What a call has returned is a tree, and so is what its caller kept.
LEMMA ReturnedTrees ==
  ASSUME ParserInv, NEW to, Returned(to)
  PROVE  /\ CallOK /\ CallersOK /\ InputOK /\ stack # <<>> /\ stack[1].to = to
         /\ left \in Seq(Node) /\ left # NoTree /\ stack[1].tree \in Seq(Node)
         /\ stack[1].declKind \in DeclKind
BY Innermost DEF ParserInv, Returned, Running, CallOK, HasBegun

(***************************************************************************)
(* The steps of the parser through an expression.                          *)
(***************************************************************************)
LEMMA BoundOperator ==
  ASSUME ParserInv, Binds(Peek)
  PROVE  Peek \in Node /\ RightOperandLevel(Peek) \in Level \cup {6}
<1>1. PrecedenceLevel(Peek) >= minPrec /\ minPrec \in Level \cup {6}
  BY DEF ParserInv, CallOK, Binds
<1>2. PrecedenceLevel(Peek) \in -1..5 /\ (PrecedenceLevel(Peek) # -1 => Peek \in BinaryOperator)
  BY DEF PrecedenceLevel, BinaryOperator
<1>3. PrecedenceLevel(Peek) \in 0..5
  BY <1>1, <1>2 DEF Level
<1>4. Peek \in BinaryOperator
  BY <1>2, <1>3
<1>5. BinaryOperator \subseteq Node
  BY DEF Node
<1> QED BY <1>3, <1>4, <1>5 DEF RightOperandLevel, Level

\* parseAssignmentExpression
LEMMA AssignmentKeeps ==
  ASSUME ParserInv, ParseAssignment \/ AfterUnary \/ AfterAssigned
  PROVE  ParserInv'
<1>1. CASE ParseAssignment
  <2>1. "unary" \in Function \ HasBegun /\ "assign" \in Place \ NeedsOperator
    BY DEF Function, HasBegun, Place, NeedsOperator
  <2>2. InputOK'
    BY <1>1, Moves DEF ParseAssignment, ParserInv
  <2>3. CallOK' /\ CallersOK'
    BY <1>1, <2>1, PlainCalls, NoTreeIsTree DEF ParseAssignment, ParserInv, CallExpression
  <2> QED BY <2>2, <2>3 DEF ParserInv
<1>2. CASE AfterUnary
  <2>1. /\ left \in Seq(Node) /\ left # NoTree
        /\ stack # <<>> /\ stack[1].tree \in Seq(Node)
    BY <1>2, ReturnedTrees DEF AfterUnary
  <2>2. "assignment" \in Function \ HasBegun
    BY DEF Function, HasBegun
  <2>3. "conditional" \in Function \ HasBegun
    BY DEF Function, HasBegun
  <2>4. "assigned" \in Place \ NeedsOperator
    BY DEF Place, NeedsOperator
  <2>5. InputOK'
    BY <1>2, Moves DEF AfterUnary, ParserInv
  <2>6. CallOK' /\ CallersOK'
    BY <1>2, <2>1, <2>2, <2>3, <2>4, CallsAgain, Continues DEF AfterUnary, ParserInv
  <2> QED BY <2>5, <2>6 DEF ParserInv
<1>3. CASE AfterAssigned
  <2>1. /\ left \in Seq(Node) /\ left # NoTree
        /\ stack # <<>> /\ stack[1].tree \in Seq(Node)
    BY <1>3, ReturnedTrees DEF AfterAssigned
  <2>2. "return" \in Function
    BY DEF Function, HasBegun
  <2>3. /\ stack[1].tree \o left \o <<"=">> \in Seq(Node)
        /\ stack[1].tree \o left \o <<"=">> # NoTree
    BY <2>1, NodeBehindTwo DEF Node
  <2>4. InputOK'
    BY <1>3, Moves DEF AfterAssigned, ParserInv
  <2>5. CallOK' /\ CallersOK'
    BY <1>3, <2>1, <2>2, <2>3, Continues DEF AfterAssigned, ParserInv
  <2> QED BY <2>4, <2>5 DEF ParserInv
<1> QED BY <1>1, <1>2, <1>3

\* parseConditionalExpression
LEMMA ConditionalKeeps ==
  ASSUME ParserInv, ParseConditional \/ AfterCondition \/ AfterThen \/ AfterElse
  PROVE  ParserInv'
<1>1. CASE ParseConditional
  <2>1. CallWithLeft("binary", CallerOf("condition", NoTree, "none")) /\ Stay
    BY <1>1 DEF ParseConditional
  <2>2. PICK frame \in Frame :
          frame = CallerOf("condition", NoTree, "none") /\ frame.to = "condition"
    <3>1. "condition" \in Place /\ "none" \in Node \cup {"none"}
      BY DEF Place
    <3> QED BY <3>1, CallerIsFrame, NoTreeIsTree DEF ParserInv
  <2>3. CallersOK'
    BY <2>1, <2>2, Pushed DEF CallWithLeft, ParserInv, NeedsOperator
  <2>4. CallOK'
    <3>1. "binary" \in Function \ HasBegun /\ 0 \in Level \cup {6}
      BY DEF Function, HasBegun, Level
    <3> QED BY <2>1, <3>1 DEF CallWithLeft, ParserInv, CallOK
  <2> QED BY <2>1, <2>3, <2>4, Moves DEF ParserInv
<1>2. CASE AfterCondition
  <2>1. /\ left \in Seq(Node) /\ left # NoTree
        /\ stack # <<>> /\ stack[1].tree \in Seq(Node)
    BY <1>2, ReturnedTrees DEF AfterCondition
  <2>2. "assignment" \in Function \ HasBegun
    BY DEF Function, HasBegun
  <2>3. "return" \in Function
    BY DEF Function, HasBegun
  <2>4. "then" \in Place \ NeedsOperator
    BY DEF Place, NeedsOperator
  <2>5. InputOK'
    BY <1>2, Moves DEF AfterCondition, ParserInv
  <2>6. CallOK' /\ CallersOK'
    BY <1>2, <2>1, <2>2, <2>3, <2>4, CallsAgain, Continues DEF AfterCondition, ParserInv
  <2> QED BY <2>5, <2>6 DEF ParserInv
<1>3. CASE AfterThen
  <2>1. /\ left \in Seq(Node) /\ left # NoTree
        /\ stack # <<>> /\ stack[1].tree \in Seq(Node)
    BY <1>3, ReturnedTrees DEF AfterThen
  <2>2. CASE Reject
    BY <2>2, Rejects
  <2>3. CASE CallAgain("conditional", "else", stack[1].tree \o left) /\ Pop
    <3>1. "conditional" \in Function \ HasBegun /\ "else" \in Place \ NeedsOperator
      BY DEF Function, HasBegun, Place, NeedsOperator
    <3>2. stack[1].tree \o left \in Seq(Node)
      BY <2>1, Joined
    <3>3. CallOK' /\ CallersOK'
      BY <2>1, <2>3, <3>1, <3>2, CallsAgain DEF ParserInv
    <3> QED BY <2>3, <3>3, Moves DEF ParserInv
  <2> QED BY <1>3, <2>2, <2>3 DEF AfterThen
<1>4. CASE AfterElse
  <2>1. /\ left \in Seq(Node) /\ left # NoTree
        /\ stack # <<>> /\ stack[1].tree \in Seq(Node)
    BY <1>4, ReturnedTrees DEF AfterElse
  <2>2. "return" \in Function
    BY DEF Function, HasBegun
  <2>3. /\ stack[1].tree \o left \o <<"?:">> \in Seq(Node)
        /\ stack[1].tree \o left \o <<"?:">> # NoTree
    BY <2>1, NodeBehindTwo DEF Node
  <2>4. InputOK'
    BY <1>4, Moves DEF AfterElse, ParserInv
  <2>5. CallOK' /\ CallersOK'
    BY <1>4, <2>1, <2>2, <2>3, Continues DEF AfterElse, ParserInv
  <2> QED BY <2>4, <2>5 DEF ParserInv
<1> QED BY <1>1, <1>2, <1>3, <1>4

\* parseBinaryExpression: the level it asks the right operand for is one there is.
LEMMA BinaryKeeps ==
  ASSUME ParserInv, ParseOperand \/ AfterOperand \/ ParseOperator \/ AfterRight
  PROVE  ParserInv'
<1>1. CASE ParseOperand
  <2>1. "unary" \in Function \ HasBegun /\ "operand" \in Place \ NeedsOperator
    BY DEF Function, HasBegun, Place, NeedsOperator
  <2>2. InputOK'
    BY <1>1, Moves DEF ParseOperand, ParserInv
  <2>3. CallOK' /\ CallersOK'
    BY <1>1, <2>1, PlainCalls, NoTreeIsTree DEF ParseOperand, ParserInv, CallExpression
  <2> QED BY <2>2, <2>3 DEF ParserInv
<1>2. CASE AfterOperand
  <2>1. /\ left \in Seq(Node) /\ left # NoTree
        /\ stack # <<>> /\ stack[1].tree \in Seq(Node)
    BY <1>2, ReturnedTrees DEF AfterOperand
  <2>2. "binary" \in Function \ HasBegun
    BY DEF Function, HasBegun
  <2>3. InputOK'
    BY <1>2, Moves DEF AfterOperand, ParserInv
  <2>4. CallOK' /\ CallersOK'
    BY <1>2, <2>1, <2>2, Continues DEF AfterOperand, ParserInv
  <2> QED BY <2>3, <2>4 DEF ParserInv
<1>3. CASE ParseOperator
  <2>1. left \in Seq(Node) /\ left # NoTree /\ declKind \in DeclKind
    BY <1>3 DEF ParseOperator, ParserInv, CallOK
  <2>2. InputOK'
    BY <1>3, Moves DEF ParseOperator, ParserInv
  <2>3. CASE Binds(Peek)
    <3>1. Peek \in Node /\ RightOperandLevel(Peek) \in Level \cup {6}
      BY <2>3, BoundOperator
    <3>2. "binary" \in Function \ HasBegun /\ "right" \in Place
      BY DEF Function, HasBegun, Place
    <3>3. CallWith("binary", RightOperandLevel(Peek), declKind, CallerOf("right", left, Peek))
      BY <1>3, <2>3 DEF ParseOperator
    <3>4. CallOK' /\ CallersOK'
      BY <2>1, <3>1, <3>2, <3>3, Calls DEF ParserInv
    <3> QED BY <2>2, <3>4 DEF ParserInv
  <2>4. CASE ~Binds(Peek)
    <3>1. CallOK' /\ CallersOK'
      BY <1>3, <2>1, <2>4, Returns DEF ParseOperator, ParserInv
    <3> QED BY <2>2, <3>1 DEF ParserInv
  <2> QED BY <2>3, <2>4
<1>4. CASE AfterRight
  <2>1. /\ left \in Seq(Node) /\ stack # <<>> /\ stack[1].tree \in Seq(Node)
        /\ stack[1].to = "right"
    BY <1>4, ReturnedTrees DEF AfterRight
  <2>2. stack[1].op \in Node
    BY <2>1, Innermost DEF ParserInv, NeedsOperator
  <2>3. stack[1].tree \o left \o <<stack[1].op>> \in Seq(Node)
    BY <2>1, <2>2, NodeBehindTwo
  <2>4. "binary" \in Function \ HasBegun
    BY DEF Function, HasBegun
  <2>5. CallOK' /\ CallersOK'
    BY <1>4, <2>1, <2>3, <2>4, Continues DEF AfterRight, ParserInv
  <2> QED BY <1>4, <2>5, Moves DEF AfterRight, ParserInv
<1> QED BY <1>1, <1>2, <1>3, <1>4

\* parseUnaryExpression and parseSizeOf
LEMMA UnaryKeeps ==
  ASSUME ParserInv,
         ParsePrefix \/ ParsePlus \/ ParseSizeof \/ ParseSizeofType \/
         AfterTypeName \/ ParseSizeofOperand \/ AfterPrefix \/
         NoPrefix
  PROVE  ParserInv'
<1>1. CASE ParsePrefix
  <2>1. PrefixNode(Peek) \in Node
    BY <1>1 DEF ParsePrefix, PrefixNode, Node, PrefixKind
  <2>2. "unary" \in Function \ HasBegun /\ "prefix" \in Place
    BY DEF Function, HasBegun, Place
  <2>3. CallWith("unary", 0, declKind, CallerOf("prefix", NoTree, PrefixNode(Peek)))
    BY <1>1 DEF ParsePrefix, Call
  <2>4. 0 \in Level \cup {6} /\ declKind \in DeclKind
    BY DEF Level, ParserInv, CallOK
  <2>5. CallOK' /\ CallersOK'
    BY <2>1, <2>2, <2>3, <2>4, Calls, NoTreeIsTree DEF ParserInv
  <2> QED BY <1>1, <2>5, Moves DEF ParsePrefix, ParserInv
<1>2. CASE ParsePlus
  <2>1. "unary" \in Function \ HasBegun
    BY DEF Function, HasBegun
  <2>2. InputOK'
    BY <1>2, Moves DEF ParsePlus, ParserInv
  <2>3. CallOK' /\ CallersOK'
    BY <1>2, <2>1, GoesOn, NoTreeIsTree DEF ParsePlus, ParserInv
  <2> QED BY <2>2, <2>3 DEF ParserInv
<1>3. CASE ParseSizeof
  <2>1. "sizeof" \in Function \ HasBegun
    BY DEF Function, HasBegun
  <2>2. InputOK'
    BY <1>3, Moves DEF ParseSizeof, ParserInv
  <2>3. CallOK' /\ CallersOK'
    BY <1>3, <2>1, GoesOn, NoTreeIsTree DEF ParseSizeof, ParserInv
  <2> QED BY <2>2, <2>3 DEF ParserInv
<1>4. CASE ParseSizeofType
  <2>1. /\ "declaration" \in Function \ HasBegun
        /\ "type name" \in Place /\ "type name" \notin NeedsOperator
    BY DEF Function, HasBegun, Place, NeedsOperator
  <2>2. 0 \in Level \cup {6} /\ "ABSTRACT" \in DeclKind
    BY DEF Level, DeclKind
  <2>3. CallOK' /\ CallersOK'
    BY <1>4, <2>1, <2>2, Calls, NoTreeIsTree DEF ParseSizeofType, ParserInv
  <2> QED BY <1>4, <2>3, Moves DEF ParseSizeofType, ParserInv
<1>5. CASE AfterTypeName
  <2>1. /\ left \in Seq(Node) /\ left # NoTree
        /\ stack # <<>> /\ stack[1].tree \in Seq(Node)
    BY <1>5, ReturnedTrees DEF AfterTypeName
  <2>2. "return" \in Function
    BY DEF Function, HasBegun
  <2>3. /\ left \o <<"sizeof type">> \in Seq(Node)
        /\ left \o <<"sizeof type">> # NoTree
    BY <2>1, NodeBehind DEF Node
  <2> QED BY <1>5, <2>1, <2>2, <2>3, Expects DEF AfterTypeName
<1>6. CASE ParseSizeofOperand
  <2>1. "sizeof" \in Node
    BY DEF Node, PrefixKind
  <2>2. "unary" \in Function \ HasBegun /\ "prefix" \in Place
    BY DEF Function, HasBegun, Place
  <2>3. CallWith("unary", 0, declKind, CallerOf("prefix", NoTree, "sizeof"))
    BY <1>6 DEF ParseSizeofOperand, Call
  <2>4. 0 \in Level \cup {6} /\ declKind \in DeclKind
    BY DEF Level, ParserInv, CallOK
  <2>5. CallOK' /\ CallersOK'
    BY <2>1, <2>2, <2>3, <2>4, Calls, NoTreeIsTree DEF ParserInv
  <2> QED BY <1>6, <2>5, Moves DEF ParseSizeofOperand, ParserInv
<1>7. CASE AfterPrefix
  <2>1. left \in Seq(Node) /\ stack # <<>> /\ stack[1].to = "prefix"
    BY <1>7, ReturnedTrees DEF AfterPrefix
  <2>2. stack[1].op \in Node
    BY <2>1, Innermost DEF ParserInv, NeedsOperator
  <2>3. left \o <<stack[1].op>> \in Seq(Node) /\ left \o <<stack[1].op>> # NoTree
    BY <2>1, <2>2, NodeBehind
  <2>4. "return" \in Function
    BY DEF Function
  <2>5. CallOK' /\ CallersOK'
    BY <1>7, <2>1, <2>3, <2>4, Continues DEF AfterPrefix, ParserInv
  <2> QED BY <1>7, <2>5, Moves DEF AfterPrefix, ParserInv
<1>8. CASE NoPrefix
  <2>1. "postfix" \in Function \ HasBegun
    BY DEF Function, HasBegun
  <2>2. InputOK'
    BY <1>8, Moves DEF NoPrefix, ParserInv
  <2>3. CallOK' /\ CallersOK'
    BY <1>8, <2>1, GoesOn, NoTreeIsTree DEF NoPrefix, ParserInv
  <2> QED BY <2>2, <2>3 DEF ParserInv
<1> QED BY <1>1, <1>2, <1>3, <1>4, <1>5, <1>6, <1>7, <1>8

\* parsePostfixExpression
LEMMA PostfixKeeps ==
  ASSUME ParserInv,
         ParsePrimaryOperand \/ AfterPrimary \/ ParseIndex \/
         AfterIndex \/ ParseCall \/ ParseArgument \/ AfterArgument \/
         NoArguments \/ NoArgumentBehindComma \/ ParseMember \/
         ParseMemberName \/ NoPostfix
  PROVE  ParserInv'
<1>1. CASE ParsePrimaryOperand
  <2>1. "primary" \in Function \ HasBegun /\ "primary" \in Place \ NeedsOperator
    BY DEF Function, HasBegun, Place, NeedsOperator
  <2>2. InputOK'
    BY <1>1, Moves DEF ParsePrimaryOperand, ParserInv
  <2>3. CallOK' /\ CallersOK'
    BY <1>1, <2>1, PlainCalls, NoTreeIsTree DEF ParsePrimaryOperand, ParserInv, CallExpression
  <2> QED BY <2>2, <2>3 DEF ParserInv
<1>2. CASE AfterPrimary
  <2>1. /\ left \in Seq(Node) /\ left # NoTree
        /\ stack # <<>> /\ stack[1].tree \in Seq(Node)
    BY <1>2, ReturnedTrees DEF AfterPrimary
  <2>2. "postfix" \in Function \ HasBegun
    BY DEF Function, HasBegun
  <2>3. InputOK'
    BY <1>2, Moves DEF AfterPrimary, ParserInv
  <2>4. CallOK' /\ CallersOK'
    BY <1>2, <2>1, <2>2, Continues DEF AfterPrimary, ParserInv
  <2> QED BY <2>3, <2>4 DEF ParserInv
<1>3. CASE ParseIndex
  <2>1. "assignment" \in Function \ HasBegun /\ "index" \in Place \ NeedsOperator
    BY DEF Function, HasBegun, Place, NeedsOperator
  <2>2. left \in Seq(Node)
    BY DEF ParserInv, CallOK
  <2>3. InputOK'
    BY <1>3, Moves DEF ParseIndex, ParserInv
  <2>4. CallOK' /\ CallersOK'
    BY <1>3, <2>1, <2>2, PlainCalls DEF ParseIndex, ParserInv, CallExpression
  <2> QED BY <2>3, <2>4 DEF ParserInv
<1>4. CASE AfterIndex
  <2>1. /\ left \in Seq(Node) /\ left # NoTree
        /\ stack # <<>> /\ stack[1].tree \in Seq(Node)
    BY <1>4, ReturnedTrees DEF AfterIndex
  <2>2. "postfix" \in Function \ HasBegun
    BY DEF Function, HasBegun
  <2>3. /\ stack[1].tree \o left \o <<"index">> \in Seq(Node)
        /\ stack[1].tree \o left \o <<"index">> # NoTree
    BY <2>1, NodeBehindTwo DEF Node
  <2> QED BY <1>4, <2>1, <2>2, <2>3, Expects DEF AfterIndex
<1>5. CASE ParseCall
  <2>1. "arguments" \in Function \ HasBegun
    BY DEF Function, HasBegun
  <2>2. left \in Seq(Node)
    BY DEF ParserInv, CallOK
  <2>3. InputOK'
    BY <1>5, Moves DEF ParseCall, ParserInv
  <2>4. CallOK' /\ CallersOK'
    BY <1>5, <2>1, <2>2, GoesOn, NoTreeIsTree DEF ParseCall, ParserInv
  <2> QED BY <2>3, <2>4 DEF ParserInv
<1>6. CASE ParseArgument
  <2>1. "assignment" \in Function \ HasBegun /\ "argument" \in Place \ NeedsOperator
    BY DEF Function, HasBegun, Place, NeedsOperator
  <2>2. left \in Seq(Node)
    BY DEF ParserInv, CallOK
  <2>3. InputOK'
    BY <1>6, Moves DEF ParseArgument, ParserInv
  <2>4. CallOK' /\ CallersOK'
    BY <1>6, <2>1, <2>2, PlainCalls DEF ParseArgument, ParserInv, CallExpression
  <2> QED BY <2>3, <2>4 DEF ParserInv
<1>7. CASE AfterArgument
  <2>1. /\ left \in Seq(Node) /\ left # NoTree
        /\ stack # <<>> /\ stack[1].tree \in Seq(Node)
    BY <1>7, ReturnedTrees DEF AfterArgument
  <2>2. PICK f \in Seq(Node) : f = stack[1].tree \o left \o <<"argument">>
    BY <2>1, NodeBehindTwo DEF Node
  <2>3. f \o <<"call">> \in Seq(Node)
    BY NodeBehind DEF Node
  <2>4. "next argument" \in Function \ HasBegun /\ "postfix" \in Function \ HasBegun
    BY DEF Function, HasBegun
  <2>5. CASE Continue("next argument", f) /\ Pop
    <3>1. CallOK' /\ CallersOK'
      BY <2>1, <2>4, <2>5, Continues DEF ParserInv
    <3> QED BY <2>5, <3>1, Moves DEF ParserInv
  <2>6. CASE Expect(")", "postfix", f \o <<"call">>)
    BY <2>1, <2>3, <2>4, <2>6, Expects
  <2> QED BY <1>7, <2>2, <2>5, <2>6 DEF AfterArgument
<1>8. CASE NoArguments
  <2>1. "postfix" \in Function \ HasBegun
    BY DEF Function, HasBegun
  <2>2. left \o <<"call">> \in Seq(Node)
    BY NodeBehind DEF ParserInv, CallOK, Node
  <2>3. InputOK'
    BY <1>8, Moves DEF NoArguments, ParserInv
  <2>4. CallOK' /\ CallersOK'
    BY <1>8, <2>1, <2>2, GoesOn, NoTreeIsTree DEF NoArguments, ParserInv
  <2> QED BY <2>3, <2>4 DEF ParserInv
<1>9. CASE NoArgumentBehindComma
  BY <1>9, Rejects DEF NoArgumentBehindComma
<1>10. CASE ParseMember
  <2>1. "member" \in Function \ HasBegun
    BY DEF Function, HasBegun
  <2>2. left \o <<Peek>> \in Seq(Node)
    BY <1>10, NodeBehind DEF ParseMember, ParserInv, CallOK, Node
  <2>3. InputOK'
    BY <1>10, Moves DEF ParseMember, ParserInv
  <2>4. CallOK' /\ CallersOK'
    BY <1>10, <2>1, <2>2, GoesOn, NoTreeIsTree DEF ParseMember, ParserInv
  <2> QED BY <2>3, <2>4 DEF ParserInv
<1>11. CASE ParseMemberName
  <2>1. CASE GoOn("postfix", left) /\ Pop
    <3>1. "postfix" \in Function \ HasBegun /\ left \in Seq(Node)
      BY DEF Function, HasBegun, ParserInv, CallOK
    <3>2. CallOK' /\ CallersOK'
      BY <2>1, <3>1, GoesOn DEF ParserInv
    <3> QED BY <2>1, <3>2, Moves DEF ParserInv
  <2>2. CASE Reject
    BY <2>2, Rejects
  <2> QED BY <1>11, <2>1, <2>2 DEF ParseMemberName
<1>12. CASE NoPostfix
  <2>1. left \in Seq(Node) /\ left # NoTree
    BY <1>12 DEF NoPostfix, Postfix, ParserInv, CallOK
  <2>2. InputOK'
    BY <1>12, Moves DEF NoPostfix, ParserInv
  <2>3. CallOK' /\ CallersOK'
    BY <1>12, <2>1, Returns DEF NoPostfix, ParserInv
  <2> QED BY <2>2, <2>3 DEF ParserInv
<1> QED BY <1>1, <1>2, <1>3, <1>4, <1>5, <1>6, <1>7, <1>8, <1>9, <1>10, <1>11, <1>12

\* parsePrimaryExpression
LEMMA PrimaryKeeps ==
  ASSUME ParserInv,
         ParseName \/ ParseParentheses \/ AfterParentheses \/
         NoPrimary
  PROVE  ParserInv'
<1>1. CASE ParseName
  <2>1. <<Peek>> \in Seq(Node) /\ <<Peek>> # NoTree
    BY <1>1, Leaf DEF ParseName, Node
  <2>2. InputOK'
    BY <1>1, Moves DEF ParseName, ParserInv
  <2>3. CallOK' /\ CallersOK'
    BY <1>1, <2>1, Returns DEF ParseName, ParserInv
  <2> QED BY <2>2, <2>3 DEF ParserInv
<1>2. CASE ParseParentheses
  <2>1. "assignment" \in Function \ HasBegun /\ "parentheses" \in Place \ NeedsOperator
    BY DEF Function, HasBegun, Place, NeedsOperator
  <2>2. InputOK'
    BY <1>2, Moves DEF ParseParentheses, ParserInv
  <2>3. CallOK' /\ CallersOK'
    BY <1>2, <2>1, PlainCalls, NoTreeIsTree DEF ParseParentheses, ParserInv, CallExpression
  <2> QED BY <2>2, <2>3 DEF ParserInv
<1>3. CASE AfterParentheses
  <2>1. /\ left \in Seq(Node) /\ left # NoTree
        /\ stack # <<>> /\ stack[1].tree \in Seq(Node)
    BY <1>3, ReturnedTrees DEF AfterParentheses
  <2>2. "return" \in Function
    BY DEF Function, HasBegun
  <2> QED BY <1>3, <2>1, <2>2, Expects DEF AfterParentheses
<1>4. CASE NoPrimary
  BY <1>4, Rejects DEF NoPrimary
<1> QED BY <1>1, <1>2, <1>3, <1>4

(***************************************************************************)
(* The steps of the parser through a declaration.                          *)
(***************************************************************************)
\* parseDeclaration
LEMMA DeclarationKeeps ==
  ASSUME ParserInv, ParseDeclaration \/ AfterSpecifier \/ AfterDeclarator
  PROVE  ParserInv'
<1>1. CASE ParseDeclaration
  <2>1. "specifier" \in Function \ HasBegun /\ "specified" \in Place \ NeedsOperator
    BY DEF Function, HasBegun, Place, NeedsOperator
  <2>2. InputOK'
    BY <1>1, Moves DEF ParseDeclaration, ParserInv
  <2>3. CallOK' /\ CallersOK'
    BY <1>1, <2>1, PlainCalls, NoTreeIsTree DEF ParseDeclaration, ParserInv, CallExpression
  <2> QED BY <2>2, <2>3 DEF ParserInv
<1>2. CASE AfterSpecifier
  <2>1. /\ left \in Seq(Node) /\ left # NoTree
        /\ stack # <<>> /\ stack[1].tree \in Seq(Node)
    BY <1>2, ReturnedTrees DEF AfterSpecifier
  <2>2. "declarator" \in Function \ HasBegun
    BY DEF Function, HasBegun
  <2>3. "declared" \in Place \ NeedsOperator
    BY DEF Place, NeedsOperator
  <2>4. InputOK'
    BY <1>2, Moves DEF AfterSpecifier, ParserInv
  <2>5. CallOK' /\ CallersOK'
    BY <1>2, <2>1, <2>2, <2>3, CallsAgain DEF AfterSpecifier, ParserInv
  <2> QED BY <2>4, <2>5 DEF ParserInv
<1>3. CASE AfterDeclarator
  <2>1. /\ left \in Seq(Node) /\ left # NoTree
        /\ stack # <<>> /\ stack[1].tree \in Seq(Node)
    BY <1>3, ReturnedTrees DEF AfterDeclarator
  <2>2. PICK t \in Seq(Node) : t = stack[1].tree \o left \o <<"declaration">> /\ t # NoTree
    BY <2>1, NodeBehindTwo DEF Node
  <2>3. "return" \in Function
    BY DEF Function
  <2>4. CASE Continue("return", t) /\ Stay
    <3>1. CallOK' /\ CallersOK'
      BY <2>1, <2>2, <2>3, <2>4, Continues DEF ParserInv
    <3> QED BY <2>4, <3>1, Moves DEF ParserInv
  <2>5. CASE Reject
    BY <2>5, Rejects
  <2> QED BY <1>3, <2>2, <2>4, <2>5 DEF AfterDeclarator
<1> QED BY <1>1, <1>2, <1>3

\* parseTypeSpecifier
LEMMA SpecifierKeeps ==
  ASSUME ParserInv,
         ParseBasicType \/ ParseStruct \/ NoSpecifier \/ ParseTag \/
         ParseComponents \/ NoComponents \/ AfterComponent \/
         ParseNextComponent \/ EndOfComponents
  PROVE  ParserInv'
<1>1. CASE ParseBasicType
  <2>1. <<Peek>> \in Seq(Node) /\ <<Peek>> # NoTree
    BY <1>1, Leaf DEF ParseBasicType, Node
  <2>2. InputOK'
    BY <1>1, Moves DEF ParseBasicType, ParserInv
  <2>3. CallOK' /\ CallersOK'
    BY <1>1, <2>1, Returns DEF ParseBasicType, ParserInv
  <2> QED BY <2>2, <2>3 DEF ParserInv
<1>2. CASE ParseStruct
  <2>1. "tag" \in Function \ HasBegun
    BY DEF Function, HasBegun
  <2>2. InputOK'
    BY <1>2, Moves DEF ParseStruct, ParserInv
  <2>3. CallOK' /\ CallersOK'
    BY <1>2, <2>1, GoesOn, NoTreeIsTree DEF ParseStruct, ParserInv
  <2> QED BY <2>2, <2>3 DEF ParserInv
<1>3. CASE NoSpecifier
  BY <1>3, Rejects DEF NoSpecifier
<1>4. CASE ParseTag
  <2>1. CASE Reject
    BY <2>1, Rejects
  <2>2. ASSUME NEW tree \in {<<"struct tag">>, <<"struct">>}, GoOn("components", tree), Pop \/ Stay
        PROVE  ParserInv'
    <3>1. tree \in Seq(Node) /\ tree # NoTree
      BY Leaf DEF Node
    <3>2. "components" \in Function
      BY DEF Function
    <3>3. CallOK' /\ CallersOK'
      BY <2>2, <3>1, <3>2, GoesOn DEF ParserInv
    <3> QED BY <2>2, <3>3, Moves DEF ParserInv
  <2> QED BY <1>4, <2>1, <2>2 DEF ParseTag
<1>5. CASE ParseComponents
  <2>1. /\ "declaration" \in Function \ HasBegun
        /\ "component" \in Place /\ "component" \notin NeedsOperator
    BY DEF Function, HasBegun, Place, NeedsOperator
  <2>2. 0 \in Level \cup {6} /\ "CONCRETE" \in DeclKind
    BY DEF Level, DeclKind
  <2>3. left \o <<"complete">> \in Seq(Node)
    BY NodeBehind DEF ParserInv, CallOK, Node
  <2>4. CallWith("declaration", 0, "CONCRETE",
                 CallerOf("component", left \o <<"complete">>, "none"))
    BY <1>5 DEF ParseComponents, Declare
  <2>5. CallOK' /\ CallersOK'
    BY <2>1, <2>2, <2>3, <2>4, Calls DEF ParserInv
  <2> QED BY <1>5, <2>5, Moves DEF ParseComponents, ParserInv
<1>6. CASE NoComponents
  <2>1. left \in Seq(Node) /\ left # NoTree
    BY <1>6 DEF NoComponents, Running, ParserInv, CallOK, HasBegun
  <2>2. InputOK'
    BY <1>6, Moves DEF NoComponents, ParserInv
  <2>3. CallOK' /\ CallersOK'
    BY <1>6, <2>1, Returns DEF NoComponents, ParserInv
  <2> QED BY <2>2, <2>3 DEF ParserInv
<1>7. CASE AfterComponent
  <2>1. /\ left \in Seq(Node) /\ left # NoTree
        /\ stack # <<>> /\ stack[1].tree \in Seq(Node)
    BY <1>7, ReturnedTrees DEF AfterComponent
  <2>2. "next component" \in Function
    BY DEF Function, HasBegun
  <2>3. /\ stack[1].tree \o left \o <<"component">> \in Seq(Node)
        /\ stack[1].tree \o left \o <<"component">> # NoTree
    BY <2>1, NodeBehindTwo DEF Node
  <2> QED BY <1>7, <2>1, <2>2, <2>3, Expects DEF AfterComponent
<1>8. CASE ParseNextComponent
  <2>1. /\ "declaration" \in Function \ HasBegun
        /\ "component" \in Place /\ "component" \notin NeedsOperator
    BY DEF Function, HasBegun, Place, NeedsOperator
  <2>2. 0 \in Level \cup {6} /\ "CONCRETE" \in DeclKind
    BY DEF Level, DeclKind
  <2>3. left \in Seq(Node)
    BY DEF ParserInv, CallOK
  <2>4. CallWith("declaration", 0, "CONCRETE", CallerOf("component", left, "none"))
    BY <1>8 DEF ParseNextComponent, Declare
  <2>5. CallOK' /\ CallersOK'
    BY <2>1, <2>2, <2>3, <2>4, Calls DEF ParserInv
  <2> QED BY <1>8, <2>5, Moves DEF ParseNextComponent, ParserInv
<1>9. CASE EndOfComponents
  <2>1. left \in Seq(Node) /\ left # NoTree
    BY <1>9 DEF EndOfComponents, Running, ParserInv, CallOK, HasBegun
  <2>2. InputOK'
    BY <1>9, Moves DEF EndOfComponents, ParserInv
  <2>3. CallOK' /\ CallersOK'
    BY <1>9, <2>1, Returns DEF EndOfComponents, ParserInv
  <2> QED BY <2>2, <2>3 DEF ParserInv
<1> QED BY <1>1, <1>2, <1>3, <1>4, <1>5, <1>6, <1>7, <1>8, <1>9

\* parseNonFunDeclarator
LEMMA NonFunDeclaratorKeeps ==
  ASSUME ParserInv,
         NamelessFunction \/ NoDeclaratorInFront \/
         ParseParenthesized \/ AfterParenthesized \/ ParsePointer \/
         AfterPointed \/ ParseIdentifier \/ NoIdentifier
  PROVE  ParserInv'
<1>1. CASE NamelessFunction
  BY <1>1, Rejects DEF NamelessFunction
<1>2. CASE NoDeclaratorInFront
  <2>1. <<"nameless">> \in Seq(Node) /\ <<"nameless">> # NoTree
    BY Leaf DEF Node
  <2>2. InputOK'
    BY <1>2, Moves DEF NoDeclaratorInFront, ParserInv
  <2>3. CallOK' /\ CallersOK'
    BY <1>2, <2>1, Returns DEF NoDeclaratorInFront, ParserInv
  <2> QED BY <2>2, <2>3 DEF ParserInv
<1>3. CASE ParseParenthesized
  <2>1. "declarator" \in Function \ HasBegun /\ "parenthesized" \in Place \ NeedsOperator
    BY DEF Function, HasBegun, Place, NeedsOperator
  <2>2. InputOK'
    BY <1>3, Moves DEF ParseParenthesized, ParserInv
  <2>3. CallOK' /\ CallersOK'
    BY <1>3, <2>1, PlainCalls, NoTreeIsTree DEF ParseParenthesized, ParserInv, CallExpression
  <2> QED BY <2>2, <2>3 DEF ParserInv
<1>4. CASE AfterParenthesized
  <2>1. /\ left \in Seq(Node) /\ left # NoTree
        /\ stack # <<>> /\ stack[1].tree \in Seq(Node)
    BY <1>4, ReturnedTrees DEF AfterParenthesized
  <2>2. "return" \in Function
    BY DEF Function, HasBegun
  <2> QED BY <1>4, <2>1, <2>2, Expects DEF AfterParenthesized
<1>5. CASE ParsePointer
  <2>1. "declarator" \in Function \ HasBegun /\ "pointed" \in Place \ NeedsOperator
    BY DEF Function, HasBegun, Place, NeedsOperator
  <2>2. InputOK'
    BY <1>5, Moves DEF ParsePointer, ParserInv
  <2>3. CallOK' /\ CallersOK'
    BY <1>5, <2>1, PlainCalls, NoTreeIsTree DEF ParsePointer, ParserInv, CallExpression
  <2> QED BY <2>2, <2>3 DEF ParserInv
<1>6. CASE AfterPointed
  <2>1. /\ left \in Seq(Node) /\ left # NoTree
        /\ stack # <<>> /\ stack[1].tree \in Seq(Node)
    BY <1>6, ReturnedTrees DEF AfterPointed
  <2>2. "return" \in Function
    BY DEF Function, HasBegun
  <2>3. /\ left \o <<"pointer">> \in Seq(Node)
        /\ left \o <<"pointer">> # NoTree
    BY <2>1, NodeBehind DEF Node
  <2>4. InputOK'
    BY <1>6, Moves DEF AfterPointed, ParserInv
  <2>5. CallOK' /\ CallersOK'
    BY <1>6, <2>1, <2>2, <2>3, Continues DEF AfterPointed, ParserInv
  <2> QED BY <2>4, <2>5 DEF ParserInv
<1>7. CASE ParseIdentifier
  <2>1. <<"identifier">> \in Seq(Node) /\ <<"identifier">> # NoTree
    BY Leaf DEF Node
  <2>2. InputOK'
    BY <1>7, Moves DEF ParseIdentifier, ParserInv
  <2>3. CallOK' /\ CallersOK'
    BY <1>7, <2>1, Returns DEF ParseIdentifier, ParserInv
  <2> QED BY <2>2, <2>3 DEF ParserInv
<1>8. CASE NoIdentifier
  <2>1. <<"nameless">> \in Seq(Node) /\ <<"nameless">> # NoTree
    BY Leaf DEF Node
  <2>2. InputOK'
    BY <1>8, Moves DEF NoIdentifier, ParserInv
  <2>3. CallOK' /\ CallersOK'
    BY <1>8, <2>1, Returns DEF NoIdentifier, ParserInv
  <2> QED BY <2>2, <2>3 DEF ParserInv
<1> QED BY <1>1, <1>2, <1>3, <1>4, <1>5, <1>6, <1>7, <1>8

\* parseDeclarator
LEMMA DeclaratorKeeps ==
  ASSUME ParserInv,
         ParseDeclarator \/ AfterNonFun \/ ParseParameters \/
         NoSuffix \/ NoParameters \/ ParseParameter \/ AfterParameter \/
         NoParameterBehindComma
  PROVE  ParserInv'
<1>1. CASE ParseDeclarator
  <2>1. "nonfun declarator" \in Function \ HasBegun /\ "nonfun" \in Place \ NeedsOperator
    BY DEF Function, HasBegun, Place, NeedsOperator
  <2>2. InputOK'
    BY <1>1, Moves DEF ParseDeclarator, ParserInv
  <2>3. CallOK' /\ CallersOK'
    BY <1>1, <2>1, PlainCalls, NoTreeIsTree DEF ParseDeclarator, ParserInv, CallExpression
  <2> QED BY <2>2, <2>3 DEF ParserInv
<1>2. CASE AfterNonFun
  <2>1. /\ left \in Seq(Node) /\ left # NoTree
        /\ stack # <<>> /\ stack[1].tree \in Seq(Node)
    BY <1>2, ReturnedTrees DEF AfterNonFun
  <2>2. "suffixes" \in Function
    BY DEF Function, HasBegun
  <2>3. InputOK'
    BY <1>2, Moves DEF AfterNonFun, ParserInv
  <2>4. CallOK' /\ CallersOK'
    BY <1>2, <2>1, <2>2, Continues DEF AfterNonFun, ParserInv
  <2> QED BY <2>3, <2>4 DEF ParserInv
<1>3. CASE ParseParameters
  <2>1. CASE GoOn("parameters", left \o <<"function">>) /\ Pop
    <3>1. left \o <<"function">> \in Seq(Node) /\ left \o <<"function">> # NoTree
      BY NodeBehind DEF ParserInv, CallOK, Node
    <3>2. "parameters" \in Function
      BY DEF Function
    <3>3. CallOK' /\ CallersOK'
      BY <2>1, <3>1, <3>2, GoesOn DEF ParserInv
    <3> QED BY <2>1, <3>3, Moves DEF ParserInv
  <2>2. CASE Reject
    BY <2>2, Rejects
  <2> QED BY <1>3, <2>1, <2>2 DEF ParseParameters
<1>4. CASE NoSuffix
  <2>1. left \in Seq(Node) /\ left # NoTree
    BY <1>4 DEF NoSuffix, Running, ParserInv, CallOK, HasBegun
  <2>2. InputOK'
    BY <1>4, Moves DEF NoSuffix, ParserInv
  <2>3. CallOK' /\ CallersOK'
    BY <1>4, <2>1, Returns DEF NoSuffix, ParserInv
  <2> QED BY <2>2, <2>3 DEF ParserInv
<1>5. CASE NoParameters
  <2>1. left \in Seq(Node) /\ left # NoTree
    BY <1>5 DEF NoParameters, Running, ParserInv, CallOK, HasBegun
  <2>2. "suffixes" \in Function
    BY DEF Function, HasBegun
  <2>3. InputOK'
    BY <1>5, Moves DEF NoParameters, ParserInv
  <2>4. CallOK' /\ CallersOK'
    BY <1>5, <2>1, <2>2, GoesOn DEF NoParameters, ParserInv
  <2> QED BY <2>3, <2>4 DEF ParserInv
<1>6. CASE ParseParameter
  <2>1. /\ "declaration" \in Function \ HasBegun
        /\ "parameter" \in Place /\ "parameter" \notin NeedsOperator
    BY DEF Function, HasBegun, Place, NeedsOperator
  <2>2. 0 \in Level \cup {6} /\ "ANY" \in DeclKind
    BY DEF Level, DeclKind
  <2>3. left \in Seq(Node)
    BY DEF ParserInv, CallOK
  <2>4. CallWith("declaration", 0, "ANY", CallerOf("parameter", left, "none"))
    BY <1>6 DEF ParseParameter, Declare
  <2>5. CallOK' /\ CallersOK'
    BY <2>1, <2>2, <2>3, <2>4, Calls DEF ParserInv
  <2> QED BY <1>6, <2>5, Moves DEF ParseParameter, ParserInv
<1>7. CASE AfterParameter
  <2>1. /\ left \in Seq(Node) /\ left # NoTree
        /\ stack # <<>> /\ stack[1].tree \in Seq(Node)
    BY <1>7, ReturnedTrees DEF AfterParameter
  <2>2. PICK f \in Seq(Node) : f = stack[1].tree \o left \o <<"parameter">> /\ f # NoTree
    BY <2>1, NodeBehindTwo DEF Node
  <2>3. "next parameter" \in Function /\ "suffixes" \in Function
    BY DEF Function
  <2>4. CASE Continue("next parameter", f) /\ Pop
    <3>1. CallOK' /\ CallersOK'
      BY <2>1, <2>2, <2>3, <2>4, Continues DEF ParserInv
    <3> QED BY <2>4, <3>1, Moves DEF ParserInv
  <2>5. CASE Expect(")", "suffixes", f)
    BY <2>1, <2>2, <2>3, <2>5, Expects
  <2> QED BY <1>7, <2>2, <2>4, <2>5 DEF AfterParameter
<1>8. CASE NoParameterBehindComma
  BY <1>8, Rejects DEF NoParameterBehindComma
<1> QED BY <1>1, <1>2, <1>3, <1>4, <1>5, <1>6, <1>7, <1>8

(***************************************************************************)
(* The other steps, and the theorem.                                       *)
(***************************************************************************)
LEMMA InitKeeps == Init => ParserInv
<1> SUFFICES ASSUME Init PROVE ParserInv
  OBVIOUS
<1>1. InputOK
  BY DEF Init, InputOK
<1>2. CallOK
  BY NoTreeIsTree DEF Init, CallOK, Function, Level, DeclKind, HasBegun
<1>3. CallersOK
  BY DEF Init, CallersOK
<1> QED BY <1>1, <1>2, <1>3 DEF ParserInv

LEMMA ReadTokenKeeps ==
  ASSUME ParserInv, ReadToken
  PROVE  ParserInv'
<1>1. PICK vocabulary \in Vocabularies :
        \E t \in vocabulary \cup {End} : tokens' = Append(tokens, t)
  BY DEF ReadToken
<1>2. PICK t \in Token \cup {End} : tokens' = Append(tokens, t)
  BY <1>1 DEF Token
<1>3. InputOK'
  BY <1>2 DEF ReadToken, ParserInv, InputOK
<1> QED BY <1>3 DEF ReadToken, ParserInv, CallOK, CallersOK

LEMMA StatementKeeps ==
  ASSUME ParserInv, ParseStatement \/ FinishStatement
  PROVE  ParserInv'
<1>1. CASE ParseStatement
  <2>1. InputOK'
    BY <1>1, Moves DEF ParseStatement, ParserInv
  <2>2. fn' \in {"declaration", "assignment"} /\ declKind' \in DeclKind
    BY <1>1 DEF ParseStatement, StatementFunction, ParserInv, CallOK, DeclKind
  <2>3. CallOK'
    BY <1>1, <2>2 DEF ParseStatement, ParserInv, CallOK, Function, HasBegun
  <2>4. CallersOK'
    BY <1>1 DEF ParseStatement, ParserInv, CallersOK
  <2> QED BY <2>1, <2>3, <2>4 DEF ParserInv
<1>2. CASE FinishStatement
  BY <1>2 DEF FinishStatement, ParserInv, InputOK, CallOK, CallersOK, HasBegun
<1> QED BY <1>1, <1>2

LEMMA NextKeeps == ParserInv /\ [Next]_vars => ParserInv'
<1> SUFFICES ASSUME ParserInv, [Next]_vars PROVE ParserInv'
  OBVIOUS
<1>1. CASE ReadToken
  BY <1>1, ReadTokenKeeps
<1>2. CASE ParseStatement \/ FinishStatement
  BY <1>2, StatementKeeps
<1>3. CASE ParseTheExpression
  BY <1>3, AssignmentKeeps, ConditionalKeeps, BinaryKeeps, UnaryKeeps, PostfixKeeps, PrimaryKeeps
     DEF ParseTheExpression
<1>4. CASE ParseTheDeclaration
  BY <1>4, DeclarationKeeps, SpecifierKeeps, NonFunDeclaratorKeeps, DeclaratorKeeps
     DEF ParseTheDeclaration
<1>5. CASE UNCHANGED vars
  BY <1>5 DEF vars, ParserInv, InputOK, CallOK, CallersOK
<1> QED BY <1>1, <1>2, <1>3, <1>4, <1>5 DEF Next

\* A call that has returned has left a tree, and each caller that waits for an
\* operand has its operator: the parser never looks at a declarator or an
\* operator that it does not have.
THEOREM ParserInvariant == Spec => []ParserInv
<1>1. Init => ParserInv
  BY InitKeeps
<1>2. ParserInv /\ [Next]_vars => ParserInv'
  BY NextKeeps
<1> QED BY <1>1, <1>2, PTL DEF Spec

\* The parser keeps its types whatever the tokens and however many: what is put
\* behind an operand is an operator, and a level that is asked for is at most
\* one above the highest (parser.cpp:178-213).
THEOREM ParserIsTypeCorrect == Spec => []ParserTypeOK
BY ParserInvariant, InvTypes, PTL
==============================================================================
