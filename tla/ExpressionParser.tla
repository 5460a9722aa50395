---------------------------- MODULE ExpressionParser ----------------------------
(***************************************************************************)
(* The recursive descent of the parser through an expression, with         *)
(* precedence climbing for the binary operators.                           *)
(*                                                                         *)
(* A step is the code between two calls.  "fn" is the function that runs   *)
(* next, "left" its argument, "minPrec" the other argument of              *)
(* parseBinaryExpression and "declKind" that of the functions for          *)
(* declarations (DeclarationParser); a frame of "stack" says where its     *)
(* caller goes on and with which local variables.  The tree of an          *)
(* expression or declaration is written in postfix notation.               *)
(***************************************************************************)
EXTENDS Integers, Sequences

CONSTANTS
  Vocabularies,   \* bound: an input has the tokens of one of these sets
  MaxTokens       \* bound: the number of its tokens, for each

Token == UNION Vocabularies
End == ";"    \* behind the expression or declaration, and the members of a struct

VARIABLES
  tokens,     \* the tokens the lexer has delivered
  pos,        \* the position of _currentToken in them
  fn, left, minPrec, declKind,
  stack       \* the callers, the innermost first

vars == <<tokens, pos, fn, left, minPrec, declKind, stack>>

Level == 0..5
BinaryOperator == {"||", "&&", "==", "!=", "<", "+", "-", "*"}
Known == BinaryOperator \cup
  {"id", "0", "(", ")", "[", "]", ".", "->", ",", "&", "!", "sizeof", "?", ":", "=",
   "int", "char", "void", "struct", "{", "}", End}
TypeWord == {"int", "char", "void", "struct"}
DeclKind == {"ANY", "ABSTRACT", "CONCRETE"}

ASSUME TokenAssumption == Vocabularies \subseteq SUBSET Known /\ MaxTokens \in [Vocabularies -> Nat \ {0}]

\* The nodes of a tree; f(a, b) is written f a argument b argument call.
PrefixKind == {"reference", "dereference", "negation", "not", "sizeof"}
Node == {"id", "0", "sizeof type", "index", "argument", "call", ".", "->", "?:", "="}
          \cup PrefixKind \cup BinaryOperator
          \cup {"int", "char", "void", "struct", "struct tag", "complete", "component",
                "identifier", "nameless", "pointer", "function", "parameter", "declaration"}
NoTree == <<>>

Function == {"assignment", "conditional", "binary", "unary", "postfix", "primary",
             "arguments", "next argument", "member", "sizeof", "return",
             "statement", "declaration", "specifier", "tag", "components", "next component",
             "declarator", "nonfun declarator", "suffixes", "parameters", "next parameter"}
Frame == [to : {"assign", "assigned", "condition", "then", "else", "operand", "right",
                "prefix", "primary", "index", "argument", "parentheses", "type name",
                "specified", "component", "declared", "nonfun", "parenthesized", "pointed",
                "parameter"},
          tree : Seq(Node), op : Node \cup {"none"}, minPrec : Level \cup {6}, declKind : DeclKind]

ParserTypeOK ==
  /\ tokens \in Seq(Token \cup {End})
  /\ pos \in Nat \ {0}
  /\ fn \in Function \cup {"accepted", "rejected"}
  /\ left \in Seq(Node)
  /\ minPrec \in Level \cup {6} /\ declKind \in DeclKind
  /\ stack \in Seq(Frame)

Init ==
  /\ tokens = <<>> /\ pos = 1
  /\ fn = "statement" /\ left = NoTree /\ minPrec = 0 /\ declKind = "ANY"
  /\ stack = <<>>

(***************************************************************************)
(* The parser holds the current token and the next one; popToken has the   *)
(* lexer deliver another.  What follows an End matters only when it is     *)
(* current itself.                                                         *)
(***************************************************************************)
Parsing == fn \notin {"accepted", "rejected"}
HasLookahead ==
  \/ Len(tokens) > pos
  \/ Len(tokens) = pos /\ tokens[pos] = End
ReadToken ==
  /\ Parsing /\ ~HasLookahead
  /\ \E vocabulary \in Vocabularies :
       /\ \A k \in 1..Len(tokens) : tokens[k] \in vocabulary
       /\ \E t \in (IF Len(tokens) < MaxTokens[vocabulary] THEN vocabulary ELSE {}) \cup {End} :
            tokens' = Append(tokens, t)
  /\ UNCHANGED <<pos, fn, left, minPrec, declKind, stack>>

Peek == tokens[pos]
LookAhead(K) == Peek # End /\ tokens[pos + 1] \in K
Running(f) == fn = f /\ HasLookahead

Pop  == pos' = pos + 1 /\ UNCHANGED tokens
Stay == UNCHANGED <<tokens, pos>>

(***************************************************************************)
(* Calls.  A frame keeps what its caller still needs.                      *)
(***************************************************************************)
CallerOf(to, tree, op) ==
  [to |-> to, tree |-> tree, op |-> op, minPrec |-> minPrec, declKind |-> declKind]
CallWith(f, prec, kind, frame) ==
  fn' = f /\ left' = NoTree /\ minPrec' = prec /\ declKind' = kind /\ stack' = <<frame>> \o stack
CallWithLeft(f, frame) ==
  fn' = f /\ minPrec' = 0 /\ stack' = <<frame>> \o stack /\ UNCHANGED <<left, declKind>>
Call(f, frame) == CallWith(f, 0, declKind, frame)
\* parseExpression is parseAssignmentExpression.
CallExpression(to, tree) == Call("assignment", CallerOf(to, tree, "none"))
GoOn(f, tree) == fn' = f /\ left' = tree /\ UNCHANGED <<minPrec, declKind, stack>>
Return(tree) == GoOn("return", tree)
Reject == fn' = "rejected" /\ UNCHANGED <<left, minPrec, declKind, stack>> /\ Stay

\* The call returned to the place "to" of the function that made it, which
\* goes on as f, with its own arguments.
Returned(to) == Running("return") /\ stack # <<>> /\ stack[1].to = to
Continue(f, tree) ==
  /\ fn' = f /\ left' = tree
  /\ minPrec' = stack[1].minPrec /\ declKind' = stack[1].declKind
  /\ stack' = Tail(stack)
Expect(k, f, tree) == IF Peek = k THEN Pop /\ Continue(f, tree) ELSE Reject

\* The caller calls another function before it returns.
CallAgain(f, to, tree) ==
  /\ fn' = f /\ left' = NoTree /\ minPrec' = 0 /\ declKind' = stack[1].declKind
  /\ stack' = <<[stack[1] EXCEPT !.to = to, !.tree = tree]>> \o Tail(stack)
------------------------------------------------------------------------------
(***************************************************************************)
(* parseAssignmentExpression                                               *)
(***************************************************************************)
ParseAssignment ==
  /\ Running("assignment")
  /\ Call("unary", CallerOf("assign", NoTree, "none")) /\ Stay

AfterUnary ==
  /\ Returned("assign")
  /\ IF Peek = "=" THEN CallAgain("assignment", "assigned", left) /\ Pop
     ELSE Continue("conditional", left) /\ Stay

AfterAssigned ==
  /\ Returned("assigned")
  /\ Continue("return", stack[1].tree \o left \o <<"=">>) /\ Stay

(***************************************************************************)
(* parseConditionalExpression.                                             *)
(***************************************************************************)
ParseConditional ==
  /\ Running("conditional")
  /\ CallWithLeft("binary", CallerOf("condition", NoTree, "none")) /\ Stay

AfterCondition ==
  /\ Returned("condition")
  /\ IF Peek = "?" THEN CallAgain("assignment", "then", left) /\ Pop
     ELSE Continue("return", left) /\ Stay

AfterThen ==
  /\ Returned("then")
  /\ IF Peek = ":" THEN CallAgain("conditional", "else", stack[1].tree \o left) /\ Pop
     ELSE Reject

AfterElse ==
  /\ Returned("else")
  /\ Continue("return", stack[1].tree \o left \o <<"?:">>) /\ Stay

(***************************************************************************)
(* parseBinaryExpression.  Mutant: operators of a level associate to the   *)
(* right.                                                                  *)
(***************************************************************************)
PrecedenceLevel(t) ==
  CASE t = "||"           -> 0
    [] t = "&&"           -> 1
    [] t \in {"!=", "=="} -> 2
    [] t = "<"            -> 3
    [] t \in {"+", "-"}   -> 4
    [] t = "*"            -> 5
    [] OTHER              -> -1
Binds(t) == PrecedenceLevel(t) >= minPrec
RightOperandAtSameLevel(t) == PrecedenceLevel(t)
RightOperandLevel(t) == PrecedenceLevel(t) + 1

ParseOperand ==
  /\ Running("binary") /\ left = NoTree
  /\ Call("unary", CallerOf("operand", NoTree, "none")) /\ Stay

AfterOperand == Returned("operand") /\ Continue("binary", left) /\ Stay

ParseOperator ==
  /\ Running("binary") /\ left # NoTree
  /\ IF Binds(Peek)
     THEN /\ CallWith("binary", RightOperandLevel(Peek), declKind, CallerOf("right", left, Peek))
          /\ Pop
     ELSE Return(left) /\ Stay

AfterRight ==
  /\ Returned("right")
  /\ Continue("binary", stack[1].tree \o left \o <<stack[1].op>>) /\ Stay

(***************************************************************************)
(* parseUnaryExpression.  A plus sign leaves no node.  Mutants: a prefix   *)
(* is known by its token; a plus is not read.                              *)
(***************************************************************************)
PrefixIsToken(t) == t
PrefixNode(t) ==
  CASE t = "&" -> "reference" [] t = "*" -> "dereference"
    [] t = "-" -> "negation"  [] t = "!" -> "not" [] t = "sizeof" -> "sizeof"
ParsePrefix ==
  /\ Running("unary") /\ Peek \in {"&", "*", "-", "!"}
  /\ Call("unary", CallerOf("prefix", NoTree, PrefixNode(Peek))) /\ Pop

PlusStays == Running("unary") /\ Peek = "+" /\ GoOn("unary", NoTree) /\ Stay
ParsePlus == Running("unary") /\ Peek = "+" /\ GoOn("unary", NoTree) /\ Pop

ParseSizeof == Running("unary") /\ Peek = "sizeof" /\ GoOn("sizeof", NoTree) /\ Pop

IsTypeNext == Peek = "(" /\ LookAhead(TypeWord)
ParseSizeofType ==
  /\ Running("sizeof") /\ IsTypeNext
  /\ CallWith("declaration", 0, "ABSTRACT", CallerOf("type name", NoTree, "none")) /\ Pop

AfterTypeName ==
  Returned("type name") /\ Expect(")", "return", left \o <<"sizeof type">>)

ParseSizeofOperand ==
  /\ Running("sizeof") /\ ~IsTypeNext
  /\ Call("unary", CallerOf("prefix", NoTree, "sizeof")) /\ Stay

AfterPrefix ==
  /\ Returned("prefix")
  /\ Continue("return", left \o <<stack[1].op>>) /\ Stay

NoPrefix ==
  /\ Running("unary") /\ Peek \notin {"&", "*", "-", "!", "+", "sizeof"}
  /\ GoOn("postfix", NoTree) /\ Stay

(***************************************************************************)
(* parsePostfixExpression                                                  *)
(***************************************************************************)
ParsePrimaryOperand ==
  /\ Running("postfix") /\ left = NoTree
  /\ Call("primary", CallerOf("primary", NoTree, "none")) /\ Stay

AfterPrimary == Returned("primary") /\ Continue("postfix", left) /\ Stay

Postfix == Running("postfix") /\ left # NoTree

ParseIndex == Postfix /\ Peek = "[" /\ CallExpression("index", left) /\ Pop

AfterIndex ==
  Returned("index") /\ Expect("]", "postfix", stack[1].tree \o left \o <<"index">>)

ParseCall == Postfix /\ Peek = "(" /\ GoOn("arguments", left) /\ Pop

\* The loop over the arguments; behind a comma there has to be another one.
ParseArgument ==
  /\ Running("arguments") \/ Running("next argument")
  /\ Peek # ")"
  /\ CallExpression("argument", left) /\ Stay

AfterArgument ==
  LET f == stack[1].tree \o left \o <<"argument">> IN
  /\ Returned("argument")
  /\ IF Peek = "," THEN Continue("next argument", f) /\ Pop
     ELSE Expect(")", "postfix", f \o <<"call">>)

NoArguments ==
  /\ Running("arguments") /\ Peek = ")"
  /\ GoOn("postfix", left \o <<"call">>) /\ Pop

NoArgumentBehindComma == Running("next argument") /\ Peek = ")" /\ Reject

ParseMember ==
  Postfix /\ Peek \in {".", "->"} /\ GoOn("member", left \o <<Peek>>) /\ Pop

ParseMemberName ==
  /\ Running("member")
  /\ IF Peek = "id" THEN GoOn("postfix", left) /\ Pop ELSE Reject

NoPostfix ==
  Postfix /\ Peek \notin {"[", "(", ".", "->"} /\ Return(left) /\ Stay

(***************************************************************************)
(* parsePrimaryExpression                                                  *)
(***************************************************************************)
ParseName == Running("primary") /\ Peek \in {"id", "0"} /\ Return(<<Peek>>) /\ Pop

ParseParentheses ==
  Running("primary") /\ Peek = "(" /\ CallExpression("parentheses", NoTree) /\ Pop

AfterParentheses == Returned("parentheses") /\ Expect(")", "return", left)

NoPrimary == Running("primary") /\ Peek \notin {"id", "0", "("} /\ Reject
------------------------------------------------------------------------------
ParseTheExpression ==
  \/ ParseAssignment \/ AfterUnary \/ AfterAssigned
  \/ ParseConditional \/ AfterCondition \/ AfterThen \/ AfterElse
  \/ ParseOperand \/ AfterOperand \/ ParseOperator \/ AfterRight
  \/ ParsePrefix \/ ParsePlus \/ ParseSizeof \/ ParseSizeofType \/ AfterTypeName
  \/ ParseSizeofOperand \/ AfterPrefix \/ NoPrefix
  \/ ParsePrimaryOperand \/ AfterPrimary \/ ParseIndex \/ AfterIndex
  \/ ParseCall \/ ParseArgument \/ AfterArgument \/ NoArguments
  \/ NoArgumentBehindComma \/ ParseMember \/ ParseMemberName \/ NoPostfix
  \/ ParseName \/ ParseParentheses \/ AfterParentheses \/ NoPrimary
==============================================================================
