--------------------------- MODULE DeclarationParser ---------------------------
(***************************************************************************)
(* The recursive descent of the parser through a declaration: specifiers,  *)
(* declarators and parameters, and the members of structs; and the         *)
(* statement that is a declaration or an expression.                       *)
(*                                                                         *)
(* A tree in postfix notation begins, for a declarator, with its           *)
(* PrimitiveDeclarator, followed by what is around it from the inside out. *)
(***************************************************************************)
EXTENDS ExpressionParser

(***************************************************************************)
(* parseDeclaration                                                        *)
(***************************************************************************)
IsAbstract(declarator) == declarator[1] = "nameless"

Declare(kind, frame) == CallWith("declaration", 0, kind, frame)

ParseDeclaration ==
  /\ Running("declaration")
  /\ Call("specifier", CallerOf("specified", NoTree, "none")) /\ Stay

AfterSpecifier ==
  /\ Returned("specified")
  /\ CallAgain("declarator", "declared", left) /\ Stay

AfterDeclarator ==
  /\ Returned("declared")
  /\ IF ~IsAbstract(left) /\ stack[1].declKind = "ABSTRACT" THEN Reject
     ELSE Continue("return", stack[1].tree \o left \o <<"declaration">>) /\ Stay

(***************************************************************************)
(* parseTypeSpecifier                                                      *)
(***************************************************************************)
ParseBasicType == Running("specifier") /\ Peek \in {"int", "char", "void"} /\ Return(<<Peek>>) /\ Pop

ParseStruct == Running("specifier") /\ Peek = "struct" /\ GoOn("tag", NoTree) /\ Pop

NoSpecifier == Running("specifier") /\ Peek \notin TypeWord /\ Reject

ParseTag ==
  /\ Running("tag")
  /\ \/ Peek = "id" /\ GoOn("components", <<"struct tag">>) /\ Pop
     \/ Peek = "{" /\ GoOn("components", <<"struct">>) /\ Stay
     \/ Peek \notin {"id", "{"} /\ Reject

\* The first declaration in the braces is not optional.
ParseComponents ==
  /\ Running("components") /\ Peek = "{"
  /\ Declare("CONCRETE", CallerOf("component", left \o <<"complete">>, "none")) /\ Pop

NoComponents == Running("components") /\ Peek # "{" /\ Return(left) /\ Stay

AfterComponent ==
  Returned("component")
    /\ Expect(";", "next component", stack[1].tree \o left \o <<"component">>)

ParseNextComponent ==
  /\ Running("next component") /\ Peek # "}"
  /\ Declare("CONCRETE", CallerOf("component", left, "none")) /\ Stay

EndOfComponents == Running("next component") /\ Peek = "}" /\ Return(left) /\ Pop

(***************************************************************************)
(* parseNonFunDeclarator.  Mutant: a type in parentheses is taken for a    *)
(* declarator.                                                             *)
(***************************************************************************)
NeverOpensParameters == FALSE
OpensParameters == LookAhead(TypeWord)

NamelessFunction == Running("nonfun declarator") /\ Peek = "(" /\ LookAhead({")"}) /\ Reject

NoDeclaratorInFront ==
  /\ Running("nonfun declarator") /\ Peek = "(" /\ OpensParameters
  /\ Return(<<"nameless">>) /\ Stay

ParseParenthesized ==
  /\ Running("nonfun declarator") /\ Peek = "(" /\ ~LookAhead({")"}) /\ ~OpensParameters
  /\ Call("declarator", CallerOf("parenthesized", NoTree, "none")) /\ Pop

AfterParenthesized == Returned("parenthesized") /\ Expect(")", "return", left)

ParsePointer ==
  /\ Running("nonfun declarator") /\ Peek = "*"
  /\ Call("declarator", CallerOf("pointed", NoTree, "none")) /\ Pop

AfterPointed == Returned("pointed") /\ Continue("return", left \o <<"pointer">>) /\ Stay

ParseIdentifier ==
  Running("nonfun declarator") /\ Peek = "id" /\ Return(<<"identifier">>) /\ Pop

NoIdentifier ==
  /\ Running("nonfun declarator") /\ Peek \notin {"(", "*", "id"}
  /\ Return(<<"nameless">>) /\ Stay

(***************************************************************************)
(* parseDeclarator                                                         *)
(***************************************************************************)
ParseDeclarator ==
  /\ Running("declarator")
  /\ Call("nonfun declarator", CallerOf("nonfun", NoTree, "none")) /\ Stay

AfterNonFun == Returned("nonfun") /\ Continue("suffixes", left) /\ Stay

MustHaveName == IsAbstract(left) /\ declKind = "CONCRETE"

ParseParameters ==
  /\ Running("suffixes") /\ Peek = "("
  /\ IF MustHaveName THEN Reject ELSE GoOn("parameters", left \o <<"function">>) /\ Pop

NoSuffix == Running("suffixes") /\ Peek # "(" /\ Return(left) /\ Stay

NoParameters == Running("parameters") /\ Peek = ")" /\ GoOn("suffixes", left) /\ Pop

ParseParameter ==
  /\ Running("parameters") \/ Running("next parameter")
  /\ Peek # ")"
  /\ Declare("ANY", CallerOf("parameter", left, "none")) /\ Stay

AfterParameter ==
  LET f == stack[1].tree \o left \o <<"parameter">> IN
  /\ Returned("parameter")
  /\ IF Peek = "," THEN Continue("next parameter", f) /\ Pop
     ELSE Expect(")", "suffixes", f)

NoParameterBehindComma == Running("next parameter") /\ Peek = ")" /\ Reject
------------------------------------------------------------------------------
(***************************************************************************)
(* parseStatement, for statements that are declarations or expressions.    *)
(***************************************************************************)
StatementFunction == IF Peek \in TypeWord THEN "declaration" ELSE "assignment"

ParseStatement ==
  /\ Running("statement")
  /\ fn' = StatementFunction
  /\ declKind' = IF Peek \in TypeWord THEN "CONCRETE" ELSE declKind
  /\ UNCHANGED <<left, minPrec, stack>> /\ Stay

FinishStatement ==
  /\ Running("return") /\ stack = <<>>
  /\ fn' = IF Peek = End THEN "accepted" ELSE "rejected"
  /\ UNCHANGED <<tokens, pos, left, minPrec, declKind, stack>>

ParseTheDeclaration ==
  \/ ParseDeclaration \/ AfterSpecifier \/ AfterDeclarator
  \/ ParseBasicType \/ ParseStruct \/ NoSpecifier \/ ParseTag
  \/ ParseComponents \/ NoComponents \/ AfterComponent \/ ParseNextComponent \/ EndOfComponents
  \/ NamelessFunction \/ NoDeclaratorInFront \/ ParseParenthesized \/ AfterParenthesized
  \/ ParsePointer \/ AfterPointed \/ ParseIdentifier \/ NoIdentifier
  \/ ParseDeclarator \/ AfterNonFun \/ ParseParameters \/ NoSuffix \/ NoParameters
  \/ ParseParameter \/ AfterParameter \/ NoParameterBehindComma

Next == ReadToken \/ ParseStatement \/ ParseTheExpression \/ ParseTheDeclaration \/ FinishStatement

Spec == Init /\ [][Next]_vars /\ WF_vars(Next)
------------------------------------------------------------------------------
(***************************************************************************)
(* Whatever the tokens, the calls come to an end (parser.cpp:8-126 and     *)
(* 343-415: loops, and calls that do not read a token).                    *)
(***************************************************************************)
ParsingEnds == <>(~Parsing)
==============================================================================
