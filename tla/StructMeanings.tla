----------------------------- MODULE StructMeanings -----------------------------
(***************************************************************************)
(* What the tags of StructScopes mean in C (6.2.1, 6.2.3, 6.7.2.3), told   *)
(* next to what the type checker makes of them.                            *)
(*                                                                         *)
(* A tag of a scope is one struct, from its first appearance on, that is   *)
(* completed at most once.  "struct t;" and "struct t {" mean the struct   *)
(* of their own scope, every other "struct t" the innermost one.           *)
(***************************************************************************)
EXTENDS StructScopes

VARIABLES
  tags,        \* the structs of C of each scope, by tag
  completion,  \* for each of them, the type object that completed it, or 0
  stands,      \* the struct that each struct type object was made for,
  meant,       \* and the one that each pointer type was made to point to
  agree        \* whether the type checker has taken every tag for its struct

meaningVars == <<tags, completion, stands, meant, agree>>

Struct == 1..Len(completion)
OwnTags == [t \in Tag |-> 0]

MeaningTypeOK ==
  /\ tags \in Seq([Tag -> 0..Len(completion)])
  /\ completion \in Seq(0..Len(structTypes))
  /\ stands \in Seq(Struct) /\ Len(stands) = Len(structTypes)
  /\ meant \in Seq(Struct) /\ Len(meant) = Len(pointerTypes)
  /\ agree \in BOOLEAN

MeaningInit ==
  tags = <<OwnTags>> /\ completion = <<>> /\ stands = <<>> /\ meant = <<>> /\ agree = TRUE

\* Its scope has not ended.
IsOpen(c) == \E i \in 1..Len(tags), t \in Tag : tags[i][t] = c

InnermostMeaning(t) ==
  LET S == {i \in 1..Len(tags) : tags[i][t] # 0}
  IN  IF S = {} THEN 0 ELSE tags[Innermost(S)][t]
OwnMeaning(t) == tags[Top][t]

OrNew(c) == IF c = 0 THEN Len(completion) + 1 ELSE c

\* A declaration mentions t, found to be c, or 0 if it is new; the type checker
\* takes a visible struct for it, or makes a new object, which then stands for c.
Mention(t, c) ==
  /\ tags' = [tags EXCEPT ![Top][t] = IF c = 0 THEN OrNew(c) ELSE @]
  /\ completion' = IF c = 0 THEN Append(completion, 0) ELSE completion
  /\ stands' = IF IsVisible(t) THEN stands ELSE Append(stands, OrNew(c))
  /\ agree' = (agree /\ (IsVisible(t) => stands[GetStructType(t)] = OrNew(c)))

\* The innermost struct, and a pointer to it.
MentionPointer(t) ==
  Mention(t, InnermostMeaning(t)) /\ meant' = Append(meant, OrNew(InnermostMeaning(t)))
MentionStruct(t) == Mention(t, InnermostMeaning(t)) /\ UNCHANGED meant

Define(t) ==
  /\ StartStruct(t)
  /\ tags' = [tags EXCEPT ![Top][t] = OrNew(@)]
  /\ completion' = IF OwnMeaning(t) = 0 THEN Append(completion, 0) ELSE completion
  /\ stands' = Append(stands, OrNew(OwnMeaning(t)))
  /\ UNCHANGED <<meant, agree>>

Complete ==
  /\ FinishStruct
  /\ completion' = IF verdict' = "none" THEN [completion EXCEPT ![stands[defining]] = defining]
                   ELSE completion
  /\ UNCHANGED <<tags, stands, meant, agree>>

\* A new scope, or the end of one.
Block ==
  /\ \/ OpenBlock /\ tags' = Append(tags, OwnTags)
     \/ CloseBlock /\ tags' = SubSeq(tags, 1, Top - 1)
  /\ UNCHANGED <<completion, stands, meant, agree>>

TakeAddress == Reference /\ meant' = Append(meant, stands[expression.ref])
                         /\ UNCHANGED <<tags, completion, stands, agree>>

Mentions ==
  \E t \in Tag :
    \/ DeclareTag(t) /\ Mention(t, OwnMeaning(t)) /\ UNCHANGED meant
    \/ SizeofType(t) /\ MentionStruct(t)
    \/ \E n \in Name : Declare(n, "struct", t) /\ MentionStruct(t)
    \/ \E n \in Name, kind \in {"pointer", "function"} : Declare(n, kind, t) /\ MentionPointer(t)
    \/ \E f \in Field : AddPointer(f, t) /\ MentionPointer(t)
    \/ \E f \in Field : AddStruct(f, t) /\ IF IsVisible(t) THEN MentionStruct(t)
                                           ELSE UNCHANGED meaningVars   \* rejected
    \/ Define(t)

\* What mentions no tag.
Others ==
  /\ \/ \E f \in Field : AddInt(f) \/ Dot(f) \/ Arrow(f)
     \/ \E f, g \in Field : CombineWith(f, g)
     \/ \E n \in Name : Refer(n)
     \/ Dereference \/ Index \/ Sizeof
  /\ UNCHANGED meaningVars

CheckedNext == Block \/ Mentions \/ Complete \/ TakeAddress \/ Others
checkedVars == <<scopeVars, meaningVars>>
CheckedInit == Init /\ MeaningInit
CheckedSpec == CheckedInit /\ [][CheckedNext]_checkedVars
------------------------------------------------------------------------------
\* The types of both.
ScopesTypeOK == StructTypeOK /\ MeaningTypeOK

\* The type checker takes a tag for another struct than C only where a scope
\* declares a tag of an enclosing one: "struct t;" there does not hide the outer
\* struct, and a field "struct t *" in the definition that does hide it still
\* means the outer one (specifiers/struct.cpp:25-32).
ResolutionDiffersOnlyWhereShadowed ==
  [][agree /\ ~agree' =>
       \E t \in Tag : /\ tags'[Top][t] # 0 /\ \E i \in 1..(Top - 1) : tags[i][t] # 0
                      /\ defining = 0 \/ structTypes[defining].tag = t]_checkedVars

\* p->f reads the struct that p was declared to point to, complete as soon as that
\* is, although getCompleteStruct only knows its tag and the depth of its scope:
\* neither a struct of another scope on the way out nor one of a block that ended
\* is taken for it, as long as its own scope lasts.
ArrowFindsMeaning ==
  agree => \A p \in 1..Len(pointerTypes) :
    IsOpen(meant[p]) =>
      LET s == ArrowTarget(p)
      IN  IF completion[meant[p]] = 0 THEN ~structTypes[s].complete ELSE s = completion[meant[p]]

\* The pointer types that variables and fields share change their struct only from
\* the incomplete to the complete object of one tag and depth: what was accepted
\* through one of them once is accepted ever after (suffix.cpp:251-261).
InnerIsOnlyCompleted ==
  [][\A p \in 1..Len(pointerTypes) :
       LET old == structTypes[pointerTypes[p]]
           new == structTypes[pointerTypes'[p]]
       IN  pointerTypes'[p] # pointerTypes[p] =>
             /\ ~old.complete /\ new.complete
             /\ new.tag = old.tag /\ new.scope_counter = old.scope_counter]_checkedVars

\* The second lookup of sizeof, by tag, finds a complete struct for every complete
\* struct of the open scopes, whatever inner scopes declare (unary.cpp:22-32).
SizeofAcceptsCompleteStructs ==
  \A i \in 1..Top, t \in Tag :
    LET s == scopes[i].structs[t]
    IN  s # 0 /\ structTypes[s].complete => structTypes[SizedStruct(s)].complete
================================================================================
