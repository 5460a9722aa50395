------------------------------ MODULE StructScopes ------------------------------
(***************************************************************************)
(* Struct tags in the type checker.  A StructSpecifier becomes a type      *)
(* object that scopes, variables, fields and pointer types share; a struct *)
(* that is completed later is a new object, which replaces the incomplete  *)
(* one in its scope and nowhere else.  An arrow expression replaces it in  *)
(* the pointer type it goes through, for everybody who shares that.        *)
(*                                                                         *)
(* A program is read declaration by declaration and operator by operator,  *)
(* each checked as it comes.                                               *)
(***************************************************************************)
EXTENDS Integers, Sequences

CONSTANTS
  Tag, Name,      \* the tags of structs, and the names of variables and functions
  Field,          \* the names of their fields
  MaxScopes,      \* bounds: the blocks open at a time,
  MaxDeclared,    \* the declarations of a program,
  MaxFields,      \* the fields of a struct,
  MaxOperators    \* and the operators of its expressions

VARIABLES
  scopes,        \* the chain of Scopes, the file scope first; the code's scope_counter is the depth
  structTypes,   \* the StructType and CompleteStructType objects
  pointerTypes,  \* the PointerType objects, each with its inner struct
  defining,      \* the CompleteStructType whose components are read, or 0
  expression,    \* the type of the expression that is checked
  declared, operators,   \* the declarations and operators so far
  verdict

scopeVars == <<scopes, structTypes, pointerTypes, defining, expression, declared, operators, verdict>>

ASSUME ScopesAssumption == MaxScopes \in Nat \ {0} /\ MaxDeclared \in Nat /\ MaxFields \in Nat

(* Types *)

\* A type is int, or a reference to a type object.  Functions have no
\* parameters and return pointers to structs; "ref" is the pointer type.
Type == [kind : {"none", "int", "struct", "pointer", "function"}, ref : Nat]
NoType == [kind |-> "none", ref |-> 0]
IntType == [kind |-> "int", ref |-> 0]
StructRef(s) == [kind |-> "struct", ref |-> s]
PointerRef(p) == [kind |-> "pointer", ref |-> p]
FunctionRef(p) == [kind |-> "function", ref |-> p]

StructType == [tag : Tag, scope_counter : Nat, complete : BOOLEAN,
               fields : Seq([name : Field, type : Type])]

HasField(s, f) == \E i \in 1..Len(structTypes[s].fields) : structTypes[s].fields[i].name = f
TypeOfField(s, f) ==
  LET i == CHOOSE i \in 1..Len(structTypes[s].fields) : structTypes[s].fields[i].name = f
  IN  structTypes[s].fields[i].type

(* Scopes *)

EmptyScope == [structs |-> [t \in Tag |-> 0], vars |-> [n \in Name |-> NoType]]
Depth == Len(scopes) - 1
Top == Len(scopes)

StructTypeOK ==
  /\ scopes \in Seq([structs : [Tag -> 0..Len(structTypes)], vars : [Name -> Type]])
  /\ scopes # <<>>
  /\ structTypes \in Seq(StructType)
  /\ pointerTypes \in Seq(1..Len(structTypes))
  /\ defining \in 0..Len(structTypes)
  /\ expression \in Type
  /\ declared \in Nat /\ operators \in Nat
  /\ verdict \in {"none", "rejected"}

Init ==
  /\ scopes = <<EmptyScope>>
  /\ structTypes = <<>> /\ pointerTypes = <<>> /\ defining = 0
  /\ expression = NoType /\ declared = 0 /\ operators = 0 /\ verdict = "none"

Ready == verdict = "none" /\ defining = 0

Declares(t) == {i \in 1..Top : scopes[i].structs[t] # 0}
Holds(n) == {i \in 1..Top : scopes[i].vars[n] # NoType}
Innermost(S) == CHOOSE i \in S : \A j \in S : j <= i

IsDeclaredHere(t) == Top \in Declares(t)   \* mutant: enclosing scopes are not asked
IsVisible(t) == Declares(t) # {}

OutermostStructType(t) ==   \* mutant
  scopes[CHOOSE i \in Declares(t) : \A j \in Declares(t) : i <= j].structs[t]
GetStructType(t) == scopes[Innermost(Declares(t))].structs[t]

\* The scopes that hold a complete struct with the tag and the depth of s.
CompletesAtAnyDepth(i, s) ==   \* mutant: the depth is not compared
  LET found == scopes[i].structs[structTypes[s].tag]
  IN  found # 0 /\ structTypes[found].complete
Completes(i, s) ==
  LET found == scopes[i].structs[structTypes[s].tag]
  IN  /\ found # 0 /\ structTypes[found].complete
      /\ structTypes[found].scope_counter = structTypes[s].scope_counter

GetCompleteStruct(s) ==
  LET S == {i \in 1..Top : Completes(i, s)}
  IN  IF S = {} THEN s ELSE scopes[Innermost(S)].structs[structTypes[s].tag]

(* struct t without components: the visible struct, or a new one here *)

NamedStruct(t) == IF IsVisible(t) THEN GetStructType(t) ELSE Len(structTypes) + 1

\* "others" are the scopes with what else the declaration adds.
AddNamedStruct(t, others) ==
  IF IsVisible(t) THEN scopes' = others /\ UNCHANGED structTypes
  ELSE /\ scopes' = [others EXCEPT ![Top].structs[t] = NamedStruct(t)]
       /\ structTypes' = Append(structTypes, [tag |-> t, scope_counter |-> Depth,
                                              complete |-> FALSE, fields |-> <<>>])

(* Blocks and declarations *)

OpenBlock ==
  /\ Ready /\ Top < MaxScopes
  /\ scopes' = Append(scopes, EmptyScope)
  /\ expression' = NoType
  /\ UNCHANGED <<structTypes, pointerTypes, defining, declared, operators, verdict>>

CloseAnyBlock ==   \* mutant: also the file scope
  /\ Ready
  /\ scopes' = SubSeq(scopes, 1, Top - 1)
  /\ expression' = NoType
  /\ UNCHANGED <<structTypes, pointerTypes, defining, declared, operators, verdict>>
CloseBlock ==
  /\ Ready /\ Top > 1
  /\ scopes' = SubSeq(scopes, 1, Top - 1)
  /\ expression' = NoType
  /\ UNCHANGED <<structTypes, pointerTypes, defining, declared, operators, verdict>>

IsDeclaration ==
  /\ Ready /\ declared < MaxDeclared
  /\ declared' = declared + 1
  /\ UNCHANGED <<defining, operators>>

\* struct t;
DeclareTag(t) ==
  /\ IsDeclaration
  /\ AddNamedStruct(t, scopes)
  /\ expression' = NoType
  /\ UNCHANGED <<pointerTypes, verdict>>

\* The file scope takes a declaration again if it has the same type: structs
\* are equal if their tags are.
TagOf(type) ==
  IF type.kind = "struct" THEN structTypes[type.ref].tag ELSE structTypes[pointerTypes[type.ref]].tag
IsDuplicate(i, n, kind, t) ==
  LET old == scopes[i].vars[n]
  IN  /\ old # NoType
      /\ i = 1 => old.kind # kind \/ TagOf(old) # t

\* struct t n;  struct t *n;  struct t *n();  A function goes to the file scope.
Declare(n, kind, t) ==
  LET i == IF kind = "function" THEN 1 ELSE Top
      type == [kind |-> kind,
               ref |-> IF kind = "struct" THEN NamedStruct(t) ELSE Len(pointerTypes) + 1]
      added == IF scopes[i].vars[n] = NoType THEN [scopes EXCEPT ![i].vars[n] = type] ELSE scopes
  IN  /\ IsDeclaration
      /\ expression' = NoType
      /\ AddNamedStruct(t, added)
      /\ pointerTypes' = IF kind = "struct" THEN pointerTypes ELSE Append(pointerTypes, NamedStruct(t))
      /\ verdict' = IF IsDuplicate(i, n, kind, t) THEN "rejected" ELSE "none"

(* Definitions of structs *)

\* struct t {   The new object is not yet in the scope.
StartStruct(t) ==
  /\ Ready /\ declared < MaxDeclared
  /\ declared' = declared + 1
  /\ structTypes' = Append(structTypes, [tag |-> t, scope_counter |-> Depth,
                                         complete |-> TRUE, fields |-> <<>>])
  /\ defining' = Len(structTypes) + 1
  /\ expression' = NoType
  /\ UNCHANGED <<scopes, pointerTypes, operators, verdict>>

IsComponent ==
  /\ verdict = "none" /\ defining # 0 /\ Len(structTypes[defining].fields) < MaxFields
  /\ UNCHANGED <<defining, expression, declared, operators>>

\* addField with its error, a duplicate name.
AddField(types, f, type) ==
  /\ structTypes' = [types EXCEPT ![defining].fields = Append(@, [name |-> f, type |-> type])]
  /\ verdict' = IF HasField(defining, f) THEN "rejected" ELSE "none"

AddInt(f) ==
  /\ IsComponent
  /\ AddField(structTypes, f, IntType)
  /\ UNCHANGED <<scopes, pointerTypes>>

\* struct t *f;
AddPointer(f, t) ==
  /\ IsComponent
  /\ pointerTypes' = Append(pointerTypes, NamedStruct(t))
  /\ LET types == IF IsVisible(t) THEN structTypes
                  ELSE Append(structTypes, [tag |-> t, scope_counter |-> Depth,
                                            complete |-> FALSE, fields |-> <<>>])
     IN  AddField(types, f, PointerRef(Len(pointerTypes) + 1))
  /\ scopes' = IF IsVisible(t) THEN scopes ELSE [scopes EXCEPT ![Top].structs[t] = NamedStruct(t)]

\* struct t f;
AddStruct(f, t) ==
  /\ IsComponent
  /\ IF IsVisible(t) /\ structTypes[GetStructType(t)].complete
     THEN AddField(structTypes, f, StructRef(GetStructType(t)))
     ELSE verdict' = "rejected" /\ UNCHANGED structTypes
  /\ UNCHANGED <<scopes, pointerTypes>>

\* An anonymous struct of two ints.  combineWith stops at the first duplicate,
\* and its error is dropped.
CombineWith(f, g) ==
  LET field(name) == [name |-> name, type |-> IntType]
      own == structTypes[defining].fields
      fields == IF HasField(defining, f) THEN own
                ELSE IF HasField(defining, g) THEN Append(own, field(f))
                ELSE own \o <<field(f), field(g)>>
  IN  /\ IsComponent /\ f # g
      /\ structTypes' = [structTypes EXCEPT ![defining].fields = fields]
      /\ UNCHANGED <<scopes, pointerTypes, verdict>>

\* }
IsStructDefined(t) ==
  LET s == scopes[Top].structs[t] IN s # 0 /\ structTypes[s].complete

\* All fields have names here.
ValidateFields == structTypes[defining].fields # <<>>

FinishStruct ==
  /\ verdict = "none" /\ defining # 0
  /\ LET t == structTypes[defining].tag
     IN  IF ~ValidateFields \/ IsStructDefined(t)
         THEN verdict' = "rejected" /\ UNCHANGED scopes
         ELSE scopes' = [scopes EXCEPT ![Top].structs[t] = defining] /\ UNCHANGED verdict
  /\ defining' = 0
  /\ UNCHANGED <<structTypes, pointerTypes, expression, declared, operators>>

(* Expressions *)

IsOperator ==
  /\ Ready /\ operators < MaxOperators
  /\ operators' = operators + 1
  /\ UNCHANGED <<defining, declared>>

Result(type) == expression' = type /\ UNCHANGED verdict
Reject == verdict' = "rejected" /\ UNCHANGED expression

\* A variable, or a call of a function.
Refer(n) ==
  /\ IsOperator
  /\ IF Holds(n) = {} THEN Reject
     ELSE LET type == scopes[Innermost(Holds(n))].vars[n]
          IN  Result(IF type.kind = "function" THEN PointerRef(type.ref) ELSE type)
  /\ UNCHANGED <<scopes, structTypes, pointerTypes>>

\* The field f of struct s.
AccessField(s, f) ==
  IF structTypes[s].complete /\ HasField(s, f) THEN Result(TypeOfField(s, f)) ELSE Reject

Dot(f) ==
  /\ IsOperator /\ expression # NoType
  /\ IF expression.kind = "struct" THEN AccessField(expression.ref, f) ELSE Reject
  /\ UNCHANGED <<scopes, structTypes, pointerTypes>>

ArrowTargetByTag(p) ==   \* mutant: looked up like that of sizeof
  LET t == structTypes[pointerTypes[p]].tag
  IN  IF IsVisible(t) THEN GetStructType(t) ELSE pointerTypes[p]

\* The struct that an arrow through pointer type p reaches.
ArrowTarget(p) ==
  IF structTypes[pointerTypes[p]].complete THEN pointerTypes[p] ELSE GetCompleteStruct(pointerTypes[p])

Arrow(f) ==
  /\ IsOperator /\ expression # NoType
  /\ IF expression.kind # "pointer" THEN Reject /\ UNCHANGED pointerTypes
     ELSE /\ pointerTypes' = [pointerTypes EXCEPT ![expression.ref] = ArrowTarget(expression.ref)]
          /\ AccessField(ArrowTarget(expression.ref), f)
  /\ UNCHANGED <<scopes, structTypes>>

Dereference ==
  /\ IsOperator /\ expression # NoType
  /\ IF expression.kind = "pointer" THEN Result(StructRef(pointerTypes[expression.ref])) ELSE Reject
  /\ UNCHANGED <<scopes, structTypes, pointerTypes>>

\* e[0]
Index ==
  /\ IsOperator /\ expression # NoType
  /\ IF expression.kind = "pointer" /\ structTypes[pointerTypes[expression.ref]].complete
     THEN Result(StructRef(pointerTypes[expression.ref]))
     ELSE Reject
  /\ UNCHANGED <<scopes, structTypes, pointerTypes>>

\* &e, of a struct
Reference ==
  /\ IsOperator /\ expression.kind = "struct"
  /\ pointerTypes' = Append(pointerTypes, expression.ref)
  /\ Result(PointerRef(Len(pointerTypes) + 1))
  /\ UNCHANGED <<scopes, structTypes>>

\* sizeof e looks the struct up again, by its tag.
SizedStruct(s) == IF IsVisible(structTypes[s].tag) THEN GetStructType(structTypes[s].tag) ELSE s
Sizeof ==
  /\ IsOperator /\ expression # NoType
  /\ IF expression.kind = "struct" /\ ~structTypes[SizedStruct(expression.ref)].complete
     THEN Reject ELSE Result(IntType)
  /\ UNCHANGED <<scopes, structTypes, pointerTypes>>

\* sizeof(struct t), which need not be complete
SizeofType(t) ==
  /\ IsOperator
  /\ AddNamedStruct(t, scopes)
  /\ Result(IntType)
  /\ UNCHANGED pointerTypes

Next ==
  \/ OpenBlock \/ CloseBlock
  \/ \E t \in Tag : DeclareTag(t) \/ StartStruct(t) \/ SizeofType(t)
  \/ \E n \in Name, t \in Tag, kind \in {"struct", "pointer", "function"} : Declare(n, kind, t)
  \/ \E f \in Field : AddInt(f) \/ Dot(f) \/ Arrow(f)
  \/ \E f \in Field, t \in Tag : AddPointer(f, t) \/ AddStruct(f, t)
  \/ \E f, g \in Field : CombineWith(f, g)
  \/ FinishStruct
  \/ \E n \in Name : Refer(n)
  \/ Dereference \/ Index \/ Reference \/ Sizeof

Spec == Init /\ [][Next]_scopeVars
================================================================================
