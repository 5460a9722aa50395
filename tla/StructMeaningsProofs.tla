-------------------------- MODULE StructMeaningsProofs --------------------------
(***************************************************************************)
(* For any tags, names and fields and programs of every size: the state of *)
(* the type checker is well-typed, it takes a tag for another struct than  *)
(* C only where an inner scope hides it, and an arrow finds the struct     *)
(* that was meant.                                                         *)
(***************************************************************************)
EXTENDS StructMeanings, WellFoundedInduction, TLAPS

ScopeRecord(n) == [structs : [Tag -> 0..n], vars : [Name -> Type]]

\* A type that refers to objects there are, and not to the struct d in definition.
Valid(type, d) ==
  /\ type \in Type
  /\ type.kind = "struct" => type.ref \in 1..Len(structTypes) /\ type.ref # d
  /\ type.kind \in {"pointer", "function"} => type.ref \in 1..Len(pointerTypes)

ReferencesOK(d) ==
  /\ \A p \in 1..Len(pointerTypes) : pointerTypes[p] # d
  /\ \A i \in 1..Top : /\ \A t \in Tag : scopes[i].structs[t] # 0 => scopes[i].structs[t] # d
                       /\ \A n \in Name : Valid(scopes[i].vars[n], d)
  /\ \A s \in 1..Len(structTypes) :
       \A k \in 1..Len(structTypes[s].fields) : Valid(structTypes[s].fields[k].type, d)
  /\ Valid(expression, d)

TypeInv(d) ==
  /\ ScopesTypeOK
  /\ Len(tags) = Len(scopes)
  /\ d \in 0..Len(structTypes)
  /\ verdict = "none" => d = defining
  /\ d # 0 => structTypes[d].complete /\ structTypes[d].scope_counter = Depth
  /\ ReferencesOK(d)

\* A tag of a scope names an object with that tag, and an incomplete one hides none.
TagInv ==
  \A i \in 1..Top, t \in Tag :
    LET s == scopes[i].structs[t]
    IN  s # 0 => /\ structTypes[s].tag = t
                 /\ ~structTypes[s].complete => \A j \in 1..(i - 1) : scopes[j].structs[t] = 0

\* A struct of C has one place.
OnePlace ==
  \A i, j \in 1..Top : \A t, u \in Tag :
    tags[i][t] = tags[j][u] /\ tags[i][t] # 0 => i = j /\ t = u

\* As long as the type checker agrees with C, the struct it finds for a tag is that
\* of C, and has its tag and depth; only the struct in definition can be missing.
Agrees(d) ==
  /\ \A i \in 1..Top, t \in Tag :
       /\ scopes[i].structs[t] # 0 => stands[scopes[i].structs[t]] = tags[i][t]
       /\ tags[i][t] # 0 /\ scopes[i].structs[t] = 0 =>
            d # 0 /\ i = Top /\ structTypes[d].tag = t
       /\ tags[i][t] # 0 /\ completion[tags[i][t]] # 0 =>
            scopes[i].structs[t] = completion[tags[i][t]]
  /\ \A s \in 1..Len(structTypes), i \in 1..Top, t \in Tag :
       stands[s] = tags[i][t] => structTypes[s].tag = t /\ structTypes[s].scope_counter = i - 1
  /\ \A s \in 1..Len(structTypes) :
       structTypes[s].complete /\ s # d => completion[stands[s]] = s
  /\ \A c \in Struct : completion[c] # 0 => structTypes[completion[c]].complete
  /\ d # 0 => stands[d] = tags[Top][structTypes[d].tag]

\* A pointer type points to what was meant, as long as that is in a scope.
PointersAgree ==
  \A p \in 1..Len(pointerTypes) : IsOpen(meant[p]) => stands[pointerTypes[p]] = meant[p]

MeaningInv(d) == OnePlace /\ (agree => Agrees(d) /\ PointersAgree)

Inv(d) == TypeInv(d) /\ TagInv /\ MeaningInv(d)
IInv == \E d \in Nat : Inv(d)

(* Lookups *)

LEMMA LastExists ==
  ASSUME NEW n \in Nat, NEW S \in SUBSET (1..n), S # {}
  PROVE  \E i \in S : \A j \in S : j <= i
<1> DEFINE R == OpToRel(<, Nat)
           T == {n - i : i \in S}
<1>1. \E x \in T : \A y \in T : ~(<<y, x>> \in R)
  <2>1. T \subseteq Nat /\ T # {}
    BY SMT
  <2>2. IsWellFoundedOn(R, Nat)
    BY NatLessThanWellFounded
  <2> HIDE DEF R, T
  <2> QED
    BY <2>1, <2>2, WFMin
<1>2. PICK x \in T : \A y \in T : ~(<<y, x>> \in R)
  BY <1>1
<1>3. PICK i \in S : x = n - i
  BY <1>2
<1>4. ASSUME NEW j \in S PROVE j <= i
  <2>1. n - j \in T /\ n - j \in Nat /\ n - i \in Nat
    OBVIOUS
  <2>2. ~(<<n - j, n - i>> \in R)
    BY <2>1, <1>2, <1>3
  <2>3. ~(n - j < n - i)
    BY <2>1, <2>2 DEF OpToRel
  <2> QED
    BY <2>3, <1>3
<1> QED
  BY <1>4

LEMMA InnermostIsLast ==
  ASSUME NEW n \in Nat, NEW S \in SUBSET (1..n), S # {}
  PROVE  Innermost(S) \in S /\ \A j \in S : j <= Innermost(S)
BY LastExists DEF Innermost

LEMMA ElementsOf ==
  ASSUME NEW S, NEW q \in Seq(S)
  PROVE  \A i \in 1..Len(q) : q[i] \in S
OBVIOUS

LEMMA Appended ==
  ASSUME NEW S, NEW q \in Seq(S), NEW x \in S
  PROVE  /\ Append(q, x) \in Seq(S) /\ Len(Append(q, x)) = Len(q) + 1
         /\ Append(q, x)[Len(q) + 1] = x
         /\ \A i \in 1..Len(q) : Append(q, x)[i] = q[i]
OBVIOUS

LEMMA InFront ==
  ASSUME NEW S, NEW q \in Seq(S), NEW n \in 0..Len(q)
  PROVE  /\ SubSeq(q, 1, n) \in Seq(S) /\ Len(SubSeq(q, 1, n)) = n
         /\ \A i \in 1..n : SubSeq(q, 1, n)[i] = q[i]
OBVIOUS

LEMMA Widened ==
  ASSUME NEW S, NEW T, S \subseteq T, NEW q \in Seq(S)
  PROVE  q \in Seq(T)
OBVIOUS

LEMMA IsFunction ==
  ASSUME NEW S, NEW q \in Seq(S)
  PROVE  q \in [1..Len(q) -> S]
OBVIOUS

LEMMA IsSequence ==
  ASSUME NEW S, NEW n \in Nat, NEW q, q = [i \in 1..n |-> q[i]], \A i \in 1..n : q[i] \in S
  PROVE  q \in Seq(S) /\ Len(q) = n
<1>1. q \in [1..n -> S]
  OBVIOUS
<1> QED
  BY <1>1

\* What the type invariant says of the elements.
LEMMA TypeFacts ==
  ASSUME NEW d, TypeInv(d)
  PROVE  /\ Top \in Nat \ {0} /\ Len(scopes) = Top /\ Len(tags) = Top /\ Depth = Top - 1
         /\ scopes \in Seq(ScopeRecord(Len(structTypes))) /\ tags \in Seq([Tag -> 0..Len(completion)])
         /\ \A i \in 1..Top : /\ scopes[i] \in ScopeRecord(Len(structTypes))
                              /\ \A t \in Tag : /\ scopes[i].structs[t] \in 0..Len(structTypes)
                                                /\ tags[i][t] \in 0..Len(completion)
                              /\ \A n \in Name : scopes[i].vars[n] \in Type
         /\ structTypes \in Seq(StructType) /\ Len(structTypes) \in Nat
         /\ pointerTypes \in Seq(1..Len(structTypes)) /\ Len(pointerTypes) \in Nat
         /\ completion \in Seq(0..Len(structTypes)) /\ Len(completion) \in Nat
         /\ stands \in Seq(1..Len(completion)) /\ Len(stands) = Len(structTypes)
         /\ meant \in Seq(1..Len(completion)) /\ Len(meant) = Len(pointerTypes)
         /\ d \in 0..Len(structTypes) /\ (verdict = "none" => d = defining)
         /\ \A s \in 1..Len(structTypes) : structTypes[s] \in StructType /\ stands[s] \in 1..Len(completion)
         /\ \A p \in 1..Len(pointerTypes) : pointerTypes[p] \in 1..Len(structTypes) /\ meant[p] \in 1..Len(completion)
<1>1. /\ scopes \in Seq(ScopeRecord(Len(structTypes))) /\ scopes # <<>>
      /\ tags \in Seq([Tag -> 0..Len(completion)])
      /\ Len(tags) = Len(scopes)
  BY DEF TypeInv, ScopesTypeOK, StructTypeOK, MeaningTypeOK, ScopeRecord
<1>2. \A i \in 1..Len(scopes) : scopes[i] \in ScopeRecord(Len(structTypes)) /\ tags[i] \in [Tag -> 0..Len(completion)]
  BY <1>1
<1>3. Len(scopes) \in Nat \ {0}
  BY <1>1
<1>4. /\ structTypes \in Seq(StructType)
      /\ pointerTypes \in Seq(1..Len(structTypes))
      /\ completion \in Seq(0..Len(structTypes))
      /\ stands \in Seq(1..Len(completion)) /\ Len(stands) = Len(structTypes)
      /\ meant \in Seq(1..Len(completion)) /\ Len(meant) = Len(pointerTypes)
      /\ d \in 0..Len(structTypes) /\ (verdict = "none" => d = defining)
  BY DEF TypeInv, ScopesTypeOK, StructTypeOK, MeaningTypeOK, Struct
<1>5. /\ \A s \in 1..Len(structTypes) : structTypes[s] \in StructType /\ stands[s] \in 1..Len(completion)
      /\ \A p \in 1..Len(pointerTypes) : pointerTypes[p] \in 1..Len(structTypes) /\ meant[p] \in 1..Len(completion)
      /\ Len(structTypes) \in Nat /\ Len(pointerTypes) \in Nat /\ Len(completion) \in Nat
  <2>1. Len(structTypes) \in Nat /\ Len(pointerTypes) \in Nat /\ Len(completion) \in Nat
    BY <1>4
  <2>2. \A s \in 1..Len(structTypes) : structTypes[s] \in StructType
    BY <1>4, ElementsOf
  <2>3. \A s \in 1..Len(stands) : stands[s] \in 1..Len(completion)
    BY <1>4, ElementsOf
  <2>4. \A p \in 1..Len(pointerTypes) : pointerTypes[p] \in 1..Len(structTypes)
    BY <1>4, ElementsOf
  <2>5. \A p \in 1..Len(meant) : meant[p] \in 1..Len(completion)
    BY <1>4, ElementsOf
  <2> QED
    BY <2>1, <2>2, <2>3, <2>4, <2>5, <1>4
<1>6. \A i \in 1..Len(scopes) : /\ \A t \in Tag : /\ scopes[i].structs[t] \in 0..Len(structTypes)
                                                  /\ tags[i][t] \in 0..Len(completion)
                                /\ \A n \in Name : scopes[i].vars[n] \in Type
  BY <1>2 DEF ScopeRecord
<1> QED
  BY <1>1, <1>2, <1>3, <1>4, <1>5, <1>6 DEF Top, Depth

\* The struct that is visible under a tag, and where.
LEMMA FoundStruct ==
  ASSUME NEW d, TypeInv(d), NEW t \in Tag, IsVisible(t)
  PROVE  \E k \in 1..Top : /\ GetStructType(t) = scopes[k].structs[t]
                           /\ scopes[k].structs[t] \in 1..Len(structTypes)
                           /\ scopes[k].structs[t] # d
                           /\ \A j \in (k + 1)..Top : scopes[j].structs[t] = 0
<1>1. Top \in Nat /\ Declares(t) \in SUBSET (1..Top) /\ Declares(t) # {}
  BY DEF TypeInv, ScopesTypeOK, StructTypeOK, Top, Declares, IsVisible
<1> DEFINE k == Innermost(Declares(t))
<1>2. k \in Declares(t) /\ \A j \in Declares(t) : j <= k
  BY <1>1, InnermostIsLast
<1> HIDE DEF k
<1>3. k \in 1..Top /\ scopes[k].structs[t] # 0 /\ \A j \in (k + 1)..Top : scopes[j].structs[t] = 0
  BY <1>1, <1>2 DEF Declares
<1>4. scopes[k].structs[t] \in 0..Len(structTypes)
  BY <1>3, TypeFacts
<1>5. scopes[k].structs[t] # d
  BY <1>3 DEF TypeInv, ReferencesOK
<1>6. GetStructType(t) = scopes[k].structs[t] /\ Len(structTypes) \in Nat
  BY TypeFacts DEF GetStructType, k
<1> QED
  BY <1>3, <1>4, <1>5, <1>6

LEMMA FoundType ==
  ASSUME NEW d, TypeInv(d), NEW n \in Name, Holds(n) # {}
  PROVE  Valid(scopes[Innermost(Holds(n))].vars[n], d)
<1>1. Top \in Nat /\ Holds(n) \in SUBSET (1..Top)
  BY DEF TypeInv, ScopesTypeOK, StructTypeOK, Top, Holds
<1>2. Innermost(Holds(n)) \in 1..Top
  BY <1>1, InnermostIsLast
<1> QED
  BY <1>2 DEF TypeInv, ReferencesOK

LEMMA FoundMeaning ==
  ASSUME NEW d, TypeInv(d), NEW t \in Tag
  PROVE  /\ InnermostMeaning(t) \in 0..Len(completion)
         /\ InnermostMeaning(t) = 0 => \A i \in 1..Top : tags[i][t] = 0
         /\ InnermostMeaning(t) # 0 =>
              \E j \in 1..Top : /\ InnermostMeaning(t) = tags[j][t]
                                /\ \A i \in (j + 1)..Top : tags[i][t] = 0
         /\ OwnMeaning(t) \in 0..Len(completion)
<1> DEFINE S == {i \in 1..Len(tags) : tags[i][t] # 0}
<1>1. /\ Len(tags) = Top /\ Top \in Nat \ {0} /\ tags \in Seq([Tag -> 0..Len(completion)])
      /\ completion \in Seq(0..Len(structTypes))
  BY DEF TypeInv, ScopesTypeOK, StructTypeOK, MeaningTypeOK, Top
<1>2. S \in SUBSET (1..Top) /\ S = {i \in 1..Top : tags[i][t] # 0}
  BY <1>1
<1>3. \A i \in 1..Top : tags[i][t] \in 0..Len(completion)
  BY <1>1
<1>4. OwnMeaning(t) \in 0..Len(completion)
  BY <1>1, <1>3 DEF OwnMeaning
<1>5. InnermostMeaning(t) = IF S = {} THEN 0 ELSE tags[Innermost(S)][t]
  BY DEF InnermostMeaning
<1>6. CASE S = {}
  <2>1. InnermostMeaning(t) = 0 /\ \A i \in 1..Top : tags[i][t] = 0
    BY <1>2, <1>5, <1>6
  <2>2. 0 \in 0..Len(completion)
    BY <1>1
  <2> QED
    BY <2>1, <2>2, <1>4
<1>7. CASE S # {}
  <2>1. Innermost(S) \in S /\ \A j \in S : j <= Innermost(S)
    BY <1>1, <1>2, <1>7, InnermostIsLast
  <2> HIDE DEF S
  <2> DEFINE j == Innermost(S)
  <2>2. j \in 1..Top /\ tags[j][t] # 0 /\ InnermostMeaning(t) = tags[j][t]
    BY <2>1, <1>2, <1>5, <1>7
  <2>3. \A i \in (j + 1)..Top : i \in 1..Top /\ ~(i <= j)
    BY <2>2, <1>1
  <2>4. \A i \in (j + 1)..Top : tags[i][t] = 0
    BY <2>1, <2>3, <1>2
  <2> HIDE DEF j
  <2> QED
    BY <2>2, <2>4, <1>3, <1>4
<1> QED
  BY <1>6, <1>7

LEMMA InitInv == Init /\ MeaningInit => Inv(0)
<1> SUFFICES ASSUME Init, MeaningInit PROVE Inv(0)
  OBVIOUS
<1> USE DEF Init, MeaningInit
<1>1. EmptyScope \in ScopeRecord(0) /\ NoType \in Type
  BY DEF EmptyScope, ScopeRecord, NoType, Type
<1>2. OwnTags \in [Tag -> 0..0]
  BY DEF OwnTags
<1>3. ScopesTypeOK
  <2>1. <<EmptyScope>> \in Seq(ScopeRecord(0)) /\ <<OwnTags>> \in Seq([Tag -> 0..0])
    BY <1>1, <1>2
  <2>2. StructTypeOK
    BY <2>1, <1>1 DEF StructTypeOK, ScopeRecord
  <2>3. MeaningTypeOK
    BY <2>1 DEF MeaningTypeOK
  <2> QED
    BY <2>2, <2>3 DEF ScopesTypeOK
<1>4. /\ Top = 1 /\ \A t \in Tag : scopes[1].structs[t] = 0 /\ tags[1][t] = 0
      /\ \A n \in Name : scopes[1].vars[n] = NoType
  BY DEF Top, EmptyScope, OwnTags
<1>5. Valid(NoType, 0)
  BY <1>1 DEF Valid, NoType
<1>6. ReferencesOK(0)
  BY <1>4, <1>5 DEF ReferencesOK
<1>7. TypeInv(0)
  BY <1>3, <1>6 DEF TypeInv
<1>8. TagInv /\ OnePlace
  BY <1>4 DEF TagInv, OnePlace
<1>9. Agrees(0) /\ PointersAgree
  BY <1>4 DEF Agrees, PointersAgree, Struct
<1> QED
  BY <1>7, <1>8, <1>9 DEF Inv, MeaningInv

(* Types *)

\* Every step lets the type checker's objects be, but for the fields of the one in
\* definition, and adds at most one; the places of references are valid afterwards.
KeepsObjects ==
  /\ structTypes' \in Seq(StructType)
  /\ Len(structTypes') \in {Len(structTypes), Len(structTypes) + 1}
  /\ \A s \in 1..Len(structTypes) : /\ structTypes'[s].tag = structTypes[s].tag
                                    /\ structTypes'[s].scope_counter = structTypes[s].scope_counter
                                    /\ structTypes'[s].complete = structTypes[s].complete

ReadsTypes ==
  /\ expression' \in Type /\ declared' \in Nat /\ operators' \in Nat
  /\ verdict' \in {"none", "rejected"} /\ agree' \in BOOLEAN

\* An operator leaves the scopes alone.
LEMMA OperatorTypes ==
  ASSUME NEW d, TypeInv(d), ReadsTypes,
         UNCHANGED <<scopes, structTypes, defining, tags, completion, stands>>,
         pointerTypes' \in Seq(1..Len(structTypes)), Len(pointerTypes) <= Len(pointerTypes'),
         \A p \in 1..Len(pointerTypes') : pointerTypes'[p] # d,
         meant' \in Seq(1..Len(completion)), Len(meant') = Len(pointerTypes'),
         Valid(expression, d)', verdict = "none"
  PROVE  TypeInv(d)'
<1>1. ScopesTypeOK'
  BY DEF TypeInv, ScopesTypeOK, StructTypeOK, MeaningTypeOK, Struct, ReadsTypes
<1>2. ReferencesOK(d)'
  <2>1. ASSUME NEW type, Valid(type, d) PROVE Valid(type, d)'
    <3>1. /\ Len(structTypes) \in Nat /\ Len(pointerTypes) \in Nat /\ Len(pointerTypes') \in Nat
          /\ Len(structTypes') = Len(structTypes)
      BY TypeFacts
    <3> QED
      BY <2>1, <3>1 DEF Valid
  <2>2. \A i \in 1..Top : \A n \in Name : Valid(scopes[i].vars[n], d)'
    BY <2>1 DEF TypeInv, ReferencesOK
  <2> QED
    BY <2>1 DEF TypeInv, ReferencesOK, Top
<1> QED
  BY <1>1, <1>2 DEF TypeInv, Depth

\* What "struct t" does with the scopes and the objects.
Named(t) ==
  /\ KeepsObjects
  /\ Len(scopes') = Len(scopes)
  /\ \A i \in 1..Top, u \in Tag :
       scopes'[i].structs[u] = IF ~IsVisible(t) /\ i = Top /\ u = t THEN Len(structTypes) + 1
                               ELSE scopes[i].structs[u]
  /\ IF IsVisible(t) THEN Len(structTypes') = Len(structTypes)
     ELSE LET s == Len(structTypes) + 1
          IN  /\ Len(structTypes') = s
              /\ structTypes'[s].tag = t /\ ~structTypes'[s].complete
              /\ structTypes'[s].scope_counter = Depth /\ structTypes'[s].fields = <<>>

LEMMA NamedObject ==
  ASSUME NEW d, TypeInv(d), NEW t \in Tag
  PROVE  /\ NamedStruct(t) \in 1..(Len(structTypes) + 1) /\ NamedStruct(t) # d
         /\ IsVisible(t) => NamedStruct(t) = GetStructType(t) /\ NamedStruct(t) \in 1..Len(structTypes)
         /\ ~IsVisible(t) => NamedStruct(t) = Len(structTypes) + 1
<1>0. Len(structTypes) \in Nat /\ d \in 0..Len(structTypes)
  BY TypeFacts
<1>1. CASE IsVisible(t)
  <2>1. GetStructType(t) \in 1..Len(structTypes) /\ GetStructType(t) # d
    BY <1>1, FoundStruct
  <2> QED
    BY <2>1, <1>0, <1>1 DEF NamedStruct
<1>2. CASE ~IsVisible(t)
  BY <1>2, <1>0 DEF NamedStruct
<1> QED
  BY <1>1, <1>2

LEMMA NewObject ==
  ASSUME NEW d, TypeInv(d), NEW t \in Tag
  PROVE  [tag |-> t, scope_counter |-> Depth, complete |-> FALSE, fields |-> <<>>] \in StructType
<1>1. Depth \in Nat
  BY TypeFacts
<1>2. <<>> \in Seq([name : Field, type : Type])
  OBVIOUS
<1> QED
  BY <1>1, <1>2 DEF StructType

\* There are more objects.
LEMMA ScopesGrow ==
  ASSUME NEW m \in Nat, NEW n \in Nat, m <= n, NEW q \in Seq(ScopeRecord(m))
  PROVE  q \in Seq(ScopeRecord(n))
<1>1. q \in [1..Len(q) -> ScopeRecord(m)] /\ Len(q) \in Nat
  BY IsFunction
<1>2. ASSUME NEW x \in ScopeRecord(m) PROVE x \in ScopeRecord(n)
  <2>1. x.structs \in [Tag -> 0..m]
    BY DEF ScopeRecord
  <2>2. \A u \in Tag : x.structs[u] \in 0..n
    BY <2>1
  <2>3. x.structs \in [Tag -> 0..n]
    BY <2>1, <2>2
  <2> QED
    BY <2>3 DEF ScopeRecord
<1>3. q \in [1..Len(q) -> ScopeRecord(n)]
  BY <1>1, <1>2
<1> QED
  BY <1>1, <1>3

\* The scopes with one tag set.
WithTag(q, k, t, v) == [q EXCEPT ![k].structs[t] = v]

LEMMA AddedTag ==
  ASSUME NEW n \in Nat, NEW q \in Seq(ScopeRecord(n)), NEW k \in 1..Len(q), NEW t \in Tag,
         NEW v \in 0..n, NEW r, r = WithTag(q, k, t, v)
  PROVE  /\ r \in Seq(ScopeRecord(n)) /\ Len(r) = Len(q)
         /\ \A i \in 1..Len(q) :
              /\ r[i].vars = q[i].vars
              /\ \A u \in Tag : r[i].structs[u] = IF i = k /\ u = t THEN v ELSE q[i].structs[u]
<1>1. q \in [1..Len(q) -> ScopeRecord(n)] /\ Len(q) \in Nat
  BY IsFunction
<1>2. r = [i \in 1..Len(q) |-> IF i = k THEN [q[k] EXCEPT !.structs = [q[k].structs EXCEPT ![t] = v]] ELSE q[i]]
  <2>1. DOMAIN q = 1..Len(q)
    BY <1>1
  <2> QED
    BY <2>1, Zenon DEF WithTag
<1>3. ASSUME NEW i \in 1..Len(q)
      PROVE  /\ r[i] \in ScopeRecord(n) /\ r[i].vars = q[i].vars
             /\ \A u \in Tag : r[i].structs[u] = IF i = k /\ u = t THEN v ELSE q[i].structs[u]
  <2>1. q[i].structs \in [Tag -> 0..n] /\ q[i].vars \in [Name -> Type] /\ q[i] \in ScopeRecord(n)
    BY <1>1 DEF ScopeRecord
  <2>2. CASE i # k
    BY <1>2, <2>1, <2>2
  <2>3. CASE i = k
    <3>1. r[i] = [q[i] EXCEPT !.structs = [q[i].structs EXCEPT ![t] = v]]
      BY <1>2, <2>3
    <3>2. [q[i].structs EXCEPT ![t] = v] \in [Tag -> 0..n]
      BY <2>1
    <3>3. /\ r[i].structs = [q[i].structs EXCEPT ![t] = v] /\ r[i].vars = q[i].vars
          /\ r[i] \in ScopeRecord(n)
      BY <2>1, <3>1, <3>2 DEF ScopeRecord
    <3> QED
      BY <2>1, <2>3, <3>3
  <2> QED
    BY <2>2, <2>3
<1>4. r = [i \in 1..Len(q) |-> r[i]]
  BY <1>2
<1> HIDE DEF ScopeRecord
<1>5. r \in Seq(ScopeRecord(n)) /\ Len(r) = Len(q)
  BY ONLY <1>1, <1>3, <1>4, IsSequence
<1> QED
  BY <1>3, <1>5

LEMMA AddNamedStructTypes ==
  ASSUME NEW d, TypeInv(d), NEW t \in Tag, NEW others \in Seq(ScopeRecord(Len(structTypes))),
         Len(others) = Len(scopes),
         \A i \in 1..Top : others[i].structs = scopes[i].structs,
         AddNamedStruct(t, others)
  PROVE  /\ Named(t)
         /\ scopes' \in Seq(ScopeRecord(Len(structTypes')))
         /\ \A i \in 1..Top : scopes'[i].vars = others[i].vars
         /\ \A s \in 1..Len(structTypes) : structTypes'[s] = structTypes[s]
<1>0. /\ Top \in Nat \ {0} /\ Len(scopes) = Top
      /\ structTypes \in Seq(StructType) /\ Len(structTypes) \in Nat
      /\ others \in [1..Top -> ScopeRecord(Len(structTypes))]
  BY TypeFacts
<1>1. CASE IsVisible(t)
  BY <1>0, <1>1 DEF AddNamedStruct, Named, KeepsObjects
<1>2. CASE ~IsVisible(t)
  <2> DEFINE new == [tag |-> t, scope_counter |-> Depth, complete |-> FALSE, fields |-> <<>>]
             n == Len(structTypes) + 1
  <2>1. scopes' = WithTag(others, Top, t, n) /\ structTypes' = Append(structTypes, new)
    BY <1>2 DEF AddNamedStruct, NamedStruct, WithTag
  <2>2. new \in StructType
    BY NewObject
  <2>3. /\ structTypes' \in Seq(StructType) /\ Len(structTypes') = n /\ structTypes'[n] = new
        /\ \A s \in 1..Len(structTypes) : structTypes'[s] = structTypes[s]
    <3> HIDE DEF new
    <3> QED
      BY <2>1, <2>2, <1>0
  <2>4. KeepsObjects
    BY <2>3, <1>0 DEF KeepsObjects
  <2>5. n \in Nat /\ n \in 0..n /\ Len(structTypes) <= n
    BY <1>0
  <2>6. others \in Seq(ScopeRecord(n)) /\ Top \in 1..Len(others)
    BY <1>0, <2>5, ScopesGrow
  <2>7. /\ scopes' \in Seq(ScopeRecord(n)) /\ Len(scopes') = Len(others)
        /\ \A i \in 1..Len(others) :
             /\ scopes'[i].vars = others[i].vars
             /\ \A u \in Tag : scopes'[i].structs[u] = IF i = Top /\ u = t THEN n ELSE others[i].structs[u]
    <3> HIDE DEF n
    <3>1. t \in Tag
      OBVIOUS
    <3> QED
      BY ONLY <2>1, <2>5, <2>6, <3>1, AddedTag
  <2>8. Named(t)
    BY <1>0, <1>2, <2>3, <2>4, <2>7, SMTT(20) DEF Named
  <2> QED
    BY <1>0, <2>3, <2>7, <2>8
<1> QED
  BY <1>1, <1>2

\* Which struct of C a declaration means.
Means(t, c) == c = InnermostMeaning(t) \/ c = OwnMeaning(t)

LEMMA MentionTypes ==
  ASSUME NEW d, TypeInv(d), NEW t \in Tag, NEW c, Means(t, c), Mention(t, c), Named(t)
  PROVE  /\ tags' \in Seq([Tag -> 0..Len(completion')]) /\ Len(tags') = Len(tags)
         /\ completion' \in Seq(0..Len(structTypes')) /\ Len(completion) <= Len(completion')
         /\ stands' \in Seq(1..Len(completion')) /\ Len(stands') = Len(structTypes')
         /\ OrNew(c) \in 1..Len(completion')
         /\ agree' \in BOOLEAN
<1>0. /\ Top \in Nat \ {0} /\ Len(tags) = Top /\ tags \in [1..Top -> [Tag -> 0..Len(completion)]]
      /\ Len(completion) \in Nat /\ Len(structTypes) \in Nat
      /\ completion \in Seq(0..Len(structTypes))
      /\ stands \in Seq(1..Len(completion)) /\ Len(stands) = Len(structTypes)
      /\ agree \in BOOLEAN
  <2>1. /\ Top \in Nat \ {0} /\ Len(tags) = Top /\ tags \in Seq([Tag -> 0..Len(completion)])
        /\ Len(completion) \in Nat /\ Len(structTypes) \in Nat
        /\ completion \in Seq(0..Len(structTypes))
        /\ stands \in Seq(1..Len(completion)) /\ Len(stands) = Len(structTypes)
    BY TypeFacts
  <2>2. tags \in [1..Top -> [Tag -> 0..Len(completion)]]
    BY <2>1, IsFunction
  <2> QED
    BY <2>1, <2>2 DEF TypeInv, ScopesTypeOK, MeaningTypeOK
<1>1. c \in 0..Len(completion)
  BY FoundMeaning DEF Means
<1> DEFINE m == Len(completion')
<1>2. /\ m \in Nat /\ Len(completion) <= m /\ OrNew(c) \in 1..m
      /\ completion' \in Seq(0..Len(structTypes'))
  <2>1. Len(structTypes') \in Nat /\ Len(structTypes) <= Len(structTypes')
    BY <1>0 DEF Named
  <2>2. completion \in Seq(0..Len(structTypes')) /\ 0 \in 0..Len(structTypes')
    BY <1>0, <2>1
  <2>3. CASE c = 0
    BY <1>0, <2>2, <2>3, SMTT(20) DEF Mention, OrNew
  <2>4. CASE c # 0
    BY <1>0, <1>1, <2>2, <2>4 DEF Mention, OrNew
  <2> QED
    BY <2>3, <2>4
<1> HIDE DEF m
<1>3. tags' \in Seq([Tag -> 0..m]) /\ Len(tags') = Len(tags)
  <2>1. \A i \in 1..Top : tags[i] \in [Tag -> 0..m]
    BY <1>0, <1>2
  <2>2. tags' = [tags EXCEPT ![Top] = [tags[Top] EXCEPT ![t] = IF c = 0 THEN OrNew(c) ELSE @]]
    BY DEF Mention
  <2>3. tags' = [i \in 1..Top |-> tags'[i]]
    BY <1>0, <2>2
  <2>4. ASSUME NEW i \in 1..Top PROVE tags'[i] \in [Tag -> 0..m]
    BY <1>0, <1>2, <2>1, <2>2
  <2> QED
    BY <2>3, <2>4, <1>0, IsSequence
<1>4. stands' \in Seq(1..m) /\ Len(stands') = Len(structTypes')
  <2>1. stands \in Seq(1..m) /\ OrNew(c) \in 1..m
    BY <1>0, <1>2
  <2>2. CASE IsVisible(t)
    BY <2>1, <2>2, <1>0 DEF Mention, Named
  <2>3. CASE ~IsVisible(t)
    <3>1. stands' = Append(stands, OrNew(c)) /\ Len(structTypes') = Len(structTypes) + 1
      BY <2>3 DEF Mention, Named
    <3>2. Append(stands, OrNew(c)) \in Seq(1..m) /\ Len(Append(stands, OrNew(c))) = Len(stands) + 1
      BY <2>1, Appended
    <3> QED
      BY <3>1, <3>2, <1>0
  <2> QED
    BY <2>2, <2>3
<1>5. agree' \in BOOLEAN
  BY <1>0 DEF Mention
<1> QED
  BY <1>0, <1>2, <1>3, <1>4, <1>5 DEF m

\* What is left to show of a step that mentions a tag.
LEMMA MentionInv ==
  ASSUME NEW d, TypeInv(d), NEW t \in Tag, NEW c, Means(t, c), Mention(t, c), Named(t),
         scopes' \in Seq(ScopeRecord(Len(structTypes'))),
         pointerTypes' \in Seq(1..Len(structTypes')), Len(pointerTypes) <= Len(pointerTypes'),
         \A p \in 1..Len(pointerTypes') : pointerTypes'[p] # d,
         meant' \in Seq(1..Len(completion')), Len(meant') = Len(pointerTypes'),
         \A i \in 1..Top, n \in Name : Valid(scopes[i].vars[n], d)',
         \A s \in 1..Len(structTypes') :
           \A k \in 1..Len(structTypes'[s].fields) : Valid(structTypes[s].fields[k].type, d)',
         Valid(expression, d)', ReadsTypes, verdict = "none", defining' = defining
  PROVE  TypeInv(d)'
<1>0. /\ Top \in Nat \ {0} /\ Len(scopes) = Top /\ Len(tags) = Top
      /\ Len(structTypes) \in Nat /\ d \in 0..Len(structTypes) /\ d = defining
      /\ Len(scopes') = Len(scopes) /\ Len(structTypes') \in Nat
      /\ Len(structTypes) <= Len(structTypes')
  BY TypeFacts DEF Named
<1>1. ScopesTypeOK'
  <2>1. StructTypeOK'
    BY <1>0 DEF StructTypeOK, Named, KeepsObjects, ReadsTypes, ScopeRecord
  <2>2. MeaningTypeOK'
    BY MentionTypes DEF MeaningTypeOK, Struct
  <2> QED
    BY <2>1, <2>2 DEF ScopesTypeOK
<1>2. ReferencesOK(d)'
  <2>1. \A i \in 1..Top, u \in Tag : scopes'[i].structs[u] # 0 => scopes'[i].structs[u] # d
    <3>1. \A i \in 1..Top, u \in Tag : scopes[i].structs[u] # 0 => scopes[i].structs[u] # d
      BY DEF TypeInv, ReferencesOK
    <3>2. Len(structTypes) + 1 # d
      BY <1>0
    <3>3. ASSUME NEW i \in 1..Top, NEW u \in Tag, scopes'[i].structs[u] # 0
          PROVE  scopes'[i].structs[u] # d
      <4>1. scopes'[i].structs[u] \in {Len(structTypes) + 1, scopes[i].structs[u]}
        BY DEF Named
      <4> QED
        BY <4>1, <3>1, <3>2, <3>3
    <3> QED
      BY <3>3
  <2> QED
    BY <2>1, <1>0 DEF ReferencesOK, Top
<1>3. Len(tags') = Len(scopes') /\ d \in 0..Len(structTypes')
  BY <1>0, MentionTypes
<1>4. d # 0 => structTypes'[d].complete /\ structTypes'[d].scope_counter = Depth'
  <2>1. d # 0 => d \in 1..Len(structTypes) /\ structTypes[d].complete /\ structTypes[d].scope_counter = Depth
    BY <1>0 DEF TypeInv
  <2> QED
    BY <2>1, <1>0 DEF Named, KeepsObjects, Depth
<1> QED
  BY <1>0, <1>1, <1>2, <1>3, <1>4 DEF TypeInv

\* Steps that mention a tag and add no field.
LEMMA DeclareTagTypes ==
  ASSUME NEW d, TypeInv(d), NEW t \in Tag, NEW c, Means(t, c), Mention(t, c),
         verdict = "none", defining' = defining, ReadsTypes,
         AddNamedStruct(t, scopes), UNCHANGED <<pointerTypes, meant>>,
         expression' \in {NoType, IntType}
  PROVE  Named(t) /\ TypeInv(d)'
<1>0. /\ Len(structTypes) \in Nat /\ Len(pointerTypes) \in Nat /\ d \in 0..Len(structTypes)
      /\ scopes \in Seq(ScopeRecord(Len(structTypes))) /\ Len(scopes) = Top /\ Top \in Nat
      /\ pointerTypes \in Seq(1..Len(structTypes))
      /\ meant \in Seq(1..Len(completion)) /\ Len(meant) = Len(pointerTypes)
      /\ Len(completion) \in Nat
  BY TypeFacts
<1>1. /\ Named(t)
      /\ scopes' \in Seq(ScopeRecord(Len(structTypes')))
      /\ \A i \in 1..Top : scopes'[i].vars = scopes[i].vars
      /\ \A s \in 1..Len(structTypes) : structTypes'[s] = structTypes[s]
  BY AddNamedStructTypes, <1>0
<1>2. Len(structTypes') \in Nat /\ Len(structTypes) <= Len(structTypes')
  BY <1>0, <1>1 DEF Named
<1>3. ASSUME NEW type, Valid(type, d) PROVE Valid(type, d)'
  BY <1>0, <1>2, <1>3 DEF Valid
<1>4. /\ pointerTypes' \in Seq(1..Len(structTypes')) /\ Len(pointerTypes) <= Len(pointerTypes')
      /\ \A p \in 1..Len(pointerTypes') : pointerTypes'[p] # d
  BY <1>0, <1>2 DEF TypeInv, ReferencesOK
<1>5. Len(completion) <= Len(completion') /\ Len(completion') \in Nat
  BY <1>0, <1>1, MentionTypes
<1>6. meant' \in Seq(1..Len(completion')) /\ Len(meant') = Len(pointerTypes')
  BY <1>0, <1>5
<1>7. ASSUME NEW i \in 1..Top, NEW n \in Name PROVE Valid(scopes[i].vars[n], d)'
  BY <1>1, <1>3 DEF TypeInv, ReferencesOK
<1>8. ASSUME NEW s \in 1..Len(structTypes'), NEW k \in 1..Len(structTypes'[s].fields)
      PROVE  Valid(structTypes[s].fields[k].type, d)'
  <2>1. CASE s \in 1..Len(structTypes)
    BY <1>1, <1>3, <2>1 DEF TypeInv, ReferencesOK
  <2>2. CASE s \notin 1..Len(structTypes)
    BY <1>0, <1>1, <2>2 DEF Named
  <2> QED
    BY <2>1, <2>2
<1>9. Valid(expression, d)'
  BY DEF Valid, NoType, IntType, ReadsTypes
<1> HIDE DEF Mention, AddNamedStruct, Named, Valid, ReadsTypes
<1> QED
  BY <1>1, <1>4, <1>6, <1>7, <1>8, <1>9, MentionInv

\* The scopes with one more variable.
LEMMA AddedVariable ==
  ASSUME NEW q \in Seq(ScopeRecord(Len(structTypes))), NEW i \in 1..Len(q), NEW n \in Name,
         NEW type \in Type, NEW r, r = [q EXCEPT ![i].vars[n] = type]
  PROVE  /\ r \in Seq(ScopeRecord(Len(structTypes))) /\ Len(r) = Len(q)
         /\ \A j \in 1..Len(q) : /\ r[j].structs = q[j].structs
                                 /\ \A m \in Name : r[j].vars[m] \in {type, q[j].vars[m]}
<1> DEFINE S == ScopeRecord(Len(structTypes))
<1>1. q \in [1..Len(q) -> S] /\ Len(q) \in Nat
  BY IsFunction
<1>2. r = [j \in 1..Len(q) |-> IF j = i THEN [q[i] EXCEPT !.vars = [q[i].vars EXCEPT ![n] = type]] ELSE q[j]]
  <2>1. DOMAIN q = 1..Len(q)
    BY <1>1
  <2> QED
    BY <2>1, Zenon
<1>3. ASSUME NEW j \in 1..Len(q)
      PROVE  /\ r[j] \in S /\ r[j].structs = q[j].structs
             /\ \A m \in Name : r[j].vars[m] \in {type, q[j].vars[m]}
  <2>1. q[j] \in S /\ q[j].vars \in [Name -> Type] /\ q[j].structs \in [Tag -> 0..Len(structTypes)]
    BY <1>1 DEF ScopeRecord
  <2>2. CASE j # i
    BY <1>2, <2>1, <2>2
  <2>3. CASE j = i
    <3>1. r[j] = [q[j] EXCEPT !.vars = [q[j].vars EXCEPT ![n] = type]]
      BY <1>2, <2>3
    <3>2. [q[j].vars EXCEPT ![n] = type] \in [Name -> Type]
      BY <2>1
    <3>3. /\ r[j].vars = [q[j].vars EXCEPT ![n] = type] /\ r[j].structs = q[j].structs
          /\ r[j] \in S
      BY <3>1, <3>2, <2>1, ZenonT(40) DEF ScopeRecord
    <3> QED
      BY <3>3, <2>1
  <2> QED
    BY <2>2, <2>3
<1>4. r = [j \in 1..Len(q) |-> r[j]]
  BY <1>2
<1>5. \A j \in 1..Len(q) : r[j] \in S
  BY <1>3
<1> HIDE DEF S
<1>6. r \in Seq(S) /\ Len(r) = Len(q)
  BY ONLY <1>1, <1>4, <1>5, IsSequence
<1> USE DEF S
<1> QED
  BY <1>3, <1>6

LEMMA DeclareTypes ==
  ASSUME NEW d, TypeInv(d), NEW t \in Tag, NEW c, Means(t, c), Mention(t, c),
         NEW n \in Name, NEW kind \in {"struct", "pointer", "function"}, Declare(n, kind, t),
         meant' = IF kind = "struct" THEN meant ELSE Append(meant, OrNew(c))
  PROVE  Named(t) /\ TypeInv(d)'
<1>0. /\ Len(structTypes) \in Nat /\ Len(pointerTypes) \in Nat /\ d \in 0..Len(structTypes)
      /\ scopes \in Seq(ScopeRecord(Len(structTypes))) /\ Len(scopes) = Top /\ Top \in Nat \ {0}
      /\ pointerTypes \in Seq(1..Len(structTypes))
      /\ meant \in Seq(1..Len(completion)) /\ Len(meant) = Len(pointerTypes)
      /\ Len(completion) \in Nat
  BY TypeFacts
<1>a. PICK i : i = IF kind = "function" THEN 1 ELSE Top
  OBVIOUS
<1>b. PICK type : type = [kind |-> kind,
                          ref |-> IF kind = "struct" THEN NamedStruct(t) ELSE Len(pointerTypes) + 1]
  OBVIOUS
<1>c. PICK added : added = IF scopes[i].vars[n] = NoType THEN [scopes EXCEPT ![i].vars[n] = type] ELSE scopes
  OBVIOUS
<1>1. /\ verdict = "none" /\ UNCHANGED <<defining, operators>> /\ declared' = declared + 1
      /\ expression' = NoType /\ AddNamedStruct(t, added)
      /\ pointerTypes' = IF kind = "struct" THEN pointerTypes ELSE Append(pointerTypes, NamedStruct(t))
      /\ verdict' \in {"none", "rejected"}
  BY <1>a, <1>b, <1>c DEF Declare, IsDeclaration, Ready
<1>2. NamedStruct(t) \in 1..(Len(structTypes) + 1) /\ NamedStruct(t) # d
      /\ (IsVisible(t) => NamedStruct(t) \in 1..Len(structTypes))
  BY NamedObject
<1>3. type \in Type /\ i \in 1..Top
  BY <1>0, <1>2, <1>a, <1>b DEF Type
<1>4. /\ added \in Seq(ScopeRecord(Len(structTypes))) /\ Len(added) = Len(scopes)
      /\ \A j \in 1..Top : /\ added[j].structs = scopes[j].structs
                           /\ \A m \in Name : added[j].vars[m] \in {type, scopes[j].vars[m]}
  <2>1. CASE scopes[i].vars[n] = NoType
    <3>1. added = [scopes EXCEPT ![i].vars[n] = type] /\ i \in 1..Len(scopes)
      BY <1>0, <1>3, <1>c, <2>1
    <3>2. /\ added \in Seq(ScopeRecord(Len(structTypes))) /\ Len(added) = Len(scopes)
          /\ \A j \in 1..Len(scopes) : /\ added[j].structs = scopes[j].structs
                                       /\ \A m \in Name : added[j].vars[m] \in {type, scopes[j].vars[m]}
      <4>1. type \in Type /\ scopes \in Seq(ScopeRecord(Len(structTypes)))
        BY <1>0, <1>3
      <4> HIDE DEF ScopeRecord
      <4> QED
        BY ONLY <3>1, <4>1, AddedVariable, n \in Name, SMTT(60)
    <3> QED
      BY <1>0, <3>2
  <2>2. CASE scopes[i].vars[n] # NoType
    BY <1>0, <1>c, <2>2
  <2> QED
    BY <2>1, <2>2
<1>5. /\ Named(t)
      /\ scopes' \in Seq(ScopeRecord(Len(structTypes')))
      /\ \A j \in 1..Top : scopes'[j].vars = added[j].vars
      /\ \A s \in 1..Len(structTypes) : structTypes'[s] = structTypes[s]
  BY AddNamedStructTypes, <1>0, <1>1, <1>4
<1>6. /\ Len(structTypes') \in Nat /\ Len(structTypes) <= Len(structTypes')
      /\ NamedStruct(t) \in 1..Len(structTypes')
  BY <1>0, <1>2, <1>5 DEF Named
<1>7. /\ pointerTypes' \in Seq(1..Len(structTypes')) /\ Len(pointerTypes) <= Len(pointerTypes')
      /\ kind # "struct" => Len(pointerTypes') = Len(pointerTypes) + 1
      /\ \A p \in 1..Len(pointerTypes') : pointerTypes'[p] # d
  <2>1. pointerTypes \in Seq(1..Len(structTypes')) /\ \A p \in 1..Len(pointerTypes) : pointerTypes[p] # d
    BY <1>0, <1>6 DEF TypeInv, ReferencesOK
  <2>2. CASE kind = "struct"
    BY <1>0, <1>1, <2>1, <2>2
  <2>3. CASE kind # "struct"
    <3>1. pointerTypes' = Append(pointerTypes, NamedStruct(t))
      BY <1>1, <2>3
    <3>2. /\ Append(pointerTypes, NamedStruct(t)) \in Seq(1..Len(structTypes'))
          /\ Len(Append(pointerTypes, NamedStruct(t))) = Len(pointerTypes) + 1
      BY <1>6, <2>1, Appended
    <3>3. ASSUME NEW p \in 1..(Len(pointerTypes) + 1) PROVE Append(pointerTypes, NamedStruct(t))[p] # d
      BY <1>0, <1>2, <2>1
    <3> QED
      BY <1>0, <3>1, <3>2, <3>3
  <2> QED
    BY <2>2, <2>3
<1>8. Len(pointerTypes') \in Nat
  BY <1>7
<1>9. ASSUME NEW old, Valid(old, d) PROVE Valid(old, d)'
  BY <1>0, <1>6, <1>7, <1>8, <1>9 DEF Valid
<1>10. Valid(type, d)'
  BY <1>0, <1>2, <1>3, <1>6, <1>7, <1>b DEF Valid
<1>11. ASSUME NEW j \in 1..Top, NEW m \in Name PROVE Valid(scopes[j].vars[m], d)'
  <2>1. PICK old : old = scopes[j].vars[m]
    OBVIOUS
  <2>2. Valid(old, d)'
    BY <1>9, <2>1 DEF TypeInv, ReferencesOK
  <2>3. scopes'[j].vars[m] \in {type, old}
    BY <1>4, <1>5, <2>1
  <2> QED
    BY <1>10, <2>2, <2>3
<1>12. ASSUME NEW s \in 1..Len(structTypes'), NEW k \in 1..Len(structTypes'[s].fields)
       PROVE  Valid(structTypes[s].fields[k].type, d)'
  <2>1. CASE s \in 1..Len(structTypes)
    BY <1>5, <1>9, <2>1 DEF TypeInv, ReferencesOK
  <2>2. CASE s \notin 1..Len(structTypes)
    BY <1>0, <1>5, <2>2 DEF Named
  <2> QED
    BY <2>1, <2>2
<1>13. ReadsTypes /\ Valid(expression, d)'
  <2>1. agree' \in BOOLEAN
    BY <1>5, MentionTypes
  <2>2. declared \in Nat /\ operators \in Nat
    BY DEF TypeInv, ScopesTypeOK, StructTypeOK
  <2> QED
    BY <1>1, <2>1, <2>2 DEF Valid, NoType, Type, ReadsTypes
<1>14. meant' \in Seq(1..Len(completion')) /\ Len(meant') = Len(pointerTypes')
  <2>1. Len(completion) <= Len(completion') /\ Len(completion') \in Nat /\ OrNew(c) \in 1..Len(completion')
    BY <1>0, <1>5, MentionTypes
  <2>2. meant \in Seq(1..Len(completion'))
    BY <1>0, <2>1
  <2>3. CASE kind = "struct"
    BY <1>0, <1>1, <2>2, <2>3
  <2>4. CASE kind # "struct"
    BY <1>0, <1>7, <2>1, <2>2, <2>4, Appended
  <2> QED
    BY <2>3, <2>4
<1> HIDE DEF Mention, Named, Valid, ReadsTypes
<1> QED
  BY <1>1, <1>5, <1>7, <1>11, <1>12, <1>13, <1>14, MentionInv

\* The fields of one object are replaced.
FieldRecord == [name : Field, type : Type]
WithFields(q, s, fields) == [q EXCEPT ![s].fields = fields]

LEMMA ReplacedFields ==
  ASSUME NEW q \in Seq(StructType), NEW s \in 1..Len(q), NEW fields \in Seq(FieldRecord),
         NEW r, r = WithFields(q, s, fields)
  PROVE  /\ r \in Seq(StructType) /\ Len(r) = Len(q)
         /\ \A j \in 1..Len(q) : /\ r[j].tag = q[j].tag /\ r[j].scope_counter = q[j].scope_counter
                                 /\ r[j].complete = q[j].complete
                                 /\ j # s => r[j] = q[j]
         /\ r[s].fields = fields
<1>1. q \in [1..Len(q) -> StructType] /\ Len(q) \in Nat
  BY IsFunction
<1>2. r = [j \in 1..Len(q) |-> IF j = s THEN [q[s] EXCEPT !.fields = fields] ELSE q[j]]
  BY <1>1 DEF WithFields
<1>3. q[s] \in StructType
  BY <1>1
<1> DEFINE new == [q[s] EXCEPT !.fields = fields]
<1>4. /\ new \in StructType /\ new.tag = q[s].tag /\ new.scope_counter = q[s].scope_counter
      /\ new.complete = q[s].complete /\ new.fields = fields
  BY <1>3 DEF StructType, FieldRecord
<1> HIDE DEF new
<1>5. r[s] = new /\ \A j \in 1..Len(q) : j # s => r[j] = q[j]
  BY <1>2 DEF new
<1>6. ASSUME NEW j \in 1..Len(q) PROVE r[j] \in StructType
  BY <1>1, <1>4, <1>5
<1>7. r = [j \in 1..Len(q) |-> r[j]]
  BY <1>2
<1>8. r \in Seq(StructType) /\ Len(r) = Len(q)
  <2> DEFINE n == Len(q)
  <2>1. n \in Nat
    BY <1>1
  <2> HIDE DEF n
  <2>2. r = [j \in 1..n |-> r[j]] /\ \A j \in 1..n : r[j] \in StructType
    BY <1>6, <1>7 DEF n
  <2>3. r \in Seq(StructType) /\ Len(r) = n
    BY ONLY <2>1, <2>2, IsSequence
  <2> QED
    BY <2>3 DEF n
<1> QED
  BY <1>4, <1>5, <1>8

LEMMA FieldsOf ==
  ASSUME NEW d, TypeInv(d), NEW s \in 1..Len(structTypes)
  PROVE  /\ structTypes[s].fields \in Seq(FieldRecord)
         /\ \A k \in 1..Len(structTypes[s].fields) : Valid(structTypes[s].fields[k].type, d)
<1>1. structTypes[s] \in StructType
  BY TypeFacts
<1> QED
  BY <1>1 DEF StructType, FieldRecord, TypeInv, ReferencesOK

\* A component of int or of ints.
LEMMA IntFieldTypes ==
  ASSUME NEW d, TypeInv(d), IsComponent, NEW fields \in Seq(FieldRecord),
         structTypes' = [structTypes EXCEPT ![defining].fields = fields],
         \A k \in 1..Len(fields) : fields[k].type = IntType \/ \E j \in 1..Len(structTypes[d].fields) :
                                     fields[k].type = structTypes[d].fields[j].type,
         UNCHANGED <<scopes, pointerTypes, meaningVars>>, verdict' \in {"none", "rejected"}
  PROVE  KeepsObjects /\ Len(structTypes') = Len(structTypes) /\ TypeInv(d)'
<1>0. /\ Len(structTypes) \in Nat /\ Len(pointerTypes) \in Nat /\ structTypes \in Seq(StructType)
      /\ d \in 1..Len(structTypes) /\ d = defining
  <2>1. verdict = "none" /\ defining # 0
    BY DEF IsComponent
  <2> QED
    BY <2>1, TypeFacts
<1>1. /\ structTypes' \in Seq(StructType) /\ Len(structTypes') = Len(structTypes)
      /\ \A j \in 1..Len(structTypes) :
           /\ structTypes'[j].tag = structTypes[j].tag
           /\ structTypes'[j].scope_counter = structTypes[j].scope_counter
           /\ structTypes'[j].complete = structTypes[j].complete
           /\ j # d => structTypes'[j] = structTypes[j]
      /\ structTypes'[d].fields = fields
  <2>1. structTypes' = WithFields(structTypes, d, fields) /\ fields \in Seq(FieldRecord)
    BY <1>0 DEF WithFields
  <2>2. structTypes \in Seq(StructType) /\ d \in 1..Len(structTypes)
    BY <1>0
  <2> QED
    BY ONLY <2>1, <2>2, ReplacedFields, SMTT(60)
<1>2. KeepsObjects
  BY <1>1 DEF KeepsObjects
<1>3. /\ UNCHANGED <<scopes, pointerTypes, defining, expression, declared, operators, tags, completion, stands, meant, agree>>
  BY DEF IsComponent, meaningVars
<1>4. ScopesTypeOK'
  BY <1>1, <1>3 DEF TypeInv, ScopesTypeOK, StructTypeOK, MeaningTypeOK, Struct
<1>5. ASSUME NEW type, Valid(type, d) PROVE Valid(type, d)'
  BY <1>1, <1>3, <1>5 DEF Valid
<1>6. Valid(IntType, d)'
  BY DEF Valid, IntType, Type
<1>7. \A s \in 1..Len(structTypes') : \A k \in 1..Len(structTypes'[s].fields) : Valid(structTypes[s].fields[k].type, d)'
  <2> SUFFICES ASSUME NEW s \in 1..Len(structTypes'), NEW k \in 1..Len(structTypes'[s].fields)
               PROVE  Valid(structTypes[s].fields[k].type, d)'
    OBVIOUS
  <2>1. CASE s # d
    <3>1. structTypes'[s] = structTypes[s] /\ s \in 1..Len(structTypes)
      BY <1>1, <2>1
    <3> QED
      BY <1>5, <3>1, FieldsOf
  <2>2. CASE s = d
    <3>1. k \in 1..Len(fields) /\ structTypes'[s].fields[k].type = fields[k].type
      BY <1>1, <2>2
    <3>2. PICK type : type = fields[k].type
      OBVIOUS
    <3>3. type = IntType \/ Valid(type, d)
      BY <1>0, <3>1, <3>2, FieldsOf
    <3> QED
      BY <1>5, <1>6, <3>1, <3>2, <3>3
  <2> QED
    BY <2>1, <2>2
<1>8. ReferencesOK(d)'
  <2>1. /\ \A p \in 1..Len(pointerTypes) : pointerTypes[p] # d
        /\ \A i \in 1..Top : \A t \in Tag : scopes[i].structs[t] # 0 => scopes[i].structs[t] # d
    BY DEF TypeInv, ReferencesOK
  <2>2. \A i \in 1..Top : \A n \in Name : Valid(scopes[i].vars[n], d)'
    BY <1>3, <1>5 DEF TypeInv, ReferencesOK
  <2>3. Valid(expression, d)'
    BY <1>3, <1>5 DEF TypeInv, ReferencesOK
  <2> QED
    BY <1>3, <1>7, <2>1, <2>2, <2>3 DEF ReferencesOK, Top
<1> QED
  BY <1>0, <1>1, <1>2, <1>3, <1>4, <1>8 DEF TypeInv, Depth

LEMMA AddIntTypes ==
  ASSUME NEW d, TypeInv(d), NEW f \in Field, AddInt(f), UNCHANGED meaningVars
  PROVE  KeepsObjects /\ Len(structTypes') = Len(structTypes) /\ TypeInv(d)'
<1>0. d = defining /\ d \in 1..Len(structTypes) /\ structTypes \in [1..Len(structTypes) -> StructType]
  <2>1. verdict = "none" /\ defining # 0
    BY DEF AddInt, IsComponent
  <2> QED
    BY <2>1, TypeFacts, IsFunction
<1> DEFINE field == [name |-> f, type |-> IntType]
<1>1. PICK fields : fields = Append(structTypes[d].fields, field)
  OBVIOUS
<1>2. structTypes[d].fields \in Seq(FieldRecord) /\ field \in FieldRecord
  BY <1>0, FieldsOf DEF FieldRecord, IntType, Type
<1>3. structTypes' = [structTypes EXCEPT ![defining].fields = fields]
  BY <1>0, <1>1 DEF AddInt, AddField
<1> HIDE DEF field
<1>4. fields \in Seq(FieldRecord)
  BY <1>1, <1>2, Appended
<1>5. ASSUME NEW k \in 1..Len(fields)
      PROVE  fields[k].type = IntType \/ \E j \in 1..Len(structTypes[d].fields) : fields[k].type = structTypes[d].fields[j].type
  <2>1. CASE k \in 1..Len(structTypes[d].fields)
    BY <1>1, <1>2, <2>1, Appended
  <2>2. CASE k = Len(structTypes[d].fields) + 1
    <3>1. fields[k] = field
      BY <1>1, <1>2, <2>2, Appended
    <3> QED
      BY <3>1 DEF field
  <2>3. Len(fields) = Len(structTypes[d].fields) + 1 /\ Len(structTypes[d].fields) \in Nat
    BY <1>1, <1>2, Appended
  <2> QED
    BY <2>1, <2>2, <2>3
<1>6. UNCHANGED <<scopes, pointerTypes>> /\ verdict' \in {"none", "rejected"} /\ IsComponent
  BY DEF AddInt, AddField
<1> QED
  BY <1>3, <1>4, <1>5, <1>6, IntFieldTypes

LEMMA CombineWithTypes ==
  ASSUME NEW d, TypeInv(d), NEW f \in Field, NEW g \in Field, CombineWith(f, g), UNCHANGED meaningVars
  PROVE  KeepsObjects /\ Len(structTypes') = Len(structTypes) /\ TypeInv(d)'
<1>0. d = defining /\ d \in 1..Len(structTypes) /\ verdict = "none"
  <2>1. verdict = "none" /\ defining # 0
    BY DEF CombineWith, IsComponent
  <2> QED
    BY <2>1, TypeFacts
<1> DEFINE field(name) == [name |-> name, type |-> IntType]
<1>1. PICK own : own = structTypes[d].fields
  OBVIOUS
<1>2. own \in Seq(FieldRecord) /\ field(f) \in FieldRecord /\ field(g) \in FieldRecord
  BY <1>0, <1>1, FieldsOf DEF FieldRecord, IntType, Type
<1>3. PICK fields : /\ fields \in {own, Append(own, field(f)), own \o <<field(f), field(g)>>}
                    /\ structTypes' = [structTypes EXCEPT ![defining].fields = fields]
  BY <1>0, <1>1 DEF CombineWith
<1>4. /\ fields \in Seq(FieldRecord)
      /\ \A k \in 1..Len(fields) : \/ fields[k] \in {field(f), field(g)}
                                   \/ k \in 1..Len(own) /\ fields[k] = own[k]
  <2>1. PICK x, y : x = field(f) /\ y = field(g)
    OBVIOUS
  <2>2. fields \in {own, Append(own, x), own \o <<x, y>>} /\ x \in FieldRecord /\ y \in FieldRecord
    BY <1>2, <1>3, <2>1
  <2>3. CASE fields = own
    BY <1>2, <2>3
  <2>4. CASE fields = Append(own, x)
    BY ONLY <1>2, <2>1, <2>2, <2>4
  <2>5. CASE fields = own \o <<x, y>>
    BY ONLY <1>2, <2>1, <2>2, <2>5
  <2> QED
    BY <2>2, <2>3, <2>4, <2>5
<1>5. ASSUME NEW k \in 1..Len(fields)
      PROVE  fields[k].type = IntType \/ \E j \in 1..Len(own) : fields[k].type = own[j].type
  BY <1>4
<1>6. UNCHANGED <<scopes, pointerTypes>> /\ verdict' \in {"none", "rejected"} /\ IsComponent
  BY <1>0 DEF CombineWith
<1> QED
  BY <1>1, <1>3, <1>4, <1>5, <1>6, IntFieldTypes

\* A component of a struct, accepted.
LEMMA AddStructTypes ==
  ASSUME NEW d, TypeInv(d), NEW f \in Field, NEW t \in Tag, NEW c, Means(t, c), Mention(t, c),
         AddStruct(f, t), IsVisible(t), UNCHANGED meant
  PROVE  Named(t) /\ TypeInv(d)'
<1>0. /\ Len(structTypes) \in Nat /\ Len(pointerTypes) \in Nat /\ structTypes \in Seq(StructType)
      /\ d = defining /\ d \in 1..Len(structTypes) /\ verdict = "none"
      /\ scopes \in Seq(ScopeRecord(Len(structTypes))) /\ Len(scopes) = Top /\ Top \in Nat
      /\ pointerTypes \in Seq(1..Len(structTypes))
      /\ meant \in Seq(1..Len(completion)) /\ Len(meant) = Len(pointerTypes)
      /\ Len(completion) \in Nat
  <2>1. verdict = "none" /\ defining # 0
    BY DEF AddStruct, IsComponent
  <2> QED
    BY <2>1, TypeFacts
<1>1. UNCHANGED <<scopes, pointerTypes, defining, expression, declared, operators>>
  BY DEF AddStruct, IsComponent
<1>2. PICK type : type = StructRef(GetStructType(t))
  OBVIOUS
<1>3. Valid(type, d) /\ type \in Type
  <2>1. GetStructType(t) \in 1..Len(structTypes) /\ GetStructType(t) # d
    BY FoundStruct
  <2> QED
    BY <1>0, <1>2, <2>1 DEF Valid, StructRef, Type
<1>4. PICK own : own = structTypes[d].fields
  OBVIOUS
<1>5. own \in Seq(FieldRecord) /\ \A k \in 1..Len(own) : Valid(own[k].type, d)
  BY <1>0, <1>4, FieldsOf
<1>6. PICK field : field = [name |-> f, type |-> type]
  OBVIOUS
<1>7. field \in FieldRecord /\ field.type = type
  BY <1>3, <1>6 DEF FieldRecord
<1>8. PICK fields : fields = Append(own, field)
  OBVIOUS
<1>9. fields \in Seq(FieldRecord) /\ \A k \in 1..Len(fields) : Valid(fields[k].type, d)
  <2>1. /\ fields \in Seq(FieldRecord) /\ Len(fields) = Len(own) + 1 /\ fields[Len(own) + 1] = field
        /\ \A k \in 1..Len(own) : fields[k] = own[k]
    BY <1>5, <1>7, <1>8, Appended
  <2>2. Len(own) \in Nat
    BY <1>5
  <2>3. ASSUME NEW k \in 1..Len(fields) PROVE Valid(fields[k].type, d)
    BY <1>3, <1>5, <1>7, <2>1, <2>2
  <2> QED
    BY <2>1, <2>3
<1>10. /\ structTypes' \in Seq(StructType) /\ Len(structTypes') = Len(structTypes)
       /\ \A j \in 1..Len(structTypes) :
            /\ structTypes'[j].tag = structTypes[j].tag
            /\ structTypes'[j].scope_counter = structTypes[j].scope_counter
            /\ structTypes'[j].complete = structTypes[j].complete
            /\ \A k \in 1..Len(structTypes'[j].fields) : Valid(structTypes'[j].fields[k].type, d)
       /\ verdict' \in {"none", "rejected"}
  <2>1. CASE structTypes[GetStructType(t)].complete
    <3>1. structTypes' = WithFields(structTypes, d, fields) /\ verdict' \in {"none", "rejected"}
      BY <1>0, <1>2, <1>4, <1>6, <1>8, <2>1 DEF AddStruct, AddField, WithFields
    <3>2. structTypes \in Seq(StructType) /\ d \in 1..Len(structTypes)
      BY <1>0
    <3>3. fields \in Seq(FieldRecord)
      BY <1>9
    <3>4. /\ structTypes' \in Seq(StructType) /\ Len(structTypes') = Len(structTypes)
          /\ \A j \in 1..Len(structTypes) :
               /\ structTypes'[j].tag = structTypes[j].tag
               /\ structTypes'[j].scope_counter = structTypes[j].scope_counter
               /\ structTypes'[j].complete = structTypes[j].complete
               /\ j # d => structTypes'[j] = structTypes[j]
          /\ structTypes'[d].fields = fields
      BY ONLY <3>1, <3>2, <3>3, ReplacedFields
    <3>5. ASSUME NEW j \in 1..Len(structTypes), NEW k \in 1..Len(structTypes'[j].fields)
          PROVE  Valid(structTypes'[j].fields[k].type, d)
      BY <1>9, <3>4, FieldsOf
    <3> QED
      BY <3>1, <3>4, <3>5
  <2>2. CASE ~structTypes[GetStructType(t)].complete
    <3>1. structTypes' = structTypes /\ verdict' = "rejected"
      BY <2>2 DEF AddStruct
    <3> QED
      BY <1>0, <3>1, FieldsOf
  <2> QED
    BY <2>1, <2>2
<1>11. Named(t)
  BY <1>1, <1>10 DEF Named, KeepsObjects
<1>12. ASSUME NEW old, Valid(old, d) PROVE Valid(old, d)'
  BY <1>1, <1>10, <1>12 DEF Valid
<1>13. ASSUME NEW i \in 1..Top, NEW n \in Name PROVE Valid(scopes[i].vars[n], d)'
  BY <1>1, <1>12 DEF TypeInv, ReferencesOK
<1>14. ASSUME NEW s \in 1..Len(structTypes'), NEW k \in 1..Len(structTypes'[s].fields)
       PROVE  Valid(structTypes[s].fields[k].type, d)'
  BY <1>10, <1>12
<1>15. Valid(expression, d)'
  BY <1>1, <1>12 DEF TypeInv, ReferencesOK
<1>16. Len(completion) <= Len(completion') /\ Len(completion') \in Nat /\ agree' \in BOOLEAN
  BY <1>0, <1>11, MentionTypes
<1>17. ReadsTypes
  BY <1>1, <1>10, <1>16 DEF ReadsTypes, TypeInv, ScopesTypeOK, StructTypeOK
<1>18. /\ scopes' \in Seq(ScopeRecord(Len(structTypes'))) /\ pointerTypes' \in Seq(1..Len(structTypes'))
       /\ Len(pointerTypes) <= Len(pointerTypes')
       /\ \A p \in 1..Len(pointerTypes') : pointerTypes'[p] # d
       /\ meant' \in Seq(1..Len(completion')) /\ Len(meant') = Len(pointerTypes')
  BY <1>0, <1>1, <1>10, <1>16 DEF TypeInv, ReferencesOK
<1> HIDE DEF Mention, Named, Valid, ReadsTypes
<1> QED
  BY <1>0, <1>1, <1>11, <1>13, <1>14, <1>15, <1>17, <1>18, MentionInv

LEMMA AddPointerTypes ==
  ASSUME NEW d, TypeInv(d), NEW f \in Field, NEW t \in Tag, NEW c, Means(t, c), Mention(t, c),
         AddPointer(f, t), meant' = Append(meant, OrNew(c))
  PROVE  Named(t) /\ TypeInv(d)'
<1>0. /\ Len(structTypes) \in Nat /\ Len(pointerTypes) \in Nat /\ structTypes \in Seq(StructType)
      /\ d = defining /\ d \in 1..Len(structTypes) /\ verdict = "none"
      /\ scopes \in Seq(ScopeRecord(Len(structTypes))) /\ Len(scopes) = Top /\ Top \in Nat \ {0}
      /\ pointerTypes \in Seq(1..Len(structTypes))
      /\ meant \in Seq(1..Len(completion)) /\ Len(meant) = Len(pointerTypes)
      /\ Len(completion) \in Nat
  <2>1. verdict = "none" /\ defining # 0
    BY DEF AddPointer, IsComponent
  <2> QED
    BY <2>1, TypeFacts
<1>1. UNCHANGED <<defining, expression, declared, operators>>
  BY DEF AddPointer, IsComponent
<1>2. PICK types : types = IF IsVisible(t) THEN structTypes
                           ELSE Append(structTypes, [tag |-> t, scope_counter |-> Depth,
                                                     complete |-> FALSE, fields |-> <<>>])
  OBVIOUS
<1>3. PICK type : type = PointerRef(Len(pointerTypes) + 1)
  OBVIOUS
<1>4. type \in Type
  BY <1>0, <1>3 DEF Type, PointerRef
<1>5. /\ scopes' = IF IsVisible(t) THEN scopes ELSE [scopes EXCEPT ![Top].structs[t] = NamedStruct(t)]
      /\ types \in Seq(StructType)
      /\ IF IsVisible(t) THEN Len(types) = Len(structTypes)
         ELSE LET s == Len(structTypes) + 1
              IN  /\ Len(types) = s /\ types[s].tag = t /\ ~types[s].complete
                  /\ types[s].scope_counter = Depth /\ types[s].fields = <<>>
      /\ \A s \in 1..Len(structTypes) : types[s] = structTypes[s]
  <2>1. CASE IsVisible(t)
    BY <1>0, <1>2, <2>1 DEF AddPointer
  <2>2. CASE ~IsVisible(t)
    <3>1. PICK new : new = [tag |-> t, scope_counter |-> Depth, complete |-> FALSE, fields |-> <<>>]
      OBVIOUS
    <3>2. new \in StructType
      BY <3>1, NewObject
    <3>3. types = Append(structTypes, new)
      BY <1>2, <2>2, <3>1
    <3>4. /\ types \in Seq(StructType) /\ Len(types) = Len(structTypes) + 1
          /\ types[Len(structTypes) + 1] = new
          /\ \A s \in 1..Len(structTypes) : types[s] = structTypes[s]
      BY <1>0, <3>2, <3>3, Appended
    <3> QED
      BY <2>2, <3>1, <3>4 DEF AddPointer
  <2> QED
    BY <2>1, <2>2
<1>6. d \in 1..Len(types)
  BY <1>0, <1>5
<1>7. PICK own : own = structTypes[d].fields
  OBVIOUS
<1>8. PICK field : field = [name |-> f, type |-> type]
  OBVIOUS
<1>9. PICK fields : fields = Append(own, field)
  OBVIOUS
<1>10. /\ fields \in Seq(FieldRecord)
       /\ \A k \in 1..Len(fields) : Valid(fields[k].type, d) \/ fields[k].type = type
  <2>1. own \in Seq(FieldRecord) /\ \A k \in 1..Len(own) : Valid(own[k].type, d)
    BY <1>0, <1>7, FieldsOf
  <2>2. field \in FieldRecord /\ field.type = type
    BY <1>4, <1>8 DEF FieldRecord
  <2>3. /\ fields \in Seq(FieldRecord) /\ Len(fields) = Len(own) + 1 /\ fields[Len(own) + 1] = field
        /\ \A k \in 1..Len(own) : fields[k] = own[k]
    BY <1>9, <2>1, <2>2, Appended
  <2>4. Len(own) \in Nat
    BY <2>1
  <2>5. ASSUME NEW k \in 1..Len(fields) PROVE Valid(fields[k].type, d) \/ fields[k].type = type
    BY <2>1, <2>2, <2>3, <2>4
  <2> QED
    BY <2>3, <2>5
<1>11. /\ structTypes' \in Seq(StructType) /\ Len(structTypes') = Len(types)
       /\ \A j \in 1..Len(types) :
            /\ structTypes'[j].tag = types[j].tag
            /\ structTypes'[j].scope_counter = types[j].scope_counter
            /\ structTypes'[j].complete = types[j].complete
            /\ j # d => structTypes'[j] = types[j]
       /\ structTypes'[d].fields = fields
  <2>1. types[d].fields = own
    BY <1>0, <1>5, <1>7
  <2>2. structTypes' = WithFields(types, d, fields)
    BY <1>0, <1>2, <1>3, <1>8, <1>9, <2>1 DEF AddPointer, AddField, WithFields
  <2>3. types \in Seq(StructType) /\ fields \in Seq(FieldRecord)
    BY <1>5, <1>10
  <2> QED
    BY ONLY <1>6, <2>2, <2>3, ReplacedFields
<1>12. verdict' \in {"none", "rejected"} /\ pointerTypes' = Append(pointerTypes, NamedStruct(t))
  BY DEF AddPointer, AddField
<1>13. KeepsObjects
  BY <1>0, <1>5, <1>11 DEF KeepsObjects
<1>14. /\ Named(t) /\ scopes' \in Seq(ScopeRecord(Len(structTypes')))
       /\ \A i \in 1..Top : scopes'[i].vars = scopes[i].vars
  <2>1. CASE IsVisible(t)
    BY <1>0, <1>5, <1>11, <1>13, <2>1 DEF Named
  <2>2. CASE ~IsVisible(t)
    <3>1. PICK n : n = Len(structTypes) + 1
      OBVIOUS
    <3>2. scopes' = WithTag(scopes, Top, t, n) /\ Len(structTypes') = n /\ Len(types) = n
      BY <1>5, <1>11, <2>2, <3>1 DEF NamedStruct, WithTag
    <3>3. n \in Nat /\ Len(structTypes) <= n /\ n \in 0..n
      BY <1>0, <3>1
    <3>4. scopes \in Seq(ScopeRecord(n)) /\ Top \in 1..Len(scopes)
      BY <1>0, <3>3, ScopesGrow
    <3>5. /\ scopes' \in Seq(ScopeRecord(n)) /\ Len(scopes') = Len(scopes)
          /\ \A i \in 1..Len(scopes) :
               /\ scopes'[i].vars = scopes[i].vars
               /\ \A u \in Tag : scopes'[i].structs[u] = IF i = Top /\ u = t THEN n ELSE scopes[i].structs[u]
      <4>1. t \in Tag
        OBVIOUS
      <4> QED
        BY ONLY <3>2, <3>3, <3>4, <4>1, AddedTag
    <3>6. n # d /\ n \in 1..Len(types)
      BY <1>0, <3>1, <3>2
    <3> QED
      BY <1>0, <1>5, <1>11, <1>13, <2>2, <3>1, <3>2, <3>5, <3>6, ZenonT(40) DEF Named
  <2> QED
    BY <2>1, <2>2
<1>15. /\ Len(structTypes') \in Nat /\ Len(structTypes) <= Len(structTypes')
       /\ NamedStruct(t) \in 1..Len(structTypes') /\ NamedStruct(t) # d
  BY <1>0, <1>14, NamedObject DEF Named
<1>16. /\ pointerTypes' \in Seq(1..Len(structTypes')) /\ Len(pointerTypes') = Len(pointerTypes) + 1
       /\ \A p \in 1..Len(pointerTypes') : pointerTypes'[p] # d
  <2>1. pointerTypes \in Seq(1..Len(structTypes')) /\ \A p \in 1..Len(pointerTypes) : pointerTypes[p] # d
    BY <1>0, <1>15 DEF TypeInv, ReferencesOK
  <2>2. /\ pointerTypes' \in Seq(1..Len(structTypes')) /\ Len(pointerTypes') = Len(pointerTypes) + 1
        /\ pointerTypes'[Len(pointerTypes) + 1] = NamedStruct(t)
        /\ \A p \in 1..Len(pointerTypes) : pointerTypes'[p] = pointerTypes[p]
    BY <1>12, <1>15, <2>1, Appended
  <2>3. ASSUME NEW p \in 1..Len(pointerTypes') PROVE pointerTypes'[p] # d
    <3>1. p \in 1..Len(pointerTypes) \/ p = Len(pointerTypes) + 1
      BY <1>0, <2>2
    <3> QED
      BY <1>15, <2>1, <2>2, <3>1
  <2> QED
    BY <2>2, <2>3
<1>17. ASSUME NEW old, Valid(old, d) PROVE Valid(old, d)'
  BY <1>0, <1>15, <1>16, <1>17 DEF Valid
<1>18. Valid(type, d)'
  BY <1>0, <1>3, <1>4, <1>16 DEF Valid, PointerRef
<1>19. ASSUME NEW i \in 1..Top, NEW n \in Name PROVE Valid(scopes[i].vars[n], d)'
  BY <1>14, <1>17 DEF TypeInv, ReferencesOK
<1>20. ASSUME NEW s \in 1..Len(structTypes'), NEW k \in 1..Len(structTypes'[s].fields)
       PROVE  Valid(structTypes[s].fields[k].type, d)'
  <2>1. CASE s = d
    <3>1. k \in 1..Len(fields) /\ structTypes'[s].fields[k] = fields[k]
      BY <1>11, <2>1
    <3>2. PICK old : old = fields[k].type
      OBVIOUS
    <3>3. Valid(old, d) \/ old = type
      BY <1>10, <3>1, <3>2
    <3>4. Valid(old, d)'
      BY <1>17, <1>18, <3>3
    <3> QED
      BY <3>1, <3>2, <3>4
  <2>2. CASE s # d /\ s \in 1..Len(structTypes)
    <3>1. structTypes'[s] = structTypes[s]
      BY <1>0, <1>5, <1>6, <1>11, <2>2
    <3>2. Valid(structTypes[s].fields[k].type, d)
      BY <2>2, <3>1, FieldsOf
    <3>3. PICK old : old = structTypes[s].fields[k].type
      OBVIOUS
    <3>4. Valid(old, d)'
      BY <1>17, <3>2, <3>3
    <3> QED
      BY <3>1, <3>3, <3>4
  <2>3. CASE s # d /\ s \notin 1..Len(structTypes)
    <3>1. ~IsVisible(t) /\ s = Len(structTypes) + 1 /\ s \in 1..Len(types)
      BY <1>0, <1>5, <1>11, <2>3, SMTT(20)
    <3>2. structTypes'[s].fields = <<>>
      BY <1>5, <1>11, <2>3, <3>1
    <3> QED
      BY <3>2
  <2> QED
    BY <2>1, <2>2, <2>3
<1>21. Valid(expression, d)'
  BY <1>1, <1>17 DEF TypeInv, ReferencesOK
<1>22. /\ Len(completion) <= Len(completion') /\ Len(completion') \in Nat
       /\ agree' \in BOOLEAN /\ OrNew(c) \in 1..Len(completion')
  BY <1>0, <1>14, MentionTypes
<1>23. ReadsTypes
  BY <1>1, <1>12, <1>22 DEF ReadsTypes, TypeInv, ScopesTypeOK, StructTypeOK
<1>24. meant' \in Seq(1..Len(completion')) /\ Len(meant') = Len(pointerTypes')
  <2>1. meant \in Seq(1..Len(completion'))
    BY <1>0, <1>22
  <2> QED
    BY <1>0, <1>16, <1>22, <2>1, Appended
<1>25. Len(pointerTypes) <= Len(pointerTypes')
  BY <1>0, <1>16
<1> HIDE DEF Mention, Named, Valid, ReadsTypes
<1> QED
  BY <1>0, <1>1, <1>14, <1>16, <1>19, <1>20, <1>21, <1>23, <1>24, <1>25, MentionInv

(* Types, continued: blocks, definitions and operators *)

LEMMA OpenTypes ==
  ASSUME NEW d, TypeInv(d), OpenBlock, tags' = Append(tags, OwnTags),
         UNCHANGED <<completion, stands, meant, agree>>
  PROVE  TypeInv(d)' /\ d = 0
<1>0. /\ Top \in Nat \ {0} /\ Len(scopes) = Top /\ Len(tags) = Top
      /\ scopes \in Seq(ScopeRecord(Len(structTypes))) /\ tags \in Seq([Tag -> 0..Len(completion)])
      /\ Len(structTypes) \in Nat /\ Len(completion) \in Nat
      /\ verdict = "none" /\ d = 0 /\ defining = 0
  <2>1. verdict = "none" /\ defining = 0
    BY DEF OpenBlock, Ready
  <2> QED
    BY <2>1, TypeFacts
<1>1. PICK new, own : new = EmptyScope /\ own = OwnTags
  OBVIOUS
<1>2. scopes' = Append(scopes, new) /\ expression' = NoType /\ tags' = Append(tags, own)
      /\ UNCHANGED <<structTypes, pointerTypes, defining, declared, operators, verdict>>
  BY <1>1 DEF OpenBlock
<1>3. /\ new \in ScopeRecord(Len(structTypes)) /\ own \in [Tag -> 0..Len(completion)]
      /\ \A t \in Tag : new.structs[t] = 0
      /\ \A n \in Name : new.vars[n] = NoType
  BY <1>0, <1>1 DEF EmptyScope, OwnTags, ScopeRecord, NoType, Type
<1>4. /\ scopes' \in Seq(ScopeRecord(Len(structTypes))) /\ Len(scopes') = Top + 1
      /\ scopes'[Top + 1] = new /\ \A i \in 1..Top : scopes'[i] = scopes[i]
  BY <1>0, <1>2, <1>3, Appended
<1>5. tags' \in Seq([Tag -> 0..Len(completion)]) /\ Len(tags') = Top + 1
  BY <1>0, <1>2, <1>3, Appended
<1>6. ScopesTypeOK'
  <2>1. scopes' # <<>>
    BY <1>0, <1>4
  <2> QED
    BY <1>2, <1>4, <1>5, <2>1
       DEF TypeInv, ScopesTypeOK, StructTypeOK, MeaningTypeOK, Struct, ScopeRecord, NoType, Type
<1>7. ASSUME NEW type, Valid(type, d) PROVE Valid(type, d)'
  BY <1>2, <1>7 DEF Valid
<1>8. Valid(NoType, d)'
  BY DEF Valid, NoType, Type
<1>9. ReferencesOK(d)'
  <2>1. ASSUME NEW i \in 1..Top'
        PROVE  /\ \A t \in Tag : scopes'[i].structs[t] # 0 => scopes'[i].structs[t] # d
               /\ \A n \in Name : Valid(scopes[i].vars[n], d)'
    <3>1. i = Top + 1 \/ i \in 1..Top
      BY <1>0, <1>4 DEF Top
    <3>2. CASE i = Top + 1
      BY <1>3, <1>4, <1>8, <3>2
    <3>3. CASE i \in 1..Top
      BY <1>4, <1>7, <3>3 DEF TypeInv, ReferencesOK
    <3> QED
      BY <3>1, <3>2, <3>3
  <2>2. \A s \in 1..Len(structTypes) : \A k \in 1..Len(structTypes[s].fields) : Valid(structTypes[s].fields[k].type, d)'
    BY <1>2, <1>7, FieldsOf
  <2>3. \A p \in 1..Len(pointerTypes) : pointerTypes[p] # d
    BY DEF TypeInv, ReferencesOK
  <2> QED
    BY <1>2, <1>8, <2>1, <2>2, <2>3 DEF ReferencesOK
<1> QED
  BY <1>0, <1>2, <1>4, <1>5, <1>6, <1>9 DEF TypeInv

LEMMA CloseTypes ==
  ASSUME NEW d, TypeInv(d), CloseBlock, tags' = SubSeq(tags, 1, Top - 1),
         UNCHANGED <<completion, stands, meant, agree>>
  PROVE  TypeInv(d)' /\ d = 0
<1>0. /\ Top \in Nat /\ Top > 1 /\ Len(scopes) = Top /\ Len(tags) = Top
      /\ scopes \in Seq(ScopeRecord(Len(structTypes))) /\ tags \in Seq([Tag -> 0..Len(completion)])
      /\ Len(structTypes) \in Nat /\ Len(completion) \in Nat
      /\ verdict = "none" /\ d = 0 /\ defining = 0
  <2>1. verdict = "none" /\ defining = 0 /\ Top > 1
    BY DEF CloseBlock, Ready
  <2> QED
    BY <2>1, TypeFacts
<1>a. Top - 1 \in 0..Len(scopes) /\ Top - 1 \in 0..Len(tags)
  BY <1>0
<1>1. scopes' = SubSeq(scopes, 1, Top - 1) /\ expression' = NoType
      /\ UNCHANGED <<structTypes, pointerTypes, defining, declared, operators, verdict>>
  BY DEF CloseBlock
<1>2. /\ scopes' \in Seq(ScopeRecord(Len(structTypes))) /\ Len(scopes') = Top - 1
      /\ \A i \in 1..(Top - 1) : scopes'[i] = scopes[i]
  BY <1>0, <1>a, <1>1, InFront
<1>3. tags' \in Seq([Tag -> 0..Len(completion)]) /\ Len(tags') = Top - 1
  BY <1>0, <1>a, InFront
<1>4. ScopesTypeOK'
  <2>1. scopes' # <<>>
    BY <1>0, <1>2
  <2> QED
    BY <1>1, <1>2, <1>3, <2>1
       DEF TypeInv, ScopesTypeOK, StructTypeOK, MeaningTypeOK, Struct, ScopeRecord, NoType, Type
<1>5. ASSUME NEW type, Valid(type, d) PROVE Valid(type, d)'
  BY <1>1, <1>5 DEF Valid
<1>6. Valid(NoType, d)'
  BY DEF Valid, NoType, Type
<1>7. ReferencesOK(d)'
  <2>1. ASSUME NEW i \in 1..Top'
        PROVE  /\ \A t \in Tag : scopes'[i].structs[t] # 0 => scopes'[i].structs[t] # d
               /\ \A n \in Name : Valid(scopes[i].vars[n], d)'
    <3>1. i \in 1..Top /\ scopes'[i] = scopes[i]
      BY <1>0, <1>2 DEF Top
    <3> QED
      BY <1>5, <3>1 DEF TypeInv, ReferencesOK
  <2>2. \A s \in 1..Len(structTypes) : \A k \in 1..Len(structTypes[s].fields) : Valid(structTypes[s].fields[k].type, d)'
    BY <1>1, <1>5, FieldsOf
  <2>3. \A p \in 1..Len(pointerTypes) : pointerTypes[p] # d
    BY DEF TypeInv, ReferencesOK
  <2> QED
    BY <1>1, <1>6, <2>1, <2>2, <2>3 DEF ReferencesOK
<1> QED
  BY <1>0, <1>1, <1>2, <1>3, <1>4, <1>7 DEF TypeInv


\* The new object is the one in definition from now on.
LEMMA DefineTypes ==
  ASSUME TypeInv(0), NEW t \in Tag, Define(t), NEW d, d = Len(structTypes) + 1
  PROVE  /\ KeepsObjects /\ TypeInv(d)'
         /\ Len(structTypes') = d /\ structTypes'[d].tag = t /\ structTypes'[d].scope_counter = Depth
         /\ Len(stands') = d /\ stands'[d] = OrNew(OwnMeaning(t))
         /\ \A s \in 1..Len(structTypes) : stands'[s] = stands[s]
         /\ Len(tags') = Len(tags)
         /\ \A i \in 1..Top, u \in Tag :
              tags'[i][u] = IF i = Top /\ u = t THEN OrNew(OwnMeaning(t)) ELSE tags[i][u]
<1>0. /\ Top \in Nat \ {0} /\ Len(scopes) = Top /\ Len(tags) = Top /\ Depth = Top - 1
      /\ scopes \in Seq(ScopeRecord(Len(structTypes))) /\ tags \in Seq([Tag -> 0..Len(completion)])
      /\ structTypes \in Seq(StructType) /\ Len(structTypes) \in Nat
      /\ completion \in Seq(0..Len(structTypes)) /\ Len(completion) \in Nat
      /\ pointerTypes \in Seq(1..Len(structTypes)) /\ Len(pointerTypes) \in Nat
      /\ stands \in Seq(1..Len(completion)) /\ Len(stands) = Len(structTypes)
      /\ meant \in Seq(1..Len(completion)) /\ Len(meant) = Len(pointerTypes)
      /\ verdict = "none" /\ Depth' = Depth
  <2>1. verdict = "none" /\ UNCHANGED scopes
    BY DEF Define, StartStruct, Ready
  <2>2. Depth' = Depth
    BY <2>1 DEF Depth
  <2> QED
    BY <2>1, <2>2, TypeFacts
<1>1. PICK new : new = [tag |-> t, scope_counter |-> Depth, complete |-> TRUE, fields |-> <<>>]
  OBVIOUS
<1>2. /\ structTypes' = Append(structTypes, new)
      /\ defining' = d /\ declared' = declared + 1 /\ expression' = NoType
      /\ UNCHANGED <<scopes, pointerTypes, operators, verdict, meant, agree>>
  BY <1>1 DEF Define, StartStruct
<1>3. new \in StructType
  <2>1. Depth \in Nat /\ <<>> \in Seq([name : Field, type : Type])
    BY <1>0
  <2> QED
    BY <1>1, <2>1 DEF StructType
<1>4. /\ structTypes' \in Seq(StructType) /\ Len(structTypes') = d /\ structTypes'[d] = new
      /\ \A s \in 1..Len(structTypes) : structTypes'[s] = structTypes[s]
  BY <1>0, <1>2, <1>3, Appended
<1>5. d \in Nat /\ Len(structTypes) <= d /\ d \in 1..d /\ d # 0
  BY <1>0
<1>6. PICK c, m : c = OrNew(OwnMeaning(t)) /\ m = Len(completion')
  OBVIOUS
<1>7. /\ completion' \in Seq(0..d) /\ c \in 1..m /\ m \in Nat /\ Len(completion) <= m
  <2>1. OwnMeaning(t) \in 0..Len(completion)
    BY FoundMeaning
  <2>2. completion \in Seq(0..d) /\ 0 \in 0..d
    BY <1>0, <1>5
  <2>3. completion' = IF OwnMeaning(t) = 0 THEN Append(completion, 0) ELSE completion
    BY DEF Define
  <2>4. CASE OwnMeaning(t) = 0
    <3>1. completion' = Append(completion, 0) /\ c = Len(completion) + 1
      BY <1>6, <2>3, <2>4 DEF OrNew
    <3>2. Append(completion, 0) \in Seq(0..d) /\ Len(Append(completion, 0)) = Len(completion) + 1
      BY <2>2, Appended
    <3> QED
      BY <1>0, <1>6, <3>1, <3>2
  <2>5. CASE OwnMeaning(t) # 0
    BY <1>0, <1>6, <2>1, <2>2, <2>3, <2>5 DEF OrNew
  <2> QED
    BY <2>4, <2>5
<1>8. /\ tags' \in Seq([Tag -> 0..m]) /\ Len(tags') = Top
      /\ \A i \in 1..Top, u \in Tag : tags'[i][u] = IF i = Top /\ u = t THEN c ELSE tags[i][u]
  <2>1. tags \in [1..Top -> [Tag -> 0..Len(completion)]]
    BY <1>0, IsFunction
  <2>2. tags' = [tags EXCEPT ![Top][t] = c]
    BY <1>6 DEF Define, OwnMeaning
  <2>3. tags' = [i \in 1..Top |-> IF i = Top THEN [tags[Top] EXCEPT ![t] = c] ELSE tags[i]]
    BY <2>1, <2>2
  <2>4. ASSUME NEW i \in 1..Top
        PROVE  /\ tags'[i] \in [Tag -> 0..m]
               /\ \A u \in Tag : tags'[i][u] = IF i = Top /\ u = t THEN c ELSE tags[i][u]
    <3>1. tags[i] \in [Tag -> 0..m]
      BY <1>0, <1>7, <2>1
    <3> QED
      BY <1>7, <2>3, <3>1
  <2>5. tags' = [i \in 1..Top |-> tags'[i]]
    BY <2>3
  <2>6. Top \in Nat /\ \A i \in 1..Top : tags'[i] \in [Tag -> 0..m]
    BY <1>0, <2>4
  <2>7. tags' \in Seq([Tag -> 0..m]) /\ Len(tags') = Top
    BY ONLY <2>5, <2>6, IsSequence
  <2> QED
    BY <2>4, <2>7
<1>9. /\ stands' \in Seq(1..m) /\ Len(stands') = d /\ stands'[d] = c
      /\ \A s \in 1..Len(structTypes) : stands'[s] = stands[s]
  <2>a. (1..Len(completion)) \subseteq (1..m)
    BY <1>0, <1>7
  <2>b. stands \in Seq(1..m)
    BY ONLY <1>0, <2>a, Widened
  <2>1. stands \in Seq(1..m) /\ stands' = Append(stands, c)
    BY <1>6, <2>b DEF Define
  <2> QED
    BY <1>0, <1>7, <2>1, Appended
<1>10. scopes' \in Seq(ScopeRecord(d)) /\ scopes' # <<>> /\ Len(scopes') = Top
  <2>1. scopes \in Seq(ScopeRecord(d))
    BY <1>0, <1>5, ScopesGrow
  <2> QED
    BY <1>0, <1>2, <2>1
<1>11. pointerTypes' \in Seq(1..d) /\ meant' \in Seq(1..m) /\ Len(meant') = Len(pointerTypes')
  <2>1. (1..Len(structTypes)) \subseteq (1..d) /\ (1..Len(completion)) \subseteq (1..m)
    BY <1>0, <1>5, <1>7
  <2>2. pointerTypes \in Seq(1..d) /\ meant \in Seq(1..m)
    BY ONLY <1>0, <2>1, Widened
  <2> QED
    BY <1>0, <1>2, <2>2
<1>12. ScopesTypeOK'
  <2>1. NoType \in Type
    BY DEF NoType, Type
  <2>2. declared' \in Nat /\ operators' \in Nat /\ agree' \in BOOLEAN /\ verdict' = "none"
    BY <1>0, <1>2 DEF TypeInv, ScopesTypeOK, StructTypeOK, MeaningTypeOK
  <2>3. StructTypeOK'
    BY <1>2, <1>4, <1>5, <1>10, <1>11, <2>1, <2>2 DEF StructTypeOK, ScopeRecord
  <2>4. MeaningTypeOK'
    BY <1>4, <1>6, <1>7, <1>8, <1>9, <1>11, <2>2 DEF MeaningTypeOK, Struct
  <2> QED
    BY <2>3, <2>4 DEF ScopesTypeOK
<1>13. ASSUME NEW type, Valid(type, 0) PROVE Valid(type, d)'
  <2>1. Len(structTypes) \in Nat /\ Len(structTypes') = Len(structTypes) + 1 /\ pointerTypes' = pointerTypes
    BY <1>0, <1>2, <1>4
  <2> QED
    BY <1>13, <2>1 DEF Valid
<1>14. ReferencesOK(d)'
  <2>1. ASSUME NEW i \in 1..Top
        PROVE  /\ \A u \in Tag : scopes'[i].structs[u] # 0 => scopes'[i].structs[u] # d
               /\ \A n \in Name : Valid(scopes[i].vars[n], d)'
    <3>1. \A u \in Tag : scopes[i].structs[u] \in 0..Len(structTypes)
      BY TypeFacts
    <3>2. \A u \in Tag : scopes[i].structs[u] # d
      BY <1>0, <3>1
    <3> QED
      BY <1>2, <1>13, <3>2 DEF TypeInv, ReferencesOK
  <2>2. ASSUME NEW s \in 1..d, NEW k \in 1..Len(structTypes'[s].fields)
        PROVE  Valid(structTypes[s].fields[k].type, d)'
    <3>1. CASE s = d
      BY <1>1, <1>4, <3>1
    <3>2. CASE s # d
      <4>0. s \in 1..Len(structTypes)
        BY <1>0, <3>2
      <4>1. s \in 1..Len(structTypes) /\ structTypes'[s] = structTypes[s]
        BY <1>4, <4>0
      <4> QED
        BY <1>13, <4>1, FieldsOf
    <3> QED
      BY <3>1, <3>2
  <2>3. \A p \in 1..Len(pointerTypes) : pointerTypes[p] # d
    <3>1. \A p \in 1..Len(pointerTypes) : pointerTypes[p] \in 1..Len(structTypes)
      BY TypeFacts
    <3> QED
      BY <1>0, <3>1
  <2>4. Valid(expression, d)'
    BY <1>2 DEF Valid, NoType, Type
  <2>5. Top' = Top
    BY <1>2 DEF Top
  <2> QED
    BY <1>2, <1>4, <2>1, <2>2, <2>3, <2>4, <2>5 DEF ReferencesOK
<1>15. KeepsObjects
  BY <1>0, <1>4 DEF KeepsObjects
<1>16. structTypes'[d].complete /\ structTypes'[d].tag = t /\ structTypes'[d].scope_counter = Depth
  BY <1>1, <1>4
<1>17. TypeInv(d)'
  BY <1>0, <1>2, <1>4, <1>5, <1>8, <1>10, <1>12, <1>14, <1>16 DEF TypeInv
<1> QED
  BY <1>0, <1>4, <1>6, <1>8, <1>9, <1>15, <1>16, <1>17

\* The object goes to its scope and is no longer in definition; a definition that is
\* rejected leaves everything else alone.
LEMMA CompleteTypes ==
  ASSUME NEW d, TypeInv(d), Complete
  PROVE  /\ d = defining /\ d \in 1..Len(structTypes) /\ structTypes[d].tag \in Tag
         /\ UNCHANGED <<structTypes, pointerTypes, tags, stands, meant, agree>>
         /\ Len(scopes') = Len(scopes)
         /\ \/ verdict' = "none" /\ TypeInv(0)' /\ ~IsStructDefined(structTypes[d].tag)
               /\ completion' = [completion EXCEPT ![stands[d]] = d]
               /\ \A i \in 1..Top, u \in Tag :
                    scopes'[i].structs[u] = IF i = Top /\ u = structTypes[d].tag THEN d ELSE scopes[i].structs[u]
            \/ TypeInv(d)' /\ UNCHANGED <<scopes, completion>>
<1>0. /\ Top \in Nat \ {0} /\ Len(scopes) = Top /\ scopes \in Seq(ScopeRecord(Len(structTypes)))
      /\ Len(structTypes) \in Nat /\ Len(completion) \in Nat
      /\ d = defining /\ d \in 1..Len(structTypes) /\ structTypes[d].tag \in Tag
      /\ completion \in Seq(0..Len(structTypes)) /\ stands[d] \in 1..Len(completion)
  <2>1. verdict = "none" /\ defining # 0
    BY DEF Complete, FinishStruct
  <2>2. d = defining /\ d \in 1..Len(structTypes)
    BY <2>1, TypeFacts
  <2>3. structTypes[d] \in StructType
    BY <2>2, TypeFacts
  <2>4. structTypes[d].tag \in Tag
    BY <2>3 DEF StructType
  <2> QED
    BY <2>2, <2>4, TypeFacts
<1>1. /\ defining' = 0
      /\ UNCHANGED <<structTypes, pointerTypes, expression, declared, operators, tags, stands, meant, agree>>
  BY DEF Complete, FinishStruct
<1>2. CASE verdict' = "none"
  <2>1. PICK t : t = structTypes[d].tag
    OBVIOUS
  <2>2. /\ scopes' = WithTag(scopes, Top, t, d) /\ ~IsStructDefined(t)
        /\ completion' = [completion EXCEPT ![stands[d]] = d]
    BY <1>0, <1>2, <2>1 DEF Complete, FinishStruct, WithTag
  <2>3. t \in Tag /\ d \in 0..Len(structTypes) /\ Top \in 1..Len(scopes)
    BY <1>0, <2>1
  <2>4. /\ scopes' \in Seq(ScopeRecord(Len(structTypes))) /\ Len(scopes') = Len(scopes)
        /\ \A i \in 1..Len(scopes) :
             /\ scopes'[i].vars = scopes[i].vars
             /\ \A u \in Tag : scopes'[i].structs[u] = IF i = Top /\ u = t THEN d ELSE scopes[i].structs[u]
    <3>1. PICK n : n = Len(structTypes)
      OBVIOUS
    <3>2. n \in Nat /\ d \in 0..n /\ scopes \in Seq(ScopeRecord(n))
      BY <1>0, <2>3, <3>1
    <3>3. scopes' = WithTag(scopes, Top, t, d)
      BY <2>2
    <3>4. /\ scopes' \in Seq(ScopeRecord(n)) /\ Len(scopes') = Len(scopes)
          /\ \A i \in 1..Len(scopes) :
               /\ scopes'[i].vars = scopes[i].vars
               /\ \A u \in Tag : scopes'[i].structs[u] = IF i = Top /\ u = t THEN d ELSE scopes[i].structs[u]
      BY ONLY <2>3, <3>2, <3>3, AddedTag
    <3> QED
      BY <3>1, <3>4
  <2>5. completion' \in Seq(0..Len(structTypes)) /\ Len(completion') = Len(completion)
    BY <1>0, <2>2
  <2>6. ScopesTypeOK'
    <3>1. scopes' # <<>>
      BY <1>0, <2>4
    <3>2. StructTypeOK'
      BY <1>0, <1>1, <1>2, <2>4, <3>1 DEF TypeInv, ScopesTypeOK, StructTypeOK, ScopeRecord
    <3>3. MeaningTypeOK'
      BY <1>1, <2>5 DEF TypeInv, ScopesTypeOK, MeaningTypeOK, Struct
    <3> QED
      BY <3>2, <3>3 DEF ScopesTypeOK
  <2>7. ASSUME NEW type, Valid(type, d) PROVE Valid(type, 0)'
    BY <1>0, <1>1, <2>7 DEF Valid
  <2>8. ReferencesOK(0)'
    <3>1. ASSUME NEW i \in 1..Top, NEW n \in Name PROVE Valid(scopes[i].vars[n], 0)'
      <4>1. scopes'[i].vars[n] = scopes[i].vars[n]
        BY <1>0, <2>4
      <4>2. Valid(scopes[i].vars[n], d)
        BY DEF TypeInv, ReferencesOK
      <4>3. PICK old : old = scopes[i].vars[n]
        OBVIOUS
      <4>4. Valid(old, 0)'
        BY <2>7, <4>2, <4>3
      <4> QED
        BY <4>1, <4>3, <4>4
    <3>2. \A s \in 1..Len(structTypes) : \A k \in 1..Len(structTypes[s].fields) : Valid(structTypes[s].fields[k].type, 0)'
      BY <1>1, <2>7, FieldsOf
    <3>3. \A p \in 1..Len(pointerTypes) : pointerTypes[p] # 0
      <4>1. \A p \in 1..Len(pointerTypes) : pointerTypes[p] \in 1..Len(structTypes)
        BY TypeFacts
      <4> QED
        BY <1>0, <4>1
    <3>4. Valid(expression, 0)'
      BY <1>1, <2>7 DEF TypeInv, ReferencesOK
    <3> QED
      BY <1>0, <1>1, <2>4, <3>1, <3>2, <3>3, <3>4 DEF ReferencesOK, Top
  <2>9. TypeInv(0)'
    BY <1>0, <1>1, <2>4, <2>6, <2>8 DEF TypeInv
  <2> QED
    BY <1>0, <1>1, <1>2, <2>1, <2>2, <2>4, <2>9
<1>3. CASE verdict' # "none"
  <2>1. verdict' = "rejected" /\ UNCHANGED <<scopes, completion>>
    BY <1>3 DEF Complete, FinishStruct
  <2>2. ScopesTypeOK'
    BY <1>0, <1>1, <2>1 DEF TypeInv, ScopesTypeOK, StructTypeOK, MeaningTypeOK, Struct
  <2>3. ASSUME NEW type, Valid(type, d) PROVE Valid(type, d)'
    BY <1>1, <2>3 DEF Valid
  <2>4. ReferencesOK(d)'
    <3>1. \A i \in 1..Top, n \in Name : Valid(scopes[i].vars[n], d)'
      BY <2>1, <2>3 DEF TypeInv, ReferencesOK
    <3>2. \A s \in 1..Len(structTypes) : \A k \in 1..Len(structTypes[s].fields) : Valid(structTypes[s].fields[k].type, d)'
      BY <1>1, <2>3, FieldsOf
    <3>3. Valid(expression, d)'
      BY <1>1, <2>3 DEF TypeInv, ReferencesOK
    <3>4. /\ \A p \in 1..Len(pointerTypes) : pointerTypes[p] # d
          /\ \A i \in 1..Top : \A t \in Tag : scopes[i].structs[t] # 0 => scopes[i].structs[t] # d
      BY DEF TypeInv, ReferencesOK
    <3> QED
      BY <1>1, <2>1, <3>1, <3>2, <3>3, <3>4 DEF ReferencesOK, Top
  <2>5. TypeInv(d)'
    BY <1>1, <2>1, <2>2, <2>4 DEF TypeInv, Depth
  <2> QED
    BY <1>0, <1>1, <2>1, <2>5
<1> QED
  BY <1>2, <1>3

\* Operators, and a component that is rejected.
LEMMA RejectedTypes ==
  ASSUME NEW d, TypeInv(d), NEW f \in Field, NEW t \in Tag, AddStruct(f, t), ~IsVisible(t),
         UNCHANGED meaningVars
  PROVE  TypeInv(d)' /\ UNCHANGED <<scopes, structTypes, pointerTypes>>
<1>1. /\ UNCHANGED <<scopes, structTypes, pointerTypes, defining, expression, declared, operators>>
      /\ UNCHANGED <<tags, completion, stands, meant, agree>>
      /\ verdict = "none" /\ verdict' = "rejected"
  BY DEF AddStruct, IsComponent, meaningVars
<1>2. ReadsTypes
  BY <1>1 DEF TypeInv, ScopesTypeOK, StructTypeOK, MeaningTypeOK, ReadsTypes
<1>3. Valid(expression, d)'
  BY <1>1 DEF TypeInv, ReferencesOK, Valid
<1>4. /\ pointerTypes \in Seq(1..Len(structTypes)) /\ Len(pointerTypes) \in Nat
      /\ meant \in Seq(1..Len(completion)) /\ Len(meant) = Len(pointerTypes)
      /\ \A p \in 1..Len(pointerTypes) : pointerTypes[p] # d
  BY TypeFacts DEF TypeInv, ReferencesOK
<1> QED
  BY <1>1, <1>2, <1>3, <1>4, OperatorTypes

\* An operator that changes no pointer type.
LEMMA ValueTypes ==
  ASSUME NEW d, TypeInv(d), IsOperator,
         UNCHANGED <<scopes, structTypes, pointerTypes, meaningVars>>,
         \/ Reject
         \/ \E type \in Type : Result(type) /\ Valid(type, d)
  PROVE  TypeInv(d)'
<1>1. /\ UNCHANGED <<scopes, structTypes, pointerTypes, defining, declared>>
      /\ UNCHANGED <<tags, completion, stands, meant, agree>>
      /\ verdict = "none" /\ operators' = operators + 1
  BY DEF IsOperator, Ready, meaningVars
<1>2. ASSUME NEW type, Valid(type, d) PROVE Valid(type, d)'
  BY <1>1, <1>2 DEF Valid
<1>3. Valid(expression, d)' /\ expression' \in Type /\ verdict' \in {"none", "rejected"}
  <2>1. CASE Reject
    BY <1>1, <1>2, <2>1 DEF Reject, TypeInv, ReferencesOK, ScopesTypeOK, StructTypeOK
  <2>2. CASE ~Reject
    <3>1. PICK type \in Type : Result(type) /\ Valid(type, d)
      BY <2>2
    <3>2. Valid(type, d)' /\ expression' = type /\ verdict' = verdict
      BY <1>2, <3>1 DEF Result
    <3> QED
      BY <1>1, <3>2
  <2> QED
    BY <2>1, <2>2
<1>4. ReadsTypes
  BY <1>1, <1>3 DEF TypeInv, ScopesTypeOK, StructTypeOK, MeaningTypeOK, ReadsTypes
<1>5. /\ pointerTypes \in Seq(1..Len(structTypes)) /\ Len(pointerTypes) \in Nat
      /\ meant \in Seq(1..Len(completion)) /\ Len(meant) = Len(pointerTypes)
      /\ \A p \in 1..Len(pointerTypes) : pointerTypes[p] # d
  BY TypeFacts DEF TypeInv, ReferencesOK
<1> QED
  BY <1>1, <1>3, <1>4, <1>5, OperatorTypes

\* The result of an access is the type of a field.
LEMMA AccessTypes ==
  ASSUME NEW d, TypeInv(d), NEW s \in 1..Len(structTypes), NEW f \in Field, AccessField(s, f)
  PROVE  Reject \/ \E type \in Type : Result(type) /\ Valid(type, d)
<1>1. CASE structTypes[s].complete /\ HasField(s, f)
  <2> DEFINE Is(i) == structTypes[s].fields[i].name = f
  <2>1. PICK i : i = CHOOSE j \in 1..Len(structTypes[s].fields) : structTypes[s].fields[j].name = f
    OBVIOUS
  <2>2. i \in 1..Len(structTypes[s].fields)
    BY <1>1, <2>1 DEF HasField
  <2>3. Valid(structTypes[s].fields[i].type, d)
    BY <2>2, FieldsOf
  <2>4. Result(structTypes[s].fields[i].type)
    BY <1>1, <2>1 DEF AccessField, TypeOfField
  <2> QED
    BY <2>3, <2>4 DEF Valid
<1>2. CASE ~(structTypes[s].complete /\ HasField(s, f))
  BY <1>2 DEF AccessField
<1> QED
  BY <1>1, <1>2

LEMMA ReferTypes ==
  ASSUME NEW d, TypeInv(d), NEW n \in Name, Refer(n), UNCHANGED meaningVars
  PROVE  TypeInv(d)'
<1>1. CASE Holds(n) = {}
  BY <1>1, ValueTypes DEF Refer
<1>2. CASE Holds(n) # {}
  <2>1. PICK type : type = scopes[Innermost(Holds(n))].vars[n]
    OBVIOUS
  <2>2. Valid(type, d)
    BY <1>2, <2>1, FoundType
  <2>3. PICK result : result = IF type.kind = "function" THEN PointerRef(type.ref) ELSE type
    OBVIOUS
  <2>4. Result(result)
    BY <1>2, <2>1, <2>3 DEF Refer
  <2>5. Valid(result, d) /\ result \in Type
    BY <2>2, <2>3 DEF Valid, PointerRef, Type
  <2>6. IsOperator /\ UNCHANGED <<scopes, structTypes, pointerTypes>>
    BY DEF Refer
  <2> QED
    BY <2>4, <2>5, <2>6, ValueTypes
<1> QED
  BY <1>1, <1>2

LEMMA ExpressionRefers ==
  ASSUME NEW d, TypeInv(d)
  PROVE  /\ expression.kind = "struct" => expression.ref \in 1..Len(structTypes) /\ expression.ref # d
         /\ expression.kind = "pointer" => expression.ref \in 1..Len(pointerTypes)
         /\ expression.kind = "pointer" =>
              /\ pointerTypes[expression.ref] \in 1..Len(structTypes)
              /\ pointerTypes[expression.ref] # d
<1>1. Valid(expression, d)
  BY DEF TypeInv, ReferencesOK
<1>2. \A p \in 1..Len(pointerTypes) : pointerTypes[p] \in 1..Len(structTypes) /\ pointerTypes[p] # d
  BY TypeFacts DEF TypeInv, ReferencesOK
<1> QED
  BY <1>1, <1>2 DEF Valid

LEMMA DotTypes ==
  ASSUME NEW d, TypeInv(d), NEW f \in Field, Dot(f), UNCHANGED meaningVars
  PROVE  TypeInv(d)'
<1>1. IsOperator /\ UNCHANGED <<scopes, structTypes, pointerTypes>>
  BY DEF Dot
<1>2. CASE expression.kind = "struct"
  <2>1. expression.ref \in 1..Len(structTypes)
    BY <1>2, ExpressionRefers
  <2>2. AccessField(expression.ref, f)
    BY <1>2 DEF Dot
  <2> QED
    BY <1>1, <2>1, <2>2, AccessTypes, ValueTypes
<1>3. CASE expression.kind # "struct"
  BY <1>1, <1>3, ValueTypes DEF Dot
<1> QED
  BY <1>2, <1>3

LEMMA DereferenceTypes ==
  ASSUME NEW d, TypeInv(d), Dereference \/ Index, UNCHANGED meaningVars
  PROVE  TypeInv(d)'
<1>1. IsOperator /\ UNCHANGED <<scopes, structTypes, pointerTypes>>
  BY DEF Dereference, Index
<1>2. Reject \/ (expression.kind = "pointer" /\ Result(StructRef(pointerTypes[expression.ref])))
  BY DEF Dereference, Index
<1>3. CASE Reject
  BY <1>1, <1>3, ValueTypes
<1>4. CASE expression.kind = "pointer" /\ Result(StructRef(pointerTypes[expression.ref]))
  <2>1. PICK type : type = StructRef(pointerTypes[expression.ref])
    OBVIOUS
  <2>2. pointerTypes[expression.ref] \in 1..Len(structTypes) /\ pointerTypes[expression.ref] # d
        /\ Len(structTypes) \in Nat
    BY <1>4, ExpressionRefers, TypeFacts
  <2>3. Valid(type, d) /\ type \in Type
    BY <2>1, <2>2 DEF Valid, StructRef, Type
  <2> QED
    BY <1>1, <1>4, <2>1, <2>3, ValueTypes
<1> QED
  BY <1>2, <1>3, <1>4

LEMMA SizeofTypes ==
  ASSUME NEW d, TypeInv(d), Sizeof, UNCHANGED meaningVars
  PROVE  TypeInv(d)'
<1>1. IsOperator /\ UNCHANGED <<scopes, structTypes, pointerTypes>>
  BY DEF Sizeof
<1>2. Reject \/ Result(IntType)
  BY DEF Sizeof
<1>3. IntType \in Type /\ Valid(IntType, d)
  BY DEF IntType, Type, Valid
<1> QED
  BY <1>1, <1>2, <1>3, ValueTypes

\* What getCompleteStruct returns.
LEMMA CompleteStruct ==
  ASSUME NEW d, TypeInv(d), NEW s \in 1..Len(structTypes)
  PROVE  \/ GetCompleteStruct(s) = s /\ \A k \in 1..Top : ~Completes(k, s)
         \/ \E k \in 1..Top : Completes(k, s) /\ GetCompleteStruct(s) = scopes[k].structs[structTypes[s].tag]
<1> DEFINE S == {k \in 1..Top : Completes(k, s)}
<1>1. S \in SUBSET (1..Top) /\ Top \in Nat
  BY TypeFacts
<1>2. GetCompleteStruct(s) = IF S = {} THEN s ELSE scopes[Innermost(S)].structs[structTypes[s].tag]
  BY DEF GetCompleteStruct
<1>3. CASE S = {}
  BY <1>2, <1>3
<1>4. CASE S # {}
  <2>1. Innermost(S) \in S
    BY <1>1, <1>4, InnermostIsLast
  <2> QED
    BY <1>2, <1>4, <2>1
<1> QED
  BY <1>3, <1>4

LEMMA TargetTypes ==
  ASSUME NEW d, TypeInv(d), NEW p \in 1..Len(pointerTypes)
  PROVE  ArrowTarget(p) \in 1..Len(structTypes) /\ ArrowTarget(p) # d
<1>1. PICK s : s = pointerTypes[p]
  OBVIOUS
<1>2. s \in 1..Len(structTypes) /\ s # d
  BY <1>1, TypeFacts DEF TypeInv, ReferencesOK
<1>3. ASSUME NEW k \in 1..Top, Completes(k, s)
      PROVE  /\ scopes[k].structs[structTypes[s].tag] \in 1..Len(structTypes)
             /\ scopes[k].structs[structTypes[s].tag] # d
  <2>1. structTypes[s].tag \in Tag
    <3>1. structTypes[s] \in StructType
      BY <1>2, TypeFacts
    <3> QED
      BY <3>1 DEF StructType
  <2>2. scopes[k].structs[structTypes[s].tag] \in 0..Len(structTypes) /\ Len(structTypes) \in Nat
    BY <2>1, TypeFacts
  <2>3. scopes[k].structs[structTypes[s].tag] # 0
    BY <1>3 DEF Completes
  <2> QED
    BY <2>1, <2>2, <2>3 DEF TypeInv, ReferencesOK
<1>4. GetCompleteStruct(s) \in 1..Len(structTypes) /\ GetCompleteStruct(s) # d
  BY <1>2, <1>3, CompleteStruct
<1> QED
  BY <1>1, <1>2, <1>4 DEF ArrowTarget

LEMMA ArrowTypes ==
  ASSUME NEW d, TypeInv(d), NEW f \in Field, Arrow(f), UNCHANGED meaningVars
  PROVE  TypeInv(d)'
<1>1. /\ UNCHANGED <<scopes, structTypes, defining, declared>>
      /\ UNCHANGED <<tags, completion, stands, meant, agree>>
      /\ verdict = "none" /\ operators' = operators + 1
  BY DEF Arrow, IsOperator, Ready, meaningVars
<1>2. CASE expression.kind # "pointer"
  <2>1. Reject /\ UNCHANGED pointerTypes /\ IsOperator
    BY <1>2 DEF Arrow
  <2> QED
    BY <1>1, <2>1, ValueTypes
<1>3. CASE expression.kind = "pointer"
  <2>1. PICK p, s : p = expression.ref /\ s = ArrowTarget(p)
    OBVIOUS
  <2>2. p \in 1..Len(pointerTypes)
    BY <1>3, <2>1, ExpressionRefers
  <2>3. s \in 1..Len(structTypes) /\ s # d
    BY <2>1, <2>2, TargetTypes
  <2>4. pointerTypes' = [pointerTypes EXCEPT ![p] = s] /\ AccessField(s, f)
    BY <1>3, <2>1 DEF Arrow
  <2>5. /\ pointerTypes \in Seq(1..Len(structTypes)) /\ Len(pointerTypes) \in Nat
        /\ meant \in Seq(1..Len(completion)) /\ Len(meant) = Len(pointerTypes)
        /\ \A q \in 1..Len(pointerTypes) : pointerTypes[q] # d
    BY TypeFacts DEF TypeInv, ReferencesOK
  <2>6. /\ pointerTypes' \in Seq(1..Len(structTypes)) /\ Len(pointerTypes') = Len(pointerTypes)
        /\ \A q \in 1..Len(pointerTypes') : pointerTypes'[q] # d
    BY <2>2, <2>3, <2>4, <2>5
  <2>7. ASSUME NEW type, Valid(type, d) PROVE Valid(type, d)'
    BY <1>1, <2>6, <2>7 DEF Valid
  <2>8. Reject \/ \E type \in Type : Result(type) /\ Valid(type, d)
    <3>1. Reject \/ \E type : Result(type) /\ Valid(type, d)
      BY <2>3, <2>4, AccessTypes
    <3> QED
      BY <3>1 DEF Valid
  <2>9. Valid(expression, d)' /\ expression' \in Type /\ verdict' \in {"none", "rejected"}
    <3>1. CASE Reject
      BY <1>1, <2>7, <3>1 DEF Reject, TypeInv, ReferencesOK, ScopesTypeOK, StructTypeOK
    <3>2. CASE ~Reject
      <4>1. PICK type \in Type : Result(type) /\ Valid(type, d)
        BY <2>8, <3>2
      <4>2. Valid(type, d)' /\ expression' = type /\ verdict' = verdict
        BY <2>7, <4>1 DEF Result
      <4> QED
        BY <1>1, <4>2
    <3> QED
      BY <3>1, <3>2
  <2>10. ReadsTypes
    BY <1>1, <2>9 DEF TypeInv, ScopesTypeOK, StructTypeOK, MeaningTypeOK, ReadsTypes
  <2>11. Len(pointerTypes) <= Len(pointerTypes') /\ meant' \in Seq(1..Len(completion)) /\ Len(meant') = Len(pointerTypes')
    BY <1>1, <2>5, <2>6
  <2>12. UNCHANGED <<scopes, structTypes, defining, tags, completion, stands>> /\ verdict = "none"
    BY <1>1
  <2> QED
    BY <2>6, <2>9, <2>10, <2>11, <2>12, OperatorTypes
<1> QED
  BY <1>2, <1>3

LEMMA AddressTypes ==
  ASSUME NEW d, TypeInv(d), TakeAddress
  PROVE  TypeInv(d)'
<1>1. /\ UNCHANGED <<scopes, structTypes, defining, declared, tags, completion, stands, agree>>
      /\ verdict = "none" /\ verdict' = "none" /\ operators' = operators + 1
      /\ expression.kind = "struct" /\ expression' = PointerRef(Len(pointerTypes) + 1)
      /\ pointerTypes' = Append(pointerTypes, expression.ref)
      /\ meant' = Append(meant, stands[expression.ref])
  BY DEF TakeAddress, Reference, IsOperator, Ready, Result
<1>2. PICK s, c : s = expression.ref /\ c = stands[s]
  OBVIOUS
<1>3. s \in 1..Len(structTypes) /\ s # d
  BY <1>1, <1>2, ExpressionRefers
<1>4. c \in 1..Len(completion)
  BY <1>2, <1>3, TypeFacts
<1>5. /\ pointerTypes \in Seq(1..Len(structTypes)) /\ Len(pointerTypes) \in Nat
      /\ meant \in Seq(1..Len(completion)) /\ Len(meant) = Len(pointerTypes)
      /\ \A q \in 1..Len(pointerTypes) : pointerTypes[q] # d
  BY TypeFacts DEF TypeInv, ReferencesOK
<1>6. /\ pointerTypes' \in Seq(1..Len(structTypes)) /\ Len(pointerTypes') = Len(pointerTypes) + 1
      /\ pointerTypes'[Len(pointerTypes) + 1] = s
      /\ \A q \in 1..Len(pointerTypes) : pointerTypes'[q] = pointerTypes[q]
  BY <1>1, <1>2, <1>3, <1>5, Appended
<1>7. ASSUME NEW q \in 1..Len(pointerTypes') PROVE pointerTypes'[q] # d
  <2>1. q \in 1..Len(pointerTypes) \/ q = Len(pointerTypes) + 1
    BY <1>5, <1>6
  <2> QED
    BY <1>3, <1>5, <1>6, <2>1
<1>8. meant' \in Seq(1..Len(completion)) /\ Len(meant') = Len(pointerTypes')
  BY <1>1, <1>2, <1>4, <1>5, <1>6, Appended
<1>9. Valid(expression, d)' /\ expression' \in Type
  BY <1>1, <1>5, <1>6 DEF Valid, PointerRef, Type
<1>10. ReadsTypes
  BY <1>1, <1>9 DEF TypeInv, ScopesTypeOK, StructTypeOK, MeaningTypeOK, ReadsTypes
<1>11. Len(pointerTypes) <= Len(pointerTypes')
  BY <1>5, <1>6
<1> QED
  BY <1>1, <1>6, <1>7, <1>8, <1>9, <1>10, <1>11, OperatorTypes

(* Tags *)

SameScopes ==
  /\ Len(scopes') = Len(scopes)
  /\ \A i \in 1..Top, u \in Tag : scopes'[i].structs[u] = scopes[i].structs[u]

LEMMA SameTags ==
  ASSUME NEW d, TypeInv(d), TagInv, KeepsObjects, SameScopes
  PROVE  TagInv'
<1>1. Top' = Top /\ Top \in Nat
  BY TypeFacts DEF SameScopes, Top
<1>2. \A i \in 1..Top, t \in Tag : scopes[i].structs[t] \in 0..Len(structTypes)
  BY TypeFacts
<1>3. Len(structTypes) \in Nat
  BY TypeFacts
<1> SUFFICES ASSUME NEW i \in 1..Top, NEW t \in Tag, scopes'[i].structs[t] # 0
             PROVE  /\ structTypes'[scopes'[i].structs[t]].tag = t
                    /\ ~structTypes'[scopes'[i].structs[t]].complete =>
                         \A j \in 1..(i - 1) : scopes'[j].structs[t] = 0
  BY <1>1 DEF TagInv
<1>4. PICK s : s = scopes[i].structs[t]
  OBVIOUS
<1>5. s \in 1..Len(structTypes) /\ scopes'[i].structs[t] = s
  BY <1>2, <1>3, <1>4 DEF SameScopes
<1>6. structTypes[s].tag = t /\ (~structTypes[s].complete => \A j \in 1..(i - 1) : scopes[j].structs[t] = 0)
  BY <1>4, <1>5 DEF TagInv
<1>7. structTypes'[s].tag = t /\ structTypes'[s].complete = structTypes[s].complete
  BY <1>5, <1>6 DEF KeepsObjects
<1>8. \A j \in 1..(i - 1) : j \in 1..Top
  BY <1>1
<1> QED
  BY <1>5, <1>6, <1>7, <1>8 DEF SameScopes

LEMMA NamedTags ==
  ASSUME NEW d, TypeInv(d), TagInv, NEW t \in Tag, Named(t)
  PROVE  TagInv'
<1>0. KeepsObjects /\ Len(scopes') = Len(scopes)
  BY DEF Named
<1>1. CASE IsVisible(t)
  <2>1. SameScopes
    BY <1>1 DEF Named, SameScopes
  <2> QED
    BY <1>0, <2>1, SameTags
<1>2. CASE ~IsVisible(t)
  <2>1. Top' = Top /\ Top \in Nat \ {0} /\ Len(structTypes) \in Nat
    BY <1>0, TypeFacts DEF Top
  <2>2. \A i \in 1..Top, u \in Tag : scopes[i].structs[u] \in 0..Len(structTypes)
    BY TypeFacts
  <2>3. \A i \in 1..Top : scopes[i].structs[t] = 0
    BY <1>2 DEF IsVisible, Declares
  <2>4. PICK n : n = Len(structTypes) + 1
    OBVIOUS
  <2>5. /\ structTypes'[n].tag = t
        /\ \A i \in 1..Top, u \in Tag :
             scopes'[i].structs[u] = IF i = Top /\ u = t THEN n ELSE scopes[i].structs[u]
    BY <1>2, <2>4 DEF Named
  <2> SUFFICES ASSUME NEW i \in 1..Top, NEW u \in Tag, scopes'[i].structs[u] # 0
               PROVE  /\ structTypes'[scopes'[i].structs[u]].tag = u
                      /\ ~structTypes'[scopes'[i].structs[u]].complete =>
                           \A j \in 1..(i - 1) : scopes'[j].structs[u] = 0
    BY <2>1 DEF TagInv
  <2>6. \A j \in 1..(i - 1) : j \in 1..Top /\ j # Top
    BY <2>1
  <2>7. CASE i = Top /\ u = t
    BY <2>3, <2>5, <2>6, <2>7
  <2>8. CASE ~(i = Top /\ u = t)
    <3>1. PICK s : s = scopes[i].structs[u]
      OBVIOUS
    <3>2. scopes'[i].structs[u] = s /\ s \in 1..Len(structTypes)
      BY <2>1, <2>2, <2>5, <2>8, <3>1
    <3>3. structTypes[s].tag = u /\ (~structTypes[s].complete => \A j \in 1..(i - 1) : scopes[j].structs[u] = 0)
      BY <3>1, <3>2 DEF TagInv
    <3>4. structTypes'[s].tag = u /\ structTypes'[s].complete = structTypes[s].complete
      BY <1>0, <3>2, <3>3 DEF KeepsObjects
    <3> QED
      BY <2>5, <2>6, <3>2, <3>3, <3>4
  <2> QED
    BY <2>7, <2>8
<1> QED
  BY <1>1, <1>2

LEMMA OpenTags ==
  ASSUME NEW d, TypeInv(d), TagInv, OpenBlock
  PROVE  TagInv'
<1>1. /\ scopes' = Append(scopes, EmptyScope) /\ UNCHANGED structTypes
      /\ scopes \in Seq(ScopeRecord(Len(structTypes))) /\ Len(scopes) = Top /\ Top \in Nat
  BY TypeFacts DEF OpenBlock
<1>2. /\ Top' = Top + 1 /\ \A u \in Tag : scopes'[Top + 1].structs[u] = 0
      /\ \A i \in 1..Top : scopes'[i] = scopes[i]
  BY <1>1 DEF Top, EmptyScope
<1> SUFFICES ASSUME NEW i \in 1..(Top + 1), NEW t \in Tag, scopes'[i].structs[t] # 0
             PROVE  /\ structTypes[scopes'[i].structs[t]].tag = t
                    /\ ~structTypes[scopes'[i].structs[t]].complete =>
                         \A j \in 1..(i - 1) : scopes'[j].structs[t] = 0
  BY <1>1, <1>2 DEF TagInv
<1>3. i \in 1..Top /\ \A j \in 1..(i - 1) : j \in 1..Top
  BY <1>1, <1>2
<1> QED
  BY <1>2, <1>3 DEF TagInv

LEMMA CloseTags ==
  ASSUME NEW d, TypeInv(d), TagInv, CloseBlock
  PROVE  TagInv'
<1>1. /\ scopes' = SubSeq(scopes, 1, Top - 1) /\ UNCHANGED structTypes
      /\ scopes \in Seq(ScopeRecord(Len(structTypes))) /\ Len(scopes) = Top /\ Top \in Nat /\ Top > 1
  BY TypeFacts DEF CloseBlock
<1>2. Top' = Top - 1 /\ \A i \in 1..(Top - 1) : scopes'[i] = scopes[i]
  BY <1>1 DEF Top
<1> SUFFICES ASSUME NEW i \in 1..(Top - 1), NEW t \in Tag, scopes'[i].structs[t] # 0
             PROVE  /\ structTypes[scopes'[i].structs[t]].tag = t
                    /\ ~structTypes[scopes'[i].structs[t]].complete =>
                         \A j \in 1..(i - 1) : scopes'[j].structs[t] = 0
  BY <1>1, <1>2 DEF TagInv
<1>3. i \in 1..Top /\ \A j \in 1..(i - 1) : j \in 1..(Top - 1)
  BY <1>1
<1> QED
  BY <1>2, <1>3 DEF TagInv

LEMMA CompleteTags ==
  ASSUME NEW d, TypeInv(d), TagInv, Complete
  PROVE  TagInv'
<1>1. /\ d = defining /\ d \in 1..Len(structTypes) /\ UNCHANGED structTypes
      /\ Len(scopes') = Len(scopes) /\ structTypes[d].tag \in Tag
      /\ \/ \A i \in 1..Top, u \in Tag :
              scopes'[i].structs[u] = IF i = Top /\ u = structTypes[d].tag THEN d ELSE scopes[i].structs[u]
         \/ UNCHANGED scopes
  BY CompleteTypes
<1>2. Top' = Top /\ Top \in Nat \ {0} /\ structTypes[d].complete
  BY <1>1, TypeFacts DEF Top, TypeInv
<1>3. CASE UNCHANGED scopes
  BY <1>1, <1>2, <1>3 DEF TagInv
<1>4. CASE \A i \in 1..Top, u \in Tag :
             scopes'[i].structs[u] = IF i = Top /\ u = structTypes[d].tag THEN d ELSE scopes[i].structs[u]
  <2> SUFFICES ASSUME NEW i \in 1..Top, NEW u \in Tag, scopes'[i].structs[u] # 0
               PROVE  /\ structTypes[scopes'[i].structs[u]].tag = u
                      /\ ~structTypes[scopes'[i].structs[u]].complete =>
                           \A j \in 1..(i - 1) : scopes'[j].structs[u] = 0
    BY <1>1, <1>2, SMTT(20) DEF TagInv
  <2>1. \A j \in 1..(i - 1) : j \in 1..Top /\ j # Top
    BY <1>2
  <2>2. CASE i = Top /\ u = structTypes[d].tag
    BY <1>2, <1>4, <2>2
  <2>3. CASE ~(i = Top /\ u = structTypes[d].tag)
    BY <1>4, <2>1, <2>3 DEF TagInv
  <2> QED
    BY <2>2, <2>3
<1> QED
  BY <1>1, <1>3, <1>4

\* A step that leaves the tags alone, in the code and in C.
Quiet ==
  /\ KeepsObjects /\ SameScopes /\ Len(structTypes') = Len(structTypes)
  /\ UNCHANGED <<tags, completion, stands, agree>>

SamePointers == UNCHANGED <<pointerTypes, meant>>
PointerTo(s, c) == pointerTypes' = Append(pointerTypes, s) /\ meant' = Append(meant, c)

QuietStep ==
  /\ Quiet
  /\ \/ SamePointers
     \/ \E f \in Field : Arrow(f) /\ UNCHANGED meant
     \/ expression.kind = "struct" /\ PointerTo(expression.ref, stands[expression.ref])
MentionStep(t, c) ==
  /\ Means(t, c) /\ Mention(t, c) /\ Named(t) /\ verdict = "none"
  /\ c = OwnMeaning(t) => c = InnermostMeaning(t) \/ defining = 0
  /\ SamePointers \/ PointerTo(NamedStruct(t), OrNew(c))
OpenStep == OpenBlock /\ tags' = Append(tags, OwnTags) /\ UNCHANGED <<completion, stands, meant, agree>>
CloseStep == CloseBlock /\ tags' = SubSeq(tags, 1, Top - 1) /\ UNCHANGED <<completion, stands, meant, agree>>

LEMMA SameObjects ==
  ASSUME NEW d, TypeInv(d), UNCHANGED <<scopes, structTypes>>
  PROVE  KeepsObjects /\ SameScopes /\ Len(structTypes') = Len(structTypes)
BY TypeFacts DEF KeepsObjects, SameScopes

LEMMA OtherSteps ==
  ASSUME NEW d, TypeInv(d), Others
  PROVE  QuietStep /\ TypeInv(d)'
<1>0. UNCHANGED meaningVars
  BY DEF Others
<1>1. ASSUME NEW f \in Field, AddInt(f) PROVE QuietStep /\ TypeInv(d)'
  <2>1. KeepsObjects /\ Len(structTypes') = Len(structTypes) /\ TypeInv(d)'
    BY <1>0, <1>1, AddIntTypes
  <2>2. UNCHANGED <<scopes, pointerTypes, tags, completion, stands, meant, agree>>
    BY <1>0, <1>1 DEF AddInt, meaningVars
  <2> QED
    BY <2>1, <2>2 DEF QuietStep, Quiet, SameScopes, SamePointers
<1>2. ASSUME NEW f \in Field, NEW g \in Field, CombineWith(f, g) PROVE QuietStep /\ TypeInv(d)'
  <2>1. KeepsObjects /\ Len(structTypes') = Len(structTypes) /\ TypeInv(d)'
    BY <1>0, <1>2, CombineWithTypes
  <2>2. UNCHANGED <<scopes, pointerTypes, tags, completion, stands, meant, agree>>
    BY <1>0, <1>2 DEF CombineWith, meaningVars
  <2> QED
    BY <2>1, <2>2 DEF QuietStep, Quiet, SameScopes, SamePointers
<1>3. ASSUME UNCHANGED <<scopes, structTypes>>, SamePointers \/ \E f \in Field : Arrow(f)
      PROVE  QuietStep
  <2>1. UNCHANGED <<tags, completion, stands, meant, agree>>
    BY <1>0 DEF meaningVars
  <2> QED
    BY <1>3, <2>1, SameObjects DEF QuietStep, Quiet
<1>4. ASSUME NEW f \in Field, Dot(f) PROVE QuietStep /\ TypeInv(d)'
  <2>1. UNCHANGED <<scopes, structTypes>> /\ SamePointers
    BY <1>0, <1>4 DEF Dot, SamePointers, meaningVars
  <2> QED
    BY <1>0, <1>3, <1>4, <2>1, DotTypes
<1>5. ASSUME NEW f \in Field, Arrow(f) PROVE QuietStep /\ TypeInv(d)'
  <2>1. UNCHANGED <<scopes, structTypes>>
    BY <1>5 DEF Arrow
  <2> QED
    BY <1>0, <1>3, <1>5, <2>1, ArrowTypes
<1>6. ASSUME NEW n \in Name, Refer(n) PROVE QuietStep /\ TypeInv(d)'
  <2>1. UNCHANGED <<scopes, structTypes>> /\ SamePointers
    BY <1>0, <1>6 DEF Refer, SamePointers, meaningVars
  <2> QED
    BY <1>0, <1>3, <1>6, <2>1, ReferTypes
<1>7. ASSUME Dereference \/ Index PROVE QuietStep /\ TypeInv(d)'
  <2>1. UNCHANGED <<scopes, structTypes>> /\ SamePointers
    BY <1>0, <1>7 DEF Dereference, Index, SamePointers, meaningVars
  <2> QED
    BY <1>0, <1>3, <1>7, <2>1, DereferenceTypes
<1>8. ASSUME Sizeof PROVE QuietStep /\ TypeInv(d)'
  <2>1. UNCHANGED <<scopes, structTypes>> /\ SamePointers
    BY <1>0, <1>8 DEF Sizeof, SamePointers, meaningVars
  <2> QED
    BY <1>0, <1>3, <1>8, <2>1, SizeofTypes
<1> QED
  BY <1>1, <1>2, <1>4, <1>5, <1>6, <1>7, <1>8 DEF Others

LEMMA AddressStep ==
  ASSUME NEW d, TypeInv(d), TakeAddress
  PROVE  QuietStep /\ TypeInv(d)'
<1>1. /\ UNCHANGED <<scopes, structTypes, tags, completion, stands, agree>>
      /\ expression.kind = "struct" /\ PointerTo(expression.ref, stands[expression.ref])
  BY DEF TakeAddress, Reference, PointerTo
<1> QED
  BY <1>1, AddressTypes, SameObjects DEF QuietStep, Quiet

LEMMA MentionSteps ==
  ASSUME NEW d, TypeInv(d), Mentions
  PROVE  \/ QuietStep /\ TypeInv(d)'
         \/ \E t \in Tag, c \in 0..Len(completion) : MentionStep(t, c) /\ TypeInv(d)'
         \/ \E t \in Tag : Define(t)
<1> DEFINE Goal == \/ QuietStep /\ TypeInv(d)'
                   \/ \E t \in Tag, c \in 0..Len(completion) : MentionStep(t, c) /\ TypeInv(d)'
                   \/ \E t \in Tag : Define(t)
<1>0. \A t \in Tag : InnermostMeaning(t) \in 0..Len(completion) /\ OwnMeaning(t) \in 0..Len(completion)
  BY FoundMeaning
<1>1. ASSUME NEW t \in Tag, DeclareTag(t), Mention(t, OwnMeaning(t)), UNCHANGED meant
      PROVE  Goal
  <2>1. /\ verdict = "none" /\ defining = 0 /\ UNCHANGED <<defining, pointerTypes, operators, verdict>>
        /\ declared' = declared + 1 /\ expression' = NoType /\ AddNamedStruct(t, scopes)
    BY <1>1 DEF DeclareTag, IsDeclaration, Ready
  <2>2. agree' \in BOOLEAN
    BY <1>1 DEF Mention
  <2>3. ReadsTypes
    BY <2>1, <2>2 DEF ReadsTypes, TypeInv, ScopesTypeOK, StructTypeOK, NoType, Type
  <2>4. Means(t, OwnMeaning(t))
    BY DEF Means
  <2>5. Named(t) /\ TypeInv(d)'
    BY <1>1, <2>1, <2>3, <2>4, DeclareTagTypes
  <2> QED
    BY <1>0, <1>1, <2>1, <2>4, <2>5 DEF MentionStep, SamePointers
<1>2. ASSUME NEW t \in Tag, SizeofType(t), MentionStruct(t)
      PROVE  Goal
  <2>1. /\ verdict = "none" /\ defining = 0 /\ UNCHANGED <<defining, pointerTypes, declared, verdict>>
        /\ operators' = operators + 1 /\ expression' = IntType /\ AddNamedStruct(t, scopes)
    BY <1>2 DEF SizeofType, IsOperator, Ready, Result
  <2>2. Mention(t, InnermostMeaning(t)) /\ UNCHANGED meant
    BY <1>2 DEF MentionStruct
  <2>3. ReadsTypes
    BY <2>1, <2>2 DEF ReadsTypes, TypeInv, ScopesTypeOK, StructTypeOK, IntType, Type, Mention
  <2>4. Means(t, InnermostMeaning(t))
    BY DEF Means
  <2>5. Named(t) /\ TypeInv(d)'
    BY <2>1, <2>2, <2>3, <2>4, DeclareTagTypes
  <2> QED
    BY <1>0, <2>1, <2>2, <2>4, <2>5 DEF MentionStep, SamePointers
<1>3. ASSUME NEW t \in Tag, NEW n \in Name, Declare(n, "struct", t), MentionStruct(t)
      PROVE  Goal
  <2>1. Mention(t, InnermostMeaning(t)) /\ UNCHANGED meant /\ Means(t, InnermostMeaning(t))
    BY <1>3 DEF MentionStruct, Means
  <2>2. Named(t) /\ TypeInv(d)'
    BY <1>3, <2>1, DeclareTypes
  <2>3. verdict = "none" /\ UNCHANGED pointerTypes
    BY <1>3 DEF Declare, IsDeclaration, Ready
  <2> QED
    BY <1>0, <2>1, <2>2, <2>3 DEF MentionStep, SamePointers
<1>4. ASSUME NEW t \in Tag, NEW n \in Name, NEW kind \in {"pointer", "function"}, Declare(n, kind, t),
             MentionPointer(t)
      PROVE  Goal
  <2>1. /\ Mention(t, InnermostMeaning(t)) /\ meant' = Append(meant, OrNew(InnermostMeaning(t)))
        /\ Means(t, InnermostMeaning(t)) /\ kind # "struct"
    BY <1>4 DEF MentionPointer, Means
  <2>2. Named(t) /\ TypeInv(d)'
    BY <1>4, <2>1, DeclareTypes
  <2>3. verdict = "none" /\ pointerTypes' = Append(pointerTypes, NamedStruct(t))
    BY <1>4, <2>1 DEF Declare, IsDeclaration, Ready
  <2> QED
    BY <1>0, <2>1, <2>2, <2>3 DEF MentionStep, PointerTo
<1>5. ASSUME NEW t \in Tag, NEW f \in Field, AddPointer(f, t), MentionPointer(t)
      PROVE  Goal
  <2>1. /\ Mention(t, InnermostMeaning(t)) /\ meant' = Append(meant, OrNew(InnermostMeaning(t)))
        /\ Means(t, InnermostMeaning(t))
    BY <1>5 DEF MentionPointer, Means
  <2>2. Named(t) /\ TypeInv(d)'
    BY <1>5, <2>1, AddPointerTypes
  <2>3. verdict = "none" /\ pointerTypes' = Append(pointerTypes, NamedStruct(t))
    BY <1>5 DEF AddPointer, IsComponent
  <2> QED
    BY <1>0, <2>1, <2>2, <2>3 DEF MentionStep, PointerTo
<1>6. ASSUME NEW t \in Tag, NEW f \in Field, AddStruct(f, t), IsVisible(t), MentionStruct(t)
      PROVE  Goal
  <2>1. Mention(t, InnermostMeaning(t)) /\ UNCHANGED meant /\ Means(t, InnermostMeaning(t))
    BY <1>6 DEF MentionStruct, Means
  <2>2. Named(t) /\ TypeInv(d)'
    BY <1>6, <2>1, AddStructTypes
  <2>3. verdict = "none" /\ UNCHANGED pointerTypes
    BY <1>6 DEF AddStruct, IsComponent
  <2> QED
    BY <1>0, <2>1, <2>2, <2>3 DEF MentionStep, SamePointers
<1>7. ASSUME NEW t \in Tag, NEW f \in Field, AddStruct(f, t), ~IsVisible(t), UNCHANGED meaningVars
      PROVE  Goal
  <2>1. TypeInv(d)' /\ UNCHANGED <<scopes, structTypes, pointerTypes>>
    BY <1>7, RejectedTypes
  <2>2. QuietStep
    BY <1>7, <2>1, SameObjects DEF QuietStep, Quiet, SamePointers, meaningVars
  <2> QED
    BY <2>1, <2>2
<1> QED
  BY <1>1, <1>2, <1>3, <1>4, <1>5, <1>6, <1>7 DEF Mentions

LEMMA Steps ==
  ASSUME NEW d, TypeInv(d), CheckedNext
  PROVE  \/ QuietStep /\ TypeInv(d)'
         \/ \E t \in Tag, c \in 0..Len(completion) : MentionStep(t, c) /\ TypeInv(d)'
         \/ \E t \in Tag : Define(t) /\ d = 0
         \/ OpenStep \/ CloseStep \/ Complete
<1>1. CASE Block
  BY <1>1 DEF Block, OpenStep, CloseStep
<1>2. CASE Mentions
  <2>1. ASSUME NEW t \in Tag, Define(t) PROVE d = 0
    BY <2>1 DEF Define, StartStruct, Ready, TypeInv
  <2> QED
    BY <1>2, <2>1, MentionSteps
<1>3. CASE TakeAddress
  BY <1>3, AddressStep
<1>4. CASE Others
  BY <1>4, OtherSteps
<1> QED
  BY <1>1, <1>2, <1>3, <1>4 DEF CheckedNext

(* Agreement with C *)

LEMMA TagOfObject ==
  ASSUME NEW d, TypeInv(d), NEW s \in 1..Len(structTypes)
  PROVE  structTypes[s].tag \in Tag /\ structTypes[s].scope_counter \in Nat
<1>1. structTypes[s] \in StructType
  BY TypeFacts
<1> QED
  BY <1>1 DEF StructType

\* The struct that is visible stands for the one of its scope.
LEMMA FoundStandsForTag ==
  ASSUME NEW d, TypeInv(d), Agrees(d), NEW t \in Tag, IsVisible(t)
  PROVE  \E k \in 1..Top : /\ GetStructType(t) = scopes[k].structs[t]
                           /\ GetStructType(t) \in 1..Len(structTypes)
                           /\ stands[GetStructType(t)] = tags[k][t]
                           /\ tags[k][t] \in 1..Len(completion)
                           /\ \A j \in (k + 1)..Top : scopes[j].structs[t] = 0
<1>1. PICK k \in 1..Top : /\ GetStructType(t) = scopes[k].structs[t]
                          /\ scopes[k].structs[t] \in 1..Len(structTypes)
                          /\ \A j \in (k + 1)..Top : scopes[j].structs[t] = 0
  BY FoundStruct
<1>2. Len(structTypes) \in Nat /\ \A s \in 1..Len(structTypes) : stands[s] \in 1..Len(completion)
  BY TypeFacts
<1>3. scopes[k].structs[t] # 0
  BY <1>1, <1>2
<1>4. stands[scopes[k].structs[t]] = tags[k][t]
  BY <1>3 DEF Agrees
<1> QED
  BY <1>1, <1>2, <1>4

LEMMA QuietAgrees ==
  ASSUME NEW d, TypeInv(d), Quiet
  PROVE  /\ OnePlace => OnePlace'
         /\ Agrees(d) => Agrees(d)'
<1>1. Top' = Top /\ Top \in Nat /\ Len(structTypes) \in Nat /\ d \in 0..Len(structTypes) /\ Len(completion) \in Nat
  BY TypeFacts DEF Quiet, SameScopes, Top
<1>2. OnePlace => OnePlace'
  BY <1>1 DEF OnePlace, Quiet
<1>3. ASSUME Agrees(d) PROVE Agrees(d)'
  <2>1. \A s \in 1..Len(structTypes) : /\ structTypes'[s].tag = structTypes[s].tag
                                       /\ structTypes'[s].scope_counter = structTypes[s].scope_counter
                                       /\ structTypes'[s].complete = structTypes[s].complete
    BY DEF Quiet, KeepsObjects
  <2>2. \A i \in 1..Top, u \in Tag : scopes'[i].structs[u] = scopes[i].structs[u]
    BY DEF Quiet, SameScopes
  <2>3. d # 0 => d \in 1..Len(structTypes)
    BY <1>1
  <2>4. UNCHANGED <<tags, completion, stands>> /\ Len(structTypes') = Len(structTypes)
    BY DEF Quiet
  <2>5. completion \in Seq(0..Len(structTypes))
    BY TypeFacts
  <2>6. \A c \in Struct : completion[c] # 0 => completion[c] \in 1..Len(structTypes)
    BY <2>5, <1>1, ElementsOf DEF Struct
  <2>a. (\A i \in 1..Top, t \in Tag :
       /\ scopes[i].structs[t] # 0 => stands[scopes[i].structs[t]] = tags[i][t]
       /\ tags[i][t] # 0 /\ scopes[i].structs[t] = 0 =>
            d # 0 /\ i = Top /\ structTypes[d].tag = t
       /\ tags[i][t] # 0 /\ completion[tags[i][t]] # 0 =>
            scopes[i].structs[t] = completion[tags[i][t]])'
    BY <1>1, <1>3, <2>1, <2>2, <2>3, <2>4 DEF Agrees
  <2>b. (\A s \in 1..Len(structTypes), i \in 1..Top, t \in Tag :
       stands[s] = tags[i][t] => structTypes[s].tag = t /\ structTypes[s].scope_counter = i - 1)'
    BY <1>1, <1>3, <2>1, <2>4 DEF Agrees
  <2>c. (\A s \in 1..Len(structTypes) :
       structTypes[s].complete /\ s # d => completion[stands[s]] = s)'
    BY <1>3, <2>1, <2>4 DEF Agrees
  <2>d. (\A c \in Struct : completion[c] # 0 => structTypes[completion[c]].complete)'
    BY <1>3, <2>1, <2>4, <2>6 DEF Agrees, Struct
  <2>e. (d # 0 => stands[d] = tags[Top][structTypes[d].tag])'
    BY <1>1, <1>3, <2>1, <2>3, <2>4 DEF Agrees
  <2> QED
    BY <2>a, <2>b, <2>c, <2>d, <2>e DEF Agrees
<1> QED
  BY <1>2, <1>3

\* If it agrees with C, a visible struct is the one that is mentioned.
LEMMA VisibleMention ==
  ASSUME NEW d, TypeInv(d), Agrees(d), agree, agree', NEW t \in Tag, NEW c \in 0..Len(completion),
         MentionStep(t, c), IsVisible(t)
  PROVE  Quiet /\ c # 0 /\ stands[GetStructType(t)] = c
<1>1. PICK k \in 1..Top : /\ GetStructType(t) \in 1..Len(structTypes)
                          /\ stands[GetStructType(t)] = tags[k][t] /\ tags[k][t] \in 1..Len(completion)
  BY FoundStandsForTag
<1>2. stands[GetStructType(t)] = OrNew(c) /\ Len(completion) \in Nat
  BY TypeFacts DEF MentionStep, Mention
<1>3. c # 0 /\ OrNew(c) = c
  BY <1>1, <1>2 DEF OrNew
<1>4. UNCHANGED <<completion, stands>> /\ agree' = agree /\ tags' = [tags EXCEPT ![Top][t] = @]
  BY <1>3 DEF MentionStep, Mention
<1>5. tags' = tags
  <2>1. tags \in [1..Top -> [Tag -> 0..Len(completion)]] /\ Top \in Nat
    BY TypeFacts
  <2> QED
    BY <1>4, <2>1
<1>6. KeepsObjects /\ SameScopes /\ Len(structTypes') = Len(structTypes)
  BY DEF MentionStep, Named, SameScopes
<1> QED
  BY <1>2, <1>3, <1>4, <1>5, <1>6 DEF Quiet

\* A new object, for the struct of the innermost scope.
NewStruct(t, c, n) ==
  /\ n = Len(structTypes) + 1 /\ KeepsObjects /\ Len(structTypes') = n
  /\ structTypes'[n].tag = t /\ structTypes'[n].scope_counter = Depth
  /\ c = tags[Top][t]
  /\ Len(scopes') = Len(scopes) /\ Len(tags') = Len(tags)
  /\ \A i \in 1..Top, u \in Tag : tags'[i][u] = IF i = Top /\ u = t THEN OrNew(c) ELSE tags[i][u]
  /\ completion' = IF c = 0 THEN Append(completion, 0) ELSE completion
  /\ Len(stands') = n /\ stands'[n] = OrNew(c)
  /\ \A s \in 1..Len(structTypes) : stands'[s] = stands[s]

LEMMA NewPlace ==
  ASSUME NEW d, TypeInv(d), OnePlace, NEW t \in Tag, NEW c \in 0..Len(completion),
         Len(scopes') = Len(scopes),
         \A i \in 1..Top, u \in Tag :
           tags'[i][u] = IF i = Top /\ u = t /\ c = 0 THEN OrNew(c) ELSE tags[i][u]
  PROVE  OnePlace'
<1>1. Top' = Top /\ Top \in Nat /\ Len(completion) \in Nat
  BY TypeFacts DEF Top
<1>2. \A i \in 1..Top, u \in Tag : tags[i][u] # Len(completion) + 1
  BY <1>1, TypeFacts
<1>3. c = 0 => OrNew(c) = Len(completion) + 1
  BY DEF OrNew
<1> SUFFICES ASSUME NEW i \in 1..Top, NEW j \in 1..Top, NEW u \in Tag, NEW v \in Tag,
                    tags'[i][u] = tags'[j][v], tags'[i][u] # 0
             PROVE  i = j /\ u = v
  BY <1>1 DEF OnePlace
<1> QED
  BY <1>2, <1>3 DEF OnePlace

\* What holds of a new object, whether in definition or not.
LEMMA NewStructAgrees ==
  ASSUME NEW d, TypeInv(d), OnePlace, Agrees(d), NEW t \in Tag, NEW c \in 0..Len(completion),
         NEW n, NewStruct(t, c, n)
  PROVE  /\ (\A s \in 1..Len(structTypes), i \in 1..Top, u \in Tag :
               stands[s] = tags[i][u] => structTypes[s].tag = u /\ structTypes[s].scope_counter = i - 1)'
         /\ (\A e \in Struct : completion[e] # 0 => structTypes[completion[e]].complete)'
         /\ \A s \in 1..Len(structTypes) : structTypes[s].complete /\ s # d => completion'[stands'[s]] = s
         /\ \A i \in 1..Top, u \in Tag :
              /\ tags[i][u] # 0 => tags'[i][u] = tags[i][u]
              /\ tags'[i][u] # 0 /\ completion'[tags'[i][u]] # 0 =>
                   tags[i][u] = tags'[i][u] /\ completion[tags[i][u]] = completion'[tags'[i][u]]
<1>1. /\ Top' = Top /\ Top \in Nat \ {0} /\ Len(completion) \in Nat /\ Len(structTypes) \in Nat
      /\ Depth = Top - 1
      /\ completion \in Seq(0..Len(structTypes))
      /\ \A s \in 1..Len(structTypes) : stands[s] \in 1..Len(completion)
      /\ \A i \in 1..Top, u \in Tag : tags[i][u] \in 0..Len(completion)
  BY TypeFacts DEF Top, NewStruct
<1>2. /\ Len(completion') = IF c = 0 THEN Len(completion) + 1 ELSE Len(completion)
      /\ c = 0 => completion'[Len(completion) + 1] = 0 /\ OrNew(c) = Len(completion) + 1
      /\ c # 0 => OrNew(c) = c
      /\ \A e \in 1..Len(completion) : completion'[e] = completion[e]
      /\ \A e \in 1..Len(completion) : completion[e] \in 0..Len(structTypes)
  BY <1>1, Appended, ElementsOf, SMTT(20) DEF NewStruct, OrNew
<1>3. /\ Len(structTypes') = n /\ n = Len(structTypes) + 1 /\ c = tags[Top][t]
      /\ structTypes'[n].tag = t /\ structTypes'[n].scope_counter = Depth /\ stands'[n] = OrNew(c)
      /\ \A s \in 1..Len(structTypes) : /\ stands'[s] = stands[s]
                                        /\ structTypes'[s].tag = structTypes[s].tag
                                        /\ structTypes'[s].scope_counter = structTypes[s].scope_counter
                                        /\ structTypes'[s].complete = structTypes[s].complete
      /\ \A i \in 1..Top, u \in Tag : tags'[i][u] = IF i = Top /\ u = t THEN OrNew(c) ELSE tags[i][u]
  BY DEF NewStruct, KeepsObjects
<1>4. ASSUME NEW s \in 1..n, NEW i \in 1..Top, NEW u \in Tag, stands'[s] = tags'[i][u]
      PROVE  structTypes'[s].tag = u /\ structTypes'[s].scope_counter = i - 1
  <2>1. CASE s = n
    <3>1. i = Top /\ u = t
      <4>1. CASE c = 0
        BY <1>1, <1>2, <1>3, <1>4, <2>1, <4>1, SMTT(20)
      <4>2. CASE c # 0
        BY <1>1, <1>2, <1>3, <1>4, <2>1, <4>2 DEF OnePlace
      <4> QED
        BY <4>1, <4>2
    <3> QED
      BY <1>1, <1>3, <2>1, <3>1
  <2>2. CASE s # n
    <3>1. s \in 1..Len(structTypes)
      BY <1>1, <1>3, <2>2
    <3>2. stands[s] = tags[i][u]
      BY <1>1, <1>2, <1>3, <1>4, <3>1
    <3> QED
      BY <1>3, <3>1, <3>2 DEF Agrees
  <2> QED
    BY <2>1, <2>2
<1>5. ASSUME NEW e \in 1..Len(completion'), completion'[e] # 0
      PROVE  structTypes'[completion'[e]].complete
  <2>1. e \in 1..Len(completion) /\ completion'[e] = completion[e] /\ completion[e] \in 1..Len(structTypes)
    BY <1>1, <1>2, <1>5
  <2> QED
    BY <1>3, <1>5, <2>1 DEF Agrees, Struct
<1>6. \A s \in 1..Len(structTypes) : structTypes[s].complete /\ s # d => completion'[stands'[s]] = s
  BY <1>1, <1>2, <1>3, SMTT(20) DEF Agrees
<1>7. ASSUME NEW i \in 1..Top, NEW u \in Tag
      PROVE  /\ tags[i][u] # 0 => tags'[i][u] = tags[i][u]
             /\ tags'[i][u] # 0 /\ completion'[tags'[i][u]] # 0 =>
                  tags[i][u] = tags'[i][u] /\ completion[tags[i][u]] = completion'[tags'[i][u]]
  <2>1. tags[i][u] \in 0..Len(completion)
    BY <1>1
  <2>2. CASE c = 0 /\ i = Top /\ u = t
    BY <1>1, <1>2, <1>3, <2>2
  <2>3. CASE ~(c = 0 /\ i = Top /\ u = t)
    <3>1. tags'[i][u] = tags[i][u]
      BY <1>2, <1>3, <2>3
    <3>2. tags[i][u] # 0 => completion'[tags[i][u]] = completion[tags[i][u]]
      BY <1>1, <1>2, <2>1
    <3> QED
      BY <3>1, <3>2
  <2> QED
    BY <2>2, <2>3
<1> QED
  BY <1>1, <1>3, <1>4, <1>5, <1>6, <1>7 DEF Struct

LEMMA MentionPlace ==
  ASSUME NEW d, TypeInv(d), OnePlace, NEW t \in Tag, NEW c \in 0..Len(completion), MentionStep(t, c)
  PROVE  /\ OnePlace' /\ Len(tags') = Len(tags)
         /\ \A i \in 1..Top, u \in Tag :
              tags'[i][u] = IF i = Top /\ u = t /\ c = 0 THEN OrNew(c) ELSE tags[i][u]
<1>1. tags' = [tags EXCEPT ![Top][t] = IF c = 0 THEN OrNew(c) ELSE @] /\ Len(scopes') = Len(scopes)
  BY DEF MentionStep, Mention, Named
<1>2. tags \in [1..Top -> [Tag -> 0..Len(completion)]] /\ Top \in Nat \ {0} /\ Len(tags) = Top
  BY TypeFacts
<1>3. \A i \in 1..Top, u \in Tag :
        tags'[i][u] = IF i = Top /\ u = t /\ c = 0 THEN OrNew(c) ELSE tags[i][u]
  BY <1>1, <1>2
<1>4. Len(tags') = Len(tags)
  BY <1>1, <1>2
<1> QED
  BY <1>1, <1>3, <1>4, NewPlace

\* A tag that is not visible, and then means the struct of the innermost scope.
LEMMA HiddenMention ==
  ASSUME NEW d, TypeInv(d), OnePlace, Agrees(d), NEW t \in Tag, NEW c \in 0..Len(completion),
         MentionStep(t, c), ~IsVisible(t)
  PROVE  NewStruct(t, c, Len(structTypes) + 1) /\ ~structTypes'[Len(structTypes) + 1].complete
<1>1. \A i \in 1..Top : scopes[i].structs[t] = 0
  BY DEF IsVisible, Declares
<1>2. Top \in Nat \ {0} /\ Len(stands) = Len(structTypes) /\ Len(structTypes) \in Nat
  BY TypeFacts
<1>3. c = tags[Top][t]
  <2>1. CASE c = OwnMeaning(t)
    BY <2>1 DEF OwnMeaning
  <2>2. CASE c = InnermostMeaning(t)
    <3>1. CASE c = 0
      <4>1. \A i \in 1..Top : tags[i][t] = 0
        BY <2>2, <3>1, FoundMeaning
      <4> QED
        BY <1>2, <3>1, <4>1
    <3>2. CASE c # 0
      <4>1. PICK j \in 1..Top : c = tags[j][t]
        BY <2>2, <3>2, FoundMeaning
      <4>2. scopes[j].structs[t] = 0 /\ tags[j][t] # 0
        BY <1>1, <3>2, <4>1
      <4>3. j = Top
        BY <4>2 DEF Agrees
      <4> QED
        BY <4>1, <4>3
    <3> QED
      BY <3>1, <3>2
  <2> QED
    BY <2>1, <2>2 DEF MentionStep, Means
<1>4. c # 0 => OrNew(c) = c
  BY DEF OrNew
<1>5. /\ Len(tags') = Len(tags)
      /\ \A i \in 1..Top, u \in Tag : tags'[i][u] = IF i = Top /\ u = t THEN OrNew(c) ELSE tags[i][u]
  BY <1>3, <1>4, MentionPlace
<1>6. /\ completion' = IF c = 0 THEN Append(completion, 0) ELSE completion
      /\ stands' = Append(stands, OrNew(c))
  BY DEF MentionStep, Mention
<1>7. /\ Len(stands') = Len(structTypes) + 1 /\ stands'[Len(structTypes) + 1] = OrNew(c)
      /\ \A s \in 1..Len(structTypes) : stands'[s] = stands[s]
  <2>1. stands \in Seq(1..Len(completion)) /\ Len(completion) \in Nat
    BY TypeFacts
  <2>2. OrNew(c) \in Nat /\ stands \in Seq(Nat)
    BY <2>1 DEF OrNew
  <2> QED
    BY <1>2, <1>6, <2>2, Appended
<1>8. /\ KeepsObjects /\ Len(scopes') = Len(scopes)
      /\ Len(structTypes') = Len(structTypes) + 1
      /\ structTypes'[Len(structTypes) + 1].tag = t /\ ~structTypes'[Len(structTypes) + 1].complete
      /\ structTypes'[Len(structTypes) + 1].scope_counter = Depth
  BY DEF MentionStep, Named
<1> QED
  BY <1>3, <1>5, <1>6, <1>7, <1>8 DEF NewStruct

LEMMA HiddenMentionAgrees ==
  ASSUME NEW d, TypeInv(d), OnePlace, Agrees(d), NEW t \in Tag, NEW c \in 0..Len(completion),
         MentionStep(t, c), ~IsVisible(t)
  PROVE  Agrees(d)'
<1>1. PICK n : n = Len(structTypes) + 1
  OBVIOUS
<1>2. NewStruct(t, c, n) /\ ~structTypes'[n].complete
  BY <1>1, HiddenMention
<1>3. /\ Top' = Top /\ Top \in Nat \ {0} /\ Len(structTypes) \in Nat /\ d \in 0..Len(structTypes)
      /\ \A i \in 1..Top, u \in Tag : scopes[i].structs[u] \in 0..Len(structTypes)
      /\ \A s \in 1..Len(structTypes) : stands[s] \in 1..Len(completion)
  BY <1>2, TypeFacts DEF NewStruct, Top
<1>4. /\ (\A s \in 1..Len(structTypes), i \in 1..Top, u \in Tag :
               stands[s] = tags[i][u] => structTypes[s].tag = u /\ structTypes[s].scope_counter = i - 1)'
      /\ (\A e \in Struct : completion[e] # 0 => structTypes[completion[e]].complete)'
      /\ \A s \in 1..Len(structTypes) : structTypes[s].complete /\ s # d => completion'[stands'[s]] = s
      /\ \A i \in 1..Top, u \in Tag :
           /\ tags[i][u] # 0 => tags'[i][u] = tags[i][u]
           /\ tags'[i][u] # 0 /\ completion'[tags'[i][u]] # 0 =>
                tags[i][u] = tags'[i][u] /\ completion[tags[i][u]] = completion'[tags'[i][u]]
  BY ONLY <1>2, NewStructAgrees, TypeInv(d), OnePlace, Agrees(d), t \in Tag, c \in 0..Len(completion)
<1>5. /\ \A i \in 1..Top, u \in Tag :
           scopes'[i].structs[u] = IF i = Top /\ u = t THEN n ELSE scopes[i].structs[u]
      /\ scopes[Top].structs[t] = 0
  BY <1>1, <1>3, SMTT(20) DEF MentionStep, Named, IsVisible, Declares
<1>6. /\ stands'[n] = OrNew(c) /\ n # 0
      /\ \A i \in 1..Top, u \in Tag : tags'[i][u] = IF i = Top /\ u = t THEN OrNew(c) ELSE tags[i][u]
      /\ \A s \in 1..Len(structTypes) : /\ stands'[s] = stands[s] /\ structTypes'[s].tag = structTypes[s].tag
                                        /\ structTypes'[s].complete = structTypes[s].complete
      /\ Len(structTypes') = n
  BY <1>1, <1>2, <1>3 DEF NewStruct, KeepsObjects
<1>7. ASSUME NEW i \in 1..Top, NEW u \in Tag
      PROVE  /\ scopes'[i].structs[u] # 0 => stands'[scopes'[i].structs[u]] = tags'[i][u]
             /\ tags'[i][u] # 0 /\ scopes'[i].structs[u] = 0 =>
                  d # 0 /\ i = Top /\ structTypes'[d].tag = u
             /\ tags'[i][u] # 0 /\ completion'[tags'[i][u]] # 0 =>
                  scopes'[i].structs[u] = completion'[tags'[i][u]]
  <2>1. /\ scopes[i].structs[u] # 0 => stands[scopes[i].structs[u]] = tags[i][u]
        /\ tags[i][u] # 0 /\ scopes[i].structs[u] = 0 => d # 0 /\ i = Top /\ structTypes[d].tag = u
        /\ tags[i][u] # 0 /\ completion[tags[i][u]] # 0 => scopes[i].structs[u] = completion[tags[i][u]]
    BY DEF Agrees
  <2>2. CASE i = Top /\ u = t
    BY <1>4, <1>5, <1>6, <2>1, <2>2
  <2>3. CASE ~(i = Top /\ u = t)
    <3>1. scopes'[i].structs[u] = scopes[i].structs[u] /\ tags'[i][u] = tags[i][u]
      BY <1>5, <1>6, <2>3
    <3>2. scopes[i].structs[u] # 0 => stands'[scopes[i].structs[u]] = stands[scopes[i].structs[u]]
      BY <1>3, <1>6
    <3>3. d # 0 => structTypes'[d].tag = structTypes[d].tag
      BY <1>3, <1>6
    <3> QED
      BY <1>4, <2>1, <3>1, <3>2, <3>3
  <2> QED
    BY <2>2, <2>3
<1>8. (\A s \in 1..Len(structTypes) : structTypes[s].complete /\ s # d => completion[stands[s]] = s)'
  <2>1. \A s \in 1..n : s \in 1..Len(structTypes) \/ s = n
    BY <1>1, <1>3
  <2> QED
    BY <1>2, <1>4, <1>6, <2>1
<1>9. (d # 0 => stands[d] = tags[Top][structTypes[d].tag])'
  <2>1. ASSUME d # 0 PROVE stands'[d] = tags'[Top][structTypes'[d].tag]
    <3>1. d \in 1..Len(structTypes) /\ stands[d] = tags[Top][structTypes[d].tag] /\ stands[d] # 0
      BY <1>3, <2>1 DEF Agrees
    <3>2. structTypes[d].tag \in Tag
      BY <3>1, TagOfObject
    <3> QED
      BY <1>3, <1>4, <1>6, <3>1, <3>2
  <2> QED
    BY <1>3, <2>1
<1> QED
  BY <1>3, <1>4, <1>7, <1>8, <1>9 DEF Agrees

LEMMA DefineAgrees ==
  ASSUME TypeInv(0), OnePlace, NEW t \in Tag, Define(t), NEW n, n = Len(structTypes) + 1
  PROVE  OnePlace' /\ (Agrees(0) => Agrees(n)')
<1>1. PICK c \in 0..Len(completion) : c = OwnMeaning(t)
  BY FoundMeaning
<1>2. /\ KeepsObjects /\ TypeInv(n)'
      /\ Len(structTypes') = n /\ structTypes'[n].tag = t /\ structTypes'[n].scope_counter = Depth
      /\ Len(stands') = n /\ stands'[n] = OrNew(c)
      /\ \A s \in 1..Len(structTypes) : stands'[s] = stands[s]
      /\ Len(tags') = Len(tags)
      /\ \A i \in 1..Top, u \in Tag :
           tags'[i][u] = IF i = Top /\ u = t THEN OrNew(c) ELSE tags[i][u]
  BY <1>1, DefineTypes
<1>3. /\ UNCHANGED scopes
      /\ completion' = IF c = 0 THEN Append(completion, 0) ELSE completion
      /\ c = tags[Top][t]
  BY <1>1 DEF Define, StartStruct, OwnMeaning
<1>4. NewStruct(t, c, n)
  BY <1>2, <1>3 DEF NewStruct
<1>5. OnePlace'
  <2>1. \A i \in 1..Top, u \in Tag :
          tags'[i][u] = IF i = Top /\ u = t /\ c = 0 THEN OrNew(c) ELSE tags[i][u]
    BY <1>2, <1>3 DEF OrNew
  <2>2. Len(scopes') = Len(scopes)
    BY <1>3
  <2> QED
    BY <2>1, <2>2, NewPlace
<1>6. ASSUME Agrees(0) PROVE Agrees(n)'
  <2>1. /\ Top' = Top /\ Top \in Nat \ {0} /\ Len(structTypes) \in Nat
        /\ \A i \in 1..Top, u \in Tag : scopes[i].structs[u] \in 0..Len(structTypes)
        /\ \A s \in 1..Len(structTypes) : stands[s] \in 1..Len(completion)
    BY <1>3, TypeFacts DEF Top
  <2>2. /\ (\A s \in 1..Len(structTypes), i \in 1..Top, u \in Tag :
               stands[s] = tags[i][u] => structTypes[s].tag = u /\ structTypes[s].scope_counter = i - 1)'
        /\ (\A e \in Struct : completion[e] # 0 => structTypes[completion[e]].complete)'
        /\ \A s \in 1..Len(structTypes) : structTypes[s].complete /\ s # 0 => completion'[stands'[s]] = s
        /\ \A i \in 1..Top, u \in Tag :
             /\ tags[i][u] # 0 => tags'[i][u] = tags[i][u]
             /\ tags'[i][u] # 0 /\ completion'[tags'[i][u]] # 0 =>
                  tags[i][u] = tags'[i][u] /\ completion[tags[i][u]] = completion'[tags'[i][u]]
    BY ONLY <1>4, <1>6, NewStructAgrees, TypeInv(0), OnePlace, t \in Tag, c \in 0..Len(completion)
  <2>3. \A s \in 1..Len(structTypes) : structTypes'[s].complete = structTypes[s].complete
    BY <1>2 DEF KeepsObjects
  <2>4. ASSUME NEW i \in 1..Top, NEW u \in Tag
        PROVE  /\ scopes'[i].structs[u] # 0 => stands'[scopes'[i].structs[u]] = tags'[i][u]
               /\ tags'[i][u] # 0 /\ scopes'[i].structs[u] = 0 =>
                    n # 0 /\ i = Top /\ structTypes'[n].tag = u
               /\ tags'[i][u] # 0 /\ completion'[tags'[i][u]] # 0 =>
                    scopes'[i].structs[u] = completion'[tags'[i][u]]
    <3>1. /\ scopes[i].structs[u] # 0 => stands[scopes[i].structs[u]] = tags[i][u]
          /\ tags[i][u] # 0 => scopes[i].structs[u] # 0
          /\ tags[i][u] # 0 /\ completion[tags[i][u]] # 0 => scopes[i].structs[u] = completion[tags[i][u]]
      BY <1>6 DEF Agrees
    <3>2. scopes[i].structs[u] # 0 => /\ scopes[i].structs[u] \in 1..Len(structTypes)
                                      /\ tags[i][u] # 0
      BY <2>1, <3>1
    <3>3. scopes'[i].structs[u] = scopes[i].structs[u] /\ n # 0
      BY <1>3, <2>1
    <3>4. scopes[i].structs[u] # 0 => stands'[scopes[i].structs[u]] = tags'[i][u]
      BY <1>2, <2>2, <3>1, <3>2
    <3>5. scopes[i].structs[u] = 0 /\ tags'[i][u] # 0 => i = Top /\ u = t
      BY <1>2, <3>1
    <3> QED
      BY <1>2, <2>2, <3>1, <3>3, <3>4, <3>5
  <2>5. (\A s \in 1..Len(structTypes) : structTypes[s].complete /\ s # n => completion[stands[s]] = s)'
    <3>1. \A s \in 1..n : s # n => s \in 1..Len(structTypes) /\ s # 0
      BY <2>1
    <3> QED
      BY <1>2, <2>2, <2>3, <3>1
  <2>6. (n # 0 => stands[n] = tags[Top][structTypes[n].tag])'
    BY <1>2, <2>1
  <2>7. (\A i \in 1..Top, u \in Tag :
           /\ scopes[i].structs[u] # 0 => stands[scopes[i].structs[u]] = tags[i][u]
           /\ tags[i][u] # 0 /\ scopes[i].structs[u] = 0 =>
                n # 0 /\ i = Top /\ structTypes[n].tag = u
           /\ tags[i][u] # 0 /\ completion[tags[i][u]] # 0 =>
                scopes[i].structs[u] = completion[tags[i][u]])'
    BY <2>1, <2>4
  <2> QED
    BY ONLY <2>2, <2>5, <2>6, <2>7 DEF Agrees
<1> QED
  BY <1>5, <1>6

LEMMA CompleteAgrees ==
  ASSUME NEW d, TypeInv(d), OnePlace, Complete, verdict' = "none", TypeInv(0)'
  PROVE  OnePlace' /\ (Agrees(d) => Agrees(0)')
<1>1. /\ d \in 1..Len(structTypes) /\ structTypes[d].tag \in Tag
      /\ UNCHANGED <<structTypes, pointerTypes, tags, stands, meant, agree>>
      /\ Len(scopes') = Len(scopes)
  BY CompleteTypes
<1>2. PICK t : t = structTypes[d].tag
  OBVIOUS
<1>3. /\ Top' = Top /\ Top \in Nat \ {0} /\ Len(structTypes) \in Nat
      /\ \A i \in 1..Top, u \in Tag : /\ scopes[i].structs[u] \in 0..Len(structTypes)
                                      /\ tags[i][u] \in 0..Len(completion)
      /\ stands[d] \in 1..Len(completion) /\ completion \in Seq(0..Len(structTypes))
      /\ Len(completion) \in Nat
  BY <1>1, TypeFacts DEF Top
<1>4. OnePlace'
  BY <1>1, <1>3 DEF OnePlace
<1>5. ASSUME Agrees(d) PROVE Agrees(0)'
  <2>1. PICK c : c = stands[d]
    OBVIOUS
  <2>2. c \in 1..Len(completion) /\ c = tags[Top][t] /\ t \in Tag
    BY <1>1, <1>2, <1>3, <1>5, <2>1 DEF Agrees
  <2>3. TypeInv(d)' \/ /\ ~IsStructDefined(t) /\ completion' = [completion EXCEPT ![c] = d]
                       /\ \A i \in 1..Top, u \in Tag :
                            scopes'[i].structs[u] = IF i = Top /\ u = t THEN d ELSE scopes[i].structs[u]
    BY <1>2, <2>1, CompleteTypes
  <2>4. defining' = 0
    BY DEF Complete, FinishStruct
  <2>5. ~TypeInv(d)'
    <3>1. ASSUME TypeInv(d)' PROVE FALSE
      <4>1. d = defining'
        BY <3>1 DEF TypeInv
      <4> QED
        BY <1>1, <2>4, <4>1
    <3> QED
      BY <3>1
  <2>6. /\ Len(completion') = Len(completion) /\ completion'[c] = d
        /\ \A e \in 1..Len(completion) : e # c => completion'[e] = completion[e]
    BY <1>3, <2>2, <2>3, <2>5
  <2>7. /\ structTypes[d].complete
        /\ \A i \in 1..Top, u \in Tag :
             scopes'[i].structs[u] = IF i = Top /\ u = t THEN d ELSE scopes[i].structs[u]
    BY <1>1, <2>3, <2>5 DEF TypeInv
  <2>8. ASSUME NEW i \in 1..Top, NEW u \in Tag
        PROVE  /\ scopes'[i].structs[u] # 0 => stands[scopes'[i].structs[u]] = tags[i][u]
               /\ ~(tags[i][u] # 0 /\ scopes'[i].structs[u] = 0)
               /\ tags[i][u] # 0 /\ completion'[tags[i][u]] # 0 =>
                    scopes'[i].structs[u] = completion'[tags[i][u]]
    <3>1. /\ scopes[i].structs[u] # 0 => stands[scopes[i].structs[u]] = tags[i][u]
          /\ tags[i][u] # 0 /\ scopes[i].structs[u] = 0 => i = Top /\ u = t
          /\ tags[i][u] # 0 /\ completion[tags[i][u]] # 0 => scopes[i].structs[u] = completion[tags[i][u]]
      BY <1>2, <1>5 DEF Agrees
    <3>2. CASE i = Top /\ u = t
      <4>1. scopes'[i].structs[u] = d /\ d # 0
        BY <1>1, <1>3, <2>7, <3>2
      <4>2. tags[i][u] = c /\ stands[d] = c /\ completion'[c] = d
        BY <2>1, <2>2, <2>6, <3>2
      <4> QED
        BY <4>1, <4>2
    <3>3. CASE ~(i = Top /\ u = t)
      <4>1. tags[i][u] # c
        BY <1>3, <2>2, <3>3 DEF OnePlace
      <4>2. tags[i][u] # 0 => completion'[tags[i][u]] = completion[tags[i][u]]
        BY <1>3, <2>6, <4>1
      <4>3. scopes'[i].structs[u] = scopes[i].structs[u]
        BY <2>7, <3>3
      <4> QED
        BY <3>1, <3>3, <4>2, <4>3
    <3> QED
      BY <3>2, <3>3
  <2>9. ASSUME NEW s \in 1..Len(structTypes), structTypes[s].complete
        PROVE  completion'[stands[s]] = s
    <3>1. CASE s = d
      BY <2>1, <2>6, <3>1
    <3>2. CASE s # d
      <4>1. completion[stands[s]] = s /\ stands[s] \in 1..Len(completion) /\ s # 0
        BY <1>3, <1>5, <2>9, <3>2, TypeFacts DEF Agrees
      <4>2. stands[s] # c
        <5>1. ASSUME stands[s] = c PROVE FALSE
          <6>1. scopes[Top].structs[t] = s
            <7>1. tags[Top][t] = c /\ c # 0 /\ completion[c] = s /\ s # 0 /\ Top \in 1..Top
              BY <1>3, <2>2, <4>1, <5>1
            <7>2. tags[Top][t] # 0 /\ completion[tags[Top][t]] # 0 => scopes[Top].structs[t] = completion[tags[Top][t]]
              BY <1>5, <2>2, <7>1 DEF Agrees
            <7> QED
              BY <7>1, <7>2
          <6>2. IsStructDefined(t)
            BY <2>9, <4>1, <6>1 DEF IsStructDefined
          <6> QED
            BY <2>3, <2>5, <6>2
        <5> QED
          BY <5>1
      <4> QED
        BY <2>6, <4>1, <4>2
    <3> QED
      BY <3>1, <3>2
  <2>10. ASSUME NEW e \in 1..Len(completion), completion'[e] # 0
         PROVE  structTypes[completion'[e]].complete
    <3>1. CASE e = c
      BY <2>6, <2>7, <3>1
    <3>2. CASE e # c
      BY <1>5, <2>6, <2>10, <3>2 DEF Agrees, Struct
    <3> QED
      BY <3>1, <3>2
  <2>11. (\A s \in 1..Len(structTypes), i \in 1..Top, u \in Tag :
       stands[s] = tags[i][u] => structTypes[s].tag = u /\ structTypes[s].scope_counter = i - 1)'
    BY <1>1, <1>3, <1>5 DEF Agrees
  <2>12. Len(structTypes') = Len(structTypes) /\ Struct' = 1..Len(completion)
    BY <1>1, <2>6 DEF Struct
  <2> QED
    BY <1>1, <1>3, <2>8, <2>9, <2>10, <2>11, <2>12 DEF Agrees
<1> QED
  BY <1>4, <1>5

LEMMA OpenAgrees ==
  ASSUME TypeInv(0), OnePlace, OpenStep
  PROVE  OnePlace' /\ (Agrees(0) => Agrees(0)')
<1>1. /\ scopes' = Append(scopes, EmptyScope) /\ tags' = Append(tags, OwnTags)
      /\ UNCHANGED <<structTypes, pointerTypes, completion, stands, meant, agree>>
  BY DEF OpenStep, OpenBlock
<1>2. /\ Top \in Nat \ {0} /\ Len(scopes) = Top /\ Len(tags) = Top
      /\ scopes \in Seq(ScopeRecord(Len(structTypes))) /\ tags \in Seq([Tag -> 0..Len(completion)])
      /\ \A s \in 1..Len(structTypes) : stands[s] \in 1..Len(completion)
  BY TypeFacts
<1>3. /\ Top' = Top + 1
      /\ \A i \in 1..Top : scopes'[i] = scopes[i] /\ tags'[i] = tags[i]
      /\ \A u \in Tag : scopes'[Top + 1].structs[u] = 0 /\ tags'[Top + 1][u] = 0
  BY <1>1, <1>2 DEF Top, EmptyScope, OwnTags
<1>4. \A i \in 1..(Top + 1) : i \in 1..Top \/ i = Top + 1
  BY <1>2
<1>5. OnePlace'
  BY <1>3, <1>4 DEF OnePlace
<1>6. ASSUME Agrees(0) PROVE Agrees(0)'
  <2>1. (\A i \in 1..Top, t \in Tag :
       /\ scopes[i].structs[t] # 0 => stands[scopes[i].structs[t]] = tags[i][t]
       /\ tags[i][t] # 0 /\ scopes[i].structs[t] = 0 =>
            0 # 0 /\ i = Top /\ structTypes[0].tag = t
       /\ tags[i][t] # 0 /\ completion[tags[i][t]] # 0 =>
            scopes[i].structs[t] = completion[tags[i][t]])'
    <3>1. ASSUME NEW i \in 1..(Top + 1), NEW t \in Tag
          PROVE  /\ scopes'[i].structs[t] # 0 => stands[scopes'[i].structs[t]] = tags'[i][t]
                 /\ ~(tags'[i][t] # 0 /\ scopes'[i].structs[t] = 0)
                 /\ tags'[i][t] # 0 /\ completion[tags'[i][t]] # 0 =>
                      scopes'[i].structs[t] = completion[tags'[i][t]]
      <4>1. CASE i = Top + 1
        BY <1>3, <4>1
      <4>2. CASE i \in 1..Top
        <5>1. scopes'[i] = scopes[i] /\ tags'[i] = tags[i]
          BY <1>3, <4>2
        <5> QED
          BY <1>6, <4>2, <5>1 DEF Agrees
      <4> QED
        BY <1>4, <4>1, <4>2
    <3> QED
      BY <1>1, <1>3, <3>1, ZenonT(40)
  <2>2. (\A s \in 1..Len(structTypes), i \in 1..Top, t \in Tag :
       stands[s] = tags[i][t] => structTypes[s].tag = t /\ structTypes[s].scope_counter = i - 1)'
    <3>1. ASSUME NEW s \in 1..Len(structTypes), NEW i \in 1..(Top + 1), NEW t \in Tag,
                 stands[s] = tags'[i][t]
          PROVE  structTypes[s].tag = t /\ structTypes[s].scope_counter = i - 1
      <4>1. stands[s] # 0
        <5>1. completion \in Seq(0..Len(structTypes))
          BY TypeFacts
        <5> QED
          BY <1>2, <5>1
      <4>2. i \in 1..Top
        BY <1>3, <1>4, <3>1, <4>1
      <4>3. stands[s] = tags[i][t]
        BY <1>3, <3>1, <4>2
      <4> QED
        BY <1>6, <4>2, <4>3 DEF Agrees
    <3> QED
      BY <1>1, <1>3, <3>1
  <2> QED
    BY <1>1, <1>6, <2>1, <2>2 DEF Agrees, Struct
<1> QED
  BY <1>5, <1>6

LEMMA CloseAgrees ==
  ASSUME TypeInv(0), OnePlace, CloseStep
  PROVE  OnePlace' /\ (Agrees(0) => Agrees(0)')
<1>1. /\ scopes' = SubSeq(scopes, 1, Top - 1) /\ tags' = SubSeq(tags, 1, Top - 1) /\ Top > 1
      /\ UNCHANGED <<structTypes, pointerTypes, completion, stands, meant, agree>>
  BY DEF CloseStep, CloseBlock
<1>2. /\ Top \in Nat \ {0} /\ Len(scopes) = Top /\ Len(tags) = Top
      /\ scopes \in Seq(ScopeRecord(Len(structTypes))) /\ tags \in Seq([Tag -> 0..Len(completion)])
  BY TypeFacts
<1>3. /\ Top' = Top - 1
      /\ \A i \in 1..(Top - 1) : scopes'[i] = scopes[i] /\ tags'[i] = tags[i]
  BY <1>1, <1>2 DEF Top
<1>4. \A i \in 1..(Top - 1) : i \in 1..Top
  BY <1>2
<1>5. OnePlace'
  BY <1>3, <1>4 DEF OnePlace
<1>6. ASSUME Agrees(0) PROVE Agrees(0)'
  <2>1. (\A i \in 1..Top, t \in Tag :
       /\ scopes[i].structs[t] # 0 => stands[scopes[i].structs[t]] = tags[i][t]
       /\ tags[i][t] # 0 /\ scopes[i].structs[t] = 0 =>
            0 # 0 /\ i = Top /\ structTypes[0].tag = t
       /\ tags[i][t] # 0 /\ completion[tags[i][t]] # 0 =>
            scopes[i].structs[t] = completion[tags[i][t]])'
    <3>1. ASSUME NEW i \in 1..(Top - 1), NEW t \in Tag
          PROVE  /\ scopes'[i].structs[t] # 0 => stands[scopes'[i].structs[t]] = tags'[i][t]
                 /\ ~(tags'[i][t] # 0 /\ scopes'[i].structs[t] = 0)
                 /\ tags'[i][t] # 0 /\ completion[tags'[i][t]] # 0 =>
                      scopes'[i].structs[t] = completion[tags'[i][t]]
      <4>1. scopes'[i] = scopes[i] /\ tags'[i] = tags[i] /\ i \in 1..Top
        BY <1>3, <1>4
      <4> QED
        BY <1>6, <4>1 DEF Agrees
    <3> QED
      BY <1>1, <1>3, <3>1
  <2>2. (\A s \in 1..Len(structTypes), i \in 1..Top, t \in Tag :
       stands[s] = tags[i][t] => structTypes[s].tag = t /\ structTypes[s].scope_counter = i - 1)'
    <3>1. ASSUME NEW s \in 1..Len(structTypes), NEW i \in 1..(Top - 1), NEW t \in Tag,
                 stands[s] = tags'[i][t]
          PROVE  structTypes[s].tag = t /\ structTypes[s].scope_counter = i - 1
      <4>1. stands[s] = tags[i][t] /\ i \in 1..Top
        BY <1>3, <1>4, <3>1
      <4> QED
        BY <1>6, <4>1 DEF Agrees
    <3> QED
      BY <1>1, <1>3, <3>1
  <2> QED
    BY <1>1, <1>6, <2>1, <2>2 DEF Agrees, Struct
<1> QED
  BY <1>5, <1>6

(* Pointers *)

\* A complete struct that getCompleteStruct takes for s completes what s stands for,
\* as long as that is in a scope.
LEMMA FoundForPointer ==
  ASSUME NEW d, TypeInv(d), Agrees(d), NEW s \in 1..Len(structTypes), IsOpen(stands[s]),
         NEW k \in 1..Top, Completes(k, s), NEW x, x = scopes[k].structs[structTypes[s].tag]
  PROVE  /\ x \in 1..Len(structTypes) /\ x # d /\ structTypes[x].complete
         /\ stands[x] = stands[s] /\ completion[stands[s]] = x
<1>1. PICK i \in 1..Top, t \in Tag : tags[i][t] = stands[s]
  BY TypeFacts DEF IsOpen
<1>2. structTypes[s].tag = t /\ structTypes[s].scope_counter = i - 1
  BY <1>1 DEF Agrees
<1>3. /\ x = scopes[k].structs[t] /\ x # 0 /\ structTypes[x].complete
      /\ structTypes[x].scope_counter = i - 1
  BY <1>2 DEF Completes
<1>4. x \in 1..Len(structTypes) /\ Top \in Nat
  <2>1. scopes[k].structs[t] \in 0..Len(structTypes) /\ Len(structTypes) \in Nat /\ Top \in Nat
    BY TypeFacts
  <2> QED
    BY <1>3, <2>1
<1>5. x # d
  BY <1>3 DEF TypeInv, ReferencesOK
<1>6. stands[x] = tags[k][t]
  BY <1>3 DEF Agrees
<1>7. structTypes[x].scope_counter = k - 1
  BY <1>4, <1>6 DEF Agrees
<1>8. k = i
  BY <1>3, <1>4, <1>7
<1>9. stands[x] = stands[s]
  BY <1>1, <1>6, <1>8
<1>10. completion[stands[x]] = x
  BY <1>3, <1>4, <1>5 DEF Agrees
<1> QED
  BY <1>3, <1>4, <1>5, <1>9, <1>10

LEMMA InnerOfPointer ==
  ASSUME NEW d, TypeInv(d), NEW p \in 1..Len(pointerTypes)
  PROVE  /\ pointerTypes[p] \in 1..Len(structTypes) /\ pointerTypes[p] # d
         /\ meant[p] \in 1..Len(completion)
BY TypeFacts DEF TypeInv, ReferencesOK

LEMMA TargetStandsForMeant ==
  ASSUME NEW d, TypeInv(d), Agrees(d), PointersAgree, NEW p \in 1..Len(pointerTypes), IsOpen(meant[p])
  PROVE  /\ stands[ArrowTarget(p)] = meant[p]
         /\ IF completion[meant[p]] = 0 THEN ~structTypes[ArrowTarget(p)].complete
            ELSE ArrowTarget(p) = completion[meant[p]]
<1>1. PICK s, c : s = pointerTypes[p] /\ c = meant[p]
  OBVIOUS
<1>2. s \in 1..Len(structTypes) /\ s # d /\ c \in 1..Len(completion) /\ IsOpen(c)
  BY <1>1, InnerOfPointer
<1>3. stands[s] = c
  BY <1>1 DEF PointersAgree
<1>4. structTypes[s].complete => completion[c] = s
  BY <1>2, <1>3 DEF Agrees
<1>5. s # 0 /\ Top \in Nat
  <2>1. Len(structTypes) \in Nat /\ Top \in Nat
    BY TypeFacts
  <2> QED
    BY <1>2, <2>1
<1>6. CASE structTypes[s].complete
  <2>1. ArrowTarget(p) = s
    BY <1>1, <1>6 DEF ArrowTarget
  <2> QED
    BY <1>1, <1>3, <1>4, <1>5, <1>6, <2>1
<1>7. CASE ~structTypes[s].complete
  <2>1. ArrowTarget(p) = GetCompleteStruct(s)
    BY <1>1, <1>7 DEF ArrowTarget
  <2>2. CASE GetCompleteStruct(s) = s /\ \A k \in 1..Top : ~Completes(k, s)
    <3>1. completion[c] = 0
      <4>1. ASSUME completion[c] # 0 PROVE FALSE
        <5>1. PICK i \in 1..Top, t \in Tag : tags[i][t] = c
          BY <1>2, TypeFacts DEF IsOpen
        <5>2. PICK x : x = completion[c]
          OBVIOUS
        <5>3. c # 0
          <6>1. Len(completion) \in Nat
            BY TypeFacts
          <6> QED
            BY <1>2, <6>1
        <5>4. x # 0 /\ structTypes[x].complete /\ scopes[i].structs[t] = x
          BY <1>2, <4>1, <5>1, <5>2, <5>3 DEF Agrees, Struct
        <5>5. stands[x] = c
          BY <5>1, <5>4 DEF Agrees
        <5>6. x \in 1..Len(structTypes)
          <6>1. scopes[i].structs[t] \in 0..Len(structTypes) /\ Len(structTypes) \in Nat
            BY TypeFacts
          <6> QED
            BY <5>4, <6>1
        <5>7. structTypes[x].scope_counter = i - 1
          BY <5>1, <5>5, <5>6 DEF Agrees
        <5>8. structTypes[s].tag = t /\ structTypes[s].scope_counter = i - 1
          BY <1>2, <1>3, <5>1 DEF Agrees
        <5>9. Completes(i, s)
          BY <5>4, <5>7, <5>8 DEF Completes
        <5> QED
          BY <2>2, <5>9
      <4> QED
        BY <4>1
    <3> QED
      BY <1>1, <1>3, <1>7, <2>1, <2>2, <3>1
  <2>3. CASE \E k \in 1..Top : Completes(k, s) /\ GetCompleteStruct(s) = scopes[k].structs[structTypes[s].tag]
    <3>1. PICK k \in 1..Top : Completes(k, s) /\ GetCompleteStruct(s) = scopes[k].structs[structTypes[s].tag]
      BY <2>3
    <3>2. PICK x : x = GetCompleteStruct(s)
      OBVIOUS
    <3>3. /\ x \in 1..Len(structTypes) /\ structTypes[x].complete
          /\ stands[x] = c /\ completion[c] = x
      BY <1>2, <1>3, <3>1, <3>2, FoundForPointer, SMTT(20)
    <3>4. x # 0
      <4>1. Len(structTypes) \in Nat
        BY TypeFacts
      <4> QED
        BY <3>3, <4>1
    <3> QED
      BY <1>1, <2>1, <3>2, <3>3, <3>4
  <2> QED
    BY <1>2, <2>2, <2>3, CompleteStruct
<1> QED
  BY <1>6, <1>7

\* Pointers agree if new ones do, and old structs only leave their scopes.
LEMMA PointersStay ==
  ASSUME NEW d, TypeInv(d), PointersAgree,
         \A c \in 1..Len(completion) : IsOpen(c)' => IsOpen(c),
         \A s \in 1..Len(structTypes) : stands'[s] = stands[s],
         \A p \in 1..Len(pointerTypes') :
           \/ p \in 1..Len(pointerTypes) /\ pointerTypes'[p] = pointerTypes[p] /\ meant'[p] = meant[p]
           \/ stands'[pointerTypes'[p]] = meant'[p]
           \/ p \in 1..Len(pointerTypes) /\ meant'[p] = meant[p] /\ ~IsOpen(meant[p])
  PROVE  PointersAgree'
<1> SUFFICES ASSUME NEW p \in 1..Len(pointerTypes'), IsOpen(meant[p])'
             PROVE  stands'[pointerTypes'[p]] = meant'[p]
  BY DEF PointersAgree
<1>1. PICK c : c = meant'[p]
  OBVIOUS
<1>2. IsOpen(c)'
  BY <1>1
<1>3. ASSUME p \in 1..Len(pointerTypes), meant'[p] = meant[p]
      PROVE  /\ IsOpen(meant[p]) /\ stands[pointerTypes[p]] = meant[p]
             /\ stands'[pointerTypes[p]] = stands[pointerTypes[p]]
  <2>1. pointerTypes[p] \in 1..Len(structTypes) /\ c \in 1..Len(completion) /\ c = meant[p]
    BY <1>1, <1>3, InnerOfPointer
  <2>2. IsOpen(c)
    BY <1>2, <2>1
  <2> QED
    BY <1>3, <2>1, <2>2 DEF PointersAgree
<1> QED
  BY <1>3

LEMMA OpenStays ==
  ASSUME NEW d, TypeInv(d),
         \A i \in 1..Len(tags'), u \in Tag :
           tags'[i][u] \in 1..Len(completion) => i \in 1..Top /\ tags[i][u] = tags'[i][u]
  PROVE  \A c \in 1..Len(completion) : IsOpen(c)' => IsOpen(c)
BY TypeFacts DEF IsOpen

LEMMA AddedPointer ==
  ASSUME NEW d, TypeInv(d), NEW s \in Nat, NEW c \in Nat,
         SamePointers \/ (PointerTo(s, c) /\ stands'[s] = c)
  PROVE  \A p \in 1..Len(pointerTypes') :
           \/ p \in 1..Len(pointerTypes) /\ pointerTypes'[p] = pointerTypes[p] /\ meant'[p] = meant[p]
           \/ stands'[pointerTypes'[p]] = meant'[p]
<1>1. CASE SamePointers
  BY <1>1 DEF SamePointers
<1>2. CASE PointerTo(s, c) /\ stands'[s] = c
  <2>1. /\ pointerTypes \in Seq(Nat) /\ meant \in Seq(Nat) /\ Len(meant) = Len(pointerTypes)
        /\ Len(pointerTypes) \in Nat
    BY TypeFacts
  <2>2. /\ Len(pointerTypes') = Len(pointerTypes) + 1 /\ pointerTypes'[Len(pointerTypes) + 1] = s
        /\ meant'[Len(pointerTypes) + 1] = c
        /\ \A p \in 1..Len(pointerTypes) : pointerTypes'[p] = pointerTypes[p] /\ meant'[p] = meant[p]
    BY <1>2, <2>1, Appended DEF PointerTo
  <2>3. \A p \in 1..(Len(pointerTypes) + 1) : p \in 1..Len(pointerTypes) \/ p = Len(pointerTypes) + 1
    BY <2>1
  <2> QED
    BY <1>2, <2>2, <2>3
<1> QED
  BY <1>1, <1>2

LEMMA QuietMeaning ==
  ASSUME NEW d, TypeInv(d), MeaningInv(d), QuietStep
  PROVE  MeaningInv(d)'
<1>1. Quiet /\ agree' = agree /\ UNCHANGED <<tags, stands, completion>>
  BY DEF QuietStep, Quiet
<1>2. OnePlace' /\ (Agrees(d) => Agrees(d)')
  BY <1>1, QuietAgrees DEF MeaningInv
<1>3. ASSUME Agrees(d), PointersAgree PROVE PointersAgree'
  <2>1. \A c \in 1..Len(completion) : IsOpen(c)' => IsOpen(c)
    BY <1>1 DEF IsOpen
  <2>2. \A s \in 1..Len(structTypes) : stands'[s] = stands[s]
    BY <1>1
  <2>3. CASE SamePointers
    BY <1>3, <2>1, <2>2, <2>3, PointersStay DEF SamePointers
  <2>4. CASE expression.kind = "struct" /\ PointerTo(expression.ref, stands[expression.ref])
    <3>1. PICK s, c : s = expression.ref /\ c = stands[s]
      OBVIOUS
    <3>2. s \in 1..Len(structTypes)
      BY <2>4, <3>1, ExpressionRefers
    <3>3. c \in 1..Len(completion)
      BY <3>1, <3>2, TypeFacts
    <3>4. s \in Nat /\ c \in Nat
      BY <3>2, <3>3
    <3>5. PointerTo(s, c) /\ stands'[s] = c
      BY <1>1, <2>4, <3>1
    <3>6. \A p \in 1..Len(pointerTypes') :
            \/ p \in 1..Len(pointerTypes) /\ pointerTypes'[p] = pointerTypes[p] /\ meant'[p] = meant[p]
            \/ stands'[pointerTypes'[p]] = meant'[p]
      BY <3>4, <3>5, AddedPointer
    <3> QED
      BY ONLY <1>3, <2>1, <2>2, <3>6, PointersStay, TypeInv(d)
  <2>5. CASE \E f \in Field : Arrow(f) /\ UNCHANGED meant
    <3>1. PICK f \in Field : Arrow(f) /\ UNCHANGED meant
      BY <2>5
    <3>2. CASE expression.kind # "pointer"
      BY <1>3, <2>3, <3>1, <3>2 DEF Arrow, SamePointers
    <3>3. CASE expression.kind = "pointer"
      <4>1. PICK q, x : q = expression.ref /\ x = ArrowTarget(q)
        OBVIOUS
      <4>2. q \in 1..Len(pointerTypes) /\ pointerTypes' = [pointerTypes EXCEPT ![q] = x]
        BY <3>1, <3>3, <4>1, ExpressionRefers DEF Arrow
      <4>3. pointerTypes \in Seq(1..Len(structTypes))
        BY TypeFacts
      <4>4. /\ Len(pointerTypes') = Len(pointerTypes) /\ pointerTypes'[q] = x
            /\ \A p \in 1..Len(pointerTypes) : p # q => pointerTypes'[p] = pointerTypes[p]
        BY <4>2, <4>3
      <4>5. IsOpen(meant[q]) => stands[x] = meant[q]
        BY <1>3, <4>1, <4>2, TargetStandsForMeant
      <4>6. stands'[x] = stands[x] /\ meant' = meant
        BY <1>1, <3>1
      <4>7. \A p \in 1..Len(pointerTypes') :
              \/ p \in 1..Len(pointerTypes) /\ pointerTypes'[p] = pointerTypes[p] /\ meant'[p] = meant[p]
              \/ stands'[pointerTypes'[p]] = meant'[p]
              \/ p \in 1..Len(pointerTypes) /\ meant'[p] = meant[p] /\ ~IsOpen(meant[p])
        BY <4>2, <4>4, <4>5, <4>6
      <4> QED
        BY ONLY <1>3, <2>1, <2>2, <4>7, PointersStay, TypeInv(d)
    <3> QED
      BY <3>2, <3>3
  <2> QED
    BY <2>3, <2>4, <2>5 DEF QuietStep
<1> QED
  BY <1>1, <1>2, <1>3 DEF MeaningInv

LEMMA MentionMeaning ==
  ASSUME NEW d, TypeInv(d), MeaningInv(d), NEW t \in Tag, NEW c \in 0..Len(completion), MentionStep(t, c)
  PROVE  MeaningInv(d)'
<1>1. OnePlace /\ OnePlace'
  BY MentionPlace DEF MeaningInv
<1>2. ASSUME agree' PROVE Agrees(d)' /\ PointersAgree'
  <2>1. agree /\ Agrees(d) /\ PointersAgree
    BY <1>2 DEF MentionStep, Mention, MeaningInv
  <2>2. /\ Len(completion) \in Nat /\ Len(structTypes) \in Nat
        /\ \A s \in 1..Len(structTypes) : stands[s] \in 1..Len(completion)
    BY TypeFacts
  <2>3. PICK s, e : s = NamedStruct(t) /\ e = OrNew(c)
    OBVIOUS
  <2>4. s \in Nat /\ e \in Nat /\ e # 0
    BY <2>2, <2>3, NamedObject DEF OrNew
  <2>5. SamePointers \/ PointerTo(s, e)
    BY <2>3 DEF MentionStep
  <2>6. \A x \in 1..Len(completion) : IsOpen(x)' => IsOpen(x)
    <3>1. /\ Len(tags') = Len(tags) /\ Len(tags) = Top
          /\ \A i \in 1..Top, u \in Tag :
               tags'[i][u] = IF i = Top /\ u = t /\ c = 0 THEN e ELSE tags[i][u]
      BY <1>1, <2>3, MentionPlace, TypeFacts, SMTT(20)
    <3>2. c = 0 => e \notin 1..Len(completion)
      BY <2>2, <2>3 DEF OrNew
    <3>3. \A i \in 1..Len(tags'), u \in Tag :
            tags'[i][u] \in 1..Len(completion) => i \in 1..Top /\ tags[i][u] = tags'[i][u]
      BY <3>1, <3>2
    <3> QED
      BY <3>3, OpenStays
  <2>7. CASE IsVisible(t)
    <3>1. Quiet /\ c # 0 /\ stands[GetStructType(t)] = c
      BY <1>2, <2>1, <2>7, VisibleMention
    <3>2. Agrees(d)'
      BY <2>1, <3>1, QuietAgrees
    <3>3. stands' = stands /\ stands'[s] = e
      BY <2>3, <2>7, <3>1, NamedObject DEF Quiet, OrNew
    <3>4. \A p \in 1..Len(pointerTypes') :
            \/ p \in 1..Len(pointerTypes) /\ pointerTypes'[p] = pointerTypes[p] /\ meant'[p] = meant[p]
            \/ stands'[pointerTypes'[p]] = meant'[p]
      BY ONLY <2>4, <2>5, <3>3, AddedPointer, TypeInv(d)
    <3>5. \A x \in 1..Len(structTypes) : stands'[x] = stands[x]
      BY <3>3
    <3> QED
      BY ONLY <2>1, <2>6, <3>2, <3>4, <3>5, PointersStay, TypeInv(d)
  <2>8. CASE ~IsVisible(t)
    <3>1. Agrees(d)'
      BY <1>1, <2>1, <2>8, HiddenMentionAgrees
    <3>2. NewStruct(t, c, Len(structTypes) + 1)
      BY <1>1, <2>1, <2>8, HiddenMention
    <3>3. stands'[s] = e /\ \A x \in 1..Len(structTypes) : stands'[x] = stands[x]
      BY <2>3, <2>8, <3>2, NamedObject DEF NewStruct
    <3>4. \A p \in 1..Len(pointerTypes') :
            \/ p \in 1..Len(pointerTypes) /\ pointerTypes'[p] = pointerTypes[p] /\ meant'[p] = meant[p]
            \/ stands'[pointerTypes'[p]] = meant'[p]
      BY ONLY <2>4, <2>5, <3>3, AddedPointer, TypeInv(d)
    <3> QED
      BY ONLY <2>1, <2>6, <3>1, <3>3, <3>4, PointersStay, TypeInv(d)
  <2> QED
    BY <2>7, <2>8
<1> QED
  BY <1>1, <1>2 DEF MeaningInv

LEMMA DefineMeaning ==
  ASSUME TypeInv(0), MeaningInv(0), NEW t \in Tag, Define(t), NEW n, n = Len(structTypes) + 1
  PROVE  MeaningInv(n)'
<1>1. OnePlace' /\ (Agrees(0) => Agrees(n)') /\ agree' = agree
  BY DefineAgrees DEF MeaningInv, Define
<1>2. ASSUME PointersAgree PROVE PointersAgree'
  <2>1. UNCHANGED <<pointerTypes, meant>>
    BY DEF Define, StartStruct
  <2>2. /\ \A s \in 1..Len(structTypes) : stands'[s] = stands[s]
        /\ Len(tags') = Len(tags)
        /\ \A i \in 1..Top, u \in Tag :
              tags'[i][u] = IF i = Top /\ u = t THEN OrNew(OwnMeaning(t)) ELSE tags[i][u]
    BY DefineTypes
  <2>3. Len(tags) = Top /\ Len(completion) \in Nat
    BY TypeFacts
  <2>4. \A x \in 1..Len(completion) : IsOpen(x)' => IsOpen(x)
    <3>1. ASSUME NEW i \in 1..Len(tags'), NEW u \in Tag, tags'[i][u] \in 1..Len(completion)
          PROVE  i \in 1..Top /\ tags[i][u] = tags'[i][u]
      <4>1. i \in 1..Top
        BY <2>2, <2>3
      <4>2. CASE i = Top /\ u = t
        <5>1. tags'[i][u] = OrNew(OwnMeaning(t)) /\ OwnMeaning(t) = tags[i][u]
          BY <2>2, <4>1, <4>2 DEF OwnMeaning
        <5>2. OwnMeaning(t) # 0
          BY <2>3, <3>1, <5>1 DEF OrNew
        <5> QED
          BY <4>1, <5>1, <5>2 DEF OrNew
      <4>3. CASE ~(i = Top /\ u = t)
        BY <2>2, <4>1, <4>3
      <4> QED
        BY <4>2, <4>3
    <3> QED
      BY <3>1, OpenStays
  <2> QED
    BY <1>2, <2>1, <2>2, <2>4, PointersStay
<1> QED
  BY <1>1, <1>2 DEF MeaningInv

LEMMA CompleteMeaning ==
  ASSUME NEW d \in Nat, TypeInv(d), MeaningInv(d), Complete
  PROVE  \E e \in Nat : TypeInv(e)' /\ MeaningInv(e)'
<1>1. UNCHANGED <<structTypes, pointerTypes, tags, stands, meant, agree>> /\ Len(scopes') = Len(scopes)
  BY CompleteTypes
<1>2. CASE verdict' = "none" /\ TypeInv(0)'
  <2>1. OnePlace' /\ (Agrees(d) => Agrees(0)')
    BY <1>2, CompleteAgrees DEF MeaningInv
  <2>2. PointersAgree => PointersAgree'
    BY <1>1 DEF PointersAgree, IsOpen
  <2>3. MeaningInv(0)'
    BY <1>1, <2>1, <2>2 DEF MeaningInv
  <2> QED
    BY <1>2, <2>3
<1>3. CASE TypeInv(d)' /\ UNCHANGED <<scopes, completion>>
  <2>1. KeepsObjects /\ SameScopes /\ Len(structTypes') = Len(structTypes)
    BY <1>1, <1>3, SameObjects
  <2>2. QuietStep
    BY <1>1, <1>3, <2>1 DEF QuietStep, Quiet, SamePointers
  <2> QED
    BY <1>3, <2>2, QuietMeaning
<1> QED
  BY <1>2, <1>3, CompleteTypes

LEMMA BlockMeaning ==
  ASSUME TypeInv(0), MeaningInv(0), OpenStep \/ CloseStep
  PROVE  MeaningInv(0)'
<1>1. UNCHANGED <<structTypes, pointerTypes, completion, stands, meant, agree>>
  BY DEF OpenStep, OpenBlock, CloseStep, CloseBlock
<1>2. OnePlace' /\ (Agrees(0) => Agrees(0)')
  BY OpenAgrees, CloseAgrees DEF MeaningInv
<1>3. \A x \in 1..Len(completion) : IsOpen(x)' => IsOpen(x)
  <2>1. /\ tags \in Seq([Tag -> 0..Len(completion)]) /\ Len(tags) = Top /\ Top \in Nat \ {0}
    BY TypeFacts
  <2>2. CASE OpenStep
    <3>1. /\ Len(tags') = Top + 1 /\ \A u \in Tag : tags'[Top + 1][u] = 0
          /\ \A i \in 1..Top : tags'[i] = tags[i]
      BY <2>1, <2>2 DEF OpenStep, OwnTags
    <3>2. \A i \in 1..(Top + 1) : i \in 1..Top \/ i = Top + 1
      BY <2>1
    <3>3. \A i \in 1..Len(tags'), u \in Tag :
            tags'[i][u] \in 1..Len(completion) => i \in 1..Top /\ tags[i][u] = tags'[i][u]
      BY <3>1, <3>2
    <3> QED
      BY <3>3, OpenStays
  <2>3. CASE CloseStep
    <3>1. Len(tags') = Top - 1 /\ \A i \in 1..(Top - 1) : tags'[i] = tags[i]
      BY <2>1, <2>3 DEF CloseStep
    <3>2. \A i \in 1..(Top - 1) : i \in 1..Top
      BY <2>1
    <3>3. \A i \in 1..Len(tags'), u \in Tag :
            tags'[i][u] \in 1..Len(completion) => i \in 1..Top /\ tags[i][u] = tags'[i][u]
      BY <3>1, <3>2
    <3> QED
      BY <3>3, OpenStays
  <2> QED
    BY <2>2, <2>3
<1>4. PointersAgree => PointersAgree'
  BY <1>1, <1>3, PointersStay
<1> QED
  BY <1>1, <1>2, <1>4 DEF MeaningInv

(* The invariant *)

LEMMA DefineTags ==
  ASSUME TypeInv(0), TagInv, NEW t \in Tag, Define(t)
  PROVE  TagInv'
<1>1. KeepsObjects
  BY DefineTypes
<1>2. SameScopes
  BY DEF Define, StartStruct, SameScopes
<1> QED
  BY <1>1, <1>2, SameTags

LEMMA StepKeepsInv ==
  ASSUME IInv, CheckedNext
  PROVE  IInv'
<1>1. PICK d \in Nat : TypeInv(d) /\ TagInv /\ MeaningInv(d)
  BY DEF IInv, Inv
<1>2. CASE QuietStep /\ TypeInv(d)'
  <2>1. TagInv'
    BY <1>1, <1>2, SameTags DEF QuietStep, Quiet
  <2>2. MeaningInv(d)'
    BY <1>1, <1>2, QuietMeaning
  <2> QED
    BY <1>2, <2>1, <2>2 DEF IInv, Inv
<1>3. CASE \E t \in Tag, c \in 0..Len(completion) : MentionStep(t, c) /\ TypeInv(d)'
  <2>1. PICK t \in Tag, c \in 0..Len(completion) : MentionStep(t, c) /\ TypeInv(d)'
    BY <1>3
  <2>2. TagInv'
    BY <1>1, <2>1, NamedTags DEF MentionStep
  <2>3. MeaningInv(d)'
    BY <1>1, <2>1, MentionMeaning
  <2> QED
    BY <2>1, <2>2, <2>3 DEF IInv, Inv
<1>4. CASE \E t \in Tag : Define(t) /\ d = 0
  <2>1. PICK t \in Tag : Define(t) /\ d = 0
    BY <1>4
  <2>2. PICK n \in Nat : n = Len(structTypes) + 1
    BY <1>1, TypeFacts
  <2>3. TypeInv(n)'
    BY <1>1, <2>1, <2>2, DefineTypes
  <2>4. TagInv'
    BY <1>1, <2>1, DefineTags
  <2>5. MeaningInv(n)'
    BY <1>1, <2>1, <2>2, DefineMeaning
  <2> QED
    BY <2>3, <2>4, <2>5 DEF IInv, Inv
<1>5. CASE OpenStep
  <2>1. TypeInv(0)' /\ d = 0
    BY <1>1, <1>5, OpenTypes DEF OpenStep
  <2>2. TagInv'
    BY <1>1, <1>5, OpenTags DEF OpenStep
  <2>3. MeaningInv(0)'
    BY <1>1, <1>5, <2>1, BlockMeaning
  <2> QED
    BY <2>1, <2>2, <2>3 DEF IInv, Inv
<1>6. CASE CloseStep
  <2>1. TypeInv(0)' /\ d = 0
    BY <1>1, <1>6, CloseTypes DEF CloseStep
  <2>2. TagInv'
    BY <1>1, <1>6, CloseTags DEF CloseStep
  <2>3. MeaningInv(0)'
    BY <1>1, <1>6, <2>1, BlockMeaning
  <2> QED
    BY <2>1, <2>2, <2>3 DEF IInv, Inv
<1>7. CASE Complete
  <2>1. PICK e \in Nat : TypeInv(e)' /\ MeaningInv(e)'
    BY <1>1, <1>7, CompleteMeaning
  <2>2. TagInv'
    BY <1>1, <1>7, CompleteTags
  <2> QED
    BY <2>1, <2>2 DEF IInv, Inv
<1> QED
  BY <1>1, <1>2, <1>3, <1>4, <1>5, <1>6, <1>7, Steps

LEMMA StutterKeepsInv ==
  ASSUME IInv, UNCHANGED checkedVars
  PROVE  IInv'
<1>1. PICK d \in Nat : Inv(d)
  BY DEF IInv
<1>2. UNCHANGED <<scopes, structTypes, pointerTypes, defining, expression, declared, operators, verdict>>
      /\ UNCHANGED <<tags, completion, stands, meant, agree>>
  BY DEF checkedVars, scopeVars, meaningVars
<1>3. UNCHANGED <<StructTypeOK, MeaningTypeOK, Top, Depth>>
  BY <1>2 DEF StructTypeOK, MeaningTypeOK, Struct, Top, Depth
<1>4. \A x \in Nat : UNCHANGED ReferencesOK(x)
  BY <1>2 DEF ReferencesOK, Valid, Top
<1>5. TypeInv(d)'
  BY <1>1, <1>2, <1>3, <1>4 DEF Inv, TypeInv, ScopesTypeOK
<1>6. UNCHANGED <<TagInv, OnePlace, PointersAgree, Agrees(d)>>
  BY <1>2 DEF TagInv, OnePlace, PointersAgree, IsOpen, Agrees, Struct, Top
<1>7. TagInv' /\ MeaningInv(d)'
  BY <1>1, <1>2, <1>6 DEF Inv, MeaningInv
<1> QED
  BY <1>5, <1>7 DEF IInv, Inv

LEMMA InvIsInvariant == CheckedSpec => []IInv
<1>1. CheckedInit => IInv
  BY InitInv DEF IInv, CheckedInit
<1>2. IInv /\ [CheckedNext]_checkedVars => IInv'
  BY StepKeepsInv, StutterKeepsInv
<1> QED
  BY <1>1, <1>2, PTL DEF CheckedSpec

(* The properties *)

\* The state of the type checker and of C is well-typed, in every program.
THEOREM ScopesAreTypeCorrect == CheckedSpec => []ScopesTypeOK
<1>1. IInv => ScopesTypeOK
  BY DEF IInv, Inv, TypeInv
<1> QED
  BY <1>1, InvIsInvariant, PTL

\* An arrow reaches the struct that the pointer was declared to point to, and that
\* is complete if it is in C (suffix.cpp:243, scope.cpp:30).
THEOREM ArrowIsCorrect == CheckedSpec => []ArrowFindsMeaning
<1>1. ASSUME IInv PROVE ArrowFindsMeaning
  <2>1. PICK d \in Nat : TypeInv(d) /\ MeaningInv(d)
    BY <1>1 DEF IInv, Inv
  <2> QED
    BY <2>1, TargetStandsForMeant DEF MeaningInv, ArrowFindsMeaning
<1> QED
  BY <1>1, InvIsInvariant, PTL

\* No inner declaration hides a complete struct from sizeof (unary.cpp:22-32).
THEOREM SizeofIsCorrect == CheckedSpec => []SizeofAcceptsCompleteStructs
<1>1. ASSUME IInv PROVE SizeofAcceptsCompleteStructs
  <2>1. PICK d \in Nat : TypeInv(d) /\ TagInv
    BY <1>1 DEF IInv, Inv
  <2> SUFFICES ASSUME NEW i \in 1..Top, NEW t \in Tag, NEW s, s = scopes[i].structs[t],
                      s # 0, structTypes[s].complete
               PROVE  structTypes[SizedStruct(s)].complete
    BY DEF SizeofAcceptsCompleteStructs
  <2>2. structTypes[s].tag = t
    BY <2>1 DEF TagInv
  <2>3. IsVisible(t)
    BY DEF IsVisible, Declares
  <2>4. PICK k \in 1..Top : /\ GetStructType(t) = scopes[k].structs[t]
                            /\ scopes[k].structs[t] \in 1..Len(structTypes)
                            /\ \A j \in (k + 1)..Top : scopes[j].structs[t] = 0
    BY <2>1, <2>3, FoundStruct
  <2>5. Top \in Nat /\ Len(structTypes) \in Nat
    BY <2>1, TypeFacts
  <2>6. i <= k
    BY <2>4, <2>5
  <2>7. structTypes[scopes[k].structs[t]].complete
    <3>1. CASE i = k
      BY <3>1
    <3>2. CASE i # k
      <4>1. i \in 1..(k - 1) /\ scopes[k].structs[t] # 0
        BY <2>4, <2>5, <2>6, <3>2
      <4> QED
        BY <2>1, <4>1 DEF TagInv
    <3> QED
      BY <3>1, <3>2
  <2> QED
    BY <2>2, <2>3, <2>4, <2>7 DEF SizedStruct
<1> QED
  BY <1>1, InvIsInvariant, PTL

\* The struct inside a pointer type is replaced only by a complete one of its tag
\* and depth, and only once (suffix.cpp:251-261).
THEOREM InnerIsCorrect == CheckedSpec => InnerIsOnlyCompleted
<1> DEFINE Step == \A p \in 1..Len(pointerTypes) :
                     LET old == structTypes[pointerTypes[p]]
                         new == structTypes[pointerTypes'[p]]
                     IN  pointerTypes'[p] # pointerTypes[p] =>
                           /\ ~old.complete /\ new.complete
                           /\ new.tag = old.tag /\ new.scope_counter = old.scope_counter
<1>1. ASSUME IInv, CheckedNext PROVE Step
  <2>1. PICK d \in Nat : TypeInv(d) /\ TagInv
    BY <1>1 DEF IInv, Inv
  <2> SUFFICES ASSUME NEW p \in 1..Len(pointerTypes), pointerTypes'[p] # pointerTypes[p]
               PROVE  LET old == structTypes[pointerTypes[p]]
                          new == structTypes[pointerTypes'[p]]
                      IN  /\ ~old.complete /\ new.complete
                          /\ new.tag = old.tag /\ new.scope_counter = old.scope_counter
    OBVIOUS
  <2>2. /\ pointerTypes \in Seq(Nat) /\ meant \in Seq(Nat)
        /\ Len(pointerTypes) \in Nat /\ Len(structTypes) \in Nat
    <3>1. /\ pointerTypes \in Seq(1..Len(structTypes)) /\ meant \in Seq(1..Len(completion))
          /\ Len(pointerTypes) \in Nat /\ Len(structTypes) \in Nat
      BY <2>1, TypeFacts
    <3> QED
      BY <3>1, Widened
  <2>3. ~SamePointers
    BY DEF SamePointers
  <2>4. ASSUME NEW x, NEW c, PointerTo(x, c) PROVE FALSE
    BY <2>2, <2>4 DEF PointerTo
  <2>5. QuietStep
    <3>1. ASSUME NEW t \in Tag, NEW c, MentionStep(t, c) PROVE FALSE
      BY <2>3, <2>4, <3>1 DEF MentionStep
    <3>2. ~OpenStep /\ ~CloseStep /\ ~Complete /\ \A t \in Tag : ~Define(t)
      BY <2>3 DEF SamePointers, OpenStep, OpenBlock, CloseStep, CloseBlock, Complete, FinishStruct,
                  Define, StartStruct
    <3> QED
      BY <1>1, <2>1, <3>1, <3>2, Steps
  <2>6. PICK f \in Field : Arrow(f)
    BY <2>3, <2>4, <2>5 DEF QuietStep
  <2>7. PICK q, x : q = expression.ref /\ x = ArrowTarget(q)
    OBVIOUS
  <2>8. expression.kind = "pointer" /\ pointerTypes' = [pointerTypes EXCEPT ![q] = x]
    BY <2>6, <2>7 DEF Arrow
  <2>9. q \in 1..Len(pointerTypes)
    BY <2>1, <2>7, <2>8, ExpressionRefers
  <2>10. p = q /\ pointerTypes'[p] = x
    BY <2>2, <2>8, <2>9
  <2>11. PICK s : s = pointerTypes[p]
    OBVIOUS
  <2>12. s \in 1..Len(structTypes)
    BY <2>1, <2>11, InnerOfPointer
  <2>13. ~structTypes[s].complete /\ x = GetCompleteStruct(s) /\ x # s
    BY <2>7, <2>10, <2>11 DEF ArrowTarget
  <2>14. PICK k \in 1..Top : Completes(k, s) /\ x = scopes[k].structs[structTypes[s].tag]
    BY <2>1, <2>12, <2>13, CompleteStruct
  <2>15. structTypes[s].tag \in Tag
    BY <2>1, <2>12, TagOfObject
  <2>16. structTypes[x].complete /\ structTypes[x].scope_counter = structTypes[s].scope_counter /\ x # 0
    BY <2>14 DEF Completes
  <2>17. structTypes[x].tag = structTypes[s].tag
    BY <2>1, <2>14, <2>15, <2>16 DEF TagInv
  <2> QED
    BY <2>10, <2>11, <2>13, <2>16, <2>17
<1>2. IInv /\ [CheckedNext]_checkedVars => [Step]_checkedVars
  BY <1>1
<1> QED
  BY <1>2, InvIsInvariant, PTL DEF CheckedSpec, InnerIsOnlyCompleted

\* The type checker takes a tag for another struct than C only in a scope that
\* declares a tag of an enclosing one (specifiers/struct.cpp:25-32).
THEOREM ResolutionIsCorrect == CheckedSpec => ResolutionDiffersOnlyWhereShadowed
<1> DEFINE Step == agree /\ ~agree' =>
                     \E t \in Tag : /\ tags'[Top][t] # 0 /\ \E i \in 1..(Top - 1) : tags[i][t] # 0
                                    /\ defining = 0 \/ structTypes[defining].tag = t
<1>1. ASSUME IInv, CheckedNext PROVE Step
  <2> SUFFICES ASSUME agree, ~agree'
               PROVE  \E t \in Tag : /\ tags'[Top][t] # 0 /\ \E i \in 1..(Top - 1) : tags[i][t] # 0
                                     /\ defining = 0 \/ structTypes[defining].tag = t
    OBVIOUS
  <2>1. PICK d \in Nat : TypeInv(d) /\ OnePlace /\ Agrees(d)
    BY <1>1 DEF IInv, Inv, MeaningInv
  <2>2. PICK t \in Tag, c \in 0..Len(completion) : MentionStep(t, c)
    BY <1>1, <2>1, Steps DEF QuietStep, Quiet, Define, OpenStep, CloseStep, Complete
  <2>3. IsVisible(t) /\ stands[GetStructType(t)] # OrNew(c)
    BY <2>2 DEF MentionStep, Mention
  <2>4. PICK k \in 1..Top : /\ stands[GetStructType(t)] = tags[k][t] /\ tags[k][t] \in 1..Len(completion)
                            /\ \A j \in (k + 1)..Top : scopes[j].structs[t] = 0
    BY <2>1, <2>3, FoundStandsForTag
  <2>5. /\ Top \in Nat \ {0} /\ Len(completion) \in Nat /\ d \in 0..Len(structTypes)
        /\ verdict = "none" => d = defining
        /\ tags[Top][t] \in 0..Len(completion)
    BY <2>1, TypeFacts
  <2>6. tags[k][t] # 0 /\ tags[k][t] # OrNew(c) /\ tags[k][t] # c
    BY <2>3, <2>4, <2>5 DEF OrNew
  <2>7. /\ c = OwnMeaning(t) \/ c = InnermostMeaning(t)
        /\ c = OwnMeaning(t) => c = InnermostMeaning(t) \/ defining = 0
        /\ d = defining
    BY <2>2, <2>5 DEF MentionStep, Means
  <2>8. ASSUME NEW j \in (k + 1)..Top, tags[j][t] # 0
        PROVE  j = Top /\ structTypes[d].tag = t
    <3>1. j \in 1..Top /\ scopes[j].structs[t] = 0
      BY <2>4, <2>5
    <3> QED
      BY <2>1, <2>8, <3>1 DEF Agrees
  <2>9. \A u \in Tag, i \in 1..Top :
          tags'[i][u] = IF i = Top /\ u = t /\ c = 0 THEN OrNew(c) ELSE tags[i][u]
    BY <2>1, <2>2, MentionPlace
  <2>10. k < Top /\ tags'[Top][t] # 0 /\ (defining = 0 \/ structTypes[defining].tag = t)
    <3>1. CASE c = InnermostMeaning(t)
      <4>1. c # 0
        BY <2>1, <2>6, <3>1, FoundMeaning
      <4>2. PICK j \in 1..Top : c = tags[j][t] /\ \A i \in (j + 1)..Top : tags[i][t] = 0
        BY <2>1, <3>1, <4>1, FoundMeaning
      <4>3. j \in (k + 1)..Top
        BY <2>5, <2>6, <4>2
      <4>4. j = Top /\ structTypes[d].tag = t
        BY <2>8, <4>1, <4>2, <4>3
      <4> QED
        BY <2>5, <2>7, <2>9, <4>1, <4>2, <4>3, <4>4
    <3>2. CASE c = OwnMeaning(t) /\ defining = 0
      <4>1. k # Top
        BY <2>6, <3>2 DEF OwnMeaning
      <4>2. tags'[Top][t] = OrNew(c)
        BY <2>5, <2>9, <3>2 DEF OwnMeaning, OrNew
      <4>3. OrNew(c) # 0
        BY <2>5 DEF OrNew
      <4> QED
        BY <2>5, <3>2, <4>1, <4>2, <4>3
    <3> QED
      BY <2>7, <3>1, <3>2
  <2>11. k \in 1..(Top - 1)
    BY <2>5, <2>10
  <2> QED
    BY <2>6, <2>10, <2>11
<1>2. IInv /\ [CheckedNext]_checkedVars => [Step]_checkedVars
  BY <1>1
<1> QED
  BY <1>2, InvIsInvariant, PTL DEF CheckedSpec, ResolutionDiffersOnlyWhereShadowed
================================================================================
