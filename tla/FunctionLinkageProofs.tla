------------------------- MODULE FunctionLinkageProofs -------------------------
(***************************************************************************)
(* For every program: the code generator never reads past the parameters   *)
(* of a definition, no function is defined twice, what the module of an    *)
(* accepted program holds, in which one way the parameters of a definition *)
(* get lost, and what an accepted program may fail to compile for.         *)
(*                                                                         *)
(* None of these is inductive.  What the type checker compares an item     *)
(* with is the type the file scope keeps, what the code generator takes is *)
(* the symbol an earlier item created; "Checked" relates each item to the  *)
(* former, "Compiled" each symbol to an item, and strong_equals is         *)
(* followed from the item behind the symbol through the scope to the       *)
(* definition.  The second part follows each name from the code generator  *)
(* back to where the type checker had it from: a symbol comes from the     *)
(* first item of its name; the type the file scope keeps from the first    *)
(* item that declares the name or from a body in front of all of them;     *)
(* what a use refers to is a parameter, a local object, an item or a       *)
(* function that a body declares.                                          *)
(***************************************************************************)
EXTENDS FunctionLinkage, TLAPS

ItemType(i) == TypeOf(items[i].declarator)

\* The items the type checker has been through, the open definition included.
IsChecked(i) ==
  /\ i \in 1..Len(items)
  /\ CASE phase = "parse"     -> FALSE
       [] phase = "typecheck" -> i < pos \/ (i = pos /\ inner > 0)
       [] phase = "rejected"  -> FALSE
       [] OTHER               -> TRUE

FitsScope(i) ==
  LET n == items[i].name
      t == ItemType(i) IN
  /\ n \in Name /\ fileVars[n] # Undeclared
  /\ IF items[i].definition
     THEN t.function /\ n \in defined /\ StrongEquals(fileVars[n], t)
     ELSE StrongEquals(t, fileVars[n])

Checked == \A i \in 1..Len(items) : IsChecked(i) => FitsScope(i)

\* What "defined" holds comes from a definition, and no two share a name.
Unique ==
  \A i, j \in 1..Len(items) :
    /\ IsChecked(i) /\ IsChecked(j) /\ items[i].definition /\ items[j].definition
    /\ items[i].name = items[j].name
    => i = j

Compiled ==
  \A n \in Name : HasSymbol(n) =>
    \E i \in 1..Len(items) : items[i].name = n /\ module[n][1].type = ItemType(i)

\* What a source type is before it is known to be well formed.
SourceType == [function : BOOLEAN, of : Value \cup Return, listed : BOOLEAN,
               params : Seq(Param)]
Parsed == [definition : BOOLEAN, name : Name \cup {NoName}, declarator : Declarator,
           body : UpTo(Statements, MaxBody)]

\* The parts of the type invariant that the argument needs.
Shapes ==
  /\ phase \in {"parse", "typecheck", "compile", "compiled", "rejected", "crashed"}
  /\ items \in Seq(Parsed)
  /\ \A i \in 1..Len(items) : items[i].declarator.function => items[i].name # NoName
  /\ pos \in Nat \ {0}
  /\ inner \in Nat
  /\ phase = "parse" => pos = 1 /\ inner = 0
  /\ inner > 0 => pos <= Len(items)
  /\ fileVars \in [Name -> SourceType \cup {Undeclared}]
  /\ module \in [Name -> Seq([type : SourceType, body : BOOLEAN])]
  /\ phase \in {"parse", "typecheck", "rejected"} => \A n \in Name : ~HasSymbol(n)

LinkageInv == Shapes /\ Checked /\ Unique /\ Compiled

------------------------------------------------------------------------------
LEMMA UpToIsSeq ==
  ASSUME NEW S, NEW n \in Nat, NEW q \in UpTo(S, n)
  PROVE  q \in Seq(S)
BY DEF UpTo

LEMMA DeclaratorsTyped == Declarators \subseteq Declarator
<1> SUFFICES ASSUME NEW d \in Declarators PROVE d \in Declarator
  OBVIOUS
<1>1. CASE d \in Objects
  <2>1. <<>> \in Seq(Param)
    OBVIOUS
  <2> QED BY <1>1, <2>1 DEF Objects, Declarator
<1>2. CASE d \in Functions
  <2>1. d.params \in Seq(Param)
    BY <1>2, UpToIsSeq, LinkageAssumption DEF Functions
  <2> QED BY <1>2, <2>1 DEF Functions, Declarator
<1> QED BY <1>1, <1>2 DEF Declarators

\* The type of a declarator; a type without a list has no parameters.
LEMMA TypeOfDeclarator ==
  ASSUME NEW d \in Declarator
  PROVE  /\ TypeOf(d) \in SourceType
         /\ TypeOf(d) # Undeclared
         /\ TypeOf(d).function = d.function
         /\ ~TypeOf(d).listed => TypeOf(d).params = <<>>
<1>1. d.params \in Seq(Param) /\ d.function \in BOOLEAN /\ d.of \in Value \cup Return
  BY DEF Declarator
<1>2. WithoutVoid(d.params) \in Seq(Param)
  BY <1>1 DEF WithoutVoid
<1>3. d.params = <<>> => WithoutVoid(d.params) = <<>>
  BY DEF WithoutVoid
<1>4. TypeOf(d).of # "undeclared"
  BY <1>1, LinkageAssumption DEF TypeOf
<1>5. TypeOf(d) # Undeclared
  BY <1>4 DEF Undeclared
<1> HIDE DEF Param
<1> QED BY <1>1, <1>2, <1>3, <1>5 DEF TypeOf, SourceType

\* strong_equals may lose the parameters of its left side, never gain any:
\* followed from s to t it leaves t at least as many.
LEMMA StrongEqualsChain ==
  ASSUME NEW s \in SourceType, NEW m \in SourceType, NEW t \in SourceType,
         ~s.listed => s.params = <<>>,
         StrongEquals(s, m), StrongEquals(m, t)
  PROVE  Len(s.params) <= Len(t.params)
<1>1. s.params \in Seq(Param) /\ m.params \in Seq(Param) /\ t.params \in Seq(Param)
  BY DEF SourceType
<1>2. /\ Len(s.params) \in Nat /\ Len(m.params) \in Nat /\ Len(t.params) \in Nat
      /\ Len(<<>>) = 0
  BY <1>1
<1> QED BY <1>2 DEF StrongEquals, ParamsAgree

------------------------------------------------------------------------------
LEMMA InitInv == Init => LinkageInv
<1> SUFFICES ASSUME Init PROVE LinkageInv
  OBVIOUS
<1>1. items = <<>> /\ Len(items) = 0 /\ phase = "parse" /\ pos = 1 /\ inner = 0
  BY DEF Init
<1>2. fileVars \in [Name -> SourceType \cup {Undeclared}]
  BY DEF Init, NoNames
<1>3. module \in [Name -> Seq([type : SourceType, body : BOOLEAN])]
  <2>1. <<>> \in Seq([type : SourceType, body : BOOLEAN])
    OBVIOUS
  <2> QED BY <2>1 DEF Init
<1>4. \A n \in Name : ~HasSymbol(n)
  BY DEF Init, HasSymbol
<1>5. items \in Seq(Parsed)
  BY <1>1
<1>6. Shapes
  <2>1. \A i \in 1..Len(items) : items[i].declarator.function => items[i].name # NoName
    BY <1>1
  <2>2. /\ pos \in Nat \ {0} /\ inner \in Nat /\ ~(inner > 0)
    BY <1>1
  <2> QED BY <1>1, <1>2, <1>3, <1>4, <1>5, <2>1, <2>2, Zenon DEF Shapes
<1> QED BY <1>1, <1>4, <1>6 DEF LinkageInv, Checked, Unique, Compiled

\* The item at pos, where a pass enters it.
LEMMA EnteredItem ==
  ASSUME Shapes, pos <= Len(items)
  PROVE  /\ pos \in 1..Len(items) /\ items[pos] \in Parsed
         /\ ItemType(pos) \in SourceType /\ ItemType(pos) # Undeclared
         /\ ~ItemType(pos).listed => ItemType(pos).params = <<>>
         /\ ItemType(pos).function => items[pos].name \in Name
<1>1. pos \in 1..Len(items) /\ items[pos] \in Parsed
  BY DEF Shapes
<1>2. items[pos].declarator \in Declarator /\ items[pos].name \in Name \cup {NoName}
  BY <1>1 DEF Parsed
<1>3. items[pos].declarator.function => items[pos].name # NoName
  BY <1>1 DEF Shapes
<1> QED BY <1>1, <1>2, <1>3, TypeOfDeclarator DEF ItemType

LEMMA InsertKeeps ==
  ASSUME NEW scope \in [Name -> SourceType \cup {Undeclared}], NEW n \in Name,
         NEW t \in SourceType, t # Undeclared
  PROVE  /\ Insert(scope, n, t) \in [Name -> SourceType \cup {Undeclared}]
         /\ Insert(scope, n, t)[n] = IF scope[n] = Undeclared THEN t ELSE scope[n]
         /\ Insert(scope, n, t)[n] # Undeclared
         /\ \A m \in Name : scope[m] # Undeclared => Insert(scope, n, t)[m] = scope[m]
<1> HIDE DEF SourceType, Undeclared
<1> QED BY DEF Insert

\* A step that declares at most more names leaves the items behind it checked.
LEMMA StaysChecked ==
  ASSUME NEW i \in 1..Len(items), FitsScope(i), items' = items,
         \A m \in Name : fileVars[m] # Undeclared => fileVars'[m] = fileVars[m],
         defined \subseteq defined'
  PROVE  FitsScope(i)'
BY DEF FitsScope, ItemType

LEMMA ParseItemInv == LinkageInv /\ ParseItem => LinkageInv'
<1> SUFFICES ASSUME LinkageInv, ParseItem PROVE LinkageInv'
  OBVIOUS
<1> USE DEF LinkageInv
<1>1. PICK d \in Declarators, n \in External \cup {NoName}, b \in {<<>>} \cup UpTo(Statements, MaxBody),
           def \in BOOLEAN :
        /\ d.function => n # NoName
        /\ items' = Append(items, [definition |-> def, name |-> n, declarator |-> d,
                                   body |-> b])
  BY DEF ParseItem
<1> DEFINE e == [definition |-> def, name |-> n, declarator |-> d, body |-> b]
<1>2. <<>> \in UpTo(Statements, MaxBody)
  <2>1. <<>> \in [1..0 -> Statements] /\ 0 \in 0..MaxBody
    BY LinkageAssumption
  <2> QED BY <2>1 DEF UpTo
<1>3. e \in Parsed
  BY <1>1, <1>2, DeclaratorsTyped, LinkageAssumption DEF Parsed
<1>4. e.declarator.function => e.name # NoName
  BY <1>1
<1> HIDE DEF e
<1>5. /\ items' \in Seq(Parsed)
      /\ \A i \in 1..Len(items)' : items'[i].declarator.function => items'[i].name # NoName
  <2>1. items \in Seq(Parsed) /\ items' = Append(items, e)
    BY <1>1 DEF e, Shapes
  <2>2. \A i \in 1..Len(items') : \/ i \in 1..Len(items) /\ items'[i] = items[i]
                                  \/ items'[i] = e
    BY <1>3, <2>1
  <2> QED BY <1>3, <1>4, <2>1, <2>2 DEF Shapes
<1>6. phase = "parse" /\ UNCHANGED <<phase, pos, inner, fileVars, module>>
  BY DEF ParseItem, semaVars, codegenVars
<1> QED BY <1>5, <1>6 DEF Shapes, Checked, Unique, Compiled, IsChecked, HasSymbol

LEMMA CheckDeclarationInv == LinkageInv /\ CheckDeclaration => LinkageInv'
<1> SUFFICES ASSUME LinkageInv, CheckDeclaration PROVE LinkageInv'
  OBVIOUS
<1> DEFINE n == items[pos].name
           t == ItemType(pos)
<1>1. /\ phase = "typecheck" /\ inner = 0 /\ pos \in 1..Len(items) /\ n \in Name
      /\ t \in SourceType /\ t # Undeclared /\ ~items[pos].definition
      /\ fileVars \in [Name -> SourceType \cup {Undeclared}]
  BY EnteredItem DEF LinkageInv, Shapes, CheckDeclaration, AtItem, IsDeclarable, Parsed
<1>2. /\ fileVars' = Insert(fileVars, n, t) /\ pos' = pos + 1 /\ inner' = 0
      /\ UNCHANGED <<phase, items, defined, module>>
      /\ StrongEquals(t, IF fileVars[n] = Undeclared THEN t ELSE fileVars[n])
  BY DEF CheckDeclaration, NextItem, codegenVars, ItemType, FitsFileScope
<1> HIDE DEF n, t
<1>3. /\ fileVars' \in [Name -> SourceType \cup {Undeclared}]
      /\ fileVars'[n] = IF fileVars[n] = Undeclared THEN t ELSE fileVars[n]
      /\ fileVars'[n] # Undeclared
      /\ \A m \in Name : fileVars[m] # Undeclared => fileVars'[m] = fileVars[m]
  BY <1>1, <1>2, InsertKeeps
<1>4. Shapes'
  BY <1>1, <1>2, <1>3 DEF LinkageInv, Shapes, HasSymbol
<1>5. \A i \in 1..Len(items) : IsChecked(i)' => IsChecked(i) \/ i = pos
  BY <1>1, <1>2 DEF IsChecked
<1>6. defined \subseteq defined' /\ items' = items
  BY <1>2
<1>7. Checked'
  <2> SUFFICES ASSUME NEW i \in 1..Len(items), IsChecked(i)' PROVE FitsScope(i)'
    BY <1>2 DEF Checked
  <2>1. CASE i = pos
    <3>1. items'[i].name = n /\ ItemType(i)' = t /\ ~items'[i].definition
      BY <1>1, <1>2, <2>1 DEF n, t, ItemType
    <3>2. n \in Name /\ fileVars'[n] # Undeclared /\ StrongEquals(t, fileVars'[n])
      BY <1>1, <1>2, <1>3
    <3> QED BY <3>1, <3>2 DEF FitsScope
  <2>2. CASE i # pos
    <3>1. FitsScope(i)
      BY <1>5, <2>2 DEF LinkageInv, Checked
    <3> QED BY <1>6, <1>3, <3>1, StaysChecked
  <2> QED BY <2>1, <2>2
<1>8. Unique'
  BY <1>1, <1>2, <1>5 DEF LinkageInv, Unique
<1>9. Compiled'
  BY <1>1, <1>2 DEF LinkageInv, Shapes, Compiled, HasSymbol
<1> QED BY <1>4, <1>7, <1>8, <1>9 DEF LinkageInv

LEMMA CheckDefinitionInv == LinkageInv /\ CheckDefinition => LinkageInv'
<1> SUFFICES ASSUME LinkageInv, CheckDefinition PROVE LinkageInv'
  OBVIOUS
<1> DEFINE n == items[pos].name
           t == ItemType(pos)
<1>1. /\ phase = "typecheck" /\ inner = 0 /\ pos \in 1..Len(items) /\ n \in Name
      /\ t \in SourceType /\ t # Undeclared /\ items[pos].definition /\ t.function
      /\ fileVars \in [Name -> SourceType \cup {Undeclared}]
  BY EnteredItem DEF LinkageInv, Shapes, CheckDefinition, AtItem, IsDefinable, ItemType
<1>2. /\ fileVars' = Insert(fileVars, n, t) /\ pos' = pos /\ inner' = 1
      /\ defined' = defined \cup {n}
      /\ UNCHANGED <<phase, items, module>>
      /\ n \notin defined
      /\ fileVars[n] # Undeclared => StrongEquals(fileVars[n], t)
  BY DEF CheckDefinition, EnterBody, codegenVars, ItemType, IsDefinable, FitsDefinition
<1> HIDE DEF n, t
<1>3. /\ fileVars' \in [Name -> SourceType \cup {Undeclared}]
      /\ fileVars'[n] = IF fileVars[n] = Undeclared THEN t ELSE fileVars[n]
      /\ fileVars'[n] # Undeclared
      /\ \A m \in Name : fileVars[m] # Undeclared => fileVars'[m] = fileVars[m]
  BY <1>1, <1>2, InsertKeeps
<1>4. Shapes'
  BY <1>1, <1>2, <1>3 DEF LinkageInv, Shapes, HasSymbol
<1>5. \A i \in 1..Len(items) : IsChecked(i)' => IsChecked(i) \/ i = pos
  BY <1>1, <1>2 DEF IsChecked
<1>6. defined \subseteq defined' /\ items' = items
  BY <1>2
<1>7. Checked'
  <2> SUFFICES ASSUME NEW i \in 1..Len(items), IsChecked(i)' PROVE FitsScope(i)'
    BY <1>2 DEF Checked
  <2>1. CASE i = pos
    <3>1. items'[i].name = n /\ ItemType(i)' = t /\ items'[i].definition
      BY <1>1, <1>2, <2>1 DEF n, t, ItemType
    <3>2. StrongEquals(t, t)
      BY DEF StrongEquals, ParamsAgree
    <3>3. /\ n \in Name /\ fileVars'[n] # Undeclared /\ t.function /\ n \in defined'
          /\ StrongEquals(fileVars'[n], t)
      BY <1>1, <1>2, <1>3, <3>2
    <3> QED BY <3>1, <3>3 DEF FitsScope
  <2>2. CASE i # pos
    <3>1. FitsScope(i)
      BY <1>5, <2>2 DEF LinkageInv, Checked
    <3> QED BY <1>6, <1>3, <3>1, StaysChecked
  <2> QED BY <2>1, <2>2
<1>8. Unique'
  <2> SUFFICES ASSUME NEW i \in 1..Len(items), NEW j \in 1..Len(items),
                      IsChecked(i)', IsChecked(j)', items[i].definition, items[j].definition,
                      items[i].name = items[j].name
               PROVE  i = j
    BY <1>2 DEF Unique
  <2>1. \A k \in 1..Len(items) : IsChecked(k) /\ items[k].definition => items[k].name # n
    BY <1>2 DEF LinkageInv, Checked, FitsScope
  <2>2. items[pos].name = n
    BY DEF n
  <2>3. CASE IsChecked(i) /\ IsChecked(j)
    BY <2>3 DEF LinkageInv, Unique
  <2>4. CASE ~(IsChecked(i) /\ IsChecked(j))
    BY <1>5, <2>1, <2>2, <2>4
  <2> QED BY <2>3, <2>4
<1>9. Compiled'
  BY <1>1, <1>2 DEF LinkageInv, Shapes, Compiled, HasSymbol
<1> QED BY <1>4, <1>7, <1>8, <1>9 DEF LinkageInv

LEMMA CheckLocalDeclarationInv == LinkageInv /\ CheckLocalDeclaration => LinkageInv'
<1> SUFFICES ASSUME LinkageInv, CheckLocalDeclaration PROVE LinkageInv'
  OBVIOUS
<1> DEFINE s == items[pos].body[inner]
           t == TypeOf(s.declarator)
<1>1. /\ phase = "typecheck" /\ inner \in Nat /\ inner > 0 /\ pos \in 1..Len(items)
      /\ items \in Seq(Parsed)
      /\ fileVars \in [Name -> SourceType \cup {Undeclared}]
  BY DEF LinkageInv, Shapes, CheckLocalDeclaration, AtStatement
<1>2. /\ UNCHANGED <<phase, items, pos, defined, module>> /\ inner' = inner + 1
      /\ \/ fileVars' = fileVars
         \/ fileVars' = Insert(fileVars, s.name, t)
  BY DEF CheckLocalDeclaration, NextStatement, codegenVars
<1>3. s.name \in Name /\ s.declarator \in Declarator
  <2>1. items[pos].body \in Seq(Statements)
    <3>1. items[pos].body \in UpTo(Statements, MaxBody)
      <4>1. items[pos] \in Parsed
        BY <1>1
      <4> QED BY <4>1 DEF Parsed
    <3> QED BY <3>1, UpToIsSeq, LinkageAssumption
  <2>2. s \in Statements /\ s.declares
    BY <1>1, <2>1 DEF CheckLocalDeclaration, AtStatement, Loops
  <2>3. s \in [declares : {TRUE}, name : Name, declarator : Declarators]
    <3>1. s \notin Uses
      BY <2>2 DEF Uses
    <3> QED BY <2>2, <3>1, LinkageAssumption DEF Statements, Declarators
  <2> QED BY <2>3, DeclaratorsTyped
<1>4. t \in SourceType /\ t # Undeclared
  BY <1>3, TypeOfDeclarator
<1> HIDE DEF s, t
<1>5. /\ fileVars' \in [Name -> SourceType \cup {Undeclared}]
      /\ \A m \in Name : fileVars[m] # Undeclared => fileVars'[m] = fileVars[m]
  BY <1>1, <1>2, <1>3, <1>4, InsertKeeps
<1>6. Shapes'
  BY <1>1, <1>2, <1>5 DEF LinkageInv, Shapes, HasSymbol
<1>7. \A i \in 1..Len(items) : IsChecked(i)' => IsChecked(i)
  BY <1>1, <1>2 DEF IsChecked
<1>8. defined \subseteq defined' /\ items' = items
  BY <1>2
<1>9. Checked'
  <2> SUFFICES ASSUME NEW i \in 1..Len(items), IsChecked(i)' PROVE FitsScope(i)'
    BY <1>8 DEF Checked
  <2>1. FitsScope(i)
    BY <1>7 DEF LinkageInv, Checked
  <2> QED BY <1>5, <1>8, <2>1, StaysChecked
<1>10. Unique' /\ Compiled'
  BY <1>1, <1>2, <1>7 DEF LinkageInv, Unique, Compiled, Shapes, HasSymbol
<1> QED BY <1>6, <1>9, <1>10 DEF LinkageInv

\* The steps that touch neither the scope nor the module.
LEMMA QuietInv ==
  ASSUME LinkageInv, Shapes', UNCHANGED <<items, fileVars, defined, module>>,
         \A i \in 1..Len(items) : IsChecked(i)' => IsChecked(i)
  PROVE  LinkageInv'
<1>1. Checked'
  BY DEF LinkageInv, Checked, FitsScope, ItemType
<1>2. Unique'
  BY DEF LinkageInv, Unique
<1>3. Compiled'
  BY DEF LinkageInv, Compiled, HasSymbol, ItemType
<1> QED BY <1>1, <1>2, <1>3 DEF LinkageInv

\* The same once everything is checked and only the module grows.
LEMMA CompileStepInv ==
  ASSUME LinkageInv, phase = "compile", phase' \in {"compile", "compiled", "crashed"},
         pos' \in Nat \ {0}, inner' \in Nat, inner' > 0 => pos' <= Len(items),
         module' \in [Name -> Seq([type : SourceType, body : BOOLEAN])], Compiled',
         UNCHANGED <<items, fileVars, defined>>
  PROVE  LinkageInv'
<1>1. Shapes'
  BY DEF LinkageInv, Shapes
<1>2. \A i \in 1..Len(items) : IsChecked(i)' => IsChecked(i)
  BY DEF IsChecked
<1>3. Checked'
  BY <1>2 DEF LinkageInv, Checked, FitsScope, ItemType
<1>4. Unique'
  BY <1>2 DEF LinkageInv, Unique
<1> QED BY <1>1, <1>3, <1>4 DEF LinkageInv

\* A further symbol is not the one its name refers to, unless it is the first.
LEMMA SymbolAdded ==
  ASSUME LinkageInv, pos \in 1..Len(items), NEW n \in Name, n = items[pos].name,
         NEW b \in BOOLEAN, items' = items,
         ItemType(pos) \in SourceType,
         module' = [module EXCEPT ![n] = Append(@, Symbol(ItemType(pos), b))]
  PROVE  /\ module' \in [Name -> Seq([type : SourceType, body : BOOLEAN])]
         /\ Compiled'
<1> DEFINE S == [type : SourceType, body : BOOLEAN]
           e == Symbol(ItemType(pos), b)
<1>1. e \in S /\ e.type = ItemType(pos)
  BY DEF Symbol
<1>2. module \in [Name -> Seq(S)]
  BY DEF LinkageInv, Shapes
<1> HIDE DEF S, e
<1>3. module' = [module EXCEPT ![n] = Append(module[n], e)]
  BY DEF e
<1>4. Append(module[n], e) \in Seq(S)
  BY <1>1, <1>2
<1>5. module' \in [Name -> Seq(S)]
  BY <1>2, <1>3, <1>4
<1>6. module[n] = <<>> => module'[n][1] = e
  BY <1>1, <1>2, <1>3
<1>7. module[n] # <<>> => module'[n][1] = module[n][1]
  BY <1>1, <1>2, <1>3
<1>8. \A m \in Name : m # n => module'[m] = module[m]
  BY <1>2, <1>3
<1>9. \A i : ItemType(i)' = TypeOf(items[i].declarator)
  BY DEF ItemType
<1>10. Compiled'
  <2> SUFFICES ASSUME NEW m \in Name, HasSymbol(m)'
               PROVE  \E i \in 1..Len(items) :
                        items[i].name = m /\ module'[m][1].type = ItemType(i)
    BY DEF Compiled, ItemType
  <2>1. CASE m = n /\ module[n] = <<>>
    BY <1>1, <1>6, <2>1
  <2>2. CASE m = n /\ module[n] # <<>>
    BY <1>7, <2>2 DEF LinkageInv, Compiled, HasSymbol
  <2>3. CASE m # n
    BY <1>8, <2>3 DEF LinkageInv, Compiled, HasSymbol
  <2> QED BY <2>1, <2>2, <2>3
<1> QED BY <1>5, <1>10 DEF S

LEMMA CompileDeclarationInv == LinkageInv /\ CompileDeclaration => LinkageInv'
<1> SUFFICES ASSUME LinkageInv, CompileDeclaration PROVE LinkageInv'
  OBVIOUS
<1> DEFINE n == items[pos].name
<1>1. /\ phase = "compile" /\ inner = 0 /\ pos \in Nat \ {0} /\ pos <= Len(items)
      /\ Shapes /\ items \in Seq(Parsed)
  BY DEF LinkageInv, Shapes, CompileDeclaration, AtItem
<1>2. pos \in 1..Len(items) /\ ItemType(pos) \in SourceType
  BY <1>1, EnteredItem
<1>3. IsChecked(pos)
  BY <1>1, <1>2 DEF IsChecked
<1>4. n \in Name
  BY <1>2, <1>3 DEF LinkageInv, Checked, FitsScope
<1>5. /\ module' = [module EXCEPT ![n] = Append(@, Symbol(ItemType(pos), FALSE))]
      /\ pos' = pos + 1 /\ inner' = 0 /\ UNCHANGED <<phase, items, fileVars, defined>>
  BY DEF CompileDeclaration, NextItem, semaVars, ItemType
<1> HIDE DEF n
<1>6. n = items[pos].name
  BY DEF n
<1>7. /\ module' \in [Name -> Seq([type : SourceType, body : BOOLEAN])]
      /\ Compiled'
  BY <1>2, <1>4, <1>5, <1>6, SymbolAdded
<1>8. pos' \in Nat \ {0} /\ inner' \in Nat /\ ~(inner' > 0)
  BY <1>1, <1>5
<1> QED BY <1>1, <1>5, <1>7, <1>8, CompileStepInv

LEMMA CompileDefinitionInv == LinkageInv /\ CompileDefinition => LinkageInv'
<1> SUFFICES ASSUME LinkageInv, CompileDefinition PROVE LinkageInv'
  OBVIOUS
<1> DEFINE n == items[pos].name
           t == ItemType(pos)
           S == [type : SourceType, body : BOOLEAN]
<1>1. /\ phase = "compile" /\ inner = 0 /\ pos \in Nat \ {0} /\ pos <= Len(items)
      /\ Shapes /\ items \in Seq(Parsed) /\ module \in [Name -> Seq(S)]
  BY DEF LinkageInv, Shapes, CompileDefinition, AtItem
<1>2. pos \in 1..Len(items) /\ t \in SourceType
  BY <1>1, EnteredItem
<1>3. IsChecked(pos)
  BY <1>1, <1>2 DEF IsChecked
<1>4. n \in Name
  BY <1>2, <1>3 DEF LinkageInv, Checked, FitsScope
<1>5. /\ module' = [module EXCEPT ![n] = WithDefinition(n, t)]
      /\ pos' = pos /\ inner' = 1 /\ UNCHANGED <<items, fileVars, defined>>
      /\ phase' \in {phase, "crashed"}
  BY DEF CompileDefinition, semaVars, ItemType
<1>6. n = items[pos].name /\ t = ItemType(pos)
  OBVIOUS
<1>7. module' \in [Name -> Seq(S)] /\ Compiled'
  <2>1. CASE HasFunction(n)
    <3> DEFINE q == [module[n] EXCEPT ![1].body = TRUE]
    <3>1. module[n] \in Seq(S) /\ module[n] # <<>>
      BY <1>1, <1>4, <2>1 DEF HasFunction, HasSymbol
    <3> HIDE DEF n, t
    <3>2. 1 \in 1..Len(module[n]) /\ module[n][1] \in S
      <4> HIDE DEF S
      <4> QED BY <3>1
    <3>3. [module[n][1] EXCEPT !.body = TRUE] \in S
      BY <3>2
    <3>4. q = [module[n] EXCEPT ![1] = [module[n][1] EXCEPT !.body = TRUE]]
      OBVIOUS
    <3>5. q \in Seq(S) /\ Len(q) = Len(module[n])
      <4> HIDE DEF S
      <4> QED BY <3>1, <3>2, <3>3, <3>4
    <3>6. q[1].type = module[n][1].type
      BY <3>2, <3>3, <3>4
    <3> HIDE DEF q, S
    <3>7. module' = [module EXCEPT ![n] = q]
      BY <1>5, <2>1 DEF WithDefinition, q
    <3>8. module' \in [Name -> Seq(S)]
      BY <1>1, <3>5, <3>7
    <3>9. \A m \in Name : /\ module'[m] # <<>> => module[m] # <<>>
                          /\ module'[m][1].type = module[m][1].type
      BY <1>1, <1>4, <3>1, <3>6, <3>7
    <3> QED BY <1>5, <3>8, <3>9 DEF LinkageInv, Compiled, HasSymbol, ItemType
  <2>2. CASE ~HasFunction(n)
    <3>1. module' = [module EXCEPT ![n] = Append(@, Symbol(t, TRUE))]
      BY <1>5, <2>2 DEF WithDefinition
    <3> HIDE DEF n
    <3> QED BY <1>2, <1>4, <1>5, <1>6, <3>1, SymbolAdded
  <2> QED BY <2>1, <2>2
<1> HIDE DEF n, t
<1> QED BY <1>1, <1>5, <1>7, CompileStepInv

LEMMA StepInv == LinkageInv /\ [Next]_vars_ => LinkageInv'
<1> SUFFICES ASSUME LinkageInv, [Next]_vars_ PROVE LinkageInv'
  OBVIOUS
<1>1. CASE ParseItem
  BY <1>1, ParseItemInv
<1>2. CASE FinishParse
  <2>1. phase' = "typecheck" /\ pos = 1 /\ inner = 0 /\ phase = "parse"
    BY <1>2 DEF LinkageInv, Shapes, FinishParse
  <2>2. UNCHANGED <<items, pos, inner, fileVars, defined, module>>
    BY <1>2 DEF FinishParse, semaVars, codegenVars
  <2>3. Shapes'
    BY <2>1, <2>2 DEF LinkageInv, Shapes, HasSymbol
  <2>4. \A i \in 1..Len(items) : IsChecked(i)' => IsChecked(i)
    BY <2>1, <2>2 DEF IsChecked
  <2> QED BY <2>2, <2>3, <2>4, QuietInv
<1>3. CASE CheckDeclaration
  BY <1>3, CheckDeclarationInv
<1>4. CASE CheckDefinition
  BY <1>4, CheckDefinitionInv
<1>5. CASE CheckLocalDeclaration
  BY <1>5, CheckLocalDeclarationInv
<1>6. CASE CheckUse
  <2>1. /\ phase = "typecheck" /\ inner \in Nat /\ inner > 0 /\ inner' = inner + 1
        /\ UNCHANGED <<phase, items, pos, fileVars, defined, module>>
    BY <1>6 DEF LinkageInv, Shapes, CheckUse, AtStatement, NextStatement, semaVars, codegenVars
  <2>2. Shapes'
    BY <2>1 DEF LinkageInv, Shapes, HasSymbol
  <2>3. \A i \in 1..Len(items) : IsChecked(i)' => IsChecked(i)
    BY <2>1 DEF IsChecked
  <2> QED BY <2>1, <2>2, <2>3, QuietInv
<1>7. CASE RejectItem
  <2>1. /\ phase = "typecheck" /\ phase' = "rejected"
        /\ UNCHANGED <<items, pos, inner, fileVars, defined, module>>
    BY <1>7 DEF RejectItem, IsIllegal, AtItem, AtStatement, semaVars, codegenVars
  <2>2. Shapes'
    BY <2>1 DEF LinkageInv, Shapes, HasSymbol
  <2>3. \A i \in 1..Len(items) : IsChecked(i)' => IsChecked(i)
    BY <2>1 DEF IsChecked
  <2> QED BY <2>1, <2>2, <2>3, QuietInv
<1>8. CASE FinishTypecheck
  <2>1. /\ phase = "typecheck" /\ phase' = "compile" /\ inner = 0 /\ pos > Len(items)
        /\ pos' = 1 /\ UNCHANGED <<items, inner, fileVars, defined, module>>
    BY <1>8 DEF FinishTypecheck, semaVars, codegenVars
  <2>2. Shapes'
    BY <2>1 DEF LinkageInv, Shapes, HasSymbol
  <2>3. \A i \in 1..Len(items) : IsChecked(i)' => IsChecked(i)
    BY <2>1 DEF LinkageInv, Shapes, IsChecked
  <2> QED BY <2>1, <2>2, <2>3, QuietInv
<1>9. CASE CompileDeclaration
  BY <1>9, CompileDeclarationInv
<1>10. CASE CompileDefinition
  BY <1>10, CompileDefinitionInv
<1>11. CASE CompileLocalDeclaration \/ CompileUse \/ PassOver \/ FinishCompile
  <2>1. /\ phase = "compile" /\ phase' \in {"compile", "compiled", "crashed"}
        /\ inner \in Nat /\ inner' \in {inner, inner + 1} /\ pos \in Nat \ {0}
        /\ inner' > 0 => pos' <= Len(items)
        /\ UNCHANGED <<items, pos, fileVars, defined, module>>
    BY <1>11 DEF LinkageInv, Shapes, CompileLocalDeclaration, CompileUse, PassOver,
                 FinishCompile, AtStatement, NextStatement, semaVars, codegenVars
  <2>2. Compiled'
    BY <2>1 DEF LinkageInv, Compiled, HasSymbol, ItemType
  <2>3. module' \in [Name -> Seq([type : SourceType, body : BOOLEAN])]
    BY <2>1 DEF LinkageInv, Shapes
  <2>4. pos' \in Nat \ {0} /\ inner' \in Nat
    BY <2>1
  <2> QED BY <2>1, <2>2, <2>3, <2>4, CompileStepInv
<1>12. CASE LeaveBody
  <2>1. /\ phase \in {"typecheck", "compile"} /\ inner \in Nat /\ inner > 0
        /\ pos \in Nat \ {0} /\ pos' = pos + 1 /\ inner' = 0
        /\ UNCHANGED <<phase, items, fileVars, defined, module>>
    BY <1>12 DEF LinkageInv, Shapes, LeaveBody, AtEndOfBody, NextItem, semaVars, codegenVars
  <2>2. pos' \in Nat \ {0} /\ inner' \in Nat /\ ~(inner' > 0) /\ phase' # "parse"
    BY <2>1
  <2>3. Shapes'
    BY <2>1, <2>2, Zenon DEF LinkageInv, Shapes, HasSymbol
  <2>4. \A i \in 1..Len(items) : IsChecked(i)' => IsChecked(i)
    BY <2>1 DEF IsChecked
  <2> QED BY <2>1, <2>3, <2>4, QuietInv
<1>13. CASE UNCHANGED vars_
  <2>1. UNCHANGED <<phase, items, pos, inner, fileVars, defined, module>>
    BY <1>13 DEF vars_
  <2>2. Shapes'
    BY <2>1 DEF LinkageInv, Shapes, HasSymbol
  <2>3. \A i \in 1..Len(items) : IsChecked(i)' => IsChecked(i)
    BY <2>1 DEF IsChecked
  <2> QED BY <2>1, <2>2, <2>3, QuietInv
<1> QED BY <1>1, <1>2, <1>3, <1>4, <1>5, <1>6, <1>7, <1>8, <1>9, <1>10, <1>11, <1>12, <1>13
        DEF Next

------------------------------------------------------------------------------
LEMMA InvInvariant == Spec => []LinkageInv
BY InitInv, StepInv, PTL DEF Spec

\* In the code generator each function symbol comes from an item that agrees
\* with the type of the scope, and so does the definition.
LEMMA InvArguments == LinkageInv => ArgumentsInRange
<1> SUFFICES ASSUME LinkageInv, AtItem("compile"), items[pos].definition
             PROVE  ~IndexesOutOfRange(FunctionFor(items[pos].name, ItemType(pos)),
                                       ItemType(pos))
  BY DEF ArgumentsInRange, ItemType
<1> DEFINE n == items[pos].name
           t == ItemType(pos)
<1>1. /\ phase = "compile" /\ pos \in 1..Len(items) /\ t \in SourceType
      /\ items \in Seq(Parsed)
  BY EnteredItem DEF LinkageInv, Shapes, AtItem
<1>2. \A i \in 1..Len(items) : IsChecked(i) /\ FitsScope(i)
  BY <1>1 DEF LinkageInv, Checked, IsChecked
<1>3. /\ n \in Name /\ fileVars[n] \in SourceType
      /\ StrongEquals(fileVars[n], t)
  BY <1>1, <1>2 DEF FitsScope, LinkageInv, Shapes
<1>4. Len(t.params) \in Nat
  BY <1>1 DEF SourceType
<1>5. CASE ~HasFunction(n)
  BY <1>4, <1>5 DEF FunctionFor, IndexesOutOfRange
<1>6. CASE HasFunction(n)
  <2>1. PICK i \in 1..Len(items) : items[i].name = n /\ module[n][1].type = ItemType(i)
    BY <1>3, <1>6 DEF LinkageInv, Compiled, HasFunction
  <2>2. ItemType(i) \in SourceType /\ (~ItemType(i).listed => ItemType(i).params = <<>>)
    <3>1. items[i] \in Parsed
      BY <1>1
    <3> QED BY <3>1, TypeOfDeclarator DEF Parsed, ItemType
  <2>3. Len(ItemType(i).params) \in Nat
    BY <2>2 DEF SourceType
  <2>4. Len(ItemType(i).params) <= Len(t.params)
    <3>1. CASE items[i].definition
      BY <1>1, <1>2, <1>4, <2>1, <3>1 DEF LinkageInv, Unique
    <3>2. CASE ~items[i].definition
      <4>1. StrongEquals(ItemType(i), fileVars[n])
        BY <1>2, <2>1, <3>2 DEF FitsScope
      <4> HIDE DEF t, n
      <4> QED BY <1>1, <1>3, <2>2, <4>1, StrongEqualsChain
    <3> QED BY <3>1, <3>2
  <2> QED BY <1>4, <1>6, <2>1, <2>3, <2>4 DEF FunctionFor, IndexesOutOfRange
<1> QED BY <1>5, <1>6

\* strong_equals relates functions to functions only.
LEMMA InvDefinedOnce == LinkageInv => DefinedOnce
<1> SUFFICES ASSUME LinkageInv, phase \in {"compile", "compiled"},
                    NEW i \in 1..Len(items), NEW j \in 1..Len(items),
                    items[i].name = items[j].name
             PROVE  /\ items[i].declarator.function = items[j].declarator.function
                    /\ items[i].definition /\ items[j].definition => i = j
  BY DEF DefinedOnce
<1>1. \A k \in 1..Len(items) : IsChecked(k) /\ FitsScope(k)
  BY DEF LinkageInv, Checked, IsChecked
<1>2. \A k \in 1..Len(items) :
        items[k].declarator.function = fileVars[items[k].name].function
  BY <1>1 DEF FitsScope, StrongEquals, ItemType, TypeOf
<1> QED BY <1>1, <1>2 DEF LinkageInv, Unique

(***************************************************************************)
(* In every program the type checker accepts, whatever the declarations of *)
(* a function look like and in whatever order they come, the loops over    *)
(* the arguments of the LLVM function never index past the parameters of   *)
(* the definition (function_definition.cpp:75-84 and 100-115).             *)
(***************************************************************************)
THEOREM ArgumentsStayInRange == Spec => []ArgumentsInRange
BY InvInvariant, InvArguments, PTL

(***************************************************************************)
(* No accepted program defines a function twice, or has a function and a   *)
(* variable of one name at file scope (scope.cpp:54-99).                   *)
(***************************************************************************)
THEOREM FunctionsAreDefinedOnce == Spec => []DefinedOnce
BY InvInvariant, InvDefinedOnce, PTL
------------------------------------------------------------------------------
\* Items are checked to be well formed.
WellFormed ==
  \A i \in 1..Len(items) : IsChecked(i) =>
    /\ IsWellFormed(items[i].declarator)
    /\ items[i].definition => AreNamed(ItemType(i).params)

OnlyDefinitionsHaveBodies ==
  \A i \in 1..Len(items) : ~items[i].definition => items[i].body = <<>>

\* The body of item i declares function n with type t.
DeclaresIn(i, n, t) ==
  \E k \in 1..Len(items[i].body) :
    LET s == items[i].body[k]
    IN s.declares /\ s.name = n /\ s.declarator.function /\ TypeOf(s.declarator) = t

IsOrigin(i, n) ==
  /\ IsChecked(i)
  /\ \/ /\ items[i].name = n /\ fileVars[n] = ItemType(i)
        /\ \A j \in 1..Len(items) : IsChecked(j) /\ items[j].name = n => i <= j
     \/ /\ DeclaresIn(i, n, fileVars[n])
        /\ \A j \in 1..Len(items) : IsChecked(j) /\ items[j].name = n => i < j

Origins ==
  /\ phase = "parse" => fileVars = NoNames
  /\ phase # "rejected" =>
       \A n \in Name : fileVars[n] # Undeclared => \E i \in 1..Len(items) : IsOrigin(i, n)

DeclaresObject(i, n) ==
  \E k \in 1..Len(items[i].body) :
    LET s == items[i].body[k] IN s.declares /\ s.name = n /\ ~s.declarator.function

Locals ==
  /\ locals \in [Name -> Type \cup {Undeclared}]
  /\ phase = "typecheck" /\ inner > 0 =>
       \A n \in Name : locals[n] # Undeclared =>
         n \in ParametersOf(pos) \/ DeclaresObject(pos, n)

\* The statement k of item i was checked.
IsCheckedUse(i, k) ==
  /\ IsChecked(i) /\ ~items[i].body[k].declares
  /\ phase = "typecheck" /\ i = pos => k < inner

FindsDeclaration(i, n) ==
  \/ n \in ParametersOf(i)
  \/ DeclaresObject(i, n)
  \/ \E j \in 1..i : items[j].name = n
  \/ \E j \in 1..Len(items) : DeclaresFunction(j)

UsesDeclared ==
  \A i \in 1..Len(items) : \A k \in 1..Len(items[i].body) : IsCheckedUse(i, k) =>
    FindsDeclaration(i, items[i].body[k].name)

\* What a use finds depends on the items alone.
LEMMA UsesStayDeclared ==
  ASSUME items' = items,
         \A i \in 1..Len(items) : \A k \in 1..Len(items[i].body) : IsCheckedUse(i, k)' =>
           FindsDeclaration(i, items[i].body[k].name)
  PROVE  UsesDeclared'
<1>1. ASSUME NEW i, NEW n PROVE FindsDeclaration(i, n)' <=> FindsDeclaration(i, n)
  <2>1. ParametersOf(i)' = ParametersOf(i)
    BY DEF ParametersOf
  <2>2. DeclaresObject(i, n)' <=> DeclaresObject(i, n)
    BY DEF DeclaresObject
  <2>3. \A j : DeclaresFunction(j)' <=> DeclaresFunction(j)
    BY DEF DeclaresFunction
  <2> QED BY <2>1, <2>2, <2>3 DEF FindsDeclaration
<1>2. ASSUME NEW i \in 1..Len(items), NEW k \in 1..Len(items[i].body), IsCheckedUse(i, k)'
      PROVE  FindsDeclaration(i, items[i].body[k].name)'
  <2>1. FindsDeclaration(i, items[i].body[k].name)
    BY <1>2
  <2>2. PICK n : n = items[i].body[k].name
    OBVIOUS
  <2>3. FindsDeclaration(i, n)'
    BY <1>1, <2>1, <2>2
  <2> QED BY <2>2, <2>3 DEF FindsDeclaration
<1> QED BY <1>2 DEF UsesDeclared

\* The items the code generator has been through, the open definition included.
IsCompiled(i) ==
  /\ i \in 1..Len(items) /\ phase \in {"compile", "compiled"}
  /\ i < pos \/ (i = pos /\ inner > 0)

IsFirst(i, n) ==
  /\ IsCompiled(i) /\ items[i].name = n
  /\ \A j \in 1..Len(items) : IsCompiled(j) /\ items[j].name = n => i <= j

HasBody(n) == \E i \in 1..Len(items) : IsCompiled(i) /\ items[i].definition /\ items[i].name = n

Symbols ==
  phase \in {"compile", "compiled"} =>
    \A n \in Name :
      /\ HasSymbol(n) => \E i \in 1..Len(items) : IsFirst(i, n) /\ module[n][1].type = ItemType(i)
      /\ \A i \in 1..Len(items) : IsCompiled(i) /\ items[i].name = n => HasSymbol(n)
      /\ \A k \in 1..Len(module[n]) : module[n][k].body = (k = 1 /\ HasBody(n))

\* The allocas of the body that is compiled.
Stored ==
  phase = "compile" /\ inner > 0 =>
    /\ ParametersOf(pos) \subseteq allocas \/ LosesParameters(pos)
    /\ \A k \in 1..Len(items[pos].body) :
         k < inner /\ items[pos].body[k].declares => items[pos].body[k].name \in allocas

\* The rest of the type invariant.
Typed ==
  /\ fileVars \in [Name -> Type \cup {Undeclared}]
  /\ defined \subseteq Name
  /\ module \in [Name -> Seq([type : Type, body : BOOLEAN])]
  /\ allocas \subseteq Name

\* The type checker's part of the invariant, and the code generator's.
CheckedProgram ==
  WellFormed /\ OnlyDefinitionsHaveBodies /\ Origins /\ Locals /\ UsesDeclared
CompiledProgram ==
  /\ Symbols /\ Stored /\ AcceptedProgramsCompile
  /\ phase = "compiled" => pos > Len(items)
------------------------------------------------------------------------------
\* The statements of a parsed body.
LEMMA StatementsTyped ==
  ASSUME NEW s \in Statements
  PROVE  s \in Statement
<1>1. AnyObject \in Declarator
  <2>1. PICK v \in Value : TRUE
    BY LinkageAssumption
  <2>2. [function |-> FALSE, of |-> v, params |-> <<>>] \in Objects
    BY DEF Objects
  <2>3. AnyObject \in Objects
    BY <2>2, Zenon DEF AnyObject
  <2> QED BY <2>3, DeclaratorsTyped DEF Declarators
<1>2. CASE s \in Uses
  BY <1>1, <1>2 DEF Uses, Statement
<1>3. CASE s \notin Uses
  <2>1. s \in [declares : {TRUE}, name : Name, declarator : Declarators]
    BY <1>3, LinkageAssumption DEF Statements, Declarators
  <2> QED BY <2>1, DeclaratorsTyped DEF Statement
<1> QED BY <1>2, <1>3

LEMMA BodyStatements ==
  ASSUME Shapes, NEW i \in 1..Len(items)
  PROVE  /\ items[i] \in Parsed
         /\ items[i].body \in Seq(Statements) /\ Len(items[i].body) \in Nat
         /\ \A k \in 1..Len(items[i].body) :
              /\ items[i].body[k].declares \in BOOLEAN
              /\ items[i].body[k].name \in Name
              /\ items[i].body[k].declarator \in Declarator
<1>1. items[i] \in Parsed
  BY DEF Shapes
<1>2. items[i].body \in Seq(Statements)
  BY <1>1, UpToIsSeq, LinkageAssumption DEF Parsed
<1>3. \A k \in 1..Len(items[i].body) : items[i].body[k] \in Statement
  BY <1>2, StatementsTyped
<1> QED BY <1>1, <1>2, <1>3 DEF Statement

LEMMA ParsedItems == Shapes => items \in Seq(Item)
<1> SUFFICES ASSUME Shapes PROVE items \in Seq(Item)
  OBVIOUS
<1>1. items \in Seq(Parsed)
  BY DEF Shapes
<1>2. ASSUME NEW i \in 1..Len(items) PROVE items[i] \in Item
  <2>1. items[i] \in Parsed
    BY <1>1
  <2>2. items[i].body \in Seq(Statement)
    <3>1. Statements \subseteq Statement
      BY StatementsTyped
    <3> HIDE DEF Statements, Statement
    <3> QED BY <3>1, BodyStatements
  <2> QED BY <2>1, <2>2 DEF Parsed, Item
<1> QED BY <1>1, <1>2

\* A declarator that the type checker finds well formed has no void parameter.
LEMMA WellFormedType ==
  ASSUME NEW d \in Declarator, IsWellFormed(d)
  PROVE  TypeOf(d) \in Type
<1>1. d.params \in Seq(Param) /\ d.function \in BOOLEAN /\ d.of \in Value \cup Return
  BY DEF Declarator
<1> DEFINE P == [name : Name \cup {NoName}, type : Value]
<1>2. WithoutVoid(d.params) \in Seq(P)
  <2>1. CASE IsVoidList(d.params)
    BY <2>1 DEF WithoutVoid
  <2>2. CASE ~IsVoidList(d.params)
    <3>1. ASSUME NEW i \in 1..Len(d.params) PROVE d.params[i] \in P
      <4>1. d.params[i] \in Param /\ d.params[i].type # Void
        BY <1>1, <2>2 DEF IsWellFormed
      <4> QED BY <4>1 DEF Param
    <3> HIDE DEF P
    <3>2. d.params \in Seq(P)
      BY <1>1, <3>1
    <3> QED BY <2>2, <3>2 DEF WithoutVoid
  <2> QED BY <2>1, <2>2
<1> HIDE DEF P
<1>3. TypeOf(d) \in [function : BOOLEAN, of : Value \cup Return, listed : BOOLEAN, params : Seq(P)]
  BY <1>1, <1>2 DEF TypeOf
<1> QED BY <1>3 DEF Type, P

\* The type of a parameter in the scope of its function.
LEMMA ObjectType ==
  ASSUME NEW v \in Value
  PROVE  [Undeclared EXCEPT !.of = v] \in Type
<1> DEFINE P == [name : Name \cup {NoName}, type : Value]
           r == [Undeclared EXCEPT !.of = v]
<1>1. <<>> \in Seq(P)
  OBVIOUS
<1> HIDE DEF P
<1>2. r.of = v
  BY DEF Undeclared
<1>3. r \in [function : BOOLEAN, of : Value \cup {"undeclared"}, listed : BOOLEAN, params : Seq(P)]
  BY <1>1 DEF Undeclared
<1> HIDE DEF r
<1>4. r \in Type
  BY <1>2, <1>3 DEF Type, P
<1> QED BY <1>4 DEF r

\* An insertion into a scope keeps it a scope over T.
LEMMA InsertTyped ==
  ASSUME NEW T, NEW scope \in [Name -> T], NEW n, NEW t \in T
  PROVE  Insert(scope, n, t) \in [Name -> T]
BY DEF Insert

\* The steps that neither check an item nor change what the type checker keeps.
QuietStep ==
  \/ FinishTypecheck
  \/ CompileDeclaration \/ CompileDefinition
  \/ CompileLocalDeclaration \/ CompileUse \/ PassOver
  \/ FinishCompile \/ LeaveBody
  \/ UNCHANGED vars_

LEMMA QuietItems ==
  ASSUME LinkageInv, QuietStep
  PROVE  /\ UNCHANGED <<items, semaVars>>
         /\ phase' # "rejected" => phase # "rejected"
         /\ phase' = "parse" <=> phase = "parse"
         /\ phase' = "typecheck" => phase = "typecheck"
         /\ \A i \in 1..Len(items) : IsChecked(i)' <=> IsChecked(i)
         /\ phase' = "typecheck" /\ inner' > 0 => inner > 0 /\ pos' = pos /\ inner' = inner
         /\ \A i \in 1..Len(items) : \A k \in 1..Len(items[i].body) :
              IsCheckedUse(i, k)' => IsCheckedUse(i, k)
<1>1. pos \in Nat \ {0} /\ inner \in Nat /\ Len(items) \in Nat
  BY DEF LinkageInv, Shapes
<1>2. CASE FinishTypecheck
  BY <1>1, <1>2 DEF FinishTypecheck, IsChecked, IsCheckedUse
<1>3. CASE \/ CompileDeclaration \/ CompileDefinition
           \/ CompileLocalDeclaration \/ CompileUse \/ PassOver \/ FinishCompile
  <2>1. /\ phase = "compile" /\ phase' \in {"compile", "compiled", "crashed"}
        /\ UNCHANGED <<items, semaVars>>
    BY <1>3 DEF CompileDeclaration, CompileDefinition, CompileLocalDeclaration, CompileUse,
                PassOver, FinishCompile, NextItem, NextStatement, AtItem, AtStatement
  <2>2. \A i \in 1..Len(items) : IsChecked(i)' /\ IsChecked(i)
    BY <2>1 DEF IsChecked
  <2>3. \A i \in 1..Len(items) : \A k \in 1..Len(items[i].body) :
          IsCheckedUse(i, k)' => IsCheckedUse(i, k)
    BY <2>1, <2>2 DEF IsCheckedUse
  <2> QED BY <2>1, <2>2, <2>3
<1>4. CASE LeaveBody
  <2>1. /\ phase \in {"typecheck", "compile"} /\ inner > 0
        /\ phase = "typecheck" => inner > Len(items[pos].body)
        /\ pos' = pos + 1 /\ inner' = 0 /\ UNCHANGED <<phase, items, semaVars>>
    <3>1. CASE AtEndOfBody("typecheck")
      <4>1. Len(items[pos].body) \in Nat
        BY <1>1, <3>1, BodyStatements DEF AtEndOfBody, LinkageInv, Shapes
      <4> QED BY <1>4, <3>1, <4>1 DEF LeaveBody, AtEndOfBody, Loops, NextItem
    <3>2. CASE AtEndOfBody("compile")
      BY <1>4, <3>2 DEF LeaveBody, AtEndOfBody, NextItem
    <3> QED BY <1>4, <3>1, <3>2 DEF LeaveBody
  <2>2. \A i \in 1..Len(items) : IsChecked(i)' <=> IsChecked(i)
    BY <1>1, <2>1 DEF IsChecked
  <2>3. ASSUME NEW i \in 1..Len(items), NEW k \in 1..Len(items[i].body),
               IsCheckedUse(i, k)'
        PROVE  IsCheckedUse(i, k)
    <3>1. Len(items[i].body) \in Nat
      BY BodyStatements DEF LinkageInv
    <3> QED BY <1>1, <2>1, <2>2, <2>3, <3>1 DEF IsCheckedUse
  <2> QED BY <1>1, <2>1, <2>2, <2>3
<1>5. CASE UNCHANGED vars_
  BY <1>1, <1>5 DEF vars_, semaVars, IsChecked, IsCheckedUse
<1> QED BY <1>2, <1>3, <1>4, <1>5 DEF QuietStep

\* Such a step keeps what is known of the items and the scopes.
LEMMA QuietProgram ==
  ASSUME LinkageInv, CheckedProgram, QuietStep
  PROVE  CheckedProgram'
<1> USE DEF CheckedProgram
<1>1. /\ items' = items /\ fileVars' = fileVars /\ locals' = locals
      /\ \A i \in 1..Len(items) : IsChecked(i)' <=> IsChecked(i)
  BY QuietItems DEF semaVars
<1>2. WellFormed' /\ OnlyDefinitionsHaveBodies'
  BY <1>1 DEF WellFormed, OnlyDefinitionsHaveBodies, ItemType
<1>3. Origins'
  <2>1. phase' = "parse" => fileVars' = NoNames
    BY <1>1, QuietItems DEF Origins, NoNames
  <2>2. ASSUME phase' # "rejected", NEW n \in Name, fileVars'[n] # Undeclared
        PROVE  \E i \in 1..Len(items) : IsOrigin(i, n)'
    <3>1. PICK i \in 1..Len(items) : IsOrigin(i, n)
      BY <1>1, <2>2, QuietItems DEF Origins
    <3>2. IsOrigin(i, n)'
      BY <1>1, <3>1 DEF IsOrigin, DeclaresIn, ItemType
    <3> QED BY <3>2
  <2> QED BY <1>1, <2>1, <2>2 DEF Origins
<1>4. Locals'
  BY <1>1, QuietItems DEF Locals, ParametersOf, DeclaresObject
<1>5. UsesDeclared'
  <2>1. ASSUME NEW i \in 1..Len(items), NEW k \in 1..Len(items[i].body), IsCheckedUse(i, k)'
        PROVE  FindsDeclaration(i, items[i].body[k].name)
    <3>1. IsCheckedUse(i, k)
      BY <1>1, <2>1, QuietItems
    <3> QED BY <3>1 DEF UsesDeclared
  <2> QED BY <1>1, <2>1, UsesStayDeclared
<1> QED BY <1>2, <1>3, <1>4, <1>5

\* While the program is parsed nothing is checked.
LEMMA ParsedProgram ==
  ASSUME LinkageInv, CheckedProgram, ParseItem \/ FinishParse
  PROVE  CheckedProgram'
<1>1. /\ phase = "parse" /\ phase' \in {"parse", "typecheck"} /\ pos' = 1 /\ inner' = 0
      /\ fileVars' = NoNames
  BY DEF ParseItem, FinishParse, LinkageInv, Shapes, CheckedProgram, Origins, semaVars
<1>2. \A i : ~IsChecked(i)'
  BY <1>1 DEF IsChecked
<1>3. WellFormed' /\ UsesDeclared'
  BY <1>1, <1>2 DEF WellFormed, UsesDeclared, IsCheckedUse
<1>4. Locals'
  BY <1>1 DEF ParseItem, FinishParse, semaVars, CheckedProgram, Locals
<1>5. Origins'
  BY <1>1 DEF Origins, NoNames
<1>6. OnlyDefinitionsHaveBodies'
  <2>1. CASE ParseItem
    <3>1. items \in Seq(Parsed)
      BY DEF LinkageInv, Shapes
    <3>2. ASSUME NEW e, items' = Append(items, e), e.definition \/ e.body = <<>>
          PROVE  OnlyDefinitionsHaveBodies'
      <4>1. \A i \in 1..Len(items') : \/ i \in 1..Len(items) /\ items'[i] = items[i]
                                      \/ items'[i] = e
        BY <3>1, <3>2
      <4> QED BY <3>2, <4>1 DEF CheckedProgram, OnlyDefinitionsHaveBodies
    <3>3. PICK d \in Declarators, n \in External \cup {NoName} :
            \/ items' = Append(items, [definition |-> FALSE, name |-> n,
                                       declarator |-> d, body |-> <<>>])
            \/ \E b \in UpTo(Statements, MaxBody) :
                 items' = Append(items, [definition |-> TRUE, name |-> n,
                                         declarator |-> d, body |-> b])
      BY <2>1 DEF ParseItem
    <3> QED BY <3>2, <3>3
  <2>2. CASE FinishParse
    BY <2>2 DEF FinishParse, CheckedProgram, OnlyDefinitionsHaveBodies
  <2> QED BY <2>1, <2>2
<1> QED BY <1>3, <1>4, <1>5, <1>6 DEF CheckedProgram

\* An item that is checked is well formed, and the origin of its name if that
\* was not declared.
LEMMA ItemProgram ==
  ASSUME LinkageInv, CheckedProgram, phase = "typecheck", pos \in 1..Len(items), inner = 0,
         UNCHANGED <<phase, items>>,
         NEW p \in 1..Len(items), p = pos,
         NEW n \in Name, n = items[p].name, NEW t, t = ItemType(p),
         \/ pos' = pos + 1 /\ inner' = 0 /\ ~items[pos].definition
         \/ pos' = pos /\ inner' = 1 /\ AreNamed(ItemType(pos).params),
         IsWellFormed(items[pos].declarator),
         fileVars' = Insert(fileVars, n, t)
  PROVE  WellFormed' /\ OnlyDefinitionsHaveBodies' /\ Origins' /\ UsesDeclared'
<1> USE DEF CheckedProgram
<1>1. pos \in Nat \ {0} /\ Len(items) \in Nat /\ t \in SourceType /\ t # Undeclared
      /\ fileVars \in [Name -> SourceType \cup {Undeclared}]
  <2>1. Shapes
    BY DEF LinkageInv
  <2>2. Len(items) \in Nat
    BY <2>1 DEF Shapes
  <2>3. pos <= Len(items)
    BY <2>2
  <2>4. ItemType(pos) \in SourceType /\ ItemType(pos) # Undeclared
    BY <2>1, <2>3, EnteredItem
  <2> QED BY <2>1, <2>2, <2>4 DEF Shapes
<1>2. \A i \in 1..Len(items) : IsChecked(i)' <=> IsChecked(i) \/ i = pos
  BY <1>1 DEF IsChecked
<1>3. \A i \in 1..Len(items) : IsChecked(i) => i < pos
  BY <1>1 DEF IsChecked
<1>4. WellFormed' /\ OnlyDefinitionsHaveBodies'
  BY <1>2 DEF WellFormed, OnlyDefinitionsHaveBodies, ItemType
<1>5. /\ fileVars'[n] = IF fileVars[n] = Undeclared THEN t ELSE fileVars[n]
      /\ \A m \in Name : m # n => fileVars'[m] = fileVars[m]
  BY <1>1 DEF Insert
<1>6. Origins'
  <2> SUFFICES ASSUME NEW m \in Name, fileVars'[m] # Undeclared
               PROVE  \E i \in 1..Len(items) : IsOrigin(i, m)'
    BY DEF Origins
  <2>1. CASE m = n /\ fileVars[n] = Undeclared
    <3>1. \A j \in 1..Len(items) : IsChecked(j) => items[j].name # n
      BY <2>1 DEF LinkageInv, Checked, FitsScope
    <3>2. fileVars'[n] = t /\ ItemType(p)' = t
      BY <1>5, <2>1 DEF ItemType
    <3>3. IsOrigin(p, n)'
      BY <1>1, <1>2, <3>1, <3>2 DEF IsOrigin
    <3> QED BY <2>1, <3>3
  <2>2. CASE ~(m = n /\ fileVars[n] = Undeclared)
    <3>1. fileVars'[m] = fileVars[m]
      BY <1>5, <2>2
    <3>2. PICK i \in 1..Len(items) : IsOrigin(i, m)
      BY <3>1 DEF Origins
    <3>3. i < pos
      BY <1>3, <3>2 DEF IsOrigin
    <3>4. IsOrigin(i, m)'
      BY <1>1, <1>2, <3>1, <3>2, <3>3, SMTT(20) DEF IsOrigin, DeclaresIn, ItemType
    <3> QED BY <3>4
  <2> QED BY <2>1, <2>2
<1>7. UsesDeclared'
  <2>1. items' = items
    OBVIOUS
  <2>2. ASSUME NEW i \in 1..Len(items), NEW k \in 1..Len(items[i].body), IsCheckedUse(i, k)'
        PROVE  IsCheckedUse(i, k)
    <3>1. CASE i = pos
      <4>1. items[pos].body = <<>> \/ (pos' = pos /\ inner' = 1)
        BY DEF OnlyDefinitionsHaveBodies
      <4> QED BY <2>2, <3>1, <4>1 DEF IsCheckedUse
    <3>2. CASE i # pos
      BY <1>2, <2>2, <3>2 DEF IsCheckedUse
    <3> QED BY <3>1, <3>2
  <2>3. \A i \in 1..Len(items) : \A k \in 1..Len(items[i].body) :
          IsCheckedUse(i, k)' => FindsDeclaration(i, items[i].body[k].name)
    BY <2>2 DEF UsesDeclared
  <2> QED BY <2>1, <2>3, UsesStayDeclared
<1> QED BY <1>4, <1>6, <1>7

LEMMA CheckDeclarationProgram ==
  ASSUME LinkageInv, CheckedProgram, CheckDeclaration
  PROVE  CheckedProgram'
<1>1. /\ phase = "typecheck" /\ inner = 0 /\ pos \in 1..Len(items) /\ items[pos].name \in Name
      /\ ~items[pos].definition /\ IsWellFormed(items[pos].declarator)
  BY EnteredItem DEF LinkageInv, Shapes, CheckDeclaration, AtItem, IsDeclarable, Parsed
<1>2. /\ fileVars' = Insert(fileVars, items[pos].name, ItemType(pos))
      /\ pos' = pos + 1 /\ inner' = 0 /\ UNCHANGED <<phase, items>>
  BY DEF CheckDeclaration, NextItem, ItemType
<1>3. WellFormed' /\ OnlyDefinitionsHaveBodies' /\ Origins' /\ UsesDeclared'
  BY <1>1, <1>2, ItemProgram
<1>4. Locals'
  BY <1>2 DEF CheckDeclaration, CheckedProgram, Locals
<1> QED BY <1>3, <1>4 DEF CheckedProgram

LEMMA CheckDefinitionProgram ==
  ASSUME LinkageInv, CheckedProgram, CheckDefinition
  PROVE  CheckedProgram'
<1>1. /\ phase = "typecheck" /\ inner = 0 /\ pos \in 1..Len(items) /\ items[pos].name \in Name
      /\ IsWellFormed(items[pos].declarator) /\ AreNamed(ItemType(pos).params)
  BY EnteredItem DEF LinkageInv, Shapes, CheckDefinition, AtItem, IsDefinable, ItemType
<1>2. /\ fileVars' = Insert(fileVars, items[pos].name, ItemType(pos))
      /\ pos' = pos /\ inner' = 1 /\ UNCHANGED <<phase, items>>
  BY DEF CheckDefinition, EnterBody, ItemType
<1>3. WellFormed' /\ OnlyDefinitionsHaveBodies' /\ Origins' /\ UsesDeclared'
  BY <1>1, <1>2, ItemProgram
<1>4. Locals'
  <2>1. \A n \in Name : locals'[n] # Undeclared => n \in ParametersOf(pos)
    BY DEF CheckDefinition, ParametersOf
  <2> DEFINE ps == TypeOf(items[pos].declarator).params
             P  == [name : Name \cup {NoName}, type : Value]
             Of(n) == ps[CHOOSE k \in 1..Len(ps) : ps[k].name = n].type
  <2>2. ps \in Seq(P)
    <3>1. items[pos].declarator \in Declarator
      BY <1>1, BodyStatements DEF LinkageInv, Parsed
    <3> QED BY <1>1, <3>1, WellFormedType DEF Type
  <2>3. locals' = [n \in Name |-> IF n \in ParamNames(ps) THEN [Undeclared EXCEPT !.of = Of(n)]
                                  ELSE Undeclared]
    BY Zenon DEF CheckDefinition
  <2> HIDE DEF ps, P
  <2>4. ASSUME NEW n \in ParamNames(ps)
        PROVE  [Undeclared EXCEPT !.of = Of(n)] \in Type
    <3> DEFINE c == CHOOSE k \in 1..Len(ps) : ps[k].name = n
    <3>1. c \in 1..Len(ps)
      BY DEF ParamNames
    <3> HIDE DEF c
    <3>2. ps[c] \in P
      BY <2>2, <3>1
    <3>3. Of(n) \in Value
      BY <3>2 DEF c, P
    <3> QED BY <3>3, ObjectType
  <2>5. locals' \in [Name -> Type \cup {Undeclared}]
    <3> HIDE DEF Of, Type, Undeclared
    <3> QED BY <2>3, <2>4
  <2> QED BY <1>2, <2>1, <2>5 DEF Locals, ParametersOf
<1> QED BY <1>3, <1>4 DEF CheckedProgram

\* What the statements of a body leave as it was.
LEMMA StatementProgram ==
  ASSUME LinkageInv, CheckedProgram, phase = "typecheck", inner > 0,
         UNCHANGED <<phase, items, pos>>, inner' = inner + 1
  PROVE  /\ WellFormed' /\ OnlyDefinitionsHaveBodies' /\ pos \in 1..Len(items)
         /\ \A i \in 1..Len(items) : IsChecked(i)' <=> IsChecked(i)
         /\ \A i \in 1..Len(items) : IsChecked(i) <=> i <= pos
         /\ \A i \in 1..Len(items) : \A k \in 1..Len(items[i].body) :
              IsCheckedUse(i, k)' => IsCheckedUse(i, k) \/ (i = pos /\ k = inner)
<1>1. pos \in 1..Len(items) /\ inner \in Nat /\ Len(items) \in Nat
  BY DEF LinkageInv, Shapes
<1>2. \A i \in 1..Len(items) : IsChecked(i)' <=> IsChecked(i)
  BY <1>1 DEF IsChecked
<1>3. WellFormed' /\ OnlyDefinitionsHaveBodies'
  BY <1>2 DEF CheckedProgram, WellFormed, OnlyDefinitionsHaveBodies, ItemType
<1>4. \A i \in 1..Len(items) : IsChecked(i) <=> i <= pos
  BY <1>1 DEF IsChecked
<1>5. ASSUME NEW i \in 1..Len(items), NEW k \in 1..Len(items[i].body), IsCheckedUse(i, k)'
      PROVE  IsCheckedUse(i, k) \/ (i = pos /\ k = inner)
  <2>1. Len(items[i].body) \in Nat
    BY BodyStatements DEF LinkageInv
  <2> QED BY <1>1, <1>2, <1>5, <2>1 DEF IsCheckedUse
<1> QED BY <1>1, <1>2, <1>3, <1>4, <1>5

LEMMA CheckLocalDeclarationProgram ==
  ASSUME LinkageInv, CheckedProgram, CheckLocalDeclaration
  PROVE  CheckedProgram'
<1> USE DEF CheckedProgram
<1>1. PICK p \in 1..Len(items) : \E k \in 1..Len(items[p].body) : p = pos /\ k = inner
  <2>1. pos \in 1..Len(items) /\ inner \in Nat /\ inner > 0 /\ inner <= Len(items[pos].body)
    <3>1. pos \in 1..Len(items) /\ inner \in Nat /\ inner > 0
      BY DEF LinkageInv, Shapes, CheckLocalDeclaration, AtStatement
    <3>2. Len(items[pos].body) \in Nat
      BY <3>1, BodyStatements DEF LinkageInv
    <3> QED BY <3>1, <3>2 DEF CheckLocalDeclaration, AtStatement, Loops
  <2> QED BY <2>1
<1>2. PICK k \in 1..Len(items[p].body) : p = pos /\ k = inner
  BY <1>1
<1>3. PICK s : s = items[p].body[k]
  OBVIOUS
<1>4. PICK t : t = TypeOf(s.declarator)
  OBVIOUS
<1>5. /\ phase = "typecheck" /\ inner > 0 /\ s.declares
      /\ UNCHANGED <<phase, items, pos>> /\ inner' = inner + 1
      /\ \/ /\ s.declarator.function /\ fileVars' = Insert(fileVars, s.name, t) /\ locals' = locals
         \/ /\ ~s.declarator.function /\ locals' = Insert(locals, s.name, t)
            /\ fileVars' = fileVars
  BY <1>2, <1>3, <1>4 DEF CheckLocalDeclaration, AtStatement, NextStatement, TypeOf
<1>6. /\ s.name \in Name /\ t \in SourceType /\ t # Undeclared
      /\ fileVars \in [Name -> SourceType \cup {Undeclared}]
  <2>1. s.name \in Name /\ s.declarator \in Declarator
    BY <1>2, <1>3, BodyStatements DEF LinkageInv
  <2> QED BY <1>4, <2>1, TypeOfDeclarator DEF LinkageInv, Shapes
<1>7. Origins'
  <2> SUFFICES ASSUME NEW m \in Name, fileVars'[m] # Undeclared
               PROVE  \E i \in 1..Len(items) : IsOrigin(i, m)'
    BY <1>5 DEF Origins
  <2>1. CASE fileVars[m] # Undeclared
    <3>1. fileVars'[m] = fileVars[m]
      BY <1>5, <1>6, <2>1, InsertKeeps
    <3>2. PICK i \in 1..Len(items) : IsOrigin(i, m)
      BY <1>5, <2>1 DEF Origins
    <3>3. IsOrigin(i, m)'
      BY <1>5, <3>1, <3>2, StatementProgram DEF IsOrigin, DeclaresIn, ItemType
    <3> QED BY <3>3
  <2>2. CASE fileVars[m] = Undeclared
    <3>1. s.declarator.function /\ m = s.name /\ fileVars'[m] = t
      BY <1>5, <1>6, <2>2 DEF Insert
    <3>2. DeclaresIn(p, m, t)
      BY <1>3, <1>4, <1>5, <3>1 DEF DeclaresIn
    <3>3. IsChecked(p) /\ \A j \in 1..Len(items) : IsChecked(j) => items[j].name # m
      BY <1>2, <1>5, <2>2, StatementProgram DEF LinkageInv, Checked, FitsScope
    <3>4. IsOrigin(p, m)'
      BY <1>5, <3>1, <3>2, <3>3, StatementProgram DEF IsOrigin, DeclaresIn
    <3> QED BY <3>4
  <2> QED BY <2>1, <2>2
<1>8. locals' \in [Name -> Type \cup {Undeclared}]
  <2>1. IsWellFormed(s.declarator)
    BY <1>2, <1>3 DEF CheckLocalDeclaration, IsDeclarable
  <2>2. t \in Type
    BY <1>2, <1>3, <1>4, <2>1, BodyStatements, WellFormedType DEF LinkageInv
  <2> HIDE DEF Type, Undeclared
  <2>3. locals \in [Name -> Type \cup {Undeclared}] /\ t \in Type \cup {Undeclared}
    BY <2>2 DEF Locals
  <2>4. Insert(locals, s.name, t) \in [Name -> Type \cup {Undeclared}]
    BY <2>3, InsertTyped
  <2> QED BY <1>5, <2>3, <2>4
<1>9. Locals'
  <2> SUFFICES ASSUME NEW n \in Name, locals'[n] # Undeclared
               PROVE  n \in ParametersOf(p) \/ DeclaresObject(p, n)
    BY <1>2, <1>5, <1>8 DEF Locals, ParametersOf, DeclaresObject
  <2>1. CASE locals[n] # Undeclared
    BY <1>2, <1>5, <2>1 DEF Locals
  <2>2. CASE locals[n] = Undeclared
    <3>1. ~s.declarator.function /\ n = s.name
      BY <1>5, <1>6, <2>2 DEF Locals, Insert
    <3> QED BY <1>2, <1>3, <1>5, <3>1 DEF DeclaresObject
  <2> QED BY <2>1, <2>2
<1>10. UsesDeclared'
  <2> SUFFICES ASSUME NEW i \in 1..Len(items), NEW j \in 1..Len(items[i].body),
                      IsCheckedUse(i, j)'
               PROVE  FindsDeclaration(i, items[i].body[j].name)
    BY <1>5, UsesStayDeclared
  <2>1. ~(i = p /\ j = k)
    BY <1>3, <1>5 DEF IsCheckedUse
  <2>2. IsCheckedUse(i, j)
    BY <1>2, <1>5, <2>1, StatementProgram
  <2> QED BY <2>2 DEF UsesDeclared
<1> QED BY <1>5, <1>7, <1>9, <1>10, StatementProgram

LEMMA CheckUseProgram ==
  ASSUME LinkageInv, CheckedProgram, CheckUse
  PROVE  CheckedProgram'
<1> USE DEF CheckedProgram
<1>1. /\ phase = "typecheck" /\ inner > 0 /\ IsDeclared(items[pos].body[inner].name)
      /\ UNCHANGED <<phase, items, pos, fileVars, locals>> /\ inner' = inner + 1
  BY DEF CheckUse, AtStatement, NextStatement, semaVars
<1>2. Origins'
  <2> SUFFICES ASSUME NEW m \in Name, fileVars'[m] # Undeclared
               PROVE  \E i \in 1..Len(items) : IsOrigin(i, m)'
    BY <1>1 DEF Origins
  <2>1. PICK i \in 1..Len(items) : IsOrigin(i, m)
    BY <1>1 DEF Origins
  <2>2. IsOrigin(i, m)'
    BY <1>1, <2>1, StatementProgram DEF IsOrigin, DeclaresIn, ItemType
  <2> QED BY <2>2
<1>3. Locals'
  BY <1>1 DEF Locals, ParametersOf, DeclaresObject
<1>4. UsesDeclared'
  <2> SUFFICES ASSUME NEW i \in 1..Len(items), NEW j \in 1..Len(items[i].body),
                      IsCheckedUse(i, j)'
               PROVE  FindsDeclaration(i, items[i].body[j].name)
    BY <1>1, UsesStayDeclared
  <2>1. CASE IsCheckedUse(i, j)
    BY <2>1 DEF UsesDeclared
  <2>2. CASE i = pos /\ j = inner
    <3>1. PICK m \in Name : m = items[i].body[j].name
      BY BodyStatements DEF LinkageInv
    <3>2. CASE locals[m] # Undeclared
      BY <1>1, <2>2, <3>1, <3>2 DEF Locals, FindsDeclaration
    <3>3. CASE fileVars[m] # Undeclared
      <4>1. PICK l \in 1..Len(items) : IsOrigin(l, m)
        BY <1>1, <3>3 DEF Origins
      <4>2. l \in 1..i
        BY <1>1, <2>2, <4>1, StatementProgram DEF IsOrigin
      <4>3. items[l].name = m \/ DeclaresFunction(l)
        BY <4>1 DEF IsOrigin, DeclaresIn, DeclaresFunction
      <4> QED BY <3>1, <4>2, <4>3 DEF FindsDeclaration
    <3>4. locals[m] # Undeclared \/ fileVars[m] # Undeclared
      BY <1>1, <2>2, <3>1 DEF IsDeclared
    <3> QED BY <3>1, <3>2, <3>3, <3>4
  <2> QED BY <1>1, <2>1, <2>2, StatementProgram
<1> QED BY <1>1, <1>2, <1>3, <1>4, StatementProgram

LEMMA RejectItemProgram ==
  ASSUME LinkageInv, CheckedProgram, RejectItem
  PROVE  CheckedProgram'
<1>1. phase' = "rejected" /\ items' = items /\ locals' = locals
  BY DEF RejectItem, semaVars
<1>2. \A i : ~IsChecked(i)'
  BY <1>1 DEF IsChecked
<1> QED BY <1>1, <1>2 DEF CheckedProgram, WellFormed, OnlyDefinitionsHaveBodies, Origins, Locals,
                          UsesDeclared, IsCheckedUse

LEMMA CheckedProgramStep ==
  ASSUME LinkageInv, CheckedProgram, [Next]_vars_
  PROVE  CheckedProgram'
BY ParsedProgram, CheckDeclarationProgram, CheckDefinitionProgram, CheckLocalDeclarationProgram,
   CheckUseProgram, RejectItemProgram, QuietProgram DEF Next, QuietStep

LEMMA CheckedProgramInvariant == Spec => [](LinkageInv /\ CheckedProgram)
<1>1. Init => CheckedProgram
  <2> SUFFICES ASSUME Init PROVE CheckedProgram
    OBVIOUS
  <2>1. phase = "parse" /\ items = <<>> /\ Len(items) = 0 /\ fileVars = NoNames
    BY DEF Init
  <2>2. \A n \in Name : fileVars[n] = Undeclared
    BY <2>1 DEF NoNames
  <2>3. locals \in [Name -> Type \cup {Undeclared}]
    BY DEF Init, NoNames
  <2> QED BY <2>1, <2>2, <2>3 DEF CheckedProgram, WellFormed, OnlyDefinitionsHaveBodies, Origins, Locals,
                            UsesDeclared
<1>2. LinkageInv /\ CheckedProgram /\ [Next]_vars_ => LinkageInv' /\ CheckedProgram'
  BY StepInv, CheckedProgramStep
<1> QED BY <1>1, <1>2, InitInv, PTL DEF Spec

------------------------------------------------------------------------------
(***************************************************************************)
(* Type correctness.                                                       *)
(***************************************************************************)
\* The statement that a loop over a body is at.
LEMMA EnteredLoop ==
  ASSUME LinkageInv, AtStatement("compile")
  PROVE  /\ pos \in 1..Len(items) /\ inner \in Nat /\ inner > 0
         /\ \E k \in 1..Len(items[pos].body) :
              /\ LoopStatement = items[pos].body[k]
              /\ k = IF InFirstLoop THEN inner ELSE inner - Len(items[pos].body)
<1>1. pos \in 1..Len(items) /\ inner \in Nat /\ inner > 0
  BY DEF LinkageInv, Shapes, AtStatement
<1>2. Len(items[pos].body) \in Nat /\ inner <= 2 * Len(items[pos].body)
  BY <1>1, BodyStatements DEF LinkageInv, AtStatement, Loops
<1> DEFINE k == IF InFirstLoop THEN inner ELSE inner - Len(items[pos].body)
<1>3. k \in 1..Len(items[pos].body)
  BY <1>1, <1>2 DEF InFirstLoop
<1> QED BY <1>1, <1>3 DEF LoopStatement

\* Each item the code generator enters has a well formed type.
LEMMA EnteredType ==
  ASSUME LinkageInv, CheckedProgram, AtItem("compile")
  PROVE  /\ pos \in 1..Len(items) /\ IsChecked(pos) /\ FitsScope(pos)
         /\ ItemType(pos) \in Type
         /\ items[pos].definition => AreNamed(ItemType(pos).params)
<1>1. phase = "compile" /\ pos \in 1..Len(items)
  BY DEF LinkageInv, Shapes, AtItem
<1>2. IsChecked(pos)
  BY <1>1 DEF IsChecked
<1>3. items[pos].declarator \in Declarator
  BY <1>1, BodyStatements DEF LinkageInv, Parsed
<1> QED BY <1>1, <1>2, <1>3, WellFormedType
        DEF LinkageInv, Checked, CheckedProgram, WellFormed, ItemType

LEMMA TypedScope ==
  ASSUME LinkageInv, Typed,
         NEW d \in Declarator, NEW n \in Name, IsWellFormed(d),
         fileVars' = Insert(fileVars, n, TypeOf(d))
  PROVE  fileVars' \in [Name -> Type \cup {Undeclared}]
<1>1. TypeOf(d) \in Type
  BY WellFormedType
<1> HIDE DEF Type, Undeclared
<1>2. fileVars \in [Name -> Type \cup {Undeclared}]
  BY DEF Typed
<1> QED BY <1>1, <1>2 DEF Insert

LEMMA CompileDefinitionTyped ==
  ASSUME LinkageInv, CheckedProgram, Typed, CompileDefinition
  PROVE  Typed'
<1> DEFINE n == items[pos].name
           t == ItemType(pos)
           S == [type : Type, body : BOOLEAN]
<1>1. /\ module' = [module EXCEPT ![n] = WithDefinition(n, t)]
      /\ allocas' = ArgumentNames(FunctionFor(n, t), t)
      /\ UNCHANGED <<fileVars, defined>>
  BY DEF CompileDefinition, semaVars, ItemType
<1>2. n \in Name /\ t \in Type /\ AreNamed(t.params)
  BY EnteredType DEF CompileDefinition, FitsScope
<1>3. module \in [Name -> Seq(S)] /\ Symbol(t, TRUE) \in S
  BY <1>2 DEF Typed, Symbol
<1>4. ArgumentNames(FunctionFor(n, t), t) \subseteq Name
  <2> DEFINE P == [name : Name \cup {NoName}, type : Value]
  <2> HIDE DEF t
  <2>1. t.params \in Seq(P)
    BY <1>2 DEF Type
  <2>2. ASSUME NEW i \in 1..Len(t.params) PROVE t.params[i].name \in Name
    <3>1. t.params[i] \in P
      <4> HIDE DEF P
      <4> QED BY <2>1
    <3>2. t.params[i].name # NoName
      BY <1>2 DEF AreNamed
    <3> QED BY <3>1, <3>2
  <2> QED BY <2>2 DEF ArgumentNames
<1> HIDE DEF n, t
<1>5. WithDefinition(n, t) \in Seq(S)
  <2>1. CASE HasFunction(n)
    <3>1. module[n] \in Seq(S) /\ module[n] # <<>>
      BY <1>2, <1>3, <2>1 DEF HasFunction, HasSymbol
    <3>2. 1 \in 1..Len(module[n]) /\ module[n][1] \in S
      <4> HIDE DEF S
      <4> QED BY <3>1
    <3>3. [module[n][1] EXCEPT !.body = TRUE] \in S
      BY <3>2
    <3> DEFINE q == [module[n] EXCEPT ![1] = [module[n][1] EXCEPT !.body = TRUE]]
    <3>4. WithDefinition(n, t) = q
      BY <2>1 DEF WithDefinition
    <3>5. q \in Seq(S)
      <4> HIDE DEF S
      <4> QED BY <3>1, <3>2, <3>3
    <3> HIDE DEF q
    <3> QED BY <3>4, <3>5
  <2>2. CASE ~HasFunction(n)
    <3> HIDE DEF S
    <3> DEFINE e == Symbol(t, TRUE)
    <3>1. module[n] \in Seq(S) /\ e \in S
      BY <1>2, <1>3
    <3>2. WithDefinition(n, t) = Append(module[n], e)
      BY <2>2 DEF WithDefinition
    <3> HIDE DEF e
    <3> QED BY <3>1, <3>2
  <2> QED BY <2>1, <2>2
<1>6. module' \in [Name -> Seq(S)]
  <2> HIDE DEF S
  <2> QED BY <1>1, <1>3, <1>5
<1> QED BY <1>1, <1>4, <1>6 DEF Typed

LEMMA TypedStep ==
  ASSUME LinkageInv, CheckedProgram, Typed, [Next]_vars_
  PROVE  Typed'
<1>1. CASE CheckDeclaration
  <2>1. /\ pos \in 1..Len(items) /\ items[pos].name \in Name /\ items[pos].declarator \in Declarator
        /\ IsWellFormed(items[pos].declarator)
    BY <1>1, EnteredItem DEF LinkageInv, Shapes, CheckDeclaration, AtItem, IsDeclarable, Parsed
  <2> QED BY <1>1, <2>1, TypedScope DEF CheckDeclaration, codegenVars, Typed
<1>2. CASE CheckDefinition
  <2>1. /\ pos \in 1..Len(items) /\ items[pos].name \in Name /\ items[pos].declarator \in Declarator
        /\ IsWellFormed(items[pos].declarator)
    BY <1>2, EnteredItem DEF LinkageInv, Shapes, CheckDefinition, AtItem, IsDefinable, ItemType, Parsed
  <2>2. fileVars' = Insert(fileVars, items[pos].name, TypeOf(items[pos].declarator))
    BY <1>2 DEF CheckDefinition
  <2>3. fileVars' \in [Name -> Type \cup {Undeclared}]
    BY <2>1, <2>2, TypedScope
  <2>4. defined' \subseteq Name /\ UNCHANGED codegenVars
    BY <1>2, <2>1 DEF CheckDefinition, Typed
  <2> QED BY <2>3, <2>4 DEF codegenVars, Typed
<1>3. CASE CheckLocalDeclaration
  <2>1. PICK s : s = items[pos].body[inner]
    OBVIOUS
  <2>2. s.name \in Name /\ s.declarator \in Declarator /\ IsWellFormed(s.declarator)
    <3>1. pos \in 1..Len(items) /\ inner \in Nat /\ inner > 0
      BY <1>3 DEF LinkageInv, Shapes, CheckLocalDeclaration, AtStatement
    <3>2. inner \in 1..Len(items[pos].body)
      BY <1>3, <3>1, BodyStatements DEF LinkageInv, CheckLocalDeclaration, AtStatement, Loops
    <3> QED BY <1>3, <2>1, <3>1, <3>2, BodyStatements
            DEF LinkageInv, CheckLocalDeclaration, IsDeclarable
  <2>3. /\ fileVars' = fileVars \/ fileVars' = Insert(fileVars, s.name, TypeOf(s.declarator))
        /\ UNCHANGED <<defined, module, allocas>>
    BY <1>3, <2>1 DEF CheckLocalDeclaration, codegenVars
  <2>4. fileVars' \in [Name -> Type \cup {Undeclared}]
    BY <2>2, <2>3, TypedScope DEF Typed
  <2> QED BY <2>3, <2>4 DEF Typed
<1>4. CASE CompileDeclaration
  <2> DEFINE S == [type : Type, body : BOOLEAN]
             e == Symbol(ItemType(pos), FALSE)
  <2>1. items[pos].name \in Name /\ e \in S
    BY <1>4, EnteredType DEF CompileDeclaration, FitsScope, Symbol
  <2>2. /\ module' = [module EXCEPT ![items[pos].name] = Append(@, e)]
        /\ UNCHANGED <<fileVars, defined, allocas>>
    BY <1>4 DEF CompileDeclaration, semaVars, ItemType
  <2>3. module' \in [Name -> Seq(S)]
    <3> HIDE DEF S, e
    <3>1. module \in [Name -> Seq(S)]
      BY DEF Typed, S
    <3> QED BY <2>1, <2>2, <3>1
  <2> QED BY <2>2, <2>3 DEF Typed
<1>5. CASE CompileDefinition
  BY <1>5, CompileDefinitionTyped
<1>6. CASE CompileLocalDeclaration
  <2>1. LoopStatement.name \in Name
    BY <1>6, EnteredLoop, BodyStatements DEF LinkageInv, CompileLocalDeclaration
  <2> QED BY <1>6, <2>1 DEF CompileLocalDeclaration, semaVars, Typed
<1>7. CASE \/ ParseItem \/ FinishParse \/ CheckUse \/ RejectItem \/ FinishTypecheck
           \/ CompileUse \/ PassOver \/ FinishCompile \/ LeaveBody \/ UNCHANGED vars_
  <2>1. UNCHANGED <<fileVars, defined, module, allocas>>
    BY <1>7 DEF ParseItem, FinishParse, CheckUse, RejectItem, FinishTypecheck, CompileUse, PassOver,
                FinishCompile, LeaveBody, semaVars, codegenVars, vars_
  <2> QED BY <2>1 DEF Typed
<1> QED BY <1>1, <1>2, <1>3, <1>4, <1>5, <1>6, <1>7 DEF Next

LEMMA TypedInvariant == Spec => []Typed
<1>1. Init => Typed
  <2> SUFFICES ASSUME Init PROVE Typed
    OBVIOUS
  <2>1. <<>> \in Seq([type : Type, body : BOOLEAN])
    OBVIOUS
  <2> QED BY <2>1 DEF Init, NoNames, Typed
<1>2. LinkageInv /\ CheckedProgram /\ Typed /\ [Next]_vars_ => Typed'
  BY TypedStep
<1> QED BY <1>1, <1>2, CheckedProgramInvariant, PTL DEF Spec

------------------------------------------------------------------------------
(***************************************************************************)
(* The symbols of the module.                                              *)
(***************************************************************************)
LEMMA SymbolsKept ==
  ASSUME Symbols, phase \in {"compile", "compiled"}, UNCHANGED <<items, module>>,
         \A i \in 1..Len(items) : IsCompiled(i)' <=> IsCompiled(i)
  PROVE  Symbols'
<1> SUFFICES ASSUME NEW n \in Name
             PROVE  /\ HasSymbol(n) => \E i \in 1..Len(items) :
                                           IsFirst(i, n)' /\ module[n][1].type = ItemType(i)
                    /\ \A i \in 1..Len(items) : IsCompiled(i)' /\ items[i].name = n => HasSymbol(n)
                    /\ \A k \in 1..Len(module[n]) : module[n][k].body = (k = 1 /\ HasBody(n)')
  BY DEF Symbols, HasSymbol, ItemType
<1>1. HasBody(n)' <=> HasBody(n)
  BY DEF HasBody
<1>2. \A i \in 1..Len(items) : IsFirst(i, n)' <=> IsFirst(i, n)
  BY DEF IsFirst
<1>3. /\ HasSymbol(n) => \E i \in 1..Len(items) : IsFirst(i, n) /\ module[n][1].type = ItemType(i)
      /\ \A i \in 1..Len(items) : IsCompiled(i) /\ items[i].name = n => HasSymbol(n)
      /\ \A k \in 1..Len(module[n]) : module[n][k].body = (k = 1 /\ HasBody(n))
  BY DEF Symbols
<1> QED BY <1>1, <1>2, <1>3

\* The item that is entered adds a symbol or gives the first one its body.
LEMMA SymbolsGrow ==
  ASSUME LinkageInv, Symbols, phase = "compile", phase' = "compile", items' = items,
         NEW p \in 1..Len(items), p = pos, NEW n \in Name, n = items[p].name,
         inner = 0, (pos' = pos + 1 /\ inner' = 0) \/ (pos' = pos /\ inner' = 1),
         \A m \in Name : m # n => module'[m] = module[m],
         module'[n] # <<>>,
         module'[n][1].type = IF HasSymbol(n) THEN module[n][1].type ELSE ItemType(p),
         \A k \in 1..Len(module'[n]) :
           module'[n][k].body = (k = 1 /\ (HasBody(n) \/ items[p].definition))
  PROVE  Symbols'
<1>1. pos \in Nat \ {0} /\ Len(items) \in Nat
  BY DEF LinkageInv, Shapes
<1>2. \A i \in 1..Len(items) : IsCompiled(i)' <=> IsCompiled(i) \/ i = p
  BY <1>1 DEF IsCompiled
<1>3. \A i \in 1..Len(items) : IsCompiled(i) => i < p
  BY <1>1 DEF IsCompiled
<1> SUFFICES ASSUME NEW m \in Name
             PROVE  /\ HasSymbol(m)' => \E i \in 1..Len(items) :
                                           IsFirst(i, m)' /\ module'[m][1].type = ItemType(i)
                    /\ \A i \in 1..Len(items) : IsCompiled(i)' /\ items[i].name = m => HasSymbol(m)'
                    /\ \A k \in 1..Len(module'[m]) : module'[m][k].body = (k = 1 /\ HasBody(m)')
  BY DEF Symbols, ItemType
<1>4. /\ HasSymbol(m) => \E i \in 1..Len(items) : IsFirst(i, m) /\ module[m][1].type = ItemType(i)
      /\ \A i \in 1..Len(items) : IsCompiled(i) /\ items[i].name = m => HasSymbol(m)
      /\ \A k \in 1..Len(module[m]) : module[m][k].body = (k = 1 /\ HasBody(m))
  BY DEF Symbols
<1>5. \A i \in 1..Len(items) : IsFirst(i, m) => IsFirst(i, m)'
  BY <1>2, <1>3 DEF IsFirst
<1>6. HasBody(m)' <=> HasBody(m) \/ (m = n /\ items[p].definition)
  BY <1>2 DEF HasBody
<1>7. CASE m # n
  <2>1. module'[m] = module[m]
    BY <1>7
  <2>2. HasSymbol(m)' <=> HasSymbol(m)
    BY <2>1 DEF HasSymbol
  <2> QED BY <1>2, <1>4, <1>5, <1>6, <1>7, <2>1, <2>2
<1>8. CASE m = n
  <2>1. HasSymbol(m)'
    BY <1>8 DEF HasSymbol
  <2>2. \E i \in 1..Len(items) : IsFirst(i, m)' /\ module'[m][1].type = ItemType(i)
    <3>1. CASE HasSymbol(m)
      BY <1>4, <1>5, <1>8, <3>1
    <3>2. CASE ~HasSymbol(m)
      <4>1. IsFirst(p, m)'
        BY <1>2, <1>4, <1>8, <3>2 DEF IsFirst
      <4> QED BY <1>8, <3>2, <4>1
    <3> QED BY <3>1, <3>2
  <2> QED BY <1>6, <1>8, <2>1, <2>2
<1> QED BY <1>7, <1>8

LEMMA CompileDeclarationSymbols ==
  ASSUME LinkageInv, CheckedProgram, Symbols, CompileDeclaration
  PROVE  Symbols'
<1> DEFINE T == [type : SourceType, body : BOOLEAN]
           t == ItemType(pos)
<1>1. PICK n \in Name : n = items[pos].name
  BY EnteredType DEF CompileDeclaration, FitsScope
<1>2. PICK e : n = items[pos].name /\ e = Symbol(t, FALSE)
  BY <1>1
<1>3. /\ phase = "compile" /\ phase' = "compile" /\ items' = items /\ pos \in 1..Len(items)
      /\ inner = 0 /\ pos' = pos + 1 /\ inner' = 0 /\ ~items[pos].definition
      /\ module' = [module EXCEPT ![n] = Append(module[n], e)]
      /\ module \in [Name -> Seq(T)]
  BY <1>2, EnteredType
     DEF CompileDeclaration, AtItem, NextItem, ItemType, LinkageInv, Shapes
<1>4. e.type = t /\ e.body = FALSE
  BY <1>2 DEF Symbol
<1>5. \A m \in Name : m # n => module'[m] = module[m]
  BY <1>3
<1> HIDE DEF t, T
<1>6. /\ module'[n] # <<>> /\ Len(module'[n]) = Len(module[n]) + 1 /\ Len(module[n]) \in Nat
      /\ \A k \in 1..Len(module[n]) : module'[n][k] = module[n][k]
      /\ module'[n][Len(module[n]) + 1] = e
  BY <1>3
<1>7. /\ \A k \in 1..Len(module[n]) : module[n][k].body = (k = 1 /\ HasBody(n))
      /\ HasBody(n) => HasSymbol(n)
  BY <1>3 DEF Symbols, HasBody
<1>8. module[n] = <<>> <=> Len(module[n]) = 0
  BY <1>3
<1>9. \A k \in 1..Len(module'[n]) :
        module'[n][k].body = (k = 1 /\ (HasBody(n) \/ items[pos].definition))
  <2> SUFFICES ASSUME NEW k \in 1..Len(module'[n])
               PROVE  module'[n][k].body = (k = 1 /\ HasBody(n))
    BY <1>3
  <2>1. CASE k \in 1..Len(module[n])
    BY <1>6, <1>7, <2>1
  <2>2. CASE k = Len(module[n]) + 1
    <3>1. k = 1 => ~HasBody(n)
      BY <1>6, <1>7, <1>8, <2>2 DEF HasSymbol
    <3> QED BY <1>4, <1>6, <2>2, <3>1
  <2> QED BY <1>6, <2>1, <2>2
<1>10. module'[n][1].type = IF HasSymbol(n) THEN module[n][1].type ELSE t
  BY <1>4, <1>6, <1>8 DEF HasSymbol
<1> QED BY <1>2, <1>3, <1>5, <1>6, <1>9, <1>10, SymbolsGrow DEF t

LEMMA CompileDefinitionSymbols ==
  ASSUME LinkageInv, CheckedProgram, Symbols, CompileDefinition
  PROVE  Symbols'
<1> SUFFICES ASSUME phase' = "compile"
             PROVE  Symbols'
  BY DEF CompileDefinition, AtItem, Symbols
<1> DEFINE T == [type : SourceType, body : BOOLEAN]
           t == ItemType(pos)
<1>1. PICK n \in Name : n = items[pos].name
  BY EnteredType DEF CompileDefinition, FitsScope
<1>2. PICK e : n = items[pos].name /\ e = Symbol(t, TRUE)
  BY <1>1
<1>3. /\ phase = "compile" /\ items' = items /\ pos \in 1..Len(items)
      /\ inner = 0 /\ pos' = pos /\ inner' = 1 /\ items[pos].definition
      /\ module' = [module EXCEPT ![n] = WithDefinition(n, t)]
      /\ module \in [Name -> Seq(T)] /\ t.function
  BY <1>2, EnteredType
     DEF CompileDefinition, AtItem, ItemType, FitsScope, LinkageInv, Shapes
<1>4. \A m \in Name : m # n => module'[m] = module[m]
  BY <1>3
<1>5. module'[n] = WithDefinition(n, t)
  BY <1>3
<1>6. \A k \in 1..Len(module[n]) : module[n][k].body = (k = 1 /\ HasBody(n))
  BY <1>3 DEF Symbols
<1> HIDE DEF t, T
<1>7. CASE HasFunction(n)
  <2>1. module[n] \in Seq(T) /\ module[n] # <<>> /\ HasSymbol(n)
    BY <1>3, <1>7 DEF HasFunction, HasSymbol
  <2>2. module'[n] = [module[n] EXCEPT ![1] = [module[n][1] EXCEPT !.body = TRUE]]
    BY <1>5, <1>7 DEF WithDefinition
  <2>3. 1 \in 1..Len(module[n]) /\ module[n][1] \in T
    BY <2>1
  <2>4. PICK f : f = [module[n][1] EXCEPT !.body = TRUE]
    OBVIOUS
  <2>5. f.type = module[n][1].type /\ f.body = TRUE /\ f \in T
    BY <2>3, <2>4 DEF T
  <2>6. /\ Len(module'[n]) = Len(module[n]) /\ module'[n] # <<>> /\ module'[n][1] = f
        /\ \A k \in 1..Len(module[n]) : k # 1 => module'[n][k] = module[n][k]
    BY <2>1, <2>2, <2>3, <2>4, <2>5
  <2>7. \A k \in 1..Len(module'[n]) :
          module'[n][k].body = (k = 1 /\ (HasBody(n) \/ items[pos].definition))
    <3> SUFFICES ASSUME NEW k \in 1..Len(module[n])
                 PROVE  module'[n][k].body = (k = 1)
      BY <1>3, <2>6
    <3>1. CASE k = 1
      BY <2>5, <2>6, <3>1
    <3>2. CASE k # 1
      BY <1>6, <2>6, <3>2
    <3> QED BY <3>1, <3>2
  <2> QED BY <1>2, <1>3, <1>4, <2>1, <2>5, <2>6, <2>7, SymbolsGrow
<1>8. CASE ~HasFunction(n)
  <2>1. ~HasSymbol(n)
    <3> SUFFICES ASSUME HasSymbol(n) PROVE FALSE
      OBVIOUS
    <3>1. PICK i \in 1..Len(items) : items[i].name = n /\ module[n][1].type = ItemType(i)
      BY DEF LinkageInv, Compiled
    <3>2. items[i].declarator.function = items[pos].declarator.function
      BY <1>2, <1>3, <3>1, InvDefinedOnce DEF DefinedOnce
    <3> QED BY <1>3, <1>8, <3>1, <3>2 DEF HasFunction, ItemType, TypeOf, t
  <2>2. module'[n] = <<e>>
    <3>1. module'[n] = Append(module[n], e) /\ module[n] = <<>>
      BY <1>2, <1>5, <1>8, <2>1 DEF WithDefinition, HasSymbol
    <3> QED BY <3>1
  <2>3. /\ module'[n] # <<>> /\ module'[n][1].type = t
        /\ \A k \in 1..Len(module'[n]) :
             module'[n][k].body = (k = 1 /\ (HasBody(n) \/ items[pos].definition))
    <3>1. e.type = t /\ e.body = TRUE
      BY <1>2 DEF Symbol
    <3>2. Len(module'[n]) = 1 /\ module'[n][1] = e /\ module'[n] # <<>>
      BY <2>2
    <3>3. \A k \in 1..Len(module'[n]) : k = 1
      BY <3>2
    <3>4. module'[n][1].body = TRUE
      BY <3>1, <3>2
    <3> QED BY <1>3, <3>1, <3>2, <3>3, <3>4
  <2> QED BY <1>2, <1>3, <1>4, <2>1, <2>3, SymbolsGrow DEF t
<1> QED BY <1>7, <1>8

LEMMA SymbolsStep ==
  ASSUME LinkageInv, CheckedProgram, Symbols, [Next]_vars_
  PROVE  Symbols'
<1>1. CASE phase' \notin {"compile", "compiled"}
  BY <1>1 DEF Symbols
<1>2. CASE ParseItem \/ FinishParse \/ CheckDeclaration \/ CheckDefinition
           \/ CheckLocalDeclaration \/ CheckUse \/ RejectItem
  <2>1. phase' \notin {"compile", "compiled"}
    BY <1>2 DEF ParseItem, FinishParse, CheckDeclaration, CheckDefinition, CheckLocalDeclaration,
                CheckUse, RejectItem, AtItem, AtStatement, NextItem, NextStatement, EnterBody
  <2> QED BY <1>1, <2>1
<1>3. CASE FinishTypecheck
  <2>1. /\ phase = "typecheck" /\ phase' = "compile" /\ pos' = 1 /\ inner' = 0
        /\ UNCHANGED <<items, module>>
    BY <1>3 DEF FinishTypecheck, codegenVars
  <2>2. \A i : ~IsCompiled(i)'
    BY <2>1 DEF IsCompiled
  <2>3. \A n \in Name : module[n] = <<>>
    BY <2>1 DEF LinkageInv, Shapes, HasSymbol
  <2> QED BY <2>1, <2>2, <2>3 DEF Symbols, HasSymbol
<1>4. CASE CompileDeclaration
  BY <1>4, CompileDeclarationSymbols
<1>5. CASE CompileDefinition
  BY <1>5, CompileDefinitionSymbols
<1>6. CASE /\ phase' \in {"compile", "compiled"}
           /\ \/ CompileLocalDeclaration \/ CompileUse \/ PassOver
              \/ FinishCompile \/ UNCHANGED vars_
  <2>1. /\ phase \in {"compile", "compiled"} /\ UNCHANGED <<items, pos, module>>
        /\ \/ inner' = inner
           \/ inner > 0 /\ inner' = inner + 1
        /\ inner \in Nat
    BY <1>6 DEF CompileLocalDeclaration, CompileUse, PassOver, FinishCompile, AtStatement,
                NextStatement, codegenVars, vars_, LinkageInv, Shapes
  <2>2. \A i \in 1..Len(items) : IsCompiled(i)' <=> IsCompiled(i)
    BY <1>6, <2>1 DEF IsCompiled
  <2> QED BY <2>1, <2>2, SymbolsKept
<1>7. CASE phase' \in {"compile", "compiled"} /\ LeaveBody
  <2>1. /\ phase = "compile" /\ phase' = phase /\ UNCHANGED <<items, module>>
        /\ pos' = pos + 1 /\ inner' = 0 /\ inner > 0 /\ pos \in Nat
    BY <1>7 DEF LeaveBody, AtEndOfBody, NextItem, codegenVars, LinkageInv, Shapes
  <2>2. \A i \in 1..Len(items) : IsCompiled(i)' <=> IsCompiled(i)
    BY <2>1 DEF IsCompiled
  <2> QED BY <2>1, <2>2, SymbolsKept
<1> QED BY <1>1, <1>2, <1>3, <1>4, <1>5, <1>6, <1>7 DEF Next

------------------------------------------------------------------------------
(***************************************************************************)
(* The allocas of a body.                                                  *)
(***************************************************************************)
\* Nothing in front of a definition that keeps its parameters declares its
\* name without a list: not the item behind the symbol, not the origin of the
\* type in the file scope.
LEMMA ListedBefore ==
  ASSUME LinkageInv, CheckedProgram, phase = "compile", pos \in 1..Len(items),
         items[pos].definition, ItemType(pos).params # <<>>, ~LosesParameters(pos),
         NEW n \in Name, n = items[pos].name, NEW i \in 1..Len(items), i < pos, items[i].name = n
  PROVE  ItemType(i).listed /\ fileVars[n].listed /\ ~items[i].definition
<1>1. /\ pos \in Nat
      /\ \A j \in 1..Len(items) : IsChecked(j) /\ FitsScope(j)
  BY DEF LinkageInv, Shapes, Checked, IsChecked
<1>2. ASSUME NEW j \in 1..Len(items), j < pos, items[j].name = n
      PROVE  ItemType(j).listed /\ ~items[j].definition
  <2>1. ~items[j].definition
    BY <1>1, <1>2 DEF LinkageInv, Unique
  <2>2. items[j].declarator.params # <<>>
    BY <1>1, <1>2, <2>1 DEF LosesParameters, ItemType
  <2> QED BY <2>1, <2>2 DEF ItemType, TypeOf
<1>3. fileVars[n].listed
  <2>1. PICK j \in 1..Len(items) : IsOrigin(j, n)
    BY <1>1 DEF FitsScope, CheckedProgram, Origins
  <2>2. CASE items[j].name = n /\ fileVars[n] = ItemType(j) /\ j <= i
    BY <1>1, <1>2, <2>2
  <2>3. CASE DeclaresIn(j, n, fileVars[n]) /\ j < i
    <3>1. PICK k \in 1..Len(items[j].body) :
            LET s == items[j].body[k]
            IN s.declares /\ s.name = n /\ s.declarator.function /\ TypeOf(s.declarator) = fileVars[n]
      BY <2>3 DEF DeclaresIn
    <3>2. items[j].body[k].declarator.params # <<>>
      BY <1>1, <2>3, <3>1 DEF LosesParameters, DeclaresUnlisted, ItemType
    <3>3. TypeOf(items[j].body[k].declarator).listed
      BY <3>2 DEF TypeOf
    <3> QED BY <3>1, <3>3
  <2> QED BY <1>1, <2>1, <2>2, <2>3 DEF IsOrigin
<1> QED BY <1>2, <1>3

LEMMA ParametersStored ==
  ASSUME LinkageInv, CheckedProgram, Symbols, AtItem("compile"), items[pos].definition,
         NEW n \in Name, n = items[pos].name, NEW t, t = ItemType(pos), ~LosesParameters(pos)
  PROVE  ParametersOf(pos) \subseteq ArgumentNames(FunctionFor(n, t), t)
<1> DEFINE f == FunctionFor(n, t)
<1>1. /\ phase = "compile" /\ inner = 0 /\ pos \in 1..Len(items) /\ pos \in Nat
      /\ t \in SourceType /\ (~t.listed => t.params = <<>>)
      /\ FitsScope(pos)
  BY EnteredType, EnteredItem DEF AtItem, LinkageInv, Shapes
<1>2. t.params \in Seq(Param) /\ Len(t.params) \in Nat
  BY <1>1 DEF SourceType
<1>3. CASE t.params = <<>>
  BY <1>3 DEF ParametersOf, ParamNames, ItemType
<1>4. CASE t.params # <<>>
  <2>1. CASE ~HasFunction(n)
    BY <1>2, <2>1 DEF FunctionFor, ParametersOf, ParamNames, ArgumentNames, ItemType
  <2>2. CASE HasFunction(n)
    <3>1. PICK i \in 1..Len(items) : IsFirst(i, n) /\ module[n][1].type = ItemType(i)
      BY <1>1, <2>2 DEF HasFunction, Symbols
    <3>2. i < pos /\ items[i].name = n /\ f = ItemType(i)
      BY <1>1, <2>2, <3>1 DEF IsFirst, IsCompiled, FunctionFor
    <3>3. f.listed /\ fileVars[n].listed /\ ~items[i].definition
      BY <1>1, <1>4, <3>2, ListedBefore
    <3>4. StrongEquals(f, fileVars[n]) /\ StrongEquals(fileVars[n], t)
      BY <1>1, <3>2, <3>3 DEF FitsScope, LinkageInv, Checked, IsChecked
    <3> HIDE DEF f
    <3>5. Len(f.params) = Len(t.params)
      BY <1>1, <1>4, <3>3, <3>4 DEF StrongEquals, ParamsAgree
    <3>6. \A j \in 1..Len(t.params) : j <= Len(f.params)
      BY <1>2, <3>5
    <3> QED BY <3>6 DEF f, ParametersOf, ParamNames, ArgumentNames, ItemType
  <2> QED BY <2>1, <2>2
<1> QED BY <1>3, <1>4

\* After a step within the loops over a body.
LEMMA StoredNext ==
  ASSUME LinkageInv, Stored, AtStatement("compile"), NextStatement,
         allocas \subseteq allocas',
         InFirstLoop /\ LoopStatement.declares => LoopStatement.name \in allocas'
  PROVE  Stored'
<1>1. /\ phase = "compile" /\ inner > 0 /\ inner \in Nat /\ pos \in 1..Len(items)
      /\ UNCHANGED <<phase, items, pos>> /\ inner' = inner + 1
  BY EnteredLoop DEF AtStatement, NextStatement
<1>2. Len(items[pos].body) \in Nat
  BY <1>1, BodyStatements DEF LinkageInv
<1>3. ParametersOf(pos) \subseteq allocas' \/ LosesParameters(pos)
  BY <1>1 DEF Stored
<1>4. ASSUME NEW k \in 1..Len(items[pos].body), k < inner + 1, items[pos].body[k].declares
      PROVE  items[pos].body[k].name \in allocas'
  <2>1. CASE k < inner
    BY <1>1, <1>4, <2>1 DEF Stored
  <2>2. CASE k = inner
    BY <1>2, <1>4, <2>2 DEF InFirstLoop, LoopStatement
  <2> QED BY <1>1, <1>2, <1>4, <2>1, <2>2
<1>5. ParametersOf(pos)' = ParametersOf(pos) /\ LosesParameters(pos)' = LosesParameters(pos)
  BY <1>1 DEF ParametersOf, LosesParameters
<1> QED BY <1>1, <1>3, <1>4, <1>5 DEF Stored

LEMMA StoredStep ==
  ASSUME LinkageInv, CheckedProgram, Symbols, Stored, [Next]_vars_
  PROVE  Stored'
<1>1. CASE \/ ParseItem \/ FinishParse \/ CheckDeclaration \/ CheckDefinition
           \/ CheckLocalDeclaration \/ CheckUse \/ RejectItem \/ FinishTypecheck
           \/ CompileDeclaration \/ FinishCompile \/ LeaveBody
  <2>1. inner \in Nat /\ (phase = "parse" => inner = 0)
    BY DEF LinkageInv, Shapes
  <2>2. phase' # "compile" \/ inner' = 0
    BY <1>1, <2>1 DEF ParseItem, FinishParse, CheckDeclaration, CheckDefinition,
                CheckLocalDeclaration, CheckUse, RejectItem, FinishTypecheck, CompileDeclaration,
                FinishCompile, LeaveBody, AtItem, AtStatement, NextItem, NextStatement, EnterBody
  <2> QED BY <2>2 DEF Stored
<1>2. CASE CompileDefinition
  <2>1. PICK p \in 1..Len(items), n \in Name : p = pos /\ n = items[p].name
    BY <1>2, EnteredType DEF CompileDefinition, FitsScope
  <2>2. /\ AtItem("compile") /\ items[pos].definition /\ inner' = 1
        /\ allocas' = ArgumentNames(FunctionFor(n, ItemType(pos)), ItemType(pos))
        /\ UNCHANGED <<items, pos>>
    BY <1>2, <2>1 DEF CompileDefinition, ItemType
  <2>3. ParametersOf(p) \subseteq allocas' \/ LosesParameters(p)
    BY <2>1, <2>2, ParametersStored
  <2>4. ParametersOf(pos)' = ParametersOf(pos) /\ LosesParameters(pos)' = LosesParameters(pos)
    BY <2>2 DEF ParametersOf, LosesParameters
  <2>5. (ParametersOf(pos) \subseteq allocas \/ LosesParameters(pos))'
    BY <2>1, <2>3, <2>4
  <2>6. (\A k \in 1..Len(items[pos].body) : ~(k < inner))'
    BY <2>2
  <2> QED BY <2>5, <2>6 DEF Stored
<1>3. CASE PassOver
  <2>1. LoopStatement.declares \in BOOLEAN /\ InFirstLoop \in BOOLEAN
    BY <1>3, EnteredLoop, BodyStatements DEF PassOver, LinkageInv, InFirstLoop
  <2>2. ~(InFirstLoop /\ LoopStatement.declares)
    BY <1>3, <2>1 DEF PassOver, IsTurn
  <2> QED BY <1>3, <2>2, StoredNext DEF PassOver, codegenVars
<1>4. CASE CompileLocalDeclaration
  <2>1. CASE NextStatement
    BY <1>4, <2>1, StoredNext DEF CompileLocalDeclaration
  <2>2. CASE phase' = "crashed"
    BY <2>2 DEF Stored
  <2> QED BY <1>4, <2>1, <2>2 DEF CompileLocalDeclaration
<1>5. CASE CompileUse
  <2>1. CASE NextStatement
    BY <1>5, <2>1, StoredNext DEF CompileUse, codegenVars
  <2>2. CASE phase' = "crashed"
    BY <2>2 DEF Stored
  <2> QED BY <1>5, <2>1, <2>2 DEF CompileUse
<1>6. CASE UNCHANGED vars_
  BY <1>6 DEF vars_, Stored, ParametersOf, LosesParameters
<1> QED BY <1>1, <1>2, <1>3, <1>4, <1>5, <1>6 DEF Next

------------------------------------------------------------------------------
(***************************************************************************)
(* Where the code generator may fail.                                      *)
(***************************************************************************)
\* In the second loop a use that was checked finds its object, unless the
\* definition lost it or a body declares a function.
LEMMA UseIsFound ==
  ASSUME LinkageInv, CheckedProgram, Symbols, Stored, CompileUse, ~IsFound(LoopStatement.name)
  PROVE  \E j \in 1..Len(items) : LosesParameters(j) \/ DeclaresFunction(j)
<1>1. /\ phase = "compile" /\ pos \in 1..Len(items) /\ inner \in Nat /\ inner > 0
      /\ ~LoopStatement.declares /\ ~InFirstLoop
      /\ Len(items[pos].body) \in Nat
  <2>1. /\ phase = "compile" /\ pos \in 1..Len(items) /\ inner \in Nat /\ inner > 0
        /\ ~LoopStatement.declares
    BY EnteredLoop DEF CompileUse, AtStatement
  <2>2. ~InFirstLoop
    BY DEF CompileUse, IsTurn
  <2> QED BY <2>1, <2>2, BodyStatements DEF LinkageInv
<1>2. PICK k \in 1..Len(items[pos].body) : LoopStatement = items[pos].body[k]
  BY EnteredLoop DEF CompileUse
<1>3. PICK n \in Name : n = LoopStatement.name
  BY <1>1, <1>2, BodyStatements DEF LinkageInv
<1>4. IsCheckedUse(pos, k)
  BY <1>1, <1>2 DEF IsCheckedUse, IsChecked
<1>5. /\ ParametersOf(pos) \subseteq allocas \/ LosesParameters(pos)
      /\ \A l \in 1..Len(items[pos].body) :
           items[pos].body[l].declares => items[pos].body[l].name \in allocas
  BY <1>1 DEF Stored, InFirstLoop
<1>6. n \notin allocas /\ ~HasSymbol(n)
  BY <1>3 DEF IsFound
<1>7. CASE n \in ParametersOf(pos)
  BY <1>1, <1>5, <1>6, <1>7
<1>8. ~DeclaresObject(pos, n)
  BY <1>5, <1>6 DEF DeclaresObject
<1>9. ASSUME NEW j \in 1..pos, items[j].name = n
      PROVE  FALSE
  <2>1. IsCompiled(j)
    BY <1>1, <1>9 DEF IsCompiled
  <2> QED BY <1>1, <1>6, <1>9, <2>1 DEF Symbols, IsCompiled
<1>10. FindsDeclaration(pos, n)
  BY <1>1, <1>2, <1>3, <1>4 DEF CheckedProgram, UsesDeclared
<1> QED BY <1>1, <1>7, <1>8, <1>9, <1>10 DEF FindsDeclaration

LEMMA CrashStep ==
  ASSUME LinkageInv, CheckedProgram, Symbols, Stored, AcceptedProgramsCompile, [Next]_vars_
  PROVE  AcceptedProgramsCompile'
<1> SUFFICES ASSUME phase' = "crashed"
             PROVE  items' = items /\ \E j \in 1..Len(items) : LosesParameters(j) \/ DeclaresFunction(j)
  BY DEF AcceptedProgramsCompile, LosesParameters, DeclaresFunction
<1>1. CASE UNCHANGED vars_
  BY <1>1 DEF vars_, AcceptedProgramsCompile
<1>2. CASE CompileDefinition
  <2>1. ~IndexesOutOfRange(FunctionFor(items[pos].name, ItemType(pos)), ItemType(pos))
    BY <1>2, InvArguments DEF CompileDefinition, ArgumentsInRange, ItemType
  <2> QED BY <1>2, <2>1 DEF CompileDefinition, AtItem, ItemType
<1>3. CASE CompileLocalDeclaration
  <2>1. items' = items /\ LoopStatement.declares /\ LoopStatement.declarator.function
        /\ pos \in 1..Len(items)
    BY <1>3, EnteredLoop DEF CompileLocalDeclaration, AtStatement, NextStatement
  <2>2. DeclaresFunction(pos)
    BY <1>3, <2>1, EnteredLoop DEF CompileLocalDeclaration, DeclaresFunction
  <2> QED BY <2>1, <2>2
<1>4. CASE CompileUse
  <2>1. items' = items /\ ~IsFound(LoopStatement.name)
    BY <1>4 DEF CompileUse, AtStatement, NextStatement
  <2> QED BY <1>4, <2>1, UseIsFound
<1>5. CASE \/ ParseItem \/ FinishParse \/ CheckDeclaration \/ CheckDefinition
           \/ CheckLocalDeclaration \/ CheckUse \/ RejectItem \/ FinishTypecheck
           \/ CompileDeclaration \/ PassOver \/ FinishCompile \/ LeaveBody
  BY <1>5 DEF ParseItem, FinishParse, CheckDeclaration, CheckDefinition, CheckLocalDeclaration,
              CheckUse, RejectItem, FinishTypecheck, CompileDeclaration, PassOver, FinishCompile,
              LeaveBody, AtItem, AtStatement, AtEndOfBody, NextItem, NextStatement, EnterBody
<1> QED BY <1>1, <1>2, <1>3, <1>4, <1>5 DEF Next

LEMMA CompiledStep ==
  ASSUME LinkageInv, [Next]_vars_, phase = "compiled" => pos > Len(items)
  PROVE  phase' = "compiled" => pos' > Len(items)'
<1>1. CASE FinishCompile \/ UNCHANGED vars_
  BY <1>1 DEF FinishCompile, vars_
<1>2. CASE ~(FinishCompile \/ UNCHANGED vars_)
  <2>1. phase' # "compiled"
    BY <1>2 DEF Next, ParseItem, FinishParse, CheckDeclaration, CheckDefinition,
           CheckLocalDeclaration, CheckUse, RejectItem, FinishTypecheck, CompileDeclaration,
           CompileDefinition, CompileLocalDeclaration, CompileUse, PassOver, LeaveBody, AtItem,
           AtStatement, AtEndOfBody, NextItem, NextStatement, EnterBody
  <2> QED BY <2>1
<1> QED BY <1>1, <1>2

LEMMA CompiledProgramInvariant == Spec => [](LinkageInv /\ CheckedProgram /\ CompiledProgram)
<1>1. Init => CompiledProgram
  BY DEF Init, CompiledProgram, Symbols, Stored, AcceptedProgramsCompile
<1>2. LinkageInv /\ CheckedProgram /\ CompiledProgram /\ [Next]_vars_ => CompiledProgram'
  BY SymbolsStep, StoredStep, CrashStep, CompiledStep DEF CompiledProgram
<1> QED BY <1>1, <1>2, CheckedProgramInvariant, PTL DEF Spec

------------------------------------------------------------------------------
LEMMA InvTypeOK == LinkageInv /\ CheckedProgram /\ Typed => LinkageTypeOK
BY ParsedItems DEF LinkageInv, Shapes, CheckedProgram, Locals, Typed, LinkageTypeOK

LEMMA InvModule == LinkageInv /\ CompiledProgram => ModuleImplementsProgram
<1> SUFFICES ASSUME LinkageInv, CompiledProgram, phase = "compiled", NEW n \in Name
             PROVE  /\ HasSymbol(n) = (\E i \in 1..Len(items) : items[i].name = n)
                    /\ \A k \in 1..Len(module[n]) :
                         module[n][k].body =
                           (k = 1 /\ \E i \in 1..Len(items) : items[i].definition /\ items[i].name = n)
  BY DEF ModuleImplementsProgram
<1>1. pos > Len(items) /\ pos \in Nat /\ Len(items) \in Nat
  BY DEF CompiledProgram, LinkageInv, Shapes
<1>2. \A i \in 1..Len(items) : IsCompiled(i)
  BY <1>1 DEF IsCompiled
<1>3. /\ HasSymbol(n) => \E i \in 1..Len(items) : IsFirst(i, n)
      /\ \A i \in 1..Len(items) : items[i].name = n => HasSymbol(n)
      /\ \A k \in 1..Len(module[n]) : module[n][k].body = (k = 1 /\ HasBody(n))
  BY <1>2 DEF CompiledProgram, Symbols
<1>4. HasBody(n) <=> \E i \in 1..Len(items) : items[i].definition /\ items[i].name = n
  BY <1>2 DEF HasBody
<1>5. HasSymbol(n) <=> \E i \in 1..Len(items) : items[i].name = n
  BY <1>3 DEF IsFirst
<1> QED BY <1>3, <1>4, <1>5 DEF HasSymbol

(***************************************************************************)
(* Type correctness: in particular the type checker lets no parameter of   *)
(* type void and no nameless parameter of a definition through, and no     *)
(* item without a name reaches the module (declaration.cpp:42,             *)
(* function_definition.cpp:28).                                            *)
(***************************************************************************)
THEOREM LinkageTypeCorrect == Spec => []LinkageTypeOK
BY CheckedProgramInvariant, TypedInvariant, InvTypeOK, PTL

(***************************************************************************)
(* Whatever the declarations of a function look like, the body of its      *)
(* definition has an alloca for each of its parameters, unless a           *)
(* declaration without a parameter list comes before it, at file scope or  *)
(* in a body (function_definition.cpp:93, scope.cpp:59-61).                *)
(***************************************************************************)
THEOREM ParametersAreStored == Spec => []ArgumentsAreStoredUnlessUnlisted
<1>1. CompiledProgram => ArgumentsAreStoredUnlessUnlisted
  BY DEF CompiledProgram, Stored, ArgumentsAreStoredUnlessUnlisted, AtBody
<1> QED BY <1>1, CompiledProgramInvariant, PTL

(***************************************************************************)
(* In the module of every compiled program each name of the file scope has *)
(* a symbol and each defined function its body, in the symbol that the     *)
(* name refers to (function_definition.cpp:60-64).                         *)
(***************************************************************************)
THEOREM ModulesImplementPrograms == Spec => []ModuleImplementsProgram
BY CompiledProgramInvariant, InvModule, PTL

(***************************************************************************)
(* For every program: the code generator fails on an accepted program only *)
(* if a definition lost its parameters or a body declares a function       *)
(* (primary.cpp:45, scope.cpp:59-61).                                      *)
(***************************************************************************)
THEOREM CompilationFailsOnlyThere == Spec => []AcceptedProgramsCompile
<1>1. CompiledProgram => AcceptedProgramsCompile
  BY DEF CompiledProgram
<1> QED BY <1>1, CompiledProgramInvariant, PTL
==============================================================================
