--------------------------- MODULE DeclarationGrammar ---------------------------
(***************************************************************************)
(* The grammar of declarations (C11, 6.7, as far as the compiler knows     *)
(* it), as the set of all phrases of up to MaxTokens tokens with their     *)
(* trees.                                                                  *)
(*                                                                         *)
(* The parser differs from C in two places, and this grammar with it:      *)
(* "()" is no abstract declarator (parser.cpp:62-65), and a declarator     *)
(* that shall have a name can also be pointers to nothing, as in "int *;"  *)
(* (parser.cpp:41-57 only asks abstract ones for their names).             *)
(***************************************************************************)
EXTENDS DeclarationParser, SequencesExt

(***************************************************************************)
(* A phrase is a pair of its tokens and its tree.  Each nonterminal has    *)
(* the set of its phrases of each length; a production joins phrases that  *)
(* are n tokens long together.                                             *)
(***************************************************************************)
Join(P, Q) == {<<p[1] \o q[1], p[2] \o q[2]>> : p \in P, q \in Q}
With(P, node) == {<<p[1], Append(p[2], node)>> : p \in P}
Phrase(sentence, tree, vocabulary) ==
  IF \A k \in 1..Len(sentence) : sentence[k] \in vocabulary THEN {<<sentence, tree>>} ELSE {}

\* A table with the entry that follows from those there are.  (The set of one
\* element has TLC evaluate these once.)
Extend(Entry(_, _), argument, table) ==
  CHOOSE longer \in {Append(shorter, Entry(argument, shorter)) : shorter \in {table}} : TRUE

\* The nonterminals for each length, from the shorter ones.
Table(Longer(_, _), vocabulary) ==
  FoldLeft(LAMBDA table, n : Extend(Longer, vocabulary, table), <<>>,
           [n \in 1..MaxTokens[vocabulary] |-> n])

\* Declarators are named or abstract; "open" and "filled" ones end inside of
\* their parameter list.  (These are records, not functions: TLC evaluates a
\* record once.)
BothKinds(Of(_)) == [named |-> Of("named"), abstract |-> Of("abstract")]
AllKinds(Of(_)) ==
  [ANY |-> Of("ANY"), ABSTRACT |-> Of("ABSTRACT"), CONCRETE |-> Of("CONCRETE")]
NoPhrase(k) == {}
NoDeclarations ==
  [declarator |-> BothKinds(NoPhrase), direct |-> BothKinds(NoPhrase),
   open |-> BothKinds(NoPhrase), filled |-> BothKinds(NoPhrase),
   pointers |-> {}, members |-> {}, specifier |-> {}, declaration |-> AllKinds(NoPhrase)]

LongerDeclarations(vocabulary, shorter) ==
  LET n == Len(shorter) + 1
      Word(t, tree) == IF n = 1 THEN Phrase(<<t>>, tree, vocabulary) ELSE {}
      Mark(t) == Phrase(<<t>>, <<>>, vocabulary)
      S(k) == IF k \in 1..Len(shorter) THEN shorter[k] ELSE NoDeclarations
      Parenthesized(P) == Join(Join(Mark("("), P), Mark(")"))
      PointerTo(P) == With(Join(Mark("*"), P), "pointer")
      NamelessPointer == Word("*", <<"nameless", "pointer">>)
      NamelessList == Phrase(<<"(">>, <<"nameless", "function">>, vocabulary)
      Parameter(k) == With(S(k).declaration["ANY"], "parameter")
      Open(kind) == With(Join(S(n - 1).direct[kind], Mark("(")), "function")
      Filled(kind) ==
        UNION {Join(S(j).open[kind], Parameter(n - j))
               \cup Join(Join(S(j).filled[kind], Mark(",")), Parameter(n - 1 - j)) : j \in 1..n}
        \cup IF kind = "abstract" THEN Join(NamelessList, Parameter(n - 1)) ELSE {}
      Direct(kind) ==
        UNION {IF kind = "named" THEN Word("id", <<"identifier">>) ELSE {},
               Parenthesized(S(n - 2).declarator[kind]),
               Join(S(n - 1).open[kind] \cup S(n - 1).filled[kind], Mark(")"))}
      Declarator(kind) ==
        UNION {Direct(kind), PointerTo(S(n - 1).declarator[kind]),
               IF kind = "abstract" THEN NamelessPointer ELSE {}}
      pointers ==
        UNION {NamelessPointer, PointerTo(S(n - 1).pointers), Parenthesized(S(n - 2).pointers)}
      Brace == Phrase(<<"struct", "{">>, <<"struct", "complete">>, vocabulary)
               \cup Phrase(<<"struct", "id", "{">>, <<"struct tag", "complete">>, vocabulary)
      Component(k) == With(Join(S(k).declaration["CONCRETE"], Mark(";")), "component")
      members == UNION {Join({b \in Brace : Len(b[1]) = j} \cup S(j).members, Component(n - 1 - j))
                          : j \in 1..n}
      specifier ==
        UNION {UNION {Word(t, <<t>>) : t \in {"int", "char", "void"}},
               IF n = 2 THEN Phrase(<<"struct", "id">>, <<"struct tag">>, vocabulary) ELSE {},
               Join(S(n - 1).members, Mark("}"))}
      Declarators(kind, k) ==
        CASE kind = "ANY"      -> S(k).declarator["named"] \cup S(k).declarator["abstract"]
          [] kind = "ABSTRACT" -> S(k).declarator["abstract"]
          [] kind = "CONCRETE" -> S(k).declarator["named"] \cup S(k).pointers
      Declaration(kind) ==
        With(UNION {With(specifier, "nameless"),
                    UNION {Join(S(k).specifier, Declarators(kind, n - k)) : k \in 1..n}},
             "declaration")
  IN [declarator |-> BothKinds(Declarator), direct |-> BothKinds(Direct),
      open |-> BothKinds(Open), filled |-> BothKinds(Filled),
      pointers |-> pointers, members |-> members, specifier |-> specifier,
      declaration |-> AllKinds(Declaration)]

DeclarationTable(vocabulary) == Table(LongerDeclarations, vocabulary)
==============================================================================
