--------------------------- MODULE ExpressionGrammar ---------------------------
(***************************************************************************)
(* The grammar of expressions (C11, 6.5, as far as the compiler knows it), *)
(* as the set of all sentences of up to MaxTokens tokens with their trees; *)
(* and that the parser accepts exactly these and the declarations, with    *)
(* their trees.                                                            *)
(***************************************************************************)
EXTENDS DeclarationGrammar

NoPhrases == [primary |-> {}, postfix |-> {}, unary |-> {}, binary |-> <<{}, {}, {}, {}, {}, {}, {}>>,
              conditional |-> {}, assignment |-> {}, arguments |-> {},
              statement |-> {}]

\* The levels of binary expressions, each with the operators that it adds to
\* the one before; the first one has unary expressions only.
BinaryWords == <<{"*"}, {"+", "-"}, {"<"}, {"==", "!="}, {"&&"}, {"||"}>>

\* The phrases of n tokens of the vocabulary, from the shorter ones and the
\* declarations.
LongerExpressions(declarations, vocabulary, shorter) ==
  LET n == Len(shorter) + 1
      Word(t, node) == Phrase(<<t>>, <<node>>, vocabulary)
      Mark(t) == Phrase(<<t>>, <<>>, vocabulary)
      TypeNames(k) == IF k > 0 THEN declarations[k].declaration["ABSTRACT"] ELSE {}
      Between(open, P, close) == Join(Join(Mark(open), P), Mark(close))
      S(k) == IF k \in 1..Len(shorter) THEN shorter[k] ELSE NoPhrases
      primary ==
        UNION {IF n = 1 THEN Word("id", "id") \cup Word("0", "0") ELSE {},
               Between("(", S(n - 2).assignment, ")")}
      postfix ==
        UNION {primary,
               UNION {With(Join(S(k).postfix, Between("[", S(n - 2 - k).assignment, "]")),
                           "index") : k \in 1..n},
               With(Join(S(n - 2).postfix, Join(Mark("("), Mark(")"))), "call"),
               With(Join(S(n - 1).arguments, Mark(")")), "call"),
               UNION {With(Join(Join(S(n - 2).postfix, Mark(m)), Mark("id")), m)
                        : m \in {".", "->"}}}
      \* f ( a , b
      arguments ==
        UNION {With(Join(Join(S(k).postfix, Mark("(")), S(n - 1 - k).assignment), "argument")
               \cup With(Join(Join(S(k).arguments, Mark(",")), S(n - 1 - k).assignment), "argument")
                 : k \in 1..n}
      prefixed(t, node) == With(Join(Mark(t), S(n - 1).unary), node)
      unary ==
        UNION {postfix,
               prefixed("&", "reference"), prefixed("*", "dereference"),
               prefixed("-", "negation"), prefixed("!", "not"), prefixed("sizeof", "sizeof"),
               Join(Mark("+"), S(n - 1).unary),
               With(Join(Mark("sizeof"), Between("(", TypeNames(n - 3), ")")), "sizeof type")}
      WithOperators(words, levels) ==
        LET l == Len(levels)
        IN  levels[l] \cup
            UNION {UNION {With(Join(Join(S(k).binary[l + 1], Mark(o)), S(n - 1 - k).binary[l]), o)
                     : o \in words} : k \in 1..n}
      binary == FoldLeft(LAMBDA levels, words : Extend(WithOperators, words, levels),
                         <<unary>>, BinaryWords)
      conditional ==
        binary[7] \cup
        UNION {With(Join(S(k).binary[7],
                         Join(Between("?", S(j).assignment, ":"), S(n - 2 - k - j).conditional)),
                    "?:") : k \in 1..n, j \in 1..n}
      assignment ==
        conditional \cup
        UNION {With(Join(Join(S(k).unary, Mark("=")), S(n - 1 - k).assignment), "=") : k \in 1..n}
  IN [primary |-> primary, postfix |-> postfix, unary |-> unary, binary |-> binary,
      conditional |-> conditional, assignment |-> assignment, arguments |-> arguments,
      statement |-> assignment \cup declarations[n].declaration["CONCRETE"]]

StatementTable(vocabulary) ==
  LET declarations == DeclarationTable(vocabulary)
  IN  Table(LAMBDA v, shorter : LongerExpressions(declarations, v, shorter), vocabulary)
StatementsOver(vocabulary) == UNION {phrases.statement : phrases \in ToSet(StatementTable(vocabulary))}
Statements == UNION {StatementsOver(vocabulary) : vocabulary \in Vocabularies}

\* What a sentence can begin with.
Viable ==
  UNION {{SubSeq(e[1], 1, k) : k \in 0..Len(e[1])} \cup {Append(e[1], End)} : e \in Statements}

------------------------------------------------------------------------------
(***************************************************************************)
(* The parser accepts only expressions and declarations and gives them the *)
(* tree that the grammar does: precedence, associativity and the unary     *)
(* operand of an assignment included, and a parenthesis in a declarator    *)
(* that is one around a declarator or one around parameters                *)
(* (parser.cpp:8-448).                                                     *)
(***************************************************************************)
AcceptsWithTheTree ==
  fn = "accepted" => <<SubSeq(tokens, 1, pos - 1), left>> \in Statements

(***************************************************************************)
(* It reports an error only where no expression or declaration goes on,    *)
(* and so refuses none (parser.cpp:8-448).  It looks behind an open        *)
(* parenthesis in a declarator to know what that is.                       *)
(***************************************************************************)
TokensSeen == IF Peek = "(" THEN pos + 1 ELSE pos
RefusesNoSentence == fn = "rejected" => SubSeq(tokens, 1, TokensSeen) \notin Viable
==============================================================================
