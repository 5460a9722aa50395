----------------------------- MODULE Tokenization -----------------------------
(***************************************************************************)
(* What a lexer promises: the file is cut into the longest tokens, blanks  *)
(* and comments, from left to right; each token carries the place of its   *)
(* first character; a file that cannot be cut is refused.                  *)
(*                                                                         *)
(* The stream under the lexer promises less at the end of the file.  A     *)
(* token whose end is only known from characters behind it (Lookahead)     *)
(* must be followed by that many: otherwise the rest of the file is lost.  *)
(***************************************************************************)
EXTENDS Integers, Sequences, FiniteSetsExt, SequencesExt, Characters

VARIABLES
  text,
  at,       \* the number of characters cut off
  tokens,   \* the tokens returned: place, kind and text
  verdict

vars == <<text, at, tokens, verdict>>

Piece(i, j) == SubSeq(text, i + 1, j)

(* Tokens *)

IsWord(s) == s[1] \in Letter /\ \A k \in 1..Len(s) : s[k] \in Letter \cup Digit

IsDecimal(s) == s[1] \in Digit \ {"0"} /\ \A k \in 1..Len(s) : s[k] \in Digit

IsCharacter(s) ==
  \/ Len(s) = 3 /\ s[1] = "'" /\ s[2] \notin {"'", Backslash} \cup Ends /\ s[3] = "'"
  \/ Len(s) = 4 /\ s[1] = "'" /\ s[2] = Backslash /\ s[3] \in Escapes /\ s[4] = "'"

\* A character is escaped by a backslash that is not escaped itself.
Escaped(s) == LET escaped[k \in 1..Len(s)] == k > 1 /\ s[k - 1] = Backslash /\ ~escaped[k - 1]
              IN  escaped

\* A string holds no newline, but for \r and \r\n, which are not taken for one.
IsString(s) ==
  LET last == Len(s)
  IN  /\ last > 1 /\ s[1] = "quote" /\ s[last] = "quote" /\ ~Escaped(s)[last]
      /\ \A k \in 2..(last - 1) :
            IF Escaped(s)[k] THEN s[k] \in Escapes
            ELSE s[k] # "quote" /\ (s[k] = Newline => s[k - 1] = Return)

\* The punctuators, with what each stands for.
Punctuator ==
  LET own == {<<c>> : c \in Special} \cup
        {<<".", ".", ".">>, <<"#", "#">>, <<"*", "=">>, <<"+", "+">>, <<"+", "=">>, <<"-", ">">>,
         <<"-", "-">>, <<"-", "=">>, <<"&", "&">>, <<"&", "=">>, <<"|", "|">>, <<"|", "=">>,
         <<"!", "=">>, <<"=", "=">>, <<"^", "=">>, <<"/", "=">>, <<"%", "=">>, <<"<", "<">>,
         <<"<", "=">>, <<">", ">">>, <<">", "=">>, <<"<", "<", "=">>, <<">", ">", "=">>}
  IN  {<<p, p>> : p \in own} \cup
        {<<<<"<", ":">>, <<"[">>>>, <<<<":", ">">>, <<"]">>>>, <<<<"<", "%">>, <<"{">>>>,
         <<<<"%", ">">>, <<"}">>>>, <<<<"%", ":">>, <<"#">>>>,
         <<<<"%", ":", "%", ":">>, <<"#", "#">>>>}
IsPunctuator(s) == \E p \in Punctuator : p[1] = s

IsToken(s) == IsWord(s) \/ s = <<"0">> \/ IsDecimal(s) \/ IsCharacter(s) \/ IsString(s) \/ IsPunctuator(s)

KindOf(s) ==
  CASE s \in Keywords -> <<"keyword">>
    [] IsWord(s) /\ s \notin Keywords -> <<"identifier">>
    [] s = <<"0">> -> <<"zero">>
    [] IsDecimal(s) -> <<"decimal">>
    [] IsCharacter(s) -> <<"character">>
    [] IsString(s) -> <<"string">>
    [] IsPunctuator(s) -> (CHOOSE p \in Punctuator : p[1] = s)[2]

(* Blanks and comments *)

IsBlank(s) == s = <<Return, Newline>> \/ (Len(s) = 1 /\ s[1] \in Blank)

\* Up to and including the end of the line, or up to the end of the file.
IsLineComment(s, atEnd) ==
  /\ IsPrefix(<<"/", "/">>, s)
  /\ \E n \in 0..2 :
       /\ \A k \in 1..(Len(s) - n) : s[k] \notin Ends
       /\ CASE n = 0 -> atEnd
            [] n = 1 -> s[Len(s)] \in Ends
            [] n = 2 -> s[Len(s) - 1] = Return /\ s[Len(s)] = Newline

IsComment(s) ==
  /\ Len(s) >= 4 /\ IsPrefix(<<"/", "*">>, s) /\ IsSuffix(<<"*", "/">>, s)
  /\ \A k \in 3..(Len(s) - 2) : ~(s[k] = "*" /\ s[k + 1] = "/")

IsSkipped(i, j) ==
  IsBlank(Piece(i, j)) \/ IsLineComment(Piece(i, j), j = Len(text)) \/ IsComment(Piece(i, j))

(* The longest piece *)

Cuts(i) == {j \in (i + 1)..Len(text) : IsToken(Piece(i, j)) \/ IsSkipped(i, j)}
OpensComment(i) == i + 2 <= Len(text) /\ Piece(i, i + 2) = <<"/", "*">>

\* A comment that is not closed is not a slash and a star.
CanCut(i) == Cuts(i) # {} /\ (OpensComment(i) => \E j \in Cuts(i) : IsSkipped(i, j))
Longest(i) == Max(Cuts(i))

\* The characters behind a token that the lexer looks at.
Lookahead(s) ==
  CASE s \in {<<".">>, <<"%", ":">>} -> 2
    [] IsWord(s) \/ IsDecimal(s) -> 1
    [] s \in {<<"<", "<">>, <<">", ">">>} -> 1
    [] Len(s) = 1 /\ s[1] \in Special \ {".", ",", ";", "(", ")", "{", "}", "[", "]", "?", "~"} -> 1
    [] OTHER -> 0

\* The stream still holds what the lexer looks at behind the piece up to j.
EndIsKnown(j) == IsSkipped(at, j) \/ j + Lookahead(Piece(at, j)) <= Len(text)

(* The steps *)

\* The \n behind the \r of a string is not kept.
TextOf(s) ==
  LET kept[k \in 0..Len(s)] == IF k = 0 THEN <<>>
                               ELSE IF s[k] = Newline THEN kept[k - 1] ELSE Append(kept[k - 1], s[k])
  IN  kept[Len(s)]

Token(s) == [line |-> LineOf(text, at), column |-> ColumnOf(text, at), kind |-> KindOf(s),
             text |-> TextOf(s)]

Init == at = 0 /\ tokens = <<>> /\ verdict = "none"

Skip ==
  /\ verdict = "none" /\ CanCut(at) /\ IsSkipped(at, Longest(at))
  /\ at' = Longest(at)
  /\ UNCHANGED <<text, tokens, verdict>>

Emit ==
  /\ verdict = "none" /\ CanCut(at) /\ ~IsSkipped(at, Longest(at)) /\ EndIsKnown(Longest(at))
  /\ tokens' = Append(tokens, Token(Piece(at, Longest(at))))
  /\ at' = Longest(at)
  /\ UNCHANGED <<text, verdict>>

\* The place of the end is one column off behind a comment that ends there.
Accept ==
  /\ verdict = "none" /\ at = Len(text)
  /\ \E offset \in {0, 1} :
       tokens' = Append(tokens, [line |-> LineOf(text, at), column |-> ColumnOf(text, at) + offset,
                                 kind |-> EndOfInput, text |-> <<>>])
  /\ verdict' = "accepted"
  /\ UNCHANGED <<text, at>>

Refuse ==
  /\ verdict \in {"none", "lost"}
  /\ verdict = "none" => at < Len(text) /\ ~CanCut(at)
  /\ verdict' = "refused"
  /\ UNCHANGED <<text, tokens>>

\* The last token is returned, perhaps with a wrong text, or the process
\* aborts; what is behind the token is not read any more.
Lose ==
  /\ verdict = "none" /\ CanCut(at) /\ ~EndIsKnown(Longest(at))
  /\ IF Piece(at, Longest(at)) = <<"/">>
     THEN verdict' = "aborted" /\ UNCHANGED tokens
     ELSE /\ verdict' = "lost"
          /\ \E str \in {TextOf(Piece(at, Longest(at))), <<text[at + 1], Other>>} :
               tokens' = Append(tokens, [Token(Piece(at, Longest(at))) EXCEPT !.text = str])
  /\ UNCHANGED text

Next == Skip \/ Emit \/ Accept \/ Refuse \/ Lose

Spec == Init /\ [][Next]_vars
================================================================================
