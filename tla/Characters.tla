------------------------------ MODULE Characters ------------------------------
(***************************************************************************)
(* The characters of a source file, as far as the lexer tells them apart,  *)
(* and the words made of them.                                             *)
(***************************************************************************)
EXTENDS Integers, Sequences, FiniteSets

\* The characters with a meaning of their own.  Other stands for every byte
\* that starts no token; the value 0xff of a failed read is one of them.
Newline == "\n"
Return  == "\r"
Nul     == "NUL"
Other   == "other"
Letter == {"a", "f", "i", "n"}
Digit  == {"0", "1", "7"}
Blank  == {" ", "tab", "vertical tab", Newline, Return}
Special == {"*", ",", ";", "(", ")", "{", "}", "[", "]", "?", ".", "#", "+", "-", "&", "|",
            "~", "!", "=", ":", "^", "/", "%", "<", ">"}
Quote  == {"'", "quote"}
Backslash == "backslash"
Char == Letter \cup Digit \cup Blank \cup Special \cup Quote \cup {Backslash, Other}

Keywords == {<<"i", "f">>}
Escapes == {"'", "quote", "?", Backslash, "a", "f", "n"}

\* The kind of a token is a word of its grammar or the spelling of a punctuator.
KindName == Special \cup {"identifier", "keyword", "zero", "decimal", "character", "string", "EOI"}
EndOfInput == <<"EOI">>

(* Places *)

Ends == {Newline, Return}

\* The lines that end up to a position, each with its last character but for \r\n.
LineEnds(str, i) ==
  {k \in 1..i : str[k] = Return \/ (str[k] = Newline /\ ~(k > 1 /\ str[k - 1] = Return))}
LineOf(str, i) == 1 + Cardinality(LineEnds(str, i))

\* The characters behind the last end of a line.
LineRest(str, i) == {k \in 1..i : \A m \in k..i : str[m] \notin Ends}
ColumnOf(str, i) == 1 + Cardinality(LineRest(str, i))
================================================================================
