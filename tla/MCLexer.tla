-------------------------------- MODULE MCLexer --------------------------------
(***************************************************************************)
(* The instance of the lexer for TLC.                                      *)
(***************************************************************************)
EXTENDS LexerInvariant

WordChars    == {"i", "f", "0", "7", " ", Newline}
LineChars    == {"a", Newline, Return, "/", "."}
CommentChars == {"/", "*", "a", Newline}
StringChars  == {"quote", Backslash, "n", Newline, Return}
CharChars    == {"'", Backslash, "n", Newline}
AngleChars   == {"<", ">", "=", ":", "%"}
SignChars    == {"+", "-", ">", "=", "&", ";"}
OtherChars   == {"|", "!", "^", "#", "*", "=", Other}
AllVocabularies ==
  {WordChars, LineChars, CommentChars, StringChars, CharChars, AngleChars, SignChars, OtherChars}
Lengths == [v \in AllVocabularies |->
  CASE v = CommentChars -> 6
    [] v \in {LineChars, StringChars, CharChars, AngleChars} -> 5
    [] v = WordChars -> 4
    [] OTHER -> 3]
================================================================================
