------------------------------ MODULE LexerTokens ------------------------------
(***************************************************************************)
(* The lexer implements the tokenization, and other properties of it.      *)
(***************************************************************************)
EXTENDS Lexer, SequencesExt, FiniteSetsExt

\* Between the steps of the tokenization, the characters cut off are those in
\* front of the token or comment that is being read.
CutOff == IF pc \in {"next", "done"} THEN stream.pos ELSE start.pos

Verdict ==
  CASE pc = "done" -> "accepted"
    [] pc = "failed" -> "refused"
    [] pc = "aborted" -> "aborted"
    [] OTHER -> IF Good(stream) \/ stream.eof THEN "none" ELSE "lost"

TokenText(token) == [line |-> token.line, column |-> token.column, kind |-> token.kind,
                     text |-> pool[token.symbol]]

Reference == INSTANCE Tokenization WITH
  at <- CutOff, verdict <- Verdict, tokens <- [i \in 1..Len(tokens) |-> TokenText(tokens[i])]

\* The lexer cuts every file like the tokenization: the same tokens, of the same
\* kinds, texts and places, and the same files accepted and refused.  Only the
\* last token of a file can differ, when the stream ends within the look ahead.
LexerImplementsTokenization == Reference!Spec

\* Line and column of the stream, and those kept for the token that is being
\* read, are those of the character at its position: each \n, \r and \r\n is one
\* newline, and looking ahead does not count characters twice.
LocationsFollowPositions ==
  \A s \in {stream, start} :
    Good(s) => s.line = LineOf(text, s.pos) /\ s.column = ColumnOf(text, s.pos)

\* The lexer comes to an end in every file: no comment, literal or look ahead
\* loops at the end of the file.
LexingEnds == <>(pc \in {"done", "failed", "aborted"})
================================================================================
