---------------------------- MODULE LexerInvariant ----------------------------
(***************************************************************************)
(* What the loops of the lexer have read, as long as they run: the proof   *)
(* that the lexer implements the tokenization rests on it.                 *)
(***************************************************************************)
EXTENDS LexerTokens

\* \r and \n of one newline are read together: no position is between them.
Splits(i) == i > 0 /\ i < Len(text) /\ text[i] = Return /\ text[i + 1] = Newline

\* What every operation of the stream preserves.
InFile(s) == s \in Stream /\ s.pos <= Len(text)
Located(s) ==
  /\ InFile(s)
  /\ Good(s) => /\ s.line = LineOf(text, s.pos) /\ s.column = ColumnOf(text, s.pos)
                /\ ~Splits(s.pos)

Lost(s) == s.fail /\ ~s.eof
\* The stream behind the last character, where its place may be one column off.
Ended(s) ==
  /\ s.eof /\ s.pos = Len(text) /\ s.line = LineOf(text, s.pos)
  /\ \E offset \in {0, 1} : s.column = ColumnOf(text, s.pos) + offset

\* The k-th character, in a literal that starts behind i.
Esc(i, k) == Reference!Escaped(Reference!Piece(i, k))[k - i]
StringChar(i, k) ==
  IF Esc(i, k) THEN text[k] \in Escapes
               ELSE text[k] # "quote" /\ (text[k] = Newline => text[k - 1] = Return)
\* A literal that goes on behind j, with a character that is not escaped.
OpenString(i, j) ==
  /\ text[i + 1] = "quote" /\ \A k \in (i + 2)..j : StringChar(i, k)
  /\ ~(text[j] = Backslash /\ ~Esc(i, j))

Closes(k) == text[k] = "*" /\ text[k + 1] = "/"
\* A comment that is not closed up to j.
OpenComment(i, j) ==
  /\ i + 2 <= j /\ text[i + 1] = "/" /\ text[i + 2] = "*"
  /\ \A k \in (i + 3)..(j - 1) : ~Closes(k)

(* The loops *)

\* The characters of a word or a number, up to the stream.
Collects(First, Class) ==
  /\ Good(stream) /\ start.pos < stream.pos /\ text[start.pos + 1] \in First
  /\ \A k \in (start.pos + 1)..stream.pos : text[k] \in Class
  /\ symbol = Reference!Piece(start.pos, stream.pos)

CollectsString ==
  /\ Good(stream) \/ (stream.eof /\ stream.pos = Len(text))
  /\ start.pos < stream.pos /\ OpenString(start.pos, stream.pos)
  /\ Reference!TextOf(Reference!Piece(start.pos, stream.pos)) = <<"quote">> \o symbol

SkipsLine ==
  /\ Good(stream) /\ start.pos <= stream.pos /\ start.pos + 2 <= Len(text)
  /\ text[start.pos + 1] = "/" /\ text[start.pos + 2] = "/"
  /\ \A k \in (start.pos + 1)..stream.pos : text[k] \notin Ends

SkipsComment ==
  /\ Good(stream) \/ (stream.eof /\ stream.pos = Len(text))
  /\ OpenComment(start.pos, stream.pos)
  /\ Good(stream) /\ stream.pos >= start.pos + 3 => text[stream.pos] # "*"

SkipsStars ==
  /\ Good(stream) /\ stream.pos >= start.pos + 3 /\ text[stream.pos] = "*"
  /\ OpenComment(start.pos, stream.pos)

Loop ==
  /\ pc = "next" => Good(stream) \/ Ended(stream) \/ Lost(stream)
  /\ pc = "word" => Collects(Letter, Letter \cup Digit)
  /\ pc = "number" => Collects(Digit \ {"0"}, Digit)
  /\ pc = "string" => CollectsString
  /\ pc = "line comment" => SkipsLine
  /\ pc = "comment" => SkipsComment
  /\ pc = "stars" => SkipsStars

\* A loop has read the characters behind the start of its token or comment, all
\* of them and no others, and the token or comment goes on up to the stream; the
\* symbol of every token is a string of the pool.
LoopsReadTheirTokens ==
  /\ Loop
  /\ pc \in LoopPc \ {"next"} => Good(start) /\ start.pos < Len(text)
  /\ \A i \in 1..Len(tokens) : tokens[i].symbol \in 1..Len(pool)
================================================================================
