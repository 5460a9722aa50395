------------------------------ MODULE LexerProofs ------------------------------
(***************************************************************************)
(* For files of every length and every vocabulary: the state of the lexer  *)
(* is well-typed, the line and column it keeps are those of its position   *)
(* in the file, and the lexer implements the tokenization.                 *)
(*                                                                         *)
(* The last proof has two halves.  Tokenization alone: what a piece of the *)
(* file may be, and which piece is the longest, from its first characters. *)
(* The lexer: what each operation of the stream returns, and what a loop   *)
(* has read so far, which is the longest piece when the loop ends.         *)
(***************************************************************************)
EXTENDS LexerInvariant, FiniteSetTheorems, SequenceTheorems, WellFoundedInduction, TLAPS

CharInput == Char \cup {Nul}

(* Lines and columns *)

LEMMA PlacesAreFinite ==
  ASSUME NEW i \in Nat
  PROVE  /\ IsFiniteSet(LineEnds(text, i)) /\ Cardinality(LineEnds(text, i)) \in Nat
         /\ IsFiniteSet(LineRest(text, i)) /\ Cardinality(LineRest(text, i)) \in Nat
<1>1. IsFiniteSet(1..i)
  BY FS_Interval
<1>2. LineEnds(text, i) \subseteq 1..i /\ LineRest(text, i) \subseteq 1..i
  BY DEF LineEnds, LineRest
<1> QED
  BY <1>1, <1>2, FS_Subset, FS_CardinalityType

LEMMA NothingInFront == LineOf(text, 0) = 1 /\ ColumnOf(text, 0) = 1
<1>1. LineEnds(text, 0) = {} /\ LineRest(text, 0) = {}
  BY DEF LineEnds, LineRest
<1> QED
  BY <1>1, FS_EmptySet DEF LineOf, ColumnOf

\* A character that ends a line and is not the \n of an \r\n starts a new one.
LEMMA LineEndAdvances ==
  ASSUME NEW i \in Nat, i < Len(text), text \in Seq(Char),
         text[i + 1] = Return \/ (text[i + 1] = Newline /\ ~Splits(i))
  PROVE  LineOf(text, i + 1) = LineOf(text, i) + 1 /\ ColumnOf(text, i + 1) = 1
<1>1. LineEnds(text, i + 1) = LineEnds(text, i) \cup {i + 1}
  BY DEF LineEnds, Splits, Return, Newline
<1>2. i + 1 \notin LineEnds(text, i)
  BY DEF LineEnds
<1>3. Cardinality(LineEnds(text, i + 1)) = Cardinality(LineEnds(text, i)) + 1
  BY <1>1, <1>2, PlacesAreFinite, FS_AddElement
<1>4. LineRest(text, i + 1) = {}
  BY DEF LineRest, Ends, Newline, Return
<1>5. Cardinality(LineRest(text, i + 1)) = 0
  BY <1>4, FS_EmptySet
<1>6. Cardinality(LineEnds(text, i)) \in Nat
  BY PlacesAreFinite
<1> QED
  BY <1>3, <1>5, <1>6 DEF LineOf, ColumnOf

\* The \n of an \r\n belongs to the newline in front of it.
LEMMA LineFeedAfterReturn ==
  ASSUME NEW i \in Nat, Splits(i), text \in Seq(Char)
  PROVE  LineOf(text, i + 1) = LineOf(text, i) /\ ColumnOf(text, i + 1) = 1
<1>1. LineEnds(text, i + 1) = LineEnds(text, i)
  BY DEF LineEnds, Splits, Return, Newline
<1>2. LineRest(text, i + 1) = {}
  BY DEF Splits, LineRest, Ends, Newline, Return
<1>3. Cardinality(LineRest(text, i + 1)) = 0
  BY <1>2, FS_EmptySet
<1> QED
  BY <1>1, <1>3 DEF LineOf, ColumnOf

\* Every other character is one more column.
LEMMA ColumnAdvances ==
  ASSUME NEW i \in Nat, i < Len(text), text \in Seq(Char), text[i + 1] \notin {Newline, Return}
  PROVE  /\ LineOf(text, i + 1) = LineOf(text, i)
         /\ ColumnOf(text, i + 1) = ColumnOf(text, i) + 1
<1>1. LineEnds(text, i + 1) = LineEnds(text, i)
  BY DEF LineEnds, Return, Newline
<1>2. LineRest(text, i + 1) = LineRest(text, i) \cup {i + 1}
  BY DEF LineRest, Ends, Return, Newline
<1>3. i + 1 \notin LineRest(text, i)
  BY DEF LineRest
<1>4. Cardinality(LineRest(text, i + 1)) = Cardinality(LineRest(text, i)) + 1
  BY <1>2, <1>3, PlacesAreFinite, FS_AddElement
<1> QED
  BY <1>1, <1>4, PlacesAreFinite DEF LineOf, ColumnOf

(* The stream *)

LEMMA GetOrEofStaysInFile ==
  ASSUME text \in Seq(Char), NEW s, InFile(s)
  PROVE  LET read == GetOrEof(s)
         IN  /\ read.char \in CharInput /\ InFile(read.rest)
             /\ ~read.rest.fail => ~read.rest.eof
             /\ read.rest.line = s.line /\ read.rest.column = s.column
             /\ Good(read.rest) => /\ Good(s) /\ ~AtEnd(s)
                                   /\ read.char = text[s.pos + 1]
                                   /\ read.rest = [s EXCEPT !.pos = @ + 1]
<1> DEFINE read == GetOrEof(s)
<1>1. s \in Stream /\ s.pos \in Nat /\ s.pos <= Len(text)
  BY DEF InFile, Stream
<1>2. Nul \in CharInput /\ Other \in CharInput
  BY DEF CharInput, Char
<1>3. CASE Good(s) /\ ~AtEnd(s)
  <2>1. read = [char |-> text[s.pos + 1], rest |-> [s EXCEPT !.pos = @ + 1]]
    BY <1>1, <1>3 DEF GetOrEof, Good
  <2>2. s.pos + 1 \in 1..Len(text)
    BY <1>1, <1>3 DEF AtEnd
  <2>3. text[s.pos + 1] \in Char
    BY <2>2
  <2> QED
    BY <1>1, <1>3, <2>1, <2>2, <2>3 DEF InFile, Stream, CharInput, Good
<1>4. CASE Good(s) /\ AtEnd(s)
  <2>1. read = [char |-> Nul, rest |-> [s EXCEPT !.eof = TRUE, !.fail = TRUE]]
    BY <1>1, <1>4 DEF GetOrEof, Good
  <2>2. read.char = Nul /\ read.rest = [s EXCEPT !.eof = TRUE, !.fail = TRUE]
    BY <2>1
  <2>3. /\ read.rest \in Stream /\ read.rest.fail /\ read.rest.pos = s.pos
        /\ read.rest.line = s.line /\ read.rest.column = s.column
    BY <1>1, <2>2 DEF Stream
  <2> QED
    BY <1>1, <1>2, <2>2, <2>3 DEF InFile, Good
<1>5. CASE s.eof
  <2>1. read = [char |-> Nul, rest |-> [s EXCEPT !.fail = TRUE]]
    BY <1>5 DEF GetOrEof, Good
  <2>2. read.char = Nul /\ read.rest = [s EXCEPT !.fail = TRUE]
    BY <2>1
  <2>3. /\ read.rest \in Stream /\ read.rest.fail /\ read.rest.pos = s.pos
        /\ read.rest.line = s.line /\ read.rest.column = s.column
    BY <1>1, <2>2 DEF Stream
  <2> QED
    BY <1>1, <1>2, <2>2, <2>3 DEF InFile, Good
<1>6. CASE ~s.eof /\ s.fail
  <2>1. read = [char |-> Other, rest |-> s]
    BY <1>6 DEF GetOrEof, Good
  <2> QED
    BY <1>1, <1>2, <1>6, <2>1 DEF InFile, Stream, Good
<1> QED
  BY <1>3, <1>4, <1>5, <1>6 DEF Good

\* Reading and putting back: a stream that is still good is where it was.
LEMMA UngetIsLocated ==
  ASSUME text \in Seq(Char), NEW s, Located(s), NEW t, InFile(t), NEW length \in Nat,
         t.line = s.line, t.column = s.column,
         Good(t) => Good(s) /\ t = [s EXCEPT !.pos = @ + length],
         ~t.fail => ~t.eof
  PROVE  LET back == Unget(t, length)
         IN  /\ Located(back) /\ back.line = s.line /\ back.column = s.column
             /\ Good(back) => back = s
<1> DEFINE back == Unget(t, length)
<1>1. s \in Stream /\ s.pos \in Nat /\ s.pos <= Len(text)
  BY DEF Located, InFile, Stream
<1>2. CASE t.fail
  <2>1. back = [t EXCEPT !.eof = FALSE]
    BY <1>2 DEF Unget
  <2>2. back \in Stream /\ ~Good(back) /\ back.pos = t.pos /\ back.line = s.line /\ back.column = s.column
    BY <1>2, <2>1 DEF InFile, Stream, Good
  <2> QED
    BY <2>2 DEF Located, InFile
<1>3. CASE ~t.fail
  <2>1. Good(s) /\ t = [s EXCEPT !.pos = @ + length]
    BY <1>3 DEF Good
  <2>2. back = [t EXCEPT !.eof = FALSE, !.pos = @ - length]
    BY <1>3 DEF Unget
  <2>3. t \in Stream /\ t.pos = s.pos + length
    BY <1>1, <2>1 DEF InFile, Stream
  <2>4. /\ back.pos = s.pos /\ back.eof = FALSE /\ back.fail = t.fail
        /\ back.line = t.line /\ back.column = t.column
    BY <1>1, <2>2, <2>3 DEF Stream
  <2>5. back \in Stream
    BY <1>1, <2>2, <2>3, <2>4 DEF Stream
  <2>6. back = s
    BY <1>1, <1>3, <2>1, <2>4, <2>5 DEF Stream, Good
  <2> QED
    BY <2>6
<1> QED
  BY <1>2, <1>3

LEMMA PeekIsLocated ==
  ASSUME text \in Seq(Char), NEW s, Located(s), NEW offset \in {0, 1}
  PROVE  LET ahead == Peek(s, offset)
         IN  /\ ahead.char \in CharInput /\ Located(ahead.rest)
             /\ ahead.rest.line = s.line /\ ahead.rest.column = s.column
             /\ Good(ahead.rest) => ahead.rest = s
<1> DEFINE ahead == Peek(s, offset)
           first == GetOrEof(s)
           last == IF offset = 1 THEN GetOrEof(first.rest) ELSE first
<1>1. ahead = [char |-> last.char, rest |-> Unget(last.rest, offset + 1)]
  BY DEF Peek
<1>2. InFile(s)
  BY DEF Located
<1>3. /\ first.char \in CharInput /\ InFile(first.rest) /\ (~first.rest.fail => ~first.rest.eof)
      /\ first.rest.line = s.line /\ first.rest.column = s.column
      /\ Good(first.rest) => Good(s) /\ first.rest = [s EXCEPT !.pos = @ + 1]
  BY <1>2, GetOrEofStaysInFile
<1>4. CASE offset = 0
  BY <1>1, <1>3, <1>4, UngetIsLocated
<1>5. CASE offset = 1
  <2>1. /\ last.char \in CharInput /\ InFile(last.rest) /\ (~last.rest.fail => ~last.rest.eof)
        /\ last.rest.line = s.line /\ last.rest.column = s.column
        /\ Good(last.rest) => /\ Good(first.rest)
                              /\ last.rest = [first.rest EXCEPT !.pos = @ + 1]
    BY <1>3, <1>5, GetOrEofStaysInFile
  <2>2. Good(last.rest) => Good(s) /\ last.rest = [s EXCEPT !.pos = @ + 2]
    BY <1>2, <1>3, <2>1 DEF InFile, Stream
  <2> QED
    BY <1>1, <1>5, <2>1, <2>2, UngetIsLocated
<1> QED
  BY <1>4, <1>5

LEMMA PeekStrIsLocated ==
  ASSUME text \in Seq(Char), NEW s, Located(s), NEW length \in Nat
  PROVE  Located(PeekStr(s, length).rest)
<1> DEFINE rest == PeekStr(s, length).rest
<1>1. CASE Good(s) /\ s.pos + length <= Len(text)
  BY <1>1 DEF PeekStr
<1>2. CASE ~(Good(s) /\ s.pos + length <= Len(text))
  <2>1. rest = [s EXCEPT !.fail = TRUE, !.eof = FALSE, !.pos = IF Good(s) THEN Len(text) ELSE @]
    BY <1>2 DEF PeekStr
  <2>2. s \in Stream /\ s.pos <= Len(text) /\ Len(text) \in Nat
    BY DEF Located, InFile
  <2>3. CASE Good(s)
    <3>1. rest = [s EXCEPT !.fail = TRUE, !.eof = FALSE, !.pos = Len(text)]
      BY <2>1, <2>3
    <3>2. rest \in Stream /\ rest.fail /\ rest.pos = Len(text)
      BY <2>2, <3>1 DEF Stream
    <3> QED
      BY <2>2, <3>2 DEF Located, InFile, Good
  <2>4. CASE ~Good(s)
    <3>1. rest = [s EXCEPT !.fail = TRUE, !.eof = FALSE, !.pos = @]
      BY <2>1, <2>4
    <3> QED
      BY <2>2, <3>1 DEF Located, InFile, Good, Stream
  <2> QED
    BY <2>3, <2>4
<1> QED
  BY <1>1, <1>2
LEMMA NextLineIsInFile ==
  ASSUME NEW s, InFile(s)
  PROVE  /\ InFile(NextLine(s)) /\ NextLine(s).pos = s.pos
         /\ NextLine(s).line = s.line + 1 /\ NextLine(s).column = 1
         /\ Good(NextLine(s)) <=> Good(s)
<1>1. s \in Stream
  BY DEF InFile
<1>2. NextLine(s) \in Stream
  <2>1. s.line + 1 \in Nat \ {0} /\ 1 \in Nat \ {0}
    BY <1>1 DEF Stream
  <2> QED
    BY <1>1, <2>1 DEF NextLine, Stream
<1> QED
  BY <1>1, <1>2 DEF NextLine, InFile, Stream, Good

LEMMA SkipLineFeedIsInFile ==
  ASSUME text \in Seq(Char), NEW s, InFile(s)
  PROVE  LET next == SkipLineFeed(s)
         IN  /\ InFile(next) /\ next.line = s.line
             /\ Good(next) => /\ Good(s) /\ s.pos < Len(text)
                              /\ next.pos = IF text[s.pos + 1] = Newline THEN s.pos + 1 ELSE s.pos
<1> DEFINE next == SkipLineFeed(s)
<1>1. s \in Stream /\ s.pos \in Nat /\ s.pos <= Len(text) /\ Len(text) \in Nat
  BY DEF InFile, Stream
<1>2. CASE AtEnd(s)
  <2>1. next = [s EXCEPT !.eof = TRUE]
    BY <1>2 DEF SkipLineFeed
  <2>2. next \in Stream /\ next.eof /\ next.pos = s.pos /\ next.line = s.line
    BY <1>1, <2>1 DEF Stream
  <2> QED
    BY <1>1, <2>2 DEF InFile, Good
<1>3. CASE ~AtEnd(s) /\ text[s.pos + 1] = Newline
  <2>1. next = [s EXCEPT !.pos = @ + 1]
    BY <1>3 DEF SkipLineFeed
  <2>2. s.pos < Len(text)
    BY <1>1, <1>3 DEF AtEnd
  <2>3. /\ next \in Stream /\ next.pos = s.pos + 1 /\ next.line = s.line
        /\ next.eof = s.eof /\ next.fail = s.fail
    BY <1>1, <2>1 DEF Stream
  <2> QED
    BY <1>1, <1>3, <2>2, <2>3 DEF InFile, Good
<1>4. CASE ~AtEnd(s) /\ text[s.pos + 1] # Newline
  <2>1. next = s
    BY <1>4 DEF SkipLineFeed
  <2>2. s.pos < Len(text)
    BY <1>1, <1>4 DEF AtEnd
  <2> QED
    BY <1>1, <1>4, <2>1, <2>2
<1> QED
  BY <1>2, <1>3, <1>4

LEMMA GetIsLocated ==
  ASSUME text \in Seq(Char), NEW s, Located(s)
  PROVE  Get(s).char \in CharInput /\ Located(Get(s).rest)
<1> DEFINE read == GetOrEof(s)
           c == read.char
           next == SkipLineFeed(read.rest)
<1>1. s \in Stream /\ s.pos \in Nat /\ s.pos <= Len(text) /\ Len(text) \in Nat
  BY DEF Located, InFile, Stream
<1>2. /\ c \in CharInput /\ InFile(read.rest) /\ read.rest.line = s.line /\ read.rest.column = s.column
      /\ Good(read.rest) => /\ Good(s) /\ s.pos < Len(text) /\ c = text[s.pos + 1]
                            /\ read.rest.pos = s.pos + 1
  <2>1. InFile(s)
    BY DEF Located
  <2>2. Good(read.rest) => read.rest = [s EXCEPT !.pos = @ + 1] /\ ~AtEnd(s)
    BY <2>1, GetOrEofStaysInFile
  <2>3. Good(read.rest) => read.rest.pos = s.pos + 1 /\ s.pos < Len(text)
    BY <1>1, <2>2 DEF AtEnd, Stream
  <2> QED
    BY <2>1, <2>3, GetOrEofStaysInFile
<1>3. Good(s) => /\ s.line = LineOf(text, s.pos) /\ s.column = ColumnOf(text, s.pos)
                 /\ ~Splits(s.pos)
  BY DEF Located
<1>4. CASE c = Newline
  <2>1. Get(s) = [char |-> Newline, rest |-> NextLine(read.rest)]
    BY <1>4 DEF Get, Newline, Return
  <2>2. Good(read.rest) => /\ LineOf(text, s.pos + 1) = LineOf(text, s.pos) + 1
                           /\ ColumnOf(text, s.pos + 1) = 1 /\ ~Splits(s.pos + 1)
    BY <1>1, <1>2, <1>3, <1>4, LineEndAdvances DEF Splits, Newline, Return
  <2> QED
    BY <1>2, <1>3, <1>4, <2>1, <2>2, NextLineIsInFile DEF Located
<1>5. CASE c = Return
  <2>1. Get(s) = [char |-> Newline, rest |-> NextLine(next)]
    BY <1>5 DEF Get, Newline, Return
  <2>2. /\ InFile(next) /\ next.line = s.line
        /\ Good(next) => /\ Good(read.rest) /\ read.rest.pos < Len(text)
                         /\ next.pos = IF text[read.rest.pos + 1] = Newline
                                       THEN read.rest.pos + 1 ELSE read.rest.pos
    BY <1>2, SkipLineFeedIsInFile
  <2>3. InFile(NextLine(next)) /\ Newline \in CharInput
    BY <2>2, NextLineIsInFile DEF CharInput, Char, Blank
  <2>4. ASSUME Good(NextLine(next))
        PROVE  /\ NextLine(next).line = LineOf(text, NextLine(next).pos)
               /\ NextLine(next).column = ColumnOf(text, NextLine(next).pos)
               /\ ~Splits(NextLine(next).pos)
    <3>1. Good(next) /\ NextLine(next).pos = next.pos /\ NextLine(next).line = next.line + 1
            /\ NextLine(next).column = 1
      BY <2>2, <2>4, NextLineIsInFile
    <3>2. LineOf(text, s.pos + 1) = LineOf(text, s.pos) + 1 /\ ColumnOf(text, s.pos + 1) = 1
      BY <1>1, <1>2, <1>5, <2>2, <3>1, LineEndAdvances
    <3>3. CASE text[s.pos + 2] = Newline
      <4>1. Splits(s.pos + 1)
        BY <1>1, <1>2, <1>5, <2>2, <3>1, <3>3 DEF Splits
      <4>2. LineOf(text, s.pos + 2) = LineOf(text, s.pos + 1) /\ ColumnOf(text, s.pos + 2) = 1
        <5>1. s.pos + 1 \in Nat /\ (s.pos + 1) + 1 = s.pos + 2
          BY <1>1
        <5> QED
          BY <4>1, <5>1, LineFeedAfterReturn
      <4>3. next.pos = s.pos + 2 /\ ~Splits(s.pos + 2)
        BY <1>1, <1>2, <2>2, <3>1, <3>3 DEF Splits, Newline, Return
      <4> QED
        BY <1>2, <1>3, <2>2, <3>1, <3>2, <4>2, <4>3
    <3>4. CASE text[s.pos + 2] # Newline
      <4>1. next.pos = s.pos + 1
        BY <1>1, <1>2, <2>2, <3>1, <3>4
      <4>2. ~Splits(s.pos + 1)
        BY <1>1, <3>4 DEF Splits
      <4> QED
        BY <1>2, <1>3, <2>2, <3>1, <3>2, <4>1, <4>2
    <3> QED
      BY <3>3, <3>4
  <2> QED
    BY <2>1, <2>3, <2>4 DEF Located
<1>6. CASE c \notin {Newline, Return}
  <2> DEFINE rest == [read.rest EXCEPT !.column = @ + 1]
  <2>1. Get(s) = [char |-> c, rest |-> rest]
    BY <1>6 DEF Get
  <2>2. /\ InFile(rest) /\ rest.pos = read.rest.pos /\ rest.line = s.line
        /\ rest.column = s.column + 1 /\ (Good(rest) <=> Good(read.rest))
    <3>1. read.rest \in Stream
      BY <1>2 DEF InFile
    <3>2. rest \in Stream
      BY <3>1 DEF Stream
    <3> QED
      BY <1>2, <3>1, <3>2 DEF InFile, Stream, Good
  <2>3. Good(read.rest) => /\ LineOf(text, s.pos + 1) = LineOf(text, s.pos)
                           /\ ColumnOf(text, s.pos + 1) = ColumnOf(text, s.pos) + 1
                           /\ ~Splits(s.pos + 1)
    BY <1>1, <1>2, <1>6, ColumnAdvances DEF Splits
  <2>4. Get(s).char = c /\ Get(s).rest = rest
    BY <2>1
  <2>5. Good(rest) => /\ rest.line = LineOf(text, rest.pos) /\ rest.column = ColumnOf(text, rest.pos)
                      /\ ~Splits(rest.pos)
    BY <1>2, <1>3, <2>2, <2>3
  <2> QED
    BY <1>2, <2>2, <2>4, <2>5 DEF Located
<1> QED
  BY <1>4, <1>5, <1>6

LEMMA GetStrIsLocated ==
  ASSUME text \in Seq(Char), NEW s, Located(s), NEW length \in 0..3
  PROVE  GetStr(s, length).chars \in Seq(CharInput) /\ Located(GetStr(s, length).rest)
<1> DEFINE first == Get(s)
           second == Get(first.rest)
           third == Get(second.rest)
<1>1. first.char \in CharInput /\ Located(first.rest)
  BY GetIsLocated
<1>2. second.char \in CharInput /\ Located(second.rest)
  BY <1>1, GetIsLocated
<1>3. third.char \in CharInput /\ Located(third.rest)
  BY <1>2, GetIsLocated
<1>4. CASE length = 0
  <2>1. GetStr(s, length) = [chars |-> <<>>, rest |-> s]
    BY <1>4 DEF GetStr
  <2> QED
    BY <2>1
<1>5. CASE length = 1
  <2>1. GetStr(s, length) = [chars |-> <<first.char>>, rest |-> first.rest]
    BY <1>5 DEF GetStr
  <2> QED
    BY <1>1, <2>1
<1>6. CASE length = 2
  <2>1. GetStr(s, length) = [chars |-> <<first.char, second.char>>, rest |-> second.rest]
    BY <1>6 DEF GetStr
  <2> QED
    BY <1>1, <1>2, <2>1
<1>7. CASE length = 3
  <2>1. GetStr(s, length) = [chars |-> <<first.char, second.char, third.char>>, rest |-> third.rest]
    BY <1>7 DEF GetStr
  <2> QED
    BY <1>1, <1>2, <1>3, <2>1
<1> QED
  BY <1>4, <1>5, <1>6, <1>7
(* The lexer *)

TokenRecord == [line : Nat, column : Nat, kind : Seq(KindName), symbol : Nat]

LEMMA SpecialCharacters ==
  /\ "." \in Special /\ "<" \in Special /\ ">" \in Special /\ "%" \in Special
  /\ ":" \in Special /\ "#" \in Special /\ "=" \in Special /\ "[" \in Special
  /\ "]" \in Special /\ "{" \in Special /\ "}" \in Special
BY DEF Special

LEMMA PairsAreSpecial ==
  ASSUME NEW c, NEW d, <<c, d>> \in Pairs
  PROVE  d \in Special
<1>1. d \in {"=", "#", "+", ">", "-", "&", "|", "%", ":", "<"}
  BY DEF Pairs
<1> QED
  BY <1>1 DEF Special

LEMMA Spellings ==
  /\ \A c \in Special : <<c>> \in Seq(KindName)
  /\ \A c, d \in Special : <<c, d>> \in Seq(KindName)
  /\ \A c, d, e \in Special : <<c, d, e>> \in Seq(KindName)
BY DEF KindName

LEMMA MakeTokenType ==
  ASSUME LexerTypeOK, NEW at \in Stream, NEW kind \in Seq(KindName), NEW str \in Seq(CharInput),
         MakeToken(at, kind, str)
  PROVE  tokens' \in Seq(TokenRecord) /\ pool' \in Seq(Seq(CharInput))
<1>1. pool \in Seq(Seq(CharInput)) /\ tokens \in Seq(TokenRecord)
  BY DEF LexerTypeOK, TokenRecord, CharInput
<1>2. pool' \in Seq(Seq(CharInput)) /\ \E i \in 1..Len(pool') : pool'[i] = str
  <2>1. CASE IsInternalized(str)
    BY <1>1, <2>1 DEF MakeToken, Internalize, IsInternalized
  <2>2. CASE ~IsInternalized(str)
    <3>1. pool' = Append(pool, str)
      BY <2>2 DEF MakeToken, Internalize
    <3>2. pool' \in Seq(Seq(CharInput)) /\ Len(pool') = Len(pool) + 1 /\ pool'[Len(pool) + 1] = str
      BY <1>1, <3>1
    <3>3. Len(pool) + 1 \in 1..Len(pool')
      BY <1>1, <3>2
    <3> QED
      BY <3>2, <3>3
  <2> QED
    BY <2>1, <2>2
<1>3. SymbolOf(str, pool') \in Nat
  <2>1. PICK i \in 1..Len(pool') : pool'[i] = str
    BY <1>2
  <2>2. SymbolOf(str, pool') \in 1..Len(pool')
    BY <2>1 DEF SymbolOf
  <2> QED
    BY <1>2, <2>2
<1>4. tokens' = Append(tokens, [line |-> at.line, column |-> at.column, kind |-> kind,
                                symbol |-> SymbolOf(str, pool')])
  BY DEF MakeToken
<1>5. [line |-> at.line, column |-> at.column, kind |-> kind, symbol |-> SymbolOf(str, pool')]
        \in TokenRecord
  BY <1>3 DEF TokenRecord, Stream
<1> QED
  BY <1>1, <1>2, <1>4, <1>5

LEMMA ExtensionIsLocated ==
  ASSUME text \in Seq(Char), NEW first \in Special, NEW s, Located(s)
  PROVE  LET more == Extension(first, s)
         IN  more.kind \in Seq(KindName) /\ more.length \in 0..3 /\ Located(more.rest)
<1> DEFINE more == Extension(first, s)
           one == Peek(s, 0)
           two == Peek(one.rest, 1)
           dots == PeekStr(s, 2)
           colons == PeekStr(one.rest, 3)
           pair == <<first, one.char>>
<1>1. one.char \in CharInput /\ Located(one.rest)
  BY PeekIsLocated
<1>2. Located(two.rest)
  BY <1>1, PeekIsLocated
<1>3. Located(dots.rest) /\ Located(colons.rest)
  BY <1>1, PeekStrIsLocated
<1>4. <<first>> \in Seq(KindName)
  BY Spellings
<1>5. CASE first = "."
  <2>1. more = IF dots.chars = <<".", ".">>
               THEN [kind |-> <<".", ".", ".">>, length |-> 2, rest |-> dots.rest]
               ELSE [kind |-> <<".">>, length |-> 0, rest |-> dots.rest]
    BY <1>5 DEF Extension, Pairs
  <2>2. <<".", ".", ".">> \in Seq(KindName) /\ <<".">> \in Seq(KindName)
    BY SpecialCharacters, Spellings
  <2>3. CASE dots.chars = <<".", ".">>
    BY <1>3, <2>1, <2>2, <2>3
  <2>4. CASE dots.chars # <<".", ".">>
    BY <1>3, <2>1, <2>2, <2>4
  <2> QED
    BY <2>3, <2>4
<1>6. CASE first # "." /\ \A p \in Pairs : p[1] # first
  <2>1. more = [kind |-> <<first>>, length |-> 0, rest |-> s]
    <3>1. pair \notin Pairs
      BY <1>6
    <3>2. pair \notin {<<"<", "<">>, <<">", ">">>} /\ pair # <<"%", ":">>
      BY <3>1 DEF Pairs
    <3> QED
      BY <1>6, <3>1, <3>2 DEF Extension
  <2> QED
    BY <1>4, <2>1
<1>7. CASE pair \in {<<"<", "<">>, <<">", ">">>}
  <2>1. more = IF two.char = "=" THEN [kind |-> Append(pair, "="), length |-> 2, rest |-> two.rest]
                                 ELSE [kind |-> pair, length |-> 1, rest |-> two.rest]
    BY <1>7 DEF Extension, Pairs
  <2>2. pair \in Seq(KindName)
    BY <1>7, SpecialCharacters, Spellings
  <2>3. Append(pair, "=") \in Seq(KindName)
    <3>1. "=" \in KindName
      BY SpecialCharacters DEF KindName
    <3> QED
      BY <2>2, <3>1
  <2>4. CASE two.char = "="
    BY <1>2, <2>1, <2>3, <2>4
  <2>5. CASE two.char # "="
    BY <1>2, <2>1, <2>2, <2>5
  <2> QED
    BY <2>4, <2>5
<1>8. CASE pair = <<"%", ":">>
  <2>1. more = IF colons.chars = <<":", "%", ":">>
               THEN [kind |-> <<"#", "#">>, length |-> 3, rest |-> colons.rest]
               ELSE [kind |-> <<"#">>, length |-> 1, rest |-> colons.rest]
    BY <1>8 DEF Extension, Pairs
  <2>2. <<"#", "#">> \in Seq(KindName) /\ <<"#">> \in Seq(KindName)
    BY SpecialCharacters, Spellings
  <2>3. CASE colons.chars = <<":", "%", ":">>
    BY <1>3, <2>1, <2>2, <2>3
  <2>4. CASE colons.chars # <<":", "%", ":">>
    BY <1>3, <2>1, <2>2, <2>4
  <2> QED
    BY <2>3, <2>4
<1>9. CASE pair \in Pairs \ {<<"<", "<">>, <<">", ">">>, <<"%", ":">>}
  <2>1. first # "." /\ \E p \in Pairs : p[1] = first
    BY <1>9 DEF Pairs
  <2>2. more = [kind |-> Digraph(pair), length |-> 1, rest |-> one.rest]
    BY <1>9, <2>1 DEF Extension
  <2>3. Digraph(pair) \in {<<"]">>, <<"[">>, <<"}">>, <<"{">>, <<"#">>, pair}
    BY DEF Digraph
  <2>4. Digraph(pair) \in Seq(KindName)
    <3>1. pair \in Seq(KindName) /\ \A c \in {"]", "[", "}", "{", "#"} : <<c>> \in Seq(KindName)
      BY <1>9, PairsAreSpecial, SpecialCharacters, Spellings
    <3> QED
      BY <2>3, <3>1
  <2> QED
    BY <1>1, <2>2, <2>4
<1>10. CASE first # "." /\ (\E p \in Pairs : p[1] = first) /\ pair \notin Pairs
  <2>1. pair \notin {<<"<", "<">>, <<">", ">">>} /\ pair # <<"%", ":">>
    BY <1>10 DEF Pairs
  <2>2. more = [kind |-> <<first>>, length |-> 0, rest |-> one.rest]
    BY <1>10, <2>1 DEF Extension
  <2> QED
    BY <1>1, <1>4, <2>2
<1> QED
  BY <1>5, <1>6, <1>7, <1>8, <1>9, <1>10
(* The invariant *)

IInv == LexerTypeOK /\ Located(stream) /\ Located(start)

LEMMA AheadIsLocated ==
  ASSUME IInv
  PROVE  /\ Ahead.char \in CharInput /\ Located(Ahead.rest)
         /\ BehindSlash.char \in CharInput /\ Located(BehindSlash.rest)
<1>1. text \in Seq(Char) /\ Located(stream)
  BY DEF IInv, LexerTypeOK
<1>2. Ahead.char \in CharInput /\ Located(Ahead.rest)
  BY <1>1, PeekIsLocated DEF Ahead
<1> QED
  BY <1>1, <1>2, PeekIsLocated DEF BehindSlash

\* A step that returns a token.
LEMMA ReturnKeepsInvariant ==
  ASSUME IInv, NEW at \in Stream, NEW kind \in Seq(KindName), NEW str \in Seq(CharInput),
         Return_(at, kind, str), Located(stream'), Located(start'), text' = text
  PROVE  IInv'
<1>1. tokens' \in Seq(TokenRecord) /\ pool' \in Seq(Seq(CharInput))
  BY MakeTokenType DEF IInv, Return_
<1>2. stream' \in Stream /\ start' \in Stream
  BY DEF Located, InFile
<1>3. LexerTypeOK'
  <2>1. pc' \in LoopPc /\ symbol' = <<>>
    BY DEF Return_, LoopPc
  <2>2. symbol' \in Seq(CharInput) /\ text' \in Seq(Char)
    BY <2>1 DEF IInv, LexerTypeOK
  <2> QED
    BY <1>1, <1>2, <2>1, <2>2 DEF LexerTypeOK, TokenRecord, CharInput
<1> QED
  BY <1>3 DEF IInv, Located, InFile, Splits

\* A step that continues a loop or starts one.
LEMMA ContinueKeepsInvariant ==
  ASSUME IInv, NEW where \in LoopPc, NEW s, Located(s), NEW str \in Seq(CharInput),
         Continue(where, s, str), Located(start')
  PROVE  IInv'
<1>1. stream' \in Stream /\ start' \in Stream
  BY DEF Located, InFile, Continue
<1> QED
  BY <1>1 DEF IInv, LexerTypeOK, Continue, CharInput, Located, InFile, Splits

\* A step that ends the process.
LEMMA StopKeepsInvariant ==
  ASSUME IInv, NEW reason \in {"failed", "aborted"}, Stop(reason),
         Located(stream'), Located(start'), text' = text
  PROVE  IInv'
<1>1. stream' \in Stream /\ start' \in Stream
  BY DEF Located, InFile
<1> QED
  BY <1>1 DEF IInv, LexerTypeOK, Stop, Located, InFile, Splits
LEMMA InitEstablishesInvariant == Init => IInv
<1> SUFFICES ASSUME Init PROVE IInv
  OBVIOUS
<1>1. text \in Seq(Char)
  BY VocabularyAssumption DEF Init
<1>2. OpenedStream \in Stream /\ OpenedStream.pos = 0
  BY DEF OpenedStream, Stream
<1>3. Located(OpenedStream)
  BY <1>1, <1>2, NothingInFront DEF Located, InFile, Splits, OpenedStream
<1> QED
  BY <1>1, <1>2, <1>3 DEF Init, IInv, LexerTypeOK, LoopPc

LEMMA NextKeepsInvariant == IInv /\ [Next]_vars => IInv'
<1> SUFFICES ASSUME IInv, [Next]_vars PROVE IInv'
  OBVIOUS
<1>1. /\ text \in Seq(Char) /\ Located(stream) /\ Located(start) /\ symbol \in Seq(CharInput)
      /\ stream \in Stream /\ start \in Stream
  BY DEF IInv, LexerTypeOK, CharInput
<1>2. /\ Ahead.char \in CharInput /\ Located(Ahead.rest)
      /\ BehindSlash.char \in CharInput /\ Located(BehindSlash.rest)
  BY AheadIsLocated
<1>3. Get(Ahead.rest).char \in CharInput /\ Located(Get(Ahead.rest).rest)
  BY <1>1, <1>2, GetIsLocated
<1>4. Get(stream).char \in CharInput /\ Located(Get(stream).rest)
  BY <1>1, GetIsLocated
<1>5. "next" \in LoopPc /\ "word" \in LoopPc /\ "number" \in LoopPc /\ "string" \in LoopPc
      /\ "line comment" \in LoopPc /\ "comment" \in LoopPc /\ "stars" \in LoopPc
  BY DEF LoopPc
<1>6. \A name \in {"identifier", "keyword", "zero", "decimal", "character", "string", "EOI"} :
        <<name>> \in Seq(KindName)
  BY DEF KindName
<1>7. "0" \in CharInput /\ "'" \in CharInput /\ "quote" \in CharInput /\ Backslash \in CharInput
  BY DEF CharInput, Char, Digit, Quote
<1>8. Append(symbol, Ahead.char) \in Seq(CharInput) /\ <<Get(Ahead.rest).char>> \in Seq(CharInput)
      /\ <<>> \in Seq(CharInput) /\ <<"0">> \in Seq(CharInput)
  BY <1>1, <1>2, <1>3, <1>7
<1>9. CASE SkipBlank
  BY <1>1, <1>3, <1>5, <1>9, ContinueKeepsInvariant DEF SkipBlank
<1>10. CASE ReadEnd
  <2>1. stream' = Ahead.rest /\ text' = text /\ start' = start /\ symbol' = symbol /\ pc' = "done"
    BY <1>10 DEF ReadEnd
  <2>2. MakeToken(Ahead.rest, EndOfInput, <<>>)
    BY <1>10 DEF ReadEnd
  <2>3. tokens' \in Seq(TokenRecord) /\ pool' \in Seq(Seq(CharInput))
    BY <1>2, <1>6, <1>8, <2>2, MakeTokenType DEF EndOfInput, IInv, Located, InFile
  <2>4. Located(stream') /\ Located(start') /\ stream' \in Stream /\ start' \in Stream
    BY <1>1, <1>2, <2>1 DEF Located, InFile
  <2>5. LexerTypeOK'
    BY <1>1, <2>1, <2>3, <2>4 DEF LexerTypeOK, TokenRecord, CharInput
  <2> QED
    BY <2>1, <2>4, <2>5 DEF IInv, Located, InFile, Splits
<1>11. CASE UnknownToken
  BY <1>1, <1>2, <1>11, StopKeepsInvariant DEF UnknownToken
<1>12. CASE StartWord
  BY <1>1, <1>3, <1>5, <1>8, <1>12, ContinueKeepsInvariant DEF StartWord
<1>13. CASE ReadWord
  BY <1>1, <1>3, <1>5, <1>8, <1>13, ContinueKeepsInvariant DEF ReadWord
<1>14. CASE EndWord
  BY <1>1, <1>2, <1>6, <1>14, ReturnKeepsInvariant DEF EndWord
<1>15. CASE ReadZero
  BY <1>1, <1>3, <1>6, <1>8, <1>15, ReturnKeepsInvariant DEF ReadZero
<1>16. CASE StartNumber
  BY <1>1, <1>3, <1>5, <1>8, <1>16, ContinueKeepsInvariant DEF StartNumber
<1>17. CASE ReadNumber
  BY <1>1, <1>3, <1>5, <1>8, <1>17, ContinueKeepsInvariant DEF ReadNumber
<1>18. CASE EndNumber
  BY <1>1, <1>2, <1>6, <1>18, ReturnKeepsInvariant DEF EndNumber
<1>19. CASE ReadCharConstant
  <2> DEFINE open == Get(Ahead.rest)
             first == Get(open.rest)
             inner == IF first.char = Backslash THEN Get(first.rest) ELSE first
             close == Get(inner.rest)
  <2>1. FinishCharConstant(first, inner, close)
    BY <1>19 DEF ReadCharConstant
  <2>2. open.char \in CharInput /\ Located(open.rest)
    BY <1>3
  <2>3. first.char \in CharInput /\ Located(first.rest)
    BY <1>1, <2>2, GetIsLocated
  <2>4. inner.char \in CharInput /\ Located(inner.rest)
    BY <1>1, <2>3, GetIsLocated
  <2>5. Located(close.rest)
    BY <1>1, <2>4, GetIsLocated
  <2>6. /\ <<"'", Backslash, inner.char, "'">> \in Seq(CharInput)
        /\ <<"'", first.char, "'">> \in Seq(CharInput)
    BY <1>7, <2>3, <2>4
  <2>7. Located(start') /\ text' = text
    BY <1>1, <1>19 DEF ReadCharConstant
  <2>8. CASE stream' = Ahead.rest /\ Stop("failed")
    BY <1>2, <2>7, <2>8, StopKeepsInvariant
  <2>9. CASE /\ stream' = close.rest
             /\ Return_(stream, <<"character">>,
                  IF first.char = Backslash THEN <<"'", Backslash, inner.char, "'">>
                                            ELSE <<"'", first.char, "'">>)
    <3>1. PICK str \in Seq(CharInput) :
            str = IF first.char = Backslash THEN <<"'", Backslash, inner.char, "'">>
                                            ELSE <<"'", first.char, "'">>
      BY <2>6
    <3> HIDE DEF close, first, inner
    <3>2. Located(stream') /\ Return_(stream, <<"character">>, str)
      BY <2>5, <2>7, <2>9, <3>1 DEF Located, InFile
    <3> QED BY <1>1, <1>6, <2>7, <3>1, <3>2, ReturnKeepsInvariant
  <2> QED
    BY <2>1, <2>8, <2>9, <2>7 DEF FinishCharConstant
<1>20. CASE StartString
  BY <1>1, <1>3, <1>5, <1>8, <1>20, ContinueKeepsInvariant DEF StartString
<1>21. CASE ReadString
  BY <1>1, <1>3, <1>5, <1>8, <1>21, ContinueKeepsInvariant DEF ReadString
<1>22. CASE ReadEscape
  <2> DEFINE escape == Get(Get(Ahead.rest).rest)
  <2>1. escape.char \in CharInput /\ Located(escape.rest)
    BY <1>1, <1>3, GetIsLocated
  <2>2. symbol \o <<Backslash, escape.char>> \in Seq(CharInput)
    BY <1>1, <1>7, <2>1
  <2>3. Located(start')
    BY <1>1, <1>22 DEF ReadEscape
  <2>4. CASE Continue("string", escape.rest, symbol \o <<Backslash, escape.char>>)
    BY <1>5, <2>1, <2>2, <2>3, <2>4, ContinueKeepsInvariant
  <2>5. CASE stream' = escape.rest /\ Stop("failed") /\ text' = text
    BY <2>1, <2>3, <2>5, StopKeepsInvariant
  <2> QED
    BY <1>22, <2>4, <2>5 DEF ReadEscape
<1>23. CASE UnclosedString
  BY <1>1, <1>2, <1>23, StopKeepsInvariant DEF UnclosedString
<1>24. CASE EndString
  <2>1. <<"quote">> \o symbol \o <<"quote">> \in Seq(CharInput)
    BY <1>1, <1>7
  <2> QED
    BY <1>1, <1>3, <1>6, <1>24, <2>1, ReturnKeepsInvariant DEF EndString
<1>25. CASE StartLineComment
  BY <1>1, <1>2, <1>5, <1>8, <1>25, ContinueKeepsInvariant DEF StartLineComment
<1>26. CASE ReadLineComment
  BY <1>1, <1>4, <1>5, <1>8, <1>26, ContinueKeepsInvariant DEF ReadLineComment
<1>27. CASE StartComment
  <2>1. Located(GetStr(BehindSlash.rest, 2).rest)
    BY <1>1, <1>2, GetStrIsLocated
  <2> QED
    BY <1>1, <1>5, <1>8, <1>27, <2>1, ContinueKeepsInvariant DEF StartComment
<1>28. CASE ReadComment
  BY <1>1, <1>3, <1>5, <1>8, <1>28, ContinueKeepsInvariant DEF ReadComment
<1>29. CASE ReadStars
  BY <1>1, <1>4, <1>5, <1>8, <1>29, ContinueKeepsInvariant DEF ReadStars
<1>30. CASE UnclosedComment
  BY <1>1, <1>2, <1>30, StopKeepsInvariant DEF UnclosedComment
<1>31. CASE ReadPunctuator
  <2> DEFINE begin == IF Ahead.char = "/" THEN BehindSlash.rest ELSE Ahead.rest
             first == Get(begin)
             more == Extension(first.char, first.rest)
             rest == GetStr(more.rest, more.length)
  <2>1. /\ Located(start') /\ text' = text
        /\ IF first.char \in Special
           THEN stream' = rest.rest /\ Return_(stream, more.kind, <<first.char>> \o rest.chars)
           ELSE stream' = first.rest /\ Stop("aborted")
    BY <1>1, <1>31 DEF ReadPunctuator
  <2>2. Located(begin)
    BY <1>2
  <2>3. first.char \in CharInput /\ Located(first.rest)
    BY <1>1, <2>2, GetIsLocated
  <2>4. CASE first.char \in Special
    <3>1. more.kind \in Seq(KindName) /\ more.length \in 0..3 /\ Located(more.rest)
      BY <1>1, <2>3, <2>4, ExtensionIsLocated
    <3>2. rest.chars \in Seq(CharInput) /\ Located(rest.rest)
      BY <1>1, <3>1, GetStrIsLocated
    <3>3. <<first.char>> \o rest.chars \in Seq(CharInput)
      BY <2>3, <3>2, SMTT(20)
    <3> QED
      BY <1>1, <2>1, <2>4, <3>1, <3>2, <3>3, ReturnKeepsInvariant
  <2>5. CASE first.char \notin Special
    BY <2>1, <2>3, <2>5, StopKeepsInvariant
  <2> QED
    BY <2>4, <2>5
<1>32. CASE UNCHANGED vars
  BY <1>32 DEF IInv, LexerTypeOK, vars, Located, InFile, Splits
<1> QED
  BY <1>9, <1>10, <1>11, <1>12, <1>13, <1>14, <1>15, <1>16, <1>17, <1>18, <1>19, <1>20, <1>21,
     <1>22, <1>23, <1>24, <1>25, <1>26, <1>27, <1>28, <1>29, <1>30, <1>31, <1>32 DEF Next

LEMMA SameClasses ==
  /\ Reference!Newline = Newline /\ Reference!Return = Return /\ Reference!Ends = Ends
  /\ Reference!Letter = Letter /\ Reference!Digit = Digit /\ Reference!Blank = Blank
  /\ Reference!Special = Special /\ Reference!Backslash = Backslash
  /\ Reference!Escapes = Escapes /\ Reference!Keywords = Keywords /\ Reference!Other = Other
BY DEF Reference!Newline, Newline, Reference!Return, Return, Reference!Ends, Ends,
   Reference!Letter, Letter, Reference!Digit, Digit, Reference!Blank, Blank,
   Reference!Special, Special, Reference!Backslash, Backslash, Reference!Escapes, Escapes,
   Reference!Keywords, Keywords, Reference!Other, Other

\* The classes of the characters have nothing in common.
LEMMA ClassesApart ==
  /\ Letter \cap Digit = {} /\ Letter \cap Blank = {} /\ Letter \cap Special = {}
  /\ Digit \cap Blank = {} /\ Digit \cap Special = {} /\ Blank \cap Special = {}
  /\ \A c \in {"'", "quote", Backslash, Other, Nul} : c \notin Letter \cup Digit \cup Blank \cup Special
  /\ "0" \in Digit /\ "/" \in Special /\ "*" \in Special /\ Newline \in Blank /\ Return \in Blank
  /\ Newline # Return /\ Nul \notin Char /\ "'" # "quote" /\ Backslash \notin {"'", "quote"}
  /\ Other \notin {"'", "quote", Backslash} /\ "/" # "*"
BY DEF Letter, Digit, Blank, Special, Newline, Return, Backslash, Other, Nul, Char, Quote

(* Pieces of the file *)

LEMMA PieceIs ==
  ASSUME text \in Seq(Char), NEW i \in Nat, NEW j \in Nat, i <= j, j <= Len(text)
  PROVE  LET s == Reference!Piece(i, j)
         IN  /\ s \in Seq(Char) /\ Len(s) = j - i
             /\ \A k \in 1..(j - i) : s[k] = text[i + k]
<1>1. \A k \in (i + 1)..j : text[k] \in Char
  OBVIOUS
<1>2. /\ SubSeq(text, i + 1, j) \in Seq(Char)
      /\ Len(SubSeq(text, i + 1, j)) = IF i + 1 <= j THEN j - (i + 1) + 1 ELSE 0
      /\ \A k \in 1..(j - (i + 1) + 1) : SubSeq(text, i + 1, j)[k] = text[(i + 1) + k - 1]
  BY <1>1, SubSeqProperties
<1>3. j - (i + 1) + 1 = j - i /\ \A k \in 1..(j - i) : (i + 1) + k - 1 = i + k
  OBVIOUS
<1> QED BY <1>2, <1>3 DEF Reference!Piece

\* A sequence of one to four elements.
LEMMA Longhand ==
  ASSUME NEW S, NEW s \in Seq(S)
  PROVE  /\ Len(s) = 1 => s = <<s[1]>>
         /\ Len(s) = 2 => s = <<s[1], s[2]>>
         /\ Len(s) = 3 => s = <<s[1], s[2], s[3]>>
         /\ Len(s) = 4 => s = <<s[1], s[2], s[3], s[4]>>
OBVIOUS

\* Induction: what holds of 0, and of each number behind one it holds of.
LEMMA InductionUpTo ==
  ASSUME NEW n \in Nat, NEW S, 0 \in S, \A k \in 0..(n - 1) : k \in S => k + 1 \in S
  PROVE  \A k \in 0..n : k \in S
<1> DEFINE T == {k \in 0..n : k \notin S}
           R == OpToRel(<, Nat)
<1>1. SUFFICES ASSUME T # {} PROVE FALSE
  OBVIOUS
<1>2. \E x \in T : \A y \in T : ~(<<y, x>> \in R)
  <2>1. IsWellFoundedOn(R, Nat)
    BY NatLessThanWellFounded
  <2>2. T \subseteq Nat
    OBVIOUS
  <2> HIDE DEF R
  <2> HIDE DEF T
  <2> QED BY <1>1, <2>1, <2>2, WFMin
<1>3. PICK x \in T : \A y \in T : ~(<<y, x>> \in R)
  BY <1>2
<1>4. x \in 0..n /\ x \notin S /\ x # 0
  OBVIOUS
<1>5. x - 1 \in 0..(n - 1) /\ (x - 1) + 1 = x /\ x - 1 \in 0..n
  BY <1>4
<1>6. x - 1 \in T
  BY <1>4, <1>5
<1>7. <<x - 1, x>> \in R
  BY <1>4, <1>5 DEF OpToRel
<1> QED BY <1>3, <1>6, <1>7

LEMMA LongestIs ==
  ASSUME NEW i \in Nat, NEW j \in Reference!Cuts(i), \A m \in Reference!Cuts(i) : m <= j,
         text \in Seq(Char)
  PROVE  Reference!Longest(i) = j /\ Reference!Cuts(i) # {}
<1>1. \A m \in Reference!Cuts(i) : m \in Nat
  BY DEF Reference!Cuts
<1> QED BY <1>1 DEF Reference!Longest, Reference!Max

(* What starts with which character *)

\* The lengths and the spellings of the punctuators.
\* The spellings that stand for themselves, and the others.
Owns(S) == {<<c>> : c \in S} \cup
        {<<".", ".", ".">>, <<"#", "#">>, <<"*", "=">>, <<"+", "+">>, <<"+", "=">>, <<"-", ">">>,
         <<"-", "-">>, <<"-", "=">>, <<"&", "&">>, <<"&", "=">>, <<"|", "|">>, <<"|", "=">>,
         <<"!", "=">>, <<"=", "=">>, <<"^", "=">>, <<"/", "=">>, <<"%", "=">>, <<"<", "<">>,
         <<"<", "=">>, <<">", ">">>, <<">", "=">>, <<"<", "<", "=">>, <<">", ">", "=">>}
Respelled ==
        {<<<<"<", ":">>, <<"[">>>>, <<<<":", ">">>, <<"]">>>>, <<<<"<", "%">>, <<"{">>>>,
         <<<<"%", ">">>, <<"}">>>>, <<<<"%", ":">>, <<"#">>>>,
         <<<<"%", ":", "%", ":">>, <<"#", "#">>>>}

LEMMA PunctuatorSet == Reference!Punctuator = {<<p, p>> : p \in Owns(Special)} \cup Respelled
<1>1. Reference!Punctuator = {<<p, p>> : p \in Owns(Reference!Special)} \cup Respelled
  BY DEF Reference!Punctuator, Owns, Respelled
<1> QED BY <1>1, SameClasses

LEMMA PunctuatorIs ==
  ASSUME NEW s \in Seq(Char), Len(s) >= 1
  PROVE  Reference!IsPunctuator(s) <=>
           \/ Len(s) = 1 /\ s[1] \in Special
           \/ Len(s) = 2 /\ <<s[1], s[2]>> \in Pairs
           \/ Len(s) = 3 /\ s \in {<<".", ".", ".">>, <<"<", "<", "=">>, <<">", ">", "=">>}
           \/ Len(s) = 4 /\ s = <<"%", ":", "%", ":">>
<1> DEFINE own == Owns(Special)
           digraphs == {<<"<", ":">>, <<":", ">">>, <<"<", "%">>, <<"%", ">">>, <<"%", ":">>,
                        <<"%", ":", "%", ":">>}
<1>1. Reference!IsPunctuator(s) <=> s \in own \/ s \in digraphs
  <2>1. (\E p \in {<<q, q>> : q \in own} : p[1] = s) <=> s \in own
    <3> HIDE DEF own
    <3>1. ASSUME NEW q \in own, <<q, q>>[1] = s PROVE s \in own
      BY <3>1
    <3>2. ASSUME s \in own PROVE \E p \in {<<q, q>> : q \in own} : p[1] = s
      <4>1. <<s, s>> \in {<<q, q>> : q \in own} /\ <<s, s>>[1] = s
        BY <3>2
      <4> QED BY <4>1
    <3> QED BY <3>1, <3>2
  <2>2. (\E p \in Respelled : p[1] = s) <=> s \in digraphs
    BY DEF Respelled
  <2>3. Reference!IsPunctuator(s) <=>
          (\E p \in {<<q, q>> : q \in own} : p[1] = s) \/ (\E p \in Respelled : p[1] = s)
    BY PunctuatorSet DEF Reference!IsPunctuator
  <2> HIDE DEF own, digraphs
  <2> QED BY <2>1, <2>2, <2>3
<1>2. s \in own \/ s \in digraphs <=>
        \/ s \in {<<c>> : c \in Special}
        \/ s \in Pairs
        \/ s \in {<<".", ".", ".">>, <<"<", "<", "=">>, <<">", ">", "=">>}
        \/ s = <<"%", ":", "%", ":">>
  BY DEF Pairs, Owns
<1>3. s \in {<<c>> : c \in Special} <=> Len(s) = 1 /\ s[1] \in Special
  BY Longhand
<1>4. s \in Pairs <=> Len(s) = 2 /\ <<s[1], s[2]>> \in Pairs
  <2>1. \A p \in Pairs : Len(p) = 2 /\ p = <<p[1], p[2]>>
    BY DEF Pairs
  <2>2. CASE Len(s) = 2
    BY <2>2, Longhand
  <2> QED BY <2>1, <2>2
<1>5. s \in {<<".", ".", ".">>, <<"<", "<", "=">>, <<">", ">", "=">>} => Len(s) = 3
  OBVIOUS
<1>6. s = <<"%", ":", "%", ":">> => Len(s) = 4
  OBVIOUS
<1> QED BY <1>1, <1>2, <1>3, <1>4, <1>5, <1>6

LEMMA PairsFirst ==
  ASSUME NEW c, NEW d, <<c, d>> \in Pairs
  PROVE  c \in {"*", "#", "+", "-", "&", "|", "!", "=", ":", "^", "/", "%", "<", ">"} /\ c \in Special
<1>1. c \in {"*", "#", "+", "-", "&", "|", "!", "=", ":", "^", "/", "%", "<", ">"}
  BY DEF Pairs
<1> QED BY <1>1 DEF Special

LEMMA FirstTwo ==
  ASSUME NEW S, NEW s \in Seq(S), Len(s) >= 2
  PROVE  SubSeq(s, 1, 2) = <<s[1], s[2]>>
<1>1. \A k \in 1..2 : s[k] \in S
  OBVIOUS
<1>2. SubSeq(s, 1, 2) \in Seq(S) /\ Len(SubSeq(s, 1, 2)) = 2
      /\ SubSeq(s, 1, 2)[1] = s[1] /\ SubSeq(s, 1, 2)[2] = s[2]
  BY <1>1, SubSeqProperties
<1> QED BY <1>2, Longhand

LEMMA PunctuatorFirst ==
  ASSUME NEW s \in Seq(Char), Len(s) >= 1, Reference!IsPunctuator(s)
  PROVE  s[1] \in Special
<1>1. <<s[1], s[2]>> \in Pairs => s[1] \in Special
  BY PairsFirst
<1>2. s \in {<<".", ".", ".">>, <<"<", "<", "=">>, <<">", ">", "=">>} => s[1] \in Special
  <2>1. "." \in Special /\ "<" \in Special /\ ">" \in Special
    BY SpecialCharacters
  <2> QED BY <2>1
<1>3. s = <<"%", ":", "%", ":">> => s[1] \in Special
  <2>1. "%" \in Special
    BY SpecialCharacters
  <2>2. ASSUME s = <<"%", ":", "%", ":">> PROVE s[1] = "%"
    BY <2>2
  <2> QED BY <2>1, <2>2
<1> QED BY <1>1, <1>2, <1>3, PunctuatorIs

LEMMA PrefixOfTwo ==
  ASSUME NEW S, NEW s \in Seq(S), NEW c, NEW d
  PROVE  Reference!IsPrefix(<<c, d>>, s) <=> Len(s) >= 2 /\ s[1] = c /\ s[2] = d
<1>1. SubSeq(<<c, d>>, 1, 2) = <<c, d>> /\ Len(<<c, d>>) = 2
  <2>1. PICK u : u = <<c, d>>
    OBVIOUS
  <2>2. u \in Seq({c, d}) /\ Len(u) = 2 /\ u[1] = c /\ u[2] = d
    BY <2>1
  <2>3. SubSeq(u, 1, 2) = <<u[1], u[2]>>
    BY <2>2, FirstTwo
  <2> QED BY <2>1, <2>2, <2>3
<1>2. Len(s) >= 2 => SubSeq(s, 1, 2) = <<s[1], s[2]>>
  BY FirstTwo
<1>3. Reference!IsPrefix(<<c, d>>, s) <=> Len(s) >= 2 /\ SubSeq(s, 1, 2) = <<c, d>>
  <2>1. Reference!IsPrefix(<<c, d>>, s) <=>
          2 <= Len(s) /\ SubSeq(<<c, d>>, 1, 2) = SubSeq(s, 1, 2)
    BY <1>1 DEF Reference!IsPrefix
  <2> QED BY <1>1, <2>1
<1> QED BY <1>2, <1>3

LEMMA LineCommentIs ==
  ASSUME NEW s \in Seq(Char), Len(s) >= 1, NEW atEnd
  PROVE  Reference!IsLineComment(s, atEnd) <=>
           /\ Len(s) >= 2 /\ s[1] = "/" /\ s[2] = "/"
           /\ \/ atEnd /\ \A k \in 1..Len(s) : s[k] \notin Ends
              \/ s[Len(s)] \in Ends /\ \A k \in 1..(Len(s) - 1) : s[k] \notin Ends
              \/ /\ s[Len(s) - 1] = Return /\ s[Len(s)] = Newline
                 /\ \A k \in 1..(Len(s) - 2) : s[k] \notin Ends
<1>1. Reference!IsPrefix(<<"/", "/">>, s) <=> Len(s) >= 2 /\ s[1] = "/" /\ s[2] = "/"
  BY PrefixOfTwo
<1> DEFINE P(n) == /\ \A k \in 1..(Len(s) - n) : s[k] \notin Ends
                   /\ CASE n = 0 -> atEnd
                        [] n = 1 -> s[Len(s)] \in Ends
                        [] n = 2 -> s[Len(s) - 1] = Return /\ s[Len(s)] = Newline
<1>2. Reference!IsLineComment(s, atEnd) <=> Reference!IsPrefix(<<"/", "/">>, s) /\ \E n \in 0..2 : P(n)
  BY SameClasses DEF Reference!IsLineComment
<1>3. (\E n \in 0..2 : P(n)) <=> P(0) \/ P(1) \/ P(2)
  <2>1. 0..2 = {0, 1, 2}
    OBVIOUS
  <2> QED BY <2>1
<1>4. P(0) <=> (atEnd /\ \A k \in 1..Len(s) : s[k] \notin Ends)
  OBVIOUS
<1>5. P(1) <=> (s[Len(s)] \in Ends /\ \A k \in 1..(Len(s) - 1) : s[k] \notin Ends)
  OBVIOUS
<1>6. P(2) <=> (/\ s[Len(s) - 1] = Return /\ s[Len(s)] = Newline
                /\ \A k \in 1..(Len(s) - 2) : s[k] \notin Ends)
  OBVIOUS
<1> HIDE DEF P
<1> QED BY <1>1, <1>2, <1>3, <1>4, <1>5, <1>6

LEMMA CommentIs ==
  ASSUME NEW s \in Seq(Char), Len(s) >= 1
  PROVE  Reference!IsComment(s) <=>
           /\ Len(s) >= 4 /\ s[1] = "/" /\ s[2] = "*"
           /\ s[Len(s) - 1] = "*" /\ s[Len(s)] = "/"
           /\ \A k \in 3..(Len(s) - 2) : ~(s[k] = "*" /\ s[k + 1] = "/")
<1>1. CASE Len(s) >= 4
  <2>2. Reference!IsPrefix(<<"/", "*">>, s) <=> s[1] = "/" /\ s[2] = "*"
    BY <1>1, PrefixOfTwo
  <2>3. PICK t \in Seq(Char) : t = [k \in 1..Len(s) |-> s[(Len(s) - k) + 1]] /\ Len(t) = Len(s)
    <3>1. \A k \in 1..Len(s) : (Len(s) - k) + 1 \in 1..Len(s) /\ s[(Len(s) - k) + 1] \in Char
      OBVIOUS
    <3>2. [k \in 1..Len(s) |-> s[(Len(s) - k) + 1]] \in [1..Len(s) -> Char]
      BY <3>1
    <3>3. /\ [k \in 1..Len(s) |-> s[(Len(s) - k) + 1]] \in Seq(Char)
          /\ Len([k \in 1..Len(s) |-> s[(Len(s) - k) + 1]]) = Len(s)
      BY <3>2, IsASeq, LenProperties
    <3> QED BY <3>3
  <2>4. t[1] = s[Len(s)] /\ t[2] = s[Len(s) - 1]
    BY <1>1, <2>3
  <2>5. Reference!IsPrefix(<<"/", "*">>, t) <=> t[1] = "/" /\ t[2] = "*"
    <3>1. t \in Seq(Char) /\ Len(t) >= 2
      BY <1>1, <2>3
    <3>2. Reference!IsPrefix(<<"/", "*">>, t) <=> Len(t) >= 2 /\ t[1] = "/" /\ t[2] = "*"
      BY ONLY <3>1, PrefixOfTwo
    <3> QED BY <3>1, <3>2
  <2>6. Reference!Reverse(s) = t
    BY <2>3 DEF Reference!Reverse
  <2>7. Reference!Reverse(<<"*", "/">>) = <<"/", "*">>
    BY DEF Reference!Reverse
  <2>8. Reference!IsSuffix(<<"*", "/">>, s) <=> s[Len(s)] = "/" /\ s[Len(s) - 1] = "*"
    BY <2>4, <2>5, <2>6, <2>7 DEF Reference!IsSuffix
  <2> QED BY <1>1, <2>2, <2>8 DEF Reference!IsComment
<1>2. CASE ~(Len(s) >= 4)
  BY <1>2 DEF Reference!IsComment
<1> QED BY <1>1, <1>2

\* The first character of a piece says which of its kinds are possible.
LEMMA FirstDecides ==
  ASSUME NEW s \in Seq(Char), Len(s) >= 1, NEW atEnd
  PROVE  /\ s[1] \in Letter =>
              /\ Reference!IsToken(s) <=> Reference!IsWord(s)
              /\ ~(Reference!IsBlank(s) \/ Reference!IsLineComment(s, atEnd) \/ Reference!IsComment(s))
         /\ s[1] \in Digit =>
              /\ Reference!IsToken(s) <=> s = <<"0">> \/ Reference!IsDecimal(s)
              /\ ~(Reference!IsBlank(s) \/ Reference!IsLineComment(s, atEnd) \/ Reference!IsComment(s))
         /\ s[1] = "'" =>
              /\ Reference!IsToken(s) <=> Reference!IsCharacter(s)
              /\ ~(Reference!IsBlank(s) \/ Reference!IsLineComment(s, atEnd) \/ Reference!IsComment(s))
         /\ s[1] = "quote" =>
              /\ Reference!IsToken(s) <=> Reference!IsString(s)
              /\ ~(Reference!IsBlank(s) \/ Reference!IsLineComment(s, atEnd) \/ Reference!IsComment(s))
         /\ s[1] \in Special =>
              /\ Reference!IsToken(s) <=> Reference!IsPunctuator(s)
              /\ ~Reference!IsBlank(s)
              /\ s[1] # "/" => ~(Reference!IsLineComment(s, atEnd) \/ Reference!IsComment(s))
         /\ s[1] \in Blank =>
              /\ ~Reference!IsToken(s)
              /\ ~(Reference!IsLineComment(s, atEnd) \/ Reference!IsComment(s))
         /\ s[1] \in {Other, Backslash} =>
              /\ ~Reference!IsToken(s)
              /\ ~(Reference!IsBlank(s) \/ Reference!IsLineComment(s, atEnd) \/ Reference!IsComment(s))
<1>1. Reference!IsWord(s) => s[1] \in Letter
  BY SameClasses DEF Reference!IsWord
<1>2. s = <<"0">> => s[1] \in Digit
  BY ClassesApart
<1>3. Reference!IsDecimal(s) => s[1] \in Digit
  BY SameClasses DEF Reference!IsDecimal
<1>4. Reference!IsCharacter(s) => s[1] = "'"
  BY DEF Reference!IsCharacter
<1>5. Reference!IsString(s) => s[1] = "quote"
  BY DEF Reference!IsString
<1>6. Reference!IsPunctuator(s) => s[1] \in Special
  BY PunctuatorFirst
<1>7. Reference!IsBlank(s) => s[1] \in Blank
  BY SameClasses, ClassesApart DEF Reference!IsBlank
<1>8. Reference!IsLineComment(s, atEnd) => s[1] = "/"
  BY LineCommentIs
<1>9. Reference!IsComment(s) => s[1] = "/"
  BY CommentIs
<1> QED BY <1>1, <1>2, <1>3, <1>4, <1>5, <1>6, <1>7, <1>8, <1>9, ClassesApart, Zenon DEF Reference!IsToken

(* The text of a token *)

IsKept(s, n, g) ==
  g = [k \in 0..n |-> IF k = 0 THEN <<>>
                      ELSE IF s[k] = Newline THEN g[k - 1] ELSE Append(g[k - 1], s[k])]

LEMMA KeptIs ==
  ASSUME NEW s, NEW n \in Nat, NEW g, IsKept(s, n, g)
  PROVE  /\ g[0] = <<>>
         /\ \A k \in 1..n : g[k] = IF s[k] = Newline THEN g[k - 1] ELSE Append(g[k - 1], s[k])
<1> DEFINE V(k) == IF k = 0 THEN <<>> ELSE IF s[k] = Newline THEN g[k - 1] ELSE Append(g[k - 1], s[k])
<1>1. g = [k \in 0..n |-> V(k)]
  BY DEF IsKept
<1>2. \A k \in 0..n : g[k] = V(k)
  <2> HIDE DEF V
  <2> QED BY <1>1
<1> QED BY <1>2

LEMMA KeptExists ==
  ASSUME NEW s \in Seq(Char)
  PROVE  \E g : IsKept(s, Len(s), g)
<1> DEFINE S == {n \in Nat : \E g : IsKept(s, n, g)}
<1>1. 0 \in S
  <2>1. IsKept(s, 0, [k \in 0..0 |-> <<>>])
    <3>1. \A k \in 0..0 : k = 0
      OBVIOUS
    <3> QED BY <3>1 DEF IsKept
  <2> QED BY <2>1
<1>2. ASSUME NEW n \in 0..(Len(s) - 1), n \in S PROVE n + 1 \in S
  <2>1. PICK g : IsKept(s, n, g)
    BY <1>2
  <2> DEFINE last == IF s[n + 1] = Newline THEN g[n] ELSE Append(g[n], s[n + 1])
             V(f, k) == IF k = 0 THEN <<>> ELSE IF s[k] = Newline THEN f[k - 1] ELSE Append(f[k - 1], s[k])
  <2>2. PICK h : h = [k \in 0..(n + 1) |-> IF k = n + 1 THEN last ELSE g[k]]
    OBVIOUS
  <2>3. h[n + 1] = last /\ \A k \in 0..n : h[k] = g[k]
    BY <2>2
  <2>4. g[0] = <<>> /\ \A k \in 1..n : g[k] = V(g, k)
    BY <2>1, KeptIs
  <2>5. ASSUME NEW k \in 0..(n + 1) PROVE h[k] = V(h, k)
    <3>1. CASE k = 0
      BY <2>3, <2>4, <3>1
    <3>2. CASE k = n + 1
      <4>1. h[(n + 1) - 1] = g[n] /\ n + 1 # 0
        BY <2>3
      <4> QED BY <2>3, <3>2, <4>1
    <3>3. CASE k \in 1..n
      <4>1. h[k] = g[k] /\ h[k - 1] = g[k - 1] /\ k # 0
        BY <2>3, <3>3
      <4> QED BY <2>4, <3>3, <4>1
    <3> QED BY <3>1, <3>2, <3>3
  <2>6. h = [k \in 0..(n + 1) |-> h[k]]
    BY <2>2
  <2>7. h = [k \in 0..(n + 1) |-> V(h, k)]
    <3> HIDE DEF V
    <3> QED BY <2>5, <2>6
  <2>8. IsKept(s, n + 1, h)
    BY <2>7 DEF IsKept
  <2> QED BY <2>8
<1>3. Len(s) \in 0..Len(s) /\ Len(s) \in Nat
  OBVIOUS
<1>4. Len(s) \in S
  <2> HIDE DEF S
  <2> QED BY <1>1, <1>2, <1>3, InductionUpTo
<1> QED BY <1>4

LEMMA TextOfIsKept ==
  ASSUME NEW s \in Seq(Char)
  PROVE  \E g : IsKept(s, Len(s), g) /\ Reference!TextOf(s) = g[Len(s)]
<1>1. Reference!TextOf(s) = (CHOOSE g : IsKept(s, Len(s), g))[Len(s)]
  BY SameClasses DEF Reference!TextOf, IsKept
<1>2. IsKept(s, Len(s), CHOOSE g : IsKept(s, Len(s), g))
  BY KeptExists
<1> QED BY <1>1, <1>2

\* What is kept depends on the characters up to there only.
LEMMA KeptAgree ==
  ASSUME NEW s \in Seq(Char), NEW t \in Seq(Char), NEW n \in Nat, n <= Len(s), n <= Len(t),
         \A k \in 1..n : s[k] = t[k],
         NEW g, IsKept(s, Len(s), g), NEW h, IsKept(t, Len(t), h)
  PROVE  g[n] = h[n]
<1> DEFINE S == {k \in Nat : g[k] = h[k]}
<1>1. g[0] = <<>> /\ \A k \in 1..Len(s) : g[k] = IF s[k] = Newline THEN g[k - 1] ELSE Append(g[k - 1], s[k])
  BY KeptIs
<1>2. h[0] = <<>> /\ \A k \in 1..Len(t) : h[k] = IF t[k] = Newline THEN h[k - 1] ELSE Append(h[k - 1], t[k])
  BY KeptIs
<1>3. 0 \in S
  BY <1>1, <1>2
<1>4. ASSUME NEW k \in 0..(n - 1), k \in S PROVE k + 1 \in S
  <2>1. k + 1 \in 1..Len(s) /\ k + 1 \in 1..Len(t) /\ k + 1 \in 1..n /\ (k + 1) - 1 = k
    OBVIOUS
  <2>2. g[k] = h[k] /\ s[k + 1] = t[k + 1]
    BY <1>4, <2>1
  <2>3. g[k + 1] = h[k + 1]
    BY <1>1, <1>2, <2>1, <2>2
  <2> QED BY <2>3
<1>5. n \in S
  <2>1. n \in 0..n
    OBVIOUS
  <2> HIDE DEF S
  <2> QED BY <1>3, <1>4, <2>1, InductionUpTo
<1> QED BY <1>5

LEMMA TextOfNothing ==
  ASSUME NEW s \in Seq(Char), Len(s) = 0
  PROVE  Reference!TextOf(s) = <<>>
<1>1. PICK g : IsKept(s, Len(s), g) /\ Reference!TextOf(s) = g[Len(s)]
  BY TextOfIsKept
<1>2. g[0] = <<>>
  BY <1>1, KeptIs
<1> QED BY <1>1, <1>2

LEMMA TextOfOneMore ==
  ASSUME NEW s \in Seq(Char), NEW t \in Seq(Char), Len(t) = Len(s) + 1,
         \A k \in 1..Len(s) : t[k] = s[k]
  PROVE  Reference!TextOf(t) = IF t[Len(t)] = Newline THEN Reference!TextOf(s)
                               ELSE Append(Reference!TextOf(s), t[Len(t)])
<1>1. PICK g : IsKept(s, Len(s), g) /\ Reference!TextOf(s) = g[Len(s)]
  BY TextOfIsKept
<1>2. PICK h : IsKept(t, Len(t), h) /\ Reference!TextOf(t) = h[Len(t)]
  BY TextOfIsKept
<1>3. g[Len(s)] = h[Len(s)]
  BY <1>1, <1>2, KeptAgree
<1>4. \A k \in 1..Len(t) : h[k] = IF t[k] = Newline THEN h[k - 1] ELSE Append(h[k - 1], t[k])
  BY <1>2, KeptIs
<1>5. Len(t) \in 1..Len(t) /\ Len(t) - 1 = Len(s)
  OBVIOUS
<1> QED BY <1>1, <1>2, <1>3, <1>4, <1>5

\* A text without newlines is kept as it is.
LEMMA TextOfPlain ==
  ASSUME NEW s \in Seq(Char), \A k \in 1..Len(s) : s[k] # Newline
  PROVE  Reference!TextOf(s) = s
<1>1. PICK g : IsKept(s, Len(s), g) /\ Reference!TextOf(s) = g[Len(s)]
  BY TextOfIsKept
<1>2. g[0] = <<>> /\ \A k \in 1..Len(s) : g[k] = Append(g[k - 1], s[k])
  <2>1. g[0] = <<>> /\ \A k \in 1..Len(s) : g[k] = IF s[k] = Newline THEN g[k - 1] ELSE Append(g[k - 1], s[k])
    BY <1>1, KeptIs
  <2> QED BY <2>1
<1> DEFINE P(k) == g[k] \in Seq(Char) /\ Len(g[k]) = k /\ \A m \in 1..k : g[k][m] = s[m]
           S == {k \in Nat : P(k)}
<1>3. 0 \in S
  <2>1. g[0] \in Seq(Char) /\ Len(g[0]) = 0
    BY <1>2
  <2>2. \A m \in 1..0 : FALSE
    OBVIOUS
  <2> QED BY <2>1, <2>2
<1>4. ASSUME NEW k \in 0..(Len(s) - 1), k \in S PROVE k + 1 \in S
  <2>1. P(k)
    BY <1>4
  <2>2. k + 1 \in 1..Len(s) /\ (k + 1) - 1 = k
    OBVIOUS
  <2>3. g[k + 1] = Append(g[k], s[k + 1]) /\ s[k + 1] \in Char
    BY <1>2, <2>2
  <2>4. g[k + 1] \in Seq(Char) /\ Len(g[k + 1]) = k + 1 /\ g[k + 1][k + 1] = s[k + 1]
    BY <2>1, <2>3
  <2>5. \A m \in 1..k : g[k + 1][m] = g[k][m]
    BY <2>1, <2>3
  <2>6. P(k + 1)
    BY <2>1, <2>4, <2>5
  <2> QED BY <2>6
<1>5. Len(s) \in S
  <2>1. Len(s) \in 0..Len(s)
    OBVIOUS
  <2> HIDE DEF S
  <2> QED BY <1>3, <1>4, <2>1, InductionUpTo
<1>6. g[Len(s)] = s
  <2>1. P(Len(s))
    BY <1>5
  <2> QED BY <2>1, SeqEqual
<1> QED BY <1>1, <1>6

(* Escapes *)

IsEscape(s, n, e) == e = [k \in 1..n |-> k > 1 /\ s[k - 1] = Backslash /\ ~e[k - 1]]

LEMMA EscapeIs ==
  ASSUME NEW s, NEW n \in Nat, NEW e, IsEscape(s, n, e)
  PROVE  \A k \in 1..n : e[k] = (k > 1 /\ s[k - 1] = Backslash /\ ~e[k - 1])
<1> DEFINE V(k) == k > 1 /\ s[k - 1] = Backslash /\ ~e[k - 1]
<1>1. e = [k \in 1..n |-> V(k)]
  BY DEF IsEscape
<1>2. \A k \in 1..n : e[k] = V(k)
  <2> HIDE DEF V
  <2> QED BY <1>1
<1> QED BY <1>2

LEMMA EscapeExists ==
  ASSUME NEW s \in Seq(Char)
  PROVE  \E e : IsEscape(s, Len(s), e)
<1> DEFINE S == {n \in Nat : \E e : IsEscape(s, n, e)}
<1>1. 0 \in S
  <2>1. IsEscape(s, 0, [k \in 1..0 |-> TRUE])
    <3>1. \A k \in 1..0 : FALSE
      OBVIOUS
    <3> QED BY <3>1 DEF IsEscape
  <2> QED BY <2>1
<1>2. ASSUME NEW n \in 0..(Len(s) - 1), n \in S PROVE n + 1 \in S
  <2>1. PICK g : IsEscape(s, n, g)
    BY <1>2
  <2> DEFINE V(f, k) == k > 1 /\ s[k - 1] = Backslash /\ ~f[k - 1]
  <2>2. PICK h : h = [k \in 1..(n + 1) |-> V(g, k)]
    OBVIOUS
  <2>3. \A k \in 1..(n + 1) : h[k] = V(g, k)
    <3> HIDE DEF V
    <3> QED BY <2>2
  <2>4. \A k \in 1..n : g[k] = V(g, k)
    BY <2>1, EscapeIs
  <2>5. \A k \in 1..n : h[k] = g[k]
    <3> HIDE DEF V
    <3> QED BY <2>3, <2>4
  <2>6. ASSUME NEW k \in 1..(n + 1) PROVE h[k] = V(h, k)
    <3>1. h[k] = V(g, k)
      BY <2>3
    <3>2. k > 1 => h[k - 1] = g[k - 1]
      BY <2>5
    <3>3. V(g, k) = V(h, k)
      <4>1. CASE k > 1
        BY <3>2, <4>1
      <4>2. CASE ~(k > 1)
        BY <4>2
      <4> QED BY <4>1, <4>2
    <3> QED BY <3>1, <3>3
  <2>7. h = [k \in 1..(n + 1) |-> h[k]]
    BY <2>2
  <2>8. h = [k \in 1..(n + 1) |-> V(h, k)]
    <3> HIDE DEF V
    <3> QED BY <2>6, <2>7
  <2>9. IsEscape(s, n + 1, h)
    BY <2>8 DEF IsEscape
  <2> QED BY <2>9
<1>3. Len(s) \in 0..Len(s) /\ Len(s) \in Nat
  OBVIOUS
<1>4. Len(s) \in S
  <2> HIDE DEF S
  <2> QED BY <1>1, <1>2, <1>3, InductionUpTo
<1> QED BY <1>4

\* A character is escaped by a backslash that is not escaped itself.
LEMMA EscapedIs ==
  ASSUME NEW s \in Seq(Char)
  PROVE  \A k \in 1..Len(s) :
           Reference!Escaped(s)[k] = (k > 1 /\ s[k - 1] = Backslash /\ ~Reference!Escaped(s)[k - 1])
<1>1. Reference!Escaped(s) = CHOOSE e : IsEscape(s, Len(s), e)
  BY SameClasses DEF Reference!Escaped, IsEscape
<1>2. IsEscape(s, Len(s), Reference!Escaped(s))
  BY <1>1, EscapeExists
<1> QED BY <1>2, EscapeIs

\* Whether a character is escaped depends on those in front of it only.
LEMMA EscapedAgree ==
  ASSUME NEW s \in Seq(Char), NEW t \in Seq(Char), NEW n \in 1..Len(s), n <= Len(t),
         \A k \in 1..(n - 1) : s[k] = t[k]
  PROVE  Reference!Escaped(s)[n] = Reference!Escaped(t)[n]
<1> DEFINE e == Reference!Escaped(s)
           f == Reference!Escaped(t)
           S == {k \in Nat : k > 0 => e[k] = f[k]}
<1>1. \A k \in 1..Len(s) : e[k] = (k > 1 /\ s[k - 1] = Backslash /\ ~e[k - 1])
  BY EscapedIs
<1>2. \A k \in 1..Len(t) : f[k] = (k > 1 /\ t[k - 1] = Backslash /\ ~f[k - 1])
  BY EscapedIs
<1> HIDE DEF e, f
<1>3. 0 \in S
  OBVIOUS
<1>4. ASSUME NEW k \in 0..(n - 1), k \in S PROVE k + 1 \in S
  <2>1. k + 1 \in 1..Len(s) /\ k + 1 \in 1..Len(t) /\ (k + 1) - 1 = k
    OBVIOUS
  <2>2. /\ e[k + 1] = (k + 1 > 1 /\ s[k] = Backslash /\ ~e[k])
        /\ f[k + 1] = (k + 1 > 1 /\ t[k] = Backslash /\ ~f[k])
    BY <1>1, <1>2, <2>1
  <2>3. k > 0 => e[k] = f[k] /\ s[k] = t[k]
    BY <1>4
  <2>4. e[k + 1] = f[k + 1]
    BY <2>2, <2>3
  <2> QED BY <2>4
<1>5. n \in S
  <2>1. n \in 0..n /\ n \in Nat
    OBVIOUS
  <2> HIDE DEF S
  <2> QED BY <1>3, <1>4, <2>1, InductionUpTo
<1> QED BY <1>5 DEF e, f

(* What a piece may be *)

\* The first character of a piece of the file decides what it may be.
LEMMA PieceDecides ==
  ASSUME text \in Seq(Char), NEW i \in Nat, NEW j \in (i + 1)..Len(text)
  PROVE  LET c == text[i + 1]
             s == Reference!Piece(i, j)
             cut == j \in Reference!Cuts(i)
         IN  /\ s \in Seq(Char) /\ Len(s) = j - i /\ s[1] = c /\ c \in Char
             /\ c \in Letter => (cut <=> Reference!IsWord(s)) /\ ~Reference!IsSkipped(i, j)
             /\ c \in Digit => /\ cut <=> s = <<"0">> \/ Reference!IsDecimal(s)
                               /\ ~Reference!IsSkipped(i, j)
             /\ c = "'" => (cut <=> Reference!IsCharacter(s)) /\ ~Reference!IsSkipped(i, j)
             /\ c = "quote" => (cut <=> Reference!IsString(s)) /\ ~Reference!IsSkipped(i, j)
             /\ c \in Special => /\ cut <=> Reference!IsPunctuator(s) \/ Reference!IsSkipped(i, j)
                                 /\ c # "/" => ~Reference!IsSkipped(i, j)
                                 /\ Reference!IsSkipped(i, j) <=>
                                      Reference!IsLineComment(s, j = Len(text)) \/ Reference!IsComment(s)
             /\ c \in Blank => /\ cut <=> Reference!IsBlank(s)
                               /\ cut <=> Reference!IsSkipped(i, j)
             /\ c \in {Other, Backslash} => ~cut
<1> DEFINE c == text[i + 1]
           s == Reference!Piece(i, j)
<1>1. s \in Seq(Char) /\ Len(s) = j - i /\ s[1] = text[i + 1] /\ c \in Char
  <2>1. /\ s \in Seq(Char) /\ Len(s) = j - i
        /\ \A k \in 1..(j - i) : s[k] = text[i + k]
    <3>1. j \in Nat /\ i <= j /\ j <= Len(text)
      OBVIOUS
    <3> QED BY ONLY text \in Seq(Char), i \in Nat, <3>1, PieceIs
  <2>2. 1 \in 1..(j - i) /\ i + 1 \in 1..Len(text)
    OBVIOUS
  <2> QED BY <2>1, <2>2
<1>2. j \in Reference!Cuts(i) <=> Reference!IsToken(s) \/ Reference!IsSkipped(i, j)
  BY DEF Reference!Cuts
<1>3. Reference!IsSkipped(i, j) <=>
        Reference!IsBlank(s) \/ Reference!IsLineComment(s, j = Len(text)) \/ Reference!IsComment(s)
  BY DEF Reference!IsSkipped
<1>4. Len(s) >= 1
  BY <1>1
<1> HIDE DEF s
<1> DEFINE atEnd == j = Len(text)
<1>5. /\ s[1] \in Letter => /\ Reference!IsToken(s) <=> Reference!IsWord(s)
                            /\ ~(Reference!IsBlank(s) \/ Reference!IsLineComment(s, atEnd) \/ Reference!IsComment(s))
      /\ s[1] \in Digit =>
              /\ Reference!IsToken(s) <=> s = <<"0">> \/ Reference!IsDecimal(s)
              /\ ~(Reference!IsBlank(s) \/ Reference!IsLineComment(s, atEnd) \/ Reference!IsComment(s))
      /\ s[1] = "'" =>
              /\ Reference!IsToken(s) <=> Reference!IsCharacter(s)
              /\ ~(Reference!IsBlank(s) \/ Reference!IsLineComment(s, atEnd) \/ Reference!IsComment(s))
      /\ s[1] = "quote" =>
              /\ Reference!IsToken(s) <=> Reference!IsString(s)
              /\ ~(Reference!IsBlank(s) \/ Reference!IsLineComment(s, atEnd) \/ Reference!IsComment(s))
  BY <1>1, <1>4, FirstDecides
<1>6. /\ s[1] \in Special =>
              /\ Reference!IsToken(s) <=> Reference!IsPunctuator(s)
              /\ ~Reference!IsBlank(s)
              /\ s[1] # "/" => ~(Reference!IsLineComment(s, atEnd) \/ Reference!IsComment(s))
      /\ s[1] \in Blank =>
              /\ ~Reference!IsToken(s)
              /\ ~(Reference!IsLineComment(s, atEnd) \/ Reference!IsComment(s))
      /\ s[1] \in {Other, Backslash} =>
              /\ ~Reference!IsToken(s)
              /\ ~(Reference!IsBlank(s) \/ Reference!IsLineComment(s, atEnd) \/ Reference!IsComment(s))
  BY <1>1, <1>4, FirstDecides
<1>7. s[1] = text[i + 1]
  BY <1>1
<1> QED BY <1>1, <1>2, <1>3, <1>5, <1>6, <1>7 DEF s

\* A cut that no longer one follows.
LEMMA CutIs ==
  ASSUME text \in Seq(Char), NEW i \in Nat, NEW j \in (i + 1)..Len(text), j \in Reference!Cuts(i),
         \A m \in (j + 1)..Len(text) : m \notin Reference!Cuts(i),
         ~Reference!OpensComment(i) \/ Reference!IsSkipped(i, j)
  PROVE  Reference!CanCut(i) /\ Reference!Longest(i) = j
<1>1. ASSUME NEW m \in Reference!Cuts(i) PROVE m <= j
  <2>1. m \in (i + 1)..Len(text)
    BY DEF Reference!Cuts
  <2>2. m \notin (j + 1)..Len(text)
    OBVIOUS
  <2> QED BY <2>1, <2>2
<1>2. Reference!Longest(i) = j /\ Reference!Cuts(i) # {}
  BY <1>1, LongestIs
<1> QED BY <1>2 DEF Reference!CanCut

LEMMA OpensCommentIs ==
  ASSUME text \in Seq(Char), NEW i \in Nat
  PROVE  Reference!OpensComment(i) <=> i + 2 <= Len(text) /\ text[i + 1] = "/" /\ text[i + 2] = "*"
<1>1. CASE i + 2 <= Len(text)
  <2> DEFINE s == Reference!Piece(i, i + 2)
  <2>1. s \in Seq(Char) /\ Len(s) = (i + 2) - i /\ \A k \in 1..((i + 2) - i) : s[k] = text[i + k]
    <3>1. i + 2 \in Nat /\ i <= i + 2 /\ i + 2 <= Len(text)
      BY <1>1
    <3> QED BY ONLY text \in Seq(Char), i \in Nat, <3>1, PieceIs
  <2> HIDE DEF s
  <2>2. Len(s) = 2 /\ s[1] = text[i + 1] /\ s[2] = text[i + 2]
    <3>1. (i + 2) - i = 2
      OBVIOUS
    <3> QED BY <2>1, <3>1
  <2>3. s = <<s[1], s[2]>>
    BY <2>1, <2>2, Longhand
  <2>4. Reference!OpensComment(i) <=> s = <<"/", "*">>
    BY <1>1 DEF Reference!OpensComment, s
  <2> QED BY <1>1, <2>2, <2>3, <2>4
<1>2. CASE ~(i + 2 <= Len(text))
  BY <1>2 DEF Reference!OpensComment
<1> QED BY <1>1, <1>2

(* The kinds *)

LEMMA KindIs ==
  ASSUME NEW s \in Seq(Char), Len(s) >= 1
  PROVE  /\ Reference!IsWord(s) => Reference!KindOf(s) = IF s \in Keywords THEN <<"keyword">> ELSE <<"identifier">>
         /\ s = <<"0">> => Reference!KindOf(s) = <<"zero">>
         /\ Reference!IsDecimal(s) => Reference!KindOf(s) = <<"decimal">>
         /\ Reference!IsCharacter(s) => Reference!KindOf(s) = <<"character">>
         /\ Reference!IsString(s) => Reference!KindOf(s) = <<"string">>
         /\ Reference!IsPunctuator(s) =>
              Reference!KindOf(s) = (CHOOSE p \in Reference!Punctuator : p[1] = s)[2]
<1> DEFINE W == Reference!IsWord(s)
           D == Reference!IsDecimal(s)
           C == Reference!IsCharacter(s)
           Q == Reference!IsString(s)
           P == Reference!IsPunctuator(s)
           K == s \in Keywords
           Z == s = <<"0">>
           spelled == (CHOOSE p \in Reference!Punctuator : p[1] = s)[2]
<1>1. W => s[1] \in Letter
  BY SameClasses DEF Reference!IsWord
<1>2. Z => s[1] = "0"
  OBVIOUS
<1>3. D => s[1] \in Digit \ {"0"}
  BY SameClasses DEF Reference!IsDecimal
<1>4. C => s[1] = "'"
  BY DEF Reference!IsCharacter
<1>5. Q => s[1] = "quote"
  BY DEF Reference!IsString
<1>6. P => s[1] \in Special
  BY PunctuatorFirst
<1>7. K => s[1] \in Letter
  BY DEF Keywords, Letter
<1>8. K => W
  <2>1. s = <<"i", "f">> => s[1] \in Letter /\ \A k \in 1..Len(s) : s[k] \in Letter
    BY DEF Letter
  <2> QED BY <2>1, SameClasses DEF Keywords, Reference!IsWord
<1>9. Reference!KindOf(s) =
        CASE K -> <<"keyword">>
          [] W /\ ~K -> <<"identifier">>
          [] Z -> <<"zero">>
          [] D -> <<"decimal">>
          [] C -> <<"character">>
          [] Q -> <<"string">>
          [] P -> spelled
  BY SameClasses DEF Reference!KindOf
<1> HIDE DEF W, D, C, Q, P, K, Z, spelled
<1>10. W => ~Z /\ ~D /\ ~C /\ ~Q /\ ~P
  BY <1>1, <1>2, <1>3, <1>4, <1>5, <1>6, ClassesApart
<1>11. Z => ~K /\ ~W /\ ~D /\ ~C /\ ~Q /\ ~P
  BY <1>1, <1>2, <1>3, <1>4, <1>5, <1>6, <1>7, ClassesApart
<1>12. D => ~K /\ ~W /\ ~Z /\ ~C /\ ~Q /\ ~P
  BY <1>1, <1>2, <1>3, <1>4, <1>5, <1>6, <1>7, ClassesApart
<1>13. C => ~K /\ ~W /\ ~Z /\ ~D /\ ~Q /\ ~P
  BY <1>1, <1>2, <1>3, <1>4, <1>5, <1>6, <1>7, ClassesApart
<1>14. Q => ~K /\ ~W /\ ~Z /\ ~D /\ ~C /\ ~P
  BY <1>1, <1>2, <1>3, <1>4, <1>5, <1>6, <1>7, ClassesApart
<1>15. P => ~K /\ ~W /\ ~Z /\ ~D /\ ~C /\ ~Q
  BY <1>1, <1>2, <1>3, <1>4, <1>5, <1>6, <1>7, ClassesApart
<1>16. W => Reference!KindOf(s) = IF K THEN <<"keyword">> ELSE <<"identifier">>
  BY <1>9, <1>10
<1>17. Z => Reference!KindOf(s) = <<"zero">>
  BY <1>9, <1>11
<1>18. D => Reference!KindOf(s) = <<"decimal">>
  BY <1>9, <1>12
<1>19. C => Reference!KindOf(s) = <<"character">>
  BY <1>9, <1>13
<1>20. Q => Reference!KindOf(s) = <<"string">>
  BY <1>9, <1>14
<1>21. P => Reference!KindOf(s) = spelled
  BY <1>9, <1>15
<1> QED BY <1>16, <1>17, <1>18, <1>19, <1>20, <1>21 DEF W, D, C, Q, P, K, Z, spelled

IsRespelled(a, b) ==
  \/ a = <<"<", ":">> /\ b = <<"[">>
  \/ a = <<":", ">">> /\ b = <<"]">>
  \/ a = <<"<", "%">> /\ b = <<"{">>
  \/ a = <<"%", ">">> /\ b = <<"}">>
  \/ a = <<"%", ":">> /\ b = <<"#">>
  \/ a = <<"%", ":", "%", ":">> /\ b = <<"#", "#">>

LEMMA RespelledApart ==
  ASSUME NEW p \in Respelled
  PROVE  IsRespelled(p[1], p[2]) /\ p[1] \notin Owns(Special)
<1>1. \A c \in Special : <<c>> # <<"%", ":", "%", ":">> /\ \A d, e \in {"<", ":", "%", ">"} : <<c>> # <<d, e>>
  OBVIOUS
<1>2. <<"<", ":">> \notin Owns(Special)
  BY <1>1 DEF Owns
<1>3. <<":", ">">> \notin Owns(Special)
  BY <1>1 DEF Owns
<1>4. <<"<", "%">> \notin Owns(Special)
  BY <1>1 DEF Owns
<1>5. <<"%", ">">> \notin Owns(Special)
  BY <1>1 DEF Owns
<1>6. <<"%", ":">> \notin Owns(Special)
  BY <1>1 DEF Owns
<1>7. <<"%", ":", "%", ":">> \notin Owns(Special)
  BY <1>1 DEF Owns
<1>8. IsRespelled(p[1], p[2])
  <2>1. \A a, b : <<a, b>>[1] = a /\ <<a, b>>[2] = b
    OBVIOUS
  <2>2. \/ p = <<<<"<", ":">>, <<"[">>>> \/ p = <<<<":", ">">>, <<"]">>>> \/ p = <<<<"<", "%">>, <<"{">>>>
        \/ p = <<<<"%", ">">>, <<"}">>>> \/ p = <<<<"%", ":">>, <<"#">>>>
        \/ p = <<<<"%", ":", "%", ":">>, <<"#", "#">>>>
    BY Zenon DEF Respelled
  <2>3. ASSUME NEW a, NEW b, p = <<a, b>>, IsRespelled(a, b) PROVE IsRespelled(p[1], p[2])
    <3>1. p[1] = a /\ p[2] = b
      BY <2>3
    <3> QED BY <2>3, <3>1, Zenon
  <2>4. /\ IsRespelled(<<"<", ":">>, <<"[">>) /\ IsRespelled(<<":", ">">>, <<"]">>)
        /\ IsRespelled(<<"<", "%">>, <<"{">>) /\ IsRespelled(<<"%", ">">>, <<"}">>)
        /\ IsRespelled(<<"%", ":">>, <<"#">>) /\ IsRespelled(<<"%", ":", "%", ":">>, <<"#", "#">>)
    BY Zenon DEF IsRespelled
  <2> QED BY <2>2, <2>3, <2>4, Zenon
<1> QED BY <1>2, <1>3, <1>4, <1>5, <1>6, <1>7, <1>8 DEF IsRespelled

LEMMA RespelledOnce ==
  ASSUME NEW a, NEW b, NEW c, IsRespelled(a, b), IsRespelled(a, c)
  PROVE  b = c
<1>1. ASSUME NEW x, IsRespelled(<<"<", ":">>, x) PROVE x = <<"[">>
  BY <1>1 DEF IsRespelled
<1>2. ASSUME NEW x, IsRespelled(<<":", ">">>, x) PROVE x = <<"]">>
  BY <1>2 DEF IsRespelled
<1>3. ASSUME NEW x, IsRespelled(<<"<", "%">>, x) PROVE x = <<"{">>
  BY <1>3 DEF IsRespelled
<1>4. ASSUME NEW x, IsRespelled(<<"%", ">">>, x) PROVE x = <<"}">>
  BY <1>4 DEF IsRespelled
<1>5. ASSUME NEW x, IsRespelled(<<"%", ":">>, x) PROVE x = <<"#">>
  BY <1>5 DEF IsRespelled
<1>6. ASSUME NEW x, IsRespelled(<<"%", ":", "%", ":">>, x) PROVE x = <<"#", "#">>
  BY <1>6 DEF IsRespelled
<1>7. \/ a = <<"<", ":">> \/ a = <<":", ">">> \/ a = <<"<", "%">> \/ a = <<"%", ">">>
      \/ a = <<"%", ":">> \/ a = <<"%", ":", "%", ":">>
  BY DEF IsRespelled
<1> QED BY <1>1, <1>2, <1>3, <1>4, <1>5, <1>6, <1>7, Zenon

LEMMA RespelledIs ==
  ASSUME NEW p \in Reference!Punctuator
  PROVE  \/ p \in Respelled /\ p[1] \notin Owns(Special)
         \/ p = <<p[1], p[1]>> /\ p[1] \in Owns(Special)
<1>1. CASE p \in Respelled
  BY <1>1, RespelledApart
<1>2. CASE p \in {<<q, q>> : q \in Owns(Special)}
  BY <1>2
<1> QED BY <1>1, <1>2, PunctuatorSet

\* What a punctuator stands for: itself, or what it is another spelling of.
LEMMA OwnKind ==
  ASSUME NEW s, s \in Owns(Special)
  PROVE  (CHOOSE p \in Reference!Punctuator : p[1] = s)[2] = s
<1>1. <<s, s>> \in Reference!Punctuator /\ <<s, s>>[1] = s
  BY PunctuatorSet
<1>2. PICK p : p = CHOOSE q \in Reference!Punctuator : q[1] = s
  OBVIOUS
<1>3. p \in Reference!Punctuator /\ p[1] = s
  BY <1>1, <1>2
<1>4. p = <<s, s>>
  BY <1>3, RespelledIs
<1>5. p[2] = s
  BY <1>4
<1> QED BY <1>2, <1>5, Zenon

LEMMA OtherKind ==
  ASSUME NEW s, NEW kind, <<s, kind>> \in Respelled
  PROVE  (CHOOSE p \in Reference!Punctuator : p[1] = s)[2] = kind
<1>1. <<s, kind>> \in Reference!Punctuator /\ <<s, kind>>[1] = s
  BY PunctuatorSet
<1>2. PICK p : p = CHOOSE q \in Reference!Punctuator : q[1] = s
  OBVIOUS
<1>3. p \in Reference!Punctuator /\ p[1] = s
  BY <1>1, <1>2
<1>4. s \notin Owns(Special) /\ IsRespelled(s, kind)
  <2>1. <<s, kind>>[1] = s /\ <<s, kind>>[2] = kind
    OBVIOUS
  <2> QED BY <2>1, RespelledApart, Zenon
<1>5. p \in Respelled
  BY <1>3, <1>4, RespelledIs
<1>6. p[2] = kind
  BY <1>3, <1>4, <1>5, RespelledApart, RespelledOnce
<1> QED BY <1>2, <1>6, Zenon

(* The characters behind a token *)

\* The special characters that no longer punctuator starts with.
Lone == {",", ";", "(", ")", "{", "}", "[", "]", "?", "~"}

LEMMA LookaheadIs ==
  ASSUME NEW s \in Seq(Char), Len(s) >= 1
  PROVE  /\ Reference!IsWord(s) \/ Reference!IsDecimal(s) => Reference!Lookahead(s) = 1
         /\ s[1] \notin Letter \cup (Digit \ {"0"}) \cup Special => Reference!Lookahead(s) = 0
         /\ s[1] \in Special /\ Len(s) = 1 =>
              Reference!Lookahead(s) = IF s[1] = "." THEN 2 ELSE IF s[1] \in Lone THEN 0 ELSE 1
         /\ s[1] \in Special /\ Len(s) = 2 =>
              Reference!Lookahead(s) = IF s = <<"%", ":">> THEN 2
                                       ELSE IF s \in {<<"<", "<">>, <<">", ">">>} THEN 1 ELSE 0
         /\ s[1] \in Special /\ Len(s) > 2 => Reference!Lookahead(s) = 0
<1> DEFINE A == s \in {<<".">>, <<"%", ":">>}
           B == Reference!IsWord(s) \/ Reference!IsDecimal(s)
           C == s \in {<<"<", "<">>, <<">", ">">>}
           D == Len(s) = 1 /\ s[1] \in Special \ {".", ",", ";", "(", ")", "{", "}", "[", "]", "?", "~"}
<1>0. PICK n \in Nat : n = Len(s)
  OBVIOUS
<1>1. Reference!Lookahead(s) = CASE A -> 2 [] B -> 1 [] C -> 1 [] D -> 1 [] OTHER -> 0
  BY SameClasses DEF Reference!Lookahead
<1>2. B => s[1] \in Letter \cup (Digit \ {"0"})
  BY SameClasses DEF Reference!IsWord, Reference!IsDecimal
<1>3. A => s[1] \in Special /\ s[1] \in {".", "%"} /\ Len(s) <= 2
  <2>1. A => s[1] \in {".", "%"} /\ Len(s) <= 2
    <3>1. s = <<".">> => s[1] = "." /\ Len(s) = 1
      OBVIOUS
    <3>2. s = <<"%", ":">> => s[1] = "%" /\ Len(s) = 2
      OBVIOUS
    <3>3. n = 1 \/ n = 2 => n <= 2
      OBVIOUS
    <3> QED BY <1>0, <3>1, <3>2, <3>3, Zenon
  <2> QED BY <2>1, SpecialCharacters
<1>4. C => s[1] \in Special /\ Len(s) = 2
  <2>1. C => s[1] \in {"<", ">"} /\ Len(s) = 2
    OBVIOUS
  <2> QED BY <2>1, SpecialCharacters
<1>5. D => s[1] \in Special /\ Len(s) = 1
  OBVIOUS
<1>6. Len(s) = 1 => (A <=> s[1] = ".")
  BY Longhand
<1>7. Len(s) = 2 => (A <=> s = <<"%", ":">>)
  BY Longhand
<1>8. s[1] \in Special => (Len(s) = 1 => (D <=> s[1] # "." /\ s[1] \notin Lone))
  BY DEF Lone
<1>9. s[1] \in Special => ~B
  BY <1>2, ClassesApart
<1>10. B => ~A
  BY <1>2, <1>3, ClassesApart
<1>11. B => Reference!Lookahead(s) = 1
  <2> HIDE DEF A, B, C, D
  <2> QED BY <1>1, <1>10
<1>12. s[1] \notin Letter \cup (Digit \ {"0"}) \cup Special => Reference!Lookahead(s) = 0
  <2>1. s[1] \notin Letter \cup (Digit \ {"0"}) \cup Special => ~A /\ ~B /\ ~C /\ ~D
    BY <1>2, <1>3, <1>4, <1>5
  <2> HIDE DEF A, B, C, D
  <2> QED BY <1>1, <2>1
<1>13. ASSUME s[1] \in Special, Len(s) = 1
       PROVE  Reference!Lookahead(s) = IF s[1] = "." THEN 2 ELSE IF s[1] \in Lone THEN 0 ELSE 1
  <2>1. ~B /\ ~C /\ (A <=> s[1] = ".") /\ (D <=> s[1] # "." /\ s[1] \notin Lone)
    <3> HIDE DEF A, B, C, D
    <3>1. ~(Len(s) = 2)
      BY <1>13
    <3> QED BY ONLY <1>4, <1>6, <1>8, <1>9, <1>13, <3>1
  <2>2. "." \notin Lone
    BY DEF Lone
  <2> HIDE DEF A, B, C, D
  <2> QED BY <1>1, <2>1, <2>2
<1>14. ASSUME s[1] \in Special, Len(s) = 2
       PROVE  Reference!Lookahead(s) = IF s = <<"%", ":">> THEN 2 ELSE IF C THEN 1 ELSE 0
  <2>1. ~B /\ ~D /\ (A <=> s = <<"%", ":">>)
    <3> HIDE DEF A, B, C, D
    <3>1. ~(Len(s) = 1)
      BY <1>14
    <3> QED BY ONLY <1>5, <1>7, <1>9, <1>14, <3>1
  <2> DEFINE E == s = <<"%", ":">>
  <2>2. A <=> E
    BY <2>1
  <2>3. E => ~C
    <3>1. <<"%", ":">> # <<"<", "<">> /\ <<"%", ":">> # <<">", ">">>
      OBVIOUS
    <3> QED BY <3>1, Zenon
  <2> HIDE DEF A, B, C, D, E
  <2>4. Reference!Lookahead(s) = IF E THEN 2 ELSE IF C THEN 1 ELSE 0
    BY <1>1, <2>1, <2>2, <2>3
  <2> QED BY <2>4 DEF E
<1>15. ASSUME s[1] \in Special, Len(s) > 2 PROVE Reference!Lookahead(s) = 0
  <2>1. ~A /\ ~B /\ ~C /\ ~D
    <3> HIDE DEF A, B, C, D
    <3>1. ~(Len(s) = 1) /\ ~(Len(s) = 2) /\ ~(Len(s) <= 2)
      <4>1. n > 2 => ~(n = 1) /\ ~(n = 2) /\ ~(n <= 2)
        OBVIOUS
      <4> QED BY <1>0, <1>15, <4>1, Zenon
    <3> QED BY ONLY <1>3, <1>4, <1>5, <1>9, <1>15, <3>1
  <2> HIDE DEF A, B, C, D
  <2> QED BY <1>1, <2>1
<1> QED BY <1>11, <1>12, <1>13, <1>14, <1>15

(* The longest pieces *)

\* The longest piece from i on is a token up to j, or it is skipped.
CutTo(i, j, kind, ahead) ==
  /\ Reference!CanCut(i) /\ Reference!Longest(i) = j /\ ~Reference!IsSkipped(i, j)
  /\ Reference!KindOf(Reference!Piece(i, j)) = kind
  /\ Reference!Lookahead(Reference!Piece(i, j)) = ahead
SkipTo(i, j) == Reference!CanCut(i) /\ Reference!Longest(i) = j /\ Reference!IsSkipped(i, j)

LEMMA PieceText ==
  ASSUME text \in Seq(Char), NEW i \in Nat, NEW j \in (i + 1)..Len(text)
  PROVE  /\ Reference!Piece(i, j) \in Seq(Char) /\ Len(Reference!Piece(i, j)) = j - i
         /\ j - i \in Nat /\ j - i >= 1
         /\ \A k \in 1..(j - i) : Reference!Piece(i, j)[k] = text[i + k] /\ i + k \in (i + 1)..j
         /\ \A k \in (i + 1)..j : Reference!Piece(i, j)[k - i] = text[k] /\ k - i \in 1..(j - i)
<1>1. j \in Nat /\ i <= j /\ j <= Len(text)
  OBVIOUS
<1>2. /\ Reference!Piece(i, j) \in Seq(Char) /\ Len(Reference!Piece(i, j)) = j - i
      /\ \A k \in 1..(j - i) : Reference!Piece(i, j)[k] = text[i + k]
  BY ONLY text \in Seq(Char), i \in Nat, <1>1, PieceIs
<1>3. \A k \in (i + 1)..j : k - i \in 1..(j - i) /\ i + (k - i) = k
  OBVIOUS
<1>4. \A k \in 1..(j - i) : i + k \in (i + 1)..j
  OBVIOUS
<1> QED BY <1>2, <1>3, <1>4

LEMMA WordIs ==
  ASSUME text \in Seq(Char), NEW i \in Nat, NEW j \in (i + 1)..Len(text)
  PROVE  /\ Reference!IsWord(Reference!Piece(i, j)) <=>
              text[i + 1] \in Letter /\ \A k \in (i + 1)..j : text[k] \in Letter \cup Digit
         /\ Reference!IsDecimal(Reference!Piece(i, j)) <=>
              text[i + 1] \in Digit \ {"0"} /\ \A k \in (i + 1)..j : text[k] \in Digit
<1> DEFINE s == Reference!Piece(i, j)
<1>1. /\ s \in Seq(Char) /\ Len(s) = j - i /\ j - i \in Nat /\ j - i >= 1
      /\ \A k \in 1..(j - i) : s[k] = text[i + k] /\ i + k \in (i + 1)..j
      /\ \A k \in (i + 1)..j : s[k - i] = text[k] /\ k - i \in 1..(j - i)
  BY PieceText
<1> HIDE DEF s
<1>2. s[1] = text[i + 1]
  BY <1>1
<1>3. ASSUME NEW S PROVE (\A k \in 1..(j - i) : s[k] \in S) <=> \A k \in (i + 1)..j : text[k] \in S
  <2>1. ASSUME \A k \in 1..(j - i) : s[k] \in S, NEW k \in (i + 1)..j PROVE text[k] \in S
    BY <1>1, <2>1
  <2>2. ASSUME \A k \in (i + 1)..j : text[k] \in S, NEW k \in 1..(j - i) PROVE s[k] \in S
    BY <1>1, <2>2
  <2> QED BY <2>1, <2>2
<1>4. Reference!IsWord(s) <=> s[1] \in Letter /\ \A k \in 1..Len(s) : s[k] \in Letter \cup Digit
  BY SameClasses DEF Reference!IsWord
<1>5. Reference!IsDecimal(s) <=> s[1] \in Digit \ {"0"} /\ \A k \in 1..Len(s) : s[k] \in Digit
  BY SameClasses DEF Reference!IsDecimal
<1>6. (\A k \in 1..(j - i) : s[k] \in Letter \cup Digit) <=> \A k \in (i + 1)..j : text[k] \in Letter \cup Digit
  BY <1>3
<1>7. (\A k \in 1..(j - i) : s[k] \in Digit) <=> \A k \in (i + 1)..j : text[k] \in Digit
  BY <1>3
<1>8. Len(s) = j - i
  BY <1>1
<1> QED BY <1>2, <1>4, <1>5, <1>6, <1>7, <1>8 DEF s

\* A token without newlines keeps its text.
LEMMA PieceIsPlain ==
  ASSUME text \in Seq(Char), NEW i \in Nat, NEW j \in (i + 1)..Len(text),
         \A k \in (i + 1)..j : text[k] # Newline
  PROVE  Reference!TextOf(Reference!Piece(i, j)) = Reference!Piece(i, j)
<1>1. \A k \in 1..Len(Reference!Piece(i, j)) : Reference!Piece(i, j)[k] # Newline
  <2>1. Len(Reference!Piece(i, j)) = j - i
    BY PieceText
  <2>2. \A k \in 1..(j - i) : Reference!Piece(i, j)[k] = text[i + k] /\ i + k \in (i + 1)..j
    BY PieceText
  <2> QED BY <2>1, <2>2
<1>2. Reference!Piece(i, j) \in Seq(Char)
  BY PieceText
<1> QED BY <1>1, <1>2, TextOfPlain

LEMMA NoComment ==
  ASSUME text \in Seq(Char), NEW i \in Nat, text[i + 1] # "/"
  PROVE  ~Reference!OpensComment(i)
BY OpensCommentIs

LEMMA WordCut ==
  ASSUME text \in Seq(Char), NEW i \in Nat, NEW j \in (i + 1)..Len(text), text[i + 1] \in Letter,
         \A k \in (i + 1)..j : text[k] \in Letter \cup Digit,
         j < Len(text) => text[j + 1] \notin Letter \cup Digit
  PROVE  LET s == Reference!Piece(i, j)
         IN  /\ CutTo(i, j, IF s \in Keywords THEN <<"keyword">> ELSE <<"identifier">>, 1)
             /\ Reference!TextOf(s) = s
<1> DEFINE s == Reference!Piece(i, j)
<1>1. Reference!IsWord(s)
  BY WordIs
<1>2. j \in Reference!Cuts(i) /\ ~Reference!IsSkipped(i, j)
  BY <1>1, PieceDecides
<1>3. ASSUME NEW m \in (j + 1)..Len(text) PROVE m \notin Reference!Cuts(i)
  <2>1. m \in (i + 1)..Len(text) /\ j + 1 \in (i + 1)..m /\ j < Len(text)
    OBVIOUS
  <2>2. ~Reference!IsWord(Reference!Piece(i, m))
    BY <2>1, WordIs
  <2> QED BY <2>1, <2>2, PieceDecides
<1>4. ~Reference!OpensComment(i)
  BY NoComment, ClassesApart
<1>5. Reference!CanCut(i) /\ Reference!Longest(i) = j
  BY <1>2, <1>3, <1>4, CutIs
<1>6. s \in Seq(Char) /\ Len(s) >= 1
  BY PieceText
<1>7. /\ Reference!KindOf(s) = IF s \in Keywords THEN <<"keyword">> ELSE <<"identifier">>
      /\ Reference!Lookahead(s) = 1
  BY <1>1, <1>6, KindIs, LookaheadIs
<1>8. Reference!TextOf(s) = s
  BY ClassesApart, PieceIsPlain
<1> QED BY <1>2, <1>5, <1>7, <1>8 DEF CutTo

LEMMA NumberCut ==
  ASSUME text \in Seq(Char), NEW i \in Nat, NEW j \in (i + 1)..Len(text), text[i + 1] \in Digit \ {"0"},
         \A k \in (i + 1)..j : text[k] \in Digit,
         j < Len(text) => text[j + 1] \notin Digit
  PROVE  LET s == Reference!Piece(i, j)
         IN  CutTo(i, j, <<"decimal">>, 1) /\ Reference!TextOf(s) = s
<1> DEFINE s == Reference!Piece(i, j)
<1>1. Reference!IsDecimal(s)
  BY WordIs
<1>2. j \in Reference!Cuts(i) /\ ~Reference!IsSkipped(i, j)
  BY <1>1, PieceDecides
<1>3. ASSUME NEW m \in (j + 1)..Len(text) PROVE m \notin Reference!Cuts(i)
  <2>1. m \in (i + 1)..Len(text) /\ j + 1 \in (i + 1)..m /\ j < Len(text)
    OBVIOUS
  <2>2. ~Reference!IsDecimal(Reference!Piece(i, m))
    BY <2>1, WordIs
  <2>3. Reference!Piece(i, m) # <<"0">>
    <3>1. Reference!Piece(i, m)[1] = text[i + 1]
      BY <2>1, PieceDecides
    <3> QED BY <3>1
  <2> QED BY <2>1, <2>2, <2>3, PieceDecides
<1>4. ~Reference!OpensComment(i)
  BY NoComment, ClassesApart
<1>5. Reference!CanCut(i) /\ Reference!Longest(i) = j
  BY <1>2, <1>3, <1>4, CutIs
<1>6. s \in Seq(Char) /\ Len(s) >= 1
  BY PieceText
<1>7. Reference!KindOf(s) = <<"decimal">> /\ Reference!Lookahead(s) = 1
  BY <1>1, <1>6, KindIs, LookaheadIs
<1>8. Reference!TextOf(s) = s
  BY ClassesApart, PieceIsPlain
<1> QED BY <1>2, <1>5, <1>7, <1>8 DEF CutTo

LEMMA ZeroCut ==
  ASSUME text \in Seq(Char), NEW i \in Nat, i < Len(text), text[i + 1] = "0"
  PROVE  LET s == Reference!Piece(i, i + 1)
         IN  CutTo(i, i + 1, <<"zero">>, 0) /\ Reference!TextOf(s) = <<"0">>
<1> DEFINE s == Reference!Piece(i, i + 1)
<1>0. i + 1 \in (i + 1)..Len(text) /\ (i + 1) - i = 1
  OBVIOUS
<1>1. s \in Seq(Char) /\ Len(s) = 1 /\ s[1] = "0"
  BY <1>0, PieceText, PieceDecides
<1>2. s = <<"0">>
  BY <1>1, Longhand
<1>3. i + 1 \in Reference!Cuts(i) /\ ~Reference!IsSkipped(i, i + 1)
  BY <1>0, <1>2, PieceDecides, ClassesApart
<1>4. ASSUME NEW m \in ((i + 1) + 1)..Len(text) PROVE m \notin Reference!Cuts(i)
  <2>1. m \in (i + 1)..Len(text) /\ m - i # 1
    OBVIOUS
  <2>2. ~Reference!IsDecimal(Reference!Piece(i, m))
    BY <2>1, WordIs
  <2>3. Len(Reference!Piece(i, m)) = m - i
    BY <2>1, PieceText
  <2>4. Reference!Piece(i, m) # <<"0">>
    BY <2>1, <2>3
  <2>5. text[i + 1] \in Digit
    BY ClassesApart
  <2>6. m \in Reference!Cuts(i) <=>
          Reference!Piece(i, m) = <<"0">> \/ Reference!IsDecimal(Reference!Piece(i, m))
    BY <2>1, <2>5, PieceDecides
  <2> QED BY <2>2, <2>4, <2>6
<1>5. ~Reference!OpensComment(i)
  BY NoComment
<1>6. Reference!CanCut(i) /\ Reference!Longest(i) = i + 1
  BY <1>0, <1>3, <1>4, <1>5, CutIs
<1>7. Reference!KindOf(s) = <<"zero">> /\ Reference!Lookahead(s) = 0
  BY <1>1, <1>2, KindIs, LookaheadIs, ClassesApart
<1>8. Reference!TextOf(s) = s
  BY <1>1, TextOfPlain, ClassesApart
<1> QED BY <1>2, <1>3, <1>6, <1>7, <1>8 DEF CutTo

LEMMA NothingStarts ==
  ASSUME text \in Seq(Char), NEW i \in Nat, i < Len(text), text[i + 1] \in {Other, Backslash}
  PROVE  ~Reference!CanCut(i)
<1>1. \A m \in (i + 1)..Len(text) : m \notin Reference!Cuts(i)
  BY PieceDecides
<1> QED BY <1>1 DEF Reference!CanCut, Reference!Cuts

LEMMA BlankIs ==
  ASSUME text \in Seq(Char), NEW i \in Nat, NEW j \in (i + 1)..Len(text)
  PROVE  Reference!IsBlank(Reference!Piece(i, j)) <=>
           \/ j = i + 1 /\ text[i + 1] \in Blank
           \/ j = i + 2 /\ text[i + 1] = Return /\ text[i + 2] = Newline
<1> DEFINE s == Reference!Piece(i, j)
<1>1. /\ s \in Seq(Char) /\ Len(s) = j - i /\ j - i \in Nat /\ j - i >= 1
      /\ \A k \in 1..(j - i) : s[k] = text[i + k]
  BY PieceText
<1> HIDE DEF s
<1>2. s[1] = text[i + 1] /\ (j - i >= 2 => s[2] = text[i + 2])
  BY <1>1
<1>3. Reference!IsBlank(s) <=> s = <<Return, Newline>> \/ (Len(s) = 1 /\ s[1] \in Blank)
  BY SameClasses DEF Reference!IsBlank
<1>4. s = <<Return, Newline>> <=> Len(s) = 2 /\ s[1] = Return /\ s[2] = Newline
  BY <1>1, Longhand
<1>5. (Len(s) = 2 <=> j = i + 2) /\ (Len(s) = 1 <=> j = i + 1)
  BY <1>1
<1>6. Len(s) = 2 => s[2] = text[i + 2]
  <2> SUFFICES ASSUME Len(s) = 2 PROVE s[2] = text[i + 2]
    OBVIOUS
  <2>1. j = i + 2
    BY <1>5
  <2>2. j - i >= 2
    BY <2>1
  <2> QED BY <1>2, <2>2
<1> QED BY <1>2, <1>3, <1>4, <1>5, <1>6 DEF s

\* A blank is one character, or \r\n.
LEMMA BlankCut ==
  ASSUME text \in Seq(Char), NEW i \in Nat, i < Len(text), text[i + 1] \in Blank
  PROVE  SkipTo(i, IF text[i + 1] = Return /\ i + 2 <= Len(text) /\ text[i + 2] = Newline
                   THEN i + 2 ELSE i + 1)
<1> DEFINE two == text[i + 1] = Return /\ i + 2 <= Len(text) /\ text[i + 2] = Newline
<1>1. \A m \in (i + 1)..Len(text) :
        /\ m \in Reference!Cuts(i) <=> m = i + 1 \/ (m = i + 2 /\ two)
        /\ m \in Reference!Cuts(i) <=> Reference!IsSkipped(i, m)
  <2> TAKE m \in (i + 1)..Len(text)
  <2>1. /\ m \in Reference!Cuts(i) <=> Reference!IsBlank(Reference!Piece(i, m))
        /\ m \in Reference!Cuts(i) <=> Reference!IsSkipped(i, m)
    BY PieceDecides
  <2>2. Reference!IsBlank(Reference!Piece(i, m)) <=> m = i + 1 \/ (m = i + 2 /\ two)
    BY BlankIs
  <2> QED BY <2>1, <2>2
<1>2. ~Reference!OpensComment(i)
  BY NoComment, ClassesApart
<1> HIDE DEF two
<1>3. CASE two
  <2>1. i + 2 \in (i + 1)..Len(text) /\ i + 2 \in Nat
    BY <1>3 DEF two
  <2>2. i + 2 \in Reference!Cuts(i) /\ Reference!IsSkipped(i, i + 2)
    BY <1>1, <1>3, <2>1
  <2>3. \A m \in ((i + 2) + 1)..Len(text) : m \notin Reference!Cuts(i)
    BY <1>1
  <2>4. Reference!CanCut(i) /\ Reference!Longest(i) = i + 2
    BY <1>2, <2>1, <2>2, <2>3, CutIs
  <2> QED BY <1>3, <2>2, <2>4 DEF SkipTo, two
<1>4. CASE ~two
  <2>1. i + 1 \in (i + 1)..Len(text) /\ i + 1 \in Nat
    OBVIOUS
  <2>2. i + 1 \in Reference!Cuts(i) /\ Reference!IsSkipped(i, i + 1)
    BY <1>1, <2>1
  <2>3. \A m \in ((i + 1) + 1)..Len(text) : m \notin Reference!Cuts(i)
    BY <1>1, <1>4
  <2>4. Reference!CanCut(i) /\ Reference!Longest(i) = i + 1
    BY <1>2, <2>1, <2>2, <2>3, CutIs
  <2> QED BY <1>4, <2>2, <2>4 DEF SkipTo, two
<1> QED BY <1>3, <1>4

(* Pieces: character constants *)

LEMMA CharacterIs ==
  ASSUME text \in Seq(Char), NEW i \in Nat, NEW j \in (i + 1)..Len(text)
  PROVE  Reference!IsCharacter(Reference!Piece(i, j)) <=>
           /\ text[i + 1] = "'"
           /\ \/ j = i + 3 /\ text[i + 2] \notin {"'", Backslash} \cup Ends /\ text[i + 3] = "'"
              \/ j = i + 4 /\ text[i + 2] = Backslash /\ text[i + 3] \in Escapes /\ text[i + 4] = "'"
<1> DEFINE s == Reference!Piece(i, j)
<1>1. Len(s) = j - i /\ j - i \in Nat
  BY PieceText
<1>2. \A k \in 1..(j - i) : s[k] = text[i + k]
  BY PieceText
<1> HIDE DEF s
<1>3. (Len(s) = 3 <=> j = i + 3) /\ (Len(s) = 4 <=> j = i + 4)
  BY <1>1
<1>4. j = i + 3 => s[1] = text[i + 1] /\ s[2] = text[i + 2] /\ s[3] = text[i + 3]
  BY <1>1, <1>2
<1>5. j = i + 4 => s[1] = text[i + 1] /\ s[2] = text[i + 2] /\ s[3] = text[i + 3] /\ s[4] = text[i + 4]
  BY <1>1, <1>2
<1>6. Reference!IsCharacter(s) <=>
        \/ Len(s) = 3 /\ s[1] = "'" /\ s[2] \notin {"'", Backslash} \cup Ends /\ s[3] = "'"
        \/ Len(s) = 4 /\ s[1] = "'" /\ s[2] = Backslash /\ s[3] \in Escapes /\ s[4] = "'"
  BY SameClasses DEF Reference!IsCharacter
<1> QED BY <1>3, <1>4, <1>5, <1>6 DEF s

LEMMA NoCharacter ==
  ASSUME text \in Seq(Char), NEW i \in Nat, i < Len(text), text[i + 1] = "'",
         ~(i + 3 <= Len(text) /\ text[i + 2] \notin {"'", Backslash} \cup Ends /\ text[i + 3] = "'"),
         ~(i + 4 <= Len(text) /\ text[i + 2] = Backslash /\ text[i + 3] \in Escapes /\ text[i + 4] = "'")
  PROVE  ~Reference!CanCut(i)
<1>1. ASSUME NEW m \in (i + 1)..Len(text) PROVE m \notin Reference!Cuts(i)
  <2>1. ~Reference!IsCharacter(Reference!Piece(i, m))
    BY CharacterIs
  <2> QED BY <2>1, PieceDecides
<1> QED BY <1>1 DEF Reference!CanCut, Reference!Cuts

LEMMA CharacterCut ==
  ASSUME text \in Seq(Char), NEW i \in Nat, NEW j \in (i + 1)..Len(text),
         Reference!IsCharacter(Reference!Piece(i, j))
  PROVE  /\ CutTo(i, j, <<"character">>, 0)
         /\ Reference!TextOf(Reference!Piece(i, j)) = Reference!Piece(i, j)
<1> DEFINE s == Reference!Piece(i, j)
<1>1. /\ text[i + 1] = "'"
      /\ \/ j = i + 3 /\ text[i + 2] \notin {"'", Backslash} \cup Ends /\ text[i + 3] = "'"
         \/ j = i + 4 /\ text[i + 2] = Backslash /\ text[i + 3] \in Escapes /\ text[i + 4] = "'"
  BY CharacterIs
<1>2. j \in Reference!Cuts(i) /\ ~Reference!IsSkipped(i, j)
  BY <1>1, PieceDecides
<1>3. ASSUME NEW m \in (j + 1)..Len(text) PROVE m \notin Reference!Cuts(i)
  <2>1. m \in (i + 1)..Len(text) /\ m # j /\ m > j
    OBVIOUS
  <2>2. ~Reference!IsCharacter(Reference!Piece(i, m))
    BY <1>1, <2>1, CharacterIs
  <2> QED BY <1>1, <2>1, <2>2, PieceDecides
<1>4. ~Reference!OpensComment(i)
  BY <1>1, NoComment
<1>5. Reference!CanCut(i) /\ Reference!Longest(i) = j
  BY <1>2, <1>3, <1>4, CutIs
<1>6. s \in Seq(Char) /\ Len(s) >= 1 /\ s[1] = "'"
  <2>1. s \in Seq(Char) /\ s[1] = text[i + 1]
    BY PieceDecides
  <2>2. Len(s) >= 1
    BY PieceText
  <2> QED BY <1>1, <2>1, <2>2
<1>7. Reference!KindOf(s) = <<"character">> /\ Reference!Lookahead(s) = 0
  BY <1>6, KindIs, LookaheadIs, ClassesApart
<1>8. \A k \in (i + 1)..j : text[k] # Newline
  <2>1. "'" # Newline /\ Backslash # Newline /\ Newline \notin Escapes /\ Newline \in Ends
    BY DEF Newline, Backslash, Escapes, Ends
  <2>2. CASE j = i + 3
    <3>1. \A k \in (i + 1)..j : k = i + 1 \/ k = i + 2 \/ k = i + 3
      BY <2>2
    <3> QED BY <1>1, <2>1, <2>2, <3>1
  <2>3. CASE j = i + 4
    <3>1. \A k \in (i + 1)..j : k = i + 1 \/ k = i + 2 \/ k = i + 3 \/ k = i + 4
      BY <2>3
    <3> QED BY <1>1, <2>1, <2>3, <3>1
  <2> QED BY <1>1, <2>2, <2>3
<1>9. Reference!TextOf(s) = s
  BY <1>8, PieceIsPlain
<1> QED BY <1>2, <1>5, <1>7, <1>9 DEF CutTo

(* Pieces: string literals *)

LEMMA EscIs ==
  ASSUME text \in Seq(Char), NEW i \in Nat, NEW j \in (i + 1)..Len(text)
  PROVE  /\ Esc(i, j) = (j > i + 1 /\ text[j - 1] = Backslash /\ ~Esc(i, j - 1))
         /\ \A m \in j..Len(text) : Reference!Escaped(Reference!Piece(i, m))[j - i] = Esc(i, j)
<1>1. \A m \in (i + 1)..Len(text) :
        /\ Reference!Piece(i, m) \in Seq(Char) /\ Len(Reference!Piece(i, m)) = m - i
        /\ \A k \in 1..(m - i) : Reference!Piece(i, m)[k] = text[i + k]
  BY PieceText
<1>2. ASSUME NEW n \in (i + 1)..Len(text), NEW m \in n..Len(text)
      PROVE  Reference!Escaped(Reference!Piece(i, m))[n - i] = Esc(i, n)
  <2> DEFINE s == Reference!Piece(i, n)
             t == Reference!Piece(i, m)
  <2>1. s \in Seq(Char) /\ Len(s) = n - i /\ \A k \in 1..(n - i) : s[k] = text[i + k]
    BY <1>1
  <2>2. m \in (i + 1)..Len(text)
    OBVIOUS
  <2>3. t \in Seq(Char) /\ Len(t) = m - i /\ \A k \in 1..(m - i) : t[k] = text[i + k]
    BY <1>1, <2>2
  <2> HIDE DEF s, t
  <2>4. n - i \in 1..Len(s) /\ n - i <= Len(t) /\ \A k \in 1..((n - i) - 1) : s[k] = t[k]
    <3>1. n - i \in 1..(n - i) /\ n - i <= m - i
      OBVIOUS
    <3>2. \A k \in 1..((n - i) - 1) : k \in 1..(n - i) /\ k \in 1..(m - i)
      OBVIOUS
    <3> QED BY <2>1, <2>3, <3>1, <3>2
  <2>5. Reference!Escaped(s)[n - i] = Reference!Escaped(t)[n - i]
    BY <2>1, <2>3, <2>4, EscapedAgree
  <2> QED BY <2>5 DEF s, t, Esc
<1>3. Esc(i, j) = (j > i + 1 /\ text[j - 1] = Backslash /\ ~Esc(i, j - 1))
  <2> DEFINE s == Reference!Piece(i, j)
  <2>1. s \in Seq(Char) /\ Len(s) = j - i /\ \A k \in 1..(j - i) : s[k] = text[i + k]
    BY <1>1
  <2> HIDE DEF s
  <2>2. j - i \in 1..Len(s)
    BY <2>1
  <2>3. Reference!Escaped(s)[j - i] =
          (j - i > 1 /\ s[(j - i) - 1] = Backslash /\ ~Reference!Escaped(s)[(j - i) - 1])
    BY <2>1, <2>2, EscapedIs
  <2>4. CASE j > i + 1
    <3>1. /\ j - 1 \in (i + 1)..Len(text) /\ j \in (j - 1)..Len(text) /\ (j - 1) - i = (j - i) - 1
          /\ (j - i) - 1 \in 1..(j - i) /\ i + ((j - i) - 1) = j - 1 /\ j - i > 1
      BY <2>4
    <3>2. Reference!Escaped(Reference!Piece(i, j))[(j - 1) - i] = Esc(i, j - 1)
      BY <1>2, <3>1
    <3>3. s[(j - i) - 1] = text[j - 1]
      BY <2>1, <3>1
    <3> QED BY <2>3, <2>4, <3>1, <3>2, <3>3 DEF Esc, s
  <2>5. CASE ~(j > i + 1)
    <3>1. ~(j - i > 1)
      BY <2>5
    <3> QED BY <2>3, <2>5, <3>1 DEF Esc, s
  <2> QED BY <2>4, <2>5
<1> QED BY <1>2, <1>3

LEMMA StringIs ==
  ASSUME text \in Seq(Char), NEW i \in Nat, NEW j \in (i + 1)..Len(text)
  PROVE  Reference!IsString(Reference!Piece(i, j)) <=>
           /\ j > i + 1 /\ text[i + 1] = "quote" /\ text[j] = "quote" /\ ~Esc(i, j)
           /\ \A k \in (i + 2)..(j - 1) : StringChar(i, k)
<1> DEFINE s == Reference!Piece(i, j)
           e == Reference!Escaped(s)
           Good_(k) == IF e[k] THEN s[k] \in Escapes
                       ELSE s[k] # "quote" /\ (s[k] = Newline => s[k - 1] = Return)
<1>1. /\ s \in Seq(Char) /\ Len(s) = j - i /\ j - i \in Nat /\ j - i >= 1
      /\ \A k \in 1..(j - i) : s[k] = text[i + k]
  BY PieceText
<1>2. Reference!IsString(s) <=>
        /\ Len(s) > 1 /\ s[1] = "quote" /\ s[Len(s)] = "quote" /\ ~e[Len(s)]
        /\ \A k \in 2..(Len(s) - 1) : Good_(k)
  BY SameClasses DEF Reference!IsString
<1>3. ASSUME NEW k \in (i + 1)..j PROVE e[k - i] = Esc(i, k)
  <2>1. k \in (i + 1)..Len(text) /\ j \in k..Len(text)
    OBVIOUS
  <2> QED BY <2>1, EscIs
<1> HIDE DEF s, e
<1>4. s[1] = text[i + 1] /\ s[j - i] = text[j] /\ e[j - i] = Esc(i, j) /\ (j - i > 1 <=> j > i + 1)
  BY <1>1, <1>3
<1>5. ASSUME NEW k \in (i + 2)..(j - 1)
      PROVE  Good_(k - i) <=> StringChar(i, k)
  <2>1. k - i \in 1..(j - i) /\ (k - i) - 1 \in 1..(j - i) /\ i + (k - i) = k /\ i + ((k - i) - 1) = k - 1
        /\ k \in (i + 1)..j
    OBVIOUS
  <2>2. s[k - i] = text[k] /\ s[(k - i) - 1] = text[k - 1] /\ e[k - i] = Esc(i, k)
    BY <1>1, <1>3, <2>1
  <2> QED BY <2>2 DEF StringChar
<1>6. (\A k \in 2..((j - i) - 1) : Good_(k)) <=> \A k \in (i + 2)..(j - 1) : StringChar(i, k)
  <2>1. ASSUME \A k \in 2..((j - i) - 1) : Good_(k), NEW k \in (i + 2)..(j - 1) PROVE StringChar(i, k)
    <3>1. k - i \in 2..((j - i) - 1)
      OBVIOUS
    <3> HIDE DEF Good_
    <3> QED BY <1>5, <2>1, <3>1
  <2>2. ASSUME \A k \in (i + 2)..(j - 1) : StringChar(i, k), NEW k \in 2..((j - i) - 1) PROVE Good_(k)
    <3>1. i + k \in (i + 2)..(j - 1) /\ (i + k) - i = k
      OBVIOUS
    <3> HIDE DEF Good_
    <3> QED BY <1>5, <2>2, <3>1
  <2> HIDE DEF Good_
  <2> QED BY <2>1, <2>2
<1>7. Len(s) = j - i
  BY <1>1
<1> HIDE DEF Good_
<1> QED BY <1>2, <1>4, <1>6, <1>7 DEF s

\* The piece that is one character longer.
LEMMA TextGrows ==
  ASSUME text \in Seq(Char), NEW i \in Nat, NEW j \in (i + 1)..Len(text), j < Len(text)
  PROVE  /\ j + 1 \in (i + 1)..Len(text)
         /\ Reference!TextOf(Reference!Piece(i, j + 1)) =
              IF text[j + 1] = Newline THEN Reference!TextOf(Reference!Piece(i, j))
              ELSE Append(Reference!TextOf(Reference!Piece(i, j)), text[j + 1])
<1> DEFINE s == Reference!Piece(i, j)
           t == Reference!Piece(i, j + 1)
<1>1. j + 1 \in (i + 1)..Len(text) /\ (j + 1) - i = (j - i) + 1 /\ (j + 1) - i \in 1..((j + 1) - i)
      /\ i + ((j + 1) - i) = j + 1
  OBVIOUS
<1>2. s \in Seq(Char) /\ Len(s) = j - i /\ j - i \in Nat /\ \A k \in 1..(j - i) : s[k] = text[i + k]
  BY PieceText
<1>3. t \in Seq(Char) /\ Len(t) = (j + 1) - i /\ \A k \in 1..((j + 1) - i) : t[k] = text[i + k]
  BY <1>1, PieceText
<1> HIDE DEF s, t
<1>4. Len(t) = Len(s) + 1 /\ t[Len(t)] = text[j + 1]
  BY <1>1, <1>2, <1>3
<1>5. \A k \in 1..Len(s) : t[k] = s[k]
  BY <1>1, <1>2, <1>3
<1>6. Reference!TextOf(t) = IF t[Len(t)] = Newline THEN Reference!TextOf(s)
                            ELSE Append(Reference!TextOf(s), t[Len(t)])
  BY <1>2, <1>3, <1>4, <1>5, TextOfOneMore
<1> QED BY <1>1, <1>4, <1>6 DEF s, t

LEMMA StringStarts ==
  ASSUME text \in Seq(Char), NEW i \in Nat, i < Len(text), text[i + 1] = "quote"
  PROVE  OpenString(i, i + 1) /\ Reference!TextOf(Reference!Piece(i, i + 1)) = <<"quote">>
<1>1. i + 1 \in (i + 1)..Len(text) /\ (i + 1) - i = 1
  OBVIOUS
<1>2. OpenString(i, i + 1)
  BY ClassesApart DEF OpenString
<1>3. Reference!Piece(i, i + 1) = <<"quote">>
  <2>1. Reference!Piece(i, i + 1) \in Seq(Char) /\ Len(Reference!Piece(i, i + 1)) = 1
        /\ Reference!Piece(i, i + 1)[1] = "quote"
    BY <1>1, PieceDecides
  <2> QED BY <2>1, Longhand
<1>4. \A k \in (i + 1)..(i + 1) : text[k] # Newline
  BY ClassesApart
<1>5. Reference!TextOf(Reference!Piece(i, i + 1)) = Reference!Piece(i, i + 1)
  BY <1>1, <1>4, PieceIsPlain
<1> QED BY <1>2, <1>3, <1>5

\* A character that is not escaped, and one that is.
LEMMA StringGoesOn ==
  ASSUME text \in Seq(Char), NEW i \in Nat, NEW j \in (i + 1)..Len(text), j < Len(text),
         OpenString(i, j), text[j + 1] \notin {"quote", Backslash},
         text[j + 1] = Newline => text[j] = Return
  PROVE  OpenString(i, j + 1)
<1>1. j + 1 \in (i + 1)..Len(text) /\ (j + 1) - 1 = j
  OBVIOUS
<1>2. ~Esc(i, j + 1)
  BY <1>1, EscIs DEF OpenString
<1>3. StringChar(i, j + 1)
  BY <1>1, <1>2 DEF StringChar
<1>4. \A k \in (i + 2)..(j + 1) : k \in (i + 2)..j \/ k = j + 1
  OBVIOUS
<1> QED BY <1>1, <1>3, <1>4 DEF OpenString

LEMMA EscapeGoesOn ==
  ASSUME text \in Seq(Char), NEW i \in Nat, NEW j \in (i + 1)..Len(text), j + 2 <= Len(text),
         OpenString(i, j), text[j + 1] = Backslash, text[j + 2] \in Escapes
  PROVE  OpenString(i, j + 2)
<1>1. j + 1 \in (i + 1)..Len(text) /\ (j + 1) - 1 = j /\ j + 2 \in (i + 1)..Len(text) /\ (j + 2) - 1 = j + 1
      /\ j + 2 > i + 1
  OBVIOUS
<1>2. ~Esc(i, j + 1)
  BY <1>1, EscIs DEF OpenString
<1>3. Esc(i, j + 2)
  <2>1. Esc(i, j + 2) = (j + 2 > i + 1 /\ text[(j + 2) - 1] = Backslash /\ ~Esc(i, (j + 2) - 1))
    BY <1>1, EscIs
  <2> QED BY <1>1, <1>2, <2>1
<1>4. StringChar(i, j + 1)
  BY <1>1, <1>2, ClassesApart DEF StringChar
<1>5. StringChar(i, j + 2)
  BY <1>3 DEF StringChar
<1>6. \A k \in (i + 2)..(j + 2) : k \in (i + 2)..j \/ k = j + 1 \/ k = j + 2
  OBVIOUS
<1> QED BY <1>3, <1>4, <1>5, <1>6 DEF OpenString

LEMMA NoStringYet ==
  ASSUME text \in Seq(Char), NEW i \in Nat, NEW j \in (i + 1)..Len(text), OpenString(i, j),
         NEW m \in (i + 1)..j
  PROVE  ~Reference!IsString(Reference!Piece(i, m))
<1>1. m \in (i + 1)..Len(text) /\ (m > i + 1 => m \in (i + 2)..j)
  OBVIOUS
<1>2. m > i + 1 => StringChar(i, m)
  BY <1>1 DEF OpenString
<1>3. m > i + 1 /\ ~Esc(i, m) => text[m] # "quote"
  BY <1>2 DEF StringChar
<1> QED BY <1>1, <1>3, StringIs

LEMMA StringCut ==
  ASSUME text \in Seq(Char), NEW i \in Nat, NEW j \in (i + 1)..Len(text), j < Len(text), OpenString(i, j),
         text[j + 1] = "quote"
  PROVE  CutTo(i, j + 1, <<"string">>, 0)
<1> DEFINE s == Reference!Piece(i, j + 1)
<1>1. j + 1 \in (i + 1)..Len(text) /\ (j + 1) - 1 = j /\ j + 1 > i + 1
  OBVIOUS
<1>2. ~Esc(i, j + 1)
  BY <1>1, EscIs DEF OpenString
<1>3. Reference!IsString(s)
  BY <1>1, <1>2, StringIs DEF OpenString
<1>4. text[i + 1] = "quote"
  BY DEF OpenString
<1>5. j + 1 \in Reference!Cuts(i) /\ ~Reference!IsSkipped(i, j + 1)
  BY <1>1, <1>3, <1>4, PieceDecides
<1>6. ASSUME NEW m \in ((j + 1) + 1)..Len(text) PROVE m \notin Reference!Cuts(i)
  <2>1. m \in (i + 1)..Len(text) /\ j + 1 \in (i + 2)..(m - 1)
    OBVIOUS
  <2>2. ~StringChar(i, j + 1)
    BY <1>2 DEF StringChar
  <2>3. ~Reference!IsString(Reference!Piece(i, m))
    BY <2>1, <2>2, StringIs
  <2> QED BY <1>4, <2>1, <2>3, PieceDecides
<1>7. ~Reference!OpensComment(i)
  BY <1>4, NoComment
<1>8. Reference!CanCut(i) /\ Reference!Longest(i) = j + 1
  BY <1>1, <1>5, <1>6, <1>7, CutIs
<1>9. s \in Seq(Char) /\ Len(s) >= 1 /\ s[1] = "quote"
  <2>1. s \in Seq(Char) /\ s[1] = text[i + 1]
    BY <1>1, PieceDecides
  <2>2. Len(s) >= 1
    BY <1>1, PieceText
  <2> QED BY <1>4, <2>1, <2>2
<1>10. Reference!KindOf(s) = <<"string">> /\ Reference!Lookahead(s) = 0
  BY <1>3, <1>9, KindIs, LookaheadIs, ClassesApart
<1> QED BY <1>5, <1>8, <1>10 DEF CutTo

\* The end of the line or of the file in a literal, and what is no escape.
LEMMA NoString ==
  ASSUME text \in Seq(Char), NEW i \in Nat, NEW j \in (i + 1)..Len(text), OpenString(i, j),
         \/ j = Len(text)
         \/ j < Len(text) /\ text[j + 1] = Newline /\ text[j] # Return
         \/ j < Len(text) /\ text[j + 1] = Backslash /\ ~(j + 2 <= Len(text) /\ text[j + 2] \in Escapes)
  PROVE  ~Reference!CanCut(i)
<1>1. ASSUME NEW m \in (i + 1)..Len(text) PROVE ~Reference!IsString(Reference!Piece(i, m))
  <2>1. CASE m \in (i + 1)..j
    BY <2>1, NoStringYet
  <2>2. CASE m > j
    <3>1. j + 1 \in (i + 1)..Len(text) /\ (j + 1) - 1 = j /\ j < Len(text)
      BY <2>2
    <3>2. ~Esc(i, j + 1)
      BY <3>1, EscIs DEF OpenString
    <3>3. CASE text[j + 1] = Newline /\ text[j] # Return
      <4>1. ~StringChar(i, j + 1) /\ text[j + 1] # "quote"
        BY <3>1, <3>2, <3>3, ClassesApart DEF StringChar
      <4>2. m = j + 1 \/ j + 1 \in (i + 2)..(m - 1)
        BY <2>2
      <4> QED BY <4>1, <4>2, StringIs
    <3>4. CASE text[j + 1] = Backslash /\ ~(j + 2 <= Len(text) /\ text[j + 2] \in Escapes)
      <4>1. CASE m = j + 1
        <5>1. text[m] # "quote"
          BY <3>4, <4>1, ClassesApart
        <5> QED BY <5>1, StringIs
      <4>2. CASE m > j + 1
        <5>1. j + 2 \in (i + 1)..Len(text) /\ (j + 2) - 1 = j + 1 /\ j + 2 > i + 1
          BY <4>2
        <5>2. Esc(i, j + 2)
          <6>1. Esc(i, j + 2) = (j + 2 > i + 1 /\ text[(j + 2) - 1] = Backslash /\ ~Esc(i, (j + 2) - 1))
            BY <5>1, EscIs
          <6> QED BY <3>2, <3>4, <5>1, <6>1
        <5>3. ~StringChar(i, j + 2)
          BY <3>4, <5>1, <5>2 DEF StringChar
        <5>4. m = j + 2 \/ j + 2 \in (i + 2)..(m - 1)
          BY <4>2
        <5> QED BY <5>2, <5>3, <5>4, StringIs
      <4> QED BY <2>2, <4>1, <4>2
    <3> QED BY <3>1, <3>3, <3>4
  <2> QED BY <2>1, <2>2
<1>2. \A m \in (i + 1)..Len(text) : m \notin Reference!Cuts(i)
  BY <1>1, PieceDecides DEF OpenString
<1> QED BY <1>2 DEF Reference!CanCut, Reference!Cuts

(* Pieces: comments *)

LEMMA SlashIs ==
  ASSUME NEW s \in Seq(Char), Len(s) >= 1, s[1] = "/"
  PROVE  Reference!IsPunctuator(s) <=> Len(s) = 1 \/ (Len(s) = 2 /\ s[2] = "=")
<1>1. \A d : <<"/", d>> \in Pairs <=> d = "="
  BY DEF Pairs
<1>2. s \notin {<<".", ".", ".">>, <<"<", "<", "=">>, <<">", ">", "=">>} /\ s # <<"%", ":", "%", ":">>
  OBVIOUS
<1>3. "/" \in Special
  BY ClassesApart
<1> QED BY <1>1, <1>2, <1>3, PunctuatorIs

LEMMA SlashCuts ==
  ASSUME text \in Seq(Char), NEW i \in Nat, NEW j \in (i + 1)..Len(text), text[i + 1] = "/"
  PROVE  /\ j \in Reference!Cuts(i) <=>
              j = i + 1 \/ (j = i + 2 /\ text[i + 2] = "=") \/ Reference!IsSkipped(i, j)
         /\ Reference!IsSkipped(i, j) <=>
              \/ /\ j >= i + 2 /\ text[i + 2] = "/"
                 /\ \/ j = Len(text) /\ \A k \in (i + 1)..j : text[k] \notin Ends
                    \/ text[j] \in Ends /\ \A k \in (i + 1)..(j - 1) : text[k] \notin Ends
                    \/ /\ text[j - 1] = Return /\ text[j] = Newline
                       /\ \A k \in (i + 1)..(j - 2) : text[k] \notin Ends
              \/ /\ j >= i + 4 /\ text[i + 2] = "*" /\ text[j - 1] = "*" /\ text[j] = "/"
                 /\ \A k \in (i + 3)..(j - 2) : ~(text[k] = "*" /\ text[k + 1] = "/")
<1> DEFINE s == Reference!Piece(i, j)
           n == j - i
<1>1. s \in Seq(Char) /\ Len(s) = n /\ n \in Nat /\ n >= 1
  BY PieceText
<1>2. \A k \in 1..n : s[k] = text[i + k]
  BY PieceText
<1>3. \A k \in (i + 1)..j : s[k - i] = text[k] /\ k - i \in 1..n
  BY PieceText
<1>4. s[1] = "/" /\ "/" \in Special
  BY <1>1, <1>2, ClassesApart
<1>5. /\ j \in Reference!Cuts(i) <=> Reference!IsPunctuator(s) \/ Reference!IsSkipped(i, j)
      /\ Reference!IsSkipped(i, j) <=> Reference!IsLineComment(s, j = Len(text)) \/ Reference!IsComment(s)
  BY <1>4, PieceDecides
<1> HIDE DEF s
<1>6. (n >= 2 <=> j >= i + 2) /\ (n = 1 <=> j = i + 1) /\ (n = 2 <=> j = i + 2) /\ (n >= 4 <=> j >= i + 4)
  BY <1>1
<1>7. n >= 2 => s[2] = text[i + 2] /\ s[n] = text[j] /\ s[n - 1] = text[j - 1]
  <2>1. n >= 2 => 2 \in 1..n /\ n \in 1..n /\ n - 1 \in 1..n /\ i + n = j /\ i + (n - 1) = j - 1
    BY <1>1
  <2> QED BY <1>2, <2>1
<1>8. Reference!IsPunctuator(s) <=> j = i + 1 \/ (j = i + 2 /\ text[i + 2] = "=")
  <2>1. Reference!IsPunctuator(s) <=> n = 1 \/ (n = 2 /\ s[2] = "=")
    BY <1>1, <1>4, SlashIs
  <2>2. n = 2 => s[2] = text[i + 2]
    BY <1>2
  <2> QED BY <1>6, <2>1, <2>2
<1>9. ASSUME NEW m \in {0, 1, 2}, m < n
      PROVE  (\A k \in 1..(n - m) : s[k] \notin Ends) <=> \A k \in (i + 1)..(j - m) : text[k] \notin Ends
  <2>1. ASSUME \A k \in 1..(n - m) : s[k] \notin Ends, NEW k \in (i + 1)..(j - m) PROVE text[k] \notin Ends
    <3>1. k - i \in 1..(n - m) /\ k \in (i + 1)..j
      OBVIOUS
    <3> QED BY <1>3, <2>1, <3>1
  <2>2. ASSUME \A k \in (i + 1)..(j - m) : text[k] \notin Ends, NEW k \in 1..(n - m) PROVE s[k] \notin Ends
    <3>1. i + k \in (i + 1)..(j - m) /\ k \in 1..n
      OBVIOUS
    <3> QED BY <1>2, <2>2, <3>1
  <2> QED BY <2>1, <2>2
<1>10. n >= 2 =>
         /\ (\A k \in 1..n : s[k] \notin Ends) <=> \A k \in (i + 1)..j : text[k] \notin Ends
         /\ (\A k \in 1..(n - 1) : s[k] \notin Ends) <=> \A k \in (i + 1)..(j - 1) : text[k] \notin Ends
         /\ (\A k \in 1..(n - 2) : s[k] \notin Ends) <=> \A k \in (i + 1)..(j - 2) : text[k] \notin Ends
  <2>1. ASSUME n >= 2
        PROVE  (\A k \in 1..n : s[k] \notin Ends) <=> \A k \in (i + 1)..j : text[k] \notin Ends
    <3>1. n - 0 = n /\ j - 0 = j /\ 0 < n
      BY <2>1
    <3> QED BY <1>9, <3>1
  <2>2. ASSUME n >= 2
        PROVE  (\A k \in 1..(n - 1) : s[k] \notin Ends) <=> \A k \in (i + 1)..(j - 1) : text[k] \notin Ends
    BY <1>9, <2>2
  <2>3. ASSUME n > 2
        PROVE  (\A k \in 1..(n - 2) : s[k] \notin Ends) <=> \A k \in (i + 1)..(j - 2) : text[k] \notin Ends
    BY <1>9, <2>3
  <2>4. n = 2 => (\A k \in 1..(n - 2) : FALSE) /\ (\A k \in (i + 1)..(j - 2) : FALSE)
    OBVIOUS
  <2> QED BY <2>1, <2>2, <2>3, <2>4
<1>11. n >= 4 => ((\A k \in 3..(n - 2) : ~(s[k] = "*" /\ s[k + 1] = "/")) <=>
                   \A k \in (i + 3)..(j - 2) : ~(text[k] = "*" /\ text[k + 1] = "/"))
  <2>1. ASSUME \A k \in 3..(n - 2) : ~(s[k] = "*" /\ s[k + 1] = "/"), NEW k \in (i + 3)..(j - 2)
        PROVE  ~(text[k] = "*" /\ text[k + 1] = "/")
    <3>1. k - i \in 3..(n - 2) /\ k \in (i + 1)..j /\ k + 1 \in (i + 1)..j /\ (k + 1) - i = (k - i) + 1
      OBVIOUS
    <3>2. s[k - i] = text[k] /\ s[(k - i) + 1] = text[k + 1]
      BY <1>3, <3>1
    <3> QED BY <2>1, <3>1, <3>2
  <2>2. ASSUME \A k \in (i + 3)..(j - 2) : ~(text[k] = "*" /\ text[k + 1] = "/"), NEW k \in 3..(n - 2)
        PROVE  ~(s[k] = "*" /\ s[k + 1] = "/")
    <3>1. i + k \in (i + 3)..(j - 2) /\ k \in 1..n /\ k + 1 \in 1..n /\ i + (k + 1) = (i + k) + 1
      OBVIOUS
    <3>2. s[k] = text[i + k] /\ s[k + 1] = text[(i + k) + 1]
      BY <1>2, <3>1
    <3> QED BY <2>2, <3>1, <3>2
  <2> QED BY <2>1, <2>2
<1>12. Reference!IsLineComment(s, j = Len(text)) <=>
         /\ n >= 2 /\ s[2] = "/"
         /\ \/ j = Len(text) /\ \A k \in 1..n : s[k] \notin Ends
            \/ s[n] \in Ends /\ \A k \in 1..(n - 1) : s[k] \notin Ends
            \/ s[n - 1] = Return /\ s[n] = Newline /\ \A k \in 1..(n - 2) : s[k] \notin Ends
  <2>1. Len(s) = n /\ Len(s) >= 1
    BY <1>1
  <2> QED BY <1>1, <1>4, <2>1, LineCommentIs
<1>13. Reference!IsComment(s) <=>
         /\ n >= 4 /\ s[2] = "*" /\ s[n - 1] = "*" /\ s[n] = "/"
         /\ \A k \in 3..(n - 2) : ~(s[k] = "*" /\ s[k + 1] = "/")
  <2>1. Len(s) = n /\ Len(s) >= 1
    BY <1>1
  <2> QED BY <1>1, <1>4, <2>1, CommentIs
<1>14. n >= 4 => n >= 2
  BY <1>1
<1> HIDE DEF n
<1>15. Reference!IsLineComment(s, j = Len(text)) <=>
              /\ j >= i + 2 /\ text[i + 2] = "/"
              /\ \/ j = Len(text) /\ \A k \in (i + 1)..j : text[k] \notin Ends
                 \/ text[j] \in Ends /\ \A k \in (i + 1)..(j - 1) : text[k] \notin Ends
                 \/ /\ text[j - 1] = Return /\ text[j] = Newline
                    /\ \A k \in (i + 1)..(j - 2) : text[k] \notin Ends
  BY <1>6, <1>7, <1>10, <1>12, Zenon
<1>16. Reference!IsComment(s) <=>
              /\ j >= i + 4 /\ text[i + 2] = "*" /\ text[j - 1] = "*" /\ text[j] = "/"
              /\ \A k \in (i + 3)..(j - 2) : ~(text[k] = "*" /\ text[k + 1] = "/")
  BY <1>6, <1>7, <1>11, <1>13, <1>14, Zenon
<1> QED BY <1>5, <1>8, <1>15, <1>16, Zenon

\* A line comment up to the end of the file, and one up to the end of its line.
LEMMA LineCommentAtEnd ==
  ASSUME text \in Seq(Char), NEW i \in Nat, i + 2 <= Len(text), text[i + 1] = "/", text[i + 2] = "/",
         \A k \in (i + 1)..Len(text) : text[k] \notin Ends
  PROVE  SkipTo(i, Len(text))
<1>1. Len(text) \in (i + 1)..Len(text) /\ Len(text) >= i + 2 /\ Len(text) \in Nat
  OBVIOUS
<1>2. Reference!IsSkipped(i, Len(text)) /\ Len(text) \in Reference!Cuts(i)
  BY <1>1, SlashCuts
<1>3. \A m \in (Len(text) + 1)..Len(text) : m \notin Reference!Cuts(i)
  BY <1>1
<1> QED BY <1>1, <1>2, <1>3, CutIs DEF SkipTo

LEMMA LineCommentCut ==
  ASSUME text \in Seq(Char), NEW i \in Nat, NEW j \in (i + 3)..Len(text), text[i + 1] = "/", text[i + 2] = "/",
         text[j] \in Ends, \A k \in (i + 1)..(j - 1) : text[k] \notin Ends
  PROVE  SkipTo(i, IF text[j] = Return /\ j < Len(text) /\ text[j + 1] = Newline THEN j + 1 ELSE j)
<1> DEFINE two == text[j] = Return /\ j < Len(text) /\ text[j + 1] = Newline
           e == IF two THEN j + 1 ELSE j
<1>1. e \in (i + 1)..Len(text) /\ e >= i + 2 /\ e \in Nat /\ e >= j
  OBVIOUS
<1>2. Reference!IsSkipped(i, e)
  <2>1. CASE two
    <3>1. e = j + 1 /\ (j + 1) - 1 = j /\ (j + 1) - 2 = j - 1 /\ text[e - 1] = Return /\ text[e] = Newline
      BY <2>1
    <3>2. \A k \in (i + 1)..(e - 2) : text[k] \notin Ends
      BY <3>1
    <3> HIDE DEF e
    <3> QED BY <1>1, <3>1, <3>2, SlashCuts
  <2>2. CASE ~two
    <3>1. e = j
      BY <2>2
    <3> HIDE DEF e
    <3> QED BY <1>1, <3>1, SlashCuts
  <2> QED BY <2>1, <2>2
<1>3. ASSUME NEW m \in (e + 1)..Len(text) PROVE m \notin Reference!Cuts(i)
  <2>1. m \in (i + 1)..Len(text) /\ m > j /\ m # i + 1 /\ m # i + 2 /\ j \in (i + 1)..m /\ j \in (i + 1)..(m - 1)
    BY <1>1
  <2>2. text[i + 2] # "*"
    OBVIOUS
  <2>3. ~(text[m - 1] = Return /\ text[m] = Newline /\ \A k \in (i + 1)..(m - 2) : text[k] \notin Ends)
    <3>1. CASE m - 1 = j
      BY <2>1, <3>1
    <3>2. CASE m - 1 # j
      <4>1. j \in (i + 1)..(m - 2)
        BY <2>1, <3>2
      <4> QED BY <4>1
    <3> QED BY <3>1, <3>2
  <2>4. ~Reference!IsSkipped(i, m)
    <3> HIDE DEF e
    <3> QED BY <2>1, <2>2, <2>3, SlashCuts
  <2> HIDE DEF e
  <2> QED BY <2>1, <2>4, SlashCuts
<1>4. e \in Reference!Cuts(i)
  <2> HIDE DEF e
  <2> QED BY <1>1, <1>2, SlashCuts
<1>5. SkipTo(i, e)
  <2> HIDE DEF e
  <2> QED BY <1>1, <1>2, <1>3, <1>4, CutIs DEF SkipTo
<1> QED BY <1>5

\* The first "*/" ends the comment; without one the file is not cut.

LEMMA CommentCut ==
  ASSUME text \in Seq(Char), NEW i \in Nat, NEW j \in (i + 4)..Len(text), text[i + 1] = "/", text[i + 2] = "*",
         Closes(j - 1), \A k \in (i + 3)..(j - 2) : ~Closes(k)
  PROVE  SkipTo(i, j)
<1>1. j \in (i + 1)..Len(text) /\ j >= i + 4 /\ j \in Nat /\ (j - 1) + 1 = j
  OBVIOUS
<1>2. text[j - 1] = "*" /\ text[j] = "/" /\ \A k \in (i + 3)..(j - 2) : ~(text[k] = "*" /\ text[k + 1] = "/")
  BY <1>1 DEF Closes
<1>3. Reference!IsSkipped(i, j) /\ j \in Reference!Cuts(i)
  BY <1>1, <1>2, SlashCuts
<1>4. ASSUME NEW m \in (j + 1)..Len(text) PROVE m \notin Reference!Cuts(i)
  <2>1. m \in (i + 1)..Len(text) /\ m # i + 1 /\ m # i + 2 /\ j - 1 \in (i + 3)..(m - 2)
    OBVIOUS
  <2>2. ~(\A k \in (i + 3)..(m - 2) : ~(text[k] = "*" /\ text[k + 1] = "/"))
    <3>1. text[j - 1] = "*" /\ text[(j - 1) + 1] = "/"
      BY <1>1, <1>2
    <3> QED BY <2>1, <3>1
  <2>3. ~Reference!IsSkipped(i, m)
    BY <2>1, <2>2, SlashCuts
  <2> QED BY <2>1, <2>3, SlashCuts
<1> QED BY <1>1, <1>3, <1>4, CutIs DEF SkipTo

LEMMA NoCommentEnd ==
  ASSUME text \in Seq(Char), NEW i \in Nat, i + 2 <= Len(text), text[i + 1] = "/", text[i + 2] = "*",
         \A k \in (i + 3)..(Len(text) - 1) : ~Closes(k)
  PROVE  ~Reference!CanCut(i)
<1>1. Reference!OpensComment(i)
  BY OpensCommentIs
<1>2. ASSUME NEW m \in Reference!Cuts(i) PROVE ~Reference!IsSkipped(i, m)
  <2>1. m \in (i + 1)..Len(text)
    BY DEF Reference!Cuts
  <2>2. ~(m >= i + 4 /\ text[m - 1] = "*" /\ text[m] = "/")
    <3>1. m >= i + 4 => m - 1 \in (i + 3)..(Len(text) - 1) /\ (m - 1) + 1 = m
      BY <2>1
    <3> QED BY <3>1 DEF Closes
  <2> QED BY <2>1, <2>2, SlashCuts
<1> QED BY <1>1, <1>2 DEF Reference!CanCut

(* Pieces: punctuators *)

Triples == {<<".", ".", ".">>, <<"<", "<", "=">>, <<">", ">", "=">>}

LEMMA PunctuatorText ==
  ASSUME text \in Seq(Char), NEW i \in Nat, NEW j \in (i + 1)..Len(text)
  PROVE  Reference!IsPunctuator(Reference!Piece(i, j)) <=>
           \/ j = i + 1 /\ text[i + 1] \in Special
           \/ j = i + 2 /\ <<text[i + 1], text[i + 2]>> \in Pairs
           \/ j = i + 3 /\ <<text[i + 1], text[i + 2], text[i + 3]>> \in Triples
           \/ j = i + 4 /\ text[i + 1] = "%" /\ text[i + 2] = ":" /\ text[i + 3] = "%" /\ text[i + 4] = ":"
<1> DEFINE s == Reference!Piece(i, j)
<1>1. PICK n \in Nat : n = j - i /\ n >= 1
  OBVIOUS
<1>2. s \in Seq(Char) /\ Len(s) = n /\ \A k \in 1..n : s[k] = text[i + k]
  BY <1>1, PieceText
<1> HIDE DEF s
<1>3. (n = 1 <=> j = i + 1) /\ (n = 2 <=> j = i + 2) /\ (n = 3 <=> j = i + 3) /\ (n = 4 <=> j = i + 4)
  BY <1>1
<1>4. /\ n >= 1 => s[1] = text[i + 1]
      /\ n >= 2 => s[2] = text[i + 2]
      /\ n >= 3 => s[3] = text[i + 3]
      /\ n >= 4 => s[4] = text[i + 4]
  <2>1. \A k \in {1, 2, 3, 4} : n >= k => k \in 1..n
    OBVIOUS
  <2> QED BY <1>2, <2>1
<1>5. /\ n = 1 => s[1] = text[i + 1]
      /\ n = 2 => s[1] = text[i + 1] /\ s[2] = text[i + 2]
      /\ n = 3 => s[1] = text[i + 1] /\ s[2] = text[i + 2] /\ s[3] = text[i + 3] /\ s = <<s[1], s[2], s[3]>>
      /\ n = 4 => /\ s[1] = text[i + 1] /\ s[2] = text[i + 2] /\ s[3] = text[i + 3] /\ s[4] = text[i + 4]
                  /\ s = <<s[1], s[2], s[3], s[4]>>
  <2>1. (n = 3 => s = <<s[1], s[2], s[3]>>) /\ (n = 4 => s = <<s[1], s[2], s[3], s[4]>>)
    BY <1>2, Longhand
  <2>2. (n = 1 => n >= 1) /\ (n = 2 => n >= 1 /\ n >= 2) /\ (n = 3 => n >= 1 /\ n >= 2 /\ n >= 3)
        /\ (n = 4 => n >= 1 /\ n >= 2 /\ n >= 3 /\ n >= 4)
    OBVIOUS
  <2> QED BY <1>4, <2>1, <2>2, Zenon
<1>6. Reference!IsPunctuator(s) <=>
           \/ n = 1 /\ s[1] \in Special
           \/ n = 2 /\ <<s[1], s[2]>> \in Pairs
           \/ n = 3 /\ s \in Triples
           \/ n = 4 /\ s = <<"%", ":", "%", ":">>
  <2>1. Len(s) = n /\ Len(s) >= 1 /\ s \in Seq(Char)
    BY <1>1, <1>2
  <2> QED BY <2>1, PunctuatorIs DEF Triples
<1>7. n = 3 => (s \in Triples <=> <<text[i + 1], text[i + 2], text[i + 3]>> \in Triples)
  BY <1>5, Zenon
<1>8. n = 4 => (s = <<"%", ":", "%", ":">> <=>
                  text[i + 1] = "%" /\ text[i + 2] = ":" /\ text[i + 3] = "%" /\ text[i + 4] = ":")
  <2>1. ASSUME s = <<"%", ":", "%", ":">> PROVE s[1] = "%" /\ s[2] = ":" /\ s[3] = "%" /\ s[4] = ":"
    BY <2>1
  <2> QED BY <1>5, <2>1, Zenon
<1>9. n = 2 => (<<s[1], s[2]>> \in Pairs <=> <<text[i + 1], text[i + 2]>> \in Pairs)
  BY <1>5, Zenon
<1>10. n = 1 => (s[1] \in Special <=> text[i + 1] \in Special)
  BY <1>5, Zenon
<1> QED BY <1>3, <1>6, <1>7, <1>8, <1>9, <1>10, Zenon DEF s

\* Nothing that starts here is skipped.
NoSkips(i) == text[i + 1] = "/" /\ i + 2 <= Len(text) => text[i + 2] \notin {"/", "*"}

LEMMA NotSkipped ==
  ASSUME text \in Seq(Char), NEW i \in Nat, text[i + 1] \in Special, NoSkips(i)
  PROVE  /\ ~Reference!OpensComment(i)
         /\ \A m \in (i + 1)..Len(text) :
              /\ ~Reference!IsSkipped(i, m)
              /\ m \in Reference!Cuts(i) <=> Reference!IsPunctuator(Reference!Piece(i, m))
<1>1. ~Reference!OpensComment(i)
  BY OpensCommentIs DEF NoSkips
<1>2. ASSUME NEW m \in (i + 1)..Len(text) PROVE ~Reference!IsSkipped(i, m)
  <2>1. CASE text[i + 1] # "/"
    BY <2>1, PieceDecides
  <2>2. CASE text[i + 1] = "/"
    <3>1. m >= i + 2 \/ m >= i + 4 => text[i + 2] \notin {"/", "*"}
      BY <2>2 DEF NoSkips
    <3> QED BY <2>2, <3>1, SlashCuts
  <2> QED BY <2>1, <2>2
<1>3. ASSUME NEW m \in (i + 1)..Len(text)
      PROVE  m \in Reference!Cuts(i) <=> Reference!IsPunctuator(Reference!Piece(i, m))
  BY <1>2, PieceDecides
<1> QED BY <1>1, <1>2, <1>3

LEMMA PunctuatorCut ==
  ASSUME text \in Seq(Char), NEW i \in Nat, text[i + 1] \in Special, NoSkips(i), NEW j \in (i + 1)..Len(text),
         Reference!IsPunctuator(Reference!Piece(i, j)),
         \A m \in (j + 1)..Len(text) : ~Reference!IsPunctuator(Reference!Piece(i, m)),
         \A k \in (i + 1)..j : text[k] # Newline
  PROVE  LET s == Reference!Piece(i, j)
         IN  /\ CutTo(i, j, (CHOOSE p \in Reference!Punctuator : p[1] = s)[2], Reference!Lookahead(s))
             /\ Reference!TextOf(s) = s
<1> DEFINE s == Reference!Piece(i, j)
<1>1. j \in Reference!Cuts(i) /\ ~Reference!IsSkipped(i, j) /\ ~Reference!OpensComment(i)
  BY NotSkipped
<1>2. \A m \in (j + 1)..Len(text) : m \in (i + 1)..Len(text)
  OBVIOUS
<1>3. \A m \in (j + 1)..Len(text) : m \notin Reference!Cuts(i)
  BY <1>2, NotSkipped
<1>4. Reference!CanCut(i) /\ Reference!Longest(i) = j
  BY <1>1, <1>3, CutIs
<1>5. s \in Seq(Char) /\ Len(s) >= 1
  BY PieceText
<1>6. Reference!KindOf(s) = (CHOOSE p \in Reference!Punctuator : p[1] = s)[2]
  BY <1>5, KindIs
<1>7. Reference!TextOf(s) = s
  BY PieceIsPlain
<1> QED BY <1>1, <1>4, <1>6, <1>7 DEF CutTo

LEMMA PairKind ==
  ASSUME NEW c, NEW d, <<c, d>> \in Pairs
  PROVE  (CHOOSE p \in Reference!Punctuator : p[1] = <<c, d>>)[2] = Digraph(<<c, d>>)
<1> DEFINE s == <<c, d>>
<1>1. CASE s = <<":", ">">>
  <2>1. Digraph(s) = <<"]">>
    BY <1>1 DEF Digraph
  <2>2. <<s, <<"]">>>> \in Respelled
    BY <1>1 DEF Respelled
  <2> QED BY <2>1, <2>2, OtherKind
<1>2. CASE s = <<"<", ":">>
  <2>1. Digraph(s) = <<"[">>
    BY <1>2 DEF Digraph
  <2>2. <<s, <<"[">>>> \in Respelled
    BY <1>2 DEF Respelled
  <2> QED BY <2>1, <2>2, OtherKind
<1>3. CASE s = <<"%", ">">>
  <2>1. Digraph(s) = <<"}">>
    BY <1>3 DEF Digraph
  <2>2. <<s, <<"}">>>> \in Respelled
    BY <1>3 DEF Respelled
  <2> QED BY <2>1, <2>2, OtherKind
<1>4. CASE s = <<"<", "%">>
  <2>1. Digraph(s) = <<"{">>
    BY <1>4 DEF Digraph
  <2>2. <<s, <<"{">>>> \in Respelled
    BY <1>4 DEF Respelled
  <2> QED BY <2>1, <2>2, OtherKind
<1>5. CASE s = <<"%", ":">>
  <2>1. Digraph(s) = <<"#">>
    BY <1>5 DEF Digraph
  <2>2. <<s, <<"#">>>> \in Respelled
    BY <1>5 DEF Respelled
  <2> QED BY <2>1, <2>2, OtherKind
<1>6. CASE s \notin {<<":", ">">>, <<"<", ":">>, <<"%", ">">>, <<"<", "%">>, <<"%", ":">>}
  <2>1. Digraph(s) = s
    BY <1>6 DEF Digraph
  <2>2. s \in Owns(Special)
    BY <1>6 DEF Pairs, Owns
  <2> QED BY <2>1, <2>2, OwnKind
<1> QED BY <1>1, <1>2, <1>3, <1>4, <1>5, <1>6

LEMMA SpecialIsNoNewline == Newline \notin Special
BY ClassesApart

\* The place of the pair of characters behind i.
Pair(i) == <<text[i + 1], text[i + 2]>>
Dots(i) == i + 3 <= Len(text) /\ text[i + 1] = "." /\ text[i + 2] = "." /\ text[i + 3] = "."
Colons(i) == i + 4 <= Len(text) /\ Pair(i) = <<"%", ":">> /\ text[i + 3] = "%" /\ text[i + 4] = ":"
Shifts == {<<"<", "<">>, <<">", ">">>}

LEMMA TripleIs ==
  ASSUME NEW a, NEW b, NEW c
  PROVE  <<a, b, c>> \in Triples <=> (a = "." /\ b = "." /\ c = ".") \/ (<<a, b>> \in Shifts /\ c = "=")
BY DEF Triples, Shifts

LEMMA PairIsLonger ==
  /\ Shifts \subseteq Pairs /\ <<"%", ":">> \in Pairs /\ <<".", ".">> \notin Pairs /\ <<"%", ":">> \notin Shifts
  /\ \A d : <<".", d>> \notin Pairs
BY DEF Shifts, Pairs

LEMMA SingleCut ==
  ASSUME text \in Seq(Char), NEW i \in Nat, i < Len(text), text[i + 1] \in Special, NoSkips(i), ~Dots(i),
         i + 2 <= Len(text) => Pair(i) \notin Pairs
  PROVE  LET c == text[i + 1]
         IN  /\ CutTo(i, i + 1, <<c>>, IF c = "." THEN 2 ELSE IF c \in Lone THEN 0 ELSE 1)
             /\ Reference!Piece(i, i + 1) = <<c>> /\ Reference!TextOf(<<c>>) = <<c>>
<1> DEFINE s == Reference!Piece(i, i + 1)
           c == text[i + 1]
<1>1. i + 1 \in (i + 1)..Len(text)
  OBVIOUS
<1>2. s \in Seq(Char) /\ Len(s) = 1 /\ s[1] = c /\ s = <<c>>
  <2>1. s \in Seq(Char) /\ Len(s) = (i + 1) - i /\ s[1] = c
    BY <1>1, PieceDecides
  <2>2. (i + 1) - i = 1
    OBVIOUS
  <2> QED BY <2>1, <2>2, Longhand
<1>3. Reference!IsPunctuator(s)
  BY <1>1, PunctuatorText
<1>4. ASSUME NEW m \in ((i + 1) + 1)..Len(text) PROVE ~Reference!IsPunctuator(Reference!Piece(i, m))
  <2>1. m \in (i + 1)..Len(text) /\ m # i + 1 /\ i + 2 <= Len(text)
    OBVIOUS
  <2>2. Pair(i) \notin Pairs
    BY <2>1
  <2>3. m = i + 3 => <<text[i + 1], text[i + 2], text[i + 3]>> \notin Triples
    BY <2>2, TripleIs, PairIsLonger DEF Pair, Dots
  <2>4. ~(text[i + 1] = "%" /\ text[i + 2] = ":")
    BY <2>2, PairIsLonger DEF Pair
  <2> QED BY <2>1, <2>2, <2>3, <2>4, PunctuatorText DEF Pair
<1>5. \A k \in (i + 1)..(i + 1) : text[k] # Newline
  BY SpecialIsNoNewline
<1>6. /\ CutTo(i, i + 1, (CHOOSE p \in Reference!Punctuator : p[1] = s)[2], Reference!Lookahead(s))
      /\ Reference!TextOf(s) = s
  BY <1>1, <1>3, <1>4, <1>5, PunctuatorCut
<1>7. s \in Owns(Special)
  <2>1. <<c>> \in {<<d>> : d \in Special}
    OBVIOUS
  <2> QED BY <1>2, <2>1 DEF Owns
<1>8. (CHOOSE p \in Reference!Punctuator : p[1] = s)[2] = s
  BY <1>7, OwnKind
<1>9. Reference!Lookahead(s) = IF c = "." THEN 2 ELSE IF c \in Lone THEN 0 ELSE 1
  <2>1. Len(s) >= 1 /\ s[1] \in Special
    BY <1>2
  <2>2. Reference!Lookahead(s) = IF s[1] = "." THEN 2 ELSE IF s[1] \in Lone THEN 0 ELSE 1
    BY <1>2, <2>1, LookaheadIs
  <2> QED BY <1>2, <2>2
<1> HIDE DEF s
<1>10. CutTo(i, i + 1, s, IF c = "." THEN 2 ELSE IF c \in Lone THEN 0 ELSE 1) /\ Reference!TextOf(s) = s
  BY <1>6, <1>8, <1>9
<1>11. s = <<c>> /\ s = Reference!Piece(i, i + 1)
  BY <1>2 DEF s
<1> QED BY <1>10, <1>11

LEMMA PairCut ==
  ASSUME text \in Seq(Char), NEW i \in Nat, i + 2 <= Len(text), NoSkips(i), Pair(i) \in Pairs,
         Pair(i) \in Shifts => ~(i + 3 <= Len(text) /\ text[i + 3] = "="),
         ~Colons(i)
  PROVE  /\ CutTo(i, i + 2, Digraph(Pair(i)),
                  IF Pair(i) = <<"%", ":">> THEN 2 ELSE IF Pair(i) \in Shifts THEN 1 ELSE 0)
         /\ Reference!Piece(i, i + 2) = Pair(i) /\ Reference!TextOf(Pair(i)) = Pair(i)
<1> DEFINE s == Reference!Piece(i, i + 2)
           c == text[i + 1]
           d == text[i + 2]
<1>1. i + 2 \in (i + 1)..Len(text)
  OBVIOUS
<1>2. s \in Seq(Char) /\ Len(s) = 2 /\ s[1] = c /\ s[2] = d
  <2>1. s \in Seq(Char) /\ Len(s) = (i + 2) - i /\ \A k \in 1..((i + 2) - i) : s[k] = text[i + k]
    BY <1>1, PieceText
  <2>2. (i + 2) - i = 2
    OBVIOUS
  <2> HIDE DEF s
  <2> QED BY <2>1, <2>2
<1>3. s = Pair(i)
  BY <1>2, Longhand DEF Pair
<1>4. c \in Special /\ d \in Special
  BY PairsFirst, PairsAreSpecial DEF Pair
<1>5. Reference!IsPunctuator(s)
  BY <1>1, PunctuatorText DEF Pair
<1>6. ASSUME NEW m \in ((i + 2) + 1)..Len(text) PROVE ~Reference!IsPunctuator(Reference!Piece(i, m))
  <2>1. m \in (i + 1)..Len(text) /\ m # i + 1 /\ m # i + 2 /\ i + 3 <= Len(text) /\ (m = i + 4 => i + 4 <= Len(text))
    OBVIOUS
  <2>2. <<text[i + 1], text[i + 2], text[i + 3]>> \notin Triples
    BY <2>1, TripleIs, PairIsLonger DEF Pair
  <2>3. ~(m = i + 4 /\ text[i + 1] = "%" /\ text[i + 2] = ":" /\ text[i + 3] = "%" /\ text[i + 4] = ":")
    BY <2>1 DEF Colons, Pair
  <2> QED BY <2>1, <2>2, <2>3, PunctuatorText
<1>7. \A k \in (i + 1)..(i + 2) : text[k] # Newline
  <2>1. \A k \in (i + 1)..(i + 2) : k = i + 1 \/ k = i + 2
    OBVIOUS
  <2> QED BY <1>4, <2>1, SpecialIsNoNewline
<1>8. /\ CutTo(i, i + 2, (CHOOSE p \in Reference!Punctuator : p[1] = s)[2], Reference!Lookahead(s))
      /\ Reference!TextOf(s) = s
  BY <1>1, <1>4, <1>5, <1>6, <1>7, PunctuatorCut
<1>9. (CHOOSE p \in Reference!Punctuator : p[1] = Pair(i))[2] = Digraph(Pair(i))
  BY PairKind DEF Pair
<1>10. Reference!Lookahead(s) = IF s = <<"%", ":">> THEN 2 ELSE IF s \in Shifts THEN 1 ELSE 0
  <2>1. Len(s) >= 1 /\ s[1] \in Special
    BY <1>2, <1>4
  <2> QED BY <1>2, <2>1, LookaheadIs DEF Shifts
<1> HIDE DEF s
<1> QED BY <1>3, <1>8, <1>9, <1>10 DEF s

LEMMA TripleCut ==
  ASSUME text \in Seq(Char), NEW i \in Nat, i + 3 <= Len(text),
         <<text[i + 1], text[i + 2], text[i + 3]>> \in Triples
  PROVE  LET s == <<text[i + 1], text[i + 2], text[i + 3]>>
         IN  CutTo(i, i + 3, s, 0) /\ Reference!Piece(i, i + 3) = s /\ Reference!TextOf(s) = s
<1> DEFINE s == Reference!Piece(i, i + 3)
           t == <<text[i + 1], text[i + 2], text[i + 3]>>
<1>1. i + 3 \in (i + 1)..Len(text)
  OBVIOUS
<1>2. s \in Seq(Char) /\ Len(s) = 3 /\ s[1] = text[i + 1] /\ s[2] = text[i + 2] /\ s[3] = text[i + 3]
  <2>1. s \in Seq(Char) /\ Len(s) = (i + 3) - i /\ \A k \in 1..((i + 3) - i) : s[k] = text[i + k]
    BY <1>1, PieceText
  <2>2. (i + 3) - i = 3
    OBVIOUS
  <2> HIDE DEF s
  <2> QED BY <2>1, <2>2
<1>3. s = t
  BY <1>2, Longhand
<1>4. /\ text[i + 1] \in {".", "<", ">"} /\ text[i + 2] \in {".", "<", ">"} /\ text[i + 3] \in {".", "="}
      /\ text[i + 1] \in Special /\ text[i + 2] \in Special /\ text[i + 3] \in Special
  <2>1. text[i + 1] \in {".", "<", ">"} /\ text[i + 2] \in {".", "<", ">"} /\ text[i + 3] \in {".", "="}
    BY DEF Triples
  <2> QED BY <2>1, SpecialCharacters
<1>5. NoSkips(i)
  BY <1>4 DEF NoSkips
<1>6. Reference!IsPunctuator(s)
  BY <1>1, PunctuatorText
<1>7. ASSUME NEW m \in ((i + 3) + 1)..Len(text) PROVE ~Reference!IsPunctuator(Reference!Piece(i, m))
  <2>1. m \in (i + 1)..Len(text) /\ m # i + 1 /\ m # i + 2 /\ m # i + 3
    OBVIOUS
  <2> QED BY <1>4, <2>1, PunctuatorText
<1>8. \A k \in (i + 1)..(i + 3) : text[k] # Newline
  <2>1. \A k \in (i + 1)..(i + 3) : k = i + 1 \/ k = i + 2 \/ k = i + 3
    OBVIOUS
  <2> QED BY <1>4, <2>1, SpecialIsNoNewline
<1>9. /\ CutTo(i, i + 3, (CHOOSE p \in Reference!Punctuator : p[1] = s)[2], Reference!Lookahead(s))
      /\ Reference!TextOf(s) = s
  BY <1>1, <1>4, <1>5, <1>6, <1>7, <1>8, PunctuatorCut
<1>10. s \in Owns(Special)
  BY <1>3 DEF Triples, Owns
<1>11. (CHOOSE p \in Reference!Punctuator : p[1] = s)[2] = s
  BY <1>10, OwnKind
<1>12. Reference!Lookahead(s) = 0
  <2>1. Len(s) >= 1 /\ s[1] \in Special /\ Len(s) > 2
    BY <1>2, <1>4
  <2> QED BY <1>2, <2>1, LookaheadIs
<1> HIDE DEF s, t
<1>13. CutTo(i, i + 3, s, 0) /\ Reference!TextOf(s) = s
  BY <1>9, <1>11, <1>12
<1> QED BY <1>3, <1>13 DEF s, t

LEMMA ColonsCut ==
  ASSUME text \in Seq(Char), NEW i \in Nat, Colons(i)
  PROVE  LET s == <<"%", ":", "%", ":">>
         IN  CutTo(i, i + 4, <<"#", "#">>, 0) /\ Reference!Piece(i, i + 4) = s /\ Reference!TextOf(s) = s
<1> DEFINE s == Reference!Piece(i, i + 4)
           t == <<"%", ":", "%", ":">>
<1>0. /\ i + 4 <= Len(text) /\ text[i + 1] = "%" /\ text[i + 2] = ":" /\ text[i + 3] = "%" /\ text[i + 4] = ":"
  BY DEF Colons, Pair
<1>1. i + 4 \in (i + 1)..Len(text)
  BY <1>0
<1>2. s \in Seq(Char) /\ Len(s) = 4 /\ s[1] = "%" /\ s[2] = ":" /\ s[3] = "%" /\ s[4] = ":"
  <2>1. s \in Seq(Char) /\ Len(s) = (i + 4) - i /\ \A k \in 1..((i + 4) - i) : s[k] = text[i + k]
    BY <1>1, PieceText
  <2>2. (i + 4) - i = 4
    OBVIOUS
  <2> HIDE DEF s
  <2> QED BY <1>0, <2>1, <2>2
<1>3. s = t
  <2>1. s = <<s[1], s[2], s[3], s[4]>>
    BY <1>2, Longhand
  <2> QED BY <1>2, <2>1
<1>4. "%" \in Special /\ ":" \in Special
  BY SpecialCharacters
<1>5. NoSkips(i)
  BY <1>0 DEF NoSkips
<1>6. Reference!IsPunctuator(s)
  BY <1>0, <1>1, PunctuatorText
<1>7. ASSUME NEW m \in ((i + 4) + 1)..Len(text) PROVE ~Reference!IsPunctuator(Reference!Piece(i, m))
  <2>1. m \in (i + 1)..Len(text) /\ m # i + 1 /\ m # i + 2 /\ m # i + 3 /\ m # i + 4
    OBVIOUS
  <2> QED BY <2>1, PunctuatorText
<1>8. \A k \in (i + 1)..(i + 4) : text[k] # Newline
  <2>1. \A k \in (i + 1)..(i + 4) : k = i + 1 \/ k = i + 2 \/ k = i + 3 \/ k = i + 4
    OBVIOUS
  <2> QED BY <1>0, <1>4, <2>1, SpecialIsNoNewline
<1>9. /\ CutTo(i, i + 4, (CHOOSE p \in Reference!Punctuator : p[1] = s)[2], Reference!Lookahead(s))
      /\ Reference!TextOf(s) = s
  BY <1>0, <1>1, <1>4, <1>5, <1>6, <1>7, <1>8, PunctuatorCut
<1>10. (CHOOSE p \in Reference!Punctuator : p[1] = s)[2] = <<"#", "#">>
  <2>1. <<t, <<"#", "#">>>> \in Respelled
    BY DEF Respelled
  <2> QED BY <1>3, <2>1, OtherKind
<1>11. Reference!Lookahead(s) = 0
  <2>1. Len(s) >= 1 /\ s[1] \in Special /\ Len(s) > 2
    BY <1>2, <1>4
  <2> QED BY <1>2, <2>1, LookaheadIs
<1> HIDE DEF s, t
<1>12. CutTo(i, i + 4, <<"#", "#">>, 0) /\ Reference!TextOf(s) = s
  BY <1>9, <1>10, <1>11
<1> QED BY <1>3, <1>12 DEF s, t

(* Reading and looking ahead *)

LEMMA PeekGood ==
  ASSUME text \in Seq(Char), NEW s, Located(s), Good(s), s.pos < Len(text)
  PROVE  Peek(s, 0).char = text[s.pos + 1] /\ Peek(s, 0).rest = s
<1>1. s \in Stream /\ s.pos \in Nat
  BY DEF Located, InFile, Stream
<1>2. PICK read : read = [s EXCEPT !.pos = @ + 1]
  OBVIOUS
<1>3. GetOrEof(s) = [char |-> text[s.pos + 1], rest |-> read]
  BY <1>1, <1>2 DEF GetOrEof, AtEnd, Good
<1>4. read \in Stream /\ ~read.fail
  BY <1>1, <1>2 DEF Stream, Good
<1>5. Unget(read, 1) = [read EXCEPT !.eof = FALSE, !.pos = @ - 1]
  BY <1>4 DEF Unget
<1>6. Good(Unget(read, 1))
  BY <1>4, <1>5 DEF Stream, Good
<1>7. Peek(s, 0) = [char |-> text[s.pos + 1], rest |-> Unget(read, 1)]
  BY <1>3 DEF Peek
<1>8. Peek(s, 0).char = text[s.pos + 1] /\ Peek(s, 0).rest = Unget(read, 1)
  BY <1>7
<1> QED BY <1>6, <1>8, PeekIsLocated

\* Putting back where a read has failed.
LEMMA UngetOfLost ==
  ASSUME NEW s \in Stream, s.fail, NEW length \in Nat
  PROVE  /\ Lost(Unget(s, length)) /\ Unget(s, length).pos = s.pos
         /\ Unget(s, length).line = s.line /\ Unget(s, length).column = s.column
<1>1. Unget(s, length) = [s EXCEPT !.eof = FALSE]
  BY DEF Unget
<1> QED BY <1>1 DEF Lost, Stream

LEMMA GetOrEofBeyond ==
  ASSUME NEW s \in Stream, (Good(s) /\ s.pos = Len(text)) \/ s.eof
  PROVE  LET read == GetOrEof(s)
         IN  /\ read.char = Nul /\ read.rest \in Stream /\ read.rest.fail /\ read.rest.eof
             /\ read.rest.pos = s.pos /\ read.rest.line = s.line /\ read.rest.column = s.column
<1>1. CASE Good(s) /\ s.pos = Len(text)
  <2>1. PICK t : t = [s EXCEPT !.eof = TRUE, !.fail = TRUE]
    OBVIOUS
  <2>2. GetOrEof(s) = [char |-> Nul, rest |-> t]
    BY <1>1, <2>1 DEF GetOrEof, AtEnd, Good
  <2>3. GetOrEof(s).char = Nul /\ GetOrEof(s).rest = t
    BY <2>2
  <2>4. t \in Stream /\ t.fail /\ t.eof /\ t.pos = s.pos /\ t.line = s.line /\ t.column = s.column
    BY <2>1 DEF Stream
  <2> QED BY <2>3, <2>4
<1>2. CASE s.eof
  <2>1. PICK t : t = [s EXCEPT !.fail = TRUE]
    OBVIOUS
  <2>2. GetOrEof(s) = [char |-> Nul, rest |-> t]
    BY <1>2, <2>1 DEF GetOrEof, Good
  <2>3. GetOrEof(s).char = Nul /\ GetOrEof(s).rest = t
    BY <2>2
  <2>4. t \in Stream /\ t.fail /\ t.eof /\ t.pos = s.pos /\ t.line = s.line /\ t.column = s.column
    BY <1>2, <2>1 DEF Stream
  <2> QED BY <2>3, <2>4
<1> QED BY <1>1, <1>2

\* A look beyond the last character: the stream is lost.
LEMMA PeekBeyond ==
  ASSUME text \in Seq(Char), NEW s, Located(s), (Good(s) /\ s.pos = Len(text)) \/ s.eof
  PROVE  /\ Peek(s, 0).char = Nul /\ Lost(Peek(s, 0).rest) /\ Located(Peek(s, 0).rest)
         /\ Peek(s, 0).rest.pos = s.pos /\ Peek(s, 0).rest.line = s.line /\ Peek(s, 0).rest.column = s.column
<1>1. s \in Stream
  BY DEF Located, InFile
<1>2. PICK read : read = GetOrEof(s)
  OBVIOUS
<1>3. /\ read.char = Nul /\ read.rest \in Stream /\ read.rest.fail
      /\ read.rest.pos = s.pos /\ read.rest.line = s.line /\ read.rest.column = s.column
  BY <1>1, <1>2, GetOrEofBeyond
<1>4. Peek(s, 0) = [char |-> read.char, rest |-> Unget(read.rest, 1)]
  BY <1>2 DEF Peek
<1>5. Peek(s, 0).char = read.char /\ Peek(s, 0).rest = Unget(read.rest, 1)
  BY <1>4
<1>6. Located(Peek(s, 0).rest)
  BY PeekIsLocated
<1> QED BY <1>3, <1>5, <1>6, UngetOfLost

LEMMA ReadLost ==
  ASSUME text \in Seq(Char), NEW s, Located(s), Lost(s)
  PROVE  /\ Peek(s, 0).char = Other /\ Lost(Peek(s, 0).rest) /\ Peek(s, 0).rest.pos = s.pos
         /\ Peek(s, 1).char = Other /\ Lost(Peek(s, 1).rest)
         /\ Get(s).char = Other /\ Lost(Get(s).rest)
<1>1. s \in Stream /\ s.fail
  BY DEF Located, InFile, Lost
<1>2. GetOrEof(s) = [char |-> Other, rest |-> s]
  BY DEF GetOrEof, Lost, Good
<1>3. GetOrEof(s).char = Other /\ GetOrEof(s).rest = s
  BY <1>2
<1>4. Peek(s, 0) = [char |-> Other, rest |-> Unget(s, 1)]
  BY <1>3 DEF Peek
<1>5. Peek(s, 1) = [char |-> Other, rest |-> Unget(s, 2)]
  BY <1>3 DEF Peek
<1>6. PICK t : t = [s EXCEPT !.column = @ + 1]
  OBVIOUS
<1>7. Get(s) = [char |-> Other, rest |-> t]
  BY <1>3, <1>6 DEF Get, Other, Newline, Return
<1>8. Lost(t)
  BY <1>1, <1>6 DEF Lost, Stream
<1>9. Peek(s, 0).char = Other /\ Peek(s, 0).rest = Unget(s, 1)
  BY <1>4
<1>10. Peek(s, 1).char = Other /\ Peek(s, 1).rest = Unget(s, 2)
  BY <1>5
<1>11. Get(s).char = Other /\ Get(s).rest = t
  BY <1>7
<1> QED BY <1>1, <1>8, <1>9, <1>10, <1>11, UngetOfLost

LEMMA PeekTwo ==
  ASSUME text \in Seq(Char), NEW s, Located(s), Good(s)
  PROVE  /\ s.pos + 2 <= Len(text) => Peek(s, 1).char = text[s.pos + 2] /\ Peek(s, 1).rest = s
         /\ ~(s.pos + 2 <= Len(text)) => Peek(s, 1).char = Nul /\ Lost(Peek(s, 1).rest)
<1>1. s \in Stream /\ s.pos \in Nat /\ s.pos <= Len(text) /\ Len(text) \in Nat
  BY DEF Located, InFile, Stream
<1>2. PICK one : one = GetOrEof(s)
  OBVIOUS
<1>3. PICK two : two = GetOrEof(one.rest)
  OBVIOUS
<1>4. Peek(s, 1) = [char |-> two.char, rest |-> Unget(two.rest, 2)]
  BY <1>2, <1>3 DEF Peek
<1>5. Peek(s, 1).char = two.char /\ Peek(s, 1).rest = Unget(two.rest, 2)
  BY <1>4
<1>6. PICK first : first = [s EXCEPT !.pos = @ + 1]
  OBVIOUS
<1>7. first \in Stream /\ Good(first) /\ first.pos = s.pos + 1
  BY <1>1, <1>6 DEF Stream, Good
<1>8. ASSUME s.pos < Len(text) PROVE one.char = text[s.pos + 1] /\ one.rest = first
  <2>1. one = [char |-> text[s.pos + 1], rest |-> first]
    BY <1>1, <1>2, <1>6, <1>8 DEF GetOrEof, AtEnd, Good
  <2> QED BY <2>1
<1>9. ASSUME s.pos + 2 <= Len(text)
      PROVE  Peek(s, 1).char = text[s.pos + 2] /\ Peek(s, 1).rest = s
  <2>1. one.rest = first /\ ~AtEnd(first)
    BY <1>1, <1>7, <1>8, <1>9 DEF AtEnd
  <2>2. PICK second : second = [first EXCEPT !.pos = @ + 1]
    OBVIOUS
  <2>3. two = [char |-> text[first.pos + 1], rest |-> second]
    BY <1>3, <1>7, <2>1, <2>2 DEF GetOrEof, Good
  <2>4. two.char = text[s.pos + 2] /\ two.rest = second
    <3>1. first.pos + 1 = s.pos + 2
      BY <1>1, <1>7
    <3> QED BY <2>3, <3>1
  <2>5. second \in Stream /\ ~second.fail
    BY <1>7, <2>2 DEF Stream, Good
  <2>6. Unget(second, 2) = [second EXCEPT !.eof = FALSE, !.pos = @ - 2]
    BY <2>5 DEF Unget
  <2>7. Good(Unget(second, 2))
    BY <2>5, <2>6 DEF Stream, Good
  <2> QED BY <1>5, <2>4, <2>7, PeekIsLocated
<1>10. ASSUME ~(s.pos + 2 <= Len(text))
       PROVE  Peek(s, 1).char = Nul /\ Lost(Peek(s, 1).rest)
  <2>1. one.rest \in Stream /\ ((Good(one.rest) /\ one.rest.pos = Len(text)) \/ one.rest.eof)
    <3>1. CASE s.pos = Len(text)
      BY <1>1, <1>2, <3>1, GetOrEofBeyond
    <3>2. CASE s.pos + 1 = Len(text)
      BY <1>1, <1>7, <1>8, <3>2
    <3> QED BY <1>1, <1>10, <3>1, <3>2
  <2>2. two.char = Nul /\ two.rest \in Stream /\ two.rest.fail
    BY <1>3, <2>1, GetOrEofBeyond
  <2> QED BY <1>5, <2>2, UngetOfLost
<1> QED BY <1>9, <1>10

LEMMA GetGood ==
  ASSUME text \in Seq(Char), NEW s, Located(s), Good(s), s.pos < Len(text)
  PROVE  LET c == text[s.pos + 1]
             next == Get(s).rest
         IN  /\ Located(next)
             /\ c \notin Ends => Get(s).char = c /\ Good(next) /\ next.pos = s.pos + 1
             /\ c \in Ends => /\ Get(s).char = Newline
                              /\ next.pos = IF c = Return /\ s.pos + 2 <= Len(text) /\ text[s.pos + 2] = Newline
                                            THEN s.pos + 2 ELSE s.pos + 1
                              /\ Good(next) \/ Ended(next)
<1> DEFINE c == text[s.pos + 1]
           next == Get(s).rest
           read == [s EXCEPT !.pos = @ + 1]
<1>1. s \in Stream /\ s.pos \in Nat /\ s.pos <= Len(text) /\ Len(text) \in Nat /\ s.line \in Nat
  BY DEF Located, InFile, Stream
<1>2. GetOrEof(s) = [char |-> c, rest |-> read]
  BY <1>1 DEF GetOrEof, AtEnd, Good
<1>3. read \in Stream /\ Good(read) /\ read.pos = s.pos + 1 /\ read.line = s.line
  BY <1>1 DEF Stream, Good
<1>4. Located(next)
  BY GetIsLocated
<1> HIDE DEF read, next
<1>5. ASSUME c \notin Ends PROVE Get(s).char = c /\ Good(next) /\ next.pos = s.pos + 1
  <2>1. Get(s) = [char |-> c, rest |-> [read EXCEPT !.column = @ + 1]]
    BY <1>2, <1>5 DEF Get, Ends
  <2>2. next = [read EXCEPT !.column = @ + 1]
    BY <2>1 DEF next
  <2> QED BY <1>3, <2>1, <2>2 DEF Stream, Good
<1>6. ASSUME c = Newline
      PROVE  Get(s).char = Newline /\ next.pos = s.pos + 1 /\ Good(next)
  <2>1. Get(s) = [char |-> Newline, rest |-> NextLine(read)]
    BY <1>2, <1>6 DEF Get, Newline, Return
  <2>2. InFile(read)
    BY <1>1, <1>3 DEF InFile
  <2> QED BY <1>3, <2>1, <2>2, NextLineIsInFile DEF next
<1>7. ASSUME c = Return
      PROVE  /\ Get(s).char = Newline
             /\ next.pos = IF c = Return /\ s.pos + 2 <= Len(text) /\ text[s.pos + 2] = Newline
                           THEN s.pos + 2 ELSE s.pos + 1
             /\ Good(next) \/ Ended(next)
  <2> DEFINE skipped == SkipLineFeed(read)
  <2>1. Get(s).char = Newline /\ next = NextLine(skipped)
    <3>1. Get(s) = [char |-> Newline, rest |-> NextLine(skipped)]
      BY <1>2, <1>7 DEF Get, Newline, Return
    <3> QED BY <3>1 DEF next
  <2>2. InFile(read)
    BY <1>1, <1>3 DEF InFile
  <2>3. InFile(skipped)
    BY <2>2, SkipLineFeedIsInFile
  <2>4. next.pos = skipped.pos /\ next.line = skipped.line + 1 /\ next.column = 1 /\ (Good(next) <=> Good(skipped))
    BY <2>1, <2>3, NextLineIsInFile
  <2>5. next.eof = skipped.eof
    BY <2>1, <2>3 DEF NextLine, InFile, Stream
  <2>6. CASE s.pos + 1 = Len(text)
    <3>1. skipped = [read EXCEPT !.eof = TRUE]
      BY <1>3, <2>6 DEF SkipLineFeed, AtEnd
    <3>2. skipped.eof /\ skipped.pos = s.pos + 1 /\ skipped.line = s.line
      BY <1>3, <3>1 DEF Stream
    <3>3. s.line = LineOf(text, s.pos)
      BY DEF Located
    <3>4. LineOf(text, s.pos + 1) = LineOf(text, s.pos) + 1 /\ ColumnOf(text, s.pos + 1) = 1
      BY <1>1, <1>7, LineEndAdvances
    <3>5. Ended(next)
      BY <2>4, <2>5, <2>6, <3>2, <3>3, <3>4 DEF Ended
    <3>6. ~(s.pos + 2 <= Len(text))
      BY <1>1, <2>6
    <3> QED BY <2>1, <2>4, <3>2, <3>5, <3>6
  <2>7. CASE s.pos + 1 < Len(text)
    <3>1. ~AtEnd(read) /\ read.pos + 1 = s.pos + 2 /\ s.pos + 2 <= Len(text)
      BY <1>1, <1>3, <2>7 DEF AtEnd
    <3>2. CASE text[s.pos + 2] = Newline
      <4>1. skipped = [read EXCEPT !.pos = @ + 1]
        BY <3>1, <3>2 DEF SkipLineFeed
      <4>2. skipped.pos = s.pos + 2 /\ Good(skipped)
        BY <1>1, <1>3, <4>1 DEF Stream, Good
      <4> QED BY <1>7, <2>1, <2>4, <3>1, <3>2, <4>2
    <3>3. CASE text[s.pos + 2] # Newline
      <4>1. skipped = read
        BY <3>1, <3>3 DEF SkipLineFeed
      <4> QED BY <1>3, <2>1, <2>4, <3>3, <4>1
    <3> QED BY <3>2, <3>3
  <2> QED BY <1>1, <2>6, <2>7
<1>8. c = Newline => c # Return
  BY DEF Newline, Return
<1> QED BY <1>4, <1>5, <1>6, <1>7, <1>8 DEF Ends, next

LEMMA GetAtEnd ==
  ASSUME text \in Seq(Char), NEW s, Located(s), Good(s), s.pos = Len(text)
  PROVE  Get(s).char = Nul /\ Ended(Get(s).rest) /\ Located(Get(s).rest)
<1> DEFINE read == [s EXCEPT !.eof = TRUE, !.fail = TRUE]
<1>1. s \in Stream /\ s.column \in Nat /\ s.line = LineOf(text, s.pos) /\ s.column = ColumnOf(text, s.pos)
  BY DEF Located, InFile, Stream
<1>2. GetOrEof(s) = [char |-> Nul, rest |-> read]
  BY DEF GetOrEof, AtEnd, Good
<1>3. read \in Stream /\ read.eof /\ read.pos = s.pos /\ read.line = s.line /\ read.column = s.column
  BY <1>1 DEF Stream
<1> HIDE DEF read
<1>4. Get(s) = [char |-> Nul, rest |-> [read EXCEPT !.column = @ + 1]]
  BY <1>2 DEF Get, Nul, Newline, Return
<1>5. Ended(Get(s).rest)
  BY <1>1, <1>3, <1>4 DEF Ended, Stream
<1> QED BY <1>4, <1>5, GetIsLocated

LEMMA PeekStrGood ==
  ASSUME text \in Seq(Char), NEW s, Located(s), Good(s), NEW length \in Nat
  PROVE  /\ s.pos + length <= Len(text) =>
              /\ PeekStr(s, length).chars = SubSeq(text, s.pos + 1, s.pos + length)
              /\ PeekStr(s, length).rest = s
         /\ ~(s.pos + length <= Len(text)) =>
              PeekStr(s, length).chars = <<>> /\ Lost(PeekStr(s, length).rest)
<1>1. s \in Stream
  BY DEF Located, InFile
<1>2. CASE s.pos + length <= Len(text)
  BY <1>2 DEF PeekStr
<1>3. CASE ~(s.pos + length <= Len(text))
  <2>1. PeekStr(s, length) = [chars |-> <<>>, rest |-> [s EXCEPT !.fail = TRUE, !.eof = FALSE,
                                                                 !.pos = IF Good(s) THEN Len(text) ELSE @]]
    BY <1>3 DEF PeekStr
  <2>2. Lost([s EXCEPT !.fail = TRUE, !.eof = FALSE, !.pos = IF Good(s) THEN Len(text) ELSE @])
    BY <1>1 DEF Lost, Stream
  <2> QED BY <1>3, <2>1, <2>2
<1> QED BY <1>2, <1>3

(* The tokens of the tokenization *)

Mapped == [i \in 1..Len(tokens) |-> TokenText(tokens[i])]

LEMMA SamePlaces ==
  ASSUME NEW s, NEW i
  PROVE  Reference!LineOf(s, i) = LineOf(s, i) /\ Reference!ColumnOf(s, i) = ColumnOf(s, i)
<1>1. Reference!Return = Return /\ Reference!Newline = Newline /\ Reference!Ends = Ends
  BY SameClasses
<1>2. Reference!LineEnds(s, i) = LineEnds(s, i)
  BY <1>1 DEF Reference!LineEnds, LineEnds
<1>3. Reference!LineRest(s, i) = LineRest(s, i)
  BY <1>1 DEF Reference!LineRest, LineRest
<1>4. \A S : Reference!Cardinality(S) = Cardinality(S)
  BY Zenon DEF Reference!Cardinality, Cardinality
<1> QED
  BY <1>2, <1>3, <1>4 DEF Reference!LineOf, Reference!ColumnOf, LineOf, ColumnOf

\* What the invariants say of the tokens.
Named == \A i \in 1..Len(tokens) : tokens[i].symbol \in 1..Len(pool)

LEMMA SameTokens ==
  ASSUME UNCHANGED <<tokens, pool>>, Named
  PROVE  Mapped' = Mapped /\ Named'
<1>1. tokens' = tokens /\ pool' = pool
  OBVIOUS
<1>2. Mapped' = Mapped
  BY <1>1 DEF Mapped, TokenText
<1> QED BY <1>1, <1>2 DEF Named

LEMMA PoolGrows ==
  ASSUME pool \in Seq(Seq(CharInput)), NEW str \in Seq(CharInput), pool' = Internalize(str)
  PROVE  /\ Len(pool) <= Len(pool') /\ \A i \in 1..Len(pool) : pool'[i] = pool[i]
         /\ SymbolOf(str, pool') \in 1..Len(pool') /\ pool'[SymbolOf(str, pool')] = str
         /\ Len(pool) \in Nat /\ Len(pool') \in Nat
<1>1. CASE IsInternalized(str)
  <2>1. pool' = pool /\ \E i \in 1..Len(pool') : pool'[i] = str
    BY <1>1 DEF Internalize, IsInternalized
  <2>2. SymbolOf(str, pool') \in 1..Len(pool') /\ pool'[SymbolOf(str, pool')] = str
    BY <2>1 DEF SymbolOf
  <2> QED BY <2>1, <2>2
<1>2. CASE ~IsInternalized(str)
  <2>1. pool' = Append(pool, str)
    BY <1>2 DEF Internalize
  <2>2. /\ Len(pool') = Len(pool) + 1 /\ pool'[Len(pool) + 1] = str /\ Len(pool) \in Nat
        /\ \A i \in 1..Len(pool) : pool'[i] = pool[i]
    BY <2>1
  <2>3. \E i \in 1..Len(pool') : pool'[i] = str
    <3>1. Len(pool) + 1 \in 1..Len(pool')
      BY <2>2
    <3> QED BY <2>2, <3>1
  <2>4. SymbolOf(str, pool') \in 1..Len(pool') /\ pool'[SymbolOf(str, pool')] = str
    BY <2>3 DEF SymbolOf
  <2> QED BY <2>2, <2>4
<1> QED BY <1>1, <1>2

\* A token that is returned has the text of its symbol, and those in front of it keep theirs.
LEMMA TokenIs ==
  ASSUME LexerTypeOK, Named, NEW place \in Stream, NEW kind, NEW str \in Seq(CharInput),
         MakeToken(place, kind, str)
  PROVE  /\ Named'
         /\ Mapped' = Append(Mapped, [line |-> place.line, column |-> place.column, kind |-> kind,
                                      text |-> str])
<1>1. pool \in Seq(Seq(CharInput)) /\ tokens \in Seq(TokenRecord)
  BY DEF LexerTypeOK, TokenRecord, CharInput
<1>2. /\ Len(pool) <= Len(pool') /\ \A i \in 1..Len(pool) : pool'[i] = pool[i]
      /\ SymbolOf(str, pool') \in 1..Len(pool') /\ pool'[SymbolOf(str, pool')] = str
      /\ Len(pool) \in Nat /\ Len(pool') \in Nat
  BY <1>1, PoolGrows DEF MakeToken
<1>3. PICK n \in Nat : n = Len(tokens)
  BY <1>1
<1>4. PICK sym : sym = SymbolOf(str, pool')
  OBVIOUS
<1>5. PICK rec : rec = [line |-> place.line, column |-> place.column, kind |-> kind, symbol |-> sym]
  OBVIOUS
<1>6. tokens' = Append(tokens, rec)
  BY <1>4, <1>5 DEF MakeToken
<1>7. Len(tokens') = n + 1 /\ tokens'[n + 1] = rec /\ \A i \in 1..n : tokens'[i] = tokens[i]
  BY <1>1, <1>3, <1>6
<1>8. rec.symbol = sym /\ rec.line = place.line /\ rec.column = place.column /\ rec.kind = kind
  BY <1>5
<1>9. Named'
  <2>1. SUFFICES ASSUME NEW i \in 1..(n + 1) PROVE tokens'[i].symbol \in 1..Len(pool')
    BY <1>7 DEF Named
  <2>2. CASE i \in 1..n
    <3>1. tokens[i].symbol \in 1..Len(pool)
      BY <1>3, <2>2 DEF Named
    <3> QED BY <1>2, <1>7, <2>2, <3>1
  <2>3. CASE i = n + 1
    BY <1>2, <1>4, <1>7, <1>8, <2>3
  <2> QED BY <2>2, <2>3
<1> DEFINE new == [line |-> place.line, column |-> place.column, kind |-> kind, text |-> str]
<1>10. Mapped' = [i \in 1..(n + 1) |-> TokenText(tokens[i])']
  BY <1>7 DEF Mapped
<1>11. \A i \in 1..n : TokenText(tokens[i])' = TokenText(tokens[i])
  <2> TAKE i \in 1..n
  <2>1. tokens[i].symbol \in 1..Len(pool) /\ tokens'[i] = tokens[i]
    BY <1>3, <1>7 DEF Named
  <2>2. pool'[tokens[i].symbol] = pool[tokens[i].symbol]
    BY <1>2, <2>1
  <2> QED BY <2>1, <2>2 DEF TokenText
<1>12. TokenText(tokens[n + 1])' = new
  BY <1>2, <1>4, <1>7, <1>8 DEF TokenText
<1>13. Mapped = [i \in 1..n |-> TokenText(tokens[i])]
  BY <1>3 DEF Mapped
<1> DEFINE S == {TokenText(tokens[i]) : i \in 1..n} \cup {new}
<1>14. Mapped \in [1..n -> S] /\ Mapped \in Seq(S) /\ new \in S /\ Len(Mapped) = n
  <2>1. Mapped \in [1..n -> S]
    BY <1>13
  <2> QED BY <2>1
<1>15. PICK longer : longer = Append(Mapped, new)
  OBVIOUS
<1>16. /\ longer \in Seq(S) /\ Len(longer) = n + 1 /\ longer[n + 1] = new
       /\ \A i \in 1..n : longer[i] = Mapped[i]
  <2> HIDE DEF S, new
  <2> QED BY <1>14, <1>15
<1>17. longer = [i \in 1..(n + 1) |-> longer[i]]
  <2> HIDE DEF S, new
  <2>1. longer \in [1..(n + 1) -> S]
    BY <1>16
  <2> QED BY <2>1
<1>18. \A i \in 1..(n + 1) : TokenText(tokens[i])' = longer[i]
  <2> TAKE i \in 1..(n + 1)
  <2>1. CASE i \in 1..n
    BY <1>11, <1>13, <1>16, <2>1
  <2>2. CASE i = n + 1
    BY <1>12, <1>16, <2>2
  <2> QED BY <2>1, <2>2
<1>19. Mapped' = longer
  BY <1>10, <1>17, <1>18
<1> QED BY <1>9, <1>15, <1>19

(* The steps of the tokenization *)

Step == [Reference!Next]_(Reference!vars)

LEMMA StutterStep ==
  ASSUME UNCHANGED <<text, tokens, pool>>, CutOff' = CutOff, Verdict' = Verdict, Named
  PROVE  Step
<1>1. Mapped' = Mapped /\ text' = text
  BY SameTokens
<1> QED BY <1>1 DEF Step, Reference!vars, Mapped

LEMMA SkipStep ==
  ASSUME UNCHANGED <<text, tokens, pool>>, Named, Verdict = "none", Verdict' = "none",
         SkipTo(CutOff, CutOff')
  PROVE  Step
<1>1. Mapped' = Mapped /\ text' = text
  BY SameTokens
<1>2. Reference!Skip
  BY <1>1 DEF Reference!Skip, SkipTo, Mapped
<1> QED BY <1>2 DEF Step, Reference!Next

LEMMA RefuseStep ==
  ASSUME UNCHANGED <<text, tokens, pool>>, Named, Verdict \in {"none", "lost"}, Verdict' = "refused",
         Verdict = "none" => CutOff < Len(text) /\ ~Reference!CanCut(CutOff)
  PROVE  Step
<1>1. Mapped' = Mapped /\ text' = text
  BY SameTokens
<1>2. Reference!Refuse
  BY <1>1 DEF Reference!Refuse, Mapped
<1> QED BY <1>2 DEF Step, Reference!Next

\* The place of a stream is that of the character behind it.
Stands(place, i) == /\ place \in Stream /\ place.pos = i
                    /\ place.line = LineOf(text, i) /\ place.column = ColumnOf(text, i)

LEMMA EmitStep ==
  ASSUME LexerTypeOK, Named, UNCHANGED text, Verdict = "none", Verdict' = "none",
         NEW place, Stands(place, CutOff), NEW kind, NEW ahead, NEW str \in Seq(CharInput),
         CutTo(CutOff, CutOff', kind, ahead), CutOff' + ahead <= Len(text),
         str = Reference!TextOf(Reference!Piece(CutOff, CutOff')),
         MakeToken(place, kind, str)
  PROVE  Step /\ Named'
<1>1. Named' /\ Mapped' = Append(Mapped, [line |-> place.line, column |-> place.column, kind |-> kind,
                                          text |-> str])
  BY TokenIs DEF Stands
<1>2. Reference!Token(Reference!Piece(CutOff, CutOff')) =
        [line |-> place.line, column |-> place.column, kind |-> kind, text |-> str]
  BY SamePlaces DEF Reference!Token, Stands, CutTo
<1>3. Reference!Emit
  BY <1>1, <1>2 DEF Reference!Emit, CutTo, Mapped, Reference!EndIsKnown
<1> QED BY <1>1, <1>3 DEF Step, Reference!Next

LEMMA LoseStep ==
  ASSUME LexerTypeOK, Named, UNCHANGED text, Verdict = "none", Verdict' = "lost",
         NEW place, Stands(place, CutOff), NEW kind, NEW ahead, NEW str \in Seq(CharInput), NEW j,
         CutTo(CutOff, j, kind, ahead), ~(j + ahead <= Len(text)), Reference!Piece(CutOff, j) # <<"/">>,
         str \in {Reference!TextOf(Reference!Piece(CutOff, j)), <<text[CutOff + 1], Other>>},
         MakeToken(place, kind, str)
  PROVE  Step /\ Named'
<1>1. Named' /\ Mapped' = Append(Mapped, [line |-> place.line, column |-> place.column, kind |-> kind,
                                          text |-> str])
  BY TokenIs DEF Stands
<1>2. [Reference!Token(Reference!Piece(CutOff, j)) EXCEPT !.text = str] =
        [line |-> place.line, column |-> place.column, kind |-> kind, text |-> str]
  BY SamePlaces DEF Reference!Token, Stands, CutTo
<1>3. Reference!Other = Other
  BY SameClasses
<1>4. Reference!Lose
  BY <1>1, <1>2, <1>3 DEF Reference!Lose, CutTo, Mapped, Reference!EndIsKnown
<1> QED BY <1>1, <1>4 DEF Step, Reference!Next

\* A slash at the end of the file ends the process.
LEMMA AbortStep ==
  ASSUME UNCHANGED <<text, tokens, pool>>, Named, Verdict = "none", Verdict' = "aborted",
         NEW kind, NEW ahead, NEW j, CutTo(CutOff, j, kind, ahead), ~(j + ahead <= Len(text)),
         Reference!Piece(CutOff, j) = <<"/">>
  PROVE  Step
<1>1. Mapped' = Mapped /\ text' = text
  BY SameTokens
<1>2. Reference!Lose
  BY <1>1 DEF Reference!Lose, CutTo, Mapped, Reference!EndIsKnown
<1> QED BY <1>2 DEF Step, Reference!Next

LEMMA AcceptStep ==
  ASSUME LexerTypeOK, Named, UNCHANGED text, Verdict = "none", Verdict' = "accepted",
         CutOff = Len(text), CutOff' = CutOff,
         NEW place \in Stream, place.line = LineOf(text, CutOff),
         \E offset \in {0, 1} : place.column = ColumnOf(text, CutOff) + offset,
         MakeToken(place, EndOfInput, <<>>)
  PROVE  Step /\ Named'
<1>1. Named' /\ Mapped' = Append(Mapped, [line |-> place.line, column |-> place.column,
                                          kind |-> EndOfInput, text |-> <<>>])
  <2>1. <<>> \in Seq(CharInput)
    OBVIOUS
  <2> QED BY <2>1, TokenIs
<1>2. Reference!EndOfInput = EndOfInput
  BY DEF Reference!EndOfInput, EndOfInput
<1>3. /\ Reference!LineOf(text, CutOff) = LineOf(text, CutOff)
      /\ Reference!ColumnOf(text, CutOff) = ColumnOf(text, CutOff)
  BY SamePlaces
<1>4. \E offset \in {0, 1} :
        Mapped' = Append(Mapped, [line |-> Reference!LineOf(text, CutOff),
                                  column |-> Reference!ColumnOf(text, CutOff) + offset,
                                  kind |-> Reference!EndOfInput, text |-> <<>>])
  BY <1>1, <1>2, <1>3
<1>5. Reference!Accept
  BY <1>4 DEF Reference!Accept, Mapped
<1> QED BY <1>1, <1>5 DEF Step, Reference!Next

(* The steps of the lexer *)

Inv == IInv /\ LoopsReadTheirTokens

LEMMA InvIs ==
  ASSUME Inv
  PROVE  /\ text \in Seq(Char) /\ Len(text) \in Nat /\ LexerTypeOK /\ Named
         /\ Located(stream) /\ stream \in Stream /\ stream.pos \in Nat /\ stream.pos <= Len(text)
         /\ Located(start) /\ start \in Stream /\ start.pos \in Nat /\ start.pos <= Len(text)
         /\ Good(stream) => Stands(stream, stream.pos) /\ ~Splits(stream.pos)
         /\ symbol \in Seq(CharInput)
<1>1. LexerTypeOK /\ Located(stream) /\ Located(start) /\ Named
  BY DEF Inv, IInv, LoopsReadTheirTokens, Named
<1>2. text \in Seq(Char) /\ stream \in Stream /\ start \in Stream /\ symbol \in Seq(CharInput)
  BY <1>1 DEF LexerTypeOK, CharInput
<1>3. stream.pos <= Len(text) /\ start.pos <= Len(text)
  BY <1>1 DEF Located, InFile
<1> QED BY <1>1, <1>2, <1>3 DEF Located, Stream, Stands

\* Looking at the next character.
LEMMA AheadIs ==
  ASSUME Inv
  PROVE  /\ Good(stream) /\ stream.pos < Len(text) =>
              /\ Ahead.char = text[stream.pos + 1] /\ Ahead.rest = stream
              /\ text[stream.pos + 1] \in Char
         /\ (Good(stream) /\ stream.pos = Len(text)) \/ stream.eof =>
              /\ Ahead.char = Nul /\ Lost(Ahead.rest) /\ Ahead.rest \in Stream
              /\ Ahead.rest.pos = stream.pos /\ Ahead.rest.line = stream.line
              /\ Ahead.rest.column = stream.column
         /\ Lost(stream) => Ahead.char = Other /\ Lost(Ahead.rest)
<1>1. /\ text \in Seq(Char) /\ Len(text) \in Nat /\ Located(stream) /\ stream.pos \in Nat
  BY InvIs
<1>2. Good(stream) /\ stream.pos < Len(text) =>
        /\ Ahead.char = text[stream.pos + 1] /\ Ahead.rest = stream
        /\ text[stream.pos + 1] \in Char
  BY <1>1, PeekGood DEF Ahead
<1>3. Lost(stream) => Ahead.char = Other /\ Lost(Ahead.rest)
  BY <1>1, ReadLost DEF Ahead
<1>4. (Good(stream) /\ stream.pos = Len(text)) \/ stream.eof =>
              /\ Ahead.char = Nul /\ Lost(Ahead.rest) /\ Ahead.rest \in Stream
              /\ Ahead.rest.pos = stream.pos /\ Ahead.rest.line = stream.line
              /\ Ahead.rest.column = stream.column
  BY <1>1, PeekBeyond DEF Ahead, Located, InFile
<1> QED BY <1>2, <1>3, <1>4

\* A character that is neither the end of the file nor what starts no token.
LEMMA NextIs ==
  ASSUME Inv, pc = "next", Ahead.char \notin {Nul, Other}
  PROVE  /\ Good(stream) /\ stream.pos < Len(text) /\ Ahead.char = text[stream.pos + 1]
         /\ Ahead.rest = stream /\ Verdict = "none" /\ CutOff = stream.pos
         /\ Stands(stream, stream.pos)
<1>1. Good(stream) \/ Ended(stream) \/ Lost(stream)
  BY DEF Inv, LoopsReadTheirTokens, Loop
<1>2. Good(stream) /\ stream.pos # Len(text)
  BY <1>1, AheadIs DEF Ended
<1>3. stream.pos < Len(text)
  BY <1>2, InvIs
<1>4. Verdict = "none"
  BY <1>2 DEF Verdict
<1> QED BY <1>2, <1>3, <1>4, AheadIs, InvIs DEF CutOff

\* Between two tokens again.
LEMMA ToNext ==
  ASSUME UNCHANGED text, pc' = "next", Named', Good(stream') \/ Ended(stream)' \/ Lost(stream')
  PROVE  /\ LoopsReadTheirTokens' /\ CutOff' = stream'.pos
         /\ Good(stream') \/ Ended(stream)' => Verdict' = "none"
         /\ Lost(stream') => Verdict' = "lost"
<1>1. LoopsReadTheirTokens'
  BY DEF LoopsReadTheirTokens, Loop, Named, Good, Lost
<1>2. CutOff' = stream'.pos
  BY DEF CutOff
<1>3. Verdict' = IF Good(stream)' \/ stream'.eof THEN "none" ELSE "lost"
  BY DEF Verdict
<1> QED BY <1>1, <1>2, <1>3 DEF Good, Ended, Lost

LEMMA SkipBlankIs ==
  ASSUME Inv, SkipBlank
  PROVE  Step /\ LoopsReadTheirTokens'
<1>1. /\ pc = "next" /\ Ahead.char \in Blank /\ stream' = Get(Ahead.rest).rest /\ pc' = "next"
      /\ UNCHANGED <<text, tokens, pool>>
  BY DEF SkipBlank, Continue
<1>2. Ahead.char \notin {Nul, Other}
  BY <1>1, ClassesApart
<1>3. /\ Good(stream) /\ stream.pos < Len(text) /\ Ahead.char = text[stream.pos + 1]
      /\ Ahead.rest = stream /\ Verdict = "none" /\ CutOff = stream.pos
  BY <1>1, <1>2, NextIs
<1> DEFINE i == stream.pos
           j == IF text[i + 1] = Return /\ i + 2 <= Len(text) /\ text[i + 2] = Newline
                THEN i + 2 ELSE i + 1
<1>4. SkipTo(i, j)
  BY <1>1, <1>3, BlankCut, InvIs
<1>5. stream'.pos = j /\ (Good(stream') \/ Ended(stream)')
  <2>1. Get(stream).rest.pos = j /\ (Good(Get(stream).rest) \/ Ended(Get(stream).rest))
    BY <1>3, GetGood, InvIs DEF Ends
  <2>2. stream' = Get(stream).rest /\ text' = text
    BY <1>1, <1>3
  <2> QED BY <2>1, <2>2 DEF Ended
<1> HIDE DEF i, j
<1>6. Named /\ Named'
  BY <1>1, SameTokens, InvIs
<1>7. LoopsReadTheirTokens' /\ CutOff' = j /\ Verdict' = "none"
  BY <1>1, <1>5, <1>6, ToNext
<1> QED BY <1>1, <1>3, <1>4, <1>6, <1>7, SkipStep DEF i

LEMMA ReadEndIs ==
  ASSUME Inv, ReadEnd
  PROVE  Step /\ LoopsReadTheirTokens'
<1>1. /\ pc = "next" /\ Ahead.char = Nul /\ stream' = Ahead.rest /\ pc' = "done" /\ text' = text
      /\ MakeToken(Ahead.rest, EndOfInput, <<>>)
  BY DEF ReadEnd
<1>2. Good(stream) \/ Ended(stream) \/ Lost(stream)
  BY <1>1 DEF Inv, LoopsReadTheirTokens, Loop
<1>3. Nul # Other /\ Nul \notin Char
  BY DEF Nul, Other, Char, Letter, Digit, Blank, Special, Quote, Backslash, Newline, Return
<1>4. (Good(stream) \/ Ended(stream)) /\ stream.pos = Len(text)
  BY <1>1, <1>2, <1>3, AheadIs, InvIs DEF Ended
<1>5. /\ Verdict = "none" /\ CutOff = Len(text)
  BY <1>1, <1>4 DEF Verdict, CutOff, Ended
<1>6. /\ Ahead.rest \in Stream /\ Ahead.rest.pos = stream.pos /\ Ahead.rest.line = stream.line
      /\ Ahead.rest.column = stream.column
  BY <1>4, AheadIs DEF Ended
<1>7. Verdict' = "accepted" /\ CutOff' = CutOff
  BY <1>1, <1>4, <1>5, <1>6 DEF Verdict, CutOff
<1>8. /\ Ahead.rest.line = LineOf(text, CutOff)
      /\ \E offset \in {0, 1} : Ahead.rest.column = ColumnOf(text, CutOff) + offset
  <2>1. CASE Good(stream)
    <3>1. /\ stream.line = LineOf(text, stream.pos) /\ stream.column = ColumnOf(text, stream.pos)
          /\ stream.column = stream.column + 0
      BY <2>1, InvIs DEF Stands, Stream
    <3> QED BY <1>4, <1>5, <1>6, <3>1
  <2>2. CASE Ended(stream)
    BY <1>4, <1>5, <1>6, <2>2 DEF Ended
  <2> QED BY <1>4, <2>1, <2>2
<1>9. Step /\ Named'
  BY <1>1, <1>5, <1>6, <1>7, <1>8, AcceptStep, InvIs
<1>10. LoopsReadTheirTokens'
  BY <1>1, <1>9 DEF LoopsReadTheirTokens, Loop, Named, LoopPc
<1> QED BY <1>9, <1>10

\* The end of the process.
LEMMA Stopped ==
  ASSUME UNCHANGED text, Stop("failed"), Named
  PROVE  UNCHANGED <<text, tokens, pool>> /\ Verdict' = "refused" /\ LoopsReadTheirTokens'
<1>1. UNCHANGED <<tokens, pool>> /\ pc' = "failed"
  BY DEF Stop
<1>2. Named'
  BY <1>1, SameTokens
<1>3. Verdict' = "refused"
  BY <1>1 DEF Verdict
<1> QED BY <1>1, <1>2, <1>3 DEF LoopsReadTheirTokens, Loop, Named, LoopPc

LEMMA UnknownTokenIs ==
  ASSUME Inv, UnknownToken
  PROVE  Step /\ LoopsReadTheirTokens'
<1>1. pc = "next" /\ Ahead.char \in {Other, Backslash} /\ Stop("failed") /\ UNCHANGED text
  BY DEF UnknownToken
<1>2. Good(stream) \/ Ended(stream) \/ Lost(stream)
  BY <1>1 DEF Inv, LoopsReadTheirTokens, Loop
<1>3. Nul # Other /\ Nul # Backslash /\ Other # Backslash
  BY DEF Nul, Other, Backslash
<1>4. UNCHANGED <<text, tokens, pool>> /\ Verdict' = "refused" /\ LoopsReadTheirTokens' /\ Named
  BY <1>1, Stopped, InvIs
<1>5. CASE Lost(stream)
  <2>1. Verdict = "lost"
    BY <1>1, <1>5 DEF Verdict, Lost, Good
  <2> QED BY <1>4, <2>1, RefuseStep
<1>6. CASE Good(stream) /\ stream.pos < Len(text)
  <2>1. Verdict = "none" /\ CutOff = stream.pos
    BY <1>1, <1>6 DEF Verdict, CutOff
  <2>2. text[stream.pos + 1] \in {Other, Backslash}
    BY <1>1, <1>6, AheadIs
  <2>3. ~Reference!CanCut(stream.pos)
    BY <1>6, <2>2, NothingStarts, InvIs
  <2> QED BY <1>4, <1>6, <2>1, <2>3, RefuseStep
<1>7. ~Ended(stream) /\ ~(Good(stream) /\ stream.pos = Len(text))
  BY <1>1, <1>3, AheadIs DEF Ended
<1>8. stream.pos <= Len(text) /\ stream.pos \in Nat /\ Len(text) \in Nat
  BY InvIs
<1> QED BY <1>2, <1>5, <1>6, <1>7, <1>8

(* Words and numbers *)

LEMMA LoopStutters ==
  ASSUME UNCHANGED <<text, tokens, pool>>, Named, Verdict = "none", pc' \in LoopPc \ {"next"},
         Good(stream') \/ stream'.eof, start'.pos = CutOff
  PROVE  Step /\ Named'
<1>1. Verdict' = "none" /\ CutOff' = CutOff
  BY DEF Verdict, CutOff, LoopPc, Good
<1> QED BY <1>1, StutterStep, SameTokens

LEMMA PieceGrows ==
  ASSUME text \in Seq(Char), NEW i \in Nat, NEW j \in i..(Len(text) - 1)
  PROVE  Reference!Piece(i, j + 1) = Append(Reference!Piece(i, j), text[j + 1])
<1>1. PICK s : s = Reference!Piece(i, j)
  OBVIOUS
<1>2. PICK t : t = Reference!Piece(i, j + 1)
  OBVIOUS
<1>3. i <= j /\ j <= Len(text) /\ j + 1 <= Len(text) /\ j \in Nat /\ j + 1 \in Nat /\ i <= j + 1
  OBVIOUS
<1>4. s \in Seq(Char) /\ Len(s) = j - i /\ \A k \in 1..(j - i) : s[k] = text[i + k]
  BY <1>1, <1>3, PieceIs
<1>5. t \in Seq(Char) /\ Len(t) = (j + 1) - i /\ \A k \in 1..((j + 1) - i) : t[k] = text[i + k]
  BY <1>2, <1>3, PieceIs
<1>6. PICK c \in Char : c = text[j + 1]
  OBVIOUS
<1>7. PICK u \in Seq(Char) : u = Append(s, c)
  <2>1. Append(s, c) \in Seq(Char)
    BY <1>4
  <2> QED BY <2>1
<1>8. Len(u) = (j - i) + 1 /\ u[(j - i) + 1] = c /\ \A k \in 1..(j - i) : u[k] = s[k]
  BY <1>4, <1>7
<1>9. PICK n \in Nat : n = (j - i) + 1
  BY <1>3
<1>10. Len(t) = n /\ Len(u) = n /\ \A k \in 1..n : t[k] = u[k]
  <2>1. (j + 1) - i = n /\ i + n = j + 1
    BY <1>3, <1>9
  <2> SUFFICES ASSUME NEW k \in 1..n PROVE t[k] = u[k]
    BY <1>5, <1>8, <1>9, <2>1
  <2>2. CASE k = n
    BY <1>5, <1>6, <1>8, <1>9, <2>1, <2>2
  <2>3. CASE k \in 1..(j - i)
    BY <1>4, <1>5, <1>8, <2>1, <2>3
  <2> QED BY <1>9, <2>2, <2>3
<1>11. t = u
  BY ONLY <1>5, <1>7, <1>10, SeqEqual
<1> QED BY <1>1, <1>2, <1>6, <1>7, <1>11

LEMMA OnePiece ==
  ASSUME text \in Seq(Char), NEW i \in 0..(Len(text) - 1)
  PROVE  Reference!Piece(i, i + 1) = <<text[i + 1]>>
<1>1. PICK s : s = Reference!Piece(i, i + 1)
  OBVIOUS
<1>2. s \in Seq(Char) /\ Len(s) = (i + 1) - i /\ \A k \in 1..((i + 1) - i) : s[k] = text[i + k]
  <2>1. i \in Nat /\ i + 1 \in Nat /\ i <= i + 1 /\ i + 1 <= Len(text)
    OBVIOUS
  <2> QED BY <1>1, <2>1, PieceIs
<1>3. Len(s) = 1 /\ s[1] = text[i + 1]
  BY <1>2
<1> QED BY <1>1, <1>2, <1>3, Longhand

Plain(C) == C \subseteq Char /\ C \cap (Ends \cup {Nul, Other}) = {}

LEMMA PlainClasses ==
  /\ Plain(Letter) /\ Plain(Letter \cup Digit) /\ Plain(Digit) /\ Plain(Digit \ {"0"})
  /\ Letter \subseteq Letter \cup Digit /\ Digit \ {"0"} \subseteq Digit
BY DEF Plain, Letter, Digit, Char, Ends, Nul, Other, Newline, Return

LEMMA CollectingStarts ==
  ASSUME Inv, NEW First, NEW Class, Plain(First), First \subseteq Class, NEW where \in {"word", "number"},
         pc = "next", Ahead.char \in First, start' = stream,
         Continue(where, Get(Ahead.rest).rest, <<Get(Ahead.rest).char>>)
  PROVE  /\ Step /\ Named' /\ Collects(First, Class)' /\ pc' = where
         /\ Good(start') /\ start'.pos < Len(text')
<1>1. Ahead.char \notin {Nul, Other} \cup Ends
  BY DEF Plain
<1>2. /\ Good(stream) /\ stream.pos < Len(text) /\ Ahead.char = text[stream.pos + 1]
      /\ Ahead.rest = stream /\ Verdict = "none" /\ CutOff = stream.pos
  BY <1>1, NextIs
<1>3. /\ text \in Seq(Char) /\ Located(stream) /\ stream.pos \in 0..(Len(text) - 1) /\ Named
      /\ stream.pos \in Nat
  BY <1>2, InvIs
<1>4. PICK c : c = text[stream.pos + 1]
  OBVIOUS
<1>5. Get(stream).char = c /\ Good(Get(stream).rest) /\ Get(stream).rest.pos = stream.pos + 1
  BY <1>1, <1>2, <1>3, <1>4, GetGood
<1>6. /\ pc' = where /\ stream' = Get(stream).rest /\ symbol' = <<c>> /\ UNCHANGED <<text, tokens, pool>>
  BY <1>2, <1>5 DEF Continue
<1>7. <<c>> = Reference!Piece(stream.pos, stream.pos + 1)
  BY <1>3, <1>4, OnePiece
<1>8. Good(stream') /\ stream'.pos = stream.pos + 1 /\ start'.pos = stream.pos
  BY <1>5, <1>6
<1>9. Step /\ Named'
  BY <1>2, <1>3, <1>6, <1>8, LoopStutters DEF LoopPc
<1>10. Collects(First, Class)'
  <2>1. Good(stream)' /\ start'.pos < stream'.pos
    BY <1>3, <1>8 DEF Good
  <2>2. text'[start'.pos + 1] \in First
    BY <1>2, <1>6, <1>8
  <2>3. \A k \in (start'.pos + 1)..stream'.pos : text'[k] \in Class
    <3> TAKE k \in (start'.pos + 1)..stream'.pos
    <3>1. k = start'.pos + 1
      BY <1>3, <1>8
    <3> QED BY <2>2, <3>1
  <2>4. symbol' = Reference!Piece(start.pos, stream.pos)'
    BY <1>6, <1>7, <1>8 DEF Reference!Piece
  <2> QED BY <2>1, <2>2, <2>3, <2>4 DEF Collects
<1> QED BY <1>2, <1>6, <1>8, <1>9, <1>10 DEF Good

LEMMA CollectingGoesOn ==
  ASSUME Inv, NEW First, NEW Class, Plain(Class), pc \in {"word", "number"}, Collects(First, Class),
         Ahead.char \in Class, start' = start,
         Continue(pc, Get(Ahead.rest).rest, Append(symbol, Ahead.char))
  PROVE  /\ Step /\ Named' /\ Collects(First, Class)' /\ pc' = pc
         /\ Good(start') /\ start'.pos < Len(text')
<1>1. Ahead.char \notin {Nul, Other} \cup Ends
  BY DEF Plain
<1>2. Good(stream) /\ start.pos < stream.pos /\ Good(start) /\ start.pos < Len(text)
  BY DEF Collects, Inv, LoopsReadTheirTokens, LoopPc
<1>3. Verdict = "none" /\ CutOff = start.pos
  BY <1>2 DEF Verdict, CutOff, Good
<1>4. /\ text \in Seq(Char) /\ Located(stream) /\ Named /\ stream.pos \in Nat /\ stream.pos <= Len(text)
      /\ Len(text) \in Nat /\ start.pos \in Nat
  BY InvIs
<1>5. stream.pos < Len(text) /\ Ahead.char = text[stream.pos + 1] /\ Ahead.rest = stream
  BY <1>1, <1>2, <1>4, AheadIs
<1>6. PICK c : c = text[stream.pos + 1]
  OBVIOUS
<1>7. Good(Get(stream).rest) /\ Get(stream).rest.pos = stream.pos + 1
  BY <1>1, <1>2, <1>4, <1>5, GetGood
<1>8. /\ pc' = pc /\ stream' = Get(stream).rest /\ symbol' = Append(symbol, c)
      /\ UNCHANGED <<text, tokens, pool>>
  BY <1>5, <1>6 DEF Continue
<1>9. Good(stream') /\ stream'.pos = stream.pos + 1
  BY <1>7, <1>8
<1>10. Step /\ Named'
  BY <1>3, <1>4, <1>8, <1>9, LoopStutters DEF LoopPc
<1>11. Append(symbol, c) = Reference!Piece(start.pos, stream.pos + 1)
  <2>1. stream.pos \in start.pos..(Len(text) - 1)
    BY <1>2, <1>4, <1>5
  <2> QED BY <1>4, <1>6, <2>1, PieceGrows DEF Collects
<1>12. Collects(First, Class)'
  <2>1. Good(stream)' /\ start'.pos < stream'.pos
    BY <1>2, <1>4, <1>9 DEF Good
  <2>2. text'[start'.pos + 1] \in First
    BY <1>8 DEF Collects
  <2>3. \A k \in (start'.pos + 1)..stream'.pos : text'[k] \in Class
    <3> TAKE k \in (start'.pos + 1)..stream'.pos
    <3>1. CASE k = stream.pos + 1
      BY <1>5, <1>8, <3>1
    <3>2. CASE k \in (start.pos + 1)..stream.pos
      BY <1>8, <3>2 DEF Collects
    <3> QED BY <1>4, <1>9, <3>1, <3>2
  <2>4. symbol' = Reference!Piece(start.pos, stream.pos)'
    BY <1>8, <1>9, <1>11 DEF Reference!Piece
  <2> QED BY <2>1, <2>2, <2>3, <2>4 DEF Collects
<1> QED BY <1>2, <1>8, <1>10, <1>12 DEF Good

\* A word or a number ends: at the end of the file, the stream is lost.
LEMMA CollectingEnds ==
  ASSUME Inv, NEW First, NEW Class, Plain(Class), Plain(First), pc \in {"word", "number"},
         Collects(First, Class), Ahead.char \notin Class, "/" \notin First, UNCHANGED text, stream' = Ahead.rest,
         NEW kind, CutTo(start.pos, stream.pos, kind, 1), Return_(start, kind, symbol),
         Reference!TextOf(Reference!Piece(start.pos, stream.pos)) = Reference!Piece(start.pos, stream.pos)
  PROVE  Step /\ LoopsReadTheirTokens'
<1>1. /\ Good(stream) /\ start.pos < stream.pos /\ Good(start) /\ start.pos < Len(text)
      /\ text[start.pos + 1] \in First /\ symbol = Reference!Piece(start.pos, stream.pos)
  BY DEF Collects, Inv, LoopsReadTheirTokens, LoopPc
<1>2. Verdict = "none" /\ CutOff = start.pos
  BY <1>1 DEF Verdict, CutOff, Good
<1>3. /\ text \in Seq(Char) /\ Named /\ stream.pos \in Nat /\ stream.pos <= Len(text)
      /\ Len(text) \in Nat /\ start.pos \in Nat /\ LexerTypeOK /\ symbol \in Seq(CharInput)
  BY InvIs
<1>4. Stands(start, CutOff)
  <2>1. Located(start)
    BY InvIs
  <2> QED BY <1>1, <1>2, <2>1 DEF Stands, Located, InFile
<1>5. MakeToken(start, kind, symbol) /\ pc' = "next"
  BY DEF Return_
<1>6. Named'
  BY <1>3, <1>4, <1>5, TokenIs DEF Stands
<1>7. CASE stream.pos < Len(text)
  <2>1. stream' = stream
    BY <1>1, <1>7, AheadIs
  <2>2. LoopsReadTheirTokens' /\ CutOff' = stream.pos /\ Verdict' = "none"
    BY <1>1, <1>5, <1>6, <2>1, ToNext
  <2>3. stream.pos + 1 <= Len(text)
    BY <1>3, <1>7
  <2>4. Step
    BY <1>1, <1>2, <1>3, <1>4, <1>5, <2>2, <2>3, EmitStep
  <2> QED BY <2>2, <2>4
<1>8. CASE stream.pos = Len(text)
  <2>1. Lost(stream')
    BY <1>1, <1>8, AheadIs
  <2>2. LoopsReadTheirTokens' /\ Verdict' = "lost"
    BY <1>5, <1>6, <2>1, ToNext
  <2>3. ~(stream.pos + 1 <= Len(text))
    BY <1>3, <1>8
  <2>4. Reference!Piece(start.pos, stream.pos) # <<"/">>
    <3>1. stream.pos \in (start.pos + 1)..Len(text)
      BY <1>1, <1>3
    <3>2. Reference!Piece(start.pos, stream.pos)[1] = text[start.pos + 1]
      BY <1>3, <3>1, PieceDecides
    <3> QED BY <1>1, <3>2
  <2>5. Step
    BY <1>1, <1>2, <1>3, <1>4, <1>5, <2>2, <2>3, <2>4, LoseStep
  <2> QED BY <2>2, <2>5
<1> QED BY <1>3, <1>7, <1>8

LEMMA Collecting ==
  ASSUME Named', Good(start'), start'.pos < Len(text'),
         (pc' = "word" /\ Collects(Letter, Letter \cup Digit)') \/ (pc' = "number" /\ Collects(Digit \ {"0"}, Digit)')
  PROVE  LoopsReadTheirTokens'
BY DEF LoopsReadTheirTokens, Loop, Named, Good, LoopPc

LEMMA StartWordIs ==
  ASSUME Inv, StartWord
  PROVE  Step /\ LoopsReadTheirTokens'
<1>1. /\ pc = "next" /\ Ahead.char \in Letter /\ start' = stream
      /\ Continue("word", Get(Ahead.rest).rest, <<Get(Ahead.rest).char>>)
  BY DEF StartWord
<1> DEFINE First == Letter
           Class == Letter \cup Digit
<1>2. Plain(First) /\ First \subseteq Class
  BY PlainClasses
<1>3. /\ Step /\ Named' /\ Collects(First, Class)' /\ pc' = "word"
      /\ Good(start') /\ start'.pos < Len(text')
  <2> HIDE DEF Class
  <2> QED BY <1>1, <1>2, CollectingStarts
<1> QED BY <1>3, Collecting

LEMMA ReadWordIs ==
  ASSUME Inv, ReadWord
  PROVE  Step /\ LoopsReadTheirTokens'
<1>1. /\ pc = "word" /\ Ahead.char \in Letter \cup Digit /\ start' = start
      /\ Continue(pc, Get(Ahead.rest).rest, Append(symbol, Ahead.char))
  BY DEF ReadWord
<1>2. Collects(Letter, Letter \cup Digit)
  BY <1>1 DEF Inv, LoopsReadTheirTokens, Loop
<1> DEFINE First == Letter
           Class == Letter \cup Digit
<1>3. Plain(Class)
  BY PlainClasses
<1>4. /\ Step /\ Named' /\ Collects(First, Class)' /\ pc' = "word"
      /\ Good(start') /\ start'.pos < Len(text')
  <2>1. Collects(First, Class) /\ Ahead.char \in Class
    BY <1>1, <1>2
  <2> HIDE DEF Class, First
  <2> QED BY <1>1, <1>3, <2>1, CollectingGoesOn
<1> QED BY <1>4, Collecting

LEMMA CollectedPiece ==
  ASSUME Inv, NEW First, NEW Class, pc \in {"word", "number"}, Collects(First, Class), Ahead.char \notin Class
  PROVE  /\ stream.pos \in (start.pos + 1)..Len(text) /\ start.pos \in Nat /\ text \in Seq(Char)
         /\ text[start.pos + 1] \in First /\ \A k \in (start.pos + 1)..stream.pos : text[k] \in Class
         /\ stream.pos < Len(text) => text[stream.pos + 1] \notin Class
         /\ symbol = Reference!Piece(start.pos, stream.pos)
BY InvIs, AheadIs DEF Collects

LEMMA EndWordIs ==
  ASSUME Inv, EndWord
  PROVE  Step /\ LoopsReadTheirTokens'
<1>1. pc = "word"
  BY DEF EndWord
<1> DEFINE First == Letter
           Class == Letter \cup Digit
           kind == IF symbol \in Keywords THEN <<"keyword">> ELSE <<"identifier">>
<1>2. Collects(First, Class)
  BY <1>1 DEF Inv, LoopsReadTheirTokens, Loop
<1>3. Ahead.char \notin Class /\ UNCHANGED text /\ stream' = Ahead.rest /\ Return_(start, kind, symbol)
  BY DEF EndWord
<1>4. Plain(First) /\ Plain(Class) /\ "/" \notin First
  <2>1. "/" \notin First
    BY DEF Letter
  <2> QED BY <2>1, PlainClasses
<1>5. /\ stream.pos \in (start.pos + 1)..Len(text) /\ start.pos \in Nat /\ text \in Seq(Char)
      /\ text[start.pos + 1] \in First /\ \A k \in (start.pos + 1)..stream.pos : text[k] \in Class
      /\ stream.pos < Len(text) => text[stream.pos + 1] \notin Class
      /\ symbol = Reference!Piece(start.pos, stream.pos)
  <2> HIDE DEF First, Class
  <2> QED BY <1>1, <1>2, <1>3, CollectedPiece
<1>6. /\ CutTo(start.pos, stream.pos, kind, 1)
      /\ Reference!TextOf(Reference!Piece(start.pos, stream.pos)) = Reference!Piece(start.pos, stream.pos)
  BY <1>5, WordCut
<1> HIDE DEF First, Class, kind
<1> QED BY <1>1, <1>2, <1>3, <1>4, <1>6, CollectingEnds

LEMMA StartNumberIs ==
  ASSUME Inv, StartNumber
  PROVE  Step /\ LoopsReadTheirTokens'
<1>1. /\ pc = "next" /\ Ahead.char \in Digit \ {"0"} /\ start' = stream
      /\ Continue("number", Get(Ahead.rest).rest, <<Get(Ahead.rest).char>>)
  BY DEF StartNumber
<1> DEFINE First == Digit \ {"0"}
           Class == Digit
<1>2. Plain(First) /\ First \subseteq Class /\ Ahead.char \in First
  BY <1>1, PlainClasses
<1>3. /\ Step /\ Named' /\ Collects(First, Class)' /\ pc' = "number"
      /\ Good(start') /\ start'.pos < Len(text')
  <2> HIDE DEF First, Class
  <2> QED BY <1>1, <1>2, CollectingStarts
<1> QED BY <1>3, Collecting

LEMMA ReadNumberIs ==
  ASSUME Inv, ReadNumber
  PROVE  Step /\ LoopsReadTheirTokens'
<1>1. /\ pc = "number" /\ Ahead.char \in Digit /\ start' = start
      /\ Continue(pc, Get(Ahead.rest).rest, Append(symbol, Ahead.char))
  BY DEF ReadNumber
<1>2. Collects(Digit \ {"0"}, Digit)
  BY <1>1 DEF Inv, LoopsReadTheirTokens, Loop
<1> DEFINE First == Digit \ {"0"}
           Class == Digit
<1>3. Plain(Class)
  BY PlainClasses
<1>4. /\ Step /\ Named' /\ Collects(First, Class)' /\ pc' = "number"
      /\ Good(start') /\ start'.pos < Len(text')
  <2>1. Collects(First, Class) /\ Ahead.char \in Class
    BY <1>1, <1>2
  <2> HIDE DEF Class, First
  <2> QED BY <1>1, <1>3, <2>1, CollectingGoesOn
<1> QED BY <1>4, Collecting

LEMMA EndNumberIs ==
  ASSUME Inv, EndNumber
  PROVE  Step /\ LoopsReadTheirTokens'
<1>1. pc = "number"
  BY DEF EndNumber
<1> DEFINE First == Digit \ {"0"}
           Class == Digit
           kind == <<"decimal">>
<1>2. Collects(First, Class)
  BY <1>1 DEF Inv, LoopsReadTheirTokens, Loop
<1>3. Ahead.char \notin Class /\ UNCHANGED text /\ stream' = Ahead.rest /\ Return_(start, kind, symbol)
  BY DEF EndNumber
<1>4. Plain(First) /\ Plain(Class) /\ "/" \notin First
  <2>1. "/" \notin First
    BY DEF Digit
  <2> QED BY <2>1, PlainClasses
<1>5. /\ stream.pos \in (start.pos + 1)..Len(text) /\ start.pos \in Nat /\ text \in Seq(Char)
      /\ text[start.pos + 1] \in First /\ \A k \in (start.pos + 1)..stream.pos : text[k] \in Class
      /\ stream.pos < Len(text) => text[stream.pos + 1] \notin Class
  <2> HIDE DEF First, Class
  <2> QED BY <1>1, <1>2, <1>3, CollectedPiece
<1>6. /\ CutTo(start.pos, stream.pos, kind, 1)
      /\ Reference!TextOf(Reference!Piece(start.pos, stream.pos)) = Reference!Piece(start.pos, stream.pos)
  BY <1>5, NumberCut
<1> HIDE DEF First, Class, kind
<1> QED BY <1>1, <1>2, <1>3, <1>4, <1>6, CollectingEnds

(* Tokens that are read in one step *)

LEMMA TokenInOneStep ==
  ASSUME Inv, Verdict = "none", CutOff = stream.pos, Good(stream), UNCHANGED text, NEW str \in Seq(CharInput),
         NEW kind, NEW ahead, CutTo(stream.pos, stream'.pos, kind, ahead), stream'.pos + ahead <= Len(text),
         str = Reference!TextOf(Reference!Piece(stream.pos, stream'.pos)),
         Return_(stream, kind, str), Good(stream')
  PROVE  Step /\ LoopsReadTheirTokens'
<1>1. Named /\ LexerTypeOK /\ Stands(stream, stream.pos)
  BY InvIs
<1>2. MakeToken(stream, kind, str) /\ pc' = "next"
  BY DEF Return_
<1>3. Named'
  BY <1>1, <1>2, TokenIs DEF Stands
<1>4. LoopsReadTheirTokens' /\ CutOff' = stream'.pos /\ Verdict' = "none"
  BY <1>2, <1>3, ToNext
<1> QED BY <1>1, <1>2, <1>4, EmitStep

\* Reading one character that does not end a line, or anything else.
LEMMA GetPlain ==
  ASSUME text \in Seq(Char), NEW s, Located(s), Good(s)
  PROVE  LET next == Get(s).rest
             plain == s.pos < Len(text) /\ text[s.pos + 1] \notin Ends
         IN  /\ Located(next)
             /\ plain => Get(s).char = text[s.pos + 1] /\ Good(next) /\ next.pos = s.pos + 1
             /\ ~plain => Get(s).char \in {Nul, Newline}
<1>1. s.pos \in Nat /\ s.pos <= Len(text) /\ Len(text) \in Nat
  BY DEF Located, InFile, Stream
<1>2. CASE s.pos = Len(text)
  BY <1>1, <1>2, GetAtEnd
<1>3. CASE s.pos < Len(text)
  <2>1. PICK c : c = text[s.pos + 1]
    OBVIOUS
  <2>2. CASE c \in Ends
    BY <1>3, <2>1, <2>2, GetGood
  <2>3. CASE c \notin Ends
    BY <1>3, <2>1, <2>3, GetGood
  <2> QED BY <2>2, <2>3
<1> QED BY <1>1, <1>2, <1>3

LEMMA ReadZeroIs ==
  ASSUME Inv, ReadZero
  PROVE  Step /\ LoopsReadTheirTokens'
<1>1. /\ pc = "next" /\ Ahead.char = "0" /\ stream' = Get(Ahead.rest).rest
      /\ Return_(stream, <<"zero">>, <<"0">>) /\ UNCHANGED text
  BY DEF ReadZero
<1>2. "0" \notin {Nul, Other} \cup Ends /\ "0" \in CharInput
  BY DEF Nul, Other, Ends, Newline, Return, CharInput, Char, Digit
<1>3. /\ Good(stream) /\ stream.pos < Len(text) /\ text[stream.pos + 1] = "0"
      /\ Ahead.rest = stream /\ Verdict = "none" /\ CutOff = stream.pos
  BY <1>1, <1>2, NextIs
<1>4. text \in Seq(Char) /\ Located(stream) /\ stream.pos \in Nat /\ Len(text) \in Nat
  BY InvIs
<1>5. Good(stream') /\ stream'.pos = stream.pos + 1
  BY <1>1, <1>2, <1>3, <1>4, GetPlain
<1>6. /\ CutTo(stream.pos, stream'.pos, <<"zero">>, 0)
      /\ Reference!TextOf(Reference!Piece(stream.pos, stream'.pos)) = <<"0">>
  BY <1>3, <1>4, <1>5, ZeroCut
<1>7. stream'.pos + 0 <= Len(text) /\ <<"0">> \in Seq(CharInput)
  BY <1>2, <1>3, <1>4, <1>5
<1> QED BY <1>1, <1>3, <1>5, <1>6, <1>7, TokenInOneStep

(* Character constants *)

LEMMA CharacterFacts ==
  /\ Nul \notin Escapes /\ Newline \notin Escapes /\ Escapes \cap Ends = {} /\ Escapes \subseteq Char
  /\ {"'", "quote", Backslash} \cap (Ends \cup {Nul, Other}) = {}
  /\ "'" # Backslash /\ "quote" # Backslash /\ {"'", "quote", Backslash} \subseteq CharInput
  /\ Char \subseteq CharInput /\ Nul \notin Char /\ Newline \notin {Nul, Other, Return}
BY DEF Escapes, Nul, Other, Newline, Return, Ends, Backslash, CharInput, Char, Letter, Digit, Quote,
       Blank, Special

LEMMA CharConstantText ==
  ASSUME text \in Seq(Char), NEW i \in Nat, NEW j \in (i + 1)..Len(text)
  PROVE  LET s == Reference!Piece(i, j)
         IN  /\ j = i + 3 => s = <<text[i + 1], text[i + 2], text[i + 3]>>
             /\ j = i + 4 => s = <<text[i + 1], text[i + 2], text[i + 3], text[i + 4]>>
<1>1. PICK s : s = Reference!Piece(i, j)
  OBVIOUS
<1>2. s \in Seq(Char) /\ Len(s) = j - i /\ \A k \in 1..(j - i) : s[k] = text[i + k]
  BY <1>1, PieceText
<1>3. CASE j = i + 3
  <2>1. Len(s) = 3 /\ s[1] = text[i + 1] /\ s[2] = text[i + 2] /\ s[3] = text[i + 3]
    BY <1>2, <1>3
  <2> QED BY <1>1, <1>2, <1>3, <2>1, Longhand
<1>4. CASE j = i + 4
  <2>1. Len(s) = 4 /\ s[1] = text[i + 1] /\ s[2] = text[i + 2] /\ s[3] = text[i + 3] /\ s[4] = text[i + 4]
    BY <1>2, <1>4
  <2> QED BY <1>1, <1>2, <1>4, <2>1, Longhand
<1> QED BY <1>1, <1>3, <1>4

ShortConstant(i) == i + 3 <= Len(text) /\ text[i + 2] \notin {"'", Backslash} \cup Ends /\ text[i + 3] = "'"
LongConstant(i) ==
  i + 4 <= Len(text) /\ text[i + 2] = Backslash /\ text[i + 3] \in Escapes /\ text[i + 4] = "'"

LEMMA ReadCharConstantIs ==
  ASSUME Inv, ReadCharConstant
  PROVE  Step /\ LoopsReadTheirTokens'
<1>1. pc = "next" /\ Ahead.char = "'" /\ UNCHANGED text
  BY DEF ReadCharConstant
<1>2. PICK open : open = Get(Ahead.rest)
  OBVIOUS
<1>3. PICK first : first = Get(open.rest)
  OBVIOUS
<1>4. PICK inner : inner = IF first.char = Backslash THEN Get(first.rest) ELSE first
  OBVIOUS
<1>5. PICK close : close = Get(inner.rest)
  OBVIOUS
<1>6. FinishCharConstant(first, inner, close)
  BY <1>2, <1>3, <1>4, <1>5 DEF ReadCharConstant
<1>7. Ahead.char \notin {Nul, Other} \cup Ends
  BY <1>1, CharacterFacts
<1>8. /\ Good(stream) /\ stream.pos < Len(text) /\ text[stream.pos + 1] = "'"
      /\ Ahead.rest = stream /\ Verdict = "none" /\ CutOff = stream.pos
  BY <1>1, <1>7, NextIs
<1>9. text \in Seq(Char) /\ Located(stream) /\ stream.pos \in Nat /\ Len(text) \in Nat /\ Named
  BY InvIs
<1>10. PICK i \in Nat : i = stream.pos
  BY <1>9
<1>11. i < Len(text) /\ text[i + 1] = "'"
  BY <1>8, <1>10
<1>12. Good(open.rest) /\ open.rest.pos = i + 1 /\ Located(open.rest)
  BY <1>1, <1>2, <1>7, <1>8, <1>9, <1>10, GetPlain
\* The character behind the quote.
<1> DEFINE plain2 == i + 2 <= Len(text) /\ text[i + 2] \notin Ends
           plain3 == i + 3 <= Len(text) /\ text[i + 3] \notin Ends
           plain4 == i + 4 <= Len(text) /\ text[i + 4] \notin Ends
<1>13. /\ plain2 => first.char = text[i + 2] /\ Good(first.rest) /\ first.rest.pos = i + 2 /\ Located(first.rest)
       /\ ~plain2 => first.char \in {Nul, Newline}
  <2>1. (i + 1) + 1 = i + 2 /\ (i + 1 < Len(text) <=> i + 2 <= Len(text))
    BY <1>9
  <2> QED BY <1>3, <1>9, <1>12, <2>1, GetPlain
<1>14. \A s : Located(s) /\ Good(s) /\ s.pos = i + 2 =>
         /\ plain3 => Get(s).char = text[i + 3] /\ Good(Get(s).rest) /\ Get(s).rest.pos = i + 3
                      /\ Located(Get(s).rest)
         /\ ~plain3 => Get(s).char \in {Nul, Newline}
  <2>1. (i + 2) + 1 = i + 3 /\ (i + 2 < Len(text) <=> i + 3 <= Len(text))
    BY <1>9
  <2> QED BY <1>9, <2>1, GetPlain
<1>15. \A s : Located(s) /\ Good(s) /\ s.pos = i + 3 =>
         /\ plain4 => Get(s).char = text[i + 4] /\ Good(Get(s).rest) /\ Get(s).rest.pos = i + 4
                      /\ Located(Get(s).rest)
         /\ ~plain4 => Get(s).char \in {Nul, Newline}
  <2>1. (i + 3) + 1 = i + 4 /\ (i + 3 < Len(text) <=> i + 4 <= Len(text))
    BY <1>9
  <2> QED BY <1>9, <2>1, GetPlain
<1> DEFINE accepts == /\ first.char \notin {Nul, "'", Newline}
                      /\ first.char = Backslash => inner.char \in Escapes
                      /\ close.char = "'"
<1>16. first.char \notin {Nul, Newline} => plain2 /\ i + 2 <= Len(text)
  BY <1>13
<1>17. ASSUME accepts, first.char # Backslash
       PROVE  /\ ShortConstant(i) /\ close.rest.pos = i + 3 /\ Good(close.rest)
              /\ first.char = text[i + 2]
  <2>1. plain2 /\ inner = first
    BY <1>4, <1>16, <1>17
  <2>2. close.char = "'" /\ close = Get(first.rest)
    BY <1>5, <1>17, <2>1
  <2>3. plain3
    <3> HIDE DEF plain2, plain3
    <3> SUFFICES ASSUME ~plain3 PROVE FALSE
      OBVIOUS
    <3>1. close.char \in {Nul, Newline}
      BY <1>13, <1>14, <2>1, <2>2
    <3>2. "'" \notin {Nul, Newline}
      BY CharacterFacts DEF Ends
    <3> QED BY <2>2, <3>1, <3>2
  <2>4. close.char = text[i + 3] /\ Good(close.rest) /\ close.rest.pos = i + 3
    BY <1>13, <1>14, <2>1, <2>2, <2>3
  <2> QED BY <1>13, <1>17, <2>1, <2>2, <2>3, <2>4 DEF ShortConstant
<1>18. ASSUME accepts, first.char = Backslash
       PROVE  /\ LongConstant(i) /\ close.rest.pos = i + 4 /\ Good(close.rest)
              /\ inner.char = text[i + 3]
  <2>1. plain2 /\ inner = Get(first.rest) /\ inner.char \in Escapes
    BY <1>4, <1>16, <1>18
  <2>2. plain3
    <3> HIDE DEF plain2, plain3
    <3> SUFFICES ASSUME ~plain3 PROVE FALSE
      OBVIOUS
    <3>1. Get(first.rest).char \in {Nul, Newline}
      BY <1>13, <1>14, <2>1
    <3> QED BY <2>1, <3>1, CharacterFacts
  <2>3. inner.char = text[i + 3] /\ Good(inner.rest) /\ inner.rest.pos = i + 3 /\ Located(inner.rest)
    BY <1>13, <1>14, <2>1, <2>2
  <2>4. close.char = "'"
    BY <1>18
  <2>5. plain4
    <3> HIDE DEF plain4
    <3> SUFFICES ASSUME ~plain4 PROVE FALSE
      OBVIOUS
    <3>1. close.char \in {Nul, Newline}
      BY <1>5, <1>15, <2>3
    <3>2. "'" \notin {Nul, Newline}
      BY CharacterFacts DEF Ends
    <3> QED BY <2>4, <3>1, <3>2
  <2>6. close.char = text[i + 4] /\ Good(close.rest) /\ close.rest.pos = i + 4
    BY <1>5, <1>15, <2>3, <2>5
  <2> QED BY <1>13, <1>18, <2>1, <2>3, <2>4, <2>5, <2>6 DEF LongConstant
<1>19. ASSUME ~accepts PROVE ~ShortConstant(i) /\ ~LongConstant(i)
  <2>1. ASSUME ShortConstant(i) PROVE FALSE
    <3>1. plain2 /\ plain3 /\ text[i + 2] \notin {"'", Backslash} \cup Ends /\ text[i + 3] = "'"
      <4>1. i + 2 <= Len(text)
        BY <1>9, <2>1 DEF ShortConstant
      <4> QED BY <2>1, <4>1, CharacterFacts DEF ShortConstant
    <3>2. first.char = text[i + 2] /\ inner = first
      BY <1>4, <1>13, <3>1
    <3>3. close.char = "'"
      BY <1>5, <1>13, <1>14, <3>1, <3>2
    <3>4. first.char \notin {Nul, "'", Newline}
      <4>1. text[i + 2] \in Char
        BY <1>9, <3>1
      <4> QED BY <3>1, <3>2, <4>1, CharacterFacts DEF Ends
    <3> QED BY <1>19, <3>1, <3>2, <3>3, <3>4
  <2>2. ASSUME LongConstant(i) PROVE FALSE
    <3>1. plain2 /\ plain3 /\ plain4 /\ text[i + 2] = Backslash /\ text[i + 3] \in Escapes /\ text[i + 4] = "'"
      <4>1. i + 2 <= Len(text) /\ i + 3 <= Len(text)
        BY <1>9, <2>2 DEF LongConstant
      <4> QED BY <2>2, <4>1, CharacterFacts DEF LongConstant
    <3>2. first.char = Backslash /\ inner = Get(first.rest)
      BY <1>4, <1>13, <3>1
    <3>3. inner.char = text[i + 3] /\ Good(inner.rest) /\ inner.rest.pos = i + 3 /\ Located(inner.rest)
      BY <1>13, <1>14, <3>1, <3>2
    <3>4. close.char = "'"
      BY <1>5, <1>15, <3>1, <3>3
    <3>5. first.char \notin {Nul, "'", Newline}
      BY <3>2, CharacterFacts DEF Ends
    <3> QED BY <1>19, <3>1, <3>3, <3>4, <3>5
  <2> QED BY <2>1, <2>2
<1>20. accepts => /\ stream' = close.rest
                  /\ Return_(stream, <<"character">>,
                       IF first.char = Backslash THEN <<"'", Backslash, inner.char, "'">>
                                                 ELSE <<"'", first.char, "'">>)
  BY <1>6 DEF FinishCharConstant
<1>21. ~accepts => stream' = Ahead.rest /\ Stop("failed")
  BY <1>6 DEF FinishCharConstant
<1> HIDE DEF accepts, plain2, plain3, plain4
<1>22. ASSUME NEW n \in {3, 4}, i + n <= Len(text), Reference!IsCharacter(Reference!Piece(i, i + n)),
              stream'.pos = i + n, Good(stream'),
              Return_(stream, <<"character">>, Reference!Piece(i, i + n))
       PROVE  Step /\ LoopsReadTheirTokens'
  <2>1. i + n \in (i + 1)..Len(text)
    BY <1>9, <1>22
  <2>2. /\ CutTo(i, i + n, <<"character">>, 0)
        /\ Reference!TextOf(Reference!Piece(i, i + n)) = Reference!Piece(i, i + n)
    BY <1>9, <1>22, <2>1, CharacterCut
  <2>3. Reference!Piece(i, i + n) \in Seq(CharInput)
    <3>1. Reference!Piece(i, i + n) \in Seq(Char)
      BY <1>9, <2>1, PieceText
    <3> QED BY <3>1 DEF CharInput
  <2>4. stream'.pos + 0 <= Len(text)
    BY <1>22
  <2> QED BY <1>1, <1>8, <1>10, <1>22, <2>2, <2>3, <2>4, TokenInOneStep
<1>23. CASE accepts /\ first.char # Backslash
  <2>1. ShortConstant(i) /\ close.rest.pos = i + 3 /\ Good(close.rest) /\ first.char = text[i + 2]
    BY <1>17, <1>23
  <2>2. i + 3 \in (i + 1)..Len(text)
    BY <1>9, <2>1 DEF ShortConstant
  <2>3. Reference!IsCharacter(Reference!Piece(i, i + 3))
    BY <1>9, <1>11, <2>1, <2>2, CharacterIs DEF ShortConstant
  <2>4. Reference!Piece(i, i + 3) = <<"'", first.char, "'">>
    BY <1>9, <1>11, <2>1, <2>2, CharConstantText DEF ShortConstant
  <2>5. stream' = close.rest /\ Return_(stream, <<"character">>, Reference!Piece(i, i + 3))
    BY <1>20, <1>23, <2>4
  <2> QED BY <1>22, <2>1, <2>2, <2>3, <2>5
<1>24. CASE accepts /\ first.char = Backslash
  <2>1. LongConstant(i) /\ close.rest.pos = i + 4 /\ Good(close.rest) /\ inner.char = text[i + 3]
    BY <1>18, <1>24
  <2>2. i + 4 \in (i + 1)..Len(text)
    BY <1>9, <2>1 DEF LongConstant
  <2>3. Reference!IsCharacter(Reference!Piece(i, i + 4))
    BY <1>9, <1>11, <2>1, <2>2, CharacterIs DEF LongConstant
  <2>4. Reference!Piece(i, i + 4) = <<"'", Backslash, inner.char, "'">>
    BY <1>9, <1>11, <2>1, <2>2, CharConstantText DEF LongConstant
  <2>5. stream' = close.rest /\ Return_(stream, <<"character">>, Reference!Piece(i, i + 4))
    BY <1>20, <1>24, <2>4
  <2> QED BY <1>22, <2>1, <2>2, <2>3, <2>5
<1>25. CASE ~accepts
  <2>1. Stop("failed")
    BY <1>21, <1>25
  <2>2. ~Reference!CanCut(i)
    BY <1>9, <1>11, <1>19, <1>25, NoCharacter DEF ShortConstant, LongConstant
  <2>3. UNCHANGED <<text, tokens, pool>> /\ Verdict' = "refused" /\ LoopsReadTheirTokens'
    BY <1>1, <1>9, <2>1, Stopped
  <2> QED BY <1>8, <1>9, <1>10, <2>2, <2>3, RefuseStep
<1> QED BY <1>23, <1>24, <1>25

(* String literals *)

\* What a loop over a string or a comment keeps.
LEMMA LoopIs ==
  ASSUME Inv, pc \in LoopPc \ {"next"}
  PROVE  /\ Good(start) /\ start.pos < Len(text) /\ CutOff = start.pos /\ Stands(start, start.pos)
         /\ Good(stream) \/ stream.eof => Verdict = "none"
<1>1. Good(start) /\ start.pos < Len(text)
  BY DEF Inv, LoopsReadTheirTokens
<1>2. Stands(start, start.pos)
  BY <1>1, InvIs DEF Stands, Located, InFile
<1> QED BY <1>1, <1>2 DEF CutOff, Verdict, LoopPc, Good

LEMMA StringLoop ==
  ASSUME pc' = "string", Named', Good(start'), start'.pos < Len(text'), CollectsString'
  PROVE  LoopsReadTheirTokens'
BY DEF LoopsReadTheirTokens, Loop, Named, Good, LoopPc

LEMMA StartStringIs ==
  ASSUME Inv, StartString
  PROVE  Step /\ LoopsReadTheirTokens'
<1>1. /\ pc = "next" /\ Ahead.char = "quote" /\ start' = stream /\ pc' = "string" /\ symbol' = <<>>
      /\ stream' = Get(Ahead.rest).rest /\ UNCHANGED <<text, tokens, pool>>
  BY DEF StartString, Continue
<1>2. Ahead.char \notin {Nul, Other} \cup Ends
  BY <1>1, CharacterFacts
<1>3. /\ Good(stream) /\ stream.pos < Len(text) /\ text[stream.pos + 1] = "quote"
      /\ Ahead.rest = stream /\ Verdict = "none" /\ CutOff = stream.pos
  BY <1>1, <1>2, NextIs
<1>4. text \in Seq(Char) /\ Located(stream) /\ stream.pos \in Nat /\ Len(text) \in Nat /\ Named
  BY InvIs
<1>5. Good(stream') /\ stream'.pos = stream.pos + 1
  BY <1>1, <1>2, <1>3, <1>4, GetPlain
<1>6. Step /\ Named'
  BY <1>1, <1>3, <1>4, <1>5, LoopStutters DEF LoopPc
<1>7. /\ OpenString(stream.pos, stream.pos + 1)
      /\ Reference!TextOf(Reference!Piece(stream.pos, stream.pos + 1)) = <<"quote">>
  BY <1>3, <1>4, StringStarts
<1>8. <<"quote">> \o <<>> = <<"quote">>
  OBVIOUS
<1>9. CollectsString'
  <2>1. Good(stream)' /\ start'.pos < stream'.pos
    BY <1>1, <1>4, <1>5 DEF Good
  <2>2. OpenString(start.pos, stream.pos)'
    BY <1>1, <1>5, <1>7 DEF OpenString, StringChar, Esc, Reference!Piece
  <2>3. (Reference!TextOf(Reference!Piece(start.pos, stream.pos)) = <<"quote">> \o symbol)'
    BY <1>1, <1>5, <1>7, <1>8 DEF Reference!Piece
  <2> QED BY <2>1, <2>2, <2>3 DEF CollectsString
<1> QED BY <1>1, <1>3, <1>6, <1>9, StringLoop DEF Good

\* A string goes on: its characters, all but the \n behind a \r, are collected.
LEMMA StringTurn ==
  ASSUME Inv, pc = "string", UNCHANGED <<text, tokens, pool, start, pc>>,
         Good(stream') \/ (stream'.eof /\ stream'.pos = Len(text)), NEW j \in Nat, stream'.pos = j, start.pos < j, OpenString(start.pos, j),
         Reference!TextOf(Reference!Piece(start.pos, j)) = <<"quote">> \o symbol'
  PROVE  Step /\ LoopsReadTheirTokens'
<1>1. CollectsString
  BY DEF Inv, LoopsReadTheirTokens, Loop
<1>2. Good(start) /\ start.pos < Len(text) /\ Verdict = "none" /\ CutOff = start.pos /\ Named
  BY <1>1, LoopIs, InvIs DEF LoopPc, CollectsString
<1>3. Step /\ Named'
  BY <1>2, LoopStutters DEF LoopPc
<1>4. CollectsString'
  <2>1. OpenString(start.pos, stream.pos)'
    BY DEF OpenString, StringChar, Esc, Reference!Piece
  <2>2. (Reference!TextOf(Reference!Piece(start.pos, stream.pos)) = <<"quote">> \o symbol)'
    BY DEF Reference!Piece
  <2> QED BY <2>1, <2>2 DEF CollectsString, Good
<1> QED BY <1>2, <1>3, <1>4, StringLoop DEF Good

LEMMA Joined ==
  ASSUME NEW S, NEW a \in S, NEW s \in Seq(S), NEW c \in S, NEW d \in S
  PROVE  /\ <<a>> \o Append(s, c) = Append(<<a>> \o s, c)
         /\ <<a>> \o (s \o <<c, d>>) = Append(Append(<<a>> \o s, c), d)
         /\ (<<a>> \o s) \o <<c>> = Append(<<a>> \o s, c)
         /\ <<a>> \o s \in Seq(S) /\ Append(s, c) \in Seq(S) /\ s \o <<c, d>> \in Seq(S)
<1>1. <<a>> \o s \in Seq(S) /\ Append(s, c) \in Seq(S) /\ <<c, d>> \in Seq(S) /\ <<a>> \in Seq(S)
  OBVIOUS
<1>2. s \o <<c, d>> \in Seq(S)
  BY <1>1
<1>3. <<a>> \o Append(s, c) = Append(<<a>> \o s, c)
  <2>1. PICK t : t = <<a>> \o Append(s, c)
    OBVIOUS
  <2>2. PICK u : u = Append(<<a>> \o s, c)
    OBVIOUS
  <2>3. t \in Seq(S) /\ u \in Seq(S)
    BY <1>1, <2>1, <2>2
  <2>4. Len(t) = Len(u) /\ \A k \in 1..Len(t) : t[k] = u[k]
    BY <1>1, <2>1, <2>2
  <2> QED BY ONLY <2>1, <2>2, <2>3, <2>4, SeqEqual
<1>4. <<a>> \o (s \o <<c, d>>) = Append(Append(<<a>> \o s, c), d)
  <2>1. PICK t : t = <<a>> \o (s \o <<c, d>>)
    OBVIOUS
  <2>2. PICK v : v = Append(<<a>> \o s, c)
    OBVIOUS
  <2>3. PICK u : u = Append(v, d)
    OBVIOUS
  <2>4. PICK w : w = s \o <<c, d>>
    OBVIOUS
  <2>5. PICK n \in Nat : n = Len(s)
    OBVIOUS
  <2>6. /\ w \in Seq(S) /\ Len(w) = n + 2 /\ w[n + 1] = c /\ w[n + 2] = d
        /\ \A k \in 1..n : w[k] = s[k]
    BY <1>2, <2>4, <2>5
  <2>7. t \in Seq(S) /\ Len(t) = n + 3 /\ t[1] = a /\ \A k \in 1..(n + 2) : t[k + 1] = w[k]
    BY <2>1, <2>4, <2>6
  <2>8. v \in Seq(S) /\ Len(v) = n + 2 /\ v[1] = a /\ v[n + 2] = c /\ \A k \in 1..n : v[k + 1] = s[k]
    BY <1>1, <2>2, <2>5
  <2>9. u \in Seq(S) /\ Len(u) = n + 3 /\ u[n + 3] = d /\ \A k \in 1..(n + 2) : u[k] = v[k]
    BY <2>3, <2>8
  <2>10. \A k \in 1..(n + 3) : t[k] = u[k]
    <3> TAKE k \in 1..(n + 3)
    <3>1. CASE k = 1
      BY <2>7, <2>8, <2>9, <3>1
    <3>2. CASE k \in 2..(n + 1)
      <4>1. k - 1 \in 1..n /\ (k - 1) + 1 = k /\ k \in 1..(n + 2) /\ k - 1 \in 1..(n + 2)
        BY <3>2
      <4>2. t[k] = w[k - 1] /\ w[k - 1] = s[k - 1] /\ v[k] = s[k - 1] /\ u[k] = v[k]
        BY <2>6, <2>7, <2>8, <2>9, <4>1
      <4> QED BY <4>2
    <3>3. CASE k = n + 2
      BY <2>6, <2>7, <2>8, <2>9, <3>3
    <3>4. CASE k = n + 3
      BY <2>6, <2>7, <2>9, <3>4
    <3> QED BY <3>1, <3>2, <3>3, <3>4
  <2> QED BY ONLY <2>1, <2>2, <2>3, <2>4, <2>7, <2>9, <2>10, SeqEqual
<1>5. (<<a>> \o s) \o <<c>> = Append(<<a>> \o s, c)
  <2>1. PICK t : t = (<<a>> \o s) \o <<c>>
    OBVIOUS
  <2>2. PICK u : u = Append(<<a>> \o s, c)
    OBVIOUS
  <2>3. t \in Seq(S) /\ u \in Seq(S)
    BY <1>1, <2>1, <2>2
  <2>4. Len(t) = Len(u) /\ \A k \in 1..Len(t) : t[k] = u[k]
    BY <1>1, <2>1, <2>2
  <2> QED BY ONLY <2>1, <2>2, <2>3, <2>4, SeqEqual
<1> QED BY <1>1, <1>2, <1>3, <1>4, <1>5

\* The next character of a string.
LEMMA InString ==
  ASSUME Inv, pc = "string"
  PROVE  /\ CollectsString /\ start.pos \in Nat /\ stream.pos \in (start.pos + 1)..Len(text)
         /\ Ahead.char # Nul => /\ Good(stream) /\ stream.pos < Len(text)
                                /\ Ahead.char = text[stream.pos + 1] /\ Ahead.rest = stream
                                /\ Ahead.char \in Char
         /\ Ahead.char = Nul => stream.pos = Len(text)
         /\ Verdict = "none" /\ CutOff = start.pos /\ Stands(start, start.pos)
<1>1. CollectsString
  BY DEF Inv, LoopsReadTheirTokens, Loop
<1>2. start.pos \in Nat /\ stream.pos \in (start.pos + 1)..Len(text)
  BY <1>1, InvIs DEF CollectsString
<1>3. Verdict = "none" /\ CutOff = start.pos /\ Stands(start, start.pos)
  BY <1>1, LoopIs DEF CollectsString, LoopPc
<1>4. CASE Good(stream) /\ stream.pos < Len(text)
  BY <1>1, <1>2, <1>3, <1>4, AheadIs, CharacterFacts
<1>5. CASE stream.pos = Len(text)
  BY <1>1, <1>2, <1>3, <1>5, AheadIs DEF CollectsString
<1> QED BY <1>1, <1>2, <1>4, <1>5 DEF CollectsString

LEMMA ReadStringIs ==
  ASSUME Inv, ReadString
  PROVE  Step /\ LoopsReadTheirTokens'
<1>1. /\ pc = "string" /\ Ahead.char \notin {"quote", Nul, Newline, Backslash}
      /\ stream' = Get(Ahead.rest).rest /\ symbol' = Append(symbol, Ahead.char)
      /\ UNCHANGED <<text, tokens, pool, start, pc>>
  BY DEF ReadString, Continue
<1>2. /\ CollectsString /\ start.pos \in Nat /\ stream.pos \in (start.pos + 1)..Len(text)
      /\ Good(stream) /\ stream.pos < Len(text)
      /\ Ahead.char = text[stream.pos + 1] /\ Ahead.rest = stream /\ Ahead.char \in Char
  BY <1>1, InString
<1>3. text \in Seq(Char) /\ Located(stream) /\ Len(text) \in Nat /\ symbol \in Seq(CharInput)
  BY InvIs
<1>4. PICK i \in Nat : i = start.pos
  BY <1>2
<1>5. PICK j \in (i + 1)..Len(text) : j = stream.pos
  BY <1>2, <1>4
<1>6. PICK c \in Char : c = text[j + 1]
  BY <1>2, <1>5
<1>7. OpenString(i, j) /\ Reference!TextOf(Reference!Piece(i, j)) = <<"quote">> \o symbol
  BY <1>2, <1>4, <1>5 DEF CollectsString
<1>8. c \notin {"quote", Newline, Backslash} /\ j < Len(text) /\ symbol' = Append(symbol, c)
  BY <1>1, <1>2, <1>5, <1>6
<1>9. OpenString(i, j + 1)
  BY <1>3, <1>6, <1>7, <1>8, StringGoesOn
<1>10. /\ j + 1 \in (i + 1)..Len(text)
       /\ Reference!TextOf(Reference!Piece(i, j + 1)) = <<"quote">> \o symbol'
  <2>1. <<"quote">> \o Append(symbol, c) = Append(<<"quote">> \o symbol, c)
    <3>1. "quote" \in CharInput /\ c \in CharInput
      BY <1>6, CharacterFacts
    <3> QED BY <1>3, <3>1, Joined
  <2> QED BY <1>3, <1>6, <1>7, <1>8, <2>1, TextGrows
<1>11. CASE c \notin Ends
  <2>1. Good(stream') /\ stream'.pos = j + 1
    BY <1>1, <1>2, <1>3, <1>5, <1>6, <1>8, <1>11, GetPlain
  <2>2. i < j + 1 /\ j + 1 \in Nat
    OBVIOUS
  <2> QED BY <1>1, <1>4, <1>9, <1>10, <2>1, <2>2, StringTurn
<1>12. CASE c = Return
  <2> DEFINE n == IF j + 2 <= Len(text) /\ text[j + 2] = Newline THEN j + 2 ELSE j + 1
  <2>1. stream'.pos = n /\ (Good(stream') \/ Ended(stream'))
    BY <1>1, <1>2, <1>3, <1>5, <1>6, <1>8, <1>12, GetGood DEF Ends
  <2>2. Good(stream') \/ (stream'.eof /\ stream'.pos = Len(text))
    BY <2>1 DEF Ended
  <2>3. CASE j + 2 <= Len(text) /\ text[j + 2] = Newline
    <3>1. (j + 1) + 1 = j + 2 /\ j + 1 < Len(text) /\ n = j + 2 /\ i < j + 2 /\ j + 2 \in Nat
      BY <1>3, <2>3
    <3>2. text[j + 2] \notin {"quote", Backslash} /\ text[j + 1] = Return
      BY <1>6, <1>12, <2>3, CharacterFacts DEF Ends
    <3>3. OpenString(i, j + 2)
      BY <1>3, <1>9, <1>10, <3>1, <3>2, StringGoesOn
    <3>4. Reference!TextOf(Reference!Piece(i, j + 2)) = <<"quote">> \o symbol'
      BY <1>3, <1>10, <2>3, <3>1, TextGrows
    <3> HIDE DEF n
    <3> QED BY <1>1, <1>4, <2>1, <2>2, <3>1, <3>3, <3>4, StringTurn
  <2>4. CASE ~(j + 2 <= Len(text) /\ text[j + 2] = Newline)
    <3>1. n = j + 1 /\ i < j + 1 /\ j + 1 \in Nat
      BY <2>4
    <3> HIDE DEF n
    <3> QED BY <1>1, <1>4, <1>9, <1>10, <2>1, <2>2, <3>1, StringTurn
  <2> QED BY <2>3, <2>4
<1> QED BY <1>8, <1>11, <1>12 DEF Ends

LEMMA ReadEscapeIs ==
  ASSUME Inv, ReadEscape
  PROVE  Step /\ LoopsReadTheirTokens'
<1>1. pc = "string" /\ Ahead.char = Backslash /\ start' = start
  BY DEF ReadEscape
<1>2. PICK escape : escape = Get(Get(Ahead.rest).rest)
  OBVIOUS
<1>3. IF escape.char \in Escapes
      THEN Continue("string", escape.rest, symbol \o <<Backslash, escape.char>>)
      ELSE stream' = escape.rest /\ Stop("failed") /\ UNCHANGED text
  BY <1>2 DEF ReadEscape
<1>4. Backslash \notin {Nul, Other} \cup Ends /\ Backslash # Newline
  BY CharacterFacts DEF Ends
<1>5. /\ CollectsString /\ start.pos \in Nat /\ stream.pos \in (start.pos + 1)..Len(text)
      /\ Good(stream) /\ stream.pos < Len(text)
      /\ text[stream.pos + 1] = Backslash /\ Ahead.rest = stream
      /\ Verdict = "none" /\ CutOff = start.pos
  BY <1>1, <1>4, InString
<1>6. text \in Seq(Char) /\ Located(stream) /\ Len(text) \in Nat /\ symbol \in Seq(CharInput) /\ Named
  BY InvIs
<1>7. PICK i \in Nat : i = start.pos
  BY <1>5
<1>8. PICK j \in (i + 1)..Len(text) : j = stream.pos
  BY <1>5, <1>7
<1>9. OpenString(i, j) /\ Reference!TextOf(Reference!Piece(i, j)) = <<"quote">> \o symbol
  BY <1>5, <1>7, <1>8 DEF CollectsString
<1>10. j < Len(text) /\ text[j + 1] = Backslash
  BY <1>5, <1>8
<1>11. PICK s : s = Get(stream).rest
  OBVIOUS
<1>12. Located(s) /\ Good(s) /\ s.pos = j + 1
  BY <1>4, <1>5, <1>6, <1>8, <1>11, GetPlain
<1>13. escape = Get(s)
  BY <1>2, <1>5, <1>11
<1> DEFINE plain == j + 2 <= Len(text) /\ text[j + 2] \notin Ends
<1>14. /\ plain => escape.char = text[j + 2] /\ Good(escape.rest) /\ escape.rest.pos = j + 2
       /\ ~plain => escape.char \in {Nul, Newline}
  <2>1. (j + 1) + 1 = j + 2 /\ (j + 1 < Len(text) <=> j + 2 <= Len(text))
    BY <1>6
  <2> QED BY <1>6, <1>12, <1>13, <2>1, GetPlain
<1>15. CASE escape.char \in Escapes
  <2>1. plain
    <3> HIDE DEF plain
    <3> QED BY <1>14, <1>15, CharacterFacts
  <2>2. PICK e \in Escapes : e = text[j + 2]
    BY <1>14, <1>15, <2>1
  <2>3. j + 2 <= Len(text) /\ escape.char = e /\ Good(escape.rest) /\ escape.rest.pos = j + 2
    BY <1>14, <2>1, <2>2
  <2>4. /\ stream' = escape.rest /\ pc' = pc /\ symbol' = symbol \o <<Backslash, e>>
        /\ UNCHANGED <<text, tokens, pool>>
    BY <1>1, <1>3, <1>15, <2>3 DEF Continue
  <2>5. OpenString(i, j + 2)
    BY <1>6, <1>9, <1>10, <2>2, <2>3, EscapeGoesOn
  <2>6. e # Newline /\ e \in CharInput /\ Backslash \in CharInput /\ "quote" \in CharInput
    BY <2>2, CharacterFacts DEF Ends
  <2>7. Reference!TextOf(Reference!Piece(i, j + 2)) = <<"quote">> \o symbol'
    <3>1. j + 1 \in (i + 1)..Len(text) /\ j + 1 < Len(text) /\ (j + 1) + 1 = j + 2
      BY <1>6, <2>3
    <3>2. Reference!TextOf(Reference!Piece(i, j + 1)) = Append(<<"quote">> \o symbol, Backslash)
      BY <1>4, <1>6, <1>9, <1>10, TextGrows
    <3>3. Reference!TextOf(Reference!Piece(i, j + 2)) =
            Append(Reference!TextOf(Reference!Piece(i, j + 1)), e)
      BY <1>6, <2>2, <2>6, <3>1, TextGrows
    <3>4. <<"quote">> \o (symbol \o <<Backslash, e>>) = Append(Append(<<"quote">> \o symbol, Backslash), e)
      BY <1>6, <2>6, Joined
    <3> QED BY <2>4, <3>2, <3>3, <3>4
  <2>8. i < j + 2 /\ j + 2 \in Nat
    OBVIOUS
  <2> QED BY <1>1, <1>7, <2>3, <2>4, <2>5, <2>7, <2>8, StringTurn
<1>16. CASE escape.char \notin Escapes
  <2>1. Stop("failed") /\ UNCHANGED text
    BY <1>3, <1>16
  <2>2. ~(j + 2 <= Len(text) /\ text[j + 2] \in Escapes)
    <3> SUFFICES ASSUME j + 2 <= Len(text), text[j + 2] \in Escapes PROVE FALSE
      OBVIOUS
    <3>1. plain
      BY CharacterFacts
    <3> QED BY <1>14, <1>16, <3>1
  <2>3. ~Reference!CanCut(i)
    BY <1>6, <1>9, <1>10, <2>2, NoString
  <2>4. UNCHANGED <<text, tokens, pool>> /\ Verdict' = "refused" /\ LoopsReadTheirTokens'
    BY <1>6, <2>1, Stopped
  <2>5. i < Len(text)
    OBVIOUS
  <2> QED BY <1>5, <1>6, <1>7, <2>3, <2>4, <2>5, RefuseStep
<1> QED BY <1>15, <1>16

LEMMA UnclosedStringIs ==
  ASSUME Inv, UnclosedString
  PROVE  Step /\ LoopsReadTheirTokens'
<1>1. pc = "string" /\ Ahead.char \in {Nul, Newline} /\ Stop("failed") /\ UNCHANGED text
  BY DEF UnclosedString
<1>2. /\ CollectsString /\ start.pos \in Nat /\ stream.pos \in (start.pos + 1)..Len(text)
      /\ Verdict = "none" /\ CutOff = start.pos
  BY <1>1, InString
<1>3. text \in Seq(Char) /\ Len(text) \in Nat /\ Named
  BY InvIs
<1>4. PICK i \in Nat : i = start.pos
  BY <1>2
<1>5. PICK j \in (i + 1)..Len(text) : j = stream.pos
  BY <1>2, <1>4
<1>6. OpenString(i, j) /\ i < Len(text)
  BY <1>2, <1>3, <1>4, <1>5 DEF CollectsString
<1>7. j = Len(text) \/ (j < Len(text) /\ text[j + 1] = Newline /\ text[j] # Return)
  <2>1. CASE Ahead.char = Nul
    BY <1>1, <1>5, <2>1, InString
  <2>2. CASE Ahead.char = Newline
    <3>1. Ahead.char # Nul
      BY <2>2, CharacterFacts
    <3>2. Good(stream) /\ j < Len(text) /\ text[j + 1] = Newline
      BY <1>1, <1>5, <2>2, <3>1, InString
    <3>3. ~Splits(j)
      BY <1>5, <3>2, InvIs
    <3> QED BY <3>2, <3>3 DEF Splits
  <2> QED BY <1>1, <2>1, <2>2
<1>8. ~Reference!CanCut(i)
  BY <1>3, <1>6, <1>7, NoString
<1>9. UNCHANGED <<text, tokens, pool>> /\ Verdict' = "refused" /\ LoopsReadTheirTokens'
  BY <1>1, <1>3, Stopped
<1> QED BY <1>2, <1>3, <1>4, <1>6, <1>8, <1>9, RefuseStep

LEMMA EndStringIs ==
  ASSUME Inv, EndString
  PROVE  Step /\ LoopsReadTheirTokens'
<1>1. /\ pc = "string" /\ Ahead.char = "quote" /\ stream' = Get(Ahead.rest).rest /\ UNCHANGED <<text, start>>
      /\ Return_(start, <<"string">>, <<"quote">> \o symbol \o <<"quote">>)
  BY DEF EndString
<1>2. Ahead.char \notin {Nul, Other} \cup Ends /\ "quote" # Newline
  BY <1>1, CharacterFacts DEF Ends
<1>3. /\ CollectsString /\ start.pos \in Nat /\ stream.pos \in (start.pos + 1)..Len(text)
      /\ Good(stream) /\ stream.pos < Len(text) /\ text[stream.pos + 1] = "quote" /\ Ahead.rest = stream
      /\ Verdict = "none" /\ CutOff = start.pos /\ Stands(start, start.pos)
  BY <1>1, <1>2, InString
<1>4. text \in Seq(Char) /\ Located(stream) /\ Len(text) \in Nat /\ symbol \in Seq(CharInput) /\ Named
      /\ LexerTypeOK
  BY InvIs
<1>5. PICK i \in Nat : i = start.pos
  BY <1>3
<1>6. PICK j \in (i + 1)..Len(text) : j = stream.pos
  BY <1>3, <1>5
<1>7. /\ OpenString(i, j) /\ Reference!TextOf(Reference!Piece(i, j)) = <<"quote">> \o symbol
      /\ j < Len(text) /\ text[j + 1] = "quote"
  BY <1>3, <1>5, <1>6 DEF CollectsString
<1>8. Good(stream') /\ stream'.pos = j + 1
  BY <1>1, <1>2, <1>3, <1>4, <1>6, GetPlain
<1>9. PICK str : str = (<<"quote">> \o symbol) \o <<"quote">>
  OBVIOUS
<1>10. /\ str \in Seq(CharInput) /\ str = Append(<<"quote">> \o symbol, "quote")
  <2>1. "quote" \in CharInput
    BY CharacterFacts
  <2>2. <<"quote">> \o symbol \in Seq(CharInput) /\ str = Append(<<"quote">> \o symbol, "quote")
    BY <1>4, <1>9, <2>1, Joined
  <2> QED BY <2>1, <2>2
<1>11. str = Reference!TextOf(Reference!Piece(i, j + 1))
  BY <1>2, <1>4, <1>7, <1>10, TextGrows
<1>12. CutTo(i, j + 1, <<"string">>, 0) /\ (j + 1) + 0 <= Len(text)
  BY <1>4, <1>7, StringCut
<1>13. MakeToken(start, <<"string">>, str) /\ pc' = "next"
  BY <1>1, <1>9 DEF Return_
<1>14. Named'
  BY <1>3, <1>4, <1>10, <1>13, TokenIs DEF Stands
<1>15. LoopsReadTheirTokens' /\ CutOff' = j + 1 /\ Verdict' = "none"
  BY <1>1, <1>8, <1>13, <1>14, ToNext
<1> QED BY <1>1, <1>3, <1>4, <1>5, <1>10, <1>11, <1>12, <1>13, <1>15, EmitStep

(* Comments *)

LEMMA SlashAndStar ==
  /\ {"/", "*"} \cap (Ends \cup {Nul, Other}) = {} /\ "/" # "*" /\ {"/", "*"} \subseteq Special
  /\ Nul \notin {"/", "*"}
BY DEF Ends, Newline, Return, Nul, Other, Special

LEMMA CommentLoop ==
  ASSUME Named', Good(start'), start'.pos < Len(text'),
         \/ pc' = "line comment" /\ SkipsLine'
         \/ pc' = "comment" /\ SkipsComment'
         \/ pc' = "stars" /\ SkipsStars'
  PROVE  LoopsReadTheirTokens'
BY DEF LoopsReadTheirTokens, Loop, Named, Good, LoopPc

\* A slash, and what is behind it.
LEMMA SlashAhead ==
  ASSUME Inv, pc = "next", Ahead.char = "/"
  PROVE  /\ Good(stream) /\ stream.pos < Len(text) /\ text[stream.pos + 1] = "/"
         /\ Ahead.rest = stream /\ Verdict = "none" /\ CutOff = stream.pos
         /\ stream.pos + 2 <= Len(text) =>
              BehindSlash.char = text[stream.pos + 2] /\ BehindSlash.rest = stream
         /\ ~(stream.pos + 2 <= Len(text)) => BehindSlash.char = Nul /\ Lost(BehindSlash.rest)
<1>1. Ahead.char \notin {Nul, Other}
  BY SlashAndStar
<1>2. /\ Good(stream) /\ stream.pos < Len(text) /\ text[stream.pos + 1] = "/"
      /\ Ahead.rest = stream /\ Verdict = "none" /\ CutOff = stream.pos
  BY <1>1, NextIs
<1>3. text \in Seq(Char) /\ Located(stream) /\ BehindSlash = Peek(stream, 1)
  BY <1>2, InvIs DEF BehindSlash
<1> QED BY <1>2, <1>3, PeekTwo

LEMMA StartLineCommentIs ==
  ASSUME Inv, StartLineComment
  PROVE  Step /\ LoopsReadTheirTokens'
<1>1. /\ pc = "next" /\ Ahead.char = "/" /\ BehindSlash.char = "/" /\ start' = stream
      /\ pc' = "line comment" /\ stream' = BehindSlash.rest /\ UNCHANGED <<text, tokens, pool>>
  BY DEF StartLineComment, Continue
<1>2. /\ Good(stream) /\ stream.pos < Len(text) /\ text[stream.pos + 1] = "/"
      /\ Verdict = "none" /\ CutOff = stream.pos
      /\ stream.pos + 2 <= Len(text) /\ text[stream.pos + 2] = "/" /\ stream' = stream
  BY <1>1, SlashAhead, SlashAndStar
<1>3. Step /\ Named'
  BY <1>1, <1>2, LoopStutters, InvIs DEF LoopPc
<1>4. SkipsLine'
  <2>1. /\ start' = stream /\ stream' = stream /\ text' = text /\ Good(stream)' /\ stream.pos \in Nat
    BY <1>1, <1>2, InvIs DEF Good
  <2>2. start'.pos <= stream'.pos /\ (start'.pos + 1)..stream'.pos = {}
    BY <2>1
  <2> QED BY <1>2, <2>1, <2>2 DEF SkipsLine
<1> QED BY <1>1, <1>2, <1>3, <1>4, CommentLoop DEF Good

LEMMA ReadLineCommentIs ==
  ASSUME Inv, ReadLineComment
  PROVE  Step /\ LoopsReadTheirTokens'
<1>1. PICK read : read = Get(stream)
  OBVIOUS
<1>2. /\ pc = "line comment" /\ start' = start /\ stream' = read.rest /\ UNCHANGED <<text, tokens, pool>>
      /\ pc' = IF read.char \in {Newline, Nul} THEN "next" ELSE "line comment"
  BY <1>1 DEF ReadLineComment, Continue
<1>3. SkipsLine
  BY <1>2 DEF Inv, LoopsReadTheirTokens, Loop
<1>4. Good(start) /\ start.pos < Len(text) /\ CutOff = start.pos /\ Verdict = "none"
  BY <1>2, <1>3, LoopIs DEF LoopPc, SkipsLine
<1>5. text \in Seq(Char) /\ Located(stream) /\ Len(text) \in Nat /\ Named /\ stream.pos <= Len(text)
      /\ start.pos \in Nat /\ stream.pos \in Nat
  BY InvIs
<1>6. PICK i \in Nat : i = start.pos
  BY <1>5
<1>7. PICK j \in Nat : j = stream.pos
  BY <1>5
<1>8. /\ Good(stream) /\ i <= j /\ i + 2 <= Len(text) /\ text[i + 1] = "/" /\ text[i + 2] = "/"
      /\ \A k \in (i + 1)..j : text[k] \notin Ends
  BY <1>3, <1>6, <1>7 DEF SkipsLine
<1>9. Named'
  BY <1>2, <1>5, SameTokens
<1>10. CASE j = Len(text)
  <2>1. read.char = Nul /\ Ended(read.rest)
    BY <1>1, <1>5, <1>7, <1>8, <1>10, GetAtEnd
  <2>2. pc' = "next" /\ Ended(stream)' /\ stream'.pos = Len(text)
    BY <1>2, <2>1 DEF Ended
  <2>3. LoopsReadTheirTokens' /\ CutOff' = Len(text) /\ Verdict' = "none"
    BY <1>2, <1>9, <2>2, ToNext
  <2>4. SkipTo(i, Len(text))
    BY <1>5, <1>8, <1>10, LineCommentAtEnd
  <2> QED BY <1>2, <1>4, <1>5, <1>6, <2>3, <2>4, SkipStep
<1>11. CASE j < Len(text) /\ text[j + 1] \in Ends
  <2> DEFINE n == IF text[j + 1] = Return /\ j + 2 <= Len(text) /\ text[j + 2] = Newline
                  THEN j + 2 ELSE j + 1
  <2>1. read.char = Newline /\ read.rest.pos = n /\ (Good(read.rest) \/ Ended(read.rest))
    BY <1>1, <1>5, <1>7, <1>8, <1>11, GetGood
  <2>2. pc' = "next" /\ (Good(stream') \/ Ended(stream)') /\ stream'.pos = n
    BY <1>2, <2>1 DEF Ended
  <2>3. SkipTo(i, n)
    <3>1. j + 1 \in (i + 3)..Len(text)
      BY <1>5, <1>8, <1>11, SlashAndStar
    <3>2. PICK m \in (i + 3)..Len(text) : m = j + 1
      BY <3>1
    <3>3. n = IF text[m] = Return /\ m < Len(text) /\ text[m + 1] = Newline THEN m + 1 ELSE m
      <4>1. (j + 1) + 1 = j + 2 /\ (m < Len(text) <=> j + 2 <= Len(text))
        BY <1>5, <3>2
      <4> QED BY <3>2, <4>1
    <3>4. text[m] \in Ends /\ \A k \in (i + 1)..(m - 1) : text[k] \notin Ends
      BY <1>8, <1>11, <3>2
    <3> HIDE DEF n
    <3> QED BY <1>5, <1>8, <3>3, <3>4, LineCommentCut
  <2> HIDE DEF n
  <2>4. LoopsReadTheirTokens' /\ CutOff' = n /\ Verdict' = "none"
    BY <1>2, <1>9, <2>2, ToNext
  <2> QED BY <1>2, <1>4, <1>5, <1>6, <2>3, <2>4, SkipStep
<1>12. CASE j < Len(text) /\ text[j + 1] \notin Ends
  <2>1. read.char = text[j + 1] /\ Good(read.rest) /\ read.rest.pos = j + 1
    BY <1>1, <1>5, <1>7, <1>8, <1>12, GetPlain
  <2>2. read.char \notin {Newline, Nul}
    <3>1. text[j + 1] \in Char
      BY <1>5, <1>12
    <3> QED BY <1>12, <2>1, <3>1, CharacterFacts DEF Ends
  <2>3. pc' = "line comment" /\ Good(stream') /\ stream'.pos = j + 1
    BY <1>2, <2>1, <2>2
  <2>4. Step
    BY <1>2, <1>4, <1>5, <2>3, LoopStutters DEF LoopPc
  <2>5. \A k \in (i + 1)..(j + 1) : text[k] \notin Ends
    BY <1>8, <1>12
  <2>6. SkipsLine'
    <3>1. Good(stream)'
      BY <2>3 DEF Good
    <3>2. start'.pos = i /\ stream'.pos = j + 1 /\ text' = text
      BY <1>2, <1>6, <2>3
    <3>3. i <= j + 1
      BY <1>8
    <3> QED BY <1>8, <2>5, <3>1, <3>2, <3>3 DEF SkipsLine
  <2> QED BY <1>2, <1>4, <1>9, <2>3, <2>4, <2>6, CommentLoop DEF Good
<1> QED BY <1>5, <1>7, <1>10, <1>11, <1>12

LEMMA OpenCommentGrows ==
  ASSUME NEW i \in Nat, NEW j \in Nat, NEW n \in Nat, j <= n, OpenComment(i, j),
         \A k \in j..(n - 1) : k >= i + 3 => ~Closes(k)
  PROVE  OpenComment(i, n)
<1>1. i + 2 <= n
  BY DEF OpenComment
<1>2. \A k \in (i + 3)..(n - 1) : ~Closes(k)
  <2> TAKE k \in (i + 3)..(n - 1)
  <2>1. CASE k < j
    BY <2>1 DEF OpenComment
  <2>2. CASE k >= j
    BY <2>2
  <2> QED BY <2>1, <2>2
<1> QED BY <1>1, <1>2 DEF OpenComment

LEMMA StartCommentIs ==
  ASSUME Inv, StartComment
  PROVE  Step /\ LoopsReadTheirTokens'
<1>1. /\ pc = "next" /\ Ahead.char = "/" /\ BehindSlash.char = "*" /\ start' = stream
      /\ pc' = "comment" /\ stream' = GetStr(BehindSlash.rest, 2).rest /\ UNCHANGED <<text, tokens, pool>>
  BY DEF StartComment, Continue
<1>2. /\ Good(stream) /\ stream.pos < Len(text) /\ text[stream.pos + 1] = "/"
      /\ Verdict = "none" /\ CutOff = stream.pos
      /\ stream.pos + 2 <= Len(text) /\ text[stream.pos + 2] = "*" /\ BehindSlash.rest = stream
  BY <1>1, SlashAhead, SlashAndStar
<1>3. text \in Seq(Char) /\ Located(stream) /\ stream.pos \in Nat /\ Len(text) \in Nat /\ Named
  BY InvIs
<1>4. PICK s : s = Get(stream).rest
  OBVIOUS
<1>5. Located(s) /\ Good(s) /\ s.pos = stream.pos + 1
  BY <1>2, <1>3, <1>4, GetPlain, SlashAndStar
<1>6. Good(Get(s).rest) /\ Get(s).rest.pos = stream.pos + 2
  <2>1. s.pos < Len(text) /\ text[s.pos + 1] = "*" /\ s.pos + 1 = stream.pos + 2
    BY <1>2, <1>3, <1>5
  <2>2. "*" \notin Ends
    BY SlashAndStar
  <2> QED BY <1>3, <1>5, <2>1, <2>2, GetPlain
<1>7. stream' = Get(s).rest
  <2>1. GetStr(stream, 2) = [chars |-> <<Get(stream).char, Get(s).char>>, rest |-> Get(s).rest]
    BY <1>4 DEF GetStr
  <2> QED BY <1>1, <1>2, <2>1
<1>8. Good(stream') /\ stream'.pos = stream.pos + 2
  BY <1>6, <1>7
<1>9. Step /\ Named'
  BY <1>1, <1>2, <1>3, <1>8, LoopStutters DEF LoopPc
<1>10. SkipsComment'
  <2>1. OpenComment(start.pos, stream.pos)'
    <3>1. start'.pos + 2 <= stream'.pos /\ text'[start'.pos + 1] = "/" /\ text'[start'.pos + 2] = "*"
      BY <1>1, <1>2, <1>3, <1>8
    <3>2. (start'.pos + 3)..(stream'.pos - 1) = {}
      BY <1>1, <1>3, <1>8
    <3> QED BY <3>1, <3>2 DEF OpenComment
  <2>2. Good(stream)' /\ ~(stream'.pos >= start'.pos + 3)
    BY <1>1, <1>3, <1>8 DEF Good
  <2> QED BY <2>1, <2>2 DEF SkipsComment
<1> QED BY <1>1, <1>2, <1>9, <1>10, CommentLoop DEF Good

\* The comment goes on up to j.
LEMMA CommentTurn ==
  ASSUME Inv, pc \in {"comment", "stars"}, UNCHANGED <<text, tokens, pool, start>>,
         NEW j \in Nat, stream'.pos = j, OpenComment(start.pos, j), Good(stream) \/ stream.eof,
         \/ /\ pc' = "comment" /\ (Good(stream') \/ (stream'.eof /\ j = Len(text)))
            /\ Good(stream') /\ j >= start.pos + 3 => text[j] # "*"
         \/ pc' = "stars" /\ Good(stream') /\ j >= start.pos + 3 /\ text[j] = "*"
  PROVE  Step /\ LoopsReadTheirTokens'
<1>1. Good(start) /\ start.pos < Len(text) /\ CutOff = start.pos /\ Verdict = "none" /\ Named
  BY LoopIs, InvIs DEF LoopPc
<1>2. Step /\ Named'
  BY <1>1, LoopStutters DEF LoopPc
<1>3. OpenComment(start.pos, stream.pos)'
  BY DEF OpenComment, Closes
<1>4. CASE pc' = "comment" /\ (Good(stream') \/ (stream'.eof /\ j = Len(text)))
           /\ (Good(stream') /\ j >= start.pos + 3 => text[j] # "*")
  <2>1. SkipsComment'
    BY <1>3, <1>4 DEF SkipsComment, Good
  <2> QED BY <1>1, <1>2, <1>4, <2>1, CommentLoop DEF Good
<1>5. CASE pc' = "stars" /\ Good(stream') /\ j >= start.pos + 3 /\ text[j] = "*"
  <2>1. SkipsStars'
    BY <1>3, <1>5 DEF SkipsStars, Good
  <2> QED BY <1>1, <1>2, <1>5, <2>1, CommentLoop DEF Good
<1> QED BY <1>4, <1>5

\* Reading in a comment: the place behind the character, or behind the newline.
LEMMA GetInComment ==
  ASSUME text \in Seq(Char), NEW s, Located(s), Good(s), NEW j \in Nat, s.pos = j, j < Len(text)
  PROVE  \E n \in {j + 1, j + 2} :
           /\ Get(s).rest.pos = n /\ n <= Len(text)
           /\ Good(Get(s).rest) \/ (Get(s).rest.eof /\ n = Len(text))
           /\ text[j + 1] \in {"/", "*"} => n = j + 1 /\ Good(Get(s).rest) /\ Get(s).char = text[j + 1]
           /\ text[j + 1] \notin {"/", "*"} =>
                text[n] # "*" /\ text[j + 1] # "*" /\ Get(s).char \notin {"/", "*"}
<1>1. Len(text) \in Nat
  OBVIOUS
<1>2. PICK c \in Char : c = text[j + 1]
  BY <1>1
<1>3. CASE c \notin Ends
  <2>1. Get(s).char = c /\ Good(Get(s).rest) /\ Get(s).rest.pos = j + 1
    BY <1>2, <1>3, GetPlain
  <2>2. j + 1 \in {j + 1, j + 2} /\ j + 1 <= Len(text)
    BY <1>1
  <2>3. c \in {"/", "*"} \/ c \notin {"/", "*"}
    OBVIOUS
  <2> QED BY <1>2, <2>1, <2>2, <2>3
<1>4. CASE c \in Ends
  <2> DEFINE n == IF text[j + 1] = Return /\ j + 2 <= Len(text) /\ text[j + 2] = Newline
                  THEN j + 2 ELSE j + 1
  <2>1. Get(s).char = Newline /\ Get(s).rest.pos = n /\ (Good(Get(s).rest) \/ Ended(Get(s).rest))
    BY <1>2, <1>4, GetGood
  <2>2. n \in {j + 1, j + 2} /\ n <= Len(text) /\ text[n] \in Ends
    BY <1>1, <1>2, <1>4 DEF Ends
  <2> HIDE DEF n
  <2>3. Newline \in Ends
    BY DEF Ends
  <2>4. Newline \notin {"/", "*"} /\ text[n] \notin {"/", "*"} /\ c \notin {"/", "*"}
    BY <1>4, <2>2, <2>3, SlashAndStar
  <2>5. Good(Get(s).rest) \/ (Get(s).rest.eof /\ n = Len(text))
    BY <2>1 DEF Ended
  <2> QED BY <1>2, <2>1, <2>2, <2>4, <2>5
<1> QED BY <1>3, <1>4

LEMMA ReadCommentIs ==
  ASSUME Inv, ReadComment
  PROVE  Step /\ LoopsReadTheirTokens'
<1>1. /\ pc = "comment" /\ Ahead.char # Nul /\ start' = start /\ stream' = Get(Ahead.rest).rest
      /\ pc' = IF Ahead.char = "*" THEN "stars" ELSE "comment"
      /\ UNCHANGED <<text, tokens, pool>>
  BY DEF ReadComment, Continue
<1>2. SkipsComment
  BY <1>1 DEF Inv, LoopsReadTheirTokens, Loop
<1>3. text \in Seq(Char) /\ Located(stream) /\ Len(text) \in Nat /\ stream.pos <= Len(text)
      /\ start.pos \in Nat /\ stream.pos \in Nat
  BY InvIs
<1>4. PICK i \in Nat : i = start.pos
  BY <1>3
<1>5. PICK j \in Nat : j = stream.pos
  BY <1>3
<1>6. Good(stream) /\ j < Len(text)
  BY <1>1, <1>2, <1>3, <1>5, AheadIs DEF SkipsComment
<1>7. Ahead.char = text[j + 1] /\ Ahead.rest = stream
  BY <1>5, <1>6, AheadIs
<1>8. OpenComment(i, j) /\ (j >= i + 3 => text[j] # "*")
  BY <1>2, <1>4, <1>5, <1>6 DEF SkipsComment
<1>9. PICK n \in {j + 1, j + 2} :
        /\ stream'.pos = n /\ n <= Len(text)
        /\ Good(stream') \/ (stream'.eof /\ n = Len(text))
        /\ text[j + 1] \in {"/", "*"} => n = j + 1 /\ Good(stream')
        /\ text[j + 1] \notin {"/", "*"} => text[n] # "*" /\ text[j + 1] # "*"
  BY <1>1, <1>3, <1>5, <1>6, <1>7, GetInComment
<1>10. n \in Nat /\ j <= n /\ n >= i + 3
  BY <1>8 DEF OpenComment
<1>11. OpenComment(i, n)
  <2>1. \A k \in j..(n - 1) : k >= i + 3 => ~Closes(k)
    <3> TAKE k \in j..(n - 1)
    <3>1. CASE k = j
      BY <1>8, <3>1 DEF Closes
    <3>2. CASE k = j + 1 /\ n = j + 2
      <4>1. text[j + 1] # "*"
        BY <1>9, <3>2
      <4> QED BY <3>2, <4>1 DEF Closes
    <3> QED BY <1>9, <3>1, <3>2
  <2> QED BY <1>8, <1>10, <2>1, OpenCommentGrows
<1>12. CASE text[j + 1] = "*"
  <2>1. pc' = "stars" /\ Good(stream') /\ text[n] = "*"
    BY <1>1, <1>7, <1>9, <1>12
  <2> QED BY <1>1, <1>4, <1>6, <1>9, <1>10, <1>11, <2>1, CommentTurn
<1>13. CASE text[j + 1] # "*"
  <2>1. pc' = "comment" /\ text[n] # "*"
    BY <1>1, <1>7, <1>9, <1>13
  <2> QED BY <1>1, <1>4, <1>6, <1>9, <1>10, <1>11, <2>1, CommentTurn
<1> QED BY <1>12, <1>13

LEMMA ReadStarsIs ==
  ASSUME Inv, ReadStars
  PROVE  Step /\ LoopsReadTheirTokens'
<1>1. PICK read : read = Get(stream)
  OBVIOUS
<1>2. /\ pc = "stars" /\ start' = start /\ stream' = read.rest /\ UNCHANGED <<text, tokens, pool>>
      /\ pc' = CASE read.char = "/" -> "next" [] read.char = "*" -> "stars" [] OTHER -> "comment"
  BY <1>1 DEF ReadStars, Continue
<1>3. /\ read.char = "/" => pc' = "next"
      /\ read.char = "*" => pc' = "stars"
      /\ read.char \notin {"/", "*"} => pc' = "comment"
  BY <1>2
<1>4. SkipsStars
  BY <1>2 DEF Inv, LoopsReadTheirTokens, Loop
<1>5. text \in Seq(Char) /\ Located(stream) /\ Len(text) \in Nat /\ stream.pos <= Len(text) /\ Named
      /\ start.pos \in Nat /\ stream.pos \in Nat
  BY InvIs
<1>6. PICK i \in Nat : i = start.pos
  BY <1>5
<1>7. PICK j \in Nat : j = stream.pos
  BY <1>5
<1>8. Good(stream) /\ OpenComment(i, j) /\ j >= i + 3 /\ text[j] = "*"
  BY <1>4, <1>6, <1>7 DEF SkipsStars
<1>9. CutOff = i /\ Verdict = "none"
  BY <1>2, <1>6, <1>8, LoopIs DEF LoopPc
<1>10. CASE j = Len(text)
  <2>1. read.char = Nul /\ Ended(read.rest)
    BY <1>1, <1>5, <1>7, <1>8, <1>10, GetAtEnd
  <2>2. pc' = "comment" /\ stream'.eof /\ stream'.pos = j /\ ~Good(stream')
    BY <1>2, <1>3, <1>10, <2>1, SlashAndStar DEF Ended, Good
  <2> QED BY <1>2, <1>6, <1>8, <1>10, <2>2, CommentTurn
<1>11. CASE j < Len(text)
  <2>1. PICK n \in {j + 1, j + 2} :
          /\ stream'.pos = n /\ n <= Len(text)
          /\ Good(stream') \/ (stream'.eof /\ n = Len(text))
          /\ text[j + 1] \in {"/", "*"} => n = j + 1 /\ Good(stream') /\ read.char = text[j + 1]
          /\ text[j + 1] \notin {"/", "*"} =>
               text[n] # "*" /\ text[j + 1] # "*" /\ read.char \notin {"/", "*"}
    BY <1>1, <1>2, <1>5, <1>7, <1>8, <1>11, GetInComment
  <2>2. n \in Nat /\ j <= n /\ n >= i + 3
    BY <1>8
  <2>3. CASE text[j + 1] = "/"
    <3>1. pc' = "next" /\ Good(stream') /\ stream'.pos = j + 1
      BY <1>3, <2>1, <2>3
    <3>2. Named'
      BY <1>2, <1>5, SameTokens
    <3>3. LoopsReadTheirTokens' /\ CutOff' = j + 1 /\ Verdict' = "none"
      BY <1>2, <3>1, <3>2, ToNext
    <3>4. SkipTo(i, j + 1)
      <4>1. j + 1 \in (i + 4)..Len(text) /\ (j + 1) - 1 = j /\ (j + 1) - 2 = j - 1
        BY <1>5, <1>8, <1>11
      <4>2. Closes(j) /\ \A k \in (i + 3)..(j - 1) : ~Closes(k)
        BY <1>8, <2>3 DEF OpenComment, Closes
      <4>3. text[i + 1] = "/" /\ text[i + 2] = "*"
        BY <1>8 DEF OpenComment
      <4> QED BY <1>5, <4>1, <4>2, <4>3, CommentCut
    <3> QED BY <1>2, <1>5, <1>9, <3>3, <3>4, SkipStep
  <2>4. CASE text[j + 1] # "/"
    <3>1. OpenComment(i, n)
      <4>1. \A k \in j..(n - 1) : k >= i + 3 => ~Closes(k)
        <5> TAKE k \in j..(n - 1)
        <5>1. CASE k = j
          BY <2>4, <5>1 DEF Closes
        <5>2. CASE k = j + 1 /\ n = j + 2
          <6>1. text[j + 1] # "*"
            BY <2>1, <5>2
          <6> QED BY <5>2, <6>1 DEF Closes
        <5> QED BY <2>1, <5>1, <5>2
      <4> QED BY <1>8, <2>2, <4>1, OpenCommentGrows
    <3>2. CASE text[j + 1] = "*"
      <4>1. pc' = "stars" /\ Good(stream') /\ text[n] = "*"
        BY <1>3, <2>1, <3>2
      <4> QED BY <1>2, <1>6, <1>8, <2>1, <2>2, <3>1, <4>1, CommentTurn
    <3>3. CASE text[j + 1] # "*"
      <4>1. pc' = "comment" /\ text[n] # "*"
        BY <1>3, <2>1, <2>4, <3>3
      <4> QED BY <1>2, <1>6, <1>8, <2>1, <2>2, <3>1, <4>1, CommentTurn
    <3> QED BY <3>2, <3>3
  <2> QED BY <2>3, <2>4
<1> QED BY <1>5, <1>7, <1>10, <1>11

LEMMA UnclosedCommentIs ==
  ASSUME Inv, UnclosedComment
  PROVE  Step /\ LoopsReadTheirTokens'
<1>1. pc = "comment" /\ Ahead.char = Nul /\ Stop("failed") /\ UNCHANGED text
  BY DEF UnclosedComment
<1>2. SkipsComment
  BY <1>1 DEF Inv, LoopsReadTheirTokens, Loop
<1>3. text \in Seq(Char) /\ Len(text) \in Nat /\ Named /\ start.pos \in Nat /\ stream.pos \in Nat
      /\ stream.pos <= Len(text)
  BY InvIs
<1>4. start.pos < Len(text) /\ CutOff = start.pos /\ Verdict = "none"
  BY <1>1, <1>2, LoopIs DEF LoopPc, SkipsComment
<1>5. stream.pos = Len(text)
  BY <1>1, <1>2, <1>3, AheadIs, CharacterFacts DEF SkipsComment
<1>6. ~Reference!CanCut(start.pos)
  <2>1. /\ start.pos + 2 <= Len(text) /\ text[start.pos + 1] = "/" /\ text[start.pos + 2] = "*"
        /\ \A k \in (start.pos + 3)..(Len(text) - 1) : ~Closes(k)
    BY <1>2, <1>5 DEF SkipsComment, OpenComment
  <2> QED BY <1>3, <2>1, NoCommentEnd
<1>7. UNCHANGED <<text, tokens, pool>> /\ Verdict' = "refused" /\ LoopsReadTheirTokens'
  BY <1>1, <1>3, Stopped
<1> QED BY <1>3, <1>4, <1>6, <1>7, RefuseStep

(* Punctuators *)

LEMMA ExtensionIs ==
  ASSUME NEW c, NEW s
  PROVE  LET one == Peek(s, 0)
             two == Peek(one.rest, 1)
             dots == PeekStr(s, 2)
             colons == PeekStr(one.rest, 3)
             pair == <<c, one.char>>
         IN  /\ c = "." /\ dots.chars = <<".", ".">> =>
                  Extension(c, s) = [kind |-> <<".", ".", ".">>, length |-> 2, rest |-> dots.rest]
             /\ c = "." /\ dots.chars # <<".", ".">> =>
                  Extension(c, s) = [kind |-> <<".">>, length |-> 0, rest |-> dots.rest]
             /\ c # "." /\ (\A p \in Pairs : p[1] # c) =>
                  Extension(c, s) = [kind |-> <<c>>, length |-> 0, rest |-> s]
             /\ pair \in Shifts /\ two.char = "=" =>
                  Extension(c, s) = [kind |-> Append(pair, "="), length |-> 2, rest |-> two.rest]
             /\ pair \in Shifts /\ two.char # "=" =>
                  Extension(c, s) = [kind |-> pair, length |-> 1, rest |-> two.rest]
             /\ pair = <<"%", ":">> /\ colons.chars = <<":", "%", ":">> =>
                  Extension(c, s) = [kind |-> <<"#", "#">>, length |-> 3, rest |-> colons.rest]
             /\ pair = <<"%", ":">> /\ colons.chars # <<":", "%", ":">> =>
                  Extension(c, s) = [kind |-> <<"#">>, length |-> 1, rest |-> colons.rest]
             /\ pair \in Pairs \ (Shifts \cup {<<"%", ":">>}) =>
                  Extension(c, s) = [kind |-> Digraph(pair), length |-> 1, rest |-> one.rest]
             /\ c # "." /\ (\E p \in Pairs : p[1] = c) /\ pair \notin Pairs =>
                  Extension(c, s) = [kind |-> <<c>>, length |-> 0, rest |-> one.rest]
<1> DEFINE one == Peek(s, 0)
           two == Peek(one.rest, 1)
           dots == PeekStr(s, 2)
           colons == PeekStr(one.rest, 3)
           pair == <<c, one.char>>
           more == Extension(c, s)
<1>1. Shifts = {<<"<", "<">>, <<">", ">">>} /\ Shifts \subseteq Pairs /\ <<"%", ":">> \in Pairs
  BY PairIsLonger DEF Shifts
<1>2. \A d : <<".", d>> \notin Pairs
  BY PairIsLonger
<1>3. ASSUME c = "."
      PROVE  more = IF dots.chars = <<".", ".">>
                    THEN [kind |-> <<".", ".", ".">>, length |-> 2, rest |-> dots.rest]
                    ELSE [kind |-> <<".">>, length |-> 0, rest |-> dots.rest]
  BY <1>3 DEF Extension, Pairs
<1>4. ASSUME c # ".", \A p \in Pairs : p[1] # c
      PROVE  more = [kind |-> <<c>>, length |-> 0, rest |-> s]
  <2>1. pair \notin Pairs
    BY <1>4
  <2>2. pair \notin {<<"<", "<">>, <<">", ">">>} /\ pair # <<"%", ":">>
    BY <1>1, <2>1
  <2> QED BY <1>4, <2>1, <2>2 DEF Extension
<1>5. ASSUME pair \in Shifts
      PROVE  more = IF two.char = "=" THEN [kind |-> Append(pair, "="), length |-> 2, rest |-> two.rest]
                                      ELSE [kind |-> pair, length |-> 1, rest |-> two.rest]
  BY <1>1, <1>5 DEF Extension, Pairs
<1>6. ASSUME pair = <<"%", ":">>
      PROVE  more = IF colons.chars = <<":", "%", ":">>
                    THEN [kind |-> <<"#", "#">>, length |-> 3, rest |-> colons.rest]
                    ELSE [kind |-> <<"#">>, length |-> 1, rest |-> colons.rest]
  BY <1>6 DEF Extension, Pairs
<1>7. ASSUME pair \in Pairs \ (Shifts \cup {<<"%", ":">>})
      PROVE  more = [kind |-> Digraph(pair), length |-> 1, rest |-> one.rest]
  <2>1. c # "." /\ \E p \in Pairs : p[1] = c
    BY <1>2, <1>7
  <2>2. pair \in Pairs \ {<<"<", "<">>, <<">", ">">>, <<"%", ":">>}
    BY <1>1, <1>7
  <2> QED BY <2>1, <2>2 DEF Extension
<1>8. ASSUME c # ".", \E p \in Pairs : p[1] = c, pair \notin Pairs
      PROVE  more = [kind |-> <<c>>, length |-> 0, rest |-> one.rest]
  <2>1. pair \notin {<<"<", "<">>, <<">", ">">>} /\ pair # <<"%", ":">>
    BY <1>1, <1>8
  <2> QED BY <1>8, <2>1 DEF Extension
<1> HIDE DEF one, two, dots, colons, pair, more
<1> QED BY <1>3, <1>4, <1>5, <1>6, <1>7, <1>8 DEF one, two, dots, colons, pair, more

LEMMA LoneIs ==
  ASSUME NEW c \in Special, c # "."
  PROVE  (\A p \in Pairs : p[1] # c) <=> c \in Lone
<1>1. ASSUME c \in Lone, NEW p \in Pairs, p[1] = c PROVE FALSE
  <2>1. p[1] \in {"*", "#", "+", "-", "&", "|", "!", "=", ":", "^", "/", "%", "<", ">"}
    BY DEF Pairs
  <2> QED BY <1>1, <2>1 DEF Lone
<1>2. ASSUME c \notin Lone PROVE \E p \in Pairs : p[1] = c
  <2>1. c \in {"*", "#", "+", "-", "&", "|", "!", "=", ":", "^", "/", "%", "<", ">"}
    BY <1>2 DEF Special, Lone
  <2>2. PICK d : <<c, d>> \in Pairs
    <3>1. CASE c \in {"*", "+", "-", "&", "|", "!", "=", "^", "/", "%", "<", ">"}
      <4>1. <<c, "=">> \in Pairs
        BY <3>1 DEF Pairs
      <4> QED BY <4>1
    <3>2. CASE c = "#"
      <4>1. <<c, "#">> \in Pairs
        BY <3>2 DEF Pairs
      <4> QED BY <4>1
    <3>3. CASE c = ":"
      <4>1. <<c, ">">> \in Pairs
        BY <3>3 DEF Pairs
      <4> QED BY <4>1
    <3> QED BY <2>1, <3>1, <3>2, <3>3
  <2>3. <<c, d>>[1] = c
    OBVIOUS
  <2> QED BY <2>2, <2>3
<1> QED BY <1>1, <1>2

LEMMA SecondIsSpecial ==
  ASSUME NEW c, NEW d, <<c, d>> \in Pairs
  PROVE  d \in Special /\ d \notin Ends /\ d # Nul /\ d # Other
<1>1. d \in Special
  BY PairsAreSpecial
<1>2. Special \cap (Ends \cup {Nul, Other}) = {}
  BY DEF Special, Ends, Newline, Return, Nul, Other
<1> QED BY <1>1, <1>2

LEMMA SpecialIsPlain == Special \cap (Ends \cup {Nul, Other}) = {} /\ Special \subseteq CharInput
BY DEF Special, Ends, Newline, Return, Nul, Other, CharInput, Char

(* Reading what has been looked at *)

LEMMA GetStrGood ==
  ASSUME text \in Seq(Char), NEW s, Located(s), Good(s), NEW j \in Nat, s.pos = j, NEW n \in 1..3,
         j + n <= Len(text), \A k \in (j + 1)..(j + n) : text[k] \notin Ends
  PROVE  /\ Good(GetStr(s, n).rest) /\ GetStr(s, n).rest.pos = j + n
         /\ n = 1 => GetStr(s, n).chars = <<text[j + 1]>>
         /\ n = 2 => GetStr(s, n).chars = <<text[j + 1], text[j + 2]>>
         /\ n = 3 => GetStr(s, n).chars = <<text[j + 1], text[j + 2], text[j + 3]>>
<1>1. PICK first : first = Get(s)
  OBVIOUS
<1>2. PICK second : second = Get(first.rest)
  OBVIOUS
<1>3. PICK third : third = Get(second.rest)
  OBVIOUS
<1>4. Len(text) \in Nat /\ j < Len(text) /\ text[j + 1] \notin Ends
  OBVIOUS
<1>5. first.char = text[j + 1] /\ Good(first.rest) /\ first.rest.pos = j + 1 /\ Located(first.rest)
  BY <1>1, <1>4, GetPlain
<1>6. n >= 2 => second.char = text[j + 2] /\ Good(second.rest) /\ second.rest.pos = j + 2 /\ Located(second.rest)
  <2> SUFFICES ASSUME n >= 2
               PROVE  second.char = text[j + 2] /\ Good(second.rest) /\ second.rest.pos = j + 2
                      /\ Located(second.rest)
    OBVIOUS
  <2>1. j + 1 < Len(text) /\ (j + 1) + 1 = j + 2 /\ text[j + 2] \notin Ends
    BY <1>4
  <2> QED BY <1>2, <1>5, <2>1, GetPlain
<1>7. n = 3 => third.char = text[j + 3] /\ Good(third.rest) /\ third.rest.pos = j + 3
  <2> SUFFICES ASSUME n = 3
               PROVE  third.char = text[j + 3] /\ Good(third.rest) /\ third.rest.pos = j + 3
    OBVIOUS
  <2>1. j + 2 < Len(text) /\ (j + 2) + 1 = j + 3 /\ text[j + 3] \notin Ends
    BY <1>4
  <2>2. Good(second.rest) /\ second.rest.pos = j + 2 /\ Located(second.rest)
    BY <1>6
  <2> QED BY <1>3, <2>1, <2>2, GetPlain
<1>8. CASE n = 1
  <2>1. GetStr(s, n) = [chars |-> <<first.char>>, rest |-> first.rest]
    BY <1>1, <1>8 DEF GetStr
  <2> QED BY <1>5, <1>8, <2>1
<1>9. CASE n = 2
  <2>1. GetStr(s, n) = [chars |-> <<first.char, second.char>>, rest |-> second.rest]
    BY <1>1, <1>2, <1>9 DEF GetStr
  <2> QED BY <1>5, <1>6, <1>9, <2>1
<1>10. CASE n = 3
  <2>1. GetStr(s, n) = [chars |-> <<first.char, second.char, third.char>>, rest |-> third.rest]
    BY <1>1, <1>2, <1>3, <1>10 DEF GetStr
  <2> QED BY <1>5, <1>6, <1>7, <1>10, <2>1
<1> QED BY <1>8, <1>9, <1>10

LEMMA GetStrNone ==
  ASSUME NEW s
  PROVE  GetStr(s, 0).chars = <<>> /\ GetStr(s, 0).rest = s
<1>1. GetStr(s, 0) = [chars |-> <<>>, rest |-> s]
  BY DEF GetStr
<1> QED BY <1>1

LEMMA GetStrLost ==
  ASSUME text \in Seq(Char), NEW s, Located(s), Lost(s)
  PROVE  GetStr(s, 1).chars = <<Other>> /\ Lost(GetStr(s, 1).rest)
<1>1. Get(s).char = Other /\ Lost(Get(s).rest)
  BY ReadLost
<1>2. GetStr(s, 1) = [chars |-> <<Get(s).char>>, rest |-> Get(s).rest]
  BY DEF GetStr
<1> QED BY <1>1, <1>2

LEMMA Concatenated ==
  ASSUME NEW a, NEW b, NEW c, NEW d
  PROVE  /\ <<a>> \o <<>> = <<a>> /\ <<a>> \o <<b>> = <<a, b>>
         /\ <<a>> \o <<b, c>> = <<a, b, c>> /\ <<a>> \o <<b, c, d>> = <<a, b, c, d>>
         /\ Append(<<a, b>>, c) = <<a, b, c>>
<1> DEFINE S == {a, b, c, d}
<1>1. <<a>> \in Seq(S) /\ <<b>> \in Seq(S) /\ <<b, c>> \in Seq(S) /\ <<b, c, d>> \in Seq(S)
      /\ <<>> \in Seq(S) /\ <<a, b>> \in Seq(S)
  OBVIOUS
<1> HIDE DEF S
<1>2. <<a>> \o <<>> = <<a>>
  BY <1>1
<1>3. <<a>> \o <<b>> = <<a, b>>
  <2>1. PICK t : t = <<a>> \o <<b>>
    OBVIOUS
  <2>2. t \in Seq(S) /\ Len(t) = 2 /\ t[1] = a /\ t[2] = b
    BY <1>1, <2>1
  <2> QED BY <2>1, <2>2, Longhand
<1>4. <<a>> \o <<b, c>> = <<a, b, c>>
  <2>1. PICK t : t = <<a>> \o <<b, c>>
    OBVIOUS
  <2>2. t \in Seq(S) /\ Len(t) = 3 /\ t[1] = a /\ t[2] = b /\ t[3] = c
    BY <1>1, <2>1
  <2> QED BY <2>1, <2>2, Longhand
<1>5. <<a>> \o <<b, c, d>> = <<a, b, c, d>>
  <2>1. PICK t : t = <<a>> \o <<b, c, d>>
    OBVIOUS
  <2>2. t \in Seq(S) /\ Len(t) = 4 /\ t[1] = a /\ t[2] = b /\ t[3] = c /\ t[4] = d
    BY <1>1, <2>1
  <2> QED BY <2>1, <2>2, Longhand
<1>6. Append(<<a, b>>, c) = <<a, b, c>>
  <2>1. PICK t : t = Append(<<a, b>>, c)
    OBVIOUS
  <2>2. c \in S
    BY DEF S
  <2>3. t \in Seq(S) /\ Len(t) = 3 /\ t[1] = a /\ t[2] = b /\ t[3] = c
    BY <1>1, <2>1, <2>2
  <2> QED BY <2>1, <2>3, Longhand
<1> QED BY <1>2, <1>3, <1>4, <1>5, <1>6

\* The stream behind the first character of a punctuator that starts behind i.
Behind(i, s) ==
  /\ text \in Seq(Char) /\ i \in Nat /\ i < Len(text) /\ text[i + 1] \in Special /\ NoSkips(i)
  /\ Located(s) /\ Good(s) /\ s.pos = i + 1

\* What is read behind the first character makes the token the file is cut into.
Kept(i, more) ==
  \E j, ahead :
    LET rest == GetStr(more.rest, more.length)
    IN  /\ CutTo(i, j, more.kind, ahead) /\ j + ahead <= Len(text)
        /\ Good(rest.rest) /\ rest.rest.pos = j
        /\ <<text[i + 1]>> \o rest.chars = Reference!TextOf(Reference!Piece(i, j))

\* The same, but for the text, when the stream ends within the look ahead.
Gone(i, more) ==
  \E j, ahead :
    LET rest == GetStr(more.rest, more.length)
    IN  /\ CutTo(i, j, more.kind, ahead) /\ ~(j + ahead <= Len(text))
        /\ Lost(rest.rest) /\ Reference!Piece(i, j) # <<"/">>
        /\ <<text[i + 1]>> \o rest.chars \in
             {Reference!TextOf(Reference!Piece(i, j)), <<text[i + 1], Other>>}

LEMMA KeptIf ==
  ASSUME NEW i, NEW more, NEW kind, NEW length, NEW rest, more = [kind |-> kind, length |-> length, rest |-> rest],
         NEW j, NEW ahead, CutTo(i, j, kind, ahead), j + ahead <= Len(text),
         Good(GetStr(rest, length).rest), GetStr(rest, length).rest.pos = j,
         <<text[i + 1]>> \o GetStr(rest, length).chars = Reference!TextOf(Reference!Piece(i, j))
  PROVE  Kept(i, more)
<1>1. more.kind = kind /\ more.length = length /\ more.rest = rest
  OBVIOUS
<1> QED BY <1>1 DEF Kept

LEMMA GoneIf ==
  ASSUME NEW i, NEW more, NEW kind, NEW length, NEW rest, more = [kind |-> kind, length |-> length, rest |-> rest],
         NEW j, NEW ahead, CutTo(i, j, kind, ahead), ~(j + ahead <= Len(text)),
         Lost(GetStr(rest, length).rest), Reference!Piece(i, j) # <<"/">>,
         <<text[i + 1]>> \o GetStr(rest, length).chars \in
           {Reference!TextOf(Reference!Piece(i, j)), <<text[i + 1], Other>>}
  PROVE  Gone(i, more)
<1>1. more.kind = kind /\ more.length = length /\ more.rest = rest
  OBVIOUS
<1> QED BY <1>1 DEF Gone

LEMMA BehindIs ==
  ASSUME NEW i, NEW s, Behind(i, s)
  PROVE  /\ i \in Nat /\ Len(text) \in Nat
         /\ i + 2 <= Len(text) => Peek(s, 0).char = text[i + 2] /\ Peek(s, 0).rest = s
         /\ ~(i + 2 <= Len(text)) => Peek(s, 0).char = Nul /\ Lost(Peek(s, 0).rest)
         /\ i + 3 <= Len(text) => Peek(s, 1).char = text[i + 3] /\ Peek(s, 1).rest = s
         /\ ~(i + 3 <= Len(text)) => Peek(s, 1).char = Nul /\ Lost(Peek(s, 1).rest) /\ Located(Peek(s, 1).rest)
<1>1. text \in Seq(Char) /\ i \in Nat /\ Len(text) \in Nat /\ Located(s) /\ Good(s) /\ s.pos = i + 1
      /\ i < Len(text)
  BY DEF Behind
<1>2. i + 2 <= Len(text) => Peek(s, 0).char = text[i + 2] /\ Peek(s, 0).rest = s
  <2>1. (i + 1) + 1 = i + 2 /\ (i + 1 < Len(text) <=> i + 2 <= Len(text))
    BY <1>1
  <2> QED BY <1>1, <2>1, PeekGood
<1>3. ~(i + 2 <= Len(text)) => Peek(s, 0).char = Nul /\ Lost(Peek(s, 0).rest)
  <2>1. ~(i + 2 <= Len(text)) => s.pos = Len(text)
    BY <1>1
  <2> QED BY <1>1, <2>1, PeekBeyond
<1>4. (i + 1) + 2 = i + 3
  BY <1>1
<1>5. Located(Peek(s, 1).rest)
  BY <1>1, PeekIsLocated
<1> QED BY <1>1, <1>2, <1>3, <1>4, <1>5, PeekTwo

LEMMA CutsDot ==
  ASSUME NEW i, NEW s, Behind(i, s), text[i + 1] = "."
  PROVE  Kept(i, Extension(".", s)) \/ Gone(i, Extension(".", s))
<1>1. /\ text \in Seq(Char) /\ i \in Nat /\ Len(text) \in Nat /\ Located(s) /\ Good(s) /\ s.pos = i + 1
      /\ i < Len(text) /\ text[i + 1] \in Special /\ NoSkips(i)
  BY DEF Behind
<1>2. PICK dots : dots = PeekStr(s, 2)
  OBVIOUS
<1>3. i + 3 <= Len(text) => dots.chars = <<text[i + 2], text[i + 3]>> /\ dots.rest = s
  <2> SUFFICES ASSUME i + 3 <= Len(text) PROVE dots.chars = <<text[i + 2], text[i + 3]>> /\ dots.rest = s
    OBVIOUS
  <2>1. (i + 1) + 2 = i + 3 /\ (i + 1) + 1 = i + 2
    BY <1>1
  <2>2. dots.chars = SubSeq(text, i + 2, i + 3) /\ dots.rest = s
    <3>1. s.pos + 2 <= Len(text) /\ s.pos + 1 = i + 2 /\ s.pos + 2 = i + 3 /\ 2 \in Nat
      BY <1>1, <2>1
    <3>2. /\ PeekStr(s, 2).chars = SubSeq(text, s.pos + 1, s.pos + 2)
          /\ PeekStr(s, 2).rest = s
      BY <1>1, <3>1, PeekStrGood
    <3> QED BY <1>2, <3>1, <3>2
  <2>3. SubSeq(text, i + 2, i + 3) = <<text[i + 2], text[i + 3]>>
    <3>1. PICK t : t = SubSeq(text, i + 2, i + 3)
      OBVIOUS
    <3>2. t \in Seq(Char) /\ Len(t) = 2 /\ t[1] = text[i + 2] /\ t[2] = text[i + 3]
      BY <1>1, <3>1
    <3> QED BY <3>1, <3>2, Longhand
  <2> QED BY <2>2, <2>3
<1>4. ~(i + 3 <= Len(text)) => dots.chars = <<>> /\ Lost(dots.rest)
  <2>1. (i + 1) + 2 = i + 3
    BY <1>1
  <2> QED BY <1>1, <1>2, <2>1, PeekStrGood
<1>5. \A d : <<".", d>> \notin Pairs
  BY PairIsLonger
<1>6. CASE Dots(i)
  <2>1. i + 3 <= Len(text) /\ text[i + 2] = "." /\ text[i + 3] = "."
    BY <1>6 DEF Dots
  <2>2. PICK more : more = Extension(".", s)
    OBVIOUS
  <2>3. more = [kind |-> <<".", ".", ".">>, length |-> 2, rest |-> s]
    <3>1. dots.chars = <<".", ".">> /\ dots.rest = s
      BY <1>3, <2>1
    <3>2. Extension(".", s) = [kind |-> <<".", ".", ".">>, length |-> 2, rest |-> PeekStr(s, 2).rest]
      BY <1>2, <3>1, ExtensionIs
    <3> QED BY <1>2, <2>2, <3>1, <3>2
  <2>4. <<text[i + 1], text[i + 2], text[i + 3]>> \in Triples
    BY <2>1, TripleIs
  <2>5. /\ CutTo(i, i + 3, <<".", ".", ".">>, 0)
        /\ Reference!TextOf(Reference!Piece(i, i + 3)) = <<".", ".", ".">>
    BY <1>1, <2>1, <2>4, TripleCut
  <2>6. /\ Good(GetStr(s, 2).rest) /\ GetStr(s, 2).rest.pos = i + 3 /\ GetStr(s, 2).chars = <<".", ".">>
    <3>1. i + 1 \in Nat /\ (i + 1) + 1 = i + 2 /\ (i + 1) + 2 = i + 3 /\ 2 \in 1..3
      BY <1>1
    <3>2. \A k \in ((i + 1) + 1)..((i + 1) + 2) : text[k] \notin Ends
      <4> TAKE k \in ((i + 1) + 1)..((i + 1) + 2)
      <4>1. k = i + 2 \/ k = i + 3
        BY <1>1
      <4>2. "." \notin Ends
        BY DEF Ends, Newline, Return
      <4> QED BY <2>1, <4>1, <4>2
    <3> QED BY <1>1, <2>1, <3>1, <3>2, GetStrGood
  <2>7. <<".">> \o <<".", ".">> = <<".", ".", ".">>
    BY Concatenated
  <2>8. (i + 3) + 0 <= Len(text)
    BY <1>1, <2>1
  <2>9. Kept(i, more)
    BY <2>3, <2>5, <2>6, <2>7, <2>8, KeptIf
  <2> QED BY <2>2, <2>9
<1>7. CASE ~Dots(i)
  <2>1. dots.chars # <<".", ".">>
    <3>1. CASE i + 3 <= Len(text)
      BY <1>3, <1>7, <3>1 DEF Dots
    <3>2. CASE ~(i + 3 <= Len(text))
      BY <1>4, <3>2
    <3> QED BY <3>1, <3>2
  <2>2. PICK more : more = Extension(".", s)
    OBVIOUS
  <2>3. more = [kind |-> <<".">>, length |-> 0, rest |-> dots.rest]
    BY <1>2, <2>1, <2>2, ExtensionIs
  <2>4. /\ CutTo(i, i + 1, <<".">>, 2) /\ Reference!Piece(i, i + 1) = <<".">>
        /\ Reference!TextOf(<<".">>) = <<".">>
    BY <1>1, <1>5, <1>7, SingleCut DEF Pair
  <2>5. GetStr(dots.rest, 0).chars = <<>> /\ GetStr(dots.rest, 0).rest = dots.rest
    BY GetStrNone
  <2>6. <<".">> \o <<>> = <<".">>
    BY Concatenated
  <2>7. (i + 1) + 2 <= Len(text) <=> i + 3 <= Len(text)
    BY <1>1
  <2>8. CASE i + 3 <= Len(text)
    <3>1. Kept(i, more)
      BY <1>1, <1>3, <2>3, <2>4, <2>5, <2>6, <2>7, <2>8, KeptIf
    <3> QED BY <2>2, <3>1
  <2>9. CASE ~(i + 3 <= Len(text))
    <3>1. <<".">> # <<"/">>
      OBVIOUS
    <3>2. Gone(i, more)
      BY <1>4, <2>3, <2>4, <2>5, <2>6, <2>7, <2>9, <3>1, GoneIf
    <3> QED BY <2>2, <3>2
  <2> QED BY <2>8, <2>9
<1> QED BY <1>6, <1>7

\* A special character that no other one follows.
LEMMA CutsSingle ==
  ASSUME NEW i, NEW s, Behind(i, s), NEW c, c = text[i + 1], c # ".",
         i + 2 <= Len(text) => Pair(i) \notin Pairs, c = "/" => i + 2 <= Len(text)
  PROVE  Kept(i, Extension(c, s)) \/ Gone(i, Extension(c, s))
<1>1. /\ text \in Seq(Char) /\ i \in Nat /\ Len(text) \in Nat /\ Located(s) /\ Good(s) /\ s.pos = i + 1
      /\ i < Len(text) /\ c \in Special /\ NoSkips(i)
  BY DEF Behind
<1>2. PICK more : more = Extension(c, s)
  OBVIOUS
<1>3. ~Dots(i)
  BY DEF Dots
<1>4. /\ CutTo(i, i + 1, <<c>>, IF c \in Lone THEN 0 ELSE 1) /\ Reference!Piece(i, i + 1) = <<c>>
      /\ Reference!TextOf(Reference!Piece(i, i + 1)) = <<c>>
  BY <1>1, <1>3, SingleCut
<1>5. <<c>> \o <<>> = <<c>>
  BY Concatenated
<1>6. CASE c \in Lone
  <2>1. more = [kind |-> <<c>>, length |-> 0, rest |-> s]
    BY <1>1, <1>2, <1>6, LoneIs, ExtensionIs
  <2>2. GetStr(s, 0).chars = <<>> /\ GetStr(s, 0).rest = s
    BY GetStrNone
  <2>3. (i + 1) + 0 <= Len(text) /\ CutTo(i, i + 1, <<c>>, 0)
    BY <1>1, <1>4, <1>6
  <2>4. Kept(i, more)
    BY <1>1, <1>4, <1>5, <2>1, <2>2, <2>3, KeptIf
  <2> QED BY <1>2, <2>4
<1>7. CASE c \notin Lone
  <2>1. PICK one : one = Peek(s, 0)
    OBVIOUS
  <2>2. <<c, one.char>> \notin Pairs
    <3>1. CASE i + 2 <= Len(text)
      BY <2>1, <3>1, BehindIs DEF Pair
    <3>2. CASE ~(i + 2 <= Len(text))
      BY <2>1, <3>2, BehindIs, SecondIsSpecial
    <3> QED BY <3>1, <3>2
  <2>3. more = [kind |-> <<c>>, length |-> 0, rest |-> one.rest]
    BY <1>1, <1>2, <1>7, <2>1, <2>2, LoneIs, ExtensionIs
  <2>4. GetStr(one.rest, 0).chars = <<>> /\ GetStr(one.rest, 0).rest = one.rest
    BY GetStrNone
  <2>5. ((i + 1) + 1 <= Len(text) <=> i + 2 <= Len(text)) /\ CutTo(i, i + 1, <<c>>, 1)
    BY <1>1, <1>4, <1>7
  <2>6. CASE i + 2 <= Len(text)
    <3>1. one.rest = s
      BY <2>1, <2>6, BehindIs
    <3>2. Kept(i, more)
      BY <1>1, <1>4, <1>5, <2>3, <2>4, <2>5, <2>6, <3>1, KeptIf
    <3> QED BY <1>2, <3>2
  <2>7. CASE ~(i + 2 <= Len(text))
    <3>1. Lost(one.rest)
      BY <2>1, <2>7, BehindIs
    <3>2. Reference!Piece(i, i + 1) # <<"/">>
      BY <1>4, <2>7
    <3>3. Gone(i, more)
      BY <1>4, <1>5, <2>3, <2>4, <2>5, <2>7, <3>1, <3>2, GoneIf
    <3> QED BY <1>2, <3>3
  <2> QED BY <2>6, <2>7
<1> QED BY <1>6, <1>7

LEMMA ShiftsAre ==
  /\ Shifts = {<<"<", "<">>, <<">", ">">>}
  /\ \A p \in Shifts : Digraph(p) = p
  /\ Digraph(<<"%", ":">>) = <<"#">>
  /\ \A c, d : <<c, d>> \in Shifts => c # "." /\ <<c, d>> # <<"%", ":">>
<1>1. \A p \in Shifts : Digraph(p) = p
  <2>1. TAKE p \in Shifts
  <2>2. p = <<"<", "<">> \/ p = <<">", ">">>
    BY DEF Shifts
  <2>3. p \notin {<<":", ">">>, <<"<", ":">>, <<"%", ">">>, <<"<", "%">>, <<"%", ":">>}
    BY <2>2
  <2> QED BY <2>3 DEF Digraph
<1>2. Digraph(<<"%", ":">>) = <<"#">>
  BY DEF Digraph
<1>3. \A c, d : <<c, d>> \in Shifts => c # "." /\ <<c, d>> # <<"%", ":">>
  BY DEF Shifts
<1> QED BY <1>1, <1>2, <1>3 DEF Shifts

\* One character behind the first.
LEMMA SecondKept ==
  ASSUME NEW i, NEW s, Behind(i, s), i + 2 <= Len(text), Pair(i) \in Pairs
  PROVE  /\ Good(GetStr(s, 1).rest) /\ GetStr(s, 1).rest.pos = i + 2
         /\ <<text[i + 1]>> \o GetStr(s, 1).chars = Pair(i)
<1>1. text \in Seq(Char) /\ i \in Nat /\ Len(text) \in Nat /\ Located(s) /\ Good(s) /\ s.pos = i + 1
  BY DEF Behind
<1>2. text[i + 2] \notin Ends
  BY SecondIsSpecial DEF Pair
<1>3. i + 1 \in Nat /\ (i + 1) + 1 = i + 2 /\ (i + 1) + 1 <= Len(text) /\ 1 \in 1..3
  BY <1>1
<1>4. \A k \in ((i + 1) + 1)..((i + 1) + 1) : text[k] \notin Ends
  <2> TAKE k \in ((i + 1) + 1)..((i + 1) + 1)
  <2>1. k = i + 2
    BY <1>1
  <2> QED BY <1>2, <2>1
<1>5. Good(GetStr(s, 1).rest) /\ GetStr(s, 1).rest.pos = i + 2 /\ GetStr(s, 1).chars = <<text[i + 2]>>
  BY <1>1, <1>3, <1>4, GetStrGood
<1>6. <<text[i + 1]>> \o <<text[i + 2]>> = <<text[i + 1], text[i + 2]>>
  BY Concatenated
<1> QED BY <1>5, <1>6 DEF Pair

\* Two characters that the look ahead behind them tells from a longer token.
LEMMA PairIsKept ==
  ASSUME NEW i, NEW s, Behind(i, s), i + 2 <= Len(text), Pair(i) \in Pairs,
         Pair(i) \in Shifts => ~(i + 3 <= Len(text) /\ text[i + 3] = "="), ~Colons(i),
         NEW more, more = [kind |-> Digraph(Pair(i)), length |-> 1, rest |-> s],
         Pair(i) \in Shifts => i + 3 <= Len(text), Pair(i) = <<"%", ":">> => i + 4 <= Len(text)
  PROVE  Kept(i, more)
<1>1. text \in Seq(Char) /\ i \in Nat /\ Len(text) \in Nat /\ NoSkips(i)
  BY DEF Behind
<1>2. PICK ahead : ahead = IF Pair(i) = <<"%", ":">> THEN 2 ELSE IF Pair(i) \in Shifts THEN 1 ELSE 0
  OBVIOUS
<1>3. CutTo(i, i + 2, Digraph(Pair(i)), ahead) /\ Reference!TextOf(Reference!Piece(i, i + 2)) = Pair(i)
  BY <1>1, <1>2, PairCut
<1>4. (i + 2) + ahead <= Len(text)
  <2>1. CASE Pair(i) = <<"%", ":">>
    BY <1>1, <1>2, <2>1
  <2>2. CASE Pair(i) # <<"%", ":">> /\ Pair(i) \in Shifts
    BY <1>1, <1>2, <2>2
  <2>3. CASE Pair(i) # <<"%", ":">> /\ Pair(i) \notin Shifts
    BY <1>1, <1>2, <2>3
  <2> QED BY <2>1, <2>2, <2>3
<1> QED BY <1>3, <1>4, SecondKept, KeptIf

\* The stream ends within the look ahead behind two characters.
LEMMA PairIsGone ==
  ASSUME NEW i, NEW s, Behind(i, s), i + 2 <= Len(text), Pair(i) \in Pairs,
         Pair(i) \in Shifts => ~(i + 3 <= Len(text)), Pair(i) = <<"%", ":">> => ~(i + 4 <= Len(text)),
         Pair(i) \in Shifts \cup {<<"%", ":">>},
         NEW lost, Located(lost), Lost(lost),
         NEW more, more = [kind |-> Digraph(Pair(i)), length |-> 1, rest |-> lost]
  PROVE  Gone(i, more)
<1>1. text \in Seq(Char) /\ i \in Nat /\ Len(text) \in Nat /\ NoSkips(i)
  BY DEF Behind
<1>2. PICK ahead : ahead = IF Pair(i) = <<"%", ":">> THEN 2 ELSE IF Pair(i) \in Shifts THEN 1 ELSE 0
  OBVIOUS
<1>3. ~Colons(i)
  BY DEF Colons
<1>4. CutTo(i, i + 2, Digraph(Pair(i)), ahead) /\ Reference!Piece(i, i + 2) = Pair(i)
  BY <1>1, <1>2, <1>3, PairCut
<1>5. ~((i + 2) + ahead <= Len(text))
  <2>1. CASE Pair(i) = <<"%", ":">>
    BY <1>1, <1>2, <2>1
  <2>2. CASE Pair(i) # <<"%", ":">>
    BY <1>1, <1>2, <2>2
  <2> QED BY <2>1, <2>2
<1>6. GetStr(lost, 1).chars = <<Other>> /\ Lost(GetStr(lost, 1).rest)
  BY <1>1, GetStrLost
<1>7. <<text[i + 1]>> \o <<Other>> = <<text[i + 1], Other>>
  BY Concatenated
<1>8. Pair(i) # <<"/">>
  <2>1. Len(Pair(i)) = 2 /\ Len(<<"/">>) = 1
    BY DEF Pair
  <2> QED BY <2>1
<1> QED BY <1>4, <1>5, <1>6, <1>7, <1>8, GoneIf

\* << and >>, which an = can follow.
LEMMA CutsShift ==
  ASSUME NEW i, NEW s, Behind(i, s), i + 2 <= Len(text), Pair(i) \in Shifts, NEW c, c = text[i + 1]
  PROVE  Kept(i, Extension(c, s)) \/ Gone(i, Extension(c, s))
<1>1. /\ text \in Seq(Char) /\ i \in Nat /\ Len(text) \in Nat /\ Located(s) /\ Good(s) /\ s.pos = i + 1
      /\ NoSkips(i) /\ Pair(i) \in Pairs
  BY PairIsLonger DEF Behind
<1>2. PICK one : one = Peek(s, 0)
  OBVIOUS
<1>3. PICK two : two = Peek(one.rest, 1)
  OBVIOUS
<1>4. PICK more : more = Extension(c, s)
  OBVIOUS
<1>5. one.rest = s /\ <<c, one.char>> = Pair(i)
  BY <1>2, BehindIs DEF Pair
<1>6. /\ two.char = "=" => more = [kind |-> Append(Pair(i), "="), length |-> 2, rest |-> two.rest]
      /\ two.char # "=" => more = [kind |-> Pair(i), length |-> 1, rest |-> two.rest]
  <2>1. <<c, one.char>> \in Shifts
    BY <1>5
  <2>2. /\ two.char = "=" => more = [kind |-> Append(<<c, one.char>>, "="), length |-> 2, rest |-> two.rest]
        /\ two.char # "=" => more = [kind |-> <<c, one.char>>, length |-> 1, rest |-> two.rest]
    BY <1>2, <1>3, <1>4, <2>1, ExtensionIs
  <2> QED BY <1>5, <2>2
<1>7. two = Peek(s, 1)
  BY <1>3, <1>5
<1>8. ~Colons(i) /\ Pair(i) # <<"%", ":">> /\ Digraph(Pair(i)) = Pair(i)
  BY PairIsLonger, ShiftsAre DEF Colons
<1>9. CASE ~(i + 3 <= Len(text))
  <2>1. two.char = Nul /\ Lost(two.rest) /\ Located(two.rest)
    BY <1>7, <1>9, BehindIs
  <2>2. Nul # "="
    BY DEF Nul
  <2>3. more = [kind |-> Digraph(Pair(i)), length |-> 1, rest |-> two.rest]
    BY <1>6, <1>8, <2>1, <2>2
  <2>4. Gone(i, more)
    BY <1>1, <1>8, <1>9, <2>1, <2>3, PairIsGone
  <2> QED BY <1>4, <2>4
<1>10. CASE i + 3 <= Len(text) /\ text[i + 3] # "="
  <2>1. two.char = text[i + 3] /\ two.rest = s
    BY <1>7, <1>10, BehindIs
  <2>2. more = [kind |-> Digraph(Pair(i)), length |-> 1, rest |-> s]
    BY <1>6, <1>8, <1>10, <2>1
  <2>3. Kept(i, more)
    BY <1>1, <1>8, <1>10, <2>2, PairIsKept
  <2> QED BY <1>4, <2>3
<1>11. CASE i + 3 <= Len(text) /\ text[i + 3] = "="
  <2>1. two.char = "=" /\ two.rest = s
    BY <1>7, <1>11, BehindIs
  <2>2. PICK triple : triple = <<text[i + 1], text[i + 2], text[i + 3]>>
    OBVIOUS
  <2>3. Append(Pair(i), "=") = triple
    <3>1. Append(<<text[i + 1], text[i + 2]>>, "=") = <<text[i + 1], text[i + 2], "=">>
      BY Concatenated
    <3> QED BY <1>11, <2>2, <3>1 DEF Pair
  <2>4. more = [kind |-> triple, length |-> 2, rest |-> s]
    BY <1>6, <2>1, <2>3
  <2>5. triple \in Triples
    BY <1>11, <2>2, TripleIs DEF Pair
  <2>6. CutTo(i, i + 3, triple, 0) /\ Reference!TextOf(Reference!Piece(i, i + 3)) = triple
    BY <1>1, <1>11, <2>2, <2>5, TripleCut
  <2>7. /\ Good(GetStr(s, 2).rest) /\ GetStr(s, 2).rest.pos = i + 3
        /\ GetStr(s, 2).chars = <<text[i + 2], text[i + 3]>>
    <3>1. i + 1 \in Nat /\ (i + 1) + 1 = i + 2 /\ (i + 1) + 2 = i + 3 /\ 2 \in 1..3
      BY <1>1
    <3>2. \A k \in ((i + 1) + 1)..((i + 1) + 2) : text[k] \notin Ends
      <4> TAKE k \in ((i + 1) + 1)..((i + 1) + 2)
      <4>1. k = i + 2 \/ k = i + 3
        BY <1>1
      <4>2. "=" \notin Ends
        BY DEF Ends, Newline, Return
      <4>3. text[i + 2] \notin Ends
        BY <1>1, SecondIsSpecial DEF Pair
      <4> QED BY <1>11, <4>1, <4>2, <4>3
    <3> QED BY <1>1, <1>11, <3>1, <3>2, GetStrGood
  <2>8. <<text[i + 1]>> \o <<text[i + 2], text[i + 3]>> = triple
    BY <2>2, Concatenated
  <2>9. (i + 3) + 0 <= Len(text)
    BY <1>1, <1>11
  <2>10. Kept(i, more)
    BY <2>4, <2>6, <2>7, <2>8, <2>9, KeptIf
  <2> QED BY <1>4, <2>10
<1> QED BY <1>9, <1>10, <1>11

\* %:, another spelling of #, which a second one can follow.
LEMMA CutsColon ==
  ASSUME NEW i, NEW s, Behind(i, s), i + 2 <= Len(text), Pair(i) = <<"%", ":">>, NEW c, c = text[i + 1]
  PROVE  Kept(i, Extension(c, s)) \/ Gone(i, Extension(c, s))
<1>1. /\ text \in Seq(Char) /\ i \in Nat /\ Len(text) \in Nat /\ Located(s) /\ Good(s) /\ s.pos = i + 1
      /\ NoSkips(i) /\ Pair(i) \in Pairs /\ Pair(i) \notin Shifts
  BY PairIsLonger DEF Behind
<1>2. PICK one : one = Peek(s, 0)
  OBVIOUS
<1>3. PICK colons : colons = PeekStr(one.rest, 3)
  OBVIOUS
<1>4. PICK more : more = Extension(c, s)
  OBVIOUS
<1>5. one.rest = s /\ <<c, one.char>> = <<"%", ":">>
  BY <1>2, BehindIs DEF Pair
<1>6. /\ colons.chars = <<":", "%", ":">> => more = [kind |-> <<"#", "#">>, length |-> 3, rest |-> colons.rest]
      /\ colons.chars # <<":", "%", ":">> => more = [kind |-> <<"#">>, length |-> 1, rest |-> colons.rest]
  BY <1>2, <1>3, <1>4, <1>5, ExtensionIs
<1>7. colons = PeekStr(s, 3)
  BY <1>3, <1>5
<1>8. Digraph(Pair(i)) = <<"#">>
  BY ShiftsAre
<1>9. s.pos + 1 = i + 2 /\ s.pos + 3 = i + 4 /\ 3 \in Nat /\ text[i + 1] = "%" /\ text[i + 2] = ":"
  BY <1>1 DEF Pair
<1>10. CASE ~(i + 4 <= Len(text))
  <2>1. colons.chars = <<>> /\ Lost(colons.rest)
    BY <1>1, <1>7, <1>9, <1>10, PeekStrGood
  <2>2. Located(colons.rest)
    BY <1>1, <1>7, PeekStrIsLocated
  <2>3. more = [kind |-> Digraph(Pair(i)), length |-> 1, rest |-> colons.rest]
    <3>1. <<>> # <<":", "%", ":">>
      OBVIOUS
    <3> QED BY <1>6, <1>8, <2>1, <3>1
  <2>4. Gone(i, more)
    BY <1>1, <1>10, <2>1, <2>2, <2>3, PairIsGone
  <2> QED BY <1>4, <2>4
<1>11. CASE i + 4 <= Len(text)
  <2>1. colons.chars = <<text[i + 2], text[i + 3], text[i + 4]>> /\ colons.rest = s
    <3>1. PICK t : t = SubSeq(text, i + 2, i + 4)
      OBVIOUS
    <3>2. t \in Seq(Char) /\ Len(t) = 3 /\ t[1] = text[i + 2] /\ t[2] = text[i + 3] /\ t[3] = text[i + 4]
      BY <1>1, <1>11, <3>1
    <3>3. t = <<text[i + 2], text[i + 3], text[i + 4]>>
      BY <3>2, Longhand
    <3>4. PeekStr(s, 3).chars = SubSeq(text, s.pos + 1, s.pos + 3) /\ PeekStr(s, 3).rest = s
      BY <1>1, <1>9, <1>11, PeekStrGood
    <3> QED BY <1>7, <1>9, <3>1, <3>3, <3>4
  <2>2. CASE Colons(i)
    <3>1. text[i + 3] = "%" /\ text[i + 4] = ":"
      BY <2>2 DEF Colons
    <3>2. colons.chars = <<":", "%", ":">>
      BY <1>9, <2>1, <3>1
    <3>3. more = [kind |-> <<"#", "#">>, length |-> 3, rest |-> s]
      BY <1>6, <2>1, <3>2
    <3>4. /\ CutTo(i, i + 4, <<"#", "#">>, 0)
          /\ Reference!TextOf(Reference!Piece(i, i + 4)) = <<"%", ":", "%", ":">>
      BY <1>1, <2>2, ColonsCut
    <3>5. /\ Good(GetStr(s, 3).rest) /\ GetStr(s, 3).rest.pos = i + 4
          /\ GetStr(s, 3).chars = <<":", "%", ":">>
      <4>1. /\ i + 1 \in Nat /\ (i + 1) + 1 = i + 2 /\ (i + 1) + 2 = i + 3 /\ (i + 1) + 3 = i + 4
            /\ 3 \in 1..3
        BY <1>1
      <4>2. \A k \in ((i + 1) + 1)..((i + 1) + 3) : text[k] \notin Ends
        <5> TAKE k \in ((i + 1) + 1)..((i + 1) + 3)
        <5>1. k = i + 2 \/ k = i + 3 \/ k = i + 4
          BY <1>1
        <5>2. {"%", ":"} \cap Ends = {}
          BY DEF Ends, Newline, Return
        <5> QED BY <1>9, <3>1, <5>1, <5>2
      <4>3. GetStr(s, 3).chars = <<text[(i + 1) + 1], text[(i + 1) + 2], text[(i + 1) + 3]>>
            /\ Good(GetStr(s, 3).rest) /\ GetStr(s, 3).rest.pos = (i + 1) + 3
        BY <1>1, <1>11, <4>1, <4>2, GetStrGood
      <4>4. text[(i + 1) + 1] = ":" /\ text[(i + 1) + 2] = "%" /\ text[(i + 1) + 3] = ":"
        BY <1>9, <3>1, <4>1
      <4> QED BY <4>1, <4>3, <4>4
    <3>6. <<"%">> \o <<":", "%", ":">> = <<"%", ":", "%", ":">>
      BY Concatenated
    <3>7. (i + 4) + 0 <= Len(text)
      BY <1>1, <1>11
    <3>8. Kept(i, more)
      BY <1>9, <3>3, <3>4, <3>5, <3>6, <3>7, KeptIf
    <3> QED BY <1>4, <3>8
  <2>3. CASE ~Colons(i)
    <3>1. colons.chars # <<":", "%", ":">>
      BY <1>11, <2>1, <2>3 DEF Colons
    <3>2. more = [kind |-> Digraph(Pair(i)), length |-> 1, rest |-> s]
      BY <1>6, <1>8, <2>1, <3>1
    <3>3. Kept(i, more)
      BY <1>1, <1>11, <2>3, <3>2, PairIsKept
    <3> QED BY <1>4, <3>3
  <2> QED BY <2>2, <2>3
<1> QED BY <1>10, <1>11

LEMMA CutsPair ==
  ASSUME NEW i, NEW s, Behind(i, s), i + 2 <= Len(text), Pair(i) \in Pairs \ (Shifts \cup {<<"%", ":">>}),
         NEW c, c = text[i + 1]
  PROVE  Kept(i, Extension(c, s))
<1>1. PICK one : one = Peek(s, 0)
  OBVIOUS
<1>2. PICK more : more = Extension(c, s)
  OBVIOUS
<1>3. one.rest = s /\ <<c, one.char>> = Pair(i)
  BY <1>1, BehindIs DEF Pair
<1>4. more = [kind |-> Digraph(Pair(i)), length |-> 1, rest |-> s]
  BY <1>1, <1>2, <1>3, ExtensionIs
<1>5. ~Colons(i)
  BY DEF Colons
<1>6. Kept(i, more)
  BY <1>4, <1>5, PairIsKept
<1> QED BY <1>2, <1>6

LEMMA ExtensionCuts ==
  ASSUME NEW i, NEW s, Behind(i, s), NEW c, c = text[i + 1], c = "/" => i + 2 <= Len(text)
  PROVE  Kept(i, Extension(c, s)) \/ Gone(i, Extension(c, s))
<1>1. CASE c = "."
  BY <1>1, CutsDot
<1>2. CASE c # "." /\ (i + 2 <= Len(text) => Pair(i) \notin Pairs)
  BY <1>2, CutsSingle
<1>3. CASE i + 2 <= Len(text) /\ Pair(i) \in Shifts
  BY <1>3, CutsShift
<1>4. CASE i + 2 <= Len(text) /\ Pair(i) = <<"%", ":">>
  BY <1>4, CutsColon
<1>5. CASE i + 2 <= Len(text) /\ Pair(i) \in Pairs \ (Shifts \cup {<<"%", ":">>})
  BY <1>5, CutsPair
<1> QED BY <1>1, <1>2, <1>3, <1>4, <1>5

\* A token in one step, when the stream ends within the look ahead behind it.
LEMMA TokenAtTheEnd ==
  ASSUME Inv, Verdict = "none", CutOff = stream.pos, Good(stream), UNCHANGED text, NEW str \in Seq(CharInput),
         NEW j, NEW kind, NEW ahead, CutTo(stream.pos, j, kind, ahead), ~(j + ahead <= Len(text)),
         Reference!Piece(stream.pos, j) # <<"/">>,
         str \in {Reference!TextOf(Reference!Piece(stream.pos, j)), <<text[stream.pos + 1], Other>>},
         Return_(stream, kind, str), Lost(stream')
  PROVE  Step /\ LoopsReadTheirTokens'
<1>1. Named /\ LexerTypeOK /\ Stands(stream, stream.pos)
  BY InvIs
<1>2. MakeToken(stream, kind, str) /\ pc' = "next"
  BY DEF Return_
<1>3. Named'
  BY <1>1, <1>2, TokenIs DEF Stands
<1>4. LoopsReadTheirTokens' /\ Verdict' = "lost"
  BY <1>2, <1>3, ToNext
<1> QED BY <1>1, <1>2, <1>4, LoseStep

LEMMA ReadPunctuatorIs ==
  ASSUME Inv, ReadPunctuator
  PROVE  Step /\ LoopsReadTheirTokens'
<1>1. PICK i : i = stream.pos
  OBVIOUS
<1>2. PICK c : c = Ahead.char
  OBVIOUS
<1>3. PICK begin : begin = IF c = "/" THEN BehindSlash.rest ELSE Ahead.rest
  OBVIOUS
<1>4. PICK first : first = Get(begin)
  OBVIOUS
<1>5. PICK more : more = Extension(first.char, first.rest)
  OBVIOUS
<1>6. PICK rest : rest = GetStr(more.rest, more.length)
  OBVIOUS
<1>7. /\ pc = "next" /\ c \in Special /\ (c = "/" => BehindSlash.char \notin {"/", "*"})
      /\ text' = text
      /\ first.char \in Special =>
           stream' = rest.rest /\ Return_(stream, more.kind, <<first.char>> \o rest.chars)
      /\ first.char \notin Special => Stop("aborted")
  BY <1>2, <1>3, <1>4, <1>5, <1>6 DEF ReadPunctuator
<1>8. c \notin {Nul, Other} /\ c \notin Ends
  BY <1>7, SpecialIsPlain
<1>9. /\ Good(stream) /\ i < Len(text) /\ c = text[i + 1]
      /\ Ahead.rest = stream /\ Verdict = "none" /\ CutOff = i
  BY <1>1, <1>2, <1>7, <1>8, NextIs
<1>10. /\ text \in Seq(Char) /\ i \in Nat /\ Len(text) \in Nat /\ Located(stream) /\ Named
  BY <1>1, InvIs
<1>11. CASE c = "/" /\ ~(i + 2 <= Len(text))
  <2>1. Lost(begin) /\ Located(begin)
    <3>1. Lost(BehindSlash.rest)
      BY <1>1, <1>2, <1>7, <1>11, SlashAhead
    <3>2. BehindSlash = Peek(stream, 1)
      BY <1>9 DEF BehindSlash
    <3> QED BY <1>3, <1>10, <1>11, <3>1, <3>2, PeekIsLocated
  <2>2. first.char = Other
    BY <1>4, <1>10, <2>1, ReadLost
  <2>3. Stop("aborted")
    BY <1>7, <2>2, SpecialIsPlain
  <2>4. UNCHANGED <<text, tokens, pool>> /\ pc' = "aborted"
    BY <1>7, <2>3 DEF Stop
  <2>5. NoSkips(i) /\ ~Dots(i) /\ "/" # "." /\ "/" \notin Lone
    BY <1>9, <1>11 DEF NoSkips, Dots, Lone
  <2>6. CutTo(i, i + 1, <<"/">>, 1) /\ Reference!Piece(i, i + 1) = <<"/">>
    BY <1>7, <1>9, <1>10, <1>11, <2>5, SingleCut
  <2>7. ~((i + 1) + 1 <= Len(text))
    BY <1>10, <1>11
  <2>8. Verdict' = "aborted"
    BY <2>4 DEF Verdict
  <2>9. Step
    BY <1>9, <1>10, <2>4, <2>6, <2>7, <2>8, AbortStep
  <2>10. Named'
    BY <1>10, <2>4, SameTokens
  <2> QED BY <2>4, <2>9, <2>10 DEF LoopsReadTheirTokens, Loop, Named, LoopPc
<1>12. CASE c = "/" => i + 2 <= Len(text)
  <2>1. begin = stream /\ NoSkips(i)
    <3>1. CASE c = "/"
      <4>1. BehindSlash.char = text[i + 2] /\ BehindSlash.rest = stream
        BY <1>1, <1>2, <1>7, <1>12, <3>1, SlashAhead
      <4> QED BY <1>3, <1>7, <3>1, <4>1 DEF NoSkips
    <3>2. CASE c # "/"
      BY <1>3, <1>9, <3>2 DEF NoSkips
    <3> QED BY <3>1, <3>2
  <2>2. first.char = c /\ Good(first.rest) /\ first.rest.pos = i + 1 /\ Located(first.rest)
    BY <1>1, <1>4, <1>8, <1>9, <1>10, <2>1, GetPlain
  <2>3. Behind(i, first.rest)
    BY <1>7, <1>9, <1>10, <2>1, <2>2 DEF Behind
  <2>4. Kept(i, more) \/ Gone(i, more)
    BY <1>5, <1>9, <1>12, <2>2, <2>3, ExtensionCuts
  <2>5. PICK str : str = <<c>> \o rest.chars
    OBVIOUS
  <2>6. str \in Seq(CharInput)
    <3>1. more.length \in 0..3 /\ Located(more.rest)
      BY <1>5, <1>7, <1>10, <2>2, ExtensionIsLocated
    <3>2. rest.chars \in Seq(CharInput)
      BY <1>6, <1>10, <3>1, GetStrIsLocated
    <3>3. c \in CharInput
      BY <1>7, SpecialIsPlain
    <3> QED BY <2>5, <3>2, <3>3, SMTT(20)
  <2>7. stream' = rest.rest /\ Return_(stream, more.kind, str)
    BY <1>7, <2>2, <2>5
  <2>8. CASE Kept(i, more)
    <3>1. PICK j, ahead : /\ CutTo(i, j, more.kind, ahead) /\ j + ahead <= Len(text)
                          /\ Good(rest.rest) /\ rest.rest.pos = j
                          /\ <<text[i + 1]>> \o rest.chars = Reference!TextOf(Reference!Piece(i, j))
      BY <1>6, <2>8 DEF Kept
    <3>2. Good(stream') /\ stream'.pos = j /\ str = Reference!TextOf(Reference!Piece(i, j))
      BY <1>9, <2>5, <2>7, <3>1
    <3> QED BY <1>1, <1>7, <1>9, <2>6, <2>7, <3>1, <3>2, TokenInOneStep
  <2>9. CASE Gone(i, more)
    <3>1. PICK j, ahead : /\ CutTo(i, j, more.kind, ahead) /\ ~(j + ahead <= Len(text))
                          /\ Lost(rest.rest) /\ Reference!Piece(i, j) # <<"/">>
                          /\ <<text[i + 1]>> \o rest.chars \in
                               {Reference!TextOf(Reference!Piece(i, j)), <<text[i + 1], Other>>}
      BY <1>6, <2>9 DEF Gone
    <3>2. Lost(stream')
      BY <2>7, <3>1
    <3>3. str \in {Reference!TextOf(Reference!Piece(i, j)), <<text[i + 1], Other>>}
      BY <1>9, <2>5, <3>1
    <3> QED BY <1>1, <1>7, <1>9, <2>6, <2>7, <3>1, <3>2, <3>3, TokenAtTheEnd
  <2> QED BY <2>4, <2>8, <2>9
<1> QED BY <1>11, <1>12

(* The refinement *)

LEMMA InitIsCorrect == Init => Inv /\ Reference!Init
<1> SUFFICES ASSUME Init PROVE Inv /\ Reference!Init
  OBVIOUS
<1>1. IInv
  BY InitEstablishesInvariant
<1>2. /\ stream = OpenedStream /\ start = OpenedStream /\ pc = "next" /\ tokens = <<>>
  BY DEF Init
<1>3. Good(stream) /\ stream.pos = 0 /\ ~stream.eof
  BY <1>2 DEF OpenedStream, Good
<1>4. Len(tokens) = 0 /\ 1..Len(tokens) = {}
  BY <1>2
<1>5. LoopsReadTheirTokens
  BY <1>2, <1>3, <1>4 DEF LoopsReadTheirTokens, Loop
<1>6. Mapped = <<>>
  BY <1>4 DEF Mapped
<1>7. CutOff = 0 /\ Verdict = "none"
  BY <1>2, <1>3 DEF CutOff, Verdict
<1> QED BY <1>1, <1>5, <1>6, <1>7 DEF Inv, Reference!Init, Mapped

LEMMA StutterKeepsLoops ==
  ASSUME LoopsReadTheirTokens, UNCHANGED <<text, stream, start, pc, symbol, tokens, pool>>
  PROVE  LoopsReadTheirTokens'
<1>1. /\ text' = text /\ stream' = stream /\ start' = start /\ pc' = pc
      /\ symbol' = symbol /\ tokens' = tokens /\ pool' = pool
  OBVIOUS
<1>2. /\ Good(stream)' = Good(stream) /\ Lost(stream)' = Lost(stream) /\ Good(start)' = Good(start)
      /\ Ended(stream)' = Ended(stream)
  BY <1>1 DEF Good, Lost, Ended
<1>3. \A C, D : Collects(C, D) => Collects(C, D)'
  BY <1>1, <1>2 DEF Collects, Reference!Piece
<1>4. \A i, j : OpenString(i, j)' = OpenString(i, j) /\ OpenComment(i, j)' = OpenComment(i, j)
  BY <1>1 DEF OpenString, StringChar, Esc, OpenComment, Closes, Reference!Piece
<1>5. CollectsString => CollectsString'
  BY <1>1, <1>2, <1>4 DEF CollectsString, Reference!Piece
<1>6. SkipsLine => SkipsLine'
  BY <1>1, <1>2 DEF SkipsLine
<1>7. (SkipsComment => SkipsComment') /\ (SkipsStars => SkipsStars')
  BY <1>1, <1>2, <1>4 DEF SkipsComment, SkipsStars
<1>8. Loop'
  BY <1>1, <1>2, <1>3, <1>5, <1>6, <1>7 DEF Loop, LoopsReadTheirTokens
<1> QED BY <1>1, <1>2, <1>8 DEF LoopsReadTheirTokens

LEMMA StepIsCorrect == Inv /\ [Next]_vars => Inv' /\ Step
<1> SUFFICES ASSUME Inv, [Next]_vars PROVE LoopsReadTheirTokens' /\ Step
  BY NextKeepsInvariant DEF Inv
<1>1. CASE SkipBlank
  BY <1>1, SkipBlankIs
<1>2. CASE ReadEnd
  BY <1>2, ReadEndIs
<1>3. CASE UnknownToken
  BY <1>3, UnknownTokenIs
<1>4. CASE StartWord
  BY <1>4, StartWordIs
<1>5. CASE ReadWord
  BY <1>5, ReadWordIs
<1>6. CASE EndWord
  BY <1>6, EndWordIs
<1>7. CASE ReadZero
  BY <1>7, ReadZeroIs
<1>8. CASE StartNumber
  BY <1>8, StartNumberIs
<1>9. CASE ReadNumber
  BY <1>9, ReadNumberIs
<1>10. CASE EndNumber
  BY <1>10, EndNumberIs
<1>11. CASE ReadCharConstant
  BY <1>11, ReadCharConstantIs
<1>12. CASE StartString
  BY <1>12, StartStringIs
<1>13. CASE ReadString
  BY <1>13, ReadStringIs
<1>14. CASE ReadEscape
  BY <1>14, ReadEscapeIs
<1>15. CASE UnclosedString
  BY <1>15, UnclosedStringIs
<1>16. CASE EndString
  BY <1>16, EndStringIs
<1>17. CASE StartLineComment
  BY <1>17, StartLineCommentIs
<1>18. CASE ReadLineComment
  BY <1>18, ReadLineCommentIs
<1>19. CASE StartComment
  BY <1>19, StartCommentIs
<1>20. CASE ReadComment
  BY <1>20, ReadCommentIs
<1>21. CASE ReadStars
  BY <1>21, ReadStarsIs
<1>22. CASE UnclosedComment
  BY <1>22, UnclosedCommentIs
<1>23. CASE ReadPunctuator
  BY <1>23, ReadPunctuatorIs
<1>24. CASE UNCHANGED vars
  <2>1. /\ UNCHANGED <<text, tokens, pool>> /\ stream' = stream /\ start' = start /\ pc' = pc
        /\ symbol' = symbol
    BY <1>24 DEF vars
  <2>2. CutOff' = CutOff /\ Verdict' = Verdict
    BY <2>1 DEF CutOff, Verdict, Good
  <2>3. Step
    BY <2>1, <2>2, StutterStep, InvIs
  <2>4. LoopsReadTheirTokens'
    BY <2>1, StutterKeepsLoops DEF Inv
  <2> QED BY <2>3, <2>4
<1> QED
  BY <1>1, <1>2, <1>3, <1>4, <1>5, <1>6, <1>7, <1>8, <1>9, <1>10, <1>11, <1>12, <1>13, <1>14,
     <1>15, <1>16, <1>17, <1>18, <1>19, <1>20, <1>21, <1>22, <1>23, <1>24 DEF Next

(* The theorems *)

\* The state of the lexer is well-typed, for every file: the stream, which the
\* look ahead moves back, never stands in front of the file.
THEOREM LexerIsTypeCorrect == Spec => []LexerTypeOK
<1>1. IInv => LexerTypeOK
  BY DEF IInv
<1> QED
  BY <1>1, InitEstablishesInvariant, NextKeepsInvariant, PTL DEF Spec

\* For every file, the line and the column of every token are those of its first
\* character.
THEOREM PlacesAreCorrect == Spec => []LocationsFollowPositions
<1>1. IInv => LocationsFollowPositions
  BY DEF IInv, Located, LocationsFollowPositions
<1> QED
  BY <1>1, InitEstablishesInvariant, NextKeepsInvariant, PTL DEF Spec

\* Every loop of the lexer has read its token or comment and nothing else, for
\* every file.
THEOREM LoopsAreCorrect == Spec => []LoopsReadTheirTokens
<1>1. Inv => LoopsReadTheirTokens
  BY DEF Inv
<1> QED BY <1>1, InitIsCorrect, StepIsCorrect, PTL DEF Spec

\* The lexer cuts every file, of every length and of all characters, into the
\* longest tokens, blanks and comments.
THEOREM LexerCutsLikeTheTokenization == Spec => LexerImplementsTokenization
BY InitIsCorrect, StepIsCorrect, PTL DEF Spec, LexerImplementsTokenization, Reference!Spec, Step
================================================================================
