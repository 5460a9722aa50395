---------------------------- MODULE CharacterStream ----------------------------
(***************************************************************************)
(* LocatableStream: reading, and looking ahead in, a source file, on top   *)
(* of the flags of std::ifstream.                                          *)
(*                                                                         *)
(* Looking ahead is reading followed by unget.  unget clears eofbit, but   *)
(* it puts nothing back while failbit is set: a look beyond the last       *)
(* character loses the characters before the end and leaves a stream whose *)
(* reads fail without reporting the end of the file.                       *)
(***************************************************************************)
EXTENDS Integers, Sequences, Characters

VARIABLES
  text,     \* the file
  stream    \* the state of the stream

Stream == [pos : Nat, eof : BOOLEAN, fail : BOOLEAN, line : Nat \ {0}, column : Nat \ {0}]

OpenedStream == [pos |-> 0, eof |-> FALSE, fail |-> FALSE, line |-> 1, column |-> 1]

Good(s) == ~s.eof /\ ~s.fail
AtEnd(s) == s.pos = Len(text)

\* std::istream::get, and the end of the file as Nul.  A read of a stream that
\* is not good sets failbit and returns 0xff; only eofbit makes that the end.
GetOrEof(s) ==
  CASE Good(s) /\ ~AtEnd(s) -> [char |-> text[s.pos + 1], rest |-> [s EXCEPT !.pos = @ + 1]]
    [] Good(s) /\ AtEnd(s)  -> [char |-> Nul, rest |-> [s EXCEPT !.eof = TRUE, !.fail = TRUE]]
    [] s.eof                -> [char |-> Nul, rest |-> [s EXCEPT !.fail = TRUE]]
    [] s.fail /\ ~s.eof     -> [char |-> Other, rest |-> s]

\* \r and \r\n are one newline.  std::istream::peek sets eofbit at the end.
KeepLineFeed(s) == IF AtEnd(s) THEN [s EXCEPT !.eof = TRUE] ELSE s   \* mutant: \r\n is two newlines
SkipLineFeed(s) ==
  CASE AtEnd(s) -> [s EXCEPT !.eof = TRUE]
    [] ~AtEnd(s) /\ text[s.pos + 1] = Newline -> [s EXCEPT !.pos = @ + 1]
    [] OTHER -> s

\* Mutants: the column is not reset; it is reset to 0.
NextLineSameColumn(s) == [s EXCEPT !.line = @ + 1]
NextLineColumnZero(s) == [s EXCEPT !.line = @ + 1, !.column = 0]
NextLine(s) == [s EXCEPT !.line = @ + 1, !.column = 1]

Get(s) ==
  LET read == GetOrEof(s)
  IN  CASE read.char = Newline -> [char |-> Newline, rest |-> NextLine(read.rest)]
        [] read.char = Return  -> [char |-> Newline, rest |-> NextLine(SkipLineFeed(read.rest))]
        [] OTHER -> [char |-> read.char, rest |-> [read.rest EXCEPT !.column = @ + 1]]

\* Bound: the lexer reads at most three characters at a time.
GetStr(s, length) ==
  LET first == Get(s)  second == Get(first.rest)  third == Get(second.rest)
  IN  CASE length = 0 -> [chars |-> <<>>, rest |-> s]
        [] length = 1 -> [chars |-> <<first.char>>, rest |-> first.rest]
        [] length = 2 -> [chars |-> <<first.char, second.char>>, rest |-> second.rest]
        [] length = 3 -> [chars |-> <<first.char, second.char, third.char>>, rest |-> third.rest]

Unget(s, length) ==
  IF s.fail THEN [s EXCEPT !.eof = FALSE]
            ELSE [s EXCEPT !.eof = FALSE, !.pos = @ - length]

\* Bound: the offset of a peek is 0 or 1.
Peek(s, offset) ==
  LET first == GetOrEof(s)
      last  == IF offset = 1 THEN GetOrEof(first.rest) ELSE first
  IN  [char |-> last.char, rest |-> Unget(last.rest, offset + 1)]

\* std::istream::read of fewer characters than asked for sets both flags.
PeekStr(s, length) ==
  IF Good(s) /\ s.pos + length <= Len(text)
  THEN [chars |-> SubSeq(text, s.pos + 1, s.pos + length), rest |-> s]
  ELSE [chars |-> <<>>, rest |-> [s EXCEPT !.fail = TRUE, !.eof = FALSE,
                                           !.pos = IF Good(s) THEN Len(text) ELSE @]]
================================================================================
