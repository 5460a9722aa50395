-------------------------------- MODULE Lexer --------------------------------
(***************************************************************************)
(* The lexer: Lexer::next called again and again, as the parser and        *)
(* printTokens do, until it returns the end of the input.                  *)
(*                                                                         *)
(* A step is one turn of a loop of next or of the function it has called;  *)
(* "pc" is that loop.  A call of fail ends the process.                    *)
(***************************************************************************)
EXTENDS CharacterStream

CONSTANTS
  Vocabularies,   \* bound: a file has the characters of one of these sets
  MaxLength       \* bound: the number of its characters, for each

VARIABLES
  pc,
  start,    \* the stream where the token or comment starts (the code keeps its line and column)
  symbol,   \* the characters the function has collected
  tokens,   \* the tokens returned
  pool      \* string_set; a Symbol is the index of its string

vars == <<text, stream, pc, start, symbol, tokens, pool>>

ASSUME VocabularyAssumption ==
  Vocabularies \subseteq SUBSET Char /\ MaxLength \in [Vocabularies -> Nat]

LoopPc == {"next", "word", "number", "string", "line comment", "comment", "stars"}
LexerTypeOK ==
  /\ text \in Seq(Char)
  /\ stream \in Stream /\ start \in Stream
  /\ pc \in LoopPc \cup {"done", "failed", "aborted"}
  /\ symbol \in Seq(Char \cup {Nul})
  /\ tokens \in Seq([line : Nat, column : Nat, kind : Seq(KindName), symbol : Nat])
  /\ pool \in Seq(Seq(Char \cup {Nul}))

Init ==
  /\ \E v \in Vocabularies : \E n \in 0..MaxLength[v] : text \in [1..n -> v]
  /\ stream = OpenedStream /\ start = OpenedStream
  /\ pc = "next" /\ symbol = <<>> /\ tokens = <<>> /\ pool = <<>>

\* The next character, as each turn of a loop but those of getLine and of the
\* inner loop of readMultiComment sees it.
Ahead == Peek(stream, 0)

(* Tokens and errors *)

IsInternalized(str) == \E i \in 1..Len(pool) : pool[i] = str
Internalize(str) == IF IsInternalized(str) THEN pool ELSE Append(pool, str)
SymbolOf(str, strings) == CHOOSE i \in 1..Len(strings) : strings[i] = str

MakeToken(at, kind, str) ==
  /\ pool' = Internalize(str)
  /\ tokens' = Append(tokens, [line |-> at.line, column |-> at.column, kind |-> kind,
                               symbol |-> SymbolOf(str, pool')])

Return_(at, kind, str) == MakeToken(at, kind, str) /\ pc' = "next" /\ symbol' = <<>>

Stop(reason) == pc' = reason /\ UNCHANGED <<symbol, tokens, pool>>

\* A loop goes on, or starts.
Continue(where, s, str) ==
  /\ pc' = where /\ stream' = s /\ symbol' = str
  /\ UNCHANGED <<text, tokens, pool>>

(* Between tokens *)

SkipNoBlank ==   \* mutant: the blank is looked at and not read
  /\ pc = "next" /\ Ahead.char \in Blank
  /\ Continue("next", Ahead.rest, symbol)
  /\ UNCHANGED start

SkipBlank ==
  /\ pc = "next" /\ Ahead.char \in Blank
  /\ Continue("next", Get(Ahead.rest).rest, symbol)
  /\ UNCHANGED start

ReadEnd ==
  /\ pc = "next" /\ Ahead.char = Nul
  /\ stream' = Ahead.rest
  /\ MakeToken(Ahead.rest, EndOfInput, <<>>)
  /\ pc' = "done" /\ UNCHANGED <<text, start, symbol>>

UnknownToken ==
  /\ pc = "next" /\ Ahead.char \in {Other, Backslash}
  /\ stream' = Ahead.rest /\ Stop("failed")
  /\ UNCHANGED <<text, start>>

(* Identifiers, keywords and numbers *)

StartWord ==
  /\ pc = "next" /\ Ahead.char \in Letter
  /\ start' = stream
  /\ LET read == Get(Ahead.rest) IN Continue("word", read.rest, <<read.char>>)

ReadWord ==
  /\ pc = "word" /\ Ahead.char \in Letter \cup Digit
  /\ Continue("word", Get(Ahead.rest).rest, Append(symbol, Ahead.char))
  /\ UNCHANGED start

EndWord ==
  /\ pc = "word" /\ Ahead.char \notin Letter \cup Digit
  /\ stream' = Ahead.rest
  /\ Return_(start, IF symbol \in Keywords THEN <<"keyword">> ELSE <<"identifier">>, symbol)
  /\ UNCHANGED <<text, start>>

ReadZero ==
  /\ pc = "next" /\ Ahead.char = "0"
  /\ start' = stream
  /\ stream' = Get(Ahead.rest).rest
  /\ Return_(stream, <<"zero">>, <<"0">>)
  /\ UNCHANGED text

StartNumber ==
  /\ pc = "next" /\ Ahead.char \in Digit \ {"0"}
  /\ start' = stream
  /\ LET read == Get(Ahead.rest) IN Continue("number", read.rest, <<read.char>>)

ReadNumber ==
  /\ pc = "number" /\ Ahead.char \in Digit
  /\ Continue("number", Get(Ahead.rest).rest, Append(symbol, Ahead.char))
  /\ UNCHANGED start

EndNumber ==
  /\ pc = "number" /\ Ahead.char \notin Digit
  /\ stream' = Ahead.rest
  /\ Return_(start, <<"decimal">>, symbol)
  /\ UNCHANGED <<text, start>>

(* Character constants and string literals *)

\* The reads behind the opening quote; what follows an error is not read.
FinishCharConstant(first, inner, close) ==
  IF /\ first.char \notin {Nul, "'", Newline}
     /\ first.char = Backslash => inner.char \in Escapes
     /\ close.char = "'"
  THEN /\ stream' = close.rest
       /\ Return_(stream, <<"character">>,
            IF first.char = Backslash THEN <<"'", Backslash, inner.char, "'">>
                                      ELSE <<"'", first.char, "'">>)
  ELSE stream' = Ahead.rest /\ Stop("failed")

ReadCharConstant ==
  /\ pc = "next" /\ Ahead.char = "'"
  /\ start' = stream
  /\ \E open \in {Get(Ahead.rest)} : \E first \in {Get(open.rest)} :
     \E inner \in {IF first.char = Backslash THEN Get(first.rest) ELSE first} :
     \E close \in {Get(inner.rest)} : FinishCharConstant(first, inner, close)
  /\ UNCHANGED text

StartString ==
  /\ pc = "next" /\ Ahead.char = "quote"
  /\ start' = stream
  /\ Continue("string", Get(Ahead.rest).rest, <<>>)

ReadString ==
  /\ pc = "string" /\ Ahead.char \notin {"quote", Nul, Newline, Backslash}
  /\ Continue("string", Get(Ahead.rest).rest, Append(symbol, Ahead.char))
  /\ UNCHANGED start

ReadEscape ==
  /\ pc = "string" /\ Ahead.char = Backslash
  /\ \E escape \in {Get(Get(Ahead.rest).rest)} :
         IF escape.char \in Escapes
         THEN Continue("string", escape.rest, symbol \o <<Backslash, escape.char>>)
         ELSE stream' = escape.rest /\ Stop("failed") /\ UNCHANGED text
  /\ UNCHANGED start

UnclosedString ==
  /\ pc = "string" /\ Ahead.char \in {Nul, Newline}
  /\ stream' = Ahead.rest /\ Stop("failed")
  /\ UNCHANGED <<text, start>>

EndString ==
  /\ pc = "string" /\ Ahead.char = "quote"
  /\ stream' = Get(Ahead.rest).rest
  /\ Return_(start, <<"string">>, <<"quote">> \o symbol \o <<"quote">>)
  /\ UNCHANGED <<text, start>>

(* Comments *)

\* What follows a slash is looked at before it is known to be a comment.
BehindSlash == Peek(Ahead.rest, 1)

StartLineComment ==
  /\ pc = "next" /\ Ahead.char = "/" /\ BehindSlash.char = "/"
  /\ start' = stream
  /\ Continue("line comment", BehindSlash.rest, <<>>)

ReadLineComment ==
  /\ pc = "line comment"
  /\ LET read == Get(stream)
     IN  Continue(IF read.char \in {Newline, Nul} THEN "next" ELSE pc, read.rest, <<>>)
  /\ UNCHANGED start

StartComment ==
  /\ pc = "next" /\ Ahead.char = "/" /\ BehindSlash.char = "*"
  /\ start' = stream
  /\ \E begin \in {BehindSlash.rest} : Continue("comment", GetStr(begin, 2).rest, <<>>)

ReadComment ==
  /\ pc = "comment" /\ Ahead.char # Nul
  /\ Continue(IF Ahead.char = "*" THEN "stars" ELSE pc, Get(Ahead.rest).rest, <<>>)
  /\ UNCHANGED start

\* Mutant: a star behind a star does not count as the first of the end.
ReadStarsOnce ==
  /\ pc = "stars"
  /\ LET read == Get(stream)
     IN  Continue(IF read.char = "/" THEN "next" ELSE "comment", read.rest, <<>>)
  /\ UNCHANGED start

ReadStars ==
  /\ pc = "stars"
  /\ LET read == Get(stream)
     IN  Continue(CASE read.char = "/" -> "next" [] read.char = "*" -> pc [] OTHER -> "comment",
                  read.rest, <<>>)
  /\ UNCHANGED start

UnclosedComment ==
  /\ pc = "comment" /\ Ahead.char = Nul
  /\ stream' = Ahead.rest /\ Stop("failed")
  /\ UNCHANGED <<text, start>>

(* Punctuators *)

Pairs == {<<"*", "=">>, <<"#", "#">>, <<"+", "+">>, <<"+", "=">>, <<"-", ">">>, <<"-", "-">>,
          <<"-", "=">>, <<"&", "&">>, <<"&", "=">>, <<"|", "|">>, <<"|", "=">>, <<"!", "=">>,
          <<"=", "=">>, <<":", ">">>, <<"^", "=">>, <<"/", "=">>, <<"%", "=">>, <<"%", ">">>,
          <<"%", ":">>, <<"<", "<">>, <<"<", "=">>, <<"<", "%">>, <<"<", ":">>, <<">", ">">>,
          <<">", "=">>}

\* The other spellings of brackets, braces and #.
Digraph(pair) == CASE pair = <<":", ">">> -> <<"]">> [] pair = <<"<", ":">> -> <<"[">>
                   [] pair = <<"%", ">">> -> <<"}">> [] pair = <<"<", "%">> -> <<"{">>
                   [] pair = <<"%", ":">> -> <<"#">> [] OTHER -> pair

\* The kind of the punctuator that starts with first, the number of characters
\* it has behind that one, and the stream after looking at them.
Extension(first, s) ==
  LET one == Peek(s, 0)
      two == Peek(one.rest, 1)
      dots == PeekStr(s, 2)
      colons == PeekStr(one.rest, 3)
      pair == <<first, one.char>>
  IN  CASE first = "." ->
             IF dots.chars = <<".", ".">> THEN [kind |-> <<".", ".", ".">>, length |-> 2, rest |-> dots.rest]
                                          ELSE [kind |-> <<".">>, length |-> 0, rest |-> dots.rest]
        [] first # "." /\ (\A p \in Pairs : p[1] # first) -> [kind |-> <<first>>, length |-> 0, rest |-> s]
        [] pair \in {<<"<", "<">>, <<">", ">">>} ->
             IF two.char = "=" THEN [kind |-> Append(pair, "="), length |-> 2, rest |-> two.rest]
                               ELSE [kind |-> pair, length |-> 1, rest |-> two.rest]
        [] pair = <<"%", ":">> ->
             IF colons.chars = <<":", "%", ":">> THEN [kind |-> <<"#", "#">>, length |-> 3, rest |-> colons.rest]
                                                 ELSE [kind |-> <<"#">>, length |-> 1, rest |-> colons.rest]
        [] pair \in Pairs \ {<<"<", "<">>, <<">", ">">>, <<"%", ":">>} ->
             [kind |-> Digraph(pair), length |-> 1, rest |-> one.rest]
        [] OTHER -> [kind |-> <<first>>, length |-> 0, rest |-> one.rest]

\* PUNCTUATORS.at throws if the read after the look ahead fails.
ReadPunctuator ==
  /\ pc = "next" /\ Ahead.char \in Special
  /\ Ahead.char = "/" => BehindSlash.char \notin {"/", "*"}
  /\ start' = stream
  /\ \E begin \in {IF Ahead.char = "/" THEN BehindSlash.rest ELSE Ahead.rest} :
     \E first \in {Get(begin)} :
     \E more \in {Extension(first.char, first.rest)} :
     \E rest \in {GetStr(more.rest, more.length)} :
       IF first.char \in Special
       THEN stream' = rest.rest /\ Return_(stream, more.kind, <<first.char>> \o rest.chars)
       ELSE stream' = first.rest /\ Stop("aborted")
  /\ UNCHANGED text

Next ==
  \/ SkipBlank \/ ReadEnd \/ UnknownToken
  \/ StartWord \/ ReadWord \/ EndWord \/ ReadZero \/ StartNumber \/ ReadNumber \/ EndNumber
  \/ ReadCharConstant \/ StartString \/ ReadString \/ ReadEscape \/ UnclosedString \/ EndString
  \/ StartLineComment \/ ReadLineComment
  \/ StartComment \/ ReadComment \/ ReadStars \/ UnclosedComment
  \/ ReadPunctuator

Spec == Init /\ [][Next]_vars /\ WF_vars(Next)
================================================================================
