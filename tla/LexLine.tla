-------------------------------- MODULE LexLine --------------------------------
(***************************************************************************)
(* How the lexer reads one line (compiler/lex/lexer.cpp): first            *)
(* strip_comment cuts it at a comment, then tokenize_line splits it.  Each *)
(* has its own idea of where a string ends, since only read_string knows   *)
(* about the expressions interpolated in one.                              *)
(*                                                                         *)
(* A line is a sequence of characters.  "#" stands for both spellings of a *)
(* comment, "x", "n" and "t" for letters, "0" for digits, NL and TAB for   *)
(* the characters \n and \t stand for, which only a value can have.        *)
(***************************************************************************)
EXTENDS Naturals, SequencesExt

Quote == "'"
Backslash == "\\"
LeftBrace == "{"
RightBrace == "}"
NL == "newline"
TAB == "tab"
Letters == {"x", "n", "t"}
Symbols == {"(", ")", "[", "]", ",", ":", "=", "-", "."}

\* The states an automaton is in before a line, and after each of its
\* characters; Step(s, c, next) also sees the character that follows.
Run(Step(_, _, _), start, line) ==
  LET at(i) == IF i <= Len(line) THEN line[i] ELSE NL
      after[i \in 0..Len(line)] ==
        IF i = 0 THEN start ELSE Step(after[i - 1], at(i), at(i + 1))
  IN  after

First(S) == CHOOSE i \in S : \A j \in S : i <= j

-------------------------------------------------------------------------------
\* strip_comment: a comment starts outside of strings, which end at the first
\* quote that is not escaped.
StripStep(s, c, next) ==
  CASE s = "code" -> IF c = Quote THEN "string" ELSE "code"
    [] s = "string" -> IF c = Backslash THEN "escaped"
                       ELSE IF c = Quote THEN "code" ELSE "string"
    [] s = "escaped" -> "string"

Comments(line) ==
  {i \in 1..Len(line) : line[i] = "#" /\ Run(StripStep, "code", line)[i - 1] = "code"}
StripComment(line) ==
  IF Comments(line) = {} THEN line ELSE SubSeq(line, 1, First(Comments(line)) - 1)

-------------------------------------------------------------------------------
\* read_string: an interpolation ends at its own brace, and a string in it may
\* have quotes and braces of its own.
Reading(mode, depth) == [mode |-> mode, depth |-> depth]
Outside == Reading("outside", 0)
Text == Reading("text", 0)

\* Inside an interpolation, for the lexer and for the parser.
CodeStep(s, c) ==
  CASE s.mode = "code" /\ c = Quote -> Reading("quoted", s.depth)
    [] s.mode = "code" /\ c = LeftBrace -> Reading("code", s.depth + 1)
    [] s.mode = "code" /\ c = RightBrace -> IF s.depth = 1 THEN Text ELSE Reading("code", s.depth - 1)
    [] s.mode = "quoted" /\ c = Backslash -> Reading("quotedEscape", s.depth)
    [] s.mode = "quoted" /\ c = Quote -> Reading("code", s.depth)
    [] s.mode = "quotedEscape" -> Reading("quoted", s.depth)
    [] OTHER -> s

ReadStep(s, c, next) ==
  CASE s.mode = "outside" -> IF c = Quote THEN Text ELSE Outside
    [] s.mode = "text" /\ c = Backslash -> Reading("escape", 0)
    [] s.mode = "text" /\ c = Quote -> Outside
    [] s.mode = "text" /\ c = LeftBrace ->
         IF next = LeftBrace THEN Reading("doubled", 0) ELSE Reading("code", 1)
    [] s.mode \in {"escape", "doubled"} -> Text
    [] OTHER -> CodeStep(s, c)

\* What a character adds to the value of the string it is in.
Written(s, c) ==
  CASE s.mode = "text" /\ c = Backslash -> <<>>
    [] s.mode = "escape" /\ c = "n" -> <<NL>>
    [] s.mode = "escape" /\ c = "t" -> <<TAB>>
    [] OTHER -> <<c>>

-------------------------------------------------------------------------------
\* tokenize_line.  A token and the index after it; NoToken is a syntax error.
Token(kind, value, next) == [kind |-> kind, value |-> value, next |-> next]
NoToken == Token("none", <<>>, 0)

\* The index of the first character from i on that is not one of chars.
EndOf(line, i, chars) ==
  First({j \in i..(Len(line) + 1) : j > Len(line) \/ line[j] \notin chars})

StringAtMutant(line, i) ==
  LET rest == SubSeq(line, i, Len(line))
      states == Run(ReadStep, Outside, rest)
      last == First({j \in 2..Len(rest) : states[j] = Outside} \union {Len(rest)})
  IN  Token("string", FlattenSeq([j \in 1..(last - 2) |-> Written(states[j], rest[j + 1])]), i + last)
StringAt(line, i) ==
  LET rest == SubSeq(line, i, Len(line))
      states == Run(ReadStep, Outside, rest)
      ends == {j \in 2..Len(rest) : states[j] = Outside}
      last == First(ends)
  IN  IF ends = {} THEN NoToken
      ELSE Token("string", FlattenSeq([j \in 1..(last - 2) |-> Written(states[j], rest[j + 1])]),
                 i + last)

StartsNumber(line, i) ==
  \/ line[i] = "0"
  \/ /\ line[i] = "-" /\ i < Len(line) /\ line[i + 1] = "0"
     /\ i = 1 \/ line[i - 1] \in {" ", "(", "[", ",", "=", ":"}

\* read_number: the digits, one dot among them.
NumberEnd(line, i) ==
  LET start == IF line[i] = "-" THEN i + 1 ELSE i
      whole == EndOf(line, start, {"0"})
  IN  IF whole <= Len(line) /\ line[whole] = "." THEN EndOf(line, whole + 1, {"0"}) ELSE whole

Spelled(kind, line, i, next) == Token(kind, SubSeq(line, i, next - 1), next)

TokenAt(line, i) ==
  IF line[i] = Quote THEN StringAt(line, i)
  ELSE IF StartsNumber(line, i) THEN Spelled("number", line, i, NumberEnd(line, i))
  ELSE IF line[i] = "=" /\ i < Len(line) /\ line[i + 1] = "="
         THEN Spelled("symbol", line, i, i + 2)
  ELSE IF line[i] \in Symbols THEN Spelled("symbol", line, i, i + 1)
  ELSE IF line[i] \in Letters THEN Spelled("name", line, i, EndOf(line, i, Letters \union {"0"}))
  ELSE NoToken

\* The tokens of a line, or none and ok = FALSE after a syntax error.
Failed == [ok |-> FALSE, tokens |-> <<>>]
Tokenize(line) ==
  LET from[i \in 1..(Len(line) + 1)] ==
        IF i > Len(line) THEN [ok |-> TRUE, tokens |-> <<>>]
        ELSE IF line[i] = " " THEN from[i + 1]
        ELSE LET token == TokenAt(line, i)
             IN  IF token = NoToken \/ ~from[token.next].ok THEN Failed
                 ELSE [ok |-> TRUE,
                       tokens |-> <<[kind |-> token.kind, value |-> token.value]>>
                                    \o from[token.next].tokens]
  IN  from[1]

Lex(line) == Tokenize(StripComment(line))

===============================================================================
