------------------------------ MODULE Formatting ------------------------------
(***************************************************************************)
(* `walk fmt`: format_source (compiler/format/format.cpp) writes the tokens *)
(* of the lexer again, with its own spaces, quotes and indentation, and    *)
(* never looks at what they mean.  A line, or the indentation of some      *)
(* lines, is typed one piece at a time; at every point what is typed so    *)
(* far is formatted and read again.                                        *)
(***************************************************************************)
EXTENDS LexLine

CONSTANTS
  Alphabets,   \* Alphabets[prefix]: the characters typed after that prefix of a line
  MaxTyped,    \* bound: the number of characters typed
  Indents,     \* the indentations of lines
  MaxLines     \* bound: the number of lines

VARIABLES
  prefix,      \* how the line starts
  line,        \* the line so far
  indents      \* the indentations of the lines so far

vars == <<prefix, line, indents>>

ASSUME FormattingAssumption ==
  /\ MaxTyped \in Nat /\ MaxLines \in Nat
  /\ Indents \subseteq Nat
  /\ \A p \in DOMAIN Alphabets : p \in Seq(STRING) /\ Alphabets[p] \subseteq STRING

-------------------------------------------------------------------------------
(* The formatter.                                                            *)

\* escape_walk_string
Escaped(c) ==
  CASE c \in {Quote, Backslash} -> <<Backslash, c>>
    [] c = NL -> <<Backslash, "n">>
    [] c = TAB -> <<Backslash, "t">>
    [] OTHER -> <<c>>

Spelling(token) ==
  IF token.kind = "string"
  THEN <<Quote>> \o FlattenSeq([i \in 1..Len(token.value) |-> Escaped(token.value[i])])
         \o <<Quote>>
  ELSE token.value

\* needs_space, for the value of a symbol and <<>> for any other token.
SymbolOf(token) == IF token.kind = "symbol" THEN token.value ELSE <<>>
NeedsSpaceMutant(previous, current) ==
  /\ current \notin {<<")">>, <<"]">>, <<",">>, <<":">>, <<".">>, <<"(">>, <<"[">>}
  /\ previous \notin {<<"(">>, <<"[">>, <<".">>, <<"-">>}
NeedsSpace(previous, current) ==
  /\ current \notin {<<")">>, <<"]">>, <<",">>, <<":">>, <<".">>}
  /\ \/ <<"=">> \in {previous, current}
     \/ current \notin {<<"(">>, <<"[">>} /\ previous \notin {<<"(">>, <<"[">>, <<".">>}

\* format_tokens
Format(tokens) ==
  FlattenSeq([i \in 1..Len(tokens) |->
    (IF i > 1 /\ NeedsSpace(SymbolOf(tokens[i - 1]), SymbolOf(tokens[i])) THEN <<" ">> ELSE <<>>)
      \o Spelling(tokens[i])])

\* indent_stack: a line that is indented less closes the levels above it, one
\* that is indented more than the last of those left opens a level.
ClosedMutant(stack, indent) ==
  IF Len(stack) > 1 /\ indent < Last(stack) THEN Front(stack) ELSE stack
Closed(stack, indent) ==
  SubSeq(stack, 1, Max({1} \union {k \in 1..Len(stack) : stack[k] <= indent}))
Opened(stack, indent) == IF indent > Last(stack) THEN Append(stack, indent) ELSE stack

\* The levels at which format_source writes lines.
Levels(list) ==
  LET after[i \in 0..Len(list)] ==
        IF i = 0 THEN <<0>> ELSE Opened(Closed(after[i - 1], list[i]), list[i])
  IN  [i \in 1..Len(list) |-> Len(after[i]) - 1]
Indented(levels) == [i \in 1..Len(levels) |-> 4 * levels[i]]

-------------------------------------------------------------------------------
(* What the parser makes of it.                                              *)

\* build_nodes: the blocks around a line, as their indentations; a line may
\* open a block only below a line, and must close blocks down to one of its own
\* indentation.  The first line has none.
Blocks(list) ==
  LET after[i \in 0..Len(list)] ==
        IF i = 0 THEN [ok |-> TRUE, blocks |-> <<0>>]
        ELSE LET open == after[i - 1].blocks
                 kept == SubSeq(open, 1, Max({k \in 1..Len(open) : open[k] <= list[i]}))
             IN  IF list[i] = Last(kept) THEN [ok |-> after[i - 1].ok, blocks |-> kept]
                 ELSE [ok |-> after[i - 1].ok /\ i > 1 /\ kept = open,
                       blocks |-> Append(kept, list[i])]
  IN  after
BlocksParse(list) == Blocks(list)[Len(list)].ok
Depths(list) == [i \in 1..Len(list) |-> Len(Blocks(list)[i].blocks) - 1]

\* parse_interpolated_string_parts and find_interpolation_end, on the value of a
\* string token.
PartStep(s, c, next) ==
  CASE s.mode = "text" /\ c \in {LeftBrace, RightBrace} /\ next = c -> Reading("doubled", 0)
    [] s.mode = "text" /\ c = LeftBrace -> Reading("code", 1)
    [] s.mode = "text" /\ c = RightBrace -> Reading("unmatched", 0)
    [] s.mode = "text" -> Text
    [] s.mode = "doubled" -> Text
    [] OTHER -> CodeStep(s, c)
Parts(value) == Run(PartStep, Text, value)

\* The expressions interpolated in a string.  An expression is taken to parse
\* when it has tokens.
Expressions(value) ==
  LET states == Parts(value)
      starts == {i \in 1..Len(value) : states[i - 1] = Text /\ states[i].mode = "code"}
  IN  {SubSeq(value, i + 1, First({j \in i..Len(value) : states[j] = Text}) - 1) : i \in starts}
ValueParses(value) ==
  /\ Parts(value)[Len(value)] = Text
  /\ \A e \in Expressions(value) : Lex(e).ok /\ Lex(e).tokens # <<>>

\* parse_postfix and check_expression: a dot has a name after it, and what is
\* before it is no number.
DotsSelectFields(tokens) ==
  \A i \in 1..Len(tokens) : tokens[i].value = <<".">> =>
    /\ i > 1 /\ tokens[i - 1].kind # "number"
    /\ i < Len(tokens) /\ tokens[i + 1].kind = "name"

Strings(tokens) == {tokens[i].value : i \in {j \in 1..Len(tokens) : tokens[j].kind = "string"}}
Parses(tokens) ==
  /\ DotsSelectFields(tokens)
  /\ \A value \in Strings(tokens) : ValueParses(value)

-------------------------------------------------------------------------------
Init ==
  /\ prefix \in DOMAIN Alphabets
  /\ line = prefix
  /\ indents = <<>>

Type(c) ==
  /\ indents = <<>>
  /\ Len(line) < Len(prefix) + MaxTyped
  /\ line' = Append(line, c)
  /\ UNCHANGED <<prefix, indents>>

AddLine(indent) ==
  /\ line = prefix
  /\ Len(indents) < MaxLines
  /\ indents' = Append(indents, indent)
  /\ UNCHANGED <<prefix, line>>

Next == (\E c \in Alphabets[prefix] : Type(c)) \/ (\E i \in Indents : AddLine(i))

Spec == Init /\ [][Next]_vars

-------------------------------------------------------------------------------
\* The formatter escapes these characters everywhere; in an interpolation the
\* lexer does not undo it.
Plain(tokens) ==
  \A value \in Strings(tokens) : \A e \in Expressions(value) :
    \A i \in 1..Len(e) : e[i] \notin {Quote, Backslash, NL, TAB}

\* Formatting changes no token of a line that parses, so that it also changes
\* nothing when it is repeated: whatever spaces it takes away or adds around
\* signs, dots and brackets, and however the strings were escaped, the lexer
\* reads the same again.  Interpolated expressions have to be plain.
TokensSurvive ==
  LET read == Lex(line)
  IN  read.ok /\ Parses(read.tokens) /\ Plain(read.tokens) => Lex(Format(read.tokens)) = read

\* The two scanners of a line find its comment in one place.  Only when a text
\* is quoted in an interpolation before it may strip_comment cut inside of what
\* read_string takes for a string, or leave a comment where it is, and then the
\* lexer rejects the line: it never reads another one in its place.
MisreadIsRejected ==
  LET states == Run(ReadStep, Outside, line)
      end == Len(line) + 1
      stripped == First(Comments(line) \union {end})
      read == First({i \in 1..Len(line) : line[i] = "#" /\ states[i - 1] = Outside} \union {end})
  IN  stripped # read =>
        /\ ~Lex(line).ok
        /\ \E j \in 1..Len(line) : j < stripped /\ j < read /\ states[j].mode = "quoted"

\* Formatting keeps the blocks of lines that parse: the formatter's stack of
\* indentations, which accepts any, and the parser's recursion, which does not,
\* nest them alike, before and after.
BlocksSurvive ==
  BlocksParse(indents) =>
    /\ Levels(indents) = Depths(indents)
    /\ BlocksParse(Indented(Levels(indents)))
    /\ Depths(Indented(Levels(indents))) = Depths(indents)

===============================================================================
