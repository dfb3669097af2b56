------------------------------- MODULE BodyCheck -------------------------------
(***************************************************************************)
(* What the checker decides about the control flow of a function body      *)
(* (compiler/sema/checker.cpp): whether every path returns, where a break, *)
(* a continue and a return may stand, and which statements it reports as   *)
(* unreachable.  It looks at the text alone; DeferSource is how the text   *)
(* runs.                                                                   *)
(***************************************************************************)
EXTENDS FunctionBody

\* A list of statements is known by the statement that starts it: an if, its
\* else, a loop, or 0 for the body itself.
StartOf(i) ==
  IF Within(i) = <<>> THEN 0
  ELSE LET open == Last(Within(i))
       IN  IF HasElse(open) /\ ElseOf(open) < i THEN ElseOf(open) ELSE open

Block(start) == {i \in 1..Len(body) : Op(i) \notin Closing /\ StartOf(i) = start}

ThenBlock(i) == Block(i)
ElseBlock(i) == IF HasElse(i) THEN Block(ElseOf(i)) ELSE {}

\* Does a statement stop its block, by one of the statements in `stops` or as
\* an if both of whose branches do?
BothBranchesMutant(stops, i) ==
  \E j \in ThenBlock(i) : stops[j]
BothBranches(stops, i) ==
  /\ \E j \in ThenBlock(i) : stops[j]
  /\ \E j \in ElseBlock(i) : stops[j]

Stops(ops) ==
  LET stops[i \in 1..Len(body)] ==
        Op(i) \in ops \/ (Op(i) = "if" /\ BothBranches(stops, i))
  IN  stops

\* statement_terminates, block_returns
Terminates == Stops(Leaving \union Jumps)
BlockReturns ==
  LET returns == Stops(Leaving)
  IN  \E i \in Block(0) : returns[i]

\* check_block: what follows a statement that terminates, in the same block.
WarnedMutant ==
  LET terminates == Terminates
  IN  {i \in 1..Len(body) : \E j \in 1..(i - 1) : terminates[j]}
Warned ==
  LET terminates == Terminates
  IN  {i \in 1..Len(body) :
         Op(i) \notin Closing /\ \E j \in Block(StartOf(i)) : j < i /\ terminates[j]}

\* loop_depth_ and in_function_, current_return_ at statement i.
InsideLoop(i) == \E open \in Around(i) : Op(open) = "loop"
Accepted(isVoid) ==
  /\ \A i \in 1..Len(body) :
       /\ Op(i) \in Jumps => InsideLoop(i)
       /\ Op(i) \in {"return", "return_call"} => ~isVoid
  /\ isVoid \/ BlockReturns

===============================================================================
