----------------------------- MODULE DeferSource -----------------------------
(***************************************************************************)
(* What a function body with `defer:` means (docs/SYNTAX.md, "Draft scope  *)
(* cleanup"): a deferred cleanup belongs to the block that contains it, it *)
(* captures its arguments when the defer line is reached, and the cleanups *)
(* of a block run last in, first out when the block exits, however it      *)
(* does.  An effect is known by the index of its statement.                *)
(***************************************************************************)
EXTENDS FunctionBody

VARIABLES
  at,          \* the statement that is next, 0 when the body is left
  blocks,      \* the blocks that are entered, with the cleanups that were pending
  pending,     \* the cleanups that are pending: [at, captured]
  rounds,      \* the conditions that were true
  trace        \* the effects so far: [at, captured]

sourceVars == <<body, at, blocks, pending, rounds, trace>>

\* The captured value stands for the arguments: it tells when it was taken.
Effect(statement, captured) == [at |-> statement, captured |-> captured]

SourceInit ==
  /\ WellNested(body)
  /\ at = 1
  /\ blocks = <<>>
  /\ pending = <<>>
  /\ rounds = 0
  /\ trace = <<>>

SourceDo ==
  /\ Op(at) = "do"
  /\ trace' = Append(trace, Effect(at, 0))
  /\ at' = at + 1
  /\ UNCHANGED <<body, blocks, pending, rounds>>

SourceDefer ==
  /\ Op(at) = "defer"
  /\ pending' = Append(pending, Effect(at, Len(trace)))
  /\ at' = at + 1
  /\ UNCHANGED <<body, blocks, rounds, trace>>

\* An if, or the head of a loop.
SourceEnter ==
  /\ Op(at) \in Opening
  /\ rounds < MaxRounds
  /\ rounds' = rounds + 1
  /\ blocks' = Append(blocks, [open |-> at, pending |-> Len(pending)])
  /\ at' = at + 1
  /\ UNCHANGED <<body, pending, trace>>

SourceEnterElse ==
  /\ Op(at) = "if" /\ HasElse(at)
  /\ blocks' = Append(blocks, [open |-> at, pending |-> Len(pending)])
  /\ at' = ElseOf(at) + 1
  /\ UNCHANGED <<body, pending, rounds, trace>>

SourceSkip ==
  /\ Op(at) \in Opening /\ ~HasElse(at)
  /\ at' = EndOf(at) + 1
  /\ UNCHANGED <<body, blocks, pending, rounds, trace>>

-------------------------------------------------------------------------------
\* The blocks from the i-th on are left.
Leave(i, target) ==
  LET kept == blocks[i].pending
  IN  /\ trace' = trace \o Reverse(SubSeq(pending, kept + 1, Len(pending)))
      /\ pending' = SubSeq(pending, 1, kept)
      /\ blocks' = SubSeq(blocks, 1, i - 1)
      /\ at' = target
      /\ UNCHANGED <<body, rounds>>

SourceExit ==
  /\ Op(at) \in Closing
  /\ LET open == Last(Within(at))
     IN  Leave(Len(blocks), IF Op(open) = "loop" THEN open ELSE EndOf(open) + 1)

\* The i-th block is the innermost loop.
InLoop(i) ==
  /\ Op(blocks[i].open) = "loop"
  /\ \A j \in (i + 1)..Len(blocks) : Op(blocks[j].open) # "loop"

SourceJump ==
  \E i \in 1..Len(blocks) :
    /\ InLoop(i)
    /\ \/ Op(at) = "break" /\ Leave(i, EndOf(blocks[i].open) + 1)
       \/ Op(at) = "continue" /\ Leave(i, blocks[i].open)

\* The body is left, by a return or at its end.  The cleanups run before the
\* value that is returned is computed (the docs say "before a return: leaves").
LeaveBody(effects) ==
  /\ trace' = trace \o effects
  /\ at' = 0
  /\ blocks' = <<>>
  /\ pending' = <<>>
  /\ UNCHANGED <<body, rounds>>

SourceReturn ==
  \/ Op(at) = "return" /\ LeaveBody(Reverse(pending))
  \/ Op(at) = "return_call" /\ LeaveBody(Append(Reverse(pending), Effect(at, 0)))

\* process.exit ends the process; what is pending does not run.
SourceStop == Op(at) = "exit" /\ LeaveBody(<<>>)

SourceStep ==
  \/ /\ at \in 1..Len(body)
     /\ \/ SourceDo \/ SourceDefer \/ SourceEnter \/ SourceEnterElse \/ SourceSkip
        \/ SourceExit \/ SourceJump \/ SourceReturn \/ SourceStop
  \/ at = Len(body) + 1 /\ LeaveBody(Reverse(pending))

SourceSpec == SourceInit /\ [][SourceStep]_sourceVars

===============================================================================
