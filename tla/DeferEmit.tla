------------------------------ MODULE DeferEmit ------------------------------
(***************************************************************************)
(* How the emitter compiles a function body with `defer:`                  *)
(* (compiler/codegen/c/c_emitter.cpp): it keeps the cleanup calls of the   *)
(* blocks it is in as text, and copies them in front of every statement    *)
(* that leaves a block.  A body is checked (BodyCheck) and, if it is       *)
(* accepted, emitted, and then runs as the C that was emitted.  What it    *)
(* does is what DeferSource says (ImplementsSource).                       *)
(***************************************************************************)
EXTENDS BodyCheck

VARIABLES
  phase,       \* "check", "rejected", "emit", "run", "done"
  isVoid,      \* has the function no return type?
  warned,      \* the statements that were reported as unreachable
  next,        \* the statement that is emitted next
  scopes,      \* defer_scopes_: the cleanups of each open block
  marks,       \* loop_cleanup_marks_: the scope of each open loop body
  code,        \* code[i]: the C lines of statement i
  known,       \* known[i]: the cleanups of all open scopes when i was emitted
  at,          \* the statement whose C lines run, 0 when the function is left
  line,        \* which of them runs next
  inside,      \* the blocks of the C text that are entered
  rounds,      \* the conditions that were true
  temps,       \* the __defer temporaries: the captured arguments
  output       \* the effects of the C code

checkVars == <<isVoid, warned>>
emitVars == <<next, scopes, marks, code, known>>
runVars == <<at, line, inside, rounds, temps, output>>
vars == <<body, phase, checkVars, emitVars, runVars>>

\* The effects while the cleanups in front of a statement run are those of the
\* statement: its trace is what was there before them.
Pending ==
  IF phase # "run" THEN <<>>
  ELSE [i \in 1..Len(known[at]) |-> [at |-> known[at][i], captured |-> temps[known[at][i]]]]
Source == INSTANCE DeferSource WITH
  blocks <- [i \in 1..Len(inside) |-> [open |-> inside[i], pending |-> Len(known[inside[i]])]],
  pending <- Pending,
  trace <- SubSeq(output, 1, Len(output) - (line - 1))

Init ==
  /\ \E shape \in DOMAIN Bodies : body \in Bodies[shape]
  /\ phase = "check"
  /\ isVoid \in BOOLEAN
  /\ warned = {}
  /\ next = 1
  /\ scopes = << <<>> >>
  /\ marks = <<>>
  /\ code = <<>>
  /\ known = <<>>
  /\ at = 1
  /\ line = 1
  /\ inside = <<>>
  /\ rounds = 0
  /\ temps = [i \in 1..Len(body) |-> 0]
  /\ output = <<>>

-------------------------------------------------------------------------------
\* check_func_decl; a void function may still fall off its end.
Check ==
  /\ phase = "check"
  /\ phase' = IF Accepted(isVoid) THEN "emit" ELSE "rejected"
  /\ warned' = Warned
  /\ UNCHANGED <<body, isVoid, emitVars, runVars>>

-------------------------------------------------------------------------------
(* The emitter, statement by statement.                                      *)

Line(op, statement) == [op |-> op, at |-> statement]

\* deferred_cleanup_lines: the cleanups of the scopes from `start` on, the last
\* one first.
CleanupsInOrderMutant(start) == FlattenSeq(SubSeq(scopes, start, Len(scopes)))
CleanupsFrom(start) == Reverse(FlattenSeq(SubSeq(scopes, start, Len(scopes))))
CleanupLines(start) ==
  [i \in 1..Len(CleanupsFrom(start)) |-> Line("cleanup", CleanupsFrom(start)[i])]

\* push_defer_scope returns the index of the scope it pushes.
PushedScope == Len(scopes) + 1

CurrentLoopMark == IF marks = <<>> THEN PushedScope ELSE Last(marks)

\* pop_defer_scope
PopMutant == scopes
Pop == Front(scopes)

\* A statement's own line comes after the cleanups of the scopes it leaves.
EmitLine(op) == code' = Append(code, <<Line(op, next)>>)
EmitCleanups(start, op) ==
  code' = Append(code, Append(CleanupLines(start), Line(op, next)))

EmitDo ==
  /\ Op(next) \in {"do", "exit"}
  /\ EmitLine(Op(next))
  /\ UNCHANGED <<scopes, marks>>

EmitDefer ==
  /\ Op(next) = "defer"
  /\ EmitLine("save")
  /\ scopes' = [scopes EXCEPT ![Len(scopes)] = Append(@, next)]
  /\ UNCHANGED marks

EmitOpen ==
  /\ Op(next) \in Opening
  /\ EmitLine(Op(next))
  /\ scopes' = Append(scopes, <<>>)
  /\ marks' = IF Op(next) = "loop" THEN Append(marks, PushedScope) ELSE marks

EmitElse ==
  /\ Op(next) = "else"
  /\ EmitCleanups(Len(scopes), "else")
  /\ scopes' = Append(Pop, <<>>)
  /\ UNCHANGED marks

EmitEnd ==
  /\ Op(next) = "end"
  /\ EmitCleanups(Len(scopes), "end")
  /\ scopes' = Pop
  /\ marks' = IF Op(Last(Within(next))) = "loop" THEN Front(marks) ELSE marks

EmitJump ==
  /\ Op(next) \in Jumps
  /\ EmitCleanups(CurrentLoopMark, Op(next))
  /\ UNCHANGED <<scopes, marks>>

\* The cleanups of all scopes come before the return and its expression.
EmitReturn ==
  /\ Op(next) \in {"return", "return_call"}
  /\ EmitCleanups(1, Op(next))
  /\ UNCHANGED <<scopes, marks>>

EmitStatement ==
  /\ next <= Len(body)
  /\ \/ EmitDo \/ EmitDefer \/ EmitOpen \/ EmitElse \/ EmitEnd \/ EmitJump \/ EmitReturn
  /\ UNCHANGED phase

\* The end of emit_block for the body itself, and the end of the C function.
EmitBodyEnd ==
  /\ next = Len(body) + 1
  /\ EmitCleanups(1, "return")
  /\ scopes' = Pop
  /\ phase' = "run"
  /\ UNCHANGED marks

Emit ==
  /\ phase = "emit"
  /\ next' = next + 1
  /\ known' = Append(known, FlattenSeq(scopes))
  /\ EmitStatement \/ EmitBodyEnd
  /\ UNCHANGED <<body, checkVars, runVars>>

-------------------------------------------------------------------------------
(* The C code, line by line.                                                 *)

CLine == code[at][line]
Effect(statement, captured) == [at |-> statement, captured |-> captured]

Goto(statement) == at' = statement /\ line' = 1

CCleanup ==
  /\ CLine.op = "cleanup"
  /\ output' = Append(output, Effect(CLine.at, temps[CLine.at]))
  /\ line' = line + 1
  /\ UNCHANGED <<phase, at, inside, rounds, temps>>

CDo ==
  /\ CLine.op = "do"
  /\ output' = Append(output, Effect(at, 0))
  /\ Goto(at + 1)
  /\ UNCHANGED <<phase, inside, rounds, temps>>

CSave ==
  /\ CLine.op = "save"
  /\ temps' = [temps EXCEPT ![at] = Len(output)]
  /\ Goto(at + 1)
  /\ UNCHANGED <<phase, inside, rounds, output>>

CEnter ==
  /\ CLine.op \in Opening
  /\ rounds < MaxRounds
  /\ rounds' = rounds + 1
  /\ inside' = Append(inside, at)
  /\ Goto(at + 1)
  /\ UNCHANGED <<phase, temps, output>>

CEnterElse ==
  /\ CLine.op = "if" /\ HasElse(at)
  /\ inside' = Append(inside, at)
  /\ Goto(ElseOf(at) + 1)
  /\ UNCHANGED <<phase, rounds, temps, output>>

CSkip ==
  /\ CLine.op \in Opening /\ ~HasElse(at)
  /\ Goto(EndOf(at) + 1)
  /\ UNCHANGED <<phase, inside, rounds, temps, output>>

\* The closing brace of the innermost block.
CExit ==
  /\ CLine.op \in Closing
  /\ LET open == Last(inside)
     IN  Goto(IF Op(open) = "loop" THEN open ELSE EndOf(open) + 1)
  /\ inside' = Front(inside)
  /\ UNCHANGED <<phase, rounds, temps, output>>

\* The innermost loop.
CInLoop(i) ==
  /\ Op(inside[i]) = "loop"
  /\ \A j \in (i + 1)..Len(inside) : Op(inside[j]) # "loop"

CJump ==
  \E i \in 1..Len(inside) :
    /\ CInLoop(i)
    /\ \/ CLine.op = "break" /\ Goto(EndOf(inside[i]) + 1)
       \/ CLine.op = "continue" /\ Goto(inside[i])
    /\ inside' = SubSeq(inside, 1, i - 1)
    /\ UNCHANGED <<phase, rounds, temps, output>>

CReturn ==
  /\ CLine.op \in Leaving
  /\ output' = IF CLine.op = "return_call" THEN Append(output, Effect(at, 0)) ELSE output
  /\ Goto(0)
  /\ inside' = <<>>
  /\ phase' = "done"
  /\ UNCHANGED <<rounds, temps>>

Run ==
  /\ phase = "run"
  /\ \/ CCleanup \/ CDo \/ CSave \/ CEnter \/ CEnterElse \/ CSkip
     \/ CExit \/ CJump \/ CReturn
  /\ UNCHANGED <<body, checkVars, emitVars>>

Next == Check \/ Emit \/ Run

Spec == Init /\ [][Next]_vars

-------------------------------------------------------------------------------
TypeInv ==
  /\ phase \in {"check", "rejected", "emit", "run", "done"}
  /\ isVoid \in BOOLEAN
  /\ warned \subseteq 1..Len(body)
  /\ next \in 1..(Len(body) + 2)
  /\ scopes \in Seq(Seq(1..Len(body)))
  /\ marks \in Seq(Nat)
  /\ code \in Seq(Seq([op : {"cleanup", "save"} \union Ops, at : 1..(Len(body) + 1)]))
  /\ known \in Seq(Seq(1..Len(body)))
  /\ at \in 0..(Len(body) + 1)
  /\ line \in Nat \ {0}
  /\ inside \in Seq(1..Len(body))
  /\ rounds \in 0..MaxRounds
  /\ temps \in [1..Len(body) -> Nat]
  /\ output \in Seq([at : 1..Len(body), captured : Nat])

\* The emitter's stacks are those of the blocks around the statement it emits: a
\* scope for each and one for the body, a mark for each loop.  Nothing is left
\* of a function for the next one, although both are members of the emitter.
StacksFollowBlocks ==
  LET around == IF phase \in {"check", "rejected", "emit"} THEN Within(next) ELSE <<>>
  IN  /\ Len(scopes) = Len(around) + IF phase \in {"check", "rejected", "emit"} THEN 1 ELSE 0
      /\ Range(marks) = {k + 1 : k \in {j \in 1..Len(around) : Op(around[j]) = "loop"}}
      /\ \A j, k \in 1..Len(marks) : j < k => marks[j] < marks[k]

\* The C code runs the body as the source means it: on every path the same
\* effects in the same order, each cleanup as often and with the arguments as
\* they were captured.  So the cleanups the emitter knew of from the text are
\* those that are pending in the run.
ImplementsSource == Source!SourceSpec

\* "function may not return on all paths": a function with a return type that
\* is accepted never falls off its end.
ReturnsOnAllPaths == ~isVoid /\ phase = "run" => at # Len(body) + 1

\* "unreachable statement": what is reported is never reached, on any path
\* (with --warnings=error the report rejects the program).
UnreachableIsDead == phase = "run" => at \notin warned

===============================================================================
