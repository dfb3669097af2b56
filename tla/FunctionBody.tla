----------------------------- MODULE FunctionBody -----------------------------
(***************************************************************************)
(* The body of a function, as the checker and the emitter walk it: the     *)
(* sequence of its statements in source order.  An "if" or a "loop" opens  *)
(* a block that an "end" closes, and an "else" parts the block of an if.   *)
(* `within` is where a statement stands in the tree: the statements that   *)
(* open the blocks around it, the outermost first.                         *)
(***************************************************************************)
EXTENDS Naturals, SequencesExt

CONSTANTS
  Bodies,      \* Bodies[shape]: the function bodies of a shape (the nesting of blocks)
  MaxRounds    \* the number of conditions of a run that may be true

VARIABLE body  \* the function body

Leaving == {"return", "return_call", "exit"}
Jumps == {"break", "continue"}
Opening == {"if", "loop"}
Closing == {"else", "end"}
Ops == {"do", "defer"} \union Leaving \union Jumps \union Opening \union Closing

\* Blocks are closed in the reverse of the order they were opened in, and an if
\* has one else at most, with statements in it.
WellNested(b) ==
  LET within(i) == IF i = Len(b) + 1 THEN <<>> ELSE b[i].within
      after(i) == IF b[i].op \in Opening THEN Append(within(i), i)
                  ELSE IF b[i].op = "end" THEN Front(within(i))
                  ELSE within(i)
  IN  /\ b \in Seq([op : Ops, within : Seq(Nat)])
      /\ within(1) = <<>>
      /\ \A i \in 1..Len(b) :
           /\ within(i + 1) = after(i)
           /\ b[i].op \in Closing => within(i) # <<>>
           /\ b[i].op = "else" => b[Last(within(i))].op = "if" /\ b[i + 1].op # "end"
      /\ \A i, j \in 1..Len(b) :
           b[i].op = "else" /\ b[j].op = "else" /\ Last(within(i)) = Last(within(j)) => i = j

ASSUME BodiesAssumption ==
  /\ \A shape \in DOMAIN Bodies : \A b \in Bodies[shape] : WellNested(b)
  /\ MaxRounds \in Nat

-------------------------------------------------------------------------------
\* Len(body) + 1 is the end of the body.
Op(i) == body[i].op
Within(i) == IF i = Len(body) + 1 THEN <<>> ELSE body[i].within
Around(i) == Range(Within(i))

Matches(kind, open) ==
  {i \in 1..Len(body) : Op(i) = kind /\ Within(i) # <<>> /\ Last(Within(i)) = open}
EndOf(open) == CHOOSE i \in Matches("end", open) : TRUE
ElseOf(open) == CHOOSE i \in Matches("else", open) : TRUE
HasElse(open) == Matches("else", open) # {}

===============================================================================
