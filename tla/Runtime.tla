-------------------------------- MODULE Runtime --------------------------------
(* The runtime library under one native program, which makes its calls one at a *)
(* time: process.run and http (ProcessRun), or a random.int (RandomInt).         *)
EXTENDS ProcessRun, RandomInt

vars == <<processVars, drawn>>

Init == ProcessInit /\ drawn = NoDraw

RandomCall ==
  /\ pc = "idle" /\ calls = 0
  /\ calls' = MaxCalls
  /\ \E min, max \in WalkInts : Draw(min, max)
  /\ UNCHANGED <<pc, op, captures, child, answer, ignored, texts, failed, result, signals>>

Next == (ProcessNext /\ UNCHANGED drawn) \/ RandomCall

Spec == Init /\ [][Next]_vars
===============================================================================
