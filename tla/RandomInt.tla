------------------------------- MODULE RandomInt -------------------------------
(* random.int (runtime/walk_runtime.c) on machine words: a WalkInt is a signed   *)
(* word, the generator and the arithmetic work on unsigned ones.  The words the  *)
(* code is built for have 64 bits.                                               *)
EXTENDS Integers, FiniteSets

CONSTANT Half   \* how many of the words are negative: 2^63 in the code

ASSUME HalfAssumption == Half \in Nat \ {0}

VARIABLE drawn   \* the last draw: [min, max, value]

Size == 2 * Half
WalkInts == -Half .. Half - 1
IntMax == Half - 1
Unsigned(i) == i % Size

\* walk_rt_random_next: xorshift keeps a state that is not 0 from being 0, and so
\* does multiplying it by an odd number.
Words == 1 .. (Size - 1)
NoDraw == [min |-> 0, max |-> -1, value |-> 0]

\* The size of the range; that of the full range wraps to 0.
Span(min, max) == Unsigned(Unsigned(max) - Unsigned(min) + 1)

\* The samples below it are an incomplete bucket, and drawn again.
ThresholdMutant(span) == 0
Threshold(span) == Unsigned(0 - span) % span
Accepted(span) == IF span = 0 THEN Words ELSE {sample \in Words : sample >= Threshold(span)}

\* The conversion to a signed word keeps clear of values it does not have.
ToWalkInt(word) == IF word <= IntMax THEN word ELSE -1 - (Size - 1 - word)

Value(min, span, sample) ==
  ToWalkInt(Unsigned(Unsigned(min) + IF span = 0 THEN sample ELSE sample % span))

\* walk_rt_random_int.
Draw(min, max) ==
  \E value \in IF max < min THEN {min}
                ELSE {Value(min, Span(min, max), sample) : sample \in Accepted(Span(min, max))} :
    drawn' = [min |-> min, max |-> max, value |-> value]

\* RandomIsFair: a draw lies in its range, as docs/STDLIB.md says, and each value
\* of the range comes of equally many samples, the lowest of one less at most.
RandomIsFair ==
  LET min == drawn.min  max == drawn.max
      span == Span(min, max)
      chances(v) == Cardinality({sample \in Accepted(span) : Value(min, span, sample) = v})
      share == Size \div (max - min + 1)
  IN  IF max < min THEN drawn.value = min
      ELSE /\ drawn.value \in min .. max
           /\ chances(min) \in {share, share - 1}
           /\ \A v \in min + 1 .. max : chances(v) = share
===============================================================================
