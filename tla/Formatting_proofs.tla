-------------------------- MODULE Formatting_proofs ---------------------------
(* Proofs about the lexer and `walk fmt`: for lines of any length, and files of *)
(* any number of lines and any indentations.                                    *)
EXTENDS Formatting, SequenceTheorems, WellFoundedInduction, TLAPS

(***************************************************************************)
(* Induction, for sets of numbers, and the functions it defines.            *)
(***************************************************************************)
LEMMA LeastNumber ==
  ASSUME NEW T, T \subseteq Nat, T # {}
  PROVE  \E n \in T : \A k \in T : n <= k
<1> DEFINE R == OpToRel(<, Nat)
<1>1. IsWellFoundedOn(R, Nat)
  BY NatLessThanWellFounded
<1>2. \A i, j \in Nat : i < j => <<i, j>> \in R
  BY DEF OpToRel
<1> HIDE DEF R
<1>3. PICK n \in T : \A k \in T : ~(<<k, n>> \in R)
  BY <1>1, WFMin
<1>4. ASSUME NEW k \in T PROVE n <= k
  <2>1. ~(k < n)
    BY <1>2, <1>3
  <2>2. QED  BY <2>1
<1>5. QED  BY <1>4

LEMMA Induction ==
  ASSUME NEW T, T \subseteq Nat, 0 \in T, \A n \in T : n + 1 \in T
  PROVE  T = Nat
<1> SUFFICES ASSUME Nat \ T # {} PROVE FALSE
  OBVIOUS
<1>1. PICK n \in Nat \ T : \A k \in Nat \ T : n <= k
  BY LeastNumber
<1>2. n - 1 \in Nat /\ n - 1 \in T /\ n - 1 + 1 = n
  BY <1>1
<1>3. QED  BY <1>1, <1>2

LEMMA Upto ==
  ASSUME NEW n \in Nat, NEW T, 0 \in T, \A i \in 1..n : i - 1 \in T => i \in T
  PROVE  \A i \in 0..n : i \in T
<1> DEFINE D == {k \in Nat : k <= n => k \in T}
<1>1. ASSUME NEW k \in D PROVE k + 1 \in D
  <2>1. SUFFICES ASSUME k + 1 <= n PROVE k + 1 \in T
    BY <1>1
  <2>2. k + 1 \in 1..n /\ k + 1 - 1 = k /\ k \in T
    BY <1>1, <2>1
  <2>3. QED  BY <2>2
<1>2. 0 \in D /\ D \subseteq Nat
  OBVIOUS
<1>3. D = Nat
  BY <1>1, <1>2, Induction
<1>4. QED  BY <1>3

LEMMA GreatestNumber ==
  ASSUME NEW n \in Nat, NEW T, T \subseteq 1..n, T # {}
  PROVE  Max(T) \in T /\ \A k \in T : k <= Max(T)
<1> DEFINE D == {n - k : k \in T}
<1>1. D \subseteq Nat /\ D # {}
  <2>1. \A k \in T : n - k \in Nat
    OBVIOUS
  <2>2. QED  BY <2>1
<1>2. PICK d \in D : \A e \in D : d <= e
  BY <1>1, LeastNumber
<1>3. PICK m \in T : d = n - m
  BY <1>2
<1>4. ASSUME NEW k \in T PROVE m >= k
  <2>1. n - m <= n - k
    BY <1>2, <1>3
  <2>2. QED  BY <2>1
<1>5. QED  BY <1>3, <1>4 DEF Max

\* A function may be defined by its value at 0 and a step.
IsRun(f, n, S, start, step) ==
  /\ f \in [0..n -> S]
  /\ f[0] = start /\ \A i \in 1..n : f[i] = step[i][f[i - 1]]

LEMMA Recursion ==
  ASSUME NEW n \in Nat, NEW S, NEW start \in S, NEW step \in [1..n -> [S -> S]]
  PROVE  \E f : IsRun(f, n, S, start, step)
<1> DEFINE Steps(f, k) == f[0] = start /\ \A i \in 1..k : f[i] = step[i][f[i - 1]]
           T == {k \in Nat : k <= n => \E f \in [0..k -> S] : Steps(f, k)}
<1>1. 0 \in T
  <2> DEFINE f == [i \in 0..0 |-> start]
  <2>1. f \in [0..0 -> S] /\ Steps(f, 0)
    OBVIOUS
  <2>2. QED  BY <2>1
<1>2. ASSUME NEW k \in T, k + 1 <= n PROVE \E f \in [0..(k + 1) -> S] : Steps(f, k + 1)
  <2>1. PICK g \in [0..k -> S] : Steps(g, k)
    BY <1>2
  <2>2. k \in Nat /\ k \in 0..k /\ k + 1 \in 1..n /\ g[k] \in S /\ step[k + 1] \in [S -> S]
    BY <1>2
  <2>2a. step[k + 1][g[k]] \in S
    BY <2>2
  <2> DEFINE f == [i \in 0..(k + 1) |-> IF i = k + 1 THEN step[k + 1][g[k]] ELSE g[i]]
  <2>3. f \in [0..(k + 1) -> S]
    BY <2>2, <2>2a
  <2>4. \A i \in 0..k : f[i] = g[i]
    BY <2>2
  <2>5. f[k + 1] = step[k + 1][g[k]] /\ g[k] = f[k]
    BY <2>2, <2>4
  <2> HIDE DEF f
  <2>6. f[0] = start
    BY <2>1, <2>2, <2>4
  <2>7. ASSUME NEW i \in 1..(k + 1) PROVE f[i] = step[i][f[i - 1]]
    <3>1. CASE i = k + 1
      BY <2>2, <2>5, <3>1
    <3>2. CASE i \in 1..k
      <4>1. i - 1 \in 0..k /\ i \in 0..k
        BY <2>2, <3>2
      <4>2. QED  BY <2>1, <2>4, <3>2, <4>1
    <3>3. QED  BY <2>2, <3>1, <3>2
  <2>8. Steps(f, k + 1)
    BY <2>6, <2>7
  <2>9. QED  BY <2>3, <2>8
<1> HIDE DEF Steps
<1>3. \A k \in T : k + 1 \in T
  BY <1>2
<1>4. T = Nat
  BY <1>1, <1>3, Induction
<1>5. \E f \in [0..n -> S] : Steps(f, n)
  BY <1>4
<1>6. QED  BY <1>5 DEF Steps, IsRun

(***************************************************************************)
(* The two scanners of a line, character by character.                      *)
(***************************************************************************)
Modes == {"outside", "text", "escape", "doubled", "code", "quoted", "quotedEscape"}
Readings == [mode : Modes, depth : Int]
Strips == {"code", "string", "escaped"}
CharAt(l, i) == IF i <= Len(l) THEN l[i] ELSE NL

LEMMA CharsDiffer ==
  /\ Quote # Backslash /\ Quote \notin {LeftBrace, RightBrace, NL, "#"}
  /\ Backslash \notin {LeftBrace, RightBrace, NL, "#"} /\ LeftBrace # RightBrace
  /\ LeftBrace \notin {NL, "#"} /\ RightBrace \notin {NL, "#"}
  BY Zenon DEF Quote, Backslash, LeftBrace, RightBrace, NL

LEMMA StripStepIs ==
  ASSUME NEW c, NEW next
  PROVE  /\ StripStep("code", c, next) = IF c = Quote THEN "string" ELSE "code"
         /\ StripStep("string", c, next) = IF c = Backslash THEN "escaped"
                                           ELSE IF c = Quote THEN "code" ELSE "string"
         /\ StripStep("escaped", c, next) = "string"
  BY Zenon DEF StripStep

LEMMA ReadStepIs ==
  ASSUME NEW s, NEW c, NEW next
  PROVE  /\ s.mode = "outside" => ReadStep(s, c, next) = IF c = Quote THEN Text ELSE Outside
         /\ s.mode = "text" =>
              ReadStep(s, c, next) = IF c = Backslash THEN Reading("escape", 0)
                                     ELSE IF c = Quote THEN Outside
                                     ELSE IF c # LeftBrace THEN CodeStep(s, c)
                                     ELSE IF next = LeftBrace THEN Reading("doubled", 0) ELSE Reading("code", 1)
         /\ s.mode \in {"escape", "doubled"} => ReadStep(s, c, next) = Text
         /\ s.mode \notin {"outside", "text", "escape", "doubled"} => ReadStep(s, c, next) = CodeStep(s, c)
<1>1. s.mode = "outside" => ReadStep(s, c, next) = IF c = Quote THEN Text ELSE Outside
  BY Zenon DEF ReadStep
<1>2. s.mode = "text" /\ c = Backslash => ReadStep(s, c, next) = Reading("escape", 0)
  BY Zenon DEF ReadStep, Quote, Backslash, LeftBrace, RightBrace
<1>3. s.mode = "text" /\ c = Quote => ReadStep(s, c, next) = Outside
  BY Zenon DEF ReadStep, Quote, Backslash, LeftBrace, RightBrace
<1>4. s.mode = "text" /\ c = LeftBrace =>
        ReadStep(s, c, next) = IF next = LeftBrace THEN Reading("doubled", 0) ELSE Reading("code", 1)
  BY Zenon DEF ReadStep, Quote, Backslash, LeftBrace, RightBrace
<1>5. s.mode = "text" /\ c \notin {Backslash, Quote, LeftBrace} => ReadStep(s, c, next) = CodeStep(s, c)
  BY Zenon DEF ReadStep
<1>6. s.mode \in {"escape", "doubled"} => ReadStep(s, c, next) = Text
  BY Zenon DEF ReadStep
<1>7. s.mode \notin {"outside", "text", "escape", "doubled"} => ReadStep(s, c, next) = CodeStep(s, c)
  BY Zenon DEF ReadStep
<1>8. QED  BY <1>1, <1>2, <1>3, <1>4, <1>5, <1>6, <1>7, CharsDiffer

LEMMA OutsideStep ==
  ASSUME NEW c, NEW next
  PROVE  ReadStep(Outside, c, next) = IF c = Quote THEN Text ELSE Outside
<1>1. Outside.mode = "outside"
  BY DEF Outside, Reading
<1>2. QED  BY <1>1, ReadStepIs

LEMMA CodeStepIs ==
  ASSUME NEW s, NEW c
  PROVE  /\ s.mode = "code" =>
              CodeStep(s, c) = IF c = Quote THEN Reading("quoted", s.depth)
                               ELSE IF c = LeftBrace THEN Reading("code", s.depth + 1)
                               ELSE IF c # RightBrace THEN s
                               ELSE IF s.depth = 1 THEN Text ELSE Reading("code", s.depth - 1)
         /\ s.mode = "quoted" =>
              CodeStep(s, c) = IF c = Backslash THEN Reading("quotedEscape", s.depth)
                               ELSE IF c = Quote THEN Reading("code", s.depth) ELSE s
         /\ s.mode = "quotedEscape" => CodeStep(s, c) = Reading("quoted", s.depth)
         /\ s.mode \notin {"code", "quoted", "quotedEscape"} => CodeStep(s, c) = s
<1>1. s.mode = "code" /\ c = Quote => CodeStep(s, c) = Reading("quoted", s.depth)
  BY Zenon DEF CodeStep, Quote, Backslash, LeftBrace, RightBrace
<1>2. s.mode = "code" /\ c = LeftBrace => CodeStep(s, c) = Reading("code", s.depth + 1)
  BY Zenon DEF CodeStep, Quote, Backslash, LeftBrace, RightBrace
<1>3. s.mode = "code" /\ c = RightBrace =>
        CodeStep(s, c) = IF s.depth = 1 THEN Text ELSE Reading("code", s.depth - 1)
  BY Zenon DEF CodeStep, Quote, Backslash, LeftBrace, RightBrace
<1>4. s.mode = "code" /\ c \notin {Quote, LeftBrace, RightBrace} => CodeStep(s, c) = s
  BY Zenon DEF CodeStep, Quote, Backslash, LeftBrace, RightBrace
<1>5. s.mode = "quoted" /\ c = Backslash => CodeStep(s, c) = Reading("quotedEscape", s.depth)
  BY Zenon DEF CodeStep, Quote, Backslash, LeftBrace, RightBrace
<1>6. s.mode = "quoted" /\ c = Quote => CodeStep(s, c) = Reading("code", s.depth)
  BY Zenon DEF CodeStep, Quote, Backslash, LeftBrace, RightBrace
<1>7. s.mode = "quoted" /\ c \notin {Backslash, Quote} => CodeStep(s, c) = s
  BY Zenon DEF CodeStep
<1>8. s.mode = "quotedEscape" => CodeStep(s, c) = Reading("quoted", s.depth)
  BY Zenon DEF CodeStep
<1>9. s.mode \notin {"code", "quoted", "quotedEscape"} => CodeStep(s, c) = s
  BY Zenon DEF CodeStep
<1>10. QED
  BY <1>1, <1>2, <1>3, <1>4, <1>5, <1>6, <1>7, <1>8, <1>9, CharsDiffer

LEMMA ReadingsStay ==
  ASSUME NEW s \in Readings, NEW c, NEW next
  PROVE  ReadStep(s, c, next) \in Readings
<1>1. /\ Text \in Readings /\ Outside \in Readings /\ s.mode \in Modes /\ s.depth \in Int
      /\ \A m \in Modes, d \in Int : Reading(m, d) \in Readings
  BY DEF Readings, Reading, Text, Outside, Modes
<1>2. CodeStep(s, c) \in Readings
  <2>1. CASE s.mode = "code"
    <3>1. CodeStep(s, c) \in {Reading("quoted", s.depth), Reading("code", s.depth + 1), s, Text, Reading("code", s.depth - 1)}
      BY <2>1, CodeStepIs
    <3>2. s.depth + 1 \in Int /\ s.depth - 1 \in Int
      BY <1>1
    <3>3. QED
      BY <1>1, <3>1, <3>2 DEF Modes
  <2>2. CASE s.mode = "quoted"
    <3>1. CodeStep(s, c) \in {Reading("quotedEscape", s.depth), Reading("code", s.depth), s}
      BY <2>2, CodeStepIs
    <3>2. QED
      BY <1>1, <3>1 DEF Modes
  <2>3. CASE s.mode \notin {"code", "quoted"}
    BY <1>1, <2>3, CodeStepIs DEF Modes
  <2>4. QED  BY <2>1, <2>2, <2>3
<1>3. CASE s.mode = "text"
  <2>1. ReadStep(s, c, next)
          \in {Reading("escape", 0), Outside, CodeStep(s, c), Reading("doubled", 0), Reading("code", 1)}
    <3> USE <1>3, ReadStepIs
    <3>1. CASE c = Backslash  BY <3>1
    <3>2. CASE c = Quote  BY <3>2, CharsDiffer
    <3>3. CASE c = LeftBrace  BY <3>3, CharsDiffer
    <3>4. CASE c \notin {Backslash, Quote, LeftBrace}  BY <3>4
    <3>5. QED  BY <3>1, <3>2, <3>3, <3>4
  <2>2. QED
    BY <1>1, <1>2, <2>1 DEF Modes
<1>4. CASE s.mode # "text"
  BY <1>1, <1>2, <1>4, ReadStepIs DEF Modes
<1>5. QED  BY <1>3, <1>4

LEMMA StripsStay ==
  ASSUME NEW s \in Strips, NEW c, NEW next
  PROVE  StripStep(s, c, next) \in Strips
<1>1. s = "code" \/ s = "string" \/ s = "escaped"
  BY DEF Strips
<1>2. QED  BY <1>1, StripStepIs DEF Strips

LEMMA ReadRun ==
  ASSUME NEW l \in Seq(STRING)
  PROVE  LET read == Run(ReadStep, Outside, l)
         IN  /\ read[0] = Outside /\ read \in [0..Len(l) -> Readings]
             /\ \A i \in 1..Len(l) : read[i] = ReadStep(read[i - 1], l[i], CharAt(l, i + 1))
<1> DEFINE n == Len(l)
           step == [i \in 1..n |-> [s \in Readings |-> ReadStep(s, CharAt(l, i), CharAt(l, i + 1))]]
<1>1. n \in Nat /\ Outside \in Readings
  BY DEF Outside, Reading, Readings, Modes
<1>2. step \in [1..n -> [Readings -> Readings]]
  BY ReadingsStay
<1>3. \A i \in 1..n, s \in Readings : step[i][s] = ReadStep(s, CharAt(l, i), CharAt(l, i + 1))
  OBVIOUS
<1> HIDE DEF step, n
<1>4. \E f : IsRun(f, n, Readings, Outside, step)
  BY <1>1, <1>2, Recursion, Zenon
<1>4a. PICK f \in [0..n -> Readings] : f[0] = Outside /\ \A i \in 1..n : f[i] = step[i][f[i - 1]]
  BY <1>4 DEF IsRun
<1>5. \A i \in 1..n : f[i] = ReadStep(f[i - 1], CharAt(l, i), CharAt(l, i + 1))
  <2> TAKE i \in 1..n
  <2>1. f[i - 1] \in Readings
    BY <1>1, <1>4a
  <2>2. QED  BY <1>3, <1>4a, <2>1
<1> DEFINE is(g) == g = [i \in 0..n |-> IF i = 0 THEN Outside
                                      ELSE ReadStep(g[i - 1], CharAt(l, i), CharAt(l, i + 1))]
<1>6. is(f)
  <2>1. \A i \in 0..n : i = 0 \/ i \in 1..n
    BY <1>1
  <2>2. QED  BY <1>4a, <1>5, <2>1
<1>7. Run(ReadStep, Outside, l) = CHOOSE g : is(g)
  BY DEF Run, CharAt, n
<1> HIDE DEF is
<1>8. is(Run(ReadStep, Outside, l))
  BY <1>6, <1>7
<1> DEFINE read == Run(ReadStep, Outside, l)
<1>9. /\ DOMAIN read = 0..n /\ read[0] = Outside
      /\ \A i \in 1..n : read[i] = ReadStep(read[i - 1], CharAt(l, i), CharAt(l, i + 1))
  BY <1>1, <1>8 DEF is
<1> DEFINE T == {k \in 0..n : read[k] \in Readings}
<1> HIDE DEF read
<1>10. 0 \in T /\ \A i \in 1..n : i - 1 \in T => i \in T
  BY <1>1, <1>9, ReadingsStay
<1>11. \A k \in 0..n : read[k] \in Readings
  BY <1>1, <1>10, Upto
<1>12. QED  BY <1>9, <1>11 DEF read, CharAt, n

LEMMA StripRun ==
  ASSUME NEW l \in Seq(STRING)
  PROVE  LET strip == Run(StripStep, "code", l)
         IN  /\ strip[0] = "code" /\ strip \in [0..Len(l) -> Strips]
             /\ \A i \in 1..Len(l) : strip[i] = StripStep(strip[i - 1], l[i], CharAt(l, i + 1))
<1> DEFINE n == Len(l)
           step == [i \in 1..n |-> [s \in Strips |-> StripStep(s, CharAt(l, i), CharAt(l, i + 1))]]
<1>1. n \in Nat /\ "code" \in Strips
  BY DEF Strips
<1>2. step \in [1..n -> [Strips -> Strips]]
  BY StripsStay
<1>3. \A i \in 1..n, s \in Strips : step[i][s] = StripStep(s, CharAt(l, i), CharAt(l, i + 1))
  OBVIOUS
<1> HIDE DEF step, n
<1>4. \E f : IsRun(f, n, Strips, "code", step)
  BY <1>1, <1>2, Recursion, Zenon
<1>4a. PICK f \in [0..n -> Strips] : f[0] = "code" /\ \A i \in 1..n : f[i] = step[i][f[i - 1]]
  BY <1>4 DEF IsRun
<1>5. \A i \in 1..n : f[i] = StripStep(f[i - 1], CharAt(l, i), CharAt(l, i + 1))
  <2> TAKE i \in 1..n
  <2>1. f[i - 1] \in Strips
    BY <1>1, <1>4a
  <2>2. QED  BY <1>3, <1>4a, <2>1
<1> DEFINE is(g) == g = [i \in 0..n |-> IF i = 0 THEN "code"
                                      ELSE StripStep(g[i - 1], CharAt(l, i), CharAt(l, i + 1))]
<1>6. is(f)
  <2>1. \A i \in 0..n : i = 0 \/ i \in 1..n
    BY <1>1
  <2>2. QED  BY <1>4a, <1>5, <2>1
<1>7. Run(StripStep, "code", l) = CHOOSE g : is(g)
  BY DEF Run, CharAt, n
<1> HIDE DEF is
<1>8. is(Run(StripStep, "code", l))
  BY <1>6, <1>7
<1> DEFINE strip == Run(StripStep, "code", l)
<1>9. /\ DOMAIN strip = 0..n /\ strip[0] = "code"
      /\ \A i \in 1..n : strip[i] = StripStep(strip[i - 1], CharAt(l, i), CharAt(l, i + 1))
  BY <1>1, <1>8 DEF is
<1> DEFINE T == {k \in 0..n : strip[k] \in Strips}
<1> HIDE DEF strip
<1>10. 0 \in T /\ \A i \in 1..n : i - 1 \in T => i \in T
  BY <1>1, <1>9, StripsStay
<1>11. \A k \in 0..n : strip[k] \in Strips
  BY <1>1, <1>10, Upto
<1>12. QED  BY <1>9, <1>11 DEF strip, CharAt, n

\* How the two see a character, until a string is quoted within one.  After
\* the first of two braces the other one is next.
Agree(read, strip, next) ==
  /\ read.mode \in {"outside", "text", "escape", "doubled", "code"}
  /\ read.mode = "outside" => read = Outside
  /\ strip = "code" <=> read.mode = "outside"
  /\ read.mode = "escape" => strip = "escaped"
  /\ read.mode \in {"text", "doubled"} => strip = "string"
  /\ read.mode = "doubled" => next = LeftBrace

LEMMA AgreementStays ==
  ASSUME NEW r \in Readings, NEW s \in Strips, NEW c, NEW next, Agree(r, s, c),
         ReadStep(r, c, next).mode # "quoted"
  PROVE  Agree(ReadStep(r, c, next), StripStep(s, c, next), next)
<1> USE CharsDiffer DEF Agree
<1>1. CASE r.mode = "outside"
  BY <1>1, ReadStepIs, StripStepIs DEF Outside, Text, Reading
<1>2. CASE r.mode = "text"
  <2>1. CASE c = LeftBrace
    BY <1>2, <2>1, ReadStepIs, StripStepIs DEF Outside, Text, Reading
  <2>2. CASE c \in {Backslash, Quote}
    BY <1>2, <2>2, ReadStepIs, StripStepIs DEF Outside, Text, Reading
  <2>3. CASE c \notin {Backslash, Quote, LeftBrace}
    <3>1. ReadStep(r, c, next) = r
      BY <1>2, <2>3, ReadStepIs, CodeStepIs
    <3>2. QED  BY <1>2, <2>3, <3>1, StripStepIs
  <2>4. QED  BY <2>1, <2>2, <2>3
<1>3. CASE r.mode \in {"escape", "doubled"}
  BY <1>3, ReadStepIs, StripStepIs DEF Outside, Text, Reading
<1>4. CASE r.mode = "code"
  <2>1. ReadStep(r, c, next) = CodeStep(r, c)
    BY <1>4, ReadStepIs
  <2>2. c # Quote
    BY <1>4, <2>1, CodeStepIs DEF Reading
  <2>3. ReadStep(r, c, next).mode \in {"code", "text"}
    BY <1>4, <2>1, <2>2, CodeStepIs DEF Reading, Text
  <2>4. s \in {"string", "escaped"}
    BY <1>4 DEF Strips
  <2>5. StripStep(s, c, next) \in {"string", "escaped"}
    BY <2>2, <2>4, StripStepIs
  <2>6. ReadStep(r, c, next).mode = "text" => StripStep(s, c, next) = "string"
    <3>1. ReadStep(r, c, next).mode = "text" => c = RightBrace
      BY <1>4, <2>1, <2>2, CodeStepIs DEF Reading
    <3>2. QED  BY <2>4, <3>1, StripStepIs
  <2>7. QED  BY <2>3, <2>5, <2>6
<1>5. QED  BY <1>1, <1>2, <1>3, <1>4

LEMMA ScannersAgree ==
  ASSUME NEW l \in Seq(STRING), NEW k \in 0..Len(l),
         \A j \in 1..k : Run(ReadStep, Outside, l)[j].mode # "quoted"
  PROVE  Agree(Run(ReadStep, Outside, l)[k], Run(StripStep, "code", l)[k], CharAt(l, k + 1))
<1> DEFINE read == Run(ReadStep, Outside, l)
           strip == Run(StripStep, "code", l)
           T == {i \in 0..k : Agree(read[i], strip[i], CharAt(l, i + 1))}
<1>1. /\ read[0] = Outside /\ read \in [0..Len(l) -> Readings]
      /\ \A i \in 1..Len(l) : read[i] = ReadStep(read[i - 1], l[i], CharAt(l, i + 1))
  BY ReadRun
<1>2. /\ strip[0] = "code" /\ strip \in [0..Len(l) -> Strips]
      /\ \A i \in 1..Len(l) : strip[i] = StripStep(strip[i - 1], l[i], CharAt(l, i + 1))
  BY StripRun
<1>3. \A j \in 1..k : read[j].mode # "quoted"
  OBVIOUS
<1> HIDE DEF read, strip
<1>4. 0 \in T
  BY <1>1, <1>2 DEF Agree, Outside, Reading
<1> HIDE DEF CharAt
<1>5. ASSUME NEW i \in 1..k, i - 1 \in T PROVE i \in T
  <2>1. /\ i \in 1..Len(l) /\ i - 1 \in 0..Len(l) /\ i - 1 + 1 = i /\ i \in 0..k
    OBVIOUS
  <2>2. /\ read[i - 1] \in Readings /\ strip[i - 1] \in Strips
        /\ Agree(read[i - 1], strip[i - 1], l[i])
    BY <1>1, <1>2, <1>5, <2>1 DEF CharAt
  <2>3. QED  BY <1>1, <1>2, <1>3, <2>1, <2>2, AgreementStays
<1>6. k \in T
  <2>1. k \in Nat /\ k \in 0..k
    OBVIOUS
  <2> HIDE DEF T
  <2>2. \A i \in 0..k : i \in T
    BY <1>4, <1>5, <2>1, Upto
  <2>3. QED  BY <2>1, <2>2
<1>7. QED  BY <1>6 DEF read, strip

(***************************************************************************)
(* What the lexer accepts, it read to the end outside of strings.           *)
(***************************************************************************)
LEMMA FirstIs ==
  ASSUME NEW S, S \subseteq Nat, S # {}
  PROVE  First(S) \in S /\ \A j \in S : First(S) <= j
<1>1. \E i \in S : \A j \in S : i <= j
  BY LeastNumber
<1>2. QED  BY <1>1 DEF First

LEMMA EndOfIs ==
  ASSUME NEW l \in Seq(STRING), NEW i \in 1..(Len(l) + 1), NEW chars
  PROVE  /\ EndOf(l, i, chars) \in i..(Len(l) + 1)
         /\ \A j \in i..(EndOf(l, i, chars) - 1) : l[j] \in chars
         /\ i <= Len(l) /\ l[i] \in chars => EndOf(l, i, chars) > i
<1> DEFINE S == {j \in i..(Len(l) + 1) : j > Len(l) \/ l[j] \notin chars}
           e == EndOf(l, i, chars)
<1>1. Len(l) \in Nat /\ Len(l) + 1 \in S /\ S \subseteq Nat
  OBVIOUS
<1>2. e = First(S)
  BY DEF EndOf
<1> HIDE DEF e
<1>3. e \in S /\ \A j \in S : e <= j
  <2> HIDE DEF S
  <2>1. QED  BY <1>1, <1>2, FirstIs
<1>4. \A j \in i..(e - 1) : l[j] \in chars
  BY <1>1, <1>3
<1>5. i <= Len(l) /\ l[i] \in chars => e > i
  BY <1>1, <1>3
<1>6. QED  BY <1>3, <1>4, <1>5 DEF e

PlainChars == Letters \union Symbols \union {"0"}

IsSpace(c) == c = " "

LEMMA SpaceIs == ~IsSpace(Quote) /\ ~IsSpace("#")
  BY Zenon DEF IsSpace, Quote

LEMMA PlainIs ==
  /\ Quote \notin PlainChars /\ "#" \notin PlainChars /\ Quote # "#"
  /\ "-" \in PlainChars /\ "." \in PlainChars /\ "=" \in PlainChars /\ "0" \in PlainChars
  BY DEF PlainChars, Letters, Symbols, Quote

LEMMA NumberEndIs ==
  ASSUME NEW l \in Seq(STRING), NEW i \in 1..Len(l), StartsNumber(l, i)
  PROVE  /\ NumberEnd(l, i) \in (i + 1)..(Len(l) + 1)
         /\ \A j \in i..(NumberEnd(l, i) - 1) : l[j] \in PlainChars
<1> DEFINE n == Len(l)
           start == IF l[i] = "-" THEN i + 1 ELSE i
           whole == EndOf(l, start, {"0"})
           all == EndOf(l, whole + 1, {"0"})
<1>1. n \in Nat /\ start \in 1..(n + 1) /\ (l[i] = "-" \/ l[i] = "0")
  <2>1. l[i] = "-" \/ l[i] = "0"
    BY DEF StartsNumber
  <2>2. i \in 1..(n + 1) /\ i + 1 \in 1..(n + 1) /\ n \in Nat
    OBVIOUS
  <2>3. QED  BY <2>1, <2>2
<1>2. /\ whole \in start..(n + 1) /\ whole > i
      /\ \A j \in i..(whole - 1) : l[j] \in PlainChars
  <2>1. /\ whole \in start..(n + 1) /\ \A j \in start..(whole - 1) : l[j] \in {"0"}
        /\ start <= n /\ l[start] \in {"0"} => whole > start
    <3> HIDE DEF start
    <3>1. QED  BY <1>1, EndOfIs
  <2> HIDE DEF whole
  <2>2. whole > i
    BY <1>1, <2>1
  <2>3. ASSUME NEW j \in i..(whole - 1) PROVE l[j] \in PlainChars
    <3>1. j \in start..(whole - 1) \/ (j = i /\ l[i] = "-")
      BY <1>1, <2>1
    <3>2. QED  BY <2>1, <3>1, PlainIs
  <2>4. QED  BY <2>1, <2>2, <2>3
<1> HIDE DEF whole, start
<1>3. whole \in Nat
  BY <1>1, <1>2
<1>4. CASE whole <= n /\ l[whole] = "."
  <2>1. NumberEnd(l, i) = all
    BY <1>4 DEF NumberEnd, whole, start
  <2>2. whole + 1 \in 1..(n + 1)
    BY <1>1, <1>3, <1>4
  <2>3. all \in (whole + 1)..(n + 1) /\ \A j \in (whole + 1)..(all - 1) : l[j] \in {"0"}
    BY <2>2, EndOfIs
  <2> HIDE DEF all
  <2>4. ASSUME NEW j \in i..(all - 1) PROVE l[j] \in PlainChars
    <3>1. j \in i..(whole - 1) \/ j = whole \/ j \in (whole + 1)..(all - 1)
      BY <1>1, <1>2, <2>3
    <3>2. QED  BY <1>2, <1>4, <2>3, <3>1, PlainIs
  <2>5. QED  BY <1>1, <1>2, <1>3, <2>1, <2>3, <2>4
<1>5. CASE ~(whole <= n /\ l[whole] = ".")
  <2>1. NumberEnd(l, i) = whole
    BY <1>5 DEF NumberEnd, whole, start
  <2>2. QED  BY <1>1, <1>2, <1>3, <2>1
<1>6. QED  BY <1>4, <1>5

\* A string token ends where read_string is first outside again.
LEMMA StringAtIs ==
  ASSUME NEW l \in Seq(STRING), NEW i \in 1..Len(l), StringAt(l, i) # NoToken
  PROVE  LET states == Run(ReadStep, Outside, SubSeq(l, i, Len(l)))
         IN  \E last \in 2..(Len(l) - i + 1) :
               /\ StringAt(l, i).next = i + last
               /\ states[last] = Outside /\ \A j \in 2..(last - 1) : states[j] # Outside
<1> DEFINE rest == SubSeq(l, i, Len(l))
           states == Run(ReadStep, Outside, rest)
           ends == {j \in 2..Len(rest) : states[j] = Outside}
           last == First(ends)
           value == FlattenSeq([j \in 1..(last - 2) |-> Written(states[j], rest[j + 1])])
<1>1. Len(rest) = Len(l) - i + 1 /\ Len(l) \in Nat
  <2>1. Len(l) \in Nat /\ \A j \in i..Len(l) : l[j] \in STRING
    OBVIOUS
  <2>2. QED  BY <2>1, SubSeqProperties
<1>2. StringAt(l, i) = IF ends = {} THEN NoToken ELSE Token("string", value, i + last)
  BY DEF StringAt
<1> HIDE DEF rest, states, value
<1>3. ends # {} /\ StringAt(l, i).next = i + last
  BY <1>2 DEF Token
<1>4. ends \subseteq Nat
  BY <1>1
<1>5. last \in ends /\ \A j \in ends : last <= j
  <2> HIDE DEF ends
  <2>1. QED  BY <1>3, <1>4, FirstIs
<1> HIDE DEF last
<1>6. last \in 2..(Len(l) - i + 1) /\ states[last] = Outside /\ \A j \in 2..(last - 1) : states[j] # Outside
  BY <1>1, <1>5
<1>7. QED  BY <1>3, <1>6 DEF states, rest

\* Any other token has no quote and no comment in it.
LEMMA TokenIs ==
  ASSUME NEW l \in Seq(STRING), NEW i \in 1..Len(l), TokenAt(l, i) # NoToken
  PROVE  /\ TokenAt(l, i).next \in (i + 1)..(Len(l) + 1)
         /\ l[i] = Quote => TokenAt(l, i) = StringAt(l, i)
         /\ l[i] # Quote => \A j \in i..(TokenAt(l, i).next - 1) : l[j] \in PlainChars
<1> DEFINE token == TokenAt(l, i)
           n == Len(l)
           Good(next) == next \in (i + 1)..(n + 1) /\ \A j \in i..(next - 1) : l[j] \in PlainChars
<1>0. n \in Nat
  OBVIOUS
<1>1. CASE l[i] = Quote
  <2>1. token = StringAt(l, i)
    BY <1>1 DEF TokenAt
  <2>2. PICK last \in 2..(n - i + 1) : token.next = i + last
    BY <2>1, StringAtIs
  <2>3. QED  BY <1>1, <2>1, <2>2
<1>2. CASE l[i] # Quote
  <2> SUFFICES Good(token.next)
    BY <1>2
  <2>0. \A kind, next : Spelled(kind, l, i, next).next = next
    BY DEF Spelled, Token
  <2>1. CASE StartsNumber(l, i)
    <3>1. token = Spelled("number", l, i, NumberEnd(l, i))
      BY <1>2, <2>1 DEF TokenAt
    <3>2. QED  BY <2>0, <2>1, <3>1, NumberEndIs
  <2>2. CASE ~StartsNumber(l, i) /\ l[i] = "=" /\ i < n /\ l[i + 1] = "="
    <3>1. token = Spelled("symbol", l, i, i + 2)
      BY <1>2, <2>2 DEF TokenAt
    <3>2. i + 2 \in (i + 1)..(n + 1) /\ \A j \in i..(i + 2 - 1) : j = i \/ j = i + 1
      BY <1>0, <2>2
    <3>3. token.next = i + 2
      BY <2>0, <3>1
    <3>4. QED  BY <2>2, <3>2, <3>3, PlainIs
  <2>3. CASE ~StartsNumber(l, i) /\ ~(l[i] = "=" /\ i < n /\ l[i + 1] = "=") /\ l[i] \in Symbols
    <3>1. token = Spelled("symbol", l, i, i + 1)
      BY <1>2, <2>3 DEF TokenAt
    <3>2. QED  BY <2>0, <2>3, <3>1 DEF PlainChars
  <2>4. CASE ~StartsNumber(l, i) /\ ~(l[i] = "=" /\ i < n /\ l[i + 1] = "=") /\ l[i] \notin Symbols /\ l[i] \in Letters
    <3> DEFINE e == EndOf(l, i, Letters \union {"0"})
    <3>1. token = Spelled("name", l, i, e)
      BY <1>2, <2>4 DEF TokenAt
    <3>2. e \in i..(n + 1) /\ (\A j \in i..(e - 1) : l[j] \in Letters \union {"0"}) /\ e > i
      BY <2>4, EndOfIs
    <3> HIDE DEF e
    <3>3. QED  BY <2>0, <3>1, <3>2 DEF PlainChars
  <2>5. CASE ~StartsNumber(l, i) /\ ~(l[i] = "=" /\ i < n /\ l[i + 1] = "=") /\ l[i] \notin Symbols /\ l[i] \notin Letters
    BY <1>2, <2>5 DEF TokenAt
  <2>6. QED  BY <2>1, <2>2, <2>3, <2>4, <2>5
<1>3. QED  BY <1>1, <1>2

\* read_string sees a part of a line that it reaches outside of strings, and
\* a line that is cut at a comment, as it sees the line.
LEMMA ShiftedRun ==
  ASSUME NEW l \in Seq(STRING), NEW i \in 1..Len(l), Run(ReadStep, Outside, l)[i - 1] = Outside
  PROVE  \A j \in 0..(Len(l) - i + 1) :
           Run(ReadStep, Outside, SubSeq(l, i, Len(l)))[j] = Run(ReadStep, Outside, l)[i - 1 + j]
<1> DEFINE n == Len(l)
           rest == SubSeq(l, i, n)
           m == n - i + 1
           part == Run(ReadStep, Outside, rest)
           read == Run(ReadStep, Outside, l)
           T == {j \in 0..m : part[j] = read[i - 1 + j]}
<1>1. n \in Nat /\ i \in Nat /\ i >= 1 /\ m \in Nat /\ \A j \in i..n : l[j] \in STRING
  OBVIOUS
<1>2. rest \in Seq(STRING) /\ Len(rest) = m /\ \A j \in 1..m : rest[j] = l[i + j - 1]
  BY <1>1, SubSeqProperties
<1>3. /\ part[0] = Outside
      /\ \A j \in 1..m : part[j] = ReadStep(part[j - 1], rest[j], CharAt(rest, j + 1))
  BY <1>2, ReadRun
<1>4. \A j \in 1..n : read[j] = ReadStep(read[j - 1], l[j], CharAt(l, j + 1))
  BY ReadRun
<1>5. read[i - 1] = Outside
  OBVIOUS
<1> HIDE DEF part, read, rest
<1>6. \A j \in 1..m : CharAt(rest, j + 1) = CharAt(l, i + j)
  BY <1>1, <1>2 DEF CharAt
<1>7. 0 \in T
  BY <1>1, <1>3, <1>5
<1>8. ASSUME NEW j \in 1..m, j - 1 \in T PROVE j \in T
  <2>1. part[j] = ReadStep(part[j - 1], rest[j], CharAt(rest, j + 1))
    BY <1>3
  <2>2. i + j - 1 \in 1..n /\ i + j - 1 + 1 = i + j /\ i + j - 1 - 1 = i - 1 + (j - 1) /\ i - 1 + j = i + j - 1
    BY <1>1
  <2>3. read[i - 1 + j] = ReadStep(read[i - 1 + (j - 1)], l[i + j - 1], CharAt(l, i + j))
    BY <1>4, <2>2
  <2>4. part[j - 1] = read[i - 1 + (j - 1)]
    BY <1>8
  <2>5. QED  BY <1>2, <1>6, <2>1, <2>3, <2>4
<1>9. \A j \in 0..m : j \in T
  <2> HIDE DEF T, m
  <2>1. QED  BY <1>1, <1>7, <1>8, Upto
<1>10. QED  BY <1>9 DEF part, read, rest

LEMMA CutRun ==
  ASSUME NEW l \in Seq(STRING), NEW k \in 1..Len(l), l[k] = "#"
  PROVE  /\ SubSeq(l, 1, k - 1) \in Seq(STRING) /\ Len(SubSeq(l, 1, k - 1)) = k - 1
         /\ \A j \in 1..(k - 1) : SubSeq(l, 1, k - 1)[j] = l[j]
         /\ \A j \in 0..(k - 1) :
              Run(ReadStep, Outside, SubSeq(l, 1, k - 1))[j] = Run(ReadStep, Outside, l)[j]
<1> DEFINE m == k - 1
           cut == SubSeq(l, 1, m)
           part == Run(ReadStep, Outside, cut)
           read == Run(ReadStep, Outside, l)
           T == {j \in 0..m : part[j] = read[j]}
<1>1. m \in Nat /\ k \in Nat /\ Len(l) \in Nat /\ m + 1 = k /\ m < Len(l) /\ \A j \in 1..m : l[j] \in STRING
  OBVIOUS
<1>2. cut \in Seq(STRING) /\ Len(cut) = m /\ \A j \in 1..m : cut[j] = l[j]
  <2>1. /\ cut \in Seq(STRING) /\ Len(cut) = IF 1 <= m THEN m - 1 + 1 ELSE 0
        /\ \A j \in 1..(m - 1 + 1) : cut[j] = l[1 + j - 1]
    BY <1>1, SubSeqProperties
  <2>2. QED  BY <1>1, <2>1
<1>3. /\ part[0] = Outside
      /\ \A j \in 1..m : part[j] = ReadStep(part[j - 1], cut[j], CharAt(cut, j + 1))
  BY <1>2, ReadRun
<1>3a. read[0] = Outside /\ \A j \in 1..Len(l) : read[j] = ReadStep(read[j - 1], l[j], CharAt(l, j + 1))
  BY ReadRun
<1> HIDE DEF part, read, cut
<1>4. read[0] = Outside /\ \A j \in 1..m : read[j] = ReadStep(read[j - 1], l[j], CharAt(l, j + 1))
  <2>1. \A j \in 1..m : j \in 1..Len(l)
    BY <1>1
  <2>2. QED  BY <1>3a, <2>1
<1>5. \A j \in 1..m : \/ CharAt(cut, j + 1) = CharAt(l, j + 1)
                      \/ CharAt(cut, j + 1) = NL /\ CharAt(l, j + 1) = "#"
  BY <1>1, <1>2 DEF CharAt
<1>6. ASSUME NEW s, NEW c PROVE ReadStep(s, c, NL) = ReadStep(s, c, "#")
  <2>1. CASE s.mode = "outside"
    BY <2>1, ReadStepIs
  <2>2. CASE s.mode = "text"
    BY <2>2, ReadStepIs, CharsDiffer
  <2>3. CASE s.mode \in {"escape", "doubled"}
    BY <2>3, ReadStepIs
  <2>4. CASE s.mode \notin {"outside", "text", "escape", "doubled"}
    BY <2>4, ReadStepIs
  <2>5. QED  BY <2>1, <2>2, <2>3, <2>4
<1>7. 0 \in T
  BY <1>1, <1>3, <1>4
<1>8. ASSUME NEW j \in 1..m, j - 1 \in T PROVE j \in T
  <2>1. part[j] = ReadStep(part[j - 1], cut[j], CharAt(cut, j + 1)) /\ cut[j] = l[j]
    BY <1>2, <1>3
  <2>2. read[j] = ReadStep(read[j - 1], l[j], CharAt(l, j + 1)) /\ part[j - 1] = read[j - 1]
    BY <1>4, <1>8
  <2> DEFINE a == CharAt(cut, j + 1)
             b == CharAt(l, j + 1)
  <2>3. a = b \/ (a = NL /\ b = "#")
    BY <1>5
  <2> HIDE DEF a, b
  <2>4. ReadStep(read[j - 1], l[j], a) = ReadStep(read[j - 1], l[j], b)
    BY <1>6, <2>3
  <2>5. QED  BY <2>1, <2>2, <2>4 DEF a, b
<1>9. \A j \in 0..m : j \in T
  <2> HIDE DEF T, m
  <2>1. QED  BY <1>1, <1>7, <1>8, Upto
<1>10. QED  BY <1>2, <1>9 DEF part, read, cut

\* tokenize_line, from the end of the line to its start.
TokensFrom(l, f, i) ==
  IF i > Len(l) THEN [ok |-> TRUE, tokens |-> <<>>]
  ELSE IF IsSpace(l[i]) THEN f[i + 1]
  ELSE LET token == TokenAt(l, i)
       IN  IF token = NoToken \/ ~f[token.next].ok THEN Failed
           ELSE [ok |-> TRUE,
                 tokens |-> <<[kind |-> token.kind, value |-> token.value]>> \o f[token.next].tokens]

LEMMA TokenizeRun ==
  ASSUME NEW l \in Seq(STRING)
  PROVE  \E f : /\ Tokenize(l) = f[1]
                /\ \A i \in 1..(Len(l) + 1) : f[i] = TokensFrom(l, f, i)
<1> DEFINE n == Len(l)
           From(f, m) == DOMAIN f = 1..(n + 1) /\ \A i \in m..(n + 1) : f[i] = TokensFrom(l, f, i)
           T == {d \in 0..(n + 1) : \E f : f = [i \in 1..(n + 1) |-> f[i]] /\ From(f, n + 2 - d)}
           is(f) == f = [i \in 1..(n + 1) |-> TokensFrom(l, f, i)]
<1>1. n \in Nat
  OBVIOUS
<1>2. ASSUME NEW i \in 1..(n + 1), NEW f, NEW g, \A j \in (i + 1)..(n + 1) : f[j] = g[j]
      PROVE  TokensFrom(l, f, i) = TokensFrom(l, g, i)
  <2>1. i <= n => i \in 1..n /\ i + 1 \in (i + 1)..(n + 1)
    BY <1>1
  <2>2. i <= n /\ TokenAt(l, i) # NoToken => TokenAt(l, i).next \in (i + 1)..(n + 1)
    BY <2>1, TokenIs
  <2>3. CASE i > n
    BY <2>3 DEF TokensFrom
  <2>4. CASE i <= n /\ IsSpace(l[i])
    BY <1>2, <2>1, <2>4 DEF TokensFrom
  <2>5. CASE i <= n /\ ~IsSpace(l[i]) /\ TokenAt(l, i) = NoToken
    BY <2>5 DEF TokensFrom
  <2>6. CASE i <= n /\ ~IsSpace(l[i]) /\ TokenAt(l, i) # NoToken
    <3>1. f[TokenAt(l, i).next] = g[TokenAt(l, i).next]
      BY <1>2, <2>2, <2>6
    <3>2. QED  BY <2>6, <3>1 DEF TokensFrom
  <2>7. i > n \/ i <= n
    BY <1>1
  <2>8. QED  BY <2>3, <2>4, <2>5, <2>6, <2>7
<1>3. 0 \in T
  <2> DEFINE f == [i \in 1..(n + 1) |-> 0]
  <2>1. (n + 2 - 0)..(n + 1) = {} /\ 0 \in 0..(n + 1)
    BY <1>1
  <2>2. f = [i \in 1..(n + 1) |-> f[i]] /\ DOMAIN f = 1..(n + 1)
    OBVIOUS
  <2> HIDE DEF f
  <2>3. From(f, n + 2 - 0)
    BY <2>1, <2>2
  <2> HIDE DEF From
  <2>4. QED  BY <2>1, <2>2, <2>3
<1>4. ASSUME NEW d \in 1..(n + 1), d - 1 \in T PROVE d \in T
  <2> DEFINE m == n + 2 - d
  <2>1. m \in 1..(n + 1) /\ n + 2 - (d - 1) = m + 1 /\ d \in 0..(n + 1)
    BY <1>1, <1>4
  <2>2. PICK f : f = [i \in 1..(n + 1) |-> f[i]] /\ From(f, m + 1)
    <3> HIDE DEF From, m
    <3>1. QED  BY <1>4, <2>1
  <2> DEFINE value == TokensFrom(l, f, m)
             g == [i \in 1..(n + 1) |-> IF i = m THEN value ELSE f[i]]
  <2>3. /\ g = [i \in 1..(n + 1) |-> g[i]] /\ DOMAIN g = 1..(n + 1) /\ g[m] = value
        /\ \A i \in 1..(n + 1) : i # m => g[i] = f[i]
    BY <2>1
  <2> HIDE DEF g
  <2>4. ASSUME NEW i \in m..(n + 1) PROVE g[i] = TokensFrom(l, g, i)
    <3>1. i \in 1..(n + 1) /\ m \in Nat
      BY <2>1
    <3>2. \A j \in (i + 1)..(n + 1) : f[j] = g[j]
      BY <1>1, <2>1, <2>3
    <3>3. TokensFrom(l, f, i) = TokensFrom(l, g, i)
      BY <1>2, <3>1, <3>2
    <3>4. g[i] = TokensFrom(l, f, i)
      <4>1. CASE i = m
        BY <2>3, <4>1
      <4>2. CASE i # m
        <5>1. i \in (m + 1)..(n + 1)
          BY <1>1, <2>1, <4>2
        <5>2. f[i] = TokensFrom(l, f, i)
          BY <2>2, <5>1
        <5>3. QED  BY <2>3, <3>1, <4>2, <5>2
      <4>3. QED  BY <4>1, <4>2
    <3>5. QED  BY <3>3, <3>4
  <2>5. From(g, n + 2 - d)
    BY <2>3, <2>4
  <2> HIDE DEF From
  <2>6. QED  BY <2>1, <2>3, <2>5
<1>5. n + 1 \in T
  <2> HIDE DEF T
  <2>1. n + 1 \in Nat /\ n + 1 \in 0..(n + 1)
    BY <1>1
  <2>2. \A d \in 0..(n + 1) : d \in T
    BY <1>3, <1>4, <2>1, Upto
  <2>3. QED  BY <2>1, <2>2
<1>6. PICK f : f = [i \in 1..(n + 1) |-> f[i]] /\ \A i \in 1..(n + 1) : f[i] = TokensFrom(l, f, i)
  <2>1. n + 2 - (n + 1) = 1
    BY <1>1
  <2>2. QED  BY <1>5, <2>1
<1>7. is(f)
  <2> DEFINE r(i) == TokensFrom(l, f, i)
  <2>1. f = [i \in 1..(n + 1) |-> f[i]] /\ \A i \in 1..(n + 1) : f[i] = r(i)
    BY <1>6
  <2> HIDE DEF r
  <2>2. f = [i \in 1..(n + 1) |-> r(i)]
    BY <2>1
  <2>3. QED  BY <2>2 DEF r
<1>8. Tokenize(l) = (CHOOSE g : is(g))[1]
  BY Zenon DEF Tokenize, TokensFrom, IsSpace
<1> HIDE DEF is
<1>9. is(CHOOSE g : is(g))
  BY <1>7
<1> DEFINE h == CHOOSE g : is(g)
<1> HIDE DEF h
<1>10. is(h) /\ Tokenize(l) = h[1]
  BY <1>8, <1>9 DEF h
<1>11. \A i \in 1..(n + 1) : h[i] = TokensFrom(l, h, i)
  <2> DEFINE r(i) == TokensFrom(l, h, i)
  <2>1. h = [i \in 1..(n + 1) |-> r(i)]
    BY <1>10 DEF is
  <2> HIDE DEF r
  <2>2. \A i \in 1..(n + 1) : h[i] = r(i)
    BY <2>1
  <2>3. QED  BY <2>2 DEF r
<1>12. QED  BY <1>10, <1>11

\* When the tokens from some character on make sense, and read_string is outside
\* before it, then every # from there on is inside of a string, and the line
\* ends outside.
LEMMA AcceptedIsRead ==
  ASSUME NEW l \in Seq(STRING), Tokenize(l).ok
  PROVE  /\ Run(ReadStep, Outside, l)[Len(l)] = Outside
         /\ \A j \in 1..Len(l) : l[j] = "#" => Run(ReadStep, Outside, l)[j - 1] # Outside
<1> DEFINE n == Len(l)
           read == Run(ReadStep, Outside, l)
           Fine(i) == read[n] = Outside /\ \A j \in i..n : l[j] = "#" => read[j - 1] # Outside
<1>1. PICK f : Tokenize(l) = f[1] /\ \A i \in 1..(n + 1) : f[i] = TokensFrom(l, f, i)
  BY TokenizeRun
<1>1a. read[0] = Outside /\ \A j \in 1..n : read[j] = ReadStep(read[j - 1], l[j], CharAt(l, j + 1))
  BY ReadRun
<1> HIDE DEF read
<1>2. n \in Nat /\ read[0] = Outside /\ \A j \in 1..n : read[j] = ReadStep(read[j - 1], l[j], CharAt(l, j + 1))
  BY <1>1a
<1> DEFINE Claim(i) == f[i].ok /\ read[i - 1] = Outside => Fine(i)
           T == {d \in 0..(n + 1) : \A i \in (n + 2 - d)..(n + 1) : Claim(i)}
<1>3. 0 \in T
  BY <1>2
<1>4. ASSUME NEW i \in 1..(n + 1), \A k \in (i + 1)..(n + 1) : Claim(k) PROVE Claim(i)
  <2> SUFFICES ASSUME f[i].ok, read[i - 1] = Outside PROVE Fine(i)
    OBVIOUS
  <2>0. f[i] = TokensFrom(l, f, i)
    BY <1>1
  <2>1. ASSUME NEW next \in (i + 1)..(n + 1), f[next].ok, read[next - 1] = Outside,
               \A j \in i..(next - 1) : l[j] = "#" => read[j - 1] # Outside
        PROVE  Fine(i)
    <3>1. Fine(next)
      BY <1>4, <2>1
    <3>2. \A j \in i..n : j \in i..(next - 1) \/ j \in next..n
      BY <1>2
    <3>3. QED  BY <2>1, <3>1, <3>2
  <2>2. CASE i > n
    <3>1. i = n + 1 /\ i - 1 = n /\ i..n = {}
      BY <1>2, <2>2
    <3>2. QED  BY <3>1
  <2>3. CASE i <= n /\ IsSpace(l[i])
    <3>1. i \in 1..n /\ i + 1 \in (i + 1)..(n + 1) /\ i + 1 - 1 = i
      BY <1>2, <2>3
    <3>2. f[i + 1].ok
      BY <2>0, <2>3, <1>2 DEF TokensFrom
    <3>3. read[i] = Outside
      BY <1>2, <2>3, <3>1, OutsideStep, SpaceIs
    <3>4. \A j \in i..(i + 1 - 1) : l[j] # "#"
      BY <2>3, <3>1, SpaceIs
    <3>5. QED  BY <2>1, <3>1, <3>2, <3>3, <3>4
  <2>4. CASE i <= n /\ ~IsSpace(l[i])
    <3> DEFINE token == TokenAt(l, i)
               next == token.next
    <3>1. i \in 1..n
      BY <1>2, <2>4
    <3>2. token # NoToken /\ f[next].ok
      <4>1. ~(i > n)
        BY <1>2, <2>4
      <4>2. f[i] = IF token = NoToken \/ ~f[token.next].ok THEN Failed
                   ELSE [ok |-> TRUE,
                         tokens |-> <<[kind |-> token.kind, value |-> token.value]>> \o f[token.next].tokens]
        BY <2>0, <2>4, <4>1 DEF TokensFrom
      <4>3. ~Failed.ok
        BY DEF Failed
      <4>4. QED  BY <4>2, <4>3
    <3>3. /\ next \in (i + 1)..(n + 1)
          /\ l[i] = Quote => token = StringAt(l, i)
          /\ l[i] # Quote => \A j \in i..(next - 1) : l[j] \in PlainChars
      BY <3>1, <3>2, TokenIs
    <3>4. CASE l[i] # Quote
      <4> DEFINE U == {k \in 0..(next - i) : read[i - 1 + k] = Outside}
      <4>1. 0 \in U
        BY <3>1, <3>3
      <4>2. ASSUME NEW k \in 1..(next - i), k - 1 \in U PROVE k \in U
        <5>1. i - 1 + k \in 1..n /\ i - 1 + k \in i..(next - 1) /\ i - 1 + k - 1 = i - 1 + (k - 1)
          BY <1>2, <3>1, <3>3
        <5>2. read[i - 1 + k - 1] = Outside /\ l[i - 1 + k] # Quote
          BY <3>3, <3>4, <4>2, <5>1, PlainIs
        <5>3. read[i - 1 + k] = Outside
          <6> DEFINE x == i - 1 + k
          <6>1. x \in 1..n /\ read[x - 1] = Outside /\ l[x] # Quote
            BY <5>1, <5>2
          <6> HIDE DEF x
          <6>2. read[x] = ReadStep(read[x - 1], l[x], CharAt(l, x + 1))
            BY <1>2, <6>1
          <6>3. read[x] = Outside
            BY <6>1, <6>2, OutsideStep
          <6>4. QED  BY <6>3 DEF x
        <5>4. QED  BY <5>3, <3>3
      <4>3. next - i \in Nat /\ next - i \in 0..(next - i) /\ i - 1 + (next - i) = next - 1
        <5>1. next \in (i + 1)..(n + 1)
          BY <3>3
        <5> HIDE DEF next
        <5>2. QED  BY <1>2, <3>1, <5>1
      <4>4. read[next - 1] = Outside
        <5> HIDE DEF next
        <5>1. \A k \in 0..(next - i) : k \in U
          <6> HIDE DEF U
          <6>1. QED  BY <4>1, <4>2, <4>3, Upto
        <5>2. QED  BY <4>3, <5>1
      <4>5. \A j \in i..(next - 1) : l[j] # "#"
        BY <3>3, <3>4, PlainIs
      <4>6. QED  BY <2>1, <3>2, <3>3, <4>4, <4>5
    <3>5. CASE l[i] = Quote
      <4> DEFINE states == Run(ReadStep, Outside, SubSeq(l, i, n))
      <4>1. PICK last \in 2..(n - i + 1) :
               /\ next = i + last
               /\ states[last] = Outside /\ \A j \in 2..(last - 1) : states[j] # Outside
        BY <3>1, <3>2, <3>3, <3>5, StringAtIs
      <4>2. \A j \in 0..(n - i + 1) : states[j] = read[i - 1 + j]
        BY <3>1, ShiftedRun DEF read
      <4> HIDE DEF states, next
      <4>3. read[next - 1] = Outside
        <5>1. next - 1 = i - 1 + last /\ last \in 0..(n - i + 1)
          BY <1>2, <3>1, <4>1
        <5>2. QED  BY <4>1, <4>2, <5>1
      <4>4. ASSUME NEW j \in i..(next - 1), l[j] = "#" PROVE read[j - 1] # Outside
        <5>1. j # i
          BY <3>5, <4>4, PlainIs
        <5>2. j - i \in 1..(last - 1) /\ j - i \in 0..(n - i + 1) /\ i - 1 + (j - i) = j - 1
          BY <1>2, <3>1, <4>1, <5>1
        <5>3. CASE j - i = 1
          <6>1. read[i] = ReadStep(read[i - 1], l[i], CharAt(l, i + 1)) /\ j - 1 = i
            BY <1>2, <3>1, <5>3
          <6>2. read[i] = Text
            BY <3>5, <6>1, OutsideStep
          <6>3. QED  BY <6>1, <6>2 DEF Text, Outside, Reading
        <5>4. CASE j - i \in 2..(last - 1)
          BY <4>1, <4>2, <5>2, <5>4
        <5>5. QED  BY <4>1, <5>2, <5>3, <5>4
      <4>5. QED  BY <2>1, <3>2, <3>3, <4>3, <4>4
    <3>6. QED  BY <3>4, <3>5
  <2>5. i > n \/ i <= n
    BY <1>2
  <2>6. QED  BY <2>2, <2>3, <2>4, <2>5
<1>5. ASSUME NEW d \in 1..(n + 1), d - 1 \in T PROVE d \in T
  <2> HIDE DEF Claim
  <2>1. n + 2 - d \in 1..(n + 1) /\ n + 2 - (d - 1) = (n + 2 - d) + 1
    BY <1>2
  <2>2. \A k \in (n + 2 - d + 1)..(n + 1) : Claim(k)
    BY <1>5, <2>1
  <2>3. Claim(n + 2 - d)
    BY <1>4, <2>1, <2>2
  <2>4. ASSUME NEW i \in (n + 2 - d)..(n + 1) PROVE Claim(i)
    <3>1. i = n + 2 - d \/ i \in (n + 2 - d + 1)..(n + 1)
      BY <1>2, <2>1
    <3>2. QED  BY <2>2, <2>3, <3>1
  <2>5. QED  BY <2>4, <1>2
<1>6. Claim(1)
  <2> HIDE DEF Claim
  <2>1. n + 1 \in Nat /\ n + 1 \in 0..(n + 1) /\ n + 2 - (n + 1) = 1 /\ 1 \in 1..(n + 1)
    BY <1>2
  <2>2. n + 1 \in T
    <3> HIDE DEF T
    <3>1. \A d \in 0..(n + 1) : d \in T
      BY <1>3, <1>5, <2>1, Upto
    <3>2. QED  BY <2>1, <3>1
  <2>3. QED  BY <2>1, <2>2
<1>7. f[1].ok /\ read[1 - 1] = Outside
  BY <1>1, <1>2
<1>8. QED  BY <1>6, <1>7 DEF read

LEMMA LineIsRead ==
  ASSUME NEW l \in Seq(STRING)
  PROVE  LET states == Run(ReadStep, Outside, l)
             end == Len(l) + 1
             stripped == First(Comments(l) \union {end})
             read == First({i \in 1..Len(l) : l[i] = "#" /\ states[i - 1] = Outside} \union {end})
         IN  stripped # read =>
               /\ ~Lex(l).ok
               /\ \E j \in 1..Len(l) : j < stripped /\ j < read /\ states[j].mode = "quoted"
<1> DEFINE n == Len(l)
           end == n + 1
           strip == Run(StripStep, "code", l)
           states == Run(ReadStep, Outside, l)
           outside == {i \in 1..n : l[i] = "#" /\ states[i - 1] = Outside}
           stripped == First(Comments(l) \union {end})
           read == First(outside \union {end})
<1> SUFFICES ASSUME stripped # read
             PROVE  /\ ~Lex(l).ok
                    /\ \E j \in 1..n : j < stripped /\ j < read /\ states[j].mode = "quoted"
  OBVIOUS
<1>1. n \in Nat /\ end \in Nat /\ Comments(l) \subseteq 1..n /\ outside \subseteq 1..n
  BY DEF Comments
<1>2. /\ stripped \in Comments(l) \union {end} /\ \A j \in Comments(l) \union {end} : stripped <= j
      /\ read \in outside \union {end} /\ \A j \in outside \union {end} : read <= j
  <2>1. Comments(l) \union {end} \subseteq Nat /\ outside \union {end} \subseteq Nat
    BY <1>1
  <2> HIDE DEF outside, end
  <2>2. QED  BY <2>1, FirstIs
<1>2a. \A i \in outside : i \in 1..n /\ l[i] = "#" /\ states[i - 1] = Outside
  OBVIOUS
<1>2b. \A i \in 1..n : l[i] = "#" /\ states[i - 1] = Outside => i \in outside
  OBVIOUS
<1>2c. end = n + 1 /\ stripped # read
  OBVIOUS
<1> HIDE DEF stripped, read, outside, states, strip, end
<1>3. stripped \in 1..(n + 1) /\ read \in 1..(n + 1)
  BY <1>1, <1>2, <1>2c
<1>4. ~Lex(l).ok
  <2> SUFFICES ASSUME Lex(l).ok PROVE FALSE
    OBVIOUS
  <2>1. CASE Comments(l) = {}
    <3>1. StripComment(l) = l /\ stripped = n + 1
      BY <1>2, <1>2c, <2>1 DEF StripComment
    <3>2. \A j \in 1..n : l[j] = "#" => states[j - 1] # Outside
      BY <3>1, AcceptedIsRead DEF Lex, states
    <3>3. outside = {}
      BY <1>2a, <3>2
    <3>4. QED  BY <1>2, <1>2c, <3>1, <3>3
  <2>2. CASE Comments(l) # {}
    <3> DEFINE k == First(Comments(l))
               cut == SubSeq(l, 1, k - 1)
               part == Run(ReadStep, Outside, cut)
    <3>1. k \in Comments(l) /\ \A j \in Comments(l) : k <= j
      <4>1. Comments(l) \subseteq Nat
        BY <1>1
      <4>2. QED  BY <2>2, <4>1, FirstIs
    <3>2. StripComment(l) = cut
      BY <2>2 DEF StripComment
    <3>3. k \in 1..n /\ l[k] = "#"
      BY <3>1 DEF Comments
    <3> HIDE DEF k
    <3>4. stripped = k
      <4>1. stripped <= k /\ stripped # end
        <5>1. stripped <= k
          BY <1>2, <3>1
        <5>2. k < end
          BY <1>1, <1>2c, <3>3
        <5>3. QED  BY <1>1, <1>3, <3>3, <5>1, <5>2
      <4>2. stripped \in Comments(l)
        BY <1>2, <4>1
      <4>3. QED  BY <1>3, <3>1, <3>3, <4>1, <4>2
    <3>5. /\ cut \in Seq(STRING) /\ Len(cut) = k - 1 /\ \A j \in 1..(k - 1) : cut[j] = l[j]
          /\ \A j \in 0..(k - 1) : part[j] = states[j]
      BY <3>3, CutRun DEF states
    <3>6. part[k - 1] = Outside /\ \A j \in 1..(k - 1) : cut[j] = "#" => part[j - 1] # Outside
      <4>1. Tokenize(cut).ok
        BY <3>2 DEF Lex
      <4>2. cut \in Seq(STRING) /\ Len(cut) = k - 1
        BY <3>5
      <4> HIDE DEF cut
      <4>3. QED  BY <4>1, <4>2, AcceptedIsRead
    <3> HIDE DEF part, cut
    <3>7. k \in outside
      <4>1. k - 1 \in 0..(k - 1)
        BY <3>3
      <4>2. QED  BY <1>2b, <3>3, <3>5, <3>6, <4>1
    <3>8. ASSUME NEW j \in outside PROVE j >= k
      <4>1. SUFFICES ASSUME j < k PROVE FALSE
        BY <1>1, <3>3
      <4>2. j \in 1..(k - 1) /\ j - 1 \in 0..(k - 1) /\ l[j] = "#" /\ states[j - 1] = Outside
        BY <1>1, <1>2a, <3>3, <4>1
      <4>3. QED  BY <3>5, <3>6, <4>2
    <3>9. read = k
      BY <1>1, <1>2, <1>2c, <1>3, <3>3, <3>7, <3>8
    <3>10. QED  BY <1>2c, <3>4, <3>9
  <2>3. QED  BY <2>1, <2>2
<1>5. \E j \in 1..n : j < stripped /\ j < read /\ states[j].mode = "quoted"
  <2> SUFFICES ASSUME \A j \in 1..n : j < stripped /\ j < read => states[j].mode # "quoted" PROVE FALSE
    OBVIOUS
  <2> DEFINE k == IF stripped < read THEN stripped ELSE read
  <2>1. k \in 1..n /\ k <= stripped /\ k <= read /\ k \in {stripped, read}
    BY <1>1, <1>2c, <1>3
  <2>2. k \in Comments(l) \/ k \in outside
    BY <1>1, <1>2, <1>2c, <2>1
  <2> HIDE DEF k
  <2>3. l[k] = "#"
    BY <1>2a, <2>2 DEF Comments
  <2>4. k - 1 \in 0..n /\ \A j \in 1..(k - 1) : states[j].mode # "quoted"
    <3>1. k - 1 \in 0..n
      BY <1>1, <2>1
    <3>2. ASSUME NEW j \in 1..(k - 1) PROVE states[j].mode # "quoted"
      <4>1. j \in 1..n /\ j < stripped /\ j < read
        BY <1>1, <1>3, <2>1, <3>2
      <4>2. QED  BY <4>1
    <3>3. QED  BY <3>1, <3>2
  <2>5. Agree(states[k - 1], strip[k - 1], CharAt(l, k - 1 + 1))
    BY <2>4, ScannersAgree DEF states, strip
  <2>6. strip[k - 1] = "code" <=> states[k - 1] = Outside
    BY <2>5 DEF Agree, Outside, Reading
  <2>7. k \in Comments(l) /\ k \in outside
    BY <1>2a, <1>2b, <2>1, <2>2, <2>3, <2>6 DEF Comments, strip
  <2>8. stripped <= k /\ read <= k
    BY <1>2, <2>7
  <2>9. QED  BY <1>2c, <1>3, <2>1, <2>8
<1>6. QED  BY <1>4, <1>5

(***************************************************************************)
(* The nesting of blocks.                                                   *)
(***************************************************************************)
\* The indentations of open blocks, outermost first.
Stacks == {s \in Seq(Nat) : /\ Len(s) > 0 /\ s[1] = 0
                            /\ \A i, j \in 1..Len(s) : i < j => s[i] < s[j]}

\* The blocks of a stack that are indented no more than a line.
Kept(s, indent) == Max({k \in 1..Len(s) : s[k] <= indent})

LEMMA StackIs ==
  ASSUME NEW s \in Stacks
  PROVE  /\ s \in Seq(Nat) /\ Len(s) \in Nat /\ 1 \in 1..Len(s) /\ Len(s) \in 1..Len(s)
         /\ s[1] = 0 /\ \A i, j \in 1..Len(s) : i < j => s[i] < s[j]
         /\ \A i \in 1..Len(s) : s[i] \in Nat /\ s[i] <= s[Len(s)]
<1>1. /\ s \in Seq(Nat) /\ Len(s) \in Nat /\ Len(s) > 0
      /\ s[1] = 0 /\ \A i, j \in 1..Len(s) : i < j => s[i] < s[j]
  BY DEF Stacks
<1>2. ASSUME NEW i \in 1..Len(s) PROVE s[i] \in Nat /\ s[i] <= s[Len(s)]
  <2>1. i = Len(s) \/ s[i] < s[Len(s)]
    BY <1>1
  <2>2. s[i] \in Nat /\ s[Len(s)] \in Nat
    BY <1>1
  <2>3. QED  BY <2>1, <2>2
<1>3. QED  BY <1>1, <1>2

LEMMA KeptIs ==
  ASSUME NEW s \in Stacks, NEW indent \in Nat
  PROVE  /\ Kept(s, indent) \in 1..Len(s)
         /\ s[Kept(s, indent)] <= indent
         /\ \A k \in 1..Len(s) : s[k] <= indent <=> k <= Kept(s, indent)
         /\ Closed(s, indent) = SubSeq(s, 1, Kept(s, indent))
<1> DEFINE K == {k \in 1..Len(s) : s[k] <= indent}
<1>1. s \in Seq(Nat) /\ Len(s) \in Nat /\ 1 \in 1..Len(s) /\ s[1] = 0
  BY DEF Stacks
<1>2. 1 \in K /\ K \subseteq 1..Len(s)
  BY <1>1
<1>3. {1} \union K = K
  BY <1>2
<1>4. Max(K) \in K /\ \A k \in K : k <= Max(K)
  BY <1>1, <1>2, GreatestNumber
<1> DEFINE m == Max(K)
<1> HIDE DEF m
<1>5. ASSUME NEW k \in 1..Len(s), k <= m PROVE s[k] <= indent
  <2>1. k = m \/ s[k] < s[m]
    BY <1>4, <1>5 DEF m, Stacks
  <2>2. s[k] \in Nat /\ s[m] \in Nat /\ s[m] <= indent
    BY <1>1, <1>4 DEF m
  <2>3. QED  BY <2>1, <2>2
<1>6. Closed(s, indent) = SubSeq(s, 1, m)
  BY <1>3 DEF Closed, m
<1>7. QED  BY <1>4, <1>5, <1>6 DEF Kept, m

LEMMA KeptStack ==
  ASSUME NEW s \in Stacks, NEW m \in 1..Len(s)
  PROVE  SubSeq(s, 1, m) \in Stacks /\ Len(SubSeq(s, 1, m)) = m /\ Last(SubSeq(s, 1, m)) = s[m]
<1>1. /\ s \in Seq(Nat) /\ Len(s) \in Nat /\ m \in 1..Len(s) /\ s[1] = 0
      /\ \A i, j \in 1..Len(s) : i < j => s[i] < s[j]
  BY StackIs
<1> DEFINE t == SubSeq(s, 1, m)
<1>2. t \in Seq(Nat) /\ Len(t) = m /\ \A i \in 1..m : t[i] = s[i]
  BY <1>1
<1> HIDE DEF t
<1>3. /\ Len(t) > 0 /\ t[1] = 0
      /\ \A i, j \in 1..Len(t) : i < j => t[i] < t[j]
  <2>1. 1 \in 1..m /\ Len(t) > 0
    BY <1>1, <1>2
  <2>2. ASSUME NEW i \in 1..Len(t), NEW j \in 1..Len(t), i < j PROVE t[i] < t[j]
    <3>1. i \in 1..Len(s) /\ j \in 1..Len(s) /\ t[i] = s[i] /\ t[j] = s[j]
      BY <1>1, <1>2
    <3>2. QED  BY <1>1, <2>2, <3>1
  <2>3. QED  BY <1>1, <1>2, <2>1, <2>2
<1>4. Last(t) = s[m]
  BY <1>1, <1>2 DEF Last
<1>5. t \in Stacks
  BY <1>2, <1>3 DEF Stacks
<1>6. QED  BY <1>2, <1>4, <1>5 DEF t

LEMMA DeeperStack ==
  ASSUME NEW s \in Stacks, NEW indent \in Nat, s[Len(s)] < indent
  PROVE  Append(s, indent) \in Stacks
<1>1. /\ s \in Seq(Nat) /\ Len(s) \in Nat /\ 1 \in 1..Len(s) /\ s[1] = 0
      /\ \A i, j \in 1..Len(s) : i < j => s[i] < s[j]
      /\ \A i \in 1..Len(s) : s[i] \in Nat /\ s[i] <= s[Len(s)]
      /\ s[Len(s)] \in Nat
  BY StackIs
<1> DEFINE t == Append(s, indent)
<1>2. /\ t \in Seq(Nat) /\ Len(t) = Len(s) + 1
      /\ \A i \in 1..Len(s) : t[i] = s[i]
      /\ t[Len(s) + 1] = indent
  BY <1>1
<1> HIDE DEF t
<1>3. ASSUME NEW i \in 1..Len(t), NEW j \in 1..Len(t), i < j
      PROVE  t[i] < t[j]
  <2>1. i \in 1..Len(s) /\ t[i] = s[i] /\ s[i] \in Nat /\ s[i] <= s[Len(s)]
    BY <1>1, <1>2, <1>3
  <2>2. CASE j = Len(s) + 1
    BY <1>1, <1>2, <2>1, <2>2
  <2>3. CASE j \in 1..Len(s)
    BY <1>1, <1>2, <1>3, <2>1, <2>3
  <2>4. QED  BY <1>1, <1>2, <2>2, <2>3
<1>4. Len(t) > 0 /\ t[1] = 0
  BY <1>1, <1>2
<1>5. t \in Stacks
  BY <1>2, <1>3, <1>4 DEF Stacks
<1>6. QED  BY <1>5 DEF t

\* The blocks the parser is in after line i.
Parsing == [ok : BOOLEAN, blocks : Stacks]
BlockStep(i, before, indent) ==
  LET open == before.blocks
      kept == SubSeq(open, 1, Kept(open, indent))
  IN  IF indent = Last(kept) THEN [ok |-> before.ok, blocks |-> kept]
      ELSE [ok |-> before.ok /\ i > 1 /\ kept = open, blocks |-> Append(kept, indent)]

LEMMA ParsingStays ==
  ASSUME NEW i, NEW before \in Parsing, NEW indent \in Nat
  PROVE  BlockStep(i, before, indent) \in Parsing
<1> DEFINE open == before.blocks
           m == Kept(open, indent)
           kept == SubSeq(open, 1, m)
<1>1. open \in Stacks /\ before.ok \in BOOLEAN
  BY DEF Parsing
<1>2. m \in 1..Len(open) /\ open[m] <= indent
  BY <1>1, KeptIs
<1>3. kept \in Stacks /\ Len(kept) = m /\ Last(kept) = open[m]
  BY <1>1, <1>2, KeptStack
<1>4. kept[Len(kept)] = Last(kept) /\ open[m] \in Nat
  BY <1>1, <1>2, StackIs DEF Last
<1> HIDE DEF kept, m, open
<1>5. indent # Last(kept) => Append(kept, indent) \in Stacks
  BY <1>2, <1>3, <1>4, DeeperStack
<1>6. BlockStep(i, before, indent) = IF indent = Last(kept) THEN [ok |-> before.ok, blocks |-> kept]
        ELSE [ok |-> before.ok /\ i > 1 /\ kept = open, blocks |-> Append(kept, indent)]
  BY DEF BlockStep, kept, m, open
<1>7. QED  BY <1>1, <1>3, <1>5, <1>6 DEF Parsing

LEMMA OkBefore ==
  ASSUME NEW i, NEW before \in Parsing, NEW indent \in Nat, BlockStep(i, before, indent).ok
  PROVE  /\ before.ok
         /\ LET open == before.blocks
                kept == SubSeq(open, 1, Kept(open, indent))
            IN  indent # Last(kept) => i > 1 /\ kept = open
<1> DEFINE open == before.blocks
           kept == SubSeq(open, 1, Kept(open, indent))
           ok == before.ok
           same == before.ok /\ i > 1 /\ kept = open
           deeper == Append(kept, indent)
<1>1. BlockStep(i, before, indent) = IF indent = Last(kept) THEN [ok |-> ok, blocks |-> kept]
                                     ELSE [ok |-> same, blocks |-> deeper]
  BY DEF BlockStep
<1>2. same \in BOOLEAN /\ ok \in BOOLEAN
  BY DEF Parsing
<1> HIDE DEF kept, same, deeper, ok
<1>2a. CASE indent = Last(kept)
  <2>1. BlockStep(i, before, indent) = [ok |-> ok, blocks |-> kept]
    BY <1>1, <1>2a
  <2>2. ok = BlockStep(i, before, indent).ok
    BY <2>1
  <2>3. ok
    BY <2>2
  <2>4. QED  BY <1>2a, <2>3, Zenon DEF kept, ok
<1>2b. CASE indent # Last(kept)
  <2>1. BlockStep(i, before, indent) = [ok |-> same, blocks |-> deeper]
    BY <1>1, <1>2b
  <2>2. same = BlockStep(i, before, indent).ok
    BY <2>1
  <2>3. same
    BY <2>2
  <2>4. QED  BY <2>3, Zenon DEF same, kept, ok
<1>3. QED  BY <1>2a, <1>2b

LEMMA BlocksRun ==
  ASSUME NEW l \in Seq(Nat)
  PROVE  /\ Blocks(l) \in [0..Len(l) -> Parsing]
         /\ Blocks(l)[0] = [ok |-> TRUE, blocks |-> <<0>>]
         /\ \A i \in 1..Len(l) : Blocks(l)[i] = BlockStep(i, Blocks(l)[i - 1], l[i])
<1> DEFINE n == Len(l)
           start == [ok |-> TRUE, blocks |-> <<0>>]
           step == [i \in 1..n |-> [s \in Parsing |-> BlockStep(i, s, l[i])]]
<1>1. n \in Nat /\ start \in Parsing /\ \A i \in 1..n : l[i] \in Nat
  BY DEF Parsing, Stacks
<1>2. step \in [1..n -> [Parsing -> Parsing]]
  BY <1>1, ParsingStays
<1>3. \A i \in 1..n, s \in Parsing : step[i][s] = BlockStep(i, s, l[i])
  OBVIOUS
<1> HIDE DEF step, n, start
<1>4. \E f : IsRun(f, n, Parsing, start, step)
  BY <1>1, <1>2, Recursion, Zenon
<1>5. PICK f \in [0..n -> Parsing] : f[0] = start /\ \A i \in 1..n : f[i] = step[i][f[i - 1]]
  BY <1>4 DEF IsRun
<1>6. \A i \in 1..n : f[i] = BlockStep(i, f[i - 1], l[i])
  <2> TAKE i \in 1..n
  <2>1. f[i - 1] \in Parsing
    BY <1>1, <1>5
  <2>2. QED  BY <1>3, <1>5, <2>1
<1> DEFINE is(g) == g = [i \in 0..n |-> IF i = 0 THEN start ELSE BlockStep(i, g[i - 1], l[i])]
<1>7. is(f)
  <2>1. \A i \in 0..n : i = 0 \/ i \in 1..n
    BY <1>1
  <2>2. QED  BY <1>5, <1>6, <2>1
<1>8. Blocks(l) = CHOOSE g : is(g)
  BY DEF Blocks, BlockStep, Kept, n, start
<1> HIDE DEF is
<1>9. is(Blocks(l))
  BY <1>7, <1>8
<1> DEFINE after == Blocks(l)
<1>10. /\ DOMAIN after = 0..n /\ after[0] = start
       /\ \A i \in 1..n : after[i] = BlockStep(i, after[i - 1], l[i])
  BY <1>1, <1>9 DEF is
<1> DEFINE T == {k \in 0..n : after[k] \in Parsing}
<1>11. after = [i \in 0..n |-> after[i]]
  BY <1>9 DEF is
<1> HIDE DEF after
<1>12. 0 \in T /\ \A i \in 1..n : i - 1 \in T => i \in T
  BY <1>1, <1>10, ParsingStays
<1>13. \A k \in 0..n : after[k] \in Parsing
  BY <1>1, <1>12, Upto
<1>14. QED  BY <1>10, <1>11, <1>13 DEF after, n, start

\* The formatter's stack after line i.
LevelStep(before, indent) == Opened(Closed(before, indent), indent)

LEMMA LevelStepIs ==
  ASSUME NEW s \in Stacks, NEW indent \in Nat
  PROVE  LET m == Kept(s, indent)
         IN  /\ LevelStep(s, indent) = IF indent > s[m] THEN Append(SubSeq(s, 1, m), indent)
                                                      ELSE SubSeq(s, 1, m)
             /\ LevelStep(s, indent) \in Stacks
<1> DEFINE m == Kept(s, indent)
           kept == SubSeq(s, 1, m)
<1>1. m \in 1..Len(s) /\ s[m] <= indent /\ Closed(s, indent) = kept
  BY KeptIs
<1>2. kept \in Stacks /\ Len(kept) = m /\ Last(kept) = s[m]
  BY <1>1, KeptStack
<1>3. kept[Len(kept)] = s[m] /\ s[m] \in Nat
  BY <1>1, <1>2, StackIs DEF Last
<1> HIDE DEF kept
<1>4. LevelStep(s, indent) = IF indent > s[m] THEN Append(kept, indent) ELSE kept
  BY <1>1, <1>2 DEF LevelStep, Opened
<1> HIDE DEF m
<1>5. indent > s[m] => Append(kept, indent) \in Stacks
  BY <1>2, <1>3, DeeperStack
<1>6. QED  BY <1>2, <1>4, <1>5 DEF kept, m

LEMMA LevelsRun ==
  ASSUME NEW l \in Seq(Nat)
  PROVE  \E after : /\ after \in [0..Len(l) -> Stacks] /\ after[0] = <<0>>
                    /\ \A i \in 1..Len(l) : after[i] = LevelStep(after[i - 1], l[i])
                    /\ Levels(l) = [i \in 1..Len(l) |-> Len(after[i]) - 1]
<1> DEFINE n == Len(l)
           start == <<0>>
           step == [i \in 1..n |-> [s \in Stacks |-> LevelStep(s, l[i])]]
<1>1. n \in Nat /\ start \in Stacks /\ \A i \in 1..n : l[i] \in Nat
  BY DEF Stacks, start
<1>2. step \in [1..n -> [Stacks -> Stacks]]
  BY <1>1, LevelStepIs
<1>3. \A i \in 1..n, s \in Stacks : step[i][s] = LevelStep(s, l[i])
  OBVIOUS
<1> HIDE DEF step, n, start
<1>4. \E f : IsRun(f, n, Stacks, start, step)
  BY <1>1, <1>2, Recursion, Zenon
<1>5. PICK f \in [0..n -> Stacks] : f[0] = start /\ \A i \in 1..n : f[i] = step[i][f[i - 1]]
  BY <1>4 DEF IsRun
<1>6. \A i \in 1..n : f[i] = LevelStep(f[i - 1], l[i])
  <2> TAKE i \in 1..n
  <2>1. f[i - 1] \in Stacks
    BY <1>1, <1>5
  <2>2. QED  BY <1>3, <1>5, <2>1
<1> DEFINE is(g) == g = [i \in 0..n |-> IF i = 0 THEN start ELSE LevelStep(g[i - 1], l[i])]
           after == CHOOSE g : is(g)
<1>7. is(f)
  <2>1. \A i \in 0..n : i = 0 \/ i \in 1..n
    BY <1>1
  <2>2. QED  BY <1>5, <1>6, <2>1
<1>8. Levels(l) = [i \in 1..n |-> Len(after[i]) - 1]
  BY DEF Levels, LevelStep, n, start
<1> HIDE DEF is
<1>9. is(after)
  BY <1>7
<1> HIDE DEF after
<1>10. /\ DOMAIN after = 0..n /\ after[0] = start
       /\ \A i \in 1..n : after[i] = LevelStep(after[i - 1], l[i])
  BY <1>1, <1>9 DEF is
<1>10a. after = [i \in 0..n |-> after[i]]
  BY <1>9 DEF is
<1>10b. \A s \in Stacks, indent \in Nat : LevelStep(s, indent) \in Stacks
  BY LevelStepIs
<1> DEFINE T == {k \in 0..n : after[k] \in Stacks}
<1>11. 0 \in T /\ \A i \in 1..n : i - 1 \in T => i \in T
  <2>1. 0 \in T
    BY <1>1, <1>10
  <2>2. ASSUME NEW i \in 1..n, i - 1 \in T PROVE i \in T
    <3>1. after[i - 1] \in Stacks /\ l[i] \in Nat /\ after[i] = LevelStep(after[i - 1], l[i])
      BY <1>1, <1>10, <2>2
    <3>2. after[i] \in Stacks
      BY <1>10b, <3>1
    <3>3. QED  BY <3>2
  <2>3. QED  BY <2>1, <2>2
<1>12. \A k \in 0..n : after[k] \in Stacks
  BY <1>1, <1>11, Upto
<1>13. after \in [0..n -> Stacks]
  BY <1>10a, <1>12
<1>14. QED  BY <1>8, <1>10, <1>13 DEF n, start

\* While the parser accepts the lines, the formatter's stack is its blocks.
LEMMA StacksAreBlocks ==
  ASSUME NEW l \in Seq(Nat), Blocks(l)[Len(l)].ok,
         NEW after \in [0..Len(l) -> Stacks], after[0] = << 0 >>,
         \A i \in 1..Len(l) : after[i] = LevelStep(after[i - 1], l[i])
  PROVE  \A i \in 0..Len(l) : Blocks(l)[i].ok /\ after[i] = Blocks(l)[i].blocks
<1> DEFINE n == Len(l)
           b == Blocks(l)
<1>1. /\ n \in Nat /\ b \in [0..n -> Parsing] /\ b[0] = [ok |-> TRUE, blocks |-> <<0>>]
      /\ \A i \in 1..n : l[i] \in Nat /\ b[i] = BlockStep(i, b[i - 1], l[i])
  BY BlocksRun
<1>2. b[n].ok
  OBVIOUS
<1> HIDE DEF b, n
\* From the last line back.
<1>3. \A i \in 0..n : b[i].ok
  <2> DEFINE T == {k \in 0..n : b[n - k].ok}
  <2>1. 0 \in T
    BY <1>1, <1>2
  <2>2. ASSUME NEW k \in 1..n, k - 1 \in T PROVE k \in T
    <3>1. n - k + 1 \in 1..n /\ n - (k - 1) = n - k + 1 /\ n - k + 1 - 1 = n - k /\ k \in 0..n
      BY <1>1
    <3>2. b[n - k + 1].ok /\ b[n - k + 1] = BlockStep(n - k + 1, b[n - k], l[n - k + 1])
      BY <1>1, <2>2, <3>1
    <3>3. b[n - k].ok
      <4>1. b[n - k] \in Parsing /\ l[n - k + 1] \in Nat
        BY <1>1, <3>1
      <4>2. BlockStep(n - k + 1, b[n - k], l[n - k + 1]).ok
        BY <3>2, Zenon
      <4>3. QED  BY <4>1, <4>2, OkBefore, Zenon
    <3>4. QED  BY <3>1, <3>3
  <2>3. \A k \in 0..n : k \in T
    BY <1>1, <2>1, <2>2, Upto
  <2>4. ASSUME NEW i \in 0..n PROVE b[i].ok
    <3>1. n - i \in 0..n /\ n - (n - i) = i
      BY <1>1
    <3>2. QED  BY <2>3, <3>1
  <2>5. QED  BY <2>4
<1> DEFINE S == {k \in 0..n : after[k] = b[k].blocks}
<1>4. 0 \in S
  <2>1. b[0].blocks = <<0>>
    <3>1. ASSUME NEW s, b[0] = [ok |-> TRUE, blocks |-> s] PROVE b[0].blocks = s
      BY <3>1
    <3>2. QED  BY <1>1, <3>1, Zenon
  <2>2. 0 \in 0..n
    BY <1>1
  <2>3. QED  BY <2>1, <2>2
<1>5. ASSUME NEW i \in 1..n, i - 1 \in S PROVE i \in S
  <2> DEFINE s == after[i - 1]
             m == Kept(s, l[i])
             kept == SubSeq(s, 1, m)
  <2>1. i - 1 \in 0..n /\ i \in 0..n /\ l[i] \in Nat /\ b[i - 1].blocks = s
    BY <1>1, <1>5
  <2>2. s \in Stacks
    BY <2>1 DEF n
  <2>3. m \in 1..Len(s) /\ s[m] <= l[i] /\ s[m] \in Nat
    BY <2>1, <2>2, KeptIs, StackIs
  <2>4. Last(kept) = s[m]
    BY <2>2, <2>3, KeptStack
  <2>5. after[i] = IF l[i] > s[m] THEN Append(kept, l[i]) ELSE kept
    BY <2>1, <2>2, LevelStepIs DEF n
  <2> HIDE DEF m, s
  <2>6. b[i].blocks = IF l[i] = s[m] THEN kept ELSE Append(kept, l[i])
    <3>1. b[i] = BlockStep(i, b[i - 1], l[i])
      BY <1>1
    <3>2. QED  BY <2>1, <2>4, <3>1 DEF BlockStep, m, s
  <2>7. QED  BY <2>1, <2>3, <2>5, <2>6
<1>6. \A i \in 0..n : i \in S
  BY <1>1, <1>4, <1>5, Upto
<1>7. QED  BY <1>3, <1>6 DEF b, n

\* The blocks of the lines that are indented by their levels.
Evenly(m) == [k \in 1..m |-> 4 * (k - 1)]

LEMMA EvenStack ==
  ASSUME NEW m \in Nat \ {0}
  PROVE  /\ Evenly(m) \in Stacks /\ Len(Evenly(m)) = m /\ Evenly(1) = <<0>>
         /\ Append(Evenly(m), 4 * m) = Evenly(m + 1)
         /\ \A k \in 1..m : /\ Kept(Evenly(m), 4 * (k - 1)) = k
                           /\ SubSeq(Evenly(m), 1, k) = Evenly(k)
                           /\ Last(Evenly(k)) = 4 * (k - 1)
         /\ Kept(Evenly(m), 4 * m) = m
<1>1. /\ Evenly(m) \in Seq(Nat) /\ Len(Evenly(m)) = m
      /\ \A k \in 1..m : Evenly(m)[k] = 4 * (k - 1)
  BY DEF Evenly
<1>2. Evenly(m) \in Stacks
  <2> DEFINE s == Evenly(m)
  <2> HIDE DEF s
  <2>1. s \in Seq(Nat) /\ Len(s) = m /\ \A k \in 1..m : s[k] = 4 * (k - 1)
    BY <1>1 DEF s
  <2>2. Len(s) > 0 /\ s[1] = 0
    BY <2>1
  <2>3. \A i, j \in 1..Len(s) : i < j => s[i] < s[j]
    BY <2>1
  <2>4. QED  BY <2>1, <2>2, <2>3 DEF Stacks, s
<1>3. Evenly(1) = <<0>>
  BY DEF Evenly
<1>4. Append(Evenly(m), 4 * m) = Evenly(m + 1)
  BY DEF Evenly
<1>5. ASSUME NEW k \in 1..m
      PROVE  /\ Kept(Evenly(m), 4 * (k - 1)) = k
             /\ SubSeq(Evenly(m), 1, k) = Evenly(k)
             /\ Last(Evenly(k)) = 4 * (k - 1)
  <2>1. SubSeq(Evenly(m), 1, k) = Evenly(k)
    BY DEF Evenly
  <2>2. Last(Evenly(k)) = 4 * (k - 1)
    BY DEF Evenly, Last
  <2>3. Kept(Evenly(m), 4 * (k - 1)) = k
    <3>1. 4 * (k - 1) \in Nat
      OBVIOUS
    <3>2. PICK j \in 1..m : j = Kept(Evenly(m), 4 * (k - 1))
      BY <1>1, <1>2, <3>1, KeptIs
    <3>3. \A i \in 1..m : Evenly(m)[i] <= 4 * (k - 1) <=> i <= j
      BY <1>1, <1>2, <3>1, <3>2, KeptIs
    <3>4. \A i \in 1..m : 4 * (i - 1) <= 4 * (k - 1) <=> i <= j
      BY <1>1, <3>3
    <3>5. j = k
      BY <3>4
    <3>6. QED  BY <3>2, <3>5
  <2>4. QED  BY <2>1, <2>2, <2>3
<1>6. Kept(Evenly(m), 4 * m) = m
  <2>1. 4 * m \in Nat /\ m \in 1..m
    OBVIOUS
  <2>2. PICK j \in 1..m : j = Kept(Evenly(m), 4 * m)
    BY <1>1, <1>2, <2>1, KeptIs
  <2>3. \A i \in 1..m : Evenly(m)[i] <= 4 * m <=> i <= j
    BY <1>1, <1>2, <2>1, <2>2, KeptIs
  <2>4. 4 * (m - 1) <= 4 * m <=> m <= j
    BY <1>1, <2>1, <2>3
  <2>5. QED  BY <2>2, <2>4
<1>7. QED  BY <1>1, <1>2, <1>3, <1>4, <1>5, <1>6

Parsed(blocks) == [ok |-> TRUE, blocks |-> blocks]

LEMMA StepFrom ==
  ASSUME NEW i, NEW s, NEW indent
  PROVE  /\ indent = Last(SubSeq(s, 1, Kept(s, indent))) =>
              BlockStep(i, Parsed(s), indent) = Parsed(SubSeq(s, 1, Kept(s, indent)))
         /\ indent # Last(s) /\ i > 1 /\ SubSeq(s, 1, Kept(s, indent)) = s =>
              BlockStep(i, Parsed(s), indent) = Parsed(Append(s, indent))
<1> DEFINE before == Parsed(s)
           kept == SubSeq(s, 1, Kept(s, indent))
           more == i > 1 /\ kept = s
           deeper == Append(kept, indent)
<1>1. before.ok = TRUE /\ before.blocks = s
  BY DEF Parsed
<1> HIDE DEF before
<1>2. BlockStep(i, before, indent) = IF indent = Last(kept) THEN [ok |-> TRUE, blocks |-> kept]
                                     ELSE [ok |-> TRUE /\ more, blocks |-> deeper]
  BY <1>1, Zenon DEF BlockStep
<1> HIDE DEF deeper, kept
<1>3. indent # Last(kept) /\ more => BlockStep(i, before, indent) = [ok |-> TRUE, blocks |-> deeper]
  <2>1. more => (TRUE /\ more) = TRUE
    OBVIOUS
  <2>2. QED  BY <1>2, <2>1, Zenon
<1>4. indent = Last(kept) => BlockStep(i, before, indent) = [ok |-> TRUE, blocks |-> kept]
  BY <1>2, Zenon
<1>5. indent # Last(s) /\ i > 1 /\ kept = s => BlockStep(i, before, indent) = Parsed(Append(s, indent))
  BY <1>3, Zenon DEF deeper, Parsed
<1>6. indent = Last(kept) => BlockStep(i, before, indent) = Parsed(kept)
  BY <1>4, Zenon DEF Parsed
<1>7. QED  BY <1>5, <1>6, Zenon DEF before, kept

LEMMA FormattedBlocks ==
  ASSUME NEW l \in Seq(Nat), BlocksParse(l)
  PROVE  /\ Levels(l) = Depths(l)
         /\ BlocksParse(Indented(Levels(l)))
         /\ Depths(Indented(Levels(l))) = Depths(l)
<1> DEFINE n == Len(l)
           b == Blocks(l)
           f == Indented(Levels(l))
           c == Blocks(f)
           depth(j) == Len(b[j].blocks)
<1>1. PICK after \in [0..n -> Stacks] :
        /\ after[0] = <<0>> /\ \A i \in 1..n : after[i] = LevelStep(after[i - 1], l[i])
        /\ Levels(l) = [i \in 1..n |-> Len(after[i]) - 1]
  BY LevelsRun
<1>2. /\ n \in Nat /\ b \in [0..n -> Parsing] /\ b[0] = [ok |-> TRUE, blocks |-> <<0>>]
      /\ \A i \in 1..n : l[i] \in Nat /\ b[i] = BlockStep(i, b[i - 1], l[i])
  BY BlocksRun
<1>3. \A i \in 0..n : b[i].ok /\ after[i] = b[i].blocks
  BY <1>1, StacksAreBlocks DEF BlocksParse
<1>4. ASSUME NEW i \in 0..n
      PROVE  b[i] \in Parsing /\ b[i].blocks \in Stacks /\ depth(i) \in Nat \ {0}
  <2>1. b[i] \in Parsing
    BY <1>2
  <2>2. b[i].blocks \in Stacks
    BY <2>1 DEF Parsing
  <2>3. QED  BY <2>1, <2>2, StackIs
<1>5. Levels(l) = [i \in 1..n |-> depth(i) - 1]
  BY <1>1, <1>2, <1>3
<1>6. Levels(l) = Depths(l)
  BY <1>5 DEF Depths
<1>7. /\ f \in Seq(Nat) /\ Len(f) = n /\ \A i \in 1..n : f[i] = 4 * (depth(i) - 1)
  <2> HIDE DEF n
  <2>1. Len(Levels(l)) = n
    BY <1>2, <1>5
  <2>2. f = [i \in 1..n |-> 4 * (depth(i) - 1)]
    BY <1>5, <2>1 DEF Indented
  <2>3. \A i \in 1..n : 4 * (depth(i) - 1) \in Nat
    BY <1>2, <1>4
  <2>4. QED  BY <1>2, <2>2, <2>3
<1> HIDE DEF n, b, f
<1>8. /\ c \in [0..n -> Parsing] /\ c[0] = [ok |-> TRUE, blocks |-> <<0>>]
      /\ \A i \in 1..n : c[i] = BlockStep(i, c[i - 1], f[i])
  BY <1>7, BlocksRun
<1> HIDE DEF c
<1> DEFINE T == {i \in 0..n : c[i] = Parsed(Evenly(depth(i)))}
<1>9. 0 \in T
  <2>1. b[0].blocks = <<0>>
    <3>1. ASSUME NEW s, b[0] = [ok |-> TRUE, blocks |-> s] PROVE b[0].blocks = s
      BY <3>1
    <3>2. QED  BY <1>2, <3>1, Zenon
  <2>2. depth(0) = 1 /\ 0 \in 0..n
    BY <1>2, <2>1
  <2>3. Evenly(1) = <<0>>
    BY EvenStack
  <2>4. QED  BY <1>8, <2>2, <2>3, Zenon DEF Parsed
<1>10. ASSUME NEW i \in 1..n, i - 1 \in T PROVE i \in T
  <2> DEFINE open == b[i - 1].blocks
             k == Kept(open, l[i])
             kept == SubSeq(open, 1, k)
             m == depth(i - 1)
  <2>1. i - 1 \in 0..n /\ i \in 0..n /\ l[i] \in Nat /\ b[i - 1] \in Parsing
    BY <1>2
  <2>2. open \in Stacks /\ m = Len(open) /\ m \in Nat \ {0}
    BY <1>4, <2>1
  <2>3. k \in 1..m /\ kept \in Stacks /\ Len(kept) = k
    BY <2>1, <2>2, KeptIs, KeptStack
  <2>4. c[i - 1] = Parsed(Evenly(m)) /\ c[i] = BlockStep(i, c[i - 1], f[i])
    BY <1>8, <1>10
  <2>5. BlockStep(i, b[i - 1], l[i]).ok /\ b[i] = BlockStep(i, b[i - 1], l[i])
    BY <1>2, <1>3, <2>1, Zenon
  <2>6. l[i] # Last(kept) => i > 1 /\ kept = open
    <3>1. \A x \in Parsing, y \in Nat : BlockStep(i, x, y).ok /\ y # Last(SubSeq(x.blocks, 1, Kept(x.blocks, y))) =>
            i > 1 /\ SubSeq(x.blocks, 1, Kept(x.blocks, y)) = x.blocks
      BY OkBefore, Zenon
    <3>2. QED  BY <2>1, <2>5, <3>1, Zenon
  <2>7. b[i].blocks = IF l[i] = Last(kept) THEN kept ELSE Append(kept, l[i])
    BY <2>5 DEF BlockStep
  <2> HIDE DEF k, kept, open, m
  <2>8. CASE l[i] = Last(kept)
    <3>1. depth(i) = k /\ f[i] = 4 * (k - 1)
      BY <1>7, <2>3, <2>7, <2>8
    <3>2. /\ Kept(Evenly(m), f[i]) = k /\ SubSeq(Evenly(m), 1, k) = Evenly(k)
          /\ Last(Evenly(k)) = f[i]
      <4>1. \A j \in 1..m : /\ Kept(Evenly(m), 4 * (j - 1)) = j /\ SubSeq(Evenly(m), 1, j) = Evenly(j)
                            /\ Last(Evenly(j)) = 4 * (j - 1)
        BY <2>2, EvenStack
      <4>2. QED  BY <2>3, <3>1, <4>1
    <3>3. BlockStep(i, c[i - 1], f[i]) = Parsed(Evenly(k))
      <4>1. Evenly(k) = SubSeq(Evenly(m), 1, Kept(Evenly(m), f[i]))
        BY <3>2
      <4> DEFINE s == Evenly(m)
                 before == c[i - 1]
                 x == f[i]
                 g == Evenly(k)
      <4>2. before = Parsed(s) /\ g = SubSeq(s, 1, Kept(s, x)) /\ x = Last(g)
        BY <2>4, <3>2, <4>1
      <4> HIDE DEF s, before, x, g
      <4>3. x = Last(SubSeq(s, 1, Kept(s, x))) =>
              BlockStep(i, Parsed(s), x) = Parsed(SubSeq(s, 1, Kept(s, x)))
        BY StepFrom
      <4>4. BlockStep(i, before, x) = Parsed(g)
        BY <4>2, <4>3
      <4>5. QED  BY <4>4 DEF before, x, g
    <3>4. QED  BY <2>1, <2>4, <3>1, <3>3
  <2>9. CASE l[i] # Last(kept)
    <3>1. depth(i) = m + 1 /\ f[i] = 4 * m /\ i > 1
      <4>1. Len(Append(kept, l[i])) = Len(kept) + 1 /\ Len(kept) = m
        BY <2>1, <2>2, <2>3, <2>6, <2>9 DEF Stacks
      <4>2. depth(i) = m + 1
        BY <2>7, <2>9, <4>1
      <4>3. f[i] = 4 * m
        <5>1. f[i] = 4 * (depth(i) - 1)
          BY <1>7
        <5>2. depth(i) - 1 = m
          BY <2>2, <4>2
        <5>3. QED  BY <5>1, <5>2
      <4>4. QED  BY <2>6, <2>9, <4>2, <4>3
    <3>2. /\ Kept(Evenly(m), f[i]) = m /\ SubSeq(Evenly(m), 1, m) = Evenly(m)
          /\ Last(Evenly(m)) # f[i] /\ Append(Evenly(m), f[i]) = Evenly(m + 1)
      <4>1. /\ Kept(Evenly(m), 4 * m) = m /\ Append(Evenly(m), 4 * m) = Evenly(m + 1)
            /\ \A j \in 1..m : SubSeq(Evenly(m), 1, j) = Evenly(j) /\ Last(Evenly(j)) = 4 * (j - 1)
        BY <2>2, EvenStack
      <4>2. m \in 1..m /\ 4 * (m - 1) # 4 * m
        BY <2>2
      <4>3. QED  BY <3>1, <4>1, <4>2
    <3>3. BlockStep(i, c[i - 1], f[i]) = Parsed(Evenly(m + 1))
      <4>1. Evenly(m) = SubSeq(Evenly(m), 1, Kept(Evenly(m), f[i]))
        BY <3>2
      <4> DEFINE s == Evenly(m)
                 before == c[i - 1]
                 x == f[i]
      <4>2. before = Parsed(s) /\ s = SubSeq(s, 1, Kept(s, x)) /\ x # Last(s)
        BY <2>4, <3>2, <4>1
      <4> HIDE DEF s, before, x
      <4>3. BlockStep(i, before, x) = Parsed(Append(s, x))
        BY <3>1, <4>2, StepFrom
      <4>4. QED  BY <3>2, <4>3 DEF before, x, s
    <3>4. QED  BY <2>1, <2>4, <3>1, <3>3
  <2>10. QED  BY <2>8, <2>9
<1>11. \A i \in 0..n : i \in T
  BY <1>2, <1>9, <1>10, Upto
<1>12. ASSUME NEW i \in 0..n PROVE c[i].ok /\ Len(c[i].blocks) = depth(i)
  <2>1. depth(i) \in Nat \ {0}
    BY <1>4
  <2> DEFINE s == Evenly(depth(i))
  <2>2. Len(s) = depth(i)
    BY <2>1, EvenStack
  <2>3. c[i] = Parsed(s)
    BY <1>11
  <2> HIDE DEF s
  <2>4. c[i].ok /\ c[i].blocks = s
    BY <2>3 DEF Parsed
  <2>5. QED  BY <2>2, <2>4
<1>13. BlocksParse(f)
  BY <1>2, <1>7, <1>12 DEF BlocksParse, c
<1>14. Depths(f) = Depths(l)
  <2>1. Depths(f) = [i \in 1..n |-> Len(c[i].blocks) - 1]
    BY <1>7 DEF Depths, c
  <2>2. Depths(l) = [i \in 1..n |-> depth(i) - 1]
    BY DEF Depths, b, n
  <2>3. \A i \in 1..n : Len(c[i].blocks) - 1 = depth(i) - 1
    BY <1>2, <1>12
  <2>4. QED  BY <2>1, <2>2, <2>3
<1>15. QED  BY <1>6, <1>13, <1>14 DEF f

(***************************************************************************)
(* The theorems.                                                            *)
(***************************************************************************)
TypeInv == prefix \in DOMAIN Alphabets /\ line \in Seq(STRING) /\ indents \in Seq(Nat)

LEMMA TypesHold == Spec => []TypeInv
<1>1. Init => TypeInv
  BY FormattingAssumption DEF Init, TypeInv
<1>2. ASSUME TypeInv, [Next]_vars PROVE TypeInv'
  <2>1. ASSUME NEW c \in Alphabets[prefix], Type(c) PROVE TypeInv'
    <3>1. c \in STRING
      BY <1>2, FormattingAssumption DEF TypeInv
    <3>2. line' = Append(line, c) /\ UNCHANGED <<prefix, indents>>
      BY <2>1 DEF Type
    <3>3. line' \in Seq(STRING)
      BY <1>2, <3>1, <3>2, AppendProperties DEF TypeInv
    <3>4. QED  BY <1>2, <3>2, <3>3 DEF TypeInv
  <2>2. ASSUME NEW i \in Indents, AddLine(i) PROVE TypeInv'
    <3>1. i \in Nat
      BY FormattingAssumption
    <3>2. QED  BY <1>2, <2>2, <3>1 DEF TypeInv, AddLine
  <2>3. CASE UNCHANGED vars
    BY <1>2, <2>3 DEF TypeInv, vars
  <2>4. QED  BY <1>2, <2>1, <2>2, <2>3 DEF Next
<1>3. QED  BY <1>1, <1>2, PTL DEF Spec

\* MisreadIsRejected: in a line of any length, whatever is in it, strip_comment
\* and read_string find the comment in one place, or a text is quoted in an
\* interpolation before it and the lexer rejects the line.
THEOREM MisreadLinesAreRejected == Spec => []MisreadIsRejected
<1>1. TypeInv => MisreadIsRejected
  BY LineIsRead DEF TypeInv, MisreadIsRejected
<1>2. QED  BY <1>1, TypesHold, PTL

\* BlocksSurvive: for files of any number of lines and any indentations that
\* parse, the formatter's levels are the parser's blocks, what it writes parses,
\* and as the same blocks.
THEOREM FormattingKeepsBlocks == Spec => []BlocksSurvive
<1>1. TypeInv => BlocksSurvive
  BY FormattedBlocks DEF TypeInv, BlocksSurvive
<1>2. QED  BY <1>1, TypesHold, PTL

===============================================================================
