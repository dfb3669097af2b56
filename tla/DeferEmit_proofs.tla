-------------------------- MODULE DeferEmit_proofs ---------------------------
(* Proofs about the control flow of function bodies: for bodies of any length   *)
(* and depth, and runs of any number of rounds.                                 *)
EXTENDS DeferEmit, SequenceTheorems, WellFoundedInduction, TLAPS

(***************************************************************************)
(* Induction, for sets of numbers.                                          *)
(***************************************************************************)
LEMMA LeastNumber ==
  ASSUME NEW T, T \subseteq Nat, T # {}
  PROVE  \E n \in T : \A k \in T : n <= k
<1> DEFINE R == OpToRel(<, Nat)
<1>1. IsWellFoundedOn(R, Nat)
  BY NatLessThanWellFounded
<1>2. \A i, j \in Nat : i < j => <<i, j>> \in R
  BY DEF OpToRel
<1> HIDE DEF R
<1>3. PICK n \in T : \A k \in T : ~(<<k, n>> \in R)
  BY <1>1, WFMin
<1>4. ASSUME NEW k \in T PROVE n <= k
  <2>1. ~(k < n)
    BY <1>2, <1>3
  <2>2. QED  BY <2>1
<1>5. QED  BY <1>4

LEMMA Upto ==
  ASSUME NEW n \in Nat, NEW T, 0 \in T, \A i \in 1..n : i - 1 \in T => i \in T
  PROVE  \A i \in 0..n : i \in T
<1> DEFINE D == {i \in 0..n : i \notin T}
<1> SUFFICES ASSUME D # {} PROVE FALSE
  OBVIOUS
<1>1. PICK m \in D : \A k \in D : m <= k
  <2>1. D \subseteq Nat /\ D # {}
    OBVIOUS
  <2> HIDE DEF D
  <2>2. QED  BY <2>1, LeastNumber
<1>2. m \in 1..n /\ m - 1 \in 0..n /\ ~(m <= m - 1)
  BY <1>1
<1>3. QED  BY <1>1, <1>2

(***************************************************************************)
(* The ends of sequences.                                                   *)
(***************************************************************************)
LEMMA AppendIs ==
  ASSUME NEW S, NEW s \in Seq(S), NEW e \in S
  PROVE  /\ Append(s, e) \in Seq(S) /\ Len(Append(s, e)) = Len(s) + 1
         /\ Append(s, e)[Len(s) + 1] = e
         /\ \A k \in 1..Len(s) : Append(s, e)[k] = s[k]
         /\ \A k \in 0..Len(s) : SubSeq(Append(s, e), 1, k) = SubSeq(s, 1, k)
         /\ SubSeq(Append(s, e), 1, Len(s)) = s
  OBVIOUS

LEMMA PrefixIs ==
  ASSUME NEW S, NEW s \in Seq(S), NEW m \in 0..Len(s)
  PROVE  /\ SubSeq(s, 1, m) \in Seq(S) /\ Len(SubSeq(s, 1, m)) = m
         /\ \A k \in 1..m : SubSeq(s, 1, m)[k] = s[k]
         /\ \A k \in 0..m : SubSeq(SubSeq(s, 1, m), 1, k) = SubSeq(s, 1, k)
<1> DEFINE p == SubSeq(s, 1, m)
<1>1. p \in Seq(S) /\ Len(p) = m /\ \A k \in 1..m : p[k] = s[k]
  OBVIOUS
<1> HIDE DEF p
<1>2. ASSUME NEW k \in 0..m PROVE SubSeq(p, 1, k) = SubSeq(s, 1, k)
  <2> DEFINE q == SubSeq(p, 1, k)
             r == SubSeq(s, 1, k)
  <2>1. q \in Seq(S) /\ Len(q) = k /\ \A j \in 1..k : q[j] = p[j]
    BY <1>1
  <2>2. r \in Seq(S) /\ Len(r) = k /\ \A j \in 1..k : r[j] = s[j]
    OBVIOUS
  <2> HIDE DEF q, r
  <2>3. \A j \in 1..k : q[j] = r[j]
    BY <1>1, <2>1, <2>2
  <2>4. q = r
    BY <2>1, <2>2, <2>3, SeqEqual
  <2>5. QED  BY <2>4 DEF q, r
<1>3. QED  BY <1>1, <1>2 DEF p

LEMMA FrontIs ==
  ASSUME NEW S, NEW s \in Seq(S), s # <<>>
  PROVE  /\ Len(s) \in Nat \ {0} /\ Last(s) \in S /\ Last(s) = s[Len(s)]
         /\ Front(s) \in Seq(S) /\ Len(Front(s)) = Len(s) - 1
         /\ \A k \in 1..(Len(s) - 1) : Front(s)[k] = s[k]
         /\ \A k \in 0..(Len(s) - 1) : SubSeq(Front(s), 1, k) = SubSeq(s, 1, k)
         /\ Front(s) = SubSeq(s, 1, Len(s) - 1)
         /\ s = Append(Front(s), Last(s))
<1>1. Len(s) \in Nat \ {0}
  OBVIOUS
<1> DEFINE f == SubSeq(s, 1, Len(s) - 1)
<1>2. Len(s) - 1 \in 0..Len(s)
  BY <1>1
<1>3. /\ f \in Seq(S) /\ Len(f) = Len(s) - 1 /\ \A k \in 1..(Len(s) - 1) : f[k] = s[k]
      /\ \A k \in 0..(Len(s) - 1) : SubSeq(f, 1, k) = SubSeq(s, 1, k)
  BY <1>2, PrefixIs
<1>4. s = Append(f, s[Len(s)])
  <2> DEFINE t == Append(f, s[Len(s)])
  <2> HIDE DEF f
  <2>1. t \in Seq(S) /\ Len(t) = Len(s) /\ \A k \in 1..Len(s) : t[k] = s[k]
    BY <1>1, <1>3
  <2> HIDE DEF t
  <2>2. QED  BY <2>1, SeqEqual DEF t
<1> HIDE DEF f
<1>5. Front(s) = f /\ Last(s) = s[Len(s)] /\ s[Len(s)] \in S
  BY <1>1 DEF Front, Last, f
<1>6. QED  BY <1>1, <1>3, <1>4, <1>5 DEF Front

LEMMA Whole ==
  ASSUME NEW S, NEW s \in Seq(S)
  PROVE  SubSeq(s, 1, Len(s)) = s /\ SubSeq(s, 1, Len(s) - (1 - 1)) = s /\ s \o <<>> = s
<1>1. Len(s) \in Nat /\ Len(s) - (1 - 1) = Len(s)
  OBVIOUS
<1>2. SubSeq(s, 1, Len(s)) = s
  OBVIOUS
<1>3. s \o <<>> = s
  BY ConcatEmptySeq
<1>4. QED  BY <1>1, <1>2, <1>3

LEMMA ReverseIs ==
  ASSUME NEW S, NEW s \in Seq(S)
  PROVE  Reverse(s) \in Seq(S)
<1> DEFINE n == Len(s)
           Entry(d) == s[n - d + 1]
<1>1. n \in Nat /\ \A d \in 1..n : n - d + 1 \in 1..n
  OBVIOUS
<1>2. \A d \in 1..n : Entry(d) \in S
  BY <1>1
<1>3. Reverse(s) = [d \in 1..n |-> Entry(d)]
  BY DEF Reverse
<1> HIDE DEF n, Entry
<1>4. QED  BY <1>1, <1>2, <1>3, IsASeq

\* A sequence whose end is known.
EndsWith(s, m, u) == \A d \in 1..m : u[d] = s[Len(s) - m + d]

LEMMA Rejoin ==
  ASSUME NEW S, NEW s \in Seq(S), NEW m \in 0..Len(s), NEW u \in Seq(S), Len(u) = m, EndsWith(s, m, u)
  PROVE  SubSeq(s, 1, Len(s) - m) \in Seq(S) /\ SubSeq(s, 1, Len(s) - m) \o u = s
<1> DEFINE l == Len(s) - m
           t == SubSeq(s, 1, l)
           v == t \o u
<1>1. Len(s) \in Nat /\ l \in 0..Len(s) /\ l + m = Len(s)
  OBVIOUS
<1>2. \A d \in 1..m : u[d] = s[l + d]
  BY DEF EndsWith
<1> HIDE DEF l
<1>3. t \in Seq(S) /\ Len(t) = l /\ \A d \in 1..l : t[d] = s[d]
  BY <1>1, PrefixIs
<1> HIDE DEF t
<1>4. v \in Seq(S) /\ Len(v) = l + m /\ (\A d \in 1..l : v[d] = t[d]) /\ \A d \in 1..m : v[l + d] = u[d]
  <2>1. /\ v \in Seq(S) /\ Len(v) = Len(t) + Len(u)
        /\ \A d \in 1..Len(t) + Len(u) : v[d] = IF d <= Len(t) THEN t[d] ELSE u[d - Len(t)]
    BY <1>3, ConcatProperties
  <2> HIDE DEF v
  <2>2. Len(t) = l /\ Len(u) = m /\ l \in Nat /\ m \in Nat
    BY <1>1, <1>3
  <2>3. ASSUME NEW d \in 1..l PROVE v[d] = t[d]
    <3>1. d \in 1..Len(t) + Len(u) /\ d <= Len(t)
      BY <2>2
    <3>2. QED  BY <2>1, <3>1
  <2>4. ASSUME NEW d \in 1..m PROVE v[l + d] = u[d]
    <3>1. l + d \in 1..Len(t) + Len(u) /\ ~(l + d <= Len(t)) /\ l + d - Len(t) = d
      BY <2>2
    <3>2. PICK e \in 1..Len(t) + Len(u) : e = l + d
      BY <3>1
    <3>3. ~(e <= Len(t)) /\ e - Len(t) = d
      BY <2>2, <3>2
    <3>4. v[e] = IF e <= Len(t) THEN t[e] ELSE u[e - Len(t)]
      BY <2>1
    <3>5. QED  BY <3>2, <3>3, <3>4
  <2>5. QED  BY <2>1, <2>2, <2>3, <2>4
<1> HIDE DEF v
<1>5. ASSUME NEW d \in 1..Len(s) PROVE v[d] = s[d]
  <2>1. CASE d \in 1..l
    BY <2>1, <1>3, <1>4
  <2>2. CASE d \notin 1..l
    <3>1. d - l \in 1..m /\ d = l + (d - l)
      BY <2>2, <1>1
    <3>2. PICK e \in 1..m : d = l + e
      BY <3>1
    <3>3. QED  BY <3>2, <1>2, <1>4
  <2>3. QED  BY <2>1, <2>2
<1>6. v = s
  BY <1>1, <1>4, <1>5, SeqEqual
<1>7. QED  BY <1>3, <1>6 DEF v, t, l

\* A list is put together in two ways.
Joined(s, t, e) == Append(s \o t, e) = s \o Append(t, e)

LEMMA AppendLast ==
  ASSUME NEW S, NEW s \in Seq(S), NEW t \in Seq(S), NEW e \in S
  PROVE  Joined(s, t, e)
<1>1. Append(t, e) = t \o <<e>> /\ Append(s \o t, e) = (s \o t) \o <<e>>
  OBVIOUS
<1>2. <<e>> \in Seq(S)
  OBVIOUS
<1>3. (s \o t) \o <<e>> = s \o (t \o <<e>>)
  BY <1>2, ConcatAssociative
<1>4. QED  BY <1>1, <1>3 DEF Joined

(***************************************************************************)
(* The tree of a body, seen from its statements.                            *)
(***************************************************************************)
Places == 1..(Len(body) + 1)

LEMMA NestIs ==
  ASSUME WellNested(body)
  PROVE  /\ Len(body) \in Nat
         /\ \A i \in 1..Len(body) : Op(i) \in Ops
         /\ \A i \in Places : Within(i) \in Seq(Nat)
         /\ Within(1) = <<>> /\ Within(Len(body) + 1) = <<>>
         /\ \A i \in 1..Len(body) :
              /\ Op(i) \in Opening => Within(i + 1) = Append(Within(i), i)
              /\ Op(i) = "end" => Within(i + 1) = Front(Within(i))
              /\ Op(i) \notin Opening \union {"end"} => Within(i + 1) = Within(i)
              /\ Op(i) \in Closing => Within(i) # <<>>
              /\ Op(i) = "else" => Op(Last(Within(i))) = "if"
         /\ \A i, j \in 1..Len(body) :
              Op(i) = "else" /\ Op(j) = "else" /\ Last(Within(i)) = Last(Within(j)) => i = j
<1>1. body \in Seq([op : Ops, within : Seq(Nat)]) /\ Len(body) \in Nat
  BY DEF WellNested
<1>2. \A i \in 1..Len(body) : body[i].op \in Ops /\ body[i].within \in Seq(Nat)
  <2> DEFINE Statements == [op : Ops, within : Seq(Nat)]
  <2>1. \A s \in Statements : s.op \in Ops /\ s.within \in Seq(Nat)
    OBVIOUS
  <2> HIDE DEF Statements
  <2>2. body \in Seq(Statements)
    BY <1>1 DEF Statements
  <2>3. QED  BY <2>1, <2>2
<1>3. Within(1) = <<>>
  BY DEF WellNested, Within
<1>4. \A i \in 1..Len(body) :
        /\ Within(i + 1) = IF body[i].op \in Opening THEN Append(Within(i), i)
                           ELSE IF body[i].op = "end" THEN Front(Within(i)) ELSE Within(i)
        /\ body[i].op \in Closing => Within(i) # <<>>
        /\ body[i].op = "else" => body[Last(Within(i))].op = "if"
  BY DEF WellNested, Within
<1>5. \A i, j \in 1..Len(body) :
        body[i].op = "else" /\ body[j].op = "else" /\ Last(Within(i)) = Last(Within(j)) => i = j
  BY DEF WellNested, Within
<1>6. \A i \in Places : Within(i) \in Seq(Nat)
  BY <1>1, <1>2 DEF Within, Places
<1>7. Within(Len(body) + 1) = <<>>
  BY <1>1 DEF Within
<1>8. "end" \notin Opening
  BY DEF Opening
<1>9. QED  BY <1>1, <1>2, <1>3, <1>4, <1>5, <1>6, <1>7, <1>8 DEF Op

\* The blocks around a statement: where each is, and what is around it in turn.
Nested(i) ==
  \A k \in 1..Len(Within(i)) :
    /\ Within(i)[k] \in 1..(i - 1) /\ Within(i)[k] <= Len(body)
    /\ Op(Within(i)[k]) \in Opening
    /\ Within(Within(i)[k]) = SubSeq(Within(i), 1, k - 1)

LEMMA Nesting ==
  ASSUME WellNested(body)
  PROVE  \A i \in Places : Nested(i)
<1> DEFINE n == Len(body)
           T == {i \in 0..n : Nested(i + 1)}
<1>1. n \in Nat
  BY NestIs
<1>2. 0 \in T
  BY <1>1, NestIs DEF Nested
<1>3. ASSUME NEW i \in 1..n, i - 1 \in T PROVE i \in T
  <2>1. Nested(i) /\ i \in Places /\ i + 1 \in Places
    BY <1>1, <1>3 DEF Places
  <2> DEFINE w == Within(i)
  <2>2. w \in Seq(Nat)
    BY <2>1, NestIs
  <2>3. CASE Op(i) \in Opening
    <3>1. Within(i + 1) = Append(w, i)
      BY <2>3, NestIs
    <3>2. \A k \in 1..Len(w) : SubSeq(Append(w, i), 1, k - 1) = SubSeq(w, 1, k - 1)
      BY <2>2
    <3>3. SubSeq(Append(w, i), 1, Len(w)) = w
      BY <2>2
    <3> HIDE DEF w
    <3>4. ASSUME NEW k \in 1..(Len(w) + 1)
          PROVE  /\ Append(w, i)[k] \in 1..i /\ Append(w, i)[k] <= Len(body)
                 /\ Op(Append(w, i)[k]) \in Opening
                 /\ Within(Append(w, i)[k]) = SubSeq(Append(w, i), 1, k - 1)
      <4>1. CASE k = Len(w) + 1
        <5>1. Append(w, i)[k] = i /\ k - 1 = Len(w)
          BY <4>1, <2>2
        <5>2. QED  BY <5>1, <3>3, <2>3, <1>3, <1>1 DEF w
      <4>2. CASE k \in 1..Len(w)
        <5>1. Append(w, i)[k] = w[k]
          BY <4>2, <2>2
        <5>2. w[k] \in 1..(i - 1) /\ w[k] <= Len(body) /\ Op(w[k]) \in Opening
              /\ Within(w[k]) = SubSeq(w, 1, k - 1)
          BY <4>2, <2>1 DEF Nested, w
        <5>3. QED  BY <5>1, <5>2, <4>2, <3>2, <1>3
      <4>3. QED  BY <4>1, <4>2, <2>2
    <3>5. Len(Within(i + 1)) = Len(w) + 1 /\ i + 1 - 1 = i
      BY <3>1, <2>2
    <3>6. Nested(i + 1)
      <4>1. SUFFICES ASSUME NEW k \in 1..Len(Within(i + 1))
                     PROVE  /\ Within(i + 1)[k] \in 1..(i + 1 - 1) /\ Within(i + 1)[k] <= Len(body)
                            /\ Op(Within(i + 1)[k]) \in Opening
                            /\ Within(Within(i + 1)[k]) = SubSeq(Within(i + 1), 1, k - 1)
        BY DEF Nested
      <4>2. k \in 1..(Len(w) + 1)
        BY <3>5
      <4>3. QED  BY <4>2, <3>1, <3>4, <3>5
    <3>7. QED  BY <3>6
  <2>4. CASE Op(i) = "end"
    <3>1. Within(i + 1) = Front(w) /\ w # <<>>
      BY <2>4, NestIs DEF Closing
    <3> HIDE DEF w
    <3>2. Len(Front(w)) = Len(w) - 1 /\ Len(w) \in Nat \ {0}
      BY <3>1, <2>2, FrontIs
    <3>3. \A k \in 1..(Len(w) - 1) : Front(w)[k] = w[k] /\ SubSeq(Front(w), 1, k - 1) = SubSeq(w, 1, k - 1)
      <4>1. \A k \in 1..(Len(w) - 1) : k - 1 \in 0..(Len(w) - 1)
        BY <3>2
      <4>2. QED  BY <4>1, <3>1, <3>2, <2>2, FrontIs
    <3>4. \A k \in 1..(Len(w) - 1) : k \in 1..Len(w)
      BY <3>2
    <3>5. \A k \in 1..Len(w) :
            w[k] \in 1..(i - 1) /\ w[k] <= Len(body) /\ Op(w[k]) \in Opening
              /\ Within(w[k]) = SubSeq(w, 1, k - 1)
      BY <2>1 DEF Nested, w
    <3>6. \A k \in 1..(Len(w) - 1) :
            Front(w)[k] \in 1..i /\ Front(w)[k] <= Len(body) /\ Op(Front(w)[k]) \in Opening
              /\ Within(Front(w)[k]) = SubSeq(Front(w), 1, k - 1)
      BY <3>3, <3>4, <3>5
    <3>7. Nested(i + 1)
      BY <3>1, <3>2, <3>6 DEF Nested
    <3>8. QED  BY <3>7
  <2>5. CASE Op(i) \notin Opening \union {"end"}
    <3>1. Within(i + 1) = Within(i)
      BY <2>5, NestIs
    <3>2. \A k : k \in 1..(i - 1) => k \in 1..(i + 1 - 1)
      OBVIOUS
    <3>3. Nested(i + 1)
      BY <3>1, <3>2, <2>1 DEF Nested
    <3>4. QED  BY <3>3
  <2>6. QED  BY <2>3, <2>4, <2>5
<1>4. \A i \in 0..n : i \in T
  <2> HIDE DEF n, T
  <2>1. QED  BY <1>1, <1>2, <1>3, Upto
<1>5. ASSUME NEW i \in Places PROVE Nested(i)
  <2>1. i - 1 \in 0..n /\ i - 1 + 1 = i
    BY <1>1 DEF Places
  <2>2. i - 1 \in T
    BY <2>1, <1>4
  <2>3. QED  BY <2>1, <2>2
<1>6. QED  BY <1>5

LEMMA AroundIs ==
  ASSUME WellNested(body), NEW i \in Places
  PROVE  /\ Around(i) = {Within(i)[k] : k \in 1..Len(Within(i))}
         /\ \A o \in Around(i) : /\ o \in 1..(i - 1) /\ o <= Len(body) /\ Op(o) \in Opening
                               /\ Around(o) \subseteq Around(i)
<1>1. Within(i) \in Seq(Nat) /\ Nested(i) /\ Len(body) \in Nat
  BY NestIs, Nesting
<1>2. Around(i) = {Within(i)[k] : k \in 1..Len(Within(i))}
  BY <1>1, RangeEquality DEF Around
<1>3. ASSUME NEW o \in Around(i)
      PROVE  /\ o \in 1..(i - 1) /\ o <= Len(body) /\ Op(o) \in Opening
             /\ Around(o) \subseteq Around(i)
  <2>1. PICK k \in 1..Len(Within(i)) : o = Within(i)[k]
    BY <1>2
  <2>2. /\ o \in 1..(i - 1) /\ o <= Len(body) /\ Op(o) \in Opening
        /\ Within(o) = SubSeq(Within(i), 1, k - 1)
    BY <1>1, <2>1 DEF Nested
  <2>3. o \in Places
    BY <1>1, <2>2 DEF Places
  <2>4. Within(o) \in Seq(Nat) /\ Around(o) = {Within(o)[j] : j \in 1..Len(Within(o))}
    BY <2>3, NestIs, RangeEquality DEF Around
  <2>5. k - 1 \in 0..Len(Within(i))
    BY <1>1
  <2>6. Len(Within(o)) = k - 1 /\ \A j \in 1..(k - 1) : Within(o)[j] = Within(i)[j]
    BY <1>1, <2>2, <2>5, PrefixIs
  <2>7. \A j \in 1..(k - 1) : j \in 1..Len(Within(i))
    BY <1>1
  <2>8. QED  BY <1>2, <2>2, <2>4, <2>6, <2>7
<1>4. QED  BY <1>2, <1>3

LEMMA AroundNext ==
  ASSUME WellNested(body), NEW i \in 1..Len(body)
  PROVE  /\ Op(i) \in Opening => Around(i + 1) = Around(i) \union {i}
         /\ Op(i) = "end" => /\ Last(Within(i)) \in Around(i)
                            /\ Around(i + 1) = Around(i) \ {Last(Within(i))}
         /\ Op(i) \notin Opening \union {"end"} => Around(i + 1) = Around(i)
<1>1. i \in Places /\ i + 1 \in Places /\ Len(body) \in Nat
  BY NestIs DEF Places
<1> DEFINE w == Within(i)
<1>2. w \in Seq(Nat) /\ Within(i + 1) \in Seq(Nat) /\ Nested(i)
  BY <1>1, NestIs, Nesting
<1>3. /\ Around(i) = {w[k] : k \in 1..Len(w)}
      /\ Around(i + 1) = {Within(i + 1)[k] : k \in 1..Len(Within(i + 1))}
  BY <1>1, <1>2, RangeEquality DEF Around
<1>4. CASE Op(i) \in Opening
  <2>1. Within(i + 1) = Append(w, i) /\ Op(i) # "end"
    BY <1>4, NestIs DEF Opening
  <2> HIDE DEF w
  <2>2. Len(Within(i + 1)) = Len(w) + 1 /\ Within(i + 1)[Len(w) + 1] = i
        /\ \A k \in 1..Len(w) : Within(i + 1)[k] = w[k]
    <3>1. i \in Nat
      OBVIOUS
    <3> DEFINE a == Append(w, i)
    <3>2. Len(a) = Len(w) + 1 /\ a[Len(w) + 1] = i /\ \A k \in 1..Len(w) : a[k] = w[k]
      BY <1>2, <3>1, AppendIs
    <3>3. Within(i + 1) = a
      BY <2>1
    <3> HIDE DEF a
    <3>4. QED  BY <3>2, <3>3
  <2>3. 1..(Len(w) + 1) = (1..Len(w)) \union {Len(w) + 1}
    BY <1>2
  <2>4. Around(i + 1) = Around(i) \union {i}
    BY <1>3, <2>2, <2>3
  <2>5. QED  BY <1>4, <2>1, <2>4
<1>5. CASE Op(i) = "end"
  <2>1. Within(i + 1) = Front(w) /\ w # <<>>
    BY <1>5, NestIs DEF Closing
  <2>2. \A k \in 1..Len(w) : w[k] \in 1..(i - 1) /\ Within(w[k]) = SubSeq(w, 1, k - 1)
    BY <1>2 DEF Nested
  <2> HIDE DEF w
  <2>3. Len(w) \in Nat \ {0} /\ Last(w) = w[Len(w)] /\ Within(i + 1) = SubSeq(w, 1, Len(w) - 1)
        /\ Len(Within(i + 1)) = Len(w) - 1 /\ \A k \in 1..(Len(w) - 1) : Within(i + 1)[k] = w[k]
    BY <1>2, <2>1, FrontIs
  <2>4. Within(Last(w)) = Within(i + 1) /\ Last(w) \in 1..(i - 1)
    <3>1. Len(w) \in 1..Len(w)
      BY <2>3
    <3>2. QED  BY <2>2, <2>3, <3>1
  <2>5. Last(w) \in Places
    BY <1>1, <2>4 DEF Places
  <2>6. \A k \in 1..(Len(w) - 1) : w[k] < Last(w)
    <3>1. Nested(Last(w))
      BY <2>5, Nesting
    <3>2. ASSUME NEW k \in 1..(Len(w) - 1) PROVE w[k] < Last(w)
      <4>1. Within(Last(w))[k] = w[k] /\ Within(Last(w))[k] \in 1..(Last(w) - 1)
        BY <3>1, <2>3, <2>4 DEF Nested
      <4>2. QED  BY <4>1, <2>4
    <3>3. QED  BY <3>2
  <2>7. 1..Len(w) = (1..(Len(w) - 1)) \union {Len(w)}
    BY <2>3
  <2>8. Last(w) \in Nat /\ \A k \in 1..(Len(w) - 1) : w[k] # Last(w)
    BY <2>4, <2>6
  <2>9. Around(i + 1) = Around(i) \ {Last(w)} /\ Last(w) \in Around(i)
    BY <1>3, <2>3, <2>7, <2>8
  <2>10. QED  BY <1>5, <2>9 DEF w, Opening
<1>6. CASE Op(i) \notin Opening \union {"end"}
  BY <1>6, NestIs DEF Around
<1>7. QED  BY <1>4, <1>5, <1>6

\* Every block is closed once, and its statements are those up to its end.
LEMMA EndIs ==
  ASSUME WellNested(body), NEW o \in 1..Len(body), Op(o) \in Opening
  PROVE  /\ EndOf(o) \in (o + 1)..Len(body) /\ EndOf(o) + 1 \in Places
         /\ Op(EndOf(o)) = "end" /\ Last(Within(EndOf(o))) = o
         /\ Within(EndOf(o) + 1) = Within(o)
         /\ \A j \in Places : o \in Around(j) <=> o < j /\ j <= EndOf(o)
<1> DEFINE n == Len(body)
           Out == {j \in (o + 1)..(n + 1) : o \notin Around(j)}
<1>1. n \in Nat /\ o + 1 \in Places /\ o \in Around(o + 1)
  <2>1. Around(o + 1) = Around(o) \union {o}
    BY AroundNext
  <2>2. QED  BY <2>1, NestIs DEF Places
<1>2. n + 1 \in Out /\ Out \subseteq Nat
  <2>1. Around(n + 1) = {}
    BY NestIs, EmptySeq, RangeEquality DEF Around, Places
  <2>2. QED  BY <1>1, <2>1
<1>3. PICK m \in Out : \A k \in Out : m <= k
  <2> HIDE DEF Out
  <2>1. QED  BY <1>2, LeastNumber
<1> DEFINE e == m - 1
<1>4. m \in (o + 1)..(n + 1) /\ o \notin Around(m) /\ m # o + 1
  BY <1>1, <1>3
<1>5. e \in (o + 1)..n /\ e + 1 = m /\ ~(m <= e) /\ e \in 1..n
  BY <1>1, <1>4
<1>6. o \in Around(e)
  BY <1>1, <1>3, <1>5
<1>7. Op(e) = "end" /\ Last(Within(e)) = o
  BY <1>4, <1>5, <1>6, AroundNext
<1>8. ASSUME NEW j \in Places, o < j, j <= e PROVE o \in Around(j)
  <2>1. j \in (o + 1)..(n + 1) /\ ~(m <= j)
    BY <1>8, <1>1, <1>5 DEF Places
  <2>2. QED  BY <1>3, <2>1
<1>9. ASSUME NEW j \in Places, e < j PROVE o \notin Around(j)
  <2> DEFINE T == {d \in 0..(n + 1 - m) : o \notin Around(m + d)}
  <2>1. 0 \in T /\ n + 1 - m \in Nat
    BY <1>1, <1>4, <1>5
  <2>2. ASSUME NEW d \in 1..(n + 1 - m), d - 1 \in T PROVE d \in T
    <3>1. m + (d - 1) \in 1..n /\ m + (d - 1) # o /\ m + (d - 1) + 1 = m + d
      BY <1>1, <1>4
    <3>2. o \notin Around(m + (d - 1))
      BY <2>2
    <3> HIDE DEF n, e
    <3>3. o \notin Around(m + (d - 1) + 1)
      BY <3>1, <3>2, AroundNext DEF n
    <3>4. QED  BY <3>1, <3>3, <2>2
  <2> HIDE DEF T
  <2>3. \A d \in 0..(n + 1 - m) : d \in T
    BY <2>1, <2>2, Upto
  <2>4. j - m \in 0..(n + 1 - m) /\ m + (j - m) = j
    BY <1>9, <1>1, <1>4, <1>5 DEF Places
  <2>5. QED  BY <2>3, <2>4 DEF T
<1>10. \A j \in Places : o \in Around(j) <=> o < j /\ j <= e
  <2>1. \A j \in Around(o) : j < o
    BY <1>1, AroundIs DEF Places
  <2>2. ASSUME NEW j \in Places, o \in Around(j) PROVE o < j /\ j <= e
    <3>1. o \in 1..(j - 1)
      BY <2>2, AroundIs
    <3>2. QED  BY <3>1, <2>2, <1>9, <1>5, <1>1 DEF Places
  <2>3. QED  BY <1>8, <2>2
<1>11. Matches("end", o) = {e}
  <2>1. e \in Matches("end", o)
    BY <1>5, <1>7, NestIs DEF Matches, Closing
  <2>2. ASSUME NEW k \in Matches("end", o) PROVE k = e
    <3>1. k \in 1..n /\ k + 1 \in Places /\ k \in Places /\ Op(k) = "end" /\ Last(Within(k)) = o
      BY <1>1 DEF Matches, Places
    <3>2. o \in Around(k) /\ o \notin Around(k + 1)
      BY <3>1, AroundNext
    <3>3. QED  BY <3>1, <3>2, <1>10, <1>5, <1>1
  <2>3. QED  BY <2>1, <2>2
<1>12. EndOf(o) = e
  BY <1>11 DEF EndOf
<1>13. Within(e + 1) = Within(o)
  <2>1. e \in Places /\ Within(e) \in Seq(Nat) /\ Within(e) # <<>> /\ Within(e + 1) = Front(Within(e))
    BY <1>1, <1>5, <1>7, NestIs DEF Places, Closing
  <2>2. Nested(e)
    BY <2>1, Nesting
  <2>3. /\ Len(Within(e)) \in Nat \ {0} /\ o = Within(e)[Len(Within(e))]
        /\ Front(Within(e)) = SubSeq(Within(e), 1, Len(Within(e)) - 1)
    BY <1>7, <2>1, FrontIs
  <2>4. Len(Within(e)) \in 1..Len(Within(e))
    BY <2>3
  <2>5. QED  BY <2>1, <2>2, <2>3, <2>4 DEF Nested
<1>14. e + 1 \in Places
  BY <1>1, <1>5 DEF Places
<1>15. QED  BY <1>5, <1>7, <1>10, <1>12, <1>13, <1>14

\* An else or an end belongs to the innermost block around it.
LEMMA ClosingIs ==
  ASSUME WellNested(body), NEW i \in 1..Len(body), Op(i) \in Closing,
         NEW o, o = Last(Within(i))
  PROVE  /\ o \in Around(i) /\ o \in 1..(i - 1) /\ Op(o) \in Opening
         /\ Within(o) = Front(Within(i)) /\ Around(i) = Around(o) \union {o}
         /\ Op(i) = "end" => EndOf(o) = i
         /\ Op(i) = "else" => HasElse(o) /\ ElseOf(o) = i /\ Op(o) = "if" /\ i < EndOf(o)
<1>1. i \in Places /\ i + 1 \in Places /\ Len(body) \in Nat
  BY NestIs DEF Places
<1>2. Within(i) \in Seq(Nat) /\ Within(i) # <<>>
  BY <1>1, NestIs
<1>3. Len(Within(i)) \in Nat \ {0} /\ o = Within(i)[Len(Within(i))]
      /\ Front(Within(i)) = SubSeq(Within(i), 1, Len(Within(i)) - 1)
  BY <1>2, FrontIs
<1>4. Len(Within(i)) \in 1..Len(Within(i))
  BY <1>3
<1>5. o \in Around(i) /\ o \in 1..(i - 1) /\ o <= Len(body) /\ Op(o) \in Opening
      /\ Within(o) = Front(Within(i))
  BY <1>1, <1>3, <1>4, Nesting, AroundIs DEF Nested
<1>6. o \in 1..Len(body) /\ o \in Places
  BY <1>1, <1>5 DEF Places
<1>7. Around(i) = Around(o) \union {o}
  <2>1. Around(o) = {Within(o)[k] : k \in 1..Len(Within(o))}
        /\ Around(i) = {Within(i)[k] : k \in 1..Len(Within(i))}
    BY <1>1, <1>6, AroundIs
  <2>2. Len(Within(o)) = Len(Within(i)) - 1
        /\ \A k \in 1..(Len(Within(i)) - 1) : Within(o)[k] = Within(i)[k]
    BY <1>2, <1>5, FrontIs
  <2>3. 1..Len(Within(i)) = (1..(Len(Within(i)) - 1)) \union {Len(Within(i))}
    BY <1>3
  <2>4. QED  BY <2>1, <2>2, <2>3, <1>3
<1>8. o < i /\ i <= EndOf(o)
  BY <1>1, <1>5, <1>6, EndIs
<1>9. ASSUME Op(i) = "end" PROVE EndOf(o) = i
  <2>1. o \notin Around(i + 1)
    BY <1>9, AroundNext
  <2>2. ~(o < i + 1 /\ i + 1 <= EndOf(o)) /\ EndOf(o) \in (o + 1)..Len(body)
    BY <2>1, <1>1, <1>5, <1>6, EndIs
  <2>3. QED  BY <2>2, <1>8, <1>6
<1>10. ASSUME Op(i) = "else"
       PROVE  HasElse(o) /\ ElseOf(o) = i /\ Op(o) = "if" /\ i < EndOf(o)
  <2>1. i \in Matches("else", o) /\ \A k \in Matches("else", o) : k = i
    BY <1>10, <1>2, NestIs DEF Matches
  <2>2. Op(o) = "if"
    BY <1>10, NestIs
  <2>3. EndOf(o) # i
    BY <1>10, <1>5, <1>6, EndIs
  <2>4. EndOf(o) \in (o + 1)..Len(body)
    BY <1>5, <1>6, EndIs
  <2>5. QED  BY <2>1, <2>2, <2>3, <2>4, <1>8 DEF HasElse, ElseOf
<1>11. QED  BY <1>5, <1>7, <1>9, <1>10

LEMMA ElseIs ==
  ASSUME WellNested(body), NEW o, HasElse(o)
  PROVE  /\ ElseOf(o) \in 1..Len(body) /\ Op(ElseOf(o)) = "else" /\ Last(Within(ElseOf(o))) = o
         /\ o \in 1..Len(body) /\ o < ElseOf(o) /\ ElseOf(o) < EndOf(o) /\ Op(o) = "if"
         /\ ElseOf(o) + 1 \in Places
         /\ Within(ElseOf(o) + 1) = Within(ElseOf(o))
         /\ Around(ElseOf(o) + 1) = Around(o) \union {o}
<1> DEFINE e == ElseOf(o)
<1>1. e \in 1..Len(body) /\ Op(e) = "else" /\ Last(Within(e)) = o
  BY DEF ElseOf, HasElse, Matches
<1>2. Op(e) \in Closing /\ Op(e) \notin Opening \union {"end"}
  BY <1>1 DEF Closing, Opening
<1> HIDE DEF e
<1>3. o \in 1..(e - 1) /\ e < EndOf(o) /\ Op(o) = "if" /\ Around(e) = Around(o) \union {o}
  BY <1>1, <1>2, ClosingIs
<1>4. Within(e + 1) = Within(e) /\ Around(e + 1) = Around(e) /\ Len(body) \in Nat
  BY <1>1, <1>2, NestIs, AroundNext
<1>5. QED  BY <1>1, <1>3, <1>4 DEF Places, e

(***************************************************************************)
(* What the checker reports: statements that are passed on the way to       *)
(* another do not stop.                                                     *)
(***************************************************************************)
LEMMA StartIs ==
  ASSUME WellNested(body), NEW i \in Places
  PROVE  /\ StartOf(i) < i /\ StartOf(i) \in Nat
         /\ StartOf(i) = 0 <=> Within(i) = <<>>
         /\ Within(i) # <<>> =>
              /\ Last(Within(i)) \in Around(i)
              /\ Last(Within(i)) = IF Op(StartOf(i)) = "else" THEN Last(Within(StartOf(i))) ELSE StartOf(i)
              /\ Within(i) = Append(Within(Last(Within(i))), Last(Within(i)))
<1>1. CASE Within(i) = <<>>
  BY <1>1, NestIs DEF StartOf, Places
<1>2. CASE Within(i) # <<>>
  <2> DEFINE o == Last(Within(i))
  <2>1. Within(i) \in Seq(Nat) /\ Nested(i) /\ Len(body) \in Nat
    BY NestIs, Nesting
  <2>2. /\ Len(Within(i)) \in 1..Len(Within(i)) /\ o = Within(i)[Len(Within(i))]
        /\ Front(Within(i)) = SubSeq(Within(i), 1, Len(Within(i)) - 1)
        /\ Within(i) = Append(Front(Within(i)), o)
    <3>1. /\ Len(Within(i)) \in Nat \ {0} /\ o = Within(i)[Len(Within(i))]
          /\ Front(Within(i)) = SubSeq(Within(i), 1, Len(Within(i)) - 1)
          /\ Within(i) = Append(Front(Within(i)), o)
      BY <1>2, <2>1, FrontIs
    <3>2. QED  BY <3>1
  <2>3. o \in Around(i) /\ o \in 1..(i - 1) /\ o <= Len(body) /\ Op(o) \in Opening
        /\ Within(i) = Append(Within(o), o)
    BY <2>1, <2>2, AroundIs DEF Nested
  <2> HIDE DEF o
  <2>4. StartOf(i) = IF HasElse(o) /\ ElseOf(o) < i THEN ElseOf(o) ELSE o
    BY <1>2 DEF StartOf, o
  <2>5. Op(o) # "else"
    BY <2>3 DEF Opening
  <2>6. i \in Nat
    BY <2>1 DEF Places
  <2>7. CASE HasElse(o) /\ ElseOf(o) < i
    <3>1. Op(ElseOf(o)) = "else" /\ Last(Within(ElseOf(o))) = o /\ ElseOf(o) \in 1..Len(body)
      BY <2>7, ElseIs
    <3>2. QED  BY <3>1, <2>7, <2>3, <2>4, <2>6, <2>1, <1>2 DEF o
  <2>8. CASE ~(HasElse(o) /\ ElseOf(o) < i)
    BY <2>8, <2>3, <2>4, <2>5, <2>6, <2>1, <1>2 DEF o
  <2>9. QED  BY <2>7, <2>8
<1>3. QED  BY <1>1, <1>2

LEMMA SameList ==
  ASSUME WellNested(body), NEW i \in Places, NEW j \in Places, StartOf(i) = StartOf(j)
  PROVE  Within(i) = Within(j)
<1>1. CASE StartOf(i) = 0
  BY <1>1, StartIs
<1>2. CASE StartOf(i) # 0
  <2>1. Within(i) # <<>> /\ Within(j) # <<>>
    BY <1>2, StartIs
  <2>2. Last(Within(i)) = Last(Within(j))
    BY <2>1, StartIs
  <2>3. QED  BY <2>1, <2>2, StartIs
<1>3. QED  BY <1>1, <1>2

Before(i) == {j \in Block(StartOf(i)) : j < i}
Passed(i) == UNION {Before(k) : k \in {i} \union Around(i)}

\* What follows a block is in the list of the statement that opens it, and only
\* that statement comes to what is passed.
LEMMA PassedBlock ==
  ASSUME WellNested(body), NEW i \in 1..Len(body), NEW o \in {i} \union Around(i), Op(o) \in Opening
  PROVE  /\ Passed(o) \subseteq Passed(i)
         /\ Passed(EndOf(o) + 1) \subseteq Passed(i) \union {o}
<1>1. i \in Places /\ Len(body) \in Nat
  BY NestIs DEF Places
<1>2. o \in 1..Len(body) /\ o \in Places /\ Around(o) \subseteq Around(i) /\ o <= i
  <2>1. CASE o = i
    BY <1>1, <2>1
  <2>2. CASE o \in Around(i)
    <3>1. o \in 1..(i - 1) /\ o <= Len(body) /\ Around(o) \subseteq Around(i)
      BY <2>2, <1>1, AroundIs
    <3>2. QED  BY <3>1, <1>1 DEF Places
  <2>3. QED  BY <2>1, <2>2
<1>3. Passed(o) \subseteq Passed(i)
  BY <1>2 DEF Passed
<1> DEFINE e == EndOf(o)
<1>4. /\ e \in (o + 1)..Len(body) /\ e + 1 \in Places /\ Within(e + 1) = Within(o)
      /\ \A j \in Places : o \in Around(j) <=> o < j /\ j <= e
  BY <1>2, EndIs
<1> HIDE DEF e
<1>5. ASSUME NEW j \in Places, Within(j) = Within(o) PROVE ~(o < j /\ j <= e)
  <2>1. o \notin Around(o)
    BY <1>4, <1>2
  <2>2. Around(j) = Around(o)
    BY <1>5 DEF Around
  <2>3. QED  BY <2>1, <2>2, <1>4
<1>6. StartOf(e + 1) = StartOf(o)
  <2>1. CASE Within(o) = <<>>
    BY <2>1, <1>4 DEF StartOf
  <2>2. CASE Within(o) # <<>>
    <3> DEFINE p == Last(Within(o))
    <3>1. p \in Around(o) /\ Within(o) = Append(Within(p), p)
      BY <2>2, <1>2, StartIs
    <3>2. ASSUME HasElse(p) PROVE ElseOf(p) < e + 1 <=> ElseOf(p) < o
      <4>1. ElseOf(p) \in 1..Len(body) /\ Op(ElseOf(p)) = "else" /\ Last(Within(ElseOf(p))) = p
        BY <3>2, ElseIs
      <4>2. ElseOf(p) \in Places /\ Op(ElseOf(p)) \in Closing
        BY <4>1, <1>1 DEF Places, Closing
      <4>3. Within(ElseOf(p)) # <<>>
        BY <4>1, <4>2, NestIs
      <4>4. Within(ElseOf(p)) = Append(Within(p), p)
        BY <4>1, <4>2, <4>3, StartIs
      <4>5. ~(o < ElseOf(p) /\ ElseOf(p) <= e) /\ ElseOf(p) # o
        BY <4>1, <4>2, <4>4, <3>1, <1>5 DEF Opening
      <4>6. QED  BY <4>1, <4>5, <1>2, <1>4
    <3>3. QED  BY <3>2, <2>2, <1>4 DEF StartOf
  <2>3. QED  BY <2>1, <2>2
<1>7. Before(e + 1) \subseteq Before(o) \union {o}
  <2>1. SUFFICES ASSUME NEW j \in Block(StartOf(o)), j < e + 1, ~(j < o), j # o PROVE FALSE
    BY <1>6 DEF Before
  <2>2. j \in Places /\ StartOf(j) = StartOf(o) /\ j \in Int
    BY <1>1 DEF Block, Places
  <2>3. Within(j) = Within(o)
    BY <2>2, <1>2, SameList
  <2>4. QED  BY <2>1, <2>2, <2>3, <1>2, <1>4, <1>5
<1>8. Around(e + 1) = Around(o)
  BY <1>4 DEF Around
<1>9. Passed(e + 1) \subseteq Passed(o) \union {o}
  BY <1>7, <1>8 DEF Passed
<1>10. QED  BY <1>3, <1>9 DEF e

LEMMA StopsIs ==
  ASSUME WellNested(body), NEW ops
  PROVE  \A i \in 1..Len(body) :
           Stops(ops)[i] = (Op(i) \in ops \/ (Op(i) = "if" /\ BothBranches(Stops(ops), i)))
<1> DEFINE n == Len(body)
           Rule(f, i) == Op(i) \in ops \/ (Op(i) = "if" /\ BothBranches(f, i))
           From(f, m) == \A i \in m..n : f[i] = Rule(f, i)
           T == {d \in 0..n : \E f \in [1..n -> BOOLEAN] : From(f, n + 1 - d)}
<1>1. n \in Nat
  BY NestIs
<1>2. ASSUME NEW i \in 1..n, NEW f, NEW g, \A j \in (i + 1)..n : f[j] = g[j]
      PROVE  Rule(f, i) = Rule(g, i)
  <2>1. ASSUME NEW j \in ThenBlock(i) \union ElseBlock(i) PROVE j \in (i + 1)..n
    <3>1. j \in 1..n /\ j \in Places
      BY <1>1 DEF ThenBlock, ElseBlock, Block, Places
    <3>2. i \in Nat /\ StartOf(j) < j
      BY <3>1, StartIs
    <3>3. CASE StartOf(j) = i
      BY <3>1, <3>2, <3>3
    <3>4. CASE HasElse(i) /\ StartOf(j) = ElseOf(i)
      <4>1. i < ElseOf(i) /\ ElseOf(i) \in 1..n
        BY <3>4, ElseIs
      <4>2. QED  BY <4>1, <3>1, <3>2, <3>4
    <3>5. QED  BY <3>3, <3>4 DEF ThenBlock, ElseBlock, Block
  <2>2. BothBranches(f, i) = BothBranches(g, i)
    BY <2>1, <1>2 DEF BothBranches
  <2>3. QED  BY <2>2
<1>3. 0 \in T
  <2>1. [i \in 1..n |-> FALSE] \in [1..n -> BOOLEAN]
    OBVIOUS
  <2>2. (n + 1)..n = {}
    BY <1>1
  <2>3. \A f : From(f, n + 1 - 0)
    BY <2>2, <1>1
  <2>4. \E f \in [1..n -> BOOLEAN] : From(f, n + 1 - 0)
    <3> HIDE DEF From
    <3>1. QED  BY <2>1, <2>3
  <2> HIDE DEF From
  <2>5. QED  BY <2>4, <1>1
<1>4. ASSUME NEW d \in 1..n, d - 1 \in T PROVE d \in T
  <2> DEFINE m == n + 1 - d
  <2>1. m \in 1..n /\ n + 1 - (d - 1) = m + 1
    BY <1>1, <1>4
  <2>2. PICK f \in [1..n -> BOOLEAN] : From(f, m + 1)
    BY <2>1, <1>4
  <2> DEFINE g == [f EXCEPT ![m] = Rule(f, m)]
  <2> HIDE DEF m
  <2>3. Rule(f, m) \in BOOLEAN
    BY DEF BothBranches
  <2>4. g \in [1..n -> BOOLEAN] /\ g[m] = Rule(f, m) /\ \A j \in (m + 1)..n : g[j] = f[j]
    <3> HIDE DEF Rule
    <3>1. QED  BY <2>1, <2>3
  <2> HIDE DEF g
  <2>5. ASSUME NEW i \in m..n PROVE g[i] = Rule(g, i)
    <3>1. \A j \in (i + 1)..n : f[j] = g[j]
      BY <2>1, <2>4
    <3>2. i \in 1..n
      BY <2>1
    <3>3. Rule(f, i) = Rule(g, i)
      <4> HIDE DEF Rule
      <4>1. QED  BY <1>2, <3>1, <3>2
    <3>4. g[i] = Rule(f, i)
      <4>1. CASE i = m
        BY <2>4, <4>1
      <4>2. CASE i # m
        <5>1. i \in (m + 1)..n
          BY <2>1, <4>2
        <5> HIDE DEF Rule
        <5>2. QED  BY <5>1, <2>2, <2>4
      <4>3. QED  BY <4>1, <4>2
    <3> HIDE DEF Rule
    <3>5. QED  BY <3>3, <3>4
  <2>6. From(g, m)
    <3> HIDE DEF Rule
    <3>1. QED  BY <2>5
  <2> HIDE DEF From
  <2>7. QED  BY <2>4, <2>6, <1>1 DEF m
<1>5. n \in T
  <2> HIDE DEF T, n
  <2>1. \A d \in 0..n : d \in T
    BY <1>1, <1>3, <1>4, Upto
  <2>2. QED  BY <2>1, <1>1
<1>6. PICK f \in [1..n -> BOOLEAN] : From(f, 1)
  <2>1. n + 1 - n = 1
    BY <1>1
  <2>2. QED  BY <1>5, <2>1
<1>7. f = [i \in 1..n |-> Rule(f, i)]
  <2> HIDE DEF Rule
  <2>1. QED  BY <1>6
<1>8. Stops(ops) = [i \in 1..n |-> Rule(Stops(ops), i)]
  <2> DEFINE Is(g) == g = [i \in 1..n |-> Rule(g, i)]
  <2>1. Stops(ops) = CHOOSE g : Is(g)
    BY DEF Stops
  <2>2. \E g : Is(g)
    BY <1>7
  <2> HIDE DEF Is
  <2>3. Is(Stops(ops))
    BY <2>1, <2>2
  <2>4. QED  BY <2>3 DEF Is
<1>9. QED
  <2> HIDE DEF Rule
  <2>1. \A i \in 1..n : Stops(ops)[i] = Rule(Stops(ops), i)
    BY <1>8
  <2>2. QED  BY <2>1 DEF Rule

\* The ways from one statement to the next.
Move(i, j) ==
  \/ Op(i) \in {"do", "defer"} \union Opening /\ j = i + 1
  \/ Op(i) = "if" /\ HasElse(i) /\ j = ElseOf(i) + 1
  \/ Op(i) \in Opening /\ ~HasElse(i) /\ j = EndOf(i) + 1
  \/ /\ Op(i) \in Closing
     /\ LET open == Last(Within(i))
        IN  j = IF Op(open) = "loop" THEN open ELSE EndOf(open) + 1
  \/ \E l \in Around(i) : Op(l) = "loop" /\ j \in {l, EndOf(l) + 1}

\* No statement that is passed stops.
Alive(ops, i) == \A j \in Passed(i) : ~Stops(ops)[j]

LEMMA AliveMoves ==
  ASSUME WellNested(body), NEW ops, ops \subseteq Leaving \union Jumps,
         NEW i \in 1..Len(body), NEW j, Move(i, j), Alive(ops, i)
  PROVE  Alive(ops, j)
<1> DEFINE stops == Stops(ops)
<1>1. /\ i \in Places /\ i + 1 \in Places /\ Len(body) \in Nat /\ i \in Nat
      /\ \A k \in Places : Around(k) \subseteq 1..Len(body)
  BY NestIs, AroundIs DEF Places
<1>2. \A k \in 1..Len(body) :
        stops[k] <=> (Op(k) \in ops \/ (Op(k) = "if" /\ BothBranches(stops, k)))
  BY StopsIs
<1>3. \A k \in 1..Len(body) : Op(k) \in ops => Op(k) \in Leaving \union Jumps
  OBVIOUS
<1> HIDE DEF stops
<1>4. \A k \in Passed(i) : ~stops[k]
  BY DEF Alive, stops
<1>5. SUFFICES \A k \in Passed(j) : ~stops[k]
  BY DEF Alive, stops
<1>6. CASE Op(i) \in {"do", "defer"} /\ j = i + 1
  <2>1. Within(i + 1) = Within(i) /\ Around(i + 1) = Around(i)
    BY <1>6, NestIs, AroundNext DEF Opening
  <2>2. StartOf(i + 1) = StartOf(i)
    <3>1. ASSUME Within(i) # <<>>, HasElse(Last(Within(i)))
          PROVE  ElseOf(Last(Within(i))) < i + 1 <=> ElseOf(Last(Within(i))) < i
      <4>1. ElseOf(Last(Within(i))) \in 1..Len(body) /\ Op(ElseOf(Last(Within(i)))) = "else"
        BY <3>1, ElseIs
      <4>2. QED  BY <4>1, <1>1, <1>6
    <3>2. QED  BY <3>1, <2>1 DEF StartOf
  <2>3. Before(i + 1) \subseteq Before(i) \union {i}
    BY <2>2, <1>1 DEF Before, Block
  <2>4. Passed(i + 1) \subseteq Passed(i) \union {i}
    BY <2>1, <2>3 DEF Passed
  <2>5. ~stops[i]
    BY <1>2, <1>3, <1>6 DEF Leaving, Jumps
  <2>6. QED  BY <2>4, <2>5, <1>4, <1>6
<1>7. CASE Op(i) \in Opening /\ j = i + 1
  <2>1. Around(i + 1) = Around(i) \union {i} /\ Within(i + 1) = Append(Within(i), i)
    BY <1>7, AroundNext, NestIs
  <2>2. Before(i + 1) = {}
    <3>1. Within(i) \in Seq(Nat) /\ Within(i + 1) \in Seq(Nat)
      BY <1>1, NestIs
    <3>2. Within(i + 1) # <<>> /\ Last(Within(i + 1)) = i
      <4> DEFINE a == Append(Within(i), i)
      <4>1. Len(a) = Len(Within(i)) + 1 /\ a[Len(Within(i)) + 1] = i /\ a # <<>>
        <5>1. Len(a) = Len(Within(i)) + 1 /\ a[Len(Within(i)) + 1] = i
          BY <3>1, <1>1, AppendIs
        <5>2. Len(Within(i)) \in Nat
          BY <3>1
        <5> HIDE DEF a
        <5>3. QED  BY <5>1, <5>2, EmptySeq
      <4> HIDE DEF a
      <4>2. Within(i + 1) = a
        BY <2>1 DEF a
      <4>3. QED  BY <4>1, <4>2 DEF Last
    <3>3. StartOf(i + 1) = i
      <4>1. HasElse(i) => ElseOf(i) \in 1..Len(body) /\ i < ElseOf(i)
        BY ElseIs
      <4>2. QED  BY <3>2, <4>1, <1>1 DEF StartOf
    <3>4. ASSUME NEW k \in Block(i) PROVE i < k
      <4>1. k \in Places /\ StartOf(k) = i
        BY <1>1 DEF Block, Places
      <4>2. QED  BY <4>1, StartIs
    <3>5. QED  BY <3>3, <3>4, <1>1 DEF Before, Block
  <2>3. Passed(i + 1) \subseteq Passed(i)
    BY <2>1, <2>2 DEF Passed
  <2>4. QED  BY <2>3, <1>4, <1>7
<1>8. CASE Op(i) = "if" /\ HasElse(i) /\ j = ElseOf(i) + 1
  <2> DEFINE e == ElseOf(i)
  <2>1. /\ e \in 1..Len(body) /\ Op(e) = "else" /\ Last(Within(e)) = i
        /\ e + 1 \in Places /\ Within(e + 1) = Within(e) /\ Around(e + 1) = Around(i) \union {i}
    BY <1>8, ElseIs
  <2>2. Before(e + 1) = {}
    <3>1. Within(e) # <<>>
      BY <2>1, NestIs DEF Closing
    <3>2. StartOf(e + 1) = e
      BY <2>1, <3>1, <1>8 DEF StartOf
    <3>3. ASSUME NEW k \in Block(e) PROVE e < k
      <4>1. k \in Places /\ StartOf(k) = e
        BY <1>1 DEF Block, Places
      <4>2. QED  BY <4>1, StartIs
    <3>4. QED  BY <3>2, <3>3, <2>1 DEF Before, Block
  <2>3. Passed(e + 1) \subseteq Passed(i)
    BY <2>1, <2>2 DEF Passed
  <2>4. QED  BY <2>3, <1>4, <1>8
<1>9. CASE Op(i) \in Opening /\ ~HasElse(i) /\ j = EndOf(i) + 1
  <2>1. Passed(j) \subseteq Passed(i) \union {i}
    BY <1>9, PassedBlock
  <2>2. ~stops[i]
    <3>1. ElseBlock(i) = {}
      BY <1>9 DEF ElseBlock
    <3>2. ~BothBranches(stops, i)
      BY <3>1 DEF BothBranches
    <3>3. QED  BY <3>2, <1>2, <1>3, <1>9 DEF Opening, Leaving, Jumps
  <2>3. QED  BY <2>1, <2>2, <1>4
<1>10. CASE /\ Op(i) \in Closing
            /\ LET open == Last(Within(i))
               IN  j = IF Op(open) = "loop" THEN open ELSE EndOf(open) + 1
  <2> DEFINE o == Last(Within(i))
  <2>1. /\ o \in Around(i) /\ o \in 1..(i - 1) /\ Op(o) \in Opening
        /\ Op(i) = "end" => EndOf(o) = i
        /\ Op(i) = "else" => HasElse(o) /\ ElseOf(o) = i /\ Op(o) = "if"
    BY <1>10, ClosingIs
  <2>2. o \in 1..Len(body) /\ Within(i) # <<>>
    BY <2>1, <1>1, <1>10, NestIs
  <2>3. j = IF Op(o) = "loop" THEN o ELSE EndOf(o) + 1
    BY <1>10
  <2>4. Passed(o) \subseteq Passed(i) /\ Passed(EndOf(o) + 1) \subseteq Passed(i) \union {o}
    BY <2>1, PassedBlock
  <2> HIDE DEF o
  <2>5. CASE Op(o) = "loop"
    BY <2>3, <2>4, <2>5, <1>4
  <2>6. CASE Op(o) = "if"
    <3>1. \A k \in Before(i) : ~stops[k]
      BY <1>4 DEF Passed
    <3>2. ASSUME ~HasElse(o) PROVE ~BothBranches(stops, o)
      BY <3>2 DEF BothBranches, ElseBlock
    <3>3. ASSUME Op(i) = "else" PROVE ~BothBranches(stops, o)
      <4>1. StartOf(i) = o
        BY <2>1, <2>2, <3>3, <1>1 DEF StartOf, o
      <4>2. ASSUME NEW k \in Block(o) PROVE k < i
        <5>1. k \in Places /\ StartOf(k) = o /\ Op(k) \notin Closing /\ k \in Int
          BY <1>1 DEF Block, Places
        <5>2. Within(k) = Within(i)
          BY <5>1, <4>1, <1>1, SameList
        <5>3. ~(ElseOf(o) < k)
          BY <5>1, <5>2, <2>1, <2>2, <3>3, <1>1 DEF StartOf, o
        <5>4. QED  BY <5>1, <5>3, <2>1, <3>3, <1>1, <1>10
      <4>3. ThenBlock(o) \subseteq Before(i)
        BY <4>1, <4>2 DEF Before, ThenBlock
      <4>4. QED  BY <4>3, <3>1 DEF BothBranches
    <3>4. ASSUME Op(i) = "end", HasElse(o) PROVE ~BothBranches(stops, o)
      <4>1. ElseOf(o) < i /\ EndOf(o) = i
        BY <2>1, <3>4, ElseIs
      <4>2. StartOf(i) = ElseOf(o)
        BY <2>2, <3>4, <4>1 DEF StartOf, o
      <4>3. ASSUME NEW k \in Block(ElseOf(o)) PROVE k < i
        <5>1. k \in Places /\ StartOf(k) = ElseOf(o) /\ Op(k) \notin Closing /\ k \in Int
          BY <1>1 DEF Block, Places
        <5>2. Within(k) = Within(i)
          BY <5>1, <4>2, <1>1, SameList
        <5>3. o \in Around(k)
          BY <5>2, <2>1 DEF Around
        <5>4. k <= EndOf(o)
          BY <5>1, <5>3, <2>1, <2>2, EndIs
        <5>5. QED  BY <5>1, <5>4, <4>1, <1>1, <1>10
      <4>4. ElseBlock(o) \subseteq Before(i)
        BY <4>2, <4>3, <3>4 DEF Before, ElseBlock
      <4>5. QED  BY <4>4, <3>1 DEF BothBranches
    <3>5. ~stops[o]
      <4>1. ~BothBranches(stops, o)
        BY <3>2, <3>3, <3>4, <1>10 DEF Closing
      <4>2. QED  BY <4>1, <2>2, <2>6, <1>2, <1>3 DEF Leaving, Jumps
    <3>6. QED  BY <3>5, <2>3, <2>4, <2>6, <1>4
  <2>7. QED  BY <2>1, <2>5, <2>6 DEF Opening
<1>11. CASE \E l \in Around(i) : Op(l) = "loop" /\ j \in {l, EndOf(l) + 1}
  <2>1. PICK l \in Around(i) : Op(l) = "loop" /\ j \in {l, EndOf(l) + 1}
    BY <1>11
  <2>2. l \in 1..Len(body) /\ Op(l) \in Opening
    BY <2>1, <1>1 DEF Opening
  <2>3. Passed(j) \subseteq Passed(i) \union {l}
    BY <2>1, <2>2, PassedBlock
  <2>4. ~stops[l]
    BY <2>1, <2>2, <1>2, <1>3 DEF Leaving, Jumps
  <2>5. QED  BY <2>3, <2>4, <1>4
<1>12. QED  BY <1>6, <1>7, <1>8, <1>9, <1>10, <1>11 DEF Move

(***************************************************************************)
(* The scopes of the emitter, one after the other.                          *)
(***************************************************************************)
IsFlat(f, ss, n) ==
  /\ f[1] = ss[1]
  /\ \A i \in 2..n : f[i] = f[i - 1] \o ss[i]

LEMMA FlatExists ==
  ASSUME NEW S, NEW ss \in Seq(Seq(S)), Len(ss) # 0
  PROVE  \E f \in [1..Len(ss) -> Seq(S)] : IsFlat(f, ss, Len(ss)) /\ FlattenSeq(ss) = f[Len(ss)]
<1> DEFINE n == Len(ss)
           Rule(f, i) == IF i = 1 THEN ss[i] ELSE f[i - 1] \o ss[i]
           T == {m \in 0..(n - 1) : \E f \in [1..(m + 1) -> Seq(S)] : IsFlat(f, ss, m + 1)}
<1>1. n \in Nat /\ n - 1 \in Nat /\ \A i \in 1..n : ss[i] \in Seq(S)
  OBVIOUS
<1>2. 0 \in T
  <2> DEFINE f == [i \in 1..1 |-> ss[1]]
  <2>1. f \in [1..(0 + 1) -> Seq(S)] /\ IsFlat(f, ss, 0 + 1)
    BY <1>1 DEF IsFlat
  <2>2. QED  BY <2>1, <1>1
<1>3. ASSUME NEW m \in 1..(n - 1), m - 1 \in T PROVE m \in T
  <2>1. m - 1 + 1 = m /\ m + 1 \in 1..n /\ m \in Nat
    BY <1>1
  <2>2. PICK f \in [1..m -> Seq(S)] : IsFlat(f, ss, m)
    BY <1>3, <2>1
  <2> DEFINE g == [i \in 1..(m + 1) |-> IF i <= m THEN f[i] ELSE f[m] \o ss[m + 1]]
  <2>3. f[m] \o ss[m + 1] \in Seq(S)
    BY <2>1, <2>2, <1>1
  <2>4. g \in [1..(m + 1) -> Seq(S)]
    BY <2>2, <2>3
  <2>5. g[m + 1] = f[m] \o ss[m + 1] /\ \A i \in 1..m : g[i] = f[i]
    BY <2>1
  <2> HIDE DEF g
  <2>6. IsFlat(g, ss, m + 1)
    <3>1. g[1] = ss[1]
      BY <2>1, <2>2, <2>5 DEF IsFlat
    <3>2. ASSUME NEW i \in 2..(m + 1) PROVE g[i] = g[i - 1] \o ss[i]
      <4>1. CASE i = m + 1
        <5>1. i - 1 = m /\ m \in 1..m
          BY <2>1, <4>1
        <5>2. QED  BY <5>1, <4>1, <2>5
      <4>2. CASE i # m + 1
        <5>1. i \in 2..m /\ i \in 1..m /\ i - 1 \in 1..m
          BY <2>1, <4>2
        <5>2. QED  BY <5>1, <2>2, <2>5 DEF IsFlat
      <4>3. QED  BY <4>1, <4>2
    <3>3. QED  BY <3>1, <3>2 DEF IsFlat
  <2>7. QED  BY <2>4, <2>6, <1>3
<1>4. \A m \in 0..(n - 1) : m \in T
  <2> HIDE DEF T, n
  <2>1. QED  BY <1>1, <1>2, <1>3, Upto
<1>5. PICK f \in [1..n -> Seq(S)] : IsFlat(f, ss, n)
  <2>1. n - 1 \in 0..(n - 1) /\ n - 1 + 1 = n
    BY <1>1
  <2>2. n - 1 \in T
    <3> HIDE DEF T, n
    <3>1. QED  BY <2>1, <1>4
  <2>3. QED  BY <2>1, <2>2
<1>6. \A g \in [1..n -> Seq(S)] : IsFlat(g, ss, n) => g = [i \in 1..n |-> Rule(g, i)]
  <2>1. SUFFICES ASSUME NEW g \in [1..n -> Seq(S)], IsFlat(g, ss, n)
                 PROVE  \A i \in 1..n : g[i] = Rule(g, i)
    <3> HIDE DEF Rule
    <3>1. QED  OBVIOUS
  <2>2. \A i \in 1..n : i = 1 \/ i \in 2..n
    BY <1>1
  <2>3. QED  BY <2>1, <2>2 DEF IsFlat
<1> DEFINE Is(g) == g = [i \in 1..n |-> Rule(g, i)]
           h == CHOOSE g : Is(g)
<1>7. FlattenSeq(ss) = h[n]
  BY DEF FlattenSeq
<1>8. Is(h)
  <2>1. Is(f)
    BY <1>5, <1>6
  <2> HIDE DEF Is
  <2>2. QED  BY <2>1
<1>9. \A i \in 1..n : h[i] = Rule(h, i)
  <2> HIDE DEF Rule, h
  <2>1. QED  BY <1>8
<1> HIDE DEF h
<1>10. \A i \in 1..n : h[i] = f[i]
  <2> DEFINE U == {m \in 0..(n - 1) : h[m + 1] = f[m + 1]}
  <2>1. 0 \in U
    BY <1>1, <1>5, <1>9 DEF IsFlat
  <2>2. ASSUME NEW m \in 1..(n - 1), m - 1 \in U PROVE m \in U
    <3>1. m + 1 \in 1..n /\ m + 1 \in 2..n /\ m + 1 # 1 /\ m + 1 - 1 = m /\ m - 1 + 1 = m
      BY <1>1
    <3>2. h[m] = f[m]
      BY <2>2, <3>1
    <3>3. PICK k \in 1..n : k = m + 1
      BY <3>1
    <3>4. h[k] = h[k - 1] \o ss[k] /\ f[k] = f[k - 1] \o ss[k]
      <4>1. k \in 2..n /\ k # 1
        BY <3>1, <3>3
      <4>2. h[k] = Rule(h, k)
        BY <1>9
      <4>3. QED  BY <4>1, <4>2, <1>5 DEF IsFlat
    <3>5. k - 1 = m /\ m \in 0..(n - 1)
      BY <3>1, <3>3, <1>1
    <3>6. QED  BY <3>2, <3>3, <3>4, <3>5
  <2>3. \A m \in 0..(n - 1) : m \in U
    <3> HIDE DEF U, n
    <3>1. QED  BY <1>1, <2>1, <2>2, Upto
  <2>4. \A i \in 1..n : i - 1 \in 0..(n - 1) /\ i - 1 + 1 = i
    BY <1>1
  <2>5. ASSUME NEW i \in 1..n PROVE h[i] = f[i]
    <3>1. i - 1 \in U
      BY <2>3, <2>4
    <3>2. QED  BY <2>4, <3>1
  <2>6. QED  BY <2>5
<1>11. QED  BY <1>1, <1>5, <1>7, <1>10

LEMMA FlattenIs ==
  ASSUME NEW S, NEW ss \in Seq(Seq(S))
  PROVE  FlattenSeq(ss) \in Seq(S) /\ FlattenSeq(<<>>) = <<>>
<1>1. FlattenSeq(<<>>) = <<>>
  BY DEF FlattenSeq
<1>2. CASE Len(ss) = 0
  <2>1. ss = <<>>
    BY <1>2, EmptySeq
  <2>2. QED  BY <1>1, <2>1, EmptySeq
<1>3. CASE Len(ss) # 0
  <2>1. PICK f \in [1..Len(ss) -> Seq(S)] : FlattenSeq(ss) = f[Len(ss)]
    BY <1>3, FlatExists
  <2>2. QED  BY <1>1, <1>3, <2>1
<1>4. QED  BY <1>2, <1>3

LEMMA FlattenAppend ==
  ASSUME NEW S, NEW ss \in Seq(Seq(S)), NEW s \in Seq(S)
  PROVE  FlattenSeq(Append(ss, s)) = FlattenSeq(ss) \o s
<1> DEFINE n == Len(ss)
           tt == Append(ss, s)
<1>1. n \in Nat /\ tt \in Seq(Seq(S)) /\ Len(tt) = n + 1 /\ tt[n + 1] = s
      /\ \A i \in 1..n : tt[i] = ss[i]
  BY AppendIs
<1> HIDE DEF tt
<1>2. PICK g \in [1..Len(tt) -> Seq(S)] : IsFlat(g, tt, Len(tt)) /\ FlattenSeq(tt) = g[Len(tt)]
  <2>1. Len(tt) # 0
    BY <1>1
  <2>2. QED  BY <1>1, <2>1, FlatExists
<1>3. CASE n = 0
  <2>1. ss = <<>> /\ FlattenSeq(ss) = <<>>
    BY <1>3, EmptySeq, FlattenIs
  <2>2. FlattenSeq(tt) = s
    BY <1>1, <1>2, <1>3 DEF IsFlat
  <2>3. QED  BY <2>1, <2>2, ConcatEmptySeq DEF tt
<1>4. CASE n # 0
  <2>1. PICK f \in [1..n -> Seq(S)] : IsFlat(f, ss, n) /\ FlattenSeq(ss) = f[n]
    BY <1>4, FlatExists
  <2> DEFINE U == {m \in 0..(n - 1) : g[m + 1] = f[m + 1]}
  <2>2. 0 \in U
    <3>1. f[1] = ss[1] /\ g[1] = tt[1] /\ 1 \in 1..n /\ 0 \in 0..(n - 1)
      BY <1>1, <1>2, <1>4, <2>1 DEF IsFlat
    <3>2. QED  BY <3>1, <1>1
  <2>3. ASSUME NEW m \in 1..(n - 1), m - 1 \in U PROVE m \in U
    <3>1. PICK k \in 2..n : k = m + 1
      BY <1>1
    <3>2. k - 1 = m /\ m \in 0..(n - 1) /\ k \in 1..n /\ k \in 2..(n + 1) /\ m - 1 + 1 = m
      BY <1>1, <3>1
    <3>3. g[m] = f[m]
      BY <2>3, <3>2
    <3>4. g[k] = g[k - 1] \o tt[k]
      <4>1. k \in 2..Len(tt)
        BY <1>1, <3>2
      <4>2. QED  BY <4>1, <1>2 DEF IsFlat
    <3>5. f[k] = f[k - 1] \o ss[k]
      BY <2>1, <3>2 DEF IsFlat
    <3>6. QED  BY <1>1, <3>1, <3>2, <3>3, <3>4, <3>5
  <2>4. \A m \in 0..(n - 1) : m \in U
    <3>1. n - 1 \in Nat
      BY <1>1, <1>4
    <3> HIDE DEF U, n
    <3>2. QED  BY <3>1, <2>2, <2>3, Upto
  <2>5. g[n] = f[n]
    <3>1. n - 1 \in 0..(n - 1) /\ n - 1 + 1 = n
      BY <1>1, <1>4
    <3>2. n - 1 \in U
      BY <2>4, <3>1
    <3>3. QED  BY <3>1, <3>2
  <2>6. g[n + 1] = g[n] \o tt[n + 1]
    <3>1. PICK k \in 2..(n + 1) : k = n + 1
      BY <1>1, <1>4
    <3>2. g[k] = g[k - 1] \o tt[k]
      BY <1>1, <1>2 DEF IsFlat
    <3>3. k - 1 = n
      BY <3>1, <1>1
    <3>4. QED  BY <3>1, <3>2, <3>3
  <2>7. QED  BY <1>1, <1>2, <2>1, <2>5, <2>6 DEF tt
<1>5. QED  BY <1>3, <1>4

\* The cleanups of the first k scopes are a prefix of all, the rest of them is
\* what the other scopes have.
LEMMA FlattenSplit ==
  ASSUME NEW S, NEW ss \in Seq(Seq(S)), NEW k \in 0..Len(ss)
  PROVE  FlattenSeq(ss) = FlattenSeq(SubSeq(ss, 1, k)) \o FlattenSeq(SubSeq(ss, k + 1, Len(ss)))
<1> DEFINE n == Len(ss)
           p == FlattenSeq(SubSeq(ss, 1, k))
           Rest(m) == SubSeq(ss, k + 1, k + m)
           T == {m \in 0..(n - k) : FlattenSeq(SubSeq(ss, 1, k + m)) = p \o FlattenSeq(Rest(m))}
<1>1. n \in Nat /\ n - k \in Nat /\ \A i \in 1..n : ss[i] \in Seq(S)
  OBVIOUS
<1>2. ASSUME NEW a \in 1..(k + 1), NEW m \in 1..(n - k)
      PROVE  /\ SubSeq(ss, a, k + (m - 1)) \in Seq(Seq(S))
             /\ SubSeq(ss, a, k + m) = Append(SubSeq(ss, a, k + (m - 1)), ss[k + m])
  <2> DEFINE t == SubSeq(ss, a, k + (m - 1))
             u == SubSeq(ss, a, k + m)
  <2>1. a \in Int /\ k + (m - 1) \in Int /\ k + m \in Int /\ k + m \in 1..n /\ a \in 1..n
        /\ a <= k + m
    BY <1>1
  <2>2. t \in Seq(Seq(S)) /\ Len(t) = k + m - a
        /\ \A i \in 1..(k + m - a) : t[i] = ss[a + i - 1]
    <3>1. \A i \in a..(k + (m - 1)) : ss[i] \in Seq(S)
      BY <1>1, <2>1
    <3>2. /\ Len(t) = IF a <= k + (m - 1) THEN k + (m - 1) - a + 1 ELSE 0
          /\ t \in Seq(Seq(S))
          /\ \A i \in 1..(k + (m - 1) - a + 1) : t[i] = ss[a + i - 1]
      BY <3>1, <2>1, SubSeqProperties
    <3>3. k + (m - 1) - a + 1 = k + m - a
      BY <2>1
    <3>4. QED  BY <3>2, <3>3, <2>1
  <2>3. u \in Seq(Seq(S)) /\ Len(u) = k + m - a + 1
        /\ \A i \in 1..(k + m - a + 1) : u[i] = ss[a + i - 1]
    <3>1. \A i \in a..(k + m) : ss[i] \in Seq(S)
      BY <1>1, <2>1
    <3>2. QED  BY <3>1, <2>1, SubSeqProperties
  <2> DEFINE l == k + m - a
             v == Append(t, ss[k + m])
  <2>4. ss[k + m] \in Seq(S) /\ l \in Nat /\ a + (l + 1) - 1 = k + m
    BY <1>1, <2>1
  <2> HIDE DEF t, u
  <2>4a. Len(t) = l /\ (\A i \in 1..l : t[i] = ss[a + i - 1]) /\ t \in Seq(Seq(S))
    BY <2>2
  <2> HIDE DEF l
  <2>5. v \in Seq(Seq(S)) /\ Len(v) = l + 1 /\ v[l + 1] = ss[k + m] /\ \A i \in 1..l : v[i] = ss[a + i - 1]
    <3> DEFINE last == ss[k + m]
    <3>1. last \in Seq(S)
      BY <2>4
    <3> HIDE DEF last
    <3>2. Append(t, last) \in Seq(Seq(S)) /\ Len(Append(t, last)) = Len(t) + 1
          /\ (\A i \in 1..Len(t) : Append(t, last)[i] = t[i]) /\ Append(t, last)[Len(t) + 1] = last
      BY <2>4a, <3>1, AppendProperties
    <3>3. QED  BY <2>4a, <3>2 DEF last
  <2> HIDE DEF v
  <2>6. \A i \in 1..(l + 1) : u[i] = v[i]
    <3>1. \A i \in 1..(l + 1) : i \in 1..l \/ i = l + 1
      BY <2>4
    <3>2. \A i \in 1..(l + 1) : u[i] = ss[a + i - 1]
      BY <2>3 DEF l
    <3>3. l + 1 \in 1..(l + 1)
      BY <2>4
    <3>4. QED  BY <3>1, <3>2, <3>3, <2>4, <2>5
  <2>7. u = v
    BY <2>3, <2>5, <2>6, SeqEqual DEF l
  <2>8. QED  BY <2>2, <2>7 DEF t, u, v
<1>3. SubSeq(ss, 1, k) \in Seq(Seq(S)) /\ p \in Seq(S)
  BY PrefixIs, FlattenIs
<1> HIDE DEF p
<1>4. 0 \in T
  <2>1. Rest(0) = <<>>
    BY <1>1, SubSeqEmpty
  <2>2. FlattenSeq(Rest(0)) = <<>>
    BY <2>1, FlattenIs
  <2>3. p \o <<>> = p
    BY <1>3, ConcatEmptySeq
  <2>4. k + 0 = k /\ 0 \in 0..(n - k)
    BY <1>1
  <2>5. FlattenSeq(SubSeq(ss, 1, k + 0)) = p \o FlattenSeq(Rest(0))
    BY <2>2, <2>3, <2>4 DEF p
  <2> HIDE DEF Rest
  <2>6. QED  BY <2>4, <2>5
<1>5. ASSUME NEW m \in 1..(n - k), m - 1 \in T PROVE m \in T
  <2>1. ss[k + m] \in Seq(S) /\ k + m \in 1..n /\ 1 \in 1..(k + 1) /\ k + 1 \in 1..(k + 1) /\ m \in 0..(n - k)
    BY <1>1
  <2> DEFINE a == SubSeq(ss, 1, k + (m - 1))
  <2>2. a \in Seq(Seq(S)) /\ SubSeq(ss, 1, k + m) = Append(a, ss[k + m])
    BY <1>2, <2>1
  <2>3. Rest(m - 1) \in Seq(Seq(S)) /\ Rest(m) = Append(Rest(m - 1), ss[k + m])
    BY <1>2, <2>1
  <2>4. FlattenSeq(a) = p \o FlattenSeq(Rest(m - 1))
    BY <1>5
  <2> HIDE DEF Rest, a
  <2>5. FlattenSeq(SubSeq(ss, 1, k + m)) = (p \o FlattenSeq(Rest(m - 1))) \o ss[k + m]
    BY <2>1, <2>2, <2>4, FlattenAppend
  <2>6. FlattenSeq(Rest(m)) = FlattenSeq(Rest(m - 1)) \o ss[k + m] /\ FlattenSeq(Rest(m - 1)) \in Seq(S)
    BY <2>1, <2>3, FlattenAppend, FlattenIs
  <2>7. FlattenSeq(SubSeq(ss, 1, k + m)) = p \o FlattenSeq(Rest(m))
    <3> DEFINE r == FlattenSeq(Rest(m - 1))
    <3>1. (p \o r) \o ss[k + m] = p \o (r \o ss[k + m])
      <4> DEFINE last == ss[k + m]
      <4>1. p \in Seq(S) /\ r \in Seq(S) /\ last \in Seq(S)
        BY <2>1, <2>6, <1>3
      <4> HIDE DEF r, last
      <4>2. (p \o r) \o last = p \o (r \o last)
        BY <4>1, ConcatAssociative
      <4>3. QED  BY <4>2 DEF last
    <3>2. QED  BY <3>1, <2>5, <2>6
  <2>8. QED  BY <2>1, <2>7
<1>6. n - k \in T
  <2>1. n - k \in 0..(n - k)
    BY <1>1
  <2> HIDE DEF T, n
  <2>2. \A m \in 0..(n - k) : m \in T
    BY <1>1, <1>4, <1>5, Upto
  <2>3. QED  BY <2>1, <2>2
<1>7. k + (n - k) = n /\ SubSeq(ss, 1, n) = ss
  BY <1>1, SubSeqFull
<1>8. QED  BY <1>6, <1>7 DEF p

(***************************************************************************)
(* The emitter: what is known in front of each statement, and the lines of  *)
(* each.  kn[i] is what is known in front of statement i.                   *)
(***************************************************************************)
CLines == [op : {"cleanup", "save"} \union Ops, at : Places]

\* The cleanups in front of statement i, after those in front of i - 1.
Follows(kn, i, cleanups) ==
  /\ i = 1 => cleanups = <<>>
  /\ i # 1 =>
       /\ Op(i - 1) = "defer" => cleanups = Append(kn[i - 1], i - 1)
       /\ Op(i - 1) \in Closing => cleanups = kn[Last(Within(i - 1))]
       /\ Op(i - 1) \notin Closing \union {"defer"} => cleanups = kn[i - 1]

\* A block begins with the cleanups in front of it.
Extends(kn, i, cleanups) ==
  /\ \A d \in 1..Len(cleanups) : cleanups[d] \in 1..(i - 1)
  /\ \A k \in 1..Len(Within(i)) :
       /\ Len(kn[Within(i)[k]]) <= Len(cleanups)
       /\ SubSeq(cleanups, 1, Len(kn[Within(i)[k]])) = kn[Within(i)[k]]

\* The k-th block around i is its innermost loop.
Innermost(i, k) ==
  /\ Op(Within(i)[k]) = "loop"
  /\ \A j \in (k + 1)..Len(Within(i)) : Op(Within(i)[j]) # "loop"

\* The cleanups from the last on, down to those that are kept, and the
\* statement's own line.
Undo(cleanups, kept) ==
  [d \in 1..(Len(cleanups) - kept) |-> Line("cleanup", cleanups[Len(cleanups) - d + 1])]
Lines(cleanups, kept, op, i) == Append(Undo(cleanups, kept), Line(op, i))

Written(kn, lines, i) ==
  /\ i = Len(body) + 1 => lines = Lines(kn[i], 0, "return", i)
  /\ i # Len(body) + 1 =>
       /\ Op(i) \in {"do", "exit"} \union Opening => lines = << Line(Op(i), i) >>
       /\ Op(i) = "defer" => lines = << Line("save", i) >>
       /\ Op(i) \in Closing => lines = Lines(kn[i], Len(kn[Last(Within(i))]), Op(i), i)
       /\ Op(i) \in {"return", "return_call"} => lines = Lines(kn[i], 0, Op(i), i)
       /\ Op(i) \in Jumps =>
            \E k \in 1..Len(Within(i)) :
              Innermost(i, k) /\ lines = Lines(kn[i], Len(kn[Within(i)[k]]), Op(i), i)

\* The emitter's stacks in front of statement i.
Marks(mk, i) ==
  /\ mk \in Seq(Nat)
  /\ {mk[j] : j \in 1..Len(mk)} = {k + 1 : k \in {j \in 1..Len(Within(i)) : Op(Within(i)[j]) = "loop"}}
  /\ \A j, k \in 1..Len(mk) : j < k => mk[j] < mk[k]

Stacks(sc, kn, i) ==
  /\ sc \in Seq(Seq(1..Len(body)))
  /\ Len(sc) = Len(Within(i)) + 1
  /\ \A k \in 1..Len(Within(i)) : FlattenSeq(SubSeq(sc, 1, k)) = kn[Within(i)[k]]
  /\ \A d \in 1..Len(FlattenSeq(sc)) : FlattenSeq(sc)[d] \in 1..(i - 1)
  /\ Follows(kn, i, FlattenSeq(sc))

Growing == phase \in {"check", "rejected", "emit"}

TextInv ==
  /\ WellNested(body) /\ isVoid \in BOOLEAN /\ warned \in {{}, Warned}
  /\ Growing \/ phase \in {"run", "done"}
  /\ phase \notin {"check", "rejected"} => Accepted(isVoid) /\ warned = Warned
  /\ known \in Seq(Seq(1..Len(body))) /\ Len(known) = next - 1
  /\ code \in Seq(Seq(CLines)) /\ Len(code) = next - 1
  /\ Growing => next \in Places /\ Stacks(scopes, known, next) /\ Marks(marks, next)
  /\ ~Growing => next = Len(body) + 2 /\ scopes = <<>> /\ marks = <<>>
  /\ \A i \in 1..(next - 1) :
       Follows(known, i, known[i]) /\ Extends(known, i, known[i]) /\ Written(known, code[i], i)

(***************************************************************************)
(* The text.                                                                *)
(***************************************************************************)
LEMMA CleanupsIs ==
  ASSUME NEW S, scopes \in Seq(Seq(S)), NEW start \in 1..Len(scopes),
         NEW all, all = FlattenSeq(scopes), NEW kept, kept = FlattenSeq(SubSeq(scopes, 1, start - 1))
  PROVE  /\ all \in Seq(S) /\ kept \in Seq(S)
         /\ Len(kept) <= Len(all) /\ SubSeq(all, 1, Len(kept)) = kept
         /\ CleanupLines(start) = Undo(all, Len(kept))
<1> DEFINE before == SubSeq(scopes, 1, start - 1)
           after == SubSeq(scopes, start, Len(scopes))
           r == FlattenSeq(after)
<1>1. start - 1 \in 0..Len(scopes) /\ start - 1 + 1 = start
  OBVIOUS
<1>2. before \in Seq(Seq(S)) /\ after \in Seq(Seq(S))
  OBVIOUS
<1>3. all = kept \o r
  BY <1>1, FlattenSplit
<1>4. all \in Seq(S) /\ kept \in Seq(S) /\ r \in Seq(S)
  BY <1>2, FlattenIs
<1>5. CleanupLines(start) =
        [i \in 1..Len(Reverse(r)) |-> Line("cleanup", Reverse(r)[i])]
  BY DEF CleanupLines, CleanupsFrom
<1> HIDE DEF before, after, r
<1>6. /\ Len(all) = Len(kept) + Len(r) /\ Len(kept) \in Nat /\ Len(r) \in Nat
      /\ \A i \in 1..Len(r) : all[Len(kept) + i] = r[i]
      /\ \A i \in 1..Len(kept) : all[i] = kept[i]
  BY <1>3, <1>4
<1>7. SubSeq(all, 1, Len(kept)) = kept
  <2>1. Len(kept) \in 0..Len(all)
    BY <1>6
  <2> DEFINE q == SubSeq(all, 1, Len(kept))
  <2>2. q \in Seq(S) /\ Len(q) = Len(kept) /\ \A k \in 1..Len(kept) : q[k] = all[k]
    BY <2>1, <1>4, PrefixIs
  <2> HIDE DEF q
  <2>3. q = kept
    BY <2>2, <1>4, <1>6, SeqEqual
  <2>4. QED  BY <2>3 DEF q
<1>8. Len(Reverse(r)) = Len(r) /\ \A i \in 1..Len(r) : Reverse(r)[i] = r[(Len(r) - i) + 1]
  BY <1>4 DEF Reverse
<1>9. Len(all) - Len(kept) = Len(r)
  BY <1>6
<1>10. \A i \in 1..Len(r) : Reverse(r)[i] = all[Len(all) - i + 1]
  <2>1. ASSUME NEW i \in 1..Len(r) PROVE Reverse(r)[i] = all[Len(all) - i + 1]
    <3>1. (Len(r) - i) + 1 \in 1..Len(r) /\ Len(kept) + ((Len(r) - i) + 1) = Len(all) - i + 1
      BY <1>6
    <3>2. all[Len(kept) + ((Len(r) - i) + 1)] = r[(Len(r) - i) + 1]
      BY <3>1, <1>6
    <3>3. QED  BY <3>1, <3>2, <1>8
  <2>2. QED  BY <2>1
<1>11. CleanupLines(start) = Undo(all, Len(kept))
  BY <1>5, <1>8, <1>9, <1>10 DEF Undo
<1>12. QED  BY <1>4, <1>6, <1>7, <1>11

LEMMA LinesIs ==
  ASSUME NEW i \in Places, NEW cleanups \in Seq(Places), NEW kept \in 0..Len(cleanups),
         NEW op \in Ops
  PROVE  /\ Undo(cleanups, kept) \in Seq(CLines) /\ Len(Undo(cleanups, kept)) = Len(cleanups) - kept
         /\ Append(Undo(cleanups, kept), Line(op, i)) \in Seq(CLines)
<1>1. \A d \in 1..(Len(cleanups) - kept) : cleanups[Len(cleanups) - d + 1] \in Places
  <2>1. \A d \in 1..(Len(cleanups) - kept) : Len(cleanups) - d + 1 \in 1..Len(cleanups)
    OBVIOUS
  <2>2. QED  BY <2>1
<1>2. Len(cleanups) - kept \in Nat
  OBVIOUS
<1>3. \A o \in {"cleanup", "save"} \union Ops, j \in Places : Line(o, j) \in CLines
  BY DEF Line, CLines
<1>4. \A d \in 1..(Len(cleanups) - kept) : Undo(cleanups, kept)[d] \in CLines
  BY <1>1, <1>3 DEF Undo
<1>5. Undo(cleanups, kept) \in Seq(CLines) /\ Len(Undo(cleanups, kept)) = Len(cleanups) - kept
  <2> HIDE DEF CLines
  <2> DEFINE Entry(d) == Line("cleanup", cleanups[Len(cleanups) - d + 1])
             m == Len(cleanups) - kept
  <2>1. \A d \in 1..m : Entry(d) \in CLines
    BY <1>4 DEF Undo
  <2> HIDE DEF Entry
  <2>2. [d \in 1..m |-> Entry(d)] \in Seq(CLines) /\ Len([d \in 1..m |-> Entry(d)]) = m
    BY <2>1, <1>2, IsASeq
  <2>3. QED  BY <2>2 DEF Undo, Entry
<1>6. QED  BY <1>3, <1>5, AppendIs

\* What is said of statement i is about the statements up to i alone.
LEMMA TextGrows ==
  ASSUME WellNested(body), NEW i \in Places, NEW kn, NEW kn2,
         \A j \in 1..(i - 1) : kn2[j] = kn[j]
  PROVE  /\ \A c : Follows(kn, i, c) => Follows(kn2, i, c)
         /\ \A c : Extends(kn, i, c) => Extends(kn2, i, c)
         /\ \A lines : kn2[i] = kn[i] /\ Written(kn, lines, i) => Written(kn2, lines, i)
<1>1. Nested(i) /\ Len(body) \in Nat /\ Within(i) \in Seq(Nat)
  BY NestIs, Nesting
<1>2. \A k \in 1..Len(Within(i)) : kn2[Within(i)[k]] = kn[Within(i)[k]]
  BY <1>1 DEF Nested
<1>3. ASSUME i # 1 PROVE /\ kn2[i - 1] = kn[i - 1]
                         /\ Op(i - 1) \in Closing => kn2[Last(Within(i - 1))] = kn[Last(Within(i - 1))]
  <2>1. i - 1 \in 1..Len(body) /\ i - 1 \in 1..(i - 1)
    BY <1>1, <1>3 DEF Places
  <2>2. ASSUME Op(i - 1) \in Closing PROVE kn2[Last(Within(i - 1))] = kn[Last(Within(i - 1))]
    <3>1. Last(Within(i - 1)) \in 1..(i - 1 - 1)
      BY <2>1, <2>2, ClosingIs
    <3>2. Last(Within(i - 1)) \in 1..(i - 1)
      BY <3>1, <2>1
    <3>3. QED  BY <3>2
  <2>3. QED  BY <2>1, <2>2
<1>4. ASSUME Op(i) \in Closing, i # Len(body) + 1
      PROVE  kn2[Last(Within(i))] = kn[Last(Within(i))]
  <2>1. i \in 1..Len(body)
    BY <1>1, <1>4 DEF Places
  <2>2. Last(Within(i)) \in 1..(i - 1)
    BY <1>4, <2>1, ClosingIs
  <2>3. QED  BY <2>2
<1>5. ASSUME NEW c, Follows(kn, i, c) PROVE Follows(kn2, i, c)
  BY <1>3, <1>5 DEF Follows
<1>6. ASSUME NEW c, Extends(kn, i, c) PROVE Extends(kn2, i, c)
  BY <1>2, <1>6 DEF Extends
<1>7. ASSUME NEW lines, kn2[i] = kn[i], Written(kn, lines, i) PROVE Written(kn2, lines, i)
  BY <1>2, <1>4, <1>7 DEF Written
<1>8. QED  BY <1>5, <1>6, <1>7

LEMMA SameBody ==
  ASSUME body' = body
  PROVE  /\ WellNested(body)' = WellNested(body)
         /\ Places' = Places /\ CLines' = CLines
         /\ \A i : Op(i)' = Op(i) /\ Within(i)' = Within(i)
         /\ \A i, k : Innermost(i, k)' = Innermost(i, k)
<1>1. WellNested(body)' = WellNested(body)
  BY DEF WellNested
<1>2. Places' = Places /\ CLines' = CLines
  BY DEF Places, CLines
<1>3. \A i : Op(i)' = Op(i) /\ Within(i)' = Within(i)
  BY DEF Op, Within
<1>4. \A i, k : Innermost(i, k)' = Innermost(i, k)
  BY DEF Innermost, Op, Within
<1>5. QED  BY <1>1, <1>2, <1>3, <1>4

LEMMA SameText ==
  ASSUME body' = body
  PROVE  \A i :
           /\ Follows(known, i, known[i])' = Follows(known', i, known'[i])
           /\ Extends(known, i, known[i])' = Extends(known', i, known'[i])
           /\ Written(known, code[i], i)' = Written(known', code'[i], i)
           /\ Marks(marks, i)' = Marks(marks', i)
           /\ Stacks(scopes, known, i)' = Stacks(scopes', known', i)
<1>1. \A i : Op(i)' = Op(i) /\ Within(i)' = Within(i)
  BY SameBody
<1>2. \A i, k : Innermost(i, k)' = Innermost(i, k)
  BY SameBody
<1>3. \A i, c : Follows(known, i, c)' = Follows(known', i, c)
  BY <1>1 DEF Follows
<1>4. \A i : Follows(known, i, known[i])' = Follows(known', i, known'[i])
  BY <1>1 DEF Follows
<1>5. \A i : Extends(known, i, known[i])' = Extends(known', i, known'[i])
  BY <1>1 DEF Extends
<1>6. \A i : Written(known, code[i], i)' = Written(known', code'[i], i)
  BY <1>1, <1>2 DEF Written
<1>7. \A i : Marks(marks, i)' = Marks(marks', i)
  BY <1>1 DEF Marks
<1>8. \A i : Stacks(scopes, known, i)' = Stacks(scopes', known', i)
  BY <1>1 DEF Stacks, Follows
<1>9. QED  BY <1>4, <1>5, <1>6, <1>7, <1>8

LEMMA TextInit == Init => TextInv
<1> SUFFICES ASSUME Init PROVE TextInv
  OBVIOUS
<1>1. WellNested(body)
  BY BodiesAssumption DEF Init
<1>2. /\ phase = "check" /\ isVoid \in BOOLEAN /\ warned = {} /\ next = 1 /\ scopes = << <<>> >>
      /\ marks = <<>> /\ code = <<>> /\ known = <<>>
  BY DEF Init
<1>3. Len(body) \in Nat /\ 1 \in Places /\ Within(1) = <<>>
  BY <1>1, NestIs DEF Places
<1>4. FlattenSeq(scopes) = <<>>
  <2> DEFINE S == Seq(1..Len(body))
  <2>1. <<>> \in Seq(S) /\ <<>> \in S
    OBVIOUS
  <2>2. FlattenSeq(Append(<<>>, <<>>)) = FlattenSeq(<<>>) \o <<>>
    BY <2>1, FlattenAppend
  <2>3. FlattenSeq(<<>>) = <<>>
    BY <2>1, FlattenIs
  <2>4. scopes = Append(<<>>, <<>>) /\ <<>> \o <<>> = <<>>
    BY <1>2
  <2>5. QED  BY <2>2, <2>3, <2>4
<1>5. Stacks(scopes, known, next)
  BY <1>2, <1>3, <1>4 DEF Stacks, Follows
<1>6. Marks(marks, next)
  BY <1>2, <1>3 DEF Marks
<1>7. Growing
  BY <1>2 DEF Growing
<1>8. QED  BY <1>1, <1>2, <1>3, <1>5, <1>6, <1>7 DEF TextInv

LEMMA EmitBefore ==
  ASSUME TextInv, Growing, NEW all, all = FlattenSeq(scopes)
  PROVE  /\ all \in Seq(1..Len(body)) /\ Follows(known, next, all) /\ Extends(known, next, all)
         /\ scopes # <<>> /\ CleanupLines(1) = Undo(all, 0)
         /\ \A k \in 1..Len(Within(next)) :
              /\ CleanupLines(k + 1) = Undo(all, Len(known[Within(next)[k]]))
              /\ Len(known[Within(next)[k]]) \in 0..Len(all)
<1> DEFINE S == 1..Len(body)
           w == Within(next)
<1>1. /\ WellNested(body) /\ next \in Places /\ Stacks(scopes, known, next)
      /\ known \in Seq(Seq(S)) /\ Len(known) = next - 1
  BY DEF TextInv
<1>2. /\ w \in Seq(Nat) /\ Nested(next) /\ Len(body) \in Nat /\ next \in Nat
  BY <1>1, NestIs, Nesting DEF Places
<1>3. /\ scopes \in Seq(Seq(S)) /\ Len(scopes) = Len(w) + 1
      /\ \A k \in 1..Len(w) : FlattenSeq(SubSeq(scopes, 1, k)) = known[w[k]]
      /\ \A d \in 1..Len(all) : all[d] \in 1..(next - 1)
      /\ Follows(known, next, all)
  BY <1>1 DEF Stacks
<1> HIDE DEF S
<1>4. all \in Seq(S)
  BY <1>3, FlattenIs
<1>5. ASSUME NEW k \in 1..Len(w)
      PROVE  /\ CleanupLines(k + 1) = Undo(all, Len(known[w[k]]))
             /\ Len(known[w[k]]) \in 0..Len(all)
             /\ Len(known[w[k]]) <= Len(all) /\ SubSeq(all, 1, Len(known[w[k]])) = known[w[k]]
  <2>1. k + 1 \in 1..Len(scopes) /\ k + 1 - 1 = k
    BY <1>2, <1>3
  <2>2. known[w[k]] = FlattenSeq(SubSeq(scopes, 1, k + 1 - 1))
    BY <1>3, <2>1
  <2>3. /\ known[w[k]] \in Seq(S) /\ Len(known[w[k]]) <= Len(all)
        /\ SubSeq(all, 1, Len(known[w[k]])) = known[w[k]]
        /\ CleanupLines(k + 1) = Undo(all, Len(known[w[k]]))
    <3> DEFINE kept == known[w[k]]
    <3>1. kept = FlattenSeq(SubSeq(scopes, 1, k + 1 - 1)) /\ all = FlattenSeq(scopes)
      BY <2>2
    <3> HIDE DEF w, kept
    <3>2. PICK start \in 1..Len(scopes) : start = k + 1
      BY <2>1
    <3>3. kept = FlattenSeq(SubSeq(scopes, 1, start - 1))
      BY <3>1, <3>2
    <3>4. /\ kept \in Seq(S) /\ Len(kept) <= Len(all) /\ SubSeq(all, 1, Len(kept)) = kept
          /\ CleanupLines(start) = Undo(all, Len(kept))
      BY <1>3, <3>1, <3>3, CleanupsIs
    <3>5. QED  BY <3>2, <3>4 DEF kept
  <2>4. Len(known[w[k]]) \in Nat /\ Len(all) \in Nat
    BY <1>4, <2>3
  <2>5. QED  BY <2>3, <2>4
<1>6. CleanupLines(1) = Undo(all, 0)
  <2>1. 1 \in 1..Len(scopes) /\ 1 - 1 = 0
    BY <1>2, <1>3
  <2>2. SubSeq(scopes, 1, 1 - 1) = <<>> /\ Len(<<>>) = 0
    BY <1>3
  <2>3. FlattenSeq(SubSeq(scopes, 1, 1 - 1)) = <<>>
    BY <2>2, <1>3, FlattenIs
  <2>4. CleanupLines(1) = Undo(all, Len(<<>>))
    <3> DEFINE none == FlattenSeq(SubSeq(scopes, 1, 1 - 1))
    <3>1. CleanupLines(1) = Undo(all, Len(none))
      BY <1>3, <2>1, CleanupsIs
    <3>2. QED  BY <3>1, <2>3
  <2>5. QED  BY <2>4, <2>2
<1>7. Extends(known, next, all)
  BY <1>3, <1>5 DEF Extends
<1>8. scopes # <<>>
  BY <1>2, <1>3
<1>9. QED  BY <1>3, <1>4, <1>5, <1>6, <1>7, <1>8 DEF S

LEMMA EmitKeeps ==
  ASSUME TextInv, Growing, body' = body,
         NEW all, all = FlattenSeq(scopes), known' = Append(known, all), next' = next + 1,
         NEW lines, lines \in Seq(CLines), code' = Append(code, lines), Written(known', lines, next)
  PROVE  /\ known' \in Seq(Seq(1..Len(body))) /\ Len(known') = next
         /\ code' \in Seq(Seq(CLines)) /\ Len(code') = next
         /\ known'[next] = all /\ \A j \in 1..(next - 1) : known'[j] = known[j]
         /\ \A i \in 1..next :
              Follows(known', i, known'[i]) /\ Extends(known', i, known'[i]) /\ Written(known', code'[i], i)
<1> DEFINE S == 1..Len(body)
<1>1. /\ WellNested(body) /\ next \in Places /\ Len(body) \in Nat
      /\ known \in Seq(Seq(S)) /\ Len(known) = next - 1
      /\ code \in Seq(Seq(CLines)) /\ Len(code) = next - 1
      /\ \A i \in 1..(next - 1) :
           Follows(known, i, known[i]) /\ Extends(known, i, known[i]) /\ Written(known, code[i], i)
  BY NestIs DEF TextInv
<1>2. all \in Seq(S) /\ Follows(known, next, all) /\ Extends(known, next, all)
  BY EmitBefore
<1> HIDE DEF S
<1>3. next \in Nat /\ Len(known) + 1 = next /\ Len(code) + 1 = next
  BY <1>1 DEF Places
<1>4. /\ known' \in Seq(Seq(S)) /\ Len(known') = next /\ known'[next] = all
      /\ \A j \in 1..(next - 1) : known'[j] = known[j]
  <2> DEFINE k2 == Append(known, all)
  <2>1. /\ k2 \in Seq(Seq(S)) /\ Len(k2) = Len(known) + 1 /\ k2[Len(known) + 1] = all
        /\ \A j \in 1..Len(known) : k2[j] = known[j]
    BY <1>1, <1>2, AppendIs
  <2>2. known' = k2
    OBVIOUS
  <2> HIDE DEF k2
  <2>3. QED  BY <2>1, <2>2, <1>1, <1>3
<1>5. /\ code' \in Seq(Seq(CLines)) /\ Len(code') = next /\ code'[next] = lines
      /\ \A j \in 1..(next - 1) : code'[j] = code[j]
  <2> DEFINE k2 == Append(code, lines)
  <2> HIDE DEF CLines
  <2>1. /\ k2 \in Seq(Seq(CLines)) /\ Len(k2) = Len(code) + 1 /\ k2[Len(code) + 1] = lines
        /\ \A j \in 1..Len(code) : k2[j] = code[j]
    BY <1>1, <1>2, AppendIs
  <2>2. code' = k2
    OBVIOUS
  <2> HIDE DEF k2
  <2>3. QED  BY <2>1, <2>2, <1>1, <1>3
<1>6. ASSUME NEW i \in 1..(next - 1)
      PROVE  Follows(known', i, known'[i]) /\ Extends(known', i, known'[i]) /\ Written(known', code'[i], i)
  <2>1. i \in Places /\ \A j \in 1..(i - 1) : known'[j] = known[j]
    BY <1>1, <1>3, <1>4 DEF Places
  <2>2. known'[i] = known[i] /\ code'[i] = code[i]
    BY <1>4, <1>5
  <2>3. QED  BY <1>1, <2>1, <2>2, TextGrows
<1>7. Follows(known', next, all) /\ Extends(known', next, all)
  BY <1>1, <1>2, <1>4, TextGrows
<1>8. ASSUME NEW i \in 1..next
      PROVE  Follows(known', i, known'[i]) /\ Extends(known', i, known'[i]) /\ Written(known', code'[i], i)
  <2>1. CASE i = next
    BY <2>1, <1>4, <1>5, <1>7
  <2>2. CASE i # next
    <3>1. i \in 1..(next - 1)
      BY <2>2, <1>3
    <3>2. QED  BY <3>1, <1>6
  <2>3. QED  BY <2>1, <2>2
<1>9. QED  BY <1>4, <1>5, <1>8 DEF S

\* The last mark is that of the innermost loop.
LEMMA LastMark ==
  ASSUME WellNested(body), NEW i \in Places, NEW mk, Marks(mk, i),
         NEW loop \in 1..Len(Within(i)), Op(Within(i)[loop]) = "loop"
  PROVE  /\ mk # <<>>
         /\ \E k \in 1..Len(Within(i)) : Last(mk) = k + 1 /\ Innermost(i, k)
         /\ Front(mk) \in Seq(Nat)
         /\ {Front(mk)[j] : j \in 1..Len(Front(mk))} = {mk[j] : j \in 1..Len(mk)} \ {Last(mk)}
         /\ \A j, k \in 1..Len(Front(mk)) : j < k => Front(mk)[j] < Front(mk)[k]
<1> DEFINE w == Within(i)
           m == Len(mk)
           Loops == {j \in 1..Len(w) : Op(w[j]) = "loop"}
<1>1. w \in Seq(Nat)
  BY NestIs
<1>2. /\ mk \in Seq(Nat) /\ {mk[j] : j \in 1..m} = {k + 1 : k \in Loops}
      /\ \A j, k \in 1..m : j < k => mk[j] < mk[k]
  BY DEF Marks
<1>3. loop + 1 \in {mk[j] : j \in 1..m}
  BY <1>2
<1>4. mk # <<>>
  BY <1>3
<1>5. /\ m \in Nat \ {0} /\ Last(mk) = mk[m] /\ Front(mk) \in Seq(Nat) /\ Len(Front(mk)) = m - 1
      /\ \A k \in 1..(m - 1) : Front(mk)[k] = mk[k]
  BY <1>2, <1>4, FrontIs
<1>6. m \in 1..m /\ 1..m = (1..(m - 1)) \union {m} /\ \A k \in 1..(m - 1) : k \in 1..m /\ k < m
  BY <1>5
<1>7. \A k \in 1..(m - 1) : mk[k] < mk[m]
  BY <1>2, <1>6
<1>8. \A k \in 1..m : mk[k] \in Nat
  BY <1>2
<1>9. {Front(mk)[j] : j \in 1..Len(Front(mk))} = {mk[j] : j \in 1..m} \ {Last(mk)}
  <2>1. \A k \in 1..(m - 1) : mk[k] # mk[m]
    <3>1. \A k \in 1..(m - 1) : mk[k] \in Nat /\ mk[m] \in Nat
      BY <1>6, <1>8
    <3>2. QED  BY <3>1, <1>7
  <2>2. {mk[j] : j \in 1..m} = {mk[j] : j \in 1..(m - 1)} \union {mk[m]}
    BY <1>6
  <2>3. {Front(mk)[j] : j \in 1..Len(Front(mk))} = {mk[j] : j \in 1..(m - 1)}
    BY <1>5
  <2>4. QED  BY <2>1, <2>2, <2>3, <1>5
<1>10. \A j, k \in 1..Len(Front(mk)) : j < k => Front(mk)[j] < Front(mk)[k]
  BY <1>2, <1>5, <1>6
<1>11. PICK k \in Loops : mk[m] = k + 1
  BY <1>2, <1>6
<1>12. ASSUME NEW j \in (k + 1)..Len(w) PROVE Op(w[j]) # "loop"
  <2>1. SUFFICES ASSUME Op(w[j]) = "loop" PROVE FALSE
    OBVIOUS
  <2>2. j \in Loops /\ j \in Nat /\ k \in Nat /\ k < j
    BY <2>1, <1>1
  <2>3. PICK a \in 1..m : mk[a] = j + 1
    BY <1>2, <2>2
  <2>4. a = m \/ a \in 1..(m - 1)
    BY <1>6
  <2>5. mk[a] <= mk[m]
    BY <2>4, <1>7, <1>8, <2>3, <1>11, <2>2
  <2>6. QED  BY <2>2, <2>3, <2>5, <1>11
<1>13. Innermost(i, k) /\ Last(mk) = k + 1
  BY <1>5, <1>11, <1>12 DEF Innermost
<1>14. QED  BY <1>4, <1>5, <1>9, <1>10, <1>11, <1>13

LEMMA MarksStep ==
  ASSUME WellNested(body), NEW i \in 1..Len(body), NEW mk, Marks(mk, i)
  PROVE  /\ Op(i) = "loop" => Marks(Append(mk, Len(Within(i)) + 2), i + 1)
         /\ Op(i) # "loop" /\ Op(i) # "end" => Marks(mk, i + 1)
         /\ Op(i) = "end" => Marks(IF Op(Last(Within(i))) = "loop" THEN Front(mk) ELSE mk, i + 1)
<1> DEFINE w == Within(i)
           m == Len(mk)
           Loops == {j \in 1..Len(w) : Op(w[j]) = "loop"}
           w2 == Within(i + 1)
           Loops2 == {j \in 1..Len(w2) : Op(w2[j]) = "loop"}
<1>1. i \in Places /\ i + 1 \in Places /\ Len(body) \in Nat /\ i \in Nat
  BY NestIs DEF Places
<1>2. w \in Seq(Nat) /\ w2 \in Seq(Nat)
  BY <1>1, NestIs
<1>3. /\ mk \in Seq(Nat) /\ {mk[j] : j \in 1..m} = {k + 1 : k \in Loops}
      /\ \A j, k \in 1..m : j < k => mk[j] < mk[k]
  BY DEF Marks
<1>4. ASSUME Op(i) \in Opening
      PROVE  /\ Len(w2) = Len(w) + 1 /\ w2[Len(w) + 1] = i
             /\ \A k \in 1..Len(w) : w2[k] = w[k]
             /\ Loops2 = IF Op(i) = "loop" THEN Loops \union {Len(w) + 1} ELSE Loops
  <2>1. w2 = Append(w, i)
    BY <1>4, NestIs
  <2> HIDE DEF w, w2
  <2>2. /\ Len(w2) = Len(w) + 1 /\ w2[Len(w) + 1] = i /\ \A k \in 1..Len(w) : w2[k] = w[k]
    <3> DEFINE a == Append(w, i)
    <3>1. Len(a) = Len(w) + 1 /\ a[Len(w) + 1] = i /\ \A k \in 1..Len(w) : a[k] = w[k]
      BY <1>1, <1>2, AppendIs
    <3>2. w2 = a
      BY <2>1
    <3> HIDE DEF a
    <3>3. QED  BY <3>1, <3>2
  <2>3. 1..(Len(w) + 1) = (1..Len(w)) \union {Len(w) + 1}
    BY <1>2
  <2>4. Loops2 = IF Op(i) = "loop" THEN Loops \union {Len(w) + 1} ELSE Loops
    BY <2>2, <2>3
  <2>5. QED  BY <2>2, <2>4
<1>5. CASE Op(i) = "loop"
  <2>1. Loops2 = Loops \union {Len(w) + 1} /\ Op(i) \in Opening
    BY <1>4, <1>5 DEF Opening
  <2> DEFINE l == Len(w) + 2
             a == Append(mk, l)
  <2>2. l \in Nat /\ l = (Len(w) + 1) + 1
    BY <1>2
  <2>3. \A j \in 1..m : mk[j] < l
    <3>1. ASSUME NEW j \in 1..m PROVE mk[j] < l
      <4>1. PICK k \in Loops : mk[j] = k + 1
        BY <1>3
      <4>2. QED  BY <4>1, <1>2
    <3>2. QED  BY <3>1
  <2>4. {k + 1 : k \in Loops2} = {mk[j] : j \in 1..m} \union {l}
    BY <2>1, <2>2, <1>3
  <2> HIDE DEF w, w2, l, Loops, Loops2
  <2>5. /\ a \in Seq(Nat) /\ Len(a) = m + 1 /\ a[m + 1] = l /\ \A k \in 1..m : a[k] = mk[k]
    BY <1>3, <2>2, AppendIs
  <2> HIDE DEF a
  <2>6. m \in Nat /\ 1..(m + 1) = (1..m) \union {m + 1}
    BY <1>3
  <2>7. {a[j] : j \in 1..Len(a)} = {k + 1 : k \in Loops2}
    BY <2>4, <2>5, <2>6
  <2>8. ASSUME NEW j \in 1..Len(a), NEW k \in 1..Len(a), j < k PROVE a[j] < a[k]
    <3>1. j \in 1..m
      BY <2>5, <2>6, <2>8
    <3>2. CASE k \in 1..m
      BY <3>1, <3>2, <2>5, <1>3, <2>8
    <3>3. CASE k = m + 1
      BY <3>1, <3>3, <2>5, <2>3
    <3>4. QED  BY <3>2, <3>3, <2>5, <2>6
  <2>9. Marks(a, i + 1)
    BY <2>5, <2>7, <2>8 DEF Marks, Loops2, w2
  <2>10. QED  BY <2>9, <1>5 DEF a, l, w
<1>6. CASE Op(i) # "loop" /\ Op(i) # "end"
  <2>1. Loops2 = Loops
    <3>1. CASE Op(i) \in Opening
      BY <3>1, <1>4, <1>6
    <3>2. CASE Op(i) \notin Opening
      <4>1. Within(i + 1) = Within(i)
        BY <3>2, <1>6, NestIs
      <4>2. QED  BY <4>1
    <3>3. QED  BY <3>1, <3>2
  <2> HIDE DEF Loops, Loops2
  <2>2. {mk[j] : j \in 1..m} = {k + 1 : k \in Loops2}
    BY <2>1, <1>3
  <2>3. Marks(mk, i + 1)
    BY <2>2, <1>3 DEF Marks, Loops2
  <2>4. QED  BY <2>3, <1>6
<1>7. CASE Op(i) = "end"
  <2>1. w2 = Front(w) /\ w # <<>>
    BY <1>7, NestIs DEF Closing
  <2>2. /\ Len(w) \in Nat \ {0} /\ Last(w) = w[Len(w)] /\ Len(w2) = Len(w) - 1
        /\ \A k \in 1..(Len(w) - 1) : w2[k] = w[k]
    <3> HIDE DEF w, w2
    <3>1. QED  BY <2>1, <1>2, FrontIs
  <2>3. Len(w) \in 1..Len(w) /\ 1..Len(w) = (1..(Len(w) - 1)) \union {Len(w)} /\ Len(w) \notin 1..(Len(w) - 1)
    BY <2>2
  <2>4. Loops2 = Loops \ {Len(w)} /\ (Op(Last(w)) = "loop" <=> Len(w) \in Loops)
    <3> HIDE DEF w, w2
    <3>1. QED  BY <2>2, <2>3
  <2>5. CASE Op(Last(w)) = "loop"
    <3>1. PICK loop \in 1..Len(Within(i)) : loop = Len(w) /\ Op(Within(i)[loop]) = "loop"
      BY <2>5, <2>3, <2>2
    <3>2. /\ \E k \in 1..Len(Within(i)) : Last(mk) = k + 1 /\ Innermost(i, k)
          /\ Front(mk) \in Seq(Nat)
          /\ {Front(mk)[j] : j \in 1..Len(Front(mk))} = {mk[j] : j \in 1..Len(mk)} \ {Last(mk)}
          /\ \A j, k \in 1..Len(Front(mk)) : j < k => Front(mk)[j] < Front(mk)[k]
      BY <1>1, <3>1, LastMark
    <3>3. PICK k \in 1..Len(w) : Last(mk) = k + 1 /\ Innermost(i, k)
      BY <3>2
    <3>4. k = Len(w)
      <4>1. SUFFICES ASSUME k # Len(w) PROVE FALSE
        OBVIOUS
      <4>2. Len(w) \in (k + 1)..Len(w)
        BY <4>1, <2>2
      <4>3. QED  BY <4>2, <3>1, <3>3 DEF Innermost
    <3>5. {j + 1 : j \in Loops2} = {j + 1 : j \in Loops} \ {Len(w) + 1}
      <4>1. Loops \subseteq Nat
        OBVIOUS
      <4> DEFINE n == Len(w)
      <4>2. n \in Nat /\ Loops2 = Loops \ {n}
        BY <2>2, <2>4
      <4> HIDE DEF Loops, Loops2, n
      <4>3. \A j \in Loops : j # n => j + 1 # n + 1
        BY <4>1, <4>2
      <4>4. {j + 1 : j \in Loops2} = {j + 1 : j \in Loops} \ {n + 1}
        BY <4>2, <4>3
      <4>5. QED  BY <4>4 DEF n
    <3>6. {Front(mk)[j] : j \in 1..Len(Front(mk))} = {j + 1 : j \in Loops2}
      BY <3>2, <3>3, <3>4, <3>5, <1>3
    <3> HIDE DEF Loops2
    <3>7. Marks(Front(mk), i + 1)
      BY <3>2, <3>6 DEF Marks, Loops2
    <3>8. QED  BY <3>7, <2>5, <1>7
  <2>6. CASE Op(Last(w)) # "loop"
    <3>1. Loops2 = Loops
      BY <2>4, <2>6
    <3> HIDE DEF Loops, Loops2
    <3>2. {mk[j] : j \in 1..m} = {k + 1 : k \in Loops2}
      BY <3>1, <1>3
    <3>3. Marks(mk, i + 1)
      BY <3>2, <1>3 DEF Marks, Loops2
    <3>4. QED  BY <3>3, <2>6, <1>7
  <2>7. QED  BY <2>5, <2>6
<1>8. QED  BY <1>5, <1>6, <1>7

LEMMA StacksStep ==
  ASSUME WellNested(body), NEW i \in 1..Len(body), NEW sc, NEW kn, Stacks(sc, kn, i),
         NEW all, all = FlattenSeq(sc), NEW kn2, kn2[i] = all, \A j \in 1..(i - 1) : kn2[j] = kn[j],
         \A j \in 1..(i - 1) : \A d \in 1..Len(kn[j]) : kn[j][d] \in 1..(j - 1)
  PROVE  /\ Op(i) \notin Opening \union Closing \union {"defer"} => Stacks(sc, kn2, i + 1)
         /\ Op(i) = "defer" => Stacks([sc EXCEPT ![Len(sc)] = Append(@, i)], kn2, i + 1)
         /\ Op(i) \in Opening => Stacks(Append(sc, <<>>), kn2, i + 1)
         /\ Op(i) = "else" => Stacks(Append(Front(sc), <<>>), kn2, i + 1)
         /\ Op(i) = "end" => Stacks(Front(sc), kn2, i + 1)
<1> DEFINE S == 1..Len(body)
           w == Within(i)
           w2 == Within(i + 1)
           front == Front(sc)
<1>1. i \in Places /\ i + 1 \in Places /\ Len(body) \in Nat /\ i \in Nat /\ i \in S
  BY NestIs DEF Places
<1>2. w \in Seq(Nat) /\ w2 \in Seq(Nat) /\ Nested(i)
  BY <1>1, NestIs, Nesting
<1>3. /\ sc \in Seq(Seq(S)) /\ Len(sc) = Len(w) + 1
      /\ \A k \in 1..Len(w) : FlattenSeq(SubSeq(sc, 1, k)) = kn[w[k]]
      /\ \A d \in 1..Len(all) : all[d] \in 1..(i - 1)
  BY DEF Stacks
<1>4. \A k \in 1..Len(w) : FlattenSeq(SubSeq(sc, 1, k)) = kn2[w[k]] /\ w[k] \in 1..(i - 1)
  BY <1>2, <1>3 DEF Nested
<1>5. i + 1 # 1 /\ i + 1 - 1 = i
  BY <1>1
<1>6. ASSUME NEW sc2, sc2 \in Seq(Seq(S)), NEW c, c = FlattenSeq(sc2), Len(sc2) = Len(w2) + 1,
             \A k \in 1..Len(w2) : FlattenSeq(SubSeq(sc2, 1, k)) = kn2[w2[k]],
             \A d \in 1..Len(c) : c[d] \in 1..i, Follows(kn2, i + 1, c)
      PROVE  Stacks(sc2, kn2, i + 1)
  BY <1>5, <1>6 DEF Stacks
<1>7. \A d \in 1..Len(all) : all[d] \in 1..i
  BY <1>1, <1>3
<1> HIDE DEF S
<1>8. all \in Seq(S)
  BY <1>3, FlattenIs
<1>9. /\ front \in Seq(Seq(S)) /\ Len(front) = Len(w) /\ Last(sc) \in Seq(S)
      /\ sc = Append(front, Last(sc)) /\ front = SubSeq(sc, 1, Len(w))
      /\ \A k \in 0..Len(w) : SubSeq(front, 1, k) = SubSeq(sc, 1, k)
  <2>1. sc # <<>> /\ Len(sc) - 1 = Len(w)
    BY <1>2, <1>3
  <2> HIDE DEF w
  <2>2. QED  BY <2>1, <1>3, FrontIs
<1>10. ASSUME w # <<>> PROVE /\ FlattenSeq(front) = kn2[Last(w)]
                            /\ \A d \in 1..Len(FlattenSeq(front)) : FlattenSeq(front)[d] \in 1..i
  <2>1. Len(w) \in Nat \ {0} /\ Last(w) = w[Len(w)]
    <3> HIDE DEF w
    <3>1. QED  BY <1>2, <1>10, FrontIs
  <2>2. Len(w) \in 1..Len(w)
    BY <2>1
  <2>3. FlattenSeq(front) = kn2[Last(w)] /\ Last(w) \in 1..(i - 1)
    BY <1>4, <1>9, <2>1, <2>2
  <2> DEFINE o == Last(w)
  <2>4. \A d \in 1..Len(kn[o]) : kn[o][d] \in 1..(o - 1)
    BY <2>3
  <2>5. kn2[o] = kn[o] /\ \A d : d \in 1..(o - 1) => d \in 1..i
    BY <1>1, <2>3
  <2> HIDE DEF o, w, front
  <2>6. \A d \in 1..Len(kn2[o]) : kn2[o][d] \in 1..i
    BY <2>4, <2>5
  <2>7. QED  BY <2>3, <2>6 DEF o
<1>11. \A sc2 : sc2 \in Seq(Seq(S)) /\ Len(sc2) = Len(w) + 1 /\ (\A k \in 1..Len(w) : SubSeq(sc2, 1, k) = SubSeq(sc, 1, k))
             => \A k \in 1..Len(w) : FlattenSeq(SubSeq(sc2, 1, k)) = kn2[w[k]]
  BY <1>4
<1>12. CASE Op(i) \notin Opening \union Closing \union {"defer"}
  <2>1. w2 = w
    BY <1>12, NestIs DEF Closing
  <2>2. Follows(kn2, i + 1, all)
    BY <1>5, <1>12 DEF Follows
  <2>3. Stacks(sc, kn2, i + 1)
    <3> HIDE DEF w, w2
    <3>1. QED  BY <1>3, <1>4, <1>6, <1>7, <2>1, <2>2
  <2>4. QED  BY <1>12, <2>3 DEF Closing
<1>13. CASE Op(i) = "defer"
  <2>1. w2 = w
    BY <1>13, NestIs DEF Opening
  <2> DEFINE last == Append(Last(sc), i)
             sc2 == Append(front, last)
  <2>2. [sc EXCEPT ![Len(sc)] = Append(@, i)] = sc2
    <3> DEFINE sc3 == [sc EXCEPT ![Len(sc)] = Append(@, i)]
    <3>1. Len(sc) \in 1..Len(sc) /\ Last(sc) = sc[Len(sc)]
      BY <1>2, <1>3 DEF Last
    <3>2. last \in Seq(S)
      BY <1>1, <1>9, AppendIs
    <3>3. sc3 \in Seq(Seq(S)) /\ Len(sc3) = Len(sc) /\ sc3[Len(sc)] = last
          /\ \A k \in 1..Len(sc) : k # Len(sc) => sc3[k] = sc[k]
      <4> HIDE DEF front
      <4> DEFINE l == last
      <4>1. l = Append(sc[Len(sc)], i) /\ l \in Seq(S)
        BY <3>1, <3>2
      <4>2. sc3 = [sc EXCEPT ![Len(sc)] = l]
        BY <4>1
      <4> HIDE DEF l, sc3
      <4>3. sc3 \in Seq(Seq(S)) /\ Len(sc3) = Len(sc) /\ sc3[Len(sc)] = l
            /\ \A k \in 1..Len(sc) : k # Len(sc) => sc3[k] = sc[k]
        <5> DEFINE T == Seq(S)
        <5>1. sc \in Seq(T) /\ l \in T
          BY <1>3, <4>1
        <5> HIDE DEF T
        <5>2. sc3 \in Seq(T) /\ Len(sc3) = Len(sc) /\ sc3[Len(sc)] = l
              /\ \A k \in 1..Len(sc) : k # Len(sc) => sc3[k] = sc[k]
          BY <3>1, <4>2, <5>1, ExceptSeq
        <5>3. QED  BY <5>2 DEF T
      <4>4. QED  BY <4>3 DEF l
    <3> HIDE DEF last
    <3>4. sc2 \in Seq(Seq(S)) /\ Len(sc2) = Len(front) + 1 /\ sc2[Len(front) + 1] = last
          /\ \A k \in 1..Len(front) : sc2[k] = front[k]
      BY <1>9, <3>2, AppendIs
    <3>5. \A k \in 1..Len(front) : front[k] = sc[k]
      <4>1. sc # <<>>
        BY <3>1
      <4>2. Len(front) = Len(sc) - 1
        BY <1>3, <1>9, <1>2
      <4>3. QED  BY <4>1, <4>2, <1>3, FrontIs
    <3> HIDE DEF sc2, sc3, front, w
    <3>6. \A k \in 1..Len(sc) : sc2[k] = sc3[k]
      <4>1. \A k \in 1..Len(sc) : k = Len(sc) \/ (k \in 1..Len(front) /\ k # Len(sc))
        BY <1>2, <1>3, <1>9
      <4>2. Len(front) + 1 = Len(sc)
        BY <1>3, <1>9
      <4>3. QED  BY <4>1, <4>2, <3>3, <3>4, <3>5
    <3>7. Len(sc2) = Len(sc3) /\ Len(sc2) = Len(sc)
      BY <3>3, <3>4, <1>3, <1>9
    <3>8. sc2 = sc3
      BY <3>3, <3>4, <3>6, <3>7, SeqEqual
    <3>9. QED  BY <3>8 DEF sc3
  <2>3. last \in Seq(S) /\ Last(sc) \in Seq(S)
    BY <1>1, <1>9, AppendIs
  <2>4. FlattenSeq(sc2) = Append(all, i)
    <3>1. all = FlattenSeq(front) \o Last(sc)
      <4> HIDE DEF front
      <4>1. all = FlattenSeq(Append(front, Last(sc)))
        BY <1>9
      <4>2. QED  BY <4>1, <1>9, FlattenAppend
    <3>2. FlattenSeq(sc2) = FlattenSeq(front) \o last
      <4> HIDE DEF front, last
      <4>1. QED  BY <1>9, <2>3, FlattenAppend
    <3> DEFINE p == FlattenSeq(front)
               q == Last(sc)
    <3>3. p \in Seq(S) /\ q \in Seq(S)
      <4> HIDE DEF front
      <4>1. QED  BY <1>9, FlattenIs
    <3> HIDE DEF p, q, front
    <3>4. p \o Append(q, i) = Append(p \o q, i)
      BY <3>3, <1>1
    <3>5. QED  BY <3>1, <3>2, <3>4 DEF p, q
  <2> DEFINE c == Append(all, i)
  <2>5. sc2 \in Seq(Seq(S)) /\ Len(sc2) = Len(w) + 1 /\ \A k \in 1..Len(w) : SubSeq(sc2, 1, k) = SubSeq(sc, 1, k)
    <3> HIDE DEF last, front, w
    <3>1. /\ sc2 \in Seq(Seq(S)) /\ Len(sc2) = Len(front) + 1
          /\ \A k \in 0..Len(front) : SubSeq(sc2, 1, k) = SubSeq(front, 1, k)
      BY <1>9, <2>3, AppendIs
    <3>2. \A k \in 1..Len(w) : k \in 0..Len(w)
      OBVIOUS
    <3> HIDE DEF sc2
    <3>3. QED  BY <3>1, <3>2, <1>9
  <2>6. \A d \in 1..Len(c) : c[d] \in 1..i
    <3>1. Len(c) = Len(all) + 1 /\ c[Len(all) + 1] = i /\ \A d \in 1..Len(all) : c[d] = all[d]
      BY <1>1, <1>8, AppendIs
    <3> HIDE DEF c
    <3>2. \A d \in 1..Len(c) : d = Len(all) + 1 \/ d \in 1..Len(all)
      BY <3>1, <1>8
    <3>3. i \in 1..i
      BY <1>1
    <3>4. QED  BY <3>1, <3>2, <3>3, <1>7
  <2>7. Follows(kn2, i + 1, c)
    BY <1>5, <1>13 DEF Follows, Closing
  <2>8. Stacks(sc2, kn2, i + 1)
    <3> HIDE DEF w, w2, sc2, c
    <3>1. FlattenSeq(sc2) = c
      BY <2>4 DEF c
    <3>2. QED  BY <1>6, <1>11, <2>1, <2>5, <2>6, <2>7, <3>1
  <2>9. QED  BY <1>13, <2>2, <2>8 DEF Opening, Closing
<1>14. CASE Op(i) \in Opening
  <2>1. w2 = Append(w, i)
    BY <1>14, NestIs
  <2>2. /\ Len(w2) = Len(w) + 1 /\ w2[Len(w) + 1] = i /\ \A k \in 1..Len(w) : w2[k] = w[k]
    <3> DEFINE a == Append(w, i)
    <3>1. Len(a) = Len(w) + 1 /\ a[Len(w) + 1] = i /\ \A k \in 1..Len(w) : a[k] = w[k]
      <4> HIDE DEF w
      <4>1. QED  BY <1>1, <1>2, AppendIs
    <3>2. w2 = a
      BY <2>1
    <3> HIDE DEF a
    <3>3. QED  BY <3>1, <3>2
  <2> DEFINE sc2 == Append(sc, <<>>)
  <2>3. FlattenSeq(sc2) = all
    <3>1. <<>> \in Seq(S)
      OBVIOUS
    <3>2. FlattenSeq(sc2) = all \o <<>>
      BY <3>1, <1>3, FlattenAppend
    <3>3. QED  BY <3>2, <1>8, ConcatEmptySeq
  <2>4. /\ sc2 \in Seq(Seq(S)) /\ Len(sc2) = Len(sc) + 1
        /\ (\A k \in 0..Len(sc) : SubSeq(sc2, 1, k) = SubSeq(sc, 1, k)) /\ SubSeq(sc2, 1, Len(sc)) = sc
    <3>1. <<>> \in Seq(S)
      OBVIOUS
    <3>2. QED  BY <3>1, <1>3, AppendIs
  <2> HIDE DEF sc2, w, w2
  <2>5. ASSUME NEW k \in 1..Len(w2) PROVE FlattenSeq(SubSeq(sc2, 1, k)) = kn2[w2[k]]
    <3>1. CASE k = Len(w) + 1
      <4>1. SubSeq(sc2, 1, k) = sc /\ w2[k] = i
        BY <3>1, <1>3, <2>2, <2>4
      <4>2. QED  BY <4>1
    <3>2. CASE k \in 1..Len(w)
      <4>1. k \in 0..Len(sc)
        BY <3>2, <1>2, <1>3
      <4>2. SubSeq(sc2, 1, k) = SubSeq(sc, 1, k) /\ w2[k] = w[k]
        BY <4>1, <3>2, <2>2, <2>4
      <4>3. QED  BY <4>2, <3>2, <1>4
    <3>3. QED  BY <3>1, <3>2, <2>2, <1>2
  <2>6. Follows(kn2, i + 1, all)
    BY <1>5, <1>14 DEF Follows, Opening, Closing
  <2>7. Stacks(sc2, kn2, i + 1)
    BY <1>3, <1>6, <1>7, <2>2, <2>3, <2>4, <2>5, <2>6
  <2>8. QED  BY <1>14, <2>7 DEF sc2, Opening, Closing
<1>15. CASE Op(i) = "else"
  <2>1. w2 = w /\ w # <<>>
    BY <1>15, NestIs DEF Closing, Opening
  <2> DEFINE sc2 == Append(front, <<>>)
             c == FlattenSeq(front)
  <2>2. c = kn2[Last(w)] /\ \A d \in 1..Len(c) : c[d] \in 1..i
    BY <1>10, <2>1
  <2> HIDE DEF front
  <2>3. FlattenSeq(sc2) = c
    <3>1. <<>> \in Seq(S)
      OBVIOUS
    <3>2. FlattenSeq(sc2) = c \o <<>>
      BY <3>1, <1>9, FlattenAppend
    <3>3. c \in Seq(S)
      BY <1>9, FlattenIs
    <3>4. QED  BY <3>2, <3>3, ConcatEmptySeq
  <2>4. sc2 \in Seq(Seq(S)) /\ Len(sc2) = Len(w) + 1 /\ \A k \in 1..Len(w) : SubSeq(sc2, 1, k) = SubSeq(sc, 1, k)
    <3> HIDE DEF w
    <3>1. /\ sc2 \in Seq(Seq(S)) /\ Len(sc2) = Len(front) + 1
          /\ \A k \in 0..Len(front) : SubSeq(sc2, 1, k) = SubSeq(front, 1, k)
      <4>1. <<>> \in Seq(S)
        OBVIOUS
      <4>2. QED  BY <1>9, <4>1, AppendIs
    <3>2. \A k \in 1..Len(w) : k \in 0..Len(w)
      OBVIOUS
    <3> HIDE DEF sc2
    <3>3. QED  BY <3>1, <3>2, <1>9
  <2> HIDE DEF c, sc2
  <2>5. Follows(kn2, i + 1, c)
    BY <1>5, <1>15, <2>2 DEF Follows, Closing
  <2>6. Stacks(sc2, kn2, i + 1)
    <3> HIDE DEF w, w2
    <3>1. QED  BY <1>6, <1>11, <2>1, <2>2, <2>3, <2>4, <2>5
  <2>7. QED  BY <1>15, <2>6 DEF sc2, front, Opening, Closing
<1>16. CASE Op(i) = "end"
  <2>1. w2 = Front(w) /\ w # <<>>
    BY <1>16, NestIs DEF Closing
  <2>2. /\ Len(w) \in Nat \ {0} /\ Len(w2) = Len(w) - 1 /\ \A k \in 1..(Len(w) - 1) : w2[k] = w[k]
    <3> HIDE DEF w, w2
    <3>1. QED  BY <2>1, <1>2, FrontIs
  <2> DEFINE c == FlattenSeq(front)
  <2>3. c = kn2[Last(w)] /\ \A d \in 1..Len(c) : c[d] \in 1..i
    BY <1>10, <2>1
  <2> HIDE DEF front, c
  <2>4. Follows(kn2, i + 1, c)
    BY <1>5, <1>16, <2>3 DEF Follows, Closing
  <2> HIDE DEF w, w2
  <2>5. \A k \in 1..Len(w2) : FlattenSeq(SubSeq(front, 1, k)) = kn2[w2[k]]
    <3>1. \A k \in 1..Len(w2) : k \in 1..Len(w) /\ k \in 0..Len(w)
      BY <2>2
    <3>2. QED  BY <3>1, <2>2, <1>4, <1>9
  <2>6. Len(front) = Len(w2) + 1
    BY <2>2, <1>9
  <2>7. Stacks(front, kn2, i + 1)
    BY <1>6, <1>9, <2>3, <2>4, <2>5, <2>6 DEF c
  <2>8. QED  BY <1>16, <2>7 DEF front, Opening, Closing
<1>17. QED  BY <1>12, <1>13, <1>14, <1>15, <1>16

\* What the checker decides depends on the body alone.
LEMMA SameCheck ==
  ASSUME body' = body
  PROVE  /\ Warned' = Warned
         /\ \A v \in BOOLEAN : Accepted(v)' = Accepted(v)
         /\ \A ops, i : Alive(ops, i)' = Alive(ops, i)
<1>1. \A i : Op(i)' = Op(i) /\ Within(i)' = Within(i)
  BY SameBody
<1>2. \A i : Around(i)' = Around(i)
  BY <1>1 DEF Around
<1>3. \A kind, open : Matches(kind, open)' = Matches(kind, open)
  BY <1>1 DEF Matches
<1>4. \A open : HasElse(open)' = HasElse(open) /\ ElseOf(open)' = ElseOf(open)
  BY <1>3 DEF HasElse, ElseOf
<1>5. \A i : StartOf(i)' = StartOf(i)
  BY <1>1, <1>4 DEF StartOf
<1>6. \A start : Block(start)' = Block(start)
  BY <1>1, <1>5 DEF Block
<1>7. \A i : ThenBlock(i)' = ThenBlock(i) /\ ElseBlock(i)' = ElseBlock(i)
  BY <1>4, <1>6 DEF ThenBlock, ElseBlock
<1>8. \A stops, i : BothBranches(stops, i)' = BothBranches(stops, i)
  BY <1>7 DEF BothBranches
<1>9. \A ops : Stops(ops)' = Stops(ops)
  <2>1. ASSUME NEW ops PROVE Stops(ops)' = Stops(ops)
    <3> DEFINE Is(stops) == stops = [i \in 1..Len(body) |-> Op(i) \in ops \/ (Op(i) = "if" /\ BothBranches(stops, i))]
    <3>1. \A stops : Is(stops)' = Is(stops)
      BY <1>1, <1>8
    <3>2. Stops(ops) = CHOOSE stops : Is(stops)
      BY DEF Stops
    <3>3. Stops(ops)' = CHOOSE stops : Is(stops)'
      BY DEF Stops
    <3> HIDE DEF Is
    <3>4. QED  BY <3>1, <3>2, <3>3
  <2>2. QED  BY <2>1
<1>10. Warned' = Warned /\ \A v \in BOOLEAN : Accepted(v)' = Accepted(v)
  BY <1>1, <1>2, <1>5, <1>6, <1>9 DEF Warned, Terminates, Accepted, BlockReturns, InsideLoop
<1>11. \A i : Before(i)' = Before(i)
  BY <1>5, <1>6 DEF Before
<1>12. \A i : Passed(i)' = Passed(i)
  BY <1>2, <1>11 DEF Passed
<1>13. \A ops, i : Alive(ops, i)' = Alive(ops, i)
  BY <1>9, <1>12 DEF Alive
<1>14. QED  BY <1>10, <1>13

LEMMA EmitWrites ==
  ASSUME TextInv, Emit
  PROVE  \E lines \in Seq(CLines) : code' = Append(code, lines) /\ Written(known', lines, next)
<1> DEFINE all == FlattenSeq(scopes)
           w == Within(next)
<1>1. /\ WellNested(body) /\ Growing /\ next \in Places /\ Accepted(isVoid)
      /\ known \in Seq(Seq(1..Len(body))) /\ Len(known) = next - 1
      /\ Stacks(scopes, known, next) /\ Marks(marks, next)
  BY DEF TextInv, Emit, Growing
<1>2. Len(body) \in Nat /\ w \in Seq(Nat) /\ next \in Nat /\ Nested(next)
  BY <1>1, NestIs, Nesting DEF Places
<1>3. /\ all \in Seq(1..Len(body)) /\ CleanupLines(1) = Undo(all, 0)
      /\ \A k \in 1..Len(w) : /\ CleanupLines(k + 1) = Undo(all, Len(known[w[k]]))
                              /\ Len(known[w[k]]) \in 0..Len(all)
  BY <1>1, EmitBefore
<1>4. Len(scopes) = Len(w) + 1
  BY <1>1 DEF Stacks
<1>5. known' = Append(known, all)
  BY DEF Emit
<1> HIDE DEF all
<1>6. known'[next] = all /\ \A j \in 1..(next - 1) : known'[j] = known[j]
  <2> DEFINE k2 == Append(known, all)
  <2>1. k2[Len(known) + 1] = all /\ \A j \in 1..Len(known) : k2[j] = known[j]
    BY <1>1, <1>3, AppendIs
  <2>2. known' = k2 /\ Len(known) + 1 = next
    BY <1>1, <1>2, <1>5
  <2> HIDE DEF k2
  <2>3. QED  BY <2>1, <2>2, <1>1
<1>7. \A k \in 1..Len(w) : known'[w[k]] = known[w[k]]
  BY <1>2, <1>6 DEF Nested
<1>8. all \in Seq(Places)
  <2>1. 1..Len(body) \subseteq Places
    BY <1>2 DEF Places
  <2>2. QED  BY <2>1, <1>3
<1>9. ASSUME NEW kept \in 0..Len(all), NEW op \in Ops PROVE Lines(all, kept, op, next) \in Seq(CLines)
  BY <1>1, <1>8, LinesIs DEF Lines
<1>10. \A op \in {"save"} \union Ops : << Line(op, next) >> \in Seq(CLines)
  <2>1. ASSUME NEW op \in {"save"} \union Ops PROVE << Line(op, next) >> \in Seq(CLines)
    <3>1. Line(op, next) \in CLines
      BY <1>1 DEF Line, CLines
    <3> HIDE DEF CLines
    <3>2. QED  BY <3>1
  <2>2. QED  BY <2>1
<1>11. 0 \in 0..Len(all)
  BY <1>3
<1>12. ASSUME EmitStatement
       PROVE  \E lines \in Seq(CLines) : code' = Append(code, lines) /\ Written(known', lines, next)
  <2>1. next \in 1..Len(body) /\ next # Len(body) + 1 /\ Op(next) \in Ops
    BY <1>12, <1>1, <1>2, NestIs DEF EmitStatement, Places
  <2>2. ASSUME EmitDo
        PROVE  \E lines \in Seq(CLines) : code' = Append(code, lines) /\ Written(known', lines, next)
    <3>1. code' = Append(code, << Line(Op(next), next) >>) /\ Op(next) \in {"do", "exit"}
      BY <2>2 DEF EmitDo, EmitLine
    <3>2. Written(known', << Line(Op(next), next) >>, next)
      BY <3>1, <2>1 DEF Written, Jumps, Closing
    <3>3. QED  BY <3>1, <3>2, <2>1, <1>10
  <2>3. ASSUME EmitDefer
        PROVE  \E lines \in Seq(CLines) : code' = Append(code, lines) /\ Written(known', lines, next)
    <3>1. code' = Append(code, << Line("save", next) >>) /\ Op(next) = "defer"
      BY <2>3 DEF EmitDefer, EmitLine
    <3>2. Written(known', << Line("save", next) >>, next)
      BY <3>1, <2>1 DEF Written, Jumps, Closing, Opening
    <3>3. QED  BY <3>1, <3>2, <1>10
  <2>4. ASSUME EmitOpen
        PROVE  \E lines \in Seq(CLines) : code' = Append(code, lines) /\ Written(known', lines, next)
    <3>1. code' = Append(code, << Line(Op(next), next) >>) /\ Op(next) \in Opening
      BY <2>4 DEF EmitOpen, EmitLine
    <3>2. Written(known', << Line(Op(next), next) >>, next)
      BY <3>1, <2>1 DEF Written, Jumps, Closing, Opening
    <3>3. QED  BY <3>1, <3>2, <2>1, <1>10
  <2>5. ASSUME Op(next) \in Closing, EmitCleanups(Len(scopes), Op(next))
        PROVE  \E lines \in Seq(CLines) : code' = Append(code, lines) /\ Written(known', lines, next)
    <3>1. w # <<>>
      BY <2>1, <2>5, <1>1, NestIs
    <3>2. Len(w) \in 1..Len(w) /\ Last(w) = w[Len(w)]
      <4> HIDE DEF w
      <4>1. Len(w) \in Nat \ {0} /\ Last(w) = w[Len(w)]
        BY <3>1, <1>2, FrontIs
      <4>2. QED  BY <4>1
    <3> DEFINE kept == Len(known[Last(w)])
    <3>3. CleanupLines(Len(scopes)) = Undo(all, kept) /\ kept \in 0..Len(all) /\ known'[Last(w)] = known[Last(w)]
      BY <3>2, <1>3, <1>4, <1>7
    <3>4. code' = Append(code, Lines(all, kept, Op(next), next))
      BY <2>5, <3>3 DEF EmitCleanups, Lines
    <3>5. Written(known', Lines(all, kept, Op(next), next), next)
      BY <2>1, <2>5, <3>3, <1>6 DEF Written, Jumps, Closing, Opening
    <3> HIDE DEF kept
    <3>6. QED  BY <3>3, <3>4, <3>5, <2>1, <1>9
  <2>6. ASSUME EmitElse
        PROVE  \E lines \in Seq(CLines) : code' = Append(code, lines) /\ Written(known', lines, next)
    <3>1. Op(next) = "else" /\ EmitCleanups(Len(scopes), Op(next)) /\ Op(next) \in Closing
      BY <2>6 DEF EmitElse, Closing
    <3>2. QED  BY <3>1, <2>5
  <2>7. ASSUME EmitEnd
        PROVE  \E lines \in Seq(CLines) : code' = Append(code, lines) /\ Written(known', lines, next)
    <3>1. Op(next) = "end" /\ EmitCleanups(Len(scopes), Op(next)) /\ Op(next) \in Closing
      BY <2>7 DEF EmitEnd, Closing
    <3>2. QED  BY <3>1, <2>5
  <2>8. ASSUME EmitJump
        PROVE  \E lines \in Seq(CLines) : code' = Append(code, lines) /\ Written(known', lines, next)
    <3>1. Op(next) \in Jumps /\ EmitCleanups(CurrentLoopMark, Op(next))
      BY <2>8 DEF EmitJump
    <3>2. \E open \in Around(next) : Op(open) = "loop"
      BY <1>1, <2>1, <3>1 DEF Accepted, InsideLoop
    <3>3. PICK loop \in 1..Len(Within(next)) : Op(Within(next)[loop]) = "loop"
      BY <1>1, <3>2, AroundIs
    <3>4. marks # <<>> /\ \E k \in 1..Len(Within(next)) : Last(marks) = k + 1 /\ Innermost(next, k)
      BY <1>1, <3>3, LastMark
    <3>5. PICK k \in 1..Len(Within(next)) : Last(marks) = k + 1 /\ Innermost(next, k)
      BY <3>4
    <3>6. CurrentLoopMark = k + 1
      BY <3>4, <3>5 DEF CurrentLoopMark
    <3> DEFINE kept == Len(known[w[k]])
    <3>7. CleanupLines(CurrentLoopMark) = Undo(all, kept) /\ kept \in 0..Len(all) /\ known'[w[k]] = known[w[k]]
      BY <3>6, <1>3, <1>7
    <3>8. code' = Append(code, Lines(all, kept, Op(next), next))
      BY <3>1, <3>7 DEF EmitCleanups, Lines
    <3>9. Written(known', Lines(all, kept, Op(next), next), next)
      <4>1. Op(next) \notin {"do", "exit", "defer", "return", "return_call"} \union Opening \union Closing
        BY <3>1 DEF Jumps, Opening, Closing
      <4>2. Innermost(next, k) /\ Lines(all, kept, Op(next), next)
                                    = Lines(known'[next], Len(known'[Within(next)[k]]), Op(next), next)
        BY <3>5, <3>7, <1>6
      <4> HIDE DEF kept, w
      <4>3. QED  BY <4>1, <4>2, <2>1 DEF Written
    <3> HIDE DEF kept
    <3>10. QED  BY <3>7, <3>8, <3>9, <2>1, <1>9
  <2>9. ASSUME EmitReturn
        PROVE  \E lines \in Seq(CLines) : code' = Append(code, lines) /\ Written(known', lines, next)
    <3>1. Op(next) \in {"return", "return_call"} /\ code' = Append(code, Lines(all, 0, Op(next), next))
      BY <2>9, <1>3 DEF EmitReturn, EmitCleanups, Lines
    <3>2. Written(known', Lines(all, 0, Op(next), next), next)
      BY <2>1, <3>1, <1>6 DEF Written, Jumps, Closing, Opening
    <3>3. QED  BY <3>1, <3>2, <2>1, <1>9, <1>11
  <2>10. QED  BY <1>12, <2>2, <2>3, <2>4, <2>6, <2>7, <2>8, <2>9 DEF EmitStatement
<1>13. ASSUME EmitBodyEnd
       PROVE  \E lines \in Seq(CLines) : code' = Append(code, lines) /\ Written(known', lines, next)
  <2>1. next = Len(body) + 1 /\ code' = Append(code, Lines(all, 0, "return", next))
    BY <1>13, <1>3 DEF EmitBodyEnd, EmitCleanups, Lines
  <2>2. Written(known', Lines(all, 0, "return", next), next)
    BY <2>1, <1>6 DEF Written
  <2>3. "return" \in Ops
    BY DEF Ops, Leaving
  <2>4. QED  BY <2>1, <2>2, <2>3, <1>9, <1>11
<1>14. QED  BY <1>12, <1>13 DEF Emit

LEMMA TextCheck == TextInv /\ Check => TextInv'
<1> SUFFICES ASSUME TextInv, Check PROVE TextInv'
  OBVIOUS
<1>1. /\ body' = body /\ isVoid' = isVoid /\ next' = next /\ scopes' = scopes /\ marks' = marks
      /\ code' = code /\ known' = known /\ warned' = Warned
      /\ phase' = IF Accepted(isVoid) THEN "emit" ELSE "rejected"
  BY DEF Check, emitVars
<1>2. Growing /\ Growing'
  BY <1>1 DEF Check, Growing
<1>3. WellNested(body)' /\ Places' = Places /\ CLines' = CLines /\ Warned' = Warned
      /\ Len(body') = Len(body)
  BY <1>1, SameBody, SameCheck DEF TextInv
<1>4. phase' # "rejected" => Accepted(isVoid)'
  <2>1. isVoid \in BOOLEAN
    BY DEF TextInv
  <2>2. Accepted(isVoid)' = Accepted(isVoid)
    BY <1>1, <2>1, SameCheck
  <2>3. QED  BY <1>1, <2>2
<1>5. next' \in Places' /\ Stacks(scopes, known, next)' /\ Marks(marks, next)'
  <2>1. next \in Places /\ Stacks(scopes, known, next) /\ Marks(marks, next)
    BY <1>2 DEF TextInv
  <2>2. Stacks(scopes', known', next) /\ Marks(marks', next)
    BY <1>1, <2>1
  <2>3. QED  BY <1>1, <1>3, <2>1, <2>2, SameText
<1>6. \A i \in 1..(next' - 1) :
        Follows(known, i, known[i])' /\ Extends(known, i, known[i])' /\ Written(known, code[i], i)'
  <2>1. \A i \in 1..(next - 1) :
          Follows(known', i, known'[i]) /\ Extends(known', i, known'[i]) /\ Written(known', code'[i], i)
    BY <1>1 DEF TextInv
  <2>2. QED  BY <1>1, <2>1, SameText
<1>7. known' \in Seq(Seq(1..Len(body'))) /\ Len(known') = next' - 1
      /\ code' \in Seq(Seq(CLines')) /\ Len(code') = next' - 1 /\ isVoid' \in BOOLEAN
  BY <1>1, <1>3 DEF TextInv
<1>8. QED  BY <1>1, <1>2, <1>3, <1>4, <1>5, <1>6, <1>7 DEF TextInv

LEMMA EmitStacks ==
  ASSUME TextInv, Emit, EmitStatement
  PROVE  next + 1 \in Places /\ Stacks(scopes', known', next + 1) /\ Marks(marks', next + 1)
<1> DEFINE all == FlattenSeq(scopes)
<1>1. /\ WellNested(body) /\ Growing /\ next \in Places
      /\ known \in Seq(Seq(1..Len(body))) /\ Len(known) = next - 1
      /\ Stacks(scopes, known, next) /\ Marks(marks, next)
      /\ \A i \in 1..(next - 1) : Extends(known, i, known[i])
  BY DEF TextInv, Emit, Growing
<1>2. Len(body) \in Nat /\ next \in 1..Len(body) /\ next + 1 \in Places
  BY <1>1, NestIs DEF EmitStatement, Places
<1>3. all \in Seq(1..Len(body)) /\ known' = Append(known, all) /\ next' = next + 1
      /\ body' = body
  BY <1>1, EmitBefore DEF Emit
<1>4. Len(scopes) = Len(Within(next)) + 1
  BY <1>1 DEF Stacks
<1> HIDE DEF all
<1>5. known'[next] = all /\ \A j \in 1..(next - 1) : known'[j] = known[j]
  <2> DEFINE k2 == Append(known, all)
  <2>1. k2[Len(known) + 1] = all /\ \A j \in 1..Len(known) : k2[j] = known[j]
    BY <1>1, <1>3, AppendIs
  <2>2. known' = k2 /\ Len(known) + 1 = next
    BY <1>1, <1>2, <1>3
  <2> HIDE DEF k2
  <2>3. QED  BY <2>1, <2>2, <1>1
<1>6. \A j \in 1..(next - 1) : \A d \in 1..Len(known[j]) : known[j][d] \in 1..(j - 1)
  BY <1>1 DEF Extends
<1>7. /\ Op(next) \notin Opening \union Closing \union {"defer"} => Stacks(scopes, known', next + 1)
      /\ Op(next) = "defer" =>
           Stacks([scopes EXCEPT ![Len(scopes)] = Append(@, next)], known', next + 1)
      /\ Op(next) \in Opening => Stacks(Append(scopes, <<>>), known', next + 1)
      /\ Op(next) = "else" => Stacks(Append(Front(scopes), <<>>), known', next + 1)
      /\ Op(next) = "end" => Stacks(Front(scopes), known', next + 1)
  BY <1>1, <1>2, <1>5, <1>6, StacksStep DEF all
<1>8. /\ Op(next) = "loop" => Marks(Append(marks, Len(Within(next)) + 2), next + 1)
      /\ Op(next) # "loop" /\ Op(next) # "end" => Marks(marks, next + 1)
      /\ Op(next) = "end" =>
           Marks(IF Op(Last(Within(next))) = "loop" THEN Front(marks) ELSE marks, next + 1)
  BY <1>1, <1>2, MarksStep
<1>9. CASE EmitDo
  BY <1>2, <1>7, <1>8, <1>9 DEF EmitDo, Opening, Closing
<1>10. CASE EmitDefer
  BY <1>2, <1>7, <1>8, <1>10 DEF EmitDefer
<1>11. CASE EmitOpen
  <2>1. PushedScope = Len(Within(next)) + 2
    <3>1. Within(next) \in Seq(Nat)
      BY <1>1, NestIs
    <3>2. QED  BY <3>1, <1>4 DEF PushedScope
  <2>2. QED  BY <1>2, <1>7, <1>8, <1>11, <2>1 DEF EmitOpen, Opening
<1>12. CASE EmitElse
  BY <1>2, <1>7, <1>8, <1>12 DEF EmitElse, Pop
<1>13. CASE EmitEnd
  BY <1>2, <1>7, <1>8, <1>13 DEF EmitEnd, Pop
<1>14. CASE EmitJump
  BY <1>2, <1>7, <1>8, <1>14 DEF EmitJump, Jumps, Opening, Closing
<1>15. CASE EmitReturn
  BY <1>2, <1>7, <1>8, <1>15 DEF EmitReturn, Opening, Closing
<1>16. QED  BY <1>9, <1>10, <1>11, <1>12, <1>13, <1>14, <1>15 DEF EmitStatement

LEMMA LastOne ==
  ASSUME NEW S, NEW s \in Seq(S), Len(s) = 1
  PROVE  Front(s) = <<>>
<1>1. s # <<>>
  OBVIOUS
<1>2. Len(Front(s)) = 0 /\ Front(s) \in Seq(S)
  BY <1>1, FrontIs
<1>3. QED  BY <1>2, EmptySeq

LEMMA NoMarks ==
  ASSUME NEW mk, NEW i, Marks(mk, i), Within(i) = <<>>
  PROVE  mk = <<>>
<1>1. mk \in Seq(Nat)
  BY DEF Marks
<1>2. {j \in 1..Len(Within(i)) : Op(Within(i)[j]) = "loop"} = {}
  OBVIOUS
<1>3. {mk[j] : j \in 1..Len(mk)} = {}
  BY <1>2 DEF Marks
<1>4. SUFFICES ASSUME Len(mk) # 0 PROVE FALSE
  BY <1>1, EmptySeq
<1>5. 1 \in 1..Len(mk)
  BY <1>1, <1>4
<1>6. mk[1] \in {mk[j] : j \in 1..Len(mk)}
  BY <1>5
<1>7. QED  BY <1>3, <1>6

LEMMA TextEmit == TextInv /\ Emit => TextInv'
<1> SUFFICES ASSUME TextInv, Emit PROVE TextInv'
  OBVIOUS
<1> DEFINE all == FlattenSeq(scopes)
<1>1. /\ body' = body /\ isVoid' = isVoid /\ warned' = warned /\ next' = next + 1
      /\ known' = Append(known, all) /\ phase = "emit"
  BY DEF Emit, checkVars
<1>2. Growing /\ WellNested(body) /\ next \in Places /\ Accepted(isVoid) /\ isVoid \in BOOLEAN
      /\ warned = Warned /\ Stacks(scopes, known, next) /\ Marks(marks, next) /\ Len(body) \in Nat
  BY <1>1, NestIs DEF TextInv, Growing
<1>3. next \in Nat /\ next' - 1 = next
  BY <1>1, <1>2 DEF Places
<1>4. PICK lines \in Seq(CLines) : code' = Append(code, lines) /\ Written(known', lines, next)
  BY EmitWrites
<1>5. /\ known' \in Seq(Seq(1..Len(body))) /\ Len(known') = next
      /\ code' \in Seq(Seq(CLines)) /\ Len(code') = next
      /\ \A i \in 1..next :
           Follows(known', i, known'[i]) /\ Extends(known', i, known'[i]) /\ Written(known', code'[i], i)
  BY <1>1, <1>2, <1>4, EmitKeeps
<1>6. WellNested(body)' /\ Places' = Places /\ CLines' = CLines /\ Warned' = Warned
      /\ Len(body') = Len(body)
  BY <1>1, <1>2, SameBody, SameCheck
<1>7. Accepted(isVoid)'
  <2>1. Accepted(isVoid)' = Accepted(isVoid)
    BY <1>1, <1>2, SameCheck
  <2>2. QED  BY <1>2, <2>1
<1>8. \A i \in 1..(next' - 1) :
        Follows(known, i, known[i])' /\ Extends(known, i, known[i])' /\ Written(known, code[i], i)'
  BY <1>1, <1>3, <1>5, SameText
<1>9. /\ known' \in Seq(Seq(1..Len(body'))) /\ Len(known') = next' - 1
      /\ code' \in Seq(Seq(CLines')) /\ Len(code') = next' - 1
  BY <1>3, <1>5, <1>6
<1>10. CASE EmitStatement
  <2>1. next' \in Places' /\ Stacks(scopes', known', next') /\ Marks(marks', next')
    BY <1>1, <1>6, <1>10, EmitStacks
  <2>2. Stacks(scopes, known, next)' /\ Marks(marks, next)'
    BY <1>1, <2>1, SameText
  <2>3. phase' = "emit"
    BY <1>1, <1>10 DEF EmitStatement
  <2>4. QED  BY <1>1, <1>2, <1>6, <1>7, <1>8, <1>9, <2>1, <2>2, <2>3 DEF TextInv, Growing
<1>11. CASE EmitBodyEnd
  <2>1. next = Len(body) + 1 /\ scopes' = Front(scopes) /\ marks' = marks /\ phase' = "run"
    BY <1>11 DEF EmitBodyEnd, Pop
  <2>2. Within(next) = <<>>
    BY <1>2, <2>1, NestIs
  <2>3. Len(scopes) = 1 /\ scopes \in Seq(Seq(1..Len(body)))
    BY <1>2, <2>2 DEF Stacks
  <2>4. scopes' = <<>>
    BY <2>1, <2>3, LastOne
  <2>5. marks' = <<>>
    BY <1>2, <2>1, <2>2, NoMarks
  <2>6. next' = Len(body) + 2
    BY <1>1, <1>2, <2>1
  <2>7. QED
    BY <1>1, <1>2, <1>6, <1>7, <1>8, <1>9, <2>1, <2>4, <2>5, <2>6 DEF TextInv, Growing
<1>12. QED  BY <1>10, <1>11 DEF Emit

LEMMA TextKept ==
  ASSUME TextInv, UNCHANGED <<body, checkVars, emitVars>>,
         phase' = phase \/ (phase = "run" /\ phase' = "done")
  PROVE  TextInv'
<1>1. /\ body' = body /\ isVoid' = isVoid /\ warned' = warned /\ next' = next /\ scopes' = scopes
      /\ marks' = marks /\ code' = code /\ known' = known
  BY DEF checkVars, emitVars
<1>2. Growing' = Growing
  BY DEF Growing
<1>3. WellNested(body)' /\ Places' = Places /\ CLines' = CLines /\ Warned' = Warned
      /\ Len(body') = Len(body)
  BY <1>1, SameBody, SameCheck DEF TextInv
<1>4. Accepted(isVoid)' = Accepted(isVoid) /\ isVoid' \in BOOLEAN
  <2>1. isVoid \in BOOLEAN
    BY DEF TextInv
  <2>2. QED  BY <1>1, <2>1, SameCheck
<1>5. Stacks(scopes, known, next)' = Stacks(scopes, known, next)
      /\ Marks(marks, next)' = Marks(marks, next)
  <2>1. Stacks(scopes, known, next)' = Stacks(scopes', known', next')
        /\ Marks(marks, next)' = Marks(marks', next')
    BY <1>1, SameText
  <2>2. QED  BY <1>1, <2>1
<1>6. \A i \in 1..(next' - 1) :
        Follows(known, i, known[i])' /\ Extends(known, i, known[i])' /\ Written(known, code[i], i)'
  <2>1. \A i \in 1..(next - 1) :
          Follows(known', i, known'[i]) /\ Extends(known', i, known'[i]) /\ Written(known', code'[i], i)
    BY <1>1 DEF TextInv
  <2>2. QED  BY <1>1, <2>1, SameText
<1>7. known' \in Seq(Seq(1..Len(body'))) /\ Len(known') = next' - 1
      /\ code' \in Seq(Seq(CLines')) /\ Len(code') = next' - 1
  BY <1>1, <1>3 DEF TextInv
<1>8. QED  BY <1>1, <1>2, <1>3, <1>4, <1>5, <1>6, <1>7 DEF TextInv

(***************************************************************************)
(* The C code.                                                              *)
(***************************************************************************)
\* The cleanups that have run in front of a statement.
Undone ==
  /\ line - 1 <= Len(output)
  /\ \A d \in 1..(line - 1) :
       /\ d <= Len(known[at])
       /\ LET cleanup == known[at][Len(known[at]) - d + 1]
          IN  output[Len(output) - (line - 1) + d] = Effect(cleanup, temps[cleanup])

RunInv ==
  /\ rounds \in 0..MaxRounds
  /\ output \in Seq([at : 1..Len(body), captured : Nat])
  /\ temps \in [1..Len(body) -> Nat]
  /\ Growing => at = 1 /\ line = 1 /\ inside = <<>> /\ rounds = 0 /\ output = <<>>
  /\ phase = "run" =>
       /\ at \in Places /\ line \in 1..Len(code[at])
       /\ inside = Within(at)
       /\ Undone
       /\ Alive(Leaving \union Jumps, at) /\ Alive(Leaving, at)
  /\ phase = "done" => at = 0 /\ line = 1 /\ inside = <<>>

\* The line of a statement itself, and how many cleanups it leaves pending.
OwnOp(i) ==
  IF i = Len(body) + 1 THEN "return" ELSE IF Op(i) = "defer" THEN "save" ELSE Op(i)

KeptAt(kn, i, kept) ==
  /\ i = Len(body) + 1 => kept = 0
  /\ i # Len(body) + 1 =>
       /\ Op(i) \in {"do", "defer", "exit"} \union Opening => kept = Len(kn[i])
       /\ Op(i) \in Closing => kept = Len(kn[Last(Within(i))])
       /\ Op(i) \in {"return", "return_call"} => kept = 0
       /\ Op(i) \in Jumps =>
            \E k \in 1..Len(Within(i)) : Innermost(i, k) /\ kept = Len(kn[Within(i)[k]])

LEMMA LineIs ==
  ASSUME NEW S, NEW cleanups \in Seq(S), NEW kept \in 0..Len(cleanups), NEW op, NEW i,
         NEW lines, lines = Lines(cleanups, kept, op, i)
  PROVE  /\ Len(lines) = Len(cleanups) - kept + 1
         /\ \A l \in 1..(Len(cleanups) - kept) :
              lines[l] = Line("cleanup", cleanups[Len(cleanups) - l + 1])
         /\ lines[Len(cleanups) - kept + 1] = Line(op, i)
         /\ kept = Len(cleanups) => lines = << Line(op, i) >>
<1> DEFINE m == Len(cleanups) - kept
           Entry(d) == Line("cleanup", cleanups[Len(cleanups) - d + 1])
           undo == Undo(cleanups, kept)
           T == {Entry(d) : d \in 1..m} \union {Line(op, i)}
<1>1. m \in Nat
  OBVIOUS
<1>2. undo = [d \in 1..m |-> Entry(d)]
  BY DEF Undo
<1>3. Line(op, i) \in T /\ \A d \in 1..m : Entry(d) \in T
  OBVIOUS
<1> HIDE DEF undo, Entry, m, T
<1>4. undo \in Seq(T) /\ Len(undo) = m /\ \A d \in 1..m : undo[d] = Entry(d)
  <2>1. [d \in 1..m |-> Entry(d)] \in Seq(T) /\ Len([d \in 1..m |-> Entry(d)]) = m
    BY <1>1, <1>3, IsASeq
  <2>2. QED  BY <1>2, <2>1
<1>5. lines = Append(undo, Line(op, i))
  BY DEF Lines, undo
<1> DEFINE own == Line(op, i)
<1>6. own \in T
  BY <1>3
<1> HIDE DEF own
<1>7. /\ Len(Append(undo, own)) = m + 1 /\ Append(undo, own)[m + 1] = own
      /\ \A d \in 1..m : Append(undo, own)[d] = Entry(d)
  BY <1>4, <1>6, AppendIs
<1>8. ASSUME m = 0 PROVE lines = << own >>
  <2>1. undo = <<>>
    BY <1>4, <1>8, EmptySeq
  <2>2. QED  BY <1>5, <2>1 DEF own
<1>9. QED  BY <1>1, <1>5, <1>7, <1>8 DEF own, Entry, m

LEMMA OwnLineIs ==
  ASSUME NEW S, NEW cleanups \in Seq(S), NEW op, NEW i
  PROVE  Lines(cleanups, Len(cleanups), op, i) = << Line(op, i) >>
<1> DEFINE ls == Lines(cleanups, Len(cleanups), op, i)
           n == Len(cleanups)
<1>1. ls = Lines(cleanups, n, op, i) /\ n \in 0..Len(cleanups) /\ n = Len(cleanups)
  OBVIOUS
<1> HIDE DEF ls, n
<1>2. ls = << Line(op, i) >>
  BY <1>1, LineIs
<1>3. QED  BY <1>2 DEF ls

LEMMA CodeIs ==
  ASSUME WellNested(body), NEW kn, kn \in Seq(Seq(1..Len(body))), Len(kn) = Len(body) + 1,
         NEW i \in Places, Extends(kn, i, kn[i]), NEW lines, Written(kn, lines, i)
  PROVE  /\ kn[i] \in Seq(1..Len(body))
         /\ \E kept \in 0..Len(kn[i]) :
              KeptAt(kn, i, kept) /\ lines = Lines(kn[i], kept, OwnOp(i), i)
<1>1. WellNested(body) /\ kn \in Seq(Seq(1..Len(body)))
  OBVIOUS
<1>2. Len(body) \in Nat
  BY <1>1, NestIs
<1>3. i \in 1..Len(kn) /\ kn[i] \in Seq(1..Len(body))
  BY <1>1, <1>2 DEF Places
<1>4. Extends(kn, i, kn[i]) /\ Written(kn, lines, i)
  OBVIOUS
<1>5. 0 \in 0..Len(kn[i]) /\ Len(kn[i]) \in 0..Len(kn[i])
  BY <1>3
<1>6. CASE i = Len(body) + 1
  BY <1>4, <1>5, <1>6, <1>3 DEF Written, KeptAt, OwnOp
<1>7. CASE i # Len(body) + 1
  <2>1. i \in 1..Len(body) /\ Op(i) \in Ops
    BY <1>1, <1>2, <1>7, NestIs DEF Places
  <2>2. CASE Op(i) \in {"do", "defer", "exit"} \union Opening
    <3> DEFINE all == kn[i]
    <3>1. Lines(all, Len(all), OwnOp(i), i) = << Line(OwnOp(i), i) >>
      <4>1. all \in Seq(1..Len(body)) /\ Len(all) \in 0..Len(all)
        BY <1>3, <1>5
      <4>2. QED  BY <4>1, OwnLineIs
    <3>2. lines = << Line(OwnOp(i), i) >>
      BY <1>4, <1>7, <2>2 DEF Written, OwnOp, Opening
    <3>3. KeptAt(kn, i, Len(all))
      BY <1>7, <2>2 DEF KeptAt, Opening, Closing, Jumps
    <3>4. QED  BY <1>3, <1>5, <3>1, <3>2, <3>3
  <2>3. CASE Op(i) \in Closing
    <3> DEFINE o == Last(Within(i))
    <3>1. o \in Around(i)
      BY <1>1, <2>1, <2>3, ClosingIs
    <3>2. PICK k \in 1..Len(Within(i)) : Within(i)[k] = o
      BY <1>1, <3>1, AroundIs
    <3>3. Len(kn[o]) <= Len(kn[i])
      BY <1>4, <3>2 DEF Extends
    <3>4. kn[o] \in Seq(1..Len(body))
      <4>1. o \in 1..Len(kn)
        BY <1>1, <1>2, <1>3, <3>1, AroundIs
      <4>2. QED  BY <1>1, <4>1
    <3>5. Len(kn[o]) \in 0..Len(kn[i])
      BY <1>3, <3>3, <3>4
    <3>6. lines = Lines(kn[i], Len(kn[o]), OwnOp(i), i)
      BY <1>4, <1>7, <2>3 DEF Written, OwnOp, Closing
    <3>7. KeptAt(kn, i, Len(kn[o]))
      BY <1>7, <2>3 DEF KeptAt, Opening, Closing, Jumps
    <3>8. QED  BY <1>3, <3>5, <3>6, <3>7
  <2>4. CASE Op(i) \in {"return", "return_call"}
    BY <1>3, <1>4, <1>5, <1>7, <2>4 DEF Written, KeptAt, OwnOp, Opening, Closing, Jumps
  <2>5. CASE Op(i) \in Jumps
    <3>1. PICK k \in 1..Len(Within(i)) :
            Innermost(i, k) /\ lines = Lines(kn[i], Len(kn[Within(i)[k]]), Op(i), i)
      BY <1>4, <1>7, <2>5 DEF Written
    <3> DEFINE o == Within(i)[k]
    <3>2. Len(kn[o]) <= Len(kn[i])
      BY <1>4 DEF Extends
    <3>3. o \in Around(i)
      BY <1>1, AroundIs
    <3>4. kn[o] \in Seq(1..Len(body))
      <4>1. o \in 1..Len(kn)
        BY <1>1, <1>2, <1>3, <3>3, AroundIs
      <4>2. QED  BY <1>1, <4>1
    <3>5. Len(kn[o]) \in 0..Len(kn[i])
      BY <1>3, <3>2, <3>4
    <3>6. OwnOp(i) = Op(i)
      BY <1>7, <2>5 DEF OwnOp, Jumps
    <3>7. KeptAt(kn, i, Len(kn[o]))
      <4>1. Op(i) \notin {"do", "defer", "exit", "return", "return_call"} \union Opening \union Closing
        BY <2>5 DEF Jumps, Opening, Closing
      <4>2. QED  BY <1>7, <3>1, <4>1 DEF KeptAt
    <3>8. QED  BY <1>3, <3>1, <3>5, <3>6, <3>7
  <2>6. QED  BY <2>1, <2>2, <2>3, <2>4, <2>5 DEF Ops, Leaving
<1>8. QED  BY <1>6, <1>7

\* What is around the statement that comes next.
LEMMA MoveIs ==
  ASSUME WellNested(body), NEW i \in 1..Len(body)
  PROVE  /\ i + 1 \in Places
         /\ Op(i) \notin Opening \union {"end"} => Within(i + 1) = Within(i)
         /\ Op(i) \in Opening =>
              /\ Within(i + 1) = Append(Within(i), i)
              /\ EndOf(i) + 1 \in Places /\ Within(EndOf(i) + 1) = Within(i)
              /\ HasElse(i) => ElseOf(i) + 1 \in Places /\ Within(ElseOf(i) + 1) = Append(Within(i), i)
         /\ \A k \in 1..Len(Within(i)) :
              /\ Within(i)[k] \in Places /\ Within(Within(i)[k]) = SubSeq(Within(i), 1, k - 1)
              /\ EndOf(Within(i)[k]) + 1 \in Places
              /\ Within(EndOf(Within(i)[k]) + 1) = SubSeq(Within(i), 1, k - 1)
         /\ Op(i) \in Closing =>
              /\ Len(Within(i)) \in 1..Len(Within(i)) /\ Last(Within(i)) = Within(i)[Len(Within(i))]
              /\ Front(Within(i)) = SubSeq(Within(i), 1, Len(Within(i)) - 1)
<1>1. Len(body) \in Nat /\ i \in Places /\ i + 1 \in Places /\ Within(i) \in Seq(Nat) /\ Nested(i)
  BY NestIs, Nesting DEF Places
<1>2. Op(i) \notin Opening \union {"end"} => Within(i + 1) = Within(i)
  BY NestIs
<1>3. ASSUME Op(i) \in Opening
      PROVE  /\ Within(i + 1) = Append(Within(i), i)
             /\ EndOf(i) + 1 \in Places /\ Within(EndOf(i) + 1) = Within(i)
  BY <1>3, NestIs, EndIs
<1>4. ASSUME HasElse(i)
      PROVE  ElseOf(i) + 1 \in Places /\ Within(ElseOf(i) + 1) = Append(Within(i), i)
  <2> DEFINE e == ElseOf(i)
  <2>1. e \in 1..Len(body) /\ Op(e) = "else" /\ Last(Within(e)) = i /\ e + 1 \in Places
        /\ Within(e + 1) = Within(e)
    BY <1>4, ElseIs
  <2>2. e \in Places
    BY <1>1, <2>1 DEF Places
  <2> HIDE DEF e
  <2>3. Within(e) # <<>> /\ Within(e) \in Seq(Nat)
    BY <2>1, <2>2, NestIs DEF Closing
  <2>4. Within(i) = Front(Within(e))
    BY <2>1, ClosingIs DEF Closing
  <2>5. Within(e) = Append(Front(Within(e)), Last(Within(e)))
    BY <2>3, FrontIs
  <2>6. QED  BY <2>1, <2>4, <2>5 DEF e
<1>5. ASSUME NEW k \in 1..Len(Within(i))
      PROVE  /\ Within(i)[k] \in Places /\ Within(Within(i)[k]) = SubSeq(Within(i), 1, k - 1)
             /\ EndOf(Within(i)[k]) + 1 \in Places
             /\ Within(EndOf(Within(i)[k]) + 1) = SubSeq(Within(i), 1, k - 1)
  <2> DEFINE o == Within(i)[k]
  <2>1. /\ o \in 1..(i - 1) /\ o <= Len(body) /\ Op(o) \in Opening
        /\ Within(o) = SubSeq(Within(i), 1, k - 1)
    BY <1>1 DEF Nested
  <2>2. o \in 1..Len(body) /\ o \in Places
    BY <1>1, <2>1 DEF Places
  <2> HIDE DEF o
  <2>3. EndOf(o) + 1 \in Places /\ Within(EndOf(o) + 1) = Within(o)
    BY <2>1, <2>2, EndIs
  <2>4. QED  BY <2>1, <2>2, <2>3 DEF o
<1>6. ASSUME Op(i) \in Closing
      PROVE  /\ Len(Within(i)) \in 1..Len(Within(i)) /\ Last(Within(i)) = Within(i)[Len(Within(i))]
             /\ Front(Within(i)) = SubSeq(Within(i), 1, Len(Within(i)) - 1)
  <2>1. Within(i) # <<>>
    BY <1>6, NestIs
  <2>2. Len(Within(i)) \in Nat \ {0} /\ Last(Within(i)) = Within(i)[Len(Within(i))]
        /\ Front(Within(i)) = SubSeq(Within(i), 1, Len(Within(i)) - 1)
    BY <1>1, <2>1, FrontIs
  <2>3. QED  BY <2>2
<1>7. QED  BY <1>1, <1>2, <1>3, <1>4, <1>5, <1>6

LEMMA RunInit == Init => RunInv
<1> SUFFICES ASSUME Init PROVE RunInv
  OBVIOUS
<1>1. /\ phase = "check" /\ at = 1 /\ line = 1 /\ inside = <<>> /\ rounds = 0 /\ output = <<>>
      /\ temps = [i \in 1..Len(body) |-> 0]
  BY DEF Init
<1>2. 0 \in 0..MaxRounds
  BY BodiesAssumption
<1>3. QED  BY <1>1, <1>2 DEF RunInv, Growing

\* The first statement comes after nothing.
LEMMA FirstIs ==
  ASSUME WellNested(body)
  PROVE  /\ 1 \in Places /\ Within(1) = <<>>
         /\ \A kn, c : Follows(kn, 1, c) => c = <<>>
         /\ \A ops : Alive(ops, 1)
<1>1. Len(body) \in Nat /\ Within(1) = <<>>
  BY NestIs
<1>2. 1 \in Places
  BY <1>1 DEF Places
<1>3. \A kn, c : Follows(kn, 1, c) => c = <<>>
  BY DEF Follows
<1>4. Around(1) = {}
  <2>1. Around(1) = {Within(1)[k] : k \in 1..Len(Within(1))}
    BY <1>1, <1>2, AroundIs
  <2>2. 1..Len(Within(1)) = {}
    BY <1>1
  <2>3. QED  BY <2>1, <2>2
<1>5. Before(1) = {}
  <2>1. ASSUME NEW j \in Before(1) PROVE FALSE
    <3>1. j \in 1..Len(body) /\ j < 1
      BY <2>1 DEF Before, Block
    <3>2. QED  BY <3>1, <1>1
  <2>2. QED  BY <2>1
<1>6. Passed(1) = {}
  BY <1>4, <1>5 DEF Passed
<1>7. \A ops : Alive(ops, 1)
  BY <1>6 DEF Alive
<1>8. QED  BY <1>1, <1>2, <1>3, <1>7

\* Every statement has a line.
LEMMA LinesThere ==
  ASSUME WellNested(body), NEW kn, kn \in Seq(Seq(1..Len(body))), Len(kn) = Len(body) + 1,
         NEW i \in Places, Extends(kn, i, kn[i]), NEW lines, Written(kn, lines, i)
  PROVE  1 \in 1..Len(lines)
<1>1. PICK kept \in 0..Len(kn[i]) : lines = Lines(kn[i], kept, OwnOp(i), i)
  BY CodeIs
<1>2. kn[i] \in Seq(1..Len(body))
  BY CodeIs
<1> DEFINE all == kn[i]
<1> HIDE DEF all
<1>3. Len(lines) = Len(all) - kept + 1
  BY <1>1, <1>2, LineIs DEF all
<1>4. QED  BY <1>1, <1>2, <1>3 DEF all

LEMMA RunEmit ==
  ASSUME TextInv, TextInv', RunInv, Check \/ Emit
  PROVE  RunInv'
<1>1. body' = body /\ at' = at /\ line' = line /\ inside' = inside /\ rounds' = rounds
      /\ temps' = temps /\ output' = output
  BY DEF Check, Emit, runVars
<1>2. Growing /\ at = 1 /\ line = 1 /\ inside = <<>> /\ rounds = 0 /\ output = <<>>
      /\ rounds \in 0..MaxRounds /\ temps \in [1..Len(body) -> Nat]
  BY DEF RunInv, Growing, Check, Emit
<1>3. phase' \in {"emit", "rejected", "run"}
  BY DEF Check, Emit, EmitStatement, EmitBodyEnd
<1>4. CASE phase' # "run"
  BY <1>1, <1>2, <1>3, <1>4 DEF RunInv, Growing
<1>5. CASE phase' = "run"
  <2>1. ~Growing' /\ phase' # "done" /\ WellNested(body)
    BY <1>5 DEF Growing, TextInv
  <2>2. /\ 1 \in Places' /\ Within(1)' = <<>>
        /\ \A ops : Alive(ops, 1)'
    BY <1>1, <2>1, FirstIs, SameBody, SameCheck
  <2>3. next' - 1 = Len(body) + 1 /\ 1 \in 1..(next' - 1)
    BY <1>1, <2>1, NestIs DEF TextInv
  <2>4. /\ known' \in Seq(Seq(1..Len(body))) /\ Len(known') = Len(body) + 1
        /\ Extends(known', 1, known'[1]) /\ Written(known', code'[1], 1)
    <3>1. Extends(known, 1, known[1])' /\ Written(known, code[1], 1)'
      BY <2>3 DEF TextInv
    <3>2. QED  BY <1>1, <2>3, <3>1, SameText DEF TextInv
  <2>5. 1 \in 1..Len(code'[1])
    <3>1. 1 \in Places
      BY <2>1, FirstIs
    <3>2. QED  BY <2>1, <2>4, <3>1, LinesThere
  <2>6. QED
    BY <1>1, <1>2, <1>5, <2>1, <2>2, <2>5 DEF RunInv, Undone
<1>6. QED  BY <1>4, <1>5

\* The lines of the statement that runs.
LEMMA CLineIs ==
  ASSUME TextInv, RunInv, phase = "run"
  PROVE  /\ WellNested(body) /\ at \in Places /\ known[at] \in Seq(1..Len(body)) /\ line \in Nat \ {0}
         /\ Follows(known, at, known[at]) /\ Extends(known, at, known[at])
         /\ OwnOp(at) \in ({"save"} \union Ops) \ {"defer"}
         /\ \E kept \in 0..Len(known[at]) :
              /\ KeptAt(known, at, kept) /\ Len(code[at]) = Len(known[at]) - kept + 1
              /\ line <= Len(code[at])
              /\ line < Len(code[at]) => CLine = Line("cleanup", known[at][Len(known[at]) - line + 1])
              /\ line = Len(code[at]) => CLine = Line(OwnOp(at), at)
<1>1. /\ WellNested(body) /\ at \in Places /\ line \in 1..Len(code[at]) /\ ~Growing
      /\ known \in Seq(Seq(1..Len(body))) /\ Len(known) = next - 1 /\ next = Len(body) + 2
  BY DEF TextInv, RunInv, Growing
<1>2. Len(body) \in Nat /\ Len(known) = Len(body) + 1 /\ at \in 1..(next - 1)
  BY <1>1, NestIs DEF Places
<1>3. Follows(known, at, known[at]) /\ Extends(known, at, known[at]) /\ Written(known, code[at], at)
  BY <1>2 DEF TextInv
<1>4. PICK kept \in 0..Len(known[at]) :
        KeptAt(known, at, kept) /\ code[at] = Lines(known[at], kept, OwnOp(at), at)
  BY <1>1, <1>2, <1>3, CodeIs
<1>5. known[at] \in Seq(1..Len(body))
  BY <1>1, <1>2
<1>6. OwnOp(at) \in ({"save"} \union Ops) \ {"defer"}
  <2>1. at # Len(body) + 1 => at \in 1..Len(body)
    BY <1>1, <1>2 DEF Places
  <2>2. at # Len(body) + 1 => Op(at) \in Ops
    BY <1>1, <2>1, NestIs
  <2>3. "return" \in Ops
    BY DEF Ops, Leaving
  <2>4. QED  BY <2>2, <2>3 DEF OwnOp
<1> DEFINE all == known[at]
           ls == code[at]
           own == OwnOp(at)
<1>7. all \in Seq(1..Len(body)) /\ kept \in 0..Len(all) /\ ls = Lines(all, kept, own, at) /\ CLine = ls[line]
      /\ line \in 1..Len(ls)
  BY <1>1, <1>4, <1>5 DEF CLine
<1> HIDE DEF all, ls, own
<1>8. /\ Len(ls) = Len(all) - kept + 1
      /\ \A l \in 1..(Len(all) - kept) : ls[l] = Line("cleanup", all[Len(all) - l + 1])
      /\ ls[Len(all) - kept + 1] = Line(own, at)
  BY <1>7, LineIs
<1>9. Len(all) \in Nat /\ line \in Nat \ {0} /\ line <= Len(ls)
  <2>1. Len(all) \in Nat
    BY <1>7
  <2>2. Len(ls) \in Nat
    BY <1>8, <2>1
  <2>3. QED  BY <1>7, <2>1, <2>2
<1>10. line < Len(ls) => CLine = Line("cleanup", all[Len(all) - line + 1])
  <2>1. ASSUME line < Len(ls) PROVE line \in 1..(Len(all) - kept)
    BY <1>8, <1>9, <2>1
  <2>2. QED  BY <1>7, <1>8, <2>1
<1>11. line = Len(ls) => CLine = Line(own, at)
  BY <1>7, <1>8
<1>12. QED
  BY <1>1, <1>3, <1>4, <1>5, <1>6, <1>8, <1>9, <1>10, <1>11 DEF all, ls, own

\* Which statement a line that is not a cleanup belongs to.
LEMMA OwnLine ==
  ASSUME TextInv, RunInv, phase = "run"
  PROVE  /\ CLine.op = "cleanup" <=> line < Len(code[at])
         /\ CLine.op # "cleanup" => line = Len(code[at]) /\ CLine = Line(OwnOp(at), at)
         /\ CLine.op = "save" => at \in 1..Len(body) /\ Op(at) = "defer"
         /\ CLine.op \in Ops => at = Len(body) + 1 \/ (at \in 1..Len(body) /\ Op(at) = CLine.op)
         /\ at = Len(body) + 1 /\ CLine.op # "cleanup" => CLine.op = "return"
<1>1. PICK kept \in 0..Len(known[at]) :
        /\ Len(code[at]) = Len(known[at]) - kept + 1 /\ line <= Len(code[at])
        /\ line < Len(code[at]) => CLine = Line("cleanup", known[at][Len(known[at]) - line + 1])
        /\ line = Len(code[at]) => CLine = Line(OwnOp(at), at)
  BY CLineIs
<1>2. /\ WellNested(body) /\ at \in Places /\ line \in Nat \ {0} /\ known[at] \in Seq(1..Len(body))
      /\ OwnOp(at) \in ({"save"} \union Ops) \ {"defer"}
  BY CLineIs
<1>3. Len(code[at]) \in Nat
  BY <1>1, <1>2
<1>4. "cleanup" \notin {"save"} \union Ops
  BY DEF Ops, Leaving, Jumps, Opening, Closing
<1>5. Line("cleanup", known[at][Len(known[at]) - line + 1]).op = "cleanup" /\ Line(OwnOp(at), at).op = OwnOp(at)
  BY DEF Line
<1>6. line < Len(code[at]) \/ line = Len(code[at])
  BY <1>1, <1>2, <1>3
<1>7. line = Len(code[at]) => ~(line < Len(code[at]))
  BY <1>3
<1>8. CLine.op = "cleanup" <=> line < Len(code[at])
  BY <1>1, <1>2, <1>4, <1>5, <1>6, <1>7
<1>9. CLine.op # "cleanup" => line = Len(code[at]) /\ CLine = Line(OwnOp(at), at)
  BY <1>1, <1>6, <1>8
<1>10. at \in 1..Len(body) \/ at = Len(body) + 1
  <2>1. Len(body) \in Nat
    BY <1>2, NestIs
  <2>2. at \in Places
    BY <1>2
  <2>3. QED  BY <2>1, <2>2 DEF Places
<1>11. CLine.op = "save" => at \in 1..Len(body) /\ Op(at) = "defer"
  <2>1. ASSUME CLine.op = "save" PROVE at \in 1..Len(body) /\ Op(at) = "defer"
    <3>1. OwnOp(at) = "save"
      BY <2>1, <1>5, <1>9
    <3>2. at # Len(body) + 1
      BY <3>1 DEF OwnOp
    <3>3. Op(at) \in Ops
      BY <3>2, <1>2, <1>10, NestIs
    <3>4. "save" \notin Ops
      BY DEF Ops, Leaving, Jumps, Opening, Closing
    <3>5. QED  BY <3>1, <3>2, <3>3, <3>4, <1>10 DEF OwnOp
  <2>2. QED  BY <2>1
<1>12. CLine.op \in Ops => at = Len(body) + 1 \/ (at \in 1..Len(body) /\ Op(at) = CLine.op)
  <2>1. ASSUME CLine.op \in Ops, at # Len(body) + 1 PROVE at \in 1..Len(body) /\ Op(at) = CLine.op
    <3>1. OwnOp(at) = CLine.op
      BY <2>1, <1>4, <1>5, <1>9
    <3>2. "save" \notin Ops
      BY DEF Ops, Leaving, Jumps, Opening, Closing
    <3>3. QED  BY <2>1, <3>1, <3>2, <1>10 DEF OwnOp
  <2>2. QED  BY <2>1
<1>13. at = Len(body) + 1 /\ CLine.op # "cleanup" => CLine.op = "return"
  BY <1>5, <1>9 DEF OwnOp
<1>14. QED  BY <1>8, <1>9, <1>11, <1>12, <1>13

\* Another statement is reached.
LEMMA Arrive ==
  ASSUME TextInv, RunInv, phase = "run", UNCHANGED <<body, phase, code, known>>,
         at \in 1..Len(body), at' \in Places, Move(at, at'), line' = 1, inside' = Within(at'),
         rounds' \in 0..MaxRounds, output' \in Seq([at : 1..Len(body), captured : Nat]),
         temps' \in [1..Len(body) -> Nat]
  PROVE  RunInv'
<1>1. body' = body /\ phase' = "run" /\ code' = code /\ known' = known /\ WellNested(body)
      /\ Alive(Leaving \union Jumps, at) /\ Alive(Leaving, at)
  BY DEF TextInv, RunInv
<1> DEFINE j == at'
<1>2. Alive(Leaving \union Jumps, j) /\ Alive(Leaving, j)
  <2>1. Move(at, j) /\ Leaving \subseteq Leaving \union Jumps
    OBVIOUS
  <2> HIDE DEF j
  <2>2. Alive(Leaving \union Jumps, j)
    BY <1>1, <2>1, AliveMoves
  <2>3. Alive(Leaving, j)
    BY <1>1, <2>1, AliveMoves
  <2>4. QED  BY <2>2, <2>3
<1>3. Alive(Leaving \union Jumps, at)' /\ Alive(Leaving, at)'
  BY <1>1, <1>2, SameCheck
<1>4. at' \in Places' /\ inside' = Within(at)'
  BY <1>1, SameBody
<1>5. 1 \in 1..Len(code'[at'])
  <2>1. /\ known \in Seq(Seq(1..Len(body))) /\ Len(known) = next - 1 /\ next = Len(body) + 2
        /\ \A i \in 1..(next - 1) : Extends(known, i, known[i]) /\ Written(known, code[i], i)
    BY DEF TextInv, Growing
  <2>2. Len(body) \in Nat
    BY <1>1, NestIs
  <2>3. j \in Places /\ j \in 1..(next - 1) /\ Len(known) = Len(body) + 1
    BY <2>1, <2>2 DEF Places
  <2> HIDE DEF j
  <2>4. Extends(known, j, known[j]) /\ Written(known, code[j], j)
    BY <2>1, <2>3
  <2>5. 1 \in 1..Len(code[j])
    BY <1>1, <2>1, <2>3, <2>4, LinesThere
  <2>6. QED  BY <1>1, <2>5 DEF j
<1>6. Undone'
  <2>1. line' - 1 = 0 /\ Len(output') \in Nat /\ 1..(line' - 1) = {}
    <3>1. line' - 1 = 0
      OBVIOUS
    <3>2. Len(output') \in Nat
      <4> DEFINE o == output'
                 T == [at : 1..Len(body), captured : Nat]
      <4>1. o \in Seq(T)
        OBVIOUS
      <4> HIDE DEF o, T
      <4>2. Len(o) \in Nat
        BY <4>1
      <4>3. QED  BY <4>2 DEF o
    <3>3. 1..(line' - 1) = {}
      BY <3>1
    <3>4. QED  BY <3>1, <3>2, <3>3
  <2>2. line' - 1 <= Len(output')
    BY <2>1
  <2>3. QED  BY <2>1, <2>2 DEF Undone
<1>7. ~Growing' /\ phase' # "done"
  BY <1>1 DEF Growing
<1>8. QED  BY <1>1, <1>3, <1>4, <1>5, <1>6, <1>7 DEF RunInv

LEMMA EffectIs ==
  ASSUME NEW T, T = [at : 1..Len(body), captured : Nat], NEW i \in 1..Len(body), NEW n \in Nat
  PROVE  Effect(i, n) \in T
BY DEF Effect

LEMMA RunCleanup ==
  ASSUME TextInv, RunInv, phase = "run", CCleanup, UNCHANGED <<body, code, known>>
  PROVE  /\ RunInv'
         /\ line' = line + 1 /\ at' = at /\ line < Len(code[at])
         /\ \E effect \in [at : 1..Len(body), captured : Nat] : output' = Append(output, effect)
<1>1. /\ CLine.op = "cleanup" /\ output' = Append(output, Effect(CLine.at, temps[CLine.at]))
      /\ line' = line + 1 /\ phase' = phase /\ at' = at /\ inside' = inside /\ rounds' = rounds
      /\ temps' = temps /\ body' = body /\ code' = code /\ known' = known
  BY DEF CCleanup
<1>2. line < Len(code[at])
  BY <1>1, OwnLine
<1>3. /\ rounds \in 0..MaxRounds /\ temps \in [1..Len(body) -> Nat] /\ at \in Places
      /\ output \in Seq([at : 1..Len(body), captured : Nat]) /\ inside = Within(at)
      /\ Undone /\ Alive(Leaving \union Jumps, at) /\ Alive(Leaving, at) /\ line \in 1..Len(code[at])
  BY DEF RunInv
<1> DEFINE all == known[at]
           n == Len(known[at])
           T == [at : 1..Len(body), captured : Nat]
           cleanup == all[n - line + 1]
           effect == Effect(cleanup, temps[cleanup])
<1>4. PICK kept \in 0..n : Len(code[at]) = n - kept + 1 /\ CLine = Line("cleanup", cleanup)
  BY <1>2, CLineIs
<1>5. all \in Seq(1..Len(body)) /\ line \in Nat \ {0} /\ n \in Nat
  BY CLineIs
<1>6. line <= n /\ n - line + 1 \in 1..n
  BY <1>2, <1>4, <1>5
<1>7. cleanup \in 1..Len(body)
  BY <1>5, <1>6
<1>8. effect \in T /\ output' = Append(output, effect)
  <2>1. CLine.at = cleanup
    BY <1>4 DEF Line
  <2>2. temps[cleanup] \in Nat
    BY <1>3, <1>7
  <2>3. effect \in T
    <3> HIDE DEF cleanup
    <3>1. QED  BY <1>7, <2>2, EffectIs
  <2>4. QED  BY <1>1, <2>1, <2>3
<1>9. /\ output' \in Seq(T) /\ Len(output') = Len(output) + 1 /\ output'[Len(output) + 1] = effect
      /\ (\A d \in 1..Len(output) : output'[d] = output[d]) /\ Len(output) \in Nat
  <2> DEFINE a == Append(output, effect)
  <2>1. output \in Seq(T) /\ effect \in T
    BY <1>3, <1>8
  <2> HIDE DEF T, effect
  <2>2. /\ a \in Seq(T) /\ Len(a) = Len(output) + 1 /\ a[Len(output) + 1] = effect
        /\ (\A d \in 1..Len(output) : a[d] = output[d]) /\ Len(output) \in Nat
    BY <2>1, AppendIs
  <2>3. output' = a
    BY <1>8
  <2> HIDE DEF a
  <2>4. QED  BY <2>2, <2>3
<1>10. Undone'
  <2> DEFINE At(d) == all[n - d + 1]
  <2>1. /\ line - 1 <= Len(output)
        /\ \A d \in 1..(line - 1) :
             d <= n /\ output[Len(output) - (line - 1) + d] = Effect(At(d), temps[At(d)])
    BY <1>3 DEF Undone
  <2> HIDE DEF effect, T, all, n
  <2>2. line' - 1 <= Len(output')
    BY <1>1, <1>5, <1>9, <2>1
  <2>3. ASSUME NEW d \in 1..(line' - 1)
        PROVE  d <= n /\ output'[Len(output') - (line' - 1) + d] = Effect(At(d), temps[At(d)])
    <3>1. d \in Nat /\ d <= line /\ d >= 1 /\ line' - 1 = line
      BY <1>1, <1>5
    <3>2. CASE d = line
      <4>1. Len(output') - (line' - 1) + d = Len(output) + 1
        BY <3>1, <3>2, <1>9, <1>5
      <4>2. QED  BY <3>2, <4>1, <1>6, <1>9 DEF effect, cleanup
    <3>3. CASE d # line
      <4>1. d \in 1..(line - 1)
        BY <3>1, <3>3, <1>5
      <4>2. Len(output') - (line' - 1) + d = Len(output) - (line - 1) + d
        BY <3>1, <1>9, <1>5
      <4>3. Len(output) - (line - 1) + d \in 1..Len(output)
        BY <4>1, <2>1, <1>9, <1>5
      <4>4. QED  BY <4>1, <4>2, <4>3, <2>1, <1>9
    <3>4. QED  BY <3>2, <3>3
  <2>4. known'[at'] = all /\ temps' = temps
    BY <1>1 DEF all
  <2> HIDE DEF At
  <2>5. \A d \in 1..(line' - 1) :
          /\ d <= Len(known'[at'])
          /\ output'[Len(output') - (line' - 1) + d] = Effect(At(d), temps'[At(d)])
          /\ At(d) = known'[at'][Len(known'[at']) - d + 1]
    BY <2>3, <2>4 DEF n, At, all
  <2>6. QED  BY <2>2, <2>5 DEF Undone
<1>11. Alive(Leaving \union Jumps, at)' /\ Alive(Leaving, at)'
  BY <1>1, <1>3, SameCheck
<1>12. at' \in Places' /\ inside' = Within(at)'
  BY <1>1, <1>3, SameBody
<1>13. line' \in 1..Len(code'[at'])
  BY <1>1, <1>2, <1>3, <1>5
<1>14. ~Growing' /\ phase' = "run"
  BY <1>1 DEF Growing
<1>15. RunInv'
  BY <1>1, <1>3, <1>9, <1>10, <1>11, <1>12, <1>13, <1>14 DEF RunInv
<1>16. QED  BY <1>1, <1>2, <1>8, <1>15

LEMMA RunMove ==
  ASSUME TextInv, RunInv, phase = "run", UNCHANGED <<body, code, known>>,
         CDo \/ CSave \/ CEnter \/ CEnterElse \/ CSkip \/ CExit \/ CJump
  PROVE  RunInv' /\ at \in 1..Len(body) /\ line = Len(code[at]) /\ line' = 1 /\ at' # 0 /\ phase' = phase
<1>1. /\ rounds \in 0..MaxRounds /\ temps \in [1..Len(body) -> Nat] /\ at \in Places
      /\ output \in Seq([at : 1..Len(body), captured : Nat]) /\ inside = Within(at) /\ WellNested(body)
      /\ Len(body) \in Nat
  BY NestIs DEF RunInv, TextInv
<1> DEFINE w == Within(at)
           T == [at : 1..Len(body), captured : Nat]
<1>2. w \in Seq(Nat) /\ MaxRounds \in Nat
  BY <1>1, NestIs, BodiesAssumption
<1>3. ASSUME at \in 1..Len(body), at' \in Places, Move(at, at'), line' = 1, inside' = Within(at'), phase' = phase,
             CLine.op # "cleanup",
             rounds' \in 0..MaxRounds, output' \in Seq(T), temps' \in [1..Len(body) -> Nat]
      PROVE  RunInv' /\ at \in 1..Len(body) /\ line = Len(code[at]) /\ line' = 1 /\ at' # 0 /\ phase' = phase
  <2>1. RunInv'
    BY <1>3, Arrive
  <2>2. line = Len(code[at])
    BY <1>3, OwnLine
  <2>3. at' # 0
    BY <1>3 DEF Places
  <2>4. QED  BY <1>3, <2>1, <2>2, <2>3
<1>4. \A op \in Ops \ {"return"} : CLine.op = op =>
        at \in 1..Len(body) /\ Op(at) = op /\ op # "cleanup"
  <2>1. "cleanup" \notin Ops
    BY DEF Ops, Leaving, Jumps, Opening, Closing
  <2>2. QED  BY <2>1, OwnLine
<1>5. CASE CDo
  <2>1. CLine.op = "do" /\ at' = at + 1 /\ line' = 1 /\ output' = Append(output, Effect(at, 0))
        /\ phase' = phase /\ inside' = inside /\ rounds' = rounds /\ temps' = temps
    BY <1>5 DEF CDo, Goto
  <2>2. at \in 1..Len(body) /\ Op(at) = "do"
    BY <1>4, <2>1 DEF Ops
  <2>3. at' \in Places /\ Within(at') = w
    BY <1>1, <2>1, <2>2, MoveIs DEF Opening
  <2>4. Move(at, at')
    BY <2>1, <2>2 DEF Move
  <2>5. output' \in Seq(T)
    <3> DEFINE e == Effect(at, 0)
    <3>1. e \in T
      BY <2>2, EffectIs
    <3> HIDE DEF e, T
    <3>2. output \in Seq(T)
      BY <1>1 DEF T
    <3>3. Append(output, e) \in Seq(T)
      BY <3>1, <3>2, AppendIs
    <3>4. QED  BY <2>1, <3>3 DEF e
  <2> HIDE DEF T
  <2>6. QED  BY <1>1, <1>3, <2>1, <2>2, <2>3, <2>4, <2>5
<1>6. CASE CSave
  <2>1. CLine.op = "save" /\ at' = at + 1 /\ line' = 1 /\ temps' = [temps EXCEPT ![at] = Len(output)]
        /\ phase' = phase /\ inside' = inside /\ rounds' = rounds /\ output' = output
    BY <1>6 DEF CSave, Goto
  <2>2. at \in 1..Len(body) /\ Op(at) = "defer"
    BY <2>1, OwnLine
  <2>3. at' \in Places /\ Within(at') = w
    BY <1>1, <2>1, <2>2, MoveIs DEF Opening
  <2>4. Move(at, at')
    BY <2>1, <2>2 DEF Move
  <2>5. temps' \in [1..Len(body) -> Nat]
    <3>1. Len(output) \in Nat
      <4> HIDE DEF T
      <4>1. output \in Seq(T)
        BY <1>1 DEF T
      <4>2. QED  BY <4>1
    <3>2. QED  BY <1>1, <2>1, <2>2, <3>1
  <2>6. QED  BY <1>1, <1>3, <2>1, <2>2, <2>3, <2>4, <2>5
<1>7. CASE CEnter
  <2>1. CLine.op \in Opening /\ at' = at + 1 /\ line' = 1 /\ rounds < MaxRounds /\ rounds' = rounds + 1
        /\ inside' = Append(inside, at) /\ phase' = phase /\ temps' = temps /\ output' = output
    BY <1>7 DEF CEnter, Goto
  <2>2. at \in 1..Len(body) /\ Op(at) \in Opening /\ CLine.op # "cleanup"
    BY <1>4, <2>1 DEF Ops, Opening
  <2>3. at' \in Places /\ Within(at') = Append(w, at)
    BY <1>1, <2>1, <2>2, MoveIs
  <2>4. Move(at, at')
    BY <2>1, <2>2 DEF Move
  <2>5. rounds' \in 0..MaxRounds
    BY <1>1, <1>2, <2>1
  <2>6. QED  BY <1>1, <1>3, <2>1, <2>2, <2>3, <2>4, <2>5
<1>8. CASE CEnterElse
  <2>1. CLine.op = "if" /\ HasElse(at) /\ at' = ElseOf(at) + 1 /\ line' = 1 /\ rounds' = rounds
        /\ inside' = Append(inside, at) /\ phase' = phase /\ temps' = temps /\ output' = output
    BY <1>8 DEF CEnterElse, Goto
  <2>2. at \in 1..Len(body) /\ Op(at) = "if" /\ CLine.op # "cleanup"
    BY <1>4, <2>1 DEF Ops, Opening
  <2>3. at' \in Places /\ Within(at') = Append(w, at)
    BY <1>1, <2>1, <2>2, MoveIs DEF Opening
  <2>4. Move(at, at')
    BY <2>1, <2>2 DEF Move
  <2>5. QED  BY <1>1, <1>3, <2>1, <2>2, <2>3, <2>4
<1>9. CASE CSkip
  <2>1. CLine.op \in Opening /\ ~HasElse(at) /\ at' = EndOf(at) + 1 /\ line' = 1 /\ rounds' = rounds
        /\ inside' = inside /\ phase' = phase /\ temps' = temps /\ output' = output
    BY <1>9 DEF CSkip, Goto
  <2>2. at \in 1..Len(body) /\ Op(at) \in Opening /\ CLine.op # "cleanup"
    BY <1>4, <2>1 DEF Ops, Opening
  <2>3. at' \in Places /\ Within(at') = w
    BY <1>1, <2>1, <2>2, MoveIs
  <2>4. Move(at, at')
    BY <2>1, <2>2 DEF Move
  <2>5. QED  BY <1>1, <1>3, <2>1, <2>2, <2>3, <2>4
<1>10. CASE CExit
  <2> DEFINE o == Last(w)
  <2>1. CLine.op \in Closing /\ at' = (IF Op(o) = "loop" THEN o ELSE EndOf(o) + 1) /\ line' = 1 /\ rounds' = rounds
        /\ inside' = Front(w) /\ phase' = phase /\ temps' = temps /\ output' = output
    BY <1>1, <1>10 DEF CExit, Goto
  <2>2. at \in 1..Len(body) /\ Op(at) \in Closing /\ CLine.op # "cleanup"
    BY <1>4, <2>1 DEF Ops, Closing
  <2>3. /\ Len(w) \in 1..Len(w) /\ o = w[Len(w)] /\ Front(w) = SubSeq(w, 1, Len(w) - 1)
    BY <1>1, <2>2, MoveIs
  <2>4. o \in Places /\ Within(o) = Front(w) /\ EndOf(o) + 1 \in Places /\ Within(EndOf(o) + 1) = Front(w)
    <3>1. PICK k \in 1..Len(w) : k = Len(w)
      BY <2>3
    <3>2. /\ w[k] \in Places /\ Within(w[k]) = SubSeq(w, 1, k - 1)
          /\ EndOf(w[k]) + 1 \in Places /\ Within(EndOf(w[k]) + 1) = SubSeq(w, 1, k - 1)
      BY <1>1, <2>2, MoveIs
    <3> HIDE DEF w
    <3>3. QED  BY <2>3, <3>1, <3>2
  <2>5. Move(at, at')
    BY <2>1, <2>2 DEF Move
  <2>6. at' \in Places /\ inside' = Within(at')
    BY <2>1, <2>4
  <2>7. QED  BY <1>1, <1>3, <2>1, <2>2, <2>5, <2>6
<1>11. CASE CJump
  <2>1. PICK i \in 1..Len(w) :
          /\ Op(w[i]) = "loop" /\ CLine.op \in Jumps
          /\ at' \in {w[i], EndOf(w[i]) + 1} /\ line' = 1
          /\ inside' = SubSeq(w, 1, i - 1)
          /\ phase' = phase /\ rounds' = rounds /\ temps' = temps /\ output' = output
    <3>1. PICK i \in 1..Len(inside) :
            /\ CInLoop(i)
            /\ \/ CLine.op = "break" /\ Goto(EndOf(inside[i]) + 1)
               \/ CLine.op = "continue" /\ Goto(inside[i])
            /\ inside' = SubSeq(inside, 1, i - 1)
            /\ UNCHANGED <<phase, rounds, temps, output>>
      BY <1>11 DEF CJump
    <3>2. QED  BY <3>1, <1>1 DEF CInLoop, Goto, Jumps
  <2>2. at \in 1..Len(body) /\ Op(at) \in Jumps /\ CLine.op # "cleanup"
    BY <1>4, <2>1 DEF Ops, Jumps
  <2>3. /\ w[i] \in Places /\ Within(w[i]) = SubSeq(w, 1, i - 1)
        /\ EndOf(w[i]) + 1 \in Places /\ Within(EndOf(w[i]) + 1) = SubSeq(w, 1, i - 1)
    BY <1>1, <2>2, MoveIs
  <2>4. Move(at, at')
    <3>1. w[i] \in Around(at)
      BY <1>1, AroundIs
    <3>2. QED  BY <3>1, <2>1 DEF Move
  <2>5. at' \in Places /\ inside' = Within(at')
    BY <2>1, <2>3
  <2>6. QED  BY <1>1, <1>3, <2>1, <2>2, <2>4, <2>5
<1>12. QED  BY <1>5, <1>6, <1>7, <1>8, <1>9, <1>10, <1>11

LEMMA RunReturn ==
  ASSUME TextInv, RunInv, phase = "run", UNCHANGED <<body, code, known>>, CReturn
  PROVE  /\ RunInv' /\ line = Len(code[at]) /\ CLine.op \in Leaving
         /\ at = Len(body) + 1 \/ (at \in 1..Len(body) /\ Op(at) = CLine.op)
<1>1. /\ CLine.op \in Leaving /\ at' = 0 /\ line' = 1 /\ inside' = <<>> /\ phase' = "done"
      /\ rounds' = rounds /\ temps' = temps /\ body' = body
      /\ output' = IF CLine.op = "return_call" THEN Append(output, Effect(at, 0)) ELSE output
  BY DEF CReturn, Goto
<1>2. line = Len(code[at]) /\ (at = Len(body) + 1 \/ (at \in 1..Len(body) /\ Op(at) = CLine.op))
      /\ (at = Len(body) + 1 => CLine.op = "return")
  <2>1. CLine.op \in Ops /\ CLine.op # "cleanup"
    BY <1>1 DEF Ops, Leaving
  <2>2. QED  BY <2>1, OwnLine
<1> DEFINE T == [at : 1..Len(body), captured : Nat]
<1>3. output \in Seq(T) /\ rounds \in 0..MaxRounds /\ temps \in [1..Len(body) -> Nat]
  BY DEF RunInv
<1>4. output' \in Seq(T)
  <2>1. CASE CLine.op = "return_call"
    <3> DEFINE e == Effect(at, 0)
    <3>1. e \in T
      <4>1. at \in 1..Len(body)
        BY <1>2, <2>1
      <4>2. QED  BY <4>1, EffectIs
    <3> HIDE DEF e, T
    <3>2. Append(output, e) \in Seq(T)
      BY <1>3, <3>1, AppendIs
    <3>3. QED  BY <1>1, <2>1, <3>2 DEF e
  <2>2. CASE CLine.op # "return_call"
    BY <1>1, <1>3, <2>2
  <2>3. QED  BY <2>1, <2>2
<1>5. ~Growing'
  BY <1>1 DEF Growing
<1>6. RunInv'
  BY <1>1, <1>3, <1>4, <1>5 DEF RunInv
<1>7. QED  BY <1>1, <1>2, <1>6

LEMMA RunKeeps ==
  ASSUME TextInv, RunInv, UNCHANGED vars
  PROVE  RunInv'
<1>1. /\ body' = body /\ phase' = phase /\ code' = code /\ known' = known /\ at' = at /\ line' = line
      /\ inside' = inside /\ rounds' = rounds /\ temps' = temps /\ output' = output
  BY DEF vars, emitVars, runVars
<1>2. Growing' = Growing /\ Undone' = Undone
  BY <1>1 DEF Growing, Undone
<1>3. Places' = Places /\ Within(at)' = Within(at)
  BY <1>1, SameBody
<1>4. Alive(Leaving \union Jumps, at)' = Alive(Leaving \union Jumps, at)
      /\ Alive(Leaving, at)' = Alive(Leaving, at)
  BY <1>1, SameCheck
<1>5. QED  BY <1>1, <1>2, <1>3, <1>4 DEF RunInv

LEMMA InvStep == TextInv /\ RunInv /\ [Next]_vars => TextInv' /\ RunInv'
<1> SUFFICES ASSUME TextInv, RunInv, [Next]_vars PROVE TextInv' /\ RunInv'
  OBVIOUS
<1>1. CASE Check
  BY <1>1, TextCheck, RunEmit
<1>2. CASE Emit
  BY <1>2, TextEmit, RunEmit
<1>3. CASE Run
  <2>1. phase = "run" /\ UNCHANGED <<body, checkVars, emitVars>> /\ UNCHANGED <<body, code, known>>
    BY <1>3 DEF Run, emitVars
  <2>2. phase' = phase \/ phase' = "done"
    BY <1>3 DEF Run, CCleanup, CDo, CSave, CEnter, CEnterElse, CSkip, CExit, CJump, CReturn
  <2>3. TextInv'
    BY <2>1, <2>2, TextKept
  <2>4. CASE CCleanup
    BY <2>1, <2>3, <2>4, RunCleanup
  <2>5. CASE CReturn
    BY <2>1, <2>3, <2>5, RunReturn
  <2>6. CASE CDo \/ CSave \/ CEnter \/ CEnterElse \/ CSkip \/ CExit \/ CJump
    BY <2>1, <2>3, <2>6, RunMove
  <2>7. QED  BY <1>3, <2>4, <2>5, <2>6 DEF Run
<1>4. CASE UNCHANGED vars
  <2>1. UNCHANGED <<body, checkVars, emitVars>> /\ phase' = phase
    BY <1>4 DEF vars
  <2>2. QED  BY <1>4, <2>1, TextKept, RunKeeps
<1>5. QED  BY <1>1, <1>2, <1>3, <1>4 DEF Next

LEMMA Invariant == Spec => [](TextInv /\ RunInv)
<1>1. Init => TextInv /\ RunInv
  BY TextInit, RunInit
<1>2. QED  BY <1>1, InvStep, PTL DEF Spec

(***************************************************************************)
(* What follows for the program.                                            *)
(***************************************************************************)
\* The state of the emitter and of the run is of the kind its declarations say:
\* the text is made of lines of the body's own statements, and whatever runs,
\* is pending or is entered is one of them.
THEOREM TypeCorrect == Spec => []TypeInv
<1>1. TextInv /\ RunInv => TypeInv
  <2> SUFFICES ASSUME TextInv, RunInv PROVE TypeInv
    OBVIOUS
  <2>1. WellNested(body) /\ Len(body) \in Nat /\ isVoid \in BOOLEAN
        /\ known \in Seq(Seq(1..Len(body))) /\ code \in Seq(Seq(CLines))
    BY NestIs DEF TextInv
  <2>2. phase \in {"check", "rejected", "emit", "run", "done"}
    BY DEF TextInv, Growing
  <2>3. warned \subseteq 1..Len(body)
    BY DEF TextInv, Warned
  <2>4. next \in 1..(Len(body) + 2)
    BY <2>1 DEF TextInv, Places
  <2>5. scopes \in Seq(Seq(1..Len(body))) /\ marks \in Seq(Nat)
    <3>1. CASE Growing
      BY <3>1 DEF TextInv, Stacks, Marks
    <3>2. CASE ~Growing
      BY <3>2 DEF TextInv
    <3>3. QED  BY <3>1, <3>2
  <2>6. at \in 0..(Len(body) + 1) /\ line \in Nat \ {0}
    <3>1. CASE Growing
      BY <2>1, <3>1 DEF RunInv
    <3>2. CASE phase = "run"
      <4>1. at \in Places /\ line \in Nat \ {0}
        BY <3>2, CLineIs
      <4>2. QED  BY <2>1, <4>1 DEF Places
    <3>3. CASE phase = "done"
      BY <2>1, <3>3 DEF RunInv
    <3>4. QED  BY <2>2, <3>1, <3>2, <3>3 DEF Growing
  <2>7. inside \in Seq(1..Len(body))
    <3>1. CASE phase = "run"
      <4>1. inside = Within(at) /\ at \in Places
        BY <3>1 DEF RunInv
      <4>2. inside \in Seq(Nat) /\ Nested(at)
        BY <2>1, <4>1, NestIs, Nesting
      <4>3. \A k \in 1..Len(inside) : inside[k] \in 1..Len(body)
        BY <2>1, <4>1, <4>2 DEF Nested, Places
      <4>4. QED  BY <4>2, <4>3
    <3>2. CASE phase # "run"
      <4>1. inside = <<>>
        BY <2>2, <3>2 DEF RunInv, Growing
      <4>2. QED  BY <4>1
    <3>3. QED  BY <3>1, <3>2
  <2>8. rounds \in 0..MaxRounds /\ temps \in [1..Len(body) -> Nat]
        /\ output \in Seq([at : 1..Len(body), captured : Nat])
    BY DEF RunInv
  <2>9. QED  BY <2>1, <2>2, <2>3, <2>4, <2>5, <2>6, <2>7, <2>8 DEF TypeInv, CLines, Places
<1>2. QED  BY <1>1, Invariant, PTL

\* The scopes and the loop marks of the emitter are those of the blocks around the
\* statement it emits, for bodies of any depth: a break or a continue finds the
\* mark of its own loop, and both stacks are empty when the function is done.
THEOREM EmitterStacks == Spec => []StacksFollowBlocks
<1>1. TextInv => StacksFollowBlocks
  <2> SUFFICES ASSUME TextInv PROVE StacksFollowBlocks
    OBVIOUS
  <2>1. CASE Growing
    <3>1. Stacks(scopes, known, next) /\ Marks(marks, next)
      BY <2>1 DEF TextInv
    <3>2. Range(marks) = {marks[j] : j \in 1..Len(marks)}
      BY <3>1, RangeEquality DEF Marks
    <3>3. QED  BY <2>1, <3>1, <3>2 DEF StacksFollowBlocks, Stacks, Marks, Growing
  <2>2. CASE ~Growing
    <3>1. scopes = <<>> /\ marks = <<>> /\ phase \notin {"check", "rejected", "emit"}
      BY <2>2 DEF TextInv, Growing
    <3>2. Range(marks) = {marks[j] : j \in 1..Len(marks)}
      <4>1. marks \in Seq(Nat)
        BY <3>1
      <4>2. QED  BY <4>1, RangeEquality
    <3>3. QED  BY <3>1, <3>2 DEF StacksFollowBlocks
  <2>3. QED  BY <2>1, <2>2
<1>2. QED  BY <1>1, Invariant, PTL

\* What the checker means by "may not return on all paths" is what happens: the end
\* of an accepted function that returns a value is never reached, whatever its
\* conditions are and however many rounds its loops have.
THEOREM AcceptedBodiesReturn == Spec => []ReturnsOnAllPaths
<1>1. TextInv /\ RunInv => ReturnsOnAllPaths
  <2> SUFFICES ASSUME TextInv, RunInv, ~isVoid, phase = "run", at = Len(body) + 1 PROVE FALSE
    BY DEF ReturnsOnAllPaths
  <2>1. WellNested(body) /\ Len(body) \in Nat /\ at \in Places /\ BlockReturns
    BY NestIs, CLineIs DEF TextInv, Accepted
  <2>2. StartOf(at) = 0
    <3>1. Within(at) = <<>>
      BY <2>1, NestIs
    <3>2. QED  BY <2>1, <3>1, StartIs
  <2>3. PICK j \in Block(0) : Stops(Leaving)[j]
    BY <2>1 DEF BlockReturns
  <2>4. j \in Passed(at)
    <3>1. j \in 1..Len(body)
      BY DEF Block
    <3>2. j \in Before(at)
      BY <2>1, <2>2, <3>1 DEF Before
    <3>3. QED  BY <3>2 DEF Passed
  <2>5. Alive(Leaving, at)
    BY DEF RunInv
  <2>6. QED  BY <2>3, <2>4, <2>5 DEF Alive
<1>2. QED  BY <1>1, Invariant, PTL

\* A statement that is reported as unreachable is not reached, on any path: in
\* particular not by a continue, or by the else of an if that stops.
THEOREM ReportedIsUnreachable == Spec => []UnreachableIsDead
<1>1. TextInv /\ RunInv => UnreachableIsDead
  <2> SUFFICES ASSUME TextInv, RunInv, phase = "run", at \in warned PROVE FALSE
    BY DEF UnreachableIsDead
  <2>1. at \in Warned
    BY DEF TextInv
  <2>2. PICK j \in Block(StartOf(at)) : j < at /\ Stops(Leaving \union Jumps)[j]
    BY <2>1 DEF Warned, Terminates
  <2>3. j \in Passed(at)
    BY <2>2 DEF Before, Passed
  <2>4. Alive(Leaving \union Jumps, at)
    BY DEF RunInv
  <2>5. QED  BY <2>2, <2>3, <2>4 DEF Alive
<1>2. QED  BY <1>1, Invariant, PTL

(***************************************************************************)
(* The C code against what the body means.                                  *)
(***************************************************************************)
Blocks == [i \in 1..Len(inside) |-> [open |-> inside[i], pending |-> Len(known[inside[i]])]]
Trace == SubSeq(output, 1, Len(output) - (line - 1))

Effects == [at : 1..Len(body), captured : Nat]

\* The cleanups in front of statement i, with what they captured.
PendingAt(i) == [d \in 1..Len(known[i]) |-> Effect(known[i][d], temps[known[i][d]])]

\* What is known in front of the statements that may come next.
LEMMA KnownIs ==
  ASSUME TextInv, ~Growing, NEW i \in 1..Len(body)
  PROVE  /\ Op(i) = "defer" => known[i + 1] = Append(known[i], i)
         /\ Op(i) \notin Closing \union {"defer"} => known[i + 1] = known[i]
         /\ Op(i) \in Opening =>
              known[EndOf(i) + 1] = known[i] /\ (HasElse(i) => known[ElseOf(i) + 1] = known[i])
         /\ \A d \in 1..Len(known[i]) : known[i][d] \in 1..(i - 1)
         /\ \A k \in 1..Len(Within(i)) :
              /\ known[EndOf(Within(i)[k]) + 1] = known[Within(i)[k]]
              /\ known[Within(i)[k]] \in Seq(1..Len(body))
              /\ Len(known[Within(i)[k]]) \in 0..Len(known[i])
              /\ SubSeq(known[i], 1, Len(known[Within(i)[k]])) = known[Within(i)[k]]
<1>1. /\ WellNested(body) /\ next = Len(body) + 2 /\ known \in Seq(Seq(1..Len(body))) /\ Len(known) = next - 1
      /\ \A j \in 1..(next - 1) : Follows(known, j, known[j]) /\ Extends(known, j, known[j])
  BY DEF TextInv
<1>2. Len(body) \in Nat /\ next - 1 = Len(body) + 1 /\ i \in Places
  BY <1>1, NestIs DEF Places
<1>3. ASSUME NEW j \in 1..Len(body)
      PROVE  /\ Op(j) = "defer" => known[j + 1] = Append(known[j], j)
             /\ Op(j) \in Closing => known[j + 1] = known[Last(Within(j))]
             /\ Op(j) \notin Closing \union {"defer"} => known[j + 1] = known[j]
  <2>1. j + 1 \in 1..(next - 1) /\ j + 1 # 1 /\ j + 1 - 1 = j
    BY <1>2
  <2>2. Follows(known, j + 1, known[j + 1])
    BY <1>1, <2>1
  <2>3. QED  BY <2>1, <2>2 DEF Follows
<1>4. ASSUME NEW o \in 1..Len(body), Op(o) \in Opening
      PROVE  known[EndOf(o) + 1] = known[o] /\ (HasElse(o) => known[ElseOf(o) + 1] = known[o])
  <2>1. EndOf(o) \in 1..Len(body) /\ Op(EndOf(o)) = "end" /\ Last(Within(EndOf(o))) = o
    <3>1. EndOf(o) \in (o + 1)..Len(body) /\ Op(EndOf(o)) = "end" /\ Last(Within(EndOf(o))) = o
      BY <1>1, <1>4, EndIs
    <3>2. QED  BY <3>1
  <2>2. known[EndOf(o) + 1] = known[o]
    BY <1>3, <2>1 DEF Closing
  <2>3. ASSUME HasElse(o) PROVE known[ElseOf(o) + 1] = known[o]
    <3>1. ElseOf(o) \in 1..Len(body) /\ Op(ElseOf(o)) = "else" /\ Last(Within(ElseOf(o))) = o
      BY <1>1, <2>3, ElseIs
    <3>2. QED  BY <1>3, <3>1 DEF Closing
  <2>4. QED  BY <2>2, <2>3
<1>5. Extends(known, i, known[i])
  BY <1>1, <1>2 DEF Places
<1>6. ASSUME NEW k \in 1..Len(Within(i))
      PROVE  /\ known[EndOf(Within(i)[k]) + 1] = known[Within(i)[k]]
             /\ known[Within(i)[k]] \in Seq(1..Len(body))
             /\ Len(known[Within(i)[k]]) \in 0..Len(known[i])
             /\ SubSeq(known[i], 1, Len(known[Within(i)[k]])) = known[Within(i)[k]]
  <2> DEFINE o == Within(i)[k]
  <2>1. o \in 1..Len(body) /\ Op(o) \in Opening
    <3>1. Nested(i)
      BY <1>1, <1>2, Nesting
    <3>2. o \in 1..(i - 1) /\ o <= Len(body) /\ Op(o) \in Opening
      BY <3>1 DEF Nested
    <3>3. QED  BY <3>2, <1>2
  <2>2. Len(known[o]) <= Len(known[i]) /\ SubSeq(known[i], 1, Len(known[o])) = known[o]
    BY <1>5 DEF Extends
  <2> HIDE DEF o
  <2>3. known[EndOf(o) + 1] = known[o]
    BY <1>4, <2>1
  <2>4. known[o] \in Seq(1..Len(body)) /\ known[i] \in Seq(1..Len(body))
    <3>1. o \in 1..Len(known) /\ i \in 1..Len(known)
      BY <1>1, <1>2, <2>1
    <3>2. QED  BY <3>1, <1>1
  <2>5. Len(known[o]) \in Nat /\ Len(known[i]) \in Nat
    BY <2>4
  <2>6. QED  BY <2>2, <2>3, <2>4, <2>5 DEF o
<1>7. \A d \in 1..Len(known[i]) : known[i][d] \in 1..(i - 1)
  BY <1>5 DEF Extends
<1>8. QED  BY <1>3, <1>4, <1>6, <1>7

LEMMA PendingIs ==
  ASSUME TextInv, RunInv, phase = "run"
  PROVE  /\ Pending = PendingAt(at) /\ Len(Pending) = Len(known[at])
         /\ Pending \in Seq([at : 1..Len(body), captured : Nat])
         /\ \A d \in 1..Len(known[at]) :
              Pending[d] = Effect(known[at][d], temps[known[at][d]]) /\ known[at][d] \in 1..Len(body)
<1> DEFINE T == [at : 1..Len(body), captured : Nat]
           all == known[at]
           Entry(d) == Effect(all[d], temps[all[d]])
<1>1. all \in Seq(1..Len(body)) /\ temps \in [1..Len(body) -> Nat]
  BY CLineIs DEF RunInv
<1>2. \A d \in 1..Len(all) : all[d] \in 1..Len(body) /\ temps[all[d]] \in Nat
  BY <1>1
<1>3. \A d \in 1..Len(all) : Entry(d) \in T
  BY <1>2, EffectIs
<1>4. Pending = [d \in 1..Len(all) |-> Entry(d)] /\ PendingAt(at) = [d \in 1..Len(all) |-> Entry(d)]
  BY DEF Pending, PendingAt, Effect
<1>5. Len(all) \in Nat
  BY <1>1
<1> DEFINE n == Len(all)
           p == [d \in 1..n |-> Entry(d)]
<1> HIDE DEF T, Entry, all, n
<1>6. p \in Seq(T) /\ Len(p) = n /\ \A d \in 1..n : p[d] = Entry(d)
  BY <1>3, <1>5, IsASeq DEF n
<1> HIDE DEF p
<1>7. Pending = p /\ PendingAt(at) = p
  BY <1>4 DEF p, n
<1>8. QED  BY <1>2, <1>6, <1>7 DEF T, Entry, all, n

\* The cleanups that have run are those that are no longer pending.
LEMMA Unwound ==
  ASSUME TextInv, RunInv, phase = "run", line = Len(code[at])
  PROVE  /\ Trace \in Seq([at : 1..Len(body), captured : Nat])
         /\ \E kept \in 0..Len(known[at]) :
              /\ KeptAt(known, at, kept) /\ line = Len(known[at]) - kept + 1
              /\ Trace \o Reverse(SubSeq(Pending, kept + 1, Len(Pending))) = output
<1> DEFINE T == [at : 1..Len(body), captured : Nat]
           n == Len(known[at])
<1>1. PICK kept \in 0..n : KeptAt(known, at, kept) /\ Len(code[at]) = n - kept + 1
  BY CLineIs
<1>2. line = n - kept + 1 /\ n \in Nat
  BY <1>1, CLineIs
<1>3. /\ Len(Pending) = n /\ Pending \in Seq(T)
      /\ \A d \in 1..n : Pending[d] = Effect(known[at][d], temps[known[at][d]])
  BY PendingIs
<1>4. output \in Seq(T) /\ Undone
  BY DEF RunInv
<1> DEFINE Ran(d) == Effect(known[at][n - d + 1], temps[known[at][n - d + 1]])
           m == n - kept
<1>5. /\ m \in Nat /\ m <= Len(output) /\ line - 1 = m
      /\ \A d \in 1..m : output[Len(output) - m + d] = Ran(d)
  <2>1. line - 1 = m /\ m \in Nat
    BY <1>1, <1>2
  <2>2. QED  BY <2>1, <1>4 DEF Undone
<1>6. \A d \in 1..m : Ran(d) = Pending[n - d + 1]
  <2>1. \A d \in 1..m : n - d + 1 \in 1..n
    BY <1>1, <1>2
  <2>2. QED  BY <2>1, <1>3
<1> HIDE DEF Ran, T, n
<1> DEFINE r == SubSeq(Pending, kept + 1, Len(Pending))
<1>7. r \in Seq(T) /\ Len(r) = m /\ \A d \in 1..m : r[d] = Pending[kept + d]
  <2>1. kept + 1 \in Nat /\ kept + 1 <= n + 1
    BY <1>1, <1>2
  <2>2. QED  BY <1>1, <1>2, <1>3, <2>1
<1> HIDE DEF r
<1>8. Reverse(r) \in Seq(T) /\ Len(Reverse(r)) = m /\ \A d \in 1..m : Reverse(r)[d] = output[Len(output) - m + d]
  <2>1. Reverse(r) = [d \in 1..m |-> r[m - d + 1]]
    BY <1>7 DEF Reverse
  <2>2. \A d \in 1..m : m - d + 1 \in 1..m /\ kept + (m - d + 1) = n - d + 1
    BY <1>1, <1>2, <1>5
  <2>3. \A d \in 1..m : r[m - d + 1] \in T /\ r[m - d + 1] = output[Len(output) - m + d]
    <3>1. \A d \in 1..m : r[m - d + 1] \in T
      BY <1>7, <2>2
    <3>2. \A d \in 1..m : r[m - d + 1] = Pending[n - d + 1]
      BY <1>7, <2>2
    <3>3. QED  BY <3>1, <3>2, <1>5, <1>6
  <2> DEFINE Entry(d) == r[m - d + 1]
  <2>4. \A d \in 1..m : Entry(d) \in T
    BY <2>3
  <2>5. Reverse(r) = [d \in 1..m |-> Entry(d)]
    BY <2>1
  <2> DEFINE q == m
  <2>6. q \in Nat /\ \A d \in 1..q : Entry(d) \in T
    BY <1>5, <2>4
  <2> HIDE DEF Entry, m, q
  <2>7. [d \in 1..q |-> Entry(d)] \in Seq(T) /\ Len([d \in 1..q |-> Entry(d)]) = q
    BY <2>6, IsASeq
  <2>8. QED  BY <2>3, <2>5, <2>7 DEF Entry, q
<1> DEFINE u == Reverse(r)
<1>9. u \in Seq(T) /\ Len(u) = m /\ m \in 0..Len(output)
      /\ \A d \in 1..m : u[d] = output[Len(output) - m + d]
  <2>1. m \in 0..Len(output)
    <3>1. Len(output) \in Nat
      BY <1>4
    <3>2. QED  BY <3>1, <1>5
  <2>2. QED  BY <1>8, <2>1
<1>10. Trace = SubSeq(output, 1, Len(output) - m)
  BY <1>5 DEF Trace
<1> HIDE DEF u, m
<1>11. /\ SubSeq(output, 1, Len(output) - m) \in Seq(T)
       /\ SubSeq(output, 1, Len(output) - m) \o u = output
  <2> DEFINE s == output
  <2>1. s \in Seq(T) /\ u \in Seq(T) /\ m \in 0..Len(s) /\ Len(u) = m
        /\ EndsWith(s, m, u)
    BY <1>4, <1>9 DEF EndsWith
  <2> HIDE DEF s
  <2>2. SubSeq(s, 1, Len(s) - m) \in Seq(T) /\ SubSeq(s, 1, Len(s) - m) \o u = s
    BY <2>1, Rejoin
  <2>3. QED  BY <2>2 DEF s
<1>12. Trace \in Seq(T) /\ Trace \o u = output
  BY <1>10, <1>11
<1>13. Trace \in Seq(T) /\ Trace \o Reverse(SubSeq(Pending, kept + 1, Len(Pending))) = output
  BY <1>12 DEF r, u
<1>14. QED  BY <1>1, <1>2, <1>13 DEF T, n

\* The source reads the same body.
LEMMA SourceReads ==
  /\ \A i : Source!Op(i) = Op(i) /\ Source!Within(i) = Within(i)
  /\ \A i : Source!EndOf(i) = EndOf(i) /\ Source!ElseOf(i) = ElseOf(i) /\ (Source!HasElse(i) <=> HasElse(i))
  /\ Source!Opening = Opening /\ Source!Closing = Closing
  /\ \A i, n : Source!Effect(i, n) = Effect(i, n)
<1>1. \A i : Source!Op(i) = Op(i) /\ Source!Within(i) = Within(i)
  BY DEF Source!Op, Source!Within, Op, Within
<1>2. \A kind, i : Source!Matches(kind, i) = Matches(kind, i)
  BY <1>1 DEF Source!Matches, Matches, Source!Last, Last
<1>3. \A i : Source!EndOf(i) = EndOf(i) /\ Source!ElseOf(i) = ElseOf(i) /\ (Source!HasElse(i) <=> HasElse(i))
  BY <1>2 DEF Source!EndOf, EndOf, Source!ElseOf, ElseOf, Source!HasElse, HasElse
<1>4. QED
  BY <1>1, <1>3 DEF Source!Opening, Opening, Source!Closing, Closing, Source!Effect, Effect

LEMMA SourceNests == WellNested(body) => Source!WellNested(body)
  BY DEF WellNested, Source!WellNested, Source!Ops, Ops, Source!Leaving, Leaving, Source!Jumps, Jumps,
         Source!Opening, Opening, Source!Closing, Closing, Source!Last, Last, Source!Front, Front

\* The blocks in the C text.
LEMMA BlocksEmpty == inside = <<>> => Blocks = <<>>
  BY DEF Blocks

LEMMA BlocksAppend ==
  ASSUME inside \in Seq(Nat), at \in Nat, known' = known, inside' = Append(inside, at)
  PROVE  Blocks' = Append(Blocks, [open |-> at, pending |-> Len(known[at])])
<1> DEFINE B(i) == [open |-> i, pending |-> Len(known[i])]
           n == Len(inside)
           S == {B(i) : i \in Nat}
           after == Append(inside, at)
<1>1. n \in Nat /\ \A k \in 1..n : inside[k] \in Nat
  OBVIOUS
<1>2. Blocks = [k \in 1..n |-> B(inside[k])]
  BY DEF Blocks
<1>3. Blocks' = [k \in 1..Len(after) |-> B(after[k])]
  BY DEF Blocks
<1>4. Len(after) = n + 1 /\ after[n + 1] = at /\ \A k \in 1..n : after[k] = inside[k]
  BY AppendIs
<1>5. B(at) \in S /\ \A i \in Nat : B(i) \in S
  OBVIOUS
<1> DEFINE Here(k) == B(inside[k])
           There(k) == B(after[k])
           m == n + 1
<1>6. \A k \in 1..n : Here(k) \in S
  BY <1>1, <1>5
<1>7. There(m) = B(at) /\ \A k \in 1..n : There(k) = Here(k)
  BY <1>4
<1> HIDE DEF B, S, after, n
<1> DEFINE b == [k \in 1..n |-> Here(k)]
           c == [k \in 1..m |-> There(k)]
           e == B(at)
<1>8. m \in Nat /\ \A k \in 1..m : There(k) \in S
  <2>1. \A k \in 1..m : k = m \/ k \in 1..n
    BY <1>1
  <2>2. QED  BY <1>1, <1>5, <1>6, <1>7, <2>1
<1> HIDE DEF Here, There
<1>9. b \in Seq(S) /\ Len(b) = n /\ \A k \in 1..n : b[k] = Here(k)
  BY <1>1, <1>6, IsASeq
<1>10. c \in Seq(S) /\ Len(c) = m /\ \A k \in 1..m : c[k] = There(k)
  <2> HIDE DEF m
  <2>1. QED  BY <1>8, IsASeq
<1>11. e \in S
  BY <1>5
<1> HIDE DEF b, c, e
<1> DEFINE a == Append(b, e)
<1>12. a \in Seq(S) /\ Len(a) = Len(b) + 1 /\ a[Len(b) + 1] = e /\ \A k \in 1..Len(b) : a[k] = b[k]
  BY <1>9, <1>11, AppendIs
<1> HIDE DEF a
<1>13. ASSUME NEW k \in 1..m PROVE c[k] = a[k]
  <2>1. CASE k = m
    BY <2>1, <1>7, <1>8, <1>9, <1>10, <1>12 DEF e
  <2>2. CASE k \in 1..n
    BY <2>2, <1>7, <1>9, <1>10, <1>12
  <2>3. QED  BY <2>1, <2>2, <1>1
<1>14. c = a
  BY <1>9, <1>10, <1>12, <1>13, SeqEqual
<1>15. Blocks' = c /\ Blocks = b /\ e = [open |-> at, pending |-> Len(known[at])]
  BY <1>2, <1>3, <1>4 DEF b, c, Here, There, e, B
<1>16. QED  BY <1>14, <1>15 DEF a

LEMMA BlocksPrefix ==
  ASSUME inside \in Seq(Nat), NEW m \in 0..Len(inside), known' = known, inside' = SubSeq(inside, 1, m)
  PROVE  /\ Blocks' = SubSeq(Blocks, 1, m) /\ Len(Blocks) = Len(inside)
         /\ \A k \in 1..Len(inside) : Blocks[k] = [open |-> inside[k], pending |-> Len(known[inside[k]])]
<1> DEFINE B(i) == [open |-> i, pending |-> Len(known[i])]
           n == Len(inside)
           S == {B(i) : i \in Nat}
           after == SubSeq(inside, 1, m)
<1>1. n \in Nat /\ m \in 0..n /\ m \in Nat /\ \A k \in 1..n : inside[k] \in Nat
  OBVIOUS
<1>2. Blocks = [k \in 1..n |-> B(inside[k])]
  BY DEF Blocks
<1>3. Blocks' = [k \in 1..Len(after) |-> B(after[k])]
  BY DEF Blocks
<1>4. Len(after) = m /\ \A k \in 1..m : after[k] = inside[k]
  BY PrefixIs
<1> DEFINE Here(k) == B(inside[k])
           There(k) == B(after[k])
<1>5. \A k \in 1..n : Here(k) \in S
  BY <1>1
<1>6. \A k \in 1..m : There(k) = Here(k) /\ k \in 1..n
  BY <1>1, <1>4
<1> HIDE DEF B, S, after, n
<1>7. \A k \in 1..m : There(k) \in S
  BY <1>5, <1>6
<1> DEFINE b == [k \in 1..n |-> Here(k)]
           c == [k \in 1..m |-> There(k)]
<1> HIDE DEF Here, There
<1>8. b \in Seq(S) /\ Len(b) = n /\ \A k \in 1..n : b[k] = Here(k)
  BY <1>1, <1>5, IsASeq
<1>9. c \in Seq(S) /\ Len(c) = m /\ \A k \in 1..m : c[k] = There(k)
  BY <1>1, <1>7, IsASeq
<1> HIDE DEF b, c
<1> DEFINE a == SubSeq(b, 1, m)
<1>10. a \in Seq(S) /\ Len(a) = m /\ \A k \in 1..m : a[k] = b[k]
  BY <1>1, <1>8, PrefixIs
<1> HIDE DEF a
<1>11. \A k \in 1..m : c[k] = a[k]
  BY <1>6, <1>8, <1>9, <1>10
<1>12. c = a
  BY <1>9, <1>10, <1>11, SeqEqual
<1>13. Blocks' = c /\ Blocks = b
  BY <1>2, <1>3, <1>4 DEF b, c, Here, There
<1>14. \A k \in 1..n : b[k] = [open |-> inside[k], pending |-> Len(known[inside[k]])]
  BY <1>8 DEF Here, B
<1>15. QED  BY <1>8, <1>12, <1>13, <1>14 DEF a, n

LEMMA SourceSame ==
  ASSUME body' = body, at' = at, Blocks' = Blocks, Pending' = Pending, rounds' = rounds, Trace' = Trace
  PROVE  UNCHANGED Source!sourceVars
  BY DEF Source!sourceVars, Blocks, Trace

LEMMA PendingAfter ==
  /\ phase' = "run" /\ known' = known /\ temps' = temps => Pending' = PendingAt(at')
  /\ phase' # "run" => Pending' = <<>>
  BY DEF Pending, PendingAt, Effect

LEMMA PendingLike ==
  ASSUME NEW i, NEW j, known[i] = known[j]
  PROVE  PendingAt(i) = PendingAt(j)
  BY DEF PendingAt

\* The cleanups that were pending when a block was entered.
LEMMA PendingCut ==
  ASSUME TextInv, RunInv, phase = "run", at \in 1..Len(body), NEW k \in 1..Len(Within(at))
  PROVE  /\ Len(known[Within(at)[k]]) \in 0..Len(Pending)
         /\ PendingAt(Within(at)[k]) = SubSeq(Pending, 1, Len(known[Within(at)[k]]))
         /\ PendingAt(EndOf(Within(at)[k]) + 1) = SubSeq(Pending, 1, Len(known[Within(at)[k]]))
<1> DEFINE o == Within(at)[k]
           T == Effects
           all == known[at]
           front == known[o]
           m == Len(known[o])
           Entry(d) == Effect(all[d], temps[all[d]])
           There(d) == Effect(front[d], temps[front[d]])
<1>1. ~Growing
  BY DEF Growing
<1>2. /\ known[EndOf(o) + 1] = front /\ m \in 0..Len(all) /\ SubSeq(all, 1, m) = front
      /\ all \in Seq(1..Len(body))
  BY <1>1, KnownIs, CLineIs
<1>3. /\ Len(Pending) = Len(all) /\ Pending \in Seq(T) /\ \A d \in 1..Len(all) : Pending[d] = Entry(d)
  BY PendingIs DEF Effects
<1>4. PendingAt(o) = [d \in 1..m |-> There(d)] /\ PendingAt(EndOf(o) + 1) = PendingAt(o)
  BY <1>2, PendingLike DEF PendingAt
<1> HIDE DEF o, T, all, front
<1>5. \A d \in 1..m : front[d] = all[d] /\ d \in 1..Len(all)
  <2> DEFINE S == 1..Len(body)
             n == m
  <2>1. all \in Seq(S) /\ n \in 0..Len(all) /\ SubSeq(all, 1, n) = front
    BY <1>2
  <2> HIDE DEF S, n
  <2>2. \A d \in 1..n : SubSeq(all, 1, n)[d] = all[d]
    BY <2>1, PrefixIs
  <2>3. Len(all) \in Nat
    BY <2>1
  <2>4. QED  BY <2>1, <2>2, <2>3 DEF n
<1>6. m \in 0..Len(Pending) /\ m \in Nat
  BY <1>2, <1>3
<1> HIDE DEF m
<1>7. \A d \in 1..m : There(d) = Pending[d] /\ d \in 1..Len(Pending)
  BY <1>3, <1>5
<1> HIDE DEF Entry, There
<1>8. \A d \in 1..m : There(d) \in T
  BY <1>3, <1>7
<1> DEFINE p == [d \in 1..m |-> There(d)]
           q == SubSeq(Pending, 1, m)
<1>9. p \in Seq(T) /\ Len(p) = m /\ \A d \in 1..m : p[d] = There(d)
  BY <1>6, <1>8, IsASeq
<1> HIDE DEF p
<1>10. q \in Seq(T) /\ Len(q) = m /\ \A d \in 1..m : q[d] = Pending[d]
  BY <1>3, <1>6, PrefixIs
<1> HIDE DEF q
<1>11. p = q
  BY <1>7, <1>9, <1>10, SeqEqual
<1>12. QED  BY <1>4, <1>6, <1>11 DEF p, q, o, m

\* The effects of a statement that undoes nothing, and of the one that is next.
LEMMA TraceIs ==
  /\ line = 1 /\ output \in Seq(Effects) => Trace = output
  /\ line' = 1 /\ output' \in Seq(Effects') => Trace' = output'
<1>1. ASSUME line = 1, output \in Seq(Effects) PROVE Trace = output
  <2> DEFINE T == Effects
  <2>1. output \in Seq(T) /\ Trace = SubSeq(output, 1, Len(output) - (1 - 1))
    BY <1>1 DEF Trace
  <2> HIDE DEF T
  <2>2. QED  BY <2>1, Whole
<1>2. ASSUME line' = 1, output' \in Seq(Effects') PROVE Trace' = output'
  <2> DEFINE T == Effects'
             o == output'
  <2>1. o \in Seq(T) /\ Trace' = SubSeq(o, 1, Len(o) - (1 - 1))
    BY <1>2 DEF Trace
  <2> HIDE DEF T, o
  <2>2. Trace' = o
    BY <2>1, Whole
  <2>3. QED  BY <2>2 DEF o
<1>3. QED  BY <1>1, <1>2

\* What is left of a statement when its cleanups have run.
LEMMA OwnStep ==
  ASSUME TextInv, RunInv, phase = "run", at \in 1..Len(body), line = Len(code[at])
  PROVE  /\ Op(at) \in {"do", "defer", "exit"} \union Opening => line = 1 /\ Trace = output
         /\ Op(at) \in {"return", "return_call"} => Trace \o Reverse(Pending) = output
         /\ Op(at) \in Closing =>
              LET kept == Len(known[Last(Within(at))])
              IN  Trace \o Reverse(SubSeq(Pending, kept + 1, Len(Pending))) = output
         /\ Op(at) \in Jumps =>
              \E k \in 1..Len(Within(at)) :
                /\ Innermost(at, k)
                /\ LET kept == Len(known[Within(at)[k]])
                   IN  Trace \o Reverse(SubSeq(Pending, kept + 1, Len(Pending))) = output
<1>1. PICK kept \in 0..Len(known[at]) :
        /\ KeptAt(known, at, kept) /\ line = Len(known[at]) - kept + 1
        /\ Trace \o Reverse(SubSeq(Pending, kept + 1, Len(Pending))) = output
  BY Unwound
<1>2. at # Len(body) + 1 /\ Len(known[at]) \in Nat /\ Len(body) \in Nat
  <2>1. known[at] \in Seq(1..Len(body)) /\ Len(body) \in Nat
    BY CLineIs, NestIs
  <2>2. QED  BY <2>1
<1>3. ASSUME Op(at) \in {"do", "defer", "exit"} \union Opening PROVE line = 1 /\ Trace = output
  <2>1. kept = Len(known[at])
    BY <1>1, <1>2, <1>3 DEF KeptAt
  <2>2. line = 1
    BY <1>1, <1>2, <2>1
  <2>3. output \in Seq(Effects)
    BY DEF RunInv, Effects
  <2>4. QED  BY <2>2, <2>3, TraceIs
<1>4. ASSUME Op(at) \in {"return", "return_call"} PROVE Trace \o Reverse(Pending) = output
  <2>1. kept = 0
    BY <1>1, <1>2, <1>4 DEF KeptAt
  <2>2. SubSeq(Pending, 1, Len(Pending)) = Pending
    <3> DEFINE T == Effects
    <3>1. Pending \in Seq(T)
      BY PendingIs DEF Effects
    <3> HIDE DEF T
    <3>2. QED  BY <3>1, Whole
  <2>3. kept + 1 = 1
    BY <2>1
  <2>4. Trace \o Reverse(SubSeq(Pending, 1, Len(Pending))) = output
    BY <1>1, <2>3
  <2>5. QED  BY <2>2, <2>4
<1>5. Op(at) \in Closing => kept = Len(known[Last(Within(at))])
  BY <1>1, <1>2 DEF KeptAt
<1>6. Op(at) \in Jumps => \E k \in 1..Len(Within(at)) : Innermost(at, k) /\ kept = Len(known[Within(at)[k]])
  BY <1>1, <1>2 DEF KeptAt
<1>7. QED  BY <1>1, <1>3, <1>4, <1>5, <1>6

LEMMA SourceStarts ==
  ASSUME Init PROVE Source!SourceInit
<1>1. WellNested(body)
  BY BodiesAssumption DEF Init
<1>2. Source!WellNested(body)
  BY <1>1, SourceNests
<1>3. phase # "run" /\ at = 1 /\ line = 1 /\ inside = <<>> /\ rounds = 0 /\ output = <<>>
  BY DEF Init
<1>4. Pending = <<>> /\ Blocks = <<>>
  BY <1>3, BlocksEmpty DEF Pending
<1>5. Trace = <<>>
  BY <1>3 DEF Trace
<1>6. QED
  BY <1>2, <1>3, <1>4, <1>5 DEF Source!SourceInit, Blocks, Trace

\* The checker and the emitter change nothing the source knows of.
LEMMA SourceWaits ==
  ASSUME TextInv, TextInv', RunInv, RunInv', Check \/ Emit
  PROVE  UNCHANGED Source!sourceVars
<1>1. body' = body /\ at' = at /\ line' = line /\ inside' = inside /\ rounds' = rounds
      /\ temps' = temps /\ output' = output
  BY DEF Check, Emit, runVars
<1>2. Growing /\ phase # "run" /\ at = 1 /\ inside = <<>> /\ output = <<>>
  BY DEF RunInv, Growing, Check, Emit
<1>3. Trace' = Trace
  BY <1>1 DEF Trace
<1>4. Blocks' = <<>> /\ Blocks = <<>>
  BY <1>1, <1>2 DEF Blocks
<1>5. Pending' = Pending
  <2>1. Pending = <<>>
    BY <1>2 DEF Pending
  <2>2. CASE phase' # "run"
    BY <2>1, <2>2, PendingAfter
  <2>3. CASE phase' = "run"
    <3>1. next' - 1 = Len(body) + 1 /\ Len(body) \in Nat /\ ~Growing'
      BY <1>1, <2>3, NestIs DEF TextInv, Growing
    <3>2. Follows(known, 1, known[1])'
      BY <3>1 DEF TextInv
    <3>3. known'[at'] = <<>>
      BY <1>1, <1>2, <3>2 DEF Follows
    <3>4. Pending' = [i \in 1..Len(known'[at']) |->
                       [at |-> known'[at'][i], captured |-> temps'[known'[at'][i]]]]
      BY <2>3 DEF Pending
    <3>5. Pending' = <<>>
      BY <3>3, <3>4
    <3>6. QED  BY <2>1, <3>5
  <2>4. QED  BY <2>2, <2>3
<1>6. QED  BY <1>1, <1>3, <1>4, <1>5, SourceSame

\* Neither does a cleanup that runs in front of a statement.
LEMMA SourceCleanup ==
  ASSUME TextInv, RunInv, phase = "run", CCleanup, UNCHANGED <<body, code, known>>
  PROVE  UNCHANGED Source!sourceVars
<1>1. body' = body /\ known' = known /\ phase' = phase /\ at' = at /\ inside' = inside /\ rounds' = rounds
      /\ temps' = temps
  BY DEF CCleanup
<1>2. Pending' = Pending
  BY <1>1 DEF Pending
<1>3. Blocks' = Blocks
  BY <1>1 DEF Blocks
<1>4. PICK effect \in [at : 1..Len(body), captured : Nat] : output' = Append(output, effect)
  BY RunCleanup
<1>5. line' = line + 1 /\ line \in Nat \ {0} /\ line - 1 <= Len(output)
  BY RunCleanup, CLineIs DEF RunInv, Undone
<1>6. Trace' = Trace
  <2> DEFINE T == [at : 1..Len(body), captured : Nat]
             l == Len(output)
             k == l - (line - 1)
  <2>1. output \in Seq(T) /\ effect \in T
    BY DEF RunInv
  <2> HIDE DEF T
  <2>2. l \in Nat /\ Len(output') = l + 1
    BY <1>4, <2>1, AppendIs
  <2>3. k \in 0..Len(output) /\ Len(output') - (line' - 1) = k
    BY <1>5, <2>2
  <2> HIDE DEF k
  <2>4. SubSeq(Append(output, effect), 1, k) = SubSeq(output, 1, k)
    BY <2>1, <2>3, AppendIs
  <2>5. Trace' = SubSeq(output', 1, k)
    BY <2>3 DEF Trace
  <2>6. Trace = SubSeq(output, 1, k)
    BY DEF Trace, k
  <2>7. QED  BY <1>4, <2>4, <2>5, <2>6
<1>7. QED  BY <1>1, <1>2, <1>3, <1>6, SourceSame

\* What the steps that reach another statement have in common.
LEMMA Reached ==
  ASSUME TextInv, RunInv, phase = "run", UNCHANGED <<body, code, known>>,
         CDo \/ CSave \/ CEnter \/ CEnterElse \/ CSkip \/ CExit \/ CJump
  PROVE  /\ at \in 1..Len(body) /\ line = Len(code[at]) /\ Trace' = output' /\ ~Growing
         /\ CLine.op \in Ops => Op(at) = CLine.op
         /\ CLine.op = "save" => Op(at) = "defer"
         /\ temps' = temps => Pending' = PendingAt(at')
         /\ Pending = PendingAt(at) /\ Len(Pending) = Len(known[at])
         /\ inside = Within(at) /\ inside \in Seq(Nat)
         /\ inside' = inside => Blocks' = Blocks
<1>1. /\ RunInv' /\ at \in 1..Len(body) /\ line = Len(code[at]) /\ line' = 1 /\ phase' = "run"
  BY RunMove
<1>2. output' \in Seq(Effects')
  BY <1>1 DEF RunInv, Effects
<1>3. Trace' = output'
  BY <1>1, <1>2, TraceIs
<1>4. at # Len(body) + 1
  <2>1. Len(body) \in Nat
    BY CLineIs, NestIs
  <2>2. QED  BY <1>1, <2>1
<1>5. (CLine.op \in Ops => Op(at) = CLine.op) /\ (CLine.op = "save" => Op(at) = "defer")
  BY <1>4, OwnLine
<1>6. temps' = temps => Pending' = PendingAt(at')
  BY <1>1, PendingAfter
<1>7. inside' = inside => Blocks' = Blocks
  BY DEF Blocks
<1>8. inside = Within(at) /\ Within(at) \in Seq(Nat)
  BY CLineIs, NestIs DEF RunInv
<1>9. QED
  BY <1>1, <1>3, <1>5, <1>6, <1>7, <1>8, PendingIs DEF Growing

LEMMA SourceDoes ==
  ASSUME TextInv, RunInv, phase = "run", UNCHANGED <<body, code, known>>, CDo
  PROVE  Source!SourceDo /\ at \in 1..Len(body)
<1>1. CLine.op = "do" /\ output' = Append(output, Effect(at, 0)) /\ at' = at + 1
      /\ inside' = inside /\ rounds' = rounds /\ temps' = temps /\ body' = body
  BY DEF CDo, Goto
<1>2. at \in 1..Len(body) /\ Op(at) = "do"
  BY <1>1, Reached DEF Ops
<1>3. Trace = output /\ Trace' = output'
  BY <1>2, Reached, OwnStep
<1>4. Pending' = Pending /\ Blocks' = Blocks
  <2>1. known[at + 1] = known[at]
    BY <1>2, Reached, KnownIs DEF Closing
  <2>2. QED  BY <1>1, <2>1, Reached, PendingLike
<1>5. QED
  BY <1>1, <1>2, <1>3, <1>4, SourceReads DEF Source!SourceDo, Blocks, Trace, Effect

LEMMA SourceSkips ==
  ASSUME TextInv, RunInv, phase = "run", UNCHANGED <<body, code, known>>, CSkip
  PROVE  Source!SourceSkip /\ at \in 1..Len(body)
<1>1. CLine.op \in Opening /\ ~HasElse(at) /\ output' = output /\ at' = EndOf(at) + 1
      /\ inside' = inside /\ rounds' = rounds /\ temps' = temps /\ body' = body
  BY DEF CSkip, Goto
<1>2. at \in 1..Len(body) /\ Op(at) \in Opening
  BY <1>1, Reached DEF Ops
<1>3. Trace = output /\ Trace' = output'
  BY <1>2, Reached, OwnStep
<1>4. Pending' = Pending /\ Blocks' = Blocks
  <2>1. known[EndOf(at) + 1] = known[at]
    BY <1>2, Reached, KnownIs
  <2>2. QED  BY <1>1, <2>1, Reached, PendingLike
<1>5. QED
  BY <1>1, <1>2, <1>3, <1>4, SourceReads DEF Source!SourceSkip, Blocks, Trace

LEMMA SourceEnters ==
  ASSUME TextInv, RunInv, phase = "run", UNCHANGED <<body, code, known>>, CEnter
  PROVE  Source!SourceEnter /\ at \in 1..Len(body)
<1>1. CLine.op \in Opening /\ rounds < MaxRounds /\ output' = output /\ at' = at + 1
      /\ inside' = Append(inside, at) /\ rounds' = rounds + 1 /\ temps' = temps /\ body' = body /\ known' = known
  BY DEF CEnter, Goto
<1>2. at \in 1..Len(body) /\ Op(at) \in Opening
  BY <1>1, Reached DEF Ops
<1>3. Trace = output /\ Trace' = output'
  BY <1>2, Reached, OwnStep
<1>4. Pending' = Pending
  <2>1. known[at + 1] = known[at]
    BY <1>2, Reached, KnownIs DEF Closing, Opening
  <2>2. QED  BY <1>1, <2>1, Reached, PendingLike
<1>5. Blocks' = Append(Blocks, [open |-> at, pending |-> Len(Pending)])
  BY <1>1, Reached, BlocksAppend
<1>6. QED
  BY <1>1, <1>2, <1>3, <1>4, <1>5, SourceReads DEF Source!SourceEnter, Blocks, Trace

LEMMA SourceEntersElse ==
  ASSUME TextInv, RunInv, phase = "run", UNCHANGED <<body, code, known>>, CEnterElse
  PROVE  Source!SourceEnterElse /\ at \in 1..Len(body)
<1>1. CLine.op = "if" /\ HasElse(at) /\ output' = output /\ at' = ElseOf(at) + 1
      /\ inside' = Append(inside, at) /\ rounds' = rounds /\ temps' = temps /\ body' = body /\ known' = known
  BY DEF CEnterElse, Goto
<1>2. at \in 1..Len(body) /\ Op(at) = "if" /\ Op(at) \in Opening
  BY <1>1, Reached DEF Ops, Opening
<1>3. Trace = output /\ Trace' = output'
  BY <1>2, Reached, OwnStep
<1>4. Pending' = Pending
  <2>1. known[ElseOf(at) + 1] = known[at]
    BY <1>1, <1>2, Reached, KnownIs
  <2>2. QED  BY <1>1, <2>1, Reached, PendingLike
<1>5. Blocks' = Append(Blocks, [open |-> at, pending |-> Len(Pending)])
  BY <1>1, Reached, BlocksAppend
<1>6. QED
  BY <1>1, <1>2, <1>3, <1>4, <1>5, SourceReads DEF Source!SourceEnterElse, Blocks, Trace

LEMMA SourceDefers ==
  ASSUME TextInv, RunInv, phase = "run", UNCHANGED <<body, code, known>>, CSave
  PROVE  Source!SourceDefer /\ at \in 1..Len(body)
<1>1. CLine.op = "save" /\ output' = output /\ at' = at + 1 /\ temps' = [temps EXCEPT ![at] = Len(output)]
      /\ inside' = inside /\ rounds' = rounds /\ body' = body /\ known' = known /\ phase' = phase
  BY DEF CSave, Goto
<1>2. at \in 1..Len(body) /\ Op(at) = "defer"
  BY <1>1, Reached
<1>3. Trace = output /\ Trace' = output'
  BY <1>2, Reached, OwnStep
<1>4. temps \in [1..Len(body) -> Nat] /\ Len(output) \in Nat
  BY DEF RunInv
<1> DEFINE all == known[at]
           n == Len(all)
           after == known[at + 1]
           T == Effects
           m == n + 1
           e == Effect(at, Len(output))
           Entry(d) == Effect(all[d], temps[all[d]])
           There(d) == Effect(after[d], temps'[after[d]])
<1>5. all \in Seq(1..Len(body)) /\ n \in Nat /\ after = Append(all, at) /\ \A d \in 1..n : all[d] \in 1..(at - 1)
  BY <1>2, KnownIs, CLineIs, Reached
<1>6. Len(after) = m /\ after[m] = at /\ \A d \in 1..n : after[d] = all[d]
  <2> DEFINE S == 1..Len(body)
  <2>1. all \in Seq(S) /\ at \in S
    BY <1>2, <1>5
  <2> HIDE DEF S, all
  <2>2. QED  BY <1>5, <2>1, AppendIs
<1>7. /\ Pending \in Seq(T) /\ Len(Pending) = n /\ \A d \in 1..n : Pending[d] = Entry(d)
  BY PendingIs DEF Effects
<1>8. e \in T
  BY <1>2, <1>4, EffectIs DEF Effects
<1>9. There(m) = e
  BY <1>1, <1>2, <1>4, <1>6
<1>10. \A d \in 1..n : There(d) = Entry(d)
  <2>1. ASSUME NEW d \in 1..n PROVE temps'[all[d]] = temps[all[d]]
    <3>1. all[d] \in 1..Len(body) /\ all[d] # at
      BY <1>2, <1>5
    <3>2. QED  BY <1>1, <1>4, <3>1
  <2>2. QED  BY <1>6, <2>1
<1>11. Pending' = [d \in 1..m |-> There(d)]
  BY <1>1, <1>6 DEF Pending, Effect
<1> HIDE DEF all, n, after, T, e, Entry, There, m
<1>12. m \in Nat /\ \A d \in 1..m : d = m \/ d \in 1..n
  BY <1>5 DEF m
<1>13. \A d \in 1..m : There(d) \in T
  BY <1>7, <1>8, <1>9, <1>10, <1>12
<1> DEFINE p == [d \in 1..m |-> There(d)]
           a == Append(Pending, e)
<1>14. p \in Seq(T) /\ Len(p) = m /\ \A d \in 1..m : p[d] = There(d)
  BY <1>12, <1>13, IsASeq
<1> HIDE DEF p
<1>15. a \in Seq(T) /\ Len(a) = n + 1 /\ a[n + 1] = e /\ \A d \in 1..n : a[d] = Pending[d]
  BY <1>7, <1>8, AppendIs
<1> HIDE DEF a
<1>16. \A d \in 1..m : p[d] = a[d]
  BY <1>7, <1>9, <1>10, <1>12, <1>14, <1>15 DEF m
<1>17. p = a
  BY <1>14, <1>15, <1>16, SeqEqual DEF m
<1>18. Pending' = Append(Pending, Effect(at, Len(Trace)))
  BY <1>3, <1>11, <1>17 DEF p, a, e
<1>19. Blocks' = Blocks
  BY <1>1, Reached
<1>20. QED
  BY <1>1, <1>2, <1>3, <1>18, <1>19, SourceReads DEF Source!SourceDefer, Blocks, Trace

\* The k-th block that is entered, and those in it, are left.
LEMMA SourceLeaves ==
  ASSUME TextInv, RunInv, phase = "run", UNCHANGED <<body, code, known>>, CExit \/ CJump,
         rounds' = rounds, temps' = temps, output' = output, NEW k \in 1..Len(inside),
         inside' = SubSeq(inside, 1, k - 1),
         at' = inside[k] \/ at' = EndOf(inside[k]) + 1,
         Trace \o Reverse(SubSeq(Pending, Len(known[inside[k]]) + 1, Len(Pending))) = output
  PROVE  /\ Blocks' = SubSeq(Blocks, 1, k - 1)
         /\ Pending' = SubSeq(Pending, 1, Blocks[k].pending)
         /\ Trace' = Trace \o Reverse(SubSeq(Pending, Blocks[k].pending + 1, Len(Pending)))
<1> DEFINE kept == Len(known[inside[k]])
           j == k - 1
<1>1. at \in 1..Len(body) /\ Trace' = output' /\ inside = Within(at) /\ inside \in Seq(Nat)
      /\ Pending' = PendingAt(at')
  BY Reached
<1>2. Pending' = SubSeq(Pending, 1, kept)
  BY <1>1, PendingCut
<1>3. j \in 0..Len(inside) /\ k \in 1..Len(inside)
  BY <1>1
<1>4. /\ Blocks' = SubSeq(Blocks, 1, j)
      /\ Blocks[k] = [open |-> inside[k], pending |-> Len(known[inside[k]])]
  <2> HIDE DEF j
  <2>1. inside' = SubSeq(inside, 1, j) /\ known' = known
    BY DEF j
  <2>2. QED  BY <1>1, <1>3, <2>1, BlocksPrefix
<1>5. Blocks[k].pending = kept
  BY <1>4
<1>6. Trace' = Trace \o Reverse(SubSeq(Pending, Blocks[k].pending + 1, Len(Pending)))
  BY <1>1, <1>5
<1>7. Pending' = SubSeq(Pending, 1, Blocks[k].pending)
  BY <1>2, <1>5
<1>8. QED  BY <1>4, <1>6, <1>7

\* A block that is entered, in the source and in the text.
LEMMA BlockIs ==
  ASSUME inside \in Seq(Nat)
  PROVE  /\ Len(Blocks) = Len(inside)
         /\ \A k \in 1..Len(inside) : Blocks[k].open = inside[k]
<1>1. Len(inside) \in Nat
  OBVIOUS
<1>2. Len(Blocks) = Len(inside)
  BY <1>1 DEF Blocks
<1>3. \A k \in 1..Len(inside) : Blocks[k].open = inside[k]
  BY DEF Blocks
<1>4. QED  BY <1>2, <1>3

LEMMA SourceExits ==
  ASSUME TextInv, RunInv, phase = "run", UNCHANGED <<body, code, known>>, CExit
  PROVE  Source!SourceExit /\ at \in 1..Len(body)
<1> DEFINE open == Last(inside)
           k == Len(inside)
           target == IF Op(open) = "loop" THEN open ELSE EndOf(open) + 1
<1>1. CLine.op \in Closing /\ at' = target /\ inside' = Front(inside) /\ output' = output
      /\ rounds' = rounds /\ temps' = temps
  BY DEF CExit, Goto
<1>2. at \in 1..Len(body) /\ Op(at) \in Closing /\ inside = Within(at) /\ inside \in Seq(Nat)
      /\ line = Len(code[at])
  BY <1>1, Reached DEF Ops
<1>3. k \in 1..Len(inside) /\ open = inside[k] /\ Front(inside) = SubSeq(inside, 1, k - 1)
  BY <1>2, CLineIs, MoveIs
<1>4. Trace \o Reverse(SubSeq(Pending, Len(known[inside[k]]) + 1, Len(Pending))) = output
  BY <1>2, <1>3, OwnStep
<1>5. at' = inside[k] \/ at' = EndOf(inside[k]) + 1
  BY <1>1, <1>3
<1>6. Len(Blocks) = k /\ open = Last(Within(at)) /\ at' = target
  BY <1>1, <1>2, BlockIs
<1>7. /\ Blocks' = SubSeq(Blocks, 1, Len(Blocks) - 1)
      /\ Pending' = SubSeq(Pending, 1, Blocks[Len(Blocks)].pending)
      /\ Trace' = Trace \o Reverse(SubSeq(Pending, Blocks[Len(Blocks)].pending + 1, Len(Pending)))
  <2>1. /\ Blocks' = SubSeq(Blocks, 1, k - 1)
        /\ Pending' = SubSeq(Pending, 1, Blocks[k].pending)
        /\ Trace' = Trace \o Reverse(SubSeq(Pending, Blocks[k].pending + 1, Len(Pending)))
    BY <1>1, <1>3, <1>4, <1>5, SourceLeaves
  <2>2. QED  BY <1>6, <2>1
<1>8. Op(at) \in Closing /\ UNCHANGED <<body, rounds>>
      /\ at' = IF Op(Last(Within(at))) = "loop" THEN Last(Within(at)) ELSE EndOf(Last(Within(at))) + 1
  BY <1>1, <1>2, <1>6
<1>9. QED
  BY <1>2, <1>7, <1>8, SourceReads
     DEF Source!SourceExit, Source!Leave, Source!Last, Last, Source!Reverse, Reverse, Blocks, Trace

LEMMA SourceJumps ==
  ASSUME TextInv, RunInv, phase = "run", UNCHANGED <<body, code, known>>, CJump
  PROVE  Source!SourceJump /\ at \in 1..Len(body)
<1>1. PICK k \in 1..Len(inside) :
        /\ CInLoop(k)
        /\ \/ CLine.op = "break" /\ at' = EndOf(inside[k]) + 1
           \/ CLine.op = "continue" /\ at' = inside[k]
        /\ inside' = SubSeq(inside, 1, k - 1) /\ output' = output /\ rounds' = rounds /\ temps' = temps
  BY DEF CJump, Goto
<1>2. CLine.op \in Jumps /\ CLine.op \in Ops
  BY <1>1 DEF Jumps, Ops
<1>3. at \in 1..Len(body) /\ Op(at) = CLine.op /\ inside = Within(at) /\ inside \in Seq(Nat)
      /\ line = Len(code[at])
  BY <1>2, Reached
<1>4. PICK j \in 1..Len(Within(at)) :
        /\ Innermost(at, j)
        /\ Trace \o Reverse(SubSeq(Pending, Len(known[Within(at)[j]]) + 1, Len(Pending))) = output
  BY <1>2, <1>3, OwnStep
<1>5. j = k
  <2>1. Op(inside[k]) = "loop" /\ \A i \in (k + 1)..Len(inside) : Op(inside[i]) # "loop"
    BY <1>1 DEF CInLoop
  <2>2. Op(inside[j]) = "loop" /\ \A i \in (j + 1)..Len(inside) : Op(inside[i]) # "loop"
    BY <1>3, <1>4 DEF Innermost
  <2>3. j \in 1..Len(inside) /\ k \in 1..Len(inside) /\ Len(inside) \in Nat
    BY <1>3
  <2>4. j \notin (k + 1)..Len(inside) /\ k \notin (j + 1)..Len(inside)
    BY <2>1, <2>2
  <2>5. QED  BY <2>3, <2>4
<1>6. /\ Blocks' = SubSeq(Blocks, 1, k - 1)
      /\ Pending' = SubSeq(Pending, 1, Blocks[k].pending)
      /\ Trace' = Trace \o Reverse(SubSeq(Pending, Blocks[k].pending + 1, Len(Pending)))
  BY <1>1, <1>3, <1>4, <1>5, SourceLeaves
<1>7. Len(Blocks) = Len(inside) /\ \A i \in 1..Len(inside) : Blocks[i].open = inside[i]
  BY <1>3, BlockIs
<1>8. Source!InLoop(k)
  <2>1. Op(Blocks[k].open) = "loop"
    BY <1>1, <1>7 DEF CInLoop
  <2>2. ASSUME NEW i \in (k + 1)..Len(Blocks) PROVE Op(Blocks[i].open) # "loop"
    <3>1. i \in (k + 1)..Len(inside) /\ i \in 1..Len(inside)
      BY <1>3, <1>7
    <3>2. QED  BY <1>1, <1>7, <3>1 DEF CInLoop
  <2>3. QED  BY <2>1, <2>2, SourceReads DEF Source!InLoop, Blocks
<1>9. /\ k \in 1..Len(Blocks) /\ UNCHANGED <<body, rounds>>
      /\ \/ Op(at) = "break" /\ at' = EndOf(Blocks[k].open) + 1
         \/ Op(at) = "continue" /\ at' = Blocks[k].open
  BY <1>1, <1>3, <1>7
<1>10. QED
  BY <1>3, <1>6, <1>8, <1>9, SourceReads
     DEF Source!SourceJump, Source!Leave, Source!Reverse, Reverse, Blocks, Trace

LEMMA SourceReturns ==
  ASSUME TextInv, RunInv, phase = "run", RunInv', body' = body, CReturn
  PROVE  Source!SourceStep
<1>1. /\ CLine.op \in Leaving /\ at' = 0 /\ line' = 1 /\ inside' = <<>> /\ phase' = "done" /\ rounds' = rounds
      /\ output' = IF CLine.op = "return_call" THEN Append(output, Effect(at, 0)) ELSE output
  BY DEF CReturn, Goto
<1>2. Pending' = <<>> /\ Blocks' = <<>> /\ Trace' = output'
  <2>1. output' \in Seq(Effects')
    BY DEF RunInv, Effects
  <2>2. QED  BY <1>1, <2>1, PendingAfter, TraceIs DEF Blocks
<1>3. CLine.op # "cleanup" /\ CLine.op \in Ops
  BY <1>1 DEF Leaving, Ops
<1>4. line = Len(code[at])
  BY <1>3, OwnLine
<1>5. Trace \in Seq(Effects) /\ Pending \in Seq(Effects)
  BY <1>4, Unwound, PendingIs DEF Effects
<1>6. ASSUME at = Len(body) + 1 PROVE Source!SourceStep
  <2>1. CLine.op = "return"
    BY <1>3, <1>6, OwnLine
  <2>2. PICK kept \in 0..Len(known[at]) :
          KeptAt(known, at, kept) /\ Trace \o Reverse(SubSeq(Pending, kept + 1, Len(Pending))) = output
    BY <1>4, Unwound
  <2>3. kept + 1 = 1
    BY <1>6, <2>2 DEF KeptAt
  <2>4. SubSeq(Pending, 1, Len(Pending)) = Pending
    <3> DEFINE T == Effects
    <3>1. Pending \in Seq(T)
      BY <1>5
    <3> HIDE DEF T
    <3>2. QED  BY <3>1, Whole
  <2>5. Trace \o Reverse(SubSeq(Pending, 1, Len(Pending))) = output
    BY <2>2, <2>3
  <2>6. Trace' = Trace \o Reverse(Pending)
    BY <1>1, <1>2, <2>1, <2>4, <2>5
  <2>7. QED
    BY <1>1, <1>2, <1>6, <2>6
       DEF Source!SourceStep, Source!LeaveBody, Source!Reverse, Reverse, Blocks, Trace
<1>7. ASSUME at # Len(body) + 1 PROVE Source!SourceStep
  <2>1. at \in 1..Len(body) /\ Op(at) = CLine.op
    BY <1>3, <1>7, OwnLine
  <2>2. CASE Op(at) = "return"
    <3>1. Trace' = Trace \o Reverse(Pending)
      BY <1>1, <1>2, <1>4, <2>1, <2>2, OwnStep
    <3>2. QED
      BY <1>1, <1>2, <2>1, <2>2, <3>1, SourceReads
         DEF Source!SourceStep, Source!SourceReturn, Source!LeaveBody, Source!Reverse, Reverse, Blocks, Trace
  <2>3. CASE Op(at) = "return_call"
    <3>1. Trace \o Reverse(Pending) = output
      BY <1>4, <2>1, <2>3, OwnStep
    <3>2. Append(Trace \o Reverse(Pending), Effect(at, 0)) = Trace \o Append(Reverse(Pending), Effect(at, 0))
      <4> DEFINE T == Effects
                 e == Effect(at, 0)
      <4>1. Trace \in Seq(T) /\ Pending \in Seq(T) /\ e \in T
        BY <1>5, <2>1, EffectIs DEF Effects
      <4> HIDE DEF T, e
      <4> DEFINE r == Reverse(Pending)
      <4>2. r \in Seq(T)
        BY <4>1, ReverseIs
      <4> HIDE DEF r
      <4>3. Joined(Trace, r, e)
        BY <4>1, <4>2, AppendLast
      <4>4. QED  BY <4>3 DEF Joined, e, r
    <3>3. Trace' = Trace \o Append(Reverse(Pending), Effect(at, 0))
      BY <1>1, <1>2, <2>1, <2>3, <3>1, <3>2
    <3>4. QED
      BY <1>1, <1>2, <2>1, <2>3, <3>3, SourceReads
         DEF Source!SourceStep, Source!SourceReturn, Source!LeaveBody, Source!Reverse, Reverse, Blocks, Trace
  <2>4. CASE Op(at) = "exit"
    <3>1. Trace = output
      BY <1>4, <2>1, <2>4, OwnStep
    <3>2. Trace \o <<>> = Trace
      <4> DEFINE T == Effects
      <4>1. Trace \in Seq(T)
        BY <1>5
      <4> HIDE DEF T
      <4>2. QED  BY <4>1, Whole
    <3>3. Trace' = Trace \o <<>>
      BY <1>1, <1>2, <2>1, <2>4, <3>1, <3>2
    <3>4. QED
      BY <1>1, <1>2, <2>1, <2>4, <3>3, SourceReads
         DEF Source!SourceStep, Source!SourceStop, Source!LeaveBody, Blocks, Trace
  <2>5. QED  BY <1>1, <2>1, <2>2, <2>3, <2>4 DEF Leaving
<1>8. QED  BY <1>6, <1>7

LEMMA SourceSteps ==
  ASSUME TextInv, TextInv', RunInv, RunInv', [Next]_vars
  PROVE  [Source!SourceStep]_(Source!sourceVars)
<1>1. CASE Check \/ Emit
  BY <1>1, SourceWaits
<1>2. CASE Run
  <2>1. phase = "run" /\ UNCHANGED <<body, code, known>> /\ body' = body
    BY <1>2 DEF Run, emitVars
  <2>2. CASE CCleanup
    BY <2>1, <2>2, SourceCleanup
  <2>3. CASE CDo
    <3>1. Source!SourceDo /\ at \in 1..Len(body)
      BY <2>1, <2>3, SourceDoes
    <3>2. QED  BY <3>1 DEF Source!SourceStep
  <2>4. CASE CSave
    <3>1. Source!SourceDefer /\ at \in 1..Len(body)
      BY <2>1, <2>4, SourceDefers
    <3>2. QED  BY <3>1 DEF Source!SourceStep
  <2>5. CASE CEnter
    <3>1. Source!SourceEnter /\ at \in 1..Len(body)
      BY <2>1, <2>5, SourceEnters
    <3>2. QED  BY <3>1 DEF Source!SourceStep
  <2>6. CASE CEnterElse
    <3>1. Source!SourceEnterElse /\ at \in 1..Len(body)
      BY <2>1, <2>6, SourceEntersElse
    <3>2. QED  BY <3>1 DEF Source!SourceStep
  <2>7. CASE CSkip
    <3>1. Source!SourceSkip /\ at \in 1..Len(body)
      BY <2>1, <2>7, SourceSkips
    <3>2. QED  BY <3>1 DEF Source!SourceStep
  <2>8. CASE CExit
    <3>1. Source!SourceExit /\ at \in 1..Len(body)
      BY <2>1, <2>8, SourceExits
    <3>2. QED  BY <3>1 DEF Source!SourceStep
  <2>9. CASE CJump
    <3>1. Source!SourceJump /\ at \in 1..Len(body)
      BY <2>1, <2>9, SourceJumps
    <3>2. QED  BY <3>1 DEF Source!SourceStep
  <2>10. CASE CReturn
    BY <2>1, <2>10, SourceReturns
  <2>11. QED
    BY <1>2, <2>2, <2>3, <2>4, <2>5, <2>6, <2>7, <2>8, <2>9, <2>10 DEF Run
<1>3. CASE UNCHANGED vars
  <2>1. body' = body /\ phase' = phase /\ at' = at /\ line' = line /\ inside' = inside /\ rounds' = rounds
        /\ temps' = temps /\ output' = output /\ known' = known
    BY <1>3 DEF vars, emitVars, runVars
  <2>2. Pending' = Pending /\ Blocks' = Blocks /\ Trace' = Trace
    BY <2>1 DEF Pending, Blocks, Trace
  <2>3. UNCHANGED Source!sourceVars
    BY <2>1, <2>2, SourceSame
  <2>4. QED  BY <2>3
<1>4. QED  BY <1>1, <1>2, <1>3 DEF Next

\* The C code runs the body as the source means it: every step of the checker, the
\* emitter and the C code is a step of the source or changes nothing it knows of.
\* On every path of a body of any depth the same effects happen in the same order,
\* each cleanup as often and with the arguments as they were captured.
THEOREM CodeImplementsSource == Spec => ImplementsSource
<1>1. Init => Source!SourceInit
  BY SourceStarts
<1>2. TextInv /\ TextInv' /\ RunInv /\ RunInv' /\ [Next]_vars => [Source!SourceStep]_(Source!sourceVars)
  BY SourceSteps
<1>3. QED
  BY <1>1, <1>2, Invariant, PTL DEF Spec, ImplementsSource, Source!SourceSpec

===============================================================================
