---------------------------- MODULE DocumentsProofs ----------------------------
(***************************************************************************)
(* What holds of every configuration file, of the sizes and depths that    *)
(* the loader accepts and the values that a configuration can have:        *)
(*                                                                         *)
(*   - whatever the parsers accept is well made: rectangles lie on the     *)
(*     display, sequences are of their kinds, policies are valid;          *)
(*   - so whatever is loaded can be drawn at every instant, and what it    *)
(*     says of monitors can be created and registered (AcceptedWorks);     *)
(*   - the timeline of an appearance has the colours of its entry, each    *)
(*     for as long as it is due, and an indicator nothing is drawn over    *)
(*     shows the one due for its source (AnimationFollowsSteps);           *)
(*   - a deck shows each card for as long as it holds and then its way to  *)
(*     the next (DeckFollowsSchedule);                                     *)
(*   - every entry of the file is in what is loaded, and the leaves of a   *)
(*     layout's tree share out the display (NothingDropped);               *)
(*   - what a policy says of a value is what its first matching rule says  *)
(*     (FirstMatchWins), and thresholds divide the numbers as one expects  *)
(*     (ThresholdsFollowTheLine).                                          *)
(*                                                                         *)
(* The parsers go over lists of any length by recursive functions, so the  *)
(* module begins with an induction up to a bound, which rests on a finite  *)
(* set having no one-to-one map into a proper part of itself.              *)
(***************************************************************************)
EXTENDS DocumentsTerms, FiniteSetTheorems, SequenceTheorems, TLAPS

-----------------------------------------------------------------------------
(* Induction up to a bound, and what a recursive function is.              *)

\* What holds at zero and passes from each number to the next holds up to n: the
\* successor would otherwise map a finite set into itself one to one and miss zero.
LEMMA Induction ==
    ASSUME NEW n \in Nat, NEW S, 0 \in S, \A k \in 0..n - 1 : k \in S => k + 1 \in S
    PROVE  \A k \in 0..n : k \in S
<1> SUFFICES ASSUME NEW m \in 0..n, m \notin S PROVE FALSE
  OBVIOUS
<1> DEFINE Low  == {k \in 0..m : \A j \in 0..k : j \in S}
           succ == [k \in Low |-> k + 1]
<1>0. 0 \in Low
  OBVIOUS
<1>1. succ \in [Low -> Low]
  <2> SUFFICES ASSUME NEW k \in Low PROVE k + 1 \in Low
    OBVIOUS
  <2>0. k \in 0..m /\ k \in S /\ \A j \in 0..k : j \in S
    OBVIOUS
  <2>1. k # m
    BY <2>0
  <2>2. k + 1 \in S
    BY <2>0, <2>1
  <2> QED  BY <2>0, <2>1, <2>2
<1>2. IsFiniteSet(Low)
  <2>1. IsFiniteSet(0..m)
    BY FS_Interval
  <2> QED  BY <2>1, FS_Subset
<1>3. succ \in Injection(Low, Low)
  BY <1>1 DEF Injection, IsInjective
<1>4. succ \in Surjection(Low, Low)
  BY <1>2, <1>3, FS_Injection
<1>5. PICK k \in Low : succ[k] = 0
  BY <1>0, <1>4 DEF Surjection
<1> QED  BY <1>5

\* A recursive definition on 0..n, whatever its steps, is a function.
LEMMA Recursion ==
    ASSUME NEW n, NEW A, NEW a, NEW F, Stepwise(n, A, a, F)
    PROVE  \E g \in [0..n -> A] : g[0] = a /\ \A i \in 1..n : g[i] = F[i][g[i - 1]]
<1> USE DEF Stepwise
<1> DEFINE Solves(k, g) == g = [i \in 0..k |-> IF i = 0 THEN a ELSE F[i][g[i - 1]]]
           S == {k \in 0..n : \E g \in [0..k -> A] : Solves(k, g)}
<1>1. 0 \in S
  <2> DEFINE g == [i \in 0..0 |-> a]
  <2>1. g \in [0..0 -> A] /\ Solves(0, g)
    OBVIOUS
  <2>2. 0 \in 0..n
    OBVIOUS
  <2> HIDE DEF g, Solves
  <2> QED  BY <2>1, <2>2
<1>2. ASSUME NEW k \in 0..n - 1, k \in S PROVE k + 1 \in S
  <2>1. PICK g \in [0..k -> A] : Solves(k, g)
    BY <1>2
  <2> DEFINE h == [i \in 0..k + 1 |-> IF i = k + 1 THEN F[k + 1][g[k]] ELSE g[i]]
  <2>2. h \in [0..k + 1 -> A]
    <3>1. g[k] \in A /\ F[k + 1] \in [A -> A]
      OBVIOUS
    <3>2. F[k + 1][g[k]] \in A
      BY <3>1
    <3> QED  BY <3>2
  <2>3. ASSUME NEW i \in 0..k + 1
        PROVE  h[i] = IF i = 0 THEN a ELSE F[i][h[i - 1]]
    <3>1. CASE i = 0
      BY <3>1, <2>1
    <3>2. CASE i = k + 1
      BY <3>2
    <3>3. CASE i # 0 /\ i # k + 1
      <4>1. h[i] = g[i] /\ h[i - 1] = g[i - 1] /\ i \in 0..k
        BY <3>3
      <4>2. g[i] = IF i = 0 THEN a ELSE F[i][g[i - 1]]
        BY <2>1, <4>1
      <4> QED  BY <3>3, <4>1, <4>2
    <3> QED  BY <3>1, <3>2, <3>3
  <2>4. Solves(k + 1, h)
    BY <2>3
  <2> HIDE DEF h
  <2>5. k + 1 \in 0..n
    OBVIOUS
  <2> QED  BY <2>2, <2>4, <2>5
<1> HIDE DEF S
<1>3. \A k \in 0..n : k \in S
  BY <1>1, <1>2, Induction
<1>4. n \in S
  BY <1>3
<1>5. PICK g \in [0..n -> A] : Solves(n, g)
  BY <1>4 DEF S
<1>6. g[0] = a /\ \A i \in 1..n : g[i] = F[i][g[i - 1]]
  BY <1>5
<1> QED  BY <1>6

\* Two functions that begin with one value and agree wherever they did a step before
\* are one.
LEMMA Agreement ==
    ASSUME NEW n \in Nat, NEW f, NEW g, Upto(n, f), Upto(n, g), f[0] = g[0],
           \A i \in 1..n : f[i - 1] = g[i - 1] => f[i] = g[i]
    PROVE  f = g
<1> DEFINE S == {k \in 0..n : f[k] = g[k]}
<1>1. 0 \in S
  OBVIOUS
<1>2. ASSUME NEW k \in 0..n - 1, k \in S PROVE k + 1 \in S
  <2>1. k + 1 \in 1..n /\ (k + 1) - 1 = k
    OBVIOUS
  <2>2. f[k] = g[k]
    BY <1>2
  <2>3. f[k + 1] = g[k + 1]
    BY <2>1, <2>2
  <2> QED  BY <2>1, <2>3
<1> HIDE DEF S
<1>3. \A k \in 0..n : k \in S
  BY <1>1, <1>2, Induction
<1>4. \A k \in 0..n : f[k] = g[k]
  BY <1>3 DEF S
<1> QED  BY <1>4 DEF Upto

\* A function that is stepwise wherever it is within A never leaves A.
LEMMA Solution ==
    ASSUME NEW n, NEW A, NEW a, NEW F, Stepwise(n, A, a, F), NEW f, Upto(n, f), f[0] = a,
           \A i \in 1..n : f[i - 1] \in A => f[i] = F[i][f[i - 1]]
    PROVE  \A k \in 0..n : f[k] \in A
<1> DEFINE S == {k \in 0..n : f[k] \in A}
<1>0. n \in Nat /\ a \in A /\ F \in [1..n -> [A -> A]]
  BY DEF Stepwise
<1>1. 0 \in S
  BY <1>0
<1>2. ASSUME NEW k \in 0..n - 1, k \in S PROVE k + 1 \in S
  <2>1. k + 1 \in 1..n /\ (k + 1) - 1 = k /\ f[k] \in A
    BY <1>0, <1>2
  <2>2. f[k + 1] = F[k + 1][f[k]]
    BY <2>1
  <2>3. F[k + 1] \in [A -> A]
    BY <1>0, <2>1
  <2> QED  BY <1>0, <2>1, <2>2, <2>3
<1> HIDE DEF S
<1>3. \A k \in 0..n : k \in S
  BY <1>0, <1>1, <1>2, Induction
<1> QED  BY <1>3 DEF S

-----------------------------------------------------------------------------
(* Optional values and sequences. *)

\* What Or and The make of an optional value.
LEMMA OrElement == ASSUME NEW S, NEW d, S # {} PROVE Or(S, d) \in S
  BY DEF Or

LEMMA OrDefault == ASSUME NEW d PROVE Or({}, d) = d
  BY DEF Or

LEMMA TheElement == ASSUME NEW S, S # {} PROVE The(S) \in S
  BY DEF The

LEMMA OrSingleton == ASSUME NEW x, NEW d PROVE Or({x}, d) = x
  BY DEF Or

LEMMA TheSingleton == ASSUME NEW x PROVE The({x}) = x
  BY DEF The

\* FlattenSeq joins the sequences one by one, the first at the beginning.
LEMMA FlattenedPrefixes ==
    ASSUME NEW S, NEW seqs \in Seq(Seq(S)), Len(seqs) # 0
    PROVE  \E g \in [1..Len(seqs) -> Seq(S)] :
              /\ FlattenSeq(seqs) = g[Len(seqs)] /\ g[1] = seqs[1]
              /\ \A i \in 2..Len(seqs) : g[i] = g[i - 1] \o seqs[i]
<1> DEFINE n    == Len(seqs)
           P(f) == f = [i \in 1..n |-> IF i = 1 THEN seqs[i] ELSE f[i - 1] \o seqs[i]]
           flat == CHOOSE f : P(f)
           F    == [i \in 1..n - 1 |-> [x \in Seq(S) |-> x \o seqs[i + 1]]]
<1>1. n \in Nat /\ n # 0 /\ \A i \in 1..n : seqs[i] \in Seq(S)
  OBVIOUS
<1>2. Stepwise(n - 1, Seq(S), seqs[1], F)
  <2>1. \A i \in 1..n - 1 : i + 1 \in 1..n
    BY <1>1
  <2>2. \A i \in 1..n - 1 : \A x \in Seq(S) : x \o seqs[i + 1] \in Seq(S)
    BY <1>1, <2>1, ConcatProperties
  <2>3. F \in [1..n - 1 -> [Seq(S) -> Seq(S)]]
    BY <2>2
  <2> HIDE DEF F, n
  <2> QED  BY <1>1, <2>3 DEF Stepwise
<1>3. FlattenSeq(seqs) = flat[n]
  BY <1>1 DEF FlattenSeq
<1> SUFFICES \E g \in [1..n -> Seq(S)] : /\ flat[n] = g[n] /\ g[1] = seqs[1]
                                         /\ \A i \in 2..n : g[i] = g[i - 1] \o seqs[i]
  BY <1>3
<1> HIDE DEF n
<1>4. PICK g \in [0..n - 1 -> Seq(S)] :
          g[0] = seqs[1] /\ \A i \in 1..n - 1 : g[i] = F[i][g[i - 1]]
  <2> HIDE DEF F
  <2> QED  BY <1>2, Recursion
<1> DEFINE h == [i \in 1..n |-> g[i - 1]]
<1>5. \A i \in 1..n : i - 1 \in 0..n - 1
  BY <1>1
<1>6. ASSUME NEW i \in 1..n, i # 1 PROVE h[i] = h[i - 1] \o seqs[i]
  <2>1. i - 1 \in 1..n - 1 /\ i - 1 \in 1..n /\ (i - 1) + 1 = i /\ (i - 1) - 1 \in 0..n - 1
    BY <1>1, <1>6
  <2>2. g[i - 1] = F[i - 1][g[(i - 1) - 1]] /\ g[(i - 1) - 1] \in Seq(S)
    BY <1>4, <2>1
  <2>3. g[i - 1] = g[(i - 1) - 1] \o seqs[i]
    BY <2>1, <2>2
  <2> QED  BY <2>1, <2>3
<1>7. h \in [1..n -> Seq(S)] /\ h[1] = seqs[1]
  BY <1>1, <1>4, <1>5
<1>8. P(h)
  BY <1>6, <1>7
<1> HIDE DEF h
<1>9. P(flat)
  BY <1>8, Zenon
<1> HIDE DEF flat
<1> DEFINE f == [k \in 0..n - 1 |-> flat[k + 1]]
           e == [k \in 0..n - 1 |-> h[k + 1]]
<1>10. f = e
  <2>1. n - 1 \in Nat /\ Upto(n - 1, f) /\ Upto(n - 1, e) /\ f[0] = e[0]
    BY <1>1, <1>7, <1>9 DEF Upto
  <2>2. ASSUME NEW i \in 1..n - 1, f[i - 1] = e[i - 1] PROVE f[i] = e[i]
    <3>1. /\ i + 1 \in 1..n /\ (i + 1) - 1 = i /\ i + 1 # 1 /\ (i - 1) + 1 = i
          /\ i \in 0..n - 1 /\ i - 1 \in 0..n - 1
      BY <1>1
    <3>2. f[i] = flat[i] \o seqs[i + 1] /\ f[i - 1] = flat[i]
      BY <1>9, <3>1
    <3>3. e[i] = h[i] \o seqs[i + 1] /\ e[i - 1] = h[i]
      BY <1>8, <3>1
    <3> QED  BY <2>2, <3>2, <3>3
  <2> HIDE DEF f, e
  <2> QED  BY <2>1, <2>2, Agreement
<1>11. f[n - 1] = flat[n] /\ e[n - 1] = h[n]
  BY <1>1
<1> HIDE DEF f, e
<1>12. flat[n] = h[n]
  BY <1>10, <1>11
<1>13. ASSUME NEW i \in 2..n PROVE h[i] = h[i - 1] \o seqs[i]
  <2>1. i \in 1..n /\ i # 1
    BY <1>1
  <2> QED  BY <1>6, <2>1
<1> QED  BY <1>7, <1>12, <1>13

\* So it is a sequence of what they are sequences of.
LEMMA FlattenedSeq ==
    ASSUME NEW S, NEW seqs \in Seq(Seq(S))
    PROVE  FlattenSeq(seqs) \in Seq(S)
<1>1. CASE Len(seqs) = 0
  <2>1. FlattenSeq(seqs) = seqs /\ seqs = <<>>
    BY <1>1, EmptySeq DEF FlattenSeq
  <2> QED  BY <2>1
<1>2. CASE Len(seqs) # 0
  <2>1. \E g \in [1..Len(seqs) -> Seq(S)] : FlattenSeq(seqs) = g[Len(seqs)]
    BY <1>2, FlattenedPrefixes
  <2>2. Len(seqs) \in 1..Len(seqs)
    BY <1>2
  <2> QED  BY <2>1, <2>2
<1> QED  BY <1>1, <1>2

\* Each element of a sequence of sequences has its place after that sequence's start.
LEMMA FlattenedAt ==
    ASSUME NEW S, NEW seqs \in Seq(Seq(S)), Len(seqs) # 0, NEW starts, Starting(seqs, starts)
    PROVE  Joined(seqs, starts, FlattenSeq(seqs), Len(seqs))
<1> DEFINE n == Len(seqs)
<1>1. n \in Nat /\ n > 0 /\ \A i \in 1..n : seqs[i] \in Seq(S) /\ Len(seqs[i]) \in Nat
  OBVIOUS
<1>2. PICK g \in [1..n -> Seq(S)] : /\ FlattenSeq(seqs) = g[n] /\ g[1] = seqs[1]
                                    /\ \A i \in 2..n : g[i] = g[i - 1] \o seqs[i]
  BY FlattenedPrefixes
<1>3. starts[1] = 0 /\ \A i \in 1..n : starts[i + 1] = starts[i] + Len(seqs[i])
  BY DEF Starting
<1> HIDE DEF n
<1> DEFINE T == {k \in 0..n - 1 : Joined(seqs, starts, g[k + 1], k + 1)}
<1>4. 0 \in T
  <2>1. 1 \in 1..n /\ 0 \in 0..n - 1
    BY <1>1
  <2>2. starts[1 + 1] = Len(g[1])
    BY <1>1, <1>2, <1>3, <2>1
  <2>3. Joined(seqs, starts, g[1], 1)
    BY <1>1, <1>2, <1>3, <2>1, <2>2 DEF Joined
  <2> QED  BY <2>1, <2>3
<1>5. ASSUME NEW k \in 0..(n - 1) - 1, k \in T PROVE k + 1 \in T
  <2> DEFINE m    == k + 1
             prev == g[m]
             last == seqs[m + 1]
             next == g[m + 1]
  <2>1. m \in 1..n /\ m + 1 \in 2..n /\ m + 1 \in 1..n /\ (m + 1) - 1 = m /\ m \in 0..n - 1
    BY <1>1
  <2>2. next = prev \o last /\ prev \in Seq(S) /\ last \in Seq(S)
    BY <1>1, <1>2, <2>1
  <2>3. Joined(seqs, starts, prev, m)
    BY <1>5
  <2>4. starts[m + 1] = Len(prev) /\ starts[(m + 1) + 1] = Len(prev) + Len(last)
    BY <1>3, <2>1, <2>3 DEF Joined
  <2> HIDE DEF prev, next
  <2>5. /\ Len(next) = Len(prev) + Len(last) /\ Len(prev) \in Nat /\ Len(last) \in Nat
        /\ \A t \in 1..Len(prev) : next[t] = prev[t]
        /\ \A t \in 1..Len(last) : next[Len(prev) + t] = last[t]
    <3> HIDE DEF last
    <3>1. /\ Len(prev \o last) = Len(prev) + Len(last)
          /\ \A t \in 1..Len(prev) + Len(last) :
                (prev \o last)[t] = IF t <= Len(prev) THEN prev[t] ELSE last[t - Len(prev)]
      BY <2>2, ConcatProperties
    <3>2. Len(prev) \in Nat /\ Len(last) \in Nat
      BY <2>2
    <3>3. ASSUME NEW t \in 1..Len(last) PROVE next[Len(prev) + t] = last[t]
      <4>1. /\ Len(prev) + t \in 1..Len(prev) + Len(last) /\ ~(Len(prev) + t <= Len(prev))
            /\ (Len(prev) + t) - Len(prev) = t
        BY <3>2
      <4> QED  BY <2>2, <3>1, <4>1
    <3> QED  BY <2>2, <3>1, <3>2, <3>3
  <2>6. ASSUME NEW i \in 1..m + 1, NEW t \in 1..Len(seqs[i])
        PROVE  /\ starts[i] \in Nat /\ starts[i] + t <= Len(next)
               /\ next[starts[i] + t] = seqs[i][t]
    <3>1. CASE i = m + 1
      <4>1. seqs[i] = last /\ starts[i] = Len(prev)
        BY <2>4, <3>1
      <4> HIDE DEF last
      <4> QED  BY <2>5, <4>1, SMTT(30)
    <3>2. CASE i # m + 1
      <4>1. i \in 1..m
        BY <2>1, <3>2
      <4>2. /\ starts[i] \in Nat /\ starts[i] + t <= Len(prev)
            /\ prev[starts[i] + t] = seqs[i][t]
        BY <2>3, <4>1 DEF Joined
      <4>3. Len(seqs[i]) \in Nat
        BY <1>1, <2>1, <4>1
      <4>4. starts[i] + t \in 1..Len(prev)
        BY <2>5, <4>2, <4>3, SMTT(30)
      <4> QED  BY <2>5, <4>2, <4>4, SMTT(30)
    <3> QED  BY <3>1, <3>2
  <2>7. Joined(seqs, starts, next, m + 1)
    BY <2>4, <2>5, <2>6 DEF Joined
  <2> QED  BY <2>1, <2>7 DEF next
<1>6. n - 1 \in T
  <2> HIDE DEF T
  <2>1. n - 1 \in Nat
    BY <1>1
  <2>2. \A k \in 0..n - 1 : k \in T
    BY <1>4, <1>5, <2>1, Induction
  <2> QED  BY <2>1, <2>2
<1>7. (n - 1) + 1 = n
  BY <1>1
<1> QED  BY <1>2, <1>6, <1>7 DEF n

-----------------------------------------------------------------------------
(* Policies. *)

\* The rules that parse_evaluation_policy keeps are a sequence, of all its entries if
\* it added no error.
LEMMA RulesRead ==
    ASSUME NEW entries, Len(entries) \in Nat
    PROVE  /\ \E U : ParseRules(entries).rules \in Seq(U)
           /\ ParseRules(entries).sound => Len(ParseRules(entries).rules) = Len(entries)
<1> DEFINE n    == Len(entries)
           U    == UNION {RuleOf(entries[i]) : i \in 1..n}
           A    == [rules : Seq(U), sound : BOOLEAN]
           zero == [rules |-> <<>>, sound |-> TRUE]
           F    == [i \in 1..n |-> [x \in A |-> AddRule(x, entries[i])]]
           P(f) == f = [i \in 0..n |-> IF i = 0 THEN zero ELSE AddRule(f[i - 1], entries[i])]
           read == CHOOSE f : P(f)
<1>1. Stepwise(n, A, zero, F)
  <2>1. zero \in A
    OBVIOUS
  <2>2. ASSUME NEW i \in 1..n, NEW x \in A PROVE AddRule(x, entries[i]) \in A
    <3>1. CASE RuleOf(entries[i]) = {}
      BY <3>1 DEF AddRule
    <3>2. CASE RuleOf(entries[i]) # {}
      <4>1. Or(RuleOf(entries[i]), <<>>) \in U
        BY <3>2, OrElement
      <4>2. Append(x.rules, Or(RuleOf(entries[i]), <<>>)) \in Seq(U)
        BY <4>1, AppendProperties
      <4> QED  BY <3>2, <4>2 DEF AddRule
    <3> QED  BY <3>1, <3>2
  <2> HIDE DEF A, zero
  <2> QED  BY <2>1, <2>2 DEF Stepwise
<1>2. ParseRules(entries) = read[n]
  BY DEF ParseRules
<1> HIDE DEF n
<1>3. n \in Nat /\ \A i \in 1..n : i - 1 \in 0..n
  BY DEF n
<1>4. PICK g \in [0..n -> A] : g[0] = zero /\ \A i \in 1..n : g[i] = F[i][g[i - 1]]
  <2> HIDE DEF F, A, zero
  <2> QED  BY <1>1, Recursion
<1> HIDE DEF A, zero
<1>5. P(g)
  <2>1. ASSUME NEW i \in 1..n PROVE g[i] = AddRule(g[i - 1], entries[i])
    BY <1>3, <1>4
  <2> QED  BY <1>3, <1>4, <2>1
<1>6. P(read)
  BY <1>5, Zenon
<1> HIDE DEF read
<1>7. \A k \in 0..n : read[k] \in A
  <2>1. Upto(n, read) /\ read[0] = zero
    BY <1>3, <1>6 DEF Upto
  <2>2. ASSUME NEW i \in 1..n, read[i - 1] \in A PROVE read[i] = F[i][read[i - 1]]
    BY <1>3, <1>6, <2>2
  <2> HIDE DEF F
  <2> QED  BY <1>1, <2>1, <2>2, Solution
<1> DEFINE S == {k \in 0..n : read[k].sound => Len(read[k].rules) = k}
<1>8. 0 \in S
  <2>1. read[0] = zero /\ 0 \in 0..n
    BY <1>3, <1>6
  <2> QED  BY <2>1 DEF zero
<1>9. ASSUME NEW k \in 0..n - 1, k \in S PROVE k + 1 \in S
  <2> DEFINE before == read[k]
             rule   == entries[k + 1]
  <2>1. k + 1 \in 0..n /\ k \in 0..n /\ read[k + 1] = AddRule(before, rule)
    BY <1>3, <1>6
  <2>2. before \in A /\ (before.sound => Len(before.rules) = k)
    BY <1>7, <1>9, <2>1
  <2> HIDE DEF before, rule
  <2>3. ASSUME read[k + 1].sound PROVE Len(read[k + 1].rules) = k + 1
    <3>1. RuleOf(rule) # {}
      BY <2>1, <2>2, <2>3 DEF AddRule, A
    <3> DEFINE value == Or(RuleOf(rule), <<>>)
               sound == before.sound /\ ~rule.unknown
    <3>2. AddRule(before, rule) = [rules |-> Append(before.rules, value), sound |-> sound]
      BY <3>1, Zenon DEF AddRule
    <3> HIDE DEF sound, value
    <3>3. read[k + 1].rules = Append(before.rules, value) /\ sound
      BY <2>1, <2>3, <3>2
    <3>4. Len(before.rules) = k /\ before.rules \in Seq(U)
      BY <2>2, <3>3 DEF sound, A
    <3> QED  BY <3>3, <3>4
  <2> QED  BY <2>1, <2>3
<1> HIDE DEF S
<1>10. n \in S
  <2>1. \A k \in 0..n : k \in S
    BY <1>3, <1>8, <1>9, Induction
  <2> QED  BY <1>3, <2>1
<1>11. read[n] \in A /\ (read[n].sound => Len(read[n].rules) = n)
  BY <1>3, <1>7, <1>10 DEF S
<1> QED  BY <1>2, <1>11 DEF A, n

-----------------------------------------------------------------------------
(* Entries that were kept. *)

\* What is kept after one more entry is made of entries, and of all of them when none
\* was refused.
LEMMA KeepStep ==
    ASSUME NEW parsed, Len(parsed) \in Nat, NEW i \in 1..Len(parsed), NEW kept,
           "sound" \in DOMAIN kept,
           kept.items \in Seq(Entries(parsed)), kept.ids \in SUBSET Ids(parsed)
    PROVE  /\ Keep(kept, parsed[i]).items \in Seq(Entries(parsed))
           /\ Keep(kept, parsed[i]).ids \in SUBSET Ids(parsed)
           /\ Keep(kept, parsed[i]).sound =>
                /\ kept.sound
                /\ Following(kept.items, kept.ids, parsed, i - 1) =>
                      Following(Keep(kept, parsed[i]).items, Keep(kept, parsed[i]).ids, parsed, i)
           /\ kept \in [items : Seq(Entries(parsed)), ids : SUBSET Ids(parsed), sound : BOOLEAN]
                => Keep(kept, parsed[i]) \in
                        [items : Seq(Entries(parsed)), ids : SUBSET Ids(parsed), sound : BOOLEAN]
<1> DEFINE new   == {v \in parsed[i].value : v.id \notin kept.ids}
           v     == Or(new, <<>>)
           items == Append(kept.items, v)
           ids   == kept.ids \cup {w.id : w \in new}
           sound == kept.sound /\ parsed[i].sound
<1>1. CASE new = {}
  <2>1. Keep(kept, parsed[i]) = [kept EXCEPT !.sound = FALSE]
    BY <1>1 DEF Keep
  <2>2. /\ Keep(kept, parsed[i]).items = kept.items
        /\ Keep(kept, parsed[i]).ids = kept.ids
        /\ Keep(kept, parsed[i]).sound = FALSE
    BY <2>1
  <2>3. ASSUME kept \in [items : Seq(Entries(parsed)), ids : SUBSET Ids(parsed), sound : BOOLEAN]
        PROVE  Keep(kept, parsed[i]) \in
                    [items : Seq(Entries(parsed)), ids : SUBSET Ids(parsed), sound : BOOLEAN]
    BY <2>1, <2>3
  <2> QED  BY <2>2, <2>3
<1>2. CASE new # {}
  <2>1. Keep(kept, parsed[i]) = [items |-> items, ids |-> ids, sound |-> sound]
    BY <1>2 DEF Keep
  <2>2. v \in parsed[i].value /\ v.id \notin kept.ids /\ v.id \in {w.id : w \in new}
    <3>1. v \in new
      BY <1>2, OrElement
    <3> QED  BY <3>1
  <2>3. v \in Entries(parsed)
    BY <2>2 DEF Entries
  <2>4. /\ items \in Seq(Entries(parsed)) /\ Len(items) = Len(kept.items) + 1
        /\ items[Len(kept.items) + 1] = v
        /\ \A j \in 1..Len(kept.items) : items[j] = kept.items[j]
    <3> HIDE DEF v
    <3> QED  BY <2>3, AppendProperties
  <2>5. ids \in SUBSET Ids(parsed)
    <3>1. new \subseteq Entries(parsed)
      BY DEF Entries
    <3> QED  BY <3>1 DEF Ids
  <2>6. ASSUME Following(kept.items, kept.ids, parsed, i - 1), sound
        PROVE  Following(items, ids, parsed, i)
    <3> HIDE DEF items, ids, v, new
    <3>1. Len(kept.items) = i - 1 /\ Len(items) = i /\ i \in Nat
      BY <2>4, <2>6 DEF Following
    <3>2. ASSUME NEW k \in 1..i
          PROVE  /\ items[k] \in parsed[k].value
                 /\ parsed[k].sound
                 /\ items[k].id \in ids
                 /\ \A j \in 1..k - 1 : items[j].id # items[k].id
      <4>1. CASE k = i
        <5>1. items[k] = v /\ items[k].id \in ids
          BY <2>2, <2>4, <3>1, <4>1 DEF ids
        <5>2. ASSUME NEW j \in 1..k - 1 PROVE items[j].id # items[k].id
          <6>1. j \in 1..i - 1 /\ items[j] = kept.items[j]
            BY <2>4, <3>1, <4>1
          <6>2. kept.items[j].id \in kept.ids
            BY <2>6, <6>1 DEF Following
          <6> QED  BY <2>2, <5>1, <6>1, <6>2
        <5> QED  BY <2>2, <2>6, <4>1, <5>1, <5>2
      <4>2. CASE k # i
        <5>1. k \in 1..i - 1 /\ items[k] = kept.items[k]
          BY <2>4, <3>1, <4>2
        <5>2. \A j \in 1..k - 1 : items[j] = kept.items[j]
          BY <2>4, <3>1, <5>1
        <5>3. kept.ids \subseteq ids
          BY DEF ids
        <5> QED  BY <2>6, <5>1, <5>2, <5>3 DEF Following
      <4> QED  BY <4>1, <4>2
    <3> QED  BY <3>1, <3>2 DEF Following
  <2>7. /\ Keep(kept, parsed[i]).items = items
        /\ Keep(kept, parsed[i]).ids = ids
        /\ Keep(kept, parsed[i]).sound = sound
    BY <2>1
  <2> HIDE DEF items, ids, v, new
  <2>8. Keep(kept, parsed[i]) \in
            [items : Seq(Entries(parsed)), ids : SUBSET Ids(parsed), sound : BOOLEAN]
    BY <2>1, <2>4, <2>5
  <2> QED  BY <2>4, <2>5, <2>6, <2>7, <2>8
<1> QED  BY <1>1, <1>2

\* Entries that were read without an error were all kept.
LEMMA EntriesKept ==
    ASSUME NEW parsed, Len(parsed) \in Nat
    PROVE  LET kept == KeepAll(parsed)
           IN  /\ kept.items \in Seq(Entries(parsed))
               /\ kept.sound => Following(kept.items, kept.ids, parsed, Len(parsed))
<1> DEFINE n    == Len(parsed)
           A    == [items : Seq(Entries(parsed)), ids : SUBSET Ids(parsed), sound : BOOLEAN]
           zero == [items |-> <<>>, ids |-> {}, sound |-> TRUE]
           F    == [i \in 1..n |-> [x \in A |-> Keep(x, parsed[i])]]
           P(f) == f = [i \in 0..n |-> IF i = 0 THEN zero ELSE Keep(f[i - 1], parsed[i])]
           kept == CHOOSE f : P(f)
<1>1. Stepwise(n, A, zero, F)
  <2>1. zero \in A
    OBVIOUS
  <2>2. ASSUME NEW i \in 1..n, NEW x \in A PROVE Keep(x, parsed[i]) \in A
    <3>1. "sound" \in DOMAIN x /\ x.items \in Seq(Entries(parsed)) /\ x.ids \in SUBSET Ids(parsed)
      OBVIOUS
    <3> QED  BY <3>1, KeepStep
  <2> HIDE DEF A, zero
  <2> QED  BY <2>1, <2>2 DEF Stepwise
<1>2. KeepAll(parsed) = kept[n]
  BY DEF KeepAll
<1> HIDE DEF n
<1>3. n \in Nat /\ \A i \in 1..n : i - 1 \in 0..n
  BY DEF n
<1>4. PICK g \in [0..n -> A] : g[0] = zero /\ \A i \in 1..n : g[i] = F[i][g[i - 1]]
  <2> HIDE DEF F, A, zero
  <2> QED  BY <1>1, Recursion
<1> HIDE DEF A, zero
<1>5. P(g)
  <2>1. ASSUME NEW i \in 1..n PROVE g[i] = Keep(g[i - 1], parsed[i])
    BY <1>3, <1>4
  <2> QED  BY <1>3, <1>4, <2>1
<1>6. P(kept)
  BY <1>5, Zenon
<1> HIDE DEF kept
<1>7. \A k \in 0..n : kept[k] \in A
  <2>1. Upto(n, kept) /\ kept[0] = zero
    BY <1>3, <1>6 DEF Upto
  <2>2. ASSUME NEW i \in 1..n, kept[i - 1] \in A PROVE kept[i] = F[i][kept[i - 1]]
    BY <1>3, <1>6, <2>2
  <2> HIDE DEF F
  <2> QED  BY <1>1, <2>1, <2>2, Solution
<1> DEFINE S == {k \in 0..n : kept[k].sound => Following(kept[k].items, kept[k].ids, parsed, k)}
<1>8. 0 \in S
  <2>1. kept[0] = zero /\ 0 \in 0..n
    BY <1>3, <1>6
  <2>2. Following(<<>>, {}, parsed, 0)
    BY DEF Following
  <2>3. Following(kept[0].items, kept[0].ids, parsed, 0)
    BY <2>1, <2>2 DEF zero
  <2> QED  BY <2>1, <2>3
<1>9. ASSUME NEW k \in 0..n - 1, k \in S PROVE k + 1 \in S
  <2>1. k + 1 \in 1..n /\ (k + 1) - 1 = k /\ k + 1 \in 0..n /\ k \in 0..n
    BY <1>3
  <2>2. kept[k + 1] = Keep(kept[k], parsed[k + 1])
    BY <1>6, <2>1
  <2>3. /\ kept[k].items \in Seq(Entries(parsed)) /\ kept[k].ids \in SUBSET Ids(parsed)
        /\ "sound" \in DOMAIN kept[k]
    BY <1>7, <2>1 DEF A
  <2>4. kept[k].sound => Following(kept[k].items, kept[k].ids, parsed, k)
    BY <1>9
  <2>5. kept[k + 1].sound => Following(kept[k + 1].items, kept[k + 1].ids, parsed, k + 1)
    BY <2>1, <2>2, <2>3, <2>4, KeepStep DEF n
  <2> QED  BY <2>1, <2>5
<1> HIDE DEF S
<1>10. n \in S
  <2>1. \A k \in 0..n : k \in S
    BY <1>3, <1>8, <1>9, Induction
  <2> QED  BY <1>3, <2>1
<1>11. kept[n].items \in Seq(Entries(parsed))
  BY <1>3, <1>7 DEF A
<1> QED  BY <1>2, <1>10, <1>11 DEF S, n

-----------------------------------------------------------------------------
(* Arithmetic. *)

\* Products of natural numbers, and what is left of a division by them.
LEMMA ProductNat == ASSUME NEW a \in Nat, NEW b \in Nat PROVE a * b \in Nat
  OBVIOUS

LEMMA ProductMonotone ==
    ASSUME NEW a \in Nat, NEW b \in Nat, NEW c \in Nat, a <= b
    PROVE  c * a <= c * b
  OBVIOUS

LEMMA ProductOfNext == ASSUME NEW a \in Nat, NEW b \in Nat PROVE a * (b + 1) = a * b + a
  OBVIOUS

LEMMA Division ==
    ASSUME NEW a \in Nat, NEW b \in Nat, b > 0
    PROVE  /\ a \div b \in Nat
           /\ (a \div b) * b <= a
           /\ a < (a \div b) * b + b
  OBVIOUS

\* A quotient is no more than a number whose product is enough.
LEMMA DivisionBound ==
    ASSUME NEW a \in Nat, NEW b \in Nat, NEW q \in Nat, b > 0, a <= q * b
    PROVE  a \div b <= q
<1>1. a \div b \in Nat /\ (a \div b) * b <= a
  BY Division
<1> DEFINE d == a \div b
<1>2. SUFFICES ASSUME d > q PROVE FALSE
  BY <1>1
<1> HIDE DEF d
<1>3. d \in Nat /\ d * b <= a
  BY <1>1 DEF d
<1>4. b * (q + 1) <= b * d
  BY <1>2, <1>3, ProductMonotone
<1>5. b * (q + 1) = b * q + b
  BY ProductOfNext
<1>6. b * q = q * b /\ b * d = d * b /\ b * q \in Nat /\ b * d \in Nat
  BY <1>3
<1> QED  BY <1>3, <1>4, <1>5, <1>6

\* A quotient grows with its dividend.
LEMMA DivisionMonotone ==
    ASSUME NEW a \in Nat, NEW c \in Nat, NEW b \in Nat, b > 0, a <= c
    PROVE  a \div b <= c \div b
<1> DEFINE p == a \div b
           q == c \div b
<1>1. p \in Nat /\ q \in Nat /\ p * b <= a /\ c < q * b + b
  BY Division
<1> HIDE DEF p, q
<1>2. SUFFICES ASSUME p > q PROVE FALSE
  BY <1>1 DEF p, q
<1>3. b * (q + 1) <= b * p /\ b * (q + 1) = b * q + b
  BY <1>1, <1>2, ProductMonotone, ProductOfNext
<1>4. b * q = q * b /\ b * p = p * b /\ b * q \in Nat /\ b * p \in Nat
  BY <1>1
<1> QED  BY <1>1, <1>3, <1>4

\* It grows by one at least when a whole divisor is added.
LEMMA DivisionStep ==
    ASSUME NEW a \in Nat, NEW c \in Nat, NEW b \in Nat, b > 0, a + b <= c
    PROVE  a \div b + 1 <= c \div b
<1> DEFINE p == a \div b
           q == c \div b
<1>1. p \in Nat /\ q \in Nat /\ p * b <= a /\ c < q * b + b
  BY Division
<1> HIDE DEF p, q
<1>2. SUFFICES ASSUME p + 1 > q PROVE FALSE
  BY <1>1 DEF p, q
<1>3. b * q <= b * p
  BY <1>1, <1>2, ProductMonotone
<1>4. b * q = q * b /\ b * p = p * b /\ b * q \in Nat /\ b * p \in Nat
  BY <1>1
<1> QED  BY <1>1, <1>3, <1>4

\* A product divided by one of its factors is the other.
LEMMA DivisionExact == ASSUME NEW a \in Nat, NEW b \in Nat, b > 0 PROVE (a * b) \div b = a
<1> DEFINE q == (a * b) \div b
<1>1. a * b \in Nat
  BY ProductNat
<1>2. q \in Nat /\ q * b <= a * b /\ a * b < q * b + b
  BY <1>1, Division
<1> HIDE DEF q
<1>3. ASSUME q + 1 <= a PROVE FALSE
  <2>1. b * (q + 1) <= b * a /\ b * (q + 1) = b * q + b
    BY <1>2, <1>3, ProductMonotone, ProductOfNext
  <2> QED  BY <1>2, <2>1
<1>4. ASSUME a + 1 <= q PROVE FALSE
  <2>1. b * (a + 1) <= b * q /\ b * (a + 1) = b * a + b
    BY <1>2, <1>4, ProductMonotone, ProductOfNext
  <2> QED  BY <1>2, <2>1
<1>5. q = a
  BY <1>2, <1>3, <1>4
<1> QED  BY <1>5 DEF q

-----------------------------------------------------------------------------
(* Rectangles. *)

\* A rectangle inside one that is on the display is on the display.
LEMMA WithinFits ==
    ASSUME NEW display, Sized(display), NEW r, OnDisplay(r, display), NEW s \in Rects,
           s.width # 0, s.height # 0, r.x <= s.x, r.y <= s.y,
           s.x + s.width <= r.x + r.width, s.y + s.height <= r.y + r.height
    PROVE  OnDisplay(s, display)
  BY DEF Sized, OnDisplay, Fits, Rects

\* The cells of a row or a column lie in it, and none is empty.
LEMMA CellWithin ==
    ASSUME NEW start \in Nat, NEW extent \in Nat, NEW count \in Nat, NEW gap \in Nat,
           NEW i \in 0..count - 1, CellsFit(extent, count, gap)
    PROVE  LET c == Cell(start, extent, count, gap, i)
           IN  /\ c.start \in Nat /\ c.length \in Nat \ {0}
               /\ start <= c.start
               /\ c.start + c.length <= start + extent
<1> DEFINE gaps   == gap * (count - 1)
           usable == extent - gaps
           low    == (usable * i) \div count
           high   == (usable * (i + 1)) \div count
<1>1. /\ count > 0 /\ count - 1 \in Nat /\ gaps \in Nat /\ usable \in Nat /\ usable >= count
      /\ i \in Nat /\ i <= count - 1 /\ i + 1 \in Nat /\ i + 1 <= count
  BY DEF CellsFit
<1>2. Cell(start, extent, count, gap, i) = [start |-> start + low + i * gap, length |-> high - low]
  BY DEF Cell, CellStart
<1> HIDE DEF gaps
<1>3. usable * i \in Nat /\ usable * (i + 1) \in Nat /\ usable * (i + 1) = usable * i + usable
  <2> HIDE DEF usable
  <2> QED  BY <1>1
<1>4. low \in Nat /\ high \in Nat /\ low + 1 <= high
  <2> HIDE DEF usable
  <2> QED  BY <1>1, <1>3, Division, DivisionStep
<1>5. high <= usable
  <2> HIDE DEF usable
  <2>1. usable * (i + 1) <= usable * count
    BY <1>1, ProductMonotone
  <2> QED  BY <1>1, <1>3, <2>1, DivisionBound
<1>6. i * gap \in Nat /\ i * gap <= gaps
  <2>1. gap * i <= gap * (count - 1)
    BY <1>1, ProductMonotone
  <2> QED  BY <1>1, <2>1 DEF gaps
<1> HIDE DEF low, high
<1>7. /\ start + low + i * gap \in Nat /\ high - low \in Nat \ {0}
      /\ start <= start + low + i * gap
      /\ (start + low + i * gap) + (high - low) <= start + extent
  <2> HIDE DEF usable
  <2>1. usable + gaps = extent
    BY <1>1 DEF usable
  <2> QED  BY <1>1, <1>4, <1>5, <1>6, <2>1
<1> QED  BY <1>2, <1>7

\* The row of a cell of the grid is one of its rows.
LEMMA RowOfCell ==
    ASSUME NEW count \in Nat, NEW columns \in 1..count, NEW i \in 0..count - 1
    PROVE  /\ i % columns \in 0..columns - 1
           /\ Rows(count, columns) \in Nat
           /\ i \div columns \in 0..Rows(count, columns) - 1
<1>1. columns \in Nat /\ columns > 0 /\ i \in Nat /\ count + columns - 1 \in Nat
  OBVIOUS
<1>2. i % columns \in 0..columns - 1
  BY <1>1
<1>3. Rows(count, columns) \in Nat
  BY <1>1, Division DEF Rows
<1>4. i + columns <= count + columns - 1
  BY <1>1
<1>5. i \div columns \in Nat /\ i \div columns + 1 <= Rows(count, columns)
  BY <1>1, <1>4, Division, DivisionStep DEF Rows
<1> QED  BY <1>2, <1>3, <1>5

\* Every cell that render_status_grid fills lies inside the widget.
LEMMA GridCellFits ==
    ASSUME NEW display, Sized(display), NEW r, OnDisplay(r, display),
           NEW count \in Nat, NEW columns \in 1..count, NEW gap \in Nat,
           CellsFit(r.width, columns, gap),
           CellsFit(r.height, Rows(count, columns), gap),
           NEW i \in 0..count - 1
    PROVE  OnDisplay(GridCell([x |-> r.x, y |-> r.y, width |-> r.width, height |-> r.height,
                               columns |-> columns, gap |-> gap], count, i), display)
<1> DEFINE rows == Rows(count, columns)
           h    == Cell(r.x, r.width, columns, gap, i % columns)
           v    == Cell(r.y, r.height, rows, gap, i \div columns)
<1>1. r.x \in Nat /\ r.y \in Nat /\ r.width \in Nat /\ r.height \in Nat
  BY DEF OnDisplay, Rects
<1>2. /\ i % columns \in 0..columns - 1 /\ columns \in Nat
      /\ rows \in Nat /\ i \div columns \in 0..rows - 1
  BY RowOfCell
<1>3. GridCell([x |-> r.x, y |-> r.y, width |-> r.width, height |-> r.height,
                columns |-> columns, gap |-> gap], count, i)
        = Rect(h.start, v.start, h.length, v.length)
  BY DEF GridCell
<1> HIDE DEF rows
<1>4. /\ h.start \in Nat /\ h.length \in Nat \ {0}
      /\ r.x <= h.start /\ h.start + h.length <= r.x + r.width
  BY <1>1, <1>2, CellWithin
<1>5. /\ v.start \in Nat /\ v.length \in Nat \ {0}
      /\ r.y <= v.start /\ v.start + v.length <= r.y + r.height
  BY <1>1, <1>2, CellWithin DEF rows
<1> HIDE DEF h, v
<1> DEFINE s == Rect(h.start, v.start, h.length, v.length)
<1>6. /\ s \in Rects /\ s.width # 0 /\ s.height # 0 /\ r.x <= s.x /\ r.y <= s.y
      /\ s.x + s.width <= r.x + r.width /\ s.y + s.height <= r.y + r.height
  BY <1>4, <1>5 DEF Rect, Rects
<1> HIDE DEF s
<1>7. OnDisplay(s, display)
  BY <1>6, WithinFits
<1> QED  BY <1>3, <1>7 DEF s

\* A bar fills a part of its extent.
LEMMA FilledWithin ==
    ASSUME NEW extent \in Nat, NEW n \in Int, NEW d \in Nat \ {0}, NEW short
    PROVE  Filled(extent, n, d, short) \in 0..extent
<1> DEFINE part   == IF n < 0 THEN 0 ELSE IF n > d THEN d ELSE n
           raised == 2 * part * extent + d
           nearest == IF short /\ raised % (2 * d) = 0
                      THEN raised \div (2 * d) - 1
                      ELSE raised \div (2 * d)
<1>1. part \in Nat
  OBVIOUS
<1>2. Filled(extent, n, d, short) = IF nearest > extent THEN extent ELSE nearest
  BY DEF Filled
<1>3. raised \in Nat /\ raised >= d
  <2> HIDE DEF part
  <2>1. 2 * part * extent \in Nat
    BY <1>1, ProductNat
  <2> QED  BY <2>1
<1> HIDE DEF part, raised
<1>4. raised \div (2 * d) \in Nat
  <2>1. 2 * d \in Nat /\ 2 * d > 0
    OBVIOUS
  <2> QED  BY <1>3, <2>1, Division
<1>5. ASSUME raised % (2 * d) = 0 PROVE raised \div (2 * d) >= 1
  <2>1. 2 * d \in Nat /\ 2 * d > 0
    OBVIOUS
  <2> DEFINE b == 2 * d
  <2>2. ASSUME raised < b PROVE raised % b = raised
    BY <1>3, <2>1, <2>2
  <2>3. raised >= b
    BY <1>3, <1>5, <2>1, <2>2
  <2>4. 0 \div b + 1 <= raised \div b /\ 0 \div b \in Nat
    <3> HIDE DEF b
    <3> QED  BY <1>3, <2>1, <2>3, DivisionStep, Division DEF b
  <2> QED  BY <1>4, <2>4
<1>6. nearest \in Nat
  BY <1>4, <1>5
<1> HIDE DEF nearest
<1> QED  BY <1>2, <1>6

\* The filled part of a bar lies inside the bar, in all four directions.
LEMMA FilledRectFits ==
    ASSUME NEW display, Sized(display), NEW r, OnDisplay(r, display),
           NEW direction \in Directions,
           NEW filled \in 1..(IF direction \in {"right", "left"} THEN r.width ELSE r.height)
    PROVE  OnDisplay(FilledRect(r, direction, filled), display)
<1> DEFINE s == FilledRect(r, direction, filled)
<1>1. /\ r.x \in Nat /\ r.y \in Nat /\ r.width \in Nat /\ r.height \in Nat
      /\ r = [x |-> r.x, y |-> r.y, width |-> r.width, height |-> r.height]
      /\ r.width # 0 /\ r.height # 0
  BY DEF OnDisplay, Rects, Fits
<1>2. /\ s \in Rects /\ s.width # 0 /\ s.height # 0 /\ r.x <= s.x /\ r.y <= s.y
      /\ s.x + s.width <= r.x + r.width /\ s.y + s.height <= r.y + r.height
  <2>1. CASE direction = "right"
    BY <1>1, <2>1 DEF FilledRect, Rects
  <2>2. CASE direction = "left"
    <3>1. s = [x |-> r.x + r.width - filled, y |-> r.y, width |-> filled, height |-> r.height]
      BY <1>1, <2>2 DEF FilledRect
    <3>2. filled \in 1..r.width
      BY <2>2
    <3> HIDE DEF s
    <3> QED  BY <1>1, <3>1, <3>2 DEF Rects
  <2>3. CASE direction = "down"
    BY <1>1, <2>3 DEF FilledRect, Rects
  <2>4. CASE direction = "up"
    <3>1. s = [x |-> r.x, y |-> r.y + r.height - filled, width |-> r.width, height |-> filled]
      BY <1>1, <2>4 DEF FilledRect
    <3>2. filled \in 1..r.height
      BY <2>4
    <3> HIDE DEF s
    <3> QED  BY <1>1, <3>1, <3>2 DEF Rects
  <2> QED  BY <2>1, <2>2, <2>3, <2>4 DEF Directions
<1> HIDE DEF s
<1>3. OnDisplay(s, display)
  BY <1>2, WithinFits
<1> QED  BY <1>3 DEF s

\* The digits of a clock fit where the parser has made room for them.
LEMMA DigitsFit ==
    ASSUME NEW display, Sized(display), NEW r \in Rects, ClockFits(r, display)
    PROVE  OnDisplay(Digits(r), display)
<1>1. /\ r.x \in Nat /\ r.y \in Nat /\ r.width \in Nat /\ r.height \in Nat
      /\ OnDisplay(r, display) /\ r.width >= ClockWidth /\ r.height >= ClockHeight
      /\ ClockWidth \in Nat \ {0} /\ ClockHeight \in Nat \ {0}
  BY RendererAssumption DEF ClockFits, OnDisplay, Rects
<1> DEFINE left == (r.width - ClockWidth) \div 2
           top  == (r.height - ClockHeight) \div 2
           s    == Digits(r)
<1>2. left \in Nat /\ left <= r.width - ClockWidth /\ top \in Nat /\ top <= r.height - ClockHeight
  BY <1>1
<1>3. s = [x |-> r.x + left, y |-> r.y + top, width |-> ClockWidth, height |-> ClockHeight]
  BY DEF Digits, Rect
<1> HIDE DEF left, top, s
<1>4. /\ s \in Rects /\ s.width # 0 /\ s.height # 0 /\ r.x <= s.x /\ r.y <= s.y
      /\ s.x + s.width <= r.x + r.width /\ s.y + s.height <= r.y + r.height
  BY <1>1, <1>2, <1>3 DEF Rects
<1>5. OnDisplay(s, display)
  BY <1>1, <1>4, WithinFits
<1> QED  BY <1>5 DEF s

-----------------------------------------------------------------------------
(* What is drawn. *)

\* Nothing, one stroke, an optional one and two lists of them can be painted.
LEMMA NothingPaintable == ASSUME NEW display PROVE Paintable(<<>>, display)
<1> DEFINE S == {}
<1>1. <<>> \in Seq(S) /\ \A s \in S : Drawn(s, display)
  OBVIOUS
<1> HIDE DEF S
<1> QED  BY <1>1 DEF Paintable

\* Strokes on rectangles that are on the display never break a drawing.
LEMMA OnePaintable ==
    ASSUME NEW display, NEW rect, NEW colour \in Inks, OnDisplay(rect, display)
    PROVE  Paintable(<<Stroke(rect, colour)>>, display)
<1> DEFINE S == {Stroke(rect, colour)}
<1>1. <<Stroke(rect, colour)>> \in Seq(S)
  OBVIOUS
<1>2. \A s \in S : Drawn(s, display)
  BY DEF Stroke, OnDisplay, Drawn
<1> HIDE DEF S
<1> QED  BY <1>1, <1>2 DEF Paintable

LEMMA ColouredPaintable ==
    ASSUME NEW display, NEW rect, NEW colours \in SUBSET Inks, OnDisplay(rect, display)
    PROVE  Paintable(Coloured(rect, colours), display)
<1>1. CASE colours = {}
  BY <1>1, NothingPaintable DEF Coloured
<1>2. CASE colours # {}
  <2>1. The(colours) \in Inks
    BY <1>2, TheElement
  <2> QED  BY <1>2, <2>1, OnePaintable DEF Coloured
<1> QED  BY <1>1, <1>2

LEMMA BothPaintable ==
    ASSUME NEW display, NEW s, NEW t, Paintable(s, display), Paintable(t, display)
    PROVE  Paintable(s \o t, display)
<1>1. PICK S : s \in Seq(S) /\ \A x \in S : Drawn(x, display)
  BY DEF Paintable
<1>2. PICK T : t \in Seq(T) /\ \A x \in T : Drawn(x, display)
  BY DEF Paintable
<1>3. s \in Seq(S \cup T) /\ t \in Seq(S \cup T)
  BY <1>1, <1>2, SeqMonotonic
<1>4. s \o t \in Seq(S \cup T)
  BY <1>3, ConcatProperties
<1>5. \A x \in S \cup T : Drawn(x, display)
  BY <1>1, <1>2
<1> QED  BY <1>4, <1>5 DEF Paintable

\* The strokes of all widgets can be painted if those of each can.
LEMMA AllPaintable ==
    ASSUME NEW display, NEW n \in Nat, NEW seqs, seqs = [i \in 1..n |-> seqs[i]],
           \A i \in 1..n : Paintable(seqs[i], display)
    PROVE  Paintable(FlattenSeq(seqs), display)
<1> DEFINE Holds(i, S) == /\ seqs[i] \in Seq(S)
                          /\ \A s \in S : Drawn(s, display)
           Set(i)      == CHOOSE S : Holds(i, S)
           All         == UNION {Set(i) : i \in 1..n}
<1>1. ASSUME NEW i \in 1..n PROVE Holds(i, Set(i))
  <2>1. \E S : Holds(i, S)
    BY DEF Paintable
  <2> HIDE DEF Holds
  <2> QED  BY <2>1, Zenon
<1>2. \A s \in All : Drawn(s, display)
  <2> SUFFICES ASSUME NEW i \in 1..n, NEW s \in Set(i)
               PROVE  Drawn(s, display)
    OBVIOUS
  <2> HIDE DEF Set
  <2> QED  BY <1>1
<1>3. ASSUME NEW i \in 1..n PROVE seqs[i] \in Seq(All)
  <2>1. Set(i) \subseteq All
    OBVIOUS
  <2> HIDE DEF Set, All
  <2>2. seqs[i] \in Seq(Set(i))
    BY <1>1
  <2> QED  BY <2>1, <2>2, SeqMonotonic
<1> HIDE DEF All
<1>4. seqs \in Seq(Seq(All))
  <2>1. seqs \in [1..n -> Seq(All)]
    BY <1>3
  <2> QED  BY <2>1
<1>5. FlattenSeq(seqs) \in Seq(All)
  BY <1>4, FlattenedSeq
<1> QED  BY <1>2, <1>5 DEF Paintable

\* A set of positions of a sequence has a first.
LEMMA Least ==
    ASSUME NEW n \in Nat, NEW T \in SUBSET (1..n), T # {}
    PROVE  \E i \in T : \A j \in T : i <= j
<1> SUFFICES ASSUME \A i \in T : \E j \in T : j < i
             PROVE  FALSE
  OBVIOUS
<1> DEFINE S == {k \in 0..n : \A j \in T : k < j}
<1>1. 0 \in S
  OBVIOUS
<1>2. ASSUME NEW k \in 0..n - 1, k \in S PROVE k + 1 \in S
  <2>1. k + 1 \in 0..n /\ \A j \in T : k + 1 <= j
    BY <1>2
  <2>2. k + 1 \notin T
    BY <2>1
  <2> QED  BY <2>1, <2>2
<1> HIDE DEF S
<1>3. n \in S
  <2>1. \A k \in 0..n : k \in S
    BY <1>1, <1>2, Induction
  <2> QED  BY <2>1
<1>4. PICK j \in T : j \in 1..n
  OBVIOUS
<1>5. n < j
  BY <1>3, <1>4 DEF S
<1> QED  BY <1>4, <1>5

\* What a bar shows of its source is a whole number.
LEMMA NumericScaled ==
    ASSUME NEW known, Scaled(known), NEW source, NEW v \in Numeric(known, source)
    PROVE  v \in Int
  BY DEF Numeric, Scaled, Stored, OnScale, IsNumber

\* What each kind of widget draws is on the display.
LEMMA BarPaintable ==
    ASSUME NEW c, Sized(c.display), NEW known, NEW at, NEW short,
           Ready(c, known, at, short), NEW w, w.kind = "bar", WellMade(w, c.display)
    PROVE  Paintable(BarStrokes(c, known, w, at, short), c.display)
<1> DEFINE horizontal == w.direction \in {"right", "left"}
           extent     == IF horizontal THEN w.rect.width ELSE w.rect.height
           filled(v)  == Filled(extent, v - w.minimum, w.maximum - w.minimum, short)
           colours    == SampleSource(c, known, w.source, at, short)
           parts      == IF ResolvedState(known, w.source, at) = {} THEN {}
                         ELSE {filled(v) : v \in Numeric(known, w.source)} \ {0}
           body       == IF parts = {} THEN <<>>
                         ELSE Coloured(FilledRect(w.rect, w.direction, The(parts)), colours)
<1>1. /\ OnDisplay(w.rect, c.display) /\ w.direction \in Directions
      /\ w.minimum \in Int /\ w.maximum \in Int /\ w.minimum < w.maximum
      /\ w.track \in Inks
  BY DEF WellMade
<1>2. BarStrokes(c, known, w, at, short) = <<Stroke(w.rect, w.track)>> \o body
  BY DEF BarStrokes
<1>3. extent \in Nat
  BY <1>1 DEF OnDisplay, Rects
<1>4. ASSUME NEW p \in parts PROVE p \in 1..extent
  <2>1. PICK v \in Numeric(known, w.source) : p = filled(v) /\ p # 0
    BY <1>4
  <2>2. v \in Int
    BY NumericScaled DEF Ready
  <2>3. v - w.minimum \in Int /\ w.maximum - w.minimum \in Nat \ {0}
    BY <1>1, <2>2
  <2> HIDE DEF extent
  <2>4. filled(v) \in 0..extent
    BY <1>3, <2>3, FilledWithin
  <2> QED  BY <1>3, <2>1, <2>4
<1>5. Paintable(body, c.display)
  <2>1. CASE parts = {}
    BY <2>1, NothingPaintable
  <2>2. CASE parts # {}
    <3> HIDE DEF parts, extent
    <3>1. The(parts) \in 1..extent
      BY <1>4, <2>2, TheElement
    <3>2. OnDisplay(FilledRect(w.rect, w.direction, The(parts)), c.display)
      BY <1>1, <3>1, FilledRectFits DEF extent
    <3>3. colours \in SUBSET Inks
      BY DEF Ready
    <3> HIDE DEF colours
    <3> QED  BY <2>2, <3>2, <3>3, ColouredPaintable
  <2> QED  BY <2>1, <2>2
<1>6. Paintable(<<Stroke(w.rect, w.track)>>, c.display)
  BY <1>1, OnePaintable
<1> HIDE DEF body
<1> QED  BY <1>2, <1>5, <1>6, BothPaintable

\* Every cell of a status grid lies on the frame.
LEMMA GridPaintable ==
    ASSUME NEW c, Sized(c.display), NEW known, NEW at, NEW short,
           Ready(c, known, at, short), NEW w, w.kind = "status_grid", WellMade(w, c.display)
    PROVE  Paintable(GridStrokes(c, known, w, at, short), c.display)
<1> DEFINE count == Len(w.sources)
           g     == [x |-> w.rect.x, y |-> w.rect.y, width |-> w.rect.width,
                     height |-> w.rect.height, columns |-> w.columns, gap |-> w.gap]
           cells == [i \in 1..count |->
                        Coloured(GridCell(g, count, i - 1),
                                 SampleSource(c, known, w.sources[i], at, short))]
<1>1. /\ OnDisplay(w.rect, c.display)
      /\ count \in Nat /\ w.columns \in 1..count /\ w.gap \in Nat
      /\ CellsFit(w.rect.width, w.columns, w.gap)
      /\ CellsFit(w.rect.height, Rows(count, w.columns), w.gap)
  BY DEF WellMade
<1>2. GridStrokes(c, known, w, at, short) = FlattenSeq(cells)
  BY <1>1 DEF GridStrokes
<1> HIDE DEF count
<1>3. ASSUME NEW i \in 1..count PROVE Paintable(cells[i], c.display)
  <2>1. i - 1 \in 0..count - 1
    BY <1>1
  <2>2. OnDisplay(GridCell(g, count, i - 1), c.display)
    BY <1>1, <2>1, GridCellFits
  <2>3. cells[i] = Coloured(GridCell(g, count, i - 1),
                            SampleSource(c, known, w.sources[i], at, short))
    OBVIOUS
  <2>4. SampleSource(c, known, w.sources[i], at, short) \in SUBSET Inks
    BY DEF Ready
  <2> HIDE DEF g, cells
  <2> QED  BY <2>2, <2>3, <2>4, ColouredPaintable
<1>4. cells = [i \in 1..count |-> cells[i]]
  OBVIOUS
<1> HIDE DEF cells
<1> QED  BY <1>1, <1>2, <1>3, <1>4, AllPaintable

\* An aggregate has a colour for the status it finds.
LEMMA AggregatePaintable ==
    ASSUME NEW c, NEW known, NEW at, NEW w, w.kind = "aggregate_status", WellMade(w, c.display)
    PROVE  Paintable(AggregateStrokes(known, w, at), c.display)
<1> DEFINE seen(source) == IF ResolvedState(known, source, at) = {} THEN "unknown"
                           ELSE The(ResolvedState(known, source, at)).status
           ranks == {i \in 1..Len(w.priority) :
                        \E s \in DOMAIN w.sources : seen(w.sources[s]) = w.priority[i]}
           first == CHOOSE i \in ranks : \A j \in ranks : i <= j
<1>1. /\ OnDisplay(w.rect, c.display) /\ Len(w.priority) \in Nat /\ w.default \in Inks
      /\ \A name \in DOMAIN w.colors : w.colors[name] \in Inks
      /\ DOMAIN w.colors = {w.priority[i] : i \in 1..Len(w.priority)}
  BY DEF WellMade
<1>2. AggregateStrokes(known, w, at) =
        IF ranks = {} THEN <<Stroke(w.rect, w.default)>>
        ELSE IF w.priority[first] \notin DOMAIN w.colors THEN <<Broken>>
        ELSE <<Stroke(w.rect, w.colors[w.priority[first]])>>
  BY DEF AggregateStrokes
<1>3. ranks \in SUBSET (1..Len(w.priority))
  OBVIOUS
<1> HIDE DEF ranks
<1>4. CASE ranks # {}
  <2>1. \E i \in ranks : \A j \in ranks : i <= j
    BY <1>1, <1>3, <1>4, Least
  <2>2. first \in ranks
    BY <2>1
  <2> HIDE DEF first
  <2>3. w.priority[first] \in DOMAIN w.colors
    BY <1>1, <1>3, <2>2
  <2> QED  BY <1>1, <1>2, <1>4, <2>3, OnePaintable
<1> QED  BY <1>1, <1>2, <1>4, OnePaintable

\* Every pixel of a bitmap that lies at x, y.
LEMMA BitmapPaintable ==
    ASSUME NEW display, Sized(display), NEW b, NEW x \in Nat, NEW y \in Nat,
           NEW width \in Nat, NEW height \in Nat,
           x + width <= display.width, y + height <= display.height,
           BitmapProper(b.palette, b.pixels, width, height)
    PROVE  Paintable(BitmapStrokes(b, x, y), display)
<1> DEFINE stroke(row, column) ==
               IF b.pixels[row][column] \in DOMAIN b.palette
               THEN Stroke(Rect(x + column - 1, y + row - 1, 1, 1),
                           b.palette[b.pixels[row][column]])
               ELSE Broken
           line(row) == [column \in 1..Len(b.pixels[row]) |-> stroke(row, column)]
           lines     == [row \in 1..Len(b.pixels) |-> line(row)]
           S         == {s \in {stroke(row, column) : row \in 1..height, column \in 1..width} :
                            Drawn(s, display)}
<1>1. BitmapStrokes(b, x, y) = FlattenSeq(lines)
  BY DEF BitmapStrokes
<1>2. /\ Len(b.pixels) = height
      /\ \A row \in 1..height :
            /\ Len(b.pixels[row]) = width
            /\ \A column \in 1..width : b.pixels[row][column] \in DOMAIN b.palette
      /\ \A character \in DOMAIN b.palette : b.palette[character] \in Inks
  BY DEF BitmapProper, Colours, Inks
<1>3. ASSUME NEW row \in 1..height, NEW column \in 1..width
      PROVE  stroke(row, column) \in S
  <2>1. /\ stroke(row, column).rect = Rect(x + column - 1, y + row - 1, 1, 1)
        /\ stroke(row, column).colour \in Inks
    BY <1>2 DEF Stroke
  <2>2. Fits(Rect(x + column - 1, y + row - 1, 1, 1), display.width, display.height)
    BY DEF Fits, Rect, Sized
  <2>3. Drawn(stroke(row, column), display)
    BY <2>1, <2>2 DEF Drawn
  <2> HIDE DEF stroke
  <2> QED  BY <2>3
<1>4. ASSUME NEW row \in 1..height PROVE Paintable(line(row), display)
  <2>1. line(row) = [column \in 1..width |-> stroke(row, column)]
    BY <1>2
  <2> HIDE DEF stroke
  <2>2. line(row) \in Seq(S)
    <3> HIDE DEF S
    <3> QED  BY <1>3, <2>1
  <2>3. \A s \in S : Drawn(s, display)
    OBVIOUS
  <2> HIDE DEF S, line
  <2> QED  BY <2>2, <2>3 DEF Paintable
<1>5. lines = [row \in 1..height |-> line(row)]
  BY <1>2
<1> HIDE DEF line
<1>6. lines = [row \in 1..height |-> lines[row]] /\ \A row \in 1..height : lines[row] = line(row)
  BY <1>5
<1> HIDE DEF lines
<1> QED  BY <1>1, <1>4, <1>6, AllPaintable

\* Whatever widget the parser makes, render_card can draw it.
LEMMA WidgetPaintable ==
    ASSUME NEW c, Sized(c.display), NEW known, NEW at, NEW short,
           Ready(c, known, at, short), NEW w, WellMade(w, c.display)
    PROVE  Paintable(WidgetStrokes(c, known, w, at, short), c.display)
<1>1. OnDisplay(w.rect, c.display)
  BY DEF WellMade
<1>2. CASE w.kind = "indicator"
  <2>1. SampleSource(c, known, w.source, at, short) \in SUBSET Inks
    BY DEF Ready
  <2> QED  BY <1>1, <1>2, <2>1, ColouredPaintable DEF WidgetStrokes, IndicatorStrokes
<1>3. CASE w.kind = "bar"
  BY <1>3, BarPaintable DEF WidgetStrokes
<1>4. CASE w.kind = "status_grid"
  BY <1>4, GridPaintable DEF WidgetStrokes
<1>5. CASE w.kind = "aggregate_status"
  BY <1>5, AggregatePaintable DEF WidgetStrokes
<1>6. CASE w.kind = "bitmap"
  <2>1. BitmapProper(w.palette, w.pixels, w.rect.width, w.rect.height)
    BY <1>6 DEF WellMade
  <2>2. /\ w.rect.x \in Nat /\ w.rect.y \in Nat /\ w.rect.width \in Nat /\ w.rect.height \in Nat
        /\ w.rect.x + w.rect.width <= c.display.width
        /\ w.rect.y + w.rect.height <= c.display.height
    BY <1>1 DEF OnDisplay, Rects, Fits, Sized
  <2>3. Paintable(BitmapStrokes(w, w.rect.x, w.rect.y), c.display)
    BY <2>1, <2>2, BitmapPaintable
  <2> QED  BY <1>6, <2>3 DEF WidgetStrokes
<1>7. CASE w.kind = "clock"
  <2>1. /\ w.rect.width >= Limit.clock_width /\ w.rect.height >= Limit.clock_height
        /\ w.colour \in Inks
    BY <1>7 DEF WellMade
  <2>2. w.rect \in Rects /\ ClockFits(w.rect, c.display)
    <3>1. Limit.clock_width \in Nat /\ Limit.clock_height \in Nat
      BY FieldsAssumption
    <3> QED  BY <1>1, <2>1, <3>1, ClocksAssumption, RendererAssumption
             DEF ClockFits, OnDisplay, Rects
  <2>3. Paintable(<<Stroke(Digits(w.rect), w.colour)>>, c.display)
    BY <2>1, <2>2, DigitsFit, OnePaintable
  <2>4. Paintable(ClockStrokes(c, known, w, at), c.display)
    BY <2>2, <2>3, NothingPaintable DEF ClockStrokes
  <2> QED  BY <1>7, <2>4 DEF WidgetStrokes
<1> QED  BY <1>2, <1>3, <1>4, <1>5, <1>6, <1>7 DEF WellMade

\* The same of the content of a card of any kind.
LEMMA ContentPaintable ==
    ASSUME NEW c, Sized(c.display), NEW known, NEW at, NEW short,
           Ready(c, known, at, short), NEW content, Drawable(content, c.display)
    PROVE  Paintable(ContentStrokes(c, known, content, at, short), c.display)
<1>1. CASE content.kind \in {"indicators", "layout"}
  <2> DEFINE n    == Len(content.items)
             seqs == [i \in 1..n |-> WidgetStrokes(c, known, content.items[i], at, short)]
  <2>1. n \in Nat /\ \A i \in 1..n : WellMade(content.items[i], c.display)
    BY <1>1 DEF Drawable
  <2>2. ContentStrokes(c, known, content, at, short) = FlattenSeq(seqs)
    BY <1>1 DEF ContentStrokes
  <2> HIDE DEF n
  <2>3. \A i \in 1..n : Paintable(seqs[i], c.display)
    BY <2>1, WidgetPaintable
  <2>4. seqs = [i \in 1..n |-> seqs[i]]
    OBVIOUS
  <2> HIDE DEF seqs
  <2> QED  BY <2>1, <2>2, <2>3, <2>4, AllPaintable
<1>2. CASE content.kind = "bitmap"
  <2>1. Paintable(BitmapStrokes(content, 0, 0), c.display)
    <3>1. /\ c.display.width \in Nat /\ c.display.height \in Nat
          /\ 0 + c.display.width <= c.display.width /\ 0 + c.display.height <= c.display.height
      BY DEF Sized
    <3>2. BitmapProper(content.palette, content.pixels, c.display.width, c.display.height)
      BY <1>2 DEF Drawable
    <3> QED  BY <3>1, <3>2, BitmapPaintable
  <2> QED  BY <1>2, <2>1 DEF ContentStrokes
<1>3. CASE content.kind = "clock"
  <2> DEFINE top    == Rect(0, 0, c.display.width, ClockHeight)
             bottom == Rect(0, c.display.height - ClockHeight, c.display.width, ClockHeight)
             face(r, colour) == IF ClockFits(r, c.display) THEN <<Stroke(Digits(r), colour)>>
                                ELSE <<>>
  <2>1. ContentStrokes(c, known, content, at, short)
            = face(top, content.local) \o face(bottom, content.utc)
    BY <1>3 DEF ContentStrokes, ClockCardStrokes
  <2>2. ASSUME NEW r, NEW colour \in Inks, ClockFits(r, c.display) => r \in Rects
        PROVE  Paintable(face(r, colour), c.display)
    BY <2>2, NothingPaintable, OnePaintable, DigitsFit
  <2>3. top \in Rects
    BY RendererAssumption DEF Rect, Rects, Sized
  <2>4. bottom \in Rects
    <3>1. c.display.height >= Limit.clock_card /\ Limit.clock_card \in Nat
      BY <1>3, FieldsAssumption DEF Drawable
    <3> QED  BY <3>1, ClocksAssumption, RendererAssumption DEF Rect, Rects, Sized
  <2> HIDE DEF top, bottom, face
  <2>5. content.local \in Inks /\ content.utc \in Inks
    BY <1>3 DEF Drawable
  <2>6. /\ Paintable(face(top, content.local), c.display)
        /\ Paintable(face(bottom, content.utc), c.display)
    BY <2>2, <2>3, <2>4, <2>5
  <2> QED  BY <2>1, <2>6, BothPaintable
<1> QED  BY <1>1, <1>2, <1>3 DEF Drawable

-----------------------------------------------------------------------------
(* Pictures. *)

\* It is drawn stroke by stroke, and none fails.
LEMMA ContentPainted ==
    ASSUME NEW c, Sized(c.display), NEW known, NEW at, NEW short,
           Ready(c, known, at, short), NEW content, Drawable(content, c.display)
    PROVE  LET strokes == ContentStrokes(c, known, content, at, short)
               n       == Len(strokes)
           IN  /\ n \in Nat /\ \A i \in 1..n : Drawn(strokes[i], c.display)
               /\ \E painted \in [0..n -> Shot(c.display)] :
                     /\ RenderContent(c, known, content, at, short) = painted[n]
                     /\ \A i \in 1..n : painted[i] = Painted(c.display, painted[i - 1], strokes[i])
<1> DEFINE strokes == ContentStrokes(c, known, content, at, short)
<1>1. PICK S : strokes \in Seq(S) /\ \A s \in S : Drawn(s, c.display)
  BY ContentPaintable DEF Paintable
<1> DEFINE n    == Len(strokes)
           A    == Shot(c.display)
           zero == Blank(c.display)
           F    == [i \in 1..n |-> [x \in A |-> Painted(c.display, x, strokes[i])]]
           P(f) == f = [i \in 0..n |-> IF i = 0 THEN zero
                                       ELSE Painted(c.display, f[i - 1], strokes[i])]
           painted == CHOOSE f : P(f)
<1>2. n \in Nat /\ \A i \in 1..n : strokes[i] \in S
  BY <1>1
<1>3. RenderContent(c, known, content, at, short) = painted[n]
  BY DEF RenderContent
<1> HIDE DEF strokes
<1>4. Stepwise(n, A, zero, F)
  <2>1. zero \in A
    BY DEF Blank, Shot, Sized
  <2>2. ASSUME NEW i \in 1..n, NEW x \in A PROVE Painted(c.display, x, strokes[i]) \in A
    <3>1. /\ Fits(strokes[i].rect, c.display.width, c.display.height)
          /\ strokes[i].colour \in Inks
      BY <1>1, <1>2 DEF Drawn
    <3>2. x.success = TRUE /\ x.pixels \in [Points(c.display.width, c.display.height) -> Inks]
      BY DEF Shot
    <3> DEFINE pixels == [p \in DOMAIN x.pixels |->
                            IF Inside(p, strokes[i].rect) THEN strokes[i].colour ELSE x.pixels[p]]
    <3>3. pixels \in [Points(c.display.width, c.display.height) -> Inks]
      BY <3>1, <3>2
    <3>4. Painted(c.display, x, strokes[i]) = [x EXCEPT !.pixels = pixels]
      BY <3>1, <3>2 DEF Painted
    <3> HIDE DEF pixels
    <3> QED  BY <3>3, <3>4 DEF Shot
  <2> HIDE DEF A, zero, n
  <2> QED  BY <1>2, <2>1, <2>2 DEF Stepwise
<1> HIDE DEF n
<1>5. \A i \in 1..n : i - 1 \in 0..n
  BY <1>2
<1>6. PICK g \in [0..n -> A] : g[0] = zero /\ \A i \in 1..n : g[i] = F[i][g[i - 1]]
  <2> HIDE DEF F, A, zero
  <2> QED  BY <1>4, Recursion
<1> HIDE DEF A, zero
<1>7. P(g)
  <2>1. ASSUME NEW i \in 1..n PROVE g[i] = Painted(c.display, g[i - 1], strokes[i])
    BY <1>5, <1>6
  <2> QED  BY <1>2, <1>5, <1>6, <2>1
<1>8. P(painted)
  BY <1>7, Zenon
<1> HIDE DEF painted
<1>9. \A k \in 0..n : painted[k] \in A
  <2>1. Upto(n, painted) /\ painted[0] = zero
    BY <1>2, <1>8 DEF Upto
  <2>2. ASSUME NEW i \in 1..n, painted[i - 1] \in A PROVE painted[i] = F[i][painted[i - 1]]
    BY <1>5, <1>8, <2>2
  <2> HIDE DEF F
  <2> QED  BY <1>4, <2>1, <2>2, Solution
<1>10. painted \in [0..n -> A]
  BY <1>8, <1>9
<1>11. \A i \in 1..n : painted[i] = Painted(c.display, painted[i - 1], strokes[i])
  BY <1>2, <1>8
<1>12. \A i \in 1..n : Drawn(strokes[i], c.display)
  BY <1>1, <1>2
<1> QED  BY <1>2, <1>3, <1>10, <1>11, <1>12 DEF A, n, strokes

\* So it gives a picture.
LEMMA ContentRendered ==
    ASSUME NEW c, Sized(c.display), NEW known, NEW at, NEW short,
           Ready(c, known, at, short), NEW content, Drawable(content, c.display)
    PROVE  RenderContent(c, known, content, at, short) \in Shot(c.display)
<1> DEFINE n       == Len(ContentStrokes(c, known, content, at, short))
           picture_ == RenderContent(c, known, content, at, short)
<1>1. n \in Nat /\ \E painted \in [0..n -> Shot(c.display)] : picture_ = painted[n]
  BY ContentPainted
<1> HIDE DEF n, picture_
<1>2. picture_ \in Shot(c.display)
  <2> DEFINE A == Shot(c.display)
  <2> HIDE DEF A
  <2>1. n \in Nat /\ \E painted \in [0..n -> A] : picture_ = painted[n]
    BY <1>1 DEF A
  <2> QED  BY <2>1 DEF A
<1> QED  BY <1>2 DEF picture_

\* A point shows the last stroke that covers it.
LEMMA LastStroke ==
    ASSUME NEW c, Sized(c.display), NEW known, NEW at, NEW short,
           Ready(c, known, at, short), NEW content, Drawable(content, c.display),
           NEW i \in 1..Len(ContentStrokes(c, known, content, at, short)),
           NEW p \in Points(c.display.width, c.display.height),
           Inside(p, ContentStrokes(c, known, content, at, short)[i].rect),
           \A j \in 1..Len(ContentStrokes(c, known, content, at, short)) :
              j > i => ~Inside(p, ContentStrokes(c, known, content, at, short)[j].rect)
    PROVE  RenderContent(c, known, content, at, short).pixels[p]
              = ContentStrokes(c, known, content, at, short)[i].colour
<1> DEFINE strokes == ContentStrokes(c, known, content, at, short)
           n       == Len(strokes)
           A       == Shot(c.display)
           colour  == strokes[i].colour
           picture_ == RenderContent(c, known, content, at, short)
<1>1. n \in Nat /\ \A j \in 1..n : Drawn(strokes[j], c.display)
  BY ContentPainted
<1>2. \E painted \in [0..n -> A] :
          /\ picture_ = painted[n]
          /\ \A j \in 1..n : painted[j] = Painted(c.display, painted[j - 1], strokes[j])
  BY ContentPainted
<1>3. /\ i \in 1..n /\ Inside(p, strokes[i].rect)
      /\ \A j \in 1..n : j > i => ~Inside(p, strokes[j].rect)
  OBVIOUS
<1> HIDE DEF picture_, strokes, n, A
<1>4. PICK painted \in [0..n -> A] :
          /\ picture_ = painted[n]
          /\ \A j \in 1..n : painted[j] = Painted(c.display, painted[j - 1], strokes[j])
  BY <1>2
<1>5. ASSUME NEW j \in 1..n
      PROVE  painted[j].pixels[p] = IF Inside(p, strokes[j].rect) THEN strokes[j].colour
                                    ELSE painted[j - 1].pixels[p]
  <2> DEFINE x == painted[j - 1]
  <2>1. x \in A /\ painted[j] = Painted(c.display, x, strokes[j])
    <3>1. j - 1 \in 0..n
      BY <1>1
    <3> QED  BY <1>4, <3>1
  <2> HIDE DEF x
  <2>2. x.success = TRUE /\ x.pixels \in [Points(c.display.width, c.display.height) -> Inks]
        /\ DOMAIN x = {"success", "pixels"}
    BY <2>1 DEF A, Shot
  <2>3. Fits(strokes[j].rect, c.display.width, c.display.height)
    BY <1>1 DEF Drawn
  <2> DEFINE pixels == [q \in DOMAIN x.pixels |->
                          IF Inside(q, strokes[j].rect) THEN strokes[j].colour ELSE x.pixels[q]]
  <2>4. painted[j] = [x EXCEPT !.pixels = pixels]
    BY <2>1, <2>2, <2>3 DEF Painted
  <2>5. pixels[p] = IF Inside(p, strokes[j].rect) THEN strokes[j].colour ELSE x.pixels[p]
    BY <2>2
  <2> HIDE DEF pixels
  <2>6. painted[j].pixels = pixels
    BY <2>2, <2>4
  <2> QED  BY <2>5, <2>6 DEF x
<1> DEFINE T == {k \in 0..n - i : painted[i + k].pixels[p] = colour}
<1>6. 0 \in T
  <2>1. i + 0 = i /\ 0 \in 0..n - i
    BY <1>1, <1>3
  <2> QED  BY <1>3, <1>5, <2>1
<1>7. ASSUME NEW k \in 0..(n - i) - 1, k \in T PROVE k + 1 \in T
  <2>1. i + (k + 1) \in 1..n /\ i + (k + 1) > i /\ (i + (k + 1)) - 1 = i + k /\ k + 1 \in 0..n - i
    BY <1>1, <1>3
  <2>2. painted[i + k].pixels[p] = colour
    BY <1>7
  <2> HIDE DEF colour
  <2>3. painted[i + (k + 1)].pixels[p] = colour
    BY <1>3, <1>5, <2>1, <2>2
  <2> QED  BY <2>1, <2>3
<1>8. n - i \in T
  <2> HIDE DEF T
  <2>1. n - i \in Nat
    BY <1>1, <1>3
  <2>2. \A k \in 0..n - i : k \in T
    BY <1>6, <1>7, <2>1, Induction
  <2> QED  BY <2>1, <2>2
<1>9. i + (n - i) = n
  BY <1>1, <1>3
<1> QED  BY <1>4, <1>8, <1>9 DEF picture_, strokes

\* The cards of a deck begin one after the other, the first at zero.
LEMMA CardsBegin ==
    ASSUME NEW cards, Timed(cards)
    PROVE  /\ \A i \in 1..Len(cards) + 1 : Begins(cards, i) \in Nat
           /\ Begins(cards, 1) = 0
           /\ \A i \in 1..Len(cards) :
                 Begins(cards, i + 1) = Begins(cards, i) + Segment(cards[i])
<1> DEFINE n    == Len(cards)
           P(f) == f = [j \in 1..n + 1 |-> IF j = 1 THEN 0 ELSE f[j - 1] + Segment(cards[j - 1])]
           begin == CHOOSE f : P(f)
           F    == [i \in 1..n |-> [x \in Nat |-> x + Segment(cards[i])]]
<1>1. n \in Nat /\ \A i \in 1..n : Segment(cards[i]) \in Nat
  BY DEF Timed, MoveMade, Segment
<1>2. \A i : Begins(cards, i) = begin[i]
  BY DEF Begins
<1> HIDE DEF n
<1>3. Stepwise(n, Nat, 0, F)
  <2>1. F \in [1..n -> [Nat -> Nat]]
    BY <1>1
  <2> HIDE DEF F
  <2> QED  BY <1>1, <2>1 DEF Stepwise
<1>4. PICK g \in [0..n -> Nat] : g[0] = 0 /\ \A i \in 1..n : g[i] = F[i][g[i - 1]]
  <2> HIDE DEF F
  <2> QED  BY <1>3, Recursion
<1> DEFINE h == [j \in 1..n + 1 |-> g[j - 1]]
<1>5. P(h)
  <2>1. ASSUME NEW j \in 1..n + 1
        PROVE  h[j] = IF j = 1 THEN 0 ELSE h[j - 1] + Segment(cards[j - 1])
    <3>1. CASE j = 1
      BY <1>4, <3>1
    <3>2. CASE j # 1
      <4>1. j - 1 \in 1..n /\ j - 1 \in 1..n + 1 /\ (j - 1) - 1 \in 0..n
        BY <1>1, <3>2
      <4>2. g[j - 1] = g[(j - 1) - 1] + Segment(cards[j - 1])
        BY <1>4, <4>1
      <4> QED  BY <3>2, <4>1, <4>2
    <3> QED  BY <3>1, <3>2
  <2> QED  BY <2>1
<1>6. P(begin)
  <2> HIDE DEF h
  <2> QED  BY <1>5, Zenon
<1> HIDE DEF begin, h
<1> DEFINE S == {k \in 0..n : begin[k + 1] \in Nat}
<1>7. begin[1] = 0
  BY <1>1, <1>6
<1>8. ASSUME NEW i \in 1..n PROVE begin[i + 1] = begin[i] + Segment(cards[i])
  <2>1. i + 1 \in 1..n + 1 /\ i + 1 # 1 /\ (i + 1) - 1 = i
    BY <1>1
  <2> QED  BY <1>6, <2>1
<1>9. 0 \in S
  BY <1>1, <1>7
<1>10. ASSUME NEW k \in 0..n - 1, k \in S PROVE k + 1 \in S
  <2>1. k + 1 \in 1..n /\ k + 1 \in 0..n /\ begin[k + 1] \in Nat
    BY <1>1, <1>10
  <2>2. begin[(k + 1) + 1] \in Nat
    BY <1>1, <1>8, <2>1
  <2> QED  BY <2>1, <2>2
<1> HIDE DEF S
<1>11. ASSUME NEW i \in 1..n + 1 PROVE begin[i] \in Nat
  <2>1. \A k \in 0..n : k \in S
    BY <1>1, <1>9, <1>10, Induction
  <2>2. i - 1 \in 0..n /\ (i - 1) + 1 = i
    BY <1>1
  <2> QED  BY <2>1, <2>2 DEF S
<1> QED  BY <1>2, <1>7, <1>8, <1>11 DEF n

\* At every instant it is the turn of one card of the deck.
LEMMA CardActive ==
    ASSUME NEW cards, Timed(cards), Len(cards) > 0, NEW at \in Nat
    PROVE  LET position == Position(cards, at)
               i        == Active(cards, position)
           IN  /\ Begins(cards, Len(cards) + 1) \in Nat \ {0}
               /\ position = at % Begins(cards, Len(cards) + 1)
               /\ i \in 1..Len(cards)
               /\ Begins(cards, i) <= position /\ position < Begins(cards, i + 1)
<1> DEFINE n        == Len(cards)
           position == Position(cards, at)
           T        == {i \in 1..n : position < Begins(cards, i + 1)}
<1>1. n \in Nat /\ DOMAIN cards = 1..n
  BY DEF Timed
<1>2. /\ \A i \in 1..n + 1 : Begins(cards, i) \in Nat
      /\ Begins(cards, 1) = 0
      /\ \A i \in 1..n : Begins(cards, i + 1) = Begins(cards, i) + Segment(cards[i])
  BY CardsBegin
<1>3. Begins(cards, n + 1) \in Nat /\ Begins(cards, n + 1) > 0
  <2>1. Segment(cards[n]) \in Nat /\ Segment(cards[n]) > 0
    BY <1>1 DEF Timed, MoveMade, Segment
  <2>2. n \in 1..n + 1 /\ n \in 1..n /\ n + 1 \in 1..n + 1
    BY <1>1
  <2> QED  BY <1>2, <2>1, <2>2
<1>4. /\ position \in Nat /\ position < Begins(cards, n + 1)
      /\ position = at % Begins(cards, n + 1)
  <2>1. position = at % Begins(cards, n + 1)
    BY DEF Position
  <2> QED  BY <1>3, <2>1
<1> HIDE DEF position
<1>5. n \in T
  BY <1>1, <1>4
<1>6. PICK i \in T : \A j \in T : i <= j
  <2>1. T \in SUBSET (1..n) /\ T # {}
    BY <1>5
  <2> HIDE DEF T
  <2> QED  BY <1>1, <2>1, Least
<1>7. Begins(cards, i) <= position
  <2>1. CASE i = 1
    BY <1>2, <1>4, <2>1
  <2>2. CASE i # 1
    <3>1. i - 1 \in 1..n /\ (i - 1) + 1 = i /\ i \in 1..n + 1 /\ ~(i <= i - 1)
      BY <1>1, <2>2
    <3>2. i - 1 \notin T
      <4> HIDE DEF T
      <4> QED  BY <1>6, <3>1
    <3>3. ~(position < Begins(cards, i))
      BY <3>1, <3>2
    <3> QED  BY <1>2, <1>4, <3>1, <3>3
  <2> QED  BY <2>1, <2>2
<1>8. \E j \in DOMAIN cards : /\ Begins(cards, j) <= position
                              /\ j = Len(cards) \/ position < Begins(cards, j + 1)
  BY <1>1, <1>6, <1>7
<1> DEFINE active == Active(cards, position)
<1>9. /\ active \in DOMAIN cards
      /\ Begins(cards, active) <= position
      /\ active = Len(cards) \/ position < Begins(cards, active + 1)
  BY <1>8, Zenon DEF Active
<1> HIDE DEF active
<1>10. active \in 1..n /\ position < Begins(cards, active + 1)
  BY <1>1, <1>4, <1>9
<1> QED  BY <1>3, <1>4, <1>9, <1>10 DEF active, position, n

\* Render gives a picture at every instant, in a transition too.
LEMMA Shown ==
    ASSUME NEW c, Showable(c), NEW known, NEW at \in Nat, NEW short,
           Ready(c, known, at, short)
    PROVE  Render(c, known, at, short).success = TRUE
<1>1. Sized(c.display) /\ Timed(c.cards) /\ Len(c.cards) \in Nat
  BY DEF Showable, Timed
<1>2. CASE c.cards = <<>>
  <2>1. Drawable(Still(c), c.display)
    BY <1>2 DEF Still, Showable, Drawable
  <2>2. Render(c, known, at, short) = RenderContent(c, known, Still(c), at, short)
    BY <1>2 DEF Render
  <2> QED  BY <1>1, <2>1, <2>2, ContentRendered DEF Shot
<1>3. CASE c.cards # <<>> /\ Len(c.cards) <= 1
  <2>1. 1 \in 1..Len(c.cards)
    BY <1>1, <1>3, EmptySeq DEF Timed
  <2>2. Drawable(Still(c), c.display)
    BY <1>3, <2>1 DEF Still, Showable
  <2>3. Render(c, known, at, short) = RenderContent(c, known, Still(c), at, short)
    BY <1>3 DEF Render
  <2> QED  BY <1>1, <2>2, <2>3, ContentRendered DEF Shot
<1>4. CASE Len(c.cards) > 1
  <2> DEFINE n        == Len(c.cards)
             position == Position(c.cards, at)
             i        == Active(c.cards, position)
             picture_(card) == RenderContent(c, known, card.content, at, short)
  <2>1. Render(c, known, at, short) =
            DeckPicture(c.display, c.cards[i], position - Begins(c.cards, i),
                        picture_(c.cards[i]), picture_(c.cards[(i % n) + 1]), short)
    BY <1>1, <1>4 DEF Render, RenderDeck
  <2>2. i \in 1..n
    BY <1>1, <1>4, CardActive
  <2>3. (i % n) + 1 \in 1..n
    <3>1. n \in Nat /\ n > 1
      BY <1>1, <1>4
    <3> HIDE DEF i, n
    <3> QED  BY <2>2, <3>1
  <2>4. ASSUME NEW k \in 1..n PROVE picture_(c.cards[k]).success = TRUE
    BY <1>1, ContentRendered DEF Showable, Shot
  <2> DEFINE from == picture_(c.cards[i])
             to   == picture_(c.cards[(i % n) + 1])
  <2>5. from.success = TRUE /\ to.success = TRUE
    BY <2>2, <2>3, <2>4
  <2>6. Render(c, known, at, short) =
            DeckPicture(c.display, c.cards[i], position - Begins(c.cards, i), from, to, short)
    BY <2>1
  <2> HIDE DEF from, to, i, position
  <2> QED  BY <2>5, <2>6 DEF DeckPicture
<1>5. Len(c.cards) <= 1 \/ Len(c.cards) > 1
  BY <1>1
<1> QED  BY <1>2, <1>3, <1>4, <1>5

-----------------------------------------------------------------------------
(* Widgets as they are read. *)

\* Bounds that the parser accepts are on the display.
LEMMA OwnBoundsFit ==
    ASSUME NEW display, NEW item, NEW r \in OwnBounds(item, display)
    PROVE  OnDisplay(r, display)
  BY DEF OwnBounds, OnDisplay, Rects, Rect, Coordinates, Extents, Bounded

\* The bounds of an item lie on the display, its own and the assigned ones.
LEMMA BoundsFit ==
    ASSUME NEW display, NEW item, NEW assigned, Assigned(assigned, display),
           Bounds(item, assigned, display) # {}
    PROVE  OnDisplay(Or(Bounds(item, assigned, display), <<>>), display)
<1>1. Or(Bounds(item, assigned, display), <<>>) \in Bounds(item, assigned, display)
  BY OrElement
<1>2. \A r \in Bounds(item, assigned, display) : OnDisplay(r, display)
  BY OwnBoundsFit DEF Bounds, Assigned
<1> QED  BY <1>1, <1>2

\* What every kind of widget has is in the widget.
LEMMA WidgetFields ==
    ASSUME NEW kind, NEW item, NEW bounds, NEW more
    PROVE  LET w == Widget(kind, item, bounds, more)
           IN  /\ w.kind = kind
               /\ w.rect = Or(bounds, <<>>)
               /\ \A field \in DOMAIN more \ {"kind", "id", "source", "rect"} :
                     w[field] = more[field]
  BY DEF Widget

\* A colour that is read is one, if its default is one.
LEMMA ColourRead == ASSUME NEW field, NEW d \in Inks PROVE Or(Colours(field), d) \in Inks
  BY OrElement, OrDefault DEF Colours, Inks

\* Black is a colour.
LEMMA Black == 0 \in Inks
  BY FieldsAssumption DEF Inks

\* The widgets that the parsers of their kinds accept can be drawn.
LEMMA BarMade ==
    ASSUME NEW display, Sized(display), NEW item, NEW bounds, OnDisplay(Or(bounds, <<>>), display),
           NEW w \in BarRead(item, bounds, display)
    PROVE  WellMade(w, display)
<1> DEFINE more == [minimum |-> Or(item.minimum, 0), maximum |-> Or(item.maximum, 100),
                    direction |-> Or(item.direction, "right"),
                    track |-> Or(Colours(item.track_color), display.background)]
<1>1. /\ w = Widget("bar", item, bounds, more)
      /\ item.minimum \cup item.maximum \subseteq Int
      /\ Or(item.maximum, 100) > Or(item.minimum, 0)
      /\ item.direction \subseteq Directions
  BY DEF BarRead
<1>2. Or(item.minimum, 0) \in Int /\ Or(item.maximum, 100) \in Int
  <2>1. Or(item.minimum, 0) \in Int
    <3>1. CASE item.minimum = {}
      BY <3>1, OrDefault
    <3>2. CASE item.minimum # {}
      BY <1>1, <3>2, OrElement
    <3> QED  BY <3>1, <3>2
  <2>2. Or(item.maximum, 100) \in Int
    <3>1. CASE item.maximum = {}
      BY <3>1, OrDefault
    <3>2. CASE item.maximum # {}
      BY <1>1, <3>2, OrElement
    <3> QED  BY <3>1, <3>2
  <2> QED  BY <2>1, <2>2
<1>3. Or(item.direction, "right") \in Directions
  <2>1. CASE item.direction = {}
    BY <2>1, OrDefault DEF Directions
  <2>2. CASE item.direction # {}
    BY <1>1, <2>2, OrElement
  <2> QED  BY <2>1, <2>2
<1>4. /\ more.minimum = Or(item.minimum, 0) /\ more.maximum = Or(item.maximum, 100)
      /\ more.direction = Or(item.direction, "right")
      /\ more.track = Or(Colours(item.track_color), display.background)
      /\ DOMAIN more = {"minimum", "maximum", "direction", "track"}
  OBVIOUS
<1> HIDE DEF more
<1>5. /\ w.kind = "bar" /\ w.rect = Or(bounds, <<>>)
      /\ w.minimum = more.minimum /\ w.maximum = more.maximum /\ w.direction = more.direction
      /\ w.track = more.track
  BY <1>1, <1>4, WidgetFields
<1>6. w.track \in Inks
  BY <1>4, <1>5, ColourRead DEF Sized
<1> QED  BY <1>1, <1>2, <1>3, <1>4, <1>5, <1>6 DEF WellMade

\* A status grid that is read is well made.
LEMMA GridMade ==
    ASSUME NEW display, NEW item, NEW bounds, OnDisplay(Or(bounds, <<>>), display),
           NEW w \in GridRead(item, bounds)
    PROVE  WellMade(w, display)
<1> DEFINE count == Len(item.sources)
           gap   == Or(Coordinates(item.gap), 0)
           more(columns) == [sources |-> item.sources, columns |-> columns, gap |-> gap]
<1>1. PICK columns \in Bounded(item.columns, 1, count) :
          /\ w = Widget("status_grid", item, bounds, more(columns))
          /\ count \in 1..Limit.widgets
          /\ GridFits(Or(bounds, <<>>), count, columns, gap)
  BY DEF GridRead
<1>2. gap \in Nat
  <2>1. CASE Coordinates(item.gap) = {}
    BY <2>1, OrDefault
  <2>2. CASE Coordinates(item.gap) # {}
    <3>1. gap \in Coordinates(item.gap)
      BY <2>2, OrElement
    <3> QED  BY <3>1 DEF Coordinates, Bounded
  <2> QED  BY <2>1, <2>2
<1>3. columns \in 1..count /\ count \in Nat
  BY <1>1 DEF Bounded
<1> HIDE DEF count, gap
<1>4. /\ more(columns).sources = item.sources /\ more(columns).columns = columns
      /\ more(columns).gap = gap
      /\ DOMAIN more(columns) = {"sources", "columns", "gap"}
  OBVIOUS
<1>5. /\ w.kind = "status_grid" /\ w.rect = Or(bounds, <<>>)
      /\ w.sources = item.sources /\ w.columns = columns /\ w.gap = gap
  <2> DEFINE m == more(columns)
  <2>1. w = Widget("status_grid", item, bounds, m)
    BY <1>1
  <2> HIDE DEF m
  <2>2. w.kind = "status_grid" /\ w.rect = Or(bounds, <<>>)
        /\ w.sources = m.sources /\ w.columns = m.columns /\ w.gap = m.gap
    BY <2>1, <1>4, WidgetFields DEF m
  <2> QED  BY <2>2, <1>4 DEF m
<1>6. Len(w.sources) = count
  BY <1>5 DEF count
<1> QED  BY <1>1, <1>2, <1>3, <1>5, <1>6 DEF WellMade, GridFits

\* parse_layout_widget makes only widgets that can be drawn.
LEMMA WidgetMade ==
    ASSUME NEW display, Sized(display), NEW item, NEW assigned, Assigned(assigned, display),
           NEW w \in ParseWidget(item, assigned, display).value
    PROVE  WellMade(w, display)
<1> DEFINE bounds == Bounds(item, assigned, display)
           type   == Or(item.type, "")
<1>1. bounds # {}
  BY DEF ParseWidget
<1>2. OnDisplay(Or(bounds, <<>>), display)
  BY <1>1, BoundsFit
<1> HIDE DEF bounds, type
<1>3. \/ w \in IndicatorRead(item, bounds) \/ w \in ClockRead(item, bounds)
      \/ w \in BarRead(item, bounds, display) \/ w \in GridRead(item, bounds)
      \/ w \in BitmapRead(item, bounds) \/ w \in AggregateRead(item, bounds, display)
  BY DEF ParseWidget, bounds, type
<1>4. CASE w \in IndicatorRead(item, bounds)
  BY <1>2, <1>4, WidgetFields DEF IndicatorRead, WellMade
<1>5. CASE w \in ClockRead(item, bounds)
  <2> DEFINE more(zone) == [colour |-> Or(Colours(item.color), 0), timezone |-> zone]
  <2>1. PICK zone :
            /\ w = Widget("clock", item, bounds, more(zone))
            /\ Or(bounds, <<>>).width >= Limit.clock_width
            /\ Or(bounds, <<>>).height >= Limit.clock_height
    BY <1>5 DEF ClockRead
  <2>2. w.kind = "clock" /\ w.rect = Or(bounds, <<>>) /\ w.colour = Or(Colours(item.color), 0)
    <3> DEFINE m == more(zone)
    <3>1. w = Widget("clock", item, bounds, m)
      BY <2>1
    <3>2. m.colour = Or(Colours(item.color), 0) /\ DOMAIN m = {"colour", "timezone"}
      OBVIOUS
    <3> HIDE DEF m
    <3> QED  BY <3>1, <3>2, WidgetFields
  <2>3. w.colour \in Inks
    BY <2>2, ColourRead, Black
  <2> QED  BY <1>2, <2>1, <2>2, <2>3 DEF WellMade
<1>6. CASE w \in BarRead(item, bounds, display)
  BY <1>2, <1>6, BarMade
<1>7. CASE w \in GridRead(item, bounds)
  BY <1>2, <1>7, GridMade
<1>8. CASE w \in BitmapRead(item, bounds)
  <2> DEFINE more == [palette |-> item.palette, pixels |-> item.pixels]
             r    == Or(bounds, <<>>)
  <2>1. /\ w = Widget("bitmap", item, bounds, more)
        /\ BitmapProper(item.palette, item.pixels, r.width, r.height)
    BY <1>8 DEF BitmapRead
  <2>2. /\ more.palette = item.palette /\ more.pixels = item.pixels
        /\ DOMAIN more = {"palette", "pixels"}
    OBVIOUS
  <2> HIDE DEF more
  <2>3. /\ w.kind = "bitmap" /\ w.rect = r
        /\ w.palette = more.palette /\ w.pixels = more.pixels
    BY <2>1, <2>2, WidgetFields
  <2> QED  BY <1>2, <2>1, <2>2, <2>3 DEF WellMade
<1>9. CASE w \in AggregateRead(item, bounds, display)
  <2> DEFINE more == [sources |-> item.sources, priority |-> item.priority,
                      colors |-> item.colors,
                      default |-> Or(Colours(item.default_color), display.background)]
  <2>1. /\ w = Widget("aggregate_status", item, bounds, more)
        /\ Len(item.priority) \in Nat
        /\ DOMAIN item.colors = {item.priority[i] : i \in 1..Len(item.priority)}
        /\ \A name \in DOMAIN item.colors : item.colors[name] \in Inks
    BY <1>9 DEF AggregateRead, Colours, Inks
  <2>2. /\ more.priority = item.priority /\ more.colors = item.colors
        /\ more.default = Or(Colours(item.default_color), display.background)
        /\ DOMAIN more = {"sources", "priority", "colors", "default"}
    OBVIOUS
  <2> HIDE DEF more
  <2>3. /\ w.kind = "aggregate_status" /\ w.rect = Or(bounds, <<>>)
        /\ w.priority = more.priority /\ w.colors = more.colors /\ w.default = more.default
    BY <2>1, <2>2, WidgetFields
  <2>4. w.priority = item.priority /\ w.colors = item.colors /\ w.default \in Inks
    BY <2>2, <2>3, ColourRead DEF Sized
  <2> QED  BY <1>2, <2>1, <2>3, <2>4 DEF WellMade
<1> QED  BY <1>3, <1>4, <1>5, <1>6, <1>7, <1>8, <1>9

-----------------------------------------------------------------------------
(* The places of a layout. *)

\* Prefix sums of natural numbers are a function,
LEMMA SumExists ==
    ASSUME NEW n \in Nat, NEW parts \in [1..n -> Nat]
    PROVE  \E f : Summing(n, parts, f)
<1> DEFINE F == [i \in 1..n |-> [x \in Nat |-> x + parts[i]]]
<1>1. Stepwise(n, Nat, 0, F)
  <2>1. F \in [1..n -> [Nat -> Nat]]
    OBVIOUS
  <2> HIDE DEF F
  <2> QED  BY <2>1 DEF Stepwise
<1>2. PICK g \in [0..n -> Nat] : g[0] = 0 /\ \A i \in 1..n : g[i] = F[i][g[i - 1]]
  <2> DEFINE m == n
  <2> HIDE DEF F
  <2>1. Stepwise(m, Nat, 0, F)
    BY <1>1
  <2> HIDE DEF m
  <2>2. \E g \in [0..m -> Nat] : g[0] = 0 /\ \A i \in 1..m : g[i] = F[i][g[i - 1]]
    BY <2>1, Recursion
  <2> QED  BY <2>2 DEF m
<1>3. \A i \in 1..n : i - 1 \in 0..n /\ g[i] = g[i - 1] + parts[i]
  <2> TAKE i \in 1..n
  <2>1. i - 1 \in 0..n /\ g[i - 1] \in Nat
    BY <1>2
  <2>2. F[i][g[i - 1]] = g[i - 1] + parts[i]
    BY <2>1
  <2> QED  BY <1>2, <2>1, <2>2
<1>4. Summing(n, parts, g)
  BY <1>2, <1>3 DEF Summing
<1> QED  BY <1>4

\* and they increase up to the sum of all.
LEMMA SumProperties ==
    ASSUME NEW n \in Nat, NEW parts \in [1..n -> Nat], NEW f, Summing(n, parts, f)
    PROVE  /\ f \in [0..n -> Nat]
           /\ f[0] = 0
           /\ \A i \in 1..n : f[i] = f[i - 1] + parts[i]
           /\ \A i \in 0..n : f[i] <= f[n]
<1>1. f[0] = 0 /\ \A i \in 1..n : f[i] = f[i - 1] + parts[i]
  BY DEF Summing
<1> DEFINE S == {k \in 0..n : f[k] \in Nat /\ \A i \in 0..k : f[i] \in Nat /\ f[i] <= f[k]}
<1>2. 0 \in S
  BY <1>1
<1>3. ASSUME NEW k \in 0..n - 1, k \in S PROVE k + 1 \in S
  <2>1. /\ k + 1 \in 1..n /\ (k + 1) - 1 = k /\ f[k] \in Nat
        /\ \A i \in 0..k : f[i] \in Nat /\ f[i] <= f[k]
    BY <1>3
  <2>2. f[k + 1] = f[k] + parts[k + 1] /\ parts[k + 1] \in Nat
    BY <1>1, <2>1
  <2>3. f[k + 1] \in Nat /\ f[k] <= f[k + 1]
    BY <2>1, <2>2
  <2>4. ASSUME NEW i \in 0..k + 1 PROVE f[i] \in Nat /\ f[i] <= f[k + 1]
    <3>1. CASE i = k + 1
      BY <2>3, <3>1
    <3>2. CASE i # k + 1
      <4>1. i \in 0..k
        BY <3>2
      <4> QED  BY <2>1, <2>3, <4>1
    <3> QED  BY <3>1, <3>2
  <2> QED  BY <2>1, <2>3, <2>4
<1> HIDE DEF S
<1>4. \A k \in 0..n : k \in S
  BY <1>2, <1>3, Induction
<1>5. \A k \in 0..n : f[k] \in Nat
  BY <1>4 DEF S
<1>6. \A i \in 0..n : f[i] <= f[n]
  BY <1>4 DEF S
<1>7. f = [i \in 0..n |-> f[i]]
  BY DEF Summing
<1> QED  BY <1>1, <1>5, <1>6, <1>7

\* A child of a layout has a fixed size or a weight.
LEMMA SizeNat ==
    ASSUME NEW child
    PROVE  /\ FixedSize(child) \in Nat
           /\ child.size = {} => FixedSize(child) = 0
           /\ Weight(child) \in Nat \ {0}
<1>1. FixedSize(child) \in Nat
  <2>1. CASE Sizes(child) = {}
    BY <2>1, OrDefault DEF FixedSize
  <2>2. CASE Sizes(child) # {}
    <3>1. FixedSize(child) \in Sizes(child)
      BY <2>2, OrElement DEF FixedSize
    <3> QED  BY <3>1 DEF Sizes, Extents, Bounded
  <2> QED  BY <2>1, <2>2
<1>2. ASSUME child.size = {} PROVE FixedSize(child) = 0
  <2>1. Sizes(child) = {}
    BY <1>2 DEF Sizes, Extents, Bounded
  <2> QED  BY <2>1, OrDefault DEF FixedSize
<1>3. Weight(child) \in Nat \ {0}
  <2> DEFINE found == Bounded(child.weight, 1, Limit.weight)
  <2>1. CASE found = {}
    BY <2>1, OrDefault DEF Weight
  <2>2. CASE found # {}
    <3>1. Weight(child) \in found
      BY <2>2, OrElement DEF Weight
    <3> QED  BY <3>1 DEF Bounded
  <2> QED  BY <2>1, <2>2
<1> QED  BY <1>1, <1>2, <1>3

\* The recursive functions of parse_layout_node are prefix sums.
LEMMA FixedSizesSum ==
    ASSUME NEW children, Len(children) \in Nat
    PROVE  LET n     == Len(children)
               fixed == FixedSizes(children)
           IN  /\ fixed \in [0..n -> Nat]
               /\ fixed[0] = 0
               /\ \A i \in 1..n : fixed[i] = fixed[i - 1] + FixedSize(children[i])
               /\ \A i \in 0..n : fixed[i] <= fixed[n]
<1> DEFINE n     == Len(children)
           parts == [i \in 1..n |-> FixedSize(children[i])]
           P(f)  == f = [i \in 0..n |-> IF i = 0 THEN 0 ELSE f[i - 1] + FixedSize(children[i])]
           upto  == CHOOSE f : P(f)
<1>1. parts \in [1..n -> Nat]
  BY SizeNat
<1>2. FixedSizes(children) = upto
  BY DEF FixedSizes
<1> HIDE DEF n
<1>3. \A f : P(f) <=> Summing(n, parts, f)
  <2> TAKE f
  <2>1. \A i \in 0..n : i # 0 => parts[i] = FixedSize(children[i])
    BY DEF n
  <2>2. [i \in 0..n |-> IF i = 0 THEN 0 ELSE f[i - 1] + FixedSize(children[i])]
            = [i \in 0..n |-> IF i = 0 THEN 0 ELSE f[i - 1] + parts[i]]
    BY <2>1
  <2> QED  BY <2>2 DEF Summing
<1> HIDE DEF parts
<1>4. \E f : P(f)
  BY <1>1, <1>3, SumExists DEF n
<1>5. P(upto)
  BY <1>4, Zenon
<1> HIDE DEF upto
<1>6. Summing(n, parts, upto)
  BY <1>3, <1>5
<1>7. /\ upto \in [0..n -> Nat] /\ upto[0] = 0
      /\ \A i \in 1..n : upto[i] = upto[i - 1] + parts[i]
      /\ \A i \in 0..n : upto[i] <= upto[n]
  BY <1>1, <1>6, SumProperties DEF n
<1> QED  BY <1>2, <1>7 DEF n, parts

\* The weights of the children add up.
LEMMA WeightsSum ==
    ASSUME NEW children, Len(children) \in Nat
    PROVE  LET n       == Len(children)
               weights == Weights(children)
           IN  /\ weights \in [0..n -> Nat]
               /\ weights[0] = 0
               /\ \A i \in 1..n :
                     weights[i] = weights[i - 1]
                                    + (IF children[i].size = {} THEN Weight(children[i]) ELSE 0)
               /\ \A i \in 0..n : weights[i] <= weights[n]
<1> DEFINE n       == Len(children)
           part(i) == IF children[i].size = {} THEN Weight(children[i]) ELSE 0
           parts   == [i \in 1..n |-> part(i)]
           P(f)    == f = [i \in 0..n |-> IF i = 0 THEN 0 ELSE f[i - 1] + part(i)]
           upto    == CHOOSE f : P(f)
<1>1. parts \in [1..n -> Nat]
  BY SizeNat
<1>2. Weights(children) = upto
  BY DEF Weights
<1> HIDE DEF n
<1>3. \A f : P(f) <=> Summing(n, parts, f)
  <2> TAKE f
  <2>1. \A i \in 0..n : i # 0 => parts[i] = part(i)
    BY DEF n
  <2>2. [i \in 0..n |-> IF i = 0 THEN 0 ELSE f[i - 1] + part(i)]
            = [i \in 0..n |-> IF i = 0 THEN 0 ELSE f[i - 1] + parts[i]]
    <3> HIDE DEF part
    <3> QED  BY <2>1
  <2> QED  BY <2>2 DEF Summing
<1> HIDE DEF parts, part
<1>4. \E f : P(f)
  BY <1>1, <1>3, SumExists DEF n
<1>5. P(upto)
  BY <1>4, Zenon
<1> HIDE DEF upto
<1>6. Summing(n, parts, upto)
  BY <1>3, <1>5
<1>7. /\ upto \in [0..n -> Nat] /\ upto[0] = 0
      /\ \A i \in 1..n : upto[i] = upto[i - 1] + parts[i]
      /\ \A i \in 0..n : upto[i] <= upto[n]
  BY <1>1, <1>6, SumProperties DEF n
<1>8. \A i \in 1..n : parts[i] = part(i)
  BY DEF parts
<1> QED  BY <1>2, <1>7, <1>8 DEF n, part

\* The cursor of a layout goes from place to place.
LEMMA CursorSum ==
    ASSUME NEW n, NEW shares, Parted(n, shares), NEW gap, gap \in Nat
    PROVE  Placing(n, shares, gap, Cursor(gap, shares))
<1>0. n \in Nat /\ shares \in [1..n -> Nat]
  BY DEF Parted
<1> DEFINE parts == [i \in 1..n |-> shares[i] + gap]
           P(f)  == f = [i \in 0..n |-> IF i = 0 THEN 0 ELSE f[i - 1] + shares[i] + gap]
           after == CHOOSE f : P(f)
<1>1. parts \in [1..n -> Nat]
  BY <1>0
<1>2. Cursor(gap, shares) = after
  <2>1. Len(shares) = n
    BY <1>0
  <2> QED  BY <2>1 DEF Cursor
<1> HIDE DEF parts
<1>3. PICK g : Summing(n, parts, g)
  BY <1>0, <1>1, SumExists
<1>4. /\ g \in [0..n -> Nat] /\ g[0] = 0
      /\ \A i \in 1..n : g[i] = g[i - 1] + parts[i]
  BY <1>0, <1>1, <1>3, SumProperties
<1>5. \A i \in 1..n : i - 1 \in 0..n /\ g[i] = g[i - 1] + shares[i] + gap
  BY <1>0, <1>4 DEF parts
<1>6. P(g)
  BY <1>4, <1>5
<1>7. P(after)
  BY <1>6, Zenon
<1> HIDE DEF after
<1>8. after = g
  <2>1. Upto(n, after) /\ Upto(n, g) /\ after[0] = g[0]
    BY <1>0, <1>4, <1>7 DEF Upto
  <2>2. ASSUME NEW i \in 1..n, after[i - 1] = g[i - 1] PROVE after[i] = g[i]
    <3>1. after[i] = after[i - 1] + shares[i] + gap
      BY <1>0, <1>7
    <3> QED  BY <1>5, <2>2, <3>1
  <2> QED  BY <1>0, <2>1, <2>2, Agreement
<1> QED  BY <1>2, <1>4, <1>5, <1>8 DEF Placing

\* The shares of a split that fits are places one after the other in the extent, and
\* all of it where there is no gap.
LEMMA SharesFit ==
    ASSUME NEW children, Len(children) \in Nat \ {0}, NEW gap, gap \in Nat,
           NEW extent, extent \in Nat,
           Allocation(children, gap, extent).fits
    PROVE  LET n      == Len(children)
               shares == Allocation(children, gap, extent).shares
               cursor == Cursor(gap, shares)
           IN  /\ shares \in [1..n -> Nat \ {0}]
               /\ \A i \in 1..n : /\ cursor[i - 1] \in Nat
                                  /\ cursor[i - 1] + shares[i] <= extent
               /\ Placing(n, shares, gap, cursor)
               /\ gap = 0 => cursor[n] = extent
<1> DEFINE n       == Len(children)
           fixed   == FixedSizes(children)
           weights == Weights(children)
           gaps    == gap * (n - 1)
           left    == extent - fixed[n] - gaps
           total   == weights[n]
           shares  == Shares(children, left)
           up(i)   == IF total = 0 THEN 0 ELSE (left * weights[i]) \div total
           own(i)  == IF children[i].size = {} THEN Weight(children[i]) ELSE 0
<1>1. /\ Allocation(children, gap, extent).shares = shares
      /\ \A i \in 1..n : shares[i] # 0
      /\ fixed[n] + gaps <= extent
      /\ Cardinality(Weighted(children)) = 0 => left = 0
  BY DEF Allocation
<1>2. /\ fixed \in [0..n -> Nat] /\ fixed[0] = 0
      /\ \A i \in 1..n : fixed[i] = fixed[i - 1] + FixedSize(children[i])
      /\ \A i \in 0..n : fixed[i] <= fixed[n]
  BY FixedSizesSum
<1>3. /\ weights \in [0..n -> Nat] /\ weights[0] = 0
      /\ \A i \in 1..n : weights[i] = weights[i - 1] + own(i)
      /\ \A i \in 0..n : weights[i] <= weights[n]
  BY WeightsSum
<1>4. shares = [i \in 1..n |-> IF children[i].size # {} THEN FixedSize(children[i])
                               ELSE (left * weights[i]) \div total
                                        - (left * weights[i - 1]) \div total]
  BY DEF Shares
<1> HIDE DEF fixed, weights, shares
<1>5. /\ n \in Nat /\ n - 1 \in Nat /\ gaps \in Nat /\ left \in Nat /\ total \in Nat
      /\ \A i \in 1..n : i - 1 \in 0..n /\ i \in 0..n
      /\ fixed[n] + left + gaps = extent
  <2>1. n \in Nat /\ n - 1 \in Nat /\ n \in 0..n
    OBVIOUS
  <2>2. fixed[n] \in Nat /\ total \in Nat
    BY <1>2, <1>3, <2>1
  <2>3. gaps \in Nat
    BY <2>1, ProductNat
  <2> HIDE DEF gaps, n
  <2> QED  BY <1>1, <2>1, <2>2, <2>3
<1> HIDE DEF n, gaps, left
<1>6. ASSUME NEW i \in 0..n
      PROVE  /\ up(i) \in Nat /\ up(i) <= left
             /\ \A j \in 0..n : weights[j] <= weights[i] => up(j) <= up(i)
  <2>1. weights[i] \in Nat /\ weights[i] <= total
    BY <1>3
  <2>2. CASE total = 0
    BY <1>5, <2>2
  <2>3. CASE total # 0
    <3>1. total > 0 /\ left * weights[i] \in Nat
      BY <1>5, <2>1, <2>3, ProductNat
    <3>2. up(i) = (left * weights[i]) \div total
      BY <2>3
    <3>3. up(i) \in Nat
      BY <1>5, <3>1, <3>2, Division
    <3>4. left * weights[i] <= left * total
      BY <1>5, <2>1, ProductMonotone
    <3>5. up(i) <= left
      BY <1>5, <3>1, <3>2, <3>4, DivisionBound
    <3>6. ASSUME NEW j \in 0..n, weights[j] <= weights[i] PROVE up(j) <= up(i)
      <4>1. weights[j] \in Nat /\ left * weights[j] \in Nat
        BY <1>3, <1>5, ProductNat
      <4>2. left * weights[j] <= left * weights[i]
        BY <1>5, <2>1, <3>6, <4>1, ProductMonotone
      <4>3. (left * weights[j]) \div total <= (left * weights[i]) \div total
        BY <1>5, <3>1, <4>1, <4>2, DivisionMonotone
      <4> QED  BY <2>3, <4>3
    <3> QED  BY <3>3, <3>5, <3>6
  <2> QED  BY <2>2, <2>3
<1>7. ASSUME NEW i \in 1..n
      PROVE  /\ shares[i] = (fixed[i] - fixed[i - 1]) + (up(i) - up(i - 1))
             /\ shares[i] \in Nat \ {0}
             /\ up(i - 1) <= up(i)
  <2>1. /\ i \in 0..n /\ i - 1 \in 0..n
        /\ weights[i] = weights[i - 1] + own(i) /\ fixed[i] = fixed[i - 1] + FixedSize(children[i])
        /\ own(i) \in Nat /\ FixedSize(children[i]) \in Nat /\ shares[i] # 0
        /\ weights[i - 1] \in Nat /\ fixed[i - 1] \in Nat /\ weights[i] <= total
    BY <1>1, <1>2, <1>3, <1>5, SizeNat
  <2>2. up(i) \in Nat /\ up(i - 1) \in Nat /\ up(i - 1) <= up(i)
    <3>1. weights[i - 1] <= weights[i]
      <4> HIDE DEF own
      <4> QED  BY <2>1
    <3> HIDE DEF up
    <3> QED  BY <1>6, <2>1, <3>1
  <2>3. CASE children[i].size # {}
    <3>1. weights[i] = weights[i - 1]
      BY <2>1, <2>3
    <3>2. up(i) = up(i - 1)
      BY <3>1
    <3>3. shares[i] = FixedSize(children[i])
      BY <1>4, <2>3
    <3> HIDE DEF up
    <3> QED  BY <2>1, <2>2, <3>2, <3>3
  <2>4. CASE children[i].size = {}
    <3>1. own(i) \in Nat \ {0} /\ FixedSize(children[i]) = 0
      BY <2>4, SizeNat
    <3>2. total # 0
      <4> HIDE DEF own, total
      <4> QED  BY <1>5, <2>1, <3>1
    <3>3. shares[i] = up(i) - up(i - 1)
      BY <1>4, <2>4, <3>2
    <3> HIDE DEF up
    <3> QED  BY <2>1, <2>2, <3>1, <3>3
  <2> QED  BY <2>3, <2>4
<1>8. shares \in [1..n -> Nat \ {0}]
  <2>1. shares = [i \in 1..n |-> shares[i]]
    BY <1>4
  <2> QED  BY <1>7, <2>1
<1> DEFINE cursor == Cursor(gap, shares)
           S == {k \in 0..n : cursor[k] = fixed[k] + up(k) + gap * k}
<1>14. Placing(n, shares, gap, cursor)
  <2>1. Parted(n, shares)
    BY <1>5, <1>8 DEF Parted
  <2> QED  BY <1>5, <2>1, CursorSum
<1>9. cursor[0] = 0 /\ \A i \in 1..n : cursor[i] = cursor[i - 1] + shares[i] + gap
  <2> HIDE DEF cursor
  <2> QED  BY <1>14 DEF Placing
<1> HIDE DEF cursor
<1>10. 0 \in S
  <2>1. 0 \in 0..n /\ gap * 0 = 0
    BY <1>5
  <2>2. up(0) = 0
    <3>1. weights[0] = 0 /\ left * 0 = 0
      BY <1>3, <1>5
    <3> QED  BY <1>5, <3>1
  <2> QED  BY <1>2, <1>9, <2>1, <2>2
<1>11. ASSUME NEW k \in 0..n - 1, k \in S PROVE k + 1 \in S
  <2>1. k + 1 \in 1..n /\ (k + 1) - 1 = k /\ k \in 0..n /\ k + 1 \in 0..n /\ k \in Nat
    BY <1>5
  <2>2. cursor[k] = fixed[k] + up(k) + gap * k
    BY <1>11
  <2>3. cursor[k + 1] = cursor[k] + shares[k + 1] + gap
    BY <1>9, <2>1
  <2>4. shares[k + 1] = (fixed[k + 1] - fixed[k]) + (up(k + 1) - up(k))
    <3> HIDE DEF up
    <3> QED  BY <1>7, <2>1
  <2>5. gap * (k + 1) = gap * k + gap /\ gap * k \in Nat /\ gap * (k + 1) \in Nat
    BY <2>1, ProductOfNext, ProductNat
  <2>6. fixed[k] \in Nat /\ fixed[k + 1] \in Nat /\ up(k) \in Nat /\ up(k + 1) \in Nat
    <3> HIDE DEF up
    <3> QED  BY <1>2, <1>6, <2>1
  <2>7. cursor[k + 1] = fixed[k + 1] + up(k + 1) + gap * (k + 1)
    <3> HIDE DEF up
    <3> DEFINE g == gap * k
               h == gap * (k + 1)
    <3>1. g \in Nat /\ h = g + gap
      BY <2>5
    <3>2. cursor[k] = fixed[k] + up(k) + g
      BY <2>2
    <3> HIDE DEF g, h
    <3>3. cursor[k + 1] = fixed[k + 1] + up(k + 1) + h
      BY <2>3, <2>4, <2>6, <3>1, <3>2, SMTT(30)
    <3> QED  BY <3>3 DEF h
  <2> QED  BY <2>1, <2>7
<1> HIDE DEF S
<1>12. \A k \in 0..n : k \in S
  BY <1>5, <1>10, <1>11, Induction
<1>13. ASSUME NEW i \in 1..n
       PROVE  cursor[i - 1] \in Nat /\ cursor[i - 1] + shares[i] <= extent
  <2>1. i - 1 \in 0..n /\ i \in 0..n /\ i - 1 \in Nat /\ i - 1 <= n - 1
    BY <1>5
  <2>2. cursor[i - 1] = fixed[i - 1] + up(i - 1) + gap * (i - 1)
    BY <1>12, <2>1 DEF S
  <2>3. /\ fixed[i] \in Nat /\ fixed[i - 1] \in Nat /\ fixed[i] <= fixed[n] /\ fixed[n] \in Nat
    <3>1. n \in 0..n
      BY <1>5
    <3> QED  BY <1>2, <2>1, <3>1
  <2>4. gap * (i - 1) \in Nat /\ gap * (i - 1) <= gaps
    BY <1>5, <2>1, ProductNat, ProductMonotone DEF gaps
  <2> DEFINE g == gap * (i - 1)
  <2>5. g \in Nat /\ g <= gaps /\ cursor[i - 1] = fixed[i - 1] + up(i - 1) + g
    BY <2>2, <2>4
  <2> HIDE DEF up, g
  <2>6. up(i) \in Nat /\ up(i - 1) \in Nat /\ up(i) <= left
    BY <1>6, <2>1
  <2>7. shares[i] = (fixed[i] - fixed[i - 1]) + (up(i) - up(i - 1))
    BY <1>7
  <2>8. /\ cursor[i - 1] \in Nat
        /\ cursor[i - 1] + shares[i] = fixed[i] + up(i) + g
    BY <2>3, <2>5, <2>6, <2>7, SMTT(30)
  <2>9. fixed[i] + up(i) + g <= fixed[n] + left + gaps
    <3> DEFINE p == fixed[i]
               q == fixed[n]
               u == up(i)
    <3>1. /\ p \in Nat /\ q \in Nat /\ u \in Nat /\ left \in Nat /\ gaps \in Nat /\ g \in Nat
          /\ p <= q /\ u <= left /\ g <= gaps
      BY <1>5, <2>3, <2>5, <2>6
    <3> HIDE DEF p, q, u
    <3>2. p + u + g <= q + left + gaps
      BY <3>1
    <3> QED  BY <3>2 DEF p, q, u
  <2> QED  BY <1>5, <2>8, <2>9
<1>15. ASSUME gap = 0 PROVE cursor[n] = extent
  <2>1. n \in 0..n /\ gap * n = 0 /\ gaps = 0
    BY <1>5, <1>15 DEF gaps
  <2>2. cursor[n] = fixed[n] + up(n) + 0
    BY <1>12, <2>1 DEF S
  <2>3. up(n) = left
    <3>1. CASE total = 0
      <4>1. Weighted(children) = {}
        <5>1. ASSUME NEW i \in 1..n PROVE children[i].size # {}
          <6>1. weights[i] = weights[i - 1] + own(i) /\ weights[i] <= 0 /\ weights[i - 1] \in Nat
            BY <1>3, <1>5, <3>1
          <6>2. children[i].size = {} => own(i) \in Nat \ {0}
            BY SizeNat
          <6> HIDE DEF own
          <6> QED  BY <6>1, <6>2
        <5> QED  BY <5>1 DEF Weighted, n
      <4>2. Cardinality(Weighted(children)) = 0
        BY <4>1, FS_EmptySet
      <4> QED  BY <1>1, <3>1, <4>2 DEF left, gaps
    <3>2. CASE total # 0
      <4>1. total \in Nat /\ total > 0
        BY <1>5, <3>2
      <4> QED  BY <1>5, <3>2, <4>1, DivisionExact
    <3> QED  BY <3>1, <3>2
  <2>4. fixed[n] \in Nat /\ left \in Nat
    BY <1>2, <1>5, <2>1
  <2> HIDE DEF up
  <2> QED  BY <1>5, <2>1, <2>2, <2>3, <2>4
<1> QED  BY <1>1, <1>8, <1>13, <1>14, <1>15 DEF n, cursor

\* The places of the children of a row or a column lie inside it.
LEMMA PlacesFit ==
    ASSUME NEW display, Sized(display), NEW r, OnDisplay(r, display),
           NEW children, Len(children) \in Nat \ {0}, NEW gap, gap \in Nat,
           NEW type \in {"row", "column"},
           Allocation(children, gap, IF type = "row" THEN r.width ELSE r.height).fits
    PROVE  \A i \in 1..Len(children) :
              OnDisplay(Places(type, r, gap,
                               Allocation(children, gap,
                                          IF type = "row" THEN r.width ELSE r.height).shares)[i],
                        display)
<1> DEFINE extent == IF type = "row" THEN r.width ELSE r.height
           n      == Len(children)
           shares == Allocation(children, gap, extent).shares
           cursor == Cursor(gap, shares)
<1>1. /\ r.x \in Nat /\ r.y \in Nat /\ r.width \in Nat /\ r.height \in Nat
      /\ r = [x |-> r.x, y |-> r.y, width |-> r.width, height |-> r.height]
      /\ r.width # 0 /\ r.height # 0
  BY DEF OnDisplay, Rects, Fits
<1>2. /\ shares \in [1..n -> Nat \ {0}]
      /\ \A i \in 1..n : cursor[i - 1] \in Nat /\ cursor[i - 1] + shares[i] <= extent
  <2>1. extent \in Nat
    BY <1>1
  <2> HIDE DEF extent
  <2>2. Allocation(children, gap, extent).fits
    BY DEF extent
  <2> QED  BY <2>1, <2>2, SharesFit
<1> HIDE DEF shares, cursor
<1> SUFFICES ASSUME NEW i \in 1..n PROVE OnDisplay(Places(type, r, gap, shares)[i], display)
  BY DEF shares
<1>3. Len(shares) = n
  <2>1. n \in Nat
    OBVIOUS
  <2> HIDE DEF n
  <2> QED  BY <1>2, <2>1
<1> DEFINE p == Places(type, r, gap, shares)[i]
<1>4. p = IF type = "row"
          THEN [r EXCEPT !.x = @ + cursor[i - 1], !.width = shares[i]]
          ELSE [r EXCEPT !.y = @ + cursor[i - 1], !.height = shares[i]]
  BY <1>3 DEF Places, cursor
<1> HIDE DEF p
<1>5. shares[i] \in Nat \ {0} /\ cursor[i - 1] \in Nat /\ cursor[i - 1] + shares[i] <= extent
  BY <1>2
<1>6. /\ p \in Rects /\ p.width # 0 /\ p.height # 0 /\ r.x <= p.x /\ r.y <= p.y
      /\ p.x + p.width <= r.x + r.width /\ p.y + p.height <= r.y + r.height
  <2>1. CASE type = "row"
    <3>1. p = [x |-> r.x + cursor[i - 1], y |-> r.y, width |-> shares[i], height |-> r.height]
      BY <1>1, <1>4, <2>1
    <3>2. cursor[i - 1] + shares[i] <= r.width
      BY <1>5, <2>1
    <3> QED  BY <1>1, <1>5, <3>1, <3>2, SMTT(30) DEF Rects
  <2>2. CASE type = "column"
    <3>1. p = [x |-> r.x, y |-> r.y + cursor[i - 1], width |-> r.width, height |-> shares[i]]
      BY <1>1, <1>4, <2>2
    <3>2. cursor[i - 1] + shares[i] <= r.height
      BY <1>5, <2>2
    <3> QED  BY <1>1, <1>5, <3>1, <3>2, SMTT(30) DEF Rects
  <2> QED  BY <2>1, <2>2
<1>7. OnDisplay(p, display)
  BY <1>6, WithinFits
<1> QED  BY <1>7 DEF p

\* A cursor that is placed comes to the later places later.
LEMMA CursorOrder ==
    ASSUME NEW n, NEW shares, Parted(n, shares), NEW gap \in Nat, NEW cursor,
           Placing(n, shares, gap, cursor)
    PROVE  /\ \A i \in 0..n : cursor[i] \in Nat
           /\ \A i, j \in 1..n : i < j => cursor[i - 1] + shares[i] <= cursor[j - 1]
<1> DEFINE S == {k \in 0..n : \A i \in 0..k : cursor[i] \in Nat /\ cursor[i] <= cursor[k]}
<1>1. n \in Nat /\ shares \in [1..n -> Nat]
  BY DEF Parted
<1>2. cursor[0] = 0 /\ \A i \in 1..n : cursor[i] = cursor[i - 1] + shares[i] + gap
  BY DEF Placing
<1>3. 0 \in S
  BY <1>1, <1>2
<1>4. ASSUME NEW k \in 0..n - 1, k \in S PROVE k + 1 \in S
  <2>1. k + 1 \in 1..n /\ (k + 1) - 1 = k /\ k \in Nat
    BY <1>1
  <2>2. cursor[k] \in Nat /\ \A i \in 0..k : cursor[i] \in Nat /\ cursor[i] <= cursor[k]
    BY <1>4, <2>1
  <2>3. cursor[k + 1] = cursor[k] + shares[k + 1] + gap /\ shares[k + 1] \in Nat
    BY <1>1, <1>2, <2>1
  <2>4. cursor[k + 1] \in Nat /\ cursor[k] <= cursor[k + 1]
    BY <2>2, <2>3
  <2>5. ASSUME NEW i \in 0..k + 1 PROVE cursor[i] \in Nat /\ cursor[i] <= cursor[k + 1]
    <3>1. CASE i = k + 1
      BY <2>4, <3>1
    <3>2. CASE i \in 0..k
      BY <2>2, <2>4, <3>2
    <3> QED  BY <2>1, <3>1, <3>2
  <2> QED  BY <2>1, <2>5
<1> HIDE DEF S
<1>5. \A k \in 0..n : k \in S
  BY <1>1, <1>3, <1>4, Induction
<1>6. \A k \in 0..n : \A i \in 0..k : cursor[i] \in Nat /\ cursor[i] <= cursor[k]
  BY <1>5 DEF S
<1>7. ASSUME NEW i \in 1..n, NEW j \in 1..n, i < j
      PROVE  cursor[i - 1] + shares[i] <= cursor[j - 1]
  <2>1. i \in 0..j - 1 /\ j - 1 \in 0..n /\ i - 1 \in 0..j - 1 /\ shares[i] \in Nat
    BY <1>1, <1>7
  <2>2. cursor[i] <= cursor[j - 1] /\ cursor[i] \in Nat /\ cursor[i - 1] \in Nat
        /\ cursor[j - 1] \in Nat
    BY <1>6, <2>1
  <2>3. cursor[i] = cursor[i - 1] + shares[i] + gap
    BY <1>2
  <2> QED  BY <2>1, <2>2, <2>3
<1> QED  BY <1>1, <1>6, <1>7

\* Without gaps every pixel before the last place ends is in a place.
LEMMA CursorReaches ==
    ASSUME NEW n, NEW shares, Parted(n, shares), NEW cursor, Placing(n, shares, 0, cursor),
           NEW q \in Nat, q < cursor[n]
    PROVE  \E i \in 1..n : cursor[i - 1] <= q /\ q < cursor[i - 1] + shares[i]
<1> DEFINE T == {i \in 1..n : q < cursor[i]}
<1>1. n \in Nat /\ shares \in [1..n -> Nat]
  BY DEF Parted
<1>2. cursor[0] = 0 /\ \A i \in 1..n : cursor[i] = cursor[i - 1] + shares[i] + 0
  BY DEF Placing
<1>3. \A i \in 0..n : cursor[i] \in Nat
  BY CursorOrder
<1>4. n \in T
  <2>1. n # 0
    BY <1>2
  <2> QED  BY <1>1, <2>1
<1>5. PICK i \in T : \A j \in T : i <= j
  <2> HIDE DEF T
  <2>1. T \in SUBSET (1..n)
    BY DEF T
  <2> QED  BY <1>1, <1>4, <2>1, Least
<1>6. i \in 1..n /\ i - 1 \in 0..n /\ i - 1 \notin T
  BY <1>1, <1>5
<1>7. cursor[i - 1] <= q
  BY <1>1, <1>2, <1>3, <1>6
<1>8. cursor[i] = cursor[i - 1] + shares[i]
  BY <1>1, <1>2, <1>3, <1>6
<1> QED  BY <1>5, <1>6, <1>7, <1>8

\* The places of the children of a row or a column are parts of it with no pixel in
\* common, and all of it where there is no gap.
LEMMA PlacesPart ==
    ASSUME NEW r \in Rects, NEW children, Len(children) \in Nat \ {0}, NEW gap \in Nat,
           NEW type \in {"row", "column"},
           Allocation(children, gap, IF type = "row" THEN r.width ELSE r.height).fits,
           NEW p, p[1] \in Nat, p[2] \in Nat
    PROVE  LET n      == Len(children)
               extent == IF type = "row" THEN r.width ELSE r.height
               places == Places(type, r, gap, Allocation(children, gap, extent).shares)
           IN  /\ \A i \in 1..n : Inside(p, places[i]) => Inside(p, r)
               /\ Apart(p, n, places)
               /\ gap = 0 /\ Inside(p, r) => Met(p, n, places)
<1> DEFINE n      == Len(children)
           extent == IF type = "row" THEN r.width ELSE r.height
           shares == Allocation(children, gap, extent).shares
           places == Places(type, r, gap, shares)
           cursor == Cursor(gap, shares)
           at     == IF type = "row" THEN p[1] ELSE p[2]
           start  == IF type = "row" THEN r.x ELSE r.y
           across == IF type = "row" THEN r.y <= p[2] /\ p[2] < r.y + r.height
                                     ELSE r.x <= p[1] /\ p[1] < r.x + r.width
<1>1. /\ r.x \in Nat /\ r.y \in Nat /\ r.width \in Nat /\ r.height \in Nat
      /\ r = [x |-> r.x, y |-> r.y, width |-> r.width, height |-> r.height]
  BY DEF Rects
<1>2. extent \in Nat /\ start \in Nat /\ at \in Nat /\ n \in Nat \ {0}
  BY <1>1
<1>3. /\ shares \in [1..n -> Nat \ {0}]
      /\ \A i \in 1..n : cursor[i - 1] \in Nat /\ cursor[i - 1] + shares[i] <= extent
      /\ Placing(n, shares, gap, cursor)
      /\ gap = 0 => cursor[n] = extent
  <2> HIDE DEF extent
  <2>1. Allocation(children, gap, extent).fits
    BY DEF extent
  <2> QED  BY <1>2, <2>1, SharesFit, ZenonT(30)
<1>4. Inside(p, r) <=> across /\ start <= at /\ at < start + extent
  BY <1>1 DEF Inside
<1> HIDE DEF shares, n, cursor
<1>5. Parted(n, shares)
  BY <1>2, <1>3 DEF Parted
<1>6. ASSUME NEW i \in 1..n
      PROVE  Inside(p, places[i]) <=>
                /\ across
                /\ start + cursor[i - 1] <= at /\ at < start + cursor[i - 1] + shares[i]
  <2>1. Len(shares) = n
    BY <1>2, <1>3
  <2>2. /\ places[i] = IF type = "row"
                       THEN [r EXCEPT !.x = @ + cursor[i - 1], !.width = shares[i]]
                       ELSE [r EXCEPT !.y = @ + cursor[i - 1], !.height = shares[i]]
    BY <2>1 DEF Places, cursor
  <2> DEFINE c == cursor[i - 1]
             s == shares[i]
             place == places[i]
  <2>3. c \in Nat /\ s \in Nat
    BY <1>3
  <2> HIDE DEF place, c, s
  <2>4. CASE type = "row"
    <3>1. place = [x |-> r.x + c, y |-> r.y, width |-> s, height |-> r.height]
      BY <1>1, <2>2, <2>4 DEF place, c, s
    <3>2. Inside(p, place) <=> /\ r.x + c <= p[1] /\ p[1] < r.x + c + s
                               /\ r.y <= p[2] /\ p[2] < r.y + r.height
      BY <3>1 DEF Inside
    <3> QED  BY <2>4, <3>2 DEF place, c, s
  <2>5. CASE type = "column"
    <3>1. place = [x |-> r.x, y |-> r.y + c, width |-> r.width, height |-> s]
      BY <1>1, <2>2, <2>5 DEF place, c, s
    <3>2. Inside(p, place) <=> /\ r.x <= p[1] /\ p[1] < r.x + r.width
                               /\ r.y + c <= p[2] /\ p[2] < r.y + c + s
      BY <3>1 DEF Inside
    <3> QED  BY <2>5, <3>2 DEF place, c, s
  <2> QED  BY <2>4, <2>5
<1> HIDE DEF places, start, at, extent, across
<1>7. ASSUME NEW i \in 1..n, Inside(p, places[i]) PROVE Inside(p, r)
  <2> DEFINE c == cursor[i - 1]
             s == shares[i]
  <2>1. c \in Nat /\ c + s <= extent /\ s \in Nat
    BY <1>3
  <2>2. across /\ start + c <= at /\ at < start + c + s
    BY <1>6, <1>7
  <2> HIDE DEF c, s
  <2>3. start <= at /\ at < start + extent
    BY <1>2, <2>1, <2>2
  <2> QED  BY <1>4, <2>2, <2>3
<1>8. Apart(p, n, places)
  <2>1. ASSUME NEW i \in 1..n, NEW j \in 1..n, i < j
        PROVE  ~(Inside(p, places[i]) /\ Inside(p, places[j]))
    <3>1. /\ cursor[i - 1] + shares[i] <= cursor[j - 1]
          /\ cursor[i - 1] \in Nat /\ cursor[j - 1] \in Nat /\ shares[i] \in Nat
      BY <1>3, <1>5, <2>1, CursorOrder
    <3> QED  BY <1>2, <1>6, <3>1
  <2>2. \A i, j \in 1..n : i # j => i < j \/ j < i
    BY <1>2
  <2> QED  BY <2>1, <2>2 DEF Apart
<1>9. ASSUME gap = 0, Inside(p, r) PROVE Met(p, n, places)
  <2> DEFINE q == at - start
  <2>1. q \in Nat /\ q < cursor[n] /\ at = start + q
    BY <1>2, <1>3, <1>4, <1>9
  <2> HIDE DEF q
  <2>2. PICK i \in 1..n : cursor[i - 1] <= q /\ q < cursor[i - 1] + shares[i]
    BY <1>3, <1>5, <1>9, <2>1, CursorReaches
  <2>3. cursor[i - 1] \in Nat /\ shares[i] \in Nat
    BY <1>3
  <2>4. start + cursor[i - 1] <= at /\ at < start + cursor[i - 1] + shares[i]
    BY <1>2, <2>1, <2>2, <2>3, SMTT(30)
  <2>5. Inside(p, places[i])
    BY <1>4, <1>6, <1>9, <2>4
  <2> QED  BY <2>5 DEF Met
<1> QED  BY <1>7, <1>8, <1>9 DEF n, places, shares, extent

-----------------------------------------------------------------------------
(* The tree of a layout. *)

\* It depends on the widgets and on the pending calls only.
LEMMA SameTree ==
    ASSUME NEW display, NEW read, TreeRead(read, display), NEW other,
           DOMAIN other = DOMAIN read, other.widgets = read.widgets,
           other.pending = read.pending
    PROVE  TreeRead(other, display)
  BY DEF TreeRead

\* Counting a node, refusing one or noting an error leaves a tree what it is.
LEMMA TreeFields ==
    ASSUME NEW display, NEW read, TreeRead(read, display)
    PROVE  /\ TreeRead(Invalid(read), display)
           /\ \A sound : TreeRead([read EXCEPT !.sound = sound], display)
           /\ TreeRead([read EXCEPT !.nodes = @ + 1], display)
<1>1. {"nodes", "ids", "widgets", "valid", "sound", "pending"} \subseteq DOMAIN read
  BY DEF TreeRead
<1> DEFINE refused == Invalid(read)
           counted == [read EXCEPT !.nodes = @ + 1]
<1>2. /\ DOMAIN refused = DOMAIN read /\ refused.widgets = read.widgets
      /\ refused.pending = read.pending
  BY <1>1 DEF Invalid
<1>3. /\ DOMAIN counted = DOMAIN read /\ counted.widgets = read.widgets
      /\ counted.pending = read.pending
  BY <1>1
<1>4. ASSUME NEW sound PROVE TreeRead([read EXCEPT !.sound = sound], display)
  <2> DEFINE other == [read EXCEPT !.sound = sound]
  <2>1. /\ DOMAIN other = DOMAIN read /\ other.widgets = read.widgets
        /\ other.pending = read.pending
    BY <1>1
  <2> HIDE DEF other
  <2>2. TreeRead(other, display)
    BY <2>1, SameTree
  <2> QED  BY <2>2 DEF other
<1> HIDE DEF refused, counted
<1>5. TreeRead(refused, display) /\ TreeRead(counted, display)
  BY <1>2, <1>3, SameTree
<1>6. TreeRead(Invalid(read), display) /\ TreeRead([read EXCEPT !.nodes = @ + 1], display)
  BY <1>5 DEF refused, counted
<1> QED  BY <1>4, <1>6

\* Adding a leaf keeps the tree's widgets drawable.
LEMMA LeafRead ==
    ASSUME NEW display, NEW read, TreeRead(read, display), NEW parsed,
           \A w \in parsed.value : WellMade(w, display)
    PROVE  TreeRead(AddPlaced(parsed, read), display)
<1> DEFINE new   == {w \in parsed.value : w.id \notin read.ids}
           v     == Or(new, <<>>)
           added == [read EXCEPT !.ids = @ \cup {w.id : w \in new},
                                 !.widgets = Append(@, v),
                                 !.sound = @ /\ parsed.sound]
<1>1. CASE new = {}
  BY <1>1, TreeFields DEF AddPlaced
<1>2. CASE new # {}
  <2>1. WellMade(v, display)
    <3>1. v \in new
      BY <1>2, OrElement
    <3> QED  BY <3>1
  <2>2. {"nodes", "ids", "widgets", "valid", "sound", "pending"} \subseteq DOMAIN read
    BY DEF TreeRead
  <2>3. AddPlaced(parsed, read) = added
    BY <1>2 DEF AddPlaced
  <2> HIDE DEF v, new
  <2>4. /\ DOMAIN added = DOMAIN read
        /\ added.widgets = Append(read.widgets, v) /\ added.pending = read.pending
    BY <2>2
  <2> HIDE DEF added
  <2>5. PICK S : read.widgets \in Seq(S) /\ \A w \in S : WellMade(w, display)
    BY DEF TreeRead
  <2> DEFINE T == S \cup {v}
  <2>6. added.widgets \in Seq(T) /\ \A w \in T : WellMade(w, display)
    <3>1. read.widgets \in Seq(T)
      BY <2>5, SeqMonotonic
    <3>2. v \in T
      OBVIOUS
    <3>3. \A w \in T : WellMade(w, display)
      BY <2>1, <2>5
    <3> HIDE DEF T
    <3> QED  BY <2>4, <3>1, <3>2, <3>3, AppendProperties
  <2>7. \E P : added.pending \in Seq(P) /\ \A call \in P : Callable(call, display)
    BY <2>4 DEF TreeRead
  <2> HIDE DEF T
  <2>8. TreeRead(added, display)
    BY <2>2, <2>4, <2>6, <2>7 DEF TreeRead
  <2> QED  BY <2>3, <2>8
<1> QED  BY <1>1, <1>2

\* So does putting off the children of a node.
LEMMA CallsRead ==
    ASSUME NEW display, NEW read, TreeRead(read, display), NEW n, NEW calls,
           Callables(n, calls, display)
    PROVE  TreeRead(Calling(read, calls), display)
<1> DEFINE called == Calling(read, calls)
<1>1. {"nodes", "ids", "widgets", "valid", "sound", "pending"} \subseteq DOMAIN read
  BY DEF TreeRead
<1>2. /\ DOMAIN called = DOMAIN read
      /\ called.widgets = read.widgets /\ called.pending = calls \o read.pending
  BY <1>1 DEF Calling
<1> HIDE DEF called
<1>3. PICK P : read.pending \in Seq(P) /\ \A call \in P : Callable(call, display)
  BY DEF TreeRead
<1> DEFINE new == {calls[i] : i \in 1..n}
           T   == new \cup P
<1>4. calls \in Seq(T)
  <2>1. \A i \in 1..n : calls[i] \in T
    OBVIOUS
  <2> HIDE DEF T
  <2> QED  BY <2>1 DEF Callables
<1>5. read.pending \in Seq(T)
  BY <1>3, SeqMonotonic
<1>6. \A call \in T : Callable(call, display)
  BY <1>3 DEF Callables
<1> HIDE DEF T
<1>7. calls \o read.pending \in Seq(T)
  BY <1>4, <1>5, ConcatProperties
<1>8. \E S : called.widgets \in Seq(S) /\ \A w \in S : WellMade(w, display)
  BY <1>2 DEF TreeRead
<1>9. \E S : called.pending \in Seq(S) /\ \A call \in S : Callable(call, display)
  BY <1>2, <1>6, <1>7
<1>10. TreeRead(called, display)
  BY <1>1, <1>2, <1>8, <1>9 DEF TreeRead
<1> QED  BY <1>10 DEF called

\* A gap is a number, zero if it is not written.
LEMMA GapNat == ASSUME NEW field PROVE Or(Coordinates(field), 0) \in Nat
<1>1. CASE Coordinates(field) = {}
  BY <1>1, OrDefault
<1>2. CASE Coordinates(field) # {}
  <2>1. Or(Coordinates(field), 0) \in Coordinates(field)
    BY <1>2, OrElement
  <2> QED  BY <2>1 DEF Coordinates, Bounded
<1> QED  BY <1>1, <1>2

\* Nothing parse_layout_node reads is off the display.
LEMMA NodeRead ==
    ASSUME NEW display, Sized(display), NEW before, TreeRead(before, display),
           NEW call, Callable(call, display)
    PROVE  TreeRead(ParseNode(call, display, before), display)
<1> DEFINE read     == [before EXCEPT !.nodes = @ + 1]
           item     == call.item
           bounds   == call.bounds
           type     == Or(item.type, "")
           known    == [read EXCEPT !.sound = /\ @
                                              /\ ~item.unknown
                                              /\ type = "stack" => item.gap = {}]
           children == item.children
           n        == Len(children)
           gap      == Or(Coordinates(item.gap), 0)
           extent   == IF type = "row" THEN bounds.width ELSE bounds.height
           split    == Allocation(children, gap, extent)
           places   == Places(type, bounds, gap, split.shares)
           stacked  == [i \in 1..n |-> Call(children[i], bounds, call.depth + 1,
                                            Shared(children[i]))]
           placed   == [i \in 1..n |-> Call(children[i], places[i], call.depth + 1, FALSE)]
           result   == ParseNode(call, display, before)
<1>1. TreeRead(read, display)
  BY TreeFields
<1>2. TreeRead(known, display)
  <2> HIDE DEF read
  <2> QED  BY <1>1, TreeFields
<1>3. \/ call.refused /\ result = Invalid(before)
      \/ result = Invalid(read)
      \/ ~call.refused /\ result = AddPlaced(ParseWidget(item, {bounds}, display), read)
      \/ result = Invalid(known)
      \/ ~call.refused /\ n \in 1..Limit.widgets /\ result = Calling(known, stacked)
      \/ /\ ~call.refused /\ n \in 1..Limit.widgets /\ type \in {"row", "column"} /\ split.fits
         /\ result = Calling(known, placed)
  BY DEF ParseNode
<1> HIDE DEF result, known, read
<1>4. TreeRead(Invalid(before), display) /\ TreeRead(Invalid(read), display)
      /\ TreeRead(Invalid(known), display)
  BY <1>1, <1>2, TreeFields
<1>5. ASSUME ~call.refused
      PROVE  TreeRead(AddPlaced(ParseWidget(item, {bounds}, display), read), display)
  <2>1. Assigned({bounds}, display)
    BY <1>5 DEF Assigned, Callable
  <2>2. \A w \in ParseWidget(item, {bounds}, display).value : WellMade(w, display)
    <3> HIDE DEF item, bounds
    <3> QED  BY <2>1, WidgetMade
  <2> QED  BY <1>1, <2>2, LeafRead
<1>6. Limit.widgets \in Nat
  BY FieldsAssumption
<1>7. ASSUME ~call.refused, n \in 1..Limit.widgets
      PROVE  TreeRead(Calling(known, stacked), display)
  <2>1. \A i \in 1..n : Callable(stacked[i], display)
    BY <1>7 DEF Callable, Call
  <2>2. stacked = [i \in 1..n |-> stacked[i]]
    OBVIOUS
  <2>3. n \in Nat
    <3> HIDE DEF n
    <3> QED  BY <1>6, <1>7
  <2> HIDE DEF stacked, n
  <2>4. Callables(n, stacked, display)
    BY <2>1, <2>2, <2>3 DEF Callables
  <2> QED  BY <1>2, <2>4, CallsRead
<1>8. ASSUME ~call.refused, n \in 1..Limit.widgets, type \in {"row", "column"}, split.fits
      PROVE  TreeRead(Calling(known, placed), display)
  <2>1. n \in Nat /\ n \in Nat \ {0}
    <3> HIDE DEF n, type, split
    <3>1. n \in 1..Limit.widgets
      BY <1>8
    <3>2. n \in Nat /\ n # 0
      BY <1>6, <3>1
    <3> QED  BY <3>2
  <2>2. OnDisplay(bounds, display) /\ gap \in Nat
    BY <1>8, GapNat DEF Callable
  <2>3. \A i \in 1..n : OnDisplay(places[i], display)
    <3> HIDE DEF type, gap, bounds, children
    <3>1. Len(children) \in Nat \ {0} /\ Allocation(children, gap, extent).fits
      BY <1>8, <2>1
    <3> QED  BY <1>8, <2>2, <3>1, PlacesFit
  <2>4. \A i \in 1..n : Callable(placed[i], display)
    BY <2>3 DEF Callable, Call
  <2>5. placed = [i \in 1..n |-> placed[i]]
    OBVIOUS
  <2> HIDE DEF placed, n
  <2>6. Callables(n, placed, display)
    BY <2>1, <2>4, <2>5 DEF Callables
  <2> QED  BY <1>2, <2>6, CallsRead
<1>9. TreeRead(result, display)
  BY <1>3, <1>4, <1>5, <1>7, <1>8
<1> QED  BY <1>9 DEF result

\* One call of parse_layout_node keeps it so.
LEMMA NextRead ==
    ASSUME NEW display, Sized(display), NEW read, TreeRead(read, display)
    PROVE  TreeRead(ParseNext(display, read), display)
<1>1. CASE read.pending = <<>>
  BY <1>1 DEF ParseNext
<1>2. CASE read.pending # <<>>
  <2>1. PICK P : read.pending \in Seq(P) /\ \A call \in P : Callable(call, display)
    BY DEF TreeRead
  <2> DEFINE rest == [read EXCEPT !.pending = Tail(@)]
  <2>2. Head(read.pending) \in P /\ Tail(read.pending) \in Seq(P)
    BY <1>2, <2>1, HeadTailProperties
  <2>3. {"nodes", "ids", "widgets", "valid", "sound", "pending"} \subseteq DOMAIN read
    BY DEF TreeRead
  <2>4. /\ DOMAIN rest = DOMAIN read
        /\ rest.widgets = read.widgets /\ rest.pending = Tail(read.pending)
    BY <2>3
  <2> HIDE DEF rest
  <2>5. \E S : rest.widgets \in Seq(S) /\ \A w \in S : WellMade(w, display)
    BY <2>4 DEF TreeRead
  <2>6. TreeRead(rest, display)
    BY <2>1, <2>2, <2>3, <2>4, <2>5 DEF TreeRead
  <2>7. Callable(Head(read.pending), display)
    BY <2>1, <2>2
  <2>8. TreeRead(ParseNode(Head(read.pending), display, rest), display)
    BY <2>6, <2>7, NodeRead
  <2> QED  BY <1>2, <2>8 DEF ParseNext, rest
<1> QED  BY <1>1, <1>2

\* There may be calls.
LEMMA CallsNat == MaxCalls \in Nat
<1>1. Limit.nodes \in Nat /\ Limit.widgets \in Nat
  BY FieldsAssumption
<1> QED  BY <1>1, ProductNat DEF MaxCalls

\* What is read of a tree is what is read after the last call.
LEMMA CallsKnown ==
    ASSUME NEW call, NEW display
    PROVE  \E read : Reads(read, call, display) /\ ParseCalls(call, display) = read[MaxCalls]
<1> DEFINE n     == MaxCalls
           zero  == FirstRead(call)
           Solves(k, f) == f = [i \in 0..k |-> IF i = 0 THEN zero ELSE ParseNext(display, f[i - 1])]
           read  == CHOOSE f : Solves(n, f)
<1>1. n \in Nat
  BY CallsNat
<1>2. ParseCalls(call, display) = read[n]
  BY DEF ParseCalls, FirstRead
<1> HIDE DEF n, zero
<1> DEFINE T == {k \in 0..n : \E f : Solves(k, f)}
<1>3. 0 \in T
  <2> DEFINE f == [i \in 0..0 |-> zero]
  <2>1. Solves(0, f)
    OBVIOUS
  <2>2. 0 \in 0..n
    BY <1>1
  <2> HIDE DEF f, Solves
  <2> QED  BY <2>1, <2>2
<1>4. ASSUME NEW k \in 0..n - 1, k \in T PROVE k + 1 \in T
  <2>1. PICK f : Solves(k, f)
    BY <1>4
  <2> DEFINE g == [i \in 0..k + 1 |-> IF i = k + 1 THEN ParseNext(display, f[k]) ELSE f[i]]
  <2>2. ASSUME NEW i \in 0..k + 1
        PROVE  g[i] = IF i = 0 THEN zero ELSE ParseNext(display, g[i - 1])
    <3>0. k \in Nat
      BY <1>1
    <3>1. CASE i = 0
      BY <2>1, <3>0, <3>1
    <3>2. CASE i = k + 1
      <4>1. i - 1 = k /\ k \in 0..k + 1 /\ k # k + 1 /\ i # 0
        BY <3>0, <3>2
      <4>2. g[i] = ParseNext(display, f[k]) /\ g[k] = f[k]
        BY <3>2, <4>1
      <4> HIDE DEF g
      <4> QED  BY <4>1, <4>2
    <3>3. CASE i # 0 /\ i # k + 1
      <4>1. i \in 0..k /\ i - 1 \in 0..k + 1 /\ i - 1 # k + 1
        BY <3>0, <3>3
      <4>2. g[i] = f[i] /\ g[i - 1] = f[i - 1]
        BY <3>3, <4>1
      <4>3. f[i] = ParseNext(display, f[i - 1])
        BY <2>1, <3>3, <4>1
      <4> HIDE DEF g
      <4> QED  BY <3>3, <4>2, <4>3
    <3> QED  BY <3>1, <3>2, <3>3
  <2>3. g = [i \in 0..k + 1 |-> g[i]]
    OBVIOUS
  <2> HIDE DEF g
  <2>4. Solves(k + 1, g)
    BY <2>2, <2>3
  <2>5. k + 1 \in 0..n
    BY <1>1
  <2> HIDE DEF Solves
  <2> QED  BY <2>4, <2>5
<1> HIDE DEF T
<1>5. n \in T
  <2>1. \A k \in 0..n : k \in T
    BY <1>1, <1>3, <1>4, Induction
  <2> QED  BY <1>1, <2>1
<1>6. \E f : Solves(n, f)
  BY <1>5 DEF T
<1>7. Solves(n, read)
  <2> HIDE DEF Solves
  <2> QED  BY <1>6, Zenon
<1> HIDE DEF read
<1>8. read[0] = zero
  BY <1>1, <1>7
<1>9. ASSUME NEW k \in 0..n - 1 PROVE read[k + 1] = ParseNext(display, read[k])
  <2>1. k + 1 \in 0..n /\ k + 1 # 0 /\ (k + 1) - 1 = k
    BY <1>1
  <2> QED  BY <1>7, <2>1
<1>10. Reads(read, call, display)
  BY <1>8, <1>9 DEF Reads, n, zero
<1> QED  BY <1>2, <1>10 DEF n

\* It begins with a call on the whole display.
LEMMA FirstTree ==
    ASSUME NEW display, Sized(display), NEW root
    PROVE  TreeRead(FirstRead(Call(root, Rect(0, 0, display.width, display.height), 0, FALSE)),
                    display)
<1> DEFINE call == Call(root, Rect(0, 0, display.width, display.height), 0, FALSE)
           P    == {call}
           S    == {}
<1>1. OnDisplay(Rect(0, 0, display.width, display.height), display)
  BY DEF Sized, OnDisplay, Rect, Rects, Fits
<1>2. Callable(call, display)
  BY <1>1 DEF Callable, Call
<1> HIDE DEF call
<1>3. <<call>> \in Seq(P) /\ \A c \in P : Callable(c, display)
  BY <1>2
<1>4. <<>> \in Seq(S) /\ \A w \in S : WellMade(w, display)
  OBVIOUS
<1> HIDE DEF P, S
<1>5. TreeRead(FirstRead(call), display)
  BY <1>3, <1>4 DEF TreeRead, FirstRead
<1> QED  BY <1>5 DEF call

\* Every widget of a tree has a place on the display.
LEMMA WidgetsRead ==
    ASSUME NEW display, Sized(display), NEW root
    PROVE  TreeRead(ParseRoot(root, display), display)
<1> DEFINE n    == MaxCalls
           call == Call(root, Rect(0, 0, display.width, display.height), 0, FALSE)
<1>1. n \in Nat
  BY CallsNat
<1>2. PICK read : Reads(read, call, display) /\ ParseRoot(root, display) = read[n]
  <2> HIDE DEF call
  <2> QED  BY CallsKnown DEF ParseRoot, call
<1>3. TreeRead(read[0], display)
  BY <1>2, FirstTree DEF Reads
<1> HIDE DEF n, call
<1> DEFINE S == {k \in 0..n : TreeRead(read[k], display)}
<1>4. 0 \in S
  BY <1>1, <1>3
<1>5. ASSUME NEW k \in 0..n - 1, k \in S PROVE k + 1 \in S
  <2>1. k + 1 \in 0..n /\ read[k + 1] = ParseNext(display, read[k])
    BY <1>1, <1>2 DEF Reads, n
  <2>2. TreeRead(read[k + 1], display)
    BY <1>5, <2>1, NextRead
  <2> QED  BY <2>1, <2>2
<1> HIDE DEF S
<1>6. \A k \in 0..n : k \in S
  BY <1>1, <1>4, <1>5, Induction
<1>7. TreeRead(read[n], display)
  BY <1>1, <1>6 DEF S
<1> QED  BY <1>2, <1>7

-----------------------------------------------------------------------------
(* Cards and decks as they are read. *)

\* An indicator that is accepted can be drawn.
LEMMA IndicatorMade ==
    ASSUME NEW display, NEW item, NEW w \in ParseIndicator(item, display).value
    PROVE  WellMade(w, display) /\ w.kind = "indicator"
<1> DEFINE bounds == OwnBounds(item, display)
<1>1. /\ bounds # {}
      /\ w.kind = "indicator" /\ w.rect = Or(bounds, <<>>)
  <2> DEFINE read == [kind |-> "indicator", id |-> Or(Identifiers(item.id), ""),
                      source |-> Or(Identifiers(item.source), ""), rect |-> Or(bounds, <<>>)]
  <2>1. bounds # {} /\ w \in Found(read, ~item.unknown).value
    BY DEF ParseIndicator, Refused, Missing
  <2>2. w = read
    BY <2>1 DEF Found
  <2> QED  BY <2>1, <2>2
<1>2. Or(bounds, <<>>) \in bounds
  <2> HIDE DEF bounds
  <2> QED  BY <1>1, OrElement
<1>3. OnDisplay(w.rect, display)
  BY <1>1, <1>2, OwnBoundsFit
<1> QED  BY <1>1, <1>3 DEF WellMade

\* The items kept of what was read are well made.
LEMMA ItemsMade ==
    ASSUME NEW display, NEW parsed, AllMade(parsed, display)
    PROVE  /\ Len(KeepAll(parsed).items) \in Nat
           /\ \A i \in 1..Len(KeepAll(parsed).items) : WellMade(KeepAll(parsed).items[i], display)
<1> DEFINE items == KeepAll(parsed).items
<1>1. items \in Seq(Entries(parsed))
  BY EntriesKept DEF AllMade
<1>2. \A w \in Entries(parsed) : WellMade(w, display)
  BY DEF Entries, AllMade
<1> HIDE DEF items
<1>3. Len(items) \in Nat /\ \A i \in 1..Len(items) : items[i] \in Entries(parsed)
  BY <1>1
<1>4. Len(items) \in Nat /\ \A i \in 1..Len(items) : WellMade(items[i], display)
  BY <1>2, <1>3
<1> QED  BY <1>4 DEF items

\* The content of a card of each kind, when it is accepted, can be drawn.
LEMMA KeptDrawable ==
    ASSUME NEW display, NEW kind, kind \in {"indicators", "layout"}, NEW parsed,
           AllMade(parsed, display), NEW count, NEW limit,
           NEW content \in AllKept(kind, count, parsed, limit).value
    PROVE  Drawable(content, display)
<1> DEFINE items == KeepAll(parsed).items
<1>1. content = [kind |-> kind, items |-> items]
  BY DEF AllKept, Refused, Missing, Found
<1>2. Len(items) \in Nat /\ \A i \in 1..Len(items) : WellMade(items[i], display)
  BY ItemsMade
<1> HIDE DEF items
<1>3. content.kind = kind /\ content.items = items
  BY <1>1
<1> QED  BY <1>2, <1>3 DEF Drawable

\* A layout that is read can be drawn, from a tree or from a list.
LEMMA LayoutDrawable ==
    ASSUME NEW display, Sized(display), NEW card,
           NEW content \in ParseLayout(card, display).value
    PROVE  Drawable(content, display)
<1> DEFINE root    == Or(card.root, <<>>)
           widgets == Or(card.widgets, <<>>)
           n       == Len(widgets)
           parsed  == [i \in 1..n |-> ParseWidget(widgets[i], {}, display)]
           read    == ParseRoot(root, display)
<1>1. \/ content \in LayoutOf(root, read).value
      \/ content \in AllKept("layout", n, parsed, Limit.widgets).value
  BY DEF ParseLayout, Refused, Missing
<1> HIDE DEF root, widgets
<1>2. CASE content \in LayoutOf(root, read).value
  <2>1. TreeRead(read, display)
    BY WidgetsRead
  <2> HIDE DEF read
  <2>2. content = [kind |-> "layout", items |-> read.widgets]
    BY <1>2 DEF LayoutOf, Refused, Missing, Found
  <2>3. PICK S : read.widgets \in Seq(S) /\ \A w \in S : WellMade(w, display)
    BY <2>1 DEF TreeRead
  <2> DEFINE items == read.widgets
  <2>4. items \in Seq(S) /\ content.kind = "layout" /\ content.items = items
    BY <2>2, <2>3
  <2> HIDE DEF items
  <2>5. Len(items) \in Nat /\ \A i \in 1..Len(items) : items[i] \in S
    BY <2>4
  <2> QED  BY <2>3, <2>4, <2>5 DEF Drawable
<1>3. CASE content \in AllKept("layout", n, parsed, Limit.widgets).value
  <2>1. n \in 1..Limit.widgets
    BY <1>3 DEF AllKept, Refused, Missing
  <2> HIDE DEF n
  <2>2. n \in Nat
    BY <2>1, FieldsAssumption
  <2>3. Assigned({}, display)
    BY DEF Assigned
  <2>4. \A i \in 1..n : \A w \in parsed[i].value : WellMade(w, display)
    BY <2>3, WidgetMade
  <2>5. Len(parsed) = n
    BY <2>2
  <2> HIDE DEF parsed
  <2>6. AllMade(parsed, display)
    BY <2>2, <2>4, <2>5 DEF AllMade
  <2> QED  BY <1>3, <2>6, KeptDrawable
<1> QED  BY <1>1, <1>2, <1>3

\* So can the content of a card, of every kind.
LEMMA ContentDrawable ==
    ASSUME NEW display, Sized(display), NEW card,
           NEW content \in ParseContent(card, display).value
    PROVE  Drawable(content, display)
<1> DEFINE n      == Len(card.indicators)
           parsed == [i \in 1..n |-> ParseIndicator(card.indicators[i], display)]
<1>1. \/ content \in ParseBitmapCard(card, display).value
      \/ content \in ParseClockCard(card, display).value
      \/ content \in AllKept("indicators", n, parsed, Limit.indicators).value
      \/ content \in ParseLayout(card, display).value
  BY DEF ParseContent, Refused, Missing
<1>2. CASE content \in ParseBitmapCard(card, display).value
  <2>1. /\ BitmapProper(card.palette, card.pixels, display.width, display.height)
        /\ content = [kind |-> "bitmap", palette |-> card.palette, pixels |-> card.pixels]
    BY <1>2 DEF ParseBitmapCard, Refused, Missing, Found
  <2> QED  BY <2>1 DEF Drawable
<1>3. CASE content \in ParseClockCard(card, display).value
  <2>1. /\ display.height >= Limit.clock_card
        /\ content = [kind |-> "clock", local |-> Or(Colours(card.local_color), 0),
                      utc |-> Or(Colours(card.utc_color), 0)]
    BY <1>3 DEF ParseClockCard, Refused, Missing, Found
  <2>2. content.local \in Inks /\ content.utc \in Inks /\ content.kind = "clock"
    BY <2>1, ColourRead, Black
  <2> QED  BY <2>1, <2>2 DEF Drawable
<1>4. CASE content \in AllKept("indicators", n, parsed, Limit.indicators).value
  <2>1. n \in 1..Limit.indicators
    BY <1>4 DEF AllKept, Refused, Missing
  <2> HIDE DEF n
  <2>2. n \in Nat
    BY <2>1, FieldsAssumption
  <2>3. \A i \in 1..n : \A w \in parsed[i].value : WellMade(w, display)
    BY IndicatorMade
  <2>4. Len(parsed) = n
    BY <2>2
  <2> HIDE DEF parsed
  <2>5. AllMade(parsed, display)
    BY <2>2, <2>3, <2>4 DEF AllMade
  <2> QED  BY <1>4, <2>5, KeptDrawable
<1>5. CASE content \in ParseLayout(card, display).value
  BY <1>5, LayoutDrawable
<1> QED  BY <1>1, <1>2, <1>3, <1>4, <1>5

\* A duration that is read is within its limits, in whole milliseconds.
LEMMA DurationRange ==
    ASSUME NEW field, NEW low, NEW high, NEW d \in Durations(field, low, high)
    PROVE  d \in low..high
  BY DEF Durations

\* An accepted card has a hold, a transition within its limits and such a content.
LEMMA CardRead ==
    ASSUME NEW display, Sized(display), NEW card, NEW c \in ParseCard(card, display).value
    PROVE  CardMade(c, display)
<1> DEFINE hold       == Durations(card.hold, Limit.min_hold, Limit.hold)
           transition == ParseTransition(card.transition)
           content    == ParseContent(card, display)
<1>1. c \in CardOf(card, hold, transition, content).value
  BY DEF ParseCard
<1>2. \A d \in hold : d \in Limit.min_hold..Limit.hold
  BY DurationRange
<1>3. \A t \in transition.value : MoveMade(t)
  <2> DEFINE t        == Or(card.transition, <<>>)
             duration == Durations(t.duration, 1, Limit.transition)
  <2> SUFFICES ASSUME NEW x \in transition.value PROVE MoveMade(x)
    OBVIOUS
  <2>1. \/ x = [type |-> "instant", duration |-> 0]
        \/ /\ duration # {} /\ t.type \cap Animated # {}
           /\ x = [type |-> Or(t.type \cap Animated, ""), duration |-> Or(duration, 0)]
    BY DEF ParseTransition, Refused, Missing, Found
  <2>2. duration # {} => Or(duration, 0) \in Nat
    <3>1. \A d \in duration : d \in Nat
      BY DurationRange
    <3> HIDE DEF duration
    <3> QED  BY <3>1, OrElement
  <2> HIDE DEF duration, t
  <2>3. CASE x = [type |-> "instant", duration |-> 0]
    BY <2>3 DEF MoveMade
  <2>4. CASE /\ duration # {} /\ t.type \cap Animated # {}
             /\ x = [type |-> Or(t.type \cap Animated, ""), duration |-> Or(duration, 0)]
    <3>1. x.duration = Or(duration, 0) /\ x.type = Or(t.type \cap Animated, "")
      BY <2>4
    <3>2. x.type \in Animated
      BY <2>4, <3>1, OrElement
    <3> QED  BY <2>2, <2>4, <3>1, <3>2 DEF MoveMade, Animated
  <2> QED  BY <2>1, <2>3, <2>4
<1>4. \A x \in content.value : Drawable(x, display)
  BY ContentDrawable
<1> HIDE DEF hold, transition, content
<1>5. /\ hold # {} /\ transition.value # {} /\ content.value # {}
      /\ c = [id |-> Or(Identifiers(card.id), ""), hold |-> Or(hold, 0),
              transition |-> Or(transition.value, <<>>), content |-> Or(content.value, <<>>)]
  BY <1>1 DEF CardOf, Refused, Missing, Found
<1>6. Or(hold, 0) \in Nat \ {0}
  <2>1. Or(hold, 0) \in hold
    BY <1>5, OrElement
  <2>2. Limit.min_hold \in Nat /\ Limit.min_hold > 0
    BY FieldsAssumption
  <2> QED  BY <1>2, <2>1, <2>2
<1>7. MoveMade(Or(transition.value, <<>>))
  BY <1>3, <1>5, OrElement
<1>8. Drawable(Or(content.value, <<>>), display)
  BY <1>4, <1>5, OrElement
<1> QED  BY <1>5, <1>6, <1>7, <1>8 DEF CardMade

\* One more card of a deck.
LEMMA CardKept ==
    ASSUME NEW parsed, Len(parsed) \in Nat, NEW i \in 1..Len(parsed), NEW display, NEW statuses,
           \A c \in parsed[i].value : CardMade(c, display),
           NEW kept, kept \in [items : Seq(Entries(parsed)), ids : SUBSET Ids(parsed),
                               total : Nat, sound : BOOLEAN]
    PROVE  LET next == KeepCard(kept, parsed[i], statuses)
           IN  /\ next \in [items : Seq(Entries(parsed)), ids : SUBSET Ids(parsed),
                             total : Nat, sound : BOOLEAN]
               /\ next.sound =>
                    /\ kept.sound
                    /\ Following(kept.items, kept.ids, parsed, i - 1) =>
                          Following(next.items, next.ids, parsed, i)
<1> DEFINE with  == Keep(kept, parsed[i])
           new   == {c \in parsed[i].value : c.id \notin kept.ids}
           more  == IF new = {} THEN 0 ELSE WidgetCount(Or(new, <<>>).content)
           total == kept.total + more
           items == IF total <= Limit.widgets THEN with.items ELSE kept.items
           sound == /\ with.sound
                    /\ total <= Limit.widgets
                    /\ \A c \in new : AggregateStatuses(c.content) \subseteq DOMAIN statuses
<1>1. KeepCard(kept, parsed[i], statuses) =
          [items |-> items, ids |-> with.ids, total |-> total, sound |-> sound]
  BY DEF KeepCard
<1>2. /\ with.items \in Seq(Entries(parsed)) /\ with.ids \in SUBSET Ids(parsed)
      /\ with.sound =>
           /\ kept.sound
           /\ Following(kept.items, kept.ids, parsed, i - 1) =>
                 Following(with.items, with.ids, parsed, i)
  <2>1. /\ "sound" \in DOMAIN kept /\ kept.items \in Seq(Entries(parsed))
        /\ kept.ids \in SUBSET Ids(parsed)
    OBVIOUS
  <2> HIDE DEF with
  <2> QED  BY <2>1, KeepStep DEF with
<1>3. more \in Nat
  <2>1. CASE new = {}
    BY <2>1
  <2>2. CASE new # {}
    <3> DEFINE content == Or(new, <<>>).content
    <3>1. CardMade(Or(new, <<>>), display)
      <4>1. Or(new, <<>>) \in new
        <5> HIDE DEF new
        <5> QED  BY <2>2, OrElement
      <4>2. \A c \in new : CardMade(c, display)
        OBVIOUS
      <4> HIDE DEF new
      <4> QED  BY <4>1, <4>2
    <3>2. Drawable(content, display)
      BY <3>1 DEF CardMade
    <3>3. more = WidgetCount(content)
      BY <2>2
    <3> HIDE DEF content
    <3>4. WidgetCount(content) \in Nat
      <4>1. content.kind \in {"indicators", "layout"} => Len(content.items) \in Nat
        BY <3>2 DEF Drawable
      <4> QED  BY <4>1 DEF WidgetCount
    <3> QED  BY <3>3, <3>4
  <2> QED  BY <2>1, <2>2
<1>4. sound \in BOOLEAN
  OBVIOUS
<1>5. kept.total \in Nat /\ kept.items \in Seq(Entries(parsed))
  OBVIOUS
<1>7. sound => with.sound /\ items = with.items
  OBVIOUS
<1> HIDE DEF with, more, sound
<1>6. items \in Seq(Entries(parsed)) /\ total \in Nat
  BY <1>2, <1>3, <1>5
<1> HIDE DEF items, total
<1> DEFINE next == KeepCard(kept, parsed[i], statuses)
<1>8. next.items = items /\ next.ids = with.ids /\ next.sound = sound
  BY <1>1
<1> HIDE DEF next
<1>9. next \in [items : Seq(Entries(parsed)), ids : SUBSET Ids(parsed),
                total : Nat, sound : BOOLEAN]
  BY <1>1, <1>2, <1>4, <1>6 DEF next
<1>10. next.sound =>
         /\ kept.sound
         /\ Following(kept.items, kept.ids, parsed, i - 1) =>
               Following(next.items, next.ids, parsed, i)
  BY <1>2, <1>7, <1>8
<1> QED  BY <1>9, <1>10 DEF next

\* No cards at all are such cards.
LEMMA NoCardsMade == ASSUME NEW display PROVE CardsMade(<<>>, display)
<1> DEFINE S == {}
<1>1. <<>> \in Seq(S) /\ \A i \in 1..Len(<<>>) : CardMade(<<>>[i], display)
  OBVIOUS
<1> HIDE DEF S
<1> QED  BY <1>1 DEF CardsMade

\* All the cards that are kept are such cards, and all are kept if there is no error.
LEMMA CardsRead ==
    ASSUME NEW display, Sized(display), NEW cards, NEW statuses
    PROVE  LET read == ParseCards(cards, display, statuses)
           IN  /\ CardsMade(read.items, display)
               /\ read.sound =>
                    /\ Len(read.items) = Len(cards)
                    /\ \A i \in 1..Len(cards) : /\ ParseCard(cards[i], display).sound
                                               /\ read.items[i] \in
                                                    ParseCard(cards[i], display).value
<1>1. CASE Len(cards) \notin 1..Limit.cards
  BY <1>1, NoCardsMade DEF ParseCards
<1>2. CASE Len(cards) \in 1..Limit.cards
  <2> DEFINE n      == Len(cards)
             parsed == [i \in 1..n |-> ParseCard(cards[i], display)]
             A      == [items : Seq(Entries(parsed)), ids : SUBSET Ids(parsed),
                        total : Nat, sound : BOOLEAN]
             zero   == [items |-> <<>>, ids |-> {}, total |-> 0, sound |-> TRUE]
             F      == [i \in 1..n |-> [x \in A |-> KeepCard(x, parsed[i], statuses)]]
             P(f)   == f = [i \in 0..n |->
                              IF i = 0 THEN zero
                              ELSE KeepCard(f[i - 1], ParseCard(cards[i], display), statuses)]
             kept   == CHOOSE f : P(f)
  <2>1. ParseCards(cards, display, statuses) = kept[n]
    BY <1>2 DEF ParseCards
  <2>2. n \in Nat
    <3> DEFINE m == n
    <3>1. m \in 1..Limit.cards
      BY <1>2
    <3> HIDE DEF m
    <3>2. m \in Nat
      BY <3>1, FieldsAssumption
    <3> QED  BY <3>2 DEF m
  <2> HIDE DEF n
  <2>3. Len(parsed) = n /\ \A i \in 1..n : parsed[i] = ParseCard(cards[i], display)
    BY <2>2
  <2> HIDE DEF parsed
  <2>4. \A i \in 1..n : \A c \in parsed[i].value : CardMade(c, display)
    BY <2>3, CardRead
  <2>5. \A i \in 1..n : \A x \in A : KeepCard(x, parsed[i], statuses) \in A
    BY <2>2, <2>3, <2>4, CardKept
  <2>6. zero \in A
    OBVIOUS
  <2> HIDE DEF A, zero
  <2>7. Stepwise(n, A, zero, F)
    BY <2>2, <2>5, <2>6 DEF Stepwise
  <2>8. PICK g \in [0..n -> A] : g[0] = zero /\ \A i \in 1..n : g[i] = F[i][g[i - 1]]
    <3> HIDE DEF F
    <3> QED  BY <2>7, Recursion
  <2>9. P(g)
    <3>1. ASSUME NEW i \in 1..n
          PROVE  g[i] = KeepCard(g[i - 1], ParseCard(cards[i], display), statuses)
      <4>1. i - 1 \in 0..n
        BY <2>2
      <4> QED  BY <2>3, <2>8, <4>1
    <3> QED  BY <2>2, <2>8, <3>1
  <2>10. P(kept)
    BY <2>9, Zenon
  <2> HIDE DEF kept
  <2>11. \A k \in 0..n : kept[k] \in A
    <3>1. Upto(n, kept) /\ kept[0] = zero
      BY <2>2, <2>10 DEF Upto
    <3>2. ASSUME NEW i \in 1..n, kept[i - 1] \in A PROVE kept[i] = F[i][kept[i - 1]]
      BY <2>2, <2>3, <2>10, <3>2
    <3> HIDE DEF F
    <3> QED  BY <2>7, <3>1, <3>2, Solution
  <2>12. kept[n] \in A /\ n \in 0..n
    BY <2>2, <2>11
  <2> DEFINE items == kept[n].items
  <2>13. items \in Seq(Entries(parsed))
    BY <2>12 DEF A
  <2>14. \A c \in Entries(parsed) : CardMade(c, display)
    BY <2>3, <2>4 DEF Entries
  <2> HIDE DEF items
  <2>15. \A i \in 1..Len(items) : items[i] \in Entries(parsed)
    BY <2>13
  <2>16. CardsMade(items, display)
    BY <2>13, <2>14, <2>15 DEF CardsMade
  <2> DEFINE T == {k \in 0..n : kept[k].sound => Following(kept[k].items, kept[k].ids, parsed, k)}
  <2>17. 0 \in T
    <3>1. kept[0].items = <<>> /\ kept[0].ids = {} /\ 0 \in 0..n
      BY <2>2, <2>10 DEF zero
    <3>2. Following(<<>>, {}, parsed, 0)
      BY DEF Following
    <3> QED  BY <3>1, <3>2
  <2>18. ASSUME NEW k \in 0..n - 1, k \in T PROVE k + 1 \in T
    <3> DEFINE before == kept[k]
               next   == kept[k + 1]
    <3>1. k + 1 \in 1..Len(parsed) /\ (k + 1) - 1 = k /\ k + 1 \in 0..n /\ k \in 0..n
          /\ next = KeepCard(before, parsed[k + 1], statuses)
      BY <2>2, <2>3, <2>10
    <3>2. before \in A /\ (before.sound => Following(before.items, before.ids, parsed, k))
      BY <2>11, <2>18, <3>1
    <3> HIDE DEF before, next
    <3>3. next.sound =>
            /\ before.sound
            /\ Following(before.items, before.ids, parsed, k) =>
                  Following(next.items, next.ids, parsed, k + 1)
      <4> DEFINE i == k + 1
      <4>1. i \in 1..Len(parsed) /\ i - 1 = k /\ next = KeepCard(before, parsed[i], statuses)
        BY <3>1
      <4>2. Len(parsed) \in Nat /\ \A c \in parsed[i].value : CardMade(c, display)
        BY <2>2, <2>3, <2>4, <4>1
      <4> HIDE DEF i
      <4>3. next.sound =>
              /\ before.sound
              /\ Following(before.items, before.ids, parsed, i - 1) =>
                    Following(next.items, next.ids, parsed, i)
        BY <3>2, <4>1, <4>2, CardKept DEF A
      <4> QED  BY <4>1, <4>3 DEF i
    <3>4. next.sound => Following(next.items, next.ids, parsed, k + 1)
      BY <3>2, <3>3
    <3> QED  BY <3>1, <3>4 DEF next
  <2> HIDE DEF T
  <2>19. n \in T
    <3>1. \A k \in 0..n : k \in T
      BY <2>2, <2>17, <2>18, Induction
    <3> QED  BY <2>2, <3>1
  <2>20. kept[n].sound =>
           /\ Len(items) = n
           /\ \A i \in 1..n : parsed[i].sound /\ items[i] \in parsed[i].value
    BY <2>19 DEF T, Following, items
  <2>21. kept[n].sound =>
           /\ Len(items) = n
           /\ \A i \in 1..n : /\ ParseCard(cards[i], display).sound
                              /\ items[i] \in ParseCard(cards[i], display).value
    BY <2>3, <2>20
  <2> QED  BY <2>1, <2>16, <2>21 DEF items, n
<1> QED  BY <1>1, <1>2

\* The display has a width and a height of at least one pixel.
LEMMA DisplayRead ==
    ASSUME NEW field, ParseDisplay(field).sound
    PROVE  Sized(Or(ParseDisplay(field).value, <<>>))
<1> DEFINE d      == Or(field, <<>>)
           width  == Extents(d.width)
           height == Extents(d.height)
           read   == [width      |-> Or(width, Limit.side),
                      height     |-> Or(height, Limit.side),
                      background |-> Or(Colours(d.background), 0)]
<1>1. field # {}
  BY DEF ParseDisplay, Found
<1>2. width # {} /\ height # {} /\ ParseDisplay(field).value = {read}
  BY <1>1 DEF ParseDisplay, Found
<1>3. Or(width, Limit.side) \in Nat \ {0} /\ Or(height, Limit.side) \in Nat \ {0}
  <2>1. (\A w \in width : w \in Nat \ {0}) /\ (\A h \in height : h \in Nat \ {0})
    BY DEF Extents, Bounded
  <2> HIDE DEF width, height
  <2> QED  BY <1>2, <2>1, OrElement
<1>4. Or(ParseDisplay(field).value, <<>>) = read
  <2> HIDE DEF read
  <2> QED  BY <1>2, OrSingleton
<1>5. Or(Colours(d.background), 0) \in Inks
  BY ColourRead, Black
<1> HIDE DEF width, height
<1> QED  BY <1>3, <1>4, <1>5 DEF Sized

\* A configuration that was accepted can be shown.
LEMMA ConfigShowable ==
    ASSUME NEW file, NEW c \in LoadConfig(file)
    PROVE  Showable(c)
<1>1. PICK root \in file :
          c \in ParseRootObject(root, ParseDisplay(root.display), ParseStatuses(root.statuses))
  BY DEF LoadConfig
<1> DEFINE display  == Or(ParseDisplay(root.display).value, <<>>)
           statuses == ParseStatuses(root.statuses)
           monitors == ParseMonitors(root.monitors, statuses.value)
           shown    == ParseShown(root, display, statuses.value)
<1>2. c \in Configuration(root, ParseDisplay(root.display), statuses, monitors, shown)
  BY <1>1 DEF ParseRootObject
<1> HIDE DEF statuses, monitors, shown
<1>3. /\ ErrorFree(root, ParseDisplay(root.display), statuses, monitors, shown)
      /\ c = [display    |-> display,
              statuses   |-> statuses.value,
              monitors   |-> monitors.items,
              indicators |-> IF root.indicators # {} THEN shown.items ELSE <<>>,
              cards      |-> IF root.cards # {} THEN shown.items ELSE <<>>]
  BY <1>2 DEF Configuration
<1>4. ParseDisplay(root.display).sound /\ shown.sound
  BY <1>3 DEF ErrorFree
<1>5. Sized(display)
  BY <1>4, DisplayRead
<1> HIDE DEF display
<1>6. c.display = display
  BY <1>3
<1>7. CASE root.indicators # {} /\ root.cards = {}
  <2> DEFINE entries == Or(root.indicators, <<>>)
             n       == Len(entries)
             parsed  == [i \in 1..n |-> ParseIndicator(entries[i], display)]
  <2>1. shown = ParseIndicators(entries, display)
    BY <1>7 DEF ParseShown, shown
  <2> HIDE DEF entries
  <2>2. /\ n \in 1..Limit.indicators
        /\ shown = KeepAll(parsed)
    BY <1>4, <2>1 DEF ParseIndicators
  <2> HIDE DEF n
  <2>3. n \in Nat
    BY <2>2, FieldsAssumption
  <2>4. Len(parsed) = n
    BY <2>3
  <2>5. \A i \in 1..n : \A w \in parsed[i].value : WellMade(w, display) /\ w.kind = "indicator"
    BY IndicatorMade
  <2> HIDE DEF parsed
  <2>6. AllMade(parsed, display)
    BY <2>3, <2>4, <2>5 DEF AllMade
  <2>11. \A i \in 1..Len(parsed) : \A w \in parsed[i].value : w.kind = "indicator"
    BY <2>4, <2>5
  <2>7. /\ Len(shown.items) \in Nat
        /\ \A i \in 1..Len(shown.items) : WellMade(shown.items[i], display)
    BY <2>2, <2>6, ItemsMade
  <2>8. c.cards = <<>> /\ c.indicators = shown.items
    BY <1>3, <1>7
  <2>9. Timed(<<>>) /\ Len(<<>>) = 0
    BY NoCardsMade DEF CardsMade, Timed
  <2>10. shown.items \in Seq(Entries(parsed)) /\ \A w \in Entries(parsed) : w.kind = "indicator"
    <3>1. shown.items \in Seq(Entries(parsed))
      BY <2>2, <2>6, EntriesKept DEF AllMade
    <3> QED  BY <2>11, <3>1 DEF Entries
  <2> DEFINE items == shown.items
             S     == Entries(parsed)
  <2> HIDE DEF items, S
  <2>12. /\ items \in Seq(S) /\ Len(items) \in Nat
         /\ \A i \in 1..Len(items) : items[i].kind = "indicator"
    <3>1. items \in Seq(S) /\ \A w \in S : w.kind = "indicator"
      BY <2>10 DEF items, S
    <3> QED  BY <3>1
  <2>13. \E Items : c.indicators \in Seq(Items)
    BY <2>8, <2>12 DEF items
  <2> QED  BY <1>5, <1>6, <2>7, <2>8, <2>9, <2>12, <2>13 DEF Showable, items
<1>8. CASE root.indicators = {} /\ root.cards # {}
  <2>1. shown = ParseCards(Or(root.cards, <<>>), display, statuses.value)
    BY <1>8 DEF ParseShown, shown
  <2>2. CardsMade(shown.items, display)
    BY <1>5, <2>1, CardsRead
  <2>3. c.cards = shown.items /\ c.indicators = <<>>
    BY <1>3, <1>8
  <2>4. Timed(shown.items)
    BY <2>2 DEF CardsMade, CardMade, Timed
  <2>5. \A i \in 1..Len(shown.items) : Drawable(shown.items[i].content, display)
    BY <2>2 DEF CardsMade, CardMade
  <2>6. Len(<<>>) = 0 /\ <<>> \in Seq({})
    OBVIOUS
  <2>7. \E S : c.indicators \in Seq(S)
    BY <2>3, <2>6
  <2>8. c.cards = <<>> =>
            /\ Len(c.indicators) \in Nat
            /\ \A i \in 1..Len(c.indicators) : WellMade(c.indicators[i], c.display)
    BY <2>3, <2>6
  <2>9. \A i \in 1..Len(c.indicators) : c.indicators[i].kind = "indicator"
    BY <2>3, <2>6
  <2> QED  BY <1>5, <1>6, <2>3, <2>4, <2>5, <2>7, <2>8, <2>9 DEF Showable
<1>9. (root.indicators # {} /\ root.cards = {}) \/ (root.indicators = {} /\ root.cards # {})
  BY <1>4 DEF ParseShown, shown
<1> QED  BY <1>7, <1>8, <1>9

-----------------------------------------------------------------------------
(* Monitors as they are read. *)

\* An accepted policy is valid, with statuses that the file defines and all its rules.
LEMMA PolicyRead ==
    ASSUME NEW m, NEW statuses, NEW policy \in ParsePolicy(m, statuses).value,
           ParsePolicy(m, statuses).sound
    PROVE  PolicyMade(policy, statuses) /\ Len(policy.rules) = Len(m.evaluate)
<1> DEFINE parsed == ParseRules(m.evaluate)
           read   == [failure  |-> Or(Identifiers(m.failure), "communication_failure"),
                      no_match |-> Or(Identifiers(m.no_match), "unknown"),
                      rules    |-> parsed.rules]
           n      == Len(m.evaluate)
<1>1. n \in 1..Limit.rules /\ PolicyValid(read)
  BY DEF ParsePolicy, Refused, Missing
<1>2. /\ ParsePolicy(m, statuses) =
            Found(read, /\ parsed.sound
                        /\ Well(m.failure, Identifiers(m.failure))
                        /\ Well(m.no_match, Identifiers(m.no_match))
                        /\ PolicyStatuses(read) \subseteq DOMAIN statuses)
  BY <1>1 DEF ParsePolicy
<1>3. read.rules = parsed.rules
  OBVIOUS
<1> HIDE DEF read, n
<1>4. policy = read /\ parsed.sound /\ PolicyStatuses(read) \subseteq DOMAIN statuses
  BY <1>2 DEF Found
<1>5. n \in Nat
  BY <1>1, FieldsAssumption
<1>6. (\E U : parsed.rules \in Seq(U)) /\ Len(parsed.rules) = n
  BY <1>4, <1>5, RulesRead DEF n
<1> QED  BY <1>1, <1>3, <1>4, <1>6 DEF PolicyMade, n

\* What the parsers accept is within the limits that the factories check again.
LEMMA TimeoutRead ==
    ASSUME NEW field
    PROVE  /\ Or(Timeouts(field), Limit.default_timeout) >= 1
           /\ Or(Timeouts(field), Limit.default_timeout) <= Limit.timeout
<1> DEFINE found == Timeouts(field)
<1>1. \A d \in found : d \in 1..Limit.timeout
  BY DurationRange DEF Timeouts
<1>2. Limit.default_timeout \in 1..Limit.timeout /\ Limit.timeout \in Nat
  BY FieldsAssumption
<1> HIDE DEF found
<1>3. Or(found, Limit.default_timeout) \in 1..Limit.timeout
  BY <1>1, <1>2, OrElement, OrDefault
<1> QED  BY <1>2, <1>3 DEF found

\* A limit of a response is within its own limits.
LEMMA ResponseRead ==
    ASSUME NEW field
    PROVE  /\ Or(Responses(field), Limit.default_response) \in Nat
           /\ Or(Responses(field), Limit.default_response) >= 1
           /\ Or(Responses(field), Limit.default_response) <= Limit.response
<1> DEFINE found == Responses(field)
<1>1. \A d \in found : d \in 1..Limit.response
  BY DEF Responses, Bounded
<1>2. Limit.default_response \in 1..Limit.response /\ Limit.response \in Nat
  BY FieldsAssumption
<1> HIDE DEF found
<1>3. Or(found, Limit.default_response) \in 1..Limit.response
  BY <1>1, <1>2, OrElement, OrDefault
<1> QED  BY <1>2, <1>3 DEF found

\* A host that is read is one, and so is a port.
LEMMA HostRead ==
    ASSUME NEW field, Hosts(field) # {}
    PROVE  Or(Hosts(field), "") \notin {"", "invalid"}
<1>1. Or(Hosts(field), "") \in Hosts(field)
  BY OrElement
<1> QED  BY <1>1 DEF Hosts

LEMMA PortRead ==
    ASSUME NEW field, Ports(field) # {}
    PROVE  Or(Ports(field), 0) > 0
<1>1. Or(Ports(field), 0) \in Ports(field)
  BY OrElement
<1> QED  BY <1>1 DEF Ports, Bounded

\* An accepted HTTP source can be made a runner, if its secrets resolve.
LEMMA HttpMade ==
    ASSUME NEW m, NEW s \in ParseHttp(m).value
    PROVE  SourceMade(s)
<1> DEFINE url     == Or(Urls(m.url), "")
           method  == Or(m.method, "GET")
           body    == Or(m.body, 0)
           timeout == Or(Timeouts(m.timeout), Limit.default_timeout)
           maximum == Or(Responses(m.response), Limit.default_response)
           observe == Or(HttpObservations(m.observe), <<>>)
<1>1. /\ Urls(m.url) # {} /\ method \in Methods /\ HeadersValid(m.headers)
      /\ body <= Limit.body
      /\ body > 0 => method \notin Bodiless
      /\ HttpObservations(m.observe) # {}
      /\ s = [type |-> "http", url |-> url, method |-> method, headers |-> m.headers,
              body |-> body, timeout |-> timeout, maximum |-> maximum, observe |-> observe]
  BY DEF ParseHttp, Refused, Missing, Found
<1> HIDE DEF url, method, body, timeout, maximum, observe
<1>2. /\ s.type = "http" /\ s.url = url /\ s.method = method /\ s.headers = m.headers
      /\ s.body = body /\ s.timeout = timeout /\ s.maximum = maximum /\ s.observe = observe
  BY <1>1
<1>3. url \in {"http", "https"}
  <2>1. url \in Urls(m.url)
    BY <1>1, OrElement DEF url
  <2> QED  BY <2>1 DEF Urls
<1>4. observe \in HttpObservations({observe})
  <2>1. observe \in HttpObservations(m.observe)
    BY <1>1, OrElement DEF observe
  <2> QED  BY <2>1 DEF HttpObservations
<1>5. 1 <= timeout /\ timeout <= Limit.timeout
  <2> DEFINE t == Or(Timeouts(m.timeout), Limit.default_timeout)
  <2>1. t >= 1 /\ t <= Limit.timeout
    BY TimeoutRead
  <2> QED  BY <2>1 DEF timeout
<1>6. 1 <= maximum /\ maximum <= Limit.response
  <2> DEFINE x == Or(Responses(m.response), Limit.default_response)
  <2>1. x >= 1 /\ x <= Limit.response
    BY ResponseRead
  <2> QED  BY <2>1 DEF maximum
<1> SUFFICES ASSUME ~RefusedByHost(s) PROVE HttpCreatable(s)
  BY <1>2 DEF SourceMade, Creatable
<1>7. /\ url = "http" \/ Tls
      /\ \A i \in DOMAIN m.headers : m.headers[i].secret = {}
  BY <1>2, <1>3 DEF RefusedByHost
<1>8. \A i \in DOMAIN m.headers : Resolved(m.headers[i]) = Written(m.headers[i])
  BY <1>7 DEF Resolved, Written
<1>9. [i \in DOMAIN m.headers |-> Resolved(m.headers[i])]
        = [i \in DOMAIN m.headers |-> Written(m.headers[i])]
  BY <1>8
<1>10. /\ Len(s.headers) <= Limit.headers
       /\ ProperNames(HeaderNames(s.headers))
       /\ \A i \in DOMAIN s.headers : s.headers[i].name \notin OwnedHeaders
       /\ SecretsKnown(s.headers)
       /\ \A i \in DOMAIN s.headers : Resolved(s.headers[i]) <= Limit.header_value
       /\ Total([i \in DOMAIN s.headers |-> Resolved(s.headers[i])]) <= Limit.headers_total
  BY <1>1, <1>2, <1>7, <1>8, <1>9 DEF HeadersValid, SecretsKnown
<1>11. /\ s.url = "http" \/ (s.url = "https" /\ Tls)
       /\ s.method \in Methods
       /\ s.body > 0 => s.method \notin Bodiless
       /\ s.body <= Limit.body
       /\ TimeoutAccepted(s)
       /\ 1 <= s.maximum /\ s.maximum <= Limit.response
       /\ HttpObservations({s.observe}) # {}
  BY <1>1, <1>2, <1>3, <1>4, <1>5, <1>6, <1>7 DEF TimeoutAccepted
<1> QED  BY <1>10, <1>11 DEF HttpCreatable

\* The same of a TCP exchange.
LEMMA ExchangeMade ==
    ASSUME NEW m, NEW s \in ParseTcpExchange(m).value
    PROVE  SourceMade(s)
<1> DEFINE maximum == Or(Responses(m.response), Limit.default_response)
           until   == Bounded(m.read_until, 1, Limit.delimiter)
           end     == Or(until, 0)
           timeout == Or(Timeouts(m.timeout), Limit.default_timeout)
           observe == Observation(m.observe, {"body", "latency_ms"})
<1>1. /\ Hosts(m.host) # {} /\ Ports(m.port) # {}
      /\ Or(m.send, 0) <= Limit.send
      /\ until # {}
      /\ maximum >= end
      /\ s = [type |-> "tcp_exchange", host |-> Or(Hosts(m.host), ""),
              port |-> Or(Ports(m.port), 0), timeout |-> timeout,
              send |-> Or(m.send, 0), read_until |-> end,
              maximum |-> maximum, observe |-> Or(observe, "")]
  BY DEF ParseTcpExchange, Refused, Missing, Found
<1>2. end \in 1..Limit.delimiter /\ Limit.delimiter \in Nat
  <2> DEFINE u == until
  <2>1. \A x \in u : x \in 1..Limit.delimiter
    BY DEF Bounded
  <2>2. u # {}
    BY <1>1
  <2> HIDE DEF u
  <2>3. Or(u, 0) \in 1..Limit.delimiter
    BY <2>1, <2>2, OrElement
  <2>4. Limit.delimiter \in Nat
    BY FieldsAssumption
  <2> QED  BY <2>3, <2>4 DEF u
<1>3. maximum \in Nat /\ 1 <= maximum /\ maximum <= Limit.response
  BY ResponseRead
<1>4. 1 <= timeout /\ timeout <= Limit.timeout
  BY TimeoutRead
<1>5. Or(Hosts(m.host), "") \notin {"", "invalid"} /\ Or(Ports(m.port), 0) > 0
  BY <1>1, HostRead, PortRead
<1> HIDE DEF maximum, end, timeout, observe
<1>6. /\ s.type = "tcp_exchange" /\ s.host = Or(Hosts(m.host), "") /\ s.port = Or(Ports(m.port), 0)
      /\ s.timeout = timeout /\ s.send = Or(m.send, 0) /\ s.read_until = end
      /\ s.maximum = maximum
  BY <1>1
<1>7. end >= 1 /\ end <= Limit.delimiter /\ end <= maximum
  <2>1. end \in Nat /\ end >= 1 /\ end <= Limit.delimiter
    BY <1>2
  <2>2. maximum >= end
    BY <1>1
  <2> QED  BY <1>3, <2>1, <2>2
<1> QED  BY <1>1, <1>3, <1>4, <1>5, <1>6, <1>7
         DEF SourceMade, Creatable, HostAccepted, TimeoutAccepted

\* The same of every kind of source.
LEMMA SourceRead ==
    ASSUME NEW m, NEW s \in ParseSource(m).value
    PROVE  SourceMade(s)
<1> DEFINE timeout == Or(Timeouts(m.timeout), Limit.default_timeout)
           host    == Or(Hosts(m.host), "")
<1>1. \/ s \in ParseHttp(m).value \/ s \in ParseTcpConnect(m).value
      \/ s \in ParseIcmpPing(m).value \/ s \in ParseTcpExchange(m).value
      \/ s \in ParseDns(m).value
  BY DEF ParseSource, Refused, Missing
<1>2. 1 <= timeout /\ timeout <= Limit.timeout
  BY TimeoutRead
<1>3. CASE s \in ParseTcpConnect(m).value
  <2>1. /\ Hosts(m.host) # {} /\ Ports(m.port) # {}
        /\ s = [type |-> "tcp_connect", host |-> host, port |-> Or(Ports(m.port), 0),
                timeout |-> timeout]
    BY <1>3 DEF ParseTcpConnect, Refused, Missing, Found
  <2>2. host \notin {"", "invalid"} /\ Or(Ports(m.port), 0) > 0
    BY <2>1, HostRead, PortRead
  <2> HIDE DEF timeout, host
  <2> QED  BY <1>2, <2>1, <2>2 DEF SourceMade, Creatable, HostAccepted, TimeoutAccepted
<1>4. CASE s \in ParseIcmpPing(m).value
  <2>1. /\ Hosts(m.host) # {}
        /\ s = [type |-> "icmp_ping", host |-> host, timeout |-> timeout]
    BY <1>4 DEF ParseIcmpPing, Refused, Missing, Found
  <2>2. host \notin {"", "invalid"}
    BY <2>1, HostRead
  <2> HIDE DEF timeout, host
  <2> QED  BY <1>2, <2>1, <2>2
           DEF SourceMade, Creatable, HostAccepted, TimeoutAccepted, RefusedByHost
<1>5. CASE s \in ParseDns(m).value
  <2> DEFINE family  == Or(m.family, "any")
             observe == Or(Observation(m.observe, {"addresses", "address_count", "latency_ms"}), "")
  <2>1. /\ Hosts(m.host) # {} /\ m.family \subseteq Families
        /\ s = [type |-> "dns", host |-> host, family |-> family, timeout |-> timeout,
                observe |-> observe]
    BY <1>5 DEF ParseDns, Refused, Missing, Found
  <2>2. host \notin {"", "invalid"}
    BY <2>1, HostRead
  <2>3. family \in Families
    <3>1. CASE m.family = {}
      BY <3>1, OrDefault DEF Families
    <3>2. CASE m.family # {}
      BY <2>1, <3>2, OrElement
    <3> QED  BY <3>1, <3>2
  <2> HIDE DEF timeout, host, family, observe
  <2> QED  BY <1>2, <2>1, <2>2, <2>3 DEF SourceMade, Creatable, HostAccepted, TimeoutAccepted
<1> QED  BY <1>1, <1>3, <1>4, <1>5, HttpMade, ExchangeMade

\* An accepted monitor has a policy, a schedule and a source that the engine takes.
LEMMA MonitorRead ==
    ASSUME NEW entry, NEW statuses, NEW m \in ParseMonitor(entry, statuses).value,
           ParseMonitor(entry, statuses).sound, Once(entry.ttl)
    PROVE  MonitorMade(m, statuses) /\ Len(m.policy.rules) = Len(entry.evaluate)
<1> DEFINE interval == Durations(entry.interval, Limit.min_interval, Limit.interval)
           ttl      == Durations(entry.ttl, 1, Limit.ttl)
           policy   == ParsePolicy(entry, statuses)
           source   == ParseSource(entry)
<1>1. ParseMonitor(entry, statuses) = MonitorOf(entry, interval, ttl, policy, source)
  BY DEF ParseMonitor
<1>2. \A d \in interval : d > 0
  <2>1. Limit.min_interval \in Nat /\ Limit.min_interval > 0
    BY FieldsAssumption
  <2>2. \A d \in interval : d \in Limit.min_interval..Limit.interval
    BY DurationRange
  <2> HIDE DEF interval
  <2> QED  BY <2>1, <2>2
<1>3. ttl \in Optional(Nat \ {0})
  <2>1. \A d \in ttl : d \in 1..Limit.ttl
    BY DurationRange
  <2>2. Once(ttl)
    BY DEF Once, Durations, ParsedDuration
  <2> HIDE DEF ttl
  <2>3. \A d \in ttl : d \in Nat \ {0}
    BY <2>1
  <2> QED  BY <2>2, <2>3 DEF Optional, Once
<1>4. \A p \in policy.value :
         policy.sound => PolicyMade(p, statuses) /\ Len(p.rules) = Len(entry.evaluate)
  BY PolicyRead
<1>5. \A s \in source.value : SourceMade(s)
  BY SourceRead
<1> HIDE DEF interval, ttl, policy, source
<1>6. /\ Identifiers(entry.id) # {} /\ interval # {} /\ policy.value # {} /\ source.value # {}
      /\ policy.sound
      /\ m = [id |-> Or(Identifiers(entry.id), ""), interval |-> Or(interval, 0), ttl |-> ttl,
              policy |-> Or(policy.value, <<>>), source |-> Or(source.value, <<>>)]
  <2> DEFINE read == [id |-> Or(Identifiers(entry.id), ""), interval |-> Or(interval, 0),
                      ttl |-> ttl, policy |-> Or(policy.value, <<>>),
                      source |-> Or(source.value, <<>>)]
             made == MonitorOf(entry, interval, ttl, policy, source)
  <2>1. m \in made.value /\ made.sound
    BY <1>1
  <2>2. made.value # {}
    BY <2>1
  <2>3. /\ Identifiers(entry.id) # {} /\ interval # {} /\ policy.value # {} /\ source.value # {}
        /\ made = Found(read, policy.sound /\ source.sound /\ ~entry.unknown)
    BY <2>2 DEF MonitorOf, Refused, Missing
  <2> HIDE DEF made, read
  <2>4. m = read /\ policy.sound
    BY <2>1, <2>3 DEF Found
  <2> QED  BY <2>3, <2>4 DEF read
<1>7. Or(Identifiers(entry.id), "") # ""
  <2>1. Or(Identifiers(entry.id), "") \in Identifiers(entry.id)
    BY <1>6, OrElement
  <2> QED  BY <2>1 DEF Identifiers
<1>8. Or(interval, 0) > 0
  BY <1>2, <1>6, OrElement
<1>9. /\ PolicyMade(Or(policy.value, <<>>), statuses) /\ SourceMade(Or(source.value, <<>>))
      /\ Len(Or(policy.value, <<>>).rules) = Len(entry.evaluate)
  BY <1>4, <1>5, <1>6, OrElement
<1> QED  BY <1>3, <1>6, <1>7, <1>8, <1>9 DEF MonitorMade

\* So have all entries if there was no error, and their ids differ.
LEMMA MonitorsRead ==
    ASSUME NEW field, NEW statuses, ParseMonitors(field, statuses).sound,
           \A monitors \in field : \A i \in 1..Len(monitors) : Once(monitors[i].ttl)
    PROVE  /\ MonitorsMade(ParseMonitors(field, statuses).items, statuses)
           /\ RulesKept(ParseMonitors(field, statuses).items, Or(field, <<>>))
<1> DEFINE entries == Or(field, <<>>)
           n       == Len(entries)
           parsed  == [i \in 1..n |-> ParseMonitor(entries[i], statuses)]
           kept    == KeepAll(parsed)
<1>1. n \in 0..Limit.monitors /\ ParseMonitors(field, statuses) = kept
  BY DEF ParseMonitors
<1>0. \A i \in 1..n : Once(entries[i].ttl)
  <2>1. CASE field = {}
    <3>1. entries = <<>> /\ Len(<<>>) = 0
      BY <2>1, OrDefault
    <3> HIDE DEF entries
    <3>2. 1..n = {}
      BY <3>1
    <3> QED  BY <3>2
  <2>2. CASE field # {}
    BY <2>2, OrElement
  <2> QED  BY <2>1, <2>2
<1> HIDE DEF entries
<1>2. n \in Nat /\ n <= Limit.monitors
  <2> DEFINE k == n
  <2>1. k \in 0..Limit.monitors
    BY <1>1
  <2> HIDE DEF k
  <2>2. k \in Nat /\ k <= Limit.monitors
    BY <2>1, FieldsAssumption
  <2> QED  BY <2>2 DEF k
<1> HIDE DEF n
<1>3. Len(parsed) = n /\ \A i \in 1..n : parsed[i] = ParseMonitor(entries[i], statuses)
  BY <1>2
<1> HIDE DEF parsed
<1>4. kept.items \in Seq(Entries(parsed)) /\ Following(kept.items, kept.ids, parsed, n)
  BY <1>1, <1>2, <1>3, EntriesKept
<1> DEFINE items == kept.items
<1>5. /\ items \in Seq(Entries(parsed)) /\ Len(items) = n
      /\ \A i \in 1..n : /\ items[i] \in parsed[i].value /\ parsed[i].sound
                         /\ \A j \in 1..i - 1 : items[j].id # items[i].id
  BY <1>4 DEF Following
<1> HIDE DEF items
<1>6. \A i \in 1..n : /\ MonitorMade(items[i], statuses)
                      /\ Len(items[i].policy.rules) = Len(entries[i].evaluate)
  BY <1>0, <1>3, <1>5, MonitorRead
<1>7. MonitorsMade(items, statuses)
  BY <1>2, <1>5, <1>6 DEF MonitorsMade
<1>8. RulesKept(items, entries)
  BY <1>5, <1>6 DEF RulesKept, n
<1> QED  BY <1>1, <1>7, <1>8 DEF items, entries

\* So have all of a configuration that loads.
LEMMA ConfigMonitors ==
    ASSUME NEW file, \A root \in file : WrittenOnce(root), NEW c \in LoadConfig(file)
    PROVE  /\ MonitorsMade(c.monitors, c.statuses)
           /\ \E root \in file : RulesKept(c.monitors, Or(root.monitors, <<>>))
<1>1. PICK root \in file :
          c \in ParseRootObject(root, ParseDisplay(root.display), ParseStatuses(root.statuses))
  BY DEF LoadConfig
<1> DEFINE display  == ParseDisplay(root.display)
           statuses == ParseStatuses(root.statuses)
           monitors == ParseMonitors(root.monitors, statuses.value)
           shown    == ParseShown(root, Or(display.value, <<>>), statuses.value)
<1>2. c \in Configuration(root, display, statuses, monitors, shown)
  BY <1>1 DEF ParseRootObject
<1> HIDE DEF display, statuses, shown
<1>3. /\ monitors.sound
      /\ c.monitors = monitors.items /\ c.statuses = statuses.value
  <2> HIDE DEF monitors
  <2> QED  BY <1>2 DEF Configuration, ErrorFree
<1>4. \A entries \in root.monitors : \A i \in 1..Len(entries) : Once(entries[i].ttl)
  BY DEF WrittenOnce
<1> QED  BY <1>3, <1>4, MonitorsRead

-----------------------------------------------------------------------------
(* What is observed. *)

\* Products and quotients of whole numbers.
LEMMA ProductInt == ASSUME NEW a \in Int, NEW b \in Nat PROVE a * b \in Int
  OBVIOUS

LEMMA QuotientInt ==
    ASSUME NEW n, n \in Int, NEW d, d \in Int, d # 0
    PROVE  Quotient(n, d) \in Int
<1>1. CASE d < 0
  <2>1. -n \in Int /\ -d \in Int /\ -d > 0
    BY <1>1
  <2>2. (-n) \div (-d) \in Int
    BY <2>1
  <2> QED  BY <1>1, <2>2 DEF Quotient
<1>2. CASE ~(d < 0)
  <2>1. d > 0
    BY <1>2
  <2>2. n \div d \in Int
    BY <2>1
  <2> QED  BY <1>2, <2>2 DEF Quotient
<1> QED  BY <1>1, <1>2

\* The ratio of two values of a document is on the scale of values.
LEMMA RatioScaled ==
    ASSUME NEW top, Measured(top), NEW bottom, Measured(bottom), NEW scale, scale \in Nat
    PROVE  OnScale(Ratio(JsonNumber(top), JsonNumber(bottom), scale).value)
<1> DEFINE n == JsonNumber(top)
           d == JsonNumber(bottom)
           q == Quotient(Or(n, 0) * scale, Or(d, 1))
<1>1. CASE n = {} \/ d \in {{}, {0}}
  BY <1>1 DEF Ratio, Unobserved, NoValue, OnScale, IsNumber
<1>2. CASE ~(n = {} \/ d \in {{}, {0}})
  <2>1. n = {top.v} /\ top.kind \in {"integer", "real", "huge"}
    BY <1>2 DEF JsonNumber
  <2>2. d = {bottom.v} /\ bottom.kind \in {"integer", "real", "huge"}
    BY <1>2 DEF JsonNumber
  <2>3. top.v \in Int /\ bottom.v \in Int
    BY <2>1, <2>2 DEF Measured, OnScale, IsNumber
  <2>4. Or(n, 0) = top.v /\ Or(d, 1) = bottom.v
    BY <2>1, <2>2, OrSingleton
  <2>5. bottom.v # 0
    BY <1>2, <2>2
  <2>6. Or(n, 0) * scale \in Int
    BY <2>3, <2>4, ProductInt
  <2>7. q \in Int
    BY <2>3, <2>4, <2>5, <2>6, QuotientInt
  <2>8. Ratio(n, d, scale).value = Float(q)
    BY <1>2 DEF Ratio, Observed
  <2> HIDE DEF q, n, d
  <2>9. OnScale(Float(q))
    BY <2>7 DEF OnScale, Float, NumberValue
  <2> QED  BY <2>8, <2>9 DEF n, d
<1> QED  BY <1>1, <1>2

\* A number that is observed is one that can be compared.
LEMMA ObservedScaled ==
    ASSUME NEW c \in Cases, NEW s, NEW response \in c.responses
    PROVE  OnScale(HttpResult(s, response).value)
<1>0. /\ OnScale(Whole(response.status)) /\ OnScale(response.text)
      /\ \A json \in response.json : \A p \in DOMAIN json : Measured(json[p])
  BY CasesAssumption
<1>1. OnScale(Unobserved.value) /\ OnScale(Observed(NoValue).value)
  BY DEF Unobserved, Observed, NoValue, OnScale, IsNumber
<1>2. \A v : Observed(v).value = v
  BY DEF Observed
<1> DEFINE json == Or(response.json, <<>>)
           o    == s.observe
<1>3. \/ HttpResult(s, response) = Unobserved
      \/ HttpResult(s, response) = Observed(Whole(response.status))
      \/ HttpResult(s, response) = Observed(response.text)
      \/ response.json # {} /\ HttpResult(s, response) = FromJson(o, json)
  BY DEF HttpResult
<1>4. ASSUME response.json # {} PROVE OnScale(FromJson(o, json).value)
  <2>1. json \in response.json
    BY <1>4, OrElement
  <2> HIDE DEF json, o
  <2>2. \A p \in DOMAIN json : Measured(json[p])
    BY <1>0, <2>1
  <2> DEFINE scale  == Or(Bounded(o.scale, 1, Limit.scale), 1)
             node   == json[o.pointer]
             other  == json[o.denominator]
             result == FromJson(o, json)
  <2>3. scale \in Nat
    <3> DEFINE found == Bounded(o.scale, 1, Limit.scale)
    <3>1. \A x \in found : x \in Nat
      BY DEF Bounded
    <3> HIDE DEF found
    <3>2. Or(found, 1) \in Nat
      BY <3>1, OrElement, OrDefault
    <3> QED  BY <3>2 DEF found
  <2>4. \/ result = Unobserved
        \/ result = Observed(NoValue)
        \/ /\ o.pointer \in DOMAIN json /\ node.kind = "array"
           /\ result = Observed(Whole(node.size))
        \/ /\ o.pointer \in DOMAIN json /\ o.denominator \in DOMAIN json
           /\ result = Ratio(JsonNumber(node), JsonNumber(other), scale)
        \/ o.pointer \in DOMAIN json /\ result = Observed(node)
    BY DEF FromJson
  <2> HIDE DEF scale, node, other, result
  <2> SUFFICES OnScale(result.value)
    BY DEF result
  <2>5. ASSUME o.pointer \in DOMAIN json PROVE Measured(node)
    BY <2>2, <2>5 DEF node
  <2>6. ASSUME o.denominator \in DOMAIN json PROVE Measured(other)
    BY <2>2, <2>6 DEF other
  <2>7. CASE /\ o.pointer \in DOMAIN json /\ node.kind = "array"
             /\ result = Observed(Whole(node.size))
    BY <1>2, <2>5, <2>7 DEF Measured
  <2>8. CASE /\ o.pointer \in DOMAIN json /\ o.denominator \in DOMAIN json
             /\ result = Ratio(JsonNumber(node), JsonNumber(other), scale)
    BY <2>3, <2>5, <2>6, <2>8, RatioScaled
  <2>9. CASE o.pointer \in DOMAIN json /\ result = Observed(node)
    BY <1>2, <2>5, <2>9 DEF Measured
  <2> QED  BY <1>1, <2>4, <2>7, <2>8, <2>9
<1> HIDE DEF json, o
<1> QED  BY <1>0, <1>1, <1>2, <1>3, <1>4

-----------------------------------------------------------------------------
(* Timelines of colours. *)

\* What is written once is what Or and The give.
LEMMA OrThe == ASSUME NEW S, NEW d, S # {} PROVE Or(S, d) = The(S)
  BY DEF Or, The

LEMMA OnceThe == ASSUME NEW S, Once(S), NEW x \in S PROVE The(S) = x
  BY TheElement DEF Once

\* A mixture of two colours lies between them, and begins with the first.
LEMMA BlendBetween ==
    ASSUME NEW from \in Nat, NEW to \in Nat, NEW d \in Nat \ {0}, NEW n \in 0..d, NEW short
    PROVE  /\ Blend(from, to, n, d, short) \in Lowest(from, to)..Highest(from, to)
           /\ n = 0 => Blend(from, to, n, d, short) = from
<1> DEFINE raised == 2 * (from * d + (to - from) * n) + d
           e      == 2 * d
           q      == raised \div e
           mixed  == IF short /\ raised % e = 0 THEN q - 1 ELSE q
           low    == Lowest(from, to)
           high   == Highest(from, to)
<1>1. Blend(from, to, n, d, short) = mixed
  BY DEF Blend
<1>2. /\ low \in Nat /\ high \in Nat /\ low <= from /\ from <= high
      /\ (low = from /\ high = to) \/ (low = to /\ high = from)
  BY DEF Lowest, Highest
<1> DEFINE total == from * d + (to - from) * n
<1>3. total \in Int /\ low * d <= total /\ total <= high * d /\ (n = 0 => total = from * d)
  <2>1. (d - n) \in Nat /\ n \in Nat
    OBVIOUS
  <2>2. total = from * (d - n) + to * n
    OBVIOUS
  <2>3. CASE low = from /\ high = to
    <3>1. PICK k \in Nat : to = from + k
      <4>1. from <= to
        BY <1>2, <2>3
      <4>2. to - from \in Nat /\ to = from + (to - from)
        BY <4>1
      <4> QED  BY <4>2
    <3>2. k * n \in Nat /\ k * n <= k * d
      BY <2>1, ProductMonotone, ProductNat
    <3>3. total = from * d + k * n /\ high * d = from * d + k * d
      BY <2>3, <3>1
    <3> HIDE DEF total, low, high
    <3>4. from * d \in Nat /\ k * d \in Nat
      BY ProductNat
    <3> QED  BY <2>3, <3>2, <3>3, <3>4
  <2>4. CASE low = to /\ high = from
    <3>1. PICK k \in Nat : from = to + k
      <4>1. to <= from
        BY <1>2, <2>4
      <4>2. from - to \in Nat /\ from = to + (from - to)
        BY <4>1
      <4> QED  BY <4>2
    <3>2. k * (d - n) \in Nat /\ k * (d - n) <= k * d
      BY <2>1, ProductMonotone, ProductNat
    <3>3. total = to * d + k * (d - n) /\ high * d = to * d + k * d
      BY <2>4, <3>1
    <3>4. n = 0 => total = from * d
      OBVIOUS
    <3> HIDE DEF total, low, high
    <3>5. to * d \in Nat /\ k * d \in Nat
      BY ProductNat
    <3> QED  BY <2>4, <3>2, <3>3, <3>4, <3>5
  <2> QED  BY <1>2, <2>3, <2>4
<1>4. raised = 2 * total + d
  OBVIOUS
<1> HIDE DEF total, raised, low, high
<1>5. raised \in Int /\ e \in Nat \ {0}
  BY <1>3, <1>4
<1>6. /\ q \in Int /\ raised % e \in Nat /\ raised % e < e
      /\ raised = e * q + (raised % e)
  <2> HIDE DEF e
  <2> QED  BY <1>5
<1> DEFINE rest == raised % e
<1> HIDE DEF q, rest
<1>7. /\ 2 * (d * q) + rest = 2 * total + d /\ rest \in Nat /\ rest < 2 * d
      /\ mixed = IF short /\ rest = 0 THEN q - 1 ELSE q
  <2>1. e * q = 2 * (d * q)
    BY <1>6
  <2> QED  BY <1>4, <1>6, <2>1 DEF rest
<1> HIDE DEF mixed
<1>8. mixed \in Int
  BY <1>6, <1>7
<1>9. 2 * (d * mixed) <= 2 * total + d /\ 2 * total - d <= 2 * (d * mixed)
  <2>1. CASE short /\ rest = 0
    <3>1. mixed = q - 1
      BY <1>7, <2>1
    <3>2. d * mixed = d * q - d
      BY <1>6, <3>1
    <3> QED  BY <1>3, <1>6, <1>7, <2>1, <3>2
  <2>2. CASE ~(short /\ rest = 0)
    <3>1. mixed = q
      BY <1>7, <2>2
    <3> QED  BY <1>3, <1>6, <1>7, <3>1
  <2> QED  BY <2>1, <2>2
<1>10. low <= mixed
  <2> SUFFICES ASSUME mixed <= low - 1 PROVE FALSE
    BY <1>2, <1>8
  <2>1. d * mixed <= d * (low - 1)
    BY <1>2, <1>8
  <2>2. d * (low - 1) = low * d - d
    BY <1>2
  <2> QED  BY <1>3, <1>8, <1>9, <1>2, <2>1, <2>2
<1>11. mixed <= high
  <2> SUFFICES ASSUME mixed >= high + 1 PROVE FALSE
    BY <1>2, <1>8
  <2>1. d * mixed >= d * (high + 1)
    BY <1>2, <1>8
  <2>2. d * (high + 1) = high * d + d
    BY <1>2
  <2> QED  BY <1>3, <1>8, <1>9, <1>2, <2>1, <2>2
<1>12. n = 0 => mixed = from
  <2> SUFFICES ASSUME n = 0, mixed # from PROVE FALSE
    OBVIOUS
  <2>1. total = from * d
    BY <1>3
  <2>2. CASE mixed >= from + 1
    <3>1. d * mixed >= d * (from + 1) /\ d * (from + 1) = from * d + d
      BY <1>8, <2>2
    <3> QED  BY <1>8, <1>9, <2>1, <3>1
  <2>3. CASE mixed <= from - 1
    <3>1. d * mixed <= d * (from - 1) /\ d * (from - 1) = from * d - d
      BY <1>8, <2>3
    <3> QED  BY <1>8, <1>9, <2>1, <3>1
  <2> QED  BY <1>8, <2>2, <2>3
<1> QED  BY <1>1, <1>8, <1>10, <1>11, <1>12 DEF mixed, low, high
\* A dimmed colour is one.
LEMMA DimmedInk == ASSUME NEW c \in Inks, NEW percent \in 0..100 PROVE Dimmed(c, percent) \in Inks
<1>1. Dimmed(c, percent) \in Lowest(0, c)..Highest(0, c)
  <2>1. 0 \in Nat /\ c \in Nat /\ 100 \in Nat \ {0}
    BY FieldsAssumption DEF Inks
  <2>2. Blend(0, c, percent, 100, FALSE) \in Lowest(0, c)..Highest(0, c)
    BY <2>1, BlendBetween, Zenon
  <2> QED  BY <2>2, Zenon DEF Dimmed
<1>2. c \in Nat /\ c <= MaxChannel /\ MaxChannel \in Nat
  BY FieldsAssumption DEF Inks
<1>3. Lowest(0, c) = 0 /\ Highest(0, c) = c
  BY <1>2 DEF Lowest, Highest
<1> QED  BY <1>1, <1>2, <1>3 DEF Inks

\* The keyframes come in the order of their times.
LEMMA MarkedInOrder ==
    ASSUME NEW frames, NEW cycle, NEW lengths, NEW transition, Lasting(lengths),
           Marked(frames, cycle, lengths, transition),
           NEW j \in 1..Len(lengths), NEW i \in 1..Len(lengths), i < j
    PROVE  frames[i].at < frames[j].at
<1> DEFINE n == Len(lengths)
<1>1. n \in Nat /\ n # 0
  BY DEF Lasting
<1>2. /\ \A k \in 1..n : frames[k].at \in Nat
      /\ \A k \in 1..n - 1 : frames[k + 1].at > frames[k].at
  <2>1. \A k \in 1..n : frames[k].at \in Nat /\ lengths[k].time \in Nat \ {0}
    BY DEF Lasting, Marked
  <2>2. \A k \in 1..n - 1 : frames[k + 1].at = frames[k].at + lengths[k].time
    BY DEF Marked
  <2> HIDE DEF n
  <2>3. \A k \in 1..n - 1 : k \in 1..n
    BY <1>1
  <2> QED  BY <2>1, <2>2, <2>3
<1> HIDE DEF n
<1> DEFINE T == {k \in 0..n : k > i => frames[i].at < frames[k].at}
<1>3. 0 \in T
  BY <1>1
<1>4. ASSUME NEW k \in 0..n - 1, k \in T PROVE k + 1 \in T
  <2>1. k + 1 \in 0..n
    BY <1>1
  <2>2. CASE k + 1 > i
    <3>1. k \in 1..n - 1 /\ k \in 1..n /\ k + 1 \in 1..n /\ (k = i \/ k > i)
      BY <1>1, <2>2 DEF n
    <3>2. frames[k + 1].at > frames[k].at /\ frames[k].at \in Nat /\ frames[k + 1].at \in Nat
      BY <1>2, <3>1
    <3>3. k = i \/ frames[i].at < frames[k].at
      BY <1>4, <3>1
    <3>4. frames[i].at \in Nat
      BY <1>2 DEF n
    <3>5. frames[i].at < frames[k + 1].at
      BY <3>2, <3>3, <3>4
    <3> QED  BY <2>1, <3>5
  <2> QED  BY <2>1, <2>2
<1> HIDE DEF T
<1>5. \A k \in 0..n : k \in T
  BY <1>1, <1>3, <1>4, Induction
<1>6. j \in 0..n
  BY DEF n
<1> QED  BY <1>5, <1>6 DEF T

\* So sorting them changes nothing.
LEMMA MarkedSorted ==
    ASSUME NEW frames, NEW cycle, NEW lengths, NEW transition, Lasting(lengths),
           Marked(frames, cycle, lengths, transition)
    PROVE  Sorted(frames) = frames
<1> DEFINE n         == Len(lengths)
           before(i) == {j \in DOMAIN frames : \/ frames[j].at < frames[i].at
                                               \/ frames[j].at = frames[i].at /\ j < i}
<1>1. n \in Nat /\ n # 0 /\ DOMAIN frames = 1..n /\ frames = [i \in 1..n |-> frames[i]]
      /\ \A i \in 1..n : frames[i].at \in Nat
  BY DEF Lasting, Marked
<1>2. \A i, j \in 1..n : i < j => frames[i].at < frames[j].at
  BY MarkedInOrder
<1>3. Sorted(frames) = [k \in DOMAIN frames |->
            frames[CHOOSE i \in DOMAIN frames : Cardinality(before(i)) = k - 1]]
  BY DEF Sorted
<1> HIDE DEF n
<1>4. ASSUME NEW i \in 1..n PROVE Cardinality(before(i)) = i - 1
  <2>1. ASSUME NEW j \in 1..n
        PROVE  (frames[j].at < frames[i].at \/ (frames[j].at = frames[i].at /\ j < i)) <=> j < i
    <3>1. frames[i].at \in Nat /\ frames[j].at \in Nat /\ i \in Int /\ j \in Int
      BY <1>1
    <3>2. j < i => frames[j].at < frames[i].at
      BY <1>2
    <3>3. i < j => frames[i].at < frames[j].at
      BY <1>2
    <3> QED  BY <3>1, <3>2, <3>3
  <2>2. before(i) = {j \in 1..n : j < i}
    BY <1>1, <2>1
  <2>3. {j \in 1..n : j < i} = 1..i - 1
    BY <1>1
  <2>4. Cardinality(1..i - 1) = i - 1
    <3>1. i \in Nat /\ i - 1 \in Int /\ 1 \in Int /\ i - 1 >= 0
      BY <1>1
    <3>2. Cardinality(1..i - 1) = IF 1 > i - 1 THEN 0 ELSE (i - 1) - 1 + 1
      BY <3>1, FS_Interval
    <3> QED  BY <3>1, <3>2
  <2> QED  BY <2>2, <2>3, <2>4
<1> HIDE DEF before
<1>5. ASSUME NEW k \in 1..n
      PROVE  (CHOOSE i \in DOMAIN frames : Cardinality(before(i)) = k - 1) = k
  <2>1. \A i \in 1..n : Cardinality(before(i)) = k - 1 => i = k
    BY <1>4
  <2>2. Cardinality(before(k)) = k - 1
    BY <1>4
  <2> QED  BY <1>1, <2>1, <2>2
<1> QED  BY <1>1, <1>3, <1>5

\* and the timeline is made of them.
LEMMA TimelineMarked ==
    ASSUME NEW frames, NEW cycle, NEW lengths, NEW transition, NEW repeat, Lasting(lengths),
           Marked(frames, cycle, lengths, transition)
    PROVE  LET t == Timeline(frames, cycle, repeat)
           IN  t.keyframes = frames /\ t.cycle = cycle /\ t.repeat = repeat
<1> DEFINE n == Len(lengths)
<1>1. Sorted(frames) = frames
  BY MarkedSorted
<1>2. /\ Len(frames) = n /\ n \in Nat /\ n # 0
      /\ frames[n].at \in Nat /\ lengths[n].time \in Nat
      /\ cycle = frames[n].at + lengths[n].time
  BY DEF Lasting, Marked
<1> HIDE DEF n
<1>3. ~(cycle < frames[n].at)
  BY <1>2
<1> DEFINE t == Timeline(frames, cycle, repeat)
<1>4. t = [keyframes |-> frames, cycle |-> cycle, repeat |-> repeat]
  BY <1>1, <1>2, <1>3 DEF Timeline
<1>5. t.keyframes = frames /\ t.cycle = cycle /\ t.repeat = repeat
  BY <1>4
<1> QED  BY <1>5
\* The next of n in a circle.
LEMMA NextOf ==
    ASSUME NEW n \in Nat \ {0}, NEW i \in 1..n
    PROVE  i % n = (IF i = n THEN 0 ELSE i) /\ (i % n) + 1 \in 1..n
<1>1. CASE i = n
  BY <1>1
<1>2. CASE i # n
  <2>1. i \in Nat /\ i < n
    BY <1>2
  <2> QED  BY <1>2, <2>1
<1> QED  BY <1>1, <1>2

\* How long it takes is how long they take.
LEMMA FollowsTimes ==
    ASSUME NEW t, NEW lengths, NEW transition, Follows(t, lengths, transition)
    PROVE  LET n == Len(lengths)
               at(i) == t.keyframes[i].at
           IN  /\ n \in Nat \ {0} /\ Len(t.keyframes) = n /\ DOMAIN t.keyframes = 1..n
               /\ at(1) = 0 /\ t.cycle \in Nat \ {0}
               /\ \A i \in 1..n : /\ at(i) \in Nat /\ lengths[i].time \in Nat \ {0}
                                  /\ at(i) + lengths[i].time <= t.cycle
                                  /\ t.keyframes[i].colour = lengths[i].colour
                                  /\ t.keyframes[i].transition = transition
                                  /\ lengths[i].colour \in Inks
               /\ \A i \in 1..n - 1 : at(i + 1) = at(i) + lengths[i].time
               /\ t.cycle = at(n) + lengths[n].time
<1> DEFINE n == Len(lengths)
           frames == t.keyframes
<1>1. Lasting(lengths) /\ Marked(frames, t.cycle, lengths, transition)
  BY DEF Follows
<1>2. /\ n \in Nat \ {0}
      /\ \A i \in 1..n : lengths[i].colour \in Inks /\ lengths[i].time \in Nat \ {0}
  BY <1>1 DEF Lasting
<1>3. /\ Len(frames) = n /\ DOMAIN frames = 1..n /\ frames[1].at = 0
      /\ \A i \in 1..n : frames[i].at \in Nat /\ frames[i].colour = lengths[i].colour
                         /\ frames[i].transition = transition
      /\ \A i \in 1..n - 1 : frames[i + 1].at = frames[i].at + lengths[i].time
      /\ t.cycle = frames[n].at + lengths[n].time
  BY <1>1 DEF Marked
<1> DEFINE cycle == t.cycle
<1> HIDE DEF n, frames, cycle
<1>4. cycle \in Nat \ {0} /\ cycle = frames[n].at + lengths[n].time
  BY <1>2, <1>3 DEF cycle
<1>5. ASSUME NEW i \in 1..n PROVE frames[i].at + lengths[i].time <= cycle
  <2>1. CASE i = n
    BY <1>2, <1>3, <1>4, <2>1
  <2>2. CASE i # n
    <3>1. i \in 1..n - 1 /\ i + 1 \in 1..n /\ n \in 1..n
      BY <1>2, <2>2
    <3>2. frames[i + 1].at = frames[i].at + lengths[i].time
      BY <1>3, <3>1
    <3>3. i + 1 = n \/ frames[i + 1].at < frames[n].at
      <4>1. ASSUME i + 1 < n PROVE frames[i + 1].at < frames[n].at
        <5>1. i + 1 \in 1..Len(lengths) /\ n \in 1..Len(lengths)
          BY <3>1 DEF n
        <5> QED  BY <1>1, <4>1, <5>1, MarkedInOrder
      <4> QED  BY <1>2, <3>1, <4>1
    <3>4. frames[i + 1].at \in Nat /\ frames[n].at \in Nat /\ lengths[n].time \in Nat
      BY <1>2, <1>3, <3>1
    <3> QED  BY <1>4, <3>2, <3>3, <3>4
  <2> QED  BY <2>1, <2>2
<1> QED  BY <1>2, <1>3, <1>4, <1>5 DEF n, frames, cycle

\* At every spot of its cycle there is a keyframe that is not ahead, the next of which
\* is.
LEMMA FrameDue ==
    ASSUME NEW t, NEW lengths, NEW transition, Follows(t, lengths, transition),
           NEW spot \in 0..t.cycle
    PROVE  LET i == CurrentIndex(t, spot)
           IN  /\ i \in 1..Len(lengths)
               /\ t.keyframes[i].at <= spot
               /\ spot <= t.keyframes[i].at + lengths[i].time
               /\ spot < t.cycle => spot < t.keyframes[i].at + lengths[i].time
               /\ spot = t.cycle => i = Len(lengths)
<1> DEFINE n == Len(lengths)
           at(i) == t.keyframes[i].at
           T == {i \in 1..n : i = n \/ at(i + 1) > spot}
           cycle == t.cycle
           current == CurrentIndex(t, spot)
<1>1. /\ n \in Nat \ {0} /\ Len(t.keyframes) = n /\ DOMAIN t.keyframes = 1..n
      /\ at(1) = 0 /\ cycle \in Nat \ {0}
      /\ \A i \in 1..n : /\ at(i) \in Nat /\ lengths[i].time \in Nat \ {0}
                         /\ at(i) + lengths[i].time <= cycle
      /\ \A i \in 1..n - 1 : at(i + 1) = at(i) + lengths[i].time
      /\ cycle = at(n) + lengths[n].time
      /\ spot \in 0..cycle
  BY FollowsTimes
<1> HIDE DEF n, cycle
<1>2. PICK i \in T : \A j \in T : i <= j
  <2>0. n \in T
    BY <1>1
  <2>1. T \in SUBSET (1..n) /\ T # {} /\ n \in Nat
    BY <1>1, <2>0
  <2> HIDE DEF T
  <2> DEFINE m == n
  <2>2. m \in Nat /\ T \in SUBSET (1..m)
    BY <2>1
  <2> HIDE DEF m
  <2>3. \E i \in T : \A j \in T : i <= j
    BY <2>1, <2>2, Least
  <2> QED  BY <2>3
<1>3. i = 1 \/ at(i) <= spot
  <2> SUFFICES ASSUME i # 1, ~(at(i) <= spot) PROVE FALSE
    OBVIOUS
  <2>1. i - 1 \in 1..n /\ (i - 1) + 1 = i /\ ~(i <= i - 1) /\ i \in 1..n
    BY <1>1
  <2>2. at(i) > spot
    BY <1>1, <2>1
  <2>3. i - 1 \in T
    BY <2>1, <2>2
  <2> HIDE DEF T
  <2> QED  BY <1>2, <2>1, <2>3
<1>4. \E j \in DOMAIN t.keyframes : /\ j = 1 \/ t.keyframes[j].at <= spot
                                    /\ j = Len(t.keyframes) \/ t.keyframes[j + 1].at > spot
  BY <1>1, <1>2, <1>3
<1>5. /\ current \in DOMAIN t.keyframes
      /\ current = 1 \/ t.keyframes[current].at <= spot
      /\ current = Len(t.keyframes) \/ t.keyframes[current + 1].at > spot
  BY <1>4, Zenon DEF CurrentIndex
<1>6. /\ current \in 1..n /\ (current = 1 \/ at(current) <= spot)
      /\ (current = n \/ at(current + 1) > spot)
  BY <1>1, <1>5
<1> HIDE DEF current
<1>7. at(current) <= spot
  BY <1>1, <1>6
<1>8. CASE current = n
  BY <1>1, <1>6, <1>7, <1>8 DEF n, cycle, current
<1>9. CASE current # n
  <2>1. current \in 1..n - 1
    BY <1>1, <1>6, <1>9
  <2>2. at(current + 1) = at(current) + lengths[current].time /\ at(current + 1) > spot
        /\ at(current) + lengths[current].time <= cycle
    BY <1>1, <1>6, <1>9, <2>1
  <2>3. spot < cycle /\ spot < at(current) + lengths[current].time
    BY <1>1, <1>6, <2>2
  <2> QED  BY <1>1, <1>6, <1>7, <2>3 DEF n, cycle, current
<1> QED  BY <1>8, <1>9

\* Where the timeline is in its cycle: again and again, or at its end for ever.
LEMMA PhaseDue ==
    ASSUME NEW t, NEW lengths, NEW transition, Follows(t, lengths, transition),
           NEW elapsed \in Int
    PROVE  LET e == IF elapsed < 0 THEN 0 ELSE elapsed
           IN  /\ PhaseOf(t, elapsed) \in 0..t.cycle
               /\ t.repeat => /\ PhaseOf(t, elapsed) = e % t.cycle
                              /\ PhaseOf(t, elapsed) < t.cycle
               /\ ~t.repeat => PhaseOf(t, elapsed) = IF e > t.cycle THEN t.cycle ELSE e
<1> DEFINE e == IF elapsed < 0 THEN 0 ELSE elapsed
           cycle == t.cycle
<1>1. cycle \in Nat \ {0}
  BY FollowsTimes
<1>2. PhaseOf(t, elapsed) = IF t.repeat /\ cycle > 0 THEN e % cycle
                            ELSE IF cycle > 0 /\ e > cycle THEN cycle ELSE e
  BY DEF PhaseOf
<1>3. e \in Nat
  OBVIOUS
<1> HIDE DEF e, cycle
<1>4. e % cycle \in Nat /\ e % cycle < cycle
  BY <1>1, <1>3
<1> QED  BY <1>1, <1>2, <1>3, <1>4 DEF e, cycle

\* What a timeline shows is the colour of its frame, or on the way to the next.
LEMMA SampledDue ==
    ASSUME NEW t, NEW lengths, NEW transition \in {"step", "linear"},
           Follows(t, lengths, transition), transition = "linear" => t.repeat,
           NEW elapsed \in Int, NEW short
    PROVE  LET spot == PhaseOf(t, elapsed)
               i     == CurrentIndex(t, spot)
           IN  Due(Sample(t, elapsed, short), lengths, i, spot - t.keyframes[i].at, transition)
<1> DEFINE n     == Len(lengths)
           spot == PhaseOf(t, elapsed)
           i     == CurrentIndex(t, spot)
           j     == (i % n) + 1
           at(k) == t.keyframes[k].at
           cycle == t.cycle
<1>1. /\ n \in Nat \ {0} /\ Len(t.keyframes) = n
      /\ at(1) = 0 /\ cycle \in Nat \ {0}
      /\ \A k \in 1..n : /\ at(k) \in Nat /\ lengths[k].time \in Nat \ {0}
                         /\ t.keyframes[k].colour = lengths[k].colour
                         /\ t.keyframes[k].transition = transition
                         /\ lengths[k].colour \in Inks
      /\ \A k \in 1..n - 1 : at(k + 1) = at(k) + lengths[k].time
      /\ cycle = at(n) + lengths[n].time
  <2> HIDE DEF spot, i, j
  <2>1. Follows(t, lengths, transition)
    OBVIOUS
  <2> QED  BY <2>1, FollowsTimes
<1> DEFINE current == t.keyframes[i]
           wraps   == i = Len(t.keyframes)
           next    == IF wraps THEN t.keyframes[1] ELSE t.keyframes[i + 1]
           until   == IF wraps THEN t.cycle ELSE next.at
<1>2. spot \in 0..cycle /\ (t.repeat => spot < cycle)
  BY PhaseDue
<1>3. /\ i \in 1..n /\ at(i) <= spot /\ spot <= at(i) + lengths[i].time
      /\ spot < cycle => spot < at(i) + lengths[i].time
  BY <1>2, FrameDue
<1>4. Sample(t, elapsed, short) =
          CASE current.transition = "step" -> current.colour
            [] current.transition = "linear" /\ wraps /\ (~t.repeat \/ t.cycle <= current.at)
                 -> current.colour
            [] OTHER
                 -> IF until <= current.at
                    THEN next.colour
                    ELSE Blend(current.colour, next.colour,
                               spot - current.at, until - current.at, short)
  BY DEF Sample
<1> HIDE DEF n, i, spot, cycle
<1>5. current.colour = lengths[i].colour /\ current.transition = transition /\ current.at = at(i)
      /\ at(i) \in Nat /\ lengths[i].colour \in Inks /\ lengths[i].time \in Nat \ {0}
  BY <1>1, <1>3
<1>6. CASE transition = "step"
  <2>1. Sample(t, elapsed, short) = lengths[i].colour
    BY <1>4, <1>5, <1>6
  <2> QED  BY <2>1, <1>6 DEF Due, spot, i
<1>7. CASE transition = "linear"
  <2>1. t.repeat /\ spot < at(i) + lengths[i].time
    BY <1>2, <1>3, <1>7
  <2>2. j \in 1..n /\ next = t.keyframes[j] /\ until = at(i) + lengths[i].time
    <3>1. CASE i = n
      <4>1. i % n = 0
        BY <1>1, <3>1, NextOf
      <4> QED  BY <1>1, <3>1, <4>1 DEF cycle
    <3>2. CASE i # n
      <4>1. i % n = i /\ i \in 1..n - 1
        BY <1>1, <1>3, <3>2, NextOf, SMTT(30)
      <4> QED  BY <1>1, <3>2, <4>1, SMTT(60)
    <3> QED  BY <3>1, <3>2
  <2>3. next.colour = lengths[j].colour /\ lengths[j].colour \in Inks
    BY <1>1, <2>2
  <2>4. ~(wraps /\ (~t.repeat \/ t.cycle <= current.at))
    BY <1>1, <1>5, <2>1, <2>2
  <2>5. ~(until <= current.at) /\ until - current.at = lengths[i].time
        /\ spot - current.at \in 0..lengths[i].time
    <3>1. spot \in Nat /\ at(i) <= spot
      BY <1>1, <1>2, <1>3
    <3> HIDE DEF until, current
    <3> DEFINE a == at(i)
               d == lengths[i].time
    <3>2. /\ current.at = a /\ until = a + d /\ a \in Nat /\ d \in Nat \ {0}
          /\ a <= spot /\ spot < a + d
      BY <1>5, <2>1, <2>2, <3>1
    <3> HIDE DEF a, d
    <3>3. ~(until <= current.at) /\ until - current.at = d /\ spot - current.at \in 0..d
      BY <3>1, <3>2
    <3> QED  BY <3>3 DEF d
  <2>6. Sample(t, elapsed, short) = Blend(lengths[i].colour, lengths[j].colour,
                                          spot - at(i), lengths[i].time, short)
    <3> HIDE DEF until, next, wraps, current, j
    <3> QED  BY <1>4, <1>5, <1>7, <2>3, <2>4, <2>5
  <2>7. lengths[i].colour \in Nat /\ lengths[j].colour \in Nat
        /\ spot - at(i) \in 0..lengths[i].time
    <3>1. \A x \in Inks : x \in Nat
      BY FieldsAssumption DEF Inks
    <3> QED  BY <1>5, <2>3, <2>5, <3>1
  <2> DEFINE from == lengths[i].colour
             to   == lengths[j].colour
             d    == lengths[i].time
             since == spot - at(i)
  <2>8. from \in Nat /\ to \in Nat /\ d \in Nat \ {0} /\ since \in 0..d
    BY <1>5, <2>7
  <2> HIDE DEF from, to, d, since
  <2>9. /\ Blend(from, to, since, d, short) \in Lowest(from, to)..Highest(from, to)
        /\ since = 0 => Blend(from, to, since, d, short) = from
    BY <2>8, BlendBetween
  <2>10. ~(since > 0) => since = 0
    BY <2>8
  <2> QED  BY <1>7, <2>6, <2>9, <2>10 DEF Due, spot, i, n, j, from, to, d, since
<1> QED  BY <1>6, <1>7
\* A duration of an appearance is some time.
LEMMA AppearanceTime ==
    ASSUME NEW field, AppearanceDurations(field) # {}
    PROVE  /\ Or(AppearanceDurations(field), 0) = The(AppearanceDurations(field))
           /\ The(AppearanceDurations(field)) \in Nat \ {0}
<1>1. The(AppearanceDurations(field)) \in AppearanceDurations(field)
  BY TheElement
<1>2. The(AppearanceDurations(field)) \in 1..Limit.appearance
  BY <1>1, DurationRange DEF AppearanceDurations
<1> QED  BY <1>2, OrThe

\* The colour of an appearance is the one that is written.
LEMMA WrittenColour ==
    ASSUME NEW field, Once(field), Colours(field) # {}
    PROVE  Or(Colours(field), 0) = The(field) /\ The(field) \in field \cap Inks
<1>1. Or(Colours(field), 0) \in Colours(field)
  BY OrElement
<1>2. Or(Colours(field), 0) \in field /\ Or(Colours(field), 0) \in Inks
  BY <1>1 DEF Colours, Inks
<1> QED  BY <1>2, OnceThe

\* An appearance that was refused claims nothing, one that was found is made.
LEMMA RefusedRead == ASSUME NEW a PROVE KindRead(Refused, a)
  BY DEF KindRead, Refused, Missing

LEMMA FoundRead ==
    ASSUME NEW t, NEW sound, NEW a, AppearanceMade(t, a)
    PROVE  KindRead(Found(t, sound), a)
  BY DEF KindRead, Found

\* One colour for ever.
LEMMA SolidRead ==
    ASSUME NEW a, a.type = "solid", AppearanceOnce(a)
    PROVE  KindRead(Solid(a), a)
<1>1. CASE Colours(a.colour) = {}
  BY <1>1, RefusedRead DEF Solid
<1>2. CASE Colours(a.colour) # {}
  <2> DEFINE c       == The(a.colour)
             frames  == <<Keyframe(0, c, "step")>>
             lengths == <<[colour |-> c, time |-> 1]>>
             t       == Timeline(frames, 0, FALSE)
  <2>1. Or(Colours(a.colour), 0) = c /\ c \in a.colour \cap Inks
    BY <1>2, WrittenColour DEF AppearanceOnce
  <2>2. Solid(a) = Found(t, TRUE)
    BY <1>2, <2>1 DEF Solid
  <2> HIDE DEF c
  <2>3. Lasting(lengths) /\ Marked(frames, 1, lengths, "step")
    BY <2>1 DEF Lasting, Marked, Keyframe
  <2>4. Sorted(frames) = frames
    <3> HIDE DEF frames, lengths
    <3> QED  BY <2>3, MarkedSorted
  <2>5. t.keyframes = frames
    <3> HIDE DEF frames
    <3> QED  BY <2>4 DEF Timeline
  <2>6. AppearanceMade(t, a)
    <3> HIDE DEF t
    <3> QED  BY <2>1, <2>5 DEF AppearanceMade, c
  <2> HIDE DEF t
  <2> QED  BY <2>2, <2>6, FoundRead
<1> QED  BY <1>1, <1>2

\* Two colours.
LEMMA PairMarked ==
    ASSUME NEW c \in Inks, NEW e \in Inks, NEW d \in Nat \ {0}, NEW f \in Nat \ {0},
           NEW transition
    PROVE  LET lengths == <<[colour |-> c, time |-> d], [colour |-> e, time |-> f]>>
               frames  == <<Keyframe(0, c, transition), Keyframe(d, e, transition)>>
           IN  Lasting(lengths) /\ Marked(frames, d + f, lengths, transition)
  BY DEF Lasting, Marked, Keyframe

\* Two colours in turn.
LEMMA PairFollows ==
    ASSUME NEW c \in Inks, NEW e \in Inks, NEW d \in Nat \ {0}, NEW f \in Nat \ {0},
           NEW transition
    PROVE  LET lengths == <<[colour |-> c, time |-> d], [colour |-> e, time |-> f]>>
               t == Timeline(<<Keyframe(0, c, transition), Keyframe(d, e, transition)>>,
                             d + f, TRUE)
           IN  Follows(t, lengths, transition) /\ t.repeat = TRUE
<1> DEFINE lengths == <<[colour |-> c, time |-> d], [colour |-> e, time |-> f]>>
           frames  == <<Keyframe(0, c, transition), Keyframe(d, e, transition)>>
           cycle   == d + f
           always  == TRUE
           t       == Timeline(frames, cycle, always)
<1>1. Lasting(lengths) /\ Marked(frames, cycle, lengths, transition)
  BY PairMarked
<1> HIDE DEF lengths, frames, cycle, always
<1>2. t.keyframes = frames /\ t.cycle = cycle /\ t.repeat = always
  BY <1>1, TimelineMarked
<1> HIDE DEF t
<1>3. Follows(t, lengths, transition) /\ t.repeat = TRUE
  BY <1>1, <1>2 DEF Follows, always
<1> QED  BY <1>3 DEF t, lengths, frames, cycle, always

\* A blink shows its colour, then black.
LEMMA BlinkRead ==
    ASSUME NEW a, a.type = "blink", AppearanceOnce(a)
    PROVE  KindRead(Blink(a), a)
<1> DEFINE on  == AppearanceDurations(a.on)
           off == AppearanceDurations(a.off)
<1>1. CASE \/ Colours(a.colour) = {} \/ on = {} \/ off = {}
           \/ Or(on, 0) > Limit.appearance - Or(off, 0)
  BY <1>1, RefusedRead DEF Blink
<1>2. CASE ~(\/ Colours(a.colour) = {} \/ on = {} \/ off = {}
             \/ Or(on, 0) > Limit.appearance - Or(off, 0))
  <2> DEFINE c == The(a.colour)
             d == The(on)
             f == The(off)
             t == Timeline(<<Keyframe(0, c, "step"), Keyframe(d, 0, "step")>>, d + f, TRUE)
             lengths == <<[colour |-> c, time |-> d], [colour |-> 0, time |-> f]>>
  <2>1. Or(Colours(a.colour), 0) = c /\ c \in Inks
    BY <1>2, WrittenColour DEF AppearanceOnce
  <2>2. Or(on, 0) = d /\ d \in Nat \ {0} /\ Or(off, 0) = f /\ f \in Nat \ {0}
    BY <1>2, AppearanceTime
  <2>3. Blink(a) = Found(t, ~a.unknown)
    BY <1>2, <2>1, <2>2 DEF Blink
  <2>4. Lengths(a) = lengths /\ ~Smooth(a)
    BY DEF Lengths, Smooth
  <2> HIDE DEF c, d, f
  <2>5. Follows(t, lengths, "step") /\ t.repeat = TRUE
    BY <2>1, <2>2, PairFollows, Black
  <2> HIDE DEF t, lengths
  <2>6. AppearanceMade(t, a)
    BY <2>4, <2>5 DEF AppearanceMade
  <2> QED  BY <2>3, <2>6, FoundRead
<1> QED  BY <1>1, <1>2

\* Half of a period and the rest of it.
LEMMA Halves ==
    ASSUME NEW period \in Nat, period >= 2
    PROVE  /\ period \div 2 \in Nat \ {0} /\ period - period \div 2 \in Nat \ {0}
           /\ period \div 2 + (period - period \div 2) = period
  OBVIOUS

\* There and back again, half the period each.
LEMMA SwingFollows ==
    ASSUME NEW c \in Inks, NEW e \in Inks, NEW period \in Nat, period >= 2
    PROVE  LET lengths == <<[colour |-> c, time |-> period \div 2],
                            [colour |-> e, time |-> period - period \div 2]>>
           IN  Follows(Swing(c, e, period), lengths, "linear")
               /\ Swing(c, e, period).repeat = TRUE
<1> DEFINE d == period \div 2
           f == period - d
<1>1. d \in Nat \ {0} /\ f \in Nat \ {0} /\ d + f = period
  BY Halves
<1> DEFINE t == Timeline(<<Keyframe(0, c, "linear"), Keyframe(d, e, "linear")>>, d + f, TRUE)
<1>2. Swing(c, e, period) = t
  BY <1>1 DEF Swing
<1> HIDE DEF d, f
<1>3. Follows(t, <<[colour |-> c, time |-> d], [colour |-> e, time |-> f]>>, "linear")
      /\ t.repeat = TRUE
  BY <1>1, PairFollows
<1> HIDE DEF t
<1> QED  BY <1>2, <1>3 DEF d, f

\* A fade goes from one colour to the other.
LEMMA FadeRead ==
    ASSUME NEW a, a.type = "fade", AppearanceOnce(a)
    PROVE  KindRead(Fade(a), a)
<1> DEFINE period == AppearanceDurations(a.period)
<1>1. CASE Colours(a.from) = {} \/ Colours(a.to) = {} \/ period = {} \/ Or(period, 0) < 2
  BY <1>1, RefusedRead DEF Fade
<1>2. CASE ~(Colours(a.from) = {} \/ Colours(a.to) = {} \/ period = {} \/ Or(period, 0) < 2)
  <2> DEFINE c == The(a.from)
             e == The(a.to)
             d == The(period)
             t == Swing(c, e, d)
             lengths == <<[colour |-> c, time |-> d \div 2], [colour |-> e, time |-> d - d \div 2]>>
  <2>1. Or(Colours(a.from), 0) = c /\ c \in Inks /\ Or(Colours(a.to), 0) = e /\ e \in Inks
    BY <1>2, WrittenColour DEF AppearanceOnce
  <2>2. Or(period, 0) = d /\ d \in Nat /\ d >= 2
    BY <1>2, AppearanceTime
  <2>3. Fade(a) = Found(t, ~a.unknown)
    BY <1>2, <2>1, <2>2 DEF Fade
  <2>4. Lengths(a) = lengths /\ Smooth(a)
    BY DEF Lengths, Smooth
  <2> HIDE DEF c, d, e
  <2>5. Follows(t, lengths, "linear") /\ t.repeat = TRUE
    BY <2>1, <2>2, SwingFollows
  <2> HIDE DEF t, lengths
  <2>6. AppearanceMade(t, a)
    BY <2>4, <2>5 DEF AppearanceMade
  <2> QED  BY <2>3, <2>6, FoundRead
<1> QED  BY <1>1, <1>2

\* A percentage that is written or left out.
LEMMA PercentRead ==
    ASSUME NEW field, Once(field), Well(field, Percentages(field)), NEW default \in 0..100
    PROVE  Or(Percentages(field), default) = Or(field, default)
           /\ Or(field, default) \in 0..100
<1>1. CASE field = {}
  BY <1>1, OrDefault DEF Percentages, Bounded
<1>2. CASE field # {}
  <2>1. Percentages(field) # {}
    BY <1>2 DEF Well
  <2>2. Or(Percentages(field), default) \in Percentages(field) /\ Or(field, default) \in field
    BY <1>2, <2>1, OrElement
  <2> QED  BY <2>2 DEF Percentages, Bounded, Once
<1> QED  BY <1>1, <1>2

\* A pulse goes from one brightness to the other.
LEMMA PulseRead ==
    ASSUME NEW a, a.type = "pulse", AppearanceOnce(a)
    PROVE  KindRead(Pulse(a), a)
<1> DEFINE period  == AppearanceDurations(a.period)
           minimum == Percentages(a.minimum)
           maximum == Percentages(a.maximum)
           wrong   == \/ Colours(a.colour) = {} \/ period = {} \/ Or(period, 0) < 2
                      \/ ~Well(a.minimum, minimum) \/ ~Well(a.maximum, maximum)
                      \/ Or(minimum, 10) > Or(maximum, 100)
<1>1. CASE wrong
  BY <1>1, RefusedRead DEF Pulse
<1>2. CASE ~wrong
  <2> DEFINE colour == The(a.colour)
             c == Dimmed(colour, Or(a.minimum, 10))
             e == Dimmed(colour, Or(a.maximum, 100))
             d == The(period)
             t == Swing(c, e, d)
             lengths == <<[colour |-> c, time |-> d \div 2], [colour |-> e, time |-> d - d \div 2]>>
  <2>1. Or(Colours(a.colour), 0) = colour /\ colour \in Inks
    BY <1>2, WrittenColour DEF AppearanceOnce
  <2>2. Or(period, 0) = d /\ d \in Nat /\ d >= 2
    BY <1>2, AppearanceTime
  <2>3. /\ Or(minimum, 10) = Or(a.minimum, 10) /\ Or(a.minimum, 10) \in 0..100
        /\ Or(maximum, 100) = Or(a.maximum, 100) /\ Or(a.maximum, 100) \in 0..100
    <3>1. 10 \in 0..100 /\ 100 \in 0..100
      OBVIOUS
    <3> QED  BY <1>2, <3>1, PercentRead DEF AppearanceOnce
  <2>4. Pulse(a) = Found(t, ~a.unknown)
    BY <1>2, <2>1, <2>2, <2>3 DEF Pulse
  <2>5. Lengths(a) = lengths /\ Smooth(a)
    BY DEF Lengths, Smooth
  <2>6. c \in Inks /\ e \in Inks
    BY <2>1, <2>3, DimmedInk
  <2> HIDE DEF c, d, e
  <2>7. Follows(t, lengths, "linear") /\ t.repeat = TRUE
    BY <2>2, <2>6, SwingFollows
  <2> HIDE DEF t, lengths
  <2>8. AppearanceMade(t, a)
    BY <2>5, <2>7 DEF AppearanceMade
  <2> QED  BY <2>4, <2>8, FoundRead
<1> QED  BY <1>1, <1>2

\* A toggle shows its colours in turn, each for a period.
LEMMA ToggleRead ==
    ASSUME NEW a, a.type = "toggle"
    PROVE  KindRead(Toggle(a), a)
<1> DEFINE period == AppearanceDurations(a.period)
           n      == Len(a.colours)
           wrong  == \/ n \notin 2..Limit.toggle
                     \/ period = {}
                     \/ Or(period, 0) > Limit.appearance \div n
                     \/ \E i \in 1..n : Colours({a.colours[i]}) = {}
<1>1. CASE wrong
  BY <1>1, RefusedRead DEF Toggle
<1>2. CASE ~wrong
  <2> DEFINE time    == The(period)
             frames  == [i \in 1..n |-> Keyframe(time * (i - 1), a.colours[i], "step")]
             lengths == [i \in 1..n |-> [colour |-> a.colours[i], time |-> time]]
             cycle   == time * n
             always  == TRUE
             t       == Timeline(frames, cycle, always)
  <2>1. Or(period, 0) = time /\ time \in Nat \ {0}
    BY <1>2, AppearanceTime
  <2>2. Toggle(a) = Found(t, ~a.unknown)
    BY <1>2, <2>1 DEF Toggle
  <2>3. Lengths(a) = lengths /\ ~Smooth(a)
    BY DEF Lengths, Smooth
  <2>4. n \in Nat /\ n >= 2
    BY <1>2
  <2>5. \A i \in 1..n : a.colours[i] \in Inks
    BY <1>2 DEF Colours, Inks
  <2> HIDE DEF n, time
  <2>6. Len(lengths) = n /\ Len(frames) = n /\ DOMAIN lengths = 1..n
    BY <2>4
  <2>7. Lasting(lengths)
    BY <2>1, <2>4, <2>5, <2>6 DEF Lasting
  <2>8. ASSUME NEW i \in 1..n PROVE /\ frames[i].at = time * (i - 1) /\ frames[i].at \in Nat
                                    /\ frames[i].colour = lengths[i].colour
                                    /\ frames[i].transition = "step"
    <3>1. time * (i - 1) \in Nat
      <4>1. i - 1 \in Nat
        BY <2>4
      <4> QED  BY <2>1, <4>1, ProductNat
    <3> QED  BY <3>1 DEF Keyframe
  <2>9. ASSUME NEW i \in 1..n PROVE time * i = time * (i - 1) + lengths[i].time
    <3>1. time * ((i - 1) + 1) = time * (i - 1) + time
      <4>1. i - 1 \in Nat
        BY <2>4
      <4> QED  BY <2>1, <4>1, ProductOfNext
    <3>2. (i - 1) + 1 = i
      BY <2>4
    <3> QED  BY <3>1, <3>2
  <2>10. \A i \in 1..n - 1 : frames[i + 1].at = frames[i].at + lengths[i].time
    <3> TAKE i \in 1..n - 1
    <3>1. i \in 1..n /\ i + 1 \in 1..n /\ (i + 1) - 1 = i
      BY <2>4
    <3>2. frames[i + 1].at = time * ((i + 1) - 1) /\ frames[i].at = time * (i - 1)
      BY <2>8, <3>1
    <3>3. frames[i + 1].at = time * i
      BY <3>1, <3>2
    <3> HIDE DEF frames, lengths
    <3> QED  BY <2>9, <3>1, <3>2, <3>3
  <2>11. frames[1].at = 0 /\ cycle = frames[n].at + lengths[n].time
    <3>1. 1 \in 1..n /\ n \in 1..n /\ time * (1 - 1) = 0
      BY <2>1, <2>4
    <3> HIDE DEF frames, lengths
    <3> QED  BY <2>8, <2>9, <3>1
  <2>12. Marked(frames, cycle, lengths, "step")
    <3>1. frames = [i \in 1..n |-> frames[i]]
      OBVIOUS
    <3> HIDE DEF frames, lengths, cycle
    <3> QED  BY <2>6, <2>8, <2>10, <2>11, <3>1 DEF Marked
  <2> HIDE DEF frames, lengths, cycle, always
  <2>13. t.keyframes = frames /\ t.cycle = cycle /\ t.repeat = always
    BY <2>7, <2>12, TimelineMarked
  <2> HIDE DEF t
  <2>14. AppearanceMade(t, a)
    BY <2>3, <2>7, <2>12, <2>13 DEF AppearanceMade, Follows, always
  <2> QED  BY <2>2, <2>14, FoundRead
<1> QED  BY <1>1, <1>2

\* One step more.
LEMMA StepClosed ==
    ASSUME NEW transition, NEW parsed, parsed.value \in SUBSET Tracks(transition), NEW step
    PROVE  AddStep(transition, parsed, step)
              \in [value : SUBSET Tracks(transition), sound : BOOLEAN]
<1> DEFINE colour   == Colours(step.colour)
           duration == AppearanceDurations(step.duration)
           cycle    == Or(parsed.value, [cycle |-> 0]).cycle
           time     == Or(duration, 0)
           steps    == Or(parsed.value, <<>>)
           frame    == Keyframe(StepStarts(cycle, time), Or(colour, 0), transition)
           value    == [keyframes |-> Append(steps.keyframes, frame), cycle |-> cycle + time]
           sound    == parsed.sound /\ ~step.unknown
<1>1. AddStep(transition, parsed, step) =
          IF parsed.value = {} \/ colour = {} \/ duration = {} THEN Refused
          ELSE IF time > Limit.appearance - cycle THEN Refused
          ELSE Found(value, sound)
  BY DEF AddStep
<1>2. Refused \in [value : SUBSET Tracks(transition), sound : BOOLEAN]
  BY DEF Refused, Missing
<1>3. ASSUME parsed.value # {}, duration # {} PROVE value \in Tracks(transition)
  <2>1. Or(parsed.value, <<>>) \in Tracks(transition)
        /\ Or(parsed.value, [cycle |-> 0]) \in Tracks(transition)
    BY <1>3, OrElement
  <2>2. cycle \in Nat /\ steps.keyframes \in Seq(Frames(transition))
    BY <2>1 DEF Tracks
  <2>3. time \in Nat
    BY <1>3, AppearanceTime
  <2>4. Or(colour, 0) \in Inks
    BY ColourRead, Black
  <2> HIDE DEF cycle, steps, time, colour
  <2>5. frame \in Frames(transition)
    BY <2>2, <2>4 DEF Frames, Keyframe, StepStarts
  <2> HIDE DEF frame
  <2>6. Append(steps.keyframes, frame) \in Seq(Frames(transition)) /\ cycle + time \in Nat
    BY <2>2, <2>3, <2>5
  <2> QED  BY <2>6 DEF Tracks
<1>4. sound \in BOOLEAN
  OBVIOUS
<1> HIDE DEF value, sound, colour, duration, cycle, time
<1>5. ASSUME parsed.value # {}, duration # {}
      PROVE  Found(value, sound) \in [value : SUBSET Tracks(transition), sound : BOOLEAN]
  BY <1>3, <1>4, <1>5 DEF Found
<1> QED  BY <1>1, <1>2, <1>5

\* One more step of a series.
LEMMA StepAdded ==
    ASSUME NEW steps, NEW transition, NEW k \in Nat, NEW parsed,
           k + 1 \in 1..Len(steps), Once(steps[k + 1].colour),
           StepsRead(parsed, StepLengths(steps), k, transition)
    PROVE  StepsRead(AddStep(transition, parsed, steps[k + 1]), StepLengths(steps), k + 1,
                     transition)
<1> DEFINE step     == steps[k + 1]
           lengths  == StepLengths(steps)
           colour   == Colours(step.colour)
           duration == AppearanceDurations(step.duration)
           cycle    == Or(parsed.value, [cycle |-> 0]).cycle
           time     == Or(duration, 0)
           read     == Or(parsed.value, <<>>)
           frame    == Keyframe(StepStarts(cycle, time), Or(colour, 0), transition)
           value    == [keyframes |-> Append(read.keyframes, frame), cycle |-> cycle + time]
           sound    == parsed.sound /\ ~step.unknown
           wrong    == \/ parsed.value = {} \/ colour = {} \/ duration = {}
                       \/ time > Limit.appearance - cycle
           added    == AddStep(transition, parsed, step)
<1>1. added = IF wrong THEN Refused ELSE Found(value, sound)
  BY DEF AddStep
<1>2. CASE wrong
  <2>1. added = Refused
    BY <1>1, <1>2
  <2> HIDE DEF added
  <2>2. StepsRead(added, lengths, k + 1, transition)
    BY <2>1 DEF StepsRead, Refused, Missing
  <2> QED  BY <2>2 DEF added
<1>3. CASE ~wrong
  <2>1. PICK v : parsed.value = {v} /\ Partly(v, lengths, k, transition)
    BY <1>3 DEF StepsRead
  <2>2. read = v /\ cycle = v.cycle
    BY <2>1, OrSingleton
  <2>3. lengths[k + 1].colour = The(step.colour) /\ lengths[k + 1].time = The(duration)
    BY DEF StepLengths
  <2>4. Or(colour, 0) = lengths[k + 1].colour /\ lengths[k + 1].colour \in Inks
    BY <1>3, <2>3, WrittenColour
  <2>5. time = lengths[k + 1].time /\ time \in Nat \ {0}
    BY <1>3, <2>3, AppearanceTime
  <2>6. added = Found(value, sound)
    BY <1>1, <1>3
  <2> HIDE DEF added, wrong, lengths, sound, step, colour, duration, time, cycle, read
  <2>7. /\ v.keyframes \in Seq(Frames(transition)) /\ Len(v.keyframes) = k /\ v.cycle \in Nat
        /\ \A i \in 1..k : /\ lengths[i].colour \in Inks /\ lengths[i].time \in Nat \ {0}
                           /\ v.keyframes[i].colour = lengths[i].colour
        /\ \A i \in 1..k - 1 : v.keyframes[i + 1].at = v.keyframes[i].at + lengths[i].time
        /\ v.cycle = IF k = 0 THEN 0 ELSE v.keyframes[k].at + lengths[k].time
        /\ k # 0 => v.keyframes[1].at = 0
    BY <2>1 DEF Partly, Tracks
  <2>8. /\ frame \in Frames(transition) /\ frame.at = v.cycle
        /\ frame.colour = lengths[k + 1].colour
    BY <2>2, <2>4, <2>7 DEF Frames, Keyframe, StepStarts
  <2> DEFINE before == v.keyframes
             now_   == Append(before, frame)
             total  == v.cycle
  <2>9. value = [keyframes |-> now_, cycle |-> total + time]
    BY <2>2
  <2> HIDE DEF frame, value
  <2>10. /\ before \in Seq(Frames(transition)) /\ Len(before) = k
    BY <2>7
  <2>11. /\ now_ \in Seq(Frames(transition)) /\ Len(now_) = k + 1
         /\ now_[k + 1] = frame /\ \A i \in 1..k : now_[i] = before[i]
    <3> HIDE DEF before
    <3> QED  BY <2>8, <2>10
  <2>12. value.keyframes = now_ /\ value.cycle = total + time /\ value \in Tracks(transition)
    <3>1. total + time \in Nat
      BY <2>5, <2>7
    <3> HIDE DEF now_, total
    <3> QED  BY <2>9, <2>11, <3>1 DEF Tracks
  <2> HIDE DEF now_
  <2>13. \A i \in 1..k + 1 : /\ lengths[i].colour \in Inks /\ lengths[i].time \in Nat \ {0}
                             /\ now_[i].colour = lengths[i].colour
    <3> TAKE i \in 1..k + 1
    <3>1. CASE i = k + 1
      BY <2>4, <2>5, <2>8, <2>11, <3>1
    <3>2. CASE i # k + 1
      <4>1. i \in 1..k
        BY <3>2
      <4> QED  BY <2>7, <2>11, <4>1
    <3> QED  BY <3>1, <3>2
  <2>14. \A i \in 1..(k + 1) - 1 : now_[i + 1].at = now_[i].at + lengths[i].time
    <3> TAKE i \in 1..(k + 1) - 1
    <3>0. i \in 1..k
      OBVIOUS
    <3>1. CASE i = k
      <4>1. now_[i + 1].at = v.cycle /\ now_[i] = before[i] /\ k # 0
        BY <2>8, <2>11, <3>0, <3>1
      <4> QED  BY <2>7, <3>1, <4>1
    <3>2. CASE i # k
      <4>1. i \in 1..k - 1 /\ i + 1 \in 1..k
        BY <3>0, <3>2
      <4>2. now_[i + 1] = before[i + 1] /\ now_[i] = before[i]
        BY <2>11, <3>0, <4>1
      <4> QED  BY <2>7, <4>1, <4>2
    <3> QED  BY <3>1, <3>2
  <2>15. total + time = now_[k + 1].at + lengths[k + 1].time /\ k + 1 # 0
    BY <2>5, <2>8, <2>11
  <2>16. now_[1].at = 0
    <3>1. CASE k = 0
      BY <2>7, <2>8, <2>11, <3>1
    <3>2. CASE k # 0
      <4>1. 1 \in 1..k
        BY <3>2
      <4> QED  BY <2>7, <2>11, <3>2, <4>1
    <3> QED  BY <3>1, <3>2
  <2> HIDE DEF total, before
  <2>17. Partly(value, lengths, k + 1, transition)
    BY <2>11, <2>12, <2>13, <2>14, <2>15, <2>16 DEF Partly
  <2>18. DOMAIN added = {"value", "sound"} /\ added.value = {value}
    BY <2>6 DEF Found
  <2>19. StepsRead(added, lengths, k + 1, transition)
    BY <2>17, <2>18 DEF StepsRead
  <2> QED  BY <2>19 DEF added, lengths, step
<1> QED  BY <1>2, <1>3
\* All the steps: a keyframe for each, or a refusal.
LEMMA ParsedSteps ==
    ASSUME NEW steps, \A i \in 1..Len(steps) : Once(steps[i].colour),
           NEW minimum \in Nat \ {0}, NEW transition
    PROVE  StepsRead(ParseSteps(steps, minimum, transition), StepLengths(steps), Len(steps),
                     transition)
<1>1. CASE Len(steps) \notin minimum..Limit.steps
  BY <1>1 DEF ParseSteps, StepsRead, Refused, Missing
<1>2. CASE Len(steps) \in minimum..Limit.steps
  <2> DEFINE n       == Len(steps)
             lengths == StepLengths(steps)
             A       == [value : SUBSET Tracks(transition), sound : BOOLEAN]
             zero    == Found([keyframes |-> <<>>, cycle |-> 0], TRUE)
             F       == [i \in 1..n |-> [x \in A |-> AddStep(transition, x, steps[i])]]
             P(f)    == f = [i \in 0..n |-> IF i = 0 THEN zero
                                            ELSE AddStep(transition, f[i - 1], steps[i])]
             parsed  == CHOOSE f : P(f)
  <2>1. ParseSteps(steps, minimum, transition) = parsed[n]
    BY <1>2 DEF ParseSteps
  <2>2. n \in Nat
    BY <1>2
  <2>3. \A i \in 1..n : Once(steps[i].colour)
    OBVIOUS
  <2> HIDE DEF n
  <2>4. zero \in A
    <3>1. [keyframes |-> <<>>, cycle |-> 0] \in Tracks(transition)
      <4>1. <<>> \in Seq(Frames(transition))
        OBVIOUS
      <4> QED  BY <4>1 DEF Tracks
    <3> QED  BY <3>1 DEF Found
  <2>5. \A i \in 1..n : \A x \in A : AddStep(transition, x, steps[i]) \in A
    BY StepClosed
  <2>6. StepsRead(zero, lengths, 0, transition)
    <3> DEFINE v == [keyframes |-> <<>>, cycle |-> 0]
    <3>1. v.keyframes = <<>> /\ v.cycle = 0 /\ v \in Tracks(transition)
      <4>1. <<>> \in Seq(Frames(transition))
        OBVIOUS
      <4> QED  BY <4>1 DEF Tracks
    <3>2. DOMAIN zero = {"value", "sound"} /\ zero.value = {v}
      BY DEF Found
    <3> HIDE DEF v, lengths, zero
    <3>3. Partly(v, lengths, 0, transition)
      BY <3>1 DEF Partly
    <3> QED  BY <3>2, <3>3 DEF StepsRead
  <2> HIDE DEF A, zero, lengths
  <2>7. Stepwise(n, A, zero, F)
    BY <2>2, <2>4, <2>5 DEF Stepwise
  <2>8. PICK g \in [0..n -> A] : g[0] = zero /\ \A i \in 1..n : g[i] = F[i][g[i - 1]]
    <3> HIDE DEF F
    <3> QED  BY <2>7, Recursion
  <2>9. P(g)
    <3>1. ASSUME NEW i \in 1..n PROVE g[i] = AddStep(transition, g[i - 1], steps[i])
      <4>1. i - 1 \in 0..n
        BY <2>2
      <4> QED  BY <2>8, <4>1
    <3> QED  BY <2>2, <2>8, <3>1
  <2>10. P(parsed)
    BY <2>9, Zenon
  <2> HIDE DEF parsed
  <2> DEFINE S == {k \in 0..n : StepsRead(parsed[k], lengths, k, transition)}
  <2>11. 0 \in S
    BY <2>2, <2>6, <2>10
  <2>12. ASSUME NEW k \in 0..n - 1, k \in S PROVE k + 1 \in S
    <3>1. k + 1 \in 1..n /\ k + 1 \in 0..n /\ (k + 1) - 1 = k /\ k + 1 # 0 /\ k \in Nat
      BY <2>2
    <3>2. parsed[k + 1] = AddStep(transition, parsed[k], steps[k + 1])
      BY <2>10, <3>1
    <3>3. StepsRead(parsed[k], lengths, k, transition)
      BY <2>12
    <3>4. StepsRead(parsed[k + 1], lengths, k + 1, transition)
      <4>1. Once(steps[k + 1].colour) /\ k + 1 \in 1..Len(steps)
        BY <2>3, <3>1 DEF n
      <4> DEFINE m == k
                 x == parsed[m]
      <4>2. m \in Nat /\ m + 1 \in 1..Len(steps) /\ Once(steps[m + 1].colour)
            /\ StepsRead(x, StepLengths(steps), m, transition)
        BY <3>1, <3>3, <4>1 DEF lengths
      <4> HIDE DEF m, x
      <4>3. StepsRead(AddStep(transition, x, steps[m + 1]), StepLengths(steps), m + 1, transition)
        BY <4>2, StepAdded
      <4> QED  BY <3>2, <4>3 DEF m, x, lengths
    <3> QED  BY <3>1, <3>4
  <2> HIDE DEF S
  <2>13. \A k \in 0..n : k \in S
    BY <2>2, <2>11, <2>12, Induction
  <2>14. StepsRead(parsed[n], lengths, n, transition)
    BY <2>2, <2>13 DEF S
  <2> QED  BY <2>1, <2>14 DEF n, lengths
<1> QED  BY <1>1, <1>2

\* A timeline of steps.
LEMMA StepsFollowed ==
    ASSUME NEW steps, \A i \in 1..Len(steps) : Once(steps[i].colour),
           NEW minimum \in Nat \ {0}, NEW transition, NEW repeat \in BOOLEAN, NEW unknown
    PROVE  LET parsed == FromSteps(ParseSteps(steps, minimum, transition), repeat, unknown)
           IN  /\ DOMAIN parsed = {"value", "sound"}
               /\ parsed.sound => parsed.value # {}
               /\ \A t \in parsed.value : /\ Follows(t, StepLengths(steps), transition)
                                          /\ t.repeat = repeat
<1> DEFINE n       == Len(steps)
           lengths == StepLengths(steps)
           read    == ParseSteps(steps, minimum, transition)
           parsed  == FromSteps(read, repeat, unknown)
<1>1. StepsRead(read, lengths, n, transition)
  BY ParsedSteps
<1>2. read.value # {} => n \in Nat \ {0}
  <2>1. read.value # {} => n \in minimum..Limit.steps
    BY DEF ParseSteps, Refused, Missing
  <2> HIDE DEF read, n
  <2> QED  BY <2>1
<1>3. n \in Nat => Len(lengths) = n /\ DOMAIN lengths = 1..n
  <2>1. lengths = [i \in 1..n |-> lengths[i]]
    BY DEF StepLengths
  <2> HIDE DEF n, lengths
  <2> QED  BY <2>1
<1> HIDE DEF read, lengths, n
<1>4. CASE read.value = {}
  <2> DEFINE sound == read.sound /\ ~unknown
  <2>1. parsed = Missing(sound)
    BY <1>4, Zenon DEF FromSteps
  <2>a. sound = FALSE
    BY <1>1, <1>4 DEF StepsRead
  <2> HIDE DEF sound
  <2>b. parsed = [value |-> {}, sound |-> sound]
    BY <2>1, Zenon DEF Missing
  <2>2. DOMAIN parsed = {"value", "sound"} /\ parsed.value = {} /\ ~parsed.sound
    BY <2>a, <2>b
  <2> HIDE DEF parsed
  <2>3. /\ DOMAIN parsed = {"value", "sound"}
        /\ parsed.sound => parsed.value # {}
        /\ \A t \in parsed.value : Follows(t, lengths, transition) /\ t.repeat = repeat
    BY <2>2
  <2> QED  BY <2>3 DEF parsed, lengths, read
<1>5. CASE read.value # {}
  <2>1. PICK v : read.value = {v} /\ Partly(v, lengths, n, transition)
    BY <1>1, <1>5 DEF StepsRead
  <2> DEFINE frames == v.keyframes
             cycle  == v.cycle
             t      == Timeline(frames, cycle, repeat)
  <2>2. parsed = Found(t, read.sound /\ ~unknown)
    <3>1. Or(read.value, <<>>) = v
      BY <2>1, OrSingleton
    <3> QED  BY <1>5, <3>1 DEF FromSteps
  <2>3. n \in Nat \ {0} /\ Len(lengths) = n /\ DOMAIN lengths = 1..n
    BY <1>2, <1>3, <1>5
  <2>4. /\ frames \in Seq(Frames(transition)) /\ Len(frames) = n
        /\ \A i \in 1..n : /\ lengths[i].colour \in Inks /\ lengths[i].time \in Nat \ {0}
                           /\ frames[i].colour = lengths[i].colour
        /\ \A i \in 1..n - 1 : frames[i + 1].at = frames[i].at + lengths[i].time
        /\ cycle = frames[n].at + lengths[n].time
        /\ frames[1].at = 0
    BY <2>1, <2>3 DEF Partly, Tracks
  <2> HIDE DEF frames, cycle
  <2>5. Lasting(lengths)
    BY <2>3, <2>4 DEF Lasting
  <2>6. \A i \in 1..n : frames[i] \in Frames(transition)
    BY <2>3, <2>4
  <2>7. \A i \in 1..n : frames[i].at \in Nat /\ frames[i].transition = transition
    BY <2>6 DEF Frames
  <2>8. frames = [i \in 1..n |-> frames[i]]
    BY <2>4
  <2>9. Marked(frames, cycle, lengths, transition)
    BY <2>3, <2>4, <2>7, <2>8 DEF Marked
  <2>10. t.keyframes = frames /\ t.cycle = cycle /\ t.repeat = repeat
    <3> DEFINE again == repeat
    <3> HIDE DEF again
    <3>1. LET u == Timeline(frames, cycle, again)
          IN  u.keyframes = frames /\ u.cycle = cycle /\ u.repeat = again
      BY <2>5, <2>9, TimelineMarked
    <3> QED  BY <3>1 DEF again
  <2> HIDE DEF t
  <2>11. Follows(t, lengths, transition) /\ t.repeat = repeat
    BY <2>5, <2>9, <2>10 DEF Follows
  <2>12. DOMAIN parsed = {"value", "sound"} /\ parsed.value = {t}
    BY <2>2 DEF Found
  <2> HIDE DEF parsed
  <2>13. /\ DOMAIN parsed = {"value", "sound"}
         /\ parsed.sound => parsed.value # {}
         /\ \A u \in parsed.value : Follows(u, lengths, transition) /\ u.repeat = repeat
    BY <2>11, <2>12
  <2> QED  BY <2>13 DEF parsed, lengths, read
<1> QED  BY <1>4, <1>5

\* A sequence shows its steps, again and again or once.
LEMMA SequenceRead ==
    ASSUME NEW a, a.type = "sequence", AppearanceOnce(a)
    PROVE  KindRead(Sequence(a), a)
<1>1. CASE a.repeat \ {"true", "false"} # {}
  BY <1>1, RefusedRead DEF Sequence
<1>2. CASE a.repeat \ {"true", "false"} = {}
  <2> DEFINE repeat == Or(a.repeat, "true") = "true"
             parsed == FromSteps(ParseSteps(a.steps, 1, "step"), repeat, a.unknown)
  <2>1. Sequence(a) = parsed
    BY <1>2 DEF Sequence
  <2>2. repeat = ~(a.repeat = {"false"})
    <3>1. CASE a.repeat = {}
      BY <3>1, OrDefault
    <3>2. CASE a.repeat # {}
      <4>1. PICK x \in a.repeat : TRUE
        BY <3>2
      <4>2. a.repeat = {x}
        BY DEF AppearanceOnce, Once
      <4>3. Or(a.repeat, "true") = x /\ x \in {"true", "false"}
        BY <1>2, <4>2, OrSingleton
      <4> QED  BY <4>2, <4>3
    <3> QED  BY <3>1, <3>2
  <2>3. repeat \in BOOLEAN
    OBVIOUS
  <2>4. \A i \in 1..Len(a.steps) : Once(a.steps[i].colour)
    BY DEF AppearanceOnce
  <2>5. Lengths(a) = StepLengths(a.steps) /\ ~Smooth(a)
    BY DEF Lengths, Smooth, StepLengths
  <2> HIDE DEF repeat
  <2>6. /\ DOMAIN parsed = {"value", "sound"}
        /\ parsed.sound => parsed.value # {}
        /\ \A t \in parsed.value : Follows(t, StepLengths(a.steps), "step") /\ t.repeat = repeat
    <3> DEFINE r == repeat
               steps == a.steps
    <3>1. r \in BOOLEAN /\ (\A i \in 1..Len(steps) : Once(steps[i].colour)) /\ 1 \in Nat \ {0}
      BY <2>3, <2>4
    <3> HIDE DEF r, steps
    <3>2. LET p == FromSteps(ParseSteps(steps, 1, "step"), r, a.unknown)
          IN  /\ DOMAIN p = {"value", "sound"}
              /\ p.sound => p.value # {}
              /\ \A t \in p.value : Follows(t, StepLengths(steps), "step") /\ t.repeat = r
      BY <3>1, StepsFollowed
    <3> QED  BY <3>2 DEF r, steps
  <2> HIDE DEF parsed
  <2>7. \A t \in parsed.value : AppearanceMade(t, a)
    BY <2>2, <2>5, <2>6 DEF AppearanceMade
  <2> QED  BY <2>1, <2>6, <2>7 DEF KindRead
<1> QED  BY <1>1, <1>2

\* A cycle goes from step to step.
LEMMA CycleRead ==
    ASSUME NEW a, a.type = "cycle", AppearanceOnce(a)
    PROVE  KindRead(Cycle(a), a)
<1>1. CASE a.transition \ {"linear", "step"} # {}
  BY <1>1, RefusedRead DEF Cycle
<1>2. CASE a.transition \ {"linear", "step"} = {}
  <2> DEFINE transition == Or(a.transition, "linear")
             always == TRUE
             parsed == FromSteps(ParseSteps(a.steps, 2, transition), always, a.unknown)
  <2>1. Cycle(a) = parsed
    BY <1>2 DEF Cycle
  <2>2. transition = IF a.transition = {"step"} THEN "step" ELSE "linear"
    <3>1. CASE a.transition = {}
      BY <3>1, OrDefault
    <3>2. CASE a.transition # {}
      <4>1. PICK x \in a.transition : TRUE
        BY <3>2
      <4>2. a.transition = {x}
        BY DEF AppearanceOnce, Once
      <4>3. transition = x /\ x \in {"linear", "step"}
        BY <1>2, <4>2, OrSingleton
      <4> QED  BY <4>2, <4>3
    <3> QED  BY <3>1, <3>2
  <2>3. \A i \in 1..Len(a.steps) : Once(a.steps[i].colour)
    BY DEF AppearanceOnce
  <2>4. Lengths(a) = StepLengths(a.steps) /\ (Smooth(a) <=> a.transition # {"step"})
    BY DEF Lengths, Smooth, StepLengths
  <2> HIDE DEF transition
  <2>5. /\ DOMAIN parsed = {"value", "sound"}
        /\ parsed.sound => parsed.value # {}
        /\ \A t \in parsed.value : Follows(t, StepLengths(a.steps), transition) /\ t.repeat = TRUE
    <3> DEFINE steps == a.steps
    <3>1. always \in BOOLEAN /\ (\A i \in 1..Len(steps) : Once(steps[i].colour)) /\ 2 \in Nat \ {0}
      BY <2>3
    <3> HIDE DEF always, steps
    <3>2. LET p == FromSteps(ParseSteps(steps, 2, transition), always, a.unknown)
          IN  /\ DOMAIN p = {"value", "sound"}
              /\ p.sound => p.value # {}
              /\ \A t \in p.value : Follows(t, StepLengths(steps), transition) /\ t.repeat = always
      BY <3>1, StepsFollowed
    <3> QED  BY <3>2 DEF always, steps
  <2> HIDE DEF parsed
  <2>6. \A t \in parsed.value : AppearanceMade(t, a)
    BY <2>2, <2>4, <2>5 DEF AppearanceMade
  <2> QED  BY <2>1, <2>5, <2>6 DEF KindRead
<1> QED  BY <1>1, <1>2

\* Every appearance that is accepted shows the colours the file names.
LEMMA AppearanceRead ==
    ASSUME NEW entry, \A a \in entry.appearance : AppearanceOnce(a)
    PROVE  /\ ParseAppearance(entry).sound => ParseAppearance(entry).value # {}
           /\ \A t \in ParseAppearance(entry).value : AppearanceMade(t, The(entry.appearance))
<1>1. CASE entry.appearance = {} \/ Or(entry.appearance, <<>>).fields # 1
  BY <1>1 DEF ParseAppearance, Refused, Missing
<1>2. CASE ~(entry.appearance = {} \/ Or(entry.appearance, <<>>).fields # 1)
  <2> DEFINE a == The(entry.appearance)
             parsed == CASE a.type = "solid"    -> Solid(a)
                         [] a.type = "blink"    -> Blink(a)
                         [] a.type = "toggle"   -> Toggle(a)
                         [] a.type = "fade"     -> Fade(a)
                         [] a.type = "pulse"    -> Pulse(a)
                         [] a.type = "sequence" -> Sequence(a)
                         [] a.type = "cycle"    -> Cycle(a)
                         [] OTHER               -> Refused
  <2>1. AppearanceOnce(a) /\ Or(entry.appearance, <<>>) = a
    BY <1>2, TheElement, OrThe
  <2>2. ParseAppearance(entry) = [parsed EXCEPT !.sound = @ /\ ~entry.unknown]
    BY <1>2, <2>1 DEF ParseAppearance
  <2> HIDE DEF a
  <2>3. KindRead(parsed, a)
    <3>1. CASE a.type = "solid"
      BY <2>1, <3>1, SolidRead
    <3>2. CASE a.type = "blink"
      BY <2>1, <3>2, BlinkRead
    <3>3. CASE a.type = "toggle"
      BY <2>1, <3>3, ToggleRead
    <3>4. CASE a.type = "fade"
      BY <2>1, <3>4, FadeRead
    <3>5. CASE a.type = "pulse"
      BY <2>1, <3>5, PulseRead
    <3>6. CASE a.type = "sequence"
      BY <2>1, <3>6, SequenceRead
    <3>7. CASE a.type = "cycle"
      BY <2>1, <3>7, CycleRead
    <3>8. CASE a.type \notin {"solid", "blink", "toggle", "fade", "pulse", "sequence", "cycle"}
      <4>1. parsed = Refused
        BY <3>8
      <4> QED  BY <4>1, RefusedRead
    <3> QED  BY <3>1, <3>2, <3>3, <3>4, <3>5, <3>6, <3>7, <3>8
  <2> HIDE DEF parsed
  <2> DEFINE result_ == ParseAppearance(entry)
  <2>4. result_.value = parsed.value /\ (result_.sound => parsed.sound)
    BY <2>2, <2>3 DEF KindRead
  <2> HIDE DEF result_
  <2>5. (result_.sound => result_.value # {}) /\ \A t \in result_.value : AppearanceMade(t, a)
    BY <2>3, <2>4 DEF KindRead
  <2> QED  BY <2>5 DEF result_, a
<1> QED  BY <1>1, <1>2
-----------------------------------------------------------------------------
(* What the statuses show. *)

\* One colour shows itself for ever.
LEMMA SolidShown ==
    ASSUME NEW t, NEW c, t.keyframes = <<Keyframe(0, c, "step")>>, NEW elapsed, NEW short
    PROVE  Sample(t, elapsed, short) = c
<1> DEFINE spot == PhaseOf(t, elapsed)
<1> HIDE DEF spot
<1>1. DOMAIN t.keyframes = {1} /\ Len(t.keyframes) = 1 /\ t.keyframes[1] = Keyframe(0, c, "step")
  OBVIOUS
<1>2. CurrentIndex(t, spot) = 1
  <2>1. \E i \in DOMAIN t.keyframes : /\ i = 1 \/ t.keyframes[i].at <= spot
                                      /\ i = Len(t.keyframes) \/ t.keyframes[i + 1].at > spot
    BY <1>1
  <2>2. CurrentIndex(t, spot) \in DOMAIN t.keyframes
    BY <2>1, Zenon DEF CurrentIndex
  <2> QED  BY <1>1, <2>2
<1> QED  BY <1>1, <1>2 DEF Sample, Keyframe, spot

\* What is sampled of an appearance is a colour.
LEMMA AppearanceInk ==
    ASSUME NEW t, NEW a, AppearanceMade(t, a), NEW elapsed \in Int, NEW short
    PROVE  Sample(t, elapsed, short) \in Inks
<1>1. CASE a.type = "solid"
  BY <1>1, SolidShown DEF AppearanceMade
<1>2. CASE a.type # "solid"
  <2> DEFINE lengths    == Lengths(a)
             transition == IF Smooth(a) THEN "linear" ELSE "step"
             spot       == PhaseOf(t, elapsed)
             i          == CurrentIndex(t, spot)
             n          == Len(lengths)
             here       == lengths[i].colour
             there      == lengths[(i % n) + 1].colour
             colour     == Sample(t, elapsed, short)
  <2>1. Follows(t, lengths, transition) /\ (Smooth(a) => t.repeat)
    BY <1>2 DEF AppearanceMade, Smooth
  <2>2. transition \in {"step", "linear"} /\ (transition = "linear" => t.repeat)
    BY <2>1
  <2> HIDE DEF lengths, transition
  <2>3. Due(colour, lengths, i, spot - t.keyframes[i].at, transition)
    BY <2>1, <2>2, SampledDue
  <2>4. spot \in 0..t.cycle
    BY <2>1, PhaseDue
  <2>5. i \in 1..n
    <3> HIDE DEF spot
    <3> QED  BY <2>1, <2>4, FrameDue
  <2>6. n \in Nat \ {0} /\ \A k \in 1..n : lengths[k].colour \in Inks
    BY <2>1 DEF Follows, Lasting
  <2> HIDE DEF i, n, spot
  <2>7. here \in Inks /\ there \in Inks
    BY <2>5, <2>6, NextOf
  <2>8. colour = here \/ colour \in Lowest(here, there)..Highest(here, there)
    BY <2>3 DEF Due, n
  <2> HIDE DEF here, there, colour
  <2>9. Lowest(here, there)..Highest(here, there) \subseteq Inks
    <3>1. MaxChannel \in Nat
      BY FieldsAssumption
    <3> QED  BY <2>7, <3>1 DEF Inks, Lowest, Highest
  <2> QED  BY <2>7, <2>8, <2>9 DEF colour
<1> QED  BY <1>1, <1>2

\* Every status that was read has the appearance the file gives it.
LEMMA StatusesRead ==
    ASSUME NEW field, ParseStatuses(field).sound,
           \A objects \in field : \A name \in DOMAIN objects :
              \A a \in objects[name].appearance : AppearanceOnce(a),
           NEW c, c.statuses = ParseStatuses(field).value
    PROVE  StatusesMade(c, The(field))
<1> DEFINE objects == The(field)
           parsed  == [name \in DOMAIN objects |-> ParseAppearance(objects[name])]
           kept    == KeepStatuses(parsed)
<1>1. field # {} /\ ParseStatuses(field) = kept
  <2>1. field # {} /\ ParseStatuses(field) =
            KeepStatuses([name \in DOMAIN Or(field, <<>>) |->
                              ParseAppearance(Or(field, <<>>)[name])])
    BY DEF ParseStatuses
  <2> QED  BY <2>1, OrThe
<1>2. \A name \in DOMAIN objects : \A a \in objects[name].appearance : AppearanceOnce(a)
  BY <1>1, TheElement
<1> HIDE DEF objects
<1>3. ASSUME NEW name \in DOMAIN objects
      PROVE  /\ parsed[name].sound => parsed[name].value # {}
             /\ \A t \in parsed[name].value : AppearanceMade(t, The(objects[name].appearance))
  <2>1. /\ ParseAppearance(objects[name]).sound => ParseAppearance(objects[name]).value # {}
        /\ \A t \in ParseAppearance(objects[name]).value :
              AppearanceMade(t, The(objects[name].appearance))
    BY <1>2, AppearanceRead
  <2> QED  BY <2>1
<1>4. DOMAIN parsed = DOMAIN objects
  OBVIOUS
<1> HIDE DEF parsed
<1>5. /\ "unknown" \in DOMAIN parsed /\ "" \notin DOMAIN parsed
      /\ \A name \in DOMAIN parsed : parsed[name].sound
      /\ kept.value = [name \in {n \in Identifiers(DOMAIN parsed) : parsed[n].value # {}} |->
                          Or(parsed[name].value, <<>>)]
  <2> DEFINE value == [name \in {n \in Identifiers(DOMAIN parsed) : parsed[n].value # {}} |->
                          Or(parsed[name].value, <<>>)]
             complete == {"unknown", "stale"} \subseteq DOMAIN parsed
             proper   == "" \notin DOMAIN parsed
             clean    == \A name \in DOMAIN parsed : parsed[name].sound
  <2>1. kept = [value |-> value, sound |-> complete /\ proper /\ clean]
    BY Zenon DEF KeepStatuses
  <2>2. kept.sound
    BY <1>1
  <2> HIDE DEF kept, value, proper, clean
  <2>3. complete /\ proper /\ clean /\ kept.value = value
    BY <2>1, <2>2
  <2> QED  BY <2>3 DEF value, proper, clean
<1> HIDE DEF kept
<1>6. DOMAIN kept.value = DOMAIN objects /\ "unknown" \in DOMAIN kept.value
  BY <1>3, <1>4, <1>5 DEF Identifiers
<1>7. ASSUME NEW name \in DOMAIN kept.value
      PROVE  AppearanceMade(kept.value[name], The(objects[name].appearance))
  <2>1. name \in DOMAIN objects /\ parsed[name].value # {}
        /\ kept.value[name] = Or(parsed[name].value, <<>>)
    BY <1>4, <1>5 DEF Identifiers
  <2> QED  BY <1>3, <2>1, OrElement
<1> QED  BY <1>1, <1>6, <1>7 DEF StatusesMade, objects, kept

\* So do those of a configuration that loads.
LEMMA ConfigStatuses ==
    ASSUME NEW file, Once(file), \A root \in file : WrittenOnce(root), NEW c \in LoadConfig(file)
    PROVE  StatusesMade(c, The(The(file).statuses))
<1>1. PICK root \in file :
          c \in ParseRootObject(root, ParseDisplay(root.display), ParseStatuses(root.statuses))
  BY DEF LoadConfig
<1> DEFINE display  == ParseDisplay(root.display)
           statuses == ParseStatuses(root.statuses)
           monitors == ParseMonitors(root.monitors, statuses.value)
           shown    == ParseShown(root, Or(display.value, <<>>), statuses.value)
<1>2. c \in Configuration(root, display, statuses, monitors, shown)
  BY <1>1 DEF ParseRootObject
<1> HIDE DEF display, monitors, shown
<1>3. statuses.sound /\ c.statuses = statuses.value
  <2> HIDE DEF statuses
  <2> QED  BY <1>2 DEF Configuration, ErrorFree
<1>4. The(file) = root
  BY OnceThe
<1>5. \A objects \in root.statuses : \A name \in DOMAIN objects :
          \A a \in objects[name].appearance : AppearanceOnce(a)
  BY DEF WrittenOnce
<1> QED  BY <1>3, <1>4, <1>5, StatusesRead

\* What is resolved of an entry began before now.
LEMMA ResolvedPast ==
    ASSUME NEW known, NEW at \in Nat, Dated(known, at), NEW source,
           NEW r \in ResolvedState(known, source, at)
    PROVE  /\ r.entered_at \in 0..at
           /\ The(ResolvedState(known, source, at)) = r
<1> DEFINE stored == Stored(known, source)
<1>1. /\ Once(stored)
      /\ \A s \in stored : /\ s.entry.updated_at \in 0..at /\ s.entry.entered_at \in 0..at
                           /\ s.entry.ttl \in Optional(Nat)
  BY DEF Dated, Stored, Once
<1>2. PICK s \in stored : r = Resolve(s.entry, at)
  BY DEF ResolvedState
<1>3. Once(ResolvedState(known, source, at))
  BY <1>1 DEF ResolvedState, Once
<1> DEFINE e == s.entry
<1>4. e.updated_at \in 0..at /\ e.entered_at \in 0..at /\ e.ttl \in Optional(Nat)
  BY <1>1
<1> HIDE DEF e, stored
<1>5. EffectiveEpoch(e, at) \in 0..at
  <2>1. CASE Expired(e, at)
    <3>1. PICK d \in e.ttl : at >= e.updated_at + d
      BY <2>1 DEF Expired
    <3>2. d \in Nat /\ \A x, y \in e.ttl : x = y
      BY <1>4 DEF Optional
    <3>3. The(e.ttl) = d
      BY <3>2, OnceThe DEF Once
    <3> QED  BY <1>4, <2>1, <3>1, <3>2, <3>3 DEF EffectiveEpoch
  <2>2. CASE ~Expired(e, at)
    BY <1>4, <2>2 DEF EffectiveEpoch
  <2> QED  BY <2>1, <2>2
<1>6. r.entered_at = EffectiveEpoch(e, at)
  BY <1>2 DEF Resolve, e
<1> QED  BY <1>3, <1>5, <1>6, OnceThe

\* A source always has a colour: that of its status, or of "unknown".
LEMMA SourceSampled ==
    ASSUME NEW c, NEW objects, StatusesMade(c, objects),
           NEW known, NEW at \in Nat, Dated(known, at), NEW source, NEW short
    PROVE  LET seen == ResolvedState(known, source, at)
           IN  /\ Named(c, seen) \in DOMAIN c.statuses
               /\ Since(seen, at) \in Nat
               /\ SampleSource(c, known, source, at, short) = {Showing(c, seen, at, short)}
<1> DEFINE seen    == ResolvedState(known, source, at)
           named   == IF seen = {} THEN "unknown" ELSE The(seen).status
           name    == Named(c, seen)
           elapsed == Since(seen, at)
<1>1. \A r \in seen : r.entered_at \in 0..at /\ The(seen) = r
  BY ResolvedPast
<1>2. SampleSource(c, known, source, at, short) = SampleStatus(c, named, elapsed, short)
  BY Zenon DEF SampleSource, Since
<1> HIDE DEF seen
<1>3. elapsed \in Nat
  BY <1>1 DEF Since
<1>4. "unknown" \in DOMAIN c.statuses
  BY DEF StatusesMade
<1>5. name = IF named \in DOMAIN c.statuses THEN named ELSE "unknown"
  BY <1>1, <1>4 DEF Named
<1>6. name \in DOMAIN c.statuses
  BY <1>4, <1>5
<1> HIDE DEF name, named, elapsed
<1>7. SampleStatus(c, named, elapsed, short) = {Sample(c.statuses[name], elapsed, short)}
  <2>1. {IF named \in DOMAIN c.statuses THEN named ELSE "unknown"} \cap DOMAIN c.statuses = {name}
    BY <1>5, <1>6
  <2> QED  BY <2>1, Zenon DEF SampleStatus
<1> QED  BY <1>2, <1>3, <1>6, <1>7 DEF Showing, seen, name, elapsed

\* So all of them show colours.
LEMMA SourcesReady ==
    ASSUME NEW c, NEW objects, StatusesMade(c, objects),
           NEW known, Scaled(known), NEW at \in Nat, Dated(known, at), NEW short
    PROVE  Ready(c, known, at, short)
<1>1. ASSUME NEW source PROVE SampleSource(c, known, source, at, short) \in SUBSET Inks
  <2> DEFINE seen    == ResolvedState(known, source, at)
             name    == Named(c, seen)
             elapsed == Since(seen, at)
             colour  == Showing(c, seen, at, short)
  <2>1. /\ name \in DOMAIN c.statuses /\ elapsed \in Nat
        /\ SampleSource(c, known, source, at, short) = {colour}
    BY SourceSampled
  <2>2. colour = Sample(c.statuses[name], elapsed, short)
    BY DEF Showing
  <2> HIDE DEF name, elapsed, colour
  <2>3. AppearanceMade(c.statuses[name], The(objects[name].appearance)) /\ elapsed \in Int
    BY <2>1 DEF StatusesMade
  <2>4. colour \in Inks
    BY <2>2, <2>3, AppearanceInk
  <2> QED  BY <2>1, <2>4
<1> QED  BY <1>1 DEF Ready

-----------------------------------------------------------------------------
(* Moments. *)

\* The moments are those of the timeline.
LEMMA TimelineMoments ==
    ASSUME NEW t, NEW lengths, NEW transition, Follows(t, lengths, transition)
    PROVE  LET n       == Len(lengths)
               moments == MomentsOf(lengths)
           IN  /\ Len(moments) = t.cycle
               /\ \A i \in 1..n : \A m \in 1..lengths[i].time :
                     moments[t.keyframes[i].at + m] = [step |-> i, moment |-> m]
<1> DEFINE n       == Len(lengths)
           at(i)   == t.keyframes[i].at
           part(i) == [m \in 1..lengths[i].time |-> [step |-> i, moment |-> m]]
           seqs    == [i \in 1..n |-> part(i)]
           S       == [step : 1..n, moment : Nat]
           starts  == [i \in 1..n + 1 |-> IF i = n + 1 THEN t.cycle ELSE at(i)]
<1>1. /\ n \in Nat \ {0} /\ at(1) = 0 /\ t.cycle \in Nat \ {0}
      /\ \A i \in 1..n : at(i) \in Nat /\ lengths[i].time \in Nat \ {0}
      /\ \A i \in 1..n - 1 : at(i + 1) = at(i) + lengths[i].time
      /\ t.cycle = at(n) + lengths[n].time
  <2>1. n \in Nat \ {0} /\ at(1) = 0 /\ t.cycle \in Nat \ {0}
    BY FollowsTimes
  <2>2. \A i \in 1..n : at(i) \in Nat /\ lengths[i].time \in Nat \ {0}
    BY FollowsTimes
  <2>3. \A i \in 1..n - 1 : at(i + 1) = at(i) + lengths[i].time
    BY FollowsTimes
  <2>4. t.cycle = at(n) + lengths[n].time
    BY FollowsTimes
  <2> QED  BY <2>1, <2>2, <2>3, <2>4
<1>2. DOMAIN lengths = 1..n
  BY DEF Follows, Lasting
<1>3. MomentsOf(lengths) = FlattenSeq(seqs)
  <2> HIDE DEF n
  <2> QED  BY <1>2 DEF MomentsOf
<1> HIDE DEF n
<1>4. \A i \in 1..n : part(i) \in Seq(S) /\ Len(part(i)) = lengths[i].time
  <2> SUFFICES ASSUME NEW i \in 1..n PROVE part(i) \in Seq(S) /\ Len(part(i)) = lengths[i].time
    OBVIOUS
  <2> DEFINE k == lengths[i].time
  <2>1. k \in Nat
    BY <1>1
  <2> HIDE DEF k
  <2> DEFINE p == [m \in 1..k |-> [step |-> i, moment |-> m]]
  <2>2. \A m \in 1..k : [step |-> i, moment |-> m] \in S
    BY <2>1
  <2>3. p \in Seq(S) /\ Len(p) = k
    <3> HIDE DEF S
    <3> QED  BY <2>1, <2>2
  <2> QED  BY <2>3 DEF k
<1>5. seqs \in Seq(Seq(S)) /\ Len(seqs) = n
  <2> HIDE DEF S
  <2>1. \A i \in 1..n : part(i) \in Seq(S)
    BY <1>4
  <2> HIDE DEF part
  <2> QED  BY <1>1, <2>1
<1>6. \A i \in 1..n :
          /\ seqs[i] = part(i)
          /\ \A m \in 1..lengths[i].time : seqs[i][m] = [step |-> i, moment |-> m]
  OBVIOUS
<1> HIDE DEF part, seqs, S
<1>7. Starting(seqs, starts)
  <2>1. starts[1] = 0
    BY <1>1
  <2>2. ASSUME NEW i \in 1..n PROVE starts[i + 1] = starts[i] + lengths[i].time
    <3>1. CASE i = n
      <4>1. n + 1 \in 1..n + 1 /\ n \in 1..n + 1 /\ n # n + 1
        BY <1>1
      <4>2. starts[n + 1] = t.cycle /\ starts[n] = at(n)
        BY <4>1
      <4> QED  BY <1>1, <3>1, <4>2
    <3>2. CASE i # n
      <4>1. i \in 1..n - 1 /\ i + 1 \in 1..n + 1 /\ i \in 1..n + 1 /\ i + 1 # n + 1 /\ i # n + 1
        BY <1>1, <3>2
      <4>2. starts[i + 1] = at(i + 1) /\ starts[i] = at(i)
        BY <4>1
      <4> QED  BY <1>1, <4>1, <4>2
    <3> QED  BY <3>1, <3>2
  <2> HIDE DEF starts
  <2>3. \A i \in 1..n : Len(seqs[i]) = lengths[i].time
    BY <1>4, <1>6
  <2> QED  BY <1>5, <2>1, <2>2, <2>3 DEF Starting
<1>8. /\ starts[n + 1] = t.cycle
      /\ \A i \in 1..n : starts[i] = at(i)
  BY <1>1
<1> HIDE DEF starts
<1> DEFINE flat == FlattenSeq(seqs)
<1>9. Joined(seqs, starts, flat, n)
  BY <1>1, <1>5, <1>7, FlattenedAt
<1> HIDE DEF flat
<1>10. Len(flat) = t.cycle
  BY <1>8, <1>9 DEF Joined
<1>11. ASSUME NEW i \in 1..n, NEW m \in 1..lengths[i].time
       PROVE  flat[at(i) + m] = [step |-> i, moment |-> m]
  <2>1. m \in 1..Len(seqs[i])
    BY <1>4, <1>6
  <2>2. flat[starts[i] + m] = seqs[i][m]
    BY <1>9, <2>1 DEF Joined
  <2>3. seqs[i][m] = [step |-> i, moment |-> m]
    BY <1>6
  <2> QED  BY <1>8, <2>2, <2>3
<1> QED  BY <1>3, <1>10, <1>11 DEF n, flat

\* Where a timeline is tells which moment it is.
LEMMA MomentDue ==
    ASSUME NEW t, NEW lengths, NEW transition, Follows(t, lengths, transition),
           NEW elapsed \in Nat
    PROVE  LET spot    == PhaseOf(t, elapsed)
               i       == CurrentIndex(t, spot)
               moments == MomentsOf(lengths)
               over    == ~t.repeat /\ elapsed >= Len(moments)
               due     == IF over THEN moments[Len(moments)]
                          ELSE moments[(elapsed % Len(moments)) + 1]
           IN  /\ i \in 1..Len(lengths)
               /\ due.step = i
               /\ t.repeat => due.moment = spot - t.keyframes[i].at + 1
<1> DEFINE n       == Len(lengths)
           at(j)   == t.keyframes[j].at
           cycle   == t.cycle
           repeat  == t.repeat
           spot    == PhaseOf(t, elapsed)
           i       == CurrentIndex(t, spot)
           moments == MomentsOf(lengths)
           over    == ~repeat /\ elapsed >= cycle
           due     == IF over THEN moments[cycle] ELSE moments[(elapsed % cycle) + 1]
<1>1. /\ n \in Nat \ {0} /\ cycle \in Nat \ {0}
      /\ \A j \in 1..n : at(j) \in Nat /\ lengths[j].time \in Nat \ {0}
      /\ cycle = at(n) + lengths[n].time
  BY FollowsTimes
<1>2. /\ Len(moments) = cycle
      /\ \A j \in 1..n : \A m \in 1..lengths[j].time :
            moments[at(j) + m] = [step |-> j, moment |-> m]
  BY TimelineMoments
<1>3. /\ spot \in 0..cycle
      /\ repeat => spot = elapsed % cycle /\ spot < cycle
      /\ ~repeat => spot = IF elapsed > cycle THEN cycle ELSE elapsed
  <2>1. elapsed \in Int /\ ~(elapsed < 0)
    OBVIOUS
  <2> QED  BY <2>1, PhaseDue
<1> HIDE DEF spot
<1>4. /\ i \in 1..n
      /\ at(i) <= spot
      /\ spot < cycle => spot < at(i) + lengths[i].time
      /\ spot = cycle => i = n
  BY <1>3, FrameDue
<1>5. repeat \in BOOLEAN
  BY DEF Follows
<1> HIDE DEF n, cycle, i, moments, repeat
<1>6. CASE over
  <2>1. spot = cycle /\ i = n
    BY <1>1, <1>3, <1>4, <1>5, <1>6
  <2>2. lengths[n].time \in 1..lengths[n].time /\ n \in 1..n
    BY <1>1
  <2>3. moments[cycle] = [step |-> n, moment |-> lengths[n].time]
    BY <1>1, <1>2, <2>2
  <2>4. due.step = i /\ ~repeat
    BY <1>6, <2>1, <2>3
  <2> QED  BY <1>2, <1>4, <2>4 DEF n, cycle, i, moments, repeat, spot
<1>7. CASE ~over
  <2>1. spot < cycle /\ spot = elapsed % cycle
    BY <1>1, <1>3, <1>5, <1>7
  <2> DEFINE m == spot - at(i) + 1
  <2>2. m \in 1..lengths[i].time /\ at(i) + m = spot + 1
    BY <1>1, <1>3, <1>4, <2>1
  <2> HIDE DEF m
  <2>3. moments[spot + 1] = [step |-> i, moment |-> m]
    BY <1>2, <1>4, <2>2
  <2>4. due.step = i /\ due.moment = m
    BY <1>7, <2>1, <2>3
  <2> QED  BY <1>2, <1>4, <2>4 DEF m, n, cycle, i, moments, repeat, spot
<1> QED  BY <1>6, <1>7

\* What an appearance shows is due.
LEMMA ColourDue ==
    ASSUME NEW t, NEW a, AppearanceMade(t, a), NEW elapsed \in Nat, NEW short
    PROVE  Sample(t, elapsed, short) \in ColoursDue(a, elapsed)
<1>1. CASE a.type = "solid"
  <2>1. Sample(t, elapsed, short) = The(a.colour) /\ The(a.colour) \in a.colour
    BY <1>1, SolidShown DEF AppearanceMade
  <2>2. ColoursDue(a, elapsed) = a.colour
    BY <1>1, Zenon DEF ColoursDue
  <2> QED  BY <2>1, <2>2
<1>2. CASE a.type # "solid"
  <2> DEFINE lengths    == Lengths(a)
             smooth     == Smooth(a)
             transition == IF smooth THEN "linear" ELSE "step"
             spot       == PhaseOf(t, elapsed)
             i          == CurrentIndex(t, spot)
             n          == Len(lengths)
             moments    == MomentsOf(lengths)
             once       == a.type = "sequence" /\ a.repeat = {"false"}
             over       == once /\ elapsed >= Len(moments)
             due        == IF over THEN moments[Len(moments)]
                           ELSE moments[(elapsed % Len(moments)) + 1]
             here       == lengths[due.step].colour
             there      == lengths[(due.step % n) + 1].colour
             colour     == Sample(t, elapsed, short)
  <2>1. Follows(t, lengths, transition) /\ t.repeat = ~once
    BY <1>2 DEF AppearanceMade
  <2>2. smooth => ~once
    BY DEF Smooth
  <2>3. ColoursDue(a, elapsed) = IF smooth /\ due.moment > 1
                                 THEN Lowest(here, there)..Highest(here, there) ELSE {here}
    BY <1>2, Zenon DEF ColoursDue, MomentsOf
  <2> HIDE DEF lengths, moments, once, smooth
  <2>4. transition \in {"step", "linear"} /\ (transition = "linear" => t.repeat)
        /\ (transition = "linear" <=> smooth)
    BY <2>1, <2>2
  <2> HIDE DEF transition
  <2>5. Due(colour, lengths, i, spot - t.keyframes[i].at, transition)
    <3>1. elapsed \in Int
      OBVIOUS
    <3> QED  BY <2>1, <2>4, <3>1, SampledDue
  <2>6. /\ i \in 1..n
        /\ due.step = i
        /\ t.repeat => due.moment = spot - t.keyframes[i].at + 1
    BY <2>1, MomentDue DEF moments
  <2> DEFINE since == spot - t.keyframes[i].at
             from  == lengths[i].colour
             to    == lengths[(i % n) + 1].colour
  <2>7. IF transition = "linear" /\ since > 0
        THEN colour \in Lowest(from, to)..Highest(from, to)
        ELSE colour = from
    BY <2>5, Zenon DEF Due
  <2>8. from = here /\ to = there
    BY <2>6
  <2>9. smooth => (due.moment > 1 <=> since > 0)
    <3>1. since \in Int
      <4>1. spot \in 0..t.cycle
        <5>1. elapsed \in Int
          OBVIOUS
        <5> QED  BY <2>1, <5>1, PhaseDue
      <4>2. t.keyframes[i].at \in Nat /\ t.cycle \in Nat
        BY <2>1, <2>6, FollowsTimes
      <4> HIDE DEF spot, i
      <4> QED  BY <4>1, <4>2
    <3>2. smooth => due.moment = since + 1
      BY <2>4, <2>6
    <3> HIDE DEF since, due
    <3> QED  BY <3>1, <3>2
  <2> HIDE DEF since, from, to, here, there, due, colour
  <2>10. colour \in IF smooth /\ due.moment > 1
                    THEN Lowest(here, there)..Highest(here, there) ELSE {here}
    BY <2>4, <2>7, <2>8, <2>9
  <2> QED  BY <2>3, <2>10 DEF colour
<1> QED  BY <1>1, <1>2

-----------------------------------------------------------------------------
(* What indicators show. *)

\* An indicator is one stroke, of the colour its source shows.
LEMMA IndicatorDrawn ==
    ASSUME NEW c, NEW objects, StatusesMade(c, objects),
           NEW known, NEW at \in Nat, Dated(known, at), NEW short,
           NEW w, w.kind = "indicator"
    PROVE  WidgetStrokes(c, known, w, at, short)
              = <<Stroke(w.rect, Showing(c, ResolvedState(known, w.source, at), at, short))>>
<1> DEFINE source  == w.source
           seen    == ResolvedState(known, source, at)
           colour  == Showing(c, seen, at, short)
           colours == SampleSource(c, known, source, at, short)
<1>1. colours = {colour}
  <2> HIDE DEF source
  <2> QED  BY SourceSampled
<1>2. WidgetStrokes(c, known, w, at, short) = Coloured(w.rect, colours)
  BY DEF WidgetStrokes, IndicatorStrokes
<1> HIDE DEF colours, colour
<1>3. Coloured(w.rect, colours) = <<Stroke(w.rect, colour)>>
  <2>1. colours # {} /\ The(colours) = colour
    BY <1>1, TheSingleton
  <2> QED  BY <2>1 DEF Coloured
<1> QED  BY <1>2, <1>3 DEF colour

\* A list of single elements, flattened, is the list of them.
LEMMA FlattenedSingles ==
    ASSUME NEW n, NEW seqs, NEW xs, Singles(n, seqs, xs)
    PROVE  /\ Len(FlattenSeq(seqs)) = n
           /\ \A i \in 1..n : FlattenSeq(seqs)[i] = xs[i]
<1> DEFINE S      == {xs[i] : i \in 1..n}
           starts == [i \in 1..n + 1 |-> i - 1]
           flat   == FlattenSeq(seqs)
<1>0. n \in Nat \ {0}
  BY DEF Singles
<1>1. ASSUME NEW i \in 1..n
      PROVE  seqs[i] \in Seq(S) /\ Len(seqs[i]) = 1 /\ seqs[i][1] = xs[i]
  <2> DEFINE one == seqs[i]
             x   == xs[i]
  <2>1. one = <<x>> /\ x \in S
    BY DEF Singles
  <2> HIDE DEF S, one, x
  <2>2. one \in Seq(S) /\ Len(one) = 1 /\ one[1] = x
    BY <2>1
  <2> QED  BY <2>2 DEF one, x
<1> HIDE DEF S
<1>2. seqs \in Seq(Seq(S)) /\ Len(seqs) = n
  <2>1. seqs \in [1..n -> Seq(S)]
    BY <1>1 DEF Singles
  <2> QED  BY <1>0, <2>1
<1>3. \A i \in 1..n : Len(seqs[i]) = 1 /\ seqs[i][1] = xs[i]
  BY <1>1
<1>4. \A i \in 1..n : starts[i + 1] = i /\ starts[i] = i - 1
  BY <1>0
<1>5. starts[1] = 0
  BY <1>0
<1> HIDE DEF starts
<1>6. Starting(seqs, starts)
  <2>1. \A i \in 1..n : starts[i + 1] = starts[i] + 1
    BY <1>4
  <2> QED  BY <1>2, <1>3, <1>5, <2>1 DEF Starting
<1>7. Joined(seqs, starts, flat, n)
  <2> HIDE DEF flat
  <2>1. Len(seqs) # 0
    BY <1>0, <1>2
  <2> QED  BY <1>2, <1>6, <2>1, FlattenedAt DEF flat
<1> HIDE DEF flat
<1>8. Len(flat) = n
  <2>1. starts[n + 1] = n
    <3>1. n \in 1..n
      BY <1>0
    <3> QED  BY <1>4, <3>1
  <2> QED  BY <1>7, <2>1 DEF Joined
<1>9. ASSUME NEW i \in 1..n PROVE flat[i] = xs[i]
  <2>1. 1 \in 1..Len(seqs[i]) /\ starts[i] + 1 = i
    BY <1>3, <1>4
  <2>2. flat[starts[i] + 1] = seqs[i][1]
    BY <1>7, <2>1 DEF Joined
  <2> QED  BY <1>3, <2>1, <2>2
<1> QED  BY <1>8, <1>9 DEF flat

\* The strokes of a panel of indicators are theirs.
LEMMA PanelDrawn ==
    ASSUME NEW c, NEW objects, StatusesMade(c, objects), Showable(c),
           NEW known, NEW at \in Nat, Dated(known, at), NEW short, c.indicators # <<>>
    PROVE  LET strokes == ContentStrokes(c, known, Still(c), at, short)
               n       == Len(c.indicators)
           IN  /\ n \in Nat \ {0} /\ DOMAIN c.indicators = 1..n /\ Len(strokes) = n
               /\ \A i \in 1..n :
                     LET w == c.indicators[i]
                     IN  strokes[i] = Stroke(w.rect,
                             Showing(c, ResolvedState(known, w.source, at), at, short))
<1> DEFINE items   == c.indicators
           n       == Len(items)
           stroke(w) == Stroke(w.rect, Showing(c, ResolvedState(known, w.source, at), at, short))
           seqs    == [i \in 1..n |-> WidgetStrokes(c, known, items[i], at, short)]
           xs      == [i \in 1..n |-> stroke(items[i])]
           strokes == ContentStrokes(c, known, Still(c), at, short)
<1>1. n \in Nat \ {0} /\ DOMAIN items = 1..n
  <2>1. PICK S : items \in Seq(S)
    BY DEF Showable
  <2>2. items # <<>>
    OBVIOUS
  <2> HIDE DEF items
  <2> QED  BY <2>1, <2>2, EmptySeq
<1>2. strokes = FlattenSeq(seqs)
  <2>1. c.cards = <<>>
    BY DEF Showable
  <2>2. Still(c) = [kind |-> "indicators", items |-> items]
    BY <2>1 DEF Still
  <2> QED  BY <2>2 DEF ContentStrokes
<1>3. ASSUME NEW i \in 1..n
      PROVE  WidgetStrokes(c, known, items[i], at, short) = <<stroke(items[i])>>
  <2> DEFINE w == items[i]
  <2>1. w.kind = "indicator"
    BY DEF Showable
  <2> HIDE DEF w
  <2>2. WidgetStrokes(c, known, w, at, short) = <<stroke(w)>>
    BY <2>1, IndicatorDrawn
  <2> QED  BY <2>2 DEF w
<1> HIDE DEF items, n, stroke
<1>4. \A i \in 1..n : seqs[i] = <<xs[i]>> /\ xs[i] = stroke(items[i])
  BY <1>3
<1>5. Singles(n, seqs, xs)
  <2>1. seqs = [i \in 1..n |-> seqs[i]]
    OBVIOUS
  <2> HIDE DEF seqs, xs
  <2> QED  BY <1>1, <1>4, <2>1 DEF Singles
<1> HIDE DEF seqs, xs
<1>6. Len(FlattenSeq(seqs)) = n /\ \A i \in 1..n : FlattenSeq(seqs)[i] = xs[i]
  BY <1>5, FlattenedSingles
<1> QED  BY <1>1, <1>2, <1>4, <1>6 DEF items, n, stroke

\* An indicator nothing is drawn over shows the colour of its source.
LEMMA IndicatorShown ==
    ASSUME NEW c, NEW objects, StatusesMade(c, objects), Showable(c),
           NEW known, Scaled(known), NEW at \in Nat, Dated(known, at), NEW short,
           NEW i \in DOMAIN c.indicators,
           \A j \in DOMAIN c.indicators :
              j > i => ~Inside(<<c.indicators[i].rect.x, c.indicators[i].rect.y>>,
                               c.indicators[j].rect)
    PROVE  Render(c, known, at, short).pixels[<<c.indicators[i].rect.x, c.indicators[i].rect.y>>]
              = Showing(c, ResolvedState(known, c.indicators[i].source, at), at, short)
<1> DEFINE strokes == ContentStrokes(c, known, Still(c), at, short)
           n       == Len(c.indicators)
           w       == c.indicators[i]
           p       == <<w.rect.x, w.rect.y>>
           colour  == Showing(c, ResolvedState(known, w.source, at), at, short)
           content == Still(c)
           drawn   == RenderContent(c, known, content, at, short)
<1>1. c.indicators # <<>>
  OBVIOUS
<1>2. /\ n \in Nat \ {0} /\ DOMAIN c.indicators = 1..n /\ Len(strokes) = n
      /\ \A j \in 1..n : strokes[j].rect = c.indicators[j].rect
      /\ strokes[i].colour = colour
  <2>1. /\ n \in Nat \ {0} /\ DOMAIN c.indicators = 1..n /\ Len(strokes) = n
        /\ \A j \in 1..n :
              strokes[j] = Stroke(c.indicators[j].rect,
                  Showing(c, ResolvedState(known, c.indicators[j].source, at), at, short))
    BY <1>1, PanelDrawn
  <2> DEFINE shown(j) == Showing(c, ResolvedState(known, c.indicators[j].source, at), at, short)
             rect(j)  == c.indicators[j].rect
  <2>2. \A j \in 1..n : strokes[j] = [rect |-> rect(j), colour |-> shown(j)]
    BY <2>1, Zenon DEF Stroke
  <2>3. rect(i) = w.rect /\ shown(i) = colour /\ i \in 1..n
    BY <2>1
  <2> HIDE DEF strokes, shown, rect, colour, n
  <2>4. ASSUME NEW j \in 1..n PROVE strokes[j].rect = rect(j) /\ strokes[j].colour = shown(j)
    <3> DEFINE s == strokes[j]
               r == rect(j)
               k == shown(j)
    <3>1. s = [rect |-> r, colour |-> k]
      BY <2>2
    <3> HIDE DEF s, r, k
    <3>2. s.rect = r /\ s.colour = k
      BY <3>1
    <3> QED  BY <3>2 DEF s, r, k
  <2>5. strokes[i].colour = colour
    BY <2>3, <2>4
  <2>6. \A j \in 1..n : strokes[j].rect = rect(j)
    BY <2>4
  <2> QED  BY <2>1, <2>5, <2>6 DEF rect, n
<1>3. c.cards = <<>> /\ Sized(c.display)
  BY <1>1 DEF Showable
<1>4. WellMade(w, c.display)
  BY <1>2, <1>3 DEF Showable
<1>5. Drawable(content, c.display)
  BY <1>3 DEF Still, Showable, Drawable
<1>6. p \in Points(c.display.width, c.display.height) /\ Inside(p, w.rect)
  <2> DEFINE r == w.rect
             x == r.x
             y == r.y
             width  == c.display.width
             height == c.display.height
  <2>1. r \in Rects /\ Fits(r, width, height)
    BY <1>4 DEF WellMade, OnDisplay
  <2>2. width \in Nat /\ height \in Nat
    BY <1>3 DEF Sized
  <2> HIDE DEF r, width, height
  <2>3. x \in 0..width - 1 /\ y \in 0..height - 1
    BY <2>1, <2>2 DEF Rects, Fits
  <2>4. r.x <= x /\ x < r.x + r.width /\ r.y <= y /\ y < r.y + r.height
    BY <2>1 DEF Rects, Fits
  <2> HIDE DEF x, y
  <2>5. <<x, y>> \in Points(width, height) /\ Inside(<<x, y>>, r)
    BY <2>3, <2>4 DEF Points, Inside
  <2> QED  BY <2>5 DEF r, x, y, width, height
<1>7. Ready(c, known, at, short)
  BY SourcesReady
<1>8. Render(c, known, at, short) = drawn
  BY <1>3 DEF Render
<1>9. \A j \in 1..n : j > i => ~Inside(p, strokes[j].rect)
  BY <1>2
<1>10. Inside(p, strokes[i].rect) /\ i \in 1..n
  BY <1>2, <1>6
<1> HIDE DEF p, colour, n, w, content
<1>11. drawn.pixels[p] = strokes[i].colour
  <2>1. /\ i \in 1..Len(ContentStrokes(c, known, content, at, short))
        /\ Inside(p, ContentStrokes(c, known, content, at, short)[i].rect)
        /\ \A j \in 1..Len(ContentStrokes(c, known, content, at, short)) :
              j > i => ~Inside(p, ContentStrokes(c, known, content, at, short)[j].rect)
    BY <1>2, <1>9, <1>10 DEF content
  <2>2. drawn.pixels[p] = ContentStrokes(c, known, content, at, short)[i].colour
    BY <1>3, <1>5, <1>6, <1>7, <2>1, LastStroke
  <2> QED  BY <2>2 DEF content
<1> QED  BY <1>2, <1>8, <1>11 DEF p, w, colour

-----------------------------------------------------------------------------
(* A deck of cards through time. *)

\* A list of n parts by index is a sequence.
LEMMA MomentList ==
    ASSUME NEW n \in Nat, NEW S, NEW f, f = [t \in 1..n |-> f[t]], \A t \in 1..n : f[t] \in S
    PROVE  f \in Seq(S) /\ Len(f) = n
<1>1. f \in [1..n -> S]
  OBVIOUS
<1> QED  BY <1>1

\* The moments of a card begin when the card does.
LEMMA ScheduleAt ==
    ASSUME NEW cards, Timed(cards), Len(cards) > 0
    PROVE  LET n     == Len(cards)
               turns == Schedule(cards)
           IN  /\ Len(turns) = Begins(cards, n + 1)
               /\ \A i \in 1..n :
                     /\ \A t \in 1..cards[i].hold :
                           turns[Begins(cards, i) + t] = [card |-> i, moment |-> 0]
                     /\ \A t \in 1..cards[i].transition.duration :
                           turns[Begins(cards, i) + cards[i].hold + t]
                              = [card |-> i, moment |-> t]
<1> DEFINE n      == Len(cards)
           S      == [card : 1..n, moment : Nat]
           part(i) == Held(cards, i) \o Moved(cards, i)
           seqs   == [i \in 1..n |-> part(i)]
           starts == [i \in 1..n + 1 |-> Begins(cards, i)]
           turns  == Schedule(cards)
<1>1. /\ n \in Nat /\ n > 0 /\ DOMAIN cards = 1..n
      /\ \A i \in 1..n : /\ cards[i].hold \in Nat \ {0}
                         /\ cards[i].transition.duration \in Nat
  BY DEF Timed, MoveMade
<1>2. /\ \A i \in 1..n + 1 : Begins(cards, i) \in Nat
      /\ Begins(cards, 1) = 0
      /\ \A i \in 1..n :
            Begins(cards, i + 1)
               = Begins(cards, i) + (cards[i].hold + cards[i].transition.duration)
  BY CardsBegin DEF Segment
<1>3. turns = FlattenSeq(seqs)
  BY <1>1, Zenon DEF Schedule, Held, Moved
<1> HIDE DEF n
<1>4. ASSUME NEW i \in 1..n
      PROVE  /\ part(i) \in Seq(S)
             /\ Len(part(i)) = cards[i].hold + cards[i].transition.duration
             /\ \A t \in 1..cards[i].hold : part(i)[t] = [card |-> i, moment |-> 0]
             /\ \A t \in 1..cards[i].transition.duration :
                   part(i)[cards[i].hold + t] = [card |-> i, moment |-> t]
  <2> DEFINE hold     == cards[i].hold
             duration == cards[i].transition.duration
             a == Held(cards, i)
             b == Moved(cards, i)
  <2>1. hold \in Nat /\ duration \in Nat
    BY <1>1
  <2>2. a \in Seq(S) /\ Len(a) = hold /\ \A t \in 1..hold : a[t] = [card |-> i, moment |-> 0]
    <3>1. a = [t \in 1..hold |-> a[t]] /\ \A t \in 1..hold : a[t] = [card |-> i, moment |-> 0]
      BY DEF Held
    <3>2. \A t \in 1..hold : a[t] \in S
      BY <3>1
    <3> HIDE DEF hold, a, S
    <3> QED  BY <2>1, <3>1, <3>2, MomentList
  <2>3. /\ b \in Seq(S) /\ Len(b) = duration
        /\ \A t \in 1..duration : b[t] = [card |-> i, moment |-> t]
    <3>1. /\ b = [t \in 1..duration |-> b[t]]
          /\ \A t \in 1..duration : b[t] = [card |-> i, moment |-> t]
      BY DEF Moved
    <3>2. \A t \in 1..duration : [card |-> i, moment |-> t] \in S
      <4> HIDE DEF duration, b
      <4> QED  BY <2>1
    <3>3. \A t \in 1..duration : b[t] \in S
      BY <3>1, <3>2
    <3> HIDE DEF duration, b, S
    <3> QED  BY <2>1, <3>1, <3>3, MomentList
  <2> HIDE DEF S, a, b, hold, duration
  <2> DEFINE c == a \o b
  <2>4. c \in Seq(S) /\ Len(c) = hold + duration
    <3>1. c \in Seq(S) /\ Len(c) = Len(a) + Len(b)
      BY <2>2, <2>3, ConcatProperties
    <3> QED  BY <2>2, <2>3, <3>1
  <2>5. \A t \in 1..hold : c[t] = [card |-> i, moment |-> 0]
    BY <2>1, <2>2, <2>3
  <2>6. \A t \in 1..duration : c[hold + t] = [card |-> i, moment |-> t]
    <3> SUFFICES ASSUME NEW t \in 1..duration PROVE c[hold + t] = [card |-> i, moment |-> t]
      OBVIOUS
    <3>1. hold + t \in Len(a) + 1..Len(a) + Len(b) /\ (hold + t) - Len(a) = t
      BY <2>1, <2>2, <2>3
    <3>2. c[hold + t] = b[t]
      BY <2>2, <2>3, <3>1
    <3> QED  BY <2>3, <3>2
  <2> QED  BY <2>4, <2>5, <2>6 DEF a, b, hold, duration
<1> HIDE DEF S
<1>5. seqs \in Seq(Seq(S)) /\ Len(seqs) = n /\ \A i \in 1..n : seqs[i] = part(i)
  <2>1. seqs = [i \in 1..n |-> seqs[i]] /\ \A i \in 1..n : seqs[i] = part(i)
    OBVIOUS
  <2>2. \A i \in 1..n : seqs[i] \in Seq(S)
    BY <1>4, <2>1
  <2> DEFINE Q == Seq(S)
  <2> HIDE DEF seqs, Q
  <2>3. seqs \in Seq(Q) /\ Len(seqs) = n
    BY <1>1, <2>1, <2>2, MomentList DEF Q
  <2> QED  BY <2>1, <2>3 DEF Q
<1> HIDE DEF seqs
<1>6. Starting(seqs, starts)
  <2>1. starts[1] = 0
    BY <1>1, <1>2
  <2>2. ASSUME NEW i \in 1..n PROVE starts[i + 1] = starts[i] + Len(seqs[i])
    <3>1. i \in 1..n + 1 /\ i + 1 \in 1..n + 1
      BY <1>1
    <3> HIDE DEF part
    <3>2. Len(seqs[i]) = cards[i].hold + cards[i].transition.duration
      BY <1>4, <1>5
    <3>3. Begins(cards, i + 1) = Begins(cards, i) + Len(seqs[i])
      BY <1>2, <3>2
    <3> QED  BY <3>1, <3>3
  <2> HIDE DEF starts
  <2> QED  BY <1>5, <2>1, <2>2 DEF Starting
<1>7. Joined(seqs, starts, turns, n)
  <2> HIDE DEF starts, turns
  <2>1. Len(seqs) # 0
    BY <1>1, <1>5
  <2> QED  BY <1>3, <1>5, <1>6, <2>1, FlattenedAt
<1> HIDE DEF turns
<1>8. Len(turns) = Begins(cards, n + 1)
  <2>1. n + 1 \in 1..n + 1
    BY <1>1
  <2> QED  BY <1>7, <2>1 DEF Joined
<1>9. ASSUME NEW i \in 1..n, NEW t \in 1..cards[i].hold + cards[i].transition.duration
      PROVE  turns[Begins(cards, i) + t] = part(i)[t]
  <2>1. i \in 1..n + 1
    BY <1>1
  <2>2. Len(seqs[i]) = cards[i].hold + cards[i].transition.duration /\ seqs[i] = part(i)
    BY <1>4, <1>5
  <2> HIDE DEF part
  <2>3. turns[starts[i] + t] = seqs[i][t]
    BY <1>7, <2>2 DEF Joined
  <2> QED  BY <2>1, <2>2, <2>3
<1> HIDE DEF part
<1>10. ASSUME NEW i \in 1..n, NEW t \in 1..cards[i].hold
       PROVE  turns[Begins(cards, i) + t] = [card |-> i, moment |-> 0]
  <2>1. t \in 1..cards[i].hold + cards[i].transition.duration
    BY <1>1
  <2> QED  BY <1>4, <1>9, <2>1
<1>11. ASSUME NEW i \in 1..n, NEW t \in 1..cards[i].transition.duration
       PROVE  turns[Begins(cards, i) + cards[i].hold + t] = [card |-> i, moment |-> t]
  <2>1. cards[i].hold + t \in 1..cards[i].hold + cards[i].transition.duration
    BY <1>1
  <2>2. turns[Begins(cards, i) + (cards[i].hold + t)] = [card |-> i, moment |-> t]
    <3> DEFINE u == cards[i].hold + t
    <3>1. part(i)[u] = [card |-> i, moment |-> t]
      BY <1>4
    <3>2. u \in 1..cards[i].hold + cards[i].transition.duration
      BY <2>1
    <3> HIDE DEF u
    <3>3. turns[Begins(cards, i) + u] = part(i)[u]
      BY <1>9, <3>2
    <3> QED  BY <3>1, <3>3 DEF u
  <2>3. Begins(cards, i) + (cards[i].hold + t) = Begins(cards, i) + cards[i].hold + t
    <3>1. Begins(cards, i) \in Nat /\ cards[i].hold \in Nat
      BY <1>1, <1>2
    <3> QED  BY <3>1
  <2> QED  BY <2>2, <2>3
<1> QED  BY <1>8, <1>10, <1>11 DEF n, turns

\* So the turn of an instant is that of its active card: alone until its hold has
\* passed, then on the way to the next.
LEMMA TurnDue ==
    ASSUME NEW cards, Timed(cards), Len(cards) > 0, NEW at \in Nat
    PROVE  LET position == Position(cards, at)
               i        == Active(cards, position)
               since    == position - Begins(cards, i)
               turns    == Schedule(cards)
               turn     == turns[(at % Len(turns)) + 1]
           IN  /\ i \in 1..Len(cards) /\ since \in Nat
               /\ since < cards[i].hold => turn = [card |-> i, moment |-> 0]
               /\ since >= cards[i].hold =>
                     /\ since - cards[i].hold < cards[i].transition.duration
                     /\ turn = [card |-> i, moment |-> since - cards[i].hold + 1]
<1> DEFINE position == Position(cards, at)
           i        == Active(cards, position)
           begin    == Begins(cards, i)
           since    == position - begin
           turns    == Schedule(cards)
           cycle    == Begins(cards, Len(cards) + 1)
           hold     == cards[i].hold
           duration == cards[i].transition.duration
<1>1. /\ cycle \in Nat \ {0} /\ position = at % cycle /\ i \in 1..Len(cards)
      /\ begin <= position /\ position < Begins(cards, i + 1)
  BY CardActive
<1>2. Len(turns) = cycle /\ turns[(at % Len(turns)) + 1] = turns[position + 1]
  <2>1. Len(turns) = cycle
    BY ScheduleAt
  <2> QED  BY <1>1, <2>1
<1>3. /\ \A t \in 1..hold : turns[begin + t] = [card |-> i, moment |-> 0]
      /\ \A t \in 1..duration : turns[begin + hold + t] = [card |-> i, moment |-> t]
  <2> HIDE DEF i, turns
  <2> QED  BY <1>1, ScheduleAt DEF turns
<1>4. /\ hold \in Nat \ {0} /\ duration \in Nat /\ begin \in Nat
      /\ Begins(cards, i + 1) = begin + (hold + duration)
  <2> HIDE DEF i
  <2>1. hold \in Nat \ {0} /\ duration \in Nat /\ Len(cards) \in Nat
    BY <1>1 DEF Timed, MoveMade
  <2>2. i \in 1..Len(cards) + 1
    BY <1>1, <2>1
  <2>3. begin \in Nat /\ Begins(cards, i + 1) = begin + Segment(cards[i])
    BY <1>1, <2>2, CardsBegin
  <2> QED  BY <2>1, <2>3 DEF Segment
<1>5. position \in Nat
  BY <1>1
<1> HIDE DEF position, i, begin, turns, cycle, hold, duration
<1>6. since \in Nat /\ since < hold + duration
  BY <1>1, <1>4, <1>5
<1>7. since < hold => turns[position + 1] = [card |-> i, moment |-> 0]
  <2> SUFFICES ASSUME since < hold PROVE turns[position + 1] = [card |-> i, moment |-> 0]
    OBVIOUS
  <2> DEFINE t == since + 1
  <2>1. t \in 1..hold /\ begin + t = position + 1
    BY <1>4, <1>5, <1>6
  <2> HIDE DEF t
  <2>2. turns[begin + t] = [card |-> i, moment |-> 0]
    BY <1>3, <2>1
  <2> QED  BY <2>1, <2>2
<1>8. since >= hold => turns[position + 1] = [card |-> i, moment |-> since - hold + 1]
  <2> SUFFICES ASSUME since >= hold
               PROVE turns[position + 1] = [card |-> i, moment |-> since - hold + 1]
    OBVIOUS
  <2> DEFINE t == since - hold + 1
  <2>1. t \in 1..duration /\ begin + hold + t = position + 1
    BY <1>4, <1>5, <1>6
  <2> HIDE DEF t
  <2>2. turns[begin + hold + t] = [card |-> i, moment |-> t]
    BY <1>3, <2>1
  <2> QED  BY <2>1, <2>2 DEF t
<1>9. since >= hold => since - hold < duration
  BY <1>4, <1>6
<1> QED  BY <1>1, <1>2, <1>6, <1>7, <1>8, <1>9 DEF position, i, begin, turns, hold, duration

\* How far a slide has come, up to a rounding: never beyond the edge.
LEMMA SlideWithin ==
    ASSUME NEW extent \in Nat, NEW d \in Nat \ {0}, NEW n \in Nat, n < d, NEW short
    PROVE  LET exact == (n * extent) \div d
           IN  /\ SlideOffset(extent, n, d, short) \in 0..extent
               /\ SlideOffset(extent, n, d, short) \in {exact, Highest(exact - 1, 0)}
<1> DEFINE product == n * extent
           exact   == product \div d
           offset  == SlideOffset(extent, n, d, short)
           back    == short /\ exact > 0 /\ product % d = 0
<1>1. product \in Nat
  BY ProductNat
<1>2. offset = IF back THEN exact - 1 ELSE IF exact > extent THEN extent ELSE exact
  BY DEF SlideOffset
<1>3. exact \in 0..extent
  <2>1. extent * n <= extent * d /\ product = extent * n
    <3>1. n <= d
      OBVIOUS
    <3> QED  BY <3>1, ProductMonotone
  <2> HIDE DEF product
  <2>2. exact <= extent
    BY <1>1, <2>1, DivisionBound
  <2> QED  BY <1>1, <2>2, Division
<1> HIDE DEF product, exact, offset
<1>4. back => exact > 0
  OBVIOUS
<1> HIDE DEF back
<1>5. offset \in 0..extent
  BY <1>2, <1>3, <1>4
<1>6. offset \in {exact, Highest(exact - 1, 0)}
  BY <1>2, <1>3, <1>4 DEF Highest
<1> QED  BY <1>5, <1>6 DEF exact, product, offset

\* The pixels of a slide are those of the window its author sees.
LEMMA SlideShown ==
    ASSUME Sized(Config.display), NEW type, type # "fade",
           NEW from, DOMAIN from = Points(Config.display.width, Config.display.height), NEW to,
           NEW duration \in Nat \ {0}, NEW moment \in 1..duration, NEW short,
           Pixels = Composed(Config.display, from, to, type, moment - 1, duration, short)
    PROVE  SlidesOn(type, from, to, moment, duration)
<1> DEFINE w == Config.display.width
           h == Config.display.height
           extent == IF type \in {"slide_left", "slide_right"} THEN w ELSE h
           exact  == ((moment - 1) * extent) \div duration
           strip(x, y) ==
               CASE type = "slide_left"  -> IF x < w THEN from[<<x, y>>] ELSE to[<<x - w, y>>]
                 [] type = "slide_right" -> IF x < w THEN to[<<x, y>>] ELSE from[<<x - w, y>>]
                 [] type = "slide_up"    -> IF y < h THEN from[<<x, y>>] ELSE to[<<x, y - h>>]
                 [] OTHER                -> IF y < h THEN to[<<x, y>>] ELSE from[<<x, y - h>>]
           window(o, p) ==
               CASE type = "slide_left"  -> strip(p[1] + o, p[2])
                 [] type = "slide_right" -> strip(p[1] + w - o, p[2])
                 [] type = "slide_up"    -> strip(p[1], p[2] + o)
                 [] OTHER                -> strip(p[1], p[2] + h - o)
           offset == SlideOffset(extent, moment - 1, duration, short)
<1>1. SlidesOn(type, from, to, moment, duration)
          <=> \E o \in {exact, Highest(exact - 1, 0)} :
                 \A p \in DOMAIN Pixels : Pixels[p] = window(o, p)
  BY Zenon DEF SlidesOn
<1>2. w \in Nat /\ h \in Nat
  BY DEF Sized
<1>3. offset \in 0..extent /\ offset \in {exact, Highest(exact - 1, 0)}
  <2> DEFINE n == moment - 1
  <2>1. n \in Nat /\ n < duration /\ extent \in Nat
    BY <1>2
  <2> HIDE DEF n, extent
  <2>2. /\ SlideOffset(extent, n, duration, short) \in 0..extent
        /\ SlideOffset(extent, n, duration, short)
              \in {(n * extent) \div duration, Highest((n * extent) \div duration - 1, 0)}
    BY <2>1, SlideWithin
  <2> QED  BY <2>2 DEF n
<1> DEFINE slid(p) == SlideSource(type, w, h, offset, p)
<1>4. Pixels = [p \in DOMAIN from |->
                   IF slid(p).frame = "from" THEN from[slid(p).point] ELSE to[slid(p).point]]
  BY Zenon DEF Composed
<1>5. offset \in Int /\ w \in Int /\ h \in Int
  BY <1>2, <1>3
<1> HIDE DEF offset
<1>6. ASSUME NEW p \in DOMAIN Pixels PROVE Pixels[p] = window(offset, p)
  <2>1. PICK x \in 0..w - 1, y \in 0..h - 1 : p = <<x, y>>
    BY <1>4 DEF Points
  <2>2. p[1] = x /\ p[2] = y
    BY <2>1
  <2>3. Pixels[p] = IF slid(p).frame = "from" THEN from[slid(p).point] ELSE to[slid(p).point]
    BY <1>4
  <2> HIDE DEF w, h, slid
  <2>4. ASSUME NEW a, NEW b PROVE /\ slid(p) = Source("from", a, b) => Pixels[p] = from[<<a, b>>]
                                  /\ slid(p) = Source("to", a, b) => Pixels[p] = to[<<a, b>>]
    <3> DEFINE q == <<a, b>>
               s == slid(p)
    <3> HIDE DEF q, s
    <3>1. s = [frame |-> "from", point |-> q] => s.frame = "from" /\ s.point = q
      OBVIOUS
    <3>2. s = [frame |-> "to", point |-> q] => s.frame = "to" /\ s.point = q
      OBVIOUS
    <3>3. Pixels[p] = IF s.frame = "from" THEN from[s.point] ELSE to[s.point]
      BY <2>3 DEF s
    <3>4. /\ s = [frame |-> "from", point |-> q] => Pixels[p] = from[q]
          /\ s = [frame |-> "to", point |-> q] => Pixels[p] = to[q]
      BY <3>1, <3>2, <3>3
    <3> QED  BY <3>4, Zenon DEF Source, s, q
  <2>5. CASE type = "slide_left"
    <3>1. slid(p) = IF x + offset < w THEN Source("from", x + offset, y)
                    ELSE Source("to", x + offset - w, y)
      BY <2>2, <2>5 DEF SlideSource, slid
    <3>2. Pixels[p] = IF x + offset < w THEN from[<<x + offset, y>>]
                      ELSE to[<<x + offset - w, y>>]
      BY <2>4, <3>1
    <3>3. window(offset, p) = IF x + offset < w THEN from[<<x + offset, y>>]
                              ELSE to[<<(x + offset) - w, y>>]
      <4>1. window(offset, p) = strip(p[1] + offset, p[2])
        BY <2>5
      <4>2. strip(p[1] + offset, p[2]) = strip(x + offset, y)
        <5> HIDE DEF strip
        <5> QED  BY <2>2
      <4> DEFINE a == x + offset
                 b == y
      <4> HIDE DEF a, b
      <4>3. strip(a, b) = IF a < w THEN from[<<a, b>>] ELSE to[<<a - w, b>>]
        BY <2>5
      <4> HIDE DEF window, strip
      <4> QED  BY <4>1, <4>2, <4>3 DEF a, b
    <3>4. (x + offset) - w = x + offset - w
      BY <1>5
    <3> QED  BY <3>2, <3>3, <3>4
  <2>6. CASE type = "slide_right"
    <3>1. slid(p) = IF x >= offset THEN Source("from", x - offset, y)
                    ELSE Source("to", w - offset + x, y)
      BY <2>2, <2>6 DEF SlideSource, slid
    <3>2. Pixels[p] = IF x >= offset THEN from[<<x - offset, y>>]
                      ELSE to[<<w - offset + x, y>>]
      BY <2>4, <3>1
    <3>3. window(offset, p) = IF x + w - offset < w THEN to[<<x + w - offset, y>>]
                              ELSE from[<<(x + w - offset) - w, y>>]
      <4>1. window(offset, p) = strip(p[1] + w - offset, p[2])
        BY <2>6
      <4>2. strip(p[1] + w - offset, p[2]) = strip(x + w - offset, y)
        <5> HIDE DEF strip
        <5> QED  BY <2>2
      <4> DEFINE a == x + w - offset
                 b == y
      <4> HIDE DEF a, b
      <4>3. strip(a, b) = IF a < w THEN to[<<a, b>>] ELSE from[<<a - w, b>>]
        BY <2>6
      <4> HIDE DEF window, strip
      <4> QED  BY <4>1, <4>2, <4>3 DEF a, b
    <3>4. /\ x + w - offset < w <=> ~(x >= offset)
          /\ x + w - offset = w - offset + x /\ (x + w - offset) - w = x - offset
      BY <1>5
    <3> QED  BY <3>2, <3>3, <3>4
  <2>7. CASE type = "slide_up"
    <3>1. slid(p) = IF y + offset < h THEN Source("from", x, y + offset)
                    ELSE Source("to", x, y + offset - h)
      BY <2>2, <2>7 DEF SlideSource, slid
    <3>2. Pixels[p] = IF y + offset < h THEN from[<<x, y + offset>>]
                      ELSE to[<<x, y + offset - h>>]
      BY <2>4, <3>1
    <3>3. window(offset, p) = IF y + offset < h THEN from[<<x, y + offset>>]
                              ELSE to[<<x, (y + offset) - h>>]
      <4>1. window(offset, p) = strip(p[1], p[2] + offset)
        BY <2>7
      <4>2. strip(p[1], p[2] + offset) = strip(x, y + offset)
        <5> HIDE DEF strip
        <5> QED  BY <2>2
      <4> DEFINE a == x
                 b == y + offset
      <4> HIDE DEF a, b
      <4>3. strip(a, b) = IF b < h THEN from[<<a, b>>] ELSE to[<<a, b - h>>]
        BY <2>7
      <4> HIDE DEF window, strip
      <4> QED  BY <4>1, <4>2, <4>3 DEF a, b
    <3>4. (y + offset) - h = y + offset - h
      BY <1>5
    <3> QED  BY <3>2, <3>3, <3>4
  <2>8. CASE type \notin {"slide_left", "slide_right", "slide_up"}
    <3>1. slid(p) = IF y >= offset THEN Source("from", x, y - offset)
                    ELSE Source("to", x, h - offset + y)
      BY <2>2, <2>8 DEF SlideSource, slid
    <3>2. Pixels[p] = IF y >= offset THEN from[<<x, y - offset>>]
                      ELSE to[<<x, h - offset + y>>]
      BY <2>4, <3>1
    <3>3. window(offset, p) = IF y + h - offset < h THEN to[<<x, y + h - offset>>]
                              ELSE from[<<x, (y + h - offset) - h>>]
      <4>1. window(offset, p) = strip(p[1], p[2] + h - offset)
        BY <2>8
      <4>2. strip(p[1], p[2] + h - offset) = strip(x, y + h - offset)
        <5> HIDE DEF strip
        <5> QED  BY <2>2
      <4> DEFINE a == x
                 b == y + h - offset
      <4> HIDE DEF a, b
      <4>3. strip(a, b) = IF b < h THEN to[<<a, b>>] ELSE from[<<a, b - h>>]
        BY <2>8
      <4> HIDE DEF window, strip
      <4> QED  BY <4>1, <4>2, <4>3 DEF a, b
    <3>4. /\ y + h - offset < h <=> ~(y >= offset)
          /\ y + h - offset = h - offset + y /\ (y + h - offset) - h = y - offset
      BY <1>5
    <3> QED  BY <3>2, <3>3, <3>4
  <2> QED  BY <2>5, <2>6, <2>7, <2>8
<1> HIDE DEF window, exact
<1> QED  BY <1>1, <1>3, <1>6

\* A fade stays between the two pictures, and begins with the first.
LEMMA FadeShown ==
    ASSUME NEW P, NEW from \in [P -> Inks], NEW to \in [P -> Inks],
           NEW duration \in Nat \ {0}, NEW moment \in 1..duration, NEW short,
           Pixels = Composed(Config.display, from, to, "fade", moment - 1, duration, short)
    PROVE  FadesBetween(from, to, moment)
<1> DEFINE n == moment - 1
<1>1. Pixels = [p \in DOMAIN from |-> Blend(from[p], to[p], n, duration, short)]
  BY Zenon DEF Composed
<1>2. n \in 0..duration /\ (moment = 1 => n = 0)
  OBVIOUS
<1> HIDE DEF n
<1>3. ASSUME NEW p \in DOMAIN Pixels
      PROVE  /\ moment = 1 => Pixels[p] = from[p]
             /\ Pixels[p] \in Lowest(from[p], to[p])..Highest(from[p], to[p])
  <2> DEFINE a == from[p]
             b == to[p]
  <2>1. Pixels[p] = Blend(a, b, n, duration, short)
    BY <1>1
  <2>2. a \in Nat /\ b \in Nat
    <3>1. p \in P
      BY <1>1
    <3>2. \A x \in Inks : x \in Nat
      BY FieldsAssumption DEF Inks
    <3> QED  BY <3>1, <3>2
  <2> HIDE DEF a, b
  <2>3. /\ Blend(a, b, n, duration, short) \in Lowest(a, b)..Highest(a, b)
        /\ n = 0 => Blend(a, b, n, duration, short) = a
    BY <1>2, <2>2, BlendBetween
  <2> QED  BY <1>2, <2>1, <2>3 DEF a, b
<1> QED  BY <1>3, Zenon DEF FadesBetween

\* A deck that can be shown shows what its schedule says.
LEMMA DeckShown ==
    ASSUME Showable(Config), Len(Config.cards) > 1, now \in Nat, NEW short,
           Ready(Config, states, now, short), Pixels = Render(Config, states, now, short).pixels
    PROVE  LET cards == Config.cards
               turns == Schedule(cards)
               turn  == turns[(now % Len(turns)) + 1]
               move  == cards[turn.card].transition
               next  == (turn.card % Len(cards)) + 1
               alone(i) == RenderContent(Config, states, cards[i].content, now, short).pixels
           IN  CASE turn.moment = 0 -> Pixels = alone(turn.card)
                 [] turn.moment > 0 /\ move.type = "fade" ->
                      FadesBetween(alone(turn.card), alone(next), turn.moment)
                 [] OTHER -> SlidesOn(move.type, alone(turn.card), alone(next),
                                      turn.moment, move.duration)
<1> DEFINE cards    == Config.cards
           display  == Config.display
           n        == Len(cards)
           position == Position(cards, now)
           i        == Active(cards, position)
           since    == position - Begins(cards, i)
           after    == (i % n) + 1
           turns    == Schedule(cards)
           turn     == turns[(now % Len(turns)) + 1]
           shot(k)  == RenderContent(Config, states, cards[k].content, now, short)
           alone(k) == shot(k).pixels
           move     == cards[i].transition
           hold     == cards[i].hold
           from     == shot(i)
           to       == shot(after)
           way      == cards[turn.card].transition
           first    == alone(turn.card)
           second   == alone((turn.card % n) + 1)
<1> SUFFICES CASE turn.moment = 0 -> Pixels = first
               [] turn.moment > 0 /\ way.type = "fade" -> FadesBetween(first, second, turn.moment)
               [] OTHER -> SlidesOn(way.type, first, second, turn.moment, way.duration)
  OBVIOUS
<1>1. Sized(display) /\ Timed(cards) /\ n \in Nat /\ n > 1
  BY DEF Showable, Timed
<1>2. /\ i \in 1..n /\ since \in Nat
      /\ since < hold => turn = [card |-> i, moment |-> 0]
      /\ since >= hold => /\ since - hold < move.duration
                          /\ turn = [card |-> i, moment |-> since - hold + 1]
  <2> HIDE DEF cards
  <2> QED  BY <1>1, TurnDue
<1>3. /\ hold \in Nat /\ move.duration \in Nat
      /\ move.type = "instant" => move.duration = 0
  BY <1>1, <1>2 DEF Timed, MoveMade
<1>4. after \in 1..n
  <2> HIDE DEF i, n
  <2> QED  BY <1>1, <1>2
<1>5. ASSUME NEW k \in 1..n
      PROVE  /\ shot(k).success = TRUE
             /\ alone(k) \in [Points(display.width, display.height) -> Inks]
  <2>1. shot(k) \in Shot(display)
    BY <1>1, ContentRendered DEF Showable
  <2> QED  BY <2>1 DEF Shot
<1>6. Render(Config, states, now, short) = DeckPicture(display, cards[i], since, from, to, short)
  BY <1>1 DEF Render, RenderDeck
<1>7. from.success = TRUE /\ to.success = TRUE
  BY <1>2, <1>4, <1>5
<1>8. turn.card = i => way = move /\ first = alone(i) /\ second = alone(after)
  OBVIOUS
<1>9. Pixels = DeckPicture(display, cards[i], since, from, to, short).pixels
  BY <1>6
<1> HIDE DEF i, since, turn, shot, cards, way, first, second, after
<1>10. CASE since < hold
  <2>1. turn.card = i /\ turn.moment = 0
    BY <1>2, <1>10
  <2>2. Pixels = from.pixels
    BY <1>9, <1>10 DEF DeckPicture
  <2> QED  BY <1>8, <2>1, <2>2
<1>11. CASE since >= hold
  <2> DEFINE moment   == since - hold + 1
             duration == move.duration
             type     == move.type
             a        == alone(i)
             b        == alone(after)
  <2>1. /\ turn.card = i /\ turn.moment = moment
        /\ way.type = type /\ way.duration = duration /\ first = a /\ second = b
    BY <1>2, <1>8, <1>11
  <2>2. /\ moment \in 1..duration /\ duration \in Nat \ {0} /\ moment > 0 /\ moment # 0
        /\ moment - 1 = since - hold
    BY <1>2, <1>3, <1>11, SMTT(30)
  <2>3. Pixels = Composed(display, a, b, type, moment - 1, duration, short)
    <3>1. ~(since < hold) /\ duration # 0 /\ type # "instant"
      BY <1>2, <1>3, <1>11, <2>2
    <3>2. DeckPicture(display, cards[i], since, from, to, short)
              = [success |-> TRUE,
                 pixels  |-> Composed(display, a, b, type, since - hold, duration, short)]
      BY <1>7, <3>1 DEF DeckPicture
    <3> QED  BY <1>9, <2>2, <3>2
  <2>4. /\ a \in [Points(display.width, display.height) -> Inks]
        /\ b \in [Points(display.width, display.height) -> Inks]
    BY <1>2, <1>4, <1>5
  <2> HIDE DEF moment, duration, type, a, b
  <2>5. CASE type = "fade"
    <3>1. FadesBetween(a, b, moment)
      BY <2>2, <2>3, <2>4, <2>5, FadeShown
    <3> QED  BY <2>1, <2>2, <2>5, <3>1
  <2>6. CASE type # "fade"
    <3>1. DOMAIN a = Points(display.width, display.height)
      BY <2>4
    <3>2. SlidesOn(type, a, b, moment, duration)
      BY <1>1, <2>2, <2>3, <2>6, <3>1, SlideShown
    <3> QED  BY <2>1, <2>2, <2>6, <3>2
  <2> QED  BY <2>5, <2>6
<1> QED  BY <1>2, <1>3, <1>10, <1>11
-----------------------------------------------------------------------------
(* The program that loads a file. *)

\* A configuration that was loaded can be shown.
LEMMA ConfigLoaded ==
    ASSUME PhaseSound, config # {}
    PROVE  Config \in LoadConfig(case.file)
<1>1. Config \in config
  BY TheElement DEF Config
<1> QED  BY <1>1 DEF PhaseSound

\* So what it says of monitors can be made.
LEMMA MonitorsLoaded ==
    ASSUME PhaseSound, config # {}
    PROVE  MonitorsMade(Config.monitors, Config.statuses)
<1>1. Config \in LoadConfig(case.file)
  BY ConfigLoaded
<1>2. \A root \in case.file : WrittenOnce(root)
  BY CasesAssumption DEF PhaseSound
<1> QED  BY <1>1, <1>2, ConfigMonitors

\* A state that is written now leaves the store sound, and no picture of it.
LEMMA WriteSound ==
    ASSUME StatesSound, NEW source, NEW name, NEW ttl \in Optional(Nat), NEW value, OnScale(value),
           Write(source, [status |-> name, updated_at |-> now, ttl |-> ttl], value), now' = now
    PROVE  StatesSound' /\ PictureSound'
<1> DEFINE state    == [status |-> name, updated_at |-> now, ttl |-> ttl]
           existing == {s.entry : s \in states[source]}
           written  == NewEntry(existing, state)
           new      == [entry |-> written, value |-> value]
<1>1. states' = [states EXCEPT ![source] = {new}] /\ picture' = {}
  BY DEF Write
<1>2. now \in Nat /\ Scaled(states) /\ Dated(states, now)
  BY DEF StatesSound
<1>3. ASSUME source \in DOMAIN states
      PROVE  /\ written.updated_at \in 0..now /\ written.entered_at \in 0..now
             /\ written.ttl \in Optional(Nat)
  <2>1. \A e \in existing : e.entered_at \in 0..now
    BY <1>2, <1>3 DEF Dated
  <2>2. /\ written.updated_at = now /\ written.ttl = ttl
        /\ written.entered_at = EnteredAt(existing, state)
    BY DEF NewEntry
  <2>3. state.updated_at = now
    OBVIOUS
  <2> HIDE DEF existing, written, state
  <2>4. EnteredAt(existing, state) \in 0..now
    <3>1. CASE \E e \in existing : KeepsEpoch(e, state)
      <4>1. EnteredAt(existing, state) = The(existing).entered_at /\ existing # {}
        BY <3>1 DEF EnteredAt
      <4> QED  BY <2>1, <4>1, TheElement
    <3>2. CASE ~\E e \in existing : KeepsEpoch(e, state)
      <4>1. EnteredAt(existing, state) = now
        BY <2>3, <3>2 DEF EnteredAt
      <4> QED  BY <1>2, <4>1
    <3> QED  BY <3>1, <3>2
  <2> QED  BY <1>2, <2>2, <2>4
<1>4. new.entry = written /\ new.value = value
  OBVIOUS
<1> HIDE DEF new, written
<1>5. Scaled(states')
  BY <1>1, <1>2, <1>4 DEF Scaled
<1>6. Dated(states', now)
  <2> SUFFICES ASSUME NEW other \in DOMAIN states'
               PROVE  /\ Once(states'[other])
                      /\ \A s \in states'[other] :
                            /\ s.entry.updated_at \in 0..now
                            /\ s.entry.entered_at \in 0..now
                            /\ s.entry.ttl \in Optional(Nat)
    BY DEF Dated
  <2>1. CASE other = source
    <3>1. source \in DOMAIN states /\ states'[other] = {new}
      BY <1>1, <2>1
    <3> QED  BY <1>3, <1>4, <3>1 DEF Once
  <2>2. CASE other # source
    <3>1. other \in DOMAIN states /\ states'[other] = states[other]
      BY <1>1, <2>2
    <3> QED  BY <1>2, <3>1 DEF Dated
  <2> QED  BY <2>1, <2>2
<1> QED  BY <1>1, <1>2, <1>5, <1>6 DEF StatesSound, PictureSound

\* It holds when the program starts, and every step of main keeps it.
LEMMA DocumentsInit == Init => DocumentsSound
<1> SUFFICES ASSUME Init PROVE DocumentsSound
  OBVIOUS
<1> USE DEF Init
<1>1. PhaseSound
  BY DEF PhaseSound
<1>2. StatesSound
  <2>1. \A source \in DOMAIN states : states[source] = {}
    OBVIOUS
  <2> QED  BY <2>1 DEF StatesSound, Scaled, Dated, Once
<1>3. ObservedSound /\ PictureSound
  BY DEF ObservedSound, PictureSound
<1> QED  BY <1>1, <1>2, <1>3 DEF DocumentsSound

\* Every step of main keeps it.
LEMMA DocumentsStep == DocumentsSound /\ [Next]_vars => DocumentsSound'
<1> SUFFICES ASSUME DocumentsSound, [Next]_vars PROVE DocumentsSound'
  OBVIOUS
<1>0. PhaseSound /\ StatesSound /\ ObservedSound /\ PictureSound
  BY DEF DocumentsSound
<1>1. CASE Load
  <2>1. /\ phase = "written" /\ config' = LoadConfig(case.file) /\ case' = case
        /\ phase' = IF config' = {} THEN "rejected" ELSE "accepted"
        /\ states' = states /\ now' = now /\ observed' = observed /\ picture' = picture
    BY <1>1 DEF Load
  <2>2. PhaseSound'
    BY <1>0, <2>1 DEF PhaseSound
  <2>3. ObservedSound'
    BY <1>0, <2>1 DEF ObservedSound
  <2>4. StatesSound' /\ PictureSound'
    BY <1>0, <2>1 DEF StatesSound, PictureSound
  <2> QED  BY <2>2, <2>3, <2>4 DEF DocumentsSound
<1>2. CASE Start
  <2>1. /\ phase = "accepted" /\ config' = config /\ case' = case
        /\ phase' = IF Starts(Config.monitors) THEN "running" ELSE "stopped"
        /\ states' = states /\ now' = now /\ observed' = observed /\ picture' = picture
    BY <1>2 DEF Start, Config
  <2>2. PhaseSound'
    BY <1>0, <2>1 DEF PhaseSound, Config
  <2>3. ObservedSound'
    BY <1>0, <2>1 DEF ObservedSound
  <2>4. StatesSound' /\ PictureSound'
    BY <1>0, <2>1 DEF StatesSound, PictureSound
  <2> QED  BY <2>2, <2>3, <2>4 DEF DocumentsSound
<1>3. CASE Judge
  <2> DEFINE m == Config.monitors[1]
  <2>1. /\ phase = "running" /\ Config.monitors # <<>>
        /\ case' = case /\ phase' = phase /\ config' = config /\ now' = now
        /\ \E response \in case.responses : observed' = {HttpResult(m.source, response)}
        /\ \E s \in PolicyStatuses(m.policy) :
              /\ IsOutcome(The(observed'), m.policy, s)
              /\ status' = s
              /\ Write(m.id, [status |-> s, updated_at |-> now, ttl |-> m.ttl],
                       The(observed').value)
    BY <1>3 DEF Judge, Config
  <2>2. PhaseSound'
    BY <1>0, <2>1 DEF PhaseSound, Config
  <2>3. /\ status' \in PolicyStatuses(m.policy)
        /\ IsOutcome(The(observed'), m.policy, status')
        /\ Write(m.id, [status |-> status', updated_at |-> now, ttl |-> m.ttl],
                 The(observed').value)
    BY <2>1
  <2>4. PICK response \in case.responses : observed' = {HttpResult(m.source, response)}
    BY <2>1
  <2>5. OnScale(The(observed').value)
    <3>1. case \in Cases
      BY <1>0 DEF PhaseSound
    <3>2. OnScale(HttpResult(m.source, response).value)
      BY <3>1, ObservedScaled
    <3>3. The(observed') = HttpResult(m.source, response)
      BY <2>4, TheSingleton
    <3> QED  BY <3>2, <3>3
  <2>6. m.ttl \in Optional(Nat)
    <3>1. MonitorsMade(Config.monitors, Config.statuses)
      BY <1>0, <2>1, MonitorsLoaded DEF PhaseSound
    <3> DEFINE monitors == Config.monitors
    <3> HIDE DEF monitors
    <3>2. MonitorsMade(monitors, Config.statuses) /\ monitors # <<>>
      BY <2>1, <3>1 DEF monitors
    <3>3. 1 \in 1..Len(monitors)
      BY <3>2, EmptySeq DEF MonitorsMade
    <3>4. monitors[1].ttl \in Optional(Nat \ {0})
      BY <3>2, <3>3 DEF MonitorsMade, MonitorMade
    <3> QED  BY <3>4 DEF Optional, monitors
  <2>7. StatesSound' /\ PictureSound'
    <3> DEFINE ttl   == m.ttl
               id    == m.id
               value == The(observed').value
               name  == status'
    <3>1. /\ Write(id, [status |-> name, updated_at |-> now, ttl |-> ttl], value)
          /\ ttl \in Optional(Nat) /\ OnScale(value) /\ now' = now
      BY <2>1, <2>3, <2>5, <2>6
    <3> HIDE DEF ttl, id, value, name
    <3> QED  BY <1>0, <3>1, WriteSound
  <2>8. ObservedSound'
    BY <2>1, <2>3, <2>4 DEF ObservedSound, Config
  <2> QED  BY <2>2, <2>7, <2>8 DEF DocumentsSound
<1>4. CASE Report
  <2>1. /\ case' = case /\ phase' = phase /\ config' = config /\ now' = now
        /\ observed' = observed /\ status' = status
        /\ \E r \in case.reports :
              Write(r.source, [status |-> r.status, updated_at |-> now, ttl |-> r.ttl], r.value)
    BY <1>4 DEF Report
  <2>2. PICK r \in case.reports :
            Write(r.source, [status |-> r.status, updated_at |-> now, ttl |-> r.ttl], r.value)
    BY <2>1
  <2>3. OnScale(r.value) /\ r.ttl \in Optional(Nat)
    BY <1>0, CasesAssumption DEF PhaseSound
  <2>4. StatesSound' /\ PictureSound'
    <3> DEFINE ttl   == r.ttl
               id    == r.source
               value == r.value
               name  == r.status
    <3>1. /\ Write(id, [status |-> name, updated_at |-> now, ttl |-> ttl], value)
          /\ ttl \in Optional(Nat) /\ OnScale(value) /\ now' = now
      BY <2>1, <2>2, <2>3
    <3> HIDE DEF ttl, id, value, name
    <3> QED  BY <1>0, <3>1, WriteSound
  <2>5. PhaseSound'
    BY <1>0, <2>1 DEF PhaseSound, Config
  <2>6. ObservedSound'
    BY <1>0, <2>1 DEF ObservedSound, Config
  <2> QED  BY <2>4, <2>5, <2>6 DEF DocumentsSound
<1>5. CASE Draw
  <2>1. /\ phase = "running" /\ now' = now + 1
        /\ case' = case /\ phase' = phase /\ config' = config /\ states' = states
        /\ observed' = observed /\ status' = status
        /\ \E short \in BOOLEAN : picture' = {Render(Config, states, now', short)}
    BY <1>5 DEF Draw, Config
  <2>2. PictureSound'
    BY <2>1 DEF PictureSound, Config
  <2>3. StatesSound'
    <3>1. now \in Nat /\ Scaled(states) /\ Dated(states, now)
      BY <1>0 DEF StatesSound
    <3>2. Dated(states, now + 1)
      <4>1. 0..now \subseteq 0..now + 1
        BY <3>1
      <4> DEFINE S == 0..now
                 T == 0..now + 1
      <4>2. S \subseteq T /\ Dated(states, now)
        BY <3>1, <4>1
      <4> QED  BY <4>2 DEF Dated
    <3> QED  BY <2>1, <3>1, <3>2 DEF StatesSound
  <2>4. PhaseSound'
    BY <1>0, <2>1 DEF PhaseSound, Config
  <2>5. ObservedSound'
    BY <1>0, <2>1 DEF ObservedSound, Config
  <2> QED  BY <2>2, <2>3, <2>4, <2>5 DEF DocumentsSound
<1>6. CASE UNCHANGED vars
  <2>1. /\ case' = case /\ phase' = phase /\ config' = config /\ states' = states
        /\ now' = now /\ observed' = observed /\ status' = status /\ picture' = picture
    BY <1>6 DEF vars
  <2> QED  BY <1>0, <2>1
           DEF DocumentsSound, PhaseSound, StatesSound, ObservedSound, PictureSound, Config
<1> QED  BY <1>1, <1>2, <1>3, <1>4, <1>5, <1>6 DEF Next

\* The inductive invariant of Documents: a configuration is one that LoadConfig gives,
\* main stops only where a monitor cannot be created or registered, what was observed
\* is a response of the case judged by the first monitor's policy, every number of the
\* store can be compared, and every picture was drawn.
THEOREM DocumentsInvariant == Spec => []DocumentsSound
<1>1. Init => DocumentsSound
  BY DocumentsInit
<1>2. DocumentsSound /\ [Next]_vars => DocumentsSound'
  BY DocumentsStep
<1> QED  BY <1>1, <1>2, PTL DEF Spec

\* A monitor of a loaded configuration is created and registered, if its secrets
\* resolve and their values fit.
LEMMA MonitorStarts ==
    ASSUME NEW monitors, NEW statuses, MonitorsMade(monitors, statuses),
           NEW i \in 1..Len(monitors), ~RefusedByHost(monitors[i].source)
    PROVE  Creatable(monitors[i].source) /\ Registers(monitors, i)
<1>1. /\ MonitorMade(monitors[i], statuses)
      /\ \A j \in 1..i - 1 : monitors[j].id # monitors[i].id
      /\ Len(monitors) \in Nat /\ Len(monitors) <= Limit.monitors
  BY DEF MonitorsMade
<1>2. Creatable(monitors[i].source)
  BY <1>1 DEF MonitorMade, SourceMade
<1>3. i <= Limit.monitors
  <2>1. Limit.monitors \in Nat
    BY FieldsAssumption
  <2> QED  BY <1>1, <2>1
<1>4. Registers(monitors, i)
  <2>1. monitors[i].ttl \in Optional(Nat \ {0})
    BY <1>1 DEF MonitorMade
  <2>2. \A t \in monitors[i].ttl : t > 0
    <3> DEFINE ttl == monitors[i].ttl
    <3> HIDE DEF ttl
    <3>1. ttl \in Optional(Nat \ {0})
      BY <2>1 DEF ttl
    <3>2. \A t \in ttl : t > 0
      BY <3>1 DEF Optional
    <3> QED  BY <3>2 DEF ttl
  <2> QED  BY <1>1, <1>3, <2>2 DEF MonitorMade, PolicyMade, Registers
<1> QED  BY <1>2, <1>4

\* What is needed to draw a picture is there whenever one has been drawn.
LEMMA PictureReady ==
    ASSUME DocumentsSound, picture # {}
    PROVE  /\ Showable(Config) /\ StatusesMade(Config, The(Root.statuses))
           /\ now \in Nat /\ Scaled(states) /\ Dated(states, now)
           /\ \A short : Ready(Config, states, now, short)
<1>1. PhaseSound /\ StatesSound /\ phase = "running" /\ config # {}
  BY DEF DocumentsSound, PictureSound, PhaseSound
<1>2. Config \in LoadConfig(case.file)
  BY <1>1, ConfigLoaded
<1>3. Showable(Config)
  BY <1>2, ConfigShowable
<1>4. StatusesMade(Config, The(Root.statuses))
  <2>1. Once(case.file) /\ \A root \in case.file : WrittenOnce(root)
    BY <1>1, CasesAssumption DEF PhaseSound
  <2> QED  BY <1>2, <2>1, ConfigStatuses DEF Root
<1>5. now \in Nat /\ Scaled(states) /\ Dated(states, now)
  BY <1>1 DEF StatesSound
<1>6. \A short : Ready(Config, states, now, short)
  BY <1>4, <1>5, SourcesReady
<1> QED  BY <1>3, <1>4, <1>5, <1>6

\* So every accepted configuration works.
LEMMA WorksWhenSound == DocumentsSound => AcceptedWorks
<1> SUFFICES ASSUME DocumentsSound PROVE AcceptedWorks
  OBVIOUS
<1>0. DocumentsSound /\ PhaseSound /\ ObservedSound /\ PictureSound
  BY DEF DocumentsSound
<1>1. ASSUME config # {} PROVE MonitorsMade(Config.monitors, Config.statuses)
  BY <1>0, <1>1, MonitorsLoaded
<1>2. ASSUME phase = "stopped"
      PROVE  \E i \in DOMAIN Config.monitors : RefusedByHost(Config.monitors[i].source)
  <2>1. config # {} /\ ~Starts(Config.monitors)
    BY <1>0, <1>2 DEF PhaseSound
  <2>2. MonitorsMade(Config.monitors, Config.statuses)
    BY <1>1, <2>1
  <2> DEFINE monitors == Config.monitors
  <2> HIDE DEF monitors
  <2>3. MonitorsMade(monitors, Config.statuses) /\ ~Starts(monitors)
    BY <2>1, <2>2 DEF monitors
  <2>4. DOMAIN monitors = 1..Len(monitors)
    BY <2>3 DEF MonitorsMade
  <2>5. PICK i \in 1..Len(monitors) : ~(Creatable(monitors[i].source) /\ Registers(monitors, i))
    BY <2>3, <2>4 DEF Starts
  <2>6. RefusedByHost(monitors[i].source)
    BY <2>3, <2>5, MonitorStarts
  <2> QED  BY <2>4, <2>6 DEF monitors
<1>3. ASSUME observed # {} PROVE status \in DOMAIN Config.statuses
  <2>1. config # {} /\ Config.monitors # <<>>
        /\ status \in PolicyStatuses(Config.monitors[1].policy)
    BY <1>0, <1>3 DEF PhaseSound, ObservedSound
  <2>2. MonitorsMade(Config.monitors, Config.statuses)
    BY <1>1, <2>1
  <2> DEFINE monitors == Config.monitors
  <2> HIDE DEF monitors
  <2>3. MonitorsMade(monitors, Config.statuses) /\ monitors # <<>>
    BY <2>1, <2>2 DEF monitors
  <2>4. 1 \in 1..Len(monitors)
    BY <2>3, EmptySeq DEF MonitorsMade
  <2>5. PolicyStatuses(monitors[1].policy) \subseteq DOMAIN Config.statuses
    BY <2>3, <2>4 DEF MonitorsMade, MonitorMade, PolicyMade
  <2> QED  BY <2>1, <2>5 DEF monitors
<1>4. ASSUME NEW p \in picture PROVE p.success
  <2>1. PICK short \in BOOLEAN : p = Render(Config, states, now, short)
    BY <1>0, <1>4 DEF PictureSound
  <2>2. Showable(Config) /\ Ready(Config, states, now, short) /\ now \in Nat
    BY <1>0, <1>4, PictureReady
  <2>3. p.success = TRUE
    BY <2>1, <2>2, Shown
  <2> QED  BY <2>3
<1> QED  BY <1>2, <1>3, <1>4 DEF AcceptedWorks

\* A configuration that the loader accepts works, whatever the file: main stops only for
\* a monitor the host lacks something for, every picture can be drawn at every instant,
\* and a monitor never takes a status that has no appearance (load_config_file,
\* create_monitor_runner, MonitorEngine::add, Renderer::render, Evaluator::evaluate).
THEOREM AcceptedAlwaysWorks == Spec => []AcceptedWorks
<1>1. Spec => []DocumentsSound
  BY DocumentsInvariant
<1> QED  BY <1>1, WorksWhenSound, PTL

-----------------------------------------------------------------------------
(* Comparisons. *)

\* A comparison of two numbers is the one of their values.
LEMMA NumbersCompared ==
    ASSUME NEW v, OnScale(v), IsNumber(v), NEW x, OnScale(x), IsNumber(x)
    PROVE  LET a == NumberValue(v)
               b == NumberValue(x)
           IN  /\ a \in Int /\ b \in Int
               /\ Compare(v, "equals", x) <=> a = b
               /\ Compare(v, "less_than", x) <=> a < b
               /\ Compare(v, "less_or_equal", x) <=> a <= b
               /\ Compare(v, "greater_than", x) <=> a > b
               /\ Compare(v, "greater_or_equal", x) <=> a >= b
<1> DEFINE a == NumberValue(v)
           b == NumberValue(x)
           c(op) == [op |-> op, expected |-> x, upper |-> {}]
<1>1. a \in Int /\ b \in Int
  BY DEF OnScale
<1>2. \A op : c(op).op = op /\ c(op).expected = x /\ c(op).upper = {}
  OBVIOUS
<1>3. \A op : Compare(v, op, x) <=> ConditionMatches(v, c(op))
  BY DEF Compare
<1> HIDE DEF c
<1>4. \A op : ConditionMatches(v, c(op)) <=>
          \/ op = "exists"       /\ v.kind # "none"
          \/ op = "not_exists"   /\ v.kind = "none"
          \/ op = "equals"       /\ a = b
          \/ op = "not_equals"   /\ a # b
          \/ op = "contains"     /\ BothText(v, c(op)) /\ Fragment(v, c(op))
          \/ op = "not_contains" /\ BothText(v, c(op)) /\ ~Fragment(v, c(op))
          \/ Ordered(op, a, b)
  BY <1>2 DEF ConditionMatches, ValuesEqual, TextMatches, BothNumber
<1> HIDE DEF a, b
<1>5. Compare(v, "equals", x) <=> a = b
  BY <1>3, <1>4 DEF Ordered
<1>6. /\ Compare(v, "less_than", x) <=> a < b
      /\ Compare(v, "less_or_equal", x) <=> a <= b
  BY <1>3, <1>4 DEF Ordered
<1>7. /\ Compare(v, "greater_than", x) <=> a > b
      /\ Compare(v, "greater_or_equal", x) <=> a >= b
  BY <1>3, <1>4 DEF Ordered
<1> QED  BY <1>1, <1>5, <1>6, <1>7 DEF a, b

\* Between means what it says.
LEMMA NumberBetween ==
    ASSUME NEW v, IsNumber(v), NEW x, IsNumber(x), NEW y, IsNumber(y)
    PROVE  Between(v, x, y) <=> /\ NumberValue(v) >= NumberValue(x)
                                /\ NumberValue(v) <= NumberValue(y)
<1> DEFINE c == [op |-> "between", expected |-> x, upper |-> {y}]
<1>1. c.op = "between" /\ c.expected = x /\ c.upper = {y}
  OBVIOUS
<1>2. Between(v, x, y) <=> ConditionMatches(v, c)
  BY DEF Between
<1> HIDE DEF c
<1> QED  BY <1>1, <1>2 DEF ConditionMatches, TextMatches, BothNumber, Ordered

\* Nothing but a number meets a threshold.
LEMMA NoThresholdMet ==
    ASSUME NEW v, ~IsNumber(v), NEW x, NEW y
    PROVE  /\ \A op \in OrderedComparisons : ~Compare(v, op, x)
           /\ ~Between(v, x, y)
<1> DEFINE c(op) == [op |-> op, expected |-> x, upper |-> {}]
           d     == [op |-> "between", expected |-> x, upper |-> {y}]
<1>1. \A op : c(op).op = op
  OBVIOUS
<1>2. d.op = "between"
  OBVIOUS
<1>3. \A op : Compare(v, op, x) <=> ConditionMatches(v, c(op))
  BY DEF Compare
<1>4. Between(v, x, y) <=> ConditionMatches(v, d)
  BY DEF Between
<1> HIDE DEF c, d
<1>5. ~Between(v, x, y)
  BY <1>2, <1>4 DEF ConditionMatches, TextMatches, BothNumber
<1>6. \A op \in OrderedComparisons : ~Compare(v, op, x)
  BY <1>1, <1>3 DEF ConditionMatches, TextMatches, BothNumber, OrderedComparisons
<1> QED  BY <1>5, <1>6

\* Every value on the scale keeps to the line of numbers.
LEMMA LineFollowed ==
    ASSUME NEW v, OnScale(v)
    PROVE  OnTheLine(v)
<1> SUFFICES ASSUME NEW x \in Numbers
             PROVE  IF IsNumber(v)
                    THEN /\ Cardinality({op \in {"less_than", "equals", "greater_than"} :
                                            Compare(v, op, x)}) = 1
                         /\ Compare(v, "less_or_equal", x)
                              <=> Compare(v, "less_than", x) \/ Compare(v, "equals", x)
                         /\ Compare(v, "greater_or_equal", x) <=> ~Compare(v, "less_than", x)
                         /\ \A y \in Numbers :
                               Between(v, x, y) <=> /\ Compare(v, "greater_or_equal", x)
                                                    /\ Compare(v, "less_or_equal", y)
                    ELSE /\ \A op \in OrderedComparisons : ~Compare(v, op, x)
                         /\ \A y \in Numbers : ~Between(v, x, y)
  BY DEF OnTheLine
<1>1. \A y \in Numbers : IsNumber(y) /\ OnScale(y)
  BY CasesAssumption DEF Numbers
<1>2. CASE ~IsNumber(v)
  BY <1>2, NoThresholdMet
<1>3. CASE IsNumber(v)
  <2> DEFINE a == NumberValue(v)
             b == NumberValue(x)
             met == {op \in {"less_than", "equals", "greater_than"} : Compare(v, op, x)}
  <2>1. /\ a \in Int /\ b \in Int
        /\ Compare(v, "equals", x) <=> a = b
        /\ Compare(v, "less_than", x) <=> a < b
        /\ Compare(v, "less_or_equal", x) <=> a <= b
        /\ Compare(v, "greater_than", x) <=> a > b
        /\ Compare(v, "greater_or_equal", x) <=> a >= b
    BY <1>1, <1>3, NumbersCompared
  <2> HIDE DEF a, b
  <2>2. Cardinality(met) = 1
    <3>1. CASE a < b
      <4>1. met = {"less_than"}
        BY <2>1, <3>1
      <4> QED  BY <4>1, FS_Singleton
    <3>2. CASE a = b
      <4>1. met = {"equals"}
        BY <2>1, <3>2
      <4> QED  BY <4>1, FS_Singleton
    <3>3. CASE a > b
      <4>1. met = {"greater_than"}
        BY <2>1, <3>3
      <4> QED  BY <4>1, FS_Singleton
    <3> QED  BY <2>1, <3>1, <3>2, <3>3
  <2>3. /\ Compare(v, "less_or_equal", x)
             <=> Compare(v, "less_than", x) \/ Compare(v, "equals", x)
        /\ Compare(v, "greater_or_equal", x) <=> ~Compare(v, "less_than", x)
    BY <2>1
  <2>4. ASSUME NEW y \in Numbers
        PROVE  Between(v, x, y) <=> /\ Compare(v, "greater_or_equal", x)
                                    /\ Compare(v, "less_or_equal", y)
    <3>1. IsNumber(y) /\ OnScale(y) /\ IsNumber(x)
      BY <1>1
    <3>2. Compare(v, "less_or_equal", y) <=> a <= NumberValue(y)
      BY <1>3, <3>1, NumbersCompared DEF a
    <3>3. Between(v, x, y) <=> a >= b /\ a <= NumberValue(y)
      BY <1>3, <3>1, NumberBetween DEF a, b
    <3> QED  BY <2>1, <3>2, <3>3
  <2> HIDE DEF met
  <2>5. /\ Cardinality({op \in {"less_than", "equals", "greater_than"} : Compare(v, op, x)}) = 1
        /\ \A y \in Numbers :
              Between(v, x, y) <=> /\ Compare(v, "greater_or_equal", x)
                                   /\ Compare(v, "less_or_equal", y)
    BY <2>2, <2>4 DEF met
  <2> QED  BY <1>3, <2>3, <2>5
<1> QED  BY <1>2, <1>3

\* A condition on texts and its complement divide the texts.
LEMMA TextsDivided ==
    ASSUME NEW v, NEW x
    PROVE  /\ Compare(v, "equals", x) <=> ~Compare(v, "not_equals", x)
           /\ IsText(x) => (IsText(v) <=> (Compare(v, "contains", x)
                                             <=> ~Compare(v, "not_contains", x)))
<1> DEFINE c(op) == [op |-> op, expected |-> x, upper |-> {}]
<1>1. \A op : c(op).op = op /\ c(op).expected = x
  OBVIOUS
<1>2. \A op : Compare(v, op, x) <=> ConditionMatches(v, c(op))
  BY DEF Compare
<1> HIDE DEF c
<1>3. /\ ConditionMatches(v, c("equals")) <=> ValuesEqual(v, x)
      /\ ConditionMatches(v, c("not_equals")) <=> ~ValuesEqual(v, x)
  BY <1>1 DEF ConditionMatches, TextMatches, Ordered
<1>4. /\ ConditionMatches(v, c("contains"))
            <=> IsText(v) /\ IsText(x) /\ x.parts \subseteq v.parts
      /\ ConditionMatches(v, c("not_contains"))
            <=> IsText(v) /\ IsText(x) /\ ~(x.parts \subseteq v.parts)
  BY <1>1 DEF ConditionMatches, TextMatches, BothText, Fragment, Ordered
<1> QED  BY <1>2, <1>3, <1>4

\* What was observed last is an outcome of the first monitor's policy.
LEMMA ObservedNow ==
    ASSUME DocumentsSound, NEW result \in observed
    PROVE  /\ result = The(observed) /\ OnScale(result.value)
           /\ MonitorsMade(Config.monitors, Config.statuses) /\ Config.monitors # <<>>
           /\ IsOutcome(result, Config.monitors[1].policy, status)
<1>1. PhaseSound /\ ObservedSound /\ observed # {}
  BY DEF DocumentsSound
<1>2. PICK response \in case.responses :
        observed = {HttpResult(Config.monitors[1].source, response)}
  BY <1>1 DEF ObservedSound
<1>3. result = HttpResult(Config.monitors[1].source, response) /\ result = The(observed)
  BY <1>2, TheSingleton
<1>4. OnScale(result.value)
  <2>1. case \in Cases
    BY <1>1 DEF PhaseSound
  <2>2. OnScale(HttpResult(Config.monitors[1].source, response).value)
    BY <2>1, ObservedScaled
  <2> QED  BY <1>3, <2>2
<1>5. config # {} /\ Config.monitors # <<>>
  BY <1>1 DEF PhaseSound, ObservedSound
<1>6. MonitorsMade(Config.monitors, Config.statuses)
  BY <1>1, <1>5, MonitorsLoaded
<1>7. IsOutcome(result, Config.monitors[1].policy, status)
  BY <1>1, <1>3 DEF ObservedSound
<1> QED  BY <1>3, <1>4, <1>5, <1>6, <1>7

\* The comparisons of whatever was observed are the ordered line on numbers, and no
\* threshold is met by anything else (condition_matches).
THEOREM ThresholdsAlwaysFollow == Spec => []ThresholdsFollowTheLine
<1>1. DocumentsSound => ThresholdsFollowTheLine
  BY ObservedNow, LineFollowed, TextsDivided DEF ThresholdsFollowTheLine
<1>2. Spec => []DocumentsSound
  BY DocumentsInvariant
<1> QED  BY <1>1, <1>2, PTL

-----------------------------------------------------------------------------
(* The scan of a policy's rules. *)

\* The scan of the rules stops at the first that matches.
LEMMA ScanStops ==
    ASSUME NEW policy, \E U : policy.rules \in Seq(U), NEW value
    PROVE  ScansTo(policy, value, 1, Scan(policy, value))
<1> DEFINE rules == policy.rules
           n     == Len(rules)
           next(i, x) == IF RuleMatches(rules[i], value) THEN rules[i].status ELSE x
           P(f)  == f = [i \in 1..n + 1 |-> IF i > n THEN policy.no_match ELSE next(i, f[i + 1])]
           from  == CHOOSE f : P(f)
           A     == {policy.no_match} \cup {rules[i].status : i \in 1..n}
           F     == [k \in 1..n |-> [x \in A |-> next(n + 1 - k, x)]]
<1>1. n \in Nat
  OBVIOUS
<1>2. Scan(policy, value) = from[1]
  BY DEF Scan, RuleMatches
<1>3. policy.no_match \in A
  OBVIOUS
<1>4. \A i \in 1..n : rules[i].status \in A
  OBVIOUS
<1> HIDE DEF A, n
<1>5. Stepwise(n, A, policy.no_match, F)
  <2>1. ASSUME NEW k \in 1..n, NEW x \in A PROVE next(n + 1 - k, x) \in A
    <3>1. n + 1 - k \in 1..n
      BY <1>1
    <3> QED  BY <1>4, <3>1
  <2> HIDE DEF next
  <2> QED  BY <1>1, <1>3, <2>1 DEF Stepwise
<1>6. PICK g \in [0..n -> A] :
          g[0] = policy.no_match /\ \A k \in 1..n : g[k] = F[k][g[k - 1]]
  <2> DEFINE a == policy.no_match
  <2> HIDE DEF a, F
  <2>1. Stepwise(n, A, a, F)
    BY <1>5 DEF a
  <2>2. \E g \in [0..n -> A] : g[0] = a /\ \A k \in 1..n : g[k] = F[k][g[k - 1]]
    BY <2>1, Recursion
  <2> QED  BY <2>2 DEF a
<1>7. \E f : P(f)
  <2> DEFINE f == [i \in 1..n + 1 |-> g[n + 1 - i]]
  <2>1. ASSUME NEW i \in 1..n + 1
        PROVE  f[i] = IF i > n THEN policy.no_match ELSE next(i, f[i + 1])
    <3>1. CASE i > n
      <4>1. n + 1 - i = 0
        BY <1>1, <3>1
      <4> QED  BY <1>6, <3>1, <4>1
    <3>2. CASE ~(i > n)
      <4>1. /\ i + 1 \in 1..n + 1 /\ n + 1 - i \in 1..n /\ (n + 1 - i) - 1 = n + 1 - (i + 1)
            /\ n + 1 - (n + 1 - i) = i /\ n + 1 - (i + 1) \in 0..n
        BY <1>1, <3>2
      <4> DEFINE k == n + 1 - i
      <4>2. g[k] = F[k][g[k - 1]] /\ k \in 1..n /\ g[k - 1] \in A
        BY <1>6, <4>1
      <4>3. F[k][g[k - 1]] = next(n + 1 - k, g[k - 1])
        <5> HIDE DEF next, k
        <5> QED  BY <4>2
      <4>4. f[i] = g[k] /\ f[i + 1] = g[k - 1] /\ n + 1 - k = i
        BY <4>1
      <4> HIDE DEF f, k, next, F
      <4> QED  BY <3>2, <4>2, <4>3, <4>4
    <3> QED  BY <3>1, <3>2
  <2>2. f = [i \in 1..n + 1 |-> f[i]]
    OBVIOUS
  <2> HIDE DEF f, next
  <2>3. P(f)
    BY <2>1, <2>2
  <2> QED  BY <2>3
<1>8. P(from)
  <2> HIDE DEF P
  <2> QED  BY <1>7, Zenon
<1> HIDE DEF from
<1> DEFINE S == {k \in 0..n : ScansTo(policy, value, n + 1 - k, from[n + 1 - k])}
<1>9. 0 \in S
  <2>1. n + 1 - 0 = n + 1 /\ n + 1 > n /\ n + 1 \in 1..n + 1 /\ 0 \in 0..n
    BY <1>1
  <2>2. from[n + 1] = policy.no_match
    BY <1>8, <2>1
  <2>3. \A j \in n + 1..n : FALSE
    BY <1>1
  <2>4. ScansTo(policy, value, n + 1, from[n + 1])
    BY <2>2, <2>3 DEF ScansTo, n
  <2> QED  BY <2>1, <2>4
<1>10. ASSUME NEW k \in 0..n - 1, k \in S PROVE k + 1 \in S
  <2> DEFINE i == n + 1 - (k + 1)
  <2>1. /\ i \in 1..n /\ i \in 1..n + 1 /\ ~(i > n) /\ i + 1 = n + 1 - k /\ k + 1 \in 0..n
        /\ i \in Nat
    BY <1>1
  <2>2. from[i] = next(i, from[i + 1])
    <3> HIDE DEF next, i
    <3> QED  BY <1>8, <2>1
  <2>3. ScansTo(policy, value, i + 1, from[i + 1])
    <3>1. ScansTo(policy, value, n + 1 - k, from[n + 1 - k])
      BY <1>10
    <3> HIDE DEF i
    <3> QED  BY <2>1, <3>1
  <2> HIDE DEF i
  <2>4. /\ (\A j \in i + 1..n : ~RuleMatches(rules[j], value)) => from[i + 1] = policy.no_match
        /\ \A j \in i + 1..n :
              /\ RuleMatches(rules[j], value)
              /\ \A l \in i + 1..j - 1 : ~RuleMatches(rules[l], value)
              => from[i + 1] = rules[j].status
    BY <2>3 DEF ScansTo, n
  <2>5. CASE RuleMatches(rules[i], value)
    <3>1. from[i] = rules[i].status
      BY <2>2, <2>5
    <3>2. ASSUME NEW j \in i..n, \A l \in i..j - 1 : ~RuleMatches(rules[l], value) PROVE j = i
      <4>1. j # i => i \in i..j - 1
        BY <1>1, <2>1
      <4> QED  BY <2>5, <3>2, <4>1
    <3>3. i \in i..n
      BY <1>1, <2>1
    <3>4. ScansTo(policy, value, i, from[i])
      BY <2>5, <3>1, <3>2, <3>3 DEF ScansTo, n
    <3> QED  BY <2>1, <3>4 DEF i
  <2>6. CASE ~RuleMatches(rules[i], value)
    <3>1. from[i] = from[i + 1]
      BY <2>2, <2>6
    <3>2. ASSUME \A j \in i..n : ~RuleMatches(rules[j], value) PROVE from[i] = policy.no_match
      <4>1. \A j \in i + 1..n : j \in i..n
        BY <1>1, <2>1
      <4> QED  BY <2>4, <3>1, <3>2, <4>1
    <3>3. ASSUME NEW j \in i..n, RuleMatches(rules[j], value),
                 \A l \in i..j - 1 : ~RuleMatches(rules[l], value)
          PROVE  from[i] = rules[j].status
      <4>1. j # i
        BY <2>6, <3>3
      <4>2. j \in i + 1..n /\ \A l \in i + 1..j - 1 : l \in i..j - 1
        BY <1>1, <2>1, <4>1
      <4> QED  BY <2>4, <3>1, <3>3, <4>2
    <3>4. ScansTo(policy, value, i, from[i])
      BY <3>2, <3>3 DEF ScansTo, n
    <3> QED  BY <2>1, <3>4 DEF i
  <2> QED  BY <2>5, <2>6
<1> HIDE DEF S
<1>11. \A k \in 0..n : k \in S
  BY <1>1, <1>9, <1>10, Induction
<1>12. n \in 0..n /\ n + 1 - n = 1
  BY <1>1
<1>13. ScansTo(policy, value, 1, from[1])
  BY <1>11, <1>12 DEF S
<1> QED  BY <1>2, <1>13

\* The outcome of a policy is what the scan of its rules stops with.
LEMMA OutcomeScanned ==
    ASSUME NEW policy, \E U : policy.rules \in Seq(U), NEW result, NEW s,
           IsOutcome(result, policy, s)
    PROVE  s = IF result.transport_success THEN Scan(policy, result.value) ELSE policy.failure
<1> DEFINE rules == policy.rules
           n     == Len(rules)
           value == result.value
           x     == Scan(policy, value)
<1>1. n \in Nat /\ DOMAIN rules = 1..n
  OBVIOUS
<1>2. /\ (\A j \in 1..n : ~RuleMatches(rules[j], value)) => x = policy.no_match
      /\ \A j \in 1..n :
            /\ RuleMatches(rules[j], value)
            /\ \A k \in 1..j - 1 : ~RuleMatches(rules[k], value)
            => x = rules[j].status
  <2>1. ScansTo(policy, value, 1, Scan(policy, value))
    BY ScanStops
  <2> HIDE DEF x
  <2> QED  BY <2>1 DEF ScansTo, x
<1>3. CASE ~result.transport_success /\ s = policy.failure
  BY <1>3
<1>4. CASE /\ result.transport_success
           /\ \E i \in Matching(policy, value) :
                 /\ \A j \in Matching(policy, value) : i <= j
                 /\ s = rules[i].status
  <2>1. PICK i \in Matching(policy, value) :
            /\ \A j \in Matching(policy, value) : i <= j
            /\ s = rules[i].status
    BY <1>4
  <2>2. i \in 1..n /\ RuleMatches(rules[i], value)
    BY <1>1 DEF Matching
  <2>3. ASSUME NEW k \in 1..i - 1 PROVE ~RuleMatches(rules[k], value)
    <3>1. k \in 1..n /\ ~(i <= k)
      BY <1>1, <2>2
    <3>2. k \notin Matching(policy, value)
      BY <2>1, <3>1
    <3> QED  BY <1>1, <3>1, <3>2 DEF Matching
  <2>4. x = rules[i].status
    <3> HIDE DEF x
    <3> QED  BY <1>2, <2>2, <2>3
  <2> QED  BY <1>4, <2>1, <2>4
<1>5. CASE /\ result.transport_success
           /\ Matching(policy, value) = {}
           /\ s = policy.no_match
  <2>1. \A j \in 1..n : ~RuleMatches(rules[j], value)
    BY <1>1, <1>5 DEF Matching
  <2>2. x = policy.no_match
    <3> HIDE DEF x
    <3> QED  BY <1>2, <2>1
  <2> QED  BY <1>5, <2>2
<1> QED  BY <1>3, <1>4, <1>5 DEF IsOutcome

\* A JSON pointer that is not found gives no value, which equals nothing.
LEMMA PointerToNothing ==
    ASSUME NEW s, NEW r, r.arrived, s.observe.key = "json_pointer", r.json # {},
           s.observe.pointer \notin DOMAIN The(r.json)
    PROVE  HttpResult(s, r) = Observed(NoValue)
<1>1. The(r.json) = Or(r.json, <<>>)
  BY DEF The, Or
<1> DEFINE json == Or(r.json, <<>>)
           o    == s.observe
<1>2. HttpResult(s, r) = FromJson(o, json)
  BY DEF HttpResult
<1>3. o.pointer \notin DOMAIN json
  BY <1>1
<1> HIDE DEF json, o
<1>4. FromJson(o, json) = Observed(NoValue)
  BY <1>3 DEF FromJson
<1> QED  BY <1>2, <1>4

\* So a judged monitor has the status its rules say.
LEMMA FirstMatchNow == DocumentsSound => FirstMatchWins
<1> SUFFICES ASSUME DocumentsSound, NEW result \in observed
             PROVE  LET m    == Config.monitors[1]
                        json == {r \in case.responses :
                                    r.arrived /\ HttpResult(m.source, r) = result}
                    IN  /\ status = IF result.transport_success THEN Scan(m.policy, result.value)
                                    ELSE m.policy.failure
                        /\ \A r \in json :
                              m.source.observe.key = "json_pointer" /\ r.json # {}
                                /\ m.source.observe.pointer \notin DOMAIN The(r.json)
                              => result = Observed(NoValue)
  BY DEF FirstMatchWins
<1> DEFINE m        == Config.monitors[1]
           monitors == Config.monitors
<1>1. /\ MonitorsMade(monitors, Config.statuses) /\ monitors # <<>>
      /\ IsOutcome(result, m.policy, status)
  BY ObservedNow
<1>2. \E U : m.policy.rules \in Seq(U)
  <2>1. m = monitors[1]
    OBVIOUS
  <2> HIDE DEF m, monitors
  <2>2. 1 \in 1..Len(monitors)
    BY <1>1, EmptySeq DEF MonitorsMade
  <2> QED  BY <1>1, <2>1, <2>2 DEF MonitorsMade, MonitorMade, PolicyMade
<1> DEFINE policy == m.policy
<1>3. status = IF result.transport_success THEN Scan(policy, result.value) ELSE policy.failure
  <2>1. IsOutcome(result, policy, status) /\ \E U : policy.rules \in Seq(U)
    BY <1>1, <1>2
  <2> HIDE DEF policy
  <2> QED  BY <2>1, OutcomeScanned
<1>4. ASSUME NEW r \in case.responses, r.arrived, HttpResult(m.source, r) = result,
             m.source.observe.key = "json_pointer", r.json # {},
             m.source.observe.pointer \notin DOMAIN The(r.json)
      PROVE  result = Observed(NoValue)
  <2> DEFINE s == m.source
  <2>1. HttpResult(s, r) = result /\ s.observe.key = "json_pointer"
        /\ s.observe.pointer \notin DOMAIN The(r.json)
    BY <1>4
  <2> HIDE DEF s
  <2> QED  BY <1>4, <2>1, PointerToNothing
<1> QED  BY <1>3, <1>4

\* The status of a judged monitor is the one a scan of its rules, in the order of the
\* file, stops at; a response that could not be observed gives the failure status, and a
\* pointer that selects nothing a missing value (Evaluator::evaluate,
\* HttpMonitorRunner::run).
THEOREM FirstMatchAlwaysWins == Spec => []FirstMatchWins
<1>1. Spec => []DocumentsSound
  BY DocumentsInvariant
<1> QED  BY <1>1, FirstMatchNow, PTL

-----------------------------------------------------------------------------
(* Indicators through time. *)

\* The indicators of a picture show what is due.
LEMMA AnimationWhenSound == DocumentsSound => AnimationFollowsSteps
<1> SUFFICES ASSUME DocumentsSound, NEW p \in picture, NEW i \in DOMAIN Config.indicators,
                    \A j \in DOMAIN Config.indicators :
                       j > i =>
                          ~Inside(<<Config.indicators[i].rect.x, Config.indicators[i].rect.y>>,
                                  Config.indicators[j].rect)
             PROVE  LET w    == Config.indicators[i]
                        seen == ResolvedState(states, w.source, now)
                        a    == The(The(Root.statuses)[Named(Config, seen)].appearance)
                    IN  p.pixels[<<w.rect.x, w.rect.y>>] \in ColoursDue(a, Since(seen, now))
  BY Zenon DEF AnimationFollowsSteps, Named, Since
<1> DEFINE w       == Config.indicators[i]
           source  == w.source
           seen    == ResolvedState(states, source, now)
           name    == Named(Config, seen)
           elapsed == Since(seen, now)
           objects == The(Root.statuses)
           a       == The(objects[name].appearance)
<1>1. PICK short : picture = {Render(Config, states, now, short)}
  BY DEF DocumentsSound, PictureSound
<1>2. /\ Showable(Config) /\ StatusesMade(Config, objects)
      /\ now \in Nat /\ Scaled(states) /\ Dated(states, now)
  BY PictureReady
<1>3. p = Render(Config, states, now, short)
  BY <1>1
<1>4. p.pixels[<<w.rect.x, w.rect.y>>] = Showing(Config, seen, now, short)
  <2>1. Render(Config, states, now, short).pixels[<<w.rect.x, w.rect.y>>]
           = Showing(Config, seen, now, short)
    <3> HIDE DEF objects
    <3> QED  BY <1>2, IndicatorShown
  <2> QED  BY <1>3, <2>1
<1>5. name \in DOMAIN Config.statuses /\ elapsed \in Nat
  <2> HIDE DEF objects, source
  <2> QED  BY <1>2, SourceSampled
<1>6. AppearanceMade(Config.statuses[name], a)
  <2> HIDE DEF objects, name
  <2> QED  BY <1>2, <1>5 DEF StatusesMade
<1>7. Showing(Config, seen, now, short) \in ColoursDue(a, elapsed)
  <2> DEFINE t == Config.statuses[name]
  <2>1. Showing(Config, seen, now, short) = Sample(t, elapsed, short)
    BY Zenon DEF Showing
  <2>2. AppearanceMade(t, a)
    BY <1>6
  <2> HIDE DEF t, a, elapsed, seen
  <2>3. Sample(t, elapsed, short) \in ColoursDue(a, elapsed)
    BY <1>5, <2>2, ColourDue
  <2> QED  BY <2>1, <2>3
<1> QED  BY <1>4, <1>7

\* An indicator nothing is drawn over shows its source's status the way the file
\* describes it: every colour for exactly as long as it is due, counted from when the
\* source entered the status, or went stale, again and again or once
\* (parse_appearance, TimelineAppearance::sample, sample_source, Renderer::render).
THEOREM AnimationAlwaysFollows == Spec => []AnimationFollowsSteps
<1>1. Spec => []DocumentsSound
  BY DocumentsInvariant
<1> QED  BY <1>1, AnimationWhenSound, PTL

\* The pictures of a deck follow its schedule.
LEMMA DeckWhenSound == DocumentsSound => DeckFollowsSchedule
<1> SUFFICES ASSUME DocumentsSound, picture # {},
                    Len(Or(config, [cards |-> <<>>]).cards) > 1
             PROVE  DeckFollowsSchedule
  BY Zenon DEF DeckFollowsSchedule
<1>1. PICK short : short \in BOOLEAN /\ picture = {Render(Config, states, now, short)}
  BY DEF DocumentsSound, PictureSound
<1>2. Pixels = Render(Config, states, now, short).pixels
  BY <1>1, TheSingleton DEF Pixels
<1>3. Len(Config.cards) > 1
  <2>1. config # {}
    BY DEF DocumentsSound, PictureSound, PhaseSound
  <2>2. Or(config, [cards |-> <<>>]) = Config
    BY <2>1 DEF Or, The, Config
  <2> QED  BY <2>2
<1>4. /\ Showable(Config) /\ now \in Nat
      /\ Ready(Config, states, now, short)
  BY PictureReady
<1>5. LET cards == Config.cards
          turns == Schedule(cards)
          turn  == turns[(now % Len(turns)) + 1]
          move  == cards[turn.card].transition
          next  == (turn.card % Len(cards)) + 1
          alone(i) == RenderContent(Config, states, cards[i].content, now, short).pixels
      IN  CASE turn.moment = 0 -> Pixels = alone(turn.card)
            [] turn.moment > 0 /\ move.type = "fade" ->
                 FadesBetween(alone(turn.card), alone(next), turn.moment)
            [] OTHER -> SlidesOn(move.type, alone(turn.card), alone(next),
                                 turn.moment, move.duration)
  BY <1>2, <1>3, <1>4, DeckShown
<1> QED  BY <1>1, <1>5, Zenon DEF DeckFollowsSchedule

\* At every instant the picture of a deck is what its schedule says: a card alone for
\* as long as it holds, then its transition into the next for as long as that takes,
\* from the last card to the first again (Renderer::render).
THEOREM DeckAlwaysFollows == Spec => []DeckFollowsSchedule
<1>1. Spec => []DocumentsSound
  BY DocumentsInvariant
<1> QED  BY <1>1, DeckWhenSound, PTL

-----------------------------------------------------------------------------
(* Lists in which one element gives way to several.                        *)

\* The total stays if the kids add up to the element they replace.
LEMMA SplicedSum ==
    ASSUME NEW n, NEW s \in [1..n -> Nat], NEW a, NEW m, NEW kids \in [1..m -> Nat],
           NEW t, t \in [1..n + m - 1 -> Nat], Spliced(n, s, a, m, kids, t),
           NEW total, Summed(n, s, total), Summed(m, kids, s[a])
    PROVE  Summed(n + m - 1, t, total)
<1>1. n \in Nat /\ a \in 1..n /\ m \in Nat \ {0} /\ m \in Nat
  BY DEF Spliced
<1>2. PICK f : Summing(n, s, f) /\ f[n] = total
  BY DEF Summed
<1>3. PICK u : Summing(m, kids, u) /\ u[m] = s[a]
  BY DEF Summed
<1>4. /\ f \in [0..n -> Nat] /\ f[0] = 0 /\ \A i \in 1..n : f[i] = f[i - 1] + s[i]
  BY <1>1, <1>2, SumProperties
<1>5. /\ u \in [0..m -> Nat] /\ u[0] = 0 /\ \A i \in 1..m : u[i] = u[i - 1] + kids[i]
  <2> DEFINE x == m
  <2> HIDE DEF x
  <2>1. x \in Nat /\ kids \in [1..x -> Nat] /\ Summing(x, kids, u)
    BY <1>1, <1>3 DEF x
  <2>2. /\ u \in [0..x -> Nat] /\ u[0] = 0 /\ \A i \in 1..x : u[i] = u[i - 1] + kids[i]
    BY <2>1, SumProperties
  <2> QED  BY <2>2 DEF x
<1> DEFINE k == n + m - 1
           g == [i \in 0..k |-> IF i < a THEN f[i]
                                ELSE IF i < a + m THEN f[a - 1] + u[i - a + 1]
                                ELSE f[i - m + 1]]
<1>6. a - 1 \in 0..n /\ f[a] = f[a - 1] + s[a] /\ k \in Nat
  BY <1>1, <1>4
<1>7. g[0] = 0
  BY <1>1, <1>4
<1>8. ASSUME NEW i \in 1..k PROVE g[i] = g[i - 1] + t[i]
  <2>0. i - 1 \in 0..k /\ i \in 0..k
    BY <1>1
  <2>1. CASE i < a
    <3>1. g[i] = f[i] /\ g[i - 1] = f[i - 1] /\ t[i] = s[i] /\ i \in 1..n
      BY <1>1, <2>0, <2>1 DEF Spliced
    <3> HIDE DEF g
    <3> QED  BY <1>4, <3>1
  <2>2. CASE i = a
    <3>1. g[i] = f[a - 1] + u[1] /\ g[i - 1] = f[a - 1]
      BY <1>1, <2>0, <2>2
    <3>2. t[i] = kids[1]
      BY <1>1, <2>2 DEF Spliced
    <3>3. u[1] = kids[1] /\ 1 \in 1..m /\ kids[1] \in Nat /\ f[a - 1] \in Nat
      BY <1>1, <1>4, <1>5, <1>6
    <3> HIDE DEF g
    <3> QED  BY <3>1, <3>2, <3>3
  <2>3. CASE a < i /\ i < a + m
    <3> DEFINE j == i - a + 1
    <3>1. j \in 1..m /\ i - a = j - 1 /\ i - 1 - a + 1 = j - 1
      BY <1>1, <2>3
    <3>2. g[i] = f[a - 1] + u[j] /\ g[i - 1] = f[a - 1] + u[j - 1]
      BY <1>1, <2>0, <2>3, <3>1
    <3>3. t[i] = kids[j]
      BY <1>1, <2>3 DEF Spliced
    <3> HIDE DEF g, j
    <3>4. u[j] = u[j - 1] + kids[j] /\ kids[j] \in Nat /\ f[a - 1] \in Nat
      BY <1>4, <1>5, <1>6, <3>1
    <3>5. j - 1 \in 0..m
      BY <1>1, <3>1
    <3>6. u[j - 1] \in Nat
      BY <1>5, <3>5
    <3> QED  BY <3>2, <3>3, <3>4, <3>6
  <2>4. CASE i = a + m
    <3>1. a + 1 \in 1..n /\ i - m + 1 = a + 1 /\ i - 1 - a + 1 = m
      BY <1>1, <2>4
    <3>2. g[i] = f[a + 1] /\ g[i - 1] = f[a - 1] + u[m]
      BY <1>1, <2>0, <2>4, <3>1
    <3>3. t[i] = s[a + 1]
      BY <1>1, <2>4, <3>1 DEF Spliced
    <3>4. f[a + 1] = f[a] + s[a + 1]
      BY <1>1, <1>4, <3>1
    <3> HIDE DEF g
    <3> QED  BY <1>3, <1>6, <3>2, <3>3, <3>4
  <2>5. CASE a + m < i
    <3> DEFINE j == i - m + 1
    <3>1. j \in 1..n /\ i - m = j - 1 /\ i - 1 - m + 1 = j - 1
      BY <1>1, <2>5
    <3>2. g[i] = f[j] /\ g[i - 1] = f[j - 1]
      BY <1>1, <2>0, <2>5, <3>1
    <3>3. t[i] = s[j]
      BY <1>1, <2>5 DEF Spliced
    <3> HIDE DEF g, j
    <3> QED  BY <1>4, <3>1, <3>2, <3>3
  <2> QED  BY <1>1, <2>1, <2>2, <2>3, <2>4, <2>5
<1>9. g[k] = total
  <2>1. CASE a = n
    <3>1. g[k] = f[a - 1] + u[m]
      BY <1>1, <1>6, <2>1
    <3> HIDE DEF g
    <3> QED  BY <1>2, <1>3, <1>6, <2>1, <3>1
  <2>2. CASE a # n
    <3>1. g[k] = f[n]
      BY <1>1, <1>6, <2>2
    <3> HIDE DEF g
    <3> QED  BY <1>2, <3>1
  <2> QED  BY <2>1, <2>2
<1>10. g = [i \in 0..k |-> IF i = 0 THEN 0 ELSE g[i - 1] + t[i]]
  <2>1. g = [i \in 0..k |-> g[i]]
    OBVIOUS
  <2> HIDE DEF g
  <2>2. \A i \in 0..k : i # 0 => i \in 1..k
    BY <1>6
  <2> HIDE DEF k
  <2> QED  BY <1>7, <1>8, <2>1, <2>2
<1> HIDE DEF g
<1>11. Summing(k, t, g)
  BY <1>10 DEF Summing
<1> QED  BY <1>9, <1>11 DEF Summed

\* Rectangles stay apart if the kids are parts of the one they replace and apart
\* themselves, and meet a point as before if the kids meet it.
LEMMA SplicedPlaces ==
    ASSUME NEW p, NEW n, NEW s, NEW a, NEW m, NEW kids, NEW t, Spliced(n, s, a, m, kids, t),
           \A i \in 1..m : Inside(p, kids[i]) => Inside(p, s[a])
    PROVE  /\ Apart(p, n, s) /\ Apart(p, m, kids) => Apart(p, n + m - 1, t)
           /\ Met(p, n, s) /\ (Inside(p, s[a]) => Met(p, m, kids)) => Met(p, n + m - 1, t)
<1> DEFINE k    == n + m - 1
           from == [i \in 1..k |-> IF i < a THEN i ELSE IF i < a + m THEN a ELSE i - m + 1]
<1>1. n \in Nat /\ a \in 1..n /\ m \in Nat \ {0}
  BY DEF Spliced
<1>2. ASSUME NEW i \in 1..k
      PROVE  /\ from[i] \in 1..n
             /\ Inside(p, t[i]) => Inside(p, s[from[i]])
  <2>1. CASE i < a
    BY <1>1, <2>1 DEF Spliced
  <2>2. CASE a <= i /\ i < a + m
    <3>1. i - a + 1 \in 1..m /\ t[i] = kids[i - a + 1] /\ from[i] = a
      BY <1>1, <2>2 DEF Spliced
    <3> QED  BY <1>1, <3>1
  <2>3. CASE a + m <= i
    <3>1. t[i] = s[i - m + 1] /\ from[i] = i - m + 1 /\ i - m + 1 \in 1..n
      BY <1>1, <2>3 DEF Spliced
    <3> QED  BY <3>1
  <2> QED  BY <1>1, <2>1, <2>2, <2>3
<1>3. ASSUME Apart(p, n, s), Apart(p, m, kids) PROVE Apart(p, k, t)
  <2>1. ASSUME NEW i \in 1..k, NEW j \in 1..k, i # j, Inside(p, t[i]), Inside(p, t[j])
        PROVE  FALSE
    <3>1. from[i] = from[j]
      <4> HIDE DEF from, k
      <4> QED  BY <1>2, <1>3, <2>1 DEF Apart
    <3>2. a <= i /\ i < a + m /\ a <= j /\ j < a + m
      BY <1>1, <2>1, <3>1
    <3>3. /\ i - a + 1 \in 1..m /\ j - a + 1 \in 1..m /\ i - a + 1 # j - a + 1
          /\ t[i] = kids[i - a + 1] /\ t[j] = kids[j - a + 1]
      BY <1>1, <2>1, <3>2 DEF Spliced
    <3> QED  BY <1>3, <2>1, <3>3 DEF Apart
  <2> QED  BY <2>1 DEF Apart
<1>4. ASSUME Met(p, n, s), Inside(p, s[a]) => Met(p, m, kids) PROVE Met(p, k, t)
  <2>1. PICK i \in 1..n : Inside(p, s[i])
    BY <1>4 DEF Met
  <2>2. CASE i < a
    <3>1. i \in 1..k /\ t[i] = s[i]
      BY <1>1, <2>2 DEF Spliced
    <3> QED  BY <2>1, <3>1 DEF Met
  <2>3. CASE i = a
    <3>1. PICK j \in 1..m : Inside(p, kids[j])
      BY <1>4, <2>1, <2>3 DEF Met
    <3>2. a + j - 1 \in 1..k /\ a + j - 1 \in a..a + m - 1 /\ (a + j - 1) - a + 1 = j
      BY <1>1
    <3>3. t[a + j - 1] = kids[j]
      BY <3>2 DEF Spliced
    <3> HIDE DEF k
    <3> QED  BY <3>1, <3>2, <3>3 DEF Met
  <2>4. CASE a < i
    <3>1. /\ i + m - 1 \in 1..k /\ i + m - 1 \in a + m..n + m - 1
          /\ (i + m - 1) - m + 1 = i
      BY <1>1, <2>4
    <3>2. t[i + m - 1] = s[i]
      BY <3>1 DEF Spliced
    <3> HIDE DEF k
    <3> QED  BY <2>1, <3>1, <3>2 DEF Met
  <2> QED  BY <1>1, <2>2, <2>3, <2>4
<1> QED  BY <1>3, <1>4

\* As many ones add up to their number.
LEMMA SumOfOnes ==
    ASSUME NEW n \in Nat, NEW parts, \A i \in 1..n : parts[i] = 1,
           NEW total, Summed(n, parts, total)
    PROVE  total = n
<1>1. PICK f : Summing(n, parts, f) /\ f[n] = total
  BY DEF Summed
<1> DEFINE g == [i \in 0..n |-> i]
<1>2. f[0] = 0 /\ \A i \in 1..n : f[i] = f[i - 1] + 1
  BY <1>1 DEF Summing
<1>3. Upto(n, f) /\ Upto(n, g) /\ f[0] = g[0]
  <2>1. f = [i \in 0..n |-> f[i]]
    BY <1>1 DEF Summing
  <2> QED  BY <1>2, <2>1 DEF Upto
<1>4. ASSUME NEW i \in 1..n, f[i - 1] = g[i - 1] PROVE f[i] = g[i]
  BY <1>2, <1>4
<1>5. n \in 0..n
  OBVIOUS
<1>6. f = g
  <2> HIDE DEF g
  <2> QED  BY <1>3, <1>4, Agreement
<1> QED  BY <1>1, <1>5, <1>6

-----------------------------------------------------------------------------
(* The levels of a tree and the leaves below them. *)

\* A tree may be as deep as Limit says, and Nodes looks one level deeper.
LEMMA DepthNat == Limit.depth \in Nat
  BY FieldsAssumption

\* They are what their definitions say.
LEMMA LevelsKnown == ASSUME NEW root PROVE LevelsUpto(root, Deepest, Levels(root))
<1> DEFINE n == Deepest
           T == {k \in 0..n : \E f : LevelsUpto(root, k, f)}
<1>1. n \in Nat
  BY DepthNat DEF Deepest
<1> HIDE DEF n
<1>2. 0 \in T
  <2> DEFINE f == [i \in 0..0 |-> {root}]
  <2>1. LevelsUpto(root, 0, f)
    BY DEF LevelsUpto
  <2> HIDE DEF f
  <2> QED  BY <1>1, <2>1
<1>3. ASSUME NEW k \in 0..n - 1, k \in T PROVE k + 1 \in T
  <2>1. PICK f : LevelsUpto(root, k, f)
    BY <1>3
  <2> DEFINE next == UNION {ToSet(node.children) : node \in f[k]}
             g == [i \in 0..k + 1 |-> IF i = k + 1 THEN next ELSE f[i]]
  <2>2. k \in Nat /\ k + 1 \in 0..n
    BY <1>1
  <2>3. ASSUME NEW i \in 0..k + 1
        PROVE  g[i] = IF i = 0 THEN {root}
                      ELSE UNION {ToSet(node.children) : node \in g[i - 1]}
    <3>1. CASE i = k + 1
      <4>1. i - 1 = k /\ i # 0 /\ g[i] = next /\ g[k] = f[k]
        BY <2>2, <3>1
      <4> HIDE DEF g
      <4> QED  BY <4>1
    <3>2. CASE i # k + 1
      <4>1. i \in 0..k /\ g[i] = f[i] /\ (i # 0 => g[i - 1] = f[i - 1])
        BY <2>2, <3>2
      <4>2. f[i] = IF i = 0 THEN {root}
                   ELSE UNION {ToSet(node.children) : node \in f[i - 1]}
        BY <2>1, <4>1 DEF LevelsUpto
      <4> HIDE DEF g
      <4> QED  BY <4>1, <4>2
    <3> QED  BY <3>1, <3>2
  <2>4. g = [i \in 0..k + 1 |-> g[i]]
    OBVIOUS
  <2> HIDE DEF g
  <2>5. LevelsUpto(root, k + 1, g)
    BY <2>3, <2>4 DEF LevelsUpto
  <2> QED  BY <2>2, <2>5
<1> HIDE DEF T
<1>4. n \in T
  <2>1. \A k \in 0..n : k \in T
    BY <1>1, <1>2, <1>3, Induction
  <2> QED  BY <1>1, <2>1
<1>5. \E f : LevelsUpto(root, n, f)
  BY <1>4 DEF T
<1> QED  BY <1>5, Zenon DEF Levels, n

\* So are the leaves below a node, the nodes of a tree and all its leaves.
LEMMA BelowKnown == ASSUME NEW root PROVE BelowUpto(Nodes(root), Limit.depth, Below(root))
<1> DEFINE n     == Limit.depth
           nodes == Nodes(root)
           T     == {k \in 0..n : \E f : BelowUpto(nodes, k, f)}
           row(d, before) ==
              [node \in nodes |->
                IF node.type \subseteq {"row", "column", "stack"}
                THEN LET upto[i \in 0..Len(node.children)] ==
                             IF i = 0 THEN 0 ELSE upto[i - 1] + before[node.children[i]]
                     IN  IF d = 0 THEN 0 ELSE upto[Len(node.children)]
                ELSE 1]
<1>1. n \in Nat
  BY DepthNat
<1> HIDE DEF n
<1>0. \A k, f : BelowUpto(nodes, k, f) <=> f = [d \in 0..k |-> row(d, f[d - 1])]
  BY Zenon DEF BelowUpto
<1> HIDE DEF row, nodes
<1>2. 0 \in T
  <2> DEFINE f == [d \in 0..0 |-> row(0, row(0, {}))]
  <2>1. \A before : row(0, before) = row(0, {})
    BY DEF row
  <2>2. f = [d \in 0..0 |-> row(d, f[d - 1])]
    <3>1. \A d \in 0..0 : d = 0 /\ f[d] = row(0, {})
      BY <2>1
    <3>2. \A d \in 0..0 : f[d] = row(d, f[d - 1])
      BY <2>1, <3>1
    <3>3. f = [d \in 0..0 |-> f[d]]
      OBVIOUS
    <3> HIDE DEF f
    <3> QED  BY <3>2, <3>3
  <2> HIDE DEF f
  <2>3. BelowUpto(nodes, 0, f)
    BY <1>0, <2>2
  <2> QED  BY <1>1, <2>3
<1>3. ASSUME NEW k \in 0..n - 1, k \in T PROVE k + 1 \in T
  <2>1. PICK f : BelowUpto(nodes, k, f)
    BY <1>3
  <2>6. f = [d \in 0..k |-> row(d, f[d - 1])]
    BY <1>0, <2>1
  <2> DEFINE next == row(k + 1, f[k])
             g == [i \in 0..k + 1 |-> IF i = k + 1 THEN next ELSE f[i]]
  <2>2. k \in Nat /\ k + 1 \in 0..n
    BY <1>1
  <2>3. ASSUME NEW i \in 0..k + 1 PROVE g[i] = row(i, g[i - 1])
    <3>1. CASE i = k + 1
      <4>1. i - 1 = k /\ i # 0 /\ g[i] = next /\ g[k] = f[k]
        BY <2>2, <3>1
      <4> HIDE DEF g
      <4> QED  BY <3>1, <4>1
    <3>2. CASE i = 0
      <4>1. g[0] = f[0] /\ f[0] = row(0, f[0 - 1])
        BY <2>2, <2>6
      <4>2. \A x, y : row(0, x) = row(0, y)
        BY DEF row
      <4> HIDE DEF g
      <4> QED  BY <3>2, <4>1, <4>2
    <3>3. CASE i # k + 1 /\ i # 0
      <4>1. i \in 0..k /\ g[i] = f[i] /\ g[i - 1] = f[i - 1]
        BY <2>2, <3>3
      <4>2. f[i] = row(i, f[i - 1])
        BY <2>6, <4>1
      <4> HIDE DEF g
      <4> QED  BY <4>1, <4>2
    <3> QED  BY <3>1, <3>2, <3>3
  <2>4. g = [i \in 0..k + 1 |-> row(i, g[i - 1])]
    <3>1. g = [i \in 0..k + 1 |-> g[i]]
      OBVIOUS
    <3> HIDE DEF g
    <3> QED  BY <2>3, <3>1
  <2> HIDE DEF g
  <2>5. BelowUpto(nodes, k + 1, g)
    BY <1>0, <2>4
  <2> QED  BY <2>2, <2>5
<1> HIDE DEF T
<1>4. n \in T
  <2>1. \A k \in 0..n : k \in T
    BY <1>1, <1>2, <1>3, Induction
  <2> QED  BY <1>1, <2>1
<1>5. \E f : BelowUpto(nodes, n, f)
  BY <1>4 DEF T
<1> QED  BY <1>5, Zenon DEF Below, n, nodes

\* Nodes and Leaves are made of them.
LEMMA NodesKnown ==
    ASSUME NEW root PROVE Nodes(root) = UNION {Levels(root)[d] : d \in 0..Deepest}
  BY Zenon DEF Nodes, Levels, LevelsUpto, Deepest

LEMMA LeavesKnown ==
    ASSUME NEW root PROVE Leaves(root) = Below(root)[Limit.depth][root]
  BY Zenon DEF Leaves, Below, BelowUpto

\* Each level is that of the children of the one above it.
LEMMA LevelsStep ==
    ASSUME NEW root, NEW d \in 1..Deepest
    PROVE  Levels(root)[d] = UNION {ToSet(n.children) : n \in Levels(root)[d - 1]}
<1> DEFINE f == Levels(root)
           k == Deepest
<1>1. LevelsUpto(root, k, f)
  BY LevelsKnown
<1>2. k \in Nat
  BY DepthNat DEF Deepest
<1> HIDE DEF f, k
<1>3. f[d] = IF d = 0 THEN {root} ELSE UNION {ToSet(node.children) : node \in f[d - 1]}
  <2>1. d \in 0..k
    BY <1>2 DEF k
  <2>2. f = [i \in 0..k |->
               IF i = 0 THEN {root} ELSE UNION {ToSet(node.children) : node \in f[i - 1]}]
    BY <1>1, Zenon DEF LevelsUpto
  <2> QED  BY <2>1, <2>2, Zenon
<1>4. d # 0
  BY <1>2 DEF k
<1> QED  BY <1>3, <1>4, Zenon DEF f

\* What is below a node is one if it is a leaf, and else what is below its children.
LEMMA BelowStep ==
    ASSUME NEW root, NEW d \in 0..Limit.depth, NEW node \in Nodes(root)
    PROVE  Below(root)[d][node] =
             IF Inner(node)
             THEN LET upto[i \in 0..Len(node.children)] ==
                          IF i = 0 THEN 0
                          ELSE upto[i - 1] + Below(root)[d - 1][node.children[i]]
                  IN  IF d = 0 THEN 0 ELSE upto[Len(node.children)]
             ELSE 1
<1> DEFINE f == Below(root)
           row(e, before) ==
              [n \in Nodes(root) |->
                IF n.type \subseteq {"row", "column", "stack"}
                THEN LET upto[i \in 0..Len(n.children)] ==
                             IF i = 0 THEN 0 ELSE upto[i - 1] + before[n.children[i]]
                     IN  IF e = 0 THEN 0 ELSE upto[Len(n.children)]
                ELSE 1]
<1>1. BelowUpto(Nodes(root), Limit.depth, f)
  BY BelowKnown
<1> HIDE DEF f
<1>2. f = [e \in 0..Limit.depth |-> row(e, f[e - 1])]
  BY <1>1, Zenon DEF BelowUpto
<1> HIDE DEF row
<1>3. f[d] = row(d, f[d - 1])
  BY <1>2, Zenon
<1>4. row(d, f[d - 1])[node] =
         IF Inner(node)
         THEN LET upto[i \in 0..Len(node.children)] ==
                      IF i = 0 THEN 0 ELSE upto[i - 1] + f[d - 1][node.children[i]]
              IN  IF d = 0 THEN 0 ELSE upto[Len(node.children)]
         ELSE 1
  BY Zenon DEF row, Inner
<1> QED  BY <1>3, <1>4, Zenon DEF f

\* The children of a node are of the next level.
LEMMA LevelsDown ==
    ASSUME NEW root, TreeProper(root), NEW d \in 0..Deepest, NEW node \in Levels(root)[d]
    PROVE  /\ node \in Nodes(root)
           /\ Len(node.children) \in Nat
           /\ d <= Limit.depth =>
                \A i \in 1..Len(node.children) : node.children[i] \in Levels(root)[d + 1]
<1>1. node \in Nodes(root)
  BY NodesKnown
<1> DEFINE children == node.children
<1>2. children \in Seq(ToSet(children))
  BY <1>1 DEF TreeProper
<1> HIDE DEF children
<1>3. /\ Len(children) \in Nat
      /\ \A i \in 1..Len(children) : children[i] \in ToSet(children)
  BY <1>2
<1>4. ASSUME d <= Limit.depth, NEW i \in 1..Len(children)
      PROVE  children[i] \in Levels(root)[d + 1]
  <2>1. d + 1 \in 0..Deepest /\ d + 1 # 0 /\ (d + 1) - 1 = d
    BY <1>4, DepthNat DEF Deepest
  <2>2. Levels(root)[d + 1] = UNION {ToSet(n.children) : n \in Levels(root)[d]}
    <3>1. d + 1 \in 1..Deepest
      BY <2>1, DepthNat DEF Deepest
    <3> QED  BY <2>1, <3>1, LevelsStep
  <2> QED  BY <1>3, <2>2 DEF children
<1> QED  BY <1>1, <1>3, <1>4 DEF children

\* A leaf counts for one.
LEMMA BelowLeaf ==
    ASSUME NEW root, NEW d \in 0..Limit.depth, NEW node \in Nodes(root), ~Inner(node)
    PROVE  Below(root)[d][node] = 1
  BY BelowStep, Zenon

\* A node that is none has none below itself at the depth at which no more is read.
LEMMA BelowDeepest ==
    ASSUME NEW root, NEW node \in Nodes(root), Inner(node)
    PROVE  Below(root)[0][node] = 0
<1>1. 0 \in 0..Limit.depth
  BY DepthNat
<1> QED  BY <1>1, BelowStep, Zenon

\* Above, it has those of its children.
LEMMA BelowSum ==
    ASSUME NEW root, NEW d \in 0..Limit.depth - 1, NEW node \in Nodes(root), Inner(node),
           Len(node.children) \in Nat,
           \A i \in 1..Len(node.children) : Below(root)[d][node.children[i]] \in Nat
    PROVE  /\ Summed(Len(node.children),
                     [i \in 1..Len(node.children) |-> Below(root)[d][node.children[i]]],
                     Below(root)[d + 1][node])
           /\ Below(root)[d + 1][node] \in Nat
<1> DEFINE n     == Len(node.children)
           parts == [i \in 1..n |-> Below(root)[d][node.children[i]]]
           P(f)  == f = [i \in 0..n |->
                           IF i = 0 THEN 0 ELSE f[i - 1] + Below(root)[d][node.children[i]]]
           sums  == CHOOSE f : P(f)
<1>1. parts \in [1..n -> Nat]
  OBVIOUS
<1>2. Below(root)[d + 1][node] = sums[n]
  <2>1. d + 1 \in 0..Limit.depth /\ d + 1 # 0 /\ (d + 1) - 1 = d
    BY DepthNat
  <2> DEFINE e == d + 1
  <2>2. Below(root)[e][node] =
          LET upto[i \in 0..Len(node.children)] ==
                  IF i = 0 THEN 0 ELSE upto[i - 1] + Below(root)[e - 1][node.children[i]]
          IN  IF e = 0 THEN 0 ELSE upto[Len(node.children)]
    <3> HIDE DEF e
    <3> QED  BY <2>1, BelowStep, ZenonT(30) DEF e
  <2> QED  BY <2>1, <2>2
<1> HIDE DEF n
<1>3. \A f : P(f) <=> Summing(n, parts, f)
  <2> TAKE f
  <2>1. \A i \in 0..n : i # 0 => parts[i] = Below(root)[d][node.children[i]]
    BY DEF n
  <2>2. [i \in 0..n |-> IF i = 0 THEN 0 ELSE f[i - 1] + Below(root)[d][node.children[i]]]
            = [i \in 0..n |-> IF i = 0 THEN 0 ELSE f[i - 1] + parts[i]]
    BY <2>1
  <2> QED  BY <2>2 DEF Summing
<1> HIDE DEF parts
<1>4. \E f : P(f)
  BY <1>1, <1>3, SumExists DEF n
<1>5. P(sums)
  BY <1>4, Zenon
<1> HIDE DEF sums
<1>6. Summing(n, parts, sums)
  BY <1>3, <1>5
<1>7. n \in Nat /\ sums[n] \in Nat
  <2>1. n \in Nat
    BY DEF n
  <2>2. sums \in [0..n -> Nat]
    BY <1>1, <1>6, <2>1, SumProperties
  <2> QED  BY <2>1, <2>2
<1> QED  BY <1>2, <1>6, <1>7 DEF Summed, n, parts

\* The leaves below a node of a level are counted down to the deepest.
LEMMA BelowNat ==
    ASSUME NEW root, TreeProper(root)
    PROVE  \A d \in 0..Limit.depth : \A k \in 0..Limit.depth - d :
              \A node \in Levels(root)[k] : Below(root)[d][node] \in Nat
<1> DEFINE n == Limit.depth
           S == {d \in 0..n : \A k \in 0..n - d : \A node \in Levels(root)[k] :
                                 Below(root)[d][node] \in Nat}
<1>1. n \in Nat
  BY DepthNat
<1>2. 0 \in S
  <2>1. ASSUME NEW k \in 0..n - 0, NEW node \in Levels(root)[k]
        PROVE  Below(root)[0][node] \in Nat
    <3>1. node \in Nodes(root) /\ 0 \in 0..n
      BY <1>1, LevelsDown DEF Deepest
    <3> QED  BY <3>1, BelowLeaf, BelowDeepest
  <2> QED  BY <1>1, <2>1
<1>3. ASSUME NEW d \in 0..n - 1, d \in S PROVE d + 1 \in S
  <2>1. ASSUME NEW k \in 0..n - (d + 1), NEW node \in Levels(root)[k]
        PROVE  Below(root)[d + 1][node] \in Nat
    <3>1. k \in 0..Deepest /\ k <= Limit.depth /\ k + 1 \in 0..n - d /\ d + 1 \in 0..Limit.depth
      BY <1>1 DEF Deepest
    <3>2. /\ node \in Nodes(root) /\ Len(node.children) \in Nat
          /\ \A i \in 1..Len(node.children) : node.children[i] \in Levels(root)[k + 1]
      BY <3>1, LevelsDown
    <3>3. \A i \in 1..Len(node.children) : Below(root)[d][node.children[i]] \in Nat
      BY <1>3, <3>1, <3>2
    <3>4. CASE Inner(node)
      BY <3>2, <3>3, <3>4, BelowSum
    <3>5. CASE ~Inner(node)
      <4>1. Below(root)[d + 1][node] = 1
        BY <3>1, <3>2, <3>5, BelowLeaf
      <4> QED  BY <4>1
    <3> QED  BY <3>4, <3>5
  <2>2. d + 1 \in 0..n
    BY <1>1
  <2> QED  BY <2>1, <2>2
<1> HIDE DEF S
<1>4. \A d \in 0..n : d \in S
  BY <1>1, <1>2, <1>3, Induction
<1> QED  BY <1>4 DEF S

\* So they are for every level, up to the one past the deepest.
LEMMA LeavesNat ==
    ASSUME NEW root, TreeProper(root), NEW d \in 0..Deepest, NEW node \in Levels(root)[d]
    PROVE  LeavesAt(root, d, node) \in Nat
<1>1. CASE d > Limit.depth
  BY <1>1 DEF LeavesAt
<1>2. CASE ~(d > Limit.depth)
  <2>1. Limit.depth - d \in 0..Limit.depth /\ d \in 0..Limit.depth - (Limit.depth - d)
    BY <1>2, DepthNat DEF Deepest
  <2>2. Below(root)[Limit.depth - d][node] \in Nat
    BY <2>1, BelowNat
  <2> QED  BY <1>2, <2>2 DEF LeavesAt
<1> QED  BY <1>1, <1>2

\* A leaf is one, and an inner node has those of its children.
LEMMA LeavesOfLeaf ==
    ASSUME NEW root, TreeProper(root), NEW d \in 0..Limit.depth, NEW node \in Levels(root)[d],
           ~Inner(node)
    PROVE  LeavesAt(root, d, node) = 1
<1>1. /\ d \in 0..Deepest /\ Limit.depth - d \in 0..Limit.depth /\ ~(d > Limit.depth)
  BY DepthNat DEF Deepest
<1>2. node \in Nodes(root)
  BY <1>1, LevelsDown
<1>3. Below(root)[Limit.depth - d][node] = 1
  BY <1>1, <1>2, BelowLeaf
<1> QED  BY <1>1, <1>3 DEF LeavesAt

LEMMA LeavesOfInner ==
    ASSUME NEW root, TreeProper(root), NEW d \in 0..Limit.depth, NEW node \in Levels(root)[d],
           Inner(node)
    PROVE  Summed(Len(node.children),
                  [i \in 1..Len(node.children) |-> LeavesAt(root, d + 1, node.children[i])],
                  LeavesAt(root, d, node))
<1> DEFINE n     == Len(node.children)
           parts == [i \in 1..n |-> LeavesAt(root, d + 1, node.children[i])]
<1>1. d \in 0..Deepest /\ d <= Limit.depth /\ ~(d > Limit.depth) /\ Limit.depth \in Nat
  BY DepthNat DEF Deepest
<1>2. /\ node \in Nodes(root) /\ n \in Nat
      /\ \A i \in 1..n : node.children[i] \in Levels(root)[d + 1]
  BY <1>1, LevelsDown
<1> HIDE DEF n
<1>3. CASE d = Limit.depth
  <2>1. LeavesAt(root, d, node) = 0
    <3>1. Limit.depth - d = 0
      BY <1>1, <1>3
    <3> QED  BY <1>1, <1>2, <3>1, BelowDeepest DEF LeavesAt
  <2>2. \A i \in 1..n : parts[i] = 0
    BY <1>1, <1>3 DEF LeavesAt
  <2> HIDE DEF parts
  <2> DEFINE f == [i \in 0..n |-> 0]
  <2>3. f = [i \in 0..n |-> IF i = 0 THEN 0 ELSE f[i - 1] + parts[i]]
    BY <1>2, <2>2
  <2>4. f[n] = 0
    BY <1>2
  <2> HIDE DEF f
  <2>5. Summing(n, parts, f)
    BY <2>3 DEF Summing
  <2>6. Summed(n, parts, 0)
    BY <2>4, <2>5 DEF Summed
  <2> QED  BY <2>1, <2>6 DEF n, parts
<1>4. CASE d # Limit.depth
  <2> DEFINE e == Limit.depth - (d + 1)
  <2>1. /\ e \in 0..Limit.depth - 1 /\ e + 1 = Limit.depth - d /\ ~(d + 1 > Limit.depth)
        /\ d + 1 \in 0..Limit.depth - e /\ e \in 0..Limit.depth
    BY <1>1, <1>4
  <2>2. \A i \in 1..n : Below(root)[e][node.children[i]] \in Nat
    <3> HIDE DEF e
    <3> QED  BY <1>2, <2>1, BelowNat
  <2>3. parts = [i \in 1..n |-> Below(root)[e][node.children[i]]]
    BY <2>1 DEF LeavesAt
  <2>4. LeavesAt(root, d, node) = Below(root)[e + 1][node]
    BY <1>1, <2>1 DEF LeavesAt
  <2> HIDE DEF e, parts
  <2>5. Summed(n, [i \in 1..n |-> Below(root)[e][node.children[i]]], Below(root)[e + 1][node])
    BY <1>2, <2>1, <2>2, BelowSum DEF n
  <2> QED  BY <2>3, <2>4, <2>5 DEF n, parts
<1> QED  BY <1>3, <1>4

-----------------------------------------------------------------------------
(* What a call of parse_layout_node does that does not fail. *)

\* A call that does not fail was made within the limits, and reads a leaf or calls
\* for the children.
LEMMA NodeKept ==
    ASSUME NEW display, NEW before,
           Has(before),
           NEW call, ParseNode(call, display, before).valid
    PROVE  LET read == ParseNode(call, display, before)
           IN  /\ before.valid /\ ~call.refused
               /\ read.nodes = before.nodes + 1
               /\ ~(read.nodes > Limit.nodes) /\ ~(call.depth > Limit.depth)
               /\ \/ LeafAdded(call, display, before, read)
                  \/ ChildrenCalled(call, before, read)
<1> DEFINE item     == call.item
           bounds   == call.bounds
           type     == Or(item.type, "")
           more     == before.nodes + 1
           counted  == [before EXCEPT !.nodes = @ + 1]
           known    == [counted EXCEPT !.sound = /\ @
                                                 /\ ~item.unknown
                                                 /\ type = "stack" => item.gap = {}]
           children == item.children
           n        == Len(children)
           gap      == Or(Coordinates(item.gap), 0)
           extent   == IF type = "row" THEN bounds.width ELSE bounds.height
           split    == Allocation(children, gap, extent)
           places   == Places(type, bounds, gap, split.shares)
           stacked  == [i \in 1..n |-> Call(children[i], bounds, call.depth + 1,
                                            Shared(children[i]))]
           placed   == [i \in 1..n |-> Call(children[i], places[i], call.depth + 1, FALSE)]
           parsed   == ParseWidget(item, {bounds}, display)
           read     == ParseNode(call, display, before)
<1>1. \A r : Has(r) => ~Invalid(r).valid
  BY DEF Has, Invalid
<1>2. /\ Has(before) /\ Has(counted) /\ Has(known)
      /\ counted.nodes = more /\ counted.widgets = before.widgets
      /\ counted.pending = before.pending /\ counted.ids = before.ids
      /\ known.nodes = more /\ known.widgets = before.widgets
      /\ known.pending = before.pending
  BY DEF Has
<1>3. (counted.valid <=> before.valid) /\ (known.valid <=> before.valid)
  OBVIOUS
<1>4. \/ read = Invalid(before) \/ read = Invalid(counted) \/ read = Invalid(known)
      \/ /\ ~call.refused /\ ~(counted.nodes > Limit.nodes) /\ ~(call.depth > Limit.depth)
         /\ \/ /\ type \notin {"", "row", "column", "stack"}
               /\ read = AddPlaced(parsed, counted)
            \/ /\ n \in 1..Limit.widgets /\ type = "stack"
               /\ read = Calling(known, stacked)
            \/ /\ n \in 1..Limit.widgets /\ type \in {"row", "column"} /\ split.fits
               /\ read = Calling(known, placed)
  BY DEF ParseNode
<1> HIDE DEF read, known, counted
<1>5. /\ ~call.refused /\ ~(counted.nodes > Limit.nodes) /\ ~(call.depth > Limit.depth)
      /\ \/ /\ type \notin {"", "row", "column", "stack"}
            /\ read = AddPlaced(parsed, counted)
         \/ /\ n \in 1..Limit.widgets /\ type = "stack"
            /\ read = Calling(known, stacked)
         \/ /\ n \in 1..Limit.widgets /\ type \in {"row", "column"} /\ split.fits
            /\ read = Calling(known, placed)
  BY <1>1, <1>2, <1>4 DEF read
<1>6. ASSUME type \notin {"", "row", "column", "stack"}, read = AddPlaced(parsed, counted)
      PROVE  /\ before.valid /\ read.nodes = more
             /\ LeafAdded(call, display, before, read)
  <2> DEFINE new   == {w \in parsed.value : w.id \notin counted.ids}
             v     == Or(new, <<>>)
             added == [counted EXCEPT !.ids = @ \cup {w.id : w \in new},
                                      !.widgets = Append(@, v),
                                      !.sound = @ /\ parsed.sound]
  <2>1. new # {} /\ read = added
    BY <1>1, <1>2, <1>6 DEF AddPlaced, read
  <2>2. v \in parsed.value
    <3>1. v \in new
      <4> HIDE DEF new
      <4> QED  BY <2>1, OrElement
    <3> QED  BY <3>1
  <2> HIDE DEF v, new
  <2>3. /\ added.nodes = more /\ added.widgets = Append(before.widgets, v)
        /\ added.pending = before.pending
    BY <1>2 DEF Has
  <2>4. added.valid <=> before.valid
    BY <1>2, <1>3 DEF Has
  <2> HIDE DEF added, parsed
  <2>5. before.valid /\ read.nodes = more
    BY <2>1, <2>3, <2>4 DEF read
  <2>6. /\ read.pending = before.pending
        /\ \E w \in ParseWidget(call.item, {call.bounds}, display).value :
              read.widgets = Append(before.widgets, w)
    BY <2>1, <2>2, <2>3 DEF parsed
  <2> QED  BY <1>6, <2>5, <2>6 DEF LeafAdded
<1>7. ASSUME NEW calls, read = Calling(known, calls)
      PROVE  /\ before.valid /\ read.nodes = more
             /\ read.widgets = before.widgets /\ read.pending = calls \o before.pending
  <2> DEFINE called == [known EXCEPT !.pending = calls \o @]
  <2>1. read = called
    BY <1>7 DEF Calling
  <2>2. /\ called.nodes = more /\ called.widgets = before.widgets
        /\ called.pending = calls \o before.pending
    BY <1>2 DEF Has
  <2>3. called.valid <=> before.valid
    BY <1>2, <1>3 DEF Has
  <2> HIDE DEF called
  <2> QED  BY <2>1, <2>2, <2>3 DEF read
<1>8. ASSUME n \in 1..Limit.widgets, type = "stack" PROVE Descends(call, stacked)
  <2>1. stacked = [i \in 1..n |-> stacked[i]]
    OBVIOUS
  <2>2. \A i \in 1..n : /\ stacked[i].item = children[i] /\ stacked[i].depth = call.depth + 1
                        /\ stacked[i].bounds = bounds
    BY DEF Call
  <2> HIDE DEF stacked
  <2> QED  BY <1>8, <2>1, <2>2 DEF Descends
<1>9. ASSUME n \in 1..Limit.widgets, type \in {"row", "column"}, split.fits
      PROVE  Descends(call, placed)
  <2>1. placed = [i \in 1..n |-> placed[i]]
    OBVIOUS
  <2>2. \A i \in 1..n : /\ placed[i].item = children[i] /\ placed[i].depth = call.depth + 1
                        /\ placed[i].bounds = places[i]
    BY DEF Call
  <2> HIDE DEF placed
  <2> QED  BY <1>9, <2>1, <2>2 DEF Descends
<1>10. /\ before.valid /\ read.nodes = more
       /\ \/ LeafAdded(call, display, before, read)
          \/ ChildrenCalled(call, before, read)
  <2> HIDE DEF stacked, placed, split, type, n, parsed
  <2>1. CASE type \notin {"", "row", "column", "stack"} /\ read = AddPlaced(parsed, counted)
    BY <1>6, <2>1
  <2>2. CASE n \in 1..Limit.widgets /\ type = "stack" /\ read = Calling(known, stacked)
    BY <1>7, <1>8, <2>2 DEF ChildrenCalled
  <2>3. CASE /\ n \in 1..Limit.widgets /\ type \in {"row", "column"} /\ split.fits
             /\ read = Calling(known, placed)
    BY <1>7, <1>9, <2>3 DEF ChildrenCalled
  <2> QED  BY <1>5, <2>1, <2>2, <2>3
<1>11. ~(read.nodes > Limit.nodes)
  BY <1>2, <1>5, <1>10
<1> QED  BY <1>5, <1>10, <1>11 DEF read

\* A widget that is placed takes its place.
LEMMA PlaceTaken ==
    ASSUME NEW display, NEW item, NEW r, NEW w \in ParseWidget(item, {r}, display).value
    PROVE  w.rect = r
<1> DEFINE bounds == Bounds(item, {r}, display)
           type   == Or(item.type, "")
<1>1. bounds # {}
  BY DEF ParseWidget
<1>2. bounds = {r}
  BY <1>1 DEF Bounds
<1> HIDE DEF bounds, type
<1>3. \/ w \in IndicatorRead(item, bounds) \/ w \in ClockRead(item, bounds)
      \/ w \in BarRead(item, bounds, display) \/ w \in GridRead(item, bounds)
      \/ w \in BitmapRead(item, bounds) \/ w \in AggregateRead(item, bounds, display)
  BY DEF ParseWidget, bounds, type
<1>4. \E kind, more : w = Widget(kind, item, bounds, more)
  BY <1>3 DEF IndicatorRead, ClockRead, BarRead, GridRead, BitmapRead, AggregateRead
<1>5. w.rect = Or(bounds, <<>>)
  BY <1>4, WidgetFields
<1> QED  BY <1>2, <1>5, OrSingleton

\* The children of a node lie in its place; those of a row or a column apart from
\* each other, those of a stack and those with no gap all over it.
LEMMA ChildrenPlaced ==
    ASSUME NEW display, NEW call, OnDisplay(call.bounds, display), NEW calls,
           Descends(call, calls), NEW p, p[1] \in Nat, p[2] \in Nat
    PROVE  LET m    == Len(call.item.children)
               kids == [i \in 1..m |-> calls[i].bounds]
               type == Or(call.item.type, "")
           IN  /\ m \in Nat \ {0} /\ m <= Limit.widgets
               /\ \A i \in 1..m : Inside(p, kids[i]) => Inside(p, call.bounds)
               /\ type # "stack" => Apart(p, m, kids)
               /\ (type = "stack" \/ Or(Coordinates(call.item.gap), 0) = 0)
                     /\ Inside(p, call.bounds) => Met(p, m, kids)
<1> DEFINE children == call.item.children
           m        == Len(children)
           kids     == [i \in 1..m |-> calls[i].bounds]
           type     == Or(call.item.type, "")
           bounds   == call.bounds
           gap      == Or(Coordinates(call.item.gap), 0)
           extent   == IF type = "row" THEN bounds.width ELSE bounds.height
           split    == Allocation(children, gap, extent)
           places   == Places(type, bounds, gap, split.shares)
<1>1. /\ m \in 1..Limit.widgets
      /\ \/ type = "stack" /\ \A i \in 1..m : calls[i].bounds = bounds
         \/ /\ type \in {"row", "column"} /\ split.fits
            /\ \A i \in 1..m : calls[i].bounds = places[i]
  BY DEF Descends
<1>2. m \in Nat \ {0} /\ m <= Limit.widgets
  <2>1. Limit.widgets \in Nat /\ m \in 1..Limit.widgets
    BY <1>1, FieldsAssumption
  <2> HIDE DEF m
  <2> QED  BY <2>1
<1>3. CASE type = "stack"
  <2>1. \A i \in 1..m : kids[i] = bounds
    BY <1>1, <1>3
  <2>2. 1 \in 1..m
    <3> HIDE DEF m
    <3> QED  BY <1>2
  <2> HIDE DEF kids, m, bounds, type
  <2> QED  BY <1>2, <1>3, <2>1, <2>2 DEF Met, kids, m, bounds, type
<1>4. CASE type # "stack"
  <2>1. type \in {"row", "column"} /\ split.fits /\ \A i \in 1..m : calls[i].bounds = places[i]
    BY <1>1, <1>4
  <2>2. kids = [i \in 1..m |-> places[i]]
    BY <2>1
  <2>3. gap \in Nat /\ bounds \in Rects
    BY GapNat DEF OnDisplay
  <2>4. /\ \A i \in 1..m : Inside(p, places[i]) => Inside(p, bounds)
        /\ Apart(p, m, places)
        /\ gap = 0 /\ Inside(p, bounds) => Met(p, m, places)
    <3> HIDE DEF type, gap, bounds, children
    <3> QED  BY <1>2, <2>1, <2>3, PlacesPart
  <2> HIDE DEF places, m, bounds, type, gap
  <2>5. \A i \in 1..m : kids[i] = places[i]
    BY <2>2
  <2> HIDE DEF kids
  <2>6. /\ \A i \in 1..m : Inside(p, kids[i]) => Inside(p, bounds)
        /\ Apart(p, m, kids)
        /\ gap = 0 /\ Inside(p, bounds) => Met(p, m, kids)
    BY <2>4, <2>5 DEF Apart, Met
  <2> QED  BY <1>2, <1>4, <2>6 DEF kids, m, bounds, type, gap
<1> QED  BY <1>3, <1>4

-----------------------------------------------------------------------------
(* What a tree that is being read owes. *)

\* The first call pending, replaced by a widget in its place.
LEMMA StationFilled ==
    ASSUME NEW S, NEW widgets \in Seq(S), NEW C, NEW calls \in Seq(C), calls # <<>>,
           NEW w, w.rect = calls[1].bounds,
           NEW root, LeavesAt(root, calls[1].depth, calls[1].item) = 1
    PROVE  /\ Stations(Append(widgets, w), Tail(calls)) = Stations(widgets, calls)
           /\ Spots(Append(widgets, w), Tail(calls)) = Spots(widgets, calls)
           /\ Owed(root, Append(widgets, w), Tail(calls)) = Owed(root, widgets, calls)
<1> DEFINE m     == Len(widgets)
           n     == Len(calls)
           added == Append(widgets, w)
           rest  == Tail(calls)
<1>1. m \in Nat /\ n \in Nat \ {0}
  <2>1. n \in Nat /\ n # 0
    BY EmptySeq
  <2> QED  BY <2>1
<1>2. /\ Len(added) = m + 1 /\ added[m + 1] = w
      /\ \A i \in 1..m : added[i] = widgets[i]
  <2> DEFINE T == S \cup {w}
  <2>1. widgets \in Seq(T) /\ w \in T
    BY SeqMonotonic
  <2> HIDE DEF T
  <2> QED  BY <2>1, AppendProperties
<1>3. Len(rest) = n - 1 /\ \A i \in 1..n - 1 : rest[i] = calls[i + 1]
  BY HeadTailProperties
<1> HIDE DEF m, n, added, rest
<1>4. Stations(added, rest) = Stations(widgets, calls) /\ Stations(widgets, calls) = m + n
  BY <1>1, <1>2, <1>3 DEF Stations, m, n
<1>5. ASSUME NEW i \in 1..m + n
      PROVE  \/ /\ i <= m /\ i <= m + 1 /\ added[i] = widgets[i]
             \/ /\ i = m + 1 /\ ~(i <= m) /\ added[i] = w /\ i - m = 1
             \/ /\ ~(i <= m + 1) /\ ~(i <= m) /\ rest[i - (m + 1)] = calls[i - m]
  <2>1. CASE i <= m
    BY <1>1, <1>2, <2>1
  <2>2. CASE i = m + 1
    BY <1>1, <1>2, <2>2
  <2>3. CASE ~(i <= m + 1)
    <3>1. i - (m + 1) \in 1..n - 1 /\ (i - (m + 1)) + 1 = i - m
      BY <1>1, <2>3
    <3> QED  BY <1>1, <1>3, <2>3, <3>1
  <2> QED  BY <1>1, <2>1, <2>2, <2>3
<1>6. Spots(added, rest) = Spots(widgets, calls)
  <2>1. \A i \in 1..m + n :
           (IF i <= m + 1 THEN added[i].rect ELSE rest[i - (m + 1)].bounds)
              = (IF i <= m THEN widgets[i].rect ELSE calls[i - m].bounds)
    BY <1>5
  <2>2. Spots(added, rest) = [i \in 1..m + n |->
            IF i <= m + 1 THEN added[i].rect ELSE rest[i - (m + 1)].bounds]
    BY <1>2, <1>4 DEF Spots
  <2>3. Spots(widgets, calls) = [i \in 1..m + n |->
            IF i <= m THEN widgets[i].rect ELSE calls[i - m].bounds]
    BY <1>4 DEF Spots, m
  <2> QED  BY <2>1, <2>2, <2>3
<1>7. Owed(root, added, rest) = Owed(root, widgets, calls)
  <2> DEFINE worth(call) == LeavesAt(root, call.depth, call.item)
  <2>1. \A i \in 1..m + n :
           (IF i <= m + 1 THEN 1 ELSE worth(rest[i - (m + 1)]))
              = (IF i <= m THEN 1 ELSE worth(calls[i - m]))
    <3>1. worth(calls[1]) = 1
      OBVIOUS
    <3> HIDE DEF worth
    <3> QED  BY <1>5, <3>1
  <2>2. Owed(root, added, rest) = [i \in 1..m + n |->
            IF i <= m + 1 THEN 1 ELSE worth(rest[i - (m + 1)])]
    BY <1>2, <1>4 DEF Owed
  <2>3. Owed(root, widgets, calls) = [i \in 1..m + n |->
            IF i <= m THEN 1 ELSE worth(calls[i - m])]
    BY <1>4 DEF Owed, m
  <2> HIDE DEF worth
  <2> QED  BY <2>1, <2>2, <2>3
<1> QED  BY <1>4, <1>6, <1>7 DEF added, rest

\* The first call pending, replaced by calls for its children.
LEMMA StationSplit ==
    ASSUME NEW S, NEW widgets \in Seq(S), NEW C, NEW calls \in Seq(C), calls # <<>>,
           NEW m, m \in Nat \ {0}, NEW kids, kids = [i \in 1..m |-> kids[i]], NEW root
    PROVE  LET next == kids \o Tail(calls)
               n    == Stations(widgets, calls)
           IN  /\ next \in Seq(C \cup {kids[i] : i \in 1..m}) /\ Len(next) = Len(calls) + m - 1
               /\ Stations(widgets, next) = n + m - 1
               /\ Spliced(n, Spots(widgets, calls), Len(widgets) + 1, m,
                          [i \in 1..m |-> kids[i].bounds], Spots(widgets, next))
               /\ Spliced(n, Owed(root, widgets, calls), Len(widgets) + 1, m,
                          [i \in 1..m |-> LeavesAt(root, kids[i].depth, kids[i].item)],
                          Owed(root, widgets, next))
<1> DEFINE a    == Len(widgets)
           b    == Len(calls)
           n    == Stations(widgets, calls)
           next == kids \o Tail(calls)
           T    == C \cup {kids[i] : i \in 1..m}
<1>1. a \in Nat /\ b \in Nat \ {0} /\ m \in Nat
  <2>1. b \in Nat /\ b # 0
    BY EmptySeq
  <2> QED  BY <2>1
<1>2. /\ Tail(calls) \in Seq(C) /\ Len(Tail(calls)) = b - 1
      /\ \A i \in 1..b - 1 : Tail(calls)[i] = calls[i + 1]
  BY HeadTailProperties
<1>3. kids \in Seq(T) /\ Len(kids) = m
  <2>1. \A i \in 1..m : kids[i] \in T
    OBVIOUS
  <2> HIDE DEF T
  <2> QED  BY <1>1, <2>1, SMTT(30)
<1>4. /\ next \in Seq(T) /\ Len(next) = b + m - 1
      /\ \A i \in 1..m + (b - 1) : next[i] = IF i <= m THEN kids[i] ELSE calls[i - m + 1]
  <2>1. Tail(calls) \in Seq(T)
    BY <1>2, SeqMonotonic
  <2> HIDE DEF T
  <2>2. /\ kids \o Tail(calls) \in Seq(T) /\ Len(kids \o Tail(calls)) = m + (b - 1)
        /\ \A i \in 1..m + (b - 1) :
              (kids \o Tail(calls))[i] = IF i <= m THEN kids[i] ELSE Tail(calls)[i - m]
    BY <1>2, <1>3, <2>1, ConcatProperties
  <2>3. \A i \in 1..m + (b - 1) : ~(i <= m) =>
            i - m \in 1..b - 1 /\ (i - m) + 1 = i - m + 1
    BY <1>1
  <2> HIDE DEF b
  <2> QED  BY <1>1, <1>2, <2>2, <2>3
<1> HIDE DEF a, b, n, next, T
<1>5. n = a + b /\ Stations(widgets, next) = n + m - 1 /\ n + m - 1 = a + (m + (b - 1))
  BY <1>1, <1>4 DEF Stations, a, b, n
<1>6. /\ n \in Nat /\ a + 1 \in 1..n
  BY <1>1, <1>5
<1>7. ASSUME NEW i \in 1..n + m - 1
      PROVE  \/ i < a + 1 /\ i <= a
             \/ /\ i \in a + 1..a + 1 + m - 1 /\ ~(i <= a)
                /\ i - (a + 1) + 1 \in 1..m /\ next[i - a] = kids[i - (a + 1) + 1]
             \/ /\ i \in a + 1 + m..n + m - 1 /\ ~(i <= a) /\ ~(i - m + 1 <= a)
                /\ i - m + 1 \in 1..n /\ next[i - a] = calls[(i - m + 1) - a]
  <2>1. CASE i <= a
    BY <1>1, <2>1
  <2>2. CASE ~(i <= a) /\ i <= a + m
    <3>1. i - a \in 1..m + (b - 1) /\ i - a <= m /\ i - a = i - (a + 1) + 1
      BY <1>1, <1>5, <2>2
    <3> QED  BY <1>1, <1>4, <2>2, <3>1, SMTT(30)
  <2>3. CASE ~(i <= a + m)
    <3>1. i - a \in 1..m + (b - 1) /\ ~(i - a <= m) /\ (i - a) - m + 1 = (i - m + 1) - a
      BY <1>1, <1>5, <2>3, SMTT(30)
    <3>2. i \in a + 1 + m..n + m - 1 /\ ~(i <= a)
      BY <1>1, <1>5, <2>3
    <3>3. ~(i - m + 1 <= a) /\ i - m + 1 \in 1..n
      BY <1>1, <1>5, <2>3
    <3> QED  BY <1>4, <3>1, <3>2, <3>3
  <2> QED  BY <1>1, <2>1, <2>2, <2>3
<1>8. /\ 1..(a + 1) - 1 \subseteq 1..n + m - 1 /\ 1..(a + 1) - 1 \subseteq 1..n
      /\ \A i \in 1..(a + 1) - 1 : i <= a
      /\ a + 1..a + 1 + m - 1 \subseteq 1..n + m - 1
      /\ a + 1 + m..n + m - 1 \subseteq 1..n + m - 1
      /\ \A i \in a + 1..a + 1 + m - 1 : ~(i < a + 1) /\ i \notin a + 1 + m..n + m - 1
      /\ \A i \in a + 1 + m..n + m - 1 : ~(i < a + 1) /\ i \notin a + 1..a + 1 + m - 1
  BY <1>1, <1>5, SMTT(30)
<1>9. Spliced(n, Spots(widgets, calls), a + 1, m, [i \in 1..m |-> kids[i].bounds],
              Spots(widgets, next))
  <2> DEFINE s == Spots(widgets, calls)
             t == Spots(widgets, next)
             k == [i \in 1..m |-> kids[i].bounds]
  <2>1. /\ \A i \in 1..n : s[i] = IF i <= a THEN widgets[i].rect ELSE calls[i - a].bounds
        /\ \A i \in 1..n + m - 1 :
              t[i] = IF i <= a THEN widgets[i].rect ELSE next[i - a].bounds
        /\ \A i \in 1..m : k[i] = kids[i].bounds
    BY <1>5 DEF Spots, a, n
  <2> HIDE DEF s, t, k
  <2>2. \A i \in 1..(a + 1) - 1 : t[i] = s[i]
    BY <1>8, <2>1
  <2>3. \A i \in a + 1..a + 1 + m - 1 : t[i] = k[i - (a + 1) + 1]
    BY <1>7, <1>8, <2>1, ZenonT(30)
  <2>4. \A i \in a + 1 + m..n + m - 1 : t[i] = s[i - m + 1]
    <3> SUFFICES ASSUME NEW i \in a + 1 + m..n + m - 1 PROVE t[i] = s[i - m + 1]
      OBVIOUS
    <3> DEFINE j == i - m + 1
    <3>1. i \in 1..n + m - 1 /\ ~(i <= a) /\ ~(j <= a) /\ j \in 1..n /\ next[i - a] = calls[j - a]
      BY <1>7, <1>8
    <3> HIDE DEF j
    <3>2. t[i] = next[i - a].bounds /\ s[j] = calls[j - a].bounds
      BY <2>1, <3>1
    <3> QED  BY <3>1, <3>2 DEF j
  <2> QED  BY <1>6, <2>2, <2>3, <2>4 DEF Spliced, s, t, k
<1>10. Spliced(n, Owed(root, widgets, calls), a + 1, m,
               [i \in 1..m |-> LeavesAt(root, kids[i].depth, kids[i].item)],
               Owed(root, widgets, next))
  <2> DEFINE worth(call) == LeavesAt(root, call.depth, call.item)
             s == Owed(root, widgets, calls)
             t == Owed(root, widgets, next)
             k == [i \in 1..m |-> LeavesAt(root, kids[i].depth, kids[i].item)]
  <2>1. /\ \A i \in 1..n : s[i] = IF i <= a THEN 1 ELSE worth(calls[i - a])
        /\ \A i \in 1..n + m - 1 : t[i] = IF i <= a THEN 1 ELSE worth(next[i - a])
        /\ \A i \in 1..m : k[i] = worth(kids[i])
    BY <1>5 DEF Owed, a, n
  <2> HIDE DEF s, t, k, worth
  <2>2. \A i \in 1..(a + 1) - 1 : t[i] = s[i]
    BY <1>8, <2>1
  <2>3. \A i \in a + 1..a + 1 + m - 1 : t[i] = k[i - (a + 1) + 1]
    BY <1>7, <1>8, <2>1
  <2>4. \A i \in a + 1 + m..n + m - 1 : t[i] = s[i - m + 1]
    <3> SUFFICES ASSUME NEW i \in a + 1 + m..n + m - 1 PROVE t[i] = s[i - m + 1]
      OBVIOUS
    <3> DEFINE j == i - m + 1
    <3>1. i \in 1..n + m - 1 /\ ~(i <= a) /\ ~(j <= a) /\ j \in 1..n /\ next[i - a] = calls[j - a]
      BY <1>7, <1>8
    <3> HIDE DEF j
    <3>2. t[i] = worth(next[i - a]) /\ s[j] = worth(calls[j - a])
      BY <2>1, <3>1
    <3> QED  BY <3>1, <3>2 DEF j
  <2> QED  BY <1>6, <2>2, <2>3, <2>4 DEF Spliced, s, t, k
<1> QED  BY <1>4, <1>5, <1>9, <1>10 DEF a, b, n, next, T

\* A leaf that is read takes the place of its call.
LEMMA LeafAccounted ==
    ASSUME NEW root, TreeProper(root), NEW p, NEW S, NEW widgets \in Seq(S),
           NEW C, NEW calls \in Seq(C), calls # <<>>, Accounted(root, p, widgets, calls),
           ~(calls[1].depth > Limit.depth), ~Inner(calls[1].item),
           NEW w, w.rect = calls[1].bounds
    PROVE  Accounted(root, p, Append(widgets, w), Tail(calls))
<1> DEFINE depth == calls[1].depth
           item  == calls[1].item
           rest  == Tail(calls)
           added == Append(widgets, w)
<1>1. Len(calls) \in Nat \ {0}
  BY EmptySeq
<1>2. /\ Len(rest) = Len(calls) - 1
      /\ \A i \in 1..Len(rest) : rest[i] = calls[i + 1]
  BY HeadTailProperties
<1>3. depth \in 0..Limit.depth /\ item \in Levels(root)[depth]
  <2>1. 1 \in 1..Len(calls)
    BY <1>1
  <2>2. depth \in 0..Deepest /\ ~(depth > Limit.depth) /\ item \in Levels(root)[depth]
    BY <2>1 DEF Accounted
  <2> HIDE DEF depth
  <2> QED  BY <2>2, DepthNat DEF Deepest
<1>4. LeavesAt(root, depth, item) = 1
  <2> HIDE DEF depth, item
  <2> QED  BY <1>3, LeavesOfLeaf DEF item
<1>5. /\ Stations(added, rest) = Stations(widgets, calls)
      /\ Spots(added, rest) = Spots(widgets, calls)
      /\ Owed(root, added, rest) = Owed(root, widgets, calls)
  BY <1>4, StationFilled
<1>6. ASSUME NEW i \in 1..Len(rest)
      PROVE  rest[i].depth \in 0..Deepest /\ rest[i].item \in Levels(root)[rest[i].depth]
  <2>1. i + 1 \in 1..Len(calls) /\ rest[i] = calls[i + 1]
    BY <1>1, <1>2
  <2> HIDE DEF rest
  <2> QED  BY <2>1 DEF Accounted
<1> HIDE DEF added, rest
<1>7. Accounted(root, p, added, rest)
  BY <1>5, <1>6 DEF Accounted
<1> QED  BY <1>7 DEF added, rest

\* The children of a node take its place, as its leaves and on the display.
LEMMA ChildrenAccounted ==
    ASSUME NEW root, TreeProper(root), NEW p, p[1] \in Nat, p[2] \in Nat,
           NEW S, NEW widgets \in Seq(S),
           NEW C, NEW calls \in Seq(C), calls # <<>>, Accounted(root, p, widgets, calls),
           ~(calls[1].depth > Limit.depth),
           NEW display, OnDisplay(calls[1].bounds, display),
           NEW kids, Descends(calls[1], kids)
    PROVE  /\ Accounted(root, p, widgets, kids \o Tail(calls))
           /\ Len(kids \o Tail(calls)) <= Len(calls) + Limit.widgets - 1
<1> DEFINE call  == calls[1]
           item  == call.item
           depth == call.depth
           m     == Len(item.children)
           next  == kids \o Tail(calls)
           n     == Stations(widgets, calls)
           a     == Len(widgets) + 1
           s     == Owed(root, widgets, calls)
           t     == Owed(root, widgets, next)
           parts == [i \in 1..m |-> LeavesAt(root, kids[i].depth, kids[i].item)]
           spots == [i \in 1..m |-> kids[i].bounds]
<1>1. Len(calls) \in Nat \ {0} /\ 1 \in 1..Len(calls) /\ Len(widgets) \in Nat
  <2>1. Len(calls) \in Nat \ {0} /\ Len(widgets) \in Nat
    BY EmptySeq
  <2> QED  BY <2>1
<1>2. /\ depth \in 0..Limit.depth /\ depth \in 0..Deepest /\ item \in Levels(root)[depth]
      /\ depth <= Limit.depth /\ depth + 1 \in 0..Deepest
  <2>1. depth \in 0..Deepest /\ ~(depth > Limit.depth) /\ item \in Levels(root)[depth]
    BY <1>1 DEF Accounted
  <2> HIDE DEF depth
  <2> QED  BY <2>1, DepthNat DEF Deepest
<1>3. /\ m \in 1..Limit.widgets /\ kids = [i \in 1..m |-> kids[i]]
      /\ \A i \in 1..m : kids[i].item = item.children[i] /\ kids[i].depth = depth + 1
      /\ Or(item.type, "") \in {"row", "column", "stack"}
  BY DEF Descends
<1>4. /\ m \in Nat \ {0} /\ m <= Limit.widgets
      /\ \A i \in 1..m : Inside(p, spots[i]) => Inside(p, call.bounds)
      /\ Or(item.type, "") # "stack" => Apart(p, m, spots)
      /\ (Or(item.type, "") = "stack" \/ Or(Coordinates(item.gap), 0) = 0)
            /\ Inside(p, call.bounds) => Met(p, m, spots)
  <2> HIDE DEF call
  <2> QED  BY ChildrenPlaced DEF call
<1>17. m \in Nat
  <2> HIDE DEF m
  <2> QED  BY <1>4
<1>5. /\ item \in Nodes(root)
      /\ \A i \in 1..m : item.children[i] \in Levels(root)[depth + 1]
  <2> HIDE DEF item, depth
  <2> QED  BY <1>2, LevelsDown
<1>6. item.type # {} /\ Or(item.type, "") \in item.type /\ item.type = {Or(item.type, "")}
  <2> DEFINE type == item.type
  <2>1. Once(type) /\ Or(type, "") \in {"row", "column", "stack"}
    BY <1>3, <1>5 DEF TreeProper
  <2> HIDE DEF type
  <2>2. type # {}
    BY <2>1 DEF Or
  <2>3. Or(type, "") \in type
    BY <2>2, OrElement
  <2>4. type = {Or(type, "")}
    BY <2>1, <2>3 DEF Once
  <2> QED  BY <2>2, <2>3, <2>4 DEF type
<1>7. Inner(item)
  BY <1>3, <1>6 DEF Inner
<1>8. Summed(m, parts, LeavesAt(root, depth, item))
  <2>1. Summed(m, [i \in 1..m |-> LeavesAt(root, depth + 1, item.children[i])],
               LeavesAt(root, depth, item))
    <3> HIDE DEF item, depth
    <3> QED  BY <1>2, <1>7, LeavesOfInner
  <2>2. parts = [i \in 1..m |-> LeavesAt(root, depth + 1, item.children[i])]
    BY <1>3
  <2> QED  BY <2>1, <2>2
<1>9. /\ next \in Seq(C \cup {kids[i] : i \in 1..m}) /\ Len(next) = Len(calls) + m - 1
      /\ Stations(widgets, next) = n + m - 1
      /\ Spliced(n, Spots(widgets, calls), a, m, spots, Spots(widgets, next))
      /\ Spliced(n, s, a, m, parts, t)
  <2> HIDE DEF m
  <2> QED  BY <1>3, <1>4, StationSplit
<1>10. /\ s[a] = LeavesAt(root, depth, item)
       /\ Spots(widgets, calls)[a] = call.bounds
  <2>1. /\ a \in 1..n /\ ~(a <= Len(widgets)) /\ a - Len(widgets) = 1
    BY <1>1 DEF Stations
  <2> HIDE DEF a, n
  <2> QED  BY <2>1 DEF Owed, Spots, n
<1>11. ASSUME NEW i \in 1..m
       PROVE  kids[i].depth \in 0..Deepest /\ kids[i].item \in Levels(root)[kids[i].depth]
  BY <1>2, <1>3, <1>5
<1>12. ASSUME NEW i \in 1..Len(next)
       PROVE  next[i].depth \in 0..Deepest /\ next[i].item \in Levels(root)[next[i].depth]
  <2> DEFINE T == C \cup {kids[j] : j \in 1..m}
  <2>1. /\ Tail(calls) \in Seq(C) /\ Len(Tail(calls)) = Len(calls) - 1
        /\ \A j \in 1..Len(calls) - 1 : Tail(calls)[j] = calls[j + 1]
    BY HeadTailProperties
  <2>2. Tail(calls) \in Seq(T) /\ kids \in Seq(T) /\ Len(kids) = m
    <3>1. Tail(calls) \in Seq(T)
      BY <2>1, SeqMonotonic
    <3>2. \A j \in 1..m : kids[j] \in T
      OBVIOUS
    <3>3. kids = [j \in 1..m |-> kids[j]]
      BY <1>3
    <3> HIDE DEF T, m
    <3>4. Len(kids) = m
      BY <1>17, <3>3
    <3>5. kids \in [1..m -> T]
      BY <3>2, <3>3
    <3>6. kids \in Seq(T)
      BY <1>17, <3>5
    <3> QED  BY <3>1, <3>4, <3>6
  <2> HIDE DEF T, m
  <2>3. \A j \in 1..m + (Len(calls) - 1) :
           next[j] = IF j <= m THEN kids[j] ELSE Tail(calls)[j - m]
    BY <2>1, <2>2, ConcatProperties, SMTT(30)
  <2>4. i \in 1..m + (Len(calls) - 1)
    <3> HIDE DEF next
    <3> QED  BY <1>1, <1>9, <1>17
  <2>5. CASE i <= m
    <3>1. i \in 1..m /\ next[i] = kids[i]
      BY <1>17, <2>3, <2>4, <2>5
    <3> HIDE DEF next
    <3> QED  BY <1>11, <3>1
  <2>6. CASE ~(i <= m)
    <3>1. i - m \in 1..Len(calls) - 1 /\ (i - m) + 1 \in 1..Len(calls)
      BY <1>1, <1>17, <2>4, <2>6
    <3>2. next[i] = calls[(i - m) + 1]
      BY <2>1, <2>3, <2>4, <2>6, <3>1
    <3> HIDE DEF next
    <3> QED  BY <3>1, <3>2 DEF Accounted
  <2> QED  BY <2>5, <2>6
<1>13. Summed(Stations(widgets, next), t, Leaves(root))
  <2>1. s \in [1..n -> Nat]
    <3>1. ASSUME NEW i \in 1..n, ~(i <= Len(widgets))
          PROVE  LeavesAt(root, calls[i - Len(widgets)].depth, calls[i - Len(widgets)].item) \in Nat
      <4> DEFINE j == i - Len(widgets)
      <4>1. j \in 1..Len(calls)
        BY <1>1, <3>1 DEF Stations
      <4> HIDE DEF j
      <4>2. calls[j].depth \in 0..Deepest /\ calls[j].item \in Levels(root)[calls[j].depth]
        BY <4>1 DEF Accounted
      <4>3. LeavesAt(root, calls[j].depth, calls[j].item) \in Nat
        BY <4>2, LeavesNat
      <4> QED  BY <4>3 DEF j
    <3> QED  BY <3>1 DEF Owed
  <2>2. parts \in [1..m -> Nat]
    BY <1>11, LeavesNat
  <2>3. t \in [1..n + m - 1 -> Nat]
    <3>1. n \in Nat /\ m \in Nat
      <4> HIDE DEF m
      <4> QED  BY <1>1, <1>17 DEF Stations
    <3>2. t = [i \in 1..n + m - 1 |-> t[i]]
      BY <1>9 DEF Owed
    <3>3. ASSUME NEW i \in 1..n + m - 1 PROVE t[i] \in Nat
      <4>1. i \in 1..Stations(widgets, next)
        BY <1>9
      <4>2. CASE i <= Len(widgets)
        BY <4>1, <4>2 DEF Owed
      <4>3. CASE ~(i <= Len(widgets))
        <5> DEFINE j == i - Len(widgets)
        <5>1. j \in 1..Len(next)
          BY <1>1, <1>9, <4>1, <4>3 DEF Stations
        <5>2. next[j].depth \in 0..Deepest /\ next[j].item \in Levels(root)[next[j].depth]
          BY <1>12, <5>1
        <5>3. t[i] = LeavesAt(root, next[j].depth, next[j].item)
          BY <4>1, <4>3 DEF Owed
        <5> HIDE DEF j, next
        <5> QED  BY <5>2, <5>3, LeavesNat
      <4> QED  BY <4>2, <4>3
    <3> HIDE DEF t, n, m
    <3> QED  BY <3>2, <3>3
  <2>4. Summed(n, s, Leaves(root))
    BY DEF Accounted
  <2>5. Summed(m, parts, s[a])
    BY <1>8, <1>10
  <2> HIDE DEF n, m, s, t, a, parts, next
  <2>6. Summed(n + m - 1, t, Leaves(root))
    BY <1>9, <2>1, <2>2, <2>3, <2>4, <2>5, SplicedSum
  <2> QED  BY <1>9, <2>6
<1>14. /\ Stackless(root) => Apart(p, Stations(widgets, next), Spots(widgets, next))
       /\ Gapless(root) => Met(p, Stations(widgets, next), Spots(widgets, next))
  <2> DEFINE before == Spots(widgets, calls)
             after  == Spots(widgets, next)
  <2>1. /\ Stackless(root) => Apart(p, n, before)
        /\ Gapless(root) => Met(p, n, before)
    BY DEF Accounted
  <2>2. Stackless(root) => Or(item.type, "") # "stack"
    BY <1>5, <1>6 DEF Stackless
  <2>3. Gapless(root) => Or(Coordinates(item.gap), 0) = 0
    <3> SUFFICES ASSUME Gapless(root) PROVE Or(Coordinates(item.gap), 0) = 0
      OBVIOUS
    <3> DEFINE gap == Coordinates(item.gap)
    <3>1. gap \subseteq {0}
      BY <1>5 DEF Gapless, Coordinates, Bounded
    <3> HIDE DEF gap
    <3> QED  BY <3>1, OrElement, OrDefault DEF gap
  <2> HIDE DEF before, after, n, m, spots, a, next, call, item
  <2>4. \A i \in 1..m : Inside(p, spots[i]) => Inside(p, before[a])
    BY <1>4, <1>10 DEF before
  <2>5. /\ Apart(p, n, before) /\ Apart(p, m, spots) => Apart(p, n + m - 1, after)
        /\ Met(p, n, before) /\ (Inside(p, before[a]) => Met(p, m, spots))
             => Met(p, n + m - 1, after)
    BY <1>9, <2>4, SplicedPlaces DEF before, after
  <2>6. before[a] = call.bounds
    BY <1>10 DEF before
  <2> QED  BY <1>4, <1>9, <2>1, <2>2, <2>3, <2>5, <2>6 DEF after
<1>15. Len(next) <= Len(calls) + Limit.widgets - 1
  <2>1. Limit.widgets \in Nat
    BY FieldsAssumption
  <2>2. m <= Limit.widgets /\ Len(next) = Len(calls) + m - 1
    BY <1>4, <1>9
  <2> HIDE DEF next, m
  <2> QED  BY <1>1, <1>17, <2>1, <2>2
<1> HIDE DEF next
<1>16. Accounted(root, p, widgets, next)
  BY <1>12, <1>13, <1>14 DEF Accounted, t
<1> QED  BY <1>15, <1>16 DEF next

\* The first call stands for the whole tree on the whole display.
LEMMA FirstIntact ==
    ASSUME NEW display, Sized(display), NEW root, TreeProper(root),
           NEW p \in Points(display.width, display.height)
    PROVE  Intact(root, p, 0,
                  FirstRead(Call(root, Rect(0, 0, display.width, display.height), 0, FALSE)))
<1> DEFINE whole == Rect(0, 0, display.width, display.height)
           call  == Call(root, whole, 0, FALSE)
           calls == <<call>>
           none  == <<>>
<1>1. Limit.nodes \in Nat /\ Limit.widgets \in Nat /\ Limit.depth \in Nat
  BY FieldsAssumption
<1>2. Inside(p, whole)
  BY DEF Inside, Rect, Points, Sized
<1>3. call.item = root /\ call.bounds = whole /\ call.depth = 0
  BY DEF Call
<1> HIDE DEF call, whole
<1>4. Len(calls) = 1 /\ calls[1] = call /\ Len(none) = 0 /\ Stations(none, calls) = 1
  BY DEF Stations
<1> HIDE DEF calls, none
<1>5. 0 \in 0..Deepest /\ root \in Levels(root)[0]
  <2>1. 0 \in 0..Deepest
    BY <1>1 DEF Deepest
  <2> DEFINE f == Levels(root)
  <2>2. LevelsUpto(root, Deepest, f)
    BY LevelsKnown
  <2> HIDE DEF f
  <2>3. f[0] = {root}
    BY <2>1, <2>2 DEF LevelsUpto
  <2> QED  BY <2>1, <2>3 DEF f
<1>6. /\ Spots(none, calls)[1] = whole
      /\ Owed(root, none, calls) = [i \in 1..1 |-> LeavesAt(root, 0, root)]
  BY <1>3, <1>4 DEF Spots, Owed
<1>7. LeavesAt(root, 0, root) = Leaves(root) /\ Leaves(root) \in Nat
  <2>1. LeavesAt(root, 0, root) = Leaves(root)
    BY <1>1, LeavesKnown DEF LeavesAt
  <2> QED  BY <1>5, <2>1, LeavesNat
<1>8. Summed(1, Owed(root, none, calls), Leaves(root))
  <2> DEFINE x == Leaves(root)
             s == Owed(root, none, calls)
             f == [i \in 0..1 |-> IF i = 0 THEN 0 ELSE x]
  <2>1. s[1] = x /\ x \in Nat
    BY <1>6, <1>7
  <2> HIDE DEF s, x
  <2>2. f = [i \in 0..1 |-> IF i = 0 THEN 0 ELSE f[i - 1] + s[i]]
    BY <2>1
  <2>3. f[1] = x
    OBVIOUS
  <2> HIDE DEF f
  <2>4. Summed(1, s, x)
    BY <2>2, <2>3 DEF Summed, Summing
  <2> QED  BY <2>4 DEF s, x
<1>9. Accounted(root, p, none, calls)
  <2>1. Apart(p, 1, Spots(none, calls))
    BY DEF Apart
  <2>2. Met(p, 1, Spots(none, calls))
    BY <1>2, <1>6 DEF Met
  <2>3. \A i \in 1..Len(calls) :
           calls[i].depth \in 0..Deepest /\ calls[i].item \in Levels(root)[calls[i].depth]
    BY <1>3, <1>4, <1>5
  <2> QED  BY <1>4, <1>8, <2>1, <2>2, <2>3 DEF Accounted
<1>10. 0 + 1 <= 1 + 0 * Limit.widgets
  BY <1>1
<1> DEFINE read == FirstRead(call)
<1>11. read.nodes = 0 /\ read.pending = calls /\ read.widgets = none
  BY DEF FirstRead, calls, none
<1> HIDE DEF read
<1>12. Intact(root, p, 0, read)
  <2>1. 0 + Len(read.pending) <= 1 + read.nodes * Limit.widgets
    BY <1>4, <1>10, <1>11
  <2>2. read.nodes \in 0..Limit.nodes
    BY <1>1, <1>11
  <2>3. Accounted(root, p, read.widgets, read.pending)
    BY <1>9, <1>11
  <2> QED  BY <2>1, <2>2, <2>3 DEF Intact
<1> QED  BY <1>12 DEF read, call, whole

\* A call adds at most as many as it counts for.
LEMMA CallsBounded ==
    ASSUME NEW k \in Nat, NEW nodes \in Nat, NEW limit \in Nat, NEW m, m \in Nat, NEW n, n \in Nat,
           k + m <= 1 + nodes * limit, n <= m + limit - 1 \/ n <= m - 1
    PROVE  (k + 1) + n <= 1 + (nodes + 1) * limit
<1>1. (nodes + 1) * limit = nodes * limit + limit /\ nodes * limit \in Nat
  BY ProductNat
<1> DEFINE x == nodes * limit
<1> HIDE DEF x
<1>2. k + m <= 1 + x /\ x \in Nat /\ (nodes + 1) * limit = x + limit
  BY <1>1 DEF x
<1> QED  BY <1>2

\* It stays so with every call.
LEMMA NextIntact ==
    ASSUME NEW display, Sized(display), NEW root, TreeProper(root),
           NEW p, p[1] \in Nat, p[2] \in Nat, NEW k \in Nat,
           NEW read, TreeRead(read, display), read.valid => Intact(root, p, k, read),
           ParseNext(display, read).valid
    PROVE  Intact(root, p, k + 1, ParseNext(display, read))
<1>1. CASE read.pending = <<>>
  <2>1. ParseNext(display, read) = read
    BY <1>1 DEF ParseNext
  <2>2. Intact(root, p, k, read)
    BY <2>1
  <2> QED  BY <1>1, <2>1, <2>2 DEF Intact
<1>2. CASE read.pending # <<>>
  <2> DEFINE call == Head(read.pending)
             rest == [read EXCEPT !.pending = Tail(@)]
             next == ParseNode(call, display, rest)
  <2>1. ParseNext(display, read) = next
    BY <1>2 DEF ParseNext
  <2>2. Has(read)
    BY DEF TreeRead, Has
  <2>3. /\ Has(rest) /\ rest.nodes = read.nodes /\ rest.widgets = read.widgets
        /\ rest.pending = Tail(read.pending)
    BY <2>2 DEF Has
  <2>4. rest.valid <=> read.valid
    BY <2>2 DEF Has
  <2> HIDE DEF rest
  <2>5. /\ rest.valid /\ ~call.refused /\ next.nodes = rest.nodes + 1
        /\ ~(next.nodes > Limit.nodes) /\ ~(call.depth > Limit.depth)
        /\ LeafAdded(call, display, rest, next) \/ ChildrenCalled(call, rest, next)
    <3>1. next.valid
      BY <2>1
    <3> HIDE DEF call
    <3> QED  BY <2>3, <3>1, NodeKept
  <2>6. Intact(root, p, k, read)
    BY <2>4, <2>5
  <2> DEFINE calls   == read.pending
             widgets == read.widgets
  <2>7. PICK S : widgets \in Seq(S)
    BY DEF TreeRead
  <2>8. PICK C : calls \in Seq(C) /\ \A c \in C : Callable(c, display)
    BY DEF TreeRead
  <2>9. /\ calls # <<>> /\ Accounted(root, p, widgets, calls)
        /\ k + Len(calls) <= 1 + read.nodes * Limit.widgets
        /\ read.nodes \in 0..Limit.nodes
    BY <1>2, <2>6 DEF Intact
  <2> HIDE DEF next, calls, widgets
  <2>10. call = calls[1] /\ OnDisplay(call.bounds, display) /\ Len(calls) \in Nat \ {0}
    <3>1. Len(calls) \in Nat \ {0} /\ 1 \in 1..Len(calls)
      BY <2>8, <2>9, EmptySeq
    <3>2. call = calls[1]
      BY DEF calls
    <3>3. calls[1] \in C
      BY <2>8, <3>1
    <3> QED  BY <2>5, <2>8, <3>1, <3>2, <3>3 DEF Callable
  <2>11. /\ Accounted(root, p, next.widgets, next.pending)
         /\ Len(next.pending) \in Nat
         /\ \/ Len(next.pending) <= Len(calls) + Limit.widgets - 1
            \/ Len(next.pending) <= Len(calls) - 1
    <3>1. CASE LeafAdded(call, display, rest, next)
      <4>1. PICK w \in ParseWidget(call.item, {call.bounds}, display).value :
                next.widgets = Append(widgets, w)
        BY <2>3, <3>1 DEF LeafAdded, widgets
      <4>2. next.pending = Tail(calls) /\ Len(Tail(calls)) = Len(calls) - 1
        BY <2>3, <2>8, <2>9, <3>1, HeadTailProperties DEF LeafAdded, calls
      <4>3. w.rect = calls[1].bounds
        BY <2>10, PlaceTaken
      <4>4. ~Inner(calls[1].item)
        <5> DEFINE type == call.item.type
        <5>1. Or(type, "") \notin {"", "row", "column", "stack"}
          BY <3>1 DEF LeafAdded
        <5> HIDE DEF type
        <5>2. type # {}
          BY <5>1 DEF Or
        <5>3. Or(type, "") \in type
          BY <5>2, OrElement
        <5>4. ~(type \subseteq {"row", "column", "stack"})
          BY <5>1, <5>3
        <5> QED  BY <2>10, <5>4 DEF Inner, type
      <4>5. Accounted(root, p, Append(widgets, w), Tail(calls))
        BY <2>5, <2>7, <2>8, <2>9, <2>10, <4>3, <4>4, LeafAccounted
      <4>6. Len(calls) - 1 \in Nat
        BY <2>10
      <4> QED  BY <4>1, <4>2, <4>5, <4>6
    <3>2. CASE ChildrenCalled(call, rest, next)
      <4>1. PICK kids : Descends(call, kids) /\ next.pending = kids \o Tail(calls)
        BY <2>3, <3>2 DEF ChildrenCalled, calls
      <4>2. next.widgets = widgets
        BY <2>3, <3>2 DEF ChildrenCalled, widgets
      <4>3. /\ Accounted(root, p, widgets, kids \o Tail(calls))
            /\ Len(kids \o Tail(calls)) <= Len(calls) + Limit.widgets - 1
        BY <2>5, <2>7, <2>8, <2>9, <2>10, <4>1, ChildrenAccounted
      <4>4. Len(kids \o Tail(calls)) \in Nat
        OBVIOUS
      <4> QED  BY <4>1, <4>2, <4>3, <4>4
    <3> QED  BY <2>5, <3>1, <3>2
  <2>12. next.nodes = read.nodes + 1 /\ next.nodes \in 0..Limit.nodes
    <3>1. Limit.nodes \in Nat
      BY FieldsAssumption
    <3> QED  BY <2>3, <2>5, <2>9, <3>1
  <2>13. (k + 1) + Len(next.pending) <= 1 + (read.nodes + 1) * Limit.widgets
    <3> DEFINE m     == Len(calls)
               n     == Len(next.pending)
               limit == Limit.widgets
               nodes == read.nodes
    <3>1. /\ m \in Nat /\ n \in Nat /\ k + m <= 1 + nodes * limit
          /\ n <= m + limit - 1 \/ n <= m - 1
      BY <2>9, <2>10, <2>11
    <3>2. limit \in Nat /\ nodes \in Nat
      BY <2>9, FieldsAssumption
    <3> HIDE DEF m, n, limit, nodes
    <3>3. (k + 1) + n <= 1 + (nodes + 1) * limit
      BY <3>1, <3>2, CallsBounded
    <3> QED  BY <3>3 DEF n, limit, nodes
  <2>14. Intact(root, p, k + 1, next)
    BY <2>11, <2>12, <2>13 DEF Intact
  <2> QED  BY <2>1, <2>14 DEF next
<1> QED  BY <1>1, <1>2

\* A tree that does not fail has all its widgets, and they lie as its leaves do.
LEMMA LeavesPlaced ==
    ASSUME NEW display, Sized(display), NEW root, TreeProper(root),
           ParseRoot(root, display).valid,
           NEW p \in Points(display.width, display.height)
    PROVE  LET items == ParseRoot(root, display).widgets
           IN  /\ Len(items) = Leaves(root)
               /\ Stackless(root) => Cardinality(Covering(items, p)) <= 1
               /\ Gapless(root) => Covering(items, p) # {}
<1> DEFINE n    == MaxCalls
           call == Call(root, Rect(0, 0, display.width, display.height), 0, FALSE)
           last == ParseRoot(root, display)
<1>1. n \in Nat /\ p[1] \in Nat /\ p[2] \in Nat
  BY CallsNat DEF Points, Sized
<1>2. PICK read : Reads(read, call, display) /\ last = read[n]
  <2> HIDE DEF call
  <2> QED  BY CallsKnown DEF ParseRoot, call
<1>3. TreeRead(read[0], display) /\ Intact(root, p, 0, read[0])
  BY <1>2, FirstTree, FirstIntact DEF Reads
<1> HIDE DEF n, call, last
<1> DEFINE Right(k) == TreeRead(read[k], display) /\ (read[k].valid => Intact(root, p, k, read[k]))
           S        == {k \in 0..n : Right(k)}
<1>4. 0 \in S
  BY <1>1, <1>3
<1>5. ASSUME NEW k \in 0..n - 1, k \in S PROVE k + 1 \in S
  <2>1. k \in Nat /\ k + 1 \in 0..n /\ read[k + 1] = ParseNext(display, read[k])
    BY <1>1, <1>2 DEF Reads, n
  <2> DEFINE now_ == read[k]
             next == read[k + 1]
  <2>2. TreeRead(now_, display) /\ (now_.valid => Intact(root, p, k, now_))
    BY <1>5
  <2>3. next = ParseNext(display, now_)
    BY <2>1
  <2> HIDE DEF now_, next
  <2>4. TreeRead(next, display)
    BY <2>2, <2>3, NextRead
  <2>5. next.valid => Intact(root, p, k + 1, next)
    BY <1>1, <2>1, <2>2, <2>3, NextIntact
  <2>6. Right(k + 1)
    BY <2>4, <2>5 DEF next
  <2> HIDE DEF Right
  <2> QED  BY <2>1, <2>6
<1> HIDE DEF S, Right
<1>6. \A k \in 0..n : k \in S
  BY <1>1, <1>4, <1>5, Induction
<1>7. TreeRead(last, display) /\ Intact(root, p, n, last)
  <2>1. Right(n)
    BY <1>1, <1>6 DEF S
  <2>2. last.valid
    BY DEF last
  <2> QED  BY <1>2, <2>1, <2>2 DEF Right
<1> DEFINE items == last.widgets
<1>8. last.pending = <<>>
  <2> DEFINE calls == last.pending
  <2>1. PICK C : calls \in Seq(C)
    BY <1>7 DEF TreeRead
  <2> DEFINE x == last.nodes
             y == Limit.nodes
             z == Limit.widgets
  <2>2. /\ x \in 0..y
        /\ calls # <<>> => n + Len(calls) <= 1 + x * z
    BY <1>7 DEF Intact
  <2>3. x \in Nat /\ y \in Nat /\ z \in Nat
    BY <2>2, FieldsAssumption
  <2>4. x * z <= y * z
    <3> HIDE DEF x, y, z
    <3> QED  BY <2>2, <2>3, ProductMonotone
  <2>5. n = 1 + y * z
    BY DEF n, MaxCalls
  <2> HIDE DEF calls, x, y, z
  <2>6. x * z \in Nat /\ y * z \in Nat
    BY <2>3, ProductNat
  <2>7. ASSUME calls # <<>> PROVE FALSE
    <3>1. Len(calls) \in Nat \ {0}
      BY <2>1, <2>7, EmptySeq
    <3> QED  BY <2>2, <2>4, <2>5, <2>6, <2>7, <3>1
  <2> QED  BY <2>7 DEF calls
<1>9. PICK S0 : items \in Seq(S0)
  BY <1>7 DEF TreeRead
<1>10. Accounted(root, p, items, <<>>)
  BY <1>7, <1>8 DEF Intact
<1> HIDE DEF items
<1> DEFINE m == Len(items)
<1>11. /\ m \in Nat /\ Stations(items, <<>>) = m /\ DOMAIN items = 1..m
       /\ \A i \in 1..m : Spots(items, <<>>)[i] = items[i].rect
       /\ \A i \in 1..m : Owed(root, items, <<>>)[i] = 1
  <2>1. m \in Nat /\ DOMAIN items = 1..m
    BY <1>9
  <2>2. Stations(items, <<>>) = m
    BY <2>1 DEF Stations
  <2> HIDE DEF m
  <2> QED  BY <2>1, <2>2 DEF Spots, Owed, m
<1>12. Leaves(root) = m
  <2>1. Summed(m, Owed(root, items, <<>>), Leaves(root))
    BY <1>10, <1>11 DEF Accounted
  <2> HIDE DEF m
  <2> QED  BY <1>11, <2>1, SumOfOnes
<1> HIDE DEF m
<1>13. ASSUME Stackless(root) PROVE Cardinality(Covering(items, p)) <= 1
  <2> DEFINE K == Covering(items, p)
  <2>1. \A i, j \in K : i = j
    BY <1>10, <1>11, <1>13 DEF Covering, Accounted, Apart
  <2> HIDE DEF K
  <2>2. CASE K = {}
    BY <2>2, FS_EmptySet DEF K
  <2>3. CASE K # {}
    <3>1. PICK i : K = {i}
      BY <2>1, <2>3
    <3>2. Cardinality(K) = 1
      BY <3>1, FS_Singleton
    <3> QED  BY <3>2 DEF K
  <2> QED  BY <2>2, <2>3
<1>14. ASSUME Gapless(root) PROVE Covering(items, p) # {}
  BY <1>10, <1>11, <1>14 DEF Covering, Accounted, Met
<1> QED  BY <1>12, <1>13, <1>14 DEF items, last, m

-----------------------------------------------------------------------------
(* Nothing is dropped. *)

\* A tree that is read gives these widgets.
LEMMA TreeShown ==
    ASSUME NEW display, Sized(display), NEW tree, TreeProper(tree),
           ParseRoot(tree, display).valid
    PROVE  TreeKept(tree, ParseRoot(tree, display).widgets, display)
<1> DEFINE items == ParseRoot(tree, display).widgets
           inks  == Points(display.width, display.height)
<1>1. PICK S : items \in Seq(S) /\ \A w \in S : WellMade(w, display)
  BY WidgetsRead DEF TreeRead
<1>2. /\ \A p \in inks : Len(items) = Leaves(tree)
      /\ \A p \in inks : /\ Stackless(tree) => Cardinality(Covering(items, p)) <= 1
                         /\ Gapless(tree) => Covering(items, p) # {}
  <2> SUFFICES ASSUME NEW p \in inks
               PROVE  /\ Len(items) = Leaves(tree)
                      /\ Stackless(tree) => Cardinality(Covering(items, p)) <= 1
                      /\ Gapless(tree) => Covering(items, p) # {}
    OBVIOUS
  <2> QED  BY LeavesPlaced
<1> HIDE DEF items
<1>3. \A w \in DOMAIN items : Fits(items[w].rect, display.width, display.height)
  <2>1. \A w \in DOMAIN items : items[w] \in S
    BY <1>1
  <2> QED  BY <1>1, <2>1 DEF WellMade, OnDisplay
<1>4. <<0, 0>> \in inks
  BY DEF Sized, Points
<1> QED  BY <1>2, <1>3, <1>4 DEF TreeKept, items

\* So does the card it is on, if the card was read without an error.
LEMMA CardShown ==
    ASSUME NEW display, Sized(display), NEW card, CardOnce(card),
           ParseCard(card, display).sound, NEW c \in ParseCard(card, display).value,
           NEW tree \in card.root
    PROVE  TreeKept(tree, c.content.items, display)
<1> DEFINE hold       == Durations(card.hold, Limit.min_hold, Limit.hold)
           transition == ParseTransition(card.transition)
           content    == ParseContent(card, display)
<1>1. c \in CardOf(card, hold, transition, content).value
      /\ CardOf(card, hold, transition, content).sound
  BY DEF ParseCard
<1> HIDE DEF hold, transition, content
<1>2. /\ content.value # {} /\ ~card.unknown
      /\ c.content = Or(content.value, <<>>)
  <2> DEFINE clean == transition.sound /\ content.sound /\ ~card.unknown
             read  == [id |-> Or(Identifiers(card.id), ""), hold |-> Or(hold, 0),
                       transition |-> Or(transition.value, <<>>),
                       content |-> Or(content.value, <<>>)]
  <2>1. content.value # {} /\ CardOf(card, hold, transition, content) = Found(read, clean)
    BY <1>1, Zenon DEF CardOf, Refused, Missing
  <2> HIDE DEF clean, read
  <2>2. clean /\ c = read
    BY <1>1, <2>1 DEF Found
  <2> QED  BY <2>1, <2>2 DEF clean, read
<1>3. card.root = {tree} /\ card.type = {"layout"} /\ TreeProper(tree)
  BY <1>2 DEF CardOnce, Once, TreeProper
<1>4. content = ParseLayout(card, display)
  BY <1>3 DEF content, ParseContent
<1>5. Or(card.root, <<>>) = tree
  BY <1>3, OrSingleton
<1> DEFINE read == ParseRoot(tree, display)
<1>6. content = LayoutOf(tree, read)
  BY <1>2, <1>3, <1>4, <1>5 DEF ParseLayout, Refused, Missing
<1> HIDE DEF read
<1> DEFINE layout == [kind |-> "layout", items |-> read.widgets]
<1>7. read.valid /\ content.value = {layout}
  BY <1>2, <1>6 DEF LayoutOf, Refused, Missing, Found
<1>8. c.content = layout
  <2> HIDE DEF layout
  <2> QED  BY <1>2, <1>7, OrSingleton
<1>9. TreeKept(tree, read.widgets, display)
  BY <1>3, <1>7, TreeShown DEF read
<1> QED  BY <1>8, <1>9

\* Indicators that are read without an error are all kept.
LEMMA IndicatorsKept ==
    ASSUME NEW indicators, NEW display, ParseIndicators(indicators, display).sound
    PROVE  Len(ParseIndicators(indicators, display).items) = Len(indicators)
<1> DEFINE n      == Len(indicators)
           parsed == [i \in 1..n |-> ParseIndicator(indicators[i], display)]
           kept   == KeepAll(parsed)
<1>1. n \in 1..Limit.indicators /\ ParseIndicators(indicators, display) = kept
  BY DEF ParseIndicators
<1> HIDE DEF n
<1>2. n \in Nat
  BY <1>1, FieldsAssumption
<1>3. Len(parsed) = n
  BY <1>2
<1> HIDE DEF parsed
<1>4. Following(kept.items, kept.ids, parsed, n)
  BY <1>1, <1>2, <1>3, EntriesKept
<1> QED  BY <1>1, <1>4 DEF Following, n

\* So it is of a configuration that loads.
LEMMA ConfigShown ==
    ASSUME NEW file, \A root \in file : WrittenOnce(root), NEW c \in LoadConfig(file)
    PROVE  \E root \in file : ShownKept(c, root)
<1>1. PICK root \in file :
          c \in ParseRootObject(root, ParseDisplay(root.display), ParseStatuses(root.statuses))
  BY DEF LoadConfig
<1> DEFINE display  == Or(ParseDisplay(root.display).value, <<>>)
           statuses == ParseStatuses(root.statuses)
           monitors == ParseMonitors(root.monitors, statuses.value)
           shown    == ParseShown(root, display, statuses.value)
<1>2. c \in Configuration(root, ParseDisplay(root.display), statuses, monitors, shown)
  BY <1>1 DEF ParseRootObject
<1> HIDE DEF statuses, monitors, shown
<1>3. /\ ErrorFree(root, ParseDisplay(root.display), statuses, monitors, shown)
      /\ c = [display    |-> display,
              statuses   |-> statuses.value,
              monitors   |-> monitors.items,
              indicators |-> IF root.indicators # {} THEN shown.items ELSE <<>>,
              cards      |-> IF root.cards # {} THEN shown.items ELSE <<>>]
  BY <1>2 DEF Configuration
<1>4. ParseDisplay(root.display).sound /\ shown.sound
  BY <1>3 DEF ErrorFree
<1>5. Sized(display)
  BY <1>4, DisplayRead
<1> HIDE DEF display
<1>6. c.display = display
  BY <1>3
<1>7. CASE root.indicators # {} /\ root.cards = {}
  <2> DEFINE entries == Or(root.indicators, <<>>)
  <2>1. shown = ParseIndicators(entries, display)
    BY <1>7 DEF ParseShown, shown
  <2> HIDE DEF entries
  <2>2. Len(shown.items) = Len(entries)
    BY <1>4, <2>1, IndicatorsKept
  <2>3. c.cards = <<>> /\ c.indicators = shown.items /\ Or(root.cards, <<>>) = <<>>
    BY <1>3, <1>7, OrDefault
  <2>4. Len(<<>>) = 0 /\ DOMAIN <<>> = 1..0 /\ 1..0 = {}
    OBVIOUS
  <2> QED  BY <2>2, <2>3, <2>4 DEF ShownKept, entries
<1>8. CASE root.indicators = {} /\ root.cards # {}
  <2> DEFINE cards == Or(root.cards, <<>>)
  <2>1. shown = ParseCards(cards, display, statuses.value)
    BY <1>8 DEF ParseShown, shown
  <2>2. \A i \in 1..Len(cards) : CardOnce(cards[i])
    BY <1>8, OrElement DEF WrittenOnce
  <2>3. c.cards = shown.items /\ c.indicators = <<>> /\ Or(root.indicators, <<>>) = <<>>
    BY <1>3, <1>8, OrDefault
  <2> HIDE DEF cards
  <2>4. /\ CardsMade(shown.items, display)
        /\ Len(shown.items) = Len(cards)
        /\ \A i \in 1..Len(cards) : /\ ParseCard(cards[i], display).sound
                                    /\ shown.items[i] \in ParseCard(cards[i], display).value
    BY <1>4, <1>5, <2>1, CardsRead
  <2>5. \A i \in 1..Len(cards) : \A tree \in cards[i].root :
            TreeKept(tree, shown.items[i].content.items, display)
    BY <1>5, <2>2, <2>4, CardShown
  <2>6. DOMAIN shown.items = 1..Len(cards)
    BY <2>4 DEF CardsMade
  <2> QED  BY <1>6, <2>3, <2>4, <2>5, <2>6 DEF ShownKept, cards
<1>9. (root.indicators # {} /\ root.cards = {}) \/ (root.indicators = {} /\ root.cards # {})
  BY <1>4 DEF ParseShown, shown
<1> QED  BY <1>7, <1>8, <1>9

\* So nothing is dropped from a file that was loaded.
LEMMA KeptWhenSound == DocumentsSound => NothingDropped
<1> SUFFICES ASSUME DocumentsSound, config # {} PROVE NothingDropped
  BY DEF NothingDropped, Loaded
<1>1. /\ Config \in LoadConfig(case.file)
      /\ Once(case.file) /\ \A root \in case.file : WrittenOnce(root)
  <2>1. PhaseSound
    BY DEF DocumentsSound
  <2> QED  BY <2>1, ConfigLoaded, CasesAssumption DEF PhaseSound
<1>2. \A root \in case.file : Root = root
  BY <1>1, OnceThe DEF Root
<1>3. StatusesMade(Config, The(Root.statuses))
  BY <1>1, ConfigStatuses DEF Root
<1>4. MonitorsMade(Config.monitors, Config.statuses)
      /\ RulesKept(Config.monitors, Or(Root.monitors, <<>>))
  BY <1>1, <1>2, ConfigMonitors
<1>5. ShownKept(Config, Root)
  BY <1>1, <1>2, ConfigShown
<1>6. DOMAIN Config.statuses = DOMAIN The(Root.statuses)
  BY <1>3 DEF StatusesMade
<1>7. /\ Len(Config.monitors) = Len(Or(Root.monitors, <<>>))
      /\ \A i \in DOMAIN Config.monitors :
            Len(Config.monitors[i].policy.rules) = Len(The(Root.monitors)[i].evaluate)
  <2> DEFINE monitors == Config.monitors
             entries  == Or(Root.monitors, <<>>)
  <2>1. \E S : monitors \in Seq(S)
    BY <1>4 DEF MonitorsMade
  <2>2. RulesKept(monitors, entries)
    BY <1>4
  <2>3. CASE Root.monitors = {}
    <3>1. entries = <<>>
      BY <2>3, OrDefault
    <3> HIDE DEF monitors, entries
    <3>2. DOMAIN monitors = 1..Len(monitors) /\ Len(monitors) = 0
      BY <2>1, <2>2, <3>1 DEF RulesKept
    <3>3. DOMAIN monitors = {}
      BY <3>2
    <3> QED  BY <2>2, <3>3 DEF RulesKept, monitors, entries
  <2>4. CASE Root.monitors # {}
    <3>1. entries = The(Root.monitors)
      BY <2>4, OrThe
    <3> HIDE DEF monitors, entries
    <3>2. DOMAIN monitors = 1..Len(monitors)
      BY <2>1
    <3>3. /\ Len(monitors) = Len(entries)
          /\ \A i \in DOMAIN monitors : Len(monitors[i].policy.rules) = Len(entries[i].evaluate)
      BY <2>2, <3>2 DEF RulesKept
    <3> QED  BY <3>1, <3>3 DEF monitors, entries
  <2> QED  BY <2>3, <2>4
<1> DEFINE cards == Or(Root.cards, <<>>)
<1>8. /\ Len(Config.indicators) = Len(Or(Root.indicators, <<>>))
      /\ Len(Config.cards) = Len(cards) /\ DOMAIN Config.cards = 1..Len(cards)
      /\ \A i \in 1..Len(cards) : \A tree \in cards[i].root :
            TreeKept(tree, Config.cards[i].content.items, Config.display)
  BY <1>5 DEF ShownKept
<1>9. ASSUME NEW i \in DOMAIN Config.cards, NEW tree \in The(Root.cards)[i].root
      PROVE  TreeKept(tree, Config.cards[i].content.items, Config.display)
  <2>1. Root.cards # {}
    <3>1. ASSUME Root.cards = {} PROVE FALSE
      <4>1. cards = <<>> /\ Len(<<>>) = 0 /\ 1..0 = {}
        BY <3>1, OrDefault
      <4> HIDE DEF cards
      <4> QED  BY <1>8, <1>9, <4>1
    <3> QED  BY <3>1
  <2>2. cards = The(Root.cards)
    BY <2>1, OrThe
  <2> QED  BY <1>8, <1>9, <2>2
<1> QED  BY <1>6, <1>7, <1>8, <1>9 DEF NothingDropped, TreeKept

\* Every entry of a file that the loader accepts is in the configuration it gives, with
\* all its rules and widgets, and the widgets of a tree share out the display: none off
\* it, no pixel in two of them, none left over but in the gaps the file asks for
\* (load_config_file, parse_card, parse_layout_node).
THEOREM NothingEverDropped == Spec => []NothingDropped
<1>1. Spec => []DocumentsSound
  BY DocumentsInvariant
<1> QED  BY <1>1, KeptWhenSound, PTL
==============================================================================
