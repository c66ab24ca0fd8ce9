----------------------------- MODULE CommonFacts -----------------------------
(***************************************************************************)
(* Facts the proofs of several components use: what the operations on      *)
(* queues do to the set their elements are from, and induction on the      *)
(* natural numbers, stated for sets of numbers.                            *)
(***************************************************************************)
EXTENDS Integers, Sequences, SequencesExt, SequenceTheorems, WellFoundedInduction, TLAPS

\* Reading: the first element and the rest are from the same set.
LEMMA SeqRead ==
    ASSUME NEW S, NEW q \in Seq(S), q # << >>
    PROVE  Head(q) \in S /\ Tail(q) \in Seq(S)
  BY HeadTailProperties

\* A set may be replaced by a larger one.
LEMMA SeqLarger ==
    ASSUME NEW S, NEW T, S \subseteq T, NEW q \in Seq(S)
    PROVE  q \in Seq(T)
  BY SeqMonotonic

\* Losing an element leaves elements of the same set.
LEMMA SeqRemove ==
    ASSUME NEW S, NEW q \in Seq(S), NEW i \in DOMAIN q
    PROVE  RemoveAt(q, i) \in Seq(S)
<1>1. i \in 1 .. Len(q) /\ Len(q) \in Nat
  BY LenProperties
<1>2. SubSeq(q, 1, i - 1) \in Seq(S)
  <2>1. 1 \in 1 .. Len(q) + 1 /\ i - 1 \in 1 - 1 .. Len(q)
    BY <1>1
  <2> QED
    BY <2>1, SubSeqProperties
<1>3. SubSeq(q, i + 1, Len(q)) \in Seq(S)
  <2>1. i + 1 \in 1 .. Len(q) + 1 /\ Len(q) \in (i + 1) - 1 .. Len(q)
    BY <1>1
  <2> QED
    BY <2>1, SubSeqProperties
<1> QED
  BY <1>2, <1>3, ConcatProperties DEF RemoveAt

\* Exchanging two neighbours keeps the elements.
LEMMA SeqSwap ==
    ASSUME NEW S, NEW q \in Seq(S), NEW i \in 2 .. Len(q)
    PROVE  [q EXCEPT ![i - 1] = q[i], ![i] = q[i - 1]] \in Seq(S)
<1>1. Len(q) \in Nat /\ i \in 1 .. Len(q) /\ i - 1 \in 1 .. Len(q)
  BY LenProperties
<1>2. q[i] \in S /\ q[i - 1] \in S
  BY <1>1, ElementOfSeq
<1>3. [q EXCEPT ![i - 1] = q[i]] \in Seq(S) /\ Len([q EXCEPT ![i - 1] = q[i]]) = Len(q)
  BY <1>1, <1>2, ExceptSeq
<1> DEFINE r == [q EXCEPT ![i - 1] = q[i]]
<1> HIDE DEF r
<1>4. [r EXCEPT ![i] = q[i - 1]] \in Seq(S)
  BY <1>1, <1>2, <1>3, ExceptSeq DEF r
<1> QED
  BY <1>4 DEF r

-----------------------------------------------------------------------------
\* A set of natural numbers has a least element.
LEMMA LeastNatural ==
    ASSUME NEW T \in SUBSET Nat, T # {}
    PROVE  \E n \in T : \A m \in T : n <= m
<1>1. PICK R : R = OpToRel(<, Nat)
  OBVIOUS
<1>2. IsWellFoundedOn(R, Nat)
  BY <1>1, NatLessThanWellFounded
<1>3. PICK n \in T : \A m \in T : <<m, n>> \notin R
  BY <1>2, WFMin
<1>4. R = {pair \in Nat \X Nat : pair[1] < pair[2]}
  BY <1>1 DEF OpToRel
<1>5. ASSUME NEW m \in T, m < n PROVE <<m, n>> \in R
  <2>1. PICK w : w = <<m, n>>
    OBVIOUS
  <2>2. w \in Nat \X Nat /\ w[1] = m /\ w[2] = n
    BY <2>1
  <2>3. w[1] < w[2]
    BY <2>2, <1>5
  <2> QED
    BY <2>1, <2>2, <2>3, <1>4
<1>6. \A m \in T : ~ (m < n)
  BY <1>3, <1>5
<1> QED
  BY <1>6

\* Induction: a set that holds 0 and is closed under successor holds every number.
LEMMA Induction ==
    ASSUME NEW T, 0 \in T, \A n \in Nat : n \in T => n + 1 \in T
    PROVE  Nat \subseteq T
<1> SUFFICES ASSUME Nat \ T # {} PROVE FALSE
  OBVIOUS
<1>1. PICK n \in Nat \ T : \A m \in Nat \ T : n <= m
  BY LeastNatural
<1>2. n # 0 /\ n - 1 \in Nat
  BY <1>1
<1>3. n - 1 \in T
  BY <1>1, <1>2
<1>4. (n - 1) + 1 \in T
  BY <1>2, <1>3
<1> QED
  BY <1>1, <1>4

\* Primitive recursion: steps F[n] from a give a sequence of values.
LEMMA Iteration ==
    ASSUME NEW S, NEW a \in S, NEW F \in [Nat -> [S -> S]]
    PROVE  \E f \in [Nat -> S] : f[0] = a /\ \A n \in Nat : f[n + 1] = F[n][f[n]]
<1> DEFINE Runs(n, g) == g \in [0 .. n -> S] /\ g[0] = a /\ \A m \in 0 .. n - 1 : g[m + 1] = F[m][g[m]]
<1>1. ASSUME NEW n \in Nat PROVE \E g : Runs(n, g)
  <2>1. PICK T : T = {k \in Nat : \E g : Runs(k, g)}
    OBVIOUS
  <2>2. 0 \in T
    <3>1. Runs(0, [k \in 0 .. 0 |-> a])
      OBVIOUS
    <3> HIDE DEF Runs
    <3> QED
      BY <2>1, <3>1
  <2>3. ASSUME NEW k \in Nat, k \in T PROVE k + 1 \in T
    <3>1. PICK g : Runs(k, g)
      BY <2>1, <2>3
    <3>2. g[k] \in S /\ F[k] \in [S -> S]
      BY <3>1
    <3>3. PICK b \in S : b = F[k][g[k]]
      BY <3>2
    <3>4. PICK h : h = [m \in 0 .. k + 1 |-> IF m = k + 1 THEN b ELSE g[m]]
      OBVIOUS
    <3>5. h \in [0 .. k + 1 -> S] /\ h[0] = a
      BY <3>1, <3>4
    <3>6. ASSUME NEW m \in 0 .. (k + 1) - 1 PROVE h[m + 1] = F[m][h[m]]
      <4>1. h[m] = g[m]
        BY <3>4
      <4>2. CASE m = k
        BY <4>1, <4>2, <3>3, <3>4
      <4>3. CASE m # k
        <5>1. m \in 0 .. k - 1 /\ h[m + 1] = g[m + 1]
          BY <4>3, <3>4
        <5> QED
          BY <5>1, <4>1, <3>1
      <4> QED
        BY <4>2, <4>3
    <3>7. Runs(k + 1, h)
      BY <3>5, <3>6
    <3> HIDE DEF Runs
    <3> QED
      BY <2>1, <3>7
  <2>4. Nat \subseteq T
    BY <2>2, <2>3, Induction
  <2> HIDE DEF Runs
  <2> QED
    BY <2>1, <2>4
<1>2. ASSUME NEW n \in Nat, NEW g, Runs(n, g), NEW h, Runs(n + 1, h)
      PROVE  g[n] = h[n]
  <2>1. PICK T : T = {k \in Nat : k <= n => g[k] = h[k]}
    OBVIOUS
  <2>2. 0 \in T
    BY <1>2, <2>1
  <2>3. ASSUME NEW k \in Nat, k \in T PROVE k + 1 \in T
    <3>1. CASE k + 1 <= n
      <4>1. k \in 0 .. n - 1 /\ k \in 0 .. (n + 1) - 1 /\ k <= n
        BY <3>1
      <4>2. g[k] = h[k]
        BY <4>1, <2>1, <2>3
      <4>3. g[k + 1] = F[k][g[k]] /\ h[k + 1] = F[k][h[k]]
        BY <4>1, <1>2
      <4> QED
        BY <4>2, <4>3, <2>1
    <3>2. CASE ~ (k + 1 <= n)
      BY <3>2, <2>1
    <3> QED
      BY <3>1, <3>2
  <2>4. n \in T
    BY <2>2, <2>3, Induction
  <2> QED
    BY <2>1, <2>4
<1>3. PICK run : run = [n \in Nat |-> CHOOSE g : Runs(n, g)]
  OBVIOUS
<1>4. \A n \in Nat : Runs(n, run[n])
  <2> HIDE DEF Runs
  <2> QED
    BY <1>1, <1>3
<1>5. PICK f : f = [n \in Nat |-> run[n][n]]
  OBVIOUS
<1>6. f \in [Nat -> S] /\ f[0] = a
  BY <1>4, <1>5
<1>7. ASSUME NEW n \in Nat PROVE f[n + 1] = F[n][f[n]]
  <2>1. Runs(n, run[n]) /\ Runs(n + 1, run[n + 1])
    BY <1>4
  <2>2. run[n][n] = run[n + 1][n]
    BY <2>1, <1>2
  <2>3. n \in 0 .. (n + 1) - 1
    OBVIOUS
  <2>4. run[n + 1][n + 1] = F[n][run[n + 1][n]]
    BY <2>1, <2>3
  <2> QED
    BY <2>2, <2>4, <1>5
<1> QED
  BY <1>6, <1>7
==============================================================================
