--------------------------- MODULE AdmissionProofs ---------------------------
(***************************************************************************)
(* Proofs about Admission: what the store holds, that the search for a     *)
(* trust depth finds the shortest chain of invitations that hold, and how  *)
(* many keys it can admit.                                                 *)
(***************************************************************************)
EXTENDS Admission, FiniteSetTheorems, CommonFacts

-----------------------------------------------------------------------------
(***************************************************************************)
(* The store.                                                              *)
(***************************************************************************)

\* TypeOK with the shape of the maps.
StoreInv ==
    /\ TypeOK
    /\ DOMAIN edges = Keys /\ \A i \in Keys : DOMAIN edges[i] \subseteq Keys
    /\ max_invitees \in Nat

\* Invitation `v' takes its place in the store.
Placed(v) ==
    [edges EXCEPT ![v.issuer] =
        [s \in DOMAIN @ \cup {v.subject} |-> IF s = v.subject THEN v ELSE @[s]]]

LEMMA PlacedFacts ==
    ASSUME StoreInv, NEW v \in issued, NEW i \in Keys
    PROVE  /\ DOMAIN Placed(v) = Keys
           /\ i # v.issuer => Placed(v)[i] = edges[i]
           /\ i = v.issuer =>
                /\ DOMAIN Placed(v)[i] = DOMAIN edges[i] \cup {v.subject}
                /\ \A s \in DOMAIN Placed(v)[i] : Placed(v)[i][s] = IF s = v.subject THEN v ELSE edges[i][s]
  BY DEF Placed, StoreInv

LEMMA StoreInitInv == Init => StoreInv
<1> SUFFICES ASSUME Init PROVE StoreInv
  OBVIOUS
<1>1. Cardinality(Keys) \in Nat
  BY AdmissionAssumption, FS_CardinalityType
<1>2. max_invitees \in Nat /\ now \in 0 .. U64_MAX
  BY <1>1, AdmissionAssumption DEF Init, Unlimited
<1> QED
  BY <1>2 DEF Init, StoreInv, TypeOK

LEMMA StoreStep == StoreInv /\ [Next]_vars => StoreInv'
<1> SUFFICES ASSUME StoreInv, [Next]_vars PROVE StoreInv'
  OBVIOUS
<1>0. U64_MAX \in Nat
  BY AdmissionAssumption
<1>1. ASSUME NEW i \in Keys, NEW s \in Keys, NEW ttl \in TTLs, Issue(i, s, ttl) PROVE StoreInv'
  <2>1. PICK e : e = saturating_add(now, ttl)
    OBVIOUS
  <2>2. e \in 0 .. U64_MAX /\ now <= e /\ now \in 0 .. U64_MAX
    BY <1>0, <2>1, AdmissionAssumption DEF saturating_add, StoreInv, TypeOK
  <2>3. PICK v : v = [issuer |-> i, subject |-> s, issued_at |-> now, expires_at |-> e, signed |-> TRUE]
    OBVIOUS
  <2>4. v \in Invitations /\ v.issued_at <= v.expires_at
    BY <2>2, <2>3 DEF Invitations
  <2>5. issued' = issued \cup {v} /\ UNCHANGED <<roots, edges, max_invitees, now>>
    BY <1>1, <2>1, <2>3 DEF Issue
  <2> QED
    BY <2>4, <2>5 DEF StoreInv, TypeOK
<1>2. ASSUME NEW v \in issued, NEW s \in Keys, NEW e \in 0 .. U64_MAX, Alter(v, s, e) PROVE StoreInv'
  <2>1. v \in Invitations
    BY DEF StoreInv, TypeOK
  <2>2. PICK w : w = [v EXCEPT !.subject = s, !.expires_at = e, !.signed = FALSE]
    OBVIOUS
  <2>3. w \in Invitations /\ ~ w.signed
    BY <2>1, <2>2 DEF Invitations
  <2>4. issued' = issued \cup {w} /\ UNCHANGED <<roots, edges, max_invitees, now>>
    BY <1>2, <2>2 DEF Alter
  <2> QED
    BY <2>3, <2>4 DEF StoreInv, TypeOK
<1>3. ASSUME NEW v \in issued, Ingest(v) PROVE StoreInv'
  <2>1. edges' = Placed(v) /\ UNCHANGED <<roots, max_invitees, now, issued>>
    BY <1>3 DEF Ingest, Placed
  <2>2. v.issuer \in Keys /\ v.subject \in Keys
    BY DEF StoreInv, TypeOK, Invitations
  <2>3. DOMAIN edges' = Keys
    BY <2>1, <2>2, PlacedFacts
  <2>4. ASSUME NEW i \in Keys
        PROVE  /\ DOMAIN edges'[i] \subseteq Keys
               /\ \A s \in DOMAIN edges'[i] :
                    edges'[i][s] \in issued' /\ edges'[i][s].issuer = i /\ edges'[i][s].subject = s
    <3>1. CASE i = v.issuer
      <4>1. /\ DOMAIN edges'[i] = DOMAIN edges[i] \cup {v.subject}
            /\ \A s \in DOMAIN edges'[i] : edges'[i][s] = IF s = v.subject THEN v ELSE edges[i][s]
        BY <3>1, <2>1, PlacedFacts
      <4> QED
        BY <3>1, <4>1, <2>1, <2>2 DEF StoreInv, TypeOK
    <3>2. CASE i # v.issuer
      BY <3>2, <2>1, PlacedFacts DEF StoreInv, TypeOK
    <3> QED
      BY <3>1, <3>2
  <2> QED
    BY <2>1, <2>3, <2>4 DEF StoreInv, TypeOK
<1>4. ASSUME NEW r \in Keys, add_root(r) PROVE StoreInv'
  BY <1>4 DEF add_root, StoreInv, TypeOK
<1>5. ASSUME NEW n \in Caps, set_max_invitees_per_issuer(n) PROVE StoreInv'
  BY <1>5, AdmissionAssumption DEF set_max_invitees_per_issuer, StoreInv, TypeOK
<1>6. ASSUME NEW t \in 0 .. U64_MAX, SetClock(t) PROVE StoreInv'
  BY <1>6 DEF SetClock, StoreInv, TypeOK
<1>7. CASE UNCHANGED vars
  BY <1>7 DEF vars, StoreInv, TypeOK
<1> QED
  BY <1>1, <1>2, <1>3, <1>4, <1>5, <1>6, <1>7 DEF Next

LEMMA StoreInvHolds == Spec => []StoreInv
  BY StoreInitInv, StoreStep, PTL DEF Spec

\* The maps are keyed by the fields of what they hold, and what issue signs
\* never expires before it was issued, at the end of time too.
THEOREM TypeCorrect == Spec => []TypeOK
  BY StoreInvHolds, PTL DEF StoreInv

-----------------------------------------------------------------------------
(***************************************************************************)
(* Chains in a relation V on the keys, from a set R of roots.              *)
(***************************************************************************)
Chained(R, V, s, d) ==
    \E c \in [0 .. d -> Keys] :
        c[0] \in R /\ c[d] = s /\ \A k \in 1 .. d : <<c[k - 1], c[k]>> \in V

Shortest(R, V, s, m) ==
    LET lengths == {d \in 0 .. m : Chained(R, V, s, d)}
    IN  IF lengths = {} THEN None ELSE CHOOSE d \in lengths : \A e \in lengths : d <= e

LEMMA ChainedZero ==
    ASSUME NEW R \in SUBSET Keys, NEW V, NEW s \in Keys
    PROVE  Chained(R, V, s, 0) <=> s \in R
<1>1. ASSUME s \in R PROVE Chained(R, V, s, 0)
  <2>1. PICK c : c = [k \in 0 .. 0 |-> s]
    OBVIOUS
  <2>2. c \in [0 .. 0 -> Keys] /\ c[0] = s /\ \A k \in 1 .. 0 : FALSE
    BY <2>1
  <2> QED
    BY <1>1, <2>2 DEF Chained
<1> QED
  BY <1>1 DEF Chained

\* A chain is a shorter chain and a link.
LEMMA ChainedNext ==
    ASSUME NEW R, NEW V, NEW s \in Keys, NEW d \in Nat
    PROVE  Chained(R, V, s, d + 1) <=> \E i \in Keys : Chained(R, V, i, d) /\ <<i, s>> \in V
<1>1. ASSUME Chained(R, V, s, d + 1) PROVE \E i \in Keys : Chained(R, V, i, d) /\ <<i, s>> \in V
  <2>1. PICK c \in [0 .. (d + 1) -> Keys] :
            c[0] \in R /\ c[d + 1] = s /\ \A k \in 1 .. (d + 1) : <<c[k - 1], c[k]>> \in V
    BY <1>1 DEF Chained
  <2>2. PICK b : b = [k \in 0 .. d |-> c[k]]
    OBVIOUS
  <2>3. b \in [0 .. d -> Keys] /\ b[0] = c[0] /\ b[d] = c[d]
    BY <2>1, <2>2
  <2>4. ASSUME NEW k \in 1 .. d PROVE <<b[k - 1], b[k]>> \in V
    <3>1. b[k - 1] = c[k - 1] /\ b[k] = c[k] /\ k \in 1 .. (d + 1)
      BY <2>2
    <3> QED
      BY <2>1, <3>1
  <2>5. Chained(R, V, c[d], d)
    BY <2>1, <2>3, <2>4 DEF Chained
  <2>6. <<c[d], s>> \in V
    <3>1. d + 1 \in 1 .. (d + 1) /\ (d + 1) - 1 = d
      OBVIOUS
    <3> QED
      BY <2>1, <3>1
  <2>7. c[d] \in Keys
    BY <2>1
  <2> QED
    BY <2>5, <2>6, <2>7
<1>2. ASSUME NEW i \in Keys, Chained(R, V, i, d), <<i, s>> \in V PROVE Chained(R, V, s, d + 1)
  <2>1. PICK b \in [0 .. d -> Keys] : b[0] \in R /\ b[d] = i /\ \A k \in 1 .. d : <<b[k - 1], b[k]>> \in V
    BY <1>2 DEF Chained
  <2>2. PICK c : c = [k \in 0 .. (d + 1) |-> IF k = d + 1 THEN s ELSE b[k]]
    OBVIOUS
  <2>3. c \in [0 .. (d + 1) -> Keys] /\ c[0] = b[0] /\ c[d + 1] = s /\ c[d] = i
    BY <2>1, <2>2
  <2>4. ASSUME NEW k \in 1 .. (d + 1) PROVE <<c[k - 1], c[k]>> \in V
    <3>1. CASE k = d + 1
      <4>1. k - 1 = d
        BY <3>1
      <4> QED
        BY <1>2, <2>3, <3>1, <4>1
    <3>2. CASE k # d + 1
      <4>1. k \in 1 .. d /\ c[k - 1] = b[k - 1] /\ c[k] = b[k]
        BY <3>2, <2>2
      <4> QED
        BY <4>1, <2>1
    <3> QED
      BY <3>1, <3>2
  <2> QED
    BY <2>1, <2>3, <2>4 DEF Chained
<1> QED
  BY <1>1, <1>2

\* What a search by levels finds.
Met(V, F) == {s \in Keys : \E i \in F : <<i, s>> \in V}

LevelOf(R, V, subject, d, p) ==
    /\ p.visited = {s \in Keys : \E e \in 0 .. d : Chained(R, V, s, e)}
    /\ p.frontier = {s \in Keys : Chained(R, V, s, d) /\ \A e \in 0 .. d - 1 : ~ Chained(R, V, s, e)}
    /\ \/ p.found = None /\ \A e \in 0 .. d : ~ Chained(R, V, subject, e)
       \/ /\ p.found \in 0 .. d /\ Chained(R, V, subject, p.found)
          /\ \A e \in 0 .. p.found - 1 : ~ Chained(R, V, subject, e)

LEMMA LevelZero ==
    ASSUME NEW R \in SUBSET Keys, NEW V, NEW subject \in Keys
    PROVE  LevelOf(R, V, subject, 0,
                   [frontier |-> R, visited |-> R, found |-> IF subject \in R THEN 0 ELSE None])
<1>1. \A s \in Keys : Chained(R, V, s, 0) <=> s \in R
  BY ChainedZero
<1>2. 0 .. 0 = {0} /\ 0 .. 0 - 1 = {} /\ None # 0
  BY DEF None
<1> QED
  BY <1>1, <1>2 DEF LevelOf

\* Visiting a key once is enough: a link from a key with a shorter chain leads
\* to nothing new.
LEMMA LevelNext ==
    ASSUME NEW R \in SUBSET Keys, NEW V, NEW subject \in Keys, NEW d \in Nat,
           NEW p, LevelOf(R, V, subject, d, p),
           NEW met, met = Met(V, p.frontier)
    PROVE  LevelOf(R, V, subject, d + 1,
                   [frontier |-> met \ p.visited, visited |-> p.visited \cup met,
                    found |-> IF p.found = None /\ subject \in met THEN d + 1 ELSE p.found])
<1> DEFINE C(s, e) == Chained(R, V, s, e)
<1>1. ASSUME NEW s \in met PROVE C(s, d + 1) /\ s \in Keys
  BY ChainedNext DEF Met, LevelOf
<1>2. ASSUME NEW s \in Keys, C(s, d + 1), s \notin p.visited PROVE s \in met
  <2>1. PICK i \in Keys : C(i, d) /\ <<i, s>> \in V
    BY <1>2, ChainedNext
  <2>2. \A e \in 0 .. d - 1 : ~ C(i, e)
    <3> SUFFICES ASSUME NEW e \in 0 .. d - 1, C(i, e) PROVE FALSE
      OBVIOUS
    <3>1. C(s, e + 1) /\ e + 1 \in 0 .. d
      BY <2>1, ChainedNext
    <3> QED
      BY <3>1, <1>2 DEF LevelOf
  <2>3. i \in p.frontier
    BY <2>1, <2>2 DEF LevelOf
  <2> QED
    BY <2>1, <2>3 DEF Met
<1>3. \A e : e \in 0 .. d + 1 <=> e \in 0 .. d \/ e = d + 1
  OBVIOUS
<1>4. \A e : e \in 0 .. (d + 1) - 1 <=> e \in 0 .. d
  OBVIOUS
<1> HIDE DEF C
<1>5. p.visited = {s \in Keys : \E e \in 0 .. d : C(s, e)}
  BY DEF LevelOf, C
<1>6. p.visited \cup met = {s \in Keys : \E e \in 0 .. d + 1 : C(s, e)}
  BY <1>1, <1>2, <1>3, <1>5
<1>7. met \ p.visited = {s \in Keys : C(s, d + 1) /\ \A e \in 0 .. (d + 1) - 1 : ~ C(s, e)}
  BY <1>1, <1>2, <1>4, <1>5
<1>8. PICK found : found = IF p.found = None /\ subject \in met THEN d + 1 ELSE p.found
  OBVIOUS
<1>9. \/ found = None /\ \A e \in 0 .. d + 1 : ~ C(subject, e)
      \/ found \in 0 .. d + 1 /\ C(subject, found) /\ \A e \in 0 .. found - 1 : ~ C(subject, e)
  <2>1. CASE p.found = None /\ \A e \in 0 .. d : ~ C(subject, e)
    <3>1. CASE subject \in met
      <4>1. found = d + 1 /\ d + 1 \in 0 .. d + 1 /\ found - 1 = d
        BY <1>8, <2>1, <3>1
      <4> QED
        BY <1>1, <2>1, <3>1, <4>1
    <3>2. CASE subject \notin met
      <4>1. found = None /\ subject \notin p.visited
        BY <1>5, <1>8, <2>1, <3>2
      <4>2. ~ C(subject, d + 1)
        BY <1>2, <3>2, <4>1
      <4> QED
        BY <1>3, <2>1, <4>1, <4>2
    <3> QED
      BY <3>1, <3>2
  <2>2. CASE p.found \in 0 .. d /\ C(subject, p.found) /\ \A e \in 0 .. p.found - 1 : ~ C(subject, e)
    <3>1. found = p.found /\ found \in 0 .. d + 1
      BY <1>8, <2>2 DEF None
    <3> QED
      BY <2>2, <3>1
  <2> QED
    BY <2>1, <2>2 DEF LevelOf, C
<1> QED
  BY <1>6, <1>7, <1>8, <1>9 DEF LevelOf, C

-----------------------------------------------------------------------------
(***************************************************************************)
(* trust_depth finds the shortest chain.                                   *)
(***************************************************************************)

\* Who vouches for whom at t.
Vouching(t) ==
    {w \in Keys \X Keys : w[2] \in DOMAIN edges[w[1]] /\ verify(edges[w[1]][w[2]], t)}

LEMMA VouchingIs ==
    ASSUME NEW i \in Keys, NEW s \in Keys, NEW t
    PROVE  <<i, s>> \in Vouching(t) <=> s \in DOMAIN edges[i] /\ verify(edges[i][s], t)
<1>1. PICK w : w = <<i, s>>
  OBVIOUS
<1>2. w \in Keys \X Keys /\ w[1] = i /\ w[2] = s
  BY <1>1
<1>3. w \in Vouching(t) <=> s \in DOMAIN edges[i] /\ verify(edges[i][s], t)
  BY <1>2 DEF Vouching
<1> QED
  BY <1>1, <1>3

LEMMA SubjectsAreMet ==
    ASSUME StoreInv, NEW F \in SUBSET Keys, NEW t
    PROVE  Subjects(F, t) = Met(Vouching(t), F)
<1>1. \A s \in Subjects(F, t) : s \in Keys /\ \E i \in F : s \in DOMAIN edges[i] /\ verify(edges[i][s], t)
  BY DEF Subjects, StoreInv
<1>2. \A s \in Keys : (\E i \in F : s \in DOMAIN edges[i] /\ verify(edges[i][s], t)) => s \in Subjects(F, t)
  BY DEF Subjects
<1> QED
  BY <1>1, <1>2, VouchingIs DEF Met

\* The recursive function is what its definition says, level by level.
LEMMA SearchRuns ==
    ASSUME StoreInv, NEW subject \in Keys, NEW t, NEW V, V = Vouching(t), NEW R, R = roots
    PROVE  LET f == Search(subject, t)
           IN  /\ f[0] = [frontier |-> R, visited |-> R, found |-> IF subject \in R THEN 0 ELSE None]
               /\ \A d \in Nat :
                    f[d + 1] = [frontier |-> Met(V, f[d].frontier) \ f[d].visited,
                                visited |-> f[d].visited \cup Met(V, f[d].frontier),
                                found |-> IF f[d].found = None /\ subject \in Met(V, f[d].frontier)
                                          THEN d + 1 ELSE f[d].found]
<1> DEFINE A == [frontier |-> R, visited |-> R, found |-> IF subject \in R THEN 0 ELSE None]
           B(p, d, met) == [frontier |-> met \ p.visited, visited |-> p.visited \cup met,
                            found |-> IF p.found = None /\ subject \in met THEN d ELSE p.found]
           S == [frontier : SUBSET Keys, visited : SUBSET Keys, found : Int]
           Eq(f) == f = [d \in Nat |-> IF d = 0 THEN A ELSE B(f[d - 1], d, Subjects(f[d - 1].frontier, t))]
<1>1. R \in SUBSET Keys
  BY DEF StoreInv, TypeOK
<1>2. A \in S
  BY <1>1 DEF None
<1>3. \A p \in S, d \in Nat : B(p, d + 1, Met(V, p.frontier)) \in S
  BY DEF Met
<1>4. \A p \in S : Subjects(p.frontier, t) = Met(V, p.frontier)
  BY SubjectsAreMet
<1>5. PICK F : F = [d \in Nat |-> [p \in S |-> B(p, d + 1, Met(V, p.frontier))]]
  OBVIOUS
<1>6. F \in [Nat -> [S -> S]]
  <2> HIDE DEF S, B
  <2> QED
    BY <1>3, <1>5
<1>7. PICK g \in [Nat -> S] : g[0] = A /\ \A n \in Nat : g[n + 1] = F[n][g[n]]
  <2> HIDE DEF S, A, B
  <2> QED
    BY <1>2, <1>6, Iteration
<1> HIDE DEF S, A, B
<1>8. Eq(g)
  <2>1. ASSUME NEW d \in Nat
        PROVE  g[d] = IF d = 0 THEN A ELSE B(g[d - 1], d, Subjects(g[d - 1].frontier, t))
    <3>1. CASE d # 0
      <4>1. PICK n \in Nat : n = d - 1 /\ n + 1 = d
        BY <3>1
      <4>2. g[n] \in S /\ g[d] = F[n][g[n]]
        BY <1>7, <4>1
      <4>3. F[n][g[n]] = B(g[n], n + 1, Met(V, g[n].frontier))
        BY <1>5, <4>2
      <4> QED
        BY <3>1, <4>1, <4>2, <4>3, <1>4
    <3> QED
      BY <3>1, <1>7
  <2> QED
    BY <2>1, <1>7
<1>9. PICK f : f = CHOOSE h : Eq(h)
  OBVIOUS
<1>10. Eq(f)
  <2> HIDE DEF Eq
  <2> QED
    BY <1>8, <1>9
<1>11. Search(subject, t) = f
  BY <1>9 DEF Search, A, B
<1>12. Nat \subseteq {d \in Nat : f[d] = g[d]}
  <2>1. PICK T : T = {d \in Nat : f[d] = g[d]}
    OBVIOUS
  <2>2. 0 \in T
    BY <1>7, <1>10, <2>1
  <2>3. ASSUME NEW n \in Nat, n \in T PROVE n + 1 \in T
    <3>1. PICK d \in Nat : d = n + 1 /\ d # 0 /\ d - 1 = n
      OBVIOUS
    <3>2. f[d] = B(f[n], d, Subjects(f[n].frontier, t))
      BY <1>10, <3>1
    <3>3. g[d] = B(g[n], d, Subjects(g[n].frontier, t))
      BY <1>8, <3>1
    <3>4. f[n] = g[n]
      BY <2>1, <2>3
    <3>5. f[d] = g[d]
      BY <3>2, <3>3, <3>4
    <3> QED
      BY <2>1, <3>1, <3>5
  <2> HIDE DEF Eq
  <2> QED
    BY <2>1, <2>2, <2>3, Induction
<1>13. f[0] = A
  BY <1>10
<1>14. ASSUME NEW d \in Nat PROVE f[d + 1] = B(f[d], d + 1, Met(V, f[d].frontier))
  <2>1. d + 1 \in Nat /\ d + 1 # 0 /\ (d + 1) - 1 = d
    OBVIOUS
  <2>2. f[d + 1] = B(f[d], d + 1, Subjects(f[d].frontier, t))
    BY <1>10, <2>1
  <2>3. f[d] \in S
    BY <1>7, <1>12
  <2> QED
    BY <1>4, <2>2, <2>3
<1> QED
  BY <1>11, <1>13, <1>14 DEF A, B

LEMMA SearchLevels ==
    ASSUME StoreInv, NEW subject \in Keys, NEW t, NEW V, V = Vouching(t), NEW R, R = roots, NEW d \in Nat
    PROVE  LevelOf(R, V, subject, d, Search(subject, t)[d])
<1>1. PICK f : f = Search(subject, t)
  OBVIOUS
<1>2. /\ f[0] = [frontier |-> R, visited |-> R, found |-> IF subject \in R THEN 0 ELSE None]
      /\ \A n \in Nat :
           f[n + 1] = [frontier |-> Met(V, f[n].frontier) \ f[n].visited,
                       visited |-> f[n].visited \cup Met(V, f[n].frontier),
                       found |-> IF f[n].found = None /\ subject \in Met(V, f[n].frontier)
                                 THEN n + 1 ELSE f[n].found]
  BY <1>1, SearchRuns
<1>3. R \in SUBSET Keys
  BY DEF StoreInv, TypeOK
<1>4. PICK T : T = {n \in Nat : LevelOf(R, V, subject, n, f[n])}
  OBVIOUS
<1>5. 0 \in T
  BY <1>2, <1>3, <1>4, LevelZero
<1>6. ASSUME NEW n \in Nat, n \in T PROVE n + 1 \in T
  <2>1. LevelOf(R, V, subject, n, f[n])
    BY <1>4, <1>6
  <2>2. LevelOf(R, V, subject, n + 1, f[n + 1])
    <3>1. PICK p : p = f[n]
      OBVIOUS
    <3>2. PICK met : met = Met(V, p.frontier)
      OBVIOUS
    <3>3. LevelOf(R, V, subject, n + 1,
                  [frontier |-> met \ p.visited, visited |-> p.visited \cup met,
                   found |-> IF p.found = None /\ subject \in met THEN n + 1 ELSE p.found])
      BY <1>3, <2>1, <3>1, <3>2, LevelNext
    <3> QED
      BY <1>2, <3>1, <3>2, <3>3
  <2> QED
    BY <1>4, <2>2
<1>7. d \in T
  BY <1>5, <1>6, Induction
<1> QED
  BY <1>1, <1>4, <1>7

\* trust_depth is the length of the shortest chain, if that is within max_depth.
LEMMA DepthIs ==
    ASSUME StoreInv, NEW subject \in Keys, NEW t, NEW m \in Nat
    PROVE  /\ trust_depth(subject, m, t) = Shortest(roots, Vouching(t), subject, m)
           /\ is_admitted(subject, m, t) <=> \E d \in 0 .. m : Chained(roots, Vouching(t), subject, d)
           /\ is_admitted(subject, m, t) =>
                /\ trust_depth(subject, m, t) \in 0 .. m
                /\ Chained(roots, Vouching(t), subject, trust_depth(subject, m, t))
                /\ \A e \in 0 .. m : Chained(roots, Vouching(t), subject, e) => trust_depth(subject, m, t) <= e
<1>1. PICK V, R : V = Vouching(t) /\ R = roots
  OBVIOUS
<1>2. PICK x : x = trust_depth(subject, m, t)
  OBVIOUS
<1>3. \/ x = None /\ \A e \in 0 .. m : ~ Chained(R, V, subject, e)
      \/ x \in 0 .. m /\ Chained(R, V, subject, x) /\ \A e \in 0 .. x - 1 : ~ Chained(R, V, subject, e)
  BY <1>1, <1>2, SearchLevels DEF LevelOf, trust_depth
<1>4. PICK L : L = {d \in 0 .. m : Chained(R, V, subject, d)}
  OBVIOUS
<1>5. CASE x = None /\ \A e \in 0 .. m : ~ Chained(R, V, subject, e)
  <2>1. L = {}
    BY <1>4, <1>5
  <2>2. Shortest(R, V, subject, m) = None
    BY <1>4, <2>1 DEF Shortest
  <2> QED
    BY <1>1, <1>2, <1>5, <2>2 DEF is_admitted
<1>6. CASE x \in 0 .. m /\ Chained(R, V, subject, x) /\ \A e \in 0 .. x - 1 : ~ Chained(R, V, subject, e)
  <2>1. x \in L /\ x # None
    BY <1>4, <1>6 DEF None
  <2>2. \A e \in L : x <= e
    <3> SUFFICES ASSUME NEW e \in L, ~ (x <= e) PROVE FALSE
      OBVIOUS
    <3>1. e \in 0 .. x - 1 /\ Chained(R, V, subject, e)
      BY <1>4, <1>6
    <3> QED
      BY <1>6, <3>1
  <2>3. (CHOOSE d \in L : \A e \in L : d <= e) = x
    <3>1. PICK y : y = CHOOSE d \in L : \A e \in L : d <= e
      OBVIOUS
    <3>2. y \in L /\ \A e \in L : y <= e
      BY <2>1, <2>2, <3>1
    <3>3. x \in Int /\ y \in Int /\ x <= y /\ y <= x
      BY <1>4, <2>1, <2>2, <3>2
    <3> QED
      BY <3>1, <3>3
  <2>4. Shortest(R, V, subject, m) = x
    BY <1>4, <2>1, <2>3 DEF Shortest
  <2>5. \A e \in 0 .. m : Chained(R, V, subject, e) => x <= e
    BY <1>4, <2>2
  <2> QED
    BY <1>1, <1>2, <1>6, <2>1, <2>4, <2>5 DEF is_admitted
<1> QED
  BY <1>3, <1>5, <1>6

LEMMA ChainedMore ==
    ASSUME NEW R, NEW V, NEW W, V \subseteq W, NEW s, NEW d, Chained(R, V, s, d)
    PROVE  Chained(R, W, s, d)
  BY DEF Chained

\* The search of trust_depth finds the length of the shortest chain of
\* invitations that hold now, if that is within max_depth, and nothing
\* otherwise: visiting each key once loses no chain, whatever cycles there are.
THEOREM DepthsAreShortest == Spec => []DepthIsShortest
<1>1. ASSUME NEW s \in Keys, NEW d \in Nat
      PROVE  Chains(s, d, Holds) # {} <=> Chained(roots, Vouching(now), s, d)
  <2>1. ASSUME NEW c \in [0 .. d -> Keys], NEW k \in 1 .. d
        PROVE  Holds(c[k - 1], c[k]) <=> <<c[k - 1], c[k]>> \in Vouching(now)
    <3>1. c[k - 1] \in Keys /\ c[k] \in Keys
      OBVIOUS
    <3> QED
      BY <3>1, VouchingIs DEF Holds
  <2> QED
    BY <2>1 DEF Chains, Chained
<1>2. StoreInv => DepthIsShortest
  <2> SUFFICES ASSUME StoreInv, NEW s \in Keys, NEW m \in 0 .. MaxDepth
               PROVE  LET lengths == {d \in 0 .. m : Chains(s, d, Holds) # {}}
                      IN  trust_depth(s, m, now) =
                            IF lengths = {} THEN None ELSE CHOOSE d \in lengths : \A e \in lengths : d <= e
    BY DEF DepthIsShortest
  <2>1. m \in Nat
    BY AdmissionAssumption
  <2>2. trust_depth(s, m, now) = Shortest(roots, Vouching(now), s, m)
    BY <2>1, DepthIs
  <2>3. {d \in 0 .. m : Chains(s, d, Holds) # {}} = {d \in 0 .. m : Chained(roots, Vouching(now), s, d)}
    BY <1>1, <2>1
  <2> QED
    BY <2>2, <2>3 DEF Shortest
<1> QED
  BY <1>2, StoreInvHolds, PTL

\* Whoever is_admitted lets in was vouched for by a root, through invitations
\* that were really issued and hold now.
THEOREM AdmittedAreVouched == Spec => []AdmittedIsVouched
<1>1. StoreInv => AdmittedIsVouched
  <2> SUFFICES ASSUME StoreInv, NEW s \in Keys, is_admitted(s, MaxDepth, now)
               PROVE  \E d \in 0 .. MaxDepth : Chains(s, d, Genuine) # {}
    BY DEF AdmittedIsVouched
  <2>1. PICK d \in 0 .. MaxDepth : Chained(roots, Vouching(now), s, d)
    BY DepthIs, AdmissionAssumption
  <2>2. PICK c \in [0 .. d -> Keys] :
            c[0] \in roots /\ c[d] = s /\ \A k \in 1 .. d : <<c[k - 1], c[k]>> \in Vouching(now)
    BY <2>1 DEF Chained
  <2>3. ASSUME NEW i \in Keys, NEW j \in Keys, <<i, j>> \in Vouching(now) PROVE Genuine(i, j)
    <3>1. j \in DOMAIN edges[i] /\ verify(edges[i][j], now)
      BY <2>3, VouchingIs
    <3> QED
      BY <3>1 DEF Genuine, verify, StoreInv, TypeOK
  <2>4. ASSUME NEW k \in 1 .. d PROVE Genuine(c[k - 1], c[k])
    <3>1. c[k - 1] \in Keys /\ c[k] \in Keys
      BY AdmissionAssumption
    <3> QED
      BY <2>2, <2>3, <3>1
  <2>5. c \in Chains(s, d, Genuine)
    BY <2>2, <2>4 DEF Chains
  <2>6. Chains(s, d, Genuine) # {}
    BY <2>5
  <2> QED
    BY <2>6
<1> QED
  BY <1>1, StoreInvHolds, PTL

\* A later instant, from the last issue date in the store on, finds no chain an
\* earlier one does not.
LEMMA VouchingLapses ==
    ASSUME StoreInv, NEW t \in 0 .. U64_MAX, NEW u \in 0 .. U64_MAX, t <= u,
           \A i \in Keys : \A r \in DOMAIN edges[i] : edges[i][r].issued_at <= t
    PROVE  Vouching(u) \subseteq Vouching(t)
<1> SUFFICES ASSUME NEW i \in Keys, NEW s \in Keys, <<i, s>> \in Vouching(u)
             PROVE  <<i, s>> \in Vouching(t)
  BY DEF Vouching
<1>1. s \in DOMAIN edges[i] /\ verify(edges[i][s], u)
  BY VouchingIs
<1>2. edges[i][s].expires_at \in 0 .. U64_MAX
  BY <1>1 DEF StoreInv, TypeOK, Invitations
<1>3. U64_MAX \in Nat
  BY AdmissionAssumption
<1>4. verify(edges[i][s], t)
  BY <1>1, <1>2, <1>3 DEF verify
<1> QED
  BY <1>1, <1>4, VouchingIs

\* Time alone only takes admission away, and never shortens a chain.
THEOREM AdmissionLapses == Spec => []LapsesForGood
<1>1. StoreInv => LapsesForGood
  <2> SUFFICES ASSUME StoreInv, NEW s \in Keys, NEW t \in 0 .. U64_MAX, NEW u \in 0 .. U64_MAX, t <= u,
                      \A i \in Keys : \A r \in DOMAIN edges[i] : edges[i][r].issued_at <= t,
                      is_admitted(s, MaxDepth, u)
               PROVE  /\ is_admitted(s, MaxDepth, t)
                      /\ trust_depth(s, MaxDepth, t) <= trust_depth(s, MaxDepth, u)
    BY DEF LapsesForGood
  <2>1. MaxDepth \in Nat
    BY AdmissionAssumption
  <2>2. PICK d : d = trust_depth(s, MaxDepth, u)
    OBVIOUS
  <2>3. d \in 0 .. MaxDepth /\ Chained(roots, Vouching(u), s, d)
    BY <2>1, <2>2, DepthIs
  <2>4. Chained(roots, Vouching(t), s, d)
    BY <2>3, VouchingLapses, ChainedMore
  <2>5. is_admitted(s, MaxDepth, t)
    BY <2>1, <2>3, <2>4, DepthIs
  <2>6. trust_depth(s, MaxDepth, t) <= d
    BY <2>1, <2>3, <2>4, <2>5, DepthIs
  <2> QED
    BY <2>2, <2>5, <2>6
<1> QED
  BY <1>1, StoreInvHolds, PTL

\* Who is admitted, in words of chains: a form that can be primed.
AdmittedAre ==
    \A s \in Keys :
        is_admitted(s, MaxDepth, now) <=> \E d \in 0 .. MaxDepth : Chained(roots, Vouching(now), s, d)

LEMMA AdmittedByChain == StoreInv => AdmittedAre
  BY DepthIs, AdmissionAssumption DEF AdmittedAre

\* Only the clock takes admission away: ingest replaces an invitation only by
\* one that holds now.
THEOREM IngestNeverRevokes == Spec => OnlyTimeRevokes
<1>1. ASSUME StoreInv, StoreInv', AdmittedAre, AdmittedAre', [Next]_vars, edges' # edges, now' = now,
             NEW s \in Keys, is_admitted(s, MaxDepth, now)
      PROVE  is_admitted(s, MaxDepth, now)'
  <2>1. PICK v \in issued : Ingest(v)
    BY <1>1 DEF Next, Issue, Alter, add_root, set_max_invitees_per_issuer, SetClock, vars
  <2>2. edges' = Placed(v) /\ verify(v, now) /\ roots' = roots
    BY <2>1 DEF Ingest, Placed
  <2>3. PICK W : W = Vouching(now)'
    OBVIOUS
  <2>4. Vouching(now) \subseteq W
    <3> SUFFICES ASSUME NEW i \in Keys, NEW j \in Keys, <<i, j>> \in Vouching(now)
                 PROVE  <<i, j>> \in W
      BY DEF Vouching
    <3>1. j \in DOMAIN edges[i] /\ verify(edges[i][j], now)
      BY VouchingIs
    <3>2. j \in DOMAIN edges'[i] /\ (edges'[i][j] = edges[i][j] \/ edges'[i][j] = v)
      BY <1>1, <2>2, <3>1, PlacedFacts
    <3>3. verify(edges'[i][j], now')
      BY <1>1, <2>2, <3>1, <3>2
    <3>4. PICK w : w = <<i, j>>
      OBVIOUS
    <3>5. w \in Keys \X Keys /\ w[1] = i /\ w[2] = j
      BY <3>4
    <3>6. w \in Vouching(now)'
      BY <3>2, <3>3, <3>5 DEF Vouching, verify
    <3> QED
      BY <2>3, <3>4, <3>6
  <2>5. PICK d \in 0 .. MaxDepth : Chained(roots, Vouching(now), s, d)
    BY <1>1 DEF AdmittedAre
  <2>6. Chained(roots, W, s, d)
    BY <2>4, <2>5, ChainedMore
  <2>7. Chained(roots, Vouching(now), s, d)'
    BY <2>2, <2>3, <2>6 DEF Chained
  <2> QED
    BY <1>1, <2>7 DEF AdmittedAre
<1>2. StoreInv /\ StoreInv' /\ AdmittedAre /\ AdmittedAre' /\ [Next]_vars =>
        [edges' # edges /\ now' = now =>
            \A s \in Keys : is_admitted(s, MaxDepth, now) => is_admitted(s, MaxDepth, now)']_vars
  BY <1>1
<1> QED
  BY <1>2, AdmittedByChain, StoreInvHolds, PTL DEF Spec, OnlyTimeRevokes

-----------------------------------------------------------------------------
(***************************************************************************)
(* How many keys the chains admit.                                         *)
(***************************************************************************)

\* No issuer has more subjects in the store than the largest cap one of them came
\* in under.
CapInv == peak \in Nat /\ \A i \in Keys : Cardinality(DOMAIN edges[i]) <= peak

LEMMA EdgesFinite ==
    ASSUME StoreInv, NEW i \in Keys
    PROVE  IsFiniteSet(DOMAIN edges[i]) /\ Cardinality(DOMAIN edges[i]) \in Nat
<1>1. DOMAIN edges[i] \in SUBSET Keys
  BY DEF StoreInv
<1>2. IsFiniteSet(DOMAIN edges[i])
  BY <1>1, AdmissionAssumption, FS_Subset
<1> QED
  BY <1>2, FS_CardinalityType

LEMMA CapStep == StoreInv /\ CapInv /\ [Next]_vars => CapInv'
<1> SUFFICES ASSUME StoreInv, CapInv, [Next]_vars PROVE CapInv'
  OBVIOUS
<1>1. ASSUME NEW v \in issued, Ingest(v) PROVE CapInv'
  <2>1. edges' = Placed(v) /\ ~ CapReached(v.issuer, v.subject) /\ peak' = Peak(v)
    BY <1>1 DEF Ingest, Placed
  <2>2. peak \in Nat /\ max_invitees \in Nat
    BY DEF CapInv, StoreInv
  <2>3. peak' \in Nat /\ peak <= peak'
    BY <2>1, <2>2 DEF Peak
  <2>4. ASSUME NEW i \in Keys PROVE Cardinality(DOMAIN edges'[i]) <= peak'
    <3>1. Cardinality(DOMAIN edges[i]) \in Nat /\ Cardinality(DOMAIN edges[i]) <= peak
      BY EdgesFinite DEF CapInv
    <3>2. CASE i # v.issuer \/ v.subject \in DOMAIN edges[i]
      <4>1. DOMAIN edges'[i] = DOMAIN edges[i]
        BY <3>2, <2>1, PlacedFacts
      <4> QED
        BY <4>1, <3>1, <2>2, <2>3
    <3>3. CASE i = v.issuer /\ v.subject \notin DOMAIN edges[i]
      <4>1. DOMAIN edges'[i] = DOMAIN edges[i] \cup {v.subject}
        BY <3>3, <2>1, PlacedFacts
      <4>2. Cardinality(DOMAIN edges'[i]) = Cardinality(DOMAIN edges[i]) + 1
        BY <3>3, <4>1, EdgesFinite, FS_AddElement
      <4>3. Cardinality(DOMAIN edges[i]) < max_invitees
        BY <3>1, <3>3, <2>1, <2>2 DEF CapReached
      <4>4. max_invitees <= peak'
        BY <3>3, <2>1, <2>2 DEF Peak
      <4> QED
        BY <3>1, <4>2, <4>3, <4>4, <2>2, <2>3
    <3> QED
      BY <3>2, <3>3
  <2> QED
    BY <2>3, <2>4 DEF CapInv
<1>2. CASE UNCHANGED <<edges, peak>>
  BY <1>2 DEF CapInv
<1> QED
  BY <1>1, <1>2 DEF Next, Issue, Alter, add_root, set_max_invitees_per_issuer, SetClock, vars

LEMMA CapInvHolds == Spec => []CapInv
<1>1. Init => CapInv
  <2> SUFFICES ASSUME Init PROVE CapInv
    OBVIOUS
  <2>1. \A i \in Keys : DOMAIN edges[i] = {}
    BY DEF Init
  <2>2. peak = 0 /\ Cardinality({}) = 0
    BY FS_EmptySet DEF Init
  <2> QED
    BY <2>1, <2>2 DEF CapInv
<1> QED
  BY <1>1, CapStep, StoreInvHolds, PTL DEF Spec

\* The subjects of the issuers in F are at most `peak' for each of them: numbered
\* issuer by issuer, they are the image of F \X 1 .. peak.
LEMMA MetBounded ==
    ASSUME StoreInv, CapInv, NEW F \in SUBSET Keys, NEW t
    PROVE  /\ IsFiniteSet(F) /\ IsFiniteSet(Met(Vouching(t), F))
           /\ Cardinality(Met(Vouching(t), F)) <= Cardinality(F) * peak
<1>1. PICK M : M = Met(Vouching(t), F)
  OBVIOUS
<1>2. M \in SUBSET Keys
  BY <1>1 DEF Met
<1>3. IsFiniteSet(F) /\ IsFiniteSet(M) /\ Cardinality(F) \in Nat /\ Cardinality(M) \in Nat
  BY <1>2, AdmissionAssumption, FS_Subset, FS_CardinalityType
<1>4. peak \in Nat
  BY DEF CapInv
<1>5. PICK P : P = F \X (1 .. peak)
  OBVIOUS
<1>6. IsFiniteSet(P) /\ Cardinality(P) = Cardinality(F) * peak
  <2>1. IsFiniteSet(1 .. peak) /\ Cardinality(1 .. peak) = peak
    BY <1>4, FS_Interval
  <2> QED
    BY <1>3, <1>5, <2>1, FS_Product
<1>7. ASSUME NEW i \in F
      PROVE  \E g \in [1 .. Cardinality(DOMAIN edges[i]) -> DOMAIN edges[i]] :
                \A s \in DOMAIN edges[i] : \E k \in 1 .. Cardinality(DOMAIN edges[i]) : g[k] = s
  <2>1. PICK D : D = DOMAIN edges[i]
    OBVIOUS
  <2>2. IsFiniteSet(D)
    BY <2>1, EdgesFinite
  <2>3. ExistsBijection(1 .. Cardinality(D), D)
    BY <2>2, FS_CardinalityType
  <2>4. PICK g : g \in Bijection(1 .. Cardinality(D), D)
    BY <2>3 DEF ExistsBijection
  <2>5. g \in [1 .. Cardinality(D) -> D] /\ \A s \in D : \E k \in 1 .. Cardinality(D) : g[k] = s
    BY <2>4 DEF Bijection, Surjection
  <2> QED
    BY <2>1, <2>5
<1>8. PICK number : number = [i \in F |->
            CHOOSE g \in [1 .. Cardinality(DOMAIN edges[i]) -> DOMAIN edges[i]] :
                \A s \in DOMAIN edges[i] : \E k \in 1 .. Cardinality(DOMAIN edges[i]) : g[k] = s]
  OBVIOUS
<1>9. \A i \in F : \A s \in DOMAIN edges[i] : \E k \in 1 .. Cardinality(DOMAIN edges[i]) : number[i][k] = s
  BY <1>7, <1>8
<1>10. ASSUME NEW s \in M PROVE \E w \in P : number[w[1]][w[2]] = s
  <2>1. PICK i \in F : <<i, s>> \in Vouching(t)
    BY <1>1 DEF Met
  <2>2. s \in DOMAIN edges[i] /\ i \in Keys
    BY <1>2, <2>1, VouchingIs
  <2>3. PICK k \in 1 .. Cardinality(DOMAIN edges[i]) : number[i][k] = s
    BY <1>9, <2>2
  <2>4. k \in 1 .. peak
    BY <2>2, <2>3, <1>4, EdgesFinite DEF CapInv
  <2>5. PICK w : w = <<i, k>>
    OBVIOUS
  <2>6. w \in P /\ w[1] = i /\ w[2] = k
    BY <1>5, <2>4, <2>5
  <2> QED
    BY <2>3, <2>6
<1>11. PICK Q : Q = {w \in P : number[w[1]][w[2]] \in M}
  OBVIOUS
<1>12. IsFiniteSet(Q) /\ Cardinality(Q) <= Cardinality(P)
  BY <1>6, <1>11, FS_Subset
<1>13. PICK f : f = [w \in Q |-> number[w[1]][w[2]]]
  OBVIOUS
<1>14. f \in Surjection(Q, M)
  <2>1. f \in [Q -> M]
    BY <1>11, <1>13
  <2>2. \A s \in M : \E w \in Q : f[w] = s
    BY <1>10, <1>11, <1>13
  <2> QED
    BY <2>1, <2>2 DEF Surjection
<1>15. Cardinality(M) <= Cardinality(Q)
  BY <1>12, <1>14, FS_Surjection
<1>16. Cardinality(M) <= Cardinality(P)
  BY <1>3, <1>6, <1>12, <1>15, FS_CardinalityType
<1> QED
  BY <1>1, <1>3, <1>6, <1>16

LEMMA Growing ==
    ASSUME NEW r \in Nat, NEW p \in Nat
    PROVE  \E g \in [Nat -> Nat] : g[0] = r /\ \A n \in Nat : g[n + 1] = r + p * g[n]
<1>1. PICK F : F = [n \in Nat |-> [x \in Nat |-> r + p * x]]
  OBVIOUS
<1>2. F \in [Nat -> [Nat -> Nat]]
  <2>1. \A x \in Nat : p * x \in Nat
    OBVIOUS
  <2>2. \A x \in Nat : r + p * x \in Nat
    BY <2>1
  <2> QED
    BY <1>1, <2>2
<1> DEFINE N == Nat
           a == r
           G == F
<1>3. a \in N /\ G \in [Nat -> [N -> N]]
  BY <1>2
<1>4. a \in N /\ G \in [Nat -> [N -> N]] =>
        \E g \in [Nat -> N] : g[0] = a /\ \A n \in Nat : g[n + 1] = G[n][g[n]]
  <2> HIDE DEF N, a, G
  <2> QED
    BY Iteration
<1>5. PICK g \in [Nat -> Nat] : g[0] = r /\ \A n \in Nat : g[n + 1] = F[n][g[n]]
  BY <1>3, <1>4
<1> QED
  BY <1>1, <1>5

\* Room is what its definition says, level by level.
LEMMA RoomIs ==
    ASSUME NEW r, r = Cardinality(roots), r \in Nat, peak \in Nat
    PROVE  Room[0] = r /\ \A m \in Nat : Room[m] \in Nat /\ Room[m + 1] = r + peak * Room[m]
<1> DEFINE Eq(f) == f = [m \in Nat |-> IF m = 0 THEN r ELSE r + peak * f[m - 1]]
<1>1. PICK g \in [Nat -> Nat] : g[0] = r /\ \A n \in Nat : g[n + 1] = r + peak * g[n]
  BY Growing
<1>2. \A n \in Nat : g[n] \in Nat /\ g[n + 1] = r + peak * g[n]
  BY <1>1
<1>3. Eq(g)
  <2>1. ASSUME NEW m \in Nat PROVE g[m] = IF m = 0 THEN r ELSE r + peak * g[m - 1]
    <3>1. CASE m # 0
      <4>1. PICK n \in Nat : n = m - 1 /\ n + 1 = m
        BY <3>1
      <4> QED
        BY <3>1, <4>1, <1>2
    <3> QED
      BY <3>1, <1>1
  <2> QED
    BY <2>1, <1>1
<1>4. PICK f : f = CHOOSE h : Eq(h)
  OBVIOUS
<1>5. Eq(f)
  <2> HIDE DEF Eq
  <2> QED
    BY <1>3, <1>4
<1>6. Room = f
  BY <1>4 DEF Room
<1>7. Nat \subseteq {m \in Nat : f[m] = g[m]}
  <2>1. PICK T : T = {m \in Nat : f[m] = g[m]}
    OBVIOUS
  <2>2. 0 \in T
    BY <1>1, <1>5, <2>1
  <2>3. ASSUME NEW n \in Nat, n \in T PROVE n + 1 \in T
    <3>1. PICK d \in Nat : d = n + 1 /\ d # 0 /\ d - 1 = n
      OBVIOUS
    <3>2. f[d] = r + peak * f[n] /\ g[d] = r + peak * g[n]
      BY <1>3, <1>5, <3>1
    <3>3. f[n] = g[n]
      BY <2>1, <2>3
    <3> QED
      BY <2>1, <3>1, <3>2, <3>3
  <2> HIDE DEF Eq
  <2> QED
    BY <2>1, <2>2, <2>3, Induction
<1>8. \A m \in Nat : f[m] = g[m]
  BY <1>7
<1> QED
  BY <1>1, <1>2, <1>6, <1>8

LEMMA Within ==
    ASSUME StoreInv, NEW V, NEW d \in Nat
    PROVE  {s \in Keys : \E e \in 0 .. d + 1 : Chained(roots, V, s, e)}
               \subseteq roots \cup Met(V, {s \in Keys : \E e \in 0 .. d : Chained(roots, V, s, e)})
<1> SUFFICES ASSUME NEW s \in Keys, NEW e \in 0 .. d + 1, Chained(roots, V, s, e), s \notin roots
             PROVE  s \in Met(V, {k \in Keys : \E c \in 0 .. d : Chained(roots, V, k, c)})
  OBVIOUS
<1>1. roots \in SUBSET Keys
  BY DEF StoreInv, TypeOK
<1>2. e # 0
  BY <1>1, ChainedZero
<1>3. PICK c \in 0 .. d : e = c + 1 /\ c \in Nat
  BY <1>2
<1>4. PICK i \in Keys : Chained(roots, V, i, c) /\ <<i, s>> \in V
  <2>1. Chained(roots, V, s, c + 1)
    BY <1>3
  <2>2. Chained(roots, V, s, c + 1) <=> \E i \in Keys : Chained(roots, V, i, c) /\ <<i, s>> \in V
    BY <1>3, ChainedNext
  <2> QED
    BY <2>1, <2>2
<1> QED
  BY <1>4 DEF Met

\* The cap bounds what the chains admit: m levels admit at most Room[m] keys, at
\* every instant, although ingest counts subjects and is_admitted follows chains.
THEOREM AdmissionIsBounded == Spec => []AdmissionBounded
<1>1. ASSUME StoreInv, CapInv PROVE AdmissionBounded
  <2> DEFINE A(m) == {s \in Keys : \E e \in 0 .. m : Chained(roots, Vouching(now), s, e)}
  <2>1. PICK r : r = Cardinality(roots)
    OBVIOUS
  <2>2. roots \in SUBSET Keys /\ IsFiniteSet(roots) /\ r \in Nat /\ peak \in Nat
    BY <1>1, <2>1, AdmissionAssumption, FS_Subset, FS_CardinalityType DEF StoreInv, TypeOK, CapInv
  <2>3. Room[0] = r /\ \A m \in Nat : Room[m] \in Nat /\ Room[m + 1] = r + peak * Room[m]
    BY <2>1, <2>2, RoomIs
  <2>4. ASSUME NEW m \in Nat PROVE A(m) \in SUBSET Keys /\ IsFiniteSet(A(m)) /\ Cardinality(A(m)) \in Nat
    <3>1. A(m) \in SUBSET Keys
      OBVIOUS
    <3> HIDE DEF A
    <3> QED
      BY <3>1, AdmissionAssumption, FS_Subset, FS_CardinalityType
  <2>5. A(0) \subseteq roots
    BY <2>2, ChainedZero
  <2>6. \A m \in Nat : A(m + 1) \subseteq roots \cup Met(Vouching(now), A(m))
    BY <1>1, Within
  <2> HIDE DEF A
  <2>7. PICK T : T = {m \in Nat : Cardinality(A(m)) <= Room[m]}
    OBVIOUS
  <2>8. 0 \in T
    BY <2>1, <2>2, <2>3, <2>5, <2>7, FS_Subset
  <2>9. ASSUME NEW m \in Nat, m \in T PROVE m + 1 \in T
    <3>1. PICK M : M = Met(Vouching(now), A(m))
      OBVIOUS
    <3>2. IsFiniteSet(M) /\ Cardinality(M) <= Cardinality(A(m)) * peak
      BY <1>1, <2>4, <3>1, MetBounded
    <3>3. Cardinality(M) \in Nat /\ IsFiniteSet(roots \cup M) /\ Cardinality(roots \cup M) <= r + Cardinality(M)
      <4>1. IsFiniteSet(roots \cap M) /\ Cardinality(roots \cap M) \in Nat /\ Cardinality(M) \in Nat
        BY <2>2, <3>2, FS_Intersection, FS_CardinalityType
      <4>2. /\ IsFiniteSet(roots \cup M)
            /\ Cardinality(roots \cup M) = Cardinality(roots) + Cardinality(M) - Cardinality(roots \cap M)
        BY <2>2, <3>2, FS_Union
      <4> QED
        BY <4>1, <4>2, <2>1, <2>2
    <3>4. Cardinality(A(m + 1)) <= Cardinality(roots \cup M)
      BY <2>6, <3>1, <3>3, FS_Subset
    <3>5. Cardinality(A(m)) \in Nat /\ Cardinality(A(m)) <= Room[m] /\ Room[m] \in Nat
      BY <2>3, <2>4, <2>7, <2>9
    <3>6. Cardinality(A(m)) * peak <= peak * Room[m]
      <4>1. \A a, b, c \in Nat : a <= b => a * c <= c * b
        OBVIOUS
      <4> QED
        BY <4>1, <3>5, <2>2
    <3>7. Cardinality(A(m + 1)) \in Nat /\ Cardinality(roots \cup M) \in Nat
      BY <2>4, <3>3, FS_CardinalityType
    <3>8. Cardinality(A(m)) * peak \in Nat /\ peak * Room[m] \in Nat
      BY <2>2, <3>5
    <3>9. Cardinality(A(m + 1)) <= r + peak * Room[m]
      BY <2>2, <3>2, <3>3, <3>4, <3>6, <3>7, <3>8
    <3> QED
      BY <2>3, <2>7, <3>9
  <2>10. Nat \subseteq T
    BY <2>8, <2>9, Induction
  <2>11. ASSUME NEW m \in 0 .. MaxDepth
         PROVE  Cardinality({s \in Keys : is_admitted(s, m, now)}) <= Room[m]
    <3>1. m \in Nat
      BY AdmissionAssumption
    <3>2. {s \in Keys : is_admitted(s, m, now)} = A(m)
      BY <1>1, <3>1, DepthIs DEF A
    <3> QED
      BY <2>7, <2>10, <3>1, <3>2
  <2> QED
    BY <2>11 DEF AdmissionBounded
<1> QED
  BY <1>1, StoreInvHolds, CapInvHolds, PTL
==============================================================================
