-------------------------- MODULE SessionLossProofs --------------------------
(***************************************************************************)
(* Proof that a session recovers from loss (LossRecovered of Session): the *)
(* retransmission intervals a send has waited through are accounted for by *)
(* frames that were dropped, so a send outlasts them and no frame runs out *)
(* of attempts.                                                            *)
(***************************************************************************)
EXTENDS SessionProofs

(***************************************************************************)
(* What the methods of the send half do to the slots.                      *)
(***************************************************************************)

\* A slot's fields and their ranges.
LEMMA HalfRanges ==
    ASSUME NEW t, SendHalf(t)
    PROVE  /\ t.retx \in Nat /\ t.retx <= MAX_AGE
           /\ Sent(t) \subseteq DOMAIN t.unacked /\ Unsent(t) \subseteq DOMAIN t.unacked
           /\ NewSends(t) \subseteq Unsent(t)
           /\ \A s \in DOMAIN t.unacked :
                /\ s \in Nat /\ s \in 0 .. (SEQ_MOD - 1)
                /\ t.unacked[s].age \in Int /\ t.unacked[s].attempts \in Nat
                /\ s \in Sent(t) <=> t.unacked[s].age >= 0
<1>1. PICK F : t.unacked \in
        [DOMAIN t.unacked -> [plaintext : F, age : Ages \cup {Never}, attempts : 0 .. MAX_ATTEMPTS]]
  BY DEF SendHalf
<1>2. ASSUME NEW s \in DOMAIN t.unacked
      PROVE  /\ s \in Nat /\ s \in 0 .. (SEQ_MOD - 1)
             /\ t.unacked[s].age \in Int /\ t.unacked[s].attempts \in Nat
             /\ s \in Sent(t) <=> t.unacked[s].age >= 0
  <2>1. t.unacked[s] \in [plaintext : F, age : Ages \cup {Never}, attempts : 0 .. MAX_ATTEMPTS]
    BY <1>1
  <2>2. t.unacked[s].age \in Ages \cup {Never} /\ t.unacked[s].attempts \in 0 .. MAX_ATTEMPTS
    BY <2>1
  <2>3. s \in Seqs
    BY DEF SendHalf
  <2>4. s \in Sent(t) <=> t.unacked[s].age # Never
    BY DEF Sent
  <2> QED
    BY <2>2, <2>3, <2>4, WidthsAssumption DEF Ages, Never, Seqs
<1> QED
  BY <1>2, WidthsAssumption DEF SendHalf, Ages, Sent, Unsent, NewSends

\* The sets of slots are finite.
LEMMA HalfFinite ==
    ASSUME NEW t, SendHalf(t), NEW S \in SUBSET DOMAIN t.unacked
    PROVE  IsFiniteSet(S) /\ Cardinality(S) \in Nat
<1>1. IsFiniteSet(0 .. (SEQ_MOD - 1))
  BY WidthsAssumption, FS_Interval
<1>2. S \subseteq 0 .. (SEQ_MOD - 1)
  BY HalfRanges
<1> QED
  BY <1>1, <1>2, FS_Subset, FS_CardinalityType

\* take_new_sends: what it marks.
LEMMA TakesNew ==
    ASSUME NEW t, SendHalf(t), NEW u, u = take_new_sends(t)
    PROVE  /\ u.retx = t.retx /\ DOMAIN u.unacked = DOMAIN t.unacked
           /\ Sent(u) = Sent(t) \cup NewSends(t) /\ Unsent(u) = Unsent(t) \ NewSends(t)
           /\ \A s \in NewSends(t) : u.unacked[s].age = 0 /\ u.unacked[s].attempts = 1
           /\ \A s \in DOMAIN t.unacked \ NewSends(t) : u.unacked[s] = t.unacked[s]
<1>1. PICK F : t.unacked \in
        [DOMAIN t.unacked -> [plaintext : F, age : Ages \cup {Never}, attempts : 0 .. MAX_ATTEMPTS]]
  BY DEF SendHalf
<1>2. PICK f : f = [s \in DOMAIN t.unacked |->
                    IF s \in NewSends(t) THEN [t.unacked[s] EXCEPT !.age = 0, !.attempts = 1] ELSE t.unacked[s]]
  OBVIOUS
<1>3. u = [t EXCEPT !.unacked = f]
  BY <1>2 DEF take_new_sends
<1>4. u.unacked = f /\ u.retx = t.retx
  BY <1>3 DEF SendHalf
<1>5. ASSUME NEW s \in NewSends(t) PROVE u.unacked[s].age = 0 /\ u.unacked[s].attempts = 1
  <2>1. s \in DOMAIN t.unacked
    BY HalfRanges
  <2>2. t.unacked[s] \in [plaintext : F, age : Ages \cup {Never}, attempts : 0 .. MAX_ATTEMPTS]
    BY <1>1, <2>1
  <2>3. u.unacked[s] = [t.unacked[s] EXCEPT !.age = 0, !.attempts = 1]
    BY <1>2, <1>4, <2>1
  <2> QED
    BY <2>2, <2>3
<1>6. \A s \in DOMAIN t.unacked \ NewSends(t) : u.unacked[s] = t.unacked[s]
  BY <1>2, <1>4
<1>7. DOMAIN u.unacked = DOMAIN t.unacked
  BY <1>2, <1>4
<1>8. Sent(u) = Sent(t) \cup NewSends(t)
  BY <1>5, <1>6, <1>7, HalfRanges DEF Sent, Never
<1> QED
  BY <1>4, <1>5, <1>6, <1>7, <1>8, HalfRanges DEF Unsent

\* The numbers take_new_sends leaves for later are higher than those it takes.
LEMMA NewSendsFirst ==
    ASSUME NEW t, SendHalf(t), NEW s \in NewSends(t), NEW v \in Unsent(t) \ NewSends(t)
    PROVE  s < v
<1> SUFFICES ASSUME v < s PROVE FALSE
  BY HalfRanges
<1> DEFINE A == {w \in Unsent(t) : w < v}
           B == {w \in Unsent(t) : w < s}
<1>1. A \subseteq B
  BY HalfRanges
<1>2. A \subseteq DOMAIN t.unacked /\ B \subseteq DOMAIN t.unacked /\ Sent(t) \subseteq DOMAIN t.unacked
  BY HalfRanges
<1>3. in_flight_sent(t) + Cardinality(B) < WINDOW_SIZE
  BY DEF NewSends
<1>4. ~ (in_flight_sent(t) + Cardinality(A) < WINDOW_SIZE)
  BY DEF NewSends
<1> HIDE DEF A, B
<1>5. IsFiniteSet(B) /\ Cardinality(A) \in Nat /\ Cardinality(B) \in Nat /\ Cardinality(Sent(t)) \in Nat
  BY <1>2, HalfFinite
<1>6. Cardinality(A) <= Cardinality(B)
  BY <1>1, <1>5, FS_Subset
<1> QED
  BY <1>3, <1>4, <1>5, <1>6, WidthsAssumption DEF in_flight_sent

\* take_new_sends leaves nothing that it could take.
LEMMA NothingNewLeft ==
    ASSUME NEW t, SendHalf(t), NEW u, u = take_new_sends(t)
    PROVE  NewSends(u) = {}
<1> SUFFICES ASSUME NEW v \in NewSends(u) PROVE FALSE
  OBVIOUS
<1>1. Sent(u) = Sent(t) \cup NewSends(t) /\ Unsent(u) = Unsent(t) \ NewSends(t)
  BY TakesNew
<1> DEFINE N == NewSends(t)
           A == {w \in Unsent(t) : w < v}
           B == {w \in Unsent(u) : w < v}
<1>2. v \in Unsent(t) /\ v \notin N
  BY <1>1 DEF NewSends
<1>3. ~ (Cardinality(Sent(t)) + Cardinality(A) < WINDOW_SIZE)
  BY <1>2 DEF NewSends, in_flight_sent
<1>4. Cardinality(Sent(u)) + Cardinality(B) < WINDOW_SIZE
  BY DEF NewSends, in_flight_sent
<1>5. A \subseteq N \cup B /\ Sent(t) \cap N = {}
  BY <1>1 DEF NewSends, Unsent
<1>6. /\ A \subseteq DOMAIN t.unacked /\ B \subseteq DOMAIN t.unacked /\ N \subseteq DOMAIN t.unacked
      /\ Sent(t) \subseteq DOMAIN t.unacked
  BY <1>1, HalfRanges
<1> HIDE DEF A, B, N
<1>7. /\ IsFiniteSet(A) /\ IsFiniteSet(B) /\ IsFiniteSet(N) /\ IsFiniteSet(Sent(t))
      /\ Cardinality(A) \in Nat /\ Cardinality(B) \in Nat /\ Cardinality(N) \in Nat /\ Cardinality(Sent(t)) \in Nat
      /\ IsFiniteSet(N \cup B) /\ Cardinality(N \cup B) \in Nat
      /\ Cardinality(N \cap B) \in Nat
  <2>1. N \cup B \subseteq DOMAIN t.unacked /\ N \cap B \subseteq DOMAIN t.unacked
    BY <1>6
  <2> QED
    BY <1>6, <2>1, HalfFinite
<1>8. Cardinality(A) <= Cardinality(N \cup B)
  BY <1>5, <1>7, FS_Subset
<1>9. Cardinality(N \cup B) = Cardinality(N) + Cardinality(B) - Cardinality(N \cap B)
  BY <1>7, FS_Union
<1>10. Cardinality(Sent(t) \cup N) = Cardinality(Sent(t)) + Cardinality(N) - Cardinality(Sent(t) \cap N)
  BY <1>7, FS_Union
<1>11. Cardinality(Sent(t) \cap N) = 0
  BY <1>5, FS_EmptySet
<1>12. Cardinality(Sent(u)) = Cardinality(Sent(t)) + Cardinality(N)
  BY <1>1, <1>7, <1>10, <1>11 DEF N
<1> QED
  BY <1>3, <1>4, <1>7, <1>8, <1>9, <1>12, WidthsAssumption

\* If nothing more can be taken and something is outstanding, something was sent.
LEMMA SomethingSent ==
    ASSUME NEW t, SendHalf(t), NewSends(t) = {}, DOMAIN t.unacked # {}
    PROVE  Sent(t) # {}
<1> SUFFICES ASSUME Sent(t) = {} PROVE FALSE
  OBVIOUS
<1>1. Unsent(t) = DOMAIN t.unacked /\ DOMAIN t.unacked \subseteq Nat
  BY HalfRanges DEF Unsent
<1>2. PICK m \in DOMAIN t.unacked : \A s \in DOMAIN t.unacked : m <= s
  BY <1>1, LeastNatural
<1>3. {w \in Unsent(t) : w < m} = {}
  BY <1>1, <1>2
<1>4. in_flight_sent(t) = 0 /\ Cardinality({w \in Unsent(t) : w < m}) = 0
  BY <1>3, FS_EmptySet DEF in_flight_sent
<1>5. m \in NewSends(t)
  BY <1>1, <1>4, WidthsAssumption DEF NewSends
<1> QED
  BY <1>5

\* take_retransmits without an exhausted frame: it takes all that are due.
LEMMA TakesDue ==
    ASSUME NEW t, SendHalf(t), Exhausted(t) = {}, NEW u, u = take_retransmits(t)
    PROVE  /\ u.retx = t.retx /\ DOMAIN u.unacked = DOMAIN t.unacked
           /\ Sent(u) = Sent(t) /\ Unsent(u) = Unsent(t) /\ NewSends(u) = NewSends(t)
           /\ Retransmits(t) = Due(t) /\ Due(t) \subseteq Sent(t)
           /\ \A s \in Due(t) : u.unacked[s].age = 0 /\ u.unacked[s].attempts = t.unacked[s].attempts + 1
           /\ \A s \in DOMAIN t.unacked \ Due(t) : u.unacked[s] = t.unacked[s]
<1>1. PICK F : t.unacked \in
        [DOMAIN t.unacked -> [plaintext : F, age : Ages \cup {Never}, attempts : 0 .. MAX_ATTEMPTS]]
  BY DEF SendHalf
<1>2. Retransmits(t) = Due(t) /\ Due(t) \subseteq Sent(t) /\ Sent(t) \subseteq DOMAIN t.unacked
  BY DEF Retransmits, Due, Sent
<1>3. PICK f : f = [s \in DOMAIN t.unacked |->
                    IF s \in Retransmits(t)
                    THEN [t.unacked[s] EXCEPT !.age = 0, !.attempts = @ + 1]
                    ELSE t.unacked[s]]
  OBVIOUS
<1>4. u = [t EXCEPT !.unacked = f]
  BY <1>3 DEF take_retransmits
<1>5. u.unacked = f /\ u.retx = t.retx /\ DOMAIN u.unacked = DOMAIN t.unacked
  BY <1>3, <1>4 DEF SendHalf
<1>6. ASSUME NEW s \in Due(t) PROVE u.unacked[s].age = 0 /\ u.unacked[s].attempts = t.unacked[s].attempts + 1
  <2>1. t.unacked[s] \in [plaintext : F, age : Ages \cup {Never}, attempts : 0 .. MAX_ATTEMPTS]
    BY <1>1, <1>2
  <2>2. u.unacked[s] = [t.unacked[s] EXCEPT !.age = 0, !.attempts = @ + 1]
    BY <1>2, <1>3, <1>5
  <2> QED
    BY <2>1, <2>2
<1>7. \A s \in DOMAIN t.unacked \ Due(t) : u.unacked[s] = t.unacked[s]
  BY <1>2, <1>3, <1>5
<1>8. Sent(u) = Sent(t)
  BY <1>2, <1>5, <1>6, <1>7, HalfRanges DEF Sent, Never
<1>9. Unsent(u) = Unsent(t)
  BY <1>5, <1>8 DEF Unsent
<1>10. NewSends(u) = NewSends(t)
  BY <1>8, <1>9 DEF NewSends, in_flight_sent
<1> QED
  BY <1>2, <1>5, <1>6, <1>7, <1>8, <1>9, <1>10

\* A tick while nothing is due: every frame that was sent is a tick older.
LEMMA GrowsOlder ==
    ASSUME NEW t, SendHalf(t), Due(t) = {}, NEW u, u = Elapse(t)
    PROVE  /\ u.retx = t.retx /\ DOMAIN u.unacked = DOMAIN t.unacked
           /\ Sent(u) = Sent(t) /\ Unsent(u) = Unsent(t) /\ NewSends(u) = NewSends(t)
           /\ \A s \in Sent(t) : /\ t.unacked[s].age < t.retx
                                 /\ u.unacked[s].age = t.unacked[s].age + 1
                                 /\ u.unacked[s].attempts = t.unacked[s].attempts
<1>1. PICK F : t.unacked \in
        [DOMAIN t.unacked -> [plaintext : F, age : Ages \cup {Never}, attempts : 0 .. MAX_ATTEMPTS]]
  BY DEF SendHalf
<1>2. PICK f : f = [s \in DOMAIN t.unacked |->
                    IF s \in Sent(t) /\ t.unacked[s].age < MAX_AGE
                    THEN [t.unacked[s] EXCEPT !.age = @ + 1] ELSE t.unacked[s]]
  OBVIOUS
<1>3. u = [t EXCEPT !.unacked = f]
  BY <1>2 DEF Elapse
<1>4. u.unacked = f /\ u.retx = t.retx /\ DOMAIN u.unacked = DOMAIN t.unacked
  BY <1>2, <1>3 DEF SendHalf
<1>5. ASSUME NEW s \in Sent(t)
      PROVE  /\ t.unacked[s].age < t.retx
             /\ u.unacked[s].age = t.unacked[s].age + 1 /\ u.unacked[s].age >= 0
             /\ u.unacked[s].attempts = t.unacked[s].attempts
  <2>1. s \in DOMAIN t.unacked
    BY HalfRanges
  <2>2. /\ t.unacked[s].age \in Int /\ t.retx \in Nat /\ t.retx <= MAX_AGE /\ ~ (t.unacked[s].age >= t.retx)
        /\ t.unacked[s].age >= 0
    BY <2>1, HalfRanges DEF Due
  <2>3. t.unacked[s] \in [plaintext : F, age : Ages \cup {Never}, attempts : 0 .. MAX_ATTEMPTS]
    BY <1>1, <2>1
  <2>4. t.unacked[s].age < MAX_AGE
    BY <2>2, WidthsAssumption
  <2>5. u.unacked[s] = [t.unacked[s] EXCEPT !.age = @ + 1]
    BY <1>2, <1>4, <2>1, <2>4
  <2>6. u.unacked[s].age = t.unacked[s].age + 1 /\ u.unacked[s].attempts = t.unacked[s].attempts
    BY <2>3, <2>5
  <2> QED
    BY <2>2, <2>6
<1>6. \A s \in DOMAIN t.unacked \ Sent(t) : u.unacked[s] = t.unacked[s]
  BY <1>2, <1>4
<1>7. Sent(u) = Sent(t)
  BY <1>4, <1>5, <1>6, HalfRanges DEF Sent, Never
<1>8. Unsent(u) = Unsent(t)
  BY <1>4, <1>7 DEF Unsent
<1>9. NewSends(u) = NewSends(t)
  BY <1>7, <1>8 DEF NewSends, in_flight_sent
<1> QED
  BY <1>4, <1>5, <1>7, <1>8, <1>9

\* An ACK retires what it covers and leaves the rest alone.
LEMMA Retires ==
    ASSUME NEW t, SendHalf(t), NEW base, NEW bitmap, NEW u, u = on_ack(t, base, bitmap)
    PROVE  /\ u.retx = t.retx
           /\ \A s \in DOMAIN u.unacked :
                s \in DOMAIN t.unacked /\ ~ acked(base, bitmap, s) /\ u.unacked[s] = t.unacked[s]
           /\ Sent(u) \subseteq Sent(t) /\ Unsent(u) \subseteq Unsent(t)
<1>1. PICK f : f = [s \in {w \in DOMAIN t.unacked : ~ acked(base, bitmap, w)} |-> t.unacked[s]]
  OBVIOUS
<1>2. u = [t EXCEPT !.unacked = f]
  BY <1>1 DEF on_ack
<1>3. u.unacked = f /\ u.retx = t.retx
  BY <1>2 DEF SendHalf
<1>4. \A s \in DOMAIN u.unacked :
        s \in DOMAIN t.unacked /\ ~ acked(base, bitmap, s) /\ u.unacked[s] = t.unacked[s]
  BY <1>1, <1>3
<1> QED
  BY <1>3, <1>4 DEF Sent, Unsent

-----------------------------------------------------------------------------
(***************************************************************************)
(* Queues of datagrams.                                                    *)
(***************************************************************************)
Contents(q) == {q[i] : i \in DOMAIN q}

IsData(d) == d.kind = "data" /\ d.frame.kind = "data"
IsAck(d) == d.kind = "data" /\ d.frame.kind = "ack"

DataIn(q) == {d \in Contents(q) : IsData(d)}
AcksIn(q) == {d \in Contents(q) : IsAck(d)}

\* The sealed datagrams of a queue carry the counters from lo to hi - 1, all of
\* them and in this order.
InSequence(q, lo, hi) ==
    /\ \A i \in DOMAIN q : q[i].kind = "data" => q[i].nonce \in lo .. (hi - 1)
    /\ \A i, j \in DOMAIN q :
        i < j /\ q[i].kind = "data" /\ q[j].kind = "data" => q[i].nonce < q[j].nonce
    /\ \A n \in lo .. (hi - 1) : \E i \in DOMAIN q : q[i].kind = "data" /\ q[i].nonce = n

LEMMA TailElements ==
    ASSUME NEW S, NEW q \in Seq(S), q # << >>
    PROVE  /\ Len(q) \in Nat /\ Len(q) > 0 /\ DOMAIN q = 1 .. Len(q) /\ Head(q) = q[1]
           /\ DOMAIN Tail(q) = 1 .. (Len(q) - 1)
           /\ \A i \in 1 .. (Len(q) - 1) : Tail(q)[i] = q[i + 1]
<1>1. Len(q) \in Nat /\ Len(q) > 0 /\ DOMAIN q = 1 .. Len(q)
  BY LenProperties, EmptySeq
<1>2. Head(q) = q[1] /\ Tail(q) \in Seq(S) /\ Len(Tail(q)) = Len(q) - 1
  BY HeadTailProperties
<1>3. \A i \in 1 .. Len(Tail(q)) : Tail(q)[i] = q[i + 1]
  BY HeadTailProperties
<1>4. DOMAIN Tail(q) = 1 .. Len(Tail(q))
  BY <1>2, LenProperties
<1> QED
  BY <1>1, <1>2, <1>3, <1>4

LEMMA JoinedElements ==
    ASSUME NEW S, NEW q \in Seq(S), NEW T, NEW r \in Seq(T)
    PROVE  /\ Len(q) \in Nat /\ Len(r) \in Nat /\ DOMAIN q = 1 .. Len(q) /\ DOMAIN r = 1 .. Len(r)
           /\ DOMAIN (q \o r) = 1 .. (Len(q) + Len(r))
           /\ \A i \in 1 .. (Len(q) + Len(r)) : (q \o r)[i] = IF i <= Len(q) THEN q[i] ELSE r[i - Len(q)]
<1>1. Len(q) \in Nat /\ Len(r) \in Nat /\ DOMAIN q = 1 .. Len(q) /\ DOMAIN r = 1 .. Len(r)
  BY LenProperties
<1>2. PICK R : R = S \cup T
  OBVIOUS
<1>3. q \in Seq(R) /\ r \in Seq(R)
  BY <1>2, SeqLarger
<1>4. /\ q \o r \in Seq(R) /\ Len(q \o r) = Len(q) + Len(r)
      /\ \A i \in 1 .. (Len(q) + Len(r)) : (q \o r)[i] = IF i <= Len(q) THEN q[i] ELSE r[i - Len(q)]
  BY <1>3, ConcatProperties
<1>5. DOMAIN (q \o r) = 1 .. Len(q \o r)
  BY <1>4, LenProperties
<1> QED
  BY <1>1, <1>4, <1>5

\* Reading takes the first datagram out of a queue.
LEMMA ReadContents ==
    ASSUME NEW S, NEW q \in Seq(S), q # << >>
    PROVE  Contents(q) = {Head(q)} \cup Contents(Tail(q))
<1>1. PICK n \in Nat : n = Len(q) /\ n > 0
  BY TailElements
<1>2. /\ DOMAIN q = 1 .. n /\ Head(q) = q[1] /\ DOMAIN Tail(q) = 1 .. (n - 1)
      /\ \A i \in 1 .. (n - 1) : Tail(q)[i] = q[i + 1]
  BY <1>1, TailElements
<1>3. ASSUME NEW i \in 1 .. n PROVE q[i] = Head(q) \/ q[i] \in Contents(Tail(q))
  <2>1. CASE i = 1
    BY <1>2, <2>1
  <2>2. CASE i # 1
    <3>1. i - 1 \in 1 .. (n - 1) /\ (i - 1) + 1 = i
      BY <1>1, <2>2
    <3> QED
      BY <1>2, <3>1 DEF Contents
  <2> QED
    BY <2>1, <2>2
<1>4. ASSUME NEW i \in 1 .. (n - 1) PROVE Tail(q)[i] \in Contents(q)
  <2>1. i + 1 \in 1 .. n
    BY <1>1
  <2> QED
    BY <1>2, <2>1 DEF Contents
<1>5. Head(q) \in Contents(q)
  BY <1>1, <1>2 DEF Contents
<1> QED
  BY <1>2, <1>3, <1>4, <1>5 DEF Contents

LEMMA JoinContents ==
    ASSUME NEW S, NEW q \in Seq(S), NEW T, NEW r \in Seq(T)
    PROVE  Contents(q \o r) = Contents(q) \cup Contents(r)
<1>1. PICK m \in Nat, n \in Nat : m = Len(q) /\ n = Len(r)
  BY JoinedElements
<1>2. PICK j : j = q \o r
  OBVIOUS
<1>3. /\ DOMAIN q = 1 .. m /\ DOMAIN r = 1 .. n /\ DOMAIN j = 1 .. (m + n)
      /\ \A i \in 1 .. (m + n) : j[i] = IF i <= m THEN q[i] ELSE r[i - m]
  BY <1>1, <1>2, JoinedElements
<1>4. ASSUME NEW i \in 1 .. (m + n) PROVE j[i] \in Contents(q) \cup Contents(r)
  <2>1. CASE i <= m
    BY <1>3, <2>1 DEF Contents
  <2>2. CASE ~ (i <= m)
    <3>1. i - m \in 1 .. n
      BY <2>2
    <3> QED
      BY <1>3, <2>2, <3>1 DEF Contents
  <2> QED
    BY <2>1, <2>2
<1>5. ASSUME NEW i \in 1 .. m PROVE q[i] \in Contents(j)
  <2>1. i \in 1 .. (m + n) /\ i <= m
    OBVIOUS
  <2> QED
    BY <1>3, <2>1 DEF Contents
<1>6. ASSUME NEW i \in 1 .. n PROVE r[i] \in Contents(j)
  <2>1. m + i \in 1 .. (m + n) /\ ~ (m + i <= m) /\ (m + i) - m = i
    OBVIOUS
  <2> QED
    BY <1>3, <2>1 DEF Contents
<1>7. Contents(j) \subseteq Contents(q) \cup Contents(r)
  BY <1>3, <1>4 DEF Contents
<1>8. Contents(q) \subseteq Contents(j)
  BY <1>3, <1>5 DEF Contents
<1>9. Contents(r) \subseteq Contents(j)
  BY <1>3, <1>6 DEF Contents
<1> QED
  BY <1>2, <1>7, <1>8, <1>9

\* The first sealed datagram of a queue in sequence is the one that opens.
LEMMA ReadInSequence ==
    ASSUME NEW S, NEW q \in Seq(S), q # << >>, NEW lo \in Nat, NEW hi \in Nat, InSequence(q, lo, hi)
    PROVE  /\ Head(q).kind # "data" => InSequence(Tail(q), lo, hi)
           /\ Head(q).kind = "data" =>
                /\ Head(q).nonce = lo /\ InSequence(Tail(q), lo + 1, hi)
                /\ \A d \in Contents(Tail(q)) : d.kind = "data" => d.nonce \in Int /\ d.nonce > lo
<1>1. PICK n \in Nat : n = Len(q) /\ n > 0
  BY TailElements
<1>2. /\ DOMAIN q = 1 .. n /\ Head(q) = q[1] /\ DOMAIN Tail(q) = 1 .. (n - 1)
      /\ \A i \in 1 .. (n - 1) : Tail(q)[i] = q[i + 1]
  BY <1>1, TailElements
<1>3. /\ \A i \in 1 .. n : q[i].kind = "data" => q[i].nonce \in lo .. (hi - 1)
      /\ \A i, j \in 1 .. n :
            i < j /\ q[i].kind = "data" /\ q[j].kind = "data" => q[i].nonce < q[j].nonce
      /\ \A k \in lo .. (hi - 1) : \E i \in 1 .. n : q[i].kind = "data" /\ q[i].nonce = k
  BY <1>2 DEF InSequence
<1>4. \A i \in 1 .. (n - 1) : i + 1 \in 1 .. n /\ i + 1 > 1
  BY <1>1
<1>5. \A i \in 1 .. n : i = 1 \/ (i - 1 \in 1 .. (n - 1) /\ (i - 1) + 1 = i /\ 1 < i)
  BY <1>1
<1>6. \A i, j \in 1 .. (n - 1) :
        i < j /\ Tail(q)[i].kind = "data" /\ Tail(q)[j].kind = "data" => Tail(q)[i].nonce < Tail(q)[j].nonce
  <2> SUFFICES ASSUME NEW i \in 1 .. (n - 1), NEW j \in 1 .. (n - 1), i < j,
                      q[i + 1].kind = "data", q[j + 1].kind = "data"
               PROVE  q[i + 1].nonce < q[j + 1].nonce
    BY <1>2
  <2>1. i + 1 < j + 1
    OBVIOUS
  <2> QED
    BY <1>3, <1>4, <2>1
<1>7. ASSUME Head(q).kind # "data" PROVE InSequence(Tail(q), lo, hi)
  <2>1. \A i \in 1 .. (n - 1) : Tail(q)[i].kind = "data" => Tail(q)[i].nonce \in lo .. (hi - 1)
    BY <1>2, <1>3, <1>4
  <2>2. ASSUME NEW k \in lo .. (hi - 1) PROVE \E i \in 1 .. (n - 1) : Tail(q)[i].kind = "data" /\ Tail(q)[i].nonce = k
    <3>1. PICK i \in 1 .. n : q[i].kind = "data" /\ q[i].nonce = k
      BY <1>3, <2>2
    <3>2. i # 1
      BY <1>2, <1>7, <3>1
    <3> QED
      BY <1>2, <1>5, <3>1, <3>2
  <2> QED
    BY <1>2, <1>6, <2>1, <2>2 DEF InSequence
<1>8. ASSUME Head(q).kind = "data"
      PROVE  /\ Head(q).nonce = lo /\ InSequence(Tail(q), lo + 1, hi)
             /\ \A d \in Contents(Tail(q)) : d.kind = "data" => d.nonce \in Int /\ d.nonce > lo
  <2>0. 1 \in 1 .. n
    BY <1>1
  <2>1. q[1].kind = "data" /\ q[1].nonce \in lo .. (hi - 1)
    BY <1>2, <1>3, <1>8, <2>0
  <2>2. \A i \in 1 .. n : i # 1 /\ q[i].kind = "data" => q[i].nonce \in lo .. (hi - 1) /\ q[1].nonce < q[i].nonce
    BY <1>3, <1>5, <2>0, <2>1
  <2>3. q[1].nonce = lo
    <3>1. PICK i \in 1 .. n : q[i].kind = "data" /\ q[i].nonce = lo
      BY <1>3, <2>1
    <3> QED
      BY <2>1, <2>2, <3>1
  <2>4. \A i \in 1 .. (n - 1) : Tail(q)[i].kind = "data" => Tail(q)[i].nonce \in (lo + 1) .. (hi - 1)
    <3> SUFFICES ASSUME NEW i \in 1 .. (n - 1), q[i + 1].kind = "data"
                 PROVE  q[i + 1].nonce \in (lo + 1) .. (hi - 1)
      BY <1>2
    <3>1. i + 1 \in 1 .. n /\ i + 1 # 1
      BY <1>4
    <3> QED
      BY <2>2, <2>3, <3>1
  <2>5. ASSUME NEW k \in (lo + 1) .. (hi - 1)
        PROVE  \E i \in 1 .. (n - 1) : Tail(q)[i].kind = "data" /\ Tail(q)[i].nonce = k
    <3>1. PICK i \in 1 .. n : q[i].kind = "data" /\ q[i].nonce = k
      BY <1>3, <2>5
    <3>2. i # 1
      BY <2>3, <2>5, <3>1
    <3> QED
      BY <1>2, <1>5, <3>1, <3>2
  <2>6. InSequence(Tail(q), lo + 1, hi)
    BY <1>2, <1>6, <2>4, <2>5 DEF InSequence
  <2>7. \A d \in Contents(Tail(q)) : d.kind = "data" => d.nonce \in Int /\ d.nonce > lo
    BY <1>2, <2>4 DEF Contents
  <2> QED
    BY <1>2, <2>3, <2>6, <2>7
<1> QED
  BY <1>7, <1>8

LEMMA JoinInSequence ==
    ASSUME NEW S, NEW q \in Seq(S), NEW T, NEW r \in Seq(T), NEW lo \in Nat, NEW mid \in Nat, NEW hi \in Nat,
           lo <= mid, mid <= hi, InSequence(q, lo, mid), InSequence(r, mid, hi)
    PROVE  InSequence(q \o r, lo, hi)
<1>1. PICK m \in Nat, n \in Nat : m = Len(q) /\ n = Len(r)
  BY JoinedElements
<1>2. PICK j : j = q \o r
  OBVIOUS
<1>3. /\ DOMAIN q = 1 .. m /\ DOMAIN r = 1 .. n /\ DOMAIN j = 1 .. (m + n)
      /\ \A i \in 1 .. (m + n) : j[i] = IF i <= m THEN q[i] ELSE r[i - m]
  BY <1>1, <1>2, JoinedElements
<1>4. ASSUME NEW i \in 1 .. (m + n)
      PROVE  \/ i \in 1 .. m /\ j[i] = q[i]
             \/ i - m \in 1 .. n /\ i > m /\ j[i] = r[i - m]
  BY <1>3
<1>5. \A i \in 1 .. m : i \in 1 .. (m + n) /\ j[i] = q[i]
  BY <1>3
<1>6. \A i \in 1 .. n : m + i \in 1 .. (m + n) /\ j[m + i] = r[i]
  <2> SUFFICES ASSUME NEW i \in 1 .. n PROVE m + i \in 1 .. (m + n) /\ j[m + i] = r[i]
    OBVIOUS
  <2>1. m + i \in 1 .. (m + n) /\ ~ (m + i <= m) /\ (m + i) - m = i
    OBVIOUS
  <2> QED
    BY <1>3, <2>1
<1>7. /\ \A i \in 1 .. m : q[i].kind = "data" => q[i].nonce \in lo .. (mid - 1)
      /\ \A i, k \in 1 .. m :
            i < k /\ q[i].kind = "data" /\ q[k].kind = "data" => q[i].nonce < q[k].nonce
      /\ \A k \in lo .. (mid - 1) : \E i \in 1 .. m : q[i].kind = "data" /\ q[i].nonce = k
  BY <1>3 DEF InSequence
<1>8. /\ \A i \in 1 .. n : r[i].kind = "data" => r[i].nonce \in mid .. (hi - 1)
      /\ \A i, k \in 1 .. n :
            i < k /\ r[i].kind = "data" /\ r[k].kind = "data" => r[i].nonce < r[k].nonce
      /\ \A k \in mid .. (hi - 1) : \E i \in 1 .. n : r[i].kind = "data" /\ r[i].nonce = k
  BY <1>3 DEF InSequence
<1>9. ASSUME NEW i \in 1 .. (m + n), j[i].kind = "data" PROVE j[i].nonce \in lo .. (hi - 1)
  <2>1. CASE i \in 1 .. m /\ j[i] = q[i]
    <3>1. q[i].nonce \in lo .. (mid - 1)
      BY <1>7, <1>9, <2>1
    <3> QED
      BY <2>1, <3>1
  <2>2. CASE i - m \in 1 .. n /\ j[i] = r[i - m]
    <3>1. r[i - m].nonce \in mid .. (hi - 1)
      BY <1>8, <1>9, <2>2
    <3> QED
      BY <2>2, <3>1
  <2> QED
    BY <1>4, <2>1, <2>2
<1>10. ASSUME NEW i \in 1 .. (m + n), NEW k \in 1 .. (m + n), i < k, j[i].kind = "data", j[k].kind = "data"
       PROVE  j[i].nonce < j[k].nonce
  <2>1. CASE k \in 1 .. m
    <3>1. i \in 1 .. m /\ j[i] = q[i] /\ j[k] = q[k]
      BY <1>5, <1>10, <2>1
    <3> QED
      BY <1>7, <1>10, <2>1, <3>1
  <2>2. CASE i \in 1 .. m /\ k > m
    <3>1. j[i].nonce \in lo .. (mid - 1)
      BY <1>5, <1>7, <1>10, <2>2
    <3>2. j[k].nonce \in mid .. (hi - 1)
      <4>1. k - m \in 1 .. n /\ j[k] = r[k - m]
        BY <1>4, <2>2
      <4> QED
        BY <1>8, <1>10, <4>1
    <3> QED
      BY <3>1, <3>2
  <2>3. CASE i > m /\ k > m
    <3>1. PICK a \in 1 .. n : a = i - m /\ j[i] = r[a]
      <4>1. i - m \in 1 .. n /\ j[i] = r[i - m]
        <5>1. ~ (i \in 1 .. m)
          BY <2>3
        <5> QED
          BY <1>4, <5>1, Zenon
      <4> QED
        BY <4>1
    <3>2. PICK b \in 1 .. n : b = k - m /\ j[k] = r[b]
      <4>1. k - m \in 1 .. n /\ j[k] = r[k - m]
        <5>1. ~ (k \in 1 .. m)
          BY <2>3
        <5> QED
          BY <1>4, <5>1, Zenon
      <4> QED
        BY <4>1
    <3>3. a < b
      BY <1>10, <3>1, <3>2
    <3> QED
      BY <1>8, <1>10, <3>1, <3>2, <3>3
  <2> QED
    BY <1>10, <2>1, <2>2, <2>3
<1>11. ASSUME NEW k \in lo .. (hi - 1)
       PROVE  \E i \in 1 .. (m + n) : j[i].kind = "data" /\ j[i].nonce = k
  <2>1. k \in lo .. (mid - 1) \/ k \in mid .. (hi - 1)
    OBVIOUS
  <2>2. CASE k \in lo .. (mid - 1)
    BY <1>5, <1>7, <2>2
  <2>3. CASE k \in mid .. (hi - 1)
    <3>1. PICK i \in 1 .. n : r[i].kind = "data" /\ r[i].nonce = k
      BY <1>8, <2>3
    <3>2. m + i \in 1 .. (m + n) /\ j[m + i] = r[i]
      BY <1>6
    <3> QED
      BY <3>1, <3>2
  <2> QED
    BY <2>1, <2>2, <2>3
<1> QED
  BY <1>2, <1>3, <1>9, <1>10, <1>11 DEF InSequence

\* The k-th of the sealed datagrams holds the k-th frame that is not dropped.
LEMMA SealedInOrder ==
    ASSUME Shape, NEW e \in Endpoints, NEW F, NEW frames \in Seq(F)
    PROVE  \E k \in Nat, m \in Nat :
              /\ k <= drop_data[e] /\ k + m = Len(frames)
              /\ Len(SealAll(e, frames)) = m /\ DOMAIN SealAll(e, frames) = 1 .. m
              /\ SealAll(e, frames) = [i \in 1 .. m |-> SealAll(e, frames)[i]]
              /\ \A i \in 1 .. m : SealAll(e, frames)[i] = Sealed(tx_nonce[e] + i - 1, frames[k + i])
<1>1. drop_data[e] \in Nat /\ tx_nonce[e] \in Nat /\ Len(frames) \in Nat
  BY LenProperties DEF Shape
<1>2. PICK k : k = IF drop_data[e] < Len(frames) THEN drop_data[e] ELSE Len(frames)
  OBVIOUS
<1>3. PICK m : m = Len(frames) - k
  OBVIOUS
<1>4. k \in Nat /\ m \in Nat /\ k <= drop_data[e] /\ k + m = Len(frames)
  BY <1>1, <1>2, <1>3
<1>5. PICK q : q = SealAll(e, frames)
  OBVIOUS
<1>6. q = [i \in 1 .. m |-> Sealed(tx_nonce[e] + i - 1, frames[k + i])]
  BY <1>2, <1>3, <1>5 DEF SealAll
<1>7. DOMAIN q = 1 .. m /\ q = [i \in 1 .. m |-> q[i]] /\ \A i \in 1 .. m : q[i] = Sealed(tx_nonce[e] + i - 1, frames[k + i])
  BY <1>6
<1>8. Len(q) = m
  BY <1>4, <1>7
<1> QED
  BY <1>4, <1>5, <1>7, <1>8

\* No late handshake datagram is in a queue.
Clean(q) == \A d \in Contents(q) : d.kind # "handshake"

\* D is what a flush puts on its way for the slots in S when the next counter
\* is lo: some of their frames, in the order of their numbers.
Burst(D, S, lo) ==
    /\ \A d \in D : d.nonce \in Int /\ d.nonce >= lo /\ d.frame.seq \in S
    /\ \A c, d \in D : c.nonce < d.nonce => c.frame.seq < d.frame.seq

\* The queue q holds the frames of the slots in S but the first k.
SealedFor(q, W, k, e, t, S) ==
    /\ q \in Seq(W) /\ Clean(q) /\ Len(q) \in Nat
    /\ k <= drop_data[e] /\ Len(InOrder(t, S)) - Len(q) = k
    /\ InSequence(q, tx_nonce[e], tx_nonce[e] + Len(q))
    /\ DataIn(q) = Contents(q) /\ AcksIn(q) = {}
    /\ Burst(DataIn(q), S, tx_nonce[e])
    /\ k = 0 => \A s \in S : \E d \in DataIn(q) : d.frame.seq = s

\* What a queue of sealed frames holds.
LEMMA SealedBurst ==
    ASSUME Shape, NEW e \in Endpoints, NEW t, t = tx[e], NEW S \in SUBSET Seqs,
           \A s \in S : t.unacked[s].plaintext.kind = "data" /\ t.unacked[s].plaintext.seq = s,
           NEW q, q = SealAll(e, InOrder(t, S))
    PROVE  \E W : \E k \in Nat : SealedFor(q, W, k, e, t, S)
<1>1. PICK n \in Nat : n = Cardinality(S)
  BY InOrderFacts
<1>2. PICK frames : frames = InOrder(t, S)
  OBVIOUS
<1>3. PICK F : frames \in Seq(F)
  BY <1>2, InOrderFacts
<1>a. \E nth : Enumerates(nth, t, S)
  BY InOrderFacts, Zenon
<1>4. PICK nth \in [1 .. n -> S] :
        /\ \A i, j \in 1 .. n : i < j => nth[i] < nth[j]
        /\ \A s \in S : \E i \in 1 .. n : nth[i] = s
        /\ \A i \in 1 .. n : frames[i] = t.unacked[nth[i]].plaintext
  BY <1>1, <1>2, <1>a DEF Enumerates
<1>5. Len(frames) = n
  BY <1>1, <1>2, InOrderFacts
<1>b. q = SealAll(e, frames)
  BY <1>2
<1>c. \E k \in Nat, m \in Nat :
        /\ k <= drop_data[e] /\ k + m = Len(frames)
        /\ Len(SealAll(e, frames)) = m /\ DOMAIN SealAll(e, frames) = 1 .. m
        /\ SealAll(e, frames) = [i \in 1 .. m |-> SealAll(e, frames)[i]]
        /\ \A i \in 1 .. m : SealAll(e, frames)[i] = Sealed(tx_nonce[e] + i - 1, frames[k + i])
  BY <1>3, SealedInOrder
<1>6. PICK k \in Nat, m \in Nat :
        /\ k <= drop_data[e] /\ k + m = n /\ Len(q) = m /\ DOMAIN q = 1 .. m
        /\ q = [i \in 1 .. m |-> q[i]]
        /\ \A i \in 1 .. m : q[i] = Sealed(tx_nonce[e] + i - 1, frames[k + i])
  BY <1>5, <1>b, <1>c
<1>7. PICK lo \in Nat : lo = tx_nonce[e]
  BY DEF Shape
<1>8. ASSUME NEW i \in 1 .. m
      PROVE  /\ q[i].kind = "data" /\ q[i].nonce = lo + i - 1 /\ k + i \in 1 .. n
             /\ q[i].frame.seq = nth[k + i] /\ q[i].frame.kind = "data" /\ nth[k + i] \in S
  <2>1. k + i \in 1 .. n
    BY <1>6
  <2>2. nth[k + i] \in S /\ frames[k + i] = t.unacked[nth[k + i]].plaintext
    BY <1>4, <2>1
  <2>3. frames[k + i].kind = "data" /\ frames[k + i].seq = nth[k + i]
    BY <2>2
  <2>4. q[i] = Sealed(lo + i - 1, frames[k + i])
    BY <1>6, <1>7
  <2> QED
    BY <2>1, <2>2, <2>3, <2>4 DEF Sealed
<1>9. PICK W : W = {q[i] : i \in 1 .. m}
  OBVIOUS
<1>10. q \in Seq(W)
  <2>1. q \in [1 .. m -> W]
    BY <1>6, <1>9
  <2> QED
    BY <2>1
<1>11. Contents(q) = W
  BY <1>6, <1>9 DEF Contents
<1>12. DataIn(q) = W /\ AcksIn(q) = {} /\ Clean(q)
  BY <1>8, <1>9, <1>11 DEF DataIn, AcksIn, IsData, IsAck, Clean
<1>d. PICK hi \in Nat : hi = lo + m
  OBVIOUS
<1>13. InSequence(q, lo, hi)
  <2>1. ASSUME NEW i \in 1 .. m PROVE q[i].nonce \in lo .. (hi - 1)
    <3>1. q[i].nonce = lo + i - 1
      BY <1>8
    <3> QED
      BY <1>d, <3>1
  <2>2. \A i, j \in 1 .. m : i < j => q[i].nonce < q[j].nonce
    BY <1>8
  <2>3. ASSUME NEW j \in lo .. (hi - 1) PROVE \E i \in 1 .. m : q[i].kind = "data" /\ q[i].nonce = j
    <3>1. j - lo + 1 \in 1 .. m /\ lo + (j - lo + 1) - 1 = j
      BY <1>d
    <3> QED
      BY <1>8, <3>1
  <2> QED
    BY <1>6, <2>1, <2>2, <2>3 DEF InSequence
<1>14. Burst(W, S, lo)
  <2>1. \A d \in W : d.nonce \in Int /\ d.nonce >= lo /\ d.frame.seq \in S
    BY <1>8, <1>9
  <2>2. ASSUME NEW i \in 1 .. m, NEW j \in 1 .. m, q[i].nonce < q[j].nonce PROVE q[i].frame.seq < q[j].frame.seq
    <3>1. k + i \in 1 .. n /\ k + j \in 1 .. n /\ k + i < k + j
      BY <1>8, <2>2
    <3>2. nth[k + i] < nth[k + j]
      BY <1>4, <3>1
    <3> QED
      BY <1>8, <3>2
  <2> QED
    BY <1>9, <2>1, <2>2 DEF Burst
<1>15. ASSUME k = 0, NEW s \in S PROVE \E d \in W : d.frame.seq = s
  <2>1. PICK i \in 1 .. n : nth[i] = s
    BY <1>4
  <2>2. i \in 1 .. m /\ k + i = i
    BY <1>6, <1>15
  <2> QED
    BY <1>8, <1>9, <2>1, <2>2
<1>16. Len(InOrder(t, S)) - Len(q) = k
  BY <1>2, <1>5, <1>6
<1> QED
  BY <1>6, <1>7, <1>d, <1>10, <1>11, <1>12, <1>13, <1>14, <1>15, <1>16 DEF SealedFor

\* A flush of the slots in S drops k frames and adds D to the peer's queue.
Queues(D, k, e, S) ==
    /\ DataIn(inbox'[Peer(e)]) = DataIn(inbox[Peer(e)]) \cup D
    /\ AcksIn(inbox'[Peer(e)]) = AcksIn(inbox[Peer(e)])
    /\ Clean(inbox'[Peer(e)]) /\ InSequence(inbox'[Peer(e)], rx_nonce[Peer(e)], tx_nonce'[e])
    /\ inbox'[e] = inbox[e] /\ tx_nonce'[Peer(e)] = tx_nonce[Peer(e)]
    /\ k <= drop_data[e] /\ drop_data'[e] = drop_data[e] - k
    /\ drop_data'[Peer(e)] = drop_data[Peer(e)]
    /\ Burst(D, S, tx_nonce[e])
    /\ k = 0 => \A s \in S : \E d \in D : d.frame.seq = s

\* The queue of the peer after a flush.
LEMMA FlushQueues ==
    ASSUME Shape, NEW e \in Endpoints, NEW t, t = tx[e], NEW S \in SUBSET Seqs,
           \A s \in S : t.unacked[s].plaintext.kind = "data" /\ t.unacked[s].plaintext.seq = s,
           NEW V, inbox[Peer(e)] \in Seq(V), Clean(inbox[Peer(e)]), rx_nonce[Peer(e)] <= tx_nonce[e],
           InSequence(inbox[Peer(e)], rx_nonce[Peer(e)], tx_nonce[e]),
           NEW extra \in {<< >>, <<Cover>>}, SendAll(e, InOrder(t, S), extra)
    PROVE  \E D : \E k \in Nat : Queues(D, k, e, S)
<1> DEFINE p == Peer(e)
<1>0. p \in Endpoints /\ p # e /\ DOMAIN inbox = Endpoints
  BY PeerFacts DEF Shape
<1>1. PICK q : q = SealAll(e, InOrder(t, S))
  OBVIOUS
<1>2. PICK W : \E k \in Nat : SealedFor(q, W, k, e, t, S)
  BY <1>1, SealedBurst
<1>3. PICK k \in Nat :
              /\ q \in Seq(W) /\ Clean(q) /\ Len(q) \in Nat
              /\ k <= drop_data[e] /\ Len(InOrder(t, S)) - Len(q) = k
              /\ InSequence(q, tx_nonce[e], tx_nonce[e] + Len(q))
              /\ DataIn(q) = Contents(q) /\ AcksIn(q) = {}
              /\ Burst(DataIn(q), S, tx_nonce[e])
              /\ k = 0 => \A s \in S : \E d \in DataIn(q) : d.frame.seq = s
  BY <1>2 DEF SealedFor
<1>4. /\ tx_nonce' = [tx_nonce EXCEPT ![e] = @ + Len(q)]
      /\ drop_data' = [drop_data EXCEPT ![e] = @ - (Len(InOrder(t, S)) - Len(q))]
      /\ inbox' = [inbox EXCEPT ![p] = @ \o (q \o extra)]
  BY <1>1 DEF SendAll, Put
<1>5. PICK lo \in Nat, mid \in Nat, hi \in Nat :
        lo = rx_nonce[p] /\ mid = tx_nonce[e] /\ hi = mid + Len(q) /\ lo <= mid /\ mid <= hi
  BY <1>0, <1>3 DEF Shape
<1>6. tx_nonce'[e] = hi /\ tx_nonce'[p] = tx_nonce[p]
  BY <1>0, <1>4, <1>5 DEF Shape
<1>7. drop_data'[e] = drop_data[e] - k /\ drop_data'[p] = drop_data[p]
  BY <1>0, <1>3, <1>4 DEF Shape
<1>8. PICK j : j = q \o extra
  OBVIOUS
<1>9. inbox'[p] = inbox[p] \o j /\ inbox'[e] = inbox[e]
  BY <1>0, <1>4, <1>8
<1>10. PICK X : /\ extra \in Seq(X) /\ \A d \in Contents(extra) : d = Cover
                /\ InSequence(extra, hi, hi)
  <2>1. PICK X : X = {Cover}
    OBVIOUS
  <2>2. CASE extra = << >>
    <3>1. extra \in Seq(X) /\ DOMAIN extra = {}
      BY <2>2, EmptySeq
    <3> QED
      BY <3>1, <1>5 DEF Contents, InSequence
  <2>3. CASE extra = <<Cover>>
    <3>1. PICK c \in X : c = Cover
      BY <2>1
    <3>2. extra = <<c>> /\ extra \in Seq(X) /\ DOMAIN extra = 1 .. 1 /\ extra[1] = c
      BY <2>3, <3>1
    <3>3. \A i \in DOMAIN extra : extra[i] = Cover /\ extra[i].kind # "data"
      BY <3>1, <3>2 DEF Cover
    <3> QED
      BY <1>5, <3>2, <3>3 DEF Contents, InSequence
  <2> QED
    BY <2>2, <2>3
<1>11. PICK Y : j \in Seq(Y)
  <2>1. PICK Y : Y = W \cup X
    OBVIOUS
  <2>2. q \in Seq(Y) /\ extra \in Seq(Y)
    BY <1>3, <1>10, <2>1, SeqLarger
  <2> QED
    BY <1>8, <2>2, ConcatProperties
<1>12. Contents(j) = Contents(q) \cup Contents(extra)
  BY <1>3, <1>8, <1>10, JoinContents
<1>13. Contents(inbox'[p]) = Contents(inbox[p]) \cup Contents(q) \cup Contents(extra)
  BY <1>9, <1>11, <1>12, JoinContents
<1>14. InSequence(j, mid, hi)
  BY <1>3, <1>5, <1>8, <1>10, JoinInSequence
<1>15. InSequence(inbox'[p], lo, hi)
  BY <1>5, <1>9, <1>11, <1>14, JoinInSequence
<1>16. /\ DataIn(inbox'[p]) = DataIn(inbox[p]) \cup DataIn(q)
       /\ AcksIn(inbox'[p]) = AcksIn(inbox[p]) /\ Clean(inbox'[p])
  <2>1. \A d \in Contents(extra) : ~ IsData(d) /\ ~ IsAck(d) /\ d.kind # "handshake"
    BY <1>10 DEF Cover, IsData, IsAck
  <2> QED
    BY <1>3, <1>13, <2>1 DEF DataIn, AcksIn, Clean
<1> HIDE DEF p
<1>17. /\ DataIn(inbox'[p]) = DataIn(inbox[p]) \cup DataIn(q)
       /\ AcksIn(inbox'[p]) = AcksIn(inbox[p])
       /\ Clean(inbox'[p]) /\ InSequence(inbox'[p], rx_nonce[p], tx_nonce'[e])
       /\ inbox'[e] = inbox[e] /\ tx_nonce'[p] = tx_nonce[p]
       /\ k <= drop_data[e] /\ drop_data'[e] = drop_data[e] - k
       /\ drop_data'[p] = drop_data[p]
       /\ Burst(DataIn(q), S, tx_nonce[e])
       /\ k = 0 => \A s \in S : \E d \in DataIn(q) : d.frame.seq = s
  BY <1>3, <1>5, <1>6, <1>7, <1>9, <1>15, <1>16
<1> QED
  BY <1>17 DEF p, Queues

-----------------------------------------------------------------------------
(***************************************************************************)
(* A send in progress.                                                     *)
(***************************************************************************)

\* The time k retransmission intervals take.
Span(r, k) == r * k

LEMMA SpanFacts ==
    ASSUME NEW r \in Nat
    PROVE  /\ Span(r, 0) = 0
           /\ \A k \in Int : Span(r, k) \in Int
           /\ \A j, k \in Int : j <= k => Span(r, j) <= Span(r, k)
           /\ r > 0 => \A j, k \in Int : Span(r, j) <= Span(r, k) => j <= k
<1>1. Span(r, 0) = 0 /\ \A k \in Int : Span(r, k) \in Int
  BY DEF Span
<1>2. ASSUME NEW j \in Int, NEW k \in Int, j <= k PROVE r * j <= r * k
  <2>1. PICK c \in Nat : k = j + c
    BY <1>2
  <2>2. r * k = r * j + r * c /\ r * c >= 0 /\ r * j \in Int /\ r * c \in Int
    BY <2>1
  <2> QED
    BY <2>2
<1>3. ASSUME r > 0, NEW j \in Int, NEW k \in Int, r * j <= r * k PROVE j <= k
  <2> SUFFICES ASSUME j > k PROVE FALSE
    OBVIOUS
  <2>1. PICK c \in Nat : j = k + c /\ c > 0
    OBVIOUS
  <2>2. r * j = r * k + r * c /\ r * c > 0 /\ r * k \in Int /\ r * c \in Int
    BY <1>3, <2>1
  <2> QED
    BY <1>3, <2>2
<1> QED
  BY <1>1, <1>2, <1>3 DEF Span

LEMMA SpanNext ==
    ASSUME NEW r \in Nat, NEW k \in Int
    PROVE  Span(r, k) \in Int /\ Span(r, k - 1) \in Int /\ Span(r, k) = Span(r, k - 1) + r
  BY DEF Span

LEMMA SpanGrows ==
    ASSUME NEW r \in Nat, NEW u \in Nat, NEW k \in Nat
    PROVE  /\ Span(r, u) \in Int /\ Span(r, u - 1) \in Int
           /\ Span(r, u + k) \in Int /\ Span(r, (u + k) - 1) \in Int
           /\ Span(r, u) <= Span(r, u + k) /\ Span(r, u - 1) <= Span(r, (u + k) - 1)
           /\ k # 0 => Span(r, u) <= Span(r, (u + k) - 1)
           /\ Span(r, 0) = 0 /\ 0 <= Span(r, u)
<1>1. PICK v \in Int, w \in Int, x \in Int :
        v = u + k /\ w = (u + k) - 1 /\ x = u - 1 /\ u <= v /\ x <= w /\ (k # 0 => u <= w)
  OBVIOUS
<1>2. /\ Span(r, u) \in Int /\ Span(r, x) \in Int /\ Span(r, v) \in Int /\ Span(r, w) \in Int
      /\ Span(r, u) <= Span(r, v) /\ Span(r, x) <= Span(r, w) /\ (k # 0 => Span(r, u) <= Span(r, w))
      /\ Span(r, 0) = 0 /\ Span(r, 0) <= Span(r, u)
  <2>1. \A i \in Int : Span(r, i) \in Int
    BY SpanFacts, Zenon
  <2>2. \A i, j \in Int : i <= j => Span(r, i) <= Span(r, j)
    BY SpanFacts, Zenon
  <2>3. Span(r, 0) = 0
    BY SpanFacts
  <2>4. 0 \in Int /\ u \in Int /\ 0 <= u
    OBVIOUS
  <2> QED
    BY <1>1, <2>1, <2>2, <2>3, <2>4, Zenon
<1>3. /\ Span(r, u) \in Int /\ Span(r, u - 1) \in Int
      /\ Span(r, u + k) \in Int /\ Span(r, (u + k) - 1) \in Int
      /\ Span(r, u) <= Span(r, u + k) /\ Span(r, u - 1) <= Span(r, (u + k) - 1)
      /\ k # 0 => Span(r, u) <= Span(r, (u + k) - 1)
  BY <1>1, <1>2, Zenon
<1> QED
  BY <1>2, <1>3

Ordered(B) == \A c, d \in B : c.nonce < d.nonce => c.frame.seq < d.frame.seq

Numbered(B) == \A d \in B : d.nonce \in Int /\ d.frame.seq \in Int

Flying(B, s) == \E d \in B : d.frame.seq = s

Answered(A, s) == \E a \in A : acked(a.frame.base, a.frame.bitmap, s)

\* All frames that were sent have the same age, and they only grow older when
\* nothing is on its way and nothing more can be sent.
InStep(t, B, A) ==
    /\ \A s, v \in Sent(t) : t.unacked[s].age = t.unacked[v].age
    /\ \A s \in Sent(t) : t.unacked[s].age > 0 => B = {} /\ A = {} /\ NewSends(t) = {}

\* Frames leave, and are on their way, in the order of their numbers.
Ascending(t, B) ==
    /\ Ordered(B)
    /\ \A v \in Unsent(t) : /\ \A d \in B : d.frame.seq < v
                            /\ \A s \in Sent(t) : s < v

\* What a flush leaves to do.
Flushing(t, where) ==
    /\ where \in {"retx", "block"} => NewSends(t) = {}
    /\ where = "block" => Due(t) = {}

\* u drops account for the time el that a send has taken: every retransmission
\* interval that went by is due to a drop, and a frame that is neither on its
\* way nor answered was itself dropped.
Spent(t, B, A, u, el) ==
    /\ DOMAIN t.unacked # {} => el <= Span(t.retx, u)
    /\ \A s \in Sent(t) :
        /\ Flying(B, s) \/ Answered(A, s) \/ el - t.unacked[s].age <= Span(t.retx, u - 1)
        /\ Span(t.retx, t.unacked[s].attempts - 1) <= el - t.unacked[s].age

\* The send half t of an endpoint in call cl at place `where', with the data
\* datagrams B on their way from it and the acks A on their way to it.
InProgress(t, B, A, u, el, cl, where) ==
    /\ cl # "send" => DOMAIN t.unacked = {}
    /\ InStep(t, B, A)
    /\ Ascending(t, B)
    /\ Flushing(t, where)
    /\ Spent(t, B, A, u, el)

\* Nothing outstanding.
LEMMA NothingToDo ==
    ASSUME NEW t, DOMAIN t.unacked = {}, NEW B, Ordered(B)
    PROVE  \A A, u, el, cl, where : InProgress(t, B, A, u, el, cl, where)
<1>1. Sent(t) = {} /\ Unsent(t) = {} /\ NewSends(t) = {} /\ Due(t) = {}
  BY DEF Sent, Unsent, NewSends, Due
<1> QED
  BY <1>1 DEF InProgress, InStep, Ascending, Flushing, Spent

\* The loop goes on to another place.
LEMMA MovesOn ==
    ASSUME NEW t, NEW B, NEW A, NEW u, NEW el, NEW cl, NEW where,
           InProgress(t, B, A, u, el, cl, where), NEW w, w \notin {"retx", "block"}
    PROVE  InProgress(t, B, A, u, el, cl, w)
  BY DEF InProgress, Flushing

\* enqueue: a message is queued when nothing is outstanding.
LEMMA Queued ==
    ASSUME NEW t, SendHalf(t), NEW B, Ordered(B), NEW A, NEW u \in Nat,
           \A s \in DOMAIN t.unacked : t.unacked[s].age = Never /\ \A d \in B : d.frame.seq < s
    PROVE  InProgress(t, B, A, u, 0, "send", "new")
<1>1. Sent(t) = {}
  BY DEF Sent
<1>2. Unsent(t) = DOMAIN t.unacked
  BY <1>1 DEF Unsent
<1>3. t.retx \in Nat
  BY HalfRanges
<1>4. 0 <= Span(t.retx, u)
  BY <1>3, SpanGrows
<1> QED
  BY <1>1, <1>2, <1>4 DEF InProgress, InStep, Ascending, Flushing, Spent

\* First half of flush.
LEMMA NewSent ==
    ASSUME NEW t, SendHalf(t), NEW B, Numbered(B), NEW A, NEW u \in Nat, NEW el \in Nat, NEW cl,
           InProgress(t, B, A, u, el, cl, "new"),
           NEW lo \in Nat, \A d \in B : d.nonce < lo,
           NEW D, Burst(D, NewSends(t), lo), NEW k \in Nat,
           k = 0 => \A s \in NewSends(t) : Flying(D, s),
           NEW z, z = take_new_sends(t)
    PROVE  InProgress(z, B \cup D, A, u + k, el, cl, "retx")
<1>1. /\ z.retx = t.retx /\ DOMAIN z.unacked = DOMAIN t.unacked
      /\ Sent(z) = Sent(t) \cup NewSends(t) /\ Unsent(z) = Unsent(t) \ NewSends(t)
      /\ \A s \in NewSends(t) : z.unacked[s].age = 0 /\ z.unacked[s].attempts = 1
      /\ \A s \in DOMAIN t.unacked \ NewSends(t) : z.unacked[s] = t.unacked[s]
  BY TakesNew
<1>2. /\ Sent(t) \subseteq DOMAIN t.unacked /\ Unsent(t) \subseteq DOMAIN t.unacked /\ NewSends(t) \subseteq Unsent(t)
      /\ t.retx \in Nat
      /\ \A s \in DOMAIN t.unacked :
            s \in Nat /\ t.unacked[s].age \in Int /\ t.unacked[s].attempts \in Nat /\ (s \in Sent(t) <=> t.unacked[s].age >= 0)
  BY HalfRanges
<1>3. NewSends(z) = {}
  BY NothingNewLeft
<1>4. \A s \in Sent(t) : s \notin NewSends(t) /\ z.unacked[s] = t.unacked[s]
  BY <1>1, <1>2 DEF NewSends, Unsent
<1>5. InStep(z, B \cup D, A)
  <2>1. ASSUME NEW s \in Sent(t), NEW v \in NewSends(t) PROVE t.unacked[s].age = 0
    BY <1>2, <2>1 DEF InProgress, InStep
  <2>2. \A s, v \in Sent(z) : z.unacked[s].age = z.unacked[v].age
    BY <1>1, <1>4, <2>1 DEF InProgress, InStep
  <2>3. ASSUME NEW s \in Sent(z), z.unacked[s].age > 0 PROVE B \cup D = {} /\ A = {}
    <3>1. s \in Sent(t) /\ t.unacked[s].age > 0
      BY <1>1, <1>4, <2>3
    <3>2. B = {} /\ A = {} /\ NewSends(t) = {}
      BY <3>1 DEF InProgress, InStep
    <3> QED
      BY <3>2 DEF Burst
  <2> QED
    BY <1>3, <2>2, <2>3 DEF InStep
<1>6. Ascending(z, B \cup D)
  <2>1. /\ Ordered(B)
        /\ \A v \in Unsent(t) : (\A d \in B : d.frame.seq < v) /\ \A s \in Sent(t) : s < v
    BY DEF InProgress, Ascending
  <2>2. /\ \A d \in D : d.nonce \in Int /\ d.nonce >= lo /\ d.frame.seq \in NewSends(t)
        /\ \A c, d \in D : c.nonce < d.nonce => c.frame.seq < d.frame.seq
    BY DEF Burst
  <2>3. ASSUME NEW c \in B, NEW d \in D PROVE c.frame.seq < d.frame.seq /\ ~ (d.nonce < c.nonce)
    <3>1. d.frame.seq \in Unsent(t) /\ c.nonce \in Int /\ c.nonce < lo /\ d.nonce \in Int /\ d.nonce >= lo
      BY <1>2, <2>2 DEF Numbered
    <3> QED
      BY <2>1, <3>1
  <2>4. Ordered(B \cup D)
    BY <2>1, <2>2, <2>3 DEF Ordered
  <2>5. \A s \in NewSends(t) : \A v \in Unsent(z) : s < v
    BY <1>1, NewSendsFirst
  <2> QED
    BY <1>1, <2>1, <2>2, <2>4, <2>5 DEF Ascending
<1>a. PICK r \in Nat : r = t.retx /\ r = z.retx
  BY <1>1, <1>2
<1>7. /\ Span(r, u) \in Int /\ Span(r, u - 1) \in Int
      /\ Span(r, u + k) \in Int /\ Span(r, (u + k) - 1) \in Int
      /\ Span(r, u) <= Span(r, u + k) /\ Span(r, u - 1) <= Span(r, (u + k) - 1)
      /\ k # 0 => Span(r, u) <= Span(r, (u + k) - 1)
      /\ Span(r, 0) = 0
  BY SpanGrows
<1>8. Spent(z, B \cup D, A, u + k, el)
  <2>1. DOMAIN t.unacked # {} => el <= Span(r, u)
    BY <1>a DEF InProgress, Spent
  <2>2. ASSUME NEW s \in Sent(z)
        PROVE  /\ Flying(B \cup D, s) \/ Answered(A, s) \/ el - z.unacked[s].age <= Span(r, (u + k) - 1)
               /\ Span(r, z.unacked[s].attempts - 1) <= el - z.unacked[s].age
    <3>1. CASE s \in Sent(t)
      <4>1. /\ Flying(B, s) \/ Answered(A, s) \/ el - t.unacked[s].age <= Span(r, u - 1)
            /\ Span(r, t.unacked[s].attempts - 1) <= el - t.unacked[s].age
        BY <1>a, <3>1 DEF InProgress, Spent
      <4>2. z.unacked[s] = t.unacked[s] /\ t.unacked[s].age \in Int
        BY <1>2, <1>4, <3>1
      <4>3. Flying(B, s) => Flying(B \cup D, s)
        BY DEF Flying
      <4> QED
        BY <1>7, <4>1, <4>2, <4>3
    <3>2. CASE s \in NewSends(t)
      <4>1. z.unacked[s].age = 0 /\ z.unacked[s].attempts = 1
        BY <1>1, <3>2
      <4>2. k = 0 => Flying(B \cup D, s)
        BY <3>2 DEF Flying
      <4>3. el <= Span(r, u)
        BY <1>2, <2>1, <3>2
      <4> QED
        BY <1>7, <4>1, <4>2, <4>3
    <3> QED
      BY <1>1, <3>1, <3>2
  <2>3. DOMAIN z.unacked # {} => el <= Span(r, u + k)
    BY <1>1, <1>7, <2>1
  <2> QED
    BY <1>a, <2>2, <2>3 DEF Spent
<1> QED
  BY <1>1, <1>3, <1>5, <1>6, <1>8 DEF InProgress, Flushing

\* Frames that were sent are due together, and then nothing else is going on.
LEMMA DueTogether ==
    ASSUME NEW t, SendHalf(t), t.retx > 0, NEW B, NEW A, InStep(t, B, A), Due(t) # {}
    PROVE  Due(t) = Sent(t) /\ B = {} /\ A = {} /\ NewSends(t) = {}
<1>1. PICK s \in Due(t) : TRUE
  OBVIOUS
<1>2. /\ Sent(t) \subseteq DOMAIN t.unacked /\ t.retx \in Nat
      /\ \A v \in DOMAIN t.unacked : t.unacked[v].age \in Int
  BY HalfRanges
<1>3. s \in Sent(t) /\ t.unacked[s].age > 0 /\ t.unacked[s].age >= t.retx
  BY <1>2 DEF Due
<1>4. \A v \in Sent(t) : t.unacked[v].age = t.unacked[s].age
  BY <1>3 DEF InStep
<1> QED
  BY <1>3, <1>4 DEF InStep, Due

\* Second half of flush, with k drops.
LEMMA Resent ==
    ASSUME NEW t, SendHalf(t), t.retx > 0, NEW B, NEW A, NEW u \in Nat, NEW el \in Nat, NEW cl,
           InProgress(t, B, A, u, el, cl, "retx"), Exhausted(t) = {},
           NEW lo, NEW D, Burst(D, Retransmits(t), lo), NEW k \in Nat,
           k = 0 => \A s \in Retransmits(t) : Flying(D, s),
           NEW z, z = take_retransmits(t)
    PROVE  InProgress(z, B \cup D, A, u + k, el, cl, "block") /\ DOMAIN z.unacked = DOMAIN t.unacked
<1>1. /\ z.retx = t.retx /\ DOMAIN z.unacked = DOMAIN t.unacked
      /\ Sent(z) = Sent(t) /\ Unsent(z) = Unsent(t) /\ NewSends(z) = NewSends(t)
      /\ Retransmits(t) = Due(t) /\ Due(t) \subseteq Sent(t)
      /\ \A s \in Due(t) : z.unacked[s].age = 0 /\ z.unacked[s].attempts = t.unacked[s].attempts + 1
      /\ \A s \in DOMAIN t.unacked \ Due(t) : z.unacked[s] = t.unacked[s]
  BY TakesDue
<1>2. /\ Sent(t) \subseteq DOMAIN t.unacked /\ t.retx \in Nat
      /\ \A s \in DOMAIN t.unacked : t.unacked[s].age \in Int /\ t.unacked[s].attempts \in Nat
  BY HalfRanges
<1>3. NewSends(z) = {}
  BY <1>1 DEF InProgress, Flushing
<1>4. Due(z) = {}
  BY <1>1, <1>2 DEF Due
<1>5. InStep(t, B, A) /\ Ascending(t, B)
  BY DEF InProgress
<1>6. \A d \in D : d.frame.seq \in Due(t)
  BY <1>1 DEF Burst
<1>a. Due(t) = {} \/ (Due(t) = Sent(t) /\ B = {} /\ A = {})
  BY <1>5, DueTogether
<1>7. InStep(z, B \cup D, A)
  <2>1. CASE Due(t) = {}
    <3>1. D = {} /\ \A s \in Sent(t) : z.unacked[s] = t.unacked[s]
      BY <1>1, <1>2, <1>6, <2>1
    <3> QED
      BY <1>1, <1>5, <3>1 DEF InStep
  <2>2. CASE Due(t) = Sent(t)
    BY <1>1, <2>2 DEF InStep
  <2> QED
    BY <1>a, <2>1, <2>2
<1>8. Ascending(z, B \cup D)
  <2>1. CASE Due(t) = {}
    <3>1. D = {}
      BY <1>6, <2>1
    <3> QED
      BY <1>1, <1>5, <3>1 DEF Ascending
  <2>2. CASE B = {}
    <3>1. Ordered(B \cup D)
      BY <2>2 DEF Burst, Ordered
    <3> QED
      BY <1>1, <1>5, <1>6, <2>2, <3>1 DEF Ascending
  <2> QED
    BY <1>a, <2>1, <2>2
<1>b. PICK r \in Nat : r = t.retx /\ r = z.retx
  BY <1>1, <1>2
<1>9. /\ Span(r, u) \in Int /\ Span(r, u - 1) \in Int
      /\ Span(r, u + k) \in Int /\ Span(r, (u + k) - 1) \in Int
      /\ Span(r, u) <= Span(r, u + k) /\ Span(r, u - 1) <= Span(r, (u + k) - 1)
      /\ k # 0 => Span(r, u) <= Span(r, (u + k) - 1)
  BY SpanGrows
<1>10. Spent(z, B \cup D, A, u + k, el)
  <2>1. DOMAIN t.unacked # {} => el <= Span(r, u)
    BY <1>b DEF InProgress, Spent
  <2>2. ASSUME NEW s \in Sent(z)
        PROVE  /\ Flying(B \cup D, s) \/ Answered(A, s) \/ el - z.unacked[s].age <= Span(r, (u + k) - 1)
               /\ Span(r, z.unacked[s].attempts - 1) <= el - z.unacked[s].age
    <3>0. /\ s \in DOMAIN t.unacked /\ s \in Sent(t) /\ t.unacked[s].age \in Int /\ t.unacked[s].attempts \in Nat
      BY <1>1, <1>2
    <3>1. /\ Flying(B, s) \/ Answered(A, s) \/ el - t.unacked[s].age <= Span(r, u - 1)
          /\ Span(r, t.unacked[s].attempts - 1) <= el - t.unacked[s].age
      BY <1>b, <3>0 DEF InProgress, Spent
    <3>2. CASE s \notin Due(t)
      <4>1. z.unacked[s] = t.unacked[s]
        BY <1>1, <3>0, <3>2
      <4>2. Flying(B, s) => Flying(B \cup D, s)
        BY DEF Flying
      <4> QED
        BY <1>9, <3>0, <3>1, <4>1, <4>2
    <3>3. CASE s \in Due(t)
      <4>1. /\ z.unacked[s].age = 0 /\ z.unacked[s].attempts = t.unacked[s].attempts + 1
            /\ t.unacked[s].age >= r
        BY <1>1, <1>b, <3>3 DEF Due
      <4>2. k = 0 => Flying(B \cup D, s)
        BY <1>1, <3>3 DEF Flying
      <4>3. el <= Span(r, u)
        BY <2>1, <3>0
      <4>4. Flying(B \cup D, s) \/ Answered(A, s) \/ el - z.unacked[s].age <= Span(r, (u + k) - 1)
        BY <1>9, <4>1, <4>2, <4>3
      <4>5. PICK a \in Nat : a = t.unacked[s].attempts /\ z.unacked[s].attempts - 1 = a
        BY <3>0, <4>1
      <4>6. Span(r, a) \in Int /\ Span(r, a - 1) \in Int /\ Span(r, a) = Span(r, a - 1) + r
        BY SpanNext
      <4>7. Span(r, a) <= el - z.unacked[s].age
        BY <3>0, <3>1, <4>1, <4>5, <4>6
      <4> QED
        BY <4>4, <4>5, <4>7
    <3> QED
      BY <3>2, <3>3
  <2>3. DOMAIN z.unacked # {} => el <= Span(r, u + k)
    BY <1>1, <1>9, <2>1
  <2> QED
    BY <1>b, <2>2, <2>3 DEF Spent
<1> QED
  BY <1>1, <1>3, <1>4, <1>7, <1>8, <1>10 DEF InProgress, Flushing

\* With fewer drops than attempts no frame is exhausted.
LEMMA NeverExhausted ==
    ASSUME NEW t, SendHalf(t), t.retx > 0, NEW B, NEW A, NEW u \in Nat, NEW el \in Nat,
           Spent(t, B, A, u, el), u < MAX_ATTEMPTS
    PROVE  Exhausted(t) = {}
<1> SUFFICES ASSUME NEW s \in Exhausted(t) PROVE FALSE
  OBVIOUS
<1>1. PICK r \in Nat : r = t.retx /\ r > 0
  BY HalfRanges
<1>2. s \in DOMAIN t.unacked /\ s \in Sent(t) /\ t.unacked[s].age >= r /\ t.unacked[s].attempts >= MAX_ATTEMPTS
  BY <1>1 DEF Exhausted, Due, Sent
<1>3. PICK a \in Nat, g \in Int : a = t.unacked[s].attempts /\ g = t.unacked[s].age
  BY <1>2, HalfRanges
<1>4. Span(r, a) \in Int /\ Span(r, a - 1) \in Int /\ Span(r, a) = Span(r, a - 1) + r
  BY SpanNext
<1>5. Span(r, a - 1) <= el - g /\ el <= Span(r, u)
  BY <1>1, <1>2, <1>3 DEF Spent
<1>6. Span(r, u) \in Int
  <2>1. u \in Int
    OBVIOUS
  <2> QED
    BY <2>1, SpanFacts, Zenon
<1>7. Span(r, a) <= Span(r, u)
  BY <1>2, <1>3, <1>4, <1>5, <1>6
<1>8. a <= u
  <2>1. \A j, k \in Int : Span(r, j) <= Span(r, k) => j <= k
    BY <1>1, SpanFacts, Zenon
  <2>2. a \in Int /\ u \in Int
    OBVIOUS
  <2> QED
    BY <1>7, <2>1, <2>2
<1> QED
  BY <1>2, <1>3, <1>8, WidthsAssumption

\* Nor does a send run out of time.
LEMMA NeverLate ==
    ASSUME NEW t, SendHalf(t), NEW B, NEW A, NEW u \in Nat, NEW el \in Nat,
           Spent(t, B, A, u, el), DOMAIN t.unacked # {},
           NEW n \in Nat, u <= n, NEW limit \in Nat, Span(t.retx, n) < limit
    PROVE  el < limit
<1>1. PICK r \in Nat : r = t.retx
  BY HalfRanges
<1>2. el <= Span(r, u) /\ Span(r, n) < limit
  BY <1>1 DEF Spent
<1>3. Span(r, u) \in Int /\ Span(r, n) \in Int /\ Span(r, u) <= Span(r, n)
  <2>1. PICK k \in Nat : n = u + k
    OBVIOUS
  <2> QED
    BY <2>1, SpanGrows
<1> QED
  BY <1>2, <1>3

\* The endpoint reads the ACK h.
LEMMA AckRead ==
    ASSUME NEW t, SendHalf(t), NEW B, NEW A, NEW u, NEW el, NEW cl, NEW where,
           NEW h, NEW R, A = {h} \cup R,
           InProgress(t, B, A, u, el, cl, where),
           NEW z, z = on_ack(t, h.frame.base, h.frame.bitmap),
           NEW w, w \notin {"retx", "block"}
    PROVE  InProgress(z, B, R, u, el, cl, w)
<1>1. /\ z.retx = t.retx
      /\ \A s \in DOMAIN z.unacked :
            s \in DOMAIN t.unacked /\ ~ acked(h.frame.base, h.frame.bitmap, s) /\ z.unacked[s] = t.unacked[s]
      /\ Sent(z) \subseteq Sent(t) /\ Unsent(z) \subseteq Unsent(t)
  BY Retires
<1>2. Sent(z) \subseteq DOMAIN z.unacked
  BY DEF Sent
<1>3. \A s \in Sent(z) : z.unacked[s] = t.unacked[s] /\ ~ acked(h.frame.base, h.frame.bitmap, s)
  BY <1>1, <1>2
<1>4. InStep(t, B, A) /\ Ascending(t, B) /\ Spent(t, B, A, u, el)
  BY DEF InProgress
<1>5. A # {}
  OBVIOUS
<1>6. InStep(z, B, R)
  BY <1>1, <1>3, <1>4, <1>5 DEF InStep
<1>7. Ascending(z, B)
  BY <1>1, <1>4 DEF Ascending
<1>8. Spent(z, B, R, u, el)
  <2>1. \A s \in Sent(z) : Answered(A, s) => Answered(R, s)
    BY <1>3 DEF Answered
  <2>2. DOMAIN z.unacked # {} => DOMAIN t.unacked # {}
    BY <1>1
  <2> QED
    BY <1>1, <1>3, <1>4, <2>1, <2>2 DEF Spent
<1>9. cl # "send" => DOMAIN z.unacked = {}
  BY <1>1 DEF InProgress
<1> QED
  BY <1>6, <1>7, <1>8, <1>9 DEF InProgress, Flushing

\* The peer reads the data datagram h and answers it with the ACK a.
LEMMA DataRead ==
    ASSUME NEW t, SendHalf(t), NEW B, Numbered(B), NEW A, NEW u, NEW el, NEW cl, NEW where,
           NEW h, NEW R, B = {h} \cup R, \A d \in R : h.nonce < d.nonce,
           InProgress(t, B, A, u, el, cl, where), NEW a,
           h.frame.seq \in DOMAIN t.unacked =>
              \/ acked(a.frame.base, a.frame.bitmap, h.frame.seq)
              \/ \E b \in DOMAIN t.unacked : b < h.frame.seq /\ ~ Answered(A, b)
    PROVE  InProgress(t, R, A \cup {a}, u, el, cl, where)
<1>1. InStep(t, B, A) /\ Ascending(t, B) /\ Spent(t, B, A, u, el)
  BY DEF InProgress
<1>2. /\ Sent(t) \subseteq DOMAIN t.unacked /\ \A s \in DOMAIN t.unacked : s \in Int
      /\ \A s \in DOMAIN t.unacked : s \in Sent(t) \/ s \in Unsent(t)
  BY HalfRanges DEF Unsent
<1>3. InStep(t, R, A \cup {a})
  BY <1>1 DEF InStep
<1>4. Ascending(t, R)
  BY <1>1 DEF Ascending, Ordered
<1>5. ASSUME NEW s \in Sent(t)
      PROVE  Flying(R, s) \/ Answered(A \cup {a}, s) \/ el - t.unacked[s].age <= Span(t.retx, u - 1)
  <2>1. Flying(B, s) \/ Answered(A, s) \/ el - t.unacked[s].age <= Span(t.retx, u - 1)
    BY <1>1 DEF Spent
  <2>2. Answered(A, s) => Answered(A \cup {a}, s)
    BY DEF Answered
  <2>3. Flying(B, s) => Flying(R, s) \/ h.frame.seq = s
    BY DEF Flying
  <2>4. ASSUME h.frame.seq = s
        PROVE  Answered(A \cup {a}, s) \/ el - t.unacked[s].age <= Span(t.retx, u - 1)
    <3>1. CASE acked(a.frame.base, a.frame.bitmap, s)
      BY <3>1 DEF Answered
    <3>2. ASSUME NEW b \in DOMAIN t.unacked, b < s, ~ Answered(A, b)
          PROVE  el - t.unacked[s].age <= Span(t.retx, u - 1)
      <4>1. b \in Sent(t)
        <5>1. ASSUME b \in Unsent(t) PROVE FALSE
          <6>1. s < b
            BY <1>1, <5>1 DEF Ascending
          <6> QED
            BY <1>2, <3>2, <6>1
        <5> QED
          BY <1>2, <5>1
      <4>2. ~ Flying(B, b)
        <5> SUFFICES ASSUME NEW d \in B, d.frame.seq = b PROVE FALSE
          BY DEF Flying
        <5>1. d # h
          BY <1>2, <2>4, <3>2
        <5>2. h.nonce < d.nonce /\ h \in B
          BY <5>1
        <5>3. h.frame.seq < d.frame.seq
          BY <1>1, <5>2 DEF Ascending, Ordered
        <5> QED
          BY <1>2, <2>4, <3>2, <5>3
      <4>3. el - t.unacked[b].age <= Span(t.retx, u - 1)
        BY <1>1, <3>2, <4>1, <4>2 DEF Spent
      <4> QED
        BY <1>1, <4>1, <4>3 DEF InStep
    <3> QED
      BY <1>2, <2>4, <3>1, <3>2
  <2> QED
    BY <2>1, <2>2, <2>3, <2>4
<1>6. Spent(t, R, A \cup {a}, u, el)
  BY <1>1, <1>5 DEF Spent
<1> QED
  BY <1>3, <1>4, <1>6 DEF InProgress

\* A tick goes by while a send waits with nothing on its way.
LEMMA Older ==
    ASSUME NEW t, SendHalf(t), NEW u \in Nat, NEW el \in Nat,
           InProgress(t, {}, {}, u, el, "send", "block"), DOMAIN t.unacked # {},
           NEW z, z = Elapse(t)
    PROVE  InProgress(z, {}, {}, u, el + 1, "send", "new")
<1>1. Due(t) = {} /\ NewSends(t) = {} /\ InStep(t, {}, {}) /\ Ascending(t, {}) /\ Spent(t, {}, {}, u, el)
  BY DEF InProgress, Flushing
<1>2. /\ z.retx = t.retx /\ DOMAIN z.unacked = DOMAIN t.unacked
      /\ Sent(z) = Sent(t) /\ Unsent(z) = Unsent(t) /\ NewSends(z) = NewSends(t)
      /\ \A s \in Sent(t) : /\ t.unacked[s].age < t.retx
                            /\ z.unacked[s].age = t.unacked[s].age + 1
                            /\ z.unacked[s].attempts = t.unacked[s].attempts
  BY <1>1, GrowsOlder
<1>3. /\ t.retx \in Nat /\ Sent(t) \subseteq DOMAIN t.unacked
      /\ \A s \in DOMAIN t.unacked : t.unacked[s].age \in Int
  BY HalfRanges
<1>4. PICK r \in Nat : r = t.retx /\ r = z.retx
  BY <1>2, <1>3
<1>5. PICK m \in Sent(t) : TRUE
  BY <1>1, SomethingSent
<1>6. \A s : ~ Flying({}, s) /\ ~ Answered({}, s)
  BY DEF Flying, Answered
<1>7. \A s \in Sent(t) : /\ el - t.unacked[s].age <= Span(r, u - 1)
                         /\ Span(r, t.unacked[s].attempts - 1) <= el - t.unacked[s].age
  BY <1>1, <1>4, <1>6 DEF Spent
<1>8. Span(r, u) \in Int /\ Span(r, u - 1) \in Int /\ Span(r, u) = Span(r, u - 1) + r
  BY SpanNext
<1>9. el + 1 <= Span(r, u)
  <2>1. PICK g \in Int : g = t.unacked[m].age
    BY <1>3, <1>5
  <2>2. g < r /\ el - g <= Span(r, u - 1)
    BY <1>2, <1>4, <1>5, <1>7, <2>1
  <2> QED
    BY <1>8, <2>2
<1>10. ASSUME NEW s \in Sent(z)
       PROVE  /\ (el + 1) - z.unacked[s].age <= Span(r, u - 1)
              /\ Span(r, z.unacked[s].attempts - 1) <= (el + 1) - z.unacked[s].age
  <2>1. PICK g \in Int : g = t.unacked[s].age /\ z.unacked[s].age = g + 1 /\ z.unacked[s].attempts = t.unacked[s].attempts
    BY <1>2, <1>3
  <2>2. el - g <= Span(r, u - 1) /\ Span(r, z.unacked[s].attempts - 1) <= el - g
    BY <1>2, <1>7, <2>1
  <2>3. (el + 1) - (g + 1) = el - g
    OBVIOUS
  <2> QED
    BY <2>1, <2>2, <2>3
<1>11. Spent(z, {}, {}, u, el + 1)
  BY <1>4, <1>9, <1>10 DEF Spent
<1>12. InStep(z, {}, {})
  BY <1>1, <1>2 DEF InStep
<1>13. Ascending(z, {})
  BY <1>1, <1>2 DEF Ascending, Ordered
<1> QED
  BY <1>11, <1>12, <1>13 DEF InProgress, Flushing

-----------------------------------------------------------------------------
(***************************************************************************)
(* What the flows know of the numbers in use and of the next ACK.          *)
(***************************************************************************)

\* An ACK reaches back over both windows.
BehindReaches == ACK_BEHIND >= WINDOW_SIZE + RECV_WINDOW

\* The sequence numbers of a behaviour do not wrap.
NoWrap == START + MaxFrames < SEQ_MOD

\* The initiator's flow: window and base.
InitiatorWindow == InitiatorArq!WindowInv /\ InitiatorArq!BaseMissing

LEMMA InitiatorWindowStep ==
    ASSUME BehindReaches, SessionInv, InitiatorWindow, [Next]_vars
    PROVE  InitiatorWindow'
<1>1. [InitiatorArq!Next]_(InitiatorArq!vars) /\ InitiatorArq!NoFalseAckInv
  BY FlowsOfStep, InitiatorArqSteps DEF SessionInv
<1>2. InitiatorArq!BehindReaches
  BY DEF BehindReaches, InitiatorArq!BehindReaches
<1>3. InitiatorArq!WindowInv'
  BY <1>1, <1>2, InitiatorArq!WindowStep, ArqConstants, WidthsAssumption
     DEF InitiatorWindow, Seqs, Ages, InitiatorArq!Seqs, InitiatorArq!Ages
<1>4. InitiatorArq!BaseMissing'
  BY <1>1, InitiatorArq!BaseMissingStep, ArqConstants, WidthsAssumption
     DEF InitiatorWindow, Seqs, Ages, InitiatorArq!Seqs, InitiatorArq!Ages
<1> QED
  BY <1>3, <1>4 DEF InitiatorWindow

LEMMA InitiatorWindowInit == Init => InitiatorWindow
<1> SUFFICES ASSUME Init PROVE InitiatorWindow
  OBVIOUS
<1>1. InitiatorArq!Init
  BY InitiatorArqInit
<1>2. InitiatorArq!WindowInv /\ InitiatorArq!BaseMissing
  BY <1>1, InitiatorArq!WindowInit, InitiatorArq!BaseMissingInit, ArqConstants, WidthsAssumption
     DEF Seqs, Ages, InitiatorArq!Seqs, InitiatorArq!Ages
<1> QED
  BY <1>2 DEF InitiatorWindow

LEMMA InitiatorNumbers ==
    ASSUME NoWrap, SessionInv
    PROVE  /\ tx["initiator"].next_seq \in Nat /\ tx["initiator"].retx \in RetxValues
           /\ \A s \in DOMAIN tx["initiator"].unacked :
                s < tx["initiator"].next_seq /\ tx["initiator"].unacked[s].plaintext.seq = s
           /\ \A f \in out["initiator"] :
                f.kind = "data" => f.seq \in Nat /\ f.seq < tx["initiator"].next_seq
           /\ \A n \in Sizes : Send("initiator", n) =>
                \A s \in DOMAIN tx'["initiator"].unacked \ DOMAIN tx["initiator"].unacked :
                    s >= tx["initiator"].next_seq /\ tx'["initiator"].unacked[s].age = Never
<1>1. InitiatorArq!NoFalseAckInv /\ Shape /\ InitiatorArq!NoWrap
  BY DEF SessionInv, NoWrap, InitiatorArq!NoWrap
<1>2. InitiatorArq!TxTypeOK
  BY <1>1 DEF InitiatorArq!NoFalseAckInv, InitiatorArq!TypeOK
<1>3. tx["initiator"].next_seq \in Nat /\ tx["initiator"].retx \in RetxValues
  BY <1>2, WidthsAssumption DEF InitiatorArq!TxTypeOK, InitiatorArq!Seqs
<1>4. /\ \A s \in DOMAIN tx["initiator"].unacked :
            s < tx["initiator"].next_seq /\ tx["initiator"].unacked[s].plaintext.seq = s
      /\ \A f \in Frames("initiator", "data") \cup Frames("responder", "ack") :
            f.kind = "data" => f.seq < tx["initiator"].next_seq
      /\ \A n \in Sizes : InitiatorArq!Enqueue(n) =>
            \A s \in DOMAIN tx'["initiator"].unacked \ DOMAIN tx["initiator"].unacked :
                s >= tx["initiator"].next_seq /\ tx'["initiator"].unacked[s].age = InitiatorArq!Never
  BY <1>1, InitiatorArq!NumbersInUse, ArqConstants, WidthsAssumption
     DEF Seqs, Ages, InitiatorArq!Seqs, InitiatorArq!Ages
<1>5. ASSUME NEW f \in out["initiator"], f.kind = "data" PROVE f.seq \in Nat /\ f.seq < tx["initiator"].next_seq
  <2>1. f \in Frames("initiator", "data")
    BY <1>5 DEF Frames
  <2>2. f \in InitiatorArq!DataFrames \cup InitiatorArq!AckFrames
    BY <1>1, <2>1 DEF InitiatorArq!NoFalseAckInv, InitiatorArq!TypeOK
  <2>3. f.seq \in InitiatorArq!Seqs
    BY <1>5, <2>2 DEF InitiatorArq!DataFrames, InitiatorArq!AckFrames
  <2> QED
    BY <1>4, <1>5, <2>1, <2>3, WidthsAssumption DEF InitiatorArq!Seqs
<1>6. ASSUME NEW n \in Sizes, Send("initiator", n)
      PROVE  \A s \in DOMAIN tx'["initiator"].unacked \ DOMAIN tx["initiator"].unacked :
                s >= tx["initiator"].next_seq /\ tx'["initiator"].unacked[s].age = Never
  <2>1. /\ wrapping_sub(tx["initiator"].next_seq, START) + FrameCount(n) <= MaxFrames
        /\ tx'["initiator"] = enqueue(tx["initiator"], Len(queued["initiator"]) + 1, n)
        /\ queued'["initiator"] =
              Append(queued["initiator"], [first |-> tx["initiator"].next_seq, chunks |-> n])
        /\ UNCHANGED <<rx, out, gave_up, popped>>
    BY <1>1, <1>6 DEF Send, Shape, Endpoints
  <2>2. FlowEnqueue("initiator", "responder", n)
    BY <2>1 DEF FlowEnqueue, FlowWire, Frames
  <2>3. InitiatorArq!Enqueue(n)
    BY <2>2, Zenon DEF FlowEnqueue, FlowWire, InitiatorArq!Enqueue, InitiatorArq!Offset, InitiatorArq!enqueue, enqueue,
       InitiatorArq!FrameCount, FrameCount, InitiatorArq!NextSeq, NextSeq, InitiatorArq!NextFragId, NextFragId,
       InitiatorArq!wrapping_add, wrapping_add, InitiatorArq!wrapping_sub, wrapping_sub,
       InitiatorArq!encode_data, encode_data, InitiatorArq!Never, Never
  <2> QED
    BY <1>4, <2>3 DEF InitiatorArq!Never, Never
<1> QED
  BY <1>3, <1>4, <1>5, <1>6

LEMMA InitiatorAnswered ==
    ASSUME BehindReaches, NoWrap, InitiatorWindow, InitiatorWindow', tx' = tx,
           NEW f \in out["initiator"], f.kind = "data", f.seq \in DOMAIN tx["initiator"].unacked,
           rx'["responder"] = [on_data(rx["responder"], f) EXCEPT !.pending_ack = TRUE]
    PROVE  \/ acked(rx'["responder"].recv_base, rx'["responder"].recv_bits, f.seq)
           \/ \E b \in DOMAIN tx["initiator"].unacked :
                b < f.seq /\ \A g \in out["responder"] : g.kind = "ack" => ~ acked(g.base, g.bitmap, b)
<1>1. InitiatorArq!WindowInv /\ InitiatorArq!BaseMissing /\ InitiatorArq!NoWrap /\ InitiatorArq!BehindReaches
  BY DEF InitiatorWindow, NoWrap, InitiatorArq!NoWrap, BehindReaches, InitiatorArq!BehindReaches
<1>2. InitiatorArq!WindowInv'
  BY DEF InitiatorWindow
<1>3. f \in Frames("initiator", "data") \cup Frames("responder", "ack")
  BY DEF Frames
<1>4. rx'["responder"] = [InitiatorArq!on_data(rx["responder"], f) EXCEPT !.pending_ack = TRUE]
  BY SameInitiatorData
<1>5. tx'["initiator"] = tx["initiator"]
  OBVIOUS
<1>6. \/ InitiatorArq!acked(rx'["responder"].recv_base, rx'["responder"].recv_bits, f.seq)
      \/ \E b \in DOMAIN tx["initiator"].unacked :
            b < f.seq /\ \A g \in Frames("initiator", "data") \cup Frames("responder", "ack") :
                            g.kind = "ack" => ~ InitiatorArq!acked(g.base, g.bitmap, b)
  BY <1>1, <1>2, <1>3, <1>4, <1>5, InitiatorArq!AnsweredOrHeldBack, ArqConstants, WidthsAssumption
     DEF Seqs, Ages, InitiatorArq!Seqs, InitiatorArq!Ages
<1>7. \A x, y, s : InitiatorArq!acked(x, y, s) <=> acked(x, y, s)
  BY DEF InitiatorArq!acked, acked, InitiatorArq!wrapping_sub, wrapping_sub
<1>8. \A g \in out["responder"] : g.kind = "ack" => g \in Frames("initiator", "data") \cup Frames("responder", "ack")
  BY DEF Frames
<1> QED
  BY <1>6, <1>7, <1>8

\* The responder's flow: window and base.
ResponderWindow == ResponderArq!WindowInv /\ ResponderArq!BaseMissing

LEMMA ResponderWindowStep ==
    ASSUME BehindReaches, SessionInv, ResponderWindow, [Next]_vars
    PROVE  ResponderWindow'
<1>1. [ResponderArq!Next]_(ResponderArq!vars) /\ ResponderArq!NoFalseAckInv
  BY FlowsOfStep, ResponderArqSteps DEF SessionInv
<1>2. ResponderArq!BehindReaches
  BY DEF BehindReaches, ResponderArq!BehindReaches
<1>3. ResponderArq!WindowInv'
  BY <1>1, <1>2, ResponderArq!WindowStep, ArqConstants, WidthsAssumption
     DEF ResponderWindow, Seqs, Ages, ResponderArq!Seqs, ResponderArq!Ages
<1>4. ResponderArq!BaseMissing'
  BY <1>1, ResponderArq!BaseMissingStep, ArqConstants, WidthsAssumption
     DEF ResponderWindow, Seqs, Ages, ResponderArq!Seqs, ResponderArq!Ages
<1> QED
  BY <1>3, <1>4 DEF ResponderWindow

LEMMA ResponderWindowInit == Init => ResponderWindow
<1> SUFFICES ASSUME Init PROVE ResponderWindow
  OBVIOUS
<1>1. ResponderArq!Init
  BY ResponderArqInit
<1>2. ResponderArq!WindowInv /\ ResponderArq!BaseMissing
  BY <1>1, ResponderArq!WindowInit, ResponderArq!BaseMissingInit, ArqConstants, WidthsAssumption
     DEF Seqs, Ages, ResponderArq!Seqs, ResponderArq!Ages
<1> QED
  BY <1>2 DEF ResponderWindow

LEMMA ResponderNumbers ==
    ASSUME NoWrap, SessionInv
    PROVE  /\ tx["responder"].next_seq \in Nat /\ tx["responder"].retx \in RetxValues
           /\ \A s \in DOMAIN tx["responder"].unacked :
                s < tx["responder"].next_seq /\ tx["responder"].unacked[s].plaintext.seq = s
           /\ \A f \in out["responder"] :
                f.kind = "data" => f.seq \in Nat /\ f.seq < tx["responder"].next_seq
           /\ \A n \in Sizes : Send("responder", n) =>
                \A s \in DOMAIN tx'["responder"].unacked \ DOMAIN tx["responder"].unacked :
                    s >= tx["responder"].next_seq /\ tx'["responder"].unacked[s].age = Never
<1>1. ResponderArq!NoFalseAckInv /\ Shape /\ ResponderArq!NoWrap
  BY DEF SessionInv, NoWrap, ResponderArq!NoWrap
<1>2. ResponderArq!TxTypeOK
  BY <1>1 DEF ResponderArq!NoFalseAckInv, ResponderArq!TypeOK
<1>3. tx["responder"].next_seq \in Nat /\ tx["responder"].retx \in RetxValues
  BY <1>2, WidthsAssumption DEF ResponderArq!TxTypeOK, ResponderArq!Seqs
<1>4. /\ \A s \in DOMAIN tx["responder"].unacked :
            s < tx["responder"].next_seq /\ tx["responder"].unacked[s].plaintext.seq = s
      /\ \A f \in Frames("responder", "data") \cup Frames("initiator", "ack") :
            f.kind = "data" => f.seq < tx["responder"].next_seq
      /\ \A n \in Sizes : ResponderArq!Enqueue(n) =>
            \A s \in DOMAIN tx'["responder"].unacked \ DOMAIN tx["responder"].unacked :
                s >= tx["responder"].next_seq /\ tx'["responder"].unacked[s].age = ResponderArq!Never
  BY <1>1, ResponderArq!NumbersInUse, ArqConstants, WidthsAssumption
     DEF Seqs, Ages, ResponderArq!Seqs, ResponderArq!Ages
<1>5. ASSUME NEW f \in out["responder"], f.kind = "data" PROVE f.seq \in Nat /\ f.seq < tx["responder"].next_seq
  <2>1. f \in Frames("responder", "data")
    BY <1>5 DEF Frames
  <2>2. f \in ResponderArq!DataFrames \cup ResponderArq!AckFrames
    BY <1>1, <2>1 DEF ResponderArq!NoFalseAckInv, ResponderArq!TypeOK
  <2>3. f.seq \in ResponderArq!Seqs
    BY <1>5, <2>2 DEF ResponderArq!DataFrames, ResponderArq!AckFrames
  <2> QED
    BY <1>4, <1>5, <2>1, <2>3, WidthsAssumption DEF ResponderArq!Seqs
<1>6. ASSUME NEW n \in Sizes, Send("responder", n)
      PROVE  \A s \in DOMAIN tx'["responder"].unacked \ DOMAIN tx["responder"].unacked :
                s >= tx["responder"].next_seq /\ tx'["responder"].unacked[s].age = Never
  <2>1. /\ wrapping_sub(tx["responder"].next_seq, START) + FrameCount(n) <= MaxFrames
        /\ tx'["responder"] = enqueue(tx["responder"], Len(queued["responder"]) + 1, n)
        /\ queued'["responder"] =
              Append(queued["responder"], [first |-> tx["responder"].next_seq, chunks |-> n])
        /\ UNCHANGED <<rx, out, gave_up, popped>>
    BY <1>1, <1>6 DEF Send, Shape, Endpoints
  <2>2. FlowEnqueue("responder", "initiator", n)
    BY <2>1 DEF FlowEnqueue, FlowWire, Frames
  <2>3. ResponderArq!Enqueue(n)
    BY <2>2, Zenon DEF FlowEnqueue, FlowWire, ResponderArq!Enqueue, ResponderArq!Offset, ResponderArq!enqueue, enqueue,
       ResponderArq!FrameCount, FrameCount, ResponderArq!NextSeq, NextSeq, ResponderArq!NextFragId, NextFragId,
       ResponderArq!wrapping_add, wrapping_add, ResponderArq!wrapping_sub, wrapping_sub,
       ResponderArq!encode_data, encode_data, ResponderArq!Never, Never
  <2> QED
    BY <1>4, <2>3 DEF ResponderArq!Never, Never
<1> QED
  BY <1>3, <1>4, <1>5, <1>6

LEMMA ResponderAnswered ==
    ASSUME BehindReaches, NoWrap, ResponderWindow, ResponderWindow', tx' = tx,
           NEW f \in out["responder"], f.kind = "data", f.seq \in DOMAIN tx["responder"].unacked,
           rx'["initiator"] = [on_data(rx["initiator"], f) EXCEPT !.pending_ack = TRUE]
    PROVE  \/ acked(rx'["initiator"].recv_base, rx'["initiator"].recv_bits, f.seq)
           \/ \E b \in DOMAIN tx["responder"].unacked :
                b < f.seq /\ \A g \in out["initiator"] : g.kind = "ack" => ~ acked(g.base, g.bitmap, b)
<1>1. ResponderArq!WindowInv /\ ResponderArq!BaseMissing /\ ResponderArq!NoWrap /\ ResponderArq!BehindReaches
  BY DEF ResponderWindow, NoWrap, ResponderArq!NoWrap, BehindReaches, ResponderArq!BehindReaches
<1>2. ResponderArq!WindowInv'
  BY DEF ResponderWindow
<1>3. f \in Frames("responder", "data") \cup Frames("initiator", "ack")
  BY DEF Frames
<1>4. rx'["initiator"] = [ResponderArq!on_data(rx["initiator"], f) EXCEPT !.pending_ack = TRUE]
  BY SameResponderData
<1>5. tx'["responder"] = tx["responder"]
  OBVIOUS
<1>6. \/ ResponderArq!acked(rx'["initiator"].recv_base, rx'["initiator"].recv_bits, f.seq)
      \/ \E b \in DOMAIN tx["responder"].unacked :
            b < f.seq /\ \A g \in Frames("responder", "data") \cup Frames("initiator", "ack") :
                            g.kind = "ack" => ~ ResponderArq!acked(g.base, g.bitmap, b)
  BY <1>1, <1>2, <1>3, <1>4, <1>5, ResponderArq!AnsweredOrHeldBack, ArqConstants, WidthsAssumption
     DEF Seqs, Ages, ResponderArq!Seqs, ResponderArq!Ages
<1>7. \A x, y, s : ResponderArq!acked(x, y, s) <=> acked(x, y, s)
  BY DEF ResponderArq!acked, acked, ResponderArq!wrapping_sub, wrapping_sub
<1>8. \A g \in out["initiator"] : g.kind = "ack" => g \in Frames("responder", "data") \cup Frames("initiator", "ack")
  BY DEF Frames
<1> QED
  BY <1>6, <1>7, <1>8

\* Both flows.
Windows == InitiatorWindow /\ ResponderWindow

\* The numbers an endpoint uses.
LEMMA Numbers ==
    ASSUME NoWrap, SessionInv, NEW e \in Endpoints
    PROVE  /\ tx[e].next_seq \in Nat /\ tx[e].retx \in RetxValues
           /\ \A s \in DOMAIN tx[e].unacked : s < tx[e].next_seq /\ tx[e].unacked[s].plaintext.seq = s
           /\ \A f \in out[e] : f.kind = "data" => f.seq \in Nat /\ f.seq < tx[e].next_seq
           /\ \A n \in Sizes : Send(e, n) => \A s \in DOMAIN tx'[e].unacked \ DOMAIN tx[e].unacked :
                s >= tx[e].next_seq /\ tx'[e].unacked[s].age = Never
<1>1. CASE e = "initiator"
  BY <1>1, InitiatorNumbers
<1>2. CASE e = "responder"
  BY <1>2, ResponderNumbers
<1> QED
  BY <1>1, <1>2 DEF Endpoints

\* The ACK with which e answers a frame that its peer waits for covers it, or
\* an older frame waits that no ACK covers.
LEMMA AnsweredTo ==
    ASSUME BehindReaches, NoWrap, Windows, Windows', tx' = tx, NEW e \in Endpoints,
           NEW f \in out[Peer(e)], f.kind = "data", f.seq \in DOMAIN tx[Peer(e)].unacked,
           rx'[e] = [on_data(rx[e], f) EXCEPT !.pending_ack = TRUE]
    PROVE  \/ acked(rx'[e].recv_base, rx'[e].recv_bits, f.seq)
           \/ \E b \in DOMAIN tx[Peer(e)].unacked :
                b < f.seq /\ \A g \in out[e] : g.kind = "ack" => ~ acked(g.base, g.bitmap, b)
<1>0. InitiatorWindow /\ InitiatorWindow' /\ ResponderWindow /\ ResponderWindow'
  BY DEF Windows
<1>1. CASE e = "responder"
  BY <1>0, <1>1, PeerFacts, InitiatorAnswered
<1>2. CASE e = "initiator"
  BY <1>0, <1>2, PeerFacts, ResponderAnswered
<1> QED
  BY <1>1, <1>2 DEF Endpoints

-----------------------------------------------------------------------------
(***************************************************************************)
(* Loss is recovered.                                                      *)
(***************************************************************************)

\* DATA e is told to drop unsealed, how much of it has been, and the time the
\* call has taken.
Allowance(e) == IF e = "initiator" THEN conf.drops ELSE 0
Used(e) == Allowance(e) - drop_data[e]
Elapsed(e) == conf.send_timeout - left[e]

Progress(e) ==
    InProgress(tx[e], DataIn(inbox[Peer(e)]), AcksIn(inbox[e]), Used(e), Elapsed(e), call[e], pc[e])

\* Every sealed datagram that was sent to e and not read is on its way, in order.
Arriving(e) == InSequence(inbox[e], rx_nonce[e], tx_nonce[Peer(e)]) /\ Clean(inbox[e])

Within(e) ==
    /\ pc[e] = "pop" => call[e] = "recv"
    /\ call[e] = "send" => left[e] <= conf.send_timeout
    /\ drop_data[e] <= Allowance(e)
    /\ result[e] \notin {"send timeout", "give up"}

Good(e) == Progress(e) /\ Arriving(e) /\ Within(e)

\* Nothing is lost but fewer datagrams than a frame has attempts, and a send
\* outlasts their retransmission at every timeout an application may set.
Forgiving(c) ==
    /\ c.faults = 0 \/ c.kinds = {}
    /\ ~ c.stray
    /\ c.drops < MAX_ATTEMPTS
    /\ \A d \in RetxValues : d > 0 /\ d * c.drops < c.send_timeout

Mending ==
    /\ UnfitInv /\ Windows
    /\ conf.prompt /\ Forgiving(conf) /\ (faults = 0 \/ conf.kinds = {})
    /\ \A e \in Endpoints : ~ Unfit(e) /\ Good(e)

\* What is on its way to e.
LEMMA OnItsWay ==
    ASSUME Shape, NEW e \in Endpoints, Ledger(e)
    PROVE  /\ \E V : inbox[e] \in Seq(V)
           /\ \A d \in Contents(inbox[e]) : d.kind = "data" =>
                d.nonce \in Nat /\ d.nonce < tx_nonce[Peer(e)] /\ d.frame \in out[Peer(e)]
<1>1. PICK L : /\ \A n \in 0 .. (tx_nonce[Peer(e)] - 1) : L[n] \in out[Peer(e)]
               /\ inbox[e] \in Seq(Written(e, L))
  BY DEF Ledger
<1>2. PICK q : q = inbox[e]
  OBVIOUS
<1>3. PICK W : W = Written(e, L)
  OBVIOUS
<1>4. q \in Seq(W)
  BY <1>1, <1>2, <1>3
<1>5. \A i \in DOMAIN q : q[i] \in W
  BY <1>4, LenProperties
<1>6. ASSUME NEW d \in Contents(q), d.kind = "data"
      PROVE  d.nonce \in Nat /\ d.nonce < tx_nonce[Peer(e)] /\ d.frame \in out[Peer(e)]
  <2>1. d \in Written(e, L)
    BY <1>3, <1>5 DEF Contents
  <2>2. PICK n \in 0 .. (tx_nonce[Peer(e)] - 1) : d = Sealed(n, L[n])
    BY <1>6, <2>1 DEF Written, Handshake, Cover
  <2>3. d.nonce = n /\ d.frame = L[n]
    BY <2>2 DEF Sealed
  <2>4. tx_nonce[Peer(e)] \in Nat
    BY PeerFacts DEF Shape
  <2> QED
    BY <1>1, <2>3, <2>4
<1> QED
  BY <1>2, <1>4, <1>6

\* The sending side of an endpoint.
LEMMA Sending ==
    ASSUME NoWrap, Mending, NEW e \in Endpoints
    PROVE  /\ SendHalf(tx[e]) /\ tx[e].retx > 0
           /\ Used(e) \in Nat /\ Used(e) < MAX_ATTEMPTS /\ Used(e) <= conf.drops
           /\ conf.drops \in Nat /\ conf.send_timeout \in Nat
           /\ Span(tx[e].retx, conf.drops) < conf.send_timeout
           /\ DOMAIN tx[e].unacked # {} => call[e] = "send" /\ Elapsed(e) \in Nat
           /\ DOMAIN tx[e].unacked \subseteq Seqs
           /\ \A s \in DOMAIN tx[e].unacked :
                /\ tx[e].unacked[s].plaintext.kind = "data" /\ tx[e].unacked[s].plaintext.seq = s
                /\ Fits(tx[e].unacked[s].plaintext)
<1>1. SessionInv /\ Shape /\ LoopInv /\ InitiatorArq!NoFalseAckInv /\ ResponderArq!NoFalseAckInv
  BY DEF Mending, UnfitInv, SessionInv
<1>2. SendHalf(tx[e]) /\ Waits(e)
  BY <1>1, SendHalves, FlowWaits
<1>3. tx[e].retx \in RetxValues /\ \A s \in DOMAIN tx[e].unacked : tx[e].unacked[s].plaintext.seq = s
  BY <1>1, Numbers
<1>4. tx[e].retx > 0
  BY <1>3 DEF Mending, Forgiving
<1>5. conf.drops \in Nat /\ conf.send_timeout \in Nat /\ drop_data[e] \in Nat
  BY <1>1 DEF Shape, Scenario
<1>6. conf.drops < MAX_ATTEMPTS /\ tx[e].retx * conf.drops < conf.send_timeout
  BY <1>3 DEF Mending, Forgiving
<1>7. Good(e) /\ ~ Unfit(e)
  BY DEF Mending
<1>8. Used(e) \in Nat /\ Used(e) <= conf.drops
  <2>1. drop_data[e] <= Allowance(e)
    BY <1>7 DEF Good, Within
  <2>2. Allowance(e) \in Nat /\ Allowance(e) <= conf.drops
    BY <1>5 DEF Allowance
  <2> QED
    BY <1>5, <2>1, <2>2 DEF Used
<1>9. ASSUME DOMAIN tx[e].unacked # {} PROVE call[e] = "send" /\ Elapsed(e) \in Nat
  <2>1. call[e] = "send"
    BY <1>7, <1>9 DEF Good, Progress, InProgress
  <2>2. left[e] <= conf.send_timeout
    BY <1>7, <2>1 DEF Good, Within
  <2>3. left[e] \in Nat
    <3>1. left[e] \in 0 .. (conf.send_timeout + conf.recv_timeout)
      BY <1>1 DEF LoopInv
    <3>2. conf.recv_timeout \in Nat
      BY <1>1 DEF Shape, Scenario
    <3> QED
      BY <1>5, <3>1, <3>2
  <2> QED
    BY <1>5, <2>1, <2>2, <2>3 DEF Elapsed
<1>10. Used(e) < MAX_ATTEMPTS
  BY <1>5, <1>6, <1>8, WidthsAssumption
<1>11. Span(tx[e].retx, conf.drops) < conf.send_timeout
  BY <1>6 DEF Span
<1>12. \A s \in DOMAIN tx[e].unacked : Fits(tx[e].unacked[s].plaintext)
  BY <1>7 DEF Unfit
<1> QED
  BY <1>2, <1>3, <1>4, <1>5, <1>8, <1>9, <1>10, <1>11, <1>12 DEF Waits

\* What e has on its way.
LEMMA InTransit ==
    ASSUME NoWrap, Mending, NEW e \in Endpoints
    PROVE  /\ \E V : inbox[e] \in Seq(V)
           /\ rx_nonce[e] \in Nat /\ tx_nonce[e] \in Nat /\ rx_nonce[e] <= tx_nonce[Peer(e)]
           /\ Numbered(DataIn(inbox[Peer(e)])) /\ Ordered(DataIn(inbox[Peer(e)]))
           /\ \A d \in DataIn(inbox[Peer(e)]) :
                d.nonce < tx_nonce[e] /\ d.frame.seq < tx[e].next_seq /\ d.frame \in out[e]
           /\ \A d \in AcksIn(inbox[Peer(e)]) : d.frame \in out[e]
<1>1. SessionInv /\ Shape /\ \A x \in Endpoints : Ledger(x)
  BY DEF Mending, UnfitInv, SessionInv
<1>2. Peer(e) \in Endpoints /\ Peer(Peer(e)) = e
  BY PeerFacts
<1>3. \A d \in Contents(inbox[Peer(e)]) : d.kind = "data" =>
        d.nonce \in Nat /\ d.nonce < tx_nonce[e] /\ d.frame \in out[e]
  BY <1>1, <1>2, OnItsWay
<1>4. \E V : inbox[e] \in Seq(V)
  BY <1>1, OnItsWay
<1>5. \A f \in out[e] : f.kind = "data" => f.seq \in Nat /\ f.seq < tx[e].next_seq
  BY <1>1, Numbers
<1>6. ASSUME NEW d \in DataIn(inbox[Peer(e)])
      PROVE  /\ d.nonce \in Int /\ d.frame.seq \in Int
             /\ d.nonce < tx_nonce[e] /\ d.frame.seq < tx[e].next_seq /\ d.frame \in out[e]
  BY <1>3, <1>5 DEF DataIn, IsData
<1>7. \A d \in AcksIn(inbox[Peer(e)]) : d.frame \in out[e]
  BY <1>3 DEF AcksIn, IsAck
<1>8. Ordered(DataIn(inbox[Peer(e)]))
  BY DEF Mending, Good, Progress, InProgress, Ascending
<1> QED
  BY <1>1, <1>4, <1>6, <1>7, <1>8 DEF Numbered, Shape, Ledger

\* A direction that a step leaves alone.
LEMMA KeptProgress ==
    ASSUME conf' = conf, NEW e \in Endpoints, Progress(e), tx'[e] = tx[e],
           DataIn(inbox'[Peer(e)]) = DataIn(inbox[Peer(e)]), AcksIn(inbox'[e]) = AcksIn(inbox[e]),
           drop_data'[e] = drop_data[e], left'[e] = left[e], call'[e] = call[e], pc'[e] = pc[e]
    PROVE  Progress(e)'
  BY DEF Progress, Used, Allowance, Elapsed

\* The loop goes on, and nothing else changes that the direction depends on.
LEMMA MovedProgress ==
    ASSUME conf' = conf, NEW e \in Endpoints, Progress(e), tx'[e] = tx[e],
           DataIn(inbox'[Peer(e)]) = DataIn(inbox[Peer(e)]), AcksIn(inbox'[e]) = AcksIn(inbox[e]),
           drop_data'[e] = drop_data[e], left'[e] = left[e], call'[e] = call[e],
           pc'[e] \notin {"retx", "block"}
    PROVE  Progress(e)'
<1>1. InProgress(tx[e], DataIn(inbox[Peer(e)]), AcksIn(inbox[e]), Used(e), Elapsed(e), call[e], pc'[e])
  BY MovesOn DEF Progress
<1> QED
  BY <1>1 DEF Progress, Used, Allowance, Elapsed

\* A direction with nothing outstanding.
LEMMA EmptyProgress ==
    ASSUME NEW e \in Endpoints, DOMAIN tx'[e].unacked = {}, Ordered(DataIn(inbox'[Peer(e)]))
    PROVE  Progress(e)'
<1>1. \A A, u, el, cl, where : InProgress(tx'[e], DataIn(inbox'[Peer(e)]), A, u, el, cl, where)
  BY NothingToDo
<1> QED
  BY <1>1 DEF Progress

LEMMA KeptArriving ==
    ASSUME NEW e \in Endpoints, Arriving(e), inbox'[e] = inbox[e], rx_nonce'[e] = rx_nonce[e],
           tx_nonce'[Peer(e)] = tx_nonce[Peer(e)]
    PROVE  Arriving(e)'
  BY DEF Arriving

LEMMA KeptWithin ==
    ASSUME conf' = conf, NEW e \in Endpoints, Within(e), drop_data'[e] = drop_data[e],
           left'[e] = left[e], call'[e] = call[e], pc'[e] = pc[e], result'[e] = result[e]
    PROVE  Within(e)'
  BY DEF Within, Allowance

\* What the ends of a turn of the loop do to the call.
LEMMA Returned ==
    ASSUME LoopInv, NEW e \in Endpoints, NEW how, Return(e, how)
    PROVE  /\ call'[e] = "idle" /\ pc'[e] = "out" /\ left'[e] = 0 /\ result'[e] = how
           /\ call'[Peer(e)] = call[Peer(e)] /\ pc'[Peer(e)] = pc[Peer(e)]
           /\ left'[Peer(e)] = left[Peer(e)] /\ result'[Peer(e)] = result[Peer(e)]
<1>1. Peer(e) \in Endpoints /\ Peer(e) # e
  BY PeerFacts
<1>2. DOMAIN call = Endpoints /\ DOMAIN pc = Endpoints /\ DOMAIN left = Endpoints /\ DOMAIN result = Endpoints
  BY DEF LoopInv
<1> QED
  BY <1>1, <1>2 DEF Return

LEMMA WentTo ==
    ASSUME LoopInv, NEW e \in Endpoints, NEW where, Goto(e, where)
    PROVE  /\ call' = call /\ left' = left /\ result' = result
           /\ pc'[e] = where /\ pc'[Peer(e)] = pc[Peer(e)]
<1>1. Peer(e) \in Endpoints /\ Peer(e) # e /\ DOMAIN pc = Endpoints
  BY PeerFacts DEF LoopInv
<1> QED
  BY <1>1 DEF Goto

\* The send halves, before and after a step.
LEMMA HalvesOfSession == SessionInv => \A x \in Endpoints : SendHalf(tx[x])
  BY SendHalves DEF SessionInv

LEMMA HalvesNext == SessionInv' => (\A x \in Endpoints : SendHalf(tx[x]))'
  BY HalvesOfSession, PTL

\* The actor's peer, when only the actor's call, place and result change.
LEMMA BystanderGood ==
    ASSUME conf' = conf, NEW e \in Endpoints, Good(e),
           tx'[e] = tx[e], DataIn(inbox'[Peer(e)]) = DataIn(inbox[Peer(e)]), inbox'[e] = inbox[e],
           rx_nonce'[e] = rx_nonce[e], tx_nonce'[Peer(e)] = tx_nonce[Peer(e)], drop_data'[e] = drop_data[e],
           left'[e] = left[e], call'[e] = call[e], pc'[e] = pc[e], result'[e] = result[e]
    PROVE  Good(e)'
<1>1. Progress(e) /\ Arriving(e) /\ Within(e)
  BY DEF Good
<1>2. Progress(e)'
  BY <1>1, KeptProgress
<1>3. Arriving(e)'
  BY <1>1, KeptArriving
<1>4. Within(e)'
  BY <1>1, KeptWithin
<1> QED
  BY <1>2, <1>3, <1>4 DEF Good

\* A send begins.
LEMMA SendGood ==
    ASSUME NoWrap, Mending, SessionInv', NEW e \in Endpoints, NEW n \in Sizes, Send(e, n)
    PROVE  Good(e)' /\ Good(Peer(e))'
<1>1. Peer(e) \in Endpoints /\ Peer(e) # e /\ Peer(Peer(e)) = e
  BY PeerFacts
<1>2. SessionInv /\ Shape /\ LoopInv /\ Good(e) /\ Good(Peer(e))
  BY <1>1 DEF Mending, UnfitInv, SessionInv
<1>3. UNCHANGED <<conf, tx_nonce, rx_nonce, drop_data, result, inbox>> /\ call[e] = "idle"
  BY DEF Send, noiseVars
<1>4. /\ call'[e] = "send" /\ pc'[e] = "new" /\ left'[e] = conf.send_timeout
      /\ call'[Peer(e)] = call[Peer(e)] /\ pc'[Peer(e)] = pc[Peer(e)] /\ left'[Peer(e)] = left[Peer(e)]
      /\ tx'[Peer(e)] = tx[Peer(e)]
  BY <1>1, <1>2 DEF Send, LoopInv, Shape
<1>5. Good(Peer(e))'
  BY <1>1, <1>2, <1>3, <1>4, BystanderGood
<1>6. DOMAIN tx[e].unacked = {}
  BY <1>2, <1>3 DEF Good, Progress, InProgress
<1>7. SendHalf(tx'[e])
  BY HalvesNext
<1>8. \A s \in DOMAIN tx'[e].unacked : s >= tx[e].next_seq /\ tx'[e].unacked[s].age = Never
  BY <1>2, <1>6, Numbers
<1>9. tx[e].next_seq \in Nat
  BY <1>2, Numbers
<1>10. \A s \in DOMAIN tx'[e].unacked : s \in Nat
  BY <1>7, HalfRanges
<1>11. PICK B : B = DataIn(inbox[Peer(e)])
  OBVIOUS
<1>12. Numbered(B) /\ Ordered(B) /\ \A d \in B : d.frame.seq < tx[e].next_seq
  BY <1>11, InTransit
<1>13. \A s \in DOMAIN tx'[e].unacked : \A d \in B : d.frame.seq < s
  BY <1>8, <1>9, <1>10, <1>12 DEF Numbered
<1>14. Used(e) \in Nat /\ conf.send_timeout \in Nat
  BY Sending
<1>15. \A A : InProgress(tx'[e], B, A, Used(e), 0, "send", "new")
  <2>1. PICK t : t = tx'[e]
    OBVIOUS
  <2>2. SendHalf(t) /\ \A s \in DOMAIN t.unacked : t.unacked[s].age = Never /\ \A d \in B : d.frame.seq < s
    BY <1>7, <1>8, <1>13, <2>1
  <2>3. \A A : InProgress(t, B, A, Used(e), 0, "send", "new")
    BY <1>12, <1>14, <2>2, Queued
  <2> QED
    BY <2>1, <2>3
<1>16. Used(e)' = Used(e) /\ Elapsed(e)' = 0
  BY <1>3, <1>4, <1>14 DEF Used, Allowance, Elapsed
<1>17. Progress(e)'
  BY <1>3, <1>4, <1>11, <1>15, <1>16 DEF Progress
<1>18. Within(e)'
  <2>1. drop_data[e] <= Allowance(e) /\ result[e] \notin {"send timeout", "give up"}
    BY <1>2 DEF Good, Within
  <2>2. left'[e] <= conf'.send_timeout
    BY <1>3, <1>4, <1>14
  <2> QED
    BY <1>3, <1>4, <2>1, <2>2 DEF Within, Allowance
<1>19. Arriving(e)'
  BY <1>2, <1>3, KeptArriving DEF Good
<1> QED
  BY <1>5, <1>17, <1>18, <1>19 DEF Good

LEMMA BothEnds ==
    ASSUME Mending, NEW e \in Endpoints
    PROVE  /\ Peer(e) \in Endpoints /\ Peer(e) # e /\ Peer(Peer(e)) = e
           /\ SessionInv /\ Shape /\ LoopInv
           /\ Progress(e) /\ Arriving(e) /\ Within(e) /\ Good(Peer(e))
           /\ call[e] # "send" => DOMAIN tx[e].unacked = {}
<1>1. Peer(e) \in Endpoints /\ Peer(e) # e /\ Peer(Peer(e)) = e
  BY PeerFacts
<1>2. SessionInv /\ Shape /\ LoopInv /\ Good(e) /\ Good(Peer(e))
  BY <1>1 DEF Mending, UnfitInv, SessionInv
<1> QED
  BY <1>1, <1>2 DEF Good, Progress, InProgress

\* A call begins or ends when nothing is outstanding.
LEMMA IdleGood ==
    ASSUME NoWrap, Mending, NEW e \in Endpoints, DOMAIN tx[e].unacked = {},
           UNCHANGED <<conf, tx, tx_nonce, rx_nonce, drop_data, inbox>>,
           pc'[e] = "pop" => call'[e] = "recv", call'[e] # "send",
           result'[e] \notin {"send timeout", "give up"},
           left'[Peer(e)] = left[Peer(e)], call'[Peer(e)] = call[Peer(e)],
           pc'[Peer(e)] = pc[Peer(e)], result'[Peer(e)] = result[Peer(e)]
    PROVE  Good(e)' /\ Good(Peer(e))'
<1>1. /\ Peer(e) \in Endpoints /\ Peer(e) # e /\ Peer(Peer(e)) = e
      /\ Arriving(e) /\ Within(e) /\ Good(Peer(e))
  BY BothEnds
<1>2. Good(Peer(e))'
  BY <1>1, BystanderGood
<1>3. Ordered(DataIn(inbox[Peer(e)]))
  BY InTransit
<1>4. Progress(e)'
  BY <1>3, EmptyProgress
<1>5. Arriving(e)'
  BY <1>1, KeptArriving
<1>6. Within(e)'
  BY <1>1 DEF Within, Allowance
<1> QED
  BY <1>2, <1>4, <1>5, <1>6 DEF Good

\* An oversized message, recv, and recv with a delivered message.
LEMMA CallsGood ==
    ASSUME NoWrap, Mending, NEW e \in Endpoints, SendTooLarge(e) \/ Recv(e) \/ PopMessage(e)
    PROVE  Good(e)' /\ Good(Peer(e))'
<1>1. /\ Peer(e) \in Endpoints /\ Peer(e) # e
      /\ Shape /\ LoopInv /\ Within(e) /\ (call[e] # "send" => DOMAIN tx[e].unacked = {})
  BY BothEnds
<1>2. CASE SendTooLarge(e)
  <2>1. /\ UNCHANGED <<conf, tx, tx_nonce, rx_nonce, drop_data, inbox, call, pc, left>>
        /\ call[e] = "idle" /\ result' = [result EXCEPT ![e] = "too large"]
    BY <1>2 DEF SendTooLarge, arqVars, noiseVars
  <2>2. result'[e] = "too large" /\ result'[Peer(e)] = result[Peer(e)]
    BY <1>1, <2>1 DEF LoopInv
  <2>3. pc[e] = "pop" => call[e] = "recv"
    BY <1>1 DEF Within
  <2> QED
    BY <1>1, <2>1, <2>2, <2>3, IdleGood
<1>3. CASE Recv(e)
  <2>1. /\ UNCHANGED <<conf, tx, tx_nonce, rx_nonce, drop_data, inbox, result>>
        /\ call[e] = "idle" /\ call' = [call EXCEPT ![e] = "recv"]
        /\ left' = [left EXCEPT ![e] = conf.recv_timeout]
    BY <1>3 DEF Recv, arqVars, noiseVars
  <2>2. pc' = [pc EXCEPT ![e] = IF rx[e].delivered # << >> THEN "pop" ELSE "new"]
    BY <1>3 DEF Recv
  <2>3. /\ call'[e] = "recv" /\ call'[Peer(e)] = call[Peer(e)] /\ pc'[Peer(e)] = pc[Peer(e)]
        /\ left'[Peer(e)] = left[Peer(e)]
    BY <1>1, <2>1, <2>2 DEF LoopInv
  <2>4. result'[e] \notin {"send timeout", "give up"}
    BY <1>1, <2>1 DEF Within
  <2> QED
    BY <1>1, <2>1, <2>3, <2>4, IdleGood
<1>4. CASE PopMessage(e)
  <2>1. UNCHANGED <<conf, tx, tx_nonce, rx_nonce, drop_data, inbox>> /\ pc[e] = "pop" /\ Return(e, "recv ok")
    BY <1>4 DEF PopMessage, noiseVars
  <2>2. call[e] = "recv"
    BY <1>1, <2>1 DEF Within
  <2>3. /\ call'[e] = "idle" /\ pc'[e] = "out" /\ result'[e] = "recv ok"
        /\ call'[Peer(e)] = call[Peer(e)] /\ pc'[Peer(e)] = pc[Peer(e)]
        /\ left'[Peer(e)] = left[Peer(e)] /\ result'[Peer(e)] = result[Peer(e)]
    BY <1>1, <2>1, Returned
  <2> QED
    BY <1>1, <2>1, <2>2, <2>3, IdleGood
<1> QED
  BY <1>2, <1>3, <1>4

\* Tuning between calls: nothing is outstanding, so a send that begins later
\* starts afresh with the timeout and the drops it finds.
LEMMA TuningGood ==
    ASSUME NoWrap, Mending, NEW e \in Endpoints, Configure(e)
    PROVE  Good(e)' /\ Good(Peer(e))'
<1>1. /\ Peer(e) \in Endpoints /\ Peer(e) # e /\ Peer(Peer(e)) = e
      /\ SessionInv /\ Shape /\ Arriving(e) /\ Within(e) /\ Good(Peer(e))
      /\ (call[e] # "send" => DOMAIN tx[e].unacked = {})
  BY BothEnds
<1>2. /\ UNCHANGED <<conf, tx_nonce, rx_nonce, inbox>> /\ UNCHANGED <<call, pc, left, result>>
      /\ call[e] = "idle"
  BY Tuning
<1>3. DOMAIN tx'[e].unacked = {} /\ tx'[Peer(e)] = tx[Peer(e)]
  <2>1. DOMAIN tx[e].unacked = {}
    BY <1>1, <1>2
  <2>2. CASE tx' = tx
    BY <2>1, <2>2
  <2>3. ASSUME NEW d, tx' = [tx EXCEPT ![e] = set_retx(@, d)]
        PROVE  DOMAIN tx'[e].unacked = {} /\ tx'[Peer(e)] = tx[Peer(e)]
    <3>1. tx'[e] = set_retx(tx[e], d) /\ tx'[Peer(e)] = tx[Peer(e)]
      BY <1>1, <2>3 DEF Shape
    <3>2. PICK t : t = tx[e]
      OBVIOUS
    <3>3. t = [next_seq |-> t.next_seq, next_frag_id |-> t.next_frag_id, unacked |-> t.unacked, retx |-> t.retx]
      BY <1>1, <3>2, HalvesOfSession DEF SendHalf
    <3>4. set_retx(t, d).unacked = t.unacked
      BY <3>3 DEF set_retx
    <3> QED
      BY <2>1, <3>1, <3>2, <3>4
  <2> QED
    BY <2>2, <2>3, Tuning
<1>4. drop_data'[Peer(e)] = drop_data[Peer(e)] /\ drop_data'[e] <= Allowance(e)
  <2>1. conf.drops \in Nat /\ drop_data[e] \in Nat /\ drop_data[e] <= Allowance(e) /\ DOMAIN drop_data = Endpoints
    BY <1>1 DEF Shape, Scenario, Within
  <2>2. CASE drop_data' = drop_data
    BY <2>1, <2>2
  <2>3. CASE e = "initiator" /\ drop_data' = [drop_data EXCEPT ![e] = conf.drops]
    <3>1. drop_data'[e] = conf.drops /\ drop_data'[Peer(e)] = drop_data[Peer(e)] /\ Allowance(e) = conf.drops
      BY <1>1, <2>1, <2>3 DEF Allowance
    <3> QED
      BY <2>1, <3>1
  <2> QED
    BY <2>2, <2>3, Tuning
<1>5. Good(Peer(e))'
  BY <1>1, <1>2, <1>3, <1>4, BystanderGood
<1>6. Ordered(DataIn(inbox[Peer(e)]))
  BY InTransit
<1>7. Progress(e)'
  BY <1>2, <1>3, <1>6, EmptyProgress
<1>8. Arriving(e)'
  BY <1>1, <1>2, KeptArriving
<1>9. Within(e)'
  BY <1>1, <1>2, <1>4 DEF Within, Allowance
<1> QED
  BY <1>5, <1>7, <1>8, <1>9 DEF Good

\* Nothing fails: every frame fits, the socket refuses nothing, no handshake
\* datagram is about, and no frame runs out of attempts.
LEMMA NothingFails ==
    ASSUME NoWrap, Mending, NEW e \in Endpoints
    PROVE  /\ ~ Refused /\ ~ AckFails(e) /\ ~ CoverFails(e) /\ ~ ReadUnexpected(e) /\ ~ ReadFails(e)
           /\ ~ FlushNewFails(e) /\ ~ FlushRetxFails(e) /\ ~ FlushGiveUp(e)
           /\ ~ Lose(e) /\ ~ Swap(e) /\ ~ Duplicate(e)
<1>1. faults = 0 \/ conf.kinds = {}
  BY DEF Mending
<1>2. ~ Refused
  BY <1>1 DEF Refused
<1>3. ~ Lose(e) /\ ~ Swap(e) /\ ~ Duplicate(e)
  BY <1>1 DEF Lose, Swap, Duplicate, Misbehave
<1>4. ~ AckFails(e) /\ ~ CoverFails(e) /\ ~ ReadFails(e)
  BY <1>2 DEF AckFails, CoverFails, ReadFails
<1>5. Shape /\ Arriving(e) /\ Progress(e)
  BY BothEnds
<1>6. ~ ReadUnexpected(e)
  <2> SUFFICES ASSUME ReadUnexpected(e) PROVE FALSE
    OBVIOUS
  <2>1. inbox[e] # << >> /\ Head(inbox[e]).kind = "handshake"
    BY DEF ReadUnexpected, Reading
  <2>2. PICK V : inbox[e] \in Seq(V)
    BY InTransit
  <2>3. Head(inbox[e]) \in Contents(inbox[e])
    BY <2>1, <2>2, ReadContents
  <2> QED
    BY <1>5, <2>1, <2>3 DEF Arriving, Clean
<1>7. Exhausted(tx[e]) = {}
  <2>1. /\ SendHalf(tx[e]) /\ tx[e].retx > 0 /\ Used(e) \in Nat /\ Used(e) < MAX_ATTEMPTS
        /\ (DOMAIN tx[e].unacked # {} => Elapsed(e) \in Nat)
    BY Sending
  <2>2. CASE DOMAIN tx[e].unacked = {}
    BY <2>2 DEF Exhausted, Due, Sent
  <2>3. CASE DOMAIN tx[e].unacked # {}
    <3>1. Spent(tx[e], DataIn(inbox[Peer(e)]), AcksIn(inbox[e]), Used(e), Elapsed(e))
      BY <1>5 DEF Progress, InProgress
    <3> QED
      BY <2>1, <2>3, <3>1, NeverExhausted
  <2> QED
    BY <2>2, <2>3
<1>8. ~ FlushGiveUp(e)
  BY <1>7 DEF FlushGiveUp
<1>9. ASSUME NEW S, S \subseteq DOMAIN tx[e].unacked, SendStops(e, InOrder(tx[e], S)) PROVE FALSE
  <2>1. DOMAIN tx[e].unacked \subseteq Seqs /\ \A s \in DOMAIN tx[e].unacked : Fits(tx[e].unacked[s].plaintext)
    BY Sending
  <2>2. S \in SUBSET Seqs
    BY <1>9, <2>1
  <2>3. PICK frames : frames = InOrder(tx[e], S)
    OBVIOUS
  <2>4. PICK F : frames \in Seq(F) /\ F = {tx[e].unacked[s].plaintext : s \in S}
    BY <2>2, <2>3, InOrderFacts
  <2>5. \A j \in DOMAIN frames : Fits(frames[j])
    <3>a. {InOrder(tx[e], S)[j] : j \in DOMAIN InOrder(tx[e], S)} = {tx[e].unacked[s].plaintext : s \in S}
      BY <2>2, InOrderFacts
    <3>1. {frames[j] : j \in DOMAIN frames} = F
      BY <2>3, <2>4, <3>a, Zenon
    <3>2. \A f \in F : Fits(f)
      BY <1>9, <2>1, <2>4
    <3> QED
      BY <3>1, <3>2
  <2>6. PICK sealed : sealed = SealAll(e, frames)
    OBVIOUS
  <2>7. PICK k \in DOMAIN sealed : IF Fits(sealed[k].frame) THEN Refused ELSE UNCHANGED faults
    BY <1>9, <2>3, <2>6 DEF SendStops
  <2>8. \E j \in DOMAIN frames : sealed[k] = Sealed(tx_nonce[e] + k - 1, frames[j])
    <3>a. /\ DOMAIN SealAll(e, frames) = 1 .. Len(SealAll(e, frames))
          /\ \A i \in 1 .. Len(SealAll(e, frames)) : \E f \in {frames[j] : j \in DOMAIN frames} :
                SealAll(e, frames)[i] = Sealed(tx_nonce[e] + i - 1, f)
      BY <1>5, <2>4, SealAllFacts, Zenon
    <3>1. PICK m : m = Len(sealed)
      OBVIOUS
    <3>2. /\ DOMAIN sealed = 1 .. m
          /\ \A i \in 1 .. m : \E f \in {frames[j] : j \in DOMAIN frames} : sealed[i] = Sealed(tx_nonce[e] + i - 1, f)
      BY <2>6, <3>a, <3>1, Zenon
    <3>3. \E f \in {frames[j] : j \in DOMAIN frames} : sealed[k] = Sealed(tx_nonce[e] + k - 1, f)
      BY <2>7, <3>2, Zenon
    <3> QED
      BY <3>3
  <2>9. Fits(sealed[k].frame)
    BY <2>5, <2>8 DEF Sealed
  <2> QED
    BY <1>2, <2>7, <2>9
<1>10. ~ FlushNewFails(e) /\ ~ FlushRetxFails(e)
  <2>1. NewSends(tx[e]) \subseteq DOMAIN tx[e].unacked /\ Retransmits(tx[e]) \subseteq DOMAIN tx[e].unacked
    BY DEF NewSends, Unsent, Retransmits, Due, Sent
  <2> QED
    BY <1>9, <2>1 DEF FlushNewFails, FlushRetxFails
<1> QED
  BY <1>2, <1>3, <1>4, <1>6, <1>8, <1>10

\* Both halves of flush queue what they send.
LEMMA FlushedFrames ==
    ASSUME NoWrap, Mending, NEW e \in Endpoints, NEW S, S \subseteq DOMAIN tx[e].unacked,
           NEW extra \in {<< >>, <<Cover>>}, SendAll(e, InOrder(tx[e], S), extra)
    PROVE  \E D : \E k \in Nat : Queues(D, k, e, S)
<1>1. Shape /\ Peer(e) \in Endpoints /\ Peer(Peer(e)) = e /\ Good(Peer(e))
  BY BothEnds
<1>2. PICK V : inbox[Peer(e)] \in Seq(V)
  BY <1>1, InTransit
<1>3. rx_nonce[Peer(e)] <= tx_nonce[e]
  BY <1>1, InTransit
<1>4. Clean(inbox[Peer(e)]) /\ InSequence(inbox[Peer(e)], rx_nonce[Peer(e)], tx_nonce[e])
  BY <1>1 DEF Good, Arriving
<1>5. /\ S \in SUBSET Seqs
      /\ \A s \in S : tx[e].unacked[s].plaintext.kind = "data" /\ tx[e].unacked[s].plaintext.seq = s
  BY Sending
<1>6. PICK t : t = tx[e]
  OBVIOUS
<1>7. SendAll(e, InOrder(t, S), extra) /\ \A s \in S : t.unacked[s].plaintext.kind = "data" /\ t.unacked[s].plaintext.seq = s
  BY <1>5, <1>6
<1> QED
  BY <1>1, <1>2, <1>3, <1>4, <1>5, <1>6, <1>7, FlushQueues

\* What a flush leaves alone, and what it uses up.
LEMMA FlushedRest ==
    ASSUME NoWrap, Mending, NEW e \in Endpoints, NEW S, NEW D, NEW k \in Nat, Queues(D, k, e, S),
           conf' = conf, rx_nonce' = rx_nonce, tx'[Peer(e)] = tx[Peer(e)],
           left'[Peer(e)] = left[Peer(e)], call'[Peer(e)] = call[Peer(e)],
           pc'[Peer(e)] = pc[Peer(e)], result'[Peer(e)] = result[Peer(e)]
    PROVE  /\ Good(Peer(e))' /\ Arriving(e)'
           /\ Used(e)' = Used(e) + k /\ drop_data'[e] <= Allowance(e)'
<1>1. /\ Shape /\ Peer(e) \in Endpoints /\ Peer(Peer(e)) = e
      /\ Good(Peer(e)) /\ Arriving(e) /\ Within(e)
  BY BothEnds
<1>2. /\ AcksIn(inbox'[Peer(e)]) = AcksIn(inbox[Peer(e)])
      /\ Clean(inbox'[Peer(e)]) /\ InSequence(inbox'[Peer(e)], rx_nonce[Peer(e)], tx_nonce'[e])
      /\ inbox'[e] = inbox[e] /\ tx_nonce'[Peer(e)] = tx_nonce[Peer(e)]
      /\ drop_data'[e] = drop_data[e] - k /\ drop_data'[Peer(e)] = drop_data[Peer(e)]
  BY DEF Queues
<1>3. Progress(Peer(e))'
  BY <1>1, <1>2, KeptProgress DEF Good
<1>4. Arriving(Peer(e))'
  BY <1>1, <1>2 DEF Arriving
<1>5. Within(Peer(e))'
  BY <1>1, <1>2, KeptWithin DEF Good
<1>6. Arriving(e)'
  BY <1>1, <1>2, KeptArriving
<1>7. Used(e)' = Used(e) + k /\ drop_data'[e] <= Allowance(e)'
  <2>1. drop_data[e] \in Nat /\ conf.drops \in Nat /\ drop_data[e] <= Allowance(e)
    BY <1>1 DEF Shape, Scenario, Within
  <2>2. Allowance(e)' = Allowance(e) /\ Allowance(e) \in Nat
    BY <2>1 DEF Allowance
  <2> QED
    BY <1>2, <2>1, <2>2 DEF Used
<1> QED
  BY <1>3, <1>4, <1>5, <1>6, <1>7 DEF Good

\* A flush with nothing outstanding.
LEMMA NothingFlushed ==
    ASSUME NoWrap, Mending, NEW e \in Endpoints, DOMAIN tx[e].unacked = {},
           NEW S, S \subseteq DOMAIN tx[e].unacked, NEW D, NEW k \in Nat, Queues(D, k, e, S),
           DOMAIN tx'[e].unacked = {}
    PROVE  Progress(e)'
<1>1. D = {}
  BY DEF Queues, Burst
<1>2. DataIn(inbox'[Peer(e)]) = DataIn(inbox[Peer(e)])
  BY <1>1 DEF Queues
<1>3. Ordered(DataIn(inbox[Peer(e)]))
  BY InTransit
<1> QED
  BY <1>2, <1>3, EmptyProgress

\* The first half of flush.
LEMMA FlushNewGood ==
    ASSUME NoWrap, Mending, NEW e \in Endpoints, FlushNew(e)
    PROVE  Good(e)' /\ Good(Peer(e))'
<1>1. /\ Peer(e) \in Endpoints /\ Peer(e) # e /\ Shape /\ LoopInv /\ Progress(e) /\ Within(e)
  BY BothEnds
<1>2. PICK t : t = tx[e]
  OBVIOUS
<1>3. PICK z : z = take_new_sends(t)
  OBVIOUS
<1>4. /\ pc[e] = "new" /\ SendAll(e, InOrder(t, NewSends(t)), << >>) /\ Goto(e, "retx")
      /\ conf' = conf /\ rx_nonce' = rx_nonce /\ tx'[e] = z /\ tx'[Peer(e)] = tx[Peer(e)]
  BY <1>1, <1>2, <1>3 DEF FlushNew, Shape
<1>5. /\ call' = call /\ left' = left /\ result' = result
      /\ pc'[e] = "retx" /\ pc'[Peer(e)] = pc[Peer(e)]
  BY <1>1, <1>4, WentTo
<1>6. NewSends(t) \subseteq DOMAIN t.unacked
  BY DEF NewSends, Unsent
<1>7. PICK D : \E k \in Nat : Queues(D, k, e, NewSends(t))
  BY <1>2, <1>4, <1>6, FlushedFrames
<1>8. PICK k \in Nat : Queues(D, k, e, NewSends(t))
  BY <1>7
<1>9. /\ Good(Peer(e))' /\ Arriving(e)'
      /\ Used(e)' = Used(e) + k /\ drop_data'[e] <= Allowance(e)'
  BY <1>4, <1>5, <1>8, FlushedRest
<1>10. Within(e)'
  BY <1>1, <1>4, <1>5, <1>9 DEF Within
<1>11. SendHalf(t) /\ Used(e) \in Nat /\ (DOMAIN t.unacked # {} => Elapsed(e) \in Nat)
  BY <1>2, Sending
<1>12. DOMAIN z.unacked = DOMAIN t.unacked
  BY <1>3, <1>11, TakesNew
<1>13. CASE DOMAIN t.unacked = {}
  <2>1. Progress(e)'
    BY <1>2, <1>4, <1>6, <1>8, <1>12, <1>13, NothingFlushed
  <2> QED
    BY <1>9, <1>10, <2>1 DEF Good
<1>14. CASE DOMAIN t.unacked # {}
  <2>1. PICK B, A : B = DataIn(inbox[Peer(e)]) /\ A = AcksIn(inbox[e])
    OBVIOUS
  <2>2. PICK u \in Nat, el \in Nat : u = Used(e) /\ el = Elapsed(e)
    BY <1>11, <1>14
  <2>3. InProgress(t, B, A, u, el, call[e], "new")
    BY <1>1, <1>2, <1>4, <2>1, <2>2 DEF Progress
  <2>4. PICK lo \in Nat : lo = tx_nonce[e]
    BY <1>1 DEF Shape
  <2>5. Numbered(B) /\ \A d \in B : d.nonce < lo
    BY <2>1, <2>4, InTransit
  <2>6. /\ DataIn(inbox'[Peer(e)]) = B \cup D /\ AcksIn(inbox'[e]) = A
        /\ Burst(D, NewSends(t), lo) /\ (k = 0 => \A s \in NewSends(t) : Flying(D, s))
    BY <1>8, <2>1, <2>4 DEF Queues, Flying
  <2>7. InProgress(z, B \cup D, A, u + k, el, call[e], "retx")
    BY <1>3, <1>11, <2>3, <2>5, <2>6, NewSent
  <2>8. Used(e)' = u + k /\ Elapsed(e)' = el
    BY <1>4, <1>5, <1>9, <2>2 DEF Elapsed
  <2>9. Progress(e)'
    BY <1>4, <1>5, <2>6, <2>7, <2>8 DEF Progress
  <2> QED
    BY <1>9, <1>10, <2>9 DEF Good
<1> QED
  BY <1>13, <1>14

\* The second half of flush and the exits of the loop.
LEMMA FlushRetxGood ==
    ASSUME NoWrap, Mending, NEW e \in Endpoints, FlushRetx(e)
    PROVE  Good(e)' /\ Good(Peer(e))'
<1>1. /\ Peer(e) \in Endpoints /\ Peer(e) # e /\ Shape /\ LoopInv /\ Progress(e) /\ Within(e)
  BY BothEnds
<1>2. PICK t : t = tx[e]
  OBVIOUS
<1>3. PICK z : z = take_retransmits(t)
  OBVIOUS
<1>4. PICK extra \in {<< >>, <<Cover>>} : SendAll(e, InOrder(t, Retransmits(t)), extra)
  BY <1>2 DEF FlushRetx
<1>5. /\ pc[e] = "retx" /\ Exhausted(t) = {}
      /\ conf' = conf /\ rx_nonce' = rx_nonce /\ tx'[e] = z /\ tx'[Peer(e)] = tx[Peer(e)]
  BY <1>1, <1>2, <1>3 DEF FlushRetx, Shape
<1>6. IF SendDone(e) THEN Return(e, "send ok")
      ELSE IF Expired(e) THEN Return(e, IF call[e] = "send" THEN "send timeout" ELSE "recv timeout")
      ELSE Goto(e, "block")
  BY DEF FlushRetx
<1>7. /\ call'[Peer(e)] = call[Peer(e)] /\ pc'[Peer(e)] = pc[Peer(e)]
      /\ left'[Peer(e)] = left[Peer(e)] /\ result'[Peer(e)] = result[Peer(e)]
  <2>1. \A how : Return(e, how) =>
            /\ call'[Peer(e)] = call[Peer(e)] /\ pc'[Peer(e)] = pc[Peer(e)]
            /\ left'[Peer(e)] = left[Peer(e)] /\ result'[Peer(e)] = result[Peer(e)]
    BY <1>1, Returned
  <2>2. Goto(e, "block") =>
            /\ call'[Peer(e)] = call[Peer(e)] /\ pc'[Peer(e)] = pc[Peer(e)]
            /\ left'[Peer(e)] = left[Peer(e)] /\ result'[Peer(e)] = result[Peer(e)]
    BY <1>1, WentTo
  <2> QED
    BY <1>6, <2>1, <2>2
<1>8. Retransmits(t) \subseteq DOMAIN t.unacked
  BY DEF Retransmits, Due, Sent
<1>9. PICK D : \E k \in Nat : Queues(D, k, e, Retransmits(t))
  BY <1>2, <1>4, <1>8, FlushedFrames
<1>10. PICK k \in Nat : Queues(D, k, e, Retransmits(t))
  BY <1>9
<1>11. /\ Good(Peer(e))' /\ Arriving(e)'
       /\ Used(e)' = Used(e) + k /\ drop_data'[e] <= Allowance(e)'
  BY <1>5, <1>7, <1>10, FlushedRest
<1>12. /\ SendHalf(t) /\ t.retx > 0 /\ Used(e) \in Nat /\ Used(e) <= conf.drops
       /\ conf.drops \in Nat /\ conf.send_timeout \in Nat /\ Span(t.retx, conf.drops) < conf.send_timeout
       /\ (DOMAIN t.unacked # {} => call[e] = "send" /\ Elapsed(e) \in Nat)
  BY <1>2, Sending
<1>13. DOMAIN z.unacked = DOMAIN t.unacked
  BY <1>3, <1>5, <1>12, TakesDue
<1>14. CASE DOMAIN t.unacked = {}
  <2>1. Progress(e)'
    BY <1>2, <1>5, <1>8, <1>10, <1>13, <1>14, NothingFlushed
  <2>2. \/ Return(e, "send ok")
        \/ Return(e, "recv timeout")
        \/ Goto(e, "block")
    BY <1>2, <1>6, <1>14 DEF SendDone
  <2>3. CASE Goto(e, "block")
    <3>1. call' = call /\ left' = left /\ result' = result /\ pc'[e] = "block"
      BY <1>1, <2>3, WentTo
    <3>2. Within(e)'
      BY <1>1, <1>5, <1>11, <3>1 DEF Within
    <3> QED
      BY <1>11, <2>1, <3>2 DEF Good
  <2>4. ASSUME NEW how \in {"send ok", "recv timeout"}, Return(e, how) PROVE Within(e)'
    <3>1. call'[e] = "idle" /\ pc'[e] = "out" /\ result'[e] = how
      BY <1>1, <2>4, Returned
    <3> QED
      BY <1>11, <3>1 DEF Within
  <2> QED
    BY <1>11, <2>1, <2>2, <2>3, <2>4 DEF Good
<1>15. CASE DOMAIN t.unacked # {}
  <2>1. PICK B, A : B = DataIn(inbox[Peer(e)]) /\ A = AcksIn(inbox[e])
    OBVIOUS
  <2>2. PICK u \in Nat, el \in Nat : u = Used(e) /\ el = Elapsed(e)
    BY <1>12, <1>15
  <2>3. InProgress(t, B, A, u, el, call[e], "retx")
    BY <1>1, <1>2, <1>5, <2>1, <2>2 DEF Progress
  <2>4. Spent(t, B, A, u, el)
    BY <2>3 DEF InProgress
  <2>5. el < conf.send_timeout
    BY <1>12, <1>15, <2>2, <2>4, NeverLate
  <2>6. ~ Expired(e) /\ ~ SendDone(e)
    BY <1>2, <1>12, <1>15, <2>2, <2>5 DEF Expired, SendDone, Elapsed
  <2>7. call' = call /\ left' = left /\ result' = result /\ pc'[e] = "block"
    BY <1>1, <1>6, <2>6, WentTo
  <2>8. PICK lo : lo = tx_nonce[e]
    OBVIOUS
  <2>9. /\ DataIn(inbox'[Peer(e)]) = B \cup D /\ AcksIn(inbox'[e]) = A
        /\ Burst(D, Retransmits(t), lo) /\ (k = 0 => \A s \in Retransmits(t) : Flying(D, s))
    BY <1>10, <2>1, <2>8 DEF Queues, Flying
  <2>10. InProgress(z, B \cup D, A, u + k, el, call[e], "block")
    BY <1>3, <1>5, <1>12, <2>3, <2>9, Resent
  <2>11. Used(e)' = u + k /\ Elapsed(e)' = el
    BY <1>5, <1>11, <2>2, <2>7 DEF Elapsed
  <2>12. Progress(e)'
    BY <1>5, <2>7, <2>9, <2>10, <2>11 DEF Progress
  <2>13. Within(e)'
    BY <1>1, <1>5, <1>11, <2>7 DEF Within
  <2> QED
    BY <1>11, <2>12, <2>13 DEF Good
<1> QED
  BY <1>14, <1>15

\* Time passes when nothing is on its way.
LEMMA TickGood ==
    ASSUME NoWrap, Mending, Tick, NEW e \in Endpoints
    PROVE  Good(e)'
<1>1. /\ Peer(e) \in Endpoints /\ Peer(e) # e /\ Shape /\ LoopInv /\ Progress(e) /\ Arriving(e) /\ Within(e)
  BY BothEnds
<1>2. conf.prompt
  BY DEF Mending
<1>3. /\ UNCHANGED <<conf, tx_nonce, rx_nonce, drop_data, call, result, inbox>>
      /\ left'[e] = (IF left[e] > 0 THEN left[e] - 1 ELSE 0)
      /\ pc'[e] = (IF Wakes(e) THEN "new" ELSE pc[e]) /\ tx'[e] = Elapse(tx[e])
  BY DEF Tick, noiseVars
<1>4. inbox[e] = << >> /\ inbox[Peer(e)] = << >> /\ (pc[e] = "block" \/ call[e] = "idle")
  BY <1>1, <1>2 DEF Tick, Waiting
<1>5. DataIn(inbox[Peer(e)]) = {} /\ AcksIn(inbox[e]) = {}
  BY <1>4 DEF DataIn, AcksIn, Contents
<1>6. Arriving(e)'
  BY <1>1, <1>3, KeptArriving
<1>7. left[e] \in Nat /\ conf.send_timeout \in Nat
  <2>1. left[e] \in 0 .. (conf.send_timeout + conf.recv_timeout)
    BY <1>1 DEF LoopInv
  <2>2. conf.recv_timeout \in Nat /\ conf.send_timeout \in Nat
    BY <1>1 DEF Shape, Scenario
  <2> QED
    BY <2>1, <2>2
<1>8. Within(e)'
  <2>1. /\ pc[e] = "pop" => call[e] = "recv"
        /\ call[e] = "send" => left[e] <= conf.send_timeout
        /\ drop_data[e] <= Allowance(e) /\ result[e] \notin {"send timeout", "give up"}
    BY <1>1 DEF Within
  <2>2. left'[e] <= left[e] /\ left'[e] \in Nat
    BY <1>3, <1>7
  <2>3. call'[e] = "send" => left'[e] <= conf'.send_timeout
    <3>1. conf'.send_timeout = conf.send_timeout /\ call'[e] = call[e]
      BY <1>3
    <3>2. ASSUME call[e] = "send" PROVE left'[e] <= conf.send_timeout
      <4>1. left[e] <= conf.send_timeout
        BY <2>1, <3>2
      <4> QED
        BY <1>7, <2>2, <4>1
    <3> QED
      BY <3>1, <3>2
  <2>4. drop_data'[e] <= Allowance(e)'
    BY <1>3, <2>1 DEF Allowance
  <2> QED
    BY <1>3, <2>1, <2>3, <2>4 DEF Within
<1>9. PICK t : t = tx[e]
  OBVIOUS
<1>10. PICK z : z = Elapse(t)
  OBVIOUS
<1>11. /\ SendHalf(t) /\ Used(e) \in Nat /\ Used(e) <= conf.drops
       /\ conf.drops \in Nat /\ Span(t.retx, conf.drops) < conf.send_timeout
       /\ (DOMAIN t.unacked # {} => call[e] = "send" /\ Elapsed(e) \in Nat)
  BY <1>9, Sending
<1>12. CASE DOMAIN t.unacked = {}
  <2>1. DOMAIN z.unacked = {}
    BY <1>10, <1>12 DEF Elapse
  <2>2. Ordered(DataIn(inbox'[Peer(e)]))
    BY <1>3, <1>5 DEF Ordered
  <2>3. Progress(e)'
    BY <1>3, <1>9, <1>10, <2>1, <2>2, EmptyProgress
  <2> QED
    BY <1>6, <1>8, <2>3 DEF Good
<1>13. CASE DOMAIN t.unacked # {}
  <2>1. PICK u \in Nat, el \in Nat : u = Used(e) /\ el = Elapsed(e)
    BY <1>11, <1>13
  <2>2. call[e] = "send" /\ pc[e] = "block"
    BY <1>4, <1>11, <1>13
  <2>3. InProgress(t, {}, {}, u, el, "send", "block")
    BY <1>1, <1>5, <1>9, <2>1, <2>2 DEF Progress
  <2>4. Spent(t, {}, {}, u, el)
    BY <2>3 DEF InProgress
  <2>5. el < conf.send_timeout
    BY <1>7, <1>11, <1>13, <2>1, <2>4, NeverLate
  <2>6. Elapsed(e)' = el + 1 /\ pc'[e] = "new"
    BY <1>3, <1>7, <2>1, <2>2, <2>5 DEF Elapsed, Wakes
  <2>7. InProgress(z, {}, {}, u, el + 1, "send", "new")
    BY <1>10, <1>11, <1>13, <2>3, Older
  <2>8. Used(e)' = u
    BY <1>3, <2>1 DEF Used, Allowance
  <2>9. Progress(e)'
    BY <1>3, <1>5, <1>9, <1>10, <2>2, <2>6, <2>7, <2>8 DEF Progress
  <2> QED
    BY <1>6, <1>8, <2>9 DEF Good
<1> QED
  BY <1>12, <1>13

\* The next datagram: a sealed one always opens.
LEMMA NextDatagram ==
    ASSUME NoWrap, Mending, NEW e \in Endpoints, Reading(e), NEW h, h = Head(inbox[e]), NEW r, r = Tail(inbox[e])
    PROVE  /\ Contents(inbox[e]) = {h} \cup Contents(r) /\ Clean(r)
           /\ h.kind # "data" => InSequence(r, rx_nonce[e], tx_nonce[Peer(e)])
           /\ h.kind = "data" => /\ Opens(e, h) /\ InSequence(r, rx_nonce[e] + 1, tx_nonce[Peer(e)])
                                 /\ \A d \in Contents(r) : d.kind = "data" => h.nonce < d.nonce
<1>1. Peer(e) \in Endpoints /\ Arriving(e) /\ inbox[e] # << >>
  BY BothEnds DEF Reading
<1>2. PICK V : inbox[e] \in Seq(V)
  BY InTransit
<1>3. PICK q : q = inbox[e] /\ q \in Seq(V) /\ q # << >> /\ h = Head(q) /\ r = Tail(q)
  BY <1>1, <1>2
<1>4. PICK lo \in Nat, hi \in Nat : lo = rx_nonce[e] /\ hi = tx_nonce[Peer(e)]
  BY <1>1, InTransit
<1>5. InSequence(q, lo, hi) /\ Clean(q)
  BY <1>1, <1>3, <1>4 DEF Arriving
<1>6. Contents(q) = {h} \cup Contents(r)
  BY <1>3, ReadContents
<1>7. /\ h.kind # "data" => InSequence(r, lo, hi)
      /\ h.kind = "data" => /\ h.nonce = lo /\ InSequence(r, lo + 1, hi)
                            /\ \A d \in Contents(r) : d.kind = "data" => d.nonce \in Int /\ d.nonce > lo
  BY <1>3, <1>5, ReadInSequence
<1>8. h.kind = "data" => Opens(e, h) /\ \A d \in Contents(r) : d.kind = "data" => h.nonce < d.nonce
  BY <1>4, <1>7 DEF Opens
<1> QED
  BY <1>3, <1>4, <1>5, <1>6, <1>7, <1>8 DEF Clean

LEMMA LoopHeads ==
    \A e, r : LoopHead(e, r) \notin {"retx", "block"} /\ (LoopHead(e, r) = "pop" => call[e] = "recv")
  BY DEF LoopHead

\* An ACK is read.
LEMMA ReadAckGood ==
    ASSUME NoWrap, Mending, NEW e \in Endpoints, ReadAck(e)
    PROVE  Good(e)' /\ Good(Peer(e))'
<1>1. /\ Peer(e) \in Endpoints /\ Peer(e) # e /\ Peer(Peer(e)) = e /\ Shape /\ LoopInv
      /\ Progress(e) /\ Arriving(e) /\ Within(e) /\ Good(Peer(e))
  BY BothEnds
<1>2. PICK h, r : h = Head(inbox[e]) /\ r = Tail(inbox[e])
  OBVIOUS
<1>3. PICK w : w = LoopHead(e, rx[e])
  OBVIOUS
<1>4. w \notin {"retx", "block"} /\ (w = "pop" => call[e] = "recv")
  BY <1>3, LoopHeads
<1>5. /\ Reading(e) /\ h.kind = "data" /\ h.frame.kind = "ack" /\ h.nonce = rx_nonce[e]
      /\ conf' = conf /\ tx_nonce' = tx_nonce /\ drop_data' = drop_data /\ Goto(e, w)
      /\ rx_nonce' = [rx_nonce EXCEPT ![e] = h.nonce + 1]
      /\ inbox' = [inbox EXCEPT ![e] = r]
      /\ tx' = [tx EXCEPT ![e] = on_ack(@, h.frame.base, h.frame.bitmap)]
  BY <1>2, <1>3 DEF ReadAck, Opens
<1>6. /\ call' = call /\ left' = left /\ result' = result /\ pc'[e] = w /\ pc'[Peer(e)] = pc[Peer(e)]
  BY <1>1, <1>5, WentTo
<1>7. /\ inbox'[e] = r /\ inbox'[Peer(e)] = inbox[Peer(e)]
      /\ rx_nonce'[e] = rx_nonce[e] + 1 /\ rx_nonce'[Peer(e)] = rx_nonce[Peer(e)]
      /\ tx'[e] = on_ack(tx[e], h.frame.base, h.frame.bitmap) /\ tx'[Peer(e)] = tx[Peer(e)]
  BY <1>1, <1>5 DEF Shape
<1>8. /\ Contents(inbox[e]) = {h} \cup Contents(r) /\ Clean(r)
      /\ InSequence(r, rx_nonce[e] + 1, tx_nonce[Peer(e)])
  BY <1>2, <1>5, NextDatagram
<1>9. AcksIn(inbox[e]) = {h} \cup AcksIn(r) /\ DataIn(inbox[e]) = DataIn(r)
  BY <1>5, <1>8 DEF AcksIn, DataIn, IsAck, IsData
<1>10. Good(Peer(e))'
  <2>1. Progress(Peer(e))'
    BY <1>1, <1>5, <1>6, <1>7, <1>9, KeptProgress DEF Good
  <2>2. Arriving(Peer(e))'
    BY <1>1, <1>5, <1>7, KeptArriving DEF Good
  <2>3. Within(Peer(e))'
    BY <1>1, <1>5, <1>6, KeptWithin DEF Good
  <2> QED
    BY <2>1, <2>2, <2>3 DEF Good
<1>11. Arriving(e)'
  BY <1>5, <1>7, <1>8 DEF Arriving
<1>12. Within(e)'
  BY <1>1, <1>4, <1>5, <1>6 DEF Within, Allowance
<1>13. Progress(e)'
  <2>1. PICK t, z, B, A, R : /\ t = tx[e] /\ z = on_ack(t, h.frame.base, h.frame.bitmap)
                             /\ B = DataIn(inbox[Peer(e)]) /\ A = AcksIn(inbox[e]) /\ R = AcksIn(r)
    OBVIOUS
  <2>2. SendHalf(t)
    BY <2>1, Sending
  <2>3. InProgress(t, B, A, Used(e), Elapsed(e), call[e], pc[e])
    BY <1>1, <2>1 DEF Progress
  <2>4. A = {h} \cup R
    BY <1>9, <2>1
  <2>5. InProgress(z, B, R, Used(e), Elapsed(e), call[e], w)
    BY <1>4, <2>1, <2>2, <2>3, <2>4, AckRead
  <2>6. Used(e)' = Used(e) /\ Elapsed(e)' = Elapsed(e)
    BY <1>5, <1>6 DEF Used, Allowance, Elapsed
  <2> QED
    BY <1>6, <1>7, <2>1, <2>5, <2>6 DEF Progress
<1> QED
  BY <1>10, <1>11, <1>12, <1>13 DEF Good

\* Cover is skipped; everything else opens.
LEMMA ReadIgnoredGood ==
    ASSUME NoWrap, Mending, NEW e \in Endpoints, ReadIgnored(e)
    PROVE  Good(e)' /\ Good(Peer(e))'
<1>1. /\ Peer(e) \in Endpoints /\ Peer(e) # e /\ Peer(Peer(e)) = e /\ Shape /\ LoopInv
      /\ Progress(e) /\ Arriving(e) /\ Within(e) /\ Good(Peer(e))
  BY BothEnds
<1>2. PICK h, r : h = Head(inbox[e]) /\ r = Tail(inbox[e])
  OBVIOUS
<1>3. PICK w : w = LoopHead(e, rx[e])
  OBVIOUS
<1>4. w \notin {"retx", "block"} /\ (w = "pop" => call[e] = "recv")
  BY <1>3, LoopHeads
<1>5. /\ Reading(e) /\ ~ Opens(e, h) /\ Goto(e, w)
      /\ UNCHANGED <<conf, tx, tx_nonce, rx_nonce, drop_data>>
      /\ inbox' = [inbox EXCEPT ![e] = r]
  BY <1>2, <1>3 DEF ReadIgnored, arqVars, noiseVars
<1>6. /\ call' = call /\ left' = left /\ result' = result /\ pc'[e] = w /\ pc'[Peer(e)] = pc[Peer(e)]
  BY <1>1, <1>5, WentTo
<1>7. inbox'[e] = r /\ inbox'[Peer(e)] = inbox[Peer(e)]
  BY <1>1, <1>5 DEF Shape
<1>8. /\ Contents(inbox[e]) = {h} \cup Contents(r) /\ Clean(r) /\ h.kind # "data"
      /\ InSequence(r, rx_nonce[e], tx_nonce[Peer(e)])
  BY <1>2, <1>5, NextDatagram
<1>9. AcksIn(inbox[e]) = AcksIn(r) /\ DataIn(inbox[e]) = DataIn(r)
  BY <1>8 DEF AcksIn, DataIn, IsAck, IsData
<1>10. Good(Peer(e))'
  <2>1. Progress(Peer(e))'
    BY <1>1, <1>5, <1>6, <1>7, <1>9, KeptProgress DEF Good
  <2>2. Arriving(Peer(e))'
    BY <1>1, <1>5, <1>7, KeptArriving DEF Good
  <2>3. Within(Peer(e))'
    BY <1>1, <1>5, <1>6, KeptWithin DEF Good
  <2> QED
    BY <2>1, <2>2, <2>3 DEF Good
<1>11. Arriving(e)'
  BY <1>5, <1>7, <1>8 DEF Arriving
<1>12. Within(e)'
  BY <1>1, <1>4, <1>5, <1>6 DEF Within, Allowance
<1>13. Progress(e)'
  BY <1>1, <1>4, <1>5, <1>6, <1>7, <1>9, MovedProgress
<1> QED
  BY <1>10, <1>11, <1>12, <1>13 DEF Good

\* One datagram more on its way.
LEMMA OneMore ==
    ASSUME NoWrap, Mending, NEW e \in Endpoints, NEW f, f.kind = "ack",
           NEW a, a = Sealed(tx_nonce[e], f), NEW q, q = inbox[Peer(e)] \o <<a>>
    PROVE  /\ DataIn(q) = DataIn(inbox[Peer(e)]) /\ AcksIn(q) = AcksIn(inbox[Peer(e)]) \cup {a}
           /\ Clean(q) /\ InSequence(q, rx_nonce[Peer(e)], tx_nonce[e] + 1)
<1>1. Peer(e) \in Endpoints /\ Peer(Peer(e)) = e /\ Arriving(Peer(e))
  BY BothEnds DEF Good
<1>2. PICK V : inbox[Peer(e)] \in Seq(V)
  BY <1>1, InTransit
<1>3. PICK p \in Seq(V) : p = inbox[Peer(e)]
  BY <1>2
<1>4. PICK lo \in Nat, mid \in Nat, hi \in Nat :
        lo = rx_nonce[Peer(e)] /\ mid = tx_nonce[e] /\ hi = mid + 1 /\ lo <= mid
  BY <1>1, InTransit
<1>5. PICK W : W = {a}
  OBVIOUS
<1>6. PICK r : r = <<a>>
  OBVIOUS
<1>7. r \in Seq(W) /\ DOMAIN r = {1} /\ r[1] = a
  BY <1>5, <1>6
<1>8. a.kind = "data" /\ a.frame = f /\ a.nonce = mid
  BY <1>4 DEF Sealed
<1>9. Contents(r) = {a}
  BY <1>7 DEF Contents
<1>a. q = p \o r
  BY <1>3, <1>6
<1>b. Contents(p \o r) = Contents(p) \cup Contents(r)
  BY <1>7, JoinContents
<1>10. Contents(q) = Contents(p) \cup {a}
  BY <1>9, <1>a, <1>b, Zenon
<1>11. InSequence(r, mid, hi)
  BY <1>4, <1>7, <1>8 DEF InSequence
<1>12. InSequence(p, lo, mid) /\ Clean(p)
  BY <1>1, <1>3, <1>4 DEF Arriving
<1>c. InSequence(p \o r, lo, hi)
  BY <1>4, <1>7, <1>11, <1>12, JoinInSequence
<1>13. InSequence(q, lo, hi)
  BY <1>a, <1>c, Zenon
<1>14. DataIn(q) = DataIn(p) /\ AcksIn(q) = AcksIn(p) \cup {a} /\ Clean(q)
  BY <1>8, <1>10, <1>12 DEF DataIn, AcksIn, IsData, IsAck, Clean
<1> QED
  BY <1>3, <1>4, <1>13, <1>14

\* Data is read, and an ACK sent for it.
LEMMA ReadDataGood ==
    ASSUME BehindReaches, NoWrap, Mending, Windows', NEW e \in Endpoints, ReadData(e)
    PROVE  Good(e)' /\ Good(Peer(e))'
<1>1. /\ Peer(e) \in Endpoints /\ Peer(e) # e /\ Peer(Peer(e)) = e /\ Shape /\ LoopInv
      /\ Progress(e) /\ Arriving(e) /\ Within(e) /\ Good(Peer(e))
  BY BothEnds
<1>2. PICK h, r : h = Head(inbox[e]) /\ r = Tail(inbox[e])
  OBVIOUS
<1>3. PICK w : w = LoopHead(e, Ingested(e))
  OBVIOUS
<1>4. w \notin {"retx", "block"} /\ (w = "pop" => call[e] = "recv")
  BY <1>3, LoopHeads
<1>5. PICK f : f = CurrentAck(Ingested(e))
  OBVIOUS
<1>6. PICK a : a = Sealed(tx_nonce[e], f)
  OBVIOUS
<1>7. /\ Reading(e) /\ h.kind = "data" /\ h.frame.kind = "data" /\ h.nonce = rx_nonce[e] /\ Goto(e, w)
      /\ conf' = conf /\ tx' = tx /\ drop_data' = drop_data
      /\ rx_nonce' = [rx_nonce EXCEPT ![e] = h.nonce + 1]
      /\ tx_nonce' = [tx_nonce EXCEPT ![e] = @ + 1]
      /\ rx' = [rx EXCEPT ![e] = Ingested(e)]
      /\ inbox' = [inbox EXCEPT ![e] = r, ![Peer(e)] = @ \o <<a>>]
  BY <1>2, <1>3, <1>5, <1>6 DEF ReadData, Ingest, Opens
<1>8. /\ call' = call /\ left' = left /\ result' = result /\ pc'[e] = w /\ pc'[Peer(e)] = pc[Peer(e)]
  BY <1>1, <1>7, WentTo
<1>9. PICK q : q = inbox[Peer(e)] \o <<a>>
  OBVIOUS
<1>10. /\ inbox'[e] = r /\ inbox'[Peer(e)] = q
       /\ rx_nonce'[e] = rx_nonce[e] + 1 /\ rx_nonce'[Peer(e)] = rx_nonce[Peer(e)]
       /\ tx_nonce'[e] = tx_nonce[e] + 1 /\ tx_nonce'[Peer(e)] = tx_nonce[Peer(e)]
  BY <1>1, <1>7, <1>9 DEF Shape
<1>11. rx'[e] = Ingested(e) /\ rx'[e] = [on_data(rx[e], h.frame) EXCEPT !.pending_ack = TRUE]
  BY <1>1, <1>2, <1>7 DEF Shape, Ingested
<1>12. /\ Contents(inbox[e]) = {h} \cup Contents(r) /\ Clean(r)
       /\ InSequence(r, rx_nonce[e] + 1, tx_nonce[Peer(e)])
       /\ \A d \in Contents(r) : d.kind = "data" => h.nonce < d.nonce
  BY <1>2, <1>7, NextDatagram
<1>13. AcksIn(inbox[e]) = AcksIn(r) /\ DataIn(inbox[e]) = {h} \cup DataIn(r)
  BY <1>7, <1>12 DEF AcksIn, DataIn, IsAck, IsData
<1>14. f.kind = "ack" /\ f.base = rx'[e].recv_base /\ f.bitmap = rx'[e].recv_bits
  BY <1>5, <1>11 DEF CurrentAck, encode_ack
<1>15. /\ DataIn(q) = DataIn(inbox[Peer(e)]) /\ AcksIn(q) = AcksIn(inbox[Peer(e)]) \cup {a}
       /\ Clean(q) /\ InSequence(q, rx_nonce[Peer(e)], tx_nonce[e] + 1)
  BY <1>6, <1>9, <1>14, OneMore
<1>16. Good(e)'
  <2>1. Progress(e)'
    BY <1>1, <1>4, <1>7, <1>8, <1>10, <1>13, <1>15, MovedProgress
  <2>2. Arriving(e)'
    BY <1>10, <1>12 DEF Arriving
  <2>3. Within(e)'
    BY <1>1, <1>4, <1>7, <1>8 DEF Within, Allowance
  <2> QED
    BY <2>1, <2>2, <2>3 DEF Good
<1>17. Arriving(Peer(e))'
  BY <1>1, <1>10, <1>15 DEF Arriving
<1>18. Within(Peer(e))'
  BY <1>1, <1>7, <1>8, KeptWithin DEF Good
<1>19. Progress(Peer(e))'
  <2>1. PICK t, B, A, R : /\ t = tx[Peer(e)] /\ B = DataIn(inbox[e]) /\ A = AcksIn(inbox[Peer(e)])
                          /\ R = DataIn(r)
    OBVIOUS
  <2>2. SendHalf(t)
    BY <1>1, <2>1, Sending
  <2>3. InProgress(t, B, A, Used(Peer(e)), Elapsed(Peer(e)), call[Peer(e)], pc[Peer(e)])
    BY <1>1, <2>1 DEF Good, Progress
  <2>4. Numbered(B) /\ h \in B /\ h.frame \in out[Peer(e)]
    BY <1>1, <1>13, <2>1, InTransit
  <2>5. B = {h} \cup R /\ \A d \in R : h.nonce < d.nonce
    BY <1>12, <1>13, <2>1 DEF DataIn, IsData
  <2>6. a.frame = f
    BY <1>6 DEF Sealed
  <2>7. ASSUME h.frame.seq \in DOMAIN t.unacked
        PROVE  \/ acked(a.frame.base, a.frame.bitmap, h.frame.seq)
               \/ \E b \in DOMAIN t.unacked : b < h.frame.seq /\ ~ Answered(A, b)
    <3>1. Windows
      BY DEF Mending
    <3>2. PICK g \in out[Peer(e)] : g = h.frame
      BY <2>4
    <3>3. \/ acked(rx'[e].recv_base, rx'[e].recv_bits, g.seq)
          \/ \E b \in DOMAIN t.unacked :
               b < g.seq /\ \A v \in out[e] : v.kind = "ack" => ~ acked(v.base, v.bitmap, b)
      BY <1>7, <1>11, <2>1, <2>7, <3>1, <3>2, AnsweredTo
    <3>4. \A d \in A : d.frame \in out[e] /\ d.frame.kind = "ack"
      BY <2>1, InTransit DEF AcksIn, IsAck
    <3> QED
      BY <1>14, <2>6, <3>2, <3>3, <3>4 DEF Answered
  <2>8. InProgress(t, R, A \cup {a}, Used(Peer(e)), Elapsed(Peer(e)), call[Peer(e)], pc[Peer(e)])
    BY <2>2, <2>3, <2>4, <2>5, <2>7, DataRead
  <2>9. Used(Peer(e))' = Used(Peer(e)) /\ Elapsed(Peer(e))' = Elapsed(Peer(e))
    BY <1>7, <1>8 DEF Used, Allowance, Elapsed
  <2> QED
    BY <1>1, <1>7, <1>8, <1>10, <1>15, <2>1, <2>8, <2>9 DEF Progress
<1> QED
  BY <1>16, <1>17, <1>18, <1>19 DEF Good

\* Every step leaves both directions in good order.
LEMMA GoodStep ==
    ASSUME BehindReaches, NoWrap, Mending, SessionInv', Windows', [Next]_vars
    PROVE  \A x \in Endpoints : Good(x)'
<1>1. \A e \in Endpoints : \A x \in Endpoints : x = e \/ x = Peer(e)
  BY PeerFacts DEF Endpoints
<1>2. ASSUME NEW e \in Endpoints, NEW n \in Sizes, Send(e, n) PROVE Good(e)' /\ Good(Peer(e))'
  BY <1>2, SendGood
<1>3. ASSUME NEW e \in Endpoints, SendTooLarge(e) \/ Recv(e) \/ Configure(e) \/ Turn(e)
      PROVE  Good(e)' /\ Good(Peer(e))'
  <2>1. CASE SendTooLarge(e) \/ Recv(e) \/ PopMessage(e)
    BY <2>1, CallsGood
  <2>2. CASE FlushNew(e)
    BY <2>2, FlushNewGood
  <2>3. CASE FlushRetx(e)
    BY <2>3, FlushRetxGood
  <2>4. CASE ReadAck(e)
    BY <2>4, ReadAckGood
  <2>5. CASE ReadData(e)
    BY <2>5, ReadDataGood
  <2>6. CASE ReadIgnored(e)
    BY <2>6, ReadIgnoredGood
  <2>7. /\ ~ AckFails(e) /\ ~ CoverFails(e) /\ ~ ReadUnexpected(e) /\ ~ ReadFails(e)
        /\ ~ FlushNewFails(e) /\ ~ FlushRetxFails(e) /\ ~ FlushGiveUp(e)
    BY NothingFails
  <2>8. CASE Configure(e)
    BY <2>8, TuningGood
  <2> QED
    BY <1>3, <2>1, <2>2, <2>3, <2>4, <2>5, <2>6, <2>7, <2>8 DEF Turn
<1>4. \A e \in Endpoints : ~ Lose(e) /\ ~ Swap(e) /\ ~ Duplicate(e)
  BY NothingFails
<1>5. CASE Tick
  BY <1>5, TickGood
<1>6. CASE UNCHANGED vars
  <2>1. UNCHANGED <<conf, tx, tx_nonce, rx_nonce, drop_data, inbox, call, pc, left, result>>
    BY <1>6 DEF vars, arqVars, noiseVars, loopVars
  <2> SUFFICES ASSUME NEW x \in Endpoints PROVE Good(x)'
    OBVIOUS
  <2>2. Good(x)
    BY DEF Mending
  <2> QED
    BY <2>1, <2>2, BystanderGood
<1>7. CASE \E e \in Endpoints : Good(e)' /\ Good(Peer(e))'
  BY <1>1, <1>7
<1> QED
  BY <1>2, <1>3, <1>4, <1>5, <1>6, <1>7 DEF Next

\* An endpoint whose application sends nothing.
Quiet(e) ==
    /\ todo[e] = 0 /\ DOMAIN tx[e].unacked = {}
    /\ call[e] # "send" /\ result[e] \notin {"send timeout", "give up"}

LEMMA EmptyStaysEmpty ==
    ASSUME NEW t, SendHalf(t), DOMAIN t.unacked = {}, NEW u,
           \/ u \in {t, take_new_sends(t), take_retransmits(t), Elapse(t)}
           \/ \E base, bitmap : u = on_ack(t, base, bitmap)
           \/ \E d : u = set_retx(t, d)
    PROVE  DOMAIN u.unacked = {}
<1>1. Exhausted(t) = {} /\ Due(t) = {}
  BY DEF Exhausted, Due, Sent
<1>2. CASE u = take_new_sends(t)
  BY <1>2, TakesNew
<1>3. CASE u = take_retransmits(t)
  BY <1>1, <1>3, TakesDue
<1>4. CASE u = Elapse(t)
  BY <1>1, <1>4, GrowsOlder
<1>5. ASSUME NEW base, NEW bitmap, u = on_ack(t, base, bitmap) PROVE DOMAIN u.unacked = {}
  <2>1. \A s \in DOMAIN u.unacked : s \in DOMAIN t.unacked
    BY <1>5, Retires
  <2> QED
    BY <2>1
<1>6. ASSUME NEW d, u = set_retx(t, d) PROVE DOMAIN u.unacked = {}
  <2>1. t = [next_seq |-> t.next_seq, next_frag_id |-> t.next_frag_id, unacked |-> t.unacked, retx |-> t.retx]
    BY DEF SendHalf
  <2> QED
    BY <1>6, <2>1 DEF set_retx
<1> QED
  BY <1>2, <1>3, <1>4, <1>5, <1>6

\* What a step does to the slots of an endpoint that does not begin a send.
LEMMA SlotsMove ==
    ASSUME Shape, [Next]_vars, NEW e \in Endpoints, \A n \in Sizes : ~ Send(e, n)
    PROVE  \/ tx'[e] \in {tx[e], take_new_sends(tx[e]), take_retransmits(tx[e]), Elapse(tx[e])}
           \/ \E base, bitmap : tx'[e] = on_ack(tx[e], base, bitmap)
           \/ \E d : tx'[e] = set_retx(tx[e], d)
<1>1. ASSUME NEW x \in Endpoints, NEW n \in Sizes, Send(x, n) PROVE tx'[e] = tx[e]
  <2>1. x # e
    BY <1>1
  <2> QED
    BY <1>1, <2>1 DEF Send, Shape
<1>2. ASSUME NEW x \in Endpoints, x # e, Turn(x) PROVE tx'[e] = tx[e]
  BY <1>2 DEF Shape, Turn, PopMessage, FlushNew, FlushNewFails, FlushRetx, FlushRetxFails,
     CoverFails, FlushGiveUp, ReadAck, ReadIgnored, ReadUnexpected, ReadFails, ReadData, AckFails, Ingest, arqVars
<1>3. ASSUME ReadAck(e) PROVE \E base, bitmap : tx'[e] = on_ack(tx[e], base, bitmap)
  <2>1. PICK f : tx' = [tx EXCEPT ![e] = on_ack(@, f.base, f.bitmap)]
    BY <1>3 DEF ReadAck
  <2>2. tx'[e] = on_ack(tx[e], f.base, f.bitmap)
    BY <2>1 DEF Shape
  <2> QED
    BY <2>2
<1>4. ASSUME Turn(e), ~ ReadAck(e)
      PROVE  tx'[e] \in {tx[e], take_new_sends(tx[e]), take_retransmits(tx[e]), Elapse(tx[e])}
  BY <1>4 DEF Shape, Turn, PopMessage, FlushNew, FlushNewFails, FlushRetx, FlushRetxFails,
     CoverFails, FlushGiveUp, ReadIgnored, ReadUnexpected, ReadFails, ReadData, AckFails, Ingest, arqVars
<1>5. ASSUME Tick PROVE tx'[e] = Elapse(tx[e])
  BY <1>5 DEF Tick
<1>6. CASE (\E x \in Endpoints : SendTooLarge(x) \/ Recv(x) \/ Lose(x) \/ Swap(x) \/ Duplicate(x))
            \/ UNCHANGED vars
  <2>1. tx'[e] = tx[e]
    BY <1>6 DEF SendTooLarge, Recv, Lose, Swap, Duplicate, Misbehave, vars, arqVars
  <2> QED
    BY <2>1
<1>7. ASSUME NEW x \in Endpoints, Configure(x)
      PROVE  tx'[e] = tx[e] \/ \E d : tx'[e] = set_retx(tx[e], d)
  <2>1. ASSUME NEW d, tx' = [tx EXCEPT ![x] = set_retx(@, d)]
        PROVE  tx'[e] = tx[e] \/ tx'[e] = set_retx(tx[e], d)
    BY <2>1 DEF Shape
  <2> QED
    BY <1>7, <2>1, Tuning
<1> QED
  BY <1>1, <1>2, <1>3, <1>4, <1>5, <1>6, <1>7 DEF Next

\* It stays quiet.
LEMMA QuietStep ==
    ASSUME Shape, LoopInv, DOMAIN todo = Endpoints, [Next]_vars, NEW e \in Endpoints, SendHalf(tx[e]), Quiet(e)
    PROVE  Quiet(e)'
<1>0. todo[e] = 0 /\ DOMAIN tx[e].unacked = {} /\ call[e] # "send" /\ result[e] \notin {"send timeout", "give up"}
  BY DEF Quiet
<1>a. ~ (todo[e] > 0)
  <2>1. ~ (0 > 0)
    OBVIOUS
  <2>2. todo[e] = 0
    BY DEF Quiet
  <2> QED
    BY <2>1, <2>2, Zenon
<1>1. \A n \in Sizes : ~ Send(e, n)
  BY <1>a DEF Send
<1>2. DOMAIN tx'[e].unacked = {}
  BY <1>0, <1>1, SlotsMove, EmptyStaysEmpty
<1> DEFINE Ends == todo'[e] = 0 /\ call'[e] # "send" /\ result'[e] \notin {"send timeout", "give up"}
<1> SUFFICES Ends
  BY <1>2 DEF Quiet
<1>3. ASSUME NEW x \in Endpoints, NEW how, Return(x, how), todo' = todo,
             x = e => how \notin {"send timeout", "give up"}
      PROVE  Ends
  BY <1>0, <1>3 DEF Return, LoopInv
<1>4. ASSUME NEW x \in Endpoints, NEW where, Goto(x, where), todo' = todo PROVE Ends
  BY <1>0, <1>4 DEF Goto
<1>5. ASSUME NEW x \in Endpoints, FlushRetx(x) PROVE Ends
  <2>1. todo' = todo
    BY <1>5 DEF FlushRetx
  <2>2. CASE Goto(x, "block")
    BY <1>4, <2>1, <2>2
  <2>3. CASE ~ Goto(x, "block")
    <3>1. \/ Return(x, "send ok") \/ Return(x, "recv timeout")
          \/ call[x] = "send" /\ Return(x, "send timeout")
      BY <1>5, <2>3 DEF FlushRetx
    <3>2. ASSUME NEW how \in {"send ok", "recv timeout"}, Return(x, how) PROVE Ends
      <4>1. how \notin {"send timeout", "give up"}
        OBVIOUS
      <4> QED
        BY <1>3, <2>1, <3>2, <4>1
    <3>3. CASE call[x] = "send" /\ Return(x, "send timeout")
      BY <1>0, <1>3, <2>1, <3>3
    <3> QED
      BY <3>1, <3>2, <3>3
  <2> QED
    BY <2>2, <2>3
<1>6. ASSUME NEW x \in Endpoints, FlushGiveUp(x) PROVE Ends
  <2>1. todo' = todo /\ Return(x, "give up") /\ Exhausted(tx[x]) # {}
    BY <1>6 DEF FlushGiveUp
  <2>2. x # e
    BY <1>0, <2>1 DEF Exhausted, Due, Sent
  <2> QED
    BY <1>3, <2>1, <2>2
<1>7. ASSUME NEW x \in Endpoints, Turn(x), ~ FlushRetx(x), ~ FlushGiveUp(x) PROVE Ends
  <2>1. /\ todo' = todo
        /\ \/ Return(x, "recv ok") \/ Return(x, "not sent")
           \/ Return(x, "unexpected type") \/ Return(x, "not read") \/ Goto(x, "retx")
           \/ Goto(x, LoopHead(x, rx[x])) \/ Goto(x, LoopHead(x, Ingested(x)))
    BY <1>7 DEF Turn, PopMessage, FlushNew, FlushNewFails, FlushRetxFails, CoverFails,
                ReadAck, ReadIgnored, ReadUnexpected, ReadFails, ReadData, AckFails, Ingest
  <2> QED
    BY <1>3, <1>4, <2>1
<1>8. ASSUME NEW x \in Endpoints, NEW n \in Sizes, Send(x, n) PROVE Ends
  <2>1. x # e
    BY <1>1, <1>8
  <2> QED
    BY <1>0, <1>8, <2>1 DEF Send, LoopInv
<1>9. ASSUME NEW x \in Endpoints, SendTooLarge(x) PROVE Ends
  <2>1. x # e
    BY <1>a, <1>9 DEF SendTooLarge
  <2> QED
    BY <1>0, <1>9, <2>1 DEF SendTooLarge, LoopInv
<1>10. ASSUME NEW x \in Endpoints, Recv(x) PROVE Ends
  BY <1>0, <1>10 DEF Recv, LoopInv
<1>11. CASE Tick \/ (\E x \in Endpoints : Lose(x) \/ Swap(x) \/ Duplicate(x)) \/ UNCHANGED vars
  BY <1>0, <1>11 DEF Tick, Lose, Swap, Duplicate, Misbehave, vars, loopVars
<1>12. ASSUME NEW x \in Endpoints, Configure(x) PROVE Ends
  BY <1>0, <1>12, Tuning
<1> HIDE DEF Ends
<1> QED
  BY <1>5, <1>6, <1>7, <1>8, <1>9, <1>10, <1>11, <1>12 DEF Next

\* The path takes every DATA of the scenario.
AllFit(c) == \A n \in {MAX_PAYLOAD, c.last} : ~ TooLarge(DataLen(n) + c.hops * HopLen)

LEMMA AllFitting ==
    ASSUME SessionInv, AllFit(conf), NEW e \in Endpoints
    PROVE  ~ Unfit(e)
<1> SUFFICES ASSUME NEW s \in DOMAIN tx[e].unacked PROVE Fits(tx[e].unacked[s].plaintext)
  BY DEF Unfit
<1>1. PICK f : f = tx[e].unacked[s].plaintext
  OBVIOUS
<1>2. f.kind = "data"
  BY <1>1, FlowWaits DEF SessionInv, Waits
<1>3. PICK n \in {MAX_PAYLOAD, conf.last} : FrameLen(f) = DataLen(n)
  BY <1>2 DEF FrameLen
<1> QED
  BY <1>1, <1>3 DEF Fits, AllFit

\* Scenarios in which a send has no reason to fail but a frame that does not
\* fit: either nobody sends, or losses are forgiven and the frames of at least
\* one end fit, because all do or because it has none.
Recoverable(c) ==
    \/ \A e \in Endpoints : c.messages[e] = 0
    \/ Forgiving(c) /\ (AllFit(c) \/ \E e \in Endpoints : c.messages[e] = 0)

LossInv ==
    /\ UnfitInv /\ Windows
    /\ conf \in Scenarios /\ DOMAIN todo = Endpoints
    /\ faults = 0 \/ conf.faults # 0
    /\ \A e \in Endpoints : conf.messages[e] = 0 => Quiet(e)
    /\ conf.prompt /\ Forgiving(conf) /\ (\A e \in Endpoints : ~ Unfit(e)) => \A e \in Endpoints : Good(e)

LEMMA GoodAtFirst ==
    ASSUME Init, Forgiving(conf), NEW e \in Endpoints
    PROVE  Good(e)
<1>1. Peer(e) \in Endpoints
  BY PeerFacts
<1>2. DOMAIN tx[e].unacked = {}
  BY DEF Init, NewTx
<1>3. ~ conf.stray
  BY DEF Forgiving
<1>4. inbox[e] = << >> /\ inbox[Peer(e)] = << >>
  BY <1>1, <1>3 DEF Init
<1>5. DataIn(inbox[Peer(e)]) = {}
  BY <1>4 DEF DataIn, Contents
<1>6. Progress(e)
  BY <1>2, <1>5, NothingToDo DEF Progress, Ordered
<1>7. rx_nonce[e] = 0 /\ tx_nonce[Peer(e)] = 0
  BY <1>1 DEF Init
<1>8. Arriving(e)
  <2>1. DOMAIN inbox[e] = {}
    BY <1>4
  <2>2. 0 .. (0 - 1) = {}
    OBVIOUS
  <2> QED
    BY <1>7, <2>1, <2>2 DEF Arriving, InSequence, Clean, Contents
<1>9. Within(e)
  <2>1. conf.drops \in Nat
    BY SessionAssumption DEF Init, Scenario
  <2>2. drop_data[e] = 0 /\ Allowance(e) \in Nat
    BY <2>1 DEF Init, Allowance
  <2>3. pc[e] = "out" /\ call[e] = "idle" /\ result[e] = "none"
    BY DEF Init
  <2>4. drop_data[e] <= Allowance(e)
    BY <2>2
  <2> QED
    BY <2>3, <2>4 DEF Within
<1> QED
  BY <1>6, <1>8, <1>9 DEF Good

LEMMA LossInit == Init => LossInv
<1> SUFFICES ASSUME Init PROVE LossInv
  OBVIOUS
<1>1. UnfitInv /\ Windows
  BY UnfitInit, InitiatorWindowInit, ResponderWindowInit DEF Windows
<1>2. conf \in Scenarios /\ todo = conf.messages /\ faults = conf.faults
  BY DEF Init
<1>3. conf.messages \in [Endpoints -> Nat]
  BY <1>2, SessionAssumption DEF Scenario
<1>4. DOMAIN todo = Endpoints
  BY <1>2, <1>3
<1>5. ASSUME NEW e \in Endpoints, conf.messages[e] = 0 PROVE Quiet(e)
  <2>1. DOMAIN tx[e].unacked = {}
    BY DEF Init, NewTx
  <2>2. call[e] = "idle" /\ result[e] = "none"
    BY DEF Init
  <2> QED
    BY <1>2, <1>5, <2>1, <2>2 DEF Quiet
<1>6. ASSUME Forgiving(conf) PROVE \A e \in Endpoints : Good(e)
  BY <1>6, GoodAtFirst
<1> QED
  BY <1>1, <1>2, <1>4, <1>5, <1>6 DEF LossInv

\* The fault budget only shrinks.
LEMMA FaultsShrink ==
    ASSUME [Next]_vars
    PROVE  /\ faults = 0 => faults' = 0
           /\ DOMAIN todo' = DOMAIN todo
<1>1. ~ (0 > 0)
  OBVIOUS
<1>2. faults' = faults \/ faults > 0
  BY Tuning DEF Next, vars, Send, SendTooLarge, Recv, Turn, PopMessage, FlushNew, FlushNewFails, FlushRetx,
     FlushRetxFails, CoverFails, FlushGiveUp, ReadAck, ReadData, AckFails, Ingest, ReadIgnored, ReadUnexpected,
     ReadFails, Lose, Swap, Duplicate, Misbehave, Tick, Refused, SendStops
<1>3. DOMAIN todo' = DOMAIN todo
  BY Tuning DEF Next, vars, Send, SendTooLarge, Recv, Turn, PopMessage, FlushNew, FlushNewFails, FlushRetx,
     FlushRetxFails, CoverFails, FlushGiveUp, ReadAck, ReadData, AckFails, Ingest, ReadIgnored, ReadUnexpected,
     ReadFails, Lose, Swap, Duplicate, Misbehave, Tick
<1> QED
  BY <1>1, <1>2, <1>3, Zenon

LEMMA LossStep ==
    ASSUME BehindReaches, NoWrap, LossInv, [Next]_vars
    PROVE  LossInv'
<1>1. /\ UnfitInv /\ Windows /\ conf \in Scenarios /\ DOMAIN todo = Endpoints /\ (faults = 0 \/ conf.faults # 0)
      /\ SessionInv /\ Shape /\ LoopInv
  BY DEF LossInv, UnfitInv, SessionInv
<1>2. UnfitInv' /\ \A e \in Endpoints : Unfit(e) => Unfit(e)'
  BY <1>1, UnfitStep
<1>3. Windows'
  BY <1>1, InitiatorWindowStep, ResponderWindowStep DEF Windows
<1>4. conf' = conf
  BY PathRests
<1>5. (faults = 0 => faults' = 0) /\ DOMAIN todo' = DOMAIN todo
  BY FaultsShrink
<1>6. ASSUME NEW e \in Endpoints, conf.messages[e] = 0 PROVE Quiet(e)'
  <2>1. Quiet(e)
    BY <1>6 DEF LossInv
  <2>2. SendHalf(tx[e])
    BY <1>1, HalvesOfSession
  <2> QED
    BY <1>1, <2>1, <2>2, QuietStep
<1>7. ASSUME conf.prompt, Forgiving(conf), \A e \in Endpoints : ~ Unfit(e)'
      PROVE  \A e \in Endpoints : Good(e)'
  <2>1. \A e \in Endpoints : ~ Unfit(e)
    BY <1>2, <1>7
  <2>2. \A e \in Endpoints : Good(e)
    BY <1>7, <2>1 DEF LossInv
  <2>3. faults = 0 \/ conf.kinds = {}
    BY <1>1, <1>7 DEF Forgiving
  <2>4. Mending
    BY <1>1, <1>7, <2>1, <2>2, <2>3 DEF Mending
  <2>5. SessionInv'
    BY <1>2 DEF UnfitInv
  <2> QED
    BY <1>3, <2>4, <2>5, GoodStep
<1>8. conf'.prompt = conf.prompt /\ (Forgiving(conf)' <=> Forgiving(conf)) /\ conf'.messages = conf.messages
      /\ conf'.faults = conf.faults /\ conf' \in Scenarios
  BY <1>1, <1>4 DEF Forgiving
<1>9. faults' = 0 \/ conf'.faults # 0
  BY <1>1, <1>5, <1>8
<1> QED
  BY <1>1, <1>2, <1>3, <1>5, <1>6, <1>7, <1>8, <1>9 DEF LossInv

\* Loss is recovered, for every window, timeout, number of attempts, frame size
\* and message count.  In a prompt scenario where nothing goes wrong but DATA
\* dropped unsealed, fewer than a frame has attempts, and where the send timeout
\* outlasts one retransmission interval for each of them, no send of an endpoint
\* whose frames fit its path ends with SendTimeout or ArqGiveUp.
THEOREM LossIsRecovered ==
    ASSUME BehindReaches, NoWrap, \A c \in Scenarios : c.prompt => Recoverable(c)
    PROVE  Spec => []LossRecovered
<1>1. LossInv /\ [Next]_vars => LossInv'
  BY LossStep
<1>2. LossInv => LossRecovered
  <2> SUFFICES ASSUME LossInv, NEW e \in Endpoints, conf.prompt, ~ Unfit(e)
               PROVE  result[e] \notin {"send timeout", "give up"}
    BY DEF LossRecovered
  <2>1. Recoverable(conf) /\ SessionInv
    BY DEF LossInv, UnfitInv
  <2>2. CASE conf.messages[e] = 0
    BY <2>2 DEF LossInv, Quiet
  <2>3. CASE conf.messages[e] # 0
    <3>1. Forgiving(conf) /\ (AllFit(conf) \/ \E x \in Endpoints : conf.messages[x] = 0)
      BY <2>1, <2>3 DEF Recoverable
    <3>2. ASSUME NEW x \in Endpoints PROVE ~ Unfit(x)
      <4>1. CASE x = e
        BY <4>1
      <4>2. CASE AllFit(conf)
        BY <2>1, <4>2, AllFitting
      <4>3. CASE x # e /\ \E y \in Endpoints : conf.messages[y] = 0
        <5>1. conf.messages[x] = 0
          BY <2>3, <4>3 DEF Endpoints
        <5>2. Quiet(x)
          BY <5>1 DEF LossInv
        <5> QED
          BY <5>2 DEF Quiet, Unfit
      <4> QED
        BY <3>1, <4>1, <4>2, <4>3
    <3>3. Good(e)
      BY <3>1, <3>2 DEF LossInv
    <3> QED
      BY <3>3 DEF Good, Within
  <2> QED
    BY <2>2, <2>3
<1> QED
  BY <1>1, <1>2, LossInit, PTL DEF Spec
==============================================================================
