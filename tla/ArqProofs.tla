------------------------------ MODULE ArqProofs ------------------------------
(***************************************************************************)
(* Proofs about Arq for every window, bitmap width, attempt limit, traffic *)
(* and wrap position that the assumptions of ArqCore and Arq allow.        *)
(***************************************************************************)
EXTENDS Arq, FiniteSetTheorems, WellFoundedInduction, TLAPS

(***************************************************************************)
(* u32 arithmetic.                                                         *)
(***************************************************************************)

\* wrapping_add and wrapping_sub stay within the sequence space.
LEMMA WrappingType ==
    ASSUME NEW a \in Seqs, NEW b \in Seqs
    PROVE  wrapping_add(a, b) \in Seqs /\ wrapping_sub(a, b) \in Seqs
  BY WidthsAssumption DEF wrapping_add, wrapping_sub, Seqs

\* Moving a sequence number forward moves its offset by as much, as long as the
\* flow stays within one lap.
LEMMA OffsetAdd ==
    ASSUME NEW s \in Seqs, NEW k \in Nat, Offset(s) + k < SEQ_MOD
    PROVE  /\ wrapping_add(s, k) \in Seqs
           /\ Offset(wrapping_add(s, k)) = Offset(s) + k
  BY WidthsAssumption, InstanceAssumption DEF wrapping_add, wrapping_sub, Seqs, Offset

\* A sequence number is determined by its offset.
LEMMA OffsetInjective ==
    ASSUME NEW s \in Seqs, NEW t \in Seqs, Offset(s) = Offset(t)
    PROVE  s = t
  BY WidthsAssumption, InstanceAssumption DEF wrapping_sub, Seqs, Offset

\* The distance between two sequence numbers in terms of their offsets.
LEMMA OffsetSub ==
    ASSUME NEW s \in Seqs, NEW t \in Seqs
    PROVE  /\ Offset(s) \in Seqs
           /\ Offset(s) >= Offset(t) => wrapping_sub(s, t) = Offset(s) - Offset(t)
           /\ Offset(s) < Offset(t) => wrapping_sub(s, t) = Offset(s) - Offset(t) + SEQ_MOD
  BY WidthsAssumption, InstanceAssumption DEF wrapping_sub, Seqs, Offset

\* The loop of mark_received stops: a bitmap has a lowest zero bit.
LEMMA LowOnesExists ==
    ASSUME NEW bits \in SUBSET (0 .. (RECV_WINDOW - 1))
    PROVE  /\ LowOnes(bits) \in 0 .. RECV_WINDOW
           /\ LowOnes(bits) \notin bits
           /\ \A j \in 0 .. (LowOnes(bits) - 1) : j \in bits
<1> DEFINE T == {k \in 0 .. RECV_WINDOW : k \notin bits}
<1>1. RECV_WINDOW \in T
  BY WidthsAssumption
<1>2. \E k \in T : \A j \in T : ~ (<<j, k>> \in OpToRel(<, Nat))
  <2>1. T \subseteq Nat /\ T # {}
    BY <1>1, WidthsAssumption
  <2> QED
    BY <2>1, WFMin, NatLessThanWellFounded
<1>3. \E k \in T : \A j \in T : ~ (j < k)
  <2>1. PICK k \in T : \A j \in T : ~ (<<j, k>> \in OpToRel(<, Nat))
    BY <1>2
  <2>2. \A i, j \in Nat : i < j => <<i, j>> \in OpToRel(<, Nat)
    BY Zenon DEF OpToRel
  <2>3. T \subseteq Nat
    BY WidthsAssumption
  <2>4. \A j \in T : ~ (j < k)
    BY <2>1, <2>2, <2>3, Zenon
  <2> QED
    BY <2>1, <2>4
<1>4. \E k \in 0 .. RECV_WINDOW : k \notin bits /\ \A j \in 0 .. (k - 1) : j \in bits
  BY <1>3, WidthsAssumption
<1> QED
  BY <1>4 DEF LowOnes

(***************************************************************************)
(* What the operations do to the types.                                    *)
(***************************************************************************)

\* enqueue adds slots of the right type and leaves the others alone.
LEMMA EnqueueType ==
    ASSUME TxTypeOK, NEW m \in Nat, NEW n \in Sizes, tx' = enqueue(tx, m, n)
    PROVE  TxTypeOK'
<1> DEFINE count == FrameCount(n)
           new == {wrapping_add(tx.next_seq, i) : i \in 0 .. (count - 1)}
           frag == IF n = 0 THEN 0 ELSE tx.next_frag_id
           slot(s) ==
             [plaintext |-> encode_data(s, frag, wrapping_sub(s, tx.next_seq), count,
                                        <<m, wrapping_sub(s, tx.next_seq)>>),
              age |-> Never, attempts |-> 0]
<1>1. n \in 0 .. MAX_PARTS
  BY InstanceAssumption
<1>2. count \in 1 .. MAX_PARTS
  BY <1>1, WidthsAssumption DEF FrameCount
<1>3. tx.next_seq \in Seqs /\ tx.next_frag_id \in 1 .. (FRAG_MOD - 1)
  BY DEF TxTypeOK
<1>4. \A s \in new : s \in Seqs /\ wrapping_sub(s, tx.next_seq) \in 0 .. (count - 1)
  BY <1>2, <1>3, WidthsAssumption DEF wrapping_add, wrapping_sub, Seqs
<1>5. \A s \in new : slot(s) \in Slots
  <2> SUFFICES ASSUME NEW s \in new PROVE slot(s) \in Slots
    OBVIOUS
  <2>1. s \in Seqs /\ wrapping_sub(s, tx.next_seq) \in 0 .. (count - 1)
    BY <1>4
  <2>2. frag \in 0 .. (FRAG_MOD - 1)
    BY <1>3, WidthsAssumption
  <2>3. wrapping_sub(s, tx.next_seq) \in 0 .. (MAX_PARTS - 1) /\ wrapping_sub(s, tx.next_seq) \in Nat
    BY <2>1, <1>2, WidthsAssumption
  <2>4. <<m, wrapping_sub(s, tx.next_seq)>> \in Payloads
    BY <2>3 DEF Payloads
  <2>5. encode_data(s, frag, wrapping_sub(s, tx.next_seq), count,
                    <<m, wrapping_sub(s, tx.next_seq)>>) \in DataFrames
    BY <2>1, <2>2, <2>3, <2>4, <1>2 DEF encode_data, DataFrames
  <2> QED
    BY <2>5, WidthsAssumption DEF Slots
<1>6. tx' = [tx EXCEPT
            !.next_seq = wrapping_add(tx.next_seq, count),
            !.next_frag_id = IF n = 0 THEN tx.next_frag_id ELSE NextFragId(tx.next_frag_id),
            !.unacked = [s \in new \cup DOMAIN tx.unacked |->
                            IF s \in new THEN slot(s) ELSE tx.unacked[s]]]
  BY DEF enqueue, NextSeq, TxTypeOK
<1>7. tx'.next_seq \in Seqs
  <2>1. tx'.next_seq = wrapping_add(tx.next_seq, count)
    BY <1>6 DEF TxTypeOK
  <2> QED
    BY <2>1, <1>2, <1>3, WidthsAssumption DEF wrapping_add, Seqs
<1>8. tx'.next_frag_id \in 1 .. (FRAG_MOD - 1)
  <2>1. tx'.next_frag_id = IF n = 0 THEN tx.next_frag_id ELSE NextFragId(tx.next_frag_id)
    BY <1>6 DEF TxTypeOK
  <2> QED
    BY <2>1, <1>3, WidthsAssumption DEF NextFragId
<1>9. /\ tx'.unacked = [s \in new \cup DOMAIN tx.unacked |->
                            IF s \in new THEN slot(s) ELSE tx.unacked[s]]
      /\ tx'.retx = tx.retx
  BY <1>6 DEF TxTypeOK
<1>10. DOMAIN tx'.unacked \subseteq Seqs /\ tx'.unacked \in [DOMAIN tx'.unacked -> Slots]
  <2> HIDE DEF slot, new
  <2> QED
    BY <1>4, <1>5, <1>9 DEF TxTypeOK
<1> QED
  BY <1>6, <1>7, <1>8, <1>9, <1>10 DEF TxTypeOK
\* take_new_sends, take_retransmits and the clock change ages and attempt
\* counts only, within their ranges.
LEMMA SlotUpdateType ==
    ASSUME TxTypeOK,
           \/ tx' = take_new_sends(tx)
           \/ tx' = take_retransmits(tx)
           \/ tx' = Elapse(tx)
    PROVE  /\ TxTypeOK'
           /\ tx'.next_seq = tx.next_seq /\ tx'.retx = tx.retx
           /\ DOMAIN tx'.unacked = DOMAIN tx.unacked
           /\ \A s \in DOMAIN tx.unacked : tx'.unacked[s].plaintext = tx.unacked[s].plaintext
<1> DEFINE D == DOMAIN tx.unacked
<1>1. \A s \in D : tx.unacked[s] \in Slots
  BY DEF TxTypeOK
<1>2. /\ tx'.next_seq = tx.next_seq
      /\ tx'.next_frag_id = tx.next_frag_id
      /\ tx'.retx = tx.retx
      /\ DOMAIN tx'.unacked = D
      /\ tx' = [next_seq |-> tx'.next_seq, next_frag_id |-> tx'.next_frag_id,
                unacked |-> tx'.unacked, retx |-> tx'.retx]
      /\ tx'.unacked = [s \in D |-> tx'.unacked[s]]
  BY DEF TxTypeOK, take_new_sends, take_retransmits, Elapse
<1>3. \A s \in D : tx'.unacked[s] \in Slots /\ tx'.unacked[s].plaintext = tx.unacked[s].plaintext
  <2> SUFFICES ASSUME NEW s \in D
               PROVE  tx'.unacked[s] \in Slots /\ tx'.unacked[s].plaintext = tx.unacked[s].plaintext
    OBVIOUS
  <2>1. CASE tx' = take_new_sends(tx)
    <3>1. tx'.unacked[s] = IF s \in NewSends(tx)
                           THEN [tx.unacked[s] EXCEPT !.age = 0, !.attempts = 1]
                           ELSE tx.unacked[s]
      BY <2>1 DEF take_new_sends, TxTypeOK
    <3>2. 0 \in Ages /\ 1 \in 0 .. MAX_ATTEMPTS
      BY WidthsAssumption DEF Ages
    <3> QED
      BY <3>1, <3>2, <1>1 DEF Slots
  <2>2. CASE tx' = take_retransmits(tx)
    <3>1. tx'.unacked[s] = IF s \in Retransmits(tx)
                           THEN [tx.unacked[s] EXCEPT !.age = 0, !.attempts = tx.unacked[s].attempts + 1]
                           ELSE tx.unacked[s]
      BY <2>2 DEF take_retransmits, TxTypeOK
    <3>2. 0 \in Ages
      BY WidthsAssumption DEF Ages
    <3>3. s \in Retransmits(tx) => tx.unacked[s].attempts + 1 \in 0 .. MAX_ATTEMPTS
      <4> SUFFICES ASSUME s \in Retransmits(tx) PROVE tx.unacked[s].attempts + 1 \in 0 .. MAX_ATTEMPTS
        OBVIOUS
      <4>1. s \in Due(tx) /\ s \notin Exhausted(tx)
        <5>1. s \in Exhausted(tx) => s < s
          BY DEF Retransmits
        <5>2. ~ (s < s)
          BY DEF TxTypeOK, Seqs
        <5> QED
          BY <5>1, <5>2 DEF Retransmits
      <4>2. tx.unacked[s].attempts \in 0 .. MAX_ATTEMPTS
        BY <1>1 DEF Slots
      <4> QED
        BY <4>1, <4>2, WidthsAssumption DEF Exhausted
    <3> QED
      BY <3>1, <3>2, <3>3, <1>1 DEF Slots
  <2>3. CASE tx' = Elapse(tx)
    <3>1. tx'.unacked[s] = IF s \in Sent(tx) /\ tx.unacked[s].age < MAX_AGE
                           THEN [tx.unacked[s] EXCEPT !.age = tx.unacked[s].age + 1]
                           ELSE tx.unacked[s]
      BY <2>3 DEF Elapse, TxTypeOK
    <3>2. s \in Sent(tx) /\ tx.unacked[s].age < MAX_AGE => tx.unacked[s].age + 1 \in Ages
      BY <1>1, WidthsAssumption DEF Slots, Ages, Sent, Never
    <3> QED
      BY <3>1, <3>2, <1>1 DEF Slots
  <2> QED
    BY <2>1, <2>2, <2>3
<1>4. tx'.unacked \in [D -> Slots]
  BY <1>2, <1>3
<1> QED
  BY <1>2, <1>3, <1>4 DEF TxTypeOK

\* on_ack only removes slots.
LEMMA OnAckType ==
    ASSUME TxTypeOK, NEW base, NEW bitmap, tx' = on_ack(tx, base, bitmap)
    PROVE  /\ TxTypeOK'
           /\ tx'.next_seq = tx.next_seq
           /\ DOMAIN tx'.unacked = {s \in DOMAIN tx.unacked : ~ acked(base, bitmap, s)}
           /\ \A s \in DOMAIN tx'.unacked : tx'.unacked[s] = tx.unacked[s]
  BY DEF TxTypeOK, on_ack

\* set_retx touches nothing but the timeout.
LEMMA SetRetxType ==
    ASSUME TxTypeOK, NEW d \in RetxValues, tx' = set_retx(tx, d)
    PROVE  TxTypeOK' /\ tx'.next_seq = tx.next_seq /\ tx'.unacked = tx.unacked
  BY DEF TxTypeOK, set_retx
\* mark_received moves the base and the bitmap only, within their widths.
LEMMA MarkReceivedType ==
    ASSUME RxTypeOK, NEW seq \in Seqs, Fresh(rx, seq)
    PROVE  LET r == mark_received(rx, seq)
               bits == rx.recv_bits \cup {wrapping_sub(seq, rx.recv_base)}
           IN  /\ bits \in SUBSET (0 .. (RECV_WINDOW - 1))
               /\ r = [rx EXCEPT !.recv_base = r.recv_base, !.recv_bits = r.recv_bits]
               /\ r.recv_base = wrapping_add(rx.recv_base, LowOnes(bits))
               /\ r.recv_bits = {b - LowOnes(bits) : b \in {c \in bits : c >= LowOnes(bits)}}
               /\ r.recv_base \in Seqs
               /\ r.recv_bits \in SUBSET (0 .. (RECV_WINDOW - 1))
<1> DEFINE bits == rx.recv_bits \cup {wrapping_sub(seq, rx.recv_base)}
           k == LowOnes(bits)
           r == mark_received(rx, seq)
<1>1. rx.recv_base \in Seqs /\ rx.recv_bits \in SUBSET (0 .. (RECV_WINDOW - 1))
  BY DEF RxTypeOK
<1>2. bits \in SUBSET (0 .. (RECV_WINDOW - 1))
  <2>1. wrapping_sub(seq, rx.recv_base) \in Seqs /\ wrapping_sub(seq, rx.recv_base) < RECV_WINDOW
    BY <1>1, WrappingType DEF Fresh
  <2>2. wrapping_sub(seq, rx.recv_base) \in 0 .. (RECV_WINDOW - 1)
    BY <2>1, WidthsAssumption DEF Seqs
  <2> QED
    BY <1>1, <2>2
<1>3. k \in 0 .. RECV_WINDOW
  <2> HIDE DEF bits
  <2> QED
    BY <1>2, LowOnesExists
<1>4. /\ r = [rx EXCEPT !.recv_base = r.recv_base, !.recv_bits = r.recv_bits]
      /\ r.recv_base = wrapping_add(rx.recv_base, k)
      /\ r.recv_bits = {b - k : b \in {c \in bits : c >= k}}
  <2> HIDE DEF k, bits
  <2>1. r = [rx EXCEPT !.recv_base = wrapping_add(rx.recv_base, k),
                       !.recv_bits = {b - k : b \in {c \in bits : c >= k}}]
    BY DEF mark_received, RxTypeOK, k, bits
  <2> HIDE DEF r
  <2> QED
    BY <2>1 DEF RxTypeOK
<1>5. wrapping_add(rx.recv_base, k) \in Seqs
  <2> HIDE DEF k
  <2> QED
    BY <1>1, <1>3, WidthsAssumption DEF wrapping_add, Seqs
<1>6. {b - k : b \in {c \in bits : c >= k}} \in SUBSET (0 .. (RECV_WINDOW - 1))
  <2> HIDE DEF k, bits
  <2> QED
    BY <1>2, <1>3, WidthsAssumption
<1> QED
  BY <1>2, <1>4, <1>5, <1>6

\* The window after a data frame: moved by mark_received when the frame is
\* fresh, untouched when it is not; reassembly leaves it alone.
LEMMA OnDataWindow ==
    ASSUME RxTypeOK, NEW f \in DataFrames
    PROVE  LET r == on_data(rx, f)
               q == IF Fresh(rx, f.seq) THEN mark_received(rx, f.seq) ELSE rx
           IN  r.recv_base = q.recv_base /\ r.recv_bits = q.recv_bits
<1> DEFINE q == mark_received(rx, f.seq)
<1>1. CASE ~ Fresh(rx, f.seq)
  BY <1>1 DEF on_data
<1>2. CASE Fresh(rx, f.seq)
  <2>1. f.seq \in Seqs
    BY DEF DataFrames
  <2>2. q = [rx EXCEPT !.recv_base = q.recv_base, !.recv_bits = q.recv_bits]
    BY <1>2, <2>1, MarkReceivedType
  <2>3. on_data(rx, f) = IF f.total = 1 THEN [q EXCEPT !.delivered = Append(q.delivered, <<f.payload>>)]
                         ELSE Reassemble(q, f)
    BY <1>2 DEF on_data
  <2> HIDE DEF q
  <2>4. q = [recv_base |-> q.recv_base, recv_bits |-> q.recv_bits,
             fragments |-> q.fragments, delivered |-> q.delivered, pending_ack |-> q.pending_ack]
    BY <2>2 DEF RxTypeOK
  <2>5. Reassemble(q, f).recv_base = q.recv_base /\ Reassemble(q, f).recv_bits = q.recv_bits
    BY <2>4 DEF Reassemble
  <2>6. CASE f.total = 1
    BY <2>3, <2>4, <2>6, <1>2 DEF q
  <2>7. CASE f.total # 1
    BY <2>3, <2>5, <2>7, <1>2 DEF q
  <2> QED
    BY <2>6, <2>7
<1> QED
  BY <1>1, <1>2
\* A data frame leaves the receive half well typed: what reassembly delivers is
\* a sequence of payloads with no hole in it.
LEMMA OnDataType ==
    ASSUME RxTypeOK, NEW f \in DataFrames,
           rx' = [on_data(rx, f) EXCEPT !.pending_ack = TRUE]
    PROVE  RxTypeOK'
<1> DEFINE q == mark_received(rx, f.seq)
<1>0. f.seq \in Seqs /\ f.total \in 1 .. MAX_PARTS /\ f.index \in 0 .. (MAX_PARTS - 1) /\ f.payload \in Payloads
  BY DEF DataFrames
<1>1. CASE ~ Fresh(rx, f.seq)
  <2>1. rx' = [rx EXCEPT !.pending_ack = TRUE]
    BY <1>1 DEF on_data
  <2> QED
    BY <2>1 DEF RxTypeOK
<1>2. CASE Fresh(rx, f.seq)
  <2>1. /\ q = [rx EXCEPT !.recv_base = q.recv_base, !.recv_bits = q.recv_bits]
        /\ q.recv_base \in Seqs /\ q.recv_bits \in SUBSET (0 .. (RECV_WINDOW - 1))
    BY <1>2, <1>0, MarkReceivedType
  <2>2. on_data(rx, f) = IF f.total = 1 THEN [q EXCEPT !.delivered = Append(q.delivered, <<f.payload>>)]
                         ELSE Reassemble(q, f)
    BY <1>2 DEF on_data
  <2> HIDE DEF q
  <2>3. /\ q = [recv_base |-> q.recv_base, recv_bits |-> q.recv_bits, fragments |-> q.fragments,
                delivered |-> q.delivered, pending_ack |-> q.pending_ack]
        /\ q.fragments = rx.fragments /\ q.delivered = rx.delivered /\ q.pending_ack = rx.pending_ack
    BY <2>1 DEF RxTypeOK
  <2>4. CASE f.total = 1
    <3>1. rx' = [recv_base |-> q.recv_base, recv_bits |-> q.recv_bits, fragments |-> rx.fragments,
                 delivered |-> Append(rx.delivered, <<f.payload>>), pending_ack |-> TRUE]
      BY <2>2, <2>3, <2>4
    <3>2. Append(rx.delivered, <<f.payload>>) \in Seq(Seq(Payloads))
      BY <1>0 DEF RxTypeOK
    <3>3. /\ rx'.recv_base = q.recv_base /\ rx'.recv_bits = q.recv_bits
          /\ rx'.fragments = rx.fragments /\ rx'.delivered = Append(rx.delivered, <<f.payload>>)
          /\ rx'.pending_ack = TRUE
      BY <3>1
    <3> QED
      BY <3>1, <3>2, <3>3, <2>1 DEF RxTypeOK
  <2>5. CASE f.total # 1
    <3> DEFINE buf == FragBuf(q, f)
               parts == IF buf.total # f.total \/ f.index >= buf.total
                        THEN buf.parts
                        ELSE [i \in {f.index} \cup DOMAIN buf.parts |->
                                 IF i = f.index THEN f.payload ELSE buf.parts[i]]
               complete == DOMAIN parts = 0 .. (buf.total - 1)
               others == DOMAIN q.fragments \ {f.frag_id}
               frags == [id \in IF complete THEN others ELSE others \cup {f.frag_id} |->
                            IF id = f.frag_id THEN [buf EXCEPT !.parts = parts] ELSE q.fragments[id]]
               deliv == IF complete
                        THEN Append(q.delivered, [i \in 1 .. buf.total |-> parts[i - 1]])
                        ELSE q.delivered
    <3>1. rx' = [recv_base |-> q.recv_base, recv_bits |-> q.recv_bits, fragments |-> frags,
                 delivered |-> deliv, pending_ack |-> TRUE]
      <4>1. Reassemble(q, f) = [q EXCEPT !.fragments = frags, !.delivered = deliv]
        BY <2>3 DEF Reassemble
      <4> HIDE DEF frags, deliv
      <4> QED
        BY <4>1, <2>2, <2>3, <2>5
    <3>2. /\ buf = [total |-> buf.total, parts |-> buf.parts]
          /\ buf.total \in 1 .. MAX_PARTS
          /\ DOMAIN buf.parts \subseteq 0 .. (buf.total - 1)
          /\ buf.parts \in [DOMAIN buf.parts -> Payloads]
      <4>1. CASE f.frag_id \in DOMAIN q.fragments
        BY <4>1, <2>3 DEF FragBuf, RxTypeOK
      <4>2. CASE f.frag_id \notin DOMAIN q.fragments
        <5>1. buf = [total |-> f.total, parts |-> << >>]
          BY <4>2 DEF FragBuf
        <5> HIDE DEF buf
        <5> QED
          BY <5>1, <1>0
      <4> QED
        BY <4>1, <4>2
    <3>3. DOMAIN parts \subseteq 0 .. (buf.total - 1) /\ parts \in [DOMAIN parts -> Payloads]
      <4> HIDE DEF buf
      <4> QED
        BY <3>2, <1>0, WidthsAssumption
    <3>4. deliv \in Seq(Seq(Payloads))
      <4>1. q.delivered \in Seq(Seq(Payloads))
        BY <2>3 DEF RxTypeOK
      <4>2. complete => [i \in 1 .. buf.total |-> parts[i - 1]] \in Seq(Payloads)
        <5> HIDE DEF parts, buf
        <5> SUFFICES ASSUME complete PROVE [i \in 1 .. buf.total |-> parts[i - 1]] \in Seq(Payloads)
          OBVIOUS
        <5>1. \A i \in 1 .. buf.total : parts[i - 1] \in Payloads
          BY <3>2, <3>3
        <5> QED
          BY <5>1, <3>2
      <4> HIDE DEF complete, parts, buf
      <4> QED
        BY <4>1, <4>2
    <3>5. \A id \in DOMAIN frags :
            /\ frags[id] = [total |-> frags[id].total, parts |-> frags[id].parts]
            /\ frags[id].total \in 1 .. MAX_PARTS
            /\ DOMAIN frags[id].parts \subseteq 0 .. (frags[id].total - 1)
            /\ frags[id].parts \in [DOMAIN frags[id].parts -> Payloads]
      <4> SUFFICES ASSUME NEW id \in DOMAIN frags
                   PROVE /\ frags[id] = [total |-> frags[id].total, parts |-> frags[id].parts]
                         /\ frags[id].total \in 1 .. MAX_PARTS
                         /\ DOMAIN frags[id].parts \subseteq 0 .. (frags[id].total - 1)
                         /\ frags[id].parts \in [DOMAIN frags[id].parts -> Payloads]
        OBVIOUS
      <4> HIDE DEF parts, buf, complete
      <4>1. CASE id = f.frag_id
        <5>1. frags[id] = [buf EXCEPT !.parts = parts]
          BY <4>1
        <5>2. frags[id] = [total |-> buf.total, parts |-> parts]
          BY <5>1, <3>2
        <5> HIDE DEF frags
        <5> QED
          BY <5>2, <3>2, <3>3
      <4>2. CASE id # f.frag_id
        <5>1. frags[id] = rx.fragments[id] /\ id \in DOMAIN rx.fragments
          BY <4>2, <2>3
        <5> HIDE DEF frags
        <5> QED
          BY <5>1 DEF RxTypeOK
      <4> QED
        BY <4>1, <4>2
    <3> HIDE DEF frags, deliv
    <3>6. /\ rx'.recv_base = q.recv_base /\ rx'.recv_bits = q.recv_bits
          /\ rx'.fragments = frags /\ rx'.delivered = deliv /\ rx'.pending_ack = TRUE
      BY <3>1
    <3> QED
      BY <3>1, <3>4, <3>5, <3>6, <2>1 DEF RxTypeOK
  <2> QED
    BY <2>4, <2>5
<1> QED
  BY <1>1, <1>2
\* The ACK written for a well-typed receive half is well typed.
LEMMA CurrentAckType ==
    ASSUME RxTypeOK PROVE CurrentAck(rx) \in AckFrames
  BY DEF RxTypeOK, CurrentAck, encode_ack, AckFrames

\* The two kinds of frame on the wire.
LEMMA WireKinds ==
    ASSUME wire \subseteq DataFrames \cup AckFrames, NEW f \in wire
    PROVE  /\ f.kind = "data" => f \in DataFrames
           /\ f.kind = "ack" => f \in AckFrames
  BY DEF DataFrames, AckFrames

\* Every step preserves the types.
LEMMA TypeStep == TypeOK /\ [Next]_vars => TypeOK'
<1> SUFFICES ASSUME TypeOK, [Next]_vars PROVE TypeOK'
  OBVIOUS
<1> USE DEF TypeOK
<1>1. ASSUME NEW n \in Sizes, Enqueue(n) PROVE TypeOK'
  <2>1. Len(queued) + 1 \in Nat
    OBVIOUS
  <2>2. TxTypeOK'
    BY <1>1, <2>1, EnqueueType DEF Enqueue
  <2>3. queued' \in Seq([first : Seqs, chunks : Sizes])
    BY <1>1 DEF Enqueue, TxTypeOK
  <2> QED
    BY <1>1, <2>2, <2>3 DEF Enqueue, RxTypeOK
<1>2. CASE TakeNewSends
  <2>1. TxTypeOK'
    BY <1>2, SlotUpdateType DEF TakeNewSends
  <2>2. FramesOf(tx, NewSends(tx)) \subseteq DataFrames
    BY DEF FramesOf, NewSends, Unsent, TxTypeOK, Slots
  <2> QED
    BY <1>2, <2>1, <2>2 DEF TakeNewSends, RxTypeOK
<1>3. CASE TakeRetransmits
  <2>1. TxTypeOK'
    BY <1>3, SlotUpdateType DEF TakeRetransmits
  <2>2. FramesOf(tx, Retransmits(tx)) \subseteq DataFrames
    BY DEF FramesOf, Retransmits, Due, Sent, TxTypeOK, Slots
  <2> QED
    BY <1>3, <2>1, <2>2 DEF TakeRetransmits, RxTypeOK
<1>4. CASE GiveUp
  <2>1. TxTypeOK'
    BY <1>4, SlotUpdateType DEF GiveUp
  <2>2. Exhausted(tx) \subseteq Seqs
    BY DEF Exhausted, Due, Sent, TxTypeOK
  <2> QED
    BY <1>4, <2>1, <2>2 DEF GiveUp, RxTypeOK
<1>5. CASE IngestAck
  <2>1. TxTypeOK'
    BY <1>5, OnAckType DEF IngestAck
  <2> QED
    BY <1>5, <2>1 DEF IngestAck, RxTypeOK
<1>6. CASE IngestData
  <2>1. PICK f \in wire : /\ f.kind = "data"
                          /\ rx' = [on_data(rx, f) EXCEPT !.pending_ack = TRUE]
                          /\ wire' = wire \cup {CurrentAck(rx')}
    BY <1>6 DEF IngestData
  <2>2. RxTypeOK'
    BY <2>1, WireKinds, OnDataType
  <2>3. CurrentAck(rx') \in AckFrames
    BY <2>2 DEF RxTypeOK, CurrentAck, encode_ack, AckFrames
  <2> QED
    BY <1>6, <2>1, <2>2, <2>3 DEF IngestData, TxTypeOK
<1>7. CASE TakeAck
  <2>1. RxTypeOK'
    BY <1>7 DEF TakeAck, RxTypeOK
  <2> QED
    BY <1>7, <2>1, CurrentAckType DEF TakeAck, TxTypeOK
<1>8. CASE PopDelivered
  <2>1. /\ rx' = [rx EXCEPT !.delivered = Tail(rx.delivered)]
        /\ popped' = Append(popped, Head(rx.delivered))
    BY <1>8 DEF PopDelivered, pop_delivered
  <2>2. Tail(rx.delivered) \in Seq(Seq(Payloads)) /\ Head(rx.delivered) \in Seq(Payloads)
    BY <1>8 DEF PopDelivered, RxTypeOK
  <2>3. RxTypeOK'
    BY <2>1, <2>2 DEF RxTypeOK
  <2> QED
    BY <1>8, <2>1, <2>2, <2>3 DEF PopDelivered, TxTypeOK
<1>9. ASSUME NEW d \in RetxValues, SetRetx(d) PROVE TypeOK'
  BY <1>9, SetRetxType DEF SetRetx, RxTypeOK
<1>10. CASE Tick
  <2>1. TxTypeOK'
    BY <1>10, SlotUpdateType DEF Tick
  <2> QED
    BY <1>10, <2>1 DEF Tick, RxTypeOK
<1>11. CASE UNCHANGED vars
  BY <1>11 DEF vars, TxTypeOK, RxTypeOK
<1> QED
  BY <1>1, <1>2, <1>3, <1>4, <1>5, <1>6, <1>7, <1>8, <1>9, <1>10, <1>11 DEF Next

\* A fresh pair of endpoints is well typed.
LEMMA TypeInit == Init => TypeOK
<1> SUFFICES ASSUME Init PROVE TypeOK
  OBVIOUS
<1>1. TxTypeOK
  BY WidthsAssumption, InstanceAssumption DEF Init, NewTx, TxTypeOK
<1>2. RxTypeOK
  BY InstanceAssumption DEF Init, NewRx, RxTypeOK
<1> QED
  BY <1>1, <1>2 DEF Init, TypeOK

\* Every reachable state of the ARQ flow is well typed (arq.rs): counters and
\* bitmaps keep their widths and no frame is sent more than MAX_ATTEMPTS times.
THEOREM TypeCorrect == Spec => []TypeOK
  BY TypeInit, TypeStep, PTL DEF Spec

-----------------------------------------------------------------------------
(***************************************************************************)
(* Nothing is retired before it is accepted.                               *)
(***************************************************************************)

\* An accepted frame joins what the receive half has accepted, and nothing else
\* changes: shifting the bitmap and moving the base cancel out.
LEMMA MarkReceivedAccepts ==
    ASSUME TypeOK, FlowInv, NEW seq \in Seqs, seq \in Assigned, Fresh(rx, seq),
           rx'.recv_base = mark_received(rx, seq).recv_base,
           rx'.recv_bits = mark_received(rx, seq).recv_bits
    PROVE  /\ \A o \in Nat : AcceptedAt(o)' <=> AcceptedAt(o) \/ o = Offset(seq)
           /\ Offset(rx'.recv_base) >= Offset(rx.recv_base)
           /\ Offset(rx'.recv_base) <= Offset(tx.next_seq)
           /\ \A b \in rx'.recv_bits : Offset(rx'.recv_base) + b < Offset(tx.next_seq)
<1> DEFINE ahead == wrapping_sub(seq, rx.recv_base)
           bits == rx.recv_bits \cup {ahead}
           k == LowOnes(bits)
           o0 == Offset(rx.recv_base)
           n0 == Offset(tx.next_seq)
<1>1. /\ rx.recv_base \in Seqs /\ tx.next_seq \in Seqs
      /\ o0 \in Nat /\ n0 \in Nat /\ Offset(seq) \in Nat
      /\ n0 <= MaxFrames /\ o0 <= n0 /\ Offset(seq) < n0
  <2>1. rx.recv_base \in Seqs /\ tx.next_seq \in Seqs
    BY DEF TypeOK, RxTypeOK, TxTypeOK
  <2> QED
    BY <2>1, OffsetSub DEF Seqs, FlowInv, Assigned
<1>2. /\ bits \in SUBSET (0 .. (RECV_WINDOW - 1))
      /\ rx'.recv_base = wrapping_add(rx.recv_base, k)
      /\ rx'.recv_bits = {b - k : b \in {c \in bits : c >= k}}
  BY MarkReceivedType DEF TypeOK
<1>3. k \in 0 .. RECV_WINDOW /\ k \notin bits /\ \A j \in 0 .. (k - 1) : j \in bits
  <2> HIDE DEF bits
  <2> QED
    BY <1>2, LowOnesExists
<1>4. ahead = Offset(seq) - o0
  <2>1. ahead < RECV_WINDOW /\ ahead \in Nat
    BY <1>2, WidthsAssumption
  <2>2. /\ Offset(seq) >= o0 => ahead = Offset(seq) - o0
        /\ Offset(seq) < o0 => ahead = Offset(seq) - o0 + SEQ_MOD
    BY <1>1, OffsetSub
  <2> HIDE DEF ahead, o0
  <2> QED
    BY <2>1, <2>2, <1>1, WidthsAssumption, InstanceAssumption
<1>5. \A b \in bits : b \in Nat /\ o0 + b < n0
  <2>1. \A b \in rx.recv_bits : o0 + b < n0
    BY DEF FlowInv
  <2>2. \A b \in bits : b \in Nat
    BY <1>2
  <2>3. o0 + ahead < n0
    <3> HIDE DEF ahead, o0, n0
    <3> QED
      BY <1>1, <1>4
  <2> QED
    BY <2>1, <2>2, <2>3
<1>6. o0 + k <= n0
  <2> HIDE DEF bits, k, o0, n0
  <2>1. CASE k = 0
    BY <2>1, <1>1
  <2>2. CASE k # 0
    <3>1. k - 1 \in bits
      BY <2>2, <1>3, WidthsAssumption
    <3> QED
      BY <3>1, <1>5, <1>3, <1>1, WidthsAssumption
  <2> QED
    BY <2>1, <2>2
<1>7. Offset(rx'.recv_base) = o0 + k
  <2>1. k \in Nat /\ o0 + k < SEQ_MOD
    <3> HIDE DEF k, o0, n0
    <3> QED
      BY <1>1, <1>3, <1>6, WidthsAssumption, InstanceAssumption
  <2> HIDE DEF k
  <2> QED
    BY <2>1, <1>1, <1>2, OffsetAdd
<1>8. ASSUME NEW o \in Nat PROVE AcceptedAt(o)' <=> AcceptedAt(o) \/ o = Offset(seq)
  <2>1. AcceptedAt(o)' <=> o < o0 + k \/ o - (o0 + k) \in {b - k : b \in {c \in bits : c >= k}}
    <3>1. AcceptedAt(o)' <=> o < Offset(rx'.recv_base) \/ o - Offset(rx'.recv_base) \in rx'.recv_bits
      BY DEF AcceptedAt, Offset, wrapping_sub
    <3> QED
      BY <3>1, <1>2, <1>7
  <2>2. AcceptedAt(o) <=> o < o0 \/ o - o0 \in rx.recv_bits
    BY DEF AcceptedAt
  <2>3. o - o0 \in bits <=> o - o0 \in rx.recv_bits \/ o = Offset(seq)
    <3>1. o - o0 = ahead <=> o = Offset(seq)
      <4>1. o0 \in Int /\ Offset(seq) \in Int
        BY <1>1
      <4> HIDE DEF ahead, o0, n0, k, bits
      <4>2. o - o0 = Offset(seq) - o0 <=> o = Offset(seq)
        BY <4>1
      <4> QED
        BY <4>2, <1>4, Zenon
    <3> HIDE DEF ahead, o0
    <3> QED
      BY <3>1
  <2>4. o < o0 + k \/ o - (o0 + k) \in {b - k : b \in {c \in bits : c >= k}}
          <=> o < o0 \/ o - o0 \in bits
    <3> HIDE DEF bits, k, o0
    <3>1. k \in Nat
      BY <1>3, WidthsAssumption
    <3>2. CASE o < o0
      BY <3>1, <3>2, <1>1
    <3>3. CASE o >= o0 /\ o < o0 + k
      <4>1. o - o0 \in 0 .. (k - 1)
        BY <3>1, <3>3, <1>1
      <4> QED
        BY <4>1, <3>3, <1>3
    <3>4. CASE o >= o0 + k
      <4>1. o - o0 >= k /\ o - (o0 + k) = (o - o0) - k
        BY <3>1, <3>4, <1>1
      <4>2. \A b \in bits : b \in Nat
        BY <1>5
      <4> QED
        BY <4>1, <4>2, <3>1, <3>4, <1>1
    <3> QED
      BY <3>2, <3>3, <3>4, <3>1, <1>1
  <2> QED
    BY <2>1, <2>2, <2>3, <2>4
<1>9. \A b \in rx'.recv_bits : Offset(rx'.recv_base) + b < n0
  <2> SUFFICES ASSUME NEW b \in rx'.recv_bits PROVE Offset(rx'.recv_base) + b < n0
    OBVIOUS
  <2>1. PICK c \in bits : c >= k /\ b = c - k
    BY <1>2
  <2>2. c \in Nat /\ o0 + c < n0
    BY <1>5
  <2> HIDE DEF bits, k, o0, n0
  <2>3. k \in Nat
    BY <1>3, WidthsAssumption
  <2> QED
    BY <2>1, <2>2, <2>3, <1>1, <1>7
<1> QED
  <2>1. k \in Nat /\ o0 + k >= o0
    <3> HIDE DEF k, o0
    <3> QED
      BY <1>1, <1>3, WidthsAssumption
  <2> QED
    BY <1>6, <1>7, <1>8, <1>9, <2>1
\* enqueue hands out the next sequence numbers and opens a slot for each.
LEMMA EnqueueSlots ==
    ASSUME TypeOK, FlowInv, NEW n \in Sizes, Enqueue(n)
    PROVE  /\ Offset(tx'.next_seq) = Offset(tx.next_seq) + FrameCount(n)
           /\ Offset(tx'.next_seq) <= MaxFrames
           /\ \A s \in Assigned : s \in Assigned'
           /\ \A s \in Seqs : s \in Assigned' <=> s \in Assigned \/ s \in DOMAIN tx'.unacked
           /\ \A s \in DOMAIN tx'.unacked :
                \/ /\ s \in DOMAIN tx.unacked
                   /\ tx'.unacked[s] = tx.unacked[s]
                \/ /\ s \in Assigned' /\ s \notin Assigned
                   /\ tx'.unacked[s].age = Never
                   /\ tx'.unacked[s].plaintext.seq = s
           /\ \A s \in DOMAIN tx.unacked : s \in DOMAIN tx'.unacked /\ tx'.unacked[s] = tx.unacked[s]
<1> DEFINE count == FrameCount(n)
           new == {wrapping_add(tx.next_seq, i) : i \in 0 .. (count - 1)}
           o == Offset(tx.next_seq)
<1>1. /\ tx.next_seq \in Seqs /\ o \in Nat
      /\ count \in Nat /\ count >= 1 /\ o + count <= MaxFrames /\ o + count < SEQ_MOD
  <2>1. n \in Nat
    BY InstanceAssumption, WidthsAssumption
  <2>2. count \in Nat /\ count >= 1
    BY <2>1 DEF FrameCount
  <2>3. tx.next_seq \in Seqs
    BY DEF TypeOK, TxTypeOK
  <2>4. o \in Nat
    BY <2>3, OffsetSub DEF Seqs
  <2>5. o + count <= MaxFrames
    BY DEF Enqueue
  <2> HIDE DEF o, count
  <2> QED
    BY <2>2, <2>3, <2>4, <2>5, WidthsAssumption, InstanceAssumption
<1>2. tx'.next_seq = wrapping_add(tx.next_seq, count)
  BY DEF Enqueue, enqueue, NextSeq, TypeOK, TxTypeOK
<1>3. Offset(tx'.next_seq) = o + count
  BY <1>1, <1>2, OffsetAdd
<1>4. \A s \in Seqs : s \in new <=> o <= Offset(s) /\ Offset(s) < o + count
  <2> SUFFICES ASSUME NEW s \in Seqs PROVE s \in new <=> o <= Offset(s) /\ Offset(s) < o + count
    OBVIOUS
  <2>1. Offset(s) \in Nat
    BY OffsetSub DEF Seqs
  <2>2. ASSUME NEW i \in 0 .. (count - 1)
        PROVE  wrapping_add(tx.next_seq, i) \in Seqs /\ Offset(wrapping_add(tx.next_seq, i)) = o + i
    <3>1. i \in Nat /\ o + i < SEQ_MOD
      <4> HIDE DEF o, count
      <4> QED
        BY <1>1, WidthsAssumption
    <3> QED
      BY <3>1, <1>1, OffsetAdd
  <2>3. ASSUME s \in new PROVE o <= Offset(s) /\ Offset(s) < o + count
    <3>1. PICK i \in 0 .. (count - 1) : s = wrapping_add(tx.next_seq, i)
      BY <2>3
    <3>2. Offset(s) = o + i
      BY <3>1, <2>2
    <3> HIDE DEF o, count
    <3> QED
      BY <3>2, <1>1
  <2>4. ASSUME o <= Offset(s), Offset(s) < o + count PROVE s \in new
    <3>1. Offset(s) - o \in 0 .. (count - 1) /\ o + (Offset(s) - o) = Offset(s)
      <4> HIDE DEF o, count
      <4> QED
        BY <2>1, <2>4, <1>1
    <3>2. Offset(wrapping_add(tx.next_seq, Offset(s) - o)) = Offset(s)
      BY <3>1, <2>2
    <3>3. s = wrapping_add(tx.next_seq, Offset(s) - o)
      BY <3>1, <3>2, <2>2, OffsetInjective
    <3> QED
      BY <3>1, <3>3
  <2> QED
    BY <2>3, <2>4
<1>5. /\ DOMAIN tx'.unacked = new \cup DOMAIN tx.unacked
      /\ \A s \in new : tx'.unacked[s].age = Never /\ tx'.unacked[s].plaintext.seq = s
      /\ \A s \in DOMAIN tx'.unacked : s \notin new => tx'.unacked[s] = tx.unacked[s]
  BY DEF Enqueue, enqueue, encode_data, TypeOK, TxTypeOK
<1>6. DOMAIN tx.unacked \subseteq Assigned
  BY DEF FlowInv
<1>7. \A s \in Seqs : (s \in Assigned <=> Offset(s) < o) /\ (s \in Assigned' <=> Offset(s) < o + count)
  <2>1. \A s \in Seqs : s \in Assigned <=> Offset(s) < o
    BY DEF Assigned
  <2>2. \A s \in Seqs : s \in Assigned' <=> Offset(s) < Offset(tx'.next_seq)
    BY DEF Assigned, Offset, wrapping_sub
  <2> QED
    BY <2>1, <2>2, <1>3
<1>8. \A s \in Seqs : Offset(s) \in Nat
  BY OffsetSub DEF Seqs
<1>9. \A s \in DOMAIN tx'.unacked : s \in Seqs
  <2>1. Len(queued) + 1 \in Nat /\ tx' = enqueue(tx, Len(queued) + 1, n)
    BY DEF Enqueue, TypeOK
  <2>2. TxTypeOK'
    BY <2>1, EnqueueType DEF TypeOK
  <2> QED
    BY <2>2 DEF TxTypeOK
<1>10. Assigned \subseteq Seqs
  BY DEF Assigned
<1> HIDE DEF new, count, o
<1>11. \A s \in Seqs : (s \in new <=> s \in Assigned' /\ s \notin Assigned) /\ (s \in Assigned => s \in Assigned')
  BY <1>1, <1>4, <1>7, <1>8
<1>12. Offset(tx'.next_seq) = Offset(tx.next_seq) + FrameCount(n) /\ Offset(tx'.next_seq) <= MaxFrames
  BY <1>1, <1>3 DEF o, count
<1>13. DOMAIN tx.unacked \subseteq Seqs /\ new \subseteq DOMAIN tx'.unacked
  BY <1>5, <1>6, <1>10
<1> QED
  BY <1>5, <1>6, <1>9, <1>10, <1>11, <1>12, <1>13

\* Both halves of the argument that a retired frame was accepted.
NoFalseAckInv == TypeOK /\ FlowInv /\ NoFalseAck

\* A step that leaves the numbering and the receive window alone, puts nothing
\* false on the wire and retires nothing keeps the invariant.
LEMMA QuietStep ==
    ASSUME NoFalseAckInv, TypeOK',
           tx'.next_seq = tx.next_seq,
           rx'.recv_base = rx.recv_base, rx'.recv_bits = rx.recv_bits,
           DOMAIN tx'.unacked = DOMAIN tx.unacked,
           \A s \in DOMAIN tx.unacked : tx'.unacked[s].plaintext = tx.unacked[s].plaintext,
           \A f \in wire' : \/ f \in wire
                            \/ f.kind = "data" /\ f.seq \in Assigned
                            \/ f = CurrentAck(rx)
    PROVE  NoFalseAckInv'
<1> USE DEF NoFalseAckInv
<1>1. \A s : s \in Assigned' <=> s \in Assigned
  BY DEF Assigned, Offset, wrapping_sub
<1>2. \A o : AcceptedAt(o)' <=> AcceptedAt(o)
  BY DEF AcceptedAt, Offset, wrapping_sub
<1>3. \A s : Received(s)' <=> Received(s)
  BY <1>2 DEF Received, Offset, wrapping_sub
<1>4. /\ Offset(tx'.next_seq) = Offset(tx.next_seq)
      /\ Offset(rx'.recv_base) = Offset(rx.recv_base)
  OBVIOUS
<1>5. NoFalseAck'
  BY <1>1, <1>3 DEF NoFalseAck
<1>6. \A f \in wire' : f.kind = "data" => f.seq \in Assigned'
  BY <1>1 DEF FlowInv, CurrentAck, encode_ack
<1>7. ASSUME NEW f \in wire', f.kind = "ack"
      PROVE  Offset(f.base) <= Offset(rx.recv_base) /\ \A b \in f.bitmap : AcceptedAt(Offset(f.base) + b)
  <2>1. CASE f \in wire
    BY <2>1, <1>7 DEF FlowInv
  <2>2. CASE f = CurrentAck(rx)
    <3>1. f.base = rx.recv_base /\ f.bitmap = rx.recv_bits
      BY <2>2 DEF CurrentAck, encode_ack
    <3>2. Offset(rx.recv_base) \in Nat /\ \A b \in rx.recv_bits : b \in Nat
      <4>1. rx.recv_base \in Seqs /\ \A b \in rx.recv_bits : b \in Nat
        BY WidthsAssumption DEF TypeOK, RxTypeOK
      <4> QED
        BY <4>1, OffsetSub DEF Seqs
    <3> QED
      BY <3>1, <3>2 DEF AcceptedAt
  <2> QED
    BY <2>1, <2>2, <1>7
<1>8. FlowInv'
  <2>1. \A f \in wire' : f.kind = "ack" =>
            /\ Offset(f.base) <= Offset(rx'.recv_base)
            /\ \A b \in f.bitmap : AcceptedAt(Offset(f.base) + b)'
    BY <1>2, <1>4, <1>7
  <2>2. Offset(tx'.next_seq) <= MaxFrames /\ Offset(rx'.recv_base) <= Offset(tx'.next_seq)
    BY <1>4 DEF FlowInv
  <2>3. \A s \in DOMAIN tx'.unacked : s \in Assigned' /\ tx'.unacked[s].plaintext.seq = s
    BY <1>1 DEF FlowInv
  <2>4. \A b \in rx'.recv_bits : Offset(rx'.recv_base) + b < Offset(tx'.next_seq)
    BY <1>4 DEF FlowInv
  <2> QED
    BY <2>1, <2>2, <2>3, <2>4, <1>6 DEF FlowInv, Offset, wrapping_sub
<1> QED
  BY <1>5, <1>8
\* An ACK that speaks the truth retires only accepted frames: the bitmap half by
\* definition, the ACK_BEHIND half because what lies below an old base lies
\* below the current one, and no outstanding frame is a lap away.
LEMMA AckedWasReceived ==
    ASSUME NoFalseAckInv, NEW f \in wire, f.kind = "ack",
           NEW s \in Assigned, acked(f.base, f.bitmap, s)
    PROVE  Received(s)
<1> USE DEF NoFalseAckInv
<1>1. f \in AckFrames
  BY WireKinds DEF TypeOK
<1>2. f.base \in Seqs /\ f.bitmap \in SUBSET (0 .. (RECV_WINDOW - 1)) /\ s \in Seqs
  BY <1>1 DEF AckFrames, Assigned
<1>3. /\ Offset(f.base) \in Nat /\ Offset(s) \in Nat /\ Offset(rx.recv_base) \in Nat
      /\ Offset(tx.next_seq) \in Nat
      /\ Offset(s) < Offset(tx.next_seq) /\ Offset(tx.next_seq) <= MaxFrames
      /\ Offset(f.base) <= Offset(rx.recv_base) /\ Offset(rx.recv_base) <= Offset(tx.next_seq)
  <2>1. rx.recv_base \in Seqs /\ tx.next_seq \in Seqs
    BY DEF TypeOK, RxTypeOK, TxTypeOK
  <2>2. \A t \in Seqs : Offset(t) \in Nat
    BY OffsetSub DEF Seqs
  <2> QED
    BY <1>2, <2>1, <2>2 DEF FlowInv, Assigned
<1>4. /\ Offset(s) >= Offset(f.base) => wrapping_sub(s, f.base) = Offset(s) - Offset(f.base)
      /\ Offset(s) < Offset(f.base) => wrapping_sub(s, f.base) = Offset(s) - Offset(f.base) + SEQ_MOD
      /\ Offset(f.base) >= Offset(s) => wrapping_sub(f.base, s) = Offset(f.base) - Offset(s)
      /\ Offset(f.base) < Offset(s) => wrapping_sub(f.base, s) = Offset(f.base) - Offset(s) + SEQ_MOD
  BY <1>2, OffsetSub
<1>5. CASE wrapping_sub(s, f.base) < RECV_WINDOW
  <2>1. wrapping_sub(s, f.base) \in f.bitmap
    BY <1>5 DEF acked
  <2>2. Offset(s) >= Offset(f.base)
    BY <1>3, <1>4, <1>5, WidthsAssumption, InstanceAssumption
  <2>3. Offset(f.base) + (Offset(s) - Offset(f.base)) = Offset(s)
    BY <1>3
  <2>4. AcceptedAt(Offset(f.base) + (Offset(s) - Offset(f.base)))
    BY <2>1, <2>2, <1>4 DEF FlowInv
  <2> QED
    BY <2>3, <2>4 DEF Received
<1>6. CASE ~ (wrapping_sub(s, f.base) < RECV_WINDOW)
  <2>1. wrapping_sub(f.base, s) > 0 /\ wrapping_sub(f.base, s) < ACK_BEHIND
    BY <1>6 DEF acked
  <2>2. Offset(s) < Offset(f.base)
    BY <2>1, <1>3, <1>4, <1>6, WidthsAssumption, InstanceAssumption
  <2> QED
    BY <2>2, <1>3 DEF Received, AcceptedAt
<1> QED
  BY <1>5, <1>6

\* Every step preserves the invariant.
LEMMA NoFalseAckStep == NoFalseAckInv /\ [Next]_vars => NoFalseAckInv'
<1> SUFFICES ASSUME NoFalseAckInv, [Next]_vars PROVE NoFalseAckInv'
  OBVIOUS
<1> USE DEF NoFalseAckInv
<1>0. TypeOK'
  BY TypeStep
<1>1. ASSUME NEW n \in Sizes, Enqueue(n) PROVE NoFalseAckInv'
  <2>1. rx' = rx /\ wire' = wire
    BY <1>1 DEF Enqueue
  <2>2. /\ Offset(tx.next_seq) \in Nat /\ Offset(rx.recv_base) \in Nat /\ FrameCount(n) \in Nat
        /\ \A b \in rx.recv_bits : b \in Nat
    <3>1. tx.next_seq \in Seqs /\ rx.recv_base \in Seqs /\ rx.recv_bits \in SUBSET (0 .. (RECV_WINDOW - 1))
      BY DEF TypeOK, TxTypeOK, RxTypeOK
    <3>2. n \in Nat
      BY InstanceAssumption, WidthsAssumption
    <3> QED
      BY <3>1, <3>2, OffsetSub, WidthsAssumption DEF Seqs, FrameCount
  <2>3. Offset(tx.next_seq) <= Offset(tx'.next_seq) /\ Offset(tx'.next_seq) \in Nat
    <3>1. Offset(tx'.next_seq) = Offset(tx.next_seq) + FrameCount(n)
      BY <1>1, EnqueueSlots
    <3> QED
      BY <3>1, <2>2
  <2>4. \A s : AcceptedAt(s)' <=> AcceptedAt(s)
    BY <2>1 DEF AcceptedAt, Offset, wrapping_sub
  <2>5. NoFalseAck'
    <3>1. \A s \in Assigned' : s \in DOMAIN tx'.unacked \/ Received(s)
      <4>1. \A s \in Assigned' : s \in Assigned \/ s \in DOMAIN tx'.unacked
        <5>1. \A s \in Seqs : s \in Assigned' <=> s \in Assigned \/ s \in DOMAIN tx'.unacked
          BY <1>1, EnqueueSlots
        <5>2. \A s \in Assigned' : s \in Seqs
          BY DEF Assigned
        <5> QED
          BY <5>1, <5>2
      <4>2. \A s \in DOMAIN tx.unacked : s \in DOMAIN tx'.unacked
        BY <1>1, EnqueueSlots
      <4> QED
        BY <4>1, <4>2 DEF NoFalseAck
    <3>2. \A s : Received(s)' <=> Received(s)
      BY <2>4 DEF Received, Offset, wrapping_sub
    <3> QED
      BY <3>1, <3>2 DEF NoFalseAck
  <2>6. \A s \in DOMAIN tx'.unacked : s \in Assigned' /\ tx'.unacked[s].plaintext.seq = s
    BY <1>1, EnqueueSlots DEF FlowInv
  <2>7. \A f \in wire' : f.kind = "data" => f.seq \in Assigned'
    BY <1>1, <2>1, EnqueueSlots DEF FlowInv
  <2>8. Offset(rx'.recv_base) <= Offset(tx'.next_seq)
    BY <2>1, <2>2, <2>3 DEF FlowInv
  <2>9. \A b \in rx'.recv_bits : Offset(rx'.recv_base) + b < Offset(tx'.next_seq)
    BY <2>1, <2>2, <2>3 DEF FlowInv
  <2>10. Offset(tx'.next_seq) <= MaxFrames
    BY <1>1, EnqueueSlots
  <2>11. \A f \in wire' : f.kind = "ack" =>
            /\ Offset(f.base) <= Offset(rx'.recv_base)
            /\ \A b \in f.bitmap : AcceptedAt(Offset(f.base) + b)'
    BY <2>1, <2>4 DEF FlowInv
  <2>12. FlowInv'
    BY <2>6, <2>7, <2>8, <2>9, <2>10, <2>11 DEF FlowInv, Offset, wrapping_sub
  <2> QED
    BY <1>0, <2>5, <2>12
<1>2. CASE TakeNewSends
  <2>1. FramesOf(tx, NewSends(tx)) \subseteq DataFrames
        /\ \A f \in FramesOf(tx, NewSends(tx)) : f.seq \in Assigned
    BY DEF FramesOf, NewSends, Unsent, TypeOK, TxTypeOK, Slots, FlowInv
  <2>2. \A f \in FramesOf(tx, NewSends(tx)) : f.kind = "data" /\ f.seq \in Assigned
    BY <2>1 DEF DataFrames
  <2> QED
    BY <1>0, <1>2, <2>2, SlotUpdateType, QuietStep DEF TakeNewSends, TypeOK
<1>3. CASE TakeRetransmits
  <2>1. FramesOf(tx, Retransmits(tx)) \subseteq DataFrames
        /\ \A f \in FramesOf(tx, Retransmits(tx)) : f.seq \in Assigned
    BY DEF FramesOf, Retransmits, Due, Sent, TypeOK, TxTypeOK, Slots, FlowInv
  <2>2. \A f \in FramesOf(tx, Retransmits(tx)) : f.kind = "data" /\ f.seq \in Assigned
    BY <2>1 DEF DataFrames
  <2> QED
    BY <1>0, <1>3, <2>2, SlotUpdateType, QuietStep DEF TakeRetransmits, TypeOK
<1>4. CASE GiveUp
  BY <1>0, <1>4, SlotUpdateType, QuietStep DEF GiveUp, TypeOK
<1>5. CASE IngestAck
  <2>1. PICK f \in wire : f.kind = "ack" /\ tx' = on_ack(tx, f.base, f.bitmap)
    BY <1>5 DEF IngestAck
  <2>2. /\ tx'.next_seq = tx.next_seq
        /\ DOMAIN tx'.unacked = {s \in DOMAIN tx.unacked : ~ acked(f.base, f.bitmap, s)}
        /\ \A s \in DOMAIN tx'.unacked : tx'.unacked[s] = tx.unacked[s]
    BY <2>1, OnAckType DEF TypeOK
  <2>3. rx' = rx /\ wire' = wire
    BY <1>5 DEF IngestAck
  <2>4. \A s : s \in Assigned' <=> s \in Assigned
    BY <2>2 DEF Assigned, Offset, wrapping_sub
  <2>5. \A s : AcceptedAt(s)' <=> AcceptedAt(s)
    BY <2>3 DEF AcceptedAt, Offset, wrapping_sub
  <2>6. \A s : Received(s)' <=> Received(s)
    BY <2>5 DEF Received, Offset, wrapping_sub
  <2>7. NoFalseAck'
    <3> SUFFICES ASSUME NEW s \in Assigned PROVE s \in DOMAIN tx'.unacked \/ Received(s)
      BY <2>4, <2>6 DEF NoFalseAck
    <3> QED
      BY <2>1, <2>2, AckedWasReceived DEF NoFalseAck
  <2>8. FlowInv'
    BY <2>2, <2>3, <2>4, <2>5 DEF FlowInv, Offset, wrapping_sub
  <2> QED
    BY <1>0, <2>7, <2>8
<1>6. CASE IngestData
  <2>1. PICK f \in wire : /\ f.kind = "data"
                          /\ rx' = [on_data(rx, f) EXCEPT !.pending_ack = TRUE]
                          /\ wire' = wire \cup {CurrentAck(rx')}
    BY <1>6 DEF IngestData
  <2>2. f \in DataFrames /\ f.seq \in Seqs /\ f.seq \in Assigned
    BY <2>1, WireKinds DEF TypeOK, DataFrames, FlowInv
  <2>3. tx' = tx
    BY <1>6 DEF IngestData
  <2>4. /\ rx'.recv_base = (IF Fresh(rx, f.seq) THEN mark_received(rx, f.seq) ELSE rx).recv_base
        /\ rx'.recv_bits = (IF Fresh(rx, f.seq) THEN mark_received(rx, f.seq) ELSE rx).recv_bits
    <3>1. rx'.recv_base = on_data(rx, f).recv_base /\ rx'.recv_bits = on_data(rx, f).recv_bits
      BY <2>1, <1>0 DEF TypeOK, RxTypeOK
    <3> QED
      BY <3>1, <2>2, OnDataWindow DEF TypeOK
  <2>5. /\ \A o \in Nat : AcceptedAt(o) => AcceptedAt(o)'
        /\ Offset(rx'.recv_base) >= Offset(rx.recv_base)
        /\ Offset(rx'.recv_base) <= Offset(tx.next_seq)
        /\ \A b \in rx'.recv_bits : Offset(rx'.recv_base) + b < Offset(tx.next_seq)
    <3>1. CASE Fresh(rx, f.seq)
      BY <3>1, <2>2, <2>4, MarkReceivedAccepts
    <3>2. CASE ~ Fresh(rx, f.seq)
      <4>1. rx'.recv_base = rx.recv_base /\ rx'.recv_bits = rx.recv_bits
        BY <3>2, <2>4
      <4>2. \A o : AcceptedAt(o) => AcceptedAt(o)'
        BY <4>1 DEF AcceptedAt, Offset, wrapping_sub
      <4>3. Offset(rx.recv_base) \in Nat
        BY OffsetSub DEF TypeOK, RxTypeOK, Seqs
      <4> QED
        BY <4>1, <4>2, <4>3 DEF FlowInv
    <3> QED
      BY <3>1, <3>2
  <2>6. \A s : s \in Assigned' <=> s \in Assigned
    BY <2>3 DEF Assigned, Offset, wrapping_sub
  <2>7. \A s \in Seqs : Offset(s) \in Nat
    BY OffsetSub DEF Seqs
  <2>8. rx.recv_base \in Seqs /\ rx'.recv_base \in Seqs
        /\ \A b \in rx'.recv_bits : b \in Nat
    BY <1>0, WidthsAssumption DEF TypeOK, RxTypeOK
  <2>9. NoFalseAck'
    <3>1. \A s \in Assigned : Received(s) => Received(s)'
      BY <2>5, <2>7 DEF Received, Assigned, Offset, wrapping_sub
    <3> QED
      BY <3>1, <2>3, <2>6 DEF NoFalseAck
  <2>10. ASSUME NEW g \in wire', g.kind = "ack"
         PROVE  /\ Offset(g.base) <= Offset(rx'.recv_base)
                /\ \A b \in g.bitmap : AcceptedAt(Offset(g.base) + b)'
    <3>1. CASE g \in wire
      <4>1. g.base \in Seqs /\ \A b \in g.bitmap : b \in Nat
        BY <3>1, <2>10, WireKinds, WidthsAssumption DEF TypeOK, AckFrames
      <4>2. /\ Offset(g.base) <= Offset(rx.recv_base)
            /\ \A b \in g.bitmap : AcceptedAt(Offset(g.base) + b)
        BY <3>1, <2>10 DEF FlowInv
      <4>3. Offset(g.base) \in Nat /\ Offset(rx.recv_base) \in Nat /\ Offset(rx'.recv_base) \in Nat
        BY <4>1, <2>7, <2>8
      <4>4. \A b \in g.bitmap : Offset(g.base) + b \in Nat
        BY <4>1, <4>3
      <4> QED
        BY <4>2, <4>3, <4>4, <2>5
    <3>2. CASE g = CurrentAck(rx')
      <4>1. g.base = rx'.recv_base /\ g.bitmap = rx'.recv_bits
        BY <3>2 DEF CurrentAck, encode_ack
      <4>2. Offset(rx'.recv_base) \in Nat
        BY <2>7, <2>8
      <4>3. ASSUME NEW b \in g.bitmap, NEW o, o = Offset(g.base) + b PROVE AcceptedAt(o)'
        <5>1. o - Offset(rx'.recv_base) = b
          BY <4>1, <4>2, <4>3, <2>8
        <5> QED
          BY <5>1, <4>1 DEF AcceptedAt, Offset, wrapping_sub
      <4>4. \A b \in g.bitmap : AcceptedAt(Offset(g.base) + b)'
        BY <4>3
      <4> QED
        BY <4>1, <4>2, <4>4
    <3> QED
      BY <3>1, <3>2, <2>1
  <2>11. \A g \in wire' : g.kind = "data" => g.seq \in Assigned'
    BY <2>1, <2>6 DEF FlowInv, CurrentAck, encode_ack
  <2>12. FlowInv'
    BY <2>3, <2>5, <2>6, <2>10, <2>11 DEF FlowInv, Offset, wrapping_sub
  <2> QED
    BY <1>0, <2>9, <2>12
<1>7. CASE TakeAck
  <2>1. rx'.recv_base = rx.recv_base /\ rx'.recv_bits = rx.recv_bits /\ tx' = tx
        /\ wire' = wire \cup {CurrentAck(rx)}
    BY <1>7 DEF TakeAck, TypeOK, RxTypeOK
  <2> QED
    BY <1>0, <2>1, QuietStep
<1>8. CASE PopDelivered
  <2>1. rx'.recv_base = rx.recv_base /\ rx'.recv_bits = rx.recv_bits /\ tx' = tx /\ wire' = wire
    BY <1>8 DEF PopDelivered, pop_delivered, TypeOK, RxTypeOK
  <2> QED
    BY <1>0, <2>1, QuietStep
<1>9. ASSUME NEW d \in RetxValues, SetRetx(d) PROVE NoFalseAckInv'
  <2>1. tx'.next_seq = tx.next_seq /\ tx'.unacked = tx.unacked /\ rx' = rx /\ wire' = wire
    BY <1>9, SetRetxType DEF SetRetx, TypeOK
  <2> QED
    BY <1>0, <2>1, QuietStep
<1>10. CASE Tick
  BY <1>0, <1>10, SlotUpdateType, QuietStep DEF Tick, TypeOK
<1>11. CASE UNCHANGED vars
  BY <1>0, <1>11, QuietStep DEF vars
<1> QED
  BY <1>1, <1>2, <1>3, <1>4, <1>5, <1>6, <1>7, <1>8, <1>9, <1>10, <1>11 DEF Next

\* The invariant holds of a fresh pair of endpoints.
LEMMA NoFalseAckInit == Init => NoFalseAckInv
<1> SUFFICES ASSUME Init PROVE NoFalseAckInv
  OBVIOUS
<1>1. TypeOK
  BY TypeInit
<1>2. /\ tx.next_seq = START /\ DOMAIN tx.unacked = {}
      /\ rx.recv_base = START /\ rx.recv_bits = {} /\ wire = {}
  BY DEF Init, NewTx, NewRx
<1>3. Offset(START) = 0
  BY InstanceAssumption, WidthsAssumption DEF Offset, wrapping_sub, Seqs
<1>4. Assigned = {}
  BY <1>2, <1>3, OffsetSub, InstanceAssumption DEF Assigned, Seqs
<1> QED
  BY <1>1, <1>2, <1>3, <1>4, InstanceAssumption DEF NoFalseAckInv, FlowInv, NoFalseAck

\* A frame leaves `unacked' only once the receiver has accepted it, whatever the
\* transport loses, repeats, reorders or delays, and also across the wrap of the
\* sequence space (on_ack, acked, mark_received in arq.rs).
THEOREM NoFalseAckHolds == Spec => []NoFalseAck
<1>1. NoFalseAckInv => NoFalseAck
  BY DEF NoFalseAckInv
<1> QED
  BY <1>1, NoFalseAckInit, NoFalseAckStep, PTL DEF Spec

-----------------------------------------------------------------------------
(***************************************************************************)
(* Giving up throws nothing away.                                          *)
(***************************************************************************)
AttemptInv == NoFalseAckInv /\ SentCounted /\ AttemptOrder

\* What AttemptOrder says of two slots.
Older(a, b) ==
    \/ a.attempts > b.attempts
    \/ a.attempts = b.attempts /\ a.age >= b.age

\* A sent slot, with the ranges its fields have.
LEMMA SlotRanges ==
    ASSUME TxTypeOK, NEW s \in DOMAIN tx.unacked
    PROVE  /\ s \in Int
           /\ tx.unacked[s].attempts \in Int
           /\ tx.unacked[s].attempts <= MAX_ATTEMPTS
           /\ tx.unacked[s].attempts >= 0
           /\ tx.unacked[s].age \in Int
           /\ s \in Sent(tx) <=> tx.unacked[s].age # Never
           /\ s \in Sent(tx) <=> tx.unacked[s].age >= 0
           /\ tx.unacked[s].age <= MAX_AGE
           /\ tx.retx \in Int /\ tx.retx >= 0
<1>1. tx.unacked[s] \in Slots /\ s \in Seqs /\ tx.retx \in Ages
  BY InstanceAssumption DEF TxTypeOK
<1> QED
  BY <1>1, WidthsAssumption DEF Slots, Ages, Never, Sent, Seqs

\* The order as a statement about pairs.
LEMMA AttemptOrderPairs ==
    AttemptOrder <=> \A s, t \in DOMAIN tx.unacked :
        s < t /\ t \in Sent(tx) => s \in Sent(tx) /\ Older(tx.unacked[s], tx.unacked[t])
  BY DEF AttemptOrder, Older

\* take_new_sends fills the window from the oldest unsent frame on.
LEMMA NewSendsOrdered ==
    ASSUME TxTypeOK, NEW s \in Unsent(tx), NEW t \in NewSends(tx), s < t
    PROVE  s \in NewSends(tx)
<1> DEFINE A == {u \in Unsent(tx) : u < s}
           B == {u \in Unsent(tx) : u < t}
<1>1. DOMAIN tx.unacked \subseteq 0 .. (SEQ_MOD - 1)
  BY DEF TxTypeOK, Seqs
<1>2. IsFiniteSet(0 .. (SEQ_MOD - 1))
  BY FS_Interval, WidthsAssumption
<1>3. IsFiniteSet(B)
  <2>1. B \subseteq 0 .. (SEQ_MOD - 1)
    BY <1>1 DEF Unsent
  <2> QED
    BY <2>1, <1>2, FS_Subset
<1>4. A \subseteq B
  <2>1. \A u \in Unsent(tx) : u \in Int
    BY <1>1 DEF Unsent
  <2>2. t \in Unsent(tx)
    BY DEF NewSends
  <2> QED
    BY <2>1, <2>2
<1>5. Cardinality(A) <= Cardinality(B) /\ Cardinality(A) \in Nat /\ Cardinality(B) \in Nat
  BY <1>3, <1>4, FS_Subset, FS_CardinalityType
<1>6. in_flight_sent(tx) \in Nat
  <2>1. Sent(tx) \subseteq 0 .. (SEQ_MOD - 1)
    BY <1>1 DEF Sent
  <2> QED
    BY <2>1, <1>2, FS_Subset, FS_CardinalityType DEF in_flight_sent
<1>7. in_flight_sent(tx) + Cardinality(B) < WINDOW_SIZE
  BY DEF NewSends
<1>8. in_flight_sent(tx) + Cardinality(A) < WINDOW_SIZE
  <2> HIDE DEF A, B
  <2> QED
    BY <1>5, <1>6, <1>7, WidthsAssumption
<1> QED
  BY <1>8 DEF NewSends
\* Sending new frames keeps the order: the newly sent are younger than all that
\* were sent before and have been sent once, just now.
LEMMA NewSendsAttempts ==
    ASSUME TxTypeOK, SentCounted, AttemptOrder, tx' = take_new_sends(tx)
    PROVE  SentCounted' /\ AttemptOrder'
<1> DEFINE N == NewSends(tx)
<1>1. DOMAIN tx'.unacked = DOMAIN tx.unacked /\ TxTypeOK'
  BY SlotUpdateType
<1>2. \A s \in DOMAIN tx.unacked :
        tx'.unacked[s] = IF s \in N THEN [tx.unacked[s] EXCEPT !.age = 0, !.attempts = 1] ELSE tx.unacked[s]
  BY DEF take_new_sends, TxTypeOK
<1>3. \A s \in N : s \in DOMAIN tx.unacked /\ s \in Unsent(tx) /\ s \notin Sent(tx)
  BY DEF NewSends, Unsent
<1>4. \A s \in N : tx'.unacked[s].age = 0 /\ tx'.unacked[s].attempts = 1
  BY <1>2, <1>3 DEF TxTypeOK, Slots
<1>5. \A s \in DOMAIN tx.unacked : s \notin N => tx'.unacked[s] = tx.unacked[s]
  BY <1>2
<1>6. \A s \in DOMAIN tx.unacked : s \in Sent(tx') <=> s \in Sent(tx) \/ s \in N
  BY <1>1, <1>3, <1>4, <1>5 DEF Sent, Never
<1> HIDE DEF N
<1>7. SentCounted'
  <2> SUFFICES ASSUME NEW s \in DOMAIN tx.unacked
               PROVE  s \in Sent(tx') <=> tx'.unacked[s].attempts >= 1
    BY <1>1 DEF SentCounted, Sent, Never
  <2>1. CASE s \in N
    BY <2>1, <1>4, <1>6
  <2>2. CASE s \notin N
    BY <2>2, <1>5, <1>6 DEF SentCounted
  <2> QED
    BY <2>1, <2>2
<1>8. AttemptOrder'
  <2> SUFFICES ASSUME NEW s \in DOMAIN tx.unacked, NEW t \in DOMAIN tx.unacked, s < t, t \in Sent(tx')
               PROVE  s \in Sent(tx') /\ Older(tx'.unacked[s], tx'.unacked[t])
    BY <1>1 DEF AttemptOrder, Sent, Never, Older
  <2>1. CASE t \in Sent(tx)
    <3>1. s \in Sent(tx) /\ Older(tx.unacked[s], tx.unacked[t])
      BY <2>1, AttemptOrderPairs
    <3> QED
      BY <3>1, <2>1, <1>3, <1>5, <1>6
  <2>2. CASE t \in N
    <3>1. CASE s \in Sent(tx)
      <4>1. tx'.unacked[s] = tx.unacked[s]
        BY <3>1, <1>3, <1>5
      <4>2. tx.unacked[s].attempts >= 1 /\ tx.unacked[s].age >= 0
            /\ tx.unacked[s].attempts \in Int
        BY <3>1, SlotRanges DEF SentCounted
      <4> QED
        BY <4>1, <4>2, <2>2, <3>1, <1>4, <1>6 DEF Older
    <3>2. CASE s \notin Sent(tx)
      <4>1. s \in N
        BY <3>2, <2>2, NewSendsOrdered DEF Unsent, N
      <4> QED
        BY <4>1, <2>2, <1>4, <1>6 DEF Older
    <3> QED
      BY <3>1, <3>2
  <2> QED
    BY <2>1, <2>2, <1>6
<1> QED
  BY <1>7, <1>8

\* Retransmitting keeps the order: a younger frame that is due while an older
\* one is not must be behind the older one in attempts.
LEMMA RetransmitsAttempts ==
    ASSUME TxTypeOK, SentCounted, AttemptOrder, tx' = take_retransmits(tx)
    PROVE  SentCounted' /\ AttemptOrder'
<1> DEFINE R == Retransmits(tx)
<1>1. DOMAIN tx'.unacked = DOMAIN tx.unacked /\ TxTypeOK'
  BY SlotUpdateType
<1>2. \A s \in DOMAIN tx.unacked :
        tx'.unacked[s] = IF s \in R
                         THEN [tx.unacked[s] EXCEPT !.age = 0, !.attempts = tx.unacked[s].attempts + 1]
                         ELSE tx.unacked[s]
  BY DEF take_retransmits, TxTypeOK
<1>3. \A s \in R : s \in DOMAIN tx.unacked /\ s \in Sent(tx) /\ tx.unacked[s].age >= tx.retx
  BY DEF Retransmits, Due, Sent
<1>4. \A s \in R : tx'.unacked[s].age = 0 /\ tx'.unacked[s].attempts = tx.unacked[s].attempts + 1
  BY <1>2, <1>3 DEF TxTypeOK, Slots
<1>5. \A s \in DOMAIN tx.unacked : s \notin R => tx'.unacked[s] = tx.unacked[s]
  BY <1>2
<1>6. \A s \in DOMAIN tx.unacked : s \in Sent(tx') <=> s \in Sent(tx)
  BY <1>1, <1>3, <1>4, <1>5 DEF Sent, Never
<1>7. ASSUME NEW s \in Sent(tx), NEW t \in R, s \notin R, s < t
      PROVE  tx.unacked[s].age < tx.retx
  <2>1. s \in DOMAIN tx.unacked /\ t \in DOMAIN tx.unacked
    BY <1>3 DEF Sent
  <2>2. s \notin Due(tx)
    <3> SUFFICES ASSUME s \in Due(tx) PROVE FALSE
      OBVIOUS
    <3>1. PICK u \in Exhausted(tx) : ~ (s < u)
      BY <1>7 DEF Retransmits
    <3>2. t < u
      BY <3>1 DEF Retransmits
    <3>3. u \in DOMAIN tx.unacked
      BY <3>1 DEF Exhausted, Due, Sent
    <3>4. s \in Int /\ t \in Int /\ u \in Int
      BY <2>1, <3>3, SlotRanges
    <3> HIDE DEF R
    <3> QED
      BY <1>7, <3>1, <3>2, <3>4
  <2>3. tx.unacked[s].age \in Int /\ tx.retx \in Int
    BY <2>1, SlotRanges
  <2> QED
    BY <2>2, <2>3 DEF Due
<1> HIDE DEF R
<1>8. SentCounted'
  <2> SUFFICES ASSUME NEW s \in DOMAIN tx.unacked
               PROVE  s \in Sent(tx') <=> tx'.unacked[s].attempts >= 1
    BY <1>1 DEF SentCounted, Sent, Never
  <2>1. CASE s \in R
    BY <2>1, <1>3, <1>4, <1>6, SlotRanges
  <2>2. CASE s \notin R
    BY <2>2, <1>5, <1>6 DEF SentCounted
  <2> QED
    BY <2>1, <2>2
<1>9. AttemptOrder'
  <2> SUFFICES ASSUME NEW s \in DOMAIN tx.unacked, NEW t \in DOMAIN tx.unacked, s < t, t \in Sent(tx')
               PROVE  s \in Sent(tx') /\ Older(tx'.unacked[s], tx'.unacked[t])
    BY <1>1 DEF AttemptOrder, Sent, Never, Older
  <2>1. s \in Sent(tx) /\ t \in Sent(tx) /\ Older(tx.unacked[s], tx.unacked[t])
    BY <1>6, AttemptOrderPairs
  <2>2. /\ tx.unacked[s].attempts \in Int /\ tx.unacked[t].attempts \in Int
        /\ tx.unacked[s].age \in Int /\ tx.unacked[t].age \in Int
        /\ tx.unacked[s].age >= 0 /\ tx.retx \in Int
    BY <2>1, SlotRanges
  <2>3. CASE s \in R
    BY <2>1, <2>2, <2>3, <1>4, <1>5, <1>6 DEF Older
  <2>4. CASE s \notin R /\ t \in R
    <3>1. tx.unacked[s].age < tx.unacked[t].age
      <4>1. tx.unacked[s].age < tx.retx /\ tx.unacked[t].age >= tx.retx
        BY <2>1, <2>4, <1>3, <1>7
      <4> QED
        BY <4>1, <2>2
    <3>2. tx.unacked[s].attempts >= tx.unacked[t].attempts + 1
      BY <2>1, <2>2, <3>1 DEF Older
    <3> QED
      BY <2>1, <2>2, <2>4, <3>2, <1>4, <1>5, <1>6 DEF Older
  <2>5. CASE s \notin R /\ t \notin R
    BY <2>1, <2>5, <1>5, <1>6
  <2> QED
    BY <2>3, <2>4, <2>5
<1> QED
  BY <1>8, <1>9

\* Time passes for all frames alike, up to the cap.
LEMMA ElapseAttempts ==
    ASSUME TxTypeOK, SentCounted, AttemptOrder, tx' = Elapse(tx)
    PROVE  SentCounted' /\ AttemptOrder'
<1>1. DOMAIN tx'.unacked = DOMAIN tx.unacked
  BY SlotUpdateType
<1>2. \A s \in DOMAIN tx.unacked :
        /\ tx'.unacked[s].attempts = tx.unacked[s].attempts
        /\ tx'.unacked[s].age = IF s \in Sent(tx) /\ tx.unacked[s].age < MAX_AGE
                                THEN tx.unacked[s].age + 1 ELSE tx.unacked[s].age
  BY DEF Elapse, TxTypeOK, Slots
<1>3. \A s \in DOMAIN tx.unacked : s \in Sent(tx') <=> s \in Sent(tx)
  <2> SUFFICES ASSUME NEW s \in DOMAIN tx.unacked PROVE tx'.unacked[s].age # Never <=> tx.unacked[s].age # Never
    BY <1>1 DEF Sent
  <2> QED
    BY <1>2, SlotRanges DEF Never
<1>4. SentCounted'
  <2> SUFFICES ASSUME NEW s \in DOMAIN tx.unacked
               PROVE  s \in Sent(tx') <=> tx'.unacked[s].attempts >= 1
    BY <1>1 DEF SentCounted, Sent, Never
  <2> QED
    BY <1>2, <1>3 DEF SentCounted
<1>5. AttemptOrder'
  <2> SUFFICES ASSUME NEW s \in DOMAIN tx.unacked, NEW t \in DOMAIN tx.unacked, s < t, t \in Sent(tx')
               PROVE  s \in Sent(tx') /\ Older(tx'.unacked[s], tx'.unacked[t])
    BY <1>1 DEF AttemptOrder, Sent, Never, Older
  <2>1. s \in Sent(tx) /\ t \in Sent(tx) /\ Older(tx.unacked[s], tx.unacked[t])
    BY <1>3, AttemptOrderPairs
  <2>2. /\ tx.unacked[s].age \in Int /\ tx.unacked[t].age \in Int
        /\ tx.unacked[s].age <= MAX_AGE /\ tx.unacked[t].age <= MAX_AGE
    BY SlotRanges
  <2> QED
    BY <2>1, <2>2, <1>2, <1>3, WidthsAssumption DEF Older
<1> QED
  BY <1>4, <1>5
\* Before the wrap, offsets and sequence numbers are in the same order.
LEMMA NoWrapOrder ==
    ASSUME NoWrap, NEW s \in Seqs, NEW t \in Seqs,
           Offset(s) < Offset(t), Offset(t) <= MaxFrames
    PROVE  s < t
  BY WidthsAssumption, InstanceAssumption DEF NoWrap, Offset, wrapping_sub, Seqs

\* Frames queued later are younger than all that are outstanding.
LEMMA EnqueueAttempts ==
    ASSUME NoWrap, AttemptInv, NEW n \in Sizes, Enqueue(n)
    PROVE  SentCounted' /\ AttemptOrder'
<1> USE DEF AttemptInv, NoFalseAckInv
<1>1. /\ Offset(tx'.next_seq) <= MaxFrames
      /\ \A s \in DOMAIN tx'.unacked :
            \/ s \in DOMAIN tx.unacked /\ tx'.unacked[s] = tx.unacked[s]
            \/ s \in Assigned' /\ s \notin Assigned /\ tx'.unacked[s].age = Never
      /\ \A s \in DOMAIN tx.unacked : s \in DOMAIN tx'.unacked /\ tx'.unacked[s] = tx.unacked[s]
  BY EnqueueSlots
<1>2. \A s \in DOMAIN tx'.unacked : tx'.unacked[s].age = Never => tx'.unacked[s].attempts = 0
  <2> SUFFICES ASSUME NEW s \in DOMAIN tx'.unacked, tx'.unacked[s].age = Never
               PROVE  tx'.unacked[s].attempts = 0
    OBVIOUS
  <2>1. \/ s \in DOMAIN tx.unacked /\ tx'.unacked[s] = tx.unacked[s]
        \/ tx'.unacked[s].attempts = 0
    BY DEF Enqueue, enqueue, TypeOK, TxTypeOK
  <2>2. CASE s \in DOMAIN tx.unacked /\ tx'.unacked[s] = tx.unacked[s]
    BY <2>2, SlotRanges DEF SentCounted, TypeOK
  <2> QED
    BY <2>1, <2>2
<1>3. \A s \in DOMAIN tx'.unacked : s \in Sent(tx') => s \in DOMAIN tx.unacked /\ s \in Sent(tx)
  BY <1>1 DEF Sent
<1>4. \A s \in Sent(tx) : s \in Sent(tx') /\ s \in DOMAIN tx.unacked
  BY <1>1 DEF Sent
<1>5. SentCounted'
  <2> SUFFICES ASSUME NEW s \in DOMAIN tx'.unacked
               PROVE  s \in Sent(tx') <=> tx'.unacked[s].attempts >= 1
    BY DEF SentCounted, Sent, Never
  <2>1. CASE s \in Sent(tx')
    BY <2>1, <1>1, <1>3 DEF SentCounted
  <2>2. CASE s \notin Sent(tx')
    BY <2>2, <1>2 DEF Sent
  <2> QED
    BY <2>1, <2>2
<1>6. AttemptOrder'
  <2> SUFFICES ASSUME NEW s \in DOMAIN tx'.unacked, NEW t \in DOMAIN tx'.unacked, s < t, t \in Sent(tx')
               PROVE  s \in Sent(tx') /\ Older(tx'.unacked[s], tx'.unacked[t])
    BY DEF AttemptOrder, Sent, Never, Older
  <2>1. t \in DOMAIN tx.unacked /\ t \in Sent(tx) /\ tx'.unacked[t] = tx.unacked[t]
    BY <1>1, <1>3
  <2>2. s \in DOMAIN tx.unacked
    <3> SUFFICES ASSUME s \notin DOMAIN tx.unacked PROVE FALSE
      OBVIOUS
    <3>1. s \in Assigned' /\ s \notin Assigned
      BY <1>1
    <3>2. t \in Assigned
      BY <2>1 DEF FlowInv
    <3>3. s \in Seqs /\ t \in Seqs
      BY <3>1, <3>2 DEF Assigned
    <3>4. Offset(s) \in Nat /\ Offset(t) \in Nat /\ Offset(tx.next_seq) \in Nat /\ Offset(tx'.next_seq) \in Nat
      <4>1. tx.next_seq \in Seqs /\ tx'.next_seq \in Seqs
        BY TypeStep DEF TypeOK, TxTypeOK, Next
      <4> QED
        BY <4>1, <3>3, OffsetSub DEF Seqs
    <3>5. /\ Offset(t) < Offset(tx.next_seq) /\ ~ (Offset(s) < Offset(tx.next_seq))
          /\ Offset(s) < Offset(tx'.next_seq)
      BY <3>1, <3>2, <3>3 DEF Assigned, Offset, wrapping_sub
    <3>6. t < s
      <4>1. Offset(t) < Offset(s) /\ Offset(s) <= MaxFrames
        BY <3>4, <3>5, <1>1, InstanceAssumption
      <4> QED
        BY <4>1, <3>3, NoWrapOrder
    <3> QED
      BY <3>3, <3>6 DEF Seqs
  <2>3. s \in Sent(tx) /\ Older(tx.unacked[s], tx.unacked[t]) /\ tx'.unacked[s] = tx.unacked[s]
    BY <2>1, <2>2, <1>1, AttemptOrderPairs
  <2> QED
    BY <2>1, <2>3, <1>4
<1> QED
  BY <1>5, <1>6

\* Every step preserves the order.
LEMMA AttemptStep ==
    ASSUME NoWrap
    PROVE  AttemptInv /\ [Next]_vars => AttemptInv'
<1> SUFFICES ASSUME AttemptInv, [Next]_vars PROVE SentCounted' /\ AttemptOrder'
  BY NoFalseAckStep DEF AttemptInv
<1> USE DEF AttemptInv, NoFalseAckInv
<1>0. ASSUME tx'.unacked = tx.unacked PROVE SentCounted' /\ AttemptOrder'
  BY <1>0 DEF SentCounted, AttemptOrder, Sent
<1>1. ASSUME NEW n \in Sizes, Enqueue(n) PROVE SentCounted' /\ AttemptOrder'
  BY <1>1, EnqueueAttempts
<1>2. CASE TakeNewSends
  BY <1>2, NewSendsAttempts DEF TakeNewSends, TypeOK
<1>3. CASE TakeRetransmits
  BY <1>3, RetransmitsAttempts DEF TakeRetransmits, TypeOK
<1>4. CASE GiveUp
  BY <1>4, RetransmitsAttempts DEF GiveUp, TypeOK
<1>5. CASE IngestAck
  <2>1. PICK f \in wire : tx' = on_ack(tx, f.base, f.bitmap)
    BY <1>5 DEF IngestAck
  <2>2. /\ DOMAIN tx'.unacked \subseteq DOMAIN tx.unacked
        /\ \A s \in DOMAIN tx'.unacked : tx'.unacked[s] = tx.unacked[s]
    BY <2>1, OnAckType DEF TypeOK
  <2>3. \A s \in DOMAIN tx'.unacked : s \in Sent(tx') <=> s \in Sent(tx)
    BY <2>2 DEF Sent
  <2>4. SentCounted'
    <3> SUFFICES ASSUME NEW s \in DOMAIN tx'.unacked
                 PROVE  s \in Sent(tx') <=> tx'.unacked[s].attempts >= 1
      BY DEF SentCounted, Sent, Never
    <3> QED
      BY <2>2, <2>3 DEF SentCounted
  <2>5. AttemptOrder'
    <3> SUFFICES ASSUME NEW s \in DOMAIN tx'.unacked, NEW t \in DOMAIN tx'.unacked, s < t, t \in Sent(tx')
                 PROVE  s \in Sent(tx') /\ Older(tx'.unacked[s], tx'.unacked[t])
      BY DEF AttemptOrder, Sent, Never, Older
    <3> QED
      BY <2>2, <2>3, AttemptOrderPairs
  <2> QED
    BY <2>4, <2>5
<1>6. CASE IngestData
  BY <1>0, <1>6 DEF IngestData
<1>7. CASE TakeAck
  BY <1>0, <1>7 DEF TakeAck
<1>8. CASE PopDelivered
  BY <1>0, <1>8 DEF PopDelivered
<1>9. ASSUME NEW d \in RetxValues, SetRetx(d) PROVE SentCounted' /\ AttemptOrder'
  BY <1>0, <1>9, SetRetxType DEF SetRetx, TypeOK
<1>10. CASE Tick
  BY <1>10, ElapseAttempts DEF Tick, TypeOK
<1>11. CASE UNCHANGED vars
  BY <1>0, <1>11 DEF vars
<1> QED
  BY <1>1, <1>2, <1>3, <1>4, <1>5, <1>6, <1>7, <1>8, <1>9, <1>10, <1>11 DEF Next

\* The order makes a give-up harmless: what take_retransmits would have counted
\* before it returns ArqGiveUp would itself be exhausted.
LEMMA OrderMeansNothingDiscarded ==
    ASSUME TypeOK, AttemptOrder PROVE GiveUpDiscardsNothing
<1> SUFFICES ASSUME NEW g \in Exhausted(tx), \A t \in Exhausted(tx) : g <= t
             PROVE  Retransmits(tx) = {} /\ \A s \in DOMAIN tx.unacked : g <= s
  BY DEF GiveUpDiscardsNothing
<1>1. /\ g \in DOMAIN tx.unacked /\ g \in Sent(tx)
      /\ tx.unacked[g].age >= tx.retx /\ tx.unacked[g].attempts >= MAX_ATTEMPTS
  BY DEF Exhausted, Due, Sent
<1>2. ASSUME NEW s \in DOMAIN tx.unacked, s < g PROVE FALSE
  <2>1. s \in Sent(tx) /\ Older(tx.unacked[s], tx.unacked[g])
    BY <1>1, <1>2, AttemptOrderPairs
  <2>2. /\ s \in Int /\ g \in Int /\ tx.retx \in Int
        /\ tx.unacked[s].attempts \in Int /\ tx.unacked[g].attempts \in Int
        /\ tx.unacked[s].attempts <= MAX_ATTEMPTS
        /\ tx.unacked[s].age \in Int /\ tx.unacked[g].age \in Int
    BY <1>1, SlotRanges DEF TypeOK
  <2>3. tx.unacked[s].attempts >= MAX_ATTEMPTS /\ tx.unacked[s].age >= tx.retx
    BY <1>1, <2>1, <2>2, WidthsAssumption DEF Older
  <2>4. s \in Exhausted(tx)
    BY <2>1, <2>3 DEF Exhausted, Due
  <2> QED
    BY <2>2, <2>4, <1>2
<1>3. \A s \in DOMAIN tx.unacked : s \in Int
  BY SlotRanges DEF TypeOK
<1>4. \A s \in DOMAIN tx.unacked : g <= s
  BY <1>1, <1>2, <1>3
<1>5. Retransmits(tx) = {}
  <2> SUFFICES ASSUME NEW s \in Retransmits(tx) PROVE FALSE
    OBVIOUS
  <2>1. s \in DOMAIN tx.unacked /\ s < g
    BY DEF Retransmits, Due, Sent
  <2> QED
    BY <2>1, <1>2
<1> QED
  BY <1>4, <1>5

\* Until the sequence space wraps, frames are retransmitted in the order of
\* their numbers, and a give-up names the oldest outstanding frame and discards
\* no retransmission already counted (take_retransmits, arq.rs).
THEOREM GiveUpHarmless ==
    ASSUME NoWrap
    PROVE  Spec => [](AttemptOrder /\ GiveUpDiscardsNothing)
<1>1. Init => SentCounted /\ AttemptOrder
  BY DEF Init, NewTx, SentCounted, AttemptOrder
<1>2. Init => NoFalseAckInv
  BY NoFalseAckInit
<1>3. Init => AttemptInv
  BY <1>1, <1>2 DEF AttemptInv
<1>4. AttemptInv => AttemptOrder /\ GiveUpDiscardsNothing
  BY OrderMeansNothingDiscarded DEF AttemptInv, NoFalseAckInv
<1>5. AttemptInv /\ [Next]_vars => AttemptInv'
  BY AttemptStep
<1> QED
  BY <1>3, <1>4, <1>5, PTL DEF Spec

-----------------------------------------------------------------------------
(***************************************************************************)
(* Proofs about the two windows of Arq: the send window, which counts      *)
(* frames, and the receive window, which spans numbers.  Between them they *)
(* keep an outstanding frame close enough to the receive base for the      *)
(* "behind" rule of acked to reach it.  The receive window also keeps      *)
(* messages with the same fragment id apart, so that what is delivered is  *)
(* what was queued.                                                        *)
(***************************************************************************)

\* The "behind" rule reaches over both windows: 1,000,000 against 32 + 64.
BehindReaches == ACK_BEHIND >= WINDOW_SIZE + RECV_WINDOW

\* The send window holds.
SendWindow == Cardinality(Sent(tx)) <= WINDOW_SIZE

\* Whatever the receive half accepted, or the transport has, was sent.
UnsentUnknown ==
    /\ \A s \in Unsent(tx) : ~ Received(s)
    /\ \A f \in wire : f.kind = "data" => f.seq \notin Unsent(tx)

\* No frame is retired a receive window or more after one that is outstanding.
RetiredSpan ==
    \A s \in DOMAIN tx.unacked, t \in Assigned \ DOMAIN tx.unacked :
        Offset(t) < Offset(s) + RECV_WINDOW

WindowInv == NoFalseAckInv /\ SendWindow /\ UnsentUnknown /\ RetiredSpan

-----------------------------------------------------------------------------
(***************************************************************************)
(* The sets take_new_sends and take_retransmits work with.                 *)
(***************************************************************************)

\* `unacked' is finite, and so are the parts of it.
LEMMA SlotsFinite ==
    ASSUME TxTypeOK
    PROVE  /\ IsFiniteSet(DOMAIN tx.unacked) /\ IsFiniteSet(Sent(tx)) /\ IsFiniteSet(Unsent(tx))
           /\ \A s \in DOMAIN tx.unacked : s \in 0 .. (SEQ_MOD - 1)
<1>1. DOMAIN tx.unacked \subseteq 0 .. (SEQ_MOD - 1)
  BY DEF TxTypeOK, Seqs
<1>2. IsFiniteSet(DOMAIN tx.unacked)
  <2>1. IsFiniteSet(0 .. (SEQ_MOD - 1))
    BY FS_Interval, WidthsAssumption
  <2> QED
    BY <1>1, <2>1, FS_Subset
<1>3. Sent(tx) \subseteq DOMAIN tx.unacked /\ Unsent(tx) \subseteq DOMAIN tx.unacked
  BY DEF Sent, Unsent
<1> QED
  BY <1>1, <1>2, <1>3, FS_Subset

\* A retransmission, a failed one and the clock leave sent what was sent.
LEMMA SentKept ==
    ASSUME TxTypeOK, tx' = take_retransmits(tx) \/ tx' = Elapse(tx)
    PROVE  Sent(tx') = Sent(tx) /\ Unsent(tx') = Unsent(tx)
<1>1. DOMAIN tx'.unacked = DOMAIN tx.unacked
  BY SlotUpdateType
<1>2. ASSUME NEW s \in DOMAIN tx.unacked
      PROVE  tx'.unacked[s].age = Never <=> tx.unacked[s].age = Never
  <2>1. /\ tx.unacked[s].age \in Int
        /\ s \in Sent(tx) <=> tx.unacked[s].age >= 0
        /\ tx.unacked[s] \in Slots
    BY <1>2, SlotRanges DEF TxTypeOK
  <2>2. CASE tx' = take_retransmits(tx)
    <3>1. tx'.unacked[s] = IF s \in Retransmits(tx)
                           THEN [tx.unacked[s] EXCEPT !.age = 0, !.attempts = @ + 1]
                           ELSE tx.unacked[s]
      BY <2>2 DEF take_retransmits, TxTypeOK
    <3>2. s \in Retransmits(tx) => s \in Sent(tx)
      BY DEF Retransmits, Due
    <3> QED
      BY <2>1, <3>1, <3>2 DEF Never, Sent, Slots
  <2>3. CASE tx' = Elapse(tx)
    <3>1. tx'.unacked[s] = IF s \in Sent(tx) /\ tx.unacked[s].age < MAX_AGE
                           THEN [tx.unacked[s] EXCEPT !.age = @ + 1]
                           ELSE tx.unacked[s]
      BY <2>3 DEF Elapse, TxTypeOK
    <3> QED
      BY <2>1, <3>1 DEF Never, Sent, Slots
  <2> QED
    BY <2>2, <2>3
<1> QED
  BY <1>1, <1>2 DEF Sent, Unsent

\* take_new_sends marks as sent what it returns.
LEMMA NewSendsSent ==
    ASSUME TxTypeOK, tx' = take_new_sends(tx)
    PROVE  Sent(tx') = Sent(tx) \cup NewSends(tx) /\ Unsent(tx') = Unsent(tx) \ NewSends(tx)
<1>1. DOMAIN tx'.unacked = DOMAIN tx.unacked
  BY SlotUpdateType
<1>2. ASSUME NEW s \in DOMAIN tx.unacked
      PROVE  tx'.unacked[s].age # Never <=> tx.unacked[s].age # Never \/ s \in NewSends(tx)
  <2>1. tx.unacked[s] \in Slots
    BY <1>2 DEF TxTypeOK
  <2>2. tx'.unacked[s] = IF s \in NewSends(tx)
                         THEN [tx.unacked[s] EXCEPT !.age = 0, !.attempts = 1]
                         ELSE tx.unacked[s]
    BY DEF take_new_sends, TxTypeOK
  <2> QED
    BY <2>1, <2>2 DEF Never, Slots
<1>3. NewSends(tx) \subseteq DOMAIN tx.unacked
  BY DEF NewSends, Unsent
<1> QED
  BY <1>1, <1>2, <1>3 DEF Sent, Unsent

\* A set of numbers below a bound that is not empty has a largest one.
LEMMA LargestExists ==
    ASSUME NEW n \in Nat, NEW S \in SUBSET (0 .. n), S # {}
    PROVE  \E m \in S : \A s \in S : s <= m
<1> DEFINE T == {n - s : s \in S}
<1>1. T \subseteq Nat /\ T # {}
  OBVIOUS
<1>2. PICK k \in T : \A j \in T : ~ (<<j, k>> \in OpToRel(<, Nat))
  BY <1>1, WFMin, NatLessThanWellFounded
<1>3. \A i, j \in Nat : i < j => <<i, j>> \in OpToRel(<, Nat)
  BY Zenon DEF OpToRel
<1>4. \A j \in T : ~ (j < k)
  BY <1>1, <1>2, <1>3
<1>5. PICK m \in S : k = n - m
  BY DEF T
<1>6. ASSUME NEW s \in S PROVE s <= m
  <2>1. ~ (n - s < n - m)
    BY <1>4, <1>5, <1>6
  <2> QED
    BY <2>1
<1> QED
  BY <1>6

\* What take_new_sends returns fits into the window.
LEMMA NewSendsFit ==
    ASSUME TxTypeOK, SendWindow
    PROVE  Cardinality(Sent(tx) \cup NewSends(tx)) <= WINDOW_SIZE
<1>1. IsFiniteSet(Sent(tx)) /\ IsFiniteSet(Unsent(tx)) /\ IsFiniteSet(NewSends(tx))
  <2>1. NewSends(tx) \subseteq Unsent(tx)
    BY DEF NewSends
  <2> QED
    BY <2>1, SlotsFinite, FS_Subset
<1>2. CASE NewSends(tx) = {}
  <2>1. Sent(tx) \cup NewSends(tx) = Sent(tx)
    BY <1>2
  <2> QED
    BY <2>1 DEF SendWindow
<1>3. CASE NewSends(tx) # {}
  <2>1. NewSends(tx) \subseteq 0 .. (SEQ_MOD - 1)
    BY SlotsFinite DEF NewSends, Unsent
  <2>2. PICK m \in NewSends(tx) : \A s \in NewSends(tx) : s <= m
    <3>1. SEQ_MOD - 1 \in Nat
      BY WidthsAssumption
    <3> QED
      BY <1>3, <2>1, <3>1, LargestExists
  <2> DEFINE B == {t \in Unsent(tx) : t < m}
  <2>3. Cardinality(Sent(tx)) + Cardinality(B) < WINDOW_SIZE
    BY DEF NewSends, in_flight_sent
  <2>4. NewSends(tx) \subseteq B \cup {m}
    <3>1. NewSends(tx) \subseteq Unsent(tx)
      BY DEF NewSends
    <3> QED
      BY <2>1, <2>2, <3>1
  <2>5. IsFiniteSet(B) /\ B \subseteq Unsent(tx)
    <3>1. B \subseteq Unsent(tx)
      OBVIOUS
    <3> HIDE DEF B
    <3> QED
      BY <1>1, <3>1, FS_Subset
  <2>6. m \notin B /\ IsFiniteSet(B \cup {m}) /\ Cardinality(B \cup {m}) = Cardinality(B) + 1
    <3>1. m \notin B
      BY <2>1
    <3> QED
      BY <3>1, <2>5, FS_AddElement
  <2>7. Cardinality(NewSends(tx)) <= Cardinality(B) + 1
    BY <2>4, <2>6, FS_Subset
  <2>8. Sent(tx) \cap NewSends(tx) = {}
    BY DEF NewSends, Unsent
  <2>9. Cardinality(Sent(tx) \cup NewSends(tx)) = Cardinality(Sent(tx)) + Cardinality(NewSends(tx))
    <3>1. Cardinality(Sent(tx) \cup NewSends(tx)) =
            Cardinality(Sent(tx)) + Cardinality(NewSends(tx)) - Cardinality(Sent(tx) \cap NewSends(tx))
      BY <1>1, FS_Union
    <3>2. Cardinality(Sent(tx) \cap NewSends(tx)) = 0
      BY <2>8, FS_EmptySet
    <3> QED
      BY <1>1, <3>1, <3>2, FS_CardinalityType
  <2>10. /\ Cardinality(Sent(tx)) \in Nat /\ Cardinality(NewSends(tx)) \in Nat
         /\ Cardinality(B) \in Nat
    BY <1>1, <2>5, FS_CardinalityType
  <2> HIDE DEF B
  <2> QED
    BY <2>3, <2>7, <2>9, <2>10, WidthsAssumption
<1> QED
  BY <1>2, <1>3

-----------------------------------------------------------------------------
(***************************************************************************)
(* The span of what is outstanding.                                        *)
(***************************************************************************)

\* Numbers and offsets of what the invariant speaks of.
LEMMA OffsetRanges ==
    ASSUME TypeOK
    PROVE  /\ rx.recv_base \in Seqs /\ tx.next_seq \in Seqs /\ DOMAIN tx.unacked \subseteq Seqs
           /\ rx.recv_bits \subseteq 0 .. (RECV_WINDOW - 1)
           /\ Offset(rx.recv_base) \in Nat /\ Offset(tx.next_seq) \in Nat
           /\ \A s \in Seqs : Offset(s) \in Nat /\ Offset(s) < SEQ_MOD
<1>1. /\ rx.recv_base \in Seqs /\ tx.next_seq \in Seqs /\ DOMAIN tx.unacked \subseteq Seqs
      /\ rx.recv_bits \subseteq 0 .. (RECV_WINDOW - 1)
  BY DEF TypeOK, TxTypeOK, RxTypeOK
<1>2. \A s \in Seqs : Offset(s) \in Nat /\ Offset(s) < SEQ_MOD
  BY OffsetSub, WidthsAssumption DEF Seqs
<1> QED
  BY <1>1, <1>2

\* Every offset below SEQ_MOD is the offset of a number.
LEMMA OffsetOnto ==
    ASSUME NEW o \in Nat, o < SEQ_MOD
    PROVE  \E s \in Seqs : Offset(s) = o
<1>1. wrapping_add(START, o) \in Seqs /\ Offset(wrapping_add(START, o)) = o
  BY WidthsAssumption, InstanceAssumption DEF wrapping_add, wrapping_sub, Seqs, Offset
<1> QED
  BY <1>1

\* An outstanding frame is less than both windows behind the receive base: what
\* lies between has been accepted, so each frame of it is retired, and then less
\* than a receive window away, or one of the send window.
LEMMA SpanBound ==
    ASSUME WindowInv, NEW s \in DOMAIN tx.unacked, Offset(s) < Offset(rx.recv_base)
    PROVE  Offset(rx.recv_base) - Offset(s) < WINDOW_SIZE + RECV_WINDOW
<1> USE DEF WindowInv, NoFalseAckInv
<1> DEFINE a == Offset(s)
           b == Offset(rx.recv_base)
           near == (a + 1) .. (a + RECV_WINDOW - 1)
           off == [t \in Sent(tx) |-> Offset(t)]
           far == {off[t] : t \in Sent(tx)}
<1>1. /\ a \in Nat /\ b \in Nat /\ a < b /\ b <= Offset(tx.next_seq)
      /\ Offset(tx.next_seq) \in Nat /\ Offset(tx.next_seq) < SEQ_MOD
      /\ s \in Seqs /\ Sent(tx) \subseteq Seqs
  BY OffsetRanges DEF FlowInv, Sent
<1>2. a .. (b - 1) \subseteq near \cup far
  <2> SUFFICES ASSUME NEW o \in a .. (b - 1)
               PROVE  o \in near \cup far
    OBVIOUS
  <2>1. o \in Nat /\ o < SEQ_MOD /\ o < b
    <3> HIDE DEF a, b
    <3> QED
      BY <1>1, WidthsAssumption
  <2>2. PICK t \in Seqs : Offset(t) = o
    BY <2>1, OffsetOnto
  <2>3. t \in Assigned /\ Received(t)
    <3>1. Offset(t) < Offset(tx.next_seq) /\ Offset(t) < Offset(rx.recv_base)
      BY <1>1, <2>1, <2>2
    <3> QED
      BY <3>1 DEF Assigned, Received, AcceptedAt
  <2>4. CASE t \in DOMAIN tx.unacked
    <3>1. t \in Sent(tx)
      BY <2>3, <2>4 DEF UnsentUnknown, Unsent
    <3> QED
      BY <3>1, <2>2
  <2>5. CASE t \notin DOMAIN tx.unacked
    <3>1. o < a + RECV_WINDOW
      BY <2>2, <2>3, <2>5 DEF RetiredSpan
    <3>2. o # a
      BY <1>1, <2>2, <2>5, OffsetInjective
    <3> QED
      BY <1>1, <2>1, <3>1, <3>2, WidthsAssumption
  <2> QED
    BY <2>4, <2>5
<1>3. IsFiniteSet(near) /\ Cardinality(near) = RECV_WINDOW - 1
  <2>1. a + 1 \in Int /\ a + RECV_WINDOW - 1 \in Int
    BY <1>1, WidthsAssumption
  <2>2. IsFiniteSet(near) /\ Cardinality(near) =
            IF a + 1 > a + RECV_WINDOW - 1 THEN 0 ELSE (a + RECV_WINDOW - 1) - (a + 1) + 1
    BY <2>1, FS_Interval
  <2> QED
    <3> HIDE DEF a, near
    <3> QED
      BY <1>1, <2>2, WidthsAssumption
<1>4. IsFiniteSet(far) /\ Cardinality(far) <= Cardinality(Sent(tx))
  <2>1. off \in Surjection(Sent(tx), far)
    BY DEF Surjection
  <2>2. IsFiniteSet(Sent(tx))
    BY SlotsFinite DEF TypeOK
  <2> HIDE DEF off, far
  <2> QED
    BY <2>1, <2>2, FS_Surjection
<1>5. Cardinality(a .. (b - 1)) <= Cardinality(near \cup far)
  BY <1>2, <1>3, <1>4, FS_Union, FS_Subset
<1>6. Cardinality(near \cup far) <= Cardinality(near) + Cardinality(far)
  <2> HIDE DEF near, far
  <2>1. Cardinality(near \cup far) =
            Cardinality(near) + Cardinality(far) - Cardinality(near \cap far)
    BY <1>3, <1>4, FS_Union
  <2>2. /\ Cardinality(near) \in Nat /\ Cardinality(far) \in Nat
        /\ Cardinality(near \cap far) \in Nat
    BY <1>3, <1>4, FS_Intersection, FS_CardinalityType
  <2> QED
    BY <2>1, <2>2
<1>7. Cardinality(a .. (b - 1)) = b - a
  <2> HIDE DEF a, b
  <2>1. a \in Int /\ b - 1 \in Int /\ ~ (a > b - 1) /\ (b - 1) - a + 1 = b - a
    BY <1>1
  <2> QED
    BY <2>1, FS_Interval
<1>8. /\ Cardinality(near \cup far) \in Nat /\ Cardinality(far) \in Nat
      /\ Cardinality(Sent(tx)) \in Nat
  BY <1>3, <1>4, FS_Union, FS_CardinalityType, SlotsFinite DEF TypeOK
<1>9. Cardinality(Sent(tx)) <= WINDOW_SIZE
  BY DEF SendWindow
<1> HIDE DEF a, b, near, far
<1>10. b - a < WINDOW_SIZE + RECV_WINDOW
  BY <1>1, <1>3, <1>4, <1>5, <1>6, <1>7, <1>8, <1>9, WidthsAssumption
<1> QED
  BY <1>10 DEF a, b

\* An ACK whose base has passed an outstanding frame retires it: the distance is
\* within ACK_BEHIND one way and, a lap being long, beyond the bitmap the other.
LEMMA BehindIsAcked ==
    ASSUME BehindReaches, WindowInv, NEW s \in DOMAIN tx.unacked, NEW base \in Seqs, NEW bitmap,
           Offset(base) <= Offset(rx.recv_base), Offset(s) < Offset(base)
    PROVE  acked(base, bitmap, s)
<1> USE DEF WindowInv, NoFalseAckInv
<1>1. /\ s \in Seqs /\ Offset(s) \in Nat /\ Offset(base) \in Nat
      /\ Offset(rx.recv_base) \in Nat /\ Offset(tx.next_seq) \in Nat
  BY OffsetRanges
<1>2. Offset(rx.recv_base) - Offset(s) < WINDOW_SIZE + RECV_WINDOW
  BY <1>1, SpanBound
<1>3. Offset(base) <= MaxFrames
  BY <1>1, InstanceAssumption DEF FlowInv
<1>4. wrapping_sub(s, base) = Offset(s) - Offset(base) + SEQ_MOD
  BY <1>1, OffsetSub
<1>5. wrapping_sub(base, s) = Offset(base) - Offset(s)
  BY <1>1, OffsetSub
<1>6. ~ (wrapping_sub(s, base) < RECV_WINDOW)
  BY <1>1, <1>3, <1>4, WidthsAssumption, InstanceAssumption
<1>7. wrapping_sub(base, s) > 0 /\ wrapping_sub(base, s) < ACK_BEHIND
  BY <1>1, <1>2, <1>5, WidthsAssumption DEF BehindReaches
<1> QED
  BY <1>6, <1>7 DEF acked

\* What an ACK on the wire retires is less than a receive window after what it
\* leaves outstanding.
LEMMA AckKeepsSpan ==
    ASSUME BehindReaches, WindowInv, NEW f \in wire, f.kind = "ack",
           NEW s \in DOMAIN tx.unacked, ~ acked(f.base, f.bitmap, s),
           NEW t \in DOMAIN tx.unacked, acked(f.base, f.bitmap, t)
    PROVE  Offset(t) < Offset(s) + RECV_WINDOW
<1> USE DEF WindowInv, NoFalseAckInv
<1>1. f \in AckFrames
  BY WireKinds DEF TypeOK
<1>2. /\ f.base \in Seqs /\ f.bitmap \subseteq 0 .. (RECV_WINDOW - 1)
      /\ s \in Seqs /\ t \in Seqs
      /\ Offset(s) \in Nat /\ Offset(t) \in Nat /\ Offset(f.base) \in Nat
      /\ Offset(tx.next_seq) \in Nat /\ Offset(rx.recv_base) \in Nat
  BY <1>1, OffsetRanges DEF AckFrames
<1>3. Offset(f.base) <= Offset(rx.recv_base) /\ Offset(rx.recv_base) <= MaxFrames
  BY <1>2, InstanceAssumption DEF FlowInv
<1>4. Offset(f.base) <= Offset(s)
  BY <1>2, <1>3, BehindIsAcked
<1>5. CASE Offset(t) < Offset(f.base)
  BY <1>2, <1>4, <1>5, WidthsAssumption
<1>6. CASE Offset(t) >= Offset(f.base)
  <2>1. wrapping_sub(t, f.base) = Offset(t) - Offset(f.base)
    BY <1>2, <1>6, OffsetSub
  <2>2. CASE wrapping_sub(t, f.base) < RECV_WINDOW
    BY <1>2, <1>4, <2>1, <2>2, WidthsAssumption
  <2>3. CASE ~ (wrapping_sub(t, f.base) < RECV_WINDOW)
    <3>1. wrapping_sub(f.base, t) > 0 /\ wrapping_sub(f.base, t) < ACK_BEHIND
      BY <2>3 DEF acked
    <3>2. Offset(t) < MaxFrames
      BY <1>2, InstanceAssumption DEF FlowInv, Assigned
    <3>3. CASE Offset(f.base) = Offset(t)
      BY <1>2, <2>1, <2>3, <3>3, WidthsAssumption
    <3>4. CASE Offset(f.base) < Offset(t)
      <4>1. wrapping_sub(f.base, t) = Offset(f.base) - Offset(t) + SEQ_MOD
        BY <1>2, <3>4, OffsetSub
      <4> QED
        BY <1>2, <3>1, <3>2, <4>1, WidthsAssumption, InstanceAssumption
    <3> QED
      BY <1>2, <1>6, <3>3, <3>4
  <2> QED
    BY <2>2, <2>3
<1> QED
  BY <1>2, <1>5, <1>6

\* A step that sends nothing new, retires nothing and accepts nothing that was
\* not sent keeps the windows.
LEMMA WindowsKept ==
    ASSUME WindowInv, tx'.next_seq = tx.next_seq,
           DOMAIN tx'.unacked = DOMAIN tx.unacked,
           Sent(tx') = Sent(tx),
           \A s \in Unsent(tx) : Received(s)' => Received(s),
           \A f \in wire' : f.kind = "data" => f \in wire \/ f.seq \in Sent(tx)
    PROVE  SendWindow' /\ UnsentUnknown' /\ RetiredSpan'
<1>1. Unsent(tx') = Unsent(tx)
  BY DEF Unsent
<1>2. SendWindow'
  BY DEF WindowInv, SendWindow
<1>3. UnsentUnknown'
  BY <1>1 DEF WindowInv, UnsentUnknown, Unsent
<1>4. \A s : s \in Assigned' <=> s \in Assigned
  BY DEF Assigned, Offset, wrapping_sub
<1>5. RetiredSpan'
  BY <1>4 DEF WindowInv, RetiredSpan, Offset, wrapping_sub
<1> QED
  BY <1>2, <1>3, <1>5

\* Frames are taken out of the window only.
LEMMA FramesAreSent ==
    ASSUME WindowInv, NEW S \in SUBSET DOMAIN tx.unacked, NEW f \in FramesOf(tx, S)
    PROVE  f.seq \in S
  BY DEF FramesOf, WindowInv, NoFalseAckInv, FlowInv

\* A data frame that is accepted was sent, so nothing unsent becomes received.
LEMMA IngestDataKeepsUnsent ==
    ASSUME WindowInv, NEW f \in wire, f.kind = "data",
           rx' = [on_data(rx, f) EXCEPT !.pending_ack = TRUE], TypeOK', tx' = tx
    PROVE  \A s \in Unsent(tx) : Received(s)' => Received(s)
<1> USE DEF WindowInv, NoFalseAckInv
<1>1. f \in DataFrames /\ f.seq \in Seqs /\ f.seq \in Assigned
  BY WireKinds DEF TypeOK, DataFrames, FlowInv
<1>2. /\ rx'.recv_base = (IF Fresh(rx, f.seq) THEN mark_received(rx, f.seq) ELSE rx).recv_base
      /\ rx'.recv_bits = (IF Fresh(rx, f.seq) THEN mark_received(rx, f.seq) ELSE rx).recv_bits
  <2>1. rx'.recv_base = on_data(rx, f).recv_base /\ rx'.recv_bits = on_data(rx, f).recv_bits
    BY DEF TypeOK, RxTypeOK
  <2> QED
    BY <2>1, <1>1, OnDataWindow DEF TypeOK
<1>3. CASE Fresh(rx, f.seq)
  <2>1. \A o \in Nat : AcceptedAt(o)' <=> AcceptedAt(o) \/ o = Offset(f.seq)
    BY <1>1, <1>2, <1>3, MarkReceivedAccepts
  <2> SUFFICES ASSUME NEW s \in Unsent(tx), Received(s)' PROVE Received(s)
    OBVIOUS
  <2>2. s \in Seqs /\ Offset(s) \in Nat /\ s # f.seq
    BY OffsetRanges DEF Unsent, UnsentUnknown
  <2>3. Offset(s) # Offset(f.seq)
    BY <1>1, <2>2, OffsetInjective
  <2>4. AcceptedAt(Offset(s))'
    BY DEF Received, Offset, wrapping_sub
  <2> QED
    BY <2>1, <2>2, <2>3, <2>4 DEF Received
<1>4. CASE ~ Fresh(rx, f.seq)
  <2>1. rx'.recv_base = rx.recv_base /\ rx'.recv_bits = rx.recv_bits
    BY <1>2, <1>4
  <2> QED
    BY <2>1 DEF Received, AcceptedAt, Offset, wrapping_sub
<1> QED
  BY <1>3, <1>4

\* New frames are neither sent nor received, and after everything retired.
LEMMA EnqueueWindows ==
    ASSUME WindowInv, NEW n \in Sizes, Enqueue(n)
    PROVE  SendWindow' /\ UnsentUnknown' /\ RetiredSpan'
<1> USE DEF WindowInv, NoFalseAckInv
<1>1. rx' = rx /\ wire' = wire
  BY DEF Enqueue
<1>2. /\ \A s \in Assigned : s \in Assigned'
      /\ \A s \in Seqs : s \in Assigned' <=> s \in Assigned \/ s \in DOMAIN tx'.unacked
      /\ \A s \in DOMAIN tx'.unacked :
            \/ s \in DOMAIN tx.unacked /\ tx'.unacked[s] = tx.unacked[s]
            \/ s \in Assigned' /\ s \notin Assigned /\ tx'.unacked[s].age = Never
      /\ \A s \in DOMAIN tx.unacked : s \in DOMAIN tx'.unacked /\ tx'.unacked[s] = tx.unacked[s]
  BY EnqueueSlots
<1>3. Sent(tx') = Sent(tx)
  BY <1>2 DEF Sent
<1>4. \A s \in Unsent(tx') : s \in Unsent(tx) \/ (s \in Assigned' /\ s \notin Assigned)
  BY <1>2, <1>3 DEF Unsent
<1>5. ASSUME NEW s \in Assigned', s \notin Assigned
      PROVE  s \in Seqs /\ Offset(s) >= Offset(tx.next_seq)
  BY <1>5, OffsetRanges DEF Assigned, Offset, wrapping_sub
<1>6. \A s : Received(s)' <=> Received(s)
  BY <1>1 DEF Received, AcceptedAt, Offset, wrapping_sub
<1>7. SendWindow'
  BY <1>3 DEF SendWindow
<1>8. ASSUME NEW s \in Unsent(tx') PROVE ~ Received(s)
  <2>1. CASE s \in Unsent(tx)
    BY <2>1 DEF UnsentUnknown
  <2>2. CASE s \in Assigned' /\ s \notin Assigned
    <3>1. /\ Offset(s) \in Nat /\ Offset(s) >= Offset(tx.next_seq)
          /\ Offset(rx.recv_base) \in Nat /\ Offset(tx.next_seq) \in Nat
      BY <1>5, <2>2, OffsetRanges
    <3>2. /\ Offset(rx.recv_base) <= Offset(tx.next_seq)
          /\ \A b \in rx.recv_bits : b \in Nat /\ Offset(rx.recv_base) + b < Offset(tx.next_seq)
      BY OffsetRanges, WidthsAssumption DEF FlowInv
    <3>3. Offset(s) - Offset(rx.recv_base) \notin rx.recv_bits
      BY <3>1, <3>2
    <3> QED
      BY <3>1, <3>2, <3>3 DEF Received, AcceptedAt
  <2> QED
    BY <1>4, <1>8, <2>1, <2>2
<1>9. ASSUME NEW f \in wire, f.kind = "data" PROVE f.seq \notin Unsent(tx')
  BY <1>4, <1>9 DEF UnsentUnknown, FlowInv
<1>10. UnsentUnknown'
  BY <1>1, <1>6, <1>8, <1>9 DEF UnsentUnknown, Unsent
<1>11. ASSUME NEW s \in DOMAIN tx'.unacked, NEW t \in Assigned' \ DOMAIN tx'.unacked
       PROVE  Offset(t) < Offset(s) + RECV_WINDOW
  <2>1. t \in Assigned \ DOMAIN tx.unacked /\ t \in Seqs
    BY <1>2 DEF Assigned
  <2>2. CASE s \in DOMAIN tx.unacked
    BY <2>1, <2>2 DEF RetiredSpan
  <2>3. CASE s \in Assigned' /\ s \notin Assigned
    <3>1. /\ Offset(s) \in Nat /\ Offset(s) >= Offset(tx.next_seq)
          /\ Offset(t) \in Nat /\ Offset(tx.next_seq) \in Nat
      BY <1>5, <2>1, <2>3, OffsetRanges
    <3>2. Offset(t) < Offset(tx.next_seq)
      BY <2>1 DEF Assigned
    <3> QED
      BY <3>1, <3>2, WidthsAssumption
  <2> QED
    BY <1>2, <2>2, <2>3
<1>12. RetiredSpan'
  BY <1>11 DEF RetiredSpan, Offset, wrapping_sub
<1> QED
  BY <1>7, <1>10, <1>12

\* Every step keeps the windows, given that the "behind" rule reaches far enough.
LEMMA WindowStep ==
    ASSUME BehindReaches
    PROVE  WindowInv /\ [Next]_vars => WindowInv'
<1> SUFFICES ASSUME WindowInv, [Next]_vars PROVE SendWindow' /\ UnsentUnknown' /\ RetiredSpan'
  BY NoFalseAckStep DEF WindowInv
<1> DEFINE Goal == SendWindow' /\ UnsentUnknown' /\ RetiredSpan'
<1>a. TypeOK /\ TxTypeOK
  BY DEF WindowInv, NoFalseAckInv, TypeOK
<1>b. ASSUME rx'.recv_base = rx.recv_base, rx'.recv_bits = rx.recv_bits
      PROVE  \A s : Received(s)' => Received(s)
  BY <1>b DEF Received, AcceptedAt, Offset, wrapping_sub
<1>1. ASSUME NEW n \in Sizes, Enqueue(n) PROVE Goal
  BY <1>1, EnqueueWindows
<1>2. CASE TakeNewSends
  <2>1. /\ Sent(tx') = Sent(tx) \cup NewSends(tx)
        /\ Unsent(tx') = Unsent(tx) \ NewSends(tx)
        /\ tx'.next_seq = tx.next_seq /\ DOMAIN tx'.unacked = DOMAIN tx.unacked
    BY <1>a, <1>2, NewSendsSent, SlotUpdateType DEF TakeNewSends
  <2>2. SendWindow'
    BY <1>a, <2>1, NewSendsFit DEF SendWindow, WindowInv
  <2>3. \A s : Received(s)' <=> Received(s)
    BY <1>2 DEF TakeNewSends, Received, AcceptedAt, Offset, wrapping_sub
  <2>4. ASSUME NEW f \in wire', f.kind = "data" PROVE f.seq \notin Unsent(tx')
    <3>1. CASE f \in wire
      BY <2>1, <2>4, <3>1 DEF WindowInv, UnsentUnknown
    <3>2. CASE f \in FramesOf(tx, NewSends(tx))
      <4>1. NewSends(tx) \subseteq DOMAIN tx.unacked
        BY DEF NewSends, Unsent
      <4> QED
        BY <2>1, <3>2, <4>1, FramesAreSent
    <3> QED
      BY <1>2, <2>4, <3>1, <3>2 DEF TakeNewSends
  <2>5. UnsentUnknown'
    BY <2>1, <2>3, <2>4 DEF WindowInv, UnsentUnknown, Unsent
  <2>6. RetiredSpan'
    <3>1. \A s : s \in Assigned' <=> s \in Assigned
      BY <2>1 DEF Assigned, Offset, wrapping_sub
    <3> QED
      BY <2>1, <3>1 DEF WindowInv, RetiredSpan, Offset, wrapping_sub
  <2> QED
    BY <2>2, <2>5, <2>6
<1>3. CASE TakeRetransmits
  <2>1. /\ Sent(tx') = Sent(tx) /\ tx'.next_seq = tx.next_seq
        /\ DOMAIN tx'.unacked = DOMAIN tx.unacked
    BY <1>a, <1>3, SentKept, SlotUpdateType DEF TakeRetransmits
  <2>2. ASSUME NEW f \in FramesOf(tx, Retransmits(tx)) PROVE f.seq \in Sent(tx)
    <3>1. Retransmits(tx) \subseteq Sent(tx) /\ Sent(tx) \subseteq DOMAIN tx.unacked
      BY DEF Retransmits, Due, Sent
    <3>2. f.seq \in Retransmits(tx)
      BY <2>2, <3>1, FramesAreSent
    <3> QED
      BY <3>1, <3>2
  <2>3. \A f \in wire' : f \in wire \/ f.seq \in Sent(tx)
    BY <1>3, <2>2 DEF TakeRetransmits
  <2> QED
    BY <1>3, <1>b, <2>1, <2>3, WindowsKept DEF TakeRetransmits
<1>4. CASE GiveUp
  <2>1. /\ Sent(tx') = Sent(tx) /\ tx'.next_seq = tx.next_seq
        /\ DOMAIN tx'.unacked = DOMAIN tx.unacked /\ rx' = rx /\ wire' = wire
    BY <1>a, <1>4, SentKept, SlotUpdateType DEF GiveUp
  <2> QED
    BY <1>b, <2>1, WindowsKept
<1>5. CASE IngestAck
  <2>1. PICK f \in wire : f.kind = "ack" /\ tx' = on_ack(tx, f.base, f.bitmap)
    BY <1>5 DEF IngestAck
  <2>2. /\ tx'.next_seq = tx.next_seq
        /\ DOMAIN tx'.unacked = {s \in DOMAIN tx.unacked : ~ acked(f.base, f.bitmap, s)}
        /\ \A s \in DOMAIN tx'.unacked : tx'.unacked[s] = tx.unacked[s]
    BY <1>a, <2>1, OnAckType
  <2>3. rx' = rx /\ wire' = wire
    BY <1>5 DEF IngestAck
  <2>4. Sent(tx') \subseteq Sent(tx) /\ Unsent(tx') \subseteq Unsent(tx)
    BY <2>2 DEF Sent, Unsent
  <2>5. SendWindow'
    <3>1. IsFiniteSet(Sent(tx))
      BY <1>a, SlotsFinite
    <3>2. /\ Cardinality(Sent(tx')) <= Cardinality(Sent(tx))
          /\ Cardinality(Sent(tx')) \in Nat /\ Cardinality(Sent(tx)) \in Nat
      BY <2>4, <3>1, FS_Subset, FS_CardinalityType
    <3> QED
      BY <3>2, WidthsAssumption DEF WindowInv, SendWindow
  <2>6. UnsentUnknown'
    <3>1. \A s : Received(s)' <=> Received(s)
      BY <2>3 DEF Received, AcceptedAt, Offset, wrapping_sub
    <3> QED
      BY <2>3, <2>4, <3>1 DEF WindowInv, UnsentUnknown, Unsent
  <2>7. ASSUME NEW s \in DOMAIN tx'.unacked, NEW t \in Assigned \ DOMAIN tx'.unacked
        PROVE  Offset(t) < Offset(s) + RECV_WINDOW
    <3>1. CASE t \in DOMAIN tx.unacked
      BY <2>1, <2>2, <3>1, AckKeepsSpan
    <3>2. CASE t \notin DOMAIN tx.unacked
      BY <2>2, <3>2 DEF WindowInv, RetiredSpan
    <3> QED
      BY <3>1, <3>2
  <2>8. RetiredSpan'
    <3>1. \A s : s \in Assigned' <=> s \in Assigned
      BY <2>2 DEF Assigned, Offset, wrapping_sub
    <3> QED
      BY <2>7, <3>1 DEF RetiredSpan, Offset, wrapping_sub
  <2> QED
    BY <2>5, <2>6, <2>8
<1>6. CASE IngestData
  <2>1. PICK f \in wire : /\ f.kind = "data"
                          /\ rx' = [on_data(rx, f) EXCEPT !.pending_ack = TRUE]
                          /\ wire' = wire \cup {CurrentAck(rx')}
    BY <1>6 DEF IngestData
  <2>2. tx' = tx /\ TypeOK'
    BY <1>6, <1>a, TypeStep DEF IngestData
  <2>3. \A s \in Unsent(tx) : Received(s)' => Received(s)
    BY <2>1, <2>2, IngestDataKeepsUnsent
  <2>4. CurrentAck(rx').kind # "data"
    BY DEF CurrentAck, encode_ack
  <2> QED
    BY <2>1, <2>2, <2>3, <2>4, WindowsKept
<1>7. CASE TakeAck
  <2>1. rx'.recv_base = rx.recv_base /\ rx'.recv_bits = rx.recv_bits /\ tx' = tx
        /\ wire' = wire \cup {CurrentAck(rx)} /\ CurrentAck(rx).kind # "data"
    BY <1>a, <1>7 DEF TakeAck, TypeOK, RxTypeOK, CurrentAck, encode_ack
  <2> QED
    BY <1>b, <2>1, WindowsKept
<1>8. CASE PopDelivered
  <2>1. rx'.recv_base = rx.recv_base /\ rx'.recv_bits = rx.recv_bits /\ tx' = tx /\ wire' = wire
    BY <1>a, <1>8 DEF PopDelivered, pop_delivered, TypeOK, RxTypeOK
  <2> QED
    BY <1>b, <2>1, WindowsKept
<1>9. ASSUME NEW d \in RetxValues, SetRetx(d) PROVE Goal
  <2>1. tx'.next_seq = tx.next_seq /\ tx'.unacked = tx.unacked /\ rx' = rx /\ wire' = wire
    BY <1>a, <1>9, SetRetxType DEF SetRetx
  <2>2. Sent(tx') = Sent(tx)
    BY <2>1 DEF Sent
  <2> QED
    BY <1>b, <2>1, <2>2, WindowsKept
<1>10. CASE Tick
  <2>1. /\ Sent(tx') = Sent(tx) /\ tx'.next_seq = tx.next_seq
        /\ DOMAIN tx'.unacked = DOMAIN tx.unacked /\ rx' = rx /\ wire' = wire
    BY <1>a, <1>10, SentKept, SlotUpdateType DEF Tick
  <2> QED
    BY <1>b, <2>1, WindowsKept
<1>11. CASE UNCHANGED vars
  BY <1>b, <1>11, WindowsKept DEF vars
<1> QED
  BY <1>1, <1>2, <1>3, <1>4, <1>5, <1>6, <1>7, <1>8, <1>9, <1>10, <1>11 DEF Next

\* A fresh pair of endpoints has empty windows.
LEMMA WindowInit == Init => WindowInv
<1> SUFFICES ASSUME Init PROVE WindowInv
  OBVIOUS
<1>1. DOMAIN tx.unacked = {} /\ wire = {}
  BY DEF Init, NewTx
<1>2. Sent(tx) = {} /\ Unsent(tx) = {}
  BY <1>1 DEF Sent, Unsent
<1>3. SendWindow
  BY <1>2, FS_EmptySet, WidthsAssumption DEF SendWindow
<1> QED
  BY <1>1, <1>2, <1>3, NoFalseAckInit DEF WindowInv, UnsentUnknown, RetiredSpan

\* The windows keep every accepted frame within reach of the current ACK.
LEMMA CoversNow ==
    ASSUME BehindReaches
    PROVE  WindowInv => CurrentAckCovers
<1> SUFFICES ASSUME WindowInv, NEW s \in DOMAIN tx.unacked, Received(s)
             PROVE  acked(rx.recv_base, rx.recv_bits, s)
  BY DEF CurrentAckCovers
<1>1. /\ s \in Seqs /\ rx.recv_base \in Seqs /\ rx.recv_bits \subseteq 0 .. (RECV_WINDOW - 1)
      /\ Offset(s) \in Nat /\ Offset(rx.recv_base) \in Nat
  BY OffsetRanges DEF WindowInv, NoFalseAckInv
<1>2. CASE Offset(s) < Offset(rx.recv_base)
  BY <1>1, <1>2, BehindIsAcked
<1>3. CASE ~ (Offset(s) < Offset(rx.recv_base))
  <2>1. Offset(s) - Offset(rx.recv_base) \in rx.recv_bits
    BY <1>3 DEF Received, AcceptedAt
  <2>2. wrapping_sub(s, rx.recv_base) = Offset(s) - Offset(rx.recv_base)
    BY <1>1, <1>3, OffsetSub
  <2>3. wrapping_sub(s, rx.recv_base) < RECV_WINDOW
    BY <1>1, <2>1, <2>2, WidthsAssumption
  <2> QED
    BY <2>1, <2>2, <2>3 DEF acked
<1> QED
  BY <1>2, <1>3

\* Whatever the receive half has accepted and the send half still waits for is
\* covered by the ACK the receive half would write now, the wrap included, if
\* ACK_BEHIND is at least the two windows together (acked, arq.rs): one round
\* trip is enough to retire it.
THEOREM CurrentAckSettles ==
    ASSUME BehindReaches
    PROVE  Spec => []CurrentAckCovers
<1>1. WindowInv => CurrentAckCovers
  BY CoversNow
<1>2. WindowInv /\ [Next]_vars => WindowInv'
  BY WindowStep
<1> QED
  BY <1>1, <1>2, WindowInit, PTL DEF Spec

-----------------------------------------------------------------------------
(***************************************************************************)
(* Order of sending, and what a slot may become.                           *)
(***************************************************************************)
OvertakesInv == NoFalseAckInv /\ OvertakesAtWrap

\* A step that changes neither which frames are unsent nor adds to the sent ones
\* keeps their order.
LEMMA OrderKept ==
    ASSUME OvertakesAtWrap, Unsent(tx') \subseteq Unsent(tx), Sent(tx') \subseteq Sent(tx)
    PROVE  OvertakesAtWrap'
  BY DEF OvertakesAtWrap, Offset, wrapping_sub, Sent, Unsent

\* take_new_sends picks the lowest numbers first, so of two frames of which the
\* younger one is sent first the younger has the lower number: it lies beyond the
\* wrap.  This holds for every start of the flow, the wrap included.
THEOREM OvertakingOnlyAtWrap == Spec => []OvertakesAtWrap
<1>1. Init => OvertakesInv
  BY NoFalseAckInit DEF Init, NewTx, OvertakesInv, OvertakesAtWrap, Sent, Unsent
<1>2. ASSUME OvertakesInv, [Next]_vars PROVE OvertakesInv'
  <2> SUFFICES OvertakesAtWrap'
    BY <1>2, NoFalseAckStep DEF OvertakesInv
  <2>a. TypeOK /\ TxTypeOK /\ OvertakesAtWrap /\ FlowInv
    BY <1>2 DEF OvertakesInv, NoFalseAckInv, TypeOK
  <2>1. ASSUME NEW n \in Sizes, Enqueue(n) PROVE OvertakesAtWrap'
    <3>1. /\ \A s \in DOMAIN tx'.unacked :
                \/ s \in DOMAIN tx.unacked /\ tx'.unacked[s] = tx.unacked[s]
                \/ s \in Assigned' /\ s \notin Assigned /\ tx'.unacked[s].age = Never
          /\ \A s \in DOMAIN tx.unacked : s \in DOMAIN tx'.unacked /\ tx'.unacked[s] = tx.unacked[s]
      BY <2>1, <2>a, EnqueueSlots
    <3>2. Sent(tx') = Sent(tx)
      BY <3>1 DEF Sent
    <3>3. \A s \in Unsent(tx') : s \in Unsent(tx) \/ (s \in Assigned' /\ s \notin Assigned)
      BY <3>1, <3>2 DEF Unsent
    <3> SUFFICES ASSUME NEW s \in Unsent(tx'), NEW t \in Sent(tx), Offset(s) < Offset(t)
                 PROVE  t < s
      BY <3>2 DEF OvertakesAtWrap, Offset, wrapping_sub
    <3>4. CASE s \in Unsent(tx)
      BY <2>a, <3>4 DEF OvertakesAtWrap
    <3>5. CASE s \in Assigned' /\ s \notin Assigned
      <4>1. s \in Seqs /\ Offset(s) >= Offset(tx.next_seq)
        BY <2>a, <3>5, OffsetRanges DEF Assigned, Offset, wrapping_sub
      <4>2. t \in Seqs /\ Offset(t) < Offset(tx.next_seq)
        BY <2>a DEF FlowInv, Sent, Assigned
      <4>3. Offset(s) \in Nat /\ Offset(t) \in Nat /\ Offset(tx.next_seq) \in Nat
        BY <2>a, <4>1, <4>2, OffsetRanges
      <4> QED
        BY <4>1, <4>2, <4>3
    <3> QED
      BY <3>3, <3>4, <3>5
  <2>2. CASE TakeNewSends
    <3>1. /\ Sent(tx') = Sent(tx) \cup NewSends(tx)
          /\ Unsent(tx') = Unsent(tx) \ NewSends(tx)
      BY <2>a, <2>2, NewSendsSent DEF TakeNewSends
    <3> SUFFICES ASSUME NEW s \in Unsent(tx'), NEW t \in Sent(tx'), Offset(s) < Offset(t)
                 PROVE  t < s
      BY DEF OvertakesAtWrap, Offset, wrapping_sub
    <3>2. CASE t \in Sent(tx)
      BY <2>a, <3>1, <3>2 DEF OvertakesAtWrap
    <3>3. CASE t \in NewSends(tx)
      <4>1. ~ (s < t)
        BY <2>a, <3>1, <3>3, NewSendsOrdered
      <4>2. s \in Seqs /\ t \in Seqs
        BY <2>a, <3>1, <3>3, OffsetRanges DEF NewSends, Unsent
      <4>3. s # t
        BY <3>1, <3>3
      <4> QED
        BY <4>1, <4>2, <4>3 DEF Seqs
    <3> QED
      BY <3>1, <3>2, <3>3
  <2>3. CASE TakeRetransmits \/ GiveUp \/ Tick
    <3>1. Sent(tx') = Sent(tx) /\ Unsent(tx') = Unsent(tx)
      BY <2>a, <2>3, SentKept DEF TakeRetransmits, GiveUp, Tick
    <3> QED
      BY <2>a, <3>1, OrderKept
  <2>4. CASE IngestAck
    <3>1. PICK f \in wire : tx' = on_ack(tx, f.base, f.bitmap)
      BY <2>4 DEF IngestAck
    <3>2. /\ DOMAIN tx'.unacked \subseteq DOMAIN tx.unacked
          /\ \A s \in DOMAIN tx'.unacked : tx'.unacked[s] = tx.unacked[s]
      BY <2>a, <3>1, OnAckType
    <3>3. Sent(tx') \subseteq Sent(tx) /\ Unsent(tx') \subseteq Unsent(tx)
      BY <3>2 DEF Sent, Unsent
    <3> QED
      BY <2>a, <3>3, OrderKept
  <2>5. ASSUME tx'.unacked = tx.unacked PROVE OvertakesAtWrap'
    BY <2>a, <2>5, OrderKept DEF Sent, Unsent
  <2>6. CASE IngestData \/ TakeAck \/ PopDelivered \/ UNCHANGED vars
    BY <2>5, <2>6 DEF IngestData, TakeAck, PopDelivered, vars
  <2>7. ASSUME NEW d \in RetxValues, SetRetx(d) PROVE OvertakesAtWrap'
    BY <2>a, <2>5, <2>7, SetRetxType DEF SetRetx
  <2> QED
    BY <1>2, <2>1, <2>2, <2>3, <2>4, <2>6, <2>7 DEF Next
<1>3. OvertakesInv => OvertakesAtWrap
  BY DEF OvertakesInv
<1> QED
  BY <1>1, <1>2, <1>3, PTL DEF Spec

\* A slot keeps its contents, and a new one has a number that was not in use.
LEMMA SlotsStep ==
    ASSUME NoFalseAckInv, [Next]_vars
    PROVE  \A s \in DOMAIN tx'.unacked :
              IF s \in DOMAIN tx.unacked
              THEN tx'.unacked[s].plaintext = tx.unacked[s].plaintext
              ELSE s \notin Assigned
<1> DEFINE Stable == \A s \in DOMAIN tx'.unacked :
                        IF s \in DOMAIN tx.unacked
                        THEN tx'.unacked[s].plaintext = tx.unacked[s].plaintext
                        ELSE s \notin Assigned
<1> SUFFICES Stable
  OBVIOUS
<1>a. TypeOK /\ TxTypeOK /\ FlowInv
  BY DEF NoFalseAckInv, TypeOK
<1>1. ASSUME NEW n \in Sizes, Enqueue(n) PROVE Stable
  BY <1>a, <1>1, EnqueueSlots
<1>2. CASE TakeNewSends \/ TakeRetransmits \/ GiveUp \/ Tick
  BY <1>a, <1>2, SlotUpdateType DEF TakeNewSends, TakeRetransmits, GiveUp, Tick
<1>3. CASE IngestAck
  <2>1. PICK f \in wire : tx' = on_ack(tx, f.base, f.bitmap)
    BY <1>3 DEF IngestAck
  <2> QED
    BY <1>a, <2>1, OnAckType
<1>4. CASE IngestData \/ TakeAck \/ PopDelivered \/ UNCHANGED vars
  BY <1>4 DEF IngestData, TakeAck, PopDelivered, vars
<1>5. ASSUME NEW d \in RetxValues, SetRetx(d) PROVE Stable
  BY <1>a, <1>5, SetRetxType DEF SetRetx
<1> QED
  BY <1>1, <1>2, <1>3, <1>4, <1>5 DEF Next

\* A retired sequence number is never outstanding again, and a frame keeps its
\* contents while it is retransmitted: slots are opened by enqueue alone, under
\* numbers never handed out before, even when the numbering has wrapped.
THEOREM SlotsAreStable == Spec => SlotStable
<1>1. NoFalseAckInv /\ [Next]_vars =>
        [\A s \in DOMAIN tx'.unacked :
            IF s \in DOMAIN tx.unacked
            THEN tx'.unacked[s].plaintext = tx.unacked[s].plaintext
            ELSE s \notin Assigned]_vars
  BY SlotsStep
<1> QED
  BY <1>1, NoFalseAckInit, NoFalseAckStep, PTL DEF Spec, SlotStable

-----------------------------------------------------------------------------
(***************************************************************************)
(* Delivery.  A message is delivered when the receive half has accepted    *)
(* all its frames.  What could go wrong is the reassembly: buffers are     *)
(* found by a fragment id that wraps.                                      *)
(***************************************************************************)

\* Offsets of the frames of message m.
First(m) == Offset(queued[m].first)
Count(m) == FrameCount(queued[m].chunks)
End(m) == First(m) + Count(m)

\* Messages take consecutive frames, in the order in which they were queued.
Layout ==
    /\ \A m \in DOMAIN queued : End(m) <= Offset(tx.next_seq)
    /\ \A m, k \in DOMAIN queued : m < k => End(m) <= First(k)

\* How many fragment ids lie between a and the next one, a included: all of
\* them if the next one is a again.
Turns(a) ==
    IF tx.next_frag_id > a THEN tx.next_frag_id - a ELSE tx.next_frag_id - a + FRAG_MOD - 1

\* Message m, with fragment id a, lies at least as many frames back as ids were
\* given out since.
FarBack(m, a) == Offset(tx.next_seq) - End(m) >= Turns(a) - 1

\* The fragment ids of the messages: every id that was given out since took a
\* frame, so two messages with the same id are almost FRAG_MOD frames apart.
IdsApart(id) ==
    /\ id \in [DOMAIN queued -> 0 .. (FRAG_MOD - 1)]
    /\ \A m \in DOMAIN queued : queued[m].chunks > 0 =>
        id[m] > 0 /\ FarBack(m, id[m])
    /\ \A m, k \in DOMAIN queued :
        /\ m < k /\ id[m] = id[k]
        /\ queued[m].chunks > 0 /\ queued[k].chunks > 0
        => First(k) >= End(m) + FRAG_MOD - 2

\* Frame f is the one enqueue made for its chunk.
Belongs(f, id) ==
    LET m == f.payload[1]
    IN  /\ m \in DOMAIN queued
        /\ f.payload = <<m, f.index>>
        /\ f.index \in 0 .. (Count(m) - 1)
        /\ Offset(f.seq) = First(m) + f.index
        /\ f.total = Count(m)
        /\ f.frag_id = id[m]

FramesBelong(id) ==
    /\ \A s \in DOMAIN tx.unacked : Belongs(tx.unacked[s].plaintext, id)
    /\ \A f \in wire : f.kind = "data" => Belongs(f, id)

\* Chunks of message m that were accepted.
Parts(m) == {i \in 0 .. (Count(m) - 1) : AcceptedAt(First(m) + i)}
Whole(m) == Parts(m) = 0 .. (Count(m) - 1)
Partial(m) == Count(m) > 1 /\ Parts(m) # {} /\ ~ Whole(m)

\* The reassembly buffers are those of the messages that arrived in part, each
\* with what has been accepted of its message.
Buffered(m, x) ==
    /\ x \in DOMAIN rx.fragments
    /\ rx.fragments[x].total = Count(m)
    /\ DOMAIN rx.fragments[x].parts = Parts(m)
    /\ \A i \in Parts(m) : rx.fragments[x].parts[i] = <<m, i>>

Buffers(id) ==
    /\ \A m \in DOMAIN queued : Partial(m) => Buffered(m, id[m])
    /\ \A x \in DOMAIN rx.fragments : \E m \in DOMAIN queued : Partial(m) /\ id[m] = x

\* What was delivered are the messages that arrived as a whole, each once.
HandedOver ==
    /\ \A m \in DOMAIN queued : Whole(m) =>
        \E j \in DOMAIN Delivered : Delivered[j] = Content(m, queued[m].chunks)
    /\ \A j \in DOMAIN Delivered :
        \E m \in DOMAIN queued : Whole(m) /\ Delivered[j] = Content(m, queued[m].chunks)
    /\ \A i, j \in DOMAIN Delivered : Delivered[i] = Delivered[j] => i = j

DeliveryInv ==
    /\ NoFalseAckInv /\ Layout /\ HandedOver
    /\ \E id \in [DOMAIN queued -> 0 .. (FRAG_MOD - 1)] :
        IdsApart(id) /\ FramesBelong(id) /\ Buffers(id)

-----------------------------------------------------------------------------
(***************************************************************************)
(* Where messages lie in the flow.                                         *)
(***************************************************************************)

\* A queued message has a first frame and at least one frame.
LEMMA MessageRanges ==
    ASSUME TypeOK, NEW m \in DOMAIN queued
    PROVE  /\ m \in Nat /\ m <= Len(queued)
           /\ queued[m].first \in Seqs /\ queued[m].chunks \in Sizes
           /\ queued[m].chunks \in Nat /\ queued[m].chunks <= MAX_PARTS
           /\ First(m) \in Nat /\ Count(m) \in Nat /\ Count(m) >= 1
           /\ End(m) = First(m) + Count(m) /\ End(m) \in Nat
           /\ Count(m) > 1 => queued[m].chunks > 0
<1>1. queued \in Seq([first : Seqs, chunks : Sizes])
  BY DEF TypeOK
<1>2. m \in 1 .. Len(queued) /\ Len(queued) \in Nat /\ queued[m] \in [first : Seqs, chunks : Sizes]
  <2>1. \A S, q : q \in Seq(S) => Len(q) \in Nat /\ DOMAIN q = 1 .. Len(q) /\ \A i \in DOMAIN q : q[i] \in S
    OBVIOUS
  <2> QED
    BY <1>1, <2>1
<1>3. queued[m].first \in Seqs /\ queued[m].chunks \in Sizes
  BY <1>2
<1>4. queued[m].chunks \in Nat /\ queued[m].chunks <= MAX_PARTS
  <2>1. Sizes \subseteq 0 .. MAX_PARTS /\ MAX_PARTS \in Nat
    BY InstanceAssumption, WidthsAssumption
  <2>2. queued[m].chunks \in 0 .. MAX_PARTS
    BY <1>3, <2>1
  <2> QED
    BY <2>1, <2>2
<1>5. First(m) \in Nat
  BY <1>3, OffsetSub DEF First, Seqs
<1>6. Count(m) \in Nat /\ Count(m) >= 1 /\ (Count(m) > 1 => queued[m].chunks > 0)
  BY <1>4 DEF Count, FrameCount
<1> QED
  BY <1>2, <1>3, <1>4, <1>5, <1>6 DEF End

\* What is not accepted is not before the receive window, what is accepted is
\* not after it.
LEMMA AcceptedRange ==
    ASSUME TypeOK, NEW o \in Nat
    PROVE  /\ Offset(rx.recv_base) \in Nat
           /\ ~ AcceptedAt(o) => Offset(rx.recv_base) <= o
           /\ AcceptedAt(o) => o < Offset(rx.recv_base) + RECV_WINDOW
<1>1. Offset(rx.recv_base) \in Nat /\ rx.recv_bits \subseteq 0 .. (RECV_WINDOW - 1)
  BY OffsetRanges
<1>2. PICK b : b = Offset(rx.recv_base)
  OBVIOUS
<1>3. AcceptedAt(o) <=> o < b \/ o - b \in rx.recv_bits
  BY <1>2 DEF AcceptedAt
<1> QED
  BY <1>1, <1>2, <1>3, WidthsAssumption

\* Fragment ids last longer than the receive window: 2^16 against 64.
IdsOutlastWindow == FRAG_MOD > RECV_WINDOW

\* Two messages in the receive window, one of them still incomplete when a
\* frame of the other is accepted, have different fragment ids.
LEMMA IdsDiffer ==
    ASSUME IdsOutlastWindow, TypeOK, NEW id, IdsApart(id),
           NEW m \in DOMAIN queued, NEW k \in DOMAIN queued, m # k, Count(m) > 1,
           NEW i \in 0 .. (Count(m) - 1), ~ AcceptedAt(First(m) + i),
           First(m) + i < Offset(rx.recv_base) + RECV_WINDOW, Partial(k)
    PROVE  id[m] # id[k]
<1> SUFFICES ASSUME id[m] = id[k] PROVE FALSE
  OBVIOUS
<1>1. /\ m \in Nat /\ First(m) \in Nat /\ Count(m) \in Nat /\ End(m) = First(m) + Count(m) /\ queued[m].chunks > 0
      /\ k \in Nat /\ First(k) \in Nat /\ Count(k) \in Nat /\ End(k) = First(k) + Count(k) /\ queued[k].chunks > 0
  BY MessageRanges DEF Partial
<1>2. PICK p \in 0 .. (Count(k) - 1) : ~ AcceptedAt(First(k) + p)
  BY DEF Partial, Whole, Parts
<1>3. PICK q \in 0 .. (Count(k) - 1) : AcceptedAt(First(k) + q)
  BY DEF Partial, Parts
<1>4. /\ First(m) + i \in Nat /\ First(k) + p \in Nat /\ First(k) + q \in Nat
  BY <1>1
<1>5. /\ Offset(rx.recv_base) \in Nat
      /\ Offset(rx.recv_base) <= First(m) + i /\ Offset(rx.recv_base) <= First(k) + p
      /\ First(k) + q < Offset(rx.recv_base) + RECV_WINDOW
  BY <1>2, <1>3, <1>4, AcceptedRange
<1>6. /\ m < k => First(k) >= End(m) + FRAG_MOD - 2
      /\ k < m => First(m) >= End(k) + FRAG_MOD - 2
  BY <1>1 DEF IdsApart
<1> QED
  BY <1>1, <1>5, <1>6, WidthsAssumption DEF IdsOutlastWindow

\* The chunk a fresh frame brings is added to its message, and to no other.
LEMMA FreshPart ==
    ASSUME TypeOK, Layout, NEW id, NEW f, Belongs(f, id), queued' = queued,
           \A o \in Nat : AcceptedAt(o)' <=> AcceptedAt(o) \/ o = Offset(f.seq)
    PROVE  \A k \in DOMAIN queued :
               Parts(k)' = IF k = f.payload[1] THEN Parts(k) \cup {f.index} ELSE Parts(k)
<1> DEFINE m == f.payload[1]
<1> SUFFICES ASSUME NEW k \in DOMAIN queued
             PROVE  Parts(k)' = IF k = m THEN Parts(k) \cup {f.index} ELSE Parts(k)
  OBVIOUS
<1>1. m \in DOMAIN queued /\ f.index \in 0 .. (Count(m) - 1) /\ Offset(f.seq) = First(m) + f.index
  BY DEF Belongs
<1> HIDE DEF m
<1>2. /\ m \in Nat /\ First(m) \in Nat /\ Count(m) \in Nat /\ End(m) = First(m) + Count(m)
      /\ k \in Nat /\ First(k) \in Nat /\ Count(k) \in Nat /\ End(k) = First(k) + Count(k)
  BY <1>1, MessageRanges
<1>3. First(k)' = First(k) /\ Count(k)' = Count(k)
  BY DEF First, Count, Offset, wrapping_sub
<1>4. Parts(k)' = {i \in 0 .. (Count(k) - 1) : AcceptedAt(First(k) + i) \/ First(k) + i = First(m) + f.index}
  <2>1. PICK a, n : a = First(k) /\ n = Count(k)
    OBVIOUS
  <2>2. Parts(k)' = {i \in 0 .. (n - 1) : AcceptedAt(a + i)'}
    BY <1>3, <2>1 DEF Parts
  <2>3. \A i \in 0 .. (n - 1) : a + i \in Nat
    BY <1>2, <2>1
  <2>4. \A i \in 0 .. (n - 1) : AcceptedAt(a + i)' <=> AcceptedAt(a + i) \/ a + i = Offset(f.seq)
    BY <2>3
  <2> QED
    BY <1>1, <2>1, <2>2, <2>4
<1>5. CASE k = m
  <2>1. \A i \in 0 .. (Count(k) - 1) : First(k) + i = First(m) + f.index <=> i = f.index
    BY <1>1, <1>2, <1>5
  <2> QED
    BY <1>1, <1>4, <1>5, <2>1 DEF Parts
<1>6. CASE k # m
  <2>1. (m < k => End(m) <= First(k)) /\ (k < m => End(k) <= First(m))
    BY <1>1 DEF Layout
  <2>2. \A i \in 0 .. (Count(k) - 1) : First(k) + i # First(m) + f.index
    BY <1>1, <1>2, <1>6, <2>1
  <2> QED
    BY <1>4, <1>6, <2>2 DEF Parts
<1> QED
  BY <1>5, <1>6

-----------------------------------------------------------------------------
(***************************************************************************)
(* What is delivered.                                                      *)
(***************************************************************************)

\* The contents of different messages differ.
LEMMA ContentInjective ==
    ASSUME NEW m, NEW k, NEW n \in Nat, NEW l \in Nat, Content(m, n) = Content(k, l)
    PROVE  m = k
<1>1. 1 \in 1 .. FrameCount(n) /\ 1 \in 1 .. FrameCount(l)
  BY DEF FrameCount
<1>2. Content(m, n)[1] = <<m, 0>> /\ Content(k, l)[1] = <<k, 0>>
  BY <1>1 DEF Content
<1> QED
  BY <1>2

\* Nothing is delivered and no message becomes whole; new ones are not.
LEMMA DeliversNone ==
    ASSUME HandedOver, Delivered' = Delivered, DOMAIN queued \subseteq DOMAIN queued',
           \A m \in DOMAIN queued : queued'[m] = queued[m] /\ (Whole(m)' <=> Whole(m)),
           \A m \in DOMAIN queued' : m \in DOMAIN queued \/ ~ Whole(m)'
    PROVE  HandedOver'
<1> DEFINE C(m) == Content(m, queued[m].chunks)
<1>1. \A m \in DOMAIN queued : C(m)' = C(m)
  BY DEF Content, FrameCount
<1>2. /\ \A m \in DOMAIN queued : Whole(m) => \E j \in DOMAIN Delivered : Delivered[j] = C(m)
      /\ \A j \in DOMAIN Delivered : \E m \in DOMAIN queued : Whole(m) /\ Delivered[j] = C(m)
      /\ \A i, j \in DOMAIN Delivered : Delivered[i] = Delivered[j] => i = j
  BY DEF HandedOver
<1>3. SUFFICES /\ \A m \in DOMAIN queued' : Whole(m)' => \E j \in DOMAIN Delivered' : Delivered'[j] = C(m)'
               /\ \A j \in DOMAIN Delivered' : \E m \in DOMAIN queued' : Whole(m)' /\ Delivered'[j] = C(m)'
               /\ \A i, j \in DOMAIN Delivered' : Delivered'[i] = Delivered'[j] => i = j
  BY DEF HandedOver
<1> HIDE DEF C
<1> QED
  BY <1>1, <1>2

\* One message becomes whole and is delivered.
LEMMA DeliversOne ==
    ASSUME TypeOK, HandedOver, queued' = queued, popped' = popped, NEW m \in DOMAIN queued,
           rx'.delivered = Append(rx.delivered, Content(m, queued[m].chunks)),
           ~ Whole(m), Whole(m)', \A k \in DOMAIN queued : k # m => (Whole(k)' <=> Whole(k))
    PROVE  HandedOver'
<1> DEFINE C(k) == Content(k, queued[k].chunks)
<1>1. \A k \in DOMAIN queued : C(k)' = C(k)
  BY DEF Content, FrameCount
<1>2. /\ \A k \in DOMAIN queued : Whole(k) => \E j \in DOMAIN Delivered : Delivered[j] = C(k)
      /\ \A j \in DOMAIN Delivered : \E k \in DOMAIN queued : Whole(k) /\ Delivered[j] = C(k)
      /\ \A i, j \in DOMAIN Delivered : Delivered[i] = Delivered[j] => i = j
  BY DEF HandedOver
<1>3. SUFFICES /\ \A k \in DOMAIN queued' : Whole(k)' => \E j \in DOMAIN Delivered' : Delivered'[j] = C(k)'
               /\ \A j \in DOMAIN Delivered' : \E k \in DOMAIN queued' : Whole(k)' /\ Delivered'[j] = C(k)'
               /\ \A i, j \in DOMAIN Delivered' : Delivered'[i] = Delivered'[j] => i = j
  BY DEF HandedOver
<1>4. \A k, l \in DOMAIN queued : C(k) = C(l) => k = l
  BY MessageRanges, ContentInjective
<1>5. PICK n \in Nat :
        /\ DOMAIN Delivered = 1 .. n /\ DOMAIN Delivered' = 1 .. (n + 1)
        /\ \A j \in 1 .. n : Delivered'[j] = Delivered[j]
        /\ Delivered'[n + 1] = C(m)
  <2>1. popped \in Seq(Seq(Payloads)) /\ rx.delivered \in Seq(Seq(Payloads))
    BY DEF TypeOK, RxTypeOK
  <2>2. PICK a, c : a = Len(popped) /\ c = Len(rx.delivered)
    OBVIOUS
  <2>3. a \in Nat /\ c \in Nat /\ DOMAIN Delivered = 1 .. (a + c)
    BY <2>1, <2>2 DEF Delivered
  <2>4. \A j \in 1 .. (a + c) : Delivered[j] = IF j <= a THEN popped[j] ELSE rx.delivered[j - a]
    BY <2>1, <2>2, <2>3 DEF Delivered
  <2>5. PICK d : d = C(m)
    OBVIOUS
  <2>6. /\ Len(rx'.delivered) = c + 1
        /\ \A j \in 1 .. c : rx'.delivered[j] = rx.delivered[j]
        /\ rx'.delivered[c + 1] = d /\ DOMAIN rx'.delivered = 1 .. (c + 1)
    BY <2>1, <2>2, <2>5
  <2>61. d \in Seq(Payloads)
    <3>1. m \in Nat /\ FrameCount(queued[m].chunks) \in Nat
      BY MessageRanges DEF Count
    <3>2. C(m) \in [1 .. FrameCount(queued[m].chunks) -> Payloads]
      BY <3>1 DEF Content, Payloads
    <3> QED
      BY <2>5, <3>1, <3>2
  <2>62. popped' = popped /\ rx'.delivered \in Seq(Seq(Payloads))
    BY <2>1, <2>5, <2>61
  <2>7. /\ DOMAIN Delivered' = 1 .. (a + (c + 1))
        /\ \A j \in 1 .. (a + (c + 1)) :
             Delivered'[j] = IF j <= a THEN popped[j] ELSE rx'.delivered[j - a]
    <3>1. PICK p, e : p = popped /\ e = rx'.delivered
      OBVIOUS
    <3>2. Delivered' = p \o e
      BY <2>62, <3>1 DEF Delivered
    <3>3. p \in Seq(Seq(Payloads)) /\ e \in Seq(Seq(Payloads)) /\ Len(p) = a /\ Len(e) = c + 1
      BY <2>1, <2>2, <2>6, <2>62, <3>1
    <3>4. DOMAIN (p \o e) = 1 .. (a + (c + 1))
      BY <2>3, <3>3
    <3>5. \A j \in 1 .. (a + (c + 1)) : (p \o e)[j] = IF j <= a THEN p[j] ELSE e[j - a]
      <4>1. \A S : \A u, v \in Seq(S) : \A j \in 1 .. (Len(u) + Len(v)) :
                (u \o v)[j] = IF j <= Len(u) THEN u[j] ELSE v[j - Len(u)]
        OBVIOUS
      <4> QED
        BY <2>3, <3>3, <4>1
    <3> QED
      BY <3>1, <3>2, <3>4, <3>5
  <2>8. DOMAIN Delivered' = 1 .. (a + c + 1)
    BY <2>3, <2>7
  <2>9. \A j \in 1 .. (a + c) : Delivered'[j] = Delivered[j]
    <3>1. \A j \in 1 .. (a + c) : j \in 1 .. (a + (c + 1)) /\ (~ j <= a => j - a \in 1 .. c)
      BY <2>3
    <3> QED
      BY <2>4, <2>6, <2>7, <3>1
  <2>10. Delivered'[a + c + 1] = d
    <3>1. a + c + 1 \in 1 .. (a + (c + 1)) /\ ~ (a + c + 1 <= a) /\ (a + c + 1) - a = c + 1
      BY <2>3
    <3> QED
      BY <2>6, <2>7, <3>1
  <2> QED
    BY <2>3, <2>5, <2>8, <2>9, <2>10
<1> HIDE DEF C
<1>6. \A j \in 1 .. (n + 1) : j \in 1 .. n \/ j = n + 1
  OBVIOUS
<1>7. 1 .. n \subseteq 1 .. (n + 1) /\ n + 1 \in 1 .. (n + 1)
  OBVIOUS
<1>8. \A j \in 1 .. n : Delivered[j] # C(m)
  BY <1>2, <1>4, <1>5
<1>9. \A k \in DOMAIN queued' : Whole(k)' => \E j \in DOMAIN Delivered' : Delivered'[j] = C(k)'
  BY <1>1, <1>2, <1>5, <1>7
<1>10. \A j \in DOMAIN Delivered' : \E k \in DOMAIN queued' : Whole(k)' /\ Delivered'[j] = C(k)'
  BY <1>1, <1>2, <1>5, <1>6, <1>7
<1>11. \A i, j \in DOMAIN Delivered' : Delivered'[i] = Delivered'[j] => i = j
  BY <1>2, <1>5, <1>6, <1>8
<1> QED
  BY <1>9, <1>10, <1>11

\* pop_delivered moves a message from one history to the other.
LEMMA PopKeepsDelivered == TypeOK /\ PopDelivered => Delivered' = Delivered
<1> SUFFICES ASSUME TypeOK, PopDelivered PROVE Delivered' = Delivered
  OBVIOUS
<1>1. PICK p, d : p = popped /\ d = rx.delivered
  OBVIOUS
<1>2. p \in Seq(Seq(Payloads)) /\ d \in Seq(Seq(Payloads)) /\ d # << >>
  BY <1>1 DEF TypeOK, RxTypeOK, PopDelivered
<1>3. Append(p, Head(d)) \o Tail(d) = p \o d
  BY <1>2
<1>4. popped' = Append(p, Head(d)) /\ rx'.delivered = Tail(d)
  BY <1>1 DEF PopDelivered, pop_delivered, TypeOK, RxTypeOK
<1> QED
  BY <1>1, <1>3, <1>4 DEF Delivered

-----------------------------------------------------------------------------
(***************************************************************************)
(* Reassembly.                                                             *)
(***************************************************************************)

\* What a fresh frame does besides moving the window.
LEMMA FreshReassembles ==
    ASSUME RxTypeOK, NEW f \in DataFrames, Fresh(rx, f.seq),
           rx' = [on_data(rx, f) EXCEPT !.pending_ack = TRUE]
    PROVE  /\ f.total = 1 => /\ rx'.fragments = rx.fragments
                             /\ rx'.delivered = Append(rx.delivered, <<f.payload>>)
           /\ f.total # 1 => /\ rx'.fragments = Reassemble(rx, f).fragments
                             /\ rx'.delivered = Reassemble(rx, f).delivered
<1> DEFINE q == mark_received(rx, f.seq)
<1>1. f.seq \in Seqs
  BY DEF DataFrames
<1>2. q = [rx EXCEPT !.recv_base = q.recv_base, !.recv_bits = q.recv_bits]
  BY <1>1, MarkReceivedType
<1>3. on_data(rx, f) = IF f.total = 1 THEN [q EXCEPT !.delivered = Append(q.delivered, <<f.payload>>)]
                       ELSE Reassemble(q, f)
  BY DEF on_data
<1> HIDE DEF q
<1>4. /\ q = [recv_base |-> q.recv_base, recv_bits |-> q.recv_bits, fragments |-> q.fragments,
              delivered |-> q.delivered, pending_ack |-> q.pending_ack]
      /\ q.fragments = rx.fragments /\ q.delivered = rx.delivered
  BY <1>2 DEF RxTypeOK
<1>5. CASE f.total = 1
  BY <1>3, <1>4, <1>5
<1>6. CASE f.total # 1
  <2>1. rx' = [Reassemble(q, f) EXCEPT !.pending_ack = TRUE]
    BY <1>3, <1>6
  <2>2. FragBuf(q, f) = FragBuf(rx, f)
    BY <1>4 DEF FragBuf
  <2>3. PICK buf : buf = FragBuf(rx, f)
    OBVIOUS
  <2> DEFINE parts == IF buf.total # f.total \/ f.index >= buf.total
                      THEN buf.parts
                      ELSE [i \in {f.index} \cup DOMAIN buf.parts |->
                               IF i = f.index THEN f.payload ELSE buf.parts[i]]
             complete == DOMAIN parts = 0 .. (buf.total - 1)
             others == DOMAIN rx.fragments \ {f.frag_id}
             after == [y \in IF complete THEN others ELSE others \cup {f.frag_id} |->
                          IF y = f.frag_id THEN [buf EXCEPT !.parts = parts] ELSE rx.fragments[y]]
             out == IF complete THEN Append(rx.delivered, [i \in 1 .. buf.total |-> parts[i - 1]])
                    ELSE rx.delivered
  <2>4. Reassemble(q, f) = [q EXCEPT !.fragments = after, !.delivered = out]
    BY <1>4, <2>2, <2>3 DEF Reassemble
  <2>5. Reassemble(rx, f) = [rx EXCEPT !.fragments = after, !.delivered = out]
    BY <2>3 DEF Reassemble
  <2> HIDE DEF after, out
  <2>6. Reassemble(q, f).fragments = after /\ Reassemble(q, f).delivered = out
    BY <1>4, <2>4
  <2>7. Reassemble(rx, f).fragments = after /\ Reassemble(rx, f).delivered = out
    BY <2>5 DEF RxTypeOK
  <2>8. rx'.fragments = Reassemble(q, f).fragments /\ rx'.delivered = Reassemble(q, f).delivered
    BY <1>4, <2>1, <2>4
  <2> QED
    BY <1>6, <2>6, <2>7, <2>8
<1> QED
  BY <1>5, <1>6

\* A buffer's parts with the chunk of f.
WithChunk(P, f) == [i \in {f.index} \cup DOMAIN P |-> IF i = f.index THEN f.payload ELSE P[i]]

\* Reassemble into a buffer P of f's message: it is completed and delivered, or
\* kept.
LEMMA ReassembleInto ==
    ASSUME RxTypeOK, NEW f \in DataFrames, NEW P,
           FragBuf(rx, f) = [total |-> f.total, parts |-> P], f.index < f.total
    PROVE  LET Q == WithChunk(P, f)
               r == Reassemble(rx, f)
           IN  IF DOMAIN Q = 0 .. (f.total - 1)
               THEN /\ r.fragments = [y \in DOMAIN rx.fragments \ {f.frag_id} |-> rx.fragments[y]]
                    /\ r.delivered = Append(rx.delivered, [i \in 1 .. f.total |-> Q[i - 1]])
               ELSE /\ r.fragments = [y \in DOMAIN rx.fragments \cup {f.frag_id} |->
                            IF y = f.frag_id THEN [total |-> f.total, parts |-> Q] ELSE rx.fragments[y]]
                    /\ r.delivered = rx.delivered
<1>1. f.total \in Nat /\ f.index \in Nat
  BY WidthsAssumption DEF DataFrames
<1>2. PICK buf : buf = [total |-> f.total, parts |-> P] /\ buf = FragBuf(rx, f)
  OBVIOUS
<1>3. /\ buf.total = f.total /\ buf.parts = P /\ ~ (buf.total # f.total \/ f.index >= buf.total)
  BY <1>1, <1>2
<1>4. PICK Q : Q = WithChunk(P, f)
  OBVIOUS
<1>5. [buf EXCEPT !.parts = Q] = [total |-> f.total, parts |-> Q]
  BY <1>2
<1> DEFINE complete == DOMAIN Q = 0 .. (f.total - 1)
           others == DOMAIN rx.fragments \ {f.frag_id}
           after == [y \in IF complete THEN others ELSE others \cup {f.frag_id} |->
                        IF y = f.frag_id THEN [total |-> f.total, parts |-> Q] ELSE rx.fragments[y]]
           out == IF complete THEN Append(rx.delivered, [i \in 1 .. f.total |-> Q[i - 1]])
                  ELSE rx.delivered
<1>6. Reassemble(rx, f) = [rx EXCEPT !.fragments = after, !.delivered = out]
  <2> DEFINE parts == IF buf.total # f.total \/ f.index >= buf.total
                      THEN buf.parts
                      ELSE [i \in {f.index} \cup DOMAIN buf.parts |->
                               IF i = f.index THEN f.payload ELSE buf.parts[i]]
             whole == DOMAIN parts = 0 .. (buf.total - 1)
             kept == [y \in IF whole THEN others ELSE others \cup {f.frag_id} |->
                         IF y = f.frag_id THEN [buf EXCEPT !.parts = parts] ELSE rx.fragments[y]]
             given == IF whole THEN Append(rx.delivered, [i \in 1 .. buf.total |-> parts[i - 1]])
                      ELSE rx.delivered
  <2>1. Reassemble(rx, f) = [rx EXCEPT !.fragments = kept, !.delivered = given]
    BY <1>2 DEF Reassemble
  <2>2. parts = Q
    BY <1>3, <1>4 DEF WithChunk
  <2> HIDE DEF parts
  <2>3. kept = after /\ given = out
    BY <1>3, <1>5, <2>2
  <2> QED
    BY <2>1, <2>3
<1>7. Reassemble(rx, f).fragments = after /\ Reassemble(rx, f).delivered = out
  <2> HIDE DEF after, out
  <2> QED
    BY <1>6 DEF RxTypeOK
<1>8. CASE complete
  <2>1. after = [y \in others |-> rx.fragments[y]]
    BY <1>8
  <2> QED
    BY <1>4, <1>7, <1>8, <2>1
<1>9. CASE ~ complete
  <2>1. others \cup {f.frag_id} = DOMAIN rx.fragments \cup {f.frag_id}
    OBVIOUS
  <2>2. after = [y \in DOMAIN rx.fragments \cup {f.frag_id} |->
                    IF y = f.frag_id THEN [total |-> f.total, parts |-> Q] ELSE rx.fragments[y]]
    BY <1>9, <2>1
  <2> QED
    BY <1>4, <1>7, <1>9, <2>2
<1> QED
  BY <1>8, <1>9

\* A fresh frame lies in the receive window and was not accepted before.
LEMMA FreshOffset ==
    ASSUME TypeOK, FlowInv, NEW s \in Assigned, Fresh(rx, s)
    PROVE  /\ s \in Seqs /\ Offset(s) \in Nat /\ ~ AcceptedAt(Offset(s))
           /\ Offset(s) < Offset(rx.recv_base) + RECV_WINDOW
<1>1. s \in Seqs /\ rx.recv_base \in Seqs /\ Offset(s) \in Nat /\ Offset(rx.recv_base) \in Nat
  BY OffsetRanges DEF Assigned
<1>2. wrapping_sub(s, rx.recv_base) < RECV_WINDOW /\ wrapping_sub(s, rx.recv_base) \notin rx.recv_bits
  BY DEF Fresh
<1>3. Offset(rx.recv_base) <= MaxFrames
  <2>1. Offset(tx.next_seq) \in Nat
    BY OffsetRanges
  <2> QED
    BY <1>1, <2>1, InstanceAssumption DEF FlowInv
<1>4. Offset(s) >= Offset(rx.recv_base)
  <2> SUFFICES ASSUME Offset(s) < Offset(rx.recv_base) PROVE FALSE
    BY <1>1
  <2>1. wrapping_sub(s, rx.recv_base) = Offset(s) - Offset(rx.recv_base) + SEQ_MOD
    BY <1>1, OffsetSub
  <2> QED
    BY <1>1, <1>2, <1>3, <2>1, InstanceAssumption, WidthsAssumption
<1>5. wrapping_sub(s, rx.recv_base) = Offset(s) - Offset(rx.recv_base)
  BY <1>1, <1>4, OffsetSub
<1>6. ~ AcceptedAt(Offset(s))
  BY <1>1, <1>2, <1>4, <1>5 DEF AcceptedAt
<1> QED
  BY <1>1, <1>2, <1>5, <1>6, WidthsAssumption

\* A fresh frame completes its message, which is delivered, or goes into the
\* message's own buffer; the buffers of other messages stay.
LEMMA FreshDelivery ==
    ASSUME IdsOutlastWindow, NoFalseAckInv, Layout, HandedOver,
           NEW id, IdsApart(id), Buffers(id),
           NEW f \in DataFrames, Belongs(f, id), f.seq \in Assigned, Fresh(rx, f.seq),
           rx' = [on_data(rx, f) EXCEPT !.pending_ack = TRUE],
           queued' = queued, popped' = popped
    PROVE  Buffers(id)' /\ HandedOver'
<1> USE DEF NoFalseAckInv
<1>1. PICK m : m = f.payload[1]
  OBVIOUS
<1>2. /\ m \in DOMAIN queued /\ f.payload = <<m, f.index>> /\ f.index \in 0 .. (Count(m) - 1)
      /\ Offset(f.seq) = First(m) + f.index /\ f.total = Count(m) /\ f.frag_id = id[m]
  BY <1>1 DEF Belongs
<1>3. Count(m) \in Nat /\ Count(m) >= 1 /\ First(m) \in Nat /\ m \in Nat
  BY <1>2, MessageRanges
<1>4. ~ AcceptedAt(First(m) + f.index) /\ First(m) + f.index < Offset(rx.recv_base) + RECV_WINDOW
  BY <1>2, FreshOffset
<1>5. \A o \in Nat : AcceptedAt(o)' <=> AcceptedAt(o) \/ o = Offset(f.seq)
  <2>1. f.seq \in Seqs
    BY DEF DataFrames
  <2>2. rx'.recv_base = on_data(rx, f).recv_base /\ rx'.recv_bits = on_data(rx, f).recv_bits
    <3>1. RxTypeOK'
      BY OnDataType DEF TypeOK
    <3> QED
      BY <3>1 DEF RxTypeOK
  <2>3. /\ rx'.recv_base = mark_received(rx, f.seq).recv_base
        /\ rx'.recv_bits = mark_received(rx, f.seq).recv_bits
    BY <2>2, OnDataWindow DEF TypeOK
  <2> QED
    BY <2>1, <2>3, MarkReceivedAccepts
<1>6. \A k \in DOMAIN queued :
        /\ Parts(k)' = (IF k = m THEN Parts(k) \cup {f.index} ELSE Parts(k))
        /\ Count(k)' = Count(k)
  BY <1>1, <1>5, FreshPart DEF Count
<1>7. Parts(m) \subseteq 0 .. (Count(m) - 1) /\ f.index \notin Parts(m)
  BY <1>4 DEF Parts
<1>8. ~ Whole(m) /\ (Whole(m)' <=> Parts(m) \cup {f.index} = 0 .. (Count(m) - 1))
  BY <1>2, <1>6, <1>7 DEF Whole
<1>9. \A k \in DOMAIN queued : k # m => (Whole(k)' <=> Whole(k)) /\ (Partial(k)' <=> Partial(k))
  BY <1>6 DEF Whole, Partial
<1>10. \A k \in DOMAIN queued : k # m /\ Partial(k) /\ Count(m) > 1 => id[k] # id[m]
  BY <1>2, <1>4, IdsDiffer
<1>101. RxTypeOK
  BY DEF TypeOK
<1>102. /\ f.total = 1 => rx'.fragments = rx.fragments /\ rx'.delivered = Append(rx.delivered, <<f.payload>>)
        /\ f.total # 1 => /\ rx'.fragments = Reassemble(rx, f).fragments
                          /\ rx'.delivered = Reassemble(rx, f).delivered
  BY <1>101, FreshReassembles
<1>11. CASE f.total = 1
  <2>1. rx'.fragments = rx.fragments /\ rx'.delivered = Append(rx.delivered, <<f.payload>>)
    BY <1>102, <1>11
  <2>2. Count(m) = 1 /\ f.index = 0 /\ ~ Partial(m) /\ ~ Partial(m)'
    <3>1. Count(m) = 1 /\ Count(m)' = 1
      BY <1>2, <1>6, <1>11
    <3>2. f.index \in 0 .. 0
      BY <1>2, <3>1
    <3> QED
      BY <3>1, <3>2 DEF Partial
  <2>3. Whole(m)'
    BY <1>7, <1>8, <2>2
  <2>4. Content(m, queued[m].chunks) = <<f.payload>>
    <3>1. Content(m, queued[m].chunks) = [i \in 1 .. 1 |-> <<m, i - 1>>]
      BY <2>2 DEF Content, Count
    <3>2. f.payload = <<m, 0>>
      BY <1>2, <2>2
    <3>3. [i \in 1 .. 1 |-> <<m, i - 1>>] = << <<m, 0>> >>
      OBVIOUS
    <3> QED
      BY <3>1, <3>2, <3>3
  <2>5. HandedOver'
    BY <1>2, <1>8, <1>9, <2>1, <2>3, <2>4, DeliversOne
  <2>6. \A k \in DOMAIN queued : Partial(k)' <=> Partial(k)
    BY <1>9, <2>2
  <2>7. \A k \in DOMAIN queued : Partial(k) => (Buffered(k, id[k])' <=> Buffered(k, id[k]))
    BY <1>6, <2>1, <2>2 DEF Buffered
  <2>8. Buffers(id)'
    BY <2>1, <2>6, <2>7 DEF Buffers
  <2> QED
    BY <2>5, <2>8
<1>12. CASE f.total # 1
  <2>1. Count(m) > 1
    BY <1>2, <1>3, <1>12
  <2>2. PICK P : /\ FragBuf(rx, f) = [total |-> f.total, parts |-> P]
                 /\ DOMAIN P = Parts(m) /\ \A i \in Parts(m) : P[i] = <<m, i>>
    <3>1. CASE Partial(m)
      <4>1. Buffered(m, id[m])
        BY <1>2, <3>1 DEF Buffers
      <4>2. FragBuf(rx, f) = rx.fragments[id[m]]
        BY <1>2, <4>1 DEF FragBuf, Buffered
      <4>3. rx.fragments[id[m]] = [total |-> rx.fragments[id[m]].total, parts |-> rx.fragments[id[m]].parts]
        BY <4>1 DEF TypeOK, RxTypeOK, Buffered
      <4> QED
        BY <1>2, <4>1, <4>2, <4>3 DEF Buffered
    <3>2. CASE ~ Partial(m)
      <4>1. Parts(m) = {}
        BY <1>8, <2>1, <3>2 DEF Partial
      <4>2. id[m] \notin DOMAIN rx.fragments
        BY <1>10, <2>1, <3>2 DEF Buffers
      <4>3. FragBuf(rx, f) = [total |-> f.total, parts |-> << >>]
        BY <1>2, <4>2 DEF FragBuf
      <4>4. DOMAIN << >> = {}
        OBVIOUS
      <4> QED
        BY <4>1, <4>3, <4>4
    <3> QED
      BY <3>1, <3>2
  <2>3. PICK Q : Q = WithChunk(P, f)
    OBVIOUS
  <2>4. /\ DOMAIN Q = Parts(m) \cup {f.index}
        /\ \A i \in DOMAIN Q : Q[i] = <<m, i>>
    BY <1>2, <2>2, <2>3 DEF WithChunk
  <2>5. f.index < f.total
    BY <1>2, <1>3
  <2>6. IF DOMAIN Q = 0 .. (f.total - 1)
        THEN /\ rx'.fragments = [y \in DOMAIN rx.fragments \ {f.frag_id} |-> rx.fragments[y]]
             /\ rx'.delivered = Append(rx.delivered, [i \in 1 .. f.total |-> Q[i - 1]])
        ELSE /\ rx'.fragments = [y \in DOMAIN rx.fragments \cup {f.frag_id} |->
                    IF y = f.frag_id THEN [total |-> f.total, parts |-> Q] ELSE rx.fragments[y]]
             /\ rx'.delivered = rx.delivered
    <3>1. rx'.fragments = Reassemble(rx, f).fragments /\ rx'.delivered = Reassemble(rx, f).delivered
      BY <1>102, <1>12
    <3>2. LET C == WithChunk(P, f)
              r == Reassemble(rx, f)
          IN  IF DOMAIN C = 0 .. (f.total - 1)
              THEN /\ r.fragments = [y \in DOMAIN rx.fragments \ {f.frag_id} |-> rx.fragments[y]]
                   /\ r.delivered = Append(rx.delivered, [i \in 1 .. f.total |-> C[i - 1]])
              ELSE /\ r.fragments = [y \in DOMAIN rx.fragments \cup {f.frag_id} |->
                           IF y = f.frag_id THEN [total |-> f.total, parts |-> C] ELSE rx.fragments[y]]
                   /\ r.delivered = rx.delivered
      <4>1. FragBuf(rx, f) = [total |-> f.total, parts |-> P]
        BY <2>2
      <4> QED
        BY <1>101, <2>5, <4>1, ReassembleInto
    <3> QED
      BY <2>3, <3>1, <3>2
  <2>7. \A k \in DOMAIN queued : k # m /\ Partial(k) =>
            /\ id[k] \in DOMAIN rx'.fragments /\ rx'.fragments[id[k]] = rx.fragments[id[k]]
    BY <1>2, <1>10, <2>1, <2>6 DEF Buffers, Buffered
  <2>8. \A k \in DOMAIN queued : k # m /\ Partial(k)' => Buffered(k, id[k])'
    BY <1>6, <1>9, <2>7 DEF Buffers, Buffered
  <2>9. \A x \in DOMAIN rx'.fragments :
            x # id[m] => \E k \in DOMAIN queued : Partial(k)' /\ id[k] = x
    <3> SUFFICES ASSUME NEW x \in DOMAIN rx'.fragments, x # id[m]
                 PROVE  \E k \in DOMAIN queued : Partial(k)' /\ id[k] = x
      OBVIOUS
    <3>1. x \in DOMAIN rx.fragments
      BY <1>2, <2>6
    <3> QED
      BY <1>9, <3>1 DEF Buffers
  <2>10. CASE DOMAIN Q = 0 .. (f.total - 1)
    <3>1. Whole(m)' /\ ~ Partial(m)' /\ id[m] \notin DOMAIN rx'.fragments
      BY <1>2, <1>8, <2>4, <2>6, <2>10 DEF Partial
    <3>2. rx'.delivered = Append(rx.delivered, Content(m, queued[m].chunks))
      <4>1. \A i \in 1 .. f.total : i - 1 \in DOMAIN Q
        BY <1>2, <1>3, <2>10
      <4>2. [i \in 1 .. f.total |-> Q[i - 1]] = Content(m, queued[m].chunks)
        BY <1>2, <2>4, <4>1 DEF Content, Count
      <4> QED
        BY <2>6, <2>10, <4>2
    <3>3. HandedOver'
      BY <1>2, <1>8, <1>9, <3>1, <3>2, DeliversOne
    <3> QED
      BY <2>8, <2>9, <3>1, <3>3 DEF Buffers
  <2>11. CASE DOMAIN Q # 0 .. (f.total - 1)
    <3>1. ~ Whole(m)'
      BY <1>2, <1>8, <2>4, <2>11
    <3>2. Partial(m)'
      BY <1>2, <1>6, <2>1, <3>1 DEF Partial
    <3>3. rx'.delivered = rx.delivered /\ id[m] \in DOMAIN rx'.fragments
          /\ rx'.fragments[id[m]] = [total |-> f.total, parts |-> Q]
      BY <1>2, <2>6, <2>11
    <3>4. Buffered(m, id[m])'
      <4>1. Parts(m)' = DOMAIN Q /\ Count(m)' = f.total
        BY <1>2, <1>6, <2>4
      <4>2. rx'.fragments[id[m]].total = f.total /\ rx'.fragments[id[m]].parts = Q
        BY <3>3
      <4> QED
        BY <2>4, <3>3, <4>1, <4>2 DEF Buffered
    <3>5. Delivered' = Delivered
      BY <3>3 DEF Delivered
    <3>6. HandedOver'
      BY <1>8, <1>9, <3>1, <3>5, DeliversNone
    <3> QED
      BY <1>2, <2>8, <2>9, <3>2, <3>4, <3>6 DEF Buffers
  <2> QED
    BY <2>10, <2>11
<1> QED
  BY <1>11, <1>12

-----------------------------------------------------------------------------
(***************************************************************************)
(* The invariant is kept.                                                  *)
(***************************************************************************)

\* A step that queues nothing, accepts nothing and sends only what is queued.
LEMMA QuietDelivery ==
    ASSUME Layout, HandedOver, NEW id, IdsApart(id), FramesBelong(id), Buffers(id),
           queued' = queued, tx'.next_seq = tx.next_seq, tx'.next_frag_id = tx.next_frag_id,
           rx'.recv_base = rx.recv_base, rx'.recv_bits = rx.recv_bits,
           rx'.fragments = rx.fragments, Delivered' = Delivered,
           \A s \in DOMAIN tx'.unacked :
               s \in DOMAIN tx.unacked /\ tx'.unacked[s].plaintext = tx.unacked[s].plaintext,
           \A f \in wire' : f.kind = "data" =>
               f \in wire \/ \E s \in DOMAIN tx.unacked : f = tx.unacked[s].plaintext
    PROVE  Layout' /\ HandedOver' /\ IdsApart(id)' /\ FramesBelong(id)' /\ Buffers(id)'
<1>1. \A m : First(m)' = First(m) /\ Count(m)' = Count(m) /\ End(m)' = End(m)
  BY DEF First, Count, End, Offset, wrapping_sub
<1>2. Offset(tx'.next_seq) = Offset(tx.next_seq) /\ Offset(tx.next_seq)' = Offset(tx.next_seq)
  BY DEF Offset, wrapping_sub
<1>3. \A o : AcceptedAt(o)' <=> AcceptedAt(o)
  BY DEF AcceptedAt, Offset, wrapping_sub
<1>4. \A m : Parts(m)' = Parts(m)
  <2> SUFFICES ASSUME NEW m PROVE Parts(m)' = Parts(m)
    OBVIOUS
  <2>1. PICK a, n : a = First(m) /\ n = Count(m)
    OBVIOUS
  <2>2. Parts(m)' = {i \in 0 .. (n - 1) : AcceptedAt(a + i)'}
    BY <1>1, <2>1 DEF Parts
  <2> QED
    BY <1>3, <2>1, <2>2 DEF Parts
<1>5. \A m : (Whole(m)' <=> Whole(m)) /\ (Partial(m)' <=> Partial(m))
  BY <1>1, <1>4 DEF Whole, Partial
<1>6. Layout'
  BY <1>1, <1>2 DEF Layout
<1>7. HandedOver'
  BY <1>5, DeliversNone
<1>8. IdsApart(id)'
  <2>1. \A m, a : FarBack(m, a)' <=> FarBack(m, a)
    BY <1>1, <1>2 DEF FarBack, Turns
  <2> QED
    BY <1>1, <2>1 DEF IdsApart
<1>9. \A f : Belongs(f, id)' <=> Belongs(f, id)
  BY <1>1 DEF Belongs, Offset, wrapping_sub
<1>10. FramesBelong(id)'
  BY <1>9 DEF FramesBelong
<1>11. \A m, x : Buffered(m, x)' <=> Buffered(m, x)
  BY <1>1, <1>4 DEF Buffered
<1>12. Buffers(id)'
  BY <1>5, <1>11 DEF Buffers
<1> QED
  BY <1>6, <1>7, <1>8, <1>10, <1>12

\* The slots of a new message hold its frames.
LEMMA EnqueueFrames ==
    ASSUME TypeOK, FlowInv, NEW n \in Sizes, Enqueue(n)
    PROVE  \A s \in DOMAIN tx'.unacked :
              \/ s \in DOMAIN tx.unacked /\ tx'.unacked[s] = tx.unacked[s]
              \/ \E i \in 0 .. (FrameCount(n) - 1) :
                    /\ Offset(s) = Offset(tx.next_seq) + i
                    /\ tx'.unacked[s].plaintext =
                         encode_data(s, IF n = 0 THEN 0 ELSE tx.next_frag_id, i, FrameCount(n),
                                     <<Len(queued) + 1, i>>)
<1> DEFINE count == FrameCount(n)
           frag == IF n = 0 THEN 0 ELSE tx.next_frag_id
           new == {wrapping_add(tx.next_seq, i) : i \in 0 .. (count - 1)}
           slot(s) == [plaintext |-> encode_data(s, frag, wrapping_sub(s, tx.next_seq), count,
                                                 <<Len(queued) + 1, wrapping_sub(s, tx.next_seq)>>),
                       age |-> Never, attempts |-> 0]
<1>1. tx'.unacked = [s \in new \cup DOMAIN tx.unacked |-> IF s \in new THEN slot(s) ELSE tx.unacked[s]]
  BY DEF Enqueue, enqueue, TypeOK, TxTypeOK
<1>2. /\ tx.next_seq \in Seqs /\ Offset(tx.next_seq) \in Nat
      /\ count \in Nat /\ count >= 1 /\ Offset(tx.next_seq) + count <= MaxFrames
  <2>1. n \in Nat
    BY InstanceAssumption, WidthsAssumption
  <2>2. count \in Nat /\ count >= 1
    BY <2>1 DEF FrameCount
  <2> QED
    BY <2>2, OffsetRanges DEF Enqueue
<1> SUFFICES ASSUME NEW s \in DOMAIN tx'.unacked
             PROVE  \/ s \in DOMAIN tx.unacked /\ tx'.unacked[s] = tx.unacked[s]
                    \/ \E i \in 0 .. (count - 1) :
                         /\ Offset(s) = Offset(tx.next_seq) + i
                         /\ tx'.unacked[s].plaintext = encode_data(s, frag, i, count, <<Len(queued) + 1, i>>)
  OBVIOUS
<1>3. CASE s \notin new
  BY <1>1, <1>3
<1>4. CASE s \in new
  <2>1. PICK i \in 0 .. (count - 1) : s = wrapping_add(tx.next_seq, i)
    BY <1>4
  <2> HIDE DEF count, frag, new
  <2>2. i \in Nat /\ Offset(tx.next_seq) + i < SEQ_MOD
    BY <1>2, <2>1, WidthsAssumption, InstanceAssumption
  <2>3. s \in Seqs /\ Offset(s) = Offset(tx.next_seq) + i
    BY <1>2, <2>1, <2>2, OffsetAdd
  <2>4. wrapping_sub(s, tx.next_seq) = i
    BY <1>2, <2>2, <2>3, OffsetSub
  <2>5. tx'.unacked[s] = slot(s)
    BY <1>1, <1>4
  <2> QED
    BY <2>1, <2>3, <2>4, <2>5
<1> QED
  BY <1>3, <1>4

\* What the receive half has accepted lies before the next sequence number.
LEMMA AcceptedAssigned ==
    ASSUME TypeOK, FlowInv, NEW o \in Nat, AcceptedAt(o)
    PROVE  o < Offset(tx.next_seq)
<1>1. Offset(rx.recv_base) \in Nat /\ Offset(tx.next_seq) \in Nat
  BY OffsetRanges
<1>2. /\ Offset(rx.recv_base) <= Offset(tx.next_seq)
      /\ \A b \in rx.recv_bits : Offset(rx.recv_base) + b < Offset(tx.next_seq)
  BY DEF FlowInv
<1>3. CASE o < Offset(rx.recv_base)
  BY <1>1, <1>2, <1>3
<1>4. CASE o - Offset(rx.recv_base) \in rx.recv_bits
  <2>1. Offset(rx.recv_base) + (o - Offset(rx.recv_base)) = o
    BY <1>1
  <2> QED
    BY <1>2, <1>4, <2>1
<1> QED
  BY <1>3, <1>4 DEF AcceptedAt

\* A new message takes the next frames and the next fragment id.
LEMMA EnqueueDelivery ==
    ASSUME NoFalseAckInv, Layout, HandedOver, NEW n \in Sizes, Enqueue(n),
           NEW id, IdsApart(id), FramesBelong(id), Buffers(id)
    PROVE  /\ Layout' /\ HandedOver'
           /\ \E new : IdsApart(new)' /\ FramesBelong(new)' /\ Buffers(new)'
<1> USE DEF NoFalseAckInv
<1>1. PICK K, o, c, g : /\ K = Len(queued) + 1 /\ o = Offset(tx.next_seq)
                        /\ c = FrameCount(n) /\ g = IF n = 0 THEN 0 ELSE tx.next_frag_id
  OBVIOUS
<1>2. /\ queued' = Append(queued, [first |-> tx.next_seq, chunks |-> n])
      /\ queued \in Seq([first : Seqs, chunks : Sizes]) /\ tx.next_seq \in Seqs
  BY DEF Enqueue, TypeOK, TxTypeOK
<1>3. /\ K \in Nat /\ K \notin DOMAIN queued /\ DOMAIN queued = 1 .. (K - 1)
      /\ DOMAIN queued' = DOMAIN queued \cup {K}
      /\ \A m \in DOMAIN queued : m \in Nat /\ m < K /\ queued'[m] = queued[m]
      /\ queued'[K] = [first |-> tx.next_seq, chunks |-> n]
  BY <1>1, <1>2
<1>4. /\ n \in Nat /\ c \in Nat /\ c >= 1 /\ o \in Nat
      /\ (c > 1 => n > 0)
  <2>1. n \in Nat
    BY InstanceAssumption, WidthsAssumption
  <2> QED
    BY <1>1, <2>1, OffsetRanges DEF FrameCount
<1>5. /\ \A m \in DOMAIN queued : First(m)' = First(m) /\ Count(m)' = Count(m) /\ End(m)' = End(m)
      /\ First(K)' = o /\ Count(K)' = c /\ End(K)' = o + c
  BY <1>1, <1>3 DEF First, Count, End, Offset, wrapping_sub
<1>6. \A m \in DOMAIN queued :
        /\ First(m) \in Nat /\ Count(m) \in Nat /\ End(m) \in Nat /\ queued[m].chunks \in Nat
        /\ End(m) <= o
  BY <1>1, MessageRanges DEF Layout
<1>7. Offset(tx'.next_seq) = o + c /\ Offset(tx.next_seq)' = o + c
  <2>1. Offset(tx'.next_seq) = o + c
    BY <1>1, EnqueueSlots
  <2> QED
    BY <2>1 DEF Offset, wrapping_sub
<1>8. rx' = rx /\ popped' = popped /\ wire' = wire
  BY DEF Enqueue
<1>9. \A p : AcceptedAt(p)' <=> AcceptedAt(p)
  BY <1>8 DEF AcceptedAt, Offset, wrapping_sub
<1>10. \A m \in DOMAIN queued : Parts(m)' = Parts(m)
  <2> SUFFICES ASSUME NEW m \in DOMAIN queued PROVE Parts(m)' = Parts(m)
    OBVIOUS
  <2>1. PICK a, l : a = First(m) /\ l = Count(m)
    OBVIOUS
  <2>2. Parts(m)' = {i \in 0 .. (l - 1) : AcceptedAt(a + i)'}
    BY <1>5, <2>1 DEF Parts
  <2> QED
    BY <1>9, <2>1, <2>2 DEF Parts
<1>11. Parts(K)' = {} /\ ~ Whole(K)' /\ ~ Partial(K)'
  <2>1. Parts(K)' = {i \in 0 .. (c - 1) : AcceptedAt(o + i)'}
    BY <1>5 DEF Parts
  <2>2. \A i \in 0 .. (c - 1) : ~ AcceptedAt(o + i)
    <3> SUFFICES ASSUME NEW i \in 0 .. (c - 1), AcceptedAt(o + i) PROVE FALSE
      OBVIOUS
    <3>1. o + i \in Nat /\ ~ (o + i < o)
      BY <1>4
    <3> QED
      BY <1>1, <3>1, AcceptedAssigned
  <2>3. Parts(K)' = {} /\ 0 \in 0 .. (c - 1)
    BY <1>4, <1>9, <2>1, <2>2
  <2>4. Whole(K)' <=> Parts(K)' = 0 .. (c - 1)
    BY <1>5 DEF Whole
  <2> QED
    BY <2>3, <2>4 DEF Partial
<1>12. \A m \in DOMAIN queued : (Whole(m)' <=> Whole(m)) /\ (Partial(m)' <=> Partial(m))
  BY <1>5, <1>10 DEF Whole, Partial
<1>13. Layout'
  <2>1. \A m, k \in DOMAIN queued : m < k => End(m) <= First(k)
    BY DEF Layout
  <2>2. \A m \in DOMAIN queued' : End(m)' <= o + c
    BY <1>3, <1>4, <1>5, <1>6
  <2>3. \A m, k \in DOMAIN queued' : m < k => End(m)' <= First(k)'
    BY <1>3, <1>5, <1>6, <2>1
  <2> QED
    BY <1>7, <2>2, <2>3 DEF Layout
<1>14. HandedOver'
  <2>1. Delivered' = Delivered
    BY <1>8 DEF Delivered
  <2> QED
    BY <1>3, <1>11, <1>12, <2>1, DeliversNone
<1>15. PICK new : new = [m \in DOMAIN queued \cup {K} |-> IF m = K THEN g ELSE id[m]]
  OBVIOUS
<1>16. /\ tx.next_frag_id \in 1 .. (FRAG_MOD - 1) /\ FRAG_MOD \in Nat
       /\ tx'.next_frag_id = IF n = 0 THEN tx.next_frag_id ELSE NextFragId(tx.next_frag_id)
       /\ new[K] = g /\ \A m \in DOMAIN queued : new[m] = id[m]
  BY <1>3, <1>15, WidthsAssumption DEF TypeOK, TxTypeOK, Enqueue, enqueue
<1>17. IdsApart(new)'
  <2>1. /\ id \in [DOMAIN queued -> 0 .. (FRAG_MOD - 1)]
        /\ \A m \in DOMAIN queued : queued[m].chunks > 0 =>
             id[m] > 0 /\ FarBack(m, id[m])
        /\ \A m, k \in DOMAIN queued :
             /\ m < k /\ id[m] = id[k]
             /\ queued[m].chunks > 0 /\ queued[k].chunks > 0
             => First(k) >= End(m) + FRAG_MOD - 2
    BY DEF IdsApart
  <2>2. new \in [DOMAIN queued' -> 0 .. (FRAG_MOD - 1)]
    BY <1>1, <1>3, <1>15, <1>16, <2>1
  <2>3. \A m \in DOMAIN queued' : queued'[m].chunks > 0 =>
            new[m] > 0 /\ FarBack(m, new[m])'
    <3> SUFFICES ASSUME NEW m \in DOMAIN queued', queued'[m].chunks > 0
                 PROVE  new[m] > 0 /\ FarBack(m, new[m])'
      OBVIOUS
    <3>1. CASE m = K
      <4>1. n > 0 /\ g = tx.next_frag_id /\ new[m] = g /\ End(m)' = o + c
        BY <1>1, <1>3, <1>4, <1>5, <1>16, <3>1
      <4> QED
        BY <1>4, <1>7, <1>16, <4>1 DEF FarBack, Turns, NextFragId
    <3>2. CASE m \in DOMAIN queued
      <4>1. PICK x, e, y : x = id[m] /\ e = End(m) /\ y = tx.next_frag_id
        OBVIOUS
      <4>2. /\ new[m] = x /\ End(m)' = e /\ x \in 0 .. (FRAG_MOD - 1) /\ x > 0 /\ e \in Nat
            /\ FarBack(m, x) /\ y \in 1 .. (FRAG_MOD - 1)
            /\ tx'.next_frag_id = IF n = 0 THEN y ELSE NextFragId(y)
        BY <1>3, <1>5, <1>6, <1>16, <2>1, <3>2, <4>1
      <4>3. FarBack(m, x)'
        <5>1. o - e >= Turns(x) - 1
          BY <1>1, <4>1, <4>2 DEF FarBack
        <5>2. o + c - e >= Turns(x)' - 1
          BY <1>4, <1>16, <4>1, <4>2, <5>1 DEF Turns, NextFragId
        <5> QED
          <6>1. PICK t : t = Turns(x)'
            OBVIOUS
          <6>2. Offset(tx.next_seq)' = o + c /\ End(m)' = e
            BY <1>7, <4>2
          <6>3. FarBack(m, x)' <=> Offset(tx.next_seq)' - End(m)' >= t - 1
            BY <6>1 DEF FarBack
          <6> QED
            BY <1>4, <4>2, <5>2, <6>1, <6>2, <6>3
      <4> QED
        BY <4>2, <4>3
    <3> QED
      BY <1>3, <3>1, <3>2
  <2>4. \A m, k \in DOMAIN queued' :
            /\ m < k /\ new[m] = new[k]
            /\ queued'[m].chunks > 0 /\ queued'[k].chunks > 0
            => First(k)' >= End(m)' + FRAG_MOD - 2
    <3> SUFFICES ASSUME NEW m \in DOMAIN queued', NEW k \in DOMAIN queued', m < k, new[m] = new[k],
                        queued'[m].chunks > 0, queued'[k].chunks > 0
                 PROVE  First(k)' >= End(m)' + FRAG_MOD - 2
      OBVIOUS
    <3>1. m \in DOMAIN queued
      BY <1>3
    <3>2. CASE k \in DOMAIN queued
      BY <1>3, <1>5, <1>16, <2>1, <3>1, <3>2
    <3>3. CASE k = K
      <4>1. n > 0 /\ id[m] = tx.next_frag_id /\ queued[m].chunks > 0
        BY <1>1, <1>3, <1>4, <1>16, <3>1, <3>3
      <4>2. o - End(m) >= Turns(tx.next_frag_id) - 1
        BY <1>1, <2>1, <3>1, <4>1 DEF FarBack
      <4>3. Turns(tx.next_frag_id) = FRAG_MOD - 1
        BY <1>16 DEF Turns
      <4>4. o >= End(m) + FRAG_MOD - 2
        BY <1>4, <1>6, <1>16, <3>1, <4>2, <4>3
      <4> QED
        BY <1>5, <3>1, <3>3, <4>4
    <3> QED
      BY <1>3, <3>2, <3>3
  <2> QED
    BY <2>2, <2>3, <2>4 DEF IdsApart
<1>18. FramesBelong(new)'
  <2>1. \A f : Belongs(f, id) => Belongs(f, new)'
    BY <1>3, <1>5, <1>16 DEF Belongs, Offset, wrapping_sub
  <2>2. ASSUME NEW s \in DOMAIN tx'.unacked PROVE Belongs(tx.unacked[s].plaintext, new)'
    <3>1. CASE s \in DOMAIN tx.unacked /\ tx'.unacked[s] = tx.unacked[s]
      <4>1. PICK f : f = tx.unacked[s].plaintext
        OBVIOUS
      <4>2. Belongs(f, new)'
        BY <2>1, <3>1, <4>1 DEF FramesBelong
      <4> QED
        BY <3>1, <4>1, <4>2
    <3>2. ASSUME NEW i \in 0 .. (c - 1), Offset(s) = o + i,
                 tx'.unacked[s].plaintext = encode_data(s, g, i, c, <<K, i>>)
          PROVE  Belongs(tx.unacked[s].plaintext, new)'
      <4>1. PICK f : f = encode_data(s, g, i, c, <<K, i>>)
        OBVIOUS
      <4>2. f.seq = s /\ f.frag_id = g /\ f.index = i /\ f.total = c /\ f.payload = <<K, i>> /\ f.payload[1] = K
        BY <4>1 DEF encode_data
      <4>3. Offset(f.seq)' = o + i
        BY <3>2, <4>2 DEF Offset, wrapping_sub
      <4>4. Belongs(f, new)'
        BY <1>3, <1>5, <1>16, <4>2, <4>3 DEF Belongs
      <4> QED
        BY <3>2, <4>1, <4>4
    <3> QED
      BY <1>1, <3>1, <3>2, EnqueueFrames
  <2> QED
    BY <1>8, <2>1, <2>2 DEF FramesBelong
<1>19. Buffers(new)'
  <2>1. \A m \in DOMAIN queued : \A x : Buffered(m, x)' <=> Buffered(m, x)
    BY <1>5, <1>8, <1>10 DEF Buffered
  <2>2. \A m \in DOMAIN queued' : Partial(m)' => Buffered(m, new[m])'
    BY <1>3, <1>11, <1>12, <1>16, <2>1 DEF Buffers
  <2>3. \A x \in DOMAIN rx.fragments : \E m \in DOMAIN queued' : Partial(m)' /\ new[m] = x
    BY <1>3, <1>12, <1>16 DEF Buffers
  <2> QED
    BY <1>8, <2>2, <2>3 DEF Buffers
<1> QED
  BY <1>13, <1>14, <1>17, <1>18, <1>19

\* A frame that is ingested again changes nothing but the pending ACK; a fresh
\* one is accepted.
LEMMA IngestDelivery ==
    ASSUME IdsOutlastWindow, NoFalseAckInv, Layout, HandedOver, IngestData,
           NEW id, IdsApart(id), FramesBelong(id), Buffers(id)
    PROVE  Layout' /\ HandedOver' /\ IdsApart(id)' /\ FramesBelong(id)' /\ Buffers(id)'
<1> USE DEF NoFalseAckInv
<1>1. PICK f \in wire : /\ f.kind = "data"
                        /\ rx' = [on_data(rx, f) EXCEPT !.pending_ack = TRUE]
                        /\ wire' = wire \cup {CurrentAck(rx')}
                        /\ UNCHANGED <<tx, gave_up, queued, popped>>
  BY DEF IngestData
<1>2. f \in DataFrames /\ f.seq \in Assigned /\ Belongs(f, id)
  BY <1>1, WireKinds DEF TypeOK, FlowInv, FramesBelong
<1>3. \A h \in wire' : h.kind = "data" => h \in wire
  BY <1>1 DEF CurrentAck, encode_ack
<1>4. CASE Fresh(rx, f.seq)
  <2>1. Buffers(id)' /\ HandedOver'
    BY <1>1, <1>2, <1>4, FreshDelivery
  <2>2. \A m : First(m)' = First(m) /\ Count(m)' = Count(m) /\ End(m)' = End(m)
    BY <1>1 DEF First, Count, End, Offset, wrapping_sub
  <2>3. Offset(tx.next_seq)' = Offset(tx.next_seq)
    BY <1>1 DEF Offset, wrapping_sub
  <2>4. Layout'
    BY <1>1, <2>2, <2>3 DEF Layout
  <2>5. \A m, a : FarBack(m, a)' <=> FarBack(m, a)
    BY <1>1, <2>2, <2>3 DEF FarBack, Turns
  <2>6. IdsApart(id)'
    BY <1>1, <2>2, <2>5 DEF IdsApart
  <2>7. \A h : Belongs(h, id)' <=> Belongs(h, id)
    BY <1>1, <2>2 DEF Belongs, Offset, wrapping_sub
  <2>8. FramesBelong(id)'
    BY <1>1, <1>3, <2>7 DEF FramesBelong
  <2> QED
    BY <2>1, <2>4, <2>6, <2>8
<1>5. CASE ~ Fresh(rx, f.seq)
  <2>1. rx' = [rx EXCEPT !.pending_ack = TRUE]
    BY <1>1, <1>5 DEF on_data
  <2>2. /\ rx'.recv_base = rx.recv_base /\ rx'.recv_bits = rx.recv_bits
        /\ rx'.fragments = rx.fragments /\ rx'.delivered = rx.delivered
    BY <2>1 DEF TypeOK, RxTypeOK
  <2>3. Delivered' = Delivered
    BY <1>1, <2>2 DEF Delivered
  <2> QED
    BY <1>1, <1>3, <2>2, <2>3, QuietDelivery
<1> QED
  BY <1>4, <1>5

\* Every step keeps the invariant.
LEMMA DeliveryStep ==
    ASSUME IdsOutlastWindow
    PROVE  DeliveryInv /\ [Next]_vars => DeliveryInv'
<1> SUFFICES ASSUME DeliveryInv, [Next]_vars PROVE DeliveryInv'
  OBVIOUS
<1>1. NoFalseAckInv /\ NoFalseAckInv' /\ TypeOK /\ FlowInv
  BY NoFalseAckStep DEF DeliveryInv, NoFalseAckInv
<1>2. Layout /\ HandedOver
  BY DEF DeliveryInv
<1>3. PICK id : IdsApart(id) /\ FramesBelong(id) /\ Buffers(id)
  BY DEF DeliveryInv
<1> DEFINE Kept == Layout' /\ HandedOver' /\ \E new : IdsApart(new)' /\ FramesBelong(new)' /\ Buffers(new)'
<1>4. SUFFICES Kept
  <2> SUFFICES ASSUME NEW new, Layout', HandedOver', IdsApart(new)', FramesBelong(new)', Buffers(new)'
               PROVE  DeliveryInv'
    OBVIOUS
  <2>1. new \in [DOMAIN queued' -> 0 .. (FRAG_MOD - 1)]
    BY DEF IdsApart
  <2> QED
    BY <1>1, <2>1 DEF DeliveryInv
<1>5. ASSUME NEW n \in Sizes, Enqueue(n) PROVE Kept
  BY <1>1, <1>2, <1>3, <1>5, EnqueueDelivery
<1>6. CASE IngestData
  BY <1>1, <1>2, <1>3, <1>6, IngestDelivery
\* All other steps are quiet.
<1> DEFINE SameTx == /\ tx'.next_seq = tx.next_seq /\ tx'.next_frag_id = tx.next_frag_id
                     /\ \A s \in DOMAIN tx'.unacked :
                          s \in DOMAIN tx.unacked /\ tx'.unacked[s].plaintext = tx.unacked[s].plaintext
           SameRx == /\ rx'.recv_base = rx.recv_base /\ rx'.recv_bits = rx.recv_bits
                     /\ rx'.fragments = rx.fragments /\ Delivered' = Delivered
           SameWire == \A f \in wire' : f.kind = "data" =>
                          f \in wire \/ \E s \in DOMAIN tx.unacked : f = tx.unacked[s].plaintext
<1>7. ASSUME SameTx, SameRx, SameWire, queued' = queued PROVE Kept
  BY <1>2, <1>3, <1>7, QuietDelivery
<1>8. ASSUME UNCHANGED <<rx, popped>> PROVE SameRx
  BY <1>8 DEF Delivered
<1>9. ASSUME tx' = take_new_sends(tx) \/ tx' = take_retransmits(tx) \/ tx' = Elapse(tx) PROVE SameTx
  <2>1. TxTypeOK
    BY <1>1 DEF TypeOK
  <2>2. tx'.next_frag_id = tx.next_frag_id
    BY <1>9, <2>1 DEF TxTypeOK, take_new_sends, take_retransmits, Elapse
  <2> QED
    BY <1>9, <2>1, <2>2, SlotUpdateType
<1>10. CASE TakeNewSends
  <2>1. SameWire
    BY <1>10 DEF TakeNewSends, FramesOf, NewSends, Unsent
  <2> QED
    BY <1>7, <1>8, <1>9, <1>10, <2>1 DEF TakeNewSends
<1>11. CASE TakeRetransmits
  <2>1. SameWire
    BY <1>11 DEF TakeRetransmits, FramesOf, Retransmits, Due, Sent
  <2> QED
    BY <1>7, <1>8, <1>9, <1>11, <2>1 DEF TakeRetransmits
<1>12. CASE GiveUp
  BY <1>7, <1>8, <1>9, <1>12 DEF GiveUp
<1>13. CASE IngestAck
  <2>1. PICK f \in wire : tx' = on_ack(tx, f.base, f.bitmap)
    BY <1>13 DEF IngestAck
  <2>2. TxTypeOK
    BY <1>1 DEF TypeOK
  <2>3. tx'.next_frag_id = tx.next_frag_id
    BY <2>1, <2>2 DEF TxTypeOK, on_ack
  <2>4. SameTx
    BY <2>1, <2>2, <2>3, OnAckType
  <2> QED
    BY <1>7, <1>8, <1>13, <2>4 DEF IngestAck
<1>14. CASE TakeAck
  <2>1. SameWire
    BY <1>14 DEF TakeAck, CurrentAck, encode_ack
  <2>2. SameRx
    BY <1>1, <1>14 DEF TakeAck, Delivered, TypeOK, RxTypeOK
  <2>3. SameTx
    BY <1>14 DEF TakeAck
  <2> QED
    BY <1>7, <1>14, <2>1, <2>2, <2>3 DEF TakeAck
<1>15. CASE PopDelivered
  <2>1. Delivered' = Delivered
    BY <1>1, <1>15, PopKeepsDelivered
  <2>2. SameRx
    BY <1>1, <1>15, <2>1 DEF PopDelivered, pop_delivered, TypeOK, RxTypeOK
  <2>3. SameTx /\ SameWire
    BY <1>15 DEF PopDelivered
  <2> QED
    BY <1>7, <1>15, <2>2, <2>3 DEF PopDelivered
<1>16. ASSUME NEW d \in RetxValues, SetRetx(d) PROVE Kept
  <2>1. SameTx
    BY <1>1, <1>16 DEF SetRetx, set_retx, TypeOK, TxTypeOK
  <2> QED
    BY <1>7, <1>8, <1>16, <2>1 DEF SetRetx
<1>17. CASE Tick
  BY <1>7, <1>8, <1>9, <1>17 DEF Tick
<1>18. CASE UNCHANGED vars
  BY <1>7, <1>8, <1>18 DEF vars
<1> QED
  BY <1>5, <1>6, <1>10, <1>11, <1>12, <1>13, <1>14, <1>15, <1>16, <1>17, <1>18 DEF Next

\* The invariant holds of an idle flow.
LEMMA DeliveryInit == Init => DeliveryInv
<1> SUFFICES ASSUME Init PROVE DeliveryInv
  OBVIOUS
<1>1. queued = << >> /\ popped = << >> /\ wire = {} /\ rx = NewRx(START)
  BY DEF Init
<1>2. DOMAIN queued = {} /\ rx.fragments = << >> /\ rx.delivered = << >>
  BY <1>1 DEF NewRx
<1>3. DOMAIN tx.unacked = {}
  BY DEF Init, NewTx
<1>4. Delivered = << >> /\ DOMAIN Delivered = {}
  BY <1>1, <1>2 DEF Delivered
<1>5. Layout /\ HandedOver
  BY <1>2, <1>4 DEF Layout, HandedOver
<1>6. PICK id : id \in [DOMAIN queued -> 0 .. (FRAG_MOD - 1)]
  <2>1. [m \in DOMAIN queued |-> 0] \in [DOMAIN queued -> 0 .. (FRAG_MOD - 1)]
    BY <1>2
  <2> QED
    BY <2>1
<1>7. DOMAIN rx.fragments = {}
  BY <1>2
<1>8. IdsApart(id) /\ FramesBelong(id) /\ Buffers(id)
  BY <1>1, <1>2, <1>3, <1>6, <1>7 DEF IdsApart, FramesBelong, Buffers
<1> QED
  BY <1>5, <1>6, <1>8, NoFalseAckInit DEF DeliveryInv

\* Each message that on_data delivers is one the application queued, whole, in
\* chunk order and once, over a transport that repeats, reorders and delays
\* without bound, with u32 numbers and u16 fragment ids that wrap: two messages
\* that could meet in a reassembly buffer never have the same id.
THEOREM DeliveryIsIntact ==
    ASSUME IdsOutlastWindow
    PROVE  Spec => []DeliveredIntact
<1>1. DeliveryInv => DeliveredIntact
  BY DEF DeliveryInv, HandedOver, DeliveredIntact
<1> QED
  BY <1>1, DeliveryInit, DeliveryStep, PTL DEF Spec

\* A message none of whose frames is outstanding has been accepted as a whole.
LEMMA RetiredIsWhole ==
    DeliveryInv => \A m \in DOMAIN queued : SeqsOf(m) \cap DOMAIN tx.unacked = {} => Whole(m)
<1> SUFFICES ASSUME DeliveryInv, NEW m \in DOMAIN queued, SeqsOf(m) \cap DOMAIN tx.unacked = {}
             PROVE  Whole(m)
  OBVIOUS
<1>1. TypeOK /\ FlowInv /\ NoFalseAck /\ HandedOver /\ End(m) <= Offset(tx.next_seq)
  BY DEF DeliveryInv, NoFalseAckInv, Layout
<1>2. /\ queued[m].first \in Seqs /\ First(m) \in Nat /\ Count(m) \in Nat /\ End(m) = First(m) + Count(m)
      /\ Offset(tx.next_seq) \in Nat /\ Offset(tx.next_seq) <= MaxFrames
  BY <1>1, MessageRanges, OffsetRanges DEF FlowInv
<1>3. ASSUME NEW i \in 0 .. (Count(m) - 1) PROVE AcceptedAt(First(m) + i)
  <2>1. PICK s : s = wrapping_add(queued[m].first, i)
    OBVIOUS
  <2>2. i \in Nat /\ First(m) + i < Offset(tx.next_seq) /\ First(m) + i < SEQ_MOD
    BY <1>1, <1>2, WidthsAssumption, InstanceAssumption
  <2>3. s \in Seqs /\ Offset(s) = First(m) + i
    BY <1>2, <2>1, <2>2, OffsetAdd DEF First
  <2>4. s \in Assigned
    BY <2>2, <2>3 DEF Assigned
  <2>5. s \in SeqsOf(m)
    BY <2>1 DEF SeqsOf, Count
  <2>6. Received(s)
    BY <1>1, <2>4, <2>5 DEF NoFalseAck
  <2> QED
    BY <2>3, <2>6 DEF Received
<1> QED
  BY <1>3 DEF Whole, Parts

\* A message that has left `unacked' has been delivered, however the ACKs that
\* retired it travelled: what send relies on when it returns Ok.
THEOREM AckedIsDelivered ==
    ASSUME IdsOutlastWindow
    PROVE  Spec => []AckedMeansDelivered
<1>1. DeliveryInv => AckedMeansDelivered
  BY RetiredIsWhole DEF DeliveryInv, HandedOver, AckedMeansDelivered
<1> QED
  BY <1>1, DeliveryInit, DeliveryStep, PTL DEF Spec

\* Whatever was accepted stays so, and a message that is whole stays whole.
LEMMA WholeStays ==
    DeliveryInv /\ [Next]_vars =>
        \A m \in DOMAIN queued :
            m \in DOMAIN queued' /\ queued'[m] = queued[m] /\ (Whole(m) => Whole(m)')
<1> SUFFICES ASSUME DeliveryInv, [Next]_vars
             PROVE  \A m \in DOMAIN queued :
                        m \in DOMAIN queued' /\ queued'[m] = queued[m] /\ (Whole(m) => Whole(m)')
  OBVIOUS
<1>1. TypeOK /\ FlowInv
  BY DEF DeliveryInv, NoFalseAckInv
<1>2. \A m \in DOMAIN queued : m \in DOMAIN queued' /\ queued'[m] = queued[m]
  <2>1. CASE \E n \in Sizes : Enqueue(n)
    <3>1. PICK n \in Sizes : queued' = Append(queued, [first |-> tx.next_seq, chunks |-> n])
      BY <2>1 DEF Enqueue
    <3>2. queued \in Seq([first : Seqs, chunks : Sizes])
      BY <1>1 DEF TypeOK
    <3> QED
      BY <3>1, <3>2
  <2>2. CASE ~ \E n \in Sizes : Enqueue(n)
    <3>1. queued' = queued
      BY <2>2 DEF Next, vars, TakeNewSends, TakeRetransmits, GiveUp, IngestAck, IngestData, TakeAck,
                  PopDelivered, SetRetx, Tick
    <3> QED
      BY <3>1
  <2> QED
    BY <2>1, <2>2
<1>3. \A o \in Nat : AcceptedAt(o) => AcceptedAt(o)'
  <2>1. CASE IngestData
    <3>1. PICK f \in wire : f.kind = "data" /\ rx' = [on_data(rx, f) EXCEPT !.pending_ack = TRUE]
      BY <2>1 DEF IngestData
    <3>2. f \in DataFrames /\ f.seq \in Assigned /\ f.seq \in Seqs /\ RxTypeOK
      BY <1>1, <3>1, WireKinds DEF TypeOK, FlowInv, DataFrames
    <3>3. /\ rx'.recv_base = (IF Fresh(rx, f.seq) THEN mark_received(rx, f.seq) ELSE rx).recv_base
          /\ rx'.recv_bits = (IF Fresh(rx, f.seq) THEN mark_received(rx, f.seq) ELSE rx).recv_bits
      <4>1. RxTypeOK'
        BY <3>1, <3>2, OnDataType
      <4>2. rx'.recv_base = on_data(rx, f).recv_base /\ rx'.recv_bits = on_data(rx, f).recv_bits
        BY <3>1, <4>1 DEF RxTypeOK
      <4> QED
        BY <3>2, <4>2, OnDataWindow
    <3>4. CASE Fresh(rx, f.seq)
      BY <1>1, <3>2, <3>3, <3>4, MarkReceivedAccepts
    <3>5. CASE ~ Fresh(rx, f.seq)
      BY <3>3, <3>5 DEF AcceptedAt, Offset, wrapping_sub
    <3> QED
      BY <3>4, <3>5
  <2>2. CASE ~ IngestData
    <3>1. rx'.recv_base = rx.recv_base /\ rx'.recv_bits = rx.recv_bits
      <4>1. CASE TakeAck \/ PopDelivered
        BY <1>1, <4>1 DEF TakeAck, PopDelivered, pop_delivered, TypeOK, RxTypeOK
      <4>2. CASE ~ (TakeAck \/ PopDelivered)
        BY <2>2, <4>2 DEF Next, vars, Enqueue, TakeNewSends, TakeRetransmits, GiveUp, IngestAck, SetRetx, Tick
      <4> QED
        BY <4>1, <4>2
    <3> QED
      BY <3>1 DEF AcceptedAt, Offset, wrapping_sub
  <2> QED
    BY <2>1, <2>2
<1> SUFFICES ASSUME NEW m \in DOMAIN queued, Whole(m) PROVE Whole(m)'
  BY <1>2
<1>4. PICK a, n : a = First(m) /\ n = Count(m)
  OBVIOUS
<1>5. First(m)' = a /\ Count(m)' = n
  BY <1>2, <1>4 DEF First, Count, Offset, wrapping_sub
<1>6. a \in Nat /\ n \in Nat
  BY <1>1, <1>4, MessageRanges
<1>7. \A i \in 0 .. (n - 1) : AcceptedAt(a + i)
  BY <1>4 DEF Whole, Parts
<1>8. \A i \in 0 .. (n - 1) : AcceptedAt(a + i)'
  BY <1>3, <1>6, <1>7
<1> QED
  BY <1>5, <1>8 DEF Whole, Parts

-----------------------------------------------------------------------------
(***************************************************************************)
(* Frames that never get through.                                          *)
(***************************************************************************)

\* A data frame the transport has is the one that waits under its number.
WireMatches ==
    \A f \in wire : f.kind = "data" /\ f.seq \in DOMAIN tx.unacked => f = tx.unacked[f.seq].plaintext

LEMMA WireMatchesStep == NoFalseAckInv /\ WireMatches /\ [Next]_vars => WireMatches'
<1> SUFFICES ASSUME NoFalseAckInv, WireMatches, [Next]_vars,
                    NEW f \in wire', f.kind = "data", f.seq \in DOMAIN tx'.unacked
             PROVE  f = tx'.unacked[f.seq].plaintext
  BY DEF WireMatches
<1>1. f \in wire \/ \E s \in DOMAIN tx.unacked : f = tx.unacked[s].plaintext
  <2>1. CASE TakeNewSends \/ TakeRetransmits
    BY <2>1 DEF TakeNewSends, TakeRetransmits, FramesOf, NewSends, Unsent, Retransmits, Due, Sent
  <2>2. CASE IngestData \/ TakeAck
    BY <2>2 DEF IngestData, TakeAck, CurrentAck, encode_ack
  <2>3. CASE ~ (TakeNewSends \/ TakeRetransmits \/ IngestData \/ TakeAck)
    BY <2>3 DEF Next, vars, Enqueue, GiveUp, IngestAck, PopDelivered, SetRetx, Tick
  <2> QED
    BY <2>1, <2>2, <2>3
<1>2. f.seq \in Assigned
  BY <1>1 DEF NoFalseAckInv, FlowInv
<1>3. f.seq \in DOMAIN tx.unacked /\ tx'.unacked[f.seq].plaintext = tx.unacked[f.seq].plaintext
  BY <1>2, SlotsStep
<1>4. f = tx.unacked[f.seq].plaintext
  BY <1>1, <1>3 DEF WireMatches, NoFalseAckInv, FlowInv
<1> QED
  BY <1>3, <1>4

\* None of the frames of B that wait has been received.
Withheld(B) == \A s \in DOMAIN tx.unacked : tx.unacked[s].plaintext \in B => ~ Received(s)

\* If the receive half is never given a frame of B, the frames of B that wait
\* keep waiting.
LEMMA WithheldStep ==
    ASSUME NoFalseAckInv, WireMatches, [Next]_vars, NEW B, Withheld(B),
           \/ rx'.recv_base = rx.recv_base /\ rx'.recv_bits = rx.recv_bits
           \/ \E f \in wire : /\ f.kind = "data" /\ f \notin B
                              /\ rx' = [on_data(rx, f) EXCEPT !.pending_ack = TRUE]
    PROVE  /\ Withheld(B)'
           /\ \A s \in DOMAIN tx.unacked : tx.unacked[s].plaintext \in B =>
                s \in DOMAIN tx'.unacked /\ tx'.unacked[s].plaintext = tx.unacked[s].plaintext
<1>a. TypeOK /\ TxTypeOK /\ FlowInv
  BY DEF NoFalseAckInv, TypeOK
<1>b. \A s \in DOMAIN tx'.unacked :
        IF s \in DOMAIN tx.unacked
        THEN tx'.unacked[s].plaintext = tx.unacked[s].plaintext
        ELSE s \notin Assigned
  BY SlotsStep
<1>1. \A s \in DOMAIN tx.unacked : tx.unacked[s].plaintext \in B => s \in DOMAIN tx'.unacked
  <2>1. CASE \E n \in Sizes : Enqueue(n)
    BY <1>a, <2>1, EnqueueSlots
  <2>2. CASE TakeNewSends \/ TakeRetransmits \/ GiveUp \/ Tick
    BY <1>a, <2>2, SlotUpdateType DEF TakeNewSends, TakeRetransmits, GiveUp, Tick
  <2>3. CASE IngestAck
    <3>1. PICK f \in wire : f.kind = "ack" /\ tx' = on_ack(tx, f.base, f.bitmap)
      BY <2>3 DEF IngestAck
    <3>2. DOMAIN tx'.unacked = {s \in DOMAIN tx.unacked : ~ acked(f.base, f.bitmap, s)}
      BY <1>a, <3>1, OnAckType
    <3>3. ASSUME NEW s \in DOMAIN tx.unacked, acked(f.base, f.bitmap, s) PROVE Received(s)
      <4>1. s \in Assigned
        BY <1>a DEF FlowInv
      <4> QED
        BY <3>1, <3>3, <4>1, AckedWasReceived
    <3> QED
      BY <3>2, <3>3 DEF Withheld
  <2>4. CASE IngestData \/ TakeAck \/ PopDelivered \/ UNCHANGED vars
    BY <2>4 DEF IngestData, TakeAck, PopDelivered, vars
  <2>5. ASSUME NEW d \in RetxValues, SetRetx(d)
        PROVE  \A s \in DOMAIN tx.unacked : s \in DOMAIN tx'.unacked
    BY <1>a, <2>5, SetRetxType DEF SetRetx
  <2> QED
    BY <2>1, <2>2, <2>3, <2>4, <2>5 DEF Next
<1>2. ASSUME NEW s \in DOMAIN tx'.unacked, tx'.unacked[s].plaintext \in B, Received(s)' PROVE FALSE
  <2>0. s \in Seqs /\ Offset(s) \in Nat
    <3>1. TypeOK'
      BY <1>a, TypeStep
    <3>2. s \in Seqs
      BY <3>1 DEF TypeOK, TxTypeOK
    <3>3. Offset(s) \in Seqs
      BY <3>2, OffsetSub
    <3> QED
      BY <3>2, <3>3, WidthsAssumption DEF Seqs
  <2>1. ~ Received(s)
    <3>1. CASE s \in DOMAIN tx.unacked
      BY <1>b, <1>2, <3>1 DEF Withheld
    <3>2. CASE s \notin DOMAIN tx.unacked
      BY <1>a, <1>b, <2>0, <3>2, AcceptedAssigned DEF Received, Assigned
    <3> QED
      BY <3>1, <3>2
  <2>2. ~ (rx'.recv_base = rx.recv_base /\ rx'.recv_bits = rx.recv_bits)
    BY <1>2, <2>1 DEF Received, AcceptedAt, Offset, wrapping_sub
  <2>3. PICK f \in wire : /\ f.kind = "data" /\ f \notin B
                          /\ rx' = [on_data(rx, f) EXCEPT !.pending_ack = TRUE]
    BY <2>2
  <2>4. f \in DataFrames /\ f.seq \in Assigned /\ f.seq \in Seqs /\ RxTypeOK
    BY <1>a, <2>3, WireKinds DEF TypeOK, FlowInv, DataFrames
  <2>5. /\ rx'.recv_base = (IF Fresh(rx, f.seq) THEN mark_received(rx, f.seq) ELSE rx).recv_base
        /\ rx'.recv_bits = (IF Fresh(rx, f.seq) THEN mark_received(rx, f.seq) ELSE rx).recv_bits
    <3>1. RxTypeOK'
      BY <2>3, <2>4, OnDataType
    <3>2. rx'.recv_base = on_data(rx, f).recv_base /\ rx'.recv_bits = on_data(rx, f).recv_bits
      BY <2>3, <3>1 DEF RxTypeOK
    <3> QED
      BY <2>4, <3>2, OnDataWindow
  <2>6. Fresh(rx, f.seq)
    BY <2>2, <2>5
  <2>7. AcceptedAt(Offset(s))' <=> AcceptedAt(Offset(s)) \/ Offset(s) = Offset(f.seq)
    BY <1>a, <2>0, <2>4, <2>5, <2>6, MarkReceivedAccepts
  <2>8. Received(s)' <=> AcceptedAt(Offset(s))'
    BY DEF Received
  <2>9. s = f.seq
    BY <1>2, <2>0, <2>1, <2>4, <2>7, <2>8, OffsetInjective DEF Received
  <2>10. s \in DOMAIN tx.unacked /\ tx'.unacked[s].plaintext = tx.unacked[s].plaintext
    BY <1>b, <2>4, <2>9
  <2> QED
    BY <1>2, <2>3, <2>9, <2>10 DEF WireMatches
<1>3. Withheld(B)'
  BY <1>2 DEF Withheld
<1> QED
  BY <1>1, <1>b, <1>3

-----------------------------------------------------------------------------
(***************************************************************************)
(* What a data frame that is ingested leaves to do.                        *)
(***************************************************************************)

\* The frame at the base of the receive window is the one that is missing.
BaseMissing == 0 \notin rx.recv_bits

\* The window after a frame off the wire was ingested.
LEMMA IngestWindow ==
    ASSUME NoFalseAckInv, NEW f \in wire, f.kind = "data",
           rx' = [on_data(rx, f) EXCEPT !.pending_ack = TRUE]
    PROVE  /\ f.seq \in Seqs /\ f.seq \in Assigned
           /\ rx'.recv_base = (IF Fresh(rx, f.seq) THEN mark_received(rx, f.seq) ELSE rx).recv_base
           /\ rx'.recv_bits = (IF Fresh(rx, f.seq) THEN mark_received(rx, f.seq) ELSE rx).recv_bits
<1>1. f \in DataFrames /\ f.seq \in Assigned /\ f.seq \in Seqs /\ RxTypeOK
  BY WireKinds DEF NoFalseAckInv, TypeOK, FlowInv, DataFrames
<1>2. RxTypeOK'
  BY <1>1, OnDataType
<1>3. rx'.recv_base = on_data(rx, f).recv_base /\ rx'.recv_bits = on_data(rx, f).recv_bits
  BY <1>2 DEF RxTypeOK
<1> QED
  BY <1>1, <1>3, OnDataWindow

\* The loop of mark_received stops at a missing frame.
LEMMA BaseMissingStep ==
    ASSUME NoFalseAckInv, BaseMissing, [Next]_vars
    PROVE  BaseMissing'
<1>1. CASE IngestData
  <2>1. PICK f \in wire : f.kind = "data" /\ rx' = [on_data(rx, f) EXCEPT !.pending_ack = TRUE]
    BY <1>1 DEF IngestData
  <2>2. /\ f.seq \in Seqs
        /\ rx'.recv_bits = (IF Fresh(rx, f.seq) THEN mark_received(rx, f.seq) ELSE rx).recv_bits
    BY <2>1, IngestWindow
  <2>3. CASE ~ Fresh(rx, f.seq)
    BY <2>2, <2>3 DEF BaseMissing
  <2>4. CASE Fresh(rx, f.seq)
    <3> DEFINE bits == rx.recv_bits \cup {wrapping_sub(f.seq, rx.recv_base)}
    <3>1. RxTypeOK /\ rx'.recv_bits = mark_received(rx, f.seq).recv_bits
      BY <2>2, <2>4 DEF NoFalseAckInv, TypeOK
    <3>2. /\ bits \in SUBSET (0 .. (RECV_WINDOW - 1))
          /\ rx'.recv_bits = {b - LowOnes(bits) : b \in {c \in bits : c >= LowOnes(bits)}}
      BY <2>2, <2>4, <3>1, MarkReceivedType
    <3> HIDE DEF bits
    <3>3. PICK k \in Int : k = LowOnes(bits) /\ k \notin bits
      BY <3>2, LowOnesExists, WidthsAssumption
    <3>4. \A b \in bits : b - k # 0
      BY <3>2, <3>3
    <3> QED
      BY <3>2, <3>3, <3>4 DEF BaseMissing
  <2> QED
    BY <2>3, <2>4
<1>2. CASE ~ IngestData
  <2>1. rx'.recv_bits = rx.recv_bits
    BY <1>2 DEF Next, vars, Enqueue, TakeNewSends, TakeRetransmits, GiveUp, IngestAck, TakeAck, PopDelivered,
       SetRetx, Tick, pop_delivered, NoFalseAckInv, TypeOK, RxTypeOK
  <2> QED
    BY <2>1 DEF BaseMissing
<1> QED
  BY <1>1, <1>2

LEMMA BaseMissingInit == Init => BaseMissing
  BY DEF Init, NewRx, BaseMissing

\* An outstanding frame that is ingested has been accepted, or lies beyond the
\* receive window, and then an older one is outstanding that has not been.
LEMMA IngestedOrHeldBack ==
    ASSUME NoFalseAckInv, BaseMissing, NoWrap, NEW f \in wire, f.kind = "data",
           rx' = [on_data(rx, f) EXCEPT !.pending_ack = TRUE]
    PROVE  Received(f.seq)' \/ \E b \in DOMAIN tx.unacked : b < f.seq /\ ~ Received(b)
<1>a. TypeOK /\ FlowInv /\ NoFalseAck
  BY DEF NoFalseAckInv
<1>1. /\ f.seq \in Seqs /\ f.seq \in Assigned
      /\ rx'.recv_base = (IF Fresh(rx, f.seq) THEN mark_received(rx, f.seq) ELSE rx).recv_base
      /\ rx'.recv_bits = (IF Fresh(rx, f.seq) THEN mark_received(rx, f.seq) ELSE rx).recv_bits
  BY IngestWindow
<1>2. /\ rx.recv_base \in Seqs /\ Offset(f.seq) \in Nat /\ Offset(rx.recv_base) \in Nat /\ Offset(tx.next_seq) \in Nat
      /\ Offset(f.seq) < Offset(tx.next_seq) /\ Offset(tx.next_seq) <= MaxFrames
  BY <1>a, <1>1, OffsetRanges DEF Assigned, FlowInv
<1>3. CASE Fresh(rx, f.seq)
  <2>1. \A o \in Nat : AcceptedAt(o)' <=> AcceptedAt(o) \/ o = Offset(f.seq)
    BY <1>a, <1>1, <1>3, MarkReceivedAccepts
  <2>2. AcceptedAt(Offset(f.seq))'
    BY <1>2, <2>1
  <2> QED
    BY <2>2 DEF Received
<1>4. CASE ~ Fresh(rx, f.seq)
  <2>1. rx'.recv_base = rx.recv_base /\ rx'.recv_bits = rx.recv_bits
    BY <1>1, <1>4
  <2>2. CASE Received(f.seq)
    BY <2>1, <2>2 DEF Received, AcceptedAt, Offset, wrapping_sub
  <2>3. CASE ~ Received(f.seq)
    <3>1. Offset(f.seq) >= Offset(rx.recv_base) /\ Offset(f.seq) - Offset(rx.recv_base) \notin rx.recv_bits
      BY <1>2, <2>3 DEF Received, AcceptedAt
    <3>2. wrapping_sub(f.seq, rx.recv_base) = Offset(f.seq) - Offset(rx.recv_base)
      BY <1>1, <1>2, <3>1, OffsetSub
    <3>3. Offset(f.seq) - Offset(rx.recv_base) >= RECV_WINDOW
      BY <1>2, <1>4, <3>1, <3>2, WidthsAssumption DEF Fresh
    <3>4. Offset(rx.recv_base) < Offset(f.seq)
      BY <1>2, <3>3, WidthsAssumption
    <3>5. rx.recv_base < f.seq
      BY <1>1, <1>2, <3>4, NoWrapOrder, InstanceAssumption
    <3>6. rx.recv_base \in Assigned
      BY <1>2, <3>4 DEF Assigned
    <3>7. ~ Received(rx.recv_base)
      BY <1>2 DEF Received, AcceptedAt, BaseMissing
    <3> QED
      BY <1>a, <3>5, <3>6, <3>7 DEF NoFalseAck
  <2> QED
    BY <2>2, <2>3
<1> QED
  BY <1>3, <1>4

\* Before the wrap, numbers in use are below the next one, and those a message
\* is given are not.
LEMMA NumbersInUse ==
    ASSUME NoFalseAckInv, NoWrap
    PROVE  /\ \A s \in DOMAIN tx.unacked : s < tx.next_seq /\ tx.unacked[s].plaintext.seq = s
           /\ \A f \in wire : f.kind = "data" => f.seq < tx.next_seq
           /\ \A n \in Sizes : Enqueue(n) => \A s \in DOMAIN tx'.unacked \ DOMAIN tx.unacked :
                s >= tx.next_seq /\ tx'.unacked[s].age = Never
<1>1. /\ TypeOK /\ FlowInv /\ tx.next_seq \in Seqs /\ DOMAIN tx.unacked \subseteq Seqs
      /\ Offset(tx.next_seq) \in Nat /\ Offset(tx.next_seq) <= MaxFrames
  BY OffsetRanges DEF NoFalseAckInv, FlowInv
<1>2. \A s \in Assigned : s < tx.next_seq
  BY <1>1, NoWrapOrder DEF Assigned
<1>3. ASSUME NEW n \in Sizes, Enqueue(n), NEW s \in DOMAIN tx'.unacked, s \notin DOMAIN tx.unacked
      PROVE  s >= tx.next_seq /\ tx'.unacked[s].age = Never
  <2>1. /\ s \in Assigned' /\ s \notin Assigned /\ tx'.unacked[s].age = Never
        /\ Offset(tx'.next_seq) = Offset(tx.next_seq) + FrameCount(n) /\ Offset(tx'.next_seq) <= MaxFrames
    BY <1>1, <1>3, EnqueueSlots
  <2>2. s \in Seqs /\ Offset(s) \in Nat /\ FrameCount(n) \in Nat
    BY <1>1, <2>1, OffsetRanges, InstanceAssumption, WidthsAssumption DEF Assigned, FrameCount
  <2>3. ~ (Offset(s) < Offset(tx.next_seq)) /\ Offset(s) < Offset(tx'.next_seq)
    BY <2>1, <2>2 DEF Assigned, Offset, wrapping_sub
  <2>4. Offset(s) <= MaxFrames
    BY <1>1, <2>1, <2>2, <2>3, InstanceAssumption
  <2>5. CASE Offset(tx.next_seq) = Offset(s)
    BY <1>1, <2>1, <2>2, <2>5, OffsetInjective, WidthsAssumption DEF Seqs
  <2>6. CASE Offset(tx.next_seq) < Offset(s)
    BY <1>1, <2>1, <2>2, <2>4, <2>6, NoWrapOrder, WidthsAssumption DEF Seqs
  <2> QED
    BY <1>1, <2>2, <2>3, <2>5, <2>6
<1> QED
  BY <1>1, <1>2, <1>3 DEF FlowInv

\* The ACK that answers an outstanding frame covers it, or an older frame is
\* outstanding that no ACK on its way covers.
LEMMA AnsweredOrHeldBack ==
    ASSUME BehindReaches, WindowInv, WindowInv', BaseMissing, NoWrap, tx' = tx,
           NEW f \in wire, f.kind = "data", f.seq \in DOMAIN tx.unacked,
           rx' = [on_data(rx, f) EXCEPT !.pending_ack = TRUE]
    PROVE  \/ acked(rx'.recv_base, rx'.recv_bits, f.seq)
           \/ \E b \in DOMAIN tx.unacked :
                b < f.seq /\ \A g \in wire : g.kind = "ack" => ~ acked(g.base, g.bitmap, b)
<1>1. NoFalseAckInv
  BY DEF WindowInv
<1>2. CASE Received(f.seq)'
  <2>1. CurrentAckCovers'
    BY CoversNow, PTL
  <2> QED
    BY <1>2, <2>1 DEF CurrentAckCovers
<1>3. ASSUME NEW b \in DOMAIN tx.unacked, ~ Received(b), NEW g \in wire, g.kind = "ack"
      PROVE  ~ acked(g.base, g.bitmap, b)
  <2>1. b \in Assigned
    BY <1>1 DEF NoFalseAckInv, FlowInv
  <2> QED
    BY <1>1, <1>3, <2>1, AckedWasReceived
<1>4. Received(f.seq)' \/ \E b \in DOMAIN tx.unacked : b < f.seq /\ ~ Received(b)
  BY <1>1, IngestedOrHeldBack
<1> QED
  BY <1>2, <1>3, <1>4
==============================================================================
