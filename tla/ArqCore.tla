------------------------------- MODULE ArqCore -------------------------------
(***************************************************************************)
(* The pure part of src/reliability/arq.rs and frame.rs: what each method  *)
(* of `Arq' computes from the endpoint's state.  A send half is a record   *)
(* tx and a receive half a record rx; Arq.tla and Session.tla make them    *)
(* variables and turn the methods into actions.                            *)
(*                                                                         *)
(* Abstractions.  A payload is the pair <<message number, chunk index>>;   *)
(* a message is identified by its position among the messages the          *)
(* application queued and by its number of chunks.  A u64 bitmap is the    *)
(* set of its one bits.  `last_sent' is kept as the age of the last        *)
(* transmission, which saturates at MAX_AGE (no timeout is longer).        *)
(*                                                                         *)
(* A definition whose name ends in an upper-case word after an underscore  *)
(* (NextSeq_PerMessage) is a deliberately wrong variant of the one that    *)
(* follows it, used to see that a property notices the mistake.            *)
(***************************************************************************)
EXTENDS Integers, FiniteSets, Sequences

CONSTANTS
    SEQ_MOD,        \* 2^32: sequence numbers are u32 and wrap
    WINDOW_SIZE,    \* 32: frames in flight
    RECV_WINDOW,    \* 64: width of the receive bitmap
    ACK_BEHIND,     \* 1_000_000: how far behind an ACK's base counts as acked
    FRAG_MOD,       \* 2^16: fragment ids are u16 and wrap, skipping 0
    MAX_PARTS,      \* 255: chunks of one message
    MAX_ATTEMPTS,   \* 5: transmissions of one frame
    MAX_AGE         \* longest time since a transmission that is told apart

ASSUME WidthsAssumption ==
    /\ SEQ_MOD \in Nat /\ RECV_WINDOW \in Nat \ {0} /\ WINDOW_SIZE \in Nat \ {0}
    /\ ACK_BEHIND \in Nat /\ RECV_WINDOW < SEQ_MOD
    /\ FRAG_MOD \in Nat /\ FRAG_MOD > 1
    /\ MAX_PARTS \in Nat \ {0} /\ MAX_PARTS < SEQ_MOD
    /\ MAX_ATTEMPTS \in Nat \ {0} /\ MAX_AGE \in Nat

Seqs == 0 .. (SEQ_MOD - 1)
Ages == 0 .. MAX_AGE
Never == -1                    \* `last_sent = None'

(***************************************************************************)
(* u32 arithmetic.                                                         *)
(***************************************************************************)
wrapping_add(a, b) == IF a + b < SEQ_MOD THEN a + b ELSE a + b - SEQ_MOD
wrapping_sub(a, b) == IF a >= b THEN a - b ELSE a - b + SEQ_MOD

(***************************************************************************)
(* Inner frames (frame.rs).                                                *)
(***************************************************************************)
encode_data(seq, frag_id, index, total, payload) ==
    [kind |-> "data", seq |-> seq, frag_id |-> frag_id, index |-> index,
     total |-> total, payload |-> payload]

encode_ack(base, bitmap) == [kind |-> "ack", base |-> base, bitmap |-> bitmap]

(***************************************************************************)
(* Messages.  A message of n = 0 chunks is the empty message, which still  *)
(* takes one frame.                                                        *)
(***************************************************************************)
FrameCount(n) == IF n = 0 THEN 1 ELSE n
Content(m, n) == [i \in 1 .. FrameCount(n) |-> <<m, i - 1>>]

(***************************************************************************)
(* Send half: [next_seq, next_frag_id, unacked, retx].                     *)
(***************************************************************************)
NewTx(start, retx) ==
    [next_seq |-> start, next_frag_id |-> 1, unacked |-> << >>, retx |-> retx]

NextFragId_Stuck(id) == id

NextFragId(id) == IF id + 1 = FRAG_MOD THEN 1 ELSE id + 1

NextSeq_PerMessage(tx, count) == wrapping_add(tx.next_seq, 1)

NextSeq(tx, count) == wrapping_add(tx.next_seq, count)

\* `enqueue' and `enqueue_one': message number m, in n chunks.
enqueue(tx, m, n) ==
    LET count == FrameCount(n)
        frag == IF n = 0 THEN 0 ELSE tx.next_frag_id
        new == {wrapping_add(tx.next_seq, i) : i \in 0 .. (count - 1)}
        slot(s) ==
            LET i == wrapping_sub(s, tx.next_seq)
            IN  [plaintext |-> encode_data(s, frag, i, count, <<m, i>>),
                 age |-> Never, attempts |-> 0]
    IN  [tx EXCEPT
            !.next_seq = NextSeq(tx, count),
            !.next_frag_id = IF n = 0 THEN @ ELSE NextFragId(@),
            !.unacked = [s \in new \cup DOMAIN tx.unacked |->
                            IF s \in new THEN slot(s) ELSE tx.unacked[s]]]

Sent(tx) == {s \in DOMAIN tx.unacked : tx.unacked[s].age # Never}
Unsent(tx) == DOMAIN tx.unacked \ Sent(tx)

in_flight_sent(tx) == Cardinality(Sent(tx))

NewSends_YoungestFirst(tx) ==
    {s \in Unsent(tx) :
        in_flight_sent(tx) + Cardinality({t \in Unsent(tx) : t > s}) < WINDOW_SIZE}

\* The frames `take_new_sends' returns: never sent, lowest numbers first,
\* while the window has room.
NewSends(tx) ==
    {s \in Unsent(tx) :
        in_flight_sent(tx) + Cardinality({t \in Unsent(tx) : t < s}) < WINDOW_SIZE}

take_new_sends(tx) ==
    [tx EXCEPT !.unacked = [s \in DOMAIN tx.unacked |->
        IF s \in NewSends(tx)
        THEN [tx.unacked[s] EXCEPT !.age = 0, !.attempts = 1]
        ELSE tx.unacked[s]]]

Due(tx) == {s \in Sent(tx) : tx.unacked[s].age >= tx.retx}

Exhausted_OneMore(tx) == {s \in Due(tx) : tx.unacked[s].attempts > MAX_ATTEMPTS}

Exhausted(tx) == {s \in Due(tx) : tx.unacked[s].attempts >= MAX_ATTEMPTS}

\* The frames `take_retransmits' counts as sent again before it returns: all
\* that are due, up to the first exhausted one.
Retransmits(tx) == {s \in Due(tx) : \A t \in Exhausted(tx) : s < t}

take_retransmits_Uncounted(tx) ==
    [tx EXCEPT !.unacked = [s \in DOMAIN tx.unacked |->
        IF s \in Retransmits(tx) THEN [tx.unacked[s] EXCEPT !.age = 0] ELSE tx.unacked[s]]]

\* `take_retransmits'.  With an exhausted frame the call returns ArqGiveUp and
\* the frames it has already counted are not handed out.
take_retransmits(tx) ==
    [tx EXCEPT !.unacked = [s \in DOMAIN tx.unacked |->
        IF s \in Retransmits(tx)
        THEN [tx.unacked[s] EXCEPT !.age = 0, !.attempts = @ + 1]
        ELSE tx.unacked[s]]]

acked_BaseIncluded(base, bitmap, seq) ==
    wrapping_sub(seq, base) \in bitmap \/ wrapping_sub(base, seq) < ACK_BEHIND

acked_NarrowBehind(base, bitmap, seq) ==
    \/ wrapping_sub(seq, base) \in bitmap
    \/ wrapping_sub(base, seq) > 0 /\ wrapping_sub(base, seq) < RECV_WINDOW

acked_PlainCompare(base, bitmap, seq) == seq < base \/ wrapping_sub(seq, base) \in bitmap

acked(base, bitmap, seq) ==
    IF wrapping_sub(seq, base) < RECV_WINDOW
    THEN wrapping_sub(seq, base) \in bitmap
    ELSE wrapping_sub(base, seq) > 0 /\ wrapping_sub(base, seq) < ACK_BEHIND

on_ack(tx, base, bitmap) ==
    [tx EXCEPT !.unacked =
        [s \in {t \in DOMAIN tx.unacked : ~ acked(base, bitmap, t)} |-> tx.unacked[s]]]

set_retx(tx, d) == [tx EXCEPT !.retx = d]

\* One unit of time passes.
Elapse(tx) ==
    [tx EXCEPT !.unacked = [s \in DOMAIN tx.unacked |->
        IF s \in Sent(tx) /\ tx.unacked[s].age < MAX_AGE
        THEN [tx.unacked[s] EXCEPT !.age = @ + 1]
        ELSE tx.unacked[s]]]

(***************************************************************************)
(* Receive half: [recv_base, recv_bits, fragments, delivered, pending_ack] *)
(***************************************************************************)
NewRx(start) ==
    [recv_base |-> start, recv_bits |-> {}, fragments |-> << >>,
     delivered |-> << >>, pending_ack |-> FALSE]

\* How far the `while' loop of mark_received shifts: the number of low one bits.
LowOnes(bits) ==
    CHOOSE k \in 0 .. RECV_WINDOW : k \notin bits /\ \A j \in 0 .. (k - 1) : j \in bits

Fresh_PlainCompare(rx, seq) ==
    seq - rx.recv_base < RECV_WINDOW /\ (seq - rx.recv_base) \notin rx.recv_bits

\* Whether mark_received returns true.
Fresh(rx, seq) ==
    LET ahead == wrapping_sub(seq, rx.recv_base)
    IN  ahead < RECV_WINDOW /\ ahead \notin rx.recv_bits

mark_received_SkipsGap(rx, seq) ==
    [rx EXCEPT !.recv_base = wrapping_add(seq, 1), !.recv_bits = {}]

mark_received(rx, seq) ==
    LET bits == rx.recv_bits \cup {wrapping_sub(seq, rx.recv_base)}
        k == LowOnes(bits)
    IN  [rx EXCEPT !.recv_base = wrapping_add(@, k),
                   !.recv_bits = {b - k : b \in {c \in bits : c >= k}}]

\* The buffer of f's fragment id after `or_insert_with'.  Its parts are the
\* indexes that hold a payload.
FragBuf(rx, f) ==
    IF f.frag_id \in DOMAIN rx.fragments
    THEN rx.fragments[f.frag_id]
    ELSE [total |-> f.total, parts |-> << >>]

\* What a fresh data frame of a longer message does to the reassembly state.
Reassemble(rx, f) ==
    LET buf == FragBuf(rx, f)
        parts == IF buf.total # f.total \/ f.index >= buf.total
                 THEN buf.parts
                 ELSE [i \in {f.index} \cup DOMAIN buf.parts |->
                          IF i = f.index THEN f.payload ELSE buf.parts[i]]
        complete == DOMAIN parts = 0 .. (buf.total - 1)
        others == DOMAIN rx.fragments \ {f.frag_id}
    IN  [rx EXCEPT
            !.fragments = [id \in IF complete THEN others ELSE others \cup {f.frag_id} |->
                IF id = f.frag_id THEN [buf EXCEPT !.parts = parts] ELSE rx.fragments[id]],
            !.delivered = IF complete
                          THEN Append(@, [i \in 1 .. buf.total |-> parts[i - 1]])
                          ELSE @]

on_data(rx, f) ==
    LET marked == mark_received(rx, f.seq)
    IN  IF ~ Fresh(rx, f.seq) THEN rx
        ELSE IF f.total = 1 THEN [marked EXCEPT !.delivered = Append(@, <<f.payload>>)]
        ELSE Reassemble(marked, f)

CurrentAck(rx) == encode_ack(rx.recv_base, rx.recv_bits)

pop_delivered(rx) == [rx EXCEPT !.delivered = Tail(@)]
==============================================================================
