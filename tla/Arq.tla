--------------------------------- MODULE Arq ---------------------------------
(***************************************************************************)
(* Selective-repeat ARQ (src/reliability/arq.rs): the send half of one     *)
(* endpoint and the receive half of the other.  The two halves of `Arq'    *)
(* share no field, so one direction of a session is this specification.    *)
(*                                                                         *)
(* The transport between them is whatever was ever put on it: a frame may  *)
(* be taken from it late, twice, out of order or never.                    *)
(***************************************************************************)
EXTENDS ArqCore

CONSTANTS
    START,        \* next_seq and recv_base of an idle pair: 0 at first, later anything
    Sizes,        \* chunk counts of the messages the application may queue
    MaxFrames,    \* bound: frames queued in a behaviour
    RetxValues    \* retransmit timeouts an application may choose

ASSUME InstanceAssumption ==
    /\ START \in Seqs /\ Sizes \subseteq 0 .. MAX_PARTS
    /\ RetxValues \subseteq Ages /\ RetxValues # {}
    /\ MaxFrames \in Nat
    \* A long way from one lap of the sequence space: 2^32 against a session's traffic.
    /\ MaxFrames + RECV_WINDOW < SEQ_MOD
    /\ MaxFrames + ACK_BEHIND <= SEQ_MOD

VARIABLES
    tx,        \* send half
    rx,        \* receive half
    wire,      \* every frame ever handed to the transport, in either direction
    gave_up,   \* sequence number named by the last ArqGiveUp, or Never
    queued,    \* history: chunk count and first frame of each queued message
    popped     \* history: what pop_delivered returned, in order

vars == <<tx, rx, wire, gave_up, queued, popped>>

Init ==
    /\ \E d \in RetxValues : tx = NewTx(START, d)
    /\ rx = NewRx(START)
    /\ wire = {}
    /\ gave_up = Never
    /\ queued = << >>
    /\ popped = << >>

\* Position of a sequence number in the flow, counted from START.
Offset(s) == wrapping_sub(s, START)

FramesOf(t, S) == {t.unacked[s].plaintext : s \in S}

-----------------------------------------------------------------------------
Enqueue(n) ==
    /\ Offset(tx.next_seq) + FrameCount(n) <= MaxFrames
    /\ tx' = enqueue(tx, Len(queued) + 1, n)
    /\ queued' = Append(queued, [first |-> tx.next_seq, chunks |-> n])
    /\ UNCHANGED <<rx, wire, gave_up, popped>>

TakeNewSends ==
    /\ tx' = take_new_sends(tx)
    /\ wire' = wire \cup FramesOf(tx, NewSends(tx))
    /\ UNCHANGED <<rx, gave_up, queued, popped>>

TakeRetransmits ==
    /\ Exhausted(tx) = {}
    /\ tx' = take_retransmits(tx)
    /\ wire' = wire \cup FramesOf(tx, Retransmits(tx))
    /\ UNCHANGED <<rx, gave_up, queued, popped>>

\* take_retransmits returns Err(ArqGiveUp): what it counted is not handed out.
GiveUp ==
    \E g \in Exhausted(tx) :
        /\ \A t \in Exhausted(tx) : g <= t
        /\ tx' = take_retransmits(tx)
        /\ gave_up' = g
        /\ UNCHANGED <<rx, wire, queued, popped>>

IngestAck ==
    \E f \in wire :
        /\ f.kind = "ack"
        /\ tx' = on_ack(tx, f.base, f.bitmap)
        /\ UNCHANGED <<rx, wire, gave_up, queued, popped>>

\* Every data frame is answered, fresh or not.
IngestData ==
    \E f \in wire :
        /\ f.kind = "data"
        /\ rx' = [on_data(rx, f) EXCEPT !.pending_ack = TRUE]
        /\ wire' = wire \cup {CurrentAck(rx')}
        /\ UNCHANGED <<tx, gave_up, queued, popped>>

TakeAck ==
    /\ rx.pending_ack
    /\ rx' = [rx EXCEPT !.pending_ack = FALSE]
    /\ wire' = wire \cup {CurrentAck(rx)}
    /\ UNCHANGED <<tx, gave_up, queued, popped>>

PopDelivered ==
    /\ rx.delivered # << >>
    /\ rx' = pop_delivered(rx)
    /\ popped' = Append(popped, Head(rx.delivered))
    /\ UNCHANGED <<tx, wire, gave_up, queued>>

SetRetx(d) ==
    /\ tx' = set_retx(tx, d)
    /\ UNCHANGED <<rx, wire, gave_up, queued, popped>>

Tick ==
    /\ tx' = Elapse(tx)
    /\ UNCHANGED <<rx, wire, gave_up, queued, popped>>

Next ==
    \/ \E n \in Sizes : Enqueue(n)
    \/ TakeNewSends
    \/ TakeRetransmits
    \/ GiveUp
    \/ IngestAck
    \/ IngestData
    \/ TakeAck
    \/ PopDelivered
    \/ \E d \in RetxValues : SetRetx(d)
    \/ Tick

Spec == Init /\ [][Next]_vars

\* The session calls flush on every turn of its loops and time passes; nothing
\* is assumed of the transport or of the receiving application.
Fairness == WF_vars(TakeNewSends) /\ WF_vars(TakeRetransmits) /\ WF_vars(GiveUp) /\ WF_vars(Tick)

FairSpec == Spec /\ Fairness

-----------------------------------------------------------------------------
(***************************************************************************)
(* Properties.                                                             *)
(***************************************************************************)
Payloads == Nat \X Nat         \* message number, chunk index

DataFrames ==
    [kind : {"data"}, seq : Seqs, frag_id : 0 .. (FRAG_MOD - 1),
     index : 0 .. (MAX_PARTS - 1), total : 1 .. MAX_PARTS, payload : Payloads]

AckFrames == [kind : {"ack"}, base : Seqs, bitmap : SUBSET (0 .. (RECV_WINDOW - 1))]

Slots == [plaintext : DataFrames, age : Ages \cup {Never}, attempts : 0 .. MAX_ATTEMPTS]

TxTypeOK ==
    /\ tx = [next_seq |-> tx.next_seq, next_frag_id |-> tx.next_frag_id,
             unacked |-> tx.unacked, retx |-> tx.retx]
    /\ tx.next_seq \in Seqs
    /\ tx.next_frag_id \in 1 .. (FRAG_MOD - 1)
    /\ tx.retx \in RetxValues
    /\ DOMAIN tx.unacked \subseteq Seqs
    /\ tx.unacked \in [DOMAIN tx.unacked -> Slots]

RxTypeOK ==
    /\ rx = [recv_base |-> rx.recv_base, recv_bits |-> rx.recv_bits,
             fragments |-> rx.fragments, delivered |-> rx.delivered,
             pending_ack |-> rx.pending_ack]
    /\ rx.recv_base \in Seqs
    /\ rx.recv_bits \in SUBSET (0 .. (RECV_WINDOW - 1))
    /\ \A id \in DOMAIN rx.fragments :
        LET buf == rx.fragments[id]
        IN  /\ buf = [total |-> buf.total, parts |-> buf.parts]
            /\ buf.total \in 1 .. MAX_PARTS
            /\ DOMAIN buf.parts \subseteq 0 .. (buf.total - 1)
            /\ buf.parts \in [DOMAIN buf.parts -> Payloads]
    /\ rx.delivered \in Seq(Seq(Payloads))
    /\ rx.pending_ack \in BOOLEAN

\* Every variable has its type: in particular no frame is ever sent more than
\* MAX_ATTEMPTS times, and sequence numbers and bitmaps keep their widths.
TypeOK ==
    /\ TxTypeOK
    /\ RxTypeOK
    /\ wire \subseteq DataFrames \cup AckFrames
    /\ gave_up \in Seqs \cup {Never}
    /\ queued \in Seq([first : Seqs, chunks : Sizes])
    /\ popped \in Seq(Seq(Payloads))

\* What the receive half has accepted, by offset and by sequence number.
AcceptedAt(o) ==
    \/ o < Offset(rx.recv_base)
    \/ o - Offset(rx.recv_base) \in rx.recv_bits

Received(s) == AcceptedAt(Offset(s))

\* Sequence numbers handed out so far.
Assigned == {s \in Seqs : Offset(s) < Offset(tx.next_seq)}

\* A frame leaves `unacked' only once the receive half has accepted it, however
\* late, often and disordered the ACKs arrive (on_ack and acked, arq.rs).
NoFalseAck == \A s \in Assigned : s \in DOMAIN tx.unacked \/ Received(s)

\* Whatever the receive half has accepted and the send half still waits for is
\* covered by the ACK the receive half would write now: one more round trip
\* settles it, even when the base has moved on (the ACK_BEHIND rule of acked).
CurrentAckCovers ==
    \A s \in DOMAIN tx.unacked :
        Received(s) => acked(rx.recv_base, rx.recv_bits, s)

\* The receive window holds nothing but frames that were assigned, and every
\* ACK on the wire, however old, speaks only of frames that were accepted.
FlowInv ==
    /\ Offset(tx.next_seq) <= MaxFrames
    /\ \A s \in DOMAIN tx.unacked : s \in Assigned /\ tx.unacked[s].plaintext.seq = s
    /\ \A f \in wire : f.kind = "data" => f.seq \in Assigned
    /\ Offset(rx.recv_base) <= Offset(tx.next_seq)
    /\ \A b \in rx.recv_bits : Offset(rx.recv_base) + b < Offset(tx.next_seq)
    /\ \A f \in wire : f.kind = "ack" =>
        /\ Offset(f.base) <= Offset(rx.recv_base)
        /\ \A b \in f.bitmap : AcceptedAt(Offset(f.base) + b)

Delivered == popped \o rx.delivered

\* Each delivered message is one the application queued, whole and in chunk
\* order, and none is delivered twice (on_data, FragBuf reuse of frag_id).
DeliveredIntact ==
    /\ \A i \in DOMAIN Delivered :
        \E m \in DOMAIN queued : Delivered[i] = Content(m, queued[m].chunks)
    /\ \A i, j \in DOMAIN Delivered : Delivered[i] = Delivered[j] => i = j

SeqsOf(m) ==
    {wrapping_add(queued[m].first, i) : i \in 0 .. (FrameCount(queued[m].chunks) - 1)}

\* A message none of whose frames is outstanding has been delivered: what
\* `send' promises when it returns Ok on an empty `unacked'.
AckedMeansDelivered ==
    \A m \in DOMAIN queued :
        SeqsOf(m) \cap DOMAIN tx.unacked = {} =>
            \E i \in DOMAIN Delivered : Delivered[i] = Content(m, queued[m].chunks)

\* The flow does not cross the end of the sequence space.
NoWrap == START + MaxFrames < SEQ_MOD

\* An older frame has been sent at least as often as a younger one, and as long
\* ago when equally often; frames not yet sent are the youngest.
AttemptOrder ==
    \A s, t \in DOMAIN tx.unacked :
        s < t /\ t \in Sent(tx) =>
            /\ s \in Sent(tx)
            /\ \/ tx.unacked[s].attempts > tx.unacked[t].attempts
               \/ /\ tx.unacked[s].attempts = tx.unacked[t].attempts
                  /\ tx.unacked[s].age >= tx.unacked[t].age

\* take_new_sends goes by number, not by age: a younger frame is sent while an
\* older one still waits for room in the window only if the younger one's number
\* comes after the wrap and the older one's before it.
OvertakesAtWrap ==
    \A s \in Unsent(tx), t \in Sent(tx) : Offset(s) < Offset(t) => t < s

\* A slot with a transmission time has been counted, and the others have not.
SentCounted == \A s \in DOMAIN tx.unacked : s \in Sent(tx) <=> tx.unacked[s].attempts >= 1

\* take_retransmits gives up only on the oldest outstanding frame, and then
\* without having counted (and thrown away) a retransmission of another one,
\* although the loop updates slots before it can return ArqGiveUp.
GiveUpDiscardsNothing ==
    \A g \in Exhausted(tx) :
        (\A t \in Exhausted(tx) : g <= t) =>
            /\ Retransmits(tx) = {}
            /\ \A s \in DOMAIN tx.unacked : g <= s

\* A sequence number the sender has retired is never outstanding again, and a
\* frame keeps its contents for as long as it is retransmitted.
SlotStable ==
    [][\A s \in DOMAIN tx'.unacked :
          IF s \in DOMAIN tx.unacked
          THEN tx'.unacked[s].plaintext = tx.unacked[s].plaintext
          ELSE s \notin Assigned]_vars

\* Whatever the transport does, a sender that keeps flushing comes to an end:
\* every frame is retired or the flow gives up.
Settles == (DOMAIN tx.unacked # {}) ~> (DOMAIN tx.unacked = {} \/ gave_up # Never)
==============================================================================
