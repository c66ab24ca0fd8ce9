------------------------------- MODULE Session -------------------------------
(***************************************************************************)
(* The data phase of two UdpSessions (src/session.rs) after the handshake: *)
(* each endpoint is one thread that sits in `send' or `recv' or in neither,*)
(* with its ARQ state, its Noise transport (src/crypto/noise.rs) and its   *)
(* UDP socket.  The threads share nothing but the datagrams.               *)
(*                                                                         *)
(* Noise.  snow numbers the messages of a direction from 0 on and does not *)
(* put the number on the wire: a datagram opens only when the receiver's   *)
(* counter equals the counter it was sealed under, and only then does the  *)
(* receiver's counter advance.                                             *)
(*                                                                         *)
(* Time.  One tick is the 50 ms read slice of wait_acked.  In a prompt     *)
(* scenario nothing takes as long as a tick except waiting, and an         *)
(* application with unread datagrams does not stay out of a call that long.*)
(***************************************************************************)
EXTENDS ArqCore, Packets, SequencesExt

CONSTANTS
    START, Sizes, MaxFrames, RetxValues,   \* as in Arq
    DEFAULT_RETX,     \* the retransmit timeout of a new session
    Scenarios         \* what may happen in a behaviour, see Scenario

Endpoints == {"initiator", "responder"}
Peer(e) == CHOOSE p \in Endpoints : p # e

\* messages: how many each application may send (a bound), and sizes: of how
\* many chunks; faults: how often
\* the network or a socket may misbehave (a bound), and kinds: in which ways;
\* stray: a late copy of handshake message 3 is on its way; retx: timeouts an
\* application sets; drops: DATA the initiator is told to drop unsealed, 0 is
\* never; prompt: see above; cover: ticks between cover datagrams for who turns
\* them on, 0 is nobody; hops: onion layers of the path, 0 is direct; last:
\* bytes in the last chunk of every message; send_timeout and recv_timeout:
\* ticks a send waits for its ACKs and a recv for a message.
Scenario ==
    [messages : [Endpoints -> Nat], sizes : SUBSET Sizes, faults : Nat,
     kinds : SUBSET {"lose", "swap", "duplicate", "refuse"}, stray : BOOLEAN,
     retx : SUBSET RetxValues, drops : Nat, prompt : BOOLEAN, cover : Nat, hops : Nat,
     last : 1 .. MAX_PAYLOAD, send_timeout : Nat, recv_timeout : Nat]

ASSUME SessionAssumption ==
    /\ Scenarios \subseteq Scenario
    /\ RetxValues \subseteq Ages /\ DEFAULT_RETX \in RetxValues
    /\ START \in Seqs /\ Sizes \subseteq 0 .. MAX_PARTS
    /\ MaxFrames \in Nat /\ MaxFrames + RECV_WINDOW < SEQ_MOD /\ MaxFrames + ACK_BEHIND <= SEQ_MOD

VARIABLES
    conf,            \* the scenario of this behaviour
    tx, rx,          \* Arq: send half and receive half
    tx_nonce,        \* Noise transport: counter of the next seal
    rx_nonce,        \* Noise transport: counter of the next open
    drop_data,       \* DATA datagrams still to be dropped unsealed
    cover_age,       \* ticks since last_cover, Never under CoverMode::Off
    call,            \* "send", "recv" or "idle"
    pc,              \* where in the call's loop
    left,            \* ticks to the call's deadline
    result,          \* how the last call ended
    inbox,           \* datagrams sent to the endpoint and not yet read, in order
    todo,            \* messages the application may still send
    faults,          \* how often the network may still misbehave
    gave_up,         \* sequence number of the ArqGiveUp a call returned, or Never
    settled,         \* history: messages queued when a send last returned Ok
    out,             \* history: inner frames the endpoint's Arq handed out
    queued, popped   \* history, as in Arq

arqVars == <<tx, rx, gave_up, out, queued, popped>>
noiseVars == <<tx_nonce, rx_nonce>>
loopVars == <<call, pc, left, result, settled>>
vars == <<conf, arqVars, noiseVars, drop_data, cover_age, loopVars, inbox, todo, faults>>

Handshake == [kind |-> "handshake"]
Cover == [kind |-> "cover"]
Sealed(nonce, frame) == [kind |-> "data", nonce |-> nonce, frame |-> frame]

Init ==
    /\ tx = [e \in Endpoints |-> NewTx(START, DEFAULT_RETX)]
    /\ rx = [e \in Endpoints |-> NewRx(START)]
    /\ tx_nonce = [e \in Endpoints |-> 0]
    /\ rx_nonce = [e \in Endpoints |-> 0]
    /\ cover_age = [e \in Endpoints |-> Never]
    /\ call = [e \in Endpoints |-> "idle"]
    /\ pc = [e \in Endpoints |-> "out"]
    /\ left = [e \in Endpoints |-> 0]
    /\ result = [e \in Endpoints |-> "none"]
    /\ conf \in Scenarios
    /\ todo = conf.messages
    /\ faults = conf.faults
    /\ drop_data = [e \in Endpoints |-> 0]
    /\ inbox = [e \in Endpoints |->
            IF conf.stray /\ e = "responder" THEN <<Handshake>> ELSE << >>]
    /\ gave_up = [e \in Endpoints |-> Never]
    /\ settled = [e \in Endpoints |-> 0]
    /\ out = [e \in Endpoints |-> {}]
    /\ queued = [e \in Endpoints |-> << >>]
    /\ popped = [e \in Endpoints |-> << >>]

-----------------------------------------------------------------------------
(***************************************************************************)
(* Sealing.                                                                *)
(***************************************************************************)

\* The frames of a set of slots in the order of the BTreeMap.
InOrder(t, S) ==
    LET nth(i) == CHOOSE s \in S : Cardinality({u \in S : u < s}) = i - 1
    IN  [i \in 1 .. Cardinality(S) |-> t.unacked[nth(i)].plaintext]

\* seal_data for each of a list of frames: the first ones are dropped while
\* drop_data lasts, and a dropped frame uses no nonce.
SealAll(e, frames) ==
    LET dropped == IF drop_data[e] < Len(frames) THEN drop_data[e] ELSE Len(frames)
    IN  [i \in 1 .. (Len(frames) - dropped) |->
            Sealed(tx_nonce[e] + i - 1, frames[dropped + i])]

\* What flush leaves behind when it has sealed n of the frames and `datagrams'
\* have gone out.
Put(e, frames, n, datagrams) ==
    /\ tx_nonce' = [tx_nonce EXCEPT ![e] = @ + n]
    /\ drop_data' = [drop_data EXCEPT ![e] = @ - (Len(frames) - Len(SealAll(e, frames)))]
    /\ inbox' = [inbox EXCEPT ![Peer(e)] = @ \o datagrams]
    /\ out' = [out EXCEPT ![e] = @ \cup {frames[i] : i \in DOMAIN frames}]

\* Length of the datagram a frame is sent in: every chunk but the last is full.
FrameLen(f) ==
    IF f.kind = "ack" THEN AckLen
    ELSE DataLen(IF f.index + 1 < f.total THEN MAX_PAYLOAD ELSE conf.last)

\* send_inner gets a sealed frame onto the path.
Fits(f) == ~ TooLarge(FrameLen(f) + conf.hops * HopLen)

\* The socket refuses a send or a read (an I/O error, which ends the call).
Refused == "refuse" \in conf.kinds /\ faults > 0 /\ faults' = faults - 1

SendAll_DropAfterSeal(e, frames, extra) ==
    LET sealed == SealAll(e, frames)
        dropped == Len(frames) - Len(sealed)
    IN  Put(e, frames, Len(frames),
            [i \in DOMAIN sealed |-> [sealed[i] EXCEPT !.nonce = @ + dropped]] \o extra)

\* seal_data for each of the frames, all of them sent, and the datagrams in
\* `extra' after them.
SendAll(e, frames, extra) ==
    LET sealed == SealAll(e, frames)
    IN  /\ \A i \in DOMAIN sealed : Fits(sealed[i].frame)
        /\ Put(e, frames, Len(sealed), sealed \o extra)

SendStops_Rewinds(e, frames) ==
    LET sealed == SealAll(e, frames)
    IN  \E k \in DOMAIN sealed :
            /\ \A i \in 1 .. (k - 1) : Fits(sealed[i].frame)
            /\ IF Fits(sealed[k].frame) THEN Refused ELSE UNCHANGED faults
            /\ Put(e, frames, 0, SubSeq(sealed, 1, k - 1))

\* One of the sends fails: its counter is used, and the frames after it are
\* neither sealed nor sent, although the Arq has counted all of them as sent.
SendStops(e, frames) ==
    LET sealed == SealAll(e, frames)
    IN  \E k \in DOMAIN sealed :
            /\ \A i \in 1 .. (k - 1) : Fits(sealed[i].frame)
            /\ IF Fits(sealed[k].frame) THEN Refused ELSE UNCHANGED faults
            /\ Put(e, frames, k, SubSeq(sealed, 1, k - 1))

Opens_AnyLater(e, d) == d.kind = "data" /\ d.nonce >= rx_nonce[e]

\* NoiseSession::open succeeds.
Opens(e, d) == d.kind = "data" /\ d.nonce = rx_nonce[e]

(***************************************************************************)
(* The loops of wait_acked and recv.                                       *)
(***************************************************************************)

\* Top of the loop: recv first looks for a delivered message.
LoopHead(e, r) ==
    IF call[e] = "recv" /\ r.delivered # << >> THEN "pop" ELSE "new"

Return_StaysInLoop(e, how) ==
    /\ call' = [call EXCEPT ![e] = "idle"]
    /\ pc' = [pc EXCEPT ![e] = IF how = "give up" THEN @ ELSE "out"]
    /\ left' = [left EXCEPT ![e] = 0]
    /\ result' = [result EXCEPT ![e] = how]
    /\ settled' = [settled EXCEPT ![e] = IF how = "send ok" THEN Len(queued[e]) ELSE @]

Return(e, how) ==
    /\ call' = [call EXCEPT ![e] = "idle"]
    /\ pc' = [pc EXCEPT ![e] = "out"]
    /\ left' = [left EXCEPT ![e] = 0]
    /\ result' = [result EXCEPT ![e] = how]
    /\ settled' = [settled EXCEPT ![e] = IF how = "send ok" THEN Len(queued[e]) ELSE @]

Goto(e, where) ==
    /\ pc' = [pc EXCEPT ![e] = where]
    /\ UNCHANGED <<call, left, result, settled>>

\* send_timeout: enqueue, then wait_acked.
Send(e, n) ==
    /\ n \in conf.sizes
    /\ call[e] = "idle"
    /\ todo[e] > 0
    /\ wrapping_sub(tx[e].next_seq, START) + FrameCount(n) <= MaxFrames
    /\ tx' = [tx EXCEPT ![e] = enqueue(@, Len(queued[e]) + 1, n)]
    /\ queued' = [queued EXCEPT ![e] = Append(@, [first |-> tx[e].next_seq, chunks |-> n])]
    /\ call' = [call EXCEPT ![e] = "send"]
    /\ pc' = [pc EXCEPT ![e] = "new"]
    /\ left' = [left EXCEPT ![e] = conf.send_timeout]
    /\ todo' = [todo EXCEPT ![e] = @ - 1]
    /\ UNCHANGED <<conf, rx, gave_up, out, popped, noiseVars, drop_data, cover_age,
                   result, settled, inbox, faults>>

\* enqueue refuses a message of more than MAX_PARTS chunks.
SendTooLarge(e) ==
    /\ call[e] = "idle"
    /\ todo[e] > 0
    /\ todo' = [todo EXCEPT ![e] = @ - 1]
    /\ result' = [result EXCEPT ![e] = "too large"]
    /\ UNCHANGED <<conf, arqVars, noiseVars, drop_data, cover_age, call, pc, left, settled,
                   inbox, faults>>

Recv(e) ==
    /\ call[e] = "idle"
    /\ call' = [call EXCEPT ![e] = "recv"]
    /\ pc' = [pc EXCEPT ![e] = IF rx[e].delivered # << >> THEN "pop" ELSE "new"]
    /\ left' = [left EXCEPT ![e] = conf.recv_timeout]
    /\ UNCHANGED <<conf, arqVars, noiseVars, drop_data, cover_age, result, settled, inbox, todo, faults>>

\* Tuning between calls: every method takes the session by &mut.
SetRetxTimeout(e, d) ==
    /\ call[e] = "idle"
    /\ d \in conf.retx
    /\ tx' = [tx EXCEPT ![e] = set_retx(@, d)]
    /\ UNCHANGED <<conf, rx, gave_up, out, queued, popped, noiseVars, drop_data, cover_age,
                   loopVars, inbox, todo, faults>>

DebugDropData(e) ==
    /\ call[e] = "idle"
    /\ e = "initiator" /\ conf.drops > 0
    /\ drop_data' = [drop_data EXCEPT ![e] = conf.drops]
    /\ UNCHANGED <<conf, arqVars, noiseVars, cover_age, loopVars, inbox, todo, faults>>

SetCover(e, on) ==
    /\ call[e] = "idle"
    /\ conf.cover > 0
    /\ cover_age' = [cover_age EXCEPT ![e] = IF on THEN 0 ELSE Never]
    /\ UNCHANGED <<conf, arqVars, noiseVars, drop_data, loopVars, inbox, todo, faults>>

PopMessage_Peek(e) ==
    /\ pc[e] = "pop"
    /\ popped' = [popped EXCEPT ![e] = Append(@, Head(rx[e].delivered))]
    /\ Return(e, "recv ok")
    /\ UNCHANGED <<conf, tx, rx, gave_up, out, queued, noiseVars, drop_data, cover_age, inbox, todo, faults>>

\* recv returns a delivered message.
PopMessage(e) ==
    /\ pc[e] = "pop"
    /\ rx' = [rx EXCEPT ![e] = pop_delivered(@)]
    /\ popped' = [popped EXCEPT ![e] = Append(@, Head(rx[e].delivered))]
    /\ Return(e, "recv ok")
    /\ UNCHANGED <<conf, tx, gave_up, out, queued, noiseVars, drop_data, cover_age, inbox, todo, faults>>

FlushNew_Forgets(e) ==
    /\ pc[e] = "new"
    /\ SendAll(e, InOrder(tx[e], NewSends(tx[e])), << >>)
    /\ Goto(e, "retx")
    /\ UNCHANGED <<conf, tx, rx, gave_up, queued, popped, rx_nonce, cover_age, todo, faults>>

\* First half of flush.
FlushNew(e) ==
    /\ pc[e] = "new"
    /\ tx' = [tx EXCEPT ![e] = take_new_sends(@)]
    /\ SendAll(e, InOrder(tx[e], NewSends(tx[e])), << >>)
    /\ Goto(e, "retx")
    /\ UNCHANGED <<conf, rx, gave_up, queued, popped, rx_nonce, cover_age, todo, faults>>

\* A send of the first half fails.
FlushNewFails(e) ==
    /\ pc[e] = "new"
    /\ tx' = [tx EXCEPT ![e] = take_new_sends(@)]
    /\ SendStops(e, InOrder(tx[e], NewSends(tx[e])))
    /\ Return(e, "not sent")
    /\ UNCHANGED <<conf, rx, gave_up, queued, popped, rx_nonce, cover_age, todo>>

\* wait_acked is done once nothing is outstanding.
SendDone_NothingInFlight(e) == call[e] = "send" /\ Due(tx[e]) = {}

SendDone(e) == call[e] = "send" /\ DOMAIN tx[e].unacked = {}

Expired_Lenient(e) == left[e] < 0

Expired(e) == left[e] = 0

CoverDue(e) == cover_age[e] # Never /\ cover_age[e] >= conf.cover

\* Second half of flush, maybe_cover and the exits of the loop.
FlushRetx(e) ==
    /\ pc[e] = "retx"
    /\ Exhausted(tx[e]) = {}
    /\ tx' = [tx EXCEPT ![e] = take_retransmits(@)]
    /\ SendAll(e, InOrder(tx[e], Retransmits(tx[e])), IF CoverDue(e) THEN <<Cover>> ELSE << >>)
    /\ cover_age' = [cover_age EXCEPT ![e] = IF CoverDue(e) THEN 0 ELSE @]
    /\ IF SendDone(e) THEN Return(e, "send ok")
       ELSE IF Expired(e) THEN Return(e, IF call[e] = "send" THEN "send timeout" ELSE "recv timeout")
       ELSE Goto(e, "block")
    /\ UNCHANGED <<conf, rx, gave_up, queued, popped, rx_nonce, todo, faults>>

\* A retransmission fails.
FlushRetxFails(e) ==
    /\ pc[e] = "retx"
    /\ Exhausted(tx[e]) = {}
    /\ tx' = [tx EXCEPT ![e] = take_retransmits(@)]
    /\ SendStops(e, InOrder(tx[e], Retransmits(tx[e])))
    /\ Return(e, "not sent")
    /\ UNCHANGED <<conf, rx, gave_up, queued, popped, rx_nonce, cover_age, todo>>

\* The cover datagram fails, after last_cover was set.
CoverFails(e) ==
    /\ pc[e] = "retx"
    /\ Exhausted(tx[e]) = {}
    /\ CoverDue(e) /\ Refused
    /\ tx' = [tx EXCEPT ![e] = take_retransmits(@)]
    /\ SendAll(e, InOrder(tx[e], Retransmits(tx[e])), << >>)
    /\ cover_age' = [cover_age EXCEPT ![e] = 0]
    /\ Return(e, "not sent")
    /\ UNCHANGED <<conf, rx, gave_up, queued, popped, rx_nonce, todo>>

FlushGiveUp_Retires(e) ==
    /\ pc[e] = "retx"
    /\ \E g \in Exhausted(tx[e]) :
        /\ \A t \in Exhausted(tx[e]) : g <= t
        /\ gave_up' = [gave_up EXCEPT ![e] = g]
    /\ tx' = [tx EXCEPT ![e].unacked = [s \in DOMAIN @ \ Exhausted(tx[e]) |-> @[s]]]
    /\ Return(e, "give up")
    /\ UNCHANGED <<conf, rx, out, queued, popped, noiseVars, drop_data, cover_age, inbox, todo, faults>>

\* flush fails: the call returns before it looks at the socket.
FlushGiveUp(e) ==
    /\ pc[e] = "retx"
    /\ \E g \in Exhausted(tx[e]) :
        /\ \A t \in Exhausted(tx[e]) : g <= t
        /\ gave_up' = [gave_up EXCEPT ![e] = g]
    /\ tx' = [tx EXCEPT ![e] = take_retransmits(@)]
    /\ Return(e, "give up")
    /\ UNCHANGED <<conf, rx, out, queued, popped, noiseVars, drop_data, cover_age, inbox, todo, faults>>

(***************************************************************************)
(* handle_incoming, one action per outcome.  The datagram is the next one  *)
(* in the socket's buffer.                                                 *)
(***************************************************************************)
Reading(e) == pc[e] = "block" /\ inbox[e] # << >>

\* The next datagram opens and is an ACK.
ReadAck(e) ==
    /\ Reading(e)
    /\ Opens(e, Head(inbox[e])) /\ Head(inbox[e]).frame.kind = "ack"
    /\ rx_nonce' = [rx_nonce EXCEPT ![e] = Head(inbox[e]).nonce + 1]
    /\ LET f == Head(inbox[e]).frame IN tx' = [tx EXCEPT ![e] = on_ack(@, f.base, f.bitmap)]
    /\ inbox' = [inbox EXCEPT ![e] = Tail(@)]
    /\ Goto(e, LoopHead(e, rx[e]))
    /\ UNCHANGED <<conf, rx, out, gave_up, queued, popped, tx_nonce, drop_data, cover_age,
                   todo, faults>>

\* The next datagram opens and is data: ingested, and an ACK sealed for it.
Ingest(e, r, reply) ==
    /\ Reading(e)
    /\ Opens(e, Head(inbox[e])) /\ Head(inbox[e]).frame.kind = "data"
    /\ rx_nonce' = [rx_nonce EXCEPT ![e] = Head(inbox[e]).nonce + 1]
    /\ rx' = [rx EXCEPT ![e] = r]
    /\ tx_nonce' = [tx_nonce EXCEPT ![e] = @ + 1]
    /\ inbox' = [inbox EXCEPT ![e] = Tail(@), ![Peer(e)] = @ \o reply]
    /\ out' = [out EXCEPT ![e] = @ \cup {CurrentAck(r)}]
    /\ UNCHANGED <<conf, tx, gave_up, queued, popped, drop_data, cover_age, todo>>

\* The receive half once the frame of the next datagram is ingested.
Ingested(e) == [on_data(rx[e], Head(inbox[e]).frame) EXCEPT !.pending_ack = TRUE]

ReadData(e) ==
    /\ Ingest(e, Ingested(e), <<Sealed(tx_nonce[e], CurrentAck(Ingested(e)))>>)
    /\ Goto(e, LoopHead(e, Ingested(e)))
    /\ UNCHANGED faults

\* The ACK cannot be sent: the call fails, and what the frame completed stays
\* delivered for a later recv.
AckFails(e) ==
    /\ Ingest(e, Ingested(e), << >>)
    /\ Return(e, "not sent")
    /\ Refused

\* Cover, and whatever does not open, is skipped.
ReadIgnored(e) ==
    /\ Reading(e)
    /\ Head(inbox[e]).kind # "handshake"
    /\ ~ Opens(e, Head(inbox[e]))
    /\ inbox' = [inbox EXCEPT ![e] = Tail(@)]
    /\ Goto(e, LoopHead(e, rx[e]))
    /\ UNCHANGED <<conf, arqVars, noiseVars, drop_data, cover_age, todo, faults>>

\* A late handshake datagram ends the call with UnexpectedType.
ReadUnexpected(e) ==
    /\ Reading(e)
    /\ Head(inbox[e]).kind = "handshake"
    /\ inbox' = [inbox EXCEPT ![e] = Tail(@)]
    /\ Return(e, "unexpected type")
    /\ UNCHANGED <<conf, arqVars, noiseVars, drop_data, cover_age, todo, faults>>

\* The socket fails, or its read timeout cannot be set.
ReadFails(e) ==
    /\ pc[e] = "block"
    /\ Refused
    /\ Return(e, "not read")
    /\ UNCHANGED <<conf, arqVars, noiseVars, drop_data, cover_age, inbox, todo>>

-----------------------------------------------------------------------------
(***************************************************************************)
(* Time and the network.                                                   *)
(***************************************************************************)
Waiting(e) ==
    \/ pc[e] = "block" /\ inbox[e] = << >>
    \/ call[e] = "idle" /\ inbox[e] = << >>

\* The read timeout runs out: the slice of wait_acked at every tick, the one of
\* recv, which is all that is left of its deadline, only at the end.
Wakes(e) == pc[e] = "block" /\ (call[e] = "send" \/ left[e] = 1)

Tick ==
    /\ \A e \in Endpoints : pc[e] # "retx" /\ (conf.prompt => Waiting(e))
    /\ tx' = [e \in Endpoints |-> Elapse(tx[e])]
    /\ cover_age' = [e \in Endpoints |->
            IF cover_age[e] \in 0 .. (conf.cover + 1) THEN cover_age[e] + 1 ELSE cover_age[e]]
    /\ left' = [e \in Endpoints |-> IF left[e] > 0 THEN left[e] - 1 ELSE 0]
    /\ pc' = [e \in Endpoints |-> IF Wakes(e) THEN "new" ELSE pc[e]]
    /\ UNCHANGED <<conf, rx, gave_up, out, queued, popped, noiseVars, drop_data,
                   call, result, settled, inbox, todo, faults>>

Misbehave(kind) ==
    /\ kind \in conf.kinds /\ faults > 0
    /\ faults' = faults - 1
    /\ UNCHANGED <<conf, arqVars, noiseVars, drop_data, cover_age, loopVars, todo>>

Lose(e) ==
    /\ Misbehave("lose")
    /\ \E i \in DOMAIN inbox[e] : inbox' = [inbox EXCEPT ![e] = RemoveAt(@, i)]

Swap(e) ==
    /\ Misbehave("swap")
    /\ \E i \in 2 .. Len(inbox[e]) :
        inbox' = [inbox EXCEPT ![e] = [@ EXCEPT ![i - 1] = inbox[e][i], ![i] = inbox[e][i - 1]]]

Duplicate(e) ==
    /\ Misbehave("duplicate")
    /\ \E i \in DOMAIN inbox[e] : inbox' = [inbox EXCEPT ![e] = Append(@, inbox[e][i])]

Turn(e) ==
    \/ PopMessage(e)
    \/ FlushNew(e) \/ FlushNewFails(e)
    \/ FlushRetx(e) \/ FlushRetxFails(e) \/ CoverFails(e)
    \/ FlushGiveUp(e)
    \/ ReadAck(e)
    \/ ReadData(e) \/ AckFails(e)
    \/ ReadIgnored(e)
    \/ ReadUnexpected(e)
    \/ ReadFails(e)

Configure(e) ==
    \/ \E d \in RetxValues : SetRetxTimeout(e, d)
    \/ DebugDropData(e)
    \/ \E on \in BOOLEAN : SetCover(e, on)

Next ==
    \/ \E e \in Endpoints, n \in Sizes : Send(e, n)
    \/ \E e \in Endpoints : Configure(e)
    \/ \E e \in Endpoints : SendTooLarge(e) \/ Recv(e) \/ Turn(e)
    \/ \E e \in Endpoints : Lose(e) \/ Swap(e) \/ Duplicate(e)
    \/ Tick

Spec == Init /\ [][Next]_vars

\* An attentive application gets to its unread datagrams.
Attend(e) == conf.prompt /\ inbox[e] # << >> /\ Recv(e)

\* A thread inside a call keeps running, and the clock keeps going: strong
\* fairness, because Tick stands back while a flush works with one `now' and
\* an application may call again and again.  Nothing is assumed of the network
\* or, outside a prompt scenario, of when applications call.
FairSpec ==
    /\ Spec
    /\ SF_vars(Tick)
    /\ \A e \in Endpoints : WF_vars(Turn(e)) /\ WF_vars(Attend(e))

-----------------------------------------------------------------------------
(***************************************************************************)
(* Properties.                                                             *)
(***************************************************************************)
Outcomes == {"none", "send ok", "send timeout", "recv ok", "recv timeout",
             "give up", "unexpected type", "too large", "not sent", "not read"}

\* The loop's state is consistent, and a receive counter never passes the send
\* counter it follows.
TypeOK ==
    \A e \in Endpoints :
        /\ call[e] \in {"idle", "send", "recv"} /\ result[e] \in Outcomes
        /\ pc[e] \in {"out", "pop", "new", "retx", "block"}
        /\ call[e] = "idle" <=> pc[e] = "out"
        /\ left[e] \in 0 .. (conf.send_timeout + conf.recv_timeout)
        /\ rx_nonce[e] <= tx_nonce[Peer(e)]
        /\ drop_data[e] \in Nat

Delivered(e) == popped[e] \o rx[e].delivered

\* When a send has returned Ok, every message queued so far has been delivered
\* to the peer, whatever was lost, repeated or reordered on the way, and also
\* when earlier calls failed (wait_acked's unacked_len() == 0).
SendOkDelivered ==
    \A e \in Endpoints : \A m \in 1 .. settled[e] :
        \E i \in DOMAIN Delivered(Peer(e)) :
            Delivered(Peer(e))[i] = Content(m, queued[e][m].chunks)

\* The next flush gives up, and the socket is not read before it.
Stuck(e) == pc[e] # "block" /\ Exhausted(tx[e]) # {}

\* Out of a give-up there is one way only.  ArqGiveUp leaves the exhausted frame
\* where it is and flush comes before the socket: from then on no call receives
\* anything and no send is Ok, whatever the peer acknowledges meanwhile, until
\* the application itself sets a longer retransmit timeout.
GiveUpIsFinal ==
    [][\A e \in Endpoints :
          /\ FlushGiveUp(e) => Stuck(e)'
          /\ Stuck(e) =>
                /\ settled'[e] = settled[e]
                /\ rx_nonce'[e] = rx_nonce[e]
                /\ Stuck(e)' \/ tx'[e].retx > tx[e].retx]_vars

\* "per direction (never reuse)": two datagrams of a direction that were sealed
\* under one counter are copies of each other, and the next seal uses a counter
\* no datagram on its way has, also when a send failed half way through a flush.
NonceUnique ==
    \A e \in Endpoints : \A i, j \in DOMAIN inbox[e] :
        LET d == inbox[e][i]
            c == inbox[e][j]
        IN  d.kind = "data" /\ c.kind = "data" =>
                /\ d.nonce < tx_nonce[Peer(e)]
                /\ d.nonce = c.nonce => d = c

\* The datagram the receiver of direction e -> Peer(e) waits for is gone.
Gap(e) ==
    /\ rx_nonce[Peer(e)] < tx_nonce[e]
    /\ \A i \in DOMAIN inbox[Peer(e)] :
        LET d == inbox[Peer(e)][i] IN d.kind = "data" => d.nonce # rx_nonce[Peer(e)]

\* Once a sealed datagram is lost, or read too early, its direction is dead:
\* retransmissions are sealed under later counters and never open.
GapIsPermanent ==
    [][\A e \in Endpoints : Gap(e) =>
          /\ Gap(e)'
          /\ rx'[Peer(e)].recv_base = rx[Peer(e)].recv_base
          /\ rx'[Peer(e)].recv_bits = rx[Peer(e)].recv_bits]_vars

\* A frame waits that cannot be put on the path.
Unfit(e) == \E s \in DOMAIN tx[e].unacked : ~ Fits(tx[e].unacked[s].plaintext)

\* "Loss recovery (drop one DATA) | yes": with fewer lost datagrams than a frame
\* has attempts, a prompt network, attentive applications and frames that fit
\* the path, no send fails.
LossRecovered ==
    \A e \in Endpoints :
        conf.prompt /\ ~ Unfit(e) => result[e] \notin {"send timeout", "give up"}

\* One message with a frame too large for its onion path ends the session as a
\* sender: the frame stays queued, and no later send, however small, is Ok.
UnfitIsFinal ==
    [][\A e \in Endpoints : Unfit(e) => Unfit(e)' /\ settled'[e] = settled[e]]_vars

\* "Each hop adds 78 bytes": a message whose frames fit by that number is sent.
DocumentedFit ==
    \A e \in Endpoints :
        result[e] = "not sent" /\ conf.kinds = {} =>
            \E s \in DOMAIN tx[e].unacked :
                TooLarge(FrameLen(tx[e].unacked[s].plaintext) + 78 * conf.hops)

\* "~200 ms idle cadence": an endpoint that has been in a call for longer than
\* the interval has sent a cover datagram within the last interval (one tick of
\* slack for the loop to get there).
CoverCadence ==
    \A e \in Endpoints :
        cover_age[e] # Never /\ call[e] = "recv" /\ conf.recv_timeout - left[e] > conf.cover + 1
            => cover_age[e] <= conf.cover + 1

\* Every call comes back: wait_acked and recv look at their deadline on every
\* turn of the loop and never block past it.
CallsReturn == \A e \in Endpoints : call[e] # "idle" ~> call[e] = "idle"

(***************************************************************************)
(* Each direction of a session is an ARQ flow: what the session seals,     *)
(* loses, drops and opens is a transport in the sense of Arq, and the loop *)
(* only ever takes steps Arq allows.                                       *)
(***************************************************************************)
Frames(e, kind) == {f \in out[e] : f.kind = kind}

InitiatorFlow == INSTANCE Arq WITH
    tx <- tx["initiator"], rx <- rx["responder"],
    wire <- Frames("initiator", "data") \cup Frames("responder", "ack"),
    gave_up <- gave_up["initiator"], queued <- queued["initiator"], popped <- popped["responder"]

ResponderFlow == INSTANCE Arq WITH
    tx <- tx["responder"], rx <- rx["initiator"],
    wire <- Frames("responder", "data") \cup Frames("initiator", "ack"),
    gave_up <- gave_up["responder"], queued <- queued["responder"], popped <- popped["initiator"]

\* The initiator's flow is a behaviour of Arq, so what holds of every behaviour
\* of Arq holds of the messages the initiator sends.
InitiatorImplementsArq == InitiatorFlow!Spec

\* The same of the responder's flow.
ResponderImplementsArq == ResponderFlow!Spec
==============================================================================
