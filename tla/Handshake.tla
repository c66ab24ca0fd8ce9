------------------------------ MODULE Handshake ------------------------------
(***************************************************************************)
(* Session establishment (src/session.rs: connect_initiator_pinned,        *)
(* accept_ex) over Noise XX (src/crypto/noise.rs), and what established    *)
(* sessions do with datagrams of earlier attempts.                         *)
(*                                                                         *)
(* An initiator may connect several times, each time from a new socket; a  *)
(* responder accepts again on the same address.  Each side has its path to *)
(* the other: direct, through a relay, which wraps a datagram again and    *)
(* names the socket it came from, or through the hops of an onion, the     *)
(* last of which sends on what it peeled.  The two need not fit together.  *)
(*                                                                         *)
(* Noise (snow, external).  A handshake message is the record of all that  *)
(* it authenticates: message 2 and 3 contain the transcript they continue, *)
(* and are read only by who has that transcript.  Message 1 authenticates  *)
(* nothing: whatever handshake datagram a fresh responder reads first is   *)
(* taken for it.                                                           *)
(***************************************************************************)
EXTENDS Integers, FiniteSets, Sequences, SequencesExt

CONSTANTS
    Attempts,      \* bound: 1 .. Attempts are the initiator's connects
    Accepts,       \* bound: 1 .. Accepts are the responder's accepts
    Datagrams,     \* bound: DATA datagrams each session sends
    Scenarios      \* paths, pins and, as a bound, faults of a behaviour

AnyKey == "any"
IKey == "initiator key"
RKey == "responder key"

Sockets == 0 .. Attempts       \* 0 is the responder's address
Responder == 0
Relay == -1
Start == << >>                 \* the transcript before message 1

\* A path: its kind and, of an onion, the addresses of its hops.  A responder's
\* return path through an onion leads to the one socket it was given.
Direct == [kind |-> "direct", hops |-> << >>]
ViaRelay == [kind |-> "relay", hops |-> << >>]
ViaOnion(hops) == [kind |-> "onion", hops |-> hops]
Dest == 1

\* An onion has at least one hop (wrap_route), and its hops are neither endpoints
\* nor the relay.
IsPath(p) ==
    \/ p \in {Direct, ViaRelay}
    \/ /\ p = ViaOnion(p.hops) /\ p.hops \in Seq(Int) /\ p.hops # << >>
       /\ \A i \in DOMAIN p.hops : p.hops[i] < Relay

ASSUME HandshakeAssumption ==
    /\ {Attempts, Accepts} \subseteq Nat \ {0} /\ Datagrams \in Nat
    /\ \A c \in Scenarios : IsPath(c.ini) /\ IsPath(c.rsp)

VARIABLES
    conf,     \* the scenario: [ini, rsp, ipins, rpins, faults]
    ini,      \* per connect: [pc, pin, h]; h is the transcript so far
    rsp,      \* per accept: [pc, pin, h, next_hop, peer]
    sent,     \* DATA datagrams sent by the session of each socket or accept
    inbox,    \* per socket: datagrams on their way to it, in order
    faults    \* how often the network may still misbehave

vars == <<conf, ini, rsp, sent, inbox, faults>>

Init ==
    /\ conf \in Scenarios
    /\ ini = [a \in 1 .. Attempts |-> [pc |-> "new", pin |-> AnyKey, h |-> Start]]
    /\ rsp = [b \in 1 .. Accepts |->
            [pc |-> "new", pin |-> AnyKey, h |-> Start, next_hop |-> 0, peer |-> 0]]
    /\ sent = [i |-> [a \in 1 .. Attempts |-> 0], r |-> [b \in 1 .. Accepts |-> 0]]
    /\ inbox = [s \in Sockets |-> << >>]
    /\ faults = conf.faults

-----------------------------------------------------------------------------
(***************************************************************************)
(* Messages.  A datagram has a type and a body, the UDP address it comes   *)
(* from, whether it is in a forward wrapper, and the socket it was sent    *)
(* from, which the receiver knows only from a wrapper.                     *)
(***************************************************************************)
Msg1(a) == <<[msg |-> 1, e |-> a]>>
Msg2(h, b) == Append(h, [msg |-> 2, e |-> b, s |-> RKey])
Msg3(h) == Append(h, [msg |-> 3, s |-> IKey])

\* The transcript of a responder that takes `body' for message 1; the ephemeral
\* key it finds in anything but a message 1 is nobody's.
Nobody == 0
Taken(body) == IF Len(body) = 1 THEN body ELSE Msg1(Nobody)

\* The address a path's first datagram goes to, and replies must come from.
NextHop_Last(path, peer) ==
    CASE path.kind = "direct" -> peer [] path.kind = "relay" -> Relay
      [] path.kind = "onion" -> Last(path.hops)

NextHop(path, peer) ==
    CASE path.kind = "direct" -> peer [] path.kind = "relay" -> Relay
      [] path.kind = "onion" -> Head(path.hops)

\* The address from which a datagram arrives at the end of a path.
Source(path, origin) ==
    CASE path.kind = "direct" -> origin [] path.kind = "relay" -> Relay
      [] path.kind = "onion" -> Last(path.hops)

Datagram(type, path, origin, body) ==
    [type |-> type, from |-> Source(path, origin), wrapped |-> path.kind = "relay",
     origin |-> origin, body |-> body]

\* send_inner.  What is sent to a relay or a hop without its wrapper ends there.
Post(box, to, d) == IF to \in Sockets THEN [box EXCEPT ![to] = Append(@, d)] ELSE box

\* The inboxes once the first datagram of a socket is read.
Rest(socket) == [inbox EXCEPT ![socket] = Tail(@)]

\* read_handshake of message n succeeds: it continues the transcript h.
Continues(body, h, n) ==
    Len(body) = Len(h) + 1 /\ Front(body) = h /\ Last(body).msg = n

\* decode_incoming finds a handshake datagram: a wrapper is expected from a
\* relay and nowhere else.
IsHandshake(path, d) == d.type = "handshake" /\ d.wrapped = (path.kind = "relay")

Ended == {"failed", "timeout", "closed"}
Pinned(expected, key) == expected \in {AnyKey, key}

-----------------------------------------------------------------------------
(***************************************************************************)
(* connect_initiator_pinned.                                               *)
(***************************************************************************)

\* Up to the wait for message 2.
Connect(a) ==
    /\ ini[a].pc = "new" /\ \A c \in 1 .. (a - 1) : ini[c].pc \in Ended
    /\ \E k \in conf.ipins :
        ini' = [ini EXCEPT ![a] = [pc |-> "wait2", pin |-> k, h |-> Msg1(a)]]
    /\ inbox' = Post(inbox, Responder, Datagram("handshake", conf.ini, a, Msg1(a)))
    /\ UNCHANGED <<conf, rsp, sent, faults>>

ConnectFails(a, how) ==
    /\ ini' = [ini EXCEPT ![a].pc = how]
    /\ UNCHANGED <<conf, rsp, sent, faults>>

\* Whether the datagram is the message 2 that connect a waits for.
Answers(a, d) ==
    /\ d.from = NextHop(conf.ini, Responder)
    /\ IsHandshake(conf.ini, d) /\ Continues(d.body, ini[a].h, 2)

\* Message 2 is answered with message 3 before the pin is looked at.
ConnectRead(a) ==
    /\ ini[a].pc = "wait2" /\ inbox[a] # << >>
    /\ LET d == Head(inbox[a]) IN
        \/ /\ Answers(a, d)
           /\ ini' = [ini EXCEPT ![a] =
                [@ EXCEPT !.pc = IF Pinned(ini[a].pin, Last(d.body).s) THEN "up" ELSE "failed",
                          !.h = Msg3(d.body)]]
           /\ inbox' = Post(Rest(a), Responder,
                            Datagram("handshake", conf.ini, a, Msg3(d.body)))
           /\ UNCHANGED <<conf, rsp, sent, faults>>
        \/ ~ Answers(a, d) /\ inbox' = Rest(a) /\ ConnectFails(a, "failed")

ConnectTimeout(a) ==
    /\ ini[a].pc = "wait2"
    /\ ConnectFails(a, "timeout") /\ UNCHANGED inbox

(***************************************************************************)
(* accept_ex.                                                              *)
(***************************************************************************)
Accept(b) ==
    /\ rsp[b].pc = "new" /\ \A c \in 1 .. (b - 1) : rsp[c].pc \in Ended
    /\ \E k \in conf.rpins : rsp' = [rsp EXCEPT ![b].pc = "wait1", ![b].pin = k]
    /\ UNCHANGED <<conf, ini, sent, inbox, faults>>

AcceptFails(b, how) ==
    /\ rsp' = [rsp EXCEPT ![b].pc = how]
    /\ UNCHANGED <<conf, ini, sent, faults>>

\* Who a session accepted with d as its first datagram sends to: with an onion
\* the socket it was given, wherever d came from.
PeerOf(d) ==
    CASE conf.rsp.kind = "direct" -> d.from [] conf.rsp.kind = "relay" -> d.origin
      [] conf.rsp.kind = "onion" -> Dest

\* The first datagram: any handshake datagram is taken for message 1, from any
\* address unless a relay is expected.
Opening(d) == IsHandshake(conf.rsp, d) /\ (conf.rsp.kind = "relay" => d.from = Relay)

AcceptFirst(b) ==
    /\ rsp[b].pc = "wait1" /\ inbox[Responder] # << >>
    /\ LET d == Head(inbox[Responder]) IN
        \/ /\ Opening(d)
           /\ rsp' = [rsp EXCEPT ![b] =
                [@ EXCEPT !.pc = "wait3", !.h = Msg2(Taken(d.body), b),
                          !.next_hop = NextHop(conf.rsp, d.from), !.peer = PeerOf(d)]]
           /\ inbox' = Post(Rest(Responder), PeerOf(d),
                    Datagram("handshake", conf.rsp, Responder, Msg2(Taken(d.body), b)))
           /\ UNCHANGED <<conf, ini, sent, faults>>
        \/ ~ Opening(d) /\ inbox' = Rest(Responder) /\ AcceptFails(b, "failed")

\* Whether the datagram completes accept b.
Completes_AnyThird(b, d) ==
    d.from = rsp[b].next_hop /\ IsHandshake(conf.rsp, d) /\ Last(d.body).msg = 3

Completes(b, d) ==
    d.from = rsp[b].next_hop /\ IsHandshake(conf.rsp, d) /\ Continues(d.body, rsp[b].h, 3)

\* The peer a session sends to after a datagram from its next hop: the relay
\* says where it came from, and that is believed before the datagram is opened.
PeerAfter(s, d) == IF d.wrapped /\ conf.rsp.kind = "relay" THEN d.origin ELSE s.peer

AcceptThird_Unfinished(b) ==
    /\ rsp[b].pc = "wait3" /\ inbox[Responder] # << >>
    /\ inbox' = Rest(Responder)
    /\ IF Completes(b, Head(inbox[Responder]))
       THEN rsp' = [rsp EXCEPT ![b].pc = "up"] /\ UNCHANGED <<conf, ini, sent, faults>>
       ELSE AcceptFails(b, "failed")

\* The second datagram: message 3, or the accept fails.
AcceptThird(b) ==
    /\ rsp[b].pc = "wait3" /\ inbox[Responder] # << >>
    /\ inbox' = Rest(Responder)
    /\ LET d == Head(inbox[Responder]) IN
        \/ /\ Completes(b, d)
           /\ rsp' = [rsp EXCEPT ![b] =
                [@ EXCEPT !.pc = IF Pinned(rsp[b].pin, Last(d.body).s) THEN "up" ELSE "failed",
                          !.h = d.body, !.peer = PeerAfter(rsp[b], d)]]
           /\ UNCHANGED <<conf, ini, sent, faults>>
        \/ ~ Completes(b, d) /\ AcceptFails(b, "failed")

AcceptTimeout_FirstOnly(b) ==
    /\ rsp[b].pc = "wait1"
    /\ AcceptFails(b, "timeout") /\ UNCHANGED inbox

AcceptTimeout(b) ==
    /\ rsp[b].pc \in {"wait1", "wait3"}
    /\ AcceptFails(b, "timeout") /\ UNCHANGED inbox

-----------------------------------------------------------------------------
(***************************************************************************)
(* Established sessions, as far as other attempts can touch them.          *)
(***************************************************************************)
InitiatorSends(a) ==
    /\ ini[a].pc = "up" /\ sent.i[a] < Datagrams
    /\ sent' = [sent EXCEPT !.i[a] = @ + 1]
    /\ inbox' = Post(inbox, Responder, Datagram("data", conf.ini, a, ini[a].h))
    /\ UNCHANGED <<conf, ini, rsp, faults>>

ResponderSends(b) ==
    /\ rsp[b].pc = "up" /\ sent.r[b] < Datagrams
    /\ sent' = [sent EXCEPT !.r[b] = @ + 1]
    /\ inbox' = Post(inbox, rsp[b].peer, Datagram("data", conf.rsp, Responder, rsp[b].h))
    /\ UNCHANGED <<conf, ini, rsp, faults>>

InitiatorReads(a) ==
    /\ ini[a].pc = "up" /\ inbox[a] # << >>
    /\ inbox' = Rest(a)
    /\ UNCHANGED <<conf, ini, rsp, sent, faults>>

ResponderReads_Roams(b) ==
    /\ rsp[b].pc = "up" /\ inbox[Responder] # << >>
    /\ rsp' = [rsp EXCEPT ![b].peer = Head(inbox[Responder]).from]
    /\ inbox' = Rest(Responder)
    /\ UNCHANGED <<conf, ini, sent, faults>>

\* A datagram from elsewhere than the next hop is skipped.
ResponderReads(b) ==
    /\ rsp[b].pc = "up" /\ inbox[Responder] # << >>
    /\ LET d == Head(inbox[Responder]) IN
        rsp' = [rsp EXCEPT ![b].peer =
                    IF d.from = rsp[b].next_hop THEN PeerAfter(rsp[b], d) ELSE @]
    /\ inbox' = Rest(Responder)
    /\ UNCHANGED <<conf, ini, sent, faults>>

CloseInitiator(a) ==
    /\ ini[a].pc = "up"
    /\ ini' = [ini EXCEPT ![a].pc = "closed"]
    /\ UNCHANGED <<conf, rsp, sent, inbox, faults>>

CloseResponder(b) ==
    /\ rsp[b].pc = "up"
    /\ rsp' = [rsp EXCEPT ![b].pc = "closed"]
    /\ UNCHANGED <<conf, ini, sent, inbox, faults>>

Misbehave == faults > 0 /\ faults' = faults - 1 /\ UNCHANGED <<conf, ini, rsp, sent>>

Lose(s) == Misbehave /\ \E i \in DOMAIN inbox[s] : inbox' = [inbox EXCEPT ![s] = RemoveAt(@, i)]

Duplicate(s) == Misbehave /\ \E i \in DOMAIN inbox[s] : inbox' = Post(inbox, s, inbox[s][i])

Swap(s) ==
    /\ Misbehave
    /\ \E i \in 2 .. Len(inbox[s]) :
        inbox' = [inbox EXCEPT ![s] = [@ EXCEPT ![i - 1] = inbox[s][i], ![i] = inbox[s][i - 1]]]

Connecting(a) == Connect(a) \/ ConnectRead(a) \/ ConnectTimeout(a)
Accepting(b) == Accept(b) \/ AcceptFirst(b) \/ AcceptThird(b) \/ AcceptTimeout(b)

Next ==
    \/ \E a \in 1 .. Attempts :
        Connecting(a) \/ InitiatorSends(a) \/ InitiatorReads(a) \/ CloseInitiator(a)
    \/ \E b \in 1 .. Accepts :
        Accepting(b) \/ ResponderSends(b) \/ ResponderReads(b) \/ CloseResponder(b)
    \/ \E s \in Sockets : Lose(s) \/ Duplicate(s) \/ Swap(s)

Spec == Init /\ [][Next]_vars

\* Both threads run: they get to their calls and through them, by the read
\* timeout of their sockets if nothing arrives.
FairSpec ==
    /\ Spec
    /\ \A a \in 1 .. Attempts : WF_vars(Connecting(a))
    /\ \A b \in 1 .. Accepts : WF_vars(Accepting(b))

-----------------------------------------------------------------------------
(***************************************************************************)
(* Properties.                                                             *)
(***************************************************************************)
Established(s) == s.pc \in {"up", "closed"}

\* The loops are where they should be and transcripts belong to their places.
TypeOK ==
    /\ \A a \in DOMAIN ini :
        /\ ini[a].pc \in {"new", "wait2", "up"} \cup Ended
        /\ ini[a].pc # "new" => ini[a].h[1] = [msg |-> 1, e |-> a]
        /\ ini[a].pc = "wait2" => Len(ini[a].h) = 1
        /\ ini[a].pin \in conf.ipins \cup {AnyKey}
    /\ \A b \in DOMAIN rsp :
        /\ rsp[b].pc \in {"new", "wait1", "wait3", "up"} \cup Ended
        /\ Established(rsp[b]) => Len(rsp[b].h) = 3
        /\ conf.rsp.kind # "direct" => rsp[b].peer \in Sockets

\* A responder is established only with an initiator that wrote message 3 for
\* the very same handshake and whose key is the pinned one, with one accept per
\* connect, whatever datagrams of earlier attempts it reads; and an established
\* initiator was answered by exactly one accept.
Agreement ==
    /\ \A b \in DOMAIN rsp : Established(rsp[b]) =>
        /\ \E a \in DOMAIN ini : ini[a].h = rsp[b].h
        /\ \A c \in DOMAIN rsp \ {b} : rsp[c].h # rsp[b].h
        /\ Pinned(rsp[b].pin, rsp[b].h[3].s)
    /\ \A a \in DOMAIN ini : Established(ini[a]) =>
        /\ Cardinality({b \in DOMAIN rsp : Len(rsp[b].h) >= 2
                            /\ SubSeq(rsp[b].h, 1, 2) = SubSeq(ini[a].h, 1, 2)}) = 1
        /\ Pinned(ini[a].pin, ini[a].h[2].s)

\* "Peer application address (the other endpoint, not the relay)": the address
\* an established responder sends to is the one of the initiator it shook hands
\* with, as long as that is up.
PeerIsOtherEnd ==
    \A b \in DOMAIN rsp : rsp[b].pc = "up" =>
        \A a \in DOMAIN ini : ini[a].pc = "up" /\ ini[a].h = rsp[b].h => rsp[b].peer = a

\* The same without a relay, which alone can move it: a session that was
\* accepted directly or answers through an onion keeps its peer whatever it is
\* sent.
PeerFixed == conf.rsp.kind # "relay" => PeerIsOtherEnd

\* Whether each side hears the other from the address it sends to itself: an
\* onion leaves at the hop at which the way back enters.
Mirrored(p, q) ==
    /\ p.kind = q.kind
    /\ p.kind = "onion" => Last(p.hops) = Head(q.hops) /\ Last(q.hops) = Head(p.hops)

Mismatch(s, key) == s.pin \notin {AnyKey, key}

\* Over a network that delivers, the first connect and the first accept find
\* each other exactly if their paths mirror each other: then neither fails but
\* for the key it expects, a timeout, or because the other gave up before; and
\* paths that do not mirror each other never establish both ends.
RoutesMeet ==
    /\ Mirrored(conf.ini, conf.rsp) /\ conf.faults = 0 =>
        /\ ini[1].pc = "failed" => Mismatch(ini[1], RKey)
        /\ rsp[1].pc = "failed" =>
            Mismatch(rsp[1], IKey) \/ \E a \in DOMAIN ini : ini[a].pc \in {"failed", "timeout"}
    /\ \A a \in DOMAIN ini, b \in DOMAIN rsp :
        Established(ini[a]) /\ Established(rsp[b]) /\ ini[a].h = rsp[b].h
            => Mirrored(conf.ini, conf.rsp)

\* With a read timeout on the sockets every connect and every accept ends,
\* whatever was lost.
HandshakeReturns ==
    /\ \A a \in 1 .. Attempts : ini[a].pc = "wait2" ~> ini[a].pc # "wait2"
    /\ \A b \in 1 .. Accepts :
        rsp[b].pc \in {"wait1", "wait3"} ~> rsp[b].pc \notin {"wait1", "wait3"}
==============================================================================
