--------------------------- MODULE HandshakeProofs ---------------------------
(***************************************************************************)
(* Proofs about Handshake for any number of connects and accepts, any      *)
(* paths and pins, and any number of lost, repeated and exchanged          *)
(* datagrams: who is established agrees with the other end.                *)
(***************************************************************************)
EXTENDS Handshake, FiniteSetTheorems, CommonFacts

(***************************************************************************)
(* Transcripts.  Every transcript of the model is empty or one of these:   *)
(* message 1 of connect e (or of nobody), answered by accept b, completed. *)
(***************************************************************************)
M1(e) == [msg |-> 1, e |-> e]
M2(b) == [msg |-> 2, e |-> b, s |-> RKey]
M3 == [msg |-> 3, s |-> IKey]

T1(e) == <<M1(e)>>
T2(e, b) == <<M1(e), M2(b)>>
T3(e, b) == <<M1(e), M2(b), M3>>

Ephemerals == 0 .. Attempts
Bodies ==
    {T1(e) : e \in Ephemerals} \cup {T2(e, b) : e \in Ephemerals, b \in 1 .. Accepts}
        \cup {T3(e, b) : e \in Ephemerals, b \in 1 .. Accepts}
Transcripts == {Start} \cup Bodies

Dgrams ==
    [type : {"handshake", "data"}, from : Int, wrapped : BOOLEAN, origin : Sockets,
     body : Transcripts]

Boxes == [Sockets -> Seq(Dgrams)]

(***************************************************************************)
(* The invariant.                                                          *)
(***************************************************************************)
Types ==
    /\ conf \in Scenarios
    /\ ini \in [1 .. Attempts ->
            [pc : {"new", "wait2", "up"} \cup Ended, pin : conf.ipins \cup {AnyKey}, h : Transcripts]]
    /\ rsp \in [1 .. Accepts ->
            [pc : {"new", "wait1", "wait3", "up"} \cup Ended, pin : conf.rpins \cup {AnyKey},
             h : Transcripts, next_hop : Int, peer : Int]]
    /\ inbox \in Boxes

\* Accept b has answered message 1 of e, and sends to socket s unless a relay
\* tells it otherwise.
Answered(e, b, s) ==
    /\ rsp[b].h \in {T2(e, b), T3(e, b)}
    /\ conf.rsp.kind # "relay" => rsp[b].peer = s

\* What the initiator, or the responder, hears of the other fits its own path.
InitiatorHears ==
    /\ Source(conf.rsp, Responder) = NextHop(conf.ini, Responder)
    /\ conf.rsp.kind = "relay" <=> conf.ini.kind = "relay"

ResponderHears ==
    conf.rsp.kind = "onion" /\ conf.ini.kind = "onion" => Last(conf.ini.hops) = Head(conf.rsp.hops)

\* How far connect a is determines its transcript; a complete one was answered.
IniOK(a) ==
    /\ ini[a].pc = "new" => ini[a].h = Start
    /\ ini[a].pc = "wait2" => ini[a].h = T1(a)
    /\ ini[a].pc # "new" => ini[a].h = T1(a) \/ \E b \in 1 .. Accepts : ini[a].h = T3(a, b)
    /\ Established(ini[a]) =>
        Pinned(ini[a].pin, RKey) /\ \E b \in 1 .. Accepts : ini[a].h = T3(a, b)
    /\ \A b \in 1 .. Accepts : ini[a].h = T3(a, b) => Answered(a, b, a) /\ InitiatorHears

\* How far accept b is determines its transcript; a complete one is that of the
\* connect it names.
RspOK(b) ==
    /\ rsp[b].pc \in {"new", "wait1"} => rsp[b].h = Start
    /\ rsp[b].pc = "wait3" => \E e \in Ephemerals : rsp[b].h = T2(e, b)
    /\ rsp[b].h # Start => \E e \in Ephemerals : rsp[b].h \in {T2(e, b), T3(e, b)}
    /\ Established(rsp[b]) =>
        Pinned(rsp[b].pin, IKey) /\ \E e \in Ephemerals : rsp[b].h = T3(e, b)
    /\ \A e \in Ephemerals : rsp[b].h = T3(e, b) =>
        e \in 1 .. Attempts /\ ini[e].h = T3(e, b) /\ ResponderHears
    /\ conf.rsp.kind # "direct" => rsp[b].peer \in Sockets
    /\ rsp[b].pc = "wait3" /\ conf.rsp.kind = "onion" => rsp[b].next_hop = Head(conf.rsp.hops)

\* A handshake datagram on its way to socket s was written by the connect or the
\* accept it names, which has it in its transcript ever since, and took its
\* writer's path.
Came(d, path, origin) == d.from = Source(path, origin) /\ d.wrapped = (path.kind = "relay")

Known(s, d) ==
    d.type = "handshake" =>
        \/ \E a \in 1 .. Attempts : d.body = T1(a) /\ Came(d, conf.ini, a)
        \/ \E e \in Ephemerals, b \in 1 .. Accepts :
            d.body = T2(e, b) /\ Answered(e, b, s) /\ Came(d, conf.rsp, Responder)
        \/ \E a \in 1 .. Attempts, b \in 1 .. Accepts :
            d.body = T3(a, b) /\ ini[a].h = T3(a, b) /\ Came(d, conf.ini, a)

Good == [s \in Sockets |-> {d \in Dgrams : Known(s, d)}]

HandshakeInv ==
    /\ Types
    /\ \A a \in 1 .. Attempts : IniOK(a)
    /\ \A b \in 1 .. Accepts : RspOK(b)
    /\ \A s \in Sockets : inbox[s] \in Seq(Good[s])

-----------------------------------------------------------------------------
(***************************************************************************)
(* What the messages do to a transcript.                                   *)
(***************************************************************************)

\* The three messages build the three transcripts.
LEMMA Messages ==
    ASSUME NEW e, NEW b
    PROVE  /\ Msg1(e) = T1(e)
           /\ Msg2(T1(e), b) = T2(e, b)
           /\ Msg3(T2(e, b)) = T3(e, b)
           /\ Len(T1(e)) = 1 /\ Len(T2(e, b)) = 2 /\ Len(T3(e, b)) = 3
           /\ Last(T2(e, b)) = M2(b) /\ Last(T3(e, b)) = M3
           /\ T1(e)[1] = M1(e) /\ T2(e, b)[2] = M2(b) /\ T3(e, b)[2] = M2(b) /\ T3(e, b)[3] = M3
<1> DEFINE S == {M1(e), M2(b), M3}
<1>1. T1(e) \in Seq(S) /\ T2(e, b) \in Seq(S) /\ T3(e, b) \in Seq(S)
  BY DEF T1, T2, T3
<1>2. Len(T1(e)) = 1 /\ Len(T2(e, b)) = 2 /\ Len(T3(e, b)) = 3
  BY DEF T1, T2, T3
<1>3. /\ T1(e)[1] = M1(e) /\ T2(e, b)[1] = M1(e) /\ T3(e, b)[1] = M1(e)
      /\ T2(e, b)[2] = M2(b) /\ T3(e, b)[2] = M2(b) /\ T3(e, b)[3] = M3
  BY DEF T1, T2, T3
<1>4. Last(T2(e, b)) = M2(b) /\ Last(T3(e, b)) = M3
  BY <1>2, <1>3 DEF Last
<1>5. Msg1(e) = T1(e)
  BY DEF Msg1, T1, M1
<1> HIDE DEF S
<1>6. Msg2(T1(e), b) = T2(e, b)
  <2> DEFINE t == Append(T1(e), M2(b))
  <2>1. M2(b) \in S
    BY DEF S
  <2>2. /\ t \in Seq(S) /\ Len(t) = Len(T1(e)) + 1
        /\ \A i \in 1 .. Len(T1(e)) : t[i] = T1(e)[i]
        /\ t[Len(T1(e)) + 1] = M2(b)
    BY <1>1, <2>1, AppendProperties
  <2> HIDE DEF t
  <2>3. Len(t) = 2 /\ t[1] = M1(e) /\ t[2] = M2(b)
    BY <1>2, <1>3, <2>2
  <2>4. t = T2(e, b)
    BY <1>1, <1>2, <1>3, <2>2, <2>3, SeqEqual
  <2> QED
    BY <2>4 DEF t, Msg2, M2
<1>7. Msg3(T2(e, b)) = T3(e, b)
  <2> DEFINE t == Append(T2(e, b), M3)
  <2>1. M3 \in S
    BY DEF S
  <2>2. /\ t \in Seq(S) /\ Len(t) = Len(T2(e, b)) + 1
        /\ \A i \in 1 .. Len(T2(e, b)) : t[i] = T2(e, b)[i]
        /\ t[Len(T2(e, b)) + 1] = M3
    BY <1>1, <2>1, AppendProperties
  <2> HIDE DEF t
  <2>3. Len(t) = 3 /\ t[1] = M1(e) /\ t[2] = M2(b) /\ t[3] = M3
    BY <1>2, <1>3, <2>2
  <2>4. t = T3(e, b)
    BY <1>1, <1>2, <1>3, <2>2, <2>3, SeqEqual
  <2> QED
    BY <2>4 DEF t, Msg3, M3
<1> QED
  BY <1>2, <1>3, <1>4, <1>5, <1>6, <1>7

\* All but the last message.
LEMMA Fronts ==
    ASSUME NEW e, NEW b
    PROVE  /\ Front(T2(e, b)) = T1(e)
           /\ Front(T3(e, b)) = T2(e, b)
           /\ SubSeq(T2(e, b), 1, 2) = T2(e, b)
           /\ SubSeq(T3(e, b), 1, 2) = T2(e, b)
<1> DEFINE S == {M1(e), M2(b), M3}
<1>1. T1(e) \in Seq(S) /\ T2(e, b) \in Seq(S) /\ T3(e, b) \in Seq(S)
  BY DEF T1, T2, T3
<1>2. Len(T1(e)) = 1 /\ Len(T2(e, b)) = 2 /\ Len(T3(e, b)) = 3
  BY DEF T1, T2, T3
<1>3. /\ T1(e)[1] = M1(e) /\ T2(e, b)[1] = M1(e) /\ T3(e, b)[1] = M1(e)
      /\ T2(e, b)[2] = M2(b) /\ T3(e, b)[2] = M2(b) /\ T3(e, b)[3] = M3
  BY DEF T1, T2, T3
<1> DEFINE Sub(t, n) == SubSeq(t, 1, n)
<1>4. SubSeq(T2(e, b), 1, 1) = T1(e)
  <2>1. /\ SubSeq(T2(e, b), 1, 1) \in Seq(S) /\ Len(SubSeq(T2(e, b), 1, 1)) = 1
        /\ SubSeq(T2(e, b), 1, 1)[1] = M1(e)
    BY <1>3, SubSeqProperties
  <2> QED
    BY <1>1, <1>2, <1>3, <2>1, SeqEqual
<1>5. ASSUME NEW t \in {T2(e, b), T3(e, b)} PROVE SubSeq(t, 1, 2) = T2(e, b)
  <2>1. t[1] = M1(e) /\ t[2] = M2(b)
    BY <1>3
  <2>2. /\ SubSeq(t, 1, 2) \in Seq(S) /\ Len(SubSeq(t, 1, 2)) = 2
        /\ SubSeq(t, 1, 2)[1] = M1(e) /\ SubSeq(t, 1, 2)[2] = M2(b)
    BY <2>1, SubSeqProperties
  <2> QED
    BY <1>1, <1>2, <1>3, <2>2, SeqEqual
<1> QED
  BY <1>2, <1>4, <1>5 DEF Front

\* A transcript names its connect and its accept.
LEMMA TranscriptsDiffer ==
    ASSUME NEW e, NEW b, NEW f, NEW c
    PROVE  /\ T1(e) = T1(f) => e = f
           /\ T2(e, b) = T2(f, c) => e = f /\ b = c
           /\ T3(e, b) = T3(f, c) => e = f /\ b = c
           /\ T1(e) # T2(f, c) /\ T1(e) # T3(f, c) /\ T2(e, b) # T3(f, c)
           /\ T1(e) # Start /\ T2(e, b) # Start /\ T3(e, b) # Start
  BY DEF T1, T2, T3, M1, M2, M3, Start

-----------------------------------------------------------------------------
(***************************************************************************)
(* The inboxes.                                                            *)
(***************************************************************************)

\* Sending adds one datagram to the inbox it is for.
LEMMA Posted ==
    ASSUME NEW D, NEW G, NEW box \in [Sockets -> Seq(D)],
           \A s \in Sockets : box[s] \in Seq(G[s]),
           NEW to, NEW d \in D, to \in Sockets => d \in G[to]
    PROVE  /\ Post(box, to, d) \in [Sockets -> Seq(D)]
           /\ \A s \in Sockets : Post(box, to, d)[s] \in Seq(G[s])
<1>1. CASE to \notin Sockets
  BY <1>1 DEF Post
<1>2. CASE to \in Sockets
  <2>1. Append(box[to], d) \in Seq(D)
    BY <1>2, AppendProperties
  <2>2. Append(box[to], d) \in Seq(G[to])
    BY <1>2, AppendProperties
  <2>3. Post(box, to, d) = [box EXCEPT ![to] = Append(box[to], d)]
    BY <1>2 DEF Post
  <2> QED
    BY <1>2, <2>1, <2>2, <2>3
<1> QED
  BY <1>1, <1>2

\* Reading takes one away.
LEMMA ReadOne ==
    ASSUME NEW G, inbox \in Boxes, \A s \in Sockets : inbox[s] \in Seq(G[s]),
           NEW x \in Sockets, inbox[x] # << >>
    PROVE  /\ Head(inbox[x]) \in Dgrams /\ Head(inbox[x]) \in G[x]
           /\ Rest(x) \in Boxes
           /\ \A s \in Sockets : Rest(x)[s] \in Seq(G[s])
<1>1. inbox[x] \in Seq(Dgrams) /\ inbox[x] \in Seq(G[x])
  BY DEF Boxes
<1>2. /\ Head(inbox[x]) \in Dgrams /\ Head(inbox[x]) \in G[x]
      /\ Tail(inbox[x]) \in Seq(Dgrams) /\ Tail(inbox[x]) \in Seq(G[x])
  BY <1>1, SeqRead
<1> QED
  BY <1>2 DEF Rest, Boxes

-----------------------------------------------------------------------------
(***************************************************************************)
(* What no step undoes.                                                    *)
(***************************************************************************)
Keeps ==
    /\ conf' = conf
    /\ \A a \in 1 .. Attempts, b \in 1 .. Accepts :
        ini[a].h = T3(a, b) => ini'[a].h = T3(a, b)
    /\ \A e \in Ephemerals, b \in 1 .. Accepts, s \in Sockets :
        Answered(e, b, s) => Answered(e, b, s)'

\* Whoever a step leaves alone stays right, and so do the datagrams under way.
LEMMA Persists ==
    ASSUME HandshakeInv, Keeps
    PROVE  /\ \A a \in 1 .. Attempts : ini'[a] = ini[a] => IniOK(a)'
           /\ \A b \in 1 .. Accepts : rsp'[b] = rsp[b] => RspOK(b)'
           /\ \A s \in Sockets : Good[s] \subseteq Good'[s]
<1>1. ASSUME NEW a \in 1 .. Attempts, ini'[a] = ini[a] PROVE IniOK(a)'
  <2>1. IniOK(a) /\ a \in Ephemerals /\ a \in Sockets /\ conf' = conf
    BY HandshakeAssumption DEF HandshakeInv, Ephemerals, Sockets, Keeps
  <2>2. \A b \in 1 .. Accepts : Answered(a, b, a) => Answered(a, b, a)'
    BY <2>1 DEF Keeps
  <2>3. InitiatorHears' <=> InitiatorHears
    BY <2>1 DEF InitiatorHears
  <2> QED
    BY <1>1, <2>1, <2>2, <2>3 DEF IniOK, Established
<1>2. ASSUME NEW b \in 1 .. Accepts, rsp'[b] = rsp[b] PROVE RspOK(b)'
  <2>1. RspOK(b) /\ conf' = conf
    BY DEF HandshakeInv, Keeps
  <2>2. \A e \in 1 .. Attempts : ini[e].h = T3(e, b) => ini'[e].h = T3(e, b)
    BY DEF Keeps
  <2>3. ResponderHears' <=> ResponderHears
    BY <2>1 DEF ResponderHears
  <2> QED
    BY <1>2, <2>1, <2>2, <2>3 DEF RspOK, Established
<1>3. ASSUME NEW s \in Sockets, NEW d \in Dgrams, Known(s, d) PROVE Known(s, d)'
  <2>1. conf' = conf
    BY DEF Keeps
  <2>2. \A a \in 1 .. Attempts, b \in 1 .. Accepts :
            ini[a].h = T3(a, b) => ini'[a].h = T3(a, b)
    BY DEF Keeps
  <2>3. \A e \in Ephemerals, b \in 1 .. Accepts : Answered(e, b, s) => Answered(e, b, s)'
    BY DEF Keeps
  <2> QED
    BY <1>3, <2>1, <2>2, <2>3 DEF Known
<1> QED
  BY <1>1, <1>2, <1>3 DEF Good

\* The same for the inboxes.
LEMMA BoxesPersist ==
    ASSUME HandshakeInv, Keeps
    PROVE  \A s \in Sockets : inbox[s] \in Seq(Good'[s])
<1> SUFFICES ASSUME NEW s \in Sockets PROVE inbox[s] \in Seq(Good'[s])
  OBVIOUS
<1>1. inbox[s] \in Seq(Good[s]) /\ Good[s] \subseteq Good'[s]
  BY Persists DEF HandshakeInv
<1> QED
  BY <1>1, SeqLarger

-----------------------------------------------------------------------------
(***************************************************************************)
(* Paths and the datagrams that take them.                                 *)
(***************************************************************************)

\* A path is of one of three kinds; its ends are addresses, and those of an
\* onion are no endpoint's.
LEMMA Paths ==
    ASSUME NEW path, IsPath(path), NEW x \in Int
    PROVE  /\ path.kind \in {"direct", "relay", "onion"}
           /\ Source(path, x) \in Int /\ NextHop(path, x) \in Int
           /\ path.kind = "direct" => Source(path, x) = x /\ NextHop(path, x) = x
           /\ path.kind = "relay" => Source(path, x) = Relay /\ NextHop(path, x) = Relay
           /\ path.kind = "onion" =>
                /\ Source(path, x) = Last(path.hops) /\ NextHop(path, x) = Head(path.hops)
                /\ Last(path.hops) < Relay /\ Head(path.hops) < Relay
<1>1. CASE path = Direct
  <2>1. path.kind = "direct"
    BY <1>1 DEF Direct
  <2> QED
    BY <2>1 DEF Source, NextHop
<1>2. CASE path = ViaRelay
  <2>1. path.kind = "relay"
    BY <1>2 DEF ViaRelay
  <2> QED
    BY <2>1 DEF Source, NextHop, Relay
<1>3. CASE /\ path = ViaOnion(path.hops) /\ path.hops \in Seq(Int) /\ path.hops # << >>
           /\ \A i \in DOMAIN path.hops : path.hops[i] < Relay
  <2>1. path.kind = "onion"
    BY <1>3 DEF ViaOnion
  <2> DEFINE q == path.hops
  <2>2. Len(q) \in Nat /\ Len(q) >= 1 /\ DOMAIN q = 1 .. Len(q)
    BY <1>3, LenProperties, EmptySeq
  <2>3. q[1] \in Int /\ q[Len(q)] \in Int
    BY <1>3, <2>2, ElementOfSeq
  <2>4. Head(q) = q[1] /\ Last(q) = q[Len(q)]
    BY <1>3 DEF Last
  <2>5. Head(q) < Relay /\ Last(q) < Relay /\ Head(q) \in Int /\ Last(q) \in Int
    BY <1>3, <2>2, <2>3, <2>4
  <2> QED
    BY <2>1, <2>5 DEF Source, NextHop
<1> QED
  BY <1>1, <1>2, <1>3 DEF IsPath

\* The paths of the scenario.
LEMMA OwnPaths ==
    ASSUME HandshakeInv
    PROVE  IsPath(conf.ini) /\ IsPath(conf.rsp)
  BY HandshakeAssumption DEF HandshakeInv, Types

\* A datagram is one, with what its writer gives it.
LEMMA DatagramType ==
    ASSUME NEW path, IsPath(path), NEW type \in {"handshake", "data"}, NEW o \in Sockets,
           NEW body \in Transcripts
    PROVE  /\ Datagram(type, path, o, body) \in Dgrams
           /\ Datagram(type, path, o, body).type = type
           /\ Datagram(type, path, o, body).body = body
           /\ Datagram(type, path, o, body).origin = o
           /\ Came(Datagram(type, path, o, body), path, o)
<1>1. o \in Int
  BY HandshakeAssumption DEF Sockets
<1>2. Source(path, o) \in Int /\ (path.kind = "relay") \in BOOLEAN
  BY <1>1, Paths
<1> QED
  BY <1>2 DEF Datagram, Dgrams, Came

\* The transcripts there can be.
LEMMA Kinds ==
    /\ Start \in Transcripts
    /\ \A e \in Ephemerals : T1(e) \in Transcripts
    /\ \A e \in Ephemerals, b \in 1 .. Accepts : T2(e, b) \in Transcripts /\ T3(e, b) \in Transcripts
    /\ \A a \in 1 .. Attempts : a \in Ephemerals /\ a \in Sockets
    /\ Responder \in Sockets /\ Nobody \in Ephemerals /\ Dest \in Sockets
    /\ Sockets \subseteq Int
  BY HandshakeAssumption
  DEF Transcripts, Bodies, Ephemerals, Sockets, Responder, Nobody, Dest

\* Message 2 is read only by the connect it answers, and message 3 only by the
\* accept it answers.
LEMMA Reading ==
    ASSUME NEW e, NEW h \in Transcripts
    PROVE  /\ Continues(h, T1(e), 2) => \E b \in 1 .. Accepts : h = T2(e, b)
           /\ \A b : Continues(h, T2(e, b), 3) => h = T3(e, b)
<1>1. CASE h = Start
  BY <1>1, Messages DEF Continues, Start
<1>2. CASE \E f \in Ephemerals : h = T1(f)
  <2>1. Len(h) = 1 /\ Len(T1(e)) = 1 /\ \A b : Len(T2(e, b)) = 2
    BY <1>2, Messages
  <2> QED
    BY <2>1 DEF Continues
<1>3. CASE \E f \in Ephemerals, c \in 1 .. Accepts : h = T2(f, c)
  <2> PICK f \in Ephemerals, c \in 1 .. Accepts : h = T2(f, c)
    BY <1>3
  <2>1. Len(h) = 2 /\ Front(h) = T1(f) /\ Len(T1(e)) = 1 /\ \A b : Len(T2(e, b)) = 2
    BY Messages, Fronts
  <2>2. T1(f) = T1(e) => f = e
    BY TranscriptsDiffer
  <2> QED
    BY <2>1, <2>2 DEF Continues
<1>4. CASE \E f \in Ephemerals, c \in 1 .. Accepts : h = T3(f, c)
  <2> PICK f \in Ephemerals, c \in 1 .. Accepts : h = T3(f, c)
    BY <1>4
  <2>1. Len(h) = 3 /\ Front(h) = T2(f, c) /\ Len(T1(e)) = 1
    BY Messages, Fronts
  <2>2. \A b : T2(f, c) = T2(e, b) => f = e /\ c = b
    BY TranscriptsDiffer
  <2> QED
    BY <2>1, <2>2 DEF Continues
<1> QED
  BY <1>1, <1>2, <1>3, <1>4 DEF Transcripts, Bodies

\* What an accept takes for message 1 is the first message of someone.
LEMMA TakenFirst ==
    ASSUME NEW h \in Transcripts
    PROVE  /\ \E e \in Ephemerals : Taken(h) = T1(e)
           /\ \A e : h = T1(e) => Taken(h) = T1(e)
<1>1. \A e : h = T1(e) => Taken(h) = T1(e)
  BY Messages DEF Taken
<1>2. CASE \E e \in Ephemerals : h = T1(e)
  BY <1>1, <1>2
<1>3. CASE \A e \in Ephemerals : h # T1(e)
  <2>1. Len(h) # 1
    BY <1>3, Messages DEF Transcripts, Bodies, Start
  <2>2. Taken(h) = T1(Nobody)
    BY <2>1, Messages DEF Taken
  <2> QED
    BY <1>1, <2>2, Kinds
<1> QED
  BY <1>1, <1>2, <1>3

-----------------------------------------------------------------------------
(***************************************************************************)
(* The initiator's steps.                                                  *)
(***************************************************************************)

IniRecords ==
    [pc : {"new", "wait2", "up"} \cup Ended, pin : conf.ipins \cup {AnyKey}, h : Transcripts]

\* A step of connect a that leaves the accepts alone, keeps a complete
\* transcript and writes the inboxes rightly.
LEMMA IniStep ==
    ASSUME HandshakeInv, NEW a \in 1 .. Attempts,
           NEW r, r \in IniRecords, ini' = [ini EXCEPT ![a] = r], conf' = conf, rsp' = rsp,
           \A b \in 1 .. Accepts : ini[a].h = T3(a, b) => r.h = T3(a, b)
    PROVE  /\ Keeps /\ ini'[a] = r
           /\ IniOK(a)' /\ inbox' \in Boxes /\ (\A s \in Sockets : inbox'[s] \in Seq(Good'[s]))
                => HandshakeInv'
<1>1. /\ ini' \in [1 .. Attempts -> IniRecords] /\ ini'[a] = r
      /\ \A c \in 1 .. Attempts : c # a => ini'[c] = ini[c]
  BY DEF HandshakeInv, Types, IniRecords
<1>2. Keeps
  BY <1>1 DEF Keeps, Answered
<1>3. ASSUME IniOK(a)', inbox' \in Boxes, \A s \in Sockets : inbox'[s] \in Seq(Good'[s])
      PROVE  HandshakeInv'
  <2>1. Types'
    BY <1>1, <1>3 DEF HandshakeInv, Types, IniRecords
  <2>2. \A c \in 1 .. Attempts : IniOK(c)'
    BY <1>1, <1>2, <1>3, Persists
  <2>3. \A b \in 1 .. Accepts : RspOK(b)'
    BY <1>2, Persists
  <2> QED
    BY <1>3, <2>1, <2>2, <2>3 DEF HandshakeInv
<1> QED
  BY <1>1, <1>2, <1>3

\* connect_initiator_pinned writes message 1.
LEMMA ConnectStep ==
    ASSUME HandshakeInv, NEW a \in 1 .. Attempts, Connect(a)
    PROVE  HandshakeInv'
<1>0. PICK d : d = Datagram("handshake", conf.ini, a, T1(a))
  OBVIOUS
<1>1. PICK k \in conf.ipins :
        ini' = [ini EXCEPT ![a] = [pc |-> "wait2", pin |-> k, h |-> T1(a)]]
  BY Messages DEF Connect
<1>2. T1(a) \in Transcripts /\ a \in Sockets
  BY Kinds
<1>3. ini[a].h = Start
  BY DEF Connect, HandshakeInv, IniOK
<1>4. conf' = conf /\ rsp' = rsp
  BY DEF Connect
<1>5. \A b \in 1 .. Accepts : ini[a].h # T3(a, b)
  BY <1>3, TranscriptsDiffer
<1>5a. PICK r : r = [pc |-> "wait2", pin |-> k, h |-> T1(a)]
  OBVIOUS
<1>5b. r \in IniRecords /\ r.pc = "wait2" /\ r.h = T1(a)
  BY <1>2, <1>5a DEF IniRecords
<1>6. /\ Keeps /\ ini'[a] = r
      /\ IniOK(a)' /\ inbox' \in Boxes /\ (\A s \in Sockets : inbox'[s] \in Seq(Good'[s]))
            => HandshakeInv'
  BY <1>1, <1>4, <1>5, <1>5a, <1>5b, IniStep
<1>7. IniOK(a)'
  <2>1. \A b \in 1 .. Accepts : ini'[a].h # T3(a, b)
    BY <1>5b, <1>6, TranscriptsDiffer
  <2> QED
    BY <1>5b, <1>6, <2>1 DEF IniOK, Established
<1>8. /\ d \in Dgrams /\ d.type = "handshake" /\ d.body = T1(a) /\ Came(d, conf.ini, a)
  BY <1>0, <1>2, OwnPaths, DatagramType
<1>9. d \in Good'[Responder]
  <2>1. Known(Responder, d)'
    BY <1>4, <1>8 DEF Known
  <2> QED
    BY <1>8, <2>1, Kinds DEF Good
<1>10. inbox' = Post(inbox, Responder, d)
  BY <1>0, Messages DEF Connect
<1>11. inbox' \in Boxes /\ \A s \in Sockets : inbox'[s] \in Seq(Good'[s])
  <2>1. inbox \in [Sockets -> Seq(Dgrams)]
    BY DEF HandshakeInv, Types, Boxes
  <2>2. \A s \in Sockets : inbox[s] \in Seq(Good'[s])
    BY <1>6, BoxesPersist
  <2> QED
    BY <1>8, <1>9, <1>10, <2>1, <2>2, Posted DEF Boxes
<1> QED
  BY <1>6, <1>7, <1>11

\* A connect that ends, by its own timeout or close, or by a datagram that is not
\* the one it waits for.
LEMMA IniEnds ==
    ASSUME HandshakeInv, NEW a \in 1 .. Attempts, NEW how,
           \/ ini[a].pc = "wait2" /\ how \in {"failed", "timeout"}
           \/ ini[a].pc = "up" /\ how = "closed",
           ini' = [ini EXCEPT ![a].pc = how], conf' = conf, rsp' = rsp,
           inbox' \in Boxes, \A s \in Sockets : inbox'[s] \in Seq(Good[s])
    PROVE  HandshakeInv'
<1>1. PICK r : r = [ini[a] EXCEPT !.pc = how]
  OBVIOUS
<1>2. r \in IniRecords /\ r.pc = how /\ r.pin = ini[a].pin /\ r.h = ini[a].h
  BY <1>1 DEF HandshakeInv, Types, IniRecords, Ended
<1>3. /\ Keeps /\ ini'[a] = r
      /\ IniOK(a)' /\ inbox' \in Boxes /\ (\A s \in Sockets : inbox'[s] \in Seq(Good'[s]))
            => HandshakeInv'
  BY <1>1, <1>2, IniStep
<1>4. IniOK(a)'
  <2>1. IniOK(a) /\ a \in Ephemerals /\ a \in Sockets
    BY Kinds DEF HandshakeInv
  <2>2. \A b \in 1 .. Accepts : Answered(a, b, a) => Answered(a, b, a)'
    BY <1>3, <2>1 DEF Keeps
  <2>3. InitiatorHears' <=> InitiatorHears
    BY DEF InitiatorHears
  <2> QED
    BY <1>2, <1>3, <2>1, <2>2, <2>3 DEF IniOK, Established
<1>5. \A s \in Sockets : inbox'[s] \in Seq(Good'[s])
  <2> SUFFICES ASSUME NEW s \in Sockets PROVE inbox'[s] \in Seq(Good'[s])
    OBVIOUS
  <2>1. Good[s] \subseteq Good'[s]
    BY <1>3, Persists
  <2> QED
    BY <2>1, SeqLarger
<1> QED
  BY <1>3, <1>4, <1>5

\* Message 2 is answered with message 3, or ends the connect.
LEMMA ConnectReadStep ==
    ASSUME HandshakeInv, NEW a \in 1 .. Attempts, ConnectRead(a)
    PROVE  HandshakeInv'
<1>0. PICK d : d = Head(inbox[a])
  OBVIOUS
<1>1. a \in Sockets /\ a \in Ephemerals /\ ini[a].pc = "wait2" /\ inbox[a] # << >>
  BY Kinds DEF ConnectRead
<1>2. /\ d \in Dgrams /\ d \in Good[a] /\ Rest(a) \in Boxes
      /\ \A s \in Sockets : Rest(a)[s] \in Seq(Good[s])
  BY <1>0, <1>1, ReadOne DEF HandshakeInv, Types
<1>3. CASE ~ Answers(a, d)
  <2>1. inbox' = Rest(a) /\ ini' = [ini EXCEPT ![a].pc = "failed"] /\ conf' = conf /\ rsp' = rsp
    BY <1>0, <1>3 DEF ConnectRead, ConnectFails
  <2> QED
    BY <1>1, <1>2, <2>1, IniEnds
<1>4. CASE Answers(a, d)
  <2>1. ini[a].h = T1(a) /\ Known(a, d) /\ d.body \in Transcripts
    BY <1>1, <1>2 DEF HandshakeInv, IniOK, Good, Dgrams
  <2>2. PICK b \in 1 .. Accepts : d.body = T2(a, b)
    BY <1>4, <2>1, Reading DEF Answers
  <2>3. Answered(a, b, a) /\ Came(d, conf.rsp, Responder)
    <3>1. d.type = "handshake"
      BY <1>4 DEF Answers, IsHandshake
    <3>2. \A c \in 1 .. Attempts : d.body # T1(c)
      BY <2>2, TranscriptsDiffer
    <3>3. \A c \in 1 .. Attempts, f \in 1 .. Accepts : d.body # T3(c, f)
      BY <2>2, TranscriptsDiffer
    <3>4. PICK e \in Ephemerals, c \in 1 .. Accepts :
            d.body = T2(e, c) /\ Answered(e, c, a) /\ Came(d, conf.rsp, Responder)
      BY <2>1, <3>1, <3>2, <3>3 DEF Known
    <3>5. T2(e, c) = T2(a, b)
      BY <2>2, <3>4
    <3>6. e = a /\ c = b
      BY <3>5, TranscriptsDiffer
    <3> QED
      BY <3>4, <3>6
  <2>4. InitiatorHears
    <3>1. d.from = NextHop(conf.ini, Responder) /\ d.wrapped = (conf.ini.kind = "relay")
      BY <1>4 DEF Answers, IsHandshake
    <3> QED
      BY <2>3, <3>1 DEF InitiatorHears, Came
  <2>5. Msg3(d.body) = T3(a, b) /\ Last(d.body).s = RKey /\ T3(a, b) \in Transcripts
    <3>1. Msg3(d.body) = T3(a, b) /\ Last(d.body) = M2(b)
      BY <2>2, Messages
    <3> QED
      BY <1>1, <3>1, Kinds DEF M2
  <2>6a. PICK pc : pc = IF Pinned(ini[a].pin, RKey) THEN "up" ELSE "failed"
    OBVIOUS
  <2>6b. PICK m : m = Datagram("handshake", conf.ini, a, T3(a, b))
    OBVIOUS
  <2>6. /\ ini' = [ini EXCEPT ![a] = [@ EXCEPT !.pc = pc, !.h = T3(a, b)]]
        /\ inbox' = Post(Rest(a), Responder, m) /\ conf' = conf /\ rsp' = rsp
    BY <1>0, <1>4, <2>5, <2>6a, <2>6b DEF ConnectRead
  <2>7. pc \in {"up", "failed"} /\ (Pinned(ini[a].pin, RKey) \/ pc = "failed")
    BY <2>6a
  <2>9. PICK r : r = [ini[a] EXCEPT !.pc = pc, !.h = T3(a, b)]
    OBVIOUS
  <2>10. r \in IniRecords /\ r.pc = pc /\ r.pin = ini[a].pin /\ r.h = T3(a, b)
    BY <2>5, <2>7, <2>9 DEF HandshakeInv, Types, IniRecords, Ended
  <2>11. \A c \in 1 .. Accepts : ini[a].h # T3(a, c)
    BY <2>1, TranscriptsDiffer
  <2>12. /\ Keeps /\ ini'[a] = r
         /\ IniOK(a)' /\ inbox' \in Boxes /\ (\A s \in Sockets : inbox'[s] \in Seq(Good'[s]))
                => HandshakeInv'
    BY <2>6, <2>9, <2>10, <2>11, IniStep
  <2>13. IniOK(a)'
    <3>1. InitiatorHears'
      BY <2>4, <2>6 DEF InitiatorHears
    <3>2. Answered(a, b, a)'
      BY <1>1, <2>3, <2>12 DEF Keeps
    <3>3. \A c \in 1 .. Accepts : T3(a, b) = T3(a, c) => b = c
      BY TranscriptsDiffer
    <3> QED
      BY <2>7, <2>10, <2>12, <3>1, <3>2, <3>3 DEF IniOK, Established
  <2>14. /\ m \in Dgrams /\ m.type = "handshake" /\ m.body = T3(a, b) /\ Came(m, conf.ini, a)
    BY <1>1, <2>5, <2>6b, OwnPaths, DatagramType
  <2>15. m \in Good'[Responder]
    <3>1. Known(Responder, m)'
      BY <2>6, <2>10, <2>12, <2>14 DEF Known
    <3> QED
      BY <2>14, <3>1, Kinds DEF Good
  <2>16. \A s \in Sockets : Rest(a)[s] \in Seq(Good'[s])
    <3> SUFFICES ASSUME NEW s \in Sockets PROVE Rest(a)[s] \in Seq(Good'[s])
      OBVIOUS
    <3>1. Good[s] \subseteq Good'[s]
      BY <2>12, Persists
    <3> QED
      BY <1>2, <3>1, SeqLarger
  <2>17. inbox' \in Boxes /\ \A s \in Sockets : inbox'[s] \in Seq(Good'[s])
    BY <1>2, <2>6, <2>14, <2>15, <2>16, Posted DEF Boxes
  <2> QED
    BY <2>12, <2>13, <2>17
<1> QED
  BY <1>3, <1>4

-----------------------------------------------------------------------------
(***************************************************************************)
(* The responder's steps.                                                  *)
(***************************************************************************)
RspRecords ==
    [pc : {"new", "wait1", "wait3", "up"} \cup Ended, pin : conf.rpins \cup {AnyKey},
     h : Transcripts, next_hop : Int, peer : Int]

\* A step of accept b that leaves the connects alone, and neither goes back in
\* the handshake nor, without a relay, moves its peer.
LEMMA RspStep ==
    ASSUME HandshakeInv, NEW b \in 1 .. Accepts,
           NEW r, r \in RspRecords, rsp' = [rsp EXCEPT ![b] = r], conf' = conf, ini' = ini,
           \A e \in Ephemerals : rsp[b].h \in {T2(e, b), T3(e, b)} => r.h \in {T2(e, b), T3(e, b)},
           conf.rsp.kind # "relay" /\ rsp[b].h # Start => r.peer = rsp[b].peer
    PROVE  /\ Keeps /\ rsp'[b] = r
           /\ RspOK(b)' /\ inbox' \in Boxes /\ (\A s \in Sockets : inbox'[s] \in Seq(Good'[s]))
                => HandshakeInv'
<1>1. /\ rsp' \in [1 .. Accepts -> RspRecords] /\ rsp'[b] = r
      /\ \A c \in 1 .. Accepts : c # b => rsp'[c] = rsp[c]
  BY DEF HandshakeInv, Types, RspRecords
<1>2. ASSUME NEW e \in Ephemerals, NEW c \in 1 .. Accepts, NEW s \in Sockets, Answered(e, c, s)
      PROVE  Answered(e, c, s)'
  <2>1. CASE c # b
    BY <1>1, <1>2, <2>1 DEF Answered
  <2>2. CASE c = b
    <3>1. rsp[b].h # Start
      BY <1>2, <2>2, TranscriptsDiffer DEF Answered
    <3> QED
      BY <1>1, <1>2, <2>2, <3>1 DEF Answered
  <2> QED
    BY <2>1, <2>2
<1>3. Keeps
  BY <1>2 DEF Keeps
<1>4. ASSUME RspOK(b)', inbox' \in Boxes, \A s \in Sockets : inbox'[s] \in Seq(Good'[s])
      PROVE  HandshakeInv'
  <2>1. Types'
    BY <1>1, <1>4 DEF HandshakeInv, Types, RspRecords
  <2>2. \A c \in 1 .. Accepts : RspOK(c)'
    BY <1>1, <1>3, <1>4, Persists
  <2>3. \A a \in 1 .. Attempts : IniOK(a)'
    BY <1>3, Persists
  <2> QED
    BY <1>4, <2>1, <2>2, <2>3 DEF HandshakeInv
<1> QED
  BY <1>1, <1>3, <1>4

\* A step of accept b that keeps its transcript: it begins, ends, or hears from
\* a relay where its peer is now.
LEMMA RspMoves ==
    ASSUME HandshakeInv, NEW b \in 1 .. Accepts,
           NEW r, r \in RspRecords, rsp' = [rsp EXCEPT ![b] = r], conf' = conf, ini' = ini,
           r.h = rsp[b].h, r.next_hop = rsp[b].next_hop,
           \/ rsp[b].pc = "new" /\ r.pc = "wait1"
           \/ rsp[b].pc \in {"wait1", "wait3"} /\ r.pc \in {"failed", "timeout"}
           \/ rsp[b].pc = "up" /\ r.pc \in {"up", "closed"} /\ r.pin = rsp[b].pin,
           r.peer = rsp[b].peer \/ (conf.rsp.kind = "relay" /\ r.peer \in Sockets),
           inbox' \in Boxes, \A s \in Sockets : inbox'[s] \in Seq(Good[s])
    PROVE  HandshakeInv'
<1>1. /\ Keeps /\ rsp'[b] = r
      /\ RspOK(b)' /\ inbox' \in Boxes /\ (\A s \in Sockets : inbox'[s] \in Seq(Good'[s]))
            => HandshakeInv'
  BY RspStep
<1>2. RspOK(b)'
  <2>1. RspOK(b)
    BY DEF HandshakeInv
  <2>2. ResponderHears' <=> ResponderHears
    BY DEF ResponderHears
  <2> QED
    BY <1>1, <2>1, <2>2 DEF RspOK, Established
<1>3. \A s \in Sockets : inbox'[s] \in Seq(Good'[s])
  <2> SUFFICES ASSUME NEW s \in Sockets PROVE inbox'[s] \in Seq(Good'[s])
    OBVIOUS
  <2>1. Good[s] \subseteq Good'[s]
    BY <1>1, Persists
  <2> QED
    BY <2>1, SeqLarger
<1> QED
  BY <1>1, <1>2, <1>3

\* Nobody reads: the inboxes are as good as they were.
LEMMA BoxesNow ==
    ASSUME HandshakeInv, inbox' = inbox
    PROVE  inbox' \in Boxes /\ \A s \in Sockets : inbox'[s] \in Seq(Good[s])
  BY DEF HandshakeInv, Types

\* accept_ex begins.
LEMMA AcceptStep ==
    ASSUME HandshakeInv, NEW b \in 1 .. Accepts, Accept(b)
    PROVE  HandshakeInv'
<1>1. PICK k \in conf.rpins : rsp' = [rsp EXCEPT ![b].pc = "wait1", ![b].pin = k]
  BY DEF Accept
<1>2. PICK r : r = [rsp[b] EXCEPT !.pc = "wait1", !.pin = k]
  OBVIOUS
<1>3. rsp' = [rsp EXCEPT ![b] = r]
  BY <1>1, <1>2 DEF HandshakeInv, Types
<1>4. /\ r \in RspRecords /\ r.pc = "wait1" /\ r.h = rsp[b].h
      /\ r.next_hop = rsp[b].next_hop /\ r.peer = rsp[b].peer
  BY <1>2 DEF HandshakeInv, Types, RspRecords
<1>5. rsp[b].pc = "new" /\ conf' = conf /\ ini' = ini /\ inbox' = inbox
  BY DEF Accept
<1> QED
  BY <1>3, <1>4, <1>5, BoxesNow, RspMoves

\* An accept that ends.
LEMMA RspEnds ==
    ASSUME HandshakeInv, NEW b \in 1 .. Accepts, NEW how,
           \/ rsp[b].pc \in {"wait1", "wait3"} /\ how \in {"failed", "timeout"}
           \/ rsp[b].pc = "up" /\ how = "closed",
           rsp' = [rsp EXCEPT ![b].pc = how], conf' = conf, ini' = ini,
           inbox' \in Boxes, \A s \in Sockets : inbox'[s] \in Seq(Good[s])
    PROVE  HandshakeInv'
<1>1. PICK r : r = [rsp[b] EXCEPT !.pc = how]
  OBVIOUS
<1>2. rsp' = [rsp EXCEPT ![b] = r]
  BY <1>1
<1>3. /\ r \in RspRecords /\ r.pc = how /\ r.h = rsp[b].h /\ r.pin = rsp[b].pin
      /\ r.next_hop = rsp[b].next_hop /\ r.peer = rsp[b].peer
  BY <1>1 DEF HandshakeInv, Types, RspRecords, Ended
<1> QED
  BY <1>2, <1>3, RspMoves

\* The peer an accept sends to is an address; with a relay or an onion a socket.
LEMMA PeersType ==
    ASSUME HandshakeInv, NEW d \in Dgrams
    PROVE  PeerOf(d) \in Int /\ (conf.rsp.kind # "direct" => PeerOf(d) \in Sockets)
<1>1. conf.rsp.kind \in {"direct", "relay", "onion"}
  BY OwnPaths, Paths
<1>2. d.from \in Int /\ d.origin \in Sockets /\ Dest \in Sockets /\ Sockets \subseteq Int
  BY Kinds DEF Dgrams
<1> QED
  BY <1>1, <1>2 DEF PeerOf

\* The first datagram is taken for message 1, and answered.
LEMMA AcceptFirstStep ==
    ASSUME HandshakeInv, NEW b \in 1 .. Accepts, AcceptFirst(b)
    PROVE  HandshakeInv'
<1>0. PICK d : d = Head(inbox[Responder])
  OBVIOUS
<1>1. Responder \in Sockets /\ rsp[b].pc = "wait1" /\ inbox[Responder] # << >>
  BY Kinds DEF AcceptFirst
<1>2. /\ d \in Dgrams /\ d \in Good[Responder] /\ Rest(Responder) \in Boxes
      /\ \A s \in Sockets : Rest(Responder)[s] \in Seq(Good[s])
  BY <1>0, <1>1, ReadOne DEF HandshakeInv, Types
<1>3. CASE ~ Opening(d)
  <2>1. /\ inbox' = Rest(Responder) /\ rsp' = [rsp EXCEPT ![b].pc = "failed"]
        /\ conf' = conf /\ ini' = ini
    BY <1>0, <1>3 DEF AcceptFirst, AcceptFails
  <2> QED
    BY <1>1, <1>2, <2>1, RspEnds
<1>4. CASE Opening(d)
  <2>1. d.body \in Transcripts /\ d.from \in Int /\ rsp[b].h = Start
    BY <1>1, <1>2 DEF HandshakeInv, RspOK, Dgrams
  <2>2. PICK e \in Ephemerals : Taken(d.body) = T1(e)
    BY <2>1, TakenFirst
  <2>3. Msg2(Taken(d.body), b) = T2(e, b) /\ T2(e, b) \in Transcripts
    BY <2>2, Messages, Kinds
  <2>4. PICK nh, pr : nh = NextHop(conf.rsp, d.from) /\ pr = PeerOf(d)
    OBVIOUS
  <2>5. nh \in Int /\ pr \in Int /\ (conf.rsp.kind # "direct" => pr \in Sockets)
    BY <1>2, <2>1, <2>4, PeersType, OwnPaths, Paths
  <2>6. conf.rsp.kind = "onion" => nh = Head(conf.rsp.hops)
    BY <2>1, <2>4, OwnPaths, Paths
  <2>7. PICK m : m = Datagram("handshake", conf.rsp, Responder, T2(e, b))
    OBVIOUS
  <2>8. PICK r : r = [rsp[b] EXCEPT !.pc = "wait3", !.h = T2(e, b), !.next_hop = nh, !.peer = pr]
    OBVIOUS
  <2>9. /\ rsp' = [rsp EXCEPT ![b] = r]
        /\ inbox' = Post(Rest(Responder), pr, m) /\ conf' = conf /\ ini' = ini
    BY <1>0, <1>4, <2>3, <2>4, <2>7, <2>8 DEF AcceptFirst
  <2>10. /\ r \in RspRecords /\ r.pc = "wait3" /\ r.h = T2(e, b)
         /\ r.next_hop = nh /\ r.peer = pr
    BY <2>3, <2>5, <2>8 DEF HandshakeInv, Types, RspRecords
  <2>11. /\ \A f \in Ephemerals : rsp[b].h \notin {T2(f, b), T3(f, b)}
         /\ \A f \in Ephemerals : T2(e, b) # T3(f, b)
    BY <2>1, TranscriptsDiffer
  <2>12. /\ Keeps /\ rsp'[b] = r
         /\ RspOK(b)' /\ inbox' \in Boxes /\ (\A s \in Sockets : inbox'[s] \in Seq(Good'[s]))
                => HandshakeInv'
    BY <2>1, <2>9, <2>10, <2>11, RspStep
  <2>13. RspOK(b)'
    BY <2>5, <2>6, <2>9, <2>10, <2>11, <2>12 DEF RspOK, Established
  <2>14. /\ m \in Dgrams /\ m.type = "handshake" /\ m.body = T2(e, b)
         /\ Came(m, conf.rsp, Responder)
    BY <1>1, <2>3, <2>7, OwnPaths, DatagramType
  <2>15. pr \in Sockets => m \in Good'[pr]
    <3> HAVE pr \in Sockets
    <3>1. Answered(e, b, pr)'
      BY <2>9, <2>10, <2>12 DEF Answered
    <3>2. Known(pr, m)'
      BY <2>9, <2>14, <3>1 DEF Known
    <3> QED
      BY <2>14, <3>2 DEF Good
  <2>16. \A s \in Sockets : Rest(Responder)[s] \in Seq(Good'[s])
    <3> SUFFICES ASSUME NEW s \in Sockets PROVE Rest(Responder)[s] \in Seq(Good'[s])
      OBVIOUS
    <3>1. Good[s] \subseteq Good'[s]
      BY <2>12, Persists
    <3> QED
      BY <1>2, <3>1, SeqLarger
  <2>17. inbox' \in Boxes /\ \A s \in Sockets : inbox'[s] \in Seq(Good'[s])
    BY <1>2, <2>9, <2>14, <2>15, <2>16, Posted DEF Boxes
  <2> QED
    BY <2>12, <2>13, <2>17
<1> QED
  BY <1>3, <1>4

\* The peer a relay names is a socket.
LEMMA PeerMoves ==
    ASSUME HandshakeInv, NEW b \in 1 .. Accepts, NEW d \in Dgrams
    PROVE  /\ PeerAfter(rsp[b], d) \in Int
           /\ \/ PeerAfter(rsp[b], d) = rsp[b].peer
              \/ conf.rsp.kind = "relay" /\ PeerAfter(rsp[b], d) \in Sockets
<1>1. d.origin \in Sockets /\ Sockets \subseteq Int /\ rsp[b].peer \in Int
  BY Kinds DEF Dgrams, HandshakeInv, Types
<1> QED
  BY <1>1 DEF PeerAfter

\* The second datagram completes the handshake or ends it.
LEMMA AcceptThirdStep ==
    ASSUME HandshakeInv, NEW b \in 1 .. Accepts, AcceptThird(b)
    PROVE  HandshakeInv'
<1>0. PICK d : d = Head(inbox[Responder])
  OBVIOUS
<1>1. Responder \in Sockets /\ rsp[b].pc = "wait3" /\ inbox[Responder] # << >>
  BY Kinds DEF AcceptThird
<1>2. /\ d \in Dgrams /\ d \in Good[Responder] /\ Rest(Responder) \in Boxes
      /\ \A s \in Sockets : Rest(Responder)[s] \in Seq(Good[s])
  BY <1>0, <1>1, ReadOne DEF HandshakeInv, Types
<1>3. inbox' = Rest(Responder)
  BY DEF AcceptThird
<1>4. CASE ~ Completes(b, d)
  <2>1. rsp' = [rsp EXCEPT ![b].pc = "failed"] /\ conf' = conf /\ ini' = ini
    BY <1>0, <1>4 DEF AcceptThird, AcceptFails
  <2> QED
    BY <1>1, <1>2, <1>3, <2>1, RspEnds
<1>5. CASE Completes(b, d)
  <2>1. Known(Responder, d) /\ d.body \in Transcripts /\ RspOK(b)
    BY <1>1, <1>2 DEF HandshakeInv, Good, Dgrams
  <2>2. PICK e \in Ephemerals : rsp[b].h = T2(e, b)
    BY <1>1, <2>1 DEF RspOK
  <2>3. d.body = T3(e, b) /\ T3(e, b) \in Transcripts
    <3>1. Continues(d.body, T2(e, b), 3)
      BY <1>5, <2>2 DEF Completes
    <3> QED
      BY <2>1, <3>1, Reading, Kinds
  <2>4. e \in 1 .. Attempts /\ ini[e].h = T3(e, b) /\ Came(d, conf.ini, e)
    <3>1. d.type = "handshake"
      BY <1>5 DEF Completes, IsHandshake
    <3>2. \A c \in 1 .. Attempts : d.body # T1(c)
      BY <2>3, TranscriptsDiffer
    <3>3. \A c \in Ephemerals, f \in 1 .. Accepts : d.body # T2(c, f)
      BY <2>3, TranscriptsDiffer
    <3>4. PICK a \in 1 .. Attempts, c \in 1 .. Accepts :
            d.body = T3(a, c) /\ ini[a].h = T3(a, c) /\ Came(d, conf.ini, a)
      BY <2>1, <3>1, <3>2, <3>3 DEF Known
    <3>5. T3(e, b) = T3(a, c)
      BY <2>3, <3>4
    <3>6. e = a /\ b = c
      BY <3>5, TranscriptsDiffer
    <3> QED
      BY <3>4, <3>6
  <2>5. ResponderHears
    <3> SUFFICES ASSUME conf.rsp.kind = "onion", conf.ini.kind = "onion"
                 PROVE  Last(conf.ini.hops) = Head(conf.rsp.hops)
      BY DEF ResponderHears
    <3>1. d.from = Head(conf.rsp.hops)
      BY <1>1, <1>5, <2>1 DEF Completes, RspOK
    <3>2. d.from = Last(conf.ini.hops)
      <4>1. e \in Int
        BY <2>4
      <4> QED
        BY <2>4, <4>1, OwnPaths, Paths DEF Came
    <3> QED
      BY <3>1, <3>2
  <2>6. Last(d.body).s = IKey
    <3>1. Last(d.body) = M3
      BY <2>3, Messages
    <3> QED
      BY <3>1 DEF M3
  <2>7. PICK pc, pr : /\ pc = (IF Pinned(rsp[b].pin, IKey) THEN "up" ELSE "failed")
                      /\ pr = PeerAfter(rsp[b], d)
    OBVIOUS
  <2>8. pc \in {"up", "failed"} /\ (Pinned(rsp[b].pin, IKey) \/ pc = "failed")
    BY <2>7
  <2>9. pr \in Int /\ (pr = rsp[b].peer \/ (conf.rsp.kind = "relay" /\ pr \in Sockets))
    BY <1>2, <2>7, PeerMoves
  <2>10. PICK r : r = [rsp[b] EXCEPT !.pc = pc, !.h = T3(e, b), !.peer = pr]
    OBVIOUS
  <2>11. rsp' = [rsp EXCEPT ![b] = r] /\ conf' = conf /\ ini' = ini
    <3>1. /\ rsp' = [rsp EXCEPT ![b] = [@ EXCEPT
                !.pc = IF Pinned(rsp[b].pin, Last(d.body).s) THEN "up" ELSE "failed",
                !.h = d.body, !.peer = PeerAfter(rsp[b], d)]]
          /\ conf' = conf /\ ini' = ini
      BY <1>0, <1>5 DEF AcceptThird
    <3> QED
      BY <2>3, <2>6, <2>7, <2>10, <3>1
  <2>12. /\ r \in RspRecords /\ r.pc = pc /\ r.h = T3(e, b) /\ r.pin = rsp[b].pin /\ r.peer = pr
    <3>1. rsp[b] \in RspRecords
      BY DEF HandshakeInv, Types, RspRecords
    <3>2. pc \in {"new", "wait1", "wait3", "up"} \cup Ended
      BY <2>8 DEF Ended
    <3> QED
      BY <2>3, <2>9, <2>10, <3>1, <3>2 DEF RspRecords
  <2>13. \A f \in Ephemerals : rsp[b].h \in {T2(f, b), T3(f, b)} => f = e
    BY <2>2, TranscriptsDiffer
  <2>14. /\ Keeps /\ rsp'[b] = r
         /\ RspOK(b)' /\ inbox' \in Boxes /\ (\A s \in Sockets : inbox'[s] \in Seq(Good'[s]))
                => HandshakeInv'
    BY <2>9, <2>11, <2>12, <2>13, RspStep
  <2>15. RspOK(b)'
    <3>1. \A f \in Ephemerals : T3(e, b) = T3(f, b) => e = f
      BY TranscriptsDiffer
    <3>2. T3(e, b) # Start
      BY TranscriptsDiffer
    <3>3. ResponderHears'
      BY <2>5, <2>11 DEF ResponderHears
    <3>4. conf.rsp.kind # "direct" => pr \in Sockets
      BY <2>1, <2>9 DEF RspOK
    <3> QED
      BY <2>4, <2>8, <2>11, <2>12, <2>14, <3>1, <3>2, <3>3, <3>4 DEF RspOK, Established
  <2>16. \A s \in Sockets : inbox'[s] \in Seq(Good'[s])
    <3> SUFFICES ASSUME NEW s \in Sockets PROVE inbox'[s] \in Seq(Good'[s])
      OBVIOUS
    <3>1. Good[s] \subseteq Good'[s]
      BY <2>14, Persists
    <3> QED
      BY <1>2, <1>3, <3>1, SeqLarger
  <2> QED
    BY <1>2, <1>3, <2>14, <2>15, <2>16
<1> QED
  BY <1>4, <1>5

\* An established responder reads a datagram and may be told of another peer.
LEMMA ResponderReadsStep ==
    ASSUME HandshakeInv, NEW b \in 1 .. Accepts, ResponderReads(b)
    PROVE  HandshakeInv'
<1>0. PICK d : d = Head(inbox[Responder])
  OBVIOUS
<1>1. Responder \in Sockets /\ rsp[b].pc = "up" /\ inbox[Responder] # << >>
  BY Kinds DEF ResponderReads
<1>2. /\ d \in Dgrams /\ Rest(Responder) \in Boxes
      /\ \A s \in Sockets : Rest(Responder)[s] \in Seq(Good[s])
  BY <1>0, <1>1, ReadOne DEF HandshakeInv, Types
<1>3. PICK pr : pr = IF d.from = rsp[b].next_hop THEN PeerAfter(rsp[b], d) ELSE rsp[b].peer
  OBVIOUS
<1>4. pr \in Int /\ (pr = rsp[b].peer \/ (conf.rsp.kind = "relay" /\ pr \in Sockets))
  BY <1>2, <1>3, PeerMoves DEF HandshakeInv, Types
<1>5. PICK r : r = [rsp[b] EXCEPT !.peer = pr]
  OBVIOUS
<1>6. /\ rsp' = [rsp EXCEPT ![b] = r] /\ inbox' = Rest(Responder) /\ conf' = conf /\ ini' = ini
  BY <1>0, <1>3, <1>5 DEF ResponderReads
<1>7. /\ r \in RspRecords /\ r.pc = "up" /\ r.h = rsp[b].h /\ r.pin = rsp[b].pin
      /\ r.next_hop = rsp[b].next_hop /\ r.peer = pr
  BY <1>1, <1>4, <1>5 DEF HandshakeInv, Types, RspRecords
<1> QED
  BY <1>1, <1>2, <1>4, <1>6, <1>7, RspMoves

-----------------------------------------------------------------------------
(***************************************************************************)
(* Steps that touch no state machine: data, and what the network does.     *)
(***************************************************************************)

\* Only the inboxes change.
LEMMA OnlyBoxes ==
    ASSUME HandshakeInv, UNCHANGED <<conf, ini, rsp>>, inbox' \in Boxes,
           \A s \in Sockets : inbox'[s] \in Seq(Good[s])
    PROVE  HandshakeInv'
<1>1. Types'
  BY DEF HandshakeInv, Types
<1>2. Keeps
  BY DEF Keeps, Answered
<1>3. (\A a \in 1 .. Attempts : IniOK(a)') /\ (\A b \in 1 .. Accepts : RspOK(b)')
  BY <1>2, Persists
<1>4. \A s \in Sockets : inbox'[s] \in Seq(Good'[s])
  <2> SUFFICES ASSUME NEW s \in Sockets PROVE inbox'[s] \in Seq(Good'[s])
    OBVIOUS
  <2>1. Good[s] \subseteq Good'[s]
    BY <1>2, Persists
  <2> QED
    BY <2>1, SeqLarger
<1> QED
  BY <1>1, <1>3, <1>4 DEF HandshakeInv

\* A data datagram may be in any inbox.
LEMMA DataIsGood ==
    ASSUME HandshakeInv, NEW path, IsPath(path), NEW o \in Sockets, NEW h \in Transcripts, NEW to,
           inbox' = Post(inbox, to, Datagram("data", path, o, h)), UNCHANGED <<conf, ini, rsp>>
    PROVE  HandshakeInv'
<1>1. PICK m : m = Datagram("data", path, o, h)
  OBVIOUS
<1>2. m \in Dgrams /\ m.type = "data"
  BY <1>1, DatagramType
<1>3. to \in Sockets => m \in Good[to]
  BY <1>2 DEF Good, Known
<1>4. inbox \in [Sockets -> Seq(Dgrams)] /\ \A s \in Sockets : inbox[s] \in Seq(Good[s])
  BY DEF HandshakeInv, Types, Boxes
<1>5. inbox' \in Boxes /\ \A s \in Sockets : inbox'[s] \in Seq(Good[s])
  BY <1>1, <1>2, <1>3, <1>4, Posted DEF Boxes
<1> QED
  BY <1>5, OnlyBoxes

\* Losing, repeating and exchanging datagrams.
LEMMA NetworkStep ==
    ASSUME HandshakeInv, NEW x \in Sockets, Lose(x) \/ Duplicate(x) \/ Swap(x)
    PROVE  HandshakeInv'
<1>1. UNCHANGED <<conf, ini, rsp>>
  BY DEF Lose, Duplicate, Swap, Misbehave
<1>2. /\ inbox \in [Sockets -> Seq(Dgrams)] /\ inbox[x] \in Seq(Dgrams)
      /\ \A s \in Sockets : inbox[s] \in Seq(Good[s])
  BY DEF HandshakeInv, Types, Boxes
<1>3. CASE Lose(x)
  <2>1. PICK i \in DOMAIN inbox[x] : inbox' = [inbox EXCEPT ![x] = RemoveAt(inbox[x], i)]
    BY <1>3 DEF Lose
  <2>2. RemoveAt(inbox[x], i) \in Seq(Dgrams) /\ RemoveAt(inbox[x], i) \in Seq(Good[x])
    BY <1>2, SeqRemove
  <2>3. inbox' \in Boxes /\ \A s \in Sockets : inbox'[s] \in Seq(Good[s])
    BY <1>2, <2>1, <2>2 DEF Boxes
  <2> QED
    BY <1>1, <2>3, OnlyBoxes
<1>4. CASE Duplicate(x)
  <2>1. PICK i \in DOMAIN inbox[x] : inbox' = Post(inbox, x, inbox[x][i])
    BY <1>4 DEF Duplicate
  <2>2. PICK d : d = inbox[x][i]
    OBVIOUS
  <2>3. d \in Dgrams /\ d \in Good[x]
    <3>1. i \in 1 .. Len(inbox[x])
      BY <1>2, LenProperties
    <3> QED
      BY <1>2, <2>2, <3>1, ElementOfSeq
  <2>4. inbox' \in Boxes /\ \A s \in Sockets : inbox'[s] \in Seq(Good[s])
    BY <1>2, <2>1, <2>2, <2>3, Posted DEF Boxes
  <2> QED
    BY <1>1, <2>4, OnlyBoxes
<1>5. CASE Swap(x)
  <2>1. PICK i \in 2 .. Len(inbox[x]) : inbox' = [inbox EXCEPT ![x] =
            [inbox[x] EXCEPT ![i - 1] = inbox[x][i], ![i] = inbox[x][i - 1]]]
    BY <1>5 DEF Swap
  <2>2. PICK q : q = [inbox[x] EXCEPT ![i - 1] = inbox[x][i], ![i] = inbox[x][i - 1]]
    OBVIOUS
  <2>3. q \in Seq(Dgrams) /\ q \in Seq(Good[x])
    BY <1>2, <2>2, SeqSwap
  <2>4. inbox' \in Boxes /\ \A s \in Sockets : inbox'[s] \in Seq(Good[s])
    BY <1>2, <2>1, <2>2, <2>3 DEF Boxes
  <2> QED
    BY <1>1, <2>4, OnlyBoxes
<1> QED
  BY <1>3, <1>4, <1>5

-----------------------------------------------------------------------------
(***************************************************************************)
(* The invariant holds.                                                    *)
(***************************************************************************)
LEMMA InvInit == Init => HandshakeInv
<1> SUFFICES ASSUME Init PROVE HandshakeInv
  OBVIOUS
<1>1. Start \in Transcripts /\ << >> \in Seq(Dgrams) /\ 0 \in Int /\ 0 \in Sockets
  BY Kinds DEF Responder
<1>2. Types
  BY <1>1 DEF Init, Types, Boxes
<1>3. \A e, c : T2(e, c) # Start /\ T3(e, c) # Start
  BY TranscriptsDiffer
<1>4. ASSUME NEW a \in 1 .. Attempts PROVE IniOK(a)
  <2>1. ini[a].pc = "new" /\ ini[a].h = Start
    BY DEF Init
  <2> QED
    BY <1>3, <2>1 DEF IniOK, Established
<1>5. ASSUME NEW b \in 1 .. Accepts PROVE RspOK(b)
  <2>1. rsp[b].pc = "new" /\ rsp[b].h = Start /\ rsp[b].peer = 0
    BY DEF Init
  <2> QED
    BY <1>1, <1>3, <2>1 DEF RspOK, Established
<1>6. ASSUME NEW s \in Sockets PROVE inbox[s] \in Seq(Good[s])
  <2>1. inbox[s] = << >>
    BY DEF Init
  <2> QED
    BY <2>1
<1> QED
  BY <1>2, <1>4, <1>5, <1>6 DEF HandshakeInv

LEMMA InvNext == HandshakeInv /\ [Next]_vars => HandshakeInv'
<1> SUFFICES ASSUME HandshakeInv, [Next]_vars PROVE HandshakeInv'
  OBVIOUS
<1>1. ASSUME NEW a \in 1 .. Attempts, Connecting(a) PROVE HandshakeInv'
  <2>1. CASE Connect(a)
    BY <2>1, ConnectStep
  <2>2. CASE ConnectRead(a)
    BY <2>2, ConnectReadStep
  <2>3. CASE ConnectTimeout(a)
    <3>1. /\ ini[a].pc = "wait2" /\ ini' = [ini EXCEPT ![a].pc = "timeout"]
          /\ conf' = conf /\ rsp' = rsp /\ inbox' = inbox
      BY <2>3 DEF ConnectTimeout, ConnectFails
    <3> QED
      BY <3>1, BoxesNow, IniEnds
  <2> QED
    BY <1>1, <2>1, <2>2, <2>3 DEF Connecting
<1>2. ASSUME NEW a \in 1 .. Attempts, InitiatorSends(a) PROVE HandshakeInv'
  <2>1. ini[a].h \in Transcripts /\ a \in Sockets
    BY Kinds DEF HandshakeInv, Types
  <2>2. /\ UNCHANGED <<conf, ini, rsp>>
        /\ inbox' = Post(inbox, Responder, Datagram("data", conf.ini, a, ini[a].h))
    BY <1>2 DEF InitiatorSends
  <2> QED
    BY <2>1, <2>2, OwnPaths, DataIsGood
<1>3. ASSUME NEW a \in 1 .. Attempts, InitiatorReads(a) PROVE HandshakeInv'
  <2>1. a \in Sockets /\ inbox[a] # << >> /\ inbox' = Rest(a) /\ UNCHANGED <<conf, ini, rsp>>
    BY <1>3, Kinds DEF InitiatorReads
  <2>2. inbox \in Boxes /\ \A s \in Sockets : inbox[s] \in Seq(Good[s])
    BY DEF HandshakeInv, Types
  <2>3. Rest(a) \in Boxes /\ \A s \in Sockets : Rest(a)[s] \in Seq(Good[s])
    BY <2>1, <2>2, ReadOne
  <2> QED
    BY <2>1, <2>3, OnlyBoxes
<1>4. ASSUME NEW a \in 1 .. Attempts, CloseInitiator(a) PROVE HandshakeInv'
  <2>1. /\ ini[a].pc = "up" /\ ini' = [ini EXCEPT ![a].pc = "closed"]
        /\ conf' = conf /\ rsp' = rsp /\ inbox' = inbox
    BY <1>4 DEF CloseInitiator
  <2> QED
    BY <2>1, BoxesNow, IniEnds
<1>5. ASSUME NEW b \in 1 .. Accepts, Accepting(b) PROVE HandshakeInv'
  <2>1. CASE Accept(b)
    BY <2>1, AcceptStep
  <2>2. CASE AcceptFirst(b)
    BY <2>2, AcceptFirstStep
  <2>3. CASE AcceptThird(b)
    BY <2>3, AcceptThirdStep
  <2>4. CASE AcceptTimeout(b)
    <3>1. /\ rsp[b].pc \in {"wait1", "wait3"} /\ rsp' = [rsp EXCEPT ![b].pc = "timeout"]
          /\ conf' = conf /\ ini' = ini /\ inbox' = inbox
      BY <2>4 DEF AcceptTimeout, AcceptFails
    <3> QED
      BY <3>1, BoxesNow, RspEnds
  <2> QED
    BY <1>5, <2>1, <2>2, <2>3, <2>4 DEF Accepting
<1>6. ASSUME NEW b \in 1 .. Accepts, ResponderSends(b) PROVE HandshakeInv'
  <2>1. rsp[b].h \in Transcripts /\ Responder \in Sockets
    BY Kinds DEF HandshakeInv, Types
  <2>2. /\ UNCHANGED <<conf, ini, rsp>>
        /\ inbox' = Post(inbox, rsp[b].peer, Datagram("data", conf.rsp, Responder, rsp[b].h))
    BY <1>6 DEF ResponderSends
  <2>3. PICK to : to = rsp[b].peer
    OBVIOUS
  <2> QED
    BY <2>1, <2>2, <2>3, OwnPaths, DataIsGood
<1>7. ASSUME NEW b \in 1 .. Accepts, CloseResponder(b) PROVE HandshakeInv'
  <2>1. /\ rsp[b].pc = "up" /\ rsp' = [rsp EXCEPT ![b].pc = "closed"]
        /\ conf' = conf /\ ini' = ini /\ inbox' = inbox
    BY <1>7 DEF CloseResponder
  <2> QED
    BY <2>1, BoxesNow, RspEnds
<1>8. CASE UNCHANGED vars
  <2>1. UNCHANGED <<conf, ini, rsp>> /\ inbox' = inbox
    BY <1>8 DEF vars
  <2> QED
    BY <2>1, BoxesNow, OnlyBoxes
<1> QED
  BY <1>1, <1>2, <1>3, <1>4, <1>5, <1>6, <1>7, <1>8, ResponderReadsStep, NetworkStep DEF Next

LEMMA Invariance == Spec => []HandshakeInv
  BY InvInit, InvNext, PTL DEF Spec

-----------------------------------------------------------------------------
(***************************************************************************)
(* The theorems.                                                           *)
(***************************************************************************)

\* The loops of connect_initiator_pinned and accept_ex and their transcripts
\* have the values the type invariant gives them.
THEOREM TypeCorrect == Spec => []TypeOK
<1>1. HandshakeInv => TypeOK
  <2> SUFFICES ASSUME HandshakeInv PROVE TypeOK
    OBVIOUS
  <2>1. DOMAIN ini = 1 .. Attempts /\ DOMAIN rsp = 1 .. Accepts
    BY DEF HandshakeInv, Types
  <2>2. ASSUME NEW a \in 1 .. Attempts
        PROVE  /\ ini[a].pc \in {"new", "wait2", "up"} \cup Ended
               /\ ini[a].pc # "new" => ini[a].h[1] = [msg |-> 1, e |-> a]
               /\ ini[a].pc = "wait2" => Len(ini[a].h) = 1
               /\ ini[a].pin \in conf.ipins \cup {AnyKey}
    <3>1. IniOK(a)
      BY DEF HandshakeInv
    <3>2. ini[a].pc # "new" => ini[a].h[1] = [msg |-> 1, e |-> a]
      BY <3>1 DEF IniOK, T1, T3, M1
    <3>3. ini[a].pc = "wait2" => Len(ini[a].h) = 1
      BY <3>1, Messages DEF IniOK
    <3> QED
      BY <3>2, <3>3 DEF HandshakeInv, Types
  <2>3. ASSUME NEW b \in 1 .. Accepts
        PROVE  /\ rsp[b].pc \in {"new", "wait1", "wait3", "up"} \cup Ended
               /\ Established(rsp[b]) => Len(rsp[b].h) = 3
               /\ conf.rsp.kind # "direct" => rsp[b].peer \in Sockets
    <3>1. RspOK(b)
      BY DEF HandshakeInv
    <3>2. \A e : Len(T3(e, b)) = 3
      BY Messages
    <3> QED
      BY <3>1, <3>2 DEF HandshakeInv, Types, RspOK
  <2> QED
    BY <2>1, <2>2, <2>3 DEF TypeOK
<1> QED
  BY <1>1, Invariance, PTL

\* accept_ex returns a session only for a handshake that one connect completed
\* and no other accept shares, with the key it pinned; connect_initiator_pinned
\* returns one only if exactly one accept answered it, with the key it pinned:
\* whatever datagrams of other attempts are lost, repeated, reordered or read.
THEOREM EndsAgree == Spec => []Agreement
<1>1. HandshakeInv => Agreement
  <2> SUFFICES ASSUME HandshakeInv PROVE Agreement
    OBVIOUS
  <2>1. DOMAIN ini = 1 .. Attempts /\ DOMAIN rsp = 1 .. Accepts
    BY DEF HandshakeInv, Types
  <2>2. ASSUME NEW b \in 1 .. Accepts, NEW c \in 1 .. Accepts, NEW e,
               rsp[c].h \in {T2(e, b), T3(e, b)}
        PROVE  c = b
    <3>1. rsp[c].h # Start
      BY <2>2, TranscriptsDiffer
    <3>2. PICK f \in Ephemerals : rsp[c].h \in {T2(f, c), T3(f, c)}
      BY <3>1 DEF HandshakeInv, RspOK
    <3> QED
      BY <2>2, <3>2, TranscriptsDiffer
  <2>3. ASSUME NEW b \in 1 .. Accepts, Established(rsp[b])
        PROVE  /\ \E a \in 1 .. Attempts : ini[a].h = rsp[b].h
               /\ \A c \in 1 .. Accepts \ {b} : rsp[c].h # rsp[b].h
               /\ Pinned(rsp[b].pin, rsp[b].h[3].s)
    <3>1. PICK e \in Ephemerals : rsp[b].h = T3(e, b)
      BY <2>3 DEF HandshakeInv, RspOK
    <3>2. e \in 1 .. Attempts /\ ini[e].h = T3(e, b) /\ Pinned(rsp[b].pin, IKey)
      BY <2>3, <3>1 DEF HandshakeInv, RspOK
    <3>3. T3(e, b)[3].s = IKey
      BY Messages DEF M3
    <3>4. \A c \in 1 .. Accepts \ {b} : rsp[c].h # rsp[b].h
      BY <2>2, <3>1
    <3> QED
      BY <3>1, <3>2, <3>3, <3>4
  <2>4. ASSUME NEW a \in 1 .. Attempts, Established(ini[a])
        PROVE  /\ Cardinality({b \in 1 .. Accepts : Len(rsp[b].h) >= 2
                                /\ SubSeq(rsp[b].h, 1, 2) = SubSeq(ini[a].h, 1, 2)}) = 1
               /\ Pinned(ini[a].pin, ini[a].h[2].s)
    <3>1. PICK b \in 1 .. Accepts : ini[a].h = T3(a, b)
      BY <2>4 DEF HandshakeInv, IniOK
    <3>2. rsp[b].h \in {T2(a, b), T3(a, b)} /\ Pinned(ini[a].pin, RKey)
      BY <2>4, <3>1 DEF HandshakeInv, IniOK, Answered
    <3>3. T3(a, b)[2].s = RKey
      BY DEF T3, M2
    <3>4. SubSeq(ini[a].h, 1, 2) = T2(a, b)
      BY <3>1, Fronts
    <3>5. Len(rsp[b].h) >= 2 /\ SubSeq(rsp[b].h, 1, 2) = T2(a, b)
      <4>1. Len(T2(a, b)) = 2 /\ Len(T3(a, b)) = 3
        BY Messages
      <4> QED
        BY <3>2, <4>1, Fronts
    <3>6. ASSUME NEW c \in 1 .. Accepts, Len(rsp[c].h) >= 2, SubSeq(rsp[c].h, 1, 2) = T2(a, b)
          PROVE  c = b
      <4>1. rsp[c].h # Start
        BY <3>6 DEF Start
      <4>2. PICK f \in Ephemerals : rsp[c].h \in {T2(f, c), T3(f, c)}
        BY <4>1 DEF HandshakeInv, RspOK
      <4>3. SubSeq(rsp[c].h, 1, 2) = T2(f, c)
        BY <4>2, Fronts
      <4> QED
        BY <3>6, <4>3, TranscriptsDiffer
    <3>7. {c \in 1 .. Accepts : Len(rsp[c].h) >= 2
                /\ SubSeq(rsp[c].h, 1, 2) = SubSeq(ini[a].h, 1, 2)} = {b}
      BY <3>4, <3>5, <3>6
    <3> QED
      BY <3>1, <3>2, <3>3, <3>7, FS_Singleton
  <2> QED
    BY <2>1, <2>3, <2>4 DEF Agreement
<1> QED
  BY <1>1, Invariance, PTL

\* Without a relay, an established responder sends to the socket of the
\* initiator it shook hands with, whatever it is sent.
THEOREM PeerStaysFixed == Spec => []PeerFixed
<1>1. HandshakeInv => PeerFixed
  <2> SUFFICES ASSUME HandshakeInv, conf.rsp.kind # "relay", NEW b \in 1 .. Accepts,
                      rsp[b].pc = "up", NEW a \in 1 .. Attempts, ini[a].pc = "up",
                      ini[a].h = rsp[b].h
               PROVE  rsp[b].peer = a
    <3>1. HandshakeInv => DOMAIN ini = 1 .. Attempts /\ DOMAIN rsp = 1 .. Accepts
      BY DEF HandshakeInv, Types
    <3> QED
      BY <3>1 DEF PeerFixed, PeerIsOtherEnd
  <2>1. PICK c \in 1 .. Accepts : ini[a].h = T3(a, c)
    BY DEF HandshakeInv, IniOK, Established
  <2>2. PICK e \in Ephemerals : rsp[b].h = T3(e, b)
    BY DEF HandshakeInv, RspOK, Established
  <2>3. T3(e, b) = T3(a, c)
    BY <2>1, <2>2
  <2>4. c = b
    BY <2>3, TranscriptsDiffer
  <2>5. Answered(a, b, a)
    BY <2>1, <2>4 DEF HandshakeInv, IniOK
  <2> QED
    BY <2>5 DEF Answered
<1> QED
  BY <1>1, Invariance, PTL

-----------------------------------------------------------------------------
(***************************************************************************)
(* Which paths meet.  Over a network that delivers, and with paths that    *)
(* mirror each other, the first connect and the first accept read each     *)
(* other's messages in their order: nothing else comes before them.        *)
(***************************************************************************)
D1 == Datagram("handshake", conf.ini, 1, T1(1))
D2(b) == Datagram("handshake", conf.rsp, Responder, T2(1, b))
D3 == Datagram("handshake", conf.ini, 1, T3(1, 1))

Delivers == Mirrored(conf.ini, conf.rsp) /\ conf.faults = 0

\* One after the other.
InTurn ==
    /\ faults = 0
    /\ \A a \in 2 .. Attempts : ini[a].pc # "new" => ini[1].pc \in Ended
    /\ \A b \in 2 .. Accepts : rsp[b].pc # "new" => rsp[1].pc \in Ended

\* What is under way while the first connect has not got its answer.
BeforeAnswer ==
    /\ ini[1].pc = "new" =>
        inbox[Responder] = << >> /\ inbox[1] = << >> /\ \A b \in 1 .. Accepts : rsp[b].h = Start
    /\ ini[1].pc = "wait2" =>
        \/ /\ inbox[Responder] = <<D1>> /\ inbox[1] = << >>
           /\ \A b \in 1 .. Accepts : rsp[b].h = Start
        \/ inbox[Responder] = << >> /\ \E b \in 1 .. Accepts : inbox[1] = <<D2(b)>>

\* What the first accept reads next.
NextRead ==
    /\ rsp[1].pc \in {"new", "wait1"} /\ ini[1].pc # "new" =>
        inbox[Responder] # << >> /\ Head(inbox[Responder]) = D1
    /\ rsp[1].pc = "wait3" =>
        /\ ini[1].pc # "new" /\ rsp[1].h = T2(1, 1)
        /\ rsp[1].next_hop = NextHop(conf.rsp, Source(conf.ini, 1))
    /\ rsp[1].pc = "wait3" /\ Established(ini[1]) =>
        inbox[Responder] # << >> /\ Head(inbox[Responder]) = D3

\* Why they fail.
Reasons ==
    /\ ini[1].pc = "failed" => Mismatch(ini[1], RKey)
    /\ rsp[1].pc = "failed" =>
        Mismatch(rsp[1], IKey) \/ \E a \in 1 .. Attempts : ini[a].pc \in {"failed", "timeout"}

RoutesInv == Delivers => InTurn /\ BeforeAnswer /\ NextRead /\ Reasons

\* The second and the third message continue the transcript before them.
LEMMA Continuing ==
    ASSUME NEW e, NEW b
    PROVE  Continues(T2(e, b), T1(e), 2) /\ Continues(T3(e, b), T2(e, b), 3)
<1>1. Len(T1(e)) = 1 /\ Len(T2(e, b)) = 2 /\ Len(T3(e, b)) = 3
  BY Messages
<1>2. Front(T2(e, b)) = T1(e) /\ Front(T3(e, b)) = T2(e, b)
  BY Fronts
<1>3. M2(b).msg = 2 /\ M3.msg = 3
  BY DEF M2, M3
<1>4. Last(T2(e, b)) = M2(b) /\ Last(T3(e, b)) = M3
  BY Messages
<1>5. Len(T2(e, b)) = Len(T1(e)) + 1 /\ Len(T3(e, b)) = Len(T2(e, b)) + 1
  BY <1>1
<1>6. Last(T2(e, b)).msg = 2 /\ Last(T3(e, b)).msg = 3
  BY <1>3, <1>4
<1> QED
  BY <1>2, <1>5, <1>6 DEF Continues

\* With mirrored paths each side is heard from where the other expects it.
LEMMA Mirrors ==
    ASSUME HandshakeInv, Delivers
    PROVE  /\ conf.ini.kind = conf.rsp.kind
           /\ Source(conf.rsp, Responder) = NextHop(conf.ini, Responder)
           /\ Source(conf.ini, 1) = NextHop(conf.rsp, Source(conf.ini, 1))
<1>1. conf.ini.kind = conf.rsp.kind
  BY DEF Delivers, Mirrored
<1>2. IsPath(conf.ini) /\ IsPath(conf.rsp) /\ Responder \in Int /\ 1 \in Int
  BY OwnPaths DEF Responder
<1>3. Source(conf.ini, 1) \in Int
  BY <1>2, Paths
<1>4. conf.ini.kind \in {"direct", "relay", "onion"}
  BY <1>2, Paths
<1>5. CASE conf.ini.kind = "direct"
  BY <1>1, <1>2, <1>3, <1>5, Paths
<1>6. CASE conf.ini.kind = "relay"
  BY <1>1, <1>2, <1>3, <1>6, Paths
<1>7. CASE conf.ini.kind = "onion"
  <2>1. Last(conf.ini.hops) = Head(conf.rsp.hops) /\ Last(conf.rsp.hops) = Head(conf.ini.hops)
    BY <1>7 DEF Delivers, Mirrored
  <2> QED
    BY <1>1, <1>2, <1>3, <1>7, <2>1, Paths
<1> QED
  BY <1>1, <1>4, <1>5, <1>6, <1>7

\* The three datagrams are what their readers wait for.
LEMMA FirstReads ==
    ASSUME HandshakeInv, Delivers
    PROVE  /\ 1 \in 1 .. Attempts /\ 1 \in 1 .. Accepts /\ 1 \in Sockets
           /\ D1.from = Source(conf.ini, 1) /\ D1.body = T1(1)
           /\ Opening(D1) /\ PeerOf(D1) = 1
           /\ \A b \in 1 .. Accepts : /\ D2(b).body = T2(1, b)
                                      /\ ini[1].h = T1(1) => Answers(1, D2(b))
           /\ D3.body = T3(1, 1)
           /\ rsp[1].h = T2(1, 1) /\ rsp[1].next_hop = NextHop(conf.rsp, Source(conf.ini, 1))
                => Completes(1, D3)
<1>1. 1 \in 1 .. Attempts /\ 1 \in 1 .. Accepts
  BY HandshakeAssumption
<1>2. 1 \in Sockets /\ 1 \in Ephemerals /\ Responder \in Sockets /\ 1 \in Int
  BY <1>1, Kinds
<1>3. /\ T1(1) \in Transcripts /\ T3(1, 1) \in Transcripts
      /\ \A b \in 1 .. Accepts : T2(1, b) \in Transcripts
  BY <1>1, <1>2, Kinds
<1>4. IsPath(conf.ini) /\ IsPath(conf.rsp)
  BY OwnPaths
<1>5. /\ D1.type = "handshake" /\ D1.body = T1(1) /\ D1.origin = 1 /\ Came(D1, conf.ini, 1)
      /\ D3.type = "handshake" /\ D3.body = T3(1, 1) /\ Came(D3, conf.ini, 1)
  BY <1>2, <1>3, <1>4, DatagramType DEF D1, D3
<1>6. ASSUME NEW b \in 1 .. Accepts
      PROVE  /\ D2(b).type = "handshake" /\ D2(b).body = T2(1, b)
             /\ Came(D2(b), conf.rsp, Responder)
  BY <1>2, <1>3, <1>4, DatagramType DEF D2
<1>7. /\ \A b : Continues(T2(1, b), T1(1), 2)
      /\ Continues(T3(1, 1), T2(1, 1), 3)
  BY Continuing
<1>8. D1.from = Source(conf.ini, 1) /\ conf.ini.kind = conf.rsp.kind
  BY <1>5, Mirrors DEF Came
<1>9. Opening(D1)
  <2>1. conf.rsp.kind = "relay" => D1.from = Relay
    BY <1>2, <1>4, <1>8, Paths
  <2> QED
    BY <1>5, <1>8, <2>1 DEF Opening, IsHandshake, Came
<1>10. PeerOf(D1) = 1
  <2>1. conf.rsp.kind \in {"direct", "relay", "onion"}
    BY <1>2, <1>4, Paths
  <2>2. conf.rsp.kind = "direct" => D1.from = 1
    BY <1>2, <1>4, <1>8, Paths
  <2> QED
    BY <1>5, <2>1, <2>2 DEF PeerOf, Dest
<1>11. ASSUME NEW b \in 1 .. Accepts, ini[1].h = T1(1) PROVE Answers(1, D2(b))
  BY <1>6, <1>7, <1>8, <1>11, Mirrors DEF Answers, IsHandshake, Came
<1>12. ASSUME rsp[1].h = T2(1, 1), rsp[1].next_hop = NextHop(conf.rsp, Source(conf.ini, 1))
       PROVE  Completes(1, D3)
  BY <1>5, <1>7, <1>8, <1>12, Mirrors DEF Completes, IsHandshake, Came
<1> QED
  BY <1>1, <1>2, <1>5, <1>6, <1>8, <1>9, <1>10, <1>11, <1>12

Together == Delivers /\ InTurn /\ BeforeAnswer /\ NextRead /\ Reasons

\* The paths stay, and with them the datagrams.
LEMMA SameDatagrams ==
    ASSUME conf' = conf
    PROVE  D1' = D1 /\ D3' = D3 /\ (Delivers' <=> Delivers)
  BY DEF D1, D3, Delivers

\* Until the first connect has its answer no accept is established.
LEMMA NoneUp ==
    ASSUME HandshakeInv, InTurn, ini[1].pc \in {"new", "wait2"}
    PROVE  \A b \in 1 .. Accepts : rsp[b].pc # "up"
<1> SUFFICES ASSUME NEW b \in 1 .. Accepts, rsp[b].pc = "up" PROVE FALSE
  OBVIOUS
<1>1. 1 \in 1 .. Attempts /\ Attempts \in Nat
  BY HandshakeAssumption
<1>2. PICK e \in Ephemerals : rsp[b].h = T3(e, b)
  BY DEF HandshakeInv, RspOK, Established
<1>3. e \in 1 .. Attempts /\ ini[e].h = T3(e, b)
  BY <1>2 DEF HandshakeInv, RspOK
<1>4. ini[1].h # T3(1, b)
  BY <1>1, TranscriptsDiffer DEF HandshakeInv, IniOK
<1>5. e \in 2 .. Attempts
  BY <1>1, <1>3, <1>4
<1>6. ini[e].pc = "new"
  BY <1>5 DEF InTurn, Ended
<1>7. ini[e].h = Start
  BY <1>3, <1>6 DEF HandshakeInv, IniOK
<1> QED
  BY <1>3, <1>7, TranscriptsDiffer

\* An established first connect was answered by the first accept, unless that
\* has ended.
LEMMA AnsweredByFirst ==
    ASSUME HandshakeInv, InTurn, NEW b \in 1 .. Accepts, Answered(1, b, 1)
    PROVE  b = 1 \/ rsp[1].pc \in Ended
<1> SUFFICES ASSUME b # 1 PROVE rsp[1].pc \in Ended
  OBVIOUS
<1>1. b \in 2 .. Accepts
  BY HandshakeAssumption
<1>2. rsp[b].h # Start
  BY TranscriptsDiffer DEF Answered
<1>3. rsp[b].pc # "new"
  BY <1>2 DEF HandshakeInv, RspOK
<1> QED
  BY <1>1, <1>3 DEF InTurn

\* Sending to the responder.
LEMMA PostedToFirst ==
    ASSUME HandshakeInv, NEW d, inbox' = Post(inbox, Responder, d)
    PROVE  inbox'[Responder] = Append(inbox[Responder], d) /\ inbox'[1] = inbox[1]
<1>1. Responder \in Sockets /\ 1 \in Sockets /\ Responder # 1
  BY Kinds, HandshakeAssumption DEF Responder, Sockets
<1> QED
  BY <1>1 DEF Post, HandshakeInv, Types, Boxes

\* A queue that grows keeps its first element.
LEMMA HeadStays ==
    ASSUME NEW S, NEW q \in Seq(S), q # << >>, NEW r, NEW d, r = q \/ r = Append(q, d)
    PROVE  r # << >> /\ Head(r) = Head(q)
<1>1. CASE r = q
  BY <1>1
<1>2. CASE r = Append(q, d)
  <2>1. Head(r) = Head(q)
    BY <1>2, HeadTailAppend
  <2>2. q \in Seq(S \cup {d}) /\ d \in S \cup {d}
    BY SeqMonotonic
  <2>3. Append(q, d) # << >>
    BY <2>2, AppendProperties
  <2> QED
    BY <1>2, <2>1, <2>3
<1> QED
  BY <1>1, <1>2

\* A step of an initiator once the first connect is past its wait, which sends
\* to the responder at most.
LEMMA LaterIni ==
    ASSUME HandshakeInv, Together, conf' = conf, rsp' = rsp, faults' = faults,
           ini[1].pc # "new", ini'[1].pc \in {"up"} \cup Ended,
           Established(ini'[1]) => Established(ini[1]),
           ini'[1].pc = "failed" => ini[1].pc = "failed" /\ ini'[1].pin = ini[1].pin,
           \A a \in 1 .. Attempts : ini[a].pc \in {"failed", "timeout"} => ini'[a].pc = ini[a].pc,
           \A a \in 2 .. Attempts : ini'[a].pc # "new" => ini'[1].pc \in Ended,
           NEW d, inbox'[Responder] = inbox[Responder] \/ inbox'[Responder] = Append(inbox[Responder], d)
    PROVE  Together'
<1>1. D1' = D1 /\ D3' = D3 /\ Delivers'
  BY SameDatagrams DEF Together
<1>2. InTurn'
  BY DEF Together, InTurn
<1>3. BeforeAnswer'
  BY DEF BeforeAnswer, Ended
<1>4. inbox[Responder] # << >> =>
        inbox'[Responder] # << >> /\ Head(inbox'[Responder]) = Head(inbox[Responder])
  <2> HAVE inbox[Responder] # << >>
  <2>1. inbox[Responder] \in Seq(Dgrams)
    BY Kinds DEF HandshakeInv, Types, Boxes
  <2>2. PICK q, r : q = inbox[Responder] /\ r = inbox'[Responder]
    OBVIOUS
  <2> QED
    BY <2>1, <2>2, HeadStays
<1>5. ini'[1].pc # "new" /\ ini[1].pc # "new"
  BY DEF Ended
<1>6. NextRead'
  BY <1>1, <1>4, <1>5 DEF Together, NextRead
<1>7. Reasons'
  BY DEF Together, Reasons, Mismatch
<1> QED
  BY <1>1, <1>2, <1>3, <1>6, <1>7 DEF Together

\* The first connect begins.
LEMMA FirstConnect ==
    ASSUME HandshakeInv, Together, Connect(1)
    PROVE  Together'
<1>0. conf' = conf /\ rsp' = rsp /\ faults' = faults /\ ini[1].pc = "new" /\ 1 \in 1 .. Attempts
  BY HandshakeAssumption DEF Connect
<1>1. D1' = D1 /\ D3' = D3 /\ Delivers'
  BY <1>0, SameDatagrams DEF Together
<1>2. ini'[1].pc = "wait2" /\ \A a \in 1 .. Attempts : a # 1 => ini'[a] = ini[a]
  BY <1>0 DEF Connect, HandshakeInv, Types
<1>3. inbox[Responder] = << >> /\ inbox[1] = << >> /\ \A b \in 1 .. Accepts : rsp[b].h = Start
  BY <1>0 DEF Together, BeforeAnswer
<1>4. inbox'[Responder] = Append(<< >>, D1) /\ inbox'[1] = << >>
  <2>1. PICK d : d = D1
    OBVIOUS
  <2>2. inbox' = Post(inbox, Responder, d)
    BY <2>1, Messages DEF Connect, D1
  <2> QED
    BY <1>3, <2>1, <2>2, PostedToFirst
<1>5. inbox'[Responder] = <<D1>>
  BY <1>4
<1>6. \A a \in 2 .. Attempts : ini'[a].pc = ini[a].pc /\ ini[a].pc = "new"
  BY <1>0, <1>2 DEF Together, InTurn, Ended
<1>7. InTurn'
  BY <1>0, <1>6 DEF Together, InTurn
<1>8. BeforeAnswer'
  BY <1>0, <1>1, <1>2, <1>3, <1>4, <1>5 DEF BeforeAnswer
<1>9. NextRead'
  <2>1. rsp[1].pc # "wait3"
    BY <1>0 DEF Together, NextRead
  <2>2. inbox'[Responder] # << >> /\ Head(inbox'[Responder]) = D1
    BY <1>5
  <2> QED
    BY <1>0, <1>1, <2>1, <2>2 DEF NextRead
<1>10. Reasons'
  <2>1. \A a \in 1 .. Attempts : ini[a].pc \in {"failed", "timeout"} => ini'[a].pc = ini[a].pc
    BY <1>0, <1>2
  <2> QED
    BY <1>0, <1>2, <2>1 DEF Together, Reasons, Mismatch
<1> QED
  BY <1>1, <1>7, <1>8, <1>9, <1>10 DEF Together

\* The first connect gets its answer.
LEMMA FirstAnswer ==
    ASSUME HandshakeInv, Together, ConnectRead(1)
    PROVE  Together'
<1>0. /\ conf' = conf /\ rsp' = rsp /\ faults' = faults /\ ini[1].pc = "wait2"
      /\ 1 \in 1 .. Attempts /\ inbox[1] # << >> /\ 1 \in Sockets
  BY HandshakeAssumption, Kinds DEF ConnectRead, ConnectFails
<1>1. D1' = D1 /\ D3' = D3 /\ Delivers' /\ Delivers
  BY <1>0, SameDatagrams DEF Together
<1>2. PICK b \in 1 .. Accepts : inbox[Responder] = << >> /\ inbox[1] = <<D2(b)>>
  BY <1>0 DEF Together, BeforeAnswer
<1>3. PICK d : d = D2(b)
  OBVIOUS
<1>4. Head(inbox[1]) = d
  BY <1>2, <1>3
<1>5. ini[1].h = T1(1)
  BY <1>0 DEF HandshakeInv, IniOK
<1>6. Answers(1, d) /\ d.body = T2(1, b)
  BY <1>1, <1>3, <1>5, FirstReads
<1>7. Answered(1, b, 1)
  <2>1. d \in Good[1]
    BY <1>0, <1>4, ReadOne DEF HandshakeInv, Types
  <2>2. Known(1, d)
    BY <1>0, <2>1 DEF Good
  <2>3. d.type = "handshake"
    BY <1>6 DEF Answers, IsHandshake
  <2>4. \A c \in 1 .. Attempts : d.body # T1(c)
    BY <1>6, TranscriptsDiffer
  <2>5. \A c \in 1 .. Attempts, f \in 1 .. Accepts : d.body # T3(c, f)
    BY <1>6, TranscriptsDiffer
  <2>6. PICK e \in Ephemerals, c \in 1 .. Accepts : d.body = T2(e, c) /\ Answered(e, c, 1)
    BY <2>2, <2>3, <2>4, <2>5 DEF Known
  <2>7. T2(e, c) = T2(1, b)
    BY <1>6, <2>6
  <2>8. e = 1 /\ c = b
    BY <2>7, TranscriptsDiffer
  <2> QED
    BY <2>6, <2>8
<1>8. Msg3(d.body) = T3(1, b) /\ Last(d.body).s = RKey
  <2>1. Msg3(d.body) = T3(1, b) /\ Last(d.body) = M2(b)
    BY <1>6, Messages
  <2> QED
    BY <2>1 DEF M2
<1>9. PICK pc, m : /\ pc = (IF Pinned(ini[1].pin, RKey) THEN "up" ELSE "failed")
                   /\ m = Datagram("handshake", conf.ini, 1, T3(1, b))
  OBVIOUS
<1>10. /\ ini' = [ini EXCEPT ![1] = [@ EXCEPT !.pc = pc, !.h = T3(1, b)]]
       /\ inbox' = Post(Rest(1), Responder, m)
  BY <1>4, <1>6, <1>8, <1>9 DEF ConnectRead
<1>11. /\ ini'[1].pc = pc /\ ini'[1].pin = ini[1].pin
       /\ \A a \in 1 .. Attempts : a # 1 => ini'[a] = ini[a]
  BY <1>0, <1>10 DEF HandshakeInv, Types
<1>12. pc \in {"up", "failed"} /\ (pc = "failed" => Mismatch(ini[1], RKey))
  BY <1>9 DEF Pinned, Mismatch
<1>13. inbox'[Responder] = <<m>>
  <2>1. Responder \in Sockets /\ Responder # 1
    BY Kinds DEF Responder
  <2>2. Rest(1) \in [Sockets -> Seq(Dgrams)]
    BY <1>0, ReadOne DEF HandshakeInv, Types, Boxes
  <2>3. Rest(1)[Responder] = inbox[Responder]
    BY <2>1 DEF Rest, HandshakeInv, Types, Boxes
  <2>4. PICK box : box = Rest(1)
    OBVIOUS
  <2>5. Post(box, Responder, m)[Responder] = Append(box[Responder], m)
    BY <2>1, <2>2, <2>4 DEF Post
  <2>6. inbox'[Responder] = Append(<< >>, m)
    BY <1>2, <1>10, <2>3, <2>4, <2>5
  <2> QED
    BY <2>6
<1>14. InTurn'
  BY <1>0, <1>11 DEF Together, InTurn, Ended
<1>15. BeforeAnswer'
  BY <1>11, <1>12 DEF BeforeAnswer
<1>16. NextRead'
  <2>1. rsp[1].pc \notin {"new", "wait1"}
    <3>1. rsp[1].pc \in {"new", "wait1"} => inbox[Responder] # << >>
      BY <1>0 DEF Together, NextRead
    <3> QED
      BY <1>2, <3>1
  <2>2. rsp[1].pc = "wait3" => b = 1
    BY <1>7, AnsweredByFirst DEF Together, Ended
  <2>3. rsp[1].pc = "wait3" => m = D3
    BY <1>9, <2>2 DEF D3
  <2>4. inbox'[Responder] # << >> /\ Head(inbox'[Responder]) = m
    BY <1>13
  <2> QED
    BY <1>0, <1>1, <1>11, <1>12, <2>1, <2>3, <2>4 DEF Together, NextRead
<1>17. Reasons'
  <2>1. \A a \in 1 .. Attempts : ini[a].pc \in {"failed", "timeout"} => ini'[a].pc = ini[a].pc
    BY <1>0, <1>11
  <2> QED
    BY <1>0, <1>11, <1>12, <2>1 DEF Together, Reasons, Mismatch
<1> QED
  BY <1>1, <1>14, <1>15, <1>16, <1>17 DEF Together

\* An accept's step while the first connect waits: only the first message is
\* there to be read, and it is answered.
LEMMA RspBefore ==
    ASSUME HandshakeInv, Together, NEW b \in 1 .. Accepts,
           Accepting(b) \/ ResponderSends(b) \/ ResponderReads(b) \/ CloseResponder(b)
    PROVE  BeforeAnswer'
<1>0. conf' = conf /\ ini' = ini
  BY DEF Accepting, Accept, AcceptFirst, AcceptThird, AcceptTimeout, AcceptFails, ResponderSends,
         ResponderReads, CloseResponder
<1>1. CASE ini[1].pc \notin {"new", "wait2"}
  BY <1>0, <1>1 DEF BeforeAnswer
<1>2. CASE ini[1].pc \in {"new", "wait2"}
  <2>1. rsp[b].pc # "up"
    BY <1>2, NoneUp DEF Together
  <2>2. Accepting(b)
    BY <2>1 DEF ResponderSends, ResponderReads, CloseResponder
  <2>3. CASE Accept(b) \/ AcceptTimeout(b)
    <3>1. inbox' = inbox
      BY <2>3 DEF Accept, AcceptTimeout
    <3>2. \A c \in 1 .. Accepts : rsp'[c].h = rsp[c].h
      <4>1. rsp \in [1 .. Accepts -> RspRecords]
        BY DEF HandshakeInv, Types, RspRecords
      <4>2. CASE Accept(b)
        <5>1. PICK k : rsp' = [rsp EXCEPT ![b].pc = "wait1", ![b].pin = k]
          BY <4>2 DEF Accept
        <5> QED
          BY <4>1, <5>1 DEF RspRecords
      <4>3. CASE AcceptTimeout(b)
        <5>1. rsp' = [rsp EXCEPT ![b].pc = "timeout"]
          BY <4>3 DEF AcceptTimeout, AcceptFails
        <5> QED
          BY <4>1, <5>1 DEF RspRecords
      <4> QED
        BY <2>3, <4>2, <4>3
    <3>3. D1' = D1 /\ \A c : D2(c)' = D2(c)
      BY <1>0 DEF D1, D2
    <3> QED
      BY <1>0, <3>1, <3>2, <3>3 DEF Together, BeforeAnswer
  <2>4. CASE AcceptThird(b)
    <3>1. rsp[b].pc = "wait3" /\ inbox[Responder] # << >>
      BY <2>4 DEF AcceptThird
    <3>2. rsp[b].h # Start
      BY <3>1, TranscriptsDiffer DEF HandshakeInv, RspOK
    <3> QED
      BY <1>2, <3>1, <3>2 DEF Together, BeforeAnswer
  <2>5. CASE AcceptFirst(b)
    <3>1. inbox[Responder] = <<D1>> /\ inbox[1] = << >> /\ ini[1].pc = "wait2"
      BY <1>2, <2>5 DEF Together, BeforeAnswer, AcceptFirst
    <3>2. PICK d : d = D1
      OBVIOUS
    <3>3. Head(inbox[Responder]) = d /\ Tail(inbox[Responder]) = << >>
      BY <3>1, <3>2
    <3>4. Opening(d) /\ PeerOf(d) = 1 /\ d.body = T1(1) /\ 1 \in Sockets
      BY <3>2, FirstReads DEF Together
    <3>5. Taken(d.body) = T1(1)
      BY <3>4, Messages DEF Taken
    <3>6. Msg2(Taken(d.body), b) = T2(1, b)
      BY <3>5, Messages
    <3>7. inbox' = Post(Rest(Responder), 1, D2(b))
      BY <2>5, <3>3, <3>4, <3>6 DEF AcceptFirst, D2
    <3>8. PICK box, m : box = Rest(Responder) /\ m = D2(b)
      OBVIOUS
    <3>9. Responder \in Sockets /\ Responder # 1
      BY Kinds DEF Responder
    <3>10. box \in [Sockets -> Seq(Dgrams)] /\ box[1] = << >> /\ box[Responder] = << >>
      <4>1. Rest(Responder) \in [Sockets -> Seq(Dgrams)]
        BY <2>5, <3>9, ReadOne DEF HandshakeInv, Types, Boxes, AcceptFirst
      <4>2. Rest(Responder)[1] = inbox[1] /\ Rest(Responder)[Responder] = Tail(inbox[Responder])
        BY <3>4, <3>9 DEF Rest, HandshakeInv, Types, Boxes
      <4> QED
        BY <3>1, <3>3, <3>8, <4>1, <4>2
    <3>11. /\ Post(box, 1, m)[1] = Append(box[1], m)
           /\ Post(box, 1, m)[Responder] = box[Responder]
      BY <3>4, <3>9, <3>10 DEF Post
    <3>12. inbox'[Responder] = << >> /\ inbox'[1] = Append(<< >>, m)
      BY <3>7, <3>8, <3>10, <3>11
    <3>13. inbox'[1] = <<m>>
      BY <3>12
    <3>14. m = D2(b)'
      BY <1>0, <3>8 DEF D2
    <3> QED
      BY <1>0, <3>1, <3>12, <3>13, <3>14 DEF BeforeAnswer
  <2> QED
    BY <2>2, <2>3, <2>4, <2>5 DEF Accepting
<1> QED
  BY <1>1, <1>2

\* A step of a later accept: the first has ended.
LEMMA LaterRsp ==
    ASSUME HandshakeInv, Together, NEW b \in 2 .. Accepts,
           Accepting(b) \/ ResponderSends(b) \/ ResponderReads(b) \/ CloseResponder(b)
    PROVE  Together'
<1>0. conf' = conf /\ ini' = ini /\ faults' = faults
  BY DEF Accepting, Accept, AcceptFirst, AcceptThird, AcceptTimeout, AcceptFails, ResponderSends,
         ResponderReads, CloseResponder
<1>1. b \in 1 .. Accepts /\ 1 \in 1 .. Accepts /\ b # 1 /\ 1 \in 1 .. (b - 1)
  BY HandshakeAssumption
<1>2. rsp'[1] = rsp[1]
  BY <1>1
  DEF Accepting, Accept, AcceptFirst, AcceptThird, AcceptTimeout, AcceptFails, ResponderSends,
      ResponderReads, CloseResponder, HandshakeInv, Types
<1>3. rsp[1].pc \in Ended
  <2>1. CASE rsp[b].pc = "new"
    BY <1>1, <2>1
    DEF Accepting, Accept, AcceptFirst, AcceptThird, AcceptTimeout, ResponderSends,
        ResponderReads, CloseResponder
  <2>2. CASE rsp[b].pc # "new"
    BY <2>2 DEF Together, InTurn
  <2> QED
    BY <2>1, <2>2
<1>4. Delivers'
  BY <1>0, SameDatagrams DEF Together
<1>5. InTurn'
  BY <1>0, <1>2, <1>3 DEF Together, InTurn
<1>6. BeforeAnswer'
  BY <1>1, RspBefore
<1>7. NextRead'
  BY <1>2, <1>3 DEF NextRead, Ended
<1>8. Reasons'
  BY <1>0, <1>2 DEF Together, Reasons
<1> QED
  BY <1>4, <1>5, <1>6, <1>7, <1>8 DEF Together

\* A step of the first accept, given what it does to what it reads next and why
\* it fails.
LEMMA FirstRsp ==
    ASSUME HandshakeInv, Together,
           Accepting(1) \/ ResponderSends(1) \/ ResponderReads(1) \/ CloseResponder(1),
           NextRead', Reasons'
    PROVE  Together'
<1>0. conf' = conf /\ ini' = ini /\ faults' = faults
  BY DEF Accepting, Accept, AcceptFirst, AcceptThird, AcceptTimeout, AcceptFails, ResponderSends,
         ResponderReads, CloseResponder
<1>1. 1 \in 1 .. Accepts /\ Accepts \in Nat
  BY HandshakeAssumption
<1>2. rsp[1].pc \notin Ended
  BY DEF Accepting, Accept, AcceptFirst, AcceptThird, AcceptTimeout, ResponderSends,
         ResponderReads, CloseResponder, Ended
<1>3. \A c \in 2 .. Accepts : rsp'[c] = rsp[c]
  <2> SUFFICES ASSUME NEW c \in 2 .. Accepts PROVE rsp'[c] = rsp[c]
    OBVIOUS
  <2>1. c \in 1 .. Accepts /\ c # 1
    BY <1>1
  <2> QED
    BY <1>1, <2>1
    DEF Accepting, Accept, AcceptFirst, AcceptThird, AcceptTimeout, AcceptFails, ResponderSends,
        ResponderReads, CloseResponder, HandshakeInv, Types
<1>4. Delivers'
  BY <1>0, SameDatagrams DEF Together
<1>5. InTurn'
  BY <1>0, <1>2, <1>3 DEF Together, InTurn
<1>6. BeforeAnswer'
  BY <1>1, RspBefore
<1> QED
  BY <1>4, <1>5, <1>6 DEF Together

\* The first accept begins.
LEMMA FirstAccept ==
    ASSUME HandshakeInv, Together, Accept(1)
    PROVE  Together'
<1>1. /\ conf' = conf /\ ini' = ini /\ inbox' = inbox /\ rsp[1].pc = "new" /\ 1 \in 1 .. Accepts
  BY HandshakeAssumption DEF Accept
<1>2. rsp'[1].pc = "wait1"
  <2>1. PICK k : rsp' = [rsp EXCEPT ![1].pc = "wait1", ![1].pin = k]
    BY DEF Accept
  <2> QED
    BY <1>1, <2>1 DEF HandshakeInv, Types
<1>3. D1' = D1
  BY <1>1, SameDatagrams
<1>4. NextRead'
  BY <1>1, <1>2, <1>3 DEF Together, NextRead
<1>5. Reasons'
  BY <1>1, <1>2 DEF Together, Reasons
<1> QED
  BY <1>4, <1>5, FirstRsp DEF Accepting

\* It opens with the first message of the first connect.
LEMMA FirstOpens ==
    ASSUME HandshakeInv, Together, AcceptFirst(1)
    PROVE  Together'
<1>1. /\ inbox[Responder] # << >> /\ rsp[1].pc = "wait1" /\ 1 \in 1 .. Accepts
      /\ conf' = conf /\ ini' = ini
  BY HandshakeAssumption DEF AcceptFirst, AcceptFails
<1>2. ini[1].pc # "new"
  BY <1>1 DEF Together, BeforeAnswer
<1>3. PICK d : d = D1
  OBVIOUS
<1>4. Head(inbox[Responder]) = d
  BY <1>1, <1>2, <1>3 DEF Together, NextRead
<1>5. Opening(d) /\ d.body = T1(1) /\ d.from = Source(conf.ini, 1)
  BY <1>3, FirstReads DEF Together
<1>6. Msg2(Taken(d.body), 1) = T2(1, 1)
  <2>1. Taken(d.body) = T1(1)
    BY <1>5, Messages DEF Taken
  <2> QED
    BY <2>1, Messages
<1>7. rsp' = [rsp EXCEPT ![1] = [@ EXCEPT !.pc = "wait3", !.h = Msg2(Taken(d.body), 1),
                !.next_hop = NextHop(conf.rsp, d.from), !.peer = PeerOf(d)]]
  BY <1>4, <1>5 DEF AcceptFirst
<1>8. /\ rsp'[1].pc = "wait3" /\ rsp'[1].h = T2(1, 1)
      /\ rsp'[1].next_hop = NextHop(conf.rsp, Source(conf.ini, 1))
  <2>1. rsp \in [1 .. Accepts -> RspRecords]
    BY DEF HandshakeInv, Types, RspRecords
  <2>2. PICK nh, pr, h : nh = NextHop(conf.rsp, d.from) /\ pr = PeerOf(d) /\ h = Msg2(Taken(d.body), 1)
    OBVIOUS
  <2>3. rsp'[1] = [rsp[1] EXCEPT !.pc = "wait3", !.h = h, !.next_hop = nh, !.peer = pr]
    BY <1>1, <1>7, <2>1, <2>2
  <2>4. rsp[1] \in RspRecords
    BY <1>1, <2>1
  <2>5. rsp'[1].pc = "wait3" /\ rsp'[1].h = h /\ rsp'[1].next_hop = nh
    BY <2>3, <2>4 DEF RspRecords
  <2> QED
    BY <1>5, <1>6, <2>2, <2>5
<1>9. ~ Established(ini[1])
  <2> SUFFICES ASSUME Established(ini[1]) PROVE FALSE
    OBVIOUS
  <2>1. 1 \in 1 .. Attempts
    BY HandshakeAssumption
  <2>2. PICK c \in 1 .. Accepts : ini[1].h = T3(1, c)
    BY <2>1 DEF HandshakeInv, IniOK
  <2>3. Answered(1, c, 1)
    BY <2>1, <2>2 DEF HandshakeInv, IniOK
  <2>4. c = 1
    BY <1>1, <2>3, AnsweredByFirst DEF Together, Ended
  <2>5. rsp[1].h = Start
    BY <1>1 DEF HandshakeInv, RspOK
  <2> QED
    BY <2>3, <2>4, <2>5, TranscriptsDiffer DEF Answered
<1>10. NextRead'
  BY <1>1, <1>2, <1>8, <1>9 DEF NextRead
<1>11. Reasons'
  BY <1>1, <1>8 DEF Together, Reasons
<1> QED
  BY <1>10, <1>11, FirstRsp DEF Accepting

\* It completes with the third message of the first connect, unless that gave up.
LEMMA FirstCompletes ==
    ASSUME HandshakeInv, Together, AcceptThird(1)
    PROVE  Together'
<1>1. /\ inbox[Responder] # << >> /\ rsp[1].pc = "wait3" /\ 1 \in 1 .. Accepts /\ 1 \in 1 .. Attempts
      /\ conf' = conf /\ ini' = ini
  BY HandshakeAssumption DEF AcceptThird, AcceptFails
<1>2. PICK d : d = Head(inbox[Responder])
  OBVIOUS
<1>3. rsp \in [1 .. Accepts -> RspRecords] /\ rsp[1] \in RspRecords
  BY <1>1 DEF HandshakeInv, Types, RspRecords
<1>4. \/ Completes(1, d) /\ rsp' = [rsp EXCEPT ![1] =
            [@ EXCEPT !.pc = IF Pinned(rsp[1].pin, Last(d.body).s) THEN "up" ELSE "failed",
                      !.h = d.body, !.peer = PeerAfter(rsp[1], d)]]
      \/ ~ Completes(1, d) /\ rsp' = [rsp EXCEPT ![1].pc = "failed"]
  BY <1>2 DEF AcceptThird, AcceptFails
<1>5. /\ rsp'[1].pc \in {"up", "failed"} /\ rsp'[1].pin = rsp[1].pin
      /\ Completes(1, d) => rsp'[1].pc = IF Pinned(rsp[1].pin, Last(d.body).s) THEN "up" ELSE "failed"
  <2>1. CASE ~ Completes(1, d)
    BY <1>1, <1>3, <1>4, <2>1 DEF RspRecords
  <2>2. CASE Completes(1, d)
    <3>1. PICK pc, h, pr :
            /\ pc = (IF Pinned(rsp[1].pin, Last(d.body).s) THEN "up" ELSE "failed")
            /\ h = d.body /\ pr = PeerAfter(rsp[1], d)
      OBVIOUS
    <3>2. rsp'[1] = [rsp[1] EXCEPT !.pc = pc, !.h = h, !.peer = pr]
      BY <1>1, <1>3, <1>4, <2>2, <3>1
    <3>3. rsp'[1].pc = pc /\ rsp'[1].pin = rsp[1].pin
      BY <1>3, <3>2 DEF RspRecords
    <3> QED
      BY <3>1, <3>3
  <2> QED
    BY <2>1, <2>2
<1>6. ini[1].pc \notin {"new", "wait2"}
  <2>1. rsp[1].h # Start
    BY <1>1, TranscriptsDiffer DEF Together, NextRead
  <2> QED
    BY <1>1, <2>1 DEF Together, BeforeAnswer
<1>7. ini[1].pc \in {"failed", "timeout"} \/ Established(ini[1])
  BY <1>1, <1>6 DEF HandshakeInv, Types, Established, Ended
<1>8. Established(ini[1]) => Completes(1, d) /\ Last(d.body).s = IKey
  <2> HAVE Established(ini[1])
  <2>1. d = D3
    BY <1>1, <1>2 DEF Together, NextRead
  <2>2. /\ d.body = T3(1, 1) /\ Completes(1, d)
    BY <1>1, <2>1, FirstReads DEF Together, NextRead
  <2>3. Last(d.body) = M3
    BY <2>2, Messages
  <2> QED
    BY <2>2, <2>3 DEF M3
<1>9. NextRead'
  BY <1>5 DEF NextRead
<1>10. Reasons'
  <2>1. rsp'[1].pc = "failed" /\ Established(ini[1]) => Mismatch(rsp'[1], IKey)
    BY <1>5, <1>8 DEF Pinned, Mismatch
  <2>2. ini'[1].pc = "failed" => Mismatch(ini'[1], RKey)
    BY <1>1 DEF Together, Reasons
  <2> QED
    BY <1>1, <1>7, <2>1, <2>2 DEF Reasons
<1> QED
  BY <1>9, <1>10, FirstRsp DEF Accepting

\* Afterwards nothing it reads matters.
LEMMA FirstLater ==
    ASSUME HandshakeInv, Together,
           AcceptTimeout(1) \/ ResponderSends(1) \/ ResponderReads(1) \/ CloseResponder(1)
    PROVE  Together'
<1>1. 1 \in 1 .. Accepts /\ rsp \in [1 .. Accepts -> RspRecords] /\ conf' = conf /\ ini' = ini
  BY HandshakeAssumption
  DEF HandshakeInv, Types, RspRecords, AcceptTimeout, AcceptFails, ResponderSends, ResponderReads,
      CloseResponder
<1>2. rsp'[1].pc \in {"timeout", "up", "closed"}
  <2>1. CASE AcceptTimeout(1)
    BY <1>1, <2>1 DEF AcceptTimeout, AcceptFails, RspRecords
  <2>2. CASE ResponderSends(1)
    BY <2>2 DEF ResponderSends
  <2>3. CASE ResponderReads(1)
    <3>1. PICK pr : rsp' = [rsp EXCEPT ![1].peer = pr]
      BY <2>3 DEF ResponderReads
    <3>2. rsp[1].pc = "up"
      BY <2>3 DEF ResponderReads
    <3> QED
      BY <1>1, <3>1, <3>2 DEF RspRecords
  <2>4. CASE CloseResponder(1)
    BY <1>1, <2>4 DEF CloseResponder, RspRecords
  <2> QED
    BY <2>1, <2>2, <2>3, <2>4
<1>3. NextRead'
  BY <1>2 DEF NextRead
<1>4. Reasons'
  BY <1>1, <1>2 DEF Together, Reasons
<1> QED
  BY <1>3, <1>4, FirstRsp DEF Accepting

\* The other steps of an initiator find the first connect past its wait.
LEMMA OtherIni ==
    ASSUME HandshakeInv, Together, NEW a \in 1 .. Attempts,
           Connecting(a) \/ InitiatorSends(a) \/ InitiatorReads(a) \/ CloseInitiator(a),
           a = 1 => ~ Connect(1) /\ ~ ConnectRead(1)
    PROVE  Together'
<1>1. /\ 1 \in 1 .. Attempts /\ ini \in [1 .. Attempts -> IniRecords]
      /\ conf' = conf /\ rsp' = rsp /\ faults' = faults
  BY HandshakeAssumption
  DEF HandshakeInv, Types, IniRecords, Connecting, Connect, ConnectRead, ConnectTimeout,
      ConnectFails, InitiatorSends, InitiatorReads, CloseInitiator
<1>2. PICK r : ini' = ini \/ ini' = [ini EXCEPT ![a] = r]
  BY DEF Connecting, Connect, ConnectRead, ConnectTimeout, ConnectFails, InitiatorSends,
         InitiatorReads, CloseInitiator
<1>3. ini[a].pc \in {"new", "wait2", "up"}
  BY DEF Connecting, Connect, ConnectRead, ConnectTimeout, InitiatorSends, InitiatorReads,
         CloseInitiator
<1>4. \A c \in 1 .. Attempts : ini[c].pc \in {"failed", "timeout"} => ini'[c].pc = ini[c].pc
  BY <1>1, <1>2, <1>3
<1>5. \E d : inbox'[Responder] = inbox[Responder] \/ inbox'[Responder] = Append(inbox[Responder], d)
  <2>1. a \in Sockets /\ Responder \in Sockets /\ a # Responder
    BY Kinds DEF Responder
  <2>2. Rest(a)[Responder] = inbox[Responder] /\ Rest(a) \in [Sockets -> {Rest(a)[s] : s \in Sockets}]
    BY <2>1 DEF Rest, HandshakeInv, Types, Boxes
  <2>3. PICK box : box = Rest(a)
    OBVIOUS
  <2>4. \A m : Post(inbox, Responder, m)[Responder] = Append(inbox[Responder], m)
    BY <2>1 DEF Post, HandshakeInv, Types, Boxes
  <2>5. \A m : Post(box, Responder, m)[Responder] = Append(inbox[Responder], m)
    BY <2>1, <2>2, <2>3 DEF Post
  <2>6. \/ inbox' = inbox \/ inbox' = box
        \/ \E m : inbox' = Post(inbox, Responder, m) \/ inbox' = Post(box, Responder, m)
    BY <2>3
    DEF Connecting, Connect, ConnectRead, ConnectTimeout, ConnectFails, InitiatorSends,
        InitiatorReads, CloseInitiator
  <2> QED
    BY <2>2, <2>3, <2>4, <2>5, <2>6
<1>6. PICK d : inbox'[Responder] = inbox[Responder] \/ inbox'[Responder] = Append(inbox[Responder], d)
  BY <1>5
<1>7. CASE a = 1
  <2>1. \/ ini[1].pc = "wait2" /\ ini' = [ini EXCEPT ![1].pc = "timeout"]
        \/ ini[1].pc = "up" /\ ini' = ini
        \/ ini[1].pc = "up" /\ ini' = [ini EXCEPT ![1].pc = "closed"]
    BY <1>7
    DEF Connecting, ConnectTimeout, ConnectFails, InitiatorSends, InitiatorReads, CloseInitiator
  <2>2. /\ ini[1].pc \in {"wait2", "up"} /\ ini'[1].pc \in {"timeout", "up", "closed"}
        /\ ini'[1].pc # "timeout" => ini[1].pc = "up"
        /\ \A c \in 2 .. Attempts : ini'[c] = ini[c]
    <3>1. \A c \in 2 .. Attempts : c \in 1 .. Attempts /\ c # 1
      BY HandshakeAssumption
    <3>2. CASE ini[1].pc = "wait2" /\ ini' = [ini EXCEPT ![1].pc = "timeout"]
      BY <1>1, <3>1, <3>2 DEF IniRecords
    <3>3. CASE ini[1].pc = "up" /\ ini' = ini
      BY <3>3
    <3>4. CASE ini[1].pc = "up" /\ ini' = [ini EXCEPT ![1].pc = "closed"]
      BY <1>1, <3>1, <3>4 DEF IniRecords
    <3> QED
      BY <2>1, <3>2, <3>3, <3>4
  <2>3. \A c \in 2 .. Attempts : ini'[c].pc = "new"
    BY <2>2 DEF Together, InTurn, Ended
  <2> QED
    BY <1>1, <1>4, <1>6, <2>2, <2>3, LaterIni DEF Established, Ended
<1>8. CASE a # 1
  <2>1. a \in 2 .. Attempts /\ 1 \in 1 .. (a - 1)
    BY <1>8, HandshakeAssumption
  <2>2. ini[1].pc \in Ended
    <3>1. CASE ini[a].pc = "new"
      BY <2>1, <3>1
      DEF Connecting, Connect, ConnectRead, ConnectTimeout, InitiatorSends, InitiatorReads,
          CloseInitiator
    <3>2. CASE ini[a].pc # "new"
      BY <2>1, <3>2 DEF Together, InTurn
    <3> QED
      BY <3>1, <3>2
  <2>3. ini'[1] = ini[1]
    BY <1>1, <1>2, <1>8
  <2> QED
    BY <1>1, <1>4, <1>6, <2>2, <2>3, LaterIni DEF Established, Ended
<1> QED
  BY <1>7, <1>8

LEMMA RoutesInit == Init => RoutesInv
<1> SUFFICES ASSUME Init, Delivers PROVE InTurn /\ BeforeAnswer /\ NextRead /\ Reasons
  BY DEF RoutesInv
<1>1. 1 \in 1 .. Attempts /\ 1 \in 1 .. Accepts /\ Responder \in Sockets /\ 1 \in Sockets
  BY HandshakeAssumption, Kinds
<1>2. /\ \A a \in 1 .. Attempts : ini[a].pc = "new"
      /\ \A b \in 1 .. Accepts : rsp[b].pc = "new" /\ rsp[b].h = Start
      /\ inbox[Responder] = << >> /\ inbox[1] = << >> /\ faults = 0
  BY <1>1 DEF Init, Delivers
<1>3. InTurn
  BY <1>2, HandshakeAssumption DEF InTurn
<1> QED
  BY <1>1, <1>2, <1>3 DEF BeforeAnswer, NextRead, Reasons

LEMMA RoutesNext == HandshakeInv /\ RoutesInv /\ [Next]_vars => RoutesInv'
<1> SUFFICES ASSUME HandshakeInv, RoutesInv, [Next]_vars, Delivers'
             PROVE  (InTurn /\ BeforeAnswer /\ NextRead /\ Reasons)'
  BY DEF RoutesInv
<1>1. conf' = conf
  BY DEF Next, vars, Connecting, Connect, ConnectRead, ConnectTimeout, ConnectFails,
         InitiatorSends, InitiatorReads, CloseInitiator, Accepting, Accept, AcceptFirst,
         AcceptThird, AcceptTimeout, AcceptFails, ResponderSends, ResponderReads,
         CloseResponder, Lose, Duplicate, Swap, Misbehave
<1>2. Together
  BY <1>1, SameDatagrams DEF RoutesInv, Together
<1> SUFFICES Together'
  BY DEF Together
<1>3. ASSUME NEW a \in 1 .. Attempts,
             Connecting(a) \/ InitiatorSends(a) \/ InitiatorReads(a) \/ CloseInitiator(a)
      PROVE  Together'
  <2>1. CASE a = 1 /\ Connect(1)
    BY <1>2, <2>1, FirstConnect
  <2>2. CASE a = 1 /\ ConnectRead(1)
    BY <1>2, <2>2, FirstAnswer
  <2>3. CASE a = 1 => ~ Connect(1) /\ ~ ConnectRead(1)
    BY <1>2, <1>3, <2>3, OtherIni
  <2> QED
    BY <2>1, <2>2, <2>3
<1>4. ASSUME NEW b \in 1 .. Accepts,
             Accepting(b) \/ ResponderSends(b) \/ ResponderReads(b) \/ CloseResponder(b)
      PROVE  Together'
  <2>1. CASE b = 1
    BY <1>2, <1>4, <2>1, FirstAccept, FirstOpens, FirstCompletes, FirstLater DEF Accepting
  <2>2. CASE b # 1
    <3>1. b \in 2 .. Accepts
      BY <2>2, HandshakeAssumption
    <3> QED
      BY <1>2, <1>4, <3>1, LaterRsp
  <2> QED
    BY <2>1, <2>2
<1>5. ASSUME NEW s \in Sockets, Lose(s) \/ Duplicate(s) \/ Swap(s) PROVE Together'
  <2>1. faults = 0 /\ faults > 0
    BY <1>2, <1>5 DEF Together, InTurn, Lose, Duplicate, Swap, Misbehave
  <2> QED
    BY <2>1
<1>6. CASE UNCHANGED vars
  <2>1. D1' = D1 /\ D3' = D3 /\ \A b : D2(b)' = D2(b)
    BY <1>6 DEF vars, D1, D2, D3
  <2>2. Delivers' /\ InTurn' /\ Reasons'
    BY <1>2, <1>6 DEF Together, vars, InTurn, Reasons
  <2>3. BeforeAnswer' /\ NextRead'
    BY <1>2, <1>6, <2>1 DEF Together, vars, BeforeAnswer, NextRead
  <2> QED
    BY <2>2, <2>3 DEF Together
<1> QED
  BY <1>3, <1>4, <1>5, <1>6 DEF Next

\* Over a network that delivers, with paths that mirror each other, neither the
\* first connect nor the first accept fails but for a pin, or because an
\* initiator gave up; and paths that do not mirror each other never establish
\* both ends, on any network.
THEOREM PathsMeet == Spec => []RoutesMeet
<1>1. HandshakeInv /\ RoutesInv => RoutesMeet
  <2> SUFFICES ASSUME HandshakeInv, RoutesInv PROVE RoutesMeet
    OBVIOUS
  <2>1. DOMAIN ini = 1 .. Attempts /\ DOMAIN rsp = 1 .. Accepts
    BY DEF HandshakeInv, Types
  <2>2. Delivers =>
            /\ ini[1].pc = "failed" => Mismatch(ini[1], RKey)
            /\ rsp[1].pc = "failed" => Mismatch(rsp[1], IKey)
                    \/ \E a \in DOMAIN ini : ini[a].pc \in {"failed", "timeout"}
    BY <2>1 DEF RoutesInv, Reasons
  <2>3. ASSUME NEW a \in 1 .. Attempts, NEW b \in 1 .. Accepts, Established(ini[a]),
               Established(rsp[b]), ini[a].h = rsp[b].h
        PROVE  Mirrored(conf.ini, conf.rsp)
    <3>1. InitiatorHears
      BY <2>3 DEF HandshakeInv, IniOK
    <3>2. ResponderHears
      BY <2>3 DEF HandshakeInv, RspOK
    <3>3. IsPath(conf.ini) /\ IsPath(conf.rsp) /\ Responder \in Int
      BY OwnPaths DEF Responder
    <3>4. /\ conf.ini.kind \in {"direct", "relay", "onion"}
          /\ conf.rsp.kind \in {"direct", "relay", "onion"}
      BY <3>3, Paths
    <3>5. CASE conf.ini.kind = "relay"
      BY <3>1, <3>5 DEF InitiatorHears, Mirrored
    <3>6. CASE conf.ini.kind = "direct"
      <4>1. NextHop(conf.ini, Responder) = 0
        BY <3>3, <3>6, Paths DEF Responder
      <4>2. conf.rsp.kind # "onion"
        <5>1. conf.rsp.kind = "onion" => Source(conf.rsp, Responder) < Relay
          BY <3>3, Paths
        <5> QED
          BY <3>1, <4>1, <5>1 DEF InitiatorHears, Relay
      <4> QED
        BY <3>1, <3>4, <3>6, <4>2 DEF InitiatorHears, Mirrored
    <3>7. CASE conf.ini.kind = "onion"
      <4>1. NextHop(conf.ini, Responder) = Head(conf.ini.hops) /\ Head(conf.ini.hops) < Relay
        BY <3>3, <3>7, Paths
      <4>2. conf.rsp.kind # "direct"
        <5>1. conf.rsp.kind = "direct" => Source(conf.rsp, Responder) = 0
          BY <3>3, Paths DEF Responder
        <5> QED
          BY <3>1, <4>1, <5>1 DEF InitiatorHears, Relay
      <4>3. conf.rsp.kind = "onion"
        BY <3>1, <3>4, <3>7, <4>2 DEF InitiatorHears
      <4>4. Source(conf.rsp, Responder) = Last(conf.rsp.hops)
        BY <3>3, <4>3, Paths
      <4> QED
        BY <3>1, <3>2, <3>7, <4>1, <4>3, <4>4 DEF InitiatorHears, ResponderHears, Mirrored
    <3> QED
      BY <3>4, <3>5, <3>6, <3>7
  <2> QED
    BY <2>1, <2>2, <2>3 DEF RoutesMeet, Delivers
<1>2. Spec => []RoutesInv
  BY Invariance, RoutesInit, RoutesNext, PTL DEF Spec
<1> QED
  BY <1>1, <1>2, Invariance, PTL
==============================================================================
