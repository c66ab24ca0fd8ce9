---------------------------- MODULE SessionProofs ----------------------------
(***************************************************************************)
(* Proofs about Session.                                                   *)
(***************************************************************************)
EXTENDS Session, FiniteSetTheorems, FunctionTheorems, CommonFacts

(***************************************************************************)
(* Small facts.                                                            *)
(***************************************************************************)

\* There are two endpoints, each the other's peer.
LEMMA PeerFacts ==
    /\ Peer("initiator") = "responder" /\ Peer("responder") = "initiator"
    /\ \A e \in Endpoints : Peer(e) \in Endpoints /\ Peer(e) # e /\ Peer(Peer(e)) = e
  BY DEF Peer, Endpoints

\* nth runs through S in ascending order, as InOrder does.
Enumerates(nth, t, S) ==
    /\ nth \in [1 .. Cardinality(S) -> S]
    /\ \A i, j \in 1 .. Cardinality(S) : i < j => nth[i] < nth[j]
    /\ \A s \in S : \E i \in 1 .. Cardinality(S) : nth[i] = s
    /\ \A i \in 1 .. Cardinality(S) : InOrder(t, S)[i] = t.unacked[nth[i]].plaintext

\* InOrder lists the frames of a set of slots: as many as there are slots, each
\* of them once, in ascending order, and nothing else.
LEMMA InOrderFacts ==
    ASSUME NEW t, NEW S \in SUBSET Seqs
    PROVE  /\ Cardinality(S) \in Nat
           /\ InOrder(t, S) \in Seq({t.unacked[s].plaintext : s \in S})
           /\ Len(InOrder(t, S)) = Cardinality(S)
           /\ {InOrder(t, S)[i] : i \in DOMAIN InOrder(t, S)} = {t.unacked[s].plaintext : s \in S}
           /\ \E nth : Enumerates(nth, t, S)
<1> DEFINE n == Cardinality(S)
           Below(a) == {v \in S : v < a}
           rank == [a \in S |-> Cardinality(Below(a))]
           nth(k) == CHOOSE a \in S : Cardinality(Below(a)) = k - 1
           F == {t.unacked[s].plaintext : s \in S}
<1>1. S \in SUBSET Nat /\ IsFiniteSet(S) /\ n \in Nat
  <2>1. IsFiniteSet(0 .. (SEQ_MOD - 1))
    BY WidthsAssumption, FS_Interval
  <2>2. S \in SUBSET (0 .. (SEQ_MOD - 1))
    BY DEF Seqs
  <2>3. IsFiniteSet(S)
    BY <2>1, <2>2, FS_Subset
  <2>4. n \in Nat
    BY <2>3, FS_CardinalityType
  <2>5. S \in SUBSET Nat
    BY <2>2, WidthsAssumption
  <2> QED
    BY <2>3, <2>4, <2>5
<1>2. \A s \in S : IsFiniteSet(Below(s)) /\ Cardinality(Below(s)) \in 0 .. (n - 1)
  <2> SUFFICES ASSUME NEW s \in S PROVE IsFiniteSet(Below(s)) /\ Cardinality(Below(s)) \in 0 .. (n - 1)
    OBVIOUS
  <2>1. Below(s) \in SUBSET (S \ {s})
    BY <1>1
  <2>2. IsFiniteSet(S \ {s}) /\ Cardinality(S \ {s}) = n - 1
    BY <1>1, FS_RemoveElement
  <2>3. IsFiniteSet(Below(s)) /\ Cardinality(Below(s)) <= n - 1
    BY <2>1, <2>2, FS_Subset
  <2> HIDE DEF n
  <2> QED
    BY <2>3, <1>1, FS_CardinalityType
<1>3. \A s, u \in S : s < u => Cardinality(Below(s)) < Cardinality(Below(u))
  <2> SUFFICES ASSUME NEW s \in S, NEW u \in S, s < u
               PROVE  Cardinality(Below(s)) < Cardinality(Below(u))
    OBVIOUS
  <2>0. s \in Nat /\ u \in Nat
    BY <1>1
  <2>1. Below(s) \in SUBSET Below(u) /\ s \in Below(u) /\ s \notin Below(s)
    <3>1. ASSUME NEW v \in Below(s) PROVE v \in Below(u)
      <4>1. v \in S /\ v < s /\ v \in Nat
        BY <1>1
      <4> QED
        BY <4>1, <2>0
    <3>2. s \in Below(u) /\ s \notin Below(s)
      BY <2>0
    <3> HIDE DEF Below
    <3> QED
      BY <3>1, <3>2
  <2>2. IsFiniteSet(Below(u))
    BY <1>2
  <2>3. Cardinality(Below(s)) <= Cardinality(Below(u)) /\ Cardinality(Below(s)) # Cardinality(Below(u))
    BY <2>1, <2>2, FS_Subset
  <2> QED
    BY <2>3, <1>2
<1>4. rank \in Injection(S, 0 .. (n - 1))
  <2>1. rank \in [S -> 0 .. (n - 1)]
    BY <1>2
  <2>2. \A s, u \in S : rank[s] = rank[u] => s = u
    <3> SUFFICES ASSUME NEW s \in S, NEW u \in S, s # u PROVE rank[s] # rank[u]
      OBVIOUS
    <3>1. s < u \/ u < s
      BY <1>1
    <3>2. rank[s] \in Int /\ rank[u] \in Int
      BY <2>1
    <3>3. rank[s] < rank[u] \/ rank[u] < rank[s]
      BY <3>1, <1>3
    <3> QED
      BY <3>2, <3>3
  <2> QED
    BY <2>1, <2>2, Fun_IsInj
<1>5. rank \in Surjection(S, 0 .. (n - 1))
  <2>1. IsFiniteSet(0 .. (n - 1)) /\ Cardinality(0 .. (n - 1)) = n
    <3> HIDE DEF n
    <3> QED
      BY <1>1, FS_Interval
  <2> QED
    BY <1>4, <2>1, FS_Injection
<1>6. \A i \in 1 .. n : \E s \in S : Cardinality(Below(s)) = i - 1
  <2> SUFFICES ASSUME NEW i \in 1 .. n PROVE \E s \in S : Cardinality(Below(s)) = i - 1
    OBVIOUS
  <2>1. i - 1 \in 0 .. (n - 1)
    BY <1>1
  <2>2. \E s \in S : rank[s] = i - 1
    <3> HIDE DEF rank, n
    <3> QED
      BY <2>1, <1>5 DEF Surjection
  <2> QED
    BY <2>2
<1>7. \A i \in 1 .. n : nth(i) \in S /\ Cardinality(Below(nth(i))) = i - 1
  BY <1>6
<1>8. \A s \in S : \E i \in 1 .. n : nth(i) = s
  <2> SUFFICES ASSUME NEW s \in S PROVE \E i \in 1 .. n : nth(i) = s
    OBVIOUS
  <2>1. Cardinality(Below(s)) + 1 \in 1 .. n
    BY <1>2, <1>1
  <2>a. PICK i \in 1 .. n : i = Cardinality(Below(s)) + 1
    BY <2>1
  <2>b. PICK u \in S : u = nth(i) /\ Cardinality(Below(u)) = i - 1
    BY <1>7
  <2>c. Cardinality(Below(s)) \in Int
    BY <1>2
  <2>2. Cardinality(Below(u)) = Cardinality(Below(s))
    BY <2>a, <2>b, <2>c
  <2>3. rank[u] = rank[s]
    BY <2>2
  <2>4. u = s
    <3> HIDE DEF rank, n
    <3> QED
      BY <2>3, <1>4, Fun_InjectionProperties
  <2> QED
    BY <2>b, <2>4
<1> DEFINE seq == [i \in 1 .. n |-> t.unacked[nth(i)].plaintext]
<1>9. InOrder(t, S) = seq
  BY DEF InOrder
<1>10. seq \in [1 .. n -> F] /\ DOMAIN seq = 1 .. n
  BY <1>7
<1>11. seq \in Seq(F) /\ Len(seq) = n
  <2> HIDE DEF n, F, seq
  <2> QED
    BY <1>10, <1>1
<1>12. {seq[i] : i \in DOMAIN seq} = F
  <2> HIDE DEF nth, n
  <2> QED
    BY <1>7, <1>8
<1>13. \A i, j \in 1 .. n : i < j => nth(i) < nth(j)
  <2> SUFFICES ASSUME NEW i \in 1 .. n, NEW j \in 1 .. n, i < j PROVE nth(i) < nth(j)
    OBVIOUS
  <2>1. PICK a \in S : a = nth(i) /\ Cardinality(Below(a)) = i - 1
    BY <1>7
  <2>2. PICK b \in S : b = nth(j) /\ Cardinality(Below(b)) = j - 1
    BY <1>7
  <2>3. i \in Int /\ j \in Int /\ a \in Nat /\ b \in Nat
    BY <1>1
  <2>4. b < a => Cardinality(Below(b)) < Cardinality(Below(a))
    BY <1>3
  <2>5. a < b
    <3> HIDE DEF Below
    <3> QED
      BY <2>1, <2>2, <2>3, <2>4
  <2> QED
    BY <2>1, <2>2, <2>5
<1>14. \E g \in [1 .. n -> S] :
        /\ \A i, j \in 1 .. n : i < j => g[i] < g[j]
        /\ \A s \in S : \E i \in 1 .. n : g[i] = s
        /\ \A i \in 1 .. n : seq[i] = t.unacked[g[i]].plaintext
  <2>1. PICK g : g = [i \in 1 .. n |-> nth(i)]
    OBVIOUS
  <2> HIDE DEF nth, n
  <2>2. g \in [1 .. n -> S] /\ \A i \in 1 .. n : g[i] = nth(i)
    BY <1>7, <2>1
  <2>3. \A i \in 1 .. n : seq[i] = t.unacked[g[i]].plaintext
    BY <2>2
  <2> HIDE DEF seq
  <2> QED
    BY <1>8, <1>13, <2>2, <2>3
<1>15. /\ InOrder(t, S) \in Seq(F) /\ Len(InOrder(t, S)) = n
       /\ {InOrder(t, S)[i] : i \in DOMAIN InOrder(t, S)} = F
  <2> HIDE DEF seq, F, n
  <2> QED
    BY <1>9, <1>11, <1>12
<1>16. \E g \in [1 .. n -> S] :
        /\ \A i, j \in 1 .. n : i < j => g[i] < g[j]
        /\ \A s \in S : \E i \in 1 .. n : g[i] = s
        /\ \A i \in 1 .. n : InOrder(t, S)[i] = t.unacked[g[i]].plaintext
  <2> HIDE DEF seq, n
  <2> QED
    BY <1>9, <1>14
<1>17. \E g : Enumerates(g, t, S)
  BY <1>16 DEF Enumerates
<1> HIDE DEF nth, seq
<1> QED
  BY <1>1, <1>15, <1>17, Zenon

-----------------------------------------------------------------------------
(***************************************************************************)
(* The two flows of a session.                                             *)
(***************************************************************************)

\* The steps a session takes with the flow from s to r.
FlowWire(s, r) == Frames(s, "data") \cup Frames(r, "ack")

FlowVars(s, r) == <<tx[s], rx[r], FlowWire(s, r), gave_up[s], queued[s], popped[r]>>

FlowEnqueue(s, r, n) ==
    /\ wrapping_sub(tx[s].next_seq, START) + FrameCount(n) <= MaxFrames
    /\ tx[s]' = enqueue(tx[s], Len(queued[s]) + 1, n)
    /\ queued[s]' = Append(queued[s], [first |-> tx[s].next_seq, chunks |-> n])
    /\ UNCHANGED <<rx[r], FlowWire(s, r), gave_up[s], popped[r]>>

FlowNewSends(s, r) ==
    /\ tx[s]' = take_new_sends(tx[s])
    /\ FlowWire(s, r)' = FlowWire(s, r) \cup {tx[s].unacked[i].plaintext : i \in NewSends(tx[s])}
    /\ UNCHANGED <<rx[r], gave_up[s], queued[s], popped[r]>>

FlowRetransmits(s, r) ==
    /\ Exhausted(tx[s]) = {}
    /\ tx[s]' = take_retransmits(tx[s])
    /\ FlowWire(s, r)' = FlowWire(s, r) \cup {tx[s].unacked[i].plaintext : i \in Retransmits(tx[s])}
    /\ UNCHANGED <<rx[r], gave_up[s], queued[s], popped[r]>>

FlowGiveUp(s, r) ==
    \E g \in Exhausted(tx[s]) :
        /\ \A t \in Exhausted(tx[s]) : g <= t
        /\ tx[s]' = take_retransmits(tx[s])
        /\ gave_up[s]' = g
        /\ UNCHANGED <<rx[r], FlowWire(s, r), queued[s], popped[r]>>

FlowAck(s, r) ==
    \E f \in FlowWire(s, r) :
        /\ f.kind = "ack"
        /\ tx[s]' = on_ack(tx[s], f.base, f.bitmap)
        /\ UNCHANGED <<rx[r], FlowWire(s, r), gave_up[s], queued[s], popped[r]>>

FlowData(s, r) ==
    \E f \in FlowWire(s, r) :
        /\ f.kind = "data"
        /\ rx[r]' = [on_data(rx[r], f) EXCEPT !.pending_ack = TRUE]
        /\ FlowWire(s, r)' = FlowWire(s, r) \cup {CurrentAck(rx[r]')}
        /\ UNCHANGED <<tx[s], gave_up[s], queued[s], popped[r]>>

FlowPop(s, r) ==
    /\ rx[r].delivered # << >>
    /\ rx[r]' = pop_delivered(rx[r])
    /\ popped[r]' = Append(popped[r], Head(rx[r].delivered))
    /\ UNCHANGED <<tx[s], FlowWire(s, r), gave_up[s], queued[s]>>

FlowSetRetx(s, r, d) ==
    /\ tx[s]' = set_retx(tx[s], d)
    /\ UNCHANGED <<rx[r], FlowWire(s, r), gave_up[s], queued[s], popped[r]>>

FlowTick(s, r) ==
    /\ tx[s]' = Elapse(tx[s])
    /\ UNCHANGED <<rx[r], FlowWire(s, r), gave_up[s], queued[s], popped[r]>>

FlowNext(s, r) ==
    \/ \E n \in Sizes : FlowEnqueue(s, r, n)
    \/ FlowNewSends(s, r) \/ FlowRetransmits(s, r) \/ FlowGiveUp(s, r)
    \/ FlowAck(s, r) \/ FlowData(s, r) \/ FlowPop(s, r) \/ FlowTick(s, r)
    \/ \E d \in RetxValues : FlowSetRetx(s, r, d)
    \/ UNCHANGED FlowVars(s, r)

-----------------------------------------------------------------------------
(***************************************************************************)
(* The parts of the inductive invariant.                                   *)
(***************************************************************************)
Places == {"out", "pop", "new", "retx", "block"}
Calls == {"idle", "send", "recv"}

\* Every variable is a function of the endpoint, and the counters are numbers.
Shape ==
    /\ conf \in Scenario
    /\ DOMAIN tx = Endpoints /\ DOMAIN rx = Endpoints /\ DOMAIN inbox = Endpoints
    /\ DOMAIN out = Endpoints /\ DOMAIN queued = Endpoints /\ DOMAIN popped = Endpoints
    /\ DOMAIN gave_up = Endpoints /\ DOMAIN settled = Endpoints
    /\ tx_nonce \in [Endpoints -> Nat] /\ rx_nonce \in [Endpoints -> Nat]
    /\ drop_data \in [Endpoints -> Nat]

\* Where a call may be.
LoopInv ==
    /\ call \in [Endpoints -> Calls] /\ pc \in [Endpoints -> Places]
    /\ result \in [Endpoints -> Outcomes]
    /\ left \in [Endpoints -> 0 .. (conf.send_timeout + conf.recv_timeout)]
    /\ \A e \in Endpoints :
        /\ call[e] = "idle" <=> pc[e] = "out"
        /\ pc[e] = "pop" => rx[e].delivered # << >>

\* The datagrams that may be on their way to e when L says what its peer sealed
\* under each counter.
Written(e, L) ==
    {Handshake, Cover} \cup {Sealed(n, L[n]) : n \in 0 .. (tx_nonce[Peer(e)] - 1)}

\* One ledger of what was sealed explains everything on its way to e, and it
\* holds only frames the peer's Arq handed out.
Ledger(e) ==
    /\ rx_nonce[e] <= tx_nonce[Peer(e)]
    /\ \E L : /\ \A n \in 0 .. (tx_nonce[Peer(e)] - 1) : L[n] \in out[Peer(e)]
              /\ inbox[e] \in Seq(Written(e, L))

\* What the flows know of the frames that wait for their ACK.
Waits(e) ==
    /\ DOMAIN tx[e].unacked \subseteq Seqs
    /\ \A s \in DOMAIN tx[e].unacked : tx[e].unacked[s].plaintext.kind = "data"

-----------------------------------------------------------------------------
(***************************************************************************)
(* Every step of a session is, for each of its flows, a step of Arq.       *)
(***************************************************************************)

\* What an endpoint's Arq hands out is on the wire of its own flow and not on
\* the wire of the other one.
LEMMA HandedOut ==
    ASSUME Shape, NEW e \in Endpoints, Waits(e),
           NEW S \in SUBSET DOMAIN tx[e].unacked, NEW n, NEW datagrams,
           Put(e, InOrder(tx[e], S), n, datagrams)
    PROVE  /\ FlowWire(e, Peer(e))' = FlowWire(e, Peer(e)) \cup {tx[e].unacked[i].plaintext : i \in S}
           /\ FlowWire(Peer(e), e)' = FlowWire(Peer(e), e)
<1> DEFINE F == {tx[e].unacked[i].plaintext : i \in S}
<1>1. S \in SUBSET Seqs
  BY DEF Waits
<1>2. PICK frames : frames = InOrder(tx[e], S)
  OBVIOUS
<1>3. {frames[i] : i \in DOMAIN frames} = F
  <2>1. PICK t : t = tx[e]
    OBVIOUS
  <2>2. {InOrder(t, S)[i] : i \in DOMAIN InOrder(t, S)} = {t.unacked[i].plaintext : i \in S}
    BY <1>1, InOrderFacts
  <2>3. frames = InOrder(t, S) /\ F = {t.unacked[i].plaintext : i \in S}
    BY <1>2, <2>1
  <2> HIDE DEF F
  <2> QED
    BY <2>2, <2>3
<1>4. out' = [out EXCEPT ![e] = @ \cup F]
  <2>1. out' = [out EXCEPT ![e] = @ \cup {frames[i] : i \in DOMAIN frames}]
    BY <1>2 DEF Put
  <2> QED
    BY <2>1, <1>3
<1>5. \A f \in F : f.kind = "data"
  BY DEF Waits
<1>a. e \in DOMAIN out /\ Peer(e) # e
  BY PeerFacts DEF Shape
<1> HIDE DEF F
<1>6. out'[e] = out[e] \cup F /\ out'[Peer(e)] = out[Peer(e)]
  BY <1>4, <1>a
<1>7. Frames(e, "data")' = Frames(e, "data") \cup F
  BY <1>5, <1>6 DEF Frames
<1>8. Frames(e, "ack")' = Frames(e, "ack")
  BY <1>5, <1>6 DEF Frames
<1>9. Frames(Peer(e), "data")' = Frames(Peer(e), "data") /\ Frames(Peer(e), "ack")' = Frames(Peer(e), "ack")
  BY <1>6 DEF Frames
<1> QED
  BY <1>7, <1>8, <1>9 DEF FlowWire, F

\* Nothing is handed out: both wires stay as they are.
LEMMA NothingOut ==
    ASSUME UNCHANGED out, NEW e \in Endpoints
    PROVE  /\ FlowWire(e, Peer(e))' = FlowWire(e, Peer(e))
           /\ FlowWire(Peer(e), e)' = FlowWire(Peer(e), e)
  BY DEF FlowWire, Frames

\* A datagram that opens carries a frame the peer's Arq handed out.
LEMMA OpenedWasSealed ==
    ASSUME Shape, NEW e \in Endpoints, Ledger(e), inbox[e] # << >>, Opens(e, Head(inbox[e]))
    PROVE  /\ Head(inbox[e]).frame \in out[Peer(e)]
           /\ Head(inbox[e]).nonce = rx_nonce[e] /\ rx_nonce[e] < tx_nonce[Peer(e)]
<1>1. PICK L : /\ \A n \in 0 .. (tx_nonce[Peer(e)] - 1) : L[n] \in out[Peer(e)]
               /\ inbox[e] \in Seq(Written(e, L))
  BY DEF Ledger
<1>2. PICK d : d = Head(inbox[e])
  OBVIOUS
<1>3. d \in Written(e, L) /\ d.kind = "data" /\ d.nonce = rx_nonce[e]
  BY <1>1, <1>2, SeqRead DEF Opens
<1>4. PICK n \in 0 .. (tx_nonce[Peer(e)] - 1) : d = Sealed(n, L[n])
  BY <1>3 DEF Written, Handshake, Cover
<1>5. d.nonce = n /\ d.frame = L[n]
  BY <1>4 DEF Sealed
<1>6. tx_nonce[Peer(e)] \in Nat
  BY PeerFacts DEF Shape
<1> QED
  BY <1>1, <1>2, <1>3, <1>5, <1>6

\* What an application does to its session between two calls.
LEMMA Tuning ==
    ASSUME NEW e \in Endpoints, Configure(e)
    PROVE  /\ call[e] = "idle"
           /\ UNCHANGED <<conf, rx, gave_up, out, queued, popped, tx_nonce, rx_nonce, inbox, todo, faults>>
           /\ UNCHANGED <<call, pc, left, result, settled>>
           /\ \/ drop_data' = drop_data
              \/ e = "initiator" /\ drop_data' = [drop_data EXCEPT ![e] = conf.drops]
           /\ \/ tx' = tx
              \/ \E d \in RetxValues : d \in conf.retx /\ tx' = [tx EXCEPT ![e] = set_retx(@, d)]
<1>1. CASE \E d \in RetxValues : SetRetxTimeout(e, d)
  BY <1>1 DEF SetRetxTimeout, noiseVars, loopVars
<1>2. CASE DebugDropData(e)
  BY <1>2 DEF DebugDropData, arqVars, noiseVars, loopVars
<1>3. CASE \E on \in BOOLEAN : SetCover(e, on)
  BY <1>3 DEF SetCover, arqVars, noiseVars, loopVars
<1> QED
  BY <1>1, <1>2, <1>3 DEF Configure

\* Only e moves, its Arq stays as it is and hands out nothing.
LEMMA FlowsRest ==
    ASSUME UNCHANGED arqVars, NEW e \in Endpoints
    PROVE  FlowNext(e, Peer(e)) /\ FlowNext(Peer(e), e)
  BY NothingOut DEF arqVars, FlowNext, FlowVars

\* A step of endpoint e is a step of the flow it sends and of the flow it
\* receives.
LEMMA FlowsOfTurn ==
    ASSUME Shape, LoopInv, NEW e \in Endpoints, Ledger(e), Waits(e), Turn(e)
    PROVE  FlowNext(e, Peer(e)) /\ FlowNext(Peer(e), e)
<1>0. Peer(e) \in Endpoints /\ Peer(e) # e /\ Peer(Peer(e)) = e
  BY PeerFacts
<1>1. CASE PopMessage(e)
  <2>1. UNCHANGED <<tx, out, gave_up, queued>>
    BY <1>1 DEF PopMessage
  <2>2. rx[e].delivered # << >>
    BY <1>1 DEF PopMessage, LoopInv
  <2>3. /\ rx'[e] = pop_delivered(rx[e]) /\ rx'[Peer(e)] = rx[Peer(e)]
        /\ popped'[e] = Append(popped[e], Head(rx[e].delivered)) /\ popped'[Peer(e)] = popped[Peer(e)]
    BY <1>0, <1>1 DEF PopMessage, Shape
  <2>4. FlowPop(Peer(e), e)
    BY <2>1, <2>2, <2>3, NothingOut DEF FlowPop
  <2>5. UNCHANGED FlowVars(e, Peer(e))
    BY <2>1, <2>3, NothingOut DEF FlowVars
  <2> QED
    BY <2>4, <2>5 DEF FlowNext
<1>2. ASSUME NEW n, NEW datagrams, Put(e, InOrder(tx[e], NewSends(tx[e])), n, datagrams),
             tx' = [tx EXCEPT ![e] = take_new_sends(@)],
             UNCHANGED <<rx, gave_up, queued, popped>>
      PROVE  FlowNext(e, Peer(e)) /\ FlowNext(Peer(e), e)
  <2>1. PICK S \in SUBSET DOMAIN tx[e].unacked : S = NewSends(tx[e])
    BY DEF NewSends, Unsent
  <2>2. /\ FlowWire(e, Peer(e))' = FlowWire(e, Peer(e)) \cup {tx[e].unacked[i].plaintext : i \in S}
        /\ FlowWire(Peer(e), e)' = FlowWire(Peer(e), e)
    BY <1>2, <2>1, HandedOut
  <2>3. tx'[e] = take_new_sends(tx[e]) /\ tx'[Peer(e)] = tx[Peer(e)]
    BY <1>0, <1>2 DEF Shape
  <2>4. FlowNewSends(e, Peer(e))
    BY <1>2, <2>1, <2>2, <2>3 DEF FlowNewSends
  <2>5. UNCHANGED FlowVars(Peer(e), e)
    BY <1>2, <2>2, <2>3 DEF FlowVars
  <2> QED
    BY <2>4, <2>5 DEF FlowNext
<1>3. CASE FlushNew(e)
  BY <1>2, <1>3 DEF FlushNew, SendAll
<1>4. CASE FlushNewFails(e)
  BY <1>2, <1>4 DEF FlushNewFails, SendStops
<1>5. ASSUME NEW n, NEW datagrams, Put(e, InOrder(tx[e], Retransmits(tx[e])), n, datagrams),
             Exhausted(tx[e]) = {}, tx' = [tx EXCEPT ![e] = take_retransmits(@)],
             UNCHANGED <<rx, gave_up, queued, popped>>
      PROVE  FlowNext(e, Peer(e)) /\ FlowNext(Peer(e), e)
  <2>1. PICK S \in SUBSET DOMAIN tx[e].unacked : S = Retransmits(tx[e])
    BY DEF Retransmits, Due, Sent
  <2>2. /\ FlowWire(e, Peer(e))' = FlowWire(e, Peer(e)) \cup {tx[e].unacked[i].plaintext : i \in S}
        /\ FlowWire(Peer(e), e)' = FlowWire(Peer(e), e)
    BY <1>5, <2>1, HandedOut
  <2>3. tx'[e] = take_retransmits(tx[e]) /\ tx'[Peer(e)] = tx[Peer(e)]
    BY <1>0, <1>5 DEF Shape
  <2>4. FlowRetransmits(e, Peer(e))
    BY <1>5, <2>1, <2>2, <2>3 DEF FlowRetransmits
  <2>5. UNCHANGED FlowVars(Peer(e), e)
    BY <1>5, <2>2, <2>3 DEF FlowVars
  <2> QED
    BY <2>4, <2>5 DEF FlowNext
<1>6. CASE FlushRetx(e)
  BY <1>5, <1>6 DEF FlushRetx, SendAll
<1>7. CASE FlushRetxFails(e)
  BY <1>5, <1>7 DEF FlushRetxFails, SendStops
<1>8. CASE CoverFails(e)
  BY <1>5, <1>8 DEF CoverFails, SendAll
<1>9. CASE FlushGiveUp(e)
  <2>1. UNCHANGED <<rx, out, queued, popped>>
    BY <1>9 DEF FlushGiveUp
  <2>2. tx'[e] = take_retransmits(tx[e]) /\ tx'[Peer(e)] = tx[Peer(e)]
    BY <1>0, <1>9 DEF FlushGiveUp, Shape
  <2>3. PICK g \in Exhausted(tx[e]) : /\ \A t \in Exhausted(tx[e]) : g <= t
                                      /\ gave_up' = [gave_up EXCEPT ![e] = g]
    BY <1>9 DEF FlushGiveUp
  <2>4. gave_up'[e] = g /\ gave_up'[Peer(e)] = gave_up[Peer(e)]
    BY <1>0, <2>3 DEF Shape
  <2>5. FlowGiveUp(e, Peer(e))
    BY <2>1, <2>2, <2>3, <2>4, NothingOut DEF FlowGiveUp
  <2>6. UNCHANGED FlowVars(Peer(e), e)
    BY <2>1, <2>2, <2>4, NothingOut DEF FlowVars
  <2> QED
    BY <2>5, <2>6 DEF FlowNext
<1>10. CASE ReadAck(e)
  <2>1. UNCHANGED <<rx, out, gave_up, queued, popped>>
    BY <1>10 DEF ReadAck
  <2>2. PICK f : f = Head(inbox[e]).frame
    OBVIOUS
  <2>3. f \in out[Peer(e)] /\ f.kind = "ack"
    BY <1>10, <2>2, OpenedWasSealed DEF ReadAck, Reading
  <2>4. tx'[e] = on_ack(tx[e], f.base, f.bitmap) /\ tx'[Peer(e)] = tx[Peer(e)]
    BY <1>0, <1>10, <2>2 DEF ReadAck, Shape
  <2>5. f \in FlowWire(e, Peer(e))
    BY <2>3 DEF FlowWire, Frames
  <2>6. FlowAck(e, Peer(e))
    BY <2>1, <2>3, <2>4, <2>5, NothingOut DEF FlowAck
  <2>7. UNCHANGED FlowVars(Peer(e), e)
    BY <2>1, <2>4, NothingOut DEF FlowVars
  <2> QED
    BY <2>6, <2>7 DEF FlowNext
<1>11. ASSUME NEW reply, Ingest(e, Ingested(e), reply)
       PROVE  FlowNext(e, Peer(e)) /\ FlowNext(Peer(e), e)
  <2>1. UNCHANGED <<tx, gave_up, queued, popped>>
    BY <1>11 DEF Ingest
  <2>2. PICK f : f = Head(inbox[e]).frame
    OBVIOUS
  <2>3. f \in out[Peer(e)] /\ f.kind = "data"
    BY <1>11, <2>2, OpenedWasSealed DEF Ingest, Reading
  <2>4. PICK r : r = [on_data(rx[e], f) EXCEPT !.pending_ack = TRUE]
    OBVIOUS
  <2>5. /\ rx'[e] = r /\ rx'[Peer(e)] = rx[Peer(e)]
        /\ out'[e] = out[e] \cup {CurrentAck(r)} /\ out'[Peer(e)] = out[Peer(e)]
    BY <1>0, <1>11, <2>2, <2>4 DEF Ingest, Ingested, Shape
  <2>6. CurrentAck(r).kind = "ack"
    BY DEF CurrentAck, encode_ack
  <2>7. /\ Frames(e, "data")' = Frames(e, "data")
        /\ Frames(e, "ack")' = Frames(e, "ack") \cup {CurrentAck(r)}
        /\ \A k : Frames(Peer(e), k)' = Frames(Peer(e), k)
    BY <2>5, <2>6 DEF Frames
  <2>8. f \in FlowWire(Peer(e), e)
    BY <2>3 DEF FlowWire, Frames
  <2>9. FlowData(Peer(e), e)
    <3>1. FlowWire(Peer(e), e)' = FlowWire(Peer(e), e) \cup {CurrentAck(rx[e]')}
      BY <2>5, <2>7 DEF FlowWire
    <3> QED
      BY <3>1, <2>1, <2>3, <2>4, <2>5, <2>8 DEF FlowData
  <2>10. UNCHANGED FlowVars(e, Peer(e))
    BY <2>1, <2>5, <2>7 DEF FlowVars, FlowWire
  <2> QED
    BY <2>9, <2>10 DEF FlowNext
<1>12. CASE ReadData(e)
  BY <1>11, <1>12 DEF ReadData
<1>13. CASE AckFails(e)
  BY <1>11, <1>13 DEF AckFails
<1>14. CASE ReadIgnored(e)
  BY <1>14, FlowsRest DEF ReadIgnored
<1>15. CASE ReadUnexpected(e) \/ ReadFails(e)
  BY <1>15, FlowsRest DEF ReadUnexpected, ReadFails
<1> QED
  BY <1>1, <1>3, <1>4, <1>6, <1>7, <1>8, <1>9, <1>10, <1>12, <1>13, <1>14, <1>15 DEF Turn

-----------------------------------------------------------------------------
(***************************************************************************)
(* Shapes and places.                                                      *)
(***************************************************************************)

\* seal_data: as many datagrams as frames, less those that are dropped.
LEMMA SealAllFacts ==
    ASSUME Shape, NEW e \in Endpoints, NEW F, NEW frames \in Seq(F)
    PROVE  /\ Len(SealAll(e, frames)) \in 0 .. Len(frames)
           /\ Len(frames) - Len(SealAll(e, frames)) \in 0 .. drop_data[e]
           /\ DOMAIN SealAll(e, frames) = 1 .. Len(SealAll(e, frames))
           /\ \A i \in 1 .. Len(SealAll(e, frames)) :
                \E f \in {frames[j] : j \in DOMAIN frames} :
                    SealAll(e, frames)[i] = Sealed(tx_nonce[e] + i - 1, f)
<1> DEFINE dropped == IF drop_data[e] < Len(frames) THEN drop_data[e] ELSE Len(frames)
           m == Len(frames) - dropped
           sealed == [i \in 1 .. m |-> Sealed(tx_nonce[e] + i - 1, frames[dropped + i])]
<1>1. drop_data[e] \in Nat /\ tx_nonce[e] \in Nat
  BY DEF Shape
<1>2. Len(frames) \in Nat /\ DOMAIN frames = 1 .. Len(frames)
  BY LenProperties
<1>3. dropped \in 0 .. Len(frames) /\ dropped <= drop_data[e] /\ m \in 0 .. Len(frames)
  BY <1>1, <1>2
<1>4. SealAll(e, frames) = sealed
  BY DEF SealAll
<1>5. DOMAIN sealed = 1 .. m
  OBVIOUS
<1>6. Len(sealed) = m
  <2> HIDE DEF m, sealed
  <2> QED
    BY <1>2, <1>3, <1>5
<1>7. \A i \in 1 .. m : dropped + i \in DOMAIN frames
  BY <1>2, <1>3
<1>8. \A i \in 1 .. m : \E f \in {frames[j] : j \in DOMAIN frames} : sealed[i] = Sealed(tx_nonce[e] + i - 1, f)
  BY <1>7
<1>9. Len(frames) - m \in 0 .. drop_data[e]
  BY <1>1, <1>2, <1>3
<1> HIDE DEF m, sealed
<1> QED
  BY <1>3, <1>4, <1>5, <1>6, <1>8, <1>9

\* What flush puts on its way: the datagrams of the counters it used.
Flushed(e, frames, n) ==
    {Cover} \cup {SealAll(e, frames)[i] : i \in 1 .. n}

\* A flush leaves the counters and queues well formed.
LEMMA PutShape ==
    ASSUME Shape, NEW e \in Endpoints, NEW F, NEW frames \in Seq(F),
           NEW n \in 0 .. Len(SealAll(e, frames)), NEW datagrams, Put(e, frames, n, datagrams)
    PROVE  /\ tx_nonce' \in [Endpoints -> Nat] /\ drop_data' \in [Endpoints -> Nat]
           /\ DOMAIN inbox' = Endpoints /\ DOMAIN out' = Endpoints
           /\ tx_nonce'[e] = tx_nonce[e] + n /\ tx_nonce'[Peer(e)] = tx_nonce[Peer(e)]
           /\ inbox'[e] = inbox[e] /\ inbox'[Peer(e)] = inbox[Peer(e)] \o datagrams
           /\ out'[e] = out[e] \cup {frames[i] : i \in DOMAIN frames} /\ out'[Peer(e)] = out[Peer(e)]
<1>1. Peer(e) \in Endpoints /\ Peer(e) # e
  BY PeerFacts
<1>2. Len(frames) \in Nat
  BY LenProperties
<1>3. /\ Len(SealAll(e, frames)) \in 0 .. Len(frames)
      /\ Len(frames) - Len(SealAll(e, frames)) \in 0 .. drop_data[e]
  BY SealAllFacts
<1>4. tx_nonce[e] \in Nat /\ drop_data[e] \in Nat /\ n \in Nat
  BY <1>2, <1>3 DEF Shape
<1>5. drop_data[e] - (Len(frames) - Len(SealAll(e, frames))) \in Nat
  BY <1>2, <1>3, <1>4
<1>6. tx_nonce' = [tx_nonce EXCEPT ![e] = @ + n] /\ tx_nonce[e] + n \in Nat
  BY <1>4 DEF Put
<1>7. drop_data' = [drop_data EXCEPT ![e] = @ - (Len(frames) - Len(SealAll(e, frames)))]
  BY DEF Put
<1>8. /\ inbox' = [inbox EXCEPT ![Peer(e)] = @ \o datagrams]
      /\ out' = [out EXCEPT ![e] = @ \cup {frames[i] : i \in DOMAIN frames}]
  BY DEF Put
<1>9. tx_nonce' \in [Endpoints -> Nat] /\ tx_nonce'[e] = tx_nonce[e] + n /\ tx_nonce'[Peer(e)] = tx_nonce[Peer(e)]
  BY <1>1, <1>6 DEF Shape
<1>10. drop_data' \in [Endpoints -> Nat]
  BY <1>5, <1>7 DEF Shape
<1>11. /\ DOMAIN inbox' = Endpoints
       /\ inbox'[e] = inbox[e] /\ inbox'[Peer(e)] = inbox[Peer(e)] \o datagrams
  BY <1>1, <1>8 DEF Shape
<1>12. /\ DOMAIN out' = Endpoints
       /\ out'[e] = out[e] \cup {frames[i] : i \in DOMAIN frames} /\ out'[Peer(e)] = out[Peer(e)]
  BY <1>1, <1>8 DEF Shape
<1> QED
  BY <1>9, <1>10, <1>11, <1>12

\* What was sealed under a counter stays what it was, and the counters that
\* were used now get an entry each.
LEMMA PutLedger ==
    ASSUME Shape, NEW e \in Endpoints, NEW F, NEW frames \in Seq(F),
           NEW n \in 0 .. Len(SealAll(e, frames)), NEW datagrams \in Seq(Flushed(e, frames, n)),
           Put(e, frames, n, datagrams), UNCHANGED rx_nonce, Ledger(e), Ledger(Peer(e))
    PROVE  Ledger(e)' /\ Ledger(Peer(e))'
<1>1. Peer(e) \in Endpoints /\ Peer(e) # e /\ Peer(Peer(e)) = e
  BY PeerFacts
<1>2. PICK p \in Endpoints : p = Peer(e) /\ Peer(p) = e
  BY <1>1
<1>a. /\ tx_nonce'[e] = tx_nonce[e] + n /\ tx_nonce'[Peer(e)] = tx_nonce[Peer(e)]
      /\ inbox'[e] = inbox[e] /\ inbox'[Peer(e)] = inbox[Peer(e)] \o datagrams
      /\ out'[e] = out[e] \cup {frames[i] : i \in DOMAIN frames} /\ out'[Peer(e)] = out[Peer(e)]
  BY PutShape
<1>3. /\ tx_nonce'[e] = tx_nonce[e] + n /\ tx_nonce'[p] = tx_nonce[p]
      /\ inbox'[e] = inbox[e] /\ inbox'[p] = inbox[p] \o datagrams
      /\ out'[e] = out[e] \cup {frames[i] : i \in DOMAIN frames} /\ out'[p] = out[p]
  BY <1>2, <1>a
<1>4. Ledger(e)'
  <2>1. PICK L : /\ \A k \in 0 .. (tx_nonce[p] - 1) : L[k] \in out[p]
                 /\ inbox[e] \in Seq(Written(e, L))
    BY <1>2 DEF Ledger
  <2>2. Written(e, L)' = Written(e, L)
    BY <1>2, <1>3 DEF Written
  <2>3. inbox'[e] \in Seq(Written(e, L)') /\ \A k \in 0 .. (tx_nonce'[p] - 1) : L[k] \in out'[p]
    BY <1>3, <2>1, <2>2
  <2>4. rx_nonce'[e] <= tx_nonce'[p]
    BY <1>2, <1>3 DEF Ledger
  <2> QED
    BY <1>2, <2>3, <2>4 DEF Ledger
<1>5. Ledger(p)'
  <2>1. PICK L : /\ \A k \in 0 .. (tx_nonce[e] - 1) : L[k] \in out[e]
                 /\ inbox[p] \in Seq(Written(p, L))
    BY <1>2 DEF Ledger
  <2>2. PICK sealed : sealed = SealAll(e, frames)
    OBVIOUS
  <2>3. PICK c : c = tx_nonce[e]
    OBVIOUS
  <2>4. c \in Nat /\ n \in Nat /\ n <= Len(sealed) /\ Len(sealed) \in Nat
    <3>1. Len(sealed) \in 0 .. Len(frames)
      BY <2>2, SealAllFacts
    <3>2. Len(frames) \in Nat
      BY LenProperties
    <3>3. n \in 0 .. Len(sealed)
      BY <2>2
    <3>4. c \in Nat
      BY <2>3 DEF Shape
    <3> QED
      BY <3>1, <3>2, <3>3, <3>4
  <2>5. \A i \in 1 .. Len(sealed) :
            \E f \in {frames[j] : j \in DOMAIN frames} : sealed[i] = Sealed(c + i - 1, f)
    <3>1. \A i \in 1 .. Len(SealAll(e, frames)) :
            \E f \in {frames[j] : j \in DOMAIN frames} :
                SealAll(e, frames)[i] = Sealed(tx_nonce[e] + i - 1, f)
      BY SealAllFacts
    <3> QED
      BY <3>1, <2>2, <2>3
  <2>6. \A i \in 1 .. Len(sealed) :
            /\ sealed[i].frame \in {frames[j] : j \in DOMAIN frames}
            /\ sealed[i] = Sealed(c + i - 1, sealed[i].frame)
    <3> SUFFICES ASSUME NEW i \in 1 .. Len(sealed)
                 PROVE  /\ sealed[i].frame \in {frames[j] : j \in DOMAIN frames}
                        /\ sealed[i] = Sealed(c + i - 1, sealed[i].frame)
      OBVIOUS
    <3>1. PICK f \in {frames[j] : j \in DOMAIN frames} : sealed[i] = Sealed(c + i - 1, f)
      BY <2>5
    <3>2. sealed[i].frame = f
      BY <3>1 DEF Sealed
    <3> QED
      BY <3>1, <3>2
  <2>7. PICK M : M = [k \in 0 .. (c + n - 1) |-> IF k < c THEN L[k] ELSE sealed[k - c + 1].frame]
    OBVIOUS
  <2>8. \A k \in 0 .. (c - 1) : M[k] = L[k]
    BY <2>4, <2>7
  <2>9. \A i \in 1 .. n : M[c + i - 1] = sealed[i].frame
    <3> SUFFICES ASSUME NEW i \in 1 .. n PROVE M[c + i - 1] = sealed[i].frame
      OBVIOUS
    <3>1. c + i - 1 \in 0 .. (c + n - 1) /\ ~ (c + i - 1 < c) /\ (c + i - 1) - c + 1 = i
      BY <2>4
    <3> QED
      BY <3>1, <2>7
  <2>10. \A k \in 0 .. (c + n - 1) : k \in 0 .. (c - 1) \/ \E i \in 1 .. n : k = c + i - 1
    <3> SUFFICES ASSUME NEW k \in 0 .. (c + n - 1), k \notin 0 .. (c - 1)
                 PROVE  \E i \in 1 .. n : k = c + i - 1
      OBVIOUS
    <3>1. k - c + 1 \in 1 .. n /\ k = c + (k - c + 1) - 1
      BY <2>4
    <3> QED
      BY <3>1
  <2>b. PICK m \in Nat : m = c + n
    BY <2>4
  <2>a. tx_nonce'[e] = m /\ tx_nonce'[Peer(p)] = m
    BY <1>2, <1>3, <2>3, <2>b
  <2>11. \A k \in 0 .. (tx_nonce'[e] - 1) : M[k] \in out'[e]
    <3> SUFFICES ASSUME NEW k \in 0 .. (m - 1) PROVE M[k] \in out'[e]
      BY <2>a
    <3>1. CASE k \in 0 .. (c - 1)
      BY <3>1, <2>8, <2>1, <2>3, <1>3
    <3>2. ASSUME NEW i \in 1 .. n, k = c + i - 1 PROVE M[k] \in out'[e]
      <4>1. i \in 1 .. Len(sealed)
        BY <2>4
      <4> QED
        BY <4>1, <3>2, <2>9, <2>6, <1>3
    <3> QED
      <4>1. k \in 0 .. (c - 1) \/ \E i \in 1 .. n : k = c + i - 1
        <5>1. k \in 0 .. (c + n - 1)
          BY <2>4, <2>b
        <5> QED
          BY <5>1, <2>10
      <4> QED
        BY <3>1, <3>2, <4>1
  <2>12. Written(p, M)' = {Handshake, Cover} \cup {Sealed(k, M[k]) : k \in 0 .. (m - 1)}
    BY <2>a DEF Written
  <2>13. Written(p, L) = {Handshake, Cover} \cup {Sealed(k, L[k]) : k \in 0 .. (c - 1)}
    BY <1>2, <2>3 DEF Written
  <2>14. 0 .. (c - 1) \subseteq 0 .. (m - 1)
    BY <2>4, <2>b
  <2>15. Written(p, L) \subseteq Written(p, M)'
    BY <2>8, <2>12, <2>13, <2>14
  <2>16. Flushed(e, frames, n) \subseteq Written(p, M)'
    <3>1. ASSUME NEW i \in 1 .. n PROVE sealed[i] \in Written(p, M)'
      <4>1. i \in 1 .. Len(sealed) /\ c + i - 1 \in 0 .. (m - 1)
        BY <2>4, <2>b
      <4>2. sealed[i] = Sealed(c + i - 1, M[c + i - 1])
        BY <4>1, <2>6, <2>9
      <4> QED
        BY <4>1, <4>2, <2>12
    <3>2. Cover \in Written(p, M)'
      BY <2>12
    <3> QED
      BY <3>1, <3>2, <2>2 DEF Flushed
  <2>17. inbox'[p] \in Seq(Written(p, M)')
    <3>0. PICK W : W = Written(p, M)'
      OBVIOUS
    <3>1. inbox[p] \in Seq(W) /\ datagrams \in Seq(W)
      BY <3>0, <2>1, <2>15, <2>16, SeqLarger
    <3>2. inbox[p] \o datagrams \in Seq(W)
      BY <3>1, ConcatProperties
    <3> QED
      BY <3>0, <3>2, <1>3
  <2>18. rx_nonce'[p] <= tx_nonce'[e]
    <3>1. rx_nonce[p] \in Nat /\ rx_nonce[p] <= c
      BY <1>2, <2>3 DEF Ledger, Shape
    <3> QED
      BY <3>1, <2>3, <2>4, <1>3
  <2> QED
    BY <1>2, <2>11, <2>17, <2>18 DEF Ledger
<1> QED
  BY <1>2, <1>4, <1>5

\* A flush that sends everything has used one counter for every datagram.
LEMMA SendAllPuts ==
    ASSUME Shape, NEW e \in Endpoints, NEW F, NEW frames \in Seq(F),
           NEW extra \in {<< >>, <<Cover>>}, SendAll(e, frames, extra)
    PROVE  \E n \in 0 .. Len(SealAll(e, frames)) :
              \E datagrams \in Seq(Flushed(e, frames, n)) : Put(e, frames, n, datagrams)
<1>1. PICK sealed : sealed = SealAll(e, frames)
  OBVIOUS
<1>2. Len(SealAll(e, frames)) \in 0 .. Len(frames) /\ DOMAIN SealAll(e, frames) = 1 .. Len(SealAll(e, frames))
  BY SealAllFacts
<1>3. PICK n : n = Len(sealed)
  OBVIOUS
<1>4. n \in Nat /\ DOMAIN sealed = 1 .. n /\ n \in 0 .. Len(SealAll(e, frames))
  <2>1. Len(frames) \in Nat
    BY LenProperties
  <2> QED
    BY <2>1, <1>1, <1>2, <1>3
<1>5. PICK W : W = Flushed(e, frames, n)
  OBVIOUS
<1>6. sealed \in Seq(W)
  <2>1. \A i \in 1 .. n : sealed[i] \in W
    BY <1>1, <1>5 DEF Flushed
  <2>2. sealed = [i \in 1 .. n |-> sealed[i]]
    BY <1>1, <1>4 DEF SealAll
  <2>3. sealed \in [1 .. n -> W]
    BY <2>1, <2>2
  <2> QED
    BY <2>3, <1>4
<1>7. extra \in Seq(W)
  <2>1. Cover \in W
    BY <1>5 DEF Flushed
  <2>2. << >> \in Seq(W)
    BY EmptySeq
  <2>3. <<Cover>> \in Seq(W)
    <3>1. PICK c \in W : c = Cover
      BY <2>1
    <3>2. <<c>> \in Seq(W)
      OBVIOUS
    <3> QED
      BY <3>1, <3>2
  <2> QED
    BY <2>2, <2>3
<1>8. sealed \o extra \in Seq(W)
  BY <1>6, <1>7, ConcatProperties
<1>9. Put(e, frames, n, sealed \o extra)
  BY <1>1, <1>3 DEF SendAll
<1> QED
  BY <1>4, <1>5, <1>8, <1>9

\* A flush that stops at a send has used a counter for that send too.
LEMMA SendStopsPuts ==
    ASSUME Shape, NEW e \in Endpoints, NEW F, NEW frames \in Seq(F), SendStops(e, frames)
    PROVE  \E n \in 0 .. Len(SealAll(e, frames)) :
              \E datagrams \in Seq(Flushed(e, frames, n)) : Put(e, frames, n, datagrams)
<1>1. PICK sealed : sealed = SealAll(e, frames)
  OBVIOUS
<1>2. Len(SealAll(e, frames)) \in 0 .. Len(frames) /\ DOMAIN SealAll(e, frames) = 1 .. Len(SealAll(e, frames))
  BY SealAllFacts
<1>3. PICK k \in DOMAIN sealed : Put(e, frames, k, SubSeq(sealed, 1, k - 1))
  BY <1>1 DEF SendStops
<1>4. k \in 0 .. Len(SealAll(e, frames)) /\ k \in Nat
  <2>1. Len(frames) \in Nat
    BY LenProperties
  <2> QED
    BY <2>1, <1>1, <1>2
<1>5. PICK W : W = Flushed(e, frames, k)
  OBVIOUS
<1>6. \A i \in 1 .. (k - 1) : sealed[i] \in W
  BY <1>1, <1>4, <1>5 DEF Flushed
<1>7. SubSeq(sealed, 1, k - 1) \in Seq(W)
  BY <1>4, <1>6, SubSeqProperties
<1> QED
  BY <1>3, <1>4, <1>5, <1>7

\* What the Arq hands out is a list of frames.
LEMMA FramesAreListed ==
    ASSUME NEW e, Waits(e), NEW S \in SUBSET DOMAIN tx[e].unacked
    PROVE  \E F : InOrder(tx[e], S) \in Seq(F)
<1>1. S \in SUBSET Seqs
  BY DEF Waits
<1>2. PICK t : t = tx[e]
  OBVIOUS
<1>3. InOrder(t, S) \in Seq({t.unacked[s].plaintext : s \in S})
  BY <1>1, InOrderFacts
<1> QED
  BY <1>2, <1>3

\* The call returns.
LEMMA ReturnLoop ==
    ASSUME Shape, LoopInv, NEW e \in Endpoints, NEW how \in Outcomes, Return(e, how),
           UNCHANGED conf, \A x \in Endpoints : x # e => rx'[x] = rx[x]
    PROVE  LoopInv' /\ DOMAIN settled' = Endpoints
<1>1. /\ call' = [call EXCEPT ![e] = "idle"] /\ pc' = [pc EXCEPT ![e] = "out"]
      /\ left' = [left EXCEPT ![e] = 0] /\ result' = [result EXCEPT ![e] = how]
      /\ settled' = [settled EXCEPT ![e] = IF how = "send ok" THEN Len(queued[e]) ELSE @]
  BY DEF Return
<1>2. call' \in [Endpoints -> Calls] /\ pc' \in [Endpoints -> Places] /\ result' \in [Endpoints -> Outcomes]
  BY <1>1 DEF LoopInv, Calls, Places
<1>3. left' \in [Endpoints -> 0 .. (conf'.send_timeout + conf'.recv_timeout)]
  <2>1. 0 \in 0 .. (conf.send_timeout + conf.recv_timeout)
    BY DEF Shape, Scenario
  <2> QED
    BY <1>1, <2>1 DEF LoopInv
<1>4. \A x \in Endpoints :
        /\ call'[x] = "idle" <=> pc'[x] = "out"
        /\ pc'[x] = "pop" => rx'[x].delivered # << >>
  <2> SUFFICES ASSUME NEW x \in Endpoints
               PROVE  /\ call'[x] = "idle" <=> pc'[x] = "out"
                      /\ pc'[x] = "pop" => rx'[x].delivered # << >>
    OBVIOUS
  <2>1. CASE x = e
    BY <1>1, <2>1 DEF LoopInv
  <2>2. CASE x # e
    BY <1>1, <2>2 DEF LoopInv
  <2> QED
    BY <2>1, <2>2
<1> QED
  BY <1>1, <1>2, <1>3, <1>4 DEF LoopInv, Shape

\* The call goes on.
LEMMA GotoLoop ==
    ASSUME Shape, LoopInv, NEW e \in Endpoints, NEW where \in Places \ {"out"}, Goto(e, where),
           pc[e] # "out", where = "pop" => rx'[e].delivered # << >>,
           UNCHANGED conf, \A x \in Endpoints : x # e => rx'[x] = rx[x]
    PROVE  LoopInv' /\ DOMAIN settled' = Endpoints
<1>1. pc' = [pc EXCEPT ![e] = where] /\ UNCHANGED <<call, left, result, settled>>
  BY DEF Goto
<1>2. call' \in [Endpoints -> Calls] /\ pc' \in [Endpoints -> Places] /\ result' \in [Endpoints -> Outcomes]
  BY <1>1 DEF LoopInv
<1>3. left' \in [Endpoints -> 0 .. (conf'.send_timeout + conf'.recv_timeout)]
  BY <1>1 DEF LoopInv
<1>4. \A x \in Endpoints :
        /\ call'[x] = "idle" <=> pc'[x] = "out"
        /\ pc'[x] = "pop" => rx'[x].delivered # << >>
  <2> SUFFICES ASSUME NEW x \in Endpoints
               PROVE  /\ call'[x] = "idle" <=> pc'[x] = "out"
                      /\ pc'[x] = "pop" => rx'[x].delivered # << >>
    OBVIOUS
  <2>1. CASE x = e
    BY <1>1, <2>1 DEF LoopInv
  <2>2. CASE x # e
    BY <1>1, <2>2 DEF LoopInv
  <2> QED
    BY <2>1, <2>2
<1> QED
  BY <1>1, <1>2, <1>3, <1>4 DEF LoopInv, Shape

\* The loop of a turn ends somewhere.
LEMMA TurnLoop ==
    ASSUME Shape, LoopInv, NEW e \in Endpoints, Turn(e)
    PROVE  LoopInv' /\ DOMAIN settled' = Endpoints
<1> USE DEF Outcomes, Places
<1>0. e \in DOMAIN rx
  BY DEF Shape
<1>1. CASE PopMessage(e)
  <2>1. Return(e, "recv ok") /\ UNCHANGED conf /\ \A x \in Endpoints : x # e => rx'[x] = rx[x]
    BY <1>0, <1>1 DEF PopMessage, Shape
  <2> QED
    BY <2>1, ReturnLoop
<1>2. CASE FlushNew(e)
  <2>1. Goto(e, "retx") /\ pc[e] = "new" /\ UNCHANGED <<conf, rx>>
    BY <1>2 DEF FlushNew
  <2> QED
    BY <2>1, GotoLoop
<1>3. CASE FlushNewFails(e)
  <2>1. Return(e, "not sent") /\ UNCHANGED <<conf, rx>>
    BY <1>3 DEF FlushNewFails
  <2> QED
    BY <2>1, ReturnLoop
<1>4. CASE FlushRetx(e)
  <2>1. pc[e] = "retx" /\ UNCHANGED <<conf, rx>>
    BY <1>4 DEF FlushRetx
  <2>2. CASE Goto(e, "block")
    BY <2>1, <2>2, GotoLoop
  <2>3. ASSUME NEW how \in Outcomes, Return(e, how) PROVE LoopInv' /\ DOMAIN settled' = Endpoints
    BY <2>1, <2>3, ReturnLoop
  <2>4. Goto(e, "block") \/ \E how \in Outcomes : Return(e, how)
    BY <1>4 DEF FlushRetx
  <2> QED
    BY <2>2, <2>3, <2>4
<1>5. CASE FlushRetxFails(e)
  <2>1. Return(e, "not sent") /\ UNCHANGED <<conf, rx>>
    BY <1>5 DEF FlushRetxFails
  <2> QED
    BY <2>1, ReturnLoop
<1>6. CASE CoverFails(e)
  <2>1. Return(e, "not sent") /\ UNCHANGED <<conf, rx>>
    BY <1>6 DEF CoverFails
  <2> QED
    BY <2>1, ReturnLoop
<1>7. CASE FlushGiveUp(e)
  <2>1. Return(e, "give up") /\ UNCHANGED <<conf, rx>>
    BY <1>7 DEF FlushGiveUp
  <2> QED
    BY <2>1, ReturnLoop
<1>8. CASE ReadAck(e) \/ ReadIgnored(e)
  <2>1. Goto(e, LoopHead(e, rx[e])) /\ pc[e] = "block" /\ UNCHANGED <<conf, rx>>
    BY <1>8 DEF ReadAck, ReadIgnored, Reading, arqVars
  <2>2. PICK where : where = LoopHead(e, rx[e])
    OBVIOUS
  <2>3. where \in {"pop", "new"} /\ (where = "pop" => rx[e].delivered # << >>)
    BY <2>2 DEF LoopHead
  <2> QED
    BY <2>1, <2>2, <2>3, GotoLoop
<1>9. CASE ReadData(e)
  <2>1. PICK r : r = Ingested(e)
    OBVIOUS
  <2>2. /\ Goto(e, LoopHead(e, r)) /\ pc[e] = "block" /\ UNCHANGED conf
        /\ rx' = [rx EXCEPT ![e] = r]
    BY <1>9, <2>1 DEF ReadData, Ingest, Reading
  <2>3. rx'[e] = r /\ \A x \in Endpoints : x # e => rx'[x] = rx[x]
    BY <1>0, <2>2 DEF Shape
  <2>4. PICK where : where = LoopHead(e, r)
    OBVIOUS
  <2>5. where \in {"pop", "new"} /\ (where = "pop" => r.delivered # << >>)
    BY <2>4 DEF LoopHead
  <2> QED
    BY <2>2, <2>3, <2>4, <2>5, GotoLoop
<1>10. CASE AckFails(e)
  <2>1. Return(e, "not sent") /\ UNCHANGED conf /\ \A x \in Endpoints : x # e => rx'[x] = rx[x]
    BY <1>0, <1>10 DEF AckFails, Ingest, Shape
  <2> QED
    BY <2>1, ReturnLoop
<1>11. CASE ReadUnexpected(e) \/ ReadFails(e)
  <2>1. (Return(e, "unexpected type") \/ Return(e, "not read")) /\ UNCHANGED <<conf, rx>>
    BY <1>11 DEF ReadUnexpected, ReadFails, arqVars
  <2> QED
    BY <2>1, ReturnLoop
<1> QED
  BY <1>1, <1>2, <1>3, <1>4, <1>5, <1>6, <1>7, <1>8, <1>9, <1>10, <1>11 DEF Turn

\* The flushes of a turn, as far as the datagrams are concerned.
LEMMA TurnFlushes ==
    ASSUME Shape, NEW e \in Endpoints, Waits(e),
           \/ FlushNew(e) \/ FlushNewFails(e) \/ FlushRetx(e) \/ FlushRetxFails(e) \/ CoverFails(e)
    PROVE  /\ \E F : \E frames \in Seq(F) : \E n \in 0 .. Len(SealAll(e, frames)) :
                  \E datagrams \in Seq(Flushed(e, frames, n)) : Put(e, frames, n, datagrams)
           /\ UNCHANGED <<conf, rx, gave_up, queued, popped, rx_nonce>>
           /\ DOMAIN tx' = DOMAIN tx
<1>1. /\ UNCHANGED <<conf, rx, gave_up, queued, popped, rx_nonce>>
      /\ DOMAIN tx' = DOMAIN tx
  BY DEF FlushNew, FlushNewFails, FlushRetx, FlushRetxFails, CoverFails
<1>2. NewSends(tx[e]) \in SUBSET DOMAIN tx[e].unacked /\ Retransmits(tx[e]) \in SUBSET DOMAIN tx[e].unacked
  BY DEF NewSends, Unsent, Retransmits, Due, Sent
<1>3. PICK S \in SUBSET DOMAIN tx[e].unacked :
        \/ SendStops(e, InOrder(tx[e], S))
        \/ \E extra \in {<< >>, <<Cover>>} : SendAll(e, InOrder(tx[e], S), extra)
  <2>1. CASE FlushNew(e)
    BY <1>2, <2>1 DEF FlushNew
  <2>2. CASE FlushNewFails(e)
    BY <1>2, <2>2 DEF FlushNewFails
  <2>3. CASE FlushRetx(e)
    BY <1>2, <2>3 DEF FlushRetx
  <2>4. CASE FlushRetxFails(e)
    BY <1>2, <2>4 DEF FlushRetxFails
  <2>5. CASE CoverFails(e)
    BY <1>2, <2>5 DEF CoverFails
  <2> QED
    BY <2>1, <2>2, <2>3, <2>4, <2>5
<1>4. PICK F : InOrder(tx[e], S) \in Seq(F)
  BY FramesAreListed
<1>5. PICK frames \in Seq(F) : frames = InOrder(tx[e], S)
  BY <1>4
<1>6. \E n \in 0 .. Len(SealAll(e, frames)) :
          \E datagrams \in Seq(Flushed(e, frames, n)) : Put(e, frames, n, datagrams)
  <2>1. CASE SendStops(e, frames)
    BY <2>1, SendStopsPuts
  <2>2. ASSUME NEW extra \in {<< >>, <<Cover>>}, SendAll(e, frames, extra)
        PROVE  \E n \in 0 .. Len(SealAll(e, frames)) :
                  \E datagrams \in Seq(Flushed(e, frames, n)) : Put(e, frames, n, datagrams)
    BY <2>2, SendAllPuts
  <2> QED
    BY <1>3, <1>5, <2>1, <2>2
<1> QED
  BY <1>1, <1>6

-----------------------------------------------------------------------------
(***************************************************************************)
(* The ledgers.                                                            *)
(***************************************************************************)

\* A direction nothing happens to.
LEMMA LedgerRests ==
    ASSUME NEW e \in Endpoints, Ledger(e), inbox'[e] = inbox[e], rx_nonce'[e] = rx_nonce[e],
           tx_nonce'[Peer(e)] = tx_nonce[Peer(e)], out'[Peer(e)] = out[Peer(e)]
    PROVE  Ledger(e)'
<1>1. \A L : Written(e, L)' = Written(e, L)
  BY DEF Written
<1> QED
  BY <1>1 DEF Ledger

\* What is on its way to e is lost, read, repeated or reordered.
LEMMA LedgerMixed ==
    ASSUME NEW e \in Endpoints, Ledger(e), \A S : inbox[e] \in Seq(S) => inbox'[e] \in Seq(S),
           rx_nonce'[e] <= tx_nonce[Peer(e)],
           tx_nonce'[Peer(e)] = tx_nonce[Peer(e)], out'[Peer(e)] = out[Peer(e)]
    PROVE  Ledger(e)'
<1>1. \A L : Written(e, L)' = Written(e, L)
  BY DEF Written
<1>2. PICK L : /\ \A n \in 0 .. (tx_nonce[Peer(e)] - 1) : L[n] \in out[Peer(e)]
               /\ inbox[e] \in Seq(Written(e, L))
  BY DEF Ledger
<1>3. inbox'[e] \in Seq(Written(e, L)')
  BY <1>1, <1>2
<1>4. \A n \in 0 .. (tx_nonce'[Peer(e)] - 1) : L[n] \in out'[Peer(e)]
  BY <1>2
<1>5. rx_nonce'[e] <= tx_nonce'[Peer(e)]
  OBVIOUS
<1> QED
  BY <1>3, <1>4, <1>5 DEF Ledger

\* Endpoint e seals one more frame for its peer.
LEMMA LedgerGrows ==
    ASSUME Shape, NEW e \in Endpoints, NEW p \in Endpoints, Peer(p) = e, Ledger(p), NEW f,
           NEW reply \in {<< >>, <<Sealed(tx_nonce[e], f)>>},
           inbox'[p] = inbox[p] \o reply, rx_nonce'[p] = rx_nonce[p],
           tx_nonce'[e] = tx_nonce[e] + 1, out'[e] = out[e] \cup {f}
    PROVE  Ledger(p)'
<1>1. PICK L : /\ \A k \in 0 .. (tx_nonce[e] - 1) : L[k] \in out[e]
               /\ inbox[p] \in Seq(Written(p, L))
  BY DEF Ledger
<1>2. PICK c \in Nat : c = tx_nonce[e]
  BY DEF Shape
<1>3. PICK M : M = [k \in 0 .. c |-> IF k < c THEN L[k] ELSE f]
  OBVIOUS
<1>4. \A k \in 0 .. c : k \in 0 .. (c - 1) \/ k = c
  OBVIOUS
<1>5. M[c] = f /\ \A k \in 0 .. (c - 1) : k \in 0 .. c /\ M[k] = L[k]
  BY <1>3
<1>6. PICK m \in Nat : m = c + 1
  OBVIOUS
<1>7. tx_nonce'[e] = m /\ tx_nonce'[Peer(p)] = m /\ 0 .. (m - 1) = 0 .. c
  BY <1>2, <1>6
<1>8. \A k \in 0 .. (tx_nonce'[e] - 1) : M[k] \in out'[e]
  <2> SUFFICES ASSUME NEW k \in 0 .. c PROVE M[k] \in out'[e]
    BY <1>7
  <2>1. CASE k = c
    BY <2>1, <1>5
  <2>2. CASE k \in 0 .. (c - 1)
    BY <2>2, <1>5, <1>1, <1>2
  <2> QED
    BY <2>1, <2>2, <1>4
<1>9. Written(p, M)' = {Handshake, Cover} \cup {Sealed(k, M[k]) : k \in 0 .. c}
  <2>1. Written(p, M)' = {Handshake, Cover} \cup {Sealed(k, M[k]) : k \in 0 .. (m - 1)}
    BY <1>7 DEF Written
  <2> QED
    BY <2>1, <1>7
<1>10. Written(p, L) = {Handshake, Cover} \cup {Sealed(k, L[k]) : k \in 0 .. (c - 1)}
  BY <1>2 DEF Written
<1>11. Written(p, L) \subseteq Written(p, M)'
  BY <1>5, <1>9, <1>10
<1>12. PICK W : W = Written(p, M)'
  OBVIOUS
<1>13. Sealed(c, f) \in W
  <2>1. c \in 0 .. c
    OBVIOUS
  <2> QED
    BY <2>1, <1>5, <1>9, <1>12
<1>14. reply \in Seq(W)
  <2>1. PICK d \in W : d = Sealed(c, f)
    BY <1>13
  <2>2. <<d>> \in Seq(W) /\ << >> \in Seq(W)
    OBVIOUS
  <2>3. reply = << >> \/ reply = <<d>>
    BY <2>1, <1>2
  <2> QED
    BY <2>2, <2>3
<1>15. inbox'[p] \in Seq(W)
  <2>1. inbox[p] \in Seq(W)
    BY <1>1, <1>11, <1>12, SeqLarger
  <2>2. inbox[p] \o reply \in Seq(W)
    BY <2>1, <1>14, ConcatProperties
  <2> QED
    BY <2>2
<1>16. rx_nonce'[p] <= tx_nonce'[e]
  <2>1. rx_nonce[p] \in Nat /\ rx_nonce[p] <= c
    BY <1>2 DEF Ledger, Shape
  <2> QED
    BY <2>1, <1>6, <1>7
<1> QED
  BY <1>8, <1>12, <1>15, <1>16 DEF Ledger

\* A turn of e keeps both ledgers and the shapes.
LEMMA TurnLedgers ==
    ASSUME Shape, NEW e \in Endpoints, Waits(e), Ledger(e), Ledger(Peer(e)), Turn(e),
           DOMAIN settled' = Endpoints
    PROVE  Shape' /\ Ledger(e)' /\ Ledger(Peer(e))'
<1>0. PICK p \in Endpoints : p = Peer(e) /\ p # e /\ Peer(p) = e
  BY PeerFacts
<1>1. CASE \/ FlushNew(e) \/ FlushNewFails(e) \/ FlushRetx(e) \/ FlushRetxFails(e) \/ CoverFails(e)
  <2>1. PICK F : \E frames \in Seq(F) : \E n \in 0 .. Len(SealAll(e, frames)) :
                  \E datagrams \in Seq(Flushed(e, frames, n)) : Put(e, frames, n, datagrams)
    BY <1>1, TurnFlushes
  <2>2. PICK frames \in Seq(F) : \E n \in 0 .. Len(SealAll(e, frames)) :
                  \E datagrams \in Seq(Flushed(e, frames, n)) : Put(e, frames, n, datagrams)
    BY <2>1
  <2>3. PICK n \in 0 .. Len(SealAll(e, frames)) :
                  \E datagrams \in Seq(Flushed(e, frames, n)) : Put(e, frames, n, datagrams)
    BY <2>2
  <2>4. PICK datagrams \in Seq(Flushed(e, frames, n)) : Put(e, frames, n, datagrams)
    BY <2>3
  <2>5. /\ UNCHANGED <<conf, rx, gave_up, queued, popped, rx_nonce>>
        /\ DOMAIN tx' = DOMAIN tx
    BY <1>1, TurnFlushes
  <2>6. Ledger(e)' /\ Ledger(Peer(e))'
    BY <2>4, <2>5, PutLedger
  <2>7. /\ tx_nonce' \in [Endpoints -> Nat] /\ drop_data' \in [Endpoints -> Nat]
        /\ DOMAIN inbox' = Endpoints /\ DOMAIN out' = Endpoints
    BY <2>4, PutShape
  <2>8. Shape'
    BY <2>5, <2>7 DEF Shape
  <2> QED
    BY <2>6, <2>8
<1>2. CASE PopMessage(e) \/ FlushGiveUp(e) \/ ReadFails(e)
  <2>1. UNCHANGED <<conf, out, queued, tx_nonce, rx_nonce, drop_data, inbox>>
    BY <1>2 DEF PopMessage, FlushGiveUp, ReadFails, arqVars, noiseVars
  <2>2. /\ DOMAIN tx' = DOMAIN tx /\ DOMAIN rx' = DOMAIN rx /\ DOMAIN popped' = DOMAIN popped
        /\ DOMAIN gave_up' = DOMAIN gave_up
    BY <1>2 DEF PopMessage, FlushGiveUp, ReadFails, arqVars
  <2>3. Shape'
    BY <2>1, <2>2 DEF Shape
  <2>4. Ledger(e)' /\ Ledger(p)'
    BY <2>1, <1>0, LedgerRests
  <2> QED
    BY <2>3, <2>4, <1>0
<1>3. CASE ReadAck(e) \/ ReadIgnored(e) \/ ReadUnexpected(e)
  <2>1. /\ UNCHANGED <<conf, rx, out, gave_up, queued, popped, tx_nonce, drop_data>>
        /\ inbox' = [inbox EXCEPT ![e] = Tail(@)] /\ inbox[e] # << >>
        /\ DOMAIN tx' = DOMAIN tx
    BY <1>3 DEF ReadAck, ReadIgnored, ReadUnexpected, Reading, arqVars, noiseVars
  <2>2. /\ rx_nonce' \in [Endpoints -> Nat] /\ rx_nonce'[p] = rx_nonce[p]
        /\ rx_nonce'[e] <= tx_nonce[p]
    <3>1. CASE UNCHANGED rx_nonce
      BY <3>1, <1>0 DEF Shape, Ledger
    <3>2. CASE ReadAck(e)
      <4>1. rx_nonce' = [rx_nonce EXCEPT ![e] = rx_nonce[e] + 1] /\ rx_nonce[e] < tx_nonce[p]
        BY <3>2, <2>1, <1>0, OpenedWasSealed DEF ReadAck
      <4>2. rx_nonce[e] \in Nat /\ tx_nonce[p] \in Nat
        BY DEF Shape
      <4>3. rx_nonce[e] + 1 \in Nat /\ rx_nonce[e] + 1 <= tx_nonce[p]
        BY <4>1, <4>2
      <4> QED
        BY <4>1, <4>3, <1>0 DEF Shape
    <3> QED
      BY <1>3, <3>1, <3>2 DEF ReadIgnored, ReadUnexpected, noiseVars
  <2>3. Shape'
    BY <2>1, <2>2 DEF Shape
  <2>4. inbox'[e] = Tail(inbox[e]) /\ inbox'[p] = inbox[p]
    BY <2>1, <1>0 DEF Shape
  <2>5. Ledger(e)'
    <3>1. \A S : inbox[e] \in Seq(S) => inbox'[e] \in Seq(S)
      BY <2>1, <2>4, SeqRead
    <3> QED
      BY <3>1, <2>1, <2>2, <1>0, LedgerMixed
  <2>6. Ledger(p)'
    BY <2>1, <2>2, <2>4, <1>0, LedgerRests
  <2> QED
    BY <2>3, <2>5, <2>6, <1>0
<1>4. ASSUME NEW reply \in {<< >>, <<Sealed(tx_nonce[e], CurrentAck(Ingested(e)))>>},
             Ingest(e, Ingested(e), reply)
      PROVE  Shape' /\ Ledger(e)' /\ Ledger(p)'
  <2>1. PICK f : f = CurrentAck(Ingested(e))
    OBVIOUS
  <2>2. /\ UNCHANGED <<conf, tx, gave_up, queued, popped, drop_data>>
        /\ inbox' = [inbox EXCEPT ![e] = Tail(@), ![p] = @ \o reply] /\ inbox[e] # << >>
        /\ out' = [out EXCEPT ![e] = @ \cup {f}]
        /\ tx_nonce' = [tx_nonce EXCEPT ![e] = @ + 1]
        /\ rx' = [rx EXCEPT ![e] = Ingested(e)]
    BY <1>4, <1>0, <2>1 DEF Ingest, Reading
  <2>3. rx_nonce' = [rx_nonce EXCEPT ![e] = rx_nonce[e] + 1] /\ rx_nonce[e] < tx_nonce[p]
    BY <1>4, <2>2, <1>0, OpenedWasSealed DEF Ingest
  <2>4. rx_nonce[e] \in Nat /\ tx_nonce[p] \in Nat /\ tx_nonce[e] \in Nat
    BY DEF Shape
  <2>5. rx_nonce[e] + 1 \in Nat /\ rx_nonce[e] + 1 <= tx_nonce[p] /\ tx_nonce[e] + 1 \in Nat
    BY <2>3, <2>4
  <2>6. /\ rx_nonce' \in [Endpoints -> Nat] /\ rx_nonce'[p] = rx_nonce[p] /\ rx_nonce'[e] <= tx_nonce[p]
        /\ tx_nonce' \in [Endpoints -> Nat] /\ tx_nonce'[p] = tx_nonce[p]
        /\ tx_nonce'[e] = tx_nonce[e] + 1
    BY <2>2, <2>3, <2>5, <1>0 DEF Shape
  <2>7. Shape'
    BY <2>2, <2>6 DEF Shape
  <2>8. inbox'[e] = Tail(inbox[e]) /\ inbox'[p] = inbox[p] \o reply
    BY <2>2, <1>0 DEF Shape
  <2>9. out'[e] = out[e] \cup {f} /\ out'[p] = out[p]
    BY <2>2, <1>0 DEF Shape
  <2>10. Ledger(e)'
    <3>1. \A S : inbox[e] \in Seq(S) => inbox'[e] \in Seq(S)
      BY <2>2, <2>8, SeqRead
    <3> QED
      BY <3>1, <2>6, <2>9, <1>0, LedgerMixed
  <2>11. Ledger(p)'
    <3>1. reply \in {<< >>, <<Sealed(tx_nonce[e], f)>>} /\ Ledger(p)
      BY <1>0, <2>1
    <3> QED
      BY <3>1, <2>6, <2>8, <2>9, <1>0, LedgerGrows
  <2> QED
    BY <2>7, <2>10, <2>11
<1>5. CASE ReadData(e)
  BY <1>0, <1>4, <1>5 DEF ReadData
<1>6. CASE AckFails(e)
  BY <1>0, <1>4, <1>6 DEF AckFails
<1> QED
  BY <1>1, <1>2, <1>3, <1>5, <1>6 DEF Turn

\* Calls that begin.
LEMMA CallBegins ==
    ASSUME Shape, LoopInv, NEW e \in Endpoints, NEW what \in {"send", "recv"},
           NEW where \in {"pop", "new"}, where = "pop" => rx[e].delivered # << >>,
           NEW ticks \in {conf.send_timeout, conf.recv_timeout},
           call' = [call EXCEPT ![e] = what], pc' = [pc EXCEPT ![e] = where],
           left' = [left EXCEPT ![e] = ticks], UNCHANGED <<conf, rx, result>>
    PROVE  LoopInv'
<1>1. call' \in [Endpoints -> Calls] /\ pc' \in [Endpoints -> Places] /\ result' \in [Endpoints -> Outcomes]
  BY DEF LoopInv, Calls, Places
<1>2. ticks \in 0 .. (conf.send_timeout + conf.recv_timeout)
  <2>1. conf.send_timeout \in Nat /\ conf.recv_timeout \in Nat
    BY DEF Shape, Scenario
  <2> QED
    BY <2>1
<1>3. left' \in [Endpoints -> 0 .. (conf'.send_timeout + conf'.recv_timeout)]
  BY <1>2 DEF LoopInv
<1>4. \A x \in Endpoints :
        /\ call'[x] = "idle" <=> pc'[x] = "out"
        /\ pc'[x] = "pop" => rx'[x].delivered # << >>
  <2> SUFFICES ASSUME NEW x \in Endpoints
               PROVE  /\ call'[x] = "idle" <=> pc'[x] = "out"
                      /\ pc'[x] = "pop" => rx'[x].delivered # << >>
    OBVIOUS
  <2>1. CASE x = e
    BY <2>1 DEF LoopInv
  <2>2. CASE x # e
    BY <2>2 DEF LoopInv
  <2> QED
    BY <2>1, <2>2
<1> QED
  BY <1>1, <1>3, <1>4 DEF LoopInv

\* Time passes: calls stay where they are, or wake up.
LEMMA TickLoop ==
    ASSUME Shape, LoopInv, Tick PROVE LoopInv'
<1>1. /\ left' = [e \in Endpoints |-> IF left[e] > 0 THEN left[e] - 1 ELSE 0]
      /\ pc' = [e \in Endpoints |-> IF Wakes(e) THEN "new" ELSE pc[e]]
      /\ UNCHANGED <<conf, rx, call, result>>
  BY DEF Tick
<1>2. PICK m \in Nat : m = conf.send_timeout + conf.recv_timeout
  BY DEF Shape, Scenario
<1>3. left' \in [Endpoints -> 0 .. m]
  <2>1. \A e \in Endpoints : left[e] \in 0 .. m
    BY <1>2 DEF LoopInv
  <2>2. \A e \in Endpoints : left'[e] \in 0 .. m
    BY <1>1, <2>1
  <2> QED
    BY <1>1, <2>2
<1>4. pc' \in [Endpoints -> Places] /\ call' \in [Endpoints -> Calls] /\ result' \in [Endpoints -> Outcomes]
  BY <1>1 DEF LoopInv, Places
<1>5. \A x \in Endpoints :
        /\ call'[x] = "idle" <=> pc'[x] = "out"
        /\ pc'[x] = "pop" => rx'[x].delivered # << >>
  BY <1>1 DEF LoopInv, Wakes
<1> QED
  BY <1>1, <1>2, <1>3, <1>4, <1>5 DEF LoopInv

\* The network loses, exchanges and repeats what is in a queue.
LEMMA NetworkMixes ==
    ASSUME Shape, NEW e \in Endpoints, Lose(e) \/ Swap(e) \/ Duplicate(e)
    PROVE  /\ DOMAIN inbox' = Endpoints /\ inbox'[Peer(e)] = inbox[Peer(e)]
           /\ \A S : inbox[e] \in Seq(S) => inbox'[e] \in Seq(S)
           /\ UNCHANGED <<conf, arqVars, noiseVars, drop_data, loopVars>>
<1>1. UNCHANGED <<conf, arqVars, noiseVars, drop_data, loopVars>>
  BY DEF Lose, Swap, Duplicate, Misbehave
<1>2. e \in DOMAIN inbox /\ DOMAIN inbox = Endpoints /\ Peer(e) # e
  BY PeerFacts DEF Shape
<1>3. CASE Lose(e)
  <2>1. PICK i \in DOMAIN inbox[e] : inbox' = [inbox EXCEPT ![e] = RemoveAt(@, i)]
    BY <1>3 DEF Lose
  <2>2. inbox'[e] = RemoveAt(inbox[e], i) /\ inbox'[Peer(e)] = inbox[Peer(e)] /\ DOMAIN inbox' = Endpoints
    BY <2>1, <1>2
  <2>3. \A S : inbox[e] \in Seq(S) => inbox'[e] \in Seq(S)
    BY <2>2, SeqRemove
  <2> QED
    BY <1>1, <2>2, <2>3
<1>4. CASE Swap(e)
  <2>1. PICK i \in 2 .. Len(inbox[e]) :
            inbox' = [inbox EXCEPT ![e] = [@ EXCEPT ![i - 1] = inbox[e][i], ![i] = inbox[e][i - 1]]]
    BY <1>4 DEF Swap
  <2>2. /\ inbox'[e] = [inbox[e] EXCEPT ![i - 1] = inbox[e][i], ![i] = inbox[e][i - 1]]
        /\ inbox'[Peer(e)] = inbox[Peer(e)] /\ DOMAIN inbox' = Endpoints
    BY <2>1, <1>2
  <2>3. ASSUME NEW S, inbox[e] \in Seq(S) PROVE inbox'[e] \in Seq(S)
    <3>1. PICK q \in Seq(S) : q = inbox[e]
      BY <2>3
    <3>2. i \in 2 .. Len(q)
      BY <3>1
    <3>3. [q EXCEPT ![i - 1] = q[i], ![i] = q[i - 1]] \in Seq(S)
      BY <3>2, SeqSwap
    <3> QED
      BY <3>1, <3>3, <2>2
  <2> QED
    BY <1>1, <2>2, <2>3
<1>5. CASE Duplicate(e)
  <2>1. PICK i \in DOMAIN inbox[e] : inbox' = [inbox EXCEPT ![e] = Append(@, inbox[e][i])]
    BY <1>5 DEF Duplicate
  <2>2. inbox'[e] = Append(inbox[e], inbox[e][i]) /\ inbox'[Peer(e)] = inbox[Peer(e)] /\ DOMAIN inbox' = Endpoints
    BY <2>1, <1>2
  <2>3. ASSUME NEW S, inbox[e] \in Seq(S) PROVE inbox'[e] \in Seq(S)
    <3>1. PICK q \in Seq(S) : q = inbox[e]
      BY <2>3
    <3>2. q[i] \in S
      BY <3>1, LenProperties, ElementOfSeq
    <3>3. Append(q, q[i]) \in Seq(S)
      BY <3>2, AppendProperties
    <3> QED
      BY <3>1, <3>3, <2>2
  <2> QED
    BY <1>1, <2>2, <2>3
<1> QED
  BY <1>3, <1>4, <1>5

-----------------------------------------------------------------------------
(***************************************************************************)
(* The two flows, each as an instance of what is proved about Arq.         *)
(***************************************************************************)
InitiatorArq == INSTANCE ArqProofs WITH
    tx <- tx["initiator"], rx <- rx["responder"],
    wire <- Frames("initiator", "data") \cup Frames("responder", "ack"),
    gave_up <- gave_up["initiator"], queued <- queued["initiator"], popped <- popped["responder"]

ResponderArq == INSTANCE ArqProofs WITH
    tx <- tx["responder"], rx <- rx["initiator"],
    wire <- Frames("responder", "data") \cup Frames("initiator", "ack"),
    gave_up <- gave_up["responder"], queued <- queued["responder"], popped <- popped["initiator"]

\* Seen from Arq, the steps of the flow from initiator to responder are Arq's.
LEMMA InitiatorFlowSteps == FlowNext("initiator", "responder") => [InitiatorFlow!Next]_(InitiatorFlow!vars)
  BY Zenon DEF
    FlowNext, FlowVars, FlowWire, FlowEnqueue, FlowNewSends, FlowRetransmits,
    FlowGiveUp, FlowAck, FlowData, FlowPop, FlowSetRetx, FlowTick, set_retx, Never, wrapping_add, wrapping_sub,
    encode_data, encode_ack, FrameCount, NextFragId, NextSeq, enqueue, Sent, Unsent,
    in_flight_sent, NewSends, take_new_sends, Due, Exhausted, Retransmits,
    take_retransmits, acked, on_ack, Elapse, LowOnes, Fresh, mark_received, FragBuf,
    Reassemble, on_data, CurrentAck, pop_delivered, Cardinality, InitiatorFlow!vars,
    InitiatorFlow!Next, InitiatorFlow!Enqueue, InitiatorFlow!TakeNewSends,
    InitiatorFlow!TakeRetransmits, InitiatorFlow!GiveUp, InitiatorFlow!IngestAck,
    InitiatorFlow!IngestData, InitiatorFlow!PopDelivered, InitiatorFlow!SetRetx, InitiatorFlow!set_retx, InitiatorFlow!Tick,
    InitiatorFlow!Offset, InitiatorFlow!FramesOf, InitiatorFlow!Never,
    InitiatorFlow!wrapping_add, InitiatorFlow!wrapping_sub, InitiatorFlow!encode_data,
    InitiatorFlow!encode_ack, InitiatorFlow!FrameCount, InitiatorFlow!NextFragId,
    InitiatorFlow!NextSeq, InitiatorFlow!enqueue, InitiatorFlow!Sent,
    InitiatorFlow!Unsent, InitiatorFlow!in_flight_sent, InitiatorFlow!NewSends,
    InitiatorFlow!take_new_sends, InitiatorFlow!Due, InitiatorFlow!Exhausted,
    InitiatorFlow!Retransmits, InitiatorFlow!take_retransmits, InitiatorFlow!acked,
    InitiatorFlow!on_ack, InitiatorFlow!Elapse, InitiatorFlow!LowOnes,
    InitiatorFlow!Fresh, InitiatorFlow!mark_received, InitiatorFlow!FragBuf,
    InitiatorFlow!Reassemble, InitiatorFlow!on_data, InitiatorFlow!CurrentAck,
    InitiatorFlow!pop_delivered, InitiatorFlow!Cardinality

\* It starts as Arq does.
LEMMA InitiatorFlowInit == Init => InitiatorFlow!Init
<1> SUFFICES ASSUME Init PROVE InitiatorFlow!Init
  OBVIOUS
<1>1. \E d \in RetxValues : tx["initiator"] = NewTx(START, d)
  BY SessionAssumption DEF Init, Endpoints
<1>2. /\ rx["responder"] = NewRx(START) /\ gave_up["initiator"] = Never
      /\ queued["initiator"] = << >> /\ popped["responder"] = << >>
  BY DEF Init, Endpoints
<1>3. Frames("initiator", "data") \cup Frames("responder", "ack") = {}
  BY DEF Init, Endpoints, Frames
<1> QED
  BY <1>1, <1>2, <1>3, Zenon DEF InitiatorFlow!Init, InitiatorFlow!NewTx, NewTx, InitiatorFlow!NewRx, NewRx, InitiatorFlow!Never, Never

\* Seen from the proofs about Arq, the steps of the flow from initiator to responder are Arq's.
LEMMA InitiatorArqSteps == FlowNext("initiator", "responder") => [InitiatorArq!Next]_(InitiatorArq!vars)
  BY Zenon DEF
    FlowNext, FlowVars, FlowWire, FlowEnqueue, FlowNewSends, FlowRetransmits,
    FlowGiveUp, FlowAck, FlowData, FlowPop, FlowSetRetx, FlowTick, set_retx, Never, wrapping_add, wrapping_sub,
    encode_data, encode_ack, FrameCount, NextFragId, NextSeq, enqueue, Sent, Unsent,
    in_flight_sent, NewSends, take_new_sends, Due, Exhausted, Retransmits,
    take_retransmits, acked, on_ack, Elapse, LowOnes, Fresh, mark_received, FragBuf,
    Reassemble, on_data, CurrentAck, pop_delivered, Cardinality, InitiatorArq!vars,
    InitiatorArq!Next, InitiatorArq!Enqueue, InitiatorArq!TakeNewSends,
    InitiatorArq!TakeRetransmits, InitiatorArq!GiveUp, InitiatorArq!IngestAck,
    InitiatorArq!IngestData, InitiatorArq!PopDelivered, InitiatorArq!SetRetx, InitiatorArq!set_retx, InitiatorArq!Tick,
    InitiatorArq!Offset, InitiatorArq!FramesOf, InitiatorArq!Never,
    InitiatorArq!wrapping_add, InitiatorArq!wrapping_sub, InitiatorArq!encode_data,
    InitiatorArq!encode_ack, InitiatorArq!FrameCount, InitiatorArq!NextFragId,
    InitiatorArq!NextSeq, InitiatorArq!enqueue, InitiatorArq!Sent, InitiatorArq!Unsent,
    InitiatorArq!in_flight_sent, InitiatorArq!NewSends, InitiatorArq!take_new_sends,
    InitiatorArq!Due, InitiatorArq!Exhausted, InitiatorArq!Retransmits,
    InitiatorArq!take_retransmits, InitiatorArq!acked, InitiatorArq!on_ack,
    InitiatorArq!Elapse, InitiatorArq!LowOnes, InitiatorArq!Fresh,
    InitiatorArq!mark_received, InitiatorArq!FragBuf, InitiatorArq!Reassemble,
    InitiatorArq!on_data, InitiatorArq!CurrentAck, InitiatorArq!pop_delivered,
    InitiatorArq!Cardinality

\* It starts as Arq does.
LEMMA InitiatorArqInit == Init => InitiatorArq!Init
<1> SUFFICES ASSUME Init PROVE InitiatorArq!Init
  OBVIOUS
<1>1. \E d \in RetxValues : tx["initiator"] = NewTx(START, d)
  BY SessionAssumption DEF Init, Endpoints
<1>2. /\ rx["responder"] = NewRx(START) /\ gave_up["initiator"] = Never
      /\ queued["initiator"] = << >> /\ popped["responder"] = << >>
  BY DEF Init, Endpoints
<1>3. Frames("initiator", "data") \cup Frames("responder", "ack") = {}
  BY DEF Init, Endpoints, Frames
<1> QED
  BY <1>1, <1>2, <1>3, Zenon DEF InitiatorArq!Init, InitiatorArq!NewTx, NewTx, InitiatorArq!NewRx, NewRx, InitiatorArq!Never, Never

\* Seen from Arq, the steps of the flow from responder to initiator are Arq's.
LEMMA ResponderFlowSteps == FlowNext("responder", "initiator") => [ResponderFlow!Next]_(ResponderFlow!vars)
  BY Zenon DEF
    FlowNext, FlowVars, FlowWire, FlowEnqueue, FlowNewSends, FlowRetransmits,
    FlowGiveUp, FlowAck, FlowData, FlowPop, FlowSetRetx, FlowTick, set_retx, Never, wrapping_add, wrapping_sub,
    encode_data, encode_ack, FrameCount, NextFragId, NextSeq, enqueue, Sent, Unsent,
    in_flight_sent, NewSends, take_new_sends, Due, Exhausted, Retransmits,
    take_retransmits, acked, on_ack, Elapse, LowOnes, Fresh, mark_received, FragBuf,
    Reassemble, on_data, CurrentAck, pop_delivered, Cardinality, ResponderFlow!vars,
    ResponderFlow!Next, ResponderFlow!Enqueue, ResponderFlow!TakeNewSends,
    ResponderFlow!TakeRetransmits, ResponderFlow!GiveUp, ResponderFlow!IngestAck,
    ResponderFlow!IngestData, ResponderFlow!PopDelivered, ResponderFlow!SetRetx, ResponderFlow!set_retx, ResponderFlow!Tick,
    ResponderFlow!Offset, ResponderFlow!FramesOf, ResponderFlow!Never,
    ResponderFlow!wrapping_add, ResponderFlow!wrapping_sub, ResponderFlow!encode_data,
    ResponderFlow!encode_ack, ResponderFlow!FrameCount, ResponderFlow!NextFragId,
    ResponderFlow!NextSeq, ResponderFlow!enqueue, ResponderFlow!Sent,
    ResponderFlow!Unsent, ResponderFlow!in_flight_sent, ResponderFlow!NewSends,
    ResponderFlow!take_new_sends, ResponderFlow!Due, ResponderFlow!Exhausted,
    ResponderFlow!Retransmits, ResponderFlow!take_retransmits, ResponderFlow!acked,
    ResponderFlow!on_ack, ResponderFlow!Elapse, ResponderFlow!LowOnes,
    ResponderFlow!Fresh, ResponderFlow!mark_received, ResponderFlow!FragBuf,
    ResponderFlow!Reassemble, ResponderFlow!on_data, ResponderFlow!CurrentAck,
    ResponderFlow!pop_delivered, ResponderFlow!Cardinality

\* It starts as Arq does.
LEMMA ResponderFlowInit == Init => ResponderFlow!Init
<1> SUFFICES ASSUME Init PROVE ResponderFlow!Init
  OBVIOUS
<1>1. \E d \in RetxValues : tx["responder"] = NewTx(START, d)
  BY SessionAssumption DEF Init, Endpoints
<1>2. /\ rx["initiator"] = NewRx(START) /\ gave_up["responder"] = Never
      /\ queued["responder"] = << >> /\ popped["initiator"] = << >>
  BY DEF Init, Endpoints
<1>3. Frames("responder", "data") \cup Frames("initiator", "ack") = {}
  BY DEF Init, Endpoints, Frames
<1> QED
  BY <1>1, <1>2, <1>3, Zenon DEF ResponderFlow!Init, ResponderFlow!NewTx, NewTx, ResponderFlow!NewRx, NewRx, ResponderFlow!Never, Never

\* Seen from the proofs about Arq, the steps of the flow from responder to initiator are Arq's.
LEMMA ResponderArqSteps == FlowNext("responder", "initiator") => [ResponderArq!Next]_(ResponderArq!vars)
  BY Zenon DEF
    FlowNext, FlowVars, FlowWire, FlowEnqueue, FlowNewSends, FlowRetransmits,
    FlowGiveUp, FlowAck, FlowData, FlowPop, FlowSetRetx, FlowTick, set_retx, Never, wrapping_add, wrapping_sub,
    encode_data, encode_ack, FrameCount, NextFragId, NextSeq, enqueue, Sent, Unsent,
    in_flight_sent, NewSends, take_new_sends, Due, Exhausted, Retransmits,
    take_retransmits, acked, on_ack, Elapse, LowOnes, Fresh, mark_received, FragBuf,
    Reassemble, on_data, CurrentAck, pop_delivered, Cardinality, ResponderArq!vars,
    ResponderArq!Next, ResponderArq!Enqueue, ResponderArq!TakeNewSends,
    ResponderArq!TakeRetransmits, ResponderArq!GiveUp, ResponderArq!IngestAck,
    ResponderArq!IngestData, ResponderArq!PopDelivered, ResponderArq!SetRetx, ResponderArq!set_retx, ResponderArq!Tick,
    ResponderArq!Offset, ResponderArq!FramesOf, ResponderArq!Never,
    ResponderArq!wrapping_add, ResponderArq!wrapping_sub, ResponderArq!encode_data,
    ResponderArq!encode_ack, ResponderArq!FrameCount, ResponderArq!NextFragId,
    ResponderArq!NextSeq, ResponderArq!enqueue, ResponderArq!Sent, ResponderArq!Unsent,
    ResponderArq!in_flight_sent, ResponderArq!NewSends, ResponderArq!take_new_sends,
    ResponderArq!Due, ResponderArq!Exhausted, ResponderArq!Retransmits,
    ResponderArq!take_retransmits, ResponderArq!acked, ResponderArq!on_ack,
    ResponderArq!Elapse, ResponderArq!LowOnes, ResponderArq!Fresh,
    ResponderArq!mark_received, ResponderArq!FragBuf, ResponderArq!Reassemble,
    ResponderArq!on_data, ResponderArq!CurrentAck, ResponderArq!pop_delivered,
    ResponderArq!Cardinality

\* It starts as Arq does.
LEMMA ResponderArqInit == Init => ResponderArq!Init
<1> SUFFICES ASSUME Init PROVE ResponderArq!Init
  OBVIOUS
<1>1. \E d \in RetxValues : tx["responder"] = NewTx(START, d)
  BY SessionAssumption DEF Init, Endpoints
<1>2. /\ rx["initiator"] = NewRx(START) /\ gave_up["responder"] = Never
      /\ queued["responder"] = << >> /\ popped["initiator"] = << >>
  BY DEF Init, Endpoints
<1>3. Frames("responder", "data") \cup Frames("initiator", "ack") = {}
  BY DEF Init, Endpoints, Frames
<1> QED
  BY <1>1, <1>2, <1>3, Zenon DEF ResponderArq!Init, ResponderArq!NewTx, NewTx, ResponderArq!NewRx, NewRx, ResponderArq!Never, Never

-----------------------------------------------------------------------------
(***************************************************************************)
(* The inductive invariant.                                                *)
(***************************************************************************)
SessionInv ==
    /\ Shape
    /\ LoopInv
    /\ \A e \in Endpoints : Ledger(e)
    /\ InitiatorArq!NoFalseAckInv
    /\ ResponderArq!NoFalseAckInv

\* What an Arq instance assumes of its constants holds of a session's.
LEMMA ArqConstants ==
    /\ START \in Seqs /\ Sizes \subseteq 0 .. MAX_PARTS
    /\ RetxValues \subseteq Ages /\ RetxValues # {}
    /\ MaxFrames \in Nat
    /\ MaxFrames + RECV_WINDOW < SEQ_MOD
    /\ MaxFrames + ACK_BEHIND <= SEQ_MOD
  BY SessionAssumption

\* The types of a flow's send half.
LEMMA FlowWaits ==
    ASSUME InitiatorArq!NoFalseAckInv, ResponderArq!NoFalseAckInv
    PROVE  \A e \in Endpoints : Waits(e)
<1>1. Waits("initiator")
  BY DEF Waits, InitiatorArq!NoFalseAckInv, InitiatorArq!TypeOK, InitiatorArq!TxTypeOK,
         InitiatorArq!Seqs, Seqs, InitiatorArq!Slots, InitiatorArq!DataFrames
<1>2. Waits("responder")
  BY DEF Waits, ResponderArq!NoFalseAckInv, ResponderArq!TypeOK, ResponderArq!TxTypeOK,
         ResponderArq!Seqs, Seqs, ResponderArq!Slots, ResponderArq!DataFrames
<1> QED
  BY <1>1, <1>2 DEF Endpoints

\* The steps of the flows keep what is proved about them.
LEMMA FlowsKeep ==
    ASSUME InitiatorArq!NoFalseAckInv, ResponderArq!NoFalseAckInv,
           FlowNext("initiator", "responder"), FlowNext("responder", "initiator")
    PROVE  InitiatorArq!NoFalseAckInv' /\ ResponderArq!NoFalseAckInv'
<1>1. InitiatorArq!NoFalseAckInv'
  BY InitiatorArqSteps, InitiatorArq!NoFalseAckStep, ArqConstants, WidthsAssumption
     DEF Seqs, Ages, InitiatorArq!Seqs, InitiatorArq!Ages
<1>2. ResponderArq!NoFalseAckInv'
  BY ResponderArqSteps, ResponderArq!NoFalseAckStep, ArqConstants, WidthsAssumption
     DEF Seqs, Ages, ResponderArq!Seqs, ResponderArq!Ages
<1> QED
  BY <1>1, <1>2

\* Every step of a session is a step of each of its flows.
LEMMA FlowsOfStep ==
    ASSUME SessionInv, [Next]_vars
    PROVE  FlowNext("initiator", "responder") /\ FlowNext("responder", "initiator")
<1> SUFFICES \E e \in Endpoints : FlowNext(e, Peer(e)) /\ FlowNext(Peer(e), e)
  BY PeerFacts, Zenon DEF Endpoints
<1>0. "initiator" \in Endpoints
  BY DEF Endpoints
<1>1. \A e \in Endpoints : Waits(e)
  BY FlowWaits DEF SessionInv
<1>2. ASSUME NEW e \in Endpoints, NEW n \in Sizes, Send(e, n)
      PROVE  FlowNext(e, Peer(e)) /\ FlowNext(Peer(e), e)
  <2>0. Peer(e) # e
    BY PeerFacts
  <2>1. UNCHANGED <<rx, out, gave_up, popped>>
    BY <1>2 DEF Send
  <2>2. tx'[e] = enqueue(tx[e], Len(queued[e]) + 1, n) /\ tx'[Peer(e)] = tx[Peer(e)]
    BY <1>2, <2>0 DEF Send, SessionInv, Shape
  <2>3. /\ queued'[e] = Append(queued[e], [first |-> tx[e].next_seq, chunks |-> n])
        /\ queued'[Peer(e)] = queued[Peer(e)]
    BY <1>2, <2>0 DEF Send, SessionInv, Shape
  <2>4. wrapping_sub(tx[e].next_seq, START) + FrameCount(n) <= MaxFrames
    BY <1>2 DEF Send
  <2>5. FlowEnqueue(e, Peer(e), n)
    BY <2>1, <2>2, <2>3, <2>4, NothingOut DEF FlowEnqueue
  <2>6. UNCHANGED FlowVars(Peer(e), e)
    BY <2>1, <2>2, <2>3, NothingOut DEF FlowVars
  <2> QED
    BY <2>5, <2>6 DEF FlowNext
<1>3. CASE Tick
  <2>1. UNCHANGED <<rx, out, gave_up, queued, popped>>
    BY <1>3 DEF Tick
  <2>2. \A e \in Endpoints : tx'[e] = Elapse(tx[e])
    BY <1>3 DEF Tick
  <2>3. \A e \in Endpoints : FlowTick(e, Peer(e)) /\ FlowTick(Peer(e), e)
    BY <2>1, <2>2, PeerFacts, NothingOut DEF FlowTick
  <2> QED
    BY <2>3, <1>0 DEF FlowNext
<1>4. ASSUME NEW e \in Endpoints, Turn(e)
      PROVE  FlowNext(e, Peer(e)) /\ FlowNext(Peer(e), e)
  BY <1>1, <1>4, FlowsOfTurn DEF SessionInv
<1>5. ASSUME NEW e \in Endpoints,
             SendTooLarge(e) \/ Recv(e) \/ Lose(e) \/ Swap(e) \/ Duplicate(e)
      PROVE  FlowNext(e, Peer(e)) /\ FlowNext(Peer(e), e)
  <2>1. UNCHANGED arqVars
    BY <1>5 DEF SendTooLarge, Recv, Lose, Swap, Duplicate, Misbehave
  <2> QED
    BY <2>1, FlowsRest
<1>6. CASE UNCHANGED vars
  <2>1. UNCHANGED arqVars
    BY <1>6 DEF vars
  <2> QED
    BY <2>1, <1>0, FlowsRest
<1>7. ASSUME NEW e \in Endpoints, Configure(e)
      PROVE  FlowNext(e, Peer(e)) /\ FlowNext(Peer(e), e)
  <2>1. UNCHANGED <<rx, out, gave_up, queued, popped>>
    BY <1>7, Tuning
  <2>2. CASE tx' = tx
    BY <2>1, <2>2, FlowsRest DEF arqVars
  <2>3. ASSUME NEW d \in RetxValues, tx' = [tx EXCEPT ![e] = set_retx(@, d)]
        PROVE  FlowNext(e, Peer(e)) /\ FlowNext(Peer(e), e)
    <3>1. tx'[e] = set_retx(tx[e], d) /\ tx'[Peer(e)] = tx[Peer(e)]
      BY <2>3, PeerFacts DEF SessionInv, Shape
    <3>2. FlowSetRetx(e, Peer(e), d)
      BY <2>1, <3>1, NothingOut DEF FlowSetRetx
    <3>3. UNCHANGED FlowVars(Peer(e), e)
      BY <2>1, <3>1, NothingOut DEF FlowVars
    <3> QED
      BY <3>2, <3>3 DEF FlowNext
  <2> QED
    BY <1>7, <2>2, <2>3, Tuning
<1> QED
  BY <1>2, <1>3, <1>4, <1>5, <1>6, <1>7 DEF Next

\* Every step keeps the invariant.
LEMMA SessionStep == SessionInv /\ [Next]_vars => SessionInv'
<1> SUFFICES ASSUME SessionInv, [Next]_vars PROVE SessionInv'
  OBVIOUS
<1>0. InitiatorArq!NoFalseAckInv' /\ ResponderArq!NoFalseAckInv'
  BY FlowsOfStep, FlowsKeep DEF SessionInv
<1> SUFFICES Shape' /\ LoopInv' /\ \A e \in Endpoints : Ledger(e)'
  BY <1>0 DEF SessionInv
<1>1. Shape /\ LoopInv /\ \A e \in Endpoints : Ledger(e) /\ Waits(e)
  BY FlowWaits DEF SessionInv
<1>2. \A e \in Endpoints : \A x \in Endpoints : x = e \/ x = Peer(e)
  BY PeerFacts DEF Endpoints
<1>3. ASSUME UNCHANGED <<inbox, out, tx_nonce, rx_nonce>> PROVE \A e \in Endpoints : Ledger(e)'
  BY <1>1, <1>3, LedgerRests
<1>4. ASSUME NEW e \in Endpoints, NEW n \in Sizes, Send(e, n)
      PROVE  Shape' /\ LoopInv' /\ \A x \in Endpoints : Ledger(x)'
  <2>1. /\ UNCHANGED <<conf, rx, gave_up, out, popped, tx_nonce, rx_nonce, drop_data, result, settled, inbox>>
        /\ DOMAIN tx' = DOMAIN tx /\ DOMAIN queued' = DOMAIN queued
        /\ call' = [call EXCEPT ![e] = "send"] /\ pc' = [pc EXCEPT ![e] = "new"]
        /\ left' = [left EXCEPT ![e] = conf.send_timeout]
    BY <1>4 DEF Send, noiseVars
  <2>2. Shape'
    BY <1>1, <2>1 DEF Shape
  <2>3. LoopInv'
    BY <1>1, <2>1, CallBegins
  <2> QED
    BY <2>1, <2>2, <2>3, <1>3
<1>5. ASSUME NEW e \in Endpoints, SendTooLarge(e)
      PROVE  Shape' /\ LoopInv' /\ \A x \in Endpoints : Ledger(x)'
  <2>1. /\ UNCHANGED <<conf, arqVars, noiseVars, drop_data, call, pc, left, settled, inbox>>
        /\ result' = [result EXCEPT ![e] = "too large"]
    BY <1>5 DEF SendTooLarge
  <2>2. Shape'
    BY <1>1, <2>1 DEF Shape, arqVars, noiseVars
  <2>3. LoopInv'
    <3>1. result' \in [Endpoints -> Outcomes]
      BY <1>1, <2>1 DEF LoopInv, Outcomes
    <3> QED
      BY <1>1, <2>1, <3>1 DEF LoopInv, arqVars
  <2> QED
    BY <2>1, <2>2, <2>3, <1>3 DEF arqVars, noiseVars
<1>6. ASSUME NEW e \in Endpoints, Recv(e)
      PROVE  Shape' /\ LoopInv' /\ \A x \in Endpoints : Ledger(x)'
  <2>1. /\ UNCHANGED <<conf, arqVars, noiseVars, drop_data, result, settled, inbox>>
        /\ call' = [call EXCEPT ![e] = "recv"]
        /\ pc' = [pc EXCEPT ![e] = IF rx[e].delivered # << >> THEN "pop" ELSE "new"]
        /\ left' = [left EXCEPT ![e] = conf.recv_timeout]
    BY <1>6 DEF Recv
  <2>2. Shape'
    BY <1>1, <2>1 DEF Shape, arqVars, noiseVars
  <2>3. LoopInv'
    <3>1. PICK where \in {"pop", "new"} : where = IF rx[e].delivered # << >> THEN "pop" ELSE "new"
      OBVIOUS
    <3>2. where = "pop" => rx[e].delivered # << >>
      BY <3>1
    <3>3. pc' = [pc EXCEPT ![e] = where] /\ UNCHANGED <<conf, rx, result>>
      BY <3>1, <2>1 DEF arqVars
    <3> QED
      BY <1>1, <2>1, <3>2, <3>3, CallBegins
  <2> QED
    BY <2>1, <2>2, <2>3, <1>3 DEF arqVars, noiseVars
<1>7. ASSUME NEW e \in Endpoints, Turn(e)
      PROVE  Shape' /\ LoopInv' /\ \A x \in Endpoints : Ledger(x)'
  <2>1. LoopInv' /\ DOMAIN settled' = Endpoints
    BY <1>1, <1>7, TurnLoop
  <2>2. Ledger(e) /\ Ledger(Peer(e)) /\ Waits(e)
    BY <1>1, PeerFacts
  <2>3. Shape' /\ Ledger(e)' /\ Ledger(Peer(e))'
    BY <1>1, <1>7, <2>1, <2>2, TurnLedgers
  <2>4. \A x \in Endpoints : Ledger(x)'
    BY <2>3, <1>2
  <2> QED
    BY <2>1, <2>3, <2>4
<1>8. ASSUME NEW e \in Endpoints, Lose(e) \/ Swap(e) \/ Duplicate(e)
      PROVE  Shape' /\ LoopInv' /\ \A x \in Endpoints : Ledger(x)'
  <2>1. /\ DOMAIN inbox' = Endpoints /\ inbox'[Peer(e)] = inbox[Peer(e)]
        /\ \A S : inbox[e] \in Seq(S) => inbox'[e] \in Seq(S)
        /\ UNCHANGED <<conf, arqVars, noiseVars, drop_data, loopVars>>
    BY <1>1, <1>8, NetworkMixes
  <2>2. Shape'
    BY <1>1, <2>1 DEF Shape, arqVars, noiseVars, loopVars
  <2>3. LoopInv'
    BY <1>1, <2>1 DEF LoopInv, arqVars, loopVars
  <2>4. Ledger(e)'
    <3>1. rx_nonce'[e] <= tx_nonce[Peer(e)]
      BY <1>1, <2>1 DEF Ledger, noiseVars
    <3> QED
      BY <1>1, <2>1, <3>1, LedgerMixed DEF arqVars, noiseVars
  <2>5. Ledger(Peer(e))'
    BY <1>1, <2>1, PeerFacts, LedgerRests DEF arqVars, noiseVars
  <2> QED
    BY <2>2, <2>3, <2>4, <2>5, <1>2
<1>9. CASE Tick
  <2>1. /\ UNCHANGED <<conf, rx, gave_up, out, queued, popped, noiseVars, drop_data, settled, inbox>>
        /\ DOMAIN tx' = Endpoints
    BY <1>9 DEF Tick
  <2>2. Shape'
    BY <1>1, <2>1 DEF Shape, noiseVars
  <2>3. LoopInv'
    BY <1>1, <1>9, TickLoop
  <2> QED
    BY <2>1, <2>2, <2>3, <1>3 DEF noiseVars
<1>10. CASE UNCHANGED vars
  <2>1. Shape' /\ LoopInv'
    BY <1>1, <1>10 DEF vars, Shape, LoopInv, arqVars, noiseVars, loopVars
  <2> QED
    BY <2>1, <1>3, <1>10 DEF vars, arqVars, noiseVars
<1>11. ASSUME NEW e \in Endpoints, Configure(e)
       PROVE  Shape' /\ LoopInv' /\ \A x \in Endpoints : Ledger(x)'
  <2>1. /\ UNCHANGED <<conf, rx, gave_up, out, queued, popped, tx_nonce, rx_nonce, inbox>>
        /\ UNCHANGED <<call, pc, left, result, settled>> /\ DOMAIN tx' = DOMAIN tx
    BY <1>11, Tuning
  <2>2. drop_data' \in [Endpoints -> Nat]
    <3>1. conf.drops \in Nat
      BY <1>1 DEF Shape, Scenario
    <3> QED
      BY <1>1, <1>11, <3>1, Tuning DEF Shape
  <2>3. Shape' /\ LoopInv'
    BY <1>1, <2>1, <2>2 DEF Shape, LoopInv
  <2> QED
    BY <2>1, <2>3, <1>3
<1> QED
  BY <1>4, <1>5, <1>6, <1>7, <1>8, <1>9, <1>10, <1>11 DEF Next

\* It holds at first.
LEMMA SessionInit == Init => SessionInv
<1> SUFFICES ASSUME Init PROVE SessionInv
  OBVIOUS
<1>1. conf \in Scenario
  BY SessionAssumption DEF Init
<1>2. conf.send_timeout \in Nat /\ conf.recv_timeout \in Nat
  BY <1>1 DEF Scenario
<1>3. Shape
  BY <1>1 DEF Init, Shape
<1>4. LoopInv
  <2>1. 0 \in 0 .. (conf.send_timeout + conf.recv_timeout)
    BY <1>2
  <2> QED
    BY <2>1 DEF Init, LoopInv, Calls, Places, Outcomes
<1>5. ASSUME NEW e \in Endpoints PROVE Ledger(e)
  <2>1. rx_nonce[e] = 0 /\ tx_nonce[Peer(e)] = 0
    BY PeerFacts DEF Init
  <2>2. PICK L : L = << >>
    OBVIOUS
  <2>3. PICK W : W = Written(e, L)
    OBVIOUS
  <2>4. PICK h \in W : h = Handshake
    BY <2>3 DEF Written
  <2>5. <<h>> \in Seq(W) /\ << >> \in Seq(W)
    OBVIOUS
  <2>6. inbox[e] = << >> \/ inbox[e] = <<h>>
    BY <2>4 DEF Init
  <2>7. inbox[e] \in Seq(Written(e, L))
    BY <2>3, <2>5, <2>6
  <2> QED
    BY <2>1, <2>7 DEF Ledger
<1>6. InitiatorArq!NoFalseAckInv
  BY InitiatorArqInit, InitiatorArq!NoFalseAckInit, ArqConstants, WidthsAssumption
     DEF Seqs, Ages, InitiatorArq!Seqs, InitiatorArq!Ages
<1>7. ResponderArq!NoFalseAckInv
  BY ResponderArqInit, ResponderArq!NoFalseAckInit, ArqConstants, WidthsAssumption
     DEF Seqs, Ages, ResponderArq!Seqs, ResponderArq!Ages
<1> QED
  BY <1>3, <1>4, <1>5, <1>6, <1>7 DEF SessionInv

LEMMA SessionInvHolds == Spec => []SessionInv
  BY SessionInit, SessionStep, PTL DEF Spec

-----------------------------------------------------------------------------
(***************************************************************************)
(* What follows.                                                           *)
(***************************************************************************)

\* The loops of wait_acked and recv are always in one of their places, and no
\* receive counter passes the send counter of the other end.
THEOREM TypeCorrect == Spec => []TypeOK
<1>1. SessionInv => TypeOK
  <2> SUFFICES ASSUME SessionInv, NEW e \in Endpoints
               PROVE  /\ call[e] \in {"idle", "send", "recv"} /\ result[e] \in Outcomes
                      /\ pc[e] \in {"out", "pop", "new", "retx", "block"}
                      /\ call[e] = "idle" <=> pc[e] = "out"
                      /\ left[e] \in 0 .. (conf.send_timeout + conf.recv_timeout)
                      /\ rx_nonce[e] <= tx_nonce[Peer(e)]
                      /\ drop_data[e] \in Nat
    BY DEF TypeOK
  <2>1. call[e] \in Calls /\ pc[e] \in Places /\ result[e] \in Outcomes
    BY DEF SessionInv, LoopInv
  <2>2. left[e] \in 0 .. (conf.send_timeout + conf.recv_timeout) /\ (call[e] = "idle" <=> pc[e] = "out")
    BY DEF SessionInv, LoopInv
  <2>3. rx_nonce[e] <= tx_nonce[Peer(e)] /\ drop_data[e] \in Nat
    BY DEF SessionInv, Shape, Ledger
  <2> QED
    BY <2>1, <2>2, <2>3 DEF Calls, Places
<1> QED
  BY <1>1, SessionInvHolds, PTL

\* No counter of a direction seals two different frames (the transport of
\* noise.rs), whatever is dropped before it is sealed, fails half way through a
\* flush, is lost, repeated or reordered.
THEOREM CountersAreUnique == Spec => []NonceUnique
<1>1. SessionInv => NonceUnique
  <2> SUFFICES ASSUME SessionInv, NEW e \in Endpoints, NEW i \in DOMAIN inbox[e], NEW j \in DOMAIN inbox[e],
                      inbox[e][i].kind = "data", inbox[e][j].kind = "data"
               PROVE  /\ inbox[e][i].nonce < tx_nonce[Peer(e)]
                      /\ inbox[e][i].nonce = inbox[e][j].nonce => inbox[e][i] = inbox[e][j]
    BY DEF NonceUnique
  <2>1. PICK L : inbox[e] \in Seq(Written(e, L))
    BY DEF SessionInv, Ledger
  <2>2. inbox[e][i] \in Written(e, L) /\ inbox[e][j] \in Written(e, L)
    BY <2>1, LenProperties, ElementOfSeq
  <2>3. PICK n \in 0 .. (tx_nonce[Peer(e)] - 1) : inbox[e][i] = Sealed(n, L[n])
    BY <2>2 DEF Written, Handshake, Cover
  <2>4. PICK m \in 0 .. (tx_nonce[Peer(e)] - 1) : inbox[e][j] = Sealed(m, L[m])
    BY <2>2 DEF Written, Handshake, Cover
  <2>5. inbox[e][i].nonce = n /\ inbox[e][j].nonce = m
    BY <2>3, <2>4 DEF Sealed
  <2>6. tx_nonce[Peer(e)] \in Nat
    BY PeerFacts DEF SessionInv, Shape
  <2>7. n < tx_nonce[Peer(e)]
    BY <2>6
  <2> QED
    BY <2>3, <2>4, <2>5, <2>7
<1> QED
  BY <1>1, SessionInvHolds, PTL

\* The initiator's flow implements Arq: everything its loop, the sealing and
\* the network do to its messages is a step Arq allows.
THEOREM InitiatorIsArq == Spec => InitiatorImplementsArq
<1>1. SessionInv /\ [Next]_vars => [InitiatorFlow!Next]_(InitiatorFlow!vars)
  BY FlowsOfStep, InitiatorFlowSteps
<1> QED
  BY <1>1, InitiatorFlowInit, SessionInvHolds, PTL DEF Spec, InitiatorImplementsArq, InitiatorFlow!Spec

\* The responder's flow implements Arq.
THEOREM ResponderIsArq == Spec => ResponderImplementsArq
<1>1. SessionInv /\ [Next]_vars => [ResponderFlow!Next]_(ResponderFlow!vars)
  BY FlowsOfStep, ResponderFlowSteps
<1> QED
  BY <1>1, ResponderFlowInit, SessionInvHolds, PTL DEF Spec, ResponderImplementsArq, ResponderFlow!Spec

-----------------------------------------------------------------------------
(***************************************************************************)
(* A gap in the counters stays.                                            *)
(***************************************************************************)

\* pop_delivered leaves the receive window alone.
LEMMA PopKeepsWindow ==
    ASSUME SessionInv, NEW e \in Endpoints
    PROVE  /\ pop_delivered(rx[e]).recv_base = rx[e].recv_base
           /\ pop_delivered(rx[e]).recv_bits = rx[e].recv_bits
<1>1. rx["responder"] = [recv_base |-> rx["responder"].recv_base, recv_bits |-> rx["responder"].recv_bits,
                         fragments |-> rx["responder"].fragments, delivered |-> rx["responder"].delivered,
                         pending_ack |-> rx["responder"].pending_ack]
  BY DEF SessionInv, InitiatorArq!NoFalseAckInv, InitiatorArq!TypeOK, InitiatorArq!RxTypeOK
<1>2. rx["initiator"] = [recv_base |-> rx["initiator"].recv_base, recv_bits |-> rx["initiator"].recv_bits,
                         fragments |-> rx["initiator"].fragments, delivered |-> rx["initiator"].delivered,
                         pending_ack |-> rx["initiator"].pending_ack]
  BY DEF SessionInv, ResponderArq!NoFalseAckInv, ResponderArq!TypeOK, ResponderArq!RxTypeOK
<1>3. PICK r : r = rx[e]
  OBVIOUS
<1>4. r = [recv_base |-> r.recv_base, recv_bits |-> r.recv_bits, fragments |-> r.fragments,
           delivered |-> r.delivered, pending_ack |-> r.pending_ack]
  BY <1>1, <1>2, <1>3 DEF Endpoints
<1>5. pop_delivered(r).recv_base = r.recv_base /\ pop_delivered(r).recv_bits = r.recv_bits
  BY <1>4 DEF pop_delivered
<1> QED
  BY <1>3, <1>5

\* What a step adds to the datagrams on their way to p, if it adds any: cover,
\* and frames under counters that had not been used.
Unused(e, T) == \A d \in T : d.kind = "data" => d.nonce \in Nat /\ d.nonce >= tx_nonce[e]

\* Nobody reads past a gap, and what comes after it is sealed under later
\* counters.
LEMMA GapStep ==
    ASSUME SessionInv, [Next]_vars, NEW e \in Endpoints, NEW p \in Endpoints, p = Peer(e), Gap(e),
           NEW S0, S0 = {inbox[p][i] : i \in DOMAIN inbox[p]}, inbox[p] \in Seq(S0)
    PROVE  /\ rx_nonce'[p] = rx_nonce[p] /\ tx_nonce'[e] >= tx_nonce[e]
           /\ rx'[p].recv_base = rx[p].recv_base /\ rx'[p].recv_bits = rx[p].recv_bits
           /\ \E T : Unused(e, T) /\ inbox'[p] \in Seq(S0 \cup T)
<1> DEFINE Goal ==
           /\ rx_nonce'[p] = rx_nonce[p] /\ tx_nonce'[e] >= tx_nonce[e]
           /\ rx'[p].recv_base = rx[p].recv_base /\ rx'[p].recv_bits = rx[p].recv_bits
           /\ \E T : Unused(e, T) /\ inbox'[p] \in Seq(S0 \cup T)
<1> SUFFICES Goal
  OBVIOUS
<1>0. Shape /\ Peer(p) = e /\ p # e
  BY PeerFacts DEF SessionInv
<1>1. tx_nonce[e] \in Nat /\ Ledger(e) /\ Ledger(p) /\ Waits(e) /\ Waits(p)
  BY <1>0, FlowWaits DEF SessionInv, Shape
<1>2. ~ (inbox[p] # << >> /\ Opens(p, Head(inbox[p])))
  <2> SUFFICES ASSUME inbox[p] # << >>, Opens(p, Head(inbox[p])) PROVE FALSE
    OBVIOUS
  <2>1. Head(inbox[p]) \in S0
    BY SeqRead
  <2>2. PICK i \in DOMAIN inbox[p] : Head(inbox[p]) = inbox[p][i]
    BY <2>1
  <2>3. inbox[p][i].kind = "data" /\ inbox[p][i].nonce = rx_nonce[p]
    BY <2>2 DEF Opens
  <2> QED
    BY <2>3 DEF Gap
<1>3. \A T : S0 \subseteq S0 \cup T
  OBVIOUS
<1>4. ASSUME rx_nonce'[p] = rx_nonce[p], tx_nonce'[e] >= tx_nonce[e], rx'[p] = rx[p],
             \A S : inbox[p] \in Seq(S) => inbox'[p] \in Seq(S)
      PROVE  Goal
  <2>1. Unused(e, {}) /\ S0 \cup {} = S0
    BY DEF Unused
  <2>2. inbox'[p] \in Seq(S0 \cup {})
    BY <1>4, <2>1
  <2> QED
    BY <1>4, <2>1, <2>2
<1>5. ASSUME UNCHANGED <<inbox, rx_nonce, tx_nonce, rx>> PROVE Goal
  <2>1. tx_nonce'[e] >= tx_nonce[e]
    BY <1>1, <1>5
  <2>2. rx_nonce'[p] = rx_nonce[p] /\ rx'[p] = rx[p] /\ inbox'[p] = inbox[p]
    BY <1>5
  <2> HIDE DEF Goal
  <2> QED
    BY <1>4, <2>1, <2>2
<1>6. ASSUME NEW x \in Endpoints,
             \/ FlushNew(x) \/ FlushNewFails(x) \/ FlushRetx(x) \/ FlushRetxFails(x) \/ CoverFails(x)
      PROVE  Goal
  <2>0. Waits(x)
    BY <1>1, <1>0, FlowWaits DEF SessionInv
  <2>1. PICK F : \E frames \in Seq(F) : \E n \in 0 .. Len(SealAll(x, frames)) :
                  \E datagrams \in Seq(Flushed(x, frames, n)) : Put(x, frames, n, datagrams)
    BY <1>0, <1>6, <2>0, TurnFlushes
  <2>2. PICK frames \in Seq(F) : \E n \in 0 .. Len(SealAll(x, frames)) :
                  \E datagrams \in Seq(Flushed(x, frames, n)) : Put(x, frames, n, datagrams)
    BY <2>1
  <2>3. PICK n \in 0 .. Len(SealAll(x, frames)) :
                  \E datagrams \in Seq(Flushed(x, frames, n)) : Put(x, frames, n, datagrams)
    BY <2>2
  <2>4. PICK datagrams \in Seq(Flushed(x, frames, n)) : Put(x, frames, n, datagrams)
    BY <2>3
  <2>5. UNCHANGED <<rx, rx_nonce>>
    BY <1>0, <1>6, <2>0, TurnFlushes
  <2>6. /\ tx_nonce'[x] = tx_nonce[x] + n /\ tx_nonce'[Peer(x)] = tx_nonce[Peer(x)]
        /\ inbox'[x] = inbox[x] /\ inbox'[Peer(x)] = inbox[Peer(x)] \o datagrams
    BY <1>0, <2>4, PutShape
  <2>7. CASE x = p
    <3>1. tx_nonce'[e] = tx_nonce[e] /\ inbox'[p] = inbox[p]
      BY <1>0, <2>6, <2>7
    <3>2. tx_nonce'[e] >= tx_nonce[e]
      BY <1>1, <3>1
    <3>3. rx_nonce'[p] = rx_nonce[p] /\ rx'[p] = rx[p]
      BY <2>5
    <3> HIDE DEF Goal
    <3> QED
      BY <1>4, <3>1, <3>2, <3>3
  <2>8. CASE x = e
    <3>1. inbox'[p] = inbox[p] \o datagrams /\ tx_nonce'[e] = tx_nonce[e] + n
      BY <2>6, <2>8
    <3>2. PICK T : T = Flushed(e, frames, n)
      OBVIOUS
    <3>3. Len(SealAll(e, frames)) \in Nat /\ n \in Nat /\ n <= Len(SealAll(e, frames))
      <4>1. Len(SealAll(e, frames)) \in 0 .. Len(frames)
        BY <1>0, SealAllFacts
      <4>2. Len(frames) \in Nat
        BY LenProperties
      <4> QED
        BY <4>1, <4>2, <2>8
    <3>4. Unused(e, T)
      <4> SUFFICES ASSUME NEW d \in T, d.kind = "data" PROVE d.nonce \in Nat /\ d.nonce >= tx_nonce[e]
        BY DEF Unused
      <4>1. PICK i \in 1 .. n : d = SealAll(e, frames)[i]
        BY <3>2 DEF Flushed, Cover
      <4>2. i \in 1 .. Len(SealAll(e, frames))
        BY <3>3
      <4>3. \E f \in {frames[j] : j \in DOMAIN frames} : SealAll(e, frames)[i] = Sealed(tx_nonce[e] + i - 1, f)
        BY <1>0, <4>2, SealAllFacts
      <4>4. d.nonce = tx_nonce[e] + i - 1
        BY <4>1, <4>3 DEF Sealed
      <4> QED
        BY <4>4, <1>1, <3>3
    <3>5. inbox'[p] \in Seq(S0 \cup T)
      <4>1. inbox[p] \in Seq(S0 \cup T)
        BY <1>3, SeqLarger
      <4>2. datagrams \in Seq(S0 \cup T)
        BY <3>2, <2>8, SeqLarger
      <4>3. inbox[p] \o datagrams \in Seq(S0 \cup T)
        BY <4>1, <4>2, ConcatProperties
      <4> QED
        BY <3>1, <4>3
    <3>6. tx_nonce'[e] >= tx_nonce[e]
      BY <3>1, <3>3, <1>1
    <3> QED
      BY <3>4, <3>5, <3>6, <2>5
  <2> QED
    BY <2>7, <2>8, <1>0, PeerFacts DEF Endpoints
<1>7. ASSUME NEW x \in Endpoints, PopMessage(x) PROVE Goal
  <2>1. /\ UNCHANGED <<inbox, rx_nonce, tx_nonce>> /\ rx' = [rx EXCEPT ![x] = pop_delivered(@)]
    BY <1>7 DEF PopMessage, noiseVars
  <2>2. rx'[p] = rx[p] \/ rx'[p] = pop_delivered(rx[p])
    BY <2>1, <1>0 DEF Shape
  <2>3. rx'[p].recv_base = rx[p].recv_base /\ rx'[p].recv_bits = rx[p].recv_bits
    BY <2>2, PopKeepsWindow
  <2>4. Unused(e, {}) /\ S0 \cup {} = S0
    BY DEF Unused
  <2>5. inbox'[p] \in Seq(S0 \cup {})
    BY <2>1, <2>4
  <2>6. tx_nonce'[e] >= tx_nonce[e] /\ rx_nonce'[p] = rx_nonce[p]
    BY <1>1, <2>1
  <2> QED
    BY <2>3, <2>4, <2>5, <2>6
<1>8. ASSUME NEW x \in Endpoints, ReadAck(x) \/ ReadIgnored(x) \/ ReadUnexpected(x) PROVE Goal
  <2>1. UNCHANGED <<rx, tx_nonce>> /\ inbox' = [inbox EXCEPT ![x] = Tail(@)] /\ inbox[x] # << >>
    BY <1>8 DEF ReadAck, ReadIgnored, ReadUnexpected, Reading, arqVars, noiseVars
  <2>2. rx_nonce'[p] = rx_nonce[p]
    <3>1. CASE ReadAck(x)
      <4>1. x # p
        BY <3>1, <1>2 DEF ReadAck, Reading
      <4> QED
        BY <3>1, <4>1 DEF ReadAck
    <3> QED
      BY <3>1, <1>8 DEF ReadIgnored, ReadUnexpected, noiseVars
  <2>3. inbox'[p] = inbox[p] \/ (inbox[p] # << >> /\ inbox'[p] = Tail(inbox[p]))
    BY <2>1, <1>0 DEF Shape
  <2>4. \A S : inbox[p] \in Seq(S) => inbox'[p] \in Seq(S)
    BY <2>3, SeqRead
  <2> QED
    BY <1>1, <2>1, <2>2, <2>4, <1>4
<1>9. ASSUME NEW x \in Endpoints, NEW reply \in {<< >>, <<Sealed(tx_nonce[x], CurrentAck(Ingested(x)))>>},
             Ingest(x, Ingested(x), reply)
      PROVE  Goal
  <2>1. x = e
    <3>1. x # p
      BY <1>9, <1>2 DEF Ingest, Reading
    <3> QED
      BY <3>1, <1>0, PeerFacts DEF Endpoints
  <2>2. PICK d : d = Sealed(tx_nonce[e], CurrentAck(Ingested(e)))
    OBVIOUS
  <2>3. reply \in {<< >>, <<d>>} /\ d.nonce = tx_nonce[e]
    BY <2>1, <2>2 DEF Sealed
  <2>4. /\ inbox' = [inbox EXCEPT ![e] = Tail(@), ![p] = @ \o reply]
        /\ rx' = [rx EXCEPT ![e] = Ingested(e)]
        /\ tx_nonce' = [tx_nonce EXCEPT ![e] = @ + 1]
        /\ rx_nonce' = [rx_nonce EXCEPT ![e] = Head(inbox[e]).nonce + 1]
    BY <1>9, <2>1 DEF Ingest
  <2>5. /\ inbox'[p] = inbox[p] \o reply /\ rx'[p] = rx[p]
        /\ tx_nonce'[e] = tx_nonce[e] + 1 /\ rx_nonce'[p] = rx_nonce[p]
    BY <2>4, <1>0 DEF Shape
  <2>6. Unused(e, {d})
    BY <2>3, <1>1 DEF Unused
  <2>7. inbox'[p] \in Seq(S0 \cup {d})
    <3>1. PICK W : W = S0 \cup {d}
      OBVIOUS
    <3>2. inbox[p] \in Seq(W)
      BY <1>3, <3>1, SeqLarger
    <3>3. d \in W
      BY <3>1
    <3>4. << >> \in Seq(W) /\ <<d>> \in Seq(W)
      BY <3>3
    <3>5. inbox[p] \o reply \in Seq(W)
      BY <3>2, <3>4, <2>3, ConcatProperties
    <3> QED
      BY <3>1, <3>5, <2>5
  <2>8. tx_nonce'[e] >= tx_nonce[e]
    BY <2>5, <1>1
  <2> QED
    BY <2>5, <2>6, <2>7, <2>8
<1>10. ASSUME NEW x \in Endpoints, Lose(x) \/ Swap(x) \/ Duplicate(x) PROVE Goal
  <2>1. /\ inbox'[Peer(x)] = inbox[Peer(x)]
        /\ \A S : inbox[x] \in Seq(S) => inbox'[x] \in Seq(S)
        /\ UNCHANGED <<arqVars, noiseVars>>
    BY <1>0, <1>10, NetworkMixes
  <2>2. \A S : inbox[p] \in Seq(S) => inbox'[p] \in Seq(S)
    <3>1. x = p \/ Peer(x) = p
      BY <1>0, PeerFacts DEF Endpoints
    <3> QED
      BY <3>1, <2>1
  <2>3. UNCHANGED <<rx, rx_nonce, tx_nonce>>
    BY <2>1 DEF arqVars, noiseVars
  <2>4. tx_nonce'[e] >= tx_nonce[e]
    BY <1>1, <2>3
  <2>5. rx_nonce'[p] = rx_nonce[p] /\ rx'[p] = rx[p]
    BY <2>3
  <2> HIDE DEF Goal
  <2> QED
    BY <1>4, <2>2, <2>4, <2>5
<1>11. ASSUME NEW x \in Endpoints, Turn(x) PROVE Goal
  <2>1. CASE FlushGiveUp(x) \/ ReadFails(x)
    BY <2>1, <1>5 DEF FlushGiveUp, ReadFails, arqVars, noiseVars
  <2>2. CASE ReadData(x)
    BY <2>2, <1>9 DEF ReadData
  <2>3. CASE AckFails(x)
    BY <2>3, <1>9 DEF AckFails
  <2> HIDE DEF Goal
  <2> QED
    BY <1>11, <2>1, <2>2, <2>3, <1>6, <1>7, <1>8 DEF Turn
<1>12. CASE (\E x \in Endpoints, n \in Sizes : Send(x, n)) \/ Tick
            \/ (\E x \in Endpoints : SendTooLarge(x) \/ Recv(x) \/ Configure(x)) \/ UNCHANGED vars
  <2>1. UNCHANGED <<inbox, rx_nonce, tx_nonce, rx>>
    BY <1>12, Tuning DEF Send, Tick, SendTooLarge, Recv, vars, arqVars, noiseVars
  <2> QED
    BY <2>1, <1>5
<1> HIDE DEF Goal
<1> QED
  BY <1>10, <1>11, <1>12 DEF Next

\* A direction in which the expected datagram is gone is dead: no counter, no
\* window of the receiver ever moves again (the transport of noise.rs takes the
\* next counter only).
THEOREM GapsArePermanent == Spec => GapIsPermanent
<1>1. ASSUME SessionInv, [Next]_vars, NEW e \in Endpoints, Gap(e)
      PROVE  /\ Gap(e)'
             /\ rx'[Peer(e)].recv_base = rx[Peer(e)].recv_base
             /\ rx'[Peer(e)].recv_bits = rx[Peer(e)].recv_bits
  <2>1. PICK p \in Endpoints : p = Peer(e)
    BY PeerFacts
  <2>2. PICK S0 : S0 = {inbox[p][i] : i \in DOMAIN inbox[p]}
    OBVIOUS
  <2>3. inbox[p] \in Seq(S0)
    <3>1. PICK L : inbox[p] \in Seq(Written(p, L))
      BY <1>1 DEF SessionInv, Ledger
    <3>2. Len(inbox[p]) \in Nat /\ DOMAIN inbox[p] = 1 .. Len(inbox[p]) /\ inbox[p] \in [1 .. Len(inbox[p]) -> Written(p, L)]
      BY <3>1, LenProperties
    <3>3. inbox[p] \in [1 .. Len(inbox[p]) -> S0]
      BY <2>2, <3>2
    <3> QED
      BY <3>2, <3>3
  <2>4. /\ rx_nonce'[p] = rx_nonce[p] /\ tx_nonce'[e] >= tx_nonce[e]
        /\ rx'[p].recv_base = rx[p].recv_base /\ rx'[p].recv_bits = rx[p].recv_bits
        /\ \E T : Unused(e, T) /\ inbox'[p] \in Seq(S0 \cup T)
    BY <1>1, <2>1, <2>2, <2>3, GapStep
  <2>5. PICK T : Unused(e, T) /\ inbox'[p] \in Seq(S0 \cup T)
    BY <2>4
  <2>6. PICK r : r = rx_nonce[p]
    OBVIOUS
  <2>7. r \in Nat /\ tx_nonce[e] \in Nat /\ r < tx_nonce[e]
    BY <1>1, <2>1, <2>6 DEF SessionInv, Shape, Gap
  <2>8. ASSUME NEW d \in S0 \cup T, d.kind = "data" PROVE d.nonce # r
    <3>1. CASE d \in S0
      BY <1>1, <2>1, <2>2, <2>6, <2>8, <3>1 DEF Gap
    <3>2. CASE d \in T
      <4>1. d.nonce \in Nat /\ d.nonce >= tx_nonce[e]
        BY <3>2, <2>5, <2>8 DEF Unused
      <4> QED
        BY <4>1, <2>7
    <3> QED
      BY <3>1, <3>2
  <2>9. \A i \in DOMAIN inbox'[p] : inbox'[p][i] \in S0 \cup T
    BY <2>5, LenProperties, ElementOfSeq
  <2>10. rx_nonce'[p] < tx_nonce'[e]
    <3>1. tx_nonce'[e] \in Nat
      BY <1>1, SessionStep DEF SessionInv, Shape
    <3> QED
      BY <3>1, <2>4, <2>6, <2>7
  <2>11. Gap(e)'
    BY <2>1, <2>4, <2>6, <2>8, <2>9, <2>10 DEF Gap
  <2> QED
    BY <2>1, <2>4, <2>11
<1>2. SessionInv /\ [Next]_vars =>
        [\A e \in Endpoints : Gap(e) =>
            /\ Gap(e)'
            /\ rx'[Peer(e)].recv_base = rx[Peer(e)].recv_base
            /\ rx'[Peer(e)].recv_bits = rx[Peer(e)].recv_bits]_vars
  BY <1>1
<1> QED
  BY <1>2, SessionInvHolds, PTL DEF Spec, GapIsPermanent

-----------------------------------------------------------------------------
(***************************************************************************)
(* A send that returns Ok has delivered everything queued so far.          *)
(***************************************************************************)

\* A step of the loop leaves `settled' alone unless a send returns Ok, and then
\* nothing the endpoint queued is outstanding.
LEMMA SettledMoves ==
    ASSUME Shape, [Next]_vars, NEW e \in Endpoints
    PROVE  \/ settled'[e] = settled[e]
           \/ settled'[e] = Len(queued[e]) /\ DOMAIN tx[e].unacked = {}
<1>1. ASSUME NEW x \in Endpoints, NEW how, Return(x, how), how # "send ok"
      PROVE  settled'[e] = settled[e]
  BY <1>1 DEF Return, Shape
<1>2. ASSUME NEW x \in Endpoints, NEW where, Goto(x, where)
      PROVE  settled'[e] = settled[e]
  BY <1>2 DEF Goto
<1>3. ASSUME NEW x \in Endpoints, FlushRetx(x)
      PROVE  \/ settled'[e] = settled[e]
             \/ settled'[e] = Len(queued[e]) /\ DOMAIN tx[e].unacked = {}
  <2>1. CASE SendDone(x)
    <3>1. settled' = [settled EXCEPT ![x] = Len(queued[x])] /\ DOMAIN tx[x].unacked = {}
      BY <1>3, <2>1 DEF FlushRetx, Return, SendDone
    <3> QED
      BY <3>1 DEF Shape
  <2>2. CASE ~ SendDone(x)
    <3>1. \/ Return(x, "send timeout") \/ Return(x, "recv timeout") \/ Goto(x, "block")
      BY <1>3, <2>2 DEF FlushRetx
    <3> QED
      BY <3>1, <1>1, <1>2
  <2> QED
    BY <2>1, <2>2
<1>4. ASSUME NEW x \in Endpoints, Turn(x), ~ FlushRetx(x)
      PROVE  settled'[e] = settled[e]
  <2>1. \/ Return(x, "recv ok") \/ Return(x, "not sent") \/ Return(x, "give up")
        \/ Return(x, "unexpected type") \/ Return(x, "not read") \/ Goto(x, "retx")
        \/ Goto(x, LoopHead(x, rx[x])) \/ Goto(x, LoopHead(x, Ingested(x)))
    BY <1>4 DEF Turn, PopMessage, FlushNew, FlushNewFails, FlushRetxFails, CoverFails, FlushGiveUp,
                ReadAck, ReadIgnored, ReadUnexpected, ReadFails, ReadData, AckFails
  <2> QED
    BY <2>1, <1>1, <1>2
<1>5. CASE (\E x \in Endpoints, n \in Sizes : Send(x, n)) \/ Tick
            \/ (\E x \in Endpoints : SendTooLarge(x) \/ Recv(x) \/ Lose(x) \/ Swap(x) \/ Duplicate(x))
            \/ UNCHANGED vars
  BY <1>5 DEF Send, Tick, SendTooLarge, Recv, Lose, Swap, Duplicate, Misbehave, vars, loopVars
<1>6. CASE \E x \in Endpoints : Configure(x)
  BY <1>6, Tuning
<1> QED
  BY <1>3, <1>4, <1>5, <1>6 DEF Next

\* Of each flow: what is proved about it, and that every message counted by
\* `settled' has been accepted as a whole.
InitiatorSettled ==
    /\ InitiatorArq!DeliveryInv
    /\ \A m \in 1 .. settled["initiator"] :
        m \in DOMAIN queued["initiator"] /\ InitiatorArq!Whole(m)

ResponderSettled ==
    /\ ResponderArq!DeliveryInv
    /\ \A m \in 1 .. settled["responder"] :
        m \in DOMAIN queued["responder"] /\ ResponderArq!Whole(m)

SettledInv == SessionInv /\ InitiatorSettled /\ ResponderSettled

\* Fragment ids outlast the receive window: 65536 against 64.
IdsOutlastWindow == FRAG_MOD > RECV_WINDOW

LEMMA InitiatorSettles ==
    ASSUME IdsOutlastWindow, SettledInv, [Next]_vars
    PROVE  InitiatorSettled'
<1>1. [InitiatorArq!Next]_(InitiatorArq!vars)
  BY FlowsOfStep, InitiatorArqSteps DEF SettledInv
<1>2. InitiatorArq!IdsOutlastWindow
  BY DEF IdsOutlastWindow, InitiatorArq!IdsOutlastWindow
<1>3. InitiatorArq!DeliveryInv
  BY DEF SettledInv, InitiatorSettled
<1>4. InitiatorArq!DeliveryInv'
  BY <1>1, <1>2, <1>3, InitiatorArq!DeliveryStep, ArqConstants, WidthsAssumption
     DEF Seqs, Ages, InitiatorArq!Seqs, InitiatorArq!Ages
<1>5. \A m \in DOMAIN queued["initiator"] :
        /\ m \in DOMAIN queued'["initiator"]
        /\ InitiatorArq!Whole(m) => InitiatorArq!Whole(m)'
  BY <1>1, <1>3, InitiatorArq!WholeStays, ArqConstants, WidthsAssumption
     DEF Seqs, Ages, InitiatorArq!Seqs, InitiatorArq!Ages
<1>6. \/ settled'["initiator"] = settled["initiator"]
      \/ settled'["initiator"] = Len(queued["initiator"]) /\ DOMAIN tx["initiator"].unacked = {}
  BY SettledMoves DEF SettledInv, SessionInv, Endpoints
<1>7. ASSUME DOMAIN tx["initiator"].unacked = {}
      PROVE  \A m \in DOMAIN queued["initiator"] : InitiatorArq!Whole(m)
  BY <1>3, <1>7, InitiatorArq!RetiredIsWhole, ArqConstants, WidthsAssumption
     DEF Seqs, Ages, InitiatorArq!Seqs, InitiatorArq!Ages
<1>8. DOMAIN queued["initiator"] = 1 .. Len(queued["initiator"])
  <2>1. PICK S : queued["initiator"] \in Seq(S)
    BY <1>3 DEF InitiatorArq!DeliveryInv, InitiatorArq!NoFalseAckInv, InitiatorArq!TypeOK
  <2> QED
    BY <2>1, LenProperties
<1>9. \A m \in 1 .. settled'["initiator"] : m \in DOMAIN queued["initiator"] /\ InitiatorArq!Whole(m)
  BY <1>6, <1>7, <1>8 DEF SettledInv, InitiatorSettled
<1> QED
  BY <1>4, <1>5, <1>9 DEF InitiatorSettled

LEMMA ResponderSettles ==
    ASSUME IdsOutlastWindow, SettledInv, [Next]_vars
    PROVE  ResponderSettled'
<1>1. [ResponderArq!Next]_(ResponderArq!vars)
  BY FlowsOfStep, ResponderArqSteps DEF SettledInv
<1>2. ResponderArq!IdsOutlastWindow
  BY DEF IdsOutlastWindow, ResponderArq!IdsOutlastWindow
<1>3. ResponderArq!DeliveryInv
  BY DEF SettledInv, ResponderSettled
<1>4. ResponderArq!DeliveryInv'
  BY <1>1, <1>2, <1>3, ResponderArq!DeliveryStep, ArqConstants, WidthsAssumption
     DEF Seqs, Ages, ResponderArq!Seqs, ResponderArq!Ages
<1>5. \A m \in DOMAIN queued["responder"] :
        /\ m \in DOMAIN queued'["responder"]
        /\ ResponderArq!Whole(m) => ResponderArq!Whole(m)'
  BY <1>1, <1>3, ResponderArq!WholeStays, ArqConstants, WidthsAssumption
     DEF Seqs, Ages, ResponderArq!Seqs, ResponderArq!Ages
<1>6. \/ settled'["responder"] = settled["responder"]
      \/ settled'["responder"] = Len(queued["responder"]) /\ DOMAIN tx["responder"].unacked = {}
  BY SettledMoves DEF SettledInv, SessionInv, Endpoints
<1>7. ASSUME DOMAIN tx["responder"].unacked = {}
      PROVE  \A m \in DOMAIN queued["responder"] : ResponderArq!Whole(m)
  BY <1>3, <1>7, ResponderArq!RetiredIsWhole, ArqConstants, WidthsAssumption
     DEF Seqs, Ages, ResponderArq!Seqs, ResponderArq!Ages
<1>8. DOMAIN queued["responder"] = 1 .. Len(queued["responder"])
  <2>1. PICK S : queued["responder"] \in Seq(S)
    BY <1>3 DEF ResponderArq!DeliveryInv, ResponderArq!NoFalseAckInv, ResponderArq!TypeOK
  <2> QED
    BY <2>1, LenProperties
<1>9. \A m \in 1 .. settled'["responder"] : m \in DOMAIN queued["responder"] /\ ResponderArq!Whole(m)
  BY <1>6, <1>7, <1>8 DEF SettledInv, ResponderSettled
<1> QED
  BY <1>4, <1>5, <1>9 DEF ResponderSettled

\* It holds at first.
LEMMA SettledInit == Init => SettledInv
<1> SUFFICES ASSUME Init PROVE InitiatorSettled /\ ResponderSettled
  BY SessionInit DEF SettledInv
<1>1. settled["initiator"] = 0 /\ settled["responder"] = 0
  BY DEF Init, Endpoints
<1>2. InitiatorArq!DeliveryInv
  BY InitiatorArqInit, InitiatorArq!DeliveryInit, ArqConstants, WidthsAssumption
     DEF Seqs, Ages, InitiatorArq!Seqs, InitiatorArq!Ages
<1>3. ResponderArq!DeliveryInv
  BY ResponderArqInit, ResponderArq!DeliveryInit, ArqConstants, WidthsAssumption
     DEF Seqs, Ages, ResponderArq!Seqs, ResponderArq!Ages
<1>4. \A m \in 1 .. 0 : FALSE
  OBVIOUS
<1> QED
  BY <1>1, <1>2, <1>3, <1>4 DEF InitiatorSettled, ResponderSettled

\* When a send has returned Ok, the peer has every message queued so far, each
\* as it was queued, whatever the network, the sealing, failed calls and the
\* wrap of numbers and fragment ids did in between.
THEOREM OkMeansDelivered ==
    ASSUME IdsOutlastWindow
    PROVE  Spec => []SendOkDelivered
<1>1. SettledInv /\ [Next]_vars => SettledInv'
  BY SessionStep, InitiatorSettles, ResponderSettles DEF SettledInv
<1>2. SettledInv => SendOkDelivered
  <2> SUFFICES ASSUME SettledInv, NEW e \in Endpoints, NEW m \in 1 .. settled[e]
               PROVE  \E i \in DOMAIN Delivered(Peer(e)) :
                          Delivered(Peer(e))[i] = Content(m, queued[e][m].chunks)
    BY DEF SendOkDelivered
  <2>1. CASE e = "initiator"
    <3>1. m \in DOMAIN queued["initiator"] /\ InitiatorArq!Whole(m) /\ InitiatorArq!HandedOver
      BY <2>1 DEF SettledInv, InitiatorSettled, InitiatorArq!DeliveryInv
    <3>2. InitiatorArq!Delivered = Delivered("responder")
      BY DEF InitiatorArq!Delivered, Delivered
    <3>3. \A n : InitiatorArq!Content(m, n) = Content(m, n)
      BY DEF InitiatorArq!Content, Content, InitiatorArq!FrameCount, FrameCount
    <3> QED
      BY <2>1, <3>1, <3>2, <3>3, PeerFacts DEF InitiatorArq!HandedOver
  <2>2. CASE e = "responder"
    <3>1. m \in DOMAIN queued["responder"] /\ ResponderArq!Whole(m) /\ ResponderArq!HandedOver
      BY <2>2 DEF SettledInv, ResponderSettled, ResponderArq!DeliveryInv
    <3>2. ResponderArq!Delivered = Delivered("initiator")
      BY DEF ResponderArq!Delivered, Delivered
    <3>3. \A n : ResponderArq!Content(m, n) = Content(m, n)
      BY DEF ResponderArq!Content, Content, ResponderArq!FrameCount, FrameCount
    <3> QED
      BY <2>2, <3>1, <3>2, <3>3, PeerFacts DEF ResponderArq!HandedOver
  <2> QED
    BY <2>1, <2>2 DEF Endpoints
<1> QED
  BY <1>1, <1>2, SettledInit, PTL DEF Spec

-----------------------------------------------------------------------------
(***************************************************************************)
(* A session that has given up stays given up.                             *)
(***************************************************************************)

\* A send half as the flows keep it, whatever its frames are.
SendHalf(t) ==
    /\ t = [next_seq |-> t.next_seq, next_frag_id |-> t.next_frag_id,
            unacked |-> t.unacked, retx |-> t.retx]
    /\ t.retx \in Ages
    /\ DOMAIN t.unacked \subseteq Seqs
    /\ \E F : t.unacked \in
        [DOMAIN t.unacked -> [plaintext : F, age : Ages \cup {Never}, attempts : 0 .. MAX_ATTEMPTS]]

LEMMA SendHalves ==
    ASSUME InitiatorArq!NoFalseAckInv, ResponderArq!NoFalseAckInv, NEW e \in Endpoints
    PROVE  SendHalf(tx[e])
<1>1. SendHalf(tx["initiator"])
  <2>1. InitiatorArq!TxTypeOK
    BY DEF InitiatorArq!NoFalseAckInv, InitiatorArq!TypeOK
  <2>2. PICK F : F = InitiatorArq!DataFrames
    OBVIOUS
  <2>3. InitiatorArq!Slots = [plaintext : F, age : Ages \cup {Never}, attempts : 0 .. MAX_ATTEMPTS]
    BY <2>2 DEF InitiatorArq!Slots, InitiatorArq!Ages, Ages, InitiatorArq!Never, Never
  <2>4. \A S : S = InitiatorArq!Slots => tx["initiator"].unacked \in [DOMAIN tx["initiator"].unacked -> S]
    BY <2>1 DEF InitiatorArq!TxTypeOK
  <2>5. tx["initiator"].unacked \in [DOMAIN tx["initiator"].unacked ->
            [plaintext : F, age : Ages \cup {Never}, attempts : 0 .. MAX_ATTEMPTS]]
    BY <2>3, <2>4
  <2> QED
    BY <2>1, <2>5, ArqConstants DEF SendHalf, InitiatorArq!TxTypeOK, InitiatorArq!Seqs, Seqs
<1>2. SendHalf(tx["responder"])
  <2>1. ResponderArq!TxTypeOK
    BY DEF ResponderArq!NoFalseAckInv, ResponderArq!TypeOK
  <2>2. PICK F : F = ResponderArq!DataFrames
    OBVIOUS
  <2>3. ResponderArq!Slots = [plaintext : F, age : Ages \cup {Never}, attempts : 0 .. MAX_ATTEMPTS]
    BY <2>2 DEF ResponderArq!Slots, ResponderArq!Ages, Ages, ResponderArq!Never, Never
  <2>4. \A S : S = ResponderArq!Slots => tx["responder"].unacked \in [DOMAIN tx["responder"].unacked -> S]
    BY <2>1 DEF ResponderArq!TxTypeOK
  <2>5. tx["responder"].unacked \in [DOMAIN tx["responder"].unacked ->
            [plaintext : F, age : Ages \cup {Never}, attempts : 0 .. MAX_ATTEMPTS]]
    BY <2>3, <2>4
  <2> QED
    BY <2>1, <2>5, ArqConstants DEF SendHalf, ResponderArq!TxTypeOK, ResponderArq!Seqs, Seqs
<1> QED
  BY <1>1, <1>2 DEF Endpoints

\* Only an ACK takes a slot away or changes what an exhausted one says.
LEMMA ExhaustedKept ==
    ASSUME NEW t, SendHalf(t), NEW u, u \in {t, take_new_sends(t), take_retransmits(t), Elapse(t)}
    PROVE  /\ Exhausted(t) \subseteq Exhausted(u)
           /\ DOMAIN u.unacked = DOMAIN t.unacked
           /\ \A s \in DOMAIN t.unacked : u.unacked[s].plaintext = t.unacked[s].plaintext
<1>1. PICK F : t.unacked \in
        [DOMAIN t.unacked -> [plaintext : F, age : Ages \cup {Never}, attempts : 0 .. MAX_ATTEMPTS]]
  BY DEF SendHalf
<1> DEFINE Changed ==
        /\ u.retx = t.retx /\ DOMAIN u.unacked = DOMAIN t.unacked
        /\ \A s \in DOMAIN t.unacked :
            \/ u.unacked[s] = t.unacked[s]
            \/ s \in NewSends(t) /\ u.unacked[s] = [t.unacked[s] EXCEPT !.age = 0, !.attempts = 1]
            \/ s \in Retransmits(t) /\ u.unacked[s] = [t.unacked[s] EXCEPT !.age = 0, !.attempts = @ + 1]
            \/ s \in Sent(t) /\ u.unacked[s] = [t.unacked[s] EXCEPT !.age = @ + 1]
<1>a. t = [next_seq |-> t.next_seq, next_frag_id |-> t.next_frag_id, unacked |-> t.unacked, retx |-> t.retx]
  BY DEF SendHalf
<1>b. \A f : [t EXCEPT !.unacked = f].unacked = f /\ [t EXCEPT !.unacked = f].retx = t.retx
  BY <1>a
<1>2. Changed
  <2>1. CASE u = t
    BY <2>1
  <2>2. CASE u = take_new_sends(t)
    <3>1. PICK f : f = [s \in DOMAIN t.unacked |->
                        IF s \in NewSends(t) THEN [t.unacked[s] EXCEPT !.age = 0, !.attempts = 1] ELSE t.unacked[s]]
      OBVIOUS
    <3>2. u = [t EXCEPT !.unacked = f]
      BY <2>2, <3>1 DEF take_new_sends
    <3>3. u.unacked = f /\ u.retx = t.retx
      BY <1>b, <3>2
    <3> QED
      BY <3>1, <3>3
  <2>3. CASE u = take_retransmits(t)
    <3>1. PICK f : f = [s \in DOMAIN t.unacked |->
                        IF s \in Retransmits(t)
                        THEN [t.unacked[s] EXCEPT !.age = 0, !.attempts = @ + 1] ELSE t.unacked[s]]
      OBVIOUS
    <3>2. u = [t EXCEPT !.unacked = f]
      BY <2>3, <3>1 DEF take_retransmits
    <3>3. u.unacked = f /\ u.retx = t.retx
      BY <1>b, <3>2
    <3> QED
      BY <3>1, <3>3
  <2>4. CASE u = Elapse(t)
    <3>1. PICK f : f = [s \in DOMAIN t.unacked |->
                        IF s \in Sent(t) /\ t.unacked[s].age < MAX_AGE
                        THEN [t.unacked[s] EXCEPT !.age = @ + 1] ELSE t.unacked[s]]
      OBVIOUS
    <3>2. u = [t EXCEPT !.unacked = f]
      BY <2>4, <3>1 DEF Elapse
    <3>3. u.unacked = f /\ u.retx = t.retx
      BY <1>b, <3>2
    <3> QED
      BY <3>1, <3>3
  <2> QED
    BY <2>1, <2>2, <2>3, <2>4
<1>3. ASSUME NEW s \in DOMAIN t.unacked
      PROVE  /\ t.unacked[s].age \in Int /\ t.unacked[s].attempts \in Int
             /\ u.unacked[s].plaintext = t.unacked[s].plaintext
  <2>1. PICK c : c = t.unacked[s]
    OBVIOUS
  <2>2. c \in [plaintext : F, age : Ages \cup {Never}, attempts : 0 .. MAX_ATTEMPTS]
    BY <1>1, <2>1
  <2>3. c.age \in Int /\ c.attempts \in Int
    BY <2>2, WidthsAssumption DEF Ages, Never
  <2>4. /\ [c EXCEPT !.age = 0, !.attempts = 1].plaintext = c.plaintext
        /\ [c EXCEPT !.age = 0, !.attempts = @ + 1].plaintext = c.plaintext
        /\ [c EXCEPT !.age = @ + 1].plaintext = c.plaintext
    BY <2>2
  <2>5. u.unacked[s].plaintext = c.plaintext
    BY <1>2, <2>1, <2>4
  <2> QED
    BY <2>1, <2>3, <2>5
<1>4. ASSUME NEW s \in Exhausted(t) PROVE s \in Exhausted(u)
  <2>1. /\ s \in DOMAIN t.unacked /\ s \notin Retransmits(t) /\ s \notin NewSends(t) /\ s \in Sent(t)
        /\ t.unacked[s].age >= t.retx /\ t.unacked[s].attempts >= MAX_ATTEMPTS
    <3>1. s \in DOMAIN t.unacked /\ s \in Int
      BY WidthsAssumption DEF Exhausted, Due, Sent, SendHalf, Seqs
    <3> QED
      BY <3>1 DEF Exhausted, Due, Sent, Retransmits, NewSends, Unsent
  <2>2. t.unacked[s].age \in Ages /\ t.unacked[s].age # Never /\ t.retx \in Ages
    BY <1>1, <2>1 DEF Sent, SendHalf
  <2>3. CASE u.unacked[s] = t.unacked[s]
    BY <1>2, <2>1, <2>3 DEF Exhausted, Due, Sent
  <2>4. CASE u.unacked[s] = [t.unacked[s] EXCEPT !.age = @ + 1]
    <3>1. u.unacked[s].age = t.unacked[s].age + 1 /\ u.unacked[s].attempts = t.unacked[s].attempts
      <4>1. PICK c \in [plaintext : F, age : Ages \cup {Never}, attempts : 0 .. MAX_ATTEMPTS] : c = t.unacked[s]
        BY <1>1, <2>1
      <4>2. [c EXCEPT !.age = @ + 1].age = c.age + 1 /\ [c EXCEPT !.age = @ + 1].attempts = c.attempts
        OBVIOUS
      <4> QED
        BY <2>4, <4>1, <4>2
    <3>2. u.unacked[s].age >= u.retx /\ u.unacked[s].age # Never
      <4>1. u.retx = t.retx
        BY <1>2
      <4>2. PICK a, r : a = t.unacked[s].age /\ r = t.retx
        OBVIOUS
      <4>3. a \in Int /\ r \in Int /\ a >= r /\ r >= 0
        BY <2>1, <2>2, <4>2, WidthsAssumption DEF Ages
      <4>4. a + 1 >= r /\ a + 1 # -1
        BY <4>3
      <4> QED
        BY <3>1, <4>1, <4>2, <4>4 DEF Never
    <3> QED
      BY <1>2, <2>1, <3>1, <3>2 DEF Exhausted, Due, Sent
  <2> QED
    BY <1>2, <2>1, <2>3, <2>4
<1> QED
  BY <1>2, <1>3, <1>4

\* enqueue leaves the slots there are alone.
LEMMA SendKeepsSlots ==
    ASSUME SessionInv, NEW e \in Endpoints, NEW n \in Sizes, Send(e, n)
    PROVE  /\ tx'[e].retx = tx[e].retx
           /\ \A s \in DOMAIN tx[e].unacked :
                s \in DOMAIN tx'[e].unacked /\ tx'[e].unacked[s] = tx[e].unacked[s]
<1>0. /\ wrapping_sub(tx[e].next_seq, START) + FrameCount(n) <= MaxFrames
      /\ tx'[e] = enqueue(tx[e], Len(queued[e]) + 1, n)
      /\ queued'[e] = Append(queued[e], [first |-> tx[e].next_seq, chunks |-> n])
      /\ UNCHANGED <<rx, out, gave_up, popped>>
  BY DEF Send, SessionInv, Shape
<1>a. tx'[e].retx = tx[e].retx
  <2>1. PICK t : t = tx[e]
    OBVIOUS
  <2>2. t = [next_seq |-> t.next_seq, next_frag_id |-> t.next_frag_id, unacked |-> t.unacked, retx |-> t.retx]
    BY <2>1, SendHalves DEF SessionInv, SendHalf
  <2>3. \A m : enqueue(t, m, n).retx = t.retx
    BY <2>2 DEF enqueue
  <2> QED
    BY <1>0, <2>1, <2>3
<1>1. CASE e = "initiator"
  <2>0. FlowEnqueue("initiator", "responder", n)
    BY <1>0, <1>1 DEF FlowEnqueue, FlowWire, Frames
  <2>1. InitiatorArq!Enqueue(n)
    BY <2>0, Zenon DEF FlowEnqueue, FlowWire, InitiatorArq!Enqueue, InitiatorArq!Offset, InitiatorArq!enqueue, enqueue,
       InitiatorArq!FrameCount, FrameCount, InitiatorArq!NextSeq, NextSeq, InitiatorArq!NextFragId, NextFragId,
       InitiatorArq!wrapping_add, wrapping_add, InitiatorArq!wrapping_sub, wrapping_sub,
       InitiatorArq!encode_data, encode_data, InitiatorArq!Never, Never
  <2>2. \A s \in DOMAIN tx["initiator"].unacked :
            s \in DOMAIN tx'["initiator"].unacked /\ tx'["initiator"].unacked[s] = tx["initiator"].unacked[s]
    BY <2>1, InitiatorArq!EnqueueSlots, ArqConstants, WidthsAssumption
       DEF SessionInv, InitiatorArq!NoFalseAckInv, Seqs, Ages, InitiatorArq!Seqs, InitiatorArq!Ages
  <2> QED
    BY <1>0, <1>1, <1>a, <2>2
<1>2. CASE e = "responder"
  <2>0. FlowEnqueue("responder", "initiator", n)
    BY <1>0, <1>2 DEF FlowEnqueue, FlowWire, Frames
  <2>1. ResponderArq!Enqueue(n)
    BY <2>0, Zenon DEF FlowEnqueue, FlowWire, ResponderArq!Enqueue, ResponderArq!Offset, ResponderArq!enqueue, enqueue,
       ResponderArq!FrameCount, FrameCount, ResponderArq!NextSeq, NextSeq, ResponderArq!NextFragId, NextFragId,
       ResponderArq!wrapping_add, wrapping_add, ResponderArq!wrapping_sub, wrapping_sub,
       ResponderArq!encode_data, encode_data, ResponderArq!Never, Never
  <2>2. \A s \in DOMAIN tx["responder"].unacked :
            s \in DOMAIN tx'["responder"].unacked /\ tx'["responder"].unacked[s] = tx["responder"].unacked[s]
    BY <2>1, ResponderArq!EnqueueSlots, ArqConstants, WidthsAssumption
       DEF SessionInv, ResponderArq!NoFalseAckInv, Seqs, Ages, ResponderArq!Seqs, ResponderArq!Ages
  <2> QED
    BY <1>0, <1>2, <1>a, <2>2
<1> QED
  BY <1>1, <1>2 DEF Endpoints

\* What a step other than reading an ACK does to the slots of an endpoint.
LEMMA SlotsKept ==
    ASSUME SessionInv, [Next]_vars, NEW e \in Endpoints, ~ ReadAck(e)
    PROVE  /\ Exhausted(tx[e]) \subseteq Exhausted(tx'[e]) \/ tx'[e].retx > tx[e].retx
           /\ \A s \in DOMAIN tx[e].unacked :
                s \in DOMAIN tx'[e].unacked /\ tx'[e].unacked[s].plaintext = tx[e].unacked[s].plaintext
<1> DEFINE Goal ==
           /\ Exhausted(tx[e]) \subseteq Exhausted(tx'[e]) \/ tx'[e].retx > tx[e].retx
           /\ \A s \in DOMAIN tx[e].unacked :
                s \in DOMAIN tx'[e].unacked /\ tx'[e].unacked[s].plaintext = tx[e].unacked[s].plaintext
<1> SUFFICES Goal
  OBVIOUS
<1>0. Shape /\ SendHalf(tx[e])
  BY SendHalves DEF SessionInv
<1>1. ASSUME tx'[e] \in {tx[e], take_new_sends(tx[e]), take_retransmits(tx[e]), Elapse(tx[e])} PROVE Goal
  BY <1>0, <1>1, ExhaustedKept
<1>2. ASSUME NEW x \in Endpoints, NEW n \in Sizes, Send(x, n) PROVE Goal
  <2>1. CASE x = e
    <3>1. /\ tx'[e].retx = tx[e].retx
          /\ \A s \in DOMAIN tx[e].unacked :
                s \in DOMAIN tx'[e].unacked /\ tx'[e].unacked[s] = tx[e].unacked[s]
      BY <1>2, <2>1, SendKeepsSlots
    <3> QED
      BY <3>1 DEF Exhausted, Due, Sent
  <2>2. CASE x # e
    <3>1. tx'[e] = tx[e]
      BY <1>0, <1>2, <2>2 DEF Send, Shape
    <3> QED
      BY <3>1
  <2> QED
    BY <2>1, <2>2
<1>3. ASSUME NEW x \in Endpoints, Turn(x) PROVE Goal
  <2>1. CASE x = e
    <3>1. tx'[e] \in {tx[e], take_new_sends(tx[e]), take_retransmits(tx[e]), Elapse(tx[e])}
      BY <1>0, <1>3, <2>1 DEF Shape, Turn, PopMessage, FlushNew, FlushNewFails, FlushRetx, FlushRetxFails,
         CoverFails, FlushGiveUp, ReadIgnored, ReadUnexpected, ReadFails, ReadData, AckFails, Ingest, arqVars
    <3> QED
      BY <3>1, <1>1
  <2>2. CASE x # e
    <3>1. tx'[e] = tx[e]
      BY <1>0, <1>3, <2>2 DEF Shape, Turn, PopMessage, FlushNew, FlushNewFails, FlushRetx, FlushRetxFails,
         CoverFails, FlushGiveUp, ReadAck, ReadIgnored, ReadUnexpected, ReadFails, ReadData, AckFails, Ingest, arqVars
    <3> QED
      BY <3>1
  <2> QED
    BY <2>1, <2>2
<1>4. CASE Tick
  <2>1. tx'[e] = Elapse(tx[e])
    BY <1>4 DEF Tick
  <2> QED
    BY <2>1, <1>1
<1>5. CASE (\E x \in Endpoints : SendTooLarge(x) \/ Recv(x) \/ Lose(x) \/ Swap(x) \/ Duplicate(x))
            \/ UNCHANGED vars
  <2>1. tx'[e] = tx[e]
    BY <1>5 DEF SendTooLarge, Recv, Lose, Swap, Duplicate, Misbehave, vars, arqVars
  <2> QED
    BY <2>1
<1>6. ASSUME NEW x \in Endpoints, Configure(x) PROVE Goal
  <2>1. CASE tx'[e] = tx[e]
    BY <2>1
  <2>2. ASSUME NEW d \in RetxValues, tx'[e] = set_retx(tx[e], d) PROVE Goal
    <3>1. PICK t : t = tx[e]
      OBVIOUS
    <3>2. /\ t = [next_seq |-> t.next_seq, next_frag_id |-> t.next_frag_id, unacked |-> t.unacked, retx |-> t.retx]
          /\ t.retx \in Ages
          /\ \E F : t.unacked \in
              [DOMAIN t.unacked -> [plaintext : F, age : Ages \cup {Never}, attempts : 0 .. MAX_ATTEMPTS]]
      BY <1>0, <3>1 DEF SendHalf
    <3>3. set_retx(t, d).unacked = t.unacked /\ set_retx(t, d).retx = d
      BY <3>2 DEF set_retx
    <3>4. \A s \in DOMAIN t.unacked : t.unacked[s].age \in Int
      BY <3>2, WidthsAssumption DEF Ages, Never
    <3>5. d \in Int /\ t.retx \in Int
      BY <3>2, ArqConstants, WidthsAssumption DEF Ages
    <3>6. CASE d <= t.retx
      BY <2>2, <3>1, <3>3, <3>4, <3>5, <3>6 DEF Exhausted, Due, Sent
    <3>7. CASE d > t.retx
      BY <2>2, <3>1, <3>3, <3>7
    <3> QED
      BY <3>5, <3>6, <3>7
  <2>3. tx'[e] = tx[e] \/ \E d \in RetxValues : tx'[e] = set_retx(tx[e], d)
    <3>1. CASE tx' = tx
      BY <3>1
    <3>2. ASSUME NEW d \in RetxValues, tx' = [tx EXCEPT ![x] = set_retx(@, d)]
          PROVE  tx'[e] = tx[e] \/ tx'[e] = set_retx(tx[e], d)
      BY <1>0, <3>2 DEF Shape
    <3> QED
      BY <1>6, <3>1, <3>2, Tuning
  <2> QED
    BY <2>1, <2>2, <2>3
<1> HIDE DEF Goal
<1> QED
  BY <1>2, <1>3, <1>4, <1>5, <1>6 DEF Next

\* No step gets an endpoint to the read past an exhausted frame.
LEMMA ExhaustedFirst ==
    ASSUME Shape, LoopInv, [Next]_vars, NEW e \in Endpoints, Exhausted(tx[e]) # {}, pc[e] # "block"
    PROVE  pc'[e] # "block"
<1>1. ASSUME NEW x \in Endpoints, NEW how, Return(x, how) PROVE pc'[e] # "block"
  BY <1>1 DEF Return, LoopInv
<1>2. ASSUME NEW x \in Endpoints, NEW where, Goto(x, where), where # "block" PROVE pc'[e] # "block"
  BY <1>2 DEF Goto, LoopInv
<1>3. ASSUME NEW x \in Endpoints, FlushRetx(x) PROVE pc'[e] # "block"
  <2>1. x # e
    BY <1>3 DEF FlushRetx
  <2>2. pc'[e] = pc[e]
    BY <1>3, <2>1 DEF FlushRetx, Return, Goto, LoopInv
  <2> QED
    BY <2>2
<1>4. ASSUME NEW x \in Endpoints, Turn(x), ~ FlushRetx(x) PROVE pc'[e] # "block"
  <2>1. \/ Return(x, "recv ok") \/ Return(x, "not sent") \/ Return(x, "give up")
        \/ Return(x, "unexpected type") \/ Return(x, "not read") \/ Goto(x, "retx")
        \/ Goto(x, LoopHead(x, rx[x])) \/ Goto(x, LoopHead(x, Ingested(x)))
    BY <1>4 DEF Turn, PopMessage, FlushNew, FlushNewFails, FlushRetxFails, CoverFails, FlushGiveUp,
                ReadAck, ReadIgnored, ReadUnexpected, ReadFails, ReadData, AckFails
  <2>2. \A r : LoopHead(x, r) # "block"
    BY DEF LoopHead
  <2> QED
    BY <2>1, <2>2, <1>1, <1>2
<1>5. ASSUME NEW x \in Endpoints, (\E n \in Sizes : Send(x, n)) \/ Recv(x) PROVE pc'[e] # "block"
  <2>1. \E where \in {"pop", "new"} : pc' = [pc EXCEPT ![x] = where]
    BY <1>5 DEF Send, Recv
  <2> QED
    BY <2>1 DEF LoopInv
<1>6. CASE Tick
  BY <1>6 DEF Tick
<1>7. CASE (\E x \in Endpoints : SendTooLarge(x) \/ Lose(x) \/ Swap(x) \/ Duplicate(x) \/ Configure(x))
           \/ UNCHANGED vars
  BY <1>7, Tuning DEF SendTooLarge, Lose, Swap, Duplicate, Misbehave, vars, loopVars
<1> QED
  BY <1>3, <1>4, <1>5, <1>6, <1>7 DEF Next

\* Only a read moves a receive counter.
LEMMA CounterMovesOnRead ==
    ASSUME Shape, [Next]_vars, NEW e \in Endpoints, pc[e] # "block"
    PROVE  rx_nonce'[e] = rx_nonce[e]
<1>1. ASSUME NEW x \in Endpoints, Turn(x) PROVE rx_nonce'[e] = rx_nonce[e]
  <2>1. CASE ReadAck(x) \/ ReadData(x) \/ AckFails(x)
    <3>1. pc[x] = "block" /\ rx_nonce' = [rx_nonce EXCEPT ![x] = Head(inbox[x]).nonce + 1]
      BY <2>1 DEF ReadAck, ReadData, AckFails, Ingest, Reading
    <3> QED
      BY <3>1 DEF Shape
  <2>2. CASE ~ (ReadAck(x) \/ ReadData(x) \/ AckFails(x))
    BY <1>1, <2>2 DEF Turn, PopMessage, FlushNew, FlushNewFails, FlushRetx, FlushRetxFails,
       CoverFails, FlushGiveUp, ReadIgnored, ReadUnexpected, ReadFails, noiseVars
  <2> QED
    BY <2>1, <2>2
<1>2. CASE (\E x \in Endpoints, n \in Sizes : Send(x, n)) \/ Tick
            \/ (\E x \in Endpoints : SendTooLarge(x) \/ Recv(x) \/ Lose(x) \/ Swap(x) \/ Duplicate(x))
            \/ UNCHANGED vars
  BY <1>2 DEF Send, Tick, SendTooLarge, Recv, Lose, Swap, Duplicate, Misbehave, vars, noiseVars
<1>3. CASE \E x \in Endpoints : Configure(x)
  BY <1>3, Tuning
<1> QED
  BY <1>1, <1>2, <1>3 DEF Next

\* After an ArqGiveUp every call of that endpoint fails in flush or returns a
\* message it already had: it does not read the socket, no send is Ok, and only
\* a longer retransmit timeout, set by the application, can change that.
THEOREM GivingUpIsFinal == Spec => GiveUpIsFinal
<1>1. ASSUME SessionInv, [Next]_vars, NEW e \in Endpoints, Stuck(e)
      PROVE  /\ settled'[e] = settled[e]
             /\ rx_nonce'[e] = rx_nonce[e]
             /\ Stuck(e)' \/ tx'[e].retx > tx[e].retx
  <2>1. Shape /\ LoopInv /\ Exhausted(tx[e]) # {} /\ pc[e] # "block"
    BY <1>1 DEF SessionInv, Stuck
  <2>2. DOMAIN tx[e].unacked # {}
    BY <2>1 DEF Exhausted, Due, Sent
  <2>3. settled'[e] = settled[e] /\ rx_nonce'[e] = rx_nonce[e]
    BY <1>1, <2>1, <2>2, SettledMoves, CounterMovesOnRead
  <2>4. pc'[e] # "block"
    BY <1>1, <2>1, ExhaustedFirst
  <2>5. ~ ReadAck(e)
    BY <2>1 DEF ReadAck, Reading
  <2>6. Exhausted(tx[e]) \subseteq Exhausted(tx'[e]) \/ tx'[e].retx > tx[e].retx
    BY <1>1, <2>5, SlotsKept
  <2>7. Exhausted(tx'[e]) # {} => Stuck(e)'
    BY <2>4 DEF Stuck
  <2> QED
    BY <2>1, <2>3, <2>6, <2>7
<1>2. ASSUME SessionInv, NEW e \in Endpoints, FlushGiveUp(e) PROVE Stuck(e)'
  <2>1. Shape /\ LoopInv /\ SendHalf(tx[e])
    BY <1>2, SendHalves DEF SessionInv
  <2>2. Exhausted(tx[e]) # {} /\ tx'[e] = take_retransmits(tx[e])
    BY <1>2, <2>1 DEF FlushGiveUp, Shape
  <2>3. Exhausted(tx[e]) \subseteq Exhausted(tx'[e])
    BY <2>1, <2>2, ExhaustedKept
  <2>4. pc'[e] # "block"
    BY <1>2, <2>1 DEF FlushGiveUp, Return, LoopInv
  <2> QED
    BY <2>2, <2>3, <2>4 DEF Stuck
<1>3. SessionInv /\ [Next]_vars =>
        [\A e \in Endpoints :
            /\ FlushGiveUp(e) => Stuck(e)'
            /\ Stuck(e) =>
                /\ settled'[e] = settled[e]
                /\ rx_nonce'[e] = rx_nonce[e]
                /\ Stuck(e)' \/ tx'[e].retx > tx[e].retx]_vars
  BY <1>1, <1>2
<1> QED
  BY <1>3, SessionInvHolds, PTL DEF Spec, GiveUpIsFinal

-----------------------------------------------------------------------------
(***************************************************************************)
(* A frame that does not fit its path ends the session as a sender.        *)
(***************************************************************************)

\* A data frame that is on its way fits the path.
Carried(d) == d.kind = "data" /\ d.frame.kind = "data" => Fits(d.frame)

InboxFits(e) == \E S : inbox[e] \in Seq(S) /\ \A d \in S : Carried(d)

\* The path does not change.
LEMMA FitsRests ==
    ASSUME UNCHANGED conf
    PROVE  /\ \A f : Fits(f)' <=> Fits(f)
           /\ \A d : Carried(d)' <=> Carried(d)
  BY DEF Carried, Fits, FrameLen

\* The scenario never changes.
LEMMA PathRests == [Next]_vars => conf' = conf
  BY Tuning DEF Next, vars, Send, SendTooLarge, Recv, Turn, PopMessage, FlushNew, FlushNewFails, FlushRetx,
     FlushRetxFails, CoverFails, FlushGiveUp, ReadAck, ReadData, AckFails, Ingest, ReadIgnored, ReadUnexpected,
     ReadFails, Lose, Swap, Duplicate, Misbehave, Tick

\* What a flush puts on its way fits.
LEMMA FlushFits ==
    ASSUME Shape, NEW e \in Endpoints, Waits(e),
           \/ FlushNew(e) \/ FlushNewFails(e) \/ FlushRetx(e) \/ FlushRetxFails(e) \/ CoverFails(e)
    PROVE  \E T : \E datagrams \in Seq(T) :
              /\ \A d \in T : Carried(d)
              /\ inbox' = [inbox EXCEPT ![Peer(e)] = @ \o datagrams]
<1>2. NewSends(tx[e]) \in SUBSET DOMAIN tx[e].unacked /\ Retransmits(tx[e]) \in SUBSET DOMAIN tx[e].unacked
  BY DEF NewSends, Unsent, Retransmits, Due, Sent
<1>3. PICK S \in SUBSET DOMAIN tx[e].unacked :
        \/ SendStops(e, InOrder(tx[e], S))
        \/ \E extra \in {<< >>, <<Cover>>} : SendAll(e, InOrder(tx[e], S), extra)
  BY <1>2 DEF FlushNew, FlushNewFails, FlushRetx, FlushRetxFails, CoverFails
<1>4. PICK F : InOrder(tx[e], S) \in Seq(F)
  BY FramesAreListed
<1>5. PICK frames \in Seq(F) : frames = InOrder(tx[e], S)
  BY <1>4
<1>6. PICK sealed : sealed = SealAll(e, frames)
  OBVIOUS
<1>7. PICK m \in Nat : Len(sealed) = m /\ DOMAIN sealed = 1 .. m
  <2>1. Len(frames) \in Nat
    BY LenProperties
  <2> QED
    BY <2>1, <1>6, SealAllFacts
<1>8. PICK T : T = {Cover} \cup {sealed[i] : i \in {j \in 1 .. m : Fits(sealed[j].frame)}}
  OBVIOUS
<1>9. \A d \in T : Carried(d)
  BY <1>8 DEF Carried, Cover
<1>10. CASE SendStops(e, frames)
  <2>1. PICK k \in 1 .. m : /\ \A i \in 1 .. (k - 1) : Fits(sealed[i].frame)
                            /\ inbox' = [inbox EXCEPT ![Peer(e)] = @ \o SubSeq(sealed, 1, k - 1)]
    BY <1>6, <1>7, <1>10 DEF SendStops, Put
  <2>2. \A i \in 1 .. (k - 1) : sealed[i] \in T
    BY <1>7, <1>8, <2>1
  <2>3. SubSeq(sealed, 1, k - 1) \in Seq(T)
    BY <2>2, SubSeqProperties
  <2> QED
    BY <1>9, <2>1, <2>3
<1>11. ASSUME NEW extra \in {<< >>, <<Cover>>}, SendAll(e, frames, extra)
       PROVE  \E datagrams \in Seq(T) : inbox' = [inbox EXCEPT ![Peer(e)] = @ \o datagrams]
  <2>1. /\ \A i \in 1 .. m : Fits(sealed[i].frame)
        /\ inbox' = [inbox EXCEPT ![Peer(e)] = @ \o (sealed \o extra)]
    BY <1>6, <1>7, <1>11 DEF SendAll, Put
  <2>2. sealed \in Seq(T)
    <3>1. \A i \in 1 .. m : sealed[i] \in T
      BY <1>8, <2>1
    <3>2. sealed = [i \in 1 .. m |-> sealed[i]]
      BY <1>6, <1>7 DEF SealAll
    <3>3. sealed \in [1 .. m -> T]
      BY <3>1, <3>2
    <3> QED
      BY <3>3
  <2>3. extra \in Seq(T)
    <3>1. PICK c \in T : c = Cover
      BY <1>8
    <3>2. <<c>> \in Seq(T) /\ << >> \in Seq(T)
      OBVIOUS
    <3> QED
      BY <3>1, <3>2
  <2>4. sealed \o extra \in Seq(T)
    BY <2>2, <2>3, ConcatProperties
  <2> QED
    BY <2>1, <2>4
<1> QED
  BY <1>3, <1>5, <1>9, <1>10, <1>11

\* Whatever a step puts on its way fits.
LEMMA InboxesFit ==
    ASSUME SessionInv, [Next]_vars, \A x \in Endpoints : InboxFits(x), NEW e \in Endpoints
    PROVE  InboxFits(e)'
<1>0. Shape /\ \A x \in Endpoints : Waits(x)
  BY FlowWaits DEF SessionInv
<1>1. conf' = conf
  BY PathRests
<1>2. \A d : Carried(d)' <=> Carried(d)
  BY <1>1, FitsRests
<1>3. PICK S : inbox[e] \in Seq(S) /\ \A d \in S : Carried(d)
  BY DEF InboxFits
<1>4. ASSUME NEW R, inbox'[e] \in Seq(R), \A d \in R : Carried(d) PROVE InboxFits(e)'
  BY <1>2, <1>4 DEF InboxFits
<1>5. ASSUME NEW T, \A d \in T : Carried(d), NEW q \in Seq(T), inbox'[e] = inbox[e] \o q PROVE InboxFits(e)'
  <2>1. PICK R : R = S \cup T
    OBVIOUS
  <2>2. inbox[e] \in Seq(R) /\ q \in Seq(R)
    BY <1>3, <2>1, SeqLarger
  <2>3. inbox[e] \o q \in Seq(R)
    BY <2>2, ConcatProperties
  <2> QED
    BY <1>3, <1>4, <1>5, <2>1, <2>3
<1>6. ASSUME inbox'[e] = inbox[e] PROVE InboxFits(e)'
  BY <1>3, <1>4, <1>6
<1>7. ASSUME inbox[e] # << >>, inbox'[e] = Tail(inbox[e]) PROVE InboxFits(e)'
  BY <1>3, <1>4, <1>7, SeqRead
<1>8. ASSUME NEW x \in Endpoints,
             \/ FlushNew(x) \/ FlushNewFails(x) \/ FlushRetx(x) \/ FlushRetxFails(x) \/ CoverFails(x)
      PROVE  InboxFits(e)'
  <2>1. PICK T : \E datagrams \in Seq(T) :
              /\ \A d \in T : Carried(d)
              /\ inbox' = [inbox EXCEPT ![Peer(x)] = @ \o datagrams]
    BY <1>0, <1>8, FlushFits
  <2>2. PICK datagrams \in Seq(T) :
              /\ \A d \in T : Carried(d)
              /\ inbox' = [inbox EXCEPT ![Peer(x)] = @ \o datagrams]
    BY <2>1
  <2>3. inbox'[e] = inbox[e] \/ inbox'[e] = inbox[e] \o datagrams
    BY <1>0, <2>2 DEF Shape
  <2> QED
    BY <2>2, <2>3, <1>5, <1>6
<1>9. ASSUME NEW x \in Endpoints, ReadAck(x) \/ ReadIgnored(x) \/ ReadUnexpected(x) PROVE InboxFits(e)'
  <2>1. inbox' = [inbox EXCEPT ![x] = Tail(@)] /\ inbox[x] # << >>
    BY <1>9 DEF ReadAck, ReadIgnored, ReadUnexpected, Reading
  <2>2. inbox'[e] = inbox[e] \/ (inbox[e] # << >> /\ inbox'[e] = Tail(inbox[e]))
    BY <1>0, <2>1 DEF Shape
  <2> QED
    BY <2>2, <1>6, <1>7
<1>10. ASSUME NEW x \in Endpoints, NEW reply \in {<< >>, <<Sealed(tx_nonce[x], CurrentAck(Ingested(x)))>>},
              Ingest(x, Ingested(x), reply)
       PROVE  InboxFits(e)'
  <2>1. PICK c : c = Sealed(tx_nonce[x], CurrentAck(Ingested(x)))
    OBVIOUS
  <2>2. Carried(c)
    BY <2>1 DEF Carried, Sealed, CurrentAck, encode_ack
  <2>3. PICK T : T = {c}
    OBVIOUS
  <2>4. reply \in Seq(T) /\ \A d \in T : Carried(d)
    <3>1. c \in T
      BY <2>3
    <3>2. <<c>> \in Seq(T) /\ << >> \in Seq(T)
      BY <3>1
    <3> QED
      BY <2>1, <2>2, <2>3, <3>2
  <2>5. /\ inbox' = [inbox EXCEPT ![x] = Tail(@), ![Peer(x)] = @ \o reply] /\ inbox[x] # << >>
    BY <1>10 DEF Ingest, Reading
  <2>6. Peer(x) # x /\ Peer(x) \in Endpoints
    BY PeerFacts
  <2>7. \/ e = x /\ inbox'[e] = Tail(inbox[e]) /\ inbox[e] # << >>
        \/ e = Peer(x) /\ inbox'[e] = inbox[e] \o reply
    BY <1>0, <2>5, <2>6, PeerFacts DEF Shape, Endpoints
  <2> QED
    BY <2>4, <2>7, <1>5, <1>7
<1>11. ASSUME NEW x \in Endpoints, Lose(x) \/ Swap(x) \/ Duplicate(x) PROVE InboxFits(e)'
  <2>1. /\ inbox'[Peer(x)] = inbox[Peer(x)]
        /\ \A R : inbox[x] \in Seq(R) => inbox'[x] \in Seq(R)
    BY <1>0, <1>11, NetworkMixes
  <2>2. e = x \/ e = Peer(x)
    BY PeerFacts DEF Endpoints
  <2> QED
    BY <2>1, <2>2, <1>3, <1>4, <1>6
<1>12. ASSUME NEW x \in Endpoints, Turn(x) PROVE InboxFits(e)'
  <2>1. CASE FlushGiveUp(x) \/ PopMessage(x) \/ ReadFails(x)
    BY <2>1, <1>6 DEF FlushGiveUp, PopMessage, ReadFails
  <2>2. CASE ReadData(x)
    BY <2>2, <1>10 DEF ReadData
  <2>3. CASE AckFails(x)
    BY <2>3, <1>10 DEF AckFails
  <2> QED
    BY <1>12, <2>1, <2>2, <2>3, <1>8, <1>9 DEF Turn
<1>13. CASE (\E x \in Endpoints, n \in Sizes : Send(x, n)) \/ Tick
            \/ (\E x \in Endpoints : SendTooLarge(x) \/ Recv(x) \/ Configure(x)) \/ UNCHANGED vars
  <2>1. inbox' = inbox
    BY <1>13, Tuning DEF Send, Tick, SendTooLarge, Recv, vars
  <2> QED
    BY <2>1, <1>6
<1> QED
  BY <1>11, <1>12, <1>13 DEF Next

\* The receive half at r takes in only frames that fit.
LEMMA OnlyFitIngested ==
    ASSUME SessionInv, [Next]_vars, NEW r \in Endpoints, InboxFits(r)
    PROVE  \/ rx'[r].recv_base = rx[r].recv_base /\ rx'[r].recv_bits = rx[r].recv_bits
           \/ \E f \in Frames(Peer(r), "data") :
                Fits(f) /\ rx'[r] = [on_data(rx[r], f) EXCEPT !.pending_ack = TRUE]
<1> DEFINE Goal ==
           \/ rx'[r].recv_base = rx[r].recv_base /\ rx'[r].recv_bits = rx[r].recv_bits
           \/ \E f \in Frames(Peer(r), "data") :
                Fits(f) /\ rx'[r] = [on_data(rx[r], f) EXCEPT !.pending_ack = TRUE]
<1> SUFFICES Goal
  OBVIOUS
<1>0. Shape /\ Ledger(r)
  BY DEF SessionInv
<1>1. ASSUME NEW x \in Endpoints, NEW reply, Ingest(x, Ingested(x), reply) PROVE Goal
  <2>1. rx' = [rx EXCEPT ![x] = Ingested(x)]
    BY <1>1 DEF Ingest
  <2>2. CASE x # r
    BY <1>0, <2>1, <2>2 DEF Shape
  <2>3. CASE x = r
    <3>1. /\ inbox[r] # << >> /\ Opens(r, Head(inbox[r])) /\ Head(inbox[r]).frame.kind = "data"
          /\ rx'[r] = [on_data(rx[r], Head(inbox[r]).frame) EXCEPT !.pending_ack = TRUE]
      BY <1>0, <1>1, <2>1, <2>3 DEF Ingest, Reading, Ingested, Shape
    <3>2. Head(inbox[r]).frame \in Frames(Peer(r), "data")
      BY <1>0, <3>1, OpenedWasSealed DEF Frames
    <3>3. Carried(Head(inbox[r]))
      BY <3>1, SeqRead DEF InboxFits
    <3>4. Fits(Head(inbox[r]).frame)
      BY <3>1, <3>3 DEF Carried, Opens
    <3> QED
      BY <3>1, <3>2, <3>4
  <2> QED
    BY <2>2, <2>3
<1>2. ASSUME NEW x \in Endpoints, PopMessage(x) PROVE Goal
  <2>1. rx' = [rx EXCEPT ![x] = pop_delivered(@)]
    BY <1>2 DEF PopMessage
  <2>2. rx'[r] = rx[r] \/ rx'[r] = pop_delivered(rx[r])
    BY <2>1, <1>0 DEF Shape
  <2> QED
    BY <2>2, PopKeepsWindow
<1>3. ASSUME rx' = rx PROVE Goal
  BY <1>3
<1>4. ASSUME NEW x \in Endpoints, Turn(x) PROVE Goal
  <2>1. CASE ReadData(x)
    BY <2>1, <1>1 DEF ReadData
  <2>2. CASE AckFails(x)
    BY <2>2, <1>1 DEF AckFails
  <2>3. CASE ~ (ReadData(x) \/ AckFails(x) \/ PopMessage(x))
    <3>1. rx' = rx
      BY <1>4, <2>3 DEF Turn, FlushNew, FlushNewFails, FlushRetx, FlushRetxFails, CoverFails, FlushGiveUp,
         ReadAck, ReadIgnored, ReadUnexpected, ReadFails, arqVars
    <3> QED
      BY <3>1, <1>3
  <2> HIDE DEF Goal
  <2> QED
    BY <2>1, <2>2, <2>3, <1>2
<1>5. CASE (\E x \in Endpoints, n \in Sizes : Send(x, n)) \/ Tick \/ UNCHANGED vars
            \/ (\E x \in Endpoints : SendTooLarge(x) \/ Recv(x) \/ Lose(x) \/ Swap(x) \/ Duplicate(x))
  <2>1. rx' = rx
    BY <1>5 DEF Send, Tick, SendTooLarge, Recv, Lose, Swap, Duplicate, Misbehave, vars, arqVars
  <2> QED
    BY <2>1, <1>3
<1>6. CASE \E x \in Endpoints : Configure(x)
  <2>1. rx' = rx
    BY <1>6, Tuning
  <2> QED
    BY <2>1, <1>3
<1> HIDE DEF Goal
<1> QED
  BY <1>4, <1>5, <1>6 DEF Next

\* on_data is the same in the flow of the initiator.
LEMMA SameInitiatorData == \A r, f : InitiatorArq!on_data(r, f) = on_data(r, f)
<1>1. \A r, s : InitiatorArq!Fresh(r, s) <=> Fresh(r, s)
  BY DEF InitiatorArq!Fresh, Fresh, InitiatorArq!wrapping_sub, wrapping_sub
<1>2. \A r, s : InitiatorArq!mark_received(r, s) = mark_received(r, s)
  BY Zenon DEF InitiatorArq!mark_received, mark_received, InitiatorArq!LowOnes, LowOnes,
     InitiatorArq!wrapping_add, wrapping_add, InitiatorArq!wrapping_sub, wrapping_sub
<1>3. \A r, f : InitiatorArq!Reassemble(r, f) = Reassemble(r, f)
  <2>1. \A r, f : InitiatorArq!FragBuf(r, f) = FragBuf(r, f)
    BY DEF InitiatorArq!FragBuf, FragBuf
  <2> SUFFICES ASSUME NEW r, NEW f PROVE InitiatorArq!Reassemble(r, f) = Reassemble(r, f)
    OBVIOUS
  <2>2. PICK buf : buf = FragBuf(r, f) /\ InitiatorArq!FragBuf(r, f) = buf
    BY <2>1
  <2> QED
    BY <2>2 DEF InitiatorArq!Reassemble, Reassemble
<1> QED
  BY <1>1, <1>2, <1>3, Zenon DEF InitiatorArq!on_data, on_data

\* The initiator's flow: a frame that does not fit the path, and waits, has not been
\* received.
InitiatorHeld ==
    /\ InitiatorArq!WireMatches
    /\ \A s \in DOMAIN tx["initiator"].unacked :
        ~ Fits(tx["initiator"].unacked[s].plaintext) => ~ InitiatorArq!Received(s)

LEMMA InitiatorHolds ==
    ASSUME SessionInv, [Next]_vars, InboxFits("responder"), InitiatorHeld
    PROVE  /\ InitiatorHeld'
           /\ Unfit("initiator") => Unfit("initiator")'
<1>1. [InitiatorArq!Next]_(InitiatorArq!vars) /\ InitiatorArq!NoFalseAckInv
  BY FlowsOfStep, InitiatorArqSteps DEF SessionInv
<1>2. \A f : Fits(f)' <=> Fits(f)
  BY PathRests, FitsRests
<1>3. PICK B : B = {f \in InitiatorArq!DataFrames : ~ Fits(f)}
  OBVIOUS
<1>4. \A s \in DOMAIN tx["initiator"].unacked : tx["initiator"].unacked[s].plaintext \in InitiatorArq!DataFrames
  BY <1>1 DEF InitiatorArq!NoFalseAckInv, InitiatorArq!TypeOK, InitiatorArq!TxTypeOK, InitiatorArq!Slots
<1>5. \A s \in DOMAIN tx["initiator"].unacked :
        tx["initiator"].unacked[s].plaintext \in B <=> ~ Fits(tx["initiator"].unacked[s].plaintext)
  BY <1>3, <1>4
<1>6. InitiatorArq!Withheld(B)
  BY <1>5 DEF InitiatorHeld, InitiatorArq!Withheld
<1>7. \/ rx'["responder"].recv_base = rx["responder"].recv_base /\ rx'["responder"].recv_bits = rx["responder"].recv_bits
      \/ \E f \in Frames("initiator", "data") :
            Fits(f) /\ rx'["responder"] = [on_data(rx["responder"], f) EXCEPT !.pending_ack = TRUE]
  BY OnlyFitIngested, PeerFacts DEF Endpoints
<1>8. \A r, f : InitiatorArq!on_data(r, f) = on_data(r, f)
  BY SameInitiatorData
<1>9. ASSUME NEW f \in Frames("initiator", "data"), Fits(f)
      PROVE  f \in Frames("initiator", "data") \cup Frames("responder", "ack") /\ f.kind = "data" /\ f \notin B
  BY <1>3, <1>9 DEF Frames
<1>10. \/ rx'["responder"].recv_base = rx["responder"].recv_base /\ rx'["responder"].recv_bits = rx["responder"].recv_bits
       \/ \E f \in Frames("initiator", "data") \cup Frames("responder", "ack") :
            /\ f.kind = "data" /\ f \notin B
            /\ rx'["responder"] = [InitiatorArq!on_data(rx["responder"], f) EXCEPT !.pending_ack = TRUE]
  BY <1>7, <1>8, <1>9
<1>11. /\ InitiatorArq!Withheld(B)'
       /\ \A s \in DOMAIN tx["initiator"].unacked : tx["initiator"].unacked[s].plaintext \in B =>
            /\ s \in DOMAIN tx'["initiator"].unacked
            /\ tx'["initiator"].unacked[s].plaintext = tx["initiator"].unacked[s].plaintext
  BY <1>1, <1>6, <1>10, InitiatorArq!WithheldStep, ArqConstants, WidthsAssumption
     DEF InitiatorHeld, Seqs, Ages, InitiatorArq!Seqs, InitiatorArq!Ages
<1>12. InitiatorArq!WireMatches'
  BY <1>1, InitiatorArq!WireMatchesStep, ArqConstants, WidthsAssumption
     DEF InitiatorHeld, Seqs, Ages, InitiatorArq!Seqs, InitiatorArq!Ages
<1>13. \A s \in DOMAIN tx'["initiator"].unacked : tx'["initiator"].unacked[s].plaintext \in InitiatorArq!DataFrames
  <2>1. InitiatorArq!NoFalseAckInv'
    BY SessionStep DEF SessionInv
  <2> QED
    BY <2>1 DEF InitiatorArq!NoFalseAckInv, InitiatorArq!TypeOK, InitiatorArq!TxTypeOK, InitiatorArq!Slots
<1>14. InitiatorHeld'
  BY <1>2, <1>3, <1>11, <1>12, <1>13 DEF InitiatorHeld, InitiatorArq!Withheld
<1>15. Unfit("initiator") => Unfit("initiator")'
  BY <1>2, <1>5, <1>11 DEF Unfit
<1> QED
  BY <1>14, <1>15

\* on_data is the same in the flow of the responder.
LEMMA SameResponderData == \A r, f : ResponderArq!on_data(r, f) = on_data(r, f)
<1>1. \A r, s : ResponderArq!Fresh(r, s) <=> Fresh(r, s)
  BY DEF ResponderArq!Fresh, Fresh, ResponderArq!wrapping_sub, wrapping_sub
<1>2. \A r, s : ResponderArq!mark_received(r, s) = mark_received(r, s)
  BY Zenon DEF ResponderArq!mark_received, mark_received, ResponderArq!LowOnes, LowOnes,
     ResponderArq!wrapping_add, wrapping_add, ResponderArq!wrapping_sub, wrapping_sub
<1>3. \A r, f : ResponderArq!Reassemble(r, f) = Reassemble(r, f)
  <2>1. \A r, f : ResponderArq!FragBuf(r, f) = FragBuf(r, f)
    BY DEF ResponderArq!FragBuf, FragBuf
  <2> SUFFICES ASSUME NEW r, NEW f PROVE ResponderArq!Reassemble(r, f) = Reassemble(r, f)
    OBVIOUS
  <2>2. PICK buf : buf = FragBuf(r, f) /\ ResponderArq!FragBuf(r, f) = buf
    BY <2>1
  <2> QED
    BY <2>2 DEF ResponderArq!Reassemble, Reassemble
<1> QED
  BY <1>1, <1>2, <1>3, Zenon DEF ResponderArq!on_data, on_data

\* The responder's flow: a frame that does not fit the path, and waits, has not been
\* received.
ResponderHeld ==
    /\ ResponderArq!WireMatches
    /\ \A s \in DOMAIN tx["responder"].unacked :
        ~ Fits(tx["responder"].unacked[s].plaintext) => ~ ResponderArq!Received(s)

LEMMA ResponderHolds ==
    ASSUME SessionInv, [Next]_vars, InboxFits("initiator"), ResponderHeld
    PROVE  /\ ResponderHeld'
           /\ Unfit("responder") => Unfit("responder")'
<1>1. [ResponderArq!Next]_(ResponderArq!vars) /\ ResponderArq!NoFalseAckInv
  BY FlowsOfStep, ResponderArqSteps DEF SessionInv
<1>2. \A f : Fits(f)' <=> Fits(f)
  BY PathRests, FitsRests
<1>3. PICK B : B = {f \in ResponderArq!DataFrames : ~ Fits(f)}
  OBVIOUS
<1>4. \A s \in DOMAIN tx["responder"].unacked : tx["responder"].unacked[s].plaintext \in ResponderArq!DataFrames
  BY <1>1 DEF ResponderArq!NoFalseAckInv, ResponderArq!TypeOK, ResponderArq!TxTypeOK, ResponderArq!Slots
<1>5. \A s \in DOMAIN tx["responder"].unacked :
        tx["responder"].unacked[s].plaintext \in B <=> ~ Fits(tx["responder"].unacked[s].plaintext)
  BY <1>3, <1>4
<1>6. ResponderArq!Withheld(B)
  BY <1>5 DEF ResponderHeld, ResponderArq!Withheld
<1>7. \/ rx'["initiator"].recv_base = rx["initiator"].recv_base /\ rx'["initiator"].recv_bits = rx["initiator"].recv_bits
      \/ \E f \in Frames("responder", "data") :
            Fits(f) /\ rx'["initiator"] = [on_data(rx["initiator"], f) EXCEPT !.pending_ack = TRUE]
  BY OnlyFitIngested, PeerFacts DEF Endpoints
<1>8. \A r, f : ResponderArq!on_data(r, f) = on_data(r, f)
  BY SameResponderData
<1>9. ASSUME NEW f \in Frames("responder", "data"), Fits(f)
      PROVE  f \in Frames("responder", "data") \cup Frames("initiator", "ack") /\ f.kind = "data" /\ f \notin B
  BY <1>3, <1>9 DEF Frames
<1>10. \/ rx'["initiator"].recv_base = rx["initiator"].recv_base /\ rx'["initiator"].recv_bits = rx["initiator"].recv_bits
       \/ \E f \in Frames("responder", "data") \cup Frames("initiator", "ack") :
            /\ f.kind = "data" /\ f \notin B
            /\ rx'["initiator"] = [ResponderArq!on_data(rx["initiator"], f) EXCEPT !.pending_ack = TRUE]
  BY <1>7, <1>8, <1>9
<1>11. /\ ResponderArq!Withheld(B)'
       /\ \A s \in DOMAIN tx["responder"].unacked : tx["responder"].unacked[s].plaintext \in B =>
            /\ s \in DOMAIN tx'["responder"].unacked
            /\ tx'["responder"].unacked[s].plaintext = tx["responder"].unacked[s].plaintext
  BY <1>1, <1>6, <1>10, ResponderArq!WithheldStep, ArqConstants, WidthsAssumption
     DEF ResponderHeld, Seqs, Ages, ResponderArq!Seqs, ResponderArq!Ages
<1>12. ResponderArq!WireMatches'
  BY <1>1, ResponderArq!WireMatchesStep, ArqConstants, WidthsAssumption
     DEF ResponderHeld, Seqs, Ages, ResponderArq!Seqs, ResponderArq!Ages
<1>13. \A s \in DOMAIN tx'["responder"].unacked : tx'["responder"].unacked[s].plaintext \in ResponderArq!DataFrames
  <2>1. ResponderArq!NoFalseAckInv'
    BY SessionStep DEF SessionInv
  <2> QED
    BY <2>1 DEF ResponderArq!NoFalseAckInv, ResponderArq!TypeOK, ResponderArq!TxTypeOK, ResponderArq!Slots
<1>14. ResponderHeld'
  BY <1>2, <1>3, <1>11, <1>12, <1>13 DEF ResponderHeld, ResponderArq!Withheld
<1>15. Unfit("responder") => Unfit("responder")'
  BY <1>2, <1>5, <1>11 DEF Unfit
<1> QED
  BY <1>14, <1>15

UnfitInv ==
    /\ SessionInv
    /\ \A e \in Endpoints : InboxFits(e)
    /\ InitiatorHeld /\ ResponderHeld

LEMMA UnfitInit == Init => UnfitInv
<1> SUFFICES ASSUME Init PROVE UnfitInv
  OBVIOUS
<1>1. ASSUME NEW e \in Endpoints PROVE InboxFits(e)
  <2>1. PICK W : W = {Handshake}
    OBVIOUS
  <2>2. PICK h \in W : h = Handshake
    BY <2>1
  <2>3. <<h>> \in Seq(W) /\ << >> \in Seq(W)
    OBVIOUS
  <2>4. inbox[e] = << >> \/ inbox[e] = <<h>>
    BY <2>2 DEF Init
  <2>5. \A d \in W : Carried(d)
    BY <2>1 DEF Carried, Handshake
  <2> QED
    BY <2>3, <2>4, <2>5 DEF InboxFits
<1>2. ASSUME NEW e \in Endpoints PROVE DOMAIN tx[e].unacked = {} /\ out[e] = {}
  BY DEF Init, NewTx
<1>3. InitiatorHeld
  BY <1>2 DEF Endpoints, InitiatorHeld, InitiatorArq!WireMatches, Frames
<1>4. ResponderHeld
  BY <1>2 DEF Endpoints, ResponderHeld, ResponderArq!WireMatches, Frames
<1> QED
  BY <1>1, <1>3, <1>4, SessionInit DEF UnfitInv

LEMMA UnfitStep ==
    ASSUME UnfitInv, [Next]_vars
    PROVE  UnfitInv' /\ \A e \in Endpoints : Unfit(e) => Unfit(e)'
<1>1. SessionInv' /\ \A e \in Endpoints : InboxFits(e)'
  BY SessionStep, InboxesFit DEF UnfitInv
<1>2. InitiatorHeld' /\ (Unfit("initiator") => Unfit("initiator")')
  BY InitiatorHolds DEF UnfitInv, Endpoints
<1>3. ResponderHeld' /\ (Unfit("responder") => Unfit("responder")')
  BY ResponderHolds DEF UnfitInv, Endpoints
<1> QED
  BY <1>1, <1>2, <1>3 DEF UnfitInv, Endpoints

\* A frame that send_inner cannot put on its onion path is never received, so
\* no ACK retires it: it stays queued, and no later send of that endpoint, of
\* whatever size, returns Ok.
THEOREM UnfitStaysFinal == Spec => UnfitIsFinal
<1>1. UnfitInv /\ [Next]_vars => UnfitInv'
  BY UnfitStep
<1>2. UnfitInv /\ [Next]_vars =>
        [\A e \in Endpoints : Unfit(e) => Unfit(e)' /\ settled'[e] = settled[e]]_vars
  <2> SUFFICES ASSUME UnfitInv, [Next]_vars, NEW e \in Endpoints, Unfit(e)
               PROVE  Unfit(e)' /\ settled'[e] = settled[e]
    OBVIOUS
  <2>1. Shape /\ DOMAIN tx[e].unacked # {}
    BY DEF UnfitInv, SessionInv, Unfit
  <2> QED
    BY <2>1, UnfitStep, SettledMoves
<1> QED
  BY <1>1, <1>2, UnfitInit, PTL DEF Spec, UnfitIsFinal
==============================================================================
