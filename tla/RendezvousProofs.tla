--------------------------- MODULE RendezvousProofs ---------------------------
(***************************************************************************)
(* What the rendezvous service answers and what a lookup prints, for all   *)
(* addresses, lifetimes, timeouts and orders of datagrams.                 *)
(***************************************************************************)
EXTENDS Rendezvous, FiniteSetTheorems, TLAPS

\* The history of registers is one register at most, of an address that has
\* registered.
OneRegister ==
    /\ home \in Nat /\ now \in Nat
    /\ \A e \in registered : e \in [addr : 1 .. home, at : 0 .. now]
    /\ \A e, f \in registered : e = f

\* The service's map is the last register, unless that is over TTL old: what
\* expire removes when a request arrives is exactly what no lookup may find.
MapIsRegister ==
    /\ map \subseteq registered
    /\ \A e \in registered : now - e.at < TTL => e \in map

RequestsKnown ==
    /\ requests \subseteq {Register(a) : a \in 1 .. home} \cup {Lookup(n) : n \in 1 .. lookups}
    /\ repeats \in 0 .. Repeats

\* What a reply says of the register it was made from.
Current(r) ==
    r.addr = IF \E e \in r.last : r.at - e.at < TTL /\ e.addr \in V4
             THEN (CHOOSE e \in r.last : TRUE).addr
             ELSE None

ReplyGood(r) ==
    /\ Current(r)
    /\ r.to \in 1 .. lookups /\ r.at \in 0 .. now
    /\ \A e \in r.last : e.at \in Nat
    /\ \A e, f \in r.last : e = f

\* A call's number is the last one given away, so its socket sees only replies
\* that were made after it started.
CallsNumbered ==
    /\ lookups \in Nat
    /\ \A c \in client : c.id = lookups /\ c.since \in 0 .. now
    /\ \A c \in client, r \in replies : r.to = c.id => r.at >= c.since

\* The invariant of the theorems.  RepliesCurrent alone is not inductive: a lookup
\* is answered from the map and not from the history.
RendezvousInv ==
    /\ OneRegister /\ MapIsRegister /\ RequestsKnown /\ CallsNumbered
    /\ \A r \in replies : ReplyGood(r)
    /\ PrintedFresh

-----------------------------------------------------------------------------
\* The only requests are registers of addresses that have registered and lookups
\* of calls that have been made.
LEMMA Taken ==
    ASSUME RequestsKnown, NEW a, NEW q, Take(q)
    PROVE  /\ q = Register(a) => a \in 1 .. home
           /\ q = Lookup(a) => a \in 1 .. lookups
BY DEF RequestsKnown, Take, Register, Lookup

\* Taking a request adds none (whether or not the network repeats it).
LEMMA TakeKeeps ==
    ASSUME RequestsKnown, NEW q, Take(q), UNCHANGED <<home, lookups>>
    PROVE  RequestsKnown'
<1>1. requests' \subseteq requests
  BY DEF Take
<1>2. repeats' \in 0 .. Repeats
  BY RendezvousAssumption DEF Take, RequestsKnown
<1> QED
  BY <1>1, <1>2 DEF RequestsKnown, Register, Lookup

\* A lookup is answered with the register the expired map holds.
LEMMA AnswerGood ==
    ASSUME OneRegister, MapIsRegister, NEW n \in 1 .. lookups
    PROVE  ReplyGood(Answer(n))
<1> DEFINE a == Answer(n)
<1>1. a.to = n /\ a.at = now /\ a.last = registered /\ a.addr = reply(expire(map, now))
  BY DEF Answer
<1>2. reply(expire(map, now)) =
               IF \E e \in registered : now - e.at < TTL /\ e.addr \in V4
               THEN (CHOOSE e \in registered : TRUE).addr
               ELSE None
  <2>1. CASE \E e \in registered : now - e.at < TTL /\ e.addr \in V4
    <3>1. PICK e \in registered : now - e.at < TTL /\ e.addr \in V4
      BY <2>1
    <3>2. registered = {e}
      BY <3>1 DEF OneRegister
    <3>3. expire(map, now) = {e}
      BY <3>1, <3>2 DEF MapIsRegister, expire
    <3> QED
      BY <3>1, <3>2, <3>3 DEF reply
  <2>2. CASE ~ \E e \in registered : now - e.at < TTL /\ e.addr \in V4
    BY <2>2 DEF MapIsRegister, expire, reply
  <2> QED
    BY <2>1, <2>2
<1>3. Current(a)
  BY <1>1, <1>2 DEF Current
<1>4. now \in 0 .. now /\ (\A e \in registered : e.at \in Nat) /\ \A e, f \in registered : e = f
  BY DEF OneRegister
<1> HIDE DEF a
<1>5. ReplyGood(a)
  BY <1>1, <1>3, <1>4 DEF ReplyGood
<1> QED
  BY <1>5 DEF a

\* The last facts about the map, whatever expire removes from it.
LEMMA ExpireMap ==
    ASSUME OneRegister, MapIsRegister, map' = expire(map, now), UNCHANGED <<now, home, registered>>
    PROVE  OneRegister' /\ MapIsRegister'
BY DEF OneRegister, MapIsRegister, expire

-----------------------------------------------------------------------------
LEMMA RegisterInv ==
    ASSUME RendezvousInv, NEW a \in Addresses, StepRegister(a)
    PROVE  RendezvousInv'
<1>1. a \in 1 .. home
  BY Taken DEF StepRegister, RendezvousInv
<1>2. registered' = {[addr |-> a, at |-> now]} /\ map' = registered'
  BY DEF StepRegister, insert
<1>3. UNCHANGED <<now, home, replies, lookups, client, printed>>
  BY DEF StepRegister, caller
<1>4. OneRegister' /\ MapIsRegister'
  BY <1>1, <1>2, <1>3 DEF RendezvousInv, OneRegister, MapIsRegister
<1>5. RequestsKnown'
  BY <1>3, TakeKeeps DEF StepRegister, RendezvousInv
<1>6. CallsNumbered' /\ (\A r \in replies : ReplyGood(r))' /\ PrintedFresh'
  BY <1>3 DEF RendezvousInv, CallsNumbered, ReplyGood, Current, PrintedFresh
<1> QED
  BY <1>4, <1>5, <1>6 DEF RendezvousInv

LEMMA LookupInv ==
    ASSUME RendezvousInv, NEW n \in 1 .. MaxLookups, StepLookup(n) \/ StepLookupFails(n)
    PROVE  RendezvousInv'
<1>1. n \in 1 .. lookups
  BY Taken DEF StepLookup, StepLookupFails, RendezvousInv
<1>2. UNCHANGED <<now, home, registered, lookups, client, printed>> /\ map' = expire(map, now)
  BY DEF StepLookup, StepLookupFails, caller
<1>3. replies' \subseteq replies \cup {Answer(n)}
  BY DEF StepLookup, StepLookupFails
<1>4. OneRegister' /\ MapIsRegister'
  BY <1>2, ExpireMap DEF RendezvousInv
<1>5. RequestsKnown'
  BY <1>2, TakeKeeps DEF StepLookup, StepLookupFails, RendezvousInv
<1>6. ReplyGood(Answer(n))
  BY <1>1, AnswerGood DEF RendezvousInv
<1>7. \A r : ReplyGood(r) => ReplyGood(r)'
  BY <1>2 DEF ReplyGood, Current
<1>8. \A r \in replies' : ReplyGood(r)'
  BY <1>3, <1>6, <1>7 DEF RendezvousInv
<1>9. CallsNumbered'
  <2>1. Answer(n).at = now
    BY DEF Answer
  <2>2. \A c \in client : now >= c.since
    BY DEF RendezvousInv, CallsNumbered, OneRegister
  <2> QED
    BY <1>2, <1>3, <2>1, <2>2 DEF RendezvousInv, CallsNumbered
<1>10. PrintedFresh'
  BY <1>2 DEF RendezvousInv, PrintedFresh
<1> QED
  BY <1>4, <1>5, <1>8, <1>9, <1>10 DEF RendezvousInv

\* The address that is read is at most as old as a registration may be when the
\* reply is made, and the reply as old as the call.
LEMMA ReadInv ==
    ASSUME RendezvousInv, NEW c \in client, NEW r \in replies, ReadReply(c, r)
    PROVE  RendezvousInv'
<1>1. /\ UNCHANGED <<now, home, map, registered, requests, repeats, lookups>>
      /\ client' = {} /\ replies' \subseteq replies /\ printed' = {[reply |-> r, at |-> now]}
      /\ r.to = c.id /\ now - c.since < TIMEOUT
  BY DEF ReadReply, Waiting, service
<1>2. ReplyGood(r) /\ r.at >= c.since /\ c.since \in Nat /\ r.at \in Nat /\ now \in Nat
  BY <1>1 DEF RendezvousInv, CallsNumbered, OneRegister, ReplyGood
<1>3. ASSUME r.addr # None
      PROVE  \E e \in r.last : e.addr = r.addr /\ now - e.at < TTL + TIMEOUT
  <2>1. PICK e \in r.last : r.at - e.at < TTL /\ e.addr \in V4
    BY <1>2, <1>3 DEF ReplyGood, Current
  <2>2. r.last = {e} /\ e.at \in Nat
    BY <1>2, <2>1 DEF ReplyGood
  <2>3. r.addr = e.addr
    BY <1>2, <2>1, <2>2 DEF ReplyGood, Current
  <2>4. now - e.at < TTL + TIMEOUT
    BY <1>1, <1>2, <2>1, <2>2, RendezvousAssumption
  <2> QED
    BY <2>3, <2>4
<1>4. PrintedFresh'
  BY <1>1, <1>3 DEF PrintedFresh
<1>5. OneRegister' /\ MapIsRegister' /\ RequestsKnown'
  BY <1>1 DEF RendezvousInv, OneRegister, MapIsRegister, RequestsKnown
<1>6. CallsNumbered' /\ (\A q \in replies : ReplyGood(q))'
  BY <1>1 DEF RendezvousInv, CallsNumbered, ReplyGood, Current
<1> QED
  BY <1>4, <1>5, <1>6 DEF RendezvousInv

LEMMA CommandInv ==
    ASSUME RendezvousInv, rs_register \/ rs_lookup
    PROVE  RendezvousInv'
<1>1. CASE rs_register
  <2>1. /\ UNCHANGED <<map, now, repeats, registered, replies, lookups, client, printed>>
        /\ home' = home + 1 /\ requests' = requests \cup {Register(home')}
    BY <1>1 DEF rs_register, service, caller
  <2>2. home' \in Nat /\ 1 .. home \subseteq 1 .. home' /\ home' \in 1 .. home'
    BY <2>1 DEF RendezvousInv, OneRegister
  <2>3. OneRegister'
    BY <2>1, <2>2 DEF RendezvousInv, OneRegister
  <2>4. RequestsKnown'
    BY <2>1, <2>2 DEF RendezvousInv, RequestsKnown
  <2>5. MapIsRegister' /\ CallsNumbered' /\ (\A r \in replies : ReplyGood(r))' /\ PrintedFresh'
    BY <2>1 DEF RendezvousInv, MapIsRegister, CallsNumbered, ReplyGood, Current, PrintedFresh
  <2> QED
    BY <2>3, <2>4, <2>5 DEF RendezvousInv
<1>2. CASE rs_lookup
  <2>1. /\ UNCHANGED <<map, now, home, repeats, registered, replies>>
        /\ lookups' = lookups + 1 /\ client' = {[id |-> lookups', since |-> now]}
        /\ requests' = requests \cup {Lookup(lookups')} /\ printed' = {}
    BY <1>2 DEF rs_lookup, service
  <2>2. lookups \in Nat /\ now \in Nat /\ 1 .. lookups \subseteq 1 .. lookups' /\ lookups' \in 1 .. lookups'
    BY <2>1 DEF RendezvousInv, OneRegister, CallsNumbered
  <2>3. RequestsKnown'
    BY <2>1, <2>2 DEF RendezvousInv, RequestsKnown
  <2>4. \A r \in replies' : ReplyGood(r)'
    BY <2>1, <2>2 DEF RendezvousInv, ReplyGood, Current
  <2>5. \A r \in replies : r.to # lookups'
    BY <2>1, <2>2 DEF RendezvousInv, ReplyGood
  <2>6. CallsNumbered'
    BY <2>1, <2>2, <2>5 DEF CallsNumbered
  <2>7. OneRegister' /\ MapIsRegister' /\ PrintedFresh'
    BY <2>1 DEF RendezvousInv, OneRegister, MapIsRegister, PrintedFresh
  <2> QED
    BY <2>3, <2>4, <2>6, <2>7 DEF RendezvousInv
<1> QED
  BY <1>1, <1>2

\* Calls and datagrams that come to nothing.
LEMMA LossInv ==
    ASSUME RendezvousInv,
           \/ ReceiveFails
           \/ \E c \in client : ReadTimesOut(c)
           \/ \E q \in requests : LoseRequest(q)
           \/ \E r \in replies : LoseReply(r)
    PROVE  RendezvousInv'
<1>1. /\ UNCHANGED <<map, now, home, repeats, registered, lookups, printed>>
      /\ client' \subseteq client /\ requests' \subseteq requests /\ replies' \subseteq replies
  BY DEF ReceiveFails, ReadTimesOut, LoseRequest, LoseReply, service, caller
<1>2. OneRegister' /\ MapIsRegister' /\ RequestsKnown' /\ PrintedFresh'
  BY <1>1 DEF RendezvousInv, OneRegister, MapIsRegister, RequestsKnown, PrintedFresh
<1>3. CallsNumbered' /\ (\A r \in replies : ReplyGood(r))'
  BY <1>1 DEF RendezvousInv, CallsNumbered, ReplyGood, Current
<1> QED
  BY <1>2, <1>3 DEF RendezvousInv

LEMMA TickInv ==
    ASSUME RendezvousInv, Tick
    PROVE  RendezvousInv'
<1>1. /\ UNCHANGED <<home, requests, repeats, map, registered, replies, lookups, client, printed>>
      /\ now' = now + 1 /\ now \in Nat
  BY DEF Tick, service, caller, RendezvousInv, OneRegister
<1>2. OneRegister'
  BY <1>1 DEF RendezvousInv, OneRegister
<1>3. MapIsRegister'
  BY <1>1, RendezvousAssumption DEF RendezvousInv, MapIsRegister, OneRegister
<1>4. CallsNumbered' /\ (\A r \in replies : ReplyGood(r))'
  BY <1>1 DEF RendezvousInv, CallsNumbered, ReplyGood, Current
<1>5. RequestsKnown' /\ PrintedFresh'
  BY <1>1 DEF RendezvousInv, RequestsKnown, PrintedFresh
<1> QED
  BY <1>2, <1>3, <1>4, <1>5 DEF RendezvousInv

LEMMA Invariance == Spec => []RendezvousInv
<1>1. Init => RendezvousInv
  BY RendezvousAssumption
  DEF Init, RendezvousInv, OneRegister, MapIsRegister, RequestsKnown, CallsNumbered, PrintedFresh
<1>2. RendezvousInv /\ [Next]_vars => RendezvousInv'
  <2> SUFFICES ASSUME RendezvousInv, [Next]_vars PROVE RendezvousInv'
    OBVIOUS
  <2>1. CASE UNCHANGED vars
    BY <2>1 DEF vars, service, caller, RendezvousInv, OneRegister, MapIsRegister, RequestsKnown,
                CallsNumbered, ReplyGood, Current, PrintedFresh
  <2> QED
    BY <2>1, RegisterInv, LookupInv, ReadInv, CommandInv, LossInv, TickInv DEF Next
<1> QED
  BY <1>1, <1>2, PTL DEF Spec

-----------------------------------------------------------------------------
\* The service holds one entry at most for the token, made in the past, and of
\* an address that has registered, however the registers were reordered.
THEOREM TypeCorrect == Spec => []TypeOK
<1>1. RendezvousInv => TypeOK
  <2> SUFFICES ASSUME RendezvousInv
               PROVE  TypeOK
    OBVIOUS
  <2>1. map \subseteq [addr : 1 .. home, at : 0 .. now]
    BY DEF RendezvousInv, OneRegister, MapIsRegister
  <2>2. Cardinality(map) <= 1
    <3>1. map = {} \/ \E e : map = {e}
      BY DEF RendezvousInv, OneRegister, MapIsRegister
    <3>2. CASE map = {}
      BY <3>2, FS_EmptySet
    <3>3. ASSUME NEW e, map = {e} PROVE Cardinality(map) <= 1
      <4>1. Cardinality({e}) = 1
        BY FS_Singleton, Zenon
      <4> QED
        BY <3>3, <4>1
    <3> QED
      BY <3>1, <3>2, <3>3
  <2> QED
    BY <2>1, <2>2 DEF TypeOK, RendezvousInv, RequestsKnown
<1> QED
  BY <1>1, Invariance, PTL

\* Every lookup is answered from the last register that was processed, whatever
\* the order in which requests arrive and although nothing expires while the
\* service sits idle (RendezvousService::step).
THEOREM RepliesAreCurrent == Spec => []RepliesCurrent
<1>1. RendezvousInv => RepliesCurrent
  BY DEF RendezvousInv, ReplyGood, Current, RepliesCurrent
<1> QED
  BY <1>1, Invariance, PTL

\* The address rs-lookup prints was registered less than TTL + TIMEOUT before:
\* the service's expiry bounds the age of an answer, and the fresh socket and the
\* read timeout of each call the age of a reply.
THEOREM PrintedIsFresh == Spec => []PrintedFresh
<1>1. RendezvousInv => PrintedFresh
  BY DEF RendezvousInv
<1> QED
  BY <1>1, Invariance, PTL
==============================================================================
