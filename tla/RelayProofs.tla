---------------------------- MODULE RelayProofs ------------------------------
(***************************************************************************)
(* Proofs about Relay: what the replay caches hold, what they have to      *)
(* remember and that forgetting the rest is all a replay can use.          *)
(***************************************************************************)
EXTENDS Relay, FiniteSetTheorems, CommonFacts

-----------------------------------------------------------------------------
(***************************************************************************)
(* One call of the cache.                                                  *)
(***************************************************************************)

\* A cache s, a map to instants up to t, becomes c at t and the payloads in new
\* are let through: c holds them and, of the others, all but expired ones and
\* ones that Bound payloads are younger than.
Kept(s, c, new, t) ==
    /\ IsFiniteSet(DOMAIN c) /\ Cardinality(DOMAIN c) <= Bound
    /\ new \subseteq DOMAIN c
    /\ \A y \in DOMAIN c : IF y \in new THEN c[y] = t ELSE y \in DOMAIN s /\ c[y] = s[y]
    /\ \A y \in DOMAIN s \ DOMAIN c :
        \/ t - s[y] >= TTL
        \/ Cardinality(DOMAIN c) >= Bound /\ \A z \in DOMAIN c : c[z] >= s[y]

IsCache(s, t) ==
    /\ IsFiniteSet(DOMAIN s) /\ Cardinality(DOMAIN s) <= Bound
    /\ \A x \in DOMAIN s : s[x] \in 0 .. t

LEMMA BoundFacts == Bound \in Nat /\ Bound >= 1 /\ CAP \in Nat /\ TTL \in Nat
BY RelayAssumption DEF Bound

\* expire alone.
LEMMA ExpireKeeps ==
    ASSUME NEW s, NEW t \in Nat, IsCache(s, t)
    PROVE  Kept(s, expire(s, t), {}, t) /\ IsCache(expire(s, t), t)
<1>1. PICK D : D = {x \in DOMAIN s : t - s[x] < TTL}
  OBVIOUS
<1>2. /\ DOMAIN expire(s, t) = D
      /\ \A x \in D : expire(s, t)[x] = s[x]
  BY <1>1 DEF expire, Restrict
<1>3. IsFiniteSet(D) /\ Cardinality(D) <= Cardinality(DOMAIN s)
  BY <1>1, FS_Subset DEF IsCache
<1>4. Cardinality(D) <= Bound
  BY <1>3, FS_CardinalityType, BoundFacts DEF IsCache
<1>5. D \subseteq DOMAIN s
  BY <1>1
<1>6. \A y \in DOMAIN s \ D : t - s[y] >= TTL
  BY <1>1, BoundFacts DEF IsCache
<1> QED
  BY <1>2, <1>3, <1>4, <1>5, <1>6 DEF Kept, IsCache

\* accept of a payload that is not in the expired cache.
LEMMA AcceptKeeps ==
    ASSUME NEW s, NEW t \in Nat, IsCache(s, t), NEW x, x \notin DOMAIN expire(s, t),
           NEW c \in Recorded(expire(s, t), x, t)
    PROVE  Kept(s, c, {x}, t)
<1>1. PICK k : k = expire(s, t)
  OBVIOUS
<1>2. Kept(s, k, {}, t) /\ IsCache(k, t)
  BY <1>1, ExpireKeeps
<1>3. PICK o : \/ /\ Full(k) /\ o \in Oldest(k) /\ c = Record(Restrict(k, DOMAIN k \ {o}), x, t)
               \/ ~ (Full(k) /\ k # << >>) /\ c = Record(k, x, t)
  BY <1>1 DEF Recorded
<1>4. x \notin DOMAIN k
  BY <1>1
<1>5. CASE Full(k) /\ o \in Oldest(k) /\ c = Record(Restrict(k, DOMAIN k \ {o}), x, t)
  <2>1. PICK R : R = DOMAIN k \ {o}
    OBVIOUS
  <2>2. o \in DOMAIN k /\ o # x
    BY <1>4, <1>5 DEF Oldest
  <2>3. DOMAIN c = R \cup {x} /\ c[x] = t /\ \A y \in R : c[y] = k[y]
    BY <1>4, <1>5, <2>1 DEF Record, Restrict
  <2>4. IsFiniteSet(R) /\ Cardinality(R) = Cardinality(DOMAIN k) - 1 /\ x \notin R
    BY <1>2, <1>4, <2>1, <2>2, FS_RemoveElement DEF IsCache
  <2>5. IsFiniteSet(DOMAIN c) /\ Cardinality(DOMAIN c) = Cardinality(R) + 1
    BY <2>3, <2>4, FS_AddElement
  <2>6. Cardinality(DOMAIN k) \in Nat /\ Cardinality(DOMAIN k) <= Bound /\ Cardinality(DOMAIN k) >= CAP
    BY <1>2, <1>5, FS_CardinalityType DEF IsCache, Full
  <2>7. Cardinality(DOMAIN k) >= 1
    BY <2>2, <2>4, <2>6, FS_CardinalityType
  <2>8. Cardinality(DOMAIN k) = Bound
    BY <2>6, <2>7, BoundFacts DEF Bound
  <2>9. Cardinality(DOMAIN c) = Bound
    BY <2>5, <2>4, <2>8, BoundFacts
  <2>10. \A z \in DOMAIN c : c[z] >= k[o]
    <3>1. \A z \in DOMAIN k : k[z] >= k[o] /\ k[o] <= t /\ k[z] \in Nat
      BY <1>2, <1>5, <2>2 DEF Oldest, IsCache
    <3> QED
      BY <2>1, <2>2, <2>3, <3>1
  <2>11. ASSUME NEW y \in DOMAIN s, y \notin DOMAIN c
         PROVE  t - s[y] >= TTL \/ \A z \in DOMAIN c : c[z] >= s[y]
    <3>1. CASE y \in DOMAIN k
      <4>1. y = o /\ s[y] = k[o]
        BY <3>1, <2>1, <2>3, <2>11, <1>2 DEF Kept
      <4> QED
        BY <4>1, <2>10
    <3>2. CASE y \notin DOMAIN k
      BY <3>2, <1>1, <2>11, BoundFacts DEF expire, Restrict, IsCache
    <3> QED
      BY <3>1, <3>2
  <2>12. \A y \in DOMAIN c : IF y \in {x} THEN c[y] = t ELSE y \in DOMAIN s /\ c[y] = s[y]
    BY <2>1, <2>3, <1>2 DEF Kept
  <2>13. Cardinality(DOMAIN c) <= Bound /\ Cardinality(DOMAIN c) >= Bound /\ {x} \subseteq DOMAIN c
    BY <2>3, <2>9, BoundFacts
  <2> QED
    BY <2>5, <2>11, <2>12, <2>13 DEF Kept
<1>6. CASE ~ (Full(k) /\ k # << >>) /\ c = Record(k, x, t)
  <2>1. DOMAIN c = DOMAIN k \cup {x} /\ c[x] = t /\ \A y \in DOMAIN k : c[y] = k[y]
    BY <1>4, <1>6 DEF Record
  <2>2. IsFiniteSet(DOMAIN c) /\ Cardinality(DOMAIN c) = Cardinality(DOMAIN k) + 1
    BY <1>2, <1>4, <2>1, FS_AddElement DEF IsCache
  <2>3. Cardinality(DOMAIN k) \in Nat
    BY <1>2, FS_CardinalityType DEF IsCache
  <2>4. Cardinality(DOMAIN c) <= Bound
    <3>1. CASE ~ Full(k)
      BY <3>1, <2>2, <2>3, BoundFacts DEF Full, Bound
    <3>2. CASE k = << >>
      <4>1. DOMAIN k = {}
        BY <3>2
      <4>2. Cardinality(DOMAIN k) = 0
        BY <4>1, FS_EmptySet
      <4> QED
        BY <4>2, <2>2, BoundFacts
    <3> QED
      BY <3>1, <3>2, <1>6
  <2>5. ASSUME NEW y \in DOMAIN s, y \notin DOMAIN c PROVE t - s[y] >= TTL
    BY <1>1, <2>1, <2>5, BoundFacts DEF expire, Restrict, IsCache
  <2>6. \A y \in DOMAIN c : IF y \in {x} THEN c[y] = t ELSE y \in DOMAIN s /\ c[y] = s[y]
    BY <2>1, <1>2, <1>4 DEF Kept
  <2> QED
    BY <2>1, <2>2, <2>4, <2>5, <2>6 DEF Kept
<1> QED
  BY <1>3, <1>5, <1>6

-----------------------------------------------------------------------------
(***************************************************************************)
(* The caches and the history.                                             *)
(***************************************************************************)
Entry(h, x, t) == [hop |-> h, inner |-> x, at |-> t]

HistoryInv ==
    /\ conf \in Scenarios /\ now \in Nat
    /\ IsFiniteSet(log)
    /\ \A e \in log : e = Entry(e.hop, e.inner, e.at) /\ e.hop \in Daemons /\ e.at \in 0 .. now

\* A cache dates each payload it holds by the last time that came through.
CacheInv(h) ==
    /\ IsCache(seen[h], now)
    /\ \A x \in DOMAIN seen[h] : Entry(h, x, seen[h][x]) \in log
    /\ \A e \in Logged(h) : e.inner \in DOMAIN seen[h] => e.at <= seen[h][e.inner]

Remembers(e) ==
    now - e.at < TTL /\ Cardinality(Others(e)) < Bound => e.inner \in DOMAIN seen[e.hop]

\* RemembersRecent with what makes it inductive: the dates in the caches.
RelayInv ==
    /\ HistoryInv
    /\ now \in 0 .. MaxNow /\ stopped \in [Daemons -> BOOLEAN] /\ DOMAIN seen = Daemons
    /\ \A h \in Daemons : CacheInv(h)
    /\ \A e \in log : Remembers(e)

LEMMA OthersFinite ==
    ASSUME IsFiniteSet(log), NEW e
    PROVE  IsFiniteSet(Others(e))
<1>1. PICK C : C = {c \in Logged(e.hop) : c.at >= e.at /\ c.inner # e.inner}
  OBVIOUS
<1>2. C \subseteq log
  BY <1>1 DEF Logged
<1>3. IsFiniteSet(C)
  BY <1>2, FS_Subset
<1>4. PICK T : T = {b.inner : b \in C}
  OBVIOUS
<1>5. PICK f : f = [b \in C |-> b.inner]
  OBVIOUS
<1>6. f \in Surjection(C, T)
  BY <1>4, <1>5 DEF Surjection
<1>7. IsFiniteSet(T)
  BY <1>3, <1>6, FS_Surjection
<1> QED
  BY <1>1, <1>4, <1>7 DEF Others

\* A call of the cache at daemon h that lets the payloads in new through.
Passing(h, c, new) ==
    /\ seen' = [seen EXCEPT ![h] = c]
    /\ log' = log \cup {Entry(h, x, now) : x \in new}
    /\ UNCHANGED <<conf, now>>

LEMMA PassingHistory ==
    ASSUME HistoryInv, NEW h \in Daemons, NEW c, NEW new, IsFiniteSet(new), Passing(h, c, new)
    PROVE  HistoryInv' /\ log \subseteq log'
<1>1. PICK N : N = {Entry(h, x, now) : x \in new}
  OBVIOUS
<1>2. PICK f : f = [x \in new |-> Entry(h, x, now)]
  OBVIOUS
<1>3. f \in Surjection(new, N)
  BY <1>1, <1>2 DEF Surjection
<1>4. IsFiniteSet(N)
  BY <1>3, FS_Surjection
<1>5. log' = log \cup N
  BY <1>1 DEF Passing
<1>6. IsFiniteSet(log')
  BY <1>4, <1>5, FS_Union DEF HistoryInv
<1>7. ASSUME NEW e \in N
      PROVE  e = Entry(e.hop, e.inner, e.at) /\ e.hop \in Daemons /\ e.at \in 0 .. now
  BY <1>1 DEF Entry, HistoryInv
<1> QED
  BY <1>5, <1>6, <1>7 DEF HistoryInv, Passing

\* The dates of the cache stay those of the history.
LEMMA PassingCaches ==
    ASSUME RelayInv, NEW h \in Daemons, NEW c, NEW new, Passing(h, c, new),
           Kept(seen[h], c, new, now), NEW g \in Daemons
    PROVE  CacheInv(g)'
<1>1. log' = log \cup {Entry(h, x, now) : x \in new} /\ now' = now /\ now \in Nat
  BY DEF Passing, RelayInv, HistoryInv
<1>2. CASE g = h
  <2>1. seen'[g] = c
    BY <1>2 DEF Passing, RelayInv
  <2>2. \A x \in DOMAIN c : c[x] \in 0 .. now
    BY <1>1, <1>2 DEF Kept, RelayInv, CacheInv, IsCache
  <2>3. \A x \in DOMAIN c : Entry(g, x, c[x]) \in log'
    BY <1>1, <1>2 DEF Kept, RelayInv, CacheInv
  <2>4. ASSUME NEW e \in log', e.hop = g, e.inner \in DOMAIN c
        PROVE  e.at <= c[e.inner]
    <3>1. CASE e \in log
      <4>1. e.at \in 0 .. now
        BY <3>1 DEF RelayInv, HistoryInv
      <4>2. CASE e.inner \in new
        <5>1. c[e.inner] = now
          BY <4>2, <2>4 DEF Kept
        <5> QED
          BY <4>1, <5>1, <1>1
      <4>3. CASE e.inner \notin new
        <5>1. e.inner \in DOMAIN seen[h] /\ c[e.inner] = seen[h][e.inner]
          BY <4>3, <2>4 DEF Kept
        <5>2. e.at <= seen[h][e.inner]
          BY <5>1, <2>4, <3>1, <1>2 DEF RelayInv, CacheInv, Logged
        <5> QED
          BY <5>1, <5>2
      <4> QED
        BY <4>2, <4>3
    <3>2. CASE e \notin log
      <4>1. PICK x \in new : e = Entry(h, x, now)
        BY <3>2, <2>4, <1>1
      <4>2. e.inner = x /\ e.at = now
        BY <4>1 DEF Entry
      <4>3. c[x] = now
        BY <4>2, <2>4 DEF Kept
      <4> QED
        BY <4>2, <4>3, <1>1
    <3> QED
      BY <3>1, <3>2
  <2>5. IsFiniteSet(DOMAIN c) /\ Cardinality(DOMAIN c) <= Bound
    BY DEF Kept
  <2> QED
    BY <1>1, <2>1, <2>2, <2>3, <2>4, <2>5 DEF CacheInv, IsCache, Logged
<1>3. CASE g # h
  <2>1. seen'[g] = seen[g]
    BY <1>3 DEF Passing, RelayInv
  <2>2. \A e \in log' : e.hop = g => e \in log
    BY <1>1, <1>3 DEF Entry
  <2>3. CacheInv(g)
    BY DEF RelayInv
  <2> QED
    BY <1>1, <2>1, <2>2, <2>3 DEF CacheInv, IsCache, Logged
<1> QED
  BY <1>2, <1>3

\* Whatever the call makes a cache forget has been followed by enough others.
LEMMA PassingRemembers ==
    ASSUME RelayInv, NEW h \in Daemons, NEW c, NEW new, IsFiniteSet(new), Passing(h, c, new),
           Kept(seen[h], c, new, now), NEW e \in log'
    PROVE  Remembers(e)'
<1> SUFFICES ASSUME now - e.at < TTL, Cardinality(Others(e)') < Bound
             PROVE  e.inner \in DOMAIN seen'[e.hop]
  BY DEF Remembers, Passing
<1>1. HistoryInv /\ HistoryInv' /\ log \subseteq log' /\ now \in Nat
  BY PassingHistory DEF RelayInv, HistoryInv
<1>2. IsFiniteSet(Others(e)') /\ IsFiniteSet(Others(e))
  <2>1. IsFiniteSet(Others(e))
    BY <1>1, OthersFinite DEF HistoryInv
  <2>2. HistoryInv' => IsFiniteSet(Others(e)')
    <3>1. (IsFiniteSet(log) => IsFiniteSet(Others(e)))'
      BY OthersFinite, PTL
    <3> QED
      BY <3>1 DEF HistoryInv
  <2> QED
    BY <1>1, <2>1, <2>2
<1>3. Others(e) \subseteq Others(e)'
  BY <1>1 DEF Others, Logged
<1>4. Cardinality(Others(e)) < Bound
  <2>1. Cardinality(Others(e)) <= Cardinality(Others(e)')
    BY <1>2, <1>3, FS_Subset
  <2> QED
    BY <1>2, <2>1, BoundFacts, FS_CardinalityType
<1>5. DOMAIN seen' = Daemons /\ seen'[h] = c /\ \A g \in Daemons \ {h} : seen'[g] = seen[g]
  BY DEF Passing, RelayInv
<1>6. CASE e \notin log
  <2>1. PICK x \in new : e = Entry(h, x, now)
    BY <1>6 DEF Passing
  <2>2. e.inner = x /\ e.hop = h
    BY <2>1 DEF Entry
  <2> QED
    BY <1>5, <2>2 DEF Kept
<1>7. CASE e \in log
  <2>1. e.hop \in Daemons /\ e.inner \in DOMAIN seen[e.hop] /\ e.at \in 0 .. now
    BY <1>4, <1>7 DEF RelayInv, Remembers, HistoryInv
  <2>2. CASE e.hop # h
    BY <2>1, <2>2, <1>5
  <2>3. CASE e.hop = h
    <3> SUFFICES ASSUME e.inner \notin DOMAIN c PROVE FALSE
      BY <1>5, <2>3
    <3>1. e.at <= seen[h][e.inner] /\ seen[h][e.inner] \in 0 .. now
      BY <1>7, <2>1, <2>3 DEF RelayInv, CacheInv, Logged, IsCache
    <3>2. ~ (now - seen[h][e.inner] >= TTL)
      BY <3>1, <2>1, <1>1, BoundFacts
    <3>3. Cardinality(DOMAIN c) >= Bound /\ \A z \in DOMAIN c : c[z] >= seen[h][e.inner]
      BY <3>2, <2>1, <2>3 DEF Kept
    <3>4. DOMAIN c \subseteq Others(e)'
      <4> SUFFICES ASSUME NEW z \in DOMAIN c PROVE z \in Others(e)'
        OBVIOUS
      <4>1. CacheInv(h)'
        BY PassingCaches
      <4>2. Entry(h, z, c[z]) \in log' /\ c[z] \in 0 .. now
        BY <4>1, <1>5 DEF CacheInv, IsCache, Passing
      <4>3. c[z] >= e.at /\ z # e.inner
        BY <3>1, <3>3, <4>2, <2>1, <1>1
      <4> QED
        BY <4>2, <4>3, <2>3 DEF Others, Logged, Entry
    <3>5. Cardinality(DOMAIN c) <= Cardinality(Others(e)')
      BY <3>4, <1>2, FS_Subset
    <3>6. Cardinality(DOMAIN c) \in Nat /\ Cardinality(Others(e)') \in Nat
      BY <1>2, FS_CardinalityType DEF Kept
    <3> QED
      BY <3>3, <3>5, <3>6, BoundFacts
  <2> QED
    BY <2>2, <2>3
<1> QED
  BY <1>6, <1>7

\* Every step of a daemon is one call of its cache.
LEMMA StepPasses ==
    ASSUME RelayInv, NEW h \in Daemons, NEW d \in wire, Step(h, d)
    PROVE  \E new \in {{}, {Decoded(d).payload}} : \E c :
                Passing(h, c, new) /\ Kept(seen[h], c, new, now) /\ IsFiniteSet(new)
                    /\ \A x \in new : x \notin DOMAIN expire(seen[h], now)
<1>1. IsCache(seen[h], now) /\ now \in Nat
  BY DEF RelayInv, CacheInv, HistoryInv
<1>2. CASE DropReplay(h, d)
  <2>1. PICK c : c = expire(seen[h], now)
    OBVIOUS
  <2>2. Kept(seen[h], c, {}, now)
    BY <1>1, <2>1, ExpireKeeps
  <2>3. Passing(h, c, {})
    BY <1>2, <2>1 DEF DropReplay, Passing
  <2> QED
    BY <2>2, <2>3, FS_EmptySet
<1>3. CASE Accept(h, d)
  <2>1. PICK x : x = Decoded(d).payload
    OBVIOUS
  <2>2. PICK c \in Recorded(expire(seen[h], now), x, now) :
            /\ seen' = [seen EXCEPT ![h] = c]
            /\ log' = log \cup {Entry(h, x, now)}
            /\ x \notin DOMAIN expire(seen[h], now) /\ UNCHANGED <<conf, now>>
    BY <1>3, <2>1 DEF Accept, Entry
  <2>3. Kept(seen[h], c, {x}, now)
    BY <1>1, <2>2, AcceptKeeps
  <2>4. {Entry(h, y, now) : y \in {x}} = {Entry(h, x, now)}
    OBVIOUS
  <2>5. Passing(h, c, {x})
    BY <2>2, <2>4 DEF Passing
  <2>6. IsFiniteSet({x})
    BY FS_Singleton
  <2>7. {x} \in {{}, {Decoded(d).payload}}
    BY <2>1
  <2> QED
    BY <2>2, <2>3, <2>5, <2>6, <2>7
<1> QED
  BY <1>2, <1>3 DEF Step, Forward, PeelForward, ForwardFails, ForwardUnencodable

LEMMA RelayInitInv == Init => RelayInv
<1> SUFFICES ASSUME Init PROVE RelayInv
  OBVIOUS
<1>1. log = {} /\ now = 0 /\ conf \in Scenarios /\ IsFiniteSet(log)
  BY FS_EmptySet DEF Init
<1>2. \A h \in Daemons : DOMAIN seen[h] = {}
  BY DEF Init
<1>3. \A h \in Daemons : IsCache(seen[h], now)
  BY <1>1, <1>2, FS_EmptySet, BoundFacts DEF IsCache
<1>4. \A h \in Daemons : CacheInv(h)
  BY <1>1, <1>2, <1>3 DEF CacheInv, Logged
<1>5. now \in 0 .. MaxNow /\ stopped \in [Daemons -> BOOLEAN] /\ DOMAIN seen = Daemons
  BY RelayAssumption DEF Init
<1> QED
  BY <1>1, <1>4, <1>5 DEF RelayInv, HistoryInv

LEMMA RelayStep == RelayInv /\ [Next]_vars => RelayInv'
<1> SUFFICES ASSUME RelayInv, [Next]_vars PROVE RelayInv'
  OBVIOUS
<1>1. ASSUME NEW h \in Daemons, NEW d \in wire, Step(h, d) PROVE RelayInv'
  <2>1. PICK new, c : /\ Passing(h, c, new) /\ Kept(seen[h], c, new, now) /\ IsFiniteSet(new)
    BY <1>1, StepPasses
  <2>2. HistoryInv'
    BY <2>1, PassingHistory DEF RelayInv
  <2>3. \A g \in Daemons : CacheInv(g)'
    BY <2>1, PassingCaches
  <2>4. \A e \in log' : Remembers(e)'
    BY <2>1, PassingRemembers
  <2>5. stopped' \in [Daemons -> BOOLEAN]
    <3>1. stopped' = stopped \/ stopped' = [stopped EXCEPT ![h] = conf.stops]
      BY <1>1 DEF Step, DropReplay, Forward, PeelForward, ForwardFails, ForwardUnencodable
    <3> QED
      BY <3>1, RelayAssumption DEF RelayInv, HistoryInv
  <2>6. DOMAIN seen' = Daemons /\ now' \in 0 .. MaxNow
    BY <2>1 DEF Passing, RelayInv
  <2> QED
    BY <2>2, <2>3, <2>4, <2>5, <2>6 DEF RelayInv
<1>2. CASE Tick
  <2>1. /\ now' = now + 1 /\ now \in Nat /\ MaxNow \in Nat /\ now' \in 0 .. MaxNow
        /\ UNCHANGED <<conf, seen, stopped, wire, log>>
    BY <1>2, RelayAssumption DEF Tick, RelayInv
  <2>2. HistoryInv'
    BY <2>1 DEF RelayInv, HistoryInv
  <2>3. \A h \in Daemons : IsCache(seen[h], now)'
    BY <2>1 DEF RelayInv, CacheInv, IsCache
  <2>4. \A h \in Daemons : CacheInv(h)'
    BY <2>1, <2>3 DEF RelayInv, CacheInv, Logged
  <2>5. ASSUME NEW e \in log' PROVE Remembers(e)'
    <3>1. Others(e)' = Others(e)
      BY <2>1 DEF Others, Logged
    <3>2. e \in log /\ e.at \in 0 .. now
      BY <2>1 DEF RelayInv, HistoryInv
    <3>3. now' - e.at < TTL => now - e.at < TTL
      BY <3>2, <2>1, BoundFacts
    <3> QED
      BY <3>1, <3>2, <3>3, <2>1 DEF RelayInv, Remembers
  <2> QED
    BY <2>1, <2>2, <2>4, <2>5 DEF RelayInv
<1>3. ASSUME NEW h \in Daemons, ReceiveFails(h) PROVE RelayInv'
  <2>1. stopped' = [stopped EXCEPT ![h] = conf.stops] /\ UNCHANGED <<conf, seen, now, log>>
    BY <1>3 DEF ReceiveFails
  <2>2. stopped' \in [Daemons -> BOOLEAN]
    BY <2>1, RelayAssumption DEF RelayInv, HistoryInv
  <2> QED
    BY <2>1, <2>2 DEF RelayInv, HistoryInv, CacheInv, IsCache, Logged, Remembers, Others
<1>4. CASE UNCHANGED vars
  BY <1>4 DEF vars, RelayInv, HistoryInv, CacheInv, IsCache, Logged, Remembers, Others
<1> QED
  BY <1>1, <1>2, <1>3, <1>4 DEF Next

LEMMA RelayInvHolds == Spec => []RelayInv
  BY RelayInitInv, RelayStep, PTL DEF Spec

\* The caches never hold more than their capacity, and only what came through.
THEOREM TypeCorrect == Spec => []TypeOK
<1>1. RelayInv => TypeOK
  <2> SUFFICES ASSUME RelayInv PROVE TypeOK
    OBVIOUS
  <2>1. ASSUME NEW h \in Daemons PROVE DOMAIN seen[h] \subseteq {e.inner : e \in Logged(h)}
    <3> SUFFICES ASSUME NEW x \in DOMAIN seen[h] PROVE x \in {e.inner : e \in Logged(h)}
      OBVIOUS
    <3>1. Entry(h, x, seen[h][x]) \in Logged(h)
      BY DEF RelayInv, CacheInv, Logged, Entry
    <3> QED
      BY <3>1 DEF Entry
  <2> QED
    BY <2>1 DEF RelayInv, TypeOK, CacheInv, IsCache
<1> QED
  BY <1>1, RelayInvHolds, PTL

\* A payload that came through less than TTL ago, with fewer than Bound others
\* since, is in the cache: expire and the eviction of the oldest entry forget
\* nothing else, whichever entry min_by_key finds on a tie.
THEOREM RecentIsRemembered == Spec => []RemembersRecent
<1>1. RelayInv => RemembersRecent
  BY DEF RelayInv, Remembers, RemembersRecent
<1> QED
  BY <1>1, RelayInvHolds, PTL

\* What a daemon would drop it let through less than TTL ago: the cache dates a
\* payload by the last time it came through, never by a copy it dropped.
THEOREM DropsAreRecent == Spec => []DropsOnlyRecent
<1>1. RelayInv => DropsOnlyRecent
  <2> SUFFICES ASSUME RelayInv, NEW h \in Daemons, NEW x, x \in DOMAIN expire(seen[h], now)
               PROVE  \E e \in Logged(h) : e.inner = x /\ now - e.at < TTL
    BY DEF DropsOnlyRecent
  <2>1. x \in DOMAIN seen[h] /\ now - seen[h][x] < TTL
    BY DEF expire, Restrict
  <2>2. Entry(h, x, seen[h][x]) \in Logged(h)
    BY <2>1 DEF RelayInv, CacheInv, Logged, Entry
  <2> QED
    BY <2>1, <2>2 DEF Entry
<1> QED
  BY <1>1, RelayInvHolds, PTL

-----------------------------------------------------------------------------
(***************************************************************************)
(* The caches implement ReplayFilter.                                      *)
(***************************************************************************)
Came(h) == {e.inner : e \in Logged(h)}

LEMMA PassedFacts ==
    ASSUME HistoryInv, NEW h \in Daemons
    PROVE  /\ DOMAIN Passed(h) = Came(h)
           /\ \A x \in Came(h) :
                /\ Passed(h)[x] \in 0 .. now /\ Entry(h, x, Passed(h)[x]) \in log
                /\ \A e \in Logged(h) : e.inner = x => e.at <= Passed(h)[x]
<1>1. now \in Nat
  BY DEF HistoryInv
<1>2. ASSUME NEW x \in Came(h)
      PROVE  \E t \in 0 .. now : /\ \E e \in Logged(h) : e.inner = x /\ e.at = t
                                 /\ \A e \in Logged(h) : e.inner = x => e.at <= t
  <2>1. PICK S : S = {now - e.at : e \in {b \in Logged(h) : b.inner = x}}
    OBVIOUS
  <2>2. \A e \in Logged(h) : e.at \in 0 .. now
    BY DEF Logged, HistoryInv
  <2>3. S \in SUBSET Nat /\ S # {}
    BY <1>1, <2>1, <2>2 DEF Came
  <2>4. PICK n \in S : \A m \in S : n <= m
    BY <2>3, LeastNatural
  <2>5. PICK e \in Logged(h) : e.inner = x /\ n = now - e.at
    BY <2>1
  <2>6. ASSUME NEW b \in Logged(h), b.inner = x PROVE b.at <= e.at
    <3>1. now - e.at <= now - b.at
      BY <2>1, <2>4, <2>5, <2>6
    <3> QED
      BY <3>1, <2>2, <1>1
  <2> QED
    BY <2>2, <2>5, <2>6
<1>3. ASSUME NEW x \in Came(h)
      PROVE  /\ Passed(h)[x] \in 0 .. now
             /\ \E e \in Logged(h) : e.inner = x /\ e.at = Passed(h)[x]
             /\ \A e \in Logged(h) : e.inner = x => e.at <= Passed(h)[x]
  BY <1>2 DEF Passed, Came
<1>4. \A e \in Logged(h) : e \in log /\ e = Entry(h, e.inner, e.at)
  BY DEF Logged, HistoryInv
<1>5. DOMAIN Passed(h) = Came(h)
  BY DEF Passed, Came
<1> QED
  BY <1>3, <1>4, <1>5

\* What came through last is found again from three facts.
LastAt(h, x, t) ==
    /\ t \in 0 .. now /\ Entry(h, x, t) \in log
    /\ \A e \in Logged(h) : e.inner = x => e.at <= t

LastIsPassed ==
    \A h \in Daemons : \A x, t : x \in Came(h) /\ LastAt(h, x, t) => Passed(h)[x] = t

LEMMA PassedIs == HistoryInv => LastIsPassed
<1> SUFFICES ASSUME HistoryInv, NEW h \in Daemons, NEW x, NEW t, x \in Came(h), LastAt(h, x, t)
             PROVE  Passed(h)[x] = t
  BY DEF LastIsPassed
<1> USE DEF LastAt
<1>1. now \in Nat
  BY DEF HistoryInv
<1>2. /\ Passed(h)[x] \in 0 .. now /\ Entry(h, x, Passed(h)[x]) \in log
      /\ \A e \in Logged(h) : e.inner = x => e.at <= Passed(h)[x]
  BY PassedFacts
<1>3. PICK p : p = Passed(h)[x]
  OBVIOUS
<1>4. p <= t
  BY <1>2, <1>3 DEF Entry, Logged
<1>5. t <= p
  <2>1. Entry(h, x, t) \in Logged(h) /\ Entry(h, x, t).inner = x /\ Entry(h, x, t).at = t
    BY DEF Entry, Logged
  <2> QED
    BY <1>2, <1>3, <2>1
<1> QED
  BY <1>1, <1>2, <1>3, <1>4, <1>5

\* A call of the cache lets the payload through in the filter's sense.
LEMMA PassingPasses ==
    ASSUME HistoryInv, HistoryInv', NEW h \in Daemons, NEW c, NEW x, Passing(h, c, {x}), NEW g \in Daemons
    PROVE  Passed(g)' = IF g = h
                        THEN [y \in Came(h) \cup {x} |-> IF y = x THEN now ELSE Passed(h)[y]]
                        ELSE Passed(g)
<1>0. LastIsPassed'
  BY PassedIs, PTL
<1>1. log' = log \cup {Entry(h, x, now)} /\ now' = now /\ now \in Nat
  BY DEF Passing, HistoryInv
<1>2. DOMAIN Passed(g)' = Came(g)' /\ DOMAIN Passed(g) = Came(g)
  BY DEF Passed, Came
<1>3. ASSUME NEW y \in Came(g), g # h \/ y # x
      PROVE  Passed(g)'[y] = Passed(g)[y]
  <2>1. \A e \in log' : e.hop = g /\ e.inner = y => e \in log
    BY <1>1, <1>3 DEF Entry
  <2>2. \A e \in Logged(g)' : e.inner = y => e \in Logged(g)
    BY <2>1 DEF Logged
  <2>3. PICK t : t = Passed(g)[y]
    OBVIOUS
  <2>4. t \in 0 .. now /\ Entry(g, y, t) \in log /\ \A e \in Logged(g) : e.inner = y => e.at <= t
    BY <2>3, PassedFacts
  <2>5. t \in 0 .. now' /\ Entry(g, y, t) \in log' /\ \A e \in Logged(g)' : e.inner = y => e.at <= t
    BY <2>2, <2>4, <1>1
  <2>6. y \in Came(g)'
    BY <2>5 DEF Came, Entry, Logged
  <2>7. LastAt(g, y, t)'
    BY <2>5 DEF LastAt
  <2>8. Passed(g)'[y] = t
    BY <1>0, <2>6, <2>7 DEF LastIsPassed
  <2> QED
    BY <2>3, <2>8
<1>4. CASE g # h
  <2>1. Logged(g)' = Logged(g)
    BY <1>1, <1>4 DEF Logged, Entry
  <2>2. Came(g)' = Came(g)
    BY <2>1 DEF Came
  <2> QED
    BY <1>4, <2>1, <1>1 DEF Passed
<1>5. CASE g = h
  <2>1. Came(h)' = Came(h) \cup {x}
    <3>1. Logged(h)' = Logged(h) \cup {Entry(h, x, now)}
      BY <1>1 DEF Logged, Entry
    <3>2. Entry(h, x, now).inner = x
      BY DEF Entry
    <3> QED
      BY <3>1, <3>2 DEF Came
  <2>2. Passed(h)'[x] = now
    <3>1. \A e \in Logged(h)' : e.at <= now
      BY <1>1 DEF Logged, HistoryInv
    <3>2. Entry(h, x, now) \in log' /\ now \in 0 .. now'
      BY <1>1
    <3>3. PICK t : t = now
      OBVIOUS
    <3>4. LastAt(h, x, t)'
      BY <3>1, <3>2, <3>3 DEF LastAt
    <3> QED
      BY <1>0, <2>1, <3>3, <3>4 DEF LastIsPassed
  <2>3. Passed(h)' = [y \in Came(h)' |-> Passed(h)'[y]]
    BY DEF Passed, Came
  <2>4. \A y \in Came(h) \cup {x} : Passed(h)'[y] = IF y = x THEN now ELSE Passed(h)[y]
    BY <1>3, <1>5, <2>2
  <2> QED
    BY <1>5, <2>1, <2>3, <2>4
<1> QED
  BY <1>4, <1>5

\* What the filter sees in a state.
Through == [h \in Daemons |-> Passed(h)]

\* The cache lets a payload through only when the filter may.
LEMMA AcceptedIsDue ==
    ASSUME RelayInv, NEW h \in Daemons, NEW x, x \notin DOMAIN expire(seen[h], now)
    PROVE  Filter!Due(h, x)
<1>1. HistoryInv /\ now \in Nat /\ CacheInv(h) /\ Through[h] = Passed(h) /\ DOMAIN Passed(h) = Came(h)
  BY PassedFacts DEF RelayInv, HistoryInv, Through
<1>2. PICK P : P = Passed(h)
  OBVIOUS
<1>3. ASSUME x \in Came(h), ~ (now - P[x] >= TTL)
      PROVE  Cardinality({y \in Came(h) \ {x} : P[y] >= P[x]}) >= Bound
  <2>1. PICK e : e = Entry(h, x, P[x])
    OBVIOUS
  <2>2. e \in log /\ e.hop = h /\ e.inner = x /\ e.at = P[x] /\ P[x] \in 0 .. now
    BY <1>1, <1>2, <1>3, <2>1, PassedFacts DEF Entry
  <2>3. now - e.at < TTL
    BY <1>1, <1>3, <2>2, BoundFacts
  <2>4. x \notin DOMAIN seen[h]
    <3> SUFFICES ASSUME x \in DOMAIN seen[h] PROVE FALSE
      OBVIOUS
    <3>1. P[x] <= seen[h][x] /\ seen[h][x] \in 0 .. now
      BY <1>1, <2>2 DEF CacheInv, Logged, IsCache
    <3>2. now - seen[h][x] < TTL
      BY <3>1, <2>2, <2>3, <1>1, BoundFacts
    <3> QED
      BY <3>2 DEF expire, Restrict
  <2>5. ~ (Cardinality(Others(e)) < Bound)
    BY <2>2, <2>3, <2>4 DEF RelayInv, Remembers
  <2>6. Others(e) \subseteq {y \in Came(h) \ {x} : P[y] >= P[x]}
    <3> SUFFICES ASSUME NEW b \in Logged(h), b.at >= P[x], b.inner # x
                 PROVE  b.inner \in Came(h) /\ P[b.inner] >= P[x]
      BY <2>2 DEF Others
    <3>1. b.inner \in Came(h)
      BY DEF Came
    <3>2. b.at <= P[b.inner] /\ P[b.inner] \in 0 .. now
      BY <1>1, <1>2, <3>1, PassedFacts
    <3>3. b.at \in 0 .. now
      BY <1>1 DEF Logged, HistoryInv
    <3> QED
      BY <3>1, <3>2, <3>3, <2>2, <1>1
  <2>7. {y \in Came(h) \ {x} : P[y] >= P[x]} \subseteq Others(e)
    <3> SUFFICES ASSUME NEW y \in Came(h), y # x, P[y] >= P[x] PROVE y \in Others(e)
      OBVIOUS
    <3>1. Entry(h, y, P[y]) \in log
      BY <1>1, <1>2, PassedFacts
    <3> QED
      BY <3>1, <2>2 DEF Others, Logged, Entry
  <2>8. Cardinality({y \in Came(h) \ {x} : P[y] >= P[x]}) = Cardinality(Others(e))
    BY <2>6, <2>7
  <2>9. Cardinality(Others(e)) \in Nat
    BY OthersFinite, FS_CardinalityType DEF RelayInv, HistoryInv
  <2> QED
    BY <2>5, <2>8, <2>9, BoundFacts
<1>4. Filter!Due(h, x) <=>
        (x \in DOMAIN P => \/ now - P[x] >= TTL
                           \/ Cardinality({y \in DOMAIN P \ {x} : P[y] >= P[x]}) >= Bound)
  BY <1>1, <1>2 DEF Filter!Due, Filter!Since, Filter!Cardinality, Cardinality, Through
<1> QED
  BY <1>1, <1>2, <1>3, <1>4

LEMMA FilterInit == Init => Filter!Init
<1> SUFFICES ASSUME Init PROVE Filter!Init
  OBVIOUS
<1>1. \A h \in Daemons : Logged(h) = {}
  BY DEF Init, Logged
<1>2. \A h \in Daemons : Passed(h) = << >>
  BY <1>1 DEF Passed
<1> QED
  BY <1>2 DEF Init, Filter!Init

LEMMA FilterStep == RelayInv /\ [Next]_vars => [Filter!Next]_<<now, [h \in Daemons |-> Passed(h)]>>
<1> SUFFICES ASSUME RelayInv, [Next]_vars PROVE Filter!Next \/ (now' = now /\ Through' = Through)
  BY DEF Through
<1>0. HistoryInv /\ HistoryInv'
  BY RelayStep DEF RelayInv
<1>1. ASSUME NEW h \in Daemons, NEW d \in wire, Step(h, d)
      PROVE  Filter!Next \/ (now' = now /\ Through' = Through)
  <2>0. PICK new \in {{}, {Decoded(d).payload}} : \E c :
            Passing(h, c, new) /\ \A x \in new : x \notin DOMAIN expire(seen[h], now)
    BY <1>1, StepPasses
  <2>1. PICK c :
            Passing(h, c, new) /\ \A x \in new : x \notin DOMAIN expire(seen[h], now)
    BY <2>0
  <2>2. CASE new = {}
    <3>1. UNCHANGED <<log, now>>
      BY <2>1, <2>2 DEF Passing
    <3> QED
      BY <3>1 DEF Through, Passed, Logged
  <2>3. CASE new # {}
    <3>1. PICK x : new = {x}
      BY <2>1, <2>3
    <3>2. Filter!Due(h, x)
      BY <2>1, <3>1, AcceptedIsDue
    <3>3. \A g \in Daemons : Passed(g)' = IF g = h
                        THEN [y \in Came(h) \cup {x} |-> IF y = x THEN now ELSE Passed(h)[y]]
                        ELSE Passed(g)
      BY <1>0, <2>1, <3>1, PassingPasses
    <3>4. DOMAIN Passed(h) = Came(h)
      BY DEF Passed, Came
    <3>5. Through' = [Through EXCEPT ![h] = [y \in DOMAIN Passed(h) \cup {x} |-> IF y = x THEN now ELSE Passed(h)[y]]]
      BY <3>3, <3>4 DEF Through
    <3>6. now' = now
      BY <2>1 DEF Passing
    <3>7. Through[h] = Passed(h) /\ x \in DOMAIN Through'[h]
      BY <3>5 DEF Through
    <3>8. Filter!Pass(h, x)
      BY <3>2, <3>5, <3>6, <3>7 DEF Filter!Pass, Through
    <3> QED
      BY <3>7, <3>8 DEF Filter!Next, Through
  <2> QED
    BY <2>2, <2>3
<1>2. CASE Tick
  <2>1. now' = now + 1 /\ log' = log /\ now \in Nat
    BY <1>2 DEF Tick, RelayInv, HistoryInv
  <2>2. \A h \in Daemons : Passed(h)' = Passed(h)
    <3> SUFFICES ASSUME NEW h \in Daemons PROVE Passed(h)' = Passed(h)
      OBVIOUS
    <3>1. Logged(h)' = Logged(h) /\ Came(h)' = Came(h)
      BY <2>1 DEF Logged, Came
    <3>2. LastIsPassed'
      BY <1>0, PassedIs, PTL
    <3>3. ASSUME NEW x \in Came(h) PROVE Passed(h)'[x] = Passed(h)[x]
      <4>1. PICK t : t = Passed(h)[x]
        OBVIOUS
      <4>2. LastAt(h, x, t)
        BY <1>0, <4>1, PassedFacts DEF LastAt
      <4>3. LastAt(h, x, t)'
        BY <4>2, <3>1, <2>1 DEF LastAt
      <4> QED
        BY <4>1, <4>3, <3>1, <3>2 DEF LastIsPassed
    <3>4. Passed(h)' = [x \in Came(h)' |-> Passed(h)'[x]] /\ Passed(h) = [x \in Came(h) |-> Passed(h)[x]]
      BY DEF Passed, Came
    <3> QED
      BY <3>1, <3>3, <3>4
  <2>3. Through' = Through
    BY <2>2 DEF Through
  <2> QED
    BY <2>1, <2>3 DEF Filter!Next, Filter!Tick, Through
<1>3. ASSUME NEW h \in Daemons, ReceiveFails(h)
      PROVE  Filter!Next \/ (now' = now /\ Through' = Through)
  BY <1>3 DEF ReceiveFails, Through, Passed, Logged
<1>4. CASE UNCHANGED vars
  BY <1>4 DEF vars, Through, Passed, Logged
<1> QED
  BY <1>1, <1>2, <1>3, <1>4 DEF Next

\* At every daemon the replay check, with its expiry and its eviction, is the
\* filter that forgets nothing before it has to.
THEOREM RelayIsFilter == Spec => ImplementsFilter
  BY FilterInit, FilterStep, RelayInvHolds, PTL DEF Spec, ImplementsFilter, Filter!Spec

==============================================================================
