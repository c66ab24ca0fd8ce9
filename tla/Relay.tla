-------------------------------- MODULE Relay --------------------------------
(***************************************************************************)
(* Forwarding daemons with their replay caches: the cleartext forwarder    *)
(* (src/relay.rs) and the hops of an onion (src/onion.rs), which share     *)
(* ReplayCache (src/network/replay.rs).  The cache's key, a hash of the    *)
(* inner datagram or of the peeled payload, is the datagram itself here.   *)
(*                                                                         *)
(* The network keeps everything that was ever sent and may deliver it      *)
(* late, in any order, again, or never.  A datagram of another type, or    *)
(* one that does not decode or peel, leaves a daemon as it was (the cache  *)
(* is not even expired): no action.                                        *)
(***************************************************************************)
EXTENDS Packets, FiniteSets, Functions

CONSTANTS
    Daemons,      \* addresses of the daemons
    TTL, CAP,     \* bounds of the cache
    MaxNow,       \* bound: ticks of the clock
    Scenarios     \* records [kind, stops, v6, senders, dests, inners, routes, wraps,
                  \* accepts]: the daemons' kind, whether their loops end at an
                  \* I/O error (run_until, ppose) or go on (examples/relay_node),
                  \* whether their sockets see IPv6 senders, who sends which inner
                  \* datagrams where, on which routes and how often each is wrapped
                  \* and, as a bound, how many the caches accept

ASSUME RelayAssumption ==
    /\ TTL \in Nat /\ CAP \in Nat /\ MaxNow \in Nat
    /\ \A c \in Scenarios :
        /\ c.kind \in {"forward", "onion"} /\ c.stops \in BOOLEAN
        /\ c.routes \subseteq Seq(Daemons) \ {<< >>}

VARIABLES
    conf,       \* the scenario
    seen,       \* per daemon, ReplayCache.seen: when each payload was recorded
    now,        \* Instant::now()
    stopped,    \* per daemon: its loop has ended with an I/O error
    wire,       \* every datagram sent so far, [to, from, dg]
    log         \* history: what the caches accepted, [hop, inner, at]

vars == <<conf, seen, now, stopped, wire, log>>

\* What a sender hands to the first daemon of a path.
Wrapped(x, from, dest, route, fresh) ==
    [to |-> Head(route), from |-> from,
     dg |-> IF conf.kind = "forward" THEN encode_forward(dest, encode_datagram(x, 0))
            ELSE wrap_route(route, dest, encode_datagram(x, 0), fresh)]

Init ==
    /\ conf \in Scenarios
    /\ seen = [h \in Daemons |-> << >>]
    /\ now = 0
    /\ stopped = [h \in Daemons |-> FALSE]
    /\ wire = {Wrapped(x, a, b, r, f) : x \in conf.inners, a \in conf.senders, b \in conf.dests,
                                       r \in conf.routes, f \in 1 .. conf.wraps}
    /\ log = {}

-----------------------------------------------------------------------------
(***************************************************************************)
(* ReplayCache.                                                            *)
(***************************************************************************)
expire_Early(s, t) == Restrict(s, {x \in DOMAIN s : t - s[x] + 1 < TTL})

expire(s, t) == Restrict(s, {x \in DOMAIN s : t - s[x] < TTL})

Oldest_Newest(s) == {x \in DOMAIN s : \A y \in DOMAIN s : s[y] <= s[x]}

\* What min_by_key may return: the map's order decides between equal instants.
Oldest(s) == {x \in DOMAIN s : \A y \in DOMAIN s : s[x] <= s[y]}

Full_OneMore(s) == Cardinality(DOMAIN s) > CAP

Full(s) == Cardinality(DOMAIN s) >= CAP

Record(s, x, t) == [y \in DOMAIN s \cup {x} |-> IF y = x THEN t ELSE s[y]]

\* The caches `accept' may leave when x is new to the expired cache s.
Recorded(s, x, t) ==
    IF Full(s) /\ s # << >>
    THEN {Record(Restrict(s, DOMAIN s \ {o}), x, t) : o \in Oldest(s)}
    ELSE {Record(s, x, t)}

-----------------------------------------------------------------------------
(***************************************************************************)
(* step.                                                                   *)
(***************************************************************************)

\* The datagram decodes at this daemon: a hop peels only what was wrapped for
\* its key.
Decodes(h, d) ==
    /\ d.to = h /\ d.dg.type = conf.kind
    /\ d.dg.type = "onion" => Head(d.dg.layers).hop = h

\* Where to, and what the replay check looks at.
Decoded(d) ==
    IF conf.kind = "forward" THEN decode_forward_body(d.dg) ELSE peel_layer(d.dg)

\* What is sent on: a forwarder wraps the inner datagram again, with the
\* sender's address; a hop sends the payload it peeled.
Out(h, d) ==
    [to |-> Decoded(d).next, from |-> h,
     dg |-> IF conf.kind = "forward" THEN encode_forward(d.from, Decoded(d).payload)
            ELSE Decoded(d).payload]

DropReplay_Renews(h, d) ==
    /\ ~ stopped[h] /\ Decodes(h, d)
    /\ Decoded(d).payload \in DOMAIN expire(seen[h], now)
    /\ seen' = [seen EXCEPT ![h] = Record(expire(@, now), Decoded(d).payload, now)]
    /\ UNCHANGED <<conf, now, stopped, wire, log>>

\* A replay is dropped, whoever sent it and wherever this copy was to go; the
\* cache has been expired on the way.
DropReplay(h, d) ==
    /\ ~ stopped[h] /\ Decodes(h, d)
    /\ Decoded(d).payload \in DOMAIN expire(seen[h], now)
    /\ seen' = [seen EXCEPT ![h] = expire(@, now)]
    /\ UNCHANGED <<conf, now, stopped, wire, log>>

\* The cache accepts the payload; it is recorded whether or not it is sent on.
Accept(h, d) ==
    /\ ~ stopped[h] /\ Decodes(h, d) /\ Cardinality(log) < conf.accepts
    /\ LET x == Decoded(d).payload
           kept == expire(seen[h], now)
       IN  /\ x \notin DOMAIN kept
           /\ \E t \in Recorded(kept, x, now) : seen' = [seen EXCEPT ![h] = t]
           /\ log' = log \cup {[hop |-> h, inner |-> x, at |-> now]}
    /\ UNCHANGED <<conf, now>>

\* The forwarder can put only an IPv4 sender into the wrapper.
Encodable == conf.kind = "forward" => ~ conf.v6

\* Relay::step: accepted and sent on, with the sender's address in the wrapper.
Forward(h, d) ==
    /\ conf.kind = "forward" /\ Encodable /\ Accept(h, d)
    /\ wire' = wire \cup {Out(h, d)}
    /\ UNCHANGED stopped

\* OnionRelay::step: a layer is peeled, the payload accepted and sent on.  The
\* size check in between never fails: a payload is shorter than what held it.
PeelForward(h, d) ==
    /\ conf.kind = "onion" /\ Accept(h, d) /\ ~ TooLarge(Decoded(d).payload.len)
    /\ wire' = wire \cup {Out(h, d)}
    /\ UNCHANGED stopped

\* Accepted, but the send fails: step returns the error, which ends the loop or
\* is ignored.
ForwardFails(h, d) ==
    /\ Encodable /\ Accept(h, d)
    /\ stopped' = [stopped EXCEPT ![h] = conf.stops]
    /\ UNCHANGED wire

\* Accepted, but the sender does not fit into the wrapper: recorded and dropped.
ForwardUnencodable(h, d) == ~ Encodable /\ Accept(h, d) /\ UNCHANGED <<stopped, wire>>

Step(h, d) ==
    \/ DropReplay(h, d) \/ Forward(h, d) \/ PeelForward(h, d)
    \/ ForwardFails(h, d) \/ ForwardUnencodable(h, d)

\* The read fails with something else than its timeout.
ReceiveFails(h) ==
    /\ ~ stopped[h]
    /\ stopped' = [stopped EXCEPT ![h] = conf.stops]
    /\ UNCHANGED <<conf, seen, now, wire, log>>

Tick ==
    /\ now < MaxNow
    /\ now' = now + 1
    /\ UNCHANGED <<conf, seen, stopped, wire, log>>

Next ==
    \/ \E h \in Daemons, d \in wire : Step(h, d)
    \/ \E h \in Daemons : ReceiveFails(h)
    \/ Tick

Spec == Init /\ [][Next]_vars

-----------------------------------------------------------------------------
(***************************************************************************)
(* Properties.                                                             *)
(***************************************************************************)
Bound == IF CAP = 0 THEN 1 ELSE CAP

Logged(h) == {e \in log : e.hop = h}

\* Each cache is a map from accepted payloads to past instants and never holds
\* more than its capacity; a capacity of 0 keeps one entry, because there is
\* nothing to evict before the insert.
TypeOK ==
    /\ now \in 0 .. MaxNow /\ stopped \in [Daemons -> BOOLEAN]
    /\ \A h \in Daemons :
        /\ DOMAIN seen[h] \subseteq {e.inner : e \in Logged(h)}
        /\ \A x \in DOMAIN seen[h] : seen[h][x] \in 0 .. now
        /\ Cardinality(DOMAIN seen[h]) <= Bound

\* What else the daemon of entry e accepted from the instant of e on.
Others(e) == {b.inner : b \in {c \in Logged(e.hop) : c.at >= e.at /\ c.inner # e.inner}}

\* A datagram that was let through less than TTL ago is still remembered,
\* unless at least as many others as the cache holds have come through since
\* that instant.  This is what eviction of the oldest entry and expiry leave of
\* "not seen recently", whichever entry is evicted on a tie.
RemembersRecent ==
    \A e \in log :
        now - e.at < TTL /\ Cardinality(Others(e)) < Bound => e.inner \in DOMAIN seen[e.hop]

\* What the replay check can cost.  A datagram is recorded before it is sent, and
\* under its inner bytes alone: a copy may be dropped although the first one was
\* never sent, or went elsewhere.  But a daemon drops only what it let through
\* less than TTL ago, however often and however fast copies have been dropped
\* since: a sender that keeps trying gets past it after TTL.
DropsOnlyRecent ==
    \A h \in Daemons, d \in wire :
        Decodes(h, d) /\ Decoded(d).payload \in DOMAIN expire(seen[h], now) =>
            \E e \in Logged(h) : e.inner = Decoded(d).payload /\ now - e.at < TTL

\* When daemon h last accepted each payload.
Passed(h) ==
    [x \in {e.inner : e \in Logged(h)} |->
        CHOOSE t \in 0 .. now :
            /\ \E e \in Logged(h) : e.inner = x /\ e.at = t
            /\ \A e \in Logged(h) : e.inner = x => e.at <= t]

Filter == INSTANCE ReplayFilter WITH passed <- [h \in Daemons |-> Passed(h)]

\* At every hop a datagram comes through a second time within TTL only if as
\* many others as the cache holds came through between the two: the cache, with
\* its expiry and its eviction, is the filter that forgets nothing before it has
\* to, also for a datagram that is wrapped again for the same last hop.
ImplementsFilter == Filter!Spec
==============================================================================
