------------------------------ MODULE Rendezvous ------------------------------
(***************************************************************************)
(* The rendezvous service (src/rendezvous.rs) and the two commands of      *)
(* src/bin/ppose.rs that talk to it about one token.  rs-register sends    *)
(* one datagram from a fresh socket and exits, so every registration       *)
(* comes from an address of its own; rs-lookup asks once from a fresh      *)
(* socket, waits for a while and prints the first reply.  The network      *)
(* delays, reorders and repeats requests, delays replies and loses both.   *)
(* Requests of the wrong type or length change nothing and are left out.   *)
(***************************************************************************)
EXTENDS Integers, FiniteSets

CONSTANTS
    V4, V6,          \* addresses that register, by family, in the order they do so
    TTL,             \* lifetime of a registration, in ticks
    TIMEOUT,         \* how long rs-lookup waits for its reply, in ticks
    MaxNow,          \* bound: ticks of the clock
    MaxLookups,      \* bound: calls of rs-lookup
    Repeats          \* bound: requests the network delivers twice

ASSUME RendezvousAssumption ==
    /\ V4 \subseteq Nat \ {0} /\ V6 \subseteq Nat \ {0} /\ V4 \cap V6 = {}
    /\ TTL \in Nat /\ TIMEOUT \in Nat /\ MaxNow \in Nat
    /\ MaxLookups \in Nat /\ Repeats \in Nat

Addresses == V4 \cup V6
None == 0

VARIABLES
    map,        \* the token's entry: {} or {[addr, at]}; the service's HashMap
    now,        \* Instant::now()
    home,       \* the address that registered last, 0 before the first
    requests,   \* requests on their way
    repeats,    \* requests the network may still deliver twice
    registered, \* history: the last register processed, [addr, at], or {}
    stopped,    \* the service's loop has ended with an I/O error
    replies,    \* replies on their way, [to, addr, at, last]: for which lookup,
                \* the answer and, as a history, when and after which register
    lookups,    \* calls of rs-lookup so far
    client,     \* the call that waits for its reply: {} or {[id, since]}
    printed     \* what the last call has read and when: {} or {[reply, at]}

service == <<map, registered, stopped>>
caller == <<lookups, client, printed>>
vars == <<now, home, requests, repeats, service, replies, caller>>

Register(a) == [op |-> "register", from |-> a]
Lookup(n) == [op |-> "lookup", from |-> n]

Init ==
    /\ map = {} /\ now = 0 /\ home = 0
    /\ requests = {} /\ repeats = Repeats
    /\ registered = {} /\ stopped = FALSE
    /\ replies = {} /\ lookups = 0 /\ client = {} /\ printed = {}

-----------------------------------------------------------------------------
(***************************************************************************)
(* RendezvousService.                                                      *)
(***************************************************************************)
expire_Never(m, t) == m

expire(m, t) == {e \in m : t - e.at < TTL}

insert_Adds(m, a, t) == m \cup {[addr |-> a, at |-> t]}

insert(m, a, t) == {[addr |-> a, at |-> t]}

\* The body of the reply: the address if there is an entry and it is an IPv4 one.
reply(m) ==
    IF \E e \in m : e.addr \in V4 THEN (CHOOSE e \in m : TRUE).addr ELSE None

\* The datagram that is processed is gone, or stays for a second delivery.
Take(q) ==
    /\ ~ stopped /\ q \in requests
    /\ \/ requests' = requests \ {q} /\ UNCHANGED repeats
       \/ repeats > 0 /\ repeats' = repeats - 1 /\ UNCHANGED requests

StepRegister(a) ==
    /\ Take(Register(a))
    /\ map' = insert(expire(map, now), a, now)
    /\ registered' = {[addr |-> a, at |-> now]}
    /\ UNCHANGED <<now, home, stopped, replies, caller>>

Answer(n) ==
    [to |-> n, addr |-> reply(expire(map, now)), at |-> now, last |-> registered]

StepLookup(n) ==
    /\ Take(Lookup(n))
    /\ map' = expire(map, now)
    /\ replies' = replies \cup {Answer(n)}
    /\ UNCHANGED <<now, home, registered, stopped, caller>>

\* The reply cannot be sent: step returns the error, which ends the loop of the
\* command rs and is ignored by the loop of tests/rendezvous.rs.
StepLookupFails(n) ==
    /\ Take(Lookup(n))
    /\ map' = expire(map, now)
    /\ stopped' \in BOOLEAN
    /\ UNCHANGED <<now, home, registered, replies, caller>>

\* The read fails with something else than its timeout.
ReceiveFails ==
    /\ ~ stopped /\ stopped' = TRUE
    /\ UNCHANGED <<map, now, home, requests, repeats, registered, replies, caller>>

-----------------------------------------------------------------------------
(***************************************************************************)
(* The commands rs-register and rs-lookup.                                 *)
(***************************************************************************)
rs_register ==
    /\ home + 1 \in Addresses
    /\ home' = home + 1
    /\ requests' = requests \cup {Register(home')}
    /\ UNCHANGED <<now, repeats, service, replies, caller>>

\* rs-lookup up to its recv_from.
rs_lookup ==
    /\ client = {} /\ lookups < MaxLookups
    /\ lookups' = lookups + 1
    /\ client' = {[id |-> lookups', since |-> now]}
    /\ requests' = requests \cup {Lookup(lookups')}
    /\ printed' = {}
    /\ UNCHANGED <<now, home, repeats, service, replies>>

\* The timeout runs from the send: the call is in recv_from right after it.
Waiting(c) == c \in client /\ now - c.since < TIMEOUT

ReadReply_OldSocket(c, r) ==
    /\ Waiting(c) /\ r \in replies /\ r.to <= c.id
    /\ client' = {} /\ replies' = replies \ {r}
    /\ printed' = {[reply |-> r, at |-> now]}
    /\ UNCHANGED <<now, home, requests, repeats, service, lookups>>

\* recv_from returns the first reply to this call's socket, and it is printed.
ReadReply(c, r) ==
    /\ Waiting(c) /\ r \in replies /\ r.to = c.id
    /\ client' = {} /\ replies' = replies \ {r}
    /\ printed' = {[reply |-> r, at |-> now]}
    /\ UNCHANGED <<now, home, requests, repeats, service, lookups>>

\* recv_from ends with the socket's timeout and the command with an error.
ReadTimesOut(c) ==
    /\ c \in client /\ ~ Waiting(c)
    /\ client' = {}
    /\ UNCHANGED <<now, home, requests, repeats, service, replies, lookups, printed>>

-----------------------------------------------------------------------------
LoseRequest(q) ==
    /\ requests' = requests \ {q}
    /\ UNCHANGED <<now, home, repeats, service, replies, caller>>

LoseReply(r) ==
    /\ replies' = replies \ {r}
    /\ UNCHANGED <<now, home, requests, repeats, service, caller>>

Tick ==
    /\ now < MaxNow
    /\ now' = now + 1
    /\ UNCHANGED <<home, requests, repeats, service, replies, caller>>

Next ==
    \/ \E a \in Addresses : StepRegister(a)
    \/ \E n \in 1 .. MaxLookups : StepLookup(n) \/ StepLookupFails(n)
    \/ ReceiveFails
    \/ rs_register \/ rs_lookup
    \/ \E c \in client : ReadTimesOut(c) \/ \E r \in replies : ReadReply(c, r)
    \/ \E q \in requests : LoseRequest(q)
    \/ \E r \in replies : LoseReply(r)
    \/ Tick

Spec == Init /\ [][Next]_vars

-----------------------------------------------------------------------------
(***************************************************************************)
(* Properties.                                                             *)
(***************************************************************************)

\* One entry at most, made in the past for an address that has registered.
TypeOK ==
    /\ Cardinality(map) <= 1
    /\ map \subseteq [addr : 1 .. home, at : 0 .. now]
    /\ requests \subseteq {Register(a) : a \in 1 .. home} \cup {Lookup(n) : n \in 1 .. lookups}
    /\ repeats \in 0 .. Repeats

\* Every lookup is answered from the last register that was processed: with its
\* address if that was less than TTL before the lookup and is an IPv4 one, and
\* with "not found" in every other case, however requests were reordered and
\* although only processed requests expire anything.
RepliesCurrent ==
    \A r \in replies :
        r.addr = IF \E e \in r.last : r.at - e.at < TTL /\ e.addr \in V4
                 THEN (CHOOSE e \in r.last : TRUE).addr
                 ELSE None

\* How old what rs-lookup prints can be.  Registers, lookups and replies all
\* travel late, and an earlier call's request may still be answered, but the
\* address a call prints came from a register the service processed less than
\* TTL and the call's own timeout before.
PrintedFresh ==
    \A p \in printed : p.reply.addr # None =>
        \E e \in p.reply.last : e.addr = p.reply.addr /\ p.at - e.at < TTL + TIMEOUT
==============================================================================
