------------------------------ MODULE Admission ------------------------------
(***************************************************************************)
(* Invitation admission (src/admission.rs): the TrustStore, its issuers    *)
(* and the clock.  An invitation is a record; its signature is abstracted  *)
(* to `signed', whether the issuer really made it (Ed25519 is external).   *)
(*                                                                         *)
(* trust_depth searches breadth first from the roots.  The search is a     *)
(* recursive function of the depth; the order in which a level's issuers   *)
(* and their subjects are visited (hash maps) cannot show in its result.   *)
(***************************************************************************)
EXTENDS Integers, FiniteSets, Functions

CONSTANTS
    Keys,          \* identities: issuers and subjects share the key space
    U64_MAX,       \* largest instant, in seconds
    TTLs,          \* lifetimes invitations are issued with
    Caps,          \* values set_max_invitees_per_issuer is called with
    MaxDepth,      \* largest max_depth a query asks for
    MaxIssued,     \* bound: invitations about
    MaxForged      \* bound: those of them whose fields were changed on the way

ASSUME AdmissionAssumption ==
    /\ IsFiniteSet(Keys) /\ U64_MAX \in Nat /\ TTLs \subseteq Nat
    /\ Caps \subseteq Nat /\ MaxDepth \in Nat

VARIABLES
    roots, edges,   \* TrustStore: edges[issuer][subject] is an invitation
    max_invitees,   \* TrustStore.max_invitees_per_issuer
    now,            \* the clock callers pass in; it may be set back
    issued,         \* invitations about: issued ones and altered copies
    peak            \* history: the largest cap a new subject was ingested under

vars == <<roots, edges, max_invitees, now, issued, peak>>

\* usize::MAX, the cap of a new store.
Unlimited == Cardinality(Keys) + 1

Init ==
    /\ roots = {}
    /\ edges = [i \in Keys |-> << >>]
    /\ max_invitees = Unlimited
    /\ now = 0
    /\ issued = {} /\ peak = 0

-----------------------------------------------------------------------------
saturating_add_Wraps(a, b) == (a + b) % (U64_MAX + 1)

saturating_add(a, b) == IF a + b > U64_MAX THEN U64_MAX ELSE a + b

verify_Unsigned(v, t) == v.issued_at <= t /\ t < v.expires_at

verify_StrictStart(v, t) == v.issued_at < t /\ t < v.expires_at /\ v.signed

\* Invitation::verify, for both of its callers.
verify(v, t) == v.issued_at <= t /\ t < v.expires_at /\ v.signed

\* ingest's cap: only a subject the issuer has not vouched for yet counts.
CapReached_OffByOne(i, s) ==
    s \notin DOMAIN edges[i] /\ Cardinality(DOMAIN edges[i]) > max_invitees

CapReached(i, s) ==
    s \notin DOMAIN edges[i] /\ Cardinality(DOMAIN edges[i]) >= max_invitees

\* Subjects of invitations by an issuer in F that hold at t.
Subjects_Unchecked(F, t) == UNION {DOMAIN edges[i] : i \in F}

Subjects(F, t) == UNION {{s \in DOMAIN edges[i] : verify(edges[i][s], t)} : i \in F}

\* The search after the first d levels: the frontier, what has been visited and
\* the depth the subject was met at.
None == -1
Search(subject, t) ==
    LET level[d \in Nat] ==
        IF d = 0
        THEN [frontier |-> roots, visited |-> roots, found |-> IF subject \in roots THEN 0 ELSE None]
        ELSE LET p == level[d - 1]
                 met == Subjects(p.frontier, t)
             IN  [frontier |-> met \ p.visited,
                  visited |-> p.visited \cup met,
                  found |-> IF p.found = None /\ subject \in met THEN d ELSE p.found]
    IN  level

trust_depth(subject, max_depth, t) == Search(subject, t)[max_depth].found

is_admitted(subject, max_depth, t) == trust_depth(subject, max_depth, t) # None

-----------------------------------------------------------------------------
\* InviteSigningKey::issue.
Issue(i, s, ttl) ==
    /\ Cardinality(issued) < MaxIssued
    /\ issued' = issued \cup {[issuer |-> i, subject |-> s, issued_at |-> now,
                               expires_at |-> saturating_add(now, ttl), signed |-> TRUE]}
    /\ UNCHANGED <<roots, edges, max_invitees, now, peak>>

\* An invitation arrives with another subject or a later expiry than was signed.
Alter(v, s, e) ==
    /\ Cardinality(issued) < MaxIssued /\ Cardinality({w \in issued : ~ w.signed}) < MaxForged
    /\ v.signed /\ (s # v.subject \/ e # v.expires_at)
    /\ issued' = issued \cup {[v EXCEPT !.subject = s, !.expires_at = e, !.signed = FALSE]}
    /\ UNCHANGED <<roots, edges, max_invitees, now, peak>>

\* The largest cap that was in force when an issuer gained a subject.
Peak(v) ==
    IF v.subject \notin DOMAIN edges[v.issuer] /\ max_invitees > peak THEN max_invitees ELSE peak

Ingest_Unverified(v) ==
    /\ v.signed
    /\ ~ CapReached(v.issuer, v.subject)
    /\ edges' = [edges EXCEPT ![v.issuer] =
            [s \in DOMAIN @ \cup {v.subject} |-> IF s = v.subject THEN v ELSE @[s]]]
    /\ peak' = Peak(v)
    /\ UNCHANGED <<roots, max_invitees, now, issued>>

\* ingest, in any order and as often as an invitation arrives.
Ingest(v) ==
    /\ verify(v, now)
    /\ ~ CapReached(v.issuer, v.subject)
    /\ edges' = [edges EXCEPT ![v.issuer] =
            [s \in DOMAIN @ \cup {v.subject} |-> IF s = v.subject THEN v ELSE @[s]]]
    /\ peak' = Peak(v)
    /\ UNCHANGED <<roots, max_invitees, now, issued>>

add_root(r) ==
    /\ roots' = roots \cup {r}
    /\ UNCHANGED <<edges, max_invitees, now, issued, peak>>

set_max_invitees_per_issuer(n) ==
    /\ max_invitees' = n
    /\ UNCHANGED <<roots, edges, now, issued, peak>>

SetClock(t) ==
    /\ now' = t
    /\ UNCHANGED <<roots, edges, max_invitees, issued, peak>>

Next ==
    \/ \E i, s \in Keys, ttl \in TTLs : Issue(i, s, ttl)
    \/ \E v \in issued : Ingest(v) \/ \E s \in Keys, e \in 0 .. U64_MAX : Alter(v, s, e)
    \/ \E r \in Keys : add_root(r)
    \/ \E n \in Caps : set_max_invitees_per_issuer(n)
    \/ \E t \in 0 .. U64_MAX : SetClock(t)

Spec == Init /\ [][Next]_vars

-----------------------------------------------------------------------------
(***************************************************************************)
(* Properties.                                                             *)
(***************************************************************************)
Invitations ==
    [issuer : Keys, subject : Keys, issued_at : 0 .. U64_MAX, expires_at : 0 .. U64_MAX,
     signed : BOOLEAN]

\* The maps are keyed by the fields of what they hold, and an invitation never
\* expires before it was issued, at the end of time too.
TypeOK ==
    /\ roots \subseteq Keys /\ now \in 0 .. U64_MAX
    /\ issued \subseteq Invitations
    /\ \A v \in issued : v.signed => v.issued_at <= v.expires_at
    /\ \A i \in Keys : \A s \in DOMAIN edges[i] :
        edges[i][s] \in issued /\ edges[i][s].issuer = i /\ edges[i][s].subject = s

\* Chains of d invitations from a root to the subject, given who vouches for whom.
Chains(subject, d, Vouches(_, _)) ==
    {c \in [0 .. d -> Keys] :
        c[0] \in roots /\ c[d] = subject /\ \A k \in 1 .. d : Vouches(c[k - 1], c[k])}

Holds(i, s) == s \in DOMAIN edges[i] /\ verify(edges[i][s], now)

\* The search finds the length of the shortest chain of invitations that hold
\* now, if that is within max_depth, and nothing otherwise: what is visited on a
\* level is never needed again, cycles, self-invitations, several roots and
\* invitations of roots included.
DepthIsShortest ==
    \A s \in Keys, m \in 0 .. MaxDepth :
        LET lengths == {d \in 0 .. m : Chains(s, d, Holds) # {}}
        IN  trust_depth(s, m, now) =
                IF lengths = {} THEN None ELSE CHOOSE d \in lengths : \A e \in lengths : d <= e

Genuine(i, s) ==
    \E v \in issued : /\ v.signed /\ v.issuer = i /\ v.subject = s
                      /\ v.issued_at <= now /\ now < v.expires_at

\* Whoever is admitted was vouched for, through a chain of invitations that were
\* really issued and hold now, by a root: no altered invitation, no lapsed one
\* and no order of arrival admits anyone else.
AdmittedIsVouched ==
    \A s \in Keys :
        is_admitted(s, MaxDepth, now) => \E d \in 0 .. MaxDepth : Chains(s, d, Genuine) # {}

\* Time alone only takes admission away: from the last issue date in the store
\* on, who is admitted at a later instant was admitted, at no greater depth, at
\* every earlier one.
LapsesForGood ==
    \A s \in Keys, t, u \in 0 .. U64_MAX :
        /\ t <= u /\ \A i \in Keys : \A r \in DOMAIN edges[i] : edges[i][r].issued_at <= t
        /\ is_admitted(s, MaxDepth, u)
        => /\ is_admitted(s, MaxDepth, t)
           /\ trust_depth(s, MaxDepth, t) <= trust_depth(s, MaxDepth, u)

\* Only the clock takes admission away: an invitation that arrives late, again
\* or after its own renewal replaces the one the store holds, but it never puts
\* out anyone who is admitted at that instant, whoever vouches through it.
OnlyTimeRevokes ==
    [][edges' # edges /\ now' = now =>
        \A s \in Keys : is_admitted(s, MaxDepth, now) => is_admitted(s, MaxDepth, now)']_vars

\* The most subjects the roots and caps leave room for within m levels: every
\* issuer on a level vouches for at most `peak' others.
Room ==
    LET room[m \in Nat] ==
        IF m = 0 THEN Cardinality(roots) ELSE Cardinality(roots) + peak * room[m - 1]
    IN  room

\* What the cap is for.  It counts an issuer's subjects in the store, lapsed ones
\* and renewals included, and never looks at the chains; yet at every instant the
\* chains of m invitations admit no more keys than the largest cap an invitation
\* came in under leaves room for, whenever the cap was lowered, whatever lapsed,
\* was renewed or has come back with the clock, and whoever invites in a circle.
AdmissionBounded ==
    \A m \in 0 .. MaxDepth :
        Cardinality({s \in Keys : is_admitted(s, m, now)}) <= Room[m]
==============================================================================
