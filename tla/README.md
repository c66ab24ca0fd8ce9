# A TLA+ model of PPoSE

PPoSE is a small peer-to-peer datagram protocol in Rust: Noise XX sessions with a
selective-repeat ARQ over UDP, an optional forwarder or chain of onion hops between the
endpoints, a rendezvous service that maps tokens to addresses, and an admission policy built
on signed invitations. This directory holds TLA+ modules that model its state machines, TLC
configurations that check them on small instances, and proofs that TLAPS checks.

## The system

| Component (`src/src/`) | State | Operations | What is hard about it |
|---|---|---|---|
| ARQ (`reliability/arq.rs`) | outstanding frames with attempts and last transmission; receive base and 64-bit bitmap; reassembly buffers; delivered messages | `enqueue`, `take_new_sends`, `take_retransmits`, `ingest`, `take_ack`, `pop_delivered`, `set_retx` | late and repeated ACKs, wrapping numbers, two windows of different kind, giving up in the middle of a loop |
| Session (`session.rs`, `crypto/noise.rs`, `cover.rs`) | an ARQ, two Noise counters, deadlines, time of the last cover datagram, the path: next hop, peer, onion hops | `connect_initiator*`, `accept_responder*`, `send`, `recv`, `set_retx_timeout`, `debug_drop_data`, `set_cover` | one thread per endpoint, no thread when no call is active; Noise counters are implicit and UDP loses and reorders; nothing of the handshake is retransmitted; a send can fail, for the socket's sake or its size, when the counter is already used |
| Forwarder and onion hop (`relay.rs`, `onion.rs`, `network/replay.rs`) | a map from hashes to instants, bounded by TTL and capacity | `step`, `wrap_route` | eviction at capacity, a datagram recorded but not sent, one datagram for several destinations, several hops, each with a cache, layers that grow |
| Rendezvous (`rendezvous.rs`, `bin/ppose.rs`) | a map from tokens to address and instant; a lookup that waits | register, lookup | reordered registers, expiry only when something arrives, replies that come late |
| Admission (`admission.rs`) | roots, invitations per issuer and subject, a cap | `issue`, `ingest`, `add_root`, `set_max_invitees_per_issuer`, `trust_depth` | order of arrival, lapsing, clock, graph search |

A session owns an ARQ and a Noise session and calls both from `send` and `recv`; two sessions
share only datagrams. A relay forwards a session's datagrams and names their origin; the
session believes it. Rendezvous and admission are independent services.

`PROJECT.json` lists every component, also the ones left out, every hazard with the properties
that would catch it, and the source lines of every definition.

## Modules

* `ArqCore` - the methods of `Arq` as operators on a send half `tx` and a receive half `rx`. A
  payload is the pair (message, chunk), a bitmap the set of its one bits, and `last_sent` the age of
  the last transmission. Sequence numbers and fragment ids keep their wrap, with the moduli as
  constants.
* `Arq` - one direction: the send half of one endpoint, the receive half of the other, and a
  transport (`wire`) from which everything ever sent can be taken at any time, any number of times.
  One action per method.
* `Packets` - lengths of datagrams, the size limit, the forward wrapper and the layers of an onion. An
  onion is the sequence of its layers, outermost first; a layer can be opened by the hop it was made
  for, and the fresh key it is made under is a number.
* `Session` - two endpoints in the data phase. `pc` is the place in the loop of `wait_acked` or
  `recv`: `pop` (a delivered message is returned), `new` and `retx` (the two halves of `flush`, with
  `maybe_cover` and the exits of the loop in the second), `block` (the socket read). A datagram
  opens only under the receiver's next counter. One tick is the 50 ms slice of `wait_acked`; the
  clock stands still between the two halves of a flush, which use one `now`. A send that fails, refused
  by the socket or too large for the path, ends the call with the frame's counter used and the later
  frames counted as sent; so does a read that fails with anything but its timeout. Between calls the
  application may set the retransmission timeout, the number of DATA to drop and cover traffic, on
  or off, as often as it likes (`Configure`). What may happen in a behaviour is its scenario, `conf`: messages, kinds of
  faults, hops, cover interval, timeouts and the values it may tune them to.
* `Handshake` - `connect_initiator_pinned` and `accept_ex` over several attempts. A handshake
  message is the transcript it authenticates. Message 1 authenticates nothing, so the first
  handshake datagram a responder reads is taken for it. Each side has its own path to the other,
  direct, through the relay or through onion hops; `NextHop` is where it sends and from where it
  listens, `Source` where its datagrams come out. An onion responder sends to the socket it was given
  (`Dest`), whoever opened the session.
* `Relay`, `ReplayFilter` - forwarding daemons, of either kind, each with its replay cache, and the
  filter they stand for: nothing passes a daemon twice within the TTL unless a cache full of others
  passed since. `wire` is everything ever sent, from which any daemon may take any datagram at any
  time and again; an onion hop's payload is a datagram for the next. `min_by_key` may return any of
  several oldest entries; so may the model. A scenario says who sends which inner datagrams to whom,
  and whether the daemons' loops end at an I/O error, as `run_until` and the command line do, or go
  on, as `examples/relay_node.rs` and the loops of the tests do.
* `Rendezvous` - the service and the two commands that use it. `rs-register` sends one datagram from a
  fresh socket and exits, so every registration has an address of its own and nothing registers
  again. `rs-lookup` sends one request from a fresh socket, waits and prints the first reply to that
  socket. Its timeout is counted from the send: the call is taken to be in `recv_from` right after it,
  and a port is not reused.
* `Admission` - the trust store. The breadth-first search is a recursive function of the depth.
* `MC*` - the small instances.
* `ArqProofs`, `SessionProofs`, `SessionLossProofs`, `HandshakeProofs`, `RelayProofs`,
  `RendezvousProofs`, `AdmissionProofs` - the theorems about the module each is named after (two for
  `Session`: the second extends the first), and `CommonFacts` - what several of them need: a queue whose
  elements lie in a set keeps that when it is read, thinned or swapped; a set of naturals has a
  least member; induction over a set of naturals; what an iterated function computes.

A definition named like `acked_NarrowBehind` is a wrong variant of the one that follows it. Each
property comes with such a variant that makes it fail (`mutants` in `PROJECT.json`).

`Session` implements `Arq`: the two `INSTANCE Arq` at its end map each direction to a flow, and the
runs check `InitiatorImplementsArq` and `ResponderImplementsArq`, which are also proved. So what is
proved of `Arq` holds of the messages of a session. `Relay` implements `ReplayFilter` in the same way.

## Runs

| Run | Checks | Shows |
|---|---|---|
| `arq_core` | `TypeOK`, `NoFalseAck`, `GiveUpDiscardsNothing`, `DeliveredIntact`, `AckedMeansDelivered`, `SlotStable`, `Settles` | the flow is right over the worst transport: delivered once, whole; retired only when received; every frame is retired or the sender gives up |
| `arq_wrap` | `NoFalseAck`, `CurrentAckCovers`, `DeliveredIntact`, `AckedMeansDelivered`, `OvertakesAtWrap` | a message longer than both windows, starting two numbers before the wrap; the ACK the receiver would write now covers all that it has. `ACK_BEHIND` = `WINDOW_SIZE` + `RECV_WINDOW` is the least value for which this holds; the code has 1,000,000 against 96. `take_new_sends` goes by number, so younger frames overtake older ones, but only from one side of the wrap to the other |
| `session` | `TypeOK`, `SendOkDelivered`, `NonceUnique`, `GapIsPermanent`, `GiveUpIsFinal`, `InitiatorImplementsArq`, `ResponderImplementsArq` | `Ok` from `send` means delivered, also after failed calls; no counter seals two different datagrams, also when a flush breaks off; once a counter is missed, its direction is dead; an endpoint that gave up neither reads its socket nor returns `Ok` until its application sets a longer timeout, under which the exhausted frame is not due |
| `session_live` | `LossRecovered`, `CallsReturn`, `UnfitIsFinal` | every call returns; what the repository's loss test exercises works; one frame that does not fit an onion path blocks all later sends |
| `session_loss` (violated) | `LossRecovered` | a datagram lost by the network is not recovered: finding 1 |
| `session_cover` (violated) | `CoverCadence` | no cadence while `recv` waits: finding 2 |
| `session_onion` (violated) | `DocumentedFit` | a message that fits two hops by the documented overhead is refused: finding 4 |
| `handshake` | `TypeOK`, `Agreement`, `PeerFixed`, `RoutesMeet`, `HandshakeReturns` | who is established agrees with the other end on the handshake, on pinned keys and, without a relay, on addresses, with datagrams of earlier attempts around; paths meet exactly if they mirror each other; loss ends both calls |
| `handshake_relay` (violated) | `PeerIsOtherEnd` | through a relay the address is not safe: finding 3 |
| `relay` | `TypeOK`, `RemembersRecent`, `DropsOnlyRecent`, `ImplementsFilter` | a replay within the TTL needs a cache full of other datagrams in between, at every hop; a daemon drops only what it let through less than TTL ago, with failed sends, several senders and several destinations of one inner datagram |
| `rendezvous` | `TypeOK`, `RepliesCurrent`, `PrintedFresh` | answers come from the last register processed, within its lifetime; what `rs-lookup` prints is at most that lifetime and its own timeout old, though requests and replies travel late |
| `admission` | `TypeOK`, `AdmittedIsVouched`, `LapsesForGood`, `DepthIsShortest`, `OnlyTimeRevokes`, `AdmissionBounded` | only genuine chains admit; time only takes away, and nothing but time does; the search computes shortest chains; the chains never admit more keys than the caps leave room for |

### Findings

1. `docs/SPECIFICATION.md:229` claims loss recovery. `debug_drop_data` drops frames before they are
   sealed (`session.rs:430`). A sealed datagram that the network loses leaves the Noise counters
   apart (`noise.rs:116`), and no retransmission opens.
2. `cover.rs:16` promises an idle cadence; `recv` blocks for its whole timeout (`session.rs:335`) and
   sends two cover datagrams at most, one before the block and one on the final wake.
3. `session.rs:361` says that `peer()` is the other endpoint; behind a relay any datagram that comes
   through the relay changes it, before it is opened (`session.rs:442`).
4. `docs/PACKET.md:67` says that a hop adds 78 bytes; every layer is a datagram with its own outer
   header (`onion.rs:50`), so it adds 86. A message near the limit fails with `TooLarge` and, since its
   frame is queued by then, every later `send` of that session fails too: with `TooLarge` while the
   frame is retransmitted, and with `ArqGiveUp` once its attempts have run out.

`network/replay.rs:3` calls what the cache holds "recently forwarded" datagrams, while a daemon records one
before it sends it (`relay.rs:61`). Where the loop goes on after a failed send, as in
`examples/relay_node.rs:14`, the datagram was not forwarded and its retry is dropped all the same.
`DropsOnlyRecent` says for how long: less than the TTL from that attempt, whatever is dropped meanwhile.
It also bounds the other cost of the check, which looks at the inner datagram alone: the same one for
another destination is dropped although it never went there.

`admission.rs:288` speaks of subjects admitted "at once", while `ingest` counts lapsed ones for ever;
the sentence can be read either way, so it is recorded as a hazard and not as a finding.
`AdmissionBounded` is what the cap achieves all the same: `peak` is the largest cap in force when an
issuer gained a subject, and within `m` invitations of the roots at most
`|roots| * (1 + peak + ... + peak^m)` keys are ever admitted at one instant.

### Bounds

Every bound is a constant or a field of a scenario: `MaxFrames`, `messages`, `faults`, `accepts`,
`MaxNow` and so on. The windows shrink from 32 and 64 to 2 and 3 with their order kept (send window
smaller than receive window), so that a message of five chunks overruns both; `SEQ_MOD` 16 is more
than the frames of a behaviour plus a window, as 2^32 is in the code; two attempts are enough for a
retransmission and a give-up; `FRAG_MOD` 3 and 4 make the id counter wrap within a run, but no run has
two fragmented messages of one id; that a buffer of an old id may be open when the id comes again is
covered by the theorems `DeliveryIsIntact` and `AckedIsDelivered` only. `Settles` is checked with
`START` = 0, away from the wrap of the numbers. Lengths keep their real values.

In `session` the scenarios are two sends with one fault and a late handshake datagram, one send with
two faults and that datagram, and one send of each endpoint with one fault: a loss, a repetition or an
exchange of any datagram, alone and in pairs, and a refused send at any place of a flush or a failing
read. Where both endpoints send, a repetition is combined only with calls of `recv` that do not wait. In
a last scenario either endpoint may set its timeout to 0 or 1 ticks between any two calls, so that it
gives up within one call and can come back. `session_live` has a loss
without promptness, two dropped DATA, messages of one and two chunks on two hops (the full chunk does
not fit) and a refused cover datagram. `relay` has four datagrams for a cache of two in a loop that
goes on, so that an evicted one can come back; two datagrams that two senders each send to two
destinations; two datagrams on a route that visits a hop twice; and one datagram wrapped twice for one
route or once for each of two routes with the same last hop. `rendezvous` has three registrations, the
second from an IPv6 address, two lookups and one request that is delivered twice; the clock goes on
long enough for an entry to lapse while a call waits. In `admission` three keys
and three invitations give chains of both lengths, the shortcut past a longer chain, cycles,
self-invitations, renewals and their orders of arrival. In `handshake` two connects and two accepts
give every mixture of an old and a new attempt, on a direct path with two faults and pins that match
or not, and on relayed, mirrored, unmirrored and one-sided paths. The clocks of `Relay`, `Rendezvous`
and `Admission` are long enough for an entry to expire and be made again. Deadlock is checked except
in `Relay`, `Rendezvous` and `Handshake`, which really stop: the daemons and the service on I/O errors or
when nothing is left to deliver, the handshake when all attempts are over.

Symmetry is used for datagrams (`Relay`) and keys (`Admission`), which are only compared.

### Fairness

* `Arq`: weak fairness of the flush steps and the clock; none for the transport or the receiver.
* `Session`: a thread inside a call runs (weak fairness of `Turn`), the clock goes on (strong
  fairness, since it stands still during a flush). In a prompt scenario an application with unread
  datagrams calls `recv` (weak fairness of `Attend`). Nothing of the network.
* `Handshake`: the two threads get to their calls and run; this includes the read
  timeout, which the callers in the repository set on their sockets.

`Relay`, `Rendezvous` and `Admission` have safety properties only and no fairness.

A prompt scenario is one in which nothing but waiting takes a tick and an application with datagrams
to read is in a call, the situation of the repository's tests; without it a peer that is out of its
calls for a second makes the other give up although nothing is lost. `LossRecovered` speaks of prompt
scenarios only, and `session_cover` is run in one.

## Proofs

Every theorem holds for all values of the constants that satisfy the named assumption of its module
(`WidthsAssumption` and `InstanceAssumption` for `Arq`: a flow is shorter than the sequence space by a
receive window and by `ACK_BEHIND`), and for every scenario in `Scenarios`. Six have a further
hypothesis, written as `ASSUME` in the theorem and named below. Those on `ACK_BEHIND` and `FRAG_MOD` are
met by the program's constants with much to spare; `NoWrap` speaks of a flow that ends before number
2^32; the one on scenarios says which losses a session can make up for.

### One flow (`ArqProofs`)

* `TypeCorrect`: `TypeOK` is inductive; one lemma per method.
* `NoFalseAckHolds`: `NoFalseAck`, the wrap included. It is not inductive: an old ACK on the wire could
  name anything. `NoFalseAckInv` adds `FlowInv`: the receive window holds only assigned numbers, and
  every ACK on the wire has a base no later than the receiver's and names only accepted frames.
  Positions are counted from `START` (`Offset`), which turns wrapping comparisons into ordinary ones;
  `AckedWasReceived` is the lemma that `acked` agrees with them.
* `GiveUpHarmless`: if the flow does not reach the wrap (`NoWrap`), then always `AttemptOrder` and
  `GiveUpDiscardsNothing`. `AttemptOrder` says that older frames have been sent at least as often,
  and as long ago, as younger ones. It is inductive together with the types, because new frames are
  sent lowest number first and retransmissions raise all due frames at once.
* `CurrentAckSettles`: `CurrentAckCovers`, if `ACK_BEHIND >= WINDOW_SIZE + RECV_WINDOW`. `WindowInv` adds
  to `NoFalseAckInv` that the send window holds (`SendWindow`), that frames not yet sent are unknown to
  the receiver and the wire (`UnsentUnknown`), and that no frame is retired a receive window or more
  after one that is outstanding (`RetiredSpan`). The last two bound the distance between the receiver's
  base and the oldest outstanding frame by the two windows.
* `OvertakingOnlyAtWrap`, `SlotsAreStable`: `OvertakesAtWrap` and `SlotStable`, from `NoFalseAckInv`.
* `DeliveryIsIntact`, `AckedIsDelivered`: `DeliveredIntact` and `AckedMeansDelivered`, if
  `FRAG_MOD > RECV_WINDOW` (65536 against 64), ids and numbers wrapping. `DeliveryInv` says where the
  chunks of each message lie in the flow (`Layout`), that exactly the messages whose frames are all
  accepted have been handed over, once (`HandedOver`), and that there is an assignment of fragment ids
  to messages under which near messages have different ids (`IdsApart`), every frame carries the id of
  its message (`FramesBelong`), and the buffer of an id holds exactly the accepted chunks of the one
  incomplete message with it (`Buffers`). `IdsDiffer` is the heart: two messages that are both partly in
  the receive window cannot share an id.

### Two sessions (`SessionProofs`, `SessionLossProofs`)

* `TypeCorrect`, and `CountersAreUnique` for `NonceUnique`. The invariant `SessionInv` has the shapes of
  the variables (`Shape`), where a call may be (`LoopInv`), one `Ledger` per endpoint, and `NoFalseAckInv`
  of both flows. A ledger says what the peer sealed under each counter; one ledger explains every
  datagram on its way, so no counter stands for two. It is not a variable of the model, only claimed to
  exist.
* `InitiatorIsArq`, `ResponderIsArq`: each step of a session is, for each direction, one step of `Arq` or
  none (`FlowsOfStep`), given that what opens under the receiver's next counter is what was sealed under
  it, which is the ledger again. Through `INSTANCE ArqProofs` the lemmas about `Arq` then hold of
  both directions and are cited, not repeated.
* `GapsArePermanent`: `GapIsPermanent`, from `SessionInv`.
* `OkMeansDelivered`: `SendOkDelivered`, if `FRAG_MOD > RECV_WINDOW`. `SettledInv` adds `DeliveryInv` of both
  flows and that every message an `Ok` has vouched for (`settled`) is accepted as a whole.
* `GivingUpIsFinal`: `GiveUpIsFinal`, whatever timeouts the application sets. Who gave up has an exhausted
  frame and is not at the socket (`Stuck`); every step of either end keeps that, except one that sets a
  longer timeout.
* `UnfitStaysFinal`: `UnfitIsFinal`, with `UnfitInv`: what is on its way fits its path, so the flow's wire
  holds no frame that does not, and such a frame, while it waits, is not received. The general fact
  about `Arq` is `WithheldStep`: a frame that never gets on the wire is never retired.
* `LossIsRecovered`: `LossRecovered`, if `ACK_BEHIND >= WINDOW_SIZE + RECV_WINDOW`, if the flow does not
  reach the wrap, and if every prompt scenario is `Recoverable`: nothing is lost, refused or out of place
  but the `drops` of `debug_drop_data`, these are fewer than `MAX_ATTEMPTS`, `send_timeout` is longer than
  one retransmission interval for each at every timeout the application may set, all of them positive,
  and all frames fit the path or one end sends nothing (a send
  that does not fit takes a counter with it, and the ACKs of that end no longer open). The code's 5
  attempts, 200 ms and 5 s allow up to four drops; the prompt scenarios of `session_live` are recoverable, the one of `session_loss` is not. The argument is
  an account of time. `InProgress` holds of a send with `u` drops used and `el` ticks gone: `el` is at most
  `u` retransmission intervals (`Spent`), and one interval less for a frame that is neither on its way nor
  answered, because that frame was itself dropped. Only drops make time pass: frames in flight have one
  common age, which grows only while nothing is on its way (`InStep`). What is on its way arrives complete
  and in order (`Arriving`), and frames leave in the order of their numbers (`Ascending`). That matters
  where the receiver turns a frame away because it lies beyond its window: then an older frame is still
  missing there, and it is the one whose drop is accounted for (`AnsweredTo`, from `WindowInv` and the
  fact that the receive base is always missing, `BaseMissing`). From `Spent`, `NeverLate` and
  `NeverExhausted` rule out both failures of a send. At the wrap frames do not leave in that order
  (`OvertakesAtWrap`), and the property fails: a message that crosses the wrap with a receive window of
  frames before it first fills the send window with the numbers after the wrap, the receiver turns them
  away as beyond its window, and the send gives up although nothing was dropped. A session starts at
  number 0 and would have to send 2^32 frames to get there.

### Handshake (`HandshakeProofs`)

* `TypeCorrect`, `EndsAgree` (`Agreement`), `PeerStaysFixed` (`PeerFixed`), from `HandshakeInv`: how far a
  connect or an accept is determines its transcript up to the attempts it names (`IniOK`, `RspOK`), and
  every inbox holds only datagrams that some attempt really sent to it, with a transcript that attempt
  had (`Good`).
* `PathsMeet`: `RoutesMeet`. That unmirrored paths never establish both ends follows from `HandshakeInv`.
  The other half needs `RoutesInv`, for mirrored paths without faults: attempts are made one after the
  other (`InTurn`), what lies in the inboxes until the first connect is answered (`BeforeAnswer`), what
  the first accept reads next (`NextRead`), and why either can have failed (`Reasons`).

### Daemons and services

* `RelayProofs`: `TypeCorrect`; `RecentIsRemembered` (`RemembersRecent`); `RelayIsFilter`
  (`ImplementsFilter`), the refinement step by step. `RelayInv` says that every cache dates each of its
  entries by the last passage of that payload through the daemon and that it still has every recent
  passage unless a cache full of others came after it. Any choice among the oldest entries preserves it.
  `DropsAreRecent` (`DropsOnlyRecent`) follows from the dates: what a cache still holds after expiry passed
  less than TTL ago, since only a passage, never a drop, dates an entry.
* `RendezvousProofs`: `TypeCorrect`, `RepliesAreCurrent` (`RepliesCurrent`) and `PrintedIsFresh`
  (`PrintedFresh`). In `RendezvousInv` the map is the last register, unless that is over the TTL old
  (`MapIsRegister`), no request or reply belongs to a call that is still to come (`RequestsKnown`), a reply gives what
  the register of its instant allows (`ReplyGood`) and was made after its call began (`CallsNumbered`);
  so its age when it is read is bounded by the timeout of that call.
* `AdmissionProofs`: `TypeCorrect`; `DepthsAreShortest` (`DepthIsShortest`); `AdmittedAreVouched`
  (`AdmittedIsVouched`); `AdmissionLapses` (`LapsesForGood`); `IngestNeverRevokes` (`OnlyTimeRevokes`).
  They need `StoreInv` only. The rest are facts about
  the search in any well-typed store: its levels are iterates of a function (`Iteration`), and by
  induction on the depth (`Induction`) a key is in the first `d` levels exactly if a chain of at most
  `d` invitations leads to it. Replacing or outdating invitations then compares sets of chains.
  `AdmissionIsBounded` (`AdmissionBounded`) adds `CapInv`: no issuer has more than `peak` subjects in the
  store. So a set `F` of issuers vouches for at most `peak * |F|` keys (`MetBounded`, by a surjection from
  `F` times `1 .. peak`), and by induction the first `m` levels hold at most `Room[m]` (`Within`).

### Only model-checked

* Liveness: `Settles`, `CallsReturn`, `HandshakeReturns`. The prover has no reasoning about
  fairness.
* The four violated properties, which do not hold.

## Not modelled

* The byte layout of packets, frames and invitations, and datagrams with a wrong magic, version or
  length: the daemons drop them without a change of state, a session's call fails as it does on a
  datagram of an unexpected type. The errors of `decode_inner` cannot occur: what reaches it was sealed
  by the peer, whose encoders are the ones in `frame.rs`.
* The cryptography of `snow`, Ed25519 and the AEAD, and hash collisions: external.
* `set_outbound_onion` on a session that is already established: nothing in the repository calls it
  there.
* Restarts. No part of the program keeps anything across one; a restarted daemon or service is a new
  one in its initial state.
* A session's datagrams on their way through the forwarder are not a module of their own: a forwarder
  delays, loses and repeats like any network, names the sender (`Handshake`), and its replay check
  drops only copies: by `NonceUnique` no two datagrams of a session are the same, a retransmission being
  sealed anew.
* `config.rs`, which nothing reads, and the command line apart from the daemons' loops and the
  rendezvous clients.

## Plan

Every safety property that holds has a theorem. What has none is liveness, which stays with TLC, and
what the theorems leave to TLC are the cases outside their hypotheses: a flow of sessions at the wrap.
