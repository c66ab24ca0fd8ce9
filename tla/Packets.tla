------------------------------- MODULE Packets -------------------------------
(***************************************************************************)
(* Datagrams and what the wrappers of a path add to them: the outer header *)
(* (src/network/packet.rs), the forward wrapper (src/network/forward.rs)   *)
(* and the layers of an onion (src/onion.rs).  A datagram is a record with *)
(* its type, its length in bytes and what the type carries; of the bytes   *)
(* only their number is kept.  A layer can be opened by the hop it was     *)
(* made for and no one else.                                               *)
(***************************************************************************)
EXTENDS Integers, Sequences

MAX_DATAGRAM == 1200
OUTER_HEADER_LEN == 8
FORWARD_BODY_OVERHEAD == 6
LAYER_OVERHEAD == 32 + 24 + 16 + 4 + 2     \* key, nonce, tag, next address and port
MAX_PAYLOAD == 1024
DATA_HDR_LEN == 9
ACK_LEN == 13
NOISE_TAG == 16

\* encode_datagram, and every size check before a send.
TooLarge(len) == len > MAX_DATAGRAM

\* Lengths of the datagrams a session sends, before the path wraps them.
DataLen(payload) == OUTER_HEADER_LEN + NOISE_TAG + DATA_HDR_LEN + payload
AckLen == OUTER_HEADER_LEN + NOISE_TAG + ACK_LEN

\* Bytes each layer of wrap_route adds: it is a datagram of its own.
HopLen == OUTER_HEADER_LEN + LAYER_OVERHEAD
ForwardLen == OUTER_HEADER_LEN + FORWARD_BODY_OVERHEAD

-----------------------------------------------------------------------------
encode_datagram(id, body) ==
    [type |-> "data", id |-> id, len |-> OUTER_HEADER_LEN + body]

\* A forward wrapper names where to: the destination on the way to the relay,
\* the sender on the way from it.
encode_forward(other, inner) ==
    [type |-> "forward", other |-> other, payload |-> inner, len |-> inner.len + ForwardLen]

decode_forward_body(d) == [next |-> d.other, payload |-> d.payload]

\* One layer: the hop it is made for, where that hop sends what it finds, and
\* the fresh key: two wraps of one payload differ.
wrap_layer(hop, next, fresh) == [hop |-> hop, next |-> next, fresh |-> fresh]

\* A datagram in layers, the outermost first: every layer with what is under it
\* is again a datagram.
onion(layers, inner) ==
    [type |-> "onion", layers |-> layers, inner |-> inner,
     len |-> inner.len + Len(layers) * HopLen]

\* The last hop sends to the destination, every other one to the hop after it.
wrap_route(hops, dest, inner, fresh) ==
    onion([i \in 1 .. Len(hops) |->
               wrap_layer(hops[i], IF i = Len(hops) THEN dest ELSE hops[i + 1], fresh)],
          inner)

\* What the hop the outermost layer was made for finds in it.
peel_layer(d) ==
    [next |-> Head(d.layers).next,
     payload |-> IF Len(d.layers) = 1 THEN d.inner ELSE onion(Tail(d.layers), d.inner)]
==============================================================================
