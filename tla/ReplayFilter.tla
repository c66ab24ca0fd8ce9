----------------------------- MODULE ReplayFilter -----------------------------
(***************************************************************************)
(* What the daemons' replay check promises: each remembers when it last let*)
(* each inner datagram through, and lets one through again only if that    *)
(* was at least TTL ago or Bound other datagrams have gone through since.  *)
(***************************************************************************)
EXTENDS Integers, FiniteSets

CONSTANTS Daemons, TTL, Bound

VARIABLES now, passed    \* passed[h][x]: when x last went through at h

Init == now = 0 /\ passed = [h \in Daemons |-> << >>]

\* Others that went through at or after the instant x last did.
Since(h, x) == {y \in DOMAIN passed[h] \ {x} : passed[h][y] >= passed[h][x]}

Due(h, x) ==
    x \in DOMAIN passed[h] =>
        now - passed[h][x] >= TTL \/ Cardinality(Since(h, x)) >= Bound

Pass(h, x) ==
    /\ Due(h, x)
    /\ passed' = [passed EXCEPT ![h] =
            [y \in DOMAIN @ \cup {x} |-> IF y = x THEN now ELSE passed[h][y]]]
    /\ UNCHANGED now

Tick == now' = now + 1 /\ UNCHANGED passed

Next == Tick \/ \E h \in Daemons : \E x \in DOMAIN passed'[h] : Pass(h, x)

Spec == Init /\ [][Next]_<<now, passed>>
==============================================================================
