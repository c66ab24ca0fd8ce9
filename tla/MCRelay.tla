------------------------------- MODULE MCRelay -------------------------------
(***************************************************************************)
(* Small instances of Relay for TLC.                                       *)
(***************************************************************************)
EXTENDS Relay, FiniteSetsExt, TLC

CONSTANTS p, q, r, s

FourInners == {p, q, r, s}
Alike == Permutations(FourInners)

Sender == -1
OtherSender == -2
Dest == 0
OtherDest == -3

\* One daemon, as examples/relay_node.rs runs it, and more datagrams than its
\* cache holds.
Crowded(k, six) ==
    [kind |-> k, stops |-> FALSE, v6 |-> six, senders |-> {Sender}, dests |-> {Dest},
     inners |-> FourInners, routes |-> {<<1>>}, wraps |-> 1, accepts |-> 5]

\* Datagrams wrapped for a route through both daemons, one of them twice, and
\* wrapped again for the same or another route.
Routed(inners, routes, n) ==
    [kind |-> "onion", stops |-> TRUE, v6 |-> FALSE, senders |-> {Sender}, dests |-> {Dest},
     inners |-> inners, routes |-> routes, wraps |-> n, accepts |-> 6]

\* The same inner datagrams from and to several ends.
Shared(k, inners) ==
    [kind |-> k, stops |-> TRUE, v6 |-> FALSE, senders |-> {Sender, OtherSender},
     dests |-> {Dest, OtherDest}, inners |-> inners, routes |-> {<<1>>}, wraps |-> 1,
     accepts |-> 4]

AllScenarios ==
    {Crowded("forward", FALSE), Crowded("forward", TRUE), Crowded("onion", FALSE)}
        \cup {Shared(k, two) : k \in {"forward", "onion"}, two \in kSubset(2, FourInners)}
        \cup {Routed(two, {<<1, 2, 1>>}, 1) : two \in kSubset(2, FourInners)}
        \cup {Routed({x}, {<<1, 2>>}, 2) : x \in FourInners}
        \cup {Routed({x}, {<<1, 2>>, <<2, 2>>}, 1) : x \in FourInners}
==============================================================================
