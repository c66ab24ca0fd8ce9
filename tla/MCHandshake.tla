----------------------------- MODULE MCHandshake -----------------------------
(***************************************************************************)
(* Small instances of Handshake for TLC.                                   *)
(***************************************************************************)
EXTENDS Handshake

CONSTANTS Faults

H1 == -2
H2 == -3
Way == ViaOnion(<<H1, H2>>)
Back == ViaOnion(<<H2, H1>>)

Scenario(i, r, pins, f) == [ini |-> i, rsp |-> r, ipins |-> pins, rpins |-> pins, faults |-> f]

\* Paths of each kind that fit together, with and without faults, and paths
\* that do not.
AllScenarios ==
    {Scenario(Direct, Direct, {AnyKey, "another key"}, f) : f \in {0, Faults}}
        \cup {Scenario(ViaRelay, ViaRelay, {AnyKey, "another key"}, 0)}
        \cup {Scenario(Way, Back, {AnyKey}, f) : f \in {0, 1}}
        \cup {Scenario(Way, r, {AnyKey}, 0) : r \in {Direct, Way, ViaOnion(<<H2>>)}}
        \cup {Scenario(Direct, Back, {AnyKey}, 0), Scenario(ViaRelay, Direct, {AnyKey}, 0)}

RelayOnly == {Scenario(ViaRelay, ViaRelay, {AnyKey}, Faults)}
==============================================================================
