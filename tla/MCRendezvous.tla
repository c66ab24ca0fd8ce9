----------------------------- MODULE MCRendezvous -----------------------------
(***************************************************************************)
(* A small instance of Rendezvous for TLC: the second address to register  *)
(* is an IPv6 one.                                                         *)
(***************************************************************************)
EXTENDS Rendezvous

FirstAndLast == {1, 3}
Middle == {2}
==============================================================================
