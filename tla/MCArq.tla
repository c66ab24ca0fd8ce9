-------------------------------- MODULE MCArq --------------------------------
(***************************************************************************)
(* Small instances of Arq for TLC.                                         *)
(***************************************************************************)
EXTENDS Arq

\* An empty message, a single frame, a fragmented message.
EmptyAndPair == {0, 2}
SingleAndPair == {1, 2}
SingleAndFive == {1, 5}
==============================================================================
