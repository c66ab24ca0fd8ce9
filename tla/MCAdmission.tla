----------------------------- MODULE MCAdmission -----------------------------
(***************************************************************************)
(* Small instances of Admission for TLC.                                   *)
(***************************************************************************)
EXTENDS Admission, TLC

CONSTANTS k1, k2, k3

ThreeKeys == {k1, k2, k3}
Alike == Permutations(ThreeKeys)
==============================================================================
