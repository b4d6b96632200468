---------------------------- MODULE MCAccessClaim ----------------------------
(***************************************************************************)
(* One claim with two leaves.                                              *)
(***************************************************************************)
EXTENDS AccessClaim

CONSTANTS l1, l2

TwoLeaves == {l1, l2}
=============================================================================
