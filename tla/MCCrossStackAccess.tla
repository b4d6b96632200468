------------------------- MODULE MCCrossStackAccess -------------------------
(***************************************************************************)
(* One consumer or one project with two pieces of content.                 *)
(***************************************************************************)
EXTENDS CrossStackAccess

CONSTANTS c1, c2

TwoContents == {c1, c2}
=============================================================================
