------------------------ MODULE MCPrivateDataSource ------------------------
(***************************************************************************)
(* Two networks and one datasource that may be moved between them.         *)
(***************************************************************************)
EXTENDS PrivateDataSource

CONSTANTS n1, n2, d1

TwoNetworks == {n1, n2}
OneSource == {d1}
=============================================================================
