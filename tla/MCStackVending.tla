--------------------------- MODULE MCStackVending ---------------------------
(***************************************************************************)
(* The smallest request: the administrator's and Fleet Management's        *)
(* credentials, without telemetry access.                                  *)
(***************************************************************************)
EXTENDS StackVending

SmallestRequest == {"administrator", "fleet"}
=============================================================================
