----------------------- MODULE MCSyntheticMonitoring -----------------------
(***************************************************************************)
(* One check whose cost an edit can raise beyond the budget, dropped and    *)
(* declared again among two edits and two faults (MonitoringRequest), or    *)
(* two checks that fit together only at their lowest cost                   *)
(* (MonitoringRotation).                                                    *)
(***************************************************************************)
EXTENDS SyntheticMonitoring
=============================================================================
