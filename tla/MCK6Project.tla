---------------------------- MODULE MCK6Project ----------------------------
(***************************************************************************)
(* Two load tests and the schedule that may run either.                    *)
(***************************************************************************)
EXTENDS K6Project
=============================================================================
