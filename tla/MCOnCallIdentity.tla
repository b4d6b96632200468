-------------------------- MODULE MCOnCallIdentity --------------------------
EXTENDS OnCallIdentity

(* Two edits and two faults, but not all four in one behaviour.             *)
ThreeDisturbances == edits + faults <= 3
=============================================================================
