--------------------------- MODULE PagingHandover ---------------------------
(***************************************************************************)
(* What the migration of an on-call composite promises, without journal,   *)
(* reconciles or crashes: a composite that routes alerts through some type *)
(* never stops routing them.  A type is given up only by a decision that   *)
(* another serving type stands behind, one decision at a time.             *)
(***************************************************************************)
CONSTANTS Types, None

VARIABLES
  serving,   \* types whose Route exists and is not being deleted
  losing     \* type whose retirement is decided, None when there is none

vars == <<serving, losing>>

TypeOK == serving \subseteq Types /\ losing \in Types \cup {None}

Init == serving = {} /\ losing = None

(* The losing type may serve once more: a stack gate that closes before a   *)
(* withdrawal is recorded returns what it still observes.                   *)
Serve(t) ==
  /\ t \notin serving
  /\ serving' = serving \cup {t} /\ UNCHANGED losing

Decide(t) ==
  /\ losing = None /\ \E u \in serving : u # t
  /\ losing' = t /\ UNCHANGED serving

Withdraw(t) ==
  /\ losing = t /\ t \in serving
  /\ serving' = serving \ {t} /\ UNCHANGED losing

Conclude ==
  /\ losing # None /\ losing \notin serving
  /\ losing' = None /\ UNCHANGED serving

Next == (\E t \in Types : Serve(t) \/ Decide(t) \/ Withdraw(t)) \/ Conclude

Spec == Init /\ [][Next]_vars

(* A decision always leaves a type that serves and is not the losing one.  *)
NeverUnserved == losing # None => \E t \in serving : t # losing
=============================================================================
