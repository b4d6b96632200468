--------------------------- MODULE StackContract ----------------------------
(***************************************************************************)
(* What a vended stack promises to the claims that refer to it, without    *)
(* chains, reconciles or statuses: while it admits them the request stays  *)
(* and the credentials of its own ProviderConfig have been issued, and     *)
(* credentials that were issued stay as long as the request.  The stack    *)
(* may close at any time, and open again.                                  *)
(***************************************************************************)
VARIABLES
  requested,     \* the request exists and is not being deleted
  credentials,   \* the stack and its ProviderConfig's credentials exist
  admits         \* claims find it Ready and not armed for deletion

stack == <<requested, credentials, admits>>

Init == requested = TRUE /\ credentials = FALSE /\ admits = FALSE

Issue ==
  /\ requested /\ ~credentials
  /\ credentials' = TRUE /\ UNCHANGED <<requested, admits>>

Admit ==
  /\ requested /\ credentials /\ ~admits
  /\ admits' = TRUE /\ UNCHANGED <<requested, credentials>>

Close ==
  /\ admits
  /\ admits' = FALSE /\ UNCHANGED <<requested, credentials>>

Remove ==
  /\ requested
  /\ requested' = FALSE /\ admits' = FALSE /\ UNCHANGED credentials

Dismantle ==
  /\ ~requested /\ credentials
  /\ credentials' = FALSE /\ UNCHANGED <<requested, admits>>

Next == Issue \/ Admit \/ Close \/ Remove \/ Dismantle

Spec == Init /\ [][Next]_stack
=============================================================================
