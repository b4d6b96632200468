---------------------------- MODULE StackVending ----------------------------
(***************************************************************************)
(* A GrafanaCloudStackRequest: vending a stack and its credentials, arming *)
(* its deletion and removing it (renderStack, desiredStackStatus and the   *)
(* renderers they call).                                                   *)
(*                                                                         *)
(* Every credential is a chain: a parent (service account or access        *)
(* policy), a rotating token minted under the parent's observed ID, and a  *)
(* PushSecret that publishes the token to the central store.  An           *)
(* ExternalSecret reads the published documents back as the credentials of *)
(* the stack's own ProviderConfig; only then may stack-local content be    *)
(* rendered.  Delete intent, when authorised and (for a stack with an      *)
(* expiry) due, arms every child; the status reports deletionArmed and,    *)
(* from what is observed, deletionReady, the operator's permission to      *)
(* remove the request.                                                     *)
(*                                                                         *)
(* One reconcile is a Turn on a snapshot, and an Apply of what it returned *)
(* which may be interrupted after any part.  A Fatal turn is no turn.      *)
(*                                                                         *)
(* Abstractions: the request is well formed and its optional features do   *)
(* not change; a child's specification is its deletion arming; one Content *)
(* stands for the children of whenCredentialsPublished and one Plugin for  *)
(* those of whenStackServes; time is whether the effective expiry has      *)
(* passed, TRUE for a stack without an expiry.                             *)
(***************************************************************************)
EXTENDS Naturals

CONSTANTS
  Chains,         \* the credential chains of the request
  MaxEdits,       \* bound on edits of the lifecycle, authorisation and expiry
  MaxFaults       \* bound on interrupted applies and on provider statuses
                  \* that are momentarily empty

ASSUME ChainsAssumption ==
  /\ Chains \subseteq {"administrator", "fleet", "telemetry"}
  /\ {"administrator", "fleet"} \subseteq Chains
ASSUME BoundsAssumption ==
  MaxEdits \in Nat /\ MaxFaults \in Nat

Stack == <<"stack", "">>
Instance == <<"instance-credentials", "">>
Plugin == <<"plugin", "">>
Content == <<"content", "">>
Parent(c) == <<"parent", c>>
Token(c) == <<"token", c>>
Push(c) == <<"credentials", c>>

Parents == {Parent(c) : c \in Chains}
Tokens == {Token(c) : c \in Chains}
Pushes == {Push(c) : c \in Chains}
Staged == {Plugin, Content}
External == {Stack} \cup Parents \cup Tokens \cup Pushes
Child == External \cup Staged \cup {Instance}

VARIABLES
  lifecycle,    \* spec.lifecycle.externalResources
  authorized,   \* deletionAuthorizations names this request
  expired,      \* the effective expiry has passed
  removed,      \* "no", or whether deletionReady was reported when removed
  status,       \* status.deletionArmed and status.deletionReady, whether the
                \* Ready condition says that the request is vended, and the
                \* generation these were computed from
  mr,           \* the composed resources in the cluster
  protection,   \* status.atProvider.deleteProtection of the stack
  blank,        \* children whose status.atProvider is momentarily empty
  ext,          \* the external objects and documents that exist
  refs,         \* spec.crossplane.resourceRefs
  pc, plan,     \* the running reconcile and what its turn returned
  edits, faults

counters == <<edits, faults>>
request == <<lifecycle, authorized, expired, removed>>
provider == <<protection, blank, ext>>
vars == <<request, status, mr, provider, refs, pc, plan, counters>>

AbsentMR == [exists |-> FALSE, armed |-> FALSE, ok |-> FALSE, dying |-> FALSE]
NoStatus == [armed |-> FALSE, ready |-> FALSE, vended |-> FALSE, at |-> 0]
NoPlan == [desired |-> {}, armed |-> FALSE, status |-> NoStatus]

-----------------------------------------------------------------------------
(* What the function observes.                                              *)

Observed == {k \in refs : mr[k].exists}
IDObserved(k) == k \in Observed /\ mr[k].ok /\ k \notin blank
StackReady == IDObserved(Stack)
InstanceReady == Instance \in Observed /\ mr[Instance].ok

(* Mutant: a token is rendered only under the ID its parent reports now.    *)
ParentReported(c) == IDObserved(Parent(c))

(* A token survives the loss of its parent's ID: it carries the ID itself.  *)
ParentKnown(c) == IDObserved(Parent(c)) \/ Token(c) \in Observed

(* Mutant: Fleet Management's document waits for the credentials it is part *)
(* of.                                                                      *)
PublishedLate(c) ==
  c = "fleet" => ParentKnown(c) /\ IDObserved(Stack) /\ InstanceReady

(* Fleet Management's document carries the stack's ID as its user name.     *)
Published(c) ==
  c = "fleet" => ParentKnown(c) /\ IDObserved(Stack)

(* Mutant: content waits for the stack but not for its credentials.         *)
AdmittedUncredentialed ==
  (IF StackReady THEN Staged ELSE {}) \cup (Staged \cap Observed)

(* admitStaged: a staged child waits for its precondition, and once it      *)
(* exists it stays whatever becomes of the precondition.                    *)
Admitted ==
  (IF StackReady THEN {Plugin} ELSE {})
    \cup (IF StackReady /\ InstanceReady THEN {Content} ELSE {})
    \cup (Staged \cap Observed)

Desired ==
  {Stack, Instance} \cup Parents
    \cup {Token(c) : c \in {d \in Chains : ParentKnown(d)}}
    \cup {Push(c) : c \in {d \in Chains : Published(d)}}
    \cup Admitted

(* Mutant: a stack that is armed once stays armed.                          *)
ArmingLatched == (lifecycle = "Delete" /\ expired) \/ mr[Stack].armed

(* expiryArmingPermitted only delays an intent that was authorised before.  *)
ArmingPermitted == lifecycle = "Delete" /\ expired

(* Mutant: the policy of a PushSecret is taken for its synchronisation.     *)
PushArmed(k) == k \in Observed /\ mr[k].armed

PushPrepared(k) == k \in Observed /\ mr[k].armed /\ mr[k].ok
TokenPrepared(k) == k \in Observed /\ mr[k].armed
Unprotected == IDObserved(Stack) /\ protection = "off"

(* Mutant: evidence is required of telemetry access that is not enabled.    *)
DeletionReadyTelemetry ==
  /\ ArmingPermitted /\ Unprotected
  /\ \A c \in Chains \cup {"telemetry"} :
       TokenPrepared(Token(c)) /\ PushPrepared(Push(c))

DeletionReady ==
  /\ ArmingPermitted /\ Unprotected
  /\ \A c \in Chains : TokenPrepared(Token(c)) /\ PushPrepared(Push(c))

(* Mutant: the Ready condition does not wait for the ExternalSecret.        *)
DesiredReadyButInstance ==
  \A k \in Desired \ {Instance} :
    k \in Observed /\ (k \notin Staged => mr[k].ok)

(* markObservedResourcesReady: the request is Ready when every child the    *)
(* turn desires was observed Ready.                                         *)
DesiredReady == \A k \in Desired : k \in Observed /\ (k \notin Staged => mr[k].ok)

-----------------------------------------------------------------------------
(* A reconcile of the request.                                              *)

Turn ==
  /\ pc = "idle" /\ removed = "no"
  /\ lifecycle = "Delete" => authorized
  /\ plan' = [desired |-> Desired, armed |-> ArmingPermitted,
              status |-> [armed |-> ArmingPermitted, ready |-> DeletionReady,
                          vended |-> DesiredReady, at |-> edits]]
  /\ pc' = "apply"
  /\ UNCHANGED <<request, status, mr, provider, refs, counters>>

(* What Crossplane makes of one child: an update of its arming is a new     *)
(* generation that a PushSecret must be synced at again.                    *)
Applied(k) ==
  [mr[k] EXCEPT
     !.exists = TRUE,
     !.armed = IF k \in External THEN plan.armed ELSE FALSE,
     !.ok = @ /\ (k \in Pushes => mr[k].armed = plan.armed)]
Doomed == Observed \ plan.desired

(* The turn's result is applied as far as S: children it no longer desires  *)
(* are deleted before the references are recorded and anything is applied.  *)
ApplyTo(S) ==
  /\ mr' = [k \in Child |->
              IF k \in S THEN Applied(k)
              ELSE IF k \in Doomed THEN [mr[k] EXCEPT !.dying = TRUE]
              ELSE mr[k]]
  /\ refs' = plan.desired

Apply ==
  /\ pc = "apply"
  /\ ApplyTo(plan.desired)
  /\ status' = plan.status
  /\ pc' = "idle" /\ plan' = NoPlan
  /\ UNCHANGED <<request, provider, counters>>

Interrupt ==
  /\ pc = "apply" /\ faults < MaxFaults
  /\ \/ \E S \in SUBSET plan.desired : ApplyTo(S)
     \/ UNCHANGED <<mr, refs>>
  /\ faults' = faults + 1
  /\ pc' = "idle" /\ plan' = NoPlan
  /\ UNCHANGED <<request, status, provider, edits>>

-----------------------------------------------------------------------------
(* The Grafana provider and the External Secrets Operator.                  *)

Reconciling(k) == mr[k].exists /\ ~mr[k].dying /\ removed = "no"
Rest == <<request, status, refs, pc, plan, counters>>

(* What a child needs before its controller can create it.                  *)
Creatable(k) ==
  /\ k \in Parents => Stack \in ext
  /\ \A c \in Chains : k = Push(c) => mr[Token(c)].exists /\ mr[Token(c)].ok
  /\ k = Instance => {Push("administrator"), Push("fleet")} \subseteq ext

Materialise(k) ==
  /\ Reconciling(k) /\ ~mr[k].ok /\ k \notin Staged /\ Creatable(k)
  /\ mr' = [mr EXCEPT ![k] = [mr[k] EXCEPT !.ok = TRUE]]
  /\ ext' = ext \cup ({k} \cap External)
  /\ protection' = IF k = Stack /\ protection = "unknown"
                     THEN IF mr[k].armed THEN "off" ELSE "on"
                     ELSE protection
  /\ UNCHANGED blank /\ UNCHANGED Rest

SetProtection ==
  /\ Reconciling(Stack) /\ mr[Stack].ok
  /\ protection # (IF mr[Stack].armed THEN "off" ELSE "on")
  /\ protection' = IF mr[Stack].armed THEN "off" ELSE "on"
  /\ UNCHANGED <<mr, blank, ext>> /\ UNCHANGED Rest

(* A deleted child takes its external object with it only if it was armed,  *)
(* a PushSecret only if ESO had finalised that policy; Grafana refuses to   *)
(* delete a protected stack.                                                *)
Deletable(k) == mr[k].exists /\ (k = Stack /\ mr[k].armed => protection # "on")
Destroys(k) == mr[k].armed /\ (k \in Pushes => mr[k].ok)

FinaliseAll(S) ==
  /\ mr' = [k \in Child |-> IF k \in S THEN AbsentMR ELSE mr[k]]
  /\ ext' = ext \ {k \in S : Destroys(k)}
  /\ blank' = blank \ S
  /\ UNCHANGED protection /\ UNCHANGED Rest

Finalise(k) == Deletable(k) /\ mr[k].dying /\ FinaliseAll({k})

(* Removing the request deletes every child; what is left does not depend   *)
(* on the order.                                                            *)
Cascade ==
  /\ removed # "no"
  /\ LET deletable == {k \in Child : Deletable(k)}
     IN deletable # {} /\ FinaliseAll(deletable)

(* A provider's status is transiently empty.                                *)
LoseStatus(k) ==
  /\ k \in {Stack} \cup Parents /\ Reconciling(k) /\ mr[k].ok
  /\ k \notin blank /\ faults < MaxFaults
  /\ blank' = blank \cup {k} /\ faults' = faults + 1
  /\ UNCHANGED <<request, status, mr, protection, ext, refs, pc, plan, edits>>

RecoverStatus(k) ==
  /\ k \in blank
  /\ blank' = blank \ {k}
  /\ UNCHANGED <<mr, protection, ext>> /\ UNCHANGED Rest

Controllers ==
  \/ SetProtection \/ Cascade
  \/ \E k \in Child : Materialise(k) \/ Finalise(k) \/ RecoverStatus(k)

-----------------------------------------------------------------------------
(* Reviewed changes, time and the operator.                                 *)

EditRequest(l, a, e) ==
  /\ removed = "no" /\ edits < MaxEdits
  /\ <<l, a, e>> # <<lifecycle, authorized, expired>>
  /\ lifecycle' = l /\ authorized' = a /\ expired' = e
  /\ edits' = edits + 1
  /\ UNCHANGED <<removed, status, mr, provider, refs, pc, plan, faults>>

SetLifecycle == \E l \in {"Retain", "Delete"} : EditRequest(l, authorized, expired)
SetAuthorization == EditRequest(lifecycle, ~authorized, expired)
(* An expiry is added or moved into the future.                             *)
Extend == expired /\ EditRequest(lifecycle, authorized, FALSE)

Expire ==
  /\ ~expired /\ expired' = TRUE
  /\ UNCHANGED <<lifecycle, authorized, removed, status, mr, provider, refs, pc,
                 plan, counters>>

(* The operator relies on a report of the request as it stands.             *)
Remove ==
  /\ removed = "no" /\ pc = "idle"
  /\ removed' = IF status.ready /\ status.at = edits THEN "ready" ELSE "unready"
  /\ UNCHANGED <<lifecycle, authorized, expired, status, mr, provider, refs, pc,
                 plan, counters>>

Environment ==
  \/ Controllers \/ SetLifecycle \/ SetAuthorization \/ Extend \/ Expire
  \/ Remove
  \/ \E k \in Child : LoseStatus(k)

-----------------------------------------------------------------------------
Init ==
  /\ lifecycle \in {"Retain", "Delete"} /\ authorized = TRUE /\ expired = TRUE
  /\ removed = "no" /\ status = NoStatus
  /\ mr = [k \in Child |-> AbsentMR]
  /\ protection = "unknown" /\ blank = {} /\ ext = {}
  /\ refs = {} /\ pc = "idle" /\ plan = NoPlan
  /\ edits = 0 /\ faults = 0

Next == Turn \/ Apply \/ Interrupt \/ Environment

Spec == Init /\ [][Next]_vars

(* Crossplane and the controllers keep working and statuses recover; the    *)
(* operator and the reviewers need not act.                                 *)
Fairness ==
  /\ WF_vars(Turn \/ Apply)
  /\ WF_vars(Controllers)
  /\ WF_vars(Expire)

FairSpec == Spec /\ Fairness

-----------------------------------------------------------------------------
TypeOK ==
  /\ lifecycle \in {"Retain", "Delete"} /\ authorized \in BOOLEAN
  /\ expired \in BOOLEAN /\ removed \in {"no", "unready", "ready"}
  /\ status \in [armed : BOOLEAN, ready : BOOLEAN, vended : BOOLEAN,
                 at : 0..MaxEdits]
  /\ mr \in [Child -> [exists : BOOLEAN, armed : BOOLEAN, ok : BOOLEAN,
                       dying : BOOLEAN]]
  /\ protection \in {"unknown", "on", "off"}
  /\ blank \subseteq Child /\ ext \subseteq External
  /\ refs \subseteq Child /\ pc \in {"idle", "apply"}
  /\ plan \in [desired : SUBSET Child, armed : BOOLEAN,
               status : [armed : BOOLEAN, ready : BOOLEAN, vended : BOOLEAN,
                         at : 0..MaxEdits]]
  /\ edits \in 0..MaxEdits /\ faults \in 0..MaxFaults

(* A request removed on the strength of its deletionReady leaves nothing    *)
(* behind: no stack, policy, account, token or published document.          *)
RemovalComplete ==
  removed = "ready" /\ (\A k \in Child : ~mr[k].exists) => ext = {}

(* No turn withdraws a child of a request that stays, whatever status is    *)
(* momentarily empty; Fleet Management's PushSecret is the exception.       *)
KeptWhileRequested ==
  \A k \in Child : mr[k].dying => k = Push("fleet")

(* Stack-local content exists only behind a stack that was created and      *)
(* whose credentials, Fleet Management's included, made the round trip.     *)
ContentAfterCredentials ==
  removed = "no" /\ mr[Content].exists =>
    mr[Stack].ok /\ mr[Instance].ok /\ mr[Token("fleet")].ok

(* Claims rely on what StackContract promises: the stack that admits them,  *)
(* by the status requiredStackReady reads, has the credentials their        *)
(* children use, however old that status is.                                *)
Credentialed == mr[Stack].ok /\ mr[Instance].ok
Admits == removed = "no" /\ status.vended /\ ~status.armed
Contract == INSTANCE StackContract WITH
  requested <- removed = "no", credentials <- Credentialed, admits <- Admits
ImplementsContract == Contract!Spec

(* Whatever status is lost on the way, a request is vended in the end, and  *)
(* stays so, unless it is removed or its deletion is not authorised.        *)
Vended == \A k \in Child : mr[k].exists /\ (k \in Staged \/ mr[k].ok)
VendCompletes ==
  <>[](Vended \/ removed # "no" \/ (lifecycle = "Delete" /\ ~authorized))

(* An authorised intent becomes ready and a withdrawn one protects every    *)
(* child again, unless it is changed meanwhile or the request removed.      *)
IntentSettles ==
  /\ (lifecycle = "Delete" /\ authorized) ~>
       (status.ready \/ lifecycle = "Retain" \/ ~authorized \/ ~expired
          \/ removed # "no")
  /\ (lifecycle = "Retain") ~>
       ((\A k \in Child : ~mr[k].armed) \/ lifecycle = "Delete"
          \/ removed # "no")
=============================================================================
