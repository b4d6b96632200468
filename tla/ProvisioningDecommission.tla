---------------------- MODULE ProvisioningDecommission ----------------------
(***************************************************************************)
(* The decommission of a GrafanaProvisioningConnection                     *)
(* (platform/function/provisioningconnection.go).                          *)
(*                                                                         *)
(* The claim composes an ExternalSecret (which materialises a credential   *)
(* Secret), a Securevalue and a Connection.  Removing a claim retains the  *)
(* Grafana objects unless spec.lifecycle.externalResources is Delete and   *)
(* the platform authorised this claim.  Then the function withdraws the    *)
(* Connection first and the Securevalue after it, each withdrawal preceded *)
(* by a phase it has already persisted in status.decommission.             *)
(*                                                                         *)
(* The reconcile has the shape of OnCallIdentity: one turn of the function *)
(* on one snapshot, then Crossplane deletes what is no longer desired,     *)
(* replaces the references by the desired set, applies each child and      *)
(* persists the status, and may stop anywhere.  As the function and its    *)
(* tests do, the model takes Crossplane to go on reconciling a claim that  *)
(* has a deletion timestamp.  A Fatal turn is the absence of a turn.       *)
(*                                                                         *)
(* Abstractions: the claim is well formed; a child's identity (API, names, *)
(* external name) always matches, so DeletePrepared is about the finalizer *)
(* and the policies; "all" is managementPolicies ["*"], "retain" the list  *)
(* without Delete.                                                         *)
(***************************************************************************)
EXTENDS Naturals

CONSTANTS
  MaxEdits,    \* bound on edits of the lifecycle and of its authorisation
  MaxFaults,   \* bound on crashes, stack readiness losses and Secret losses
  MaxTampers   \* bound on managed resources deleted behind the function

ASSUME BoundsAssumption ==
  MaxEdits \in Nat /\ MaxFaults \in Nat /\ MaxTampers \in Nat

ExternalSecret == "external-secret"
Securevalue == "secure-value"
Connection == "connection"
Child == {ExternalSecret, Securevalue, Connection}
GrafanaChild == {Securevalue, Connection}

VARIABLES
  lifecycle,    \* spec.lifecycle.externalResources
  authorized,   \* deletionAuthorizations names this claim
  terminating,  \* metadata.deletionTimestamp is set
  admitted,     \* the referenced stack is Ready
  secret,       \* the credential Secret is materialised
  phase,        \* status.decommission.phase as persisted, "" when absent
  mr,           \* the composed resources in the cluster
  ext,          \* the Grafana objects behind them
  refs,         \* spec.crossplane.resourceRefs
  pc, plan,     \* the running reconcile and what its turn returned
  edits, faults, tampers

claim == <<lifecycle, authorized, terminating>>
counters == <<edits, faults, tampers>>
vars == <<claim, admitted, secret, phase, mr, ext, refs, pc, plan, counters>>

ManagedResource == [exists : BOOLEAN, policy : {"retain", "all"},
                    finalizer : BOOLEAN, dying : BOOLEAN]
AbsentMR == [exists |-> FALSE, policy |-> "retain", finalizer |-> FALSE,
             dying |-> FALSE]
NoPlan == [phase |-> "", desired |-> {}, armed |-> {}, todo |-> {}]

-----------------------------------------------------------------------------
(* What the function observes.                                              *)

Observed == {k \in refs : mr[k].exists}
DeletePrepared(k) ==
  k \in Observed /\ mr[k].finalizer /\ mr[k].policy = "all"

(* provisioningConnectionDecommissionProgressFor: the phase this turn       *)
(* returns, from the phase it reads.                                        *)
ConnectionWitness ==
  phase \in {"ConnectionDeleting", "SecurevalueArming", "SecurevalueDeleting"}

(* Mutant: the deleting phase is entered only from itself.                  *)
SecurevaluePhaseStuck ==
  IF Securevalue \notin Observed
    THEN IF phase = "SecurevalueDeleting" THEN "Complete"
                                          ELSE "SecurevalueDeletionUnproven"
  ELSE IF phase = "SecurevalueDeleting" /\ DeletePrepared(Securevalue)
    THEN "SecurevalueDeleting"
  ELSE "SecurevalueArming"

SecurevaluePhase ==
  IF Securevalue \notin Observed
    THEN IF phase = "SecurevalueDeleting" THEN "Complete"
                                          ELSE "SecurevalueDeletionUnproven"
  ELSE IF phase # "ConnectionDeleting" /\ DeletePrepared(Securevalue)
    THEN "SecurevalueDeleting"
  ELSE "SecurevalueArming"

ConnectionPhase ==
  IF DeletePrepared(Connection) THEN "ConnectionDeleting"
                                ELSE "PreparingConnection"

Progress ==
  IF lifecycle = "Retain" THEN "Retained"
  ELSE IF ~terminating
    THEN IF DeletePrepared(Connection) THEN "Armed" ELSE "PreparingConnection"
  ELSE IF Connection \in Observed THEN ConnectionPhase
  ELSE IF ~ConnectionWitness THEN "ConnectionDeletionUnproven"
  ELSE SecurevaluePhase

(* Mutants: the phase is acted on in the turn that computes it.             *)
WithdrawConnectionUnread == Progress = "ConnectionDeleting"
WithdrawSecurevalueUnread == Progress = "SecurevalueDeleting"

WithdrawConnection ==
  /\ Progress = "ConnectionDeleting" /\ phase = "ConnectionDeleting"
WithdrawSecurevalue ==
  /\ Progress = "SecurevalueDeleting" /\ phase = "SecurevalueDeleting"

-----------------------------------------------------------------------------
(* Turns of the function.                                                   *)

Return(p, desired, armed) ==
  /\ plan' = [phase |-> p, desired |-> desired, armed |-> armed,
              todo |-> desired]
  /\ pc' = "collect"
  /\ UNCHANGED <<claim, admitted, secret, phase, mr, ext, refs, counters>>

(* The stack is not Ready: with children observed the turn is Fatal; with   *)
(* none it returns an empty set, and a status without a phase.              *)
UnreadyTurn ==
  /\ pc = "idle" /\ ~admitted /\ Observed = {}
  /\ Return("", {}, {})

Renders == pc = "idle" /\ admitted /\ (lifecycle = "Delete" => authorized)

(* Mutant: every surviving Securevalue is armed.                            *)
RevokeTurnArmed ==
  /\ Renders /\ terminating /\ Connection \notin Observed
  /\ IF WithdrawSecurevalue
       THEN Return(Progress, {}, {})
       ELSE Return(Progress, {ExternalSecret, Securevalue}, {Securevalue})

(* A terminating claim whose Connection is not observed.                    *)
RevokeTurn ==
  /\ Renders /\ terminating /\ Connection \notin Observed
  /\ IF WithdrawSecurevalue
       THEN Return(Progress, {}, {})
       ELSE Return(Progress, {ExternalSecret, Securevalue},
                   IF Progress \in {"SecurevalueArming", "SecurevalueDeleting"}
                     THEN {Securevalue} ELSE {})

(* Mutant: the shorter set is returned over a Connection that lost its      *)
(* credential.                                                              *)
StageTurnShortened ==
  /\ Renders /\ ~(terminating /\ Connection \notin Observed)
  /\ \/ Securevalue \notin Observed /\ ~terminating
     \/ Securevalue \in Observed /\ ~secret
  /\ Return(Progress, {ExternalSecret, Securevalue}, {})

(* The Connection waits for the Securevalue, then for the credential; the   *)
(* shorter set is not returned over a Connection that lost its credential,  *)
(* nor by a terminating claim that lost its Securevalue.                    *)
StageTurn ==
  /\ Renders /\ ~(terminating /\ Connection \notin Observed)
  /\ \/ Securevalue \notin Observed /\ ~terminating
     \/ Securevalue \in Observed /\ ~secret /\ Connection \notin Observed
  /\ Return(Progress, {ExternalSecret, Securevalue}, {})

ConnectTurn ==
  /\ Renders /\ ~(terminating /\ Connection \notin Observed)
  /\ Securevalue \in Observed /\ secret
  /\ Return(Progress,
            IF WithdrawConnection THEN Child \ {Connection} ELSE Child,
            IF lifecycle = "Delete" THEN {Connection} ELSE {})

Turn == UnreadyTurn \/ RevokeTurn \/ StageTurn \/ ConnectTurn

-----------------------------------------------------------------------------
(* Crossplane applies what the turn returned.                               *)

Doomed == {k \in Observed \ plan.desired : ~mr[k].dying}

CollectGarbage(k) ==
  /\ pc = "collect" /\ k \in Doomed
  /\ mr' = [mr EXCEPT ![k] = [mr[k] EXCEPT !.dying = TRUE]]
  /\ UNCHANGED <<claim, admitted, secret, phase, ext, refs, pc, plan, counters>>

RecordReferences ==
  /\ pc = "collect" /\ Doomed = {}
  /\ refs' = plan.desired
  /\ pc' = "apply"
  /\ UNCHANGED <<claim, admitted, secret, phase, mr, ext, plan, counters>>

(* Server-side apply creates a missing child and sets the policies of one   *)
(* that exists, even while it is being deleted: names are deterministic.    *)
ApplyChild(k) ==
  /\ pc = "apply" /\ k \in plan.todo
  /\ mr' = [mr EXCEPT ![k] =
              [mr[k] EXCEPT !.exists = TRUE,
                            !.policy = IF k \in plan.armed THEN "all"
                                                           ELSE "retain"]]
  /\ plan' = [plan EXCEPT !.todo = @ \ {k}]
  /\ UNCHANGED <<claim, admitted, secret, phase, ext, refs, pc, counters>>

PersistStatus ==
  /\ pc = "apply" /\ plan.todo = {}
  /\ phase' = plan.phase
  /\ pc' = "idle" /\ plan' = NoPlan
  /\ UNCHANGED <<claim, admitted, secret, mr, ext, refs, counters>>

Apply ==
  \/ \E k \in Child : CollectGarbage(k) \/ ApplyChild(k)
  \/ RecordReferences \/ PersistStatus

Crash ==
  /\ pc # "idle" /\ faults < MaxFaults
  /\ pc' = "idle" /\ plan' = NoPlan
  /\ faults' = faults + 1
  /\ UNCHANGED <<claim, admitted, secret, phase, mr, ext, refs, edits, tampers>>

-----------------------------------------------------------------------------
(* The provider and the External Secrets Operator.                          *)

Rest == <<claim, admitted, phase, refs, pc, plan, counters>>

(* The provider adds its finalizer and creates or adopts the Grafana object.*)
Materialise(k) ==
  /\ k \in GrafanaChild /\ mr[k].exists /\ ~mr[k].dying /\ ~mr[k].finalizer
  /\ mr' = [mr EXCEPT ![k] = [mr[k] EXCEPT !.finalizer = TRUE]]
  /\ ext' = [ext EXCEPT ![k] = TRUE]
  /\ UNCHANGED Rest /\ UNCHANGED secret

(* A deleted managed resource takes its Grafana object with it only if its  *)
(* policies include Delete by then; a deleted ExternalSecret its Secret.    *)
Finalise(k) ==
  /\ mr[k].exists /\ mr[k].dying
  /\ mr' = [mr EXCEPT ![k] = AbsentMR]
  /\ ext' = IF k \in GrafanaChild /\ mr[k].finalizer /\ mr[k].policy = "all"
              THEN [ext EXCEPT ![k] = FALSE] ELSE ext
  /\ secret' = (secret /\ k # ExternalSecret)
  /\ UNCHANGED Rest

SyncSecret ==
  /\ ~secret /\ mr[ExternalSecret].exists /\ ~mr[ExternalSecret].dying
  /\ secret' = TRUE
  /\ UNCHANGED <<mr, ext>> /\ UNCHANGED Rest

Provider == SyncSecret \/ \E k \in Child : Materialise(k) \/ Finalise(k)

-----------------------------------------------------------------------------
(* The user, the platform and the faults.                                   *)

EditLifecycle ==
  /\ edits < MaxEdits
  /\ lifecycle' = IF lifecycle = "Retain" THEN "Delete" ELSE "Retain"
  /\ edits' = edits + 1
  /\ UNCHANGED <<authorized, terminating, admitted, secret, phase, mr, ext,
                 refs, pc, plan, faults, tampers>>

ChangeAuthorization ==
  /\ edits < MaxEdits
  /\ authorized' = ~authorized
  /\ edits' = edits + 1
  /\ UNCHANGED <<lifecycle, terminating, admitted, secret, phase, mr, ext,
                 refs, pc, plan, faults, tampers>>

RemoveClaim ==
  /\ ~terminating /\ terminating' = TRUE
  /\ UNCHANGED <<lifecycle, authorized, admitted, secret, phase, mr, ext,
                 refs, pc, plan, counters>>

CloseStack ==
  /\ admitted /\ faults < MaxFaults
  /\ admitted' = FALSE /\ faults' = faults + 1
  /\ UNCHANGED <<claim, secret, phase, mr, ext, refs, pc, plan, edits, tampers>>

OpenStack ==
  /\ ~admitted /\ admitted' = TRUE
  /\ UNCHANGED <<claim, secret, phase, mr, ext, refs, pc, plan, counters>>

LoseSecret ==
  /\ secret /\ faults < MaxFaults
  /\ secret' = FALSE /\ faults' = faults + 1
  /\ UNCHANGED <<claim, admitted, phase, mr, ext, refs, pc, plan, edits, tampers>>

(* Someone deletes a managed resource in the cluster.                       *)
Tamper(k) ==
  /\ mr[k].exists /\ ~mr[k].dying /\ tampers < MaxTampers
  /\ mr' = [mr EXCEPT ![k] = [mr[k] EXCEPT !.dying = TRUE]]
  /\ tampers' = tampers + 1
  /\ UNCHANGED <<claim, admitted, secret, phase, ext, refs, pc, plan, edits,
                 faults>>

Environment ==
  \/ Provider \/ EditLifecycle \/ ChangeAuthorization \/ RemoveClaim
  \/ CloseStack \/ OpenStack \/ LoseSecret \/ Crash
  \/ \E k \in Child : Tamper(k)

-----------------------------------------------------------------------------
Init ==
  /\ lifecycle \in {"Retain", "Delete"} /\ authorized \in BOOLEAN
  /\ terminating = FALSE /\ admitted \in BOOLEAN
  /\ secret = FALSE /\ phase = ""
  /\ mr = [k \in Child |-> AbsentMR]
  /\ ext = [k \in GrafanaChild |-> FALSE]
  /\ refs = {} /\ pc = "idle" /\ plan = NoPlan
  /\ edits = 0 /\ faults = 0 /\ tampers = 0

Next == Turn \/ Apply \/ Environment

Spec == Init /\ [][Next]_vars

(* Crossplane keeps reconciling, the provider and ESO keep working, and a   *)
(* stack that lost readiness regains it.                                    *)
Fairness ==
  /\ WF_vars(Turn \/ Apply)
  /\ WF_vars(Provider)
  /\ WF_vars(OpenStack)

FairSpec == Spec /\ Fairness

-----------------------------------------------------------------------------
Phases == {"", "Retained", "PreparingConnection", "Armed", "ConnectionDeleting",
           "ConnectionDeletionUnproven", "SecurevalueArming",
           "SecurevalueDeleting", "SecurevalueDeletionUnproven", "Complete"}

(* The phases the function reads are the ones it writes, and the counters   *)
(* keep their bounds.                                                       *)
TypeOK ==
  /\ lifecycle \in {"Retain", "Delete"} /\ authorized \in BOOLEAN
  /\ terminating \in BOOLEAN /\ admitted \in BOOLEAN /\ secret \in BOOLEAN
  /\ phase \in Phases
  /\ mr \in [Child -> ManagedResource]
  /\ ext \in [GrafanaChild -> BOOLEAN]
  /\ refs \in SUBSET Child
  /\ pc \in {"idle", "collect", "apply"}
  /\ plan \in [phase : Phases, desired : SUBSET Child, armed : SUBSET Child,
               todo : SUBSET Child]
  /\ edits \in 0..MaxEdits /\ faults \in 0..MaxFaults
  /\ tampers \in 0..MaxTampers

StartsDying(k) == ~mr[k].dying /\ mr'[k].dying
Withdraws(k) == StartsDying(k) /\ UNCHANGED tampers

(* The Securevalue and its source are withdrawn last: only under a          *)
(* persisted SecurevalueDeleting, with deletion armed on the Securevalue,   *)
(* and when the Connection is no longer one of the claim's children.        *)
SecurevalueLast ==
  [][Withdraws(Securevalue) \/ Withdraws(ExternalSecret) =>
       /\ terminating /\ phase = "SecurevalueDeleting"
       /\ Connection \notin refs
       /\ Withdraws(Securevalue) => DeletePrepared(Securevalue)]_vars

(* As long as nobody else deletes its children, a Connection is withdrawn   *)
(* only by a decommission whose deleting phase and whose armed child were   *)
(* both read back before.                                                   *)
WitnessedWithdrawal ==
  [][Withdraws(Connection) /\ tampers = 0 =>
       /\ terminating /\ phase = "ConnectionDeleting"
       /\ DeletePrepared(Connection)]_vars

(* No Grafana object is destroyed before the claim is removed, whatever is  *)
(* edited, lost or interrupted, unless someone else deletes a child.        *)
ExternalOutlivesClaim ==
  [][\A k \in GrafanaChild :
       ext[k] /\ ~ext'[k] => terminating \/ tampers > 0]_vars

(* An absence that no witness explains disarms the surviving Securevalue.   *)
UnprovenDisarms ==
  phase = "ConnectionDeletionUnproven" /\ mr[Securevalue].exists =>
    mr[Securevalue].policy = "retain"

(* A decommission that has recorded the deletion of the Connection          *)
(* completes, unless the claim stops asking for it, its stack loses         *)
(* readiness or someone else deletes a child.  A reconcile that stops after *)
(* the last withdrawal can still lose the completion (the children it       *)
(* applied again are no longer absent), but not the withdrawal.             *)
DecommissionCompletes ==
  (phase = "ConnectionDeleting") ~>
     \/ phase = "Complete"
     \/ phase = "SecurevalueDeleting" /\ faults > 0
     \/ lifecycle = "Retain" \/ ~authorized
     \/ ~admitted \/ tampers > 0
=============================================================================
