----------------------------- MODULE AccessClaim -----------------------------
(***************************************************************************)
(* A claim that refers to a vended stack and waits behind its gate         *)
(* (gateAccessResources): a GrafanaTeamAccess, GrafanaAgentObservability,  *)
(* GrafanaCloudIntegrations, GrafanaServiceAccounts or                     *)
(* GrafanaAssistantGovernance, next to what StackContract says of the      *)
(* stack.                                                                  *)
(*                                                                         *)
(* Such a claim has a root (team, collection, AWS account, service account,*)
(* terms acceptance), and leaves (role assignments, rule actions, scrape   *)
(* jobs, a token, assistant rules and servers) that are rendered once the  *)
(* provider has reported the root's ID, or that the terms are accepted.    *)
(*                                                                         *)
(* Abstractions: one root, and all its leaves depend on it alone; specs    *)
(* and profiles are well formed; the stack keeps its ID and profile; an    *)
(* object withdrawn from the cluster is gone at once, which the provider   *)
(* does without asking Grafana: no child has the Delete policy.            *)
(***************************************************************************)
EXTENDS Naturals

CONSTANTS
  Leaves,       \* the children that need the root
  MaxEdits,     \* bound on edits of the claim
  MaxFaults     \* bound on interrupted applies and on momentarily empty
                \* statuses of the root

ASSUME BoundsAssumption == MaxEdits \in Nat /\ MaxFaults \in Nat

Root == "root"
ASSUME LeavesAssumption == Root \notin Leaves

Child == {Root} \cup Leaves

VARIABLES
  requested, credentials, admits,   \* the stack, as StackContract has it
  kind,        \* of the claim
  declared,    \* the leaves the claim asks for
  accepted,    \* spec.termsAcceptance.accepted; TRUE of the other kinds
  mr,          \* the composed resources in the cluster
  asked,       \* forProvider.accepted of the terms
  granted,     \* Grafana's acceptance, which the terms' status repeats
  blank,       \* the root's status is momentarily empty
  copies,      \* how many objects Grafana holds for each child
  refs,        \* spec.crossplane.resourceRefs
  pc, plan,    \* the running reconcile and what its turn returned
  ready,       \* the claim's Ready condition
  over,        \* history: leaves the claim ever stopped asking for
  lost,        \* history: the root's status was ever empty
  withdrawn,   \* history: children a reconcile ever deleted
  edits, faults

claim == <<kind, declared, accepted, over, edits>>
cluster == <<mr, asked, blank, refs, withdrawn>>
grafana == <<granted, copies>>
reconcile == <<pc, plan, ready>>
stack == <<requested, credentials, admits>>
vars == <<stack, claim, cluster, grafana, reconcile, lost, faults>>

Stack == INSTANCE StackContract

AbsentMR == [exists |-> FALSE, ok |-> FALSE]
NoPlan == [desired |-> {}, asked |-> FALSE, ready |-> FALSE]

-----------------------------------------------------------------------------
(* What a turn observes.                                                    *)

Observed == {k \in refs : mr[k].exists}

Assistant == "AssistantGovernance"

(* Kinds whose turn is refused while the stack is not resolved and while a  *)
(* leaf exists whose root has no ID.                                        *)
Preserving == {"CloudIntegrations", "ServiceAccounts"}
(* Kinds whose leaves carry an external name, so that what Grafana has is   *)
(* adopted.                                                                 *)
Named == {"TeamAccess", "CloudIntegrations"}
Kinds == Preserving \cup Named \cup {"AgentObservability", Assistant}

(* Mutant: acceptance is taken from the claim alone.                        *)
KnownByClaim == Root \in Observed /\ mr[Root].ok /\ ~blank

(* The root's ID, or an acceptance the provider has observed.               *)
Known == KnownByClaim /\ (kind = Assistant => granted)

-----------------------------------------------------------------------------
(* Rendering, and the gate.                                                 *)

(* Mutant: a withdrawn acceptance waits for the provider to report it.      *)
RenderedUntilReported == {Root} \cup (IF Known THEN declared ELSE {})

Rendered == {Root} \cup (IF accepted /\ Known THEN declared ELSE {})

(* Mutant: the gate is left out.                                            *)
GatedNever == Rendered
(* Mutant: a closed gate withdraws what is behind it.                       *)
GatedAll == IF admits THEN Rendered ELSE {}

(* admitStaged: what exists stays, whatever becomes of the stack.           *)
Gated == {k \in Rendered : admits \/ k \in Observed}

(* Mutant: a leaf is dropped when its root's ID is not known.               *)
HeldByStack == kind \in Preserving /\ Observed # {} /\ ~admits

(* A turn that is Fatal, and leaves everything as it is.                    *)
Held ==
  /\ kind \in Preserving /\ Observed # {}
  /\ ~admits \/ (~Known /\ declared \cap Observed # {})

-----------------------------------------------------------------------------
(* A reconcile of the claim.                                                *)

(* Mutant: what a closed gate keeps is reported as ready.                   *)
ReportedOpen == \A k \in Gated : k \in Observed /\ mr[k].ok

(* setAccessCompositeReadiness and markObservedResourcesReady.              *)
Reported == admits /\ \A k \in Gated : k \in Observed /\ mr[k].ok

Turn ==
  /\ pc = "idle" /\ ~Held
  /\ plan' = [desired |-> Gated, asked |-> accepted, ready |-> Reported]
  /\ pc' = "apply"
  /\ UNCHANGED <<stack, claim, cluster, grafana, ready, lost, faults>>

Doomed == Observed \ plan.desired

ApplyTo(S) ==
  /\ mr' = [k \in Child |->
              IF k \in S THEN [mr[k] EXCEPT !.exists = TRUE]
              ELSE IF k \in Doomed THEN AbsentMR ELSE mr[k]]
  /\ asked' = IF Root \in S THEN plan.asked ELSE asked
  /\ refs' = plan.desired
  /\ withdrawn' = withdrawn \cup Doomed
  /\ UNCHANGED blank

Return ==
  /\ pc' = "idle" /\ plan' = NoPlan
  /\ UNCHANGED <<stack, claim, grafana, lost>>

Apply ==
  /\ pc = "apply"
  /\ ApplyTo(plan.desired) /\ ready' = plan.ready
  /\ Return /\ UNCHANGED faults

(* The reconcile ends before it began to apply, or leaves children out.     *)
Interrupt ==
  /\ pc = "apply" /\ faults < MaxFaults
  /\ \/ \E S \in SUBSET plan.desired : S # {} /\ ApplyTo(plan.desired \ S)
     \/ UNCHANGED cluster
  /\ faults' = faults + 1 /\ UNCHANGED ready
  /\ Return

-----------------------------------------------------------------------------
(* The claim's owner.                                                       *)

(* A service account's leaves come and go with the account.                 *)
Redeclare ==
  /\ edits < MaxEdits /\ kind # "ServiceAccounts"
  /\ declared' \in SUBSET Leaves /\ declared' # declared
  /\ over' = over \cup (declared \ declared')
  /\ edits' = edits + 1
  /\ UNCHANGED <<stack, kind, accepted, cluster, grafana, reconcile, lost, faults>>

Accept ==
  /\ edits < MaxEdits /\ kind = Assistant
  /\ accepted' = ~accepted
  /\ over' = IF accepted THEN Leaves ELSE over
  /\ edits' = edits + 1
  /\ UNCHANGED <<stack, kind, declared, cluster, grafana, reconcile, lost, faults>>

-----------------------------------------------------------------------------
(* The Grafana provider, which works with the stack's own ProviderConfig.   *)

(* Mutant: leaves are rendered without an external name.                    *)
AdoptsNothing(k) == FALSE

Adopts(k) == copies[k] > 0 /\ kind \in Named /\ k \in Leaves

Materialise(k) ==
  /\ mr[k].exists /\ ~mr[k].ok /\ credentials
  /\ mr' = [mr EXCEPT ![k].ok = TRUE]
  /\ copies' = IF Adopts(k) THEN copies ELSE [copies EXCEPT ![k] = @ + 1]
  /\ granted' = IF k = Root THEN asked ELSE granted
  /\ UNCHANGED <<stack, claim, asked, blank, refs, withdrawn, reconcile, lost, faults>>

SyncTerms ==
  /\ mr[Root].exists /\ mr[Root].ok /\ credentials /\ granted # asked
  /\ granted' = asked
  /\ UNCHANGED <<stack, claim, cluster, copies, reconcile, lost, faults>>

LoseStatus ==
  /\ faults < MaxFaults /\ mr[Root].ok /\ ~blank
  /\ blank' = TRUE /\ lost' = TRUE /\ faults' = faults + 1
  /\ UNCHANGED <<stack, claim, mr, asked, refs, withdrawn, grafana, reconcile>>

RecoverStatus ==
  /\ blank /\ blank' = FALSE
  /\ UNCHANGED <<stack, claim, mr, asked, refs, withdrawn, grafana, reconcile, lost, faults>>

Providers == SyncTerms \/ RecoverStatus \/ \E k \in Child : Materialise(k)

(* The stack opens, closes and goes as its contract allows.                 *)
StackStep == Stack!Next /\ UNCHANGED <<claim, cluster, grafana, reconcile, lost, faults>>

-----------------------------------------------------------------------------
Init ==
  /\ Stack!Init
  /\ kind \in Kinds
  /\ declared = Leaves
  /\ accepted \in IF kind = Assistant THEN BOOLEAN ELSE {TRUE}
  /\ mr = [k \in Child |-> AbsentMR] /\ copies = [k \in Child |-> 0]
  /\ asked = FALSE /\ granted = FALSE /\ blank = FALSE
  /\ refs = {} /\ withdrawn = {} /\ over = {} /\ lost = FALSE
  /\ pc = "idle" /\ plan = NoPlan /\ ready = FALSE
  /\ edits = 0 /\ faults = 0

Next ==
  \/ Turn \/ Apply \/ Interrupt
  \/ Redeclare \/ Accept
  \/ Providers \/ LoseStatus
  \/ StackStep

Spec == Init /\ [][Next]_vars

(* Crossplane keeps reconciling and the provider keeps working; nothing is  *)
(* asked of the stack.                                                      *)
Fairness == WF_vars(Turn) /\ WF_vars(Apply) /\ WF_vars(Providers)

FairSpec == Spec /\ Fairness

-----------------------------------------------------------------------------
TypeOK ==
  /\ requested \in BOOLEAN /\ credentials \in BOOLEAN /\ admits \in BOOLEAN
  /\ kind \in Kinds /\ declared \subseteq Leaves
  /\ accepted \in BOOLEAN /\ (kind # Assistant => accepted)
  /\ mr \in [Child -> [exists : BOOLEAN, ok : BOOLEAN]]
  /\ asked \in BOOLEAN /\ granted \in BOOLEAN /\ blank \in BOOLEAN
  /\ copies \in [Child -> Nat]
  /\ refs \subseteq Child /\ withdrawn \subseteq Leaves /\ over \subseteq Leaves
  /\ pc \in {"idle", "apply"}
  /\ plan \in [desired : SUBSET Child, asked : BOOLEAN, ready : BOOLEAN]
  /\ ready \in BOOLEAN /\ lost \in BOOLEAN
  /\ edits \in 0..MaxEdits /\ faults \in 0..MaxFaults

(* A child of a claim exists only on a stack that has the credentials it is *)
(* reached with, although the gate reads a status of the stack's request,   *)
(* the claim is applied later, and the stack may have closed meanwhile.     *)
CredentialsBehind ==
  requested /\ (\E k \in Child : mr[k].exists) => credentials

(* A leaf exists only if its root was made first, and an assistant's rules  *)
(* and servers only if Grafana has the acceptance or is being asked for it. *)
(* The exception: a status that still tells of the acceptance before last   *)
(* creates them, and the apply that should ask again is interrupted.        *)
ConsentBehind ==
  \A k \in Leaves : mr[k].exists =>
    /\ mr[Root].exists /\ mr[Root].ok
    /\ kind = Assistant =>
         granted \/ asked \/ (over = Leaves /\ faults > 0)

(* "removing one from the desired set would cause a transient stack outage  *)
(* to delete it": no closed gate deletes a child.  A leaf goes when the     *)
(* claim stops asking for it, and where a status without the root's ID      *)
(* makes the renderer leave the leaf out.                                   *)
KeptUnlessOver ==
  withdrawn \subseteq (over \cup IF lost /\ kind \notin Preserving THEN Leaves ELSE {})

(* Grafana is given one object for each child; a second one only for a leaf *)
(* without an external name that was withdrawn in between.                  *)
OneCopy ==
  \A k \in Child :
    copies[k] > 1 => k \in withdrawn /\ k \in Leaves /\ kind \notin Named

Fulfilled ==
  /\ \A k \in {Root} \cup (IF accepted THEN declared ELSE {}) :
       mr[k].exists /\ mr[k].ok
  /\ ready

Withdrawable == Leaves \ (IF accepted THEN declared ELSE {})

(* "must remove every rule and MCP server": what the claim no longer asks   *)
(* for goes, whatever the stack does; a claim on a stack that stays open is *)
(* fulfilled and says so; one on a stack that stays closed does not.  A     *)
(* kind that is refused while its stack is closed says nothing then.        *)
ClaimSettles ==
  /\ kind \in Preserving \/ <>[](\A k \in Withdrawable : ~mr[k].exists)
  /\ <>[]admits => <>[](Fulfilled /\ \A k \in Withdrawable : ~mr[k].exists)
  /\ kind \notin Preserving /\ <>[](~admits) => <>[](~ready)
=============================================================================
