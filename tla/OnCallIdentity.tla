--------------------------- MODULE OnCallIdentity ---------------------------
(***************************************************************************)
(* The GrafanaOnCall composite and its migration journal.                  *)
(*                                                                         *)
(* A GrafanaOnCall claim vends an on-call graph: a chain of shared         *)
(* children (responder lookups, shift, schedule, escalation chain and,     *)
(* beside the pair, the escalation step) and a pair of children, an        *)
(* Integration and its catch-all Route, for the integration type in        *)
(* force.  A pair is never edited from one type to the other: the function *)
(* (platform/function/oncallidentity.go) stages the pair of the new type   *)
(* under keys of its own, proves it current and only then retires the old  *)
(* one, Route before Integration.  It has no memory but status: every      *)
(* decision is first returned in status.onCallIdentity (the journal) and   *)
(* used by a later reconcile that reads it back.                           *)
(*                                                                         *)
(* One reconcile is a turn of the function (everything RunFunction does    *)
(* with one snapshot) followed by Crossplane's own steps, which may be cut *)
(* short by a crash anywhere: delete what the turn no longer desires,      *)
(* record the references, create what is missing, persist the status.      *)
(* A turn that answers Fatal changes nothing, so it is the absence of a    *)
(* turn.                                                                   *)
(*                                                                         *)
(* Abstractions.  The selection carries the integration type only, so the  *)
(* configuration of a type never changes (same-type edits of responders or *)
(* of the Slack destination are not in this module).  The shared chain is  *)
(* a sequence of Stages children, of which the last is the escalation      *)
(* step.  A child's specification is fixed by its key, so "current" means  *)
(* Ready and Synced at its generation.                                     *)
(***************************************************************************)
EXTENDS Naturals, FiniteSets

CONSTANTS
  Stages,      \* number of shared children; the last is the escalation step
  MaxEdits,    \* bound on edits of spec.integrationType
  MaxFaults    \* bound on crashes, readiness losses and admission closures

ASSUME StagesAssumption == Stages \in Nat /\ Stages >= 2
ASSUME BoundsAssumption == MaxEdits \in Nat /\ MaxFaults \in Nat

InboundEmail == "inbound_email"
GrafanaAlerting == "grafana_alerting"
Types == {InboundEmail, GrafanaAlerting}
None == ""          \* an empty string in the journal or the specification

Integration(t) == <<"integration", t>>
Route(t) == <<"route", t>>
Shared(i) == <<"shared", i>>

Pair(t) == {Integration(t), Route(t)}
PairChild == {"integration", "route"} \X Types
SharedChild == {"shared"} \X (1..Stages)
Child == PairChild \cup SharedChild

VARIABLES
  sel,        \* spec.integrationType, None when the claim does not set it
  admitted,   \* the referenced stack is Ready and not being deleted
  journal,    \* status.onCallIdentity as persisted
  receiver,   \* type of the published status.alertReceiver, None when null
  mr,         \* each child's managed resource, and the provider's view of it
  refs,       \* spec.crossplane.resourceRefs: the children Crossplane observes
  pc,         \* where the running reconcile is
  plan,       \* what its turn returned, not yet applied
  edits,      \* edits made so far
  faults      \* faults injected so far

vars == <<sel, admitted, journal, receiver, mr, refs, pc, plan, edits, faults>>

-----------------------------------------------------------------------------
(* Managed resources and what the function observes of them.               *)

AbsentMR == [st |-> "absent", dying |-> FALSE, uid |-> 0, id |-> 0, made |-> 0]

Observed == {k \in refs : mr[k].st # "absent"}
Named(k) == k \in Observed /\ mr[k].st \in {"named", "current"}
Current(k) == k \in Observed /\ mr[k].st = "current" /\ ~mr[k].dying

(* The selected type: an unset field is the released inbound-email type.   *)
Selected == IF sel = None THEN InboundEmail ELSE sel

-----------------------------------------------------------------------------
(* The journal.  Phase "Absent" is a status without a journal, "Stable"    *)
(* one without a transition; the transition's fields are meaningless then. *)

NoJournal ==
  [phase |-> "Absent", from |-> None, to |-> None, disp |-> None,
   incomplete |-> FALSE, srcRoute |-> FALSE, route |-> FALSE, planned |-> 0,
   keep |-> None, retire |-> None,
   active |-> None, bound |-> 0,
   state |-> [t \in Types |-> None],
   id |-> [k \in PairChild |-> 0], uid |-> [k \in PairChild |-> 0]]

Settled(j, active) ==
  [j EXCEPT !.phase = "Stable", !.from = None, !.to = None, !.disp = None,
            !.incomplete = FALSE, !.srcRoute = FALSE, !.route = FALSE,
            !.planned = 0, !.keep = None, !.retire = None, !.active = active]

Building(j, from, to, planned) ==
  [j EXCEPT !.phase = "Building", !.from = from, !.to = to,
            !.disp = "promotion", !.incomplete = FALSE, !.srcRoute = FALSE,
            !.route = FALSE, !.planned = planned,
            !.keep = None, !.retire = None]

Committed(j) == j.phase \in {"RetiringRoute", "RetiringIntegration"}

KeepByDisposition(j) == IF j.disp = "cancellation" THEN j.from ELSE j.to
RetireByDisposition(j) == IF j.disp = "cancellation" THEN j.to ELSE j.from

(* onCallDecodeJournal's test of the retirement authority.                 *)
Decodes(j) ==
  (j.phase = "Prepared" \/ Committed(j)) =>
     /\ j.keep = KeepByDisposition(j)
     /\ j.retire = RetireByDisposition(j)
     /\ j.keep # None

(* What onCallRenderConfiguration renders for a type: the shared chain one  *)
(* child past the last captured binding, the Integration and the escalation *)
(* step once the chain is bound, the Route once the Integration is.         *)
RenderedShared(j) == {k \in SharedChild : k[2] <= j.bound + 1}
Rendered(j, t) ==
  RenderedShared(j)
    \cup (IF j.bound + 1 >= Stages THEN {Integration(t)} ELSE {})
    \cup (IF j.bound + 1 >= Stages /\ j.id[Integration(t)] # 0
             THEN {Route(t)} ELSE {})

(* onCallCapturePair: an observed child must be one the journal renders,    *)
(* with the identities it already inventoried.                              *)
Capturable(j, t) ==
  \A k \in Pair(t) \cap Observed :
    /\ k \in Rendered(j, t)
    /\ j.id[k] # 0 => mr[k].id = j.id[k]
    /\ j.uid[k] # 0 => mr[k].uid = j.uid[k]
Capture(j, t) ==
  [j EXCEPT !.state[t] = IF @ = None THEN "Active" ELSE @,
            !.id = [k \in PairChild |->
                      IF k \in Pair(t) \cap Observed THEN mr[k].id ELSE @[k]],
            !.uid = [k \in PairChild |->
                      IF k \in Pair(t) \cap Observed THEN mr[k].uid ELSE @[k]]]

(* onCallBarrier: the whole graph of a type is observed and current, under  *)
(* the inventoried identities.                                              *)
Barrier(j, t) ==
  /\ t \in Types
  /\ Route(t) \in Rendered(j, t)
  /\ \A k \in Rendered(j, t) : Current(k)
  /\ \A k \in Pair(t) : /\ j.id[k] # 0
                        /\ j.id[k] = mr[k].id
                        /\ j.uid[k] = mr[k].uid

-----------------------------------------------------------------------------
(* The receiver an AlertingRouting claim joins, from the PERSISTED journal. *)

LegacyShared ==
  {k \in SharedChild : \A i \in 1..Stages : i < k[2] => Named(Shared(i))}
LegacyChain == \A i \in 1..(Stages - 1) : Named(Shared(i))
LegacyRendered ==
  LegacyShared
    \cup (IF LegacyChain THEN {Integration(InboundEmail)} ELSE {})
    \cup (IF LegacyChain /\ Named(Integration(InboundEmail))
             THEN {Route(InboundEmail)} ELSE {})

Governed == journal.phase # "Absent" \/ sel # None

(* Faulty variant: joins the active type whatever the transition.           *)
ReceiverInTransition(desired) == journal.active

Receiver(desired) ==
  CASE journal.phase = "Stable" /\ journal.active = Selected
         /\ Barrier(journal, Selected) -> Selected
    [] ~Governed /\ Route(InboundEmail) \in desired
         /\ (\A k \in desired : Current(k)) -> InboundEmail
    [] OTHER -> None

-----------------------------------------------------------------------------
(* Turns of the function.                                                   *)

NoPlan == [journal |-> NoJournal, receiver |-> None, desired |-> {}]

Return(j, desired) ==
  /\ plan' = [journal |-> j, receiver |-> Receiver(desired),
              desired |-> desired]
  /\ pc' = "collect"
  /\ UNCHANGED <<sel, admitted, journal, receiver, mr, refs, edits, faults>>

(* A claim that never opted in: renderOnCallLegacy stages the inbound-email *)
(* graph, and the closed stack gate keeps what is already observed.         *)
LegacyTurn ==
  /\ pc = "idle" /\ ~Governed
  /\ Return(journal, IF admitted THEN LegacyRendered
                                 ELSE LegacyRendered \cap Observed)

(* First governed turn of a claim with no children: the plan is recorded,   *)
(* nothing is issued.                                                       *)
FreshTurn ==
  /\ pc = "idle" /\ admitted
  /\ journal.phase = "Absent" /\ sel # None /\ Observed = {}
  /\ Return(Building(NoJournal, None, Selected, 1), {})

(* First governed turn of a claim the legacy path has fully applied.        *)
Predecessor == Capture([NoJournal EXCEPT !.bound = Stages], InboundEmail)
BootstrapTurn ==
  /\ pc = "idle" /\ admitted
  /\ journal.phase = "Absent" /\ sel # None /\ Observed # {}
  /\ Route(InboundEmail) \in LegacyRendered
  /\ \A k \in LegacyRendered : Current(k)
  /\ Return(IF Selected = InboundEmail
              THEN Settled(Predecessor, InboundEmail)
              ELSE Building(Settled(Predecessor, InboundEmail),
                            InboundEmail, Selected, 0),
            Rendered(Predecessor, InboundEmail))

(* onCallPreserve: a closed gate returns exactly the observed children, if  *)
(* each is one the journal renders and no inventoried one is missing.  It   *)
(* renders the active configuration first: until a fresh transition ends    *)
(* that is the inbound-email one without bindings, which renderOnCallLegacy *)
(* refuses once a child of its pair is inventoried.                         *)
Preservable ==
  /\ journal.active = None => \A k \in Pair(InboundEmail) : journal.id[k] = 0
  /\ \A k \in Observed :
       \E t \in {journal.active, journal.from, journal.to} \ {None} :
          k \in Rendered(journal, t)
  /\ \A t \in Types : journal.state[t] # "Retired" =>
       \A k \in Pair(t) : journal.uid[k] # 0 => k \in Observed
PreserveTurn ==
  /\ pc = "idle" /\ ~admitted /\ Governed
  /\ IF journal.phase = "Absent"
       THEN Route(InboundEmail) \notin Observed
       ELSE Decodes(journal) /\ Preservable
  /\ Return(journal, Observed)

(* Admitted turns of an existing journal.                                   *)
Proceeds == pc = "idle" /\ admitted /\ Decodes(journal)

StableTurn ==
  /\ Proceeds /\ journal.phase = "Stable" /\ Selected = journal.active
  /\ Return(journal, Rendered(journal, journal.active))

(* A new type is selected: record the plan, keep returning the old graph.   *)
BeginSwitchTurn ==
  /\ Proceeds /\ journal.phase = "Stable" /\ Selected # journal.active
  /\ LET readopted == [journal EXCEPT
           !.state[Selected] = IF @ = None THEN None ELSE "Active",
           !.uid = [k \in PairChild |->
                      IF k \in Pair(Selected) THEN 0 ELSE @[k]]]
     IN Return(Building(readopted, journal.active, Selected, 0),
               Rendered(journal, journal.active))

(* Faulty variant: forgets that only an incomplete source lacks its Route.  *)
SourceChildrenUnrouted(old) ==
  IF old.from = None THEN {}
  ELSE Rendered(old, old.from)
         \ (IF ~old.srcRoute THEN {Route(old.from)} ELSE {})
(* Faulty variant: issues what this turn plans instead of what was planned. *)
TargetChildrenUnread(old, new) ==
  (IF old.from = None
     THEN {k \in RenderedShared(new) : k[2] <= new.planned}
     ELSE RenderedShared(new))
    \cup (Rendered(new, old.to) \cap {Integration(old.to)})
    \cup (IF old.route THEN {Route(old.to)} ELSE {})

(* The transition's children, from the journal as read (old) and as         *)
(* captured this turn (new).                                                *)
SourceChildren(old) ==
  IF old.from = None THEN {}
  ELSE Rendered(old, old.from)
         \ (IF old.incomplete /\ ~old.srcRoute THEN {Route(old.from)} ELSE {})
TargetChildren(old, new) ==
  (IF old.from = None
     THEN {k \in RenderedShared(new) : k[2] <= old.planned}
     ELSE RenderedShared(new))
    \cup (Rendered(new, old.to) \cap {Integration(old.to)})
    \cup (IF old.route THEN {Route(old.to)} ELSE {})
(* Faulty variant: the old graph is dropped as soon as a switch begins.     *)
TargetChildrenOnly(old, new) == TargetChildren(old, new)

TransitionChildren(old, new) == SourceChildren(old) \cup TargetChildren(old, new)

(* Captures of a turn in a transition.  Fresh staging has no source: it     *)
(* binds the next planned shared child and plans the one after it.          *)
CaptureShared(j) ==
  LET next == j.bound + 1
      bound == IF next <= j.planned /\ Named(Shared(next))
                 THEN next ELSE j.bound
  IN [j EXCEPT !.bound = bound,
               !.planned = IF bound + 1 <= Stages THEN bound + 1 ELSE Stages]
CaptureTransition(j) ==
  IF j.from = None THEN Capture(CaptureShared(j), j.to)
                   ELSE Capture(Capture(j, j.from), j.to)
CapturableTransition(j) ==
  IF j.from = None THEN Capturable(CaptureShared(j), j.to)
  ELSE Capturable(j, j.from) /\ Capturable(Capture(j, j.from), j.to)

(* An admitted turn inside a transition that captures without an error.     *)
Migrates ==
  /\ Proceeds /\ CapturableTransition(journal)
  /\ journal.route =>
       Route(journal.to) \in Rendered(CaptureTransition(journal), journal.to)
Captured == CaptureTransition(journal)
MigrationChildren == TransitionChildren(journal, Captured)

Withdrawn == journal.disp = "promotion" /\ Selected # journal.to

(* Faulty variant: the Route is planned without the Integration's identity  *)
(* but never recorded as planned.                                           *)
BuildTurnUnrecorded ==
  /\ Migrates /\ journal.phase = "Building" /\ ~Withdrawn
  /\ Return(IF journal.route /\ Barrier(Captured, journal.to)
              THEN [Captured EXCEPT !.phase = "Prepared", !.keep = journal.to,
                                    !.retire = journal.from]
              ELSE Captured,
            MigrationChildren)

(* Building: plan the Route once the Integration has an identity, then wait *)
(* for the target graph to be current.                                      *)
BuildTurn ==
  /\ Migrates /\ journal.phase = "Building" /\ ~Withdrawn
  /\ Return(
       IF Captured.id[Integration(journal.to)] # 0 /\ ~journal.route
         THEN [Captured EXCEPT !.route = TRUE]
       ELSE IF journal.route /\ Barrier(Captured, journal.to)
         THEN IF journal.from = None
                THEN Settled(Captured, journal.to)
                ELSE [Captured EXCEPT !.phase = "Prepared",
                                      !.keep = journal.to,
                                      !.retire = journal.from]
       ELSE Captured,
       MigrationChildren)

(* The selection leaves a fresh target before it is established: a new      *)
(* transition takes the half-built target as its incomplete source.         *)
ReplaceFreshTurn ==
  /\ Proceeds /\ journal.phase = "Building" /\ Withdrawn
  /\ journal.from = None
  /\ Return([Building(journal, journal.to, Selected, journal.planned) EXCEPT
               !.incomplete = TRUE, !.srcRoute = journal.route],
            Rendered(journal, journal.to)
              \ (IF journal.route THEN {} ELSE {Route(journal.to)}))

(* The selection leaves the target of a promotion: the disposition becomes  *)
(* cancellation.  The same turn still acts on the phase it READ: observed   *)
(* in Prepared it goes on to RetiringRoute with the promotion's authority.  *)
CancelTurn ==
  /\ Migrates /\ journal.phase \in {"Building", "Prepared"} /\ Withdrawn
  /\ journal.from # None
  /\ journal.phase = "Prepared" => Barrier(Captured, journal.from)
  /\ Return([Captured EXCEPT !.disp = "cancellation",
               !.phase = IF journal.phase = "Prepared" THEN "RetiringRoute"
                                                       ELSE "Cancelling"],
            MigrationChildren)

(* Faulty variant: waits for the target it abandons.                        *)
CancellingTurnOnTarget ==
  /\ Migrates /\ journal.phase = "Cancelling"
  /\ Return(IF Barrier(Captured, journal.to)
              THEN [Captured EXCEPT !.phase = "Prepared",
                                    !.keep = journal.from,
                                    !.retire = journal.to]
              ELSE Captured,
            MigrationChildren)

CancellingTurn ==
  /\ Migrates /\ journal.phase = "Cancelling"
  /\ Return(IF Barrier(Captured, journal.from)
              THEN [Captured EXCEPT !.phase = "Prepared",
                                    !.keep = journal.from,
                                    !.retire = journal.to]
              ELSE Captured,
            MigrationChildren)

(* Prepared: the keep pair must be current again before the decision to     *)
(* retire is recorded; both pairs are still returned.                       *)
PreparedTurn ==
  /\ Migrates /\ journal.phase = "Prepared" /\ ~Withdrawn
  /\ Barrier(Captured, KeepByDisposition(journal))
  /\ Return([Captured EXCEPT !.phase = "RetiringRoute"], MigrationChildren)

(* onCallNamedAbsent: not observed, and the named lookup finds nothing.     *)
(* Faulty variant: trusts the observation, without the named lookup.        *)
UnobservedOnly(k) == k \notin Observed

NamedAbsent(k) == k \notin Observed /\ mr[k].st = "absent"

(* Committed retirement ignores the selection.  Route first.                *)
RetireRouteTurn ==
  /\ Migrates /\ journal.phase = "RetiringRoute"
  /\ Barrier(Captured, KeepByDisposition(journal))
  /\ Return(IF NamedAbsent(Route(journal.retire))
              THEN [Captured EXCEPT !.phase = "RetiringIntegration"]
              ELSE Captured,
            MigrationChildren \ {Route(journal.retire)})

(* Faulty variant: settles on the type it retired.                          *)
RetireIntegrationTurnSwapped ==
  /\ Migrates /\ journal.phase = "RetiringIntegration"
  /\ Barrier(Captured, KeepByDisposition(journal))
  /\ Return(IF \A k \in Pair(journal.retire) : NamedAbsent(k)
              THEN Settled([Captured EXCEPT !.state[journal.keep] = "Retired"],
                           journal.retire)
              ELSE Captured,
            MigrationChildren \ Pair(journal.retire))

RetireIntegrationTurn ==
  /\ Migrates /\ journal.phase = "RetiringIntegration"
  /\ Barrier(Captured, KeepByDisposition(journal))
  /\ Return(IF \A k \in Pair(journal.retire) : NamedAbsent(k)
              THEN Settled([Captured EXCEPT !.state[journal.retire] = "Retired"],
                           journal.keep)
              ELSE Captured,
            MigrationChildren \ Pair(journal.retire))

Turn ==
  \/ LegacyTurn \/ FreshTurn \/ BootstrapTurn \/ PreserveTurn
  \/ StableTurn \/ BeginSwitchTurn \/ BuildTurn \/ ReplaceFreshTurn
  \/ CancelTurn \/ CancellingTurn \/ PreparedTurn
  \/ RetireRouteTurn \/ RetireIntegrationTurn

-----------------------------------------------------------------------------
(* Crossplane applies what the turn returned.                               *)

Doomed == {k \in Observed \ plan.desired : ~mr[k].dying}
Missing == {k \in plan.desired : mr[k].st = "absent"}

CollectGarbage(k) ==
  /\ pc = "collect" /\ k \in Doomed
  /\ mr' = [mr EXCEPT ![k].dying = TRUE]
  /\ UNCHANGED <<sel, admitted, journal, receiver, refs, pc, plan, edits, faults>>

RecordReferences ==
  /\ pc = "collect" /\ Doomed = {}
  /\ refs' = plan.desired
  /\ pc' = "create"
  /\ UNCHANGED <<sel, admitted, journal, receiver, mr, plan, edits, faults>>

(* A child whose identity the journal inventories carries it as its         *)
(* external name from the start, and adopts instead of creating.            *)
(* Faulty variant: always creates a new external object.                    *)
Unpinned(k) == 0
PinnedID(k) == IF k \in PairChild THEN plan.journal.id[k] ELSE 0
Create(k) ==
  /\ pc = "create" /\ k \in Missing
  /\ mr' = [mr EXCEPT ![k] =
              [mr[k] EXCEPT
                 !.st = IF PinnedID(k) = 0 THEN "unnamed" ELSE "named",
                 !.uid = mr[k].uid + 1, !.id = PinnedID(k)]]
  /\ UNCHANGED <<sel, admitted, journal, receiver, refs, pc, plan, edits, faults>>

PersistStatus ==
  /\ pc = "create" /\ Missing = {}
  /\ journal' = plan.journal
  /\ receiver' = plan.receiver
  /\ pc' = "idle" /\ plan' = NoPlan
  /\ UNCHANGED <<sel, admitted, mr, refs, edits, faults>>

Crash ==
  /\ pc # "idle" /\ faults < MaxFaults
  /\ pc' = "idle" /\ plan' = NoPlan
  /\ faults' = faults + 1
  /\ UNCHANGED <<sel, admitted, journal, receiver, mr, refs, edits>>

Apply ==
  \/ \E k \in Child : CollectGarbage(k) \/ Create(k)
  \/ RecordReferences \/ PersistStatus

-----------------------------------------------------------------------------
(* The provider, the API server's finalisers, the stack and the user.       *)

ProviderVars == <<sel, admitted, journal, receiver, refs, pc, plan, edits>>

AssignExternalName(k) ==
  /\ mr[k].st = "unnamed" /\ ~mr[k].dying
  /\ mr' = [mr EXCEPT ![k] = [mr[k] EXCEPT !.st = "named",
                                           !.id = mr[k].made + 1,
                                           !.made = mr[k].made + 1]]
  /\ UNCHANGED ProviderVars /\ UNCHANGED faults

BecomeCurrent(k) ==
  /\ mr[k].st = "named" /\ ~mr[k].dying
  /\ mr' = [mr EXCEPT ![k].st = "current"]
  /\ UNCHANGED ProviderVars /\ UNCHANGED faults

LoseCurrent(k) ==
  /\ mr[k].st = "current" /\ faults < MaxFaults
  /\ mr' = [mr EXCEPT ![k].st = "named"]
  /\ faults' = faults + 1
  /\ UNCHANGED ProviderVars

(* The external object stays: managementPolicies do not include Delete.     *)
Finalise(k) ==
  /\ mr[k].st # "absent" /\ mr[k].dying
  /\ mr' = [mr EXCEPT ![k] = [mr[k] EXCEPT !.st = "absent", !.dying = FALSE,
                                           !.id = 0]]
  /\ UNCHANGED ProviderVars /\ UNCHANGED faults

CloseAdmission ==
  /\ admitted /\ faults < MaxFaults
  /\ admitted' = FALSE /\ faults' = faults + 1
  /\ UNCHANGED <<sel, journal, receiver, mr, refs, pc, plan, edits>>

OpenAdmission ==
  /\ ~admitted
  /\ admitted' = TRUE
  /\ UNCHANGED <<sel, journal, receiver, mr, refs, pc, plan, edits, faults>>

EditSelection(s) ==
  /\ s # sel /\ edits < MaxEdits
  /\ sel' = s /\ edits' = edits + 1
  /\ UNCHANGED <<admitted, journal, receiver, mr, refs, pc, plan, faults>>

Provider ==
  \E k \in Child : AssignExternalName(k) \/ BecomeCurrent(k) \/ Finalise(k)

Environment ==
  \/ Provider \/ OpenAdmission \/ CloseAdmission \/ Crash
  \/ \E k \in Child : LoseCurrent(k)
  \/ \E s \in Types \cup {None} : EditSelection(s)

-----------------------------------------------------------------------------
Init ==
  /\ sel \in Types \cup {None}
  /\ admitted \in BOOLEAN
  /\ journal = NoJournal /\ receiver = None
  /\ mr = [k \in Child |-> AbsentMR] /\ refs = {}
  /\ pc = "idle" /\ plan = NoPlan
  /\ edits = 0 /\ faults = 0

Next == Turn \/ Apply \/ Environment

Spec == Init /\ [][Next]_vars

(* Crossplane keeps reconciling, the provider keeps working, and a stack    *)
(* that lost readiness regains it.                                          *)
Fairness ==
  /\ WF_vars(Turn \/ Apply)
  /\ WF_vars(Provider)
  /\ WF_vars(OpenAdmission)

FairSpec == Spec /\ Fairness

-----------------------------------------------------------------------------
(* Types.                                                                   *)

Phases == {"Absent", "Stable", "Building", "Cancelling", "Prepared",
           "RetiringRoute", "RetiringIntegration"}
MaybeType == Types \cup {None}
Journals ==
  [phase : Phases, from : MaybeType, to : MaybeType,
   disp : {None, "promotion", "cancellation"},
   incomplete : BOOLEAN, srcRoute : BOOLEAN, route : BOOLEAN,
   planned : 0..Stages, keep : MaybeType, retire : MaybeType,
   active : MaybeType, bound : 0..Stages,
   state : [Types -> {None, "Active", "Retired"}],
   id : [PairChild -> Nat], uid : [PairChild -> Nat]]
ManagedResources ==
  [st : {"absent", "unnamed", "named", "current"}, dying : BOOLEAN,
   uid : Nat, id : Nat, made : Nat]

(* Every variable keeps the shape the journal's decoder and the observation *)
(* helpers assume.                                                          *)
TypeOK ==
  /\ sel \in MaybeType /\ admitted \in BOOLEAN
  /\ journal \in Journals /\ receiver \in MaybeType
  /\ mr \in [Child -> ManagedResources]
  /\ refs \in SUBSET Child
  /\ pc \in {"idle", "collect", "create"}
  /\ plan \in [journal : Journals, receiver : MaybeType,
               desired : SUBSET Child]
  /\ edits \in 0..MaxEdits /\ faults \in 0..MaxFaults

-----------------------------------------------------------------------------
(* Safety.                                                                  *)

Exists(k) == mr[k].st # "absent"
Alive(k) == Exists(k) /\ ~mr[k].dying

(* The children a persisted journal gives creation authority for.           *)
Authorised(j) ==
  {k \in SharedChild : j.active # None \/ j.from # None \/ k[2] <= j.planned}
    \cup (IF j.active = None THEN {} ELSE Pair(j.active))
    \cup (IF j.from = None THEN {}
          ELSE Pair(j.from) \ (IF j.incomplete /\ ~j.srcRoute
                                 THEN {Route(j.from)} ELSE {}))
    \cup (IF j.to = None THEN {}
          ELSE {Integration(j.to)} \cup (IF j.route THEN {Route(j.to)} ELSE {}))

(* Write-ahead: whatever crashes and edits come between, a child of a       *)
(* governed composite exists only if the journal that is PERSISTED planned  *)
(* it, so that no later turn can lose track of it.                          *)
WriteAhead ==
  journal.phase # "Absent" => \A k \in Child : Exists(k) => k \in Authorised(journal)

(* A type of which nothing is established yet: a fresh target, and the      *)
(* incomplete source it becomes when an edit replaces it.                   *)
Unestablished(t) ==
  \/ journal.from = None /\ t = journal.to
  \/ journal.incomplete /\ t = journal.from

(* A Route never outlives the Integration it belongs to: retirement deletes *)
(* the Route and sees it gone before it touches the Integration.  A type    *)
(* that is not established is excepted: its Integration may be one that a   *)
(* replacement the reconcile lost has collected (README, section 8).        *)
RouteRestsOnIntegration ==
  \A t \in Types :
    Exists(Route(t)) => Alive(Integration(t)) \/ Unestablished(t)

(* A pair child carries the external identity the journal inventoried for   *)
(* it, through retirement and re-adoption: no second external object is     *)
(* made for an inventoried one.                                             *)
IdentityAdopted ==
  \A k \in PairChild :
    Exists(k) /\ journal.id[k] # 0 => mr[k].id = journal.id[k]

(* The receiver other claims join is never one whose Route or Integration   *)
(* is gone or going.                                                        *)
ReceiverServed ==
  receiver # None => \A k \in Pair(receiver) : Alive(k)

RetirementAuthorised(k) ==
  /\ Committed(journal)
  /\ \/ k = Route(journal.retire)
     \/ k = Integration(journal.retire) /\ journal.phase = "RetiringIntegration"

(* Withdrawal authority is read back before it is used: a child starts to   *)
(* be deleted only while the persisted journal is retiring its type, the    *)
(* Integration only in the second phase; shared children never are.  The    *)
(* exception is the Integration of a fresh type whose chain the persisted   *)
(* journal has not bound yet.                                               *)
WithdrawalAuthorised ==
  [][\A k \in Child :
       ~mr[k].dying /\ mr'[k].dying =>
          \/ RetirementAuthorised(k)
          \/ /\ journal.from = None /\ k = Integration(journal.to)
             /\ journal.bound + 1 < Stages]_vars

(* A committed retirement cannot be reversed, re-aimed or skipped by a      *)
(* later edit, crash or closure of the gate: it ends with the losing type   *)
(* Retired and the kept one active.                                         *)
CommittedIsFinal ==
  [][Committed(journal) =>
       \/ /\ Committed(journal')
          /\ journal'.keep = journal.keep /\ journal'.retire = journal.retire
          /\ journal.phase = "RetiringIntegration" =>
               journal'.phase = "RetiringIntegration"
       \/ /\ journal.phase = "RetiringIntegration" /\ journal'.phase = "Stable"
          /\ journal'.active = journal.keep
          /\ journal'.state[journal.retire] = "Retired"
          /\ \A k \in Pair(journal.retire) : ~Exists(k)
    ]_vars

(* Every journal the function persists is one its own decoder accepts.      *)
JournalDecodes == Decodes(journal)

(* The migration implements the abstract handover.                          *)
Handover == INSTANCE PagingHandover WITH
  serving <- {t \in Types : Alive(Route(t))},
  losing <- IF Committed(journal) THEN journal.retire ELSE None
ImplementsHandover == Handover!Spec

-----------------------------------------------------------------------------
(* Liveness.                                                                *)

(* Transitions that cannot end: a replaced fresh target whose chain was not *)
(* bound when it was replaced, since a transition with a source binds no    *)
(* more of it; the withdrawal of a replacement whose source was never given *)
(* a Route, since no turn gives it one; and the journal its own decoder     *)
(* refuses (JournalDecodes).                                                *)
Unbound == journal.incomplete /\ journal.bound + 1 < Stages
Unrouted == journal.incomplete /\ ~journal.srcRoute
Wedged ==
  \/ Unbound
  \/ Unrouted /\ (Withdrawn \/ journal.disp = "cancellation")
  \/ ~Decodes(journal)

(* With faults, two more.  A child of the transition came into being again,  *)
(* under another uid than the one the journal inventoried.                  *)
Superseded(k) ==
  /\ journal.phase \notin {"Absent", "Stable"}
  /\ k \in Observed /\ ~mr[k].dying
  /\ k \in Pair(journal.to) \/ (journal.from # None /\ k \in Pair(journal.from))
  /\ journal.uid[k] # 0 /\ journal.uid[k] # mr[k].uid

(* And an edit leaves a prepared target whose incomplete source has lost its *)
(* Integration to a replacement that the reconcile did not record.          *)
Halved ==
  /\ journal.phase = "Prepared" /\ Withdrawn /\ journal.incomplete
  /\ Integration(journal.from) \notin Observed

(* Every other transition, whatever edits meet it, ends in a stable journal: *)
(* with its target, or as the cancellation that keeps its source.  The       *)
(* exceptions are those of the theorem NeverAtAStandstill.                   *)
TransitionSettles ==
  journal.phase \notin {"Absent", "Stable"} ~>
    \/ journal.phase = "Stable" \/ Wedged
    \/ Halved \/ \E k \in Child : Superseded(k)
=============================================================================
