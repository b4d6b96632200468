------------------------ MODULE OnCallIdentity_proofs ------------------------
(***************************************************************************)
(* Theorems about the migration journal of OnCallIdentity, for any number  *)
(* of shared children, edits and faults.                                   *)
(*                                                                         *)
(* TypeOK is not inductive alone: rendering the children of a type needs   *)
(* the journal to name one, so every journal, persisted or planned, is     *)
(* shown to name an active type when Stable and a target in a transition.  *)
(* What the decoder refuses (a retirement that keeps no type) is used: a   *)
(* turn proceeds only on a journal that Decodes.                           *)
(*                                                                         *)
(* The invariants build on one another: IType; AheadInv, the journal is    *)
(* ahead of the children; WithdrawalInv, only what it retires is           *)
(* collected; HeldInv, what it relies on is kept.  IdentityInv and         *)
(* ReceiverInv extend HeldInv with the inventory and the published         *)
(* receiver.  SoundInv, every journal says which way its transition goes,  *)
(* and StandInv, what it waits for can come, are what the theorems on      *)
(* standstills at the end of the module rest on.                           *)
(***************************************************************************)
EXTENDS OnCallIdentity, WellFoundedInduction, TLAPS

NamesTypes(j) ==
  /\ j.phase = "Stable" => j.active \in Types
  /\ j.phase \notin {"Absent", "Stable"} => j.to \in Types
  /\ j.phase \notin {"Absent", "Stable", "Building"} => j.from \in Types

WellFormed(j) == j \in Journals /\ NamesTypes(j)

IType ==
  /\ TypeOK
  /\ NamesTypes(journal) /\ NamesTypes(plan.journal)

USE StagesAssumption, BoundsAssumption

-----------------------------------------------------------------------------
(* The operators that build journals and sets of children.                  *)

LEMMA ChildrenOfAType ==
  ASSUME NEW t \in Types
  PROVE  /\ Integration(t) \in PairChild /\ Route(t) \in PairChild
         /\ Pair(t) \subseteq PairChild
BY DEF Integration, Route, Pair, PairChild

LEMMA PairsAreChildren == PairChild \subseteq Child /\ SharedChild \subseteq Child
BY DEF Child

LEMMA SelectedType ==
  ASSUME sel \in MaybeType
  PROVE  Selected \in Types
BY DEF Selected, MaybeType, Types, InboundEmail, None

(* What a type renders is made of children.                                 *)
LEMMA RenderedChildren ==
  ASSUME NEW j, NEW t \in Types
  PROVE  Rendered(j, t) \subseteq Child
BY ChildrenOfAType, PairsAreChildren DEF Rendered, RenderedShared

LEMMA StageBounds == 0 \in 0..Stages /\ 1 \in 0..Stages /\ Stages \in 0..Stages
OBVIOUS

LEMMA NoJournalType == WellFormed(NoJournal)
BY StageBounds DEF WellFormed, NamesTypes, NoJournal, Journals, Phases, MaybeType

LEMMA SettledType ==
  ASSUME NEW j \in Journals, NEW a \in Types
  PROVE  WellFormed(Settled(j, a))
BY StageBounds DEF WellFormed, NamesTypes, Settled, Journals, Phases, MaybeType

LEMMA BuildingType ==
  ASSUME NEW j \in Journals, NEW f \in MaybeType, NEW t \in Types,
         NEW p \in 0..Stages
  PROVE  WellFormed(Building(j, f, t, p))
BY DEF WellFormed, NamesTypes, Building, Journals, Phases, MaybeType

(* Capturing changes the inventory only.                                    *)
LEMMA CaptureType ==
  ASSUME TypeOK, NEW j \in Journals, NEW t
  PROVE  /\ Capture(j, t) \in Journals
         /\ \A f \in {"phase", "from", "to", "disp", "incomplete", "srcRoute",
                      "route", "planned", "keep", "retire", "active", "bound"} :
              Capture(j, t)[f] = j[f]
<1>1. \A k \in PairChild : mr[k].id \in Nat /\ mr[k].uid \in Nat
  BY PairsAreChildren DEF TypeOK, ManagedResources
<1>. QED
  BY <1>1 DEF Capture, Journals

LEMMA CaptureSharedType ==
  ASSUME NEW j \in Journals
  PROVE  /\ CaptureShared(j) \in Journals
         /\ \A f \in {"phase", "from", "to", "disp", "incomplete", "srcRoute",
                      "route", "keep", "retire", "active"} :
              CaptureShared(j)[f] = j[f]
<1> DEFINE next == j.bound + 1
           bound == IF next <= j.planned /\ Named(Shared(next))
                      THEN next ELSE j.bound
           planned == IF bound + 1 <= Stages THEN bound + 1 ELSE Stages
<1>1. bound \in 0..Stages
  BY DEF Journals
<1>2. planned \in 0..Stages
  BY <1>1
<1>3. CaptureShared(j) = [j EXCEPT !.bound = bound, !.planned = planned]
  BY DEF CaptureShared
<1>. HIDE DEF bound, planned
<1>. QED
  BY <1>1, <1>2, <1>3 DEF Journals

LEMMA CapturedType ==
  ASSUME TypeOK
  PROVE  /\ Captured \in Journals
         /\ \A f \in {"phase", "from", "to", "disp", "incomplete", "srcRoute",
                      "route", "keep", "retire", "active"} :
              Captured[f] = journal[f]
<1>1. journal \in Journals
  BY DEF TypeOK
<1>2. CASE journal.from = None
  BY <1>1, <1>2, CaptureSharedType, CaptureType DEF Captured, CaptureTransition
<1>3. CASE journal.from # None
  BY <1>1, <1>3, CaptureType DEF Captured, CaptureTransition
<1>. QED
  BY <1>2, <1>3

LEMMA MigrationChildrenType ==
  ASSUME TypeOK, journal.to \in Types
  PROVE  MigrationChildren \subseteq Child
<1>1. SourceChildren(journal) \subseteq Child
  BY RenderedChildren DEF SourceChildren, TypeOK, Journals, MaybeType
<1>2. TargetChildren(journal, Captured) \subseteq Child
  BY ChildrenOfAType, PairsAreChildren
     DEF TargetChildren, RenderedShared
<1>. QED
  BY <1>1, <1>2 DEF MigrationChildren, TransitionChildren

(* Every turn that returns a well-formed journal and children keeps the     *)
(* types.                                                                   *)
LEMMA ReturnType ==
  ASSUME IType, NEW j, WellFormed(j), NEW d \in SUBSET Child, Return(j, d)
  PROVE  IType'
<1>1. Receiver(d) \in MaybeType
  BY SelectedType DEF IType, TypeOK, Receiver, MaybeType, Types
<1>. QED
  BY <1>1 DEF IType, TypeOK, WellFormed, NamesTypes, Return

-----------------------------------------------------------------------------
(* Every turn keeps the types.                                              *)

LEMMA StableTurnsType ==
  ASSUME IType,
         LegacyTurn \/ FreshTurn \/ BootstrapTurn \/ PreserveTurn
           \/ StableTurn \/ BeginSwitchTurn \/ ReplaceFreshTurn
  PROVE  IType'
<1>. USE DEF IType
<1>s. Selected \in Types /\ WellFormed(journal) /\ InboundEmail \in Types
  BY SelectedType DEF TypeOK, WellFormed, Types
<1>o. Observed \subseteq Child
  BY DEF Observed, TypeOK
<1>1. CASE LegacyTurn
  <2>1. LegacyRendered \subseteq Child
    BY <1>s, ChildrenOfAType, PairsAreChildren DEF LegacyRendered, LegacyShared
  <2>. QED  BY <1>1, <1>s, <2>1, ReturnType DEF LegacyTurn
<1>2. CASE FreshTurn
  <2>1. WellFormed(Building(NoJournal, None, Selected, 1))
    BY <1>s, StageBounds, NoJournalType, BuildingType DEF WellFormed, MaybeType
  <2>. QED  BY <1>2, <2>1, ReturnType DEF FreshTurn
<1>3. CASE BootstrapTurn
  <2>1. [NoJournal EXCEPT !.bound = Stages] \in Journals
    BY NoJournalType, StageBounds DEF WellFormed, Journals
  <2>2. Predecessor \in Journals
    BY <2>1, CaptureType DEF Predecessor
  <2>3. WellFormed(Settled(Predecessor, InboundEmail))
    BY <2>2, <1>s, SettledType
  <2>4. WellFormed(Building(Settled(Predecessor, InboundEmail),
                            InboundEmail, Selected, 0))
    BY <2>3, <1>s, BuildingType DEF WellFormed, MaybeType
  <2>5. Rendered(Predecessor, InboundEmail) \subseteq Child
    BY <1>s, RenderedChildren
  <2>. QED  BY <1>3, <2>3, <2>4, <2>5, ReturnType DEF BootstrapTurn
<1>4. CASE PreserveTurn
  BY <1>4, <1>s, <1>o, ReturnType DEF PreserveTurn
<1>5. CASE StableTurn
  <2>1. Rendered(journal, journal.active) \subseteq Child
    BY <1>5, <1>s, RenderedChildren DEF StableTurn
  <2>. QED  BY <1>5, <1>s, <2>1, ReturnType DEF StableTurn
<1>6. CASE BeginSwitchTurn
  <2> DEFINE readopted == [journal EXCEPT
           !.state[Selected] = IF @ = None THEN None ELSE "Active",
           !.uid = [k \in PairChild |->
                      IF k \in Pair(Selected) THEN 0 ELSE @[k]]]
  <2>1. readopted \in Journals
    BY DEF TypeOK, Journals
  <2>2. journal.active \in Types
    BY <1>6 DEF BeginSwitchTurn, Proceeds, NamesTypes
  <2>3. WellFormed(Building(readopted, journal.active, Selected, 0))
    BY <2>1, <2>2, <1>s, BuildingType DEF MaybeType
  <2>4. Rendered(journal, journal.active) \subseteq Child
    BY <2>2, RenderedChildren
  <2>. QED  BY <1>6, <2>3, <2>4, ReturnType DEF BeginSwitchTurn
<1>7. CASE ReplaceFreshTurn
  <2> DEFINE j == Building(journal, journal.to, Selected, journal.planned)
  <2>1. journal.to \in Types
    BY <1>7 DEF ReplaceFreshTurn, NamesTypes
  <2>2. WellFormed(j)
    BY <2>1, <1>s, BuildingType DEF TypeOK, Journals, MaybeType
  <2>3. WellFormed([j EXCEPT !.incomplete = TRUE, !.srcRoute = journal.route])
    BY <2>2 DEF WellFormed, NamesTypes, Journals, TypeOK
  <2>4. Rendered(journal, journal.to)
          \ (IF journal.route THEN {} ELSE {Route(journal.to)}) \subseteq Child
    BY <2>1, RenderedChildren
  <2>. QED  BY <1>7, <2>3, <2>4, ReturnType DEF ReplaceFreshTurn
<1>. QED  BY <1>1, <1>2, <1>3, <1>4, <1>5, <1>6, <1>7

LEMMA MigratingTurnsType ==
  ASSUME IType,
         BuildTurn \/ CancelTurn \/ CancellingTurn \/ PreparedTurn
           \/ RetireRouteTurn \/ RetireIntegrationTurn
  PROVE  IType'
<1>. USE DEF IType
<1>1. journal.to \in Types
  BY DEF BuildTurn, CancelTurn, CancellingTurn, PreparedTurn, RetireRouteTurn,
         RetireIntegrationTurn, NamesTypes
<1>2. MigrationChildren \subseteq Child
  BY <1>1, MigrationChildrenType
<1>3. WellFormed(Captured)
  BY <1>1, CapturedType DEF WellFormed, NamesTypes, BuildTurn, CancelTurn,
     CancellingTurn, PreparedTurn, RetireRouteTurn, RetireIntegrationTurn
<1>f. journal.from \in MaybeType /\ journal.to \in MaybeType
  BY DEF TypeOK, Journals
(* A journal in a transition with a source stays well formed in any later   *)
(* phase.                                                                   *)
<1>4. ASSUME journal.from # None, NEW p \in Phases \ {"Absent", "Stable"},
             NEW k \in MaybeType, NEW r \in MaybeType,
             NEW d \in {"promotion", "cancellation"}
      PROVE  /\ WellFormed([Captured EXCEPT !.phase = p])
             /\ WellFormed([Captured EXCEPT !.phase = p, !.keep = k, !.retire = r])
             /\ WellFormed([Captured EXCEPT !.disp = d, !.phase = p])
  <2>1. Captured.from \in Types /\ Captured.to \in Types
    BY <1>1, <1>4, <1>f, CapturedType DEF MaybeType
  <2>2. Captured \in Journals
    BY <1>3 DEF WellFormed
  <2>. QED
    BY <2>1, <2>2, <1>4 DEF WellFormed, NamesTypes, Journals
<1>5. ASSUME journal.phase \notin {"Absent", "Stable", "Building"}
      PROVE  journal.from # None
  BY <1>5 DEF NamesTypes, Types, None, InboundEmail, GrafanaAlerting
<1>6. CASE BuildTurn
  <2>1. WellFormed([Captured EXCEPT !.route = TRUE])
    BY <1>3 DEF WellFormed, NamesTypes, Journals
  <2>2. WellFormed(Settled(Captured, journal.to))
    BY <1>1, <1>3, SettledType DEF WellFormed
  <2>3. ASSUME journal.from # None
        PROVE  WellFormed([Captured EXCEPT !.phase = "Prepared",
                             !.keep = journal.to, !.retire = journal.from])
    BY <2>3, <1>4, <1>f DEF Phases
  <2>. QED  BY <1>6, <1>2, <1>3, <2>1, <2>2, <2>3, ReturnType DEF BuildTurn
<1>7. CASE CancelTurn
  <2>1. /\ WellFormed([Captured EXCEPT !.disp = "cancellation",
                                       !.phase = "RetiringRoute"])
        /\ WellFormed([Captured EXCEPT !.disp = "cancellation",
                                       !.phase = "Cancelling"])
    BY <1>7, <1>4, <1>f DEF CancelTurn, Phases
  <2>. QED  BY <1>7, <1>2, <2>1, ReturnType DEF CancelTurn
<1>8. CASE CancellingTurn
  <2>1. WellFormed([Captured EXCEPT !.phase = "Prepared",
                      !.keep = journal.from, !.retire = journal.to])
    BY <1>8, <1>4, <1>5, <1>f DEF CancellingTurn, Phases
  <2>. QED  BY <1>8, <1>2, <1>3, <2>1, ReturnType DEF CancellingTurn
<1>9. CASE PreparedTurn
  <2>1. WellFormed([Captured EXCEPT !.phase = "RetiringRoute"])
    BY <1>9, <1>4, <1>5, <1>f DEF PreparedTurn, Phases
  <2>. QED  BY <1>9, <1>2, <2>1, ReturnType DEF PreparedTurn
<1>10. CASE RetireRouteTurn
  <2>1. WellFormed([Captured EXCEPT !.phase = "RetiringIntegration"])
    BY <1>10, <1>4, <1>5, <1>f DEF RetireRouteTurn, Phases
  <2>. QED  BY <1>10, <1>2, <1>3, <2>1, ReturnType DEF RetireRouteTurn
<1>11. CASE RetireIntegrationTurn
  <2>1. [Captured EXCEPT !.state[journal.retire] = "Retired"] \in Journals
    BY <1>3 DEF WellFormed, Journals
  <2>2. journal.keep \in Types
    BY <1>11 DEF RetireIntegrationTurn, Migrates, Proceeds, Decodes, Committed,
       TypeOK, Journals, MaybeType
  <2>3. WellFormed(Settled([Captured EXCEPT !.state[journal.retire] = "Retired"],
                           journal.keep))
    BY <2>1, <2>2, SettledType
  <2>. QED  BY <1>11, <1>2, <1>3, <2>3, ReturnType DEF RetireIntegrationTurn
<1>. QED  BY <1>6, <1>7, <1>8, <1>9, <1>10, <1>11

(* Crossplane's steps and the environment's keep the types.                 *)
LEMMA ApplyType ==
  ASSUME IType, Apply
  PROVE  IType'
<1>. USE DEF IType
<1>k. \A k \in Child : mr[k] \in ManagedResources
  BY DEF TypeOK
<1>1. ASSUME NEW k \in Child, CollectGarbage(k)
      PROVE  IType'
  BY <1>1, <1>k DEF CollectGarbage, TypeOK, ManagedResources
<1>2. ASSUME NEW k \in Child, Create(k)
      PROVE  IType'
  <2>1. PinnedID(k) \in Nat
    BY DEF PinnedID, TypeOK, Journals
  <2>2. ASSUME NEW st \in {"unnamed", "named"}, NEW uid \in Nat, NEW id \in Nat
        PROVE  [mr[k] EXCEPT !.st = st, !.uid = uid, !.id = id]
                 \in ManagedResources
    BY <1>k DEF ManagedResources
  <2>3. mr[k].uid + 1 \in Nat
    BY <1>k DEF ManagedResources
  <2>4. mr' \in [Child -> ManagedResources]
    BY <1>2, <2>1, <2>2, <2>3 DEF Create, TypeOK
  <2>. QED
    BY <1>2, <2>4 DEF Create, TypeOK
<1>3. CASE RecordReferences
  BY <1>3 DEF RecordReferences, TypeOK
<1>4. CASE PersistStatus
  BY <1>4, NoJournalType
     DEF PersistStatus, TypeOK, NoPlan, WellFormed, MaybeType
<1>. QED
  BY <1>1, <1>2, <1>3, <1>4 DEF Apply

LEMMA EnvironmentType ==
  ASSUME IType, Environment
  PROVE  IType'
<1>. USE DEF IType
<1>k. \A k \in Child : mr[k] \in ManagedResources
  BY DEF TypeOK
<1>f. faults < MaxFaults => faults + 1 \in 0..MaxFaults
  BY DEF TypeOK
<1>e. edits < MaxEdits => edits + 1 \in 0..MaxEdits
  BY DEF TypeOK
<1>1. ASSUME NEW k \in Child,
             AssignExternalName(k) \/ BecomeCurrent(k) \/ Finalise(k)
      PROVE  IType'
  <2>1. CASE AssignExternalName(k)
    <3>1. mr[k].made + 1 \in Nat
      BY <1>k DEF ManagedResources
    <3>2. ASSUME NEW id \in Nat
          PROVE  [mr[k] EXCEPT !.st = "named", !.id = id, !.made = id]
                   \in ManagedResources
      BY <1>k DEF ManagedResources
    <3>. QED
      BY <2>1, <3>1, <3>2 DEF AssignExternalName, ProviderVars, TypeOK
  <2>2. CASE BecomeCurrent(k)
    <3>1. mr' \in [Child -> ManagedResources]
      BY <2>2, <1>k DEF BecomeCurrent, TypeOK, ManagedResources
    <3>. QED
      BY <2>2, <3>1 DEF BecomeCurrent, ProviderVars, TypeOK
  <2>3. CASE Finalise(k)
    <3>1. [mr[k] EXCEPT !.st = "absent", !.dying = FALSE, !.id = 0]
            \in ManagedResources
      BY <1>k DEF ManagedResources
    <3>. QED
      BY <2>3, <3>1 DEF Finalise, ProviderVars, TypeOK
  <2>. QED
    BY <1>1, <2>1, <2>2, <2>3
<1>2. ASSUME NEW k \in Child, LoseCurrent(k)
      PROVE  IType'
  <2>1. mr' \in [Child -> ManagedResources]
    BY <1>2, <1>k DEF LoseCurrent, TypeOK, ManagedResources
  <2>. QED
    BY <1>2, <1>f, <2>1 DEF LoseCurrent, ProviderVars, TypeOK
<1>3. CASE OpenAdmission \/ CloseAdmission
  <2>1. faults' \in 0..MaxFaults
    BY <1>3, <1>f DEF OpenAdmission, CloseAdmission, TypeOK
  <2>. QED
    BY <1>3, <2>1, Zenon DEF OpenAdmission, CloseAdmission, TypeOK
<1>4. CASE Crash
  BY <1>4, <1>f, NoJournalType DEF Crash, TypeOK, NoPlan, WellFormed, MaybeType
<1>5. ASSUME NEW s \in Types \cup {None}, EditSelection(s)
      PROVE  IType'
  BY <1>5, <1>e DEF EditSelection, TypeOK, MaybeType
<1>. QED
  BY <1>1, <1>2, <1>3, <1>4, <1>5 DEF Environment, Provider

LEMMA InitType == Init => IType
BY NoJournalType
   DEF Init, IType, TypeOK, NoPlan, AbsentMR, ManagedResources, WellFormed,
       NamesTypes, MaybeType

LEMMA NextType == IType /\ [Next]_vars => IType'
<1>. SUFFICES ASSUME IType, [Next]_vars
              PROVE  IType'
  OBVIOUS
<1>1. CASE Turn
  BY <1>1, StableTurnsType, MigratingTurnsType DEF Turn
<1>2. CASE Apply
  BY <1>2, ApplyType
<1>3. CASE Environment
  BY <1>3, EnvironmentType
<1>4. CASE UNCHANGED vars
  BY <1>4 DEF vars, IType, TypeOK
<1>. QED
  BY <1>1, <1>2, <1>3, <1>4 DEF Next

LEMMA TypesInductive == Spec => []IType
BY InitType, NextType, PTL DEF Spec

(* Every reachable state has the shape the journal's decoder and the        *)
(* observation helpers of the function assume.                              *)
THEOREM TypeCorrect == Spec => []TypeOK
<1>1. IType => TypeOK
  BY DEF IType
<1>. QED
  BY <1>1, TypesInductive, PTL

-----------------------------------------------------------------------------
(* A committed retirement is final.  What a reconcile persists was decided  *)
(* by its turn, so the argument is about the plan in hand: whatever happens *)
(* between the turn and the persist, a plan made from a committed journal   *)
(* continues the retirement, or concludes it while the retired pair is      *)
(* absent and not about to be created.                                      *)

Continues(old, new) ==
  /\ Committed(new) /\ new.keep = old.keep /\ new.retire = old.retire
  /\ old.phase = "RetiringIntegration" => new.phase = "RetiringIntegration"

Concludes(old, new) ==
  /\ old.phase = "RetiringIntegration" /\ new.phase = "Stable"
  /\ new.active = old.keep /\ new.state[old.retire] = "Retired"

Gone(t) ==
  /\ t \in Types
  /\ \A k \in Pair(t) : mr[k].st = "absent" /\ k \notin plan.desired

PlanIsFinal ==
  pc # "idle" /\ Committed(journal) =>
    \/ Continues(journal, plan.journal)
    \/ Concludes(journal, plan.journal) /\ Gone(journal.retire)

(* A decodable committed journal retires a type.                            *)
LEMMA RetiresAType ==
  ASSUME IType, Committed(journal), Decodes(journal)
  PROVE  journal.retire \in Types
BY DEF IType, NamesTypes, Committed, Decodes, RetireByDisposition

LEMMA TurnIsFinal ==
  ASSUME IType, Turn
  PROVE  PlanIsFinal'
<1>. SUFFICES ASSUME Committed(journal)
              PROVE  \/ Continues(journal, plan'.journal)
                     \/ Concludes(journal, plan'.journal) /\ Gone(journal.retire)'
  BY DEF PlanIsFinal, Turn, LegacyTurn, FreshTurn, BootstrapTurn, PreserveTurn,
     StableTurn, BeginSwitchTurn, BuildTurn, ReplaceFreshTurn, CancelTurn,
     CancellingTurn, PreparedTurn, RetireRouteTurn, RetireIntegrationTurn, Return
<1>c. /\ Captured \in Journals
      /\ Captured.phase = journal.phase /\ Captured.keep = journal.keep
      /\ Captured.retire = journal.retire
  BY CapturedType DEF IType
<1>1. CASE PreserveTurn
  BY <1>1 DEF PreserveTurn, Return, Continues
<1>2. CASE RetireRouteTurn
  <2>1. \/ plan'.journal = [Captured EXCEPT !.phase = "RetiringIntegration"]
        \/ plan'.journal = Captured
    BY <1>2 DEF RetireRouteTurn, Return
  <2>. QED
    BY <1>2, <1>c, <2>1 DEF RetireRouteTurn, Continues, Committed, Journals
<1>3. CASE RetireIntegrationTurn
  <2>1. CASE \A k \in Pair(journal.retire) : NamedAbsent(k)
    <3> DEFINE retired == [Captured EXCEPT !.state[journal.retire] = "Retired"]
    <3>1. journal.retire \in Types
      BY <1>3, RetiresAType DEF RetireIntegrationTurn, Migrates, Proceeds
    <3>2. retired \in Journals /\ retired.state[journal.retire] = "Retired"
      BY <1>c, <3>1 DEF Journals
    <3>3. /\ plan'.journal = Settled(retired, journal.keep)
          /\ plan'.desired = MigrationChildren \ Pair(journal.retire)
          /\ UNCHANGED <<journal, mr>>
      BY <1>3, <2>1 DEF RetireIntegrationTurn, Return
    <3>. HIDE DEF retired
    <3>4. Concludes(journal, Settled(retired, journal.keep))
      BY <1>3, <3>2 DEF RetireIntegrationTurn, Concludes, Settled, Journals
    <3>5. Gone(journal.retire)'
      BY <2>1, <3>1, <3>3 DEF Gone, NamedAbsent, Pair, Integration, Route
    <3>. QED
      BY <3>3, <3>4, <3>5
  <2>2. CASE ~ \A k \in Pair(journal.retire) : NamedAbsent(k)
    <3>1. plan'.journal = Captured
      BY <1>3, <2>2 DEF RetireIntegrationTurn, Return
    <3>. QED
      BY <1>c, <3>1 DEF Continues, Committed
  <2>. QED
    BY <2>1, <2>2
<1>4. LegacyTurn \/ FreshTurn \/ BootstrapTurn \/ StableTurn
        \/ BeginSwitchTurn \/ BuildTurn \/ ReplaceFreshTurn \/ CancelTurn
        \/ CancellingTurn \/ PreparedTurn => FALSE
  BY DEF Committed, Governed, LegacyTurn, FreshTurn, BootstrapTurn, StableTurn,
     BeginSwitchTurn, BuildTurn, ReplaceFreshTurn, CancelTurn, CancellingTurn,
     PreparedTurn
<1>. QED
  BY <1>1, <1>2, <1>3, <1>4 DEF Turn

(* Between the turn and the persist nothing revives an absent child but     *)
(* Crossplane creating one that the plan desires.                           *)
LEMMA AbsentStaysAbsent ==
  ASSUME IType, NEW k \in Child, mr[k].st = "absent", k \notin plan.desired,
         Apply \/ Environment
  PROVE  mr'[k].st = "absent"
<1>m. mr \in [Child -> ManagedResources]
  BY DEF IType, TypeOK
<1>1. ASSUME NEW c \in Child, CollectGarbage(c)
      PROVE  mr'[k].st = "absent"
  BY <1>1, <1>m DEF CollectGarbage, ManagedResources
<1>2. ASSUME NEW c \in Child, Create(c)
      PROVE  mr'[k].st = "absent"
  BY <1>2, <1>m DEF Create, Missing
<1>3. ASSUME NEW c \in Child, AssignExternalName(c) \/ BecomeCurrent(c) \/ LoseCurrent(c)
      PROVE  mr'[k].st = "absent"
  BY <1>3, <1>m DEF AssignExternalName, BecomeCurrent, LoseCurrent
<1>4. ASSUME NEW c \in Child, Finalise(c)
      PROVE  mr'[k].st = "absent"
  BY <1>4, <1>m DEF Finalise, ManagedResources
<1>5. CASE RecordReferences \/ PersistStatus \/ Crash \/ OpenAdmission
             \/ CloseAdmission
  BY <1>5 DEF RecordReferences, PersistStatus, Crash, OpenAdmission,
     CloseAdmission
<1>6. ASSUME NEW s, EditSelection(s)
      PROVE  mr'[k].st = "absent"
  BY <1>6 DEF EditSelection
<1>. QED
  BY <1>1, <1>2, <1>3, <1>4, <1>5, <1>6 DEF Apply, Environment, Provider

(* A step outside the turns keeps journal and plan, or ends the reconcile.  *)
LEMMA PlanKept ==
  ASSUME Apply \/ Environment
  PROVE  \/ UNCHANGED <<journal, plan>>
         \/ pc' = "idle" /\ pc # "idle" /\ journal' \in {journal, plan.journal}
BY DEF Apply, Environment, Provider, CollectGarbage, Create, RecordReferences,
   PersistStatus, Crash, AssignExternalName, BecomeCurrent, LoseCurrent,
   Finalise, OpenAdmission, CloseAdmission, EditSelection, ProviderVars

LEMMA PlanIsFinalInductive ==
  IType /\ PlanIsFinal /\ [Next]_vars => PlanIsFinal'
<1>. SUFFICES ASSUME IType, PlanIsFinal, [Next]_vars
              PROVE  PlanIsFinal'
  OBVIOUS
<1>1. CASE Turn
  BY <1>1, TurnIsFinal
<1>2. CASE Apply \/ Environment
  <2>1. SUFFICES ASSUME pc' # "idle", Committed(journal')
                 PROVE  \/ Continues(journal, plan.journal)
                        \/ Concludes(journal, plan.journal) /\ Gone(journal.retire)'
    BY <1>2, PlanKept DEF PlanIsFinal, Gone
  <2>2. UNCHANGED <<journal, plan>> /\ pc # "idle"
    BY <1>2, <2>1, PlanKept
       DEF Apply, Environment, Provider, CollectGarbage, Create,
           RecordReferences, PersistStatus, Crash, AssignExternalName,
           BecomeCurrent, LoseCurrent, Finalise, OpenAdmission, CloseAdmission,
           EditSelection, ProviderVars
  <2>3. CASE Continues(journal, plan.journal)
    BY <2>3
  <2>4. CASE Concludes(journal, plan.journal) /\ Gone(journal.retire)
    <3>1. ASSUME NEW k \in Pair(journal.retire)
          PROVE  mr'[k].st = "absent" /\ k \notin plan'.desired
      <4>1. k \in Child
        BY <2>4, ChildrenOfAType, PairsAreChildren DEF Gone
      <4>. QED
        BY <1>2, <2>2, <2>4, <4>1, AbsentStaysAbsent DEF Gone
    <3>. QED
      BY <2>2, <2>4, <3>1 DEF Gone
  <2>. QED
    BY <2>1, <2>2, <2>3, <2>4 DEF PlanIsFinal
<1>3. CASE UNCHANGED vars
  BY <1>3 DEF vars, PlanIsFinal, Gone
<1>. QED
  BY <1>1, <1>2, <1>3 DEF Next

(* The step a persist takes from a final plan.                              *)
LEMMA StepIsFinal ==
  IType /\ PlanIsFinal /\ [Next]_vars =>
    [Committed(journal) =>
       \/ /\ Committed(journal')
          /\ journal'.keep = journal.keep /\ journal'.retire = journal.retire
          /\ journal.phase = "RetiringIntegration" =>
               journal'.phase = "RetiringIntegration"
       \/ /\ journal.phase = "RetiringIntegration" /\ journal'.phase = "Stable"
          /\ journal'.active = journal.keep
          /\ journal'.state[journal.retire] = "Retired"
          /\ \A k \in Pair(journal.retire) : ~Exists(k)
    ]_vars
<1>. SUFFICES ASSUME PlanIsFinal, [Next]_vars, Committed(journal)
              PROVE  \/ Continues(journal, journal')
                     \/ /\ Concludes(journal, journal')
                        /\ \A k \in Pair(journal.retire) : ~Exists(k)
  BY DEF Continues, Concludes
<1>1. CASE UNCHANGED journal
  BY <1>1 DEF Continues
<1>2. CASE journal' = plan.journal /\ pc # "idle"
  BY <1>2 DEF PlanIsFinal, Gone, Exists
<1>3. UNCHANGED journal \/ (journal' = plan.journal /\ pc # "idle")
  <2>1. Turn => UNCHANGED journal
    BY DEF Turn, LegacyTurn, FreshTurn, BootstrapTurn, PreserveTurn,
       StableTurn, BeginSwitchTurn, BuildTurn, ReplaceFreshTurn, CancelTurn,
       CancellingTurn, PreparedTurn, RetireRouteTurn, RetireIntegrationTurn,
       Return
  <2>. QED
    BY <2>1, PlanKept DEF Next, vars
<1>. QED
  BY <1>1, <1>2, <1>3

(* Once persisted, the decision to retire a type cannot be reversed,        *)
(* re-aimed or skipped: whatever edits, crashes and closures of the gate    *)
(* follow, it ends with the retired pair gone, its type recorded Retired    *)
(* and the kept type active.                                                *)
THEOREM CommittedFinality == Spec => CommittedIsFinal
<1>1. Init => PlanIsFinal
  BY DEF Init, PlanIsFinal
<1>. QED
  BY <1>1, TypesInductive, PlanIsFinalInductive, StepIsFinal, PTL
     DEF Spec, CommittedIsFinal
-----------------------------------------------------------------------------
(* What a composite inherits by implementing PagingHandover.                *)
LEMMA HandoverServes == ImplementsHandover => []Handover!NeverUnserved
<1>1. Handover!Init => Handover!NeverUnserved
  BY DEF Handover!Init, Handover!NeverUnserved
<1>2. Handover!NeverUnserved /\ [Handover!Next]_(Handover!vars)
        => Handover!NeverUnserved'
  <2>. SUFFICES ASSUME Handover!NeverUnserved, [Handover!Next]_(Handover!vars)
                PROVE  Handover!NeverUnserved'
    OBVIOUS
  <2>1. ASSUME NEW t \in Types, Handover!Serve(t)
        PROVE  Handover!NeverUnserved'
    BY <2>1 DEF Handover!Serve, Handover!NeverUnserved
  <2>2. ASSUME NEW t \in Types, Handover!Decide(t)
        PROVE  Handover!NeverUnserved'
    BY <2>2 DEF Handover!Decide, Handover!NeverUnserved
  <2>3. ASSUME NEW t \in Types, Handover!Withdraw(t)
        PROVE  Handover!NeverUnserved'
    BY <2>3 DEF Handover!Withdraw, Handover!NeverUnserved
  <2>4. CASE Handover!Conclude
    BY <2>4 DEF Handover!Conclude, Handover!NeverUnserved
  <2>5. CASE UNCHANGED Handover!vars
    BY <2>5 DEF Handover!vars, Handover!NeverUnserved
  <2>. QED
    BY <2>1, <2>2, <2>3, <2>4, <2>5 DEF Handover!Next
<1>. QED
  BY <1>1, <1>2, PTL DEF ImplementsHandover, Handover!Spec
-----------------------------------------------------------------------------
(* The journal is ahead of the children.  Every turn returns children its   *)
(* journal authorises, and a journal that authorises these and everything   *)
(* that exists, so it does not matter where a reconcile is cut short.       *)

Existing == {k \in Child : Exists(k)}

(* A stable journal has no transition; one with a source has that, or       *)
(* nothing, active; a fresh one plans the child after the last it bound.    *)
WellPlaced(j) ==
  /\ j.phase = "Stable" => j.from = None /\ j.to = None
  /\ j.phase \notin {"Absent", "Stable"} =>
       IF j.from = None
         THEN /\ j.active = None
              /\ j.planned = IF j.bound + 1 <= Stages THEN j.bound + 1 ELSE Stages
         ELSE j.active \in {None, j.from}

NamedHaveIDs ==
  \A k \in Child : mr[k].st \in {"named", "current"} => mr[k].id # 0
IdleHasNoPlan == pc = "idle" => plan = NoPlan

(* Without a journal the graph only grows, in the order of the legacy path. *)
LegacyGrows ==
  journal.phase = "Absent" =>
    /\ Existing \subseteq refs /\ Existing \subseteq LegacyRendered
    /\ \A k \in Child : ~mr[k].dying
    /\ pc = "create" => refs = plan.desired
    /\ pc # "idle" =>
         /\ Existing \subseteq plan.desired
         /\ plan.desired \subseteq LegacyRendered
         /\ plan.journal.phase # "Absent" =>
              plan.desired \subseteq Authorised(plan.journal)

Planned ==
  journal.phase # "Absent" =>
    /\ Existing \subseteq Authorised(journal)
    /\ pc # "idle" =>
         /\ plan.journal.phase # "Absent"
         /\ plan.desired \subseteq Authorised(journal)
         /\ Existing \cup plan.desired \subseteq Authorised(plan.journal)

AheadInv ==
  /\ IType /\ NamedHaveIDs /\ IdleHasNoPlan
  /\ WellPlaced(journal) /\ WellPlaced(plan.journal)
  /\ LegacyGrows /\ Planned

(* What a journal authorises.                                               *)
LEMMA AuthorisedParts ==
  ASSUME NEW j
  PROVE  /\ j.active # None \/ j.from # None => SharedChild \subseteq Authorised(j)
         /\ j.active # None => Pair(j.active) \subseteq Authorised(j)
         /\ j.to # None => Integration(j.to) \in Authorised(j)
         /\ j.to # None /\ j.route => Route(j.to) \in Authorised(j)
         /\ j.from # None => Pair(j.from) \ (IF j.incomplete /\ ~j.srcRoute
                               THEN {Route(j.from)} ELSE {}) \subseteq Authorised(j)
         /\ {k \in SharedChild : k[2] <= j.planned} \subseteq Authorised(j)
BY DEF Authorised

LEMMA RenderedParts ==
  ASSUME NEW j, NEW t
  PROVE  /\ Rendered(j, t) \subseteq RenderedShared(j) \cup Pair(t)
         /\ RenderedShared(j) \subseteq SharedChild
BY DEF Rendered, RenderedShared, Pair

LEMMA TypesAreNamed == \A t \in Types : t # None
BY DEF Types, None, InboundEmail, GrafanaAlerting

(* Capturing takes nothing from what is authorised.                         *)
LEMMA CapturedPlacement ==
  ASSUME IType, WellPlaced(journal), journal.phase \notin {"Absent", "Stable"}
  PROVE  /\ WellPlaced(Captured)
         /\ Authorised(journal) \subseteq Authorised(Captured)
<1>1. journal \in Journals /\ journal.bound \in Nat /\ journal.planned \in Nat
  BY DEF IType, TypeOK, Journals
<1>2. /\ Captured.phase = journal.phase /\ Captured.from = journal.from
      /\ Captured.to = journal.to /\ Captured.active = journal.active
      /\ Captured.route = journal.route /\ Captured.srcRoute = journal.srcRoute
      /\ Captured.incomplete = journal.incomplete
  BY CapturedType DEF IType
<1>3. CASE journal.from = None
  <2> DEFINE next == journal.bound + 1
             bound == IF next <= journal.planned /\ Named(Shared(next))
                        THEN next ELSE journal.bound
             planned == IF bound + 1 <= Stages THEN bound + 1 ELSE Stages
  <2>1. CaptureShared(journal) = [journal EXCEPT !.bound = bound, !.planned = planned]
    BY DEF CaptureShared
  <2>2. bound \in {journal.bound, journal.bound + 1}
    OBVIOUS
  <2> HIDE DEF bound
  <2>3. CaptureShared(journal).bound = bound /\ CaptureShared(journal).planned = planned
    BY <1>1, <2>1 DEF Journals
  <2>4. Captured.bound = bound /\ Captured.planned = planned
    BY <1>1, <1>3, <2>3, CaptureType, CaptureSharedType
       DEF Captured, CaptureTransition, IType
  <2>5. journal.planned <= planned
    BY <1>1, <1>3, <2>2 DEF WellPlaced
  <2>6. WellPlaced(Captured)
    BY <1>2, <1>3, <2>4 DEF WellPlaced
  <2>7. \A k \in SharedChild : k[2] <= journal.planned => k[2] <= planned
    BY <1>1, <2>2, <2>5 DEF SharedChild
  <2> QED
    BY <1>2, <2>4, <2>6, <2>7 DEF Authorised
<1>4. CASE journal.from # None
  <2>1. WellPlaced(Captured)
    BY <1>2, <1>4 DEF WellPlaced
  <2> QED
    BY <1>2, <1>4, <2>1 DEF Authorised
<1> QED
  BY <1>3, <1>4

LEMMA MigrationAuthorised ==
  ASSUME IType, journal.to \in Types
  PROVE  MigrationChildren \subseteq Authorised(journal)
<1>0. journal.to # None
  BY TypesAreNamed
<1>1. SourceChildren(journal) \subseteq Authorised(journal)
  BY RenderedParts, AuthorisedParts DEF SourceChildren
<1>2. TargetChildren(journal, Captured) \subseteq Authorised(journal)
  BY <1>0, AuthorisedParts DEF TargetChildren, RenderedShared
<1> QED
  BY <1>1, <1>2 DEF MigrationChildren, TransitionChildren

(* Recording a decision changes neither what the captured journal           *)
(* authorises nor where it stands.                                          *)
LEMMA DecisionPlacement ==
  ASSUME IType, WellPlaced(journal), journal.phase \notin {"Absent", "Stable"},
         NEW j, j.phase \notin {"Absent", "Stable"},
         \A f \in {"from", "to", "incomplete", "srcRoute", "planned",
                   "active", "bound"} : j[f] = Captured[f],
         Captured.route => j.route
  PROVE  /\ j.phase # "Absent" /\ WellPlaced(j)
         /\ Authorised(journal) \subseteq Authorised(j)
<1>1. WellPlaced(Captured) /\ Authorised(journal) \subseteq Authorised(Captured)
  BY CapturedPlacement
<1>2. Captured.phase = journal.phase
  BY CapturedType DEF IType
<1>3. WellPlaced(j)
  BY <1>1, <1>2 DEF WellPlaced
<1>4. Authorised(Captured) \subseteq Authorised(j)
  BY DEF Authorised
<1> QED
  BY <1>1, <1>3, <1>4

(* Whatever a well placed journal authorises is shared or of one of the     *)
(* types it names.                                                          *)
LEMMA AuthorisedRange ==
  ASSUME NEW j
  PROVE  /\ j.active = None \/ j.active = j.from =>
              Authorised(j) \subseteq SharedChild
                \cup (IF j.from = None THEN {} ELSE Pair(j.from))
                \cup (IF j.to = None THEN {} ELSE Pair(j.to))
         /\ j.from = None /\ j.active = None =>
              Authorised(j) \subseteq
                {k \in SharedChild : k[2] <= j.planned}
                  \cup (IF j.to = None THEN {}
                        ELSE {Integration(j.to)}
                          \cup (IF j.route THEN {Route(j.to)} ELSE {}))
BY DEF Authorised, Pair

(* A turn that returns what it may keeps everything ahead of the children.  *)
LEMMA ReturnAhead ==
  ASSUME AheadInv, IType', journal.phase # "Absent",
         NEW j, NEW d, Return(j, d),
         j.phase # "Absent", WellPlaced(j), d \subseteq Authorised(journal),
         Existing \cup d \subseteq Authorised(j)
  PROVE  AheadInv'
<1>1. plan'.journal = j /\ plan'.desired = d /\ pc' = "collect"
  BY DEF Return
<1>2. UNCHANGED <<journal, mr, refs>>
  BY DEF Return
<1> QED
  BY <1>1, <1>2
     DEF AheadInv, NamedHaveIDs, IdleHasNoPlan, WellPlaced, LegacyGrows,
         Planned, Existing, Exists

LEMMA ReturnGrows ==
  ASSUME AheadInv, IType', journal.phase = "Absent",
         NEW j, NEW d, Return(j, d), WellPlaced(j),
         Existing \subseteq d, d \subseteq LegacyRendered,
         j.phase # "Absent" => d \subseteq Authorised(j)
  PROVE  AheadInv'
<1>1. plan'.journal = j /\ plan'.desired = d /\ pc' = "collect"
  BY DEF Return
<1>2. UNCHANGED <<journal, mr, refs>>
  BY DEF Return
<1>3. LegacyRendered' = LegacyRendered /\ Existing' = Existing
  BY <1>2 DEF LegacyRendered, LegacyShared, LegacyChain, Named, Observed,
              Existing, Exists
<1> QED
  BY <1>1, <1>2, <1>3
     DEF AheadInv, NamedHaveIDs, IdleHasNoPlan, WellPlaced, LegacyGrows, Planned

(* Turns of a journal without a transition, or that start another one.      *)
LEMMA GovernedTurnsAhead ==
  ASSUME AheadInv, IType', journal.phase # "Absent",
         PreserveTurn \/ StableTurn \/ BeginSwitchTurn \/ ReplaceFreshTurn
  PROVE  AheadInv'
<1>1. /\ IType /\ WellPlaced(journal) /\ Existing \subseteq Authorised(journal)
  BY DEF AheadInv, Planned
<1>2. CASE PreserveTurn
  <2>1. Observed \subseteq Existing
    BY <1>1 DEF Observed, Existing, Exists, IType, TypeOK
  <2> QED
    BY <1>1, <1>2, <2>1, ReturnAhead DEF PreserveTurn
<1>3. ASSUME journal.phase = "Stable"
      PROVE  /\ journal.active # None
             /\ Rendered(journal, journal.active) \subseteq Authorised(journal)
  <2>1. journal.active # None
    BY <1>1, <1>3, TypesAreNamed DEF IType, NamesTypes
  <2> QED
    BY <2>1, RenderedParts, AuthorisedParts
<1>4. CASE StableTurn
  BY <1>1, <1>3, <1>4, ReturnAhead DEF StableTurn
<1>5. CASE BeginSwitchTurn
  <2> DEFINE readopted == [journal EXCEPT
           !.state[Selected] = IF @ = None THEN None ELSE "Active",
           !.uid = [k \in PairChild |->
                      IF k \in Pair(Selected) THEN 0 ELSE @[k]]]
             j == Building(readopted, journal.active, Selected, 0)
  <2>1. journal \in Journals /\ journal.phase = "Stable"
    BY <1>1, <1>5 DEF IType, TypeOK, BeginSwitchTurn
  <2>2. readopted.active = journal.active /\ readopted \in Journals
    BY <2>1 DEF Journals
  <2> HIDE DEF readopted
  <2>3. /\ j.phase = "Building" /\ j.active = journal.active
        /\ j.from = journal.active /\ j.incomplete = FALSE
    BY <2>2 DEF Building, Journals
  <2>4. WellPlaced(j)
    BY <1>3, <2>1, <2>3 DEF WellPlaced
  <2>5. Authorised(journal) \subseteq SharedChild \cup Pair(journal.active)
    BY <1>1, <1>3, <2>1 DEF Authorised, WellPlaced
  <2>6. SharedChild \cup Pair(journal.active) \subseteq Authorised(j)
    BY <1>3, <2>1, <2>3, AuthorisedParts
  <2>7. Return(j, Rendered(journal, journal.active))
    BY <1>5 DEF BeginSwitchTurn, readopted
  <2>8. j.phase # "Absent"
    BY <2>3
  <2> HIDE DEF j
  <2> QED
    BY <1>1, <1>3, <2>1, <2>4, <2>5, <2>6, <2>7, <2>8, ReturnAhead
<1>6. CASE ReplaceFreshTurn
  <2> DEFINE j == [Building(journal, journal.to, Selected, journal.planned) EXCEPT
                     !.incomplete = TRUE, !.srcRoute = journal.route]
             d == Rendered(journal, journal.to)
                    \ (IF journal.route THEN {} ELSE {Route(journal.to)})
  <2>1. /\ journal \in Journals /\ journal.from = None
        /\ journal.phase = "Building" /\ journal.active = None
        /\ journal.planned =
             IF journal.bound + 1 <= Stages THEN journal.bound + 1 ELSE Stages
        /\ journal.bound \in Nat
    BY <1>1, <1>6 DEF IType, TypeOK, ReplaceFreshTurn, WellPlaced, Journals
  <2>2. journal.to \in Types /\ journal.to # None
    BY <1>1, <2>1, TypesAreNamed DEF IType, NamesTypes
  <2>3. /\ j.phase = "Building" /\ j.active = None /\ j.from = journal.to
        /\ j.incomplete = TRUE /\ j.srcRoute = journal.route
    BY <2>1 DEF Building, Journals
  <2>4. Return(j, d)
    BY <1>6 DEF ReplaceFreshTurn
  <2>5. WellPlaced(j)
    BY <2>2, <2>3 DEF WellPlaced
  <2>6. d \subseteq Authorised(journal)
    <3>1. RenderedShared(journal) \subseteq Authorised(journal)
      <4>1. \A k \in SharedChild : k[2] \in 1..Stages
        BY DEF SharedChild
      <4>2. RenderedShared(journal) \subseteq {k \in SharedChild : k[2] <= journal.planned}
        BY <2>1, <4>1 DEF RenderedShared
      <4> QED
        BY <4>2, AuthorisedParts
    <3>2. Pair(journal.to) \ (IF journal.route THEN {} ELSE {Route(journal.to)})
            \subseteq Authorised(journal)
      BY <2>2, AuthorisedParts DEF Pair
    <3> QED
      BY <3>1, <3>2, RenderedParts
  <2>7. Authorised(journal) \subseteq Authorised(j)
    <3>1. SharedChild \subseteq Authorised(j)
      BY <2>2, <2>3, AuthorisedParts
    <3>2. Pair(journal.to) \ (IF ~journal.route THEN {Route(journal.to)} ELSE {})
            \subseteq Authorised(j)
      BY <2>2, <2>3, AuthorisedParts
    <3>3. Integration(journal.to) # Route(journal.to)
      BY DEF Integration, Route
    <3>4. Authorised(journal) \subseteq SharedChild \cup {Integration(journal.to)}
            \cup (IF journal.route THEN {Route(journal.to)} ELSE {})
      BY <2>1, <2>2, AuthorisedRange
    <3> HIDE DEF j
    <3> QED
      BY <3>1, <3>2, <3>3, <3>4 DEF Pair
  <2>8. j.phase # "Absent"
    BY <2>3
  <2> HIDE DEF j, d
  <2> QED
    BY <1>1, <2>4, <2>5, <2>6, <2>7, <2>8, ReturnAhead
<1> QED
  BY <1>2, <1>3, <1>4, <1>5, <1>6

(* Turns inside a transition.                                               *)
LEMMA MigratingTurnsAhead ==
  ASSUME AheadInv, IType',
         BuildTurn \/ CancelTurn \/ CancellingTurn \/ PreparedTurn
           \/ RetireRouteTurn \/ RetireIntegrationTurn
  PROVE  AheadInv'
<1>1. /\ journal.phase \notin {"Absent", "Stable"}
      /\ IType /\ WellPlaced(journal)
      /\ Migrates
  BY DEF AheadInv, BuildTurn, CancelTurn, CancellingTurn, PreparedTurn,
         RetireRouteTurn, RetireIntegrationTurn
<1>2. Existing \subseteq Authorised(journal)
  BY <1>1 DEF AheadInv, Planned
<1>3. journal.to \in Types /\ journal.to # None
  BY <1>1, TypesAreNamed DEF IType, NamesTypes
<1>4. MigrationChildren \subseteq Authorised(journal)
  BY <1>1, <1>3, MigrationAuthorised
<1>5. /\ Captured \in Journals /\ journal \in Journals
      /\ Captured.phase = journal.phase /\ Captured.from = journal.from
      /\ Captured.to = journal.to /\ Captured.active = journal.active
  BY <1>1, CapturedType DEF IType, TypeOK
(* A turn that records a decision and returns some of the transition's      *)
(* children.                                                                *)
<1>6. ASSUME NEW j, NEW d, Return(j, d), d \subseteq MigrationChildren,
             j.phase \notin {"Absent", "Stable"},
             \A f \in {"from", "to", "incomplete", "srcRoute", "planned",
                       "active", "bound"} : j[f] = Captured[f],
             Captured.route => j.route
      PROVE  AheadInv'
  <2>1. /\ j.phase # "Absent" /\ WellPlaced(j)
        /\ Authorised(journal) \subseteq Authorised(j)
    BY <1>1, <1>6, DecisionPlacement
  <2> QED
    BY <1>1, <1>2, <1>4, <1>6, <2>1, ReturnAhead
<1>7. CASE BuildTurn
  <2>1. CASE Captured.id[Integration(journal.to)] # 0 /\ ~journal.route
    <3> DEFINE j == [Captured EXCEPT !.route = TRUE]
    <3>1. Return(j, MigrationChildren)
      BY <1>7, <2>1 DEF BuildTurn
    <3>2. /\ j.phase = Captured.phase /\ j.route
          /\ \A f \in {"from", "to", "incomplete", "srcRoute", "planned",
                       "active", "bound"} : j[f] = Captured[f]
      BY <1>5 DEF Journals
    <3> HIDE DEF j
    <3> QED
      BY <1>1, <1>5, <1>6, <3>1, <3>2
  <2>2. CASE /\ ~(Captured.id[Integration(journal.to)] # 0 /\ ~journal.route)
             /\ journal.route /\ Barrier(Captured, journal.to)
             /\ journal.from = None
    <3> DEFINE j == Settled(Captured, journal.to)
    <3>1. Return(j, MigrationChildren)
      BY <1>7, <2>2 DEF BuildTurn
    <3>2. /\ j.phase = "Stable" /\ j.from = None /\ j.to = None
          /\ j.active = journal.to
      BY <1>5 DEF Settled, Journals
    <3> HIDE DEF j
    <3>3. WellPlaced(j) /\ j.phase # "Absent"
      BY <3>2 DEF WellPlaced
    <3>4. Authorised(journal) \subseteq SharedChild \cup Pair(journal.to)
      BY <1>1, <1>3, <2>2, AuthorisedRange DEF WellPlaced, Pair
    <3>5. SharedChild \cup Pair(journal.to) \subseteq Authorised(j)
      BY <1>3, <3>2, AuthorisedParts
    <3> QED
      BY <1>1, <1>2, <1>4, <3>1, <3>3, <3>4, <3>5, ReturnAhead
  <2>3. CASE /\ ~(Captured.id[Integration(journal.to)] # 0 /\ ~journal.route)
             /\ journal.route /\ Barrier(Captured, journal.to)
             /\ journal.from # None
    <3> DEFINE j == [Captured EXCEPT !.phase = "Prepared", !.keep = journal.to,
                                     !.retire = journal.from]
    <3>1. Return(j, MigrationChildren)
      BY <1>7, <2>3 DEF BuildTurn
    <3>2. /\ j.phase = "Prepared" /\ j.route = Captured.route
          /\ \A f \in {"from", "to", "incomplete", "srcRoute", "planned",
                       "active", "bound"} : j[f] = Captured[f]
      BY <1>5 DEF Journals
    <3> HIDE DEF j
    <3> QED
      BY <1>6, <3>1, <3>2
  <2>4. CASE /\ ~(Captured.id[Integration(journal.to)] # 0 /\ ~journal.route)
             /\ ~(journal.route /\ Barrier(Captured, journal.to))
    <3>1. Return(Captured, MigrationChildren)
      BY <1>7, <2>4 DEF BuildTurn
    <3> QED
      BY <1>1, <1>5, <1>6, <3>1
  <2> QED
    BY <2>1, <2>2, <2>3, <2>4
<1>8. CASE CancelTurn
  <2> DEFINE p == IF journal.phase = "Prepared" THEN "RetiringRoute"
                                                ELSE "Cancelling"
             j == [Captured EXCEPT !.disp = "cancellation", !.phase = p]
  <2>1. Return(j, MigrationChildren)
    BY <1>8 DEF CancelTurn
  <2>2. /\ j.phase \in {"RetiringRoute", "Cancelling"} /\ j.route = Captured.route
        /\ \A f \in {"from", "to", "incomplete", "srcRoute", "planned",
                     "active", "bound"} : j[f] = Captured[f]
    BY <1>5 DEF Journals
  <2> HIDE DEF j
  <2> QED
    BY <1>6, <2>1, <2>2
<1>9. CASE CancellingTurn
  <2> DEFINE j == [Captured EXCEPT !.phase = "Prepared", !.keep = journal.from,
                                   !.retire = journal.to]
  <2>1. Return(j, MigrationChildren) \/ Return(Captured, MigrationChildren)
    BY <1>9 DEF CancellingTurn
  <2>2. /\ j.phase = "Prepared" /\ j.route = Captured.route
        /\ \A f \in {"from", "to", "incomplete", "srcRoute", "planned",
                     "active", "bound"} : j[f] = Captured[f]
    BY <1>5 DEF Journals
  <2> HIDE DEF j
  <2> QED
    BY <1>1, <1>5, <1>6, <2>1, <2>2
<1>10. CASE PreparedTurn
  <2> DEFINE j == [Captured EXCEPT !.phase = "RetiringRoute"]
  <2>1. Return(j, MigrationChildren)
    BY <1>10 DEF PreparedTurn
  <2>2. /\ j.phase = "RetiringRoute" /\ j.route = Captured.route
        /\ \A f \in {"from", "to", "incomplete", "srcRoute", "planned",
                     "active", "bound"} : j[f] = Captured[f]
    BY <1>5 DEF Journals
  <2> HIDE DEF j
  <2> QED
    BY <1>6, <2>1, <2>2
<1>11. CASE RetireRouteTurn
  <2> DEFINE j == [Captured EXCEPT !.phase = "RetiringIntegration"]
             d == MigrationChildren \ {Route(journal.retire)}
  <2>1. Return(j, d) \/ Return(Captured, d)
    BY <1>11 DEF RetireRouteTurn
  <2>2. /\ j.phase = "RetiringIntegration" /\ j.route = Captured.route
        /\ \A f \in {"from", "to", "incomplete", "srcRoute", "planned",
                     "active", "bound"} : j[f] = Captured[f]
    BY <1>5 DEF Journals
  <2>3. d \subseteq MigrationChildren
    OBVIOUS
  <2> HIDE DEF j, d
  <2> QED
    BY <1>1, <1>5, <1>6, <2>1, <2>2, <2>3
<1>12. CASE RetireIntegrationTurn
  <2> DEFINE j == Settled([Captured EXCEPT !.state[journal.retire] = "Retired"],
                          journal.keep)
             d == MigrationChildren \ Pair(journal.retire)
  <2>0. d \subseteq MigrationChildren
    OBVIOUS
  <2>1. CASE \A k \in Pair(journal.retire) : NamedAbsent(k)
    <3>1. Return(j, d)
      BY <1>12, <2>1 DEF RetireIntegrationTurn
    <3>2. [Captured EXCEPT !.state[journal.retire] = "Retired"] \in Journals
      BY <1>5 DEF Journals
    <3>3. /\ j.phase = "Stable" /\ j.from = None /\ j.to = None
          /\ j.active = journal.keep
      BY <3>2 DEF Settled, Journals
    <3>4. WellPlaced(j) /\ j.phase # "Absent"
      BY <3>3 DEF WellPlaced
    <3>5. /\ journal.keep # None
          /\ {journal.keep, journal.retire} = {journal.from, journal.to}
      <4>1. /\ journal.keep = KeepByDisposition(journal)
            /\ journal.retire = RetireByDisposition(journal)
            /\ journal.keep # None
        BY <1>1, <1>12 DEF RetireIntegrationTurn, Migrates, Proceeds, Decodes,
                           Committed
      <4> QED
        BY <4>1 DEF KeepByDisposition, RetireByDisposition
    <3>6. journal.from # None
      BY <1>1, <1>12, TypesAreNamed DEF IType, NamesTypes, RetireIntegrationTurn
    <3>7. Authorised(journal) \subseteq
            SharedChild \cup Pair(journal.from) \cup Pair(journal.to)
      <4>1. journal.active \in {None, journal.from}
        BY <1>1, <3>6 DEF WellPlaced
      <4> QED
        BY <1>3, <3>6, <4>1, AuthorisedRange
    <3>8. Existing \cap Pair(journal.retire) = {}
      BY <2>1 DEF Existing, Exists, NamedAbsent
    <3>9. SharedChild \cup Pair(journal.keep) \subseteq Authorised(j)
      BY <3>3, <3>5, AuthorisedParts
    <3> DEFINE A == Pair(journal.from)
               B == Pair(journal.to)
               K == Pair(journal.keep)
               R == Pair(journal.retire)
    <3>10. (A = K /\ B = R) \/ (A = R /\ B = K)
      BY <3>5
    <3>11. Existing \cup d \subseteq SharedChild \cup K
      <4>1. Existing \subseteq SharedChild \cup A \cup B
        BY <1>2, <3>7
      <4>2. MigrationChildren \subseteq SharedChild \cup A \cup B
        BY <1>4, <3>7
      <4>3. Existing \cap R = {} /\ d = MigrationChildren \ R
        BY <3>8
      <4> HIDE DEF A, B, K, R, d
      <4> QED
        BY <3>10, <4>1, <4>2, <4>3
    <3> HIDE DEF j
    <3> QED
      BY <1>1, <1>4, <2>0, <3>1, <3>4, <3>9, <3>11, ReturnAhead
  <2>2. CASE ~ \A k \in Pair(journal.retire) : NamedAbsent(k)
    <3>1. Return(Captured, d)
      BY <1>12, <2>2 DEF RetireIntegrationTurn
    <3> HIDE DEF d
    <3> QED
      BY <1>1, <1>5, <1>6, <2>0, <3>1
  <2> QED
    BY <2>1, <2>2
<1> QED
  BY <1>7, <1>8, <1>9, <1>10, <1>11, <1>12

(* Turns without a journal.                                                 *)
LEMMA BootstrapRenders ==
  ASSUME IType, NamedHaveIDs, BootstrapTurn, WellPlaced(NoJournal)
  PROVE  /\ Rendered(Predecessor, InboundEmail) = LegacyRendered
         /\ LegacyRendered = SharedChild \cup Pair(InboundEmail)
<1>1. /\ Route(InboundEmail) \in LegacyRendered
      /\ \A k \in LegacyRendered : Current(k)
  BY DEF BootstrapTurn
<1>2. /\ Route(InboundEmail) \notin SharedChild
      /\ Integration(InboundEmail) # Route(InboundEmail)
      /\ Integration(InboundEmail) \in PairChild
  BY ChildrenOfAType DEF SharedChild, Route, Integration, Types
<1>3. LegacyChain
  BY <1>1, <1>2 DEF LegacyRendered, LegacyShared
<1>4. LegacyShared = SharedChild
  <2>1. \A k \in SharedChild : \A i \in 1..Stages : i < k[2] => i \in 1..(Stages - 1)
    BY DEF SharedChild
  <2> QED
    BY <1>3, <2>1 DEF LegacyShared, LegacyChain
<1>5. LegacyRendered = SharedChild \cup Pair(InboundEmail)
  BY <1>1, <1>2, <1>3, <1>4 DEF LegacyRendered, Pair
<1>6. Integration(InboundEmail) \in Child /\ Current(Integration(InboundEmail))
  BY <1>1, <1>2, <1>5, PairsAreChildren DEF Pair
<1>7. /\ Integration(InboundEmail) \in Pair(InboundEmail) \cap Observed
      /\ mr[Integration(InboundEmail)].id # 0
  BY <1>6 DEF Current, NamedHaveIDs, Pair
<1>8. /\ [NoJournal EXCEPT !.bound = Stages] \in Journals
      /\ [NoJournal EXCEPT !.bound = Stages].bound = Stages
  BY NoJournalType, StageBounds DEF WellFormed, Journals
<1>9. /\ Predecessor.bound = Stages
      /\ Predecessor.id[Integration(InboundEmail)]
           = mr[Integration(InboundEmail)].id
  <2> DEFINE j0 == [NoJournal EXCEPT !.bound = Stages]
  <2>1. Predecessor = Capture(j0, InboundEmail)
    BY DEF Predecessor
  <2> HIDE DEF j0
  <2>2. Capture(j0, InboundEmail).bound = Stages
    BY <1>8, CaptureType DEF IType, j0
  <2>3. Capture(j0, InboundEmail).id[Integration(InboundEmail)]
          = mr[Integration(InboundEmail)].id
    BY <1>2, <1>7, <1>8 DEF Capture, Journals, j0
  <2> QED
    BY <2>1, <2>2, <2>3
<1>10. RenderedShared(Predecessor) = SharedChild
  BY <1>9 DEF RenderedShared, SharedChild
<1> QED
  BY <1>5, <1>7, <1>9, <1>10 DEF Rendered, Pair

LEMMA UngovernedTurnsAhead ==
  ASSUME AheadInv, IType', journal.phase = "Absent",
         LegacyTurn \/ FreshTurn \/ BootstrapTurn \/ PreserveTurn
  PROVE  AheadInv'
<1>1. /\ IType /\ WellPlaced(journal)
      /\ Existing \subseteq refs /\ Existing \subseteq LegacyRendered
  BY DEF AheadInv, LegacyGrows
<1>2. Observed = Existing
  BY <1>1 DEF Observed, Existing, Exists, IType, TypeOK
<1>3. WellPlaced(NoJournal) /\ NoJournal \in Journals
  BY NoJournalType DEF WellPlaced, NoJournal, WellFormed
<1>4. CASE LegacyTurn
  <2> DEFINE d == IF admitted THEN LegacyRendered
                              ELSE LegacyRendered \cap Observed
  <2>1. Return(journal, d)
    BY <1>4 DEF LegacyTurn
  <2>2. Existing \subseteq d /\ d \subseteq LegacyRendered
    BY <1>1, <1>2
  <2> HIDE DEF d
  <2> QED
    BY <1>1, <2>1, <2>2, ReturnGrows
<1>5. CASE FreshTurn
  <2> DEFINE j == Building(NoJournal, None, Selected, 1)
  <2>1. Return(j, {}) /\ Existing = {}
    BY <1>2, <1>5 DEF FreshTurn
  <2>2. /\ NoJournal.active = None /\ NoJournal.bound = 0
    BY DEF NoJournal
  <2>3. /\ j.phase = "Building" /\ j.from = None /\ j.planned = 1
        /\ j.active = None /\ j.bound = 0
    BY <1>3, <2>2 DEF Building, Journals
  <2>4. WellPlaced(j)
    BY <2>3 DEF WellPlaced
  <2> HIDE DEF j
  <2> QED
    BY <2>1, <2>4, ReturnGrows
<1>6. CASE BootstrapTurn
  <2> DEFINE s == Settled(Predecessor, InboundEmail)
             b == Building(s, InboundEmail, Selected, 0)
  <2>1. /\ Rendered(Predecessor, InboundEmail) = LegacyRendered
        /\ LegacyRendered = SharedChild \cup Pair(InboundEmail)
    BY <1>1, <1>3, <1>6, BootstrapRenders DEF AheadInv
  <2>2. InboundEmail \in Types /\ InboundEmail # None
    BY TypesAreNamed DEF Types
  <2>3. [NoJournal EXCEPT !.bound = Stages] \in Journals
    BY <1>3, StageBounds DEF Journals
  <2>4. Predecessor \in Journals
    BY <1>1, <2>3, CaptureType DEF Predecessor, IType
  <2>5. /\ s \in Journals /\ s.phase = "Stable" /\ s.from = None
        /\ s.to = None /\ s.active = InboundEmail
    BY <2>2, <2>4, SettledType DEF Settled, Journals, WellFormed
  <2>6. /\ b.phase = "Building" /\ b.from = InboundEmail
        /\ b.active = InboundEmail
    BY <2>5 DEF Building, Journals
  <2>7. Return(s, LegacyRendered) \/ Return(b, LegacyRendered)
    BY <1>6, <2>1 DEF BootstrapTurn
  <2> HIDE DEF s, b
  <2>8. WellPlaced(s) /\ WellPlaced(b)
    BY <2>2, <2>5, <2>6 DEF WellPlaced
  <2>9. LegacyRendered \subseteq Authorised(s) \cap Authorised(b)
    BY <2>1, <2>2, <2>5, <2>6, AuthorisedParts
  <2> QED
    BY <1>1, <2>7, <2>8, <2>9, ReturnGrows
<1>7. CASE PreserveTurn
  BY <1>1, <1>2, <1>7, ReturnGrows DEF PreserveTurn
<1> QED
  BY <1>4, <1>5, <1>6, <1>7

LEMMA TurnAhead ==
  ASSUME AheadInv, IType', Turn
  PROVE  AheadInv'
<1>1. CASE journal.phase = "Absent"
  <2>1. LegacyTurn \/ FreshTurn \/ BootstrapTurn \/ PreserveTurn
    BY <1>1 DEF Turn, StableTurn, BeginSwitchTurn, BuildTurn, ReplaceFreshTurn,
           CancelTurn, CancellingTurn, PreparedTurn, RetireRouteTurn,
           RetireIntegrationTurn
  <2> QED
    BY <1>1, <2>1, UngovernedTurnsAhead
<1>2. CASE journal.phase # "Absent"
  <2>1. ~LegacyTurn /\ ~FreshTurn /\ ~BootstrapTurn
    BY <1>2 DEF LegacyTurn, Governed, FreshTurn, BootstrapTurn
  <2> QED
    BY <1>2, <2>1, GovernedTurnsAhead, MigratingTurnsAhead DEF Turn
<1> QED
  BY <1>1, <1>2

(* The legacy graph only grows with what has a name, and the recorded       *)
(* references of a graph that is all referenced do not change it.           *)
LEMMA LegacyMonotone ==
  ASSUME \A k : Named(k) => Named(k)'
  PROVE  LegacyRendered \subseteq LegacyRendered'
<1>1. LegacyChain => LegacyChain'
  BY DEF LegacyChain
<1>2. LegacyShared \subseteq LegacyShared'
  BY DEF LegacyShared
<1> QED
  BY <1>1, <1>2 DEF LegacyRendered

(* Crossplane's steps create nothing but what the plan desires.             *)
LEMMA ApplyAhead ==
  ASSUME AheadInv, IType', Apply
  PROVE  AheadInv'
<1>1. /\ TypeOK /\ NamedHaveIDs
      /\ WellPlaced(journal) /\ WellPlaced(plan.journal)
      /\ LegacyGrows /\ Planned
  BY DEF AheadInv, IType
<1>k. \A k \in Child : mr[k] \in ManagedResources
  BY <1>1 DEF TypeOK
<1>2. ASSUME NEW k \in Child, CollectGarbage(k)
      PROVE  AheadInv'
  <2>1. /\ k \in Existing /\ k \notin plan.desired /\ pc = "collect"
        /\ UNCHANGED <<journal, refs, pc, plan>>
    BY <1>2 DEF CollectGarbage, Doomed, Observed, Existing, Exists
  <2>2. journal.phase # "Absent"
    BY <1>1, <2>1 DEF LegacyGrows
  <2>3. \A c \in Child : mr'[c].st = mr[c].st /\ mr'[c].id = mr[c].id
    BY <1>1, <1>2, <1>k DEF CollectGarbage, TypeOK, ManagedResources
  <2>4. Existing' = Existing /\ NamedHaveIDs'
    BY <1>1, <2>3 DEF Existing, Exists, NamedHaveIDs
  <2> QED
    BY <1>1, <2>1, <2>2, <2>4
       DEF AheadInv, IdleHasNoPlan, WellPlaced, LegacyGrows, Planned
<1>3. CASE RecordReferences
  <2>1. /\ refs' = plan.desired /\ pc' = "create" /\ pc = "collect"
        /\ UNCHANGED <<journal, mr, plan>>
    BY <1>3 DEF RecordReferences
  <2>2. Existing' = Existing /\ NamedHaveIDs'
    BY <1>1, <2>1 DEF Existing, Exists, NamedHaveIDs
  <2>3. ASSUME journal.phase = "Absent"
        PROVE  LegacyRendered \subseteq LegacyRendered'
    <3>1. Existing \subseteq plan.desired
      BY <1>1, <2>1, <2>3 DEF LegacyGrows
    <3>2. Observed \subseteq Existing
      BY <1>1 DEF Observed, Existing, Exists, TypeOK
    <3>3. \A k : Named(k) => Named(k)'
      BY <2>1, <3>1, <3>2 DEF Named, Observed, Existing, Exists
    <3> QED
      BY <3>3, LegacyMonotone
  <2>4. LegacyGrows'
    BY <1>1, <2>1, <2>2, <2>3 DEF LegacyGrows
  <2> QED
    BY <1>1, <2>1, <2>2, <2>4
       DEF AheadInv, IdleHasNoPlan, WellPlaced, Planned
<1>4. ASSUME NEW k \in Child, Create(k)
      PROVE  AheadInv'
  <2>1. /\ k \in plan.desired /\ mr[k].st = "absent" /\ pc = "create"
        /\ UNCHANGED <<journal, refs, pc, plan>>
    BY <1>4 DEF Create, Missing
  <2>2. \A c \in Child : c # k => mr'[c] = mr[c]
    BY <1>1, <1>4 DEF Create, TypeOK
  <2>3. /\ mr'[k].dying = mr[k].dying
        /\ mr'[k].st = "named" => mr'[k].id # 0
        /\ mr'[k].st \in {"named", "unnamed"}
    BY <1>1, <1>4, <1>k DEF Create, TypeOK, ManagedResources
  <2>4. Existing' = Existing \cup {k}
    BY <2>2, <2>3 DEF Existing, Exists
  <2>5. NamedHaveIDs'
    BY <1>1, <2>2, <2>3 DEF NamedHaveIDs
  <2>6. LegacyRendered \subseteq LegacyRendered'
    <3>1. Observed \subseteq Child
      BY <1>1 DEF Observed, TypeOK
    <3>2. \A c : Named(c) => Named(c)'
      BY <2>1, <2>2, <3>1 DEF Named, Observed
    <3> QED
      BY <3>2, LegacyMonotone
  <2>7. LegacyGrows'
    BY <1>1, <2>1, <2>2, <2>3, <2>4, <2>6 DEF LegacyGrows
  <2>8. Planned'
    BY <1>1, <2>1, <2>4 DEF Planned
  <2> QED
    BY <1>1, <2>1, <2>5, <2>7, <2>8 DEF AheadInv, IdleHasNoPlan, WellPlaced
<1>5. CASE PersistStatus
  <2>1. /\ journal' = plan.journal /\ pc' = "idle" /\ plan' = NoPlan
        /\ pc = "create" /\ UNCHANGED <<mr, refs>>
    BY <1>5 DEF PersistStatus
  <2>2. /\ Existing' = Existing /\ NamedHaveIDs'
        /\ LegacyRendered' = LegacyRendered
    BY <1>1, <2>1 DEF Existing, Exists, NamedHaveIDs, LegacyRendered,
                      LegacyShared, LegacyChain, Named, Observed
  <2>3. WellPlaced(NoPlan.journal)
    BY DEF WellPlaced, NoPlan, NoJournal
  <2>4. LegacyGrows'
    BY <1>1, <2>1, <2>2 DEF LegacyGrows, Planned
  <2>5. Planned'
    BY <1>1, <2>1, <2>2 DEF LegacyGrows, Planned
  <2> QED
    BY <1>1, <2>1, <2>2, <2>3, <2>4, <2>5 DEF AheadInv, IdleHasNoPlan, WellPlaced
<1> QED
  BY <1>2, <1>3, <1>4, <1>5 DEF Apply

(* The environment deletes nothing the plan or the journal relies on, and   *)
(* a crash only forgets the plan.                                           *)
LEMMA EnvironmentAhead ==
  ASSUME AheadInv, IType', Environment
  PROVE  AheadInv'
<1>1. /\ TypeOK /\ NamedHaveIDs /\ IdleHasNoPlan
      /\ WellPlaced(journal) /\ WellPlaced(plan.journal)
      /\ LegacyGrows /\ Planned
  BY DEF AheadInv, IType
<1>k. \A k \in Child : mr[k] \in ManagedResources
  BY <1>1 DEF TypeOK
<1>o. Observed \subseteq Child
  BY <1>1 DEF Observed, TypeOK
(* A step of one child that neither dies nor loses its name.                *)
<1>2. ASSUME NEW k \in Child, UNCHANGED <<journal, refs, pc, plan>>,
             \A c \in Child : c # k => mr'[c] = mr[c],
             mr'[k].st # "absent", mr[k].st # "absent",
             mr'[k].dying = mr[k].dying,
             mr'[k].st \in {"named", "current"}, mr'[k].id # 0
      PROVE  AheadInv'
  <2>1. Existing' = Existing
    BY <1>2 DEF Existing, Exists
  <2>2. NamedHaveIDs'
    BY <1>1, <1>2 DEF NamedHaveIDs
  <2>3. \A c : Named(c) => Named(c)'
    BY <1>2, <1>o DEF Named, Observed
  <2>4. LegacyRendered \subseteq LegacyRendered'
    BY <2>3, LegacyMonotone
  <2>5. LegacyGrows' /\ Planned'
    BY <1>1, <1>2, <2>1, <2>4 DEF LegacyGrows, Planned
  <2> QED
    BY <1>1, <1>2, <2>2, <2>5 DEF AheadInv, IdleHasNoPlan, WellPlaced
<1>3. ASSUME NEW k \in Child, AssignExternalName(k)
      PROVE  AheadInv'
  <2>1. mr[k].made + 1 # 0
    BY <1>k DEF ManagedResources
  <2> QED
    BY <1>1, <1>2, <1>3, <1>k, <2>1
       DEF AssignExternalName, ProviderVars, TypeOK, ManagedResources
<1>4. ASSUME NEW k \in Child, BecomeCurrent(k) \/ LoseCurrent(k)
      PROVE  AheadInv'
  <2>1. mr[k].id # 0
    BY <1>1, <1>4 DEF NamedHaveIDs, BecomeCurrent, LoseCurrent
  <2>2. /\ \A c \in Child : c # k => mr'[c] = mr[c]
        /\ mr'[k].id = mr[k].id /\ mr'[k].dying = mr[k].dying
        /\ mr'[k].st \in {"named", "current"} /\ mr[k].st # "absent"
        /\ UNCHANGED <<journal, refs, pc, plan>>
    BY <1>1, <1>4, <1>k
       DEF BecomeCurrent, LoseCurrent, ProviderVars, TypeOK, ManagedResources
  <2> QED
    BY <1>2, <2>1, <2>2
<1>5. ASSUME NEW k \in Child, Finalise(k)
      PROVE  AheadInv'
  <2>1. /\ mr[k].dying /\ UNCHANGED <<journal, refs, pc, plan>>
        /\ \A c \in Child : c # k => mr'[c] = mr[c]
        /\ mr'[k].st = "absent"
    BY <1>1, <1>5, <1>k DEF Finalise, ProviderVars, TypeOK, ManagedResources
  <2>2. journal.phase # "Absent"
    BY <1>1, <2>1 DEF LegacyGrows
  <2>3. Existing' \subseteq Existing
    BY <2>1 DEF Existing, Exists
  <2>4. NamedHaveIDs'
    BY <1>1, <2>1 DEF NamedHaveIDs
  <2>5. LegacyGrows' /\ Planned'
    BY <1>1, <2>1, <2>2, <2>3 DEF LegacyGrows, Planned
  <2> QED
    BY <1>1, <2>1, <2>4, <2>5 DEF AheadInv, IdleHasNoPlan, WellPlaced
<1>6. CASE OpenAdmission \/ CloseAdmission
             \/ \E s \in Types \cup {None} : EditSelection(s)
  <2>1. UNCHANGED <<journal, mr, refs, pc, plan>>
    BY <1>6 DEF OpenAdmission, CloseAdmission, EditSelection
  <2>2. /\ Existing' = Existing /\ NamedHaveIDs'
        /\ LegacyRendered' = LegacyRendered
    BY <1>1, <2>1 DEF Existing, Exists, NamedHaveIDs, LegacyRendered,
                      LegacyShared, LegacyChain, Named, Observed
  <2>3. LegacyGrows' /\ Planned'
    BY <1>1, <2>1, <2>2 DEF LegacyGrows, Planned
  <2> QED
    BY <1>1, <2>1, <2>2, <2>3 DEF AheadInv, IdleHasNoPlan, WellPlaced
<1>7. CASE Crash
  <2>1. /\ pc' = "idle" /\ plan' = NoPlan /\ UNCHANGED <<journal, mr, refs>>
    BY <1>7 DEF Crash
  <2>2. /\ Existing' = Existing /\ NamedHaveIDs'
        /\ LegacyRendered' = LegacyRendered
    BY <1>1, <2>1 DEF Existing, Exists, NamedHaveIDs, LegacyRendered,
                      LegacyShared, LegacyChain, Named, Observed
  <2>3. WellPlaced(NoPlan.journal)
    BY DEF WellPlaced, NoPlan, NoJournal
  <2>4. LegacyGrows' /\ Planned'
    BY <1>1, <2>1, <2>2 DEF LegacyGrows, Planned
  <2> QED
    BY <1>1, <2>1, <2>2, <2>3, <2>4 DEF AheadInv, IdleHasNoPlan, WellPlaced
<1> QED
  BY <1>3, <1>4, <1>5, <1>6, <1>7 DEF Environment, Provider

LEMMA AheadInductive == AheadInv /\ [Next]_vars => AheadInv'
<1> SUFFICES ASSUME AheadInv, [Next]_vars
             PROVE  AheadInv'
  OBVIOUS
<1>1. IType'
  BY NextType DEF AheadInv
<1>2. CASE Next
  BY <1>1, <1>2, TurnAhead, ApplyAhead, EnvironmentAhead DEF Next
<1>3. CASE UNCHANGED vars
  <2>1. UNCHANGED <<journal, mr, refs, pc, plan>>
    BY <1>3 DEF vars
  <2>2. /\ Existing' = Existing /\ LegacyRendered' = LegacyRendered
    BY <2>1 DEF Existing, Exists, LegacyRendered, LegacyShared, LegacyChain,
                Named, Observed
  <2> QED
    BY <1>1, <2>1, <2>2
       DEF AheadInv, NamedHaveIDs, IdleHasNoPlan, WellPlaced, LegacyGrows, Planned
<1> QED
  BY <1>2, <1>3

LEMMA AheadInitial == Init => AheadInv
<1> SUFFICES ASSUME Init
             PROVE  AheadInv
  OBVIOUS
<1>1. IType
  BY InitType
<1>2. Existing = {}
  BY DEF Init, Existing, Exists, AbsentMR
<1>3. \A k \in Child : mr[k].st = "absent" /\ ~mr[k].dying
  BY DEF Init, AbsentMR
<1>4. WellPlaced(NoJournal) /\ NoJournal.phase = "Absent"
  BY DEF WellPlaced, NoJournal
<1>5. /\ journal = NoJournal /\ plan = NoPlan /\ pc = "idle"
      /\ plan.journal = NoJournal
  BY DEF Init, NoPlan
<1> QED
  BY <1>1, <1>2, <1>3, <1>4, <1>5
     DEF AheadInv, NamedHaveIDs, IdleHasNoPlan, LegacyGrows, Planned

(* Whatever crashes, edits and closures of the gate come between, a child   *)
(* of a governed composite exists only if the persisted journal planned it. *)
THEOREM JournalAhead == Spec => []WriteAhead
<1>1. AheadInv => WriteAhead
  BY DEF AheadInv, Planned, WriteAhead, Existing
<1> QED
  BY <1>1, AheadInitial, AheadInductive, PTL DEF Spec
-----------------------------------------------------------------------------
(* Withdrawal is authorised by the journal read back.  Beside the journal   *)
(* being ahead of the children, the argument needs what a journal says of   *)
(* its own progress: identities are inventoried only once the chain is      *)
(* bound, a stable type and a planned Route have one, and the shared        *)
(* children that exist are those up to one past the last bound.             *)

Progressed(j) ==
  /\ \A t \in Types : j.id[Integration(t)] # 0 => j.bound + 1 >= Stages
  /\ j.phase = "Stable" => j.id[Integration(j.active)] # 0
  /\ j.phase \notin {"Absent", "Stable"} =>
       /\ j.from # j.to
       /\ j.incomplete => j.active = None
       /\ j.route => j.id[Integration(j.to)] # 0

SharedWithin(S, j) == \A k \in S \cap SharedChild : k[2] <= j.bound + 1

ChainInOrder ==
  /\ journal.phase # "Absent" =>
       /\ SharedWithin(Existing, journal)
       /\ pc # "idle" => /\ SharedWithin(plan.desired, journal)
                         /\ journal.bound <= plan.journal.bound
  /\ journal.phase = "Absent" /\ pc # "idle" /\ plan.journal.phase # "Absent" =>
       SharedWithin(plan.desired, plan.journal)

Excused(k) ==
  \/ RetirementAuthorised(k)
  \/ /\ journal.from = None /\ k = Integration(journal.to)
     /\ journal.bound + 1 < Stages

WithdrawalInv ==
  /\ AheadInv
  /\ Progressed(journal) /\ Progressed(plan.journal)
  /\ ChainInOrder
  /\ journal.phase # "Absent" /\ pc = "collect" => \A k \in Doomed : Excused(k)

LEMMA NoJournalProgressed == Progressed(NoJournal)
<1>1. \A t \in Types : NoJournal.id[Integration(t)] = 0
  BY ChildrenOfAType DEF NoJournal
<1>2. NoJournal.phase = "Absent"
  BY DEF NoJournal
<1> QED
  BY <1>1, <1>2 DEF Progressed

(* A turn with a journal: what it returns and what it leaves to collect.    *)
LEMMA ReturnExcused ==
  ASSUME WithdrawalInv, AheadInv', journal.phase # "Absent",
         NEW j, NEW d, Return(j, d), Progressed(j),
         SharedWithin(d, journal), journal.bound <= j.bound,
         \A k \in (Observed \cap Existing) \ d : Excused(k)
  PROVE  WithdrawalInv'
<1>1. plan'.journal = j /\ plan'.desired = d /\ pc' = "collect"
  BY DEF Return
<1>2. UNCHANGED <<journal, mr, refs>>
  BY DEF Return
<1>3. Progressed(journal)' /\ Progressed(plan.journal)'
  BY <1>1, <1>2 DEF WithdrawalInv, Progressed
<1>4. ChainInOrder'
  BY <1>1, <1>2 DEF WithdrawalInv, ChainInOrder, SharedWithin, Existing, Exists
<1>5. \A k \in Doomed' : k \in (Observed \cap Existing) \ d
  <2>1. \A k \in Observed : k \in Existing
    BY DEF WithdrawalInv, AheadInv, IType, TypeOK, Observed, Existing, Exists
  <2> QED
    BY <1>1, <1>2, <2>1 DEF Doomed, Observed
<1>6. \A k : Excused(k) => Excused(k)'
  BY <1>2 DEF Excused, RetirementAuthorised, Committed
<1> QED
  BY <1>3, <1>4, <1>5, <1>6 DEF WithdrawalInv

LEMMA ReturnUngoverned ==
  ASSUME WithdrawalInv, AheadInv', journal.phase = "Absent",
         NEW j, NEW d, Return(j, d), Progressed(j),
         j.phase # "Absent" => SharedWithin(d, j)
  PROVE  WithdrawalInv'
<1>1. plan'.journal = j /\ plan'.desired = d /\ pc' = "collect"
  BY DEF Return
<1>2. UNCHANGED <<journal, mr, refs>>
  BY DEF Return
<1>3. Progressed(journal)' /\ Progressed(plan.journal)'
  BY <1>1, <1>2 DEF WithdrawalInv, Progressed
<1>4. ChainInOrder'
  BY <1>1, <1>2 DEF ChainInOrder, SharedWithin
<1> QED
  BY <1>2, <1>3, <1>4 DEF WithdrawalInv

(* What is observed of a stable type is what it renders.                    *)
LEMMA StableRendersAll ==
  ASSUME WithdrawalInv, journal.phase = "Stable"
  PROVE  /\ Existing \subseteq Rendered(journal, journal.active)
         /\ SharedWithin(Rendered(journal, journal.active), journal)
<1>1. /\ journal.active \in Types /\ journal.from = None /\ journal.to = None
      /\ journal.active # None
      /\ Existing \subseteq Authorised(journal)
      /\ SharedWithin(Existing, journal)
      /\ journal.id[Integration(journal.active)] # 0
      /\ journal.bound + 1 >= Stages
  BY TypesAreNamed DEF WithdrawalInv, AheadInv, IType, NamesTypes, WellPlaced,
     Planned, ChainInOrder, Progressed
<1>2. Existing \subseteq SharedChild \cup Pair(journal.active)
  BY <1>1 DEF Authorised
<1>3. Pair(journal.active) \subseteq Rendered(journal, journal.active)
  BY <1>1 DEF Rendered, Pair
<1>4. Existing \cap SharedChild \subseteq RenderedShared(journal)
  BY <1>1 DEF SharedWithin, RenderedShared
<1>5. Rendered(journal, journal.active) \cap SharedChild \subseteq RenderedShared(journal)
  BY DEF Rendered, SharedChild, Integration, Route
<1> QED
  BY <1>2, <1>3, <1>4, <1>5 DEF Rendered, SharedWithin, RenderedShared

LEMMA GovernedTurnsExcused ==
  ASSUME WithdrawalInv, AheadInv', journal.phase # "Absent",
         PreserveTurn \/ StableTurn \/ BeginSwitchTurn \/ ReplaceFreshTurn
  PROVE  WithdrawalInv'
<1>1. /\ IType /\ WellPlaced(journal) /\ Existing \subseteq Authorised(journal)
      /\ Progressed(journal) /\ SharedWithin(Existing, journal)
      /\ journal \in Journals /\ journal.bound \in Nat
  BY DEF WithdrawalInv, AheadInv, Planned, ChainInOrder, IType, TypeOK, Journals
<1>2. CASE PreserveTurn
  <2>1. Observed \subseteq Existing
    BY <1>1 DEF Observed, Existing, Exists, IType, TypeOK
  <2>2. SharedWithin(Observed, journal)
    BY <1>1, <2>1 DEF SharedWithin
  <2>3. Return(journal, Observed)
    BY <1>2 DEF PreserveTurn
  <2> QED
    BY <1>1, <2>2, <2>3, ReturnExcused
<1>3. CASE StableTurn
  <2>1. /\ journal.phase = "Stable"
        /\ Return(journal, Rendered(journal, journal.active))
    BY <1>3 DEF StableTurn
  <2> QED
    BY <1>1, <2>1, StableRendersAll, ReturnExcused
<1>4. CASE BeginSwitchTurn
  <2> DEFINE readopted == [journal EXCEPT
           !.state[Selected] = IF @ = None THEN None ELSE "Active",
           !.uid = [k \in PairChild |->
                      IF k \in Pair(Selected) THEN 0 ELSE @[k]]]
             j == Building(readopted, journal.active, Selected, 0)
  <2>1. /\ readopted.id = journal.id /\ readopted.bound = journal.bound
        /\ readopted \in Journals
    BY <1>1 DEF Journals
  <2> HIDE DEF readopted
  <2>2. /\ j.phase = "Building" /\ j.from = journal.active /\ j.to = Selected
        /\ j.incomplete = FALSE /\ j.route = FALSE
        /\ j.id = journal.id /\ j.bound = journal.bound
    BY <2>1 DEF Building, Journals
  <2>3. journal.phase = "Stable" /\ Selected # journal.active
    BY <1>4 DEF BeginSwitchTurn
  <2>4. Return(j, Rendered(journal, journal.active))
    BY <1>4 DEF BeginSwitchTurn, readopted
  <2> HIDE DEF j
  <2>5. Progressed(j)
    BY <1>1, <2>2, <2>3 DEF Progressed
  <2> QED
    BY <1>1, <2>2, <2>3, <2>4, <2>5, StableRendersAll, ReturnExcused
<1>5. CASE ReplaceFreshTurn
  <2> DEFINE j == [Building(journal, journal.to, Selected, journal.planned) EXCEPT
                     !.incomplete = TRUE, !.srcRoute = journal.route]
             d == Rendered(journal, journal.to)
                    \ (IF journal.route THEN {} ELSE {Route(journal.to)})
  <2>1. /\ journal.phase = "Building" /\ journal.from = None
        /\ journal.active = None /\ Selected # journal.to
    BY <1>1, <1>5 DEF ReplaceFreshTurn, WellPlaced, Withdrawn
  <2>2. journal.to \in Types /\ journal.to # None
    BY <1>1, <2>1, TypesAreNamed DEF IType, NamesTypes
  <2>3. /\ j.phase = "Building" /\ j.from = journal.to /\ j.to = Selected
        /\ j.active = None /\ j.route = FALSE
        /\ j.id = journal.id /\ j.bound = journal.bound
    BY <1>1, <2>1 DEF Building, Journals
  <2>4. Return(j, d)
    BY <1>5 DEF ReplaceFreshTurn
  <2>5. Progressed(j)
    BY <1>1, <2>1, <2>3 DEF Progressed
  <2>6. SharedWithin(d, journal)
    BY DEF SharedWithin, Rendered, RenderedShared, SharedChild, Integration, Route
  <2>7. ASSUME NEW k \in Existing \ d
        PROVE  Excused(k)
    <3>1. k \in {c \in SharedChild : c[2] <= journal.planned}
             \cup {Integration(journal.to)}
             \cup (IF journal.route THEN {Route(journal.to)} ELSE {})
      BY <1>1, <2>1, <2>2, AuthorisedRange
    <3>2. k \notin SharedChild
      <4>1. k \in SharedChild => k \in RenderedShared(journal)
        BY <1>1 DEF SharedWithin, RenderedShared
      <4>2. k \in SharedChild => k # Route(journal.to)
        BY DEF SharedChild, Route
      <4> QED
        BY <4>1, <4>2 DEF Rendered
    <3>3. journal.route => journal.id[Integration(journal.to)] # 0
                           /\ journal.bound + 1 >= Stages
      BY <1>1, <2>1, <2>2 DEF Progressed
    <3>4. k # Route(journal.to) \/ ~journal.route
      BY <3>3 DEF Rendered
    <3>5. k = Integration(journal.to)
      BY <3>1, <3>2, <3>4
    <3>6. Integration(journal.to) # Route(journal.to)
      BY DEF Integration, Route
    <3>7. ~(journal.bound + 1 >= Stages)
      BY <3>5, <3>6 DEF Rendered
    <3>8. journal.bound + 1 < Stages
      BY <1>1, <3>7
    <3> QED
      BY <2>1, <3>5, <3>8 DEF Excused
  <2> HIDE DEF j, d
  <2> QED
    BY <1>1, <2>1, <2>3, <2>4, <2>5, <2>6, <2>7, ReturnExcused
<1> QED
  BY <1>2, <1>3, <1>4, <1>5

(* Capturing a pair inventories only what the journal renders, and never    *)
(* changes an identity it already holds.                                    *)
LEMMA CaptureProgress ==
  ASSUME TypeOK, NEW j \in Journals, NEW t \in Types, Capturable(j, t),
         \A s \in Types : j.id[Integration(s)] # 0 => j.bound + 1 >= Stages
  PROVE  /\ \A s \in Types :
              Capture(j, t).id[Integration(s)] # 0 => j.bound + 1 >= Stages
         /\ \A k \in PairChild : j.id[k] # 0 => Capture(j, t).id[k] = j.id[k]
         /\ Capture(j, t).bound = j.bound
<1>1. \A k \in PairChild :
        Capture(j, t).id[k] = IF k \in Pair(t) \cap Observed THEN mr[k].id
                                                            ELSE j.id[k]
  BY DEF Capture, Journals
<1>2. \A k \in PairChild : j.id[k] # 0 => Capture(j, t).id[k] = j.id[k]
  BY <1>1 DEF Capturable
<1>3. ASSUME NEW s \in Types, Integration(s) \in Pair(t) \cap Observed
      PROVE  j.bound + 1 >= Stages
  <2>1. Integration(s) \in Rendered(j, t)
    BY <1>3 DEF Capturable
  <2>2. Integration(s) \notin SharedChild /\ Integration(s) # Route(t)
    BY DEF Integration, Route, SharedChild
  <2> QED
    BY <2>1, <2>2 DEF Rendered, RenderedShared
<1>4. ASSUME NEW s \in Types, Capture(j, t).id[Integration(s)] # 0
      PROVE  j.bound + 1 >= Stages
  BY <1>1, <1>3, <1>4, ChildrenOfAType
<1>5. Capture(j, t).bound = j.bound
  BY CaptureType
<1> QED
  BY <1>2, <1>4, <1>5

(* A turn inside a transition captures forward and forgets no child.        *)
LEMMA CapturedProgress ==
  ASSUME WithdrawalInv, Migrates, journal.phase \notin {"Absent", "Stable"}
  PROVE  /\ \A t \in Types :
              Captured.id[Integration(t)] # 0 => Captured.bound + 1 >= Stages
         /\ \A k \in PairChild :
              journal.id[k] # 0 => Captured.id[k] = journal.id[k]
         /\ journal.bound <= Captured.bound
         /\ Observed \subseteq MigrationChildren
         /\ SharedWithin(MigrationChildren, journal)
<1>1. /\ IType /\ TypeOK /\ WellPlaced(journal)
      /\ Existing \subseteq Authorised(journal)
      /\ Progressed(journal) /\ SharedWithin(Existing, journal)
      /\ journal \in Journals /\ journal.bound \in Nat
      /\ journal.to \in Types /\ journal.to # None
      /\ CapturableTransition(journal)
  BY TypesAreNamed DEF WithdrawalInv, AheadInv, Planned, ChainInOrder, IType,
     TypeOK, NamesTypes, Journals, Migrates
<1>2. Observed \subseteq Existing
  BY <1>1 DEF Observed, Existing, Exists, TypeOK
<1>n. /\ \A s, t : Integration(s) # Route(t)
      /\ \A t : Integration(t) \notin SharedChild /\ Route(t) \notin SharedChild
      /\ Route(journal.from) = Route(journal.to) => journal.from = journal.to
  BY DEF Integration, Route, SharedChild
<1>3. CASE journal.from = None
  <2> DEFINE c == CaptureShared(journal)
  <2>1. /\ c \in Journals /\ c.id = journal.id
        /\ c.bound \in {journal.bound, journal.bound + 1}
    <3> DEFINE next == journal.bound + 1
               bound == IF next <= journal.planned /\ Named(Shared(next))
                          THEN next ELSE journal.bound
               planned == IF bound + 1 <= Stages THEN bound + 1 ELSE Stages
    <3>1. c = [journal EXCEPT !.bound = bound, !.planned = planned]
      BY DEF CaptureShared
    <3>2. bound \in {journal.bound, journal.bound + 1}
      OBVIOUS
    <3> HIDE DEF bound, planned
    <3>3. c.bound = bound /\ c.id = journal.id
      BY <1>1, <3>1 DEF Journals
    <3> QED
      BY <1>1, <3>2, <3>3, CaptureSharedType
  <2>2. Captured = Capture(c, journal.to) /\ Capturable(c, journal.to)
    BY <1>1, <1>3 DEF Captured, CaptureTransition, CapturableTransition
  <2> HIDE DEF c
  <2>3. \A t \in Types : c.id[Integration(t)] # 0 => c.bound + 1 >= Stages
    BY <1>1, <2>1 DEF Progressed
  <2>4. /\ \A t \in Types :
              Captured.id[Integration(t)] # 0 => c.bound + 1 >= Stages
        /\ \A k \in PairChild : c.id[k] # 0 => Captured.id[k] = c.id[k]
        /\ Captured.bound = c.bound
    BY <1>1, <2>1, <2>2, <2>3, CaptureProgress
  <2>5. /\ journal.active = None
        /\ journal.planned =
             IF journal.bound + 1 <= Stages THEN journal.bound + 1 ELSE Stages
    BY <1>1, <1>3 DEF WellPlaced
  <2>6. ASSUME NEW k \in Observed
        PROVE  k \in TargetChildren(journal, Captured)
    <3>1. k \in {s \in SharedChild : s[2] <= journal.planned}
             \cup {Integration(journal.to)}
             \cup (IF journal.route THEN {Route(journal.to)} ELSE {})
      BY <1>1, <1>2, <1>3, <2>5, AuthorisedRange
    <3>2. CASE k \in SharedChild /\ k[2] <= journal.planned
      <4>1. k[2] <= journal.bound + 1 /\ k[2] \in Nat
        BY <1>1, <1>2, <3>2 DEF SharedWithin, SharedChild
      <4>2. k \in RenderedShared(Captured)
        BY <1>1, <2>1, <2>4, <3>2, <4>1 DEF RenderedShared
      <4> QED
        BY <1>3, <3>2, <4>2 DEF TargetChildren
    <3>3. CASE k = Integration(journal.to)
      <4>1. k \in Rendered(c, journal.to)
        BY <2>2, <3>3 DEF Capturable, Pair
      <4>2. c.bound + 1 >= Stages
        BY <1>n, <3>3, <4>1 DEF Rendered, RenderedShared
      <4>3. k \in Rendered(Captured, journal.to)
        BY <2>4, <3>3, <4>2 DEF Rendered
      <4> QED
        BY <3>3, <4>3 DEF TargetChildren
    <3>4. CASE journal.route /\ k = Route(journal.to)
      BY <3>4 DEF TargetChildren
    <3> QED
      BY <3>1, <3>2, <3>3, <3>4
  <2>7. \A k \in MigrationChildren \cap SharedChild : k[2] <= journal.planned
    BY <1>3, <1>n DEF MigrationChildren, TransitionChildren, SourceChildren,
                      TargetChildren
  <2>8. SharedWithin(MigrationChildren, journal)
    <3>1. journal.planned <= journal.bound + 1 /\ journal.planned \in Nat
      BY <1>1, <2>5
    <3>2. \A k \in SharedChild : k[2] \in Nat
      BY DEF SharedChild
    <3> QED
      BY <1>1, <2>7, <3>1, <3>2 DEF SharedWithin
  <2> QED
    BY <1>1, <2>1, <2>4, <2>6, <2>8 DEF MigrationChildren, TransitionChildren
<1>4. CASE journal.from # None
  <2> DEFINE c == Capture(journal, journal.from)
  <2>1. journal.from \in Types
    BY <1>1, <1>4 DEF Journals, MaybeType
  <2>2. /\ Captured = Capture(c, journal.to) /\ Capturable(c, journal.to)
        /\ Capturable(journal, journal.from)
    BY <1>1, <1>4 DEF Captured, CaptureTransition, CapturableTransition
  <2>3. /\ \A t \in Types : c.id[Integration(t)] # 0 => journal.bound + 1 >= Stages
        /\ \A k \in PairChild : journal.id[k] # 0 => c.id[k] = journal.id[k]
        /\ c.bound = journal.bound /\ c \in Journals
    BY <1>1, <2>1, <2>2, CaptureProgress, CaptureType DEF Progressed
  <2> HIDE DEF c
  <2>4. /\ \A t \in Types : Captured.id[Integration(t)] # 0 => c.bound + 1 >= Stages
        /\ \A k \in PairChild : c.id[k] # 0 => Captured.id[k] = c.id[k]
        /\ Captured.bound = c.bound
    BY <1>1, <2>2, <2>3, CaptureProgress
  <2>5. ASSUME NEW k \in Observed
        PROVE  k \in MigrationChildren
    <3>1. CASE k \in SharedChild
      <4>1. k \in RenderedShared(Captured)
        BY <1>1, <1>2, <2>3, <2>4, <3>1 DEF SharedWithin, RenderedShared
      <4> QED
        BY <1>4, <4>1 DEF MigrationChildren, TransitionChildren, TargetChildren
    <3>2. CASE k \in Pair(journal.from)
      <4>1. k \in Rendered(journal, journal.from)
        BY <2>2, <3>2 DEF Capturable
      <4>2. ~(journal.incomplete /\ ~journal.srcRoute /\ k = Route(journal.from))
        <5>1. SUFFICES ASSUME journal.incomplete, ~journal.srcRoute,
                              k = Route(journal.from)
                       PROVE  FALSE
          OBVIOUS
        <5>2. journal.active = None /\ journal.from # journal.to
          BY <1>1, <5>1 DEF Progressed
        <5>3. k \in Authorised(journal)
          BY <1>1, <1>2
        <5> QED
          BY <1>n, <1>4, <5>1, <5>2, <5>3 DEF Authorised
      <4> QED
        BY <1>4, <4>1, <4>2
           DEF MigrationChildren, TransitionChildren, SourceChildren
    <3>3. CASE k = Integration(journal.to)
      <4>1. k \in Rendered(c, journal.to)
        BY <2>2, <3>3 DEF Capturable, Pair
      <4>2. c.bound + 1 >= Stages
        BY <1>n, <3>3, <4>1 DEF Rendered, RenderedShared
      <4>3. k \in Rendered(Captured, journal.to)
        BY <2>4, <3>3, <4>2 DEF Rendered
      <4> QED
        BY <3>3, <4>3 DEF MigrationChildren, TransitionChildren, TargetChildren
    <3>4. CASE journal.route /\ k = Route(journal.to)
      BY <3>4 DEF MigrationChildren, TransitionChildren, TargetChildren
    <3>5. journal.active \in {None, journal.from}
      BY <1>1, <1>4 DEF WellPlaced
    <3>6. k \in Authorised(journal)
      BY <1>1, <1>2
    <3> QED
      BY <1>1, <1>4, <3>1, <3>2, <3>3, <3>4, <3>5, <3>6 DEF Authorised
  <2>6. SharedWithin(MigrationChildren, journal)
    BY <1>n, <1>4, <2>3, <2>4
       DEF SharedWithin, MigrationChildren, TransitionChildren, SourceChildren,
           TargetChildren, Rendered, RenderedShared
  <2> QED
    BY <1>1, <2>3, <2>4, <2>5, <2>6
<1> QED
  BY <1>3, <1>4

LEMMA MigratingTurnsExcused ==
  ASSUME WithdrawalInv, AheadInv',
         BuildTurn \/ CancelTurn \/ CancellingTurn \/ PreparedTurn
           \/ RetireRouteTurn \/ RetireIntegrationTurn
  PROVE  WithdrawalInv'
<1>1. /\ journal.phase \notin {"Absent", "Stable"}
      /\ IType /\ Progressed(journal) /\ Migrates
      /\ journal.to \in Types /\ journal \in Journals
  BY DEF WithdrawalInv, AheadInv, IType, TypeOK, NamesTypes, BuildTurn,
         CancelTurn, CancellingTurn, PreparedTurn, RetireRouteTurn,
         RetireIntegrationTurn
<1>2. /\ \A t \in Types :
           Captured.id[Integration(t)] # 0 => Captured.bound + 1 >= Stages
      /\ \A k \in PairChild :
           journal.id[k] # 0 => Captured.id[k] = journal.id[k]
      /\ journal.bound <= Captured.bound
      /\ Observed \subseteq MigrationChildren
      /\ SharedWithin(MigrationChildren, journal)
  BY <1>1, CapturedProgress
<1>3. /\ Captured \in Journals
      /\ Captured.phase = journal.phase /\ Captured.from = journal.from
      /\ Captured.to = journal.to /\ Captured.active = journal.active
      /\ Captured.incomplete = journal.incomplete
      /\ Captured.route = journal.route
  BY <1>1, CapturedType DEF IType
(* A decision that keeps the transition.                                    *)
<1>4. ASSUME NEW j, NEW d, Return(j, d), d \subseteq MigrationChildren,
             \A k \in MigrationChildren \ d : Excused(k),
             j.phase \notin {"Absent", "Stable"},
             \A f \in {"from", "to", "incomplete", "active", "bound", "id"} :
               j[f] = Captured[f],
             j.route => journal.route \/ Captured.id[Integration(journal.to)] # 0
      PROVE  WithdrawalInv'
  <2>1. journal.route => Captured.id[Integration(journal.to)] # 0
    BY <1>1, <1>2, ChildrenOfAType DEF Progressed
  <2>2. Progressed(j)
    BY <1>1, <1>2, <1>3, <1>4, <2>1 DEF Progressed
  <2>3. SharedWithin(d, journal)
    BY <1>2, <1>4 DEF SharedWithin
  <2> QED
    BY <1>1, <1>2, <1>4, <2>2, <2>3, ReturnExcused
(* A decision that settles on a type whose barrier holds.                   *)
<1>5. ASSUME NEW c \in Journals, c.id = Captured.id, c.bound = Captured.bound,
             NEW t, Barrier(Captured, t), NEW d, Return(Settled(c, t), d),
             d \subseteq MigrationChildren,
             \A k \in MigrationChildren \ d : Excused(k)
      PROVE  WithdrawalInv'
  <2> DEFINE j == Settled(c, t)
  <2>1. j.phase = "Stable" /\ j.active = t /\ j.id = c.id /\ j.bound = c.bound
    BY DEF Settled, Journals
  <2>2. Captured.id[Integration(t)] # 0
    BY <1>5 DEF Barrier, Pair
  <2> HIDE DEF j
  <2>3. Progressed(j)
    BY <1>2, <1>5, <2>1, <2>2 DEF Progressed
  <2>4. SharedWithin(d, journal)
    BY <1>2, <1>5 DEF SharedWithin
  <2>5. Return(j, d)
    BY <1>5 DEF j
  <2> QED
    BY <1>1, <1>2, <1>5, <2>1, <2>3, <2>4, <2>5, ReturnExcused
<1>6. CASE BuildTurn
  <2>1. CASE Captured.id[Integration(journal.to)] # 0 /\ ~journal.route
    <3> DEFINE j == [Captured EXCEPT !.route = TRUE]
    <3>1. Return(j, MigrationChildren)
      BY <1>6, <2>1 DEF BuildTurn
    <3>2. /\ j.phase = Captured.phase
          /\ \A f \in {"from", "to", "incomplete", "active", "bound", "id"} :
               j[f] = Captured[f]
      BY <1>3 DEF Journals
    <3> HIDE DEF j
    <3> QED
      BY <1>1, <1>3, <1>4, <2>1, <3>1, <3>2
  <2>2. CASE /\ ~(Captured.id[Integration(journal.to)] # 0 /\ ~journal.route)
             /\ journal.route /\ Barrier(Captured, journal.to)
    <3>1. CASE journal.from = None
      <4>1. Return(Settled(Captured, journal.to), MigrationChildren)
        BY <1>6, <2>2, <3>1 DEF BuildTurn
      <4> QED
        BY <1>3, <1>5, <2>2, <4>1
    <3>2. CASE journal.from # None
      <4> DEFINE j == [Captured EXCEPT !.phase = "Prepared",
                         !.keep = journal.to, !.retire = journal.from]
      <4>1. Return(j, MigrationChildren)
        BY <1>6, <2>2, <3>2 DEF BuildTurn
      <4>2. /\ j.phase = "Prepared" /\ j.route = Captured.route
            /\ \A f \in {"from", "to", "incomplete", "active", "bound", "id"} :
                 j[f] = Captured[f]
        BY <1>3 DEF Journals
      <4> HIDE DEF j
      <4> QED
        BY <1>3, <1>4, <4>1, <4>2
    <3> QED
      BY <3>1, <3>2
  <2>3. CASE /\ ~(Captured.id[Integration(journal.to)] # 0 /\ ~journal.route)
             /\ ~(journal.route /\ Barrier(Captured, journal.to))
    <3>1. Return(Captured, MigrationChildren)
      BY <1>6, <2>3 DEF BuildTurn
    <3> QED
      BY <1>1, <1>3, <1>4, <3>1
  <2> QED
    BY <2>1, <2>2, <2>3
<1>7. CASE CancelTurn
  <2> DEFINE p == IF journal.phase = "Prepared" THEN "RetiringRoute"
                                                ELSE "Cancelling"
             j == [Captured EXCEPT !.disp = "cancellation", !.phase = p]
  <2>1. Return(j, MigrationChildren)
    BY <1>7 DEF CancelTurn
  <2>2. /\ j.phase \in {"RetiringRoute", "Cancelling"} /\ j.route = Captured.route
        /\ \A f \in {"from", "to", "incomplete", "active", "bound", "id"} :
             j[f] = Captured[f]
    BY <1>3 DEF Journals
  <2> HIDE DEF j
  <2> QED
    BY <1>3, <1>4, <2>1, <2>2
<1>8. CASE CancellingTurn
  <2> DEFINE j == [Captured EXCEPT !.phase = "Prepared", !.keep = journal.from,
                                   !.retire = journal.to]
  <2>1. Return(j, MigrationChildren) \/ Return(Captured, MigrationChildren)
    BY <1>8 DEF CancellingTurn
  <2>2. /\ j.phase = "Prepared" /\ j.route = Captured.route
        /\ \A f \in {"from", "to", "incomplete", "active", "bound", "id"} :
             j[f] = Captured[f]
    BY <1>3 DEF Journals
  <2> HIDE DEF j
  <2> QED
    BY <1>1, <1>3, <1>4, <2>1, <2>2
<1>9. CASE PreparedTurn
  <2> DEFINE j == [Captured EXCEPT !.phase = "RetiringRoute"]
  <2>1. Return(j, MigrationChildren)
    BY <1>9 DEF PreparedTurn
  <2>2. /\ j.phase = "RetiringRoute" /\ j.route = Captured.route
        /\ \A f \in {"from", "to", "incomplete", "active", "bound", "id"} :
             j[f] = Captured[f]
    BY <1>3 DEF Journals
  <2> HIDE DEF j
  <2> QED
    BY <1>3, <1>4, <2>1, <2>2
<1>10. CASE RetireRouteTurn
  <2> DEFINE j == [Captured EXCEPT !.phase = "RetiringIntegration"]
             d == MigrationChildren \ {Route(journal.retire)}
  <2>1. Return(j, d) \/ Return(Captured, d)
    BY <1>10 DEF RetireRouteTurn
  <2>2. /\ j.phase = "RetiringIntegration" /\ j.route = Captured.route
        /\ \A f \in {"from", "to", "incomplete", "active", "bound", "id"} :
             j[f] = Captured[f]
    BY <1>3 DEF Journals
  <2>3. /\ d \subseteq MigrationChildren
        /\ \A k \in MigrationChildren \ d : Excused(k)
    BY <1>10 DEF Excused, RetirementAuthorised, RetireRouteTurn, Committed
  <2> HIDE DEF j, d
  <2> QED
    BY <1>1, <1>3, <1>4, <2>1, <2>2, <2>3
<1>11. CASE RetireIntegrationTurn
  <2> DEFINE c == [Captured EXCEPT !.state[journal.retire] = "Retired"]
             d == MigrationChildren \ Pair(journal.retire)
  <2>1. Return(Settled(c, journal.keep), d) \/ Return(Captured, d)
    BY <1>11 DEF RetireIntegrationTurn
  <2>2. c \in Journals /\ c.id = Captured.id /\ c.bound = Captured.bound
    BY <1>3 DEF Journals
  <2>3. /\ d \subseteq MigrationChildren
        /\ \A k \in MigrationChildren \ d : Excused(k)
    BY <1>11 DEF Excused, RetirementAuthorised, RetireIntegrationTurn, Committed,
                 Pair
  <2>4. Barrier(Captured, journal.keep)
    BY <1>1, <1>11 DEF RetireIntegrationTurn, Migrates, Proceeds, Decodes, Committed
  <2> HIDE DEF c, d
  <2> QED
    BY <1>1, <1>3, <1>4, <1>5, <2>1, <2>2, <2>3, <2>4
<1> QED
  BY <1>6, <1>7, <1>8, <1>9, <1>10, <1>11

LEMMA UngovernedTurnsExcused ==
  ASSUME WithdrawalInv, AheadInv', journal.phase = "Absent",
         LegacyTurn \/ FreshTurn \/ BootstrapTurn \/ PreserveTurn
  PROVE  WithdrawalInv'
<1>1. /\ IType /\ NamedHaveIDs /\ Progressed(journal)
  BY DEF WithdrawalInv, AheadInv
<1>2. WellPlaced(NoJournal) /\ NoJournal \in Journals /\ NoJournal.bound = 0
  BY NoJournalType DEF WellPlaced, NoJournal, WellFormed
<1>3. CASE LegacyTurn \/ PreserveTurn
  <2>1. \E d : Return(journal, d)
    BY <1>3 DEF LegacyTurn, PreserveTurn
  <2> QED
    BY <1>1, <2>1, ReturnUngoverned
<1>4. CASE FreshTurn
  <2> DEFINE j == Building(NoJournal, None, Selected, 1)
  <2>1. Return(j, {})
    BY <1>4 DEF FreshTurn
  <2>2. /\ j.id = NoJournal.id /\ j.phase = "Building" /\ j.from = None
        /\ j.to = Selected /\ j.incomplete = FALSE /\ j.route = FALSE
        /\ j.bound = NoJournal.bound
    BY <1>2 DEF Building, Journals
  <2>3. Selected # None
    BY <1>1, SelectedType, TypesAreNamed DEF IType, TypeOK
  <2> HIDE DEF j
  <2>4. Progressed(j)
    BY <2>2, <2>3, NoJournalProgressed DEF Progressed
  <2>5. SharedWithin({}, j)
    BY DEF SharedWithin
  <2> QED
    BY <2>1, <2>4, <2>5, ReturnUngoverned
<1>5. CASE BootstrapTurn
  <2> DEFINE s == Settled(Predecessor, InboundEmail)
             b == Building(s, InboundEmail, Selected, 0)
             d == Rendered(Predecessor, InboundEmail)
  <2>1. /\ d = LegacyRendered
        /\ LegacyRendered = SharedChild \cup Pair(InboundEmail)
    BY <1>1, <1>2, <1>5, BootstrapRenders
  <2>2. [NoJournal EXCEPT !.bound = Stages] \in Journals
    BY <1>2, StageBounds DEF Journals
  <2>3. /\ Predecessor \in Journals
        /\ Predecessor.bound = Stages
    <3> DEFINE j0 == [NoJournal EXCEPT !.bound = Stages]
    <3>1. j0.bound = Stages
      BY <1>2 DEF Journals
    <3> HIDE DEF j0
    <3>2. Capture(j0, InboundEmail) \in Journals
          /\ Capture(j0, InboundEmail).bound = Stages
      BY <1>1, <2>2, <3>1, CaptureType DEF IType, j0
    <3> QED
      BY <3>2 DEF Predecessor, j0
  <2>4. Predecessor.id[Integration(InboundEmail)] # 0
    <3>1. Route(InboundEmail) \in d
      BY <2>1 DEF Pair
    <3>2. /\ Route(InboundEmail) \notin SharedChild
          /\ Route(InboundEmail) # Integration(InboundEmail)
      BY DEF Route, Integration, SharedChild
    <3> QED
      BY <3>1, <3>2 DEF Rendered, RenderedShared
  <2>5. InboundEmail \in Types
    BY DEF Types
  <2>6. /\ s \in Journals /\ s.phase = "Stable" /\ s.active = InboundEmail
        /\ s.id = Predecessor.id /\ s.bound = Stages
    <3>1. s \in Journals
      BY <2>3, <2>5, SettledType DEF WellFormed
    <3>2. /\ s.phase = "Stable" /\ s.active = InboundEmail
          /\ s.id = Predecessor.id /\ s.bound = Predecessor.bound
      BY <2>3 DEF Settled, Journals
    <3> QED
      BY <2>3, <3>1, <3>2
  <2>7. /\ b.phase = "Building" /\ b.from = InboundEmail /\ b.to = Selected
        /\ b.incomplete = FALSE /\ b.route = FALSE
        /\ b.id = Predecessor.id /\ b.bound = Stages
    BY <2>6 DEF Building, Journals
  <2>8. Return(s, d) \/ (Selected # InboundEmail /\ Return(b, d))
    BY <1>5 DEF BootstrapTurn
  <2> HIDE DEF s, b, d
  <2>9. Progressed(s) /\ (Selected # InboundEmail => Progressed(b))
    BY <2>4, <2>6, <2>7 DEF Progressed
  <2>10. SharedWithin(d, s) /\ SharedWithin(d, b)
    BY <2>6, <2>7 DEF SharedWithin, SharedChild
  <2> QED
    BY <2>8, <2>9, <2>10, ReturnUngoverned
<1> QED
  BY <1>3, <1>4, <1>5

LEMMA TurnExcused ==
  ASSUME WithdrawalInv, AheadInv', Turn
  PROVE  WithdrawalInv'
<1>1. CASE journal.phase = "Absent"
  <2>1. LegacyTurn \/ FreshTurn \/ BootstrapTurn \/ PreserveTurn
    BY <1>1 DEF Turn, StableTurn, BeginSwitchTurn, BuildTurn, ReplaceFreshTurn,
           CancelTurn, CancellingTurn, PreparedTurn, RetireRouteTurn,
           RetireIntegrationTurn
  <2> QED
    BY <1>1, <2>1, UngovernedTurnsExcused
<1>2. CASE journal.phase # "Absent"
  <2>1. ~LegacyTurn /\ ~FreshTurn /\ ~BootstrapTurn
    BY <1>2 DEF LegacyTurn, Governed, FreshTurn, BootstrapTurn
  <2> QED
    BY <1>2, <2>1, GovernedTurnsExcused, MigratingTurnsExcused DEF Turn
<1> QED
  BY <1>1, <1>2

(* Between the turn and the persist nothing comes to exist but what the     *)
(* plan desires, and nothing more becomes due for collection.               *)
LEMMA QuietExcused ==
  ASSUME WithdrawalInv, AheadInv', UNCHANGED <<journal, refs, pc, plan>>,
         \A c \in Child :
           mr'[c].st # "absent" =>
             mr[c].st # "absent" /\ (~mr'[c].dying => ~mr[c].dying)
  PROVE  WithdrawalInv'
<1>1. Existing' \subseteq Existing
  BY DEF Existing, Exists
<1>2. Doomed' \subseteq Doomed
  BY DEF WithdrawalInv, AheadInv, IType, TypeOK, Doomed, Observed
<1>3. \A k : Excused(k) => Excused(k)'
  BY DEF Excused, RetirementAuthorised, Committed
<1>4. ChainInOrder'
  BY <1>1 DEF WithdrawalInv, ChainInOrder, SharedWithin
<1>5. Progressed(journal)' /\ Progressed(plan.journal)'
  BY DEF WithdrawalInv, Progressed
<1> QED
  BY <1>2, <1>3, <1>4, <1>5 DEF WithdrawalInv

(* What the provider and the API server do to a child: nothing, or its      *)
(* deletion is finished, or what they change is neither.                    *)
Undisturbed(k) ==
  \/ mr'[k] = mr[k]
  \/ mr[k].dying /\ mr'[k].st = "absent" /\ ~mr'[k].dying
  \/ /\ mr[k].st # "absent" /\ mr'[k].st # "absent"
     /\ mr'[k].dying = mr[k].dying

LEMMA ChildSteps ==
  ASSUME TypeOK, NEW c \in Child,
         AssignExternalName(c) \/ BecomeCurrent(c) \/ Finalise(c) \/ LoseCurrent(c)
  PROVE  \A k \in Child : Undisturbed(k)
<1> USE DEF Undisturbed
<1>1. mr \in [Child -> ManagedResources] /\ mr[c] \in ManagedResources
  BY DEF TypeOK
<1>2. CASE AssignExternalName(c)
  <2> DEFINE new == [mr[c] EXCEPT !.st = "named", !.id = mr[c].made + 1,
                                  !.made = mr[c].made + 1]
  <2>1. new.dying = mr[c].dying /\ new.st = "named"
    BY <1>1 DEF ManagedResources
  <2>2. mr' = [mr EXCEPT ![c] = new] /\ mr[c].st = "unnamed"
    BY <1>2 DEF AssignExternalName
  <2> HIDE DEF new
  <2> QED
    BY <1>1, <2>1, <2>2
<1>3. CASE BecomeCurrent(c)
  BY <1>1, <1>3 DEF BecomeCurrent, ManagedResources
<1>4. CASE LoseCurrent(c)
  BY <1>1, <1>4 DEF LoseCurrent, ManagedResources
<1>5. CASE Finalise(c)
  <2> DEFINE new == [mr[c] EXCEPT !.st = "absent", !.dying = FALSE, !.id = 0]
  <2>1. new.st = "absent" /\ ~new.dying /\ mr[c].dying
    BY <1>1, <1>5 DEF ManagedResources, Finalise
  <2>2. mr' = [mr EXCEPT ![c] = new]
    BY <1>5 DEF Finalise
  <2> HIDE DEF new
  <2> QED
    BY <1>1, <2>1, <2>2
<1> QED
  BY <1>2, <1>3, <1>4, <1>5

LEMMA StepExcused == WithdrawalInv /\ [Next]_vars => WithdrawalInv'
<1> SUFFICES ASSUME WithdrawalInv, [Next]_vars
             PROVE  WithdrawalInv'
  OBVIOUS
<1>1. AheadInv'
  BY AheadInductive DEF WithdrawalInv
<1>2. /\ TypeOK /\ ChainInOrder /\ LegacyGrows
      /\ Progressed(journal) /\ Progressed(plan.journal)
  BY DEF WithdrawalInv, AheadInv, IType
<1>k. \A k \in Child : mr[k] \in ManagedResources
  BY <1>2 DEF TypeOK
<1>i. /\ journal.bound \in Nat /\ plan.journal.bound \in Nat
      /\ \A k \in SharedChild : k[2] \in Nat
  BY <1>2 DEF TypeOK, Journals, SharedChild
<1>3. CASE Turn
  BY <1>1, <1>3, TurnExcused
<1>4. ASSUME NEW k \in Child, CollectGarbage(k)
      PROVE  WithdrawalInv'
  BY <1>1, <1>2, <1>4, <1>k, QuietExcused
     DEF CollectGarbage, TypeOK, ManagedResources
<1>5. CASE RecordReferences
  <2>1. /\ pc' = "create" /\ pc = "collect" /\ UNCHANGED <<journal, mr, plan>>
    BY <1>5 DEF RecordReferences
  <2>2. ChainInOrder'
    BY <1>2, <2>1 DEF ChainInOrder, SharedWithin, Existing, Exists
  <2>3. Progressed(journal)' /\ Progressed(plan.journal)'
    BY <1>2, <2>1 DEF Progressed
  <2> QED
    BY <1>1, <2>1, <2>2, <2>3 DEF WithdrawalInv
<1>6. ASSUME NEW k \in Child, Create(k)
      PROVE  WithdrawalInv'
  <2>1. /\ k \in plan.desired /\ pc = "create"
        /\ UNCHANGED <<journal, refs, pc, plan>>
    BY <1>6 DEF Create, Missing
  <2>2. Existing' \subseteq Existing \cup plan.desired
    BY <1>2, <1>6, <2>1 DEF Create, TypeOK, Existing, Exists
  <2>3. ChainInOrder'
    BY <1>2, <2>1, <2>2 DEF ChainInOrder, SharedWithin
  <2>4. Progressed(journal)' /\ Progressed(plan.journal)'
    BY <1>2, <2>1 DEF Progressed
  <2> QED
    BY <1>1, <2>1, <2>3, <2>4 DEF WithdrawalInv
<1>7. CASE PersistStatus
  <2>1. /\ journal' = plan.journal /\ pc' = "idle" /\ plan' = NoPlan
        /\ pc = "create" /\ UNCHANGED <<mr, refs>>
    BY <1>7 DEF PersistStatus
  <2>2. Existing' = Existing
    BY <2>1 DEF Existing, Exists
  <2>3. journal'.phase # "Absent" => SharedWithin(Existing, journal')
    <3>1. CASE journal.phase = "Absent"
      BY <1>2, <2>1, <3>1 DEF ChainInOrder, LegacyGrows, SharedWithin
    <3>2. CASE journal.phase # "Absent"
      <4>1. SharedWithin(Existing, journal) /\ journal.bound <= plan.journal.bound
        BY <1>2, <2>1, <3>2 DEF ChainInOrder
      <4> QED
        BY <1>i, <2>1, <4>1 DEF SharedWithin
    <3> QED
      BY <3>1, <3>2
  <2>4. ChainInOrder'
    BY <2>1, <2>2, <2>3 DEF ChainInOrder, SharedWithin
  <2>5. Progressed(journal)' /\ Progressed(plan.journal)'
    <3>1. NoPlan.journal = NoJournal
      BY DEF NoPlan
    <3> QED
      BY <1>2, <2>1, <3>1, NoJournalProgressed DEF Progressed
  <2> QED
    BY <1>1, <2>1, <2>4, <2>5 DEF WithdrawalInv
<1>8. ASSUME NEW k \in Child,
             AssignExternalName(k) \/ BecomeCurrent(k) \/ Finalise(k)
               \/ LoseCurrent(k)
      PROVE  WithdrawalInv'
  <2>1. UNCHANGED <<journal, refs, pc, plan>>
    BY <1>8 DEF AssignExternalName, BecomeCurrent, Finalise, LoseCurrent,
                ProviderVars
  <2> QED
    BY <1>1, <1>2, <1>8, <2>1, ChildSteps, QuietExcused DEF Undisturbed
<1>9. CASE OpenAdmission \/ CloseAdmission
             \/ (\E s \in Types \cup {None} : EditSelection(s))
             \/ UNCHANGED vars
  <2>1. UNCHANGED <<journal, mr, refs, pc, plan>>
    BY <1>9 DEF OpenAdmission, CloseAdmission, EditSelection, vars
  <2> QED
    BY <1>1, <2>1, QuietExcused
<1>10. CASE Crash
  <2>1. /\ pc' = "idle" /\ plan' = NoPlan /\ UNCHANGED <<journal, mr, refs>>
    BY <1>10 DEF Crash
  <2>2. ChainInOrder'
    BY <1>2, <2>1 DEF ChainInOrder, SharedWithin, Existing, Exists
  <2>3. Progressed(journal)' /\ Progressed(plan.journal)'
    <3>1. NoPlan.journal = NoJournal
      BY DEF NoPlan
    <3> QED
      BY <1>2, <2>1, <3>1, NoJournalProgressed DEF Progressed
  <2> QED
    BY <1>1, <2>1, <2>2, <2>3 DEF WithdrawalInv
<1> QED
  BY <1>3, <1>4, <1>5, <1>6, <1>7, <1>8, <1>9, <1>10
     DEF Next, Apply, Environment, Provider

LEMMA WithdrawalInitial == Init => WithdrawalInv
<1> SUFFICES ASSUME Init
             PROVE  WithdrawalInv
  OBVIOUS
<1>1. AheadInv
  BY AheadInitial
<1>2. /\ journal = NoJournal /\ plan.journal = NoJournal /\ pc = "idle"
  BY DEF Init, NoPlan
<1>3. NoJournal.phase = "Absent"
  BY DEF NoJournal
<1> QED
  BY <1>1, <1>2, <1>3, NoJournalProgressed DEF WithdrawalInv, ChainInOrder

(* A child starts to be deleted only under the authority of the journal as  *)
(* persisted: no crash, edit or closed gate makes a reconcile collect one   *)
(* whose retirement it has not read back.                                   *)
THEOREM WithdrawalNeedsAuthority == Spec => WithdrawalAuthorised
<1>1. WithdrawalInv /\ [Next]_vars =>
        [\A k \in Child :
           ~mr[k].dying /\ mr'[k].dying =>
              \/ RetirementAuthorised(k)
              \/ /\ journal.from = None /\ k = Integration(journal.to)
                 /\ journal.bound + 1 < Stages]_vars
  <2> SUFFICES ASSUME WithdrawalInv, Next, NEW k \in Child,
                      ~mr[k].dying, mr'[k].dying
               PROVE  Excused(k)
    BY DEF Excused
  <2>1. /\ \A c \in Child : mr[c] \in ManagedResources
        /\ mr \in [Child -> ManagedResources] /\ LegacyGrows
    BY DEF WithdrawalInv, AheadInv, IType, TypeOK
  <2>2. ~Turn
    BY DEF Turn, LegacyTurn, FreshTurn, BootstrapTurn, PreserveTurn,
       StableTurn, BeginSwitchTurn, BuildTurn, ReplaceFreshTurn, CancelTurn,
       CancellingTurn, PreparedTurn, RetireRouteTurn, RetireIntegrationTurn,
       Return
  <2>3. \A c \in Child : ~Create(c) /\ ~AssignExternalName(c)
                         /\ ~BecomeCurrent(c) /\ ~Finalise(c) /\ ~LoseCurrent(c)
    <3>1. ASSUME NEW c \in Child, Create(c)
          PROVE  FALSE
      <4> DEFINE new == [mr[c] EXCEPT
                           !.st = IF PinnedID(c) = 0 THEN "unnamed" ELSE "named",
                           !.uid = mr[c].uid + 1, !.id = PinnedID(c)]
      <4>1. new.dying = mr[c].dying
        BY <2>1 DEF ManagedResources
      <4>2. mr' = [mr EXCEPT ![c] = new]
        BY <3>1 DEF Create
      <4> HIDE DEF new
      <4> QED
        BY <2>1, <4>1, <4>2
    <3> QED
      BY <3>1, ChildSteps DEF Undisturbed, WithdrawalInv, AheadInv, IType
  <2>4. /\ ~RecordReferences /\ ~PersistStatus /\ ~Crash /\ ~OpenAdmission
        /\ ~CloseAdmission /\ \A s \in Types \cup {None} : ~EditSelection(s)
    BY DEF RecordReferences, PersistStatus, Crash, OpenAdmission,
           CloseAdmission, EditSelection
  <2>5. PICK c \in Child : CollectGarbage(c)
    BY <2>2, <2>3, <2>4 DEF Next, Apply, Environment, Provider
  <2>6. c = k
    BY <2>1, <2>5 DEF CollectGarbage
  <2>7. k \in Doomed /\ pc = "collect"
    BY <2>5, <2>6 DEF CollectGarbage
  <2>8. journal.phase # "Absent"
    BY <2>1, <2>7 DEF LegacyGrows, Doomed, Observed, Existing, Exists
  <2> QED
    BY <2>7, <2>8 DEF WithdrawalInv
<1> QED
  BY <1>1, StepExcused, WithdrawalInitial, PTL DEF Spec, WithdrawalAuthorised
-----------------------------------------------------------------------------
(* The journal relies on children, and they are there.  A stable type, the  *)
(* established source of a transition and the type a retirement keeps are   *)
(* relied on whole, a target whose Route is planned for its Integration,    *)
(* and what is being retired not at all.  Every turn returns what the       *)
(* journal relies on, so that no step deletes any of it.                    *)

Retiring(j, k) ==
  /\ Committed(j)
  /\ \/ k = Route(j.retire)
     \/ k = Integration(j.retire) /\ j.phase = "RetiringIntegration"

Decided(j) == j.phase = "Prepared" \/ Committed(j)

Relied(j) ==
  {k \in PairChild :
     /\ ~Retiring(j, k)
     /\ \/ j.phase = "Stable" /\ k \in Pair(j.active)
        \/ /\ j.phase \notin {"Absent", "Stable"} /\ j.from # None
           /\ \/ ~j.incomplete /\ k \in Pair(j.from)
              \/ j.route /\ k = Integration(j.to)
              \/ Decided(j) /\ k \in Pair(j.keep)}

(* What may be on its way out under a journal.                              *)
Leaving(j, k) ==
  \/ Retiring(j, k)
  \/ /\ j.phase \notin {"Absent", "Stable"}
     /\ \/ j.from = None /\ k = Integration(j.to)
        \/ j.from # None /\ j.incomplete /\ k = Integration(j.from)

KeepsAnother(j) ==
  Decided(j) => j.keep \in Types /\ j.retire \in Types /\ j.keep # j.retire

RouteGone(j) ==
  j.phase = "RetiringIntegration" =>
    /\ mr[Route(j.retire)].st = "absent"
    /\ pc # "idle" => Route(j.retire) \notin plan.desired

HeldInv ==
  /\ WithdrawalInv
  /\ \A k \in Child : mr[k].st = "absent" => ~mr[k].dying
  /\ pc = "create" => refs = plan.desired
  /\ \A k \in Relied(journal) : k \in Observed /\ ~mr[k].dying
  /\ pc # "idle" =>
       /\ Relied(journal) \subseteq plan.desired
       /\ \A k \in Relied(plan.journal) : k \in plan.desired /\ ~mr[k].dying
  /\ journal.phase # "Absent" =>
       /\ \A k \in Child : mr[k].dying =>
            Leaving(journal, k) /\ (pc # "idle" => Leaving(plan.journal, k))
       /\ pc = "collect" => \A k \in Doomed : Leaving(plan.journal, k)
  /\ KeepsAnother(journal) /\ KeepsAnother(plan.journal)
  /\ RouteGone(journal) /\ RouteGone(plan.journal)

LEMMA NothingRelied ==
  ASSUME NEW j, j.phase = "Absent"
  PROVE  /\ Relied(j) = {} /\ KeepsAnother(j)
         /\ j.phase # "RetiringIntegration"
BY DEF Relied, KeepsAnother, Decided, Committed

(* What a turn has to establish.                                            *)
LEMMA ReturnHeld ==
  ASSUME HeldInv, WithdrawalInv', NEW j, NEW d, Return(j, d),
         Relied(journal) \subseteq d,
         \A k \in Relied(j) : k \in d /\ ~mr[k].dying,
         journal.phase # "Absent" =>
           /\ \A k \in Observed \ d : Leaving(j, k)
           /\ \A k \in Child : mr[k].dying => Leaving(j, k),
         KeepsAnother(j),
         journal.phase = "RetiringIntegration" => Route(journal.retire) \notin d,
         j.phase = "RetiringIntegration" =>
           mr[Route(j.retire)].st = "absent" /\ Route(j.retire) \notin d
  PROVE  HeldInv'
<1>1. plan'.journal = j /\ plan'.desired = d /\ pc' = "collect"
  BY DEF Return
<1>2. UNCHANGED <<journal, mr, refs>>
  BY DEF Return
<1>3. Relied(journal)' = Relied(journal) /\ Relied(plan.journal)' = Relied(j)
  BY <1>1, <1>2 DEF Relied, Retiring, Decided, Committed
<1>4. Observed' = Observed /\ Doomed' \subseteq Observed \ d
  BY <1>1, <1>2 DEF Observed, Doomed
<1>5. \A k : /\ Leaving(journal, k)' = Leaving(journal, k)
             /\ Leaving(plan.journal, k)' = Leaving(j, k)
  BY <1>1, <1>2 DEF Leaving, Retiring, Committed
<1>6. KeepsAnother(journal)' /\ KeepsAnother(plan.journal)'
  BY <1>1, <1>2 DEF HeldInv, KeepsAnother, Decided, Committed
<1>7. RouteGone(journal)' /\ RouteGone(plan.journal)'
  BY <1>1, <1>2 DEF HeldInv, RouteGone
<1>8. \A k \in Relied(journal)' : k \in Observed' /\ ~mr'[k].dying
  BY <1>2, <1>3, <1>4 DEF HeldInv
<1>9. /\ Relied(journal)' \subseteq plan'.desired
      /\ \A k \in Relied(plan.journal)' : k \in plan'.desired /\ ~mr'[k].dying
  BY <1>1, <1>2, <1>3
<1>10. journal'.phase # "Absent" =>
         /\ \A k \in Child : mr'[k].dying =>
              Leaving(journal, k)' /\ Leaving(plan.journal, k)'
         /\ \A k \in Doomed' : Leaving(plan.journal, k)'
  BY <1>1, <1>2, <1>4, <1>5 DEF HeldInv
<1>11. \A k \in Child : mr'[k].st = "absent" => ~mr'[k].dying
  BY <1>2 DEF HeldInv
<1> QED
  BY <1>1, <1>6, <1>7, <1>8, <1>9, <1>10, <1>11 DEF HeldInv

(* Without a journal nothing is relied on or on its way out.                *)
LEMMA UngovernedTurnsHeld ==
  ASSUME HeldInv, WithdrawalInv', journal.phase = "Absent",
         LegacyTurn \/ FreshTurn \/ BootstrapTurn \/ PreserveTurn
  PROVE  HeldInv'
<1>1. /\ IType /\ NamedHaveIDs
      /\ Relied(journal) = {} /\ KeepsAnother(journal)
      /\ \A k \in Child : ~mr[k].dying
  BY NothingRelied DEF HeldInv, WithdrawalInv, AheadInv, LegacyGrows
<1>2. WellPlaced(NoJournal) /\ NoJournal \in Journals
  BY NoJournalType DEF WellPlaced, NoJournal, WellFormed
<1>3. CASE LegacyTurn \/ PreserveTurn
  <2>1. PICK d : Return(journal, d)
    BY <1>3 DEF LegacyTurn, PreserveTurn
  <2> QED
    BY <1>1, <2>1, ReturnHeld
<1>4. CASE FreshTurn
  <2> DEFINE j == Building(NoJournal, None, Selected, 1)
  <2>1. Return(j, {})
    BY <1>4 DEF FreshTurn
  <2>2. j.phase = "Building" /\ j.from = None
    BY <1>2 DEF Building, Journals
  <2> HIDE DEF j
  <2>3. Relied(j) = {} /\ KeepsAnother(j)
    BY <2>2 DEF Relied, KeepsAnother, Decided, Committed
  <2> QED
    BY <1>1, <2>1, <2>2, <2>3, ReturnHeld
<1>5. CASE BootstrapTurn
  <2> DEFINE s == Settled(Predecessor, InboundEmail)
             b == Building(s, InboundEmail, Selected, 0)
             d == Rendered(Predecessor, InboundEmail)
  <2>1. Pair(InboundEmail) \subseteq d
    BY <1>1, <1>2, <1>5, BootstrapRenders
  <2>2. [NoJournal EXCEPT !.bound = Stages] \in Journals
    BY <1>2, StageBounds DEF Journals
  <2>3. Predecessor \in Journals
    BY <1>1, <2>2, CaptureType DEF Predecessor, IType
  <2>4. InboundEmail \in Types
    BY DEF Types
  <2>5. s \in Journals
    BY <2>3, <2>4, SettledType DEF WellFormed
  <2>6. s.phase = "Stable" /\ s.active = InboundEmail
    BY <2>3 DEF Settled, Journals
  <2>7. /\ b.phase = "Building" /\ b.from = InboundEmail
        /\ b.incomplete = FALSE /\ b.route = FALSE
    BY <2>5 DEF Building, Journals
  <2>8. Return(s, d) \/ Return(b, d)
    BY <1>5 DEF BootstrapTurn
  <2> HIDE DEF s, b, d
  <2>9. /\ Relied(s) \subseteq Pair(InboundEmail) /\ KeepsAnother(s)
        /\ Relied(b) \subseteq Pair(InboundEmail) /\ KeepsAnother(b)
    BY <2>6, <2>7 DEF Relied, KeepsAnother, Decided, Committed
  <2>10. Pair(InboundEmail) \subseteq Child
    BY <2>4, ChildrenOfAType, PairsAreChildren
  <2>11. /\ \A k \in Relied(s) : k \in d /\ ~mr[k].dying
         /\ \A k \in Relied(b) : k \in d /\ ~mr[k].dying
    BY <1>1, <2>1, <2>9, <2>10
  <2> QED
    BY <1>1, <2>6, <2>7, <2>8, <2>9, <2>11, ReturnHeld
<1> QED
  BY <1>3, <1>4, <1>5

LEMMA GovernedTurnsHeld ==
  ASSUME HeldInv, WithdrawalInv', journal.phase # "Absent",
         PreserveTurn \/ StableTurn \/ BeginSwitchTurn \/ ReplaceFreshTurn
  PROVE  HeldInv'
<1>1. /\ IType /\ TypeOK /\ WellPlaced(journal) /\ journal \in Journals
      /\ \A k \in Relied(journal) : k \in Observed /\ ~mr[k].dying
      /\ \A k \in Child : mr[k].dying => Leaving(journal, k)
      /\ KeepsAnother(journal)
      /\ Observed \subseteq Existing
  BY DEF HeldInv, WithdrawalInv, AheadInv, IType, TypeOK, Observed, Existing, Exists
<1>2. CASE PreserveTurn
  <2>1. Return(journal, Observed)
    BY <1>2 DEF PreserveTurn
  <2>2. journal.phase = "RetiringIntegration" =>
          /\ mr[Route(journal.retire)].st = "absent"
          /\ Route(journal.retire) \notin Observed
    BY DEF HeldInv, RouteGone, Observed
  <2> QED
    BY <1>1, <2>1, <2>2, ReturnHeld
<1>3. ASSUME journal.phase = "Stable"
      PROVE  /\ \A k \in Child : ~mr[k].dying
             /\ Observed \subseteq Rendered(journal, journal.active)
             /\ journal.active \in Types /\ journal.active # None
             /\ Pair(journal.active) \subseteq PairChild
             /\ Pair(journal.active) \subseteq Relied(journal)
             /\ Relied(journal) \subseteq Pair(journal.active)
  <2>1. /\ journal.active \in Types /\ journal.active # None
        /\ Pair(journal.active) \subseteq PairChild
    BY <1>1, <1>3, TypesAreNamed, ChildrenOfAType DEF IType, NamesTypes
  <2>2. \A k \in Child : ~Leaving(journal, k)
    BY <1>3 DEF Leaving, Retiring, Committed
  <2>3. /\ Pair(journal.active) \subseteq Relied(journal)
        /\ Relied(journal) \subseteq Pair(journal.active)
    BY <1>3, <2>1 DEF Relied, Retiring, Committed
  <2> QED
    BY <1>1, <1>3, <2>1, <2>2, <2>3, StableRendersAll DEF HeldInv
<1>4. CASE StableTurn
  <2>1. /\ journal.phase = "Stable"
        /\ Return(journal, Rendered(journal, journal.active))
    BY <1>4 DEF StableTurn
  <2> QED
    BY <1>1, <1>3, <2>1, ReturnHeld
<1>5. CASE BeginSwitchTurn
  <2> DEFINE readopted == [journal EXCEPT
           !.state[Selected] = IF @ = None THEN None ELSE "Active",
           !.uid = [k \in PairChild |->
                      IF k \in Pair(Selected) THEN 0 ELSE @[k]]]
             j == Building(readopted, journal.active, Selected, 0)
  <2>1. readopted \in Journals
    BY <1>1 DEF Journals
  <2> HIDE DEF readopted
  <2>2. /\ j.phase = "Building" /\ j.from = journal.active
        /\ j.incomplete = FALSE /\ j.route = FALSE
    BY <2>1 DEF Building, Journals
  <2>3. journal.phase = "Stable"
    BY <1>5 DEF BeginSwitchTurn
  <2>4. Return(j, Rendered(journal, journal.active))
    BY <1>5 DEF BeginSwitchTurn, readopted
  <2> HIDE DEF j
  <2>5. Relied(j) \subseteq Pair(journal.active) /\ KeepsAnother(j)
    BY <2>2 DEF Relied, KeepsAnother, Decided, Committed
  <2> QED
    BY <1>1, <1>3, <2>2, <2>3, <2>4, <2>5, ReturnHeld
<1>6. CASE ReplaceFreshTurn
  <2> DEFINE j == [Building(journal, journal.to, Selected, journal.planned) EXCEPT
                     !.incomplete = TRUE, !.srcRoute = journal.route]
             d == Rendered(journal, journal.to)
                    \ (IF journal.route THEN {} ELSE {Route(journal.to)})
  <2>1. journal.phase = "Building" /\ journal.from = None
    BY <1>6 DEF ReplaceFreshTurn
  <2>2. /\ j.phase = "Building" /\ j.from = journal.to
        /\ j.incomplete = TRUE /\ j.route = FALSE /\ j.from # None
    <3>1. journal.to # None
      BY <1>1, <2>1, TypesAreNamed DEF IType, NamesTypes
    <3> QED
      BY <1>1, <3>1 DEF Building, Journals
  <2>3. Return(j, d)
    BY <1>6 DEF ReplaceFreshTurn
  <2>4. WithdrawalInv /\ plan'.desired = d /\ pc' = "collect"
        /\ UNCHANGED <<journal, mr, refs>>
    BY <2>3 DEF HeldInv, Return
  <2> HIDE DEF j, d
  <2>5. Relied(j) = {} /\ KeepsAnother(j) /\ Relied(journal) = {}
    BY <2>1, <2>2 DEF Relied, KeepsAnother, Decided, Committed
  <2>6. \A k : Leaving(journal, k) => Leaving(j, k)
    BY <2>1, <2>2 DEF Leaving, Retiring, Committed
  <2>7. ASSUME NEW k \in Observed \ d
        PROVE  Leaving(j, k)
    <3>1. CASE mr[k].dying
      BY <1>1, <2>6, <3>1 DEF Existing
    <3>2. CASE ~mr[k].dying
      <4>1. k \in Doomed'
        BY <2>4, <2>7, <3>2 DEF Doomed, Observed
      <4>2. Excused(k)'
        BY <2>4, <4>1 DEF WithdrawalInv
      <4> QED
        BY <2>1, <2>2, <2>4, <4>2
           DEF Excused, RetirementAuthorised, Committed, Leaving
    <3> QED
      BY <3>1, <3>2
  <2> QED
    BY <1>1, <2>1, <2>2, <2>3, <2>5, <2>6, <2>7, ReturnHeld
<1> QED
  BY <1>2, <1>3, <1>4, <1>5, <1>6

LEMMA BarrierCurrent ==
  ASSUME NEW j, NEW t, Barrier(j, t)
  PROVE  \A k \in Pair(t) : k \in Observed /\ ~mr[k].dying
<1>1. Route(t) \in Rendered(j, t) /\ \A k \in Rendered(j, t) : Current(k)
  BY DEF Barrier
<1>2. Route(t) \notin SharedChild /\ Route(t) # Integration(t)
  BY DEF Route, Integration, SharedChild
<1>3. Integration(t) \in Rendered(j, t)
  BY <1>1, <1>2 DEF Rendered, RenderedShared
<1> QED
  BY <1>1, <1>3 DEF Pair, Current

LEMMA MigratingTurnsHeld ==
  ASSUME HeldInv, WithdrawalInv',
         BuildTurn \/ CancelTurn \/ CancellingTurn \/ PreparedTurn
           \/ RetireRouteTurn \/ RetireIntegrationTurn
  PROVE  HeldInv'
<1>1. /\ journal.phase \notin {"Absent", "Stable"}
      /\ IType /\ Progressed(journal) /\ Migrates /\ WithdrawalInv
      /\ journal.to \in Types /\ journal \in Journals
      /\ KeepsAnother(journal) /\ RouteGone(journal)
      /\ \A k \in Relied(journal) : k \in Observed /\ ~mr[k].dying
      /\ \A k \in Child : mr[k].dying => Leaving(journal, k)
  BY DEF HeldInv, WithdrawalInv, AheadInv, IType, TypeOK, NamesTypes, BuildTurn,
         CancelTurn, CancellingTurn, PreparedTurn, RetireRouteTurn,
         RetireIntegrationTurn
<1>2. /\ \A t \in Types :
           Captured.id[Integration(t)] # 0 => Captured.bound + 1 >= Stages
      /\ Observed \subseteq MigrationChildren
  BY <1>1, CapturedProgress
<1>3. /\ Captured \in Journals
      /\ Captured.phase = journal.phase /\ Captured.from = journal.from
      /\ Captured.to = journal.to /\ Captured.incomplete = journal.incomplete
      /\ Captured.route = journal.route /\ Captured.keep = journal.keep
      /\ Captured.retire = journal.retire
  BY <1>1, CapturedType DEF IType
<1>f. /\ journal.from # journal.to
      /\ journal.phase # "Building" => journal.from \in Types
  BY <1>1 DEF Progressed, IType, NamesTypes
(* A decision that keeps the transition.                                    *)
<1>4. ASSUME NEW j, NEW d, Return(j, d), d \subseteq MigrationChildren,
             \A k \in MigrationChildren \ d : Retiring(journal, k),
             j.phase \notin {"Absent", "Stable"},
             \A f \in {"from", "to", "incomplete"} : j[f] = Captured[f],
             \A k : Retiring(journal, k) => Retiring(j, k),
             \A k \in Relied(j) :
               k \in Relied(journal) \/ (k \in d /\ ~mr[k].dying),
             KeepsAnother(j),
             journal.phase = "RetiringIntegration" =>
               Route(journal.retire) \notin d,
             j.phase = "RetiringIntegration" =>
               mr[Route(j.retire)].st = "absent" /\ Route(j.retire) \notin d
      PROVE  HeldInv'
  <2>1. Relied(journal) \subseteq d
    <3>1. \A k \in Relied(journal) : ~Retiring(journal, k)
      BY DEF Relied
    <3> QED
      BY <1>1, <1>2, <1>4, <3>1
  <2>2. \A k \in Relied(j) : k \in d /\ ~mr[k].dying
    BY <1>1, <1>4, <2>1
  <2>3. \A k : Leaving(journal, k) => Leaving(j, k)
    BY <1>1, <1>3, <1>4 DEF Leaving
  <2>4. \A k \in Observed \ d : Leaving(j, k)
    BY <1>2, <1>4 DEF Leaving
  <2>5. \A k \in Child : mr[k].dying => Leaving(j, k)
    BY <1>1, <2>3
  <2> QED
    BY <1>4, <2>1, <2>2, <2>4, <2>5, ReturnHeld
(* A decision that settles on a type whose barrier holds.                   *)
<1>5. ASSUME NEW c \in Journals, NEW t \in Types, Barrier(Captured, t),
             NEW d, Return(Settled(c, t), d), d \subseteq MigrationChildren,
             \A k \in MigrationChildren \ d :
               k \notin Observed /\ Retiring(journal, k) /\ k \notin Pair(t),
             \A k \in Child : Leaving(journal, k) => ~mr[k].dying,
             journal.phase = "RetiringIntegration" =>
               Route(journal.retire) \notin d
      PROVE  HeldInv'
  <2> DEFINE j == Settled(c, t)
  <2>1. j.phase = "Stable" /\ j.active = t
    BY DEF Settled, Journals
  <2>2. Return(j, d)
    BY <1>5 DEF j
  <2> HIDE DEF j
  <2>3. Relied(j) \subseteq Pair(t) /\ KeepsAnother(j)
    BY <2>1 DEF Relied, KeepsAnother, Decided, Committed
  <2>4. \A k \in Relied(j) : k \in d /\ ~mr[k].dying
    BY <1>2, <1>5, <2>3, BarrierCurrent
  <2>5. Relied(journal) \subseteq d
    <3>1. \A k \in Relied(journal) : ~Retiring(journal, k)
      BY DEF Relied
    <3> QED
      BY <1>1, <1>2, <1>5, <3>1
  <2>6. Observed \ d = {}
    BY <1>2, <1>5
  <2>7. \A k \in Child : ~mr[k].dying
    BY <1>1, <1>5
  <2> QED
    BY <1>5, <2>1, <2>2, <2>3, <2>4, <2>5, <2>6, <2>7, ReturnHeld
(* A turn that records nothing but captures.                                *)
<1>6. ASSUME NEW d, Return(Captured, d), d \subseteq MigrationChildren,
             \A k \in MigrationChildren \ d : Retiring(journal, k),
             journal.phase = "RetiringIntegration" =>
               Route(journal.retire) \notin d
      PROVE  HeldInv'
  <2>1. /\ \A k : Retiring(journal, k) => Retiring(Captured, k)
        /\ Relied(Captured) = Relied(journal)
        /\ KeepsAnother(Captured)
    BY <1>1, <1>3 DEF Retiring, Relied, KeepsAnother, Decided, Committed
  <2> QED
    BY <1>1, <1>3, <1>4, <1>6, <2>1 DEF RouteGone
<1>7. CASE BuildTurn
  <2>0. journal.phase = "Building" /\ \A k : ~Retiring(journal, k)
    BY <1>7 DEF BuildTurn, Retiring, Committed
  <2>1. CASE Captured.id[Integration(journal.to)] # 0 /\ ~journal.route
    <3> DEFINE j == [Captured EXCEPT !.route = TRUE]
    <3>1. Return(j, MigrationChildren)
      BY <1>7, <2>1 DEF BuildTurn
    <3>2. /\ j.phase = "Building" /\ j.route
          /\ \A f \in {"from", "to", "incomplete"} : j[f] = Captured[f]
      BY <1>3, <2>0 DEF Journals
    <3> HIDE DEF j
    <3>3. Integration(journal.to) \in MigrationChildren
      BY <1>1, <1>2, <2>1
         DEF MigrationChildren, TransitionChildren, TargetChildren, Rendered
    <3>4. journal.from # None => ~mr[Integration(journal.to)].dying
      <4>1. Integration(journal.to) \in Child
        BY <1>1, ChildrenOfAType, PairsAreChildren
      <4>2. Integration(journal.from) # Integration(journal.to)
        BY <1>f DEF Integration
      <4> QED
        BY <1>1, <2>0, <4>1, <4>2 DEF Leaving
    <3>5. \A k \in Relied(j) :
            k \in Relied(journal)
              \/ (journal.from # None /\ k = Integration(journal.to))
      BY <1>3, <2>0, <3>2 DEF Relied, Decided, Committed
    <3>6. KeepsAnother(j)
      BY <3>2 DEF KeepsAnother, Decided, Committed
    <3> QED
      BY <1>4, <2>0, <3>1, <3>2, <3>3, <3>4, <3>5, <3>6
  <2>2. CASE /\ ~(Captured.id[Integration(journal.to)] # 0 /\ ~journal.route)
             /\ journal.route /\ Barrier(Captured, journal.to)
    <3>1. CASE journal.from = None
      <4>1. Return(Settled(Captured, journal.to), MigrationChildren)
        BY <1>7, <2>2, <3>1 DEF BuildTurn
      <4>2. \A k \in Child : Leaving(journal, k) => ~mr[k].dying
        BY <2>0, <2>2, <3>1, BarrierCurrent DEF Leaving, Pair
      <4> QED
        BY <1>1, <1>3, <1>5, <2>0, <2>2, <4>1, <4>2
    <3>2. CASE journal.from # None
      <4> DEFINE j == [Captured EXCEPT !.phase = "Prepared",
                         !.keep = journal.to, !.retire = journal.from]
      <4>1. Return(j, MigrationChildren)
        BY <1>7, <2>2, <3>2 DEF BuildTurn
      <4>2. /\ j.phase = "Prepared" /\ j.route = Captured.route
            /\ j.keep = journal.to /\ j.retire = journal.from
            /\ \A f \in {"from", "to", "incomplete"} : j[f] = Captured[f]
        BY <1>3 DEF Journals
      <4> HIDE DEF j
      <4>3. KeepsAnother(j)
        <5>1. journal.from \in Types
          BY <1>1, <3>2 DEF Journals, MaybeType
        <5> QED
          BY <1>1, <1>f, <4>2, <5>1 DEF KeepsAnother
      <4>4. \A k \in Relied(j) : k \in Relied(journal) \/ k \in Pair(journal.to)
        BY <1>3, <2>0, <4>2 DEF Relied, Retiring
      <4>5. \A k \in Pair(journal.to) : k \in MigrationChildren /\ ~mr[k].dying
        BY <1>2, <2>2, BarrierCurrent
      <4> QED
        BY <1>4, <2>0, <4>1, <4>2, <4>3, <4>4, <4>5
    <3> QED
      BY <3>1, <3>2
  <2>3. CASE /\ ~(Captured.id[Integration(journal.to)] # 0 /\ ~journal.route)
             /\ ~(journal.route /\ Barrier(Captured, journal.to))
    <3>1. Return(Captured, MigrationChildren)
      BY <1>7, <2>3 DEF BuildTurn
    <3> QED
      BY <1>6, <2>0, <3>1
  <2> QED
    BY <2>1, <2>2, <2>3
<1>8. CASE CancelTurn
  <2> DEFINE p == IF journal.phase = "Prepared" THEN "RetiringRoute"
                                                ELSE "Cancelling"
             j == [Captured EXCEPT !.disp = "cancellation", !.phase = p]
  <2>1. Return(j, MigrationChildren)
    BY <1>8 DEF CancelTurn
  <2>2. /\ j.phase = p /\ j.route = Captured.route
        /\ j.keep = Captured.keep /\ j.retire = Captured.retire
        /\ \A f \in {"from", "to", "incomplete"} : j[f] = Captured[f]
    BY <1>3 DEF Journals
  <2> HIDE DEF j
  <2>3. journal.phase \in {"Building", "Prepared"} /\ \A k : ~Retiring(journal, k)
    BY <1>8 DEF CancelTurn, Retiring, Committed
  <2>4. Relied(j) \subseteq Relied(journal)
    BY <1>3, <2>2, <2>3 DEF Relied, Decided, Committed
  <2>5. KeepsAnother(j)
    BY <1>1, <1>3, <2>2 DEF KeepsAnother, Decided, Committed
  <2> QED
    BY <1>4, <2>1, <2>2, <2>3, <2>4, <2>5
<1>9. CASE CancellingTurn
  <2> DEFINE j == [Captured EXCEPT !.phase = "Prepared", !.keep = journal.from,
                                   !.retire = journal.to]
  <2>0. journal.phase = "Cancelling" /\ \A k : ~Retiring(journal, k)
    BY <1>9 DEF CancellingTurn, Retiring, Committed
  <2>1. CASE Barrier(Captured, journal.from)
    <3>1. Return(j, MigrationChildren)
      BY <1>9, <2>1 DEF CancellingTurn
    <3>2. /\ j.phase = "Prepared" /\ j.route = Captured.route
          /\ j.keep = journal.from /\ j.retire = journal.to
          /\ \A f \in {"from", "to", "incomplete"} : j[f] = Captured[f]
      BY <1>3 DEF Journals
    <3> HIDE DEF j
    <3>3. KeepsAnother(j)
      BY <1>1, <1>f, <2>0, <3>2 DEF KeepsAnother
    <3>4. \A k \in Relied(j) : k \in Relied(journal) \/ k \in Pair(journal.from)
      BY <1>3, <2>0, <3>2 DEF Relied, Retiring
    <3>5. \A k \in Pair(journal.from) : k \in MigrationChildren /\ ~mr[k].dying
      BY <1>2, <2>1, BarrierCurrent
    <3> QED
      BY <1>4, <2>0, <3>1, <3>2, <3>3, <3>4, <3>5
  <2>2. CASE ~Barrier(Captured, journal.from)
    <3>1. Return(Captured, MigrationChildren)
      BY <1>9, <2>2 DEF CancellingTurn
    <3> QED
      BY <1>6, <2>0, <3>1
  <2> QED
    BY <2>1, <2>2
<1>10. CASE PreparedTurn
  <2> DEFINE j == [Captured EXCEPT !.phase = "RetiringRoute"]
  <2>1. Return(j, MigrationChildren)
    BY <1>10 DEF PreparedTurn
  <2>2. /\ j.phase = "RetiringRoute" /\ j.route = Captured.route
        /\ j.keep = Captured.keep /\ j.retire = Captured.retire
        /\ \A f \in {"from", "to", "incomplete"} : j[f] = Captured[f]
    BY <1>3 DEF Journals
  <2> HIDE DEF j
  <2>3. journal.phase = "Prepared" /\ \A k : ~Retiring(journal, k)
    BY <1>10 DEF PreparedTurn, Retiring, Committed
  <2>4. Relied(j) \subseteq Relied(journal) /\ KeepsAnother(j)
    BY <1>1, <1>3, <2>2, <2>3 DEF Relied, KeepsAnother, Decided, Committed
  <2> QED
    BY <1>4, <2>1, <2>2, <2>3, <2>4
<1>11. CASE RetireRouteTurn
  <2> DEFINE j == [Captured EXCEPT !.phase = "RetiringIntegration"]
             d == MigrationChildren \ {Route(journal.retire)}
  <2>0. /\ journal.phase = "RetiringRoute"
        /\ \A k \in MigrationChildren \ d : Retiring(journal, k)
        /\ d \subseteq MigrationChildren /\ Route(journal.retire) \notin d
    BY <1>11 DEF RetireRouteTurn, Retiring, Committed
  <2>1. CASE NamedAbsent(Route(journal.retire))
    <3>1. Return(j, d)
      BY <1>11, <2>1 DEF RetireRouteTurn
    <3>2. /\ j.phase = "RetiringIntegration" /\ j.route = Captured.route
          /\ j.keep = Captured.keep /\ j.retire = Captured.retire
          /\ \A f \in {"from", "to", "incomplete"} : j[f] = Captured[f]
      BY <1>3 DEF Journals
    <3> HIDE DEF j, d
    <3>3. \A k : Retiring(journal, k) => Retiring(j, k)
      BY <1>3, <2>0, <3>2 DEF Retiring, Committed
    <3>4. Relied(j) \subseteq Relied(journal) /\ KeepsAnother(j)
      BY <1>1, <1>3, <2>0, <3>2, <3>3 DEF Relied, KeepsAnother, Decided, Committed
    <3>5. mr[Route(j.retire)].st = "absent"
      BY <1>3, <2>1, <3>2 DEF NamedAbsent
    <3> QED
      BY <1>3, <1>4, <2>0, <3>1, <3>2, <3>3, <3>4, <3>5
  <2>2. CASE ~NamedAbsent(Route(journal.retire))
    <3>1. Return(Captured, d)
      BY <1>11, <2>2 DEF RetireRouteTurn
    <3> HIDE DEF d
    <3> QED
      BY <1>6, <2>0, <3>1
  <2> QED
    BY <2>1, <2>2
<1>12. CASE RetireIntegrationTurn
  <2> DEFINE c == [Captured EXCEPT !.state[journal.retire] = "Retired"]
             d == MigrationChildren \ Pair(journal.retire)
  <2>0. /\ journal.phase = "RetiringIntegration"
        /\ \A k \in Pair(journal.retire) : Retiring(journal, k)
        /\ d \subseteq MigrationChildren /\ Route(journal.retire) \notin d
    BY <1>12 DEF RetireIntegrationTurn, Retiring, Committed, Pair
  <2>1. CASE \A k \in Pair(journal.retire) : NamedAbsent(k)
    <3>1. Return(Settled(c, journal.keep), d)
      BY <1>12, <2>1 DEF RetireIntegrationTurn
    <3>2. c \in Journals
      BY <1>3 DEF Journals
    <3>3. /\ journal.keep \in Types /\ journal.keep # journal.retire
      BY <1>1, <2>0 DEF KeepsAnother, Decided, Committed
    <3>4. /\ journal.keep = KeepByDisposition(journal)
          /\ journal.retire = RetireByDisposition(journal)
      BY <1>1, <2>0 DEF Migrates, Proceeds, Decodes, Committed
    <3>5. Barrier(Captured, journal.keep)
      BY <1>12, <3>4 DEF RetireIntegrationTurn
    <3>6. \A k \in Pair(journal.retire) : k \notin Observed /\ k \notin Pair(journal.keep)
      BY <2>1, <3>3 DEF NamedAbsent, Pair, Integration, Route
    <3>7. \A k \in Child : Leaving(journal, k) => ~mr[k].dying
      <4>1. SUFFICES ASSUME NEW k \in Child, Leaving(journal, k)
                     PROVE  ~mr[k].dying
        OBVIOUS
      <4>2. k \in Pair(journal.retire) \/ k = Integration(journal.from)
        BY <1>f, <2>0, <4>1, TypesAreNamed DEF Leaving, Retiring, Pair
      <4>3. journal.from \in {journal.keep, journal.retire}
        BY <3>4 DEF KeepByDisposition, RetireByDisposition
      <4>4. k \in Pair(journal.retire) \/ k \in Pair(journal.keep)
        BY <4>2, <4>3 DEF Pair
      <4> QED
        BY <2>1, <3>5, <4>1, <4>4, BarrierCurrent DEF NamedAbsent, HeldInv
    <3> HIDE DEF c
    <3> QED
      BY <1>5, <2>0, <3>1, <3>2, <3>3, <3>5, <3>6, <3>7
  <2>2. CASE ~ \A k \in Pair(journal.retire) : NamedAbsent(k)
    <3>1. Return(Captured, d)
      BY <1>12, <2>2 DEF RetireIntegrationTurn
    <3>2. \A k \in MigrationChildren \ d : Retiring(journal, k)
      BY <2>0
    <3> HIDE DEF d
    <3> QED
      BY <1>6, <2>0, <3>1, <3>2
  <2> QED
    BY <2>1, <2>2
<1> QED
  BY <1>7, <1>8, <1>9, <1>10, <1>11, <1>12

(* The provider and the API server delete nothing alive and plan nothing.   *)
LEMMA QuietHeld ==
  ASSUME HeldInv, WithdrawalInv', UNCHANGED <<journal, refs, pc, plan>>,
         \A k \in Child : Undisturbed(k)
  PROVE  HeldInv'
<1>1. TypeOK /\ refs \subseteq Child
  BY DEF HeldInv, WithdrawalInv, AheadInv, IType, TypeOK
<1>2. /\ Relied(journal)' = Relied(journal)
      /\ Relied(plan.journal)' = Relied(plan.journal)
      /\ \A k : /\ Leaving(journal, k)' = Leaving(journal, k)
                /\ Leaving(plan.journal, k)' = Leaving(plan.journal, k)
  BY DEF Relied, Leaving, Retiring, Decided, Committed
<1>3. Relied(journal) \subseteq Child /\ Relied(plan.journal) \subseteq Child
  BY PairsAreChildren DEF Relied
<1>4. \A k \in Child :
        /\ mr'[k].dying => mr[k].dying
        /\ mr'[k].st = "absent" => ~mr'[k].dying
        /\ mr'[k].st # "absent" => mr[k].st # "absent" /\ mr'[k].dying = mr[k].dying
        /\ mr[k].st # "absent" /\ ~mr[k].dying => mr'[k].st # "absent"
  BY DEF Undisturbed, HeldInv
<1>5. \A k \in Relied(journal) : k \in Observed' /\ ~mr'[k].dying
  BY <1>3, <1>4 DEF HeldInv, Observed
<1>6. pc # "idle" =>
        /\ Relied(journal) \subseteq plan.desired
        /\ \A k \in Relied(plan.journal) : k \in plan.desired /\ ~mr'[k].dying
  BY <1>3, <1>4 DEF HeldInv
<1>7. Doomed' \subseteq Doomed
  BY <1>1, <1>4 DEF Doomed, Observed
<1>8. journal.phase # "Absent" =>
        /\ \A k \in Child : mr'[k].dying =>
             Leaving(journal, k) /\ (pc # "idle" => Leaving(plan.journal, k))
        /\ pc = "collect" => \A k \in Doomed' : Leaving(plan.journal, k)
  BY <1>4, <1>7 DEF HeldInv
<1>9. KeepsAnother(journal)' /\ KeepsAnother(plan.journal)'
  BY DEF HeldInv, KeepsAnother, Decided, Committed
<1>10. RouteGone(journal)' /\ RouteGone(plan.journal)'
  <2>1. ASSUME NEW j, KeepsAnother(j), RouteGone(j),
               j.phase = "RetiringIntegration"
        PROVE  mr'[Route(j.retire)].st = "absent"
    <3>1. Route(j.retire) \in Child
      BY <2>1, ChildrenOfAType, PairsAreChildren
         DEF KeepsAnother, Decided, Committed
    <3> QED
      BY <1>4, <2>1, <3>1 DEF RouteGone
  <2>2. journal' = journal /\ plan' = plan /\ pc' = pc
    OBVIOUS
  <2> QED
    BY <2>1, <2>2 DEF HeldInv, RouteGone
<1>11. pc' = "create" => refs' = plan'.desired
  BY DEF HeldInv
<1> QED
  BY <1>2, <1>4, <1>5, <1>6, <1>8, <1>9, <1>10, <1>11 DEF HeldInv

LEMMA StepHeld == HeldInv /\ [Next]_vars => HeldInv'
<1> SUFFICES ASSUME HeldInv, [Next]_vars
             PROVE  HeldInv'
  OBVIOUS
<1>1. WithdrawalInv'
  BY StepExcused DEF HeldInv
<1>2. /\ TypeOK /\ WithdrawalInv /\ LegacyGrows
      /\ mr \in [Child -> ManagedResources]
      /\ refs \subseteq Child /\ plan.desired \subseteq Child
      /\ KeepsAnother(journal) /\ KeepsAnother(plan.journal)
      /\ RouteGone(journal) /\ RouteGone(plan.journal)
  BY DEF HeldInv, WithdrawalInv, AheadInv, IType, TypeOK
<1>3. Relied(journal) \subseteq Child /\ Relied(plan.journal) \subseteq Child
  BY PairsAreChildren DEF Relied
<1>r. \A j : KeepsAnother(j) /\ j.phase = "RetiringIntegration" =>
               Route(j.retire) \in Child
  BY ChildrenOfAType, PairsAreChildren DEF KeepsAnother, Decided, Committed
<1>4. CASE Turn
  <2>1. CASE journal.phase = "Absent"
    <3>1. LegacyTurn \/ FreshTurn \/ BootstrapTurn \/ PreserveTurn
      BY <1>4, <2>1 DEF Turn, StableTurn, BeginSwitchTurn, BuildTurn,
         ReplaceFreshTurn, CancelTurn, CancellingTurn, PreparedTurn,
         RetireRouteTurn, RetireIntegrationTurn
    <3> QED
      BY <1>1, <2>1, <3>1, UngovernedTurnsHeld
  <2>2. CASE journal.phase # "Absent"
    <3>1. ~LegacyTurn /\ ~FreshTurn /\ ~BootstrapTurn
      BY <2>2 DEF LegacyTurn, Governed, FreshTurn, BootstrapTurn
    <3> QED
      BY <1>1, <1>4, <2>2, <3>1, GovernedTurnsHeld, MigratingTurnsHeld DEF Turn
  <2> QED
    BY <2>1, <2>2
<1>5. ASSUME NEW k \in Child, CollectGarbage(k)
      PROVE  HeldInv'
  <2>1. /\ k \in Doomed /\ pc = "collect" /\ UNCHANGED <<journal, refs, pc, plan>>
        /\ mr' = [mr EXCEPT ![k].dying = TRUE]
    BY <1>5 DEF CollectGarbage
  <2>2. /\ k \notin plan.desired /\ mr[k].st # "absent"
    BY <2>1 DEF Doomed, Observed
  <2>3. \A c \in Child : /\ mr'[c].st = mr[c].st
                         /\ mr'[c].dying = (IF c = k THEN TRUE ELSE mr[c].dying)
    BY <1>2, <2>1 DEF ManagedResources
  <2>4. journal.phase # "Absent"
    BY <1>2, <2>1, <2>2 DEF LegacyGrows, Existing, Exists
  <2>5. Leaving(plan.journal, k) /\ Leaving(journal, k)
    <3>1. Leaving(plan.journal, k)
      BY <2>1, <2>4 DEF HeldInv
    <3>2. Excused(k)
      BY <1>2, <2>1, <2>4 DEF WithdrawalInv
    <3>3. journal.phase # "Stable"
      <4>1. ASSUME journal.phase = "Stable"
            PROVE  FALSE
        <5>1. journal.active \in Types /\ k \in Rendered(journal, journal.active)
          BY <1>2, <2>2, <4>1, StableRendersAll
             DEF Existing, Exists, WithdrawalInv, AheadInv, IType, NamesTypes
        <5>2. journal.to = None
          BY <1>2, <4>1 DEF WithdrawalInv, AheadInv, WellPlaced
        <5>3. k # Integration(None)
          <6>1. k = Integration(None) => None \in Types
            BY DEF Child, PairChild, SharedChild, Integration
          <6> QED
            BY <6>1, TypesAreNamed
        <5> QED
          BY <3>2, <4>1, <5>2, <5>3 DEF Excused, RetirementAuthorised, Committed
      <4> QED
        BY <4>1
    <3> QED
      BY <2>4, <3>1, <3>2, <3>3
         DEF Excused, RetirementAuthorised, Leaving, Retiring
  <2>6. /\ Relied(journal)' = Relied(journal)
        /\ Relied(plan.journal)' = Relied(plan.journal)
        /\ \A c : /\ Leaving(journal, c)' = Leaving(journal, c)
                  /\ Leaving(plan.journal, c)' = Leaving(plan.journal, c)
    BY <2>1 DEF Relied, Leaving, Retiring, Decided, Committed
  <2>7. Relied(journal) \subseteq plan.desired /\ Relied(plan.journal) \subseteq plan.desired
    BY <2>1 DEF HeldInv
  <2>8. /\ \A c \in Relied(journal) : c \in Observed' /\ ~mr'[c].dying
        /\ \A c \in Relied(plan.journal) : c \in plan.desired /\ ~mr'[c].dying
    BY <1>3, <2>1, <2>2, <2>3, <2>7 DEF HeldInv, Observed
  <2>9. Doomed' \subseteq Doomed
    BY <1>2, <2>1, <2>3 DEF Doomed, Observed
  <2>10. \A c \in Child : mr'[c].dying =>
           Leaving(journal, c) /\ Leaving(plan.journal, c)
    BY <2>1, <2>3, <2>4, <2>5 DEF HeldInv
  <2>11. \A c \in Doomed' : Leaving(plan.journal, c)
    BY <2>1, <2>4, <2>9 DEF HeldInv
  <2>12. RouteGone(journal)' /\ RouteGone(plan.journal)'
    BY <1>2, <1>r, <2>1, <2>3 DEF RouteGone
  <2>13. KeepsAnother(journal)' /\ KeepsAnother(plan.journal)'
    BY <1>2, <2>1 DEF KeepsAnother, Decided, Committed
  <2>14. \A c \in Child : mr'[c].st = "absent" => ~mr'[c].dying
    BY <2>2, <2>3 DEF HeldInv
  <2> QED
    BY <1>1, <2>1, <2>6, <2>7, <2>8, <2>10, <2>11, <2>12, <2>13, <2>14 DEF HeldInv
<1>6. CASE RecordReferences
  <2>1. /\ refs' = plan.desired /\ pc' = "create" /\ pc = "collect"
        /\ UNCHANGED <<journal, mr, plan>>
    BY <1>6 DEF RecordReferences
  <2>2. /\ Relied(journal)' = Relied(journal)
        /\ Relied(plan.journal)' = Relied(plan.journal)
        /\ \A c : /\ Leaving(journal, c)' = Leaving(journal, c)
                  /\ Leaving(plan.journal, c)' = Leaving(plan.journal, c)
    BY <2>1 DEF Relied, Leaving, Retiring, Decided, Committed
  <2>3. \A c \in Relied(journal) : c \in Observed' /\ ~mr'[c].dying
    BY <2>1 DEF HeldInv, Observed
  <2>4. RouteGone(journal)' /\ RouteGone(plan.journal)'
    BY <1>2, <2>1 DEF RouteGone
  <2>5. KeepsAnother(journal)' /\ KeepsAnother(plan.journal)'
    BY <1>2, <2>1 DEF KeepsAnother, Decided, Committed
  <2>6. journal'.phase # "Absent" =>
          \A c \in Child : mr'[c].dying =>
             Leaving(journal, c) /\ Leaving(plan.journal, c)
    BY <2>1 DEF HeldInv
  <2>7. /\ Relied(journal) \subseteq plan.desired
        /\ \A c \in Relied(plan.journal) : c \in plan.desired /\ ~mr'[c].dying
        /\ \A c \in Child : mr'[c].st = "absent" => ~mr'[c].dying
    BY <2>1 DEF HeldInv
  <2> QED
    BY <1>1, <2>1, <2>2, <2>3, <2>4, <2>5, <2>6, <2>7 DEF HeldInv
<1>7. ASSUME NEW k \in Child, Create(k)
      PROVE  HeldInv'
  <2>1. /\ k \in plan.desired /\ mr[k].st = "absent" /\ pc = "create"
        /\ UNCHANGED <<journal, refs, pc, plan>>
    BY <1>7 DEF Create, Missing
  <2>2. /\ \A c \in Child : c # k => mr'[c] = mr[c]
        /\ mr'[k].dying = mr[k].dying /\ mr'[k].st # "absent"
    <3> DEFINE new == [mr[k] EXCEPT
                         !.st = IF PinnedID(k) = 0 THEN "unnamed" ELSE "named",
                         !.uid = mr[k].uid + 1, !.id = PinnedID(k)]
    <3>1. new.dying = mr[k].dying /\ new.st # "absent"
      BY <1>2 DEF ManagedResources
    <3>2. mr' = [mr EXCEPT ![k] = new]
      BY <1>7 DEF Create
    <3> HIDE DEF new
    <3> QED
      BY <1>2, <3>1, <3>2
  <2>3. /\ Relied(journal)' = Relied(journal)
        /\ Relied(plan.journal)' = Relied(plan.journal)
        /\ \A c : /\ Leaving(journal, c)' = Leaving(journal, c)
                  /\ Leaving(plan.journal, c)' = Leaving(plan.journal, c)
    BY <2>1 DEF Relied, Leaving, Retiring, Decided, Committed
  <2>4. \A c \in Child : mr'[c].dying => mr[c].dying
    BY <2>2
  <2>5. /\ \A c \in Relied(journal) : c \in Observed' /\ ~mr'[c].dying
        /\ \A c \in Relied(plan.journal) : c \in plan.desired /\ ~mr'[c].dying
        /\ Relied(journal) \subseteq plan.desired
    BY <1>3, <2>1, <2>2, <2>4 DEF HeldInv, Observed
  <2>6. journal.phase # "Absent" =>
          \A c \in Child : mr'[c].dying =>
             Leaving(journal, c) /\ Leaving(plan.journal, c)
    BY <2>1, <2>4 DEF HeldInv
  <2>7. RouteGone(journal)' /\ RouteGone(plan.journal)'
    BY <1>2, <1>r, <2>1, <2>2 DEF RouteGone
  <2>8. KeepsAnother(journal)' /\ KeepsAnother(plan.journal)'
    BY <1>2, <2>1 DEF KeepsAnother, Decided, Committed
  <2>9. /\ \A c \in Child : mr'[c].st = "absent" => ~mr'[c].dying
        /\ refs' = plan'.desired
    BY <2>1, <2>2 DEF HeldInv
  <2> QED
    BY <1>1, <2>1, <2>3, <2>5, <2>6, <2>7, <2>8, <2>9 DEF HeldInv
<1>8. CASE PersistStatus
  <2>1. /\ journal' = plan.journal /\ pc' = "idle" /\ plan' = NoPlan
        /\ pc = "create" /\ UNCHANGED <<mr, refs>> /\ Missing = {}
    BY <1>8 DEF PersistStatus
  <2>2. /\ Relied(journal)' = Relied(plan.journal)
        /\ \A c : Leaving(journal, c)' = Leaving(plan.journal, c)
    BY <2>1 DEF Relied, Leaving, Retiring, Decided, Committed
  <2>3. \A c \in Relied(plan.journal) : c \in Observed' /\ ~mr'[c].dying
    BY <2>1 DEF HeldInv, Observed, Missing
  <2>4. journal'.phase # "Absent" =>
          \A c \in Child : mr'[c].dying => Leaving(plan.journal, c)
    BY <1>2, <2>1 DEF HeldInv, LegacyGrows
  <2>5. RouteGone(journal)' /\ KeepsAnother(journal)'
    BY <1>2, <2>1 DEF RouteGone, KeepsAnother, Decided, Committed
  <2>6. RouteGone(plan.journal)' /\ KeepsAnother(plan.journal)'
    BY <2>1 DEF RouteGone, KeepsAnother, Decided, Committed, NoPlan, NoJournal
  <2>7. \A c \in Child : mr'[c].st = "absent" => ~mr'[c].dying
    BY <2>1 DEF HeldInv
  <2> QED
    BY <1>1, <2>1, <2>2, <2>3, <2>4, <2>5, <2>6, <2>7 DEF HeldInv
<1>9. ASSUME NEW k \in Child,
             AssignExternalName(k) \/ BecomeCurrent(k) \/ Finalise(k)
               \/ LoseCurrent(k)
      PROVE  HeldInv'
  <2>1. UNCHANGED <<journal, refs, pc, plan>>
    BY <1>9 DEF AssignExternalName, BecomeCurrent, Finalise, LoseCurrent,
                ProviderVars
  <2> QED
    BY <1>1, <1>2, <1>9, <2>1, ChildSteps, QuietHeld
<1>10. CASE OpenAdmission \/ CloseAdmission
             \/ (\E s \in Types \cup {None} : EditSelection(s))
             \/ UNCHANGED vars
  <2>1. UNCHANGED <<journal, mr, refs, pc, plan>>
    BY <1>10 DEF OpenAdmission, CloseAdmission, EditSelection, vars
  <2> QED
    BY <1>1, <2>1, QuietHeld DEF Undisturbed
<1>11. CASE Crash
  <2>1. /\ pc' = "idle" /\ plan' = NoPlan /\ UNCHANGED <<journal, mr, refs>>
    BY <1>11 DEF Crash
  <2>2. /\ Relied(journal)' = Relied(journal)
        /\ \A c : Leaving(journal, c)' = Leaving(journal, c)
    BY <2>1 DEF Relied, Leaving, Retiring, Decided, Committed
  <2>3. \A c \in Relied(journal) : c \in Observed' /\ ~mr'[c].dying
    BY <2>1 DEF HeldInv, Observed
  <2>4. journal'.phase # "Absent" =>
          \A c \in Child : mr'[c].dying => Leaving(journal, c)
    BY <2>1 DEF HeldInv
  <2>5. RouteGone(journal)' /\ KeepsAnother(journal)'
    BY <1>2, <2>1 DEF RouteGone, KeepsAnother, Decided, Committed
  <2>6. RouteGone(plan.journal)' /\ KeepsAnother(plan.journal)'
    BY <2>1 DEF RouteGone, KeepsAnother, Decided, Committed, NoPlan, NoJournal
  <2>7. \A c \in Child : mr'[c].st = "absent" => ~mr'[c].dying
    BY <2>1 DEF HeldInv
  <2> QED
    BY <1>1, <2>1, <2>2, <2>3, <2>4, <2>5, <2>6, <2>7 DEF HeldInv
<1> QED
  BY <1>4, <1>5, <1>6, <1>7, <1>8, <1>9, <1>10, <1>11
     DEF Next, Apply, Environment, Provider

LEMMA HeldInitial == Init => HeldInv
<1> SUFFICES ASSUME Init
             PROVE  HeldInv
  OBVIOUS
<1>1. WithdrawalInv
  BY WithdrawalInitial
<1>2. \A k \in Child : mr[k].st = "absent" /\ ~mr[k].dying
  BY DEF Init, AbsentMR
<1>3. /\ journal = NoJournal /\ plan.journal = NoJournal /\ pc = "idle"
      /\ NoJournal.phase = "Absent"
  BY DEF Init, NoPlan, NoJournal
<1> QED
  BY <1>1, <1>2, <1>3, NothingRelied DEF HeldInv, RouteGone

(* The Route of an established type never outlives its Integration, however *)
(* retirements, replacements, crashes and closed gates interleave.          *)
THEOREM RouteNeverAlone == Spec => []RouteRestsOnIntegration
<1>1. HeldInv => RouteRestsOnIntegration
  <2> SUFFICES ASSUME HeldInv, NEW t \in Types, Exists(Route(t)),
                      ~Unestablished(t)
               PROVE  Alive(Integration(t))
    BY DEF RouteRestsOnIntegration
  <2>1. /\ IType /\ WellPlaced(journal) /\ LegacyGrows /\ Planned
        /\ RouteGone(journal) /\ KeepsAnother(journal)
    BY DEF HeldInv, WithdrawalInv, AheadInv
  <2>2. /\ Route(t) \in Child /\ Integration(t) \in PairChild
        /\ Integration(t) \in Child /\ t # None
        /\ Route(t) \in Existing
    BY ChildrenOfAType, PairsAreChildren, TypesAreNamed DEF Existing
  <2>n. /\ \A s : Route(t) = Route(s) => t = s
        /\ \A s : Route(t) # Integration(s)
        /\ \A s : Integration(t) # Route(s)
        /\ \A s : Integration(t) = Integration(s) => t = s
        /\ Route(t) \notin SharedChild
    BY DEF Route, Integration, SharedChild
  <2>3. CASE journal.phase = "Absent"
    <3>1. Route(t) \in LegacyRendered
      BY <2>1, <2>2, <2>3 DEF LegacyGrows
    <3>2. t = InboundEmail /\ Named(Integration(InboundEmail))
      BY <2>n, <3>1 DEF LegacyRendered, LegacyShared
    <3> QED
      BY <2>1, <2>2, <2>3, <3>2 DEF LegacyGrows, Named, Alive, Exists
  <2>4. ASSUME Integration(t) \in Relied(journal)
        PROVE  Alive(Integration(t))
    BY <2>4 DEF HeldInv, Observed, Alive, Exists
  <2>5. CASE journal.phase # "Absent"
    <3>1. Route(t) \in Authorised(journal)
      BY <2>1, <2>2, <2>5 DEF Planned
    <3>2. CASE journal.phase = "Stable"
      <4>1. t = journal.active
        BY <2>1, <2>n, <3>1, <3>2 DEF Authorised, WellPlaced, Pair
      <4>2. ~Retiring(journal, Integration(t))
        BY <3>2 DEF Retiring, Committed
      <4> QED
        BY <2>2, <2>4, <3>2, <4>1, <4>2 DEF Relied, Pair
    <3>3. CASE journal.phase # "Stable"
      <4>1. /\ journal.from # None
            /\ (t = journal.from /\ ~journal.incomplete)
                 \/ (t = journal.to /\ journal.route)
        <5>1. journal.from = None => journal.active = None
          BY <2>1, <2>5, <3>3 DEF WellPlaced
        <5>2. journal.from # None => journal.active \in {None, journal.from}
          BY <2>1, <2>5, <3>3 DEF WellPlaced
        <5>3. t \in {journal.active, journal.from} \ {None}
                \/ (t = journal.to /\ journal.route)
          BY <2>n, <3>1 DEF Authorised, Pair
        <5> QED
          BY <2>2, <5>1, <5>2, <5>3 DEF Unestablished
      <4>2. ~Retiring(journal, Integration(t))
        <5>1. SUFFICES ASSUME Retiring(journal, Integration(t))
                       PROVE  FALSE
          OBVIOUS
        <5>2. journal.phase = "RetiringIntegration" /\ journal.retire = t
          BY <2>n, <5>1 DEF Retiring
        <5> QED
          BY <2>1, <5>2 DEF RouteGone, Exists
      <4> QED
        BY <2>2, <2>4, <2>5, <3>3, <4>1, <4>2 DEF Relied, Pair
    <3> QED
      BY <3>2, <3>3
  <2> QED
    BY <2>3, <2>5
<1> QED
  BY <1>1, HeldInitial, StepHeld, PTL DEF Spec

LEMMA HandoverStep ==
  HeldInv /\ PlanIsFinal /\ [Next]_vars => [Handover!Next]_(Handover!vars)
<1> SUFFICES ASSUME HeldInv, PlanIsFinal, [Next]_vars
             PROVE  Handover!Next \/ UNCHANGED Handover!vars
  OBVIOUS
<1> DEFINE S == {t \in Types : Alive(Route(t))}
           L == IF Committed(journal) THEN journal.retire ELSE None
<1>1. S' = S /\ L' = L => UNCHANGED Handover!vars
  BY DEF Handover!vars
<1>2. UNCHANGED journal => L' = L
  BY DEF Committed
<1>3. UNCHANGED mr => S' = S
  BY DEF Alive, Exists
<1>4. /\ TypeOK /\ WithdrawalInv /\ mr \in [Child -> ManagedResources]
      /\ IType /\ LegacyGrows
  BY DEF HeldInv, WithdrawalInv, AheadInv, IType, TypeOK
<1>n. /\ \A s, t : Route(s) = Route(t) => s = t
      /\ \A s, t : Route(s) # Integration(t)
      /\ \A t \in Types : Route(t) \in Child
  BY ChildrenOfAType, PairsAreChildren DEF Route, Integration
<1>5. CASE Turn
  <2>1. UNCHANGED <<journal, mr>>
    BY <1>5 DEF Turn, LegacyTurn, FreshTurn, BootstrapTurn, PreserveTurn,
       StableTurn, BeginSwitchTurn, BuildTurn, ReplaceFreshTurn, CancelTurn,
       CancellingTurn, PreparedTurn, RetireRouteTurn, RetireIntegrationTurn,
       Return
  <2> QED
    BY <1>1, <1>2, <1>3, <2>1
<1>6. ASSUME NEW k \in Child, CollectGarbage(k)
      PROVE  Handover!Next \/ UNCHANGED Handover!vars
  <2>1. /\ k \in Doomed /\ pc = "collect" /\ UNCHANGED journal
        /\ \A c \in Child : /\ mr'[c].st = mr[c].st
                            /\ mr'[c].dying = (IF c = k THEN TRUE ELSE mr[c].dying)
    BY <1>4, <1>6 DEF CollectGarbage, ManagedResources
  <2>2. L' = L
    BY <1>2, <2>1
  <2>3. Alive(k) /\ k \notin plan.desired
    BY <2>1 DEF Doomed, Observed, Alive, Exists
  <2>4. Excused(k)
    <3>1. journal.phase # "Absent"
      BY <1>4, <2>1, <2>3 DEF LegacyGrows, Existing, Alive
    <3> QED
      BY <1>4, <2>1, <3>1 DEF WithdrawalInv
  <2>5. CASE \E t \in Types : k = Route(t)
    <3>1. PICK t \in Types : k = Route(t)
      BY <2>5
    <3>2. L = t
      BY <1>n, <2>4, <3>1 DEF Excused, RetirementAuthorised
    <3>3. t \in S /\ S' = S \ {t}
      <4>1. \A s \in Types : Alive(Route(s))' <=> Alive(Route(s)) /\ s # t
        <5> SUFFICES ASSUME NEW s \in Types
                     PROVE  Alive(Route(s))' <=> Alive(Route(s)) /\ s # t
          OBVIOUS
        <5>1. Route(s) \in Child /\ (Route(s) = k <=> s = t)
          BY <1>n, <3>1
        <5>2. /\ mr'[Route(s)].st = mr[Route(s)].st
              /\ mr'[Route(s)].dying =
                   (IF Route(s) = k THEN TRUE ELSE mr[Route(s)].dying)
          BY <2>1, <5>1
        <5> QED
          BY <5>1, <5>2 DEF Alive, Exists
      <4>2. Alive(Route(t))
        BY <2>3, <3>1
      <4> QED
        BY <4>1, <4>2
    <3>4. Handover!Withdraw(t)
      BY <2>2, <3>2, <3>3 DEF Handover!Withdraw
    <3> QED
      BY <3>4 DEF Handover!Next
  <2>6. CASE ~ \E t \in Types : k = Route(t)
    <3>1. S' = S
      BY <1>n, <2>1, <2>6 DEF Alive, Exists
    <3> QED
      BY <1>1, <2>2, <3>1
  <2> QED
    BY <2>5, <2>6
<1>7. CASE RecordReferences \/ Crash \/ OpenAdmission \/ CloseAdmission
             \/ (\E s \in Types \cup {None} : EditSelection(s))
             \/ UNCHANGED vars
  BY <1>1, <1>2, <1>3, <1>7
     DEF RecordReferences, Crash, OpenAdmission, CloseAdmission, EditSelection,
         vars
<1>8. ASSUME NEW k \in Child, Create(k)
      PROVE  Handover!Next \/ UNCHANGED Handover!vars
  <2>1. /\ mr[k].st = "absent" /\ UNCHANGED journal
        /\ ~mr[k].dying
    BY <1>8 DEF Create, Missing, HeldInv
  <2>2. /\ \A c \in Child : c # k => mr'[c] = mr[c]
        /\ mr'[k].dying = mr[k].dying /\ mr'[k].st # "absent"
    <3> DEFINE new == [mr[k] EXCEPT
                         !.st = IF PinnedID(k) = 0 THEN "unnamed" ELSE "named",
                         !.uid = mr[k].uid + 1, !.id = PinnedID(k)]
    <3>1. new.dying = mr[k].dying /\ new.st # "absent"
      BY <1>4 DEF ManagedResources
    <3>2. mr' = [mr EXCEPT ![k] = new]
      BY <1>8 DEF Create
    <3> HIDE DEF new
    <3> QED
      BY <1>4, <3>1, <3>2
  <2>3. L' = L
    BY <1>2, <2>1
  <2>4. CASE \E t \in Types : k = Route(t)
    <3>1. PICK t \in Types : k = Route(t)
      BY <2>4
    <3>2. t \notin S /\ S' = S \cup {t}
      BY <1>n, <2>1, <2>2, <3>1 DEF Alive, Exists
    <3>3. Handover!Serve(t)
      BY <2>3, <3>2 DEF Handover!Serve
    <3> QED
      BY <3>3 DEF Handover!Next
  <2>5. CASE ~ \E t \in Types : k = Route(t)
    <3>1. S' = S
      BY <1>n, <2>2, <2>5 DEF Alive, Exists
    <3> QED
      BY <1>1, <2>3, <3>1
  <2> QED
    BY <2>4, <2>5
<1>9. CASE PersistStatus
  <2>1. /\ journal' = plan.journal /\ UNCHANGED mr /\ pc = "create"
        /\ Missing = {}
    BY <1>9 DEF PersistStatus
  <2>2. S' = S
    BY <1>3, <2>1
  <2>3. CASE Committed(journal)
    <3>1. \/ Committed(journal') /\ journal'.retire = journal.retire
          \/ /\ journal'.phase = "Stable"
             /\ \A k \in Pair(journal.retire) : ~Exists(k)
      <4>1. \/ Continues(journal, plan.journal)
            \/ Concludes(journal, plan.journal) /\ Gone(journal.retire)
        BY <2>1, <2>3 DEF PlanIsFinal
      <4> QED
        BY <2>1, <4>1 DEF Continues, Concludes, Gone, Exists
    <3>2. CASE Committed(journal') /\ journal'.retire = journal.retire
      BY <1>1, <2>2, <2>3, <3>2
    <3>3. CASE journal'.phase = "Stable" /\ \A k \in Pair(journal.retire) : ~Exists(k)
      <4>1. journal.retire \in Types /\ journal.retire # None
        BY <2>3, TypesAreNamed DEF HeldInv, KeepsAnother, Decided
      <4>2. L = journal.retire /\ L' = None
        BY <2>3, <3>3 DEF Committed
      <4>3. journal.retire \notin S
        BY <3>3 DEF Alive, Pair
      <4>4. Handover!Conclude
        BY <2>2, <4>1, <4>2, <4>3 DEF Handover!Conclude
      <4> QED
        BY <4>4 DEF Handover!Next
    <3> QED
      BY <3>1, <3>2, <3>3
  <2>4. CASE ~Committed(journal) /\ Committed(plan.journal)
    <3>1. /\ plan.journal.keep \in Types /\ plan.journal.retire \in Types
          /\ plan.journal.keep # plan.journal.retire
      BY <2>4 DEF HeldInv, KeepsAnother, Decided
    <3>2. plan.journal.from # None
      <4>1. NamesTypes(plan.journal)
        BY <1>4 DEF IType
      <4> QED
        BY <2>4, <4>1, TypesAreNamed DEF NamesTypes, Committed
    <3>3. Route(plan.journal.keep) \in Relied(plan.journal)
      <4>1. ~Retiring(plan.journal, Route(plan.journal.keep))
        BY <1>n, <3>1 DEF Retiring
      <4> QED
        BY <2>4, <3>1, <3>2, <4>1, ChildrenOfAType
           DEF Relied, Decided, Committed, Pair
    <3>4. plan.journal.keep \in S
      BY <2>1, <3>1, <3>3 DEF HeldInv, Missing, Alive, Exists
    <3>5. L = None /\ L' = plan.journal.retire
      BY <2>1, <2>4 DEF Committed
    <3>6. Handover!Decide(plan.journal.retire)
      BY <2>2, <3>1, <3>4, <3>5 DEF Handover!Decide
    <3> QED
      BY <3>1, <3>6 DEF Handover!Next
  <2>5. CASE ~Committed(journal) /\ ~Committed(plan.journal)
    <3>1. L' = L
      BY <2>1, <2>5 DEF Committed
    <3> QED
      BY <1>1, <2>2, <3>1
  <2> QED
    BY <2>3, <2>4, <2>5
<1>10. ASSUME NEW k \in Child,
              AssignExternalName(k) \/ BecomeCurrent(k) \/ Finalise(k)
                \/ LoseCurrent(k)
       PROVE  Handover!Next \/ UNCHANGED Handover!vars
  <2>1. UNCHANGED journal
    BY <1>10 DEF AssignExternalName, BecomeCurrent, Finalise, LoseCurrent,
                 ProviderVars
  <2>2. \A c \in Child : Alive(c)' = Alive(c)
    BY <1>4, <1>10, ChildSteps DEF Undisturbed, Alive, Exists
  <2>3. S' = S
    BY <1>n, <2>2
  <2> QED
    BY <1>1, <1>2, <2>1, <2>3
<1> QED
  BY <1>5, <1>6, <1>7, <1>8, <1>9, <1>10
     DEF Next, Apply, Environment, Provider

(* The migration implements the abstract handover: every step of a          *)
(* reconcile, of the provider or of a user is a step of PagingHandover or   *)
(* leaves it alone.                                                         *)
THEOREM HandoverImplemented == Spec => ImplementsHandover
<1>1. Init => Handover!Init
  <2> SUFFICES ASSUME Init
               PROVE  Handover!Init
    OBVIOUS
  <2>1. \A t \in Types : ~Alive(Route(t))
    BY ChildrenOfAType, PairsAreChildren DEF Init, Alive, Exists, AbsentMR
  <2>2. ~Committed(journal)
    BY DEF Init, NoJournal, Committed
  <2> QED
    BY <2>1, <2>2 DEF Handover!Init
<1>2. Init => PlanIsFinal
  BY DEF Init, PlanIsFinal
<1> QED
  BY <1>1, <1>2, HeldInitial, StepHeld, TypesInductive, PlanIsFinalInductive,
     HandoverStep, PTL DEF Spec, ImplementsHandover, Handover!Spec

(* As long as the retirement of a type is committed, the Route of another   *)
(* type exists and is not being deleted.                                    *)
THEOREM AlwaysServed == Spec => []Handover!NeverUnserved
BY HandoverImplemented, HandoverServes, PTL

-----------------------------------------------------------------------------
(* The inventory and the children agree.  An inventoried identity is pinned *)
(* when its child is created, no capture replaces it, and a child that has  *)
(* no external name yet is one that no journal inventories.                 *)

Adopted(j) == \A k \in PairChild : Exists(k) /\ j.id[k] # 0 => mr[k].id = j.id[k]

NothingInventoried(j) ==
  j.phase = "Absent" => \A k \in PairChild : j.id[k] = 0

IdentityInv ==
  /\ HeldInv
  /\ \A k \in Child : mr[k].st \in {"absent", "unnamed"} => mr[k].id = 0
  /\ NothingInventoried(journal) /\ NothingInventoried(plan.journal)
  /\ Adopted(journal)
  /\ pc # "idle" =>
       /\ Adopted(plan.journal)
       /\ \A k \in PairChild :
            journal.id[k] # 0 => plan.journal.id[k] = journal.id[k]

LEMMA CaptureAdopts ==
  ASSUME NEW j \in Journals, NEW t \in Types, Adopted(j)
  PROVE  Adopted(Capture(j, t))
<1>1. \A k \in PairChild :
        Capture(j, t).id[k] = IF k \in Pair(t) \cap Observed THEN mr[k].id
                                                            ELSE j.id[k]
  BY DEF Capture, Journals
<1> QED
  BY <1>1 DEF Adopted

LEMMA CapturedAdopts ==
  ASSUME IType, Adopted(journal), journal.phase \notin {"Absent", "Stable"}
  PROVE  Adopted(Captured)
<1>1. TypeOK /\ journal \in Journals /\ journal.to \in Types
  BY DEF IType, TypeOK, NamesTypes
<1>2. CASE journal.from = None
  <2> DEFINE c == CaptureShared(journal)
  <2>1. c \in Journals /\ Captured = Capture(c, journal.to)
    BY <1>1, <1>2, CaptureSharedType DEF Captured, CaptureTransition
  <2>2. c.id = journal.id
    BY <1>1 DEF CaptureShared, Journals
  <2> HIDE DEF c
  <2>3. Adopted(c)
    BY <2>2 DEF Adopted
  <2> QED
    BY <1>1, <2>1, <2>3, CaptureAdopts
<1>3. CASE journal.from # None
  <2> DEFINE c == Capture(journal, journal.from)
  <2>1. journal.from \in Types
    BY <1>1, <1>3 DEF Journals, MaybeType
  <2>2. c \in Journals /\ Captured = Capture(c, journal.to)
    BY <1>1, <1>3, CaptureType DEF Captured, CaptureTransition
  <2>3. Adopted(c)
    BY <1>1, <2>1, CaptureAdopts
  <2> HIDE DEF c
  <2> QED
    BY <1>1, <2>2, <2>3, CaptureAdopts
<1> QED
  BY <1>2, <1>3

(* What a turn makes of the inventory: it keeps it, captures into it, or    *)
(* opens one.                                                               *)
LEMMA TurnInventory ==
  ASSUME IType, Turn
  PROVE  \/ /\ plan'.journal.id = journal.id
            /\ plan'.journal.phase = "Absent" => journal.phase = "Absent"
         \/ /\ journal.phase \notin {"Absent", "Stable"} /\ Migrates
            /\ plan'.journal.id = Captured.id /\ plan'.journal.phase # "Absent"
         \/ /\ journal.phase = "Absent" /\ plan'.journal.phase # "Absent"
            /\ \/ plan'.journal.id = NoJournal.id
               \/ plan'.journal.id = Predecessor.id
<1>1. /\ TypeOK /\ journal \in Journals /\ Captured \in Journals
      /\ Captured.phase = journal.phase
  BY CapturedType DEF IType, TypeOK
<1>2. \A j, d : Return(j, d) => plan'.journal = j
  BY DEF Return
<1>3. CASE LegacyTurn \/ PreserveTurn \/ StableTurn
  BY <1>2, <1>3 DEF LegacyTurn, PreserveTurn, StableTurn
<1>4. CASE FreshTurn
  <2>1. plan'.journal = Building(NoJournal, None, Selected, 1)
    BY <1>2, <1>4 DEF FreshTurn
  <2>2. NoJournal \in Journals
    BY NoJournalType DEF WellFormed
  <2>3. plan'.journal.id = NoJournal.id /\ plan'.journal.phase = "Building"
    BY <2>1, <2>2 DEF Building, Journals
  <2> QED
    BY <1>4, <2>3 DEF FreshTurn
<1>5. CASE BootstrapTurn
  <2> DEFINE s == Settled(Predecessor, InboundEmail)
             b == Building(s, InboundEmail, Selected, 0)
  <2>1. [NoJournal EXCEPT !.bound = Stages] \in Journals
    BY NoJournalType, StageBounds DEF WellFormed, Journals
  <2>2. Predecessor \in Journals
    BY <1>1, <2>1, CaptureType DEF Predecessor
  <2>3. s \in Journals
    BY <2>2, SettledType DEF WellFormed, Types
  <2>4. s.id = Predecessor.id /\ s.phase = "Stable"
    BY <2>2 DEF Settled, Journals
  <2>5. b.id = s.id /\ b.phase = "Building"
    BY <2>3 DEF Building, Journals
  <2>6. plan'.journal = s \/ plan'.journal = b
    BY <1>2, <1>5 DEF BootstrapTurn
  <2> HIDE DEF s, b
  <2> QED
    BY <1>5, <2>4, <2>5, <2>6 DEF BootstrapTurn
<1>6. CASE BeginSwitchTurn
  <2> DEFINE readopted == [journal EXCEPT
           !.state[Selected] = IF @ = None THEN None ELSE "Active",
           !.uid = [k \in PairChild |->
                      IF k \in Pair(Selected) THEN 0 ELSE @[k]]]
             j == Building(readopted, journal.active, Selected, 0)
  <2>1. readopted \in Journals /\ readopted.id = journal.id
    BY <1>1 DEF Journals
  <2>2. plan'.journal = j
    BY <1>2, <1>6 DEF BeginSwitchTurn
  <2> HIDE DEF readopted
  <2>3. j.id = readopted.id /\ j.phase = "Building"
    BY <2>1 DEF Building, Journals
  <2> QED
    BY <2>1, <2>2, <2>3
<1>7. CASE ReplaceFreshTurn
  <2> DEFINE j == [Building(journal, journal.to, Selected, journal.planned) EXCEPT
                     !.incomplete = TRUE, !.srcRoute = journal.route]
  <2>1. plan'.journal = j
    BY <1>2, <1>7 DEF ReplaceFreshTurn
  <2>2. j.id = journal.id /\ j.phase = "Building"
    BY <1>1 DEF Building, Journals
  <2> QED
    BY <2>1, <2>2
<1>8. CASE BuildTurn \/ CancelTurn \/ CancellingTurn \/ PreparedTurn
             \/ RetireRouteTurn \/ RetireIntegrationTurn
  <2>1. journal.phase \notin {"Absent", "Stable"} /\ Migrates
    BY <1>8 DEF BuildTurn, CancelTurn, CancellingTurn, PreparedTurn,
       RetireRouteTurn, RetireIntegrationTurn
  <2>2. plan'.journal.id = Captured.id /\ plan'.journal.phase # "Absent"
    <3>1. CASE BuildTurn
      <4>1. \/ plan'.journal = [Captured EXCEPT !.route = TRUE]
            \/ plan'.journal = Settled(Captured, journal.to)
            \/ plan'.journal = [Captured EXCEPT !.phase = "Prepared",
                                  !.keep = journal.to, !.retire = journal.from]
            \/ plan'.journal = Captured
        BY <1>2, <3>1 DEF BuildTurn
      <4> QED
        BY <1>1, <2>1, <4>1 DEF Settled, Journals
    <3>2. CASE CancelTurn
      <4> DEFINE p == IF journal.phase = "Prepared" THEN "RetiringRoute"
                                                    ELSE "Cancelling"
      <4>1. plan'.journal = [Captured EXCEPT !.disp = "cancellation", !.phase = p]
        BY <1>2, <3>2 DEF CancelTurn
      <4> QED
        BY <1>1, <4>1 DEF Journals
    <3>3. CASE CancellingTurn
      <4>1. \/ plan'.journal = [Captured EXCEPT !.phase = "Prepared",
                                  !.keep = journal.from, !.retire = journal.to]
            \/ plan'.journal = Captured
        BY <1>2, <3>3 DEF CancellingTurn
      <4> QED
        BY <1>1, <2>1, <4>1 DEF Journals
    <3>4. CASE PreparedTurn
      BY <1>1, <1>2, <3>4 DEF PreparedTurn, Journals
    <3>5. CASE RetireRouteTurn
      <4>1. \/ plan'.journal = [Captured EXCEPT !.phase = "RetiringIntegration"]
            \/ plan'.journal = Captured
        BY <1>2, <3>5 DEF RetireRouteTurn
      <4> QED
        BY <1>1, <2>1, <4>1 DEF Journals
    <3>6. CASE RetireIntegrationTurn
      <4> DEFINE c == [Captured EXCEPT !.state[journal.retire] = "Retired"]
      <4>1. plan'.journal = Settled(c, journal.keep) \/ plan'.journal = Captured
        BY <1>2, <3>6 DEF RetireIntegrationTurn
      <4>2. c \in Journals /\ c.id = Captured.id
        BY <1>1 DEF Journals
      <4> HIDE DEF c
      <4>3. /\ Settled(c, journal.keep).id = c.id
            /\ Settled(c, journal.keep).phase = "Stable"
        BY <4>2 DEF Settled, Journals
      <4> QED
        BY <1>1, <2>1, <4>1, <4>2, <4>3
    <3> QED
      BY <1>8, <3>1, <3>2, <3>3, <3>4, <3>5, <3>6
  <2> QED
    BY <2>1, <2>2
<1> QED
  BY <1>3, <1>4, <1>5, <1>6, <1>7, <1>8 DEF Turn

(* A turn plans an inventory that extends the persisted one and agrees with *)
(* the children.                                                            *)
LEMMA TurnKeepsIdentity ==
  ASSUME IdentityInv, HeldInv', Turn
  PROVE  IdentityInv'
<1>1. /\ IType /\ Adopted(journal) /\ NothingInventoried(journal)
      /\ WithdrawalInv
  BY DEF IdentityInv, HeldInv, WithdrawalInv, AheadInv
<1>2. UNCHANGED <<journal, mr>> /\ pc' = "collect"
  BY DEF Turn, LegacyTurn, FreshTurn, BootstrapTurn, PreserveTurn, StableTurn,
     BeginSwitchTurn, BuildTurn, ReplaceFreshTurn, CancelTurn, CancellingTurn,
     PreparedTurn, RetireRouteTurn, RetireIntegrationTurn, Return
<1>3. /\ Adopted(plan'.journal) /\ NothingInventoried(plan'.journal)
      /\ \A k \in PairChild :
           journal.id[k] # 0 => plan'.journal.id[k] = journal.id[k]
  <2>1. CASE /\ plan'.journal.id = journal.id
             /\ plan'.journal.phase = "Absent" => journal.phase = "Absent"
    BY <1>1, <2>1 DEF Adopted, NothingInventoried
  <2>2. CASE /\ journal.phase \notin {"Absent", "Stable"} /\ Migrates
             /\ plan'.journal.id = Captured.id /\ plan'.journal.phase # "Absent"
    <3>1. Adopted(Captured)
      BY <1>1, <2>2, CapturedAdopts
    <3>2. \A k \in PairChild :
            journal.id[k] # 0 => Captured.id[k] = journal.id[k]
      BY <1>1, <2>2, CapturedProgress
    <3> QED
      BY <2>2, <3>1, <3>2 DEF Adopted, NothingInventoried
  <2>3. CASE /\ journal.phase = "Absent" /\ plan'.journal.phase # "Absent"
             /\ \/ plan'.journal.id = NoJournal.id
                \/ plan'.journal.id = Predecessor.id
    <3>1. \A k \in PairChild : NoJournal.id[k] = 0
      BY DEF NoJournal
    <3>2. Adopted(Predecessor)
      <4> DEFINE j == [NoJournal EXCEPT !.bound = Stages]
      <4>1. j \in Journals /\ j.id = NoJournal.id
        BY NoJournalType, StageBounds DEF WellFormed, Journals
      <4>2. Predecessor = Capture(j, InboundEmail) /\ InboundEmail \in Types
        BY DEF Predecessor, Types
      <4> HIDE DEF j
      <4>3. Adopted(j)
        BY <3>1, <4>1 DEF Adopted
      <4> QED
        BY <4>1, <4>2, <4>3, CaptureAdopts
    <3> QED
      BY <1>1, <2>3, <3>1, <3>2 DEF Adopted, NothingInventoried
  <2> QED
    BY <1>1, <2>1, <2>2, <2>3, TurnInventory
<1> QED
  BY <1>2, <1>3 DEF IdentityInv, Adopted, NothingInventoried, Exists

(* A child comes into being with the identity the journals give it, and     *)
(* changes it only if it had none.                                          *)
Identified(k) ==
  mr'[k].st # "absent" =>
    \/ /\ mr[k].st # "absent"
       /\ mr'[k].id = mr[k].id \/ mr[k].st = "unnamed"
    \/ pc # "idle" /\ mr'[k].id = plan.journal.id[k]

LEMMA IdentityKept ==
  ASSUME IdentityInv, HeldInv', UNCHANGED <<journal, pc, plan>>,
         \A k \in PairChild : Identified(k),
         \A k \in Child : mr'[k].st \in {"absent", "unnamed"} => mr'[k].id = 0
  PROVE  IdentityInv'
<1>1. ASSUME NEW j, Adopted(j), NEW k \in PairChild,
             pc # "idle" /\ j.id[k] # 0 => plan.journal.id[k] = j.id[k],
             mr'[k].st # "absent", j.id[k] # 0
      PROVE  mr'[k].id = j.id[k]
  <2>1. mr[k].st = "unnamed" => mr[k].id = 0
    BY PairsAreChildren DEF IdentityInv
  <2> QED
    BY <1>1, <2>1 DEF Adopted, Identified, Exists
<1>2. Adopted(journal)' /\ (pc # "idle" => Adopted(plan.journal)')
  BY <1>1 DEF IdentityInv, Adopted, Exists
<1> QED
  BY <1>2 DEF IdentityInv, NothingInventoried

LEMMA IdentityStep == IdentityInv /\ [Next]_vars => IdentityInv'
<1> SUFFICES ASSUME IdentityInv, [Next]_vars
             PROVE  IdentityInv'
  OBVIOUS
<1>1. HeldInv'
  BY StepHeld DEF IdentityInv
<1>2. TypeOK /\ mr \in [Child -> ManagedResources] /\ plan.journal \in Journals
  BY DEF IdentityInv, HeldInv, WithdrawalInv, AheadInv, IType, TypeOK
<1>3. CASE Turn
  BY <1>1, <1>3, TurnKeepsIdentity
<1>4. ASSUME NEW c \in Child,
             CollectGarbage(c) \/ AssignExternalName(c) \/ BecomeCurrent(c)
               \/ Finalise(c) \/ LoseCurrent(c) \/ Create(c)
      PROVE  IdentityInv'
  <2> DEFINE after == mr'[c]
             created == [mr[c] EXCEPT
                           !.st = IF PinnedID(c) = 0 THEN "unnamed" ELSE "named",
                           !.uid = mr[c].uid + 1, !.id = PinnedID(c)]
             assigned == [mr[c] EXCEPT !.st = "named", !.id = mr[c].made + 1,
                                       !.made = mr[c].made + 1]
  <2>1. UNCHANGED <<journal, pc, plan>>
    BY <1>4 DEF CollectGarbage, AssignExternalName, BecomeCurrent, Finalise,
                LoseCurrent, Create, ProviderVars
  <2>2. /\ \A k \in Child : k # c => mr'[k] = mr[k]
        /\ \/ after.st = mr[c].st /\ after.id = mr[c].id
           \/ after.st = "named" /\ mr[c].st = "unnamed"
           \/ /\ after.st \in {"named", "current"} /\ after.id = mr[c].id
              /\ mr[c].st # "absent"
           \/ after.st = "absent" /\ after.id = 0
           \/ /\ pc # "idle" /\ after.id = PinnedID(c)
              /\ after.st = IF PinnedID(c) = 0 THEN "unnamed" ELSE "named"
    <3>1. CASE CollectGarbage(c)
      BY <1>2, <3>1 DEF CollectGarbage, ManagedResources
    <3>2. CASE AssignExternalName(c)
      <4>1. assigned.st = "named"
        BY <1>2 DEF ManagedResources
      <4>2. mr' = [mr EXCEPT ![c] = assigned] /\ mr[c].st = "unnamed"
        BY <3>2 DEF AssignExternalName
      <4> HIDE DEF assigned
      <4> QED
        BY <1>2, <4>1, <4>2
    <3>3. CASE BecomeCurrent(c)
      BY <1>2, <3>3 DEF BecomeCurrent, ManagedResources
    <3>4. CASE LoseCurrent(c)
      BY <1>2, <3>4 DEF LoseCurrent, ManagedResources
    <3>5. CASE Finalise(c)
      BY <1>2, <3>5 DEF Finalise, ManagedResources
    <3>6. CASE Create(c)
      <4>1. /\ created.st = (IF PinnedID(c) = 0 THEN "unnamed" ELSE "named")
            /\ created.id = PinnedID(c)
        BY <1>2 DEF ManagedResources
      <4>2. mr' = [mr EXCEPT ![c] = created] /\ pc # "idle"
        BY <3>6 DEF Create
      <4> HIDE DEF created
      <4> QED
        BY <1>2, <4>1, <4>2
    <3> QED
      BY <1>4, <3>1, <3>2, <3>3, <3>4, <3>5, <3>6
  <2> HIDE DEF created, assigned
  <2>3. \A k \in PairChild : Identified(k)
    <3> SUFFICES ASSUME NEW k \in PairChild
                 PROVE  Identified(k)
      OBVIOUS
    <3>1. CASE k # c
      BY <2>2, <3>1, PairsAreChildren DEF Identified
    <3>2. CASE k = c
      BY <2>2, <3>2 DEF Identified, PinnedID
    <3> QED
      BY <3>1, <3>2
  <2>4. \A k \in Child : mr'[k].st \in {"absent", "unnamed"} => mr'[k].id = 0
    BY <2>2 DEF IdentityInv
  <2> QED
    BY <1>1, <2>1, <2>3, <2>4, IdentityKept
<1>5. CASE RecordReferences
  BY <1>1, <1>5 DEF RecordReferences, IdentityInv, Adopted, Exists,
                    NothingInventoried
<1>6. CASE PersistStatus \/ Crash
  <2>1. /\ pc' = "idle" /\ plan' = NoPlan /\ UNCHANGED mr /\ pc # "idle"
        /\ journal' = journal \/ journal' = plan.journal
    BY <1>6 DEF PersistStatus, Crash
  <2>2. NothingInventoried(NoPlan.journal)
    BY DEF NothingInventoried, NoPlan, NoJournal
  <2> QED
    BY <1>1, <2>1, <2>2 DEF IdentityInv, Adopted, Exists, NothingInventoried
<1>7. CASE OpenAdmission \/ CloseAdmission
             \/ (\E s \in Types \cup {None} : EditSelection(s))
             \/ UNCHANGED vars
  <2>1. UNCHANGED <<journal, mr, pc, plan>>
    BY <1>7 DEF OpenAdmission, CloseAdmission, EditSelection, vars
  <2> QED
    BY <1>1, <2>1 DEF IdentityInv, Adopted, Exists, NothingInventoried
<1> QED
  BY <1>3, <1>4, <1>5, <1>6, <1>7 DEF Next, Apply, Environment, Provider

LEMMA IdentityInitial == Init => IdentityInv
<1> SUFFICES ASSUME Init
             PROVE  IdentityInv
  OBVIOUS
<1>1. \A k \in Child : mr[k].st = "absent" /\ mr[k].id = 0
  BY DEF Init, AbsentMR
<1>2. /\ journal = NoJournal /\ plan.journal = NoJournal /\ pc = "idle"
      /\ \A k \in PairChild : NoJournal.id[k] = 0
  BY DEF Init, NoPlan, NoJournal
<1> QED
  BY <1>1, <1>2, HeldInitial, PairsAreChildren
     DEF IdentityInv, Adopted, Exists, NothingInventoried

(* A pair child that exists carries the identity the persisted journal      *)
(* inventoried for it: a crash between creating a child and recording its   *)
(* identity, or a retirement followed by a re-adoption, never leads to a    *)
(* second external object.                                                  *)
THEOREM IdentityKeptForever == Spec => []IdentityAdopted
<1>1. IdentityInv => IdentityAdopted
  BY DEF IdentityInv, Adopted, IdentityAdopted
<1> QED
  BY <1>1, IdentityInitial, IdentityStep, PTL DEF Spec

-----------------------------------------------------------------------------
(* A receiver is published only outside a transition, where nothing is on   *)
(* its way out, so its pair stays until a journal with a transition, which  *)
(* publishes none, is persisted.                                            *)

Serves(r, j) ==
  r # None =>
    /\ r \in Types
    /\ journal.phase \in {"Absent", "Stable"} /\ j.phase \in {"Absent", "Stable"}
    /\ \A k \in Pair(r) : Exists(k)

ReceiverInv ==
  /\ HeldInv
  /\ Serves(receiver, journal)
  /\ pc # "idle" => Serves(plan.receiver, plan.journal)

LEMMA NothingLeaves ==
  ASSUME HeldInv, journal.phase \in {"Absent", "Stable"}
  PROVE  \A k \in Child : ~mr[k].dying
<1>1. journal.phase = "Stable" => \A k : ~Leaving(journal, k)
  BY DEF Leaving, Retiring, Committed
<1> QED
  BY <1>1 DEF HeldInv, WithdrawalInv, AheadInv, LegacyGrows

LEMMA ReceiverPlanned ==
  ASSUME HeldInv, Turn
  PROVE  Serves(plan'.receiver, plan'.journal)
<1>1. TypeOK /\ IType
  BY DEF HeldInv, WithdrawalInv, AheadInv, IType
<1>2. \A j, d : Return(j, d) => plan'.journal = j /\ plan'.receiver = Receiver(d)
  BY DEF Return
<1>3. CASE journal.phase = "Stable"
  <2>1. ASSUME NEW d, Receiver(d) # None
        PROVE  /\ Receiver(d) = Selected /\ journal.active = Selected
               /\ Barrier(journal, Selected)
    BY <1>3, <2>1 DEF Receiver, Governed
  <2>2. ~LegacyTurn /\ ~FreshTurn /\ ~BootstrapTurn
    BY <1>3 DEF LegacyTurn, Governed, FreshTurn, BootstrapTurn
  <2>3. ~BuildTurn /\ ~ReplaceFreshTurn /\ ~CancelTurn /\ ~CancellingTurn
        /\ ~PreparedTurn /\ ~RetireRouteTurn /\ ~RetireIntegrationTurn
    BY <1>3 DEF BuildTurn, ReplaceFreshTurn, CancelTurn, CancellingTurn,
       PreparedTurn, RetireRouteTurn, RetireIntegrationTurn
  <2>4. CASE PreserveTurn \/ StableTurn
    <3>1. PICK d : Return(journal, d)
      BY <2>4 DEF PreserveTurn, StableTurn
    <3>2. plan'.journal = journal /\ plan'.receiver = Receiver(d)
      BY <1>2, <3>1
    <3>3. SUFFICES ASSUME Receiver(d) # None
                   PROVE  Serves(Receiver(d), journal)
      BY <3>2 DEF Serves
    <3>4. Receiver(d) = Selected /\ Barrier(journal, Selected)
      BY <2>1, <3>3
    <3>5. Selected \in Types /\ \A k \in Pair(Selected) : k \in Observed
      BY <3>4, BarrierCurrent DEF Barrier
    <3> QED
      BY <1>3, <3>4, <3>5 DEF Serves, Observed, Exists
  <2>5. CASE BeginSwitchTurn
    <3>1. PICK j, d : Return(j, d)
      BY <2>5 DEF BeginSwitchTurn
    <3>2. plan'.receiver = Receiver(d) /\ Selected # journal.active
      BY <1>2, <2>5, <3>1 DEF BeginSwitchTurn
    <3> QED
      BY <2>1, <3>2 DEF Serves
  <2> QED
    BY <2>2, <2>3, <2>4, <2>5 DEF Turn
<1>4. CASE journal.phase = "Absent"
  <2>1. ASSUME NEW d, Receiver(d) # None
        PROVE  /\ Receiver(d) = InboundEmail /\ sel = None
               /\ Route(InboundEmail) \in d /\ \A k \in d : Current(k)
    BY <1>4, <2>1 DEF Receiver, Governed
  <2>2. CASE LegacyTurn
    <3>1. PICK d : Return(journal, d) /\ d \in {LegacyRendered, LegacyRendered \cap Observed}
      BY <2>2 DEF LegacyTurn
    <3>2. plan'.journal = journal /\ plan'.receiver = Receiver(d)
      BY <1>2, <3>1
    <3>3. SUFFICES ASSUME Receiver(d) # None
                   PROVE  Serves(Receiver(d), journal)
      BY <3>2 DEF Serves
    <3>4. /\ Receiver(d) = InboundEmail
          /\ Route(InboundEmail) \in LegacyRendered
          /\ Current(Route(InboundEmail))
      BY <2>1, <3>1, <3>3
    <3>5. Named(Integration(InboundEmail))
      BY <3>4 DEF LegacyRendered, LegacyShared, SharedChild, Route, Integration
    <3> QED
      BY <1>4, <3>4, <3>5
         DEF Serves, Current, Named, Observed, Exists, Pair, Types
  <2>3. CASE FreshTurn \/ BootstrapTurn \/ PreserveTurn
    <3>1. sel # None
      BY <1>4, <2>3 DEF FreshTurn, BootstrapTurn, PreserveTurn, Governed
    <3>2. PICK j, d : Return(j, d)
      BY <2>3 DEF FreshTurn, BootstrapTurn, PreserveTurn
    <3> QED
      BY <1>2, <2>1, <3>1, <3>2 DEF Serves
  <2> QED
    BY <1>4, <2>2, <2>3 DEF Turn, StableTurn, BeginSwitchTurn, BuildTurn,
       ReplaceFreshTurn, CancelTurn, CancellingTurn, PreparedTurn,
       RetireRouteTurn, RetireIntegrationTurn
<1>5. CASE journal.phase \notin {"Absent", "Stable"}
  <2>1. \A d : Receiver(d) = None
    BY <1>5 DEF Receiver, Governed
  <2>2. \E j, d : Return(j, d)
    BY DEF Turn, LegacyTurn, FreshTurn, BootstrapTurn, PreserveTurn,
       StableTurn, BeginSwitchTurn, BuildTurn, ReplaceFreshTurn, CancelTurn,
       CancellingTurn, PreparedTurn, RetireRouteTurn, RetireIntegrationTurn
  <2> QED
    BY <1>2, <2>1, <2>2 DEF Serves
<1> QED
  BY <1>3, <1>4, <1>5

LEMMA ReceiverStep == ReceiverInv /\ [Next]_vars => ReceiverInv'
<1> SUFFICES ASSUME ReceiverInv, [Next]_vars
             PROVE  ReceiverInv'
  OBVIOUS
<1>1. HeldInv' /\ HeldInv
  BY StepHeld DEF ReceiverInv
<1>2. TypeOK /\ mr \in [Child -> ManagedResources]
  BY <1>1 DEF HeldInv, WithdrawalInv, AheadInv, IType, TypeOK
<1>3. CASE Turn
  <2>1. /\ UNCHANGED <<journal, receiver, mr>> /\ pc' = "collect"
        /\ plan'.receiver = plan.receiver' /\ plan'.journal = plan.journal'
    BY <1>3 DEF Turn, LegacyTurn, FreshTurn, BootstrapTurn, PreserveTurn,
       StableTurn, BeginSwitchTurn, BuildTurn, ReplaceFreshTurn, CancelTurn,
       CancellingTurn, PreparedTurn, RetireRouteTurn, RetireIntegrationTurn,
       Return
  <2>2. Serves(plan'.receiver, plan'.journal)
    BY <1>1, <1>3, ReceiverPlanned
  <2> QED
    BY <1>1, <2>1, <2>2 DEF ReceiverInv, Serves, Exists
<1>4. ASSUME UNCHANGED <<journal, receiver, plan, pc>>,
             \A k \in Child : Exists(k) /\ ~mr[k].dying => Exists(k)'
      PROVE  ReceiverInv'
  <2>1. ASSUME NEW r, NEW j, Serves(r, j), r # None, NEW k \in Pair(r)
        PROVE  Exists(k)'
    <3>1. k \in Child
      BY <2>1, ChildrenOfAType, PairsAreChildren DEF Serves
    <3> QED
      BY <1>1, <1>4, <2>1, <3>1, NothingLeaves DEF Serves
  <2> QED
    BY <1>1, <1>4, <2>1 DEF ReceiverInv, Serves
<1>5. ASSUME NEW c \in Child,
             CollectGarbage(c) \/ AssignExternalName(c) \/ BecomeCurrent(c)
               \/ Finalise(c) \/ LoseCurrent(c) \/ Create(c)
      PROVE  ReceiverInv'
  <2>1. UNCHANGED <<journal, receiver, pc, plan>>
    BY <1>5 DEF CollectGarbage, AssignExternalName, BecomeCurrent, Finalise,
                LoseCurrent, Create, ProviderVars
  <2>2. \A k \in Child : Exists(k) /\ ~mr[k].dying => Exists(k)'
    <3>1. CASE CollectGarbage(c)
      BY <1>2, <3>1 DEF CollectGarbage, ManagedResources, Exists
    <3>2. CASE AssignExternalName(c) \/ BecomeCurrent(c) \/ Finalise(c)
                 \/ LoseCurrent(c)
      BY <1>2, <3>2, ChildSteps DEF Undisturbed, Exists
    <3>3. CASE Create(c)
      <4> DEFINE created == [mr[c] EXCEPT
                   !.st = IF PinnedID(c) = 0 THEN "unnamed" ELSE "named",
                   !.uid = mr[c].uid + 1, !.id = PinnedID(c)]
      <4>1. created.st # "absent"
        BY <1>2 DEF ManagedResources
      <4>2. mr' = [mr EXCEPT ![c] = created]
        BY <3>3 DEF Create
      <4> HIDE DEF created
      <4> QED
        BY <1>2, <4>1, <4>2 DEF Exists
    <3> QED
      BY <1>5, <3>1, <3>2, <3>3
  <2> QED
    BY <1>4, <2>1, <2>2
<1>6. CASE RecordReferences
  BY <1>1, <1>6 DEF RecordReferences, ReceiverInv, Serves, Exists
<1>7. CASE PersistStatus
  BY <1>1, <1>7 DEF PersistStatus, ReceiverInv, Serves, Exists
<1>8. CASE Crash
  BY <1>1, <1>8 DEF Crash, ReceiverInv, Serves, Exists
<1>9. CASE OpenAdmission \/ CloseAdmission
             \/ (\E s \in Types \cup {None} : EditSelection(s))
             \/ UNCHANGED vars
  <2>1. UNCHANGED <<journal, receiver, mr, pc, plan>>
    BY <1>9 DEF OpenAdmission, CloseAdmission, EditSelection, vars
  <2> QED
    BY <1>1, <2>1 DEF ReceiverInv, Serves, Exists
<1> QED
  BY <1>3, <1>5, <1>6, <1>7, <1>8, <1>9 DEF Next, Apply, Environment, Provider

(* Whatever an alert-routing claim joins is there: the published receiver   *)
(* never names a type whose Integration or Route is gone or going.          *)
THEOREM ReceiverAlwaysServed == Spec => []ReceiverServed
<1>1. Init => ReceiverInv
  BY HeldInitial DEF Init, ReceiverInv, Serves
<1>2. ReceiverInv => ReceiverServed
  <2> SUFFICES ASSUME ReceiverInv, receiver # None, NEW k \in Pair(receiver)
               PROVE  Alive(k)
    BY DEF ReceiverServed
  <2>1. receiver \in Types /\ Exists(k) /\ \A c \in Child : ~mr[c].dying
    BY NothingLeaves DEF ReceiverInv, Serves
  <2> QED
    BY <2>1, ChildrenOfAType, PairsAreChildren DEF Alive
<1> QED
  BY <1>1, <1>2, ReceiverStep, PTL DEF Spec

-----------------------------------------------------------------------------
(* Where a graph can come to rest.  The arguments above are about what a    *)
(* turn must not do; these are about what it does.  First what each turn    *)
(* makes of the journal.                                                    *)

(* The decision a turn inside a transition records: none, the target or the *)
(* source is established, the disposition turns, or the retirement goes on. *)
Decides(old, new) ==
  \/ /\ new.phase = old.phase /\ new.disp = old.disp
     /\ new.keep = old.keep /\ new.retire = old.retire
  \/ /\ old.phase = "Building" /\ new.phase = "Prepared"
     /\ new.disp = old.disp /\ new.keep = old.to /\ new.retire = old.from
  \/ /\ old.phase = "Cancelling" /\ new.phase = "Prepared"
     /\ new.disp = old.disp /\ new.keep = old.from /\ new.retire = old.to
  \/ /\ old.disp = "promotion" /\ new.disp = "cancellation"
     /\ new.keep = old.keep /\ new.retire = old.retire
     /\ \/ old.phase = "Building" /\ new.phase = "Cancelling"
        \/ old.phase = "Prepared" /\ new.phase = "RetiringRoute"
  \/ /\ new.disp = old.disp /\ new.keep = old.keep /\ new.retire = old.retire
     /\ \/ old.phase = "Prepared" /\ new.phase = "RetiringRoute"
        \/ old.phase = "RetiringRoute" /\ new.phase = "RetiringIntegration"

TransitionFields ==
  {"from", "to", "incomplete", "srcRoute", "bound", "planned", "id", "uid"}

LEMMA TransitionOutcome ==
  ASSUME IType,
         BuildTurn \/ CancelTurn \/ CancellingTurn \/ PreparedTurn
           \/ RetireRouteTurn \/ RetireIntegrationTurn
  PROVE  /\ journal.phase \notin {"Absent", "Stable"} /\ Migrates
         /\ \/ /\ plan'.journal.phase \notin {"Absent", "Stable"}
               /\ \A f \in TransitionFields : plan'.journal[f] = Captured[f]
               /\ Decides(journal, plan'.journal)
            \/ /\ plan'.journal.phase = "Stable"
               /\ Barrier(Captured, plan'.journal.active)
               /\ plan'.journal.id = Captured.id /\ plan'.journal.uid = Captured.uid
               /\ ~plan'.journal.incomplete
               /\ \/ journal.from = None
                  \/ plan'.journal.active = KeepByDisposition(journal)
         /\ plan'.desired \subseteq MigrationChildren
         /\ \A k \in MigrationChildren \ plan'.desired : Retiring(journal, k)
<1>1. /\ TypeOK /\ journal \in Journals /\ Captured \in Journals
      /\ \A f \in {"phase", "from", "to", "disp", "incomplete", "srcRoute",
                   "route", "keep", "retire", "active"} :
           Captured[f] = journal[f]
  BY CapturedType DEF IType, TypeOK
<1>2. \A j, d : Return(j, d) => plan'.journal = j /\ plan'.desired = d
  BY DEF Return
<1>3. journal.phase \notin {"Absent", "Stable"} /\ Migrates
  BY DEF BuildTurn, CancelTurn, CancellingTurn, PreparedTurn, RetireRouteTurn,
     RetireIntegrationTurn
<1>4. Decides(journal, Captured)
  BY <1>1 DEF Decides
<1>5. CASE BuildTurn
  <2>1. plan'.desired = MigrationChildren /\ journal.phase = "Building"
    BY <1>2, <1>5 DEF BuildTurn
  <2>2. CASE plan'.journal = [Captured EXCEPT !.route = TRUE]
    BY <1>1, <1>3, <2>1, <2>2 DEF Decides, TransitionFields, Journals
  <2>3. CASE plan'.journal = Captured
    BY <1>1, <1>3, <1>4, <2>1, <2>3 DEF TransitionFields
  <2>4. CASE /\ plan'.journal = Settled(Captured, journal.to)
             /\ Barrier(Captured, journal.to) /\ journal.from = None
    <3>1. /\ plan'.journal.phase = "Stable" /\ plan'.journal.active = journal.to
          /\ plan'.journal.id = Captured.id /\ plan'.journal.uid = Captured.uid
          /\ ~plan'.journal.incomplete
      BY <1>1, <2>4 DEF Settled, Journals
    <3> QED
      BY <1>3, <2>1, <2>4, <3>1
  <2>5. CASE plan'.journal = [Captured EXCEPT !.phase = "Prepared",
                                !.keep = journal.to, !.retire = journal.from]
    <3>1. /\ plan'.journal.phase = "Prepared"
          /\ \A f \in TransitionFields \cup {"disp"} :
               plan'.journal[f] = Captured[f]
          /\ plan'.journal.keep = journal.to /\ plan'.journal.retire = journal.from
      BY <1>1, <2>5 DEF TransitionFields, Journals
    <3> QED
      BY <1>1, <1>3, <2>1, <3>1 DEF Decides
  <2> QED
    BY <1>2, <1>5, <2>2, <2>3, <2>4, <2>5 DEF BuildTurn
<1>6. CASE CancelTurn
  <2> DEFINE p == IF journal.phase = "Prepared" THEN "RetiringRoute"
                                                ELSE "Cancelling"
  <2>1. /\ plan'.journal = [Captured EXCEPT !.disp = "cancellation", !.phase = p]
        /\ plan'.desired = MigrationChildren
        /\ journal.phase \in {"Building", "Prepared"} /\ journal.disp = "promotion"
    BY <1>2, <1>6 DEF CancelTurn, Withdrawn
  <2>2. /\ plan'.journal.phase = p /\ plan'.journal.disp = "cancellation"
        /\ \A f \in TransitionFields \cup {"keep", "retire"} :
             plan'.journal[f] = Captured[f]
    BY <1>1, <2>1 DEF TransitionFields, Journals
  <2> QED
    BY <1>1, <1>3, <2>1, <2>2 DEF Decides
<1>7. CASE CancellingTurn
  <2>1. plan'.desired = MigrationChildren /\ journal.phase = "Cancelling"
    BY <1>2, <1>7 DEF CancellingTurn
  <2>2. CASE plan'.journal = [Captured EXCEPT !.phase = "Prepared",
                                !.keep = journal.from, !.retire = journal.to]
    <3>1. /\ plan'.journal.phase = "Prepared"
          /\ \A f \in TransitionFields \cup {"disp"} :
               plan'.journal[f] = Captured[f]
          /\ plan'.journal.keep = journal.from /\ plan'.journal.retire = journal.to
      BY <1>1, <2>2 DEF TransitionFields, Journals
    <3> QED
      BY <1>1, <1>3, <2>1, <3>1 DEF Decides
  <2>3. CASE plan'.journal = Captured
    BY <1>1, <1>3, <1>4, <2>1, <2>3 DEF TransitionFields
  <2> QED
    BY <1>2, <1>7, <2>2, <2>3 DEF CancellingTurn
<1>8. CASE PreparedTurn
  <2>1. /\ plan'.journal = [Captured EXCEPT !.phase = "RetiringRoute"]
        /\ plan'.desired = MigrationChildren /\ journal.phase = "Prepared"
    BY <1>2, <1>8 DEF PreparedTurn
  <2>2. /\ plan'.journal.phase = "RetiringRoute"
        /\ \A f \in TransitionFields \cup {"disp", "keep", "retire"} :
             plan'.journal[f] = Captured[f]
    BY <1>1, <2>1 DEF TransitionFields, Journals
  <2> QED
    BY <1>1, <1>3, <2>1, <2>2 DEF Decides
<1>9. CASE RetireRouteTurn
  <2>1. /\ plan'.desired = MigrationChildren \ {Route(journal.retire)}
        /\ journal.phase = "RetiringRoute"
    BY <1>2, <1>9 DEF RetireRouteTurn
  <2>2. \A k \in MigrationChildren \ plan'.desired : Retiring(journal, k)
    BY <2>1 DEF Retiring, Committed
  <2>3. CASE plan'.journal = Captured
    BY <1>1, <1>3, <1>4, <2>1, <2>2, <2>3 DEF TransitionFields
  <2>4. CASE plan'.journal = [Captured EXCEPT !.phase = "RetiringIntegration"]
    <3>1. /\ plan'.journal.phase = "RetiringIntegration"
          /\ \A f \in TransitionFields \cup {"disp", "keep", "retire"} :
               plan'.journal[f] = Captured[f]
      BY <1>1, <2>4 DEF TransitionFields, Journals
    <3> QED
      BY <1>1, <1>3, <2>1, <2>2, <3>1 DEF Decides
  <2> QED
    BY <1>2, <1>9, <2>3, <2>4 DEF RetireRouteTurn
<1>10. CASE RetireIntegrationTurn
  <2> DEFINE c == [Captured EXCEPT !.state[journal.retire] = "Retired"]
  <2>1. /\ plan'.desired = MigrationChildren \ Pair(journal.retire)
        /\ journal.phase = "RetiringIntegration"
        /\ Barrier(Captured, KeepByDisposition(journal))
        /\ plan'.journal \in {Captured, Settled(c, journal.keep)}
    BY <1>2, <1>10 DEF RetireIntegrationTurn
  <2>2. \A k \in MigrationChildren \ plan'.desired : Retiring(journal, k)
    BY <2>1 DEF Retiring, Committed, Pair
  <2>3. CASE plan'.journal = Captured
    BY <1>1, <1>3, <1>4, <2>1, <2>2, <2>3 DEF TransitionFields
  <2>4. CASE plan'.journal = Settled(c, journal.keep)
    <3>1. c \in Journals /\ c.id = Captured.id /\ c.uid = Captured.uid
      BY <1>1 DEF Journals
    <3>2. journal.keep = KeepByDisposition(journal)
      BY <1>3, <2>1 DEF Migrates, Proceeds, Decodes, Committed
    <3> HIDE DEF c
    <3>3. /\ plan'.journal.phase = "Stable" /\ plan'.journal.active = journal.keep
          /\ plan'.journal.id = c.id /\ plan'.journal.uid = c.uid
          /\ ~plan'.journal.incomplete
      BY <2>4, <3>1 DEF Settled, Journals
    <3> QED
      BY <1>3, <2>1, <2>2, <3>1, <3>2, <3>3
  <2> QED
    BY <2>1, <2>3, <2>4
<1> QED
  BY <1>5, <1>6, <1>7, <1>8, <1>9, <1>10

(* Every other turn keeps the journal, opens one, or begins a transition    *)
(* from a stable type or from a fresh target.                               *)
LEMMA OtherOutcome ==
  ASSUME IType, Turn
  PROVE  \/ LegacyTurn /\ plan'.journal = journal
         \/ PreserveTurn /\ plan'.journal = journal /\ plan'.desired = Observed
         \/ /\ StableTurn /\ plan'.journal = journal
            /\ plan'.desired = Rendered(journal, journal.active)
         \/ /\ FreshTurn /\ plan'.journal.phase = "Building"
            /\ plan'.journal.from = None /\ plan'.journal.disp = "promotion"
            /\ ~plan'.journal.incomplete /\ plan'.desired = {}
         \/ /\ BootstrapTurn
            /\ \/ /\ plan'.journal.phase = "Stable"
                  /\ plan'.journal.active = InboundEmail
               \/ /\ plan'.journal.phase = "Building"
                  /\ plan'.journal.from = InboundEmail
                  /\ plan'.journal.disp = "promotion"
            /\ ~plan'.journal.incomplete
            /\ plan'.journal.id = Predecessor.id
            /\ plan'.journal.uid = Predecessor.uid
            /\ plan'.desired = Rendered(Predecessor, InboundEmail)
         \/ /\ BeginSwitchTurn /\ plan'.journal.phase = "Building"
            /\ plan'.journal.from = journal.active
            /\ plan'.journal.disp = "promotion" /\ ~plan'.journal.incomplete
            /\ plan'.journal.id = journal.id
            /\ plan'.desired = Rendered(journal, journal.active)
         \/ /\ ReplaceFreshTurn /\ plan'.journal.phase = "Building"
            /\ plan'.journal.from = journal.to
            /\ plan'.journal.disp = "promotion" /\ plan'.journal.incomplete
            /\ plan'.journal.srcRoute = journal.route
            /\ plan'.journal.id = journal.id
            /\ plan'.journal.bound = journal.bound
         \/ BuildTurn \/ CancelTurn \/ CancellingTurn \/ PreparedTurn
              \/ RetireRouteTurn \/ RetireIntegrationTurn
<1>1. /\ TypeOK /\ journal \in Journals
  BY DEF IType, TypeOK
<1>2. \A j, d : Return(j, d) => plan'.journal = j /\ plan'.desired = d
  BY DEF Return
<1>3. CASE LegacyTurn \/ PreserveTurn \/ StableTurn
  BY <1>2, <1>3 DEF LegacyTurn, PreserveTurn, StableTurn
<1>4. CASE FreshTurn
  <2>1. /\ plan'.journal = Building(NoJournal, None, Selected, 1)
        /\ plan'.desired = {}
    BY <1>2, <1>4 DEF FreshTurn
  <2>2. NoJournal \in Journals
    BY NoJournalType DEF WellFormed
  <2> QED
    BY <1>4, <2>1, <2>2 DEF Building, Journals
<1>5. CASE BootstrapTurn
  <2> DEFINE s == Settled(Predecessor, InboundEmail)
             b == Building(s, InboundEmail, Selected, 0)
  <2>1. [NoJournal EXCEPT !.bound = Stages] \in Journals
    BY NoJournalType, StageBounds DEF WellFormed, Journals
  <2>2. Predecessor \in Journals
    BY <1>1, <2>1, CaptureType DEF Predecessor
  <2>3. s \in Journals
    BY <2>2, SettledType DEF WellFormed, Types
  <2>4. /\ s.id = Predecessor.id /\ s.uid = Predecessor.uid
        /\ s.phase = "Stable" /\ s.active = InboundEmail /\ ~s.incomplete
    BY <2>2 DEF Settled, Journals
  <2>5. /\ b.id = s.id /\ b.uid = s.uid /\ b.phase = "Building"
        /\ b.from = InboundEmail /\ b.disp = "promotion" /\ ~b.incomplete
    BY <2>3 DEF Building, Journals
  <2>6. /\ plan'.journal = s \/ plan'.journal = b
        /\ plan'.desired = Rendered(Predecessor, InboundEmail)
    BY <1>2, <1>5 DEF BootstrapTurn
  <2> HIDE DEF s, b
  <2> QED
    BY <1>5, <2>4, <2>5, <2>6
<1>6. CASE BeginSwitchTurn
  <2> DEFINE readopted == [journal EXCEPT
           !.state[Selected] = IF @ = None THEN None ELSE "Active",
           !.uid = [k \in PairChild |->
                      IF k \in Pair(Selected) THEN 0 ELSE @[k]]]
             j == Building(readopted, journal.active, Selected, 0)
  <2>1. readopted \in Journals /\ readopted.id = journal.id
    BY <1>1 DEF Journals
  <2>2. plan'.journal = j /\ plan'.desired = Rendered(journal, journal.active)
    BY <1>2, <1>6 DEF BeginSwitchTurn
  <2> HIDE DEF readopted
  <2>3. /\ j.id = readopted.id /\ j.phase = "Building" /\ j.from = journal.active
        /\ j.disp = "promotion" /\ ~j.incomplete
    BY <2>1 DEF Building, Journals
  <2> QED
    BY <1>6, <2>1, <2>2, <2>3
<1>7. CASE ReplaceFreshTurn
  <2> DEFINE j == [Building(journal, journal.to, Selected, journal.planned) EXCEPT
                     !.incomplete = TRUE, !.srcRoute = journal.route]
  <2>1. plan'.journal = j
    BY <1>2, <1>7 DEF ReplaceFreshTurn
  <2>2. /\ j.id = journal.id /\ j.phase = "Building" /\ j.from = journal.to
        /\ j.disp = "promotion" /\ j.incomplete /\ j.srcRoute = journal.route
        /\ j.bound = journal.bound
    BY <1>1 DEF Building, Journals
  <2> QED
    BY <1>7, <2>1, <2>2
<1> QED
  BY <1>3, <1>4, <1>5, <1>6, <1>7 DEF Turn

(* Captures of a transition with a source bind no more of the chain.        *)
LEMMA CapturedChain ==
  ASSUME TypeOK, journal.from # None
  PROVE  Captured.bound = journal.bound
<1>1. journal \in Journals
  BY DEF TypeOK
<1>2. /\ Capture(journal, journal.from) \in Journals
      /\ Capture(journal, journal.from).bound = journal.bound
  BY <1>1, CaptureType
<1>3. Capture(Capture(journal, journal.from), journal.to).bound = journal.bound
  BY <1>2, CaptureType
<1> QED
  BY <1>3 DEF Captured, CaptureTransition

(* Crossplane and the environment keep the plan and the journal, or end the *)
(* reconcile with one of the two.                                           *)
LEMMA PlanFate ==
  ASSUME Apply \/ Environment \/ UNCHANGED vars
  PROVE  \/ UNCHANGED <<journal, plan>>
         \/ /\ plan' = NoPlan /\ pc' = "idle" /\ pc # "idle" /\ UNCHANGED <<mr, refs>>
            /\ journal' = journal \/ (journal' = plan.journal /\ PersistStatus)
BY DEF Apply, Environment, Provider, CollectGarbage, Create, RecordReferences,
   PersistStatus, Crash, AssignExternalName, BecomeCurrent, LoseCurrent,
   Finalise, CloseAdmission, OpenAdmission, EditSelection, ProviderVars, vars

(* The journal the decoder refuses: a cancellation that goes on retiring    *)
(* with the promotion's authority.                                          *)
Misauthorised(j) ==
  /\ j.phase = "RetiringRoute" /\ j.disp = "cancellation"
  /\ j.keep = j.to /\ j.retire = j.from

Disposed(j) ==
  /\ j.phase = "Building" => j.disp = "promotion"
  /\ j.phase = "Cancelling" => j.disp = "cancellation"
  /\ Decodes(j) \/ Misauthorised(j)

(* A source that is established, or was planned a Route, has its identity.  *)
Rooted(j) ==
  /\ j.phase \notin {"Absent", "Stable"} /\ j.from # None
       /\ (~j.incomplete \/ j.srcRoute) => j.id[Integration(j.from)] # 0
  /\ j.incomplete => j.phase \notin {"Absent", "Stable"} /\ j.from # None

SoundInv ==
  /\ IdentityInv
  /\ Disposed(journal) /\ Disposed(plan.journal)
  /\ Rooted(journal) /\ Rooted(plan.journal)

LEMMA NothingPlanned ==
  ASSUME NEW j, j.phase \in {"Absent", "Stable"}, ~j.incomplete
  PROVE  Disposed(j) /\ Rooted(j)
BY DEF Disposed, Rooted, Decodes, Committed

LEMMA TurnDisposed ==
  ASSUME SoundInv, Turn
  PROVE  Disposed(plan'.journal)
<1>1. /\ IType /\ Disposed(journal) /\ NamesTypes(journal)
  BY DEF SoundInv, IdentityInv, HeldInv, WithdrawalInv, AheadInv, IType
<1>2. CASE BuildTurn \/ CancelTurn \/ CancellingTurn \/ PreparedTurn
             \/ RetireRouteTurn \/ RetireIntegrationTurn
  <2> DEFINE p == plan'.journal
  <2>1. /\ journal.phase \notin {"Absent", "Stable"} /\ Migrates
        /\ \/ /\ p.phase \notin {"Absent", "Stable"}
              /\ \A f \in TransitionFields : p[f] = Captured[f]
              /\ Decides(journal, p)
           \/ p.phase = "Stable"
    BY <1>1, <1>2, TransitionOutcome
  <2>2. Captured.from = journal.from /\ Captured.to = journal.to
    BY <1>1, CapturedType DEF IType
  <2>3. /\ Decodes(journal) /\ journal.to \in Types
        /\ journal.phase # "Building" => journal.from \in Types
    BY <1>1, <2>1 DEF Migrates, Proceeds, NamesTypes
  <2> HIDE DEF p
  <2>4. ASSUME p.from = journal.from, p.to = journal.to, Decides(journal, p)
        PROVE  Disposed(p)
    BY <1>1, <2>1, <2>3, <2>4, TypesAreNamed
       DEF Decides, Disposed, Decodes, Misauthorised, Committed,
           KeepByDisposition, RetireByDisposition
  <2>5. ASSUME p.phase = "Stable"
        PROVE  Disposed(p)
    BY <2>5 DEF Disposed, Decodes, Committed
  <2>6. Disposed(p)
    BY <2>1, <2>2, <2>4, <2>5 DEF TransitionFields
  <2> QED
    BY <2>6 DEF p
<1>3. CASE plan'.journal = journal
  BY <1>1, <1>3
<1>4. CASE /\ plan'.journal.phase \in {"Stable", "Building"}
           /\ plan'.journal.phase = "Building" => plan'.journal.disp = "promotion"
  BY <1>4 DEF Disposed, Decodes, Committed
<1> QED
  BY <1>1, <1>2, <1>3, <1>4, OtherOutcome

LEMMA TurnRooted ==
  ASSUME SoundInv, Turn
  PROVE  Rooted(plan'.journal)
<1>1. /\ IType /\ Rooted(journal) /\ WithdrawalInv /\ Progressed(journal)
      /\ NamedHaveIDs /\ TypeOK /\ journal \in Journals
      /\ journal.from \in MaybeType
  BY DEF SoundInv, IdentityInv, HeldInv, WithdrawalInv, AheadInv, IType, TypeOK,
         Journals
<1>2. CASE BuildTurn \/ CancelTurn \/ CancellingTurn \/ PreparedTurn
             \/ RetireRouteTurn \/ RetireIntegrationTurn
  <2> DEFINE p == plan'.journal
  <2>1. /\ journal.phase \notin {"Absent", "Stable"} /\ Migrates
        /\ \/ /\ p.phase \notin {"Absent", "Stable"}
              /\ \A f \in TransitionFields : p[f] = Captured[f]
           \/ p.phase = "Stable" /\ ~p.incomplete
    BY <1>1, <1>2, TransitionOutcome
  <2>2. /\ Captured.from = journal.from /\ Captured.incomplete = journal.incomplete
        /\ Captured.srcRoute = journal.srcRoute
    BY <1>1, CapturedType
  <2>3. \A k \in PairChild : journal.id[k] # 0 => Captured.id[k] = journal.id[k]
    BY <1>1, <2>1, CapturedProgress
  <2>4. journal.from # None => Integration(journal.from) \in PairChild
    BY <1>1, ChildrenOfAType DEF MaybeType
  <2> HIDE DEF p
  <2>5. Rooted(p)
    BY <1>1, <2>1, <2>2, <2>3, <2>4 DEF Rooted, TransitionFields
  <2> QED
    BY <2>5 DEF p
<1>3. CASE plan'.journal = journal
  BY <1>1, <1>3
<1>4. CASE FreshTurn /\ plan'.journal.from = None /\ ~plan'.journal.incomplete
  BY <1>4 DEF Rooted
<1>5. CASE BootstrapTurn /\ plan'.journal.id = Predecessor.id
             /\ ~plan'.journal.incomplete
             /\ \/ plan'.journal.phase = "Stable"
                \/ plan'.journal.from = InboundEmail
  <2>1. Integration(InboundEmail) \in LegacyRendered
    BY <1>5 DEF BootstrapTurn, LegacyRendered, LegacyShared, SharedChild, Shared,
       Route, Integration
  <2>2. /\ Integration(InboundEmail) \in Observed
        /\ mr[Integration(InboundEmail)].st = "current"
    BY <1>5, <2>1 DEF BootstrapTurn, Current
  <2>3. /\ Integration(InboundEmail) \in PairChild
        /\ Integration(InboundEmail) \in Pair(InboundEmail)
    BY ChildrenOfAType DEF Types, Pair
  <2>4. mr[Integration(InboundEmail)].id # 0
    BY <1>1, <2>2, <2>3, PairsAreChildren DEF NamedHaveIDs
  <2>5. [NoJournal EXCEPT !.bound = Stages] \in Journals
    BY NoJournalType, StageBounds DEF WellFormed, Journals
  <2>6. Predecessor.id[Integration(InboundEmail)] # 0
    BY <2>2, <2>3, <2>4, <2>5 DEF Predecessor, Capture, Journals
  <2> QED
    BY <1>5, <2>6 DEF Rooted
<1>6. CASE BeginSwitchTurn /\ plan'.journal.id = journal.id
             /\ plan'.journal.from = journal.active /\ ~plan'.journal.incomplete
  BY <1>1, <1>6 DEF Rooted, Progressed, BeginSwitchTurn
<1>7. CASE ReplaceFreshTurn /\ plan'.journal.id = journal.id
             /\ plan'.journal.phase = "Building" /\ plan'.journal.from = journal.to
             /\ plan'.journal.incomplete /\ plan'.journal.srcRoute = journal.route
  <2>1. journal.phase = "Building" /\ journal.to \in Types
    BY <1>1, <1>7 DEF ReplaceFreshTurn, IType, NamesTypes
  <2> QED
    BY <1>1, <1>7, <2>1, TypesAreNamed DEF Rooted, Progressed
<1> QED
  BY <1>1, <1>2, <1>3, <1>4, <1>5, <1>6, <1>7, OtherOutcome

LEMMA SoundStep == SoundInv /\ [Next]_vars => SoundInv'
<1> SUFFICES ASSUME SoundInv, [Next]_vars
             PROVE  SoundInv'
  OBVIOUS
<1>1. IdentityInv'
  BY IdentityStep DEF SoundInv
<1>2. CASE Turn
  <2>1. UNCHANGED journal
    BY <1>2 DEF Turn, LegacyTurn, FreshTurn, BootstrapTurn, PreserveTurn,
       StableTurn, BeginSwitchTurn, BuildTurn, ReplaceFreshTurn, CancelTurn,
       CancellingTurn, PreparedTurn, RetireRouteTurn, RetireIntegrationTurn, Return
  <2> QED
    BY <1>1, <1>2, <2>1, TurnDisposed, TurnRooted DEF SoundInv
<1>3. CASE Apply \/ Environment \/ UNCHANGED vars
  <2>1. \/ UNCHANGED <<journal, plan>>
        \/ plan' = NoPlan /\ journal' \in {journal, plan.journal}
    BY <1>3, PlanFate
  <2>2. Disposed(NoPlan.journal) /\ Rooted(NoPlan.journal)
    BY NothingPlanned DEF NoPlan, NoJournal
  <2> QED
    BY <1>1, <2>1, <2>2 DEF SoundInv
<1> QED
  BY <1>2, <1>3 DEF Next

(* Every journal the function reads says which way it goes, and has the     *)
(* identity of the source it may go back to.                                *)
THEOREM JournalSound == Spec => []SoundInv
<1>1. Init => SoundInv
  <2>1. Init => IdentityInv
    BY IdentityInitial
  <2>2. /\ Disposed(NoJournal) /\ Rooted(NoJournal)
        /\ NoPlan.journal = NoJournal
    BY NothingPlanned DEF NoPlan, NoJournal
  <2> QED
    BY <2>1, <2>2 DEF Init, SoundInv
<1> QED
  BY <1>1, SoundStep, PTL DEF Spec

(* Finding 1 for every instance.  An edit that takes a promotion back and   *)
(* is first seen in phase Prepared plans a journal the decoder refuses; no  *)
(* other turn does; and a journal it refuses is the last one: no turn       *)
(* begins again, whatever is edited, closed or lost.                        *)
THEOREM CancellationWedges ==
  Spec => /\ [](Decodes(journal) <=> ~Misauthorised(journal))
          /\ [][CancelTurn /\ journal.phase = "Prepared" =>
                  ~Decodes(plan'.journal)]_vars
          /\ [][~Decodes(journal) => UNCHANGED <<journal, pc>>]_vars
<1> DEFINE Halted == ~Decodes(journal) => pc = "idle"
<1>1. SoundInv => (Decodes(journal) <=> ~Misauthorised(journal))
  BY DEF SoundInv, Disposed, Misauthorised, Decodes, Committed, KeepByDisposition,
         IdentityInv, HeldInv, WithdrawalInv, Progressed
<1>2. SoundInv /\ [Next]_vars =>
        [CancelTurn /\ journal.phase = "Prepared" => ~Decodes(plan'.journal)]_vars
  <2> SUFFICES ASSUME SoundInv, CancelTurn, journal.phase = "Prepared"
               PROVE  ~Decodes(plan'.journal)
    OBVIOUS
  <2>1. IType /\ Progressed(journal)
    BY DEF SoundInv, IdentityInv, HeldInv, WithdrawalInv, AheadInv
  <2>2. /\ Captured \in Journals /\ Captured.from = journal.from
        /\ Captured.to = journal.to /\ Captured.keep = journal.keep
        /\ Captured.retire = journal.retire
    BY <2>1, CapturedType DEF IType
  <2>3. /\ plan'.journal = [Captured EXCEPT !.disp = "cancellation",
                                            !.phase = "RetiringRoute"]
        /\ Decodes(journal) /\ journal.disp = "promotion"
    BY DEF CancelTurn, Return, Migrates, Proceeds, Withdrawn
  <2>4. /\ plan'.journal.phase = "RetiringRoute"
        /\ plan'.journal.disp = "cancellation"
        /\ plan'.journal.keep = journal.keep /\ plan'.journal.from = journal.from
    BY <2>2, <2>3 DEF Journals
  <2>5. journal.keep = journal.to /\ journal.from # journal.to
    BY <2>1, <2>3 DEF Decodes, KeepByDisposition, Progressed
  <2> QED
    BY <2>4, <2>5 DEF Decodes, Committed, KeepByDisposition
<1>3. Init => Halted
  BY DEF Init
<1>4. Halted /\ [Next]_vars => Halted'
  <2> SUFFICES ASSUME Halted, [Next]_vars
               PROVE  Halted'
    OBVIOUS
  <2>1. CASE Turn
    <3>1. UNCHANGED journal /\ (Decodes(journal) \/ journal.phase = "Absent")
      BY <2>1 DEF Turn, LegacyTurn, Governed, FreshTurn, BootstrapTurn,
         PreserveTurn, StableTurn, BeginSwitchTurn, BuildTurn, ReplaceFreshTurn,
         CancelTurn, CancellingTurn, PreparedTurn, RetireRouteTurn,
         RetireIntegrationTurn, Migrates, Proceeds, Return
    <3> QED
      BY <3>1 DEF Decodes, Committed
  <2>2. CASE Apply \/ Environment \/ UNCHANGED vars
    <3>1. pc = "idle" => pc' = "idle" /\ UNCHANGED journal
      BY <2>2 DEF Apply, Environment, Provider, CollectGarbage, Create,
         RecordReferences, PersistStatus, Crash, AssignExternalName,
         BecomeCurrent, LoseCurrent, Finalise, CloseAdmission, OpenAdmission,
         EditSelection, ProviderVars, vars
    <3>2. UNCHANGED journal \/ pc' = "idle"
      BY <2>2, PlanFate
    <3> QED
      BY <3>1, <3>2
  <2> QED
    BY <2>1, <2>2 DEF Next
<1>5. Halted /\ [Next]_vars => [~Decodes(journal) => UNCHANGED <<journal, pc>>]_vars
  <2> SUFFICES ASSUME Halted, Next, ~Decodes(journal)
               PROVE  UNCHANGED <<journal, pc>>
    OBVIOUS
  <2>1. ~Turn
    BY DEF Turn, LegacyTurn, Governed, FreshTurn, BootstrapTurn,
       PreserveTurn, StableTurn, BeginSwitchTurn, BuildTurn, ReplaceFreshTurn,
       CancelTurn, CancellingTurn, PreparedTurn, RetireRouteTurn,
       RetireIntegrationTurn, Migrates, Proceeds, Decodes, Committed
  <2>2. pc = "idle"
    OBVIOUS
  <2> QED
    BY <2>1, <2>2 DEF Next, Apply, Environment, Provider, CollectGarbage, Create,
       RecordReferences, PersistStatus, Crash, AssignExternalName,
       BecomeCurrent, LoseCurrent, Finalise, CloseAdmission, OpenAdmission,
       EditSelection, ProviderVars
<1> QED
  BY <1>1, <1>2, <1>3, <1>4, <1>5, JournalSound, PTL DEF Spec

(* A replaced fresh target whose chain was not bound, and the cancellation  *)
(* of a replacement whose source was never given a Route.                   *)
HalfBound(j) == j.incomplete /\ j.bound + 1 < Stages
Deserted(j) == j.incomplete /\ ~j.srcRoute /\ j.disp = "cancellation"

LEMMA DesertedRoute ==
  ASSUME SoundInv, Deserted(journal)
  PROVE  ~Exists(Route(journal.from))
<1>1. /\ journal.phase \notin {"Absent", "Stable"} /\ journal.from # None
      /\ journal.active = None /\ journal.from # journal.to
      /\ journal.from \in Types
  BY DEF SoundInv, Deserted, Rooted, IdentityInv, HeldInv, WithdrawalInv,
         Progressed, AheadInv, IType, TypeOK, Journals, MaybeType
<1>2. Existing \subseteq Authorised(journal)
  BY <1>1 DEF SoundInv, IdentityInv, HeldInv, WithdrawalInv, AheadInv, Planned
<1>3. Route(journal.from) \in Child
  BY <1>1, ChildrenOfAType, PairsAreChildren
<1>4. Route(journal.from) \notin Authorised(journal)
  BY <1>1 DEF Deserted, Authorised, SharedChild, Pair, Route, Integration
<1> QED
  BY <1>2, <1>3, <1>4 DEF Existing

LEMMA TurnStaysWedged ==
  ASSUME SoundInv, Turn
  PROVE  /\ HalfBound(journal) => HalfBound(plan'.journal)
         /\ Deserted(journal) => Deserted(plan'.journal)
<1>1. /\ IType /\ TypeOK /\ Captured \in Journals
  BY CapturedType DEF SoundInv, IdentityInv, HeldInv, WithdrawalInv, AheadInv, IType
<1>2. ASSUME journal.incomplete
      PROVE  /\ journal.phase \notin {"Absent", "Stable"} /\ journal.from # None
             /\ Captured.bound = journal.bound
  BY <1>1, <1>2, CapturedChain DEF SoundInv, Rooted
<1>3. CASE plan'.journal = journal
  BY <1>3
<1>4. CASE FreshTurn \/ BootstrapTurn \/ BeginSwitchTurn \/ ReplaceFreshTurn
  <2>1. journal.phase \in {"Absent", "Stable"} \/ journal.from = None
    BY <1>4 DEF FreshTurn, BootstrapTurn, BeginSwitchTurn, ReplaceFreshTurn
  <2> QED
    BY <1>2, <2>1 DEF HalfBound, Deserted
<1>5. CASE BuildTurn \/ CancelTurn \/ CancellingTurn \/ PreparedTurn
             \/ RetireRouteTurn \/ RetireIntegrationTurn
  <2> DEFINE p == plan'.journal
  <2>1. \/ /\ \A f \in TransitionFields : p[f] = Captured[f]
           /\ Decides(journal, p)
        \/ /\ Barrier(Captured, p.active)
           /\ journal.from = None \/ p.active = KeepByDisposition(journal)
    BY <1>1, <1>5, TransitionOutcome
  <2>2. /\ Captured.incomplete = journal.incomplete
        /\ Captured.srcRoute = journal.srcRoute
    BY <1>1, CapturedType
  <2> HIDE DEF p
  <2>3. ASSUME \A f \in TransitionFields : p[f] = Captured[f], Decides(journal, p)
        PROVE  /\ HalfBound(journal) => HalfBound(p)
               /\ Deserted(journal) => Deserted(p)
    <3>1. /\ p.incomplete = journal.incomplete /\ p.srcRoute = journal.srcRoute
          /\ p.bound = Captured.bound
      BY <2>2, <2>3 DEF TransitionFields
    <3>2. journal.disp = "cancellation" => p.disp = "cancellation"
      BY <2>3 DEF Decides
    <3> QED
      BY <1>2, <3>1, <3>2 DEF HalfBound, Deserted
  <2>4. ASSUME NEW t, Barrier(Captured, t), t = KeepByDisposition(journal)
        PROVE  ~HalfBound(journal) /\ ~Deserted(journal)
    <3>1. Captured.bound + 1 >= Stages
      BY <2>4 DEF Barrier, Rendered, RenderedShared, SharedChild, Route, Integration
    <3>2. ~HalfBound(journal)
      BY <1>1, <1>2, <3>1 DEF HalfBound, Journals
    <3>3. Exists(Route(t))
      BY <2>4, BarrierCurrent DEF Pair, Observed, Exists
    <3> QED
      BY <2>4, <3>2, <3>3, DesertedRoute DEF Deserted, KeepByDisposition
  <2>5. /\ HalfBound(journal) => HalfBound(p)
        /\ Deserted(journal) => Deserted(p)
    BY <1>2, <2>1, <2>3, <2>4 DEF HalfBound, Deserted
  <2> QED
    BY <2>5 DEF p
<1> QED
  BY <1>1, <1>3, <1>4, <1>5, OtherOutcome

(* Two of the transitions that Wedged excepts are permanent: no edit, crash *)
(* or closed gate binds the chain of a source that was replaced before it   *)
(* was bound, and none gives a source its Route once a replacement is taken *)
(* back before the source had one.  The journal is never stable again.      *)
THEOREM ReplacementWedges ==
  Spec => [][/\ Unbound => Unbound'
             /\ Deserted(journal) => Deserted(journal')]_vars
<1> DEFINE Stays == pc # "idle" =>
                      /\ HalfBound(journal) => HalfBound(plan.journal)
                      /\ Deserted(journal) => Deserted(plan.journal)
<1>1. Init => Stays
  BY DEF Init
<1>2. SoundInv /\ Stays /\ [Next]_vars => Stays'
  <2> SUFFICES ASSUME SoundInv, Stays, [Next]_vars
               PROVE  Stays'
    OBVIOUS
  <2>1. CASE Turn
    <3>1. UNCHANGED journal
      BY <2>1 DEF Turn, LegacyTurn, FreshTurn, BootstrapTurn, PreserveTurn,
         StableTurn, BeginSwitchTurn, BuildTurn, ReplaceFreshTurn, CancelTurn,
         CancellingTurn, PreparedTurn, RetireRouteTurn, RetireIntegrationTurn,
         Return
    <3> QED
      BY <2>1, <3>1, TurnStaysWedged
  <2>2. CASE Apply \/ Environment \/ UNCHANGED vars
    <3>1. UNCHANGED <<journal, plan>> \/ pc' = "idle"
      BY <2>2, PlanFate
    <3>2. pc = "idle" => pc' = "idle"
      BY <2>2 DEF Apply, Environment, Provider, CollectGarbage, Create,
         RecordReferences, PersistStatus, Crash, AssignExternalName,
         BecomeCurrent, LoseCurrent, Finalise, CloseAdmission, OpenAdmission,
         EditSelection, ProviderVars, vars
    <3> QED
      BY <3>1, <3>2
  <2> QED
    BY <2>1, <2>2 DEF Next
<1>3. SoundInv /\ Stays /\ [Next]_vars =>
        [/\ Unbound => Unbound'
         /\ Deserted(journal) => Deserted(journal')]_vars
  <2> SUFFICES ASSUME Stays, Next
               PROVE  /\ HalfBound(journal) => HalfBound(journal')
                      /\ Deserted(journal) => Deserted(journal')
    BY DEF Unbound, HalfBound
  <2>1. UNCHANGED journal \/ (pc # "idle" /\ journal' = plan.journal)
    <3>1. CASE Turn
      BY <3>1 DEF Turn, LegacyTurn, FreshTurn, BootstrapTurn, PreserveTurn,
         StableTurn, BeginSwitchTurn, BuildTurn, ReplaceFreshTurn, CancelTurn,
         CancellingTurn, PreparedTurn, RetireRouteTurn, RetireIntegrationTurn,
         Return
    <3>2. CASE Apply \/ Environment
      BY <3>2, PlanFate
    <3> QED
      BY <3>1, <3>2 DEF Next
  <2> QED
    BY <2>1
<1> QED
  BY <1>1, <1>2, <1>3, JournalSound, PTL DEF Spec

-----------------------------------------------------------------------------
(* What a transition waits for is there, or will come.                      *)

(* What exists is observed, or on its way out.                              *)
Tracked == \A k \in Child : Exists(k) => k \in refs \/ mr[k].dying

(* The children a decision goes on from besides the pair it keeps: the      *)
(* shared chain, and in phase Prepared the Route of an incomplete source,   *)
(* to which an edit may still return.                                       *)
Depended(j) ==
  {k \in RenderedShared(j) : Decided(j)}
    \cup {k \in {Route(j.from)} : /\ j.phase = "Prepared"
                                  /\ j.incomplete /\ j.srcRoute}
Dependable ==
  /\ Depended(journal) \subseteq Observed
  /\ pc # "idle" =>
       Depended(journal) \cup Depended(plan.journal) \subseteq plan.desired

(* The Integration of a fresh target comes after the chain, the last bound  *)
(* of which the journal may not have recorded yet.                          *)
ChainReady(j) ==
  \/ j.bound + 1 >= Stages
  \/ j.bound + 2 >= Stages /\ Exists(Shared(j.bound + 1))
Issued(j) ==
  j.phase \notin {"Absent", "Stable"} /\ j.from = None =>
    (Exists(Integration(j.to))
       \/ (pc # "idle" /\ Integration(j.to) \in plan.desired) => ChainReady(j))

(* The inventory of a stable type is that of its pair.                      *)
Inventoried(j) ==
  j.phase = "Stable" =>
    \A k \in Pair(j.active) :
      Exists(k) /\ j.id[k] # 0 /\ j.uid[k] = mr[k].uid

StandInv ==
  /\ SoundInv /\ Tracked /\ Dependable
  /\ Issued(journal) /\ (pc # "idle" => Issued(plan.journal))
  /\ Inventoried(journal) /\ (pc # "idle" => Inventoried(plan.journal))

(* What becomes of a child between two turns.                               *)
LEMMA ChildFate ==
  ASSUME TypeOK, Apply \/ Environment \/ UNCHANGED vars, NEW k \in Child
  PROVE  /\ Exists(k)' => \/ Exists(k)
                          \/ pc = "create" /\ k \in plan.desired
         /\ Exists(k) /\ ~mr[k].dying => Exists(k)'
         /\ Exists(k) /\ Exists(k)' => /\ mr'[k].uid = mr[k].uid
                                       /\ mr[k].dying => mr'[k].dying
<1>1. mr \in [Child -> ManagedResources] /\ mr[k] \in ManagedResources
  BY DEF TypeOK
<1>2. ASSUME NEW c \in Child,
             CollectGarbage(c) \/ AssignExternalName(c) \/ BecomeCurrent(c)
               \/ Finalise(c) \/ LoseCurrent(c) \/ Create(c)
      PROVE  /\ Exists(k)' => \/ Exists(k)
                              \/ pc = "create" /\ k \in plan.desired
             /\ Exists(k) /\ ~mr[k].dying => Exists(k)'
             /\ Exists(k) /\ Exists(k)' => /\ mr'[k].uid = mr[k].uid
                                           /\ mr[k].dying => mr'[k].dying
  <2>1. CASE k # c
    BY <1>1, <1>2, <2>1 DEF CollectGarbage, AssignExternalName, BecomeCurrent,
       Finalise, LoseCurrent, Create, Exists
  <2>2. CASE k = c /\ (CollectGarbage(c) \/ BecomeCurrent(c) \/ LoseCurrent(c))
    BY <1>1, <2>2 DEF CollectGarbage, BecomeCurrent, LoseCurrent, Exists,
       ManagedResources
  <2>3. CASE k = c /\ AssignExternalName(c)
    <3> DEFINE r == [mr[c] EXCEPT !.st = "named", !.id = mr[c].made + 1,
                                  !.made = mr[c].made + 1]
    <3>1. r.st = "named" /\ r.uid = mr[c].uid /\ r.dying = mr[c].dying
      BY <1>1, <2>3 DEF ManagedResources
    <3>2. mr' = [mr EXCEPT ![c] = r] /\ mr[c].st = "unnamed"
      BY <2>3 DEF AssignExternalName
    <3> HIDE DEF r
    <3> QED
      BY <1>1, <2>3, <3>1, <3>2 DEF Exists
  <2>4. CASE k = c /\ Finalise(c)
    BY <1>1, <2>4 DEF Finalise, Exists, ManagedResources
  <2>5. CASE k = c /\ Create(c)
    BY <1>1, <2>5 DEF Create, Missing, Exists
  <2> QED
    BY <1>2, <2>1, <2>2, <2>3, <2>4, <2>5
<1>3. CASE UNCHANGED mr
  BY <1>3 DEF Exists
<1> QED
  BY <1>2, <1>3 DEF Apply, Environment, Provider, RecordReferences,
     PersistStatus, Crash, CloseAdmission, OpenAdmission, EditSelection, vars

(* What a reconcile refers to changes in one step.                          *)
LEMMA ReferencesFate ==
  ASSUME Apply \/ Environment \/ UNCHANGED vars
  PROVE  \/ UNCHANGED refs
         \/ /\ RecordReferences /\ Doomed = {} /\ refs' = plan.desired
            /\ UNCHANGED <<mr, journal, plan>> /\ pc # "idle" /\ pc' # "idle"
BY DEF Apply, Environment, Provider, CollectGarbage, Create, RecordReferences,
   PersistStatus, Crash, AssignExternalName, BecomeCurrent, LoseCurrent,
   Finalise, CloseAdmission, OpenAdmission, EditSelection, ProviderVars, vars

LEMMA ReconcileGoesOn ==
  ASSUME Apply \/ Environment \/ UNCHANGED vars, UNCHANGED <<journal, plan>>,
         pc' # "idle"
  PROVE  pc # "idle"
BY DEF Apply, Environment, Provider, CollectGarbage, Create, RecordReferences,
   PersistStatus, Crash, AssignExternalName, BecomeCurrent, LoseCurrent,
   Finalise, CloseAdmission, OpenAdmission, EditSelection, ProviderVars, vars

LEMMA TurnLeaves ==
  ASSUME Turn
  PROVE  UNCHANGED <<journal, receiver, mr, refs, sel>> /\ pc = "idle" /\ pc' = "collect"
BY DEF Turn, LegacyTurn, FreshTurn, BootstrapTurn, PreserveTurn, StableTurn,
   BeginSwitchTurn, BuildTurn, ReplaceFreshTurn, CancelTurn, CancellingTurn,
   PreparedTurn, RetireRouteTurn, RetireIntegrationTurn, Migrates, Proceeds, Return

LEMMA TrackedStep ==
  ASSUME HeldInv, Tracked, [Next]_vars
  PROVE  Tracked'
<1>1. TypeOK /\ (pc = "create" => refs = plan.desired)
  BY DEF HeldInv, WithdrawalInv, AheadInv, IType
<1>2. CASE Turn
  BY <1>2, TurnLeaves DEF Tracked, Exists
<1>3. CASE Apply \/ Environment \/ UNCHANGED vars
  <2> SUFFICES ASSUME NEW k \in Child, Exists(k)'
               PROVE  k \in refs' \/ mr'[k].dying
    BY DEF Tracked
  <2>1. CASE UNCHANGED refs
    BY <1>1, <1>3, <2>1, ChildFate DEF Tracked
  <2>2. CASE Doomed = {} /\ refs' = plan.desired /\ UNCHANGED mr
    BY <2>2 DEF Doomed, Observed, Tracked, Exists
  <2> QED
    BY <1>3, <2>1, <2>2, ReferencesFate
<1> QED
  BY <1>2, <1>3 DEF Next

(* The shared chain is never on its way out.                                *)
LEMMA SharedStays ==
  ASSUME HeldInv, NEW k \in SharedChild
  PROVE  ~mr[k].dying
<1>1. k \in Child /\ \A t : k # Integration(t) /\ k # Route(t)
  BY PairsAreChildren DEF SharedChild, Integration, Route
<1>2. CASE journal.phase = "Absent"
  BY <1>1, <1>2 DEF HeldInv, WithdrawalInv, AheadInv, LegacyGrows
<1>3. CASE journal.phase # "Absent"
  BY <1>1, <1>3 DEF HeldInv, Leaving, Retiring
<1> QED
  BY <1>2, <1>3

(* A fresh turn binds the next child of the chain, which it has seen named. *)
LEMMA CapturedFresh ==
  ASSUME TypeOK, journal.from = None
  PROVE  \/ Captured.bound = journal.bound
         \/ /\ Captured.bound = journal.bound + 1
            /\ Named(Shared(journal.bound + 1))
<1> DEFINE next == journal.bound + 1
           bound == IF next <= journal.planned /\ Named(Shared(next))
                      THEN next ELSE journal.bound
           planned == IF bound + 1 <= Stages THEN bound + 1 ELSE Stages
<1>1. journal \in Journals
  BY DEF TypeOK
<1>2. CaptureShared(journal) = [journal EXCEPT !.bound = bound, !.planned = planned]
  BY DEF CaptureShared
<1>3. \/ bound = journal.bound
      \/ bound = journal.bound + 1 /\ Named(Shared(journal.bound + 1))
  OBVIOUS
<1> HIDE DEF bound, planned
<1>4. CaptureShared(journal).bound = bound
  BY <1>1, <1>2 DEF Journals
<1>5. Captured.bound = bound
  BY <1>1, <1>4, CaptureSharedType, CaptureType DEF Captured, CaptureTransition
<1> QED
  BY <1>3, <1>5

LEMMA TurnDepends ==
  ASSUME SoundInv, SoundInv', Dependable, Turn
  PROVE  Depended(journal) \cup Depended(plan'.journal) \subseteq plan'.desired
<1>1. /\ IType /\ TypeOK /\ WithdrawalInv /\ Rooted(journal) /\ Progressed(journal)
      /\ Depended(journal) \subseteq Observed /\ NamesTypes(plan'.journal)
      /\ journal \in Journals /\ journal.from \in MaybeType
  BY DEF SoundInv, IdentityInv, HeldInv, WithdrawalInv, AheadInv, IType, TypeOK,
         Dependable, Journals
<1>2. \A j : ~Decided(j) => Depended(j) = {}
  BY DEF Depended, Decided, Committed
<1>3. CASE plan'.journal = journal /\ plan'.desired = Observed
  BY <1>1, <1>3
<1>4. CASE /\ journal.phase \in {"Absent", "Stable", "Building"}
           /\ plan'.journal.phase \in {"Absent", "Stable", "Building"}
  BY <1>2, <1>4 DEF Decided, Committed
<1>5. CASE BuildTurn \/ CancelTurn \/ CancellingTurn \/ PreparedTurn
             \/ RetireRouteTurn \/ RetireIntegrationTurn
  <2> DEFINE p == plan'.journal
  <2>1. /\ journal.phase \notin {"Absent", "Stable"} /\ Migrates
        /\ \/ /\ p.phase \notin {"Absent", "Stable"}
              /\ \A f \in TransitionFields : p[f] = Captured[f]
              /\ Decides(journal, p)
           \/ p.phase = "Stable"
        /\ \A k \in MigrationChildren \ plan'.desired : Retiring(journal, k)
    BY <1>1, <1>5, TransitionOutcome
  <2>2. /\ Captured.from = journal.from /\ Captured.incomplete = journal.incomplete
        /\ Captured.srcRoute = journal.srcRoute
    BY <1>1, CapturedType
  <2>3. Observed \subseteq MigrationChildren
    BY <1>1, <2>1, CapturedProgress
  <2>4. ASSUME NEW j, NEW k \in Depended(j)
        PROVE  \/ k \in RenderedShared(j) /\ Decided(j)
               \/ /\ k = Route(j.from) /\ j.phase = "Prepared"
                  /\ j.incomplete /\ j.srcRoute
    BY <2>4 DEF Depended
  <2>5. ASSUME NEW k, \/ k \in SharedChild
                      \/ \E t : k = Route(t) /\ ~Committed(journal)
        PROVE  ~Retiring(journal, k)
    BY <2>5 DEF Retiring, SharedChild, Route, Integration
  <2>6. Depended(journal) \subseteq plan'.desired
    <3> SUFFICES ASSUME NEW k \in Depended(journal)
                 PROVE  k \in plan'.desired
      OBVIOUS
    <3>1. k \in MigrationChildren
      BY <1>1, <2>3
    <3>2. k \in SharedChild \/ \E t : k = Route(t) /\ ~Committed(journal)
      BY <2>4 DEF RenderedShared, Committed
    <3> QED
      BY <2>1, <2>5, <3>1, <3>2
  <2> HIDE DEF p
  <2>7. ASSUME NamesTypes(p), p.phase \notin {"Absent", "Stable"},
               \A f \in TransitionFields : p[f] = Captured[f],
               Decides(journal, p),
               NEW k \in Depended(p)
        PROVE  k \in plan'.desired
    <3>1. /\ p.from = journal.from /\ p.incomplete = journal.incomplete
          /\ p.srcRoute = journal.srcRoute /\ p.bound = Captured.bound
      BY <2>2, <2>7 DEF TransitionFields
    <3>2. p.phase # "Building" /\ p.from \in Types /\ journal.from # None
      BY <2>4, <2>7, <3>1, TypesAreNamed DEF NamesTypes, Decided, Committed
    <3>3. CASE k \in RenderedShared(p)
      <4>1. k \in RenderedShared(Captured)
        BY <3>1, <3>3 DEF RenderedShared
      <4>2. k \in MigrationChildren
        BY <3>2, <4>1 DEF MigrationChildren, TransitionChildren, TargetChildren
      <4> QED
        BY <2>1, <2>5, <3>3, <4>2 DEF RenderedShared
    <3>4. CASE /\ k = Route(p.from) /\ p.phase = "Prepared"
               /\ p.incomplete /\ p.srcRoute
      <4>1. journal.id[Integration(journal.from)] # 0
        BY <1>1, <2>1, <3>1, <3>2, <3>4 DEF Rooted
      <4>2. journal.bound + 1 >= Stages
        BY <1>1, <3>1, <3>2, <4>1 DEF Progressed
      <4>3. k \in MigrationChildren
        BY <3>1, <3>2, <3>4, <4>1, <4>2
           DEF MigrationChildren, TransitionChildren, SourceChildren, Rendered
      <4>4. ~Committed(journal)
        BY <2>7, <3>4 DEF Decides, Committed
      <4> QED
        BY <2>1, <2>5, <3>4, <4>3, <4>4
    <3> QED
      BY <2>4, <2>7, <3>3, <3>4
  <2>8. NamesTypes(p)
    BY <1>1 DEF p
  <2>9. p.phase = "Stable" => Depended(p) = {}
    BY <1>2 DEF Decided, Committed
  <2>10. Depended(p) \subseteq plan'.desired
    BY <2>1, <2>7, <2>8, <2>9
  <2> QED
    BY <2>6, <2>10 DEF p
<1>6. LegacyTurn \/ FreshTurn \/ BootstrapTurn => journal.phase = "Absent"
  BY DEF LegacyTurn, Governed, FreshTurn, BootstrapTurn
<1>7. /\ StableTurn \/ BeginSwitchTurn => journal.phase = "Stable"
      /\ ReplaceFreshTurn => journal.phase = "Building"
  BY DEF StableTurn, BeginSwitchTurn, ReplaceFreshTurn
<1> QED
  BY <1>1, <1>3, <1>4, <1>5, <1>6, <1>7, OtherOutcome

LEMMA DependableStep ==
  ASSUME SoundInv, SoundInv', Dependable, [Next]_vars
  PROVE  Dependable'
<1>1. /\ TypeOK /\ HeldInv
      /\ pc = "create" => refs = plan.desired
      /\ pc # "idle" => Depended(plan.journal) \subseteq plan.desired
  BY DEF SoundInv, IdentityInv, HeldInv, WithdrawalInv, AheadInv, IType, Dependable
<1>2. CASE Turn
  <2>1. UNCHANGED <<journal, mr, refs>>
    BY <1>2, TurnLeaves
  <2>2. Depended(journal)' = Depended(journal) /\ Observed' = Observed
    BY <2>1 DEF Depended, RenderedShared, Decided, Committed, Observed
  <2>3. Depended(journal) \cup Depended(plan'.journal) \subseteq plan'.desired
    BY <1>2, TurnDepends
  <2>4. Depended(plan'.journal) = Depended(plan.journal)'
    BY DEF Depended, RenderedShared, Decided, Committed
  <2> QED
    BY <2>2, <2>3, <2>4 DEF Dependable
<1>3. CASE Apply \/ Environment \/ UNCHANGED vars
  <2>1. ASSUME UNCHANGED <<journal, plan>>
        PROVE  Dependable'
    <3>1. /\ Depended(journal)' = Depended(journal)
          /\ Depended(plan.journal)' = Depended(plan.journal)
      BY <2>1 DEF Depended, RenderedShared, Decided, Committed
    <3>2. pc' # "idle" => pc # "idle"
      BY <1>3, <2>1, ReconcileGoesOn
    <3>3. ASSUME NEW k \in Depended(journal)
          PROVE  k \in Observed'
      <4>1. k \in refs /\ Exists(k) /\ k \in Child
        BY <1>1, <3>3 DEF Dependable, Observed, Exists, TypeOK
      <4>2. ~mr[k].dying
        <5>1. CASE k \in RenderedShared(journal)
          BY <1>1, <5>1, SharedStays DEF RenderedShared
        <5>2. CASE k = Route(journal.from) /\ journal.phase = "Prepared"
          <6>1. ~Leaving(journal, k)
            BY <5>2 DEF Leaving, Retiring, Committed, Route, Integration
          <6> QED
            BY <1>1, <4>1, <5>2, <6>1 DEF HeldInv
        <5> QED
          BY <3>3, <5>1, <5>2 DEF Depended
      <4>3. Exists(k)'
        BY <1>1, <1>3, <4>1, <4>2, ChildFate
      <4>4. k \in refs'
        BY <1>3, <3>3, <4>1, ReferencesFate DEF Dependable
      <4> QED
        BY <4>3, <4>4 DEF Observed, Exists
    <3> QED
      BY <2>1, <3>1, <3>2, <3>3 DEF Dependable
  <2>2. ASSUME pc' = "idle", UNCHANGED <<mr, refs>>, journal' = journal
        PROVE  Dependable'
    <3>1. Depended(journal)' = Depended(journal) /\ Observed' = Observed
      BY <2>2 DEF Depended, RenderedShared, Decided, Committed, Observed
    <3> QED
      BY <2>2, <3>1 DEF Dependable
  <2>3. ASSUME pc' = "idle", UNCHANGED <<mr, refs>>, journal' = plan.journal,
               PersistStatus
        PROVE  Dependable'
    <3>1. pc = "create" /\ Missing = {}
      BY <2>3 DEF PersistStatus
    <3>2. plan.desired \subseteq Observed
      BY <1>1, <3>1 DEF Missing, Observed
    <3>3. Depended(journal)' = Depended(plan.journal) /\ Observed' = Observed
      BY <2>3 DEF Depended, RenderedShared, Decided, Committed, Observed
    <3> QED
      BY <1>1, <2>3, <3>1, <3>2, <3>3 DEF Dependable
  <2> QED
    BY <1>3, <2>1, <2>2, <2>3, PlanFate
<1> QED
  BY <1>2, <1>3 DEF Next

LEMMA TurnIssues ==
  ASSUME SoundInv, SoundInv', Issued(journal), Turn
  PROVE  Issued(journal)' /\ Issued(plan.journal)'
<1>1. /\ IType /\ TypeOK /\ NamesTypes(journal) /\ NamesTypes(plan'.journal)
      /\ journal \in Journals /\ WithdrawalInv /\ LegacyGrows
      /\ plan'.journal.to \in MaybeType
  BY DEF SoundInv, IdentityInv, HeldInv, WithdrawalInv, AheadInv, IType, TypeOK,
         Journals
<1>2. UNCHANGED <<journal, mr>> /\ pc = "idle" /\ pc' = "collect"
  BY TurnLeaves
<1> DEFINE Ready(j) == Exists(Integration(j.to)) \/ Integration(j.to) \in plan'.desired
                         => ChainReady(j)
           Fresh(j) == j.phase \notin {"Absent", "Stable"} /\ j.from = None
<1>3. ASSUME Fresh(journal) => Ready(journal),
             Fresh(plan'.journal) => Ready(plan'.journal)
      PROVE  Issued(journal)' /\ Issued(plan.journal)'
  BY <1>2, <1>3 DEF Issued, Exists, ChainReady
<1>4. Fresh(journal) /\ Exists(Integration(journal.to)) => ChainReady(journal)
  BY DEF Issued
<1> HIDE DEF Ready, Fresh
<1>5. CASE PreserveTurn /\ plan'.journal = journal /\ plan'.desired = Observed
  <2>1. Fresh(journal) => Ready(journal)
    BY <1>4, <1>5 DEF Ready, Observed, Exists
  <2> QED
    BY <1>3, <1>5, <2>1
<1>6. CASE FreshTurn /\ plan'.desired = {} /\ plan'.journal.phase = "Building"
  <2>1. journal.phase = "Absent" /\ Observed = {}
    BY <1>6 DEF FreshTurn
  <2>2. Existing = {}
    BY <1>1, <2>1 DEF LegacyGrows, Existing, Observed, Exists
  <2>3. Integration(plan'.journal.to) \in Child
    BY <1>1, <1>6, ChildrenOfAType, PairsAreChildren DEF NamesTypes
  <2>4. Ready(plan'.journal)
    BY <1>6, <2>2, <2>3 DEF Ready, Existing
  <2> QED
    BY <1>3, <2>1, <2>4 DEF Fresh
<1>7. CASE ReplaceFreshTurn /\ plan'.journal.from = journal.to
  <2>1. /\ journal.phase = "Building" /\ journal.to # None
        /\ plan'.desired \subseteq Rendered(journal, journal.to)
    BY <1>1, <1>7, TypesAreNamed DEF ReplaceFreshTurn, NamesTypes, Return
  <2>2. Integration(journal.to) \in plan'.desired => journal.bound + 1 >= Stages
    BY <2>1 DEF Rendered, RenderedShared, SharedChild, Integration, Route
  <2>3. Fresh(journal) => Ready(journal)
    BY <1>4, <2>2 DEF Ready, ChainReady
  <2> QED
    BY <1>3, <1>7, <2>1, <2>3 DEF Fresh
<1>8. CASE BuildTurn \/ CancelTurn \/ CancellingTurn \/ PreparedTurn
             \/ RetireRouteTurn \/ RetireIntegrationTurn
  <2> DEFINE p == plan'.journal
  <2>1. /\ journal.phase \notin {"Absent", "Stable"}
        /\ \/ /\ p.phase \notin {"Absent", "Stable"}
              /\ \A f \in TransitionFields : p[f] = Captured[f]
           \/ p.phase = "Stable"
        /\ plan'.desired \subseteq MigrationChildren
    BY <1>1, <1>8, TransitionOutcome
  <2>2. Captured.from = journal.from /\ Captured.to = journal.to
    BY <1>1, CapturedType
  <2> HIDE DEF p
  <2>3. ASSUME journal.from = None
        PROVE  Ready(journal) /\ (Fresh(p) => Ready(p))
    <3>1. \/ Captured.bound = journal.bound
          \/ /\ Captured.bound = journal.bound + 1
             /\ Exists(Shared(journal.bound + 1))
      BY <1>1, <2>3, CapturedFresh DEF Named, Exists
    <3>2. Integration(journal.to) \in plan'.desired => Captured.bound + 1 >= Stages
      <4>1. SourceChildren(journal) = {}
        BY <2>3 DEF SourceChildren
      <4>2. Integration(journal.to) \in MigrationChildren =>
              Integration(journal.to) \in Rendered(Captured, journal.to)
        BY <4>1 DEF MigrationChildren, TransitionChildren, TargetChildren,
           RenderedShared, SharedChild, Integration, Route
      <4> QED
        BY <2>1, <4>2 DEF Rendered, RenderedShared, SharedChild, Integration, Route
    <3>3. journal.bound \in Nat /\ Captured.bound \in Nat
      BY <1>1, CapturedType DEF Journals
    <3>4. Exists(Integration(journal.to)) => ChainReady(journal)
      BY <1>4, <2>1, <2>3 DEF Fresh
    <3>5. Ready(journal)
      BY <3>1, <3>2, <3>3, <3>4 DEF Ready, ChainReady
    <3>6. ASSUME p.to = journal.to, p.bound = Captured.bound
          PROVE  Ready(p)
      BY <3>1, <3>2, <3>3, <3>4, <3>6 DEF Ready, ChainReady
    <3> QED
      BY <2>1, <2>2, <3>5, <3>6 DEF Fresh, TransitionFields
  <2>4. Fresh(p) => journal.from = None
    BY <2>1, <2>2 DEF Fresh, TransitionFields
  <2>5. (Fresh(journal) => Ready(journal)) /\ (Fresh(p) => Ready(p))
    BY <2>3, <2>4 DEF Fresh
  <2> QED
    BY <1>3, <2>5 DEF p
<1>9. CASE /\ ~Fresh(journal) /\ ~Fresh(plan'.journal)
  BY <1>3, <1>9
<1>10. CASE BootstrapTurn /\ (\/ plan'.journal.phase = "Stable"
                              \/ plan'.journal.from = InboundEmail)
  <2>1. journal.phase = "Absent" /\ InboundEmail # None
    BY <1>10, TypesAreNamed DEF BootstrapTurn, Types
  <2> QED
    BY <1>9, <1>10, <2>1 DEF Fresh
<1>11. CASE BeginSwitchTurn /\ plan'.journal.from = journal.active
  <2>1. journal.phase = "Stable" /\ journal.active # None
    BY <1>1, <1>11, TypesAreNamed DEF BeginSwitchTurn, NamesTypes
  <2> QED
    BY <1>9, <1>11, <2>1 DEF Fresh
<1>12. CASE (LegacyTurn \/ StableTurn) /\ plan'.journal = journal
  <2>1. journal.phase \in {"Absent", "Stable"}
    BY <1>12 DEF LegacyTurn, Governed, StableTurn
  <2> QED
    BY <1>9, <1>12, <2>1 DEF Fresh
<1> QED
  BY <1>1, <1>5, <1>6, <1>7, <1>8, <1>10, <1>11, <1>12, OtherOutcome

LEMMA IssuedStep ==
  ASSUME SoundInv, SoundInv', Issued(journal), pc # "idle" => Issued(plan.journal),
         [Next]_vars
  PROVE  Issued(journal)' /\ (pc # "idle" => Issued(plan.journal))'
<1>1. TypeOK /\ HeldInv /\ IType
  BY DEF SoundInv, IdentityInv, HeldInv, WithdrawalInv, AheadInv, IType
<1>2. CASE Turn
  BY <1>2, TurnIssues
<1>3. CASE Apply \/ Environment \/ UNCHANGED vars
  <2>1. ASSUME UNCHANGED <<journal, plan>>, pc' # "idle" => pc # "idle",
               NEW j \in Journals, NamesTypes(j), Issued(j),
               j.phase \notin {"Absent", "Stable"}, j.from = None,
               \/ Exists(Integration(j.to))'
               \/ pc' # "idle" /\ Integration(j.to) \in plan'.desired
        PROVE  /\ ChainReady(j)
               /\ Exists(Shared(j.bound + 1)) /\ j.bound + 1 < Stages =>
                    Exists(Shared(j.bound + 1))'
    <3>1. Integration(j.to) \in Child
      BY <2>1, ChildrenOfAType, PairsAreChildren DEF NamesTypes
    <3>2. ChainReady(j)
      BY <1>1, <1>3, <2>1, <3>1, ChildFate DEF Issued
    <3>3. ASSUME j.bound + 1 < Stages
          PROVE  Shared(j.bound + 1) \in SharedChild
      BY <2>1, <3>3 DEF Journals, SharedChild, Shared
    <3> QED
      BY <1>1, <1>3, <3>2, <3>3, SharedStays, PairsAreChildren, ChildFate
  <2>2. ASSUME UNCHANGED <<journal, plan>>
        PROVE  Issued(journal)' /\ (pc # "idle" => Issued(plan.journal))'
    <3>1. pc' # "idle" => pc # "idle"
      BY <1>3, <2>2, ReconcileGoesOn
    <3>2. /\ journal \in Journals /\ plan.journal \in Journals
          /\ NamesTypes(journal) /\ NamesTypes(plan.journal)
      BY <1>1 DEF IType, TypeOK
    <3>3. \A j \in Journals : j.bound \in Nat
      BY DEF Journals
    <3>4. Issued(journal)'
      BY <2>1, <2>2, <3>1, <3>2, <3>3 DEF Issued, ChainReady, Exists
    <3>5. (pc # "idle" => Issued(plan.journal))'
      BY <2>1, <2>2, <3>1, <3>2, <3>3 DEF Issued, ChainReady, Exists
    <3> QED
      BY <3>4, <3>5
  <2>3. ASSUME pc' = "idle", UNCHANGED mr,
               journal' = journal \/ (journal' = plan.journal /\ pc # "idle")
        PROVE  Issued(journal)' /\ (pc # "idle" => Issued(plan.journal))'
    BY <2>3 DEF Issued, ChainReady, Exists
  <2> QED
    BY <1>3, <2>2, <2>3, PlanFate
<1> QED
  BY <1>2, <1>3 DEF Next

LEMMA InventoriedStep ==
  ASSUME SoundInv, Inventoried(journal), pc # "idle" => Inventoried(plan.journal),
         [Next]_vars
  PROVE  Inventoried(journal)' /\ (pc # "idle" => Inventoried(plan.journal))'
<1>1. /\ TypeOK /\ HeldInv /\ IType /\ NamedHaveIDs /\ NamesTypes(journal)
      /\ NamesTypes(plan.journal)
  BY DEF SoundInv, IdentityInv, HeldInv, WithdrawalInv, AheadInv, IType
<1>2. CASE Turn
  <2>1. UNCHANGED <<journal, mr>> /\ pc = "idle" /\ pc' = "collect"
    BY <1>2, TurnLeaves
  <2>2. CASE plan'.journal = journal
    BY <2>1, <2>2 DEF Inventoried, Exists
  <2>3. CASE plan'.journal.phase # "Stable"
    BY <2>1, <2>3 DEF Inventoried, Exists
  <2>4. CASE /\ BootstrapTurn /\ plan'.journal.active = InboundEmail
             /\ plan'.journal.id = Predecessor.id
             /\ plan'.journal.uid = Predecessor.uid
    <3>1. /\ Route(InboundEmail) \in LegacyRendered
          /\ \A k \in LegacyRendered : Current(k)
      BY <2>4 DEF BootstrapTurn
    <3>2. Pair(InboundEmail) \subseteq LegacyRendered
      BY <3>1 DEF LegacyRendered, LegacyShared, SharedChild, Shared, Route,
         Integration, Pair
    <3>3. [NoJournal EXCEPT !.bound = Stages] \in Journals
      BY NoJournalType, StageBounds DEF WellFormed, Journals
    <3>4. InboundEmail \in Types /\ Pair(InboundEmail) \subseteq PairChild
      BY ChildrenOfAType DEF Types
    <3>5. ASSUME NEW k \in Pair(InboundEmail)
          PROVE  /\ Exists(k) /\ k \in Child
                 /\ Predecessor.id[k] = mr[k].id /\ Predecessor.uid[k] = mr[k].uid
                 /\ mr[k].id # 0
      <4>1. k \in Observed /\ mr[k].st = "current" /\ k \in PairChild
        BY <3>1, <3>2, <3>4, <3>5 DEF Current
      <4> QED
        BY <1>1, <3>3, <3>5, <4>1, PairsAreChildren
           DEF Predecessor, Capture, Journals, NamedHaveIDs, Exists
    <3> QED
      BY <2>1, <2>4, <3>5 DEF Inventoried, Exists
  <2>5. CASE /\ BuildTurn \/ CancelTurn \/ CancellingTurn \/ PreparedTurn
                  \/ RetireRouteTurn \/ RetireIntegrationTurn
             /\ plan'.journal.phase = "Stable"
    <3>1. /\ Barrier(Captured, plan'.journal.active)
          /\ plan'.journal.id = Captured.id /\ plan'.journal.uid = Captured.uid
      BY <1>1, <2>5, TransitionOutcome
    <3>2. \A k \in Pair(plan'.journal.active) :
            Exists(k) /\ Captured.id[k] # 0 /\ Captured.uid[k] = mr[k].uid
      BY <3>1, BarrierCurrent DEF Barrier, Observed, Exists
    <3> QED
      BY <2>1, <3>1, <3>2 DEF Inventoried, Exists
  <2> QED
    BY <1>1, <1>2, <2>2, <2>3, <2>4, <2>5, OtherOutcome
<1>3. CASE Apply \/ Environment \/ UNCHANGED vars
  <2>1. ASSUME NEW k \in Child, Exists(k), ~mr[k].dying
        PROVE  Exists(k)' /\ mr'[k].uid = mr[k].uid
    BY <1>1, <1>3, <2>1, ChildFate
  <2>2. ASSUME NEW j, NamesTypes(j), j.phase = "Stable", NEW k \in Pair(j.active)
        PROVE  k \in Relied(j) /\ k \in Child
    BY <2>2, ChildrenOfAType, PairsAreChildren
       DEF NamesTypes, Relied, Retiring, Committed
  <2>3. ASSUME UNCHANGED <<journal, plan>>
        PROVE  Inventoried(journal)' /\ (pc # "idle" => Inventoried(plan.journal))'
    <3>1. pc' # "idle" => pc # "idle"
      BY <1>3, <2>3, ReconcileGoesOn
    <3>2. /\ \A k \in Relied(journal) : ~mr[k].dying
          /\ pc # "idle" => \A k \in Relied(plan.journal) : ~mr[k].dying
      BY <1>1 DEF HeldInv
    <3>3. Inventoried(journal)'
      BY <1>1, <2>1, <2>2, <2>3, <3>2 DEF Inventoried
    <3>4. (pc # "idle" => Inventoried(plan.journal))'
      BY <1>1, <2>1, <2>2, <2>3, <3>1, <3>2 DEF Inventoried
    <3> QED
      BY <3>3, <3>4
  <2>4. ASSUME pc' = "idle", UNCHANGED mr,
               journal' = journal \/ (journal' = plan.journal /\ pc # "idle")
        PROVE  Inventoried(journal)' /\ (pc # "idle" => Inventoried(plan.journal))'
    BY <2>4 DEF Inventoried, Exists
  <2> QED
    BY <1>3, <2>3, <2>4, PlanFate
<1> QED
  BY <1>2, <1>3 DEF Next

LEMMA StandStep == StandInv /\ [Next]_vars => StandInv'
<1> SUFFICES ASSUME StandInv, [Next]_vars
             PROVE  StandInv'
  OBVIOUS
<1>1. SoundInv /\ SoundInv' /\ HeldInv
  BY SoundStep DEF StandInv, SoundInv, IdentityInv
<1> QED
  BY <1>1, TrackedStep, DependableStep, IssuedStep, InventoriedStep DEF StandInv

(* What a resting composite waits for is there, tracked and inventoried.    *)
LEMMA StandHolds == Spec => []StandInv
<1>1. Init => StandInv
  <2> SUFFICES ASSUME Init
               PROVE  StandInv
    OBVIOUS
  <2>1. /\ SoundInv /\ journal = NoJournal /\ pc = "idle"
        /\ \A k \in Child : mr[k] = AbsentMR
    <3>1. SoundInv
      BY IdentityInitial, NothingPlanned DEF Init, NoPlan, NoJournal, SoundInv
    <3> QED
      BY <3>1 DEF Init
  <2>2. journal.phase = "Absent"
    BY <2>1 DEF NoJournal
  <2>3. Tracked
    BY <2>1 DEF Tracked, Exists, AbsentMR
  <2>4. Depended(journal) = {}
    BY <2>2 DEF Depended, Decided, Committed
  <2> QED
    BY <2>1, <2>2, <2>3, <2>4 DEF StandInv, Dependable, Issued, Inventoried
<1> QED
  BY <1>1, StandStep, PTL DEF Spec

-----------------------------------------------------------------------------
(* Where a composite comes to rest.                                         *)

(* The guards of the turns: a snapshot that meets none is answered Fatal.   *)
Opted == journal.phase = "Absent" /\ sel # None

AnsweredClosed ==
  /\ ~admitted /\ Governed
  /\ IF journal.phase = "Absent"
       THEN Route(InboundEmail) \notin Observed
       ELSE Decodes(journal) /\ Preservable

AnsweredOpting ==
  /\ admitted /\ Opted
  /\ \/ Observed = {}
     \/ /\ Route(InboundEmail) \in LegacyRendered
        /\ \A k \in LegacyRendered : Current(k)

CapturesTransition ==
  /\ CapturableTransition(journal)
  /\ journal.route => Route(journal.to) \in Rendered(Captured, journal.to)

AnsweredMigrating ==
  CASE journal.phase = "Building" /\ Withdrawn /\ journal.from = None -> TRUE
    [] journal.phase = "Building" /\ (Withdrawn => journal.from # None) ->
         CapturesTransition
    [] journal.phase = "Cancelling" -> CapturesTransition
    [] journal.phase = "Prepared" /\ Withdrawn ->
         CapturesTransition /\ journal.from # None
           /\ Barrier(Captured, journal.from)
    [] OTHER ->
         CapturesTransition /\ Barrier(Captured, KeepByDisposition(journal))

Answered ==
  \/ ~Governed
  \/ AnsweredClosed \/ AnsweredOpting
  \/ /\ admitted /\ Decodes(journal) /\ journal.phase # "Absent"
     /\ journal.phase = "Stable" \/ AnsweredMigrating

(* Nothing is being deleted, named or made current.                         *)
Resting ==
  /\ pc = "idle" /\ admitted
  /\ \A k \in Child : Exists(k) => mr[k].st = "current" /\ ~mr[k].dying

Graph(t) == SharedChild \cup Pair(t)

(* A claim that opted in while its legacy graph was incomplete.             *)
HalfBuilt == Opted /\ Observed # {} /\ \E k \in Graph(InboundEmail) : k \notin Observed

(* A resting composite whose chain is bound, or has all that binds it, is   *)
(* one whose observation the transition can capture.                        *)
LEMMA AtRestCurrent ==
  ASSUME StandInv, Resting
  PROVE  /\ \A k \in Child : Exists(k) => Current(k) /\ Named(k)
         /\ \A k \in Observed : k \in Child /\ Exists(k) /\ Current(k)
         /\ \A k \in Observed : mr[k].id # 0
<1>1. TypeOK /\ Tracked /\ NamedHaveIDs
  BY DEF StandInv, SoundInv, IdentityInv, HeldInv, WithdrawalInv, AheadInv, IType
<1>2. \A k \in Child : Exists(k) => Current(k) /\ Named(k)
  BY <1>1 DEF Resting, Tracked, Current, Named, Observed, Exists
<1>3. \A k \in Observed : k \in Child /\ Exists(k)
  BY <1>1 DEF Observed, Exists, TypeOK
<1> QED
  BY <1>1, <1>2, <1>3 DEF NamedHaveIDs, Current

(* What exists of a target or a source is what the journal issued of it.    *)
LEMMA PairIssued ==
  ASSUME SoundInv, journal.phase \notin {"Absent", "Stable"}
  PROVE  /\ Exists(Route(journal.to)) => journal.route
         /\ journal.from # None /\ Exists(Route(journal.from)) =>
              ~journal.incomplete \/ journal.srcRoute
<1>1. /\ journal.to \in Types /\ journal.from \in MaybeType
      /\ journal.from # journal.to /\ WellPlaced(journal)
      /\ journal.incomplete => journal.active = None
      /\ Existing \subseteq Authorised(journal)
  BY DEF SoundInv, IdentityInv, HeldInv, WithdrawalInv, AheadInv, IType, TypeOK,
         NamesTypes, Journals, Progressed, Planned
<1>2. Route(journal.to) \in Child
  BY <1>1, ChildrenOfAType, PairsAreChildren
<1>3. Route(journal.to) \in Authorised(journal) => journal.route
  BY <1>1 DEF Authorised, WellPlaced, SharedChild, Pair, Route, Integration
<1>4. ASSUME journal.from # None
      PROVE  /\ Route(journal.from) \in Child
             /\ Route(journal.from) \in Authorised(journal) =>
                  ~journal.incomplete \/ journal.srcRoute
  <2>1. Route(journal.from) \in Child
    BY <1>1, <1>4, ChildrenOfAType, PairsAreChildren DEF MaybeType
  <2> QED
    BY <1>1, <2>1 DEF Authorised, SharedChild, Pair, Route, Integration
<1> QED
  BY <1>1, <1>2, <1>3, <1>4 DEF Existing

LEMMA AtRestCaptures ==
  ASSUME StandInv, Resting, journal.phase \notin {"Absent", "Stable"},
         ~Unbound, \A k \in Child : ~Superseded(k)
  PROVE  CapturesTransition
<1>1. /\ IType /\ TypeOK /\ WellPlaced(journal) /\ Progressed(journal)
      /\ Rooted(journal) /\ Adopted(journal) /\ Issued(journal) /\ SoundInv
      /\ journal \in Journals /\ journal.bound \in Nat /\ journal.planned \in Nat
      /\ journal.to \in Types /\ journal.from \in MaybeType
      /\ journal.from # journal.to
  BY DEF StandInv, SoundInv, IdentityInv, HeldInv, WithdrawalInv, AheadInv, IType,
         TypeOK, NamesTypes, Journals, Progressed
<1>2. /\ \A k \in Child : Exists(k) => Current(k) /\ Named(k)
      /\ \A k \in Observed : k \in Child /\ Exists(k) /\ Current(k)
  BY AtRestCurrent
<1>3. /\ Exists(Route(journal.to)) => journal.route
      /\ journal.from # None /\ Exists(Route(journal.from)) =>
           ~journal.incomplete \/ journal.srcRoute
  BY <1>1, PairIssued
<1>4. journal.route => journal.id[Integration(journal.to)] # 0
  BY <1>1 DEF Progressed
(* An observed child matches the inventory.                                 *)
<1>5. ASSUME NEW t \in {journal.to, journal.from}, t # None,
             NEW k \in Pair(t) \cap Observed
      PROVE  /\ k \in PairChild
             /\ journal.id[k] # 0 => mr[k].id = journal.id[k]
             /\ journal.uid[k] # 0 => mr[k].uid = journal.uid[k]
  <2>1. t \in Types /\ k \in PairChild /\ k \in Child
    BY <1>1, <1>5, ChildrenOfAType, PairsAreChildren DEF MaybeType
  <2>2. Exists(k) /\ ~mr[k].dying
    BY <1>2, <1>5 DEF Current
  <2> QED
    BY <1>1, <1>5, <2>1, <2>2 DEF Adopted, Superseded
(* The target is captured into a journal c whose chain is bound.            *)
<1>6. ASSUME NEW c \in Journals, Captured = Capture(c, journal.to),
             \A s \in Types : c.id[Integration(s)] # 0 => c.bound + 1 >= Stages,
             Integration(journal.to) \in Observed => c.bound + 1 >= Stages,
             \A k \in Pair(journal.to) :
               c.id[k] = journal.id[k] /\ c.uid[k] = journal.uid[k]
      PROVE  /\ Capturable(c, journal.to)
             /\ journal.route => Route(journal.to) \in Rendered(Captured, journal.to)
  <2>1. journal.to # None
    BY <1>1, TypesAreNamed
  <2>2. Integration(journal.to) \in Pair(journal.to)
    BY DEF Pair
  <2>3. journal.route => /\ c.id[Integration(journal.to)] # 0
                         /\ c.bound + 1 >= Stages
    BY <1>1, <1>4, <1>6, <2>2
  <2>4. ASSUME NEW k \in Pair(journal.to) \cap Observed
        PROVE  k \in Rendered(c, journal.to)
    <3>1. CASE k = Integration(journal.to)
      BY <1>6, <2>4, <3>1 DEF Rendered
    <3>2. CASE k = Route(journal.to)
      BY <1>2, <1>3, <2>3, <2>4, <3>2 DEF Rendered
    <3> QED
      BY <2>4, <3>1, <3>2 DEF Pair
  <2>5. Capturable(c, journal.to)
    BY <1>5, <1>6, <2>1, <2>4 DEF Capturable
  <2>6. /\ Integration(journal.to) \in PairChild
        /\ \A k \in PairChild : c.id[k] # 0 => Captured.id[k] = c.id[k]
        /\ Captured.bound = c.bound
    BY <1>1, <1>6, <2>5, CaptureProgress, ChildrenOfAType
  <2> QED
    BY <2>3, <2>5, <2>6 DEF Rendered
<1>7. CASE journal.from = None
  <2> DEFINE c == CaptureShared(journal)
             next == journal.bound + 1
             bound == IF next <= journal.planned /\ Named(Shared(next))
                        THEN next ELSE journal.bound
             planned == IF bound + 1 <= Stages THEN bound + 1 ELSE Stages
  <2>1. c = [journal EXCEPT !.bound = bound, !.planned = planned]
    BY DEF CaptureShared
  <2>2. /\ bound >= journal.bound
        /\ next <= journal.planned /\ Named(Shared(next)) => bound = next
    BY <1>1
  <2> HIDE DEF bound, planned
  <2>3. c.id = journal.id /\ c.uid = journal.uid /\ c.bound = bound
    BY <1>1, <2>1 DEF Journals
  <2>4. c \in Journals /\ Captured = Capture(c, journal.to)
    BY <1>1, <1>7, CaptureSharedType DEF Captured, CaptureTransition
  <2> HIDE DEF c
  <2>5. ASSUME Integration(journal.to) \in Observed
        PROVE  bound + 1 >= Stages
    <3>1. ChainReady(journal)
      BY <1>1, <1>2, <1>7, <2>5 DEF Issued
    <3>2. CASE next + 1 >= Stages /\ Exists(Shared(next)) /\ ~(next >= Stages)
      <4>1. Shared(next) \in Child
        BY <1>1, <3>2 DEF Shared, Child, SharedChild
      <4>2. next <= journal.planned
        BY <1>1, <1>7, <3>2 DEF WellPlaced
      <4> QED
        BY <1>2, <2>2, <3>2, <4>1, <4>2
    <3>3. bound \in Nat
      BY <2>3, <2>4 DEF Journals
    <3> QED
      BY <1>1, <2>2, <3>1, <3>2, <3>3 DEF ChainReady
  <2>6. \A s \in Types : c.id[Integration(s)] # 0 => c.bound + 1 >= Stages
    <3>1. bound \in Nat
      BY <2>3, <2>4 DEF Journals
    <3> QED
      BY <1>1, <2>2, <2>3, <3>1 DEF Progressed
  <2>7. /\ Capturable(c, journal.to)
        /\ journal.route => Route(journal.to) \in Rendered(Captured, journal.to)
    BY <1>6, <2>3, <2>4, <2>5, <2>6
  <2> QED
    BY <1>7, <2>7 DEF CapturesTransition, CapturableTransition, c
<1>8. CASE journal.from # None
  <2> DEFINE c == Capture(journal, journal.from)
  <2>1. journal.from \in Types
    BY <1>1, <1>8 DEF MaybeType
  <2>2. ~journal.incomplete \/ journal.srcRoute =>
          journal.id[Integration(journal.from)] # 0
    BY <1>8 DEF StandInv, SoundInv, Rooted
  <2>3. journal.bound + 1 >= Stages
    <3>1. CASE journal.incomplete
      BY <1>1, <3>1 DEF Unbound
    <3>2. CASE ~journal.incomplete
      BY <1>1, <2>1, <2>2, <3>2 DEF Progressed
    <3> QED
      BY <3>1, <3>2
  <2>4. ASSUME NEW k \in Pair(journal.from) \cap Observed
        PROVE  k \in Rendered(journal, journal.from)
    <3>1. k = Route(journal.from) => journal.id[Integration(journal.from)] # 0
      BY <1>2, <1>3, <1>8, <2>2, <2>4
    <3> QED
      BY <2>3, <2>4, <3>1 DEF Rendered, Pair
  <2>5. Capturable(journal, journal.from)
    BY <1>5, <1>8, <2>4 DEF Capturable
  <2>6. /\ c \in Journals /\ Captured = Capture(c, journal.to)
        /\ c.bound = journal.bound
    BY <1>1, <1>8, CaptureType DEF Captured, CaptureTransition
  <2>7. \A k \in Pair(journal.to) :
          c.id[k] = journal.id[k] /\ c.uid[k] = journal.uid[k]
    <3>1. Pair(journal.to) \subseteq PairChild
      BY <1>1, ChildrenOfAType
    <3>2. \A k \in Pair(journal.to) : k \notin Pair(journal.from)
      BY <1>1 DEF Pair, Integration, Route
    <3> QED
      BY <1>1, <3>1, <3>2 DEF Capture, Journals
  <2> HIDE DEF c
  <2>8. /\ Capturable(c, journal.to)
        /\ journal.route => Route(journal.to) \in Rendered(Captured, journal.to)
    BY <1>6, <2>3, <2>6, <2>7
  <2> QED
    BY <1>8, <2>5, <2>8 DEF CapturesTransition, CapturableTransition, c
<1> QED
  BY <1>7, <1>8

(* A type of the transition that is there whole, on a chain that is: its    *)
(* barrier is met.                                                          *)
LEMMA AtRestBarrier ==
  ASSUME StandInv, Resting, Migrates, journal.phase \notin {"Absent", "Stable"},
         NEW t \in {journal.from, journal.to}, t # None,
         Pair(t) \cup RenderedShared(Captured) \subseteq Observed
  PROVE  Barrier(Captured, t)
<1>1. /\ IType /\ TypeOK /\ WithdrawalInv
      /\ journal \in Journals /\ Captured \in Journals
      /\ journal.to \in Types /\ journal.from \in MaybeType
      /\ journal.from # journal.to
  BY CapturedType
     DEF StandInv, SoundInv, IdentityInv, HeldInv, WithdrawalInv, AheadInv, IType,
         TypeOK, NamesTypes, Progressed, Journals
<1>2. /\ \A k \in Observed : k \in Child /\ Exists(k) /\ Current(k)
      /\ \A k \in Observed : mr[k].id # 0
  BY AtRestCurrent
<1>3. t \in Types /\ Pair(t) \subseteq PairChild
  BY <1>1, ChildrenOfAType DEF MaybeType
<1>4. ASSUME NEW c \in Journals, NEW k \in Pair(t)
      PROVE  /\ Capture(c, t).id[k] = mr[k].id
             /\ Capture(c, t).uid[k] = mr[k].uid
  BY <1>3, <1>4 DEF Capture, Journals
<1>5. \A k \in Pair(t) : Captured.id[k] = mr[k].id /\ Captured.uid[k] = mr[k].uid
  <2>1. CASE t = journal.to
    <3>1. PICK c \in Journals : Captured = Capture(c, journal.to)
      BY <1>1, CaptureType, CaptureSharedType DEF Captured, CaptureTransition
    <3> QED
      BY <1>4, <2>1, <3>1
  <2>2. CASE t = journal.from
    <3> DEFINE c == Capture(journal, journal.from)
    <3>1. c \in Journals /\ Captured = Capture(c, journal.to)
      BY <1>1, <2>2, CaptureType DEF Captured, CaptureTransition
    <3>2. \A k \in Pair(t) : c.id[k] = mr[k].id /\ c.uid[k] = mr[k].uid
      BY <1>1, <1>4, <2>2
    <3>3. \A k \in Pair(t) : k \notin Pair(journal.to)
      BY <1>1, <2>2 DEF Pair, Integration, Route
    <3> HIDE DEF c
    <3> QED
      BY <1>3, <3>1, <3>2, <3>3 DEF Capture, Journals
  <2> QED
    BY <2>1, <2>2
<1>6. Integration(t) \in Observed /\ Integration(t) \in Pair(t)
  BY DEF Pair
<1>7. Captured.id[Integration(t)] # 0 /\ Captured.bound + 1 >= Stages
  BY <1>1, <1>2, <1>3, <1>5, <1>6, CapturedProgress
<1>8. Route(t) \in Rendered(Captured, t)
  BY <1>7 DEF Rendered
<1>9. Rendered(Captured, t) \subseteq Observed
  BY RenderedParts
<1> QED
  BY <1>2, <1>3, <1>5, <1>8, <1>9 DEF Barrier

(* The answer of a resting composite.                                       *)
LEMMA AtRestAnswered ==
  ASSUME StandInv, Resting, ~HalfBuilt, ~Wedged, ~Halved,
         \A k \in Child : ~Superseded(k)
  PROVE  Answered
<1>1. /\ IType /\ TypeOK /\ HeldInv /\ Disposed(journal) /\ SoundInv
      /\ NamesTypes(journal) /\ KeepsAnother(journal) /\ Dependable
      /\ journal.to \in MaybeType /\ journal.from \in MaybeType
  BY DEF StandInv, SoundInv, IdentityInv, HeldInv, WithdrawalInv, AheadInv, IType,
         TypeOK, Journals
<1>2. /\ Decodes(journal) /\ admitted /\ pc = "idle" /\ ~Unbound
      /\ Unrouted => ~Withdrawn
  BY DEF Wedged, Resting
<1>3. CASE Opted /\ Observed # {}
  <2>1. \A k \in Graph(InboundEmail) : Current(k) /\ Named(k)
    <3>1. \A k \in Graph(InboundEmail) : k \in Observed
      BY <1>3 DEF HalfBuilt
    <3> QED
      BY <3>1, AtRestCurrent
  <2>2. LegacyChain
    BY <2>1 DEF LegacyChain, Graph, SharedChild, Shared
  <2>3. Route(InboundEmail) \in LegacyRendered
    BY <2>1, <2>2 DEF LegacyRendered, Graph, Pair
  <2>4. LegacyRendered \subseteq Graph(InboundEmail)
    BY DEF LegacyRendered, LegacyShared, Graph, Pair
  <2> QED
    BY <1>2, <1>3, <2>1, <2>3, <2>4 DEF Answered, AnsweredOpting
<1>4. CASE Opted /\ Observed = {}
  BY <1>2, <1>4 DEF Answered, AnsweredOpting
<1>5. CASE journal.phase = "Stable"
  BY <1>2, <1>5 DEF Answered
<1>6. CASE journal.phase \notin {"Absent", "Stable"}
  <2>1. CapturesTransition
    BY <1>2, <1>6, AtRestCaptures
  <2>2. Migrates
    BY <1>2, <2>1 DEF Migrates, Proceeds, CapturesTransition, Captured
  <2>3. ASSUME Decided(journal)
        PROVE  /\ journal.from \in Types /\ journal.from # None
               /\ journal.keep = KeepByDisposition(journal)
               /\ journal.keep \in {journal.from, journal.to}
    BY <1>1, <1>2, <2>3, TypesAreNamed
       DEF NamesTypes, Decided, Decodes, Committed, KeepByDisposition
  <2>4. Decided(journal) => RenderedShared(Captured) \subseteq Observed
    BY <1>1, <2>3, CapturedChain DEF Dependable, Depended, RenderedShared
  <2>5. ASSUME Decided(journal)
        PROVE  Barrier(Captured, KeepByDisposition(journal))
    <3>1. Pair(journal.keep) \subseteq PairChild
      BY <1>1, <2>5, ChildrenOfAType DEF KeepsAnother
    <3>2. \A k \in Pair(journal.keep) : ~Retiring(journal, k)
      BY <1>1, <2>5 DEF KeepsAnother, Retiring, Pair, Route, Integration
    <3>3. Pair(journal.keep) \subseteq Relied(journal)
      BY <1>6, <2>3, <2>5, <3>1, <3>2 DEF Relied
    <3>4. Pair(journal.keep) \subseteq Observed
      BY <1>1, <3>3 DEF HeldInv
    <3>5. journal.keep # None
      BY <1>1, <2>5, TypesAreNamed DEF KeepsAnother
    <3> QED
      BY <1>6, <2>2, <2>3, <2>5, <2>4, <3>4, <3>5, AtRestBarrier
  <2>6. ASSUME journal.phase = "Prepared", Withdrawn
        PROVE  Barrier(Captured, journal.from)
    <3>1. Decided(journal) /\ ~Committed(journal)
      BY <2>6 DEF Decided, Committed
    <3>2. journal.from \in Types /\ journal.from # None
      BY <2>3, <3>1
    <3>3. CASE journal.incomplete
      <4>1. journal.srcRoute
        BY <1>2, <2>6, <3>3 DEF Unrouted
      <4>2. Route(journal.from) \in Observed
        BY <1>1, <2>6, <3>3, <4>1 DEF Dependable, Depended
      <4>3. Integration(journal.from) \in Observed
        BY <2>6, <3>3 DEF Halved
      <4> QED
        BY <1>6, <2>2, <2>4, <3>1, <3>2, <4>2, <4>3, AtRestBarrier DEF Pair
    <3>4. CASE ~journal.incomplete
      <4>1. Pair(journal.from) \subseteq PairChild
        BY <3>2, ChildrenOfAType
      <4>2. Pair(journal.from) \subseteq Relied(journal)
        BY <1>6, <3>1, <3>2, <3>4, <4>1 DEF Relied, Retiring
      <4>3. Pair(journal.from) \subseteq Observed
        BY <1>1, <4>2 DEF HeldInv
      <4> QED
        BY <1>6, <2>2, <2>4, <3>1, <3>2, <4>3, AtRestBarrier
    <3> QED
      BY <3>3, <3>4
  <2>7. journal.phase \notin {"Building", "Cancelling"} => Decided(journal)
    BY <1>1, <1>6 DEF Decided, Committed, TypeOK, Journals, Phases
  <2>8. AnsweredMigrating
    <3>1. CASE journal.phase = "Building"
      BY <2>1, <3>1 DEF AnsweredMigrating
    <3>2. CASE journal.phase = "Cancelling"
      BY <2>1, <3>2 DEF AnsweredMigrating
    <3>3. CASE journal.phase = "Prepared" /\ Withdrawn
      <4>1. Decided(journal)
        BY <3>3 DEF Decided
      <4> QED
        BY <2>1, <2>3, <2>6, <3>3, <4>1 DEF AnsweredMigrating
    <3>4. CASE /\ journal.phase \notin {"Building", "Cancelling"}
               /\ ~(journal.phase = "Prepared" /\ Withdrawn)
      BY <2>1, <2>5, <2>7, <3>4 DEF AnsweredMigrating
    <3> QED
      BY <3>1, <3>2, <3>3, <3>4
  <2> QED
    BY <1>2, <1>6, <2>8 DEF Answered
<1>7. CASE ~Governed
  BY <1>7 DEF Answered
<1> QED
  BY <1>3, <1>4, <1>5, <1>6, <1>7 DEF Opted, Governed

(* Answered is what the turns require of a snapshot.                        *)
LEMMA TurnAnswers == Turn => Answered
<1>1. LegacyTurn \/ FreshTurn \/ BootstrapTurn \/ PreserveTurn => Answered
  BY DEF LegacyTurn, FreshTurn, BootstrapTurn, PreserveTurn, Answered,
     AnsweredOpting, AnsweredClosed, Opted
<1>2. StableTurn \/ BeginSwitchTurn => Answered
  BY DEF StableTurn, BeginSwitchTurn, Proceeds, Answered
<1>3. Migrates => CapturesTransition /\ admitted /\ Decodes(journal)
  BY DEF Migrates, Proceeds, CapturesTransition, Captured
<1>4. CASE ReplaceFreshTurn
  BY <1>4 DEF ReplaceFreshTurn, Proceeds, Answered, AnsweredMigrating
<1>5. CASE BuildTurn \/ (CancelTurn /\ journal.phase = "Building")
  BY <1>3, <1>5 DEF BuildTurn, CancelTurn, Answered, AnsweredMigrating
<1>6. CASE CancellingTurn
  BY <1>3, <1>6 DEF CancellingTurn, Answered, AnsweredMigrating
<1>7. CASE CancelTurn /\ journal.phase = "Prepared"
  BY <1>3, <1>7 DEF CancelTurn, Answered, AnsweredMigrating
<1>8. CASE PreparedTurn \/ RetireRouteTurn \/ RetireIntegrationTurn
  BY <1>3, <1>8 DEF PreparedTurn, RetireRouteTurn, RetireIntegrationTurn,
     Answered, AnsweredMigrating
<1> QED
  BY <1>1, <1>2, <1>4, <1>5, <1>6, <1>7, <1>8 DEF Turn, CancelTurn

(* A composite that has come to rest is answered: the function returns a    *)
(* turn, and not Fatal, unless the claim opted in over an incomplete graph, *)
(* the transition is one of those Wedged excepts, or a child of it has been *)
(* replaced behind the journal's back.                                      *)
THEOREM NeverAtAStandstill ==
  Spec => /\ [](Resting => \/ Answered
                           \/ HalfBuilt \/ Wedged \/ Halved
                           \/ \E k \in Child : Superseded(k))
          /\ [][Turn => Answered]_vars
<1>1. StandInv => (Resting => \/ Answered
                              \/ HalfBuilt \/ Wedged \/ Halved
                              \/ \E k \in Child : Superseded(k))
  BY AtRestAnswered
<1>2. [Next]_vars => [Turn => Answered]_vars
  BY TurnAnswers
<1> QED
  BY <1>1, <1>2, StandHolds, PTL DEF Spec

-----------------------------------------------------------------------------
(* A turn after which nothing moves.                                        *)

(* The claim is served: its journal is stable on the selected type, or it   *)
(* never opted in, and the receiver of a current graph is published.        *)
Served ==
  /\ receiver = Selected /\ \A k \in Graph(Selected) : Current(k)
  /\ IF Governed THEN journal.phase = "Stable" /\ journal.active = Selected
                 ELSE Selected = InboundEmail

(* A turn that returns what is there.                                       *)
Quiet ==
  /\ plan'.journal = journal /\ plan'.receiver = receiver
  /\ plan'.desired = refs /\ Observed = refs

(* A nonempty set of natural numbers has a least element.                   *)
LEMMA LeastElement ==
  ASSUME NEW T \in SUBSET Nat, T # {}
  PROVE  \E x \in T : \A y \in T : x <= y
<1> DEFINE R == {p \in Nat \X Nat : p[1] < p[2]}
<1>1. R = OpToRel(<, Nat)
  BY DEF OpToRel
<1>2. IsWellFoundedOn(R, Nat)
  BY <1>1, NatLessThanWellFounded
<1>3. \A x, y \in Nat : y < x => <<y, x>> \in R
  OBVIOUS
<1> HIDE DEF R
<1>4. \E x \in T : \A y \in T : ~(<<y, x>> \in R)
  BY <1>2, WFMin
<1>5. PICK x \in T : \A y \in T : ~(<<y, x>> \in R)
  BY <1>4
<1>6. \A y \in T : ~(y < x)
  BY <1>3, <1>5
<1> QED
  BY <1>6

(* The legacy path stages the whole graph before it can rest.               *)
LEMMA LegacyRests ==
  ASSUME \A k \in LegacyRendered : Named(k)
  PROVE  LegacyRendered = Graph(InboundEmail)
<1> DEFINE T == {i \in 1..Stages : ~Named(Shared(i))}
<1>1. T = {}
  <2> SUFFICES ASSUME T # {}
               PROVE  FALSE
    OBVIOUS
  <2>1. \E x \in T : \A y \in T : x <= y
    <3>1. T \in SUBSET Nat
      OBVIOUS
    <3> HIDE DEF T
    <3> QED
      BY <3>1, LeastElement
  <2>2. PICK x \in T : \A y \in T : x <= y
    BY <2>1
  <2>3. Shared(x) \in LegacyShared
    BY <2>2 DEF LegacyShared, SharedChild, Shared
  <2> QED
    BY <2>2, <2>3 DEF LegacyRendered
<1>2. LegacyChain /\ LegacyShared = SharedChild
  BY <1>1 DEF LegacyChain, LegacyShared
<1>3. Integration(InboundEmail) \in LegacyRendered
  BY <1>2 DEF LegacyRendered
<1> QED
  BY <1>2, <1>3 DEF LegacyRendered, Graph, Pair

LEMMA QuietLegacy ==
  ASSUME StandInv, Resting, LegacyTurn, Quiet
  PROVE  Served
<1>1. ~Governed /\ plan'.desired = LegacyRendered
      /\ plan'.receiver = Receiver(LegacyRendered)
  BY DEF LegacyTurn, Return, Resting
<1>2. \A k \in LegacyRendered : Current(k) /\ Named(k)
  BY <1>1, AtRestCurrent DEF Quiet
<1>3. LegacyRendered = Graph(InboundEmail)
  BY <1>2, LegacyRests
<1>4. journal.phase = "Absent" /\ Selected = InboundEmail
  BY <1>1 DEF Governed, Selected
<1>5. Receiver(LegacyRendered) = InboundEmail
  BY <1>1, <1>2, <1>3, <1>4 DEF Receiver, Graph, Pair
<1> QED
  BY <1>1, <1>2, <1>3, <1>4, <1>5 DEF Served, Quiet

LEMMA QuietStable ==
  ASSUME StandInv, Resting, StableTurn, Quiet
  PROVE  Served
<1>1. /\ IType /\ TypeOK /\ Progressed(journal) /\ HeldInv /\ Adopted(journal)
      /\ Inventoried(journal) /\ journal.bound \in Nat
      /\ journal.phase = "Stable" /\ journal.active \in Types
      /\ Selected = journal.active
  BY DEF StandInv, SoundInv, IdentityInv, HeldInv, WithdrawalInv, AheadInv, IType,
         TypeOK, NamesTypes, Journals, StableTurn
<1>2. /\ plan'.desired = Rendered(journal, Selected)
      /\ plan'.receiver = Receiver(Rendered(journal, Selected))
  BY <1>1 DEF StableTurn, Return
<1>3. \A k \in Rendered(journal, Selected) : Current(k)
  BY <1>2, AtRestCurrent DEF Quiet
<1>4. journal.id[Integration(Selected)] # 0 /\ journal.bound + 1 >= Stages
  BY <1>1 DEF Progressed
<1>5. Rendered(journal, Selected) = Graph(Selected)
  BY <1>1, <1>4 DEF Rendered, RenderedShared, Graph, Pair, SharedChild
<1>6. \A k \in Pair(Selected) : /\ journal.id[k] # 0 /\ journal.id[k] = mr[k].id
                                /\ journal.uid[k] = mr[k].uid
  BY <1>1, ChildrenOfAType DEF Inventoried, Adopted
<1>7. Barrier(journal, Selected)
  <2>1. Route(Selected) \in Rendered(journal, Selected) /\ Selected \in Types
    BY <1>1, <1>5 DEF Graph, Pair
  <2> QED
    BY <1>3, <1>6, <2>1 DEF Barrier
<1>8. plan'.receiver = Selected
  BY <1>1, <1>2, <1>7 DEF Receiver, Governed
<1> QED
  BY <1>1, <1>3, <1>5, <1>8 DEF Served, Quiet, Governed

(* A turn that waits for the target waits for something that moves.         *)
LEMMA QuietBuild ==
  ASSUME StandInv, Resting, BuildTurn, Quiet
  PROVE  Unbound
<1> SUFFICES ASSUME ~Unbound
             PROVE  FALSE
  OBVIOUS
<1>1. /\ IType /\ TypeOK /\ Progressed(journal) /\ Rooted(journal)
      /\ WellPlaced(journal) /\ WithdrawalInv
      /\ journal \in Journals /\ journal.bound \in Nat
      /\ journal.phase = "Building" /\ Migrates
      /\ journal.to \in Types /\ journal.to # None /\ journal.from \in MaybeType
  BY TypesAreNamed
     DEF StandInv, SoundInv, IdentityInv, HeldInv, WithdrawalInv, AheadInv, IType,
         TypeOK, NamesTypes, Journals, BuildTurn
<1>2. /\ Captured \in Journals /\ Captured.route = journal.route
      /\ Captured.phase = journal.phase /\ Captured.from = journal.from
      /\ Captured.bound \in Nat
  BY <1>1, CapturedType DEF Journals
<1>3. MigrationChildren = Observed
  BY DEF BuildTurn, Return, Quiet
<1>4. /\ \A k \in Observed : k \in Child /\ Exists(k) /\ Current(k)
      /\ \A k \in Observed : mr[k].id # 0
  BY AtRestCurrent
<1>5. plan'.journal = journal
  BY DEF Quiet
(* The Route is planned.                                                    *)
<1>6. Captured.id[Integration(journal.to)] # 0 => journal.route
  <2> SUFFICES ASSUME Captured.id[Integration(journal.to)] # 0, ~journal.route
               PROVE  FALSE
    OBVIOUS
  <2>1. journal = [Captured EXCEPT !.route = TRUE]
    BY <1>5 DEF BuildTurn, Return
  <2> QED
    BY <1>2, <2>1 DEF Journals
(* The barrier is not met.                                                  *)
<1>7. journal.route /\ Barrier(Captured, journal.to) => FALSE
  <2> SUFFICES ASSUME journal.route, Barrier(Captured, journal.to)
               PROVE  FALSE
    OBVIOUS
  <2>1. journal \in {Settled(Captured, journal.to),
                     [Captured EXCEPT !.phase = "Prepared", !.keep = journal.to,
                                      !.retire = journal.from]}
    BY <1>5 DEF BuildTurn, Return
  <2>2. Settled(Captured, journal.to).phase = "Stable"
    BY <1>2 DEF Settled, Journals
  <2>3. [Captured EXCEPT !.phase = "Prepared", !.keep = journal.to,
                         !.retire = journal.from].phase = "Prepared"
    BY <1>2 DEF Journals
  <2> QED
    BY <1>1, <2>1, <2>2, <2>3
<1>8. Captured = journal
  BY <1>5, <1>6, <1>7 DEF BuildTurn, Return
(* The chain is bound, and rendered whole.                                  *)
<1>9. journal.bound + 1 >= Stages /\ RenderedShared(journal) \subseteq Observed
  <2>1. CASE journal.from # None
    <3>1. RenderedShared(journal) \subseteq MigrationChildren
      BY <1>8, <2>1 DEF MigrationChildren, TransitionChildren, TargetChildren
    <3>2. CASE journal.incomplete
      BY <1>1, <1>3, <3>1, <3>2 DEF Unbound
    <3>3. CASE ~journal.incomplete
      <4>1. journal.id[Integration(journal.from)] # 0 /\ journal.from \in Types
        BY <1>1, <2>1, <3>3 DEF Rooted, MaybeType
      <4> QED
        BY <1>1, <1>3, <3>1, <4>1 DEF Progressed
    <3> QED
      BY <3>2, <3>3
  <2>2. CASE journal.from = None
    <3> DEFINE next == journal.bound + 1
    <3>1. \A k \in RenderedShared(journal) :
            k[2] <= journal.planned => k \in Observed
      BY <1>3, <1>8, <2>2 DEF MigrationChildren, TransitionChildren, TargetChildren
    <3>2. ASSUME next <= Stages
          PROVE  FALSE
      <4>1. next = journal.planned /\ next \in 1..Stages
        BY <1>1, <2>2, <3>2 DEF WellPlaced
      <4>2. Shared(next) \in RenderedShared(journal)
        BY <4>1 DEF RenderedShared, SharedChild, Shared
      <4>3. Shared(next)[2] = next
        BY DEF Shared
      <4>4. Named(Shared(next))
        BY <1>4, <3>1, <4>1, <4>2, <4>3, AtRestCurrent
      <4>5. CaptureShared(journal).bound = next
        <5>1. CaptureShared(journal) =
                [journal EXCEPT !.bound = next,
                   !.planned = IF next + 1 <= Stages THEN next + 1 ELSE Stages]
          <6>1. next <= journal.planned
            BY <4>1
          <6> HIDE DEF next
          <6>2. journal.bound + 1 = next
            BY DEF next
          <6> QED
            BY <4>4, <6>1, <6>2 DEF CaptureShared
        <5> QED
          BY <1>1, <5>1 DEF Journals
      <4>6. Captured.bound = next
        BY <1>1, <2>2, <4>5, CaptureType, CaptureSharedType
           DEF Captured, CaptureTransition
      <4> QED
        BY <1>1, <1>8, <4>6
    <3>3. journal.bound + 1 > Stages /\ journal.planned = Stages
      BY <1>1, <2>2, <3>2 DEF WellPlaced
    <3>4. RenderedShared(journal) \subseteq Observed
      BY <3>1, <3>3 DEF RenderedShared, SharedChild
    <3> QED
      BY <1>1, <3>3, <3>4
  <2> QED
    BY <2>1, <2>2
(* So the Integration is there, then the Route, then the barrier is met.    *)
<1>10. Integration(journal.to) \in Observed
  BY <1>3, <1>8, <1>9
     DEF MigrationChildren, TransitionChildren, TargetChildren, Rendered
<1>11. Captured.id[Integration(journal.to)] # 0
  <2>1. PICK c \in Journals : Captured = Capture(c, journal.to)
    BY <1>1, CaptureType, CaptureSharedType DEF Captured, CaptureTransition
  <2>2. Integration(journal.to) \in PairChild
    BY <1>1, ChildrenOfAType
  <2>3. Integration(journal.to) \in Pair(journal.to)
    BY DEF Pair
  <2> QED
    BY <1>4, <1>10, <2>1, <2>2, <2>3 DEF Capture, Journals
<1>12. Route(journal.to) \in Observed
  BY <1>3, <1>6, <1>11 DEF MigrationChildren, TransitionChildren, TargetChildren
<1>13. Barrier(Captured, journal.to)
  BY <1>1, <1>8, <1>9, <1>10, <1>12, AtRestBarrier DEF Pair
<1> QED
  BY <1>6, <1>7, <1>11, <1>13

(* A cancellation that waits for its source, likewise.                      *)
LEMMA QuietCancelling ==
  ASSUME StandInv, Resting, CancellingTurn, Quiet
  PROVE  Wedged
<1> SUFFICES ASSUME ~Wedged
             PROVE  FALSE
  OBVIOUS
<1>1. /\ IType /\ TypeOK /\ Progressed(journal) /\ Rooted(journal)
      /\ journal.phase = "Cancelling" /\ Migrates /\ Disposed(journal)
      /\ journal.from \in Types /\ journal.from # None
  BY TypesAreNamed
     DEF StandInv, SoundInv, IdentityInv, HeldInv, WithdrawalInv, AheadInv, IType,
         NamesTypes, CancellingTurn
<1>2. journal.disp = "cancellation" /\ ~Unbound /\ ~Unrouted
  BY <1>1 DEF Disposed, Wedged
<1>3. Captured \in Journals
  BY <1>1, CapturedType
<1>4. MigrationChildren = Observed
  BY DEF CancellingTurn, Return, Quiet
<1>5. ~Barrier(Captured, journal.from)
  <2> SUFFICES ASSUME Barrier(Captured, journal.from)
               PROVE  FALSE
    OBVIOUS
  <2>1. journal = [Captured EXCEPT !.phase = "Prepared", !.keep = journal.from,
                                   !.retire = journal.to]
    BY DEF CancellingTurn, Return, Quiet
  <2> QED
    BY <1>1, <1>3, <2>1 DEF Journals
<1>6. RenderedShared(Captured) \subseteq Observed
  BY <1>1, <1>4 DEF MigrationChildren, TransitionChildren, TargetChildren
<1>7. journal.id[Integration(journal.from)] # 0
  BY <1>1, <1>2 DEF Rooted, Unrouted
<1>8. journal.bound + 1 >= Stages
  BY <1>1, <1>7 DEF Progressed
<1>9. SourceChildren(journal) = Rendered(journal, journal.from)
  BY <1>1, <1>2 DEF SourceChildren, Unrouted
<1>10. Pair(journal.from) \subseteq Observed
  BY <1>4, <1>7, <1>8, <1>9
     DEF MigrationChildren, TransitionChildren, Rendered, Pair
<1>11. Barrier(Captured, journal.from)
  BY <1>1, <1>6, <1>10, AtRestBarrier
<1> QED
  BY <1>5, <1>11

(* A retirement at rest sees what it retires gone, and goes on.             *)
LEMMA QuietRetiring ==
  ASSUME StandInv, Resting, RetireRouteTurn \/ RetireIntegrationTurn, Quiet
  PROVE  FALSE
<1>1. /\ IType /\ TypeOK /\ KeepsAnother(journal) /\ Captured \in Journals
  BY CapturedType
     DEF StandInv, SoundInv, IdentityInv, HeldInv, WithdrawalInv, AheadInv, IType
<1>2. ASSUME NEW k \in Child, k \notin Observed
      PROVE  NamedAbsent(k)
  BY <1>2, AtRestCurrent DEF NamedAbsent, Exists, Current
<1>3. journal.retire \in Types /\ Pair(journal.retire) \subseteq Child
  BY <1>1, ChildrenOfAType, PairsAreChildren
     DEF KeepsAnother, Decided, Committed, RetireRouteTurn, RetireIntegrationTurn
<1>4. CASE RetireRouteTurn
  <2>1. Route(journal.retire) \notin Observed
    BY <1>4 DEF RetireRouteTurn, Return, Quiet
  <2>2. NamedAbsent(Route(journal.retire))
    BY <1>2, <1>3, <2>1 DEF Pair
  <2>3. journal = [Captured EXCEPT !.phase = "RetiringIntegration"]
    BY <1>4, <2>2 DEF RetireRouteTurn, Return, Quiet
  <2> QED
    BY <1>1, <1>4, <2>3 DEF Journals, RetireRouteTurn
<1>5. CASE RetireIntegrationTurn
  <2> DEFINE c == [Captured EXCEPT !.state[journal.retire] = "Retired"]
  <2>1. \A k \in Pair(journal.retire) : k \notin Observed
    BY <1>5 DEF RetireIntegrationTurn, Return, Quiet
  <2>2. \A k \in Pair(journal.retire) : NamedAbsent(k)
    BY <1>2, <1>3, <2>1
  <2>3. journal = Settled(c, journal.keep)
    BY <1>5, <2>2 DEF RetireIntegrationTurn, Return, Quiet
  <2>4. c \in Journals
    BY <1>1 DEF Journals
  <2> HIDE DEF c
  <2>5. Settled(c, journal.keep).phase = "Stable"
    BY <2>4 DEF Settled, Journals
  <2> QED
    BY <1>5, <2>3, <2>5 DEF RetireIntegrationTurn
<1> QED
  BY <1>4, <1>5

(* Every other turn moves the journal, or answers a closed gate.            *)
LEMMA QuietTurns ==
  ASSUME StandInv, Resting, Turn, Quiet
  PROVE  LegacyTurn \/ StableTurn \/ BuildTurn \/ CancellingTurn
           \/ RetireRouteTurn \/ RetireIntegrationTurn
<1>1. /\ IType /\ TypeOK /\ Rooted(journal) /\ NamesTypes(journal)
  BY DEF StandInv, SoundInv, IdentityInv, HeldInv, WithdrawalInv, AheadInv, IType
<1>2. plan'.journal = journal
  BY DEF Quiet
<1>3. ~PreserveTurn
  BY DEF PreserveTurn, Resting
<1>4. /\ FreshTurn \/ BootstrapTurn => journal.phase = "Absent"
      /\ BeginSwitchTurn => journal.phase = "Stable"
      /\ ReplaceFreshTurn => journal.phase = "Building" /\ journal.from = None
  BY DEF FreshTurn, BootstrapTurn, BeginSwitchTurn, ReplaceFreshTurn
<1>5. ~CancelTurn
  <2> SUFFICES ASSUME CancelTurn
               PROVE  FALSE
    OBVIOUS
  <2>1. journal = [Captured EXCEPT !.disp = "cancellation",
               !.phase = IF journal.phase = "Prepared" THEN "RetiringRoute"
                                                       ELSE "Cancelling"]
    BY <1>2 DEF CancelTurn, Return
  <2>2. Captured \in Journals /\ journal.disp = "promotion"
    BY <1>1, CapturedType DEF CancelTurn, Withdrawn
  <2> QED
    BY <2>1, <2>2 DEF Journals
<1>6. ~PreparedTurn
  <2> SUFFICES ASSUME PreparedTurn
               PROVE  FALSE
    OBVIOUS
  <2>1. journal = [Captured EXCEPT !.phase = "RetiringRoute"]
    BY <1>2 DEF PreparedTurn, Return
  <2>2. Captured \in Journals /\ journal.phase = "Prepared"
    BY <1>1, CapturedType DEF PreparedTurn
  <2> QED
    BY <2>1, <2>2 DEF Journals
<1>7. ~FreshTurn /\ ~BootstrapTurn /\ ~BeginSwitchTurn
  <2>1. /\ LegacyTurn => ~Governed
        /\ FreshTurn \/ BootstrapTurn => Governed
        /\ StableTurn => journal.phase = "Stable" /\ Selected = journal.active
        /\ BeginSwitchTurn => Selected # journal.active
    BY DEF LegacyTurn, Governed, FreshTurn, BootstrapTurn, StableTurn,
       BeginSwitchTurn
  <2>2. BuildTurn \/ CancelTurn \/ CancellingTurn \/ PreparedTurn
          \/ RetireRouteTurn \/ RetireIntegrationTurn =>
          journal.phase \notin {"Absent", "Stable"}
    BY DEF BuildTurn, CancelTurn, CancellingTurn, PreparedTurn, RetireRouteTurn,
       RetireIntegrationTurn
  <2>3. BeginSwitchTurn => ~LegacyTurn
    BY <1>4, <2>1 DEF Governed
  <2> QED
    BY <1>1, <1>2, <1>3, <1>4, <2>1, <2>2, <2>3, OtherOutcome
<1>8. ~ReplaceFreshTurn
  <2> SUFFICES ASSUME ReplaceFreshTurn
               PROVE  FALSE
    OBVIOUS
  <2>1. journal.from = None /\ journal.phase = "Building" /\ journal.to # None
    BY <1>1, <1>4, TypesAreNamed DEF NamesTypes
  <2> DEFINE b == Building(journal, journal.to, Selected, journal.planned)
  <2>2. journal = [b EXCEPT !.incomplete = TRUE, !.srcRoute = journal.route]
    BY <1>2 DEF ReplaceFreshTurn, Return
  <2>3. [b EXCEPT !.incomplete = TRUE, !.srcRoute = journal.route].from = journal.to
    BY <1>1 DEF Building, TypeOK, Journals
  <2>4. journal.from = journal.to
    BY <2>2, <2>3
  <2> QED
    BY <2>1, <2>4
<1> QED
  BY <1>3, <1>5, <1>6, <1>7, <1>8 DEF Turn

(* A composite that has come to rest and whose turn returns what is there   *)
(* is served: its function stops only when the selected graph is current    *)
(* and its receiver published, or in a transition that Wedged excepts.      *)
THEOREM QuietTurnsAreFinal ==
  Spec => [][Resting /\ Turn /\ Quiet => Served \/ Wedged]_vars
<1>1. StandInv /\ Resting /\ Turn /\ Quiet => Served \/ Wedged
  BY QuietTurns, QuietLegacy, QuietStable, QuietBuild, QuietCancelling,
     QuietRetiring DEF Wedged
<1>2. StandInv /\ [Next]_vars =>
        [Resting /\ Turn /\ Quiet => Served \/ Wedged]_vars
  BY <1>1
<1> QED
  BY <1>2, StandHolds, PTL DEF Spec
=============================================================================
