------------------- MODULE ProvisioningDecommission_proofs -------------------
(***************************************************************************)
(* Proofs about the decommission of a provisioning connection, for every   *)
(* bound on edits, faults and tampering: type correctness, the rule that   *)
(* the Securevalue and its source are withdrawn last, the policy of an     *)
(* unproven Securevalue, that the objects of a claim that stays survive,   *)
(* and that the Connection is withdrawn only under its persisted witness;  *)
(* then which claims are refused, and where a decommission comes to rest.  *)
(***************************************************************************)
EXTENDS ProvisioningDecommission, TLAPS

USE BoundsAssumption DEF Child, GrafanaChild, ExternalSecret, Securevalue, Connection

(* The phase a turn returns is one the claim's status may hold.             *)
LEMMA ProgressType == Progress \in Phases
  BY DEF Progress, ConnectionPhase, SecurevaluePhase, Phases

(* What the cluster and the provider do to a managed resource.              *)
LEMMA ManagedResourceType ==
  /\ AbsentMR \in ManagedResource
  /\ \A r \in ManagedResource :
       /\ [r EXCEPT !.dying = TRUE] \in ManagedResource
       /\ [r EXCEPT !.finalizer = TRUE] \in ManagedResource
       /\ \A p \in {"retain", "all"} :
            [r EXCEPT !.exists = TRUE, !.policy = p] \in ManagedResource
  BY DEF ManagedResource, AbsentMR

(* Every step keeps every variable in its type.                             *)
LEMMA TypeStep == TypeOK /\ [Next]_vars => TypeOK'
<1> SUFFICES ASSUME TypeOK, [Next]_vars PROVE TypeOK'
  OBVIOUS
<1> USE DEF TypeOK
<1>1. CASE Turn
  <2>1. ASSUME NEW p \in Phases, NEW D \in SUBSET Child, NEW A \in SUBSET Child,
               Return(p, D, A)
        PROVE  TypeOK'
    BY <2>1 DEF Return, claim, counters
  <2>2. CASE UnreadyTurn
    BY <2>1, <2>2 DEF UnreadyTurn, Phases
  <2>3. CASE RevokeTurn
    BY <2>1, <2>3, ProgressType DEF RevokeTurn
  <2>4. CASE StageTurn
    BY <2>1, <2>4, ProgressType DEF StageTurn
  <2>5. CASE ConnectTurn
    <3> DEFINE D == IF WithdrawConnection THEN Child \ {Connection} ELSE Child
               A == IF lifecycle = "Delete" THEN {Connection} ELSE {}
    <3>1. D \in SUBSET Child /\ A \in SUBSET Child
      OBVIOUS
    <3>2. Return(Progress, D, A)
      BY <2>5 DEF ConnectTurn
    <3> QED
      BY <2>1, <3>1, <3>2, ProgressType
  <2> QED
    BY <1>1, <2>2, <2>3, <2>4, <2>5 DEF Turn
<1>2. CASE Apply
  <2>1. ASSUME NEW k \in Child, CollectGarbage(k) PROVE TypeOK'
    BY <2>1, ManagedResourceType DEF CollectGarbage, claim, counters
  <2>2. CASE RecordReferences
    BY <2>2 DEF RecordReferences, claim, counters
  <2>3. ASSUME NEW k \in Child, ApplyChild(k) PROVE TypeOK'
    BY <2>3, ManagedResourceType DEF ApplyChild, claim, counters
  <2>4. CASE PersistStatus
    BY <2>4 DEF PersistStatus, NoPlan, claim, counters, Phases
  <2> QED
    BY <1>2, <2>1, <2>2, <2>3, <2>4 DEF Apply
<1>3. CASE Environment
  <2>1. CASE Provider
    <3>1. CASE SyncSecret
      BY <3>1 DEF SyncSecret, Rest, claim, counters
    <3>2. ASSUME NEW k \in Child, Materialise(k) PROVE TypeOK'
      BY <3>2, ManagedResourceType DEF Materialise, Rest, claim, counters
    <3>3. ASSUME NEW k \in Child, Finalise(k) PROVE TypeOK'
      BY <3>3, ManagedResourceType DEF Finalise, Rest, claim, counters
    <3> QED
      BY <2>1, <3>1, <3>2, <3>3 DEF Provider
  <2>2. CASE EditLifecycle
    BY <2>2 DEF EditLifecycle
  <2>3. CASE ChangeAuthorization
    BY <2>3 DEF ChangeAuthorization
  <2>4. CASE RemoveClaim
    BY <2>4 DEF RemoveClaim, counters
  <2>5. CASE CloseStack
    <3>1. faults' \in 0..MaxFaults
      BY <2>5 DEF CloseStack
    <3> QED
      BY <2>5, <3>1 DEF CloseStack, claim
  <2>6. CASE OpenStack
    BY <2>6 DEF OpenStack, claim, counters
  <2>7. CASE LoseSecret
    <3>1. faults' \in 0..MaxFaults
      BY <2>7 DEF LoseSecret
    <3> QED
      BY <2>7, <3>1 DEF LoseSecret, claim
  <2>8. CASE Crash
    <3>1. faults' \in 0..MaxFaults
      BY <2>8 DEF Crash
    <3> QED
      BY <2>8, <3>1 DEF Crash, NoPlan, claim, Phases
  <2>9. ASSUME NEW k \in Child, Tamper(k) PROVE TypeOK'
    <3>1. tampers' \in 0..MaxTampers
      BY <2>9 DEF Tamper
    <3> QED
      BY <2>9, <3>1, ManagedResourceType DEF Tamper, claim
  <2> QED
    BY <1>3, <2>1, <2>2, <2>3, <2>4, <2>5, <2>6, <2>7, <2>8, <2>9
    DEF Environment
<1>4. CASE UNCHANGED vars
  BY <1>4 DEF vars, claim, counters
<1> QED
  BY <1>1, <1>2, <1>3, <1>4 DEF Next

LEMMA InitialType == Init => TypeOK
<1>1. 0 \in 0..MaxEdits /\ 0 \in 0..MaxFaults /\ 0 \in 0..MaxTampers
  OBVIOUS
<1>2. ASSUME Init
      PROVE  /\ mr \in [Child -> ManagedResource]
             /\ ext \in [GrafanaChild -> BOOLEAN]
  BY <1>2, ManagedResourceType DEF Init
<1>3. NoPlan \in [phase : Phases, desired : SUBSET Child,
                  armed : SUBSET Child, todo : SUBSET Child]
  BY DEF NoPlan, Phases
<1>4. "" \in Phases
  BY DEF Phases
<1> QED
  BY <1>1, <1>2, <1>3, <1>4, Zenon DEF Init, TypeOK

(* The status phases, the plan and the managed resources of the claim keep  *)
(* the shapes the function reads, whatever fails and whoever interferes.    *)
THEOREM TypeCorrect == Spec => []TypeOK
<1> QED
  BY InitialType, TypeStep, PTL DEF Spec

-----------------------------------------------------------------------------
(* While a phase is persisted that the function returns only without a      *)
(* Connection, the claim is terminating and neither its references nor the  *)
(* running plan hold the Connection; a plan that will persist such a phase  *)
(* has already left it out.  A plan without the Securevalue or its source   *)
(* observed neither, or had the persisted phase and the armed Securevalue.  *)
Disconnected ==
  {"SecurevalueArming", "SecurevalueDeleting", "ConnectionDeletionUnproven"}
Sources == {ExternalSecret, Securevalue}
Unproven == "ConnectionDeletionUnproven"

PersistedPhase ==
  phase \in Disconnected =>
    terminating /\ Connection \notin refs /\ Connection \notin plan.desired
PlannedPhase ==
  plan.phase \in Disconnected =>
    terminating /\ Connection \notin plan.desired
RecordedPlan ==
  pc = "apply" => refs = plan.desired
AuthorisedCollection ==
  pc = "collect" =>
    \/ Sources \subseteq plan.desired
    \/ Sources \cap Observed = {}
    \/ /\ phase = "SecurevalueDeleting"
       /\ mr[Securevalue].exists => DeletePrepared(Securevalue)

(* A turn that finds the deletion unproven arms nothing, and has disarmed   *)
(* the Securevalue by the time its phase is persisted.                      *)
DisarmingPlan ==
  plan.phase = Unproven =>
    /\ Securevalue \notin plan.armed
    /\ Securevalue \in plan.todo \/ mr[Securevalue].policy = "retain"
StaysDisarmed ==
  phase = Unproven =>
    Securevalue \notin plan.armed /\ mr[Securevalue].policy = "retain"

IInv == /\ TypeOK /\ PersistedPhase /\ PlannedPhase /\ RecordedPlan
        /\ AuthorisedCollection /\ DisarmingPlan /\ StaysDisarmed

(* What a turn returns that keeps the invariant.                            *)
SoundReturn(p, D, A) ==
  /\ p \in Disconnected => terminating /\ Connection \notin D
  /\ phase \in Disconnected => Connection \notin D
  /\ \/ Sources \subseteq D
     \/ Sources \cap Observed = {}
     \/ phase = "SecurevalueDeleting" /\ DeletePrepared(Securevalue)
  /\ p = Unproven => Securevalue \in D
  /\ p = Unproven \/ phase = Unproven => Securevalue \notin A

LEMMA SoundReturnKeepsInvariant ==
  ASSUME IInv, TypeOK', NEW p \in Phases, NEW D \in SUBSET Child,
         NEW A \in SUBSET Child, SoundReturn(p, D, A), Return(p, D, A)
  PROVE  IInv'
<1>1. /\ plan' = [phase |-> p, desired |-> D, armed |-> A, todo |-> D]
      /\ pc' = "collect"
      /\ UNCHANGED <<terminating, phase, mr, refs>>
  BY DEF Return, claim
<1>2. Observed' = Observed /\ (DeletePrepared(Securevalue))' = DeletePrepared(Securevalue)
  BY <1>1 DEF Observed, DeletePrepared
<1>3. PersistedPhase' /\ PlannedPhase' /\ RecordedPlan'
  BY <1>1 DEF IInv, SoundReturn, PersistedPhase, PlannedPhase, RecordedPlan
<1>4. AuthorisedCollection'
  BY <1>1, <1>2 DEF SoundReturn, AuthorisedCollection
<1>5. DisarmingPlan' /\ StaysDisarmed'
  BY <1>1 DEF IInv, SoundReturn, DisarmingPlan, StaysDisarmed
<1> QED
  BY <1>3, <1>4, <1>5 DEF IInv

(* The phases the function computes without a Connection.                   *)
LEMMA DisconnectedProgress ==
  ASSUME Progress \in Disconnected
  PROVE  terminating /\ Connection \notin Observed
  BY DEF Progress, ConnectionPhase, Disconnected

LEMMA WithdrawalIsPrepared ==
  ASSUME WithdrawSecurevalue
  PROVE  phase = "SecurevalueDeleting" /\ DeletePrepared(Securevalue)
  BY DEF WithdrawSecurevalue, Progress, ConnectionPhase, SecurevaluePhase

LEMMA UnprovenIsKept ==
  ASSUME phase = Unproven
  PROVE  Progress \notin {"SecurevalueArming", "SecurevalueDeleting"}
  BY DEF Unproven, Progress, ConnectionPhase, ConnectionWitness

LEMMA TurnStep == IInv /\ TypeOK' /\ Turn => IInv'
<1> SUFFICES ASSUME IInv, TypeOK', Turn PROVE IInv'
  OBVIOUS
<1>1. phase \in Disconnected => terminating /\ Connection \notin Observed
  BY DEF IInv, PersistedPhase, Observed
<1>2. CASE UnreadyTurn
  <2>1. SoundReturn("", {}, {})
    BY <1>2 DEF UnreadyTurn, SoundReturn, Disconnected, Unproven
  <2> QED
    BY <1>2, <2>1, SoundReturnKeepsInvariant DEF UnreadyTurn, Phases
<1>3. CASE RevokeTurn
  <2>1. CASE WithdrawSecurevalue
    <3>1. SoundReturn(Progress, {}, {})
      BY <1>3, <2>1, WithdrawalIsPrepared
      DEF RevokeTurn, SoundReturn, WithdrawSecurevalue, Unproven
    <3> QED
      BY <1>3, <2>1, <3>1, SoundReturnKeepsInvariant, ProgressType
      DEF RevokeTurn
  <2>2. CASE ~WithdrawSecurevalue
    <3> DEFINE A == IF Progress \in {"SecurevalueArming", "SecurevalueDeleting"}
                      THEN {Securevalue} ELSE {}
    <3>1. SoundReturn(Progress, Sources, A)
      BY <1>3, UnprovenIsKept DEF RevokeTurn, SoundReturn, Sources, Unproven
    <3>2. Return(Progress, Sources, A)
      BY <1>3, <2>2 DEF RevokeTurn, Sources
    <3> QED
      BY <3>1, <3>2, SoundReturnKeepsInvariant, ProgressType DEF Sources
  <2> QED
    BY <2>1, <2>2
<1>4. CASE StageTurn
  <2>1. SoundReturn(Progress, Sources, {})
    BY <1>1, <1>4, DisconnectedProgress
    DEF StageTurn, SoundReturn, Sources, Unproven
  <2> QED
    BY <1>4, <2>1, SoundReturnKeepsInvariant, ProgressType
    DEF StageTurn, Sources
<1>5. CASE ConnectTurn
  <2> DEFINE D == IF WithdrawConnection THEN Child \ {Connection} ELSE Child
             A == IF lifecycle = "Delete" THEN {Connection} ELSE {}
  <2>1. SoundReturn(Progress, D, A)
    BY <1>1, <1>5, DisconnectedProgress
    DEF ConnectTurn, SoundReturn, Sources, Unproven, Disconnected
  <2>2. Return(Progress, D, A) /\ D \in SUBSET Child /\ A \in SUBSET Child
    BY <1>5 DEF ConnectTurn
  <2> QED
    BY <2>1, <2>2, SoundReturnKeepsInvariant, ProgressType
<1> QED
  BY <1>2, <1>3, <1>4, <1>5 DEF Turn

(* Deleting a managed resource keeps what it was prepared for; the disarmed *)
(* one stays disarmed.                                                      *)
LEMMA ApplyStep == IInv /\ TypeOK' /\ Apply => IInv'
<1> SUFFICES ASSUME IInv, TypeOK', Apply PROVE IInv'
  OBVIOUS
<1> USE DEF IInv, PersistedPhase, PlannedPhase, RecordedPlan
<1>1. ASSUME NEW k \in Child, CollectGarbage(k) PROVE IInv'
  <2>1. \A c \in Child : /\ mr'[c].exists <=> mr[c].exists
                         /\ mr'[c].policy = mr[c].policy
                         /\ mr'[c].finalizer <=> mr[c].finalizer
    BY <1>1 DEF CollectGarbage, TypeOK, ManagedResource
  <2>2. UNCHANGED <<claim, phase, refs, pc, plan>>
    BY <1>1 DEF CollectGarbage
  <2>3. Observed' = Observed
    BY <2>1, <2>2 DEF Observed, TypeOK
  <2>6. DeletePrepared(Securevalue)' <=> DeletePrepared(Securevalue)
    BY <2>1, <2>3 DEF DeletePrepared
  <2>4. AuthorisedCollection'
    BY <2>1, <2>2, <2>3, <2>6 DEF AuthorisedCollection
  <2>5. DisarmingPlan' /\ StaysDisarmed'
    BY <2>1, <2>2 DEF DisarmingPlan, StaysDisarmed
  <2> QED
    BY <2>2, <2>4, <2>5 DEF claim
<1>2. CASE RecordReferences
  BY <1>2 DEF RecordReferences, claim, AuthorisedCollection, DisarmingPlan,
     StaysDisarmed
<1>3. ASSUME NEW k \in Child, ApplyChild(k) PROVE IInv'
  <2>1. /\ pc = "apply" /\ UNCHANGED <<claim, phase, refs, pc>>
        /\ plan'.phase = plan.phase /\ plan'.desired = plan.desired
        /\ plan'.armed = plan.armed /\ plan'.todo = plan.todo \ {k}
    BY <1>3 DEF ApplyChild, TypeOK
  <2>2. mr'[Securevalue].policy =
          IF k # Securevalue THEN mr[Securevalue].policy
          ELSE IF Securevalue \in plan.armed THEN "all" ELSE "retain"
    BY <1>3 DEF ApplyChild, TypeOK, ManagedResource
  <2>3. DisarmingPlan' /\ StaysDisarmed'
    BY <2>1, <2>2 DEF DisarmingPlan, StaysDisarmed
  <2> QED
    BY <2>1, <2>3 DEF claim, AuthorisedCollection
<1>4. CASE PersistStatus
  <2>1. plan' = NoPlan /\ pc' = "idle" /\ phase' = plan.phase
        /\ pc = "apply" /\ plan.todo = {} /\ UNCHANGED <<claim, mr, refs>>
    BY <1>4 DEF PersistStatus
  <2> QED
    BY <2>1 DEF NoPlan, claim, AuthorisedCollection, DisarmingPlan,
       StaysDisarmed, Disconnected, Unproven
<1> QED
  BY <1>1, <1>2, <1>3, <1>4 DEF Apply

(* The provider neither creates a managed resource nor arms one.            *)
LEMMA EnvironmentStep == IInv /\ TypeOK' /\ Environment => IInv'
<1> SUFFICES ASSUME IInv, TypeOK', Environment PROVE IInv'
  OBVIOUS
<1>1. /\ UNCHANGED refs
      /\ terminating => terminating'
      /\ \/ UNCHANGED <<phase, pc, plan>>
         \/ pc' = "idle" /\ plan' = NoPlan /\ UNCHANGED <<phase, mr>>
  BY DEF Environment, Provider, SyncSecret, Materialise, Finalise, Rest, claim,
     counters, EditLifecycle, ChangeAuthorization, RemoveClaim, CloseStack,
     OpenStack, LoseSecret, Crash, Tamper
<1>2. ASSUME NEW c \in Child
      PROVE  \/ mr'[c] = AbsentMR
             \/ /\ mr'[c].exists <=> mr[c].exists
                /\ mr'[c].policy = mr[c].policy
                /\ mr[c].finalizer => mr'[c].finalizer
  <2>1. ASSUME NEW k \in Child, Materialise(k) \/ Tamper(k)
        PROVE  /\ mr'[c].exists <=> mr[c].exists
               /\ mr'[c].policy = mr[c].policy
               /\ mr[c].finalizer => mr'[c].finalizer
    BY <2>1 DEF Materialise, Tamper, IInv, TypeOK, ManagedResource
  <2>2. ASSUME NEW k \in Child, Finalise(k)
        PROVE  mr'[c] = IF c = k THEN AbsentMR ELSE mr[c]
    BY <2>2 DEF Finalise, IInv, TypeOK
  <2> QED
    BY <2>1, <2>2 DEF Environment, Provider, SyncSecret, EditLifecycle,
       ChangeAuthorization, RemoveClaim, CloseStack, OpenStack, LoseSecret, Crash
<1>3. CASE UNCHANGED <<phase, pc, plan>>
  <2>1. PersistedPhase' /\ PlannedPhase' /\ RecordedPlan'
    BY <1>1, <1>3 DEF IInv, PersistedPhase, PlannedPhase, RecordedPlan
  <2>2. Observed' \subseteq Observed
    <3>1. ASSUME NEW c \in refs, mr'[c].exists PROVE mr[c].exists
      BY <1>2, <3>1 DEF IInv, TypeOK, AbsentMR
    <3> QED
      BY <1>1, <3>1 DEF Observed
  <2>3. DeletePrepared(Securevalue) /\ mr'[Securevalue].exists =>
          DeletePrepared(Securevalue)'
    BY <1>1, <1>2 DEF Observed, DeletePrepared, AbsentMR
  <2>4. mr'[Securevalue].exists => mr[Securevalue].exists
    BY <1>2 DEF AbsentMR
  <2>5. AuthorisedCollection'
    BY <1>3, <2>2, <2>3, <2>4 DEF IInv, AuthorisedCollection
  <2>6. mr[Securevalue].policy = "retain" => mr'[Securevalue].policy = "retain"
    BY <1>2 DEF AbsentMR
  <2>7. DisarmingPlan' /\ StaysDisarmed'
    BY <1>3, <2>6 DEF IInv, DisarmingPlan, StaysDisarmed
  <2> QED
    BY <2>1, <2>5, <2>7 DEF IInv
<1>4. CASE pc' = "idle" /\ plan' = NoPlan /\ UNCHANGED <<phase, mr>>
  BY <1>1, <1>4 DEF IInv, NoPlan, PersistedPhase, PlannedPhase, RecordedPlan,
     AuthorisedCollection, DisarmingPlan, StaysDisarmed, Disconnected, Unproven
<1> QED
  BY <1>1, <1>3, <1>4

LEMMA Inductive == IInv /\ [Next]_vars => IInv'
<1> SUFFICES ASSUME IInv, [Next]_vars PROVE IInv'
  OBVIOUS
<1>1. TypeOK'
  BY TypeStep DEF IInv
<1>2. CASE UNCHANGED vars
  BY <1>1, <1>2 DEF vars, claim, IInv, PersistedPhase, PlannedPhase,
     RecordedPlan, AuthorisedCollection, DisarmingPlan, StaysDisarmed,
     Observed, DeletePrepared
<1> QED
  BY <1>1, <1>2, TurnStep, ApplyStep, EnvironmentStep DEF Next

LEMMA InitialInvariant == Init => IInv
<1>1. Init => TypeOK
  BY InitialType
<1>2. Init => phase = "" /\ plan = NoPlan /\ pc = "idle"
  BY DEF Init
<1>3. phase = "" /\ plan = NoPlan /\ pc = "idle" /\ TypeOK => IInv
  <2> SUFFICES ASSUME phase = "", plan = NoPlan, pc = "idle", TypeOK
               PROVE  IInv
    OBVIOUS
  <2>1. plan.phase = "" /\ plan.desired = {}
    BY DEF NoPlan
  <2>2. PersistedPhase /\ PlannedPhase
    BY <2>1 DEF PersistedPhase, PlannedPhase, Disconnected
  <2>3. RecordedPlan /\ AuthorisedCollection
    BY DEF RecordedPlan, AuthorisedCollection
  <2>4. DisarmingPlan /\ StaysDisarmed
    BY <2>1 DEF DisarmingPlan, StaysDisarmed, Unproven
  <2> QED
    BY <2>2, <2>3, <2>4 DEF IInv
<1> QED
  BY <1>1, <1>2, <1>3

LEMMA Invariant == Spec => []IInv
  BY InitialInvariant, Inductive, PTL DEF Spec

(* Only the collection of a reconcile withdraws a child.                    *)
LEMMA WithdrawalIsCollection ==
  ASSUME IInv, Next, NEW s \in Child, Withdraws(s)
  PROVE  CollectGarbage(s)
<1>1. ASSUME NEW k \in Child, CollectGarbage(k), k # s PROVE FALSE
  BY <1>1 DEF CollectGarbage, Withdraws, StartsDying, IInv, TypeOK
<1>2. ASSUME NEW k \in Child, ApplyChild(k) PROVE FALSE
  BY <1>2 DEF ApplyChild, Withdraws, StartsDying, IInv, TypeOK, ManagedResource
<1>3. ASSUME NEW k \in Child, Materialise(k) \/ Finalise(k) PROVE FALSE
  BY <1>3 DEF Materialise, Finalise, Withdraws, StartsDying, IInv, TypeOK,
     ManagedResource, AbsentMR
<1>4. ASSUME NEW k \in Child, Tamper(k) PROVE FALSE
  BY <1>4 DEF Tamper, Withdraws, IInv, TypeOK
<1>5. UNCHANGED mr => FALSE
  BY DEF Withdraws, StartsDying
<1>6. Turn => UNCHANGED mr
  BY DEF Turn, UnreadyTurn, RevokeTurn, StageTurn, ConnectTurn, Return
<1> QED
  BY <1>1, <1>2, <1>3, <1>4, <1>5, <1>6
  DEF Next, Apply, RecordReferences, PersistStatus, Environment, Provider,
      SyncSecret, EditLifecycle, ChangeAuthorization, RemoveClaim,
      CloseStack, OpenStack, LoseSecret, Crash

(* In every step of every behaviour, the Securevalue and the ExternalSecret *)
(* behind it are withdrawn only under the persisted phase that authorises   *)
(* it, armed, and after the Connection has left the claim's children.       *)
THEOREM SourcesLast == Spec => SecurevalueLast
<1> DEFINE Step ==
      Withdraws(Securevalue) \/ Withdraws(ExternalSecret) =>
        /\ terminating /\ phase = "SecurevalueDeleting"
        /\ Connection \notin refs
        /\ Withdraws(Securevalue) => DeletePrepared(Securevalue)
<1>1. IInv /\ [Next]_vars => [Step]_vars
  <2> SUFFICES ASSUME IInv, Next, NEW s \in Sources, Withdraws(s)
               PROVE  /\ terminating /\ phase = "SecurevalueDeleting"
                      /\ Connection \notin refs
                      /\ s = Securevalue => DeletePrepared(Securevalue)
    BY DEF Sources
  <2>1. CollectGarbage(s)
    BY WithdrawalIsCollection DEF Sources
  <2>2. pc = "collect" /\ s \in Observed /\ s \notin plan.desired
    BY <2>1 DEF CollectGarbage, Doomed
  <2>3. phase = "SecurevalueDeleting"
        /\ (mr[Securevalue].exists => DeletePrepared(Securevalue))
    BY <2>2 DEF IInv, AuthorisedCollection
  <2> QED
    BY <2>2, <2>3 DEF IInv, PersistedPhase, Disconnected, Observed
<1> QED
  BY <1>1, Invariant, PTL DEF Spec, SecurevalueLast

(* Whenever the persisted phase says that the Connection's deletion is      *)
(* unproven, the surviving Securevalue would be retained if deleted.        *)
THEOREM UnprovenRetains == Spec => []UnprovenDisarms
<1>1. IInv => UnprovenDisarms
  BY DEF IInv, StaysDisarmed, UnprovenDisarms, Unproven
<1> QED
  BY <1>1, Invariant, PTL

-----------------------------------------------------------------------------
(* Why nothing is withdrawn before its time.  Until the claim is removed or *)
(* a child is deleted behind it, nothing is being deleted, and a Connection *)
(* among the references or in a plan stands on a Securevalue that exists:   *)
(* so the turn that stages a missing Securevalue drops no Connection.  A    *)
(* collection that drops one was authorised by the phase read back.         *)
Untouched == ~terminating /\ tampers = 0
NothingDies == Untouched => \A k \in Child : ~mr[k].dying
OnSecurevalue(S) ==
  Connection \in S => Securevalue \in S /\ mr[Securevalue].exists
Grounded == Untouched => OnSecurevalue(refs) /\ OnSecurevalue(plan.desired)
WitnessedCollection ==
  pc = "collect" /\ tampers = 0 =>
    \/ Connection \in plan.desired
    \/ Connection \notin Observed
    \/ terminating /\ phase = "ConnectionDeleting" /\ DeletePrepared(Connection)

WInv == IInv /\ NothingDies /\ Grounded /\ WitnessedCollection

LEMMA ConnectionWithdrawalIsPrepared ==
  ASSUME WithdrawConnection
  PROVE  terminating /\ phase = "ConnectionDeleting" /\ DeletePrepared(Connection)
  BY DEF WithdrawConnection, Progress, ConnectionPhase, SecurevaluePhase

LEMMA TurnWitness == WInv /\ IInv' /\ Turn => WInv'
<1> SUFFICES ASSUME WInv, IInv', Turn PROVE WInv'
  OBVIOUS
<1>1. ASSUME NEW p, NEW D \in SUBSET Child, NEW A, Return(p, D, A),
             Untouched => OnSecurevalue(D),
             tampers = 0 =>
               \/ Connection \in D \/ Connection \notin Observed
               \/ /\ terminating /\ phase = "ConnectionDeleting"
                  /\ DeletePrepared(Connection)
      PROVE  WInv'
  <2>1. /\ plan'.desired = D /\ pc' = "collect"
        /\ UNCHANGED <<terminating, tampers, phase, mr, refs>>
    BY <1>1 DEF Return, claim, counters
  <2>2. UNCHANGED <<Observed, DeletePrepared(Connection)>>
    BY <2>1 DEF Observed, DeletePrepared
  <2> QED
    BY <1>1, <2>1, <2>2 DEF WInv, Untouched, NothingDies, Grounded,
       OnSecurevalue, WitnessedCollection
<1>2. CASE UnreadyTurn
  <2>1. Return("", {}, {}) /\ Connection \notin Observed
    BY <1>2 DEF UnreadyTurn
  <2> QED
    BY <1>1, <2>1 DEF OnSecurevalue
<1>3. CASE RevokeTurn
  <2>1. terminating /\ Connection \notin Observed
    BY <1>3 DEF RevokeTurn
  <2>2. CASE WithdrawSecurevalue
    <3>1. Return(Progress, {}, {})
      BY <1>3, <2>2 DEF RevokeTurn
    <3> QED
      BY <1>1, <2>1, <3>1 DEF Untouched
  <2>3. CASE ~WithdrawSecurevalue
    <3> DEFINE A == IF Progress \in {"SecurevalueArming", "SecurevalueDeleting"}
                      THEN {Securevalue} ELSE {}
    <3>1. Return(Progress, Sources, A)
      BY <1>3, <2>3 DEF RevokeTurn, Sources
    <3> QED
      BY <1>1, <2>1, <3>1 DEF Untouched, Sources
  <2> QED
    BY <2>2, <2>3
<1>4. CASE StageTurn
  <2>1. Return(Progress, {ExternalSecret, Securevalue}, {})
    BY <1>4 DEF StageTurn
  <2>2. tampers = 0 => Connection \notin Observed
    BY <1>4 DEF StageTurn, WInv, Grounded, OnSecurevalue, Untouched, Observed
  <2> QED
    BY <1>1, <2>1, <2>2 DEF OnSecurevalue
<1>5. CASE ConnectTurn
  <2> DEFINE D == IF WithdrawConnection THEN Child \ {Connection} ELSE Child
             A == IF lifecycle = "Delete" THEN {Connection} ELSE {}
  <2>1. Return(Progress, D, A) /\ mr[Securevalue].exists
    BY <1>5 DEF ConnectTurn, Observed
  <2>2. OnSecurevalue(D)
    BY <2>1 DEF OnSecurevalue
  <2> QED
    BY <1>1, <2>1, <2>2, ConnectionWithdrawalIsPrepared
<1> QED
  BY <1>2, <1>3, <1>4, <1>5 DEF Turn

(* Before its removal a claim collects nothing.                             *)
LEMMA NothingCollected ==
  ASSUME WInv, Untouched, pc = "collect"
  PROVE  Observed \subseteq plan.desired
  BY DEF WInv, IInv, AuthorisedCollection, WitnessedCollection, Untouched,
     PersistedPhase, Disconnected, Sources, Observed, TypeOK

LEMMA ApplyWitness == WInv /\ IInv' /\ Apply => WInv'
<1> SUFFICES ASSUME WInv, IInv', Apply PROVE WInv'
  OBVIOUS
<1>1. ASSUME NEW k \in Child, CollectGarbage(k) PROVE WInv'
  <2>1. /\ pc = "collect" /\ k \in Observed /\ k \notin plan.desired
        /\ UNCHANGED <<terminating, tampers, phase, refs, pc, plan>>
    BY <1>1 DEF CollectGarbage, Doomed, claim, counters
  <2>2. ~Untouched
    BY <2>1, NothingCollected
  <2>3. \A c \in Child : /\ mr'[c].exists <=> mr[c].exists
                         /\ mr'[c].policy = mr[c].policy
                         /\ mr'[c].finalizer <=> mr[c].finalizer
    BY <1>1 DEF CollectGarbage, WInv, IInv, TypeOK, ManagedResource
  <2>4. Observed' = Observed
    BY <2>1, <2>3 DEF Observed, WInv, IInv, TypeOK
  <2>5. DeletePrepared(Connection)' <=> DeletePrepared(Connection)
    BY <2>3, <2>4 DEF DeletePrepared
  <2> QED
    BY <2>1, <2>2, <2>4, <2>5
    DEF WInv, NothingDies, Grounded, Untouched, WitnessedCollection
<1>2. CASE RecordReferences
  BY <1>2 DEF RecordReferences, claim, counters, WInv, NothingDies, Grounded,
     Untouched, OnSecurevalue, WitnessedCollection
<1>3. ASSUME NEW k \in Child, ApplyChild(k) PROVE WInv'
  <2>1. /\ pc = "apply" /\ plan'.desired = plan.desired
        /\ UNCHANGED <<terminating, tampers, refs, pc>>
    BY <1>3 DEF ApplyChild, WInv, IInv, TypeOK, claim, counters
  <2>2. \A c \in Child : /\ mr'[c].dying <=> mr[c].dying
                         /\ mr[c].exists => mr'[c].exists
    BY <1>3 DEF ApplyChild, WInv, IInv, TypeOK, ManagedResource
  <2> QED
    BY <2>1, <2>2 DEF WInv, NothingDies, Grounded, Untouched, OnSecurevalue,
       WitnessedCollection
<1>4. CASE PersistStatus
  BY <1>4 DEF PersistStatus, claim, counters, NoPlan, WInv, NothingDies,
     Grounded, Untouched, OnSecurevalue, WitnessedCollection
<1> QED
  BY <1>1, <1>2, <1>3, <1>4 DEF Apply

(* A step of the environment that may remove the claim, but keeps the       *)
(* children that are not being deleted and prepares or forgets the rest.    *)
LEMMA QuietWitness ==
  ASSUME WInv, IInv', UNCHANGED <<tampers, phase, refs>>,
         terminating => terminating',
         UNCHANGED <<pc, plan>> \/ (pc' = "idle" /\ plan' = NoPlan),
         \A c \in Child :
           \/ mr[c].dying /\ mr'[c] = AbsentMR
           \/ /\ mr'[c].exists <=> mr[c].exists
              /\ mr'[c].dying <=> mr[c].dying
              /\ mr'[c].policy = mr[c].policy
              /\ mr[c].finalizer => mr'[c].finalizer
  PROVE  WInv'
<1>1. Untouched' => Untouched
  BY DEF Untouched, WInv, IInv, TypeOK
<1>2. NothingDies'
  BY <1>1 DEF WInv, NothingDies, AbsentMR
<1>3. Grounded'
  <2>1. plan'.desired = plan.desired \/ plan'.desired = {}
    <3>1. plan' = plan \/ plan' = NoPlan
      OBVIOUS
    <3>2. NoPlan.desired = {}
      BY DEF NoPlan
    <3> QED
      BY <3>1, <3>2
  <2>2. Untouched => (mr[Securevalue].exists => mr'[Securevalue].exists)
    BY DEF WInv, NothingDies
  <2>3. ASSUME Untouched PROVE OnSecurevalue(refs)' /\ OnSecurevalue(plan.desired)'
    <3>1. OnSecurevalue(refs) /\ OnSecurevalue(plan.desired)
      BY <2>3 DEF WInv, Grounded
    <3> QED
      BY <2>1, <2>2, <2>3, <3>1 DEF OnSecurevalue
  <2> QED
    BY <1>1, <2>3 DEF Grounded
<1>4. WitnessedCollection'
  <2>1. Connection \in Observed' =>
          /\ Connection \in Observed
          /\ DeletePrepared(Connection) => DeletePrepared(Connection)'
    BY DEF Observed, DeletePrepared, AbsentMR
  <2> QED
    BY <2>1 DEF WInv, WitnessedCollection
<1> QED
  BY <1>2, <1>3, <1>4 DEF WInv

LEMMA EnvironmentWitness == WInv /\ IInv' /\ Environment => WInv'
<1> SUFFICES ASSUME WInv, IInv', Environment PROVE WInv'
  OBVIOUS
<1>1. ASSUME NEW k \in Child, Materialise(k) \/ Finalise(k) PROVE WInv'
  <2>1. UNCHANGED <<terminating, tampers, phase, refs, pc, plan>>
    BY <1>1 DEF Materialise, Finalise, Rest, claim, counters
  <2>2. ASSUME NEW c \in Child
        PROVE  \/ mr[c].dying /\ mr'[c] = AbsentMR
               \/ /\ mr'[c].exists <=> mr[c].exists
                  /\ mr'[c].dying <=> mr[c].dying
                  /\ mr'[c].policy = mr[c].policy
                  /\ mr[c].finalizer => mr'[c].finalizer
    BY <1>1 DEF Materialise, Finalise, WInv, IInv, TypeOK, ManagedResource
  <2> QED
    BY <2>1, <2>2, QuietWitness
<1>2. ASSUME NEW k \in Child, Tamper(k) PROVE WInv'
  <2>1. tampers' # 0
    BY <1>2 DEF Tamper, WInv, IInv, TypeOK
  <2> QED
    BY <2>1 DEF WInv, NothingDies, Grounded, Untouched, WitnessedCollection
<1>3. CASE \/ SyncSecret \/ EditLifecycle \/ ChangeAuthorization \/ RemoveClaim
           \/ CloseStack \/ OpenStack \/ LoseSecret \/ Crash
  <2>1. /\ UNCHANGED <<mr, tampers, phase, refs>>
        /\ terminating => terminating'
        /\ UNCHANGED <<pc, plan>> \/ (pc' = "idle" /\ plan' = NoPlan)
    BY <1>3 DEF SyncSecret, EditLifecycle, ChangeAuthorization, RemoveClaim,
       CloseStack, OpenStack, LoseSecret, Crash, Rest, claim, counters
  <2> QED
    BY <2>1, QuietWitness
<1> QED
  BY <1>1, <1>2, <1>3 DEF Environment, Provider

LEMMA Witnessed == Spec => [](IInv /\ WInv)
<1>1. Init => WInv
  <2> SUFFICES ASSUME Init PROVE WInv
    OBVIOUS
  <2>1. pc = "idle" /\ refs = {} /\ plan.desired = {}
    BY DEF Init, NoPlan
  <2>2. \A k \in Child : ~mr[k].dying
    <3>1. \A k \in Child : mr[k] = AbsentMR
      BY DEF Init
    <3> QED
      BY <3>1 DEF AbsentMR
  <2>3. IInv
    BY InitialInvariant
  <2> QED
    BY <2>1, <2>2, <2>3 DEF WInv, NothingDies, Grounded, OnSecurevalue,
       WitnessedCollection
<1>2. WInv /\ [Next]_vars => WInv'
  <2> SUFFICES ASSUME WInv, [Next]_vars PROVE WInv'
    OBVIOUS
  <2>1. IInv'
    BY Inductive DEF WInv
  <2>2. CASE UNCHANGED vars
    BY <2>1, <2>2, QuietWitness DEF vars, claim, counters
  <2> QED
    BY <2>1, <2>2, TurnWitness, ApplyWitness, EnvironmentWitness DEF Next
<1> QED
  BY <1>1, <1>2, Invariant, PTL DEF Spec

(* Only a removed claim, or someone else, destroys a Grafana object: no     *)
(* edit, lost readiness, lost Secret or interrupted apply does.             *)
THEOREM ObjectsOutliveClaim == Spec => ExternalOutlivesClaim
<1> DEFINE Step == \A k \in GrafanaChild :
                     ext[k] /\ ~ext'[k] => terminating \/ tampers > 0
<1>1. WInv /\ [Next]_vars => [Step]_vars
  <2> SUFFICES ASSUME WInv, Next, NEW k \in GrafanaChild, ext[k], ~ext'[k]
               PROVE  terminating \/ tampers > 0
    OBVIOUS
  <2>1. mr[k].dying
    <3>1. ASSUME NEW c \in Child, Materialise(c) PROVE FALSE
      BY <3>1 DEF Materialise, WInv, IInv, TypeOK
    <3>2. ASSUME NEW c \in Child, Finalise(c) PROVE c = k /\ mr[k].dying
      BY <3>2 DEF Finalise, WInv, IInv, TypeOK
    <3>3. UNCHANGED ext => FALSE
      OBVIOUS
    <3>4. Turn \/ Apply => UNCHANGED ext
      BY DEF Turn, UnreadyTurn, RevokeTurn, StageTurn, ConnectTurn, Return,
         Apply, CollectGarbage, ApplyChild, RecordReferences, PersistStatus
    <3> QED
      BY <3>1, <3>2, <3>3, <3>4
      DEF Next, Environment, Provider, SyncSecret, EditLifecycle,
          ChangeAuthorization, RemoveClaim, CloseStack, OpenStack, LoseSecret,
          Crash, Tamper
  <2> QED
    BY <2>1 DEF WInv, NothingDies, Untouched, IInv, TypeOK
<1> QED
  BY <1>1, Witnessed, PTL DEF Spec, ExternalOutlivesClaim

(* A Connection is withdrawn only by a decommission whose deleting phase    *)
(* and armed child were read back, unless someone else deleted a child.     *)
THEOREM ConnectionWitnessed == Spec => WitnessedWithdrawal
<1> DEFINE Step ==
      Withdraws(Connection) /\ tampers = 0 =>
        /\ terminating /\ phase = "ConnectionDeleting"
        /\ DeletePrepared(Connection)
<1>1. WInv /\ [Next]_vars => [Step]_vars
  <2> SUFFICES ASSUME WInv, Next, Withdraws(Connection), tampers = 0
               PROVE  /\ terminating /\ phase = "ConnectionDeleting"
                      /\ DeletePrepared(Connection)
    OBVIOUS
  <2>1. CollectGarbage(Connection)
    BY WithdrawalIsCollection DEF WInv
  <2> QED
    BY <2>1 DEF CollectGarbage, Doomed, WInv, WitnessedCollection
<1> QED
  BY <1>1, Witnessed, PTL DEF Spec, WitnessedWithdrawal

-----------------------------------------------------------------------------
(* What a decommission can come to rest in.  A turn on an admitted stack    *)
(* returns the phase Progress, the children Desired and the deletion        *)
(* policies Arming, or nothing when it is not Accepted.                     *)
Unauthorised == lifecycle = "Delete" /\ ~authorized
Revoking == terminating /\ Connection \notin Observed
Connecting == Securevalue \in Observed /\ secret
Staging ==
  \/ Securevalue \notin Observed /\ ~terminating
  \/ Securevalue \in Observed /\ ~secret /\ Connection \notin Observed
Accepted == ~Unauthorised /\ (Revoking \/ Staging \/ Connecting)

Desired ==
  IF Revoking THEN IF WithdrawSecurevalue THEN {} ELSE Sources
  ELSE IF Connecting /\ ~WithdrawConnection THEN Child ELSE Sources
Arming ==
  IF Revoking
    THEN IF ~WithdrawSecurevalue
              /\ Progress \in {"SecurevalueArming", "SecurevalueDeleting"}
           THEN {Securevalue} ELSE {}
  ELSE IF Connecting /\ lifecycle = "Delete" THEN {Connection} ELSE {}

LEMMA TurnIsDesired ==
  admitted => (Turn <=> /\ pc = "idle" /\ Accepted
                        /\ Return(Progress, Desired, Arming))
<1> SUFFICES ASSUME admitted
             PROVE  Turn <=> /\ pc = "idle" /\ Accepted
                             /\ Return(Progress, Desired, Arming)
  OBVIOUS
<1>1. ~UnreadyTurn
  BY DEF UnreadyTurn
<1>2. Renders <=> pc = "idle" /\ ~Unauthorised
  BY DEF Renders, Unauthorised
<1>3. CASE Revoking
  <2>1. ~StageTurn /\ ~ConnectTurn
    BY <1>3 DEF Revoking, StageTurn, ConnectTurn
  <2>2. RevokeTurn <=> Renders /\ Return(Progress, Desired, Arming)
    BY <1>3 DEF Revoking, RevokeTurn, Desired, Arming, Sources
  <2> QED
    BY <1>1, <1>2, <1>3, <2>1, <2>2 DEF Turn, Accepted
<1>4. CASE ~Revoking /\ Connecting
  <2>1. ~RevokeTurn /\ ~StageTurn
    BY <1>4 DEF Revoking, Connecting, RevokeTurn, StageTurn
  <2>2. Child \ {Connection} = Sources
    BY DEF Sources
  <2>3. ConnectTurn <=> Renders /\ Return(Progress, Desired, Arming)
    BY <1>4, <2>2 DEF Revoking, Connecting, ConnectTurn, Desired, Arming
  <2> QED
    BY <1>1, <1>2, <1>4, <2>1, <2>3 DEF Turn, Accepted
<1>5. CASE ~Revoking /\ ~Connecting
  <2>1. ~RevokeTurn /\ ~ConnectTurn
    BY <1>5 DEF Revoking, Connecting, RevokeTurn, ConnectTurn
  <2>2. StageTurn <=> Renders /\ Staging /\ Return(Progress, Desired, Arming)
    BY <1>5 DEF Revoking, Staging, StageTurn, Desired, Arming, Sources
  <2> QED
    BY <1>1, <1>2, <1>5, <2>1, <2>2 DEF Turn, Accepted
<1> QED
  BY <1>3, <1>4, <1>5

(* Nothing is being deleted, adopted or synchronised; a turn would return   *)
(* what is there.                                                           *)
NothingDying == \A k \in Child : mr[k].exists => ~mr[k].dying
Resting ==
  /\ pc = "idle" /\ admitted /\ NothingDying
  /\ \A k \in GrafanaChild : mr[k].exists => mr[k].finalizer
  /\ mr[ExternalSecret].exists => secret
UpToDate ==
  /\ Observed = Desired /\ refs = Desired
  /\ \A k \in Desired : mr[k].policy = IF k \in Arming THEN "all" ELSE "retain"
  /\ phase = Progress
Work == ~Resting \/ (Accepted /\ ~UpToDate)

(* The connection stands: with its policies and the phase its lifecycle     *)
(* asks for.  A claim that is being removed keeps it only under Retain.     *)
Kept ==
  /\ Observed = Child /\ secret
  /\ \A s \in Sources : mr[s].policy = "retain"
  /\ mr[Connection].policy = IF lifecycle = "Delete" THEN "all" ELSE "retain"
  /\ phase = IF lifecycle = "Delete" THEN "Armed" ELSE "Retained"
  /\ terminating => lifecycle = "Retain"

(* The Connection is gone; its Securevalue stays, disarmed.                 *)
Revoked ==
  /\ terminating /\ ~mr[Connection].exists /\ refs = Sources
  /\ \A s \in Sources : mr[s].exists /\ mr[s].policy = "retain"
  /\ phase = IF lifecycle = "Delete" THEN Unproven ELSE "Retained"

(* A Connection stands on a Securevalue or a source that somebody deleted:  *)
(* every turn is Fatal, so nothing creates it again.                        *)
Starved ==
  /\ pc = "idle" /\ Connection \in Observed /\ NothingDying
  /\ \/ ~mr[ExternalSecret].exists /\ Securevalue \in Observed
     \/ ~mr[Securevalue].exists /\ terminating

-----------------------------------------------------------------------------
(* A Secret has its ExternalSecret; what is no longer referenced is being   *)
(* deleted; and as long as nobody else deletes a child, a Connection among  *)
(* the references or in a plan has both its sources, neither of them dying. *)
SecretSourced == secret => mr[ExternalSecret].exists
Tracked == \A k \in Child : mr[k].exists => k \in refs \/ mr[k].dying
TodoDesired == plan.todo \subseteq plan.desired
Sustained ==
  tampers = 0 /\ Connection \in refs \cup plan.desired =>
    \A s \in Sources : mr[s].exists /\ ~mr[s].dying

SInv == WInv /\ SecretSourced /\ Tracked /\ TodoDesired /\ Sustained

LEMMA TurnSustains == SInv /\ WInv' /\ Turn => SInv'
<1> SUFFICES ASSUME SInv, WInv', Turn PROVE SInv'
  OBVIOUS
<1>1. ASSUME NEW p, NEW D, NEW A, Return(p, D, A),
             tampers = 0 /\ Connection \in D =>
               \A s \in Sources : mr[s].exists /\ ~mr[s].dying
      PROVE  SInv'
  <2>1. /\ plan'.desired = D /\ plan'.todo = D
        /\ UNCHANGED <<secret, mr, refs, tampers>>
    BY <1>1 DEF Return, counters
  <2> QED
    BY <1>1, <2>1 DEF SInv, SecretSourced, Tracked, TodoDesired, Sustained
<1>2. CASE UnreadyTurn
  BY <1>1, <1>2 DEF UnreadyTurn
<1>3. CASE RevokeTurn
  <2> DEFINE A == IF Progress \in {"SecurevalueArming", "SecurevalueDeleting"}
                    THEN {Securevalue} ELSE {}
  <2>1. Return(Progress, {}, {}) \/ Return(Progress, Sources, A)
    BY <1>3 DEF RevokeTurn, Sources
  <2>2. Connection \notin Sources
    BY DEF Sources
  <2> QED
    BY <1>1, <2>1, <2>2
<1>4. CASE StageTurn
  BY <1>1, <1>4 DEF StageTurn
<1>5. CASE ConnectTurn
  <2>1. ASSUME tampers = 0, NEW s \in Sources
        PROVE  mr[s].exists /\ ~mr[s].dying
    <3>1. mr[s].exists
      BY <1>5 DEF ConnectTurn, Observed, SInv, SecretSourced, Sources
    <3>2. CASE ~terminating
      BY <2>1, <3>1, <3>2 DEF SInv, WInv, NothingDies, Untouched, Sources
    <3>3. CASE terminating
      BY <1>5, <2>1, <3>3 DEF ConnectTurn, Observed, SInv, Sustained
    <3> QED
      BY <3>2, <3>3
  <2>2. PICK D, A : Return(Progress, D, A)
    BY <1>5 DEF ConnectTurn
  <2> QED
    BY <1>1, <2>1, <2>2
<1> QED
  BY <1>2, <1>3, <1>4, <1>5 DEF Turn

LEMMA ApplySustains == SInv /\ WInv' /\ Apply => SInv'
<1> SUFFICES ASSUME SInv, WInv', Apply PROVE SInv'
  OBVIOUS
<1> USE DEF SInv, SecretSourced, Tracked, TodoDesired, Sustained
<1>1. ASSUME NEW k \in Child, CollectGarbage(k) PROVE SInv'
  <2>1. /\ pc = "collect" /\ k \in Observed /\ k \notin plan.desired
        /\ UNCHANGED <<secret, tampers, refs, plan>>
    BY <1>1 DEF CollectGarbage, Doomed, counters
  <2>2. \A c \in Child : /\ mr'[c].exists <=> mr[c].exists
                         /\ mr'[c].dying <=> mr[c].dying \/ c = k
    BY <1>1 DEF CollectGarbage, WInv, IInv, TypeOK, ManagedResource
  <2>3. k \in Sources => Connection \notin refs \cup plan.desired
    <3>1. k \in Sources => phase = "SecurevalueDeleting"
      BY <2>1 DEF WInv, IInv, AuthorisedCollection
    <3> QED
      BY <3>1 DEF WInv, IInv, PersistedPhase, Disconnected
  <2>4. SecretSourced' /\ Tracked' /\ TodoDesired'
    BY <2>1, <2>2
  <2>5. Sustained'
    BY <2>1, <2>2, <2>3 DEF Sources
  <2> QED
    BY <2>4, <2>5
<1>2. CASE RecordReferences
  <2>1. /\ Doomed = {} /\ refs' = plan.desired
        /\ UNCHANGED <<secret, tampers, mr, plan>>
    BY <1>2 DEF RecordReferences, counters
  <2>2. Tracked'
    BY <2>1 DEF Doomed, Observed
  <2> QED
    BY <2>1, <2>2
<1>3. ASSUME NEW k \in Child, ApplyChild(k) PROVE SInv'
  <2>1. /\ pc = "apply" /\ k \in plan.todo
        /\ plan'.desired = plan.desired /\ plan'.todo = plan.todo \ {k}
        /\ UNCHANGED <<secret, tampers, refs>>
    BY <1>3 DEF ApplyChild, WInv, IInv, TypeOK, counters
  <2>2. \A c \in Child : /\ mr'[c].exists <=> mr[c].exists \/ c = k
                         /\ mr'[c].dying <=> mr[c].dying
    BY <1>3 DEF ApplyChild, WInv, IInv, TypeOK, ManagedResource
  <2>3. k \in refs
    BY <2>1 DEF WInv, IInv, RecordedPlan
  <2>4. SecretSourced' /\ Tracked' /\ TodoDesired'
    BY <2>1, <2>2, <2>3
  <2>5. Sustained'
    BY <2>1, <2>2 DEF Sources
  <2> QED
    BY <2>4, <2>5
<1>4. CASE PersistStatus
  BY <1>4 DEF PersistStatus, NoPlan, counters
<1> QED
  BY <1>1, <1>2, <1>3, <1>4 DEF Apply

LEMMA EnvironmentSustains == SInv /\ WInv' /\ Environment => SInv'
<1> SUFFICES ASSUME SInv, WInv', Environment PROVE SInv'
  OBVIOUS
<1> USE DEF SInv, SecretSourced, Tracked, TodoDesired, Sustained
<1>1. ASSUME NEW k \in Child, Materialise(k) PROVE SInv'
  <2>1. \A c \in Child : /\ mr'[c].exists <=> mr[c].exists
                         /\ mr'[c].dying <=> mr[c].dying
    BY <1>1 DEF Materialise, WInv, IInv, TypeOK, ManagedResource
  <2>2. UNCHANGED <<secret, tampers, refs, plan>>
    BY <1>1 DEF Materialise, Rest, counters
  <2> QED
    BY <2>1, <2>2 DEF Sources
<1>2. ASSUME NEW k \in Child, Finalise(k) PROVE SInv'
  <2>1. mr[k].dying /\ \A c \in Child :
          mr'[c] = IF c = k THEN AbsentMR ELSE mr[c]
    BY <1>2 DEF Finalise, WInv, IInv, TypeOK
  <2>2. /\ UNCHANGED <<tampers, refs, plan>>
        /\ secret' => secret /\ k # ExternalSecret
    BY <1>2 DEF Finalise, Rest, counters
  <2>3. SecretSourced' /\ Tracked' /\ TodoDesired'
    BY <2>1, <2>2 DEF AbsentMR
  <2>4. Sustained'
    BY <2>1, <2>2 DEF Sources
  <2> QED
    BY <2>3, <2>4
<1>3. ASSUME NEW k \in Child, Tamper(k) PROVE SInv'
  <2>1. \A c \in Child : /\ mr'[c].exists <=> mr[c].exists
                         /\ mr[c].dying => mr'[c].dying
    BY <1>3 DEF Tamper, WInv, IInv, TypeOK, ManagedResource
  <2>2. tampers' # 0 /\ UNCHANGED <<secret, refs, plan>>
    BY <1>3 DEF Tamper, WInv, IInv, TypeOK
  <2> QED
    BY <2>1, <2>2
<1>4. CASE \/ SyncSecret \/ EditLifecycle \/ ChangeAuthorization \/ RemoveClaim
           \/ CloseStack \/ OpenStack \/ LoseSecret \/ Crash
  <2>1. /\ UNCHANGED <<mr, tampers, refs>>
        /\ secret' => secret \/ mr[ExternalSecret].exists
        /\ UNCHANGED plan \/ plan' = NoPlan
    BY <1>4 DEF SyncSecret, EditLifecycle, ChangeAuthorization, RemoveClaim,
       CloseStack, OpenStack, LoseSecret, Crash, Rest, counters
  <2>2. NoPlan.desired = {} /\ NoPlan.todo = {}
    BY DEF NoPlan
  <2>3. UNCHANGED plan \/ (plan'.desired = {} /\ plan'.todo = {})
    BY <2>1, <2>2
  <2> QED
    BY <2>1, <2>3
<1> QED
  BY <1>1, <1>2, <1>3, <1>4 DEF Environment, Provider

LEMMA InitialSources == Init => SInv
<1> SUFFICES ASSUME Init PROVE SInv
  OBVIOUS
<1>1. WInv
  <2>1. \A k \in Child : ~mr[k].dying
    <3>1. \A k \in Child : mr[k] = AbsentMR
      BY DEF Init
    <3> QED
      BY <3>1 DEF AbsentMR
  <2> QED
    BY <2>1, InitialInvariant DEF Init, NoPlan, WInv, NothingDies, Grounded,
       OnSecurevalue, WitnessedCollection
<1>2. \A k \in Child : ~mr[k].exists
  <2>1. \A k \in Child : mr[k] = AbsentMR
    BY DEF Init
  <2> QED
    BY <2>1 DEF AbsentMR
<1> QED
  BY <1>1, <1>2 DEF Init, NoPlan, SInv, SecretSourced, Tracked, TodoDesired,
     Sustained

LEMMA Sourced == Spec => []SInv
<1>1. SInv /\ WInv' /\ [Next]_vars => SInv'
  <2> SUFFICES ASSUME SInv, WInv', [Next]_vars PROVE SInv'
    OBVIOUS
  <2>1. CASE UNCHANGED vars
    BY <2>1 DEF vars, claim, counters, SInv, SecretSourced, Tracked,
       TodoDesired, Sustained
  <2> QED
    BY <2>1, TurnSustains, ApplySustains, EnvironmentSustains DEF Next
<1> QED
  BY <1>1, InitialSources, Witnessed, PTL DEF Spec

-----------------------------------------------------------------------------
(* What a claim at rest has observed is what exists.                        *)
LEMMA RestObserves ==
  ASSUME SInv, Resting
  PROVE  \A k \in Child : k \in Observed <=> mr[k].exists
  BY DEF SInv, Tracked, Resting, NothingDying, Observed, WInv, IInv, TypeOK

LEMMA RefusedAtRest ==
  SInv /\ Resting => (~Accepted <=> Unauthorised \/ Starved)
<1> SUFFICES ASSUME SInv, Resting PROVE ~Accepted <=> Unauthorised \/ Starved
  OBVIOUS
<1> DEFINE Withheld == ~(Revoking \/ Staging \/ Connecting)
<1>1. secret <=> mr[ExternalSecret].exists
  BY DEF SInv, SecretSourced, Resting
<1>2. Withheld <=> /\ Connection \in Observed
                   /\ \/ ~mr[ExternalSecret].exists /\ Securevalue \in Observed
                      \/ ~mr[Securevalue].exists /\ terminating
  BY <1>1, RestObserves DEF Revoking, Staging, Connecting
<1>3. Withheld <=> Starved
  BY <1>2 DEF Starved, Resting
<1> QED
  BY <1>3 DEF Accepted

(* Once every child has settled, the function refuses a claim exactly when  *)
(* the platform does not authorise its lifecycle or its Connection stands   *)
(* on a deleted child.                                                      *)
THEOREM RefusalsExact ==
  Spec => [](Resting => (~Accepted <=> Unauthorised \/ Starved))
<1> QED
  BY RefusedAtRest, Sourced, PTL

(* No edit, crash, lost Secret, lost readiness or removal starves a claim:  *)
(* only a child deleted behind the function does.                           *)
THEOREM OnlyTamperingStarves == Spec => [](Starved => tampers > 0)
<1>1. SInv => (Starved => tampers > 0)
  BY DEF SInv, Sustained, Starved, Observed, Sources, WInv, IInv, TypeOK
<1> QED
  BY <1>1, Sourced, PTL

LEMMA StarvedStep ==
  SInv /\ Starved /\ UNCHANGED tampers /\ [Next]_vars => Starved'
<1> SUFFICES ASSUME SInv, Starved, UNCHANGED tampers, [Next]_vars PROVE Starved'
  OBVIOUS
<1>1. ~Turn
  <2>1. Connection \in Observed /\ pc = "idle"
    BY DEF Starved
  <2>2. ~(Securevalue \in Observed /\ secret)
    BY DEF Starved, SInv, SecretSourced, Observed
  <2>3. Securevalue \in Observed \/ terminating
    BY DEF Starved
  <2> QED
    BY <2>1, <2>2, <2>3 DEF Turn, UnreadyTurn, RevokeTurn, StageTurn, ConnectTurn
<1>2. ~Apply
  BY DEF Starved, Apply, CollectGarbage, ApplyChild, RecordReferences,
     PersistStatus
<1>3. ASSUME NEW k \in Child, Materialise(k) PROVE Starved'
  <2>1. \A c \in Child : /\ mr'[c].exists <=> mr[c].exists
                         /\ mr'[c].dying <=> mr[c].dying
    BY <1>3 DEF Materialise, SInv, WInv, IInv, TypeOK, ManagedResource
  <2>2. UNCHANGED <<terminating, refs, pc>>
    BY <1>3 DEF Materialise, Rest, claim
  <2>3. Observed' = Observed
    BY <2>1, <2>2 DEF Observed, SInv, WInv, IInv, TypeOK
  <2> QED
    BY <2>1, <2>2, <2>3 DEF Starved, NothingDying
<1>4. ASSUME NEW k \in Child, Finalise(k) PROVE FALSE
  BY <1>4 DEF Finalise, Starved, NothingDying
<1>5. ASSUME NEW k \in Child, Tamper(k) PROVE FALSE
  BY <1>5 DEF Tamper, SInv, WInv, IInv, TypeOK
<1>6. ~Crash
  BY DEF Starved, Crash
<1>7. ASSUME UNCHANGED <<mr, refs, pc>>, terminating => terminating'
      PROVE  Starved'
  <2>1. Observed' = Observed
    BY <1>7 DEF Observed
  <2> QED
    BY <1>7, <2>1 DEF Starved, NothingDying
<1>8. CASE SyncSecret \/ EditLifecycle \/ ChangeAuthorization \/ RemoveClaim
           \/ CloseStack \/ OpenStack \/ LoseSecret \/ UNCHANGED vars
  BY <1>7, <1>8 DEF SyncSecret, EditLifecycle, ChangeAuthorization,
     RemoveClaim, CloseStack, OpenStack, LoseSecret, Rest, claim, counters, vars
<1> QED
  BY <1>1, <1>2, <1>3, <1>4, <1>5, <1>6, <1>8 DEF Next, Environment, Provider

(* A starved claim stays starved, whatever is edited, authorised, removed   *)
(* or synchronised again, until somebody deletes a child once more: with a  *)
(* lifecycle of Retain as well as of Delete, its Connection then outlives   *)
(* the claim.                                                               *)
THEOREM StarvedUntilTampered ==
  Spec => [][Starved /\ UNCHANGED tampers => Starved']_vars
<1>1. SInv /\ [Next]_vars => [Starved /\ UNCHANGED tampers => Starved']_vars
  BY StarvedStep
<1> QED
  BY <1>1, Sourced, PTL DEF Spec

-----------------------------------------------------------------------------
(* A turn over children at rest that changes none of them.                  *)
LEMMA ConnectedAtRest ==
  ASSUME SInv, Resting, Accepted, UpToDate, ~Revoking
  PROVE  Kept
<1>1. secret <=> mr[ExternalSecret].exists
  BY DEF SInv, SecretSourced, Resting
<1>2. ASSUME Desired = Sources PROVE FALSE
  <2>1. Observed = Sources
    BY <1>2 DEF UpToDate
  <2>2. Connecting /\ Connection \notin Observed
    BY <1>1, <2>1, RestObserves DEF Connecting, Sources
  <2>3. ~WithdrawConnection
    BY <2>2 DEF WithdrawConnection, Progress, DeletePrepared, SecurevaluePhase
  <2>4. Connection \in Desired
    BY <2>2, <2>3 DEF Desired
  <2> QED
    BY <1>2, <2>4 DEF Sources
<1>3. Desired = Child /\ Connecting /\ ~WithdrawConnection /\ Observed = Child
  BY <1>2 DEF Desired, UpToDate
<1>4. Arming = IF lifecycle = "Delete" THEN {Connection} ELSE {}
  BY <1>3 DEF Arming
<1>5. /\ \A s \in Sources : mr[s].policy = "retain"
      /\ mr[Connection].policy = IF lifecycle = "Delete" THEN "all" ELSE "retain"
  BY <1>3, <1>4 DEF UpToDate, Sources
<1>6. lifecycle = "Delete" => DeletePrepared(Connection)
  BY <1>3, <1>5, RestObserves DEF DeletePrepared, Resting
<1>7. terminating => lifecycle = "Retain"
  <2> SUFFICES ASSUME terminating, lifecycle # "Retain" PROVE FALSE
    OBVIOUS
  <2>1. Progress = "ConnectionDeleting"
    BY <1>3, <1>6 DEF Progress, ConnectionPhase, SInv, WInv, IInv, TypeOK
  <2>2. phase = Progress
    BY DEF UpToDate
  <2> QED
    BY <1>3, <2>1, <2>2 DEF WithdrawConnection
<1>8. phase = IF lifecycle = "Delete" THEN "Armed" ELSE "Retained"
  BY <1>6, <1>7 DEF UpToDate, Progress, SInv, WInv, IInv, TypeOK
<1> QED
  BY <1>3, <1>5, <1>7, <1>8 DEF Kept, Connecting

LEMMA RevokedAtRest ==
  ASSUME SInv, Resting, Accepted, UpToDate, Revoking
  PROVE  Revoked
<1>1. terminating /\ Connection \notin Observed /\ ~mr[Connection].exists
  BY RestObserves DEF Revoking
<1>2. ~WithdrawSecurevalue
  <2> SUFFICES ASSUME WithdrawSecurevalue PROVE FALSE
    OBVIOUS
  <2>1. Desired = {} /\ Securevalue \in Observed
    BY WithdrawalIsPrepared DEF Desired, DeletePrepared
  <2> QED
    BY <2>1 DEF UpToDate
<1>3. refs = Sources /\ Observed = Sources
  BY <1>2 DEF Desired, UpToDate
<1>4. Securevalue \in Observed
  BY <1>3 DEF Sources
<1>5. \A s \in Sources : mr[s].exists
  BY <1>3 DEF Observed
<1>6. phase = IF lifecycle = "Delete" THEN Unproven ELSE "Retained"
  <2>1. CASE lifecycle = "Retain"
    BY <2>1 DEF UpToDate, Progress
  <2>2. CASE lifecycle = "Delete" /\ ~ConnectionWitness
    BY <1>1, <2>2 DEF UpToDate, Progress, Unproven
  <2>3. CASE lifecycle = "Delete" /\ ConnectionWitness
    <3>1. phase = SecurevaluePhase /\ Progress = SecurevaluePhase
      BY <1>1, <2>3 DEF UpToDate, Progress
    <3>2. phase = "SecurevalueArming"
      BY <1>2, <1>4, <3>1 DEF WithdrawSecurevalue, SecurevaluePhase
    <3>3. mr[Securevalue].policy = "all"
      <4>1. Arming = {Securevalue}
        BY <1>2, <3>1, <3>2 DEF Arming
      <4>2. Securevalue \in Desired
        BY <1>4 DEF UpToDate
      <4> QED
        BY <4>1, <4>2 DEF UpToDate
    <3>4. DeletePrepared(Securevalue)
      BY <1>4, <1>5, <3>3 DEF DeletePrepared, Resting, Sources
    <3> QED
      BY <1>4, <3>1, <3>2, <3>4 DEF SecurevaluePhase
  <2> QED
    BY <2>1, <2>2, <2>3 DEF SInv, WInv, IInv, TypeOK
<1>7. Arming = {}
  BY <1>6 DEF Arming, UpToDate, Unproven
<1>8. \A s \in Sources : mr[s].policy = "retain"
  BY <1>3, <1>7 DEF UpToDate
<1> QED
  BY <1>1, <1>3, <1>5, <1>6, <1>8 DEF Revoked

(* No ordered deletion stops halfway: short of a refused claim, everything  *)
(* that comes to a standstill has its connection kept under the policies    *)
(* its lifecycle asks for, or has its Connection gone and the Securevalue   *)
(* disarmed again.  The safety half of DecommissionCompletes; no phase of   *)
(* the decommission, Complete included, is ever the last word.              *)
THEOREM NeverAtAStandstill ==
  Spec => [](Work \/ Unauthorised \/ Starved \/ Kept \/ Revoked)
<1>1. SInv => Work \/ Unauthorised \/ Starved \/ Kept \/ Revoked
  BY RefusedAtRest, ConnectedAtRest, RevokedAtRest DEF Work
<1> QED
  BY <1>1, Sourced, PTL
=============================================================================
