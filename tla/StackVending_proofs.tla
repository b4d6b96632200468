------------------------- MODULE StackVending_proofs -------------------------
(***************************************************************************)
(* Proofs about vending a stack, for any set of credential chains and any  *)
(* number of edits, interruptions and lost statuses: type correctness,     *)
(* that nothing but Fleet Management's PushSecret is ever withdrawn from a *)
(* request that stays, that content exists only behind its credentials,    *)
(* that the request implements StackContract, that a removal on the        *)
(* strength of a current deletionReady leaves nothing behind, and where a  *)
(* request can come to rest.                                               *)
(***************************************************************************)
EXTENDS StackVending, TLAPS

USE ChainsAssumption, BoundsAssumption

ManagedResource ==
  [exists : BOOLEAN, armed : BOOLEAN, ok : BOOLEAN, dying : BOOLEAN]
Statuses ==
  [armed : BOOLEAN, ready : BOOLEAN, vended : BOOLEAN, at : 0..MaxEdits]
Plans == [desired : SUBSET Child, armed : BOOLEAN, status : Statuses]

(* Everything the function renders is a child of the request.               *)
LEMMA DesiredType == Desired \subseteq Child
  BY DEF Desired, Admitted, Child, External, Parents, Tokens, Pushes, Staged

LEMMA ReportType ==
  /\ DeletionReady \in BOOLEAN /\ ArmingPermitted \in BOOLEAN
  /\ DesiredReady \in BOOLEAN
  BY DEF DeletionReady, ArmingPermitted, DesiredReady

LEMMA ExternalChildren ==
  /\ External \subseteq Child /\ Stack \in Child /\ Parents \subseteq Child
  BY DEF Child, External

(* What applying and reconciling do to a managed resource.                  *)
LEMMA ManagedResourceType ==
  /\ AbsentMR \in ManagedResource
  /\ \A r \in ManagedResource :
       /\ [r EXCEPT !.dying = TRUE] \in ManagedResource
       /\ [r EXCEPT !.ok = TRUE] \in ManagedResource
  BY DEF ManagedResource, AbsentMR

LEMMA AppliedType ==
  ASSUME TypeOK, NEW k \in Child
  PROVE  Applied(k) \in ManagedResource
<1>1. mr[k] \in ManagedResource
  BY DEF TypeOK, ManagedResource
<1>2. plan.armed \in BOOLEAN
  BY DEF TypeOK
<1> DEFINE a == IF k \in External THEN plan.armed ELSE FALSE
           o == mr[k].ok /\ (k \in Pushes => mr[k].armed = plan.armed)
<1>3. a \in BOOLEAN /\ o \in BOOLEAN
  BY <1>2
<1>4. Applied(k) = [mr[k] EXCEPT !.exists = TRUE, !.armed = a, !.ok = o]
  BY DEF Applied
<1> HIDE DEF a, o
<1> QED
  BY <1>1, <1>3, <1>4 DEF ManagedResource

LEMMA ApplyToType ==
  ASSUME TypeOK, NEW S \in SUBSET Child, ApplyTo(S)
  PROVE  mr' \in [Child -> ManagedResource] /\ refs' \subseteq Child
<1>1. \A k \in Child : mr[k] \in ManagedResource
  BY DEF TypeOK, ManagedResource
<1>2. \A k \in Child :
        (IF k \in S THEN Applied(k)
         ELSE IF k \in Doomed THEN [mr[k] EXCEPT !.dying = TRUE]
         ELSE mr[k]) \in ManagedResource
  BY <1>1, AppliedType, ManagedResourceType
<1>3. mr' \in [Child -> ManagedResource]
  BY <1>2 DEF ApplyTo
<1> QED
  BY <1>3 DEF ApplyTo, TypeOK

LEMMA NoPlanType == NoPlan \in Plans /\ NoStatus \in Statuses
  BY DEF NoPlan, NoStatus, Plans, Statuses

LEMMA FinaliseAllType ==
  ASSUME TypeOK, NEW S \in SUBSET Child, FinaliseAll(S)
  PROVE  TypeOK'
<1>1. mr' \in [Child -> ManagedResource]
  BY ManagedResourceType DEF FinaliseAll, TypeOK, ManagedResource
<1>2. /\ UNCHANGED <<lifecycle, authorized, expired, removed, status, refs, pc,
                     plan, edits, faults, protection>>
      /\ blank' \subseteq blank /\ ext' \subseteq ext
  BY DEF FinaliseAll, Rest, request, counters
<1> QED
  BY <1>1, <1>2 DEF TypeOK, ManagedResource

LEMMA ControllersType == TypeOK /\ Controllers => TypeOK'
<1> SUFFICES ASSUME TypeOK, Controllers PROVE TypeOK'
  OBVIOUS
<1>1. CASE SetProtection
  BY <1>1 DEF SetProtection, Rest, request, counters, TypeOK
<1>2. CASE Cascade
  BY <1>2, FinaliseAllType DEF Cascade
<1>3. ASSUME NEW k \in Child, Materialise(k) PROVE TypeOK'
  <2>1. mr' \in [Child -> ManagedResource]
    <3>1. mr' = [mr EXCEPT ![k] = [mr[k] EXCEPT !.ok = TRUE]]
      BY <1>3 DEF Materialise
    <3>2. mr \in [Child -> ManagedResource]
      BY DEF TypeOK, ManagedResource
    <3> QED
      BY <3>1, <3>2, ManagedResourceType
  <2>2. ext' \subseteq External /\ protection' \in {"unknown", "on", "off"}
    BY <1>3 DEF Materialise, TypeOK
  <2>3. UNCHANGED <<lifecycle, authorized, expired, removed, status, refs, pc,
                    plan, edits, faults, blank>>
    BY <1>3 DEF Materialise, Rest, request, counters
  <2> QED
    BY <2>1, <2>2, <2>3 DEF TypeOK, ManagedResource
<1>4. ASSUME NEW k \in Child, Finalise(k) PROVE TypeOK'
  BY <1>4, FinaliseAllType DEF Finalise
<1>5. ASSUME NEW k \in Child, RecoverStatus(k) PROVE TypeOK'
  BY <1>5 DEF RecoverStatus, Rest, request, counters, TypeOK
<1> QED
  BY <1>1, <1>2, <1>3, <1>4, <1>5 DEF Controllers

LEMMA TypeStep == TypeOK /\ [Next]_vars => TypeOK'
<1> SUFFICES ASSUME TypeOK, [Next]_vars PROVE TypeOK'
  OBVIOUS
<1>1. CASE Turn
  <2>1. plan' \in Plans
    BY <1>1, DesiredType, ReportType DEF Turn, Plans, Statuses, TypeOK
  <2> QED
    BY <1>1, <2>1 DEF Turn, TypeOK, Plans, Statuses, request, provider, counters
<1>2. CASE Apply
  <2>1. plan.desired \in SUBSET Child /\ plan.status \in Statuses
    BY DEF TypeOK, Statuses
  <2>2. mr' \in [Child -> ManagedResource] /\ refs' \subseteq Child
    BY <1>2, <2>1, ApplyToType DEF Apply
  <2> QED
    BY <1>2, <2>1, <2>2, NoPlanType
    DEF Apply, TypeOK, ManagedResource, Plans, Statuses, request, provider,
        counters
<1>3. CASE Interrupt
  <2>1. mr' \in [Child -> ManagedResource] /\ refs' \subseteq Child
    <3>1. \A S \in SUBSET plan.desired : S \in SUBSET Child
      BY DEF TypeOK
    <3> QED
      BY <1>3, <3>1, ApplyToType DEF Interrupt, TypeOK, ManagedResource
  <2>2. faults' \in 0..MaxFaults
    BY <1>3 DEF Interrupt, TypeOK
  <2>3. /\ plan' \in Plans /\ pc' = "idle"
        /\ UNCHANGED <<lifecycle, authorized, expired, removed, status,
                       protection, blank, ext, edits>>
    BY <1>3, NoPlanType DEF Interrupt, request, provider
  <2> QED
    BY <2>1, <2>2, <2>3 DEF TypeOK, ManagedResource, Plans, Statuses
<1>4. CASE Environment
  <2>1. ASSUME NEW l \in {"Retain", "Delete"}, NEW a \in BOOLEAN,
               NEW e \in BOOLEAN, EditRequest(l, a, e)
        PROVE  TypeOK'
    <3>1. edits' \in 0..MaxEdits
      BY <2>1 DEF EditRequest, TypeOK
    <3> QED
      BY <2>1, <3>1 DEF EditRequest, TypeOK, provider
  <2>2. CASE SetLifecycle
    BY <2>1, <2>2 DEF SetLifecycle, TypeOK
  <2>3. CASE SetAuthorization
    BY <2>1, <2>3 DEF SetAuthorization, TypeOK
  <2>4. CASE Extend
    BY <2>1, <2>4 DEF Extend, TypeOK
  <2>5. CASE Expire
    BY <2>5 DEF Expire, TypeOK, provider, counters
  <2>6. CASE Remove
    BY <2>6 DEF Remove, TypeOK, provider, counters
  <2>7. ASSUME NEW k \in Child, LoseStatus(k) PROVE TypeOK'
    <3>1. faults' \in 0..MaxFaults
      BY <2>7 DEF LoseStatus, TypeOK
    <3> QED
      BY <2>7, <3>1, ExternalChildren DEF LoseStatus, TypeOK, request
  <2> QED
    BY <1>4, ControllersType, <2>2, <2>3, <2>4, <2>5, <2>6, <2>7
    DEF Environment
<1>5. CASE UNCHANGED vars
  BY <1>5 DEF vars, TypeOK, request, provider, counters
<1> QED
  BY <1>1, <1>2, <1>3, <1>4, <1>5 DEF Next

LEMMA InitialType == Init => TypeOK
<1>1. 0 \in 0..MaxEdits /\ 0 \in 0..MaxFaults
  OBVIOUS
<1>2. ASSUME Init PROVE mr \in [Child -> ManagedResource]
  BY <1>2, ManagedResourceType DEF Init
<1> QED
  BY <1>1, <1>2, NoPlanType, Zenon DEF Init, TypeOK, ManagedResource, Plans, Statuses

(* The request's children, its plan and its status keep their shapes.       *)
THEOREM TypeCorrect == Spec => []TypeOK
<1> QED
  BY InitialType, TypeStep, PTL DEF Spec

-----------------------------------------------------------------------------
(* While a reconcile runs, everything it observed but Fleet Management's    *)
(* PushSecret is among what it desires.  The rest relates content to what   *)
(* must have happened before: a desired Content saw the credentials ready,  *)
(* ready credentials saw the published documents, and a published document  *)
(* saw its token minted; nothing but the removal of the request undoes any  *)
(* of it.  A turn that finds the request vended saw the credentials too.    *)
FleetPush == Push("fleet")

KeepsObserved == pc = "apply" => Observed \subseteq plan.desired \cup {FleetPush}

ContentInv ==
  removed = "no" =>
    /\ plan.status.vended \/ status.vended => Credentialed
    /\ Content \in plan.desired \/ mr[Content].exists => Credentialed
    /\ mr[Instance].ok \/ FleetPush \in ext => mr[Token("fleet")].ok

IInv == TypeOK /\ KeptWhileRequested /\ KeepsObserved /\ ContentInv

LEMMA DistinctChildren ==
  /\ FleetPush \in Pushes /\ Token("fleet") \in Child /\ Instance \in Child
  /\ Content \in Child /\ Stack \in Child /\ FleetPush \in Child
  /\ FleetPush \notin {Stack, Instance, Content, Token("fleet")}
  /\ {Stack, Instance, Content, Token("fleet")} \cap Pushes = {}
<1>1. "fleet" \in Chains
  OBVIOUS
<1>2. /\ FleetPush \in Pushes /\ Token("fleet") \in Child /\ Instance \in Child
      /\ Content \in Child /\ Stack \in Child /\ FleetPush \in Child
  BY <1>1 DEF FleetPush, Pushes, Tokens, Child, External, Staged
<1>3. \A c : Push(c) # Stack /\ Push(c) # Instance
  BY DEF Push, Stack, Instance
<1>4. \A c : Push(c) # Content
  BY DEF Push, Content
<1>5. \A c : Push(c) # Token("fleet")
  BY DEF Push, Token
<1> QED
  BY <1>2, <1>3, <1>4, <1>5 DEF Pushes, FleetPush

(* A turn keeps all it observes, Fleet Management's PushSecret excepted.    *)
LEMMA ObservedIsDesired == TypeOK => Observed \subseteq Desired \cup {FleetPush}
<1> SUFFICES ASSUME TypeOK, NEW k \in Observed, k # FleetPush
             PROVE  k \in Desired
  OBVIOUS
<1>1. k \in Child
  BY DEF Observed, TypeOK
<1>2. CASE k \in Parents \cup {Stack, Instance}
  BY <1>2 DEF Desired
<1>3. CASE k \in Tokens
  BY <1>3 DEF Desired, Tokens, ParentKnown
<1>4. CASE k \in Pushes
  BY <1>4 DEF Desired, Pushes, Published, FleetPush
<1>5. CASE k \in Staged
  BY <1>5 DEF Desired, Admitted
<1> QED
  BY <1>1, <1>2, <1>3, <1>4, <1>5 DEF Child, External

(* Nothing but deletion takes a child's existence or its readiness back,    *)
(* and only a PushSecret is made unready by an update.                      *)
LEMMA ApplyToKeeps ==
  ASSUME IInv, pc = "apply", NEW S \in SUBSET plan.desired, ApplyTo(S),
         NEW k \in Child
  PROVE  /\ mr[k].ok /\ k \notin Pushes => mr'[k].ok
         /\ mr'[k].ok => mr[k].ok
         /\ mr'[k].dying => mr[k].dying \/ k = FleetPush
         /\ mr'[k].exists => mr[k].exists \/ k \in plan.desired
<1>1. mr[k] \in ManagedResource
  BY DEF IInv, TypeOK, ManagedResource
<1>2. mr'[k] = IF k \in S THEN Applied(k)
               ELSE IF k \in Doomed THEN [mr[k] EXCEPT !.dying = TRUE]
               ELSE mr[k]
  BY DEF ApplyTo
<1>3. CASE k \in S
  BY <1>1, <1>2, <1>3 DEF Applied, ManagedResource
<1>4. CASE k \notin S /\ k \in Doomed
  BY <1>1, <1>2, <1>4 DEF Doomed, IInv, KeepsObserved, ManagedResource
<1>5. CASE k \notin S /\ k \notin Doomed
  BY <1>1, <1>2, <1>5
<1> QED
  BY <1>3, <1>4, <1>5

(* Content is desired only once the credentials are ready, or exists.       *)
LEMMA DesiredContent ==
  TypeOK /\ Content \in Desired => Credentialed \/ mr[Content].exists
<1>1. \A c : Content # Parent(c) /\ Content # Token(c) /\ Content # Push(c)
  BY DEF Content, Parent, Token, Push
<1>2. Content # Stack /\ Content # Instance /\ Content # Plugin
  BY DEF Content, Stack, Instance, Plugin
<1> SUFFICES ASSUME TypeOK, Content \in Desired
             PROVE  Credentialed \/ mr[Content].exists
  OBVIOUS
<1>3. Content \in Admitted
  BY <1>1, <1>2 DEF Desired, Parents
<1>4. (StackReady /\ InstanceReady) \/ Content \in Observed
  BY <1>2, <1>3 DEF Admitted
<1> QED
  BY <1>4 DEF StackReady, InstanceReady, IDObserved, Observed, Credentialed

(* A turn that finds the request vended observed the credentials ready.     *)
LEMMA VendedCredentialed == DesiredReady => Credentialed
<1>1. {Stack, Instance} \subseteq Desired
  BY DEF Desired
<1>2. Stack \notin Staged /\ Instance \notin Staged
  BY DEF Staged, Stack, Instance, Plugin, Content
<1> QED
  BY <1>1, <1>2 DEF DesiredReady, Credentialed

LEMMA TurnKeeps == IInv /\ Turn => IInv'
<1> SUFFICES ASSUME IInv, Turn PROVE IInv'
  OBVIOUS
<1>1. TypeOK'
  BY TypeStep DEF IInv, Next
<1>2. /\ UNCHANGED <<mr, ext, refs, removed, status>>
      /\ plan'.desired = Desired /\ plan'.status.vended = DesiredReady
  BY DEF Turn, request, provider
<1>3. KeptWhileRequested'
  BY <1>2 DEF IInv, KeptWhileRequested
<1>4. KeepsObserved'
  BY <1>2, ObservedIsDesired DEF IInv, KeepsObserved, Observed
<1>5. ContentInv'
  BY <1>2, DesiredContent, VendedCredentialed DEF IInv, ContentInv, Credentialed
<1> QED
  BY <1>1, <1>3, <1>4, <1>5 DEF IInv

(* Applying any part of a turn, and forgetting the turn.                    *)
LEMMA ApplyToInvariant ==
  ASSUME IInv, pc = "apply", NEW S \in SUBSET plan.desired, ApplyTo(S),
         pc' = "idle", plan' = NoPlan, ext' = ext, removed' = removed,
         status' = plan.status \/ status' = status
  PROVE  KeptWhileRequested' /\ KeepsObserved' /\ ContentInv'
<1>1. KeptWhileRequested'
  BY ApplyToKeeps DEF IInv, KeptWhileRequested, FleetPush
<1>2. KeepsObserved'
  BY DEF KeepsObserved
<1>3. ContentInv'
  <2>1. /\ mr'[Content].exists => mr[Content].exists \/ Content \in plan.desired
        /\ mr'[Instance].ok => mr[Instance].ok
        /\ Credentialed => Credentialed'
        /\ mr[Token("fleet")].ok => mr'[Token("fleet")].ok
    BY ApplyToKeeps, DistinctChildren DEF Credentialed
  <2>2. Content \notin plan'.desired /\ ~plan'.status.vended
    BY DEF NoPlan, NoStatus
  <2> QED
    BY <2>1, <2>2 DEF IInv, ContentInv
<1> QED
  BY <1>1, <1>2, <1>3

LEMMA ReconcileKeeps == IInv /\ (Apply \/ Interrupt) => IInv'
<1> SUFFICES ASSUME IInv, Apply \/ Interrupt PROVE IInv'
  OBVIOUS
<1>1. TypeOK'
  BY TypeStep DEF IInv, Next
<1>2. /\ pc = "apply" /\ pc' = "idle" /\ plan' = NoPlan
      /\ ext' = ext /\ removed' = removed
      /\ status' = plan.status \/ status' = status
  BY DEF Apply, Interrupt, request, provider
<1>3. (\E S \in SUBSET plan.desired : ApplyTo(S)) \/ UNCHANGED <<mr, refs>>
  BY DEF Apply, Interrupt
<1>4. CASE \E S \in SUBSET plan.desired : ApplyTo(S)
  BY <1>1, <1>2, <1>4, ApplyToInvariant DEF IInv
<1>5. CASE UNCHANGED <<mr, refs>>
  BY <1>1, <1>2, <1>5
  DEF IInv, KeptWhileRequested, KeepsObserved, ContentInv, Credentialed, NoPlan,
      NoStatus
<1> QED
  BY <1>3, <1>4, <1>5

(* A step that leaves every resource, object and reference alone.           *)
LEMMA QuietKeeps ==
  ASSUME IInv, TypeOK', UNCHANGED <<mr, ext, refs, pc, plan, status>>,
         removed' = "no" => removed = "no"
  PROVE  IInv'
  BY DEF IInv, KeptWhileRequested, KeepsObserved, Observed, ContentInv,
     Credentialed

(* Deletions: of Fleet Management's PushSecret alone, or after removal.     *)
LEMMA FinaliseAllKeeps ==
  ASSUME IInv, TypeOK', NEW S \in SUBSET Child, FinaliseAll(S),
         removed = "no" => S = {FleetPush}
  PROVE  IInv'
<1>1. /\ \A k \in Child : mr'[k] = IF k \in S THEN AbsentMR ELSE mr[k]
      /\ ext' \subseteq ext
      /\ UNCHANGED <<removed, refs, pc, plan, status>>
  BY DEF FinaliseAll, Rest, request
<1>2. ~AbsentMR.dying /\ ~AbsentMR.exists
  BY DEF AbsentMR
<1>3. KeptWhileRequested'
  BY <1>1, <1>2 DEF IInv, KeptWhileRequested
<1>4. KeepsObserved'
  <2>1. Observed' \subseteq Observed
    BY <1>1, <1>2 DEF Observed, IInv, TypeOK
  <2> QED
    BY <1>1, <2>1 DEF IInv, KeepsObserved
<1>5. ContentInv'
  BY <1>1, DistinctChildren DEF IInv, ContentInv, Credentialed
<1> QED
  BY <1>3, <1>4, <1>5 DEF IInv

LEMMA MaterialiseKeeps ==
  ASSUME IInv, TypeOK', NEW k \in Child, Materialise(k)
  PROVE  IInv'
<1>1. /\ \A j \in Child : /\ mr'[j].exists <=> mr[j].exists
                          /\ mr'[j].dying <=> mr[j].dying
                          /\ mr[j].ok => mr'[j].ok
                          /\ mr'[j].ok => mr[j].ok \/ j = k
      /\ ext' \subseteq ext \cup {k}
      /\ UNCHANGED <<removed, refs, pc, plan, status>>
  <2>1. /\ mr' = [mr EXCEPT ![k] = [mr[k] EXCEPT !.ok = TRUE]]
        /\ ext' \subseteq ext \cup {k}
        /\ UNCHANGED <<removed, refs, pc, plan, status>>
    BY DEF Materialise, Rest, request
  <2>2. mr \in [Child -> ManagedResource]
    BY DEF IInv, TypeOK, ManagedResource
  <2> QED
    BY <2>1, <2>2 DEF ManagedResource
<1>2. KeptWhileRequested'
  BY <1>1 DEF IInv, KeptWhileRequested
<1>3. KeepsObserved'
  <2>1. Observed' = Observed
    BY <1>1 DEF Observed, IInv, TypeOK
  <2> QED
    BY <1>1, <2>1 DEF IInv, KeepsObserved
<1>4. ContentInv'
  <2>1. /\ k = Instance => FleetPush \in ext
        /\ k = FleetPush => mr[Token("fleet")].ok
    BY DEF Materialise, Creatable, FleetPush
  <2> QED
    BY <1>1, <2>1, DistinctChildren DEF IInv, ContentInv, Credentialed
<1> QED
  BY <1>2, <1>3, <1>4 DEF IInv

LEMMA EnvironmentKeeps == IInv /\ Environment => IInv'
<1> SUFFICES ASSUME IInv, Environment PROVE IInv'
  OBVIOUS
<1>1. TypeOK'
  BY TypeStep DEF IInv, Next
<1>2. CASE Cascade
  BY <1>1, <1>2, FinaliseAllKeeps DEF Cascade
<1>3. ASSUME NEW k \in Child, Materialise(k) PROVE IInv'
  BY <1>1, <1>3, MaterialiseKeeps
<1>4. ASSUME NEW k \in Child, Finalise(k) PROVE IInv'
  <2>1. {k} = {FleetPush}
    BY <1>4 DEF Finalise, IInv, KeptWhileRequested, FleetPush
  <2>2. FinaliseAll({k}) /\ {k} \in SUBSET Child
    BY <1>4 DEF Finalise
  <2> QED
    BY <1>1, <2>1, <2>2, FinaliseAllKeeps
<1>5. CASE SetProtection \/ \E k \in Child : RecoverStatus(k) \/ LoseStatus(k)
  <2>1. UNCHANGED <<mr, ext, refs, pc, plan, status, removed>>
    BY <1>5 DEF SetProtection, RecoverStatus, LoseStatus, Rest, request
  <2> QED
    BY <1>1, <2>1, QuietKeeps
<1>6. CASE SetLifecycle \/ SetAuthorization \/ Extend \/ Expire
  <2>1. UNCHANGED <<mr, ext, refs, pc, plan, status, removed>>
    BY <1>6 DEF SetLifecycle, SetAuthorization, Extend, Expire, EditRequest,
                provider
  <2> QED
    BY <1>1, <2>1, QuietKeeps
<1>7. CASE Remove
  <2>1. UNCHANGED <<mr, ext, refs, pc, plan, status>> /\ removed' # "no"
    BY <1>7 DEF Remove, provider
  <2> QED
    BY <1>1, <2>1, QuietKeeps
<1> QED
  BY <1>2, <1>3, <1>4, <1>5, <1>6, <1>7 DEF Environment, Controllers

LEMMA InvariantStep == IInv /\ [Next]_vars => IInv'
<1> SUFFICES ASSUME IInv, [Next]_vars PROVE IInv'
  OBVIOUS
<1>1. CASE UNCHANGED vars
  <2>1. TypeOK'
    BY <1>1, TypeStep DEF IInv
  <2> QED
    BY <1>1, <2>1, QuietKeeps DEF vars, request, provider
<1> QED
  BY <1>1, TurnKeeps, ReconcileKeeps, EnvironmentKeeps DEF Next

LEMMA InitialInvariant == Init => IInv
<1> SUFFICES ASSUME Init PROVE IInv
  OBVIOUS
<1>1. \A k \in Child : ~mr[k].exists /\ ~mr[k].dying /\ ~mr[k].ok
  BY DEF Init, AbsentMR
<1>2. /\ pc = "idle" /\ ext = {} /\ plan.desired = {}
      /\ ~plan.status.vended /\ ~status.vended
  BY DEF Init, NoPlan, NoStatus
<1> QED
  BY <1>1, <1>2, InitialType, DistinctChildren
  DEF IInv, KeptWhileRequested, KeepsObserved, ContentInv

(* No turn, however often it is interrupted and whatever status it finds    *)
(* empty, withdraws a child of a request that stays, except Fleet           *)
(* Management's PushSecret.                                                 *)
THEOREM Kept == Spec => []KeptWhileRequested
<1>1. IInv => KeptWhileRequested
  BY DEF IInv
<1> QED
  BY <1>1, InitialInvariant, InvariantStep, PTL DEF Spec

(* Content never precedes its credentials: while the request stays, content *)
(* exists only behind a created stack, an instance credential that was      *)
(* ready and a Fleet Management token that was minted.                      *)
THEOREM CredentialsFirst == Spec => []ContentAfterCredentials
<1>1. IInv => ContentAfterCredentials
  BY DEF IInv, ContentInv, Credentialed, ContentAfterCredentials
<1> QED
  BY <1>1, InitialInvariant, InvariantStep, PTL DEF Spec
-----------------------------------------------------------------------------
(* The request implements StackContract.  Its credentials change by         *)
(* Materialise alone while it stays; its admission changes by Apply and by  *)
(* Remove alone; everything else is a stutter of the contract.              *)

LEMMA ContractInit == Init => Contract!Init
<1>1. Stack \in Child
  BY ExternalChildren
<1> QED
  BY <1>1 DEF Init, Contract!Init, Credentialed, Admits, AbsentMR, NoStatus

LEMMA ApplyToCredentials ==
  ASSUME IInv, pc = "apply", NEW S \in SUBSET plan.desired, ApplyTo(S)
  PROVE  Credentialed' <=> Credentialed
  BY ApplyToKeeps, DistinctChildren DEF Credentialed

LEMMA FinaliseAllCredentials ==
  ASSUME NEW S \in SUBSET Child, FinaliseAll(S)
  PROVE  /\ UNCHANGED <<removed, status>>
         /\ Credentialed' => Credentialed
         /\ S = {FleetPush} => (Credentialed' <=> Credentialed)
<1>1. /\ \A k \in Child : mr'[k] = IF k \in S THEN AbsentMR ELSE mr[k]
      /\ UNCHANGED <<removed, status>>
  BY DEF FinaliseAll, Rest, request
<1>2. ~AbsentMR.ok
  BY DEF AbsentMR
<1> QED
  BY <1>1, <1>2, DistinctChildren DEF Credentialed

LEMMA DeletionContract ==
  ASSUME IInv, NEW S \in SUBSET Child, FinaliseAll(S),
         removed = "no" => S = {FleetPush}
  PROVE  [Contract!Next]_(Contract!stack)
<1>1. /\ UNCHANGED <<removed, status>> /\ Admits' = Admits
      /\ Credentialed' => Credentialed
      /\ removed = "no" => (Credentialed' <=> Credentialed)
  BY FinaliseAllCredentials DEF Admits
<1>2. CASE Credentialed' <=> Credentialed
  BY <1>1, <1>2 DEF Contract!stack
<1>3. CASE ~(Credentialed' <=> Credentialed)
  BY <1>1, <1>3 DEF Contract!Next, Contract!Dismantle
<1> QED
  BY <1>2, <1>3

LEMMA ContractStep ==
  IInv /\ [Next]_vars => [Contract!Next]_(Contract!stack)
<1> SUFFICES ASSUME IInv, [Next]_vars PROVE [Contract!Next]_(Contract!stack)
  OBVIOUS
<1>1. ASSUME UNCHANGED <<mr, removed, status>>
      PROVE  [Contract!Next]_(Contract!stack)
  BY <1>1 DEF Contract!stack, Credentialed, Admits
<1>2. CASE Apply
  <2>1. /\ Credentialed' <=> Credentialed
        /\ removed' = removed /\ status' = plan.status
    BY <1>2, ApplyToCredentials DEF Apply, request
  <2>2. removed = "no" /\ status'.vended => Credentialed
    BY <2>1 DEF IInv, ContentInv
  <2>3. CASE Admits' = Admits
    BY <2>1, <2>3 DEF Contract!stack
  <2>4. CASE Admits' # Admits /\ Admits
    BY <2>1, <2>4 DEF Admits, Contract!Next, Contract!Close
  <2>5. CASE Admits' # Admits /\ ~Admits
    BY <2>1, <2>2, <2>5 DEF Admits, Contract!Next, Contract!Admit
  <2> QED
    BY <2>3, <2>4, <2>5
<1>3. CASE Interrupt
  <2>1. /\ Credentialed' <=> Credentialed
        /\ UNCHANGED <<removed, status>>
    BY <1>3, ApplyToCredentials DEF Interrupt, request, Credentialed
  <2> QED
    BY <2>1 DEF Contract!stack, Admits
<1>4. ASSUME NEW k \in Child, Materialise(k)
      PROVE  [Contract!Next]_(Contract!stack)
  <2>1. /\ Credentialed => Credentialed'
        /\ UNCHANGED <<removed, status>> /\ removed = "no"
    BY <1>4, ExternalChildren
    DEF Materialise, Reconciling, Rest, request, Credentialed, IInv, TypeOK
  <2>2. CASE Credentialed' <=> Credentialed
    BY <2>1, <2>2 DEF Contract!stack, Admits
  <2>3. CASE Credentialed' /\ ~Credentialed
    BY <2>1, <2>3 DEF Contract!Next, Contract!Issue, Admits
  <2> QED
    BY <2>1, <2>2, <2>3
<1>5. CASE Cascade
  BY <1>5, DeletionContract DEF Cascade
<1>6. ASSUME NEW k \in Child, Finalise(k)
      PROVE  [Contract!Next]_(Contract!stack)
  <2>1. removed = "no" => {k} = {FleetPush}
    BY <1>6 DEF Finalise, IInv, KeptWhileRequested, FleetPush
  <2>2. FinaliseAll({k}) /\ {k} \in SUBSET Child
    BY <1>6 DEF Finalise
  <2> QED
    BY <2>1, <2>2, DeletionContract
<1>7. CASE Remove
  <2>1. /\ removed = "no" /\ removed' # "no" /\ ~Admits'
        /\ UNCHANGED Credentialed
    BY <1>7 DEF Remove, Admits, Credentialed
  <2>2. removed = "no" /\ (removed = "no")' = FALSE /\ Admits' = FALSE
    BY <2>1
  <2>3. Contract!Remove
    BY <2>1, <2>2 DEF Contract!Remove
  <2> QED
    BY <2>3 DEF Contract!Next
<1>8. CASE Turn \/ SetProtection \/ UNCHANGED vars
           \/ \E k \in Child : RecoverStatus(k) \/ LoseStatus(k)
  BY <1>1, <1>8
  DEF Turn, SetProtection, RecoverStatus, LoseStatus, Rest, request, vars
<1>9. CASE SetLifecycle \/ SetAuthorization \/ Extend \/ Expire
  BY <1>1, <1>9
  DEF SetLifecycle, SetAuthorization, Extend, Expire, EditRequest
<1> QED
  BY <1>2, <1>3, <1>4, <1>5, <1>6, <1>7, <1>8, <1>9
  DEF Next, Environment, Controllers

(* The claims' side of the contract, for any chains and any number of       *)
(* edits, faults and lost statuses: the stack admits claims only while its  *)
(* credentials exist, and these outlive every reconcile of a request that   *)
(* stays.                                                                   *)
THEOREM ContractKept == Spec => ImplementsContract
<1> QED
  BY ContractInit, ContractStep, InitialInvariant, InvariantStep, PTL
  DEF Spec, ImplementsContract, Contract!Spec
-----------------------------------------------------------------------------
(* Why a removal that relied on deletionReady leaves nothing behind.  A     *)
(* ready report was computed when every token and PushSecret was observed   *)
(* armed, so its turn desired every external child and its apply arms them  *)
(* all; no edit has followed as long as the report is current, so no later  *)
(* turn disarms any; and an armed child takes its object with it.           *)
DocumentsPrepared ==
  \A k \in Pushes : /\ mr[k].exists => mr[k].armed /\ mr[k].ok
                    /\ k \in ext => mr[k].exists
Secured ==
  \A k \in External :
    /\ mr[k].exists => mr[k].armed
    /\ k \in ext => mr[k].exists /\ (k \in Pushes => mr[k].ok)
Due == lifecycle = "Delete" /\ expired
ReadyPlan == pc = "apply" /\ plan.status.ready

Recency == status.at <= edits /\ (pc = "apply" => plan.status.at <= edits)
NoTurnOnceRemoved == removed # "no" => pc = "idle"
PlanArmsAll ==
  ReadyPlan => plan.armed /\ External \subseteq plan.desired /\ DocumentsPrepared
PlanIsDue == ReadyPlan /\ plan.status.at = edits => Due
ReportHolds ==
  status.ready /\ status.at = edits /\ removed = "no" =>
    Due /\ Secured /\ (pc = "apply" => plan.armed)
RemovalHolds == removed = "ready" => Secured

RemovalInv == /\ TypeOK /\ Recency /\ NoTurnOnceRemoved /\ PlanArmsAll
              /\ PlanIsDue /\ ReportHolds /\ RemovalHolds

LEMMA ReadyDesiresAll ==
  ASSUME TypeOK, DeletionReady
  PROVE  ArmingPermitted /\ External \subseteq Desired /\ DocumentsPrepared
<1>1. /\ ArmingPermitted /\ IDObserved(Stack)
      /\ \A c \in Chains : TokenPrepared(Token(c)) /\ PushPrepared(Push(c))
  BY DEF DeletionReady, Unprotected
<1>2. \A c \in Chains : ParentKnown(c) /\ Published(c)
  BY <1>1 DEF ParentKnown, TokenPrepared, Published
<1>3. External \subseteq Desired
  BY <1>2 DEF External, Desired, Tokens, Pushes
<1>4. DocumentsPrepared
  BY <1>1 DEF DocumentsPrepared, Pushes, PushPrepared, Observed
<1> QED
  BY <1>1, <1>3, <1>4

(* What an apply that arms leaves of one child it applied.                  *)
LEMMA AppliedArmed ==
  ASSUME TypeOK, plan.armed, NEW k \in External
  PROVE  /\ Applied(k).exists /\ Applied(k).armed
         /\ mr[k].armed /\ mr[k].ok => Applied(k).ok
<1>1. mr[k] \in ManagedResource /\ plan.armed = TRUE
  BY ExternalChildren DEF TypeOK, ManagedResource
<1> QED
  BY <1>1 DEF Applied, ManagedResource

LEMMA ApplyToSecures ==
  ASSUME TypeOK, plan.armed, NEW S \in SUBSET Child, ApplyTo(S), UNCHANGED ext,
         Secured \/ (External \subseteq S /\ DocumentsPrepared)
  PROVE  Secured'
<1> SUFFICES ASSUME NEW k \in External
             PROVE  /\ mr'[k].exists => mr'[k].armed
                    /\ k \in ext => mr'[k].exists /\ (k \in Pushes => mr'[k].ok)
  BY DEF Secured, External, Pushes, Parents, Tokens, Push, Token, Parent, Stack
<1>1. k \in Child /\ mr[k] \in ManagedResource
  BY ExternalChildren DEF TypeOK, ManagedResource
<1>2. mr'[k] = IF k \in S THEN Applied(k)
               ELSE IF k \in Doomed THEN [mr[k] EXCEPT !.dying = TRUE]
               ELSE mr[k]
  BY <1>1 DEF ApplyTo
<1>3. k \in ext /\ k \in Pushes => (mr[k].armed /\ mr[k].ok) \/ ~(k \in S)
  BY DEF Secured, DocumentsPrepared
<1>4. CASE k \in S
  BY <1>2, <1>3, <1>4, AppliedArmed
<1>5. CASE k \notin S
  BY <1>1, <1>2, <1>5 DEF Secured, ManagedResource
<1> QED
  BY <1>4, <1>5

(* Deletions keep both: an armed and synchronised child goes with its       *)
(* object.                                                                  *)
LEMMA FinaliseAllSecures ==
  ASSUME TypeOK, NEW S \in SUBSET Child, FinaliseAll(S),
         \A k \in S : Deletable(k)
  PROVE  /\ Secured => Secured'
         /\ DocumentsPrepared => DocumentsPrepared'
<1>1. /\ \A k \in Child : mr'[k] = IF k \in S THEN AbsentMR ELSE mr[k]
      /\ ext' = ext \ {k \in S : mr[k].armed /\ (k \in Pushes => mr[k].ok)}
  BY DEF FinaliseAll, Destroys
<1>2. ~AbsentMR.exists
  BY DEF AbsentMR
<1>3. External' = External /\ Pushes' = Pushes /\ Pushes \subseteq External
  BY DEF External, Pushes
<1>4. ASSUME Secured PROVE Secured'
  BY <1>1, <1>2, <1>3, <1>4, ExternalChildren DEF Secured
<1>5. ASSUME DocumentsPrepared PROVE DocumentsPrepared'
  BY <1>1, <1>2, <1>3, <1>5, ExternalChildren DEF DocumentsPrepared
<1> QED
  BY <1>4, <1>5

LEMMA MaterialiseSecures ==
  ASSUME TypeOK, NEW k \in Child, Materialise(k)
  PROVE  /\ Secured => Secured'
         /\ DocumentsPrepared => DocumentsPrepared'
<1>1. /\ mr[k].exists /\ ~mr[k].ok /\ ext' = ext \cup ({k} \cap External)
      /\ mr' = [mr EXCEPT ![k] = [mr[k] EXCEPT !.ok = TRUE]]
  BY DEF Materialise, Reconciling
<1>2. \A j \in Child : /\ mr'[j].exists = mr[j].exists
                       /\ mr'[j].armed = mr[j].armed
                       /\ mr'[j].ok = IF j = k THEN TRUE ELSE mr[j].ok
  <2>1. mr \in [Child -> ManagedResource]
    BY DEF TypeOK, ManagedResource
  <2> QED
    BY <1>1, <2>1 DEF ManagedResource
<1>3. Pushes \subseteq External
  BY DEF External
<1>4. ASSUME Secured PROVE Secured'
  BY <1>1, <1>2, <1>3, <1>4, ExternalChildren DEF Secured
<1>5. ASSUME DocumentsPrepared PROVE DocumentsPrepared'
  BY <1>1, <1>2, <1>3, <1>5, ExternalChildren DEF DocumentsPrepared
<1> QED
  BY <1>4, <1>5

(* A step of the environment that edits nothing: the report stays as it is  *)
(* and what it rests on is kept.                                            *)
LEMMA KeptReport ==
  ASSUME RemovalInv, TypeOK',
         UNCHANGED <<lifecycle, removed, status, pc, plan, edits>>,
         expired => expired',
         Secured => Secured', DocumentsPrepared => DocumentsPrepared'
  PROVE  RemovalInv'
<1>1. External' = External
  BY DEF External
<1> QED
  BY <1>1 DEF RemovalInv, Recency, NoTurnOnceRemoved, PlanArmsAll, PlanIsDue,
     ReportHolds, RemovalHolds, ReadyPlan, Due

LEMMA TurnReports == RemovalInv /\ TypeOK' /\ Turn => RemovalInv'
<1> SUFFICES ASSUME RemovalInv, TypeOK', Turn PROVE RemovalInv'
  OBVIOUS
<1>1. /\ pc' = "apply" /\ removed = "no"
      /\ plan'.desired = Desired /\ plan'.armed = ArmingPermitted
      /\ plan'.status.ready = DeletionReady /\ plan'.status.at = edits
      /\ UNCHANGED <<lifecycle, expired, removed, status, mr, ext, edits>>
  BY DEF Turn, request, provider, counters
<1>2. edits \in Nat
  BY DEF RemovalInv, TypeOK
<1>3. Recency' /\ NoTurnOnceRemoved' /\ RemovalHolds'
  BY <1>1, <1>2 DEF RemovalInv, Recency, NoTurnOnceRemoved, RemovalHolds
<1>4. PlanArmsAll' /\ PlanIsDue'
  <2>1. DeletionReady =>
          Due /\ ArmingPermitted /\ External \subseteq Desired /\ DocumentsPrepared
    BY ReadyDesiresAll DEF RemovalInv, ArmingPermitted, Due
  <2>2. UNCHANGED <<External, DocumentsPrepared, Due>>
    BY <1>1 DEF External, DocumentsPrepared, Due
  <2> QED
    BY <1>1, <2>1, <2>2 DEF PlanArmsAll, PlanIsDue, ReadyPlan
<1>5. ReportHolds'
  <2>1. UNCHANGED <<Secured, Due>>
    BY <1>1 DEF Secured, Due
  <2> QED
    BY <1>1, <2>1 DEF RemovalInv, ReportHolds, ArmingPermitted, Due
<1> QED
  BY <1>3, <1>4, <1>5 DEF RemovalInv

LEMMA ApplyReports == RemovalInv /\ TypeOK' /\ Apply => RemovalInv'
<1> SUFFICES ASSUME RemovalInv, TypeOK', Apply PROVE RemovalInv'
  OBVIOUS
<1>1. /\ pc = "apply" /\ removed = "no" /\ pc' = "idle"
      /\ ApplyTo(plan.desired) /\ status' = plan.status
      /\ plan.desired \in SUBSET Child
      /\ UNCHANGED <<lifecycle, expired, removed, ext, edits>>
  BY DEF Apply, RemovalInv, NoTurnOnceRemoved, TypeOK, request, provider,
         counters
<1>2. Recency' /\ NoTurnOnceRemoved' /\ RemovalHolds'
  BY <1>1 DEF RemovalInv, Recency, NoTurnOnceRemoved, RemovalHolds
<1>3. PlanArmsAll' /\ PlanIsDue'
  BY <1>1 DEF PlanArmsAll, PlanIsDue, ReadyPlan
<1>4. ReportHolds'
  <2>1. ASSUME plan.status.ready, plan.status.at = edits PROVE Due' /\ Secured'
    <3>1. plan.armed /\ External \subseteq plan.desired /\ DocumentsPrepared /\ Due
      BY <1>1, <2>1 DEF RemovalInv, PlanArmsAll, PlanIsDue, ReadyPlan
    <3>2. Secured'
      BY <1>1, <3>1, ApplyToSecures DEF RemovalInv
    <3> QED
      BY <1>1, <3>1, <3>2 DEF Due
  <2> QED
    BY <1>1, <2>1 DEF ReportHolds
<1> QED
  BY <1>2, <1>3, <1>4 DEF RemovalInv

LEMMA InterruptReports == RemovalInv /\ TypeOK' /\ Interrupt => RemovalInv'
<1> SUFFICES ASSUME RemovalInv, TypeOK', Interrupt PROVE RemovalInv'
  OBVIOUS
<1>1. /\ pc = "apply" /\ removed = "no" /\ pc' = "idle"
      /\ UNCHANGED <<lifecycle, expired, removed, status, ext, edits>>
      /\ (\E S \in SUBSET plan.desired : ApplyTo(S)) \/ UNCHANGED <<mr, refs>>
  BY DEF Interrupt, RemovalInv, NoTurnOnceRemoved, request, provider
<1>2. Recency' /\ NoTurnOnceRemoved' /\ RemovalHolds'
  BY <1>1 DEF RemovalInv, Recency, NoTurnOnceRemoved, RemovalHolds
<1>3. PlanArmsAll' /\ PlanIsDue'
  BY <1>1 DEF PlanArmsAll, PlanIsDue, ReadyPlan
<1>4. ReportHolds'
  <2>1. ASSUME status.ready, status.at = edits PROVE Due' /\ Secured'
    <3>1. Due /\ Secured /\ plan.armed
      BY <1>1, <2>1 DEF RemovalInv, ReportHolds
    <3>2. CASE UNCHANGED <<mr, refs>>
      BY <1>1, <3>1, <3>2 DEF Due, Secured, External
    <3>3. ASSUME NEW S \in SUBSET plan.desired, ApplyTo(S) PROVE Secured'
      <4>1. S \in SUBSET Child
        BY DEF RemovalInv, TypeOK
      <4> QED
        BY <1>1, <3>1, <3>3, <4>1, ApplyToSecures DEF RemovalInv
    <3> QED
      BY <1>1, <3>1, <3>2, <3>3 DEF Due
  <2> QED
    BY <1>1, <2>1 DEF ReportHolds
<1> QED
  BY <1>2, <1>3, <1>4 DEF RemovalInv

(* An edit makes every report an old one.                                   *)
LEMMA EditReports ==
  ASSUME RemovalInv, TypeOK', NEW l, NEW a, NEW e, EditRequest(l, a, e)
  PROVE  RemovalInv'
<1>1. /\ removed = "no" /\ edits' = edits + 1
      /\ UNCHANGED <<removed, status, mr, ext, pc, plan>>
  BY DEF EditRequest, provider
<1>2. /\ edits \in Nat /\ status.at \in Nat /\ plan.status.at \in Nat
  BY DEF RemovalInv, TypeOK
<1>3. /\ Recency' /\ NoTurnOnceRemoved' /\ RemovalHolds'
      /\ PlanIsDue' /\ ReportHolds'
  BY <1>1, <1>2
  DEF RemovalInv, Recency, NoTurnOnceRemoved, RemovalHolds, PlanIsDue,
      ReportHolds, ReadyPlan
<1>4. PlanArmsAll'
  BY <1>1 DEF RemovalInv, PlanArmsAll, ReadyPlan, DocumentsPrepared, External
<1> QED
  BY <1>3, <1>4 DEF RemovalInv

LEMMA RemoveReports == RemovalInv /\ TypeOK' /\ Remove => RemovalInv'
<1> SUFFICES ASSUME RemovalInv, TypeOK', Remove PROVE RemovalInv'
  OBVIOUS
<1>1. /\ pc = "idle" /\ removed = "no" /\ removed' # "no"
      /\ removed' = "ready" => status.ready /\ status.at = edits
      /\ UNCHANGED <<lifecycle, expired, status, mr, ext, pc, plan, edits>>
  BY DEF Remove, provider, counters
<1>2. UNCHANGED Secured
  BY <1>1 DEF Secured
<1> QED
  BY <1>1, <1>2
  DEF RemovalInv, Recency, NoTurnOnceRemoved, PlanArmsAll, PlanIsDue,
      ReportHolds, RemovalHolds, ReadyPlan

LEMMA EnvironmentReports == RemovalInv /\ TypeOK' /\ Environment => RemovalInv'
<1> SUFFICES ASSUME RemovalInv, TypeOK', Environment PROVE RemovalInv'
  OBVIOUS
<1> DEFINE Deletions(S) == FinaliseAll(S) /\ \A k \in S : Deletable(k)
<1>1. ASSUME NEW S \in SUBSET Child, Deletions(S) PROVE RemovalInv'
  BY <1>1, KeptReport, FinaliseAllSecures
  DEF RemovalInv, FinaliseAll, Rest, request, counters
<1>2. CASE Cascade
  <2>1. PICK S \in SUBSET Child : Deletions(S)
    BY <1>2 DEF Cascade
  <2> QED
    BY <1>1, <2>1
<1>3. ASSUME NEW k \in Child, Finalise(k) PROVE RemovalInv'
  <2>1. {k} \in SUBSET Child /\ Deletions({k})
    BY <1>3 DEF Finalise
  <2> QED
    BY <1>1, <2>1
<1>4. ASSUME NEW k \in Child, Materialise(k) PROVE RemovalInv'
  <2>1. UNCHANGED <<lifecycle, expired, removed, status, pc, plan, edits>>
    BY <1>4 DEF Materialise, Rest, request, counters
  <2> QED
    BY <1>4, <2>1, KeptReport, MaterialiseSecures DEF RemovalInv
<1>5. CASE \/ SetProtection \/ Expire
           \/ \E k \in Child : RecoverStatus(k) \/ LoseStatus(k)
  <2>1. /\ UNCHANGED <<lifecycle, removed, status, mr, ext, pc, plan, edits>>
        /\ expired => expired'
    BY <1>5 DEF SetProtection, Expire, RecoverStatus, LoseStatus, Rest, request,
                provider, counters
  <2>2. UNCHANGED <<Secured, DocumentsPrepared>>
    BY <2>1 DEF Secured, DocumentsPrepared
  <2> QED
    BY <2>1, <2>2, KeptReport
<1>6. CASE SetLifecycle \/ SetAuthorization \/ Extend
  BY <1>6, EditReports DEF SetLifecycle, SetAuthorization, Extend
<1>7. CASE Remove
  BY <1>7, RemoveReports
<1> QED
  BY <1>2, <1>3, <1>4, <1>5, <1>6, <1>7 DEF Environment, Controllers

LEMMA RemovalStep == RemovalInv /\ [Next]_vars => RemovalInv'
<1> SUFFICES ASSUME RemovalInv, [Next]_vars PROVE RemovalInv'
  OBVIOUS
<1>1. TypeOK'
  BY TypeStep DEF RemovalInv
<1>2. CASE UNCHANGED vars
  <2>1. /\ UNCHANGED <<lifecycle, expired, removed, status, mr, ext, pc, plan,
                       edits>>
    BY <1>2 DEF vars, request, provider, counters
  <2>2. UNCHANGED <<Secured, DocumentsPrepared>>
    BY <2>1 DEF Secured, DocumentsPrepared
  <2> QED
    BY <1>1, <2>1, <2>2, KeptReport
<1> QED
  BY <1>1, <1>2, TurnReports, ApplyReports, InterruptReports,
     EnvironmentReports DEF Next

LEMMA InitialRemoval == Init => RemovalInv
<1> SUFFICES ASSUME Init PROVE RemovalInv
  OBVIOUS
<1>1. /\ status.at = 0 /\ ~status.ready /\ edits = 0 /\ pc = "idle"
      /\ removed = "no"
  BY DEF Init, NoStatus
<1> QED
  BY <1>1, InitialType
  DEF RemovalInv, Recency, NoTurnOnceRemoved, PlanArmsAll, PlanIsDue,
      ReportHolds, RemovalHolds, ReadyPlan

(* A request removed on the strength of a current deletionReady             *)
(* (desiredStackStatus, fn.go) leaves no stack, policy, account, token     *)
(* or published document behind, whatever was interrupted on the way.       *)
THEOREM NothingLeftBehind == Spec => []RemovalComplete
<1>1. RemovalInv => RemovalComplete
  BY ExternalChildren DEF RemovalInv, RemovalHolds, Secured, RemovalComplete,
     TypeOK
<1> QED
  BY <1>1, InitialRemoval, RemovalStep, PTL DEF Spec

-----------------------------------------------------------------------------
(* No standstill: when nothing is left to do, a request that stays and is   *)
(* not refused is vended, armed as its intent says and reported so.         *)

(* Nobody but Crossplane has anything to do: no status is missing, what was *)
(* withdrawn is gone, the controllers have created what they can, and       *)
(* Grafana protects the stack as it was told.                               *)
Resting ==
  /\ pc = "idle" /\ blank = {}
  /\ \A k \in Child : ~(Deletable(k) /\ mr[k].dying)
  /\ \A k \in Child \ Staged : Reconciling(k) /\ Creatable(k) => mr[k].ok
  /\ Reconciling(Stack) /\ mr[Stack].ok =>
       protection = IF mr[Stack].armed THEN "off" ELSE "on"

(* The request is deleted without the platform's authorisation.             *)
Unauthorised == lifecycle = "Delete" /\ ~authorized

(* A turn would leave everything as it is.                                  *)
UpToDate ==
  /\ refs = Desired /\ Observed = Desired
  /\ \A k \in Desired : mr[k].armed <=> k \in External /\ ArmingPermitted
  /\ status = [armed |-> ArmingPermitted, ready |-> DeletionReady,
               vended |-> DesiredReady, at |-> edits]

(* Somebody has something to do that changes something.                     *)
Work == ~Resting \/ (~Unauthorised /\ ~UpToDate)

(* The request is vended, its intent is in the cluster, and its status says *)
(* both.                                                                    *)
Settled ==
  /\ Vended /\ status.vended
  /\ \A k \in Child : mr[k].armed <=> k \in External /\ ArmingPermitted
  /\ status.armed <=> ArmingPermitted
  /\ status.ready <=> ArmingPermitted

(* A child that a controller has reported has its object or document.       *)
Made == \A k \in External : mr[k].ok => k \in ext

LEMMA MadeApplied ==
  ASSUME TypeOK, Made, NEW S \in SUBSET Child, ApplyTo(S), UNCHANGED ext
  PROVE  Made'
<1> SUFFICES ASSUME NEW k \in External, mr'[k].ok PROVE k \in ext
  BY DEF Made, External, Pushes, Parents, Tokens, Push, Token, Parent, Stack
<1>1. k \in Child /\ mr[k] \in ManagedResource
  BY ExternalChildren DEF TypeOK, ManagedResource
<1>2. mr'[k] = IF k \in S THEN Applied(k)
               ELSE IF k \in Doomed THEN [mr[k] EXCEPT !.dying = TRUE]
               ELSE mr[k]
  BY <1>1 DEF ApplyTo
<1>3. mr[k].ok
  BY <1>1, <1>2 DEF Applied, ManagedResource
<1> QED
  BY <1>3 DEF Made

LEMMA MadeFinalised ==
  ASSUME TypeOK, Made, NEW S \in SUBSET Child, FinaliseAll(S)
  PROVE  Made'
<1>1. /\ \A k \in Child : mr'[k] = IF k \in S THEN AbsentMR ELSE mr[k]
      /\ ext' = ext \ {k \in S : Destroys(k)}
  BY DEF FinaliseAll
<1>2. ~AbsentMR.ok
  BY DEF AbsentMR
<1>3. External' = External
  BY DEF External
<1> QED
  BY <1>1, <1>2, <1>3, ExternalChildren DEF Made

LEMMA MadeMaterialised ==
  ASSUME TypeOK, Made, NEW k \in Child, Materialise(k)
  PROVE  Made'
<1>1. /\ ext' = ext \cup ({k} \cap External)
      /\ mr' = [mr EXCEPT ![k] = [mr[k] EXCEPT !.ok = TRUE]]
  BY DEF Materialise
<1>2. \A j \in Child : j # k => mr'[j] = mr[j]
  BY <1>1 DEF TypeOK
<1>3. External' = External
  BY DEF External
<1> QED
  BY <1>1, <1>2, <1>3, ExternalChildren DEF Made

LEMMA MadeStep == TypeOK /\ Made /\ [Next]_vars => Made'
<1> SUFFICES ASSUME TypeOK, Made, [Next]_vars PROVE Made'
  OBVIOUS
<1>1. ASSUME UNCHANGED <<mr, ext>> PROVE Made'
  BY <1>1 DEF Made
<1>2. \A S \in SUBSET plan.desired : S \in SUBSET Child
  BY DEF TypeOK
<1>3. CASE Turn
  BY <1>1, <1>3 DEF Turn, provider
<1>4. CASE Apply
  BY <1>2, <1>4, MadeApplied DEF Apply, provider
<1>5. CASE Interrupt
  BY <1>1, <1>2, <1>5, MadeApplied DEF Interrupt, provider
<1>6. CASE Cascade
  BY <1>6, MadeFinalised DEF Cascade
<1>7. ASSUME NEW k \in Child, Materialise(k) \/ Finalise(k) PROVE Made'
  BY <1>7, MadeMaterialised, MadeFinalised DEF Finalise
<1>8. ASSUME NEW k \in Child, RecoverStatus(k) \/ LoseStatus(k) PROVE Made'
  BY <1>1, <1>8 DEF RecoverStatus, LoseStatus
<1>9. CASE SetProtection \/ Expire \/ Remove
  BY <1>1, <1>9 DEF SetProtection, Expire, Remove, provider
<1>10. CASE SetLifecycle \/ SetAuthorization \/ Extend
  BY <1>1, <1>10
  DEF SetLifecycle, SetAuthorization, Extend, EditRequest, provider
<1>11. CASE UNCHANGED vars
  BY <1>1, <1>11 DEF vars, provider
<1> QED
  BY <1>3, <1>4, <1>5, <1>6, <1>7, <1>8, <1>9, <1>10, <1>11
  DEF Next, Environment, Controllers

LEMMA MadeInit == Init => Made
<1> SUFFICES ASSUME Init, NEW k \in External PROVE ~mr[k].ok
  BY DEF Made
<1> QED
  BY ExternalChildren DEF Init, AbsentMR

(* A status is repeated only by what a controller has made.                 *)
THEOREM Recorded == Spec => [](TypeOK /\ Made)
<1> QED
  BY InitialType, TypeStep, MadeInit, MadeStep, PTL DEF Spec

(* What names the children of a chain.                                      *)
LEMMA ChainNames ==
  ASSUME NEW c \in Chains
  PROVE  /\ Parent(c) \in Parents /\ Token(c) \in Tokens /\ Push(c) \in Pushes
         /\ Parent(c) \in Child /\ Token(c) \in Child /\ Push(c) \in Child
         /\ {Parent(c), Token(c), Push(c)} \cap (Staged \cup {Instance}) = {}
         /\ Token(c) \notin Parents /\ Push(c) \notin Parents
         /\ Parent(c) # Push(c) /\ Token(c) # Push(c)
<1>1. Parent(c) \in Parents /\ Token(c) \in Tokens /\ Push(c) \in Pushes
  BY DEF Parents, Tokens, Pushes
<1>2. {Parent(c), Token(c), Push(c)} \cap (Staged \cup {Instance}) = {}
  BY DEF Staged, Instance, Plugin, Content, Parent, Token, Push
<1>3. \A d : Token(c) # Parent(d) /\ Push(c) # Parent(d) /\ Token(c) # Push(d)
  BY DEF Parent, Token, Push
<1> QED
  BY <1>1, <1>2, <1>3 DEF Parents, Child, External

LEMMA PushNames ==
  ASSUME NEW c \in Chains, NEW d \in Chains
  PROVE  /\ Push(c) = Push(d) => c = d
         /\ Parent(c) # Push(d) /\ Token(c) # Push(d)
         /\ Stack # Push(d) /\ Instance # Push(d)
  BY DEF Push, Parent, Token, Stack, Instance

LEMMA SingleNames ==
  /\ Stack \in Child /\ Instance \in Child /\ Stack \notin Staged
  /\ Instance \notin Staged /\ Stack \notin Parents /\ Instance \notin Parents
  /\ Stack # Instance
  BY DEF Child, External, Staged, Parents, Parent, Stack, Instance, Plugin, Content

(* Children a turn asks for exist, and stay.                                *)
LEMMA ThereAtRest ==
  ASSUME TypeOK, KeptWhileRequested, removed = "no", Resting, UpToDate,
         NEW k \in Desired
  PROVE  /\ k \in Observed /\ mr[k].exists /\ k \in Child
         /\ Reconciling(k) /\ k \notin blank
         /\ Creatable(k) /\ k \notin Staged => mr[k].ok /\ IDObserved(k)
<1>1. k \in Observed /\ mr[k].exists /\ k \in Child
  BY DesiredType DEF UpToDate, Observed
<1>2. ~mr[k].dying
  <2>1. k = Push("fleet") => Deletable(k)
    <3>1. Push("fleet") # Stack
      BY DEF Push, Stack
    <3> QED
      BY <1>1, <3>1 DEF Deletable
  <2> QED
    BY <1>1, <2>1 DEF Resting, KeptWhileRequested
<1>3. Reconciling(k) /\ k \notin blank
  BY <1>1, <1>2 DEF Reconciling, Resting
<1> QED
  BY <1>1, <1>3 DEF Resting, IDObserved

LEMMA ChainAtRest ==
  ASSUME TypeOK, Made, KeptWhileRequested, removed = "no", Resting, UpToDate
  PROVE  /\ IDObserved(Stack)
         /\ \A c \in Chains : /\ IDObserved(Parent(c)) /\ mr[Token(c)].ok
                              /\ mr[Push(c)].ok /\ Push(c) \in ext
                              /\ Token(c) \in Desired /\ Push(c) \in Desired
<1>1. IDObserved(Stack)
  <2>1. Stack \in Desired
    BY DEF Desired
  <2>2. Creatable(Stack)
    BY SingleNames, PushNames DEF Creatable
  <2> QED
    BY <2>1, <2>2, SingleNames, ThereAtRest
<1>2. Stack \in ext
  BY <1>1 DEF IDObserved, Made, External
<1>3. ASSUME NEW c \in Chains PROVE IDObserved(Parent(c))
  <2>1. Parent(c) \in Desired /\ Parent(c) \notin Staged
    BY ChainNames DEF Desired
  <2>2. Creatable(Parent(c))
    BY <1>2, ChainNames, PushNames DEF Creatable
  <2> QED
    BY <2>1, <2>2, ThereAtRest
<1>4. ASSUME NEW c \in Chains
      PROVE  Token(c) \in Desired /\ mr[Token(c)].exists /\ mr[Token(c)].ok
  <2>1. Token(c) \in Desired
    BY <1>3 DEF Desired, ParentKnown
  <2>2. Creatable(Token(c)) /\ Token(c) \notin Staged
    BY ChainNames, PushNames DEF Creatable
  <2> QED
    BY <2>1, <2>2, ThereAtRest
<1>5. ASSUME NEW c \in Chains
      PROVE  Push(c) \in Desired /\ mr[Push(c)].ok /\ Push(c) \in ext
  <2>1. Push(c) \in Desired
    BY <1>1, <1>3 DEF Desired, Published, ParentKnown
  <2>2. Creatable(Push(c)) /\ Push(c) \notin Staged
    BY <1>4, ChainNames, PushNames DEF Creatable
  <2>3. mr[Push(c)].ok
    BY <2>1, <2>2, ThereAtRest
  <2>4. Push(c) \in External
    BY ChainNames DEF External
  <2> QED
    BY <2>1, <2>3, <2>4 DEF Made
<1> QED
  BY <1>1, <1>3, <1>4, <1>5

LEMMA VendedAtRest ==
  ASSUME TypeOK, Made, KeptWhileRequested, removed = "no", Resting, UpToDate
  PROVE  Vended /\ Desired = Child
<1>1. mr[Instance].ok /\ Instance \in Observed /\ Instance \in Desired
  <2>1. Instance \in Desired
    BY DEF Desired
  <2>2. Creatable(Instance)
    BY SingleNames, PushNames, ChainAtRest DEF Creatable
  <2> QED
    BY <2>1, <2>2, SingleNames, ThereAtRest
<1>2. Staged \subseteq Desired
  BY <1>1, ChainAtRest DEF Desired, Admitted, StackReady, InstanceReady, Staged
<1>3. External \subseteq Desired
  BY ChainAtRest DEF External, Desired, Tokens, Pushes
<1>4. Desired = Child
  BY <1>1, <1>2, <1>3, DesiredType DEF Child
<1>5. \A k \in External : mr[k].ok
  BY ChainAtRest DEF External, Parents, Tokens, Pushes, IDObserved
<1>6. \A k \in Child : mr[k].exists /\ (k \in Staged \/ mr[k].ok)
  BY <1>1, <1>4, <1>5, ThereAtRest DEF Child
<1> QED
  BY <1>4, <1>6 DEF Vended

LEMMA ReportedAtRest ==
  ASSUME TypeOK, Made, KeptWhileRequested, removed = "no", Resting, UpToDate
  PROVE  /\ DesiredReady
         /\ ArmingPermitted => DeletionReady
<1>1. Vended /\ Desired = Child
  BY VendedAtRest
<1>2. DesiredReady
  BY <1>1 DEF DesiredReady, UpToDate, Vended
<1>3. ASSUME ArmingPermitted PROVE DeletionReady
  <2>1. \A k \in External : k \in Observed /\ mr[k].armed
    BY <1>1, <1>3, ExternalChildren DEF UpToDate
  <2>2. Unprotected
    <3>1. IDObserved(Stack) /\ Stack \in External /\ Stack \in Desired
      BY ChainAtRest DEF External, Desired
    <3>2. Reconciling(Stack) /\ mr[Stack].ok /\ mr[Stack].armed
      BY <2>1, <3>1, ThereAtRest DEF IDObserved
    <3> QED
      BY <3>1, <3>2 DEF Unprotected, Resting
  <2>3. ASSUME NEW c \in Chains
        PROVE  TokenPrepared(Token(c)) /\ PushPrepared(Push(c))
    <3>1. Token(c) \in External /\ Push(c) \in External
      BY ChainNames DEF External
    <3> QED
      BY <2>1, <3>1, ChainAtRest DEF TokenPrepared, PushPrepared
  <2> QED
    BY <1>3, <2>2, <2>3 DEF DeletionReady
<1> QED
  BY <1>2, <1>3

LEMMA Standstill ==
  TypeOK /\ Made /\ KeptWhileRequested =>
    Work \/ removed # "no" \/ Unauthorised \/ Settled
<1> SUFFICES ASSUME TypeOK, Made, KeptWhileRequested, removed = "no", ~Work,
                    ~Unauthorised
             PROVE  Settled
  OBVIOUS
<1>1. Resting /\ UpToDate
  BY DEF Work
<1>2. Vended /\ Desired = Child
  BY <1>1, VendedAtRest
<1>3. DesiredReady /\ (ArmingPermitted => DeletionReady)
  BY <1>1, ReportedAtRest
<1>4. DeletionReady => ArmingPermitted
  BY DEF DeletionReady
<1>5. /\ status.vended = DesiredReady /\ status.armed = ArmingPermitted
      /\ status.ready = DeletionReady
  BY <1>1 DEF UpToDate
<1>6. \A k \in Child : mr[k].armed <=> k \in External /\ ArmingPermitted
  BY <1>1, <1>2 DEF UpToDate
<1> QED
  BY <1>2, <1>3, <1>4, <1>5, <1>6, ReportType DEF Settled

(* Whatever is interrupted, lost or edited, nothing comes to a standstill   *)
(* short of a request that is vended and armed, or protected again, as its  *)
(* current intent says, but one that is removed or whose deletion the       *)
(* platform has not authorised: the safety half of VendCompletes and        *)
(* IntentSettles.                                                           *)
THEOREM NeverAtAStandstill ==
  Spec => [](Work \/ removed # "no" \/ Unauthorised \/ Settled)
<1> QED
  BY Standstill, Recorded, Kept, PTL
=============================================================================
