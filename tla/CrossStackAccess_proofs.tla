----------------------- MODULE CrossStackAccess_proofs -----------------------
(***************************************************************************)
(* Proofs about cross-stack credentials, for any content and any number of *)
(* faults: type correctness, that no reconcile withdraws a child, that the *)
(* token and its policy stand for one policy of Grafana, and that none is  *)
(* created next to a token; then where a claim can come to rest, which     *)
(* losses a turn refuses, and that these are final.                        *)
(***************************************************************************)
EXTENDS CrossStackAccess, TLAPS

USE MaxFaultsAssumption, ContentAssumption

ManagedResource == [exists : BOOLEAN, ok : BOOLEAN]
Plans == [desired : SUBSET Claimed, name : PolicyIds, ready : BOOLEAN]

(* What exists is referred to, so that a reconcile observes it.             *)
Referenced == \A k \in Child : mr[k].exists => k \in refs

(* A plan holds on to all that exists.                                      *)
PlanKeeps == pc = "apply" => Observed \subseteq plan.desired

(* The identity a planned token is given is that of the policy and of the   *)
(* token there are.                                                         *)
PlanAgrees ==
  pc = "apply" /\ Token \in plan.desired =>
    /\ plan.name # NoPolicy
    /\ mr[Policy].exists => name = plan.name
    /\ mr[Token].exists => bound = plan.name

(* Every policy but the first was preceded by a deletion.                   *)
MintsBounded ==
  /\ minted <= faults + 1
  /\ name = NoPolicy => minted <= faults

IInv ==
  /\ TypeOK /\ NothingWithdrawn /\ OneIdentity
  /\ Referenced /\ PlanKeeps /\ PlanAgrees /\ MintsBounded

-----------------------------------------------------------------------------
LEMMA Names ==
  /\ {Policy, Token, Central, Project} \subseteq Child /\ Policy # Token
  /\ Sources \subseteq Child /\ Claimed \subseteq Child
  BY DEF Policy, Token, Central, Project, Child, Sources, GitCredential, Git,
         Claimed, Credentials

LEMMA Records ==
  /\ AbsentMR \in ManagedResource /\ ~AbsentMR.exists /\ NoPlan \in Plans
  /\ NoPolicy \in PolicyIds /\ NoPlan.desired = {}
  BY DEF AbsentMR, ManagedResource, NoPlan, Plans, NoPolicy, PolicyIds

(* More faults allow for as many policies.                                  *)
LEMMA FaultsGrow ==
  ASSUME MintsBounded, UNCHANGED <<minted, name>>, minted \in Nat,
         faults \in Nat, faults' \in Nat, faults <= faults'
  PROVE  MintsBounded'
<1>1. \A m, f, g \in Nat : f <= g =>
        (m <= f + 1 => m <= g + 1) /\ (m <= f => m <= g)
  OBVIOUS
<1>2. minted <= faults' + 1
  BY <1>1 DEF MintsBounded
<1>3. name = NoPolicy => minted <= faults'
  BY <1>1 DEF MintsBounded
<1> QED
  BY <1>2, <1>3, Zenon DEF MintsBounded, NoPolicy

LEMMA RenderedClaimed == TypeOK => Rendered \subseteq Claimed
<1> SUFFICES ASSUME TypeOK, NEW k \in Rendered PROVE k \in Claimed
  OBVIOUS
<1> QED
  BY DEF Rendered, Claimed, Child, ServiceDue, ConnectionDue, ForContent, Git

(* A turn that is not Fatal keeps every child it observes.                  *)
LEMMA TurnHolds == TypeOK /\ Acceptable => Observed \subseteq Rendered
<1> SUFFICES ASSUME TypeOK, Acceptable, ~WaitAllowed PROVE Observed \subseteq Rendered
  BY DEF WaitAllowed
<1>1. ConnectionDue /\ ServiceDue /\ TokenDue /\ PolicyDue /\ ForContent
  BY DEF Acceptable, ConnectionDue, ServiceDue, TokenDue
<1>2. Rendered = Child
  BY <1>1 DEF Rendered
<1> QED
  BY <1>2, Names DEF Observed, TypeOK

(* The identity a turn renders the token with.                              *)
LEMMA TurnIdentity ==
  ASSUME IInv, Token \in Rendered
  PROVE  /\ ImportName # NoPolicy
         /\ mr[Policy].exists => name = ImportName
         /\ mr[Token].exists => bound = ImportName
<1>1. Identity # NoPolicy
  BY DEF Rendered, TokenDue
<1>2. CASE Known(Policy)
  BY <1>1, <1>2 DEF Identity, ImportName, IInv, OneIdentity, Known, Observed
<1>3. CASE ~Known(Policy)
  <2>1. ForContent /\ Token \in Observed /\ Identity = bound
    BY <1>1, <1>3 DEF Identity
  <2> QED
    BY <1>1, <2>1 DEF ImportName, IInv, OneIdentity, Observed
<1> QED
  BY <1>2, <1>3

LEMMA ImportNameType == TypeOK => ImportName \in PolicyIds
<1> SUFFICES ASSUME TypeOK PROVE ImportName \in PolicyIds
  OBVIOUS
<1>1. Identity \in PolicyIds
  BY Records DEF Identity, TypeOK
<1> QED
  BY <1>1, Records DEF ImportName, TypeOK

LEMMA RenderedReadyType == RenderedReady \in BOOLEAN
  BY DEF RenderedReady

LEMMA TurnKeeps == IInv /\ Turn => IInv'
<1> SUFFICES ASSUME IInv, Turn PROVE IInv'
  OBVIOUS
<1>1. /\ UNCHANGED <<kind, mr, blank, name, bound, refs, withdrawn, minted>>
      /\ UNCHANGED <<ready, faults>>
      /\ pc' = "apply" /\ Acceptable
      /\ plan' = [desired |-> Rendered, name |-> ImportName,
                  ready |-> RenderedReady]
  BY DEF Turn, cluster
<1>2. plan' \in Plans
  BY <1>1, RenderedClaimed, ImportNameType, RenderedReadyType DEF IInv, Plans
<1>3. TypeOK'
  BY <1>1, <1>2 DEF IInv, TypeOK, Plans, Claimed, ForContent
<1>4. PlanKeeps'
  BY <1>1, TurnHolds DEF IInv, PlanKeeps, Observed
<1>5. PlanAgrees'
  BY <1>1, TurnIdentity DEF PlanAgrees
<1>6. NothingWithdrawn' /\ OneIdentity' /\ Referenced' /\ MintsBounded'
  BY <1>1 DEF IInv, NothingWithdrawn, OneIdentity, Referenced, MintsBounded
<1> QED
  BY <1>3, <1>4, <1>5, <1>6 DEF IInv

-----------------------------------------------------------------------------
(* Applying any part of a plan.                                             *)
LEMMA ApplyKeeps ==
  ASSUME IInv, pc = "apply", NEW S \in SUBSET plan.desired, ApplyTo(S),
         Return, ready' \in BOOLEAN, faults' \in 0..MaxFaults, faults <= faults'
  PROVE  IInv'
<1>1. Doomed = {}
  BY DEF Doomed, IInv, PlanKeeps
<1>2. plan \in Plans
  BY DEF IInv, TypeOK, Plans
<1>3. /\ mr' = [k \in Child |->
                  IF k \in S THEN [mr[k] EXCEPT !.exists = TRUE] ELSE mr[k]]
      /\ blank' = blank /\ refs' = plan.desired /\ withdrawn' = withdrawn
      /\ name' = IF Policy \in S /\ plan.name # NoPolicy THEN plan.name ELSE name
      /\ bound' = IF Token \in S THEN plan.name ELSE bound
      /\ pc' = "idle" /\ plan' = NoPlan /\ kind' = kind /\ minted' = minted
  BY <1>1 DEF ApplyTo, Return
<1>4. mr \in [Child -> ManagedResource]
  BY DEF IInv, TypeOK, ManagedResource
<1>5. \A k \in Child : mr'[k].exists <=> (k \in S \/ mr[k].exists)
  BY <1>3, <1>4 DEF ManagedResource
<1>6. \A k \in Child : mr[k].exists => k \in plan.desired
  BY DEF IInv, Referenced, PlanKeeps, Observed
<1>7. TypeOK'
  <2>1. mr' \in [Child -> ManagedResource]
    BY <1>3, <1>4 DEF ManagedResource
  <2>2. name' \in PolicyIds /\ bound' \in PolicyIds
    BY <1>2, <1>3 DEF IInv, TypeOK, Plans
  <2>3. NoPlan \in [desired : SUBSET Claimed', name : PolicyIds, ready : BOOLEAN]
    BY Records DEF NoPlan, Plans
  <2>4. Claimed' = Claimed
    BY <1>3 DEF Claimed, ForContent
  <2>5. refs' \subseteq Claimed
    BY <1>2, <1>3 DEF Plans
  <2> QED
    BY <1>3, <2>1, <2>2, <2>3, <2>4, <2>5 DEF IInv, TypeOK, ManagedResource
<1>8. OneIdentity'
  <2> SUFFICES ASSUME mr'[Token].exists
               PROVE  /\ bound' # NoPolicy
                      /\ mr'[Policy].exists => name' = bound'
    BY DEF OneIdentity
  <2>1. Token \in plan.desired
    BY <1>5, <1>6, Names
  <2>2. /\ plan.name # NoPolicy
        /\ mr[Policy].exists => name = plan.name
        /\ mr[Token].exists => bound = plan.name
    BY <2>1 DEF IInv, PlanAgrees
  <2>3. bound' = plan.name
    BY <1>3, <1>5, <2>2, Names
  <2>4. mr'[Policy].exists => name' = plan.name
    BY <1>3, <1>5, <2>2, Names
  <2> QED
    BY <2>2, <2>3, <2>4
<1>9. Referenced'
  BY <1>3, <1>5, <1>6 DEF Referenced
<1>10. NothingWithdrawn' /\ PlanKeeps' /\ PlanAgrees'
  BY <1>3 DEF IInv, NothingWithdrawn, PlanKeeps, PlanAgrees
<1>11. MintsBounded'
  BY <1>3 DEF IInv, MintsBounded, TypeOK, PolicyIds, NoPolicy
<1> QED
  BY <1>7, <1>8, <1>9, <1>10, <1>11 DEF IInv

LEMMA ReconcileKeeps == IInv /\ (Apply \/ Interrupt) => IInv'
<1>1. ASSUME IInv, Apply PROVE IInv'
  <2>1. ready' \in BOOLEAN /\ faults' \in 0..MaxFaults /\ faults <= faults'
    BY <1>1 DEF Apply, IInv, TypeOK
  <2>2. plan.desired \in SUBSET plan.desired
    OBVIOUS
  <2> QED
    BY <1>1, <2>1, <2>2, ApplyKeeps DEF Apply
<1>2. ASSUME IInv, Interrupt PROVE IInv'
  <2>1. ready' \in BOOLEAN /\ faults' \in 0..MaxFaults /\ faults <= faults'
    BY <1>2 DEF Interrupt, IInv, TypeOK
  <2>2. CASE \E S : ApplyTo(plan.desired \ S)
    <3>1. PICK S : ApplyTo(plan.desired \ S)
      BY <2>2
    <3>2. plan.desired \ S \in SUBSET plan.desired
      OBVIOUS
    <3> QED
      BY <1>2, <2>1, <3>1, <3>2, ApplyKeeps DEF Interrupt
  <2>3. CASE UNCHANGED cluster
    <3>1. /\ UNCHANGED <<kind, mr, blank, name, bound, refs, withdrawn, minted>>
          /\ pc' = "idle" /\ plan' = NoPlan
      BY <1>2, <2>3 DEF Interrupt, Return, cluster
    <3>2. TypeOK'
      BY <1>2, <2>1, <3>1, Records
      DEF IInv, TypeOK, NoPlan, Claimed, ForContent, Plans
    <3>3. NothingWithdrawn' /\ OneIdentity' /\ Referenced'
      BY <1>2, <3>1 DEF IInv, NothingWithdrawn, OneIdentity, Referenced
    <3>4. PlanKeeps' /\ PlanAgrees'
      BY <3>1 DEF PlanKeeps, PlanAgrees
    <3>5. MintsBounded'
      <4>1. minted \in Nat /\ faults \in Nat /\ faults' \in Nat
        BY <1>2, <2>1 DEF IInv, TypeOK, PolicyIds
      <4> QED
        BY <1>2, <2>1, <3>1, <4>1, FaultsGrow DEF IInv
    <3> QED
      BY <3>2, <3>3, <3>4, <3>5 DEF IInv
  <2> QED
    BY <1>2, <2>2, <2>3 DEF Interrupt
<1> QED
  BY <1>1, <1>2

-----------------------------------------------------------------------------
(* The providers, and the faults.                                           *)

(* A policy is created only where no token exists yet.                      *)
LEMMA MaterialiseKeeps ==
  ASSUME IInv, NEW k \in Child, Materialise(k)
  PROVE  IInv' /\ (mr[Token].exists => minted' = minted)
<1>1. /\ UNCHANGED <<kind, blank, bound, refs, withdrawn, pc, plan, ready, faults>>
      /\ mr' = [mr EXCEPT ![k].ok = TRUE] /\ mr[k].exists
  BY DEF Materialise, Pending
<1>2. mr \in [Child -> ManagedResource]
  BY DEF IInv, TypeOK, ManagedResource
<1>3. \A j \in Child : mr'[j].exists <=> mr[j].exists
  BY <1>1, <1>2 DEF ManagedResource
<1>4. mr' \in [Child -> ManagedResource]
  BY <1>1, <1>2 DEF ManagedResource
<1>5. NothingWithdrawn' /\ Referenced' /\ PlanKeeps'
  <2>1. Observed' = Observed
    BY <1>1, <1>3, Names DEF Observed, IInv, TypeOK
  <2> QED
    BY <1>1, <1>3, <2>1 DEF IInv, NothingWithdrawn, Referenced, PlanKeeps
<1>6. CASE k = Policy /\ name = NoPolicy
  <2>1. minted' = minted + 1 /\ name' = minted + 1
    BY <1>6 DEF Materialise
  <2>2. ~mr[Token].exists
    BY <1>1, <1>6 DEF IInv, OneIdentity
  <2>3. ~(pc = "apply" /\ Token \in plan.desired)
    BY <1>1, <1>6 DEF IInv, PlanAgrees
  <2>4. minted \in Nat /\ faults \in Nat /\ minted <= faults /\ faults <= MaxFaults
    BY <1>6 DEF IInv, MintsBounded, TypeOK, PolicyIds
  <2>5. minted' \in PolicyIds /\ name' \in PolicyIds /\ MintsBounded'
    BY <1>1, <2>1, <2>4 DEF PolicyIds, MintsBounded, NoPolicy
  <2>6. TypeOK'
    BY <1>1, <1>4, <2>5 DEF IInv, TypeOK, ManagedResource, Claimed, ForContent
  <2>7. OneIdentity' /\ PlanAgrees'
    BY <1>1, <1>3, <2>2, <2>3, Names DEF OneIdentity, PlanAgrees
  <2> QED
    BY <1>5, <2>2, <2>5, <2>6, <2>7 DEF IInv
<1>7. CASE ~(k = Policy /\ name = NoPolicy)
  <2>1. minted' = minted /\ name' = name
    BY <1>7 DEF Materialise
  <2>2. TypeOK'
    BY <1>1, <1>4, <2>1 DEF IInv, TypeOK, ManagedResource, Claimed, ForContent
  <2>3. OneIdentity' /\ PlanAgrees' /\ MintsBounded'
    BY <1>1, <1>3, <2>1, Names DEF IInv, OneIdentity, PlanAgrees, MintsBounded
  <2> QED
    BY <1>5, <2>1, <2>2, <2>3 DEF IInv
<1> QED
  BY <1>6, <1>7

LEMMA DisappearKeeps ==
  ASSUME IInv, NEW k \in Child, Disappear(k)
  PROVE  IInv'
<1>1. /\ UNCHANGED <<kind, minted, refs, withdrawn, pc, plan, ready>>
      /\ mr' = [mr EXCEPT ![k] = AbsentMR] /\ blank' = blank \ {k}
      /\ name' = IF k = Policy THEN NoPolicy ELSE name
      /\ bound' = IF k = Token THEN NoPolicy ELSE bound
      /\ faults' = faults + 1 /\ faults < MaxFaults
  BY DEF Disappear
<1>2. mr \in [Child -> ManagedResource]
  BY DEF IInv, TypeOK, ManagedResource
<1>3. /\ \A j \in Child : mr'[j] = IF j = k THEN AbsentMR ELSE mr[j]
      /\ mr' \in [Child -> ManagedResource]
  BY <1>1, <1>2, Records
<1>4. TypeOK'
  <2>1. faults' \in 0..MaxFaults /\ name' \in PolicyIds /\ bound' \in PolicyIds
    BY <1>1, Records DEF IInv, TypeOK
  <2> QED
    BY <1>1, <1>3, <2>1 DEF IInv, TypeOK, ManagedResource, Claimed, ForContent
<1>5. OneIdentity' /\ PlanAgrees' /\ Referenced' /\ NothingWithdrawn'
  BY <1>1, <1>3, Names, Records
  DEF IInv, OneIdentity, PlanAgrees, Referenced, NothingWithdrawn
<1>6. PlanKeeps'
  <2>1. Observed' \subseteq Observed
    BY <1>1, <1>3, Names, Records DEF Observed, IInv, TypeOK
  <2> QED
    BY <1>1, <2>1 DEF IInv, PlanKeeps
<1>7. MintsBounded'
  BY <1>1 DEF IInv, MintsBounded, TypeOK, PolicyIds, NoPolicy
<1> QED
  BY <1>4, <1>5, <1>6, <1>7 DEF IInv

(* Statuses come and go without anything else.                              *)
LEMMA StatusKeeps ==
  ASSUME IInv, blank' \subseteq Sources, faults' \in 0..MaxFaults,
         faults <= faults',
         UNCHANGED <<kind, mr, name, bound, minted, refs, withdrawn, pc, plan,
                     ready>>
  PROVE  IInv'
<1>1. TypeOK'
  BY DEF IInv, TypeOK, Claimed, ForContent
<1>2. MintsBounded'
  <2>1. minted \in Nat /\ faults \in Nat /\ faults' \in Nat
    BY DEF IInv, TypeOK, PolicyIds
  <2> QED
    BY <2>1, FaultsGrow DEF IInv
<1>3. NothingWithdrawn' /\ OneIdentity' /\ Referenced'
  BY DEF IInv, NothingWithdrawn, OneIdentity, Referenced
<1>4. PlanKeeps' /\ PlanAgrees'
  BY DEF IInv, PlanKeeps, Observed, PlanAgrees
<1> QED
  BY <1>1, <1>2, <1>3, <1>4 DEF IInv

LEMMA InvariantStep == IInv /\ [Next]_vars => IInv'
<1> SUFFICES ASSUME IInv, [Next]_vars PROVE IInv'
  OBVIOUS
<1>1. ASSUME NEW k \in Child, RecoverStatus(k) PROVE IInv'
  BY <1>1, StatusKeeps DEF RecoverStatus, IInv, TypeOK
<1>2. ASSUME NEW k \in Sources, LoseStatus(k) PROVE IInv'
  BY <1>2, StatusKeeps DEF LoseStatus, IInv, TypeOK
<1>3. CASE UNCHANGED vars
  BY <1>3, StatusKeeps DEF vars, cluster, IInv, TypeOK
<1> QED
  BY <1>1, <1>2, <1>3, TurnKeeps, ReconcileKeeps, MaterialiseKeeps,
     DisappearKeeps DEF Next, Providers

LEMMA InitialInvariant == Init => IInv
<1> SUFFICES ASSUME Init PROVE IInv
  OBVIOUS
<1>1. mr \in [Child -> ManagedResource] /\ \A k \in Child : ~mr[k].exists
  BY Records DEF Init
<1>2. TypeOK
  <2>1. 0 \in PolicyIds /\ 0 \in 0..MaxFaults
    BY DEF PolicyIds
  <2>2. plan \in Plans
    BY Records DEF Init
  <2> QED
    BY <1>1, <2>1, <2>2 DEF Init, TypeOK, ManagedResource, Plans, NoPolicy
<1>3. NothingWithdrawn /\ OneIdentity /\ Referenced
  BY <1>1, Names DEF Init, NothingWithdrawn, OneIdentity, Referenced
<1>4. PlanKeeps /\ PlanAgrees
  BY DEF Init, PlanKeeps, PlanAgrees
<1>5. MintsBounded
  BY DEF Init, MintsBounded
<1> QED
  BY <1>2, <1>3, <1>4, <1>5 DEF IInv

THEOREM Invariance == Spec => []IInv
  BY InitialInvariant, InvariantStep, PTL DEF Spec

(* The children, the identities and the plan keep their types; a policy is  *)
(* created at most once more than children were lost.                       *)
THEOREM TypeCorrect == Spec => []TypeOK
<1>1. IInv => TypeOK
  BY DEF IInv
<1> QED
  BY <1>1, Invariance, PTL

(* Whatever is lost, no reconcile deletes a child of the claim.             *)
THEOREM Kept == Spec => []NothingWithdrawn
<1>1. IInv => NothingWithdrawn
  BY DEF IInv
<1> QED
  BY <1>1, Invariance, PTL

(* The token and the policy always stand for the same policy of Grafana.    *)
THEOREM Identified == Spec => []OneIdentity
<1>1. IInv => OneIdentity
  BY DEF IInv
<1> QED
  BY <1>1, Invariance, PTL

(* No second policy is created in Grafana next to a token.                  *)
THEOREM NoSecondPolicy == Spec => PolicyKept
<1>1. IInv /\ [Next]_vars => [mr[Token].exists => minted' = minted]_vars
  <2> SUFFICES ASSUME IInv, Next PROVE mr[Token].exists => minted' = minted
    BY DEF vars
  <2>1. CASE Providers
    BY <2>1, MaterialiseKeeps DEF Providers, RecoverStatus
  <2>2. CASE Turn \/ Apply \/ Interrupt
    BY <2>2 DEF Turn, Apply, Interrupt, Return
  <2>3. ASSUME NEW k, LoseStatus(k) \/ Disappear(k) PROVE minted' = minted
    BY <2>3 DEF LoseStatus, Disappear
  <2> QED
    BY <2>1, <2>2, <2>3 DEF Next
<1> QED
  BY <1>1, Invariance, PTL DEF Spec, PolicyKept

-----------------------------------------------------------------------------
(* When a claim stops.                                                      *)

(* Between two reconciles, with every status reported and nothing left for  *)
(* a provider to do.                                                        *)
Resting == pc = "idle" /\ blank = {} /\ \A k \in Child : ~Pending(k)

(* What the next steps can change without another fault: a status comes     *)
(* back, a provider works, or a turn that is not refused adds a child or    *)
(* corrects the reported readiness.                                         *)
Work ==
  \/ pc # "idle" \/ blank # {}
  \/ \E k \in Child : Pending(k)
  \/ Acceptable /\ ((\E k \in Rendered : ~mr[k].exists) \/ ready # RenderedReady)

(* A child is ready only while it exists, and a ready policy has been given *)
(* its identity.                                                            *)
Sound ==
  /\ \A k \in Child : mr[k].ok => mr[k].exists
  /\ mr[Policy].ok => name # NoPolicy

Progressive == IInv /\ Sound

LEMMA Fields == TypeOK => \A k \in Child : mr[k] \in ManagedResource
  BY DEF TypeOK, ManagedResource

LEMMA SoundStep == IInv /\ Sound /\ [Next]_vars => Sound'
<1> SUFFICES ASSUME IInv, Sound, [Next]_vars PROVE Sound'
  OBVIOUS
<1> USE Names, Records
<1>t. mr \in [Child -> ManagedResource]
  BY DEF IInv, TypeOK, ManagedResource
<1>1. ASSUME NEW S \in SUBSET plan.desired, ApplyTo(S), pc = "apply"
      PROVE  Sound'
  <2>1. Doomed = {}
    BY <1>1 DEF Doomed, IInv, PlanKeeps
  <2>2. /\ mr' = [k \in Child |->
                    IF k \in S THEN [mr[k] EXCEPT !.exists = TRUE] ELSE mr[k]]
        /\ name' = IF Policy \in S /\ plan.name # NoPolicy THEN plan.name
                   ELSE name
    BY <1>1, <2>1 DEF ApplyTo
  <2>3. \A k \in Child : (mr'[k].ok <=> mr[k].ok)
                         /\ (mr[k].exists => mr'[k].exists)
    BY <1>t, <2>2 DEF ManagedResource
  <2> QED
    BY <2>2, <2>3 DEF Sound
<1>2. CASE Apply
  BY <1>1, <1>2 DEF Apply
<1>3. CASE Interrupt
  <2>1. CASE UNCHANGED cluster
    BY <2>1 DEF Sound, cluster
  <2>2. ASSUME NEW S, ApplyTo(plan.desired \ S) PROVE Sound'
    BY <1>1, <1>3, <2>2 DEF Interrupt
  <2> QED
    BY <1>3, <2>1, <2>2 DEF Interrupt
<1>4. ASSUME NEW k \in Child, Materialise(k) PROVE Sound'
  <2>1. mr' = [mr EXCEPT ![k].ok = TRUE] /\ mr[k].exists
    BY <1>4 DEF Materialise, Pending
  <2>2. \A j \in Child : (mr'[j].exists <=> mr[j].exists)
                         /\ mr'[j].ok = IF j = k THEN TRUE ELSE mr[j].ok
    BY <1>t, <2>1 DEF ManagedResource
  <2>3. k = Policy => name' # NoPolicy
    BY <1>4 DEF Materialise, NoPolicy, IInv, TypeOK, PolicyIds
  <2>4. k # Policy => name' = name
    BY <1>4 DEF Materialise
  <2> QED
    BY <2>1, <2>2, <2>3, <2>4 DEF Sound
<1>5. ASSUME NEW k \in Child, Disappear(k) PROVE Sound'
  <2>1. \A j \in Child : mr'[j] = IF j = k THEN AbsentMR ELSE mr[j]
    BY <1>5, <1>t DEF Disappear
  <2>2. name' = IF k = Policy THEN NoPolicy ELSE name
    BY <1>5 DEF Disappear
  <2>3. ~AbsentMR.ok
    BY DEF AbsentMR
  <2> QED
    BY <2>1, <2>2, <2>3 DEF Sound
<1>6. CASE UNCHANGED <<mr, name>>
  BY <1>6 DEF Sound
<1>7. Turn \/ UNCHANGED vars => UNCHANGED <<mr, name>>
  BY DEF Turn, cluster, vars
<1>8. ASSUME NEW k PROVE RecoverStatus(k) \/ LoseStatus(k) => UNCHANGED <<mr, name>>
  BY DEF RecoverStatus, LoseStatus
<1> QED
  BY <1>2, <1>3, <1>4, <1>5, <1>6, <1>7, <1>8 DEF Next, Providers

LEMMA InitialSound == Init => Sound
  BY Names DEF Init, Sound, AbsentMR

THEOREM Progressing == Spec => []Progressive
  BY InitialInvariant, InvariantStep, InitialSound, SoundStep, PTL
  DEF Spec, Progressive

-----------------------------------------------------------------------------
(* At rest a child that waits for nothing is known when it exists.          *)
LEMMA RestingKnown ==
  ASSUME Progressive, Resting, NEW k \in Child,
         \A f \in Feeds(k) : mr[f].ok
  PROVE  /\ Known(k) <=> mr[k].exists
         /\ mr[k].ok <=> mr[k].exists
  BY Fields DEF Progressive, IInv, Sound, Resting, Pending, Known, Observed,
     Referenced, ManagedResource

LEMMA SourcesKnown ==
  ASSUME Progressive, Resting
  PROVE  \A k \in Sources \cup {Token, GitConnection} :
           (Known(k) <=> mr[k].exists) /\ (mr[k].ok <=> mr[k].exists)
<1> SUFFICES ASSUME NEW k \in Sources \cup {Token, GitConnection}
             PROVE (Known(k) <=> mr[k].exists) /\ (mr[k].ok <=> mr[k].exists)
  OBVIOUS
<1>1. k \in Child
  BY DEF Sources, Child, Git
<1>2. Feeds(k) = {}
  BY ContentAssumption
  DEF Feeds, Sources, Policy, Token, Central, Project, GitCredential,
      Credentials, SourceSecret, GitSecureValue, GitConnection, Git
<1> QED
  BY <1>1, <1>2, RestingKnown

LEMMA ObservedExists ==
  ASSUME IInv
  PROVE  \A k \in Child : k \in Observed <=> mr[k].exists
  BY DEF IInv, Referenced, Observed

(* A policy that is known, or a token, gives the identity a turn needs.     *)
LEMMA IdentityKnown ==
  ASSUME Progressive, Resting,
         mr[Policy].exists \/ (ForContent /\ mr[Token].exists)
  PROVE  Identity # NoPolicy
<1>1. CASE mr[Policy].exists
  <2>1. Known(Policy) /\ mr[Policy].ok
    BY <1>1, SourcesKnown DEF Sources
  <2> QED
    BY <2>1 DEF Identity, Progressive, Sound
<1>2. CASE ~mr[Policy].exists
  <2>1. ~Known(Policy) /\ Token \in Observed
    BY <1>2, SourcesKnown, ObservedExists, Names DEF Sources, Progressive
  <2>2. bound # NoPolicy
    BY <1>2 DEF Progressive, IInv, OneIdentity
  <2> QED
    BY <1>2, <2>1, <2>2 DEF Identity
<1> QED
  BY <1>1, <1>2

(* At rest a turn has neither lost the Git key nor conflicting identities,  *)
(* but for a loss that no turn repairs.                                     *)
LEMMA NeitherLost ==
  ASSUME Progressive, Resting, ~Irreparable
  PROVE  ~KeyLost /\ ~Conflicting
<1>1. ~KeyLost
  <2> SUFFICES ASSUME KeyLost PROVE FALSE
    OBVIOUS
  <2>1. {GitSecureValue, GitConnection} \subseteq Child
    BY DEF Child, Git
  <2>2. mr[GitConnection].exists
    BY <2>1, ObservedExists DEF KeyLost, Progressive
  <2>3. ~mr[GitCredential].exists
    BY SourcesKnown DEF KeyLost, Sources
  <2> QED
    BY <2>2, <2>3 DEF Irreparable, Present
<1>2. ~Conflicting
  <2>1. Known(Policy) <=> mr[Policy].exists
    BY SourcesKnown DEF Sources
  <2>2. (Policy \in Observed <=> mr[Policy].exists)
        /\ (Token \in Observed <=> mr[Token].exists)
    BY ObservedExists, Names DEF Progressive
  <2>3. CASE ForContent
    BY <2>1, <2>2, <2>3 DEF Conflicting
  <2>4. CASE ~ForContent
    BY <2>1, <2>2, <2>4
    DEF Conflicting, TokenDue, Identity, Progressive, IInv, OneIdentity
  <2> QED
    BY <2>3, <2>4
<1> QED
  BY <1>1, <1>2

LEMMA GitChildren ==
  /\ {Credentials, SourceSecret, GitCredential, GitSecureValue, GitConnection}
       \subseteq Child
  /\ Project # Central /\ Content \subseteq Child
  BY DEF Child, Git, Project, Central

(* A consumer that is not beyond repair keeps all that it has.              *)
LEMMA ConsumerWaits ==
  ASSUME Progressive, Resting, ~Irreparable, ~ForContent
  PROVE  Observed \subseteq Rendered
<1> SUFFICES ASSUME NEW k \in Observed PROVE k \in Rendered
  OBVIOUS
<1>1. k \in {Central, Policy, Token, Credentials} /\ mr[k].exists /\ k \in Child
  BY GitChildren, Names DEF Observed, Progressive, IInv, TypeOK, Claimed
<1>2. CASE k = Central
  BY <1>1, <1>2, ContentAssumption
  DEF Rendered, Central, Project, Policy, Token, Credentials, SourceSecret,
      GitCredential, GitSecureValue, GitConnection
<1>3. CASE k # Central
  <2>1. k \in Child \ Observers
    BY <1>1, <1>3 DEF Observers
  <2>2. mr[Central].exists
    BY <1>1, <2>1 DEF Irreparable, Present
  <2>3. PolicyDue
    BY <2>2, SourcesKnown DEF PolicyDue, StackKnown, Sources
  <2>4. k # Policy => mr[Policy].exists
    <3>1. k # Policy => k \in Child \ (Observers \cup {Policy})
      BY <2>1
    <3> QED
      BY <1>1, <3>1 DEF Irreparable, Present
  <2>5. TokenDue
    BY <1>1, <2>3, <2>4, IdentityKnown DEF TokenDue
  <2> QED
    BY <1>1, <1>3, <2>3, <2>5, ContentAssumption
    DEF Rendered, Central, Project, Policy, Token, Credentials, SourceSecret,
        GitCredential, GitSecureValue, GitConnection
<1> QED
  BY <1>2, <1>3

(* A project that is not beyond repair either reaches the last stage or     *)
(* keeps all that it has, with both observers.                              *)
LEMMA ProjectWaits ==
  ASSUME Progressive, Resting, ~Irreparable, ForContent, ~ConnectionDue
  PROVE  WaitAllowed
<1> USE Names, GitChildren
<1>o. \A k \in Child : k \in Observed <=> mr[k].exists
  BY ObservedExists DEF Progressive
<1>s. \A k \in Sources : Known(k) <=> mr[k].exists
  BY SourcesKnown
<1>n. {Project, Central} = Observers /\ Observed \subseteq Child
  BY DEF Observers, Observed, Progressive, IInv, TypeOK
<1>d. {Project, Central} \subseteq Rendered
  BY ContentAssumption
  DEF Rendered, Central, Project, Policy, Token, Credentials, SourceSecret,
      GitCredential, GitSecureValue, GitConnection, Git, Child
<1>1. CASE Observed \subseteq Observers
  BY <1>1, <1>n, <1>d DEF WaitAllowed
<1>2. CASE ~(Observed \subseteq Observers)
  <2>1. PICK k \in Child \ Observers : mr[k].exists
    BY <1>2, <1>n, <1>o
  <2>2. Known(Central) /\ mr[Central].exists
    BY <2>1, <1>s DEF Irreparable, Present, Sources
  (* A lost project is waited for only before the last stage.               *)
  <2>3. mr[Project].exists
    <3> SUFFICES ASSUME ~mr[Project].exists PROVE FALSE
      OBVIOUS
    <3>1. /\ mr[Policy].exists /\ mr[GitCredential].exists
          /\ mr[GitSecureValue].exists
      BY <2>1 DEF Irreparable, Present
    <3>2. Known(Policy) /\ Known(GitCredential) /\ GitSecureValue \in Observed
      BY <3>1, <1>s, <1>o DEF Sources
    <3>3. Identity # NoPolicy
      BY <3>1, IdentityKnown
    <3> QED
      BY <2>2, <3>2, <3>3
      DEF ConnectionDue, ServiceDue, TokenDue, PolicyDue, StackKnown, Known
  <2>4. Known(Project) /\ PolicyDue
    BY <2>2, <2>3, <1>s DEF PolicyDue, StackKnown, Sources
  <2>5. ASSUME NEW j \in Observed, j \notin Observers \cup {Policy}
        PROVE  ServiceDue
    <3>1. j \in Child /\ mr[j].exists
      BY <2>5, <1>o, <1>n
    <3>2. mr[Policy].exists \/ mr[Token].exists
      BY <2>5, <3>1 DEF Irreparable, Present
    <3> QED
      BY <2>2, <2>4, <3>2, IdentityKnown DEF ServiceDue, TokenDue
  <2>6. ASSUME NEW j \in Observed PROVE j \notin {GitConnection} \cup Content
    <3>1. SUFFICES ASSUME j \in {GitConnection} \cup Content PROVE FALSE
      OBVIOUS
    <3>2. mr[j].exists /\ j \notin Observers \cup {Policy}
      BY <2>6, <3>1, <1>o, <1>n, ContentAssumption
      DEF Policy, Central, Project, GitConnection
    <3>3. mr[GitCredential].exists /\ mr[GitSecureValue].exists
      BY <3>1, <3>2 DEF Irreparable, Present
    <3>4. Known(GitCredential) /\ GitSecureValue \in Observed
      BY <3>3, <1>s, <1>o DEF Sources
    <3> QED
      BY <3>2, <3>4, <2>5, <2>6 DEF ConnectionDue
  <2>7. ASSUME NEW j \in Observed PROVE j \in Rendered
    <3>1. CASE j \in Observers
      BY <3>1, <1>d, <1>n
    <3>2. CASE j = Policy
      BY <3>2, <2>4, ContentAssumption
      DEF Rendered, Central, Project, Policy, Token, Credentials, SourceSecret,
          GitCredential, GitSecureValue, GitConnection
    <3>3. CASE j \notin Observers \cup {Policy}
      <4>1. TokenDue /\ ServiceDue /\ j \in Child
        BY <3>3, <2>5, <2>7, <1>n DEF ServiceDue
      <4> QED
        BY <3>3, <4>1, <2>6, <2>7, <2>4 DEF Rendered
    <3> QED
      BY <3>1, <3>2, <3>3
  <2> QED
    BY <2>2, <2>3, <2>7, <1>n, <1>o DEF WaitAllowed
<1> QED
  BY <1>1, <1>2

LEMMA RepairableAccepted ==
  ASSUME Progressive, Resting, ~Irreparable
  PROVE  Acceptable
<1>1. CASE ForContent
  BY <1>1, NeitherLost, ProjectWaits DEF Acceptable
<1>2. CASE ~ForContent
  BY <1>2, NeitherLost, ConsumerWaits DEF Acceptable, WaitAllowed
<1> QED
  BY <1>1, <1>2

(* A turn next to a child whose loss it cannot repair is Fatal.             *)
LEMMA IrreparableRefused ==
  ASSUME IInv, Irreparable
  PROVE  ~Acceptable
<1> SUFFICES ASSUME Acceptable PROVE FALSE
  OBVIOUS
<1> USE Names, GitChildren
<1>o. \A k \in Child : k \in Observed <=> mr[k].exists
  BY ObservedExists
<1>k. \A k \in Child : Known(k) => mr[k].exists
  BY DEF Known, Observed
<1>1. CASE ~mr[Central].exists /\ Present(Child \ Observers)
  <2>1. ~Known(Central) /\ ~ConnectionDue
    BY <1>1, <1>k DEF ConnectionDue, ServiceDue
  <2>2. PICK k \in Child \ Observers : mr[k].exists
    BY <1>1 DEF Present
  <2>3. WaitAllowed /\ k \in Observed
    BY <2>1, <2>2, <1>o DEF Acceptable
  <2>4. CASE ForContent
    BY <2>2, <2>3, <2>4, <1>1, <1>o DEF WaitAllowed, Observers
  <2>5. CASE ~ForContent
    <3>1. k \in Rendered /\ k # Central /\ ~PolicyDue
      BY <2>1, <2>2, <2>3, <2>5
      DEF WaitAllowed, Observers, PolicyDue, StackKnown
    <3>2. k \in {Policy, Token, Credentials}
      BY <2>5, <3>1
      DEF Rendered, ServiceDue, ConnectionDue, Child, Git
    <3> QED
      BY <3>1, <3>2 DEF Rendered, TokenDue
  <2> QED
    BY <2>4, <2>5
<1>2. CASE /\ ~mr[Policy].exists
           /\ Present(Child \ (Observers \cup {Policy}))
           /\ ForContent => ~mr[Token].exists
  <2>1. ~Known(Policy)
    BY <1>2, <1>k
  <2>2. Identity = NoPolicy
    BY <1>2, <1>o, <2>1 DEF Identity
  <2>3. ~TokenDue /\ ~ServiceDue /\ ~ConnectionDue
    BY <2>2 DEF TokenDue, ServiceDue, ConnectionDue
  <2>4. PICK k \in Child \ (Observers \cup {Policy}) : mr[k].exists
    BY <1>2 DEF Present
  <2>5. k \in Rendered
    BY <2>3, <2>4, <1>o DEF Acceptable, WaitAllowed
  <2> QED
    BY <2>3, <2>4, <2>5 DEF Rendered, Observers, Child, Git
<1>3. CASE /\ ForContent /\ ~mr[Project].exists /\ Present(Child \ Observers)
           /\ \E k \in {Policy, GitCredential, GitSecureValue} : ~mr[k].exists
  <2>1. ~WaitAllowed
    BY <1>3, <1>o DEF WaitAllowed, Present, Observers
  <2>2. ConnectionDue /\ ServiceDue /\ TokenDue /\ PolicyDue
    BY <2>1 DEF Acceptable, ConnectionDue, ServiceDue, TokenDue
  <2>3. mr[GitCredential].exists /\ mr[GitSecureValue].exists
    BY <2>2, <1>o, <1>k DEF ConnectionDue
  <2>4. mr[Policy].exists
    BY <2>2, <1>3, <1>o, <1>k DEF PolicyDue
  <2> QED
    BY <1>3, <2>3, <2>4
<1>4. CASE /\ Present({GitConnection} \cup Content)
           /\ \E k \in {GitCredential, GitSecureValue} : ~mr[k].exists
  <2>1. ~ConnectionDue
    BY <1>4, <1>o, <1>k DEF ConnectionDue
  <2>2. PICK k \in {GitConnection} \cup Content : mr[k].exists
    BY <1>4 DEF Present
  <2>3. k \in Rendered
    BY <2>1, <2>2, <1>o DEF Acceptable, WaitAllowed
  <2> QED
    BY <2>1, <2>2, <2>3 DEF Rendered
<1> QED
  BY <1>1, <1>2, <1>3, <1>4 DEF Irreparable

(* At rest, once a turn has nothing to add, all that is claimed is there,   *)
(* each child having waited only for children that are there too.           *)
LEMMA RestingComplete ==
  ASSUME Progressive, Resting, \A k \in Rendered : mr[k].exists
  PROVE  /\ \A k \in Claimed : mr[k].exists /\ mr[k].ok
         /\ RenderedReady
<1> USE Names, GitChildren
<1>r. Claimed \subseteq Child /\ Rendered \subseteq Child
  BY DEF Rendered
<1>s. \A k \in Sources \cup {Token, GitConnection} :
        (Known(k) <=> mr[k].exists) /\ (mr[k].ok <=> mr[k].exists)
  BY SourcesKnown
<1>o. \A k \in Child : k \in Observed <=> mr[k].exists
  BY ObservedExists DEF Progressive
<1>1. Central \in Rendered /\ (ForContent => Project \in Rendered)
  BY ContentAssumption
  DEF Rendered, Central, Project, Policy, Token, Credentials, SourceSecret,
      GitCredential, GitSecureValue, GitConnection, Git, Child
<1>2. PolicyDue
  BY <1>1, <1>s DEF PolicyDue, StackKnown, Sources
<1>3. Policy \in Rendered
  BY <1>2, ContentAssumption
  DEF Rendered, Central, Project, Policy, Token, Credentials, SourceSecret,
      GitCredential, GitSecureValue, GitConnection, Git, Child
<1>4. TokenDue /\ (ForContent => ServiceDue)
  BY <1>1, <1>2, <1>3, <1>s, IdentityKnown DEF TokenDue, ServiceDue, Sources
<1>5. ForContent => GitSecureValue \in Rendered /\ GitCredential \in Rendered
  BY <1>4, ContentAssumption
  DEF Rendered, Central, Project, Policy, Token, Credentials, SourceSecret,
      GitCredential, GitSecureValue, GitConnection, Git, Child
<1>6. ForContent => ConnectionDue
  BY <1>4, <1>5, <1>s, <1>o DEF ConnectionDue, Sources
<1>7. \A k \in Claimed : k \in Rendered
  BY <1>r, <1>2, <1>4, <1>6, ContentAssumption
  DEF Rendered, Claimed, Central, Project, Policy, Token, Credentials,
      SourceSecret, GitCredential, GitSecureValue, GitConnection, Git
<1>8. \A k \in Claimed : mr[k].exists
  BY <1>7
(* Ready along the references: the sources, then what refers to these.      *)
<1>9. ASSUME NEW k \in Claimed PROVE mr[k].ok
  <2>f. \A f \in Feeds(k) : f \in Claimed
    BY ContentAssumption
    DEF Feeds, Claimed, Central, Project, Policy, Token, Credentials,
        SourceSecret, GitCredential, GitSecureValue, GitConnection, Git, Child
  <2>1. ASSUME NEW j \in Claimed, \A f \in Feeds(j) : mr[f].ok PROVE mr[j].ok
    BY <1>8, <1>r, <2>1, RestingKnown
  <2>2. CASE k \in Sources \cup {Token, GitConnection}
    BY <1>8, <1>s, <2>2
  <2>3. Credentials \in Claimed => mr[Credentials].ok
    <3>1. Feeds(Credentials) = {Token}
      BY ContentAssumption
      DEF Feeds, Policy, Token, Central, Project, Credentials, SourceSecret,
          GitCredential, GitSecureValue, GitConnection, Git
    <3>2. Token \in Claimed
      BY DEF Claimed
    <3>3. mr[Token].ok
      BY <1>8, <1>s, <3>2
    <3> QED
      BY <2>1, <3>1, <3>3
  <2>4. GitSecureValue \in Claimed => mr[GitSecureValue].ok
    <3>1. Feeds(GitSecureValue) = {GitCredential}
      BY ContentAssumption
      DEF Feeds, Policy, Token, Central, Project, Credentials, SourceSecret,
          GitCredential, GitSecureValue, GitConnection, Git
    <3>2. GitSecureValue \in Claimed => GitCredential \in Claimed
      BY DEF Claimed, GitSecureValue, Central, Policy, Token, Credentials
    <3> QED
      BY <1>8, <1>s, <2>1, <3>1, <3>2 DEF Sources
  <2>5. SourceSecret \in Claimed => mr[SourceSecret].ok
    <3>1. Feeds(SourceSecret) = {Credentials}
      BY ContentAssumption
      DEF Feeds, Policy, Token, Central, Project, Credentials, SourceSecret,
          GitCredential, GitSecureValue, GitConnection, Git
    <3>2. Credentials \in Claimed
      BY DEF Claimed
    <3> QED
      BY <2>1, <2>3, <3>1, <3>2
  <2>6. CASE k \in Content /\ ForContent
    <3>1. Feeds(k) = {SourceSecret, GitConnection}
      BY <2>6, ContentAssumption DEF Feeds, Git
    <3>2. SourceSecret \in Claimed /\ GitConnection \in Claimed
      BY <2>6 DEF Claimed, Child
    <3> QED
      BY <1>8, <1>s, <2>1, <2>5, <3>1, <3>2
  <2> QED
    BY <2>2, <2>3, <2>4, <2>5, <2>6 DEF Claimed, Child, Git, Sources
<1>10. RenderedReady
  <2>1. \A k \in Rendered : k \in Observed /\ mr[k].ok
    BY <1>r, <1>o, <1>9, RenderedClaimed DEF Progressive, IInv
  <2>2. \A k \in Rendered \cap Sources : Known(k)
    BY <1>s
  <2> QED
    BY <1>6, <2>1, <2>2 DEF RenderedReady
<1> QED
  BY <1>8, <1>9, <1>10

LEMMA MovingOrSettled == Progressive => Work \/ Fulfilled \/ Irreparable
<1> SUFFICES ASSUME Progressive, ~Work, ~Irreparable PROVE Fulfilled
  OBVIOUS
<1>1. Resting
  BY DEF Resting, Work
<1>2. Acceptable
  BY <1>1, RepairableAccepted
<1>3. (\A k \in Rendered : mr[k].exists) /\ ready = RenderedReady
  BY <1>2 DEF Work
<1> QED
  BY <1>1, <1>3, RestingComplete DEF Fulfilled

(* The safety half of ClaimSettles, for any content and any number of       *)
(* faults: a claim that is not fulfilled, and has lost nothing that no turn *)
(* repairs, is never refused for good and never left with a turn that has   *)
(* nothing to add.                                                          *)
THEOREM NeverAtAStandstill == Spec => [](Work \/ Fulfilled \/ Irreparable)
  BY MovingOrSettled, Progressing, PTL

(* The refusals of renderStackConsumer and projectContentWait are exact:    *)
(* with all reported, a turn is Fatal if and only if a child is lost whose  *)
(* loss no turn repairs.                                                    *)
THEOREM RefusalsExact == Spec => [](Resting => (Acceptable <=> ~Irreparable))
<1>1. Progressive => (Resting => (Acceptable <=> ~Irreparable))
  BY RepairableAccepted, IrreparableRefused DEF Progressive
<1> QED
  BY <1>1, Progressing, PTL

(* Such a loss is final: until someone deletes more, every turn is Fatal    *)
(* and none of the children changes this.                                   *)
THEOREM IrreparableLasts ==
  Spec => [][pc = "idle" /\ Irreparable /\ faults' = faults
               => pc' = "idle" /\ Irreparable']_vars
<1>1. ASSUME IInv, Next, pc = "idle", Irreparable, faults' = faults
      PROVE  pc' = "idle" /\ Irreparable'
  <2>e. ASSUME UNCHANGED kind, \A k \in Child : mr'[k].exists <=> mr[k].exists
        PROVE  Irreparable'
    <3>1. ForContent' <=> ForContent
      BY <2>e DEF ForContent
    <3>2. ASSUME NEW S \in SUBSET Child PROVE Present(S)' <=> Present(S)
      BY <2>e DEF Present
    <3>3. {GitConnection} \cup Content \in SUBSET Child
      BY GitChildren
    <3>4. /\ Observers' = Observers
          /\ Child \ Observers \in SUBSET Child
          /\ Child \ (Observers \cup {Policy}) \in SUBSET Child
      BY <3>1 DEF Observers
    <3>5. \A k \in {Central, Policy, Token, Project, GitCredential, GitSecureValue} :
            mr'[k].exists <=> mr[k].exists
      BY <2>e, Names, GitChildren
    <3>6. /\ Present(Child \ Observers)' <=> Present(Child \ Observers)
          /\ Present(Child \ (Observers \cup {Policy}))'
               <=> Present(Child \ (Observers \cup {Policy}))
          /\ Present({GitConnection} \cup Content)'
               <=> Present({GitConnection} \cup Content)
      BY <2>e, <3>4, GitChildren DEF Present
    <3> QED
      BY <1>1, <3>1, <3>5, <3>6 DEF Irreparable
  <2>1. ~Turn
    BY <1>1, IrreparableRefused DEF Turn
  <2>2. ~Apply /\ ~Interrupt
    BY <1>1 DEF Apply, Interrupt
  <2>3. \A k : ~LoseStatus(k) /\ ~Disappear(k)
    BY <1>1 DEF LoseStatus, Disappear, IInv, TypeOK
  <2>4. ASSUME NEW k \in Child, Materialise(k) PROVE pc' = "idle" /\ Irreparable'
    <3>1. mr' = [mr EXCEPT ![k].ok = TRUE] /\ UNCHANGED <<pc, kind>>
      BY <2>4 DEF Materialise
    <3>2. \A j \in Child : mr'[j].exists <=> mr[j].exists
      BY <1>1, <3>1 DEF IInv, TypeOK
    <3> QED
      BY <1>1, <2>e, <3>1, <3>2
  <2>5. ASSUME NEW k \in Child, RecoverStatus(k) PROVE pc' = "idle" /\ Irreparable'
    BY <1>1, <2>e, <2>5 DEF RecoverStatus
  <2> QED
    BY <1>1, <2>1, <2>2, <2>3, <2>4, <2>5 DEF Next, Providers
<1>2. IInv /\ [Next]_vars
        => [pc = "idle" /\ Irreparable /\ faults' = faults
              => pc' = "idle" /\ Irreparable']_vars
  BY <1>1
<1> QED
  BY <1>2, Invariance, PTL DEF Spec

(* No reconcile and no provider undoes progress: a child that exists, its   *)
(* readiness and a reported status go only with a fault.                    *)
THEOREM NothingUndone ==
  Spec => [][faults' = faults =>
               /\ blank' \subseteq blank
               /\ \A k \in Child : /\ mr[k].exists => mr'[k].exists
                                   /\ mr[k].ok => mr'[k].ok]_vars
<1>1. ASSUME IInv, Next, faults' = faults
      PROVE  /\ blank' \subseteq blank
             /\ \A k \in Child : /\ mr[k].exists => mr'[k].exists
                                 /\ mr[k].ok => mr'[k].ok
  <2>t. mr \in [Child -> ManagedResource]
    BY <1>1 DEF IInv, TypeOK, ManagedResource
  <2>1. CASE Turn
    BY <2>1 DEF Turn, cluster
  <2>2. CASE Apply
    <3>1. Doomed = {}
      BY <1>1, <2>2 DEF Apply, Doomed, IInv, PlanKeeps
    <3>2. /\ blank' = blank
          /\ mr' = [k \in Child |-> IF k \in plan.desired
                                    THEN [mr[k] EXCEPT !.exists = TRUE]
                                    ELSE mr[k]]
      BY <2>2, <3>1 DEF Apply, ApplyTo
    <3> QED
      BY <2>t, <3>2 DEF ManagedResource
  <2>3. ~Interrupt /\ \A k : ~LoseStatus(k) /\ ~Disappear(k)
    BY <1>1 DEF Interrupt, LoseStatus, Disappear, IInv, TypeOK
  <2>4. ASSUME NEW k \in Child, Materialise(k)
        PROVE  /\ blank' \subseteq blank
               /\ \A j \in Child : /\ mr[j].exists => mr'[j].exists
                                   /\ mr[j].ok => mr'[j].ok
    BY <2>4, <2>t DEF Materialise, ManagedResource
  <2>5. ASSUME NEW k \in Child, RecoverStatus(k)
        PROVE  /\ blank' \subseteq blank
               /\ \A j \in Child : /\ mr[j].exists => mr'[j].exists
                                   /\ mr[j].ok => mr'[j].ok
    BY <2>5 DEF RecoverStatus
  <2> QED
    BY <1>1, <2>1, <2>2, <2>3, <2>4, <2>5 DEF Next, Providers
<1>2. IInv /\ [Next]_vars
        => [faults' = faults =>
              /\ blank' \subseteq blank
              /\ \A k \in Child : /\ mr[k].exists => mr'[k].exists
                                  /\ mr[k].ok => mr'[k].ok]_vars
  BY <1>1
<1> QED
  BY <1>2, Invariance, PTL DEF Spec
=============================================================================
