-------------------------- MODULE AccessClaim_proofs --------------------------
(***************************************************************************)
(* Proofs about a claim behind the gate of its stack, for any leaves and   *)
(* any number of edits and faults, and for every stack that keeps          *)
(* StackContract: type correctness, that children come after credentials   *)
(* and consent, that the gate withdraws nothing, and that Grafana is given *)
(* one object for each child; then when a claim is refused and where it    *)
(* can come to rest.                                                       *)
(*                                                                         *)
(* A plan is made from one state and applied in another, in which the      *)
(* stack may be closed or gone.  The parts of IInv say what stays true of  *)
(* a plan meanwhile.                                                       *)
(***************************************************************************)
EXTENDS AccessClaim, TLAPS

USE BoundsAssumption, LeavesAssumption DEF Root

ManagedResource == [exists : BOOLEAN, ok : BOOLEAN]
Plans == [desired : SUBSET Child, asked : BOOLEAN, ready : BOOLEAN]

(* Leaves that exist, or will when the plan is applied.                     *)
Coming(k) == mr[k].exists \/ k \in plan.desired

Shaped ==
  /\ \A k \in Child : mr[k].ok => mr[k].exists
  /\ pc = "idle" => plan = NoPlan

(* What exists is referred to, so that a reconcile observes it.             *)
Referenced == \A k \in Child : mr[k].exists => k \in refs

(* The contract, as the gate and the plans made behind it rely on it.       *)
Contracted ==
  /\ admits => requested /\ credentials
  /\ requested /\ plan.desired # {} => credentials

(* A root is made before its leaves and never planned away.                 *)
Rooted ==
  /\ \A k \in Leaves : Coming(k) => mr[Root].exists /\ mr[Root].ok
  /\ plan.desired # {} => Root \in plan.desired
  /\ pc = "apply" /\ mr[Root].exists => Root \in plan.desired

(* What a plan leaves out is over, or was left out for an empty status.     *)
Excused == over \cup IF lost /\ kind \notin Preserving THEN Leaves ELSE {}
DropsOnly ==
  /\ Leaves \ declared \subseteq over
  /\ blank => lost
  /\ pc = "apply" => Doomed \subseteq Excused

(* Until an acceptance is withdrawn, Grafana only ever learns of it.        *)
FirstAcceptance ==
  kind = Assistant /\ over # Leaves =>
    /\ asked => accepted
    /\ granted => asked
    /\ plan.asked => accepted
    /\ pc = "apply" /\ asked => plan.asked
    /\ \A k \in Leaves : Coming(k) => granted

(* Without faults a leaf is applied together with the question.             *)
Undisturbed ==
  kind = Assistant /\ faults = 0 =>
    \A k \in Leaves : /\ mr[k].exists => asked
                      /\ k \in plan.desired => plan.asked

(* Objects are counted from the first.                                      *)
Counted ==
  \A k \in Child :
    /\ k \notin withdrawn => copies[k] = (IF mr[k].ok THEN 1 ELSE 0)
    /\ kind \in Named /\ k \in Leaves => copies[k] <= 1

IInv ==
  /\ TypeOK /\ CredentialsBehind /\ KeptUnlessOver
  /\ Shaped /\ Referenced /\ Contracted /\ Rooted /\ DropsOnly
  /\ FirstAcceptance /\ Undisturbed /\ Counted

-----------------------------------------------------------------------------
LEMMA Records ==
  /\ AbsentMR \in ManagedResource /\ ~AbsentMR.exists /\ ~AbsentMR.ok
  /\ NoPlan \in Plans /\ NoPlan.desired = {} /\ NoPlan.asked = FALSE
  /\ Child = {Root} \cup Leaves /\ Root \notin Leaves
  BY DEF AbsentMR, ManagedResource, NoPlan, Plans, Child

LEMMA Types ==
  ASSUME TypeOK
  PROVE  /\ plan \in Plans /\ mr \in [Child -> ManagedResource]
         /\ plan.desired \subseteq Child /\ declared \subseteq Leaves
         /\ over \subseteq Leaves /\ withdrawn \subseteq Leaves
  BY DEF TypeOK, Plans, ManagedResource

-----------------------------------------------------------------------------
(* A turn.                                                                  *)

(* A turn that is not Fatal leaves out only what is over, or what an empty  *)
(* status hides.                                                            *)
LEMMA TurnDrops == IInv /\ ~Held => Observed \ Gated \subseteq Excused
<1> SUFFICES ASSUME IInv, ~Held, NEW k \in Observed, k \notin Gated, k \notin over
             PROVE  lost /\ kind \notin Preserving /\ k \in Leaves
  BY DEF Excused
<1>1. k \in Child /\ mr[k].exists /\ k \notin Rendered
  BY Types DEF IInv, TypeOK, Observed, Gated
<1>2. k \in Leaves /\ k # Root
  BY <1>1, Records DEF Rendered
<1>3. k \in declared
  BY <1>2 DEF IInv, DropsOnly
<1>4. ~(accepted /\ Known)
  BY <1>1, <1>3 DEF Rendered
<1>5. Root \in Observed /\ mr[Root].ok
  BY <1>1, <1>2, Records DEF IInv, Rooted, Coming, Referenced, Observed
<1>6. kind = Assistant => granted /\ asked /\ accepted
  BY <1>1, <1>2, Types DEF IInv, FirstAcceptance, Coming
<1>7. accepted
  BY <1>6 DEF IInv, TypeOK
<1>8. ~Known
  BY <1>4, <1>7
<1>9. blank
  BY <1>5, <1>6, <1>8 DEF Known, KnownByClaim
<1>10. kind \notin Preserving
  BY <1>3, <1>8 DEF Held
<1> QED
  BY <1>2, <1>9, <1>10 DEF IInv, DropsOnly

LEMMA TurnKeeps == IInv /\ Turn => IInv'
<1> SUFFICES ASSUME IInv, Turn PROVE IInv'
  OBVIOUS
<1>1. /\ UNCHANGED <<requested, credentials, admits, kind, declared, accepted, over>>
      /\ UNCHANGED <<edits, mr, asked, blank, refs, withdrawn, granted, copies>>
      /\ UNCHANGED <<ready, lost, faults>>
      /\ pc = "idle" /\ pc' = "apply" /\ ~Held
      /\ plan' = [desired |-> Gated, asked |-> accepted, ready |-> Reported]
  BY DEF Turn, stack, claim, cluster, grafana
<1>2. Gated \subseteq Child /\ Reported \in BOOLEAN
  BY Types DEF IInv, Gated, Rendered, Reported, Child
<1>3. plan' \in Plans /\ plan'.desired = Gated /\ plan'.asked = accepted
  BY <1>1, <1>2 DEF Plans, IInv, TypeOK
<1>4. TypeOK'
  BY <1>1, <1>3 DEF IInv, TypeOK, Plans
<1>5. \A k \in Gated \cap Leaves : Root \in Observed /\ mr[Root].ok /\ accepted
        /\ (kind = Assistant => granted)
  BY Records DEF Gated, Rendered, Known, KnownByClaim
<1>6. Contracted'
  <2>1. ~admits => \A k \in Gated : k \in Child /\ mr[k].exists
    BY <1>2 DEF Gated, Observed
  <2> QED
    BY <1>1, <1>3, <2>1 DEF IInv, Contracted, CredentialsBehind
<1>7. Rooted'
  <2>1. \A k \in Leaves : Coming(k)' => mr[Root].exists /\ mr[Root].ok
    BY <1>1, <1>3, <1>5 DEF IInv, Rooted, Coming, Observed
  <2>2. Root \in Observed \/ admits => Root \in Gated
    BY DEF Gated, Rendered
  <2>3. \A k \in Gated : admits \/ k \in Observed
    BY DEF Gated
  <2>4. Gated # {} => Root \in Gated
    BY <1>2, <1>5, <2>2, <2>3, Records
  <2>5. mr[Root].exists => Root \in Gated
    BY <2>2, Records DEF IInv, Referenced, Observed
  <2> QED
    BY <1>1, <1>3, <2>1, <2>4, <2>5 DEF Rooted
<1>8. DropsOnly'
  <2>1. Doomed' = Observed \ Gated /\ Excused' = Excused
    BY <1>1, <1>3 DEF Doomed, Observed, Excused
  <2> QED
    BY <1>1, <2>1, TurnDrops DEF IInv, DropsOnly
<1>9. FirstAcceptance'
  BY <1>1, <1>3, <1>5 DEF IInv, FirstAcceptance, Coming
<1>10. Undisturbed'
  BY <1>1, <1>3, <1>5 DEF IInv, Undisturbed
<1>11. /\ Shaped' /\ Referenced' /\ Counted' /\ CredentialsBehind'
       /\ KeptUnlessOver'
  BY <1>1 DEF IInv, Shaped, Referenced, Counted, CredentialsBehind,
              KeptUnlessOver
<1> QED
  BY <1>4, <1>6, <1>7, <1>8, <1>9, <1>10, <1>11 DEF IInv

-----------------------------------------------------------------------------
(* Applying a plan, or a part of it.                                        *)

LEMMA ApplyEffect ==
  ASSUME IInv, NEW S, S \subseteq plan.desired, pc = "apply", ApplyTo(S)
  PROVE  /\ mr' \in [Child -> ManagedResource]
         /\ \A k \in Child :
              /\ mr'[k].exists => k \in plan.desired
              /\ mr[k].exists /\ k \in plan.desired => mr'[k].exists
              /\ k \in plan.desired => mr'[k].ok = mr[k].ok
              /\ mr'[k].ok => mr'[k].exists
              /\ mr'[k].ok # mr[k].ok => k \in withdrawn'
         /\ asked' \in {asked, plan.asked} /\ (Root \in S => asked' = plan.asked)
         /\ refs' = plan.desired /\ withdrawn' = withdrawn \cup Doomed
         /\ blank' = blank
<1> DEFINE Effect(k) == IF k \in S THEN [mr[k] EXCEPT !.exists = TRUE]
                        ELSE IF k \in Doomed THEN AbsentMR ELSE mr[k]
<1>1. mr' = [k \in Child |-> Effect(k)]
  BY DEF ApplyTo
<1>2. S \subseteq Child /\ mr \in [Child -> ManagedResource]
  BY Types DEF IInv
<1>3. \A k \in Child : Effect(k) \in ManagedResource
  BY <1>2, Records DEF ManagedResource
<1>4. mr' \in [Child -> ManagedResource]
  BY <1>1, <1>3
<1>5. ASSUME NEW k \in Child
      PROVE  /\ mr'[k].exists => k \in plan.desired
             /\ mr[k].exists /\ k \in plan.desired => mr'[k].exists
             /\ k \in plan.desired => mr'[k].ok = mr[k].ok
             /\ mr'[k].ok => mr'[k].exists
             /\ mr'[k].ok # mr[k].ok => k \in Doomed
  <2>1. mr[k] \in ManagedResource /\ (mr[k].exists => k \in refs)
        /\ (mr[k].ok => mr[k].exists)
    BY <1>2 DEF IInv, Referenced, Shaped
  <2>2. k \in Doomed <=> k \in refs /\ mr[k].exists /\ k \notin plan.desired
    BY DEF Doomed, Observed
  <2>3. CASE k \in S
    BY <1>1, <1>2, <2>1, <2>2, <2>3 DEF ManagedResource
  <2>4. CASE k \notin S
    BY <1>1, <2>1, <2>2, <2>4, Records
  <2> QED
    BY <2>3, <2>4
<1> QED
  BY <1>4, <1>5 DEF ApplyTo

LEMMA ApplyToKeeps ==
  ASSUME IInv, pc = "apply", NEW S, S \subseteq plan.desired, ApplyTo(S),
         Return, faults' \in 0..MaxFaults, ready' \in BOOLEAN,
         S # plan.desired => faults' # 0,
         faults' # faults => faults' # 0
  PROVE  IInv'
<1>1. /\ UNCHANGED <<requested, credentials, admits, kind, declared, accepted, over>>
      /\ UNCHANGED <<edits, granted, copies, lost>>
      /\ pc' = "idle" /\ plan' = NoPlan
  BY DEF Return, stack, claim, grafana
<1>2. plan'.desired = {} /\ plan'.asked = FALSE /\ plan' \in Plans
  BY <1>1, Records
<1>3. plan \in Plans /\ plan.desired \subseteq Child
  BY Types DEF IInv
<1>4. Doomed \subseteq Leaves
  BY Types, Records DEF IInv, Doomed, Observed, Rooted, TypeOK
<1>5. TypeOK'
  BY <1>1, <1>2, <1>3, <1>4, ApplyEffect DEF IInv, TypeOK, Plans, ManagedResource
<1>6. CredentialsBehind'
  BY <1>1, ApplyEffect DEF IInv, Contracted, CredentialsBehind
<1>7. KeptUnlessOver'
  BY <1>1, ApplyEffect DEF IInv, DropsOnly, Excused, KeptUnlessOver
<1>8. Shaped' /\ Referenced'
  BY <1>1, ApplyEffect DEF Shaped, Referenced
<1>9. Contracted'
  BY <1>1, <1>2 DEF IInv, Contracted
<1>10. Rooted'
  <2>1. ASSUME NEW k \in Leaves, mr'[k].exists
        PROVE  mr'[Root].exists /\ mr'[Root].ok
    <3>1. k \in Child /\ Root \in Child /\ k \in plan.desired
      BY <2>1, ApplyEffect, Records
    <3>2. mr[Root].exists /\ mr[Root].ok /\ Root \in plan.desired
      BY <3>1 DEF IInv, Rooted, Coming
    <3> QED
      BY <3>1, <3>2, ApplyEffect
  <2> QED
    BY <1>1, <1>2, <2>1 DEF Rooted, Coming
<1>11. DropsOnly'
  BY <1>1, ApplyEffect DEF IInv, DropsOnly
<1>12. FirstAcceptance'
  BY <1>1, <1>2, ApplyEffect, Records DEF IInv, FirstAcceptance, Coming
<1>13. Undisturbed'
  <2> SUFFICES ASSUME kind = Assistant, faults' = 0, NEW k \in Leaves,
                      mr'[k].exists
               PROVE  asked'
    BY <1>1, <1>2 DEF Undisturbed
  <2>1. k \in plan.desired /\ Root \in S /\ faults = 0
    BY ApplyEffect, Records DEF IInv, Rooted
  <2> QED
    BY <2>1, ApplyEffect DEF IInv, Undisturbed
<1>14. Counted'
  <2> SUFFICES ASSUME NEW k \in Child
               PROVE  /\ k \notin withdrawn' =>
                           copies[k] = (IF mr'[k].ok THEN 1 ELSE 0)
                      /\ kind \in Named /\ k \in Leaves => copies[k] <= 1
    BY <1>1 DEF Counted
  <2> QED
    BY ApplyEffect DEF IInv, Counted
<1> QED
  BY <1>5, <1>6, <1>7, <1>8, <1>9, <1>10, <1>11, <1>12, <1>13, <1>14 DEF IInv

(* A reconcile that ends before it began to apply.                          *)
LEMMA AbandonKeeps ==
  ASSUME IInv, Return, UNCHANGED cluster, UNCHANGED ready,
         faults' \in 1..MaxFaults
  PROVE  IInv'
<1>1. /\ UNCHANGED <<requested, credentials, admits, kind, declared, accepted, over>>
      /\ UNCHANGED <<edits, mr, asked, blank, refs, withdrawn, granted, copies>>
      /\ UNCHANGED <<ready, lost>>
      /\ pc' = "idle" /\ plan' = NoPlan
  BY DEF Return, stack, claim, cluster, grafana
<1>2. plan'.desired = {} /\ plan'.asked = FALSE /\ plan' \in Plans
  BY <1>1, Records
<1>3. TypeOK'
  BY <1>1, <1>2 DEF IInv, TypeOK, Plans
<1>4. Rooted' /\ DropsOnly' /\ FirstAcceptance' /\ Undisturbed'
  BY <1>1, <1>2 DEF IInv, Rooted, DropsOnly, FirstAcceptance, Undisturbed, Coming
<1>5. /\ CredentialsBehind' /\ KeptUnlessOver' /\ Shaped' /\ Referenced'
      /\ Contracted' /\ Counted'
  BY <1>1, <1>2 DEF IInv, CredentialsBehind, KeptUnlessOver, Shaped, Referenced,
                    Contracted, Counted
<1> QED
  BY <1>3, <1>4, <1>5 DEF IInv

LEMMA ReconcileKeeps == IInv /\ (Apply \/ Interrupt) => IInv'
<1>1. ASSUME IInv, Apply PROVE IInv'
  BY <1>1, ApplyToKeeps, Types DEF Apply, IInv, TypeOK
<1>2. ASSUME IInv, Interrupt PROVE IInv'
  <2>1. pc = "apply" /\ Return /\ ready' = ready
        /\ faults' \in 1..MaxFaults /\ faults' # faults
    BY <1>2 DEF Interrupt, IInv, TypeOK
  <2>2. CASE UNCHANGED cluster
    BY <1>2, <2>1, <2>2, AbandonKeeps
  <2>3. ASSUME NEW S \in SUBSET plan.desired, ApplyTo(plan.desired \ S)
        PROVE  IInv'
    <3>1. ready' \in BOOLEAN /\ faults' \in 0..MaxFaults /\ faults' # 0
      BY <1>2, <2>1 DEF IInv, TypeOK
    <3> QED
      BY <1>2, <2>1, <2>3, <3>1, ApplyToKeeps
  <2> QED
    BY <1>2, <2>2, <2>3 DEF Interrupt
<1> QED
  BY <1>1, <1>2

-----------------------------------------------------------------------------
(* The owner, the provider and the stack.                                   *)

LEMMA EditsKeep == IInv /\ (Redeclare \/ Accept) => IInv'
<1> SUFFICES ASSUME IInv, Redeclare \/ Accept PROVE IInv'
  OBVIOUS
<1>1. /\ UNCHANGED <<requested, credentials, admits, kind>>
      /\ UNCHANGED <<mr, asked, blank, refs, withdrawn, granted, copies>>
      /\ UNCHANGED <<pc, plan, ready, lost, faults>>
      /\ edits < MaxEdits /\ edits' = edits + 1
  BY DEF Redeclare, Accept, stack, cluster, grafana, reconcile
<1>2. /\ declared' \subseteq Leaves /\ over' \subseteq Leaves
      /\ over \subseteq over' /\ Leaves \ declared' \subseteq over'
      /\ accepted' \in BOOLEAN /\ (kind # Assistant => accepted')
      /\ accepted' # accepted => accepted' \/ over' = Leaves
  <2>1. CASE Redeclare
    BY <2>1, Types DEF IInv, TypeOK, DropsOnly, Redeclare
  <2>2. CASE Accept
    BY <2>2, Types DEF IInv, TypeOK, DropsOnly, Accept
  <2> QED
    BY <2>1, <2>2
<1>3. TypeOK'
  BY <1>1, <1>2 DEF IInv, TypeOK
<1>4. KeptUnlessOver'
  BY <1>1, <1>2 DEF IInv, KeptUnlessOver
<1>5. DropsOnly'
  BY <1>1, <1>2 DEF IInv, DropsOnly, Doomed, Observed, Excused
<1>6. FirstAcceptance'
  <2>1. kind = Assistant /\ over' # Leaves => over # Leaves
    BY <1>2
  <2>2. over' # Leaves => (accepted => accepted')
    BY <1>2
  <2> QED
    BY <1>1, <2>1, <2>2 DEF IInv, FirstAcceptance, Coming
<1>7. /\ CredentialsBehind' /\ Shaped' /\ Referenced' /\ Contracted' /\ Rooted'
      /\ Undisturbed' /\ Counted'
  BY <1>1 DEF IInv, CredentialsBehind, Shaped, Referenced, Contracted, Rooted,
              Coming, Undisturbed, Counted
<1> QED
  BY <1>3, <1>4, <1>5, <1>6, <1>7 DEF IInv

LEMMA MaterialiseKeeps ==
  ASSUME IInv, NEW k \in Child, Materialise(k)
  PROVE  IInv'
<1>1. /\ UNCHANGED <<requested, credentials, admits, kind, declared, accepted, over>>
      /\ UNCHANGED <<edits, asked, blank, refs, withdrawn>>
      /\ UNCHANGED <<pc, plan, ready, lost, faults>>
      /\ mr[k].exists /\ ~mr[k].ok /\ mr' = [mr EXCEPT ![k].ok = TRUE]
      /\ copies' = IF Adopts(k) THEN copies ELSE [copies EXCEPT ![k] = @ + 1]
      /\ granted' = IF k = Root THEN asked ELSE granted
  BY DEF Materialise, stack, claim, reconcile
<1>2. /\ mr' \in [Child -> ManagedResource]
      /\ \A j \in Child : /\ mr'[j].exists = mr[j].exists
                          /\ mr'[j].ok = (j = k \/ mr[j].ok)
  BY <1>1, Types DEF IInv, ManagedResource
<1>3. copies \in [Child -> Nat] /\ copies' \in [Child -> Nat]
      /\ granted' \in BOOLEAN
  BY <1>1 DEF IInv, TypeOK
<1>4. TypeOK'
  BY <1>1, <1>2, <1>3 DEF IInv, TypeOK, ManagedResource
<1>5. Rooted' /\ DropsOnly' /\ Undisturbed'
  BY <1>1, <1>2, Records DEF IInv, Rooted, Coming, DropsOnly, Doomed, Observed,
                             Excused, Undisturbed
<1>6. FirstAcceptance'
  BY <1>1, <1>2, Records DEF IInv, FirstAcceptance, Coming
<1>7. Counted'
  <2> SUFFICES ASSUME NEW j \in Child
               PROVE  /\ j \notin withdrawn =>
                           copies'[j] = (IF mr'[j].ok THEN 1 ELSE 0)
                      /\ kind \in Named /\ j \in Leaves => copies'[j] <= 1
    BY <1>1 DEF Counted
  <2>1. CASE j # k
    BY <1>1, <1>2, <1>3, <2>1 DEF IInv, Counted
  <2>2. CASE j = k
    BY <1>1, <1>2, <1>3, <2>2 DEF IInv, Counted, Adopts
  <2> QED
    BY <2>1, <2>2
<1>8. /\ CredentialsBehind' /\ KeptUnlessOver' /\ Shaped' /\ Referenced'
      /\ Contracted'
  BY <1>1, <1>2 DEF IInv, CredentialsBehind, KeptUnlessOver, Shaped, Referenced,
                    Contracted
<1> QED
  BY <1>4, <1>5, <1>6, <1>7, <1>8 DEF IInv

LEMMA StatusKeeps == IInv /\ (SyncTerms \/ LoseStatus \/ RecoverStatus) => IInv'
<1> SUFFICES ASSUME IInv, SyncTerms \/ LoseStatus \/ RecoverStatus PROVE IInv'
  OBVIOUS
<1>1. /\ UNCHANGED <<requested, credentials, admits, kind, declared, accepted, over>>
      /\ UNCHANGED <<edits, mr, asked, refs, withdrawn, copies, pc, plan, ready>>
  BY DEF SyncTerms, LoseStatus, RecoverStatus, stack, claim, cluster, grafana,
         reconcile
<1>2. /\ granted' \in {granted, asked} /\ blank' \in BOOLEAN /\ lost' \in BOOLEAN
      /\ faults' \in 0..MaxFaults /\ (faults' = 0 => faults = 0)
      /\ (blank' => lost') /\ (lost => lost')
  <2>1. CASE SyncTerms
    BY <2>1 DEF IInv, TypeOK, DropsOnly, SyncTerms, cluster
  <2>2. CASE LoseStatus
    BY <2>2 DEF IInv, TypeOK, LoseStatus, grafana
  <2>3. CASE RecoverStatus
    BY <2>3 DEF IInv, TypeOK, RecoverStatus, grafana
  <2> QED
    BY <2>1, <2>2, <2>3
<1>3. TypeOK'
  BY <1>1, <1>2 DEF IInv, TypeOK
<1>4. KeptUnlessOver' /\ DropsOnly'
  BY <1>1, <1>2 DEF IInv, KeptUnlessOver, DropsOnly, Doomed, Observed, Excused
<1>5. FirstAcceptance' /\ Undisturbed'
  BY <1>1, <1>2 DEF IInv, FirstAcceptance, Undisturbed, Coming
<1>6. /\ CredentialsBehind' /\ Shaped' /\ Referenced' /\ Contracted' /\ Rooted'
      /\ Counted'
  BY <1>1 DEF IInv, CredentialsBehind, Shaped, Referenced, Contracted, Rooted,
              Coming, Counted
<1> QED
  BY <1>3, <1>4, <1>5, <1>6 DEF IInv

(* What the contract allows a stack to do.                                  *)
LEMMA StackStepKeeps == IInv /\ StackStep => IInv'
<1> SUFFICES ASSUME IInv, StackStep PROVE IInv'
  OBVIOUS
<1>1. /\ UNCHANGED <<kind, declared, accepted, over, edits>>
      /\ UNCHANGED <<mr, asked, blank, refs, withdrawn, granted, copies>>
      /\ UNCHANGED <<pc, plan, ready, lost, faults>>
  BY DEF StackStep, claim, cluster, grafana, reconcile
<1>2. /\ requested' \in BOOLEAN /\ credentials' \in BOOLEAN /\ admits' \in BOOLEAN
      /\ admits' => requested' /\ credentials'
      /\ requested' => requested /\ (credentials => credentials')
  <2>1. /\ requested \in BOOLEAN /\ credentials \in BOOLEAN /\ admits \in BOOLEAN
        /\ admits => requested /\ credentials
    BY DEF IInv, TypeOK, Contracted
  <2>2. CASE Stack!Issue \/ Stack!Admit
    BY <2>1, <2>2 DEF Stack!Issue, Stack!Admit
  <2>3. CASE Stack!Close
    BY <2>1, <2>3 DEF Stack!Close
  <2>4. CASE Stack!Remove
    BY <2>1, <2>4 DEF Stack!Remove
  <2>5. CASE Stack!Dismantle
    BY <2>1, <2>5 DEF Stack!Dismantle
  <2> QED
    BY <2>2, <2>3, <2>4, <2>5 DEF StackStep, Stack!Next
<1>3. TypeOK'
  BY <1>1, <1>2 DEF IInv, TypeOK
<1>4. CredentialsBehind' /\ Contracted'
  BY <1>1, <1>2 DEF IInv, CredentialsBehind, Contracted
<1>5. /\ KeptUnlessOver' /\ Shaped' /\ Referenced' /\ Rooted' /\ DropsOnly'
      /\ FirstAcceptance' /\ Undisturbed' /\ Counted'
  BY <1>1 DEF IInv, KeptUnlessOver, Shaped, Referenced, Rooted, Coming, DropsOnly,
              Doomed, Observed, Excused, FirstAcceptance, Undisturbed, Counted
<1> QED
  BY <1>3, <1>4, <1>5 DEF IInv

LEMMA StutterKeeps == IInv /\ UNCHANGED vars => IInv'
<1> SUFFICES ASSUME IInv, UNCHANGED vars PROVE IInv'
  OBVIOUS
<1>1. /\ UNCHANGED <<requested, credentials, admits, kind, declared, accepted, over>>
      /\ UNCHANGED <<edits, mr, asked, blank, refs, withdrawn, granted, copies>>
      /\ UNCHANGED <<pc, plan, ready, lost, faults>>
  BY DEF vars, stack, claim, cluster, grafana, reconcile
<1> QED
  BY <1>1 DEF IInv, TypeOK, CredentialsBehind, KeptUnlessOver, Shaped, Referenced,
              Contracted, Rooted, Coming, DropsOnly, Doomed, Observed, Excused,
              FirstAcceptance, Undisturbed, Counted

LEMMA InvariantStep == IInv /\ [Next]_vars => IInv'
  BY TurnKeeps, ReconcileKeeps, EditsKeep, MaterialiseKeeps, StatusKeeps,
     StackStepKeeps, StutterKeeps DEF Next, Providers

LEMMA InitialInvariant == Init => IInv
<1> SUFFICES ASSUME Init PROVE IInv
  OBVIOUS
<1>1. TypeOK
  <2>1. mr \in [Child -> ManagedResource] /\ copies \in [Child -> Nat]
    BY Records DEF Init
  <2>2. plan \in Plans
    BY Records DEF Init
  <2>3. accepted \in BOOLEAN /\ (kind # Assistant => accepted)
    BY DEF Init
  <2>4. edits \in 0..MaxEdits /\ faults \in 0..MaxFaults
    BY DEF Init
  <2> QED
    BY <2>1, <2>2, <2>3, <2>4 DEF Init, TypeOK, Stack!Init, ManagedResource, Plans
<1>2. \A k \in Child : ~mr[k].exists /\ ~mr[k].ok /\ copies[k] = 0
  BY Records DEF Init
<1>3. plan.desired = {} /\ plan.asked = FALSE
  BY Records DEF Init
<1>4. Rooted /\ DropsOnly /\ FirstAcceptance /\ Undisturbed
  BY <1>2, <1>3, Records DEF Init, Rooted, Coming, DropsOnly, FirstAcceptance,
                             Undisturbed
<1>5. /\ CredentialsBehind /\ KeptUnlessOver /\ Shaped /\ Referenced
      /\ Contracted /\ Counted
  BY <1>2, <1>3 DEF Init, Stack!Init, CredentialsBehind, KeptUnlessOver, Shaped,
                    Referenced, Contracted, Counted
<1> QED
  BY <1>1, <1>4, <1>5 DEF IInv

-----------------------------------------------------------------------------
(* The invariant holds in every state of a claim and its stack.             *)
THEOREM Invariance == Spec => []IInv
  BY InitialInvariant, InvariantStep, PTL DEF Spec

(* For any leaves, edits and faults the claim, its children and its plan    *)
(* keep their types, and only leaves are ever withdrawn.                    *)
THEOREM TypeCorrect == Spec => []TypeOK
<1>1. IInv => TypeOK
  BY DEF IInv
<1> QED
  BY <1>1, Invariance, PTL

(* admitStaged reads a status that lags behind its stack, and still no      *)
(* child is ever created on a stack without credentials.                    *)
THEOREM Behind == Spec => []CredentialsBehind
<1>1. IInv => CredentialsBehind
  BY DEF IInv
<1> QED
  BY <1>1, Invariance, PTL

(* No closed gate and no interrupted apply withdraws a leaf: the team asked *)
(* for it, or a kind without preservation met an empty status of its root.  *)
THEOREM Kept == Spec => []KeptUnlessOver
<1>1. IInv => KeptUnlessOver
  BY DEF IInv
<1> QED
  BY <1>1, Invariance, PTL

(* Leaves exist behind their root, and the assistant's behind an acceptance *)
(* that Grafana has or is being told of.                                    *)
THEOREM Consented == Spec => []ConsentBehind
<1>1. IInv => ConsentBehind
  <2> SUFFICES ASSUME IInv, NEW k \in Leaves, mr[k].exists
               PROVE  /\ mr[Root].exists /\ mr[Root].ok
                      /\ kind = Assistant =>
                           granted \/ asked \/ (over = Leaves /\ faults > 0)
    BY DEF ConsentBehind
  <2>1. mr[Root].exists /\ mr[Root].ok
    BY DEF IInv, Rooted, Coming
  <2>2. kind = Assistant /\ over # Leaves => granted
    BY DEF IInv, FirstAcceptance, Coming
  <2>3. kind = Assistant /\ faults = 0 => asked
    BY DEF IInv, Undisturbed
  <2>4. faults = 0 \/ faults > 0
    BY DEF IInv, TypeOK
  <2> QED
    BY <2>1, <2>2, <2>3, <2>4
<1> QED
  BY <1>1, Invariance, PTL

(* Whatever is lost, interrupted or closed, Grafana is given one object for *)
(* each child, but for a leaf without a name that was withdrawn in between. *)
THEOREM Single == Spec => []OneCopy
<1>1. IInv => OneCopy
  <2> SUFFICES ASSUME IInv, NEW k \in Child, copies[k] > 1
               PROVE  k \in withdrawn /\ k \in Leaves /\ kind \notin Named
    BY DEF OneCopy
  <2>1. k \in withdrawn
    BY DEF IInv, Counted
  <2>2. k \in Leaves
    BY <2>1, Types DEF IInv
  <2>3. kind \notin Named
    BY <2>2 DEF IInv, Counted, TypeOK
  <2> QED
    BY <2>1, <2>2, <2>3
<1> QED
  BY <1>1, Invariance, PTL

-----------------------------------------------------------------------------
(* No standstill: when nothing is left to do, a claim on an open stack is   *)
(* fulfilled, and one on a closed stack keeps what it has and says so.      *)

(* Nobody but Crossplane has anything to do: no status is missing, and      *)
(* where the stack's credentials are there, the provider has created the    *)
(* children and told Grafana of the terms.                                  *)
Resting ==
  /\ pc = "idle" /\ ~blank
  /\ credentials =>
       /\ \A k \in Child : mr[k].exists => mr[k].ok
       /\ mr[Root].ok => granted = asked

(* A turn would leave everything as it is.                                  *)
UpToDate ==
  /\ refs = Gated /\ Observed = Gated
  /\ Root \in Gated => asked = accepted
  /\ ready = Reported

(* Somebody has something to do that changes something.                     *)
Work == ~Resting \/ (~Held /\ ~UpToDate)

(* Nothing is left that the claim does not ask for.                         *)
Swept == \A k \in Withdrawable : ~mr[k].exists

(* A kind that is refused as soon as its stack is not resolved.             *)
Preserved == kind \in Preserving /\ Observed # {}

LEMMA AtRest ==
  ASSUME IInv, Resting, admits
  PROVE  /\ \A k \in Observed : mr[k].exists /\ mr[k].ok
         /\ Root \in Observed /\ (accepted => asked) => (accepted => Known)
<1>1. credentials
  BY DEF IInv, Contracted
<1>2. \A k \in Observed : mr[k].exists /\ mr[k].ok
  BY <1>1, Types DEF IInv, TypeOK, Observed, Resting
<1>3. Root \in Observed => granted = asked
  BY <1>1, <1>2 DEF Resting
<1> QED
  BY <1>2, <1>3 DEF Known, KnownByClaim, Resting

LEMMA HeldAtRest ==
  IInv /\ Resting => (Held <=> Preserved /\ ~admits)
<1> SUFFICES ASSUME IInv, Resting, admits, kind \in Preserving, ~Known,
                    NEW k \in declared \cap Observed
             PROVE  FALSE
  BY DEF Held, Preserved
<1>1. k \in Leaves /\ mr[k].exists
  BY Types DEF IInv, Observed
<1>2. mr[Root].exists /\ Root \in Observed
  BY <1>1, Records DEF IInv, Rooted, Coming, Referenced, Observed
<1>3. kind # Assistant
  BY DEF Preserving, Assistant
<1>4. mr[Root].ok /\ ~blank
  BY <1>2, AtRest DEF Resting
<1> QED
  BY <1>2, <1>3, <1>4 DEF Known, KnownByClaim

(* At rest a turn is Fatal only for the two kinds that preserve what they   *)
(* have, and only while their stack is closed: a status without the root's  *)
(* ID holds a claim up no longer than it lasts.                             *)
THEOREM HeldOnlyClosed == Spec => [](Resting => (Held <=> Preserved /\ ~admits))
<1> QED
  BY HeldAtRest, Invariance, PTL

LEMMA StandstillOpen ==
  ASSUME IInv, ~Work, admits
  PROVE  Fulfilled /\ Swept
<1>1. Resting /\ UpToDate
  BY HeldAtRest DEF Work
<1>2. Gated = Rendered
  BY DEF Gated
<1>3. Root \in Rendered
  BY DEF Rendered
<1>4. Root \in Observed /\ asked = accepted
  BY <1>1, <1>2, <1>3 DEF UpToDate
<1>5. accepted => Known
  BY <1>1, <1>4, AtRest
<1>6. Rendered = {Root} \cup (IF accepted THEN declared ELSE {})
  BY <1>5 DEF Rendered
<1>7. \A k \in Rendered : k \in Observed /\ mr[k].exists /\ mr[k].ok
  BY <1>1, <1>2, AtRest DEF UpToDate
<1>8. ready
  BY <1>1, <1>2, <1>7 DEF UpToDate, Reported
<1>9. Swept
  <2> SUFFICES ASSUME NEW k \in Withdrawable, mr[k].exists PROVE FALSE
    BY DEF Swept
  <2>1. k \in Leaves /\ k \notin Rendered
    BY <1>6, Records DEF Withdrawable
  <2>2. k \in Observed
    BY <2>1, Records DEF IInv, Referenced, Observed
  <2> QED
    BY <1>1, <1>2, <2>1, <2>2 DEF UpToDate
<1> QED
  BY <1>6, <1>7, <1>8, <1>9 DEF Fulfilled

LEMMA StandstillClosed ==
  ASSUME IInv, ~Work, ~admits, ~Preserved
  PROVE  ~ready /\ Swept
<1>1. UpToDate
  BY HeldAtRest DEF Work
<1>2. ~ready
  BY <1>1 DEF UpToDate, Reported
<1>3. Swept
  <2> SUFFICES ASSUME NEW k \in Withdrawable, mr[k].exists PROVE FALSE
    BY DEF Swept
  <2>1. k \in Leaves /\ k \notin Rendered
    BY Records DEF Withdrawable, Rendered
  <2>2. k \in Observed
    BY <2>1, Records DEF IInv, Referenced, Observed
  <2> QED
    BY <1>1, <2>1, <2>2 DEF UpToDate, Gated
<1> QED
  BY <1>2, <1>3

(* Nothing ever comes to a standstill but a claim that is fulfilled on an   *)
(* open stack, one on a closed stack that is swept and not ready, or one    *)
(* that is refused there: the safety half of ClaimSettles.                  *)
THEOREM NeverAtAStandstill ==
  Spec => [](\/ Work
             \/ admits /\ Fulfilled /\ Swept
             \/ ~admits /\ ~ready /\ Swept
             \/ ~admits /\ Preserved)
<1>1. IInv => \/ Work
              \/ admits /\ Fulfilled /\ Swept
              \/ ~admits /\ ~ready /\ Swept
              \/ ~admits /\ Preserved
  BY StandstillOpen, StandstillClosed DEF IInv, TypeOK
<1> QED
  BY <1>1, Invariance, PTL

(* What is refused stays as it is until its stack opens: no turn begins, no *)
(* child comes or goes, and edits wait.                                     *)
THEOREM PreservedUntilOpened ==
  Spec => [][pc = "idle" /\ Preserved /\ ~admits /\ ~admits' =>
               /\ pc' = "idle" /\ Preserved'
               /\ \A k \in Child : mr'[k].exists <=> mr[k].exists]_vars
<1>1. IInv /\ [Next]_vars =>
        [pc = "idle" /\ Preserved /\ ~admits /\ ~admits' =>
           /\ pc' = "idle" /\ Preserved'
           /\ \A k \in Child : mr'[k].exists <=> mr[k].exists]_vars
  <2> SUFFICES ASSUME IInv, [Next]_vars, pc = "idle", Preserved, ~admits, ~admits'
               PROVE  /\ pc' = "idle" /\ Preserved'
                      /\ \A k \in Child : mr'[k].exists <=> mr[k].exists
    OBVIOUS
  <2>1. ASSUME UNCHANGED <<kind, refs, pc>>,
               \A k \in Child : mr'[k].exists <=> mr[k].exists
        PROVE  pc' = "idle" /\ Preserved'
    <3>1. refs \subseteq Child
      BY DEF IInv, TypeOK
    <3>2. Observed' = Observed
      BY <2>1, <3>1 DEF Observed
    <3> QED
      BY <2>1, <3>2 DEF Preserved
  <2>2. ~Turn
    BY DEF Turn, Held, Preserved
  <2>3. ~Apply /\ ~Interrupt
    BY DEF Apply, Interrupt
  <2>4. ASSUME NEW k \in Child, Materialise(k)
        PROVE  /\ UNCHANGED <<kind, refs, pc>>
               /\ \A j \in Child : mr'[j].exists <=> mr[j].exists
    BY <2>4, Types DEF Materialise, claim, reconcile, IInv, ManagedResource
  <2>5. CASE Redeclare \/ Accept \/ SyncTerms \/ LoseStatus \/ RecoverStatus
             \/ StackStep \/ UNCHANGED vars
    <3>1. UNCHANGED <<mr, kind, refs, pc>>
      BY <2>5 DEF Redeclare, Accept, SyncTerms, LoseStatus, RecoverStatus,
                  StackStep, vars, claim, cluster, reconcile
    <3> QED
      BY <2>1, <3>1
  <2> QED
    BY <2>1, <2>2, <2>3, <2>4, <2>5 DEF Next, Providers
<1> QED
  BY <1>1, Invariance, PTL DEF Spec
=============================================================================
