--------------------- MODULE SyntheticMonitoring_proofs ---------------------
(***************************************************************************)
(* Proofs about Synthetic Monitoring, for any checks, budget and costs and *)
(* any number of rotations, edits and faults: type correctness, that only  *)
(* what the team took out of the request is ever withdrawn, that a check   *)
(* is created only by a turn whose own token was verified, and that alerts *)
(* name an ID Grafana assigned; then what a turn refuses, where a request  *)
(* can come to rest, and that a late rotation and alerts without their     *)
(* check hold it until an edit.                                            *)
(***************************************************************************)
EXTENDS SyntheticMonitoring, TLAPS

USE BoundsAssumption

ManagedResource == [exists : BOOLEAN, ok : BOOLEAN, dying : BOOLEAN]
TokenNumbers == 0..(MaxRotations + 1)
Plans == [desired : SUBSET Child, token : TokenNumbers,
          cost : [Checks -> 0..MaxCost], target : [Checks -> Nat],
          status : BOOLEAN]

(* An installation that is reported has issued a token.                     *)
Issued == mr[Installation].ok => token > 0

(* What exists or is planned for the team is declared, or once was.         *)
Accounted ==
  \A k \in Authored : mr[k].exists \/ k \in plan.desired =>
    k \in Declared \cup dropped

(* A plan leaves out nothing but verifiers and what the team took out.      *)
DropsOnly ==
  pc = "apply" => Observed \ plan.desired \subseteq dropped \cup Verifiers

(* A verifier that is Ready was created in Grafana.                         *)
VerifierCreated == \A t \in Tokens : mr[Verifier(t)].ok => t \in verified

(* A plan with a check in it carries a token that was verified.             *)
PlanVerified ==
  (\E c \in Checks : Check(c) \in plan.desired) => plan.token \in verified

(* An ID that is reported was assigned.                                     *)
Assigned == \A c \in Checks : mr[Check(c)].ok => created[c] > 0

PlannedIDs ==
  \A c \in Checks : Alerts(c) \in plan.desired => plan.target[c] \in 1..created[c]

IInv ==
  /\ TypeOK /\ Issued /\ KeptUnlessDropped /\ AlertsNameIDs
  /\ Accounted /\ DropsOnly /\ VerifierCreated /\ PlanVerified
  /\ Assigned /\ PlannedIDs

-----------------------------------------------------------------------------
(* The names of children.                                                   *)

LEMMA Tags ==
  /\ Installation[1] = "installation" /\ Secret[1] = "derived-credential"
  /\ Publish[1] = "credential-publish" /\ ProviderConfig[1] = "provider-config"
  /\ \A t : Verifier(t)[1] = "verifier" /\ Verifier(t)[2] = t
  /\ \A c : Check(c)[1] = "check" /\ Check(c)[2] = c
  /\ \A c : Alerts(c)[1] = "check-alerts" /\ Alerts(c)[2] = c
  BY DEF Installation, Secret, Publish, ProviderConfig, Verifier, Check, Alerts

LEMMA Members ==
  /\ Installation \in Child /\ Secret \in Child /\ Wiring \subseteq Child
  /\ Verifiers \subseteq Child /\ Authored \subseteq Child
  /\ \A t \in Tokens : Verifier(t) \in Verifiers
  /\ \A c \in Checks : Check(c) \in Authored /\ Alerts(c) \in Authored
  BY DEF Child, Wiring, Verifiers, Authored

LEMMA Kinds ==
  /\ \A k \in Authored : k[1] \in {"check", "check-alerts"}
  /\ \A k \in Verifiers : k[1] = "verifier" /\ k[2] \in Tokens
  /\ \A k \in {Installation} \cup Wiring :
       k[1] \notin {"check", "check-alerts", "verifier"}
<1>1. \A k \in Authored : k[1] \in {"check", "check-alerts"}
  BY Tags DEF Authored
<1>2. \A k \in Verifiers : k[1] = "verifier" /\ k[2] \in Tokens
  BY Tags DEF Verifiers
<1>3. \A k \in {Installation} \cup Wiring :
        k[1] \notin {"check", "check-alerts", "verifier"}
  BY Tags DEF Wiring
<1> QED
  BY <1>1, <1>2, <1>3

LEMMA Disjoint == Authored \cap Verifiers = {} /\ Installation \notin Authored
                  /\ Installation \notin Verifiers
  BY Kinds

LEMMA VerifierName == \A t : Verifier(t) \in Child => t \in Tokens
<1> SUFFICES ASSUME NEW t, Verifier(t) \in Child PROVE t \in Tokens
  OBVIOUS
<1>1. Verifier(t)[1] = "verifier" /\ Verifier(t)[2] = t
  BY Tags
<1>2. Verifier(t) \in Verifiers
  BY <1>1, Kinds DEF Child
<1> QED
  BY <1>1, <1>2, Kinds

LEMMA DeclaredNames == TypeOK => Declared \subseteq Authored
  BY DEF Declared, Authored, TypeOK

(* A turn only ever names children, and checks only if they are declared.   *)
LEMMA RenderedNames ==
  ASSUME TypeOK, Issued
  PROVE  /\ Rendered \subseteq Child
         /\ Rendered \cap Authored \subseteq Declared
         /\ Rendered \cap Authored # {} => Verified
         /\ \A c \in Checks : Alerts(c) \in Rendered => Alertable(c)
<1> DEFINE A == IF Reported(Installation) THEN Wiring \cup {Verifier(token)} ELSE {}
           B == {k \in Declared : \A c \in Checks : k = Alerts(c) => Alertable(c)}
           C == IF Verified THEN B ELSE {}
<1>1. Rendered = {Installation} \cup A \cup C
  BY DEF Rendered
<1>2. Reported(Installation) => token \in Tokens
  <2>1. token \in 0..(MaxRotations + 1)
    BY DEF TypeOK
  <2>2. Reported(Installation) => token > 0
    BY DEF Reported, Issued
  <2> QED
    BY <2>1, <2>2 DEF Tokens
<1>3. A \subseteq Wiring \cup Verifiers
  BY <1>2, Members
<1>4. A \cap Authored = {}
  BY <1>3, Kinds
<1>5. C \subseteq Declared /\ C \subseteq B
  OBVIOUS
<1>6. C # {} => Verified
  OBVIOUS
<1> HIDE DEF A, C
<1>7. Rendered \subseteq Child
  BY <1>1, <1>3, <1>5, Members, DeclaredNames
<1>8. Rendered \cap Authored \subseteq C
  BY <1>1, <1>4, Disjoint
<1> QED
  BY <1>5, <1>6, <1>7, <1>8, Members

-----------------------------------------------------------------------------
(* Types.                                                                   *)

LEMMA ManagedResourceType ==
  /\ AbsentMR \in ManagedResource
  /\ \A r \in ManagedResource :
       /\ [r EXCEPT !.dying = TRUE] \in ManagedResource
       /\ [r EXCEPT !.ok = TRUE] \in ManagedResource
       /\ [r EXCEPT !.ok = FALSE] \in ManagedResource
  BY DEF ManagedResource, AbsentMR

LEMMA NoPlanType == NoPlan \in Plans
<1>1. 0 \in 0..MaxCost /\ 0 \in TokenNumbers /\ 0 \in Nat
  BY DEF TokenNumbers
<1> QED
  BY <1>1 DEF NoPlan, Plans

LEMMA TurnType == TypeOK /\ Issued /\ Turn => plan' \in Plans
<1> SUFFICES ASSUME TypeOK, Issued, Turn PROVE plan' \in Plans
  OBVIOUS
<1> DEFINE t == IF Reported(Installation) THEN token ELSE 0
<1>1. t \in TokenNumbers
  BY DEF TypeOK, TokenNumbers
<1>2. RenderedCost \in [Checks -> 0..MaxCost]
  BY DEF RenderedCost, TypeOK
<1>3. RenderedTarget \in [Checks -> Nat]
  BY DEF RenderedTarget, TypeOK
<1>4. Verified \in BOOLEAN
  <2>1. Reported(Installation) \in BOOLEAN /\ Reported(Verifier(token)) \in BOOLEAN
    <3>1. \A k \in refs : mr[k].ok \in BOOLEAN
      BY DEF TypeOK
    <3> QED
      BY <3>1 DEF Reported, Observed
  <2> QED
    BY <2>1 DEF Verified
<1>5. plan' = [desired |-> Rendered, token |-> t, cost |-> RenderedCost,
               target |-> RenderedTarget, status |-> Verified]
  BY DEF Turn
<1> HIDE DEF t
<1> QED
  BY <1>1, <1>2, <1>3, <1>4, <1>5, RenderedNames DEF Plans

(* What an apply, whole or interrupted, does to one child.                  *)
LEMMA AppliedFields ==
  ASSUME TypeOK, NEW S \in SUBSET plan.desired, ApplyTo(S), NEW k \in Child
  PROVE  /\ mr'[k] \in ManagedResource
         /\ mr'[k].exists => mr[k].exists \/ k \in S
         /\ mr'[k].dying => mr[k].dying \/ k \in Doomed
         /\ mr'[k].ok => mr[k].ok
<1> DEFINE o == mr[k].ok /\ \A c \in Checks :
                  k = Alerts(c) => plan.target[c] = target[c]
<1>1. mr[k] \in ManagedResource
  BY DEF TypeOK, ManagedResource
<1>2. mr'[k] = IF k \in S THEN AppliedMR(k)
               ELSE IF k \in Doomed THEN [mr[k] EXCEPT !.dying = TRUE]
               ELSE mr[k]
  BY DEF ApplyTo
<1>3. CASE k \in S
  <2>1. mr'[k] = [mr[k] EXCEPT !.exists = TRUE, !.ok = o]
    BY <1>2, <1>3 DEF AppliedMR
  <2>2. o \in BOOLEAN /\ (o => mr[k].ok)
    BY <1>1 DEF ManagedResource
  <2> HIDE DEF o
  <2> QED
    BY <1>1, <1>3, <2>1, <2>2 DEF ManagedResource
<1>4. CASE k \notin S
  BY <1>1, <1>2, <1>4 DEF ManagedResource
<1> QED
  BY <1>3, <1>4

LEMMA ApplyToType ==
  ASSUME TypeOK, Issued, NEW S \in SUBSET plan.desired, ApplyTo(S), token' = token
  PROVE  /\ mr' \in [Child -> ManagedResource] /\ refs' \subseteq Child
         /\ cost' \in [Checks -> 0..MaxCost] /\ target' \in [Checks -> Nat]
         /\ secret' \in TokenNumbers /\ Issued'
<1>1. mr' \in [Child -> ManagedResource]
  BY AppliedFields DEF ApplyTo
<1>2. cost' \in [Checks -> 0..MaxCost] /\ target' \in [Checks -> Nat]
  BY DEF ApplyTo, TypeOK
<1>3. secret' \in TokenNumbers
  BY DEF ApplyTo, TypeOK, TokenNumbers
<1>4. Issued'
  BY AppliedFields, Members DEF Issued
<1> QED
  BY <1>1, <1>2, <1>3, <1>4 DEF ApplyTo, TypeOK

(* What a provider does to the child it creates, and to the others.         *)
LEMMA CreatedFields ==
  ASSUME TypeOK, NEW k \in Child, Create(k)
  PROVE  /\ mr' \in [Child -> ManagedResource]
         /\ \A j \in Child :
              /\ mr'[j].exists <=> mr[j].exists
              /\ mr'[j].dying <=> mr[j].dying
              /\ j # k => (mr'[j].ok <=> mr[j].ok)
         /\ UNCHANGED <<target, cost, blank, checks, alerting, dropped, context,
                        refs, secret, status, pc, plan, edits, faults>>
<1>1. mr \in [Child -> ManagedResource]
  BY DEF TypeOK, ManagedResource
<1>2. mr' = [mr EXCEPT ![k] = [mr[k] EXCEPT !.ok = TRUE]]
  BY DEF Create
<1>3. mr' \in [Child -> ManagedResource]
  BY <1>1, <1>2, ManagedResourceType
<1>4. \A j \in Child :
        /\ mr'[j].exists <=> mr[j].exists
        /\ mr'[j].dying <=> mr[j].dying
        /\ j # k => (mr'[j].ok <=> mr[j].ok)
  BY <1>1, <1>2 DEF ManagedResource
<1> QED
  BY <1>3, <1>4 DEF Create, Rest, request, counters

LEMMA FinalisedFields ==
  ASSUME TypeOK, NEW k \in Child, Finalise(k)
  PROVE  /\ mr' \in [Child -> ManagedResource]
         /\ ~mr'[k].exists /\ ~mr'[k].dying /\ mr[k].dying
         /\ \A j \in Child :
              /\ mr'[j].exists => mr[j].exists
              /\ mr'[j].dying => mr[j].dying
              /\ mr'[j].ok => mr[j].ok
         /\ UNCHANGED <<checks, alerting, dropped, context, refs, secret, status,
                        pc, plan, edits, faults, token, created, verified>>
<1>1. \A j \in Child : mr[j] \in ManagedResource
  BY DEF TypeOK, ManagedResource
<1>2. \A j \in Child :
        IF j = k THEN mr'[j] = AbsentMR
        ELSE mr'[j] = mr[j] \/ mr'[j] = [mr[j] EXCEPT !.ok = FALSE]
  BY DEF Finalise
<1>3. ASSUME NEW j \in Child
      PROVE  /\ mr'[j] \in ManagedResource
             /\ mr'[j].exists => mr[j].exists
             /\ mr'[j].dying => mr[j].dying
             /\ mr'[j].ok => mr[j].ok
  <2>1. mr[j] \in ManagedResource
    BY <1>1
  <2>2. CASE j = k
    <3>1. mr'[j] = AbsentMR
      BY <1>2, <2>2
    <3> QED
      BY <3>1 DEF AbsentMR, ManagedResource
  <2>3. CASE mr'[j] = mr[j]
    BY <2>1, <2>3
  <2>4. CASE mr'[j] = [mr[j] EXCEPT !.ok = FALSE]
    BY <2>1, <2>4 DEF ManagedResource
  <2> QED
    BY <1>2, <2>2, <2>3, <2>4
<1>4. mr' \in [Child -> ManagedResource]
  <2> DEFINE new(j) ==
               IF j = k THEN AbsentMR
               ELSE IF \E c \in Checks : k = Check(c) /\ j = Alerts(c)
                 THEN [mr[j] EXCEPT !.ok = FALSE]
               ELSE mr[j]
  <2>1. mr' = [j \in Child |-> new(j)]
    BY DEF Finalise
  <2> HIDE DEF new
  <2> QED
    BY <1>3, <2>1
<1>5. ~mr'[k].exists /\ ~mr'[k].dying
  <2>1. mr'[k] = AbsentMR
    BY <1>2
  <2> QED
    BY <2>1 DEF AbsentMR
<1> QED
  BY <1>3, <1>4, <1>5 DEF Finalise, Rest, request, counters

LEMMA InitialType == Init => TypeOK /\ Issued
<1>1. 0 \in 0..MaxEdits /\ 0 \in 0..MaxFaults /\ 0 \in Nat /\ 0 \in 0..MaxCost
      /\ 0 \in TokenNumbers
  BY DEF TokenNumbers
<1>2. ASSUME Init
      PROVE  /\ mr \in [Child -> ManagedResource]
             /\ mr[Installation] = AbsentMR
  BY <1>2, ManagedResourceType, Members DEF Init
<1>3. ASSUME Init
      PROVE  /\ cost \in [Checks -> 0..MaxCost] /\ target \in [Checks -> Nat]
             /\ running \in [Checks -> 0..MaxCost] /\ created \in [Checks -> Nat]
  BY <1>1, <1>3 DEF Init
<1>4. Init => Issued
  BY <1>2 DEF Issued, AbsentMR
<1> QED
  BY <1>1, <1>2, <1>3, <1>4, NoPlanType, Zenon
  DEF Init, TypeOK, ManagedResource, Plans, TokenNumbers

(* A provider's step keeps the types, whatever it creates.                  *)
LEMMA ProviderType ==
  ASSUME TypeOK, Issued,
         \/ Install
         \/ Provide
  PROVE  TypeOK' /\ Issued'
<1>1. ASSUME NEW k \in Child, k # Installation, Create(k), token' = token
      PROVE  Issued'
  BY <1>1, CreatedFields, Members DEF Issued
<1>2. CASE Install
  <2>1. token' \in TokenNumbers /\ token' > 0
    BY <1>2 DEF Install, TypeOK, TokenNumbers
  <2>2. Create(Installation)
    BY <1>2 DEF Install
  <2>3. TypeOK'
    BY <1>2, <2>1, <2>2, CreatedFields, Members
    DEF Install, grafana, TypeOK, ManagedResource, TokenNumbers
  <2> QED
    BY <2>1, <2>3 DEF Issued
<1>3. ASSUME NEW t \in Tokens, Verify(t) PROVE TypeOK' /\ Issued'
  <2>1. Verifier(t) \in Child /\ Verifier(t) # Installation
    BY Members, Disjoint
  <2>2. Create(Verifier(t)) /\ UNCHANGED <<running, created, token>>
        /\ verified' = verified \cup {t}
    BY <1>3 DEF Verify
  <2>3. TypeOK'
    BY <2>1, <2>2, CreatedFields DEF TypeOK, ManagedResource
  <2> QED
    BY <1>1, <2>1, <2>2, <2>3
<1>4. ASSUME NEW c \in Checks, CreateCheck(c) PROVE TypeOK' /\ Issued'
  <2>1. Check(c) \in Child /\ Check(c) # Installation
    BY Members, Disjoint
  <2>2. Create(Check(c)) /\ UNCHANGED <<verified, token>>
    BY <1>4 DEF CreateCheck
  <2>3. created' \in [Checks -> Nat] /\ running' \in [Checks -> 0..MaxCost]
    BY <1>4 DEF CreateCheck, TypeOK
  <2>4. TypeOK'
    BY <2>1, <2>2, <2>3, CreatedFields DEF TypeOK, ManagedResource
  <2> QED
    BY <1>1, <2>1, <2>2, <2>4
<1>5. ASSUME NEW c \in Checks, UpdateCheck(c) PROVE TypeOK' /\ Issued'
  <2>1. running' \in [Checks -> 0..MaxCost]
    BY <1>5 DEF UpdateCheck, TypeOK
  <2> QED
    BY <1>5, <2>1 DEF UpdateCheck, Rest, request, counters, TypeOK, Issued
<1>6. ASSUME NEW c \in Checks, AttachAlerts(c) PROVE TypeOK' /\ Issued'
  <2>1. Alerts(c) \in Child /\ Alerts(c) # Installation
    BY Members, Disjoint
  <2>2. Create(Alerts(c)) /\ UNCHANGED <<running, created, verified, token>>
    BY <1>6 DEF AttachAlerts, grafana
  <2>3. TypeOK'
    BY <2>1, <2>2, CreatedFields DEF TypeOK, ManagedResource
  <2> QED
    BY <1>1, <2>1, <2>2, <2>3
<1>7. ASSUME NEW k \in Child, Finalise(k) PROVE TypeOK' /\ Issued'
  <2>1. /\ cost' \in [Checks -> 0..MaxCost] /\ target' \in [Checks -> Nat]
        /\ running' \in [Checks -> 0..MaxCost] /\ blank' \subseteq Child
    BY <1>7 DEF Finalise, TypeOK
  <2>2. TypeOK'
    BY <1>7, <2>1, FinalisedFields DEF TypeOK, ManagedResource
  <2>3. Issued'
    BY <1>7, FinalisedFields, Members DEF Issued
  <2> QED
    BY <2>2, <2>3
<1> QED
  BY <1>2, <1>3, <1>4, <1>5, <1>6, <1>7 DEF Provide

LEMMA TypeStep == TypeOK /\ Issued /\ [Next]_vars => TypeOK' /\ Issued'
<1> SUFFICES ASSUME TypeOK, Issued, [Next]_vars PROVE TypeOK' /\ Issued'
  OBVIOUS
<1>1. CASE Turn
  BY <1>1, TurnType
  DEF Turn, TypeOK, Issued, Plans, TokenNumbers, request, cluster, grafana,
      counters
<1>2. ASSUME NEW S \in SUBSET plan.desired, ApplyTo(S), plan' = NoPlan,
             pc' = "idle", status' \in BOOLEAN, faults' \in 0..MaxFaults,
             UNCHANGED <<request, context, blank, token, grafana, edits>>
      PROVE  TypeOK' /\ Issued'
  <2>1. /\ mr' \in [Child -> ManagedResource] /\ refs' \subseteq Child
        /\ cost' \in [Checks -> 0..MaxCost] /\ target' \in [Checks -> Nat]
        /\ secret' \in TokenNumbers /\ Issued'
    BY <1>2, ApplyToType
  <2> QED
    BY <1>2, <2>1, NoPlanType
    DEF TypeOK, ManagedResource, Plans, TokenNumbers, request, grafana
<1>3. CASE Apply
  <2>1. status' \in BOOLEAN /\ faults' \in 0..MaxFaults
    BY <1>3 DEF Apply, TypeOK, counters
  <2> QED
    BY <1>2, <1>3, <2>1 DEF Apply, counters
<1>4. CASE Interrupt
  <2>1. /\ status' \in BOOLEAN /\ plan' = NoPlan /\ pc' = "idle"
        /\ UNCHANGED <<request, context, blank, token, grafana, edits>>
    BY <1>4 DEF Interrupt, TypeOK
  <2>2. faults' \in 0..MaxFaults
    BY <1>4 DEF Interrupt, TypeOK
  <2>3. CASE UNCHANGED cluster
    BY <1>4, <2>1, <2>2, <2>3, NoPlanType
    DEF TypeOK, Issued, Plans, TokenNumbers, request, cluster, grafana
  <2>4. ASSUME NEW S \in SUBSET Changed, ApplyTo(plan.desired \ S)
        PROVE  TypeOK' /\ Issued'
    BY <1>2, <2>1, <2>2, <2>4
  <2> QED
    BY <1>4, <2>3, <2>4 DEF Interrupt
<1>5. CASE Install \/ Provide
  BY <1>5, ProviderType
<1>6. CASE Rotate
  <2>1. token' \in TokenNumbers /\ token' > 0
    BY <1>6 DEF Rotate, TokenNumbers
  <2> QED
    BY <1>6, <2>1
    DEF Rotate, Rest, request, counters, grafana, TypeOK, Issued, TokenNumbers
<1>7. ASSUME NEW k \in Child, LoseStatus(k) \/ RecoverStatus(k)
      PROVE  TypeOK' /\ Issued'
  <2>1. faults' \in 0..MaxFaults
    BY <1>7 DEF LoseStatus, RecoverStatus, Rest, counters, TypeOK
  <2> QED
    BY <1>7, <2>1
    DEF LoseStatus, RecoverStatus, Rest, request, counters, cluster, grafana,
        TypeOK, Issued
<1>8. CASE LoseContext \/ ResolveContext
  <2>1. faults' \in 0..MaxFaults
    BY <1>8 DEF LoseContext, ResolveContext, counters, TypeOK
  <2> QED
    BY <1>8, <2>1
    DEF LoseContext, ResolveContext, request, counters, cluster, grafana, TypeOK,
        Issued
<1>9. ASSUME NEW cs \in [Checks -> 0..MaxCost], NEW as \in SUBSET Checks,
             EditRequest(cs, as)
      PROVE  TypeOK' /\ Issued'
  <2>1. edits' \in 0..MaxEdits
    BY <1>9 DEF EditRequest, TypeOK
  <2>2. dropped' \subseteq Authored
    BY <1>9, DeclaredNames DEF EditRequest, TypeOK
  <2> QED
    BY <1>9, <2>1, <2>2 DEF EditRequest, cluster, grafana, TypeOK, Issued
<1>10. CASE UNCHANGED vars
  BY <1>10 DEF vars, request, counters, cluster, grafana, TypeOK, Issued
<1> QED
  BY <1>1, <1>3, <1>4, <1>5, <1>6, <1>7, <1>8, <1>9, <1>10 DEF Next

(* The request, its children and its plan keep their shapes.                *)
THEOREM TypeCorrect == Spec => []TypeOK
<1>1. Spec => [](TypeOK /\ Issued)
  BY InitialType, TypeStep, PTL DEF Spec
<1> QED
  BY <1>1, PTL
-----------------------------------------------------------------------------
(* The strengthened invariant.                                              *)

LEMMA InitialInvariant == Init => IInv
<1> SUFFICES ASSUME Init PROVE IInv
  OBVIOUS
<1>1. \A k \in Child : ~mr[k].exists /\ ~mr[k].ok /\ ~mr[k].dying
  <2>1. \A k \in Child : mr[k] = AbsentMR
    BY DEF Init
  <2> QED
    BY <2>1 DEF AbsentMR
<1>2. plan.desired = {} /\ pc = "idle"
  BY DEF Init, NoPlan
<1> QED
  BY <1>1, <1>2, InitialType, Members
  DEF IInv, KeptUnlessDropped, AlertsNameIDs, Accounted, DropsOnly,
      VerifierCreated, PlanVerified, Assigned, PlannedIDs

(* A turn plans only what is declared, leaves out only verifiers and what   *)
(* was dropped, and plans checks only under a verified token.               *)
LEMMA TurnStep == IInv /\ Turn => IInv'
<1> SUFFICES ASSUME IInv, Turn PROVE IInv'
  OBVIOUS
<1>1. TypeOK' /\ Issued'
  BY TypeStep DEF IInv, Next
<1>2. UNCHANGED <<checks, alerting, dropped, mr, target, refs, created, verified>>
  BY DEF Turn, request, cluster, grafana
<1>3. /\ plan'.desired = Rendered /\ plan'.target = RenderedTarget
      /\ plan'.token = IF Reported(Installation) THEN token ELSE 0
  BY DEF Turn
<1>4. Declared' = Declared
  BY <1>2 DEF Declared
<1>5. KeptUnlessDropped' /\ AlertsNameIDs' /\ VerifierCreated' /\ Assigned'
  BY <1>2 DEF IInv, KeptUnlessDropped, AlertsNameIDs, VerifierCreated, Assigned
<1>6. Accounted'
  BY <1>2, <1>3, <1>4, RenderedNames DEF IInv, Accounted
<1>7. DropsOnly'
  <2>1. \A k \in Observed : mr[k].exists
    BY DEF Observed
  <2>2. \A k \in Observed \ Rendered :
          k \in Verifiers \/ k \in Authored \ Declared
    BY DEF Turn, Withdrawable
  <2>3. Observed \ Rendered \subseteq dropped \cup Verifiers
    BY <2>1, <2>2 DEF IInv, Accounted
  <2> QED
    BY <1>2, <1>3, <2>3 DEF DropsOnly, Observed
<1>8. PlanVerified'
  <2> SUFFICES ASSUME NEW c \in Checks, Check(c) \in Rendered
               PROVE  plan'.token \in verified
    BY <1>2, <1>3 DEF PlanVerified
  <2>1. Verified
    BY Members, RenderedNames DEF IInv
  <2>2. plan'.token = token
    BY <1>3, <2>1 DEF Verified
  <2>3. Verifier(token) \in Child /\ mr[Verifier(token)].ok
    BY <2>1 DEF Verified, Reported, Observed, IInv, TypeOK
  <2> QED
    BY <2>2, <2>3, VerifierName DEF IInv, VerifierCreated
<1>9. PlannedIDs'
  <2> SUFFICES ASSUME NEW c \in Checks, Alerts(c) \in Rendered
               PROVE  RenderedTarget[c] \in 1..created[c]
    BY <1>2, <1>3 DEF PlannedIDs
  <2>1. Reported(Check(c))
    BY RenderedNames DEF IInv, Alertable
  <2>2. RenderedTarget[c] = created[c]
    BY <2>1 DEF RenderedTarget
  <2>3. created[c] > 0 /\ created[c] \in Nat
    BY <2>1 DEF Reported, IInv, Assigned, TypeOK
  <2> QED
    BY <2>2, <2>3
<1> QED
  BY <1>1, <1>5, <1>6, <1>7, <1>8, <1>9 DEF IInv

LEMMA ApplyToStep ==
  ASSUME IInv, pc = "apply", pc' = "idle", plan' = NoPlan,
         NEW S \in SUBSET plan.desired, ApplyTo(S),
         UNCHANGED <<request, grafana>>
  PROVE  /\ KeptUnlessDropped' /\ AlertsNameIDs' /\ Accounted' /\ DropsOnly'
         /\ VerifierCreated' /\ PlanVerified' /\ Assigned' /\ PlannedIDs'
<1>1. UNCHANGED <<checks, alerting, dropped, created, verified>>
  BY DEF request, grafana
<1>2. Declared' = Declared
  BY <1>1 DEF Declared
<1>3. plan'.desired = {}
  BY DEF NoPlan
<1>4. KeptUnlessDropped'
  BY <1>1, AppliedFields DEF IInv, KeptUnlessDropped, Doomed, DropsOnly
<1>5. Accounted'
  BY <1>1, <1>2, <1>3, AppliedFields, Members DEF IInv, Accounted
<1>6. VerifierCreated' /\ Assigned'
  BY <1>1, AppliedFields, Members DEF IInv, VerifierCreated, Assigned
<1>7. AlertsNameIDs'
  <2> SUFFICES ASSUME NEW c \in Checks, mr'[Alerts(c)].exists
               PROVE  target'[c] \in 1..created[c]
    BY <1>1 DEF AlertsNameIDs
  <2>1. target'[c] = IF Alerts(c) \in S THEN plan.target[c] ELSE target[c]
    BY DEF ApplyTo
  <2>2. mr[Alerts(c)].exists \/ Alerts(c) \in S
    BY AppliedFields, Members DEF IInv
  <2> QED
    BY <2>1, <2>2 DEF IInv, AlertsNameIDs, PlannedIDs
<1> QED
  BY <1>3, <1>4, <1>5, <1>6, <1>7 DEF DropsOnly, PlanVerified, PlannedIDs

LEMMA InterruptStep == IInv /\ (Apply \/ Interrupt) => IInv'
<1> SUFFICES ASSUME IInv, Apply \/ Interrupt PROVE IInv'
  OBVIOUS
<1>1. TypeOK' /\ Issued'
  BY TypeStep DEF IInv, Next
<1>2. /\ pc = "apply" /\ pc' = "idle" /\ plan' = NoPlan
      /\ UNCHANGED <<request, grafana>>
  BY DEF Apply, Interrupt
<1>3. CASE UNCHANGED cluster
  <2>1. UNCHANGED <<checks, alerting, dropped, created, verified, mr, target, refs>>
    BY <1>2, <1>3 DEF request, grafana, cluster
  <2>2. plan'.desired = {} /\ Declared' = Declared
    BY <1>2, <2>1 DEF NoPlan, Declared
  <2> QED
    BY <1>1, <1>2, <2>1, <2>2
    DEF IInv, KeptUnlessDropped, AlertsNameIDs, Accounted, DropsOnly,
        VerifierCreated, PlanVerified, Assigned, PlannedIDs
<1>4. ASSUME NEW S \in SUBSET plan.desired, ApplyTo(S) PROVE IInv'
  BY <1>1, <1>2, <1>4, ApplyToStep DEF IInv
<1>5. CASE Apply
  BY <1>4, <1>5 DEF Apply
<1>6. CASE Interrupt
  <2>1. ASSUME NEW S \in SUBSET Changed, ApplyTo(plan.desired \ S) PROVE IInv'
    BY <1>4, <2>1
  <2> QED
    BY <1>3, <1>6, <2>1 DEF Interrupt
<1> QED
  BY <1>5, <1>6

(* Creating a child in Grafana disturbs only what says that it was created. *)
LEMMA CreateStep ==
  ASSUME IInv, NEW k \in Child, Create(k),
         verified \subseteq verified',
         k \in Verifiers => k[2] \in verified',
         \A c \in Checks : /\ created'[c] >= created[c] /\ created'[c] \in Nat
                           /\ k = Check(c) => created'[c] > 0
  PROVE  /\ KeptUnlessDropped' /\ AlertsNameIDs' /\ Accounted' /\ DropsOnly'
         /\ VerifierCreated' /\ PlanVerified' /\ Assigned' /\ PlannedIDs'
<1>1. /\ \A j \in Child :
           /\ mr'[j].exists <=> mr[j].exists
           /\ mr'[j].dying <=> mr[j].dying
           /\ j # k => (mr'[j].ok <=> mr[j].ok)
      /\ UNCHANGED <<target, checks, alerting, dropped, refs, pc, plan>>
  BY CreatedFields DEF IInv
<1>2. Declared' = Declared /\ Observed' = Observed
  BY <1>1 DEF Declared, Observed, IInv, TypeOK
<1>3. KeptUnlessDropped' /\ Accounted' /\ DropsOnly' /\ PlanVerified'
  BY <1>1, <1>2, Members
  DEF IInv, KeptUnlessDropped, Accounted, DropsOnly, PlanVerified
<1>4. VerifierCreated'
  BY <1>1, Members, Tags DEF IInv, VerifierCreated
<1>5. \A c \in Checks : created[c] \in Nat
  BY DEF IInv, TypeOK
<1>6. Assigned'
  <2> SUFFICES ASSUME NEW c \in Checks, mr'[Check(c)].ok PROVE created'[c] > 0
    BY DEF Assigned
  <2>1. CASE k = Check(c)
    BY <2>1
  <2>2. CASE k # Check(c)
    <3>1. created[c] > 0
      BY <1>1, <2>2, Members DEF IInv, Assigned
    <3> QED
      BY <1>5, <3>1
  <2> QED
    BY <2>1, <2>2
<1>7. \A c \in Checks : \A id : id \in 1..created[c] => id \in 1..created'[c]
  BY <1>5
<1>8. AlertsNameIDs' /\ PlannedIDs'
  BY <1>1, <1>7, Members DEF IInv, AlertsNameIDs, PlannedIDs
<1> QED
  BY <1>3, <1>4, <1>6, <1>8

LEMMA FinaliseStep ==
  ASSUME IInv, NEW k \in Child, Finalise(k)
  PROVE  /\ KeptUnlessDropped' /\ AlertsNameIDs' /\ Accounted' /\ DropsOnly'
         /\ VerifierCreated' /\ PlanVerified' /\ Assigned' /\ PlannedIDs'
<1>1. /\ ~mr'[k].exists
      /\ \A j \in Child :
           /\ mr'[j].exists => mr[j].exists
           /\ mr'[j].dying => mr[j].dying
           /\ mr'[j].ok => mr[j].ok
      /\ UNCHANGED <<checks, alerting, dropped, refs, pc, plan, created, verified>>
  BY FinalisedFields DEF IInv
<1>2. Declared' = Declared /\ Observed' \subseteq Observed
  BY <1>1 DEF Declared, Observed, IInv, TypeOK
<1>3. KeptUnlessDropped' /\ Accounted' /\ DropsOnly' /\ PlanVerified' /\ PlannedIDs'
  BY <1>1, <1>2, Members
  DEF IInv, KeptUnlessDropped, Accounted, DropsOnly, PlanVerified, PlannedIDs
<1>4. VerifierCreated' /\ Assigned'
  BY <1>1, Members DEF IInv, VerifierCreated, Assigned
<1>5. AlertsNameIDs'
  <2> SUFFICES ASSUME NEW c \in Checks, mr'[Alerts(c)].exists
               PROVE  target'[c] \in 1..created[c]
    BY <1>1 DEF AlertsNameIDs
  <2>1. k # Alerts(c)
    BY <1>1
  <2>2. target'[c] = target[c] /\ mr[Alerts(c)].exists
    BY <1>1, <2>1, Members DEF Finalise
  <2> QED
    BY <2>2 DEF IInv, AlertsNameIDs
<1> QED
  BY <1>3, <1>4, <1>5

LEMMA ProviderStep == IInv /\ (Install \/ Provide) => IInv'
<1> SUFFICES ASSUME IInv, Install \/ Provide PROVE IInv'
  OBVIOUS
<1>1. TypeOK' /\ Issued'
  BY ProviderType DEF IInv
<1>2. \A c \in Checks : created[c] \in Nat
  BY DEF IInv, TypeOK
<1>3. CASE Install
  <2>1. Create(Installation) /\ UNCHANGED <<created, verified>>
    BY <1>3 DEF Install, grafana
  <2>2. \A c \in Checks : Installation # Check(c)
    BY Disjoint, Members
  <2> QED
    BY <1>1, <1>2, <2>1, <2>2, Members, Disjoint, CreateStep DEF IInv
<1>4. ASSUME NEW t \in Tokens, Verify(t) PROVE IInv'
  <2>1. Create(Verifier(t)) /\ created' = created /\ verified' = verified \cup {t}
    BY <1>4 DEF Verify
  <2>2. Verifier(t) \in Child /\ Verifier(t)[2] = t
    BY Members, Tags
  <2>3. \A c \in Checks : Verifier(t) # Check(c)
    BY Disjoint, Members
  <2> QED
    BY <1>1, <1>2, <2>1, <2>2, <2>3, CreateStep DEF IInv
<1>5. ASSUME NEW c \in Checks, CreateCheck(c) PROVE IInv'
  <2>1. Create(Check(c)) /\ verified' = verified
        /\ created' = [created EXCEPT ![c] = @ + 1]
    BY <1>5 DEF CreateCheck
  <2>2. Check(c) \in Child /\ Check(c) \notin Verifiers
    BY Members, Disjoint
  <2>3. \A d \in Checks : Check(c) = Check(d) => c = d
    BY Tags
  <2>4. \A d \in Checks : /\ created'[d] >= created[d] /\ created'[d] \in Nat
                          /\ Check(c) = Check(d) => created'[d] > 0
    BY <1>2, <2>1, <2>3 DEF IInv, TypeOK
  <2> QED
    BY <1>1, <2>1, <2>2, <2>4, CreateStep DEF IInv
<1>6. ASSUME NEW c \in Checks, UpdateCheck(c) PROVE IInv'
  <2>1. UNCHANGED <<checks, alerting, dropped, mr, target, refs, pc, plan, created,
                    verified>>
    BY <1>6 DEF UpdateCheck, Rest, request
  <2> QED
    BY <1>1, <2>1
    DEF IInv, KeptUnlessDropped, AlertsNameIDs, Accounted, DropsOnly,
        VerifierCreated, PlanVerified, Assigned, PlannedIDs, Declared, Observed
<1>7. ASSUME NEW c \in Checks, AttachAlerts(c) PROVE IInv'
  <2>1. Create(Alerts(c)) /\ UNCHANGED <<created, verified>>
    BY <1>7 DEF AttachAlerts, grafana
  <2>2. Alerts(c) \in Child /\ Alerts(c) \notin Verifiers
    BY Members, Disjoint
  <2>3. \A d \in Checks : Alerts(c) # Check(d)
    BY Tags
  <2> QED
    BY <1>1, <1>2, <2>1, <2>2, <2>3, CreateStep DEF IInv
<1>8. ASSUME NEW k \in Child, Finalise(k) PROVE IInv'
  BY <1>1, <1>8, FinaliseStep DEF IInv
<1> QED
  BY <1>3, <1>4, <1>5, <1>6, <1>7, <1>8 DEF Provide

LEMMA EditRequestStep ==
  ASSUME IInv, NEW cs \in [Checks -> 0..MaxCost], NEW as \in SUBSET Checks,
         EditRequest(cs, as)
  PROVE  /\ KeptUnlessDropped' /\ AlertsNameIDs' /\ Accounted' /\ DropsOnly'
         /\ VerifierCreated' /\ PlanVerified' /\ Assigned' /\ PlannedIDs'
<1>1. UNCHANGED <<mr, target, refs, created, verified, pc, plan>>
  BY DEF EditRequest, cluster, grafana
<1>2. dropped \subseteq dropped' /\ Declared \subseteq Declared' \cup dropped'
  BY DEF EditRequest
<1>3. Observed' = Observed
  BY <1>1 DEF Observed
<1>4. KeptUnlessDropped' /\ Accounted' /\ DropsOnly'
  BY <1>1, <1>2, <1>3 DEF IInv, KeptUnlessDropped, Accounted, DropsOnly
<1> QED
  BY <1>1, <1>4
  DEF IInv, AlertsNameIDs, VerifierCreated, PlanVerified, Assigned, PlannedIDs

LEMMA InvariantStep == IInv /\ [Next]_vars => IInv'
<1> SUFFICES ASSUME IInv, [Next]_vars PROVE IInv'
  OBVIOUS
<1>1. TypeOK' /\ Issued'
  BY TypeStep DEF IInv
<1>2. ASSUME UNCHANGED <<checks, alerting, dropped, mr, target, refs, created,
                         verified, pc, plan>>
      PROVE  IInv'
  BY <1>1, <1>2
  DEF IInv, KeptUnlessDropped, AlertsNameIDs, Accounted, DropsOnly,
      VerifierCreated, PlanVerified, Assigned, PlannedIDs, Declared, Observed
<1>3. CASE Rotate
  BY <1>2, <1>3 DEF Rotate, Rest, request, grafana
<1>4. ASSUME NEW k \in Child, LoseStatus(k) \/ RecoverStatus(k) PROVE IInv'
  BY <1>2, <1>4 DEF LoseStatus, RecoverStatus, Rest, request, cluster, grafana
<1>5. CASE LoseContext \/ ResolveContext
  BY <1>2, <1>5 DEF LoseContext, ResolveContext, request, cluster, grafana
<1>6. CASE UNCHANGED vars
  BY <1>2, <1>6 DEF vars, request, cluster, grafana
<1>7. ASSUME NEW cs \in [Checks -> 0..MaxCost], NEW as \in SUBSET Checks,
             EditRequest(cs, as)
      PROVE  IInv'
  BY <1>1, <1>7, EditRequestStep DEF IInv
<1> QED
  BY <1>3, <1>4, <1>5, <1>6, <1>7, TurnStep, InterruptStep, ProviderStep DEF Next

THEOREM Invariance == Spec => []IInv
<1> QED
  BY InitialInvariant, InvariantStep, PTL DEF Spec

(* Only what the team took out of the request is ever withdrawn.            *)
THEOREM Kept == Spec => []KeptUnlessDropped
<1>1. IInv => KeptUnlessDropped
  BY DEF IInv
<1> QED
  BY <1>1, Invariance, PTL

(* Alerts name an ID that Grafana assigned to their check.                  *)
THEOREM RealIDs == Spec => []AlertsNameIDs
<1>1. IInv => AlertsNameIDs
  BY DEF IInv
<1> QED
  BY <1>1, Invariance, PTL

(* A check is created only by a turn whose own token was verified.          *)
THEOREM VerifiedFirst == Spec => ChecksAfterVerification
<1>1. IInv /\ [Next]_vars =>
        [\A c \in Checks : mr'[Check(c)].exists /\ ~mr[Check(c)].exists =>
           plan.token \in verified]_vars
  <2> SUFFICES ASSUME IInv, [Next]_vars, NEW c \in Checks,
                      mr'[Check(c)].exists, ~mr[Check(c)].exists
               PROVE  plan.token \in verified
    OBVIOUS
  <2>1. Check(c) \in Child
    BY Members
  <2>2. ASSUME NEW S \in SUBSET plan.desired, ApplyTo(S)
        PROVE  plan.token \in verified
    BY <2>1, <2>2, AppliedFields DEF IInv, PlanVerified
  <2>3. CASE Apply
    BY <2>2, <2>3 DEF Apply
  <2>4. CASE Interrupt
    <3>1. CASE UNCHANGED cluster
      BY <3>1 DEF cluster
    <3>2. ASSUME NEW S \in SUBSET Changed, ApplyTo(plan.desired \ S)
          PROVE  plan.token \in verified
      BY <2>2, <3>2
    <3> QED
      BY <2>4, <3>1, <3>2 DEF Interrupt
  <2>5. ASSUME NEW k \in Child, Create(k) PROVE FALSE
    BY <2>1, <2>5, CreatedFields DEF IInv
  <2>6. ASSUME NEW k \in Child, Finalise(k) PROVE FALSE
    BY <2>1, <2>6, FinalisedFields DEF IInv
  <2>7. CASE Install \/ Provide
    BY <2>5, <2>6, <2>7, Members
    DEF Install, Provide, Verify, CreateCheck, UpdateCheck, AttachAlerts
  <2>8. CASE UNCHANGED mr
    BY <2>8
  <2> QED
    BY <2>3, <2>4, <2>7, <2>8
    DEF Next, Turn, Rotate, RecoverStatus, LoseContext, ResolveContext,
        LoseStatus, EditRequest, cluster, vars
<1> QED
  BY <1>1, Invariance, PTL DEF Spec, ChecksAfterVerification

-----------------------------------------------------------------------------
(* No standstill.  Whatever the team edits, the installation rotates and    *)
(* the cluster interrupts, a state in which nothing is left to do is one in *)
(* which the request is fulfilled, refused for its budget, or held for one  *)
(* of two reasons a turn cannot repair.                                     *)

(* Nobody but Crossplane has anything to do: nothing is momentarily lost,   *)
(* the installation has issued its token, and as long as the published one  *)
(* is current the provider has created, updated, attached and finalised all *)
(* it can.                                                                  *)
Waiting == pc = "idle" /\ context /\ blank = {}

Finished ==
  /\ \A k \in Child : mr[k].exists => ~mr[k].dying
  /\ \A t \in Tokens : mr[Verifier(t)].exists => mr[Verifier(t)].ok
  /\ \A c \in Checks :
       /\ mr[Check(c)].exists => mr[Check(c)].ok /\ running[c] = cost[c]
       /\ mr[Alerts(c)].exists /\ mr[Check(c)].ok /\ created[c] = target[c]
            => mr[Alerts(c)].ok

Resting ==
  /\ Waiting
  /\ mr[Installation].exists => mr[Installation].ok
  /\ secret = token /\ Usable => Finished

(* A turn is not refused.                                                   *)
Accepted == WithinBudget /\ Observed \ Rendered \subseteq Withdrawable

(* A turn would leave everything as it is.                                  *)
UpToDate ==
  /\ refs = Rendered /\ Observed = Rendered
  /\ \A c \in Checks : Check(c) \in Rendered => cost[c] = RenderedCost[c]
  /\ \A c \in Checks : Alerts(c) \in Rendered => target[c] = RenderedTarget[c]
  /\ Secret \in Rendered => secret = token
  /\ status = Verified

(* Somebody has something to do that changes something.                     *)
Work == ~Resting \/ (Accepted /\ ~UpToDate)

(* A child the team declares is in place, and stays.                        *)
Established ==
  \E k \in Declared \cap Observed :
    ~mr[k].dying /\ (pc = "apply" => k \in plan.desired)

(* A rotation no turn follows: the verifier of the new token is not asked   *)
(* for, and asking for it would drop what the team declares.                *)
Wedged ==
  token # 0 /\ Verifier(token) \notin refs \cup plan.desired /\ Established

(* Alerts whose check is gone, and which no turn may drop.                  *)
Stranded ==
  /\ pc = "idle"
  /\ \E c \in Checks :
       /\ Alerts(c) \in Declared \cap Observed /\ ~mr[Alerts(c)].dying
       /\ ~mr[Check(c)].exists

(* What exists and stays is referred to.                                    *)
Referred ==
  \A k \in Child :
    /\ mr[k].ok \/ mr[k].dying => mr[k].exists
    /\ mr[k].exists /\ ~mr[k].dying => k \in refs

(* Nothing but the installation is asked for before it has issued a token.  *)
InstalledFirst ==
  refs \cup plan.desired \subseteq {Installation} \/ mr[Installation].ok

(* A check that is not in the cluster does not run in Grafana.              *)
RunsOnlyCreated == \A c \in Checks : ~mr[Check(c)].ok => running[c] = 0

(* Verifiers are asked for only of tokens that were issued.                 *)
OfIssuedTokens ==
  \A t \in Tokens : Verifier(t) \in refs \cup plan.desired => t <= token

AlertsOfChecks == \A c \in alerting : checks[c] > 0

Anchored ==
  /\ Referred /\ InstalledFirst /\ RunsOnlyCreated /\ OfIssuedTokens
  /\ AlertsOfChecks

(* A child of another kind is not the one that is finalised.                *)
LEMMA FinaliseSpares ==
  ASSUME TypeOK, NEW k \in Child, Finalise(k), NEW j \in Child, j # k
  PROVE  (mr'[j].exists <=> mr[j].exists) /\ (mr'[j].dying <=> mr[j].dying)
<1>1. mr[j] \in ManagedResource
  BY DEF TypeOK, ManagedResource
<1>2. mr'[j] = mr[j] \/ mr'[j] = [mr[j] EXCEPT !.ok = FALSE]
  BY DEF Finalise
<1> QED
  BY <1>1, <1>2 DEF ManagedResource

(* What applying leaves: the children it reaches exist, what it drops dies, *)
(* and only alerts lose their ID.                                           *)
LEMMA AppliedExactly ==
  ASSUME TypeOK, NEW S \in SUBSET plan.desired, ApplyTo(S), NEW k \in Child
  PROVE  /\ mr'[k].exists <=> mr[k].exists \/ k \in S
         /\ mr'[k].dying <=> mr[k].dying \/ (k \in Doomed /\ k \notin S)
         /\ (\A c \in Checks : k # Alerts(c)) => (mr'[k].ok <=> mr[k].ok)
<1> DEFINE o == mr[k].ok /\ \A c \in Checks :
                  k = Alerts(c) => plan.target[c] = target[c]
<1>1. mr[k] \in ManagedResource
  BY DEF TypeOK, ManagedResource
<1>2. mr'[k] = IF k \in S THEN AppliedMR(k)
               ELSE IF k \in Doomed THEN [mr[k] EXCEPT !.dying = TRUE]
               ELSE mr[k]
  BY DEF ApplyTo
<1>3. CASE k \in S
  <2>1. mr'[k] = [mr[k] EXCEPT !.exists = TRUE, !.ok = o]
    BY <1>2, <1>3 DEF AppliedMR
  <2>2. (\A c \in Checks : k # Alerts(c)) => (o <=> mr[k].ok)
    OBVIOUS
  <2> HIDE DEF o
  <2> QED
    BY <1>1, <1>3, <2>1, <2>2 DEF ManagedResource
<1>4. CASE k \notin S
  BY <1>1, <1>2, <1>4 DEF ManagedResource
<1> QED
  BY <1>3, <1>4

LEMMA InstallationStays == IInv => ~mr[Installation].dying
  BY Members, Disjoint DEF IInv, KeptUnlessDropped, TypeOK

LEMMA AnchoredInit == Init => Anchored
<1> SUFFICES ASSUME Init PROVE Anchored
  OBVIOUS
<1>1. \A k \in Child : ~mr[k].exists /\ ~mr[k].ok /\ ~mr[k].dying
  <2>1. \A k \in Child : mr[k] = AbsentMR
    BY DEF Init
  <2> QED
    BY <2>1 DEF AbsentMR
<1>2. plan.desired = {} /\ refs = {}
  BY DEF Init, NoPlan
<1>3. \A c \in Checks : running[c] = 0
  BY DEF Init
<1>4. AlertsOfChecks
  BY DEF Init, AlertsOfChecks
<1> QED
  BY <1>1, <1>2, <1>3, <1>4
  DEF Anchored, Referred, InstalledFirst, RunsOnlyCreated, OfIssuedTokens

(* A turn asks for more than the installation once it is reported, and for  *)
(* the verifier of the current token only.                                  *)
LEMMA RenderedInOrder ==
  ASSUME IInv
  PROVE  /\ Installation \in Rendered
         /\ Rendered \subseteq {Installation} \/ Reported(Installation)
         /\ Reported(Installation) => Wiring \cup {Verifier(token)} \subseteq Rendered
         /\ \A t \in Tokens : Verifier(t) \in Rendered => t = token
<1>1. Installation \in Rendered
  BY DEF Rendered
<1>2. Rendered \subseteq {Installation} \/ Reported(Installation)
  BY DEF Rendered, Verified
<1>3. Reported(Installation) => Wiring \cup {Verifier(token)} \subseteq Rendered
  BY DEF Rendered
<1>4. ASSUME NEW t \in Tokens, Verifier(t) \in Rendered PROVE t = token
  <2>1. Verifier(t) \notin Declared
    BY Members, Disjoint, DeclaredNames DEF IInv
  <2>2. Verifier(t) # Installation /\ Verifier(t) \notin Wiring
    BY Tags DEF Wiring
  <2>3. Verifier(t) = Verifier(token)
    BY <1>4, <2>1, <2>2 DEF Rendered
  <2>4. Verifier(t)[2] = t /\ Verifier(token)[2] = token
    BY Tags
  <2> QED
    BY <2>3, <2>4
<1> QED
  BY <1>1, <1>2, <1>3, <1>4

LEMMA AnchoredTurn == IInv /\ Anchored /\ Turn => Anchored'
<1> SUFFICES ASSUME IInv, Anchored, Turn PROVE Anchored'
  OBVIOUS
<1>1. UNCHANGED <<checks, alerting, mr, refs, running, token>>
  BY DEF Turn, request, cluster, grafana
<1>2. plan'.desired = Rendered
  BY DEF Turn
<1>3. Referred' /\ RunsOnlyCreated' /\ AlertsOfChecks'
  BY <1>1 DEF Anchored, Referred, RunsOnlyCreated, AlertsOfChecks
<1>4. InstalledFirst'
  <2>1. CASE Reported(Installation)
    BY <1>1, <2>1 DEF InstalledFirst, Reported
  <2>2. CASE Rendered \subseteq {Installation}
    BY <1>1, <1>2, <2>2 DEF Anchored, InstalledFirst
  <2> QED
    BY <2>1, <2>2, RenderedInOrder
<1>5. OfIssuedTokens'
  <2> SUFFICES ASSUME NEW t \in Tokens, Verifier(t) \in refs \cup Rendered
               PROVE  t <= token
    BY <1>1, <1>2 DEF OfIssuedTokens
  <2>1. token \in Nat /\ t \in Nat
    BY DEF IInv, TypeOK, Tokens
  <2>2. CASE Verifier(t) \in refs
    BY <2>2 DEF Anchored, OfIssuedTokens
  <2>3. CASE Verifier(t) \in Rendered
    BY <2>1, <2>3, RenderedInOrder
  <2> QED
    BY <2>2, <2>3
<1> QED
  BY <1>3, <1>4, <1>5 DEF Anchored

LEMMA AnchoredApply ==
  ASSUME IInv, Anchored, pc = "apply", NEW S \in SUBSET plan.desired, ApplyTo(S),
         plan' = NoPlan, UNCHANGED <<request, grafana, token>>
  PROVE  Anchored'
<1>1. /\ UNCHANGED <<checks, alerting, running, token>>
      /\ refs' = plan.desired /\ plan'.desired = {}
  BY DEF ApplyTo, request, grafana, NoPlan
<1>2. Installation \in Child /\ \A c \in Checks : Installation # Alerts(c)
  BY Members, Disjoint
<1>3. Referred'
  <2> SUFFICES ASSUME NEW k \in Child
               PROVE  /\ mr'[k].ok \/ mr'[k].dying => mr'[k].exists
                      /\ mr'[k].exists /\ ~mr'[k].dying => k \in plan.desired
    BY <1>1 DEF Referred
  <2>1. /\ mr'[k].exists <=> mr[k].exists \/ k \in S
        /\ mr'[k].dying <=> mr[k].dying \/ (k \in Doomed /\ k \notin S)
        /\ mr'[k].ok => mr[k].ok
    BY AppliedExactly, AppliedFields DEF IInv
  <2>2. k \in Doomed => mr[k].exists
    BY DEF Doomed, Observed
  <2>3. mr[k].exists /\ ~mr[k].dying => k \in Doomed \/ k \in plan.desired
    BY DEF Anchored, Referred, Doomed, Observed
  <2> QED
    BY <2>1, <2>2, <2>3 DEF Anchored, Referred
<1>4. InstalledFirst'
  BY <1>1, <1>2, AppliedExactly DEF IInv, Anchored, InstalledFirst
<1>5. RunsOnlyCreated'
  <2> SUFFICES ASSUME NEW c \in Checks, ~mr'[Check(c)].ok PROVE running[c] = 0
    BY <1>1 DEF RunsOnlyCreated
  <2>1. Check(c) \in Child /\ \A d \in Checks : Check(c) # Alerts(d)
    BY Members, Tags
  <2>2. ~mr[Check(c)].ok
    BY <2>1, AppliedExactly DEF IInv
  <2> QED
    BY <2>2 DEF Anchored, RunsOnlyCreated
<1>6. OfIssuedTokens' /\ AlertsOfChecks'
  BY <1>1 DEF Anchored, OfIssuedTokens, AlertsOfChecks
<1> QED
  BY <1>3, <1>4, <1>5, <1>6 DEF Anchored

(* Nothing that Crossplane, the providers or Grafana do takes a child away  *)
(* but finalising it.                                                       *)
LEMMA AnchoredCreate ==
  ASSUME IInv, Anchored, NEW k \in Child, Create(k), token' >= token,
         token' \in Nat,
         \A c \in Checks : running'[c] = running[c] \/ k = Check(c)
  PROVE  Anchored'
<1>1. /\ \A j \in Child :
           /\ mr'[j].exists <=> mr[j].exists
           /\ mr'[j].dying <=> mr[j].dying
           /\ j # k => (mr'[j].ok <=> mr[j].ok)
      /\ UNCHANGED <<checks, alerting, refs, plan>>
  BY CreatedFields DEF IInv
<1>2. mr[k].exists /\ mr'[k].ok
  <2>1. mr[k] \in ManagedResource /\ mr \in [Child -> ManagedResource]
    BY DEF IInv, TypeOK, ManagedResource
  <2> QED
    BY <2>1 DEF Create, ManagedResource
<1>3. \A j \in Child : mr[j].ok => mr'[j].ok
  BY <1>1, <1>2
<1>4. Referred'
  BY <1>1, <1>2 DEF Anchored, Referred
<1>5. InstalledFirst'
  BY <1>1, <1>3, Members DEF Anchored, InstalledFirst
<1>6. RunsOnlyCreated'
  BY <1>2, <1>3, Members DEF Anchored, RunsOnlyCreated
<1>7. OfIssuedTokens'
  BY <1>1 DEF Anchored, OfIssuedTokens, IInv, TypeOK, Tokens
<1>8. AlertsOfChecks'
  BY <1>1 DEF Anchored, AlertsOfChecks
<1> QED
  BY <1>4, <1>5, <1>6, <1>7, <1>8 DEF Anchored

LEMMA AnchoredFinalise ==
  ASSUME IInv, Anchored, NEW k \in Child, Finalise(k)
  PROVE  Anchored'
<1>1. /\ mr[k].dying /\ ~mr'[k].exists /\ ~mr'[k].dying
      /\ \A j \in Child :
           /\ mr'[j].exists => mr[j].exists
           /\ mr'[j].dying => mr[j].dying
           /\ mr'[j].ok => mr[j].ok
      /\ UNCHANGED <<checks, alerting, refs, plan, token>>
  BY FinalisedFields DEF IInv
<1>2. mr'[k] = AbsentMR
  BY DEF Finalise
<1>3. ~mr'[k].ok
  BY <1>2 DEF AbsentMR
<1>4. \A j \in Child : j # k =>
        (mr'[j].exists <=> mr[j].exists) /\ (mr'[j].dying <=> mr[j].dying)
  BY FinaliseSpares DEF IInv
<1>5. Referred'
  BY <1>1, <1>3, <1>4 DEF Anchored, Referred
<1>6. k # Installation
  BY <1>1, InstallationStays
<1>7. ASSUME mr[Installation].ok PROVE mr'[Installation].ok
  <2>1. \A c \in Checks : Installation # Alerts(c)
    BY Tags
  <2> QED
    BY <1>6, <1>7, <2>1, Members DEF Finalise
<1>8. InstalledFirst'
  BY <1>1, <1>7 DEF Anchored, InstalledFirst
<1>9. RunsOnlyCreated'
  <2> SUFFICES ASSUME NEW c \in Checks, ~mr'[Check(c)].ok PROVE running'[c] = 0
    BY DEF RunsOnlyCreated
  <2>1. Check(c) \in Child /\ \A d \in Checks : Check(c) # Alerts(d)
    BY Members, Tags
  <2>2. running'[c] = IF k = Check(c) THEN 0 ELSE running[c]
    BY DEF Finalise
  <2>3. k # Check(c) => mr'[Check(c)] = mr[Check(c)]
    BY <2>1 DEF Finalise
  <2> QED
    BY <2>2, <2>3 DEF Anchored, RunsOnlyCreated
<1>10. OfIssuedTokens' /\ AlertsOfChecks'
  BY <1>1 DEF Anchored, OfIssuedTokens, AlertsOfChecks
<1> QED
  BY <1>5, <1>8, <1>9, <1>10 DEF Anchored

LEMMA AnchoredProvider == IInv /\ Anchored /\ (Install \/ Provide) => Anchored'
<1> SUFFICES ASSUME IInv, Anchored, Install \/ Provide PROVE Anchored'
  OBVIOUS
<1>1. token \in Nat
  BY DEF IInv, TypeOK
<1>2. CASE Install
  <2>1. Create(Installation) /\ running' = running
    BY <1>2 DEF Install, grafana
  <2>2. token' >= token /\ token' \in Nat
    BY <1>1, <1>2 DEF Install
  <2> QED
    BY <2>1, <2>2, Members, AnchoredCreate
<1>3. ASSUME NEW t \in Tokens, Verify(t) PROVE Anchored'
  <2>1. Create(Verifier(t)) /\ running' = running /\ token' = token
    BY <1>3 DEF Verify
  <2>2. Verifier(t) \in Child
    BY Members
  <2> QED
    BY <1>1, <2>1, <2>2, AnchoredCreate
<1>4. ASSUME NEW c \in Checks, CreateCheck(c) PROVE Anchored'
  <2>1. Create(Check(c)) /\ token' = token
    BY <1>4 DEF CreateCheck
  <2>2. \A d \in Checks : running'[d] = running[d] \/ Check(c) = Check(d)
    BY <1>4 DEF CreateCheck, IInv, TypeOK
  <2>3. Check(c) \in Child
    BY Members
  <2> QED
    BY <1>1, <2>1, <2>2, <2>3, AnchoredCreate
<1>5. ASSUME NEW c \in Checks, UpdateCheck(c) PROVE Anchored'
  <2>1. UNCHANGED <<checks, alerting, mr, refs, plan, token>>
    BY <1>5 DEF UpdateCheck, Rest, request
  <2>2. \A d \in Checks : running'[d] = running[d] \/ d = c
    BY <1>5 DEF UpdateCheck, IInv, TypeOK
  <2>3. mr[Check(c)].ok
    BY <1>5 DEF UpdateCheck
  <2> QED
    BY <2>1, <2>2, <2>3
    DEF Anchored, Referred, InstalledFirst, RunsOnlyCreated, OfIssuedTokens,
        AlertsOfChecks
<1>6. ASSUME NEW c \in Checks, AttachAlerts(c) PROVE Anchored'
  <2>1. Create(Alerts(c)) /\ running' = running /\ token' = token
    BY <1>6 DEF AttachAlerts, grafana
  <2>2. Alerts(c) \in Child
    BY Members
  <2> QED
    BY <1>1, <2>1, <2>2, AnchoredCreate
<1>7. ASSUME NEW k \in Child, Finalise(k) PROVE Anchored'
  BY <1>7, AnchoredFinalise
<1> QED
  BY <1>2, <1>3, <1>4, <1>5, <1>6, <1>7 DEF Provide

LEMMA AnchoredStep == IInv /\ Anchored /\ [Next]_vars => Anchored'
<1> SUFFICES ASSUME IInv, Anchored, [Next]_vars PROVE Anchored'
  OBVIOUS
<1>1. ASSUME UNCHANGED <<checks, alerting, mr, refs, plan, running, token>>
      PROVE  Anchored'
  BY <1>1
  DEF Anchored, Referred, InstalledFirst, RunsOnlyCreated, OfIssuedTokens,
      AlertsOfChecks
<1>2. CASE Apply
  BY <1>2, AnchoredApply DEF Apply
<1>3. CASE Interrupt
  <2>1. CASE UNCHANGED cluster
    <3>1. UNCHANGED <<checks, alerting, mr, refs, running, token>>
          /\ plan'.desired = {}
      BY <1>3, <2>1 DEF Interrupt, request, cluster, grafana, NoPlan
    <3> QED
      BY <3>1
      DEF Anchored, Referred, InstalledFirst, RunsOnlyCreated, OfIssuedTokens,
          AlertsOfChecks
  <2>2. ASSUME NEW S \in SUBSET Changed, ApplyTo(plan.desired \ S) PROVE Anchored'
    BY <1>3, <2>2, AnchoredApply DEF Interrupt
  <2> QED
    BY <1>3, <2>1, <2>2 DEF Interrupt
<1>4. CASE Rotate
  <2>1. UNCHANGED <<checks, alerting, mr, refs, plan, running>>
    BY <1>4 DEF Rotate, Rest, request, grafana
  <2>2. token' = token + 1 /\ token \in Nat
    BY <1>4 DEF Rotate, IInv, TypeOK
  <2>3. OfIssuedTokens'
    BY <2>1, <2>2 DEF Anchored, OfIssuedTokens, Tokens
  <2> QED
    BY <2>1, <2>3
    DEF Anchored, Referred, InstalledFirst, RunsOnlyCreated, AlertsOfChecks
<1>5. ASSUME NEW k \in Child, LoseStatus(k) \/ RecoverStatus(k) PROVE Anchored'
  BY <1>1, <1>5 DEF LoseStatus, RecoverStatus, Rest, request, cluster, grafana
<1>6. CASE LoseContext \/ ResolveContext
  BY <1>1, <1>6 DEF LoseContext, ResolveContext, request, cluster, grafana
<1>7. CASE UNCHANGED vars
  BY <1>1, <1>7 DEF vars, request, cluster, grafana
<1>8. ASSUME NEW cs \in [Checks -> 0..MaxCost], NEW as \in SUBSET Checks,
             EditRequest(cs, as)
      PROVE  Anchored'
  <2>1. UNCHANGED <<mr, refs, plan, running, token>> /\ AlertsOfChecks'
    BY <1>8 DEF EditRequest, cluster, grafana, AlertsOfChecks
  <2> QED
    BY <2>1
    DEF Anchored, Referred, InstalledFirst, RunsOnlyCreated, OfIssuedTokens
<1> QED
  BY <1>2, <1>3, <1>4, <1>5, <1>6, <1>7, <1>8, AnchoredTurn, AnchoredProvider
  DEF Next

(* What is there is referred to, follows the installation, and verifiers    *)
(* follow the tokens that were issued.                                      *)
THEOREM Anchoring == Spec => [](IInv /\ Anchored)
<1> QED
  BY InitialInvariant, InvariantStep, AnchoredInit, AnchoredStep, PTL DEF Spec

(* Refusals.  What is held for one of the two reasons is refused ...        *)
LEMMA HeldIsRefused ==
  ASSUME IInv, NEW k \in Declared \cap Observed, k \notin Rendered
  PROVE  ~(Observed \ Rendered \subseteq Withdrawable)
<1>1. k \in Authored
  BY DeclaredNames DEF IInv
<1>2. k \notin Withdrawable
  BY <1>1, Disjoint DEF Withdrawable
<1> QED
  BY <1>2

LEMMA LateIsRefused == IInv /\ RotatedLate => ~Accepted
<1> SUFFICES ASSUME IInv, RotatedLate PROVE ~Accepted
  OBVIOUS
<1>1. ~Verified
  BY DEF RotatedLate, Verified
<1>2. PICK k \in Declared : k \in Observed
  BY DEF RotatedLate
<1>3. k \notin Rendered
  BY <1>1, RenderedNames, DeclaredNames DEF IInv
<1> QED
  BY <1>2, <1>3, HeldIsRefused DEF Accepted

LEMMA OrphanIsRefused == IInv /\ Orphaned => ~Accepted
<1> SUFFICES ASSUME IInv, Orphaned PROVE ~Accepted
  OBVIOUS
<1>1. PICK c \in Checks :
        Alerts(c) \in Declared \cap Observed /\ ~Reported(Check(c))
  BY DEF Orphaned
<1>2. Alerts(c) \notin Rendered
  BY <1>1, RenderedNames DEF IInv, Alertable
<1> QED
  BY <1>1, <1>2, HeldIsRefused DEF Accepted

(* ... and at rest nothing else is.                                         *)
LEMMA InstalledReported ==
  ASSUME IInv, Anchored, Resting, NEW k \in Observed, k # Installation
  PROVE  Reported(Installation) /\ token # 0
<1>1. k \in refs
  BY DEF Observed
<1>2. mr[Installation].ok
  BY <1>1 DEF Anchored, InstalledFirst
<1>3. mr[Installation].exists /\ Installation \in refs
  BY <1>2, Members, InstallationStays DEF Anchored, Referred
<1> QED
  BY <1>2, <1>3 DEF Reported, Observed, Resting, Waiting, IInv, Issued

LEMMA AlertsDeclared ==
  ASSUME TypeOK, NEW c \in Checks
  PROVE  (Alerts(c) \in Declared <=> c \in alerting)
         /\ (Check(c) \in Declared <=> checks[c] > 0)
<1>1. \A d \in Checks : /\ Alerts(c) # Check(d)
                        /\ Alerts(c) = Alerts(d) => c = d
                        /\ Check(c) = Check(d) => c = d
                        /\ Check(c) # Alerts(d)
  BY Tags
<1>2. alerting \subseteq Checks
  BY DEF TypeOK
<1>3. ASSUME Alerts(c) \in Declared PROVE c \in alerting
  BY <1>1, <1>2, <1>3 DEF Declared
<1>4. ASSUME Check(c) \in Declared PROVE checks[c] > 0
  BY <1>1, <1>2, <1>4 DEF Declared
<1>5. /\ c \in alerting => Alerts(c) \in Declared
      /\ checks[c] > 0 => Check(c) \in Declared
  BY DEF Declared
<1> QED
  BY <1>3, <1>4, <1>5

LEMMA OnlyHeldIsRefused ==
  ASSUME IInv, Anchored, Resting, WithinBudget, ~RotatedLate, ~Orphaned
  PROVE  Accepted
<1> SUFFICES ASSUME NEW k \in Observed, k \notin Rendered, k \notin Withdrawable
             PROVE  FALSE
  BY DEF Accepted
<1>1. k # Installation
  BY RenderedInOrder
<1>2. Reported(Installation) /\ token # 0
  BY <1>1, InstalledReported
<1>3. k \in Child
  BY DEF Observed, IInv, TypeOK
<1>4. k \notin Wiring
  BY <1>2, RenderedInOrder
<1>5. k \in Declared
  BY <1>1, <1>3, <1>4 DEF Child, Withdrawable, Verifiers, Authored
<1>6. Reported(Verifier(token))
  BY <1>2, <1>5 DEF RotatedLate
<1>7. Verified
  BY <1>2, <1>6 DEF Verified
<1>8. PICK c \in Checks : k = Alerts(c) /\ ~Alertable(c)
  BY <1>5, <1>7 DEF Rendered
<1>9. c \in alerting
  BY <1>5, <1>8, AlertsDeclared DEF IInv
<1> QED
  BY <1>5, <1>8, <1>9 DEF Alertable, Orphaned

LEMMA RefusedExactly ==
  IInv /\ Anchored /\ Resting =>
    (Accepted <=> WithinBudget /\ ~RotatedLate /\ ~Orphaned)
<1>1. Accepted => WithinBudget
  BY DEF Accepted
<1> QED
  BY <1>1, LateIsRefused, OrphanIsRefused, OnlyHeldIsRefused

(* At rest a turn is refused for the budget, a late rotation or alerts      *)
(* without their check, and for nothing else.                               *)
THEOREM RefusalsExact ==
  Spec => [](Resting => (Accepted <=> WithinBudget /\ ~RotatedLate /\ ~Orphaned))
<1> QED
  BY RefusedExactly, Anchoring, PTL

-----------------------------------------------------------------------------
(* When nothing is left to do.                                              *)

LEMMA SettledInstallation ==
  ASSUME IInv, Anchored, Resting, UpToDate
  PROVE  /\ Reported(Installation) /\ secret = token /\ Finished
         /\ Verified /\ status = TRUE
<1>1. Installation \in Rendered
  BY RenderedInOrder
<1>2. Reported(Installation)
  BY <1>1 DEF UpToDate, Observed, Reported, Resting, Waiting
<1>3. Wiring \cup {Verifier(token)} \subseteq Observed
  BY <1>2, RenderedInOrder DEF UpToDate
<1>4. secret = token
  BY <1>2, RenderedInOrder DEF UpToDate, Wiring
<1>5. Usable
  BY <1>3 DEF Wiring, Usable, Observed
<1>6. Finished
  BY <1>4, <1>5 DEF Resting
<1>7. Verifier(token) \in Child
  BY <1>3 DEF Observed, IInv, TypeOK
<1>8. Reported(Verifier(token))
  BY <1>3, <1>6, <1>7, VerifierName
  DEF Finished, Reported, Observed, Resting, Waiting
<1>9. Verified
  BY <1>2, <1>8 DEF Verified
<1>10. status = TRUE
  BY <1>9 DEF UpToDate, IInv, TypeOK
<1> QED
  BY <1>2, <1>4, <1>6, <1>9, <1>10

LEMMA NothingElseThere ==
  ASSUME IInv, Anchored, Resting, UpToDate, NEW k \in Child
  PROVE  mr[k].exists <=> k \in Rendered
<1>1. ASSUME mr[k].exists PROVE k \in Rendered
  BY <1>1, SettledInstallation DEF Finished, Anchored, Referred, UpToDate
<1>2. ASSUME k \in Rendered PROVE mr[k].exists
  BY <1>2 DEF UpToDate, Observed
<1> QED
  BY <1>1, <1>2

LEMMA UndeclaredNotRendered ==
  ASSUME IInv, NEW k \in Authored, k \notin Declared
  PROVE  k \notin Rendered
  BY RenderedNames DEF IInv

LEMMA SettledCheck ==
  ASSUME IInv, Anchored, Resting, UpToDate, NEW c \in Checks
  PROVE  /\ running[c] = checks[c]
         /\ checks[c] > 0 => Reported(Check(c))
<1>1. Check(c) \in Child /\ Check(c) \in Authored
  BY Members
<1>2. checks[c] \in Nat
  BY DEF IInv, TypeOK
<1>3. CASE checks[c] > 0
  <2>1. Check(c) \in Declared
    BY <1>3, AlertsDeclared DEF IInv
  <2>2. \A d \in Checks : Check(c) # Alerts(d)
    BY Tags
  <2>3. Check(c) \in Rendered
    BY <2>1, <2>2, SettledInstallation DEF Rendered
  <2>4. mr[Check(c)].exists
    BY <1>1, <2>3, NothingElseThere
  <2>5. mr[Check(c)].ok /\ running[c] = cost[c]
    BY <2>4, SettledInstallation DEF Finished
  <2>6. cost[c] = checks[c]
    BY <2>3 DEF UpToDate, RenderedCost
  <2>7. Reported(Check(c))
    BY <2>3, <2>5 DEF Reported, UpToDate, Resting, Waiting
  <2> QED
    BY <2>5, <2>6, <2>7
<1>4. CASE checks[c] = 0
  <2>1. Check(c) \notin Declared
    BY <1>4, AlertsDeclared DEF IInv
  <2>2. ~mr[Check(c)].exists
    BY <1>1, <2>1, UndeclaredNotRendered, NothingElseThere
  <2>3. running[c] = 0
    BY <1>1, <2>2 DEF Anchored, Referred, RunsOnlyCreated
  <2> QED
    BY <1>4, <2>3
<1> QED
  BY <1>2, <1>3, <1>4

LEMMA SettledAlerts ==
  ASSUME IInv, Anchored, Resting, UpToDate, NEW c \in Checks
  PROVE  /\ mr[Alerts(c)].ok <=> c \in alerting
         /\ c \in alerting => target[c] = created[c]
<1>1. Alerts(c) \in Child /\ Alerts(c) \in Authored
  BY Members
<1>2. CASE c \in alerting
  <2>1. Reported(Check(c))
    BY <1>2, SettledCheck DEF Anchored, AlertsOfChecks
  <2>2. Alerts(c) \in Declared
    BY <1>2, AlertsDeclared DEF IInv
  <2>3. \A d \in Checks : Alerts(c) = Alerts(d) => Alertable(d)
    <3>1. \A d \in Checks : Alerts(c) = Alerts(d) => c = d
      BY Tags
    <3> QED
      BY <1>2, <2>1, <3>1 DEF Alertable
  <2>4. Alerts(c) \in Rendered
    BY <2>2, <2>3, SettledInstallation DEF Rendered
  <2>5. target[c] = created[c]
    BY <2>1, <2>4 DEF UpToDate, RenderedTarget
  <2>6. mr[Alerts(c)].exists
    BY <1>1, <2>4, NothingElseThere
  <2>7. mr[Check(c)].ok
    BY <2>1 DEF Reported
  <2>8. mr[Alerts(c)].ok
    BY <2>5, <2>6, <2>7, SettledInstallation DEF Finished
  <2> QED
    BY <1>2, <2>5, <2>8
<1>3. CASE c \notin alerting
  <2>1. Alerts(c) \notin Rendered
    BY <1>1, <1>3, AlertsDeclared, UndeclaredNotRendered DEF IInv
  <2>2. ~mr[Alerts(c)].exists
    BY <1>1, <2>1, NothingElseThere
  <2>3. ~mr[Alerts(c)].ok
    BY <1>1, <2>2 DEF Anchored, Referred
  <2> QED
    BY <1>3, <2>3
<1> QED
  BY <1>2, <1>3

LEMMA SettledVerifier ==
  ASSUME IInv, Anchored, Resting, UpToDate, NEW t \in Tokens
  PROVE  mr[Verifier(t)].exists <=> t = token
<1>1. Verifier(t) \in Child
  BY Members
<1>2. mr[Verifier(t)].exists <=> Verifier(t) \in Rendered
  BY <1>1, NothingElseThere
<1>3. Verifier(token) \in Rendered
  BY SettledInstallation, RenderedInOrder
<1> QED
  BY <1>2, <1>3, RenderedInOrder

LEMMA Standstill ==
  IInv /\ Anchored =>
    Work \/ ~WithinBudget \/ Fulfilled \/ RotatedLate \/ Orphaned
<1> SUFFICES ASSUME IInv, Anchored, ~Work, WithinBudget, ~RotatedLate, ~Orphaned
             PROVE  Fulfilled
  OBVIOUS
<1>1. Resting
  BY DEF Work
<1>2. UpToDate
  BY <1>1, RefusedExactly DEF Work
<1> QED
  BY <1>1, <1>2, SettledInstallation, SettledVerifier, SettledCheck, SettledAlerts
  DEF Fulfilled

(* Nothing ever comes to a standstill short of a fulfilled request, but a   *)
(* request beyond its budget, a rotation that came too late, or alerts that *)
(* lost their check: the safety half of RequestSettles.                     *)
THEOREM NeverAtAStandstill ==
  Spec => [](Work \/ ~WithinBudget \/ Fulfilled \/ RotatedLate \/ Orphaned)
<1> QED
  BY Standstill, Anchoring, PTL

-----------------------------------------------------------------------------
(* The two reasons are permanent.                                           *)

LEMMA WedgedIsLate == IInv /\ Wedged => RotatedLate
<1> SUFFICES ASSUME IInv, Wedged PROVE RotatedLate
  OBVIOUS
<1>1. Declared \cap Observed # {}
  BY DEF Wedged, Established
<1> QED
  BY <1>1 DEF Wedged, RotatedLate, Reported, Observed

LEMMA StrandedIsOrphaned == Stranded => Orphaned
  BY DEF Stranded, Orphaned, Reported, Observed

(* What a step must leave alone for a child to stay established.            *)
LEMMA EstablishedStays ==
  ASSUME IInv, Established, UNCHANGED <<checks, alerting, refs, plan, pc>>,
         \A k \in Child : mr[k].exists /\ ~mr[k].dying =>
           mr'[k].exists /\ ~mr'[k].dying
  PROVE  Established'
<1>1. PICK k \in Declared \cap Observed :
        ~mr[k].dying /\ (pc = "apply" => k \in plan.desired)
  BY DEF Established
<1>2. k \in Child /\ mr[k].exists /\ k \in refs
  BY <1>1 DEF Observed, IInv, TypeOK
<1>3. k \in Declared' /\ k \in Observed' /\ ~mr'[k].dying
  BY <1>1, <1>2 DEF Declared, Observed
<1> QED
  BY <1>1, <1>3 DEF Established

LEMMA EstablishedApply ==
  ASSUME IInv, Established, pc = "apply", pc' = "idle",
         NEW S \in SUBSET plan.desired, ApplyTo(S),
         UNCHANGED <<checks, alerting>>
  PROVE  Established'
<1>1. PICK k \in Declared \cap Observed : ~mr[k].dying /\ k \in plan.desired
  BY DEF Established
<1>2. k \in Child /\ mr[k].exists /\ k \notin Doomed
  BY <1>1 DEF Observed, Doomed, IInv, TypeOK
<1>3. mr'[k].exists /\ ~mr'[k].dying
  BY <1>1, <1>2, AppliedExactly DEF IInv
<1>4. k \in Declared' /\ k \in Observed'
  BY <1>1, <1>3 DEF Declared, Observed, ApplyTo
<1> QED
  BY <1>3, <1>4 DEF Established

(* No provider takes away what stays.                                       *)
LEMMA ProvidersSpare ==
  ASSUME IInv, Install \/ Provide
  PROVE  /\ \A k \in Child : mr[k].exists /\ ~mr[k].dying =>
              mr'[k].exists /\ ~mr'[k].dying
         /\ \A k \in Child : mr'[k].exists => mr[k].exists
         /\ UNCHANGED <<checks, alerting, refs, plan, pc>>
         /\ token # 0 => token' = token
<1> DEFINE Spared ==
             /\ \A k \in Child : mr[k].exists /\ ~mr[k].dying =>
                  mr'[k].exists /\ ~mr'[k].dying
             /\ \A k \in Child : mr'[k].exists => mr[k].exists
             /\ UNCHANGED <<checks, alerting, refs, plan, pc>>
<1>1. ASSUME NEW k \in Child, Create(k) PROVE Spared
  BY <1>1, CreatedFields DEF IInv
<1>2. ASSUME NEW k \in Child, Finalise(k) PROVE Spared
  <2>1. /\ mr[k].dying
        /\ \A j \in Child : mr'[j].exists => mr[j].exists
        /\ UNCHANGED <<checks, alerting, refs, plan, pc>>
    BY <1>2, FinalisedFields DEF IInv
  <2>2. \A j \in Child : j # k =>
          (mr'[j].exists <=> mr[j].exists) /\ (mr'[j].dying <=> mr[j].dying)
    BY <1>2, FinaliseSpares DEF IInv
  <2> QED
    BY <2>1, <2>2
<1>3. ASSUME NEW c \in Checks, UpdateCheck(c) PROVE Spared
  BY <1>3 DEF UpdateCheck, Rest, request
<1> HIDE DEF Spared
<1>4. Install => Spared
  BY <1>1, Members DEF Install
<1>5. ASSUME NEW t \in Tokens, Verify(t) PROVE Spared
  BY <1>1, <1>5, Members DEF Verify
<1>6. ASSUME NEW c \in Checks, CreateCheck(c) \/ AttachAlerts(c) PROVE Spared
  BY <1>1, <1>6, Members DEF CreateCheck, AttachAlerts
<1>7. Spared
  BY <1>2, <1>3, <1>4, <1>5, <1>6 DEF Provide
<1>8. token # 0 => token' = token
  BY DEF Install, Provide, Verify, CreateCheck, UpdateCheck, AttachAlerts,
         Finalise
<1> QED
  BY <1>7, <1>8 DEF Spared

LEMMA WedgedStays ==
  ASSUME IInv, Wedged, token' = token,
         UNCHANGED <<checks, alerting, refs, plan, pc>>,
         \A k \in Child : mr[k].exists /\ ~mr[k].dying =>
           mr'[k].exists /\ ~mr'[k].dying
  PROVE  Wedged'
  BY EstablishedStays DEF Wedged

LEMMA WedgedRotate ==
  ASSUME IInv, Anchored, Established, Rotate
  PROVE  Wedged'
<1>1. UNCHANGED <<checks, alerting, mr, refs, plan, pc>>
  BY DEF Rotate, Rest, request
<1>2. token' = token + 1 /\ token \in 1..MaxRotations
  BY DEF Rotate
<1>3. token' \in Tokens /\ ~(token' <= token) /\ token' # 0
  BY <1>2 DEF Tokens
<1>4. Verifier(token') \notin refs \cup plan.desired
  BY <1>3 DEF Anchored, OfIssuedTokens
<1>5. Established'
  BY <1>1, EstablishedStays
<1> QED
  BY <1>1, <1>3, <1>4, <1>5 DEF Wedged

LEMMA WedgedStep ==
  IInv /\ Anchored /\ Wedged /\ [Next]_vars /\ UNCHANGED <<checks, alerting>>
    => Wedged'
<1> SUFFICES ASSUME IInv, Anchored, Wedged, [Next]_vars,
                    UNCHANGED <<checks, alerting>>
             PROVE  Wedged'
  OBVIOUS
<1>1. ASSUME UNCHANGED <<mr, refs, plan, pc, token>> PROVE Wedged'
  BY <1>1, WedgedStays
<1>2. CASE Turn
  BY <1>2, WedgedIsLate, LateIsRefused DEF Turn, Accepted
<1>3. ASSUME NEW S \in SUBSET plan.desired, ApplyTo(S), pc = "apply",
             pc' = "idle", plan' = NoPlan, token' = token
      PROVE  Wedged'
  <2>1. Established'
    BY <1>3, EstablishedApply DEF Wedged
  <2>2. refs' = plan.desired /\ plan'.desired = {}
    BY <1>3 DEF ApplyTo, NoPlan
  <2> QED
    BY <1>3, <2>1, <2>2 DEF Wedged
<1>4. CASE Apply
  BY <1>3, <1>4 DEF Apply
<1>5. CASE Interrupt
  <2>1. pc = "apply" /\ pc' = "idle" /\ plan' = NoPlan /\ token' = token
    BY <1>5 DEF Interrupt
  <2>2. CASE UNCHANGED cluster
    <3>1. UNCHANGED <<mr, refs>> /\ plan'.desired = {}
      BY <2>1, <2>2 DEF cluster, NoPlan
    <3>2. Declared' = Declared /\ Observed' = Observed
      BY <3>1 DEF Declared, Observed
    <3>3. Established'
      BY <2>1, <3>1, <3>2 DEF Wedged, Established
    <3> QED
      BY <2>1, <3>1, <3>3 DEF Wedged
  <2>3. ASSUME NEW S \in SUBSET Changed, ApplyTo(plan.desired \ S) PROVE Wedged'
    BY <1>3, <2>1, <2>3
  <2> QED
    BY <1>5, <2>2, <2>3 DEF Interrupt
<1>6. CASE Install \/ Provide
  BY <1>6, ProvidersSpare, WedgedStays DEF Wedged
<1>7. CASE Rotate
  BY <1>7, WedgedRotate DEF Wedged
<1>8. ASSUME NEW k \in Child, LoseStatus(k) \/ RecoverStatus(k) PROVE Wedged'
  BY <1>1, <1>8 DEF LoseStatus, RecoverStatus, Rest, cluster
<1>9. CASE LoseContext \/ ResolveContext
  BY <1>1, <1>9 DEF LoseContext, ResolveContext, cluster
<1>10. CASE UNCHANGED vars
  BY <1>1, <1>10 DEF vars, cluster
<1>11. ASSUME NEW cs \in [Checks -> 0..MaxCost], NEW as \in SUBSET Checks,
              EditRequest(cs, as)
       PROVE  Wedged'
  BY <1>1, <1>11 DEF EditRequest, cluster
<1> QED
  BY <1>2, <1>4, <1>5, <1>6, <1>7, <1>8, <1>9, <1>10, <1>11 DEF Next

(* Every rotation that meets a check in place is too late: the new verifier *)
(* is not asked for.                                                        *)
THEOREM RotationWedges == Spec => [][Rotate /\ Established => Wedged']_vars
<1>1. IInv /\ Anchored /\ [Next]_vars => [Rotate /\ Established => Wedged']_vars
  BY WedgedRotate
<1> QED
  BY <1>1, Anchoring, PTL DEF Spec

(* It stays too late until the team edits the request, however often the    *)
(* token is rotated again: no turn is accepted in between.                  *)
THEOREM WedgedUntilEdited ==
  Spec => /\ [](Wedged => ~Accepted)
          /\ [][Wedged /\ UNCHANGED <<checks, alerting>> => Wedged']_vars
<1>1. IInv => (Wedged => ~Accepted)
  BY WedgedIsLate, LateIsRefused
<1>2. IInv /\ Anchored /\ [Next]_vars =>
        [Wedged /\ UNCHANGED <<checks, alerting>> => Wedged']_vars
  BY WedgedStep
<1> QED
  BY <1>1, <1>2, Anchoring, PTL DEF Spec

LEMMA StrandedStep ==
  IInv /\ Anchored /\ Stranded /\ [Next]_vars /\ UNCHANGED <<checks, alerting>>
    => Stranded'
<1> SUFFICES ASSUME IInv, Anchored, Stranded, [Next]_vars,
                    UNCHANGED <<checks, alerting>>
             PROVE  Stranded'
  OBVIOUS
<1>1. ASSUME UNCHANGED <<refs, pc>>,
             \A k \in Child : mr[k].exists /\ ~mr[k].dying =>
               mr'[k].exists /\ ~mr'[k].dying,
             \A k \in Child : mr'[k].exists => mr[k].exists
      PROVE  Stranded'
  <2>1. PICK c \in Checks :
          /\ Alerts(c) \in Declared \cap Observed /\ ~mr[Alerts(c)].dying
          /\ ~mr[Check(c)].exists
    BY DEF Stranded
  <2>2. Alerts(c) \in Child /\ Check(c) \in Child /\ mr[Alerts(c)].exists
    BY <2>1, Members DEF Observed
  <2>3. /\ mr'[Alerts(c)].exists /\ ~mr'[Alerts(c)].dying
        /\ ~mr'[Check(c)].exists
    BY <1>1, <2>1, <2>2
  <2>4. Alerts(c) \in Declared' /\ Alerts(c) \in Observed'
    BY <1>1, <2>1, <2>3 DEF Declared, Observed
  <2> QED
    BY <1>1, <2>3, <2>4 DEF Stranded
<1>2. ASSUME UNCHANGED <<mr, refs, pc>> PROVE Stranded'
  BY <1>1, <1>2
<1>3. CASE Turn
  BY <1>3, StrandedIsOrphaned, OrphanIsRefused DEF Turn, Accepted
<1>4. CASE Apply \/ Interrupt
  BY <1>4 DEF Apply, Interrupt, Stranded
<1>5. CASE Install \/ Provide
  BY <1>1, <1>5, ProvidersSpare
<1>6. CASE Rotate
  BY <1>2, <1>6 DEF Rotate, Rest
<1>7. ASSUME NEW k \in Child, LoseStatus(k) \/ RecoverStatus(k) PROVE Stranded'
  BY <1>2, <1>7 DEF LoseStatus, RecoverStatus, Rest, cluster
<1>8. CASE LoseContext \/ ResolveContext
  BY <1>2, <1>8 DEF LoseContext, ResolveContext, cluster
<1>9. CASE UNCHANGED vars
  BY <1>2, <1>9 DEF vars, cluster
<1>10. ASSUME NEW cs \in [Checks -> 0..MaxCost], NEW as \in SUBSET Checks,
              EditRequest(cs, as)
       PROVE  Stranded'
  BY <1>2, <1>10 DEF EditRequest, cluster
<1> QED
  BY <1>3, <1>4, <1>5, <1>6, <1>7, <1>8, <1>9, <1>10 DEF Next

(* Alerts that lost their check hold every turn up until the team edits the *)
(* request: the check is not created again.                                 *)
THEOREM StrandedUntilEdited ==
  Spec => /\ [](Stranded => ~Accepted)
          /\ [][Stranded /\ UNCHANGED <<checks, alerting>> => Stranded']_vars
<1>1. IInv => (Stranded => ~Accepted)
  BY StrandedIsOrphaned, OrphanIsRefused
<1>2. IInv /\ Anchored /\ [Next]_vars =>
        [Stranded /\ UNCHANGED <<checks, alerting>> => Stranded']_vars
  BY StrandedStep
<1> QED
  BY <1>1, <1>2, Anchoring, PTL DEF Spec
=============================================================================
