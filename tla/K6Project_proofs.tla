-------------------------- MODULE K6Project_proofs --------------------------
(***************************************************************************)
(* Proofs about a k6 project, for any load tests, schedules and levels and *)
(* any number of edits and faults: type correctness, that only workloads   *)
(* the team took out of the request are ever withdrawn, that workloads are *)
(* written only within caps k6 already enforces, and that a schedule       *)
(* targets an ID k6 assigned; then what a turn refuses, where a request    *)
(* can come to rest, and that a wedged schedule stays wedged.              *)
(***************************************************************************)
EXTENDS K6Project, TLAPS

USE NamesAssumption, BoundsAssumption

ManagedResource ==
  [exists : BOOLEAN, level : 0..MaxLevel, ok : BOOLEAN, dying : BOOLEAN]
IDs == (Tests \cup {NoTest}) \X Nat
LevelsOf == [Caps \cup LoadTests -> 0..MaxLevel]
Plans == [desired : SUBSET Child, level : LevelsOf, target : [Schedules -> IDs]]

(* A workload that exists or is planned is declared, or once was.           *)
Accounted ==
  \A k \in Dynamic : mr[k].exists \/ k \in plan.desired =>
    k \in Declared \cup dropped

(* A plan leaves out nothing that exists but what the team took out.        *)
DropsOnly == pc = "apply" => Observed \ plan.desired \subseteq dropped

(* A cap that is reconciled enforces the level it specifies.                *)
EnforcesLevel == \A c \in Caps : mr[c].ok => enforced[c] = mr[c].level

(* A planned change of a load test stays within caps that are reconciled,   *)
(* and so stay as they are until it is applied.                             *)
Permitted ==
  pc = "apply" =>
    \A t \in Tests :
      /\ LoadTest(t) \notin dropped
      /\ plan.level[LoadTest(t)] # mr[LoadTest(t)].level
      => \A c \in Caps : mr[c].ok /\ plan.level[LoadTest(t)] <= enforced[c]

(* An ID that is reported was assigned.                                     *)
Assigned == \A t \in Tests : mr[LoadTest(t)].ok => created[t] > 0

RealID(id) == id[1] \in Tests /\ id[2] \in 1..created[id[1]]
PlannedTargets ==
  \A s \in Schedules : Schedule(s) \in plan.desired => RealID(plan.target[s])

IInv ==
  /\ TypeOK /\ KeptUnlessDropped /\ SchedulesTargetIDs
  /\ Accounted /\ DropsOnly /\ EnforcesLevel /\ Permitted
  /\ Assigned /\ PlannedTargets

-----------------------------------------------------------------------------
(* The names of children.                                                   *)

LEMMA Names ==
  /\ \A t \in Tests : LoadTest(t) \in Dynamic /\ LoadTest(t)[2] = t
  /\ \A s \in Schedules : Schedule(s) \in Dynamic
  /\ \A s \in Schedules, t \in Tests : Schedule(s) # LoadTest(t)
  /\ \A s, r \in Schedules : Schedule(s) = Schedule(r) => s = r
  /\ LoadTests \subseteq Dynamic
  /\ Dynamic \subseteq Child /\ Caps \subseteq Child
  BY DEF LoadTest, Schedule, Dynamic, LoadTests, Child

LEMMA Tags ==
  /\ Installation[1] = "installation" /\ Credentials[1] = "credentials"
  /\ ProviderCredentials[1] = "provider-credentials"
  /\ ProviderConfig[1] = "provider-config" /\ Project[1] = "project"
  /\ Limits[1] = "limits" /\ Zones[1] = "allowed-load-zones"
  /\ \A t : LoadTest(t)[1] = "load-test" /\ LoadTest(t)[2] = t
  /\ \A s : Schedule(s)[1] = "schedule"
  BY DEF Installation, Credentials, ProviderCredentials, ProviderConfig,
         Project, Limits, Zones, LoadTest, Schedule

LEMMA FixedNames ==
  /\ Caps \cap Dynamic = {}
  /\ ({Installation, Project} \cup Wiring \cup Caps) \cap Dynamic = {}
<1>1. \A k \in {Installation, Project} \cup Wiring \cup Caps :
        k[1] \notin {"load-test", "schedule"}
  BY Tags DEF Wiring, Caps
<1>2. \A k \in Dynamic : k[1] \in {"load-test", "schedule"}
  BY Tags DEF Dynamic, LoadTests
<1> QED
  BY <1>1, <1>2

LEMMA BaseNames == Base \subseteq {Installation, Project} \cup Wiring \cup Caps
  BY DEF Base

LEMMA DeclaredNames == Declared \subseteq Dynamic
  BY DEF Declared, Dynamic, LoadTests

LEMMA RenderedNames ==
  Rendered \subseteq Child /\ Rendered \cap Dynamic \subseteq Declared
<1>1. Workloads \subseteq Declared /\ Preserved \subseteq Declared
  BY DEF Workloads, Preserved
<1>2. Base \subseteq Child /\ Base \cap Dynamic = {}
  BY BaseNames, FixedNames DEF Child
<1> QED
  BY <1>1, <1>2, DeclaredNames, Names DEF Rendered

(* A test that is not declared is nobody's: its ID is never reported.       *)
LEMMA ReportedTest ==
  ASSUME TypeOK, NEW x \in Tests \cup {NoTest}, Reported(LoadTest(x))
  PROVE  x \in Tests
<1>1. LoadTest(x) \in Child
  BY DEF Reported, Observed, TypeOK
<1>2. LoadTest(NoTest) \notin Child
  <2>1. \A k \in Dynamic : k[1] = "load-test" => k[2] \in Tests
    BY Tags DEF Dynamic, LoadTests
  <2>2. \A k \in Child \ Dynamic : k[1] # "load-test"
    BY Tags DEF Child, Wiring, Caps
  <2> QED
    BY <2>1, <2>2, Tags
<1> QED
  BY <1>1, <1>2

-----------------------------------------------------------------------------
(* Types.                                                                   *)

LEMMA LevelBounds == Levels \subseteq 0..MaxLevel
  BY DEF Levels

LEMMA RenderedLevelType == TypeOK => RenderedLevel \in LevelsOf
<1> SUFFICES ASSUME TypeOK PROVE RenderedLevel \in LevelsOf
  OBVIOUS
<1>1. \A k \in Caps : CapLevel(k) \in 0..MaxLevel
  BY LevelBounds DEF CapLevel, TypeOK
<1>2. \A k \in LoadTests : tests[k[2]] \in 0..MaxLevel
  BY DEF LoadTests, LoadTest, TypeOK
<1>3. \A k \in LoadTests : mr[k].level \in 0..MaxLevel
  BY Names DEF TypeOK
<1> QED
  BY <1>1, <1>2, <1>3 DEF RenderedLevel, LevelsOf

LEMMA RenderedTargetType == TypeOK => RenderedTarget \in [Schedules -> IDs]
<1> SUFFICES ASSUME TypeOK PROVE RenderedTarget \in [Schedules -> IDs]
  OBVIOUS
<1>1. NoTarget \in IDs
  BY DEF NoTarget, IDs
<1>2. ASSUME NEW s \in Schedules
      PROVE  <<runs[s], IF Reported(LoadTest(runs[s]))
                          THEN created[runs[s]] ELSE 0>> \in IDs
  <2>1. runs[s] \in Tests \cup {NoTest}
    BY DEF TypeOK
  <2>2. Reported(LoadTest(runs[s])) => created[runs[s]] \in Nat
    BY <2>1, ReportedTest DEF TypeOK
  <2> QED
    BY <2>1, <2>2 DEF IDs
<1>3. \A s \in Schedules : target[s] \in IDs
  BY DEF TypeOK, IDs
<1> QED
  BY <1>1, <1>2, <1>3 DEF RenderedTarget

LEMMA NoPlanType == NoPlan \in Plans
<1>1. [k \in Caps \cup LoadTests |-> 0] \in LevelsOf
  BY DEF LevelsOf
<1>2. [s \in Schedules |-> NoTarget] \in [Schedules -> IDs]
  BY DEF NoTarget, IDs
<1> QED
  BY <1>1, <1>2 DEF NoPlan, Plans

LEMMA ManagedResourceType ==
  /\ AbsentMR \in ManagedResource
  /\ \A r \in ManagedResource :
       /\ [r EXCEPT !.dying = TRUE] \in ManagedResource
       /\ [r EXCEPT !.ok = TRUE] \in ManagedResource
<1>1. 0 \in 0..MaxLevel
  OBVIOUS
<1>2. AbsentMR \in ManagedResource
  BY <1>1 DEF ManagedResource, AbsentMR
<1>3. ASSUME NEW r \in ManagedResource
      PROVE  /\ [r EXCEPT !.dying = TRUE] \in ManagedResource
             /\ [r EXCEPT !.ok = TRUE] \in ManagedResource
  BY DEF ManagedResource
<1> QED
  BY <1>2, <1>3

LEMMA AppliedType ==
  ASSUME TypeOK, NEW k \in Child
  PROVE  AppliedMR(k) \in ManagedResource
<1>1. mr[k] \in ManagedResource
  BY DEF TypeOK, ManagedResource
<1> DEFINE l == IF k \in Caps \cup LoadTests THEN plan.level[k] ELSE mr[k].level
           o == mr[k].ok /\ (k \in Caps => mr[k].level = plan.level[k])
<1>2. l \in 0..MaxLevel
  BY <1>1 DEF TypeOK, ManagedResource
<1>3. o \in BOOLEAN
  BY <1>1 DEF ManagedResource
<1>4. AppliedMR(k) = [mr[k] EXCEPT !.exists = TRUE, !.level = l, !.ok = o]
  BY DEF AppliedMR
<1> HIDE DEF l, o
<1> QED
  BY <1>1, <1>2, <1>3, <1>4 DEF ManagedResource

LEMMA ApplyToType ==
  ASSUME TypeOK, NEW S \in SUBSET Child, ApplyTo(S)
  PROVE  /\ mr' \in [Child -> ManagedResource] /\ refs' \subseteq Child
         /\ target' \in [Schedules -> IDs]
<1>1. \A k \in Child : mr[k] \in ManagedResource
  BY DEF TypeOK, ManagedResource
<1>2. \A k \in Child :
        (IF k \in S THEN AppliedMR(k)
         ELSE IF k \in Doomed THEN [mr[k] EXCEPT !.dying = TRUE]
         ELSE mr[k]) \in ManagedResource
  BY <1>1, AppliedType, ManagedResourceType
<1>3. mr' \in [Child -> ManagedResource]
  BY <1>2 DEF ApplyTo
<1>4. target' \in [Schedules -> IDs]
  BY DEF ApplyTo, TypeOK, IDs
<1> QED
  BY <1>3, <1>4 DEF ApplyTo, TypeOK

LEMMA MaterialiseType ==
  ASSUME TypeOK, NEW k \in Child, Materialise(k)
  PROVE  TypeOK'
<1>1. mr' \in [Child -> ManagedResource]
  <2>1. mr' = [mr EXCEPT ![k] = [mr[k] EXCEPT !.ok = TRUE]]
    BY DEF Materialise
  <2>2. mr \in [Child -> ManagedResource]
    BY DEF TypeOK, ManagedResource
  <2> QED
    BY <2>1, <2>2, ManagedResourceType
<1>2. enforced' \in [Caps -> 0..MaxLevel]
  BY Names DEF Materialise, TypeOK
<1>3. created' \in [Tests -> Nat]
  BY DEF Materialise, TypeOK
<1>4. UNCHANGED <<tests, runs, zones, profile, dropped, context, refs, pc, plan,
                  edits, faults, target, blank>>
  BY DEF Materialise, Rest, request, counters
<1> QED
  BY <1>1, <1>2, <1>3, <1>4 DEF TypeOK, ManagedResource

LEMMA FinaliseType ==
  ASSUME TypeOK, NEW k \in Child, Finalise(k)
  PROVE  TypeOK'
<1>1. mr' \in [Child -> ManagedResource]
  BY ManagedResourceType DEF Finalise, TypeOK, ManagedResource
<1>2. target' \in [Schedules -> IDs]
  BY DEF Finalise, TypeOK, NoTarget, IDs
<1>3. UNCHANGED <<tests, runs, zones, profile, dropped, context, refs, pc, plan,
                  edits, faults, enforced, created>> /\ blank' \subseteq Child
  BY DEF Finalise, Rest, request, counters, TypeOK
<1> QED
  BY <1>1, <1>2, <1>3 DEF TypeOK, ManagedResource, IDs

LEMMA EditRequestType ==
  ASSUME TypeOK, NEW ts \in [Tests -> 0..MaxLevel], NEW z \in Levels,
         NEW rs \in [Schedules -> Tests \cup {NoTest}], EditRequest(ts, rs, z)
  PROVE  TypeOK'
<1>1. edits' \in 0..MaxEdits
  BY DEF EditRequest, TypeOK
<1>2. dropped' \subseteq Dynamic
  BY DeclaredNames DEF EditRequest, TypeOK
<1> QED
  BY <1>1, <1>2 DEF EditRequest, TypeOK, cluster, grafana

LEMMA TypeStep == TypeOK /\ [Next]_vars => TypeOK'
<1> SUFFICES ASSUME TypeOK, [Next]_vars PROVE TypeOK'
  OBVIOUS
<1>1. CASE Turn
  <2>1. plan' \in Plans
    BY <1>1, RenderedNames, RenderedLevelType, RenderedTargetType DEF Turn, Plans
  <2> QED
    BY <1>1, <2>1 DEF Turn, TypeOK, Plans, LevelsOf, IDs, request, cluster,
       grafana, counters
<1>2. CASE Apply
  <2>1. /\ mr' \in [Child -> ManagedResource] /\ refs' \subseteq Child
        /\ target' \in [Schedules -> IDs]
    BY <1>2, ApplyToType DEF Apply, TypeOK
  <2> QED
    BY <1>2, <2>1, NoPlanType
    DEF Apply, TypeOK, ManagedResource, Plans, LevelsOf, IDs, request, grafana,
        counters
<1>3. CASE Interrupt
  <2>1. /\ mr' \in [Child -> ManagedResource] /\ refs' \subseteq Child
        /\ target' \in [Schedules -> IDs]
    <3>1. CASE UNCHANGED cluster
      BY <3>1 DEF cluster, TypeOK, ManagedResource, IDs
    <3>2. ASSUME NEW S \in SUBSET Changed, ApplyTo(plan.desired \ S)
          PROVE  <2>1!:
      BY <3>2, ApplyToType DEF TypeOK
    <3> QED
      BY <1>3, <3>1, <3>2 DEF Interrupt
  <2>2. faults' \in 0..MaxFaults
    BY <1>3 DEF Interrupt, TypeOK
  <2>3. plan' \in Plans /\ pc' = "idle"
        /\ UNCHANGED <<tests, runs, zones, profile, dropped, context, blank,
                       enforced, created, edits>>
    BY <1>3, NoPlanType DEF Interrupt, request, grafana
  <2> QED
    BY <2>1, <2>2, <2>3 DEF TypeOK, ManagedResource, Plans, LevelsOf, IDs
<1>4. CASE Controllers
  <2>1. ASSUME NEW k \in Child, RecoverStatus(k) PROVE TypeOK'
    BY <2>1 DEF RecoverStatus, Rest, request, counters, TypeOK
  <2> QED
    BY <1>4, <2>1, MaterialiseType, FinaliseType DEF Controllers
<1>5. ASSUME NEW k \in Child, LoseStatus(k) PROVE TypeOK'
  <2>1. faults' \in 0..MaxFaults
    BY <1>5 DEF LoseStatus, TypeOK
  <2> QED
    BY <1>5, <2>1 DEF LoseStatus, TypeOK, request, cluster
<1>6. CASE LoseContext
  <2>1. faults' \in 0..MaxFaults
    BY <1>6 DEF LoseContext, TypeOK
  <2> QED
    BY <1>6, <2>1 DEF LoseContext, TypeOK, request, cluster, grafana
<1>7. CASE ResolveContext
  BY <1>7 DEF ResolveContext, TypeOK, request, cluster, grafana, counters
<1>8. ASSUME NEW p \in Levels, EditProfile(p) PROVE TypeOK'
  <2>1. edits' \in 0..MaxEdits
    BY <1>8 DEF EditProfile, TypeOK
  <2> QED
    BY <1>8, <2>1 DEF EditProfile, TypeOK, cluster, grafana
<1>9. CASE UNCHANGED vars
  BY <1>9 DEF vars, TypeOK, request, cluster, grafana, counters
<1>10. {Installation, ProviderCredentials, Project} \cup Caps \cup LoadTests
          \subseteq Child
  BY DEF Child, Wiring, Dynamic
<1> QED
  BY <1>1, <1>2, <1>3, <1>4, <1>5, <1>6, <1>7, <1>8, <1>9, <1>10,
     EditRequestType DEF Next

LEMMA InitialType == Init => TypeOK
<1>1. 0 \in 0..MaxEdits /\ 0 \in 0..MaxFaults /\ 0 \in Nat /\ 0 \in 0..MaxLevel
  OBVIOUS
<1>2. NoTarget \in IDs
  BY DEF NoTarget, IDs
<1>3. ASSUME Init PROVE mr \in [Child -> ManagedResource]
  BY <1>3, ManagedResourceType DEF Init
<1>4. ASSUME Init
      PROVE  /\ target \in [Schedules -> IDs] /\ created \in [Tests -> Nat]
             /\ enforced \in [Caps -> 0..MaxLevel]
  BY <1>1, <1>2, <1>4 DEF Init
<1> QED
  BY <1>1, <1>3, <1>4, NoPlanType, Zenon
  DEF Init, TypeOK, ManagedResource, Plans, LevelsOf, IDs

(* The request, its children and its plan keep their shapes.                *)
THEOREM TypeCorrect == Spec => []TypeOK
<1> QED
  BY InitialType, TypeStep, PTL DEF Spec
-----------------------------------------------------------------------------
(* The strengthened invariant.                                              *)

LEMMA InitialInvariant == Init => IInv
<1> SUFFICES ASSUME Init PROVE IInv
  OBVIOUS
<1>1. TypeOK
  BY InitialType
<1>2. \A k \in Child : mr[k] = AbsentMR
  BY DEF Init
<1>3. \A k \in Child : ~mr[k].exists /\ ~mr[k].ok /\ ~mr[k].dying
  BY <1>2 DEF AbsentMR
<1>4. plan.desired = {} /\ pc = "idle"
  BY DEF Init, NoPlan
<1> QED
  BY <1>1, <1>3, <1>4, Names
  DEF IInv, KeptUnlessDropped, SchedulesTargetIDs, Accounted, DropsOnly,
      EnforcesLevel, Permitted, Assigned, PlannedTargets

(* A turn plans only what is declared, leaves out only what was dropped,    *)
(* and changes load tests only under caps that are reconciled.              *)
LEMMA TurnStep == IInv /\ Turn => IInv'
<1> SUFFICES ASSUME IInv, Turn PROVE IInv'
  OBVIOUS
<1>1. TypeOK'
  BY TypeStep DEF IInv, Next
<1>2. /\ plan' = [desired |-> Rendered, level |-> RenderedLevel,
                  target |-> RenderedTarget]
      /\ UNCHANGED <<tests, runs, zones, profile, dropped, context, mr, target,
                     refs, blank, enforced, created>>
  BY DEF Turn, request, cluster, grafana
<1>3. /\ plan'.desired = Rendered /\ plan'.level = RenderedLevel
      /\ plan'.target = RenderedTarget
  BY <1>2
<1>4. Declared' = Declared
  BY <1>2 DEF Declared
<1>5. KeptUnlessDropped' /\ SchedulesTargetIDs' /\ EnforcesLevel' /\ Assigned'
  BY <1>2 DEF IInv, KeptUnlessDropped, SchedulesTargetIDs, EnforcesLevel, Assigned
<1>6. Accounted'
  BY <1>2, <1>3, <1>4, RenderedNames DEF IInv, Accounted
<1>7. DropsOnly'
  <2>1. \A k \in Observed : k \notin Rendered => k \in Dynamic \ Declared
    BY DEF Turn, Withdrawable
  <2>2. \A k \in Observed : mr[k].exists
    BY DEF Observed
  <2>3. Observed \ Rendered \subseteq dropped
    BY <2>1, <2>2 DEF IInv, Accounted
  <2> QED
    BY <1>2, <1>3, <2>3 DEF DropsOnly, Observed
<1>8. Permitted'
  <2> SUFFICES ASSUME NEW t \in Tests,
                      RenderedLevel[LoadTest(t)] # mr[LoadTest(t)].level,
                      NEW c \in Caps
               PROVE  mr[c].ok /\ RenderedLevel[LoadTest(t)] <= enforced[c]
    BY <1>2, <1>3 DEF Permitted
  <2>1. LoadTest(t) \in LoadTests /\ LoadTest(t) \notin Caps
    BY Names, FixedNames DEF LoadTests
  <2>2. RenderedLevel[LoadTest(t)] =
          IF CapsCurrent THEN tests[LoadTest(t)[2]] ELSE mr[LoadTest(t)].level
    BY <2>1 DEF RenderedLevel
  <2>3. CapsCurrent /\ RenderedLevel[LoadTest(t)] = tests[t]
    BY <2>2, Names
  <2>4. mr[c].ok /\ mr[c].level = CapLevel(c)
    BY <2>3 DEF CapsCurrent, Reported
  <2>5. enforced[c] = CapLevel(c)
    BY <2>4 DEF IInv, EnforcesLevel
  <2>6. tests[t] <= CapLevel(c)
    BY DEF Turn, WithinCaps, CapLevel
  <2> QED
    BY <2>3, <2>4, <2>5, <2>6
<1>9. PlannedTargets'
  <2> SUFFICES ASSUME NEW s \in Schedules, Schedule(s) \in Rendered
               PROVE  RealID(RenderedTarget[s])
    BY <1>2, <1>3 DEF PlannedTargets, RealID
  <2>1. Schedule(s) \notin Base
    BY BaseNames, FixedNames, Names
  <2>2. CASE CapsCurrent
    <3>1. Schedule(s) \in Workloads
      BY <2>1, <2>2 DEF Rendered
    <3>2. runs[s] # NoTest /\ Reported(LoadTest(runs[s]))
      BY <3>1 DEF Workloads, Schedulable
    <3>3. runs[s] \in Tests
      BY <3>2 DEF IInv, TypeOK
    <3>4. created[runs[s]] > 0 /\ created[runs[s]] \in Nat
      BY <3>2, <3>3 DEF IInv, Assigned, Reported, TypeOK
    <3>5. RenderedTarget[s] = <<runs[s], created[runs[s]]>>
      BY <2>2, <3>2 DEF RenderedTarget
    <3> QED
      BY <3>3, <3>4, <3>5 DEF RealID
  <2>3. CASE ~CapsCurrent
    <3>1. Schedule(s) \in Preserved
      BY <2>1, <2>3 DEF Rendered
    <3>2. mr[Schedule(s)].exists
      BY <3>1 DEF Preserved, Observed
    <3>3. RenderedTarget[s] = target[s]
      BY <2>3 DEF RenderedTarget
    <3> QED
      BY <3>2, <3>3 DEF IInv, SchedulesTargetIDs, RealID
  <2> QED
    BY <2>2, <2>3
<1> QED
  BY <1>1, <1>5, <1>6, <1>7, <1>8, <1>9 DEF IInv

(* What an apply, whole or interrupted, does to one child.                  *)
LEMMA AppliedFields ==
  ASSUME TypeOK, NEW S \in SUBSET plan.desired, ApplyTo(S), NEW k \in Child
  PROVE  /\ mr'[k].exists => mr[k].exists \/ k \in S
         /\ mr'[k].dying => mr[k].dying \/ k \in Doomed
         /\ mr'[k].ok => mr[k].ok
         /\ k \in Caps /\ mr'[k].ok => mr'[k].level = mr[k].level
         /\ mr'[k].level # mr[k].level =>
              k \in Caps \cup LoadTests /\ k \in S /\ mr'[k].level = plan.level[k]
<1> DEFINE l == IF k \in Caps \cup LoadTests THEN plan.level[k] ELSE mr[k].level
           o == mr[k].ok /\ (k \in Caps => mr[k].level = plan.level[k])
<1>1. mr[k] \in ManagedResource
  BY DEF TypeOK, ManagedResource
<1>2. mr'[k] = IF k \in S THEN AppliedMR(k)
               ELSE IF k \in Doomed THEN [mr[k] EXCEPT !.dying = TRUE]
               ELSE mr[k]
  BY DEF ApplyTo
<1>3. CASE k \in S
  <2>1. mr'[k] = [mr[k] EXCEPT !.exists = TRUE, !.level = l, !.ok = o]
    BY <1>2, <1>3 DEF AppliedMR
  <2>2. /\ mr'[k].dying <=> mr[k].dying
        /\ mr'[k].ok <=> o
        /\ mr'[k].level = l
    <3> HIDE DEF l, o
    <3> QED
      BY <1>1, <2>1 DEF ManagedResource
  <2>3. l # mr[k].level => k \in Caps \cup LoadTests /\ l = plan.level[k]
    OBVIOUS
  <2>4. k \in Caps /\ o => l = mr[k].level
    OBVIOUS
  <2>5. o => mr[k].ok
    OBVIOUS
  <2> HIDE DEF l, o
  <2> QED
    BY <1>3, <2>2, <2>3, <2>4, <2>5
<1>4. CASE k \notin S
  BY <1>1, <1>2, <1>4 DEF ManagedResource
<1> QED
  BY <1>3, <1>4

LEMMA ApplyToStep ==
  ASSUME IInv, pc = "apply", pc' = "idle", plan' = NoPlan,
         NEW S \in SUBSET plan.desired, ApplyTo(S),
         UNCHANGED <<request, grafana>>
  PROVE  /\ KeptUnlessDropped' /\ SchedulesTargetIDs' /\ Accounted' /\ DropsOnly'
         /\ EnforcesLevel' /\ Permitted' /\ Assigned' /\ PlannedTargets'
<1>1. UNCHANGED <<tests, runs, dropped, enforced, created>>
  BY DEF request, grafana
<1>2. Declared' = Declared
  BY <1>1 DEF Declared
<1>3. plan'.desired = {}
  BY DEF NoPlan
<1>4. KeptUnlessDropped'
  BY <1>1, AppliedFields DEF IInv, KeptUnlessDropped, Doomed, DropsOnly
<1>5. Accounted'
  BY <1>1, <1>2, <1>3, AppliedFields, Names DEF IInv, Accounted
<1>6. EnforcesLevel'
  BY <1>1, AppliedFields, Names DEF IInv, EnforcesLevel
<1>7. Assigned'
  BY <1>1, AppliedFields, Names DEF IInv, Assigned
<1>8. SchedulesTargetIDs'
  <2> SUFFICES ASSUME NEW s \in Schedules, mr'[Schedule(s)].exists
               PROVE  RealID(target'[s])
    BY <1>1 DEF SchedulesTargetIDs, RealID
  <2>1. target'[s] = IF Schedule(s) \in S THEN plan.target[s] ELSE target[s]
    BY DEF ApplyTo
  <2>2. mr[Schedule(s)].exists \/ Schedule(s) \in S
    BY AppliedFields, Names DEF IInv
  <2> QED
    BY <2>1, <2>2 DEF IInv, PlannedTargets, SchedulesTargetIDs, RealID
<1> QED
  BY <1>3, <1>4, <1>5, <1>6, <1>7, <1>8
  DEF DropsOnly, Permitted, PlannedTargets

LEMMA ApplyStep == IInv /\ Apply => IInv'
<1> SUFFICES ASSUME IInv, Apply PROVE IInv'
  OBVIOUS
<1>1. TypeOK'
  BY TypeStep DEF IInv, Next
<1>2. UNCHANGED <<request, grafana>>
  BY DEF Apply
<1> QED
  BY <1>1, <1>2, ApplyToStep DEF Apply, IInv

LEMMA InterruptStep == IInv /\ Interrupt => IInv'
<1> SUFFICES ASSUME IInv, Interrupt PROVE IInv'
  OBVIOUS
<1>1. TypeOK'
  BY TypeStep DEF IInv, Next
<1>2. pc = "apply" /\ pc' = "idle" /\ plan' = NoPlan /\ UNCHANGED <<request, grafana>>
  BY DEF Interrupt
<1>3. CASE UNCHANGED cluster
  <2>1. UNCHANGED <<tests, runs, dropped, enforced, created, mr, target, refs>>
    BY <1>2, <1>3 DEF request, grafana, cluster
  <2>2. plan'.desired = {} /\ Declared' = Declared
    BY <1>2, <2>1 DEF NoPlan, Declared
  <2> QED
    BY <1>1, <1>2, <2>1, <2>2
    DEF IInv, KeptUnlessDropped, SchedulesTargetIDs, Accounted, DropsOnly,
        EnforcesLevel, Permitted, Assigned, PlannedTargets
<1>4. ASSUME NEW S \in SUBSET Changed, ApplyTo(plan.desired \ S) PROVE IInv'
  <2>1. plan.desired \ S \in SUBSET plan.desired
    OBVIOUS
  <2> QED
    BY <1>1, <1>2, <1>4, <2>1, ApplyToStep DEF IInv
<1> QED
  BY <1>3, <1>4 DEF Interrupt

LEMMA MaterialiseStep ==
  ASSUME IInv, NEW k \in Child, Materialise(k)
  PROVE  IInv'
<1>1. TypeOK'
  BY MaterialiseType DEF IInv
<1>2. UNCHANGED <<tests, runs, dropped, refs, pc, plan, target>>
  BY DEF Materialise, Rest, request
<1>3. mr' = [mr EXCEPT ![k] = [mr[k] EXCEPT !.ok = TRUE]] /\ ~mr[k].ok
  BY DEF Materialise
<1>4. \A j \in Child :
        /\ mr'[j].exists <=> mr[j].exists
        /\ mr'[j].dying <=> mr[j].dying
        /\ mr'[j].level = mr[j].level
        /\ j # k => (mr'[j].ok <=> mr[j].ok)
        /\ mr[j].ok => mr'[j].ok
  <2>1. mr \in [Child -> ManagedResource]
    BY DEF IInv, TypeOK, ManagedResource
  <2> QED
    BY <1>3, <2>1 DEF ManagedResource
<1>5. \A c \in Caps : c # k => enforced'[c] = enforced[c]
  BY DEF Materialise, IInv, TypeOK
<1>6. k \in Caps => enforced'[k] = mr[k].level
  BY DEF Materialise, IInv, TypeOK
<1>7. \A t \in Tests : /\ created'[t] \in Nat /\ created[t] \in Nat
                       /\ created[t] <= created'[t]
                       /\ k = LoadTest(t) => created'[t] > 0
  BY DEF Materialise, IInv, TypeOK
<1>8. KeptUnlessDropped' /\ Accounted'
  BY <1>2, <1>4, Names DEF IInv, KeptUnlessDropped, Accounted, Declared
<1>9. DropsOnly'
  <2>1. Observed' \subseteq Observed
    BY <1>2, <1>4 DEF Observed, IInv, TypeOK
  <2> QED
    BY <1>2, <2>1 DEF IInv, DropsOnly
<1>10. EnforcesLevel'
  BY <1>4, <1>5, <1>6, Names DEF IInv, EnforcesLevel
<1>11. Permitted'
  BY <1>2, <1>3, <1>4, <1>5, Names DEF IInv, Permitted
<1>12. Assigned'
  <2> SUFFICES ASSUME NEW t \in Tests, mr'[LoadTest(t)].ok PROVE created'[t] > 0
    BY DEF Assigned
  <2>1. CASE k = LoadTest(t)
    BY <1>7, <2>1
  <2>2. CASE k # LoadTest(t)
    <3>1. created[t] > 0
      BY <1>4, <2>2, Names DEF IInv, Assigned
    <3> QED
      BY <1>7, <3>1
  <2> QED
    BY <2>1, <2>2
<1>13. \A id : RealID(id) => RealID(id)'
  BY <1>7 DEF RealID
<1>14. SchedulesTargetIDs' /\ PlannedTargets'
  BY <1>2, <1>4, <1>7, Names
  DEF IInv, SchedulesTargetIDs, PlannedTargets, RealID
<1> QED
  BY <1>1, <1>8, <1>9, <1>10, <1>11, <1>12, <1>14 DEF IInv

(* What is deleted was dropped, so it is neither a cap nor a load test that *)
(* a plan may still change.                                                 *)
LEMMA FinaliseStep ==
  ASSUME IInv, NEW k \in Child, Finalise(k)
  PROVE  IInv'
<1>1. TypeOK'
  BY FinaliseType DEF IInv
<1>2. UNCHANGED <<tests, runs, dropped, refs, pc, plan, enforced, created>>
  BY DEF Finalise, Rest, request
<1>3. /\ mr' = [mr EXCEPT ![k] = AbsentMR] /\ mr[k].dying
      /\ mr \in [Child -> ManagedResource]
  BY DEF Finalise, IInv, TypeOK, ManagedResource
<1>4. k \in dropped /\ k \in Dynamic /\ k \notin Caps
  BY <1>3, FixedNames DEF IInv, KeptUnlessDropped, TypeOK
<1>5. /\ \A j \in Child : j # k => mr'[j] = mr[j]
      /\ ~mr'[k].exists /\ ~mr'[k].ok /\ ~mr'[k].dying
  BY <1>3 DEF AbsentMR
<1>6. KeptUnlessDropped' /\ Accounted'
  BY <1>2, <1>5, Names DEF IInv, KeptUnlessDropped, Accounted, Declared
<1>7. DropsOnly'
  <2>1. Observed' \subseteq Observed
    BY <1>2, <1>5 DEF Observed, IInv, TypeOK
  <2> QED
    BY <1>2, <2>1 DEF IInv, DropsOnly
<1>8. EnforcesLevel'
  BY <1>2, <1>4, <1>5, Names DEF IInv, EnforcesLevel
<1>9. Permitted'
  BY <1>2, <1>4, <1>5, Names DEF IInv, Permitted
<1>10. Assigned'
  BY <1>2, <1>5, Names DEF IInv, Assigned
<1>11. SchedulesTargetIDs'
  <2> SUFFICES ASSUME NEW s \in Schedules, mr'[Schedule(s)].exists
               PROVE  RealID(target'[s])
    BY <1>2 DEF SchedulesTargetIDs, RealID
  <2>1. k # Schedule(s)
    BY <1>5
  <2>2. target'[s] = target[s] /\ mr[Schedule(s)].exists
    BY <1>5, <2>1, Names DEF Finalise
  <2> QED
    BY <2>2 DEF IInv, SchedulesTargetIDs, RealID
<1>12. PlannedTargets'
  BY <1>2 DEF IInv, PlannedTargets, RealID
<1> QED
  BY <1>1, <1>6, <1>7, <1>8, <1>9, <1>10, <1>11, <1>12 DEF IInv

LEMMA EditRequestStep ==
  ASSUME IInv, NEW ts \in [Tests -> 0..MaxLevel], NEW z \in Levels,
         NEW rs \in [Schedules -> Tests \cup {NoTest}], EditRequest(ts, rs, z)
  PROVE  IInv'
<1>1. TypeOK'
  BY EditRequestType DEF IInv
<1>2. UNCHANGED <<mr, target, refs, blank, enforced, created, pc, plan>>
  BY DEF EditRequest, cluster, grafana
<1>3. dropped \subseteq dropped' /\ Declared \subseteq Declared' \cup dropped'
  BY DEF EditRequest
<1>4. Observed' = Observed
  BY <1>2 DEF Observed
<1>5. KeptUnlessDropped' /\ Accounted'
  BY <1>2, <1>3 DEF IInv, KeptUnlessDropped, Accounted
<1>6. DropsOnly' /\ Permitted'
  BY <1>2, <1>3, <1>4 DEF IInv, DropsOnly, Permitted
<1>7. EnforcesLevel' /\ Assigned' /\ SchedulesTargetIDs' /\ PlannedTargets'
  BY <1>2 DEF IInv, EnforcesLevel, Assigned, SchedulesTargetIDs, PlannedTargets,
              RealID
<1> QED
  BY <1>1, <1>5, <1>6, <1>7 DEF IInv

LEMMA InvariantStep == IInv /\ [Next]_vars => IInv'
<1> SUFFICES ASSUME IInv, [Next]_vars PROVE IInv'
  OBVIOUS
<1>1. TypeOK'
  BY TypeStep DEF IInv
<1>2. ASSUME UNCHANGED <<tests, runs, dropped, mr, target, refs, enforced,
                         created, pc, plan>>
      PROVE  IInv'
  BY <1>1, <1>2
  DEF IInv, KeptUnlessDropped, SchedulesTargetIDs, Accounted, DropsOnly,
      EnforcesLevel, Permitted, Assigned, PlannedTargets, Declared, Observed,
      RealID
<1>3. ASSUME NEW k \in Child, RecoverStatus(k) PROVE IInv'
  BY <1>2, <1>3 DEF RecoverStatus, Rest, request
<1>4. CASE Controllers
  BY <1>3, <1>4, MaterialiseStep, FinaliseStep DEF Controllers
<1>5. ASSUME NEW k \in Child, LoseStatus(k) PROVE IInv'
  BY <1>2, <1>5 DEF LoseStatus, request, cluster
<1>6. CASE LoseContext
  BY <1>2, <1>6 DEF LoseContext, request, cluster, grafana
<1>7. CASE ResolveContext
  BY <1>2, <1>7 DEF ResolveContext, request, cluster, grafana
<1>8. ASSUME NEW p \in Levels, EditProfile(p) PROVE IInv'
  BY <1>2, <1>8 DEF EditProfile, cluster, grafana
<1>9. CASE UNCHANGED vars
  BY <1>2, <1>9 DEF vars, request, cluster, grafana
<1>10. {Installation, ProviderCredentials, Project} \cup Caps \cup LoadTests
          \subseteq Child
  BY DEF Child, Wiring, Dynamic
<1> QED
  BY <1>4, <1>5, <1>6, <1>7, <1>8, <1>9, <1>10, TurnStep, ApplyStep,
     InterruptStep, EditRequestStep DEF Next

THEOREM Invariance == Spec => []IInv
<1> QED
  BY InitialInvariant, InvariantStep, PTL DEF Spec

(* Only a workload the team took out of the request is ever withdrawn.      *)
THEOREM Kept == Spec => []KeptUnlessDropped
<1>1. IInv => KeptUnlessDropped
  BY DEF IInv
<1> QED
  BY <1>1, Invariance, PTL

(* A schedule targets an ID that k6 assigned to a load test.                *)
THEOREM RealTargets == Spec => []SchedulesTargetIDs
<1>1. IInv => SchedulesTargetIDs
  BY DEF IInv
<1> QED
  BY <1>1, Invariance, PTL

(* A load test is created or changed only to what k6's caps permit.         *)
THEOREM CapsFirst == Spec => CapsBeforeWorkloads
<1>1. IInv /\ [Next]_vars =>
        [\A k \in LoadTests \ dropped : mr'[k].level \notin {0, mr[k].level} =>
           \A c \in Caps : mr'[k].level <= enforced[c]]_vars
  <2> SUFFICES ASSUME IInv, [Next]_vars, ~UNCHANGED vars, NEW t \in Tests,
                      LoadTest(t) \notin dropped,
                      mr'[LoadTest(t)].level # mr[LoadTest(t)].level,
                      mr'[LoadTest(t)].level # 0, NEW c \in Caps
               PROVE  mr'[LoadTest(t)].level <= enforced[c]
    BY DEF LoadTests
  <2>1. LoadTest(t) \in Child
    BY Names
  <2>2. ASSUME pc = "apply", NEW S \in SUBSET plan.desired, ApplyTo(S)
        PROVE  mr'[LoadTest(t)].level <= enforced[c]
    BY <2>1, <2>2, AppliedFields DEF IInv, Permitted
  <2>3. CASE Apply
    BY <2>2, <2>3 DEF Apply
  <2>4. CASE Interrupt
    <3>1. CASE UNCHANGED cluster
      BY <3>1 DEF cluster
    <3>2. ASSUME NEW S \in SUBSET Changed, ApplyTo(plan.desired \ S)
          PROVE  mr'[LoadTest(t)].level <= enforced[c]
      <4>1. plan.desired \ S \in SUBSET plan.desired
        OBVIOUS
      <4> QED
        BY <2>2, <2>4, <3>2, <4>1 DEF Interrupt
    <3> QED
      BY <2>4, <3>1, <3>2 DEF Interrupt
  <2>5. ASSUME NEW k \in Child, Materialise(k) PROVE FALSE
    <3>1. mr \in [Child -> ManagedResource]
      BY DEF IInv, TypeOK, ManagedResource
    <3>2. mr' = [mr EXCEPT ![k] = [mr[k] EXCEPT !.ok = TRUE]]
      BY <2>5 DEF Materialise
    <3>3. mr'[LoadTest(t)].level = mr[LoadTest(t)].level
      BY <2>1, <3>1, <3>2 DEF ManagedResource
    <3> QED
      BY <3>3
  <2>6. ASSUME NEW k \in Child, Finalise(k) PROVE FALSE
    <3>1. mr' = [mr EXCEPT ![k] = AbsentMR] /\ mr \in [Child -> ManagedResource]
      BY <2>6 DEF Finalise, IInv, TypeOK, ManagedResource
    <3>2. mr'[LoadTest(t)].level \in {0, mr[LoadTest(t)].level}
      BY <2>1, <3>1 DEF AbsentMR
    <3> QED
      BY <3>2
  <2>7. CASE UNCHANGED mr
    BY <2>7
  <2> QED
    BY <2>3, <2>4, <2>5, <2>6, <2>7
    DEF Next, Turn, Controllers, RecoverStatus, LoseContext, ResolveContext,
        LoseStatus, EditRequest, EditProfile, cluster
<1> QED
  BY <1>1, Invariance, PTL DEF Spec, CapsBeforeWorkloads

-----------------------------------------------------------------------------
(* When a request stops.                                                    *)

(* A provider or the operator has a child to create or to reconcile.        *)
Waiting(k) ==
  /\ mr[k].exists /\ ~mr[k].ok /\ ~mr[k].dying
  /\ k # ProviderConfig /\ Creatable(k)

(* Between two reconciles, with the stack and every status reported and     *)
(* nothing left for the controllers to do.                                  *)
Resting ==
  /\ pc = "idle" /\ context /\ blank = {}
  /\ \A k \in Child : ~mr[k].dying /\ ~Waiting(k)

(* The turn is not Fatal.                                                   *)
Accepted == WithinCaps /\ Observed \ Rendered \subseteq Withdrawable

(* Applying what the turn returns changes nothing.                          *)
UpToDate ==
  /\ Observed = Rendered
  /\ \A k \in Rendered \cap (Caps \cup LoadTests) :
       mr[k].level = RenderedLevel[k]
  /\ \A s \in Schedules :
       Schedule(s) \in Rendered => target[s] = RenderedTarget[s]

(* What the next steps can change without another fault or edit.            *)
Work == ~Resting \/ (Accepted /\ ~UpToDate)

(* A schedule that exists was given a load test that does not.              *)
Misdirected(s) ==
  /\ runs[s] # NoTest /\ mr[Schedule(s)].exists
  /\ ~mr[LoadTest(runs[s])].exists

(* The same, and no plan is under way that would create the load test or    *)
(* withdraw the schedule.                                                   *)
Wedged ==
  \E s \in Schedules :
    /\ Misdirected(s) /\ ~mr[Schedule(s)].dying /\ Schedule(s) \in refs
    /\ LoadTest(runs[s]) \notin plan.desired
    /\ pc = "apply" => Schedule(s) \in plan.desired

(* What exists is referred to until it is withdrawn.                        *)
Anchored ==
  \A k \in Child : /\ mr[k].exists /\ ~mr[k].dying => k \in refs
                   /\ mr[k].ok \/ mr[k].dying => mr[k].exists

(* No stage is asked for before the stage it is derived from was ready.     *)
Asked(k) == mr[k].exists \/ k \in plan.desired
Staged ==
  /\ \A k \in Wiring : Asked(k) => mr[Installation].ok
  /\ Asked(Project) => mr[ProviderCredentials].ok
  /\ \A k \in Caps : Asked(k) => mr[Project].ok
  /\ \A k \in Dynamic : Asked(k) => \A c \in Caps : mr[c].exists

Steady == IInv /\ Anchored /\ Staged /\ Coherent(tests, runs)

-----------------------------------------------------------------------------
Fixed == {Installation, Project} \cup Wiring \cup Caps

LEMMA FixedChildren ==
  /\ Fixed \subseteq Child /\ Fixed \cap Dynamic = {} /\ Child = Fixed \cup Dynamic
  /\ {Installation, Project, Credentials, ProviderCredentials, ProviderConfig,
      Limits, Zones} \subseteq Fixed
  /\ {Installation, Project, Credentials, ProviderCredentials, ProviderConfig}
       \cap Caps = {}
  /\ Wiring \cap {Installation, Project} = {} /\ Installation # Project
<1>1. /\ {Installation, Project, Credentials, ProviderCredentials,
          ProviderConfig} \cap Caps = {}
      /\ Wiring \cap {Installation, Project} = {} /\ Installation # Project
  BY Tags DEF Caps, Wiring
<1> QED
  BY <1>1, FixedNames DEF Fixed, Child, Wiring, Caps

LEMMA FixedStay ==
  ASSUME IInv, NEW k \in Fixed
  PROVE  ~mr[k].dying
<1>1. dropped \subseteq Dynamic
  BY DEF IInv, TypeOK
<1> QED
  BY <1>1, FixedChildren DEF IInv, KeptUnlessDropped

(* What a stage of the base rests on.                                       *)
LEMMA BaseStages ==
  /\ Wiring \subseteq Base \/ Wiring \cap Base = {}
  /\ Wiring \cap Base # {} => Reported(Installation)
  /\ Project \in Base => Reported(ProviderCredentials)
  /\ \A c \in Caps : c \in Base => Reported(Project) /\ Caps \subseteq Base
  /\ Reported(Installation) => Wiring \subseteq Base
  /\ Reported(Installation) /\ Reported(ProviderCredentials) => Project \in Base
  /\ Reported(Installation) /\ Reported(ProviderCredentials) /\ Reported(Project)
       => Caps \subseteq Base
<1>1. Caps \cap ({Installation, Project} \cup Wiring) = {}
  BY FixedChildren DEF Wiring
<1> QED
  BY <1>1, FixedChildren DEF Base

LEMMA AppliedKeeps ==
  ASSUME TypeOK, NEW S \in SUBSET plan.desired, ApplyTo(S), NEW k \in Child
  PROVE  /\ mr[k].exists \/ k \in S => mr'[k].exists
         /\ mr[k].ok /\ k \notin Caps => mr'[k].ok
         /\ k \in Doomed => mr'[k].dying
         /\ k \notin S /\ k \notin Doomed => mr'[k] = mr[k]
         /\ k \in S => (mr'[k].dying <=> mr[k].dying)
<1> DEFINE l == IF k \in Caps \cup LoadTests THEN plan.level[k] ELSE mr[k].level
           o == mr[k].ok /\ (k \in Caps => mr[k].level = plan.level[k])
<1>1. mr[k] \in ManagedResource
  BY DEF TypeOK, ManagedResource
<1>2. mr'[k] = IF k \in S THEN AppliedMR(k)
               ELSE IF k \in Doomed THEN [mr[k] EXCEPT !.dying = TRUE]
               ELSE mr[k]
  BY DEF ApplyTo
<1>3. CASE k \in S
  <2>1. mr'[k] = [mr[k] EXCEPT !.exists = TRUE, !.level = l, !.ok = o]
    BY <1>2, <1>3 DEF AppliedMR
  <2>2. /\ mr'[k].dying <=> mr[k].dying
        /\ mr'[k].ok <=> o
        /\ mr'[k].exists
    <3> HIDE DEF l, o
    <3> QED
      BY <1>1, <2>1 DEF ManagedResource
  <2>3. mr[k].ok /\ k \notin Caps => o
    OBVIOUS
  <2>4. k \notin Doomed
    BY <1>3 DEF Doomed
  <2> HIDE DEF l, o
  <2> QED
    BY <1>3, <2>2, <2>3, <2>4
<1>4. CASE k \notin S
  BY <1>1, <1>2, <1>4 DEF ManagedResource
<1> QED
  BY <1>3, <1>4

LEMMA TurnStages ==
  ASSUME IInv, Staged
  PROVE  /\ \A k \in Wiring : k \in Rendered => mr[Installation].ok
         /\ Project \in Rendered => mr[ProviderCredentials].ok
         /\ \A k \in Caps : k \in Rendered => mr[Project].ok
         /\ \A k \in Dynamic : k \in Rendered => \A c \in Caps : mr[c].exists
<1>1. \A k \in Fixed : k \in Rendered => k \in Base
  BY DeclaredNames, FixedChildren DEF Rendered, Workloads, Preserved
<1>2. \A k \in Wiring : k \in Rendered => mr[Installation].ok
  BY <1>1, BaseStages DEF Fixed, Reported
<1>3. Project \in Rendered => mr[ProviderCredentials].ok
  BY <1>1, BaseStages DEF Fixed, Reported
<1>4. \A k \in Caps : k \in Rendered => mr[Project].ok
  BY <1>1, BaseStages DEF Fixed, Reported
<1>5. ASSUME NEW k \in Dynamic, k \in Rendered, NEW c \in Caps
      PROVE  mr[c].exists
  <2>1. k \notin Base
    BY BaseNames, FixedNames
  <2>2. CASE CapsCurrent
    BY <2>2 DEF CapsCurrent, Reported, Observed
  <2>3. CASE ~CapsCurrent
    <3>1. k \in Observed
      BY <1>5, <2>1, <2>3 DEF Rendered, Preserved
    <3> QED
      BY <3>1 DEF Observed, Staged, Asked
  <2> QED
    BY <2>2, <2>3
<1> QED
  BY <1>2, <1>3, <1>4, <1>5

LEMMA ApplySteady ==
  ASSUME IInv, Anchored, Staged, NEW S \in SUBSET plan.desired, ApplyTo(S),
         plan' = NoPlan
  PROVE  Anchored' /\ Staged'
<1>1. ASSUME NEW k \in Child
      PROVE  /\ mr'[k].exists /\ ~mr'[k].dying => k \in refs'
             /\ mr'[k].ok \/ mr'[k].dying => mr'[k].exists
  <2>1. refs' = plan.desired
    BY DEF ApplyTo
  <2>2. CASE k \in S
    BY <2>1, <2>2, AppliedKeeps DEF IInv
  <2>3. CASE k \notin S /\ k \in Doomed
    <3>1. mr[k].exists
      BY <2>3 DEF Doomed, Observed
    <3> QED
      BY <2>3, <3>1, AppliedKeeps DEF IInv
  <2>4. CASE k \notin S /\ k \notin Doomed
    <3>1. mr'[k] = mr[k]
      BY <2>4, AppliedKeeps DEF IInv
    <3>2. mr[k].exists /\ ~mr[k].dying => k \in plan.desired
      BY <2>4 DEF Doomed, Observed, Anchored
    <3> QED
      BY <2>1, <3>1, <3>2 DEF Anchored
  <2> QED
    BY <2>2, <2>3, <2>4
<1>2. ASSUME NEW k \in Child, Asked(k)' PROVE Asked(k)
  <2>1. mr'[k].exists
    BY <1>2 DEF Asked, NoPlan
  <2> QED
    BY <2>1, AppliedFields DEF IInv, Asked
<1>3. \A k \in Child : /\ mr[k].exists => mr'[k].exists
                       /\ mr[k].ok /\ k \notin Caps => mr'[k].ok
  BY AppliedKeeps DEF IInv
<1>4. Staged'
  <2>1. /\ mr[Installation].ok => mr'[Installation].ok
        /\ mr[ProviderCredentials].ok => mr'[ProviderCredentials].ok
        /\ mr[Project].ok => mr'[Project].ok
    BY <1>3, FixedChildren
  <2>2. /\ Wiring \subseteq Child /\ Caps \subseteq Child
        /\ Dynamic \subseteq Child /\ Project \in Child
    BY FixedChildren DEF Fixed
  <2> QED
    BY <1>2, <1>3, <2>1, <2>2 DEF Staged
<1> QED
  BY <1>1, <1>4 DEF Anchored

LEMMA SteadyStep == Steady /\ [Next]_vars => Steady'
<1> SUFFICES ASSUME Steady, [Next]_vars PROVE Steady'
  OBVIOUS
<1>i. IInv'
  BY InvariantStep DEF Steady
<1>c. Coherent(tests, runs)'
  <2>1. ASSUME NEW ts, NEW rs, NEW z, EditRequest(ts, rs, z)
        PROVE  Coherent(tests, runs)'
    BY <2>1 DEF EditRequest, Coherent
  <2>2. CASE UNCHANGED <<tests, runs>>
    BY <2>2 DEF Steady, Coherent
  <2>3. Turn \/ Apply \/ Interrupt \/ LoseContext \/ ResolveContext
          \/ UNCHANGED vars => UNCHANGED <<tests, runs>>
    BY DEF Turn, Apply, Interrupt, LoseContext, ResolveContext, vars, request
  <2>4. \A k : Materialise(k) \/ Finalise(k) \/ LoseStatus(k) \/ RecoverStatus(k)
          => UNCHANGED <<tests, runs>>
    BY DEF Materialise, Finalise, LoseStatus, RecoverStatus, Rest, request
  <2>5. \A p : EditProfile(p) => UNCHANGED <<tests, runs>>
    BY DEF EditProfile
  <2> QED
    BY <2>1, <2>2, <2>3, <2>4, <2>5 DEF Next, Controllers
<1>a. Anchored' /\ Staged'
  <2>m. mr \in [Child -> ManagedResource]
    BY DEF Steady, IInv, TypeOK, ManagedResource
  <2>1. CASE Turn
    <3>1. UNCHANGED <<mr, refs>> /\ plan'.desired = Rendered
      BY <2>1 DEF Turn, cluster
    <3>2. Anchored'
      BY <3>1 DEF Steady, Anchored
    <3>3. Staged'
      BY <3>1, TurnStages DEF Steady, Staged, Asked
    <3> QED
      BY <3>2, <3>3
  <2>2. CASE Apply
    BY <2>2, ApplySteady DEF Apply, Steady
  <2>3. CASE Interrupt
    <3>1. CASE UNCHANGED cluster
      <4>1. UNCHANGED <<mr, refs>> /\ plan'.desired = {}
        BY <2>3, <3>1 DEF Interrupt, cluster, NoPlan
      <4> QED
        BY <4>1 DEF Steady, Anchored, Staged, Asked
    <3>2. ASSUME NEW S, ApplyTo(plan.desired \ S) PROVE Anchored' /\ Staged'
      BY <2>3, <3>2, ApplySteady DEF Interrupt, Steady
    <3> QED
      BY <2>3, <3>1, <3>2 DEF Interrupt
  <2>4. ASSUME NEW k \in Child, Materialise(k) PROVE Anchored' /\ Staged'
    <3>1. mr' = [mr EXCEPT ![k] = [mr[k] EXCEPT !.ok = TRUE]] /\ mr[k].exists
          /\ UNCHANGED <<refs, plan>>
      BY <2>4 DEF Materialise, Rest
    <3>2. \A j \in Child : /\ mr'[j].exists = mr[j].exists
                           /\ mr'[j].dying = mr[j].dying
                           /\ mr'[j].ok => mr[j].ok \/ j = k
                           /\ mr[j].ok => mr'[j].ok
      BY <2>m, <3>1 DEF ManagedResource
    <3>3. Anchored'
      BY <3>1, <3>2 DEF Steady, Anchored
    <3>4. Staged'
      BY <3>1, <3>2, FixedChildren DEF Steady, Staged, Asked, Fixed
    <3> QED
      BY <3>3, <3>4
  <2>5. ASSUME NEW k \in Child, Finalise(k) PROVE Anchored' /\ Staged'
    <3>1. /\ \A j \in Child : mr'[j] = IF j = k THEN AbsentMR ELSE mr[j]
          /\ ~AbsentMR.exists /\ ~AbsentMR.dying /\ ~AbsentMR.ok
          /\ UNCHANGED <<refs, plan>> /\ mr[k].dying
      BY <2>m, <2>5 DEF Finalise, AbsentMR, Rest
    <3>2. \A j \in Fixed : mr'[j] = mr[j]
      BY <3>1, FixedStay, FixedChildren DEF Steady
    <3>3. Anchored'
      BY <3>1 DEF Steady, Anchored
    <3>4. Staged'
      BY <3>1, <3>2, FixedChildren DEF Steady, Staged, Asked, Fixed
    <3> QED
      BY <3>3, <3>4
  <2>6. CASE UNCHANGED <<mr, refs, plan>>
    BY <2>6 DEF Steady, Anchored, Staged, Asked
  <2>7. LoseContext \/ ResolveContext \/ UNCHANGED vars
          => UNCHANGED <<mr, refs, plan>>
    BY DEF LoseContext, ResolveContext, vars, cluster
  <2>8. \A k : LoseStatus(k) \/ RecoverStatus(k) => UNCHANGED <<mr, refs, plan>>
    BY DEF LoseStatus, RecoverStatus, cluster, Rest
  <2>9. \A p : EditProfile(p) => UNCHANGED <<mr, refs, plan>>
    BY DEF EditProfile, cluster
  <2>10. \A ts, rs, z : EditRequest(ts, rs, z) => UNCHANGED <<mr, refs, plan>>
    BY DEF EditRequest, cluster
  <2> QED
    BY <2>1, <2>2, <2>3, <2>4, <2>5, <2>6, <2>7, <2>8, <2>9, <2>10
    DEF Next, Controllers
<1> QED
  BY <1>i, <1>c, <1>a DEF Steady

LEMMA InitialSteady == Init => Steady
<1> SUFFICES ASSUME Init PROVE Steady
  OBVIOUS
<1>1. \A k \in Child : ~mr[k].exists /\ ~mr[k].ok /\ ~mr[k].dying
  BY DEF Init, AbsentMR
<1>2. plan.desired = {} /\ Coherent(tests, runs)
  BY DEF Init, NoPlan
<1> QED
  BY <1>1, <1>2, InitialInvariant, FixedChildren
  DEF Steady, Anchored, Staged, Asked, Fixed

THEOREM Steadiness == Spec => []Steady
  BY InitialSteady, SteadyStep, PTL DEF Spec

-----------------------------------------------------------------------------
(* At rest a child that waits for nothing is reported when it exists.       *)
LEMMA RestingReported ==
  ASSUME Steady, Resting, NEW k \in Child, k # ProviderConfig, Creatable(k)
  PROVE  /\ Reported(k) <=> mr[k].exists
         /\ mr[k].ok <=> mr[k].exists
<1>1. mr[k].exists => mr[k].ok
  BY DEF Resting, Waiting
<1> QED
  BY <1>1 DEF Steady, Anchored, Reported, Observed, Resting

LEMMA AlwaysCreatable ==
  /\ Creatable(Installation) /\ \A c \in Caps : Creatable(c)
  /\ \A t \in Tests : Creatable(LoadTest(t))
  /\ mr[Installation].ok => Creatable(Credentials)
  /\ mr[Credentials].ok => Creatable(ProviderCredentials)
  /\ mr[ProviderCredentials].ok => Creatable(Project)
  /\ \A c \in Caps : c # ProviderConfig
  /\ \A t \in Tests : LoadTest(t) # ProviderConfig
  /\ ProviderConfig \notin {Installation, Credentials, ProviderCredentials, Project}
<1>1. \A k : k[1] \notin {"credentials", "provider-credentials", "project", "schedule"}
               => Creatable(k)
  BY Tags DEF Creatable
<1>2. \A c \in Caps : c[1] \in {"limits", "allowed-load-zones"}
  BY Tags DEF Caps
<1> QED
  BY <1>1, <1>2, Tags DEF Creatable

LEMMA ObservedExists ==
  ASSUME Steady, Resting
  PROVE  \A k \in Child : k \in Observed <=> mr[k].exists
  BY DEF Steady, Anchored, Observed, Resting

(* At rest the base holds all of the fixed children that exist.             *)
LEMMA RestingBase ==
  ASSUME Steady, Resting
  PROVE  /\ \A k \in Fixed : mr[k].exists => k \in Base
         /\ (\E k \in Dynamic : mr[k].exists) => Caps \subseteq Base
<1> USE FixedChildren
<1>e. {Installation, ProviderCredentials, Project} \subseteq Child
  OBVIOUS
<1>r. \A k \in {Installation, ProviderCredentials, Project} :
        mr[k].ok => Reported(k)
  BY DEF Steady, Anchored, Resting, Reported, Observed
<1>0. mr[Installation].ok => Wiring \subseteq Base
  BY <1>r, BaseStages
<1>p. Steady => (mr[ProviderCredentials].ok => mr[Installation].ok)
  BY DEF Steady, Staged, Asked, Anchored, Wiring
<1>1. mr[ProviderCredentials].ok => Project \in Base
  BY <1>r, <1>p, BaseStages
<1>2. mr[Project].ok => Caps \subseteq Base
  <2>1. mr[Project].ok => mr[ProviderCredentials].ok
    BY DEF Steady, Staged, Asked, Anchored
  <2> QED
    BY <1>r, <1>p, <2>1, BaseStages
<1>3. ASSUME NEW k \in Fixed, mr[k].exists PROVE k \in Base
  <2>1. CASE k = Installation
    BY <2>1 DEF Base
  <2>2. CASE k \in Wiring
    BY <1>0, <1>3, <2>2 DEF Steady, Staged, Asked
  <2>3. CASE k = Project
    BY <1>1, <1>3, <2>3 DEF Steady, Staged, Asked
  <2>4. CASE k \in Caps
    BY <1>2, <1>3, <2>4 DEF Steady, Staged, Asked
  <2> QED
    BY <2>1, <2>2, <2>3, <2>4 DEF Fixed
<1>4. ASSUME NEW k \in Dynamic, mr[k].exists PROVE Caps \subseteq Base
  <2>1. mr[Limits].exists
    BY <1>4 DEF Steady, Staged, Asked, Caps
  <2>2. mr[Project].ok
    BY <2>1 DEF Steady, Staged, Asked, Caps
  <2> QED
    BY <1>2, <2>2
<1> QED
  BY <1>3, <1>4

LEMMA RunsDeclared ==
  ASSUME Steady, NEW s \in Schedules, runs[s] # NoTest
  PROVE  /\ runs[s] \in Tests /\ tests[runs[s]] > 0
         /\ LoadTest(runs[s]) \in Declared /\ Schedule(s) \in Declared
  BY DEF Steady, IInv, TypeOK, Coherent, Declared

LEMMA RestingAccepts ==
  ASSUME Steady, Resting
  PROVE  Accepted <=> /\ WithinCaps
                      /\ ~(CapsCurrent /\ \E s \in Schedules : Misdirected(s))
<1> USE FixedChildren
<1>o. \A k \in Child : k \in Observed <=> mr[k].exists
  BY ObservedExists
<1>w. Observed \subseteq Child
  BY DEF Observed, Steady, IInv, TypeOK
<1>1. ASSUME CapsCurrent, NEW s \in Schedules, Misdirected(s) PROVE ~Accepted
  <2>1. Schedule(s) \in Observed /\ Schedule(s) \in Declared
    BY <1>1, <1>o, Names, RunsDeclared DEF Misdirected
  <2>2. Schedule(s) \notin Base
    BY BaseNames, FixedNames, Names
  <2>3. ~Schedulable(s)
    BY <1>1 DEF Misdirected, Schedulable, Reported, Observed
  <2>4. Schedule(s) \notin Rendered
    BY <1>1, <2>2, <2>3 DEF Rendered, Workloads
  <2> QED
    BY <2>1, <2>4 DEF Accepted, Withdrawable
<1>2. ASSUME ~(CapsCurrent /\ \E s \in Schedules : Misdirected(s)),
             NEW k \in Observed, k \notin Rendered
      PROVE  k \in Withdrawable
  <2>1. k \in Child /\ mr[k].exists
    BY <1>o, <1>w
  <2>2. k \in Dynamic
    BY <1>2, <2>1, RestingBase DEF Rendered
  <2>3. Caps \subseteq Base
    BY <2>1, <2>2, RestingBase
  <2>4. SUFFICES ASSUME k \in Declared PROVE FALSE
    BY <2>2 DEF Withdrawable
  <2>5. CASE ~CapsCurrent
    BY <1>2, <2>3, <2>4, <2>5 DEF Rendered, Preserved
  <2>6. CASE CapsCurrent
    <3>1. PICK s \in Schedules : k = Schedule(s) /\ ~Schedulable(s)
      BY <1>2, <2>3, <2>4, <2>6 DEF Rendered, Workloads
    <3>2. runs[s] # NoTest
      <4>1. \A t : Schedule(s) # LoadTest(t)
        BY Tags
      <4> QED
        BY <2>4, <3>1, <4>1, Names DEF Declared
    <3>3. mr[LoadTest(runs[s])].exists
      BY <1>2, <2>1, <2>6, <3>1, <3>2 DEF Misdirected
    <3>4. Reported(LoadTest(runs[s]))
      BY <3>2, <3>3, RunsDeclared, RestingReported, AlwaysCreatable, Names
    <3> QED
      BY <3>1, <3>2, <3>4 DEF Schedulable
  <2> QED
    BY <2>5, <2>6
<1> QED
  BY <1>1, <1>2 DEF Accepted

(* At rest, once a turn changes nothing, the whole tree is there.           *)
LEMMA RestingBuilt ==
  ASSUME Steady, Resting, UpToDate
  PROVE  CapsCurrent /\ Caps \subseteq Base
<1> USE FixedChildren
<1>o. \A k \in Child : k \in Observed <=> mr[k].exists
  BY ObservedExists
<1>b. \A k \in Fixed : k \in Base => k \in Observed /\ mr[k].exists
  BY <1>o DEF UpToDate, Rendered
<1>1. Reported(Installation) /\ mr[Installation].ok
  <2>1. Installation \in Base
    BY DEF Base
  <2> QED
    BY <2>1, <1>b, RestingReported, AlwaysCreatable
<1>2. Reported(ProviderCredentials) /\ mr[ProviderCredentials].ok
  <2>1. \A k \in Wiring : mr[k].exists
    BY <1>1, <1>b, BaseStages DEF Fixed
  <2>2. mr[Credentials].ok
    BY <1>1, <2>1, RestingReported, AlwaysCreatable DEF Wiring
  <2> QED
    BY <2>1, <2>2, RestingReported, AlwaysCreatable DEF Wiring
<1>3. Reported(Project)
  BY <1>1, <1>2, <1>b, BaseStages, RestingReported, AlwaysCreatable
<1>4. Caps \subseteq Base
  BY <1>1, <1>2, <1>3, BaseStages
<1>5. ASSUME NEW c \in Caps
      PROVE  Reported(c) /\ mr[c].level = CapLevel(c) /\ ~mr[c].dying
  <2>1. c \in Fixed /\ c \in Child /\ c \in Base /\ c \in Rendered
    BY <1>4 DEF Fixed, Rendered
  <2>2. mr[c].level = RenderedLevel[c]
    BY <2>1 DEF UpToDate
  <2>3. Reported(c)
    BY <2>1, <1>b, RestingReported, AlwaysCreatable
  <2> QED
    BY <2>1, <2>2, <2>3 DEF RenderedLevel, Resting
<1> QED
  BY <1>4, <1>5 DEF CapsCurrent

LEMMA RestingFulfilled ==
  ASSUME Steady, Resting, UpToDate
  PROVE  Fulfilled
<1> USE FixedChildren
<1>o. \A k \in Child : k \in Observed <=> mr[k].exists
  BY ObservedExists
<1>c. CapsCurrent /\ Rendered = Base \cup Workloads
  BY RestingBuilt DEF Rendered
<1>w. \A k \in Dynamic : mr[k].exists <=> k \in Workloads
  <2>1. \A k \in Dynamic : k \notin Base
    BY BaseNames, FixedNames
  <2> QED
    BY <1>o, <1>c, <2>1 DEF UpToDate
<1>1. \A c \in Caps : enforced[c] = CapLevel(c)
  BY <1>c DEF Steady, IInv, EnforcesLevel, CapsCurrent, Reported
<1>2. ASSUME NEW t \in Tests
      PROVE  LET k == LoadTest(t) IN
               /\ mr[k].exists <=> tests[t] > 0
               /\ mr[k].exists => mr[k].level = tests[t] /\ mr[k].ok
                                    /\ Reported(k)
  <2>1. LoadTest(t) \in Dynamic /\ LoadTest(t) \in Child /\ LoadTest(t) \in LoadTests
        /\ LoadTest(t) \notin Caps /\ LoadTest(t)[2] = t
    BY Names, FixedNames DEF LoadTests
  <2>2. LoadTest(t) \in Declared <=> tests[t] > 0
    <3>1. \A s : LoadTest(t) # Schedule(s)
      BY Tags
    <3>2. \A u : LoadTest(u) = LoadTest(t) => u = t
      BY Tags
    <3> QED
      BY <3>1, <3>2 DEF Declared
  <2>3. LoadTest(t) \in Workloads <=> LoadTest(t) \in Declared
    BY Names DEF Workloads
  <2>4. mr[LoadTest(t)].exists => LoadTest(t) \in Rendered
    BY <1>c, <1>w, <2>1
  <2>5. mr[LoadTest(t)].exists => mr[LoadTest(t)].level = tests[t]
    <3>1. RenderedLevel[LoadTest(t)] = tests[LoadTest(t)[2]]
      BY <1>c, <2>1 DEF RenderedLevel
    <3> QED
      BY <2>1, <2>4, <3>1 DEF UpToDate
  <2> QED
    BY <1>w, <2>1, <2>2, <2>3, <2>5, RestingReported, AlwaysCreatable
<1>3. ASSUME NEW s \in Schedules
      PROVE  LET k == Schedule(s) IN
               /\ mr[k].exists <=> runs[s] # NoTest
               /\ mr[k].exists => target[s] = <<runs[s], created[runs[s]]>>
                                    /\ mr[k].ok
  <2>1. Schedule(s) \in Dynamic /\ Schedule(s) \in Child
        /\ Schedule(s) # ProviderConfig
    BY Names, Tags
  <2>2. mr[Schedule(s)].exists => runs[s] # NoTest
    BY <1>w, <2>1, Names DEF Workloads, Schedulable
  <2>3. ASSUME runs[s] # NoTest
        PROVE  /\ Reported(LoadTest(runs[s])) /\ mr[LoadTest(runs[s])].ok
               /\ runs[s] \in Tests /\ mr[Schedule(s)].exists
    <3>1. runs[s] \in Tests /\ tests[runs[s]] > 0 /\ Schedule(s) \in Declared
      BY <2>3, RunsDeclared
    <3>2. Reported(LoadTest(runs[s])) /\ mr[LoadTest(runs[s])].ok
      BY <1>2, <3>1
    <3>3. Schedule(s) \in Workloads
      BY <2>3, <3>1, <3>2, Names DEF Workloads, Schedulable
    <3> QED
      BY <1>w, <2>1, <3>1, <3>2, <3>3
  <2>4. ASSUME mr[Schedule(s)].exists
        PROVE  target[s] = <<runs[s], created[runs[s]]>> /\ mr[Schedule(s)].ok
    <3>1. Schedule(s) \in Rendered
      BY <1>c, <1>w, <2>1, <2>4
    <3>2. target[s] = <<runs[s], created[runs[s]]>>
      BY <1>c, <2>2, <2>3, <2>4, <3>1 DEF UpToDate, RenderedTarget
    <3>3. created[runs[s]] > 0 /\ runs[s] \in Tests /\ mr[LoadTest(runs[s])].ok
      BY <2>2, <2>3, <2>4 DEF Steady, IInv, Assigned
    <3>4. target[s] # NoTarget
      BY <3>2, <3>3 DEF NoTarget
    <3>5. Creatable(Schedule(s))
      <4>1. Schedule(s) \notin {Credentials, ProviderCredentials, Project}
        BY Tags
      <4>2. \A r \in Schedules : Schedule(s) = Schedule(r) => r = s
        BY Names
      <4> QED
        BY <3>2, <3>3, <3>4, <4>1, <4>2 DEF Creatable
    <3> QED
      BY <2>1, <2>4, <3>2, <3>5, RestingReported
  <2> QED
    BY <2>2, <2>3, <2>4
<1> QED
  BY <1>1, <1>2, <1>3 DEF Fulfilled

(* The safety half of RequestSettles, for any load tests, schedules, edits  *)
(* and faults: a request within its caps that is not fulfilled is never     *)
(* left with turns that change nothing or are Fatal, but where a schedule   *)
(* was given a load test that does not exist.                               *)
THEOREM NeverAtAStandstill ==
  Spec => [](Work \/ ~WithinCaps \/ Fulfilled
               \/ \E s \in Schedules : Misdirected(s))
<1>1. Steady => Work \/ ~WithinCaps \/ Fulfilled
                  \/ \E s \in Schedules : Misdirected(s)
  BY RestingAccepts, RestingFulfilled DEF Work
<1> QED
  BY <1>1, Steadiness, PTL

(* productWithdrawalError and the caps refuse exactly, once all is          *)
(* reported: a request beyond its caps, and under current caps a schedule   *)
(* whose load test does not exist.                                          *)
THEOREM RefusalsExact ==
  Spec => [](Resting =>
               (Accepted <=> /\ WithinCaps
                             /\ ~(CapsCurrent
                                    /\ \E s \in Schedules : Misdirected(s))))
<1>1. Steady => (Resting =>
                   (Accepted <=> /\ WithinCaps
                                 /\ ~(CapsCurrent
                                        /\ \E s \in Schedules : Misdirected(s))))
  BY RestingAccepts
<1> QED
  BY <1>1, Steadiness, PTL

(* A schedule moved to a load test that does not exist wedges the request   *)
(* until the team edits it: through every lost status, edit of the caps and *)
(* interrupted apply no turn creates that load test.                        *)
THEOREM WedgedUntilEdited ==
  Spec => [][Wedged /\ UNCHANGED <<tests, runs>> => Wedged']_vars
<1>1. ASSUME Steady, Next, Wedged, UNCHANGED <<tests, runs>> PROVE Wedged'
  <2>1. PICK s \in Schedules :
          /\ Misdirected(s) /\ ~mr[Schedule(s)].dying /\ Schedule(s) \in refs
          /\ LoadTest(runs[s]) \notin plan.desired
          /\ pc = "apply" => Schedule(s) \in plan.desired
    BY <1>1 DEF Wedged
  <2> DEFINE k == Schedule(s)
             t == LoadTest(runs[s])
  <2>2. /\ k \in Child /\ t \in Child /\ k \in Dynamic /\ t \in Dynamic
        /\ k \in Declared /\ k \in Observed /\ t \notin Observed
        /\ mr[k].exists /\ ~mr[t].exists /\ runs[s] # NoTest /\ runs'[s] = runs[s]
    BY <1>1, <2>1, RunsDeclared, Names DEF Misdirected, Observed
  <2>3. ASSUME mr'[k].exists, ~mr'[t].exists, ~mr'[k].dying, k \in refs',
               t \notin plan'.desired, pc' = "apply" => k \in plan'.desired
        PROVE  Wedged'
    BY <2>2, <2>3 DEF Wedged, Misdirected
  <2>m. mr \in [Child -> ManagedResource]
    BY <1>1 DEF Steady, IInv, TypeOK, ManagedResource
  <2>4. CASE Turn
    <3>1. k \in Rendered
      BY <2>2, <2>4 DEF Turn, Withdrawable
    <3>2. k \notin Base /\ t \notin Base
      BY <2>2, BaseNames, FixedNames
    <3>3. Rendered = Base \cup Preserved
      <4>1. k \notin Workloads
        <5>1. ~Schedulable(s)
          BY <2>2 DEF Schedulable, Reported
        <5> QED
          BY <5>1 DEF Workloads
      <4> QED
        BY <3>1, <3>2, <4>1 DEF Rendered
    <3>4. t \notin Rendered
      BY <2>2, <3>2, <3>3 DEF Preserved
    <3>5. UNCHANGED <<mr, refs>> /\ plan'.desired = Rendered
      BY <2>4 DEF Turn, cluster
    <3> QED
      BY <2>1, <2>2, <2>3, <3>1, <3>4, <3>5
  <2>5. ASSUME pc = "apply", pc' = "idle", plan' = NoPlan,
               NEW S \in SUBSET plan.desired, ApplyTo(S)
        PROVE  Wedged'
    <3>1. k \notin Doomed /\ refs' = plan.desired /\ k \in plan.desired
      BY <2>1, <2>5 DEF Doomed, ApplyTo
    <3>2. mr'[k].exists /\ ~mr'[k].dying
      BY <1>1, <2>1, <2>2, <2>5, <3>1, AppliedKeeps, AppliedFields
      DEF Steady, IInv
    <3>3. ~mr'[t].exists
      BY <1>1, <2>1, <2>2, <2>5, AppliedFields DEF Steady, IInv
    <3>4. plan'.desired = {}
      BY <2>5 DEF NoPlan
    <3> QED
      BY <2>3, <2>5, <3>1, <3>2, <3>3, <3>4
  <2>6. CASE Apply
    BY <2>5, <2>6 DEF Apply
  <2>7. CASE Interrupt
    <3>1. CASE UNCHANGED cluster
      <4>1. UNCHANGED <<mr, refs>> /\ plan'.desired = {} /\ pc' = "idle"
        BY <2>7, <3>1 DEF Interrupt, cluster, NoPlan
      <4> QED
        BY <2>1, <2>2, <2>3, <4>1
    <3>2. ASSUME NEW S, ApplyTo(plan.desired \ S) PROVE Wedged'
      BY <2>5, <2>7, <3>2 DEF Interrupt
    <3> QED
      BY <2>7, <3>1, <3>2 DEF Interrupt
  <2>8. ASSUME NEW j \in Child, Materialise(j) PROVE Wedged'
    <3>1. mr' = [mr EXCEPT ![j] = [mr[j] EXCEPT !.ok = TRUE]]
          /\ UNCHANGED <<pc, plan, refs>>
      BY <2>8 DEF Materialise, Rest
    <3>2. \A i \in Child : mr'[i].exists = mr[i].exists
                           /\ mr'[i].dying = mr[i].dying
      BY <2>m, <3>1 DEF ManagedResource
    <3> QED
      BY <2>1, <2>2, <2>3, <3>1, <3>2
  <2>9. ASSUME NEW j \in Child, Finalise(j) PROVE Wedged'
    <3>1. /\ \A i \in Child : mr'[i] = IF i = j THEN AbsentMR ELSE mr[i]
          /\ ~AbsentMR.exists /\ UNCHANGED <<pc, refs, plan>>
          /\ mr[j].dying
      BY <2>m, <2>9 DEF Finalise, AbsentMR, Rest
    <3>2. mr'[k] = mr[k] /\ ~mr'[t].exists
      BY <2>1, <2>2, <3>1
    <3> QED
      BY <2>1, <2>2, <2>3, <3>1, <3>2
  <2>10. CASE UNCHANGED <<mr, refs, plan, pc>>
    BY <2>1, <2>2, <2>3, <2>10
  <2>11. LoseContext \/ ResolveContext => UNCHANGED <<mr, refs, plan, pc>>
    BY DEF LoseContext, ResolveContext, cluster
  <2>12. \A j : LoseStatus(j) \/ RecoverStatus(j)
           => UNCHANGED <<mr, refs, plan, pc>>
    BY DEF LoseStatus, RecoverStatus, cluster, Rest
  <2>13. \A p : EditProfile(p) => UNCHANGED <<mr, refs, plan, pc>>
    BY DEF EditProfile, cluster
  <2>14. \A ts, rs, z : EditRequest(ts, rs, z) => UNCHANGED <<mr, refs, plan, pc>>
    BY DEF EditRequest, cluster
  <2> HIDE DEF k, t
  <2> QED
    BY <1>1, <2>4, <2>6, <2>7, <2>8, <2>9, <2>10, <2>11, <2>12, <2>13, <2>14
    DEF Next, Controllers
<1>2. Steady /\ [Next]_vars
        => [Wedged /\ UNCHANGED <<tests, runs>> => Wedged']_vars
  BY <1>1 DEF vars, request, cluster
<1> QED
  BY <1>2, Steadiness, PTL DEF Spec
=============================================================================
