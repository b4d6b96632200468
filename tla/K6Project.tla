----------------------------- MODULE K6Project -----------------------------
(***************************************************************************)
(* A GrafanaK6Project: installing k6 on a vended stack, the project with   *)
(* its caps, and the load tests and schedules a team declares within them  *)
(* (renderK6Project, serviceBootstrapConfig, productWithdrawalError).      *)
(*                                                                         *)
(* The tree is staged on what is observed: the installation derives a      *)
(* token that makes a round trip through the central store before the k6   *)
(* provider can be used; the project's ID comes before its caps; load      *)
(* tests wait until both caps are current, and a schedule waits for the ID *)
(* of its load test.  Stages that fall back must not withdraw what exists: *)
(* while a cap is being updated the function returns the old workloads,    *)
(* and otherwise a turn that would drop a child the team still asks for is *)
(* Fatal.                                                                  *)
(*                                                                         *)
(* One reconcile is a Turn on a snapshot, and an Apply of what it returned *)
(* which may be interrupted after any part.  A Fatal turn is no turn, and  *)
(* a turn without context and without children returns nothing.            *)
(*                                                                         *)
(* Abstractions: what a load test needs (virtual users, duration, zones)   *)
(* is a level, and each cap permits a level: the platform's profile sets   *)
(* that of the limits, the request that of the allowed zones.  A schedule  *)
(* is the ID it targets; an ID is a test and which creation of it.         *)
(***************************************************************************)
EXTENDS Naturals

CONSTANTS
  Tests,          \* names of load tests
  Schedules,      \* names of schedules
  NoTest,         \* what a schedule that is not declared runs
  MaxLevel,       \* the highest level of a cap or a load test
  Repointing,     \* whether an edit may give a schedule another load test
  MaxEdits,       \* bound on edits of the request and of the profile
  MaxFaults       \* bound on interrupted applies and on statuses and contexts
                  \* that are momentarily lost

ASSUME NamesAssumption ==
  /\ NoTest \notin Tests
  /\ Repointing \in BOOLEAN
ASSUME BoundsAssumption ==
  /\ MaxLevel \in Nat \ {0}
  /\ MaxEdits \in Nat /\ MaxFaults \in Nat

Levels == 1..MaxLevel

Installation == <<"installation", "">>
Credentials == <<"credentials", "">>
ProviderCredentials == <<"provider-credentials", "">>
ProviderConfig == <<"provider-config", "">>
Project == <<"project", "">>
Limits == <<"limits", "">>
Zones == <<"allowed-load-zones", "">>
LoadTest(t) == <<"load-test", t>>
Schedule(s) == <<"schedule", s>>

Caps == {Limits, Zones}
Wiring == {Credentials, ProviderCredentials, ProviderConfig}
LoadTests == {LoadTest(t) : t \in Tests}
Dynamic == LoadTests \cup {Schedule(s) : s \in Schedules}
Child == {Installation, Project} \cup Wiring \cup Caps \cup Dynamic

VARIABLES
  tests,      \* spec.loadTests: the level each needs, 0 when not declared
  runs,       \* spec.schedules: the load test each runs
  zones,      \* spec.allowedLoadZones
  profile,    \* the platform's k6LimitProfile for the stack's usage
  context,    \* the stack is Ready and its bootstrap Secret resolves
  mr,         \* the composed resources in the cluster
  target,     \* forProvider.loadTestId of each schedule
  blank,      \* children whose status is momentarily empty or not current
  enforced,   \* the level each cap enforces in k6, 0 before it is created
  created,    \* how often each load test was created in k6
  refs,       \* spec.crossplane.resourceRefs
  pc, plan,   \* the running reconcile and what its turn returned
  dropped,    \* history: workloads the team ever took out of the request
  edits, faults

counters == <<edits, faults>>
request == <<tests, runs, zones, profile, dropped>>
grafana == <<blank, enforced, created>>
cluster == <<mr, target, refs>>
vars == <<request, context, cluster, grafana, pc, plan, counters>>

AbsentMR == [exists |-> FALSE, level |-> 0, ok |-> FALSE, dying |-> FALSE]
NoTarget == <<NoTest, 0>>
NoPlan == [desired |-> {}, level |-> [k \in Caps \cup LoadTests |-> 0],
           target |-> [s \in Schedules |-> NoTarget]]

-----------------------------------------------------------------------------
(* What the function observes.                                              *)

Observed == {k \in refs : mr[k].exists}
Reported(k) == k \in Observed /\ mr[k].ok /\ k \notin blank

CapLevel(c) == IF c = Limits THEN profile ELSE zones

(* Mutant: the caps only have to be Ready.                                  *)
CapsReady == \A c \in Caps : Reported(c)

(* observedDesiredCurrent: the caps were reconciled at this very level.     *)
CapsCurrent ==
  \A c \in Caps : Reported(c) /\ mr[c].level = CapLevel(c) /\ ~mr[c].dying

Declared == {LoadTest(t) : t \in {u \in Tests : tests[u] > 0}}
              \cup {Schedule(s) : s \in {r \in Schedules : runs[r] # NoTest}}

(* A load test beyond a cap is refused, and the whole request with it.      *)
WithinCaps == \A t \in Tests : tests[t] <= profile /\ tests[t] <= zones

-----------------------------------------------------------------------------
(* What the renderer returns.                                               *)

Base ==
  {Installation}
    \cup (IF Reported(Installation) THEN Wiring ELSE {})
    \cup (IF Reported(Installation) /\ Reported(ProviderCredentials)
            THEN {Project} ELSE {})
    \cup (IF /\ Reported(Installation) /\ Reported(ProviderCredentials)
             /\ Reported(Project)
            THEN Caps ELSE {})

(* Mutant: a schedule does not wait for the ID of its load test.            *)
SchedulableAtOnce(s) == runs[s] # NoTest

Schedulable(s) == runs[s] # NoTest /\ Reported(LoadTest(runs[s]))

Workloads ==
  {k \in Declared : \A s \in Schedules : k = Schedule(s) => Schedulable(s)}

(* Mutant: while a cap is updated no workload is returned.                  *)
PreservedNone == {}

(* While a cap is updated the workloads that exist are returned unchanged.  *)
Preserved == Declared \cap Observed

Rendered ==
  IF ~(Caps \subseteq Base) THEN Base
  ELSE IF CapsCurrent THEN Base \cup Workloads
  ELSE Base \cup Preserved

(* Mutant: a turn may drop a workload the team still declares.              *)
WithdrawableDynamic == Dynamic

(* The only children a turn may drop.                                       *)
Withdrawable == Dynamic \ Declared

RenderedLevel ==
  [k \in Caps \cup LoadTests |->
     IF k \in Caps THEN CapLevel(k)
     ELSE IF CapsCurrent THEN tests[k[2]] ELSE mr[k].level]

RenderedTarget ==
  [s \in Schedules |->
     IF Schedule(s) \notin Rendered THEN NoTarget
     ELSE IF CapsCurrent
       THEN <<runs[s], IF Reported(LoadTest(runs[s]))
                         THEN created[runs[s]] ELSE 0>>
     ELSE target[s]]

-----------------------------------------------------------------------------
(* A reconcile of the request.                                              *)

Turn ==
  /\ pc = "idle" /\ context /\ WithinCaps
  /\ Observed \ Rendered \subseteq Withdrawable
  /\ plan' = [desired |-> Rendered, level |-> RenderedLevel,
              target |-> RenderedTarget]
  /\ pc' = "apply"
  /\ UNCHANGED <<request, context, cluster, grafana, counters>>

Doomed == Observed \ plan.desired

(* A new level is a new generation the cap must be reconciled at again.     *)
AppliedMR(k) ==
  [mr[k] EXCEPT
     !.exists = TRUE,
     !.level = IF k \in Caps \cup LoadTests THEN plan.level[k] ELSE @,
     !.ok = @ /\ (k \in Caps => mr[k].level = plan.level[k])]

ApplyTo(S) ==
  /\ mr' = [k \in Child |->
              IF k \in S THEN AppliedMR(k)
              ELSE IF k \in Doomed THEN [mr[k] EXCEPT !.dying = TRUE]
              ELSE mr[k]]
  /\ target' = [s \in Schedules |->
                  IF Schedule(s) \in S THEN plan.target[s] ELSE target[s]]
  /\ refs' = plan.desired

Apply ==
  /\ pc = "apply"
  /\ ApplyTo(plan.desired)
  /\ pc' = "idle" /\ plan' = NoPlan
  /\ UNCHANGED <<request, context, grafana, counters>>

(* The children that applying changes at all.                               *)
Changed ==
  {k \in plan.desired :
     \/ AppliedMR(k) # mr[k]
     \/ \E s \in Schedules : k = Schedule(s) /\ plan.target[s] # target[s]}

Interrupt ==
  /\ pc = "apply" /\ faults < MaxFaults
  /\ \/ \E S \in SUBSET Changed : ApplyTo(plan.desired \ S)
     \/ UNCHANGED cluster
  /\ faults' = faults + 1
  /\ pc' = "idle" /\ plan' = NoPlan
  /\ UNCHANGED <<request, context, grafana, edits>>

-----------------------------------------------------------------------------
(* The providers and the External Secrets Operator.                         *)

Rest == <<request, context, refs, pc, plan, counters>>

Creatable(k) ==
  /\ k = Credentials => mr[Installation].ok
  /\ k = ProviderCredentials => mr[Credentials].ok
  /\ k = Project => mr[ProviderCredentials].ok
  /\ \A s \in Schedules : k = Schedule(s) =>
       LET id == target[s]
       IN id # NoTarget /\ mr[LoadTest(id[1])].ok /\ created[id[1]] = id[2]

Materialise(k) ==
  /\ mr[k].exists /\ ~mr[k].ok /\ ~mr[k].dying
  /\ k # ProviderConfig /\ Creatable(k)
  /\ mr' = [mr EXCEPT ![k] = [mr[k] EXCEPT !.ok = TRUE]]
  /\ enforced' = IF k \in Caps THEN [enforced EXCEPT ![k] = mr[k].level]
                 ELSE enforced
  /\ created' = [t \in Tests |->
                   IF k = LoadTest(t) THEN created[t] + 1 ELSE created[t]]
  /\ UNCHANGED <<target, blank>> /\ UNCHANGED Rest

Finalise(k) ==
  /\ mr[k].exists /\ mr[k].dying
  /\ mr' = [mr EXCEPT ![k] = AbsentMR]
  /\ target' = [s \in Schedules |->
                  IF k = Schedule(s) THEN NoTarget ELSE target[s]]
  /\ blank' = blank \ {k}
  /\ UNCHANGED <<enforced, created>> /\ UNCHANGED Rest

LoseStatus(k) ==
  /\ faults < MaxFaults /\ k \notin blank /\ mr[k].ok
  /\ blank' = blank \cup {k} /\ faults' = faults + 1
  /\ UNCHANGED <<request, context, cluster, enforced, created, pc, plan,
                 edits>>

RecoverStatus(k) ==
  /\ k \in blank
  /\ blank' = blank \ {k}
  /\ UNCHANGED <<mr, target, enforced, created>> /\ UNCHANGED Rest

Controllers ==
  \E k \in Child : Materialise(k) \/ Finalise(k) \/ RecoverStatus(k)

LoseContext ==
  /\ faults < MaxFaults /\ context
  /\ context' = FALSE /\ faults' = faults + 1
  /\ UNCHANGED <<request, cluster, grafana, pc, plan, edits>>

ResolveContext ==
  /\ ~context /\ context' = TRUE
  /\ UNCHANGED <<request, cluster, grafana, pc, plan, counters>>

-----------------------------------------------------------------------------
(* The team and the platform.                                               *)

(* A schedule runs a declared load test, and no other schedule runs it.     *)
Coherent(ts, rs) ==
  \A s \in Schedules : rs[s] # NoTest =>
     ts[rs[s]] > 0 /\ \A r \in Schedules \ {s} : rs[r] # rs[s]

EditRequest(ts, rs, z) ==
  /\ edits < MaxEdits /\ Coherent(ts, rs)
  /\ <<ts, rs, z>> # <<tests, runs, zones>>
  /\ Repointing \/ \A s \in Schedules : rs[s] \in {runs[s], NoTest}
                                          \/ runs[s] = NoTest
  /\ tests' = ts /\ runs' = rs /\ zones' = z
  /\ dropped' = dropped \cup {k \in Declared : k \notin Declared'}
  /\ edits' = edits + 1
  /\ UNCHANGED <<profile, context, cluster, grafana, pc, plan,
                 faults>>

EditProfile(p) ==
  /\ edits < MaxEdits /\ p # profile
  /\ profile' = p /\ edits' = edits + 1
  /\ UNCHANGED <<tests, runs, zones, dropped, context, cluster, grafana, pc,
                 plan, faults>>

-----------------------------------------------------------------------------
Init ==
  /\ tests \in [Tests -> 0..MaxLevel]
  /\ runs \in [Schedules -> Tests \cup {NoTest}]
  /\ zones \in Levels /\ profile \in Levels
  /\ Coherent(tests, runs)
  /\ context = TRUE /\ dropped = {}
  /\ mr = [k \in Child |-> AbsentMR]
  /\ target = [s \in Schedules |-> NoTarget]
  /\ blank = {} /\ enforced = [c \in Caps |-> 0]
  /\ created = [t \in Tests |-> 0]
  /\ refs = {} /\ pc = "idle" /\ plan = NoPlan
  /\ edits = 0 /\ faults = 0

Next ==
  \/ Turn \/ Apply \/ Interrupt \/ Controllers
  \/ LoseContext \/ ResolveContext
  \/ \E k \in {Installation, ProviderCredentials, Project} \cup Caps
                 \cup LoadTests : LoseStatus(k)
  \/ \E ts \in [Tests -> 0..MaxLevel], z \in Levels,
        rs \in [Schedules -> Tests \cup {NoTest}] : EditRequest(ts, rs, z)
  \/ \E p \in Levels : EditProfile(p)

Spec == Init /\ [][Next]_vars

(* Crossplane keeps reconciling, the controllers keep working and the stack *)
(* becomes Ready again; nobody has to edit anything.                        *)
Fairness ==
  /\ WF_vars(Turn) /\ WF_vars(Apply)
  /\ WF_vars(Controllers)
  /\ WF_vars(ResolveContext)

FairSpec == Spec /\ Fairness

-----------------------------------------------------------------------------
TypeOK ==
  /\ tests \in [Tests -> 0..MaxLevel]
  /\ runs \in [Schedules -> Tests \cup {NoTest}]
  /\ zones \in Levels /\ profile \in Levels /\ context \in BOOLEAN
  /\ mr \in [Child -> [exists : BOOLEAN, level : 0..MaxLevel, ok : BOOLEAN,
                       dying : BOOLEAN]]
  /\ target \in [Schedules -> (Tests \cup {NoTest}) \X Nat]
  /\ blank \subseteq Child /\ enforced \in [Caps -> 0..MaxLevel]
  /\ created \in [Tests -> Nat]
  /\ refs \subseteq Child /\ pc \in {"idle", "apply"}
  /\ plan \in [desired : SUBSET Child,
               level : [Caps \cup LoadTests -> 0..MaxLevel],
               target : [Schedules -> (Tests \cup {NoTest}) \X Nat]]
  /\ dropped \subseteq Dynamic
  /\ edits \in 0..MaxEdits /\ faults \in 0..MaxFaults

(* "Do not let either child be created in the same reconciliation that      *)
(* first creates the cap": a load test is created or changed only to what   *)
(* both caps already permit in k6, unless it was taken out of the request   *)
(* before: what is deleted between a turn and its apply is created again as *)
(* it was.                                                                  *)
CapsBeforeWorkloads ==
  [][\A k \in LoadTests \ dropped : mr'[k].level \notin {0, mr[k].level} =>
       \A c \in Caps : mr'[k].level <= enforced[c]]_vars

(* No lost status, lost context or cap update withdraws a child: only a     *)
(* workload the team took out of the request is ever deleted.               *)
KeptUnlessDropped == \A k \in Child : mr[k].dying => k \in dropped

(* "Hold it until the ID is real": whatever is lost, preserved or deleted   *)
(* meanwhile, a schedule targets an ID that k6 assigned to a load test.     *)
SchedulesTargetIDs ==
  \A s \in Schedules : mr[Schedule(s)].exists =>
    target[s][1] \in Tests /\ target[s][2] \in 1..created[target[s][1]]

(* The request as it is in the cluster and in k6.                           *)
Fulfilled ==
  /\ \A c \in Caps : enforced[c] = CapLevel(c)
  /\ \A t \in Tests : LET k == LoadTest(t) IN
       /\ mr[k].exists <=> tests[t] > 0
       /\ mr[k].exists => mr[k].level = tests[t] /\ mr[k].ok
  /\ \A s \in Schedules : LET k == Schedule(s) IN
       /\ mr[k].exists <=> runs[s] # NoTest
       /\ mr[k].exists => target[s] = <<runs[s], created[runs[s]]>> /\ mr[k].ok

(* Once the edits end, a request within its caps is fulfilled for good.     *)
RequestSettles == <>[](WithinCaps => Fulfilled)
=============================================================================
