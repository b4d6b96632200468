# Grafana Cloud vending machine: verification

TLA+ models of the composition function of this repository
(`src/platform/function/`), the TLC runs that check them and the TLAPS proofs
about them. Paths below are relative to `src/` unless they start with a module
name; file names without a directory are in `platform/function/`.

Contents: 1 the system, 2 the inventory, 3 how a reconcile is modelled,
4 modules and code, 5 runs, 6 fairness, 7 proofs, 8 findings and observations,
9 what is not modelled, 10 what is left.

## 1. The system

The repository is a Crossplane platform. A team writes a claim (a composite
resource, XR), for example a stack request, an on-call graph or a k6 project.
Crossplane calls one Go function, `RunFunction` (`platform/function/fn.go:87`),
for every reconcile of every XR. The function is given

- the XR itself, with its `spec` and the `status` the last reconcile persisted,
- the composed children that exist and are recorded as the XR's references,
- the other resources it asked for (the referenced stack, a Secret).

It answers with the complete set of children it wants, and a new status, or
with a Fatal result. It keeps no other state: everything it must remember
between two reconciles has to be in `status` or be readable from the children.
Crossplane then deletes the children that are no longer wanted, records the
references, applies the rest and persists the status. It may be stopped between
any two of these steps, and everything starts again with a new snapshot. The
children are managed resources of providers (Grafana, k6, External Secrets)
that create, report, update and delete objects outside the cluster in their own
time.

That gives the code its difficulty. A child that is merely left out of an
answer is deleted, together with the object outside where its management
policies include Delete. Identifiers a child is rendered from come from the
status of another one, which may be empty for a moment. A decision must be
written before it is acted on. An order (delete this after that) has to be kept
over several reconciles, each of which sees an older world. A Fatal answer
protects what exists and also stops everything else in the same answer.

## 2. Inventory

| Component | State it keeps | Operations | What makes it correct |
|---|---|---|---|
| OnCall integration identity (`oncallidentity.go`, `oncall.go`) | `status.onCallIdentity`, a journal with a phase, the types, bindings and captured external names; the pair (Integration, Route) of each type and a shared chain | legacy, fresh and bootstrap turns; begin, build, prepare, commit and cancel a type switch; retire Route, then Integration; preserve behind a closed gate | the journal is ahead of the children; a pair is withdrawn only by a recorded retirement; alerts always have a Route; a transition ends |
| OnCall contact-point receiver (`alertingjoin.go`) | `status.alertReceiver` | published from the journal's active type | the published address belongs to a pair that exists |
| Git Sync connection decommission (`provisioningconnection.go`) | `status.decommission.phase`; ExternalSecret, Securevalue, Connection | stage, connect, arm, withdraw Connection, withdraw Securevalue, revoke, report Unproven | each withdrawal has its persisted witness; the Securevalue goes last; the objects of a claim that stays survive |
| Stack vending (`fn.go`, `fleet.go`, `access.go`) | `status.deletionArmed`, `deletionReady`, Ready; stack, credential chains, instance credentials, content | render the tree by stages, arm, disarm, report readiness for deletion | what exists stays; content follows credentials; claims are admitted only to a stack that has credentials; a removal the status allowed leaves nothing behind |
| Expiry (`expiry.go`, `expiry_timing.go`) | the effective expiry, warnings | decide whether planned cleanup permits arming | an extension disarms; nothing is armed early |
| Dispatch and status return (`fn.go`) | none | choose a renderer by kind, answer for an unready stack | an early answer must not lose what others persisted |
| Access claim gate (`fn.go`, `surfacecontext.go`) | the claim's Ready condition; reads the stack's status | admit, stage or preserve the children of a claim | a closing gate withdraws nothing; an open one fulfils the claim; nothing precedes credentials or consent |
| Private data source connect (`pdc.go`) | networks, one token per renewal window, datasources | render, renew, recover a network's ID, refuse | a network has a token that has not expired, unless its renewal was held up for a named reason |
| k6 project and service bootstrap (`k6.go`, `bootstrap.go`) | installation, wiring, project, two caps, load tests, schedules | stage the tree, update caps, preserve workloads, refuse withdrawals | workloads follow caps that are enforced; schedules target real tests; requests are fulfilled |
| Synthetic monitoring (`syntheticmonitoring.go`, `bootstrap.go`) | derived token, Secret, verifier per token, checks, alerts; `status.installationVerified` | stage, verify, rotate, budget, attach alerts, refuse withdrawals | checks follow the verification of their own token; alerts name real checks |
| Stack consumer, project content (`stackconsumer.go`, `projectcontent.go`) | observed stacks, policy, token, credentials, Git connection, content; `status.projectContent` | stage, recover identities, wait, refuse | nothing is withdrawn; token and policy stay one identity; what can be repaired is |
| Assistant governance (`assistant.go`, `fn.go`) | terms, rules, MCP servers | gate on acceptance | rules only behind acceptance, and gone without it |
| Access and roles, product surfaces (`roles.go`, `serviceaccounts.go`, `cloudintegrations.go`, `agento11y.go` and others) | a root with leaves that need its ID, or roots alone | render, preserve | a leaf survives an empty status of its root, or is made again without harm |
| Promotion ladder (`ladder.go`) | none; reads rungs | observe, report drift | a rung is matched to its own children |
| Inventory, credential health | none | reports | reports agree with what is observed |
| Retention, options, plugins, products | none | stateless rendering | schema rules |
| Golden SLO (`slo.go`) | none; reads a datasource uid | render | the SLO outlives a momentarily empty uid |
| Alerting bundle and routing (`alerting.go`, `alertingrouting.go`) | none | render contact points and policies | a route names a contact point returned with it |
| Resource definitions, admission rules (`platform/apis`) | schemas, CEL | evaluated by the API server | they bound what a claim may contain |
| Provider, RBAC, deployment | configuration | - | - |

Interactions. Every claim refers to a stack request by name; the access gate
reads that stack's persisted status, so the stack's turn and the claim's turn
interact only through status. k6 and synthetic monitoring additionally need a
bootstrap Secret which the stack's credential chain publishes. A project's
content mints its token against a second, central stack. The alerting bundle
reads the receiver an OnCall claim publishes. No two turns share memory.

Hard behaviours, in the order of how much damage they do: withdrawals over
several reconciles with crashes in between; statuses that are momentarily empty
or stale; edits in the middle of a transition; Fatal answers that wedge;
external objects that disappear or are re-created behind the function.
`PROJECT.json` lists each hazard at the line where it bites, with the
properties that watch it.

## 3. How a reconcile is modelled

Every module has the same two-phase reconcile. A *Turn* reads one snapshot of
the variables and fills `plan` with everything the function returned (`pc`
becomes "apply" or "collect"). Crossplane's part then carries the plan out while
the environment moves on, so a plan can be stale when it is applied.

- In OnCallIdentity and ProvisioningDecommission that part is step by step
  (delete an undesired child, record references, create or apply one child,
  persist the status) and `Crash` abandons it anywhere.
- In the other modules it is one `Apply`, or an `Interrupt` which carries out
  any part of it: it deletes what is no longer desired, records the references
  and may leave out any of the children, without persisting the status; or it
  does nothing at all.
- A Fatal answer changes nothing, so a turn that would be Fatal is a turn that
  is not enabled. A wedge is therefore visible as a liveness violation, or as
  the violation of an invariant that says the turn's input can be read.
- A child is observed when it is among the recorded references and exists. The
  references are replaced by the desired set after the deletions, so a child
  that is being finalised is no longer observed. Where every child lacks the
  Delete policy and nothing waits for its finaliser (CrossStackAccess,
  AccessClaim), a withdrawn child is gone at once.

Assumptions about Crossplane, not shown by code in `src/`: the status a
reconcile reads is the last one persisted; it is persisted after the children
are applied; a status field that is left out of the answer is erased; a
composite with a deletion timestamp is still reconciled (the provisioning
function and its tests rely on it).

Data are abstracted to what the properties tell apart: types, phases, levels,
costs, windows of time and creation counters. Formatting and wording are left
out. Names are atomic. Each module's header lists its own abstractions.

## 4. Modules and code

Each component has a module, an `MC` module for TLC and, but for the abstract
ones, a `_proofs` module that holds theorems only.

### OnCallIdentity, an implementation of PagingHandover

State: `sel` (spec.integrationType), `admitted` (the stack gate), `journal`
(status.onCallIdentity), `receiver` (the type whose address is published), `mr`
(children: absent, unnamed, named, current, dying, with uid and external ID),
`refs`, `pc`, `plan`.

The turn is the disjunction of what `oncallidentity.go` distinguishes:
`LegacyTurn` (no journal and no selection), `FreshTurn`, `BootstrapTurn` (a
selection over the children a legacy claim left), `PreserveTurn` (closed gate),
`StableTurn`, `BeginSwitchTurn`, `BuildTurn`, `ReplaceFreshTurn`, `CancelTurn`,
`CancellingTurn`, `PreparedTurn`, `RetireRouteTurn`, `RetireIntegrationTurn`.
`Decodes` is the decoder that refuses a journal, `Capture...` are the identity
captures, `Barrier` is the test that a chain is current, and the
`...Children` operators are the returned sets. Crossplane is
`CollectGarbage`, `RecordReferences`, `Create`, `PersistStatus` and `Crash`;
the provider assigns names, makes children current, loses that, and finalises;
the environment edits the selection and opens or closes the gate.

PagingHandover is the abstract promise: a type that serves is given up only by
a decision another serving type stands behind. OnCallIdentity implements it
under the mapping `serving` = types whose Route exists and is not being
deleted, `losing` = the type the persisted journal has committed to retire.

### ProvisioningDecommission

State: the claim's `lifecycle`, `authorized`, `terminating`; `admitted`;
`secret` (materialised credential); `phase` (status.decommission.phase); `mr`
with policy and finalizer; `ext` (Grafana objects); `refs`, `pc`, `plan`.
Turns: `UnreadyTurn` (the early answer of `fn.go:133`, which erases the phase),
`RevokeTurn`, `StageTurn`, `ConnectTurn`; `Progress` is
`provisioningConnectionDecommissionProgressFor`. The environment edits and
revokes, removes the claim, closes the stack, loses the Secret and deletes a
managed resource behind the function (`Tamper`).

### StackVending, an implementation of StackContract

State: `lifecycle`, `authorized`, `expired`, `removed`; `status`; `mr`;
`protection` (the stack's delete protection); `blank` (statuses momentarily
empty); `ext`; `refs`, `pc`, `plan`. `Desired` is the staged set of
`renderStack` and the renderers it calls, `ArmingPermitted` and `DeletionReady`
what `desiredStackStatus` reports, `DesiredReady` the Ready condition. `Cascade`
is the removal of the request. Which chains a request has is the constant
`Chains`.

`status.at` is the number of edits the reported generation includes: the
operator relies on a deletionReady of the request as it stands (`fn.go:906`
reports it next to the generation), and `Remove` records which one it was.

StackContract is what claims may rely on: a stack that admits them (Ready and
not armed, in its persisted status) is requested and has the credentials of its
own ProviderConfig, and credentials stay as long as the request does.
StackVending implements it with `admits` read from the *status* and
`credentials` from the *children*.

### AccessClaim, composed with StackContract

One claim of `fn.go`'s access gate next to a stack that moves as StackContract
allows (`Stack!Next` is one of its steps). Its kind is one of TeamAccess,
AgentObservability, CloudIntegrations, ServiceAccounts or AssistantGovernance,
which differ in what the code distinguishes: whether a closed stack makes the
turn Fatal (`Preserving`: `observedSurfaceStackConfig`), whether leaves carry an
external name and are adopted (`Named`), and the assistant's second gate.

State: `kind`, `declared` leaves, `accepted`; `mr`; `asked` and `granted` (the
acceptance in the terms' spec and in Grafana); `blank` (the root's status);
`copies` (objects in Grafana); `refs`, `pc`, `plan`, `ready`; and history.
`Rendered` is the renderer, `Gated` is `admitStaged` behind it, `Reported` the
readiness.

### K6Project

State: `tests`, `runs`, `zones` (spec), `profile` (platform limit), `context`,
`mr`, `target` (ID each schedule names), `blank`, `enforced` (what k6 enforces
for each cap), `created` (creations of each load test), `dropped` (history).
`Turn` is `renderK6Project` with `serviceBootstrapConfig` in front of it and
`productWithdrawalError` behind it. `Rendered` chooses between the base
(caps not current: `Preserved` workloads at their old level) and the
`Workloads` within caps; `Withdrawable` is what the guard lets go.

### SyntheticMonitoring

State: `checks` and `alerting` (spec), `context`, `mr`, `cost`, `target`,
`secret`, `blank`, `token`, `running`, `created`, `verified`, `status`,
`dropped`. `Turn` is `renderSyntheticMonitoring` with the same two functions
around it. `Rotate` issues a new token; `Verify` creates the verifier of a
token; `CreateCheck`, `UpdateCheck` and `AttachAlerts` are the provider.

For K6Project, SyntheticMonitoring and PrivateDataSource the access gate and
the context lookup test the same stack in the same way, so `context` stands for
both: a resolved context implies an open gate.

### PrivateDataSource

State: `sources` (the network of each datasource), `window` (time, cut into
halves of a token's lifetime), `overdue`, `context`, `mr`, `target` (the network
a datasource is attached to in the cluster), `blank`, `tokens` (what Grafana
minted), `refs`, `pc`, `plan`, `dropped`. `Rendered` is `renderPDC`: all
networks, one token of `Issuance` (`pdcTokenIssuance`) for each network whose
ID is `Known` (from its status or from a token of any window), and the
datasources of those networks. `Held` and `Orphaned` are the refusals.

`Tick` ends a window, at any moment: lifetimes from two seconds are admitted
(`pdc.go:255`), a reconcile may cross a boundary, and a Fatal turn may last for
ever. What it leaves behind is recorded in `overdue`: the networks whose token of
that window Grafana has not minted, for one of the reasons of `Excused`. They are
stated from the cluster and not from the function's answer: work that was not
done (`Unfinished`), a stack that did not resolve, an ID that neither the network
nor any of its tokens carries (`Named`), and a datasource attached to a network
without one (`Stranded`). A status may stay empty over any number of windows, as
long as a token carries the ID. A window that ends before the work in it is done
(`Hurried`) counts as a fault.

### CrossStackAccess

State: `kind` (StackConsumer or ProjectContent), `mr`, `blank`, `name` (the
policy the policy's import name stands for), `bound` (the policy in the token's
spec), `minted`, `refs`, `pc`, `plan`, `ready`, `withdrawn`. The stages
`PolicyDue`, `TokenDue`, `ServiceDue`, `ConnectionDue` are those of
`renderStackConsumer` and `renderProjectContent`; `Identity` and `ImportName`
the recovery of the policy's ID; `WaitAllowed` is `projectContentWait` and the
consumer's refusals, `KeyLost` and `Conflicting` the other Fatal answers.
`Disappear` deletes a child behind the function.

## 5. Runs

| Run | Properties | What it shows |
|---|---|---|
| OnCallSafety | WriteAhead, RouteRestsOnIntegration, IdentityAdopted, ReceiverServed, WithdrawalAuthorised, CommittedIsFinal, ImplementsHandover | Two edits and one crash, lost readiness or closed gate, or one edit and two of them, at any point of a migration: the persisted journal accounts for every child, the Route goes before its Integration, identities are adopted again, a committed retirement cannot be reversed, and alerts always have a Route |
| OnCallLiveness | TransitionSettles | Without faults, and with two edits, every transition ends in a stable journal, except those that `Wedged` names (its other two exceptions take faults) |
| OnCallWedgedCancellation | JournalDecodes, violated | Finding 1 |
| ProvisioningClaim | UnprovenDisarms, SecurevalueLast, WitnessedWithdrawal, ExternalOutlivesClaim, DecommissionCompletes | One edit, one fault and one child deleted behind the function, in any order |
| StackRequest | RemovalComplete, KeptWhileRequested, ContentAfterCredentials, ImplementsContract, VendCompletes, IntentSettles | One edit of the intent, one interrupted apply or lost status: removal on a report leaves nothing, nothing else is withdrawn, claims find what the contract promises, and the request or its removal settles |
| AccessRequest | TypeOK, CredentialsBehind, ConsentBehind, KeptUnlessOver, OneCopy, ClaimSettles | One claim of any of five kinds, two leaves, two edits and two faults, on a stack that opens, closes and goes at any time |
| K6Request | KeptUnlessDropped, SchedulesTargetIDs, CapsBeforeWorkloads, RequestSettles | One edit of the request or the profile, one fault |
| K6Repointing | RequestSettles, violated | Finding 2 |
| MonitoringRequest | KeptUnlessDropped, AlertsNameIDs, ChecksAfterVerification, RequestSettles | A check with alerts, one rotation, two edits, two faults |
| MonitoringRotation | RotationRetires, violated | Finding 3 |
| PrivateDataSources | AccessContinuous, KeptUnlessOver, RequestSettles | Two networks and a datasource that moves, three windows that end at any moment, one edit, two faults: access lapses only where `overdue` says why |
| CrossStackRequest | NothingWithdrawn, OneIdentity, PolicyKept, ClaimSettles | A consumer or a project with two pieces of content; three faults, deletions by others among them |

A type invariant is checked by TLC in AccessRequest; those of the other modules
are proved (section 7), which includes every instance a run could check.

Bounds, and why they are enough for what is asked:

- `Stages = 2` is the shortest chain that has both a child before the pair and
  one beside it; the code treats every earlier stage alike. Both integration
  types are present. `MaxEdits = 2` is a switch and the edit that takes it back
  (or replaces it); a third edit starts from a state two edits reach.
- `MaxFaults` bounds interrupted applies (or crashes), momentarily empty
  statuses, lost contexts and, in CrossStackAccess, deleted children, in
  PrivateDataSource windows too short for the work in them, together. 1 puts any one of them at every point of every schedule. AccessRequest and
  PrivateDataSources take 2, so that a second fault can meet what the first one
  left; CrossStackRequest takes 3, because an identity has two carriers and
  losing it takes two losses and an interruption. OnCallSafety takes up to two
  edits and two faults, three together (`ThreeDisturbances`): a switch and its
  reversal with a fault, or a switch with a crash and a closed gate, which is
  what the re-creation behind a closed gate (section 8) takes. The liveness run of OnCall
  uses 0, because the fault-free schedules with two edits already take two
  minutes; faults are covered by its safety run. Longer histories matter (one
  that takes three edits and two crashes is in section 8); for the safety
  properties the proofs cover them.
- Provisioning has three fixed children, so only events are bounded. One of each
  kind still gives every combination of an edit, a fault and a tampering.
- `SmallestRequest` is the stack with the administrator's and Fleet Management's
  chains. Telemetry chains have the same shape; the proofs hold with them. One
  edit withdraws an intent or extends an expiry while it is being carried out;
  an edit counts only when it changes something.
- AccessRequest needs two edits: an acceptance withdrawn and given again, or a
  leaf dropped and asked for again. Two leaves are enough to have one that
  exists and one that does not; the stack is not bounded at all.
- k6 has two load tests (one may replace the other), one schedule, and two
  levels, so that a cap can be both too low and enough. `Repointing` says
  whether an edit may hand an existing schedule to a load test that
  does not exist yet: TRUE is finding 2, and K6Request checks the rest without it.
- Monitoring has one check whose cost an edit can raise above the budget of 2.
  Two edits can drop it and declare it again, two faults keep its status from
  being read meanwhile. MonitoringRotation has two checks which fit the budget
  only at their lowest cost. One rotation is one succession of tokens.
- `LastWindow = 2` is two renewals, so that the token of the first window has
  expired when the last one is in use. Two networks allow a datasource to move
  from one whose ID is known to one whose ID is not.
- `MaxTampers` and `MaxRotations` bound events of the environment and never a
  step of the function.

No symmetry is used; the liveness runs would be unsound with it. Deadlock is not
checked: a bounded environment that has ended its edits and a function that is
Fatal for good both stop the model. Whether a stop is a wedge is what the
liveness properties decide.

Several properties name their exception on purpose, as the weakest
statement the code justifies:

- `WithdrawalAuthorised` excepts the Integration of a fresh type whose chain is
  not bound, and `RouteRestsOnIntegration` a type that is not established: a
  fresh target or the incomplete source of its replacement (section 8,
  `oncallidentity.go:861`).
- `TransitionSettles` excepts the three transitions that `Wedged` names: finding
  1 and the two replacements of a fresh target of section 8. `Superseded` and
  `Halved`, also there, take faults: no schedule of the liveness run reaches
  either (TLC, up to four edits), so they weaken nothing it checks.
- PagingHandover lets the losing type serve again (`Serve`): a closed gate
  returns a Route that is already being deleted (`oncallidentity.go:559`). What it promises,
  another type behind every decision, holds nevertheless.
- `KeptWhileRequested` excepts Fleet Management's PushSecret, which
  `fleet.go:186` drops when the stack's ID is empty for a moment.
- `DecommissionCompletes` ends also with a `SecurevalueDeleting` that a crash
  left, because the reconcile that would have recorded Complete applies the
  children it still desires first.
- `RequestSettles` of SyntheticMonitoring excepts a rotation that came after
  checks exist (finding 3) and alerts whose check was dropped and declared again
  (`Orphaned`, section 8); that of PrivateDataSource excepts a datasource moved
  to a network that does not exist (`Stuck`).
- `AccessContinuous` excepts networks whose token of the last window was overdue
  for a reason of `Excused`. TLC finds it violated without any one of the four;
  no fault or edit beyond them can make access lapse, neither a lost status while
  a token stands nor an interrupted apply in the window of the renewal.
- `ClaimSettles` of CrossStackAccess excepts the losses no turn can repair
  (`Irreparable`, each disjunct one of the Fatal answers of the code). That of
  AccessClaim asks kinds that are refused while their stack is closed for
  nothing meanwhile, not even for a report.
- `KeptUnlessOver` of AccessClaim excepts leaves of kinds without preservation
  whose root's status was empty; `OneCopy` then excepts those without an
  external name; `ConsentBehind` excepts an acceptance withdrawn and given
  again around an interrupted apply.

## 6. Fairness

`Spec` has none; OnCallSafety and the finding that is an invariant use it.
`FairSpec` assumes weak fairness only:

- of the function's turn and its application (`Turn \/ Apply`, or each): a
  controller requeues an XR as long as it is not settled, and on a timer;
- of the providers (`Provider`, `Providers`, `Controllers`, `Install`, recovery
  of a lost status): managed resources are polled; the repository's docs and the
  code's staging ("hold until observed") rely on it;
- of `OpenAdmission`, `OpenStack`, `ResolveContext`: a stack that lost readiness
  becomes ready again. AccessClaim assumes nothing of its stack: ClaimSettles
  speaks of stacks that stay open or stay closed;
- of `Expire`: time passes. `Tick` is not fair: no property needs a window to
  end;
- in SyntheticMonitoring of the provider only while the Secret holds the current
  token (`secret = token /\ Provide`): whether Grafana still accepts a token that
  was rotated out is not known, so nothing is assumed of it.

Edits, removals, faults, tampering, deletions and rotations are never fair.
Since there is no strong fairness, a property cannot rest on an event which is
only enabled from time to time.

## 7. Proofs

All are for every value of the constants: any chain length, any chains, tests,
schedules, checks, networks, content and leaves, any budget and any number of
windows, edits and faults.

- OnCallIdentity_proofs: `TypeCorrect` from `IType` (TypeOK and the shapes of
  the planned journal). `CommittedFinality`, the action property CommittedIsFinal. It is
  not a property of single steps, because a plan computed from a journal may be
  persisted after other things happened; the strengthening `PlanIsFinal` says
  that the plan of a running reconcile keeps a committed retirement or ends it
  with the losing pair absent, and `AbsentStaysAbsent` that no step creates a
  child that this plan does not desire.
  The other invariants build on one another. `AheadInv` (for `JournalAhead`):
  a planned journal authorises what exists and what its plan desires, and the
  persisted one does too, so it does not matter where a reconcile stops; while
  there is no journal the graph only grows (`LegacyGrows`). `WithdrawalInv` (for
  `WithdrawalNeedsAuthority`) adds that identities come only after the chain is
  bound (`Progressed`) and that the shared children exist in their order
  (`ChainInOrder`): a turn inside a transition then renders all that it observes
  but for what it retires. `HeldInv` (for `RouteNeverAlone`) says which children
  a journal relies on (`Relied`: the stable pair, an established source, the pair
  a decision keeps, the Integration under a planned Route); they are observed, no
  plan drops them, and only what both journals give up is dying (`Leaving`).
  `IdentityInv` (for `IdentityKeptForever`) ties the inventories of the
  persisted and the planned journal to the children: a capture extends, a
  creation pins. `ReceiverInv` (for `ReceiverAlwaysServed`): a receiver is
  planned only outside a transition, where nothing is dying.
  `HandoverImplemented` maps every step to PagingHandover, a decision by the
  Route that `HeldInv` keeps for the kept type; `AlwaysServed` follows.
  Two further invariants serve the theorems on standstills. `SoundInv`: every
  journal says which way its transition goes (`Disposed`) and has the identity
  of the source it may go back to (`Rooted`). `StandInv`: what a transition waits
  for can come, because every child is referred to (`Tracked`), needs only
  children that are there (`Dependable`), gets the next one of the chain planned
  once it is bound (`Issued`), and has an inventory entry of its type
  (`Inventoried`).
- ProvisioningDecommission_proofs: `TypeCorrect`; `SourcesLast` and
  `UnprovenRetains` from `IInv`, whose parts tie the three places a phase lives
  in: the persisted phase implies what is absent from the references
  (`PersistedPhase`), the planned phase what the plan desires (`PlannedPhase`,
  `RecordedPlan`), and a collection in progress was authorised by the phase read
  back (`AuthorisedCollection`). `DisarmingPlan` and `StaysDisarmed` carry the
  retaining policy of an unproven Securevalue through applies.
  `ObjectsOutliveClaim` and `ConnectionWitnessed` from `WInv`: in a claim that
  stays nothing is being deleted (`NothingDies`), a Connection stands on a
  Securevalue that exists, so the turn that stages a missing Securevalue drops no
  Connection (`Grounded`), and a collection that drops one was authorised by the
  phase read back (`WitnessedCollection`).
- StackVending_proofs: `TypeCorrect`; `Kept` from `KeepsObserved` (a plan
  desires all that is observed, Fleet Management's PushSecret apart), whose key
  is the lemma `ObservedIsDesired`; `CredentialsFirst` from `ContentInv`, which
  carries the credentials over the gap between turn and apply. `ContractKept`:
  StackVending implements StackContract, for any chains. Its steps map to steps
  of the contract (`ContractStep`): a Ready status was computed from observed
  credentials (`VendedCredentialed`), and by the same invariant nothing deletes
  these while the request stays. `NothingLeftBehind` (RemovalComplete) from
  `RemovalInv`: a report of readiness holds of the cluster that produced it
  (`ReportHolds`), an armed plan arms all that it applies (`PlanArmsAll`,
  `DocumentsPrepared`), so a removal on that report finds every external object
  secured (`Secured`).
- AccessClaim_proofs: the other side of that contract, with nothing known of
  the stack but StackContract. `IInv` says what stays true of a plan while the
  stack moves on: a planned child implies credentials (`Contracted`), a planned
  leaf implies a root that exists (`Rooted`), a plan drops only what is excused
  (`DropsOnly`). For the assistant, `FirstAcceptance` orders accepted, asked,
  planned and granted until an acceptance is withdrawn, and `Undisturbed` covers
  what follows without faults. `Behind`, `Kept`, `Consented` and `Single` are
  the four safety properties of AccessRequest. Together with `ContractKept` they
  cover the composition of a claim with a detailed stack.
- PrivateDataSource_proofs: `Kept` and `Continuous` from `IInv`: what exists is
  recorded or over (`Accounted`); a token belongs to a window that has begun
  (`TokensDue`); a plan, which may be applied windows later, drops only what is
  over (`DropsOnly`); what is ready was minted (`MintedReady`). A network without
  an excuse at the end of a window has its token of that window (`TickRenewed`):
  its turn is not Fatal, and what such a turn renders exists and is ready.
- CrossStackAccess_proofs: `Kept` (NothingWithdrawn) from `PlanKeeps` and the
  lemma `TurnHolds`: a turn that is not Fatal renders all it observes.
  `Identified` and `NoSecondPolicy` from `PlanAgrees`: the identity in a plan
  agrees with the policy's and the token's, whichever of them it was read from.
- K6Project_proofs: `TypeCorrect`, then `Invariance` of `IInv`: every child in
  the cluster is recorded or was dropped (`Accounted`), a plan drops only what
  the team dropped (`DropsOnly`), a cap that is current enforces its level
  (`EnforcesLevel`), a planned level is permitted (`Permitted`), IDs are assigned
  (`Assigned`, `PlannedTargets`). `Kept`, `RealTargets` and `CapsFirst` follow.
- SyntheticMonitoring_proofs: the same construction with `Issued`,
  `VerifierCreated`, `PlanVerified` and `PlannedIDs`; `Kept`, `RealIDs` and
  `VerifiedFirst` follow.

### Where a component can come to rest

The liveness properties themselves rest on fairness and ENABLED, which TLAPS
does not reason about here. Their safety half is proved: a component that could
stop short of its goal would, at that moment, have nothing left to do. Each
module below but OnCallIdentity defines `Work`, the guards of everything its
fair actors can do, written out, where a turn counts only if it would change
something, and the theorem `NeverAtAStandstill` says

    Spec => [](Work \/ Fulfilled \/ <its exceptions>)

for every value of the constants, any number of faults and every history of
edits. What is missing to the liveness property is that the work there is does
not go round in a circle, which TLC checks (section 5).

OnCallIdentity has the statement in two parts, because its function answers
every request and the question is what with. `NeverAtAStandstill` says that a
composite at rest (`Resting`) is `Answered`, by a turn and not by Fatal, where
`Answered` are the guards of the turns written out, and that no turn happens
without it (TLC confirms that they enable one). `QuietTurnsAreFinal` says that,
but for `Wedged`, a turn at rest which returns what is there belongs to a served
claim: stable on the selected type, with the whole graph current and the
receiver published. Its proof takes the earliest legacy child that is missing,
hence `LeastElement`.

`Resting` is a state in
which nothing is being deleted, applied or reported; `RefusalsExact` says
which requests the function answers with Fatal there, in both directions, so
neither a refusal nobody meant nor one that is missing goes unseen. The
remaining theorems say that a refusal is permanent: they are the findings of
section 8 for every instance, and say what ends them.

| Module | Beyond `Work`, a standstill is | Refused at rest, exactly | Permanence |
|---|---|---|---|
| OnCallIdentity | a turn that changes nothing: served, or `Wedged` | only `HalfBuilt`, `Halved`, `Superseded` or `Wedged` (one direction) | `CancellationWedges` (finding 1), `ReplacementWedges` |
| StackVending | settled on its intent, removed, or not authorised | | |
| ProvisioningDecommission | connected under its lifecycle's policies, or revoked and disarmed | not authorised, or `Starved` | `StarvedUntilTampered`; `OnlyTamperingStarves` says how one gets there |
| AccessClaim | fulfilled on an open stack; swept, or refused, on a closed one | kinds that preserve, on a closed stack (`HeldOnlyClosed`) | `PreservedUntilOpened` |
| K6Project | fulfilled, beyond its caps, or a schedule on an absent load test | the last two | `WedgedUntilEdited` (finding 2) |
| SyntheticMonitoring | fulfilled, beyond its budget, `RotatedLate`, `Orphaned` | the last three | `RotationWedges`, `WedgedUntilEdited` (finding 3), `StrandedUntilEdited` |
| PrivateDataSource | fulfilled, or `Stuck` | `Stuck` | `HeldUntilEdited` |
| CrossStackAccess | fulfilled, or `Irreparable` | `Irreparable` | `IrreparableLasts` |

Each rests on a second inductive invariant (`Progressing`, `Steadiness`,
`Anchoring`, `Sourced`, `Recorded`) which says why what is waited for can come:
a child that exists is referred to, its status comes only from what it depends
on, a stage that exists has the stages before it. `NothingUndone` of
CrossStackAccess adds that without a fault no step takes progress back.

That the exceptions are complete was not obvious. The proof for
SyntheticMonitoring failed on alerts whose check is declared again before it is
finalised, which `RequestSettles` did not name and its run, with one edit and one
fault, could not reach; the property and the run now do. The one for
OnCallIdentity showed `Halved` and that `Superseded` has two causes, and the
property names both now. The one for
ProvisioningDecommission showed `Starved`, which the liveness run does not ask
about because it ends with tampering.

Each proof has one step per action; lemmas about `ApplyTo`, `Finalise` and
creation are stated once. The assumptions used are the named ASSUMEs of the
modules, which TLC evaluates in every run.

Only model-checked: the nine liveness properties, each beyond its safety half.
No theorem is about a sum over `checks`: `WithinBudget` is only used as a
condition.

## 8. Findings and observations

With a run that shows them:

1. OnCall, wedged cancellation (`oncallidentity.go:877`). An edit back to the
   source that is first seen in phase Prepared persists RetiringRoute with the
   promotion's authority. The decoder (line 213) refuses that journal in every
   later reconcile. `CancellationWedges` proves that it is exactly this journal
   the decoder refuses, and that nothing moves it afterwards.
2. k6, repointing (`k6.go:275` with `bootstrap.go:124`). A schedule given a load
   test declared in the same edit is held, the guard makes the turn Fatal, and
   the load test it waits for is never created.
3. Monitoring, rotation (`syntheticmonitoring.go:171` with `bootstrap.go:124`).
   After a rotation under existing checks the turn would drop them and is Fatal,
   so the new verifier is never created. `docs/governance.md:72` says the
   rotation retires the old verifier.

Met while modelling, without a run of their own:

OnCall

- `oncallidentity.go:861`: a fresh turn captures the end of the chain and issues
  the Integration in one answer. If it stops before that journal is persisted and
  the type is edited, the replacing turn renders the old target without the
  Integration, which is then collected with no retirement recorded. The comment
  at line 862 wants the replacement established first, and
  `platform/apis/oncall-v1beta1.yaml:124` promises that returned plans are
  observed before withdrawal authority is used. Without its exception
  WithdrawalAuthorised is violated here, by one edit and one crash. With two
  crashes and three edits, the second of which returns to the old target, its
  Route is planned for the dying Integration; this is why
  RouteRestsOnIntegration excepts an incomplete source as well as a fresh target.
- `oncallidentity.go:872`: a fresh target replaced before its chain is bound
  becomes a source, and a transition with a source captures no shared bindings:
  the chain is not rendered further and the barrier never holds (`Unbound`).
  `oncallidentity_test.go:336` expects the replacement to be established, and
  edits only after the chain is bound. One edit and no fault suffice.
- `oncallidentity.go:895`: the source of such a replacement that was never given a
  Route cannot be returned to: the turns that wait for its Route drop it
  (`Unrouted`). Until the cancellation is decided, an edit back to the
  replacement helps; nothing does afterwards, nor ever for `Unbound`
  (`ReplacementWedges`).
- `oncallidentity.go:559`: `onCallPreserve` returns every observed child, a dying
  one included. If the reconcile that collected a losing child stopped before it
  recorded the references, and the gate closed, the child is created again under
  a new uid, which the next capture refuses (line 375): the retirement does not
  end. `docs/reference/request-schema.md:176` says that closed admission creates
  nothing. It takes an edit, a crash and a closure (`Superseded`). Three edits
  and two crashes have the same effect with the gate open: a replacing turn
  captures an Integration that an unrecorded withdrawal is already deleting.
- `oncallidentity.go:877`: when the edit that takes a promotion back is first
  seen in phase Prepared and the source is an incomplete one whose Integration an
  unrecorded replacement collected, the retirement needs the source complete
  (`Barrier`) and no turn renders it again, so every turn is Fatal (`Halved`).
  Four edits and two crashes reach it; the runs are smaller.
- `oncallidentity.go:531`: onCallPreserve renders the active configuration first.
  In a transition that started fresh this is one without bindings, refused
  (`oncall.go:83`) once an inbound-email child is inventoried: behind a closed
  gate such a claim is Fatal rather than preserved. Nothing is withdrawn by it.
- `oncallidentity.go:698`: a claim that opts in while its legacy graph is
  incomplete is Fatal in every turn, the one that would complete the graph
  included (`HalfBuilt`), until the selection is removed again.
- `oncallidentity.go:350`: an Integration the provider names after the last
  capture and that is withdrawn before the next is left without an inventory
  entry; the object outside is not in the model.

Provisioning

- `provisioningconnection.go:337`: Complete is no accepted witness, so the
  reconcile after it reports ConnectionDeletionUnproven. The catalog
  (`examples/catalog/provisioning-connection/README.md:32`) calls the phase the
  durable completion signal.
- `provisioningconnection.go:195`: when the managed Securevalue is lost, the
  shorter set withdraws the Connection without a witness (hence `tampers = 0` in
  WitnessedWithdrawal).
- `provisioningconnection.go:213` (`:197` for a Securevalue of a terminating
  claim): while the Connection stands, a deleted ExternalSecret makes every turn
  Fatal, the one that would create it again included (`Starved`). It stays so
  through every edit and through the removal of the claim, until somebody deletes
  a child once more (`StarvedUntilTampered`).
- `provisioningconnection.go:328`: a Connection that is being finalised is no
  longer observed, so the Securevalue can be revoked while the Connection is
  still in Grafana.
- `provisioningconnection.go:190`: the turn that reports Complete desires the
  ExternalSecret and the Securevalue again; a crash in its apply leaves the copy
  and the older phase.
- `fn.go:133`: the answer for an unready stack erases the decommission phase.

Stack

- `fn.go:906`: deletionReady holds for the generation it was computed from. A
  removal that relies on an older report (an edit that withdraws the intent and
  one that gives it again, with an interrupted disarm in between) finds children
  that are not armed; RemovalComplete is about a report of the current
  generation.
- `fn.go:644`: a request removed while armed but not ready loses what was armed
  already, which `docs/governance.md:135` warns about in other words.

Claims behind the gate

- `agento11y.go:388`, `roles.go:155`: a root whose ID is momentarily empty
  withdraws its leaves. Role assignments are adopted again by their name; rule
  actions have none and are created a second time, the first copy staying in
  Grafana. An empty status of the assistant's terms withdraws all rules and
  servers in the same way. `serviceaccounts.go:101` and cloud integrations refuse
  instead.
- `fn.go:322` says that withdrawn acceptance "must remove every rule and MCP
  server", as does `docs/reference/request-schema.md:598`. The managed resources
  go, and ClaimSettles shows it; none has the Delete policy, so the rules and
  servers stay in Grafana.
- The acceptance the function reads (`fn.go:321`) is not tied to a generation:
  withdrawn and given again, it can create rules while Grafana still says that
  the terms are not accepted, and with an interrupted apply also while it is not
  being asked (the exception in ConsentBehind).
- Kinds that need the resolved stack are Fatal while it is closed, so their
  claims keep the Ready=True of before.

k6 and monitoring

- `bootstrap.go:99`: a check named `alerts-x` is composed under the key of the
  alerts of a check `x`.
- `bootstrap.go:118`: a check dropped and declared again, with alerts, before it
  is finalised leaves its alerts in the cluster without it (`Orphaned`). They
  cannot be rendered without the check's ID (`syntheticmonitoring.go:191`), the
  guard is Fatal because they are declared and observed, and the check is created
  only by a turn that is not. Two edits suffice; `StrandedUntilEdited` proves that
  only a further edit helps.
- The verifier may be applied before the Secret it is to verify, through a
  ProviderConfig that still holds the older token; checks that trade costs may
  exceed the budget for a moment.
- `k6.go:70`: lowering a profile below what a request declares makes every turn
  Fatal, the lowered cap included. RequestSettles asks nothing beyond the caps.
- A load test deleted and requested again within one reconcile is created
  again at its old level first (hence `\ dropped` in CapsBeforeWorkloads); the
  Secret of the provider credentials, or a scheduled load test, deleted by hand
  wedges the turn.

Private data sources

- `pdc.go:133`: a datasource moved to a network whose ID is not known makes every
  turn Fatal. The network is created only by such a turn, and the renewal of all
  other tokens stops with it, so their networks lose access when the current
  tokens expire (`Stuck`; in AccessContinuous the exception `Stranded`, which TLC
  reaches). `HeldUntilEdited` proves that nothing at all is created meanwhile.
- An apply that is interrupted after the old token was dropped and before the
  new one was created, with an empty status of the network, loses the ID; the
  connection Secret of the old token goes with it as well. If the window ends
  before the status returns, access lapses (`Named` in `Excused`).
- Datasources and tokens that are dropped stay in Grafana (no Delete policy). It
  is what makes AccessContinuous hold: with the policy the old token would be
  revoked at once (the mutant `PoliciesWithDelete`).
- The guard at `pdc.go:100` cannot fire: an observed token always carries an ID.

Cross-stack credentials

- Losses that no turn repairs, `Irreparable` in the model: the central observer
  deleted while anything downstream exists; policy and token both gone, or a
  consumer's policy, while others exist; a project's observer gone together with
  the policy, the Git credential or its secure value; the Git credential or its
  secure value deleted while the connection or content exists.
  `docs/cross-stack-datasources.md:54` and `:63` announce a Fatal answer for what
  cannot be recovered.
- Recovering the stack's ID from the policy carries the turn to the token and
  not beyond; the endpoints come from the observer alone.
- A Fatal turn leaves the old status, `ready` included.

Names

- `ladder.go:239`: rung and child are joined by a dash, so the
  `credentials` of a rung `a-instance` and the `instance-credentials` of a rung
  `a` are one resource name, and merging the rungs keeps one of them.
- `slo.go:64`: a golden SLO whose datasource's uid is empty for a moment is
  dropped from the answer. It is named by a fixed uuid and is adopted when it
  returns; it is deleted in Grafana only if the request was armed.

## 9. Not modelled, and why

- Stateless rendering (products, retention, options, plugins, alerting, the
  fields of every surface): one turn determines it, and its content is a matter
  of wording and schema.
- The ladder merges the answers of stack requests (StackVending) and compares
  two observed revisions; the golden SLO is one child with one condition.
- Reports (inventory, credential health): they decide nothing.
- `platform/apis`, provider configuration, RBAC, deployment and scripts: they
  are evaluated by other programs, and are used here as a source of promises.
- Within the modelled components: in OnCall, same-type edits of responders or
  routes, Slack modes, pruning; in stack vending, options, retention, roles, the
  golden SLO and the date arithmetic of the expiry (a switch here); in k6, the
  generated script, quantities and dates; in monitoring, the removal of the
  request itself, a changed stack ID, the settings of a check, the document
  published for others and the rounding of costs; in private data sources, a
  network taken out of the claim and an edited lifetime; in cross-stack
  credentials, edited profiles, children that stop matching theirs and the
  status words before ready; behind the access gate, more than one root per
  claim (each is a claim of the model of its own), an AWS account dropped from
  the profile, and machine learning, Asserts and frontend observability, which
  are roots without leaves.
- Objects outside Crossplane are modelled where a property is about them (`ext`,
  `running`, `enforced`, `created`, `tokens`, `minted`, `copies`) and are
  otherwise left out.

## 10. What is left

The order of the work was by damage: withdrawals of objects that cannot be made
again (OnCall, provisioning, the stack), then products a team edits daily (k6,
monitoring), then the contract between a stack and its claims, then renewal and
cross-stack credentials. Worth adding next:

1. Same-type edits of an OnCall graph, and the alerting side that reads its
   receiver.
2. A ladder as the composition of two StackVending requests, with names that
   can collide.
3. Pure algorithms against reference definitions over bounded inputs: the
   effective expiry, drift and `containsDesiredFields`, the rounding of a check's
   cost, k6 load distribution.
