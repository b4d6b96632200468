------------------------- MODULE SyntheticMonitoring -------------------------
(***************************************************************************)
(* A GrafanaSyntheticMonitoring: the installation on a vended stack, the   *)
(* credential it derives, the disabled check that verifies that credential *)
(* independently, and the checks and alerts a team declares                *)
(* (renderSyntheticMonitoring, serviceBootstrapConfig,                     *)
(* productWithdrawalError).                                                *)
(*                                                                         *)
(* The installation reports a token.  The function copies it to a Secret,  *)
(* publishes it, points a ProviderConfig at it, and renders a verifier     *)
(* whose name is the hash of the token; the team's checks are rendered     *)
(* only once the verifier of the current token is Ready, and alerts once   *)
(* the ID of their check is observed.  A turn that would drop anything but *)
(* a verifier or a check that is no longer declared is Fatal.              *)
(*                                                                         *)
(* Abstractions: a token is its number, 0 is none; what a check costs in   *)
(* weighted executions per hour is a number; alerts are the ID of the      *)
(* check they name, which is how often the check was created.  One stack:  *)
(* its ID never changes.  A Fatal turn is no turn, and a turn without the  *)
(* stack's context and without children returns nothing.                   *)
(***************************************************************************)
EXTENDS Naturals, Functions

CONSTANTS
  Checks,         \* names of checks
  Budget,         \* maxWeightedExecutionsPerHour of the stack's usage
  MaxCost,        \* the highest cost of one check
  MaxRotations,   \* bound on rotations of the derived token
  MaxEdits,       \* bound on edits of the request
  MaxFaults       \* bound on interrupted applies and on statuses and contexts
                  \* that are momentarily lost

ASSUME BoundsAssumption ==
  /\ Budget \in Nat /\ MaxCost \in Nat \ {0}
  /\ MaxRotations \in Nat /\ MaxEdits \in Nat /\ MaxFaults \in Nat

Tokens == 1..(MaxRotations + 1)

Installation == <<"installation", "">>
Secret == <<"derived-credential", "">>
Publish == <<"credential-publish", "">>
ProviderConfig == <<"provider-config", "">>
Verifier(t) == <<"verifier", t>>
Check(c) == <<"check", c>>
Alerts(c) == <<"check-alerts", c>>

Wiring == {Secret, Publish, ProviderConfig}
Verifiers == {Verifier(t) : t \in Tokens}
Authored == {Check(c) : c \in Checks} \cup {Alerts(c) : c \in Checks}
Child == {Installation} \cup Wiring \cup Verifiers \cup Authored

VARIABLES
  checks,     \* spec.checks: what each costs, 0 when it is not declared
  alerting,   \* the checks declared with alerts
  context,    \* the stack is Ready and its bootstrap Secret resolves
  mr,         \* the composed resources in the cluster
  cost,       \* what the spec of each Check resource costs
  target,     \* forProvider.checkId of each CheckAlerts, 0 when it is absent
  secret,     \* the token in the derived Secret
  blank,      \* children whose status is momentarily empty
  token,      \* the token the installation issued last
  running,    \* what each check costs in Grafana, 0 when it does not exist
  created,    \* how often each check was created in Grafana
  verified,   \* the tokens whose verifier was created in Grafana
  refs,       \* spec.crossplane.resourceRefs
  status,     \* status.installationVerified
  pc, plan,   \* the running reconcile and what its turn returned
  dropped,    \* history: what the team ever took out of the request
  edits, faults

counters == <<edits, faults>>
request == <<checks, alerting, dropped>>
cluster == <<mr, cost, target, secret, refs>>
grafana == <<running, created, verified>>
vars == <<request, context, cluster, blank, token, grafana, status, pc, plan,
          counters>>

AbsentMR == [exists |-> FALSE, ok |-> FALSE, dying |-> FALSE]
NoPlan == [desired |-> {}, token |-> 0, cost |-> [c \in Checks |-> 0],
           target |-> [c \in Checks |-> 0], status |-> FALSE]

-----------------------------------------------------------------------------
(* What the function observes.                                              *)

Observed == {k \in refs : mr[k].exists}
Reported(k) == k \in Observed /\ mr[k].ok /\ k \notin blank

Declared == {Check(c) : c \in {d \in Checks : checks[d] > 0}}
              \cup {Alerts(c) : c \in alerting}

(* A request beyond the budget is refused as a whole.                       *)
WithinBudget == FoldFunction(+, 0, checks) <= Budget

(* Mutant: any verifier stands for the installation.                        *)
VerifiedOnce ==
  Reported(Installation) /\ \E t \in Tokens : Reported(Verifier(t))

(* syntheticMonitoringInstallationVerified: through the current token.      *)
Verified == Reported(Installation) /\ Reported(Verifier(token))

-----------------------------------------------------------------------------
(* What the renderer returns.                                               *)

(* Mutant: alerts do not wait for the ID of their check.                    *)
AlertableAtOnce(c) == c \in alerting

Alertable(c) == c \in alerting /\ Reported(Check(c))

Rendered ==
  {Installation}
    \cup (IF Reported(Installation) THEN Wiring \cup {Verifier(token)} ELSE {})
    \cup (IF Verified
            THEN {k \in Declared :
                    \A c \in Checks : k = Alerts(c) => Alertable(c)}
            ELSE {})

RenderedCost == [c \in Checks |-> IF Check(c) \in Rendered THEN checks[c] ELSE 0]

RenderedTarget ==
  [c \in Checks |->
     IF Alerts(c) \in Rendered /\ Reported(Check(c)) THEN created[c] ELSE 0]

(* Mutant: a turn may drop a check the team still declares.                 *)
WithdrawableAuthored == Verifiers \cup Authored

(* Mutant: a check cannot be taken out of the request.                      *)
WithdrawableVerifiers == Verifiers

(* The only children a turn may drop: any verifier, and what is undeclared. *)
Withdrawable == Verifiers \cup (Authored \ Declared)

-----------------------------------------------------------------------------
(* A reconcile of the request.                                              *)

Turn ==
  /\ pc = "idle" /\ context /\ WithinBudget
  /\ Observed \ Rendered \subseteq Withdrawable
  /\ plan' = [desired |-> Rendered,
              token |-> IF Reported(Installation) THEN token ELSE 0,
              cost |-> RenderedCost, target |-> RenderedTarget,
              status |-> Verified]
  /\ pc' = "apply"
  /\ UNCHANGED <<request, context, cluster, blank, token, grafana, status,
                 counters>>

Doomed == Observed \ plan.desired

(* New alerts of a check are a new generation the provider must reconcile.  *)
AppliedMR(k) ==
  [mr[k] EXCEPT
     !.exists = TRUE,
     !.ok = @ /\ \A c \in Checks : k = Alerts(c) => plan.target[c] = target[c]]

ApplyTo(S) ==
  /\ mr' = [k \in Child |->
              IF k \in S THEN AppliedMR(k)
              ELSE IF k \in Doomed THEN [mr[k] EXCEPT !.dying = TRUE]
              ELSE mr[k]]
  /\ cost' = [c \in Checks |-> IF Check(c) \in S THEN plan.cost[c] ELSE cost[c]]
  /\ target' = [c \in Checks |->
                  IF Alerts(c) \in S THEN plan.target[c] ELSE target[c]]
  /\ secret' = IF Secret \in S THEN plan.token ELSE secret
  /\ refs' = plan.desired

Apply ==
  /\ pc = "apply"
  /\ ApplyTo(plan.desired)
  /\ status' = plan.status
  /\ pc' = "idle" /\ plan' = NoPlan
  /\ UNCHANGED <<request, context, blank, token, grafana, counters>>

(* The children that applying changes at all.                               *)
Changed ==
  {k \in plan.desired :
     \/ AppliedMR(k) # mr[k]
     \/ k = Secret /\ plan.token # secret
     \/ \E c \in Checks : k = Check(c) /\ plan.cost[c] # cost[c]}

Interrupt ==
  /\ pc = "apply" /\ faults < MaxFaults
  /\ \/ \E S \in SUBSET Changed : ApplyTo(plan.desired \ S)
     \/ UNCHANGED cluster
  /\ faults' = faults + 1
  /\ pc' = "idle" /\ plan' = NoPlan
  /\ UNCHANGED <<request, context, blank, token, grafana, status, edits>>

-----------------------------------------------------------------------------
(* The providers.  A token that was rotated out may or may not still be     *)
(* accepted: nothing counts on it.                                          *)

Rest == <<request, context, refs, secret, status, pc, plan, counters>>

Usable == mr[ProviderConfig].exists /\ mr[Secret].exists

Create(k) ==
  /\ mr[k].exists /\ ~mr[k].dying /\ ~mr[k].ok
  /\ mr' = [mr EXCEPT ![k] = [mr[k] EXCEPT !.ok = TRUE]]
  /\ UNCHANGED <<target, cost, blank>> /\ UNCHANGED Rest

Install ==
  /\ Create(Installation)
  /\ token' = IF token = 0 THEN 1 ELSE token
  /\ UNCHANGED grafana

Verify(t) ==
  /\ Usable /\ Create(Verifier(t))
  /\ verified' = verified \cup {t}
  /\ UNCHANGED <<running, created, token>>

CreateCheck(c) ==
  /\ Usable /\ Create(Check(c))
  /\ created' = [created EXCEPT ![c] = @ + 1]
  /\ running' = [running EXCEPT ![c] = cost[c]]
  /\ UNCHANGED <<verified, token>>

UpdateCheck(c) ==
  /\ Usable /\ mr[Check(c)].ok /\ ~mr[Check(c)].dying
  /\ running[c] # cost[c]
  /\ running' = [running EXCEPT ![c] = cost[c]]
  /\ UNCHANGED <<mr, target, cost, blank, token, verified, created>>
  /\ UNCHANGED Rest

AttachAlerts(c) ==
  /\ Usable /\ mr[Check(c)].ok /\ created[c] = target[c]
  /\ Create(Alerts(c))
  /\ UNCHANGED <<grafana, token>>

(* The alerts of a check go with it.                                        *)
Finalise(k) ==
  /\ Usable /\ mr[k].exists /\ mr[k].dying
  /\ mr' = [j \in Child |->
              IF j = k THEN AbsentMR
              ELSE IF \E c \in Checks : k = Check(c) /\ j = Alerts(c)
                THEN [mr[j] EXCEPT !.ok = FALSE]
              ELSE mr[j]]
  /\ target' = [c \in Checks |-> IF k = Alerts(c) THEN 0 ELSE target[c]]
  /\ cost' = [c \in Checks |-> IF k = Check(c) THEN 0 ELSE cost[c]]
  /\ running' = [c \in Checks |-> IF k = Check(c) THEN 0 ELSE running[c]]
  /\ blank' = blank \ {k}
  /\ UNCHANGED <<token, created, verified>> /\ UNCHANGED Rest

Provide ==
  \/ \E t \in Tokens : Verify(t)
  \/ \E c \in Checks : CreateCheck(c) \/ UpdateCheck(c) \/ AttachAlerts(c)
  \/ \E k \in Child : Finalise(k)

(* The installation's token is replaced by a new one.                       *)
Rotate ==
  /\ mr[Installation].ok /\ token \in 1..MaxRotations
  /\ token' = token + 1
  /\ UNCHANGED <<mr, target, cost, blank, grafana>> /\ UNCHANGED Rest

LoseStatus(k) ==
  /\ faults < MaxFaults /\ k \notin blank /\ mr[k].ok
  /\ blank' = blank \cup {k} /\ faults' = faults + 1
  /\ UNCHANGED <<request, context, cluster, token, grafana, status, pc, plan,
                 edits>>

RecoverStatus(k) ==
  /\ k \in blank
  /\ blank' = blank \ {k}
  /\ UNCHANGED <<mr, target, cost, token, grafana>> /\ UNCHANGED Rest

LoseContext ==
  /\ faults < MaxFaults /\ context
  /\ context' = FALSE /\ faults' = faults + 1
  /\ UNCHANGED <<request, cluster, blank, token, grafana, status, pc, plan,
                 edits>>

ResolveContext ==
  /\ ~context /\ context' = TRUE
  /\ UNCHANGED <<request, cluster, blank, token, grafana, status, pc, plan,
                 counters>>

-----------------------------------------------------------------------------
(* The team.                                                                *)

EditRequest(cs, as) ==
  /\ edits < MaxEdits /\ <<cs, as>> # <<checks, alerting>>
  /\ \A c \in as : cs[c] > 0
  /\ checks' = cs /\ alerting' = as
  /\ dropped' = dropped \cup {k \in Declared : k \notin Declared'}
  /\ edits' = edits + 1
  /\ UNCHANGED <<context, cluster, blank, token, grafana, status, pc, plan,
                 faults>>

-----------------------------------------------------------------------------
Init ==
  /\ checks \in [Checks -> 0..MaxCost] /\ alerting \in SUBSET Checks
  /\ \A c \in alerting : checks[c] > 0
  /\ context = TRUE /\ dropped = {}
  /\ mr = [k \in Child |-> AbsentMR]
  /\ cost = [c \in Checks |-> 0] /\ target = [c \in Checks |-> 0]
  /\ secret = 0 /\ blank = {} /\ token = 0
  /\ running = [c \in Checks |-> 0] /\ created = [c \in Checks |-> 0]
  /\ verified = {} /\ refs = {} /\ status = FALSE
  /\ pc = "idle" /\ plan = NoPlan
  /\ edits = 0 /\ faults = 0

Next ==
  \/ Turn \/ Apply \/ Interrupt
  \/ Install \/ Provide \/ Rotate
  \/ \E k \in Child : LoseStatus(k) \/ RecoverStatus(k)
  \/ LoseContext \/ ResolveContext
  \/ \E cs \in [Checks -> 0..MaxCost], as \in SUBSET Checks : EditRequest(cs, as)

Spec == Init /\ [][Next]_vars

(* Crossplane keeps reconciling, the controllers keep working as long as    *)
(* their credential is the current one, and lost statuses and contexts come *)
(* back; nobody has to edit or rotate anything.                             *)
Fairness ==
  /\ WF_vars(Turn) /\ WF_vars(Apply)
  /\ WF_vars(Install)
  /\ WF_vars(secret = token /\ Provide)
  /\ WF_vars(\E k \in Child : RecoverStatus(k))
  /\ WF_vars(ResolveContext)

FairSpec == Spec /\ Fairness

-----------------------------------------------------------------------------
TypeOK ==
  /\ checks \in [Checks -> 0..MaxCost] /\ alerting \subseteq Checks
  /\ context \in BOOLEAN /\ status \in BOOLEAN
  /\ mr \in [Child -> [exists : BOOLEAN, ok : BOOLEAN, dying : BOOLEAN]]
  /\ cost \in [Checks -> 0..MaxCost] /\ target \in [Checks -> Nat]
  /\ token \in 0..(MaxRotations + 1) /\ secret \in 0..(MaxRotations + 1)
  /\ blank \subseteq Child /\ refs \subseteq Child /\ verified \subseteq Tokens
  /\ running \in [Checks -> 0..MaxCost] /\ created \in [Checks -> Nat]
  /\ pc \in {"idle", "apply"}
  /\ plan \in [desired : SUBSET Child, token : 0..(MaxRotations + 1),
               cost : [Checks -> 0..MaxCost], target : [Checks -> Nat],
               status : BOOLEAN]
  /\ dropped \subseteq Authored
  /\ edits \in 0..MaxEdits /\ faults \in 0..MaxFaults

(* "Temporary product bootstrap or verification interruptions abort         *)
(* reconciliation before withdrawing existing children": apart from         *)
(* verifiers, only what the team took out of the request is ever deleted.   *)
KeptUnlessDropped ==
  \A k \in Child \ Verifiers : mr[k].dying => k \in dropped

(* A check is created only by a turn whose own token was verified: neither  *)
(* an older verifier nor a rotation between the two lets one through.       *)
ChecksAfterVerification ==
  [][\A c \in Checks : mr'[Check(c)].exists /\ ~mr[Check(c)].exists =>
       plan.token \in verified]_vars

(* Alerts name an ID Grafana assigned to their check, never a blank one.    *)
AlertsNameIDs ==
  \A c \in Checks : mr[Alerts(c)].exists => target[c] \in 1..created[c]

(* The request as it is in the cluster and in Grafana.                      *)
Fulfilled ==
  /\ status = TRUE /\ secret = token
  /\ \A t \in Tokens : mr[Verifier(t)].exists <=> t = token
  /\ \A c \in Checks :
       /\ running[c] = checks[c]
       /\ mr[Alerts(c)].ok <=> c \in alerting
       /\ c \in alerting => target[c] = created[c]

(* A rotation found a check the team still declares.                        *)
RotatedLate ==
  /\ token # 0 /\ ~Reported(Verifier(token))
  /\ Declared \cap Observed # {}

(* Alerts the team declares are left without their check: it was taken out  *)
(* and declared again before it was finalised.                              *)
Orphaned ==
  \E c \in Checks : Alerts(c) \in Declared \cap Observed /\ ~Reported(Check(c))

(* Once the edits end, a request within its budget is fulfilled for good,   *)
(* and nothing else runs in Grafana, unless a rotation came too late or     *)
(* alerts lost their check.                                                 *)
RequestSettles == <>[](WithinBudget => Fulfilled \/ RotatedLate \/ Orphaned)

(* "Rotating the derived credential retires the old verifier."              *)
RotationRetires ==
  <>[](WithinBudget =>
         \A t \in Tokens : t # token => ~mr[Verifier(t)].exists)
=============================================================================
