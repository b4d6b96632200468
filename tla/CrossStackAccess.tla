-------------------------- MODULE CrossStackAccess --------------------------
(***************************************************************************)
(* A GrafanaStackConsumer, which mints a token against a stack that is     *)
(* only observed (renderStackConsumer), and a GrafanaProjectContent, which *)
(* puts such a token, a Git Sync connection and content behind both into a *)
(* second stack (renderProjectContent).                                    *)
(*                                                                         *)
(* Children are rendered in stages.  Each stage waits for an identity the  *)
(* provider assigns to a child of the one before: the stacks' IDs, the     *)
(* policy's ID, the central stack's endpoints, the Git credential.  What   *)
(* is lost is recovered from another child where one carries it, and a     *)
(* turn that would still withdraw a child is Fatal, which is no turn.      *)
(*                                                                         *)
(* Abstractions: claim and profile are immutable and well formed, so that  *)
(* a child in the cluster matches the profile; an ID is the number of the  *)
(* policy it was assigned to; a stack's ID and endpoints come and go with  *)
(* its status; a recorded import name stays, since the provider writes it  *)
(* too; no status condition but readiness is read.                         *)
(***************************************************************************)
EXTENDS Naturals

CONSTANTS
  Content,      \* datasources, folder and repository in the project stack
  MaxFaults     \* bound on interrupted applies, on statuses that are
                \* momentarily empty and on children that someone deletes

ASSUME MaxFaultsAssumption == MaxFaults \in Nat

Project == "project-observed-stack"
Central == "stack-consumer-observed-stack"
Policy == "stack-consumer-access-policy"
Token == "stack-consumer-token"
Credentials == "stack-consumer-credentials"
SourceSecret == "datasource-credentials"
GitCredential == "git-credential"
GitSecureValue == "git-secure-value"
GitConnection == "git-connection"

Git == {GitCredential, GitSecureValue, GitConnection}
Child ==
  {Project, Central, Policy, Token, Credentials, SourceSecret} \cup Git \cup Content

(* The children whose status a turn reads an identity or a secret from.     *)
Sources == {Project, Central, Policy, GitCredential}

ASSUME ContentAssumption ==
  Content \cap ({Project, Central, Policy, Token, Credentials, SourceSecret}
                  \cup Git) = {}

NoPolicy == 0
PolicyIds == 0..(MaxFaults + 1)

VARIABLES
  kind,       \* of the claim
  mr,         \* the composed resources in the cluster
  blank,      \* children whose status is momentarily empty, or whose Secret
              \* is momentarily gone
  name,       \* the policy the policy's import name stands for
  bound,      \* the policy in the token's forProvider.accessPolicyId
  minted,     \* the policies Grafana ever created for the claim
  refs,       \* spec.crossplane.resourceRefs
  pc, plan,   \* the running reconcile and what its turn returned
  ready,      \* status.projectContent.ready; of a consumer, that all it
              \* renders is ready
  withdrawn,  \* history: children a reconcile ever deleted
  faults

cluster == <<mr, blank, name, bound, refs, withdrawn>>
vars == <<kind, cluster, minted, pc, plan, ready, faults>>

AbsentMR == [exists |-> FALSE, ok |-> FALSE]
NoPlan == [desired |-> {}, name |-> NoPolicy, ready |-> FALSE]

-----------------------------------------------------------------------------
(* What a turn observes.                                                    *)

Observed == {k \in refs : mr[k].exists}
Known(k) == k \in Observed /\ mr[k].ok /\ k \notin blank

ForContent == kind = "ProjectContent"
Observers == IF ForContent THEN {Project, Central} ELSE {Central}
Claimed == IF ForContent THEN Child ELSE {Central, Policy, Token, Credentials}

(* The central stack's ID: content also reads it from the policy's realm.   *)
StackKnown == Known(Central) \/ (ForContent /\ Policy \in Observed)

(* Mutant: a token is not asked for the policy it belongs to.               *)
IdentityReported == IF Known(Policy) THEN name ELSE NoPolicy

(* The policy's ID: content also reads it from the token.                   *)
Identity ==
  CASE Known(Policy) -> name
    [] ~Known(Policy) /\ ForContent /\ Token \in Observed -> bound
    [] OTHER -> NoPolicy

(* Mutant: a policy is rendered without its import name.                    *)
ImportNameUnauthored == NoPolicy

(* The import name a policy is rendered with: content authors it from the   *)
(* ID, a consumer repeats the one observed.                                 *)
ImportName ==
  CASE ForContent -> Identity
    [] ~ForContent /\ Policy \in Observed -> name
    [] OTHER -> NoPolicy

-----------------------------------------------------------------------------
(* The stages.                                                              *)

(* A project stack that is lost is only waited for before the policy.       *)
PolicyDue ==
  StackKnown /\ (ForContent => Known(Project) \/ Policy \in Observed)
TokenDue == PolicyDue /\ Identity # NoPolicy

ServiceDue == ForContent /\ TokenDue /\ Known(Central)
ConnectionDue ==
  ServiceDue /\ GitSecureValue \in Observed /\ Known(GitCredential)

Rendered ==
  {k \in Child :
     /\ k = Project => ForContent
     /\ k = Policy => PolicyDue
     /\ k \in {Token, Credentials} => TokenDue
     /\ k \in {SourceSecret, GitCredential, GitSecureValue} => ServiceDue
     /\ k \in {GitConnection} \cup Content => ConnectionDue}

(* Mutant: a wait withdraws what it does not render.                        *)
WaitWithdraws == ForContent \/ Observed \subseteq Rendered

(* projectContentWait and the refusals of a consumer: a turn that does not  *)
(* reach the last stage keeps every child, and once there is more than the  *)
(* observers it does not replace one of these.                              *)
WaitAllowed ==
  /\ Observed \subseteq Rendered
  /\ (ForContent /\ Observed \ Observers # {}) => Observers \subseteq Observed

(* The existing connection keeps the key it has: there is none to give it.  *)
KeyLost ==
  /\ ForContent /\ {GitSecureValue, GitConnection} \subseteq Observed
  /\ ~Known(GitCredential)

(* A policy and a token that name different policies are left alone.        *)
Conflicting ==
  IF ForContent
  THEN /\ ~Known(Policy) /\ {Policy, Token} \subseteq Observed
       /\ name \notin {NoPolicy, bound}
  ELSE TokenDue /\ Token \in Observed /\ bound # Identity

Acceptable ==
  /\ ~KeyLost /\ ~Conflicting
  /\ ConnectionDue \/ WaitAllowed

(* Nothing is refused, and all that is rendered is ready.                   *)
RenderedReady ==
  /\ ForContent => ConnectionDue
  /\ \A k \in Rendered : k \in Observed /\ mr[k].ok
  /\ \A k \in Rendered \cap Sources : Known(k)

-----------------------------------------------------------------------------
(* A reconcile of the claim.                                                *)

Turn ==
  /\ pc = "idle" /\ Acceptable
  /\ plan' = [desired |-> Rendered, name |-> ImportName, ready |-> RenderedReady]
  /\ pc' = "apply"
  /\ UNCHANGED <<kind, cluster, minted, ready, faults>>

Doomed == Observed \ plan.desired

ApplyTo(S) ==
  /\ mr' = [k \in Child |->
              IF k \in S THEN [mr[k] EXCEPT !.exists = TRUE]
              ELSE IF k \in Doomed THEN AbsentMR ELSE mr[k]]
  /\ blank' = blank \ Doomed
  /\ name' = IF Policy \in S /\ plan.name # NoPolicy THEN plan.name
             ELSE IF Policy \in Doomed THEN NoPolicy ELSE name
  /\ bound' = IF Token \in S THEN plan.name
              ELSE IF Token \in Doomed THEN NoPolicy ELSE bound
  /\ refs' = plan.desired
  /\ withdrawn' = withdrawn \cup Doomed

Return == pc' = "idle" /\ plan' = NoPlan /\ UNCHANGED <<kind, minted>>

Apply ==
  /\ pc = "apply"
  /\ ApplyTo(plan.desired) /\ ready' = plan.ready
  /\ Return /\ UNCHANGED faults

(* The children that applying creates.  A child that exists changes only    *)
(* when it is given an identity it lacks.                                   *)
Created == {k \in plan.desired : ~mr[k].exists}

Interrupt ==
  /\ pc = "apply" /\ faults < MaxFaults
  /\ \/ \E S \in SUBSET (Created \cup (plan.desired \cap {Policy})) :
          ApplyTo(plan.desired \ S)
     \/ UNCHANGED cluster
  /\ faults' = faults + 1 /\ UNCHANGED ready
  /\ Return

-----------------------------------------------------------------------------
(* The Grafana provider and the secrets operator.                           *)

(* What a child waits for: the Secrets and objects it refers to.            *)
Feeds(k) ==
  CASE k = Credentials -> {Token}
    [] k = SourceSecret -> {Credentials}
    [] k = GitSecureValue -> {GitCredential}
    [] k \in Content -> {SourceSecret, GitConnection}
    [] OTHER -> {}

Pending(k) ==
  /\ mr[k].exists /\ ~mr[k].ok
  /\ \A f \in Feeds(k) : mr[f].ok

(* A policy without an import name is created, one with it is adopted.      *)
Materialise(k) ==
  /\ Pending(k)
  /\ mr' = [mr EXCEPT ![k].ok = TRUE]
  /\ IF k = Policy /\ name = NoPolicy
     THEN minted' = minted + 1 /\ name' = minted + 1
     ELSE UNCHANGED <<minted, name>>
  /\ UNCHANGED <<kind, blank, bound, refs, withdrawn, pc, plan, ready, faults>>

LoseStatus(k) ==
  /\ faults < MaxFaults /\ k \notin blank /\ mr[k].ok
  /\ blank' = blank \cup {k} /\ faults' = faults + 1
  /\ UNCHANGED <<kind, mr, name, bound, minted, refs, withdrawn, pc, plan, ready>>

RecoverStatus(k) ==
  /\ k \in blank
  /\ blank' = blank \ {k}
  /\ UNCHANGED <<kind, mr, name, bound, minted, refs, withdrawn, pc, plan, ready, faults>>

(* Someone deletes a child.  In Grafana it stays: no child has the Delete   *)
(* policy.                                                                  *)
Disappear(k) ==
  /\ faults < MaxFaults /\ mr[k].exists
  /\ mr' = [mr EXCEPT ![k] = AbsentMR]
  /\ blank' = blank \ {k}
  /\ name' = IF k = Policy THEN NoPolicy ELSE name
  /\ bound' = IF k = Token THEN NoPolicy ELSE bound
  /\ faults' = faults + 1
  /\ UNCHANGED <<kind, minted, refs, withdrawn, pc, plan, ready>>

Providers == \E k \in Child : Materialise(k) \/ RecoverStatus(k)

-----------------------------------------------------------------------------
Init ==
  /\ kind \in {"StackConsumer", "ProjectContent"}
  /\ mr = [k \in Child |-> AbsentMR] /\ blank = {}
  /\ name = NoPolicy /\ bound = NoPolicy /\ minted = 0
  /\ refs = {} /\ withdrawn = {}
  /\ pc = "idle" /\ plan = NoPlan /\ ready = FALSE
  /\ faults = 0

Next ==
  \/ Turn \/ Apply \/ Interrupt \/ Providers
  \/ \E k \in Sources : LoseStatus(k)
  \/ \E k \in Child : Disappear(k)

Spec == Init /\ [][Next]_vars

(* Crossplane keeps reconciling, and the providers keep working.            *)
Fairness == WF_vars(Turn) /\ WF_vars(Apply) /\ WF_vars(Providers)

FairSpec == Spec /\ Fairness

-----------------------------------------------------------------------------
TypeOK ==
  /\ kind \in {"StackConsumer", "ProjectContent"}
  /\ mr \in [Child -> [exists : BOOLEAN, ok : BOOLEAN]]
  /\ blank \subseteq Sources
  /\ name \in PolicyIds /\ bound \in PolicyIds /\ minted \in PolicyIds
  /\ refs \subseteq Claimed /\ withdrawn \subseteq Child
  /\ pc \in {"idle", "apply"}
  /\ plan \in [desired : SUBSET Claimed, name : PolicyIds, ready : BOOLEAN]
  /\ ready \in BOOLEAN /\ faults \in 0..MaxFaults

(* "refusing to withdraw existing children": whatever identity, secret or   *)
(* child is lost, no reconcile deletes one that exists.                     *)
NothingWithdrawn == withdrawn = {}

(* The token and the policy next to it stand for the same policy of         *)
(* Grafana, also where each was rendered again from what the other carries. *)
OneIdentity ==
  mr[Token].exists =>
    /\ bound # NoPolicy
    /\ mr[Policy].exists => name = bound

(* While a token exists Grafana is given no second policy to mint against.  *)
PolicyKept == [][mr[Token].exists => minted' = minted]_vars

(* What the claim asks for is in the cluster and is reported.               *)
Fulfilled ==
  /\ \A k \in Claimed : mr[k].exists /\ mr[k].ok
  /\ ready

(* Children whose loss no turn repairs: another that exists and the wait    *)
(* that keeps it stand in the way.                                          *)
Present(S) == \E k \in S : mr[k].exists
Irreparable ==
  \/ ~mr[Central].exists /\ Present(Child \ Observers)
  \/ ~mr[Policy].exists /\ Present(Child \ (Observers \cup {Policy}))
       /\ (ForContent => ~mr[Token].exists)
  \/ /\ ForContent /\ ~mr[Project].exists /\ Present(Child \ Observers)
     /\ \E k \in {Policy, GitCredential, GitSecureValue} : ~mr[k].exists
  \/ /\ Present({GitConnection} \cup Content)
     /\ \E k \in {GitCredential, GitSecureValue} : ~mr[k].exists

(* A claim is fulfilled and reported so, through every lost status and      *)
(* interrupted apply and every deletion that can be repaired.               *)
ClaimSettles == <>[](Fulfilled \/ Irreparable)
=============================================================================
