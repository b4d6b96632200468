------------------------- MODULE PrivateDataSource -------------------------
(***************************************************************************)
(* A GrafanaPDC: private networks, the tokens an agent joins them with and *)
(* the datasources that are reached through them (renderPDC behind         *)
(* observedSurfaceStackConfig).                                            *)
(*                                                                         *)
(* Time is cut into windows of half a token's lifetime.  A turn renders    *)
(* the networks, one token of the current window for each network whose ID *)
(* is known, and the datasources of those networks.  The token of the      *)
(* window before is dropped by the turn that renders its successor, but    *)
(* the managed resources lack the Delete policy, so in Grafana it lives    *)
(* until it expires.  The ID is read from the network's status or from any *)
(* token observed; a datasource that exists is held, by a Fatal turn,      *)
(* while its network's ID is unknown.                                      *)
(*                                                                         *)
(* One reconcile is a Turn on a snapshot, and an Apply of what it returned *)
(* which may be interrupted after any part.  A Fatal turn is no turn, and  *)
(* a turn without context returns nothing or is Fatal.                     *)
(*                                                                         *)
(* Abstractions: networks, profile and token lifetime are immutable and    *)
(* well formed; a datasource is the network it is attached to; a resolved  *)
(* context implies an open access gate, which tests the same stack.        *)
(***************************************************************************)
EXTENDS Naturals

CONSTANTS
  Networks,     \* names of spec.networks
  Sources,      \* names of datasources
  NoNetwork,    \* the network of a datasource that is not declared
  LastWindow,   \* bound on the windows that pass
  MaxEdits,     \* bound on edits of spec.datasources
  MaxFaults     \* bound on interrupted applies, on statuses and contexts
                \* that are momentarily lost and on windows that end too soon

ASSUME NamesAssumption == NoNetwork \notin Networks
ASSUME BoundsAssumption ==
  LastWindow \in Nat /\ MaxEdits \in Nat /\ MaxFaults \in Nat

Windows == 0..LastWindow

Network(n) == <<"network", n, 0>>
Token(n, w) == <<"token", n, w>>
Source(d) == <<"datasource", d, 0>>

NetworkChildren == {Network(n) : n \in Networks}
SourceChildren == {Source(d) : d \in Sources}
TokenChildren == {Token(nw[1], nw[2]) : nw \in Networks \X Windows}
Child == NetworkChildren \cup SourceChildren \cup TokenChildren

VARIABLES
  sources,    \* spec.datasources: the network each is attached to
  window,     \* the current window, counted from the creation of the claim
  context,    \* the stack is Ready and its identity resolves
  mr,         \* the composed resources in the cluster
  target,     \* forProvider.privateDataSourceConnectNetworkId of each source
  blank,      \* networks whose status.atProvider is momentarily empty
  tokens,     \* the tokens Grafana ever minted and has not deleted
  refs,       \* spec.crossplane.resourceRefs
  pc, plan,   \* the running reconcile and what its turn returned
  dropped,    \* history: datasources the team ever took out of the request
  overdue,    \* history: networks without a token of the window that ended
              \* last, for one of the reasons of Excused
  edits, faults

counters == <<edits, faults>>
request == <<sources, dropped>>
grafana == <<blank, tokens>>
cluster == <<mr, target, refs>>
time == <<window, overdue>>
vars == <<request, time, context, cluster, grafana, pc, plan, counters>>

AbsentMR == [exists |-> FALSE, ok |-> FALSE, dying |-> FALSE]
NoTarget == [d \in Sources |-> NoNetwork]
NoPlan == [desired |-> {}, target |-> NoTarget]

-----------------------------------------------------------------------------
(* The renewal of tokens.                                                   *)

(* Mutant: every child is deleted in Grafana with its managed resource.     *)
PoliciesWithDelete == {"Create", "Observe", "Update", "LateInitialize", "Delete"}

Policies == {"Create", "Observe", "Update", "LateInitialize"}

(* pdcTokenIssuance: one token per window that has begun.                   *)
Issuance == window

(* Mutant: a token expires with the window it was issued in.                *)
ExpiresWithWindow(w) == w + 1

(* A token lives for two windows from the start of its own.                 *)
Expires(w) == w + 2

-----------------------------------------------------------------------------
(* What the function observes and returns.                                  *)

Observed == {k \in refs : mr[k].exists}
TokenObserved(n) == \E w \in Windows : Token(n, w) \in Observed
Reported(n) ==
  Network(n) \in Observed /\ mr[Network(n)].ok /\ Network(n) \notin blank

(* Mutant: only the network itself is asked for its ID.                     *)
KnownReported(n) == Reported(n)

(* pdcObservedNetworkID: a token carries the ID it was rendered with.       *)
Known(n) == Reported(n) \/ TokenObserved(n)

Rendered ==
  NetworkChildren
    \cup {Token(n, Issuance) : n \in {m \in Networks : Known(m)}}
    \cup {Source(d) : d \in {e \in Sources :
                               sources[e] # NoNetwork /\ Known(sources[e])}}

(* Mutant: a datasource that exists is not held.                            *)
HeldNone == {}

(* Mutant: a datasource is held before it exists.                           *)
HeldAtOnce ==
  {d \in Sources : sources[d] # NoNetwork /\ ~Known(sources[d])}

(* The turn waits for the IDs of the networks of these datasources.         *)
Held ==
  {d \in Sources :
     /\ sources[d] # NoNetwork /\ ~Known(sources[d])
     /\ Source(d) \in Observed}

(* A token without an ID is refused in the same way.                        *)
Orphaned == {n \in Networks : ~Known(n) /\ TokenObserved(n)}

Acceptable == context /\ Held = {} /\ Orphaned = {}

-----------------------------------------------------------------------------
(* A reconcile of the request.                                              *)

Turn ==
  /\ pc = "idle" /\ Acceptable
  /\ plan' = [desired |-> Rendered, target |-> sources]
  /\ pc' = "apply"
  /\ UNCHANGED <<request, time, context, cluster, grafana, counters>>

Doomed == Observed \ plan.desired

(* A datasource given another network has to be updated in Grafana.         *)
AppliedMR(k) ==
  [mr[k] EXCEPT
     !.exists = TRUE,
     !.ok = @ /\ \A d \in Sources : k = Source(d) => target[d] = plan.target[d]]

ApplyTo(S) ==
  /\ mr' = [k \in Child |->
              IF k \in S THEN AppliedMR(k)
              ELSE IF k \in Doomed THEN [mr[k] EXCEPT !.dying = TRUE]
              ELSE mr[k]]
  /\ target' = [d \in Sources |->
                  IF Source(d) \in S THEN plan.target[d] ELSE target[d]]
  /\ refs' = plan.desired

Apply ==
  /\ pc = "apply"
  /\ ApplyTo(plan.desired)
  /\ pc' = "idle" /\ plan' = NoPlan
  /\ UNCHANGED <<request, time, context, grafana, counters>>

(* The children that applying changes at all.                               *)
Changed ==
  {k \in plan.desired :
     \/ ~mr[k].exists
     \/ \E d \in Sources : k = Source(d) /\ target[d] # plan.target[d]}

Interrupt ==
  /\ pc = "apply" /\ faults < MaxFaults
  /\ \/ \E S \in SUBSET Changed : ApplyTo(plan.desired \ S)
     \/ UNCHANGED cluster
  /\ faults' = faults + 1
  /\ pc' = "idle" /\ plan' = NoPlan
  /\ UNCHANGED <<request, time, context, grafana, edits>>

-----------------------------------------------------------------------------
(* The Grafana provider.                                                    *)

Rest == <<request, time, context, refs, pc, plan, counters>>

(* Tokens and datasources name a network that exists in Grafana.            *)
Pending(k) == mr[k].exists /\ ~mr[k].ok /\ ~mr[k].dying

Materialise(k) ==
  /\ Pending(k)
  /\ mr' = [mr EXCEPT ![k] = [mr[k] EXCEPT !.ok = TRUE]]
  /\ tokens' = tokens \cup ({k} \cap TokenChildren)
  /\ UNCHANGED <<target, blank>> /\ UNCHANGED Rest

Finalise(k) ==
  /\ mr[k].exists /\ mr[k].dying
  /\ mr' = [mr EXCEPT ![k] = AbsentMR]
  /\ target' = [d \in Sources |->
                  IF k = Source(d) THEN NoNetwork ELSE target[d]]
  /\ blank' = blank \ {k}
  /\ tokens' = IF "Delete" \in Policies THEN tokens \ {k} ELSE tokens
  /\ UNCHANGED Rest

LoseStatus(k) ==
  /\ faults < MaxFaults /\ k \notin blank /\ mr[k].ok
  /\ blank' = blank \cup {k} /\ faults' = faults + 1
  /\ UNCHANGED <<request, time, context, cluster, tokens, pc, plan, edits>>

RecoverStatus(k) ==
  /\ k \in blank
  /\ blank' = blank \ {k}
  /\ UNCHANGED <<mr, target, tokens>> /\ UNCHANGED Rest

Controllers ==
  \E k \in Child : Materialise(k) \/ Finalise(k) \/ RecoverStatus(k)

LoseContext ==
  /\ faults < MaxFaults /\ context
  /\ context' = FALSE /\ faults' = faults + 1
  /\ UNCHANGED <<request, time, cluster, grafana, pc, plan, edits>>

ResolveContext ==
  /\ ~context /\ context' = TRUE
  /\ UNCHANGED <<request, time, cluster, grafana, pc, plan, counters>>

(* The team.  Only the datasources of a claim can be edited.                *)
EditSources(s) ==
  /\ edits < MaxEdits /\ s # sources
  /\ sources' = s
  /\ dropped' = dropped \cup {Source(d) : d \in {e \in Sources :
                                sources[e] # NoNetwork /\ s[e] = NoNetwork}}
  /\ edits' = edits + 1
  /\ UNCHANGED <<time, context, cluster, grafana, pc, plan, faults>>

-----------------------------------------------------------------------------
(* Time.  Lifetimes from two seconds are admitted and a Fatal turn may last *)
(* for ever, so a window ends at any moment.  Grafana may not have minted   *)
(* the network's token of a window that ends, because                       *)
(*   - the reconcile or the provider is not done with it;                   *)
(*   - the stack does not resolve;                                          *)
(*   - nothing that is observed carries the network's ID;                   *)
(*   - a datasource was moved to a network of which this is true, which     *)
(*     holds the renewal of every network.                                  *)
(* A window that is shorter than the work in it counts as a fault.          *)
UpToDate ==
  Acceptable =>
    /\ Observed = Rendered
    /\ \A d \in Sources : Source(d) \in Observed => target[d] = sources[d]
Unfinished(n) == ~UpToDate \/ Pending(Token(n, window))
Named(n) == Reported(n) \/ TokenObserved(n)
Stranded ==
  \E d \in Sources :
    sources[d] # NoNetwork /\ Source(d) \in Observed /\ ~Named(sources[d])
Excused(n) == Unfinished(n) \/ ~context \/ ~Named(n) \/ Stranded

Hurried == pc # "idle" \/ ~UpToDate \/ \E k \in Child : Pending(k)

Tick ==
  /\ window < LastWindow
  /\ Hurried => faults < MaxFaults
  /\ window' = window + 1
  /\ faults' = IF Hurried THEN faults + 1 ELSE faults
  /\ overdue' = {n \in Networks : Token(n, window) \notin tokens /\ Excused(n)}
  /\ UNCHANGED <<request, context, cluster, grafana, pc, plan, edits>>

-----------------------------------------------------------------------------
Init ==
  /\ sources \in [Sources -> Networks \cup {NoNetwork}]
  /\ window = 0 /\ context = TRUE /\ dropped = {} /\ overdue = Networks
  /\ mr = [k \in Child |-> AbsentMR] /\ target = NoTarget
  /\ blank = {} /\ tokens = {} /\ refs = {}
  /\ pc = "idle" /\ plan = NoPlan
  /\ edits = 0 /\ faults = 0

Next ==
  \/ Turn \/ Apply \/ Interrupt \/ Controllers \/ Tick
  \/ LoseContext \/ ResolveContext
  \/ \E k \in NetworkChildren : LoseStatus(k)
  \/ \E s \in [Sources -> Networks \cup {NoNetwork}] : EditSources(s)

Spec == Init /\ [][Next]_vars

(* Crossplane keeps reconciling, the provider keeps working, statuses and   *)
(* the stack recover.  No window has to end.                                *)
Fairness ==
  /\ WF_vars(Turn) /\ WF_vars(Apply)
  /\ WF_vars(Controllers)
  /\ WF_vars(ResolveContext)

FairSpec == Spec /\ Fairness

-----------------------------------------------------------------------------
TypeOK ==
  /\ sources \in [Sources -> Networks \cup {NoNetwork}]
  /\ window \in Windows /\ context \in BOOLEAN
  /\ mr \in [Child -> [exists : BOOLEAN, ok : BOOLEAN, dying : BOOLEAN]]
  /\ target \in [Sources -> Networks \cup {NoNetwork}]
  /\ blank \subseteq Child /\ tokens \subseteq TokenChildren
  /\ refs \subseteq Child /\ pc \in {"idle", "apply"}
  /\ plan \in [desired : SUBSET Child,
               target : [Sources -> Networks \cup {NoNetwork}]]
  /\ dropped \subseteq SourceChildren /\ overdue \subseteq Networks
  /\ edits \in 0..MaxEdits /\ faults \in 0..MaxFaults

(* "the preceding token remains valid for one more half-lifetime": unless a *)
(* network's token of the last window was overdue, the network has one that *)
(* has not expired, whatever its own status reports, what a turn drops and  *)
(* where an apply stops.                                                    *)
AccessContinuous ==
  \A n \in Networks \ overdue :
    \E w \in Windows : Token(n, w) \in tokens /\ window < Expires(w)

(* Nothing but a datasource the team took out and a token whose successor   *)
(* has begun is ever withdrawn, whatever is lost or interrupted.            *)
KeptUnlessOver ==
  \A k \in Child : mr[k].dying =>
    k \in dropped \/ \E n \in Networks, w \in Windows :
                       k = Token(n, w) /\ w < window

(* The request as it is in the cluster.                                     *)
Fulfilled ==
  \A n \in Networks :
    /\ mr[Network(n)].ok /\ mr[Token(n, window)].ok
    /\ \A d \in Sources : sources[d] = n => mr[Source(d)].ok /\ target[d] = n

(* A datasource that was moved to a network that does not exist is held for *)
(* ever, and the turn that would create the network with it.                *)
Stuck == \E d \in Sources :
  sources[d] # NoNetwork /\ mr[Source(d)].exists
    /\ ~mr[Network(sources[d])].exists

(* Once the edits end, every network has its current token and every        *)
(* datasource the network the team gave it.                                 *)
RequestSettles == <>[](Fulfilled \/ Stuck)
=============================================================================
