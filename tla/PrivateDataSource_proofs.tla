---------------------- MODULE PrivateDataSource_proofs ----------------------
(***************************************************************************)
(* Proofs about private data sources, for any networks and datasources and *)
(* any number of windows, edits and faults: type correctness, that nothing *)
(* is withdrawn but what is over, and that a network is without an         *)
(* unexpired token only where its renewal had an excuse; then where a      *)
(* request can come to rest and what a datasource moved to an absent       *)
(* network does to it.                                                     *)
(***************************************************************************)
EXTENDS PrivateDataSource, TLAPS

USE NamesAssumption, BoundsAssumption

ManagedResource == [exists : BOOLEAN, ok : BOOLEAN, dying : BOOLEAN]
Targets == [Sources -> Networks \cup {NoNetwork}]
Plans == [desired : SUBSET Child, target : Targets]

IdlePlan == pc = "idle" => plan.desired = {}

(* A datasource that exists or is planned is declared, or once was.         *)
Accounted ==
  \A d \in Sources :
    mr[Source(d)].exists \/ Source(d) \in plan.desired =>
      sources[d] # NoNetwork \/ Source(d) \in dropped

(* A token belongs to a window that has begun.                              *)
TokensDue ==
  \A n \in Networks, w \in Windows :
    mr[Token(n, w)].exists \/ Token(n, w) \in plan.desired => w <= window

Over(k) == \E n \in Networks, w \in Windows : k = Token(n, w) /\ w < window

(* A plan leaves out nothing that exists but what is over.                  *)
DropsOnly ==
  pc = "apply" =>
    \A k \in Observed \ plan.desired : k \in dropped \/ Over(k)

(* A token that is ready was minted.                                        *)
MintedReady == \A k \in TokenChildren : mr[k].ok => k \in tokens

IInv ==
  /\ TypeOK /\ KeptUnlessOver /\ AccessContinuous
  /\ IdlePlan /\ Accounted /\ TokensDue /\ DropsOnly /\ MintedReady

-----------------------------------------------------------------------------
(* The names of children.                                                   *)

LEMMA Tags ==
  /\ \A n : Network(n)[1] = "network" /\ Network(n)[2] = n
  /\ \A n, w : /\ Token(n, w)[1] = "token"
               /\ Token(n, w)[2] = n /\ Token(n, w)[3] = w
  /\ \A d : Source(d)[1] = "datasource" /\ Source(d)[2] = d
  BY DEF Network, Token, Source

LEMMA TokenNames ==
  /\ \A n \in Networks, w \in Windows :
       Token(n, w) \in TokenChildren /\ Token(n, w) \in Child
  /\ \A k \in TokenChildren :
       \E n \in Networks, w \in Windows : k = Token(n, w)
<1>1. \A n \in Networks, w \in Windows : Token(n, w) \in TokenChildren
  <2> SUFFICES ASSUME NEW n \in Networks, NEW w \in Windows
               PROVE  Token(n, w) \in TokenChildren
    OBVIOUS
  <2>1. <<n, w>> \in Networks \X Windows
    OBVIOUS
  <2> QED
    BY <2>1 DEF TokenChildren
<1>2. \A k \in TokenChildren :
        \E n \in Networks, w \in Windows : k = Token(n, w)
  BY DEF TokenChildren
<1> QED
  BY <1>1, <1>2 DEF Child

LEMMA Names ==
  /\ \A d \in Sources : Source(d) \in SourceChildren /\ Source(d) \in Child
  /\ \A n \in Networks : Network(n) \in Child
  /\ \A d, e : Source(d) = Source(e) => d = e
  /\ \A n, m, v, w : Token(n, v) = Token(m, w) => n = m /\ v = w
  /\ \A d, n, w : Source(d) # Token(n, w)
  /\ TokenChildren \cap SourceChildren = {}
<1>1. \A d, n, w : Source(d) # Token(n, w)
  BY Tags
<1>2. /\ \A d, e : Source(d) = Source(e) => d = e
      /\ \A n, m, v, w : Token(n, v) = Token(m, w) => n = m /\ v = w
  BY Tags
<1>3. TokenChildren \cap SourceChildren = {}
  BY <1>1, TokenNames DEF SourceChildren
<1> QED
  BY <1>1, <1>2, <1>3 DEF SourceChildren, NetworkChildren, Child

LEMMA RenderedNames == TypeOK => Rendered \subseteq Child
<1> SUFFICES ASSUME TypeOK, NEW k \in Rendered PROVE k \in Child
  OBVIOUS
<1>1. CASE k \in NetworkChildren
  BY <1>1 DEF Child
<1>2. ASSUME NEW n \in Networks, k = Token(n, Issuance) PROVE k \in Child
  BY <1>2, TokenNames DEF Issuance, TypeOK
<1>3. ASSUME NEW d \in Sources, k = Source(d) PROVE k \in Child
  BY <1>3, Names
<1> QED
  BY <1>1, <1>2, <1>3 DEF Rendered

-----------------------------------------------------------------------------
(* Types.                                                                   *)

LEMMA PlanType ==
  /\ NoPlan \in Plans /\ NoTarget \in Targets /\ NoPlan.desired = {}
  /\ TypeOK => [desired |-> Rendered, target |-> sources] \in Plans
<1>1. NoTarget \in Targets
  BY DEF NoTarget, Targets
<1>2. TypeOK => sources \in Targets
  BY DEF TypeOK, Targets
<1> QED
  BY <1>1, <1>2, RenderedNames DEF NoPlan, Plans

LEMMA ManagedResourceType ==
  /\ AbsentMR \in ManagedResource
  /\ \A r \in ManagedResource :
       /\ [r EXCEPT !.dying = TRUE] \in ManagedResource
       /\ [r EXCEPT !.ok = TRUE] \in ManagedResource
  BY DEF ManagedResource, AbsentMR

(* Applying makes a child exist and never makes it ready.                   *)
LEMMA Applied ==
  ASSUME TypeOK, NEW k \in Child
  PROVE  /\ AppliedMR(k) \in ManagedResource
         /\ AppliedMR(k).exists = TRUE
         /\ AppliedMR(k).dying = mr[k].dying
         /\ AppliedMR(k).ok => mr[k].ok
         /\ (\A d \in Sources : k # Source(d)) => AppliedMR(k).ok = mr[k].ok
<1>1. mr[k] \in ManagedResource
  BY DEF TypeOK, ManagedResource
<1> DEFINE o == mr[k].ok /\ \A d \in Sources : k = Source(d) =>
                                target[d] = plan.target[d]
<1>2. o \in BOOLEAN /\ (o => mr[k].ok)
  BY <1>1 DEF ManagedResource
<1>3. (\A d \in Sources : k # Source(d)) => o = mr[k].ok
  BY <1>1 DEF ManagedResource
<1>4. AppliedMR(k) = [mr[k] EXCEPT !.exists = TRUE, !.ok = o]
  BY DEF AppliedMR
<1> HIDE DEF o
<1> QED
  BY <1>1, <1>2, <1>3, <1>4 DEF ManagedResource

LEMMA ApplyToType ==
  ASSUME TypeOK, NEW S \in SUBSET Child, ApplyTo(S)
  PROVE  /\ mr' \in [Child -> ManagedResource] /\ refs' \subseteq Child
         /\ target' \in Targets
<1>1. \A k \in Child : mr[k] \in ManagedResource
  BY DEF TypeOK, ManagedResource
<1>2. \A k \in Child :
        (IF k \in S THEN AppliedMR(k)
         ELSE IF k \in Doomed THEN [mr[k] EXCEPT !.dying = TRUE]
         ELSE mr[k]) \in ManagedResource
  BY <1>1, Applied, ManagedResourceType
<1>3. mr' \in [Child -> ManagedResource]
  BY <1>2 DEF ApplyTo
<1>4. target' \in Targets
  BY DEF ApplyTo, TypeOK, Targets
<1> QED
  BY <1>3, <1>4 DEF ApplyTo, TypeOK

LEMMA MaterialiseType ==
  ASSUME TypeOK, NEW k \in Child, Materialise(k)
  PROVE  TypeOK'
<1>1. mr' \in [Child -> ManagedResource]
  <2>1. mr' = [mr EXCEPT ![k] = [mr[k] EXCEPT !.ok = TRUE]]
    BY DEF Materialise
  <2>2. mr \in [Child -> ManagedResource]
    BY DEF TypeOK, ManagedResource
  <2> QED
    BY <2>1, <2>2, ManagedResourceType
<1>2. tokens' \subseteq TokenChildren
  BY DEF Materialise, TypeOK
<1>3. UNCHANGED <<sources, dropped, window, overdue, context, refs, pc, plan, edits,
                  faults, target, blank>>
  BY DEF Materialise, Rest, request, time, counters
<1> QED
  BY <1>1, <1>2, <1>3 DEF TypeOK, ManagedResource

LEMMA FinaliseType ==
  ASSUME TypeOK, NEW k \in Child, Finalise(k)
  PROVE  TypeOK'
<1>1. mr' \in [Child -> ManagedResource]
  BY ManagedResourceType DEF Finalise, TypeOK, ManagedResource
<1>2. target' \in Targets
  BY DEF Finalise, TypeOK, Targets
<1>3. tokens' \subseteq tokens /\ blank' \subseteq blank
  BY DEF Finalise
<1>4. UNCHANGED <<sources, dropped, window, overdue, context, refs, pc, plan, edits,
                  faults>>
  BY DEF Finalise, Rest, request, time, counters
<1> QED
  BY <1>1, <1>2, <1>3, <1>4 DEF TypeOK, ManagedResource, Targets

LEMMA TypeStep == TypeOK /\ [Next]_vars => TypeOK'
<1> SUFFICES ASSUME TypeOK, [Next]_vars PROVE TypeOK'
  OBVIOUS
<1>1. CASE Turn
  <2>1. plan' \in Plans
    BY <1>1, PlanType DEF Turn
  <2> QED
    BY <1>1, <2>1 DEF Turn, TypeOK, Plans, Targets, request, time, cluster, grafana,
       counters
<1>2. CASE Apply
  <2>1. /\ mr' \in [Child -> ManagedResource] /\ refs' \subseteq Child
        /\ target' \in Targets
    BY <1>2, ApplyToType DEF Apply, TypeOK
  <2> QED
    BY <1>2, <2>1, PlanType
    DEF Apply, TypeOK, ManagedResource, Plans, Targets, request, time, grafana, counters
<1>3. CASE Interrupt
  <2>1. /\ mr' \in [Child -> ManagedResource] /\ refs' \subseteq Child
        /\ target' \in Targets
    <3>1. CASE UNCHANGED cluster
      BY <3>1 DEF cluster, TypeOK, ManagedResource, Targets
    <3>2. ASSUME NEW S \in SUBSET Changed, ApplyTo(plan.desired \ S)
          PROVE  <2>1!:
      BY <3>2, ApplyToType DEF TypeOK
    <3> QED
      BY <1>3, <3>1, <3>2 DEF Interrupt
  <2>2. faults' \in 0..MaxFaults
    BY <1>3 DEF Interrupt, TypeOK
  <2>3. plan' \in Plans /\ pc' = "idle"
        /\ UNCHANGED <<sources, dropped, window, overdue, context, blank, tokens, edits>>
    BY <1>3, PlanType DEF Interrupt, request, time, grafana
  <2> QED
    BY <2>1, <2>2, <2>3 DEF TypeOK, ManagedResource, Plans, Targets
<1>4. CASE Controllers
  <2>1. ASSUME NEW k \in Child, RecoverStatus(k) PROVE TypeOK'
    BY <2>1 DEF RecoverStatus, Rest, request, time, counters, TypeOK
  <2> QED
    BY <1>4, <2>1, MaterialiseType, FinaliseType DEF Controllers
<1>5. ASSUME NEW k \in NetworkChildren, LoseStatus(k) PROVE TypeOK'
  <2>1. faults' \in 0..MaxFaults
    BY <1>5 DEF LoseStatus, TypeOK
  <2> QED
    BY <1>5, <2>1 DEF LoseStatus, TypeOK, request, time, cluster, Child
<1>6. CASE LoseContext
  <2>1. faults' \in 0..MaxFaults
    BY <1>6 DEF LoseContext, TypeOK
  <2> QED
    BY <1>6, <2>1 DEF LoseContext, TypeOK, request, time, cluster, grafana
<1>7. CASE ResolveContext
  BY <1>7 DEF ResolveContext, TypeOK, request, time, cluster, grafana, counters
<1>8. ASSUME NEW s \in Targets, EditSources(s) PROVE TypeOK'
  <2>1. edits' \in 0..MaxEdits
    BY <1>8 DEF EditSources, TypeOK
  <2>2. dropped' \subseteq SourceChildren
    BY <1>8, Names DEF EditSources, TypeOK
  <2> QED
    BY <1>8, <2>1, <2>2 DEF EditSources, TypeOK, Targets, time, cluster, grafana
<1>9. CASE Tick
  <2>1. window' \in Windows /\ faults' \in 0..MaxFaults
    BY <1>9 DEF Tick, TypeOK, Windows
  <2>2. overdue' \subseteq Networks
    BY <1>9 DEF Tick
  <2> QED
    BY <1>9, <2>1, <2>2 DEF Tick, TypeOK, request, cluster, grafana
<1>10. CASE UNCHANGED vars
  BY <1>10 DEF vars, TypeOK, request, time, cluster, grafana, counters
<1> QED
  BY <1>1, <1>2, <1>3, <1>4, <1>5, <1>6, <1>7, <1>8, <1>9, <1>10
  DEF Next, Targets

LEMMA InitialType == Init => TypeOK
<1>1. 0 \in 0..MaxEdits /\ 0 \in 0..MaxFaults /\ 0 \in Windows
  BY DEF Windows
<1>2. ASSUME Init PROVE mr \in [Child -> ManagedResource]
  BY <1>2, ManagedResourceType DEF Init
<1> QED
  BY <1>1, <1>2, PlanType, Zenon
  DEF Init, TypeOK, ManagedResource, Plans, Targets

(* The request, time, the children, the tokens and the plan keep their types, for *)
(* any networks, datasources and windows.                                   *)
THEOREM TypeCorrect == Spec => []TypeOK
  BY InitialType, TypeStep, PTL DEF Spec
-----------------------------------------------------------------------------
(* Preservation of the invariant, action by action.                         *)

(* What a turn does not render is over: a datasource the team took out (one *)
(* it still declares would be held) or a token of an earlier window.        *)
LEMMA TurnDrops ==
  ASSUME IInv, Acceptable, NEW k \in Observed \ Rendered
  PROVE  k \in dropped \/ Over(k)
<1>1. k \in Child /\ mr[k].exists
  BY DEF Observed, IInv, TypeOK
<1>2. CASE k \in NetworkChildren
  BY <1>2 DEF Rendered
<1>3. ASSUME NEW d \in Sources, k = Source(d) PROVE k \in dropped
  <2>1. sources[d] = NoNetwork
    <3>1. sources[d] # NoNetwork => ~Known(sources[d])
      BY <1>3 DEF Rendered
    <3> QED
      BY <1>3, <3>1 DEF Acceptable, Held
  <2> QED
    BY <1>1, <1>3, <2>1 DEF IInv, Accounted
<1>4. ASSUME NEW n \in Networks, NEW w \in Windows, k = Token(n, w)
      PROVE  Over(k)
  <2>1. Known(n)
    BY <1>4 DEF Known, TokenObserved
  <2>2. w # window
    BY <1>4, <2>1 DEF Rendered, Issuance
  <2>3. w <= window
    BY <1>1, <1>4 DEF IInv, TokensDue
  <2>4. w < window
    BY <2>2, <2>3 DEF IInv, TypeOK, Windows
  <2> QED
    BY <1>4, <2>4 DEF Over
<1> QED
  BY <1>1, <1>2, <1>3, <1>4, TokenNames DEF Child, SourceChildren

LEMMA RenderedTokens ==
  ASSUME TypeOK
  PROVE  /\ \A n \in Networks, w \in Windows :
              Token(n, w) \in Rendered => w = window
         /\ \A n \in Networks : Known(n) => Token(n, window) \in Rendered
         /\ \A d \in Sources : Source(d) \in Rendered => sources[d] # NoNetwork
<1>1. ASSUME NEW n \in Networks, NEW w \in Windows, Token(n, w) \in Rendered
      PROVE  w = window
  BY <1>1, Tags DEF Rendered, NetworkChildren, Issuance
<1>2. ASSUME NEW d \in Sources, Source(d) \in Rendered
      PROVE  sources[d] # NoNetwork
  BY <1>2, Tags DEF Rendered, NetworkChildren
<1> QED
  BY <1>1, <1>2 DEF Rendered, Issuance

LEMMA TurnKeeps == IInv /\ Turn => IInv'
<1> SUFFICES ASSUME IInv, Turn PROVE IInv'
  OBVIOUS
<1>1. TypeOK'
  BY TypeStep DEF IInv, Next
<1>2. /\ UNCHANGED <<sources, dropped, window, overdue, mr, refs, tokens>>
      /\ plan'.desired = Rendered /\ pc' = "apply"
  BY DEF Turn, request, time, cluster, grafana
<1>3. KeptUnlessOver' /\ AccessContinuous' /\ MintedReady'
  BY <1>2 DEF IInv, KeptUnlessOver, AccessContinuous, MintedReady
<1>4. Accounted'
  BY <1>2, RenderedTokens DEF IInv, Accounted
<1>t. TokensDue'
  <2>1. \A w \in Windows : w = window => w <= window
    BY DEF Windows
  <2> QED
    BY <1>2, <2>1, RenderedTokens DEF IInv, TokensDue
<1>5. DropsOnly'
  BY <1>2, TurnDrops DEF DropsOnly, Observed, Over, Turn
<1>6. IdlePlan'
  BY <1>2 DEF IdlePlan
<1> QED
  BY <1>1, <1>3, <1>4, <1>t, <1>5, <1>6 DEF IInv

(* What applying any part of a plan makes of one child.                     *)
LEMMA ApplyToEffect ==
  ASSUME IInv, pc = "apply", NEW S \in SUBSET plan.desired, ApplyTo(S),
         NEW k \in Child
  PROVE  /\ mr'[k].exists => mr[k].exists \/ k \in plan.desired
         /\ mr'[k].dying => mr[k].dying \/ k \in dropped \/ Over(k)
         /\ mr'[k].ok => mr[k].ok
         /\ k \in TokenChildren /\ mr[k].ok => mr'[k].ok
<1>1. mr[k] \in ManagedResource
  BY DEF IInv, TypeOK, ManagedResource
<1>2. mr'[k] = IF k \in S THEN AppliedMR(k)
               ELSE IF k \in Doomed THEN [mr[k] EXCEPT !.dying = TRUE]
               ELSE mr[k]
  BY DEF ApplyTo
<1>3. k \in TokenChildren => \A d \in Sources : k # Source(d)
  BY Names
<1>4. CASE k \in S
  BY <1>1, <1>2, <1>3, <1>4, Applied DEF IInv, Pending
<1>5. CASE k \notin S /\ k \in Doomed
  BY <1>1, <1>2, <1>5 DEF Doomed, IInv, DropsOnly, ManagedResource, Pending
<1>6. CASE k \notin S /\ k \notin Doomed
  BY <1>1, <1>2, <1>6 DEF Pending
<1> QED
  BY <1>4, <1>5, <1>6

LEMMA ReconcileKeeps == IInv /\ (Apply \/ Interrupt) => IInv'
<1> SUFFICES ASSUME IInv, Apply \/ Interrupt PROVE IInv'
  OBVIOUS
<1>1. TypeOK'
  BY TypeStep DEF IInv, Next
<1>2. /\ pc = "apply" /\ pc' = "idle" /\ plan' = NoPlan
      /\ UNCHANGED <<sources, dropped, window, overdue, tokens>>
  BY DEF Apply, Interrupt, request, time, grafana
<1>3. \/ \E S \in SUBSET plan.desired : ApplyTo(S)
      \/ UNCHANGED <<mr, refs>>
  <2>1. \A S : plan.desired \ S \in SUBSET plan.desired
    OBVIOUS
  <2> QED
    BY <2>1 DEF Apply, Interrupt, cluster
<1>4. \A k \in Child :
        /\ mr'[k].exists => mr[k].exists \/ k \in plan.desired
        /\ mr'[k].dying => mr[k].dying \/ k \in dropped \/ Over(k)
        /\ mr'[k].ok => mr[k].ok
  <2>1. CASE UNCHANGED <<mr, refs>>
    BY <2>1 DEF Pending
  <2>2. ASSUME NEW S \in SUBSET plan.desired, ApplyTo(S) PROVE <1>4!:
    BY <1>2, <2>2, ApplyToEffect
  <2> QED
    BY <1>3, <2>1, <2>2
<1>5. KeptUnlessOver'
  BY <1>2, <1>4 DEF IInv, KeptUnlessOver, Over
<1>6. AccessContinuous' /\ IdlePlan' /\ DropsOnly'
  BY <1>2, PlanType DEF IInv, AccessContinuous, IdlePlan, DropsOnly
<1>7. Accounted'
  BY <1>2, <1>4, Names, PlanType DEF IInv, Accounted
<1>8. TokensDue'
  BY <1>2, <1>4, TokenNames, PlanType DEF IInv, TokensDue
<1>9. MintedReady'
  BY <1>2, <1>4 DEF IInv, MintedReady, Child
<1> QED
  BY <1>1, <1>5, <1>6, <1>7, <1>8, <1>9 DEF IInv

LEMMA MaterialiseKeeps ==
  ASSUME IInv, NEW k \in Child, Materialise(k)
  PROVE  IInv'
<1>1. TypeOK'
  BY MaterialiseType DEF IInv
<1>2. /\ UNCHANGED <<sources, dropped, window, overdue, refs, pc, plan>>
      /\ tokens' = tokens \cup ({k} \cap TokenChildren) /\ Pending(k)
  BY DEF Materialise, Rest, request, time
<1>3. \A j \in Child :
        /\ mr'[j].exists = mr[j].exists
        /\ mr'[j].dying = mr[j].dying
        /\ mr'[j].ok => mr[j].ok \/ j = k
        /\ Pending(j)' => Pending(j)
  <2>1. mr' = [mr EXCEPT ![k] = [mr[k] EXCEPT !.ok = TRUE]]
    BY DEF Materialise
  <2>2. mr \in [Child -> ManagedResource]
    BY DEF IInv, TypeOK, ManagedResource
  <2> QED
    BY <2>1, <2>2 DEF ManagedResource, Pending
<1>4. KeptUnlessOver'
  BY <1>2, <1>3 DEF IInv, KeptUnlessOver
<1>5. AccessContinuous'
  BY <1>2 DEF IInv, AccessContinuous, Expires
<1>6. Accounted' /\ IdlePlan'
  BY <1>2, <1>3, Names DEF IInv, Accounted, IdlePlan
<1>7. TokensDue'
  BY <1>2, <1>3, TokenNames DEF IInv, TokensDue
<1>8. DropsOnly'
  <2>1. Observed' = Observed
    BY <1>2, <1>3 DEF Observed, IInv, TypeOK
  <2> QED
    BY <1>2, <2>1 DEF IInv, DropsOnly, Over
<1>9. MintedReady'
  BY <1>2, <1>3 DEF IInv, MintedReady, Child
<1> QED
  BY <1>1, <1>4, <1>5, <1>6, <1>7, <1>8, <1>9 DEF IInv

LEMMA FinaliseKeeps ==
  ASSUME IInv, NEW k \in Child, Finalise(k)
  PROVE  IInv'
<1>1. TypeOK'
  BY FinaliseType DEF IInv
<1>2. UNCHANGED <<sources, dropped, window, overdue, refs, pc, plan, tokens>>
  BY DEF Finalise, Policies, Rest, request, time
<1>3. /\ \A j \in Child : mr'[j] = IF j = k THEN AbsentMR ELSE mr[j]
      /\ ~AbsentMR.exists /\ ~AbsentMR.dying /\ ~AbsentMR.ok
  BY DEF Finalise, AbsentMR, IInv, TypeOK
<1>4. KeptUnlessOver' /\ AccessContinuous' /\ IdlePlan'
  BY <1>2, <1>3
  DEF IInv, KeptUnlessOver, AccessContinuous, IdlePlan
<1>5. Accounted'
  BY <1>2, <1>3, Names DEF IInv, Accounted
<1>6. TokensDue'
  BY <1>2, <1>3, TokenNames DEF IInv, TokensDue
<1>7. DropsOnly'
  <2>1. Observed' \subseteq Observed
    BY <1>2, <1>3 DEF Observed, IInv, TypeOK
  <2> QED
    BY <1>2, <2>1 DEF IInv, DropsOnly, Over
<1>8. MintedReady'
  BY <1>2, <1>3 DEF IInv, MintedReady, Child
<1> QED
  BY <1>1, <1>4, <1>5, <1>6, <1>7, <1>8 DEF IInv

(* A window ends with its token minted for every network that has no excuse, *)
(* and that token outlives the next window.                                  *)
LEMMA TickRenewed ==
  ASSUME IInv, NEW n \in Networks, ~Excused(n)
  PROVE  Token(n, window) \in tokens
<1>1. window \in Windows /\ window \in Nat
  BY DEF IInv, TypeOK, Windows
<1>2. Acceptable
  <2>1. Held = {}
    BY DEF Excused, Stranded, Named, Known, Held
  <2>2. Orphaned = {}
    BY DEF Orphaned, Known
  <2> QED
    BY <2>1, <2>2 DEF Acceptable, Excused
<1>3. Token(n, window) \in Observed
  BY <1>2, RenderedTokens DEF Excused, Unfinished, UpToDate, Named, Known, IInv
<1>4. ~mr[Token(n, window)].dying
  <2>1. Token(n, window) \notin dropped
    BY <1>1, TokenNames, Names DEF IInv, TypeOK
  <2>2. \A m \in Networks, w \in Windows :
          Token(n, window) = Token(m, w) => ~(w < window)
    BY <1>1, Names
  <2> QED
    BY <1>1, <2>1, <2>2, TokenNames DEF IInv, KeptUnlessOver
<1>5. mr[Token(n, window)].ok
  BY <1>1, <1>3, <1>4, TokenNames DEF Excused, Unfinished, Pending, Observed
<1> QED
  BY <1>1, <1>5, TokenNames DEF IInv, MintedReady

LEMMA TickKeeps == IInv /\ Tick => IInv'
<1> SUFFICES ASSUME IInv, Tick PROVE IInv'
  OBVIOUS
<1>1. TypeOK'
  BY TypeStep DEF IInv, Next
<1>2. /\ UNCHANGED <<sources, dropped, mr, refs, pc, plan, tokens>>
      /\ window' = window + 1 /\ window \in Nat /\ window \in Windows
      /\ overdue' = {n \in Networks : Token(n, window) \notin tokens /\ Excused(n)}
  BY DEF Tick, request, cluster, grafana, IInv, TypeOK, Windows
<1>3. \A w \in Windows : /\ w < window => w < window'
                         /\ w <= window => w <= window'
  BY <1>2 DEF Windows
<1>4. KeptUnlessOver' /\ TokensDue'
  BY <1>2, <1>3 DEF IInv, KeptUnlessOver, TokensDue
<1>5. AccessContinuous'
  <2>1. window' < Expires(window)
    BY <1>2 DEF Expires
  <2>2. \A n \in Networks \ overdue' : Token(n, window) \in tokens'
    BY <1>2, TickRenewed
  <2> QED
    BY <1>2, <2>1, <2>2 DEF AccessContinuous, Expires
<1>6. DropsOnly'
  BY <1>2, <1>3 DEF IInv, DropsOnly, Observed, Over
<1>7. Accounted' /\ MintedReady' /\ IdlePlan'
  BY <1>2 DEF IInv, Accounted, MintedReady, IdlePlan
<1> QED
  BY <1>1, <1>4, <1>5, <1>6, <1>7 DEF IInv

LEMMA EditSourcesKeeps ==
  ASSUME IInv, NEW s \in Targets, EditSources(s)
  PROVE  IInv'
<1>1. TypeOK'
  BY TypeStep DEF IInv, Next, Targets
<1>2. /\ UNCHANGED <<window, overdue, mr, refs, pc, plan, tokens>>
      /\ sources' = s /\ dropped \subseteq dropped'
      /\ \A d \in Sources : sources[d] # NoNetwork /\ s[d] = NoNetwork =>
                               Source(d) \in dropped'
  BY DEF EditSources, time, cluster, grafana
<1>3. KeptUnlessOver' /\ DropsOnly'
  BY <1>2 DEF IInv, KeptUnlessOver, DropsOnly, Observed, Over
<1>4. Accounted'
  BY <1>2 DEF IInv, Accounted
<1>5. AccessContinuous' /\ TokensDue' /\ MintedReady' /\ IdlePlan'
  BY <1>2 DEF IInv, AccessContinuous, TokensDue, MintedReady,
              IdlePlan
<1> QED
  BY <1>1, <1>3, <1>4, <1>5 DEF IInv

(* A step that leaves everything the invariant speaks of alone.             *)
LEMMA QuietKeeps ==
  ASSUME IInv, TypeOK',
         UNCHANGED <<sources, dropped, window, overdue, mr, refs, pc, plan, tokens>>
  PROVE  IInv'
  BY DEF IInv, KeptUnlessOver, AccessContinuous, IdlePlan, Accounted,
     TokensDue, DropsOnly, Observed, Over, MintedReady

LEMMA InvariantStep == IInv /\ [Next]_vars => IInv'
<1> SUFFICES ASSUME IInv, [Next]_vars PROVE IInv'
  OBVIOUS
<1>1. TypeOK'
  BY TypeStep DEF IInv
<1>2. CASE Controllers
  <2>1. ASSUME NEW k \in Child, RecoverStatus(k) PROVE IInv'
    BY <1>1, <2>1, QuietKeeps DEF RecoverStatus, Rest, request, time
  <2> QED
    BY <1>2, <2>1, MaterialiseKeeps, FinaliseKeeps DEF Controllers
<1>3. ASSUME NEW k \in NetworkChildren, LoseStatus(k) PROVE IInv'
  BY <1>1, <1>3, QuietKeeps DEF LoseStatus, request, time, cluster
<1>4. CASE LoseContext \/ ResolveContext
  BY <1>1, <1>4, QuietKeeps
  DEF LoseContext, ResolveContext, request, time, cluster, grafana
<1>5. CASE UNCHANGED vars
  BY <1>1, <1>5, QuietKeeps DEF vars, request, time, cluster, grafana
<1> QED
  BY <1>2, <1>3, <1>4, <1>5, TurnKeeps, ReconcileKeeps, TickKeeps,
     EditSourcesKeeps DEF Next, Targets

LEMMA InitialInvariant == Init => IInv
<1> SUFFICES ASSUME Init PROVE IInv
  OBVIOUS
<1>1. \A k \in Child : ~mr[k].exists /\ ~mr[k].dying /\ ~mr[k].ok
  BY DEF Init, AbsentMR
<1>2. pc = "idle" /\ plan.desired = {} /\ tokens = {} /\ overdue = Networks
  BY PlanType DEF Init
<1> QED
  BY <1>1, <1>2, InitialType, Names, TokenNames
  DEF IInv, KeptUnlessOver, AccessContinuous, IdlePlan, Accounted,
      TokensDue, DropsOnly, MintedReady, Child

THEOREM Invariance == Spec => []IInv
  BY InitialInvariant, InvariantStep, PTL DEF Spec

(* Whatever status, context or apply is lost, only a datasource the team    *)
(* took out and a token of an earlier window are ever withdrawn.            *)
THEOREM Kept == Spec => []KeptUnlessOver
<1>1. IInv => KeptUnlessOver
  BY DEF IInv
<1> QED
  BY <1>1, Invariance, PTL

(* For any number of renewals, hurried windows, faults and edits, a network *)
(* is without an unexpired token only where the last window ended before    *)
(* the reconcile or the provider was done, without the stack, with nothing  *)
(* that carries the network's ID, or with a datasource held for a network   *)
(* of which that is true.                                                   *)
THEOREM Continuous == Spec => []AccessContinuous
<1>1. IInv => AccessContinuous
  BY DEF IInv
<1> QED
  BY <1>1, Invariance, PTL

-----------------------------------------------------------------------------
(* When a request stops.                                                    *)

(* Between two reconciles, with the stack and every status reported and     *)
(* nothing left for the provider to do.                                     *)
Resting ==
  /\ pc = "idle" /\ context /\ blank = {}
  /\ \A k \in Child : ~Pending(k) /\ ~mr[k].dying

(* What the next steps can change without another fault or edit.            *)
Work == ~Resting \/ ~UpToDate

(* A datasource that exists and was given a network that does not.          *)
HeldForGood ==
  \E d \in Sources :
    /\ sources[d] # NoNetwork /\ ~mr[Network(sources[d])].exists
    /\ Source(d) \in Observed /\ ~mr[Source(d)].dying

(* What exists is referred to until it is withdrawn; a token is only ever   *)
(* asked for where its network exists.                                      *)
Anchored ==
  /\ \A k \in Child : /\ mr[k].exists /\ ~mr[k].dying => k \in refs
                      /\ mr[k].ok \/ mr[k].dying => mr[k].exists
  /\ \A n \in Networks, w \in Windows :
       mr[Token(n, w)].exists \/ Token(n, w) \in plan.desired
         => mr[Network(n)].exists

LEMMA NetworksStay ==
  ASSUME IInv, NEW n \in Networks
  PROVE  ~mr[Network(n)].dying
<1>1. Network(n) \in Child /\ Network(n) \notin dropped
  BY Names, Tags DEF IInv, TypeOK, SourceChildren
<1>2. \A m, w : Network(n) # Token(m, w)
  BY Tags
<1> QED
  BY <1>1, <1>2 DEF IInv, KeptUnlessOver

LEMMA TurnAnchors ==
  ASSUME IInv, Anchored, NEW n \in Networks, NEW w \in Windows,
         Token(n, w) \in Rendered
  PROVE  mr[Network(n)].exists
<1>1. Known(n)
  BY Tags DEF Rendered, NetworkChildren
<1>2. CASE Reported(n)
  BY <1>2 DEF Reported, Observed
<1>3. CASE TokenObserved(n)
  BY <1>3 DEF TokenObserved, Observed, Anchored
<1> QED
  BY <1>1, <1>2, <1>3 DEF Known

LEMMA ApplyAnchors ==
  ASSUME IInv, Anchored, pc = "apply", NEW S \in SUBSET plan.desired, ApplyTo(S),
         plan' = NoPlan
  PROVE  Anchored'
<1>m. mr \in [Child -> ManagedResource]
  BY DEF IInv, TypeOK, ManagedResource
<1>1. \A k \in Child :
        mr'[k] = IF k \in S THEN AppliedMR(k)
                 ELSE IF k \in Doomed THEN [mr[k] EXCEPT !.dying = TRUE]
                 ELSE mr[k]
  BY DEF ApplyTo
<1>2. ASSUME NEW k \in Child
      PROVE  /\ mr[k].exists => mr'[k].exists
             /\ mr'[k].exists => mr[k].exists \/ k \in S
             /\ mr'[k].exists /\ ~mr'[k].dying => k \in refs'
             /\ mr'[k].ok \/ mr'[k].dying => mr'[k].exists
  <2>1. mr[k] \in ManagedResource
    BY <1>m
  <2>2. refs' = plan.desired
    BY DEF ApplyTo
  <2>3. CASE k \in S
    BY <1>1, <2>1, <2>2, <2>3, Applied DEF IInv
  <2>4. CASE k \notin S /\ k \in Doomed
    BY <1>1, <2>1, <2>4 DEF Doomed, Observed, ManagedResource
  <2>5. CASE k \notin S /\ k \notin Doomed
    <3>1. mr'[k] = mr[k]
      BY <1>1, <2>5
    <3>2. mr[k].exists /\ ~mr[k].dying => k \in plan.desired
      BY <2>5 DEF Doomed, Observed, Anchored
    <3> QED
      BY <2>2, <3>1, <3>2 DEF Anchored
  <2> QED
    BY <2>3, <2>4, <2>5
<1>3. ASSUME NEW n \in Networks, NEW w \in Windows, mr'[Token(n, w)].exists
      PROVE  mr'[Network(n)].exists
  <2>1. Token(n, w) \in Child /\ Network(n) \in Child
    BY TokenNames, Names
  <2>2. mr[Token(n, w)].exists \/ Token(n, w) \in plan.desired
    BY <1>2, <1>3, <2>1
  <2> QED
    BY <1>2, <2>1, <2>2 DEF Anchored
<1> QED
  BY <1>2, <1>3, PlanType DEF Anchored

LEMMA AnchoredStep == IInv /\ Anchored /\ [Next]_vars => Anchored'
<1> SUFFICES ASSUME IInv, Anchored, [Next]_vars PROVE Anchored'
  OBVIOUS
<1>m. mr \in [Child -> ManagedResource]
  BY DEF IInv, TypeOK, ManagedResource
<1>1. CASE Turn
  <2>1. UNCHANGED <<mr, refs>> /\ plan'.desired = Rendered
    BY <1>1 DEF Turn, cluster
  <2> QED
    BY <2>1, TurnAnchors DEF Anchored
<1>2. CASE Apply
  BY <1>2, ApplyAnchors DEF Apply
<1>3. CASE Interrupt
  <2>1. CASE UNCHANGED cluster
    BY <1>3, <2>1, PlanType DEF Interrupt, cluster, Anchored
  <2>2. ASSUME NEW S, ApplyTo(plan.desired \ S) PROVE Anchored'
    BY <1>3, <2>2, ApplyAnchors DEF Interrupt
  <2> QED
    BY <1>3, <2>1, <2>2 DEF Interrupt
<1>4. ASSUME NEW k \in Child, Materialise(k) PROVE Anchored'
  <2>1. mr' = [mr EXCEPT ![k] = [mr[k] EXCEPT !.ok = TRUE]] /\ mr[k].exists
        /\ UNCHANGED <<refs, plan>>
    BY <1>4 DEF Materialise, Pending, Rest
  <2>2. \A j \in Child : /\ mr'[j].exists = mr[j].exists
                         /\ mr'[j].dying = mr[j].dying
                         /\ mr'[j].ok => mr[j].ok \/ j = k
    BY <1>m, <2>1 DEF ManagedResource
  <2> QED
    BY <2>1, <2>2, TokenNames, Names DEF Anchored
<1>5. ASSUME NEW k \in Child, Finalise(k) PROVE Anchored'
  <2>1. /\ \A j \in Child : mr'[j] = IF j = k THEN AbsentMR ELSE mr[j]
        /\ ~AbsentMR.exists /\ ~AbsentMR.dying /\ ~AbsentMR.ok
        /\ UNCHANGED <<refs, plan>> /\ mr[k].dying
    BY <1>m, <1>5 DEF Finalise, AbsentMR, Rest
  <2>2. \A n \in Networks : k # Network(n)
    BY <2>1, NetworksStay
  <2> QED
    BY <2>1, <2>2, TokenNames, Names DEF Anchored
<1>6. CASE UNCHANGED <<mr, refs, plan>>
  BY <1>6 DEF Anchored
<1>7. LoseContext \/ ResolveContext \/ Tick \/ UNCHANGED vars
        => UNCHANGED <<mr, refs, plan>>
  BY DEF LoseContext, ResolveContext, Tick, vars, cluster
<1>8. \A k : LoseStatus(k) \/ RecoverStatus(k) => UNCHANGED <<mr, refs, plan>>
  BY DEF LoseStatus, RecoverStatus, cluster, Rest
<1>9. \A s : EditSources(s) => UNCHANGED <<mr, refs, plan>>
  BY DEF EditSources, cluster
<1> QED
  BY <1>1, <1>2, <1>3, <1>4, <1>5, <1>6, <1>7, <1>8, <1>9 DEF Next, Controllers

LEMMA InitialAnchored == Init => Anchored
<1> SUFFICES ASSUME Init PROVE Anchored
  OBVIOUS
<1>1. \A k \in Child : ~mr[k].exists /\ ~mr[k].dying /\ ~mr[k].ok
  BY DEF Init, AbsentMR
<1>2. plan.desired = {}
  BY PlanType DEF Init
<1> QED
  BY <1>1, <1>2, TokenNames DEF Anchored

THEOREM Anchoring == Spec => [](IInv /\ Anchored)
  BY InitialInvariant, InvariantStep, InitialAnchored, AnchoredStep, PTL DEF Spec

-----------------------------------------------------------------------------
(* At rest a network that exists is reported.                               *)
LEMMA RestingReported ==
  ASSUME IInv, Anchored, Resting, NEW n \in Networks
  PROVE  Known(n) <=> mr[Network(n)].exists
<1>1. Network(n) \in Child
  BY Names
<1>2. mr[Network(n)].exists => Reported(n)
  BY <1>1 DEF Resting, Pending, Anchored, Reported, Observed
<1>3. TokenObserved(n) => mr[Network(n)].exists
  BY DEF TokenObserved, Observed, Anchored
<1> QED
  BY <1>2, <1>3 DEF Known, Reported, Observed

LEMMA RestingAccepts ==
  ASSUME IInv, Anchored, Resting
  PROVE  Acceptable <=> ~Stuck
<1>1. Orphaned = {}
  BY DEF Orphaned, Known
<1>2. ASSUME NEW d \in Sources
      PROVE  d \in Held <=> sources[d] # NoNetwork /\ mr[Source(d)].exists
                              /\ ~mr[Network(sources[d])].exists
  <2>1. Source(d) \in Observed <=> mr[Source(d)].exists
    BY Names DEF Resting, Anchored, Observed
  <2>2. sources[d] # NoNetwork => sources[d] \in Networks
    BY DEF IInv, TypeOK
  <2> QED
    BY <2>1, <2>2, RestingReported DEF Held
<1>3. Held = {} <=> ~Stuck
  BY <1>2 DEF Held, Stuck
<1> QED
  BY <1>1, <1>3 DEF Acceptable, Resting

LEMMA MovingOrSettled == IInv /\ Anchored => Work \/ Fulfilled \/ Stuck
<1> SUFFICES ASSUME IInv, Anchored, Resting, UpToDate, ~Stuck PROVE Fulfilled
  BY DEF Work
<1>1. /\ Observed = Rendered
      /\ \A d \in Sources : Source(d) \in Observed => target[d] = sources[d]
  BY RestingAccepts DEF UpToDate
<1>2. \A k \in Child : k \in Rendered => mr[k].exists /\ mr[k].ok
  BY <1>1 DEF Observed, Resting, Pending
<1>3. window \in Windows
  BY DEF IInv, TypeOK
<1>4. ASSUME NEW n \in Networks
      PROVE  mr[Network(n)].ok /\ Known(n) /\ mr[Token(n, window)].ok
  <2>1. Network(n) \in Rendered /\ Network(n) \in Child
    BY Names DEF Rendered, NetworkChildren
  <2>2. mr[Network(n)].ok /\ Known(n)
    BY <1>2, <2>1, RestingReported
  <2>3. Token(n, window) \in Rendered /\ Token(n, window) \in Child
    BY <1>3, <2>2, RenderedTokens, TokenNames DEF IInv
  <2> QED
    BY <1>2, <2>2, <2>3
<1>5. ASSUME NEW n \in Networks, NEW d \in Sources, sources[d] = n
      PROVE  mr[Source(d)].ok /\ target[d] = n
  <2>1. n # NoNetwork /\ Known(n)
    BY <1>4
  <2>2. Source(d) \in Rendered /\ Source(d) \in Child
    BY <1>5, <2>1, Names DEF Rendered
  <2> QED
    BY <1>1, <1>2, <1>5, <2>2
<1> QED
  BY <1>4, <1>5 DEF Fulfilled

(* The safety half of RequestSettles, for any networks, datasources and     *)
(* windows: while a network lacks its current token or a datasource its     *)
(* network, the request is never left with turns that have nothing to       *)
(* change, but where a datasource was moved to a network that does not      *)
(* exist.                                                                   *)
THEOREM NeverAtAStandstill == Spec => [](Work \/ Fulfilled \/ Stuck)
  BY MovingOrSettled, Anchoring, PTL

(* renderPDC is Fatal, once all is reported, exactly where a datasource     *)
(* that exists names a network that does not.                               *)
THEOREM RefusalsExact == Spec => [](Resting => (Acceptable <=> ~Stuck))
<1>1. IInv /\ Anchored => (Resting => (Acceptable <=> ~Stuck))
  BY RestingAccepts
<1> QED
  BY <1>1, Anchoring, PTL

(* Such a datasource holds the request until the team edits its             *)
(* datasources: no turn creates the network it waits for.  Nor the tokens   *)
(* of any network for the windows that begin meanwhile: nothing is created, *)
(* which is why AccessContinuous excepts Stranded.                          *)
THEOREM HeldUntilEdited ==
  Spec => [][pc = "idle" /\ HeldForGood /\ sources' = sources
               => /\ pc' = "idle" /\ HeldForGood'
                  /\ \A k \in Child : mr'[k].exists => mr[k].exists]_vars
<1>1. ASSUME IInv, Anchored, Next, pc = "idle", HeldForGood, sources' = sources
      PROVE  /\ pc' = "idle" /\ HeldForGood'
             /\ \A k \in Child : mr'[k].exists => mr[k].exists
  <2>1. PICK d \in Sources :
          /\ sources[d] # NoNetwork /\ ~mr[Network(sources[d])].exists
          /\ Source(d) \in Observed /\ ~mr[Source(d)].dying
    BY <1>1 DEF HeldForGood
  <2>2. sources[d] \in Networks /\ Network(sources[d]) \in Child
        /\ Source(d) \in Child
    BY <1>1, <2>1, Names DEF IInv, TypeOK
  <2>3. ~Known(sources[d])
    BY <1>1, <2>1, <2>2
    DEF Known, Reported, TokenObserved, Observed, Anchored
  <2>4. ~Turn /\ ~Apply /\ ~Interrupt
    BY <1>1, <2>1, <2>3 DEF Turn, Acceptable, Held, Apply, Interrupt
  <2>5. ASSUME UNCHANGED <<pc, refs>>,
               mr'[Network(sources[d])].exists = mr[Network(sources[d])].exists,
               mr'[Source(d)].exists = mr[Source(d)].exists,
               mr'[Source(d)].dying = mr[Source(d)].dying
        PROVE  pc' = "idle" /\ HeldForGood'
    BY <1>1, <2>1, <2>5 DEF HeldForGood, Observed
  <2>6. ASSUME NEW k \in Child, Materialise(k) PROVE pc' = "idle" /\ HeldForGood'
    <3>1. mr' = [mr EXCEPT ![k] = [mr[k] EXCEPT !.ok = TRUE]]
          /\ UNCHANGED <<pc, refs>>
      BY <2>6 DEF Materialise, Rest
    <3>2. mr \in [Child -> ManagedResource]
      BY <1>1 DEF IInv, TypeOK, ManagedResource
    <3>3. \A j \in Child : mr'[j].exists = mr[j].exists
                           /\ mr'[j].dying = mr[j].dying
      BY <3>1, <3>2 DEF ManagedResource
    <3> QED
      BY <2>2, <2>5, <3>1, <3>3
  <2>7. ASSUME NEW k \in Child, Finalise(k) PROVE pc' = "idle" /\ HeldForGood'
    <3>1. UNCHANGED <<pc, refs>> /\ k # Source(d) /\ mr[k].exists
          /\ mr' = [mr EXCEPT ![k] = AbsentMR]
      BY <2>1, <2>7 DEF Finalise, Rest
    <3>2. k # Network(sources[d])
      BY <2>1, <3>1
    <3>3. mr'[Network(sources[d])] = mr[Network(sources[d])]
          /\ mr'[Source(d)] = mr[Source(d)]
      BY <1>1, <2>2, <3>1, <3>2 DEF IInv, TypeOK
    <3> QED
      BY <2>5, <3>1, <3>3
  <2>8. LoseContext \/ ResolveContext \/ Tick => UNCHANGED <<pc, mr, refs>>
    BY DEF LoseContext, ResolveContext, Tick, cluster
  <2>9. \A k : LoseStatus(k) \/ RecoverStatus(k) => UNCHANGED <<pc, mr, refs>>
    BY DEF LoseStatus, RecoverStatus, cluster, Rest
  <2>10. \A s : EditSources(s) => UNCHANGED <<pc, mr, refs>>
    BY DEF EditSources, cluster
  <2>11. \A k \in Child : mr'[k].exists => mr[k].exists
    <3>1. mr \in [Child -> ManagedResource]
      BY <1>1 DEF IInv, TypeOK, ManagedResource
    <3>2. ASSUME NEW j \in Child, Materialise(j) PROVE <2>11!:
      BY <3>1, <3>2 DEF Materialise, Pending, ManagedResource
    <3>3. ASSUME NEW j \in Child, Finalise(j) PROVE <2>11!:
      BY <3>1, <3>3 DEF Finalise, ManagedResource
    <3> QED
      BY <1>1, <2>4, <2>8, <2>9, <2>10, <3>2, <3>3 DEF Next, Controllers
  <2> QED
    BY <1>1, <2>4, <2>5, <2>6, <2>7, <2>8, <2>9, <2>10, <2>11
    DEF Next, Controllers
<1>2. IInv /\ Anchored /\ [Next]_vars
        => [pc = "idle" /\ HeldForGood /\ sources' = sources
              => /\ pc' = "idle" /\ HeldForGood'
                 /\ \A k \in Child : mr'[k].exists => mr[k].exists]_vars
  BY <1>1 DEF vars, request, time, cluster
<1> QED
  BY <1>2, Anchoring, PTL DEF Spec
=============================================================================
