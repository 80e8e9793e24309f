------------------------------ MODULE Planning ------------------------------
(***************************************************************************)
(* CoordinatorService::plan_flow_group (src/src/service.cpp) with the      *)
(* parts it brings together: one collective of the catalog, the authority  *)
(* state, the decision engine, admission and the decision history.  The    *)
(* service holds its mutex for a whole operation.  A connection thread     *)
(* reads the clock when its frame arrives and takes the mutex later, so a  *)
(* decision is made for a time that may be past.  What installs and        *)
(* publications check is the subject of modules Authority and Catalog, and *)
(* the answer of admission that of Admission; here any of their results    *)
(* may come.                                                               *)
(***************************************************************************)
EXTENDS Engine, History

CONSTANTS
    Participants,        \* participants of the collective
    Attempts,            \* attempt identities
    Definitions,         \* [1..n -> definition]: the n-th generation
    PolicyOf, TopologyOf, CapacityOf, CongestionOf,   \* what a generation brings
    NodeOf,              \* [Participants -> node a participant runs on]
    Requests(_),         \* requests that may arrive in an epoch
    Starts,              \* states the coordinator may be found in
    Ttl,                 \* ServiceConfig::participant_ttl_ms
    MaxTime,             \* bound: clock ticks explored
    MaxEpoch,            \* bound: boots explored
    MaxChanges           \* bound: operations other than plans explored

ASSUME PlanningAssumption ==
    /\ DOMAIN Definitions = 1 .. Len(Definitions) /\ Len(Definitions) \in Nat \ {0}
    /\ {Ttl, MaxTime, MaxEpoch, MaxChanges} \subseteq Nat

Rates == 0 .. Word - 1

\* TrafficPolicy::validate and CongestionResponseTable::is_valid.  A policy
\* answers None for a class it does not state.
ValidClass(tp) ==
    /\ {tp.floor, tp.ceiling, tp.burst} \subseteq Rates /\ tp.floor <= tp.ceiling
    /\ tp.fresh \in BOOLEAN
ValidResponse(table) ==
    /\ Len(table.bounds) \in Nat \ {0}
    /\ DOMAIN table.bounds = 1 .. Len(table.bounds)
    /\ \A k \in 1 .. Len(table.bounds) : table.rates[k] \in 1 .. Mille
ValidPolicy(p) ==
    /\ p.burst_multiplier \in 0 .. Mille
    /\ ValidResponse(p.response)
    /\ \A t \in DOMAIN p.classes : p.classes[t] # None => ValidClass(p.classes[t])
    /\ \A c \in DOMAIN p.collectives : p.collectives[c] # None =>
         p.collectives[c].freshness \in Nat /\ p.collectives[c].traffic \in DOMAIN p.classes

\* Every generation brings something valid, and brings it under its own name.
ASSUME PoliciesValid ==
    \A g \in DOMAIN PolicyOf :
        /\ PolicyOf[g] # None /\ PolicyOf[g].gen = g
        /\ ValidPolicy(PolicyOf[g])

ASSUME TopologiesValid ==
    \A g \in DOMAIN TopologyOf :
        /\ TopologyOf[g] # None /\ TopologyOf[g].gen = g
        /\ TopologyOf[g].captured \in Nat

\* Evidence as a snapshot holds it, with the topology it was measured on.
Evidence(gens) ==
    [gen : gens, captured : Nat, links : Seq(Rates), valid_for : Nat, topology : DOMAIN TopologyOf]

ASSUME EvidenceValid ==
    /\ None \notin Evidence(DOMAIN CapacityOf) /\ None \notin Evidence(DOMAIN CongestionOf)
    /\ \A table \in {CapacityOf, CongestionOf} : \A g \in DOMAIN table :
         /\ table[g].gen = g /\ table[g].links \in Seq(Rates)
         /\ {table[g].captured, table[g].valid_for} \subseteq Nat

\* validate_definition.
ASSUME DefinitionsValid ==
    \A n \in DOMAIN Definitions :
        /\ Definitions[n].gen = n
        /\ 0 \notin Definitions[n].participants
        /\ Definitions[n].participants \subseteq Participants
        /\ \A g \in DOMAIN PolicyOf : Definitions[n].class \in DOMAIN PolicyOf[g].collectives

\* FlowEdge and FlowGroupPlan, and what a request that was decoded holds.
FlowEdge ==
    [step : {None} \cup Nat, source : Nat, destination : Nat, bytes : Rates,
     crosses_rack : BOOLEAN]
IsPlan(p) ==
    /\ p.edges \in Seq(FlowEdge)
    /\ p = [instance |-> p.instance, class |-> p.class, pattern |-> p.pattern,
            direction |-> p.direction, simultaneous |-> p.simultaneous,
            sequence |-> p.sequence, edges |-> p.edges]
ASSUME RequestsDecoded ==
    \A e \in 1 .. MaxEpoch : \A r \in Requests(e) :
        /\ r.plan # None => IsPlan(r.plan)
        /\ r.requested # None =>
             \A g \in DOMAIN PolicyOf : r.requested \in DOMAIN PolicyOf[g].classes

\* The authority state and the record of the collective.
Peer == [state : {"absent", "live", "fenced"}, expires : Nat,
         node : {None} \cup {NodeOf[p] : p \in Participants}]
AuthorityState ==
    [epoch : 1 .. MaxEpoch, peers : [Participants -> Peer],
     policy : {None} \cup DOMAIN PolicyOf, topology : {None} \cup DOMAIN TopologyOf,
     capacity : {None} \cup DOMAIN CapacityOf, congestion : {None} \cup DOMAIN CongestionOf]
\* Evidence is never without the topology it was measured on.
Anchored(a) == a.topology = None => a.capacity = None /\ a.congestion = None
CollectiveRecord ==
    [gen : 1 .. Len(Definitions), attempt : {None} \cup Attempts,
     state : {"registered", "planning", "active", "cancelled", "retired"}]

ASSUME StartsValid ==
    \A start \in Starts :
        /\ start.auth \in AuthorityState /\ Anchored(start.auth)
        /\ start.record \in {None} \cup CollectiveRecord

VARIABLES
    running,     \* running_ of the service
    record,      \* CollectiveRecord of the collective, or None
    auth,        \* the generations and liveness records in force
    now,         \* monotonic clock
    changes      \* operations other than plans so far

planningVars == <<running, record, auth, now, changes, history>>

Terminal == {"cancelled", "retired"}

\* What is installed on an axis; evidence in force was measured on the topology
\* in force (Authority!EvidenceDescribesCurrentTopology).
Measured(e) == [gen |-> e.gen, captured |-> e.captured, links |-> e.links,
                valid_for |-> e.valid_for, topology |-> auth.topology]
Installed(table, gen) == IF gen = None THEN None ELSE table[gen]

\* The snapshot of the authority state for a request that arrived at time t.
Snapshot(t) ==
    [epoch |-> auth.epoch, now |-> t, peers |-> auth.peers,
     policy |-> Installed(PolicyOf, auth.policy),
     topology |-> Installed(TopologyOf, auth.topology),
     capacity |-> IF auth.capacity = None THEN None ELSE Measured(CapacityOf[auth.capacity]),
     congestion |-> IF auth.congestion = None THEN None
                    ELSE Measured(CongestionOf[auth.congestion])]

NotLive == [state |-> "absent", expires |-> 0, node |-> None]

-----------------------------------------------------------------------------
(* plan_flow_group.                                                        *)

\* validate_decision_request: the plan is about the instance of the request.  Its
\* attempt sequence is not compared.
SameInstance(i, j) == i.id = j.id /\ i.gen = j.gen /\ i.attempt = j.attempt
Wellformed(r) ==
    /\ r.instance.gen # None /\ r.instance.attempt # None
    /\ r.plan # None => /\ SameInstance(r.plan.instance, r.instance)
                        /\ Len(r.plan.edges) <= EdgesMax

\* What the service answers before it asks the engine: a collective, generation
\* or attempt that is not current, or a collective that is closed.
EarlyAxis(r) ==
    IF record = None \/ record.gen # r.instance.gen THEN "collective_generation"
    ELSE IF record.attempt = None \/ record.attempt # r.instance.attempt THEN "attempt_generation"
    ELSE IF record.state \in Terminal THEN "lifecycle"
    ELSE "none"

\* What AdmissionController::admit may answer for a decision that grants, with
\* the wait: immediate and unlimited ones pass, at rate zero nothing does, and
\* the others depend on their bucket.
AdmissionAnswers(d) ==
    IF d.mode \in {"immediate", "none"} \/ d.rate = Unlimited THEN {<<"granted", 0>>}
    ELSE IF d.rate = 0 THEN {<<"rate_limited", 0>>}
    ELSE {<<"granted", 0>>, <<"rate_limited", 1>>, <<"clock_regression", 0>>, <<"table_full", 0>>}

\* The decision once admission has answered; a wait ends after the request's time.
Admitted(d, answer, wait) ==
    CASE answer = "granted" -> d
      [] answer = "rate_limited" -> [d EXCEPT !.outcome = "rate_limited", !.release = d.at + wait]
      [] answer = "clock_regression" -> [d EXCEPT !.outcome = "deferred"]
      [] answer = "table_full" -> [d EXCEPT !.outcome = "rejected_capacity",
                                            !.axis = "capacity_evidence"]

\* Refused before the engine: recorded, but no correlation is bound to it.
PlanRefusedEarly(r, t) ==
    /\ running /\ Wellformed(r)
    /\ EarlyAxis(r) # "none"
    /\ Record(RefusedRecord(r, t, "rejected_stale", EarlyAxis(r)), None)
    /\ UNCHANGED <<running, record, auth, now, changes>>

\* Decided by the engine.  A decision that grants makes the collective active
\* before admission is asked, whose answer does not undo it.
PlanDecided(r, t, corr) ==
    /\ running /\ Wellformed(r)
    /\ EarlyAxis(r) = "none"
    /\ LET d == Evaluate(Snapshot(t), r, Definitions[record.gen])
       IN  IF Grants(d.outcome)
           THEN /\ record' = [record EXCEPT !.state = "active"]
                /\ \E a \in AdmissionAnswers(d) : Record(Admitted(d, a[1], a[2]), corr)
           ELSE Record(d, corr) /\ UNCHANGED record
    /\ UNCHANGED <<running, auth, now, changes>>

Plan ==
    /\ Len(log) < MaxDecisions
    /\ \E r \in Requests(auth.epoch), t \in 0 .. now :
         PlanRefusedEarly(r, t) \/ \E c \in Correlation \cup {None} : PlanDecided(r, t, c)

\* The second half of the operation.
PlanBinds == BindCorrelation /\ UNCHANGED <<running, record, auth, now, changes>>

-----------------------------------------------------------------------------
(* What else changes what a decision is made from.                         *)

Change ==
    /\ pending = None
    /\ changes < MaxChanges /\ changes' = changes + 1

\* register_collective: first, and with a definition that is not equivalent.
RegisterCollective ==
    /\ running /\ Change
    /\ \/ record = None /\ record' = [gen |-> 1, attempt |-> None, state |-> "registered"]
       \/ /\ record # None /\ record.state \notin Terminal
          /\ record.gen < Len(Definitions)
          /\ record' = [gen |-> record.gen + 1, attempt |-> None, state |-> "registered"]
    /\ UNCHANGED <<running, auth, now, history>>

BeginAttempt(a) ==
    /\ running /\ Change
    /\ record # None /\ record.state \notin Terminal /\ record.attempt # a
    /\ record' = [record EXCEPT !.attempt = a, !.state = "planning"]
    /\ UNCHANGED <<running, auth, now, history>>

\* cancel_collective, retire_collective; they do not ask whether it runs.
CloseCollective(state) ==
    /\ Change
    /\ record # None /\ record.state \notin Terminal
    /\ record' = [record EXCEPT !.state = state]
    /\ UNCHANGED <<running, auth, now, history>>

\* install_policy, install_capacity, install_congestion.
Install(axis, gen) ==
    /\ running /\ Change
    /\ auth[axis] # gen
    /\ axis \in {"capacity", "congestion"} => auth.topology # None
    /\ auth' = [auth EXCEPT ![axis] = gen]
    /\ UNCHANGED <<running, record, now, history>>

EvidenceDropped == [auth EXCEPT !.capacity = None, !.congestion = None]

InstallTopology(gen) ==
    /\ running /\ Change
    /\ auth.topology # gen
    /\ auth' = [EvidenceDropped EXCEPT !.topology = gen]
    /\ UNCHANGED <<running, record, now, history>>

\* publish_participant and heartbeat, which do not ask whether it runs, and the
\* fencing of a closed session.
Publish(p) ==
    /\ Change
    /\ auth' = [auth EXCEPT !.peers[p] =
                  [state |-> "live", expires |-> now + Ttl, node |-> NodeOf[p]]]
    /\ UNCHANGED <<running, record, now, history>>

Fence(p) ==
    /\ Change
    /\ auth.peers[p].state = "live"
    /\ auth' = [auth EXCEPT !.peers[p].state = "fenced", !.peers[p].expires = now]
    /\ UNCHANGED <<running, record, now, history>>

Resize(n) ==
    /\ Change
    /\ SetCapacity(n)
    /\ UNCHANGED <<running, record, auth, now>>

\* What a stop does to the history.
HistoryCleared == Clear

\* stop: history and dynamic evidence go, sessions and their liveness too.
StopService ==
    /\ running /\ Change
    /\ running' = FALSE
    /\ HistoryCleared
    /\ auth' = [EvidenceDropped EXCEPT !.peers =
                  [p \in Participants |-> IF auth.peers[p].state = "absent" THEN NotLive
                                          ELSE [auth.peers[p] EXCEPT !.state = "fenced",
                                                                     !.expires = now]]]
    /\ UNCHANGED <<record, now>>

\* start on the same object (begin_boot), whose snapshot is the state it had.
StartService ==
    /\ ~running /\ Change
    /\ auth.epoch < MaxEpoch
    /\ running' = TRUE
    /\ auth' = [EvidenceDropped EXCEPT !.epoch = @ + 1,
                                       !.peers = [p \in Participants |-> NotLive]]
    /\ UNCHANGED <<record, now, history>>

Tick ==
    /\ now < MaxTime
    /\ now' = now + 1
    /\ UNCHANGED <<running, record, auth, changes, history>>

PlanningInit ==
    /\ HistoryInit
    /\ running = TRUE /\ now = 0 /\ changes = 0
    /\ \E start \in Starts : record = start.record /\ auth = start.auth

PlanningNext ==
    \/ Plan
    \/ PlanBinds
    \/ RegisterCollective
    \/ \E a \in Attempts : BeginAttempt(a)
    \/ \E state \in Terminal : CloseCollective(state)
    \/ \E g \in DOMAIN PolicyOf : Install("policy", g)
    \/ \E g \in DOMAIN CapacityOf : Install("capacity", g)
    \/ \E g \in DOMAIN CongestionOf : Install("congestion", g)
    \/ \E g \in DOMAIN TopologyOf : InstallTopology(g)
    \/ \E p \in Participants : Publish(p) \/ Fence(p)
    \/ \E n \in Capacities : Resize(n)
    \/ StopService
    \/ StartService
    \/ Tick

PlanningSpec == PlanningInit /\ [][PlanningNext]_planningVars

-----------------------------------------------------------------------------
(* Properties.                                                             *)

\* Requests the engine gets to decide, and those that may be next, with the
\* times they may bring.
ReachesEngine(r) == running /\ Wellformed(r) /\ EarlyAxis(r) = "none"
Decidable ==
    IF pending = None /\ Len(log) < MaxDecisions
    THEN {x \in Requests(auth.epoch) \X (0 .. now) : ReachesEngine(x[1])} ELSE {}
DefinitionInForce == Definitions[record.gen]
Answer(x) == Evaluate(Snapshot(x[2]), x[1], DefinitionInForce)

\* What holds when a request may be granted, independent of the order in which
\* the code asks.
CurrentOr(observed, gens) == observed \in gens \cup {None}
ObservedIsCurrent(o) ==
    /\ CurrentOr(o.epoch, {auth.epoch})
    /\ CurrentOr(o.policy, {auth.policy})
    /\ CurrentOr(o.topology, {auth.topology})
    /\ auth.capacity # None => CurrentOr(o.capacity, {auth.capacity})
    /\ auth.congestion # None => CurrentOr(o.congestion, {auth.congestion})
PlanIsAbout(plan, members) ==
    /\ plan # None
    /\ plan.direction # "unknown"
    /\ plan.edges # <<>>
    /\ Cardinality({<<e.step, e.source, e.destination>> : e \in ToSet(plan.edges)}) = Len(plan.edges)
    /\ \A e \in ToSet(plan.edges) :
         /\ e.step # None
         /\ e.source \in members /\ e.destination \in members \ {e.source}
MembersAreLive(members, t) ==
    \A p \in members : auth.peers[p].state = "live" /\ t < auth.peers[p].expires
TopologyCovers(members, t) ==
    /\ TopologyOf[auth.topology].captured + TopologyMaxAge >= t
    /\ {auth.peers[p].node : p \in members} \subseteq TopologyOf[auth.topology].nodes
\* The class the request would travel in, or "unclassified".
Treatment(r, class) ==
    LET cp == PolicyOf[auth.policy].collectives[class]
    IN  IF ~KnownClass(class) \/ cp = None THEN "unclassified"
        ELSE IF r.requested = None THEN cp.traffic
        ELSE IF cp.override THEN r.requested ELSE "unclassified"
ClassInForce(r) == PolicyOf[auth.policy].classes[Treatment(r, DefinitionInForce.class)]
TreatedInForce == PolicyOf[auth.policy].collectives[DefinitionInForce.class]
CongestionSupports(r, t) ==
    LET e == CongestionOf[auth.congestion]
    IN  ClassInForce(r).fresh => /\ auth.congestion # None
                                 /\ e.captured + TreatedInForce.freshness >= t
                                 /\ e.captured + e.valid_for >= t
CapacitySupports(r, t) ==
    LET s == Snapshot(t)
        tp == ClassInForce(r)
        available == Available(s)
    IN  available # 0 =>
          Mille * tp.floor <= Smaller(available, tp.ceiling)
                                * Response(s.policy.response, Utilization(s, TreatedInForce))
Authorised(r, t) ==
    LET members == DefinitionInForce.participants
        class == DefinitionInForce.class
    IN  IF auth.policy = None \/ auth.topology = None THEN FALSE
        ELSE /\ ObservedIsCurrent(r.observed)
             /\ PlanIsAbout(r.plan, members)
             /\ MembersAreLive(members, t)
             /\ TopologyCovers(members, t)
             /\ Treatment(r, class) # "unclassified"
             /\ ClassInForce(r) # None
             /\ CongestionSupports(r, t) /\ CapacitySupports(r, t)

\* A request is granted exactly when every authority it needs is in force at the
\* time it arrived, whatever was installed, published, fenced, dropped by a
\* topology change or lost in a restart before it: nothing stale is granted and
\* nothing current refused (apply_authority_chain, evaluate).  A generation the
\* requester observed on an evidence axis with nothing installed is not held
\* against it, as in the code.
GrantsExactlyTheAuthorised ==
    \A x \in Decidable : Grants(Answer(x).outcome) <=> Authorised(x[1], x[2])

\* What the service answers a request, admission apart.
Asked ==
    IF pending = None /\ Len(log) < MaxDecisions /\ running
    THEN {x \in Requests(auth.epoch) \X (0 .. now) : Wellformed(x[1])} ELSE {}
Reply(x) ==
    IF EarlyAxis(x[1]) = "none" THEN Answer(x)
    ELSE RefusedRecord(x[1], x[2], "rejected_stale", EarlyAxis(x[1]))

\* What an answer says of the request by the axis it names: that what was observed
\* on the axis is not what is in force, or that what is in force will not do.
Truthful(d, r, t) ==
    LET members == DefinitionInForce.participants
        stale == d.outcome = "rejected_stale"
    IN  CASE d.axis = "none" -> Grants(d.outcome)
          [] d.axis = "collective_generation" -> record = None \/ record.gen # r.instance.gen
          [] d.axis = "attempt_generation" -> record.attempt # r.instance.attempt
          [] d.axis = "lifecycle" -> record.state \in Terminal
          [] d.axis = "coordinator_epoch" -> ~CurrentOr(r.observed.epoch, {auth.epoch})
          [] d.axis = "policy_generation" ->
               IF stale THEN ~CurrentOr(r.observed.policy, {auth.policy})
               ELSE auth.policy = None \/ ClassInForce(r) = None
          [] d.axis = "capacity_evidence" ->
               IF stale THEN auth.capacity # None /\ ~CurrentOr(r.observed.capacity, {auth.capacity})
               ELSE ~CapacitySupports(r, t)
          [] d.axis = "congestion_evidence" ->
               IF stale
               THEN auth.congestion # None /\ ~CurrentOr(r.observed.congestion, {auth.congestion})
               ELSE MembersAreLive(members, t) /\ ~CongestionSupports(r, t)
          [] d.axis = "topology_generation" -> \/ auth.topology = None
                                               \/ ~CurrentOr(r.observed.topology, {auth.topology})
                                               \/ ~TopologyCovers({}, t)
          [] d.axis = "participant_liveness" -> ~MembersAreLive(members, t)
          [] d.axis = "plan" -> ~PlanIsAbout(r.plan, members) \/ ~TopologyCovers(members, t)
          [] d.axis = "semantics" ->
               /\ Treatment(r, DefinitionInForce.class) = "unclassified"
               /\ d.outcome = "unknown_semantics" <=>
                    /\ r.requested = None /\ KnownClass(DefinitionInForce.class)
                    /\ TreatedInForce # None

\* The axis a refusal names is really the one that is not current, on every axis
\* a request can be refused on, although several may fail at once and the code
\* reports only the first it meets; an answer that grants nothing names one; and
\* unknown_semantics is answered exactly when it is the policy that leaves a known
\* collective class unclassified (plan_flow_group, apply_authority_chain, evaluate).
RefusalsAreTruthful == \A x \in Asked : Truthful(Reply(x), x[1], x[2])

\* A granted rate is at least the floor and at most the ceiling of its class and
\* at most what fresh capacity evidence shows as available, and a burst is never
\* more than a second of the rate or than the class allows (compute_pacing).
\* Claimed where the evidence shows some capacity: zero stands for unknown.
RatesWithinEvidence ==
    \A x \in Decidable :
        LET d == Answer(x)
            tp == PolicyOf[auth.policy].classes[d.traffic]
            s == Snapshot(x[2])
        IN  Grants(d.outcome) =>
              /\ tp.floor <= d.rate /\ d.rate <= tp.ceiling
              /\ Available(s) # 0 => d.rate <= Available(s)
              /\ d.burst <= d.rate
              /\ tp.burst # 0 => d.burst <= tp.burst

\* The bytes of all edges, added up without a word's limit.
Volume(edges) ==
    LET sum[k \in 0 .. Len(edges)] == IF k = 0 THEN 0 ELSE sum[k - 1] + edges[k].bytes
    IN  sum[Len(edges)]

\* A flow group is its plan, summarised.  Fan-out and fan-in, counted by runs in
\* the code, are the most edges that leave or reach one participant, the members
\* the ends of the edges, the volume their sum as long as that fits a word, the
\* class the definition's.  Two plans of an attempt that state the same
\* obligations in any order, and differ in nothing else, are one group, and so
\* share one token bucket; two that differ are not (construct_flow_group,
\* flow_group_content_digest).
GroupsFollowPlans ==
    LET built == {<<x[1].plan, Answer(x).group>> :
                    x \in {y \in Decidable : y[2] = now /\ Answer(y).group # None}}
        Unordered(p) == <<p.instance, p.pattern, p.direction, p.simultaneous, ToSet(p.edges)>>
        Summarises(g, e) ==
            LET Out == [p \in Participants |-> Cardinality({i \in DOMAIN e : e[i].source = p})]
                Into == [p \in Participants |-> Cardinality({i \in DOMAIN e : e[i].destination = p})]
            IN  /\ \A p \in Participants : Out[p] <= g.fan_out /\ Into[p] <= g.fan_in
                /\ \E p \in Participants : Out[p] = g.fan_out
                /\ \E p \in Participants : Into[p] = g.fan_in
                /\ g.participants = UNION {{y.source, y.destination} : y \in ToSet(e)}
                /\ Volume(e) < Word => g.total = Volume(e)
                /\ g.id[2] = DefinitionInForce.class
    IN  /\ \A b \in built : Summarises(b[2], b[1].edges)
        /\ \A a, b \in built : a[2].id = b[2].id <=> Unordered(a[1]) = Unordered(b[1])

\* The snapshot behind a grant, as far as its terms follow from it, read back from
\* the generations the grant names and from nothing else.
Behind(d) ==
    LET Read(table, gen) ==
            IF gen = None THEN None
            ELSE [gen |-> table[gen].gen, captured |-> table[gen].captured,
                  links |-> table[gen].links, valid_for |-> table[gen].valid_for,
                  topology |-> d.topology]
    IN  [now |-> d.at, policy |-> PolicyOf[d.policy], topology |-> TopologyOf[d.topology],
         capacity |-> Read(CapacityOf, d.capacity), congestion |-> Read(CongestionOf, d.congestion)]

\* The terms of a grant are what its generations say they are.
TermsFollow(d) ==
    LET s == Behind(d)
        cp == s.policy.collectives[Definitions[d.instance.gen].class]
        tp == s.policy.classes[d.traffic]
    IN  /\ d.rate = Rate(Proposed(s, cp, tp), tp)
        /\ d.burst = Burst(d.rate, s.policy.burst_multiplier, tp)

\* The log can be audited.  The decisions a client can still be shown were made in
\* the boot that shows them, and a stopped service shows none (stop, begin_boot).
\* And a grant in it names every generation its rate and burst came from: they can
\* be computed from those generations and its time alone, whatever has been
\* installed, dropped or answered by admission since (README.md: "The decision
\* record binds everything").  A generation stands for one content here; one that
\* was restored can be installed again with another, see Authority.
LogCanBeAudited ==
    \A k \in DOMAIN records :
        /\ running
        /\ records[k].decision.epoch \in {None, auth.epoch}
        /\ Grants(records[k].decision.outcome) => TermsFollow(records[k].decision)

\* README.md:122: "REJECTED_CAPACITY  the observed capacity cannot honor the
\* class floor"; fresh evidence that no link has anything to spare is such an
\* observation.
SaturationIsRespected ==
    \A x \in Decidable :
        LET d == Answer(x)
            s == Snapshot(x[2])
        IN  Grants(d.outcome) /\ CapacityUsed(s) /\ s.capacity.links # <<>> =>
              PolicyOf[auth.policy].classes[d.traffic].floor <= Available(s)
=============================================================================
