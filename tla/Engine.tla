------------------------------- MODULE Engine -------------------------------
(***************************************************************************)
(* The decision engine (src/src/engine.cpp, src/src/sync.cpp): a function  *)
(* of a frozen snapshot of the authority state, a request and the          *)
(* definition in force.  The code walks a fixed list of rules; the first   *)
(* one that refuses decides outcome and axis.  Here the list is Order, a   *)
(* rule is a case of Refuses, and Verdict is what it answers.  Reasons,    *)
(* error codes and counters are left out.  Rates are words of the machine, *)
(* ages milliseconds.                                                      *)
(***************************************************************************)
EXTENDS FlowGroup

CONSTANTS
    TopologyMaxAge, CapacityMaxAge, CongestionMaxAge   \* FreshnessBounds

ASSUME EngineAssumption ==
    {TopologyMaxAge, CapacityMaxAge, CongestionMaxAge} \subseteq Nat

Mille == 1000
Unlimited == Word - 1       \* kUnlimitedRate

Smaller(a, b) == IF a <= b THEN a ELSE b
Larger(a, b) == IF a >= b THEN a ELSE b

\* is_known_collective_class, traffic_class_is_classified.
KnownClass(class) == class \notin {"unknown", "unknown_vendor"}
Classified(traffic) == traffic # "unclassified"

\* outcome_grants_authority.
Grants(outcome) == outcome \in {"admitted", "isolated"}

-----------------------------------------------------------------------------
(* Evidence and pacing.                                                    *)

\* Evidence captured after the request's own time has no age.
Age(s, e) == IF s.now >= e.captured THEN s.now - e.captured ELSE 0

Usable(s, e, bound) ==
    e # None /\ e.topology = s.topology.gen /\ Age(s, e) <= bound

\* The bound compute_pacing puts on congestion evidence; a policy that states
\* none falls back to the coordinator's.
CongestionBound(s, cp) ==
    Smaller(s.congestion.valid_for,
            IF cp.freshness = 0 THEN CongestionMaxAge ELSE cp.freshness)

CapacityUsed(s) == Usable(s, s.capacity, CapacityMaxAge)

CongestionUsed(s, cp) == s.congestion # None /\ Usable(s, s.congestion, CongestionBound(s, cp))

\* What all links together can spare, and the highest utilization of a link.
Spare(links) ==
    LET upTo[k \in 0 .. Len(links)] == IF k = 0 THEN 0 ELSE (upTo[k - 1] + links[k]) % Word
    IN  upTo[Len(links)]
Worst(links) == FoldLeft(Larger, 0, links)

\* 0 also when there is no usable observation.
Available(s) == IF CapacityUsed(s) THEN Spare(s.capacity.links) ELSE 0

Utilization(s, cp) == IF CongestionUsed(s, cp) THEN Worst(s.congestion.links) ELSE 0

\* The rate numerator of the bucket a utilization falls in: below the first
\* boundary the first, at or above the last but one the last.
Response(table, utilization) ==
    table.rates[Smaller(Cardinality({k \in DOMAIN table.bounds : utilization >= table.bounds[k]}) + 1,
                        Len(table.bounds))]

\* So many thousandths of a rate, dividing first.
PerMille(rate, mille) ==
    ((rate \div Mille) * mille + ((rate % Mille) * mille) \div Mille) % Word

LimitIgnoringCapacity(available, ceiling) == ceiling

Limit(available, ceiling) == IF available # 0 THEN Smaller(ceiling, available) ELSE ceiling

\* compute_pacing for the policies cp of the collective class and tp of the
\* traffic class: first the rate before floor and ceiling, what is available
\* less what the response to congestion takes away.
Proposed(s, cp, tp) ==
    PerMille(Limit(Available(s), tp.ceiling), Response(s.policy.response, Utilization(s, cp)))

BelowFloor(s, cp, tp) == Available(s) # 0 /\ Proposed(s, cp, tp) < tp.floor

\* An unlimited ceiling is none.
Rate(proposed, tp) ==
    LET floored == Larger(proposed, tp.floor)
    IN  IF tp.ceiling = Unlimited THEN floored ELSE Smaller(floored, tp.ceiling)

Burst(rate, multiplier, tp) ==
    IF rate = Unlimited THEN 0
    ELSE IF tp.burst # 0 THEN Smaller(tp.burst, PerMille(rate, multiplier))
    ELSE PerMille(rate, multiplier)

-----------------------------------------------------------------------------
(* The rules.                                                              *)

TrafficClass(s, r, d) ==
    IF r.requested # None THEN r.requested ELSE s.policy.collectives[d.class].traffic

CollectivePolicy(s, d) == s.policy.collectives[d.class]
ClassPolicy(s, r, d) == s.policy.classes[TrafficClass(s, r, d)]

LiveUntilFenced(s, p) == s.peers[p].state = "live"

\* A participant whose liveness record is live and not over at the request's time.
Live(s, p) == s.peers[p].state = "live" /\ s.now < s.peers[p].expires

Stale(observed, current) == observed # None /\ observed # current

Order ==
    <<"generation", "no_plan", "plan", "epoch", "policy", "no_policy", "capacity", "congestion",
      "topology", "no_topology", "liveness", "topology_age", "node", "collective_unstated",
      "class_unknown", "override", "override_unclassified", "unclassified", "class_unstated",
      "no_congestion", "congestion_age", "floor">>

Generation(e) == IF e = None THEN None ELSE e.gen

Refuses(rule, s, r, d) ==
    CASE rule = "generation"    -> r.instance.gen # d.gen
      [] rule = "no_plan"       -> r.plan = None
      [] rule = "plan"          -> ~ValidPlan(r.plan, d.participants)
      [] rule = "epoch"         -> Stale(r.observed.epoch, s.epoch)
      [] rule = "policy"        -> Stale(r.observed.policy, Generation(s.policy))
      [] rule = "no_policy"     -> s.policy = None
      [] rule = "capacity"      -> s.capacity # None /\ Stale(r.observed.capacity, s.capacity.gen)
      [] rule = "congestion"    -> s.congestion # None /\ Stale(r.observed.congestion, s.congestion.gen)
      [] rule = "topology"      -> Stale(r.observed.topology, Generation(s.topology))
      [] rule = "no_topology"   -> s.topology = None
      [] rule = "liveness"      -> \E p \in d.participants : ~Live(s, p)
      [] rule = "topology_age"  -> Age(s, s.topology) > TopologyMaxAge
      [] rule = "node"          -> \E p \in d.participants : s.peers[p].node \notin s.topology.nodes
      [] rule = "collective_unstated" -> CollectivePolicy(s, d) = None
      [] rule = "class_unknown" -> ~KnownClass(d.class)
      [] rule = "override"      -> r.requested # None /\ ~CollectivePolicy(s, d).override
      [] rule = "override_unclassified" -> r.requested # None /\ ~Classified(r.requested)
      [] rule = "unclassified"  -> ~Classified(TrafficClass(s, r, d))
      [] rule = "class_unstated" -> ClassPolicy(s, r, d) = None
      [] rule = "no_congestion" -> ClassPolicy(s, r, d).fresh /\ s.congestion = None
      [] rule = "congestion_age" ->
           /\ ClassPolicy(s, r, d).fresh
           /\ Age(s, s.congestion) > Smaller(s.congestion.valid_for, CollectivePolicy(s, d).freshness)
      [] rule = "floor"         ->
           BelowFloor(s, CollectivePolicy(s, d), ClassPolicy(s, r, d))

\* Outcome and axis of a refusal.
Verdict(rule) ==
    CASE rule = "generation" -> <<"rejected_stale", "collective_generation">>
      [] rule \in {"no_plan", "plan", "node"} -> <<"requires_replan", "plan">>
      [] rule = "epoch" -> <<"rejected_stale", "coordinator_epoch">>
      [] rule = "policy" -> <<"rejected_stale", "policy_generation">>
      [] rule \in {"no_policy", "class_unstated"} -> <<"rejected_policy", "policy_generation">>
      [] rule = "capacity" -> <<"rejected_stale", "capacity_evidence">>
      [] rule = "congestion" -> <<"rejected_stale", "congestion_evidence">>
      [] rule \in {"topology", "no_topology", "topology_age"} ->
           <<"rejected_stale", "topology_generation">>
      [] rule = "liveness" -> <<"rejected_stale", "participant_liveness">>
      [] rule \in {"collective_unstated", "class_unknown", "override", "override_unclassified"} ->
           <<"rejected_policy", "semantics">>
      [] rule = "unclassified" -> <<"unknown_semantics", "semantics">>
      [] rule \in {"no_congestion", "congestion_age"} ->
           <<"requires_replan", "congestion_evidence">>
      [] rule = "floor" -> <<"rejected_capacity", "capacity_evidence">>

\* The position of the first rule that refuses, or one past the last.
FirstRefusal(s, r, d) ==
    CHOOSE k \in 1 .. Len(Order) + 1 :
        /\ k <= Len(Order) => Refuses(Order[k], s, r, d)
        /\ \A j \in 1 .. k - 1 : ~Refuses(Order[j], s, r, d)

Position(rule) == CHOOSE k \in DOMAIN Order : Order[k] = rule

Mode(tp, traffic) ==
    IF traffic = "isolated" THEN "shaped"
    ELSE IF tp.fresh THEN "token_bucket"
    ELSE IF traffic = "bulk" THEN "rate_limited"
    ELSE "immediate"

\* derive_sync_sensitivity: declarations before structure, and of the structural
\* reasons the class before the pattern, the plan and the priority.
SyncSensitivity(s, d, plan) ==
    LET tp == IF CollectivePolicy(s, d) = None THEN None
              ELSE s.policy.classes[CollectivePolicy(s, d).traffic]
        critical == tp # None /\ (tp.priority >= 12 \/ CollectivePolicy(s, d).traffic = "latency_critical")
    IN  IF d.barrier THEN <<"barrier", "declared">>
        ELSE IF d.phase_sync THEN <<"barrier", "declared_phase">>
        ELSE IF d.class = "barrier_only" THEN <<"barrier", "class">>
        ELSE IF d.class \in {"all_reduce", "reduce_scatter", "scan"} THEN <<"dependency", "class">>
        ELSE IF plan.pattern \in {"ring", "pipeline"} THEN <<"collective_step", "pattern">>
        ELSE IF plan.simultaneous THEN <<"dependency", "policy">>
        ELSE IF critical THEN <<"fence", "policy">>
        ELSE <<"none", "unspecified">>

-----------------------------------------------------------------------------
(* DecisionRecord.  What a rule does not get to is left as make_record      *)
(* left it.                                                                *)
Blank(r, at) ==
    [instance |-> r.instance, outcome |-> "none", axis |-> "none", at |-> at, group |-> None,
     traffic |-> "unclassified", epoch |-> None, policy |-> None, topology |-> None,
     capacity |-> None, congestion |-> None, mode |-> "none", rate |-> 0, burst |-> 0,
     release |-> 0, sync |-> <<"none", "unspecified">>]

Refused(record, verdict) == [record EXCEPT !.outcome = verdict[1], !.axis = verdict[2]]

RefusedRecord(r, at, outcome, axis) == Refused(Blank(r, at), <<outcome, axis>>)

\* The plan carries the class of the definition, whatever it claimed.
Owned(plan, d) == [plan EXCEPT !.class = d.class]

\* The record when rule k is the first to refuse.
RecordedAt(k, s, r, d) ==
    LET grouped == IF k <= Position("plan") THEN Blank(r, s.now)
                   ELSE [Blank(r, s.now) EXCEPT !.group = Construct(Owned(r.plan, d))]
    IN  IF k <= Position("class_unstated") THEN grouped
        ELSE [grouped EXCEPT !.traffic = TrafficClass(s, r, d), !.epoch = s.epoch,
                             !.policy = s.policy.gen, !.topology = s.topology.gen]

GrantedUnbound(record, rate, tp, s, r, d) ==
    [record EXCEPT !.congestion = Generation(s.congestion),
                   !.mode = Mode(tp, record.traffic),
                   !.rate = rate, !.burst = Burst(rate, s.policy.burst_multiplier, tp),
                   !.sync = SyncSensitivity(s, d, r.plan),
                   !.outcome = IF record.traffic = "isolated" THEN "isolated" ELSE "admitted"]

\* The record of a request that no rule refuses, paced at rate.
Granted(record, rate, tp, s, r, d) ==
    [record EXCEPT !.capacity = Generation(s.capacity),
                   !.congestion = Generation(s.congestion),
                   !.mode = Mode(tp, record.traffic),
                   !.rate = rate, !.burst = Burst(rate, s.policy.burst_multiplier, tp),
                   !.sync = SyncSensitivity(s, d, r.plan),
                   !.outcome = IF record.traffic = "isolated" THEN "isolated" ELSE "admitted"]

Decided(k, s, r, d) ==
    IF k <= Len(Order) THEN Refused(RecordedAt(k, s, r, d), Verdict(Order[k]))
    ELSE LET tp == ClassPolicy(s, r, d)
         IN  Granted(RecordedAt(k, s, r, d), Rate(Proposed(s, CollectivePolicy(s, d), tp), tp),
                     tp, s, r, d)

Evaluate(s, r, d) == Decided(FirstRefusal(s, r, d), s, r, d)
=============================================================================
