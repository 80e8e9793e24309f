------------------------------ MODULE FlowGroup ------------------------------
(***************************************************************************)
(* Flow groups (src/src/flow_group.cpp): a plan lists directed edges       *)
(* between the participants of a collective; construct_flow_group          *)
(* validates it, brings the edges into canonical order, and derives the    *)
(* group's summary and its identity.  Participants are numbers, since the  *)
(* order of identities matters; 0 is the unset identity, and None a step   *)
(* that was not given.  Digests and hash keys are taken as injective: the  *)
(* identity of a group is the content it is a digest of.                   *)
(***************************************************************************)
EXTENDS Identity, Integers, Sequences, FiniteSets, SequencesExt

CONSTANTS
    Word,            \* 2^64
    EdgesMax         \* limits::kEdgesMaxPerFlowGroup

ASSUME FlowGroupAssumption == Word \in Nat \ {0} /\ EdgesMax \in Nat

\* edge_less.  Later fields break no tie in a plan that is valid.
EdgeLess(a, b) ==
    \/ a.step < b.step
    \/ a.step = b.step /\ a.source < b.source
    \/ a.step = b.step /\ a.source = b.source /\ a.destination < b.destination

SameEdge(a, b) == a = b

SameObligation(a, b) ==
    a.step = b.step /\ a.source = b.source /\ a.destination = b.destination

\* validate_flow_group_plan; the instance is checked with the request.
ValidPlan(plan, allowed) ==
    LET e == plan.edges
    IN  /\ Len(e) \in 1 .. EdgesMax
        /\ plan.direction # "unknown"
        /\ allowed # {}
        /\ \A i \in DOMAIN e :
             /\ e[i].source # 0 /\ e[i].destination # 0
             /\ e[i].source # e[i].destination
             /\ {e[i].source, e[i].destination} \subseteq allowed
             /\ e[i].step # None
             /\ \A j \in DOMAIN e : SameObligation(e[i], e[j]) => i = j

\* What std::sort promises: an arrangement in which nothing comes before what is
\* less than it.
Arrangements(s) ==
    {[i \in DOMAIN s |-> s[p[i]]] : p \in Bijection(DOMAIN s, DOMAIN s)}

EdgesAsStated(edges) == edges

\* The edges in canonical order.
Canonical(edges) ==
    CHOOSE t \in Arrangements(edges) :
        \A i, j \in DOMAIN edges : EdgeLess(t[i], t[j]) => i < j

Ascending(ends) ==
    CHOOSE t \in Arrangements(ends) : \A i, j \in DOMAIN ends : t[i] < t[j] => i < j

\* The longest run of equal elements of the sorted endpoints.
LongestRun(ends) ==
    LET s == Ascending(ends)
        upTo[k \in 0 .. Len(s)] ==
            IF k = 0 THEN [run |-> 0, longest |-> 0]
            ELSE LET run == upTo[k - 1].run + 1
                     longest == upTo[k - 1].longest
                 IN  IF k = Len(s) \/ s[k + 1] # s[k]
                     THEN [run |-> 0, longest |-> IF run > longest THEN run ELSE longest]
                     ELSE [run |-> run, longest |-> longest]
    IN  upTo[Len(s)].longest

Total(edges) ==
    LET upTo[k \in 0 .. Len(edges)] ==
            IF k = 0 THEN 0 ELSE (upTo[k - 1] + edges[k].bytes) % Word
    IN  upTo[Len(edges)]

\* construct_flow_group of a valid plan.  plan_sequence is no part of the
\* identity; attempt_sequence, which nothing checks, is.
Construct(plan) ==
    LET e == Canonical(plan.edges)
    IN  [id |-> <<plan.instance, plan.class, plan.pattern, plan.direction,
                  plan.simultaneous, e>>,
         edges |-> e,
         participants |-> {x.source : x \in ToSet(e)} \cup {x.destination : x \in ToSet(e)},
         fan_out |-> LongestRun([i \in DOMAIN e |-> e[i].source]),
         fan_in |-> LongestRun([i \in DOMAIN e |-> e[i].destination]),
         cross_rack |-> Cardinality({i \in DOMAIN e : e[i].crosses_rack}),
         total |-> Total(e)]
=============================================================================
