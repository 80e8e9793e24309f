----------------------------- MODULE MCPlanning -----------------------------
(* One collective of two participants, found with nothing installed or with *)
(* all it needs in force.                                                   *)
EXTENDS Planning

MCDefinitions ==
    <<[gen |-> 1, class |-> "all_reduce", participants |-> {1, 2}, barrier |-> FALSE,
       phase_sync |-> FALSE],
      [gen |-> 2, class |-> "unknown", participants |-> {1, 2}, barrier |-> FALSE,
       phase_sync |-> FALSE]>>

Treat(traffic, override, freshness) ==
    [traffic |-> traffic, override |-> override, freshness |-> freshness]
Class(floor, ceiling, burst, fresh, priority) ==
    [floor |-> floor, ceiling |-> ceiling, burst |-> burst, fresh |-> fresh, priority |-> priority]
Classes ==
    [bulk |-> Class(1000, Unlimited, 0, TRUE, 8), background |-> Class(0, 3001, 0, FALSE, 1),
     isolated |-> Class(0, 5000, 300, FALSE, 15), unclassified |-> Class(0, 0, 0, TRUE, 0),
     probe |-> None]
Policy(gen, treat) ==
    [gen |-> gen, collectives |-> [all_reduce |-> treat, unknown |-> Treat("unclassified", FALSE, 0)],
     classes |-> Classes, burst_multiplier |-> 250,
     response |-> [bounds |-> <<6000, 8500, 9900>>, rates |-> <<1000, 600, 150>>]]
MCPolicyOf ==
    [bulk |-> Policy("bulk", Treat("bulk", TRUE, 2)),
     isolated |-> Policy("isolated", Treat("isolated", FALSE, 0)),
     silent |-> Policy("silent", None),
     vague |-> Policy("vague", Treat("unclassified", FALSE, 2))]

Topology(gen, nodes, captured) == [gen |-> gen, nodes |-> nodes, captured |-> captured]
MCTopologyOf ==
    [both |-> Topology("both", {"n1", "n2"}, 0), one |-> Topology("one", {"n1"}, 1),
     later |-> Topology("later", {"n1", "n2"}, 2)]

Observation(gen, links, captured, valid_for) ==
    [gen |-> gen, links |-> links, captured |-> captured, valid_for |-> valid_for]
MCCapacityOf ==
    [ample |-> Observation("ample", <<2000, 1500>>, 0, 0),
     scarce |-> Observation("scarce", <<1>>, 1, 0),
     none_left |-> Observation("none_left", <<0, 0>>, 1, 0)]
MCCongestionOf ==
    [light |-> Observation("light", <<5000, 7000>>, 0, 1),
     heavy |-> Observation("heavy", <<9950>>, 1, 3)]

MCNodeOf == <<"n1", "n2">>

Edge(step, source, destination, bytes) ==
    [step |-> step, source |-> source, destination |-> destination, bytes |-> bytes,
     crosses_rack |-> source = 1]
There == Edge(1, 1, 2, 70)
Back == Edge(2, 2, 1, 30)
Again == Edge(2, 1, 2, 65500)
PlanOf(i, edges) ==
    [instance |-> i, class |-> "broadcast", pattern |-> "ring", direction |-> "one",
     simultaneous |-> FALSE, sequence |-> 1, edges |-> edges]
Instance(gen, attempt) == [id |-> "c", gen |-> gen, attempt |-> attempt, sequence |-> 1]
Nothing == [epoch |-> None, policy |-> None, topology |-> None, capacity |-> None,
            congestion |-> None]
Request(i, edges) ==
    [instance |-> i, plan |-> PlanOf(i, edges), observed |-> Nothing, requested |-> None]
Plain == Request(Instance(1, "a"), <<There, Back>>)

\* The plain request, and requests that differ from it in one respect.
MCRequests(epoch) ==
    {Plain, [Plain EXCEPT !.plan = None], [Plain EXCEPT !.plan.direction = "unknown"],
     [Plain EXCEPT !.plan.sequence = 2], [Plain EXCEPT !.plan.instance.sequence = 2],
     [Plain EXCEPT !.plan.instance.attempt = "b"]}
    \cup {[Plain EXCEPT !.plan.edges = e] :
            e \in {<<Back, There>>, <<Back, Again, There>>, <<>>, <<There, Edge(1, 1, 2, 1)>>,
                   <<Edge(1, 1, 1, 1)>>, <<Edge(1, 1, 3, 1)>>, <<Edge(1, 0, 2, 1)>>,
                   <<Edge(None, 1, 2, 1)>>, <<There, Back, Again, Edge(3, 1, 2, 1)>>}}
    \cup {[Plain EXCEPT !.observed.epoch = e] : e \in {epoch, epoch - 1}}
    \cup {[Plain EXCEPT !.observed.policy = g] : g \in {"bulk", "isolated"}}
    \cup {[Plain EXCEPT !.observed.topology = g] : g \in {"both", "one"}}
    \cup {[Plain EXCEPT !.observed.capacity = g] : g \in {"ample", "scarce"}}
    \cup {[Plain EXCEPT !.observed.congestion = g] : g \in {"light", "heavy"}}
    \cup {[Plain EXCEPT !.requested = c] : c \in {"background", "isolated", "unclassified", "probe"}}
    \cup {Request(Instance(1, "b"), <<There, Back>>), Request(Instance(2, "a"), <<There, Back>>)}

MCStarts ==
    {[record |-> None,
      auth |-> [epoch |-> 1, policy |-> None, topology |-> None, capacity |-> None,
                congestion |-> None, peers |-> [p \in {1, 2} |-> NotLive]]],
     [record |-> [gen |-> 1, attempt |-> "a", state |-> "planning"],
      auth |-> [epoch |-> 1, policy |-> "bulk", topology |-> "both", capacity |-> "ample",
                congestion |-> "light",
                peers |-> [p \in {1, 2} |-> [state |-> "live", expires |-> Ttl,
                                             node |-> MCNodeOf[p]]]]]}
=============================================================================
