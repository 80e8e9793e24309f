------------------------------- MODULE Messages -------------------------------
(* The layouts of every payload of the wire protocol and of the snapshot,  *)
(* each encoder's and each decoder's as the code states them.  Numbers in  *)
(* Upto are the last value of the enumeration the decoder accepts.         *)
EXTENDS Codec

Instance == Ids(<<"instance_id", "instance_generation", "instance_attempt">>)

(***************************************************************************)
(* Shared nested codecs (protocol.cpp).                                    *)
(***************************************************************************)
EncodeReasons ==
    <<Reasons("reasons", kReasonChainMax,
        <<Str("code", Unbounded), Str("detail", Unbounded), Id("subject")>>)>>
DecodeReasons ==
    <<Reasons("reasons", kReasonChainMax,
        <<Str("code", kReasonCodeBytesMax), Str("detail", kReasonDetailBytesMax),
          Id("subject")>>)>>

EncodeDefinition ==
    Ids(<<"id", "generation">>) \o <<U8("class"), U8("hint"), U8("scope"),
      Str("label", Unbounded), Id("origin_node"), Id("fabric"),
      List("participants", Unbounded, <<Id("member")>>),
      List("phases", Unbounded, <<U64("phase"), Str("label", Unbounded),
                                  Bool("sync"), U32("step_count")>>),
      List("steps", Unbounded, <<U64("phase"), U64("step"), U8("hint"), Bool("sync")>>),
      Map("metadata", Unbounded, <<Str("key", Unbounded), Str("value", Unbounded)>>),
      Bool("barrier"), U64("logical_bytes"), U64("registration_sequence")>>
DecodeDefinition ==
    Ids(<<"id", "generation">>) \o <<Upto("class", 14), Upto("hint", 11), Upto("scope", 5),
      Str("label", kLabelBytesMax), Id("origin_node"), Id("fabric"),
      SomeOf("participants", kParticipantsMax, <<Id("member")>>),
      List("phases", kPhasesMax, <<U64("phase"), Str("label", kLabelBytesMax),
                                   Bool("sync"), U32("step_count")>>),
      List("steps", kStepsMax, <<U64("phase"), U64("step"), Upto("hint", 11), Bool("sync")>>),
      Map("metadata", kMetadataEntriesMax, <<Str("key", kMetadataKeyBytesMax),
                                             Str("value", kMetadataValueBytesMax)>>),
      Bool("barrier"), U64("logical_bytes"), U64("registration_sequence")>>

EncodeEdges(max) ==
    <<List("edges", max, Ids(<<"source", "destination">>) \o
        <<U64("logical_bytes"), U64("step"), U8("hint"), Bool("crosses_rack")>>)>>
DecodeEdges(max) ==
    <<List("edges", max, Ids(<<"source", "destination">>) \o
        <<U64("logical_bytes"), U64("step"), Upto("hint", 11), Bool("crosses_rack")>>)>>

EncodeFlowGroupPlan ==
    Instance \o <<U64("attempt_sequence"), U8("class"), U8("pattern"), U8("direction"),
                  U64("plan_sequence"), Bool("simultaneous_start")>>
             \o EncodeEdges(Unbounded)
DecodeFlowGroupPlan ==
    Instance \o <<U64("attempt_sequence"), Upto("class", 14), Upto("pattern", 10),
                  Upto("direction", 2), U64("plan_sequence"), Bool("simultaneous_start")>>
             \o DecodeEdges(kEdgesMax)

EncodeFlowGroup ==
    <<Id("id")>> \o Instance \o <<U8("class"), U8("pattern"), U8("direction")>>
      \o EncodeEdges(Unbounded)
      \o <<List("participants", Unbounded, <<Id("member")>>), U64("total_bytes"),
           U32("max_fan_out"), U32("max_fan_in"), U32("cross_rack_edges"),
           Bool("simultaneous_start"), U64("plan_sequence")>>
DecodeFlowGroup ==
    <<Id("id")>> \o Instance \o <<Upto("class", 14), Upto("pattern", 10), Upto("direction", 2)>>
      \o DecodeEdges(kEdgesMax)
      \o <<List("participants", kParticipantsMax, <<Id("member")>>), U64("total_bytes"),
           U32("max_fan_out"), U32("max_fan_in"), U32("cross_rack_edges"),
           Bool("simultaneous_start"), U64("plan_sequence")>>

(***************************************************************************)
(* Decisions (protocol_messages.cpp).                                      *)
(***************************************************************************)
Observed == Ids(<<"observed_topology", "observed_policy", "observed_epoch",
                  "observed_capacity", "observed_congestion">>)

EncodeDecisionRequest ==
    <<Id("session")>> \o Instance \o <<U64("attempt_sequence")>> \o Observed
      \o <<When("has_plan", "plan", EncodeFlowGroupPlan), Bool("has_requested_class"),
           U8("requested_class"), U64("transfer_bytes")>>
DecodeDecisionRequest ==
    <<Id("session")>> \o Instance \o <<U64("attempt_sequence")>> \o Observed
      \o <<When("has_plan", "plan", DecodeFlowGroupPlan), Bool("has_requested_class"),
           Upto("requested_class", 7), U64("transfer_bytes")>>

Generations == Ids(<<"collective_generation", "topology_generation", "policy_generation",
                     "capacity_generation", "congestion_generation", "epoch">>)
\* The encoder writes the decision's own flow group and instance where the
\* decoder fills in the pacing intent's.
PacingOwner == Ids(<<"pacing_flow_group", "pacing_id", "pacing_generation",
                     "pacing_attempt">>)
PacingRates == U64s(<<"admitted_bps", "ceiling_bps", "burst_bytes", "utilization_bps",
                      "release_after_ms">>)

EncodeDecisionRecord ==
    Instance \o <<U64("attempt_sequence"), U8("class"), U8("hint"), U8("outcome"),
      U8("axis"), U32("code"), Id("flow_group"), Bool("flow_group_constructed"),
      Part("group", EncodeFlowGroup), List("participants", Unbounded, <<Id("member")>>),
      U8("traffic_class"), U64("priority"), U8("isolation"), U8("pacing_mode"),
      Id("flow_group")>> \o Instance \o PacingRates
    \o <<U8("sync_kind"), U8("sync_basis"), Bool("latency_critical"), Bool("all_arrive"),
      Bool("ordering_matters"), U32("barrier_members"), U64("max_skew")>> \o Generations
    \o <<Bool("congestion_used"), Bool("capacity_used"), Bool("all_live"), U64("phase"),
      U64("step")>> \o EncodeReasons \o U64s(<<"decided_ms", "decision_sequence">>)
DecodeDecisionRecord ==
    Instance \o <<U64("attempt_sequence"), Upto("class", 14), Upto("hint", 11),
      Upto("outcome", 8), Upto("axis", 11), U32Upto("code", kLastErrorCode),
      Id("flow_group"), Bool("flow_group_constructed"), Part("group", DecodeFlowGroup),
      List("participants", kParticipantsMax, <<Id("member")>>), Upto("traffic_class", 7),
      U64("priority"), Upto("isolation", 2), Upto("pacing_mode", 4)>>
    \o PacingOwner \o PacingRates
    \o <<Upto("sync_kind", 5), Upto("sync_basis", 5), Bool("latency_critical"),
      Bool("all_arrive"), Bool("ordering_matters"), U32("barrier_members"),
      U64("max_skew")>> \o Generations
    \o <<Bool("congestion_used"), Bool("capacity_used"), Bool("all_live"), U64("phase"),
      U64("step")>> \o DecodeReasons \o U64s(<<"decided_ms", "decision_sequence">>)

(***************************************************************************)
(* Evidence and policy (protocol_evidence.cpp).                            *)
(***************************************************************************)
EncodeCapacity ==
    Ids(<<"generation", "topology_generation">>) \o <<U64("captured_ms"), Bool("synthetic"),
      List("links", Unbounded, <<Id("link"), U64("provisioned"), U64("available"),
             U32("utilization"), Bool("oversubscribed"), U32("ratio")>>)>>
DecodeCapacity ==
    Ids(<<"generation", "topology_generation">>) \o <<U64("captured_ms"), Bool("synthetic"),
      List("links", kTopologyLinksMax, <<Id("link"), U64("provisioned"), U64("available"),
             U32("utilization"), Bool("oversubscribed"), U32("ratio")>>)>>

EncodeCongestion ==
    Ids(<<"generation", "topology_generation">>) \o <<U64("captured_ms"), U64("valid_for_ms"),
      Bool("synthetic"), List("links", Unbounded, <<Id("link"), U32("utilization"),
             U32("queue"), U32("ecn"), U32("pfc"), U8("level")>>)>>
\* Mutant: two neighbouring counters are read in the wrong order.
DecodeCongestionSwapped ==
    Ids(<<"generation", "topology_generation">>) \o <<U64("captured_ms"), U64("valid_for_ms"),
      Bool("synthetic"), List("links", kTopologyLinksMax, <<Id("link"), U32("utilization"),
             U32("queue"), U32("pfc"), U32("ecn"), Upto("level", 5)>>)>>
DecodeCongestion ==
    Ids(<<"generation", "topology_generation">>) \o <<U64("captured_ms"), U64("valid_for_ms"),
      Bool("synthetic"), List("links", kTopologyLinksMax, <<Id("link"), U32("utilization"),
             U32("queue"), U32("ecn"), U32("pfc"), Upto("level", 5)>>)>>

EncodeTopology ==
    <<Id("generation"), U64("captured_ms"), Bool("synthetic"),
      List("nodes", Unbounded, Ids(<<"id", "rack">>) \o <<Bool("attached"), U32("count")>>),
      List("links", Unbounded, Ids(<<"id", "a", "b">>) \o
             <<U8("class"), U64("capacity"), U32("lanes"), Bool("shared")>>)>>
DecodeTopology ==
    <<Id("generation"), U64("captured_ms"), Bool("synthetic"),
      List("nodes", kTopologyNodesMax, Ids(<<"id", "rack">>) \o <<Bool("attached"), U32("count")>>),
      List("links", kTopologyLinksMax, Ids(<<"id", "a", "b">>) \o
             <<Upto("class", 5), U64("capacity"), U32("lanes"), Bool("shared")>>)>>

Buckets == Array("response", kBucketCount, U32s(<<"utilization", "numerator">>))
ClassRates == U64s(<<"priority", "minimum", "maximum", "burst">>)
              \o <<Bool("simultaneous_start"), Bool("fresh")>>
EncodeTrafficPolicy ==
    <<Id("generation"), U64("default_maximum"), U64("burst_multiplier"), Buckets,
      List("classes", Unbounded, <<U8("class")>> \o ClassRates \o <<U8("isolation")>>),
      List("collectives", Unbounded, <<U8("collective"), U8("class"), Bool("admit_unknown"),
             Bool("override"), U64("freshness")>>)>>
DecodeTrafficPolicy ==
    <<Id("generation"), U64("default_maximum"), U64("burst_multiplier"), Buckets,
      List("classes", kPoliciesMax, <<Upto("class", 7)>> \o ClassRates \o <<Upto("isolation", 2)>>),
      List("collectives", kPoliciesMax, <<Upto("collective", 14), Upto("class", 7),
             Bool("admit_unknown"), Bool("override"), U64("freshness")>>)>>

(***************************************************************************)
(* One layout per message (protocol_messages.cpp).                         *)
(***************************************************************************)
EncodeHello == <<Str("client_label", Unbounded), Str("client_version", Unbounded),
                 U64("client_boot_ms")>>
DecodeHello == <<Str("client_label", kLabelBytesMax), Str("client_version", kLabelBytesMax),
                 U64("client_boot_ms")>>

HelloIds == Ids(<<"session", "incarnation", "epoch", "policy_generation",
                  "topology_generation", "capacity_generation", "congestion_generation">>)
EncodeHelloAck == HelloIds \o <<U32("max_payload"), Str("label", Unbounded)>>
DecodeHelloAck == HelloIds \o <<U32Upto("max_payload", kFramePayloadMaxBytes),
                                Str("label", kLabelBytesMax)>>

EncodeHeartbeat == Ids(<<"participant", "incarnation">>) \o
    <<U8("state"), Id("node"), U64("client_clock_ms")>>
DecodeHeartbeat == Ids(<<"participant", "incarnation">>) \o
    <<Upto("state", 6), Id("node"), U64("client_clock_ms")>>

EncodeHeartbeatAck == Ids(<<"participant", "incarnation">>) \o
    <<U8("state"), U64("expires_ms"), Bool("accepted")>> \o EncodeReasons
DecodeHeartbeatAck == Ids(<<"participant", "incarnation">>) \o
    <<Upto("state", 6), U64("expires_ms"), Bool("accepted")>> \o DecodeReasons

EncodeRegisterAck == Ids(<<"id", "generation">>) \o
    <<U8("result"), U64("registration_sequence")>> \o EncodeReasons
DecodeRegisterAck == Ids(<<"id", "generation">>) \o
    <<U8("result"), U64("registration_sequence")>> \o DecodeReasons

EncodeBeginAttempt == Ids(<<"id", "generation", "attempt">>) \o <<U64("transfer_bytes")>>
DecodeBeginAttempt == Ids(<<"id", "generation", "attempt">>) \o <<U64("transfer_bytes")>>

EncodeAttemptAck == Ids(<<"id", "attempt", "previous_attempt">>) \o <<U8("state")>>
                      \o EncodeReasons
DecodeAttemptAck == Ids(<<"id", "attempt", "previous_attempt">>) \o <<Upto("state", 8)>>
                      \o DecodeReasons

EncodeLifecycle == Ids(<<"id", "generation", "attempt">>) \o <<Str("reason", Unbounded)>>
DecodeLifecycle == Ids(<<"id", "generation", "attempt">>) \o
                     <<Str("reason", kReasonDetailBytesMax)>>

EncodeLifecycleAck == <<Id("id"), U8("state")>> \o EncodeReasons
DecodeLifecycleAck == <<Id("id"), Upto("state", 8)>> \o DecodeReasons

EncodeEvidence == <<OneOf("evidence", <<EncodeCapacity, EncodeCongestion, EncodeTopology,
                                        EncodeTrafficPolicy>>)>>
DecodeEvidence == <<OneOf("evidence", <<DecodeCapacity, DecodeCongestion, DecodeTopology,
                                        DecodeTrafficPolicy>>)>>

EncodeEvidenceAck == <<U8("kind"), U8("result"), Id("generation")>> \o EncodeReasons
DecodeEvidenceAck == <<Upto("kind", 4), U8("result"), Id("generation")>> \o DecodeReasons

EncodeInspectRequest == <<U8("subject"), Id("id"), U32("offset"), U32("limit")>>
DecodeInspectRequest == <<U8("subject"), Id("id"), U32("offset"),
                          U32Upto("limit", kInspectionPageMax)>>

EncodeInspectResponse == <<U8("subject"), Str("body", Unbounded), Bool("truncated")>>
DecodeInspectResponse == <<U8("subject"), Str("body", kFramePayloadMaxBytes),
                           Bool("truncated")>>

EncodeExplainRequest == Ids(<<"id", "attempt">>) \o <<U64("correlation"), Bool("has_correlation")>>
DecodeExplainRequest == Ids(<<"id", "attempt">>) \o <<U64("correlation"), Bool("has_correlation")>>

EncodeExplainResponse == <<Bool("found"), Part("decision", EncodeDecisionRecord),
                           Str("explanation", Unbounded)>>
DecodeExplainResponse == <<Bool("found"), Part("decision", DecodeDecisionRecord),
                           Str("explanation", kFramePayloadMaxBytes)>>

EncodeInstallPolicyAck == <<Id("generation"), U8("result")>> \o EncodeReasons
DecodeInstallPolicyAck == <<Id("generation"), U8("result")>> \o DecodeReasons

EncodeError == <<U32("code"), Str("message", Unbounded)>> \o EncodeReasons
DecodeError == <<U32Upto("code", kLastErrorCode), Str("message", kReasonDetailBytesMax)>>
                 \o DecodeReasons

Encoder ==
    [hello |-> EncodeHello, hello_ack |-> EncodeHelloAck, heartbeat |-> EncodeHeartbeat,
     heartbeat_ack |-> EncodeHeartbeatAck, register_collective |-> EncodeDefinition,
     register_ack |-> EncodeRegisterAck, begin_attempt |-> EncodeBeginAttempt,
     attempt_ack |-> EncodeAttemptAck, plan_flow_group |-> EncodeDecisionRequest,
     flow_group_decision |-> EncodeDecisionRecord, lifecycle |-> EncodeLifecycle,
     lifecycle_ack |-> EncodeLifecycleAck, ingest_evidence |-> EncodeEvidence,
     evidence_ack |-> EncodeEvidenceAck, inspect_request |-> EncodeInspectRequest,
     inspect_response |-> EncodeInspectResponse, explain_request |-> EncodeExplainRequest,
     explain_response |-> EncodeExplainResponse, install_policy |-> EncodeTrafficPolicy,
     install_policy_ack |-> EncodeInstallPolicyAck, error_response |-> EncodeError]
Decoder ==
    [hello |-> DecodeHello, hello_ack |-> DecodeHelloAck, heartbeat |-> DecodeHeartbeat,
     heartbeat_ack |-> DecodeHeartbeatAck, register_collective |-> DecodeDefinition,
     register_ack |-> DecodeRegisterAck, begin_attempt |-> DecodeBeginAttempt,
     attempt_ack |-> DecodeAttemptAck, plan_flow_group |-> DecodeDecisionRequest,
     flow_group_decision |-> DecodeDecisionRecord, lifecycle |-> DecodeLifecycle,
     lifecycle_ack |-> DecodeLifecycleAck, ingest_evidence |-> DecodeEvidence,
     evidence_ack |-> DecodeEvidenceAck, inspect_request |-> DecodeInspectRequest,
     inspect_response |-> DecodeInspectResponse, explain_request |-> DecodeExplainRequest,
     explain_response |-> DecodeExplainResponse, install_policy |-> DecodeTrafficPolicy,
     install_policy_ack |-> DecodeInstallPolicyAck, error_response |-> DecodeError]

(***************************************************************************)
(* Canonical form.                                                         *)
(***************************************************************************)
SortedBy(s, key(_)) == SortSeq(s, LAMBDA x, y : key(x) < key(y))
Ascending(s, key(_)) == \A i, j \in DOMAIN s : i < j => key(s[i]) < key(s[j])

\* canonicalize_participants: sorted, duplicates collapse.
CanonicalMembers(s) ==
    LET members == {s[i].member : i \in DOMAIN s}
        nth(k)  == CHOOSE m \in members : Cardinality({n \in members : n <= m}) = k
    IN  [k \in 1 .. Cardinality(members) |-> [member |-> nth(k)]]

PhaseOf(x) == x.phase
StepOf(x)  == x.phase * 100 + x.step
LinkOf(x)  == x.link
IdOf(x)    == x.id

\* decode_register_collective after the payload was read.
CanonicalDefinition(d) ==
    [d EXCEPT !.participants = CanonicalMembers(@),
              !.phases = SortedBy(@, PhaseOf), !.steps = SortedBy(@, StepOf)]
StatedOnce(d) == Ascending(d.phases, PhaseOf) /\ Ascending(d.steps, StepOf)

\* The canonicalize() calls that end decode_capacity, decode_congestion and
\* decode_topology.
CanonicalEvidence(e) ==
    CASE e.tag \in {1, 2} -> [e EXCEPT !.body.links = SortedBy(@, LinkOf)]
      [] e.tag = 3 -> [e EXCEPT !.body.nodes = SortedBy(@, IdOf),
                                !.body.links = SortedBy(@, IdOf)]
      [] e.tag = 4 -> e

\* What the dispatcher of a message of this kind is given.
DecodePayload(kind, p) ==
    LET r == Decode(Decoder[kind], p)
    IN  CASE ~r.ok -> r
          [] r.ok /\ kind = "register_collective" ->
               [ok |-> StatedOnce(CanonicalDefinition(r.val)),
                val |-> CanonicalDefinition(r.val)]
          [] r.ok /\ kind = "ingest_evidence" ->
               [r EXCEPT !.val.evidence = CanonicalEvidence(@)]
          [] OTHER -> r

\* validate_definition (catalog.cpp).
ValidDefinition(d) ==
    /\ d.id # 0
    /\ d.label.len <= kLabelBytesMax
    /\ d.participants # <<>> /\ Len(d.participants) <= kParticipantsMax
    /\ d.participants = CanonicalMembers(d.participants)
    /\ \A i \in DOMAIN d.participants : d.participants[i].member # 0
    /\ Len(d.phases) <= kPhasesMax /\ Ascending(d.phases, PhaseOf)
    /\ \A i \in DOMAIN d.phases : /\ d.phases[i].phase \in 1 .. kPhasesMax
                                  /\ d.phases[i].label.len <= kLabelBytesMax
    /\ Len(d.steps) <= kStepsMax /\ Ascending(d.steps, StepOf)
    /\ \A i \in DOMAIN d.steps : /\ d.steps[i].phase # 0
                                 /\ d.steps[i].step \in 1 .. kStepsMaxPerPhase

(***************************************************************************)
(* The snapshot's own copies of the nested layouts (persistence.cpp).      *)
(***************************************************************************)
RecordCounters == <<Id("current_attempt")>> \o
    U64s(<<"attempt_bytes", "attempt_seq", "registered_seq", "mutation_seq",
           "registered_ms", "mutated_ms">>) \o <<U32("ancestry")>>
WriteRecord ==
    Ids(<<"id", "generation">>) \o <<U8("class"), U8("hint"), U8("scope"),
      Text("label", kLabelBytesMax), Id("origin_node"), Id("fabric"),
      List("participants", Unbounded, <<Id("member")>>),
      List("phases", Unbounded, <<U64("phase"), Text("label", kLabelBytesMax),
                                  Bool("sync"), U32("step_count")>>),
      List("steps", Unbounded, <<U64("phase"), U64("step"), U8("hint"), Bool("sync")>>),
      Map("metadata", Unbounded, <<Text("key", kMetadataKeyBytesMax),
                                   Text("value", kMetadataValueBytesMax)>>),
      Bool("barrier"), U64("logical_bytes"), U64("registration_sequence"),
      U8("state")>> \o RecordCounters
ReadRecord ==
    Ids(<<"id", "generation">>) \o <<Upto("class", 14), Upto("hint", 11), Upto("scope", 5),
      Text("label", kLabelBytesMax), Id("origin_node"), Id("fabric"),
      List("participants", kParticipantsMax, <<Id("member")>>),
      List("phases", kPhasesMax, <<U64("phase"), Text("label", kLabelBytesMax),
                                   Bool("sync"), U32("step_count")>>),
      List("steps", kStepsMax, <<U64("phase"), U64("step"), Upto("hint", 11), Bool("sync")>>),
      Map("metadata", kMetadataEntriesMax, <<Text("key", kMetadataKeyBytesMax),
                                             Text("value", kMetadataValueBytesMax)>>),
      Bool("barrier"), U64("logical_bytes"), U64("registration_sequence"),
      Upto("state", 8)>> \o RecordCounters

WriteTopology ==
    <<Id("generation"), U64("captured_ms"), Bool("synthetic"),
      List("nodes", Unbounded, Ids(<<"id", "rack">>) \o <<Bool("attached"), U32("count")>>),
      List("links", Unbounded, Ids(<<"id", "a", "b">>) \o
             <<U8("class"), U64("capacity"), U32("lanes"), Bool("shared")>>)>>
ReadTopology ==
    <<Id("generation"), U64("captured_ms"), Bool("synthetic"),
      List("nodes", kTopologyNodesMax, Ids(<<"id", "rack">>) \o <<Bool("attached"), U32("count")>>),
      List("links", kTopologyLinksMax, Ids(<<"id", "a", "b">>) \o
             <<Upto("class", 5), U64("capacity"), U32("lanes"), Bool("shared")>>)>>
WritePolicy ==
    <<Id("generation"), U64("default_maximum"), U64("burst_multiplier"), Buckets,
      List("classes", Unbounded, <<U8("class")>> \o ClassRates \o <<U8("isolation")>>),
      List("collectives", Unbounded, <<U8("collective"), U8("class"), Bool("admit_unknown"),
             Bool("override"), U64("freshness")>>)>>
ReadPolicy ==
    <<Id("generation"), U64("default_maximum"), U64("burst_multiplier"), Buckets,
      List("classes", kPoliciesMax, <<Upto("class", 7)>> \o ClassRates \o <<Upto("isolation", 2)>>),
      List("collectives", kPoliciesMax, <<Upto("collective", 14), Upto("class", 7),
             Bool("admit_unknown"), Bool("override"), U64("freshness")>>)>>

WriteSnapshot ==
    <<U32("format"), U64("written_ms")>> \o
    Ids(<<"last_epoch", "policy_generation", "topology_generation">>) \o
    <<U64("restarts"), When("has_topology", "topology", WriteTopology),
      When("has_policy", "policy", WritePolicy), List("records", Unbounded, WriteRecord)>>
ReadSnapshot ==
    <<U32("format"), U64("written_ms")>> \o
    Ids(<<"last_epoch", "policy_generation", "topology_generation">>) \o
    <<U64("restarts"), When("has_topology", "topology", ReadTopology),
      When("has_policy", "policy", ReadPolicy),
      List("records", kSnapshotCollectivesMax, ReadRecord)>>

(***************************************************************************)
(* What may be installed, and what a snapshot may hold.                    *)
(***************************************************************************)
kPerMille == 1000
kMaximumPriority == 15
kUnlimitedRate == Unbounded
kBurstMax == 10 ^ 6       \* stands for 1 << 62
\* TopologyEvidence::validate.
ValidTopology(t) ==
    /\ t.generation # 0
    /\ Len(t.nodes) <= kTopologyNodesMax /\ Len(t.links) <= kTopologyLinksMax
    /\ Ascending(t.nodes, IdOf) /\ Ascending(t.links, IdOf)
    /\ \A i \in DOMAIN t.nodes : t.nodes[i].id # 0
    /\ \A i \in DOMAIN t.links :
         t.links[i].id # 0 /\ t.links[i].capacity # 0 /\ t.links[i].lanes # 0

ValidResponse(table) ==
    \A i \in DOMAIN table :
       /\ table[i].utilization \in 1 .. 10000
       /\ table[i].numerator \in 1 .. kPerMille
       /\ i > 1 => table[i].utilization > table[i - 1].utilization

\* TrafficPolicy::validate.
ValidPolicy(q) ==
    /\ q.generation # 0
    /\ Len(q.classes) \in 1 .. 8 /\ Len(q.collectives) <= 16
    /\ \A i, j \in DOMAIN q.classes : q.classes[i].class = q.classes[j].class => i = j
    /\ \A i \in DOMAIN q.classes :
         /\ q.classes[i].priority <= kMaximumPriority
         /\ \/ q.classes[i].maximum = kUnlimitedRate
            \/ q.classes[i].minimum <= q.classes[i].maximum
         /\ q.classes[i].burst <= kBurstMax
    /\ \E i \in DOMAIN q.classes : q.classes[i].class = 0
    /\ \E i \in DOMAIN q.collectives : q.collectives[i].collective = 0
    /\ ValidResponse(q.response)
    /\ q.burst_multiplier <= kPerMille
=============================================================================
