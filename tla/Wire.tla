-------------------------------- MODULE Wire --------------------------------
(* One message from the call that encodes it to the state it leaves on     *)
(* disk: encode_*, encode_frame, the connection, decode_frame, decode_*,   *)
(* the answer of the dispatcher, and the snapshot a mutation is saved in.  *)
(* Messages in both directions are sent: requests by peers, acks by the    *)
(* coordinator.  A peer of another build may send a payload that ends too  *)
(* early or too late; a frame may be damaged in one of its header fields   *)
(* or in its body.  CRC32 finds any such damage to the bytes it covers.    *)
EXTENDS Messages

CONSTANTS
    Legal,        \* by kind: values of that kind within every limit
    Illegal,      \* by kind: values that exceed exactly one limit
    Sample,       \* by kind: a few of the legal values
    Lives,        \* durable states a coordinator may have when a message arrives
    Found         \* contents of snapshots of another build, found at a start

VARIABLES
    stage,        \* "idle", "sent", "received", "answered" or "closed"
    msg,          \* the message under way
    got,          \* what decode_frame and the payload's decoder made of it
    answers,      \* the kinds of the frames sent in return
    live,         \* what the coordinator holds that a snapshot keeps
    image         \* the encoded snapshot on disk, or NoImage

vars == <<stage, msg, got, answers, live, image>>

NoMessage == [kind |-> "none", damaged |-> "none"]
Nothing   == [ok |-> FALSE, val |-> <<>>]
NoImage   == [fields |-> <<>>, size |-> 0]
NothingHeld == [topology |-> <<>>, policy |-> <<>>, records |-> <<>>]
Kinds     == DOMAIN Encoder
Members(s) == {s[i] : i \in DOMAIN s}

ReplyKind ==
    [heartbeat |-> "heartbeat_ack", register_collective |-> "register_ack",
     begin_attempt |-> "attempt_ack", plan_flow_group |-> "flow_group_decision",
     lifecycle |-> "lifecycle_ack", ingest_evidence |-> "evidence_ack",
     inspect_request |-> "inspect_response", explain_request |-> "explain_response",
     install_policy |-> "install_policy_ack", hello |-> "hello_ack"]
Requests == DOMAIN ReplyKind

(***************************************************************************)
(* Frames.                                                                 *)
(***************************************************************************)
HeaderCrcCovers == {"magic", "header_bytes", "kind", "flags", "version", "body_bytes",
                    "body_crc"}
FrameParts == HeaderCrcCovers \cup {"header_crc", "reserved", "session", "body"}

\* decode_frame: everything but the session is compared with something.
DecodeFrame(damaged) ==
    /\ damaged \notin HeaderCrcCovers \cup {"header_crc"}
    /\ damaged # "reserved"
    /\ damaged # "body"

EncodeFrame(fields) == ~IsRefused(fields) /\ Bytes(fields) <= kFramePayloadMaxBytes

(***************************************************************************)
(* Sending and receiving.                                                  *)
(***************************************************************************)
\* Where a payload ends that does not end where it should: before any of
\* its fields, or one byte too late.
Ends(fields) ==
    {Bytes(SubSeq(fields, 1, n)) : n \in 0 .. Len(fields) - 1} \cup {Bytes(fields) + 1}

\* held is what the coordinator at the other end has accepted so far.
Transmit(held, kind, value, legal, fields, size, damaged) ==
    /\ EncodeFrame(fields)
    /\ msg' = [kind |-> kind, value |-> value, legal |-> legal, damaged |-> damaged,
               payload |-> [fields |-> fields, size |-> size],
               whole |-> size = Bytes(fields)]
    /\ stage' = "sent" /\ live' = held
    /\ UNCHANGED <<got, answers, image>>

Send(held, kind, value, legal) ==
    LET fields == Write(Encoder[kind], value)
    IN  Transmit(held, kind, value, legal, fields, Bytes(fields), "none")
SendCut(held, kind, value) ==
    LET fields == Write(Encoder[kind], value)
    IN  \E size \in Ends(fields) : Transmit(held, kind, value, TRUE, fields, size, "none")
SendDamaged(held, kind, value, damaged) ==
    LET fields == Write(Encoder[kind], value)
    IN  Transmit(held, kind, value, TRUE, fields, Bytes(fields), damaged)

\* session_loop: a frame that does not decode closes the connection.
Refuse ==
    /\ stage = "sent" /\ ~DecodeFrame(msg.damaged)
    /\ stage' = "closed"
    /\ UNCHANGED <<msg, got, answers, live, image>>

Receive ==
    /\ stage = "sent" /\ DecodeFrame(msg.damaged)
    /\ got' = DecodePayload(msg.kind, msg.payload)
    /\ stage' = "received"
    /\ UNCHANGED <<msg, answers, live, image>>

(***************************************************************************)
(* Answering.                                                              *)
(***************************************************************************)
\* send_typed: a reply that cannot be encoded becomes an error; a reply that
\* encode_frame refuses is only counted.
SendTyped(kind, reply) ==
    LET fields == Write(Encoder[kind], reply)
    IN  CASE IsRefused(fields)   -> <<"error_response">>
          [] EncodeFrame(fields) -> <<kind>>
          [] OTHER               -> <<>>

\* validate_flow_group_plan, for the participants of the collective.
Constructible(plan, participants) ==
    /\ 0 \notin {plan.instance_id, plan.instance_generation, plan.instance_attempt,
                 plan.direction}
    /\ plan.edges # <<>>
    /\ \A i \in DOMAIN plan.edges :
         LET e == plan.edges[i]
         IN  /\ 0 \notin {e.source, e.destination, e.step} /\ e.source # e.destination
             /\ {e.source, e.destination} \subseteq {m.member : m \in Members(participants)}
             /\ \A j \in DOMAIN plan.edges :
                  i # j => \/ plan.edges[j].source # e.source
                          \/ plan.edges[j].destination # e.destination
                          \/ plan.edges[j].step # e.step

\* kCompleted, kCancelled, kRetired and kTimedOut.
Terminal == 5 .. 8

\* plan_flow_group and evaluate up to the flow group: the request and its plan
\* name the same instance, which is the current attempt of the current
\* generation of a live collective, and the plan can be constructed.  Whatever
\* evaluate goes on to decide, the record carries the group.
HasGroup(request) ==
    /\ request.has_plan = 1
    /\ request.plan.instance_id = request.instance_id
    /\ request.plan.instance_generation = request.instance_generation
    /\ request.plan.instance_attempt = request.instance_attempt
    /\ \E r \in Members(live.records) :
         /\ r.id = request.instance_id /\ r.generation = request.instance_generation
         /\ r.current_attempt # 0 /\ r.current_attempt = request.instance_attempt
         /\ r.state \notin Terminal
         /\ Constructible(request.plan, r.participants)

\* A decision that has the flow group carries the edges of the plan and their
\* ends, any other carries an empty one; an inspection is cut at half of what a
\* frame can hold.
Reply(kind, request, reply) ==
    IF kind = "plan_flow_group"
    THEN LET edges == IF HasGroup(request) THEN request.plan.edges ELSE <<>>
             ends  == CanonicalMembers(
                        [i \in 1 .. 2 * Len(edges) |->
                           [member |-> IF i <= Len(edges) THEN edges[i].source
                                       ELSE edges[i - Len(edges)].destination]])
         IN  [reply EXCEPT !.group.edges = edges, !.group.participants = ends]
    ELSE IF kind = "inspect_request" /\ reply.body.len > kFramePayloadMaxBytes \div 2
    THEN [reply EXCEPT !.body.len = kFramePayloadMaxBytes \div 2, !.truncated = 1]
    ELSE reply

\* Mutant: only the checksums are relied on.
AnySession == TRUE
\* on_frame: the session is compared with the connection's own before the
\* payload is looked at, unless the session is only being opened.
OwnSession == msg.kind = "hello" \/ msg.damaged # "session"

\* Mutant: no generation is minted for who states none.
AsStated(e, minted) == e
OrMinted(e, minted) == IF e.generation = 0 THEN [e EXCEPT !.generation = minted] ELSE e
Minted == 3

\* mutation_sequence_ of the catalog, incremented: the highest number is always
\* the last mutation of some record.
NextSequence ==
    LET used == {0} \cup {r.mutation_seq : r \in Members(live.records)}
    IN  CHOOSE n \in {u + 1 : u \in used} : \A u \in used : u < n

\* register_definition: a record of a new collective.
Record(d, sequence) ==
    [d EXCEPT !.registration_sequence = sequence]
      @@ [state |-> 1, current_attempt |-> 0, attempt_bytes |-> 0, attempt_seq |-> 0,
          registered_seq |-> sequence, mutation_seq |-> sequence, registered_ms |-> 1,
          mutated_ms |-> 1, ancestry |-> 1]

\* register_definition: another definition of a collective that has a record.
Advanced(old, d, sequence) ==
    [d EXCEPT !.generation = Minted, !.registration_sequence = sequence]
      @@ [old EXCEPT !.state = 1, !.registered_seq = sequence, !.mutation_seq = sequence,
                     !.mutated_ms = 2, !.current_attempt = 0, !.attempt_seq = 0,
                     !.ancestry = @ + 1]

\* definitions_equivalent.
Equivalent(old, d) ==
    \A f \in DOMAIN d \ {"generation", "registration_sequence"} : old[f] = d[f]

\* The catalog, in order of identity, after register_definition.
Registered(d) ==
    LET known == {i \in DOMAIN live.records : live.records[i].id = d.id}
        at    == CHOOSE i \in known : TRUE
        old   == live.records[at]
    IN  CASE ~ValidDefinition(d) -> live.records
          [] ValidDefinition(d) /\ known = {} ->
               IF Len(live.records) >= kCollectivesMaxLive THEN live.records
               ELSE SortedBy(Append(live.records, Record(OrMinted(d, Minted), NextSequence)),
                             IdOf)
          [] OTHER ->
               IF old.state \in Terminal \/ Equivalent(old, d) THEN live.records
               ELSE [live.records EXCEPT ![at] = Advanced(old, d, NextSequence)]

\* install_topology and install_policy, asked with a generation that was not
\* superseded before: only the one in force is refused.
Installed(part, stated) ==
    IF part # <<>> /\ part[1].generation = stated.generation THEN part ELSE <<stated>>

\* register_collective, ingest_topology and install_policy.
Applied(kind, value) ==
    LET body   == IF kind = "ingest_evidence" THEN value.evidence.body ELSE value
        asked  == IF kind = "ingest_evidence" THEN value.evidence.tag
                  ELSE IF kind = "install_policy" THEN 4 ELSE 0
        stated == OrMinted(body, Minted)
    IN  CASE kind = "register_collective" -> [live EXCEPT !.records = Registered(body)]
          [] asked = 3 /\ ValidTopology(stated) ->
               [live EXCEPT !.topology = Installed(@, stated)]
          [] asked = 4 /\ ValidPolicy(stated)   ->
               [live EXCEPT !.policy = Installed(@, stated)]
          [] OTHER -> live

Mutations == {"register_collective", "ingest_evidence", "install_policy"}

\* dispatch: a payload that did not decode is answered with an error.  What
\* the service itself refuses is answered like what it accepts.
Answer(reply) ==
    /\ stage = "received" /\ msg.kind \in Requests
    /\ stage' = IF OwnSession THEN "answered" ELSE "closed"
    /\ answers' = IF OwnSession /\ got.ok
                  THEN SendTyped(ReplyKind[msg.kind], Reply(msg.kind, got.val, reply))
                  ELSE <<"error_response">>
    /\ live' = IF OwnSession /\ got.ok /\ msg.kind \in Mutations
               THEN Applied(msg.kind, got.val) ELSE live
    /\ UNCHANGED <<msg, got, image>>

(***************************************************************************)
(* Saving and restarting.                                                  *)
(***************************************************************************)
Generation(part) == IF part = <<>> THEN 0 ELSE part[1].generation
Contents ==
    [format |-> 1, written_ms |-> 5, last_epoch |-> 2, restarts |-> 1,
     topology_generation |-> Generation(live.topology),
     policy_generation |-> Generation(live.policy),
     has_topology |-> Len(live.topology), has_policy |-> Len(live.policy),
     topology |-> IF live.topology = <<>> THEN <<>> ELSE live.topology[1],
     policy |-> IF live.policy = <<>> THEN <<>> ELSE live.policy[1],
     records |-> live.records]

Image(c) ==
    LET fields == Write(WriteSnapshot, c)
    IN  [fields |-> fields, size |-> Bytes(fields)]

\* What a snapshot may hold; nothing compares the catalog with it before a save.
WithinLimits(c) ==
    Len(c.records) <= kSnapshotCollectivesMax /\ Image(c).size <= kSnapshotBytesMax

\* encode_snapshot.
EncodeSnapshot(c) ==
    /\ c.has_policy = 1 => ValidPolicy(c.policy)
    /\ c.has_topology = 1 => ValidTopology(c.topology)
    /\ WithinLimits(c)
    /\ \A i \in DOMAIN c.records :
         /\ c.records[i].id # 0 /\ c.records[i].generation # 0
         /\ Len(c.records[i].participants) \in 1 .. kParticipantsMax
         /\ c.records[i].state # 0

Save ==
    /\ stage = "answered" /\ image = NoImage /\ msg.kind \in Mutations
    /\ EncodeSnapshot(Contents)
    /\ image' = Image(Contents)
    /\ UNCHANGED <<stage, msg, got, answers, live>>

\* What decode_snapshot and restore_durable ask of topology and policy.
AuthorityUsable(c) ==
    /\ c.format = 1
    /\ IF c.has_topology = 1
       THEN ValidTopology(c.topology) /\ c.topology.generation = c.topology_generation
       ELSE c.topology_generation = 0
    /\ IF c.has_policy = 1
       THEN ValidPolicy(c.policy) /\ c.policy.generation = c.policy_generation
       ELSE c.policy_generation = 0

Acceptable(r) == ValidDefinition(r) /\ r.generation # 0 /\ r.state # 0

\* Mutant: a load keeps what it can use.
LoadedInPart(records) ==
    LET usable(r) == Acceptable(r) IN SortedBy(SelectSeq(records, usable), IdOf)
\* CollectiveCatalog::load into an empty catalog.
Loaded(records) ==
    IF /\ Len(records) <= kCollectivesMaxLive
       /\ \A r \in Members(records) : Acceptable(r)
       /\ \A i, j \in DOMAIN records : records[i].id = records[j].id => i = j
    THEN SortedBy(records, IdOf) ELSE <<>>

Part1(flag, part) == IF flag = 1 THEN <<part>> ELSE <<>>
\* What a new process holds after restore: the authority is in force before the
\* catalog is loaded, and stays so when the catalog is refused.
Restored(i) ==
    LET r == Decode(ReadSnapshot, i)
    IN  IF i.size <= kSnapshotBytesMax /\ r.ok /\ AuthorityUsable(r.val)
        THEN [topology |-> Part1(r.val.has_topology, r.val.topology),
              policy |-> Part1(r.val.has_policy, r.val.policy),
              records |-> Loaded(r.val.records)]
        ELSE NothingHeld

Restart ==
    /\ stage = "answered" /\ image # NoImage
    /\ live' = Restored(image)
    /\ stage' = "closed"
    /\ UNCHANGED <<msg, got, answers, image>>

\* A coordinator starts from a snapshot of another build.
StartFrom(c) ==
    /\ image' = Image(c)
    /\ live' = Restored(image')
    /\ stage' = "closed"
    /\ UNCHANGED <<msg, got, answers>>

Finished ==
    \/ stage = "closed"
    \/ stage = "received" /\ msg.kind \notin Requests
    \/ stage = "answered" /\ (msg.kind \notin Mutations \/ ~EncodeSnapshot(Contents))
Done == Finished /\ UNCHANGED vars

Init ==
    /\ stage = "idle" /\ msg = NoMessage /\ got = Nothing /\ answers = <<>>
    /\ live = NothingHeld /\ image = NoImage

Sending ==
    \E held \in Lives, kind \in Kinds :
       \/ \E value \in Legal[kind] : Send(held, kind, value, TRUE)
       \/ \E value \in Illegal[kind] : Send(held, kind, value, FALSE)
       \/ \E value \in Sample[kind] : SendCut(held, kind, value)
       \/ \E value \in Sample[kind], part \in FrameParts :
            SendDamaged(held, kind, value, part)

Next ==
    \/ stage = "idle" /\ (Sending \/ \E c \in Found : StartFrom(c))
    \/ Refuse \/ Receive
    \/ stage = "received" /\ msg.kind \in Requests
         /\ \E reply \in Sample[ReplyKind[msg.kind]] : Answer(reply)
    \/ Save \/ Restart \/ Done

Spec == Init /\ [][Next]_vars

(***************************************************************************)
(* Properties.                                                             *)
(***************************************************************************)
Meant(entries) ==     \* the last value stated for a key is the one meant
    [k \in {e.key : e \in Members(entries)} |->
        LET last == CHOOSE i \in DOMAIN entries :
                      /\ entries[i].key = k
                      /\ \A j \in DOMAIN entries : entries[j].key = k => j <= i
        IN  entries[last].value]
Owned(d) == [d EXCEPT !.pacing_flow_group = d.flow_group, !.pacing_id = d.instance_id,
                      !.pacing_generation = d.instance_generation,
                      !.pacing_attempt = d.instance_attempt]
\* Equal up to the order of what the receiver sorts.
SameMessage(kind, a, b) ==
    CASE kind = "register_collective" ->
           /\ Members(a.participants) = Members(b.participants)
           /\ Members(a.phases) = Members(b.phases) /\ Members(a.steps) = Members(b.steps)
           /\ Meant(a.metadata) = Meant(b.metadata)
           /\ \A f \in DOMAIN a \ {"participants", "phases", "steps", "metadata"} :
                a[f] = b[f]
      [] kind = "ingest_evidence" ->
           /\ a.evidence.tag = b.evidence.tag
           /\ LET x == a.evidence.body
                  y == b.evidence.body
              IN  \A f \in DOMAIN x :
                     IF f \in {"nodes", "links"} THEN Members(x[f]) = Members(y[f])
                                                ELSE x[f] = y[f]
      [] kind = "flow_group_decision" -> a = Owned(b)
      [] kind = "explain_response" -> a = [b EXCEPT !.decision = Owned(@)]
      [] OTHER -> a = b

Intact == msg.whole /\ msg.damaged \in {"none", "session"}

\* Encoders and decoders agree field by field, nested lists, optional parts
\* and tagged unions included: a value within every limit, at the limits too,
\* is accepted and means what was sent; a decision's pacing intent comes back
\* under the decision's own flow group and instance.  A value over one limit,
\* and a payload that ends before or after its last field, are refused as a
\* whole: no prefix of a message is a message.  A definition that states a
\* metadata key twice counts as legal, with the value stated last, because that is
\* what the code does: Metadata::set overwrites, and the refusal at
\* protocol.cpp:539-540, "metadata carries a duplicate key", is not reached.  Of
\* fields that neither side carries (attempt_sequence of a group's and a pacing
\* intent's instance) nothing is said.
DecodesExactlyTheLegal ==
    stage = "received" =>
       /\ Intact /\ msg.legal => got.ok
       /\ got.ok => msg.whole /\ msg.legal /\ SameMessage(msg.kind, got.val, msg.value)

\* The session stands outside both checksums of a frame.  A frame damaged
\* anywhere, there too, never changes state or gets more than an error; only
\* a hello, which names no session yet, may be served.
DamagedNeverServed ==
    [][msg.damaged # "none" /\ msg.kind # "hello" =>
         answers' \in {<<>>, <<"error_response">>} /\ live' = live]_vars

\* Whatever a peer got accepted, encode_snapshot accepts as long as the catalog
\* fits a snapshot, since one definition, topology or policy it refused would stop
\* every later save; and a restart finds all of it as it was, though the two
\* formats have encoders, decoders and limits of their own.  A catalog may
\* outgrow the snapshot: register_definition admits kCollectivesMaxLive
\* collectives of any total size, and past kSnapshotCollectivesMax of them or
\* kSnapshotBytesMax every save is refused while requests are still acknowledged.
AcceptedSurvivesRestart ==
    stage = "answered" /\ WithinLimits(Contents) =>
        EncodeSnapshot(Contents) /\ Restored(Image(Contents)) = live

\* README.md:212-213: "CollectiveCatalog::load validates an entire batch before it
\* replaces anything".  After a start the catalog holds all the records of the
\* snapshot or none, and never any without the topology and policy saved with
\* them.  The converse fails, against README.md:211-212 ("rejected without partial
\* application"): restore installs topology and policy first, and they stay in
\* force when load refuses the records.
RecordsComeBackWhole ==
    stage = "closed" /\ image # NoImage /\ live.records # <<>> =>
        LET saved == Decode(ReadSnapshot, image).val
        IN  /\ Len(live.records) = Len(saved.records)
            /\ Members(live.records) = Members(saved.records)
            /\ live.topology = Part1(saved.has_topology, saved.topology)
            /\ live.policy = Part1(saved.has_policy, saved.policy)

\* README.md:43, protocol.hpp:201: every request is answered.
EveryRequestAnswered == stage = "answered" => Len(answers) = 1
=============================================================================
