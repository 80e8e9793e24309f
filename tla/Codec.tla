-------------------------------- MODULE Codec --------------------------------
(* The payload codec of the wire protocol and the snapshot format: Writer  *)
(* and Reader over layouts.  Encoders and decoders have layouts of their   *)
(* own, because in the code nothing ties the two together.                 *)
EXTENDS Fields

CONSTANTS
    kLabelBytesMax, kReasonDetailBytesMax, kReasonCodeBytesMax,
    kMetadataKeyBytesMax, kMetadataValueBytesMax,      \* string bounds
    kParticipantsMax, kEdgesMax, kPhasesMax, kStepsMaxPerPhase,
    kMetadataEntriesMax,
    kReasonChainMax, kTopologyNodesMax, kTopologyLinksMax, kPoliciesMax,
    kSnapshotCollectivesMax, kCollectivesMaxLive,      \* collection bounds
    kSnapshotBytesMax,                                 \* of an encoded snapshot
    kBucketCount,                                      \* congestion buckets
    kFramePayloadMaxBytes, kInspectionPageMax, kLastErrorCode

kStepsMax == kPhasesMax * kStepsMaxPerPhase

\* The deepest message is an explain_response: the decision in it holds a flow
\* group, which holds a list of edges.  Nothing lies below the fourth level.
WriteNone(layout, v) == Refused
ReadNone(layout, p, r) == Failed(r)
Level1 == INSTANCE Level WITH WriteSub <- WriteNone, ReadSub <- ReadNone
Level2 == INSTANCE Level WITH WriteSub <- Level1!Write, ReadSub <- Level1!Read
Level3 == INSTANCE Level WITH WriteSub <- Level2!Write, ReadSub <- Level2!Read
Level4 == INSTANCE Level WITH WriteSub <- Level3!Write, ReadSub <- Level3!Read

Write(layout, v) == Level4!Write(layout, v)
\* decode_one: a payload is accepted only when it was read to its end.
Decode(layout, p) ==
    LET r == Level4!Read(layout, p, Start)
    IN  [ok |-> r.ok /\ r.off = p.size, val |-> r.val]
=============================================================================
