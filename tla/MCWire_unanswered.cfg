SPECIFICATION Spec
CONSTANTS
    kLabelBytesMax = 3
    kReasonDetailBytesMax = 4
    kReasonCodeBytesMax = 2
    kMetadataKeyBytesMax = 2
    kMetadataValueBytesMax = 3
    kParticipantsMax = 2
    kEdgesMax = 30
    kPhasesMax = 2
    kStepsMaxPerPhase = 2
    kMetadataEntriesMax = 2
    kReasonChainMax = 2
    kTopologyNodesMax = 2
    kTopologyLinksMax = 2
    kPoliciesMax = 2
    kSnapshotCollectivesMax = 2
    kCollectivesMaxLive = 3
    kSnapshotBytesMax = 820
    kBucketCount = 2
    kFramePayloadMaxBytes = 2000
    kInspectionPageMax = 5
    kLastErrorCode = 6
    Legal <- MCLegal
    Illegal <- MCIllegal
    Sample <- MCSample
    Lives <- MCLives
    Found <- MCFound
INVARIANT
    EveryRequestAnswered
