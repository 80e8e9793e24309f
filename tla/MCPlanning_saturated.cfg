SPECIFICATION PlanningSpec
CONSTANTS
    None = None
    Word = 65536
    EdgesMax = 3
    TopologyMaxAge = 1
    CapacityMaxAge = 1
    CongestionMaxAge = 1
    Correlation = {1}
    Capacities = {0, 2}
    MaxDecisions = 1
    Participants = {1, 2}
    Attempts = {"a", "b"}
    Definitions <- MCDefinitions
    PolicyOf <- MCPolicyOf
    TopologyOf <- MCTopologyOf
    CapacityOf <- MCCapacityOf
    CongestionOf <- MCCongestionOf
    NodeOf <- MCNodeOf
    Requests <- MCRequests
    Starts <- MCStarts
    Ttl = 2
    MaxTime = 2
    MaxEpoch = 2
    MaxChanges = 2
INVARIANT SaturationIsRespected
CHECK_DEADLOCK FALSE
