SPECIFICATION Spec
CONSTANTS
    Decision <- MCDecision
    Correlation = {1, 2}
    Capacities = {0, 2, 3}
    PageLimit = 2
    None = None
    MaxDecisions = 4
INVARIANTS
    AnswersFromTheLog
    CorrelationNeverMisleads
    PagingMissesNothing
