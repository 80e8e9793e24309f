SPECIFICATION Spec
CONSTANTS
    Collective = {c1, c2, c3}
    Definition = {d1, d2}
    Attempt = {a1}
    GivenGen = {g1}
    None = None
    Capacity = 2
    MaxSeq = 4
    MaxBoots = 1
SYMMETRY Interchangeable
CHECK_DEADLOCK FALSE
INVARIANTS
    MutationsTotallyOrdered
    DurablyTerminalIsForever
    AttemptOfThisGeneration
    GenerationNamesOneDefinition
