\* Two scenarios, two probes of two types: every spec, every finding.
SPECIFICATION Spec
CONSTANTS
    NumScenarios = 2
    NumProbes = 2
    Types = {confirm, retry}
    None = None
INVARIANTS
    PassMeansEveryCellHolds
    VerdictIsCalledFor
    DistinctProofsVerify
CHECK_DEADLOCK FALSE
