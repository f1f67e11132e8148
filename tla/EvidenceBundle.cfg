SPECIFICATION Spec
CONSTANTS
    Clients = {c1, c2}
    MaxEntries = 7
    MaxOverlaps = 1
    MaxBindings = 2
    MaxClock = 1
    MaxCrashes = 1
    None = None
CONSTRAINT StopOrOverlap
INVARIANTS
    AuditIsAChain
    TableFollowsLedger
    BundleTellsTheEvidence
    SignedStaysOnDisk
SYMMETRY Symmetry
CHECK_DEADLOCK FALSE
