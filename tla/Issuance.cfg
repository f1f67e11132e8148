SPECIFICATION Spec
CHECK_DEADLOCK FALSE
CONSTANTS
    None = None
    Rejected = Rejected
    Dirs = {d1, d2}
    Candidates = {c1, c2}
    Receipts <- AllReceipts
    Runs = {p1, p2}
    MaxBegun = 3
    MaxSigned = 1
    MaxFaults = 1
SYMMETRY Symmetry
INVARIANT VerifiedIsFirst
INVARIANT OneEntryEach
INVARIANT ArtifactsAreOfOneRun
INVARIANT ChainsAreSigned
PROPERTY RegistrySpec
