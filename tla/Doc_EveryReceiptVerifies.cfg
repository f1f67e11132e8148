\* Two probes of one type, bound to one scenario: equal proofs in the other.
SPECIFICATION Spec
CONSTANTS
    NumScenarios = 2
    NumProbes = 2
    Types = {confirm, retry}
    None = None
INVARIANTS
    EveryReceiptVerifies
CHECK_DEADLOCK FALSE
