\* Two services of one thread and one request each.
SPECIFICATION Spec
CONSTANTS
    Services = {a, b}
    Workers = {w}
    Clients = {c}
    Jobs = {j}
    Runs = {r}
    MaxStops = 1
    MaxEvents = 2
    None = None
INVARIANTS
    JobsRunOnce
    LedgersAreChains
    RunsAreExclusive
PROPERTIES
    OnlyEndedRunsArePruned
SYMMETRY ServiceSymmetry
CHECK_DEADLOCK FALSE
