SPECIFICATION FairSpec
CHECK_DEADLOCK FALSE
CONSTANTS
    None = None
    Runs = {r1, r2, r3}
    Workers = {w1, w2}
    Clients = {c1, c2}
    MaxActive = 1
    MaxCrashes = 1
    Outcomes <- TwoOutcomes
INVARIANT RunningIsOwned
INVARIANT VerdictIsBacked
INVARIANT QuotaOvershoot
PROPERTY VerdictIsFinal
PROPERTY AwaitedRunsFinish
PROPERTY InterruptedRunsFinish
