SPECIFICATION FairSpec
CHECK_DEADLOCK FALSE
CONSTANTS
    None = None
    Jobs = {j1, j2}
    Keys = {}
    Clients = {c1}
    Workers = {w1}
    MaxCrashes = 1
    MaxFaults = 1
    MaxEvents = 3
INVARIANT CancelRequestsAreHonoured
INVARIANT EventsFollowRows
PROPERTY ContractSpec
PROPERTY JobsEnd
