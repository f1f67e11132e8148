SPECIFICATION Spec
CONSTANTS
    None = None
    author = author
    manager = manager
    token = token
    People = {author, manager, token}
    TokenHolders = {author, token}
    Legacy = token
    Creator = author
    Threads = {t1, t2}
    Keys = {k1}
    Configs <- ThreeConfigs
    SessionTTL = 1
    ApprovalTTL = 1
    MaxTime = 2
    MaxApprovals = 2
    MaxRestarts = 1
SYMMETRY ThreadSymmetry
INVARIANT OrdersAreAuthorised
INVARIANT RolesAreRecent
INVARIANT KeysTellTheirOrder
