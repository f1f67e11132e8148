SPECIFICATION FairSpec
CONSTANTS
    None = None
    Unapproved = Unapproved
    Oids = {o1, o2}
    Approvals = {a1}
    Threads = {t1, t2}
    MaxRetries = 1
INVARIANT OneOrderPerRun
INVARIANT EvidenceIsTrue
INVARIANT AnswersAreBacked
PROPERTY LockIsReleased
