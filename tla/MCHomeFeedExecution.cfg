CONSTANTS
    Null = Null
    Profiles = {p1, p2}
    Runs = {r1, r2}
    Workers = {w1, w2}
    Leases = {l1, l2}
    Operators = {o1}
    MaxPosts = 1
    Misdirected = TRUE
    Signalled = {w1}
    Mortal = {w2}
SPECIFICATION FairSpec
CHECK_DEADLOCK FALSE
INVARIANTS TypeOK OneWorkerPerProfile VerdictTellsLease
PROPERTIES ImplementsLifecycle ClaimedRunsEnd QueuedRunsTaken
