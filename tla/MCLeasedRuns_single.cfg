CONSTANTS
    group = group
    exercise = exercise
    tool = tool
    check = check
    Null = Null
    Kinds = {"GROUP", "EXERCISE", "ACCESS"}
    Kind <- MCKind
    Profiles = {p1, p2}
    Runs = {r1}
    Workers = {tool, exercise, check, group}
    Leases = {l1, l2}
    Operators = {o1}
    MaxPayloads = 1
    Misdirected = TRUE
    Signalled = {check}
    Mortal = {tool}
CHECK_DEADLOCK FALSE
SPECIFICATION FairSpec
INVARIANTS TypeOK BrowsesUnderLease RecordTellsLease
PROPERTIES ImplementsLifecycle ClaimedRunsEnd
