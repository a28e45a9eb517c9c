CONSTANTS
    group = group
    exercise = exercise
    tool = tool
    check = check
    Null = Null
    Kinds = {"EXERCISE", "ACCESS"}
    Kind <- MCKind
    Profiles = {p1, p2}
    Runs = {r1, r2}
    Workers = {check, exercise}
    Leases = {l1, l2}
    Operators = {o1}
    MaxPayloads = 1
    Misdirected = TRUE
    Signalled = {check}
    Mortal = {check}
CHECK_DEADLOCK FALSE
SPECIFICATION Spec
INVARIANTS BrowsesUnderLease AccessIsCurrent
SYMMETRY Symmetry
