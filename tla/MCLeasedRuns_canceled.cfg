CONSTANTS
    group = group
    exercise = exercise
    tool = tool
    check = check
    Null = Null
    Kinds = {"GROUP"}
    Kind <- MCKind
    Profiles = {p1}
    Runs = {r1}
    Workers = {group}
    Leases = {l1}
    Operators = {o1}
    MaxPayloads = 1
    Misdirected = FALSE
    Signalled = {}
    Mortal = {}
CHECK_DEADLOCK FALSE
SPECIFICATION Spec
PROPERTY AllowedTransitions
