CONSTANTS
    Null = Null
    Profiles = {p1}
    Jobs = {j1, j2}
    MaxLooks = 3
SPECIFICATION FairSpec
CHECK_DEADLOCK FALSE
INVARIANTS TypeOK OneBrowserPerAccount
PROPERTIES WallsStopWork SessionsEnd
