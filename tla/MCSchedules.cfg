SPECIFICATION FairSpec
CONSTANTS
    Groups = {g1}
    Profiles = {p1}
    GroupSchedulers = {s1, s2}
    FeedSchedulers = {f1, f2}
    Operators = {o1}
    Null = Null
    Intervals = {2}
    Starts = {0}
    MaxTime = 3
    MaxSaves = 2
    MaxManual = 1
    Deployments = {{s1, s2}, {f1, f2}}
    Mortal = {s2, f2}
INVARIANTS TypeOK MissedBoundariesCollapse OnCadence
PROPERTY DueSchedulesAdvance
CHECK_DEADLOCK FALSE
