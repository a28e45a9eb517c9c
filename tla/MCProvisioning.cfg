CONSTANTS
    p1 = p1
    t1 = t1
    t2 = t2
    Profiles = {p1}
    Tools = {t1, t2}
    Mortal = {t1}
    MaxTokens = 2
SPECIFICATION FairSpec
CHECK_DEADLOCK FALSE
INVARIANTS TypeOK ReportTellsSession HealthyAfterWall
PROPERTY ToolsEnd
