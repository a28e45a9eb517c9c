SPECIFICATION Spec
CONSTANTS
    Profiles = {p1}
    Groups = {g1}
    Leases = {l1, l2}
    Tokens = {t1}
    Fingerprints = {f1}
    Ops = {o1, o2}
    Null = Null
    DayTicks = 3
    TicksPerMinute = 2
    TokenTTL = 2
    MaxTime = 3
    Requests = {"CREATE", "CONFIGURE", "STAGE", "PROVISION", "INGEST", "ACCESS", "CHECKOUT", "RELEASE"}
    Purposes = {"ASSISTED_GROUP_ACCESS"}
    Patches <- MCPatches
    Targets = {"WARMING"}
    SessionEnds = {9}
    MacroCounts = {1}
    Provisioned = {}
    ProvisionedConfig <- MCConfig
    ProvisionedFingerprint <- MCFingerprint
    ProvisionedSession = 9
    DuplicateReleases = TRUE
SYMMETRY RequestSymmetry
INVARIANTS TypeOK RowsConsistent UsageAccounted LimitsHonoured BusyIffLeased
PROPERTY ImplementsLock
CHECK_DEADLOCK FALSE
