CONSTANTS
    Externals = {e1, e2}
    Promotable = {e1}
    Posts = {x1}
    Names = {n1, n2}
    Routes = {route1}
    DirectRoute = direct
    Requests = {r1, r2}
    Times = {1, 2}
    Null = null
    Legacy = {e2}
    MaxRequests = 4
SPECIFICATION Spec
SYMMETRY Symmetry
CHECK_DEADLOCK FALSE
INVARIANTS
    TypeOK
    ObservationsKept
    DefaultRouteKept
    AlwaysIngestible
PROPERTIES
    NothingTakenBack
