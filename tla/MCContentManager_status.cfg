CONSTANTS
    Externals = {e1}
    Promotable = {e1}
    Posts = {x1}
    Names = {n1}
    Routes = {route1}
    DirectRoute = direct
    Requests = {r1, r2}
    Times = {1, 2}
    Null = null
    Legacy = {e1}
    MaxRequests = 4
SPECIFICATION Spec
SYMMETRY Symmetry
CHECK_DEADLOCK FALSE
PROPERTIES
    StatusNeverReturns
