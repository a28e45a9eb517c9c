CONSTANTS
    Null = Null
    Profiles = {p1}
    Jobs = {j1}
    MaxLooks = 3
SPECIFICATION Spec
CHECK_DEADLOCK FALSE
INVARIANT ExercisesTellWalls
