---------------------------- MODULE MCLeasedRuns ----------------------------
EXTENDS LeasedRuns, TLC

CONSTANTS group, exercise, tool, check

\* At most one process of each kind
MCKind == [w \in Workers |->
             CASE w = group -> "GROUP" [] w = exercise -> "EXERCISE"
               [] w = tool -> "TOOL" [] w = check -> "ACCESS"]

\* No definition tells runs, leases or profiles apart
Symmetry == Permutations(Runs) \cup Permutations(Leases) \cup Permutations(Profiles)
=============================================================================
