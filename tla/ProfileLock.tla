---------------------------- MODULE ProfileLock -----------------------------
(***************************************************************************)
(* What leasing promises to the workers that operate profiles: a profile   *)
(* is held under at most one lease, and a lease that was closed never      *)
(* holds a profile again.                                                  *)
(***************************************************************************)
CONSTANTS Profiles, Leases

VARIABLES held,    \* pairs <<profile, lease>>
          closed   \* leases that were released

vars == <<held, closed>>

Init == held = {} /\ closed = {}

Acquire(p, l) ==
    /\ \A m \in Leases : <<p, m>> \notin held
    /\ \A q \in Profiles : <<q, l>> \notin held
    /\ l \notin closed
    /\ held' = held \cup {<<p, l>>}
    /\ UNCHANGED closed

Release(p, l) ==
    /\ <<p, l>> \in held
    /\ held' = held \ {<<p, l>>}
    /\ closed' = closed \cup {l}

Next == \E p \in Profiles, l \in Leases : Acquire(p, l) \/ Release(p, l)

Spec == Init /\ [][Next]_vars
=============================================================================
