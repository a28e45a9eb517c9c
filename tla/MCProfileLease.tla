--------------------------- MODULE MCProfileLease ---------------------------
(* A small instance of ProfileLease: minutes of two ticks, leases of two     *)
(* minutes, and one session a day. *)
EXTENDS ProfileUsage, TLC

WholeDay == 0 .. DayTicks - 1

Routine1 == [open |-> WholeDay, offset |-> 0, cooldown |-> 1]
Limits == [cooldown |-> 0, sessions |-> 1, minutes |-> 2, macros |-> 2]

MCConfig == [network |-> TRUE, topics |-> TRUE,
             routine |-> Routine1, thresholds |-> Limits]

NoPatch == [network |-> Null, topics |-> Null, routine |-> Null,
            thresholds |-> Null, fingerprint |-> Null]

\* The body that completes the configuration of a new profile
FullPatches ==
    {[network |-> TRUE, topics |-> TRUE, routine |-> Routine1,
      thresholds |-> Limits, fingerprint |-> f] : f \in Fingerprints}

\* ... and one that only touches what every profile has
TopicPatch == [NoPatch EXCEPT !.topics = TRUE]
MCPatches == FullPatches \cup {TopicPatch}

MCFingerprint == CHOOSE f \in Fingerprints : TRUE

RequestSymmetry == Permutations(Leases) \cup Permutations(Ops)
=============================================================================
