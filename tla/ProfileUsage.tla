---------------------------- MODULE ProfileUsage ----------------------------
(***************************************************************************)
(* What the rows of ProfileLease account for.  These properties relate a   *)
(* profile to the leases it was granted so far and to the request that     *)
(* changes it.  They hold for a profile until a request overwrites what    *)
(* another one saved of it, which loses sessions and minutes.              *)
(***************************************************************************)
EXTENDS ProfileLease, FiniteSetsExt

LeasesOf(p) == {l \in Leases : lease[l].profile = p}

StartedOn(p, date) ==
    {l \in LeasesOf(p) : LocalDate(profile[p], lease[l].leasedAt) = date}

ClosedOn(p, date) ==
    {l \in LeasesOf(p) \cap Closed :
        LocalDate(profile[p], lease[l].released) = date}

\* The least number of whole minutes that covers a closed lease
Charged(l) ==
    LET duration == lease[l].released - lease[l].leasedAt
    IN  Min({m \in 0 .. duration : m * TicksPerMinute >= duration})

MinutesOn(p, date) == MapThenSumSet(Charged, ClosedOn(p, date))

\* Unless a save was overwritten, the daily counters, which eligibility trusts,
\* equal what the leases of that local day say: the sessions started and the minutes
\* that cover each of the closed ones, and a new day starts from zero.
UsageAccounted ==
    \A p \in Profiles \ overwritten :
        LET used == profile[p].usage
        IN  used.date # NoTime =>
              /\ used.sessions = Cardinality(StartedOn(p, used.date))
              /\ used.minutes = MinutesOn(p, used.date)

WithinDay(p, date) ==
    LET limit == profile[p].config.thresholds IN
    /\ Cardinality(StartedOn(p, date)) <= limit.sessions
    /\ MinutesOn(p, date) <= 2 * limit.minutes - 1

Apart(p, first, second) ==
    /\ first \in Closed
    /\ lease[first].released + Cooldown(profile[p]) <= lease[second].leasedAt

\* Unless a save was overwritten, a profile starts no more sessions on a day than
\* its threshold and is charged fewer minutes than twice its threshold (the last
\* lease may start just below it and last as long), and its cooldown lies between
\* two of its leases.
LimitsHonoured ==
    \A p \in Profiles \ overwritten :
        /\ LeasesOf(p) # {} =>
              \A t \in 0 .. now : WithinDay(p, LocalDate(profile[p], t))
        /\ \A l, m \in LeasesOf(p) : l # m => Apart(p, l, m) \/ Apart(p, m, l)
=============================================================================
