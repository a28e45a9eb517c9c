---------------------------- MODULE ProfileLease ----------------------------
(***************************************************************************)
(* The Collector Profile Manager: profile rows, profile leases and profile *)
(* source access in the database, and the API requests that read and write *)
(* them.  A request is served in several database calls; between two calls *)
(* of one request any other request may run.  Checkout and release run in  *)
(* a READ COMMITTED transaction, so what they read may be stale when they  *)
(* commit; every other request saves without a transaction.  A save writes *)
(* the WHOLE profile row that was computed from the row read before.       *)
(*                                                                         *)
(* Time is counted in ticks from 0, TicksPerMinute of them in a minute:    *)
(* cooldowns, offsets and the windows of a day are given in ticks, while   *)
(* the daily counter of minutes and its threshold count whole minutes.  A  *)
(* session is the tick at which it expires, 0 when none was captured.      *)
(***************************************************************************)
EXTENDS Integers, FiniteSets

CONSTANTS
    Profiles, Groups, Leases, Tokens, Fingerprints,
    Ops,                 \* requests being served at the same time
    Null,
    DayTicks,            \* ticks of a local day
    TicksPerMinute,
    TokenTTL,            \* PROVISIONING_TOKEN_TTL_MS
    MaxTime,             \* bound on the clock
    Requests,            \* the kinds of request the instance issues
    Purposes,            \* the lease purposes the instance checks out
    Patches,             \* bodies of configuration updates
    Targets,             \* account stages the operator asks for
    SessionEnds,         \* sessionExpiresAt of ingested sessions
    MacroCounts,         \* macroActionsPerformed of releases
    Provisioned,         \* profiles that are READY when the API starts
    ProvisionedConfig, ProvisionedFingerprint, ProvisionedSession,
    DuplicateReleases    \* FALSE when a lease has one holder that releases it

NoTime == -1

Statuses == {"PENDING_CONFIG", "PENDING_LOGIN", "READY", "BUSY"}
Stages == {"NEW_ACCOUNT", "WARMING", "COLLECTION_READY", "LIMITED",
           "NEEDS_REVIEW", "RETIRED"}
Healths == {"NOT_PROVISIONED", "HEALTHY", "REAUTH_REQUIRED",
            "CHECKPOINT_REVIEW_REQUIRED"}
Observations == {"NONE", "LOGIN_REQUIRED", "CHECKPOINT_REQUIRED"}
AllPurposes == {"COLLECTION", "AMBIENT_EXERCISE", "ASSISTED_GROUP_ACCESS",
                "HOME_FEED_COLLECTION"}
AllRequests == {"CREATE", "CONFIGURE", "STAGE", "PROVISION", "INGEST",
                "ACCESS", "CHECKOUT", "RELEASE"}
Writers == {"CREATE", "CONFIGURE", "STAGE", "PROVISION", "INGEST"}

\* temporalRoutine: the ticks of the local day its windows cover, the
\* distance of its timezone from UTC and its cooldown.  No open tick stands
\* for a missing timezone or window too.
Routine == [open : SUBSET (0 .. DayTicks - 1), offset : Nat, cooldown : Nat]
Thresholds == [cooldown : Nat, sessions : Nat, minutes : Nat, macros : Nat]
Config == [network : BOOLEAN, topics : BOOLEAN,
           routine : Routine, thresholds : Thresholds]
Patch == [network : BOOLEAN \cup {Null}, topics : BOOLEAN \cup {Null},
          routine : Routine \cup {Null}, thresholds : Thresholds \cup {Null},
          fingerprint : Fingerprints \cup {Null}]
Token == [status : {"NOT_ISSUED", "ISSUED", "CONSUMED"},
          id : Tokens \cup {Null}, expires : Nat]
Usage == [date : Nat \cup {NoTime}, sessions : Nat, minutes : Nat, macros : Nat]
ProfileRow == [status : Statuses \cup {"ABSENT"}, stage : Stages,
               health : Healths, token : Token, session : Nat, config : Config,
               fingerprint : Fingerprints \cup {Null}, usage : Usage,
               nextAvailable : Nat \cup {NoTime},
               lastReleased : Nat \cup {NoTime}]
LeaseRow == [status : {"NONE", "ACTIVE", "RELEASED"},
             profile : Profiles \cup {Null}, purpose : AllPurposes \cup {Null},
             leasedAt : Nat, expires : Nat, released : Nat \cup {NoTime}]
Op == [step : {"IDLE", "BEGUN", "LOADED"},
       request : AllRequests \cup {Null}, at : Nat,
       purpose : AllPurposes \cup {Null}, access : SUBSET Profiles,
       profile : Profiles \cup {Null}, lease : Leases \cup {Null},
       row : ProfileRow]

ASSUME NullAssumption ==
    Null \notin Profiles \cup Leases \cup Tokens \cup Fingerprints \cup AllRequests
ASSUME TimeAssumption ==
    /\ {DayTicks, TicksPerMinute} \subseteq Nat \ {0}
    /\ TokenTTL \in Nat /\ MaxTime \in Nat
ASSUME RequestAssumption ==
    /\ Requests \subseteq AllRequests
    /\ Purposes \subseteq AllPurposes
    /\ DuplicateReleases \in BOOLEAN
ASSUME InputAssumption ==
    /\ Patches \subseteq Patch /\ Targets \subseteq Stages
    /\ SessionEnds \subseteq Nat \ {0}
    /\ MacroCounts \subseteq Nat
ASSUME ProvisionedAssumption ==
    /\ Provisioned \subseteq Profiles
    /\ ProvisionedConfig \in Config
    /\ ProvisionedFingerprint \in Fingerprints
    /\ ProvisionedSession \in Nat \ {0}

VARIABLES
    now, profile, lease, access, minted, op,
    fresh,               \* history: requests of which no row they read was saved since
    overwritten          \* history: profiles a request saved that was not fresh any more

vars == <<now, profile, lease, access, minted, op, fresh, overwritten>>
history == <<fresh, overwritten>>

-----------------------------------------------------------------------------
(* Rows *)

UnusedDay == [date |-> NoTime, sessions |-> 0, minutes |-> 0, macros |-> 0]

NewRow ==
    [status |-> "PENDING_CONFIG", stage |-> "NEW_ACCOUNT",
     health |-> "NOT_PROVISIONED",
     token |-> [status |-> "NOT_ISSUED", id |-> Null, expires |-> 0],
     session |-> 0,
     config |->
        [network |-> FALSE, topics |-> FALSE,
         routine |-> [open |-> {}, offset |-> 0, cooldown |-> 0],
         thresholds |-> [cooldown |-> 0, sessions |-> 0, minutes |-> 0,
                         macros |-> 0]],
     fingerprint |-> Null, usage |-> UnusedDay,
     nextAvailable |-> NoTime, lastReleased |-> NoTime]

AbsentRow == [NewRow EXCEPT !.status = "ABSENT"]

ProvisionedRow ==
    [NewRow EXCEPT !.status = "READY", !.stage = "COLLECTION_READY",
                   !.health = "HEALTHY", !.session = ProvisionedSession,
                   !.token = [status |-> "CONSUMED", id |-> Null, expires |-> 0],
                   !.config = ProvisionedConfig,
                   !.fingerprint = ProvisionedFingerprint]

NoLease == [status |-> "NONE", profile |-> Null, purpose |-> Null,
            leasedAt |-> 0, expires |-> 0, released |-> NoTime]

IdleOp == [step |-> "IDLE", request |-> Null, at |-> 0, purpose |-> Null,
           access |-> {}, profile |-> Null, lease |-> Null, row |-> AbsentRow]

-----------------------------------------------------------------------------
(* Domain rules *)

LocalDate(row, t) == (t + row.config.routine.offset) \div DayTicks
LocalTime(row, t) == (t + row.config.routine.offset) % DayTicks

\* Mutant: the counters of yesterday are carried over
UsageCarriedOver(row, date) == [row.usage EXCEPT !.date = date]

\* getDailySafetyUsageForDate: yesterday's counters read as zero
UsageOn(row, date) ==
    IF row.usage.date = date THEN row.usage ELSE [UnusedDay EXCEPT !.date = date]

Later(a, b) == IF a >= b THEN a ELSE b

Cooldown(row) ==
    Later(row.config.routine.cooldown, row.config.thresholds.cooldown)

\* Mutant: the cooldown is not added to the last release
CooldownForgotten(row) == row.lastReleased

CooldownUntil(row) ==
    Later(row.nextAvailable,
          IF row.lastReleased = NoTime THEN NoTime
          ELSE row.lastReleased + Cooldown(row))

StagesFor(purpose) ==
    IF purpose = "AMBIENT_EXERCISE"
    THEN {"NEW_ACCOUNT", "WARMING", "LIMITED", "COLLECTION_READY"}
    ELSE IF purpose = "ASSISTED_GROUP_ACCESS"
    THEN {"WARMING", "COLLECTION_READY"}
    ELSE {"COLLECTION_READY"}

NextStages(stage) ==
    CASE stage = "NEW_ACCOUNT" -> {"WARMING", "NEEDS_REVIEW"}
      [] stage = "WARMING" -> {"COLLECTION_READY", "LIMITED", "NEEDS_REVIEW"}
      [] stage = "COLLECTION_READY" -> {"LIMITED", "NEEDS_REVIEW", "RETIRED"}
      [] stage = "LIMITED" -> {"WARMING", "COLLECTION_READY", "RETIRED"}
      [] stage = "NEEDS_REVIEW" -> {"WARMING", "RETIRED"}
      [] OTHER -> {}

PositiveThresholds(row) ==
    LET limit == row.config.thresholds
    IN  limit.sessions > 0 /\ limit.minutes > 0 /\ limit.macros > 0

\* Mutant: the session that reaches the limit is allowed one more
WithinDailyLimitsInclusive(row, t) ==
    UsageOn(row, LocalDate(row, t)).sessions <= row.config.thresholds.sessions

WithinDailyLimits(row, t) ==
    LET used == UsageOn(row, LocalDate(row, t))
        limit == row.config.thresholds
    IN  /\ used.sessions < limit.sessions
        /\ used.minutes < limit.minutes
        /\ used.macros < limit.macros

\* evaluateCheckoutEligibility
Eligible(row, purpose, t) ==
    /\ row.status = "READY"
    /\ row.stage \in StagesFor(purpose)
    /\ row.session > t
    /\ row.health = "HEALTHY"
    /\ row.config.network
    /\ row.fingerprint # Null
    /\ LocalTime(row, t) \in row.config.routine.open
    /\ CooldownUntil(row) <= t
    /\ PositiveThresholds(row)
    /\ WithinDailyLimits(row, t)

\* markProfileCheckedOut
CheckedOut(row, t) ==
    LET used == UsageOn(row, LocalDate(row, t))
    IN  [row EXCEPT !.status = "BUSY",
                    !.usage = [used EXCEPT !.sessions = @ + 1]]

\* observationToHealth: a checkpoint is sticky
Observed(health, observation) ==
    IF observation = "NONE" \/ health = "CHECKPOINT_REVIEW_REQUIRED" THEN health
    ELSE IF observation = "LOGIN_REQUIRED" THEN "REAUTH_REQUIRED"
    ELSE "CHECKPOINT_REVIEW_REQUIRED"

\* Mutant: the duration of a lease is rounded down
MinutesRoundedDown(leasedAt, t) == (t - leasedAt) \div TicksPerMinute

\* Mutant: the duration of the lease with its operands swapped
MinutesSwapped(leasedAt, t) == (leasedAt - t) \div TicksPerMinute

\* calculateLeaseActiveDurationMinutes: rounded up for each lease
ActiveMinutes(leasedAt, t) ==
    (t - leasedAt + TicksPerMinute - 1) \div TicksPerMinute

\* markProfileReleasedFromLease, then the observation of the release
Released(row, leasedAt, t, macros, observation) ==
    LET used == UsageOn(row, LocalDate(row, t))
    IN  [row EXCEPT !.status = "READY",
                    !.usage = [used EXCEPT !.minutes = @ + ActiveMinutes(leasedAt, t),
                                           !.macros = @ + macros],
                    !.nextAvailable = t + Cooldown(row),
                    !.lastReleased = t,
                    !.health = Observed(@, observation)]

\* canStartProvisioning and the required configuration
CanStartProvisioning(row) ==
    /\ \/ row.status \in {"PENDING_CONFIG", "PENDING_LOGIN"}
       \/ /\ row.status = "READY"
          /\ row.health \in {"REAUTH_REQUIRED", "CHECKPOINT_REVIEW_REQUIRED"}
    /\ row.config.network /\ row.config.topics
    /\ row.fingerprint # Null
    /\ row.config.routine.open # {}
    /\ PositiveThresholds(row)

AwaitingLogin(row, token, t) ==
    [row EXCEPT !.status = "PENDING_LOGIN",
                !.token = [status |-> "ISSUED", id |-> token,
                           expires |-> t + TokenTTL]]

\* findByProvisioningToken, the status check, assertUsableProvisioningToken
CanIngest(row, token, t) ==
    /\ row.token.status = "ISSUED" /\ row.token.id = token
    /\ row.status = "PENDING_LOGIN"
    /\ row.token.expires > t

\* Mutant: the token is forgotten but not marked as used
IngestedUnspent(row, ends) ==
    [row EXCEPT !.status = "READY", !.health = "HEALTHY", !.session = ends,
                !.token.id = Null]

Ingested(row, ends) ==
    [row EXCEPT !.status = "READY", !.health = "HEALTHY", !.session = ends,
                !.token = [@ EXCEPT !.status = "CONSUMED", !.id = Null]]

Given(new, old) == IF new = Null THEN old ELSE new

CanConfigure(row, patch) == patch.fingerprint # Null => row.fingerprint = Null

Configured(row, patch) ==
    [row EXCEPT
        !.config = [network |-> Given(patch.network, @.network),
                    topics |-> Given(patch.topics, @.topics),
                    routine |-> Given(patch.routine, @.routine),
                    thresholds |-> Given(patch.thresholds, @.thresholds)],
        !.fingerprint = Given(patch.fingerprint, @)]

-----------------------------------------------------------------------------
(* Requests *)

Exists(p) == profile[p].status # "ABSENT"
Free(o) == op[o].step = "IDLE"
ActiveLeases(p) == {l \in Leases : lease[l].status = "ACTIVE" /\ lease[l].profile = p}

\* Request o has read a row; it ends
Reads(o) == fresh' = fresh \cup {o} /\ UNCHANGED overwritten
Ends(o) ==
    /\ op' = [op EXCEPT ![o] = IdleOp]
    /\ fresh' = fresh \ {o} /\ UNCHANGED overwritten

\* save: the whole row, whatever was stored since the request read it
Saves(o) ==
    LET p == op[o].profile IN
    /\ profile' = [profile EXCEPT ![p] = op[o].row]
    /\ op' = [op EXCEPT ![o] = IdleOp]
    /\ fresh' = {q \in fresh : op[q].profile # p}
    /\ overwritten' = IF o \in fresh THEN overwritten ELSE overwritten \cup {p}

\* The step of request o that reads the row of p and computes the row to save
Prepare(o, request, p, row) ==
    /\ op' = [op EXCEPT ![o] = [IdleOp EXCEPT !.step = "LOADED",
                                              !.request = request,
                                              !.profile = p, !.row = row]]
    /\ Reads(o)

CreateProfile(o, p) ==
    /\ "CREATE" \in Requests /\ Free(o) /\ ~Exists(p)
    /\ Prepare(o, "CREATE", p, NewRow)
    /\ UNCHANGED <<now, profile, lease, access, minted>>

UpdateConfiguration(o, p) ==
    /\ "CONFIGURE" \in Requests /\ Free(o) /\ Exists(p)
    /\ \E patch \in Patches :
          /\ CanConfigure(profile[p], patch)
          /\ Prepare(o, "CONFIGURE", p, Configured(profile[p], patch))
    /\ UNCHANGED <<now, profile, lease, access, minted>>

UpdateAccountStage(o, p) ==
    /\ "STAGE" \in Requests /\ Free(o) /\ Exists(p)
    /\ \E stage \in Targets \cap NextStages(profile[p].stage) :
          Prepare(o, "STAGE", p, [profile[p] EXCEPT !.stage = stage])
    /\ UNCHANGED <<now, profile, lease, access, minted>>

StartProvisioning(o, p) ==
    /\ "PROVISION" \in Requests /\ Free(o)
    /\ CanStartProvisioning(profile[p])
    /\ \E token \in Tokens \ minted :
          /\ Prepare(o, "PROVISION", p, AwaitingLogin(profile[p], token, now))
          /\ minted' = minted \cup {token}
    /\ UNCHANGED <<now, profile, lease, access>>

IngestSession(o, p) ==
    /\ "INGEST" \in Requests /\ Free(o)
    /\ \E token \in minted, ends \in SessionEnds :
          /\ CanIngest(profile[p], token, now)
          /\ Prepare(o, "INGEST", p, Ingested(profile[p], ends))
    /\ UNCHANGED <<now, profile, lease, access, minted>>

\* profiles.save of a request without a transaction: a blind whole-row upsert
SaveProfile(o) ==
    /\ op[o].step = "LOADED" /\ op[o].request \in Writers
    /\ Saves(o)
    /\ UNCHANGED <<now, lease, access, minted>>

\* The upserted access state depends on the request only
UpsertSourceAccess(p, g) ==
    /\ "ACCESS" \in Requests /\ Exists(p)
    /\ access' \in {access \cup {<<p, g>>}, access \ {<<p, g>>}}
    /\ UNCHANGED <<now, profile, lease, minted, op>> /\ UNCHANGED history

\* A checkout reads the clock, and the profiles with successful access to the
\* group when it checks out for a collection, before it reads a profile
BeginCheckout(o, purpose) ==
    /\ "CHECKOUT" \in Requests /\ Free(o)
    /\ \E g \in Groups :
          op' = [op EXCEPT ![o] =
                   [IdleOp EXCEPT
                      !.step = "BEGUN", !.request = "CHECKOUT", !.at = now,
                      !.purpose = purpose,
                      !.access = IF purpose = "COLLECTION"
                                 THEN {p \in Profiles : <<p, g>> \in access}
                                 ELSE Profiles]]
    /\ UNCHANGED <<now, profile, lease, access, minted>> /\ UNCHANGED history

LoadCandidate(o, p) ==
    /\ op[o].step = "BEGUN" /\ op[o].request = "CHECKOUT"
    /\ Eligible(profile[p], op[o].purpose, op[o].at)
    /\ p \in op[o].access
    /\ op' = [op EXCEPT ![o].step = "LOADED", ![o].profile = p,
                        ![o].row = CheckedOut(profile[p], op[o].at)]
    /\ Reads(o)
    /\ UNCHANGED <<now, profile, lease, access, minted>>

GrantedLease(o) ==
    [status |-> "ACTIVE", profile |-> op[o].profile, purpose |-> op[o].purpose,
     leasedAt |-> op[o].at,
     expires |-> op[o].at + op[o].row.config.thresholds.minutes * TicksPerMinute,
     released |-> NoTime]

\* Mutant: a closed lease is opened again
CommitCheckoutReusing(o) ==
    /\ op[o].step = "LOADED" /\ op[o].request = "CHECKOUT"
    /\ ActiveLeases(op[o].profile) = {}
    /\ \E l \in Leases : lease' = [lease EXCEPT ![l] = GrantedLease(o)]
    /\ Saves(o)
    /\ UNCHANGED <<now, access, minted>>

\* findActiveByProfileId and the partial unique index on ACTIVE leases; a
\* checkout that finds a lease ends by Abandon
CommitCheckout(o) ==
    /\ op[o].step = "LOADED" /\ op[o].request = "CHECKOUT"
    /\ ActiveLeases(op[o].profile) = {}
    /\ \E l \in Leases : /\ lease[l].status = "NONE"
                        /\ lease' = [lease EXCEPT ![l] = GrantedLease(o)]
    /\ Saves(o)
    /\ UNCHANGED <<now, access, minted>>

BeginRelease(o, l) ==
    /\ "RELEASE" \in Requests /\ Free(o)
    /\ DuplicateReleases \/ \A q \in Ops : op[q].lease # l
    /\ lease[l].status = "ACTIVE" /\ lease[l].expires > now
    /\ op' = [op EXCEPT ![o] = [IdleOp EXCEPT !.step = "BEGUN",
                                              !.request = "RELEASE",
                                              !.at = now, !.lease = l,
                                              !.profile = lease[l].profile]]
    /\ Reads(o)
    /\ UNCHANGED <<now, profile, lease, access, minted>>

LoadLeasedProfile(o) ==
    LET p == op[o].profile IN
    /\ op[o].step = "BEGUN" /\ op[o].request = "RELEASE"
    /\ profile[p].status = "BUSY"
    /\ \E macros \in MacroCounts, observation \in Observations :
          op' = [op EXCEPT ![o].step = "LOADED",
                           ![o].row = Released(profile[p],
                                               lease[op[o].lease].leasedAt,
                                               op[o].at, macros, observation)]
    /\ UNCHANGED <<now, profile, lease, access, minted>> /\ UNCHANGED history

\* Mutant: the profile is saved but its lease is not closed
CommitReleaseHalf(o) ==
    /\ op[o].step = "LOADED" /\ op[o].request = "RELEASE"
    /\ Saves(o)
    /\ UNCHANGED <<now, lease, access, minted>>

\* profiles.save and leases.updateStatus commit together
CommitRelease(o) ==
    /\ op[o].step = "LOADED" /\ op[o].request = "RELEASE"
    /\ lease' = [lease EXCEPT ![op[o].lease].status = "RELEASED",
                              ![op[o].lease].released = op[o].at]
    /\ Saves(o)
    /\ UNCHANGED <<now, access, minted>>

\* A request ends without a write: a rejection, an error, a rolled back
\* transaction or a crash of the API
Abandon(o) ==
    /\ ~Free(o)
    /\ Ends(o)
    /\ UNCHANGED <<now, profile, lease, access, minted>>

Tick ==
    /\ now < MaxTime
    /\ now' = now + 1
    /\ UNCHANGED <<profile, lease, access, minted, op>> /\ UNCHANGED history

Init ==
    /\ now = 0
    /\ profile = [p \in Profiles |->
                    IF p \in Provisioned THEN ProvisionedRow ELSE AbsentRow]
    /\ lease = [l \in Leases |-> NoLease]
    /\ access = Provisioned \X Groups
    /\ minted = {}
    /\ op = [o \in Ops |-> IdleOp]
    /\ fresh = {} /\ overwritten = {}

OpStep(o) ==
    \/ \E p \in Profiles : \/ CreateProfile(o, p)
                           \/ UpdateConfiguration(o, p)
                           \/ UpdateAccountStage(o, p)
                           \/ StartProvisioning(o, p)
                           \/ IngestSession(o, p)
                           \/ LoadCandidate(o, p)
    \/ SaveProfile(o)
    \/ \E purpose \in Purposes : BeginCheckout(o, purpose)
    \/ CommitCheckout(o)
    \/ \E l \in Leases : BeginRelease(o, l)
    \/ LoadLeasedProfile(o)
    \/ CommitRelease(o)
    \/ Abandon(o)

Next ==
    \/ \E o \in Ops : OpStep(o)
    \/ \E p \in Profiles, g \in Groups : UpsertSourceAccess(p, g)
    \/ Tick

Spec == Init /\ [][Next]_vars
-----------------------------------------------------------------------------
(* Properties *)

TypeOK ==
    /\ now \in Nat
    /\ profile \in [Profiles -> ProfileRow]
    /\ lease \in [Leases -> LeaseRow]
    /\ access \subseteq Profiles \X Groups
    /\ minted \subseteq Tokens
    /\ op \in [Ops -> Op]
    /\ fresh \subseteq {o \in Ops : ~Free(o)} /\ overwritten \subseteq Profiles

\* A profile never has two ACTIVE leases, whatever the requests read before
\* they commit: two workers never drive the browser session of one account.
OneActiveLease ==
    \A l, m \in Leases :
        /\ lease[l].status = "ACTIVE" /\ lease[m].status = "ACTIVE"
        /\ lease[l].profile = lease[m].profile
        => l = m

\* Leases of a profile as pairs <<profile, lease>>
Held == {h \in Profiles \X Leases :
            lease[h[2]].status = "ACTIVE" /\ lease[h[2]].profile = h[1]}
Closed == {l \in Leases : lease[l].status = "RELEASED"}

Lock == INSTANCE ProfileLock WITH held <- Held, closed <- Closed

\* Leasing implements the lock of ProfileLock: only a free profile is leased,
\* under a lease id never used before, and a closed lease stays closed even
\* when it is released twice at the same time.
ImplementsLock == Lock!Spec

\* What one row says must agree with the rest of the row.  Saves write whole
\* rows computed from stale reads, so a profile may go back to an earlier row,
\* but it never shows a mixture of two: a leasable profile always has a
\* captured session, a fingerprint and a spent provisioning token, only a
\* healthy one is BUSY, and a token is open exactly while a login is awaited.
RowConsistent(row) ==
    /\ row.status \in {"ABSENT", "PENDING_CONFIG"} =>
          /\ row.health = "NOT_PROVISIONED" /\ row.session = 0
          /\ row.token.status = "NOT_ISSUED" /\ row.lastReleased = NoTime
    /\ row.status = "PENDING_LOGIN" <=> row.token.status = "ISSUED"
    /\ row.status \in {"READY", "BUSY"} =>
          /\ row.session > 0 /\ row.fingerprint # Null
          /\ row.token.status = "CONSUMED" /\ row.health # "NOT_PROVISIONED"
    /\ row.status = "BUSY" => row.health = "HEALTHY"
    /\ row.status = "PENDING_LOGIN" =>
          row.fingerprint # Null /\ row.health # "HEALTHY"
    /\ row.lastReleased <= row.nextAvailable
    /\ row.usage.minutes > 0 => row.lastReleased # NoTime

RowsConsistent == \A p \in Profiles : RowConsistent(profile[p])

\* A lease is closed before it expires, at a time its holder really released
\* it: an expired lease cannot change the profile any more.
ClosedInTime ==
    \A l \in Closed : /\ lease[l].leasedAt <= lease[l].released
                      /\ lease[l].released < lease[l].expires
                      /\ lease[l].released <= now

BusyWhileLeased(p) == profile[p].status = "BUSY" <=> ActiveLeases(p) # {}

\* Unless a save overwrote what another request had saved of it, a profile is
\* BUSY exactly while one of its leases is ACTIVE, however its requests overlap:
\* it is not lost to the pool without a lease, and the holder of a lease finds it
\* BUSY, which the runtime configuration and the release require.
BusyIffLeased == \A p \in Profiles \ overwritten : BusyWhileLeased(p)
=============================================================================
