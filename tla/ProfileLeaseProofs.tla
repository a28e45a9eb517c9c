------------------------- MODULE ProfileLeaseProofs -------------------------
(* Theorems about ProfileLease and ProfileUsage, for every value of their      *)
(* constants.                                                                *)
EXTENDS ProfileUsage, FiniteSetTheorems, WellFoundedInduction, TLAPS

-----------------------------------------------------------------------------
(* Rows: what the domain rules compute is a row again. *)

LEMMA DateIsNat ==
    ASSUME NEW row \in ProfileRow, NEW t \in Nat
    PROVE  LocalDate(row, t) \in Nat
  <1>1. row.config.routine.offset \in Nat
    BY DEF ProfileRow, Config, Routine
  <1>2. \A n \in Nat, d \in Nat \ {0} : n \div d \in Nat
    OBVIOUS
  <1>. QED BY <1>1, <1>2, TimeAssumption DEF LocalDate

LEMMA UsageOnType ==
    ASSUME NEW row \in ProfileRow, NEW date \in Nat
    PROVE  UsageOn(row, date) \in Usage
  BY DEF UsageOn, UnusedDay, Usage, ProfileRow, NoTime

LEMMA CooldownIsNat ==
    ASSUME NEW row \in ProfileRow
    PROVE  Cooldown(row) \in Nat
  BY DEF Cooldown, Later, ProfileRow, Config, Routine, Thresholds

LEMMA NewRowsType == NewRow \in ProfileRow /\ AbsentRow \in ProfileRow
  BY DEF NewRow, AbsentRow, ProfileRow, Statuses, Stages, Healths, Token,
         Config, Routine, Thresholds, Usage, UnusedDay, NoTime

LEMMA ProvisionedRowType == ProvisionedRow \in ProfileRow
  BY NewRowsType, ProvisionedAssumption
     DEF ProvisionedRow, ProfileRow, Statuses, Stages, Healths, Token

LEMMA CheckedOutType ==
    ASSUME NEW row \in ProfileRow, NEW t \in Nat
    PROVE  CheckedOut(row, t) \in ProfileRow
  <1>. DEFINE used == UsageOn(row, LocalDate(row, t))
  <1>1. used \in Usage
    BY DateIsNat, UsageOnType
  <1>2. [used EXCEPT !.sessions = @ + 1] \in Usage
    BY <1>1 DEF Usage
  <1>. QED BY <1>2 DEF CheckedOut, ProfileRow, Statuses

LEMMA MinutesAreNat ==
    ASSUME NEW leasedAt \in Nat, NEW t \in Nat, leasedAt <= t
    PROVE  ActiveMinutes(leasedAt, t) \in Nat
  <1>1. \A n \in Nat, d \in Nat \ {0} : n \div d \in Nat
    OBVIOUS
  <1>2. t - leasedAt + TicksPerMinute - 1 \in Nat /\ TicksPerMinute \in Nat \ {0}
    BY TimeAssumption
  <1>. QED BY <1>1, <1>2 DEF ActiveMinutes

LEMMA ReleasedType ==
    ASSUME NEW row \in ProfileRow, NEW t \in Nat, NEW leasedAt \in Nat,
           leasedAt <= t, NEW macros \in Nat, NEW observation \in Observations
    PROVE  Released(row, leasedAt, t, macros, observation) \in ProfileRow
  <1>. DEFINE used == UsageOn(row, LocalDate(row, t))
  <1>1. used \in Usage
    BY DateIsNat, UsageOnType
  <1>2. [used EXCEPT !.minutes = @ + ActiveMinutes(leasedAt, t),
                     !.macros = @ + macros] \in Usage
    <2>1. /\ used.minutes + ActiveMinutes(leasedAt, t) \in Nat
          /\ used.macros + macros \in Nat
      <3>1. used.minutes \in Nat /\ used.macros \in Nat
        BY <1>1 DEF Usage
      <3>. HIDE DEF used
      <3>. QED BY <3>1, MinutesAreNat
    <2>. HIDE DEF used
    <2>. QED BY <1>1, <2>1 DEF Usage
  <1>3. t + Cooldown(row) \in Nat
    BY CooldownIsNat
  <1>4. Observed(row.health, observation) \in Healths
    BY DEF Observed, ProfileRow, Healths
  <1>. QED BY <1>2, <1>3, <1>4 DEF Released, ProfileRow, Statuses

LEMMA AwaitingLoginType ==
    ASSUME NEW row \in ProfileRow, NEW token \in Tokens, NEW t \in Nat
    PROVE  AwaitingLogin(row, token, t) \in ProfileRow
  <1>1. t + TokenTTL \in Nat
    BY TimeAssumption
  <1>2. [status |-> "ISSUED", id |-> token, expires |-> t + TokenTTL] \in Token
    BY <1>1 DEF Token
  <1>. QED BY <1>2 DEF AwaitingLogin, ProfileRow, Statuses

LEMMA IngestedType ==
    ASSUME NEW row \in ProfileRow, NEW ends \in SessionEnds
    PROVE  Ingested(row, ends) \in ProfileRow
  <1>1. [row.token EXCEPT !.status = "CONSUMED", !.id = Null] \in Token
    BY DEF ProfileRow, Token
  <1>. QED BY <1>1, InputAssumption
           DEF Ingested, ProfileRow, Statuses, Healths

LEMMA ConfiguredType ==
    ASSUME NEW row \in ProfileRow, NEW patch \in Patches
    PROVE  Configured(row, patch) \in ProfileRow
  <1>1. patch \in Patch
    BY InputAssumption
  <1>2. [network |-> Given(patch.network, row.config.network),
         topics |-> Given(patch.topics, row.config.topics),
         routine |-> Given(patch.routine, row.config.routine),
         thresholds |-> Given(patch.thresholds, row.config.thresholds)]
           \in Config
    BY <1>1 DEF Patch, Given, ProfileRow, Config
  <1>3. Given(patch.fingerprint, row.fingerprint) \in Fingerprints \cup {Null}
    BY <1>1 DEF Patch, Given, ProfileRow
  <1>. QED BY <1>2, <1>3 DEF Configured, ProfileRow
-----------------------------------------------------------------------------
(* Typing: the types, and what a request in flight knows of its lease. *)

\* A request that goes on after its first step names what it works on, and a
\* release read its lease while that lease was active and not expired.
OpWellFormed(o) ==
    /\ op[o].at <= now
    /\ op[o].step = "LOADED" => op[o].profile \in Profiles
    /\ op[o].request = "CHECKOUT" => op[o].purpose \in AllPurposes
    /\ op[o].request = "RELEASE" =>
          /\ op[o].lease \in Leases
          /\ op[o].profile \in Profiles
          /\ lease[op[o].lease].status # "NONE"
          /\ lease[op[o].lease].profile = op[o].profile
          /\ lease[op[o].lease].leasedAt <= op[o].at
          /\ op[o].at < lease[op[o].lease].expires

\* A lease that was granted has a profile and was granted in the past.
LeasesBegun ==
    \A l \in Leases : /\ lease[l].leasedAt <= now
                      /\ lease[l].status # "NONE" => lease[l].profile \in Profiles

TypeInv == TypeOK /\ LeasesBegun /\ \A o \in Ops : OpWellFormed(o)

LEMMA IdleOpType == IdleOp \in Op
  BY NewRowsType DEF IdleOp, Op

LEMMA RequestsDiffer ==
    /\ Null \notin AllRequests
    /\ "CHECKOUT" \notin Writers /\ "RELEASE" \notin Writers
    /\ Writers \subseteq AllRequests
  BY NullAssumption DEF Writers, AllRequests

\* The history variables stay typed when a request reads, ends and saves
HistoryOK == fresh \subseteq {o \in Ops : ~Free(o)} /\ overwritten \subseteq Profiles

LEMMA HistoryKept ==
    ASSUME op \in [Ops -> Op], HistoryOK, NEW o \in Ops,
           \/ Reads(o) /\ \E new : op' = [op EXCEPT ![o] = new] /\ new.step # "IDLE"
           \/ Ends(o)
           \/ Saves(o) /\ op[o].profile \in Profiles
           \/ /\ UNCHANGED history
              /\ op' = op \/ \E new : op' = [op EXCEPT ![o] = new] /\ new.step # "IDLE"
    PROVE  HistoryOK'
  BY DEF HistoryOK, Free, Reads, Ends, Saves, IdleOp, history

\* Reading a row and preparing its successor
LEMMA PrepareKeepsTypeInv ==
    ASSUME TypeInv, NEW o \in Ops, NEW p \in Profiles,
           NEW request \in Writers, NEW row \in ProfileRow,
           Prepare(o, request, p, row), UNCHANGED <<now, profile, lease, access>>,
           minted' \subseteq Tokens
    PROVE  TypeInv'
  <1>. DEFINE new == [IdleOp EXCEPT !.step = "LOADED", !.request = request,
                                    !.profile = p, !.row = row]
  <1>1. new \in Op
    BY IdleOpType, RequestsDiffer DEF Op
  <1>2. TypeOK'
    <2>0. new.step # "IDLE"
      BY DEF IdleOp
    <2>. HIDE DEF new
    <2>1. op' = [op EXCEPT ![o] = new] /\ Reads(o)
      BY DEF Prepare, new
    <2>2. HistoryOK'
      BY <2>0, <2>1, HistoryKept DEF TypeInv, TypeOK, HistoryOK
    <2>. QED BY <1>1, <2>1, <2>2 DEF TypeInv, TypeOK, HistoryOK
  <1>3. \A q \in Ops : OpWellFormed(q)'
    <2>. SUFFICES ASSUME NEW q \in Ops PROVE OpWellFormed(q)'
      OBVIOUS
    <2>1. CASE q = o
      <3>1. op'[q] = new
        BY <2>1 DEF Prepare, TypeInv, TypeOK
      <3>2. /\ new.at = 0 /\ new.profile = p
            /\ new.request # "CHECKOUT" /\ new.request # "RELEASE"
        BY RequestsDiffer DEF IdleOp
      <3>. QED BY <3>1, <3>2 DEF OpWellFormed, TypeInv, TypeOK
    <2>2. CASE q # o
      BY <2>2 DEF Prepare, OpWellFormed, TypeInv, TypeOK
    <2>. QED BY <2>1, <2>2
  <1>. QED BY <1>2, <1>3 DEF TypeInv, LeasesBegun

\* A request that leaves its slot
LEMMA EndKeepsOps ==
    ASSUME TypeInv, NEW o \in Ops, op' = [op EXCEPT ![o] = IdleOp], now' = now,
           \A l \in Leases : lease[l].status # "NONE" =>
              /\ lease'[l].status # "NONE"
              /\ lease'[l].profile = lease[l].profile
              /\ lease'[l].leasedAt = lease[l].leasedAt
              /\ lease'[l].expires = lease[l].expires
    PROVE  op' \in [Ops -> Op] /\ \A q \in Ops : OpWellFormed(q)'
  <1>1. op' \in [Ops -> Op]
    BY IdleOpType DEF TypeInv, TypeOK
  <1>2. ASSUME NEW q \in Ops PROVE OpWellFormed(q)'
    <2>1. CASE q = o
      <3>1. op'[q] = IdleOp
        BY <2>1 DEF TypeInv, TypeOK
      <3>2. /\ IdleOp.at = 0 /\ IdleOp.step # "LOADED"
            /\ IdleOp.request # "CHECKOUT" /\ IdleOp.request # "RELEASE"
        BY RequestsDiffer DEF IdleOp, AllRequests
      <3>. QED BY <3>1, <3>2 DEF OpWellFormed, TypeInv, TypeOK
    <2>2. CASE q # o
      BY <2>2 DEF OpWellFormed, TypeInv, TypeOK
    <2>. QED BY <2>1, <2>2
  <1>. QED BY <1>1, <1>2

LEMMA InitTypeInv == Init => TypeInv
  <1>. SUFFICES ASSUME Init PROVE TypeInv
    OBVIOUS
  <1>1. /\ NoLease \in LeaseRow /\ NoLease.leasedAt = 0
        /\ NoLease.status = "NONE"
    BY DEF NoLease, LeaseRow, NoTime
  <1>2. TypeOK
    BY <1>1, NewRowsType, ProvisionedRowType, IdleOpType,
       ProvisionedAssumption DEF Init, TypeOK
  <1>3. LeasesBegun
    BY <1>1 DEF Init, LeasesBegun
  <1>4. ASSUME NEW o \in Ops PROVE OpWellFormed(o)
    <2>1. /\ op[o].at = 0 /\ op[o].step = "IDLE" /\ op[o].request = Null
      BY DEF Init, IdleOp
    <2>. QED BY <2>1, RequestsDiffer DEF Init, OpWellFormed, AllRequests
  <1>. QED BY <1>2, <1>3, <1>4 DEF TypeInv

LEMMA NextTypeInv == TypeInv /\ [Next]_vars => TypeInv'
  <1>. SUFFICES ASSUME TypeInv, [Next]_vars PROVE TypeInv'
    OBVIOUS
  <1>. USE DEF TypeInv
  <1>1. ASSUME NEW o \in Ops, NEW p \in Profiles, CreateProfile(o, p)
        PROVE  TypeInv'
    BY <1>1, NewRowsType, PrepareKeepsTypeInv DEF CreateProfile, Writers, TypeOK
  <1>2. ASSUME NEW o \in Ops, NEW p \in Profiles, UpdateConfiguration(o, p)
        PROVE  TypeInv'
    <2>1. PICK patch \in Patches :
             Prepare(o, "CONFIGURE", p, Configured(profile[p], patch))
      BY <1>2 DEF UpdateConfiguration
    <2>2. Configured(profile[p], patch) \in ProfileRow
      BY ConfiguredType DEF TypeOK
    <2>. QED BY <1>2, <2>1, <2>2, PrepareKeepsTypeInv
             DEF UpdateConfiguration, Writers, TypeOK
  <1>3. ASSUME NEW o \in Ops, NEW p \in Profiles, UpdateAccountStage(o, p)
        PROVE  TypeInv'
    <2>1. PICK stage \in Targets \cap NextStages(profile[p].stage) :
             Prepare(o, "STAGE", p, [profile[p] EXCEPT !.stage = stage])
      BY <1>3 DEF UpdateAccountStage
    <2>2. stage \in Stages
      BY <2>1 DEF NextStages, Stages, TypeOK, ProfileRow
    <2>3. [profile[p] EXCEPT !.stage = stage] \in ProfileRow
      BY <2>2 DEF TypeOK, ProfileRow
    <2>. QED BY <1>3, <2>1, <2>3, PrepareKeepsTypeInv
             DEF UpdateAccountStage, Writers, TypeOK
  <1>4. ASSUME NEW o \in Ops, NEW p \in Profiles, StartProvisioning(o, p)
        PROVE  TypeInv'
    <2>1. PICK token \in Tokens \ minted :
             /\ Prepare(o, "PROVISION", p, AwaitingLogin(profile[p], token, now))
             /\ minted' = minted \cup {token}
      BY <1>4 DEF StartProvisioning
    <2>2. AwaitingLogin(profile[p], token, now) \in ProfileRow
      BY AwaitingLoginType DEF TypeOK
    <2>. QED BY <1>4, <2>1, <2>2, PrepareKeepsTypeInv
             DEF StartProvisioning, Writers, TypeOK
  <1>5. ASSUME NEW o \in Ops, NEW p \in Profiles, IngestSession(o, p)
        PROVE  TypeInv'
    <2>1. PICK ends \in SessionEnds :
             Prepare(o, "INGEST", p, Ingested(profile[p], ends))
      BY <1>5 DEF IngestSession
    <2>2. Ingested(profile[p], ends) \in ProfileRow
      BY IngestedType DEF TypeOK
    <2>. QED BY <1>5, <2>1, <2>2, PrepareKeepsTypeInv
             DEF IngestSession, Writers, TypeOK
  <1>6. ASSUME NEW o \in Ops, SaveProfile(o)
        PROVE  TypeInv'
    <2>1. profile' \in [Profiles -> ProfileRow]
      BY <1>6 DEF SaveProfile, Saves, TypeOK, Op
    <2>2. op' \in [Ops -> Op] /\ \A q \in Ops : OpWellFormed(q)'
      BY <1>6, EndKeepsOps DEF SaveProfile, Saves
    <2>3. HistoryOK'
      BY <1>6, HistoryKept DEF SaveProfile, TypeOK, HistoryOK, OpWellFormed
    <2>. QED BY <1>6, <2>1, <2>2, <2>3
             DEF SaveProfile, Saves, TypeOK, LeasesBegun, HistoryOK
  <1>7. ASSUME NEW o \in Ops, NEW purpose \in Purposes,
               BeginCheckout(o, purpose)
        PROVE  TypeInv'
    <2>1. PICK g \in Groups :
             op' = [op EXCEPT ![o] =
                   [IdleOp EXCEPT
                      !.step = "BEGUN", !.request = "CHECKOUT", !.at = now,
                      !.purpose = purpose,
                      !.access = IF purpose = "COLLECTION"
                                 THEN {p \in Profiles : <<p, g>> \in access}
                                 ELSE Profiles]]
      BY <1>7 DEF BeginCheckout
    <2>. DEFINE new == op'[o]
    <2>2. /\ new \in Op /\ op' = [op EXCEPT ![o] = new]
          /\ new.at = now /\ new.step = "BEGUN" /\ new.request = "CHECKOUT"
          /\ new.purpose \in AllPurposes
      BY <2>1, IdleOpType, RequestAssumption DEF TypeOK, Op, AllRequests, IdleOp
    <2>. HIDE DEF new
    <2>3. op' \in [Ops -> Op]
      BY <2>2 DEF TypeOK
    <2>4. ASSUME NEW q \in Ops PROVE OpWellFormed(q)'
      <3>1. CASE q = o
        <4>1. op'[q] = new /\ now' = now /\ now \in Nat
          BY <1>7, <2>2, <3>1 DEF BeginCheckout, TypeOK
        <4>. QED BY <4>1, <2>2 DEF OpWellFormed
      <3>2. CASE q # o
        BY <1>7, <2>2, <3>2 DEF BeginCheckout, OpWellFormed, TypeOK
      <3>. QED BY <3>1, <3>2
    <2>5. HistoryOK'
      BY <1>7, <2>2, HistoryKept DEF BeginCheckout, TypeOK, HistoryOK
    <2>. QED BY <1>7, <2>3, <2>4, <2>5 DEF BeginCheckout, TypeOK, LeasesBegun, HistoryOK
  <1>8. ASSUME NEW o \in Ops, NEW p \in Profiles, LoadCandidate(o, p)
        PROVE  TypeInv'
    <2>1. CheckedOut(profile[p], op[o].at) \in ProfileRow
      BY CheckedOutType DEF TypeOK, Op
    <2>2. op' \in [Ops -> Op] /\ HistoryOK'
      <3>. DEFINE new == [op[o] EXCEPT !.step = "LOADED", !.profile = p,
                            !.row = CheckedOut(profile[p], op[o].at)]
      <3>1. op' = [op EXCEPT ![o] = new]
        BY <1>8 DEF LoadCandidate, TypeOK
      <3>2. new \in Op
        BY <2>1 DEF TypeOK, Op
      <3>3. new.step # "IDLE"
        BY DEF TypeOK, Op
      <3>. HIDE DEF new
      <3>4. HistoryOK'
        BY <1>8, <3>1, <3>3, HistoryKept DEF LoadCandidate, TypeOK, HistoryOK
      <3>. QED BY <3>1, <3>2, <3>4 DEF TypeOK
    <2>3. ASSUME NEW q \in Ops PROVE OpWellFormed(q)'
      BY <1>8 DEF LoadCandidate, OpWellFormed, TypeOK
    <2>. QED BY <1>8, <2>2, <2>3 DEF LoadCandidate, TypeOK, LeasesBegun, HistoryOK
  <1>9. ASSUME NEW o \in Ops, CommitCheckout(o)
        PROVE  TypeInv'
    <2>. DEFINE p == op[o].profile
    <2>1. PICK l \in Leases :
          /\ lease[l].status = "NONE"
          /\ lease' = [lease EXCEPT ![l] =
                [status |-> "ACTIVE", profile |-> p,
                 purpose |-> op[o].purpose, leasedAt |-> op[o].at,
                 expires |-> op[o].at
                    + op[o].row.config.thresholds.minutes * TicksPerMinute,
                 released |-> NoTime]]
      BY <1>9 DEF CommitCheckout, GrantedLease
    <2>2. /\ op[o].purpose \in AllPurposes /\ p \in Profiles
          /\ op[o].at \in Nat /\ op[o].at <= now
          /\ op[o].row \in ProfileRow
      BY <1>9 DEF CommitCheckout, OpWellFormed, TypeOK, Op
    <2>3. op[o].at + op[o].row.config.thresholds.minutes * TicksPerMinute \in Nat
      <3>1. \A m, n \in Nat : m * n \in Nat
        OBVIOUS
      <3>. QED BY <2>2, <3>1, TimeAssumption DEF ProfileRow, Config, Thresholds
    <2>4. lease' \in [Leases -> LeaseRow]
      BY <2>1, <2>2, <2>3 DEF TypeOK, LeaseRow
    <2>5. op' \in [Ops -> Op] /\ \A q \in Ops : OpWellFormed(q)'
      BY <1>9, <2>1, EndKeepsOps DEF CommitCheckout, Saves, TypeOK
    <2>6. profile' \in [Profiles -> ProfileRow]
      BY <1>9, <2>2 DEF CommitCheckout, Saves, TypeOK
    <2>7. LeasesBegun'
      BY <1>9, <2>1, <2>2 DEF CommitCheckout, TypeOK, LeasesBegun
    <2>8. HistoryOK'
      BY <1>9, <2>2, HistoryKept DEF CommitCheckout, TypeOK, HistoryOK
    <2>. QED BY <1>9, <2>4, <2>5, <2>6, <2>7, <2>8 DEF CommitCheckout, TypeOK, HistoryOK
  <1>10. ASSUME NEW o \in Ops, NEW l \in Leases, BeginRelease(o, l)
         PROVE  TypeInv'
    <2>. DEFINE new == [IdleOp EXCEPT !.step = "BEGUN", !.request = "RELEASE",
                                      !.at = now, !.lease = l,
                                      !.profile = lease[l].profile]
    <2>1. /\ new \in Op
          /\ new.at = now /\ new.step = "BEGUN" /\ new.request = "RELEASE"
          /\ new.lease = l /\ new.profile = lease[l].profile
      BY IdleOpType DEF TypeOK, Op, AllRequests, IdleOp, LeaseRow
    <2>2. op' = [op EXCEPT ![o] = new]
      BY <1>10 DEF BeginRelease
    <2>. HIDE DEF new
    <2>3. op' \in [Ops -> Op]
      BY <2>1, <2>2 DEF TypeOK
    <2>4. lease[l].profile \in Profiles
      BY <1>10 DEF BeginRelease, LeasesBegun
    <2>5. ASSUME NEW q \in Ops PROVE OpWellFormed(q)'
      BY <1>10, <2>1, <2>2, <2>4
         DEF BeginRelease, OpWellFormed, TypeOK, LeasesBegun
    <2>6. HistoryOK'
      BY <1>10, <2>1, <2>2, HistoryKept DEF BeginRelease, TypeOK, HistoryOK
    <2>. QED BY <1>10, <2>3, <2>5, <2>6 DEF BeginRelease, TypeOK, LeasesBegun, HistoryOK
  <1>11. ASSUME NEW o \in Ops, LoadLeasedProfile(o)
         PROVE  TypeInv'
    <2>. DEFINE p == op[o].profile
    <2>1. PICK macros \in MacroCounts, observation \in Observations :
             op' = [op EXCEPT ![o].step = "LOADED",
                              ![o].row = Released(profile[p],
                                            lease[op[o].lease].leasedAt,
                                            op[o].at, macros, observation)]
      BY <1>11 DEF LoadLeasedProfile
    <2>2. /\ p \in Profiles /\ op[o].lease \in Leases
          /\ lease[op[o].lease].leasedAt <= op[o].at
      BY <1>11 DEF LoadLeasedProfile, OpWellFormed
    <2>3. /\ profile[p] \in ProfileRow /\ op[o].at \in Nat
          /\ lease[op[o].lease].leasedAt \in Nat /\ macros \in Nat
      BY <2>2, InputAssumption DEF TypeOK, Op, LeaseRow
    <2>4. Released(profile[p], lease[op[o].lease].leasedAt, op[o].at,
                   macros, observation) \in ProfileRow
      BY <2>2, <2>3, ReleasedType
    <2>5. op' \in [Ops -> Op] /\ HistoryOK'
      <3>. DEFINE row == Released(profile[p], lease[op[o].lease].leasedAt,
                                  op[o].at, macros, observation)
                  new == [op[o] EXCEPT !.step = "LOADED", !.row = row]
      <3>1. op' = [op EXCEPT ![o] = new]
        BY <2>1 DEF TypeOK
      <3>2. new \in Op
        <4>. HIDE DEF row
        <4>1. row \in ProfileRow
          BY <2>4 DEF row
        <4>. QED BY <4>1 DEF TypeOK, Op
      <3>3. new.step # "IDLE"
        BY DEF TypeOK, Op
      <3>. HIDE DEF new
      <3>4. HistoryOK'
        BY <1>11, <3>1, <3>3, HistoryKept DEF LoadLeasedProfile, TypeOK, HistoryOK
      <3>. QED BY <3>1, <3>2, <3>4 DEF TypeOK
    <2>6. ASSUME NEW q \in Ops PROVE OpWellFormed(q)'
      BY <1>11, <2>1, <2>2 DEF LoadLeasedProfile, OpWellFormed, TypeOK
    <2>. QED BY <1>11, <2>5, <2>6
             DEF LoadLeasedProfile, TypeOK, LeasesBegun, HistoryOK
  <1>12. ASSUME NEW o \in Ops, CommitRelease(o)
         PROVE  TypeInv'
    <2>1. /\ op[o].lease \in Leases /\ op[o].profile \in Profiles
          /\ op[o].at \in Nat /\ op[o].row \in ProfileRow
      BY <1>12 DEF CommitRelease, OpWellFormed, TypeOK, Op
    <2>2. lease' \in [Leases -> LeaseRow]
      BY <1>12, <2>1 DEF CommitRelease, TypeOK, LeaseRow
    <2>3. op' \in [Ops -> Op] /\ \A q \in Ops : OpWellFormed(q)'
      BY <1>12, <2>1, EndKeepsOps DEF CommitRelease, Saves, TypeOK, LeaseRow
    <2>4. LeasesBegun'
      <3>1. ASSUME NEW l \in Leases
            PROVE  /\ lease'[l].leasedAt = lease[l].leasedAt
                   /\ lease'[l].profile = lease[l].profile
        BY <1>12, <2>1 DEF CommitRelease, TypeOK, LeaseRow
      <3>2. lease[op[o].lease].status # "NONE"
        BY <1>12 DEF CommitRelease, OpWellFormed
      <3>3. ASSUME NEW l \in Leases, lease'[l].status # "NONE"
            PROVE  lease[l].status # "NONE"
        BY <1>12, <3>2, <3>3 DEF CommitRelease, TypeOK, LeaseRow
      <3>. QED BY <1>12, <3>1, <3>3 DEF CommitRelease, LeasesBegun
    <2>5. HistoryOK'
      BY <1>12, <2>1, HistoryKept DEF CommitRelease, TypeOK, HistoryOK
    <2>. QED BY <1>12, <2>1, <2>2, <2>3, <2>4, <2>5
             DEF CommitRelease, Saves, TypeOK, HistoryOK
  <1>13. ASSUME NEW o \in Ops, Abandon(o)
         PROVE  TypeInv'
    <2>1. op' \in [Ops -> Op] /\ \A q \in Ops : OpWellFormed(q)'
      BY <1>13, EndKeepsOps DEF Abandon, Ends
    <2>2. HistoryOK'
      BY <1>13, HistoryKept DEF Abandon, TypeOK, HistoryOK
    <2>. QED BY <1>13, <2>1, <2>2 DEF Abandon, TypeOK, LeasesBegun, HistoryOK
  <1>14. ASSUME NEW p \in Profiles, NEW g \in Groups, UpsertSourceAccess(p, g)
         PROVE  TypeInv'
    BY <1>14 DEF UpsertSourceAccess, TypeOK, LeasesBegun, OpWellFormed, Free, history
  <1>15. ASSUME Tick PROVE TypeInv'
    BY <1>15 DEF Tick, TypeOK, LeasesBegun, OpWellFormed, Op, LeaseRow, Free, history
  <1>16. ASSUME UNCHANGED vars PROVE TypeInv'
    BY <1>16 DEF vars, TypeOK, LeasesBegun, OpWellFormed, Free
  <1>. QED BY <1>1, <1>2, <1>3, <1>4, <1>5, <1>6, <1>7, <1>8, <1>9, <1>10,
              <1>11, <1>12, <1>13, <1>14, <1>15, <1>16 DEF Next, OpStep

\* Every variable keeps its type in every reachable state, and every request
\* in flight still refers to a lease and a profile that exist.
THEOREM TypeSafe == Spec => []TypeInv
  <1>. QED BY InitTypeInv, NextTypeInv, PTL DEF Spec

\* The type invariant that the runs check.
THEOREM Typing == Spec => []TypeOK
  <1>1. TypeInv => TypeOK
    BY DEF TypeInv
  <1>. QED BY <1>1, TypeSafe, PTL

-----------------------------------------------------------------------------
(* One lease at a time. *)

LEMMA LeaseOnlyChangedBy ==
    ASSUME [Next]_vars
    PROVE  \/ UNCHANGED lease
           \/ \E o \in Ops : CommitCheckout(o) \/ CommitRelease(o)
  BY DEF Next, OpStep, vars, CreateProfile, UpdateConfiguration,
         UpdateAccountStage, StartProvisioning, IngestSession, LoadCandidate,
         SaveProfile, BeginCheckout, BeginRelease, LoadLeasedProfile, Abandon,
         UpsertSourceAccess, Tick

LEMMA CheckoutGrants ==
    ASSUME TypeInv, NEW o \in Ops, CommitCheckout(o)
    PROVE  /\ op[o].profile \in Profiles
           /\ \E l \in Leases :
                 /\ lease[l].status = "NONE"
                 /\ lease'[l].status = "ACTIVE"
                 /\ lease'[l].profile = op[o].profile
                 /\ lease'[l].released = NoTime
                 /\ \A m \in Leases \ {l} : lease'[m] = lease[m]
  BY DEF CommitCheckout, GrantedLease, TypeInv, TypeOK, OpWellFormed

LEMMA ReleaseCloses ==
    ASSUME TypeInv, NEW o \in Ops, CommitRelease(o)
    PROVE  /\ op[o].lease \in Leases
           /\ lease[op[o].lease].status # "NONE"
           /\ lease[op[o].lease].profile = op[o].profile
           /\ lease'[op[o].lease] = [lease[op[o].lease] EXCEPT
                                        !.status = "RELEASED",
                                        !.released = op[o].at]
           /\ \A m \in Leases \ {op[o].lease} : lease'[m] = lease[m]
  BY DEF CommitRelease, TypeInv, TypeOK, LeaseRow, OpWellFormed

LEMMA NextOneActiveLease ==
    TypeInv /\ OneActiveLease /\ [Next]_vars => OneActiveLease'
  <1>. SUFFICES ASSUME TypeInv, OneActiveLease, [Next]_vars
                PROVE  OneActiveLease'
    OBVIOUS
  <1>1. CASE UNCHANGED lease
    BY <1>1 DEF OneActiveLease
  <1>2. ASSUME NEW o \in Ops, CommitCheckout(o) PROVE OneActiveLease'
    <2>1. PICK l \in Leases :
             /\ lease[l].status = "NONE"
             /\ lease'[l].profile = op[o].profile
             /\ \A m \in Leases \ {l} : lease'[m] = lease[m]
      BY <1>2, CheckoutGrants
    <2>2. \A m \in Leases : ~ (/\ lease[m].status = "ACTIVE"
                               /\ lease[m].profile = op[o].profile)
      BY <1>2 DEF CommitCheckout, ActiveLeases
    <2>. QED BY <2>1, <2>2 DEF OneActiveLease
  <1>3. ASSUME NEW o \in Ops, CommitRelease(o) PROVE OneActiveLease'
    <2>1. lease'[op[o].lease].status = "RELEASED"
      BY <1>3, ReleaseCloses DEF TypeInv, TypeOK, LeaseRow
    <2>2. ASSUME NEW m \in Leases, lease'[m].status = "ACTIVE"
          PROVE  lease'[m] = lease[m]
      BY <1>3, <2>1, <2>2, ReleaseCloses
    <2>. QED BY <2>2 DEF OneActiveLease
  <1>. QED BY <1>1, <1>2, <1>3, LeaseOnlyChangedBy

\* Whatever the transactions of checkouts and releases read before they
\* commit, a profile never has two ACTIVE leases.
THEOREM OneLeaseAtATime == Spec => []OneActiveLease
  <1>1. Init => OneActiveLease
    BY DEF Init, OneActiveLease, NoLease
  <1>. QED BY <1>1, NextOneActiveLease, TypeSafe, PTL DEF Spec

\* A lease is closed before its expiry.
THEOREM NoLateRelease == Spec => []ClosedInTime
  <1>1. Init => ClosedInTime
    BY DEF Init, ClosedInTime, Closed, NoLease
  <1>2. TypeInv /\ ClosedInTime /\ [Next]_vars => ClosedInTime'
    <2>. SUFFICES ASSUME TypeInv, ClosedInTime, [Next]_vars,
                         NEW l \in Leases, lease'[l].status = "RELEASED"
                  PROVE  /\ lease'[l].leasedAt <= lease'[l].released
                         /\ lease'[l].released < lease'[l].expires
                         /\ lease'[l].released <= now'
      BY DEF ClosedInTime, Closed
    <2>0. now <= now' /\ now \in Nat /\ now' \in Nat
      <3>1. now' = now \/ Tick
        BY DEF Next, OpStep, vars, CreateProfile,
               UpdateConfiguration, UpdateAccountStage, StartProvisioning,
               IngestSession, LoadCandidate, SaveProfile, BeginCheckout,
               BeginRelease, LoadLeasedProfile, Abandon, CommitCheckout,
               CommitRelease, UpsertSourceAccess
      <3>. QED BY <3>1 DEF Tick, TypeInv, TypeOK
    <2>1. CASE lease'[l] = lease[l]
      <3>1. /\ lease[l].leasedAt <= lease[l].released
            /\ lease[l].released < lease[l].expires
            /\ lease[l].released <= now
        BY <2>1 DEF ClosedInTime, Closed
      <3>2. lease[l].released \in Int
        BY DEF TypeInv, TypeOK, LeaseRow, NoTime
      <3>. QED BY <2>0, <2>1, <3>1, <3>2
    <2>2. ASSUME NEW o \in Ops, CommitRelease(o), l = op[o].lease
          PROVE  /\ lease'[l].leasedAt <= lease'[l].released
                 /\ lease'[l].released < lease'[l].expires
                 /\ lease'[l].released <= now'
      <3>1. /\ lease'[l].released = op[o].at
            /\ lease'[l].leasedAt = lease[l].leasedAt
            /\ lease'[l].expires = lease[l].expires
        BY <2>2, ReleaseCloses DEF TypeInv, TypeOK, LeaseRow
      <3>2. /\ lease[l].leasedAt <= op[o].at /\ op[o].at < lease[l].expires
            /\ op[o].at <= now
        BY <2>2 DEF CommitRelease, TypeInv, OpWellFormed
      <3>3. now' = now
        BY <2>2 DEF CommitRelease
      <3>. QED BY <3>1, <3>2, <3>3
    <2>3. ASSUME NEW o \in Ops, CommitCheckout(o) PROVE lease'[l] = lease[l]
      BY <2>3, CheckoutGrants
    <2>. QED BY <2>1, <2>2, <2>3, LeaseOnlyChangedBy, ReleaseCloses
  <1>. QED BY <1>1, <1>2, TypeSafe, PTL DEF Spec

-----------------------------------------------------------------------------
(* Leasing implements the lock. *)

LEMMA InitLock == Init => Lock!Init
  BY DEF Init, Lock!Init, Held, Closed, NoLease

LEMMA NextLock == TypeInv /\ [Next]_vars => [Lock!Next]_(Lock!vars)
  <1>. SUFFICES ASSUME TypeInv, [Next]_vars PROVE [Lock!Next]_(Lock!vars)
    OBVIOUS
  <1>1. CASE UNCHANGED lease
    BY <1>1 DEF Lock!vars, Held, Closed
  <1>2. ASSUME NEW o \in Ops, CommitCheckout(o) PROVE Lock!Next
    <2>. DEFINE p == op[o].profile
    <2>1. PICK l \in Leases :
             /\ lease[l].status = "NONE"
             /\ lease'[l].status = "ACTIVE"
             /\ lease'[l].profile = p
             /\ \A m \in Leases \ {l} : lease'[m] = lease[m]
      BY <1>2, CheckoutGrants
    <2>2. p \in Profiles
      BY <1>2, CheckoutGrants
    <2>3. \A m \in Leases : <<p, m>> \notin Held
      BY <1>2 DEF CommitCheckout, ActiveLeases, Held
    <2>4. l \notin Closed /\ \A q \in Profiles : <<q, l>> \notin Held
      BY <2>1 DEF Closed, Held
    <2>5. Held' = Held \cup {<<p, l>>}
      BY <2>1, <2>2 DEF Held
    <2>6. Closed' = Closed
      BY <2>1 DEF Closed
    <2>7. Lock!Acquire(p, l)
      BY <2>3, <2>4, <2>5, <2>6 DEF Lock!Acquire
    <2>. QED BY <2>2, <2>7 DEF Lock!Next
  <1>3. ASSUME NEW o \in Ops, CommitRelease(o) PROVE [Lock!Next]_(Lock!vars)
    <2>. DEFINE l == op[o].lease
                p == op[o].profile
    <2>1. /\ l \in Leases /\ p \in Profiles /\ lease[l].profile = p
          /\ lease[l].status \in {"ACTIVE", "RELEASED"}
          /\ lease'[l].status = "RELEASED" /\ lease'[l].profile = p
          /\ \A m \in Leases \ {l} : lease'[m] = lease[m]
      <3>1. l \in Leases /\ p \in Profiles /\ lease[l] \in LeaseRow
        BY <1>3 DEF CommitRelease, TypeInv, TypeOK, OpWellFormed
      <3>2. /\ lease[l].profile = p /\ lease[l].status # "NONE"
            /\ lease'[l] = [lease[l] EXCEPT !.status = "RELEASED",
                                            !.released = op[o].at]
            /\ \A m \in Leases \ {l} : lease'[m] = lease[m]
        BY <1>3, ReleaseCloses
      <3>. QED BY <3>1, <3>2 DEF LeaseRow
    <2>2. Closed' = Closed \cup {l}
      BY <2>1 DEF Closed
    <2>3. Held' = Held \ {<<p, l>>}
      BY <2>1 DEF Held
    <2>4. CASE lease[l].status = "ACTIVE"
      <3>1. <<p, l>> \in Held
        BY <2>1, <2>4 DEF Held
      <3>2. Lock!Release(p, l)
        BY <2>2, <2>3, <3>1 DEF Lock!Release
      <3>. QED BY <2>1, <3>2 DEF Lock!Next
    <2>5. CASE lease[l].status = "RELEASED"
      <3>1. <<p, l>> \notin Held /\ l \in Closed
        BY <2>1, <2>5 DEF Held, Closed
      <3>. QED BY <2>2, <2>3, <3>1 DEF Lock!vars
    <2>. QED BY <2>1, <2>4, <2>5
  <1>. QED BY <1>1, <1>2, <1>3, LeaseOnlyChangedBy

\* Every behaviour of the leasing requests is a behaviour of the lock.
THEOREM LeasingImplementsLock == Spec => ImplementsLock
  <1>. QED BY InitLock, NextLock, TypeSafe, PTL
           DEF Spec, ImplementsLock, Lock!Spec

-----------------------------------------------------------------------------
(* Rows stay consistent, in the table and in the requests that will save     *)
(* them: every domain rule takes a consistent row to a consistent one.       *)

RowsInv == RowsConsistent /\ \A o \in Ops : RowConsistent(op[o].row)

LEMMA FreshRowsConsistent ==
    /\ RowConsistent(NewRow) /\ RowConsistent(AbsentRow)
    /\ RowConsistent(ProvisionedRow)
  BY ProvisionedAssumption, NullAssumption
     DEF RowConsistent, NewRow, AbsentRow, ProvisionedRow, UnusedDay, NoTime

LEMMA StageConsistent ==
    ASSUME NEW row \in ProfileRow, RowConsistent(row), NEW stage \in Stages
    PROVE  RowConsistent([row EXCEPT !.stage = stage])
  BY DEF RowConsistent, ProfileRow

LEMMA ConfiguredConsistent ==
    ASSUME NEW row \in ProfileRow, RowConsistent(row),
           NEW patch \in Patches, CanConfigure(row, patch)
    PROVE  RowConsistent(Configured(row, patch))
  BY DEF RowConsistent, ProfileRow, Configured, CanConfigure, Given

LEMMA AwaitingLoginConsistent ==
    ASSUME NEW row \in ProfileRow, RowConsistent(row), CanStartProvisioning(row),
           NEW token \in Tokens, NEW t \in Nat
    PROVE  RowConsistent(AwaitingLogin(row, token, t))
  BY DEF RowConsistent, ProfileRow, AwaitingLogin, CanStartProvisioning

LEMMA IngestedConsistent ==
    ASSUME NEW row \in ProfileRow, RowConsistent(row), NEW token \in Tokens,
           NEW t \in Nat, CanIngest(row, token, t), NEW ends \in SessionEnds
    PROVE  RowConsistent(Ingested(row, ends))
  <1>. DEFINE new == Ingested(row, ends)
  <1>1. /\ new.status = "READY" /\ new.health = "HEALTHY" /\ new.session = ends
        /\ new.token.status = "CONSUMED" /\ new.fingerprint = row.fingerprint
        /\ new.usage = row.usage /\ new.lastReleased = row.lastReleased
        /\ new.nextAvailable = row.nextAvailable
    BY DEF ProfileRow, Token, Ingested
  <1>2. row.fingerprint # Null /\ ends > 0
    BY InputAssumption DEF RowConsistent, CanIngest
  <1>. HIDE DEF new
  <1>3. RowConsistent(new)
    BY <1>1, <1>2 DEF RowConsistent
  <1>. QED BY <1>3 DEF new

LEMMA CheckedOutConsistent ==
    ASSUME NEW row \in ProfileRow, RowConsistent(row), NEW t \in Nat,
           NEW purpose, Eligible(row, purpose, t)
    PROVE  RowConsistent(CheckedOut(row, t))
  <1>. DEFINE used == UsageOn(row, LocalDate(row, t))
  <1>1. used \in Usage /\ (used.minutes > 0 => row.usage.minutes > 0)
    BY DateIsNat, UsageOnType DEF UsageOn, UnusedDay
  <1>2. row.status = "READY" /\ row.health = "HEALTHY"
    BY DEF Eligible
  <1>. HIDE DEF used
  <1>3. CheckedOut(row, t) = [row EXCEPT !.status = "BUSY",
                                         !.usage = [used EXCEPT !.sessions = @ + 1]]
    BY DEF CheckedOut, used
  <1>. QED BY <1>1, <1>2, <1>3 DEF RowConsistent, ProfileRow, Usage

LEMMA ReleasedConsistent ==
    ASSUME NEW row \in ProfileRow, RowConsistent(row), row.status = "BUSY",
           NEW leasedAt \in Nat, NEW t \in Nat, leasedAt <= t,
           NEW macros \in Nat, NEW observation \in Observations
    PROVE  RowConsistent(Released(row, leasedAt, t, macros, observation))
  <1>1. Cooldown(row) \in Nat
    BY CooldownIsNat
  <1>2. Observed(row.health, observation) # "NOT_PROVISIONED"
    BY DEF Observed, RowConsistent
  <1>3. ActiveMinutes(leasedAt, t) \in Nat
    BY MinutesAreNat
  <1>. QED BY <1>1, <1>2, <1>3 DEF RowConsistent, ProfileRow, Released, NoTime

LEMMA PrepareKeepsRows ==
    ASSUME TypeInv, RowsInv, NEW o \in Ops, NEW p, NEW request,
           NEW row, RowConsistent(row),
           Prepare(o, request, p, row), UNCHANGED profile
    PROVE  RowsInv'
  BY DEF Prepare, RowsInv, RowsConsistent, TypeInv, TypeOK, IdleOp

\* A step that ends a request, or only reads, saves at most the row it carried
LEMMA StepKeepsRows ==
    ASSUME TypeInv, RowsInv, NEW o \in Ops,
           \/ op' = op
           \/ op' = [op EXCEPT ![o] = IdleOp],
           \/ profile' = profile
           \/ profile' = [profile EXCEPT ![op[o].profile] = op[o].row]
    PROVE  RowsInv'
  <1>1. RowConsistent(IdleOp.row)
    BY FreshRowsConsistent DEF IdleOp
  <1>2. \A q \in Ops : RowConsistent(op'[q].row)
    BY <1>1 DEF RowsInv, TypeInv, TypeOK
  <1>3. \A p \in Profiles : RowConsistent(profile'[p])
    BY DEF RowsInv, RowsConsistent, TypeInv, TypeOK
  <1>. QED BY <1>2, <1>3 DEF RowsInv, RowsConsistent

LEMMA NextRowsInv == TypeInv /\ RowsInv /\ [Next]_vars => RowsInv'
  <1>. SUFFICES ASSUME TypeInv, RowsInv, [Next]_vars PROVE RowsInv'
    OBVIOUS
  <1>0. /\ profile \in [Profiles -> ProfileRow]
        /\ \A p \in Profiles : RowConsistent(profile[p])
    BY DEF TypeInv, TypeOK, RowsInv, RowsConsistent
  <1>1. ASSUME NEW o \in Ops, NEW p \in Profiles, CreateProfile(o, p)
        PROVE  RowsInv'
    BY <1>1, FreshRowsConsistent, PrepareKeepsRows DEF CreateProfile
  <1>2. ASSUME NEW o \in Ops, NEW p \in Profiles, UpdateConfiguration(o, p)
        PROVE  RowsInv'
    BY <1>0, <1>2, ConfiguredConsistent, PrepareKeepsRows
       DEF UpdateConfiguration
  <1>3. ASSUME NEW o \in Ops, NEW p \in Profiles, UpdateAccountStage(o, p)
        PROVE  RowsInv'
    <2>1. PICK stage \in Targets \cap NextStages(profile[p].stage) :
             Prepare(o, "STAGE", p, [profile[p] EXCEPT !.stage = stage])
      BY <1>3 DEF UpdateAccountStage
    <2>2. stage \in Stages
      BY <1>0, <2>1 DEF NextStages, Stages, ProfileRow
    <2>. QED BY <1>0, <1>3, <2>1, <2>2, StageConsistent, PrepareKeepsRows
             DEF UpdateAccountStage
  <1>4. ASSUME NEW o \in Ops, NEW p \in Profiles, StartProvisioning(o, p)
        PROVE  RowsInv'
    <2>1. PICK token \in Tokens \ minted :
             Prepare(o, "PROVISION", p, AwaitingLogin(profile[p], token, now))
      BY <1>4 DEF StartProvisioning
    <2>2. RowConsistent(AwaitingLogin(profile[p], token, now))
      BY <1>0, <1>4, AwaitingLoginConsistent
         DEF StartProvisioning, TypeInv, TypeOK
    <2>. QED BY <1>4, <2>1, <2>2, PrepareKeepsRows DEF StartProvisioning
  <1>5. ASSUME NEW o \in Ops, NEW p \in Profiles, IngestSession(o, p)
        PROVE  RowsInv'
    <2>1. PICK token \in minted, ends \in SessionEnds :
             /\ CanIngest(profile[p], token, now)
             /\ Prepare(o, "INGEST", p, Ingested(profile[p], ends))
      BY <1>5 DEF IngestSession
    <2>2. token \in Tokens /\ now \in Nat
      BY DEF TypeInv, TypeOK
    <2>3. RowConsistent(Ingested(profile[p], ends))
      BY <1>0, <2>1, <2>2, IngestedConsistent
    <2>. QED BY <1>5, <2>1, <2>3, PrepareKeepsRows DEF IngestSession
  <1>6. ASSUME NEW o \in Ops, SaveProfile(o) \/ CommitCheckout(o) \/ CommitRelease(o)
        PROVE  RowsInv'
    BY <1>6, StepKeepsRows DEF SaveProfile, CommitCheckout, CommitRelease, Saves
  <1>7. ASSUME NEW o \in Ops, Abandon(o) PROVE RowsInv'
    BY <1>7, StepKeepsRows DEF Abandon, Ends
  <1>8. ASSUME NEW o \in Ops, NEW q, BeginCheckout(o, q) \/ BeginRelease(o, q)
        PROVE  RowsInv'
    <2>1. /\ profile' = profile /\ op'[o].row = AbsentRow
          /\ \A r \in Ops \ {o} : op'[r] = op[r]
      BY <1>8 DEF BeginCheckout, BeginRelease, IdleOp, TypeInv, TypeOK
    <2>. QED BY <2>1, FreshRowsConsistent DEF RowsInv, RowsConsistent
  <1>9. ASSUME NEW o \in Ops, NEW p \in Profiles, LoadCandidate(o, p)
        PROVE  RowsInv'
    <2>1. RowConsistent(CheckedOut(profile[p], op[o].at))
      BY <1>0, <1>9, CheckedOutConsistent
         DEF LoadCandidate, TypeInv, TypeOK, Op
    <2>. QED BY <1>9, <2>1
             DEF LoadCandidate, RowsInv, RowsConsistent, TypeInv, TypeOK, Op
  <1>10. ASSUME NEW o \in Ops, LoadLeasedProfile(o) PROVE RowsInv'
    <2>. DEFINE p == op[o].profile
                leasedAt == lease[op[o].lease].leasedAt
    <2>1. PICK macros \in MacroCounts, observation \in Observations :
             op' = [op EXCEPT ![o].step = "LOADED",
                              ![o].row = Released(profile[p], leasedAt,
                                            op[o].at, macros, observation)]
      BY <1>10 DEF LoadLeasedProfile
    <2>2. /\ p \in Profiles /\ op[o].lease \in Leases /\ leasedAt <= op[o].at
          /\ op[o].at \in Nat /\ leasedAt \in Nat /\ macros \in Nat
      BY <1>10, InputAssumption
         DEF LoadLeasedProfile, TypeInv, TypeOK, OpWellFormed, Op, LeaseRow
    <2>3. RowConsistent(Released(profile[p], leasedAt, op[o].at,
                                 macros, observation))
      BY <1>0, <1>10, <2>2, ReleasedConsistent DEF LoadLeasedProfile
    <2>. QED BY <1>10, <2>1, <2>3
             DEF LoadLeasedProfile, RowsInv, RowsConsistent, TypeInv, TypeOK, Op
  <1>11. ASSUME profile' = profile, op' = op PROVE RowsInv'
    BY <1>11 DEF RowsInv, RowsConsistent
  <1>. QED BY <1>1, <1>2, <1>3, <1>4, <1>5, <1>6, <1>7, <1>8, <1>9, <1>10, <1>11
           DEF Next, OpStep, vars, UpsertSourceAccess, Tick

\* However requests interleave, a profile never shows a mixture of two rows.
THEOREM RowsStayConsistent == Spec => []RowsConsistent
  <1>1. Init => RowsInv
    BY FreshRowsConsistent DEF Init, RowsInv, RowsConsistent, IdleOp
  <1>2. RowsInv => RowsConsistent
    BY DEF RowsInv
  <1>. QED BY <1>1, <1>2, NextRowsInv, TypeSafe, PTL DEF Spec

-----------------------------------------------------------------------------
(* With leasing alone, BUSY means leased. *)

\* No request other than leasing writes a profile, and a lease is released by
\* its one holder.
LeasingOnly ==
    Requests \subseteq {"CHECKOUT", "RELEASE", "ACCESS"} /\ ~DuplicateReleases

\* A checkout will write a BUSY row; a release works on an ACTIVE lease that
\* no other release works on, and will write a READY row.
OpHolds(o) ==
    /\ op[o].request \in {Null, "CHECKOUT", "RELEASE"}
    /\ op[o].request = "CHECKOUT" /\ op[o].step = "LOADED" =>
          op[o].row.status = "BUSY"
    /\ op[o].request = "RELEASE" =>
          /\ lease[op[o].lease].status = "ACTIVE"
          /\ op[o].step = "LOADED" => op[o].row.status = "READY"
          /\ \A q \in Ops \ {o} :
                op[q].request = "RELEASE" => op[q].lease # op[o].lease

AllBusyLeased == \A p \in Profiles : BusyWhileLeased(p)

HolderInv == AllBusyLeased /\ OneActiveLease /\ \A o \in Ops : OpHolds(o)

LEMMA NextHolderInv ==
    LeasingOnly /\ TypeInv /\ HolderInv /\ [Next]_vars => HolderInv'
  <1>. SUFFICES ASSUME LeasingOnly, TypeInv, HolderInv, [Next]_vars
                PROVE  HolderInv'
    OBVIOUS
  <1>0. OneActiveLease'
    BY NextOneActiveLease DEF HolderInv
  <1>1. ASSUME UNCHANGED <<profile, lease, op>> PROVE HolderInv'
    BY <1>0, <1>1 DEF HolderInv, AllBusyLeased, BusyWhileLeased, ActiveLeases, OpHolds
  <1>2. ASSUME NEW o \in Ops, NEW p \in Profiles,
               \/ CreateProfile(o, p) \/ UpdateConfiguration(o, p)
               \/ UpdateAccountStage(o, p) \/ StartProvisioning(o, p)
               \/ IngestSession(o, p)
        PROVE  FALSE
    BY <1>2 DEF LeasingOnly, CreateProfile, UpdateConfiguration,
                UpdateAccountStage, StartProvisioning, IngestSession
  <1>3. ASSUME NEW o \in Ops, SaveProfile(o) PROVE FALSE
    BY <1>3, RequestsDiffer DEF SaveProfile, HolderInv, OpHolds
  <1>4. ASSUME NEW o \in Ops, NEW purpose \in Purposes, BeginCheckout(o, purpose)
        PROVE  HolderInv'
    <2>1. /\ op'[o].request = "CHECKOUT" /\ op'[o].step = "BEGUN"
          /\ \A q \in Ops \ {o} : op'[q] = op[q]
          /\ UNCHANGED <<profile, lease>>
      BY <1>4 DEF BeginCheckout, IdleOp, TypeInv, TypeOK
    <2>. QED BY <1>0, <2>1 DEF HolderInv, AllBusyLeased, BusyWhileLeased, ActiveLeases, OpHolds
  <1>5. ASSUME NEW o \in Ops, NEW p \in Profiles, LoadCandidate(o, p)
        PROVE  HolderInv'
    <2>1. /\ op'[o].request = "CHECKOUT"
          /\ op'[o].row = CheckedOut(profile[p], op[o].at)
          /\ \A q \in Ops \ {o} : op'[q] = op[q]
          /\ UNCHANGED <<profile, lease>>
      BY <1>5 DEF LoadCandidate, TypeInv, TypeOK, Op
    <2>2. op'[o].row.status = "BUSY"
      BY <2>1 DEF CheckedOut, TypeInv, TypeOK, ProfileRow
    <2>. QED BY <1>0, <2>1, <2>2
             DEF HolderInv, AllBusyLeased, BusyWhileLeased, ActiveLeases, OpHolds
  <1>6. ASSUME NEW o \in Ops, CommitCheckout(o) PROVE HolderInv'
    <2>0. PICK p \in Profiles : p = op[o].profile
      BY <1>6, CheckoutGrants
    <2>1. PICK l \in Leases :
             /\ lease[l].status = "NONE"
             /\ lease'[l].status = "ACTIVE"
             /\ lease'[l].profile = p
             /\ \A m \in Leases \ {l} : lease'[m] = lease[m]
      BY <1>6, <2>0, CheckoutGrants
    <2>2. /\ profile'[p].status = "BUSY"
          /\ \A q \in Profiles \ {p} : profile'[q] = profile[q]
      BY <1>6, <2>0
         DEF CommitCheckout, Saves, HolderInv, OpHolds, TypeInv, TypeOK
    <2>3. AllBusyLeased'
      <3>1. ActiveLeases(p)' # {}
        BY <2>1 DEF ActiveLeases
      <3>2. \A q \in Profiles \ {p} : ActiveLeases(q)' = ActiveLeases(q)
        BY <2>1 DEF ActiveLeases
      <3>. QED BY <2>2, <3>1, <3>2 DEF HolderInv, AllBusyLeased, BusyWhileLeased
    <2>4. ASSUME NEW q \in Ops PROVE OpHolds(q)'
      <3>1. /\ op'[o] = IdleOp /\ \A r \in Ops \ {o} : op'[r] = op[r]
        BY <1>6 DEF CommitCheckout, Saves, TypeInv, TypeOK
      <3>2. IdleOp.request = Null /\ Null \notin {"CHECKOUT", "RELEASE"}
        BY RequestsDiffer DEF IdleOp, AllRequests
      <3>3. CASE q = o
        BY <3>1, <3>2, <3>3 DEF OpHolds
      <3>4. CASE q # o
        <4>1. op[q].request = "RELEASE" => op[q].lease \in Leases \ {l}
          BY <2>1 DEF HolderInv, OpHolds, TypeInv, OpWellFormed
        <4>. QED BY <2>1, <3>1, <3>2, <3>4, <4>1 DEF HolderInv, OpHolds
      <3>. QED BY <3>3, <3>4
    <2>. QED BY <1>0, <2>3, <2>4 DEF HolderInv
  <1>7. ASSUME NEW o \in Ops, NEW l \in Leases, BeginRelease(o, l)
        PROVE  HolderInv'
    <2>1. /\ op'[o].request = "RELEASE" /\ op'[o].step = "BEGUN"
          /\ op'[o].lease = l /\ lease[l].status = "ACTIVE"
          /\ \A q \in Ops \ {o} : op'[q] = op[q]
          /\ UNCHANGED <<profile, lease>>
      BY <1>7 DEF BeginRelease, IdleOp, TypeInv, TypeOK
    <2>2. \A q \in Ops : op[q].lease # l
      BY <1>7 DEF BeginRelease, LeasingOnly
    <2>. QED BY <1>0, <2>1, <2>2
             DEF HolderInv, AllBusyLeased, BusyWhileLeased, ActiveLeases, OpHolds
  <1>8. ASSUME NEW o \in Ops, LoadLeasedProfile(o) PROVE HolderInv'
    <2>0. profile[op[o].profile] \in ProfileRow
      BY <1>8 DEF LoadLeasedProfile, TypeInv, TypeOK, OpWellFormed
    <2>1. PICK macros \in MacroCounts, observation \in Observations :
             op' = [op EXCEPT ![o].step = "LOADED",
                              ![o].row = Released(profile[op[o].profile],
                                            lease[op[o].lease].leasedAt,
                                            op[o].at, macros, observation)]
      BY <1>8 DEF LoadLeasedProfile
    <2>. DEFINE row == Released(profile[op[o].profile],
                                lease[op[o].lease].leasedAt,
                                op[o].at, macros, observation)
    <2>ready. row.status = "READY"
      BY <2>0 DEF Released, ProfileRow
    <2>. HIDE DEF row
    <2>write. op' = [op EXCEPT ![o].step = "LOADED", ![o].row = row]
      BY <2>1 DEF row
    <2>2. /\ op'[o].request = "RELEASE" /\ op'[o].lease = op[o].lease
          /\ op'[o].row.status = "READY"
          /\ \A q \in Ops \ {o} : op'[q] = op[q]
          /\ UNCHANGED <<profile, lease>>
      BY <1>8, <2>ready, <2>write DEF LoadLeasedProfile, TypeInv, TypeOK, Op
    <2>3. op[o].request = "RELEASE"
      BY <1>8 DEF LoadLeasedProfile
    <2>. QED BY <1>0, <2>2, <2>3
             DEF HolderInv, AllBusyLeased, BusyWhileLeased, ActiveLeases, OpHolds
  <1>9. ASSUME NEW o \in Ops, CommitRelease(o) PROVE HolderInv'
    <2>0. PICK p \in Profiles, l \in Leases : p = op[o].profile /\ l = op[o].lease
      BY <1>9 DEF CommitRelease, TypeInv, OpWellFormed
    <2>1. /\ lease[l].status = "ACTIVE" /\ lease[l].profile = p
          /\ lease'[l].status = "RELEASED"
          /\ \A m \in Leases \ {l} : lease'[m] = lease[m]
      <3>1. lease[l] \in LeaseRow
        BY DEF TypeInv, TypeOK
      <3>2. lease[l].status = "ACTIVE"
        BY <1>9, <2>0 DEF CommitRelease, HolderInv, OpHolds
      <3>. QED BY <1>9, <2>0, <3>1, <3>2, ReleaseCloses DEF LeaseRow
    <2>2. /\ profile'[p].status = "READY"
          /\ \A q \in Profiles \ {p} : profile'[q] = profile[q]
      BY <1>9, <2>0 DEF CommitRelease, Saves, HolderInv, OpHolds, TypeInv, TypeOK
    <2>3. AllBusyLeased'
      <3>1. ActiveLeases(p)' = {}
        BY <2>1 DEF ActiveLeases, HolderInv, OneActiveLease
      <3>2. \A q \in Profiles \ {p} : ActiveLeases(q)' = ActiveLeases(q)
        BY <2>1 DEF ActiveLeases
      <3>. QED BY <2>2, <3>1, <3>2 DEF HolderInv, AllBusyLeased, BusyWhileLeased
    <2>4. ASSUME NEW q \in Ops PROVE OpHolds(q)'
      <3>1. /\ op'[o] = IdleOp /\ \A r \in Ops \ {o} : op'[r] = op[r]
        BY <1>9 DEF CommitRelease, Saves, TypeInv, TypeOK
      <3>2. IdleOp.request = Null /\ Null \notin {"CHECKOUT", "RELEASE"}
        BY RequestsDiffer DEF IdleOp, AllRequests
      <3>3. CASE q = o
        BY <3>1, <3>2, <3>3 DEF OpHolds
      <3>4. CASE q # o
        <4>1. op[q].request = "RELEASE" => op[q].lease \in Leases \ {l}
          BY <1>9, <2>0, <3>4 DEF CommitRelease, HolderInv, OpHolds, TypeInv, OpWellFormed
        <4>. QED BY <2>1, <3>1, <3>2, <3>4, <4>1 DEF HolderInv, OpHolds
      <3>. QED BY <3>3, <3>4
    <2>. QED BY <1>0, <2>3, <2>4 DEF HolderInv
  <1>10. ASSUME NEW o \in Ops, Abandon(o) PROVE HolderInv'
    <2>1. /\ op'[o] = IdleOp /\ \A r \in Ops \ {o} : op'[r] = op[r]
          /\ UNCHANGED <<profile, lease>>
      BY <1>10 DEF Abandon, Ends, TypeInv, TypeOK
    <2>2. IdleOp.request = Null /\ Null \notin {"CHECKOUT", "RELEASE"}
      BY RequestsDiffer DEF IdleOp, AllRequests
    <2>. QED BY <1>0, <2>1, <2>2
             DEF HolderInv, AllBusyLeased, BusyWhileLeased, ActiveLeases, OpHolds
  <1>. QED BY <1>1, <1>2, <1>3, <1>4, <1>5, <1>6, <1>7, <1>8, <1>9, <1>10
           DEF Next, OpStep, vars, UpsertSourceAccess, Tick

\* When checkouts and releases are the only requests and no lease is released
\* twice at a time, a profile is BUSY exactly while it is leased, for any
\* number of profiles, leases and concurrent requests and any crash of them.
THEOREM BusyMeansLeased ==
    ASSUME LeasingOnly
    PROVE  Spec => [](\A p \in Profiles : BusyWhileLeased(p))
  <1>1. Init => HolderInv
    <2>. SUFFICES ASSUME Init PROVE HolderInv
      OBVIOUS
    <2>1. \A l \in Leases : lease[l].status = "NONE"
      BY DEF Init, NoLease
    <2>2. \A p \in Profiles : profile[p].status # "BUSY"
      BY DEF Init, ProvisionedRow, AbsentRow, NewRow
    <2>3. \A o \in Ops : op[o].request = Null /\ Null \notin {"CHECKOUT", "RELEASE"}
      BY RequestsDiffer DEF Init, IdleOp, AllRequests
    <2>. QED BY <2>1, <2>2, <2>3
             DEF HolderInv, AllBusyLeased, BusyWhileLeased, ActiveLeases, OneActiveLease, OpHolds
  <1>2. HolderInv => AllBusyLeased
    BY DEF HolderInv
  <1>3. TypeInv /\ HolderInv /\ [Next]_vars => HolderInv'
    BY NextHolderInv
  <1>. QED BY <1>1, <1>2, <1>3, TypeSafe, PTL DEF Spec, AllBusyLeased
-----------------------------------------------------------------------------
(* Sums over finite sets *)

\* Among the parts of a finite set there is one that no longer qualifies when an
\* element is taken out of it.
LEMMA SmallestPart ==
    ASSUME NEW T, IsFiniteSet(T), NEW B, B \subseteq SUBSET T, B # {}
    PROVE  \E s \in B : \A x \in s : s \ {x} \notin B
  <1>1. B \subseteq FiniteSubsetsOf(T)
    BY FS_Subset DEF FiniteSubsetsOf
  <1>2. IsWellFoundedOn(StrictSubsetOrdering(T), FiniteSubsetsOf(T))
    BY FS_StrictSubsetOrderingWellFounded
  <1>3. PICK s \in B : \A r \in B : <<r, s>> \notin StrictSubsetOrdering(T)
    BY <1>1, <1>2, WFMin
  <1>4. ASSUME NEW x \in s, s \ {x} \in B
        PROVE  FALSE
    <2>1. s \in SUBSET T /\ s \ {x} \in SUBSET T /\ s \ {x} \subseteq s /\ s \ {x} # s
      OBVIOUS
    <2>2. <<s \ {x}, s>> \in StrictSubsetOrdering(T)
      BY <2>1 DEF StrictSubsetOrdering
    <2>. QED BY <1>3, <1>4, <2>2
  <1>. QED BY <1>4

\* g gives the sum of f over each part of T, whatever it takes first.
Sums(g, f, T) ==
    /\ g \in [SUBSET T -> Nat]
    /\ g[{}] = 0
    /\ \A s \in SUBSET T : \A x \in s : g[s] = f[x] + g[s \ {x}]

LEMMA SumsExtended ==
    ASSUME NEW T, NEW a, a \notin T, NEW f \in [T \cup {a} -> Nat],
           NEW g, Sums(g, f, T)
    PROVE  \E h : Sums(h, f, T \cup {a})
  <1>. DEFINE U == T \cup {a}
              h == [s \in SUBSET U |-> IF a \in s THEN f[a] + g[s \ {a}] ELSE g[s]]
  <1>1. \A s \in SUBSET U : s \ {a} \in SUBSET T /\ (a \notin s => s \in SUBSET T)
    OBVIOUS
  <1>2. g \in [SUBSET T -> Nat] /\ g[{}] = 0
    BY DEF Sums
  <1>3. \A s \in SUBSET U : g[s \ {a}] \in Nat /\ (a \notin s => g[s] \in Nat)
    BY <1>1, <1>2
  <1>4. \A s \in SUBSET U : h[s] = IF a \in s THEN f[a] + g[s \ {a}] ELSE g[s]
    OBVIOUS
  <1>5. f[a] \in Nat /\ \A x \in U : f[x] \in Nat
    OBVIOUS
  <1>6. h \in [SUBSET U -> Nat]
    BY <1>3, <1>5
  <1>7. h[{}] = 0
    BY <1>2, <1>4
  <1>8. ASSUME NEW s \in SUBSET U, NEW x \in s
        PROVE  h[s] = f[x] + h[s \ {x}]
    <2>1. s \ {x} \in SUBSET U /\ x \in U
      OBVIOUS
    <2>2. CASE x = a
      <3>1. h[s] = f[a] + g[s \ {a}]
        BY <1>4, <2>2
      <3>2. h[s \ {x}] = g[s \ {a}]
        BY <1>4, <2>1, <2>2
      <3>. QED BY <2>2, <3>1, <3>2
    <2>3. CASE x # a /\ a \in s
      <3>1. h[s] = f[a] + g[s \ {a}]
        BY <1>4, <2>3
      <3>2. h[s \ {x}] = f[a] + g[(s \ {x}) \ {a}]
        BY <1>4, <2>1, <2>3
      <3>3. (s \ {x}) \ {a} = (s \ {a}) \ {x} /\ x \in s \ {a}
        BY <2>3
      <3>4. g[s \ {a}] = f[x] + g[(s \ {a}) \ {x}]
        BY <1>1, <3>3 DEF Sums
      <3>5. g[(s \ {a}) \ {x}] \in Nat
        BY <1>2
      <3>. DEFINE rest == g[(s \ {a}) \ {x}]
      <3>6. h[s] = f[a] + (f[x] + rest) /\ h[s \ {x}] = f[a] + rest /\ rest \in Nat
            /\ f[x] \in Nat /\ f[a] \in Nat
        BY <1>5, <3>1, <3>2, <3>3, <3>4, <3>5
      <3>. HIDE DEF rest, h
      <3>. QED BY <3>6
    <2>4. CASE a \notin s
      <3>1. h[s] = g[s] /\ h[s \ {x}] = g[s \ {x}]
        BY <1>4, <2>1, <2>4
      <3>2. s \in SUBSET T
        BY <2>4
      <3>. QED BY <3>1, <3>2 DEF Sums
    <2>. QED BY <2>2, <2>3, <2>4
  <1>9. Sums(h, f, U)
    <2>. HIDE DEF h
    <2>. QED BY <1>6, <1>7, <1>8 DEF Sums
  <1>. QED BY <1>9

LEMMA SumsExist ==
    ASSUME NEW T, IsFiniteSet(T), NEW f \in [T -> Nat]
    PROVE  \E g : Sums(g, f, T)
  <1>. DEFINE Bad == {s \in SUBSET T : ~ \E g : Sums(g, f, s)}
  <1>1. {} \notin Bad
    <2>. DEFINE g == [s \in SUBSET {} |-> 0]
    <2>1. g \in [SUBSET {} -> Nat] /\ g[{}] = 0
      OBVIOUS
    <2>2. \A s \in SUBSET {} : \A x \in s : FALSE
      OBVIOUS
    <2>. HIDE DEF g
    <2>3. Sums(g, f, {})
      BY <2>1, <2>2, Zenon DEF Sums
    <2>. QED BY <2>3
  <1>2. ASSUME NEW s \in SUBSET T, NEW x \in s, s \ {x} \notin Bad
        PROVE  s \notin Bad
    <2>. DEFINE r == s \ {x}
                e == [y \in r \cup {x} |-> f[y]]
    <2>1. r \in SUBSET T /\ x \notin r /\ r \cup {x} = s
      OBVIOUS
    <2>2. PICK g : Sums(g, f, r)
      BY <1>2, <2>1
    <2>3. e \in [r \cup {x} -> Nat] /\ \A y \in r \cup {x} : e[y] = f[y]
      BY <2>1
    <2>. HIDE DEF e, r
    <2>4. Sums(g, e, r)
      BY <2>2, <2>3 DEF Sums
    <2>5. PICK h : Sums(h, e, r \cup {x})
      BY <2>1, <2>3, <2>4, SumsExtended
    <2>6. Sums(h, f, r \cup {x})
      BY <2>3, <2>5 DEF Sums
    <2>. QED BY <2>1, <2>6
  <1>3. Bad = {}
    <2>1. Bad \subseteq SUBSET T
      OBVIOUS
    <2>. HIDE DEF Bad
    <2>. SUFFICES ASSUME Bad # {} PROVE FALSE
      OBVIOUS
    <2>2. PICK s \in Bad : \A x \in s : s \ {x} \notin Bad
      BY <2>1, SmallestPart
    <2>3. s # {} /\ s \in SUBSET T
      BY <1>1, <2>1, <2>2
    <2>. QED BY <1>2, <2>2, <2>3
  <1>. QED BY <1>3

Picked(s) == CHOOSE x \in s : TRUE

TakesPicked(h, f, T) ==
    \A s \in SUBSET T : h[s] = IF s = {} THEN 0 ELSE f[Picked(s)] + h[s \ {Picked(s)}]

\* A function that sums by taking one chosen element after another does what any
\* other order does.
LEMMA AnyOrder ==
    ASSUME NEW T, IsFiniteSet(T), NEW f, NEW g, Sums(g, f, T), NEW h,
           TakesPicked(h, f, T)
    PROVE  \A s \in SUBSET T : h[s] = g[s]
  <1>. DEFINE Bad == {s \in SUBSET T : h[s] # g[s]}
  <1>1. {} \notin Bad
    BY DEF Sums, TakesPicked
  <1>2. ASSUME NEW s \in SUBSET T, s # {}, \A x \in s : s \ {x} \notin Bad
        PROVE  s \notin Bad
    <2>. DEFINE y == Picked(s)
    <2>1. y \in s
      BY <1>2 DEF Picked
    <2>2. h[s] = f[y] + h[s \ {y}]
      BY <1>2 DEF TakesPicked
    <2>. HIDE DEF y
    <2>3. g[s] = f[y] + g[s \ {y}]
      BY <2>1 DEF Sums
    <2>4. h[s \ {y}] = g[s \ {y}]
      BY <1>2, <2>1
    <2>. QED BY <2>2, <2>3, <2>4
  <1>3. Bad = {}
    <2>1. Bad \subseteq SUBSET T
      OBVIOUS
    <2>. HIDE DEF Bad
    <2>. SUFFICES ASSUME Bad # {} PROVE FALSE
      OBVIOUS
    <2>2. PICK s \in Bad : \A x \in s : s \ {x} \notin Bad
      BY <2>1, SmallestPart
    <2>3. s # {} /\ s \in SUBSET T
      BY <1>1, <2>1, <2>2
    <2>. QED BY <1>2, <2>2, <2>3
  <1>. QED BY <1>3

\* What a closed lease is charged, and a set of them
Charge(ls, l) ==
    LET duration == ls[l].released - ls[l].leasedAt
    IN  Min({m \in 0 .. duration : m * TicksPerMinute >= duration})

Minutes(ls, S) == MapThenSumSet(LAMBDA l : Charge(ls, l), S)

\* It is what the release added to the counter: the duration, rounded up.
LEMMA RoundsUp ==
    ASSUME NEW d \in Nat
    PROVE  LET q == (d + TicksPerMinute - 1) \div TicksPerMinute
           IN  /\ q \in 0 .. d /\ q * TicksPerMinute >= d
               /\ \A m \in Nat : m * TicksPerMinute >= d => q <= m
  <1>. DEFINE T == TicksPerMinute
              q == (d + T - 1) \div T
              r == (d + T - 1) % T
  <1>1. T \in Nat /\ T >= 1
    BY TimeAssumption
  <1>. HIDE DEF T
  <1>2. /\ q \in Nat /\ r \in Nat /\ r < T /\ d + T - 1 = T * q + r
    BY <1>1
  <1>. HIDE DEF q, r
  <1>3. T * q >= d /\ T * q < d + T
    BY <1>1, <1>2
  <1>4. q <= d
    <2>. SUFFICES ASSUME q >= d + 1 PROVE FALSE
      BY <1>2
    <2>1. T * q >= T * (d + 1)
      BY <1>1, <1>2
    <2>2. T * (d + 1) = T * d + T
      BY <1>1
    <2>3. T * d >= d
      <3>. DEFINE k == T - 1
      <3>1. k \in Nat /\ T = k + 1
        BY <1>1
      <3>. HIDE DEF k
      <3>2. (k + 1) * d = k * d + d /\ k * d \in Nat
        BY <3>1
      <3>. QED BY <3>1, <3>2
    <2>4. T * (d + 1) \in Nat /\ T * q \in Nat /\ T * d \in Nat
      BY <1>1, <1>2
    <2>. QED BY <1>1, <1>3, <2>1, <2>2, <2>3, <2>4
  <1>5. ASSUME NEW m \in Nat, m * T >= d, m < q PROVE FALSE
    <2>1. T * (m + 1) <= T * q
      BY <1>1, <1>2, <1>5
    <2>2. T * (m + 1) = m * T + T
      BY <1>1
    <2>. QED BY <1>1, <1>2, <1>3, <1>5, <2>1, <2>2
  <1>. QED BY <1>1, <1>2, <1>3, <1>4, <1>5 DEF q, T

LEMMA ChargeIs ==
    ASSUME NEW ls, NEW l, ls[l].leasedAt \in Nat, ls[l].released \in Nat,
           ls[l].leasedAt <= ls[l].released
    PROVE  /\ Charge(ls, l) = ActiveMinutes(ls[l].leasedAt, ls[l].released)
           /\ Charge(ls, l) \in Nat
  <1>. DEFINE d == ls[l].released - ls[l].leasedAt
              q == (d + TicksPerMinute - 1) \div TicksPerMinute
              S == {m \in 0 .. d : m * TicksPerMinute >= d}
  <1>1. d \in Nat
    OBVIOUS
  <1>2. /\ Charge(ls, l) = Min(S)
        /\ ActiveMinutes(ls[l].leasedAt, ls[l].released) = q
    BY DEF Charge, ActiveMinutes
  <1>. HIDE DEF d
  <1>3. q \in S /\ q \in Nat /\ \A m \in S : q <= m
    BY <1>1, RoundsUp
  <1>. HIDE DEF q
  <1>4. ASSUME NEW x \in S, \A m \in S : x <= m PROVE x = q
    BY <1>1, <1>3, <1>4
  <1>. HIDE DEF S
  <1>5. Min(S) = q
    BY <1>3, <1>4 DEF Min
  <1>. QED BY <1>2, <1>3, <1>5

\* A lease that ends before n minutes are over is charged at most n.
LEMMA ChargedAtMost ==
    ASSUME NEW leasedAt \in Nat, NEW t \in Nat, leasedAt <= t, NEW n \in Nat,
           t - leasedAt < n * TicksPerMinute
    PROVE  ActiveMinutes(leasedAt, t) <= n
  <1>. DEFINE d == t - leasedAt
  <1>1. d \in Nat /\ n * TicksPerMinute >= d
    <2>1. n * TicksPerMinute \in Nat
      BY TimeAssumption
    <2>. QED BY <2>1
  <1>2. ActiveMinutes(leasedAt, t) = (d + TicksPerMinute - 1) \div TicksPerMinute
    BY DEF ActiveMinutes
  <1>. HIDE DEF d
  <1>. QED BY <1>1, <1>2, RoundsUp

LEMMA MinutesAre ==
    ASSUME NEW T, IsFiniteSet(T), NEW f \in [T -> Nat], NEW g, Sums(g, f, T), NEW ls,
           \A l \in T : f[l] = Charge(ls, l),
           NEW S \in SUBSET T
    PROVE  Minutes(ls, S) = g[S]
  <1>. DEFINE Iterates(h) == h = [s \in SUBSET S |->
                 IF s = {} THEN 0
                 ELSE Charge(ls, CHOOSE x \in s : TRUE)
                      + h[s \ {CHOOSE x \in s : TRUE}]]
              F == CHOOSE h : Iterates(h)
              e == [s \in SUBSET S |-> g[s]]
  <1>1. \A s \in SUBSET T : s # {} => (CHOOSE x \in s : TRUE) \in s
    OBVIOUS
  <1>2. Minutes(ls, S) = F[S]
    BY Zenon DEF Minutes, MapThenSumSet, MapThenFoldSet
  <1>3. Iterates(e)
    <2>1. \A s \in SUBSET S : e[s] = g[s]
      OBVIOUS
    <2>2. ASSUME NEW s \in SUBSET S
          PROVE  e[s] = IF s = {} THEN 0
                        ELSE Charge(ls, CHOOSE x \in s : TRUE)
                             + e[s \ {CHOOSE x \in s : TRUE}]
      <3>1. CASE s = {}
        BY <2>1, <3>1 DEF Sums
      <3>2. CASE s # {}
        <4>. DEFINE y == CHOOSE x \in s : TRUE
        <4>1. y \in s /\ s \in SUBSET T /\ s \ {y} \in SUBSET S
          BY <1>1, <3>2
        <4>. HIDE DEF y, e
        <4>2. g[s] = f[y] + g[s \ {y}]
          BY <4>1 DEF Sums
        <4>3. e[s] = Charge(ls, y) + e[s \ {y}]
          BY <2>1, <4>1, <4>2
        <4>. QED BY <3>2, <4>3 DEF y
      <3>. QED BY <3>1, <3>2
    <2>3. e = [s \in SUBSET S |-> e[s]]
      OBVIOUS
    <2>. HIDE DEF e
    <2>. QED BY <2>2, <2>3, Zenon
  <1>4. Iterates(F)
    <2>1. \E h : Iterates(h)
      BY <1>3
    <2>. HIDE DEF Iterates
    <2>. QED BY <2>1
  <1>5. \A s \in SUBSET S :
           F[s] = IF s = {} THEN 0
                  ELSE Charge(ls, CHOOSE x \in s : TRUE)
                       + F[s \ {CHOOSE x \in s : TRUE}]
    <2>. HIDE DEF F
    <2>. QED BY <1>4, Zenon
  <1>. HIDE DEF F, Iterates
  <1>6. TakesPicked(F, f, S)
    <2>. SUFFICES ASSUME NEW s \in SUBSET S, s # {}
                  PROVE  F[s] = f[Picked(s)] + F[s \ {Picked(s)}]
      BY <1>5 DEF TakesPicked
    <2>. DEFINE y == CHOOSE x \in s : TRUE
    <2>1. y \in T
      BY <1>1
    <2>2. F[s] = Charge(ls, y) + F[s \ {y}]
      BY <1>5
    <2>. HIDE DEF y
    <2>3. F[s] = f[y] + F[s \ {y}]
      BY <2>1, <2>2
    <2>. QED BY <2>3 DEF y, Picked
  <1>7. Sums(e, f, S)
    <2>1. \A s \in SUBSET S : e[s] = g[s] /\ g[s] \in Nat
      BY DEF Sums
    <2>2. e \in [SUBSET S -> Nat]
      BY <2>1
    <2>. HIDE DEF e
    <2>3. \A s \in SUBSET S : \A x \in s : e[s] = f[x] + e[s \ {x}]
      BY <2>1 DEF Sums
    <2>. QED BY <2>1, <2>2, <2>3 DEF Sums
  <1>8. \A s \in SUBSET S : F[s] = e[s]
    <2>1. IsFiniteSet(S)
      BY FS_Subset
    <2>. HIDE DEF e
    <2>. QED BY <1>6, <1>7, <2>1, AnyOrder
  <1>9. e[S] = g[S]
    OBVIOUS
  <1>. QED BY <1>2, <1>8, <1>9

LEMMA MinutesTyped ==
    ASSUME NEW S, IsFiniteSet(S), NEW ls,
           \A l \in S : Charge(ls, l) \in Nat
    PROVE  /\ Minutes(ls, S) \in Nat
           /\ S = {} => Minutes(ls, S) = 0
  <1>. DEFINE f == [l \in S |-> Charge(ls, l)]
  <1>1. f \in [S -> Nat] /\ \A l \in S : f[l] = Charge(ls, l)
    OBVIOUS
  <1>. HIDE DEF f
  <1>2. PICK g : Sums(g, f, S)
    BY <1>1, SumsExist
  <1>3. Minutes(ls, S) = g[S]
    <2>1. S \in SUBSET S
      OBVIOUS
    <2>. QED BY <1>1, <1>2, <2>1, MinutesAre
  <1>. QED BY <1>2, <1>3 DEF Sums

\* One lease more
LEMMA MinutesMore ==
    ASSUME NEW S, IsFiniteSet(S), NEW l, l \notin S, NEW ls,
           \A m \in S \cup {l} : Charge(ls, m) \in Nat
    PROVE  Minutes(ls, S \cup {l}) = Minutes(ls, S) + Charge(ls, l)
  <1>. DEFINE T == S \cup {l}
              f == [m \in T |-> Charge(ls, m)]
  <1>1. f \in [T -> Nat] /\ \A m \in T : f[m] = Charge(ls, m)
    OBVIOUS
  <1>2. IsFiniteSet(T)
    BY FS_AddElement
  <1>3. S \in SUBSET T /\ T \in SUBSET T /\ l \in T /\ T \ {l} = S
    OBVIOUS
  <1>. HIDE DEF f, T
  <1>4. PICK g : Sums(g, f, T)
    BY <1>1, <1>2, SumsExist
  <1>5. Minutes(ls, T) = g[T]
    BY <1>1, <1>2, <1>3, <1>4, MinutesAre
  <1>6. Minutes(ls, S) = g[S]
    BY <1>1, <1>2, <1>3, <1>4, MinutesAre
  <1>7. g[T] = f[l] + g[S] /\ g[S] \in Nat /\ f[l] \in Nat
    BY <1>1, <1>3, <1>4 DEF Sums
  <1>8. Minutes(ls, T) = Minutes(ls, S) + Charge(ls, l)
    BY <1>1, <1>3, <1>5, <1>6, <1>7
  <1>. QED BY <1>8 DEF T

\* Two tables that agree on a set of leases
LEMMA MinutesAgree ==
    ASSUME NEW S, IsFiniteSet(S), NEW ls, NEW old,
           \A l \in S : Charge(ls, l) \in Nat,
           \A l \in S : old[l].released = ls[l].released /\ old[l].leasedAt = ls[l].leasedAt
    PROVE  Minutes(old, S) = Minutes(ls, S)
  <1>. DEFINE f == [l \in S |-> Charge(ls, l)]
  <1>1. /\ f \in [S -> Nat] /\ S \in SUBSET S
        /\ \A l \in S : f[l] = Charge(ls, l)
        /\ \A l \in S : f[l] = Charge(old, l)
    BY DEF Charge
  <1>. HIDE DEF f
  <1>2. PICK g : Sums(g, f, S)
    BY <1>1, SumsExist
  <1>3. Minutes(ls, S) = g[S]
    BY <1>1, <1>2, MinutesAre
  <1>4. Minutes(old, S) = g[S]
    BY <1>1, <1>2, MinutesAre
  <1>. QED BY <1>3, <1>4

-----------------------------------------------------------------------------
(* What a row says of the leases of its profile *)

LeasesIn(ls, p) == {l \in Leases : ls[l].profile = p}
Started(ls, row, p, d) ==
    {l \in Leases : ls[l].profile = p /\ LocalDate(row, ls[l].leasedAt) = d}
Ended(ls, row, p, d) ==
    {l \in Leases : /\ ls[l].profile = p /\ ls[l].status = "RELEASED"
                    /\ LocalDate(row, ls[l].released) = d}

\* Leases that were granted, and closed if at all after they began
Orderly(ls, p) ==
    /\ IsFiniteSet(LeasesIn(ls, p))
    /\ \A l \in LeasesIn(ls, p) :
          /\ ls[l].status \in {"ACTIVE", "RELEASED"} /\ ls[l].leasedAt \in Nat
          /\ ls[l].status = "RELEASED" =>
                ls[l].released \in Nat /\ ls[l].leasedAt <= ls[l].released

\* Lease l began or ended on day d.
Touches(ls, row, l, d) ==
    \/ LocalDate(row, ls[l].leasedAt) = d
    \/ ls[l].status = "RELEASED" /\ LocalDate(row, ls[l].released) = d

\* The counters are those of the last day on which something happened.
Accounted(ls, row, p) ==
    /\ row.usage.date = NoTime <=> LeasesIn(ls, p) = {}
    /\ row.usage.date # NoTime =>
          /\ row.usage.sessions = Cardinality(Started(ls, row, p, row.usage.date))
          /\ row.usage.minutes = Minutes(ls, Ended(ls, row, p, row.usage.date))
          /\ \E l \in LeasesIn(ls, p) : Touches(ls, row, l, row.usage.date)
    /\ \A l \in LeasesIn(ls, p) :
          /\ LocalDate(row, ls[l].leasedAt) <= row.usage.date
          /\ ls[l].status = "RELEASED" =>
                /\ LocalDate(row, ls[l].released) <= row.usage.date
                /\ ls[l].released <= row.lastReleased

\* Nothing happened after t.
SeenBy(ls, row, p, t) ==
    /\ row.usage.date <= LocalDate(row, t)
    /\ \A l \in LeasesIn(ls, p) :
          ls[l].leasedAt <= t /\ (ls[l].status = "RELEASED" => ls[l].released <= t)

\* How long a lease lasts at most
Longest(row) == row.config.thresholds.minutes * TicksPerMinute

Rested(ls, row, first, second) ==
    /\ ls[first].status = "RELEASED"
    /\ ls[first].released + Cooldown(row) <= ls[second].leasedAt

\* The limits of the row were honoured, and will be when an open lease is closed.
Limited(ls, row, p) ==
    LET limit == row.config.thresholds IN
    LeasesIn(ls, p) # {} =>
       /\ limit.minutes > 0
       /\ \A d \in Nat : /\ Cardinality(Started(ls, row, p, d)) <= limit.sessions
                         /\ Minutes(ls, Ended(ls, row, p, d)) <= 2 * limit.minutes - 1
       /\ \A l \in LeasesIn(ls, p) :
             /\ ls[l].expires <= ls[l].leasedAt + Longest(row)
             /\ ls[l].status = "ACTIVE" => row.usage.minutes <= limit.minutes - 1
       /\ \A l \in LeasesIn(ls, p), m \in LeasesIn(ls, p) :
             l # m => Rested(ls, row, l, m) \/ Rested(ls, row, m, l)

Fair(ls, row, p) == Orderly(ls, p) /\ Accounted(ls, row, p) /\ Limited(ls, row, p)

LEMMA PartsAreFinite ==
    ASSUME NEW ls, NEW row, NEW p, NEW d, Orderly(ls, p)
    PROVE  /\ Started(ls, row, p, d) \subseteq LeasesIn(ls, p)
           /\ Ended(ls, row, p, d) \subseteq LeasesIn(ls, p)
           /\ IsFiniteSet(Started(ls, row, p, d)) /\ IsFiniteSet(Ended(ls, row, p, d))
           /\ \A l \in Ended(ls, row, p, d) : Charge(ls, l) \in Nat
  <1>1. /\ Started(ls, row, p, d) \subseteq LeasesIn(ls, p)
        /\ Ended(ls, row, p, d) \subseteq LeasesIn(ls, p)
    BY DEF Started, Ended, LeasesIn
  <1>2. IsFiniteSet(Started(ls, row, p, d)) /\ IsFiniteSet(Ended(ls, row, p, d))
    BY <1>1, FS_Subset DEF Orderly
  <1>3. ASSUME NEW l \in Ended(ls, row, p, d)
        PROVE  Charge(ls, l) \in Nat
    BY ChargeIs DEF Orderly, Ended, LeasesIn
  <1>. QED BY <1>1, <1>2, <1>3

\* A day has the same leases in two tables that agree on a profile, for two rows of
\* one clock.
LEMMA SameDays ==
    ASSUME NEW ls, NEW row, NEW p, NEW d, Orderly(ls, p), NEW new, NEW succ,
           LeasesIn(new, p) = LeasesIn(ls, p),
           \A l \in LeasesIn(ls, p) : new[l] = ls[l],
           succ.config.routine.offset = row.config.routine.offset
    PROVE  /\ Started(new, succ, p, d) = Started(ls, row, p, d)
           /\ Ended(new, succ, p, d) = Ended(ls, row, p, d)
           /\ Minutes(new, Ended(ls, row, p, d)) = Minutes(ls, Ended(ls, row, p, d))
  <1>1. \A t : LocalDate(succ, t) = LocalDate(row, t)
    BY DEF LocalDate
  <1>2. \A l \in Leases : new[l].profile = p <=> ls[l].profile = p
    BY DEF LeasesIn
  <1>3. \A l \in Leases : ls[l].profile = p => new[l] = ls[l]
    BY DEF LeasesIn
  <1>4. Started(new, succ, p, d) = Started(ls, row, p, d)
    BY <1>1, <1>2, <1>3 DEF Started
  <1>5. Ended(new, succ, p, d) = Ended(ls, row, p, d)
    BY <1>1, <1>2, <1>3 DEF Ended
  <1>6. Minutes(new, Ended(ls, row, p, d)) = Minutes(ls, Ended(ls, row, p, d))
    <2>1. \A l \in Ended(ls, row, p, d) :
             new[l].released = ls[l].released /\ new[l].leasedAt = ls[l].leasedAt
      BY <1>3 DEF Ended
    <2>. QED BY <2>1, PartsAreFinite, MinutesAgree
  <1>. QED BY <1>4, <1>5, <1>6

\* The limits of a row are no stricter than they were.
Relaxed(old, new) ==
    /\ Cooldown(new) <= Cooldown(old)
    /\ old.config.thresholds.sessions <= new.config.thresholds.sessions
    /\ old.config.thresholds.minutes <= new.config.thresholds.minutes

LEMMA LongestGrows ==
    ASSUME NEW old \in ProfileRow, NEW new \in ProfileRow,
           old.config.thresholds.minutes <= new.config.thresholds.minutes
    PROVE  /\ Longest(old) \in Nat /\ Longest(new) \in Nat
           /\ Longest(old) <= Longest(new)
  <1>. DEFINE a == old.config.thresholds.minutes
              b == new.config.thresholds.minutes
              T == TicksPerMinute
  <1>1. a \in Nat /\ b \in Nat /\ a <= b /\ T \in Nat
    BY TimeAssumption DEF ProfileRow, Config, Thresholds
  <1>2. Longest(old) = a * T /\ Longest(new) = b * T
    BY DEF Longest
  <1>. HIDE DEF a, b, T
  <1>3. a * T \in Nat /\ b * T \in Nat /\ a * T <= b * T
    BY <1>1
  <1>. QED BY <1>2, <1>3

\* What does not concern the leases of a profile
LEMMA FairKept ==
    ASSUME NEW ls \in [Leases -> LeaseRow], NEW row \in ProfileRow, NEW p, Fair(ls, row, p),
           NEW new, NEW succ \in ProfileRow,
           LeasesIn(new, p) = LeasesIn(ls, p),
           \A l \in LeasesIn(ls, p) : new[l] = ls[l],
           succ.usage = row.usage, succ.lastReleased = row.lastReleased,
           LeasesIn(ls, p) # {} =>
              /\ succ.config.routine.offset = row.config.routine.offset
              /\ Relaxed(row, succ)
    PROVE  Fair(new, succ, p)
  <1>1. Orderly(new, p)
    BY DEF Fair, Orderly
  <1>2. CASE LeasesIn(ls, p) = {}
    <2>1. row.usage.date = NoTime
      BY <1>2 DEF Fair, Accounted
    <2>. QED BY <1>1, <1>2, <2>1 DEF Fair, Accounted, Limited
  <1>3. CASE LeasesIn(ls, p) # {}
    <2>. DEFINE limit == row.config.thresholds
                wider == succ.config.thresholds
    <2>1. \A d : /\ Started(new, succ, p, d) = Started(ls, row, p, d)
                 /\ Ended(new, succ, p, d) = Ended(ls, row, p, d)
                 /\ Minutes(new, Ended(ls, row, p, d)) = Minutes(ls, Ended(ls, row, p, d))
      BY <1>3, SameDays DEF Fair
    <2>2. \A t : LocalDate(succ, t) = LocalDate(row, t)
      BY <1>3 DEF LocalDate
    <2>3. Accounted(new, succ, p)
      BY <2>1, <2>2 DEF Fair, Accounted, Touches
    <2>4. /\ limit.sessions \in Nat /\ limit.minutes \in Nat
          /\ wider.sessions \in Nat /\ wider.minutes \in Nat
          /\ row.usage.minutes \in Nat
      BY DEF ProfileRow, Config, Thresholds, Usage
    <2>5. limit.sessions <= wider.sessions /\ limit.minutes <= wider.minutes
      BY <1>3 DEF Relaxed
    <2>6. Cooldown(succ) <= Cooldown(row) /\ Cooldown(succ) \in Nat /\ Cooldown(row) \in Nat
      BY <1>3, CooldownIsNat DEF Relaxed
    <2>7. Limited(ls, row, p) /\ Orderly(ls, p)
      BY DEF Fair
    <2>8. limit.minutes > 0
      BY <1>3, <2>7 DEF Limited
    <2>9. ASSUME NEW d \in Nat
          PROVE  /\ Cardinality(Started(new, succ, p, d)) <= wider.sessions
                 /\ Minutes(new, Ended(new, succ, p, d)) <= 2 * wider.minutes - 1
      <3>1. /\ Cardinality(Started(ls, row, p, d)) <= limit.sessions
            /\ Minutes(ls, Ended(ls, row, p, d)) <= 2 * limit.minutes - 1
        BY <1>3, <2>7 DEF Limited
      <3>2. /\ Cardinality(Started(ls, row, p, d)) \in Nat
            /\ Minutes(ls, Ended(ls, row, p, d)) \in Nat
        BY <2>7, PartsAreFinite, FS_CardinalityType, MinutesTyped
      <3>. HIDE DEF limit, wider
      <3>. QED BY <2>1, <2>4, <2>5, <3>1, <3>2
    <2>10. ASSUME NEW l \in LeasesIn(new, p)
           PROVE  /\ new[l].expires <= new[l].leasedAt + Longest(succ)
                  /\ new[l].status = "ACTIVE" => succ.usage.minutes <= wider.minutes - 1
      <3>0. l \in LeasesIn(ls, p) /\ new[l] = ls[l]
        OBVIOUS
      <3>1. ls[l].status = "ACTIVE" => row.usage.minutes <= limit.minutes - 1
        BY <3>0, <2>7 DEF Limited
      <3>2. ls[l].expires <= ls[l].leasedAt + Longest(row)
        BY <3>0, <2>7 DEF Limited
      <3>3. ls[l].leasedAt \in Nat /\ ls[l].expires \in Nat
        BY <3>0, <2>7 DEF Orderly, LeasesIn, LeaseRow
      <3>4. Longest(row) \in Nat /\ Longest(succ) \in Nat /\ Longest(row) <= Longest(succ)
        BY <2>5, LongestGrows
      <3>. HIDE DEF limit, wider
      <3>. QED BY <2>4, <2>5, <3>0, <3>1, <3>2, <3>3, <3>4
    <2>11. ASSUME NEW l \in LeasesIn(ls, p), NEW m \in LeasesIn(ls, p), Rested(ls, row, l, m)
           PROVE  Rested(new, succ, l, m)
      <3>1. /\ ls[l].released \in Nat /\ ls[m].leasedAt \in Nat
            /\ ls[l].released + Cooldown(row) <= ls[m].leasedAt
        BY <2>7, <2>11 DEF Orderly, Rested
      <3>2. ls[l].released + Cooldown(succ) <= ls[m].leasedAt
        BY <2>6, <3>1
      <3>. QED BY <2>11, <3>2 DEF Rested
    <2>12. \A l \in LeasesIn(new, p), m \in LeasesIn(new, p) :
              l # m => Rested(new, succ, l, m) \/ Rested(new, succ, m, l)
      BY <1>3, <2>7, <2>11 DEF Limited
    <2>13. wider.minutes > 0
      <3>. HIDE DEF limit, wider
      <3>. QED BY <2>4, <2>5, <2>8
    <2>14. Limited(new, succ, p)
      BY <2>9, <2>10, <2>12, <2>13 DEF Limited
    <2>. QED BY <1>1, <2>3, <2>14 DEF Fair
  <1>. QED BY <1>2, <1>3

LEMMA SeenKept ==
    ASSUME NEW ls, NEW row, NEW p, Fair(ls, row, p), NEW t \in Nat, SeenBy(ls, row, p, t),
           NEW new, NEW succ \in ProfileRow,
           LeasesIn(new, p) = LeasesIn(ls, p),
           \A l \in LeasesIn(ls, p) : new[l] = ls[l],
           succ.usage = row.usage,
           LeasesIn(ls, p) # {} =>
              succ.config.routine.offset = row.config.routine.offset
    PROVE  SeenBy(new, succ, p, t)
  <1>1. succ.usage.date <= LocalDate(succ, t)
    <2>1. CASE LeasesIn(ls, p) = {}
      <3>1. succ.usage.date = -1
        BY <2>1 DEF Fair, Accounted, NoTime
      <3>2. LocalDate(succ, t) \in Nat
        BY DateIsNat
      <3>. QED BY <3>1, <3>2
    <2>2. CASE LeasesIn(ls, p) # {}
      BY <2>2 DEF SeenBy, LocalDate
    <2>. QED BY <2>1, <2>2
  <1>. QED BY <1>1 DEF SeenBy

\* Days go on.
LEMMA DatesInOrder ==
    ASSUME NEW row \in ProfileRow, NEW s \in Nat, NEW t \in Nat, s <= t
    PROVE  LocalDate(row, s) <= LocalDate(row, t)
  <1>. DEFINE a == s + row.config.routine.offset
              b == t + row.config.routine.offset
  <1>1. row.config.routine.offset \in Nat
    BY DEF ProfileRow, Config, Routine
  <1>2. a \in Nat /\ b \in Nat /\ a <= b /\ DayTicks \in Nat \ {0}
    BY <1>1, TimeAssumption
  <1>. HIDE DEF a, b
  <1>3. a \div DayTicks <= b \div DayTicks
    BY <1>2
  <1>. QED BY <1>3 DEF LocalDate, a, b

LEMMA SeenLater ==
    ASSUME NEW ls \in [Leases -> LeaseRow], NEW row \in ProfileRow, NEW p,
           Orderly(ls, p),
           NEW s \in Nat, NEW t \in Nat, s <= t, SeenBy(ls, row, p, s)
    PROVE  SeenBy(ls, row, p, t)
  <1>1. LocalDate(row, s) <= LocalDate(row, t)
    BY DatesInOrder
  <1>2. LocalDate(row, s) \in Nat /\ LocalDate(row, t) \in Nat
    BY DateIsNat
  <1>3. row.usage.date \in Int
    BY DEF ProfileRow, Usage, NoTime
  <1>4. row.usage.date <= LocalDate(row, t)
    BY <1>1, <1>2, <1>3 DEF SeenBy
  <1>5. ASSUME NEW l \in LeasesIn(ls, p)
        PROVE  ls[l].leasedAt <= t /\ (ls[l].status = "RELEASED" => ls[l].released <= t)
    BY DEF SeenBy, Orderly
  <1>. QED BY <1>4, <1>5 DEF SeenBy


-----------------------------------------------------------------------------
(* A checkout keeps the account *)

LEMMA CheckedOutFields ==
    ASSUME NEW row \in ProfileRow, NEW t \in Nat
    PROVE  LET used == UsageOn(row, LocalDate(row, t))
               succ == CheckedOut(row, t)
           IN  /\ succ.config = row.config /\ succ.lastReleased = row.lastReleased
               /\ succ.usage.date = LocalDate(row, t)
               /\ succ.usage.sessions = used.sessions + 1
               /\ succ.usage.minutes = used.minutes
  <1>. DEFINE used == UsageOn(row, LocalDate(row, t))
              next == [used EXCEPT !.sessions = @ + 1]
              succ == CheckedOut(row, t)
  <1>1. used \in Usage /\ used.date = LocalDate(row, t)
    BY DateIsNat, UsageOnType DEF UsageOn, UnusedDay
  <1>. HIDE DEF used
  <1>2. /\ next.date = LocalDate(row, t) /\ next.sessions = used.sessions + 1
        /\ next.minutes = used.minutes
    BY <1>1 DEF Usage
  <1>. HIDE DEF next
  <1>3. succ = [row EXCEPT !.status = "BUSY", !.usage = next]
    BY DEF CheckedOut, used, next
  <1>4. /\ succ.config = row.config /\ succ.lastReleased = row.lastReleased
        /\ succ.usage = next
    BY <1>3 DEF ProfileRow
  <1>. QED BY <1>2, <1>4 DEF used

\* What the counters of a day say, yesterday's reading as zero
LEMMA UsageOfDay ==
    ASSUME NEW ls \in [Leases -> LeaseRow], NEW row \in ProfileRow, NEW p, NEW t \in Nat,
           Orderly(ls, p), Accounted(ls, row, p), SeenBy(ls, row, p, t)
    PROVE  LET d == LocalDate(row, t)
               used == UsageOn(row, d)
           IN  /\ used.sessions = Cardinality(Started(ls, row, p, d))
               /\ used.minutes = Minutes(ls, Ended(ls, row, p, d))
  <1>. DEFINE d == LocalDate(row, t)
              used == UsageOn(row, d)
  <1>1. d \in Nat /\ d # NoTime
    BY DateIsNat DEF NoTime
  <1>2. CASE row.usage.date = d
    BY <1>1, <1>2 DEF UsageOn, Accounted
  <1>3. CASE row.usage.date # d
    <2>1. used.sessions = 0 /\ used.minutes = 0
      BY <1>3 DEF UsageOn, UnusedDay
    <2>. HIDE DEF used
    <2>2. row.usage.date < d
      <3>1. row.usage.date \in Int
        BY DEF ProfileRow, Usage, NoTime
      <3>2. row.usage.date <= d
        BY DEF SeenBy
      <3>. HIDE DEF d
      <3>. QED BY <1>1, <1>3, <3>1, <3>2
    <2>3. ASSUME NEW l \in LeasesIn(ls, p)
          PROVE  /\ LocalDate(row, ls[l].leasedAt) # d
                 /\ ls[l].status = "RELEASED" => LocalDate(row, ls[l].released) # d
      <3>1. row.usage.date \in Int
        BY DEF ProfileRow, Usage, NoTime
      <3>2. LocalDate(row, ls[l].leasedAt) <= row.usage.date
        BY DEF Accounted
      <3>3. ls[l].status = "RELEASED" => LocalDate(row, ls[l].released) <= row.usage.date
        BY DEF Accounted
      <3>4. LocalDate(row, ls[l].leasedAt) \in Nat
        BY DateIsNat DEF Orderly
      <3>5. ls[l].status = "RELEASED" => LocalDate(row, ls[l].released) \in Nat
        BY DateIsNat DEF Orderly
      <3>. HIDE DEF d
      <3>. QED BY <1>1, <2>2, <3>1, <3>2, <3>3, <3>4, <3>5
    <2>. HIDE DEF d
    <2>4. Started(ls, row, p, d) = {} /\ Ended(ls, row, p, d) = {}
      BY <2>3 DEF Started, Ended, LeasesIn
    <2>5. Minutes(ls, {}) = 0
      BY FS_EmptySet, MinutesTyped
    <2>6. Cardinality({}) = 0
      BY FS_EmptySet
    <2>. QED BY <2>1, <2>4, <2>5, <2>6 DEF used, d
  <1>. QED BY <1>2, <1>3

\* What was released after the clock was read, or is still to be released, is not
\* eligible: a checkout has seen all leases of a profile that has none open.
LEMMA RestedUntil ==
    ASSUME NEW ls \in [Leases -> LeaseRow], NEW row \in ProfileRow, NEW p, NEW t \in Nat,
           Orderly(ls, p), Accounted(ls, row, p), NEW purpose, Eligible(row, purpose, t),
           NEW m \in LeasesIn(ls, p), ls[m].status = "RELEASED"
    PROVE  ls[m].released \in Nat /\ ls[m].released + Cooldown(row) <= t
  <1>1. ls[m].released <= row.lastReleased /\ ls[m].released \in Nat
    BY DEF Accounted, Orderly
  <1>2. row.lastReleased \in Nat /\ row.lastReleased # NoTime
    BY <1>1 DEF ProfileRow, NoTime
  <1>3. CooldownUntil(row) <= t
    BY DEF Eligible
  <1>4. Cooldown(row) \in Nat
    BY CooldownIsNat
  <1>5. row.nextAvailable \in Int
    BY DEF ProfileRow, NoTime
  <1>6. row.lastReleased + Cooldown(row) <= t
    BY <1>2, <1>3, <1>4, <1>5 DEF CooldownUntil, Later
  <1>. QED BY <1>1, <1>2, <1>4, <1>6

LEMMA EligibleSees ==
    ASSUME NEW ls \in [Leases -> LeaseRow], NEW row \in ProfileRow, NEW p, NEW t \in Nat,
           Orderly(ls, p), Accounted(ls, row, p), NEW purpose, Eligible(row, purpose, t),
           \A m \in LeasesIn(ls, p) : ls[m].status # "ACTIVE"
    PROVE  SeenBy(ls, row, p, t)
  <1>1. ASSUME NEW m \in LeasesIn(ls, p)
        PROVE  /\ ls[m].status = "RELEASED" /\ ls[m].leasedAt <= t /\ ls[m].released <= t
               /\ LocalDate(row, ls[m].leasedAt) <= LocalDate(row, t)
               /\ LocalDate(row, ls[m].released) <= LocalDate(row, t)
    <2>1. /\ ls[m].status = "RELEASED" /\ ls[m].leasedAt \in Nat
          /\ ls[m].released \in Nat /\ ls[m].leasedAt <= ls[m].released
      BY DEF Orderly
    <2>2. ls[m].released + Cooldown(row) <= t /\ Cooldown(row) \in Nat
      BY <2>1, RestedUntil, CooldownIsNat
    <2>3. ls[m].released <= t /\ ls[m].leasedAt <= t
      BY <2>1, <2>2
    <2>. QED BY <2>1, <2>3, DatesInOrder
  <1>2. LocalDate(row, t) \in Nat
    BY DateIsNat
  <1>3. row.usage.date <= LocalDate(row, t)
    <2>1. CASE row.usage.date = NoTime
      BY <1>2, <2>1 DEF NoTime
    <2>2. CASE row.usage.date # NoTime
      BY <1>1, <2>2 DEF Accounted, Touches
    <2>. QED BY <2>1, <2>2
  <1>. QED BY <1>1, <1>3 DEF SeenBy

\* l is the lease of p that a checkout at t grants.
Granted(ls, new, row, p, l, t) ==
    /\ l \in Leases /\ l \notin LeasesIn(ls, p)
    /\ new[l].status = "ACTIVE" /\ new[l].profile = p /\ new[l].leasedAt = t
    /\ new[l].expires = t + Longest(row)
    /\ \A m \in Leases \ {l} : new[m] = ls[m]

LEMMA GrantDays ==
    ASSUME NEW ls \in [Leases -> LeaseRow], NEW row \in ProfileRow, NEW p, NEW t \in Nat,
           NEW new, NEW l, NEW succ, succ.config = row.config,
           Orderly(ls, p), Granted(ls, new, row, p, l, t), NEW d
    PROVE  /\ LeasesIn(new, p) = LeasesIn(ls, p) \cup {l}
           /\ Cardinality(Started(new, succ, p, d))
                = IF d = LocalDate(row, t)
                  THEN Cardinality(Started(ls, row, p, d)) + 1
                  ELSE Cardinality(Started(ls, row, p, d))
           /\ Minutes(new, Ended(new, succ, p, d)) = Minutes(ls, Ended(ls, row, p, d))
  <1>1. LeasesIn(new, p) = LeasesIn(ls, p) \cup {l}
    BY DEF LeasesIn, Granted
  <1>2. \A s : LocalDate(succ, s) = LocalDate(row, s)
    BY DEF LocalDate
  <1>3. Ended(new, succ, p, d) = Ended(ls, row, p, d)
    BY <1>2 DEF Ended, LeasesIn, Granted
  <1>4. Minutes(new, Ended(ls, row, p, d)) = Minutes(ls, Ended(ls, row, p, d))
    <2>1. \A m \in Ended(ls, row, p, d) :
             new[m].released = ls[m].released /\ new[m].leasedAt = ls[m].leasedAt
      BY DEF Ended, LeasesIn, Granted
    <2>. QED BY <2>1, PartsAreFinite, MinutesAgree
  <1>5. Started(new, succ, p, d) =
           IF d = LocalDate(row, t) THEN Started(ls, row, p, d) \cup {l}
           ELSE Started(ls, row, p, d)
    BY <1>2 DEF Started, LeasesIn, Granted
  <1>6. l \notin Started(ls, row, p, d) /\ IsFiniteSet(Started(ls, row, p, d))
    BY PartsAreFinite DEF Granted
  <1>7. Cardinality(Started(ls, row, p, d) \cup {l}) = Cardinality(Started(ls, row, p, d)) + 1
    BY <1>6, FS_AddElement
  <1>. QED BY <1>1, <1>3, <1>4, <1>5, <1>7

LEMMA CheckoutAccounted ==
    ASSUME NEW ls \in [Leases -> LeaseRow], NEW row \in ProfileRow, NEW p, NEW t \in Nat,
           NEW new, NEW l, Fair(ls, row, p), SeenBy(ls, row, p, t),
           Granted(ls, new, row, p, l, t)
    PROVE  /\ Orderly(new, p) /\ Accounted(new, CheckedOut(row, t), p)
           /\ SeenBy(new, CheckedOut(row, t), p, t)
  <1>. DEFINE succ == CheckedOut(row, t)
              d == LocalDate(row, t)
              used == UsageOn(row, d)
  <1>1. /\ succ.config = row.config /\ succ.lastReleased = row.lastReleased
        /\ succ.usage.date = d /\ succ.usage.sessions = used.sessions + 1
        /\ succ.usage.minutes = used.minutes
    BY CheckedOutFields
  <1>2. /\ used.sessions = Cardinality(Started(ls, row, p, d))
        /\ used.minutes = Minutes(ls, Ended(ls, row, p, d))
    BY UsageOfDay DEF Fair
  <1>3. d \in Nat /\ d # NoTime
    BY DateIsNat DEF NoTime
  <1>. HIDE DEF succ, used
  <1>4. /\ LeasesIn(new, p) = LeasesIn(ls, p) \cup {l}
        /\ Cardinality(Started(new, succ, p, d)) = Cardinality(Started(ls, row, p, d)) + 1
        /\ Minutes(new, Ended(new, succ, p, d)) = Minutes(ls, Ended(ls, row, p, d))
    BY <1>1, GrantDays DEF Fair
  <1>5. \A m \in LeasesIn(ls, p) : new[m] = ls[m]
    BY DEF LeasesIn, Granted
  <1>6. Orderly(new, p)
    <2>1. IsFiniteSet(LeasesIn(new, p))
      BY <1>4, FS_AddElement DEF Fair, Orderly
    <2>. QED BY <1>4, <1>5, <2>1 DEF Fair, Orderly, Granted
  <1>7. \A s : LocalDate(succ, s) = LocalDate(row, s)
    BY <1>1 DEF LocalDate
  <1>8. row.usage.date \in Int /\ row.usage.date <= d
    BY DEF ProfileRow, Usage, NoTime, SeenBy
  <1>. HIDE DEF d
  <1>9. ASSUME NEW m \in LeasesIn(new, p)
        PROVE  /\ LocalDate(succ, new[m].leasedAt) <= succ.usage.date
               /\ new[m].status = "RELEASED" =>
                     /\ LocalDate(succ, new[m].released) <= succ.usage.date
                     /\ new[m].released <= succ.lastReleased
               /\ new[m].leasedAt <= t /\ (new[m].status = "RELEASED" => new[m].released <= t)
    <2>1. CASE m = l
      BY <1>1, <1>3, <1>7, <2>1 DEF Granted, d
    <2>2. CASE m # l
      <3>1. m \in LeasesIn(ls, p) /\ new[m] = ls[m]
        BY <1>4, <1>5, <2>2
      <3>2. LocalDate(row, ls[m].leasedAt) \in Nat
        BY <3>1, DateIsNat DEF Fair, Orderly
      <3>3. ls[m].status = "RELEASED" => LocalDate(row, ls[m].released) \in Nat
        BY <3>1, DateIsNat DEF Fair, Orderly
      <3>4. /\ LocalDate(row, ls[m].leasedAt) <= row.usage.date
            /\ ls[m].status = "RELEASED" =>
                  /\ LocalDate(row, ls[m].released) <= row.usage.date
                  /\ ls[m].released <= row.lastReleased
        BY <3>1 DEF Fair, Accounted
      <3>5. ls[m].leasedAt <= t /\ (ls[m].status = "RELEASED" => ls[m].released <= t)
        BY <3>1 DEF SeenBy
      <3>. QED BY <1>1, <1>3, <1>7, <1>8, <3>1, <3>2, <3>3, <3>4, <3>5
    <2>. QED BY <2>1, <2>2
  <1>10. Accounted(new, succ, p)
    <2>1. l \in LeasesIn(new, p) /\ Touches(new, succ, l, succ.usage.date)
      BY <1>1, <1>4, <1>7 DEF Touches, Granted, d
    <2>. QED BY <1>1, <1>2, <1>3, <1>4, <1>9, <2>1 DEF Accounted
  <1>11. SeenBy(new, succ, p, t)
    BY <1>1, <1>3, <1>7, <1>9 DEF SeenBy, d
  <1>. QED BY <1>6, <1>10, <1>11 DEF succ

\* What eligibility checks of a profile without an open lease keeps its limits.
LEMMA CheckoutLimited ==
    ASSUME NEW ls \in [Leases -> LeaseRow], NEW row \in ProfileRow, NEW p, NEW t \in Nat,
           NEW new, NEW l, Fair(ls, row, p), SeenBy(ls, row, p, t),
           Granted(ls, new, row, p, l, t),
           NEW purpose, Eligible(row, purpose, t),
           \A m \in LeasesIn(ls, p) : ls[m].status # "ACTIVE"
    PROVE  Limited(new, CheckedOut(row, t), p)
  <1>. DEFINE succ == CheckedOut(row, t)
              today == LocalDate(row, t)
              used == UsageOn(row, today)
              limit == row.config.thresholds
  <1>1. /\ succ.config = row.config /\ succ.lastReleased = row.lastReleased
        /\ succ.usage.minutes = used.minutes
    BY CheckedOutFields
  <1>2. used.sessions = Cardinality(Started(ls, row, p, today))
    BY UsageOfDay DEF Fair
  <1>3. /\ limit.minutes > 0 /\ limit.minutes \in Nat /\ limit.sessions \in Nat
        /\ used.sessions < limit.sessions /\ used.minutes < limit.minutes
        /\ used.sessions \in Nat /\ used.minutes \in Nat
    <2>1. used \in Usage
      BY DateIsNat, UsageOnType
    <2>2. limit \in Thresholds
      BY DEF ProfileRow, Config
    <2>3. PositiveThresholds(row) /\ WithinDailyLimits(row, t)
      BY DEF Eligible
    <2>4. limit.minutes > 0 /\ used.sessions < limit.sessions /\ used.minutes < limit.minutes
      BY <2>3 DEF PositiveThresholds, WithinDailyLimits
    <2>. HIDE DEF used, limit
    <2>. QED BY <2>1, <2>2, <2>4 DEF Usage, Thresholds
  <1>. HIDE DEF succ, used, today
  <1>4. LeasesIn(new, p) = LeasesIn(ls, p) \cup {l}
    BY <1>1, GrantDays DEF Fair
  <1>5. \A m \in LeasesIn(ls, p) : new[m] = ls[m] /\ ls[m].status = "RELEASED"
    BY DEF LeasesIn, Granted, Fair, Orderly
  <1>6. ASSUME NEW d \in Nat
        PROVE  /\ Cardinality(Started(new, succ, p, d)) <= limit.sessions
               /\ Minutes(new, Ended(new, succ, p, d)) <= 2 * limit.minutes - 1
    <2>1. /\ Cardinality(Started(new, succ, p, d))
               = IF d = today THEN Cardinality(Started(ls, row, p, d)) + 1
                 ELSE Cardinality(Started(ls, row, p, d))
          /\ Minutes(new, Ended(new, succ, p, d)) = Minutes(ls, Ended(ls, row, p, d))
      BY <1>1, GrantDays DEF Fair, today
    <2>2. /\ Cardinality(Started(ls, row, p, d)) <= limit.sessions
          /\ Minutes(ls, Ended(ls, row, p, d)) <= 2 * limit.minutes - 1
      <3>1. CASE LeasesIn(ls, p) = {}
        <4>1. Started(ls, row, p, d) = {} /\ Ended(ls, row, p, d) = {}
          BY <3>1 DEF Started, Ended, LeasesIn
        <4>2. Cardinality({}) = 0 /\ Minutes(ls, {}) = 0
          BY FS_EmptySet, MinutesTyped
        <4>. HIDE DEF limit
        <4>. QED BY <1>3, <4>1, <4>2
      <3>2. CASE LeasesIn(ls, p) # {}
        BY <3>2 DEF Fair, Limited
      <3>. QED BY <3>1, <3>2
    <2>. HIDE DEF limit
    <2>. QED BY <1>2, <1>3, <2>1, <2>2
  <1>7. ASSUME NEW m \in LeasesIn(new, p)
        PROVE  /\ new[m].expires <= new[m].leasedAt + Longest(row)
               /\ new[m].status = "ACTIVE" => succ.usage.minutes <= limit.minutes - 1
    <2>1. succ.usage.minutes <= limit.minutes - 1
      <3>. HIDE DEF limit
      <3>. QED BY <1>1, <1>3
    <2>2. new[m].expires <= new[m].leasedAt + Longest(row)
      <3>1. CASE m = l
        <4>1. new[m].expires = new[m].leasedAt + Longest(row) /\ new[m].leasedAt = t
          BY <3>1 DEF Granted
        <4>2. Longest(row) \in Nat
          BY <1>3, LongestGrows
        <4>. QED BY <4>1, <4>2
      <3>2. CASE m # l
        <4>1. m \in LeasesIn(ls, p) /\ new[m] = ls[m]
          BY <1>4, <1>5, <3>2
        <4>. QED BY <4>1 DEF Fair, Limited
      <3>. QED BY <3>1, <3>2
    <2>. QED BY <2>1, <2>2
  <1>8. Cooldown(succ) = Cooldown(row)
    BY <1>1 DEF Cooldown
  <1>9. ASSUME NEW m \in LeasesIn(ls, p)
        PROVE  Rested(new, succ, m, l)
    <2>1. ls[m].released + Cooldown(row) <= t
      BY <1>5, RestedUntil DEF Fair
    <2>. QED BY <1>5, <1>8, <2>1 DEF Rested, Granted
  <1>10. ASSUME NEW a \in LeasesIn(new, p), NEW b \in LeasesIn(new, p), a # b
         PROVE  Rested(new, succ, a, b) \/ Rested(new, succ, b, a)
    <2>1. CASE a = l \/ b = l
      BY <1>4, <1>9, <1>10, <2>1
    <2>2. CASE a # l /\ b # l
      <3>1. a \in LeasesIn(ls, p) /\ b \in LeasesIn(ls, p) /\ new[a] = ls[a] /\ new[b] = ls[b]
        BY <1>4, <1>5, <2>2
      <3>2. Rested(ls, row, a, b) \/ Rested(ls, row, b, a)
        BY <1>10, <3>1 DEF Fair, Limited
      <3>. QED BY <1>8, <3>1, <3>2 DEF Rested
    <2>. QED BY <2>1, <2>2
  <1>11. Limited(new, succ, p)
    <2>1. Longest(succ) = Longest(row)
      BY <1>1 DEF Longest
    <2>. QED BY <1>1, <1>3, <1>6, <1>7, <1>10, <2>1 DEF Limited
  <1>. QED BY <1>11 DEF succ

-----------------------------------------------------------------------------
(* A release keeps the account *)

LEMMA ReleasedFields ==
    ASSUME NEW row \in ProfileRow, NEW t \in Nat, NEW leasedAt \in Nat, leasedAt <= t,
           NEW macros \in Nat, NEW observation \in Observations
    PROVE  LET used == UsageOn(row, LocalDate(row, t))
               succ == Released(row, leasedAt, t, macros, observation)
           IN  /\ succ.config = row.config /\ succ.lastReleased = t
               /\ succ.usage.date = LocalDate(row, t)
               /\ succ.usage.sessions = used.sessions
               /\ succ.usage.minutes = used.minutes + ActiveMinutes(leasedAt, t)
  <1>. DEFINE used == UsageOn(row, LocalDate(row, t))
              next == [used EXCEPT !.minutes = @ + ActiveMinutes(leasedAt, t), !.macros = @ + macros]
              succ == Released(row, leasedAt, t, macros, observation)
              health == Observed(row.health, observation)
              available == t + Cooldown(row)
  <1>1. used \in Usage /\ used.date = LocalDate(row, t)
    BY DateIsNat, UsageOnType DEF UsageOn, UnusedDay
  <1>. HIDE DEF used
  <1>2. /\ next.date = LocalDate(row, t) /\ next.sessions = used.sessions
        /\ next.minutes = used.minutes + ActiveMinutes(leasedAt, t)
    BY <1>1, MinutesAreNat DEF Usage
  <1>. HIDE DEF next, health, available
  <1>3. succ = [row EXCEPT !.status = "READY", !.usage = next,
                            !.nextAvailable = available, !.lastReleased = t,
                            !.health = health]
    BY DEF Released, used, next, health, available
  <1>4. /\ succ.config = row.config /\ succ.lastReleased = t
        /\ succ.usage = next
    BY <1>3 DEF ProfileRow
  <1>. QED BY <1>2, <1>4 DEF used

\* l is the open lease of p, the only one, that a release closes at t.
Returned(ls, new, p, l, t) ==
    /\ l \in LeasesIn(ls, p) /\ ls[l].status = "ACTIVE"
    /\ ls[l].leasedAt <= t /\ t < ls[l].expires
    /\ \A m \in LeasesIn(ls, p) \ {l} : ls[m].status = "RELEASED"
    /\ new[l].status = "RELEASED" /\ new[l].released = t
    /\ new[l].profile = p
    /\ new[l].leasedAt = ls[l].leasedAt /\ new[l].expires = ls[l].expires
    /\ \A m \in Leases \ {l} : new[m] = ls[m]

LEMMA ReturnDays ==
    ASSUME NEW ls \in [Leases -> LeaseRow], NEW row \in ProfileRow, NEW p, NEW t \in Nat,
           NEW new, NEW l, NEW succ, succ.config = row.config,
           Orderly(ls, p), Returned(ls, new, p, l, t), NEW d
    PROVE  /\ LeasesIn(new, p) = LeasesIn(ls, p)
           /\ Started(new, succ, p, d) = Started(ls, row, p, d)
           /\ Minutes(new, Ended(new, succ, p, d))
                = IF d = LocalDate(row, t)
                  THEN Minutes(ls, Ended(ls, row, p, d)) + ActiveMinutes(ls[l].leasedAt, t)
                  ELSE Minutes(ls, Ended(ls, row, p, d))
  <1>1. LeasesIn(new, p) = LeasesIn(ls, p)
    BY DEF LeasesIn, Returned
  <1>2. \A s : LocalDate(succ, s) = LocalDate(row, s)
    BY DEF LocalDate
  <1>3. Started(new, succ, p, d) = Started(ls, row, p, d)
    BY <1>2 DEF Started, LeasesIn, Returned
  <1>. DEFINE S == Ended(ls, row, p, d)
  <1>4. /\ IsFiniteSet(S) /\ l \notin S
        /\ \A m \in S : Charge(ls, m) \in Nat
    <2>1. l \notin S
      BY DEF Ended, Returned
    <2>. QED BY <2>1, PartsAreFinite
  <1>5. \A m \in S : new[m].released = ls[m].released /\ new[m].leasedAt = ls[m].leasedAt
    BY DEF Ended, LeasesIn, Returned
  <1>6. Ended(new, succ, p, d) = IF d = LocalDate(row, t) THEN S \cup {l} ELSE S
    BY <1>2 DEF Ended, LeasesIn, Returned
  <1>7. Charge(new, l) = ActiveMinutes(ls[l].leasedAt, t) /\ Charge(new, l) \in Nat
    BY ChargeIs DEF Returned, Orderly
  <1>. HIDE DEF S
  <1>8. Minutes(new, S) = Minutes(ls, S)
    BY <1>4, <1>5, MinutesAgree
  <1>9. Minutes(new, S \cup {l}) = Minutes(new, S) + Charge(new, l)
    <2>1. \A m \in S \cup {l} : Charge(new, m) \in Nat
      BY <1>4, <1>5, <1>7 DEF Charge
    <2>. QED BY <1>4, <2>1, MinutesMore
  <1>. QED BY <1>1, <1>3, <1>6, <1>7, <1>8, <1>9 DEF S

LEMMA ReleaseAccounted ==
    ASSUME NEW ls \in [Leases -> LeaseRow], NEW row \in ProfileRow, NEW p, NEW t \in Nat,
           NEW new, NEW l, Fair(ls, row, p), SeenBy(ls, row, p, t),
           Returned(ls, new, p, l, t),
           NEW macros \in Nat, NEW observation \in Observations
    PROVE  LET succ == Released(row, ls[l].leasedAt, t, macros, observation)
           IN  /\ Orderly(new, p) /\ Accounted(new, succ, p) /\ SeenBy(new, succ, p, t)
  <1>. DEFINE succ == Released(row, ls[l].leasedAt, t, macros, observation)
              d == LocalDate(row, t)
              used == UsageOn(row, d)
  <1>0. ls[l].leasedAt \in Nat /\ ls[l].leasedAt <= t
    BY DEF Returned, Fair, Orderly
  <1>1. /\ succ.config = row.config /\ succ.lastReleased = t
        /\ succ.usage.date = d /\ succ.usage.sessions = used.sessions
        /\ succ.usage.minutes = used.minutes + ActiveMinutes(ls[l].leasedAt, t)
    <2>. DEFINE leasedAt == ls[l].leasedAt
    <2>1. leasedAt \in Nat /\ leasedAt <= t
      BY <1>0
    <2>. HIDE DEF leasedAt
    <2>2. LET after == Released(row, leasedAt, t, macros, observation)
          IN  /\ after.config = row.config /\ after.lastReleased = t
              /\ after.usage.date = LocalDate(row, t)
              /\ after.usage.sessions = UsageOn(row, LocalDate(row, t)).sessions
              /\ after.usage.minutes
                    = UsageOn(row, LocalDate(row, t)).minutes + ActiveMinutes(leasedAt, t)
      BY <2>1, ReleasedFields
    <2>. QED BY <2>2 DEF leasedAt
  <1>2. /\ used.sessions = Cardinality(Started(ls, row, p, d))
        /\ used.minutes = Minutes(ls, Ended(ls, row, p, d))
    BY UsageOfDay DEF Fair
  <1>3. d \in Nat /\ d # NoTime
    BY DateIsNat DEF NoTime
  <1>. HIDE DEF succ, used
  <1>4. /\ LeasesIn(new, p) = LeasesIn(ls, p)
        /\ Started(new, succ, p, d) = Started(ls, row, p, d)
        /\ Minutes(new, Ended(new, succ, p, d))
              = Minutes(ls, Ended(ls, row, p, d)) + ActiveMinutes(ls[l].leasedAt, t)
    BY <1>1, ReturnDays DEF Fair
  <1>5. \A m \in LeasesIn(ls, p) \ {l} : new[m] = ls[m] /\ ls[m].status = "RELEASED"
    BY DEF LeasesIn, Returned
  <1>6. Orderly(new, p)
    <2>1. /\ new[l].status = "RELEASED" /\ new[l].leasedAt \in Nat
          /\ new[l].released \in Nat /\ new[l].leasedAt <= new[l].released
      BY <1>0 DEF Returned
    <2>. QED BY <1>4, <1>5, <2>1 DEF Fair, Orderly
  <1>7. \A s : LocalDate(succ, s) = LocalDate(row, s)
    BY <1>1 DEF LocalDate
  <1>8. row.usage.date \in Int /\ row.usage.date <= d
    BY DEF ProfileRow, Usage, NoTime, SeenBy
  <1>. HIDE DEF d
  <1>9. ASSUME NEW m \in LeasesIn(new, p)
        PROVE  /\ LocalDate(succ, new[m].leasedAt) <= succ.usage.date
               /\ new[m].status = "RELEASED" =>
                     /\ LocalDate(succ, new[m].released) <= succ.usage.date
                     /\ new[m].released <= succ.lastReleased
               /\ new[m].leasedAt <= t /\ (new[m].status = "RELEASED" => new[m].released <= t)
    <2>0. /\ m \in LeasesIn(ls, p) /\ new[m].leasedAt = ls[m].leasedAt
          /\ ls[m].leasedAt \in Nat
      BY <1>4, <1>5 DEF Returned, Fair, Orderly
    <2>1. LocalDate(succ, new[m].leasedAt) <= succ.usage.date
      <3>1. LocalDate(row, ls[m].leasedAt) \in Nat
        BY <2>0, DateIsNat
      <3>2. LocalDate(row, ls[m].leasedAt) <= row.usage.date
        BY <2>0 DEF Fair, Accounted
      <3>. QED BY <1>1, <1>3, <1>7, <1>8, <2>0, <3>1, <3>2
    <2>2. CASE m = l
      <3>1. new[m].released = t
        BY <2>2 DEF Returned
      <3>2. LocalDate(succ, t) = d
        BY <1>7 DEF d
      <3>. QED BY <1>0, <1>1, <1>3, <2>0, <2>1, <2>2, <3>1, <3>2
    <2>3. CASE m # l
      <3>1. new[m] = ls[m] /\ ls[m].status = "RELEASED"
        BY <1>5, <2>0, <2>3
      <3>2. ls[m].leasedAt <= t /\ ls[m].released <= t
        BY <2>0, <3>1 DEF SeenBy
      <3>3. /\ LocalDate(row, ls[m].released) \in Nat
            /\ LocalDate(row, ls[m].released) <= row.usage.date
        BY <2>0, <3>1, DateIsNat DEF Fair, Accounted, Orderly
      <3>. QED BY <1>1, <1>3, <1>7, <1>8, <2>1, <3>1, <3>2, <3>3
    <2>. QED BY <2>2, <2>3
  <1>10. Accounted(new, succ, p)
    <2>1. l \in LeasesIn(new, p) /\ Touches(new, succ, l, succ.usage.date)
      BY <1>1, <1>4, <1>7 DEF Touches, Returned, d
    <2>. QED BY <1>1, <1>2, <1>3, <1>4, <1>9, <2>1 DEF Accounted
  <1>11. SeenBy(new, succ, p, t)
    BY <1>1, <1>3, <1>7, <1>9 DEF SeenBy, d
  <1>. QED BY <1>6, <1>10, <1>11 DEF succ

\* A lease that ends below the duration threshold adds less than the threshold to
\* a day that was below it when the lease began.
LEMMA ReleaseLimited ==
    ASSUME NEW ls \in [Leases -> LeaseRow], NEW row \in ProfileRow, NEW p, NEW t \in Nat,
           NEW new, NEW l, Fair(ls, row, p), SeenBy(ls, row, p, t),
           Returned(ls, new, p, l, t),
           NEW macros \in Nat, NEW observation \in Observations
    PROVE  Limited(new, Released(row, ls[l].leasedAt, t, macros, observation), p)
  <1>. DEFINE succ == Released(row, ls[l].leasedAt, t, macros, observation)
              today == LocalDate(row, t)
              used == UsageOn(row, today)
              limit == row.config.thresholds
  <1>0. /\ ls[l].leasedAt \in Nat /\ ls[l].leasedAt <= t /\ l \in LeasesIn(ls, p)
        /\ t < ls[l].expires /\ ls[l].expires \in Nat
    BY DEF Returned, Fair, Orderly, LeasesIn, LeaseRow
  <1>1. succ.config = row.config
    BY <1>0, ReleasedFields
  <1>2. used.minutes = Minutes(ls, Ended(ls, row, p, today))
    BY UsageOfDay DEF Fair
  <1>3. /\ limit.minutes \in Nat /\ limit.minutes > 0
        /\ ls[l].expires <= ls[l].leasedAt + Longest(row)
        /\ row.usage.minutes <= limit.minutes - 1
    BY <1>0 DEF Fair, Limited, ProfileRow, Config, Thresholds, Returned
  <1>4. used.minutes \in Nat /\ used.minutes <= limit.minutes - 1
    <2>1. used \in Usage
      BY DateIsNat, UsageOnType
    <2>2. used.minutes = 0 \/ used.minutes = row.usage.minutes
      BY DEF UsageOn, UnusedDay
    <2>. HIDE DEF used, limit
    <2>. QED BY <1>3, <2>1, <2>2 DEF Usage
  <1>. HIDE DEF succ, used, today, limit
  <1>. DEFINE charge == ActiveMinutes(ls[l].leasedAt, t)
  <1>5. charge <= limit.minutes /\ charge \in Nat
    <2>1. Longest(row) \in Nat /\ Longest(row) = limit.minutes * TicksPerMinute
      BY LongestGrows, <1>3 DEF Longest, limit, ProfileRow, Config, Thresholds
    <2>2. t - ls[l].leasedAt < Longest(row)
      BY <1>0, <1>3, <2>1
    <2>. QED BY <1>0, <1>3, <2>1, <2>2, ChargedAtMost, MinutesAreNat
  <1>. HIDE DEF charge
  <1>6. LeasesIn(new, p) = LeasesIn(ls, p)
    BY <1>1, ReturnDays DEF Fair
  <1>7. \A m \in LeasesIn(ls, p) :
           /\ new[m].status = "RELEASED"
           /\ new[m].leasedAt = ls[m].leasedAt /\ new[m].expires = ls[m].expires
           /\ m # l => new[m] = ls[m]
    BY DEF LeasesIn, Returned
  <1>8. ASSUME NEW d \in Nat
        PROVE  /\ Cardinality(Started(new, succ, p, d)) <= limit.sessions
               /\ Minutes(new, Ended(new, succ, p, d)) <= 2 * limit.minutes - 1
    <2>1. /\ Started(new, succ, p, d) = Started(ls, row, p, d)
          /\ Minutes(new, Ended(new, succ, p, d))
                = IF d = today
                  THEN Minutes(ls, Ended(ls, row, p, d)) + charge
                  ELSE Minutes(ls, Ended(ls, row, p, d))
      BY <1>1, ReturnDays DEF Fair, today, charge
    <2>2. /\ Cardinality(Started(ls, row, p, d)) <= limit.sessions
          /\ Minutes(ls, Ended(ls, row, p, d)) <= 2 * limit.minutes - 1
      BY <1>0 DEF Fair, Limited, limit
    <2>. QED BY <1>2, <1>3, <1>4, <1>5, <2>1, <2>2
  <1>9. \A m \in LeasesIn(ls, p) : ls[m].expires <= ls[m].leasedAt + Longest(row)
    BY DEF Fair, Limited, limit
  <1>10. Cooldown(succ) = Cooldown(row)
    BY <1>1 DEF Cooldown
  <1>11. ASSUME NEW a \in LeasesIn(ls, p), NEW b \in LeasesIn(ls, p), Rested(ls, row, a, b)
         PROVE  Rested(new, succ, a, b)
    <2>1. a # l
      BY <1>11 DEF Rested, Returned
    <2>. QED BY <1>7, <1>10, <1>11, <2>1 DEF Rested
  <1>12. \A a \in LeasesIn(ls, p), b \in LeasesIn(ls, p) :
            a # b => Rested(new, succ, a, b) \/ Rested(new, succ, b, a)
    BY <1>11 DEF Fair, Limited
  <1>13. Limited(new, succ, p)
    <2>1. succ.config.thresholds = limit /\ Longest(succ) = Longest(row)
      BY <1>1 DEF limit, Longest
    <2>2. \A m \in LeasesIn(new, p) :
             new[m].expires <= new[m].leasedAt + Longest(row) /\ new[m].status # "ACTIVE"
      BY <1>6, <1>7, <1>9
    <2>. QED BY <1>3, <1>6, <1>8, <1>12, <2>1, <2>2 DEF Limited
  <1>. QED BY <1>13 DEF succ

-----------------------------------------------------------------------------
(* Requests keep the account of a profile until one overwrites another's save. *)

\* A profile that was leased stays in its timezone, and its limits get no
\* stricter, as long as no save is lost.
LimitsOnlyRelaxed ==
    \A p \in Profiles : LeasesOf(p) # {} /\ p \notin overwritten' =>
        /\ profile'[p].config.routine.offset = profile[p].config.routine.offset
        /\ Relaxed(profile[p], profile'[p])

FairRow(ls, row, p, t) ==
    /\ Fair(ls, row, p) /\ SeenBy(ls, row, p, t)
    /\ row.status = "ABSENT" => row.usage = UnusedDay /\ row.lastReleased = NoTime

Unused(ls) == \A l \in Leases : ls[l].status = "NONE" => ls[l].profile = Null

UnusedInv == Unused(lease)

\* A lease that was never granted belongs to no profile.
THEOREM NoOwnerYet == Spec => []UnusedInv
  <1>1. Init => UnusedInv
    BY DEF Init, UnusedInv, Unused, NoLease
  <1>2. TypeInv /\ UnusedInv /\ [Next]_vars => UnusedInv'
    <2>. SUFFICES ASSUME TypeInv, UnusedInv, [Next]_vars PROVE UnusedInv'
      OBVIOUS
    <2>1. ASSUME NEW o \in Ops, CommitCheckout(o) PROVE UnusedInv'
      BY <2>1, CheckoutGrants DEF UnusedInv, Unused
    <2>2. ASSUME NEW o \in Ops, CommitRelease(o) PROVE UnusedInv'
      <3>1. lease'[op[o].lease].status = "RELEASED"
        BY <2>2, ReleaseCloses DEF TypeInv, TypeOK, LeaseRow
      <3>. QED BY <2>2, <3>1, ReleaseCloses DEF UnusedInv, Unused
    <2>3. CASE UNCHANGED lease
      BY <2>3 DEF UnusedInv, Unused
    <2>. QED BY <2>1, <2>2, <2>3, LeaseOnlyChangedBy
  <1>. QED BY <1>1, <1>2, TypeSafe, PTL DEF Spec

SameAccount(old, new) ==
    new.usage = old.usage /\ new.lastReleased = old.lastReleased /\ new.status # "ABSENT"

\* What request o will save was computed from the row that is still there.
Due(ls, row, o) ==
    /\ o.request = "RELEASE" =>
          ls[o.lease].status = "ACTIVE" /\ SeenBy(ls, row, o.profile, o.at)
    /\ o.step = "LOADED" /\ o.request \in Writers => SameAccount(row, o.row)
    /\ o.step = "LOADED" /\ o.request = "CHECKOUT" =>
          Eligible(row, o.purpose, o.at) /\ o.row = CheckedOut(row, o.at)
    /\ o.step = "LOADED" /\ o.request = "RELEASE" =>
          \E macros \in Nat, observation \in Observations :
              o.row = Released(row, ls[o.lease].leasedAt, o.at, macros, observation)

AllFair(ls, ps, t, lost) == \A p \in Profiles \ lost : FairRow(ls, ps[p], p, t)

AllDue(ls, ps, os, reading, lost) ==
    \A o \in reading : os[o].profile \notin lost => Due(ls, ps[os[o].profile], os[o])

UseInv ==
    /\ Unused(lease)
    /\ AllFair(lease, profile, now, overwritten)
    /\ AllDue(lease, profile, op, fresh, overwritten)

LEMMA InitUse == Init => UseInv
  <1>. SUFFICES ASSUME Init PROVE UseInv
    OBVIOUS
  <1>0. TypeOK
    BY InitTypeInv DEF TypeInv
  <1>1. \A l \in Leases : lease[l].status = "NONE" /\ lease[l].profile = Null
    BY DEF Init, NoLease
  <1>2. ASSUME NEW p \in Profiles
        PROVE  profile[p].usage = UnusedDay /\ profile[p].lastReleased = NoTime
    BY DEF Init, ProvisionedRow, AbsentRow, NewRow
  <1>3. \A p \in Profiles : LeasesIn(lease, p) = {}
    BY <1>1, NullAssumption DEF LeasesIn
  <1>4. ASSUME NEW p \in Profiles
        PROVE  Fair(lease, profile[p], p) /\ SeenBy(lease, profile[p], p, now)
    <2>1. profile[p].usage.date = -1 /\ NoTime = -1
      BY <1>2 DEF UnusedDay, NoTime
    <2>2. LocalDate(profile[p], now) \in Nat
      BY <1>0, DateIsNat DEF TypeOK
    <2>3. SeenBy(lease, profile[p], p, now)
      BY <1>3, <2>1, <2>2 DEF SeenBy
    <2>4. Orderly(lease, p)
      BY <1>3, FS_EmptySet DEF Orderly
    <2>. QED BY <1>3, <2>1, <2>3, <2>4 DEF Fair, Accounted, Limited
  <1>5. Unused(lease)
    BY <1>1 DEF Unused
  <1>6. AllFair(lease, profile, now, overwritten)
    BY <1>2, <1>4 DEF AllFair, FairRow
  <1>7. AllDue(lease, profile, op, fresh, overwritten)
    BY DEF Init, AllDue
  <1>. QED BY <1>5, <1>6, <1>7 DEF UseInv

\* A step of request o that touches no row and no lease
LEMMA OpUse ==
    ASSUME TypeInv, UseInv, NEW o \in Ops,
           profile' = profile, lease' = lease, now' = now, overwritten' = overwritten,
           fresh' \subseteq fresh \cup {o}, \A q \in Ops \ {o} : op'[q] = op[q],
           o \in fresh' /\ op'[o].profile \notin overwritten
              => Due(lease, profile[op'[o].profile], op'[o])
    PROVE  UseInv'
  <1>1. fresh \subseteq Ops
    BY DEF TypeInv, TypeOK
  <1>2. AllDue(lease', profile', op', fresh', overwritten')
    BY <1>1 DEF UseInv, AllDue
  <1>. QED BY <1>2 DEF UseInv

LEMMA PrepareUse ==
    ASSUME TypeInv, UseInv, NEW o \in Ops, NEW p \in Profiles,
           NEW request \in Writers, NEW row,
           p \notin overwritten => SameAccount(profile[p], row),
           Prepare(o, request, p, row), UNCHANGED <<now, profile, lease>>
    PROVE  UseInv'
  <1>1. /\ op'[o].request = request /\ op'[o].profile = p /\ op'[o].row = row
        /\ \A q \in Ops \ {o} : op'[q] = op[q]
        /\ fresh' = fresh \cup {o} /\ overwritten' = overwritten
    BY DEF Prepare, Reads, IdleOp, TypeInv, TypeOK
  <1>2. request \notin {"CHECKOUT", "RELEASE"}
    BY RequestsDiffer
  <1>3. p \notin overwritten => Due(lease, profile[p], op'[o])
    BY <1>1, <1>2 DEF Due
  <1>. QED BY <1>1, <1>3, OpUse

\* A profile whose leases and row stay
LEMMA OthersFair ==
    ASSUME NEW ls \in [Leases -> LeaseRow], NEW row \in ProfileRow, NEW p, NEW t \in Nat,
           FairRow(ls, row, p, t), NEW new,
           LeasesIn(new, p) = LeasesIn(ls, p),
           \A l \in LeasesIn(ls, p) : new[l] = ls[l]
    PROVE  FairRow(new, row, p, t)
  <1>0. Relaxed(row, row)
    <2>1. row.config.thresholds.sessions \in Nat /\ row.config.thresholds.minutes \in Nat
      BY DEF ProfileRow, Config, Thresholds
    <2>. QED BY <2>1, CooldownIsNat DEF Relaxed
  <1>1. Fair(new, row, p)
    BY <1>0, FairKept DEF FairRow
  <1>2. SeenBy(new, row, p, t)
    BY SeenKept DEF FairRow
  <1>. QED BY <1>1, <1>2 DEF FairRow

LEMMA OthersDue ==
    ASSUME NEW ls, NEW row, NEW o, Due(ls, row, o), NEW new,
           LeasesIn(new, o.profile) = LeasesIn(ls, o.profile),
           \A l \in LeasesIn(ls, o.profile) : new[l] = ls[l],
           o.request = "RELEASE" => o.lease \in LeasesIn(ls, o.profile)
    PROVE  Due(new, row, o)
  <1>1. o.request = "RELEASE" =>
           new[o.lease] = ls[o.lease] /\ SeenBy(new, row, o.profile, o.at)
    BY DEF Due, SeenBy
  <1>. QED BY <1>1 DEF Due

\* A request that saves and ends: the saves it makes late are told apart, and no
\* other profile is concerned.
SameLeases(new, old, p) ==
    LeasesIn(new, p) = LeasesIn(old, p) /\ \A l \in LeasesIn(old, p) : new[l] = old[l]

LEMMA SavesUse ==
    ASSUME TypeInv, UseInv, NEW o \in Ops, Saves(o), op[o].profile \in Profiles, now' = now,
           Unused(lease'),
           \A q \in Profiles \ {op[o].profile} : SameLeases(lease', lease, q),
           o \in fresh /\ op[o].profile \notin overwritten
              => FairRow(lease', op[o].row, op[o].profile, now)
    PROVE  UseInv'
  <1>. DEFINE p == op[o].profile
  <1>1. /\ profile'[p] = op[o].row /\ \A q \in Profiles \ {p} : profile'[q] = profile[q]
        /\ \A q \in Ops \ {o} : op'[q] = op[q]
        /\ fresh' = {q \in fresh : op[q].profile # p}
        /\ overwritten \subseteq overwritten'
        /\ p \notin overwritten' => o \in fresh /\ p \notin overwritten
        /\ fresh \subseteq Ops
        /\ lease \in [Leases -> LeaseRow] /\ profile \in [Profiles -> ProfileRow]
        /\ now \in Nat
    BY DEF Saves, TypeInv, TypeOK
  <1>2. ASSUME NEW q \in Profiles \ overwritten'
        PROVE  FairRow(lease', profile'[q], q, now')
    <2>1. CASE q = p
      BY <1>1, <1>2, <2>1
    <2>2. CASE q # p
      <3>1. FairRow(lease, profile[q], q, now) /\ SameLeases(lease', lease, q)
        BY <1>1, <2>2 DEF UseInv, AllFair
      <3>. QED BY <1>1, <2>2, <3>1, OthersFair DEF SameLeases
    <2>. QED BY <2>1, <2>2
  <1>3. ASSUME NEW q \in fresh', op'[q].profile \notin overwritten'
        PROVE  Due(lease', profile'[op'[q].profile], op'[q])
    <2>1. q \in fresh /\ q \in Ops /\ q # o /\ op'[q] = op[q] /\ op[q].profile # p
      BY <1>1
    <2>2. Due(lease, profile[op[q].profile], op[q])
      BY <1>1, <1>3, <2>1 DEF UseInv, AllDue
    <2>3. CASE op[q].profile \in Profiles
      <3>1. op[q].request = "RELEASE" => op[q].lease \in LeasesIn(lease, op[q].profile)
        BY <2>1 DEF TypeInv, OpWellFormed, LeasesIn
      <3>2. SameLeases(lease', lease, op[q].profile)
        BY <2>1, <2>3
      <3>3. Due(lease', profile[op[q].profile], op[q])
        BY <2>2, <3>1, <3>2, OthersDue DEF SameLeases
      <3>. QED BY <1>1, <2>1, <2>3, <3>3
    <2>4. CASE op[q].profile \notin Profiles
      <3>1. op[q].step # "LOADED" /\ op[q].request # "RELEASE"
        BY <2>1, <2>4 DEF TypeInv, OpWellFormed
      <3>. QED BY <2>1, <3>1 DEF Due
    <2>. QED BY <2>3, <2>4
  <1>4. AllFair(lease', profile', now', overwritten')
    BY <1>2 DEF AllFair
  <1>5. AllDue(lease', profile', op', fresh', overwritten')
    BY <1>3 DEF AllDue
  <1>. QED BY <1>4, <1>5 DEF UseInv

LEMMA SaveUse ==
    ASSUME TypeInv, UseInv, NEW o \in Ops, SaveProfile(o), LimitsOnlyRelaxed
    PROVE  UseInv'
  <1>. DEFINE p == op[o].profile
              row == op[o].row
  <1>1. /\ p \in Profiles /\ row \in ProfileRow /\ now \in Nat
        /\ op[o].step = "LOADED" /\ op[o].request \in Writers
        /\ profile'[p] = row /\ lease' = lease /\ now' = now
        /\ profile[p] \in ProfileRow /\ lease \in [Leases -> LeaseRow]
    BY DEF SaveProfile, Saves, TypeInv, TypeOK, OpWellFormed, Op
  <1>2. ASSUME o \in fresh, p \notin overwritten
        PROVE  FairRow(lease, row, p, now)
    <2>1. Fair(lease, profile[p], p) /\ SeenBy(lease, profile[p], p, now)
      BY <1>1, <1>2 DEF UseInv, AllFair, FairRow
    <2>2. SameAccount(profile[p], row)
      BY <1>1, <1>2 DEF UseInv, AllDue, Due
    <2>3. p \notin overwritten'
      BY <1>2 DEF SaveProfile, Saves
    <2>4. LeasesIn(lease, p) # {} =>
             /\ row.config.routine.offset = profile[p].config.routine.offset
             /\ Relaxed(profile[p], row)
      BY <1>1, <2>3 DEF LimitsOnlyRelaxed, LeasesIn, LeasesOf
    <2>. HIDE DEF p, row
    <2>5. Fair(lease, row, p)
      BY <1>1, <2>1, <2>2, <2>4, FairKept DEF SameAccount
    <2>6. SeenBy(lease, row, p, now)
      BY <1>1, <2>1, <2>2, <2>4, SeenKept DEF SameAccount
    <2>. QED BY <2>2, <2>5, <2>6 DEF FairRow, SameAccount
  <1>3. \A q \in Profiles : SameLeases(lease', lease, q)
    BY <1>1 DEF SameLeases
  <1>4. Unused(lease') /\ Saves(o)
    BY <1>1 DEF UseInv, SaveProfile
  <1>. QED BY <1>1, <1>2, <1>3, <1>4, SavesUse

LEMMA CheckoutUse ==
    ASSUME TypeInv, UseInv, NEW o \in Ops, CommitCheckout(o)
    PROVE  UseInv'
  <1>. DEFINE p == op[o].profile
              t == op[o].at
              row == profile[p]
              next == op[o].row
              purpose == op[o].purpose
  <1>1. /\ p \in Profiles /\ row \in ProfileRow /\ now \in Nat /\ t \in Nat /\ t <= now
        /\ next \in ProfileRow
        /\ op[o].step = "LOADED" /\ op[o].request = "CHECKOUT"
        /\ now' = now /\ Saves(o) /\ lease \in [Leases -> LeaseRow]
    BY DEF CommitCheckout, TypeInv, TypeOK, OpWellFormed, Op
  <1>2. PICK l \in Leases : /\ lease[l].status = "NONE"
                            /\ lease' = [lease EXCEPT ![l] = GrantedLease(o)]
    BY DEF CommitCheckout
  <1>3. /\ lease'[l].status = "ACTIVE" /\ lease'[l].profile = p /\ lease'[l].leasedAt = t
        /\ lease'[l].expires = t + Longest(next)
        /\ \A m \in Leases \ {l} : lease'[m] = lease[m]
        /\ lease[l].profile = Null
    BY <1>1, <1>2 DEF GrantedLease, UseInv, Unused, Longest
  <1>4. \A m \in LeasesIn(lease, p) : lease[m].status # "ACTIVE"
    BY DEF CommitCheckout, ActiveLeases, LeasesIn
  <1>5. \A q \in Profiles : l \notin LeasesIn(lease, q)
    BY <1>3, NullAssumption DEF LeasesIn
  <1>6. TypeInv'
    BY NextTypeInv DEF Next, OpStep
  <1>7. lease' \in [Leases -> LeaseRow]
    BY <1>6 DEF TypeInv, TypeOK
  <1>8. ASSUME o \in fresh, p \notin overwritten
        PROVE  FairRow(lease', next, p, now)
    <2>1. Eligible(row, purpose, t) /\ next = CheckedOut(row, t)
      BY <1>1, <1>8 DEF UseInv, AllDue, Due
    <2>2. Fair(lease, row, p)
      BY <1>1, <1>8 DEF UseInv, AllFair, FairRow
    <2>. HIDE DEF p, t, row, next, purpose
    <2>3. SeenBy(lease, row, p, t)
      BY <1>1, <1>4, <2>1, <2>2, EligibleSees DEF Fair
    <2>4. next.config = row.config /\ next.status = "BUSY"
      <3>1. next.config = row.config
        BY <1>1, <2>1, CheckedOutFields
      <3>2. next.status = "BUSY"
        BY <1>1, <2>1 DEF CheckedOut, ProfileRow
      <3>. QED BY <3>1, <3>2
    <2>5. Granted(lease, lease', row, p, l, t)
      BY <1>1, <1>2, <1>3, <1>5, <2>4 DEF Granted, Longest
    <2>6. /\ Orderly(lease', p) /\ Accounted(lease', next, p) /\ SeenBy(lease', next, p, t)
      BY <1>1, <2>1, <2>2, <2>3, <2>5, CheckoutAccounted
    <2>7. Limited(lease', next, p)
      BY <1>1, <1>4, <2>1, <2>2, <2>3, <2>5, CheckoutLimited
    <2>8. SeenBy(lease', next, p, now)
      BY <1>1, <1>7, <2>6, SeenLater
    <2>. QED BY <2>4, <2>6, <2>7, <2>8 DEF FairRow, Fair
  <1>9. \A q \in Profiles \ {p} : SameLeases(lease', lease, q)
    BY <1>3, <1>5 DEF SameLeases, LeasesIn
  <1>10. Unused(lease')
    BY <1>3 DEF UseInv, Unused
  <1>. QED BY <1>1, <1>8, <1>9, <1>10, SavesUse

LEMMA ReleaseUse ==
    ASSUME TypeInv, UseInv, OneActiveLease, NEW o \in Ops, CommitRelease(o)
    PROVE  UseInv'
  <1>. DEFINE p == op[o].profile
              t == op[o].at
              l == op[o].lease
              row == profile[p]
              next == op[o].row
  <1>1. /\ p \in Profiles /\ row \in ProfileRow /\ now \in Nat /\ t \in Nat /\ t <= now
        /\ next \in ProfileRow /\ l \in Leases
        /\ op[o].step = "LOADED" /\ op[o].request = "RELEASE"
        /\ now' = now /\ Saves(o) /\ lease \in [Leases -> LeaseRow]
    BY DEF CommitRelease, TypeInv, TypeOK, OpWellFormed, Op
  <1>2. lease[l].leasedAt <= t /\ t < lease[l].expires /\ lease[l].profile = p
    BY <1>1 DEF TypeInv, OpWellFormed
  <1>3. /\ lease'[l] = [lease[l] EXCEPT !.status = "RELEASED", !.released = t]
        /\ \A m \in Leases \ {l} : lease'[m] = lease[m]
    BY ReleaseCloses
  <1>4. /\ lease'[l].status = "RELEASED" /\ lease'[l].released = t /\ lease'[l].profile = p
        /\ lease'[l].leasedAt = lease[l].leasedAt /\ lease'[l].expires = lease[l].expires
    BY <1>1, <1>2, <1>3 DEF LeaseRow
  <1>5. TypeInv'
    BY NextTypeInv DEF Next, OpStep
  <1>6. lease' \in [Leases -> LeaseRow]
    BY <1>5 DEF TypeInv, TypeOK
  <1>7. ASSUME o \in fresh, p \notin overwritten
        PROVE  FairRow(lease', next, p, now)
    <2>1. /\ SeenBy(lease, row, p, t) /\ lease[l].status = "ACTIVE"
          /\ \E macros \in Nat, observation \in Observations :
                next = Released(row, lease[l].leasedAt, t, macros, observation)
      BY <1>1, <1>7 DEF UseInv, AllDue, Due
    <2>2. Fair(lease, row, p)
      BY <1>1, <1>7 DEF UseInv, AllFair, FairRow
    <2>. HIDE DEF p, t, l, row, next
    <2>3. ASSUME NEW m \in LeasesIn(lease, p) \ {l}
          PROVE  lease[m].status = "RELEASED"
      <3>1. m \in Leases /\ lease[m].profile = p /\ lease[m].status \in {"ACTIVE", "RELEASED"}
        BY <2>2 DEF Fair, Orderly, LeasesIn
      <3>. QED BY <1>1, <1>2, <2>1, <3>1 DEF OneActiveLease
    <2>4. Returned(lease, lease', p, l, t)
      BY <1>1, <1>2, <1>3, <1>4, <2>1, <2>3 DEF Returned, LeasesIn
    <2>5. PICK macros \in Nat, observation \in Observations :
             next = Released(row, lease[l].leasedAt, t, macros, observation)
      BY <2>1
    <2>6. next.status = "READY"
      BY <1>1, <2>5 DEF Released, ProfileRow
    <2>7. /\ Orderly(lease', p) /\ Accounted(lease', next, p) /\ SeenBy(lease', next, p, t)
      BY <1>1, <2>1, <2>2, <2>4, <2>5, ReleaseAccounted
    <2>8. Limited(lease', next, p)
      BY <1>1, <2>1, <2>2, <2>4, <2>5, ReleaseLimited
    <2>9. SeenBy(lease', next, p, now)
      BY <1>1, <1>6, <2>7, SeenLater
    <2>. QED BY <2>6, <2>7, <2>8, <2>9 DEF FairRow, Fair
  <1>8. \A q \in Profiles \ {p} : SameLeases(lease', lease, q)
    <2>1. \A m \in Leases : lease'[m].profile = lease[m].profile
      BY <1>2, <1>3, <1>4
    <2>. HIDE DEF p, l
    <2>. QED BY <1>2, <1>3, <2>1 DEF SameLeases, LeasesIn
  <1>9. Unused(lease')
    BY <1>3, <1>4 DEF UseInv, Unused
  <1>. QED BY <1>1, <1>7, <1>8, <1>9, SavesUse

LEMMA NextUse ==
    ASSUME TypeInv, OneActiveLease, UseInv, [Next]_vars, [LimitsOnlyRelaxed]_vars
    PROVE  UseInv'
  <1>0. /\ profile \in [Profiles -> ProfileRow] /\ now \in Nat
        /\ lease \in [Leases -> LeaseRow] /\ op \in [Ops -> Op]
    BY DEF TypeInv, TypeOK
  <1>1. ASSUME NEW o \in Ops, NEW p \in Profiles, CreateProfile(o, p)
        PROVE  UseInv'
    <2>1. p \notin overwritten => SameAccount(profile[p], NewRow)
      BY <1>1 DEF CreateProfile, Exists, UseInv, AllFair, FairRow, SameAccount, NewRow
    <2>. QED BY <1>1, <2>1, PrepareUse DEF CreateProfile, Writers
  <1>2. ASSUME NEW o \in Ops, NEW p \in Profiles, UpdateConfiguration(o, p)
        PROVE  UseInv'
    <2>1. PICK patch \in Patches :
             Prepare(o, "CONFIGURE", p, Configured(profile[p], patch))
      BY <1>2 DEF UpdateConfiguration
    <2>2. SameAccount(profile[p], Configured(profile[p], patch))
      BY <1>0, <1>2 DEF UpdateConfiguration, Exists, Configured, SameAccount, ProfileRow
    <2>. QED BY <1>2, <2>1, <2>2, PrepareUse DEF UpdateConfiguration, Writers
  <1>3. ASSUME NEW o \in Ops, NEW p \in Profiles, UpdateAccountStage(o, p)
        PROVE  UseInv'
    <2>1. PICK stage \in Targets \cap NextStages(profile[p].stage) :
             Prepare(o, "STAGE", p, [profile[p] EXCEPT !.stage = stage])
      BY <1>3 DEF UpdateAccountStage
    <2>2. SameAccount(profile[p], [profile[p] EXCEPT !.stage = stage])
      BY <1>0, <1>3 DEF UpdateAccountStage, Exists, SameAccount, ProfileRow
    <2>. QED BY <1>3, <2>1, <2>2, PrepareUse DEF UpdateAccountStage, Writers
  <1>4. ASSUME NEW o \in Ops, NEW p \in Profiles, StartProvisioning(o, p)
        PROVE  UseInv'
    <2>1. PICK token \in Tokens \ minted :
             Prepare(o, "PROVISION", p, AwaitingLogin(profile[p], token, now))
      BY <1>4 DEF StartProvisioning
    <2>2. SameAccount(profile[p], AwaitingLogin(profile[p], token, now))
      BY <1>0 DEF AwaitingLogin, SameAccount, ProfileRow
    <2>. QED BY <1>4, <2>1, <2>2, PrepareUse DEF StartProvisioning, Writers
  <1>5. ASSUME NEW o \in Ops, NEW p \in Profiles, IngestSession(o, p)
        PROVE  UseInv'
    <2>1. PICK ends \in SessionEnds :
             Prepare(o, "INGEST", p, Ingested(profile[p], ends))
      BY <1>5 DEF IngestSession
    <2>2. SameAccount(profile[p], Ingested(profile[p], ends))
      BY <1>0 DEF Ingested, SameAccount, ProfileRow
    <2>. QED BY <1>5, <2>1, <2>2, PrepareUse DEF IngestSession, Writers
  <1>6. ASSUME NEW o \in Ops, SaveProfile(o) PROVE UseInv'
    <2>1. CASE UNCHANGED vars
      <3>1. op[o] = IdleOp
        BY <1>0, <1>6, <2>1 DEF SaveProfile, Saves, vars
      <3>. QED BY <1>6, <3>1 DEF SaveProfile, IdleOp
    <2>2. CASE LimitsOnlyRelaxed
      BY <1>6, <2>2, SaveUse
    <2>. QED BY <2>1, <2>2
  <1>7. ASSUME NEW o \in Ops, NEW purpose \in Purposes, BeginCheckout(o, purpose)
        PROVE  UseInv'
    <2>1. /\ \A q \in Ops \ {o} : op'[q] = op[q]
          /\ UNCHANGED <<now, profile, lease, fresh, overwritten>> /\ Free(o)
      BY <1>0, <1>7 DEF BeginCheckout, history
    <2>2. o \notin fresh
      BY <2>1 DEF TypeInv, TypeOK
    <2>. QED BY <2>1, <2>2, OpUse
  <1>8. ASSUME NEW o \in Ops, NEW p \in Profiles, LoadCandidate(o, p)
        PROVE  UseInv'
    <2>. DEFINE row == CheckedOut(profile[p], op[o].at)
    <2>. HIDE DEF row
    <2>1. /\ op'[o].request = "CHECKOUT" /\ op'[o].at = op[o].at /\ op'[o].profile = p
          /\ op'[o].purpose = op[o].purpose /\ op'[o].row = row
          /\ op'[o].step = "LOADED"
          /\ Eligible(profile[p], op[o].purpose, op[o].at)
          /\ \A q \in Ops \ {o} : op'[q] = op[q]
          /\ UNCHANGED <<now, profile, lease, overwritten>> /\ fresh' = fresh \cup {o}
      BY <1>0, <1>8 DEF LoadCandidate, Reads, Op, row
    <2>2. Due(lease, profile[p], op'[o])
      BY <2>1, RequestsDiffer DEF Due, row
    <2>. QED BY <2>1, <2>2, OpUse
  <1>9. ASSUME NEW o \in Ops, CommitCheckout(o) PROVE UseInv'
    BY <1>9, CheckoutUse
  <1>10. ASSUME NEW o \in Ops, NEW l \in Leases, BeginRelease(o, l)
         PROVE  UseInv'
    <2>. DEFINE p == lease[l].profile
    <2>1. /\ op'[o].request = "RELEASE" /\ op'[o].step = "BEGUN" /\ op'[o].at = now
          /\ op'[o].lease = l /\ op'[o].profile = p /\ lease[l].status = "ACTIVE"
          /\ \A q \in Ops \ {o} : op'[q] = op[q]
          /\ UNCHANGED <<now, profile, lease, overwritten>> /\ fresh' = fresh \cup {o}
      BY <1>0, <1>10 DEF BeginRelease, Reads, IdleOp
    <2>2. p \in Profiles
      BY <2>1 DEF TypeInv, LeasesBegun
    <2>. HIDE DEF p
    <2>3. p \notin overwritten => SeenBy(lease, profile[p], p, now)
      BY <2>2 DEF UseInv, AllFair, FairRow
    <2>4. p \notin overwritten => Due(lease, profile[p], op'[o])
      BY <2>1, <2>3 DEF Due
    <2>. QED BY <2>1, <2>4, OpUse
  <1>11. ASSUME NEW o \in Ops, LoadLeasedProfile(o) PROVE UseInv'
    <2>. DEFINE p == op[o].profile
                leasedAt == lease[op[o].lease].leasedAt
    <2>1. PICK macros \in MacroCounts, observation \in Observations :
             op' = [op EXCEPT ![o].step = "LOADED",
                              ![o].row = Released(profile[p], leasedAt,
                                            op[o].at, macros, observation)]
      BY <1>11 DEF LoadLeasedProfile
    <2>. DEFINE row == Released(profile[p], leasedAt, op[o].at, macros, observation)
    <2>2. macros \in Nat
      BY InputAssumption
    <2>. HIDE DEF row
    <2>3. op' = [op EXCEPT ![o].step = "LOADED", ![o].row = row]
      BY <2>1 DEF row
    <2>4. /\ op'[o].request = "RELEASE" /\ op'[o].step = "LOADED" /\ op'[o].at = op[o].at
          /\ op'[o].lease = op[o].lease /\ op'[o].profile = p /\ op'[o].row = row
          /\ op[o].request = "RELEASE"
          /\ \A q \in Ops \ {o} : op'[q] = op[q]
          /\ UNCHANGED <<now, profile, lease, fresh, overwritten>>
      BY <1>0, <1>11, <2>3 DEF LoadLeasedProfile, Op, history
    <2>5. ASSUME o \in fresh, p \notin overwritten
          PROVE  Due(lease, profile[p], op'[o])
      <3>1. /\ SeenBy(lease, profile[p], p, op[o].at)
            /\ lease[op[o].lease].status = "ACTIVE"
        BY <2>4, <2>5 DEF UseInv, AllDue, Due
      <3>. QED BY <2>2, <2>4, <3>1, RequestsDiffer DEF Due, row
    <2>. QED BY <2>4, <2>5, OpUse
  <1>12. ASSUME NEW o \in Ops, CommitRelease(o) PROVE UseInv'
    BY <1>12, ReleaseUse
  <1>13. ASSUME NEW o \in Ops, Abandon(o) PROVE UseInv'
    <2>1. /\ \A q \in Ops \ {o} : op'[q] = op[q]
          /\ fresh' = fresh \ {o} /\ UNCHANGED <<now, profile, lease, overwritten>>
      BY <1>0, <1>13 DEF Abandon, Ends
    <2>. QED BY <2>1, OpUse
  <1>14. ASSUME UNCHANGED <<now, profile, lease, op, fresh, overwritten>> PROVE UseInv'
    BY <1>14 DEF UseInv
  <1>15. ASSUME Tick PROVE UseInv'
    <2>1. now' = now + 1 /\ UNCHANGED <<profile, lease, op, fresh, overwritten>>
      BY <1>15 DEF Tick, history
    <2>2. ASSUME NEW p \in Profiles \ overwritten
          PROVE  FairRow(lease, profile[p], p, now')
      <3>1. now' \in Nat /\ now <= now' /\ profile[p] \in ProfileRow
        BY <1>0, <2>1
      <3>2. FairRow(lease, profile[p], p, now) /\ Orderly(lease, p)
        BY DEF UseInv, AllFair, FairRow, Fair
      <3>3. SeenBy(lease, profile[p], p, now')
        BY <1>0, <3>1, <3>2, SeenLater DEF FairRow
      <3>. QED BY <3>2, <3>3 DEF FairRow
    <2>3. AllFair(lease, profile, now', overwritten)
      BY <2>2 DEF AllFair
    <2>. QED BY <2>1, <2>3 DEF UseInv
  <1>. QED BY <1>1, <1>2, <1>3, <1>4, <1>5, <1>6, <1>7, <1>8, <1>9, <1>10, <1>11,
              <1>12, <1>13, <1>14, <1>15
           DEF Next, OpStep, vars, UpsertSourceAccess, history

\* The sets of ProfileUsage are those of a row and the table of leases.
LEMMA UsageSets ==
    ASSUME TypeOK, NEW p \in Profiles, NEW d
    PROVE  /\ LeasesOf(p) = LeasesIn(lease, p)
           /\ StartedOn(p, d) = Started(lease, profile[p], p, d)
           /\ ClosedOn(p, d) = Ended(lease, profile[p], p, d)
           /\ MinutesOn(p, d) = Minutes(lease, Ended(lease, profile[p], p, d))
  <1>1. LeasesOf(p) = LeasesIn(lease, p)
    BY DEF LeasesOf, LeasesIn
  <1>2. StartedOn(p, d) = Started(lease, profile[p], p, d)
    BY DEF StartedOn, LeasesOf, Started
  <1>3. ClosedOn(p, d) = Ended(lease, profile[p], p, d)
    BY DEF ClosedOn, LeasesOf, Closed, Ended
  <1>4. MinutesOn(p, d) = Minutes(lease, Ended(lease, profile[p], p, d))
    BY <1>3, Zenon DEF MinutesOn, Minutes, Charged, Charge
  <1>. QED BY <1>1, <1>2, <1>3, <1>4

\* However requests overlap, they keep the account of every profile of which no
\* save was overwritten: its counters, its limits and what the requests that read
\* its present row will save.
THEOREM UseSafe ==
    Spec /\ [][LimitsOnlyRelaxed]_vars => []UseInv
  <1>1. TypeInv /\ OneActiveLease /\ UseInv /\ [Next]_vars /\ [LimitsOnlyRelaxed]_vars
            => UseInv'
    BY NextUse
  <1>. QED BY <1>1, InitUse, TypeSafe, OneLeaseAtATime, PTL DEF Spec

\* A session or a minute is only lost or doubled when a request overwrites what
\* another one saved: until then the daily counters of a profile, which eligibility
\* trusts, are what its leases of the day say, for any number of overlapping
\* requests, leases, minutes and days.
THEOREM CountersTellLeases ==
    Spec /\ [][LimitsOnlyRelaxed]_vars => []UsageAccounted
  <1>1. TypeInv /\ UseInv => UsageAccounted
    <2>. SUFFICES ASSUME TypeInv, UseInv, NEW p \in Profiles \ overwritten,
                         profile[p].usage.date # NoTime
                  PROVE  /\ profile[p].usage.sessions
                               = Cardinality(StartedOn(p, profile[p].usage.date))
                         /\ profile[p].usage.minutes
                               = MinutesOn(p, profile[p].usage.date)
      BY DEF UsageAccounted
    <2>. DEFINE d == profile[p].usage.date
    <2>1. Accounted(lease, profile[p], p)
      BY DEF UseInv, AllFair, FairRow, Fair
    <2>2. /\ profile[p].usage.sessions = Cardinality(Started(lease, profile[p], p, d))
          /\ profile[p].usage.minutes = Minutes(lease, Ended(lease, profile[p], p, d))
      BY <2>1 DEF Accounted
    <2>3. /\ StartedOn(p, d) = Started(lease, profile[p], p, d)
          /\ MinutesOn(p, d) = Minutes(lease, Ended(lease, profile[p], p, d))
      BY UsageSets DEF TypeInv
    <2>. QED BY <2>2, <2>3
  <1>. QED BY <1>1, UseSafe, TypeSafe, PTL

\* Overlapping requests honour the daily limits and the cooldown of a profile of
\* which no save was overwritten, though both are checked on a row that is read
\* before the checkout commits, at the time its request came in, and the minutes of
\* a lease are only known when it ends.
THEOREM LimitsKept ==
    Spec /\ [][LimitsOnlyRelaxed]_vars => []LimitsHonoured
  <1>1. TypeInv /\ UseInv => LimitsHonoured
    <2>. SUFFICES ASSUME TypeInv, UseInv, NEW p \in Profiles \ overwritten
                  PROVE  /\ LeasesOf(p) # {} =>
                               \A t \in 0 .. now : WithinDay(p, LocalDate(profile[p], t))
                         /\ \A l, m \in LeasesOf(p) : l # m => Apart(p, l, m) \/ Apart(p, m, l)
      BY DEF LimitsHonoured
    <2>1. Fair(lease, profile[p], p)
      BY DEF UseInv, AllFair, FairRow
    <2>2. LeasesOf(p) = LeasesIn(lease, p)
      BY UsageSets DEF TypeInv
    <2>3. ASSUME NEW t \in 0 .. now, LeasesOf(p) # {}
          PROVE  WithinDay(p, LocalDate(profile[p], t))
      <3>. DEFINE d == LocalDate(profile[p], t)
      <3>1. d \in Nat
        BY DateIsNat DEF TypeInv, TypeOK
      <3>. HIDE DEF d
      <3>2. /\ Cardinality(Started(lease, profile[p], p, d))
                  <= profile[p].config.thresholds.sessions
            /\ Minutes(lease, Ended(lease, profile[p], p, d))
                  <= 2 * profile[p].config.thresholds.minutes - 1
        BY <2>1, <2>2, <2>3, <3>1 DEF Fair, Limited
      <3>3. /\ StartedOn(p, d) = Started(lease, profile[p], p, d)
            /\ MinutesOn(p, d) = Minutes(lease, Ended(lease, profile[p], p, d))
        BY UsageSets DEF TypeInv
      <3>4. WithinDay(p, d)
        BY <3>2, <3>3 DEF WithinDay
      <3>. QED BY <3>4 DEF d
    <2>4. ASSUME NEW l \in LeasesOf(p), NEW m \in LeasesOf(p), l # m
          PROVE  Apart(p, l, m) \/ Apart(p, m, l)
      <3>1. Rested(lease, profile[p], l, m) \/ Rested(lease, profile[p], m, l)
        BY <2>1, <2>2, <2>4 DEF Fair, Limited
      <3>. QED BY <3>1 DEF Rested, Apart, Closed, LeasesOf
    <2>. QED BY <2>3, <2>4
  <1>. QED BY <1>1, UseSafe, TypeSafe, PTL

-----------------------------------------------------------------------------
(* BUSY means leased, however requests overlap, until a save is overwritten.   *)

HeldRow(ls, row, p) ==
    row.status = "BUSY" <=> \E l \in Leases : ls[l].status = "ACTIVE" /\ ls[l].profile = p

\* What request o does to the status of its profile, and to its lease
Holds(ls, row, o) ==
    /\ o.request = "RELEASE" => ls[o.lease].status = "ACTIVE"
    /\ o.step = "LOADED" =>
          /\ o.request \in Writers => (o.row.status = "BUSY" <=> row.status = "BUSY")
          /\ o.request = "CHECKOUT" => o.row.status = "BUSY"
          /\ o.request = "RELEASE" => o.row.status = "READY"

AllHeld(ls, ps, lost) == \A p \in Profiles \ lost : HeldRow(ls, ps[p], p)

AllHold(ls, ps, os, reading) == \A o \in reading : Holds(ls, ps[os[o].profile], os[o])

HoldInv == AllHeld(lease, profile, overwritten) /\ AllHold(lease, profile, op, fresh)

LEMMA HeldIsBusy == HoldInv => BusyIffLeased
  BY DEF HoldInv, AllHeld, HeldRow, BusyIffLeased, BusyWhileLeased, ActiveLeases

LEMMA OpHold ==
    ASSUME TypeInv, HoldInv, NEW o \in Ops,
           profile' = profile, lease' = lease, overwritten' = overwritten,
           fresh' \subseteq fresh \cup {o}, \A q \in Ops \ {o} : op'[q] = op[q],
           o \in fresh' => Holds(lease, profile[op'[o].profile], op'[o])
    PROVE  HoldInv'
  <1>1. fresh \subseteq Ops
    BY DEF TypeInv, TypeOK
  <1>2. AllHold(lease', profile', op', fresh')
    BY <1>1 DEF HoldInv, AllHold
  <1>. QED BY <1>2 DEF HoldInv

LEMMA PrepareHold ==
    ASSUME TypeInv, HoldInv, NEW o \in Ops, NEW p \in Profiles,
           NEW request \in Writers, NEW row,
           row.status = "BUSY" <=> profile[p].status = "BUSY",
           Prepare(o, request, p, row), UNCHANGED <<profile, lease>>
    PROVE  HoldInv'
  <1>1. /\ op'[o].request = request /\ op'[o].profile = p /\ op'[o].row = row
        /\ \A q \in Ops \ {o} : op'[q] = op[q]
        /\ fresh' = fresh \cup {o} /\ overwritten' = overwritten
    BY DEF Prepare, Reads, IdleOp, TypeInv, TypeOK
  <1>2. request \notin {"CHECKOUT", "RELEASE"}
    BY RequestsDiffer
  <1>3. Holds(lease, profile[p], op'[o])
    BY <1>1, <1>2 DEF Holds
  <1>. QED BY <1>1, <1>3, OpHold

LEMMA SavesHold ==
    ASSUME TypeInv, HoldInv, NEW o \in Ops, Saves(o), op[o].profile \in Profiles,
           \A q \in Profiles \ {op[o].profile} : SameLeases(lease', lease, q),
           o \in fresh /\ op[o].profile \notin overwritten
              => HeldRow(lease', op[o].row, op[o].profile)
    PROVE  HoldInv'
  <1>. DEFINE p == op[o].profile
  <1>1. /\ profile'[p] = op[o].row /\ \A q \in Profiles \ {p} : profile'[q] = profile[q]
        /\ \A q \in Ops \ {o} : op'[q] = op[q]
        /\ fresh' = {q \in fresh : op[q].profile # p}
        /\ overwritten \subseteq overwritten'
        /\ p \notin overwritten' => o \in fresh /\ p \notin overwritten
        /\ fresh \subseteq Ops
        /\ profile \in [Profiles -> ProfileRow]
    BY DEF Saves, TypeInv, TypeOK
  <1>2. ASSUME NEW q \in Profiles \ overwritten'
        PROVE  HeldRow(lease', profile'[q], q)
    <2>1. CASE q = p
      BY <1>1, <1>2, <2>1
    <2>2. CASE q # p
      <3>1. HeldRow(lease, profile[q], q) /\ SameLeases(lease', lease, q)
        BY <1>1, <2>2 DEF HoldInv, AllHeld
      <3>. QED BY <1>1, <2>2, <3>1 DEF HeldRow, SameLeases, LeasesIn
    <2>. QED BY <2>1, <2>2
  <1>3. ASSUME NEW q \in fresh'
        PROVE  Holds(lease', profile'[op'[q].profile], op'[q])
    <2>1. q \in fresh /\ q \in Ops /\ op'[q] = op[q] /\ op[q].profile # p
      BY <1>1
    <2>2. Holds(lease, profile[op[q].profile], op[q])
      BY <2>1 DEF HoldInv, AllHold
    <2>3. CASE op[q].profile \in Profiles
      <3>1. op[q].request = "RELEASE" => op[q].lease \in LeasesIn(lease, op[q].profile)
        BY <2>1 DEF TypeInv, OpWellFormed, LeasesIn
      <3>2. SameLeases(lease', lease, op[q].profile)
        BY <2>1, <2>3
      <3>3. op[q].request = "RELEASE" => lease'[op[q].lease].status = "ACTIVE"
        BY <2>2, <3>1, <3>2 DEF Holds, SameLeases
      <3>. QED BY <1>1, <2>1, <2>2, <2>3, <3>3 DEF Holds
    <2>4. CASE op[q].profile \notin Profiles
      <3>1. op[q].step # "LOADED" /\ op[q].request # "RELEASE"
        BY <2>1, <2>4 DEF TypeInv, OpWellFormed
      <3>. QED BY <2>1, <3>1 DEF Holds
    <2>. QED BY <2>3, <2>4
  <1>4. AllHeld(lease', profile', overwritten')
    BY <1>2 DEF AllHeld
  <1>5. AllHold(lease', profile', op', fresh')
    BY <1>3 DEF AllHold
  <1>. QED BY <1>4, <1>5 DEF HoldInv

LEMMA NextHold ==
    ASSUME TypeInv, OneActiveLease, UnusedInv, HoldInv, [Next]_vars
    PROVE  HoldInv'
  <1>0. /\ profile \in [Profiles -> ProfileRow] /\ op \in [Ops -> Op]
        /\ lease \in [Leases -> LeaseRow]
    BY DEF TypeInv, TypeOK
  <1>1. ASSUME NEW o \in Ops, NEW p \in Profiles, CreateProfile(o, p)
        PROVE  HoldInv'
    BY <1>1, PrepareHold DEF CreateProfile, Exists, Writers, NewRow
  <1>2. ASSUME NEW o \in Ops, NEW p \in Profiles, UpdateConfiguration(o, p)
        PROVE  HoldInv'
    <2>1. PICK patch \in Patches :
             Prepare(o, "CONFIGURE", p, Configured(profile[p], patch))
      BY <1>2 DEF UpdateConfiguration
    <2>2. Configured(profile[p], patch).status = profile[p].status
      BY <1>0 DEF Configured, ProfileRow
    <2>. QED BY <1>2, <2>1, <2>2, PrepareHold DEF UpdateConfiguration, Writers
  <1>3. ASSUME NEW o \in Ops, NEW p \in Profiles, UpdateAccountStage(o, p)
        PROVE  HoldInv'
    <2>1. PICK stage \in Targets \cap NextStages(profile[p].stage) :
             Prepare(o, "STAGE", p, [profile[p] EXCEPT !.stage = stage])
      BY <1>3 DEF UpdateAccountStage
    <2>2. [profile[p] EXCEPT !.stage = stage].status = profile[p].status
      BY <1>0 DEF ProfileRow
    <2>. QED BY <1>3, <2>1, <2>2, PrepareHold DEF UpdateAccountStage, Writers
  <1>4. ASSUME NEW o \in Ops, NEW p \in Profiles, StartProvisioning(o, p)
        PROVE  HoldInv'
    <2>1. PICK token \in Tokens \ minted :
             Prepare(o, "PROVISION", p, AwaitingLogin(profile[p], token, now))
      BY <1>4 DEF StartProvisioning
    <2>2. AwaitingLogin(profile[p], token, now).status = "PENDING_LOGIN"
      BY <1>0 DEF AwaitingLogin, ProfileRow
    <2>3. profile[p].status # "BUSY"
      BY <1>4 DEF StartProvisioning, CanStartProvisioning
    <2>. QED BY <1>4, <2>1, <2>2, <2>3, PrepareHold DEF StartProvisioning, Writers
  <1>5. ASSUME NEW o \in Ops, NEW p \in Profiles, IngestSession(o, p)
        PROVE  HoldInv'
    <2>1. PICK ends \in SessionEnds :
             Prepare(o, "INGEST", p, Ingested(profile[p], ends))
      BY <1>5 DEF IngestSession
    <2>2. Ingested(profile[p], ends).status = "READY"
      BY <1>0 DEF Ingested, ProfileRow
    <2>3. profile[p].status # "BUSY"
      BY <1>5 DEF IngestSession, CanIngest
    <2>. QED BY <1>5, <2>1, <2>2, <2>3, PrepareHold DEF IngestSession, Writers
  <1>6. ASSUME NEW o \in Ops, SaveProfile(o) PROVE HoldInv'
    <2>. DEFINE p == op[o].profile
                row == op[o].row
    <2>1. /\ p \in Profiles /\ lease' = lease /\ Saves(o)
      BY <1>6 DEF SaveProfile, TypeInv, OpWellFormed
    <2>2. ASSUME o \in fresh, p \notin overwritten PROVE HeldRow(lease, row, p)
      <3>1. row.status = "BUSY" <=> profile[p].status = "BUSY"
        BY <1>6, <2>2 DEF SaveProfile, HoldInv, AllHold, Holds
      <3>. QED BY <2>1, <2>2, <3>1 DEF HoldInv, AllHeld, HeldRow
    <2>3. \A q \in Profiles : SameLeases(lease', lease, q)
      BY <2>1 DEF SameLeases
    <2>. QED BY <2>1, <2>2, <2>3, SavesHold
  <1>7. ASSUME NEW o \in Ops, NEW purpose \in Purposes, BeginCheckout(o, purpose)
        PROVE  HoldInv'
    <2>1. /\ \A q \in Ops \ {o} : op'[q] = op[q]
          /\ UNCHANGED <<profile, lease, fresh, overwritten>> /\ Free(o)
      BY <1>0, <1>7 DEF BeginCheckout, history
    <2>2. o \notin fresh
      BY <2>1 DEF TypeInv, TypeOK
    <2>. QED BY <2>1, <2>2, OpHold
  <1>8. ASSUME NEW o \in Ops, NEW p \in Profiles, LoadCandidate(o, p)
        PROVE  HoldInv'
    <2>. DEFINE row == CheckedOut(profile[p], op[o].at)
    <2>1. row.status = "BUSY"
      BY <1>0 DEF CheckedOut, ProfileRow
    <2>. HIDE DEF row
    <2>2. /\ op'[o].request = "CHECKOUT" /\ op'[o].row = row
          /\ \A q \in Ops \ {o} : op'[q] = op[q]
          /\ UNCHANGED <<profile, lease, overwritten>> /\ fresh' = fresh \cup {o}
      BY <1>0, <1>8 DEF LoadCandidate, Reads, Op, row
    <2>3. Holds(lease, profile[op'[o].profile], op'[o])
      BY <2>1, <2>2, RequestsDiffer DEF Holds
    <2>. QED BY <2>2, <2>3, OpHold
  <1>9. ASSUME NEW o \in Ops, CommitCheckout(o) PROVE HoldInv'
    <2>. DEFINE p == op[o].profile
                row == op[o].row
    <2>1. p \in Profiles /\ Saves(o)
      BY <1>9 DEF CommitCheckout, TypeInv, OpWellFormed
    <2>2. PICK l \in Leases :
             /\ lease[l].status = "NONE" /\ lease' = [lease EXCEPT ![l] = GrantedLease(o)]
      BY <1>9 DEF CommitCheckout
    <2>3. /\ lease'[l].status = "ACTIVE" /\ lease'[l].profile = p
          /\ \A m \in Leases \ {l} : lease'[m] = lease[m]
          /\ lease[l].profile = Null
      BY <1>0, <1>9, <2>2 DEF GrantedLease, UnusedInv, Unused
    <2>4. ASSUME o \in fresh PROVE HeldRow(lease', row, p)
      <3>1. row.status = "BUSY"
        BY <1>9, <2>4 DEF CommitCheckout, HoldInv, AllHold, Holds
      <3>. QED BY <2>3, <3>1 DEF HeldRow
    <2>5. \A q \in Profiles \ {p} : SameLeases(lease', lease, q)
      BY <2>3, NullAssumption DEF SameLeases, LeasesIn
    <2>. QED BY <2>1, <2>4, <2>5, SavesHold
  <1>10. ASSUME NEW o \in Ops, NEW l \in Leases, BeginRelease(o, l)
         PROVE  HoldInv'
    <2>1. /\ op'[o].request = "RELEASE" /\ op'[o].step = "BEGUN"
          /\ op'[o].lease = l /\ lease[l].status = "ACTIVE"
          /\ \A q \in Ops \ {o} : op'[q] = op[q]
          /\ UNCHANGED <<profile, lease, overwritten>> /\ fresh' = fresh \cup {o}
      BY <1>0, <1>10 DEF BeginRelease, Reads, IdleOp
    <2>2. Holds(lease, profile[op'[o].profile], op'[o])
      BY <2>1 DEF Holds
    <2>. QED BY <2>1, <2>2, OpHold
  <1>11. ASSUME NEW o \in Ops, LoadLeasedProfile(o) PROVE HoldInv'
    <2>. DEFINE p == op[o].profile
                leasedAt == lease[op[o].lease].leasedAt
    <2>1. PICK macros \in MacroCounts, observation \in Observations :
             op' = [op EXCEPT ![o].step = "LOADED",
                              ![o].row = Released(profile[p], leasedAt,
                                            op[o].at, macros, observation)]
      BY <1>11 DEF LoadLeasedProfile
    <2>. DEFINE row == Released(profile[p], leasedAt, op[o].at, macros, observation)
    <2>2. profile[p] \in ProfileRow
      BY <1>0, <1>11 DEF LoadLeasedProfile, TypeInv, OpWellFormed
    <2>3. row.status = "READY"
      BY <2>2 DEF Released, ProfileRow
    <2>. HIDE DEF row
    <2>4. op' = [op EXCEPT ![o].step = "LOADED", ![o].row = row]
      BY <2>1 DEF row
    <2>5. /\ op'[o].request = "RELEASE" /\ op'[o].lease = op[o].lease
          /\ op'[o].row = row /\ op[o].request = "RELEASE"
          /\ \A q \in Ops \ {o} : op'[q] = op[q]
          /\ UNCHANGED <<profile, lease, fresh, overwritten>>
      BY <1>0, <1>11, <2>4 DEF LoadLeasedProfile, Op, history
    <2>6. ASSUME o \in fresh
          PROVE  Holds(lease, profile[op'[o].profile], op'[o])
      <3>1. lease[op[o].lease].status = "ACTIVE"
        BY <2>5, <2>6 DEF HoldInv, AllHold, Holds
      <3>. QED BY <2>3, <2>5, <3>1, RequestsDiffer DEF Holds
    <2>. QED BY <2>5, <2>6, OpHold
  <1>12. ASSUME NEW o \in Ops, CommitRelease(o) PROVE HoldInv'
    <2>. DEFINE p == op[o].profile
                l == op[o].lease
                row == op[o].row
    <2>1. /\ p \in Profiles /\ Saves(o) /\ l \in Leases /\ lease[l].profile = p
      BY <1>12 DEF CommitRelease, TypeInv, OpWellFormed
    <2>2. /\ lease'[l] = [lease[l] EXCEPT !.status = "RELEASED", !.released = op[o].at]
          /\ \A m \in Leases \ {l} : lease'[m] = lease[m]
      BY <1>12, ReleaseCloses
    <2>3. lease'[l].status = "RELEASED" /\ lease'[l].profile = p
      BY <1>0, <2>1, <2>2 DEF LeaseRow
    <2>4. ASSUME o \in fresh PROVE HeldRow(lease', row, p)
      <3>1. row.status = "READY" /\ lease[l].status = "ACTIVE"
        BY <1>12, <2>4 DEF CommitRelease, HoldInv, AllHold, Holds
      <3>. HIDE DEF p, l, row
      <3>2. ASSUME NEW m \in Leases, lease'[m].status = "ACTIVE"
            PROVE  lease'[m].profile # p
        BY <2>1, <2>2, <2>3, <3>1, <3>2 DEF OneActiveLease
      <3>. QED BY <3>1, <3>2 DEF HeldRow
    <2>5. \A q \in Profiles \ {p} : SameLeases(lease', lease, q)
      BY <2>1, <2>2, <2>3 DEF SameLeases, LeasesIn
    <2>. QED BY <2>1, <2>4, <2>5, SavesHold
  <1>13. ASSUME NEW o \in Ops, Abandon(o) PROVE HoldInv'
    <2>1. /\ \A q \in Ops \ {o} : op'[q] = op[q]
          /\ fresh' = fresh \ {o} /\ UNCHANGED <<profile, lease, overwritten>>
      BY <1>0, <1>13 DEF Abandon, Ends
    <2>. QED BY <2>1, OpHold
  <1>14. ASSUME UNCHANGED <<profile, lease, op, fresh, overwritten>> PROVE HoldInv'
    BY <1>14 DEF HoldInv
  <1>. QED BY <1>1, <1>2, <1>3, <1>4, <1>5, <1>6, <1>7, <1>8, <1>9, <1>10, <1>11,
              <1>12, <1>13, <1>14 DEF Next, OpStep, vars, UpsertSourceAccess, Tick, history

\* Operators may configure, provision and stage a profile while it is checked out
\* and released, with any number of requests at a time: until a request overwrites
\* what another saved of it, a profile is BUSY exactly while it is leased.
THEOREM BusyUntilOverwritten == Spec => []BusyIffLeased
  <1>1. Init => HoldInv
    <2>. SUFFICES ASSUME Init PROVE HoldInv
      OBVIOUS
    <2>1. \A l \in Leases : lease[l].status = "NONE"
      BY DEF Init, NoLease
    <2>2. \A p \in Profiles : profile[p].status # "BUSY"
      BY DEF Init, ProvisionedRow, AbsentRow, NewRow
    <2>. QED BY <2>1, <2>2 DEF Init, HoldInv, AllHeld, HeldRow, AllHold
  <1>2. TypeInv /\ OneActiveLease /\ UnusedInv /\ HoldInv /\ [Next]_vars => HoldInv'
    BY NextHold
  <1>. QED BY <1>1, <1>2, HeldIsBusy, TypeSafe, OneLeaseAtATime, NoOwnerYet, PTL DEF Spec
=============================================================================
