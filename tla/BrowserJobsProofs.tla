-------------------------- MODULE BrowserJobsProofs --------------------------
(* Theorems about BrowserJobs, for every value of its constants. *)
EXTENDS BrowserJobs, TLAPS

-----------------------------------------------------------------------------
(* The inductive invariant *)

Browsers == {"NONE", "STARTING", "UP", "LEFT", "GONE"}

\* Loose and Untold of a job that is in the given state.
Strays(state, b) ==
    \/ b = "LEFT"
    \/ state.late = TRUE
    \/ state.provider = "CLOAK" /\ state.signalled = TRUE /\ state.kind \in Listening

Conceals(state) ==
    \/ state.kind = "EXERCISE" /\ state.looks = 1
    \/ state.kind = "HOME_FEED" /\ state.signalled = TRUE

\* What the step of a job says of its browser, the calls under way and the walls
\* it met.
Fits(state, b, c, m) ==
    /\ state.step = "IDLE" => b = "NONE" /\ c = {}
    /\ state.step # "IDLE" => state.profile \in Profiles
    /\ state.step = "LEASED" => b = "NONE"
    /\ state.step \in {"LEASED", "LAUNCHING"} => state.shut = FALSE
    /\ state.late = TRUE => state.step \in {"RELEASING", "DONE"}
    /\ state.step = "LAUNCHING" => b = "STARTING"
    /\ state.step \in {"DRIVING", "CLOSING"} => b \in {"UP", "LEFT", "GONE"}
    /\ state.step \in {"RELEASING", "DONE", "DEAD"} =>
          b \in {"NONE", "GONE"} \/ Strays(state, b)
    /\ state.step = "DRIVING" /\ state.shut = TRUE =>
          state.signalled = TRUE /\ state.kind \in Listening
    /\ c # {} => b \in {"UP", "LEFT", "GONE"}
    /\ state.step \in {"IDLE", "LEASED", "LAUNCHING", "DRIVING"} => m = FALSE
    /\ state.step \in {"CLOSING", "RELEASING"} /\ m = TRUE =>
          state.noted = TRUE \/ Conceals(state)

\* A running job has its lease; one that is done and met a wall has told it, or
\* its release was lost and it still has the lease.
Covered(j, state, m, leased, health) ==
    /\ state.step \in Running => <<state.profile, j>> \in leased
    /\ state.step = "DONE" /\ m = TRUE /\ ~Conceals(state) =>
          <<state.profile, j>> \in leased \/ health[state.profile] = FALSE

Types ==
    /\ job \in [Jobs -> Job]
    /\ browser \in [Jobs -> Browsers]
    /\ calls \in [Jobs -> SUBSET Calls]
    /\ met \in [Jobs -> BOOLEAN]
    /\ wall \in [Profiles -> BOOLEAN]
    /\ healthy \in [Profiles -> BOOLEAN]
    /\ held \subseteq Profiles \X Jobs /\ closed \subseteq Jobs

Exclusive ==
    \A p \in Profiles, j, k \in Jobs : <<p, j>> \in held /\ <<p, k>> \in held => j = k

Inv ==
    /\ Types /\ Exclusive
    /\ \A j \in Jobs : /\ Fits(job[j], browser[j], calls[j], met[j])
                       /\ Covered(j, job[j], met[j], held, healthy)

\* What a step of job j leaves alone, and what it may do to the job.
Quiet(j) ==
    /\ job' \in [Jobs -> Job] /\ browser' \in [Jobs -> Browsers]
    /\ calls' \in [Jobs -> SUBSET Calls] /\ met' \in [Jobs -> BOOLEAN]
    /\ wall' = wall
    /\ \A k \in Jobs \ {j} : /\ job'[k] = job[k] /\ browser'[k] = browser[k]
                             /\ calls'[k] = calls[k] /\ met'[k] = met[k]
    /\ Fits(job'[j], browser'[j], calls'[j], met'[j])

\* What a step makes of the job, its browser, its calls and its history.
Sets(j, state, b, c, m) ==
    /\ job' = [job EXCEPT ![j] = state]
    /\ browser' = [browser EXCEPT ![j] = b]
    /\ calls' = [calls EXCEPT ![j] = c]
    /\ met' = [met EXCEPT ![j] = m]
    /\ UNCHANGED wall

\* A step that keeps the leases never wakes a job up that has none.
Goes(state, next) ==
    /\ next.step \in Running => state.step \in Running /\ next.profile = state.profile
    /\ next.step = "DONE" =>
          /\ state.step = "DONE" /\ next.profile = state.profile
          /\ Conceals(next) = Conceals(state)

-----------------------------------------------------------------------------
(* Every action keeps the types and the coherence of the job it is about *)

LEMMA IdleType == IdleJob \in Job
  BY BrowserJobsBounds DEF IdleJob, Job, Kinds, Providers

LEMMA LooksType == ASSUME NEW kind PROVE Looks(kind) \subseteq 0 .. MaxLooks
  BY DEF Looks

\* A job in its new state, with its browser and its calls.
LEMMA Changed ==
    ASSUME Inv, NEW j \in Jobs, NEW state \in Job, NEW b \in Browsers,
           NEW c \in SUBSET Calls, NEW m \in BOOLEAN, Fits(state, b, c, m),
           Sets(j, state, b, c, m)
    PROVE  Quiet(j) /\ job'[j] = state /\ met'[j] = m
  <1>1. /\ job \in [Jobs -> Job] /\ browser \in [Jobs -> Browsers]
        /\ calls \in [Jobs -> SUBSET Calls] /\ met \in [Jobs -> BOOLEAN]
    BY DEF Inv, Types
  <1>. USE DEF Sets
  <1>2. job' \in [Jobs -> Job] /\ job'[j] = state /\ \A k \in Jobs \ {j} : job'[k] = job[k]
    BY <1>1
  <1>3. /\ browser' \in [Jobs -> Browsers] /\ browser'[j] = b
        /\ \A k \in Jobs \ {j} : browser'[k] = browser[k]
    BY <1>1
  <1>4. /\ calls' \in [Jobs -> SUBSET Calls] /\ calls'[j] = c
        /\ \A k \in Jobs \ {j} : calls'[k] = calls[k]
    BY <1>1
  <1>5. /\ met' \in [Jobs -> BOOLEAN] /\ met'[j] = m
        /\ \A k \in Jobs \ {j} : met'[k] = met[k]
    BY <1>1
  <1>. QED BY <1>2, <1>3, <1>4, <1>5 DEF Quiet

LEMMA Same ==
    ASSUME Inv, NEW j \in Jobs
    PROVE  /\ UNCHANGED browser => browser' = [browser EXCEPT ![j] = browser[j]]
           /\ UNCHANGED calls => calls' = [calls EXCEPT ![j] = calls[j]]
           /\ UNCHANGED met => met' = [met EXCEPT ![j] = met[j]]
           /\ job[j] \in Job /\ browser[j] \in Browsers /\ calls[j] \in SUBSET Calls
           /\ met[j] \in BOOLEAN
           /\ Fits(job[j], browser[j], calls[j], met[j])
           /\ Covered(j, job[j], met[j], held, healthy)
  BY DEF Inv, Types

\* Steps that keep the leases.
LEMMA QuietKeeps ==
    ASSUME Inv, NEW j \in Jobs, Quiet(j), Goes(job[j], job'[j]), UNCHANGED leaseVars,
           met'[j] = met[j] \/ job'[j].step # "DONE"
    PROVE  Inv'
  <1>1. Types' /\ Exclusive'
    BY DEF Inv, Types, Exclusive, Quiet, leaseVars
  <1>2. ASSUME NEW k \in Jobs
        PROVE  /\ Fits(job'[k], browser'[k], calls'[k], met'[k])
               /\ Covered(k, job'[k], met'[k], held', healthy')
    <2>1. CASE k # j
      BY <2>1 DEF Inv, Quiet, leaseVars
    <2>2. CASE k = j
      <3>1. Covered(j, job[j], met[j], held, healthy)
        BY DEF Inv
      <3>2. Fits(job'[k], browser'[k], calls'[k], met'[k])
        BY <2>2 DEF Quiet
      <3>3. Covered(k, job'[k], met'[k], held', healthy')
        BY <2>2, <3>1, Zenon DEF Goes, Covered, leaseVars
      <3>. QED BY <3>2, <3>3
    <2>. QED BY <2>1, <2>2
  <1>. QED BY <1>1, <1>2 DEF Inv

\* The two together: what is left to show of such a step.
LEMMA Moves ==
    ASSUME Inv, NEW j \in Jobs, NEW state \in Job, NEW b \in Browsers,
           NEW c \in SUBSET Calls, NEW m \in BOOLEAN, Fits(state, b, c, m),
           Goes(job[j], state), m = met[j] \/ state.step # "DONE",
           Sets(j, state, b, c, m), UNCHANGED leaseVars
    PROVE  Inv'
  <1>1. Quiet(j) /\ job'[j] = state /\ met'[j] = m
    BY Changed
  <1>2. Goes(job[j], job'[j]) /\ (met'[j] = met[j] \/ job'[j].step # "DONE")
    BY <1>1
  <1>. QED BY <1>1, <1>2, QuietKeeps

\* A record and what its step says.
LEMMA ToReleaseType ==
    ASSUME NEW state \in Job
    PROVE  /\ ToRelease(state) \in Job
           /\ ToRelease(state).step = "RELEASING"
           /\ ToRelease(state).kind = state.kind /\ ToRelease(state).looks = state.looks
           /\ ToRelease(state).profile = state.profile
           /\ ToRelease(state).provider = state.provider
           /\ ToRelease(state).signalled = state.signalled
           /\ ToRelease(state).late = state.late
           /\ ToRelease(state).shut = state.shut
           /\ state.noted = TRUE => ToRelease(state).noted = TRUE \/ Conceals(state)
  BY DEF ToRelease, Job, Conceals

LEMMA UnpreparedStep == ASSUME Inv, NEW j \in Jobs, Unprepared(j) PROVE Inv'
  <1>. PICK old \in Job : old = job[j]
    BY Same
  <1>. DEFINE state == [old EXCEPT !.step = "RELEASING"]
  <1>1. /\ state \in Job /\ state.step = "RELEASING" /\ state.profile = old.profile
        /\ state.noted = old.noted
    BY DEF Job
  <1>2. job' = [job EXCEPT ![j] = state] /\ old.step = "LEASED"
    BY DEF Unprepared, Become
  <1>. HIDE DEF state
  <1>3. browser[j] = "NONE" /\ calls[j] = {} /\ met[j] = FALSE /\ old.profile \in Profiles
    BY <1>2, Same DEF Fits
  <1>4. Fits(state, browser[j], calls[j], met[j]) /\ Goes(old, state)
    BY <1>1, <1>2, <1>3 DEF Fits, Goes, Running
  <1>9. Sets(j, state, browser[j], calls[j], met[j]) /\ UNCHANGED leaseVars
    BY <1>2, Same DEF Unprepared, Sets
  <1>. QED BY <1>1, <1>2, <1>4, <1>9, Same, Moves

LEMMA LaunchStep == ASSUME Inv, NEW j \in Jobs, Launch(j) PROVE Inv'
  <1>. PICK old \in Job : old = job[j]
    BY Same
  <1>. DEFINE state == [old EXCEPT !.step = "LAUNCHING"]
  <1>1. /\ state \in Job /\ state.step = "LAUNCHING" /\ state.profile = old.profile
        /\ state.shut = old.shut /\ state.late = old.late
    BY DEF Job
  <1>2. job' = [job EXCEPT ![j] = state] /\ old.step = "LEASED"
    BY DEF Launch, Become
  <1>. HIDE DEF state
  <1>3. /\ browser[j] = "NONE" /\ calls[j] = {} /\ met[j] = FALSE
        /\ old.profile \in Profiles /\ old.shut = FALSE /\ old.late # TRUE
    BY <1>2, Same DEF Fits
  <1>4. Fits(state, "STARTING", calls[j], met[j]) /\ Goes(old, state)
    BY <1>1, <1>2, <1>3 DEF Fits, Goes, Running
  <1>5. "STARTING" \in Browsers
    BY DEF Browsers
  <1>9. Sets(j, state, "STARTING", calls[j], met[j]) /\ UNCHANGED leaseVars
    BY <1>2, Same DEF Launch, Sets
  <1>. QED BY <1>1, <1>2, <1>4, <1>5, <1>9, Same, Moves

LEMMA AbandonLaunchStep == ASSUME Inv, NEW j \in Jobs, AbandonLaunch(j) PROVE Inv'
  <1>. PICK old \in Job : old = job[j]
    BY Same
  <1>. DEFINE state == [old EXCEPT !.step = "RELEASING", !.late = TRUE]
  <1>1. /\ state \in Job /\ state.step = "RELEASING" /\ state.profile = old.profile
        /\ state.late = TRUE
    BY DEF Job
  <1>2. job' = [job EXCEPT ![j] = state] /\ old.step = "LAUNCHING"
    BY DEF AbandonLaunch, Become
  <1>. HIDE DEF state
  <1>3. /\ browser[j] = "STARTING" /\ calls[j] = {} /\ met[j] = FALSE
        /\ old.profile \in Profiles
    BY <1>2, Same DEF Fits
  <1>4. Fits(state, browser[j], calls[j], met[j]) /\ Goes(old, state)
    BY <1>1, <1>2, <1>3 DEF Fits, Goes, Running, Strays
  <1>9. Sets(j, state, browser[j], calls[j], met[j]) /\ UNCHANGED leaseVars
    BY <1>2, Same DEF AbandonLaunch, Sets
  <1>. QED BY <1>1, <1>2, <1>4, <1>9, Same, Moves

\* Whatever a program observed, it closes its browser before it releases its
\* lease, unless the abort listener of a Cloak session already closes it.
LEMMA CloseWithStep ==
    ASSUME Inv, NEW j \in Jobs, job[j].step = "DRIVING", NEW noted \in BOOLEAN,
           NEW m \in BOOLEAN, m = TRUE => noted = TRUE \/ Conceals(job[j]),
           met' = [met EXCEPT ![j] = m],
           CloseWith(j, noted), UNCHANGED <<browser, wall>>, UNCHANGED leaseVars
    PROVE  Inv'
  <1>. PICK old \in Job : old = job[j]
    BY Same
  <1>0. /\ browser[j] \in {"UP", "LEFT", "GONE"} /\ old.profile \in Profiles
        /\ old.shut = TRUE => old.signalled = TRUE /\ old.kind \in Listening
        /\ old.step = "DRIVING" /\ old.late # TRUE
    BY Same DEF Fits
  <1>1. CASE old.provider = "CLOAK" /\ old.shut = TRUE
    <2>. DEFINE mid == [old EXCEPT !.noted = noted]
                state == ToRelease(mid)
    <2>1. /\ mid \in Job /\ mid.profile = old.profile /\ mid.provider = old.provider
          /\ mid.kind = old.kind /\ mid.signalled = old.signalled
          /\ mid.noted = noted /\ mid.looks = old.looks
      BY DEF Job
    <2>2. job' = [job EXCEPT ![j] = state] /\ UNCHANGED calls
      BY <1>1 DEF CloseWith, Become
    <2>. HIDE DEF mid
    <2>3. /\ state \in Job /\ state.step = "RELEASING" /\ state.profile = old.profile
          /\ state.provider = old.provider /\ state.kind = old.kind
          /\ state.signalled = old.signalled /\ state.looks = old.looks
          /\ noted = TRUE => state.noted = TRUE \/ Conceals(mid)
      BY <2>1, ToReleaseType
    <2>. HIDE DEF state
    <2>4. m = TRUE => state.noted = TRUE \/ Conceals(state)
      BY <2>1, <2>3 DEF Conceals
    <2>5. Fits(state, browser[j], calls[j], m) /\ Goes(old, state)
      BY <1>0, <1>1, <2>3, <2>4, Same DEF Fits, Goes, Running, Strays
    <2>6. Sets(j, state, browser[j], calls[j], m)
      BY <2>2, Same DEF Sets
    <2>7. state.step # "DONE" /\ Goes(job[j], state)
      BY <2>3, <2>5
    <2>8. browser[j] \in Browsers /\ calls[j] \in SUBSET Calls /\ state \in Job
      BY <2>3, Same
    <2>. QED BY <2>5, <2>6, <2>7, <2>8, Moves
  <1>2. CASE ~(old.provider = "CLOAK" /\ old.shut = TRUE)
    <2>. DEFINE state == [old EXCEPT !.step = "CLOSING", !.noted = noted, !.shut = TRUE]
    <2>1. /\ state \in Job /\ state.step = "CLOSING" /\ state.profile = old.profile
          /\ state.kind = old.kind /\ state.signalled = old.signalled
          /\ state.looks = old.looks /\ state.noted = noted
          /\ state.late = old.late
      BY DEF Job
    <2>2. /\ job' = [job EXCEPT ![j] = state]
          /\ calls' = [calls EXCEPT ![j] = calls[j] \cup {"MAIN"}]
      <3>1. ~(job[j].provider = "CLOAK" /\ job[j].shut)
        BY <1>2 DEF Job
      <3>. QED BY <3>1, Same DEF CloseWith, Become, Inv, Types
    <2>. HIDE DEF state
    <2>3. calls[j] \cup {"MAIN"} \in SUBSET Calls
      BY Same DEF Calls
    <2>4. m = TRUE => state.noted = TRUE \/ Conceals(state)
      BY <2>1 DEF Conceals
    <2>5. Fits(state, browser[j], calls[j] \cup {"MAIN"}, m) /\ Goes(old, state)
      BY <1>0, <2>1, <2>4 DEF Fits, Goes, Running
    <2>6. Sets(j, state, browser[j], calls[j] \cup {"MAIN"}, m)
      BY <2>2, Same DEF Sets
    <2>7. state.step # "DONE" /\ Goes(job[j], state)
      BY <2>1, <2>5
    <2>8. browser[j] \in Browsers /\ state \in Job
      BY <2>1, Same
    <2>. QED BY <2>3, <2>5, <2>6, <2>7, <2>8, Moves
  <1>. QED BY <1>1, <1>2

LEMMA LookOnStep == ASSUME Inv, NEW j \in Jobs, LookOn(j) PROVE Inv'
  <1>. PICK old \in Job : old = job[j]
    BY Same
  <1>. DEFINE state == [old EXCEPT !.looks = @ - 1]
  <1>0. old.looks \in 0 .. MaxLooks /\ old.looks > 1
    BY DEF LookOn, Job
  <1>1. /\ state \in Job /\ state.step = old.step /\ state.profile = old.profile
        /\ state.shut = old.shut /\ state.signalled = old.signalled
        /\ state.kind = old.kind /\ state.late = old.late
    BY <1>0, BrowserJobsBounds DEF Job
  <1>2. job' = [job EXCEPT ![j] = state] /\ old.step = "DRIVING"
    BY DEF LookOn, Observes, Become
  <1>. HIDE DEF state
  <1>4. Fits(state, browser[j], calls[j], met[j]) /\ Goes(old, state)
    BY <1>1, <1>2, Same DEF Fits, Goes, Running
  <1>9. Sets(j, state, browser[j], calls[j], met[j]) /\ UNCHANGED leaseVars
    BY <1>2, Same DEF LookOn, Sets
  <1>. QED BY <1>1, <1>2, <1>4, <1>9, Same, Moves

LEMMA MeetWallStep == ASSUME Inv, NEW j \in Jobs, MeetWall(j) PROVE Inv'
  BY CloseWithStep DEF MeetWall, Observes

LEMMA LastLookStep == ASSUME Inv, NEW j \in Jobs, LastLook(j) PROVE Inv'
  <1>1. wall[job[j].profile] \in BOOLEAN
    BY Same DEF LastLook, Observes, Fits, Inv, Types
  <1>2. wall[job[j].profile] = TRUE => Conceals(job[j])
    BY DEF LastLook, Heeds, Conceals
  <1>. QED BY <1>1, <1>2, CloseWithStep DEF LastLook, Observes

LEMMA StopStep == ASSUME Inv, NEW j \in Jobs, Stop(j) PROVE Inv'
  <1>1. met[j] = FALSE
    BY Same DEF Stop, Fits
  <1>. QED BY <1>1, Same, CloseWithStep DEF Stop

LEMMA AbandonCloseStep == ASSUME Inv, NEW j \in Jobs, AbandonClose(j) PROVE Inv'
  <1>. PICK old \in Job : old = job[j]
    BY Same
  <1>. DEFINE mid == ToRelease(old)
              state == [mid EXCEPT !.late = TRUE]
  <1>0. /\ mid \in Job /\ mid.step = "RELEASING" /\ mid.profile = old.profile
        /\ mid.kind = old.kind /\ mid.signalled = old.signalled /\ mid.looks = old.looks
        /\ old.noted = TRUE => mid.noted = TRUE \/ Conceals(old)
    BY ToReleaseType
  <1>2. job' = [job EXCEPT ![j] = state] /\ old.step = "CLOSING"
    BY DEF AbandonClose, Become
  <1>. HIDE DEF mid
  <1>1. /\ state \in Job /\ state.step = "RELEASING" /\ state.profile = old.profile
        /\ state.kind = old.kind /\ state.signalled = old.signalled
        /\ state.looks = old.looks /\ state.noted = mid.noted /\ state.late = TRUE
    BY <1>0 DEF Job
  <1>. HIDE DEF state
  <1>3. /\ browser[j] \in {"UP", "LEFT", "GONE"} /\ old.profile \in Profiles
        /\ met[j] = TRUE => old.noted = TRUE \/ Conceals(old)
    BY <1>2, Same DEF Fits
  <1>4. met[j] = TRUE => state.noted = TRUE \/ Conceals(state)
    BY <1>0, <1>1, <1>3 DEF Conceals
  <1>5. Fits(state, browser[j], calls[j], met[j]) /\ Goes(old, state)
    BY <1>1, <1>2, <1>3, <1>4 DEF Fits, Goes, Running, Strays
  <1>9. Sets(j, state, browser[j], calls[j], met[j]) /\ UNCHANGED leaseVars
    BY <1>2, Same DEF AbandonClose, Sets
  <1>. QED BY <1>1, <1>2, <1>4, <1>5, <1>9, Same, Moves

LEMMA LaunchedStep == ASSUME Inv, NEW j \in Jobs, Launched(j) PROVE Inv'
  <1>. PICK old \in Job : old = job[j]
    BY Same
  <1>. PICK n \in Looks(old.kind) :
          Become(j, [old EXCEPT !.step = "DRIVING", !.looks = n])
    BY DEF Launched
  <1>. DEFINE state == [old EXCEPT !.step = "DRIVING", !.looks = n]
  <1>1. /\ state \in Job /\ state.step = "DRIVING" /\ state.profile = old.profile
        /\ state.shut = old.shut /\ state.late = old.late
    BY LooksType DEF Job
  <1>2. job' = [job EXCEPT ![j] = state] /\ old.step = "LAUNCHING"
    BY DEF Launched, Wanted, Become
  <1>. HIDE DEF state
  <1>3. /\ browser[j] = "STARTING" /\ calls[j] = {} /\ met[j] = FALSE
        /\ old.profile \in Profiles /\ old.shut = FALSE /\ old.late # TRUE
    BY <1>2, Same DEF Fits
  <1>4. Fits(state, "UP", calls[j], met[j]) /\ Goes(old, state)
    BY <1>1, <1>2, <1>3 DEF Fits, Goes, Running
  <1>5. Sets(j, state, "UP", calls[j], met[j]) /\ UNCHANGED leaseVars
    BY <1>2, Same DEF Launched, Sets
  <1>6. "UP" \in Browsers
    BY DEF Browsers
  <1>. QED BY <1>1, <1>4, <1>5, <1>6, Same, Moves

LEMMA LaunchedTooLateStep == ASSUME Inv, NEW j \in Jobs, LaunchedTooLate(j) PROVE Inv'
  <1>. PICK old \in Job : old = job[j]
    BY Same
  <1>. DEFINE state == [old EXCEPT !.shut = TRUE]
  <1>1. /\ state \in Job /\ state.step = old.step /\ state.profile = old.profile
        /\ state.late = old.late /\ state.kind = old.kind /\ state.looks = old.looks
        /\ state.signalled = old.signalled /\ state.noted = old.noted
    BY DEF Job
  <1>2. job' = [job EXCEPT ![j] = state] /\ old.late = TRUE
    BY DEF LaunchedTooLate, Become, Job
  <1>. HIDE DEF state
  <1>3. /\ old.step \in {"RELEASING", "DONE"} /\ old.profile \in Profiles
        /\ old.step = "RELEASING" /\ met[j] = TRUE => old.noted = TRUE \/ Conceals(old)
    BY <1>2, Same DEF Fits
  <1>4. Conceals(state) = Conceals(old)
    BY <1>1 DEF Conceals
  <1>5. Fits(state, "UP", {"LATE"}, met[j]) /\ Goes(old, state)
    BY <1>1, <1>2, <1>3, <1>4 DEF Fits, Goes, Running, Strays
  <1>6. Sets(j, state, "UP", {"LATE"}, met[j]) /\ UNCHANGED leaseVars
    BY <1>2, Same DEF LaunchedTooLate, Sets
  <1>7. "UP" \in Browsers /\ {"LATE"} \in SUBSET Calls
    BY DEF Browsers, Calls
  <1>. QED BY <1>1, <1>5, <1>6, <1>7, Same, Moves

LEMMA LaunchFailsStep == ASSUME Inv, NEW j \in Jobs, LaunchFails(j) PROVE Inv'
  <1>. PICK old \in Job : old = job[j]
    BY Same
  <1>. PICK b \in {"GONE", "LEFT"} : browser' = [browser EXCEPT ![j] = b]
    BY DEF LaunchFails
  <1>0. b \in Browsers /\ UNCHANGED leaseVars /\ browser[j] = "STARTING"
    BY DEF Browsers, LaunchFails
  <1>1. CASE old.step = "LAUNCHING"
    <2>. DEFINE state == [old EXCEPT !.step = "RELEASING"]
    <2>1. /\ state \in Job /\ state.step = "RELEASING" /\ state.profile = old.profile
          /\ state.late = old.late
      BY DEF Job
    <2>2. job' = [job EXCEPT ![j] = state]
      BY <1>1 DEF LaunchFails, Wanted, Become
    <2>. HIDE DEF state
    <2>3. calls[j] = {} /\ met[j] = FALSE /\ old.profile \in Profiles /\ old.late # TRUE
      BY <1>1, Same DEF Fits
    <2>4. Fits(state, b, calls[j], met[j]) /\ Goes(old, state)
      BY <1>1, <2>1, <2>3 DEF Fits, Goes, Running, Strays
    <2>5. Sets(j, state, b, calls[j], met[j])
      BY <2>2, Same DEF LaunchFails, Sets
    <2>6. state \in Job /\ Goes(job[j], state) /\ met[j] \in BOOLEAN
      BY <2>1, <2>4, Same
    <2>7. calls[j] \in SUBSET Calls
      BY Same
    <2>. QED BY <1>0, <2>4, <2>5, <2>6, <2>7, Moves
  <1>2. CASE old.step # "LAUNCHING"
    <2>1. job' = [job EXCEPT ![j] = old] /\ old.late = TRUE
      BY <1>2 DEF LaunchFails, Wanted, Become, Job
    <2>2. old.step \in {"RELEASING", "DONE"}
      BY <2>1, Same DEF Fits
    <2>3. Fits(old, b, calls[j], met[j]) /\ Goes(old, old)
      BY <2>1, <2>2, Same DEF Fits, Goes, Running, Strays
    <2>4. Sets(j, old, b, calls[j], met[j])
      BY <2>1, Same DEF LaunchFails, Sets
    <2>5. Goes(job[j], old) /\ met[j] \in BOOLEAN /\ calls[j] \in SUBSET Calls
      BY <2>3, Same
    <2>. QED BY <1>0, <2>3, <2>4, <2>5, Moves
  <1>. QED BY <1>1, <1>2

\* An answer to a close, good or bad.
LEMMA AnsweredStep ==
    ASSUME Inv, NEW j \in Jobs, NEW c \in calls[j], Answered(j, c),
           NEW b, b = "GONE" \/ b \in Remains(j), browser' = [browser EXCEPT ![j] = b],
           UNCHANGED <<wall, met>>, UNCHANGED leaseVars
    PROVE  Inv'
  <1>. PICK old \in Job : old = job[j]
    BY Same
  <1>0. /\ browser[j] \in {"UP", "LEFT", "GONE"} /\ calls[j] # {}
        /\ Fits(old, browser[j], calls[j], met[j])
    BY Same DEF Fits
  <1>1. /\ b \in {"LEFT", "GONE"} /\ b \in Browsers
        /\ calls[j] \ {c} \in SUBSET Calls
    BY <1>0, Same DEF Remains, Browsers
  <1>2. old.step \notin {"IDLE", "LEASED", "LAUNCHING"} /\ old.profile \in Profiles
    BY <1>0 DEF Fits, Job
  <1>3. CASE c = "MAIN" /\ old.step = "CLOSING"
    <2>. DEFINE state == ToRelease(old)
    <2>1. job' = [job EXCEPT ![j] = state] /\ calls' = [calls EXCEPT ![j] = calls[j] \ {c}]
      BY <1>3, Same DEF Answered, Become
    <2>2. /\ state \in Job /\ state.step = "RELEASING" /\ state.profile = old.profile
          /\ state.late = old.late /\ state.kind = old.kind /\ state.looks = old.looks
          /\ state.signalled = old.signalled
          /\ old.noted = TRUE => state.noted = TRUE \/ Conceals(old)
      BY ToReleaseType
    <2>. HIDE DEF state
    <2>3. Conceals(state) = Conceals(old)
      BY <2>2 DEF Conceals
    <2>4. Fits(state, b, calls[j] \ {c}, met[j]) /\ Goes(old, state)
      BY <1>0, <1>1, <1>2, <1>3, <2>2, <2>3 DEF Fits, Goes, Running, Strays
    <2>5. Sets(j, state, b, calls[j] \ {c}, met[j])
      BY <2>1, Same DEF Sets
    <2>6. state \in Job /\ Goes(job[j], state) /\ met[j] \in BOOLEAN
      BY <2>2, <2>4, Same
    <2>. QED BY <1>1, <2>4, <2>5, <2>6, Moves
  <1>4. CASE ~(c = "MAIN" /\ old.step = "CLOSING")
    <2>1. job' = [job EXCEPT ![j] = old] /\ calls' = [calls EXCEPT ![j] = calls[j] \ {c}]
      BY <1>4, Same DEF Answered, Become
    <2>2. Fits(old, b, calls[j] \ {c}, met[j])
      BY <1>0, <1>1, <1>2 DEF Fits, Strays
    <2>3. Goes(old, old)
      BY DEF Goes
    <2>4. Sets(j, old, b, calls[j] \ {c}, met[j])
      BY <2>1, Same DEF Sets
    <2>5. Goes(job[j], old) /\ met[j] \in BOOLEAN
      BY <2>3, Same
    <2>. QED BY <1>1, <2>2, <2>4, <2>5, Moves
  <1>. QED BY <1>3, <1>4

LEMMA CloseSteps ==
    ASSUME Inv, NEW j \in Jobs, NEW c \in Calls, Closed(j, c) \/ CloseFails(j, c)
    PROVE  Inv'
  <1>1. CASE Closed(j, c)
    BY <1>1, AnsweredStep DEF Closed
  <1>2. CASE CloseFails(j, c)
    <2>1. PICK b \in Remains(j) : browser' = [browser EXCEPT ![j] = b]
      BY <1>2 DEF CloseFails
    <2>. QED BY <1>2, <2>1, AnsweredStep DEF CloseFails
  <1>. QED BY <1>1, <1>2

LEMMA DieStep == ASSUME Inv, NEW j \in Jobs, job[j].step \in Running, Die(j) PROVE Inv'
  <1>. PICK old \in Job : old = job[j]
    BY Same
  <1>. PICK idle \in Job : idle = IdleJob /\ idle.late = FALSE /\ idle.shut = FALSE
    BY IdleType DEF IdleJob
  <1>. DEFINE state == [idle EXCEPT !.step = "DEAD", !.profile = old.profile]
  <1>1. /\ state \in Job /\ state.step = "DEAD" /\ state.profile = old.profile
        /\ state.late = FALSE
    BY DEF Job
  <1>2. job' = [job EXCEPT ![j] = state]
    BY DEF Die, Become
  <1>. HIDE DEF state
  <1>3. old.profile \in Profiles
    BY Same DEF Fits, Running
  <1>4. PICK b \in {"NONE", "LEFT", "GONE"} : browser' = [browser EXCEPT ![j] = b]
    <2>1. CASE browser[j] = "NONE"
      BY <2>1, Same DEF Die
    <2>2. CASE browser[j] # "NONE"
      BY <2>2 DEF Die
    <2>. QED BY <2>1, <2>2
  <1>5. Fits(state, b, {}, met[j]) /\ Goes(old, state)
    BY <1>1, <1>3 DEF Fits, Goes, Running, Strays
  <1>6. Sets(j, state, b, {}, met[j]) /\ UNCHANGED leaseVars
    BY <1>2, <1>4, Same DEF Die, Sets
  <1>7. b \in Browsers /\ {} \in SUBSET Calls
    BY DEF Browsers
  <1>. QED BY <1>1, <1>5, <1>6, <1>7, Same, Moves

LEMMA InterruptStep == ASSUME Inv, NEW j \in Jobs, Interrupt(j) PROVE Inv'
  <1>. PICK old \in Job : old = job[j]
    BY Same
  <1>0. /\ old.step \in Running /\ Fits(old, browser[j], calls[j], met[j])
        /\ UNCHANGED leaseVars
    BY Same DEF Interrupt
  <1>1. CASE old.step = "DRIVING" /\ old.kind \in Listening
    <2>. DEFINE state == [old EXCEPT !.signalled = TRUE, !.shut = TRUE]
    <2>1. /\ state \in Job /\ state.step = old.step /\ state.profile = old.profile
          /\ state.late = old.late /\ state.kind = old.kind /\ state.signalled = TRUE
      BY DEF Job
    <2>2. /\ job' = [job EXCEPT ![j] = state]
          /\ calls' = [calls EXCEPT ![j] = calls[j] \cup {"SIGNAL"}]
      BY <1>1, Same DEF Interrupt, Become, Inv, Types
    <2>. HIDE DEF state
    <2>3. Fits(state, browser[j], calls[j] \cup {"SIGNAL"}, met[j]) /\ Goes(old, state)
      BY <1>0, <1>1, <2>1 DEF Fits, Goes
    <2>4. Sets(j, state, browser[j], calls[j] \cup {"SIGNAL"}, met[j])
      BY <2>2, Same DEF Sets, Interrupt
    <2>5. calls[j] \cup {"SIGNAL"} \in SUBSET Calls
      BY Same DEF Calls
    <2>. QED BY <2>1, <2>3, <2>4, <2>5, <1>0, Same, Moves
  <1>2. CASE ~(old.step = "DRIVING" /\ old.kind \in Listening)
    <2>. DEFINE state == [old EXCEPT !.signalled = TRUE]
    <2>1. /\ state \in Job /\ state.step = old.step /\ state.profile = old.profile
          /\ state.late = old.late /\ state.kind = old.kind /\ state.signalled = TRUE
          /\ state.shut = old.shut /\ state.noted = old.noted /\ state.looks = old.looks
          /\ state.provider = old.provider
      BY DEF Job
    <2>2. job' = [job EXCEPT ![j] = state] /\ UNCHANGED calls
      BY <1>2 DEF Interrupt, Become
    <2>. HIDE DEF state
    <2>3. Conceals(old) => Conceals(state)
      BY <2>1 DEF Conceals
    <2>4. Strays(old, browser[j]) => Strays(state, browser[j])
      BY <2>1 DEF Strays
    <2>5. Fits(state, browser[j], calls[j], met[j]) /\ Goes(old, state)
      BY <1>0, <1>2, <2>1, <2>3, <2>4 DEF Fits, Goes, Running
    <2>6. Sets(j, state, browser[j], calls[j], met[j])
      BY <2>2, Same DEF Sets, Interrupt
    <2>. QED BY <2>1, <2>5, <2>6, <1>0, Same, Moves
  <1>. QED BY <1>1, <1>2

LEMMA WallChangesStep == ASSUME Inv, NEW p \in Profiles, WallChanges(p) PROVE Inv'
  BY DEF WallChanges, leaseVars, Inv, Types, Exclusive

LEMMA CheckoutStep ==
    ASSUME Inv, NEW j \in Jobs, NEW kind \in Kinds, NEW provider \in Providers,
           NEW p \in Profiles, Checkout(j, kind, provider, p)
    PROVE  Inv' /\ job'[j].profile = p /\ \A k \in Jobs \ {j} : job'[k] = job[k]
  <1>. PICK idle \in Job : /\ idle = IdleJob /\ idle.late = FALSE /\ idle.shut = FALSE
    BY IdleType DEF IdleJob
  <1>. DEFINE state == [idle EXCEPT !.step = "LEASED", !.kind = kind,
                                    !.provider = provider, !.profile = p]
  <1>1. /\ state \in Job /\ state.step = "LEASED" /\ state.profile = p
        /\ state.late = FALSE /\ state.shut = FALSE
    BY DEF Job
  <1>2. job' = [job EXCEPT ![j] = state] /\ job[j].step = "IDLE"
    BY DEF Checkout, Become
  <1>. HIDE DEF state
  <1>3. browser[j] = "NONE" /\ calls[j] = {} /\ met[j] = FALSE
    BY <1>2, Same DEF Fits
  <1>4. Fits(state, browser[j], calls[j], met[j])
    BY <1>1, <1>3 DEF Fits
  <1>5. Sets(j, state, browser[j], calls[j], met[j])
    BY <1>2, Same DEF Checkout, Sets
  <1>6. Quiet(j) /\ job'[j] = state /\ met'[j] = met[j]
    BY <1>1, <1>4, <1>5, Same, Changed
  <1>7. /\ \A k \in Jobs : <<p, k>> \notin held
        /\ held' = held \cup {<<p, j>>} /\ closed' = closed /\ healthy' = healthy
    BY DEF Checkout, Lock!Acquire
  <1>8. Types'
    BY <1>6, <1>7 DEF Quiet, Inv, Types
  <1>9. Exclusive'
    <2>. SUFFICES ASSUME NEW q \in Profiles, NEW k \in Jobs, NEW l \in Jobs,
                         <<q, k>> \in held', <<q, l>> \in held'
                  PROVE  k = l
      BY DEF Exclusive
    <2>. QED BY <1>7 DEF Inv, Exclusive
  <1>10. ASSUME NEW k \in Jobs
         PROVE  /\ Fits(job'[k], browser'[k], calls'[k], met'[k])
                /\ Covered(k, job'[k], met'[k], held', healthy')
    <2>1. CASE k = j
      BY <1>1, <1>6, <1>7, <2>1 DEF Quiet, Covered
    <2>2. CASE k # j
      BY <1>6, <1>7, <2>2 DEF Quiet, Inv, Covered
    <2>. QED BY <2>1, <2>2
  <1>. QED BY <1>1, <1>6, <1>8, <1>9, <1>10 DEF Inv, Quiet

\* A release that is served closes the lease and applies the observation; one
\* that is lost leaves the lease.
LEMMA ReleaseStep == ASSUME Inv, NEW j \in Jobs, Release(j) PROVE Inv'
  <1>. PICK old \in Job : old = job[j]
    BY Same
  <1>. DEFINE state == [old EXCEPT !.step = "DONE", !.noted = FALSE]
              p == old.profile
  <1>1. /\ state \in Job /\ state.step = "DONE" /\ state.profile = p
        /\ state.late = old.late /\ state.kind = old.kind /\ state.looks = old.looks
        /\ state.provider = old.provider /\ state.signalled = old.signalled
    BY DEF Job
  <1>2. job' = [job EXCEPT ![j] = state] /\ old.step = "RELEASING"
    BY DEF Release, Become
  <1>. HIDE DEF state
  <1>3. /\ p \in Profiles /\ Fits(old, browser[j], calls[j], met[j])
        /\ <<p, j>> \in held
        /\ met[j] = TRUE => old.noted = TRUE \/ Conceals(old)
    BY <1>2, Same DEF Fits, Covered, Running
  <1>4. Conceals(state) = Conceals(old) /\ Strays(state, browser[j]) = Strays(old, browser[j])
    BY <1>1 DEF Conceals, Strays
  <1>5. Fits(state, browser[j], calls[j], met[j])
    BY <1>1, <1>2, <1>3, <1>4 DEF Fits
  <1>6. Sets(j, state, browser[j], calls[j], met[j])
    BY <1>2, Same DEF Release, Sets
  <1>7. Quiet(j) /\ job'[j] = state /\ met'[j] = met[j]
    BY <1>1, <1>5, <1>6, Same, Changed
  <1>8. CASE UNCHANGED leaseVars
    <2>1. Types' /\ Exclusive'
      BY <1>7, <1>8 DEF Inv, Types, Exclusive, Quiet, leaseVars
    <2>2. ASSUME NEW k \in Jobs
          PROVE  /\ Fits(job'[k], browser'[k], calls'[k], met'[k])
                 /\ Covered(k, job'[k], met'[k], held', healthy')
      <3>1. CASE k = j
        BY <1>1, <1>3, <1>7, <1>8, <3>1 DEF Quiet, Covered, Running, leaseVars
      <3>2. CASE k # j
        BY <1>7, <1>8, <3>2 DEF Quiet, Inv, leaseVars
      <3>. QED BY <3>1, <3>2
    <2>. QED BY <2>1, <2>2 DEF Inv
  <1>9. CASE /\ Lock!Release(job[j].profile, j)
             /\ healthy' = [healthy EXCEPT ![job[j].profile] = @ /\ ~job[j].noted]
    <2>1. held' = held \ {<<p, j>>} /\ closed' = closed \cup {j}
      BY <1>9 DEF Lock!Release
    <2>2. /\ healthy' \in [Profiles -> BOOLEAN]
          /\ \A q \in Profiles : healthy[q] = FALSE => healthy'[q] = FALSE
          /\ old.noted = TRUE => healthy'[p] = FALSE
      <3>. DEFINE h == healthy[p] /\ ~old.noted
      <3>1. h \in BOOLEAN /\ healthy \in [Profiles -> BOOLEAN]
        BY <1>3 DEF Inv, Types
      <3>2. old.noted = TRUE \/ healthy[p] = FALSE => h = FALSE
        OBVIOUS
      <3>3. healthy' = [healthy EXCEPT ![p] = h]
        BY <1>9
      <3>. HIDE DEF h
      <3>. QED BY <1>3, <3>1, <3>2, <3>3
    <2>3. Types' /\ Exclusive'
      BY <1>7, <2>1, <2>2 DEF Inv, Types, Exclusive, Quiet
    <2>4. ASSUME NEW k \in Jobs
          PROVE  /\ Fits(job'[k], browser'[k], calls'[k], met'[k])
                 /\ Covered(k, job'[k], met'[k], held', healthy')
      <3>1. CASE k = j
        <4>1. state.step \notin Running
          BY <1>1 DEF Running
        <4>2. met[j] = TRUE /\ ~Conceals(state) => healthy'[state.profile] = FALSE
          BY <1>1, <1>3, <1>4, <2>2
        <4>3. Covered(j, state, met[j], held', healthy')
          BY <4>1, <4>2 DEF Covered
        <4>. QED BY <1>7, <3>1, <4>3 DEF Quiet
      <3>2. CASE k # j
        <4>1. /\ job'[k] = job[k] /\ met'[k] = met[k]
              /\ Fits(job'[k], browser'[k], calls'[k], met'[k])
              /\ Covered(k, job[k], met[k], held, healthy)
          BY <1>7, <3>2 DEF Quiet, Inv
        <4>2. <<job[k].profile, k>> \in held => <<job[k].profile, k>> \in held'
          BY <2>1, <3>2
        <4>3. job[k].step = "DONE" => job[k].profile \in Profiles
          BY DEF Inv, Fits
        <4>. QED BY <2>2, <4>1, <4>2, <4>3 DEF Covered
      <3>. QED BY <3>1, <3>2
    <2>. QED BY <2>3, <2>4 DEF Inv
  <1>. QED BY <1>8, <1>9 DEF Release

-----------------------------------------------------------------------------
(* The theorems *)

LEMMA InitInv == Init => Inv
  <1>. SUFFICES ASSUME Init PROVE Inv
    OBVIOUS
  <1>1. Types /\ Exclusive
    BY IdleType DEF Init, Lock!Init, Types, Exclusive, Browsers
  <1>2. ASSUME NEW j \in Jobs
        PROVE  /\ Fits(job[j], browser[j], calls[j], met[j])
               /\ Covered(j, job[j], met[j], held, healthy)
    <2>1. job[j].step = "IDLE" /\ job[j].shut = FALSE /\ job[j].late = FALSE
      BY DEF Init, IdleJob
    <2>2. browser[j] = "NONE" /\ calls[j] = {} /\ met[j] = FALSE
      BY DEF Init
    <2>. QED BY <2>1, <2>2 DEF Fits, Covered, Running
  <1>. QED BY <1>1, <1>2 DEF Inv

LEMMA NextInv == Inv /\ [Next]_vars => Inv'
  <1>. SUFFICES ASSUME Inv, [Next]_vars PROVE Inv'
    OBVIOUS
  <1>1. ASSUME NEW j \in Jobs, JobStep(j) PROVE Inv'
    BY <1>1, UnpreparedStep, LaunchStep, AbandonLaunchStep, LookOnStep, MeetWallStep,
       LastLookStep, StopStep, AbandonCloseStep, ReleaseStep DEF JobStep
  <1>2. ASSUME NEW j \in Jobs, Provider(j) PROVE Inv'
    BY <1>2, LaunchedStep, LaunchedTooLateStep, LaunchFailsStep, CloseSteps, DieStep
       DEF Provider, SignalCloseFails
  <1>3. ASSUME Outside PROVE Inv'
    <2>1. ASSUME NEW j \in Jobs, Interrupt(j) \/ Crash(j) PROVE Inv'
      BY <2>1, InterruptStep, DieStep DEF Crash
    <2>. QED BY <1>3, <2>1, CheckoutStep, WallChangesStep DEF Outside
  <1>4. CASE UNCHANGED vars
    BY <1>4 DEF vars, Inv, Types, Exclusive, leaseVars
  <1>. QED BY <1>1, <1>2, <1>3, <1>4 DEF Next

\* Nothing but a checkout starts a program.
LEMMA Woken ==
    ASSUME Inv, [Next]_vars, NEW j \in Jobs,
           job[j].step = "IDLE", job'[j].step = "LEASED"
    PROVE  \E kind \in Kinds, provider \in Providers, p \in Profiles :
              Checkout(j, kind, provider, p)
  <1>0. browser[j] = "NONE" /\ calls[j] = {} /\ job \in [Jobs -> Job] /\ job'[j] # job[j]
    BY Same DEF Fits, Inv, Types
  <1>. DEFINE Other(i) == i # j /\ \E state : Become(i, state)
  <1>1. ASSUME NEW i \in Jobs, Other(i) PROVE FALSE
    BY <1>0, <1>1 DEF Become
  <1>2. ASSUME NEW i \in Jobs, JobStep(i) PROVE Other(i)
    <2>1. job[i].step # "IDLE"
      BY <1>2 DEF JobStep, Unprepared, Launch, AbandonLaunch, LookOn, MeetWall, LastLook,
         Stop, AbandonClose, Release, Observes
    <2>2. \E state : Become(i, state)
      BY <1>2 DEF JobStep, Unprepared, Launch, AbandonLaunch, LookOn, MeetWall, LastLook,
         Stop, AbandonClose, Release, CloseWith
    <2>. QED BY <2>1, <2>2
  <1>3. ASSUME NEW i \in Jobs, Provider(i) PROVE Other(i)
    <2>1. browser[i] = "STARTING" \/ calls[i] # {}
      BY <1>3 DEF Provider, Launched, LaunchedTooLate, LaunchFails, Closed, CloseFails,
         SignalCloseFails
    <2>2. \E state : Become(i, state)
      BY <1>3 DEF Provider, Launched, LaunchedTooLate, LaunchFails, Closed, CloseFails,
         SignalCloseFails, Answered, Die
    <2>. QED BY <1>0, <2>1, <2>2
  <1>4. ASSUME NEW i \in Jobs, Interrupt(i) \/ Crash(i) PROVE Other(i)
    BY <1>4 DEF Interrupt, Crash, Die, Running
  <1>5. ASSUME NEW i \in Jobs \ {j}, NEW kind, NEW provider, NEW p, Checkout(i, kind, provider, p)
        PROVE  Other(i)
    BY <1>5 DEF Checkout
  <1>. HIDE DEF Other
  <1>6. CASE Outside
    BY <1>0, <1>1, <1>4, <1>5, <1>6 DEF Outside, WallChanges
  <1>7. ~UNCHANGED vars
    BY <1>0 DEF vars
  <1>. QED BY <1>1, <1>2, <1>3, <1>6, <1>7 DEF Next

LEMMA SpecInv == Spec => []Inv
  BY InitInv, NextInv, PTL DEF Spec

\* Types of the five programs that open browsers, the browsers and the close calls.
THEOREM Typing == Spec => []TypeOK
  <1>1. Inv => TypeOK
    BY DEF Inv, Types, TypeOK, Browsers, Fits
  <1>. QED BY <1>1, SpecInv, PTL

\* However many programs share the accounts, and whatever signals, deadlines and
\* failures cut them short: Facebook sees one browser per account, but for the
\* browsers that the code may lose track of (Loose).
THEOREM AccountsHaveOneBrowser == Spec => []OneBrowserPerAccount
  <1>1. ASSUME Inv, NEW j \in Jobs, Alive(j), ~Loose(j)
        PROVE  <<job[j].profile, j>> \in held /\ job[j].profile \in Profiles
    <2>1. ~Strays(job[j], browser[j])
      BY <1>1 DEF Strays, Loose
    <2>2. job[j].step \in Running \ {"LEASED", "RELEASING"}
      BY <1>1, <2>1, Same DEF Alive, Fits, Job, Running
    <2>. QED BY <1>1, <2>2, Same DEF Covered, Fits, Running
  <1>2. Inv => OneBrowserPerAccount
    BY <1>1 DEF OneBrowserPerAccount, Inv, Exclusive
  <1>. QED BY <1>2, SpecInv, PTL

\* No program starts with an account that stopped another one, once that one has
\* told it.
THEOREM WallsAreTold == Spec => WallsStopWork
  <1>. DEFINE Starts == \A j, k \in Jobs :
                          /\ job[j].step = "IDLE" /\ job'[j].step = "LEASED"
                          /\ job[k].step = "DONE" /\ met[k] /\ ~Untold(k)
                          => job'[j].profile # job[k].profile
  <1>1. ASSUME Inv, [Next]_vars, NEW j \in Jobs, NEW k \in Jobs,
               job[j].step = "IDLE", job'[j].step = "LEASED",
               job[k].step = "DONE", met[k], ~Untold(k)
        PROVE  job'[j].profile # job[k].profile
    <2>1. PICK p \in Profiles, kind \in Kinds, provider \in Providers :
             Checkout(j, kind, provider, p)
      BY <1>1, Woken
    <2>2. job'[j].profile = p /\ healthy[p] = TRUE /\ \A l \in Jobs : <<p, l>> \notin held
      <3>1. job'[j].profile = p
        BY <1>1, <2>1, CheckoutStep
      <3>2. healthy[p] \in BOOLEAN
        BY <1>1 DEF Inv, Types
      <3>3. healthy[p] /\ \A l \in Jobs : <<p, l>> \notin held
        BY <2>1 DEF Checkout, Lock!Acquire
      <3>. QED BY <3>1, <3>2, <3>3
    <2>3. ~Conceals(job[k])
      BY <1>1 DEF Conceals, Untold
    <2>4. \/ <<job[k].profile, k>> \in held
          \/ healthy[job[k].profile] = FALSE
      BY <1>1, <2>3, Same DEF Covered
    <2>. QED BY <2>2, <2>4
  <1>2. Inv /\ [Next]_vars => [Starts]_vars
    BY <1>1
  <1>. QED BY <1>2, SpecInv, PTL DEF Spec, WallsStopWork
=============================================================================
