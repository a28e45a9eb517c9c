---------------------------- MODULE BrowserJobs -----------------------------
(***************************************************************************)
(* The five programs that open a browser with a leased profile: the        *)
(* capture of a group or a home feed, the source access check, the         *)
(* ambient exercise and the assisted access session of an operator.  Each  *)
(* leases a profile (ProfileLock), launches a browser through one of two   *)
(* providers, drives a page, closes the browser and returns the lease with *)
(* what it saw of Facebook's login and checkpoint walls.                   *)
(*                                                                         *)
(* Launches and closes are calls that the provider answers when it likes.  *)
(* A signal, a deadline or an error makes the programs stop waiting for    *)
(* them, each in a way of its own; that is what this module is about.      *)
(***************************************************************************)
EXTENDS Integers

CONSTANTS
    Profiles,
    Jobs,                \* executions of any of the five programs
    Null,
    MaxLooks             \* bound on the observations of one page

ASSUME BrowserJobsBounds == MaxLooks \in Nat /\ MaxLooks >= 3
ASSUME BrowserJobsNull == Null \notin Profiles

VARIABLES
    job,
    browser,             \* the browser each job launched
    calls,               \* close calls under way: of the job itself (MAIN), of its
                         \* abort listener (SIGNAL), of a launch given up (LATE)
    wall,                \* Facebook shows the account a login or checkpoint wall
    healthy,             \* authenticationHealth = HEALTHY
    held, closed,        \* leases, named by the job they were granted to
    met                  \* history: the last observation of a job was a wall

vars == <<job, browser, calls, wall, healthy, held, closed, met>>
leaseVars == <<held, closed, healthy>>

Lock == INSTANCE ProfileLock WITH Leases <- Jobs

Captures == {"COLLECTION", "HOME_FEED"}
Kinds == Captures \cup {"CHECK", "EXERCISE", "ASSISTED"}
Providers == {"PLAYWRIGHT", "CLOAK"}
Calls == {"MAIN", "SIGNAL", "LATE"}

\* The programs whose abort listener closes the browser
Listening == Captures \cup {"CHECK"}

\* How often a program looks at the page unless something stops it: after the
\* navigation, after each dwell or scroll, and at the end
Looks(kind) ==
    {n \in 0 .. MaxLooks : /\ kind \in Captures => n >= 2
                           /\ kind = "EXERCISE" => n >= 3
                           /\ kind = "CHECK" => n = 1
                           /\ kind = "ASSISTED" => n = 0}

\* shut: close was called; late: it stopped waiting for its launch or close;
\* noted: the observation that goes with the release
Job == [step : {"IDLE", "LEASED", "LAUNCHING", "DRIVING", "CLOSING", "RELEASING",
                "DONE", "DEAD"},
        kind : Kinds \cup {Null}, provider : Providers \cup {Null},
        profile : Profiles \cup {Null}, looks : 0 .. MaxLooks,
        signalled : BOOLEAN, shut : BOOLEAN, late : BOOLEAN, noted : BOOLEAN]

IdleJob == [step |-> "IDLE", kind |-> Null, provider |-> Null, profile |-> Null,
            looks |-> 0, signalled |-> FALSE, shut |-> FALSE, late |-> FALSE,
            noted |-> FALSE]

Running == {"LEASED", "LAUNCHING", "DRIVING", "CLOSING", "RELEASING"}

-----------------------------------------------------------------------------
(* The job: lease, launch, drive *)

Become(j, state) == job' = [job EXCEPT ![j] = state]

\* A checkout: whatever its purpose, it needs a healthy account
Checkout(j, kind, provider, p) ==
    /\ job[j].step = "IDLE"
    /\ healthy[p]
    /\ Lock!Acquire(p, j)
    /\ Become(j, [IdleJob EXCEPT !.step = "LEASED", !.kind = kind,
                                 !.provider = provider, !.profile = p])
    /\ UNCHANGED <<browser, calls, wall, healthy, met>>

\* No configuration, another profile's, too little time left, or aborted
Unprepared(j) ==
    /\ job[j].step = "LEASED"
    /\ Become(j, [job[j] EXCEPT !.step = "RELEASING"])
    /\ UNCHANGED <<browser, calls, wall, met>> /\ UNCHANGED leaseVars

\* Only the access check looks at the signal again before it launches
Launch(j) ==
    /\ job[j].step = "LEASED"
    /\ ~(job[j].kind = "CHECK" /\ job[j].signalled)
    /\ Become(j, [job[j] EXCEPT !.step = "LAUNCHING"])
    /\ browser' = [browser EXCEPT ![j] = "STARTING"]
    /\ UNCHANGED <<calls, wall, met>> /\ UNCHANGED leaseVars

\* Mutant: the launch is given up on a signal only
AbandonLaunchOnSignal(j) ==
    /\ job[j].step = "LAUNCHING" /\ job[j].kind = "CHECK" /\ job[j].signalled
    /\ Become(j, [job[j] EXCEPT !.step = "RELEASING", !.late = TRUE])
    /\ UNCHANGED <<browser, calls, wall, met>> /\ UNCHANGED leaseVars

\* Mutant: the late session is closed before it exists
AbandonLaunchClosing(j) ==
    /\ job[j].step = "LAUNCHING" /\ job[j].kind = "CHECK"
    /\ Become(j, [job[j] EXCEPT !.step = "RELEASING", !.late = TRUE])
    /\ calls' = [calls EXCEPT ![j] = {"LATE"}]
    /\ UNCHANGED <<browser, wall, met>> /\ UNCHANGED leaseVars

\* runBoundedPhase: the access check does not wait for its launch beyond the
\* deadline or a signal
AbandonLaunch(j) ==
    /\ job[j].step = "LAUNCHING" /\ job[j].kind = "CHECK"
    /\ Become(j, [job[j] EXCEPT !.step = "RELEASING", !.late = TRUE])
    /\ UNCHANGED <<browser, calls, wall, met>> /\ UNCHANGED leaseVars

\* A home-feed run that was interrupted keeps what it saw to itself
ToRelease(state) ==
    [state EXCEPT !.step = "RELEASING",
                  !.noted = @ /\ ~(state.kind = "HOME_FEED" /\ state.signalled)]

\* Mutant: the lease is returned while the browser is closing
CloseWithDetached(j, noted) ==
    /\ Become(j, ToRelease([job[j] EXCEPT !.noted = noted, !.shut = TRUE]))
    /\ calls' = [calls EXCEPT ![j] = @ \cup {"MAIN"}]

\* close: a session of the Cloak provider answers a second call at once, while
\* the first one is still closing
CloseWith(j, noted) ==
    IF job[j].provider = "CLOAK" /\ job[j].shut
    THEN /\ Become(j, ToRelease([job[j] EXCEPT !.noted = noted]))
         /\ UNCHANGED calls
    ELSE /\ Become(j, [job[j] EXCEPT !.step = "CLOSING", !.noted = noted, !.shut = TRUE])
         /\ calls' = [calls EXCEPT ![j] = @ \cup {"MAIN"}]

\* observeFacebookPageState looks before it heeds a signal, so it may still see a
\* wall then; the access check does not wait for it
Observes(j) ==
    /\ job[j].step = "DRIVING" /\ job[j].looks > 0
    /\ job[j].signalled => wall[job[j].profile] /\ job[j].kind # "CHECK"

\* Mutant: a program does not heed what it saw after its last scroll
HeedsAllButLast(j) == job[j].looks > 1

\* The exercise only summarizes its last observation
Heeds(j) == ~(job[j].kind = "EXERCISE" /\ job[j].looks = 1)

LookOn(j) ==
    /\ Observes(j) /\ job[j].looks > 1
    /\ ~wall[job[j].profile]
    /\ Become(j, [job[j] EXCEPT !.looks = @ - 1])
    /\ UNCHANGED <<browser, calls, wall, met>> /\ UNCHANGED leaseVars

MeetWall(j) ==
    /\ Observes(j) /\ Heeds(j)
    /\ wall[job[j].profile]
    /\ CloseWith(j, TRUE)
    /\ met' = [met EXCEPT ![j] = TRUE]
    /\ UNCHANGED <<browser, wall>> /\ UNCHANGED leaseVars

LastLook(j) ==
    /\ Observes(j) /\ job[j].looks = 1
    /\ wall[job[j].profile] => ~Heeds(j)
    /\ CloseWith(j, FALSE)
    /\ met' = [met EXCEPT ![j] = wall[job[j].profile]]
    /\ UNCHANGED <<browser, wall>> /\ UNCHANGED leaseVars

\* The page fails, a deadline passes, the signal is noticed, or the operator of
\* an assisted session is done
Stop(j) ==
    /\ job[j].step = "DRIVING"
    /\ CloseWith(j, FALSE)
    /\ UNCHANGED <<browser, wall, met>> /\ UNCHANGED leaseVars

\* runCleanupPhase: the access check does not wait for its close either
AbandonClose(j) ==
    /\ job[j].step = "CLOSING" /\ job[j].kind = "CHECK"
    /\ Become(j, [ToRelease(job[j]) EXCEPT !.late = TRUE])
    /\ UNCHANGED <<browser, calls, wall, met>> /\ UNCHANGED leaseVars

\* The release carries the observation and applies both or none of them: it may
\* come after the lease expired, or be lost
Release(j) ==
    /\ job[j].step = "RELEASING"
    /\ Become(j, [job[j] EXCEPT !.step = "DONE", !.noted = FALSE])
    /\ \/ /\ Lock!Release(job[j].profile, j)
          /\ healthy' = [healthy EXCEPT ![job[j].profile] = @ /\ ~job[j].noted]
       \/ UNCHANGED leaseVars
    /\ UNCHANGED <<browser, calls, wall, met>>

-----------------------------------------------------------------------------
(* The browser provider *)

Wanted(j) == job[j].step = "LAUNCHING"

Launched(j) ==
    /\ browser[j] = "STARTING" /\ Wanted(j)
    /\ browser' = [browser EXCEPT ![j] = "UP"]
    /\ \E n \in Looks(job[j].kind) :
          Become(j, [job[j] EXCEPT !.step = "DRIVING", !.looks = n])
    /\ UNCHANGED <<calls, wall, met>> /\ UNCHANGED leaseVars

\* onLateResolve: the session nobody waits for any more is closed
LaunchedTooLate(j) ==
    /\ browser[j] = "STARTING" /\ job[j].late
    /\ browser' = [browser EXCEPT ![j] = "UP"]
    /\ calls' = [calls EXCEPT ![j] = {"LATE"}]
    /\ Become(j, [job[j] EXCEPT !.shut = TRUE])
    /\ UNCHANGED <<wall, met>> /\ UNCHANGED leaseVars

\* Playwright's provider does not close the browser whose context it could not
\* create
LaunchFails(j) ==
    /\ browser[j] = "STARTING" /\ (Wanted(j) \/ job[j].late)
    /\ \E remains \in {"GONE"} \cup (IF job[j].provider = "PLAYWRIGHT"
                                     THEN {"LEFT"} ELSE {}) :
          browser' = [browser EXCEPT ![j] = remains]
    /\ Become(j, IF Wanted(j) THEN [job[j] EXCEPT !.step = "RELEASING"] ELSE job[j])
    /\ UNCHANGED <<calls, wall, met>> /\ UNCHANGED leaseVars

\* The job that waits for its close goes on, whatever the answer
Answered(j, c) ==
    /\ calls' = [calls EXCEPT ![j] = @ \ {c}]
    /\ Become(j, IF c = "MAIN" /\ job[j].step = "CLOSING" THEN ToRelease(job[j])
                 ELSE job[j])

Closed(j, c) ==
    /\ c \in calls[j]
    /\ browser' = [browser EXCEPT ![j] = "GONE"]
    /\ Answered(j, c)
    /\ UNCHANGED <<wall, met>> /\ UNCHANGED leaseVars

\* A close that fails may leave the browser behind
Remains(j) == IF browser[j] = "UP" THEN {"LEFT", "GONE"} ELSE {browser[j]}

\* ... which every caller but the abort listener of a capture expects
CloseFails(j, c) ==
    /\ c \in calls[j]
    /\ ~(c = "SIGNAL" /\ job[j].kind \in Captures /\ job[j].step \in Running)
    /\ \E remains \in Remains(j) : browser' = [browser EXCEPT ![j] = remains]
    /\ Answered(j, c)
    /\ UNCHANGED <<wall, met>> /\ UNCHANGED leaseVars

Die(j) ==
    /\ Become(j, [IdleJob EXCEPT !.step = "DEAD", !.profile = job[j].profile])
    /\ calls' = [calls EXCEPT ![j] = {}]
    /\ browser[j] = "NONE" => UNCHANGED browser
    /\ browser[j] # "NONE" =>
          \E remains \in {"LEFT", "GONE"} : browser' = [browser EXCEPT ![j] = remains]
    /\ UNCHANGED <<wall, met>> /\ UNCHANGED leaseVars

\* The rejection nobody handles ends the process, lease and all
SignalCloseFails(j) ==
    /\ "SIGNAL" \in calls[j]
    /\ job[j].kind \in Captures /\ job[j].step \in Running
    /\ Die(j)

-----------------------------------------------------------------------------
(* Signals, crashes and Facebook *)

\* The abort listener closes the browser that is being driven; it is attached
\* once the launch is over, and then misses a signal that came before
Interrupt(j) ==
    /\ job[j].step \in Running /\ ~job[j].signalled
    /\ IF job[j].step = "DRIVING" /\ job[j].kind \in Listening
       THEN /\ calls' = [calls EXCEPT ![j] = @ \cup {"SIGNAL"}]
            /\ Become(j, [job[j] EXCEPT !.signalled = TRUE, !.shut = TRUE])
       ELSE /\ Become(j, [job[j] EXCEPT !.signalled = TRUE])
            /\ UNCHANGED calls
    /\ UNCHANGED <<browser, wall, met>> /\ UNCHANGED leaseVars

Crash(j) == job[j].step \in Running /\ Die(j)

\* Facebook raises and lowers its walls as it likes; it matters while a job looks
WallChanges(p) ==
    /\ \E j \in Jobs : job[j].step = "DRIVING" /\ job[j].profile = p
    /\ wall' = [wall EXCEPT ![p] = ~@]
    /\ UNCHANGED <<job, browser, calls, met>> /\ UNCHANGED leaseVars

Init ==
    /\ job = [j \in Jobs |-> IdleJob]
    /\ browser = [j \in Jobs |-> "NONE"]
    /\ calls = [j \in Jobs |-> {}]
    /\ wall = [p \in Profiles |-> FALSE]
    /\ healthy = [p \in Profiles |-> TRUE]
    /\ met = [j \in Jobs |-> FALSE]
    /\ Lock!Init

JobStep(j) ==
    \/ Unprepared(j) \/ Launch(j) \/ AbandonLaunch(j)
    \/ LookOn(j) \/ MeetWall(j) \/ LastLook(j) \/ Stop(j)
    \/ AbandonClose(j) \/ Release(j)

Provider(j) ==
    \/ Launched(j) \/ LaunchedTooLate(j) \/ LaunchFails(j)
    \/ \E c \in Calls : Closed(j, c) \/ CloseFails(j, c)
    \/ SignalCloseFails(j)

Outside ==
    \/ \E j \in Jobs : Interrupt(j) \/ Crash(j)
    \/ \E j \in Jobs, kind \in Kinds, provider \in Providers, p \in Profiles :
          Checkout(j, kind, provider, p)
    \/ \E p \in Profiles : WallChanges(p)

Next == (\E j \in Jobs : JobStep(j) \/ Provider(j)) \/ Outside

Spec == Init /\ [][Next]_vars

\* Every program goes on, by its timers if by nothing else; the provider answers
\* all of them but the access check, whose phases are bounded by its lease
FairSpec ==
    /\ Spec
    /\ \A j \in Jobs : WF_vars(JobStep(j))
    /\ \A j \in Jobs : WF_vars(job[j].kind # "CHECK" /\ Provider(j))

-----------------------------------------------------------------------------
(* Properties *)

\* Types of the jobs, their browsers and the close calls under way, each of
\* which is the affair of a job that launched a browser.
TypeOK ==
    /\ job \in [Jobs -> Job]
    /\ browser \in [Jobs -> {"NONE", "STARTING", "UP", "LEFT", "GONE"}]
    /\ calls \in [Jobs -> SUBSET Calls]
    /\ {wall, healthy} \subseteq [Profiles -> BOOLEAN]
    /\ met \in [Jobs -> BOOLEAN]
    /\ held \subseteq Profiles \X Jobs /\ closed \subseteq Jobs
    /\ \A j \in Jobs : calls[j] # {} => browser[j] \in {"UP", "LEFT", "GONE"}

Alive(j) == browser[j] \in {"STARTING", "UP", "LEFT"}

\* The browsers that outlive their lease: one whose launch or close failed or
\* was given up, and a Cloak session whose abort listener closes it
Loose(j) ==
    \/ browser[j] = "LEFT"
    \/ job[j].late
    \/ job[j].provider = "CLOAK" /\ job[j].signalled /\ job[j].kind \in Listening

\* Facebook sees one browser per account: whatever signals, deadlines and failures
\* cut a job short, the next job of the profile finds the browser of the former
\* closed, except in the cases of Loose, which the code cannot exclude.
OneBrowserPerAccount ==
    \A j, k \in Jobs :
        /\ j # k /\ Alive(j) /\ Alive(k)
        /\ job[j].profile = job[k].profile
        => Loose(j) \/ Loose(k)

\* What docs/RUNTIME.md says of exercises: a wall that the observer reports after the
\* navigation, after a dwell or scroll or at the end goes with the release, which
\* turns the account's health, so that nothing works with it any more.
ExercisesTellWalls ==
    \A j \in Jobs :
        job[j].kind = "EXERCISE" /\ met[j] /\ j \in closed => ~healthy[job[j].profile]

\* The walls a job met but does not tell: the last observation of an exercise, which
\* breaks ExercisesTellWalls, and that of a home-feed run that was interrupted
Untold(j) ==
    \/ job[j].kind = "EXERCISE" /\ job[j].looks = 1
    \/ job[j].kind = "HOME_FEED" /\ job[j].signalled

\* Once a job met a wall and ended, whatever became of its browser and of its
\* release, no job is started with the account that Facebook stopped, unless the job
\* told nobody (Untold): a release that came told the profile manager, and one that
\* did not leaves the lease, which keeps the profile BUSY (ProfileLease).
WallsStopWork ==
    [][\A j, k \in Jobs :
          /\ job[j].step = "IDLE" /\ job'[j].step = "LEASED"
          /\ job[k].step = "DONE" /\ met[k] /\ ~Untold(k)
          => job'[j].profile # job[k].profile]_vars

\* Every job ends, an access check even if its browser never answers; and when
\* the provider answers, no browser is still being driven or closed afterwards.
SessionsEnd ==
    \A j \in Jobs :
        job[j].step = "LEASED" ~>
            /\ job[j].step \in {"DONE", "DEAD"}
            /\ job[j].kind # "CHECK" => browser[j] \in {"NONE", "GONE", "LEFT"}
=============================================================================
