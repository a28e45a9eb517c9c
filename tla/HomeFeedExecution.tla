-------------------------- MODULE HomeFeedExecution --------------------------
(***************************************************************************)
(* Profile home-feed collection runs: the run table with its compare-and-  *)
(* set transitions, the requests that queue and cancel runs, and the       *)
(* workers that claim a run, lease its profile from the Profile Manager,   *)
(* collect, give the lease back and end the run.                           *)
(*                                                                         *)
(* The Profile Manager is the abstract ProfileLock, which ProfileLease     *)
(* implements; its answers to a worker travel over HTTP and may be lost.   *)
(***************************************************************************)
EXTENDS Integers, FiniteSets

CONSTANTS
    Profiles, Runs, Workers, Leases,
    Operators,           \* cancel requests being served at the same time
    Null,
    MaxPosts,            \* bound on the posts captured by one run
    Misdirected,         \* TRUE when a checkout may answer another profile
    Signalled,           \* the workers that may receive SIGINT or SIGTERM
    Mortal               \* the workers that may die

ASSUME HomeFeedRuns == IsFiniteSet(Runs)
ASSUME HomeFeedBounds ==
    MaxPosts \in Nat /\ Misdirected \in BOOLEAN

VARIABLES run, worker, cancel, held, closed,
          grantee,       \* history: the run each lease was checked out for
          released       \* history: how often its worker released each lease

vars == <<run, worker, cancel, held, closed, grantee, released>>
leaseVars == <<held, closed, grantee, released>>

Lock == INSTANCE ProfileLock

Active == {"QUEUED", "RUNNING"}
Statuses == {"ABSENT", "QUEUED", "RUNNING", "SUCCEEDED", "FAILED", "CANCELED"}
Failures == {"BOUNDS_EXCEEDED", "CHECKOUT_FAILED", "PROFILE_MISMATCH",
             "CAPTURE_FAILED", "LEASE_RELEASE_FAILED", "PARTIAL_FAILURE",
             "INTERRUPTED", "EXECUTION_FAILED"}

\* leaseReleased: the field of the persisted summary, Null without a summary
Run == [status : Statuses, profile : Profiles \cup {Null}, requested : Nat,
        within : BOOLEAN, started : BOOLEAN, finished : BOOLEAN,
        reason : Failures \cup {Null}, leaseReleased : {"YES", "NO", Null}]

\* acquired: the profile and lease the checkout answered; verdict: "SUCCEED" or
\* the failure the run will end with
Worker == [step : {"IDLE", "CLAIMED", "LEASED", "SUBMITTING", "RELEASING",
                   "ENDING", "EXITED"},
           run : Runs \cup {Null}, acquired : (Profiles \X Leases) \cup {Null},
           left : 0 .. MaxPosts, failed : BOOLEAN, stopping : BOOLEAN,
           verdict : Failures \cup {"SUCCEED", Null},
           leaseReleased : {"YES", "NO", Null}]

ASSUME HomeFeedNull ==
    Null \notin Profiles \cup Runs \cup (Profiles \X Leases)
               \cup Failures \cup {"SUCCEED", "YES", "NO"}

NoRun == [status |-> "ABSENT", profile |-> Null, requested |-> 0,
          within |-> TRUE, started |-> FALSE, finished |-> FALSE,
          reason |-> Null, leaseReleased |-> Null]

IdleWorker == [step |-> "IDLE", run |-> Null, acquired |-> Null, left |-> 0,
               failed |-> FALSE, stopping |-> FALSE, verdict |-> Null,
               leaseReleased |-> Null]

StatusOf == [r \in Runs |-> run[r].status]
Driven == {d \in Workers \X Runs : worker[d[1]].run = d[2]}

-----------------------------------------------------------------------------
(* The API and the run table *)

Created == {r \in Runs : run[r].status # "ABSENT"}

\* Mutant: no unique index on the active runs of a profile
RequestRunTwice(r, p) ==
    /\ run[r].status = "ABSENT"
    /\ \E within \in BOOLEAN :
          run' = [run EXCEPT ![r] = [NoRun EXCEPT !.status = "QUEUED",
                                                  !.profile = p,
                                                  !.requested = Cardinality(Created),
                                                  !.within = within]]
    /\ UNCHANGED <<worker, cancel>> /\ UNCHANGED leaseVars

\* create, under the unique index on the active runs of a profile; within:
\* the requested parameters respect the ceilings of the executor
RequestRun(r, p) ==
    /\ run[r].status = "ABSENT"
    /\ \A q \in Runs : run[q].profile = p => run[q].status \notin Active
    /\ \E within \in BOOLEAN :
          run' = [run EXCEPT ![r] = [NoRun EXCEPT !.status = "QUEUED",
                                                  !.profile = p,
                                                  !.requested = Cardinality(Created),
                                                  !.within = within]]
    /\ UNCHANGED <<worker, cancel>> /\ UNCHANGED leaseVars

\* transitionStatus: compare-and-set on the expected status
Transition(r, expected, row) ==
    run' = IF run[r].status = expected THEN [run EXCEPT ![r] = row] ELSE run

BeginCancel(o, r) ==
    /\ cancel[o] = Null /\ run[r].status = "QUEUED"
    /\ cancel' = [cancel EXCEPT ![o] = r]
    /\ UNCHANGED <<run, worker>> /\ UNCHANGED leaseVars

CommitCancel(o) ==
    /\ cancel[o] # Null
    /\ Transition(cancel[o], "QUEUED",
                  [run[cancel[o]] EXCEPT !.status = "CANCELED", !.finished = TRUE])
    /\ cancel' = [cancel EXCEPT ![o] = Null]
    /\ UNCHANGED worker /\ UNCHANGED leaseVars

-----------------------------------------------------------------------------
(* Workers *)

Become(w, state) == worker' = [worker EXCEPT ![w] = state]

Oldest(r) ==
    \A q \in Runs : run[q].status = "QUEUED" => run[r].requested <= run[q].requested

\* Mutant: a claim also takes a run that is RUNNING
ClaimActive(w, r) ==
    /\ worker[w].step = "IDLE" /\ ~worker[w].stopping
    /\ run[r].status \in Active
    /\ run' = [run EXCEPT ![r] = [@ EXCEPT !.status = "RUNNING", !.started = TRUE]]
    /\ Become(w, [worker[w] EXCEPT !.step = "CLAIMED", !.run = r])
    /\ UNCHANGED cancel /\ UNCHANGED leaseVars

\* claimNextQueued: one statement, rows locked by another claim are skipped
Claim(w, r) ==
    /\ worker[w].step = "IDLE" /\ ~worker[w].stopping
    /\ run[r].status = "QUEUED" /\ Oldest(r)
    /\ run' = [run EXCEPT ![r] = [@ EXCEPT !.status = "RUNNING", !.started = TRUE]]
    /\ Become(w, [worker[w] EXCEPT !.step = "CLAIMED", !.run = r])
    /\ UNCHANGED cancel /\ UNCHANGED leaseVars

\* The run ends without a lease to give back
Refuse(w, verdict) ==
    Become(w, [worker[w] EXCEPT !.step = "ENDING", !.verdict = verdict])

\* The command ends when a use case throws, here about a run that is not
\* RUNNING any more
Quit(w) == Become(w, [IdleWorker EXCEPT !.step = "EXITED"])

RejectRun(w) ==
    LET r == worker[w].run IN
    /\ worker[w].step = "CLAIMED"
    /\ run[r].status # "RUNNING" \/ ~run[r].within \/ worker[w].stopping
    /\ IF run[r].status # "RUNNING" THEN Quit(w)
       ELSE Refuse(w, IF run[r].within THEN "INTERRUPTED" ELSE "BOUNDS_EXCEEDED")
    /\ UNCHANGED <<run, cancel>> /\ UNCHANGED leaseVars

ReadyToCheckOut(w) ==
    /\ worker[w].step = "CLAIMED"
    /\ run[worker[w].run].status = "RUNNING" /\ run[worker[w].run].within
    /\ ~worker[w].stopping

Checkout(w, l) ==
    LET r == worker[w].run IN
    /\ ReadyToCheckOut(w)
    /\ \E p \in IF Misdirected THEN Profiles ELSE {run[r].profile} :
          /\ Lock!Acquire(p, l)
          /\ \/ Become(w, [worker[w] EXCEPT !.step = "LEASED", !.acquired = <<p, l>>])
             \/ Refuse(w, "CHECKOUT_FAILED")      \* the answer was lost
    /\ grantee' = [grantee EXCEPT ![l] = r]
    /\ UNCHANGED <<run, cancel, released>>

CheckoutRefused(w) ==
    /\ ReadyToCheckOut(w)
    /\ Refuse(w, "CHECKOUT_FAILED")
    /\ UNCHANGED <<run, cancel>> /\ UNCHANGED leaseVars

\* The outcome is decided, the lease is given back next
Decide(w, verdict) ==
    Become(w, [worker[w] EXCEPT !.step = "RELEASING", !.verdict = verdict])

Right(w) == worker[w].acquired[1] = run[worker[w].run].profile

Mismatch(w) ==
    /\ worker[w].step = "LEASED" /\ ~Right(w)
    /\ Decide(w, "PROFILE_MISMATCH")
    /\ UNCHANGED <<run, cancel>> /\ UNCHANGED leaseVars

CaptureSucceeds(w) ==
    /\ worker[w].step = "LEASED" /\ Right(w)
    /\ IF worker[w].stopping THEN Decide(w, "INTERRUPTED")
       ELSE \E posts \in 0 .. MaxPosts :
               Become(w, [worker[w] EXCEPT !.step = "SUBMITTING", !.left = posts])
    /\ UNCHANGED <<run, cancel>> /\ UNCHANGED leaseVars

CaptureFails(w) ==
    /\ worker[w].step = "LEASED" /\ Right(w)
    /\ Decide(w, IF worker[w].stopping THEN "INTERRUPTED" ELSE "CAPTURE_FAILED")
    /\ UNCHANGED <<run, cancel>> /\ UNCHANGED leaseVars

\* Mutant: the loop goes on past the last candidate
SubmitPostPastEnd(w) ==
    /\ worker[w].step = "SUBMITTING"
    /\ \E failed \in {worker[w].failed, TRUE} :
          Become(w, [worker[w] EXCEPT !.left = @ - 1, !.failed = failed])
    /\ UNCHANGED <<run, cancel>> /\ UNCHANGED leaseVars

\* One candidate: its publisher is observed, then its content submitted
SubmitPost(w) ==
    /\ worker[w].step = "SUBMITTING" /\ worker[w].left > 0
    /\ IF worker[w].stopping THEN Decide(w, "INTERRUPTED")
       ELSE \E failed \in {worker[w].failed, TRUE} :
               Become(w, [worker[w] EXCEPT !.left = @ - 1, !.failed = failed])
    /\ UNCHANGED <<run, cancel>> /\ UNCHANGED leaseVars

SubmittedAll(w) ==
    /\ worker[w].step = "SUBMITTING" /\ worker[w].left = 0
    /\ Decide(w, IF worker[w].failed THEN "PARTIAL_FAILURE" ELSE "SUCCEED")
    /\ UNCHANGED <<run, cancel>> /\ UNCHANGED leaseVars

\* The catch around decideOutcome: an error between capture and submission
Fault(w) ==
    /\ worker[w].step = "LEASED" /\ Right(w) /\ ~worker[w].stopping
    /\ Decide(w, "EXECUTION_FAILED")
    /\ UNCHANGED <<run, cancel>> /\ UNCHANGED leaseVars

\* Mutant: the failed release does not replace the verdict
ReleaseUnnoticed(w) ==
    LET p == worker[w].acquired[1]
        l == worker[w].acquired[2] IN
    /\ worker[w].step = "RELEASING"
    /\ released' = [released EXCEPT ![l] = @ + 1]
    /\ Become(w, [worker[w] EXCEPT !.step = "ENDING", !.leaseReleased = "YES"])
    /\ \/ Lock!Release(p, l)
       \/ UNCHANGED <<held, closed>>
    /\ UNCHANGED <<run, cancel, grantee>>

\* finalizeAcquiredLease; a release that was not confirmed overrides the
\* verdict because the profile may still be BUSY
Release(w) ==
    LET p == worker[w].acquired[1]
        l == worker[w].acquired[2] IN
    /\ worker[w].step = "RELEASING"
    /\ released' = [released EXCEPT ![l] = @ + 1]
    /\ \/ /\ Lock!Release(p, l)
          /\ Become(w, [worker[w] EXCEPT !.step = "ENDING", !.leaseReleased = "YES"])
       \/ /\ \/ Lock!Release(p, l)   \* the answer was lost
             \/ UNCHANGED <<held, closed>>
          /\ Become(w, [worker[w] EXCEPT !.step = "ENDING", !.leaseReleased = "NO",
                                         !.verdict = "LEASE_RELEASE_FAILED"])
    /\ UNCHANGED <<run, cancel, grantee>>

\* The persisted outcome: markSucceeded or markFailed
Ended(w, row) ==
    [row EXCEPT !.status = IF worker[w].verdict = "SUCCEED" THEN "SUCCEEDED"
                           ELSE "FAILED",
                !.finished = TRUE,
                !.reason = IF worker[w].verdict = "SUCCEED" THEN Null
                           ELSE worker[w].verdict,
                !.leaseReleased = worker[w].leaseReleased]

EndRun(w) ==
    LET r == worker[w].run IN
    /\ worker[w].step = "ENDING"
    /\ Transition(r, "RUNNING", Ended(w, run[r]))
    /\ IF run[r].status # "RUNNING" THEN Quit(w)
       ELSE Become(w, [IdleWorker EXCEPT !.stopping = worker[w].stopping])
    /\ UNCHANGED cancel /\ UNCHANGED leaseVars

Interrupt(w) ==
    /\ w \in Signalled /\ worker[w].step # "EXITED" /\ ~worker[w].stopping
    /\ Become(w, [worker[w] EXCEPT !.stopping = TRUE])
    /\ UNCHANGED <<run, cancel>> /\ UNCHANGED leaseVars

\* Mutant: the signal ends the process at once
ExitAtOnce(w) ==
    /\ worker[w].step # "EXITED" /\ worker[w].stopping
    /\ Quit(w)
    /\ UNCHANGED <<run, cancel>> /\ UNCHANGED leaseVars

\* Mutant: the poll loop also ends when there is nothing to claim
ExitWhenEmpty(w) ==
    /\ worker[w].step = "IDLE"
    /\ worker[w].stopping \/ \A r \in Runs : run[r].status # "QUEUED"
    /\ Quit(w)
    /\ UNCHANGED <<run, cancel>> /\ UNCHANGED leaseVars

Exit(w) ==
    /\ worker[w].step = "IDLE" /\ worker[w].stopping
    /\ Quit(w)
    /\ UNCHANGED <<run, cancel>> /\ UNCHANGED leaseVars

\* The process dies, or an error of the database ends the command
Crash(w) ==
    /\ w \in Mortal /\ worker[w].step # "EXITED"
    /\ Quit(w)
    /\ UNCHANGED <<run, cancel>> /\ UNCHANGED leaseVars

Restart(w) ==
    /\ worker[w].step = "EXITED"
    /\ Become(w, IdleWorker)
    /\ UNCHANGED <<run, cancel>> /\ UNCHANGED leaseVars

-----------------------------------------------------------------------------

Init ==
    /\ run = [r \in Runs |-> NoRun]
    /\ worker = [w \in Workers |-> IdleWorker]
    /\ cancel = [o \in Operators |-> Null]
    /\ Lock!Init
    /\ grantee = [l \in Leases |-> Null]
    /\ released = [l \in Leases |-> 0]

Api ==
    \/ \E r \in Runs, p \in Profiles : RequestRun(r, p)
    \/ \E o \in Operators, r \in Runs : BeginCancel(o, r)
    \/ \E o \in Operators : CommitCancel(o)

WorkerStep(w) ==
    \/ \E r \in Runs : Claim(w, r)
    \/ RejectRun(w)
    \/ \E l \in Leases : Checkout(w, l)
    \/ CheckoutRefused(w)
    \/ Mismatch(w)
    \/ CaptureSucceeds(w)
    \/ CaptureFails(w)
    \/ SubmitPost(w)
    \/ SubmittedAll(w)
    \/ Fault(w)
    \/ Release(w)
    \/ EndRun(w)
    \/ Exit(w)

Next ==
    \/ Api
    \/ \E w \in Workers : WorkerStep(w) \/ Interrupt(w) \/ Crash(w) \/ Restart(w)

Spec == Init /\ [][Next]_vars

\* A live worker keeps executing; nothing makes an operator restart one
FairSpec == Spec /\ \A w \in Workers : WF_vars(WorkerStep(w))

-----------------------------------------------------------------------------
(* Properties *)

\* Types of the run table, of the workers and of the histories.
TypeOK ==
    /\ run \in [Runs -> Run]
    /\ worker \in [Workers -> Worker]
    /\ cancel \in [Operators -> Runs \cup {Null}]
    /\ held \subseteq Profiles \X Leases /\ closed \subseteq Leases
    /\ grantee \in [Leases -> Runs \cup {Null}]
    /\ released \in [Leases -> Nat]

Lifecycle == INSTANCE RunLifecycle WITH status <- StatusOf, driven <- Driven

\* The compare-and-set table and the claim implement the run lifecycle: a
\* canceled or ended run is never executed or rewritten, only its own worker
\* ends it, and nobody takes up a run whose worker was lost.
ImplementsLifecycle == Lifecycle!Spec

\* Two workers never work for the same profile: the unique index on active runs
\* and the claim together serialize the runs of a profile.
OneWorkerPerProfile ==
    \A d, e \in Driven : d[1] # e[1] => run[d[2]].profile # run[e[2]].profile

\* A worker that submits posts, and one that will report success, has the lock
\* of its run's profile: captured posts come from the profile that was asked for.
WorksUnderLease ==
    \A w \in Workers :
        (\/ worker[w].step = "SUBMITTING"
         \/ worker[w].step = "RELEASING" /\ worker[w].verdict = "SUCCEED")
        => <<run[worker[w].run].profile, worker[w].acquired[2]>> \in held

Open(l) == \E p \in Profiles : <<p, l>> \in held

\* What an ended run says of its lease is true: when it reports the lease as
\* released no lease taken for it is open, and a lease that outlives its run is
\* told by the failure reason (the checkout or the release was not confirmed).
VerdictTellsLease ==
    \A l \in Leases : Open(l) =>
        LET row == run[grantee[l]] IN
        /\ row.status \in {"RUNNING", "FAILED"}
        /\ row.status = "FAILED" =>
              /\ row.reason \in {"CHECKOUT_FAILED", "LEASE_RELEASE_FAILED"}
              /\ row.leaseReleased # "YES"

\* Every acquired lease is released exactly once on the way to the verdict,
\* never twice, whichever branch the execution takes.
ReleasedOnce ==
    /\ \A l \in Leases : released[l] <= 1
    /\ \A w \in Workers : worker[w].step = "ENDING" /\ worker[w].acquired # Null
                         => released[worker[w].acquired[2]] = 1

NotAcquired == {"BOUNDS_EXCEEDED", "CHECKOUT_FAILED", "INTERRUPTED"}

\* A row records what happened to it: a canceled run never started, a success
\* has given its lease back, a failure has a reason, and a run that ended
\* without a summary failed before it had a lease.
RunRecorded ==
    \A r \in Runs :
        LET row == run[r] IN
        /\ row.started <=> row.status \in {"RUNNING", "SUCCEEDED", "FAILED"}
        /\ row.finished <=> row.status \in {"CANCELED", "SUCCEEDED", "FAILED"}
        /\ row.reason # Null <=> row.status = "FAILED"
        /\ row.status = "SUCCEEDED" => row.leaseReleased = "YES"
        /\ row.leaseReleased = "NO" <=> row.reason = "LEASE_RELEASE_FAILED"
        /\ row.status = "FAILED" /\ row.leaseReleased = Null => row.reason \in NotAcquired

\* A claimed run ends, also when its worker is interrupted and whatever its profile
\* and lease came to, unless the process of that worker dies.
ClaimedRunsEnd ==
    \A r \in Runs, w \in Workers \ Mortal :
        worker[w].run = r ~> run[r].status \in {"SUCCEEDED", "FAILED"}

\* While its workers are not stopped and one of them lives, a queued run is taken or
\* canceled: neither failing runs nor the death of another worker stop the poll loop.
QueuedRunsTaken ==
    [](\A w \in Workers : ~worker[w].stopping) =>
        \A r \in Runs : run[r].status = "QUEUED" ~> run[r].status # "QUEUED"
=============================================================================
