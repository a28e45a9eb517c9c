----------------------------- MODULE LeasedRuns -----------------------------
(***************************************************************************)
(* The three kinds of runs that operate a leased profile in a browser:     *)
(* group collection runs, account exercise runs and profile source access  *)
(* check runs.  Each kind has its table and its worker process; the        *)
(* exercise command line tool queues and starts a run of its own.  All of  *)
(* them lease profiles from the same Profile Manager (ProfileLock).        *)
(*                                                                         *)
(* Unlike the home-feed runs, these tables are written by reading a row,   *)
(* checking its status and saving the whole row over whatever is stored.   *)
(***************************************************************************)
EXTENDS Integers, FiniteSets

CONSTANTS
    Profiles, Runs, Workers, Leases,
    Operators,           \* cancel requests being served at the same time
    Null,
    Kinds,               \* the kinds of runs that are requested
    Kind,                \* what each process executes
    MaxPayloads,         \* bound on the payloads captured by one group run
    Misdirected,         \* TRUE when a checkout may answer another profile
    Signalled,           \* the processes that may receive SIGINT or SIGTERM
    Mortal               \* the processes that may die

ASSUME LeasedRunsFinite == IsFiniteSet(Runs)
ASSUME LeasedRunsKinds ==
    /\ Kinds \subseteq {"GROUP", "EXERCISE", "ACCESS"}
    /\ Kind \in [Workers -> Kinds \cup {"TOOL"}]
    /\ \A w \in Workers : Kind[w] = "TOOL" => "EXERCISE" \in Kinds
ASSUME LeasedRunsBounds ==
    MaxPayloads \in Nat /\ Misdirected \in BOOLEAN

VARIABLES run, worker, cancel, held, closed,
          access,        \* the check whose outcome each profile's access shows
          grantee,       \* history: the run each lease was checked out for
          released,      \* history: how often its worker released each lease
          lost           \* history: the status each run had when a save
                         \* overwrote a row of it that it was not based on

vars == <<run, worker, cancel, held, closed, access, grantee, released, lost>>
leaseVars == <<held, closed, grantee, released>>
outside == <<cancel, access>>

Lock == INSTANCE ProfileLock

Active == {"QUEUED", "RUNNING"}
Statuses == {"ABSENT", "QUEUED", "RUNNING", "SUCCEEDED", "FAILED", "CANCELED"}
Failures == {"PREFLIGHT_FAILED", "CHECKOUT_FAILED", "ABORTED", "PROFILE_MISMATCH",
             "RECORD_FAILED", "CONFIGURATION_FAILED", "BROWSER_FAILED",
             "SUBMISSION_FAILED", "RELEASE_FAILED", "CLASSIFICATION_FAILED",
             "MUTATION_FAILED"}

\* lease: the column of an exercise row; leaseReleased: the field of its summary
Run == [status : Statuses, kind : Kinds \cup {Null}, profile : Profiles \cup {Null},
        requested : Nat, started : BOOLEAN, finished : BOOLEAN,
        lease : Leases \cup {Null}, reason : Failures \cup {Null},
        leaseReleased : {"YES", "NO", Null}]

\* seen: the row the process read last, the base of what it will save
Worker == [step : {"IDLE", "REQUESTED", "STARTING", "CLAIMED", "READY", "LEASED",
                   "ATTACHING", "ATTACHED", "BROWSING", "SUBMITTING", "RELEASING",
                   "APPLYING", "ENDING", "SAVING", "EXITED"},
           run : Runs \cup {Null}, seen : Run \cup {Null},
           acquired : (Profiles \X Leases) \cup {Null},
           left : 0 .. MaxPayloads, stopping : BOOLEAN,
           verdict : Failures \cup {"SUCCEED", Null},
           leaseReleased : {"YES", "NO"}]

ASSUME LeasedRunsNull ==
    Null \notin Profiles \cup Runs \cup Leases \cup (Profiles \X Leases) \cup Run
               \cup Failures \cup Kinds \cup Statuses \cup {"SUCCEED", "YES", "NO"}

NoRun == [status |-> "ABSENT", kind |-> Null, profile |-> Null, requested |-> 0,
          started |-> FALSE, finished |-> FALSE, lease |-> Null, reason |-> Null,
          leaseReleased |-> Null]

IdleWorker == [step |-> "IDLE", run |-> Null, seen |-> Null, acquired |-> Null,
               left |-> 0, stopping |-> FALSE, verdict |-> Null,
               leaseReleased |-> "NO"]

Serves(w) == IF Kind[w] = "TOOL" THEN "EXERCISE" ELSE Kind[w]

\* No save of the run overwrote what it had not read
Intact(r) == lost[r] = Null

StatusOf == [r \in Runs |-> IF Intact(r) THEN run[r].status ELSE lost[r]]
Driven == {d \in Workers \X Runs :
              /\ worker[d[1]].run = d[2] /\ Intact(d[2])
              /\ worker[d[1]].step \notin {"REQUESTED", "STARTING"}}

-----------------------------------------------------------------------------
(* The API and the run tables *)

\* save: the whole row, whatever is stored now
Save(r, row, current) ==
    /\ run' = [run EXCEPT ![r] = row]
    /\ lost' = [lost EXCEPT ![r] = IF current \/ ~Intact(r) THEN @ ELSE run[r].status]

\* A statement that inserts or updates a row as it finds it
Update(r, row) == run' = [run EXCEPT ![r] = row] /\ UNCHANGED lost

Created == {r \in Runs : run[r].status # "ABSENT"}

Queued(kind, p) ==
    [NoRun EXCEPT !.status = "QUEUED", !.kind = kind, !.profile = p,
                  !.requested = Cardinality(Created)]

\* The profile of a group run is chosen at its checkout.  One source group
\* stands for all: access checks are unique among the active ones per group.
Request(r, kind, p) ==
    /\ run[r].status = "ABSENT"
    /\ kind = "ACCESS" =>
          \A q \in Runs : run[q].kind = kind /\ run[q].profile = p
                          => run[q].status \notin Active
    /\ Update(r, Queued(kind, IF kind = "GROUP" THEN Null ELSE p))
    /\ UNCHANGED worker /\ UNCHANGED outside /\ UNCHANGED leaseVars

\* The use case has read a row that may be canceled
BeginCancel(o, r) ==
    /\ cancel[o] = Null /\ run[r].status = "QUEUED"
    /\ cancel' = [cancel EXCEPT ![o] = r]
    /\ UNCHANGED <<run, lost, worker, access>> /\ UNCHANGED leaseVars

Canceled(row) ==
    [row EXCEPT !.status = "CANCELED", !.started = FALSE, !.finished = TRUE,
                !.lease = Null, !.reason = Null, !.leaseReleased = Null]

\* save: every column but the status and the finish as it was when QUEUED
CommitCancel(o) ==
    LET r == cancel[o] IN
    /\ r # Null
    /\ Save(r, Canceled(run[r]), run[r].status = "QUEUED")
    /\ cancel' = [cancel EXCEPT ![o] = Null]
    /\ UNCHANGED <<worker, access>> /\ UNCHANGED leaseVars

-----------------------------------------------------------------------------
(* Processes: taking a run *)

Become(w, state) == worker' = [worker EXCEPT ![w] = state]

\* The command ends: a use case threw, or the tool is done
Quit(w) == Become(w, [IdleWorker EXCEPT !.step = "EXITED"])

\* The loop of a worker goes on, the tool executes one run
Done(w) == IF Kind[w] = "TOOL" THEN Quit(w)
           ELSE Become(w, [IdleWorker EXCEPT !.stopping = worker[w].stopping])

Oldest(r) ==
    \A q \in Runs : run[q].status = "QUEUED" /\ run[q].kind = run[r].kind
                    => run[r].requested <= run[q].requested

Started(row) == [row EXCEPT !.status = "RUNNING", !.started = TRUE]

\* claimNextQueued: one statement, rows locked by another claim are skipped.
\* The exercise worker executes the row the claim returned.
Claim(w, r) ==
    /\ worker[w].step = "IDLE" /\ ~worker[w].stopping
    /\ run[r].status = "QUEUED" /\ run[r].kind = Kind[w]
    /\ Oldest(r)
    /\ Update(r, Started(run[r]))
    /\ Become(w, IF Kind[w] = "EXERCISE"
                 THEN [worker[w] EXCEPT !.step = "READY", !.run = r,
                                        !.seen = Started(run[r])]
                 ELSE [worker[w] EXCEPT !.step = "CLAIMED", !.run = r])
    /\ UNCHANGED outside /\ UNCHANGED leaseVars

\* The execute use cases read the run again and throw unless it is RUNNING
Load(w) ==
    LET row == run[worker[w].run] IN
    /\ worker[w].step = "CLAIMED"
    /\ IF row.status = "RUNNING"
       THEN Become(w, [worker[w] EXCEPT !.step = "READY", !.seen = row])
       ELSE Quit(w)
    /\ UNCHANGED <<run, lost>> /\ UNCHANGED outside /\ UNCHANGED leaseVars

\* The tool requests a run, then marks it RUNNING: a read and a save
ToolRequest(w, r, p) ==
    /\ Kind[w] = "TOOL" /\ worker[w].step = "IDLE"
    /\ run[r].status = "ABSENT"
    /\ Update(r, Queued("EXERCISE", p))
    /\ Become(w, [worker[w] EXCEPT !.step = "REQUESTED", !.run = r])
    /\ UNCHANGED outside /\ UNCHANGED leaseVars

\* Mutant: the use case does not look at the transition table
ToolReadAny(w) ==
    /\ worker[w].step = "REQUESTED"
    /\ Become(w, [worker[w] EXCEPT !.step = "STARTING", !.seen = run[worker[w].run]])
    /\ UNCHANGED <<run, lost>> /\ UNCHANGED outside /\ UNCHANGED leaseVars

ToolRead(w) ==
    LET r == worker[w].run IN
    /\ worker[w].step = "REQUESTED"
    /\ \/ /\ run[r].status = "QUEUED"
          /\ Become(w, [worker[w] EXCEPT !.step = "STARTING", !.seen = run[r]])
       \/ run[r].status # "QUEUED" /\ Quit(w)
    /\ UNCHANGED <<run, lost>> /\ UNCHANGED outside /\ UNCHANGED leaseVars

ToolStart(w) ==
    LET r == worker[w].run
        row == Started(worker[w].seen) IN
    /\ worker[w].step = "STARTING"
    /\ Save(r, row, run[r] = worker[w].seen)
    /\ Become(w, [worker[w] EXCEPT !.step = "READY", !.seen = row])
    /\ UNCHANGED outside /\ UNCHANGED leaseVars

-----------------------------------------------------------------------------
(* Processes: leasing the profile *)

\* Why a run may end without a lease: the source group is looked up first for a
\* group run, a signal is looked at first by an access check
Refusals(w) ==
    CASE Serves(w) = "GROUP" -> {"PREFLIGHT_FAILED", "CHECKOUT_FAILED"}
      [] Serves(w) = "EXERCISE" -> {"CHECKOUT_FAILED"}
      [] Serves(w) = "ACCESS" /\ worker[w].stopping -> {"ABORTED"}
      [] OTHER -> {"CHECKOUT_FAILED"}

Refuse(w, verdict) ==
    Become(w, [worker[w] EXCEPT !.step = "ENDING", !.verdict = verdict])

CheckoutRefused(w) ==
    /\ worker[w].step = "READY"
    /\ \E reason \in Refusals(w) : Refuse(w, reason)
    /\ UNCHANGED <<run, lost>> /\ UNCHANGED outside /\ UNCHANGED leaseVars

\* The profiles a checkout may answer
Eligible(w) ==
    IF Serves(w) = "GROUP" \/ (Serves(w) = "ACCESS" /\ Misdirected)
    THEN Profiles ELSE {worker[w].seen.profile}

Checkout(w, l) ==
    /\ worker[w].step = "READY" /\ "CHECKOUT_FAILED" \in Refusals(w)
    /\ \E p \in Eligible(w) :
          /\ Lock!Acquire(p, l)
          /\ \/ Become(w, [worker[w] EXCEPT !.step = "LEASED", !.acquired = <<p, l>>])
             \/ Refuse(w, "CHECKOUT_FAILED")      \* the answer was lost
    /\ grantee' = [grantee EXCEPT ![l] = worker[w].run]
    /\ UNCHANGED <<run, lost, released>> /\ UNCHANGED outside

\* The outcome is decided, the lease is given back next
Decide(w, verdict) ==
    Become(w, [worker[w] EXCEPT !.step = "RELEASING", !.verdict = verdict])

\* attachRunLease, its read: the run must be RUNNING without another lease
AttachRead(w) ==
    LET row == run[worker[w].run] IN
    /\ worker[w].step = "LEASED" /\ Serves(w) = "EXERCISE"
    /\ IF row.status = "RUNNING" /\ row.lease = Null
       THEN Become(w, [worker[w] EXCEPT !.step = "ATTACHING", !.seen = row])
       ELSE Decide(w, "RECORD_FAILED")
    /\ UNCHANGED <<run, lost>> /\ UNCHANGED outside /\ UNCHANGED leaseVars

AttachSave(w) ==
    LET r == worker[w].run
        row == [worker[w].seen EXCEPT !.lease = worker[w].acquired[2]] IN
    /\ worker[w].step = "ATTACHING"
    /\ Save(r, row, run[r] = worker[w].seen)
    /\ \/ Become(w, [worker[w] EXCEPT !.step = "ATTACHED", !.seen = row])
       \/ Decide(w, "RECORD_FAILED")              \* the answer was lost
    /\ UNCHANGED outside /\ UNCHANGED leaseVars

-----------------------------------------------------------------------------
(* Processes: operating the profile *)

Right(w) == worker[w].acquired[1] = worker[w].seen.profile

\* Mutant: nobody compares
MisledNever(w) == FALSE

\* Only an access check compares the profile of the lease with the run's
Misled(w) == Serves(w) = "ACCESS" /\ ~Right(w)

ReadyToLaunch(w) ==
    worker[w].step = IF Serves(w) = "EXERCISE" THEN "ATTACHED" ELSE "LEASED"

\* The runtime configuration is fetched and the browser launched; an exercise
\* does not look at the signal before its pauses
Launch(w) ==
    /\ ReadyToLaunch(w) /\ ~Misled(w)
    /\ Serves(w) = "EXERCISE" \/ ~worker[w].stopping
    /\ Become(w, [worker[w] EXCEPT !.step = "BROWSING"])
    /\ UNCHANGED <<run, lost>> /\ UNCHANGED outside /\ UNCHANGED leaseVars

LaunchFails(w) ==
    /\ ReadyToLaunch(w)
    /\ IF Misled(w) THEN Decide(w, "PROFILE_MISMATCH")
       ELSE \/ Decide(w, IF Serves(w) = "ACCESS" /\ worker[w].stopping
                         THEN "ABORTED" ELSE "BROWSER_FAILED")
            \/ /\ Serves(w) # "GROUP" /\ ~worker[w].stopping
               /\ Decide(w, "CONFIGURATION_FAILED")
    /\ UNCHANGED <<run, lost>> /\ UNCHANGED outside /\ UNCHANGED leaseVars

\* Mutant: an error of the capture is not caught
BrowserThrows(w) ==
    /\ worker[w].step = "BROWSING"
    /\ Quit(w)
    /\ UNCHANGED <<run, lost>> /\ UNCHANGED outside /\ UNCHANGED leaseVars

\* The session fails, or could not be closed in time; it is closed in any case
BrowserFails(w) ==
    /\ worker[w].step = "BROWSING"
    /\ Decide(w, IF Serves(w) = "ACCESS" /\ worker[w].stopping
                 THEN "ABORTED" ELSE "BROWSER_FAILED")
    /\ UNCHANGED <<run, lost>> /\ UNCHANGED outside /\ UNCHANGED leaseVars

\* Mutant: a group run returns the lease before it submits what it captured
BrowserDoneReleasing(w) ==
    /\ worker[w].step = "BROWSING" /\ Serves(w) = "GROUP"
    /\ Lock!Release(worker[w].acquired[1], worker[w].acquired[2])
    /\ Become(w, [worker[w] EXCEPT !.step = "SUBMITTING"])
    /\ UNCHANGED <<run, lost, grantee, released>> /\ UNCHANGED outside

\* The session is closed; a signal that comes after its last observation leaves
\* an exercise its success, an earlier one fails it
BrowserDone(w) ==
    /\ worker[w].step = "BROWSING"
    /\ ~(Serves(w) = "ACCESS" /\ worker[w].stopping)
    /\ IF Serves(w) = "GROUP"
       THEN \E payloads \in 0 .. MaxPayloads :
               Become(w, [worker[w] EXCEPT !.step = "SUBMITTING", !.left = payloads])
       ELSE Decide(w, "SUCCEED")
    /\ UNCHANGED <<run, lost>> /\ UNCHANGED outside /\ UNCHANGED leaseVars

\* Mutant: the loop goes on past the last payload
SubmitPastEnd(w) ==
    /\ worker[w].step = "SUBMITTING"
    /\ Become(w, [worker[w] EXCEPT !.left = @ - 1])
    /\ UNCHANGED <<run, lost>> /\ UNCHANGED outside /\ UNCHANGED leaseVars

\* One payload: its candidates are extracted and submitted
SubmitPayload(w) ==
    /\ worker[w].step = "SUBMITTING" /\ worker[w].left > 0
    /\ \E verdict \in {worker[w].verdict, "SUBMISSION_FAILED"} :
          Become(w, [worker[w] EXCEPT !.left = @ - 1, !.verdict = verdict])
    /\ UNCHANGED <<run, lost>> /\ UNCHANGED outside /\ UNCHANGED leaseVars

SubmittedAll(w) ==
    /\ worker[w].step = "SUBMITTING" /\ worker[w].left = 0
    /\ Decide(w, IF worker[w].verdict = Null THEN "SUCCEED" ELSE worker[w].verdict)
    /\ UNCHANGED <<run, lost>> /\ UNCHANGED outside /\ UNCHANGED leaseVars

-----------------------------------------------------------------------------
(* Processes: giving the lease back and ending the run *)

\* Mutant: the summary says released whatever the release answered
ReturnedAnyway(w, leaseReleased, verdict) ==
    Become(w, [worker[w] EXCEPT
                  !.step = IF Serves(w) = "ACCESS" /\ verdict = "SUCCEED"
                           THEN "APPLYING" ELSE "ENDING",
                  !.verdict = verdict, !.leaseReleased = "YES"])

\* An access check that succeeded still has its outcome to store
Returned(w, leaseReleased, verdict) ==
    Become(w, [worker[w] EXCEPT
                  !.step = IF Serves(w) = "ACCESS" /\ verdict = "SUCCEED"
                           THEN "APPLYING" ELSE "ENDING",
                  !.verdict = verdict, !.leaseReleased = leaseReleased])

\* Released whatever happened; the first error stays the reason
Release(w) ==
    LET p == worker[w].acquired[1]
        l == worker[w].acquired[2] IN
    /\ worker[w].step = "RELEASING"
    /\ released' = [released EXCEPT ![l] = @ + 1]
    /\ \/ Lock!Release(p, l) /\ Returned(w, "YES", worker[w].verdict)
       \/ /\ \/ Lock!Release(p, l)               \* the answer was lost
             \/ UNCHANGED <<held, closed>>
          /\ Returned(w, "NO", IF worker[w].verdict = "SUCCEED" THEN "RELEASE_FAILED"
                               ELSE worker[w].verdict)
    /\ UNCHANGED <<run, lost, grantee>> /\ UNCHANGED outside

\* Mutant: the result of the mutation is not looked at
ApplyUnchecked(w) ==
    /\ worker[w].step = "APPLYING"
    /\ Refuse(w, "SUCCEED")
    /\ \/ access' = [access EXCEPT ![worker[w].seen.profile] = worker[w].run]
       \/ UNCHANGED access
    /\ UNCHANGED <<run, lost, cancel>> /\ UNCHANGED leaseVars

\* The observation is classified and the Profile Manager stores the outcome
Apply(w) ==
    /\ worker[w].step = "APPLYING"
    /\ \/ /\ access' = [access EXCEPT ![worker[w].seen.profile] = worker[w].run]
          /\ \E verdict \in {"SUCCEED", "MUTATION_FAILED"} : Refuse(w, verdict)
       \/ /\ \E verdict \in {"CLASSIFICATION_FAILED", "MUTATION_FAILED"} :
                Refuse(w, verdict)
          /\ UNCHANGED access
    /\ UNCHANGED <<run, lost, cancel>> /\ UNCHANGED leaseVars

Ended(w) ==
    [worker[w].seen EXCEPT
        !.status = IF worker[w].verdict = "SUCCEED" THEN "SUCCEEDED" ELSE "FAILED",
        !.finished = TRUE,
        !.reason = IF worker[w].verdict = "SUCCEED" THEN Null ELSE worker[w].verdict,
        !.leaseReleased = IF Serves(w) = "ACCESS" THEN Null ELSE worker[w].leaseReleased]

\* markRunSucceeded and markRunFailed, their read; a refusal is only reported
EndRead(w) ==
    LET row == run[worker[w].run] IN
    /\ worker[w].step = "ENDING" /\ Serves(w) = "EXERCISE"
    /\ IF row.status = "RUNNING"
       THEN Become(w, [worker[w] EXCEPT !.step = "SAVING", !.seen = row])
       ELSE Done(w)
    /\ UNCHANGED <<run, lost>> /\ UNCHANGED outside /\ UNCHANGED leaseVars

\* save: the row as it was read, for group runs and access checks before they
\* were executed
EndSave(w) ==
    LET r == worker[w].run IN
    /\ worker[w].step = IF Serves(w) = "EXERCISE" THEN "SAVING" ELSE "ENDING"
    /\ Save(r, Ended(w), run[r] = worker[w].seen)
    /\ Done(w)
    /\ UNCHANGED outside /\ UNCHANGED leaseVars

Interrupt(w) ==
    /\ w \in Signalled /\ worker[w].step # "EXITED" /\ ~worker[w].stopping
    /\ Become(w, [worker[w] EXCEPT !.stopping = TRUE])
    /\ UNCHANGED <<run, lost>> /\ UNCHANGED outside /\ UNCHANGED leaseVars

Exit(w) ==
    /\ worker[w].step = "IDLE" /\ worker[w].stopping
    /\ Quit(w)
    /\ UNCHANGED <<run, lost>> /\ UNCHANGED outside /\ UNCHANGED leaseVars

\* The process dies, or an error of the database or of a request to the run
\* table makes it give up where it is
Crash(w) ==
    /\ w \in Mortal /\ worker[w].step # "EXITED"
    /\ Quit(w)
    /\ UNCHANGED <<run, lost>> /\ UNCHANGED outside /\ UNCHANGED leaseVars

Restart(w) ==
    /\ worker[w].step = "EXITED"
    /\ Become(w, IdleWorker)
    /\ UNCHANGED <<run, lost>> /\ UNCHANGED outside /\ UNCHANGED leaseVars

-----------------------------------------------------------------------------

Init ==
    /\ run = [r \in Runs |-> NoRun]
    /\ worker = [w \in Workers |-> IdleWorker]
    /\ cancel = [o \in Operators |-> Null]
    /\ access = [p \in Profiles |-> Null]
    /\ Lock!Init
    /\ grantee = [l \in Leases |-> Null]
    /\ released = [l \in Leases |-> 0]
    /\ lost = [r \in Runs |-> Null]

Api ==
    \/ \E r \in Runs, kind \in Kinds, p \in Profiles : Request(r, kind, p)
    \/ \E o \in Operators, r \in Runs : BeginCancel(o, r)
    \/ \E o \in Operators : CommitCancel(o)

WorkerStep(w) ==
    \/ \E r \in Runs : Claim(w, r)
    \/ Load(w)
    \/ ToolRead(w)
    \/ ToolStart(w)
    \/ CheckoutRefused(w)
    \/ \E l \in Leases : Checkout(w, l)
    \/ AttachRead(w)
    \/ AttachSave(w)
    \/ Launch(w)
    \/ LaunchFails(w)
    \/ BrowserFails(w)
    \/ BrowserDone(w)
    \/ SubmitPayload(w)
    \/ SubmittedAll(w)
    \/ Release(w)
    \/ Apply(w)
    \/ EndRead(w)
    \/ EndSave(w)
    \/ Exit(w)

\* What starts or stops a process from outside
Operate(w) ==
    \/ \E r \in Runs, p \in Profiles : ToolRequest(w, r, p)
    \/ Interrupt(w)
    \/ Crash(w)
    \/ Restart(w)

Next == Api \/ \E w \in Workers : WorkerStep(w) \/ Operate(w)

Spec == Init /\ [][Next]_vars

\* A live process keeps executing, a request that was read is committed; nothing
\* makes an operator restart a process
FairSpec ==
    /\ Spec
    /\ \A w \in Workers : WF_vars(WorkerStep(w))
    /\ \A o \in Operators : WF_vars(CommitCancel(o))

-----------------------------------------------------------------------------
(* Properties *)

\* Types of the run tables, of the processes and of the histories.
TypeOK ==
    /\ run \in [Runs -> Run]
    /\ worker \in [Workers -> Worker]
    /\ cancel \in [Operators -> Runs \cup {Null}]
    /\ held \subseteq Profiles \X Leases /\ closed \subseteq Leases
    /\ access \in [Profiles -> Runs \cup {Null}]
    /\ grantee \in [Leases -> Runs \cup {Null}]
    /\ released \in [Leases -> Nat]
    /\ lost \in [Runs -> Statuses \cup {Null}]

Browsing == {"BROWSING", "SUBMITTING"}

\* Whatever the races on the run tables, a process browses only with the lock of
\* the profile it operates and no two processes of any kind browse with the same
\* profile; an access check browses with the profile it was asked to check.
BrowsesUnderLease ==
    \A w \in Workers : worker[w].step \in Browsing =>
        /\ worker[w].acquired \in held
        /\ Serves(w) # "GROUP" => Right(w)
        /\ \A v \in Workers \ {w} :
              worker[v].step \in Browsing => worker[v].acquired[1] # worker[w].acquired[1]

\* Every acquired lease is released exactly once before the run is ended, never
\* twice, whichever branch the execution takes.
ReleasedOnce ==
    /\ \A l \in Leases : released[l] <= 1
    /\ \A w \in Workers :
          worker[w].step \in {"APPLYING", "ENDING", "SAVING"} /\ worker[w].acquired # Null
          => released[worker[w].acquired[2]] = 1

\* Even when requests and executors overwrite each other's rows, a run is
\* SUCCEEDED only if a lease checked out for it was given back, and the lease an
\* exercise run shows was checked out for that run.
SuccessHadLease ==
    \A r \in Runs :
        /\ run[r].status = "SUCCEEDED" => \E l \in closed : grantee[l] = r
        /\ run[r].lease # Null => grantee[run[r].lease] = r

Lifecycle == INSTANCE RunLifecycle WITH status <- StatusOf, driven <- Driven

\* However requests and processes overlap, all three tables and their processes
\* implement the run lifecycle for every run, until a save overwrites a row of it
\* that it had not read.
ImplementsLifecycle == Lifecycle!Spec

Open(l) == \E p \in Profiles : <<p, l>> \in held

\* What an ended run says of its lease is true unless its row was overwritten: a
\* lease still open was taken for a run that is RUNNING or FAILED and does not
\* claim to have released it, and a successful exercise shows its lease, which is
\* closed.
RecordTellsLease ==
    /\ \A l \in Leases : Open(l) /\ Intact(grantee[l]) =>
          /\ run[grantee[l]].status \in {"RUNNING", "FAILED"}
          /\ run[grantee[l]].leaseReleased # "YES"
    /\ \A r \in Runs :
          Intact(r) /\ run[r].kind = "EXERCISE" /\ run[r].status = "SUCCEEDED"
          => run[r].lease \in closed

\* The access of a profile never falls back to an older check, unless a check of
\* it was overwritten: a check that SUCCEEDED was stored, and what is stored since
\* is of a later check.
AccessIsCurrent ==
    \A r \in Runs :
        /\ run[r].kind = "ACCESS" /\ run[r].status = "SUCCEEDED"
        /\ \A q \in Runs : run[q].kind = "ACCESS" /\ run[q].profile = run[r].profile
                           => Intact(q)
        => LET latest == access[run[r].profile] IN
           latest # Null /\ run[r].requested <= run[latest].requested

\* A claimed run of a kind whose processes do not die ends, also when they are
\* interrupted and whoever overwrites its row meanwhile.
ClaimedRunsEnd ==
    \A r \in Runs :
        run[r].status = "RUNNING" /\ (\A w \in Mortal : Serves(w) # run[r].kind)
        ~> run[r].status \in {"SUCCEEDED", "FAILED", "CANCELED"}

Allowed == {<<"ABSENT", "QUEUED">>, <<"QUEUED", "RUNNING">>, <<"QUEUED", "CANCELED">>,
            <<"RUNNING", "SUCCEEDED">>, <<"RUNNING", "FAILED">>}

\* SUCCEEDED, FAILED and CANCELED are terminal and only a QUEUED run is canceled,
\* as the transition table says.
AllowedTransitions ==
    [][\A r \in Runs : run'[r].status # run[r].status
                       => <<run[r].status, run'[r].status>> \in Allowed]_vars
=============================================================================
