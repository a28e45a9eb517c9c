----------------------------- MODULE Schedules -----------------------------
(***************************************************************************)
(* Recurring collection: the schedules of source groups and of profile     *)
(* home feeds, the operators that save them and the scheduler processes    *)
(* that turn a due schedule into a queued run.                             *)
(*                                                                         *)
(* A source group is dispatched in one transaction that skips the rows     *)
(* locked by others.  A home feed is found without a lock, its profile is  *)
(* looked up, and the transaction then requires the row to be still due    *)
(* where it was found.                                                     *)
(***************************************************************************)
EXTENDS Cadence, Sequences

CONSTANTS
    Groups, Profiles,
    GroupSchedulers, FeedSchedulers,
    Operators, Null,
    Intervals,           \* the cadences an operator may choose
    Starts,              \* the times an operator may schedule the next run at
    MaxTime,             \* bound on the clock
    MaxSaves,            \* bound on the saves of one schedule
    MaxManual,           \* bound on the home-feed runs requested by hand
    Deployments,         \* the sets of schedulers that may be started
    Mortal               \* the schedulers that may die

Targets == Groups \cup Profiles
Schedulers == GroupSchedulers \cup FeedSchedulers

ASSUME SchedulesIntervals == Intervals \subseteq Nat \ {0} /\ Starts \subseteq Nat
ASSUME SchedulesKinds ==
    Groups \cap Profiles = {} /\ GroupSchedulers \cap FeedSchedulers = {}
ASSUME SchedulesBounds ==
    {MaxTime, MaxSaves, MaxManual} \subseteq Nat /\ Deployments \subseteq SUBSET Schedulers
ASSUME SchedulesNull ==
    Null \notin Targets \cup Schedulers \cup Operators \cup Nat
               \cup {"DISPATCHED", "SKIPPED", "NOT_FOUND", "LOOKUP_FAILED"}

VARIABLES now, schedule, scheduler,
          owner,         \* the scheduler that locks the row of each schedule
          active,        \* QUEUED or RUNNING home-feed runs of each profile
          manual,        \* home-feed runs requested by hand so far
          edit,          \* per operator: the schedule read and its row
          queue,         \* history: the scheduled runs in order of their insertion
          origin         \* history: who anchored each schedule and its last advance

vars == <<now, schedule, scheduler, owner, active, manual, edit, queue, origin>>
runVars == <<active, manual, queue>>

\* attempted, status, failures: columns of home-feed schedules only
Schedule == [enabled : BOOLEAN, interval : Nat \ {0}, next : Nat,
             attempted : Nat \cup {Null}, failures : Nat,
             status : {"DISPATCHED", "SKIPPED", "NOT_FOUND", "LOOKUP_FAILED", Null}]

NoSchedule == [enabled |-> FALSE, interval |-> 1, next |-> 0,
               attempted |-> Null, failures |-> 0, status |-> Null]

\* at: the clock read when the dispatch began
Scheduler == [step : {"IDLE", "BEGUN", "FOUND", "LOCKED", "INSERTING", "CONFLICTED",
                      "EXITED"},
              at : Nat, target : Targets \cup {Null}, expected : Nat]

IdleScheduler == [step |-> "IDLE", at |-> 0, target |-> Null, expected |-> 0]

Pollers(t) == IF t \in Groups THEN GroupSchedulers ELSE FeedSchedulers

\* What no scheduler serves any more is left alone, nothing would come of it
Served(t) == \E s \in Pollers(t) : scheduler[s].step # "EXITED"

Due(t, at) == schedule[t].enabled /\ schedule[t].next <= at

Backoff(failures) ==
    CASE failures <= 1 -> 1
      [] failures = 2 -> 2
      [] failures = 3 -> 4
      [] failures = 4 -> 8
      [] OTHER -> 15

BackedOff(p, at) ==
    /\ schedule[p].status = "LOOKUP_FAILED"
    /\ schedule[p].attempted # Null
    /\ schedule[p].attempted + Backoff(schedule[p].failures) > at

-----------------------------------------------------------------------------
(* The clock, the operators and the other users of the run table *)

Tick ==
    /\ now < MaxTime
    /\ now' = now + 1
    /\ UNCHANGED <<schedule, scheduler, owner, edit, origin>> /\ UNCHANGED runVars

\* The use case has read the row whose tracking it will carry over
ReadSchedule(o, t) ==
    /\ edit[o] = Null /\ origin[t].version < MaxSaves /\ Served(t)
    /\ edit' = [edit EXCEPT ![o] = [target |-> t, seen |-> schedule[t]]]
    /\ UNCHANGED <<now, schedule, scheduler, owner, origin>> /\ UNCHANGED runVars

\* save: waits for the row lock, then overwrites every column
SaveSchedule(o, enabled, interval, next) ==
    LET t == edit[o].target IN
    /\ edit[o] # Null
    /\ owner[t] = Null
    /\ schedule' = [schedule EXCEPT ![t] =
          [edit[o].seen EXCEPT !.enabled = enabled, !.interval = interval, !.next = next]]
    /\ origin' = [origin EXCEPT ![t] =
          [version |-> @.version + 1, anchor |-> next, at |-> Null]]
    /\ edit' = [edit EXCEPT ![o] = Null]
    /\ UNCHANGED <<now, scheduler, owner>> /\ UNCHANGED runVars

\* The request of a run by hand; a profile has one active run at most
RequestRun(p) ==
    /\ manual < MaxManual /\ active[p] = 0 /\ Served(p)
    /\ active' = [active EXCEPT ![p] = @ + 1]
    /\ manual' = manual + 1
    /\ UNCHANGED <<now, schedule, scheduler, owner, edit, queue, origin>>

\* Mutant: a run that has ended is ended again
EndRunAgain(p) ==
    /\ active' = [active EXCEPT ![p] = @ - 1]
    /\ UNCHANGED <<now, schedule, scheduler, owner, manual, edit, queue, origin>>

\* A home-feed run ends or is canceled (HomeFeedExecution)
EndRun(p) ==
    /\ active[p] > 0
    /\ active' = [active EXCEPT ![p] = @ - 1]
    /\ UNCHANGED <<now, schedule, scheduler, owner, manual, edit, queue, origin>>

-----------------------------------------------------------------------------
(* Schedulers *)

Become(s, state) == scheduler' = [scheduler EXCEPT ![s] = state]

\* The dispatch ends, the poll loop goes on
Idle(s) == Become(s, IdleScheduler)

Begin(s) ==
    /\ scheduler[s].step = "IDLE"
    /\ Become(s, [IdleScheduler EXCEPT !.step = "BEGUN", !.at = now])
    /\ UNCHANGED <<now, schedule, owner, edit, origin>> /\ UNCHANGED runVars

\* The schedules the SELECT of a scheduler may return
Candidates(s) ==
    IF s \in GroupSchedulers
    THEN {g \in Groups : Due(g, scheduler[s].at) /\ owner[g] = Null}
    ELSE {p \in Profiles : Due(p, scheduler[s].at) /\ ~BackedOff(p, scheduler[s].at)}

\* Ordered by next_run_at; which of two equal ones is left open
First(s, t) ==
    /\ t \in Candidates(s)
    /\ \A u \in Candidates(s) : schedule[t].next <= schedule[u].next

NothingDue(s) ==
    /\ scheduler[s].step = "BEGUN" /\ Candidates(s) = {}
    /\ Idle(s)
    /\ UNCHANGED <<now, schedule, owner, edit, origin>> /\ UNCHANGED runVars

LockRow(s, t) == owner' = [owner EXCEPT ![t] = s]
Unlock(s) == owner' = [t \in Targets |-> IF owner[t] = s THEN Null ELSE owner[t]]

\* SELECT ... FOR UPDATE SKIP LOCKED LIMIT 1
SelectGroup(s, g) ==
    /\ s \in GroupSchedulers /\ scheduler[s].step = "BEGUN" /\ First(s, g)
    /\ LockRow(s, g)
    /\ Become(s, [scheduler[s] EXCEPT !.step = "LOCKED", !.target = g])
    /\ UNCHANGED <<now, schedule, edit, origin>> /\ UNCHANGED runVars

\* Mutant: the cadence is counted from the time of the dispatch
NextRunDrifting(row, at) == at + row.interval

NextRun(row, at) == NextBoundary(row.next, row.interval, at)

Enqueue(t, at) ==
    queue' = Append(queue, [target |-> t, due |-> schedule[t].next, at |-> at,
                            version |-> origin[t].version])

\* The row as the transaction leaves it, and the transaction committed
Advance(s, status) ==
    LET t == scheduler[s].target
        at == scheduler[s].at
        next == NextRun(schedule[t], at) IN
    /\ schedule' = [schedule EXCEPT ![t] =
          IF t \in Groups THEN [@ EXCEPT !.next = next]
          ELSE [@ EXCEPT !.next = next, !.attempted = at, !.status = status,
                         !.failures = 0]]
    /\ origin' = [origin EXCEPT ![t].at = at]
    /\ Unlock(s) /\ Idle(s)

\* Mutant: the transaction commits before the schedule is advanced
DispatchGroupHalf(s) ==
    /\ scheduler[s].target \in Groups /\ scheduler[s].step = "LOCKED"
    /\ Enqueue(scheduler[s].target, scheduler[s].at)
    /\ Unlock(s) /\ Idle(s)
    /\ UNCHANGED <<now, edit, schedule, origin, active, manual>>

\* The rest of the transaction: the run is inserted, the schedule advanced
DispatchGroup(s) ==
    /\ scheduler[s].target \in Groups /\ scheduler[s].step = "LOCKED"
    /\ Enqueue(scheduler[s].target, scheduler[s].at)
    /\ Advance(s, "DISPATCHED")
    /\ UNCHANGED <<now, edit, active, manual>>

\* findNextDueCandidate takes no lock
FindFeed(s, p) ==
    /\ s \in FeedSchedulers /\ scheduler[s].step = "BEGUN" /\ First(s, p)
    /\ Become(s, [scheduler[s] EXCEPT !.step = "FOUND", !.target = p,
                                      !.expected = schedule[p].next])
    /\ UNCHANGED <<now, schedule, owner, edit, origin>> /\ UNCHANGED runVars

\* The condition of every statement that follows the lookup
Current(s) ==
    /\ Due(scheduler[s].target, scheduler[s].at)
    /\ schedule[scheduler[s].target].next = scheduler[s].expected

\* The profile was looked up; a statement waits for the lock of the row
Answered(s) == scheduler[s].step = "FOUND" /\ owner[scheduler[s].target] = Null

RaceLost(s) ==
    /\ scheduler[s].step = "FOUND" /\ ~Current(s)
    /\ Idle(s)
    /\ UNCHANGED <<now, schedule, owner, edit, origin>> /\ UNCHANGED runVars

\* What recordProfileNotFound and recordProfileLookupFailed write in common
Unanswered(s, status) ==
    [schedule[scheduler[s].target] EXCEPT
        !.attempted = scheduler[s].at, !.status = status, !.failures = @ + 1]

ProfileMissing(s) ==
    /\ Answered(s) /\ Current(s)
    /\ schedule' = [schedule EXCEPT ![scheduler[s].target] =
          [Unanswered(s, "NOT_FOUND") EXCEPT !.enabled = FALSE]]
    /\ Idle(s)
    /\ UNCHANGED <<now, owner, edit, origin>> /\ UNCHANGED runVars

LookupFails(s) ==
    /\ Answered(s) /\ Current(s)
    /\ schedule' = [schedule EXCEPT ![scheduler[s].target] = Unanswered(s, "LOOKUP_FAILED")]
    /\ Idle(s)
    /\ UNCHANGED <<now, owner, edit, origin>> /\ UNCHANGED runVars

\* SELECT ... FOR UPDATE of the expected row
SelectFeed(s) ==
    /\ Answered(s) /\ Current(s)
    /\ LockRow(s, scheduler[s].target)
    /\ Become(s, [scheduler[s] EXCEPT !.step = "LOCKED"])
    /\ UNCHANGED <<now, schedule, edit, origin>> /\ UNCHANGED runVars

\* Mutant: a skipped boundary is tried again
SkipActiveRunAgain(s) ==
    /\ scheduler[s].target \in Profiles
    /\ scheduler[s].step \in {"LOCKED", "CONFLICTED"}
    /\ active[scheduler[s].target] > 0
    /\ Unlock(s) /\ Idle(s)
    /\ UNCHANGED <<now, edit, schedule, origin>> /\ UNCHANGED runVars

\* An active run was found, at once or after the insert conflicted
SkipActiveRun(s) ==
    /\ scheduler[s].target \in Profiles
    /\ scheduler[s].step \in {"LOCKED", "CONFLICTED"}
    /\ active[scheduler[s].target] > 0
    /\ Advance(s, "SKIPPED")
    /\ UNCHANGED <<now, edit>> /\ UNCHANGED runVars

NoActiveRun(s) ==
    /\ scheduler[s].target \in Profiles /\ scheduler[s].step = "LOCKED"
    /\ active[scheduler[s].target] = 0
    /\ Become(s, [scheduler[s] EXCEPT !.step = "INSERTING"])
    /\ UNCHANGED <<now, schedule, owner, edit, origin>> /\ UNCHANGED runVars

DispatchFeed(s) ==
    /\ scheduler[s].step = "INSERTING" /\ active[scheduler[s].target] = 0
    /\ Enqueue(scheduler[s].target, scheduler[s].at)
    /\ active' = [active EXCEPT ![scheduler[s].target] = @ + 1]
    /\ Advance(s, "DISPATCHED")
    /\ UNCHANGED <<now, edit, manual>>

\* ON CONFLICT DO NOTHING: a run was requested since the active runs were read
InsertConflicts(s) ==
    /\ scheduler[s].step = "INSERTING" /\ active[scheduler[s].target] > 0
    /\ Become(s, [scheduler[s] EXCEPT !.step = "CONFLICTED"])
    /\ UNCHANGED <<now, schedule, owner, edit, origin>> /\ UNCHANGED runVars

\* The transaction is rolled back, the error ends the process
Quit(s) ==
    /\ Unlock(s)
    /\ Become(s, [IdleScheduler EXCEPT !.step = "EXITED"])
    /\ UNCHANGED <<now, schedule, edit, origin>> /\ UNCHANGED runVars

\* The run that conflicted has ended meanwhile
ConflictGone(s) ==
    /\ scheduler[s].step = "CONFLICTED" /\ active[scheduler[s].target] = 0
    /\ Quit(s)

\* The process is stopped or dies, or a statement fails.  A scheduler keeps no
\* state: one that is started again is another scheduler.
Crash(s) == s \in Mortal /\ scheduler[s].step # "EXITED" /\ Quit(s)

-----------------------------------------------------------------------------

Init ==
    /\ now = 0
    /\ schedule = [t \in Targets |-> NoSchedule]
    /\ \E deployed \in Deployments :
          scheduler = [s \in Schedulers |->
              IF s \in deployed THEN IdleScheduler
              ELSE [IdleScheduler EXCEPT !.step = "EXITED"]]
    /\ owner = [t \in Targets |-> Null]
    /\ active = [p \in Profiles |-> 0]
    /\ manual = 0
    /\ edit = [o \in Operators |-> Null]
    /\ queue = <<>>
    /\ origin = [t \in Targets |-> [version |-> 0, anchor |-> 0, at |-> Null]]

Outside ==
    \/ \E o \in Operators, t \in Targets : ReadSchedule(o, t)
    \/ \E o \in Operators, enabled \in BOOLEAN, interval \in Intervals, next \in Starts :
          SaveSchedule(o, enabled, interval, next)
    \/ \E p \in Profiles : RequestRun(p)
    \/ \E p \in Profiles : EndRun(p)

SchedulerStep(s) ==
    \/ Begin(s)
    \/ NothingDue(s)
    \/ \E g \in Groups : SelectGroup(s, g)
    \/ DispatchGroup(s)
    \/ \E p \in Profiles : FindFeed(s, p)
    \/ RaceLost(s)
    \/ ProfileMissing(s)
    \/ LookupFails(s)
    \/ SelectFeed(s)
    \/ SkipActiveRun(s)
    \/ NoActiveRun(s)
    \/ DispatchFeed(s)
    \/ InsertConflicts(s)
    \/ ConflictGone(s)

Next ==
    \/ Tick
    \/ Outside
    \/ \E s \in Schedulers : SchedulerStep(s) \/ Crash(s)

Spec == Init /\ [][Next]_vars

\* A scheduler that is alive polls; nothing restarts one that ended
FairSpec == Spec /\ \A s \in Schedulers : WF_vars(SchedulerStep(s))

-----------------------------------------------------------------------------
(* Properties *)

\* Types of the rows, of the processes and of the histories.
TypeOK ==
    /\ now \in 0 .. MaxTime
    /\ schedule \in [Targets -> Schedule]
    /\ scheduler \in [Schedulers -> Scheduler]
    /\ owner \in [Targets -> Schedulers \cup {Null}]
    /\ active \in [Profiles -> Nat] /\ manual \in 0 .. MaxManual
    /\ edit \in [Operators -> [target : Targets, seen : Schedule] \cup {Null}]
    /\ queue \in Seq([target : Targets, due : Nat, at : Nat, version : Nat])
    /\ origin \in [Targets -> [version : Nat, anchor : Nat, at : Nat \cup {Null}]]

\* Missed boundaries never burst and no boundary is dispatched twice, however
\* many schedulers race, are late or die: unless the operator saved the schedule
\* again, a run is due only after the dispatch of the run queued before it.
MissedBoundariesCollapse ==
    \A i, j \in DOMAIN queue :
        i < j /\ queue[i].target = queue[j].target /\ queue[i].version = queue[j].version
        => queue[i].at < queue[j].due

\* Late dispatches and skips do not make a schedule drift from the time its
\* operator chose, and they pass over no boundary that is still to come: the next
\* run is at the first boundary after the last dispatch or skip.
OnCadence ==
    \A t \in Targets : origin[t].version > 0 =>
        LET row == schedule[t] IN
        /\ \E k \in 0 .. row.next : row.next = origin[t].anchor + k * row.interval
        /\ origin[t].at # Null =>
              row.next - row.interval <= origin[t].at /\ origin[t].at < row.next

\* As long as a scheduler of its kind is alive, a due schedule is not left
\* behind: it is advanced past the clock, disabled or waiting for its next try.
DueSchedulesAdvance ==
    \A t \in Targets :
        Due(t, now) ~> \/ ~Due(t, now) \/ schedule[t].status = "LOOKUP_FAILED"
                      \/ ~Served(t)
=============================================================================
