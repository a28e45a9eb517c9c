-------------------------- MODULE SchedulesProofs ---------------------------
(***************************************************************************)
(* Theorems of Schedules, for any number of schedules, schedulers and      *)
(* operators, any intervals and any clock.                                 *)
(*                                                                         *)
(* A scheduler that is about to advance a row has locked it and read it    *)
(* due, and no step changes a locked row: that makes read and advance one  *)
(* step.  A run that was queued since the last save was queued before the  *)
(* row's next boundary, so the next one is due only afterwards.            *)
(***************************************************************************)
EXTENDS Schedules, TLAPS

Holding == {"LOCKED", "INSERTING", "CONFLICTED"}

\* What the step of a scheduler says of the row it works on
Fits(s) ==
    /\ scheduler[s].step \in Holding \cup {"FOUND"} => scheduler[s].target \in Targets
    /\ scheduler[s].step \in Holding =>
          /\ owner[scheduler[s].target] = s
          /\ schedule[scheduler[s].target].next <= scheduler[s].at

\* The runs queued so far against the rows they were queued for
QueuedBefore ==
    \A i \in DOMAIN queue :
        /\ queue[i].version <= origin[queue[i].target].version
        /\ queue[i].version = origin[queue[i].target].version =>
              queue[i].at < schedule[queue[i].target].next

Inv ==
    /\ TypeOK
    /\ \A s \in Schedulers : Fits(s)
    /\ QueuedBefore
    /\ MissedBoundariesCollapse
    /\ OnCadence

-----------------------------------------------------------------------------
(* The cadence *)

LEMMA Multiples ==
    ASSUME NEW k \in Nat, NEW interval \in Nat \ {0}
    PROVE  k * interval \in Nat /\ k <= k * interval
<1>1. PICK j \in Nat : interval = j + 1
  BY SMT
<1>2. k * interval = k * j + k
  BY <1>1
<1>3. k * j \in Nat
  OBVIOUS
<1> QED BY <1>2, <1>3

\* The next boundary is a whole number of intervals later, and the first one
\* after the time of the dispatch.
LEMMA Boundary ==
    ASSUME NEW previous \in Nat, NEW interval \in Nat \ {0}, NEW at \in Nat,
           previous <= at
    PROVE  /\ NextBoundary(previous, interval, at) \in Nat
           /\ \E q \in Nat : NextBoundary(previous, interval, at)
                                = previous + (q + 1) * interval
           /\ NextBoundary(previous, interval, at) - interval <= at
           /\ at < NextBoundary(previous, interval, at)
<1> DEFINE q == (at - previous) \div interval
<1>1. q \in Nat /\ q * interval <= at - previous /\ at - previous < (q + 1) * interval
  OBVIOUS
<1>2. (q + 1) * interval = q * interval + interval
  BY <1>1
<1>3. NextBoundary(previous, interval, at) = previous + (q + 1) * interval
  BY DEF NextBoundary
<1> HIDE DEF q
<1>4. q * interval \in Nat
  BY <1>1
<1> QED BY <1>1, <1>2, <1>3, <1>4

\* A schedule that was at a multiple of its interval is at a later one.
LEMMA Grid ==
    ASSUME NEW anchor \in Nat, NEW interval \in Nat \ {0}, NEW k \in Nat, NEW q \in Nat,
           NEW next \in Nat, next = anchor + k * interval
    PROVE  \E j \in 0 .. next + (q + 1) * interval :
               next + (q + 1) * interval = anchor + j * interval
<1> DEFINE j == k + q + 1
<1>1. next + (q + 1) * interval = anchor + j * interval
  OBVIOUS
<1>2. j \in Nat
  OBVIOUS
<1> HIDE DEF j
<1>3. j * interval \in Nat /\ j <= j * interval
  BY <1>2, Multiples
<1>4. j \in 0 .. anchor + j * interval
  BY <1>2, <1>3
<1> QED BY <1>1, <1>4

-----------------------------------------------------------------------------
LEMMA Initially == Init => Inv
<1> SUFFICES ASSUME Init PROVE Inv
  OBVIOUS
<1>1. IdleScheduler \in Scheduler /\ NoSchedule \in Schedule
  BY DEF IdleScheduler, Scheduler, NoSchedule, Schedule
<1>2. [IdleScheduler EXCEPT !.step = "EXITED"] \in Scheduler
  BY DEF IdleScheduler, Scheduler
<1>3. \A s \in Schedulers :
          scheduler[s] \in Scheduler /\ scheduler[s].step \in {"IDLE", "EXITED"}
  BY <1>1, <1>2 DEF Init, IdleScheduler
<1>4. TypeOK
  BY <1>1, <1>2, SchedulesBounds DEF Init, TypeOK
<1>5. \A s \in Schedulers : Fits(s)
  BY <1>3 DEF Fits, Holding
<1>6. QueuedBefore /\ MissedBoundariesCollapse /\ OnCadence
  BY DEF Init, QueuedBefore, MissedBoundariesCollapse, OnCadence
<1> QED BY <1>4, <1>5, <1>6 DEF Inv

LEMMA Elements ==
    ASSUME NEW S, NEW q \in Seq(S), NEW i \in DOMAIN q
    PROVE  q[i] \in S
OBVIOUS

LEMMA QueuedTyped ==
    ASSUME Inv, NEW i \in DOMAIN queue
    PROVE  /\ queue[i].target \in Targets
           /\ queue[i].version \in Nat /\ queue[i].due \in Nat /\ queue[i].at \in Nat
<1> DEFINE Entries == [target : Targets, due : Nat, at : Nat, version : Nat]
<1>1. queue \in Seq(Entries)
  BY DEF Inv, TypeOK
<1>2. queue[i] \in Entries
  <2> HIDE DEF Entries
  <2> QED BY <1>1, Elements
<1> QED BY <1>2

\* What only depends on the queue and on the boundaries of the rows
LEMMA Undisturbed ==
    ASSUME Inv, queue' = queue, origin' = origin,
           \A t \in Targets : /\ schedule'[t].next = schedule[t].next
                              /\ schedule'[t].interval = schedule[t].interval
    PROVE  QueuedBefore' /\ MissedBoundariesCollapse' /\ OnCadence'
<1>1. \A i \in DOMAIN queue : queue[i].target \in Targets
  BY QueuedTyped
<1>2. QueuedBefore'
  BY <1>1 DEF Inv, QueuedBefore
<1>3. MissedBoundariesCollapse'
  BY DEF Inv, MissedBoundariesCollapse
<1>4. OnCadence'
  BY DEF Inv, OnCadence
<1> QED BY <1>2, <1>3, <1>4

\* A step of one scheduler that moves no boundary and takes no lock away
LEMMA Working ==
    ASSUME Inv, NEW s \in Schedulers, NEW new \in Scheduler, Become(s, new),
           UNCHANGED <<now, edit, origin>>, UNCHANGED runVars,
           schedule' \in [Targets -> Schedule],
           owner' \in [Targets -> Schedulers \cup {Null}],
           \A t \in Targets : /\ schedule'[t].next = schedule[t].next
                              /\ schedule'[t].interval = schedule[t].interval,
           \A t \in Targets, u \in Schedulers : u # s /\ owner[t] = u => owner'[t] = u,
           new.step \in Holding \cup {"FOUND"} => new.target \in Targets,
           new.step \in Holding => /\ owner'[new.target] = s
                                   /\ schedule[new.target].next <= new.at
    PROVE  Inv'
<1>1. scheduler' = [scheduler EXCEPT ![s] = new]
  BY DEF Become
<1>2. active' = active /\ manual' = manual /\ queue' = queue
  BY DEF runVars
<1>3. TypeOK'
  BY <1>1, <1>2 DEF Inv, TypeOK
<1>4. scheduler'[s] = new /\ \A u \in Schedulers : u # s => scheduler'[u] = scheduler[u]
  BY <1>1 DEF Inv, TypeOK
<1>5. ASSUME NEW u \in Schedulers PROVE Fits(u)'
  <2>1. CASE u = s
    BY <2>1, <1>4 DEF Fits, Holding
  <2>2. CASE u # s
    BY <2>2, <1>4 DEF Inv, Fits, Holding
  <2> QED BY <2>1, <2>2
<1>6. QueuedBefore' /\ MissedBoundariesCollapse' /\ OnCadence'
  BY <1>2, Undisturbed
<1> QED BY <1>3, <1>5, <1>6 DEF Inv

\* A step of somebody else that leaves rows, locks and schedulers alone
LEMMA Aside ==
    ASSUME Inv, TypeOK', UNCHANGED <<schedule, scheduler, owner, origin, queue>>
    PROVE  Inv'
<1>1. \A u \in Schedulers : Fits(u)'
  BY DEF Inv, Fits
<1>2. QueuedBefore' /\ MissedBoundariesCollapse' /\ OnCadence'
  BY Undisturbed
<1> QED BY <1>1, <1>2 DEF Inv

-----------------------------------------------------------------------------
(* The states and rows that the actions write *)

LEMMA NullApart ==
    /\ Null \notin Targets /\ Null \notin Schedulers /\ Null \notin Nat
BY SchedulesNull

LEMMA Idling ==
    /\ IdleScheduler \in Scheduler /\ IdleScheduler.step = "IDLE"
    /\ [IdleScheduler EXCEPT !.step = "EXITED"] \in Scheduler
    /\ [IdleScheduler EXCEPT !.step = "EXITED"].step = "EXITED"
BY DEF IdleScheduler, Scheduler

LEMMA Beginning ==
    ASSUME NEW at \in Nat
    PROVE  /\ [IdleScheduler EXCEPT !.step = "BEGUN", !.at = at] \in Scheduler
           /\ [IdleScheduler EXCEPT !.step = "BEGUN", !.at = at].step = "BEGUN"
BY DEF IdleScheduler, Scheduler

LEMMA Stepping ==
    ASSUME NEW old \in Scheduler, NEW step \in Holding
    PROVE  /\ [old EXCEPT !.step = step] \in Scheduler
           /\ [old EXCEPT !.step = step].step = step
           /\ [old EXCEPT !.step = step].target = old.target
           /\ [old EXCEPT !.step = step].at = old.at
BY DEF Scheduler, Holding

LEMMA Selecting ==
    ASSUME NEW old \in Scheduler, NEW t \in Targets
    PROVE  /\ [old EXCEPT !.step = "LOCKED", !.target = t] \in Scheduler
           /\ [old EXCEPT !.step = "LOCKED", !.target = t].step = "LOCKED"
           /\ [old EXCEPT !.step = "LOCKED", !.target = t].target = t
           /\ [old EXCEPT !.step = "LOCKED", !.target = t].at = old.at
BY DEF Scheduler

LEMMA Finding ==
    ASSUME NEW old \in Scheduler, NEW t \in Targets, NEW expected \in Nat
    PROVE  LET new == [old EXCEPT !.step = "FOUND", !.target = t, !.expected = expected]
           IN  new \in Scheduler /\ new.step = "FOUND" /\ new.target = t
BY DEF Scheduler

LEMMA Recording ==
    ASSUME NEW s \in Schedulers, scheduler[s].at \in Nat,
           schedule[scheduler[s].target] \in Schedule,
           NEW status \in {"NOT_FOUND", "LOOKUP_FAILED"}
    PROVE  /\ Unanswered(s, status) \in Schedule
           /\ Unanswered(s, status).next = schedule[scheduler[s].target].next
           /\ Unanswered(s, status).interval = schedule[scheduler[s].target].interval
<1> DEFINE old == schedule[scheduler[s].target]
<1>1. old \in Schedule /\ old.failures + 1 \in Nat
      /\ scheduler[s].at \in Nat \cup {Null}
  BY DEF Schedule
<1>2. Unanswered(s, status) = [old EXCEPT !.attempted = scheduler[s].at,
                                          !.status = status,
                                          !.failures = old.failures + 1]
  BY DEF Unanswered
<1> HIDE DEF old
<1>3. Unanswered(s, status) \in Schedule
  BY <1>1, <1>2 DEF Schedule
<1>4. Unanswered(s, status).next = old.next /\ Unanswered(s, status).interval = old.interval
  BY <1>1, <1>2 DEF Schedule
<1> QED BY <1>3, <1>4 DEF old

LEMMA Disabling ==
    ASSUME NEW old \in Schedule
    PROVE  LET new == [old EXCEPT !.enabled = FALSE]
           IN  new \in Schedule /\ new.next = old.next /\ new.interval = old.interval
BY DEF Schedule

LEMMA AdvancingGroup ==
    ASSUME NEW old \in Schedule, NEW next \in Nat
    PROVE  LET new == [old EXCEPT !.next = next]
           IN  new \in Schedule /\ new.next = next /\ new.interval = old.interval
BY DEF Schedule

\* Unlocking takes the locks of the scheduler, and of nobody else.
LEMMA Unlocking ==
    ASSUME Inv, NEW s \in Schedulers, Unlock(s)
    PROVE  /\ owner' \in [Targets -> Schedulers \cup {Null}]
           /\ \A t \in Targets, u \in Schedulers : u # s /\ owner[t] = u => owner'[t] = u
BY DEF Inv, TypeOK, Unlock

LEMMA Locking ==
    ASSUME Inv, NEW s \in Schedulers, NEW t \in Targets, owner[t] = Null, LockRow(s, t)
    PROVE  /\ owner' \in [Targets -> Schedulers \cup {Null}] /\ owner'[t] = s
           /\ \A r \in Targets, u \in Schedulers : u # s /\ owner[r] = u => owner'[r] = u
BY NullApart DEF Inv, TypeOK, LockRow

LEMMA RowsTyped ==
    ASSUME Inv, NEW s \in Schedulers
    PROVE  /\ scheduler[s] \in Scheduler /\ scheduler[s].at \in Nat
           /\ \A t \in Targets : schedule[t] \in Schedule /\ schedule[t].next \in Nat
           /\ owner \in [Targets -> Schedulers \cup {Null}]
           /\ schedule \in [Targets -> Schedule]
BY DEF Inv, TypeOK, Scheduler, Schedule

-----------------------------------------------------------------------------
(* The steps of a scheduler that move no boundary *)

LEMMA BeginKeeps == ASSUME Inv, NEW s \in Schedulers, Begin(s) PROVE Inv'
<1> DEFINE new == [IdleScheduler EXCEPT !.step = "BEGUN", !.at = now]
<1>1. now \in Nat
  BY SchedulesBounds DEF Inv, TypeOK
<1>2. new \in Scheduler /\ new.step = "BEGUN"
  BY <1>1, Beginning
<1>3. /\ Become(s, new) /\ UNCHANGED <<now, schedule, owner, edit, origin>>
      /\ UNCHANGED runVars
  BY DEF Begin
<1> HIDE DEF new
<1> QED BY <1>2, <1>3, RowsTyped, Working DEF Holding

LEMMA IdleKeeps ==
    ASSUME Inv, NEW s \in Schedulers, NothingDue(s) \/ RaceLost(s)
    PROVE  Inv'
<1>1. /\ Become(s, IdleScheduler) /\ UNCHANGED <<now, schedule, owner, edit, origin>>
      /\ UNCHANGED runVars
  BY DEF NothingDue, RaceLost, Idle
<1> QED BY <1>1, Idling, RowsTyped, Working DEF Holding

LEMMA FindFeedKeeps ==
    ASSUME Inv, NEW s \in Schedulers, NEW p \in Profiles, FindFeed(s, p)
    PROVE  Inv'
<1> DEFINE new == [scheduler[s] EXCEPT !.step = "FOUND", !.target = p,
                                       !.expected = schedule[p].next]
<1>1. p \in Targets
  BY DEF Targets
<1>2. new \in Scheduler /\ new.step = "FOUND" /\ new.target = p
  <2>1. scheduler[s] \in Scheduler /\ schedule[p].next \in Nat
    BY <1>1, RowsTyped
  <2> QED BY <1>1, <2>1, Finding
<1>3. /\ Become(s, new) /\ UNCHANGED <<now, schedule, owner, edit, origin>>
      /\ UNCHANGED runVars
  BY DEF FindFeed
<1> HIDE DEF new
<1> QED BY <1>1, <1>2, <1>3, RowsTyped, Working DEF Holding

LEMMA SelectGroupKeeps ==
    ASSUME Inv, NEW s \in Schedulers, NEW g \in Groups, SelectGroup(s, g)
    PROVE  Inv'
<1> DEFINE new == [scheduler[s] EXCEPT !.step = "LOCKED", !.target = g]
<1>1. g \in Targets
  BY DEF Targets
<1>2. new \in Scheduler /\ new.step = "LOCKED" /\ new.target = g
      /\ new.at = scheduler[s].at
  BY <1>1, RowsTyped, Selecting
<1>3. /\ Become(s, new) /\ UNCHANGED <<now, schedule, edit, origin>>
      /\ UNCHANGED runVars /\ LockRow(s, g)
  BY DEF SelectGroup
<1>4. owner[g] = Null /\ schedule[g].next <= scheduler[s].at
  BY DEF SelectGroup, First, Candidates, Due
<1>5. /\ owner' \in [Targets -> Schedulers \cup {Null}] /\ owner'[g] = s
      /\ \A r \in Targets, u \in Schedulers : u # s /\ owner[r] = u => owner'[r] = u
  BY <1>1, <1>3, <1>4, Locking
<1> HIDE DEF new
<1> QED BY <1>1, <1>2, <1>3, <1>4, <1>5, RowsTyped, Working DEF Holding

LEMMA SelectFeedKeeps ==
    ASSUME Inv, NEW s \in Schedulers, SelectFeed(s)
    PROVE  Inv'
<1> DEFINE t == scheduler[s].target
           new == [scheduler[s] EXCEPT !.step = "LOCKED"]
<1>1. t \in Targets /\ owner[t] = Null /\ schedule[t].next <= scheduler[s].at
  BY DEF Inv, Fits, SelectFeed, Answered, Current, Due
<1>2. new \in Scheduler /\ new.step = "LOCKED" /\ new.target = t
      /\ new.at = scheduler[s].at
  BY RowsTyped, Stepping DEF Holding
<1>3. /\ Become(s, new) /\ UNCHANGED <<now, schedule, edit, origin>>
      /\ UNCHANGED runVars /\ LockRow(s, t)
  BY DEF SelectFeed
<1> HIDE DEF new, t
<1>5. /\ owner' \in [Targets -> Schedulers \cup {Null}] /\ owner'[t] = s
      /\ \A r \in Targets, u \in Schedulers : u # s /\ owner[r] = u => owner'[r] = u
  BY <1>1, <1>3, Locking
<1> QED BY <1>1, <1>2, <1>3, <1>5, RowsTyped, Working DEF Holding

\* The same lock is held on with another step
LEMMA HoldingOn ==
    ASSUME Inv, NEW s \in Schedulers, NoActiveRun(s) \/ InsertConflicts(s)
    PROVE  Inv'
<1>1. PICK step \in Holding :
          Become(s, [scheduler[s] EXCEPT !.step = step])
  BY DEF NoActiveRun, InsertConflicts, Holding
<1> DEFINE new == [scheduler[s] EXCEPT !.step = step]
<1>2. /\ UNCHANGED <<now, schedule, owner, edit, origin>> /\ UNCHANGED runVars
      /\ scheduler[s].step \in Holding
  BY DEF NoActiveRun, InsertConflicts, Holding
<1>3. new \in Scheduler /\ new.step = step /\ new.target = scheduler[s].target
      /\ new.at = scheduler[s].at
  BY RowsTyped, Stepping
<1>4. /\ scheduler[s].target \in Targets /\ owner[scheduler[s].target] = s
      /\ schedule[scheduler[s].target].next <= scheduler[s].at
  BY <1>2 DEF Inv, Fits
<1> HIDE DEF new
<1>5. Become(s, new)
  BY <1>1 DEF new
<1> QED BY <1>2, <1>3, <1>4, <1>5, RowsTyped, Working

LEMMA QuitKeeps == ASSUME Inv, NEW s \in Schedulers, Quit(s) PROVE Inv'
<1>1. /\ Become(s, [IdleScheduler EXCEPT !.step = "EXITED"])
      /\ UNCHANGED <<now, schedule, edit, origin>> /\ UNCHANGED runVars /\ Unlock(s)
  BY DEF Quit
<1>2. /\ owner' \in [Targets -> Schedulers \cup {Null}]
      /\ \A t \in Targets, u \in Schedulers : u # s /\ owner[t] = u => owner'[t] = u
  BY <1>1, Unlocking
<1> QED BY <1>1, <1>2, Idling, RowsTyped, Working DEF Holding

\* The answer to a lookup is recorded; the boundary stays
LEMMA LookupKeeps ==
    ASSUME Inv, NEW s \in Schedulers, ProfileMissing(s) \/ LookupFails(s)
    PROVE  Inv'
<1> DEFINE t == scheduler[s].target
<1>1. t \in Targets
  BY DEF Inv, Fits, ProfileMissing, LookupFails, Answered
<1>2. PICK new \in Schedule : /\ new.next = schedule[t].next
                              /\ new.interval = schedule[t].interval
                              /\ schedule' = [schedule EXCEPT ![t] = new]
  <2> /\ scheduler[s].at \in Nat /\ schedule[t] \in Schedule
    BY <1>1, RowsTyped
  <2>1. CASE ProfileMissing(s)
    <3>1. /\ Unanswered(s, "NOT_FOUND") \in Schedule
          /\ Unanswered(s, "NOT_FOUND").next = schedule[t].next
          /\ Unanswered(s, "NOT_FOUND").interval = schedule[t].interval
      BY Recording
    <3>2. schedule' = [schedule EXCEPT ![t] =
                          [Unanswered(s, "NOT_FOUND") EXCEPT !.enabled = FALSE]]
      BY <2>1 DEF ProfileMissing
    <3> QED BY <3>1, <3>2, Disabling
  <2>2. CASE LookupFails(s)
    <3>1. /\ Unanswered(s, "LOOKUP_FAILED") \in Schedule
          /\ Unanswered(s, "LOOKUP_FAILED").next = schedule[t].next
          /\ Unanswered(s, "LOOKUP_FAILED").interval = schedule[t].interval
      BY Recording
    <3>2. schedule' = [schedule EXCEPT ![t] = Unanswered(s, "LOOKUP_FAILED")]
      BY <2>2 DEF LookupFails
    <3> QED BY <3>1, <3>2
  <2> QED BY <2>1, <2>2
<1>3. /\ Become(s, IdleScheduler) /\ UNCHANGED <<now, owner, edit, origin>>
      /\ UNCHANGED runVars
  BY DEF ProfileMissing, LookupFails, Idle
<1> HIDE DEF t
<1>4. /\ schedule' \in [Targets -> Schedule]
      /\ \A r \in Targets : /\ schedule'[r].next = schedule[r].next
                            /\ schedule'[r].interval = schedule[r].interval
  BY <1>1, <1>2, RowsTyped
<1> QED BY <1>3, <1>4, Idling, RowsTyped, Working DEF Holding

-----------------------------------------------------------------------------
(* The end of a dispatch *)

\* The row an advance leaves and what it says of the boundary
LEMMA Advanced ==
    ASSUME Inv, NEW s \in Schedulers, scheduler[s].step \in Holding,
           NEW status \in {"DISPATCHED", "SKIPPED"}, Advance(s, status)
    PROVE  \E new \in Schedule :
               LET t == scheduler[s].target
                   at == scheduler[s].at
               IN  /\ t \in Targets /\ schedule[t].next <= at
                   /\ schedule' = [schedule EXCEPT ![t] = new]
                   /\ origin' = [origin EXCEPT ![t].at = at]
                   /\ new.interval = schedule[t].interval
                   /\ \E q \in Nat :
                         new.next = schedule[t].next + (q + 1) * new.interval
                   /\ new.next - new.interval <= at /\ at < new.next
<1> DEFINE t == scheduler[s].target
           at == scheduler[s].at
           next == NextRun(schedule[t], at)
<1>1. t \in Targets /\ schedule[t].next <= at
  BY DEF Inv, Fits
<1>2. at \in Nat /\ schedule[t] \in Schedule
  BY <1>1, RowsTyped
<1>3. schedule[t].next \in Nat /\ schedule[t].interval \in Nat \ {0}
  BY <1>2 DEF Schedule
<1>4. /\ next \in Nat
      /\ \E q \in Nat : next = schedule[t].next + (q + 1) * schedule[t].interval
      /\ next - schedule[t].interval <= at /\ at < next
  <2> HIDE DEF t, at
  <2> QED BY <1>1, <1>2, <1>3, Boundary DEF NextRun
<1>5. schedule' = [schedule EXCEPT ![t] =
          IF t \in Groups THEN [schedule[t] EXCEPT !.next = next]
          ELSE [schedule[t] EXCEPT !.next = next, !.attempted = at,
                                   !.status = status, !.failures = 0]]
  BY DEF Advance
<1>6. origin' = [origin EXCEPT ![t].at = at]
  BY DEF Advance
<1> HIDE DEF t, at, next
<1>7. PICK new \in Schedule : /\ schedule' = [schedule EXCEPT ![t] = new]
                              /\ new.next = next
                              /\ new.interval = schedule[t].interval
  <2>1. CASE t \in Groups
    BY <2>1, <1>2, <1>4, <1>5, AdvancingGroup
  <2>2. CASE t \notin Groups
    <3> DEFINE new == [schedule[t] EXCEPT !.next = next, !.attempted = at,
                                          !.status = status, !.failures = 0]
    <3>1. new \in Schedule /\ new.next = next /\ new.interval = schedule[t].interval
      <4>1. schedule[t] \in Schedule
        BY <1>2
      <4>2. next \in Nat
        BY <1>4
      <4>3. at \in Nat
        BY <1>2
      <4>4. status \in {"DISPATCHED", "SKIPPED"}
        OBVIOUS
      <4> QED BY <4>1, <4>2, <4>3, <4>4 DEF Schedule
    <3>2. schedule' = [schedule EXCEPT ![t] = new]
      BY <2>2, <1>5
    <3> HIDE DEF new
    <3> QED BY <3>1, <3>2
  <2> QED BY <2>1, <2>2
<1> QED BY <1>1, <1>4, <1>6, <1>7 DEF t, at

\* A dispatch or a skip: the queue may have got one run more.
LEMMA AdvanceKeeps ==
    ASSUME Inv, NEW s \in Schedulers, scheduler[s].step \in Holding,
           NEW status \in {"DISPATCHED", "SKIPPED"}, Advance(s, status),
           UNCHANGED <<now, edit, manual>>, active' \in [Profiles -> Nat],
           queue' = queue \/ Enqueue(scheduler[s].target, scheduler[s].at)
    PROVE  Inv'
<1> DEFINE t == scheduler[s].target
           at == scheduler[s].at
           entry == [target |-> t, due |-> schedule[t].next, at |-> at,
                     version |-> origin[t].version]
           Entries == [target : Targets, due : Nat, at : Nat, version : Nat]
<1>1. PICK new \in Schedule :
          /\ t \in Targets /\ schedule[t].next <= at
          /\ schedule' = [schedule EXCEPT ![t] = new]
          /\ origin' = [origin EXCEPT ![t].at = at]
          /\ new.interval = schedule[t].interval
          /\ \E q \in Nat : new.next = schedule[t].next + (q + 1) * new.interval
          /\ new.next - new.interval <= at /\ at < new.next
  BY Advanced
<1>2. Become(s, IdleScheduler) /\ Unlock(s)
  BY DEF Advance, Idle
<1>3. queue' = queue \/ queue' = Append(queue, entry)
  BY DEF Enqueue
<1>4. at \in Nat /\ schedule \in [Targets -> Schedule] /\ schedule[t] \in Schedule
  BY <1>1, RowsTyped
<1>5. /\ schedule[t].next \in Nat /\ schedule[t].interval \in Nat \ {0}
      /\ new.next \in Nat /\ new.interval \in Nat \ {0}
  BY <1>1, <1>4 DEF Schedule
<1>6. origin \in [Targets -> [version : Nat, anchor : Nat, at : Nat \cup {Null}]]
  BY DEF Inv, TypeOK
<1>7. /\ origin' \in [Targets -> [version : Nat, anchor : Nat, at : Nat \cup {Null}]]
      /\ origin'[t].version = origin[t].version
      /\ origin'[t].anchor = origin[t].anchor /\ origin'[t].at = at
      /\ \A r \in Targets : r # t => origin'[r] = origin[r]
  <2> HIDE DEF t, at
  <2> QED BY <1>1, <1>4, <1>6
<1>8. /\ schedule' \in [Targets -> Schedule] /\ schedule'[t] = new
      /\ \A r \in Targets : r # t => schedule'[r] = schedule[r]
  <2> HIDE DEF t, at
  <2> QED BY <1>1, <1>4
<1>9. entry \in Entries
  BY <1>1, <1>4, <1>5, <1>6
<1>10. queue \in Seq(Entries)
  BY DEF Inv, TypeOK
<1>11. queue' \in Seq(Entries)
  <2> HIDE DEF entry, Entries
  <2> QED BY <1>3, <1>9, <1>10
<1>12. scheduler' = [scheduler EXCEPT ![s] = IdleScheduler]
  BY <1>2 DEF Become
<1>13. /\ owner' \in [Targets -> Schedulers \cup {Null}]
       /\ \A r \in Targets, u \in Schedulers : u # s /\ owner[r] = u => owner'[r] = u
  BY <1>2, Unlocking
<1>14. TypeOK'
  BY <1>7, <1>8, <1>11, <1>12, <1>13, Idling DEF Inv, TypeOK
<1>15. /\ scheduler'[s] = IdleScheduler
       /\ \A u \in Schedulers : u # s => scheduler'[u] = scheduler[u]
  BY <1>12 DEF Inv, TypeOK
<1>16. owner[t] = s
  BY DEF Inv, Fits
<1>17. ASSUME NEW u \in Schedulers PROVE Fits(u)'
  <2>1. CASE u = s
    BY <2>1, <1>15, Idling DEF Fits, Holding
  <2>2. CASE u # s
    <3>1. scheduler'[u] = scheduler[u] /\ Fits(u)
      BY <2>2, <1>15 DEF Inv
    <3>2. scheduler[u].step \in Holding => scheduler[u].target # t
      BY <2>2, <3>1, <1>16 DEF Fits
    <3> HIDE DEF t, at, entry, Entries
    <3> QED BY <2>2, <3>1, <3>2, <1>8, <1>13 DEF Fits
  <2> QED BY <2>1, <2>2
<1>18. \A i \in DOMAIN queue' :
          \/ i \in DOMAIN queue /\ i < Len(queue) + 1 /\ queue'[i] = queue[i]
          \/ i = Len(queue) + 1 /\ queue'[i] = entry
  <2> HIDE DEF entry, Entries
  <2> QED BY <1>3, <1>9, <1>10
<1>19. /\ entry.target = t /\ entry.due = schedule[t].next /\ entry.at = at
       /\ entry.version = origin[t].version
  OBVIOUS
<1> HIDE DEF t, at, entry, Entries
<1>20. QueuedBefore'
  <2> SUFFICES ASSUME NEW i \in DOMAIN queue'
               PROVE  /\ queue'[i].version <= origin'[queue'[i].target].version
                      /\ queue'[i].version = origin'[queue'[i].target].version =>
                            queue'[i].at < schedule'[queue'[i].target].next
    BY DEF QueuedBefore
  <2>1. CASE i \in DOMAIN queue /\ queue'[i] = queue[i]
    <3>1. /\ queue[i].target \in Targets /\ queue[i].at \in Nat
          /\ queue[i].version <= origin[queue[i].target].version
          /\ queue[i].version = origin[queue[i].target].version =>
                queue[i].at < schedule[queue[i].target].next
      BY <2>1, QueuedTyped DEF Inv, QueuedBefore
    <3>2. CASE queue[i].target = t
      BY <2>1, <3>1, <3>2, <1>1, <1>4, <1>5, <1>7, <1>8
    <3>3. CASE queue[i].target # t
      BY <2>1, <3>1, <3>3, <1>7, <1>8
    <3> QED BY <3>2, <3>3
  <2>2. CASE queue'[i] = entry
    <3>1. origin[t].version \in Nat
      BY <1>1, <1>6
    <3> QED BY <2>2, <3>1, <1>1, <1>7, <1>8, <1>19
  <2> QED BY <2>1, <2>2, <1>18
<1>21. MissedBoundariesCollapse'
  <2> SUFFICES ASSUME NEW i \in DOMAIN queue', NEW j \in DOMAIN queue', i < j,
                      queue'[i].target = queue'[j].target,
                      queue'[i].version = queue'[j].version
               PROVE  queue'[i].at < queue'[j].due
    BY DEF MissedBoundariesCollapse
  <2>1. i \in DOMAIN queue /\ queue'[i] = queue[i]
    <3>1. i \in Nat /\ j \in Nat /\ Len(queue) \in Nat
      BY <1>10, <1>11
    <3> QED BY <3>1, <1>18
  <2>2. CASE j \in DOMAIN queue /\ queue'[j] = queue[j]
    BY <2>1, <2>2 DEF Inv, MissedBoundariesCollapse
  <2>3. CASE queue'[j] = entry
    BY <2>1, <2>3, <1>19 DEF Inv, QueuedBefore
  <2> QED BY <2>2, <2>3, <1>18
<1>22. OnCadence'
  <2> SUFFICES ASSUME NEW r \in Targets, origin'[r].version > 0
               PROVE  /\ \E k \in 0 .. schedule'[r].next :
                            schedule'[r].next
                               = origin'[r].anchor + k * schedule'[r].interval
                      /\ origin'[r].at # Null =>
                            /\ schedule'[r].next - schedule'[r].interval <= origin'[r].at
                            /\ origin'[r].at < schedule'[r].next
    BY DEF OnCadence
  <2>1. CASE r # t
    BY <2>1, <1>7, <1>8 DEF Inv, OnCadence
  <2>2. CASE r = t
    <3>1. PICK k \in 0 .. schedule[t].next :
              schedule[t].next = origin[t].anchor + k * schedule[t].interval
      BY <2>2, <1>7 DEF Inv, OnCadence
    <3>2. PICK q \in Nat : new.next = schedule[t].next + (q + 1) * new.interval
      BY <1>1
    <3>3. k \in Nat /\ origin[t].anchor \in Nat
      BY <1>1, <1>5, <1>6
    <3>4. \E j \in 0 .. new.next : new.next = origin[t].anchor + j * new.interval
      BY <3>1, <3>2, <3>3, <1>1, <1>5, Grid
    <3> QED BY <2>2, <3>4, <1>1, <1>7, <1>8
  <2> QED BY <2>1, <2>2
<1> QED BY <1>14, <1>17, <1>20, <1>21, <1>22 DEF Inv

LEMMA DispatchKeeps ==
    ASSUME Inv, NEW s \in Schedulers,
           DispatchGroup(s) \/ SkipActiveRun(s) \/ DispatchFeed(s)
    PROVE  Inv'
<1>1. active \in [Profiles -> Nat]
  BY DEF Inv, TypeOK
<1>2. CASE DispatchGroup(s)
  BY <1>1, <1>2, AdvanceKeeps DEF DispatchGroup, Holding
<1>3. CASE SkipActiveRun(s)
  BY <1>1, <1>3, AdvanceKeeps DEF SkipActiveRun, Holding, runVars
<1>4. CASE DispatchFeed(s)
  <2>1. active' \in [Profiles -> Nat]
    <3> DEFINE p == scheduler[s].target
    <3>1. active' = [active EXCEPT ![p] = active[p] + 1]
      BY <1>4 DEF DispatchFeed
    <3>2. active[p] = 0
      BY <1>4 DEF DispatchFeed
    <3> HIDE DEF p
    <3>3. active[p] + 1 \in Nat
      BY <3>2
    <3> QED BY <1>1, <3>1, <3>3
  <2> QED BY <1>4, <2>1, AdvanceKeeps DEF DispatchFeed, Holding
<1> QED BY <1>2, <1>3, <1>4

LEMMA SchedulerKeeps ==
    ASSUME Inv, NEW s \in Schedulers, SchedulerStep(s) \/ Crash(s)
    PROVE  Inv'
<1>1. CASE Begin(s)
  BY <1>1, BeginKeeps
<1>2. CASE NothingDue(s) \/ RaceLost(s)
  BY <1>2, IdleKeeps
<1>3. CASE \E g \in Groups : SelectGroup(s, g)
  BY <1>3, SelectGroupKeeps
<1>4. CASE \E p \in Profiles : FindFeed(s, p)
  BY <1>4, FindFeedKeeps
<1>5. CASE ProfileMissing(s) \/ LookupFails(s)
  BY <1>5, LookupKeeps
<1>6. CASE SelectFeed(s)
  BY <1>6, SelectFeedKeeps
<1>7. CASE NoActiveRun(s) \/ InsertConflicts(s)
  BY <1>7, HoldingOn
<1>8. CASE DispatchGroup(s) \/ SkipActiveRun(s) \/ DispatchFeed(s)
  BY <1>8, DispatchKeeps
<1>9. CASE ConflictGone(s) \/ Crash(s)
  BY <1>9, QuitKeeps DEF ConflictGone, Crash
<1> QED BY <1>1, <1>2, <1>3, <1>4, <1>5, <1>6, <1>7, <1>8, <1>9 DEF SchedulerStep

-----------------------------------------------------------------------------
(* The clock and the operators *)

LEMMA TickKeeps == ASSUME Inv, Tick PROVE Inv'
<1>1. TypeOK'
  BY SchedulesBounds DEF Inv, TypeOK, Tick, runVars
<1> QED BY <1>1, Aside DEF Tick, runVars

LEMMA ReadKeeps ==
    ASSUME Inv, NEW o \in Operators, NEW t \in Targets, ReadSchedule(o, t)
    PROVE  Inv'
<1>1. [target |-> t, seen |-> schedule[t]] \in [target : Targets, seen : Schedule]
  BY RowsTyped DEF Inv, TypeOK
<1>2. TypeOK'
  BY <1>1 DEF Inv, TypeOK, ReadSchedule, runVars
<1> QED BY <1>2, Aside DEF ReadSchedule, runVars

LEMMA RunsKeep ==
    ASSUME Inv, NEW p \in Profiles, RequestRun(p) \/ EndRun(p)
    PROVE  Inv'
<1>0. active \in [Profiles -> Nat] /\ manual \in 0 .. MaxManual /\ MaxManual \in Nat
  BY SchedulesBounds DEF Inv, TypeOK
<1>1. active' \in [Profiles -> Nat] /\ manual' \in 0 .. MaxManual
  <2>0. active[p] \in Nat
    BY <1>0
  <2>1. CASE RequestRun(p)
    <3>1. active' = [active EXCEPT ![p] = @ + 1] /\ manual' = manual + 1 /\ manual < MaxManual
      BY <2>1 DEF RequestRun
    <3> QED BY <1>0, <2>0, <3>1
  <2>2. CASE EndRun(p)
    <3>1. active' = [active EXCEPT ![p] = @ - 1] /\ manual' = manual /\ active[p] > 0
      BY <2>2 DEF EndRun
    <3> QED BY <1>0, <2>0, <3>1
  <2> QED BY <2>1, <2>2
<1>2. TypeOK'
  BY <1>1 DEF Inv, TypeOK, RequestRun, EndRun
<1> QED BY <1>2, Aside DEF RequestRun, EndRun

\* A save waits for the row lock, so no scheduler is about to advance the row,
\* and starts a new version, so it takes nothing back that was queued.
LEMMA SaveKeeps ==
    ASSUME Inv, NEW o \in Operators, NEW enabled \in BOOLEAN, NEW interval \in Intervals,
           NEW next \in Starts, SaveSchedule(o, enabled, interval, next)
    PROVE  Inv'
<1> DEFINE t == edit[o].target
           new == [edit[o].seen EXCEPT !.enabled = enabled, !.interval = interval,
                                       !.next = next]
           mark == [version |-> origin[t].version + 1, anchor |-> next, at |-> Null]
<1>1. interval \in Nat \ {0} /\ next \in Nat
  BY SchedulesIntervals
<1>2. t \in Targets /\ edit[o].seen \in Schedule /\ owner[t] = Null
  <2>1. edit[o] \in [target : Targets, seen : Schedule] \cup {Null}
    BY DEF Inv, TypeOK
  <2>2. edit[o] # Null /\ owner[t] = Null
    BY DEF SaveSchedule
  <2>3. edit[o] \in [target : Targets, seen : Schedule]
    BY <2>1, <2>2
  <2> QED BY <2>2, <2>3
<1>3. new \in Schedule /\ new.next = next /\ new.interval = interval
  <2> DEFINE seen == edit[o].seen
  <2>1. seen \in Schedule /\ enabled \in BOOLEAN
    BY <1>2
  <2>2. new = [seen EXCEPT !.enabled = enabled, !.interval = interval, !.next = next]
    OBVIOUS
  <2> HIDE DEF seen, new
  <2> QED BY <1>1, <2>1, <2>2 DEF Schedule
<1>4. /\ schedule' = [schedule EXCEPT ![t] = new]
      /\ origin' = [origin EXCEPT ![t] = mark]
      /\ edit' = [edit EXCEPT ![o] = Null]
      /\ UNCHANGED <<now, scheduler, owner, active, manual, queue>>
  BY DEF SaveSchedule, runVars
<1>5. origin \in [Targets -> [version : Nat, anchor : Nat, at : Nat \cup {Null}]]
      /\ origin[t].version \in Nat
  BY <1>2 DEF Inv, TypeOK
<1>6. /\ mark \in [version : Nat, anchor : Nat, at : Nat \cup {Null}]
      /\ mark.version = origin[t].version + 1 /\ mark.anchor = next /\ mark.at = Null
  BY <1>1, <1>5
<1> HIDE DEF t, new, mark
<1>7. TypeOK'
  BY <1>2, <1>3, <1>4, <1>5, <1>6 DEF Inv, TypeOK
<1>8. /\ schedule'[t] = new /\ origin'[t] = mark
      /\ \A r \in Targets : r # t => schedule'[r] = schedule[r] /\ origin'[r] = origin[r]
  BY <1>2, <1>4, <1>5, RowsTyped DEF Inv, TypeOK
<1>9. ASSUME NEW u \in Schedulers PROVE Fits(u)'
  <2>1. scheduler[u].step \in Holding => scheduler[u].target # t
    BY <1>2, NullApart DEF Inv, Fits
  <2> QED BY <2>1, <1>4, <1>8 DEF Inv, Fits
<1>10. QueuedBefore'
  <2> SUFFICES ASSUME NEW i \in DOMAIN queue
               PROVE  /\ queue[i].version <= origin'[queue[i].target].version
                      /\ queue[i].version = origin'[queue[i].target].version =>
                            queue[i].at < schedule'[queue[i].target].next
    BY <1>4 DEF QueuedBefore
  <2>1. queue[i].target \in Targets /\ queue[i].version \in Nat
    BY QueuedTyped
  <2>2. CASE queue[i].target = t
    BY <2>1, <2>2, <1>5, <1>6, <1>8 DEF Inv, QueuedBefore
  <2>3. CASE queue[i].target # t
    BY <2>1, <2>3, <1>8 DEF Inv, QueuedBefore
  <2> QED BY <2>2, <2>3
<1>11. MissedBoundariesCollapse'
  BY <1>4 DEF Inv, MissedBoundariesCollapse
<1>12. OnCadence'
  <2> SUFFICES ASSUME NEW r \in Targets, origin'[r].version > 0
               PROVE  /\ \E k \in 0 .. schedule'[r].next :
                            schedule'[r].next
                               = origin'[r].anchor + k * schedule'[r].interval
                      /\ origin'[r].at # Null =>
                            /\ schedule'[r].next - schedule'[r].interval <= origin'[r].at
                            /\ origin'[r].at < schedule'[r].next
    BY DEF OnCadence
  <2>1. CASE r # t
    BY <2>1, <1>8 DEF Inv, OnCadence
  <2>2. CASE r = t
    <3>1. 0 \in 0 .. next /\ next = next + 0 * interval
      BY <1>1
    <3> QED BY <2>2, <3>1, <1>3, <1>6, <1>8
  <2> QED BY <2>1, <2>2
<1> QED BY <1>7, <1>9, <1>10, <1>11, <1>12 DEF Inv

-----------------------------------------------------------------------------
LEMMA Stuttering == Inv /\ UNCHANGED vars => Inv'
<1> SUFFICES ASSUME Inv, UNCHANGED vars PROVE Inv'
  OBVIOUS
<1>1. TypeOK'
  BY DEF Inv, TypeOK, vars
<1> QED BY <1>1, Aside DEF vars

LEMMA Preserved == Inv /\ [Next]_vars => Inv'
<1> SUFFICES ASSUME Inv, [Next]_vars PROVE Inv'
  OBVIOUS
<1>1. CASE Tick
  BY <1>1, TickKeeps
<1>2. CASE Outside
  BY <1>2, ReadKeeps, SaveKeeps, RunsKeep DEF Outside
<1>3. CASE \E s \in Schedulers : SchedulerStep(s) \/ Crash(s)
  BY <1>3, SchedulerKeeps
<1>4. CASE UNCHANGED vars
  BY <1>4, Stuttering
<1> QED BY <1>1, <1>2, <1>3, <1>4 DEF Next

LEMMA Invariance == Spec => []Inv
BY Initially, Preserved, PTL DEF Spec

\* Types: also boundaries never leave the naturals and nobody holds the lock of a
\* row that does not exist.
THEOREM Typing == Spec => []TypeOK
<1>1. Inv => TypeOK
  BY DEF Inv
<1> QED BY <1>1, Invariance, PTL

\* However many schedulers race, are late or die, missed boundaries queue one run
\* together and no boundary queues two, unless the operator saves the schedule.
THEOREM BoundariesCollapse == Spec => []MissedBoundariesCollapse
<1>1. Inv => MissedBoundariesCollapse
  BY DEF Inv
<1> QED BY <1>1, Invariance, PTL

\* However late dispatches and skips are, for every interval the next run stays on
\* the grid its operator chose, at the first point after the last of them.
THEOREM CadenceKept == Spec => []OnCadence
<1>1. Inv => OnCadence
  BY DEF Inv
<1> QED BY <1>1, Invariance, PTL
=============================================================================
