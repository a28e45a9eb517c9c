# fgc-v3 in TLA+

This directory specifies the backend of fgc-v3 (`src/` in the repository root; the
paths below are relative to the repository). The system operates a pool of browser
*profiles*, one per social-network account, and collects content with them. What it
must never do is drive one account from two places, drive it more than its safety
limits allow, go on with an account that Facebook has stopped, or lose track of a
profile, a run, a schedule or a collected post. All state is in
one PostgreSQL database; the HTTP API and a handful of worker processes read and
write it concurrently, mostly without transactions. That is what the modules are
about.

Contents: [system](#the-system) · [modules](#modules) · [runs](#runs-and-bounds) ·
[fairness](#fairness) · [findings](#findings) · [known hazards](#known-hazards-without-a-property) ·
[proofs](#proofs) · [not modelled](#what-is-not-modelled) · [plan](#plan)

## The system

| Component | State | Operations | Interacts with |
|---|---|---|---|
| **Collector Profile Manager** `src/collector-profile-manager` | profile rows (status, account stage, authentication health, provisioning token, session, configuration, daily usage, next available time), lease rows, profile–group access rows | create, configure, change stage, start provisioning, ingest session, upsert access, check out a lease for four purposes, release | API handlers; all executors check out and release through HTTP |
| **Collection runs** `src/collector-runtime` | run rows QUEUED/RUNNING/SUCCEEDED/FAILED/CANCELED | request, cancel, claim, execute | schedules create, the collector worker claims |
| **Account exercise runs** | the same plus the attached lease | request, cancel, claim, attach lease, finish | exercise worker; profile leases |
| **Source access check runs** | the same, at most one active per (profile, group) | request, claim, execute | mutates profile–group access before it is saved |
| **Home-feed runs** | the same, at most one active per profile | request, cancel, claim, finish by compare-and-set | home-feed worker, home-feed schedules |
| **Collection schedules** | per group: interval, enabled, next dispatch time | upsert, dispatch due | creates collection runs |
| **Home-feed schedules** | per profile: interval, enabled, next time, backoff | create or update, dispatch, record lookup failure | creates home-feed runs |
| **Executors** (group, home feed, exercise) | the lease held, browser process, captured posts | check out, open browser, capture, ingest, release, finish run | profile manager, content manager, run rows |
| **Browser providers, extractors** | browser process, captured payloads | launch, capture, parse | executors |
| **Content Manager: content items** `src/content-manager` | item rows (status, provenance) | ingest collected, ingest home feed, change status | executors, operators |
| **Content Manager: groups, publishers, categories** | source groups, entry routes, publishers | create, observe, approve, promote | ingestion, schedules |
| **Content Builder** | – (transform types, parked) | – | – |
| **Database** `src/infrastructure/database` | schema, constraints, mappers, isolation level | save, find, claim, transaction | everything |
| **HTTP interface, composition** | – | validation, error mapping, wiring | use cases |
| **Provisioning tool** `src/operator-tools/profile-provisioning` | browser process, token, captured session | fetch configuration, launch, wait for the login, capture, submit | profile manager (HTTP), operator, browser |
| **Other operator tools** | – | assisted access, browser probe, stack | HTTP API, browser |
| **Web UI** `apps/web` | – | pages | HTTP API |

### Where the difficulty is

* **Read, compute, save the whole row.** Nearly every use case loads a row, checks it,
  and later upserts *all* of its columns (`drizzle-profile.repository.ts` `save`,
  `drizzle-collection-run.repository.ts` `save`, `drizzle-content-item.repository.ts`
  `save`). Two requests that overlap overwrite each other.
* **READ COMMITTED transactions.** Checkout and release run in one, so they write all or
  nothing, but they still read before they write and lock no profile row. What
  protects the lease is a partial unique index on ACTIVE leases.
* **Atomic claims, blind finishes.** Workers claim with `FOR UPDATE SKIP LOCKED`;
  collection, exercise and access-check runs are then finished by blind saves, home-feed
  runs by compare-and-set.
* **Crashes.** A process may stop after a claim, after a checkout, or between the
  access mutation and the run save. Nothing sweeps expired leases or RUNNING runs.
* **Time.** Lease and token expiry, cooldowns, local days in the profile's timezone,
  schedule cadence, backoff.

### What correctness means, per component

* Profiles and leases: one ACTIVE lease per profile; a BUSY profile has a lease and a
  leased one is BUSY; counters equal what the leases say; limits and cooldowns are kept;
  a fingerprint never changes; health recovers only by a new session. Overlapping whole-row
  saves break some of these, and the properties say until when they hold.
* Runs: a terminal run stays terminal; a run is executed by one worker; a canceled run is
  never executed; every claimed run ends, unless its worker crashes.
* Schedules: each due boundary is dispatched exactly once; the next time is in the
  future and on the grid; a home-feed schedule never has two active runs.
* Executors: on each path a lease is released exactly once and the run gets one verdict.
* Browsers: one browser per account, closed before its lease is returned; a login or
  checkpoint wall stops the account; every session ends.
* Capture and extraction: nothing heard while the page was driven is lost, each post is
  collected once, every candidate is accounted for.
* Provisioning: the tool reports what was saved, a wall is overcome only by a later login, and
  the tool ends when it is told to.
* Content: one item per external post; status and provenance survive re-ingestion.

`PROJECT.json` "hazards" lists each of these at the line where it can go wrong.

## Modules

| Module | Role |
|---|---|
| `ProfileLease` | The profile manager and its three tables: the state, the domain rules, an action per database step of every request, the safety properties. |
| `ProfileLock` | The abstract specification of leasing: a lock per profile with single-use lease ids. |
| `ProfileUsage` | What rows account for: properties that relate rows to the leases granted so far and to the request that changed them. |
| `RunLifecycle` | The abstract specification of every kind of run: its status and who drives it. |
| `HomeFeedExecution` | Home-feed runs: the run table, requests and cancels, and the workers that claim, lease, collect, release and finish. |
| `LeasedRuns` | The other three kinds of runs (group collection, account exercise, source access check), whose tables are written by blind saves, with their workers and the exercise tool. |
| `BrowserJobs` | The five programs that open a browser under a lease: launches, page observations, signals, deadlines, closes, and the release that tells what was seen. |
| `PostExtraction` | The two extractors as operators: the posts one captured payload tells, and whose they are. |
| `PayloadCollection` | From Facebook's answers to submitted posts: both transports, the capture buffer, the wait at the end of a capture, extraction, submission. |
| `Cadence` | The arithmetic of the next boundary of a schedule. |
| `Schedules` | Group and home-feed schedules, the operators that save them, the schedulers that dispatch them. |
| `ContentManager` | Publishers, source groups with entry routes and content items: observation, review, promotion, edits, both ingestions, status. |
| `Provisioning` | How a profile gets its session: the tokens, the provisioning tool with its browser and requests, and what leases do to the profile meanwhile. |
| `MC*` | Values for TLC, one module per checked module. |
| `ProfileLeaseProofs`, `HomeFeedProofs`, `LeasedRunsProofs`, `BrowserJobsProofs`, `ProvisioningProofs`, `SchedulesProofs`, `ContentManagerProofs`, `PayloadCollectionProofs` | The theorems of the modules they are named after; `ProfileLeaseProofs` has those of `ProfileUsage` too. |

How they compose: `ProfileLease` implements `ProfileLock`; `HomeFeedExecution`,
`LeasedRuns` and `BrowserJobs` take their leases from `ProfileLock`, so what executors
rely on is what leasing provides. `HomeFeedExecution` implements `RunLifecycle`, and so does
`LeasedRuns` with every run until a save overwrites its row. `PayloadCollection` is what happens
inside the browsing and submitting steps of these, `BrowserJobs` what happens to the
browser meanwhile; `ContentManager` receives what `PayloadCollection` submits, and
`Schedules` creates the runs that workers claim. `Provisioning` drives two of the requests of
`ProfileLease`, of which it keeps the ingestion in two steps. Each module abstracts its neighbours to
what it can observe of them.

### ProfileLease and the code

*State.* `profile`, `lease` and `access` are the tables; `minted` the provisioning tokens
generated so far; `op` the requests being served, each with what it has read; `now` the
clock in ticks, `TicksPerMinute` of them in a minute. Two histories, which no action looks at, tell
stale saves apart: `fresh` are the requests under way of which no row they read was saved since,
and `overwritten` the profiles that a request which was not fresh any more saved.

*Requests.* A request is `IDLE`, has `BEGUN`, or has `LOADED` its row. Any other request
may run between its steps.

| Code | Actions |
|---|---|
| `create-profile`, `update-profile-configuration`, `update-profile-account-stage`, `start-profile-provisioning`, `ingest-profile-session` | one action that reads the row, checks it and computes the row to save, then `SaveProfile` |
| `upsert-profile-source-access` | `UpsertSourceAccess` |
| `checkout-profile` (four purposes) | `BeginCheckout` (clock and accessible profiles), `LoadCandidate` (the row and `evaluateCheckoutEligibility`), `CommitCheckout` (lease insert and profile save, one transaction) |
| `release-profile-lease` | `BeginRelease` (lease, expiry), `LoadLeasedProfile`, `CommitRelease` (profile save and lease update, one transaction) |
| an error, a failed condition, a rollback, a crash | `Abandon` |

*Domain rules* are operators with the names of what they model: `Eligible`, `CheckedOut`,
`Released`, `Observed`, `CanStartProvisioning`, `Configured`, and so on.

*Abstractions.*

* Ticks instead of milliseconds. The duration of a lease is rounded up to whole minutes
  for the daily counter (`ActiveMinutes`), its expiry and the cooldown are exact. Active windows are
  the set of open ticks of the local day; a timezone is an offset. A missing window or timezone
  opens no tick. Cooldowns are given in ticks.
* A session is the tick at which it expires; a session without an expiry is a late tick.
* The requests outside a transaction read the clock and the row in one step: the clock
  only matters through token expiry, and another request may run before or after.
* Between reading and saving, a request changes nothing; the row to save is therefore
  computed at the read.
* `UpsertSourceAccess` is one step: the state it writes depends on the request, not on
  the row it read.
* `LoadCandidate` picks any eligible candidate; the order in which candidates are tried, and
  the uniqueness of display names, decide nothing the properties see.
* `DuplicateReleases = FALSE` models callers that release a lease once, as executors do;
  `TRUE`, as in the run, allows a repeated release request to overlap.
* `Targets` are the account stages the operator asks for; the run asks for the one that makes a new
  account leasable.

### HomeFeedExecution and the code

*State.* `run` is the table `profile_home_feed_collection_runs`; `worker` the worker
processes; `cancel` the cancel requests that have read their run and not yet written;
`held` and `closed` the leases of `ProfileLock`. `grantee` and `released` are histories
that only properties read.

| Code | Actions |
|---|---|
| request use case, or a schedule dispatch, `create` | `RequestRun`, under the unique index on the active runs of a profile |
| cancel use case | `BeginCancel` (read and check), `CommitCancel` (`transitionStatus` QUEUED → CANCELED) |
| `claimNextQueued`, one statement | `Claim`, of the oldest queued run |
| `execute` before the checkout | `RejectRun` (status, bounds, interrupt) |
| `safeCheckout` | `Checkout` (granted; the answer arrives or is lost), `CheckoutRefused` |
| `decideOutcome`, `executeAfterCheckout` | `Mismatch`, `CaptureSucceeds`, `CaptureFails`, `SubmitPost` per candidate, `SubmittedAll`; the catch around them is `Fault` |
| `finalizeAcquiredLease` | `Release`: confirmed, done but not confirmed, or not done |
| `persistOutcome`, mark succeeded or failed | `EndRun` (`transitionStatus` RUNNING → SUCCEEDED or FAILED) |
| signal handler, poll loop, process | `Interrupt`, `Exit`, `Crash`, `Restart` |

*Abstractions.*

* `requested` is the number of runs created before, in place of the time and id that order
  the queue. `within` says whether the requested bounds respect the ceilings.
* The branch of the code decides the outcome before or after it releases the lease; nothing
  it reads changes in between, so the model always decides first. The summary keeps
  `leaseReleased` only.
* One candidate is one step: the further interrupt checks inside the loop body have the same
  effect as one at its start. What a post contains is not modelled.
* The authentication observation sent with a release belongs to `ProfileLease`
  (`Observed`).
* The command that runs once is a worker that is stopped after its iteration.
* An error of the database, or a run that is not RUNNING when it is loaded or finished, ends
  the command, which the model calls `Crash` or `Quit`.

### LeasedRuns and the code

*State.* `run` are the rows of all three tables, each with its `kind`; `worker` the
processes, each with the row it has `seen`, the lease it has `acquired` and its `verdict`;
`cancel` the cancel requests between their read and their save; `access` the profile-group
access row; `held`, `closed` the lock; `grantee` and `released` histories. `lost` is a history
too: when a save is not based on the row that is stored, it keeps the status the run had before
the first such save, and the run is no longer `Intact`.

| Code | Actions |
|---|---|
| the three request use cases; the access check's unique index | `Request` |
| `cancel-*` use cases | `BeginCancel` (read and check), `CommitCancel` (blind save) |
| `claimNextQueued` of the three repositories | `Claim`; `Load` for group runs, whose executor reads the row again |
| the exercise tool | `ToolRequest`, `ToolRead` and `ToolStart` (mark running) |
| checkout | `Checkout` (the answer may be lost, or name another profile), `CheckoutRefused` |
| attaching the lease to an exercise run | `AttachRead`, `AttachSave` |
| launch, browser work | `Launch`, `LaunchFails`, `BrowserFails`, `BrowserDone` |
| submissions of a group run | `SubmitPayload`, `SubmittedAll` |
| release, confirmed or not | `Release` |
| the access mutation before the check is saved | `Apply` |
| `markRun*` or the executor's final save | `EndRead`, `EndSave` |
| signals, poll loop, process | `Interrupt`, `Exit`, `Crash`, `Restart` |

*Abstractions.* One source group stands for all of them. Runs are requested and claimed in
one order, as in `HomeFeedExecution`. A worker error before the checkout is
`PREFLIGHT_FAILED`, whatever the code calls it (`COLLECTION_RUN_EXECUTOR_FAILED` included),
and a stage that could not be read is part of `CHECKOUT_FAILED`. A call to a run table that
fails in the middle of an execution ends the process as `Crash` does. The `mark-collection-run-*`
use cases are wired, but no worker or route calls them; the executor's save is modelled.

Nothing keeps requests and processes from overlapping. Every action that writes a row is either
one statement on the row as it is (`Update`) or a `Save` of a whole row that was read earlier, and
the properties that such a save can break speak of the runs that are `Intact`.
`BrowsesUnderLease` and `ClaimedRunsEnd` need no such condition.

### BrowserJobs and the code

*State.* `job` is an execution of one of the five programs; `browser` the browser it
launched (`LEFT` when nobody will close it any more); `calls` the close calls that have
not answered, by who made them; `wall` whether Facebook shows the account a login or
checkpoint page; `healthy` the account's authentication health; `met` a history.

| Code | Actions |
|---|---|
| checkout of a healthy profile | `Checkout` |
| configuration cannot be read or is unusable | `Unprepared` |
| `provider.launch`; the access check's bounded phase | `Launch`, `Launched`, `LaunchFails`, `AbandonLaunch`, `LaunchedTooLate` |
| `observeFacebookPageState` after navigation, scrolls, dwells, and at the end | `LookOn`, `MeetWall`, `LastLook` |
| error, deadline or signal while driving | `Stop` |
| `session.close` by the program, by its abort listener, by the late handler of a launch given up | `Closed`, `CloseFails`, `SignalCloseFails`; `AbandonClose` for the bounded cleanup |
| release with the observation | `Release` |
| signals, the process | `Interrupt`, `Crash` |
| Facebook | `WallChanges` |

*Abstractions.* Login and checkpoint walls are one. The expiry of a lease and the return
to health are in `ProfileLease`; here an unhealthy account stays so. A wall appears or
disappears while a job drives the account. A process that dies takes its browser with it
or leaves it (`Die`). A second close of a Playwright session while the first one is under way
is left out: it waits for the same browser. Playwright's own SIGINT handler, which also
closes the browser, is the library's and only closes earlier.

*The exceptions the properties name* are what the code cannot exclude:

* `Loose`, a browser that outlives its lease. The Playwright provider leaves a browser when
  the context cannot be created; a Cloak session answers a second `close` at once while the
  first is still closing, so a capture that is signalled returns its lease early; the access
  check gives up a late launch or close when its time is over, by design; a close that fails
  leaves the browser.
* `Untold`, a wall nobody is told of. An interrupted home-feed run releases without an
  observation, and the exercise only summarizes its last one: that is the finding of the run `walls`,
  whose property `ExercisesTellWalls` makes no exception.

### PostExtraction, PayloadCollection and the code

A payload is the sequence of its telling objects in the order of the traversal: stories
(with post id and how much of the story they tell), publishers with and without a stable id,
personal profiles and sponsorship metadata, each with the object it is part of and by which
group of keys it is reached.

*State.* `feed` what Facebook answers, chosen once; `net` the listener's read of each
response; `sending` the bodies the page script has yet to deliver; `captured` the buffer;
`awaited` what had arrived when the driving ended; `passed` the copy handed over; `accepted`,
`next`, `cache`, `summary` the executor's variables; `broken` the payloads whose extraction failed.

| Code | Actions |
|---|---|
| a response; `onResponse` and the fetch/XHR hooks of the init script | `Respond` |
| the page's binding messages | `PageTells`, `PageFails` |
| `captureNetworkResponse` | `NetworkTells`, `NetworkFails` |
| `recordParsedPayload` | `Recorded` |
| `settlePendingCaptures` | `Settle`, then `Settled` (all reads ended) or `CutShort` (deadline or signal) |
| a wall, a crashed page, a signal while driving | `CaptureFails` |
| `collectCandidates` | `CollectFeedPayload`, `FeedExtracted` |
| `RunFacebookGroupCollectionUseCase`, `SubmitCapturedFacebookPayloadUseCase` | `ExtractGroupPayload`, `SubmitToGroup`, `PayloadSubmitted` |
| `safeObservePublisher`, the publisher cache, `safeSubmitContent` | `ObservePublisher`, `SkipUnobserved`, `SubmitToFeed` |
| an extractor that throws or finds the payload invalid | `ExtractionFails` |
| the abort checks, the verdict | `Abort`, `Interrupted`, `Finish` (`FullyDone`) |

*Abstractions.* Comments, counts, dates, urls and authors are a text level 0 to 2, which is what
`scoreCandidateRichness` tells apart. The limits on depth and visits are not reached. Both
transports capture every answer that is modelled. The wait awaits the reads of the network
listener only; a binding message that is still under way is not awaited, which loses
nothing because the listener records the same bodies. The page script names a fetch by the
url the page asked for and the listener by the url that answered, so after a redirect one
body is kept twice. A home-feed run still takes each post once; a group run submits it
twice and relies on the ingestion, which merges by post id. A
read that ends after the hand-over changes a buffer nobody looks at. Any payload may turn out to be
one that cannot be extracted: a home-feed run passes it over, a group run keeps an error for it and
does not succeed, although no post of it counts as failed.

### Schedules, Cadence and the code

*State.* `schedule` both schedule tables; `scheduler` the processes, with the time they read
and what they found; `owner` the row locks; `active` the home-feed runs that are QUEUED or
RUNNING; `edit` an operator's upsert between read and save; `queue` and `origin` histories.

| Code | Actions |
|---|---|
| create or update schedule | `ReadSchedule`, `SaveSchedule` |
| dispatch of groups, one transaction with `FOR UPDATE SKIP LOCKED` | `Begin`, `SelectGroup`, `DispatchGroup`, `NothingDue` |
| candidate search with backoff; profile lookup over HTTP | `FindFeed`, `ProfileMissing`, `LookupFails` |
| dispatch of a home feed under the row lock | `SelectFeed`, `RaceLost`, `SkipActiveRun`, `NoActiveRun`, `DispatchFeed`, `InsertConflicts`, `ConflictGone` |
| requests by hand, workers | `RequestRun`, `EndRun` |

*Abstractions.* Time is in the units of the cadence. The queue of group runs is not limited by
the database, so what becomes of them does not matter here. A scheduler that throws or dies is
not restarted.

### ContentManager and the code

*State.* `publisher`, `group`, `item` the tables; `locker` the row locks of publishers;
`request` the requests in flight with the row they have `seen`; `accepted` a history; `serial` whether requests about one row overlap, chosen at the start.

| Code | Actions |
|---|---|
| `observeWithinTransaction` | `Observe`, `InsertPublisher`, `LockPublisher`, `UpdatePublisher` |
| update status, promote | `ReviewPublisher`/`SaveReview`, `PromotePublisher`/`RecheckPromotion`, `InsertGroup` |
| create group; add, edit, remove route; pause, archive | `CreateGroup`/`InsertGroup`, `EditGroup`/`SaveGroup` |
| both ingestions | `IngestFromGroup`, `IngestFromFeed`, `SaveItem` |
| update content status | `UpdateItemStatus`, `SaveItem` |
| rollback, lost connection, server stop | `Fail` |

*Abstractions.* An item is its status, where it was first seen, the two columns and the
publisher of its provenance, and two times; text, counts and comments are replaced by
every collection and tell nothing apart. A publisher carries at most its name; its url goes
with the name. Display names and uniqueness of urls are left out. The refusals of a review that
only depend on the request are left out.

### Provisioning and the code

*State.* `row` the columns of a profile that provisioning reads or writes; `issued` the tokens, in
the order in which they were issued; `expired` those whose 15 minutes are over; `tool` and
`browser` the runs of the tool; `request` and `seen` how far the server is with each submission and
the row it has read; `walled` (how many tokens there were when the account last met a wall) and
`overwritten` (the profiles of which a submission replaced a row it had not read) histories. A session is
named by the token it was ingested with.

| Code | Actions |
|---|---|
| start provisioning, restart, recovery | `StartProvisioning` |
| the operator runs the command with a token he was shown, whichever | `StartTool` |
| `getProvisioningConfiguration` | `FetchConfiguration` |
| building the launch configuration, launch of either provider | `Unlaunched`, `Launch`, `Launched`, `LaunchFails` |
| login page, the question at the terminal | `OpenLoginPage`, `Confirm`, `Interrupted` |
| cookies and local storage, the check that they are complete | `Capture`, `Submit` |
| `ingest-profile-session`: lookup and checks, then the save of the whole row | `Admit`, `SaveSession` |
| `ingestSessionState`: the answer, or an error | `Answered` |
| the catch clause, the finally clause | `Caught`, `Close` |
| signals, the process | `Signal`, `Crash` |
| leases and their releases | `CheckOut`, `Release` |

*Abstractions.* The server handles a submission in two steps, between which anything else may
happen, another submission with the same token included, and goes on with it after the tool gave
up; the other requests are single steps here and overlap in `ProfileLease`. The token
column holds a token exactly while its status is ISSUED. A profile that is provisioned has its
configuration. `REFUSED` is an answer of the 400s, `RESPONSE_ERROR` one of the 500s or of the
wrong shape. A submission may be refused for reasons that are not modelled. REAUTH_REQUIRED and
CHECKPOINT_REVIEW_REQUIRED are one `WALLED`. A second signal finds no handler and ends the process
(`Crash`); the signal handler of Playwright itself is part of that.

## Runs and bounds

The slowest runs need two to three minutes, most of them less than one. Every run sets
`CHECK_DEADLOCK FALSE`: the clock, the lease ids, the runs and the requests are bounded, and a
server without requests is idle.

| Run | Instance | Shows |
|---|---|---|
| `profile` | 1 profile from its creation on, 2 overlapping requests of all eight kinds, 2 leases of two minutes, minutes of two ticks, days of three, clock to 3, duplicate releases | `TypeOK`, `RowsConsistent`, `UsageAccounted`, `LimitsHonoured`, `BusyIffLeased`, `ImplementsLock` |
| `feed` | 2 profiles, 2 runs, 2 leases, 1 cancel, 1 post, 2 fair workers of which one may be signalled and the other may die; answers lost, checkouts that answer another profile | `TypeOK`, `OneWorkerPerProfile`, `VerdictTellsLease`, `ImplementsLifecycle`, `ClaimedRunsEnd`, `QueuedRunsTaken` |
| `leased` | 2 profiles, 2 exercise runs or access checks, 2 leases, 1 cancel, the exercise worker and the access-check worker (may be signalled and may die); checkouts that answer another profile | `BrowsesUnderLease`, `AccessIsCurrent` |
| `executed` | 1 run of any kind, 2 profiles, 2 leases, 1 cancel, the tool (may die) and all three workers (the one of checks may be signalled); checkouts that answer another profile | `TypeOK`, `BrowsesUnderLease`, `RecordTellsLease`, `ImplementsLifecycle`, `ClaimedRunsEnd` |
| `cancel_race` | a cancel and a claim | violates `AllowedTransitions` |
| `walls` | an exercise with three observations | violates `ExercisesTellWalls` |
| `browsers` | 1 profile, 2 jobs of any of the five kinds with either provider, up to 3 observations | `TypeOK`, `OneBrowserPerAccount`, `WallsStopWork`, `SessionsEnd` |
| `collected` | 2 answers that may repeat a post, one perhaps redirected, or 1 answer with a nested fragment in every arrangement of publishers, profiles and ads; any extraction may fail; bound of 2 posts | `TypeOK`, `NothingHeardIsLost`, `EachPostOnce`, `SummaryAddsUp` |
| `schedules` | 1 group with 2 schedulers or 1 profile with 2 schedulers, one mortal; interval 2, clock to 3, 2 saves, 1 run by hand | `TypeOK`, `MissedBoundariesCollapse`, `OnCadence`, `DueSchedulesAdvance` |
| `content` | 2 external ids (one promotable, one with a group that predates routes), 1 post, up to 4 requests, 2 at a time | `TypeOK`, `ObservationsKept`, `DefaultRouteKept`, `AlwaysIngestible`, `NothingTakenBack` |
| `provisioning` | 1 profile, 2 tools of which one may die, 2 tokens, overlapping submissions, leases and walls at any time | `TypeOK`, `ReportTellsSession`, `HealthyAfterWall`, `ToolsEnd` |
| `status_race` | a collection and an operator | violates `StatusNeverReturns` |

Why these bounds are enough.

* *Leases.* A save depends on one earlier read, so two overlapping requests give every conflict on
  one row. Two lease ids let a profile be leased, released and leased again; with two ticks to a
  minute and a day of three ticks, a lease may last half a minute, a whole one or one and a half,
  end on the next day, fill the counters, be refused and be counted from zero on the day after.
* *Runs.* Two processes and two runs give every race a run table can have: two runs of one
  profile, two claims, a cancel against a claim, a tool start against a claim, an executor's save
  against a cancel. The last ones only need one run, which `executed` gives to four processes;
  `leased` has two of them with two profiles, so that the second one is where the first one's mistake
  shows. Two leases let a run keep one open after a lost answer while the other works. One post or
  payload exercises an empty and a non-empty loop and every place of an interrupt.
* *Browsers.* Two jobs are a browser that outlives its lease and the one it meets; three
  observations are a first, a middle and a last one.
* *Collection.* Two answers, each heard twice, give every order of arrival; three posts exceed the
  bound of two; a nested story with publishers around and inside it is the smallest
  payload in which attribution can go wrong.
* *Schedules.* An interval of two and a clock to three give a late dispatch, a missed
  boundary and the next; a second save separates anchors.
* *Content.* Two observations of a publisher and two collections overlap; four requests
  allow a creation, two that race, and one that reads the outcome.
* *Provisioning.* Two tools with one token, or with an old and a new one, are the conflicts over a
  profile; the second token supersedes the first one, or follows the wall that ended its session.

Two checks of one profile with an exercise or a third process between them exceed what TLC can
enumerate in minutes; what the bounds of `leased` and `executed` leave out is covered by theorems
that have none.

Symmetry is declared over interchangeable ids only, and in no run with liveness. Every
property of a passing run has a mutant in `PROJECT.json`: a plausible mistake in one mapped
definition under which TLC finds the property violated. The mutated operators stand next to
the definitions they replace, marked `Mutant`.

## Fairness

Leasing has none: the code gives no request a deadline and lets any worker crash, so a
lease that is never released stays ACTIVE; nothing in the code expires it (see "hazards").

*Home-feed workers* have weak fairness on `WorkerStep(w)`, all steps of one process together:
the poll loop and the sequential `await`s take the next step as long as the process lives,
and every external call in them returns or fails (the capture has a duration limit). It does
not say which step: a checkout may always be refused, a capture always fail. There is none on
requests, cancels, interrupts, crashes or restarts. With crashes a claimed run need not end:
`docs/RUNTIME.md` lists stuck-run recovery among what the workers do not have, and the property
speaks of workers that may not die. `QueuedRunsTaken` needs one of them to live.

*Leased runs* have the same for each process and for a cancel that has read its row, which is
one more statement of the same request. Kinds whose processes may die (`Mortal`) are exempt
from `ClaimedRunsEnd`.

*Schedulers* are fair as long as they live. `DueSchedulesAdvance` allows a lookup that keeps
failing (the backoff keeps trying) and a target whose schedulers have all ended.

*Browser jobs* are fair, for every wait in them has a timer or an awaited call. Their
provider answers calls eventually, except to the access check: its phases are bounded by the
lease, so it must end even if the browser never answers.

*Provisioning tools* are fair in everything but what the operator does: requests, launches and
navigations answer or time out. Nobody has to press Enter, which is why `ToolsEnd` is about
tools that were signalled or whose operator confirmed.

`PayloadCollection` and `ContentManager` state safety only.

## Findings

Three violation runs, each with one property that quotes the repository:

| Run | What happens |
|---|---|
| `cancel_race` | The cancel of a group run reads QUEUED and saves the whole row after the run was claimed: RUNNING becomes CANCELED while the worker drives the profile, and the worker's own save turns CANCELED into SUCCEEDED. `docs/SPRINTS/SPRINT-045-collection-runs-web-ui.md:42` permits only QUEUED → CANCELED. |
| `walls` | A wall that only the last observation of an exercise sees goes into the summary (`exercise-runner.ts:1009`); the outcome stays completed, the release carries no observation and the account stays HEALTHY and is leased again. `docs/RUNTIME.md:653-659` says that the observer checks at the end too and that the runner forwards what it reports to the release. |
| `status_race` | Ingestion saves every column of the row it read: a status set by the operator in between returns to COLLECTED. `docs/REQUIREMENTS/content-manager.md:222` and `:224` say it does not. |

Two disagreements met while modelling have no run, because the model states what the code does as
an exception or in its operators:

* *One-time tokens.* `docs/RUNTIME.md:464` calls the provisioning token one-time-use and says that
  reusing it fails. Two submissions that overlap both find it usable, and both are saved: the
  lookup, the check and the save are statements of their own (`IngestSession` and `SaveProfile` in
  `ProfileLease`, `Admit` and `SaveSession` in `Provisioning`). A configuration update that read its
  row before an ingestion and saves it afterwards brings the consumed token back. Both runs have
  these overlaps, and no property claims that only one submission succeeds.
* *Excluded posts.* `docs/SPRINTS/SPRINT-065A-facebook-home-feed-extractor-fixtures.md:86` says
  "Excluded posts are never returned as candidates." Exclusion is decided for each object of a
  payload: a sponsored or personal-profile post may still be returned through a nested
  fragment, or another fragment with the same post id, that carries a publisher of its own,
  and a personal profile's share of a group post resolves to the group of the attached
  story. `Accepted` and `PublisherOf` are that code.

## Known hazards without a property

`PROJECT.json` "hazards" lists what is hard to test, each with the properties that would catch it.
Some have none:

* Two overlapping configuration updates may both assign a fingerprint.
* Nothing checks that the operator was logged in when he pressed Enter: a session of a logged-out
  browser makes the account HEALTHY until a worker meets the wall.
* Stale whole-row saves of a profile lose what another request had saved (a configuration update over an
  ingested session, a stage change over an observed wall, a checkout inside a cooldown, a release
  sent twice over a new lease). `RowsConsistent` is what the row keeps then, and `ImplementsLock` what
  leasing keeps; `UsageAccounted`, `LimitsHonoured`, `BusyIffLeased` and `HealthyAfterWall` hold for
  profiles that are not `overwritten`.
* The same for the runs whose rows are saved as a whole: what their records say is claimed for
  `Intact` runs. `BrowsesUnderLease`, `ReleasedOnce`, `SuccessHadLease` and `ClaimedRunsEnd` hold for all.
* A lease whose worker crashed is never expired, and its profile stays BUSY.
* A scheduler whose insert conflicts with a run that ended before the second look
  (`drizzle-dispatch-next-due-profile-home-feed-collection-schedule.repository.ts:227`) throws, and
  nothing restarts it; `DueSchedulesAdvance` counts it as stopped.
* In a capture, the rejection of the close call that a signal makes is not awaited by
  anybody; it ends the process (`SignalCloseFails`).

## Proofs

`ProfileLeaseProofs` proves, for any number of profiles, leases and requests, any
thresholds, windows and clock:

| Theorem | Statement |
|---|---|
| `Typing` | `Spec => []TypeOK` |
| `OneLeaseAtATime` | `Spec => []OneActiveLease` |
| `NoLateRelease` | `Spec => []ClosedInTime` |
| `LeasingImplementsLock` | `Spec => ImplementsLock` |
| `RowsStayConsistent` | `Spec => []RowsConsistent` |
| `BusyUntilOverwritten` | `Spec => []BusyIffLeased`: for all kinds of requests, overlapping in any way, until the profile is overwritten |
| `BusyMeansLeased` | BUSY iff leased for every profile, overwritten or not, when `Requests` are checkouts, releases and access changes and `DuplicateReleases` is FALSE |
| `CountersTellLeases` | `Spec /\ [][LimitsOnlyRelaxed]_vars => []UsageAccounted` |
| `LimitsKept` | `Spec /\ [][LimitsOnlyRelaxed]_vars => []LimitsHonoured` |

None of them assumes that requests wait for each other. They use only the named assumptions of
`ProfileLease`, which TLC evaluates in every run.

*Type safety.* `TypeOK` is not inductive: the row a request will save must be a row, and a
loaded request must name an existing profile or lease. `TypeInv` adds `OpWellFormed` (what
a request holds in each step) and `LeasesBegun` (a lease in use has a profile and began
no later than now); theorem `TypeSafe` is its invariance, `Typing` the corollary.

*One lease, no late release.* `OneActiveLease` follows by induction because a commit checks
the index: it may only insert when no lease of the profile is ACTIVE at that moment,
whatever was read. The proof of `ClosedInTime` carries the bound from `BeginRelease`, the
time it checked against expiry, to the commit.

*Refinement.* Under `held <- Held`, `closed <- Closed`, a `CommitCheckout` is an `Acquire`, a
`CommitRelease` a `Release`, and every other step stutters. A second release of a closed
lease changes neither variable.

*Rows.* `RowsConsistent` is not inductive either, for saves write rows computed earlier.
`RowsInv` says it of both the saved rows and the rows pending in requests. Every domain
rule preserves `RowConsistent`, a fact about operators that is proved once per rule.

*BUSY.* `HoldInv` says of every profile that is not overwritten that it is BUSY exactly while
leased, and of every request that is `fresh` that the row it will save fits: an operator's request
keeps BUSY as it was, a checkout sets it, and a release, which works on an ACTIVE lease of its
profile, clears it. A save makes all other requests about the profile stale, and a stale save
overwrites the profile, so nothing has to be known of stale rows. `HolderInv` is its counterpart for
leasing alone with one holder per lease: there a stale checkout may lose counters, but what it saves is
BUSY under the lease it inserts.

*Counters and limits.* `LimitsOnlyRelaxed` says that a profile that was leased, and is not overwritten,
stays in its timezone and that its thresholds are only raised and its cooldown only shortened (windows,
network, topics and the account stage may change freely): a change of timezone moves the leases to
other local days than the ones that were counted, and a lower threshold is no promise about sessions
already started. When requests overlap, a stale save loses what another request counted, which is
why both properties exempt overwritten profiles; there is no other condition on overlaps.
`UseInv` says of every profile not overwritten that it is `Fair`:

* `Orderly`: its leases are finitely many, and each was closed, if at all, after it began;
* `Accounted`: the stored counters are the sums of the day they name, and nothing happened on a
  later day or after `lastReleased`, so that the counters of an older day may read as zero;
* `Limited`: every day and every two leases honour the limits, and while a lease is open the
  minutes of the stored day are below the threshold. This is what bounds the day on which it
  is closed: less than the threshold was used, and a lease is charged the threshold at most, for it
  is closed before it expires and its duration is rounded up.

`SeenBy` adds that a request under way read the clock no earlier than anything that happened
to the profile, and `Due` that the row a fresh request will save was computed from the one still
stored. The domain rules are proved to keep this on their own, for a checkout (`CheckoutAccounted`,
`CheckoutLimited`) and for a release (`ReleaseAccounted`, `ReleaseLimited`).

The minutes of a day are a sum over a set of leases, defined by a recursion that takes an
arbitrary element after another. `Sums` states what a sum is without saying in which order, `SumsExist`
that each finite set has one, `AnyOrder` that the recursion computes it, and `MinutesMore`
and `MinutesAgree` what the proofs need: the effect of one more lease, and that other tables of the same
leases give the same sum. All four come from one fact about finite sets, `SmallestPart`.

`HomeFeedProofs` proves, for any number of profiles, runs, workers, leases and cancel
requests, and whether or not there are interrupts, crashes and misdirected checkouts:

| Theorem | Statement |
|---|---|
| `Typing` | `Spec => []TypeOK` |
| `ProfilesAreSerialized` | `Spec => []OneWorkerPerProfile` |
| `RunsImplementLifecycle` | `Spec => ImplementsLifecycle` |
| `VerdictsTellLeases` | `Spec => []VerdictTellsLease` |
| `LeasesReleasedOnce` | `Spec => []ReleasedOnce` |
| `PostsUnderLease` | `Spec => []WorksUnderLease` |
| `RunsRecorded` | `Spec => []RunRecorded` |

The argument is a tower of invariants, each using those below it. `TypeInv` adds to `TypeOK`
what a worker has in each step (`Coherent`). `DrivenInv` says that a driven run is RUNNING,
driven once, and that a profile has one active run: the compare-and-set of the cancel cannot
touch a driven run and the claim only takes queued ones. The refinement and
`OneWorkerPerProfile` follow from it. `LeaseInv` accounts for every open lease: its run is
RUNNING in the hands of a worker that holds that lease or has `CHECKOUT_FAILED` or
`LEASE_RELEASE_FAILED` ready, or of nobody after a crash, or it ended with one of the two.
`RightInv` follows the profile of the lease from the checkout to the last post, and `RecordInv`
the agreement of verdict and summary from the release to the row.

`LeasedRunsProofs` proves, for any number of profiles, runs, processes and leases, with
races, misdirected checkouts, interrupts and crashes:

| Theorem | Statement |
|---|---|
| `Typing` | `Spec => []TypeOK` |
| `Released` | `Spec => []ReleasedOnce` |
| `Exclusive` | `Spec => []BrowsesUnderLease` |
| `SuccessIsLeased` | `Spec => []SuccessHadLease` |

These hold for every run, whatever stale rows are saved. `TypeInv` adds to the
types what a process has in each step and that a row, once created, never changes what it is
about (`Kept`), which even a stale save respects. `LeaseInv` says that a process between
checkout and release has its lease open, unreleased and granted to its run (`HolderInv`),
that one beyond has released it once (`DoneInv`), that no two processes hold one lease
(`Apart`), and that a success was confirmed (`EarnedInv`). `RightInv` follows the profile of the
lease to the browser. `RowInv` says that a lease shown by a row *or by a row some process has
read* was granted to that run: the second half makes it inductive under stale saves.

The others speak of runs that are `Intact`, with the same races, crashes, interrupts, misdirected
checkouts and any number of everything:

| Theorem | Statement |
|---|---|
| `RunsImplementLifecycle` | `Spec => ImplementsLifecycle` |
| `RecordsTellLeases` | `Spec => []RecordTellsLease` |
| `AccessStaysCurrent` | `Spec => []AccessIsCurrent` |

A save that is not based on the stored row ends what they say of that run, for good; what
the lifecycle sees of the run is frozen at the status it had. `cancel_race` is such a save. The
theorems say that these saves are the only thing that can go wrong, and that they only harm the
run whose row they overwrite. The tower of invariants on top of the first one:

* `LostInv` types the history, and `SaveNotes` is the one lemma about what a save does to it.
* `OwnedInv`: an intact run in the hands of a process is RUNNING and in no other hands, and the tool
  has read as QUEUED what it will start. Hence each step changes the row of a run that stays intact
  in one of four ways (`RowNext`: created, taken, attached, ended), which gives the refinement.
* `GrantInv`: an intact run has one lease at most, and none before its process asks for it; without
  it the lease a process released need not be the only one of its run. (Two processes can only
  execute one run after the tool's start overwrote the claim.)
* `ToldInv`: a process or a row of an intact run that says the lease was released is right.
  `ShownInv`: a successful exercise has attached the lease that it released. With `GrantInv` and
  `RowInv`, `RecordTellsLease` follows.
* `DatedInv` orders runs by their requests, also in the rows processes have read; `NewestInv`
  says that an active check is the newest of its profile, because a request is refused while
  one is active, as long as all checks of the profile are intact (`Clean`). `StoredInv` adds that a
  check about to succeed is the one the profile shows, from which `AccessIsCurrent` is inductive:
  what is stored next comes from the newest check.

`BrowserJobsProofs` proves, for any number of profiles and jobs:

| Theorem | Statement |
|---|---|
| `Typing` | `Spec => []TypeOK` |
| `AccountsHaveOneBrowser` | `Spec => []OneBrowserPerAccount` |
| `WallsAreTold` | `Spec => WallsStopWork` |

Its invariant `Inv` has four parts: `Types`; `Exclusive`, one lease per profile; `Fits`, what
the step of a job determines of its browser, the calls under way and the walls it met; and
`Covered`, a running job has its lease, and a job that is done and met a wall it tells either
still has its lease (the release was lost) or left the account unhealthy. Nearly
every action changes one job and keeps the leases: `Moves` and `QuietKeeps` prove the
invariant once for all of these, so an action only has to show `Fits` of its new state and
that it wakes nobody up (`Goes`). Checkout and release are proved on their own. Two living
browsers of one profile that are not `Loose` belong to running jobs, hence to two leases
of one profile; a checkout needs a free lock and a healthy account, hence no told wall.

`ProvisioningProofs` proves, for any number of profiles, tools and tokens:

| Theorem | Statement |
|---|---|
| `Typing` | `Spec => []TypeOK` |
| `ReportsTellSessions` | `Spec => []ReportTellsSession` |
| `HealthIsFresh` | `Spec => []HealthyAfterWall` |

The invariant `Inv` orders tokens. The token a profile waits for was issued for it, after its
session was and after it met its last wall (`RowFits`), so an ingestion moves the session forward
and past the wall; a submission the server has read and checked has seen the token in the row
(`ToolFits`), and if the row is still the one it saw, the same holds when it is saved. If it is not,
the profile is overwritten. A tool that has not submitted yet has neither a report nor a request, and
one whose session was saved has a token no later than the session of its profile unless that was
overwritten. `ToolMoves` proves the invariant once for all steps of tools that leave the profiles
alone, `RowMoves` for all that change one row; the two steps of an ingestion are proved on their own.

`SchedulesProofs` proves, for any number of schedules of both kinds and of schedulers:

| Theorem | Statement |
|---|---|
| `Typing` | `Spec => []TypeOK` |
| `BoundariesCollapse` | `Spec => []MissedBoundariesCollapse` |
| `CadenceKept` | `Spec => []OnCadence` |

The heart of the invariant is `Fits`: a scheduler about to advance a row holds its lock and
read it due, and the operator's save waits for the lock too, so between the read and the
advance nobody moves the boundary. `QueuedBefore` says that every run queued since
the last save was queued before the row's next boundary; the advance is to a boundary after the
clock, hence after the run it queues. The lemmas `Boundary` and `Grid` are the arithmetic of the
cadence, the only place where `%` and `\div` appear: the next boundary lies on the grid of the
anchor, after the clock, and at most an interval beyond it.

`ContentManagerProofs` proves, for any number of publishers, groups, posts and overlapping
requests:

| Theorem | Statement |
|---|---|
| `Typing` | `Spec => []TypeOK` |
| `ObservationsRemembered` | `Spec => []ObservationsKept` |
| `DefaultRoutes` | `Spec => []DefaultRouteKept` |
| `Ingestible` | `Spec => []AlwaysIngestible` |
| `CollectingTakesNothingBack` | `Spec => NothingTakenBack` |

A request saves a row computed from one it read earlier, so `TypeInv` is about the rows that wait
in requests as much as about those stored: both are valid (`StoredGroups`, `StoredItems`), from
which `DefaultRoutes` and `Ingestible` follow. `ObservedInv` adds that the observation that
locks a publisher has read it as it is, and that each row `Tells` the observations accepted so
far; `NextTold` is the one lemma about sequences, that an observation appended, however
old, leaves the row telling them. `SaveInv` says that the row a request will save `Follows` the one it
read, which the stored row agrees with in what never changes and, when requests
about a post do not overlap (`Alone`), in everything.

`PayloadCollectionProofs` proves, for any number of responses, stories, publishers, any bound on
posts and whatever the feeds answer:

| Theorem | Statement |
|---|---|
| `Typing` | `Spec => []TypeOK` |
| `NothingHeardLost` | `Spec => []NothingHeardIsLost` |
| `PostsTakenOnce` | `Spec => []EachPostOnce` |
| `SummaryCounts` | `Spec => []SummaryAddsUp` |
| `Extracted` | what `Extract` returns for a payload: a sequence of candidates in which no post occurs twice |

Extraction and deduplication are folds over sequences. The library's induction theorems take an
operator, which the provers cannot instantiate, so the module states induction of sets of
natural numbers (`LeastElement`, `SetInduction`, from the well-foundedness of inclusion among finite
sets) and shows with `FoldIsIterated` that a fold is the last value of a function that goes step by
step; what a fold keeps is then said of that function. `TypeInv` adds to the types
that the capture buffer holds no payload twice and that nothing is taken before the buffer is handed
over. `HeardInv` says that every body of a response that was read is in the buffer. `TakenInv`
says of a home feed that each accepted post is the richest telling of the first payload that tells
it and can be extracted, no post is accepted twice, and below the bound none of those payloads passed
so far is left out (`CollectedOnce`). `ObservedInv` counts one observation for each publisher that is
known and none for others, and `CountInv` follows the counters of the summary from phase to phase; a
payload that could not be extracted is in `broken`, adds nothing to them, and keeps a group's run from
succeeding. The theorems use `CollectionBounds` and `FeedsAnswer` (the feeds the instance enumerates
are those the extractor accepts), which TLC evaluates.

Some theorems state properties that no run lists, because TLC has nothing left to add:
`OneLeaseAtATime`, `NoLateRelease`, `LeasesReleasedOnce`, `PostsUnderLease`, `RunsRecorded`,
`Released`, `SuccessIsLeased`. All of them use only the named assumptions of their modules, which TLC
evaluates in every run.

*Only model-checked:* the liveness properties (`ClaimedRunsEnd`, `QueuedRunsTaken`, `SessionsEnd`,
`DueSchedulesAdvance`, `ToolsEnd`), which are out of the prover's reach. Every safety property of
a passing run is a theorem too, under the hypotheses given above where there are any.

## What is not modelled

* *The web UI* (`apps/web`): a client of the HTTP interface; its state is form input and cached
  answers.
* *HTTP interface, composition, mappers, schema*: stateless translation and wiring; what they
  validate is part of the input sets, the constraints that matter are in the modules.
* *Other operator tools without a lease*: the probe and the stack service drive a browser or docker
  once. Of provisioning, the parsing of arguments and configurations, redaction and the separate
  Cloak probe command are left out.
  The entry route an assisted session opens and the recording of its outcome are left out.
* *Categories*, which only name groups; *Content Builder*, parked in the repository.
* *Of the modelled parts*: targets and scroll plans of the exercise, the resolution of
  entry routes, diagnostics and their counters, failure details, read-only queries, logging.

The web UI, wiring, translation and form code are most of the repository's lines, so the
share of lines the modules map stays small although the state machines of the backend are
nearly all there.

## Plan

Done, in the order of importance: profiles and leases; home-feed runs; the three other kinds
of runs; schedules; content; browser sessions; capture, extraction and submission; provisioning.

Next:

1. Of the listed hazards without a property, the release of an expired lease: what a worker does
   when its lease runs out under it.
2. The components that are listed as partly modelled: categories of source groups and the outcome
   of assisted sessions.
