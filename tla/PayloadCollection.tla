-------------------------- MODULE PayloadCollection --------------------------
(***************************************************************************)
(* What a group or home-feed run collects, from the page to Content        *)
(* Manager.  While the page is driven, each of Facebook's answers reaches  *)
(* a buffer twice: the capture script in the page sends its bodies over a  *)
(* binding, and a listener reads them from the network.  Then the capture  *)
(* waits for the reads under way, hands a copy of the buffer over, and the *)
(* executor extracts posts from it and submits them.                       *)
(*                                                                         *)
(* The leases around this are in HomeFeedExecution and LeasedRuns, the     *)
(* browser in BrowserJobs.  A read that ends after the hand-over changes a *)
(* buffer nobody looks at any more and is left out.                        *)
(***************************************************************************)
EXTENDS PostExtraction

CONSTANTS
    Responses,
    Feeds,               \* what Facebook may answer to each, Null when it does not
    MaxPosts

ASSUME CollectionBounds == MaxPosts \in Nat \ {0}

\* asked is the url a fetch of the page names, got the one it was redirected to;
\* scripted: the page's own request, not a navigation of it
Answer == [asked : STRING, got : STRING, scripted : BOOLEAN, bodies : Seq(Seq(Node))]

ASSUME FeedsAnswer ==
    Feeds \subseteq [Responses -> Answer \cup {Null}] /\ Null \notin Answer

VARIABLES
    mode, feed,
    phase,
    net,                 \* the read of each response by the listener
    sending,             \* bodies the page has sent that have not arrived
    captured,            \* the buffer
    awaited,             \* the responses that came while the page was driven
    cut,                 \* the deadline or a signal ended the wait
    aborted,             \* the abort signal
    passed,              \* the payloads handed over
    at,                  \* payloads dealt with so far
    broken,              \* those that could not be extracted
    accepted,            \* the candidates for submission
    next,                \* candidates dealt with so far
    cache,               \* publishers observed by this run, and how that went
    observations,        \* history: calls to observe each publisher
    summary

vars == <<mode, feed, phase, net, sending, captured, awaited, cut, aborted, passed,
          at, broken, accepted, next, cache, observations, summary>>
chosen == <<mode, feed>>
captureVars == <<net, sending, captured>>
handlingVars == <<passed, at, broken, accepted, next, cache, observations, summary>>

NoSummary == [extracted |-> 0, deduplicated |-> 0, submitted |-> 0, failed |-> 0,
              unobserved |-> 0]

-----------------------------------------------------------------------------
(* The capture buffer *)

Capturing == phase \in {"DRIVING", "SETTLING"}

\* Mutant: what arrives twice is kept twice
RecordedAlways(buffer, url, body) == Append(buffer, [url |-> url, body |-> body])

\* Mutant: one payload for each url
RecordedPerUrl(buffer, url, body) ==
    IF \E k \in DOMAIN buffer : buffer[k].url = url
    THEN buffer ELSE Append(buffer, [url |-> url, body |-> body])

\* recordParsedPayload: the same body from the same url is kept once
Recorded(buffer, url, body) ==
    IF [url |-> url, body |-> body] \in Range(buffer)
    THEN buffer ELSE Append(buffer, [url |-> url, body |-> body])

\* A response arrives; its text has yet to be read, by the script and the listener
Respond(r) ==
    /\ Capturing /\ net[r] = "NONE" /\ feed[r] # Null
    /\ net' = [net EXCEPT ![r] = "READING"]
    /\ sending' = [sending EXCEPT ![r] = IF feed[r].scripted THEN feed[r].bodies ELSE <<>>]
    /\ awaited' = IF phase = "DRIVING" THEN awaited \cup {r} ELSE awaited
    /\ UNCHANGED <<captured, phase, cut, aborted>>
    /\ UNCHANGED chosen /\ UNCHANGED handlingVars

\* recordPageContextCapture
PageTells(r) ==
    /\ Capturing /\ sending[r] # <<>>
    /\ captured' = Recorded(captured, feed[r].asked, Head(sending[r]))
    /\ sending' = [sending EXCEPT ![r] = Tail(@)]
    /\ UNCHANGED <<net, phase, awaited, cut, aborted>>
    /\ UNCHANGED chosen /\ UNCHANGED handlingVars

\* The page navigates away or the script cannot read the text
PageFails(r) ==
    /\ Capturing /\ sending[r] # <<>>
    /\ sending' = [sending EXCEPT ![r] = <<>>]
    /\ UNCHANGED <<net, captured, phase, awaited, cut, aborted>>
    /\ UNCHANGED chosen /\ UNCHANGED handlingVars

\* captureNetworkResponse: all bodies of the response are recorded at once
NetworkTells(r) ==
    /\ Capturing /\ net[r] = "READING"
    /\ net' = [net EXCEPT ![r] = "READ"]
    /\ captured' = FoldLeft(LAMBDA buffer, body : Recorded(buffer, feed[r].got, body),
                            captured, feed[r].bodies)
    /\ UNCHANGED <<sending, phase, awaited, cut, aborted>>
    /\ UNCHANGED chosen /\ UNCHANGED handlingVars

NetworkFails(r) ==
    /\ Capturing /\ net[r] = "READING"
    /\ net' = [net EXCEPT ![r] = "FAILED"]
    /\ UNCHANGED <<sending, captured, phase, awaited, cut, aborted>>
    /\ UNCHANGED chosen /\ UNCHANGED handlingVars

-----------------------------------------------------------------------------
(* The end of the capture *)

\* A wall, a crashed page or a signal: nothing is handed over
CaptureFails ==
    /\ phase = "DRIVING"
    /\ phase' = "FAILED"
    /\ UNCHANGED <<awaited, cut, aborted>>
    /\ UNCHANGED chosen /\ UNCHANGED captureVars /\ UNCHANGED handlingVars

\* The last look at the page is over
Settle ==
    /\ phase = "DRIVING"
    /\ phase' = "SETTLING"
    /\ UNCHANGED <<awaited, cut, aborted>>
    /\ UNCHANGED chosen /\ UNCHANGED captureVars /\ UNCHANGED handlingVars

HandOver ==
    /\ phase' = "EXTRACTING"
    /\ passed' = [k \in DOMAIN captured |-> captured[k].body]
    /\ UNCHANGED <<awaited, aborted, at, broken, accepted, next, cache, observations, summary>>
    /\ UNCHANGED chosen /\ UNCHANGED captureVars

\* Mutant: it is enough that one of the reads under way has ended
SettledByOne ==
    /\ phase = "SETTLING"
    /\ awaited # {} => \E r \in awaited : net[r] # "READING"
    /\ HandOver
    /\ UNCHANGED cut

\* settlePendingCaptures: it waits for the reads that were under way
Settled ==
    /\ phase = "SETTLING"
    /\ \A r \in awaited : net[r] # "READING"
    /\ HandOver
    /\ UNCHANGED cut

CutShort ==
    /\ phase = "SETTLING"
    /\ \E r \in awaited : net[r] = "READING"
    /\ HandOver
    /\ cut' = TRUE

\* While the page is driven a signal fails the capture, and the executor of a
\* group does not look at it
Abort ==
    /\ mode = "HOME_FEED" /\ phase \in {"SETTLING", "EXTRACTING", "SUBMITTING"}
    /\ ~aborted
    /\ aborted' = TRUE
    /\ UNCHANGED <<phase, awaited, cut>>
    /\ UNCHANGED chosen /\ UNCHANGED captureVars /\ UNCHANGED handlingVars

-----------------------------------------------------------------------------
(* Extraction *)

\* Mutant: the set of posts seen starts anew with each payload
FreshInPayload(c, before, so) == \A k \in DOMAIN so : k > before => so[k].post # c.post

\* collectCandidates takes a post from the first payload that has it
Fresh(c, before, so) == \A k \in DOMAIN so : so[k].post # c.post

\* ... and no more than maxPosts of them
Collected(so, candidates) ==
    FoldLeft(LAMBDA kept, c :
                IF Fresh(c, Len(so), kept) /\ Len(kept) < MaxPosts
                THEN Append(kept, c) ELSE kept,
             so, candidates)

\* A payload is left; the executor of a home feed stops at maxPosts, and looks at
\* the signal before the first
PayloadLeft ==
    /\ phase = "EXTRACTING" /\ at < Len(passed)
    /\ mode = "HOME_FEED" => Len(accepted) < MaxPosts /\ (at = 0 => ~aborted)

\* The executor of a home feed
CollectFeedPayload ==
    /\ mode = "HOME_FEED" /\ PayloadLeft
    /\ LET candidates == Extract(mode, passed[at + 1])
           collected == Collected(accepted, candidates)
       IN  /\ accepted' = collected
           /\ summary' = [summary EXCEPT
                !.extracted = @ + Len(candidates),
                !.deduplicated = @ + Len(collected) - Len(accepted)]
    /\ at' = at + 1
    /\ UNCHANGED <<phase, awaited, cut, aborted, passed, broken, next, cache, observations>>
    /\ UNCHANGED chosen /\ UNCHANGED captureVars

FeedExtracted ==
    /\ phase = "EXTRACTING" /\ mode = "HOME_FEED"
    /\ at = Len(passed) \/ Len(accepted) = MaxPosts
    /\ at = 0 => ~aborted
    /\ phase' = "SUBMITTING"
    /\ UNCHANGED <<awaited, cut, aborted>>
    /\ UNCHANGED chosen /\ UNCHANGED captureVars /\ UNCHANGED handlingVars

\* The executor of a group submits one payload's candidates before it extracts
\* the next, and does not look at the signal
ExtractGroupPayload ==
    /\ mode = "GROUP" /\ PayloadLeft
    /\ accepted' = accepted \o Extract(mode, passed[at + 1])
    /\ at' = at + 1
    /\ summary' = [summary EXCEPT !.extracted = @ + Len(Extract(mode, passed[at + 1]))]
    /\ phase' = "SUBMITTING"
    /\ UNCHANGED <<awaited, cut, aborted, passed, broken, next, cache, observations>>
    /\ UNCHANGED chosen /\ UNCHANGED captureVars

\* Mutant: a payload that could not be extracted is as good as an empty one
ExtractionPassedOver ==
    /\ PayloadLeft
    /\ at' = at + 1
    /\ UNCHANGED <<phase, awaited, cut, aborted, passed, broken, accepted, next, cache,
                   observations, summary>>
    /\ UNCHANGED chosen /\ UNCHANGED captureVars

\* The extractor throws or finds the payload invalid: both executors count nothing
\* for it and go on with the next; that of a group keeps the error
ExtractionFails ==
    /\ PayloadLeft
    /\ at' = at + 1
    /\ broken' = broken \cup {at + 1}
    /\ UNCHANGED <<phase, awaited, cut, aborted, passed, accepted, next, cache, observations,
                   summary>>
    /\ UNCHANGED chosen /\ UNCHANGED captureVars

-----------------------------------------------------------------------------
(* Submission *)

Candidates == phase = "SUBMITTING" /\ next < Len(accepted)
Current == accepted[next + 1]

Count(counted) ==
    /\ summary' = counted
    /\ next' = next + 1

\* submitCandidate; without a home feed there is nothing to observe
SubmitToGroup ==
    /\ Candidates /\ mode = "GROUP"
    /\ \/ Count([summary EXCEPT !.submitted = @ + 1])
       \/ Count([summary EXCEPT !.failed = @ + 1])
    /\ UNCHANGED <<phase, awaited, cut, aborted, passed, at, broken, accepted, cache,
                   observations>>
    /\ UNCHANGED chosen /\ UNCHANGED captureVars

Known == DOMAIN cache

\* safeObservePublisher, once for each publisher of the run
ObservePublisher ==
    /\ Candidates /\ mode = "HOME_FEED" /\ ~aborted
    /\ Current.publisher \notin Known
    /\ observations' = [observations EXCEPT ![Current.publisher] = @ + 1]
    /\ \/ /\ cache' = [p \in Known \cup {Current.publisher} |->
                        IF p \in Known THEN cache[p] ELSE "OBSERVED"]
          /\ UNCHANGED <<next, summary>>
       \/ /\ cache' = [p \in Known \cup {Current.publisher} |->
                        IF p \in Known THEN cache[p] ELSE "FAILED"]
          /\ Count([summary EXCEPT !.failed = @ + 1, !.unobserved = @ + 1])
    /\ UNCHANGED <<phase, awaited, cut, aborted, passed, at, broken, accepted>>
    /\ UNCHANGED chosen /\ UNCHANGED captureVars

\* A publisher that could not be observed is not tried again: its posts fail
SkipUnobserved ==
    /\ Candidates /\ mode = "HOME_FEED" /\ ~aborted
    /\ Current.publisher \in Known /\ cache[Current.publisher] = "FAILED"
    /\ Count([summary EXCEPT !.failed = @ + 1])
    /\ UNCHANGED <<phase, awaited, cut, aborted, passed, at, broken, accepted, cache,
                   observations>>
    /\ UNCHANGED chosen /\ UNCHANGED captureVars

\* safeSubmitContent
SubmitToFeed ==
    /\ Candidates /\ mode = "HOME_FEED" /\ ~aborted
    /\ Current.publisher \in Known /\ cache[Current.publisher] = "OBSERVED"
    /\ \/ Count([summary EXCEPT !.submitted = @ + 1])
       \/ Count([summary EXCEPT !.failed = @ + 1])
    /\ UNCHANGED <<phase, awaited, cut, aborted, passed, at, broken, accepted, cache,
                   observations>>
    /\ UNCHANGED chosen /\ UNCHANGED captureVars

PayloadSubmitted ==
    /\ phase = "SUBMITTING" /\ mode = "GROUP" /\ next = Len(accepted)
    /\ phase' = "EXTRACTING"
    /\ UNCHANGED <<awaited, cut, aborted>>
    /\ UNCHANGED chosen /\ UNCHANGED captureVars /\ UNCHANGED handlingVars

\* The executor of a home feed stops at a signal, with what it has submitted
Interrupted ==
    /\ mode = "HOME_FEED" /\ aborted
    /\ \/ phase = "EXTRACTING" /\ at = 0
       \/ Candidates
    /\ phase' = "INTERRUPTED"
    /\ UNCHANGED <<awaited, cut, aborted>>
    /\ UNCHANGED chosen /\ UNCHANGED captureVars /\ UNCHANGED handlingVars

\* A payload that could not be extracted spoils a group's run, and not a home feed's
FullyDone == summary.failed = 0 /\ (mode = "GROUP" => broken = {})

\* The verdict of the run
Finish ==
    /\ \/ mode = "GROUP" /\ phase = "EXTRACTING" /\ at = Len(passed)
       \/ mode = "HOME_FEED" /\ phase = "SUBMITTING" /\ next = Len(accepted)
    /\ phase' = IF FullyDone THEN "SUCCEEDED" ELSE "PARTIAL"
    /\ UNCHANGED <<awaited, cut, aborted>>
    /\ UNCHANGED chosen /\ UNCHANGED captureVars /\ UNCHANGED handlingVars

Init ==
    /\ mode \in Modes
    /\ feed \in Feeds
    /\ phase = "DRIVING"
    /\ net = [r \in Responses |-> "NONE"]
    /\ sending = [r \in Responses |-> <<>>]
    /\ captured = <<>> /\ passed = <<>> /\ accepted = <<>>
    /\ awaited = {}
    /\ cut = FALSE /\ aborted = FALSE
    /\ at = 0 /\ broken = {} /\ next = 0
    /\ cache = <<>>
    /\ observations = [p \in Publishers |-> 0]
    /\ summary = NoSummary

Capture ==
    \/ \E r \in Responses :
          \/ Respond(r)
          \/ PageTells(r) \/ PageFails(r)
          \/ NetworkTells(r) \/ NetworkFails(r)
    \/ CaptureFails \/ Settle \/ Settled \/ CutShort

Executor ==
    \/ CollectFeedPayload \/ FeedExtracted \/ ExtractGroupPayload \/ ExtractionFails
    \/ SubmitToGroup \/ ObservePublisher \/ SkipUnobserved \/ SubmitToFeed
    \/ PayloadSubmitted \/ Interrupted \/ Finish

Next == Capture \/ Executor \/ Abort

Spec == Init /\ [][Next]_vars

-----------------------------------------------------------------------------
(* Properties *)

\* Types of the capture, of the hand-over and of what is collected.
TypeOK ==
    /\ mode \in Modes
    /\ phase \in {"DRIVING", "SETTLING", "EXTRACTING", "SUBMITTING", "FAILED",
                  "INTERRUPTED", "SUCCEEDED", "PARTIAL"}
    /\ net \in [Responses -> {"NONE", "READING", "READ", "FAILED"}]
    /\ awaited \subseteq {r \in Responses : net[r] # "NONE"}
    /\ cut \in BOOLEAN /\ aborted \in BOOLEAN
    /\ Len(captured) = Cardinality(Range(captured))
    /\ at \in 0 .. Len(passed) /\ broken \subseteq 1 .. at /\ next \in 0 .. Len(accepted)
    /\ Known \subseteq Publishers
    /\ DOMAIN summary = DOMAIN NoSummary /\ Range(summary) \subseteq Nat

HandedOver == phase \notin {"DRIVING", "SETTLING", "FAILED"}

\* Every body of an answer that came while the page was driven is handed over for
\* extraction, by whichever transport and in whatever order it reached the buffer,
\* unless the listener could not read it or the wait was cut short.
NothingHeardIsLost ==
    HandedOver /\ ~cut =>
        \A r \in awaited :
            net[r] = "FAILED" \/ Range(feed[r].bodies) \subseteq Range(passed)

\* The candidates of a post in one payload
Tellings(post, t) ==
    {c \in {Candidate(mode, t, i) : i \in {j \in DOMAIN t : Accepted(mode, t, j)}} :
        c.post = post}

\* The payloads that were extracted
Legible == (1 .. at) \ broken

\* A home feed run takes each post once and no more than it may: as the richest
\* fragment tells it in the first payload that has it and can be extracted.
\* Fragments, both transports and redirected requests repeat a post in one payload
\* and in several.
EachPostOnce ==
    mode = "HOME_FEED" =>
        /\ Len(accepted) <= MaxPosts
        /\ \A k \in DOMAIN accepted :
              LET c == accepted[k]
                  telling == {n \in Legible : Tellings(c.post, passed[n]) # {}}
              IN  /\ \A l \in DOMAIN accepted : accepted[l].post = c.post => l = k
                  /\ c \in Tellings(c.post, passed[Min(telling)])
                  /\ \A d \in Tellings(c.post, passed[Min(telling)]) : d.text <= c.text

\* The summary of a run that was not interrupted accounts for every candidate:
\* submitted or failed, also when its publisher failed for an earlier one; a
\* publisher is observed once at most.  Of each post in a payload that could be
\* extracted there is a candidate, until a home feed has maxPosts.  A run succeeds
\* when all were submitted, a group's only if no payload it was handed is left out.
SummaryAddsUp ==
    /\ \A p \in Publishers : observations[p] <= 1
    /\ phase \in {"SUCCEEDED", "PARTIAL"} =>
          /\ summary.submitted + summary.failed = Len(accepted)
          /\ Len(accepted) = IF mode = "GROUP" THEN summary.extracted
                                               ELSE summary.deduplicated
          /\ mode = "GROUP" \/ Len(accepted) < MaxPosts =>
                \A n \in DOMAIN passed \ broken : \A c \in Range(Extract(mode, passed[n])) :
                    \E d \in Range(accepted) : d.post = c.post
          /\ phase = "SUCCEEDED" <=>
                /\ summary.submitted = Len(accepted)
                /\ mode = "GROUP" => Legible = DOMAIN passed
=============================================================================
