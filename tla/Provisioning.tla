---------------------------- MODULE Provisioning -----------------------------
(***************************************************************************)
(* How a profile gets its session: an operator starts provisioning, copies *)
(* the token to the provisioning tool, logs in by hand in the browser the  *)
(* tool opens, and the tool captures the session and submits it.  Tools    *)
(* are processes that can be signalled, fail and lose answers; meanwhile   *)
(* tokens expire, the operator issues new ones, and other processes lease  *)
(* the profile and meet walls.                                             *)
(*                                                                         *)
(* The ingestion of a session reads the profile's row, checks it and saves *)
(* it whole in statements of their own, between which other requests run;  *)
(* the other requests are single steps here, and overlap in ProfileLease.  *)
(* Tokens are numbered in the order in which they are issued, and a        *)
(* session is named by the token it was ingested with.                     *)
(***************************************************************************)
EXTENDS Integers, Sequences

CONSTANTS
    Profiles,
    Tools,               \* runs of the provisioning tool
    Mortal,              \* those that may die at any moment
    MaxTokens            \* bound on the tokens issued

ASSUME ProvisioningBound == MaxTokens \in Nat

VARIABLES
    row,                 \* the columns of a profile that provisioning is about
    issued,              \* the profile each token was issued for, in order
    expired,             \* the tokens whose 15 minutes are over
    tool, browser,       \* the tools and the browsers they launched
    request,             \* how far the server is with the submission of each tool
    seen,                \* the row that the request has read
    overwritten,         \* history: profiles of which a save has replaced a newer row
    walled               \* history: tokens issued when the account last met a wall

vars == <<row, issued, expired, tool, browser, request, seen, overwritten, walled>>
requestVars == <<request, seen, overwritten>>
serverVars == <<row, issued, expired, requestVars, walled>>

Numbers == 1 .. MaxTokens

\* WALLED stands for REAUTH_REQUIRED and CHECKPOINT_REVIEW_REQUIRED, which
\* provisioning does not tell apart
Healths == {"NOT_PROVISIONED", "HEALTHY", "WALLED"}

\* token 0 stands for none, session 0 for no captured session
Row == [status : {"PENDING_CONFIG", "PENDING_LOGIN", "READY", "BUSY"},
        health : Healths, token : 0 .. MaxTokens, session : 0 .. MaxTokens]

NewRow == [status |-> "PENDING_CONFIG", health |-> "NOT_PROVISIONED",
           token |-> 0, session |-> 0]

\* What the tool reports: REFUSED stands for an answer of the 400s, RESPONSE_ERROR
\* for one of the 500s and for one of the wrong shape
Reports == {"NONE", "OK", "REFUSED", "NETWORK_ERROR", "RESPONSE_ERROR",
            "INTERRUPTED", "BROWSER_FLOW_FAILED"}

Tool == [step : {"IDLE", "FETCHING", "FETCHED", "LAUNCHING", "OPENING", "LOGGING_IN",
                 "CONFIRMED", "CAPTURED", "SUBMITTING", "CLOSING", "DONE"},
         token : 0 .. MaxTokens, signalled : BOOLEAN, report : Reports]

IdleTool == [step |-> "IDLE", token |-> 0, signalled |-> FALSE, report |-> "NONE"]

Running == {"FETCHING", "FETCHED", "LAUNCHING", "OPENING", "LOGGING_IN",
            "CONFIRMED", "CAPTURED", "SUBMITTING", "CLOSING"}

-----------------------------------------------------------------------------
(* The profile manager *)

\* A restart supersedes the token issued before; session and health are kept
AwaitingLogin(p, n) == [row[p] EXCEPT !.status = "PENDING_LOGIN", !.token = n]

\* canStartProvisioning, of a profile whose configuration is complete
CanStart(p) ==
    \/ row[p].status \in {"PENDING_CONFIG", "PENDING_LOGIN"}
    \/ row[p].status = "READY" /\ row[p].health = "WALLED"

StartProvisioning(p) ==
    /\ Len(issued) < MaxTokens
    /\ CanStart(p)
    /\ issued' = Append(issued, p)
    /\ row' = [row EXCEPT ![p] = AwaitingLogin(p, Len(issued) + 1)]
    /\ UNCHANGED <<expired, tool, browser, requestVars, walled>>

\* The time of a token that is still in a row is over
Expire(n) ==
    /\ n \notin expired /\ \E p \in Profiles : row[p].token = n
    /\ expired' = expired \cup {n}
    /\ UNCHANGED <<row, issued, tool, browser, requestVars, walled>>

\* Mutant: any token ever issued for the profile will do
UsableStale(n, p) == issued[n] = p /\ row[p].status = "PENDING_LOGIN" /\ n \notin expired

\* findByProvisioningToken, the status check and assertUsableProvisioningToken,
\* the same for reading the configuration and for ingesting a session
Usable(n, p) ==
    /\ row[p].token = n
    /\ row[p].status = "PENDING_LOGIN"
    /\ n \notin expired

\* Mutant: the token is not consumed
IngestedUnconsumed(old, n) ==
    [old EXCEPT !.status = "READY", !.health = "HEALTHY", !.session = n]

\* The session replaces the last one and the token is consumed
Ingested(old, n) ==
    [old EXCEPT !.status = "READY", !.health = "HEALTHY", !.session = n, !.token = 0]

\* The submission of a tool is read and checked, or refused for this or another
\* reason, whether or not the tool still waits
Admit(t) ==
    LET n == tool[t].token
        p == issued[n]
    IN  /\ request[t] = "SENT"
        /\ \/ /\ Usable(n, p)
              /\ request' = [request EXCEPT ![t] = "ADMITTED"]
              /\ seen' = [seen EXCEPT ![t] = row[p]]
           \/ /\ request' = [request EXCEPT ![t] = "REFUSED"]
              /\ UNCHANGED seen
        /\ UNCHANGED <<row, issued, expired, tool, browser, overwritten, walled>>

\* The row that was read is saved with the session, over whatever there is now
SaveSession(t) ==
    LET n == tool[t].token
        p == issued[n]
    IN  /\ request[t] = "ADMITTED"
        /\ row' = [row EXCEPT ![p] = Ingested(seen[t], n)]
        /\ overwritten' = IF row[p] = seen[t] THEN overwritten ELSE overwritten \cup {p}
        /\ request' = [request EXCEPT ![t] = "SAVED"]
        /\ UNCHANGED <<issued, expired, tool, browser, seen, walled>>

\* A checkout needs a healthy account; what else it needs does not matter here
CheckOut(p) ==
    /\ row[p].status = "READY" /\ row[p].health = "HEALTHY"
    /\ row' = [row EXCEPT ![p].status = "BUSY"]
    /\ UNCHANGED <<issued, expired, tool, browser, requestVars, walled>>

Release(p) ==
    /\ row[p].status = "BUSY"
    /\ \/ /\ row' = [row EXCEPT ![p].status = "READY"]
          /\ UNCHANGED walled
       \/ /\ row' = [row EXCEPT ![p].status = "READY", ![p].health = "WALLED"]
          /\ walled' = [walled EXCEPT ![p] = Len(issued)]
    /\ UNCHANGED <<issued, expired, tool, browser, requestVars>>

-----------------------------------------------------------------------------
(* The tool *)

Become(t, state) == tool' = [tool EXCEPT ![t] = state]

Goes(t, step) == Become(t, [tool[t] EXCEPT !.step = step])

\* The result is decided; the browser is still to be closed
Result(t, report) ==
    Become(t, [tool[t] EXCEPT !.step = "CLOSING", !.report = report])

\* The catch clause: whatever failed, an aborted signal makes it an interrupt
Caught(t, report) == Result(t, IF tool[t].signalled THEN "INTERRUPTED" ELSE report)

\* The operator runs the tool with a token that was shown to him
StartTool(t, n) ==
    /\ tool[t].step = "IDLE" /\ n \in 1 .. Len(issued)
    /\ Become(t, [tool[t] EXCEPT !.step = "FETCHING", !.token = n])
    /\ UNCHANGED browser /\ UNCHANGED serverVars

\* The answers that a request without effect may get, none among them
Errors == {"REFUSED", "NETWORK_ERROR", "RESPONSE_ERROR"}

\* getProvisioningConfiguration: errors are results too
FetchConfiguration(t) ==
    LET n == tool[t].token IN
    /\ tool[t].step = "FETCHING"
    /\ \/ Usable(n, issued[n]) /\ Goes(t, "FETCHED")
       \/ \E error \in Errors : Result(t, error)
    /\ UNCHANGED browser /\ UNCHANGED serverVars

\* throwIfAborted, or a network context that no launch configuration can express
Unlaunched(t) ==
    /\ tool[t].step = "FETCHED"
    /\ Caught(t, "BROWSER_FLOW_FAILED")
    /\ UNCHANGED browser /\ UNCHANGED serverVars

Launch(t) ==
    /\ tool[t].step = "FETCHED" /\ ~tool[t].signalled
    /\ Goes(t, "LAUNCHING")
    /\ UNCHANGED browser /\ UNCHANGED serverVars

\* The launch does not look at the signal
Launched(t) ==
    /\ tool[t].step = "LAUNCHING"
    /\ Goes(t, "OPENING")
    /\ browser' = [browser EXCEPT ![t] = "OPEN"]
    /\ UNCHANGED serverVars

\* Both providers try to close what they launched in vain
LaunchFails(t) ==
    /\ tool[t].step = "LAUNCHING"
    /\ Caught(t, "BROWSER_FLOW_FAILED")
    /\ \E remains \in {"NONE", "LEFT"} : browser' = [browser EXCEPT ![t] = remains]
    /\ UNCHANGED serverVars

OpenLoginPage(t) ==
    /\ tool[t].step = "OPENING"
    /\ Goes(t, "LOGGING_IN") \/ Caught(t, "BROWSER_FLOW_FAILED")
    /\ UNCHANGED browser /\ UNCHANGED serverVars

\* The operator presses Enter; nothing checks that he is logged in
Confirm(t) ==
    /\ tool[t].step = "LOGGING_IN" /\ ~tool[t].signalled
    /\ Goes(t, "CONFIRMED")
    /\ UNCHANGED browser /\ UNCHANGED serverVars

\* Mutant: the question is not aborted
InterruptedAfterwards(t) ==
    /\ tool[t].step = "CONFIRMED" /\ tool[t].signalled
    /\ Result(t, "INTERRUPTED")
    /\ UNCHANGED browser /\ UNCHANGED serverVars

\* Control-C at the prompt rejects the question, too
Interrupted(t) ==
    /\ \/ tool[t].step = "LOGGING_IN"
       \/ tool[t].step = "CONFIRMED" /\ tool[t].signalled
    /\ Result(t, "INTERRUPTED")
    /\ UNCHANGED browser /\ UNCHANGED serverVars

\* captureSessionState; the prompt is followed by a last look at the signal,
\* the capture by none
Capture(t) ==
    /\ tool[t].step = "CONFIRMED"
    /\ Goes(t, "CAPTURED") \/ Caught(t, "BROWSER_FLOW_FAILED")
    /\ UNCHANGED browser /\ UNCHANGED serverVars

\* assertCapturedSessionStateIsComplete, then the request
Submit(t) ==
    /\ tool[t].step = "CAPTURED"
    /\ \/ /\ Goes(t, "SUBMITTING")
          /\ request' = [request EXCEPT ![t] = "SENT"]
       \/ /\ Caught(t, "BROWSER_FLOW_FAILED")
          /\ UNCHANGED request
    /\ UNCHANGED <<row, issued, expired, browser, seen, overwritten, walled>>

\* Mutant: a failed submission is reported like any other failure
AnsweredCaught(t) ==
    /\ tool[t].step = "SUBMITTING"
    /\ \/ request[t] = "SAVED" /\ Caught(t, "OK")
       \/ request[t] = "REFUSED" /\ Caught(t, "REFUSED")
       \/ \E error \in {"NETWORK_ERROR", "RESPONSE_ERROR"} : Caught(t, error)
    /\ UNCHANGED browser /\ UNCHANGED serverVars

\* ingestSessionState: the answer, or an error that tells nothing of what the
\* server did or still does
Answered(t) ==
    /\ tool[t].step = "SUBMITTING"
    /\ \/ request[t] = "SAVED" /\ Result(t, "OK")
       \/ request[t] = "REFUSED" /\ Result(t, "REFUSED")
       \/ \E error \in {"NETWORK_ERROR", "RESPONSE_ERROR"} : Result(t, error)
    /\ UNCHANGED browser /\ UNCHANGED serverVars

\* What may be left of the browser of a tool that stops
Remains(t) ==
    IF browser[t] = "OPEN" THEN {"CLOSED", "LEFT"}
    ELSE IF tool[t].step = "LAUNCHING" THEN {"NONE", "LEFT"}
    ELSE {browser[t]}

\* closeBrowserSession only warns when the close fails
Close(t) ==
    /\ tool[t].step = "CLOSING"
    /\ Goes(t, "DONE")
    /\ \E remains \in Remains(t) : browser' = [browser EXCEPT ![t] = remains]
    /\ UNCHANGED serverVars

-----------------------------------------------------------------------------
(* Signals *)

Signal(t) ==
    /\ tool[t].step \in Running /\ ~tool[t].signalled
    /\ Become(t, [tool[t] EXCEPT !.signalled = TRUE])
    /\ UNCHANGED browser /\ UNCHANGED serverVars

\* A second signal, for which no handler is left, or the end of the process
Crash(t) ==
    /\ t \in Mortal /\ tool[t].step \in Running
    /\ Become(t, [tool[t] EXCEPT !.step = "DONE", !.report = "NONE"])
    /\ \E remains \in Remains(t) : browser' = [browser EXCEPT ![t] = remains]
    /\ UNCHANGED serverVars

Init ==
    /\ row = [p \in Profiles |-> NewRow]
    /\ issued = <<>> /\ expired = {}
    /\ tool = [t \in Tools |-> IdleTool]
    /\ browser = [t \in Tools |-> "NONE"]
    /\ request = [t \in Tools |-> "NONE"]
    /\ seen = [t \in Tools |-> NewRow]
    /\ overwritten = {}
    /\ walled = [p \in Profiles |-> 0]

ToolStep(t) ==
    \/ FetchConfiguration(t) \/ Unlaunched(t) \/ Launch(t)
    \/ Launched(t) \/ LaunchFails(t) \/ OpenLoginPage(t)
    \/ Capture(t) \/ Submit(t) \/ Answered(t) \/ Close(t)
    \/ tool[t].signalled /\ Interrupted(t)

Operator ==
    \/ \E p \in Profiles : StartProvisioning(p)
    \/ \E t \in Tools : \/ \E n \in Numbers : StartTool(t, n)
                        \/ Confirm(t) \/ Interrupted(t)
                        \/ Signal(t) \/ Crash(t)

Next ==
    \/ \E t \in Tools : ToolStep(t) \/ Admit(t) \/ SaveSession(t)
    \/ Operator
    \/ \E p \in Profiles : CheckOut(p) \/ Release(p)
    \/ \E n \in Numbers : Expire(n)

Spec == Init /\ [][Next]_vars

\* Requests and calls to the browser answer or time out; the operator need not
\* do anything
FairSpec == Spec /\ \A t \in Tools : WF_vars(ToolStep(t))

-----------------------------------------------------------------------------
(* Properties *)

\* Types; a profile has a token exactly while it waits for a login, and one that
\* can be leased has a session.
TypeOK ==
    /\ row \in [Profiles -> Row]
    /\ issued \in Seq(Profiles) /\ Len(issued) <= MaxTokens
    /\ expired \subseteq Numbers
    /\ tool \in [Tools -> Tool]
    /\ browser \in [Tools -> {"NONE", "OPEN", "LEFT", "CLOSED"}]
    /\ request \in [Tools -> {"NONE", "SENT", "ADMITTED", "REFUSED", "SAVED"}]
    /\ seen \in [Tools -> Row] /\ overwritten \subseteq Profiles
    /\ walled \in [Profiles -> 0 .. MaxTokens]
    /\ \A p \in Profiles :
          /\ row[p].token > 0 <=> row[p].status = "PENDING_LOGIN"
          /\ row[p].status \in {"READY", "BUSY"} => row[p].session > 0

\* What the tool reports is what became of the session, whatever was lost or
\* interrupted on the way and whatever the server did meanwhile: after a success
\* the profile has this session or a later one, unless a submission of another tool
\* that was read before has overwritten it; after an interrupt, a refusal or a
\* failure of the browser flow nothing was saved, then or later.  Only errors of the
\* transport leave it open.
ReportTellsSession ==
    \A t \in Tools :
        /\ tool[t].report = "OK" =>
              /\ request[t] = "SAVED"
              /\ issued[tool[t].token] \notin overwritten =>
                    row[issued[tool[t].token]].session >= tool[t].token
        /\ tool[t].report \in {"REFUSED", "INTERRUPTED", "BROWSER_FLOW_FAILED"} =>
              request[t] \in {"NONE", "REFUSED"}

\* An account that met a wall is healthy again only with a session from a
\* provisioning that was started afterwards: no tool that was left running, with
\* whatever token, can bring back an older login, except by a submission that was
\* read before another request changed the row.
HealthyAfterWall ==
    \A p \in Profiles \ overwritten :
        row[p].health = "HEALTHY" => row[p].session > walled[p]

\* A tool that was signalled, or whose operator confirmed the login, ends and
\* leaves no open browser behind that it could have closed.
ToolsEnd ==
    \A t \in Tools :
        (tool[t].signalled \/ tool[t].step = "CONFIRMED") ~>
            (tool[t].step = "DONE" /\ browser[t] # "OPEN")
=============================================================================
