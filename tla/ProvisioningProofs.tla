------------------------- MODULE ProvisioningProofs --------------------------
(***************************************************************************)
(* Theorems of Provisioning, for any number of profiles, tools and tokens. *)
(*                                                                         *)
(* The invariant orders tokens: the one in a row is younger than the       *)
(* session of the row and than its last wall, so a session that is saved   *)
(* over the row it was checked against is younger than both.  A save over  *)
(* a newer row puts the profile into overwritten.                          *)
(***************************************************************************)
EXTENDS Provisioning, TLAPS

Browsers == {"NONE", "OPEN", "LEFT", "CLOSED"}

Stages == {"NONE", "SENT", "ADMITTED", "REFUSED", "SAVED"}

Types ==
    /\ row \in [Profiles -> Row]
    /\ issued \in Seq(Profiles) /\ Len(issued) <= MaxTokens
    /\ expired \subseteq Numbers
    /\ tool \in [Tools -> Tool]
    /\ browser \in [Tools -> Browsers]
    /\ request \in [Tools -> Stages]
    /\ seen \in [Tools -> Row] /\ overwritten \subseteq Profiles
    /\ walled \in [Profiles -> 0 .. MaxTokens]

\* The order of the tokens, sessions and walls of a profile
RowFits(p) ==
    /\ row[p].token > 0 <=> row[p].status = "PENDING_LOGIN"
    /\ row[p].status \in {"READY", "BUSY"} => row[p].session > 0
    /\ row[p].token > 0 =>
          /\ row[p].token <= Len(issued) /\ issued[row[p].token] = p
          /\ row[p].session < row[p].token /\ walled[p] < row[p].token
    /\ row[p].session <= Len(issued) /\ walled[p] <= Len(issued)
    /\ p \notin overwritten /\ row[p].health = "HEALTHY" => row[p].session > walled[p]

\* What a tool knows, what its request has read, and what the profile has of a
\* session that was saved
ToolFits(t) ==
    /\ tool[t].step # "IDLE" => tool[t].token \in 1 .. Len(issued)
    /\ tool[t].step \notin {"CLOSING", "DONE"} => tool[t].report = "NONE"
    /\ tool[t].step \notin {"SUBMITTING", "CLOSING", "DONE"} => request[t] = "NONE"
    /\ tool[t].report = "OK" => request[t] = "SAVED"
    /\ tool[t].report \in {"REFUSED", "INTERRUPTED", "BROWSER_FLOW_FAILED"} =>
          request[t] \in {"NONE", "REFUSED"}
    /\ request[t] = "ADMITTED" => seen[t].token = tool[t].token
    /\ request[t] = "SAVED" /\ issued[tool[t].token] \notin overwritten =>
          row[issued[tool[t].token]].session >= tool[t].token

Inv ==
    /\ Types
    /\ \A p \in Profiles : RowFits(p)
    /\ \A t \in Tools : ToolFits(t)

-----------------------------------------------------------------------------
LEMMA Initially == Init => Inv
BY ProvisioningBound
   DEF Init, Inv, Types, RowFits, ToolFits, Row, NewRow, Healths, Stages,
       Tool, IdleTool, Reports, Browsers, Numbers

\* A step of one tool, which at most sends its request
LEMMA ToolMoves ==
    ASSUME Inv, NEW t \in Tools, NEW new \in Tool, Become(t, new),
           UNCHANGED <<row, issued, expired, seen, overwritten, walled>>,
           request' \in [Tools -> Stages],
           \A u \in Tools : u # t => request'[u] = request[u],
           request'[t] = request[t] \/ request'[t] = "SENT",
           browser' \in [Tools -> Browsers],
           new.step # "IDLE" => new.token \in 1 .. Len(issued),
           new.step \notin {"CLOSING", "DONE"} => new.report = "NONE",
           new.step \notin {"SUBMITTING", "CLOSING", "DONE"} => request'[t] = "NONE",
           new.report = "OK" => request'[t] = "SAVED",
           new.report \in {"REFUSED", "INTERRUPTED", "BROWSER_FLOW_FAILED"} =>
               request'[t] \in {"NONE", "REFUSED"},
           request'[t] \in {"ADMITTED", "SAVED"} => new.token = tool[t].token
    PROVE  Inv'
<1>1. /\ row' = row /\ issued' = issued /\ expired' = expired
      /\ seen' = seen /\ overwritten' = overwritten /\ walled' = walled
  OBVIOUS
<1>2. tool' = [tool EXCEPT ![t] = new]
  BY DEF Become
<1>3. Types'
  BY <1>1, <1>2 DEF Inv, Types
<1>4. \A p \in Profiles : RowFits(p)'
  BY <1>1 DEF Inv, RowFits
<1>5. tool'[t] = new /\ \A u \in Tools : u # t => tool'[u] = tool[u]
  BY <1>2 DEF Inv, Types
<1>6. ASSUME NEW u \in Tools PROVE ToolFits(u)'
  <2>1. CASE u = t
    <3>1. ToolFits(t)
      BY DEF Inv
    <3>2. request'[t] = "ADMITTED" => seen'[t].token = new.token
      BY <1>1, <3>1 DEF ToolFits
    <3>3. request'[t] = "SAVED" /\ issued'[new.token] \notin overwritten' =>
             row'[issued'[new.token]].session >= new.token
      BY <1>1, <3>1 DEF ToolFits
    <3> QED BY <2>1, <1>1, <1>5, <3>2, <3>3 DEF ToolFits
  <2>2. CASE u # t
    BY <2>2, <1>1, <1>5 DEF Inv, ToolFits
  <2> QED BY <2>1, <2>2
<1> QED BY <1>3, <1>4, <1>6 DEF Inv

\* A step of one tool that leaves the server alone
LEMMA ToolMovesAlone ==
    ASSUME Inv, NEW t \in Tools, NEW new \in Tool, Become(t, new),
           UNCHANGED serverVars, browser' \in [Tools -> Browsers],
           new.step # "IDLE" => new.token \in 1 .. Len(issued),
           new.step \notin {"CLOSING", "DONE"} => new.report = "NONE",
           new.step \notin {"SUBMITTING", "CLOSING", "DONE"} => request[t] = "NONE",
           new.report = "OK" => request[t] = "SAVED",
           new.report \in {"REFUSED", "INTERRUPTED", "BROWSER_FLOW_FAILED"} =>
               request[t] \in {"NONE", "REFUSED"},
           request[t] \in {"ADMITTED", "SAVED"} => new.token = tool[t].token
    PROVE  Inv'
<1>1. /\ UNCHANGED <<row, issued, expired, seen, overwritten, walled>>
      /\ request' = request
  BY DEF serverVars, requestVars
<1>2. request' \in [Tools -> Stages]
  BY <1>1 DEF Inv, Types
<1> QED BY <1>1, <1>2, ToolMoves

\* The records the actions write
LEMMA Stepping ==
    ASSUME NEW old \in Tool, NEW step \in Running \cup {"DONE"}
    PROVE  [old EXCEPT !.step = step] \in Tool
BY DEF Tool, Running

LEMMA Reporting ==
    ASSUME NEW old \in Tool, NEW step \in {"CLOSING", "DONE"}, NEW report \in Reports
    PROVE  [old EXCEPT !.step = step, !.report = report] \in Tool
BY DEF Tool

LEMMA Fetching ==
    ASSUME NEW old \in Tool, NEW n \in 0 .. MaxTokens
    PROVE  [old EXCEPT !.step = "FETCHING", !.token = n] \in Tool
BY DEF Tool

LEMMA Aborting ==
    ASSUME NEW old \in Tool
    PROVE  [old EXCEPT !.signalled = TRUE] \in Tool
BY DEF Tool

-----------------------------------------------------------------------------
(* Tools *)

LEMMA Going ==
    ASSUME Inv, NEW t \in Tools, NEW step \in Running,
           tool[t].step \in Running \ {"SUBMITTING", "CLOSING"},
           step \notin {"SUBMITTING", "CLOSING"},
           Goes(t, step), UNCHANGED serverVars, browser' \in [Tools -> Browsers]
    PROVE  Inv'
<1> DEFINE new == [tool[t] EXCEPT !.step = step]
<1>1. tool[t] \in Tool /\ ToolFits(t)
  BY DEF Inv, Types
<1>2. new \in Tool
  BY <1>1, Stepping
<1>3. new.step = step /\ new.token = tool[t].token /\ new.report = tool[t].report
  BY <1>1 DEF Tool
<1>4. tool[t].report = "NONE" /\ request[t] = "NONE"
      /\ tool[t].token \in 1 .. Len(issued)
  BY <1>1 DEF ToolFits, Running
<1> HIDE DEF new
<1>5. Become(t, new)
  BY DEF Goes, new
<1> QED BY <1>2, <1>3, <1>4, <1>5, ToolMovesAlone

LEMMA Resulting ==
    ASSUME Inv, NEW t \in Tools, NEW report \in Reports,
           tool[t].step \in Running \ {"CLOSING"}, report # "OK",
           report \in {"REFUSED", "INTERRUPTED", "BROWSER_FLOW_FAILED"} =>
               request[t] \in {"NONE", "REFUSED"},
           Result(t, report), UNCHANGED serverVars, browser' \in [Tools -> Browsers]
    PROVE  Inv'
<1> DEFINE new == [tool[t] EXCEPT !.step = "CLOSING", !.report = report]
<1>1. tool[t] \in Tool /\ ToolFits(t)
  BY DEF Inv, Types
<1>2. new \in Tool
  BY <1>1, Reporting
<1>3. new.step = "CLOSING" /\ new.token = tool[t].token /\ new.report = report
  BY <1>1 DEF Tool
<1>4. tool[t].token \in 1 .. Len(issued)
  BY <1>1 DEF ToolFits, Running
<1> HIDE DEF new
<1>5. Become(t, new)
  BY DEF Result, new
<1> QED BY <1>2, <1>3, <1>4, <1>5, ToolMovesAlone

LEMMA NothingSent ==
    ASSUME Inv, NEW t \in Tools, tool[t].step \in Running \ {"SUBMITTING", "CLOSING"}
    PROVE  request[t] = "NONE"
BY DEF Inv, ToolFits, Running

LEMMA Catching ==
    ASSUME Inv, NEW t \in Tools, tool[t].step \in Running \ {"SUBMITTING", "CLOSING"},
           Caught(t, "BROWSER_FLOW_FAILED"), UNCHANGED serverVars,
           browser' \in [Tools -> Browsers]
    PROVE  Inv'
BY Resulting, NothingSent DEF Caught, Reports

\* Steps of a tool other than its start, its end and the submission
LEMMA Driving ==
    ASSUME Inv, NEW t \in Tools,
           \/ FetchConfiguration(t) \/ Unlaunched(t) \/ Launch(t)
           \/ Launched(t) \/ LaunchFails(t) \/ OpenLoginPage(t) \/ Confirm(t)
           \/ Interrupted(t) \/ Capture(t)
    PROVE  Inv'
<1>1. browser \in [Tools -> Browsers]
  BY DEF Inv, Types
<1>2. \A b \in Browsers : [browser EXCEPT ![t] = b] \in [Tools -> Browsers]
  BY <1>1
<1>3. CASE FetchConfiguration(t)
  BY <1>3, <1>1, Going, Resulting, NothingSent DEF FetchConfiguration, Errors, Running, Reports
<1>4. CASE Unlaunched(t)
  BY <1>4, <1>1, Catching DEF Unlaunched, Running
<1>5. CASE Launch(t)
  BY <1>5, <1>1, Going DEF Launch, Running
<1>6. CASE Launched(t)
  BY <1>6, <1>2, Going DEF Launched, Running, Browsers
<1>7. CASE LaunchFails(t)
  BY <1>7, <1>2, Catching DEF LaunchFails, Running, Browsers
<1>8. CASE OpenLoginPage(t)
  BY <1>8, <1>1, Going, Catching DEF OpenLoginPage, Running
<1>9. CASE Confirm(t)
  BY <1>9, <1>1, Going DEF Confirm, Running
<1>10. CASE Interrupted(t)
  BY <1>10, <1>1, Resulting, NothingSent DEF Interrupted, Running, Reports
<1>11. CASE Capture(t)
  BY <1>11, <1>1, Going, Catching DEF Capture, Running
<1> QED BY <1>3, <1>4, <1>5, <1>6, <1>7, <1>8, <1>9, <1>10, <1>11

LEMMA Submitting ==
    ASSUME Inv, NEW t \in Tools, Submit(t)
    PROVE  Inv'
<1> DEFINE new == [tool[t] EXCEPT !.step = "SUBMITTING"]
<1>1. tool[t] \in Tool /\ ToolFits(t) /\ browser \in [Tools -> Browsers]
      /\ request \in [Tools -> Stages]
  BY DEF Inv, Types
<1>2. tool[t].step = "CAPTURED" /\ browser' = browser
      /\ UNCHANGED <<row, issued, expired, seen, overwritten, walled>>
  BY DEF Submit
<1>3. CASE Goes(t, "SUBMITTING") /\ request' = [request EXCEPT ![t] = "SENT"]
  <2>1. new \in Tool
    BY <1>1, Stepping DEF Running
  <2>2. new.step = "SUBMITTING" /\ new.token = tool[t].token
        /\ new.report = tool[t].report
    BY <1>1 DEF Tool
  <2>3. tool[t].report = "NONE" /\ tool[t].token \in 1 .. Len(issued)
    BY <1>1, <1>2 DEF ToolFits
  <2>4. /\ request' \in [Tools -> Stages] /\ request'[t] = "SENT"
        /\ \A u \in Tools : u # t => request'[u] = request[u]
    BY <1>1, <1>3 DEF Stages
  <2> HIDE DEF new
  <2>5. Become(t, new)
    BY <1>3 DEF Goes, new
  <2> QED BY <1>1, <1>2, <2>1, <2>2, <2>3, <2>4, <2>5, ToolMoves
<1>4. CASE Caught(t, "BROWSER_FLOW_FAILED") /\ request' = request
  <2>1. UNCHANGED serverVars
    BY <1>2, <1>4 DEF serverVars, requestVars
  <2> QED BY <1>1, <1>2, <1>4, <2>1, Catching DEF Running
<1> QED BY <1>3, <1>4 DEF Submit

LEMMA Answering ==
    ASSUME Inv, NEW t \in Tools, Answered(t)
    PROVE  Inv'
<1>1. tool[t] \in Tool /\ ToolFits(t) /\ browser \in [Tools -> Browsers]
      /\ browser' = browser /\ UNCHANGED serverVars /\ tool[t].step = "SUBMITTING"
  BY DEF Inv, Types, Answered
<1>2. PICK report \in {"OK", "REFUSED", "NETWORK_ERROR", "RESPONSE_ERROR"} :
         /\ Result(t, report)
         /\ report = "OK" => request[t] = "SAVED"
         /\ report = "REFUSED" => request[t] = "REFUSED"
  BY DEF Answered
<1> DEFINE new == [tool[t] EXCEPT !.step = "CLOSING", !.report = report]
<1>3. new \in Tool
  BY <1>1, Reporting DEF Reports
<1>4. new.step = "CLOSING" /\ new.token = tool[t].token /\ new.report = report
  BY <1>1 DEF Tool
<1>5. tool[t].token \in 1 .. Len(issued)
  BY <1>1 DEF ToolFits
<1> HIDE DEF new
<1>6. Become(t, new)
  BY <1>2 DEF Result, new
<1> QED BY <1>1, <1>2, <1>3, <1>4, <1>5, <1>6, ToolMovesAlone

LEMMA Starting ==
    ASSUME Inv, NEW t \in Tools, NEW n \in Numbers, StartTool(t, n)
    PROVE  Inv'
<1> DEFINE new == [tool[t] EXCEPT !.step = "FETCHING", !.token = n]
<1>1. tool[t] \in Tool /\ ToolFits(t) /\ browser \in [Tools -> Browsers]
      /\ Len(issued) <= MaxTokens /\ Len(issued) \in Nat
  BY DEF Inv, Types
<1>2. n \in 0 .. MaxTokens /\ n \in 1 .. Len(issued)
  BY <1>1, ProvisioningBound DEF StartTool, Numbers
<1>3. new \in Tool
  BY <1>1, <1>2, Fetching
<1>4. new.step = "FETCHING" /\ new.token = n /\ new.report = tool[t].report
  BY <1>1 DEF Tool
<1>5. tool[t].report = "NONE" /\ request[t] = "NONE"
  BY <1>1 DEF ToolFits, StartTool
<1> HIDE DEF new
<1>6. Become(t, new) /\ UNCHANGED serverVars /\ browser' = browser
  BY DEF StartTool, new
<1> QED BY <1>1, <1>2, <1>3, <1>4, <1>5, <1>6, ToolMovesAlone

LEMMA Remaining ==
    ASSUME Inv, NEW t \in Tools,
           \E remains \in Remains(t) : browser' = [browser EXCEPT ![t] = remains]
    PROVE  browser' \in [Tools -> Browsers]
BY DEF Inv, Types, Remains, Browsers

LEMMA Closing ==
    ASSUME Inv, NEW t \in Tools, Close(t)
    PROVE  Inv'
<1> DEFINE new == [tool[t] EXCEPT !.step = "DONE"]
<1>1. tool[t] \in Tool /\ ToolFits(t)
  BY DEF Inv, Types
<1>2. new \in Tool
  BY <1>1, Stepping
<1>3. new.step = "DONE" /\ new.token = tool[t].token /\ new.report = tool[t].report
  BY <1>1 DEF Tool
<1> HIDE DEF new
<1>4. Become(t, new) /\ UNCHANGED serverVars /\ browser' \in [Tools -> Browsers]
  BY Remaining DEF Close, Goes, new
<1>5. tool[t].step = "CLOSING"
  BY DEF Close
<1> QED BY <1>1, <1>2, <1>3, <1>4, <1>5, ToolMovesAlone DEF ToolFits

LEMMA Dying ==
    ASSUME Inv, NEW t \in Tools, Crash(t)
    PROVE  Inv'
<1> DEFINE new == [tool[t] EXCEPT !.step = "DONE", !.report = "NONE"]
<1>1. tool[t] \in Tool /\ ToolFits(t)
  BY DEF Inv, Types
<1>2. new \in Tool
  BY <1>1, Reporting DEF Reports
<1>3. new.step = "DONE" /\ new.token = tool[t].token /\ new.report = "NONE"
  BY <1>1 DEF Tool
<1> HIDE DEF new
<1>4. Become(t, new) /\ UNCHANGED serverVars /\ browser' \in [Tools -> Browsers]
  BY Remaining DEF Crash, new
<1>5. tool[t].step # "IDLE"
  BY DEF Crash, Running
<1> QED BY <1>1, <1>2, <1>3, <1>4, <1>5, ToolMovesAlone DEF ToolFits

LEMMA Signalling ==
    ASSUME Inv, NEW t \in Tools, Signal(t)
    PROVE  Inv'
<1> DEFINE new == [tool[t] EXCEPT !.signalled = TRUE]
<1>1. tool[t] \in Tool /\ ToolFits(t) /\ browser \in [Tools -> Browsers]
  BY DEF Inv, Types
<1>2. new \in Tool
  BY <1>1, Aborting
<1>3. new.step = tool[t].step /\ new.token = tool[t].token
      /\ new.report = tool[t].report
  BY <1>1 DEF Tool
<1> HIDE DEF new
<1>4. Become(t, new) /\ UNCHANGED serverVars /\ browser' = browser
  BY DEF Signal, new
<1> QED BY <1>1, <1>2, <1>3, <1>4, ToolMovesAlone DEF ToolFits
-----------------------------------------------------------------------------
(* The profile manager *)

\* What every change of a row has to keep; tokens may be added
LEMMA RowMoves ==
    ASSUME Inv, NEW p \in Profiles, NEW new \in Row,
           row' = [row EXCEPT ![p] = new], RowFits(p)',
           new.session >= row[p].session,
           issued' \in Seq(Profiles), Len(issued) <= Len(issued'), Len(issued') <= MaxTokens,
           \A n \in 1 .. Len(issued) : issued'[n] = issued[n],
           expired' \subseteq Numbers,
           walled' \in [Profiles -> 0 .. MaxTokens],
           \A q \in Profiles \ {p} : walled'[q] = walled[q],
           UNCHANGED <<tool, browser, request, seen, overwritten>>
    PROVE  Inv'
<1>1. /\ row \in [Profiles -> Row] /\ issued \in Seq(Profiles)
      /\ tool \in [Tools -> Tool]
      /\ tool' = tool /\ browser' = browser /\ request' = request
      /\ seen' = seen /\ overwritten' = overwritten
      /\ Len(issued) \in Nat /\ Len(issued') \in Nat
  BY DEF Inv, Types
<1>2. Types'
  BY <1>1 DEF Inv, Types
<1>3. /\ row'[p] = new
      /\ \A q \in Profiles : q # p => row'[q] = row[q]
  BY <1>1
<1>4. \A q \in Profiles : row'[q].session >= row[q].session
  <2>1. \A q \in Profiles : row[q].session \in Int
    BY <1>1, ProvisioningBound DEF Row
  <2> QED BY <1>3, <2>1
<1>5. ASSUME NEW q \in Profiles PROVE RowFits(q)'
  <2>1. CASE q = p
    BY <2>1
  <2>2. CASE q # p
    <3>1. row'[q] = row[q] /\ walled'[q] = walled[q] /\ RowFits(q)
      BY <2>2, <1>3 DEF Inv
    <3>2. row[q].token \in Nat /\ row[q].session \in Nat /\ walled[q] \in Nat
      BY <1>1, ProvisioningBound DEF Row, Inv, Types
    <3>3. row[q].token > 0 => issued'[row[q].token] = issued[row[q].token]
      BY <3>1, <3>2, <1>1 DEF RowFits
    <3> QED BY <3>1, <3>2, <3>3, <1>1 DEF RowFits
  <2> QED BY <2>1, <2>2
<1>6. ASSUME NEW t \in Tools PROVE ToolFits(t)'
  <2>1. ToolFits(t)
    BY DEF Inv
  <2>2. tool[t].token \in Nat
    BY <1>1, ProvisioningBound DEF Tool
  <2>3. tool[t].step # "IDLE" => tool[t].token \in 1 .. Len(issued)
    BY <2>1 DEF ToolFits
  <2>4. request[t] = "SAVED" /\ issued'[tool[t].token] \notin overwritten =>
           row'[issued'[tool[t].token]].session >= tool[t].token
    <3> SUFFICES ASSUME request[t] = "SAVED", issued'[tool[t].token] \notin overwritten
                 PROVE  row'[issued'[tool[t].token]].session >= tool[t].token
      OBVIOUS
    <3>6. tool[t].token \in 1 .. Len(issued)
      BY <2>1, <2>3 DEF ToolFits
    <3> DEFINE q == issued[tool[t].token]
    <3>1. q \in Profiles /\ issued'[tool[t].token] = q
      BY <3>6, <1>1
    <3>2. row[q].session >= tool[t].token
      BY <2>1, <3>1 DEF ToolFits
    <3>3. row'[q].session >= row[q].session
      BY <3>1, <1>4
    <3>4. row[q].session \in Nat /\ row'[q].session \in Nat
      <4>1. row' \in [Profiles -> Row]
        BY <1>2 DEF Types
      <4>2. row[q] \in Row /\ row'[q] \in Row
        BY <3>1, <4>1, <1>1
      <4> QED BY <4>2, ProvisioningBound DEF Row
    <3> HIDE DEF q
    <3>5. row'[q].session >= tool[t].token
      BY <3>2, <3>3, <3>4, <2>2
    <3> QED BY <3>1, <3>5
  <2> QED BY <2>1, <2>4, <1>1 DEF ToolFits
<1> QED BY <1>2, <1>5, <1>6 DEF Inv

LEMMA Appending ==
    ASSUME NEW s \in Seq(Profiles), NEW p \in Profiles, NEW longer, longer = Append(s, p)
    PROVE  /\ longer \in Seq(Profiles)
           /\ Len(longer) = Len(s) + 1
           /\ longer[Len(s) + 1] = p
           /\ \A i \in 1 .. Len(s) : longer[i] = s[i]
OBVIOUS

LEMMA Awaiting ==
    ASSUME NEW old \in Row, NEW n \in 0 .. MaxTokens
    PROVE  [old EXCEPT !.status = "PENDING_LOGIN", !.token = n] \in Row
BY DEF Row

LEMMA Healing ==
    ASSUME NEW old \in Row, NEW n \in 0 .. MaxTokens
    PROVE  [old EXCEPT !.status = "READY", !.health = "HEALTHY",
                       !.session = n, !.token = 0] \in Row
<1>1. 0 \in 0 .. MaxTokens
  BY ProvisioningBound
<1> QED BY <1>1 DEF Row, Healths

LEMMA Beginning ==
    ASSUME Inv, NEW p \in Profiles, StartProvisioning(p)
    PROVE  Inv'
<1> DEFINE n == Len(issued) + 1
           new == [row[p] EXCEPT !.status = "PENDING_LOGIN", !.token = n]
<1>1. /\ row \in [Profiles -> Row] /\ row[p] \in Row /\ RowFits(p)
      /\ issued \in Seq(Profiles) /\ Len(issued) \in Nat
      /\ walled \in [Profiles -> 0 .. MaxTokens] /\ expired \subseteq Numbers
  BY DEF Inv, Types
<1>2. n \in 1 .. MaxTokens /\ issued' = Append(issued, p)
  BY <1>1, ProvisioningBound DEF StartProvisioning
<1>3. /\ issued' \in Seq(Profiles) /\ Len(issued') = n /\ issued'[n] = p
      /\ \A i \in 1 .. Len(issued) : issued'[i] = issued[i]
  BY <1>1, <1>2, Appending
<1>4. new \in Row
  <2>1. n \in 0 .. MaxTokens
    BY <1>2, ProvisioningBound
  <2> HIDE DEF n
  <2> QED BY <1>1, <2>1, Awaiting
<1>5. /\ new.status = "PENDING_LOGIN" /\ new.token = n
      /\ new.session = row[p].session /\ new.health = row[p].health
  BY <1>1 DEF Row
<1>6. row' = [row EXCEPT ![p] = new]
  BY DEF StartProvisioning, AwaitingLogin
<1>7. n > Len(issued) /\ n \in Nat
  BY <1>1
<1> HIDE DEF n, new
<1>8. /\ expired' = expired /\ tool' = tool /\ browser' = browser
      /\ request' = request /\ seen' = seen /\ overwritten' = overwritten
      /\ walled' = walled
  BY DEF StartProvisioning, requestVars
<1>9. row'[p] = new
  BY <1>1, <1>6
<1>10. row[p].session \in Nat /\ walled[p] \in Nat
  BY <1>1, ProvisioningBound DEF Row
<1>11. RowFits(p)'
  BY <1>1, <1>3, <1>5, <1>7, <1>8, <1>9, <1>10 DEF RowFits
<1>12. /\ new.session >= row[p].session
       /\ issued' \in Seq(Profiles) /\ Len(issued) <= Len(issued') /\ Len(issued') <= MaxTokens
       /\ \A i \in 1 .. Len(issued) : issued'[i] = issued[i]
       /\ expired' \subseteq Numbers /\ walled' \in [Profiles -> 0 .. MaxTokens]
       /\ \A q \in Profiles \ {p} : walled'[q] = walled[q]
       /\ UNCHANGED <<tool, browser, request, seen, overwritten>>
  BY <1>1, <1>2, <1>3, <1>5, <1>7, <1>8, <1>10
<1> QED BY <1>4, <1>6, <1>11, <1>12, RowMoves

LEMMA Expiring ==
    ASSUME Inv, NEW n \in Numbers, Expire(n)
    PROVE  Inv'
<1>1. /\ row' = row /\ issued' = issued /\ tool' = tool /\ browser' = browser
      /\ request' = request /\ seen' = seen /\ overwritten' = overwritten
      /\ walled' = walled /\ expired' \subseteq Numbers
  BY DEF Expire, requestVars, Inv, Types
<1> QED BY <1>1 DEF Inv, Types, RowFits, ToolFits

LEMMA Leasing ==
    ASSUME Inv, NEW p \in Profiles, CheckOut(p)
    PROVE  Inv'
<1> DEFINE new == [row[p] EXCEPT !.status = "BUSY"]
<1>1. /\ row \in [Profiles -> Row] /\ row[p] \in Row /\ RowFits(p)
      /\ issued \in Seq(Profiles) /\ Len(issued) \in Nat /\ Len(issued) <= MaxTokens
      /\ walled \in [Profiles -> 0 .. MaxTokens] /\ expired \subseteq Numbers
      /\ row[p].session \in Int
  BY ProvisioningBound DEF Inv, Types, Row
<1>2. new \in Row
  BY <1>1 DEF Row
<1>3. /\ new.status = "BUSY" /\ new.token = row[p].token
      /\ new.session = row[p].session /\ new.health = row[p].health
  BY <1>1 DEF Row
<1>4. row' = [row EXCEPT ![p] = new] /\ row[p].status = "READY"
      /\ UNCHANGED <<issued, expired, tool, browser, requestVars, walled>>
  BY DEF CheckOut
<1> HIDE DEF new
<1>5. row'[p] = new /\ overwritten' = overwritten
  BY <1>1, <1>4 DEF requestVars
<1>6. RowFits(p)'
  BY <1>1, <1>3, <1>4, <1>5 DEF RowFits
<1>8. issued' = issued /\ expired' = expired /\ walled' = walled
      /\ tool' = tool /\ browser' = browser
      /\ request' = request /\ seen' = seen /\ overwritten' = overwritten
  BY <1>4 DEF requestVars
<1>7. /\ new.session >= row[p].session
      /\ Len(issued) <= Len(issued') /\ Len(issued') <= MaxTokens
  BY <1>1, <1>3, <1>8
<1>9. issued' \in Seq(Profiles) /\ expired' \subseteq Numbers
      /\ walled' \in [Profiles -> 0 .. MaxTokens]
  BY <1>1, <1>8
<1>10. \A i \in 1 .. Len(issued) : issued'[i] = issued[i]
  BY <1>8
<1>11. \A q \in Profiles \ {p} : walled'[q] = walled[q]
  BY <1>8
<1>12. UNCHANGED <<tool, browser, request, seen, overwritten>>
  BY <1>8
<1> QED BY <1>2, <1>4, <1>6, <1>7, <1>9, <1>10, <1>11, <1>12, RowMoves

LEMMA Returning ==
    ASSUME Inv, NEW p \in Profiles, Release(p)
    PROVE  Inv'
<1>1. /\ row \in [Profiles -> Row] /\ row[p] \in Row /\ RowFits(p)
      /\ issued \in Seq(Profiles) /\ Len(issued) \in Nat /\ Len(issued) <= MaxTokens
      /\ walled \in [Profiles -> 0 .. MaxTokens] /\ expired \subseteq Numbers
      /\ row[p].session \in Int /\ Len(issued) \in 0 .. MaxTokens
  BY ProvisioningBound DEF Inv, Types, Row
<1>2. PICK health \in {row[p].health, "WALLED"} :
         /\ row' = [row EXCEPT ![p] = [row[p] EXCEPT !.status = "READY", !.health = health]]
         /\ IF health = "WALLED" THEN walled' \in {walled, [walled EXCEPT ![p] = Len(issued)]}
            ELSE walled' = walled
  <2>1. CASE row' = [row EXCEPT ![p].status = "READY"] /\ UNCHANGED walled
    <3>1. [row[p] EXCEPT !.status = "READY"]
             = [row[p] EXCEPT !.status = "READY", !.health = row[p].health]
      BY <1>1 DEF Row
    <3> QED BY <2>1, <3>1
  <2>2. CASE /\ row' = [row EXCEPT ![p].status = "READY", ![p].health = "WALLED"]
             /\ walled' = [walled EXCEPT ![p] = Len(issued)]
    BY <2>2
  <2> QED BY <2>1, <2>2 DEF Release
<1> DEFINE new == [row[p] EXCEPT !.status = "READY", !.health = health]
<1>3. new \in Row
  BY <1>1 DEF Row, Healths
<1>4. /\ new.status = "READY" /\ new.token = row[p].token
      /\ new.session = row[p].session /\ new.health = health
  BY <1>1 DEF Row
<1>5. row' = [row EXCEPT ![p] = new] /\ row[p].status = "BUSY"
      /\ UNCHANGED <<issued, expired, tool, browser, requestVars>>
  BY <1>2 DEF Release
<1>6. walled' \in [Profiles -> 0 .. MaxTokens]
      /\ \A q \in Profiles \ {p} : walled'[q] = walled[q]
  BY <1>1, <1>2
<1>7. walled'[p] \in {walled[p], Len(issued)} /\ (health # "WALLED" => walled'[p] = walled[p])
  BY <1>1, <1>2
<1> HIDE DEF new
<1>8. row'[p] = new /\ overwritten' = overwritten
  BY <1>1, <1>5 DEF requestVars
<1>9. row[p].token = 0
  <2>1. row[p].token \in Nat
    BY <1>1, ProvisioningBound DEF Row
  <2> QED BY <2>1, <1>1, <1>5 DEF RowFits
<1>10. RowFits(p)'
  BY <1>1, <1>2, <1>4, <1>5, <1>7, <1>8, <1>9 DEF RowFits
<1>12. issued' = issued /\ expired' = expired
      /\ tool' = tool /\ browser' = browser
      /\ request' = request /\ seen' = seen /\ overwritten' = overwritten
  BY <1>5 DEF requestVars
<1>11. /\ new.session >= row[p].session
       /\ issued' \in Seq(Profiles) /\ Len(issued) <= Len(issued') /\ Len(issued') <= MaxTokens
       /\ \A i \in 1 .. Len(issued) : issued'[i] = issued[i]
       /\ expired' \subseteq Numbers /\ walled' \in [Profiles -> 0 .. MaxTokens]
       /\ \A q \in Profiles \ {p} : walled'[q] = walled[q]
       /\ UNCHANGED <<tool, browser, request, seen, overwritten>>
  BY <1>1, <1>4, <1>6, <1>12
<1> QED BY <1>3, <1>5, <1>10, <1>11, RowMoves

LEMMA Admitting ==
    ASSUME Inv, NEW t \in Tools, Admit(t)
    PROVE  Inv'
<1>1. /\ tool \in [Tools -> Tool] /\ request \in [Tools -> Stages] /\ seen \in [Tools -> Row]
      /\ request[t] = "SENT" /\ ToolFits(t) /\ issued \in Seq(Profiles)
      /\ row \in [Profiles -> Row]
      /\ row' = row /\ issued' = issued /\ expired' = expired /\ tool' = tool
      /\ browser' = browser /\ overwritten' = overwritten /\ walled' = walled
  BY DEF Inv, Types, Admit
<1>2. tool[t].token \in 1 .. Len(issued) /\ issued[tool[t].token] \in Profiles
  <2>1. tool[t].token \in 1 .. Len(issued)
    BY <1>1 DEF ToolFits
  <2> QED BY <1>1, <2>1
<1>3. /\ request' \in [Tools -> Stages] /\ seen' \in [Tools -> Row]
      /\ request'[t] \in {"ADMITTED", "REFUSED"}
      /\ request'[t] = "ADMITTED" => seen'[t].token = tool[t].token
      /\ \A u \in Tools : u # t => request'[u] = request[u] /\ seen'[u] = seen[u]
  <2>1. CASE /\ Usable(tool[t].token, issued[tool[t].token])
             /\ request' = [request EXCEPT ![t] = "ADMITTED"]
             /\ seen' = [seen EXCEPT ![t] = row[issued[tool[t].token]]]
    BY <1>1, <1>2, <2>1 DEF Usable, Stages
  <2>2. CASE request' = [request EXCEPT ![t] = "REFUSED"] /\ seen' = seen
    BY <1>1, <2>2 DEF Stages
  <2> QED BY <2>1, <2>2 DEF Admit
<1>4. Types'
  BY <1>1, <1>3 DEF Inv, Types
<1>5. \A p \in Profiles : RowFits(p)'
  BY <1>1 DEF Inv, RowFits
<1>6. ASSUME NEW u \in Tools PROVE ToolFits(u)'
  <2>1. CASE u = t
    BY <2>1, <1>1, <1>3 DEF ToolFits
  <2>2. CASE u # t
    BY <2>2, <1>1, <1>3 DEF Inv, ToolFits
  <2> QED BY <2>1, <2>2
<1> QED BY <1>4, <1>5, <1>6 DEF Inv

\* The session that is saved over the row it was checked against is younger than
\* every session and every wall of the profile so far
LEMMA Saving ==
    ASSUME Inv, NEW t \in Tools, SaveSession(t)
    PROVE  Inv'
<1> DEFINE n == tool[t].token
           p == issued[n]
           new == [seen[t] EXCEPT !.status = "READY", !.health = "HEALTHY",
                                  !.session = n, !.token = 0]
<1>1. /\ row \in [Profiles -> Row] /\ issued \in Seq(Profiles)
      /\ tool \in [Tools -> Tool] /\ tool[t] \in Tool /\ ToolFits(t)
      /\ request \in [Tools -> Stages] /\ seen \in [Tools -> Row] /\ seen[t] \in Row
      /\ Len(issued) \in Nat /\ overwritten \subseteq Profiles
      /\ walled \in [Profiles -> 0 .. MaxTokens]
  BY DEF Inv, Types
<1>2. /\ request[t] = "ADMITTED" /\ row' = [row EXCEPT ![p] = new]
      /\ overwritten' = IF row[p] = seen[t] THEN overwritten ELSE overwritten \cup {p}
      /\ request' = [request EXCEPT ![t] = "SAVED"]
      /\ issued' = issued /\ expired' = expired /\ tool' = tool /\ browser' = browser
      /\ seen' = seen /\ walled' = walled
  BY DEF SaveSession, Ingested
<1>3. n \in 1 .. Len(issued) /\ n \in Nat /\ p \in Profiles /\ seen[t].token = n
  <2>1. n \in 1 .. Len(issued) /\ seen[t].token = n
    BY <1>1, <1>2 DEF ToolFits
  <2> QED BY <1>1, <2>1
<1>4. row[p] \in Row /\ RowFits(p)
  BY <1>1, <1>3 DEF Inv
<1>5. new \in Row
  <2>1. n \in 0 .. MaxTokens
    BY <1>1 DEF Tool
  <2> QED BY <1>1, <2>1, Healing
<1>6. new.status = "READY" /\ new.token = 0 /\ new.session = n /\ new.health = "HEALTHY"
  BY <1>1 DEF Row
<1>7. \A q \in Profiles : row[q].session \in Nat /\ row[q].token \in Nat /\ walled[q] \in Nat
  BY <1>1, ProvisioningBound DEF Row
<1>8. row[p] = seen[t] => row[p].session < n /\ walled[p] < n
  BY <1>3, <1>4 DEF RowFits
<1>9. p \notin overwritten' => row[p] = seen[t] /\ p \notin overwritten
  BY <1>2
<1>10. /\ overwritten' \subseteq Profiles /\ overwritten \subseteq overwritten'
       /\ \A q \in Profiles : q # p => (q \in overwritten' <=> q \in overwritten)
  BY <1>1, <1>2, <1>3
<1> HIDE DEF new, n, p
<1>11. row'[p] = new /\ \A q \in Profiles : q # p => row'[q] = row[q]
  BY <1>1, <1>2, <1>3
<1>12. request'[t] = "SAVED" /\ (\A u \in Tools : u # t => request'[u] = request[u])
       /\ request' \in [Tools -> Stages]
  BY <1>1, <1>2 DEF Stages
<1>13. Types'
  <2>1. row' \in [Profiles -> Row]
    BY <1>1, <1>2, <1>5
  <2> QED BY <2>1, <1>2, <1>10, <1>12 DEF Inv, Types
<1>14. ASSUME NEW q \in Profiles PROVE RowFits(q)'
  <2>1. CASE q = p
    BY <2>1, <1>2, <1>3, <1>4, <1>6, <1>8, <1>9, <1>11 DEF RowFits
  <2>2. CASE q # p
    <3>1. row'[q] = row[q] /\ RowFits(q) /\ (q \in overwritten' <=> q \in overwritten)
      BY <2>2, <1>10, <1>11 DEF Inv
    <3> QED BY <3>1, <1>2 DEF RowFits
  <2> QED BY <2>1, <2>2
<1>15. ASSUME NEW u \in Tools PROVE ToolFits(u)'
  <2>1. CASE u = t
    <3>1. row'[p].session >= n
      BY <1>3, <1>6, <1>11
    <3> QED BY <2>1, <3>1, <1>1, <1>2, <1>12 DEF ToolFits, n, p
  <2>2. CASE u # t
    <3>1. ToolFits(u) /\ request'[u] = request[u] /\ tool[u] \in Tool
      BY <2>2, <1>1, <1>12 DEF Inv
    <3>2. ASSUME request[u] = "SAVED", issued[tool[u].token] \notin overwritten'
          PROVE  row'[issued[tool[u].token]].session >= tool[u].token
      <4> DEFINE q == issued[tool[u].token]
                 m == tool[u].token
      <4>1. m \in 1 .. Len(issued)
        BY <3>1, <3>2 DEF ToolFits
      <4>2. q \in Profiles /\ m \in Nat
        BY <1>1, <4>1
      <4>3. q \notin overwritten
        BY <3>2, <1>10
      <4>4. row[q].session >= m
        BY <3>1, <3>2, <4>3 DEF ToolFits
      <4>5. q \notin overwritten'
        BY <3>2
      <4> HIDE DEF q, m
      <4>6. CASE q = p
        <5>1. row[p].session < n /\ row'[p].session = n
          BY <1>6, <1>8, <1>9, <1>11, <4>5, <4>6
        <5>2. row[p].session \in Nat /\ row[p].session >= m
          BY <1>3, <1>7, <4>4, <4>6
        <5>3. n >= m
          BY <1>3, <4>2, <5>1, <5>2
        <5> QED BY <4>6, <5>1, <5>3 DEF q, m
      <4>7. CASE q # p
        <5>1. row'[q].session >= m
          BY <1>11, <4>2, <4>4, <4>7
        <5> QED BY <5>1 DEF q, m
      <4> QED BY <4>6, <4>7
    <3> QED BY <3>1, <3>2, <1>2 DEF ToolFits
  <2> QED BY <2>1, <2>2
<1> QED BY <1>13, <1>14, <1>15 DEF Inv

-----------------------------------------------------------------------------
(* Theorems *)

LEMMA Stuttering == Inv /\ UNCHANGED vars => Inv'
BY DEF vars, requestVars, Inv, Types, RowFits, ToolFits

LEMMA Preserved == Inv /\ [Next]_vars => Inv'
<1> SUFFICES ASSUME Inv, [Next]_vars PROVE Inv'
  OBVIOUS
<1>1. ASSUME NEW t \in Tools, ToolStep(t) \/ Admit(t) \/ SaveSession(t) PROVE Inv'
  BY <1>1, Driving, Submitting, Answering, Closing, Admitting, Saving DEF ToolStep
<1>2. ASSUME Operator PROVE Inv'
  BY <1>2, Beginning, Starting, Driving, Signalling, Dying DEF Operator
<1>3. ASSUME NEW p \in Profiles, CheckOut(p) \/ Release(p) PROVE Inv'
  BY <1>3, Leasing, Returning
<1>4. ASSUME NEW n \in Numbers, Expire(n) PROVE Inv'
  BY <1>4, Expiring
<1>5. CASE UNCHANGED vars
  BY <1>5, Stuttering
<1> QED BY <1>1, <1>2, <1>3, <1>4, <1>5 DEF Next

LEMMA Invariance == Spec => []Inv
BY Initially, Preserved, PTL DEF Spec

\* Types; a profile has a token exactly while it waits for a login, and a session
\* whenever it can be leased.
THEOREM Typing == Spec => []TypeOK
<1>1. Inv => TypeOK
  BY DEF Inv, Types, RowFits, TypeOK, Browsers, Stages
<1> QED BY <1>1, Invariance, PTL

\* After a success the profile has the session of this tool or a later one, unless a
\* submission that was read before another request has overwritten it; a refusal, an
\* interrupt or a failed browser flow has saved nothing.
THEOREM ReportsTellSessions == Spec => []ReportTellsSession
<1>1. Inv => ReportTellsSession
  BY DEF Inv, ToolFits, ReportTellsSession
<1> QED BY <1>1, Invariance, PTL

\* However many tools are still running, with whatever tokens, an account that
\* met a wall becomes healthy only by a provisioning started after the wall, as long
\* as no submission that was read before has overwritten its row.
THEOREM HealthIsFresh == Spec => []HealthyAfterWall
<1>1. Inv => HealthyAfterWall
  BY DEF Inv, RowFits, HealthyAfterWall
<1> QED BY <1>1, Invariance, PTL
=============================================================================
