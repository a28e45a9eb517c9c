--------------------------- MODULE ContentManager ---------------------------
(***************************************************************************)
(* The tables of the content manager and the HTTP requests that write      *)
(* them: the publishers the home feeds show, the source groups operators   *)
(* manage, and the collected posts.                                        *)
(*                                                                         *)
(* A publisher is observed in one transaction that locks its row.  A group *)
(* or a post is read, changed in memory and saved as a whole row, so that  *)
(* requests may overlap between their read and their save.                 *)
(***************************************************************************)
EXTENDS Naturals, Sequences, FiniteSets

CONSTANTS
    Externals,           \* identities on the platform, of publishers and groups
    Promotable,          \* the publishers of kind GROUP
    Posts, Names, Routes,
    DirectRoute,         \* the id "direct-group-url"
    Requests,            \* slots for the requests in flight
    Times, Null,
    Legacy,              \* groups that may have been saved before routes were
    MaxRequests          \* bound on the requests of a behaviour

ASSUME ContentTimes == Times \subseteq Nat /\ MaxRequests \in Nat
ASSUME ContentSets ==
    /\ Promotable \subseteq Externals /\ Legacy \subseteq Externals
    /\ DirectRoute \notin Routes
    /\ Null \notin Externals \cup Names \cup Routes \cup {DirectRoute}
                  \cup Requests \cup {"PROFILE_HOME_FEED"}
    /\ "PROFILE_HOME_FEED" \notin Externals

VARIABLES publisher, group, item,
          locker,        \* the request that locks each publisher's row
          request,
          serial,        \* whether requests about the same row never overlap
          started,       \* requests so far
          accepted       \* history: the observations committed, per publisher

vars == <<publisher, group, item, locker, request, serial, started, accepted>>
tables == <<publisher, group, item>>

PublisherStatuses == {"DISCOVERED", "APPROVED", "IGNORED", "BLOCKED"}
GroupStatuses == {"ACTIVE", "PAUSED", "ARCHIVED"}
ItemStatuses == {"COLLECTED", "SELECTED", "REJECTED", "USED"}
Feed == "PROFILE_HOME_FEED"

Observation == [at : Times, name : Names \cup {Null}]
Publisher == [status : PublisherStatuses, first : Times, last : Times,
              count : Nat, name : Names \cup {Null}]
Group == [status : GroupStatuses, routes : SUBSET (Routes \cup {DirectRoute}),
          default : Routes \cup {DirectRoute, Null}]

\* surface: where the post was first collected, the feed or a group.
\* legacy: the column sourceGroupId; managed: the same in the provenance.
Item == [status : ItemStatuses, surface : Externals \cup {Feed},
         legacy : Externals \cup {Null}, managed : Externals \cup {Null},
         publisher : Externals \cup {Null}, first : Times, last : Times]

ASSUME ContentNull == Null \notin Publisher \cup Group \cup Item

Idle == [op |-> "NONE"]

\* ContentItemSchema with ContentCollectionProvenanceSchema
ValidItem(row) ==
    IF row.surface = Feed THEN row.legacy = row.managed
    ELSE row.managed = row.surface /\ row.legacy = row.surface

-----------------------------------------------------------------------------
(* Requests *)

\* The row a request is about
Subject(req) ==
    CASE req.op \in {"OBSERVE", "REVIEW"} -> <<"publisher", req.key>>
      [] req.op \in {"PROMOTE", "CREATE", "EDIT"} -> <<"group", req.key>>
      [] OTHER -> <<"item", req.key>>

Begin(r, req) ==
    /\ request[r] = Idle /\ started < MaxRequests
    /\ serial => \A q \in Requests : request[q] # Idle => Subject(request[q]) # Subject(req)
    /\ request' = [request EXCEPT ![r] = req]
    /\ started' = started + 1

Finish(r) ==
    /\ request' = [request EXCEPT ![r] = Idle]
    /\ UNCHANGED <<serial, started>>

\* The client leaves, the connection breaks or the server stops: what was
\* not committed is rolled back
Fail(r) ==
    /\ request[r] # Idle
    /\ Finish(r)
    /\ locker' = [e \in Externals |-> IF locker[e] = r THEN Null ELSE locker[e]]
    /\ UNCHANGED <<accepted>> /\ UNCHANGED tables

-----------------------------------------------------------------------------
(* Publishers *)

Observe(r, e, o) ==
    /\ Begin(r, [op |-> "OBSERVE", key |-> e, step |-> "ASKED", seen |-> Null, input |-> o])
    /\ UNCHANGED <<locker, serial, accepted>> /\ UNCHANGED tables

\* INSERT ... ON CONFLICT DO NOTHING
InsertPublisher(r) ==
    LET e == request[r].key  o == request[r].input IN
    /\ request[r].op = "OBSERVE" /\ request[r].step = "ASKED"
    /\ IF publisher[e] = Null
       THEN /\ publisher' = [publisher EXCEPT ![e] =
                  [status |-> "DISCOVERED", first |-> o.at, last |-> o.at,
                   count |-> 1, name |-> o.name]]
            /\ accepted' = [accepted EXCEPT ![e] = Append(@, o)]
            /\ Finish(r)
       ELSE /\ request' = [request EXCEPT ![r].step = "CONFLICTED"]
            /\ UNCHANGED <<publisher, serial, started, accepted>>
    /\ UNCHANGED <<group, item, locker>>

\* Mutant: the row is read without FOR UPDATE
LockPublisherUnlocked(r) ==
    LET e == request[r].key IN
    /\ request[r].op = "OBSERVE" /\ request[r].step = "CONFLICTED"
    /\ request' = [request EXCEPT ![r].step = "LOCKED", ![r].seen = publisher[e]]
    /\ UNCHANGED <<locker, serial, started, accepted>> /\ UNCHANGED tables

\* SELECT ... FOR UPDATE
LockPublisher(r) ==
    LET e == request[r].key IN
    /\ request[r].op = "OBSERVE" /\ request[r].step = "CONFLICTED"
    /\ locker[e] = Null
    /\ locker' = [locker EXCEPT ![e] = r]
    /\ request' = [request EXCEPT ![r].step = "LOCKED", ![r].seen = publisher[e]]
    /\ UNCHANGED <<serial, started, accepted>> /\ UNCHANGED tables

\* Mutant: whatever arrives last names the publisher
ObservedAnyOrder(row, o) ==
    [row EXCEPT !.count = @ + 1,
                !.last = IF o.at >= row.last THEN o.at ELSE @,
                !.name = IF o.name # Null THEN o.name ELSE @]

\* applySourcePublisherObservation: an older observation renames nothing
Observed(row, o) ==
    LET newer == o.at >= row.last IN
    [row EXCEPT !.count = @ + 1,
                !.last = IF newer THEN o.at ELSE @,
                !.name = IF newer /\ o.name # Null THEN o.name ELSE @]

\* Mutant: the transaction ends without giving up the row
UpdatePublisherHeld(r) ==
    LET e == request[r].key
        next == Observed(request[r].seen, request[r].input) IN
    /\ request[r].op = "OBSERVE" /\ request[r].step = "LOCKED"
    /\ publisher' = [publisher EXCEPT ![e].name = next.name, ![e].last = next.last,
                                      ![e].count = next.count]
    /\ accepted' = [accepted EXCEPT ![e] = Append(@, request[r].input)]
    /\ Finish(r)
    /\ UNCHANGED <<group, item, locker>>

\* The columns an observation changes, then the commit
UpdatePublisher(r) ==
    LET e == request[r].key
        next == Observed(request[r].seen, request[r].input) IN
    /\ request[r].op = "OBSERVE" /\ request[r].step = "LOCKED"
    /\ publisher' = [publisher EXCEPT ![e].name = next.name, ![e].last = next.last,
                                      ![e].count = next.count]
    /\ accepted' = [accepted EXCEPT ![e] = Append(@, request[r].input)]
    /\ locker' = [locker EXCEPT ![e] = Null]
    /\ Finish(r)
    /\ UNCHANGED <<group, item>>

\* A review decision that the publisher's status does not hold yet
ReviewPublisher(r, e, status) ==
    /\ publisher[e] # Null /\ publisher[e].status # status
    /\ Begin(r, [op |-> "REVIEW", key |-> e, step |-> "READ", seen |-> Null, input |-> status])
    /\ UNCHANGED <<locker, serial, accepted>> /\ UNCHANGED tables

\* updateStatus: the column alone, when no transaction holds the row
SaveReview(r) ==
    LET e == request[r].key IN
    /\ request[r].op = "REVIEW" /\ locker[e] = Null
    /\ publisher' = [publisher EXCEPT ![e].status = request[r].input]
    /\ Finish(r)
    /\ UNCHANGED <<group, item, locker, accepted>>

-----------------------------------------------------------------------------
(* Source groups *)

\* A row that was stored before groups had entry routes
OldGroup == [status |-> "ACTIVE", routes |-> {}, default |-> Null]

NewGroup(status) == [status |-> status, routes |-> {DirectRoute}, default |-> DirectRoute]

PromotePublisher(r, e) ==
    /\ e \in Promotable /\ publisher[e] # Null /\ publisher[e].status = "APPROVED"
    /\ group[e] = Null
    /\ Begin(r, [op |-> "PROMOTE", key |-> e, step |-> "READ", seen |-> Null,
                 input |-> NewGroup("PAUSED")])
    /\ UNCHANGED <<locker, serial, accepted>> /\ UNCHANGED tables

\* The second look before the save
RecheckPromotion(r) ==
    /\ request[r].op = "PROMOTE" /\ request[r].step = "READ"
    /\ IF group[request[r].key] = Null
       THEN /\ request' = [request EXCEPT ![r].step = "CHECKED"]
            /\ UNCHANGED <<serial, started>>
       ELSE Finish(r)
    /\ UNCHANGED <<locker, accepted>> /\ UNCHANGED tables

CreateGroup(r, e, status) ==
    /\ group[e] = Null
    /\ Begin(r, [op |-> "CREATE", key |-> e, step |-> "CHECKED", seen |-> Null,
                 input |-> NewGroup(status)])
    /\ UNCHANGED <<locker, serial, accepted>> /\ UNCHANGED tables

\* The conflict target is the id: a second group of the same identity is
\* refused by the unique index
InsertGroup(r) ==
    LET e == request[r].key IN
    /\ request[r].op \in {"PROMOTE", "CREATE"} /\ request[r].step = "CHECKED"
    /\ IF group[e] = Null THEN group' = [group EXCEPT ![e] = request[r].input]
       ELSE UNCHANGED group
    /\ Finish(r)
    /\ UNCHANGED <<publisher, item, locker, accepted>>

\* resolveSourceGroupEntryRoutes: rows without a default get the direct route
Resolved(g) ==
    IF g.default # Null THEN g
    ELSE [g EXCEPT !.routes = @ \cup {DirectRoute}, !.default = DirectRoute]

AddRoute(g, route, isDefault) ==
    [g EXCEPT !.routes = @ \cup {route}, !.default = IF isDefault THEN route ELSE @]

\* Mutant: the default route may be removed
EditsOfAny(g) ==
    {[g EXCEPT !.status = s] : s \in GroupStatuses}
    \cup {[g EXCEPT !.routes = @ \ {route}] : route \in g.routes}

\* The rows an edit of g may write; the default route is replaced, never
\* cleared and never removed, and an edit of a url writes g again
Edits(g) ==
    {[g EXCEPT !.status = s] : s \in GroupStatuses}
    \cup {AddRoute(g, new, d) : new \in Routes \ g.routes, d \in BOOLEAN}
    \cup {[g EXCEPT !.default = route] : route \in g.routes}
    \cup {[g EXCEPT !.routes = @ \ {route}] : route \in g.routes \ {g.default}}

EditGroup(r, e) ==
    /\ group[e] # Null
    /\ \E row \in Edits(Resolved(group[e])) :
          Begin(r, [op |-> "EDIT", key |-> e, step |-> "READ", seen |-> Null, input |-> row])
    /\ UNCHANGED <<locker, serial, accepted>> /\ UNCHANGED tables

SaveGroup(r) ==
    /\ request[r].op = "EDIT"
    /\ group' = [group EXCEPT ![request[r].key] = request[r].input]
    /\ Finish(r)
    /\ UNCHANGED <<publisher, item, locker, accepted>>

-----------------------------------------------------------------------------
(* Posts *)

NewItem(surface, managed, seenBy, at) ==
    [status |-> "COLLECTED", surface |-> surface, legacy |-> managed,
     managed |-> managed, publisher |-> seenBy, first |-> at, last |-> at]

\* resolveSourcePublisherId, resolveManagedSourceGroupId
Compatible(known, incoming) == known \in {Null, incoming}

\* Mutant: the publisher a group does not tell is dropped
FromGroupOnly(row, e, at) ==
    [row EXCEPT !.legacy = e, !.managed = e, !.last = at, !.publisher = Null]

\* Mutant: the legacy column is left behind
FromGroupManaged(row, e, at) == [row EXCEPT !.managed = e, !.last = at]

\* mergeCollectedContent: an observation of a known post in a managed group
FromGroup(row, e, at) == [row EXCEPT !.legacy = e, !.managed = e, !.last = at]

\* applyHomeFeedObservation: an observation of a known post in a home feed
FromFeed(row, e, at) == [row EXCEPT !.publisher = e, !.last = at]

\* Reads the post and computes the row to save
BeginSave(r, op, x, row) ==
    /\ ValidItem(row)
    /\ Begin(r, [op |-> op, key |-> x, step |-> "READ", seen |-> item[x], input |-> row])
    /\ UNCHANGED <<locker, serial, accepted>> /\ UNCHANGED tables

IngestFromGroup(r, x, e, at) ==
    /\ group[e] # Null
    /\ \/ item[x] = Null /\ BeginSave(r, "INGEST", x, NewItem(e, e, Null, at))
       \/ /\ item[x] # Null
          /\ Compatible(item[x].managed, e)
          /\ BeginSave(r, "INGEST", x, FromGroup(item[x], e, at))

IngestFromFeed(r, x, e, at) ==
    /\ publisher[e] # Null
    /\ \/ item[x] = Null /\ BeginSave(r, "INGEST", x, NewItem(Feed, Null, e, at))
       \/ /\ item[x] # Null
          /\ Compatible(item[x].publisher, e)
          /\ BeginSave(r, "INGEST", x, FromFeed(item[x], e, at))

AllowedStatus(from) ==
    CASE from = "COLLECTED" -> {"SELECTED", "REJECTED"}
      [] from = "SELECTED" -> {"REJECTED", "USED"}
      [] from = "REJECTED" -> {"SELECTED"}
      [] from = "USED" -> {}

UpdateItemStatus(r, x, status) ==
    /\ item[x] # Null /\ status \in AllowedStatus(item[x].status)
    /\ BeginSave(r, "STATUS", x, [item[x] EXCEPT !.status = status])

\* A row read before is overwritten; a new row conflicts with the row of the
\* same post that another request inserted meanwhile, and is refused
SaveItem(r) ==
    LET x == request[r].key  fresh == request[r].seen = Null IN
    /\ request[r].op \in {"INGEST", "STATUS"}
    /\ IF fresh /\ item[x] # Null THEN UNCHANGED item
       ELSE item' = [item EXCEPT ![x] = request[r].input]
    /\ Finish(r)
    /\ UNCHANGED <<publisher, group, locker, accepted>>

-----------------------------------------------------------------------------

Init ==
    /\ publisher = [e \in Externals |-> Null]
    /\ group \in [Externals -> {Null, OldGroup}]
    /\ \A e \in Externals \ Legacy : group[e] = Null
    /\ item = [x \in Posts |-> Null]
    /\ locker = [e \in Externals |-> Null]
    /\ request = [r \in Requests |-> Idle]
    /\ serial \in BOOLEAN /\ started = 0
    /\ accepted = [e \in Externals |-> <<>>]

PublisherStep(r) ==
    \/ \E e \in Externals, o \in Observation : Observe(r, e, o)
    \/ InsertPublisher(r) \/ LockPublisher(r) \/ UpdatePublisher(r)
    \/ \E e \in Externals, status \in PublisherStatuses : ReviewPublisher(r, e, status)
    \/ SaveReview(r)

GroupStep(r) ==
    \/ \E e \in Externals : PromotePublisher(r, e) \/ EditGroup(r, e)
    \/ RecheckPromotion(r)
    \/ \E e \in Externals, status \in GroupStatuses : CreateGroup(r, e, status)
    \/ InsertGroup(r) \/ SaveGroup(r)

ItemStep(r) ==
    \/ \E x \in Posts, e \in Externals, at \in Times :
          IngestFromGroup(r, x, e, at) \/ IngestFromFeed(r, x, e, at)
    \/ \E x \in Posts, status \in ItemStatuses : UpdateItemStatus(r, x, status)
    \/ SaveItem(r)

Next == \E r \in Requests : PublisherStep(r) \/ GroupStep(r) \/ ItemStep(r) \/ Fail(r)

Spec == Init /\ [][Next]_vars

-----------------------------------------------------------------------------
(* Properties *)

\* Every variable has its type, and a publisher is locked only by the
\* observation that read its row.
TypeOK ==
    /\ publisher \in [Externals -> Publisher \cup {Null}]
    /\ group \in [Externals -> Group \cup {Null}]
    /\ item \in [Posts -> Item \cup {Null}]
    /\ serial \in BOOLEAN /\ started \in 0..MaxRequests
    /\ accepted \in [Externals -> Seq(Observation)]
    /\ locker \in [Externals -> Requests \cup {Null}]
    /\ \A e \in Externals : locker[e] # Null =>
          LET req == request[locker[e]] IN
          req.op = "OBSERVE" /\ req.key = e /\ req.step = "LOCKED"

Newest(seq) == {i \in DOMAIN seq : \A j \in DOMAIN seq : seq[j].at <= seq[i].at}

\* observeWithinTransaction: however observations interleave, fail or arrive
\* out of order, a publisher counts each committed one once, remembers when
\* the first to arrive was made and the time of the newest, and bears the name
\* that the last of the newest to arrive carries, if any does.
ObservationsKept ==
    \A e \in Externals :
        IF publisher[e] = Null THEN accepted[e] = <<>>
        ELSE LET named == {i \in Newest(accepted[e]) : accepted[e][i].name # Null} IN
             /\ publisher[e].count = Len(accepted[e])
             /\ publisher[e].first = accepted[e][1].at
             /\ \A i \in Newest(accepted[e]) : publisher[e].last = accepted[e][i].at
             /\ \A i \in named : (\A j \in named : j <= i)
                                 => publisher[e].name = accepted[e][i].name

\* However the edits of a group interleave, one of the entry routes it is
\* stored with is the default the collectors fall back on.
DefaultRouteKept ==
    \A e \in Externals :
        \/ group[e] \in {Null, OldGroup}
        \/ group[e].default \in group[e].routes

\* No collected post becomes unreadable: each stored item is valid, and stays
\* so when the post is collected again from a group or a feed it is
\* compatible with, in whatever order it was first seen.
AlwaysIngestible ==
    \A x \in Posts : item[x] # Null =>
        /\ ValidItem(item[x])
        /\ \A e \in Externals, at \in Times :
              /\ Compatible(item[x].managed, e) => ValidItem(FromGroup(item[x], e, at))
              /\ Compatible(item[x].publisher, e) => ValidItem(FromFeed(item[x], e, at))

StatusPreserved(x) ==
    item[x] # Null =>
        item'[x].status \in AllowedStatus(item[x].status) \cup {item[x].status}

\* Collecting a post again, even twice at once, changes neither where nor when it
\* was first collected; and when requests about the post do not overlap it takes
\* nothing back, neither the status the operator gave it nor the publisher or the
\* managed group once known of it.
NothingTakenBack ==
    [][\A x \in Posts : item[x] # Null =>
          /\ item'[x].surface = item[x].surface /\ item'[x].first = item[x].first
          /\ serial =>
                /\ StatusPreserved(x)
                /\ item[x].managed # Null => item'[x].managed = item[x].managed
                /\ item[x].publisher # Null => item'[x].publisher = item[x].publisher]_vars

\* What the documents say of every collection, overlapping or not: a post
\* that is SELECTED, REJECTED or USED does not return to COLLECTED.
StatusNeverReturns == [][\A x \in Posts : StatusPreserved(x)]_vars
=============================================================================
