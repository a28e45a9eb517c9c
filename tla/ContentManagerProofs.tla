------------------------ MODULE ContentManagerProofs ------------------------
(***************************************************************************)
(* Theorems of ContentManager, for any number of rows and of overlapping   *)
(* requests.                                                               *)
(*                                                                         *)
(* What a request will save was computed from a row it read earlier, so    *)
(* the invariants are about the rows that wait in requests as much as      *)
(* about the rows that are stored.                                         *)
(***************************************************************************)
EXTENDS ContentManager, TLAPS

-----------------------------------------------------------------------------
(* Types of the stored rows and of the requests *)

StoredGroups == {g \in Group : g.default \in g.routes}
StoredItems == {row \in Item : ValidItem(row)}

Observations ==
    [op : {"OBSERVE"}, key : Externals, step : {"ASKED", "CONFLICTED", "LOCKED"},
     seen : Publisher \cup {Null}, input : Observation]
Reviews ==
    [op : {"REVIEW"}, key : Externals, step : {"READ"}, seen : {Null},
     input : PublisherStatuses]
GroupSaves ==
    [op : {"PROMOTE", "CREATE", "EDIT"}, key : Externals, step : {"READ", "CHECKED"},
     seen : {Null}, input : StoredGroups]
ItemSaves ==
    [op : {"INGEST", "STATUS"}, key : Posts, step : {"READ"},
     seen : Item \cup {Null}, input : StoredItems]

Asked == Observations \cup Reviews \cup GroupSaves \cup ItemSaves

Locks ==
    \A e \in Externals : locker[e] # Null =>
        /\ request[locker[e]].op = "OBSERVE" /\ request[locker[e]].key = e
        /\ request[locker[e]].step = "LOCKED"

Types ==
    /\ publisher \in [Externals -> Publisher \cup {Null}]
    /\ group \in [Externals -> StoredGroups \cup {Null, OldGroup}]
    /\ item \in [Posts -> StoredItems \cup {Null}]
    /\ request \in [Requests -> Asked \cup {Idle}]
    /\ serial \in BOOLEAN /\ started \in 0 .. MaxRequests
    /\ accepted \in [Externals -> Seq(Observation)]
    /\ locker \in [Externals -> Requests \cup {Null}]

\* Once an observation found its publisher stored, it stays stored
Known ==
    \A r \in Requests :
        /\ request[r].op = "REVIEW" => publisher[request[r].key] # Null
        /\ request[r].op = "OBSERVE" /\ request[r].step # "ASKED"
              => publisher[request[r].key] # Null
        /\ request[r].op = "OBSERVE" /\ request[r].step = "LOCKED"
              => request[r].seen # Null

TypeInv == Types /\ Locks /\ Known

LEMMA TypesHold == TypeInv => TypeOK
<1> SUFFICES ASSUME TypeInv PROVE TypeOK
  OBVIOUS
<1>1. OldGroup \in Group
  BY DEF OldGroup, Group, GroupStatuses
<1>2. group \in [Externals -> Group \cup {Null}]
  BY <1>1 DEF TypeInv, Types, StoredGroups
<1>3. item \in [Posts -> Item \cup {Null}]
  BY DEF TypeInv, Types, StoredItems
<1> QED BY <1>2, <1>3 DEF TypeInv, Types, Locks, TypeOK

LEMMA TypesInitially == Init => TypeInv
<1> SUFFICES ASSUME Init PROVE TypeInv
  OBVIOUS
<1>1. Types /\ Locks
  BY ContentTimes DEF Init, Types, Locks
<1>2. Known
  BY DEF Init, Known, Idle
<1> QED BY <1>1, <1>2 DEF TypeInv

-----------------------------------------------------------------------------
(* Requests *)

LEMMA Kinds ==
    /\ \A req \in Observations : req.op = "OBSERVE" /\ req.key \in Externals
    /\ \A req \in Reviews : req.op = "REVIEW" /\ req.key \in Externals
    /\ \A req \in GroupSaves : req.op \in {"PROMOTE", "CREATE", "EDIT"}
                               /\ req.key \in Externals /\ req.step # "LOCKED"
    /\ \A req \in ItemSaves : req.op \in {"INGEST", "STATUS"} /\ req.key \in Posts
    /\ Idle.op = "NONE"
BY DEF Observations, Reviews, GroupSaves, ItemSaves, Idle

\* The operation tells what a request in flight is
LEMMA InFlight ==
    ASSUME TypeInv, NEW r \in Requests
    PROVE  /\ request[r].op = "OBSERVE" => request[r] \in Observations
           /\ request[r].op = "REVIEW" => request[r] \in Reviews
           /\ request[r].op \in {"PROMOTE", "CREATE", "EDIT"} => request[r] \in GroupSaves
           /\ request[r].op \in {"INGEST", "STATUS"} => request[r] \in ItemSaves
<1>1. request[r] \in Asked \cup {Idle}
  BY DEF TypeInv, Types
<1> QED BY <1>1, Kinds DEF Asked

LEMMA Asking ==
    ASSUME TypeInv, NEW r \in Requests, NEW req \in Asked, Begin(r, req),
           req.op = "OBSERVE" => req.step = "ASKED",
           req.op = "REVIEW" => publisher[req.key] # Null,
           UNCHANGED <<locker, serial, accepted>>, UNCHANGED tables
    PROVE  TypeInv'
<1>1. /\ request[r] = Idle /\ request' = [request EXCEPT ![r] = req]
      /\ started < MaxRequests /\ started' = started + 1
      /\ publisher' = publisher /\ group' = group /\ item' = item
  BY DEF Begin, tables
<1>2. Types'
  BY <1>1, ContentTimes DEF TypeInv, Types
<1>3. Locks'
  BY <1>1, Kinds DEF TypeInv, Types, Locks
<1>4. Known'
  BY <1>1 DEF TypeInv, Types, Known
<1> QED BY <1>2, <1>3, <1>4 DEF TypeInv

\* A request ends and gives up the row it locked
LEMMA Finishing ==
    ASSUME TypeInv, NEW r \in Requests, Finish(r),
           publisher' \in [Externals -> Publisher \cup {Null}],
           group' \in [Externals -> StoredGroups \cup {Null, OldGroup}],
           item' \in [Posts -> StoredItems \cup {Null}],
           accepted' \in [Externals -> Seq(Observation)],
           \A e \in Externals : \/ locker'[e] = locker[e] /\ locker[e] # r
                                \/ locker'[e] = Null,
           locker' \in [Externals -> Requests \cup {Null}],
           \A e \in Externals : publisher[e] # Null => publisher'[e] # Null
    PROVE  TypeInv'
<1>1. /\ request' = [request EXCEPT ![r] = Idle]
      /\ serial' = serial /\ started' = started
  BY DEF Finish
<1>2. Types'
  BY <1>1 DEF TypeInv, Types
<1>3. ASSUME NEW e \in Externals, locker'[e] # Null
      PROVE  /\ request'[locker'[e]].op = "OBSERVE" /\ request'[locker'[e]].key = e
             /\ request'[locker'[e]].step = "LOCKED"
  <2>1. locker'[e] = locker[e] /\ locker[e] # r /\ locker[e] \in Requests
    BY <1>3 DEF TypeInv, Types
  <2>2. request'[locker[e]] = request[locker[e]]
    BY <1>1, <2>1 DEF TypeInv, Types
  <2> QED BY <1>3, <2>1, <2>2 DEF TypeInv, Locks
<1>4. ASSUME NEW q \in Requests PROVE Known!(q)'
  <2>1. request'[q] = IF q = r THEN Idle ELSE request[q]
    BY <1>1 DEF TypeInv, Types
  <2>2. request[q].op \in {"OBSERVE", "REVIEW"} => request[q].key \in Externals
    BY InFlight, Kinds
  <2> QED BY <2>1, <2>2, Kinds DEF TypeInv, Known
<1> QED BY <1>2, <1>3, <1>4 DEF TypeInv, Locks, Known

\* A request that is not an observation with a lock ends
LEMMA NotLocker ==
    ASSUME TypeInv, NEW r \in Requests,
           request[r].op # "OBSERVE" \/ request[r].step # "LOCKED"
    PROVE  \A e \in Externals : locker[e] # r
BY ContentSets DEF TypeInv, Types, Locks

-----------------------------------------------------------------------------
(* What the requests compute *)

LEMMA NewRows ==
    /\ \A status \in GroupStatuses : NewGroup(status) \in StoredGroups
    /\ \A surface \in Externals \cup {Feed}, managed, seenBy \in Externals \cup {Null},
          at \in Times : NewItem(surface, managed, seenBy, at) \in Item
BY DEF NewGroup, StoredGroups, Group, NewItem, Item, ItemStatuses

\* Every row an edit may write has its default among its routes
LEMMA EditsStored ==
    ASSUME NEW e \in Externals, group[e] \in StoredGroups \cup {OldGroup}
    PROVE  Edits(Resolved(group[e])) \subseteq StoredGroups
<1> DEFINE g == Resolved(group[e])
<1>1. OldGroup \in Group
  BY DEF OldGroup, Group, GroupStatuses
<1>2. group[e] \in Group /\ (group[e].default = Null \/ group[e].default \in group[e].routes)
  BY <1>1 DEF StoredGroups, OldGroup
<1>3. g \in StoredGroups
  <2>1. CASE group[e].default # Null
    BY <1>2, <2>1 DEF Resolved, StoredGroups
  <2>2. CASE group[e].default = Null
    <3>1. g = [status |-> group[e].status, routes |-> group[e].routes \cup {DirectRoute},
               default |-> DirectRoute]
      BY <1>2, <2>2 DEF Resolved, Group
    <3> QED BY <1>2, <3>1 DEF StoredGroups, Group
  <2> QED BY <2>1, <2>2
<1> HIDE DEF g
<1>4. ASSUME NEW s \in GroupStatuses PROVE [g EXCEPT !.status = s] \in StoredGroups
  BY <1>3 DEF StoredGroups, Group
<1>5. ASSUME NEW new \in Routes, NEW d \in BOOLEAN PROVE AddRoute(g, new, d) \in StoredGroups
  BY <1>3 DEF StoredGroups, Group, AddRoute
<1>6. ASSUME NEW route \in g.routes PROVE [g EXCEPT !.default = route] \in StoredGroups
  BY <1>3 DEF StoredGroups, Group
<1>7. ASSUME NEW route \in g.routes \ {g.default}
      PROVE  [g EXCEPT !.routes = @ \ {route}] \in StoredGroups
  BY <1>3 DEF StoredGroups, Group
<1>8. Edits(g) \subseteq StoredGroups
  BY <1>4, <1>5, <1>6, <1>7 DEF Edits
<1> QED BY <1>8 DEF g

LEMMA ItemUpdates ==
    ASSUME NEW row \in Item, NEW e \in Externals, NEW at \in Times
    PROVE  /\ FromGroup(row, e, at) \in Item
           /\ FromFeed(row, e, at) \in Item
BY DEF Item, FromGroup, FromFeed

LEMMA StatusUpdates ==
    ASSUME NEW row \in Item, NEW status \in ItemStatuses
    PROVE  [row EXCEPT !.status = status] \in Item
BY DEF Item

LEMMA ObservedRow ==
    ASSUME NEW row \in Publisher, NEW o \in Observation
    PROVE  /\ Observed(row, o).name \in Names \cup {Null}
           /\ Observed(row, o).last \in Times
           /\ Observed(row, o).count = row.count + 1
<1>1. /\ DOMAIN row = {"status", "first", "last", "count", "name"}
      /\ row.last \in Times /\ row.name \in Names \cup {Null} /\ row.count \in Nat
      /\ o.at \in Times /\ o.name \in Names \cup {Null}
  BY DEF Publisher, Observation
<1> QED BY <1>1 DEF Observed

-----------------------------------------------------------------------------
(* Every action preserves the types *)

LEMMA ObserveTypes ==
    ASSUME TypeInv, NEW r \in Requests, NEW e \in Externals, NEW o \in Observation,
           Observe(r, e, o)
    PROVE  TypeInv'
<1> DEFINE req == [op |-> "OBSERVE", key |-> e, step |-> "ASKED", seen |-> Null, input |-> o]
<1>1. req \in Asked
  BY DEF Asked, Observations
<1>2. /\ Begin(r, req) /\ UNCHANGED <<locker, serial, accepted>> /\ UNCHANGED tables
      /\ req.op = "OBSERVE" /\ req.step = "ASKED"
  BY DEF Observe
<1> HIDE DEF req
<1> QED BY <1>1, <1>2, Asking

LEMMA ReviewTypes ==
    ASSUME TypeInv, NEW r \in Requests, NEW e \in Externals,
           NEW status \in PublisherStatuses, ReviewPublisher(r, e, status)
    PROVE  TypeInv'
<1> DEFINE req == [op |-> "REVIEW", key |-> e, step |-> "READ", seen |-> Null,
                   input |-> status]
<1>1. req \in Asked
  BY DEF Asked, Reviews
<1>2. /\ Begin(r, req) /\ UNCHANGED <<locker, serial, accepted>> /\ UNCHANGED tables
      /\ req.op = "REVIEW" /\ publisher[req.key] # Null
  BY DEF ReviewPublisher
<1> HIDE DEF req
<1> QED BY <1>1, <1>2, Asking

LEMMA GroupAsking ==
    ASSUME TypeInv, NEW r \in Requests, NEW e \in Externals,
           NEW op \in {"PROMOTE", "CREATE", "EDIT"}, NEW step \in {"READ", "CHECKED"},
           NEW row \in StoredGroups,
           Begin(r, [op |-> op, key |-> e, step |-> step, seen |-> Null, input |-> row]),
           UNCHANGED <<locker, serial, accepted>>, UNCHANGED tables
    PROVE  TypeInv'
<1> DEFINE req == [op |-> op, key |-> e, step |-> step, seen |-> Null, input |-> row]
<1>1. req \in Asked
  BY DEF Asked, GroupSaves
<1>2. Begin(r, req) /\ req.op \in {"PROMOTE", "CREATE", "EDIT"}
  OBVIOUS
<1> HIDE DEF req
<1> QED BY <1>1, <1>2, Asking

LEMMA PromoteTypes ==
    ASSUME TypeInv, NEW r \in Requests, NEW e \in Externals, PromotePublisher(r, e)
    PROVE  TypeInv'
<1>1. NewGroup("PAUSED") \in StoredGroups
  BY NewRows DEF GroupStatuses
<1> QED BY <1>1, GroupAsking DEF PromotePublisher

LEMMA CreateTypes ==
    ASSUME TypeInv, NEW r \in Requests, NEW e \in Externals, NEW status \in GroupStatuses,
           CreateGroup(r, e, status)
    PROVE  TypeInv'
<1>1. NewGroup(status) \in StoredGroups
  BY NewRows
<1> QED BY <1>1, GroupAsking DEF CreateGroup

LEMMA EditTypes ==
    ASSUME TypeInv, NEW r \in Requests, NEW e \in Externals, EditGroup(r, e)
    PROVE  TypeInv'
<1>1. group[e] \in StoredGroups \cup {OldGroup}
  BY DEF EditGroup, TypeInv, Types
<1>2. PICK row \in Edits(Resolved(group[e])) :
         Begin(r, [op |-> "EDIT", key |-> e, step |-> "READ", seen |-> Null, input |-> row])
  BY DEF EditGroup
<1>3. row \in StoredGroups
  BY <1>1, <1>2, EditsStored
<1> QED BY <1>2, <1>3, GroupAsking DEF EditGroup

LEMMA SaveAsked ==
    ASSUME TypeInv, NEW r \in Requests, NEW op \in {"INGEST", "STATUS"}, NEW x \in Posts,
           NEW row \in Item, BeginSave(r, op, x, row)
    PROVE  TypeInv'
<1> DEFINE req == [op |-> op, key |-> x, step |-> "READ", seen |-> item[x], input |-> row]
<1>1. item[x] \in Item \cup {Null} /\ row \in StoredItems
  BY DEF TypeInv, Types, StoredItems, BeginSave
<1>2. req \in Asked
  BY <1>1 DEF Asked, ItemSaves
<1>3. /\ Begin(r, req) /\ UNCHANGED <<locker, serial, accepted>> /\ UNCHANGED tables
      /\ req.op \in {"INGEST", "STATUS"}
  BY DEF BeginSave
<1> HIDE DEF req
<1> QED BY <1>2, <1>3, Asking

LEMMA ItemTypes ==
    ASSUME TypeInv, NEW x \in Posts, item[x] # Null PROVE item[x] \in Item
BY DEF TypeInv, Types, StoredItems

LEMMA IngestFromGroupTypes ==
    ASSUME TypeInv, NEW r \in Requests, NEW x \in Posts, NEW e \in Externals,
           NEW at \in Times, IngestFromGroup(r, x, e, at)
    PROVE  TypeInv'
<1>1. CASE item[x] = Null
  <2>1. NewItem(e, e, Null, at) \in Item
    BY NewRows
  <2> QED BY <1>1, <2>1, SaveAsked DEF IngestFromGroup
<1>2. CASE item[x] # Null
  <2>1. FromGroup(item[x], e, at) \in Item
    BY <1>2, ItemTypes, ItemUpdates
  <2> QED BY <1>2, <2>1, SaveAsked DEF IngestFromGroup
<1> QED BY <1>1, <1>2

LEMMA IngestFromFeedTypes ==
    ASSUME TypeInv, NEW r \in Requests, NEW x \in Posts, NEW e \in Externals,
           NEW at \in Times, IngestFromFeed(r, x, e, at)
    PROVE  TypeInv'
<1>1. CASE item[x] = Null
  <2>1. NewItem(Feed, Null, e, at) \in Item
    BY NewRows
  <2> QED BY <1>1, <2>1, SaveAsked DEF IngestFromFeed
<1>2. CASE item[x] # Null
  <2>1. FromFeed(item[x], e, at) \in Item
    BY <1>2, ItemTypes, ItemUpdates
  <2> QED BY <1>2, <2>1, SaveAsked DEF IngestFromFeed
<1> QED BY <1>1, <1>2

LEMMA UpdateItemStatusTypes ==
    ASSUME TypeInv, NEW r \in Requests, NEW x \in Posts, NEW status \in ItemStatuses,
           UpdateItemStatus(r, x, status)
    PROVE  TypeInv'
<1>1. [item[x] EXCEPT !.status = status] \in Item
  BY ItemTypes, StatusUpdates DEF UpdateItemStatus
<1> QED BY <1>1, SaveAsked DEF UpdateItemStatus

\* A request goes one step further and leaves the tables alone
LEMMA Moving ==
    ASSUME TypeInv, NEW r \in Requests, NEW req \in Observations \cup GroupSaves,
           request' = [request EXCEPT ![r] = req],
           UNCHANGED <<serial, started, accepted>>, UNCHANGED tables,
           req.op = "OBSERVE" => publisher[req.key] # Null,
           req.op = "OBSERVE" /\ req.step = "LOCKED" => req.seen # Null,
           locker' \in [Externals -> Requests \cup {Null}],
           \A e \in Externals : locker'[e] # Null =>
              \/ locker'[e] = locker[e] /\ locker[e] # r
              \/ /\ locker'[e] = r
                 /\ req.op = "OBSERVE" /\ req.key = e /\ req.step = "LOCKED"
    PROVE  TypeInv'
<1>1. /\ publisher' = publisher /\ group' = group /\ item' = item
      /\ serial' = serial /\ started' = started /\ accepted' = accepted
      /\ \A q \in Requests : request'[q] = IF q = r THEN req ELSE request[q]
  BY DEF tables, TypeInv, Types
<1>2. request' \in [Requests -> Asked \cup {Idle}]
  BY DEF TypeInv, Types, Asked
<1>3. Types'
  BY <1>1, <1>2 DEF TypeInv, Types
<1>4. Locks'
  <2> SUFFICES ASSUME NEW e \in Externals, locker'[e] # Null PROVE Locks!(e)'
    BY DEF Locks
  <2>1. locker'[e] \in Requests
    OBVIOUS
  <2>2. CASE locker'[e] = locker[e] /\ locker[e] # r
    <3>1. request'[locker'[e]] = request[locker[e]]
      BY <1>1, <2>1, <2>2
    <3> QED BY <2>2, <3>1 DEF TypeInv, Locks
  <2>3. CASE locker'[e] = r /\ req.op = "OBSERVE" /\ req.key = e /\ req.step = "LOCKED"
    <3>1. request'[locker'[e]] = req
      BY <1>1, <2>3
    <3> QED BY <2>3, <3>1
  <2> QED BY <2>2, <2>3
<1>5. Known'
  <2> SUFFICES ASSUME NEW q \in Requests PROVE Known!(q)'
    BY DEF Known
  <2>1. CASE q = r
    BY <1>1, <2>1, Kinds
  <2>2. CASE q # r
    BY <1>1, <2>2 DEF TypeInv, Known
  <2> QED BY <2>1, <2>2
<1> QED BY <1>3, <1>4, <1>5 DEF TypeInv

LEMMA StepOfObservation ==
    ASSUME NEW req \in Observations
    PROVE  /\ [req EXCEPT !.step = "CONFLICTED"] \in Observations
           /\ [req EXCEPT !.step = "CONFLICTED"].step = "CONFLICTED"
           /\ [req EXCEPT !.step = "CONFLICTED"].key = req.key
BY DEF Observations

LEMMA StepOfSave ==
    ASSUME NEW req \in GroupSaves
    PROVE  [req EXCEPT !.step = "CHECKED"] \in GroupSaves
BY DEF GroupSaves

LEMMA InsertPublisherTypes ==
    ASSUME TypeInv, NEW r \in Requests, InsertPublisher(r)
    PROVE  TypeInv'
<1> DEFINE e == request[r].key
           o == request[r].input
<1>1. /\ request[r] \in Observations /\ e \in Externals /\ o \in Observation
      /\ request[r].op = "OBSERVE" /\ request[r].step = "ASKED"
  BY InFlight DEF InsertPublisher, Observations
<1>2. \A d \in Externals : locker[d] # r
  BY <1>1, NotLocker
<1>3. CASE publisher[e] = Null
  <2>1. /\ publisher' = [publisher EXCEPT ![e] =
               [status |-> "DISCOVERED", first |-> o.at, last |-> o.at,
                count |-> 1, name |-> o.name]]
        /\ accepted' = [accepted EXCEPT ![e] = Append(@, o)]
        /\ Finish(r) /\ group' = group /\ item' = item /\ locker' = locker
    BY <1>3 DEF InsertPublisher
  <2>2. [status |-> "DISCOVERED", first |-> o.at, last |-> o.at,
         count |-> 1, name |-> o.name] \in Publisher
    BY <1>1 DEF Observation, Publisher, PublisherStatuses
  <2>3. publisher' \in [Externals -> Publisher \cup {Null}]
    BY <2>1, <2>2 DEF TypeInv, Types
  <2>4. \A d \in Externals : publisher[d] # Null => publisher'[d] # Null
    BY <1>3, <2>1 DEF TypeInv, Types
  <2>5. accepted[e] \in Seq(Observation)
    BY <1>1 DEF TypeInv, Types
  <2>6. accepted' \in [Externals -> Seq(Observation)]
    BY <1>1, <2>1, <2>5 DEF TypeInv, Types
  <2>7. /\ group' \in [Externals -> StoredGroups \cup {Null, OldGroup}]
        /\ item' \in [Posts -> StoredItems \cup {Null}]
        /\ locker' \in [Externals -> Requests \cup {Null}]
        /\ \A d \in Externals : locker'[d] = locker[d] /\ locker[d] # r
    BY <1>2, <2>1 DEF TypeInv, Types
  <2> QED BY <2>1, <2>3, <2>4, <2>6, <2>7, Finishing
<1>4. CASE publisher[e] # Null
  <2> DEFINE req == [request[r] EXCEPT !.step = "CONFLICTED"]
  <2>1. /\ request' = [request EXCEPT ![r] = req] /\ locker' = locker
        /\ UNCHANGED <<serial, started, accepted>> /\ UNCHANGED tables
    BY <1>4 DEF InsertPublisher, tables, TypeInv, Types
  <2>2. req \in Observations /\ req.step = "CONFLICTED" /\ req.key = e
    BY <1>1, StepOfObservation
  <2>3. /\ locker' \in [Externals -> Requests \cup {Null}]
        /\ \A d \in Externals : locker'[d] = locker[d] /\ locker[d] # r
    BY <1>2, <2>1 DEF TypeInv, Types
  <2>4. publisher[req.key] # Null
    BY <1>4, <2>2
  <2> HIDE DEF req
  <2> QED BY <2>1, <2>2, <2>3, <2>4, Moving
<1> QED BY <1>3, <1>4

LEMMA LockPublisherTypes ==
    ASSUME TypeInv, NEW r \in Requests, LockPublisher(r)
    PROVE  TypeInv'
<1> DEFINE e == request[r].key
           req == [request[r] EXCEPT !.step = "LOCKED", !.seen = publisher[e]]
<1>1. /\ request[r] \in Observations /\ e \in Externals
      /\ request[r].op = "OBSERVE" /\ request[r].step = "CONFLICTED"
  BY InFlight DEF LockPublisher, Observations
<1>2. publisher[e] # Null /\ publisher[e] \in Publisher \cup {Null}
  BY <1>1 DEF TypeInv, Types, Known
<1>3. /\ req \in Observations /\ req.step = "LOCKED" /\ req.key = e
      /\ req.seen = publisher[e]
  BY <1>1, <1>2 DEF Observations
<1>4. /\ request' = [request EXCEPT ![r] = req]
      /\ locker' = [locker EXCEPT ![e] = r]
      /\ UNCHANGED <<serial, started, accepted>> /\ UNCHANGED tables
  BY DEF LockPublisher, TypeInv, Types
<1>5. \A d \in Externals : locker[d] # r
  BY <1>1, NotLocker
<1>6. req.op = "OBSERVE"
  BY <1>3, Kinds
<1>7. locker' \in [Externals -> Requests \cup {Null}]
  BY <1>1, <1>4 DEF TypeInv, Types
<1>8. \A d \in Externals : locker'[d] = IF d = e THEN r ELSE locker[d]
  BY <1>4 DEF TypeInv, Types
<1> HIDE DEF req
<1>9. \A d \in Externals : locker'[d] # Null =>
         \/ locker'[d] = locker[d] /\ locker[d] # r
         \/ /\ locker'[d] = r
            /\ req.op = "OBSERVE" /\ req.key = d /\ req.step = "LOCKED"
  BY <1>3, <1>5, <1>6, <1>8
<1>10. publisher[req.key] # Null /\ req.seen # Null
  BY <1>2, <1>3
<1> QED BY <1>3, <1>4, <1>7, <1>9, <1>10, Moving

LEMMA Released ==
    ASSUME TypeInv, NEW r \in Requests, locker' = locker,
           \A e \in Externals : locker[e] # r
    PROVE  /\ locker' \in [Externals -> Requests \cup {Null}]
           /\ \A e \in Externals : \/ locker'[e] = locker[e] /\ locker[e] # r
                                   \/ locker'[e] = Null
BY DEF TypeInv, Types

LEMMA RecheckPromotionTypes ==
    ASSUME TypeInv, NEW r \in Requests, RecheckPromotion(r)
    PROVE  TypeInv'
<1>1. /\ request[r] \in GroupSaves /\ request[r].op = "PROMOTE"
      /\ locker' = locker /\ accepted' = accepted
      /\ publisher' = publisher /\ group' = group /\ item' = item
  BY InFlight DEF RecheckPromotion, tables
<1>2. \A e \in Externals : locker[e] # r
  BY <1>1, NotLocker
<1>3. CASE group[request[r].key] = Null
  <2> DEFINE req == [request[r] EXCEPT !.step = "CHECKED"]
  <2>1. req \in GroupSaves
    BY <1>1, StepOfSave
  <2>2. /\ request' = [request EXCEPT ![r] = req]
        /\ UNCHANGED <<serial, started, accepted>> /\ UNCHANGED tables
    BY <1>3 DEF RecheckPromotion, TypeInv, Types
  <2>3. req.op # "OBSERVE"
    BY <2>1, Kinds
  <2>4. /\ locker' \in [Externals -> Requests \cup {Null}]
        /\ \A e \in Externals : locker'[e] = locker[e] /\ locker[e] # r
    BY <1>1, <1>2 DEF TypeInv, Types
  <2> HIDE DEF req
  <2> QED BY <2>1, <2>2, <2>3, <2>4, Moving
<1>4. CASE group[request[r].key] # Null
  <2>1. Finish(r)
    BY <1>4 DEF RecheckPromotion
  <2> QED BY <1>1, <1>2, <2>1, Released, Finishing DEF TypeInv, Types
<1> QED BY <1>3, <1>4

LEMMA FailTypes ==
    ASSUME TypeInv, NEW r \in Requests, Fail(r)
    PROVE  TypeInv'
<1>1. /\ Finish(r) /\ accepted' = accepted
      /\ publisher' = publisher /\ group' = group /\ item' = item
      /\ locker' = [e \in Externals |-> IF locker[e] = r THEN Null ELSE locker[e]]
  BY DEF Fail, tables
<1>2. /\ locker' \in [Externals -> Requests \cup {Null}]
      /\ \A e \in Externals : \/ locker'[e] = locker[e] /\ locker[e] # r
                              \/ locker'[e] = Null
  BY <1>1 DEF TypeInv, Types
<1> QED BY <1>1, <1>2, Finishing DEF TypeInv, Types

LEMMA UpdatePublisherTypes ==
    ASSUME TypeInv, NEW r \in Requests, UpdatePublisher(r)
    PROVE  TypeInv'
<1> DEFINE e == request[r].key
           o == request[r].input
           next == Observed(request[r].seen, o)
           row == [publisher[e] EXCEPT !.name = next.name, !.last = next.last,
                                       !.count = next.count]
<1>1. /\ request[r] \in Observations /\ e \in Externals /\ o \in Observation
      /\ request[r].op = "OBSERVE" /\ request[r].step = "LOCKED"
      /\ request[r].seen \in Publisher \cup {Null}
  BY InFlight DEF UpdatePublisher, Observations
<1>2. /\ publisher[e] \in Publisher /\ publisher[e] # Null
      /\ request[r].seen \in Publisher
  BY <1>1 DEF TypeInv, Types, Known
<1>3. next.name \in Names \cup {Null} /\ next.last \in Times /\ next.count \in Nat
  <2>1. request[r].seen.count \in Nat
    BY <1>2 DEF Publisher
  <2> QED BY <1>1, <1>2, <2>1, ObservedRow
<1>4. /\ publisher' = [publisher EXCEPT ![e] = row]
      /\ accepted' = [accepted EXCEPT ![e] = Append(@, o)]
      /\ locker' = [locker EXCEPT ![e] = Null]
      /\ Finish(r) /\ group' = group /\ item' = item
  BY DEF UpdatePublisher, TypeInv, Types
<1> HIDE DEF next
<1>5. row \in Publisher
  BY <1>2, <1>3 DEF Publisher
<1> HIDE DEF row
<1>6. /\ publisher' \in [Externals -> Publisher \cup {Null}]
      /\ \A d \in Externals : publisher[d] # Null => publisher'[d] # Null
  BY <1>1, <1>2, <1>4, <1>5, ContentNull DEF TypeInv, Types
<1>7. accepted' \in [Externals -> Seq(Observation)]
  <2>1. accepted[e] \in Seq(Observation)
    BY <1>1 DEF TypeInv, Types
  <2> QED BY <1>1, <1>4, <2>1 DEF TypeInv, Types
<1>8. /\ locker' \in [Externals -> Requests \cup {Null}]
      /\ \A d \in Externals : \/ locker'[d] = locker[d] /\ locker[d] # r
                              \/ locker'[d] = Null
  BY <1>1, <1>4 DEF TypeInv, Types, Locks
<1>9. /\ group' \in [Externals -> StoredGroups \cup {Null, OldGroup}]
      /\ item' \in [Posts -> StoredItems \cup {Null}]
  BY <1>4 DEF TypeInv, Types
<1> QED BY <1>4, <1>6, <1>7, <1>8, <1>9, Finishing

LEMMA SaveReviewTypes ==
    ASSUME TypeInv, NEW r \in Requests, SaveReview(r)
    PROVE  TypeInv'
<1> DEFINE e == request[r].key
           row == [publisher[e] EXCEPT !.status = request[r].input]
<1>1. /\ request[r] \in Reviews /\ e \in Externals /\ request[r].op = "REVIEW"
      /\ request[r].input \in PublisherStatuses
  BY InFlight DEF SaveReview, Reviews
<1>2. publisher[e] \in Publisher /\ publisher[e] # Null
  BY <1>1 DEF TypeInv, Types, Known
<1>3. /\ publisher' = [publisher EXCEPT ![e] = row]
      /\ Finish(r) /\ group' = group /\ item' = item
      /\ locker' = locker /\ accepted' = accepted
  BY DEF SaveReview, TypeInv, Types
<1>4. row \in Publisher
  BY <1>1, <1>2 DEF Publisher
<1> HIDE DEF row
<1>5. /\ publisher' \in [Externals -> Publisher \cup {Null}]
      /\ \A d \in Externals : publisher[d] # Null => publisher'[d] # Null
  BY <1>1, <1>2, <1>3, <1>4, ContentNull DEF TypeInv, Types
<1>6. \A d \in Externals : locker[d] # r
  BY <1>1, NotLocker
<1>7. /\ group' \in [Externals -> StoredGroups \cup {Null, OldGroup}]
      /\ item' \in [Posts -> StoredItems \cup {Null}]
      /\ accepted' \in [Externals -> Seq(Observation)]
  BY <1>3 DEF TypeInv, Types
<1> QED BY <1>3, <1>5, <1>6, <1>7, Released, Finishing

LEMMA GroupSaved ==
    ASSUME TypeInv, NEW r \in Requests, request[r].op \in {"PROMOTE", "CREATE", "EDIT"},
           \/ group' = [group EXCEPT ![request[r].key] = request[r].input]
           \/ group' = group,
           Finish(r), UNCHANGED <<publisher, item, locker, accepted>>
    PROVE  TypeInv'
<1>1. /\ request[r] \in GroupSaves /\ request[r].key \in Externals
      /\ request[r].input \in StoredGroups
  BY InFlight DEF GroupSaves
<1>2. group' \in [Externals -> StoredGroups \cup {Null, OldGroup}]
  BY <1>1 DEF TypeInv, Types
<1>3. \A e \in Externals : locker[e] # r
  BY NotLocker
<1>4. /\ publisher' \in [Externals -> Publisher \cup {Null}]
      /\ item' \in [Posts -> StoredItems \cup {Null}]
      /\ accepted' \in [Externals -> Seq(Observation)]
      /\ \A d \in Externals : publisher[d] # Null => publisher'[d] # Null
  BY DEF TypeInv, Types
<1> QED BY <1>2, <1>3, <1>4, Released, Finishing

LEMMA SaveItemTypes ==
    ASSUME TypeInv, NEW r \in Requests, SaveItem(r)
    PROVE  TypeInv'
<1>1. /\ request[r] \in ItemSaves /\ request[r].key \in Posts
      /\ request[r].input \in StoredItems /\ request[r].op # "OBSERVE"
  BY InFlight DEF SaveItem, ItemSaves
<1>2. /\ \/ item' = [item EXCEPT ![request[r].key] = request[r].input]
         \/ item' = item
      /\ Finish(r) /\ UNCHANGED <<publisher, group, locker, accepted>>
  BY DEF SaveItem
<1>3. item' \in [Posts -> StoredItems \cup {Null}]
  BY <1>1, <1>2 DEF TypeInv, Types
<1>4. \A e \in Externals : locker[e] # r
  BY <1>1, NotLocker
<1>5. /\ publisher' \in [Externals -> Publisher \cup {Null}]
      /\ group' \in [Externals -> StoredGroups \cup {Null, OldGroup}]
      /\ accepted' \in [Externals -> Seq(Observation)]
      /\ \A d \in Externals : publisher[d] # Null => publisher'[d] # Null
  BY <1>2 DEF TypeInv, Types
<1> QED BY <1>2, <1>3, <1>4, <1>5, Released, Finishing

LEMMA TypesKept == TypeInv /\ [Next]_vars => TypeInv'
<1> SUFFICES ASSUME TypeInv, [Next]_vars PROVE TypeInv'
  OBVIOUS
<1>1. ASSUME NEW r \in Requests, PublisherStep(r) PROVE TypeInv'
  BY <1>1, ObserveTypes, InsertPublisherTypes, LockPublisherTypes, UpdatePublisherTypes,
     ReviewTypes, SaveReviewTypes DEF PublisherStep
<1>2. ASSUME NEW r \in Requests, GroupStep(r) PROVE TypeInv'
  <2>1. CASE InsertGroup(r)
    BY <2>1, GroupSaved DEF InsertGroup
  <2>2. CASE SaveGroup(r)
    BY <2>2, GroupSaved DEF SaveGroup
  <2> QED BY <1>2, <2>1, <2>2, PromoteTypes, EditTypes, RecheckPromotionTypes,
             CreateTypes DEF GroupStep
<1>3. ASSUME NEW r \in Requests, ItemStep(r) PROVE TypeInv'
  BY <1>3, IngestFromGroupTypes, IngestFromFeedTypes, UpdateItemStatusTypes,
     SaveItemTypes DEF ItemStep
<1>4. CASE UNCHANGED vars
  <2>1. Types' /\ Locks'
    BY <1>4 DEF vars, TypeInv, Types, Locks
  <2>2. Known'
    BY <1>4 DEF vars, TypeInv, Known
  <2> QED BY <2>1, <2>2 DEF TypeInv
<1> QED BY <1>1, <1>2, <1>3, <1>4, FailTypes DEF Next

LEMMA TypesAlways == Spec => []TypeInv
BY TypesInitially, TypesKept, PTL DEF Spec

-----------------------------------------------------------------------------
(* What holds of every stored row *)

\* The rows of the content manager's tables and the requests in flight have
\* their types, and only the observation that read a publisher's row locks it.
THEOREM Typing == Spec => []TypeOK
BY TypesAlways, TypesHold, PTL

\* However many requests edit a group at once, the default entry route it is
\* stored with is one of its routes.
THEOREM DefaultRoutes == Spec => []DefaultRouteKept
<1>1. TypeInv => DefaultRouteKept
  BY DEF TypeInv, Types, StoredGroups, DefaultRouteKept
<1> QED BY <1>1, TypesAlways, PTL

\* Whatever the order in which a post is collected, each save leaves it valid
\* and every later collection it is compatible with can save it again.
THEOREM Ingestible == Spec => []AlwaysIngestible
<1>1. ASSUME NEW row \in Item, NEW e \in Externals, NEW at \in Times, ValidItem(row)
      PROVE  /\ Compatible(row.managed, e) => ValidItem(FromGroup(row, e, at))
             /\ Compatible(row.publisher, e) => ValidItem(FromFeed(row, e, at))
  <2>1. Compatible(row.managed, e) => ValidItem(FromGroup(row, e, at))
    BY <1>1, ContentSets DEF Item, ValidItem, FromGroup, Compatible, Feed
  <2>2. ValidItem(FromFeed(row, e, at))
    BY <1>1 DEF Item, ValidItem, FromFeed
  <2> QED BY <2>1, <2>2
<1>2. TypeInv => AlwaysIngestible
  <2> SUFFICES ASSUME TypeInv, NEW x \in Posts, item[x] # Null
               PROVE  /\ ValidItem(item[x])
                      /\ \A e \in Externals, at \in Times :
                            /\ Compatible(item[x].managed, e) => ValidItem(FromGroup(item[x], e, at))
                            /\ Compatible(item[x].publisher, e) => ValidItem(FromFeed(item[x], e, at))
    BY DEF AlwaysIngestible
  <2>1. item[x] \in Item /\ ValidItem(item[x])
    BY DEF TypeInv, Types, StoredItems
  <2> QED BY <1>1, <2>1
<1> QED BY <1>2, TypesAlways, PTL

-----------------------------------------------------------------------------
(* What a request about a post takes back *)

Saving(q) == request[q].op \in {"INGEST", "STATUS"}

Follows(old, new) ==
    /\ new.surface = old.surface /\ new.first = old.first
    /\ new.status \in AllowedStatus(old.status) \cup {old.status}
    /\ old.managed # Null => new.managed = old.managed
    /\ old.publisher # Null => new.publisher = old.publisher

\* The row a request will save follows the row it read, which is the stored one
\* when no two requests are about the same post
SaveInv ==
    \A q \in Requests : Saving(q) =>
        /\ request[q].seen # Null =>
              /\ item[request[q].key] # Null
              /\ item[request[q].key].surface = request[q].seen.surface
              /\ item[request[q].key].first = request[q].seen.first
              /\ Follows(request[q].seen, request[q].input)
        /\ serial => request[q].seen = item[request[q].key]

Alone ==
    serial => \A q, p \in Requests :
        Saving(q) /\ Saving(p) /\ request[q].key = request[p].key => q = p

LEMMA SavesInitially == Init => SaveInv /\ Alone
BY Kinds DEF Init, SaveInv, Alone, Saving

LEMMA ItemSubject ==
    ASSUME NEW req, req.op \in {"INGEST", "STATUS"}
    PROVE  Subject(req) = <<"item", req.key>>
BY Zenon DEF Subject

LEMMA CollectedAgain ==
    ASSUME NEW row \in Item, NEW e \in Externals, NEW at \in Times
    PROVE  /\ Compatible(row.managed, e) => Follows(row, FromGroup(row, e, at))
           /\ Compatible(row.publisher, e) => Follows(row, FromFeed(row, e, at))
BY DEF Item, Compatible, Follows, FromGroup, FromFeed

LEMMA StatusGiven ==
    ASSUME NEW row \in Item, NEW status \in AllowedStatus(row.status)
    PROVE  Follows(row, [row EXCEPT !.status = status])
BY DEF Item, Follows

\* A step leaves the posts and the requests about them alone
LeavesRequests ==
    \A q \in Requests : \/ request'[q] = request[q]
                        \/ request'[q].op \notin {"INGEST", "STATUS"}
LeavesPosts == item' = item /\ serial' = serial /\ LeavesRequests

LEMMA Aside ==
    ASSUME SaveInv, Alone, LeavesPosts
    PROVE  SaveInv' /\ Alone'
<1>1. ASSUME NEW q \in Requests, Saving(q)' PROVE request'[q] = request[q] /\ Saving(q)
  BY <1>1 DEF Saving, LeavesPosts, LeavesRequests
<1>2. SaveInv'
  <2> SUFFICES ASSUME NEW q \in Requests, Saving(q)' PROVE SaveInv!(q)!2'
    BY DEF SaveInv
  <2> QED BY <1>1 DEF SaveInv, LeavesPosts
<1>3. Alone'
  <2> SUFFICES ASSUME serial, NEW q \in Requests, NEW p \in Requests, Saving(q)', Saving(p)',
                      request'[q].key = request'[p].key
               PROVE  q = p
    BY DEF Alone, LeavesPosts
  <2> QED BY <1>1 DEF Alone
<1> QED BY <1>2, <1>3

LEMMA SaveBegun ==
    ASSUME TypeInv, SaveInv, Alone, NEW r \in Requests, NEW op \in {"INGEST", "STATUS"},
           NEW x \in Posts, NEW row \in Item, BeginSave(r, op, x, row),
           item[x] # Null => Follows(item[x], row)
    PROVE  SaveInv' /\ Alone'
<1> DEFINE req == [op |-> op, key |-> x, step |-> "READ", seen |-> item[x], input |-> row]
<1>1. /\ request[r] = Idle /\ item' = item /\ serial' = serial
      /\ \A q \in Requests : request'[q] = IF q = r THEN req ELSE request[q]
      /\ serial => \A q \in Requests : request[q] # Idle => Subject(request[q]) # Subject(req)
  BY DEF BeginSave, Begin, tables, TypeInv, Types
<1>2. /\ req.op \in {"INGEST", "STATUS"} /\ req.key = x
      /\ req.seen = item[x] /\ req.input = row
  OBVIOUS
<1> HIDE DEF req
<1>3. ASSUME NEW q \in Requests, q # r, Saving(q)'
      PROVE  request'[q] = request[q] /\ Saving(q)
  BY <1>1, <1>3 DEF Saving
<1>4. SaveInv'
  <2> SUFFICES ASSUME NEW q \in Requests, Saving(q)' PROVE SaveInv!(q)!2'
    BY DEF SaveInv
  <2>1. CASE q = r
    BY <1>1, <1>2, <2>1
  <2>2. CASE q # r
    BY <1>1, <1>3, <2>2 DEF SaveInv
  <2> QED BY <2>1, <2>2
<1>5. ASSUME serial, NEW q \in Requests, q # r, Saving(q) PROVE request[q].key # x
  <2>1. request[q] # Idle
    BY <1>5, Kinds DEF Saving
  <2>2. Subject(request[q]) = <<"item", request[q].key>>
    BY <1>5, ItemSubject DEF Saving
  <2>3. Subject(req) = <<"item", x>>
    BY <1>2, ItemSubject
  <2> QED BY <1>1, <1>5, <2>1, <2>2, <2>3
<1>6. Alone'
  <2> SUFFICES ASSUME serial, NEW q \in Requests, NEW p \in Requests, Saving(q)', Saving(p)',
                      request'[q].key = request'[p].key
               PROVE  q = p
    BY <1>1 DEF Alone
  <2>1. ASSUME NEW o \in Requests, o # r, Saving(o)' PROVE request'[o].key # x
    BY <1>3, <1>5, <2>1
  <2>2. request'[r].key = x
    BY <1>1, <1>2
  <2> QED BY <1>3, <2>1, <2>2 DEF Alone
<1> QED BY <1>4, <1>6

LEMMA SaveDone ==
    ASSUME TypeInv, SaveInv, Alone, NEW r \in Requests, SaveItem(r)
    PROVE  SaveInv' /\ Alone'
<1> DEFINE x == request[r].key
<1>1. /\ Saving(r) /\ x \in Posts /\ request[r].input \in Item
  BY InFlight DEF SaveItem, Saving, ItemSaves, StoredItems
<1>2. /\ \A q \in Requests : request'[q] = IF q = r THEN Idle ELSE request[q]
      /\ serial' = serial
  BY DEF SaveItem, Finish, TypeInv, Types
<1>3. CASE request[r].seen = Null /\ item[x] # Null
  <2>1. item' = item
    BY <1>3 DEF SaveItem
  <2> QED BY <1>2, <2>1, Aside, Kinds DEF LeavesPosts, LeavesRequests
<1>4. CASE ~(request[r].seen = Null /\ item[x] # Null)
  <2>1. \A y \in Posts : item'[y] = IF y = x THEN request[r].input ELSE item[y]
    BY <1>4 DEF SaveItem, TypeInv, Types
  <2>2. ASSUME NEW q \in Requests, Saving(q)'
        PROVE  request'[q] = request[q] /\ Saving(q) /\ q # r /\ request[q].key \in Posts
    BY <1>2, <2>2, Kinds, InFlight DEF Saving
  <2>3. SaveInv'
    <3> SUFFICES ASSUME NEW q \in Requests, Saving(q)' PROVE SaveInv!(q)!2'
      BY DEF SaveInv
    <3>1. CASE request[q].key = x
      <4>1. ~serial
        BY <1>1, <2>2, <3>1 DEF Alone
      <4>2. ASSUME request[q].seen # Null
            PROVE  /\ item'[request[q].key] # Null
                   /\ item'[request[q].key].surface = request[q].seen.surface
                   /\ item'[request[q].key].first = request[q].seen.first
                   /\ Follows(request[q].seen, request[q].input)
        <5>1. /\ item[x] # Null /\ item[x].surface = request[q].seen.surface
              /\ item[x].first = request[q].seen.first
              /\ Follows(request[q].seen, request[q].input)
          BY <2>2, <3>1, <4>2 DEF SaveInv
        <5>2. request[r].seen # Null
          BY <1>4, <5>1
        <5>3. /\ item[x].surface = request[r].seen.surface
              /\ item[x].first = request[r].seen.first
              /\ Follows(request[r].seen, request[r].input)
          BY <1>1, <5>2 DEF SaveInv
        <5>4. item'[x] = request[r].input /\ request[r].input # Null
          BY <1>1, <2>1, ContentNull
        <5> QED BY <3>1, <5>1, <5>3, <5>4 DEF Follows
      <4> QED BY <1>2, <2>2, <4>1, <4>2
    <3>2. CASE request[q].key # x
      <4>1. item'[request[q].key] = item[request[q].key]
        BY <2>1, <2>2, <3>2
      <4> QED BY <1>2, <2>2, <4>1 DEF SaveInv
    <3> QED BY <3>1, <3>2
  <2>4. Alone'
    <3> SUFFICES ASSUME serial, NEW q \in Requests, NEW p \in Requests, Saving(q)', Saving(p)',
                        request'[q].key = request'[p].key
                 PROVE  q = p
      BY <1>2 DEF Alone
    <3> QED BY <2>2 DEF Alone
  <2> QED BY <2>3, <2>4
<1> QED BY <1>3, <1>4

\* The steps of the other requests
LEMMA OthersAside ==
    ASSUME TypeInv, NEW r \in Requests,
           PublisherStep(r) \/ GroupStep(r) \/ Fail(r)
    PROVE  LeavesPosts
<1>1. ASSUME NEW req, req.op \notin {"INGEST", "STATUS"},
             request' = [request EXCEPT ![r] = req]
      PROVE  LeavesRequests
  BY <1>1 DEF TypeInv, Types, LeavesRequests
<1>2. Finish(r) => LeavesRequests
  BY <1>1, Kinds DEF Finish
<1>3. ASSUME PublisherStep(r)
      PROVE  LeavesPosts
  <2>1. CASE \E e \in Externals, o \in Observation : Observe(r, e, o)
    <3>1. PICK e \in Externals, o \in Observation : Observe(r, e, o)
      BY <2>1
    <3> DEFINE req == [op |-> "OBSERVE", key |-> e, step |-> "ASKED", seen |-> Null, input |-> o]
    <3>2. req.op \notin {"INGEST", "STATUS"}
      OBVIOUS
    <3>3. request' = [request EXCEPT ![r] = req] /\ item' = item /\ serial' = serial
      BY <3>1 DEF Observe, Begin, tables
    <3> HIDE DEF req
    <3> QED BY <1>1, <3>2, <3>3 DEF LeavesPosts
  <2>2. CASE \E e \in Externals, status \in PublisherStatuses : ReviewPublisher(r, e, status)
    <3>1. PICK e \in Externals, status \in PublisherStatuses : ReviewPublisher(r, e, status)
      BY <2>2
    <3> DEFINE req == [op |-> "REVIEW", key |-> e, step |-> "READ", seen |-> Null,
                       input |-> status]
    <3>2. req.op \notin {"INGEST", "STATUS"}
      OBVIOUS
    <3>3. request' = [request EXCEPT ![r] = req] /\ item' = item /\ serial' = serial
      BY <3>1 DEF ReviewPublisher, Begin, tables
    <3> HIDE DEF req
    <3> QED BY <1>1, <3>2, <3>3 DEF LeavesPosts
  <2>3. CASE InsertPublisher(r)
    <3>1. item' = item /\ serial' = serial
      BY <2>3 DEF InsertPublisher, Finish
    <3>2. request[r] \in Observations
      BY <2>3, InFlight DEF InsertPublisher
    <3>3. [request[r] EXCEPT !.step = "CONFLICTED"].op \notin {"INGEST", "STATUS"}
      BY <3>2 DEF Observations
    <3>4. Finish(r) \/ request' = [request EXCEPT ![r] = [request[r] EXCEPT !.step = "CONFLICTED"]]
      BY <2>3 DEF InsertPublisher, TypeInv, Types
    <3> QED BY <1>1, <1>2, <3>1, <3>3, <3>4 DEF LeavesPosts
  <2>4. CASE LockPublisher(r)
    <3>1. item' = item /\ serial' = serial
      BY <2>4 DEF LockPublisher, tables
    <3>2. request[r] \in Observations
      BY <2>4, InFlight DEF LockPublisher
    <3> DEFINE req == [request[r] EXCEPT !.step = "LOCKED", !.seen = publisher[request[r].key]]
    <3>3. req.op \notin {"INGEST", "STATUS"}
      BY <3>2 DEF Observations
    <3>4. request' = [request EXCEPT ![r] = req]
      BY <2>4 DEF LockPublisher, TypeInv, Types
    <3> HIDE DEF req
    <3> QED BY <1>1, <3>1, <3>3, <3>4 DEF LeavesPosts
  <2>5. CASE UpdatePublisher(r) \/ SaveReview(r)
    BY <1>2, <2>5 DEF UpdatePublisher, SaveReview, Finish, LeavesPosts
  <2> QED BY <1>3, <2>1, <2>2, <2>3, <2>4, <2>5 DEF PublisherStep
<1>4. ASSUME GroupStep(r)
      PROVE  LeavesPosts
  <2>1. ASSUME NEW e, NEW op \in {"PROMOTE", "CREATE", "EDIT"}, NEW step, NEW row,
               Begin(r, [op |-> op, key |-> e, step |-> step, seen |-> Null, input |-> row]),
               UNCHANGED <<locker, serial, accepted>>, UNCHANGED tables
        PROVE  LeavesPosts
    <3> DEFINE req == [op |-> op, key |-> e, step |-> step, seen |-> Null, input |-> row]
    <3>1. request' = [request EXCEPT ![r] = req] /\ item' = item /\ serial' = serial
      BY <2>1 DEF Begin, tables
    <3>2. req.op \notin {"INGEST", "STATUS"}
      OBVIOUS
    <3> HIDE DEF req
    <3> QED BY <1>1, <3>1, <3>2 DEF LeavesPosts
  <2>2. CASE \E e \in Externals : PromotePublisher(r, e)
    BY <2>1, <2>2 DEF PromotePublisher
  <2>3. CASE \E e \in Externals : EditGroup(r, e)
    BY <2>1, <2>3 DEF EditGroup
  <2>4. CASE \E e \in Externals, status \in GroupStatuses : CreateGroup(r, e, status)
    BY <2>1, <2>4 DEF CreateGroup
  <2>5. CASE RecheckPromotion(r)
    <3>1. item' = item /\ serial' = serial
      BY <2>5 DEF RecheckPromotion, Finish, tables
    <3>2. request[r] \in GroupSaves
      BY <2>5, InFlight DEF RecheckPromotion
    <3>3. [request[r] EXCEPT !.step = "CHECKED"].op \notin {"INGEST", "STATUS"}
      BY <3>2 DEF GroupSaves
    <3>4. Finish(r) \/ request' = [request EXCEPT ![r] = [request[r] EXCEPT !.step = "CHECKED"]]
      BY <2>5 DEF RecheckPromotion, TypeInv, Types
    <3> QED BY <1>1, <1>2, <3>1, <3>3, <3>4 DEF LeavesPosts
  <2>6. CASE InsertGroup(r) \/ SaveGroup(r)
    BY <1>2, <2>6 DEF InsertGroup, SaveGroup, Finish, LeavesPosts
  <2> QED BY <1>4, <2>2, <2>3, <2>4, <2>5, <2>6 DEF GroupStep
<1>5. ASSUME Fail(r)
      PROVE  LeavesPosts
  BY <1>2, <1>5 DEF Fail, Finish, tables, LeavesPosts
<1> QED BY <1>3, <1>4, <1>5

LEMMA SavesKept ==
    ASSUME TypeInv, SaveInv, Alone, [Next]_vars
    PROVE  SaveInv' /\ Alone'
<1>1. ASSUME NEW r \in Requests, NEW x \in Posts, NEW e \in Externals, NEW at \in Times,
             IngestFromGroup(r, x, e, at)
      PROVE  SaveInv' /\ Alone'
  <2>1. CASE item[x] = Null
    <3>1. NewItem(e, e, Null, at) \in Item
      BY NewRows
    <3> QED BY <1>1, <2>1, <3>1, SaveBegun DEF IngestFromGroup
  <2>2. CASE item[x] # Null
    <3>1. item[x] \in Item
      BY <2>2, ItemTypes
    <3>2. FromGroup(item[x], e, at) \in Item
      BY <3>1, ItemUpdates
    <3>3. Follows(item[x], FromGroup(item[x], e, at))
      BY <1>1, <2>2, <3>1, CollectedAgain DEF IngestFromGroup
    <3> QED BY <1>1, <2>2, <3>2, <3>3, SaveBegun DEF IngestFromGroup
  <2> QED BY <2>1, <2>2
<1>2. ASSUME NEW r \in Requests, NEW x \in Posts, NEW e \in Externals, NEW at \in Times,
             IngestFromFeed(r, x, e, at)
      PROVE  SaveInv' /\ Alone'
  <2>1. CASE item[x] = Null
    <3>1. NewItem(Feed, Null, e, at) \in Item
      BY NewRows
    <3> QED BY <1>2, <2>1, <3>1, SaveBegun DEF IngestFromFeed
  <2>2. CASE item[x] # Null
    <3>1. item[x] \in Item
      BY <2>2, ItemTypes
    <3>2. FromFeed(item[x], e, at) \in Item
      BY <3>1, ItemUpdates
    <3>3. Follows(item[x], FromFeed(item[x], e, at))
      BY <1>2, <2>2, <3>1, CollectedAgain DEF IngestFromFeed
    <3> QED BY <1>2, <2>2, <3>2, <3>3, SaveBegun DEF IngestFromFeed
  <2> QED BY <2>1, <2>2
<1>3. ASSUME NEW r \in Requests, NEW x \in Posts, NEW status \in ItemStatuses,
             UpdateItemStatus(r, x, status)
      PROVE  SaveInv' /\ Alone'
  <2>1. item[x] \in Item /\ status \in AllowedStatus(item[x].status)
    BY <1>3, ItemTypes DEF UpdateItemStatus
  <2>2. [item[x] EXCEPT !.status = status] \in Item
    BY <2>1, StatusUpdates
  <2>3. Follows(item[x], [item[x] EXCEPT !.status = status])
    BY <2>1, StatusGiven
  <2> QED BY <1>3, <2>2, <2>3, SaveBegun DEF UpdateItemStatus
<1>4. ASSUME NEW r \in Requests, ItemStep(r) PROVE SaveInv' /\ Alone'
  BY <1>1, <1>2, <1>3, <1>4, SaveDone DEF ItemStep
<1>5. CASE UNCHANGED vars
  BY <1>5, Aside DEF vars, LeavesPosts, LeavesRequests
<1> QED BY <1>4, <1>5, OthersAside, Aside DEF Next

\* What one step takes back of a stored post
TakesNothingBack ==
    \A x \in Posts : item[x] # Null =>
          /\ item'[x].surface = item[x].surface /\ item'[x].first = item[x].first
          /\ serial =>
                /\ StatusPreserved(x)
                /\ item[x].managed # Null => item'[x].managed = item[x].managed
                /\ item[x].publisher # Null => item'[x].publisher = item[x].publisher

LEMMA StepTakesNothingBack ==
    ASSUME TypeInv, SaveInv, Alone, [Next]_vars
    PROVE  TakesNothingBack
<1> SUFFICES ASSUME NEW x \in Posts, item[x] # Null PROVE TakesNothingBack!(x)!2
  BY DEF TakesNothingBack
<1>1. CASE item'[x] = item[x]
  BY <1>1 DEF StatusPreserved
<1>2. CASE item'[x] # item[x]
  <2>1. PICK r \in Requests : SaveItem(r)
    <3>1. PICK r \in Requests : ItemStep(r)
      BY <1>2, OthersAside DEF Next, vars, LeavesPosts
    <3>2. ASSUME NEW op, NEW y, NEW row, BeginSave(r, op, y, row) PROVE FALSE
      BY <1>2, <3>2 DEF BeginSave, tables
    <3> QED BY <3>1, <3>2 DEF ItemStep, IngestFromGroup, IngestFromFeed, UpdateItemStatus
  <2>2. /\ x = request[r].key /\ Saving(r) /\ request[r].seen # Null
        /\ item'[x] = request[r].input
    <3>1. Saving(r) /\ request[r].key \in Posts
      BY <2>1, InFlight DEF SaveItem, Saving, ItemSaves
    <3>2. /\ ~(request[r].seen = Null /\ item[request[r].key] # Null)
          /\ item' = [item EXCEPT ![request[r].key] = request[r].input]
      BY <1>2, <2>1 DEF SaveItem
    <3> QED BY <1>2, <3>1, <3>2 DEF TypeInv, Types
  <2>3. /\ item[x].surface = request[r].seen.surface
        /\ item[x].first = request[r].seen.first
        /\ Follows(request[r].seen, item'[x])
        /\ serial => request[r].seen = item[x]
    BY <2>2 DEF SaveInv
  <2> QED BY <2>3 DEF Follows, StatusPreserved
<1> QED BY <1>1, <1>2

\* Collecting a post again, however the requests overlap, changes neither where
\* nor when it was first collected; when requests about a post do not overlap it
\* takes back neither the operator's decision nor the publisher or group known.
THEOREM CollectingTakesNothingBack == Spec => NothingTakenBack
<1>1. Init => TypeInv /\ SaveInv /\ Alone
  BY TypesInitially, SavesInitially
<1>2. TypeInv /\ SaveInv /\ Alone /\ [Next]_vars => (TypeInv /\ SaveInv /\ Alone)'
  BY TypesKept, SavesKept
<1>3. TypeInv /\ SaveInv /\ Alone /\ [Next]_vars => [TakesNothingBack]_vars
  BY StepTakesNothingBack
<1>4. Spec => [][TakesNothingBack]_vars
  BY <1>1, <1>2, <1>3, PTL DEF Spec
<1> QED BY <1>4 DEF NothingTakenBack, TakesNothingBack

-----------------------------------------------------------------------------
(* What a publisher remembers of its observations *)

Named(seq, last, i) == i \in 1 .. Len(seq) /\ seq[i].at = last /\ seq[i].name # Null

\* The row tells the observations of seq
Tells(row, seq) ==
    /\ row.count = Len(seq) /\ Len(seq) > 0 /\ row.first = seq[1].at
    /\ \A i \in 1 .. Len(seq) : seq[i].at <= row.last
    /\ \E i \in 1 .. Len(seq) : seq[i].at = row.last
    /\ \A i \in 1 .. Len(seq) :
          /\ Named(seq, row.last, i)
          /\ \A j \in 1 .. Len(seq) : Named(seq, row.last, j) => j <= i
          => row.name = seq[i].name

\* The row after an observation is accepted
Recorded(row, o) ==
    [row EXCEPT !.name = Observed(row, o).name, !.last = Observed(row, o).last,
                !.count = Observed(row, o).count]

LEMMA RecordedRow ==
    ASSUME NEW row \in Publisher, NEW o \in Observation
    PROVE  /\ Recorded(row, o).first = row.first
           /\ Recorded(row, o).count = row.count + 1
           /\ Recorded(row, o).last = IF o.at >= row.last THEN o.at ELSE row.last
           /\ Recorded(row, o).name = IF o.at >= row.last /\ o.name # Null THEN o.name
                                      ELSE row.name
<1>1. DOMAIN row = {"status", "first", "last", "count", "name"}
  BY DEF Publisher
<1> DEFINE next == Observed(row, o)
<1>2. /\ next.count = row.count + 1
      /\ next.last = IF o.at >= row.last THEN o.at ELSE row.last
      /\ next.name = IF o.at >= row.last /\ o.name # Null THEN o.name ELSE row.name
  BY <1>1 DEF Observed
<1>3. Recorded(row, o) = [row EXCEPT !.name = next.name, !.last = next.last,
                                     !.count = next.count]
  BY DEF Recorded
<1> HIDE DEF next
<1> QED BY <1>1, <1>2, <1>3

LEMMA RecordedStored ==
    ASSUME NEW row \in Publisher, NEW o \in Observation
    PROVE  Recorded(row, o) \in Publisher
<1> DEFINE next == Observed(row, o)
<1>1. next.name \in Names \cup {Null} /\ next.last \in Times /\ next.count \in Nat
  <2>1. row.count \in Nat
    BY DEF Publisher
  <2> QED BY <2>1, ObservedRow
<1>2. Recorded(row, o) = [row EXCEPT !.name = next.name, !.last = next.last,
                                     !.count = next.count]
  BY DEF Recorded
<1> HIDE DEF next
<1> QED BY <1>1, <1>2 DEF Publisher

LEMMA FirstTold ==
    ASSUME NEW o \in Observation, NEW row \in Publisher, NEW seq, seq = Append(<<>>, o),
           row.first = o.at, row.last = o.at, row.count = 1, row.name = o.name
    PROVE  Tells(row, seq)
<1>1. Len(seq) = 1 /\ seq[1] = o
  OBVIOUS
<1>2. o.at \in Nat
  BY ContentTimes DEF Observation
<1> QED BY <1>1, <1>2 DEF Tells, Named

LEMMA ObservedTimes ==
    ASSUME NEW seq \in Seq(Observation)
    PROVE  \A i \in 1 .. Len(seq) : seq[i].at \in Nat
<1>1. \A i \in 1 .. Len(seq) : seq[i] \in Observation
  OBVIOUS
<1>2. \A o \in Observation : o.at \in Nat
  BY ContentTimes DEF Observation
<1> QED BY <1>1, <1>2

\* However late an observation arrives, the row tells it with those before
LEMMA NextTold ==
    ASSUME NEW row \in Publisher, NEW seq \in Seq(Observation), NEW o \in Observation,
           Tells(row, seq)
    PROVE  Tells(Recorded(row, o), Append(seq, o))
<1> DEFINE next == Recorded(row, o)
           n == Len(seq)
           longer == Append(seq, o)
<1>1. /\ n \in Nat /\ n > 0 /\ Len(longer) = n + 1 /\ longer[n + 1] = o
      /\ \A i \in 1 .. n : longer[i] = seq[i]
  BY DEF Tells
<1>2. /\ row.last \in Nat /\ o.at \in Nat /\ row.count = n
      /\ \A i \in 1 .. n : seq[i].at \in Nat
  <2>1. row.last \in Nat /\ o.at \in Nat
    BY ContentTimes DEF Publisher, Observation
  <2> QED BY <2>1, ObservedTimes DEF Tells
<1>3. /\ next.first = row.first /\ next.count = row.count + 1
      /\ next.last = IF o.at >= row.last THEN o.at ELSE row.last
      /\ next.name = IF o.at >= row.last /\ o.name # Null THEN o.name ELSE row.name
  BY RecordedRow
<1>4. \A i \in 1 .. n : seq[i].at <= row.last
  BY DEF Tells
<1>5. PICK k \in 1 .. n : seq[k].at = row.last
  BY DEF Tells
<1>6. row.first = seq[1].at
  BY DEF Tells
<1> HIDE DEF next, n, longer
<1>7. next.count = Len(longer) /\ Len(longer) > 0 /\ next.first = longer[1].at
  BY <1>1, <1>2, <1>3, <1>6
<1>8. \A i \in 1 .. n + 1 : longer[i].at <= next.last
  <2> SUFFICES ASSUME NEW i \in 1 .. n + 1 PROVE longer[i].at <= next.last
    OBVIOUS
  <2>1. CASE i = n + 1
    BY <1>1, <1>2, <1>3, <2>1
  <2>2. CASE i \in 1 .. n
    BY <1>1, <1>2, <1>3, <1>4, <2>2
  <2> QED BY <1>1, <2>1, <2>2
<1>9. \E i \in 1 .. n + 1 : longer[i].at = next.last
  <2>1. CASE o.at >= row.last
    BY <1>1, <1>3, <2>1
  <2>2. CASE ~(o.at >= row.last)
    BY <1>1, <1>3, <1>5, <2>2
  <2> QED BY <2>1, <2>2
<1>10. ASSUME NEW i \in 1 .. n + 1, Named(longer, next.last, i),
              \A j \in 1 .. n + 1 : Named(longer, next.last, j) => j <= i
       PROVE  next.name = longer[i].name
  <2>1. CASE o.at >= row.last /\ o.name # Null
    <3>1. Named(longer, next.last, n + 1)
      BY <1>1, <1>3, <2>1 DEF Named
    <3>2. i = n + 1
      BY <1>1, <1>10, <3>1
    <3> QED BY <1>1, <1>3, <2>1, <3>2
  <2>2. CASE ~(o.at >= row.last /\ o.name # Null)
    <3>1. i \in 1 .. n /\ longer[i] = seq[i]
      BY <1>1, <1>2, <1>3, <1>10, <2>2 DEF Named
    <3>2. seq[i].at = next.last /\ seq[i].name # Null
      BY <1>10, <3>1 DEF Named
    <3>3. next.last = row.last
      BY <1>2, <1>3, <1>4, <3>1, <3>2
    <3>4. Named(seq, row.last, i)
      BY <3>1, <3>2, <3>3 DEF Named, n
    <3>5. ASSUME NEW j \in 1 .. n, Named(seq, row.last, j) PROVE j <= i
      <4>1. Named(longer, next.last, j)
        BY <1>1, <3>3, <3>5 DEF Named
      <4> QED BY <1>1, <1>10, <4>1
    <3>6. row.name = seq[i].name
      BY <3>1, <3>4, <3>5 DEF Tells, n
    <3> QED BY <1>3, <2>2, <3>1, <3>6
  <2> QED BY <2>1, <2>2
<1> QED BY <1>1, <1>7, <1>8, <1>9, <1>10 DEF Tells, next, longer

LEMMA ToldAsKept ==
    ASSUME NEW row \in Publisher, NEW seq \in Seq(Observation), Tells(row, seq)
    PROVE  LET named == {i \in Newest(seq) : seq[i].name # Null} IN
           /\ row.count = Len(seq)
           /\ row.first = seq[1].at
           /\ \A i \in Newest(seq) : row.last = seq[i].at
           /\ \A i \in named : (\A j \in named : j <= i) => row.name = seq[i].name
<1> DEFINE n == Len(seq)
<1>1. n \in Nat /\ DOMAIN seq = 1 .. n
  OBVIOUS
<1>2. row.last \in Nat /\ \A i \in 1 .. n : seq[i].at \in Nat /\ seq[i].at <= row.last
  <2>1. row.last \in Nat
    BY ContentTimes DEF Publisher
  <2> QED BY <2>1, ObservedTimes DEF Tells
<1>3. PICK k \in 1 .. n : seq[k].at = row.last
  BY DEF Tells
<1>4. \A i \in 1 .. n : i \in Newest(seq) <=> seq[i].at = row.last
  BY <1>1, <1>2, <1>3 DEF Newest
<1>5. \A i : i \in Newest(seq) /\ seq[i].name # Null <=> Named(seq, row.last, i)
  BY <1>1, <1>4 DEF Newest, Named
<1>6. row.count = Len(seq) /\ row.first = seq[1].at
  BY DEF Tells
<1>7. \A i \in Newest(seq) : row.last = seq[i].at
  BY <1>1, <1>4 DEF Newest
<1>8. ASSUME NEW i \in {j \in Newest(seq) : seq[j].name # Null},
             \A j \in {m \in Newest(seq) : seq[m].name # Null} : j <= i
      PROVE  row.name = seq[i].name
  <2>1. Named(seq, row.last, i) /\ i \in 1 .. n
    BY <1>5 DEF Named
  <2>2. \A j \in 1 .. n : Named(seq, row.last, j) => j <= i
    BY <1>5, <1>8
  <2> QED BY <2>1, <2>2 DEF Tells
<1> QED BY <1>6, <1>7, <1>8

\* The observation that locks a row read it as it is, and each row tells the
\* observations accepted of its publisher
Held(q) == request[q].op = "OBSERVE" /\ request[q].step = "LOCKED"

ObservedInv ==
    /\ \A q \in Requests : Held(q) =>
          /\ locker[request[q].key] = q
          /\ request[q].seen = publisher[request[q].key]
    /\ \A e \in Externals :
          IF publisher[e] = Null THEN accepted[e] = <<>>
          ELSE Tells(publisher[e], accepted[e])

LEMMA ObservedInitially == Init => ObservedInv
BY Kinds DEF Init, ObservedInv, Held

\* A step of a request that is no observation with a lock, before or after
LEMMA ObservedAside ==
    ASSUME TypeInv, ObservedInv, NEW r \in Requests, NEW req,
           request' = [request EXCEPT ![r] = req],
           req.op # "OBSERVE" \/ req.step # "LOCKED",
           UNCHANGED <<publisher, accepted>>,
           \A e \in Externals : locker'[e] = locker[e] \/ locker[e] = r
    PROVE  ObservedInv'
<1>1. \A q \in Requests : request'[q] = IF q = r THEN req ELSE request[q]
  BY DEF TypeInv, Types
<1>2. ASSUME NEW q \in Requests, Held(q)'
      PROVE  /\ locker'[request'[q].key] = q
             /\ request'[q].seen = publisher'[request'[q].key]
  <2>1. q # r /\ request'[q] = request[q] /\ Held(q)
    BY <1>1, <1>2 DEF Held
  <2>2. request[q].key \in Externals
    BY <2>1, InFlight, Kinds DEF Held
  <2> QED BY <2>1, <2>2 DEF ObservedInv
<1> QED BY <1>2 DEF ObservedInv

LEMMA BeginAside ==
    ASSUME TypeInv, ObservedInv, NEW r \in Requests, NEW req, Begin(r, req),
           req.op # "OBSERVE" \/ req.step # "LOCKED",
           UNCHANGED <<locker, serial, accepted>>, UNCHANGED tables
    PROVE  ObservedInv'
BY ObservedAside DEF Begin, tables

LEMMA FinishAside ==
    ASSUME TypeInv, ObservedInv, NEW r \in Requests, Finish(r),
           UNCHANGED <<publisher, accepted>>,
           \A e \in Externals : locker'[e] = locker[e] \/ locker[e] = r
    PROVE  ObservedInv'
BY ObservedAside, Kinds DEF Finish

LEMMA InsertPublisherObserved ==
    ASSUME TypeInv, ObservedInv, NEW r \in Requests, InsertPublisher(r)
    PROVE  ObservedInv'
<1> DEFINE e == request[r].key
           o == request[r].input
           row == [status |-> "DISCOVERED", first |-> o.at, last |-> o.at,
                   count |-> 1, name |-> o.name]
<1>1. /\ request[r] \in Observations /\ e \in Externals /\ o \in Observation
      /\ locker' = locker
  BY InFlight DEF InsertPublisher, Observations
<1>2. CASE publisher[e] = Null
  <2>1. /\ publisher' = [publisher EXCEPT ![e] = row]
        /\ accepted' = [accepted EXCEPT ![e] = Append(@, o)]
        /\ Finish(r)
    BY <1>2 DEF InsertPublisher
  <2>2. /\ row \in Publisher /\ row.first = o.at /\ row.last = o.at
        /\ row.count = 1 /\ row.name = o.name
    BY <1>1 DEF Observation, Publisher, PublisherStatuses
  <2> HIDE DEF row
  <2>3. accepted'[e] = Append(<<>>, o)
    BY <1>1, <1>2, <2>1 DEF ObservedInv, TypeInv, Types
  <2>4. Tells(row, accepted'[e])
    BY <1>1, <2>2, <2>3, FirstTold
  <2>5. publisher'[e] = row /\ row # Null
    BY <1>1, <2>1, <2>2, ContentNull DEF TypeInv, Types
  <2>6. ASSUME NEW d \in Externals, d # e
        PROVE  publisher'[d] = publisher[d] /\ accepted'[d] = accepted[d]
    BY <2>1, <2>6 DEF TypeInv, Types
  <2>7. ASSUME NEW q \in Requests, Held(q)'
        PROVE  /\ locker'[request'[q].key] = q
               /\ request'[q].seen = publisher'[request'[q].key]
    <3>1. request'[q] = request[q] /\ Held(q)
      BY <2>1, <2>7, Kinds DEF Finish, Held, TypeInv, Types
    <3>2. request[q].key \in Externals /\ publisher[request[q].key] # Null
      BY <3>1, InFlight, Kinds DEF Held, TypeInv, Known
    <3>3. publisher'[request[q].key] = publisher[request[q].key]
      BY <1>2, <2>6, <3>2
    <3> QED BY <1>1, <3>1, <3>3 DEF ObservedInv
  <2> QED BY <2>4, <2>5, <2>6, <2>7 DEF ObservedInv
<1>3. CASE publisher[e] # Null
  <2> DEFINE req == [request[r] EXCEPT !.step = "CONFLICTED"]
  <2>1. request' = [request EXCEPT ![r] = req] /\ UNCHANGED <<publisher, accepted>>
    BY <1>3 DEF InsertPublisher, TypeInv, Types
  <2>2. req.step # "LOCKED"
    BY <1>1, StepOfObservation
  <2> HIDE DEF req
  <2> QED BY <1>1, <2>1, <2>2, ObservedAside
<1> QED BY <1>2, <1>3

LEMMA LockPublisherObserved ==
    ASSUME TypeInv, ObservedInv, NEW r \in Requests, LockPublisher(r)
    PROVE  ObservedInv'
<1> DEFINE e == request[r].key
           req == [request[r] EXCEPT !.step = "LOCKED", !.seen = publisher[e]]
<1>1. request[r] \in Observations /\ e \in Externals /\ locker[e] = Null
  BY InFlight DEF LockPublisher, Observations
<1>2. req.key = e /\ req.seen = publisher[e]
  BY <1>1 DEF Observations
<1>3. /\ \A q \in Requests : request'[q] = IF q = r THEN req ELSE request[q]
      /\ \A d \in Externals : locker'[d] = IF d = e THEN r ELSE locker[d]
      /\ publisher' = publisher /\ accepted' = accepted
  BY DEF LockPublisher, TypeInv, Types, tables
<1> HIDE DEF req
<1>4. ASSUME NEW q \in Requests, Held(q)'
      PROVE  /\ locker'[request'[q].key] = q
             /\ request'[q].seen = publisher'[request'[q].key]
  <2>1. CASE q = r
    BY <1>1, <1>2, <1>3, <2>1
  <2>2. CASE q # r
    <3>1. request'[q] = request[q] /\ Held(q)
      BY <1>3, <1>4, <2>2 DEF Held
    <3>2. request[q].key \in Externals /\ locker[request[q].key] = q
      BY <3>1, InFlight, Kinds DEF Held, ObservedInv
    <3>3. request[q].key # e
      BY <1>1, <3>2, ContentSets
    <3> QED BY <1>3, <3>1, <3>2, <3>3 DEF ObservedInv
  <2> QED BY <2>1, <2>2
<1> QED BY <1>3, <1>4 DEF ObservedInv

LEMMA UpdatePublisherObserved ==
    ASSUME TypeInv, ObservedInv, NEW r \in Requests, UpdatePublisher(r)
    PROVE  ObservedInv'
<1> DEFINE e == request[r].key
           o == request[r].input
           row == Recorded(publisher[e], o)
<1>1. /\ request[r] \in Observations /\ e \in Externals /\ o \in Observation
      /\ Held(r)
  BY InFlight DEF UpdatePublisher, Observations, Held
<1>2. /\ publisher[e] \in Publisher /\ publisher[e] # Null
      /\ accepted[e] \in Seq(Observation)
      /\ locker[e] = r /\ request[r].seen = publisher[e]
  BY <1>1 DEF TypeInv, Types, Known, Held, ObservedInv
<1>3. publisher' = [publisher EXCEPT ![e] = row]
  BY <1>2 DEF UpdatePublisher, Recorded, TypeInv, Types
<1>4. /\ accepted' = [accepted EXCEPT ![e] = Append(@, o)]
      /\ locker' = [locker EXCEPT ![e] = Null]
      /\ Finish(r)
  BY DEF UpdatePublisher
<1> HIDE DEF row
<1>5. Tells(row, Append(accepted[e], o))
  BY <1>1, <1>2, NextTold DEF ObservedInv, row
<1>6. publisher'[e] = row /\ accepted'[e] = Append(accepted[e], o)
  BY <1>1, <1>3, <1>4 DEF TypeInv, Types
<1>7. row \in Publisher /\ row # Null
  BY <1>1, <1>2, RecordedStored, ContentNull DEF row
<1>8. ASSUME NEW d \in Externals, d # e
      PROVE  /\ publisher'[d] = publisher[d] /\ accepted'[d] = accepted[d]
             /\ locker'[d] = locker[d]
  BY <1>3, <1>4, <1>8 DEF TypeInv, Types
<1>9. ASSUME NEW q \in Requests, Held(q)'
      PROVE  /\ locker'[request'[q].key] = q
             /\ request'[q].seen = publisher'[request'[q].key]
  <2>1. q # r /\ request'[q] = request[q] /\ Held(q)
    BY <1>4, <1>9, Kinds DEF Finish, Held, TypeInv, Types
  <2>2. request[q].key \in Externals /\ locker[request[q].key] = q
    BY <2>1, InFlight, Kinds DEF Held, ObservedInv
  <2>3. request[q].key # e
    BY <1>2, <2>1, <2>2
  <2> QED BY <1>8, <2>1, <2>2, <2>3 DEF ObservedInv
<1> QED BY <1>5, <1>6, <1>7, <1>8, <1>9 DEF ObservedInv

LEMMA SaveReviewObserved ==
    ASSUME TypeInv, ObservedInv, NEW r \in Requests, SaveReview(r)
    PROVE  ObservedInv'
<1> DEFINE e == request[r].key
           row == [publisher[e] EXCEPT !.status = request[r].input]
<1>1. /\ request[r] \in Reviews /\ e \in Externals /\ request[r].op = "REVIEW"
      /\ request[r].input \in PublisherStatuses
  BY InFlight DEF SaveReview, Reviews
<1>2. /\ publisher[e] \in Publisher /\ publisher[e] # Null
      /\ locker[e] = Null /\ locker' = locker /\ accepted' = accepted /\ Finish(r)
  BY <1>1 DEF TypeInv, Types, Known, SaveReview
<1>3. publisher' = [publisher EXCEPT ![e] = row]
  BY DEF SaveReview, TypeInv, Types
<1>4. /\ row \in Publisher /\ row.first = publisher[e].first /\ row.last = publisher[e].last
      /\ row.count = publisher[e].count /\ row.name = publisher[e].name
  BY <1>1, <1>2 DEF Publisher
<1> HIDE DEF row
<1>5. row # Null
  BY <1>4, ContentNull
<1>6. Tells(row, accepted[e])
  <2>1. Tells(publisher[e], accepted[e])
    BY <1>1, <1>2 DEF ObservedInv
  <2> QED BY <1>4, <2>1 DEF Tells
<1>7. \A d \in Externals : publisher'[d] = IF d = e THEN row ELSE publisher[d]
  BY <1>3 DEF TypeInv, Types
<1>8. ASSUME NEW q \in Requests, Held(q)'
      PROVE  /\ locker'[request'[q].key] = q
             /\ request'[q].seen = publisher'[request'[q].key]
  <2>1. request'[q] = request[q] /\ Held(q)
    BY <1>2, <1>8, Kinds DEF Finish, Held, TypeInv, Types
  <2>2. request[q].key \in Externals /\ locker[request[q].key] = q
    BY <2>1, InFlight, Kinds DEF Held, ObservedInv
  <2>3. request[q].key # e
    BY <1>2, <2>2, ContentSets
  <2> QED BY <1>2, <1>7, <2>1, <2>2, <2>3 DEF ObservedInv
<1> QED BY <1>1, <1>2, <1>5, <1>6, <1>7, <1>8 DEF ObservedInv

LEMMA ObservedKept ==
    ASSUME TypeInv, ObservedInv, [Next]_vars PROVE ObservedInv'
<1>1. ASSUME NEW r \in Requests, PublisherStep(r) PROVE ObservedInv'
  <2>1. CASE \E e \in Externals, o \in Observation : Observe(r, e, o)
    <3>1. PICK e \in Externals, o \in Observation : Observe(r, e, o)
      BY <2>1
    <3> DEFINE req == [op |-> "OBSERVE", key |-> e, step |-> "ASKED", seen |-> Null, input |-> o]
    <3>2. req.step # "LOCKED"
      OBVIOUS
    <3>3. Begin(r, req) /\ UNCHANGED <<locker, serial, accepted>> /\ UNCHANGED tables
      BY <3>1 DEF Observe
    <3> HIDE DEF req
    <3> QED BY <3>2, <3>3, BeginAside
  <2>2. CASE \E e \in Externals, status \in PublisherStatuses : ReviewPublisher(r, e, status)
    <3>1. PICK e \in Externals, status \in PublisherStatuses : ReviewPublisher(r, e, status)
      BY <2>2
    <3> DEFINE req == [op |-> "REVIEW", key |-> e, step |-> "READ", seen |-> Null,
                       input |-> status]
    <3>2. req.step # "LOCKED"
      OBVIOUS
    <3>3. Begin(r, req) /\ UNCHANGED <<locker, serial, accepted>> /\ UNCHANGED tables
      BY <3>1 DEF ReviewPublisher
    <3> HIDE DEF req
    <3> QED BY <3>2, <3>3, BeginAside
  <2> QED BY <1>1, <2>1, <2>2, InsertPublisherObserved, LockPublisherObserved,
             UpdatePublisherObserved, SaveReviewObserved DEF PublisherStep
<1>2. ASSUME NEW r \in Requests, GroupStep(r) PROVE ObservedInv'
  <2>1. ASSUME NEW e, NEW op \in {"PROMOTE", "CREATE", "EDIT"}, NEW step, NEW row,
               Begin(r, [op |-> op, key |-> e, step |-> step, seen |-> Null, input |-> row]),
               UNCHANGED <<locker, serial, accepted>>, UNCHANGED tables
        PROVE  ObservedInv'
    <3> DEFINE req == [op |-> op, key |-> e, step |-> step, seen |-> Null, input |-> row]
    <3>1. Begin(r, req) /\ req.op # "OBSERVE"
      BY <2>1
    <3> HIDE DEF req
    <3> QED BY <2>1, <3>1, BeginAside
  <2>2. CASE RecheckPromotion(r)
    <3>1. UNCHANGED <<publisher, accepted>> /\ locker' = locker
      BY <2>2 DEF RecheckPromotion, tables
    <3>2. request[r] \in GroupSaves
      BY <2>2, InFlight DEF RecheckPromotion
    <3> DEFINE req == [request[r] EXCEPT !.step = "CHECKED"]
    <3>3. req.op # "OBSERVE"
      BY <3>2 DEF GroupSaves
    <3>4. Finish(r) \/ request' = [request EXCEPT ![r] = req]
      BY <2>2 DEF RecheckPromotion, TypeInv, Types
    <3> HIDE DEF req
    <3> QED BY <3>1, <3>3, <3>4, FinishAside, ObservedAside
  <2>3. CASE InsertGroup(r) \/ SaveGroup(r)
    BY <2>3, FinishAside DEF InsertGroup, SaveGroup
  <2>4. CASE \E e \in Externals : PromotePublisher(r, e)
    BY <2>1, <2>4 DEF PromotePublisher
  <2>5. CASE \E e \in Externals : EditGroup(r, e)
    BY <2>1, <2>5 DEF EditGroup
  <2>6. CASE \E e \in Externals, status \in GroupStatuses : CreateGroup(r, e, status)
    BY <2>1, <2>6 DEF CreateGroup
  <2> QED BY <1>2, <2>2, <2>3, <2>4, <2>5, <2>6 DEF GroupStep
<1>3. ASSUME NEW r \in Requests, ItemStep(r) PROVE ObservedInv'
  <2>1. ASSUME NEW op \in {"INGEST", "STATUS"}, NEW x, NEW row, BeginSave(r, op, x, row)
        PROVE  ObservedInv'
    <3> DEFINE req == [op |-> op, key |-> x, step |-> "READ", seen |-> item[x], input |-> row]
    <3>1. /\ Begin(r, req) /\ UNCHANGED <<locker, serial, accepted>> /\ UNCHANGED tables
          /\ req.op # "OBSERVE"
      BY <2>1 DEF BeginSave
    <3> HIDE DEF req
    <3> QED BY <3>1, BeginAside
  <2>2. CASE SaveItem(r)
    BY <2>2, FinishAside DEF SaveItem
  <2> QED BY <1>3, <2>1, <2>2 DEF ItemStep, IngestFromGroup, IngestFromFeed, UpdateItemStatus
<1>4. ASSUME NEW r \in Requests, Fail(r) PROVE ObservedInv'
  <2>1. \A e \in Externals : locker'[e] = locker[e] \/ locker[e] = r
    BY <1>4 DEF Fail
  <2> QED BY <1>4, <2>1, FinishAside DEF Fail, tables
<1>5. CASE UNCHANGED vars
  BY <1>5 DEF vars, ObservedInv, Held
<1> QED BY <1>1, <1>2, <1>3, <1>4, <1>5 DEF Next

\* However the observations of a publisher interleave, fail or arrive late, its
\* row counts each committed one once, keeps when the first was made and when
\* the newest, and bears the name the newest tells.
THEOREM ObservationsRemembered == Spec => []ObservationsKept
<1>1. Init => TypeInv /\ ObservedInv
  BY TypesInitially, ObservedInitially
<1>2. TypeInv /\ ObservedInv /\ [Next]_vars => (TypeInv /\ ObservedInv)'
  BY TypesKept, ObservedKept
<1>3. TypeInv /\ ObservedInv => ObservationsKept
  <2> SUFFICES ASSUME TypeInv, ObservedInv, NEW e \in Externals
               PROVE  ObservationsKept!(e)
    BY DEF ObservationsKept
  <2>1. CASE publisher[e] = Null
    BY <2>1 DEF ObservedInv
  <2>2. CASE publisher[e] # Null
    <3>1. /\ publisher[e] \in Publisher /\ accepted[e] \in Seq(Observation)
          /\ Tells(publisher[e], accepted[e])
      BY <2>2 DEF ObservedInv, TypeInv, Types
    <3> QED BY <2>2, <3>1, ToldAsKept
  <2> QED BY <2>1, <2>2
<1> QED BY <1>1, <1>2, <1>3, PTL DEF Spec

=============================================================================
