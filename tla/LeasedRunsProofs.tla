--------------------------- MODULE LeasedRunsProofs --------------------------
(* Theorems about LeasedRuns, for every value of its constants. *)
EXTENDS LeasedRuns, FiniteSetTheorems, TLAPS

-----------------------------------------------------------------------------
(* Type safety *)

Holding == {"LEASED", "ATTACHING", "ATTACHED", "BROWSING", "SUBMITTING", "RELEASING"}
After == {"APPLYING", "ENDING", "SAVING"}

\* A run that exists has a kind, and a profile unless its checkout chooses one.
Named(row) ==
    row.status # "ABSENT" =>
        row.kind # Null /\ (row.kind # "GROUP" => row.profile # Null)

\* What the step of a process says of the rest of its state.
Coherent(w, state) ==
    /\ state.run = Null <=> state.step \in {"IDLE", "EXITED"}
    /\ state.step \in {"STARTING", "READY"} \cup Holding \cup After => state.seen # Null
    /\ state.seen # Null =>
          /\ state.run # Null /\ state.seen.kind = Serves(w) /\ Named(state.seen)
          /\ state.seen.status \in Active
    /\ state.step \in {"RELEASING"} \cup After => state.verdict # Null
    /\ state.step \in Holding => state.acquired # Null
    /\ state.step \notin Holding \cup After => state.acquired = Null

\* The run a process works on is one of its kind and of the profile it has seen.
Attached(w, state, table) ==
    /\ state.run # Null =>
          table[state.run].status # "ABSENT" /\ table[state.run].kind = Serves(w)
    /\ state.seen # Null => state.seen.profile = table[state.run].profile

Rows == run \in [Runs -> Run] /\ \A r \in Runs : Named(run[r])

Processes ==
    /\ worker \in [Workers -> Worker]
    /\ \A w \in Workers : Coherent(w, worker[w]) /\ Attached(w, worker[w], run)

Cancels ==
    /\ cancel \in [Operators -> Runs \cup {Null}]
    /\ \A o \in Operators : cancel[o] # Null => run[cancel[o]].status # "ABSENT"

Outer ==
    /\ held \subseteq Profiles \X Leases /\ closed \subseteq Leases
    /\ access \in [Profiles -> Runs \cup {Null}]
    /\ grantee \in [Leases -> Runs \cup {Null}]
    /\ released \in [Leases -> Nat]

TypeInv == Rows /\ Processes /\ Cancels /\ Outer

\* No step removes a run or changes what it is about.
Kept ==
    \A r \in Runs : run[r].status # "ABSENT" =>
        /\ run'[r].status # "ABSENT"
        /\ run'[r].kind = run[r].kind /\ run'[r].profile = run[r].profile

LEMMA ServedKinds ==
    /\ \A w \in Workers : Serves(w) \in Kinds /\ Serves(w) # Null
    /\ Null \notin Kinds /\ "TOOL" \notin Kinds
  BY LeasedRunsKinds, LeasedRunsNull DEF Serves

LEMMA NullValues ==
    /\ Null \notin Runs /\ Null \notin Run /\ Null \notin Failures
    /\ Null # "SUCCEED" /\ "SUCCEED" \notin Failures
    /\ \A p \in Profiles, l \in Leases : <<p, l>> # Null
    /\ Null \notin Leases /\ Null \notin Profiles
  <1>1. \A p \in Profiles, l \in Leases : <<p, l>> \in Profiles \X Leases
    OBVIOUS
  <1>. QED BY <1>1, LeasedRunsNull DEF Failures

LEMMA NoRunType == NoRun \in Run
  BY DEF NoRun, Run, Statuses

LEMMA QueuedType ==
    ASSUME NEW kind \in Kinds, NEW p \in Profiles \cup {Null},
           kind = "GROUP" \/ p \in Profiles
    PROVE  /\ Queued(kind, p) \in Run /\ Named(Queued(kind, p))
           /\ Queued(kind, p).status = "QUEUED" /\ Queued(kind, p).kind = kind
           /\ Queued(kind, p).profile = p /\ Queued(kind, p).lease = Null
           /\ Queued(kind, p).requested = Cardinality(Created)
           /\ Queued(kind, p).leaseReleased = Null
  <1>1. Cardinality(Created) \in Nat
    BY LeasedRunsFinite, FS_Subset, FS_CardinalityType DEF Created
  <1>. QED BY <1>1, ServedKinds, NullValues DEF Queued, NoRun, Run, Statuses, Named

LEMMA RowTypes ==
    ASSUME NEW row \in Run, Named(row), row.status # "ABSENT"
    PROVE  /\ LET next == Started(row) IN
              /\ next \in Run /\ Named(next) /\ next.status = "RUNNING"
              /\ next.kind = row.kind /\ next.profile = row.profile
              /\ next.lease = row.lease /\ next.requested = row.requested
              /\ next.leaseReleased = row.leaseReleased
           /\ LET next == Canceled(row) IN
              /\ next \in Run /\ Named(next) /\ next.status = "CANCELED"
              /\ next.kind = row.kind /\ next.profile = row.profile
              /\ next.lease = Null /\ next.requested = row.requested
              /\ next.leaseReleased = Null
           /\ \A l \in Leases : LET next == [row EXCEPT !.lease = l] IN
              /\ next \in Run /\ Named(next) /\ next.status = row.status
              /\ next.kind = row.kind /\ next.profile = row.profile
              /\ next.lease = l /\ next.requested = row.requested
              /\ next.leaseReleased = row.leaseReleased
  BY DEF Started, Canceled, Run, Statuses, Named

LEMMA EndedType ==
    ASSUME NEW w \in Workers, worker[w] \in Worker, worker[w].verdict # Null,
           worker[w].seen # Null, Named(worker[w].seen), worker[w].seen.status # "ABSENT"
    PROVE  /\ Ended(w) \in Run /\ Named(Ended(w))
           /\ Ended(w).status \in {"SUCCEEDED", "FAILED"}
           /\ Ended(w).status = "SUCCEEDED" <=> worker[w].verdict = "SUCCEED"
           /\ Ended(w).kind = worker[w].seen.kind
           /\ Ended(w).profile = worker[w].seen.profile
           /\ Ended(w).lease = worker[w].seen.lease
           /\ Ended(w).requested = worker[w].seen.requested
           /\ Ended(w).leaseReleased \in {Null, worker[w].leaseReleased}
  <1>1. worker[w].seen \in Run /\ worker[w].verdict \in Failures \cup {"SUCCEED"}
        /\ worker[w].leaseReleased \in {"YES", "NO"}
    BY DEF Worker
  <1>. QED BY <1>1 DEF Ended, Run, Statuses, Named

LEMMA RowUpdate ==
    ASSUME TypeInv, NEW r \in Runs, NEW row \in Run, Named(row), row.status # "ABSENT",
           run[r].status # "ABSENT" => row.kind = run[r].kind /\ row.profile = run[r].profile,
           run' = [run EXCEPT ![r] = row]
    PROVE  Rows' /\ Kept /\ run'[r] = row /\ \A q \in Runs \ {r} : run'[q] = run[q]
  BY DEF TypeInv, Rows, Kept

LEMMA CancelsKept ==
    ASSUME TypeInv, Kept, UNCHANGED cancel
    PROVE  Cancels'
  BY NullValues DEF TypeInv, Cancels, Kept

LEMMA AttachedKept ==
    ASSUME TypeInv, Kept, NEW w \in Workers, NEW state,
           state.run = worker[w].run, state.seen \in {worker[w].seen, Null}
    PROVE  Attached(w, state, run')
  <1>1. /\ worker[w].run \in Runs \cup {Null}
        /\ Attached(w, worker[w], run) /\ Coherent(w, worker[w])
    BY DEF TypeInv, Processes, Worker
  <1>. QED BY <1>1 DEF Kept, Attached, Coherent

LEMMA ProcessUpdate ==
    ASSUME TypeInv, Kept, NEW w \in Workers, NEW state \in Worker,
           Coherent(w, state), Attached(w, state, run'), Become(w, state)
    PROVE  Processes' /\ worker'[w] = state /\ \A v \in Workers \ {w} : worker'[v] = worker[v]
  <1>1. /\ worker' \in [Workers -> Worker] /\ worker'[w] = state
        /\ \A v \in Workers \ {w} : worker'[v] = worker[v]
    BY DEF TypeInv, Processes, Become
  <1>2. \A v \in Workers \ {w} : Attached(v, worker[v], run') /\ Coherent(v, worker[v])
    BY AttachedKept DEF TypeInv, Processes
  <1>. QED BY <1>1, <1>2 DEF Processes

\* The changes of a process that keep its run and what it has seen.
LEMMA SameRun ==
    ASSUME TypeInv, Kept, NEW w \in Workers, NEW state \in Worker,
           Coherent(w, state), Become(w, state),
           state.run = worker[w].run, state.seen = worker[w].seen
    PROVE  Processes' /\ worker'[w] = state /\ \A v \in Workers \ {w} : worker'[v] = worker[v]
  BY AttachedKept, ProcessUpdate

\* The process leaves its run.
LEMMA Leaving ==
    ASSUME TypeInv, Kept, NEW w \in Workers,
           Quit(w) \/ Done(w) \/ Become(w, IdleWorker)
    PROVE  /\ Processes' /\ \A v \in Workers \ {w} : worker'[v] = worker[v]
           /\ worker'[w].step \in {"IDLE", "EXITED"} /\ worker'[w].run = Null
           /\ worker'[w].acquired = Null /\ worker'[w].verdict = Null
           /\ worker'[w].seen = Null
  <1>0. PICK idle \in Worker :
           /\ idle = IdleWorker /\ idle.step = "IDLE" /\ idle.stopping = FALSE
           /\ idle.run = Null /\ idle.acquired = Null /\ idle.verdict = Null
           /\ idle.seen = Null
    <2>1. IdleWorker \in Worker
      BY LeasedRunsBounds DEF IdleWorker, Worker
    <2>2. /\ IdleWorker.step = "IDLE" /\ IdleWorker.stopping = FALSE
          /\ IdleWorker.run = Null /\ IdleWorker.acquired = Null
          /\ IdleWorker.verdict = Null /\ IdleWorker.seen = Null
      BY DEF IdleWorker
    <2>. QED BY <2>1, <2>2
  <1>1. PICK step \in {"IDLE", "EXITED"}, stopping \in BOOLEAN :
           Become(w, [idle EXCEPT !.step = step, !.stopping = stopping])
    <2>1. worker[w].stopping \in BOOLEAN
      BY DEF TypeInv, Processes, Worker
    <2>2. CASE Quit(w)
      <3>1. [idle EXCEPT !.step = "EXITED"]
            = [idle EXCEPT !.step = "EXITED", !.stopping = FALSE]
        BY <1>0 DEF Worker
      <3>. QED BY <1>0, <2>2, <3>1 DEF Quit
    <2>3. CASE Become(w, [IdleWorker EXCEPT !.stopping = worker[w].stopping])
      <3>1. \A b \in BOOLEAN : [idle EXCEPT !.stopping = b]
            = [idle EXCEPT !.step = "IDLE", !.stopping = b]
        BY <1>0 DEF Worker
      <3>. QED BY <1>0, <2>1, <2>3, <3>1
    <2>4. CASE Become(w, IdleWorker)
      <3>1. idle = [idle EXCEPT !.step = "IDLE", !.stopping = FALSE]
        BY <1>0 DEF Worker
      <3>. QED BY <1>0, <2>4, <3>1
    <2>. QED BY <2>2, <2>3, <2>4 DEF Done
  <1>. DEFINE state == [idle EXCEPT !.step = step, !.stopping = stopping]
  <1>2. /\ state \in Worker /\ state.step = step /\ state.run = Null
        /\ state.acquired = Null /\ state.verdict = Null /\ state.seen = Null
    BY <1>0 DEF Worker
  <1>. HIDE DEF state
  <1>3. Coherent(w, state) /\ Attached(w, state, run')
    BY <1>2 DEF Coherent, Attached, Holding, After
  <1>4. Become(w, state)
    BY <1>1 DEF state
  <1>. QED BY <1>2, <1>3, <1>4, ProcessUpdate

LEMMA DecidedState ==
    ASSUME NEW w \in Workers, NEW old \in Worker, Coherent(w, old),
           old.step \in Holding, NEW verdict \in Failures \cup {"SUCCEED"}
    PROVE  LET state == [old EXCEPT !.step = "RELEASING", !.verdict = verdict]
           IN  state \in Worker /\ Coherent(w, state)
  <1>. DEFINE state == [old EXCEPT !.step = "RELEASING", !.verdict = verdict]
  <1>1. /\ state \in Worker /\ state.step = "RELEASING" /\ state.verdict = verdict
        /\ state.run = old.run /\ state.seen = old.seen /\ state.acquired = old.acquired
    BY DEF Worker
  <1>. HIDE DEF state
  <1>2. Coherent(w, state)
    BY <1>1, NullValues DEF Coherent, Holding, After
  <1>. QED BY <1>1, <1>2 DEF state

LEMMA Deciding ==
    ASSUME TypeInv, Kept, NEW w \in Workers, worker[w].step \in Holding,
           NEW verdict \in Failures \cup {"SUCCEED"}, Decide(w, verdict)
    PROVE  /\ Processes' /\ \A v \in Workers \ {w} : worker'[v] = worker[v]
           /\ worker'[w].step = "RELEASING" /\ worker'[w].verdict = verdict
           /\ worker'[w].run = worker[w].run /\ worker'[w].seen = worker[w].seen
           /\ worker'[w].acquired = worker[w].acquired
  <1>1. worker[w] \in Worker /\ Coherent(w, worker[w])
    BY DEF TypeInv, Processes
  <1>2. PICK old \in Worker : old = worker[w]
    BY <1>1
  <1>. DEFINE state == [old EXCEPT !.step = "RELEASING", !.verdict = verdict]
  <1>3. state \in Worker /\ Coherent(w, state)
    BY <1>1, <1>2, DecidedState
  <1>4. /\ state.step = "RELEASING" /\ state.verdict = verdict
        /\ state.run = old.run /\ state.seen = old.seen /\ state.acquired = old.acquired
    BY DEF Worker
  <1>5. Become(w, state)
    BY <1>2 DEF Decide
  <1>. HIDE DEF state
  <1>. QED BY <1>2, <1>3, <1>4, <1>5, SameRun

LEMMA RefusedState ==
    ASSUME NEW w \in Workers, NEW old \in Worker, Coherent(w, old),
           old.step \in {"READY", "APPLYING"}, NEW verdict \in Failures \cup {"SUCCEED"}
    PROVE  LET state == [old EXCEPT !.step = "ENDING", !.verdict = verdict]
           IN  state \in Worker /\ Coherent(w, state)
  <1>. DEFINE state == [old EXCEPT !.step = "ENDING", !.verdict = verdict]
  <1>1. /\ state \in Worker /\ state.step = "ENDING" /\ state.verdict = verdict
        /\ state.run = old.run /\ state.seen = old.seen /\ state.acquired = old.acquired
    BY DEF Worker
  <1>. HIDE DEF state
  <1>2. Coherent(w, state)
    BY <1>1, NullValues DEF Coherent, Holding, After
  <1>. QED BY <1>1, <1>2 DEF state

LEMMA Refusing ==
    ASSUME TypeInv, Kept, NEW w \in Workers, worker[w].step \in {"READY", "APPLYING"},
           NEW verdict \in Failures \cup {"SUCCEED"}, Refuse(w, verdict)
    PROVE  /\ Processes' /\ \A v \in Workers \ {w} : worker'[v] = worker[v]
           /\ worker'[w].step = "ENDING" /\ worker'[w].verdict = verdict
           /\ worker'[w].run = worker[w].run /\ worker'[w].seen = worker[w].seen
           /\ worker'[w].acquired = worker[w].acquired
  <1>1. worker[w] \in Worker /\ Coherent(w, worker[w])
    BY DEF TypeInv, Processes
  <1>2. PICK old \in Worker : old = worker[w]
    BY <1>1
  <1>. DEFINE state == [old EXCEPT !.step = "ENDING", !.verdict = verdict]
  <1>3. state \in Worker /\ Coherent(w, state)
    BY <1>1, <1>2, RefusedState
  <1>4. /\ state.step = "ENDING" /\ state.verdict = verdict
        /\ state.run = old.run /\ state.seen = old.seen /\ state.acquired = old.acquired
    BY DEF Worker
  <1>5. Become(w, state)
    BY <1>2 DEF Refuse
  <1>. HIDE DEF state
  <1>. QED BY <1>2, <1>3, <1>4, <1>5, SameRun

LEMMA ClaimEffect ==
    ASSUME TypeInv, NEW w \in Workers, NEW r \in Runs, Claim(w, r)
    PROVE  /\ Rows' /\ Kept /\ Processes'
           /\ run'[r] = Started(run[r]) /\ \A q \in Runs \ {r} : run'[q] = run[q]
           /\ run[r].status = "QUEUED" /\ run'[r].lease = run[r].lease
           /\ run'[r].requested = run[r].requested
           /\ run'[r].leaseReleased = run[r].leaseReleased
           /\ run'[r].status = "RUNNING"
           /\ \A v \in Workers \ {w} : worker'[v] = worker[v]
           /\ worker'[w].step \in {"CLAIMED", "READY"} /\ worker'[w].run = r
           /\ worker'[w].seen \in {Null, Started(run[r])}
           /\ worker'[w].acquired = Null
  <1>. DEFINE row == Started(run[r])
  <1>1. /\ run[r] \in Run /\ Named(run[r]) /\ run[r].status = "QUEUED"
        /\ run' = [run EXCEPT ![r] = row] /\ worker[w].step = "IDLE"
        /\ run[r].kind = Kind[w]
    BY DEF TypeInv, Rows, Claim, Update
  <1>2. /\ row \in Run /\ Named(row) /\ row.status = "RUNNING"
        /\ row.kind = run[r].kind /\ row.profile = run[r].profile
        /\ row.lease = run[r].lease /\ row.requested = run[r].requested
        /\ row.leaseReleased = run[r].leaseReleased
    BY <1>1, RowTypes
  <1>3. worker[w] \in Worker /\ Coherent(w, worker[w])
    BY DEF TypeInv, Processes
  <1>4. PICK old \in Worker : old = worker[w]
    BY <1>3
  <1>5. old.run = Null /\ old.seen = Null /\ old.acquired = Null
    BY <1>1, <1>3, <1>4 DEF Coherent, Holding, After
  <1>6. Kind[w] = Serves(w)
    <2>1. run[r].kind \in Kinds
      BY <1>1 DEF Named, Run
    <2>. QED BY <1>1, <2>1, ServedKinds DEF Serves
  <1>. DEFINE ready == [old EXCEPT !.step = "READY", !.run = r, !.seen = row]
              claimed == [old EXCEPT !.step = "CLAIMED", !.run = r]
  <1>7. Become(w, ready) \/ Become(w, claimed)
    BY <1>4 DEF Claim
  <1>. HIDE DEF row
  <1>8. /\ ready \in Worker /\ ready.step = "READY" /\ ready.run = r /\ ready.seen = row
        /\ ready.acquired = Null
        /\ claimed \in Worker /\ claimed.step = "CLAIMED" /\ claimed.run = r
        /\ claimed.seen = Null /\ claimed.acquired = Null
    BY <1>2, <1>5 DEF Worker
  <1>. HIDE DEF ready, claimed
  <1>9. Rows' /\ Kept /\ run'[r] = row /\ \A q \in Runs \ {r} : run'[q] = run[q]
    BY <1>1, <1>2, RowUpdate
  <1>10. Coherent(w, ready) /\ Coherent(w, claimed)
    BY <1>1, <1>2, <1>6, <1>8, NullValues DEF Coherent, Holding, After, Active
  <1>11. Attached(w, ready, run') /\ Attached(w, claimed, run')
    BY <1>1, <1>2, <1>6, <1>8, <1>9 DEF Attached
  <1>12. CASE Become(w, ready)
    BY <1>1, <1>2, <1>8, <1>9, <1>10, <1>11, <1>12, ProcessUpdate DEF row
  <1>13. CASE Become(w, claimed)
    BY <1>1, <1>2, <1>8, <1>9, <1>10, <1>11, <1>13, ProcessUpdate DEF row
  <1>. QED BY <1>7, <1>12, <1>13

\* A process reads its run again: seen is the row as it is stored.
LEMMA Reading ==
    ASSUME TypeInv, NEW w \in Workers, NEW step,
           \/ step \in {"STARTING", "READY"} /\ worker[w].acquired = Null
           \/ step = "ATTACHING" /\ worker[w].acquired # Null
           \/ step = "SAVING" /\ worker[w].verdict # Null,
           run' = run, worker[w].run # Null, run[worker[w].run].status \in Active,
           Become(w, [worker[w] EXCEPT !.step = step, !.seen = run[worker[w].run]])
    PROVE  /\ Processes' /\ \A v \in Workers \ {w} : worker'[v] = worker[v]
           /\ worker'[w].step = step /\ worker'[w].verdict = worker[w].verdict
           /\ worker'[w].run = worker[w].run /\ worker'[w].seen = run[worker[w].run]
           /\ worker'[w].acquired = worker[w].acquired
  <1>1. worker[w] \in Worker /\ Coherent(w, worker[w]) /\ Attached(w, worker[w], run)
    BY DEF TypeInv, Processes
  <1>2. worker[w].run \in Runs
    BY <1>1 DEF Worker
  <1>3. PICK row \in Run : row = run[worker[w].run] /\ Named(row)
    BY <1>2 DEF TypeInv, Rows
  <1>4. PICK old \in Worker : old = worker[w]
    BY <1>1
  <1>. DEFINE state == [old EXCEPT !.step = step, !.seen = row]
  <1>5. Become(w, state)
    BY <1>3, <1>4
  <1>6. /\ state \in Worker /\ state.step = step /\ state.run = old.run
        /\ state.seen = row /\ state.acquired = old.acquired /\ state.verdict = old.verdict
    BY DEF Worker
  <1>. HIDE DEF state
  <1>7. row.kind = Serves(w) /\ row.status \in Active /\ row # Null
    BY <1>1, <1>3, NullValues DEF Attached
  <1>8. Coherent(w, state)
    BY <1>3, <1>4, <1>6, <1>7 DEF Coherent, Holding, After
  <1>9. Kept /\ Attached(w, state, run')
    BY <1>1, <1>3, <1>4, <1>6, <1>7 DEF Kept, Attached, Active
  <1>. QED BY <1>3, <1>4, <1>5, <1>6, <1>8, <1>9, ProcessUpdate

LEMMA ToolRequestEffect ==
    ASSUME TypeInv, NEW w \in Workers, NEW r \in Runs, NEW p \in Profiles,
           ToolRequest(w, r, p)
    PROVE  /\ Rows' /\ Kept /\ Processes' /\ \A q \in Runs \ {r} : run'[q] = run[q]
           /\ run[r].status = "ABSENT" /\ run'[r].status = "QUEUED" /\ run'[r].lease = Null
           /\ run'[r].kind = "EXERCISE" /\ run'[r].requested = Cardinality(Created)
           /\ run'[r].leaseReleased = Null
           /\ \A v \in Workers \ {w} : worker'[v] = worker[v]
           /\ worker'[w].step = "REQUESTED" /\ worker'[w].run = r
           /\ worker'[w].seen = Null /\ worker'[w].acquired = Null
  <1>. DEFINE row == Queued("EXERCISE", p)
  <1>1. /\ run[r].status = "ABSENT" /\ worker[w].step = "IDLE" /\ Kind[w] = "TOOL"
        /\ run' = [run EXCEPT ![r] = row]
    BY DEF ToolRequest, Update
  <1>2. "EXERCISE" \in Kinds /\ Serves(w) = "EXERCISE"
    BY <1>1, LeasedRunsKinds DEF Serves
  <1>3. /\ row \in Run /\ Named(row) /\ row.status = "QUEUED"
        /\ row.kind = "EXERCISE" /\ row.lease = Null
        /\ row.requested = Cardinality(Created) /\ row.leaseReleased = Null
    BY <1>2, QueuedType
  <1>4. PICK old \in Worker : old = worker[w]
    BY DEF TypeInv, Processes
  <1>5. old.seen = Null /\ old.acquired = Null
    BY <1>1, <1>4 DEF TypeInv, Processes, Coherent, Holding, After
  <1>. DEFINE state == [old EXCEPT !.step = "REQUESTED", !.run = r]
  <1>6. Become(w, state)
    BY <1>4 DEF ToolRequest
  <1>7. /\ state \in Worker /\ state.step = "REQUESTED" /\ state.run = r
        /\ state.seen = Null /\ state.acquired = Null
    BY <1>5 DEF Worker
  <1>. HIDE DEF state, row
  <1>8. Rows' /\ Kept /\ run'[r] = row /\ \A q \in Runs \ {r} : run'[q] = run[q]
    BY <1>1, <1>3, RowUpdate
  <1>9. Coherent(w, state) /\ Attached(w, state, run')
    BY <1>2, <1>3, <1>7, <1>8, NullValues DEF Coherent, Attached, Holding, After
  <1>. QED BY <1>1, <1>3, <1>6, <1>7, <1>8, <1>9, ProcessUpdate

LEMMA ToolReadEffect ==
    ASSUME TypeInv, NEW w \in Workers, ToolRead(w)
    PROVE  /\ Kept /\ Processes' /\ \A v \in Workers \ {w} : worker'[v] = worker[v]
           /\ worker'[w].step \in {"STARTING", "EXITED", "IDLE"}
           /\ worker'[w].step = "STARTING" =>
                 worker'[w].run = worker[w].run /\ worker'[w].seen = run[worker[w].run]
           /\ worker'[w].run = Null => worker'[w].seen = Null
           /\ worker'[w].acquired = Null
           /\ worker'[w].run \in {Null, worker[w].run}
  <1>1. run' = run /\ Kept /\ worker[w].step = "REQUESTED"
    BY DEF ToolRead, Kept
  <1>2. worker[w].run # Null /\ worker[w].acquired = Null
    BY <1>1 DEF TypeInv, Processes, Coherent, Holding, After
  <1>3. CASE /\ run[worker[w].run].status = "QUEUED"
             /\ Become(w, [worker[w] EXCEPT !.step = "STARTING", !.seen = run[worker[w].run]])
    <2>1. run[worker[w].run].status \in Active
      BY <1>3 DEF Active
    <2>. QED BY <1>1, <1>2, <1>3, <2>1, Reading
  <1>4. CASE Quit(w)
    BY <1>1, <1>4, Leaving
  <1>. QED BY <1>3, <1>4 DEF ToolRead

LEMMA ToolStartEffect ==
    ASSUME TypeInv, NEW w \in Workers, ToolStart(w)
    PROVE  /\ Rows' /\ Kept /\ Processes'
           /\ worker[w].run \in Runs /\ worker[w].seen \in Run
           /\ run'[worker[w].run].status = "RUNNING"
           /\ run'[worker[w].run].lease = worker[w].seen.lease
           /\ run'[worker[w].run].requested = worker[w].seen.requested
           /\ run'[worker[w].run].leaseReleased = worker[w].seen.leaseReleased
           /\ \A q \in Runs \ {worker[w].run} : run'[q] = run[q]
           /\ \A v \in Workers \ {w} : worker'[v] = worker[v]
           /\ worker'[w].step = "READY" /\ worker'[w].run = worker[w].run
           /\ worker'[w].seen = run'[worker[w].run]
           /\ worker'[w].acquired = Null
  <1>1. worker[w] \in Worker /\ Coherent(w, worker[w]) /\ Attached(w, worker[w], run)
    BY DEF TypeInv, Processes
  <1>2. PICK old \in Worker : old = worker[w]
    BY <1>1
  <1>3. /\ old.step = "STARTING" /\ old.run \in Runs /\ old.seen \in Run
        /\ Named(old.seen) /\ old.seen.status # "ABSENT" /\ old.seen.kind = Serves(w)
        /\ old.acquired = Null
    BY <1>1, <1>2 DEF ToolStart, Coherent, Worker, Holding, After, Active
  <1>4. PICK row \in Run : row = Started(old.seen)
    BY <1>3, RowTypes
  <1>5. /\ Named(row) /\ row.status = "RUNNING" /\ row.kind = Serves(w)
        /\ row.profile = old.seen.profile /\ row.lease = old.seen.lease
        /\ row.requested = old.seen.requested
        /\ row.leaseReleased = old.seen.leaseReleased
    BY <1>3, <1>4, RowTypes
  <1>6. run' = [run EXCEPT ![old.run] = row]
    BY <1>2, <1>4 DEF ToolStart, Save
  <1>7. run[old.run].status # "ABSENT" => row.kind = run[old.run].kind
                                          /\ row.profile = run[old.run].profile
    BY <1>1, <1>2, <1>3, <1>5, NullValues DEF Attached
  <1>8. Rows' /\ Kept /\ run'[old.run] = row /\ \A q \in Runs \ {old.run} : run'[q] = run[q]
    BY <1>3, <1>5, <1>6, <1>7, RowUpdate
  <1>. DEFINE state == [old EXCEPT !.step = "READY", !.seen = row]
  <1>9. Become(w, state)
    BY <1>2, <1>4 DEF ToolStart
  <1>10. /\ state \in Worker /\ state.step = "READY" /\ state.run = old.run
         /\ state.seen = row /\ state.acquired = Null
    BY <1>3 DEF Worker
  <1>. HIDE DEF state
  <1>11. Coherent(w, state) /\ Attached(w, state, run')
    BY <1>3, <1>5, <1>8, <1>10, NullValues
       DEF Coherent, Attached, Holding, After, Active
  <1>. QED BY <1>2, <1>3, <1>5, <1>8, <1>9, <1>10, <1>11, ProcessUpdate

\* A checkout takes a lease for the run, whether the process hears of it or not.
LEMMA CheckoutEffect ==
    ASSUME TypeInv, NEW w \in Workers, NEW l \in Leases, Checkout(w, l)
    PROVE  /\ Kept /\ Processes' /\ \A v \in Workers \ {w} : worker'[v] = worker[v]
           /\ worker'[w].run = worker[w].run /\ worker'[w].seen = worker[w].seen
           /\ worker[w].step = "READY" /\ worker[w].run \in Runs
           /\ \E p \in Profiles :
                 /\ Lock!Acquire(p, l)
                 /\ Serves(w) = "EXERCISE" => p = worker[w].seen.profile
                 /\ \/ worker'[w].step = "LEASED" /\ worker'[w].acquired = <<p, l>>
                    \/ /\ worker'[w].step = "ENDING" /\ worker'[w].acquired = Null
                       /\ worker'[w].verdict = "CHECKOUT_FAILED"
  <1>1. worker[w] \in Worker /\ Coherent(w, worker[w]) /\ Attached(w, worker[w], run)
    BY DEF TypeInv, Processes
  <1>2. PICK old \in Worker : old = worker[w]
    BY <1>1
  <1>3. /\ old.step = "READY" /\ old.run \in Runs /\ old.seen \in Run
        /\ old.acquired = Null /\ old.seen.kind = Serves(w) /\ Named(old.seen)
        /\ old.seen.status # "ABSENT"
    BY <1>1, <1>2 DEF Checkout, Coherent, Worker, Holding, After, Active
  <1>4. Serves(w) # "GROUP" => old.seen.profile \in Profiles
    BY <1>3, <1>2 DEF Named, Run
  <1>5. Eligible(w) \subseteq Profiles
        /\ (Serves(w) = "EXERCISE" => Eligible(w) = {old.seen.profile})
    BY <1>2, <1>4 DEF Eligible
  <1>6. PICK p \in Profiles :
           /\ Lock!Acquire(p, l)
           /\ Serves(w) = "EXERCISE" => p = old.seen.profile
           /\ \/ Become(w, [worker[w] EXCEPT !.step = "LEASED", !.acquired = <<p, l>>])
              \/ Refuse(w, "CHECKOUT_FAILED")
    BY <1>5 DEF Checkout
  <1>7. Kept
    BY DEF Checkout, Kept
  <1>8. CASE Become(w, [worker[w] EXCEPT !.step = "LEASED", !.acquired = <<p, l>>])
    <2>. DEFINE pair == <<p, l>>
                state == [old EXCEPT !.step = "LEASED", !.acquired = pair]
    <2>1. Become(w, state)
      BY <1>2, <1>8
    <2>2. pair \in Profiles \X Leases /\ pair # Null
      BY NullValues
    <2>. HIDE DEF pair
    <2>3. /\ state \in Worker /\ state.step = "LEASED" /\ state.run = old.run
          /\ state.seen = old.seen /\ state.acquired = pair
      BY <2>2 DEF Worker
    <2>. HIDE DEF state
    <2>4. Coherent(w, state)
      BY <1>1, <1>2, <1>3, <2>2, <2>3, NullValues DEF Coherent, Holding, After
    <2>5. /\ Processes' /\ worker'[w] = state
          /\ \A v \in Workers \ {w} : worker'[v] = worker[v]
      BY <1>2, <1>7, <2>1, <2>3, <2>4, SameRun
    <2>. QED BY <1>2, <1>3, <1>6, <1>7, <2>3, <2>5 DEF pair
  <1>9. CASE Refuse(w, "CHECKOUT_FAILED")
    <2>1. "CHECKOUT_FAILED" \in Failures \cup {"SUCCEED"}
      BY DEF Failures
    <2>2. worker[w].step \in {"READY", "APPLYING"}
      BY <1>2, <1>3
    <2>. QED BY <1>2, <1>3, <1>6, <1>7, <1>9, <2>1, <2>2, Refusing
  <1>. QED BY <1>6, <1>8, <1>9

LEMMA RefusedEffect ==
    ASSUME TypeInv, NEW w \in Workers, CheckoutRefused(w)
    PROVE  /\ Kept /\ Processes' /\ \A v \in Workers \ {w} : worker'[v] = worker[v]
           /\ worker'[w].step = "ENDING" /\ worker'[w].verdict \in Failures
           /\ worker'[w].run = worker[w].run /\ worker'[w].seen = worker[w].seen
           /\ worker'[w].acquired = Null /\ worker[w].step = "READY"
  <1>1. Refusals(w) \subseteq Failures
    BY DEF Refusals, Failures
  <1>2. PICK reason \in Failures : Refuse(w, reason)
    BY <1>1 DEF CheckoutRefused
  <1>3. Kept /\ worker[w].step = "READY"
    BY DEF CheckoutRefused, Kept
  <1>4. worker[w].acquired = Null
    BY <1>3 DEF TypeInv, Processes, Coherent, Holding, After
  <1>. QED BY <1>2, <1>3, <1>4, Refusing

LEMMA AttachReadEffect ==
    ASSUME TypeInv, NEW w \in Workers, AttachRead(w)
    PROVE  /\ Kept /\ Processes' /\ \A v \in Workers \ {w} : worker'[v] = worker[v]
           /\ worker[w].step = "LEASED" /\ worker'[w].step \in {"ATTACHING", "RELEASING"}
           /\ worker'[w].run = worker[w].run /\ worker'[w].acquired = worker[w].acquired
           /\ worker'[w].seen \in {worker[w].seen, run[worker[w].run]}
           /\ worker'[w].step = "ATTACHING" => worker'[w].seen = run[worker[w].run]
           /\ worker'[w].verdict \in {worker[w].verdict, "RECORD_FAILED"}
  <1>1. /\ worker[w].step = "LEASED" /\ run' = run /\ Kept
    BY DEF AttachRead, Kept
  <1>2. worker[w].run # Null /\ worker[w].acquired # Null
    BY <1>1 DEF TypeInv, Processes, Coherent, Holding
  <1>3. CASE /\ run[worker[w].run].status = "RUNNING"
             /\ Become(w, [worker[w] EXCEPT !.step = "ATTACHING", !.seen = run[worker[w].run]])
    <2>1. run[worker[w].run].status \in Active
      BY <1>3 DEF Active
    <2>. QED BY <1>1, <1>2, <1>3, <2>1, Reading
  <1>4. CASE Decide(w, "RECORD_FAILED")
    BY <1>1, <1>4, Deciding DEF Holding, Failures
  <1>. QED BY <1>3, <1>4 DEF AttachRead

LEMMA AttachSaveEffect ==
    ASSUME TypeInv, NEW w \in Workers, AttachSave(w)
    PROVE  /\ Rows' /\ Kept /\ Processes'
           /\ worker[w].run \in Runs /\ worker[w].acquired \in Profiles \X Leases
           /\ worker[w].step = "ATTACHING"
           /\ run'[worker[w].run].status \in Active
           /\ run'[worker[w].run].lease = worker[w].acquired[2]
           /\ run'[worker[w].run].status = worker[w].seen.status
           /\ run'[worker[w].run].requested = worker[w].seen.requested
           /\ run'[worker[w].run].leaseReleased = worker[w].seen.leaseReleased
           /\ \A q \in Runs \ {worker[w].run} : run'[q] = run[q]
           /\ \A v \in Workers \ {w} : worker'[v] = worker[v]
           /\ worker'[w].step \in {"ATTACHED", "RELEASING"}
           /\ worker'[w].run = worker[w].run
           /\ worker'[w].seen \in {worker[w].seen, run'[worker[w].run]}
           /\ worker'[w].acquired = worker[w].acquired
  <1>1. worker[w] \in Worker /\ Coherent(w, worker[w]) /\ Attached(w, worker[w], run)
    BY DEF TypeInv, Processes
  <1>2. PICK old \in Worker : old = worker[w]
    BY <1>1
  <1>3. /\ old.step = "ATTACHING" /\ old.run \in Runs /\ old.seen \in Run
        /\ Named(old.seen) /\ old.seen.status \in Active /\ old.seen.kind = Serves(w)
        /\ old.acquired \in Profiles \X Leases /\ old.acquired[2] \in Leases
    BY <1>1, <1>2 DEF AttachSave, Coherent, Worker, Holding
  <1>4. PICK row \in Run : row = [old.seen EXCEPT !.lease = old.acquired[2]]
    BY <1>3, RowTypes DEF Active
  <1>5. /\ Named(row) /\ row.status = old.seen.status /\ row.kind = Serves(w)
        /\ row.profile = old.seen.profile /\ row.lease = old.acquired[2]
        /\ row.requested = old.seen.requested
        /\ row.leaseReleased = old.seen.leaseReleased
    BY <1>3, <1>4, RowTypes DEF Active
  <1>6. run' = [run EXCEPT ![old.run] = row]
    BY <1>2, <1>4 DEF AttachSave, Save
  <1>7. /\ run[old.run].status # "ABSENT" => row.kind = run[old.run].kind
                                             /\ row.profile = run[old.run].profile
        /\ row.status # "ABSENT"
    BY <1>1, <1>2, <1>3, <1>5, NullValues DEF Attached, Active
  <1>8. Rows' /\ Kept /\ run'[old.run] = row /\ \A q \in Runs \ {old.run} : run'[q] = run[q]
    BY <1>3, <1>5, <1>6, <1>7, RowUpdate
  <1>9. CASE Become(w, [worker[w] EXCEPT !.step = "ATTACHED", !.seen = row])
    <2>. DEFINE state == [old EXCEPT !.step = "ATTACHED", !.seen = row]
    <2>1. Become(w, state)
      BY <1>2, <1>9
    <2>2. /\ state \in Worker /\ state.step = "ATTACHED" /\ state.run = old.run
          /\ state.seen = row /\ state.acquired = old.acquired
      BY DEF Worker
    <2>. HIDE DEF state
    <2>3. Coherent(w, state)
      BY <1>1, <1>2, <1>3, <1>5, <2>2, NullValues DEF Coherent, Holding, After
    <2>4. Attached(w, state, run')
      BY <1>3, <1>5, <1>7, <1>8, <2>2 DEF Attached
    <2>5. /\ Processes' /\ worker'[w] = state
          /\ \A v \in Workers \ {w} : worker'[v] = worker[v]
      BY <1>8, <2>1, <2>2, <2>3, <2>4, ProcessUpdate
    <2>. QED BY <1>2, <1>3, <1>5, <1>8, <2>2, <2>5
  <1>10. CASE Decide(w, "RECORD_FAILED")
    <2>1. "RECORD_FAILED" \in Failures \cup {"SUCCEED"} /\ worker[w].step \in Holding
      BY <1>2, <1>3 DEF Failures, Holding
    <2>2. /\ Processes' /\ \A v \in Workers \ {w} : worker'[v] = worker[v]
          /\ worker'[w].step = "RELEASING"
          /\ worker'[w].run = worker[w].run /\ worker'[w].seen = worker[w].seen
          /\ worker'[w].acquired = worker[w].acquired
      BY <1>8, <1>10, <2>1, Deciding
    <2>. QED BY <1>2, <1>3, <1>5, <1>8, <2>2
  <1>. QED BY <1>2, <1>4, <1>9, <1>10 DEF AttachSave

Operates(w) ==
    \/ Launch(w) \/ LaunchFails(w) \/ BrowserFails(w) \/ BrowserDone(w)
    \/ SubmitPayload(w) \/ SubmittedAll(w)

\* Operating the profile: the process stays under its lease until it decides.
LEMMA OperateEffect ==
    ASSUME TypeInv, NEW w \in Workers, Operates(w)
    PROVE  /\ Kept /\ Processes' /\ \A v \in Workers \ {w} : worker'[v] = worker[v]
           /\ worker[w].step \in Holding
           /\ worker'[w].step \in {"BROWSING", "SUBMITTING", "RELEASING"}
           /\ worker'[w].run = worker[w].run /\ worker'[w].seen = worker[w].seen
           /\ worker'[w].acquired = worker[w].acquired
           /\ worker'[w].step \in Browsing => worker[w].step \in Browsing \/ ~Misled(w)
  <1>1. worker[w] \in Worker /\ Coherent(w, worker[w])
    BY DEF TypeInv, Processes
  <1>2. PICK old \in Worker : old = worker[w]
    BY <1>1
  <1>3. Kept
    BY DEF Operates, Launch, LaunchFails, BrowserFails, BrowserDone, SubmitPayload,
           SubmittedAll, Kept
  <1>4. old.step \in {"ATTACHED", "LEASED", "BROWSING", "SUBMITTING"} /\ old.step \in Holding
    BY <1>2 DEF Operates, Launch, LaunchFails, BrowserFails, BrowserDone, SubmitPayload,
           SubmittedAll, ReadyToLaunch, Holding
  <1>5. CASE \E verdict \in Failures \cup {"SUCCEED"} : Decide(w, verdict)
    <2>1. PICK verdict \in Failures \cup {"SUCCEED"} : Decide(w, verdict)
      BY <1>5
    <2>2. "RELEASING" \notin Browsing
      BY DEF Browsing
    <2>. QED BY <1>2, <1>3, <1>4, <2>1, <2>2, Deciding
  <1>6. CASE Launch(w)
    <2>. DEFINE state == [old EXCEPT !.step = "BROWSING"]
    <2>1. Become(w, state) /\ ~Misled(w)
      BY <1>2, <1>6 DEF Launch
    <2>2. /\ state \in Worker /\ state.step = "BROWSING" /\ state.run = old.run
          /\ state.seen = old.seen /\ state.acquired = old.acquired
      BY DEF Worker
    <2>. HIDE DEF state
    <2>3. Coherent(w, state)
      BY <1>1, <1>2, <1>4, <2>2 DEF Coherent, Holding, After
    <2>4. /\ Processes' /\ worker'[w] = state
          /\ \A v \in Workers \ {w} : worker'[v] = worker[v]
      BY <1>2, <1>3, <2>1, <2>2, <2>3, SameRun
    <2>. QED BY <1>2, <1>3, <1>4, <2>1, <2>2, <2>4
  <1>7. CASE /\ worker[w].step = "BROWSING"
             /\ \E payloads \in 0 .. MaxPayloads :
                   Become(w, [worker[w] EXCEPT !.step = "SUBMITTING", !.left = payloads])
    <2>1. PICK payloads \in 0 .. MaxPayloads :
             Become(w, [old EXCEPT !.step = "SUBMITTING", !.left = payloads])
      BY <1>2, <1>7
    <2>. DEFINE state == [old EXCEPT !.step = "SUBMITTING", !.left = payloads]
    <2>2. /\ state \in Worker /\ state.step = "SUBMITTING" /\ state.run = old.run
          /\ state.seen = old.seen /\ state.acquired = old.acquired
      BY DEF Worker
    <2>3. Become(w, state)
      BY <2>1
    <2>. HIDE DEF state
    <2>4. Coherent(w, state)
      BY <1>1, <1>2, <1>4, <2>2 DEF Coherent, Holding, After
    <2>5. /\ Processes' /\ worker'[w] = state
          /\ \A v \in Workers \ {w} : worker'[v] = worker[v]
      BY <1>2, <1>3, <2>2, <2>3, <2>4, SameRun
    <2>6. worker[w].step \in Browsing
      BY <1>7 DEF Browsing
    <2>. QED BY <1>2, <1>3, <1>4, <2>2, <2>5, <2>6
  <1>8. CASE SubmitPayload(w)
    <2>1. PICK verdict \in Failures \cup {"SUCCEED", Null} :
             Become(w, [old EXCEPT !.left = @ - 1, !.verdict = verdict])
      <3>1. {worker[w].verdict, "SUBMISSION_FAILED"} \subseteq Failures \cup {"SUCCEED", Null}
        BY <1>1 DEF Worker, Failures
      <3>. QED BY <1>2, <1>8, <3>1 DEF SubmitPayload
    <2>2. old.left > 0 /\ old.step = "SUBMITTING"
      BY <1>2, <1>8 DEF SubmitPayload
    <2>3. old.left - 1 \in 0 .. MaxPayloads
      BY <2>2, LeasedRunsBounds DEF Worker
    <2>. DEFINE state == [old EXCEPT !.left = @ - 1, !.verdict = verdict]
    <2>4. /\ state \in Worker /\ state.step = "SUBMITTING" /\ state.run = old.run
          /\ state.seen = old.seen /\ state.acquired = old.acquired
      BY <2>2, <2>3 DEF Worker
    <2>5. Become(w, state)
      BY <2>1
    <2>. HIDE DEF state
    <2>6. Coherent(w, state)
      BY <1>1, <1>2, <1>4, <2>4 DEF Coherent, Holding, After
    <2>7. /\ Processes' /\ worker'[w] = state
          /\ \A v \in Workers \ {w} : worker'[v] = worker[v]
      BY <1>2, <1>3, <2>4, <2>5, <2>6, SameRun
    <2>8. worker[w].step \in Browsing
      BY <1>2, <2>2 DEF Browsing
    <2>. QED BY <1>2, <1>3, <1>4, <2>4, <2>7, <2>8
  <1>9. CASE SubmittedAll(w)
    <2>1. worker[w].verdict \in Failures \cup {"SUCCEED", Null}
      BY <1>1 DEF Worker
    <2>2. \E verdict \in Failures \cup {"SUCCEED"} : Decide(w, verdict)
      BY <1>9, <2>1 DEF SubmittedAll
    <2>. QED BY <1>5, <2>2
  <1>10. CASE LaunchFails(w) \/ BrowserFails(w)
    <2>1. \E verdict \in Failures \cup {"SUCCEED"} : Decide(w, verdict)
      BY <1>10 DEF LaunchFails, BrowserFails, Failures
    <2>. QED BY <1>5, <2>1
  <1>11. CASE BrowserDone(w)
    BY <1>5, <1>7, <1>11 DEF BrowserDone
  <1>. QED BY <1>6, <1>8, <1>9, <1>10, <1>11 DEF Operates

LEMMA ReleaseEffect ==
    ASSUME TypeInv, NEW w \in Workers, Release(w)
    PROVE  /\ Kept /\ Processes' /\ \A v \in Workers \ {w} : worker'[v] = worker[v]
           /\ worker[w].step = "RELEASING" /\ worker[w].acquired \in Profiles \X Leases
           /\ worker'[w].step \in {"APPLYING", "ENDING"}
           /\ worker'[w].run = worker[w].run /\ worker'[w].seen = worker[w].seen
           /\ worker'[w].acquired = worker[w].acquired
           /\ worker'[w].step = "APPLYING" \/ worker'[w].verdict = "SUCCEED" =>
                 Lock!Release(worker[w].acquired[1], worker[w].acquired[2])
           /\ worker'[w].leaseReleased = "YES" =>
                 Lock!Release(worker[w].acquired[1], worker[w].acquired[2])
           /\ worker'[w].verdict = "SUCCEED" => worker[w].verdict = "SUCCEED"
           /\ worker'[w].step = "APPLYING" => Serves(w) = "ACCESS"
           /\ Serves(w) = "ACCESS" /\ worker'[w].step = "ENDING" =>
                 worker'[w].verdict # "SUCCEED"
           /\ \/ Lock!Release(worker[w].acquired[1], worker[w].acquired[2])
              \/ UNCHANGED <<held, closed>>
  <1>1. worker[w] \in Worker /\ Coherent(w, worker[w])
    BY DEF TypeInv, Processes
  <1>2. PICK old \in Worker : old = worker[w]
    BY <1>1
  <1>3. /\ old.step = "RELEASING" /\ old.acquired \in Profiles \X Leases
        /\ old.verdict \in Failures \cup {"SUCCEED"}
    BY <1>1, <1>2 DEF Release, Coherent, Worker, Holding
  <1>4. Kept
    BY DEF Release, Kept
  <1>. DEFINE p == worker[w].acquired[1]
              l == worker[w].acquired[2]
  <1>5. PICK leaseReleased \in {"YES", "NO"}, verdict \in Failures \cup {"SUCCEED"} :
           /\ Returned(w, leaseReleased, verdict)
           /\ verdict = "SUCCEED" => Lock!Release(p, l) /\ old.verdict = "SUCCEED"
           /\ leaseReleased = "YES" => Lock!Release(p, l)
           /\ Lock!Release(p, l) \/ UNCHANGED <<held, closed>>
    <2>1. CASE Lock!Release(p, l) /\ Returned(w, "YES", worker[w].verdict)
      BY <1>2, <1>3, <2>1
    <2>2. CASE /\ Lock!Release(p, l) \/ UNCHANGED <<held, closed>>
               /\ Returned(w, "NO", IF worker[w].verdict = "SUCCEED" THEN "RELEASE_FAILED"
                                    ELSE worker[w].verdict)
      <3>1. CASE worker[w].verdict = "SUCCEED"
        <4>1. "RELEASE_FAILED" \in Failures /\ "RELEASE_FAILED" # "SUCCEED"
          BY DEF Failures
        <4>. QED BY <2>2, <3>1, <4>1
      <3>2. CASE worker[w].verdict # "SUCCEED"
        BY <1>2, <1>3, <2>2, <3>2
      <3>. QED BY <3>1, <3>2
    <2>. QED BY <2>1, <2>2 DEF Release
  <1>6. PICK step \in {"APPLYING", "ENDING"} :
           /\ Become(w, [old EXCEPT !.step = step, !.verdict = verdict,
                                    !.leaseReleased = leaseReleased])
           /\ step = "APPLYING" => verdict = "SUCCEED" /\ Serves(w) = "ACCESS"
           /\ Serves(w) = "ACCESS" /\ step = "ENDING" => verdict # "SUCCEED"
    BY <1>2, <1>5 DEF Returned
  <1>. DEFINE state == [old EXCEPT !.step = step, !.verdict = verdict,
                                  !.leaseReleased = leaseReleased]
  <1>7. /\ state \in Worker /\ state.step = step /\ state.verdict = verdict
        /\ state.leaseReleased = leaseReleased
        /\ state.run = old.run /\ state.seen = old.seen /\ state.acquired = old.acquired
    BY DEF Worker
  <1>8. Become(w, state)
    BY <1>6
  <1>. HIDE DEF state
  <1>9. Coherent(w, state)
    BY <1>1, <1>2, <1>3, <1>7, NullValues DEF Coherent, Holding, After
  <1>10. /\ Processes' /\ worker'[w] = state
         /\ \A v \in Workers \ {w} : worker'[v] = worker[v]
    BY <1>2, <1>4, <1>7, <1>8, <1>9, SameRun
  <1>. QED BY <1>2, <1>3, <1>4, <1>5, <1>6, <1>7, <1>10

LEMMA ApplyEffect ==
    ASSUME TypeInv, NEW w \in Workers, Apply(w)
    PROVE  /\ Kept /\ Processes' /\ \A v \in Workers \ {w} : worker'[v] = worker[v]
           /\ worker[w].step = "APPLYING" /\ worker'[w].step = "ENDING"
           /\ worker'[w].run = worker[w].run /\ worker'[w].seen = worker[w].seen
           /\ worker'[w].acquired = worker[w].acquired
           /\ access' \in [Profiles -> Runs \cup {Null}]
  <1>1. PICK verdict \in Failures \cup {"SUCCEED"} : Refuse(w, verdict)
    BY DEF Apply, Failures
  <1>2. Kept /\ worker[w].step = "APPLYING"
    BY DEF Apply, Kept
  <1>3. worker[w].run \in Runs \cup {Null}
    BY DEF TypeInv, Processes, Worker
  <1>4. access' \in [Profiles -> Runs \cup {Null}]
    BY <1>3 DEF Apply, TypeInv, Outer
  <1>. QED BY <1>1, <1>2, <1>4, Refusing

LEMMA EndReadEffect ==
    ASSUME TypeInv, NEW w \in Workers, EndRead(w)
    PROVE  /\ Kept /\ Processes' /\ \A v \in Workers \ {w} : worker'[v] = worker[v]
           /\ worker[w].step = "ENDING"
           /\ \/ /\ worker'[w].step = "SAVING" /\ worker'[w].verdict = worker[w].verdict
                 /\ worker'[w].run = worker[w].run /\ worker'[w].seen = run[worker[w].run]
                 /\ worker'[w].acquired = worker[w].acquired
              \/ /\ worker'[w].step \in {"IDLE", "EXITED"} /\ worker'[w].run = Null
                 /\ worker'[w].seen = Null
  <1>1. /\ worker[w].step = "ENDING" /\ run' = run /\ Kept
    BY DEF EndRead, Kept
  <1>2. worker[w].run # Null /\ worker[w].verdict # Null
    BY <1>1 DEF TypeInv, Processes, Coherent, After
  <1>3. CASE /\ run[worker[w].run].status = "RUNNING"
             /\ Become(w, [worker[w] EXCEPT !.step = "SAVING", !.seen = run[worker[w].run]])
    <2>1. run[worker[w].run].status \in Active
      BY <1>3 DEF Active
    <2>. QED BY <1>1, <1>2, <1>3, <2>1, Reading
  <1>4. CASE Done(w)
    BY <1>1, <1>4, Leaving
  <1>. QED BY <1>3, <1>4 DEF EndRead

LEMMA EndSaveEffect ==
    ASSUME TypeInv, NEW w \in Workers, EndSave(w)
    PROVE  /\ Rows' /\ Kept /\ Processes'
           /\ worker[w].run \in Runs /\ worker[w].seen \in Run
           /\ worker[w].step \in {"ENDING", "SAVING"}
           /\ run'[worker[w].run].status \in {"SUCCEEDED", "FAILED"}
           /\ run'[worker[w].run].status = "SUCCEEDED" => worker[w].verdict = "SUCCEED"
           /\ run'[worker[w].run].requested = worker[w].seen.requested
           /\ run'[worker[w].run].leaseReleased \in {Null, worker[w].leaseReleased}
           /\ run'[worker[w].run].lease = worker[w].seen.lease
           /\ \A q \in Runs \ {worker[w].run} : run'[q] = run[q]
           /\ \A v \in Workers \ {w} : worker'[v] = worker[v]
           /\ worker'[w].step \in {"IDLE", "EXITED"} /\ worker'[w].run = Null
           /\ worker'[w].seen = Null
  <1>1. worker[w] \in Worker /\ Coherent(w, worker[w]) /\ Attached(w, worker[w], run)
    BY DEF TypeInv, Processes
  <1>2. worker[w].step \in {"ENDING", "SAVING"}
    BY DEF EndSave, Save
  <1>3. /\ worker[w].run \in Runs /\ worker[w].seen \in Run /\ worker[w].seen # Null
        /\ Named(worker[w].seen) /\ worker[w].seen.status # "ABSENT"
        /\ worker[w].seen.kind = Serves(w) /\ worker[w].verdict # Null
    BY <1>1, <1>2 DEF Coherent, Worker, After, Active
  <1>4. PICK row \in Run : row = Ended(w)
    BY <1>1, <1>3, EndedType
  <1>5. /\ Named(row) /\ row.status \in {"SUCCEEDED", "FAILED"}
        /\ row.status = "SUCCEEDED" <=> worker[w].verdict = "SUCCEED"
        /\ row.kind = worker[w].seen.kind /\ row.profile = worker[w].seen.profile
        /\ row.lease = worker[w].seen.lease /\ row.requested = worker[w].seen.requested
        /\ row.leaseReleased \in {Null, worker[w].leaseReleased}
    BY <1>1, <1>3, <1>4, EndedType
  <1>6. run' = [run EXCEPT ![worker[w].run] = row]
    BY <1>4 DEF EndSave, Save
  <1>7. PICK r \in Runs : r = worker[w].run
    BY <1>3
  <1>8. run[r].status # "ABSENT" => row.kind = run[r].kind /\ row.profile = run[r].profile
    BY <1>1, <1>3, <1>5, <1>7, NullValues DEF Attached
  <1>9. Rows' /\ Kept /\ run'[r] = row /\ \A q \in Runs \ {r} : run'[q] = run[q]
    BY <1>5, <1>6, <1>7, <1>8, RowUpdate
  <1>10. Done(w)
    BY DEF EndSave
  <1>. QED BY <1>2, <1>3, <1>5, <1>7, <1>9, <1>10, Leaving

LEMMA InterruptEffect ==
    ASSUME TypeInv, NEW w \in Workers, Interrupt(w)
    PROVE  /\ Kept /\ Processes' /\ \A v \in Workers \ {w} : worker'[v] = worker[v]
           /\ worker'[w].step = worker[w].step /\ worker'[w].verdict = worker[w].verdict
           /\ worker'[w].run = worker[w].run /\ worker'[w].seen = worker[w].seen
           /\ worker'[w].acquired = worker[w].acquired
  <1>1. worker[w] \in Worker /\ Coherent(w, worker[w]) /\ Kept
    BY DEF TypeInv, Processes, Interrupt, Kept
  <1>2. PICK old \in Worker : old = worker[w]
    BY <1>1
  <1>. DEFINE state == [old EXCEPT !.stopping = TRUE]
  <1>3. Become(w, state)
    BY <1>2 DEF Interrupt
  <1>4. /\ state \in Worker /\ state.step = old.step /\ state.verdict = old.verdict
        /\ state.run = old.run /\ state.seen = old.seen /\ state.acquired = old.acquired
    BY DEF Worker
  <1>. HIDE DEF state
  <1>5. Coherent(w, state)
    BY <1>1, <1>2, <1>4 DEF Coherent
  <1>. QED BY <1>1, <1>2, <1>3, <1>4, <1>5, SameRun

\* A process that is idle, exits, dies or starts again.
Leaves(w) == Exit(w) \/ Crash(w) \/ Restart(w)

LEMMA LeaveEffect ==
    ASSUME TypeInv, NEW w \in Workers, Leaves(w)
    PROVE  /\ Kept /\ Processes' /\ \A v \in Workers \ {w} : worker'[v] = worker[v]
           /\ worker'[w].step \in {"IDLE", "EXITED"} /\ worker'[w].run = Null
           /\ worker'[w].seen = Null
  <1>1. Kept /\ (Quit(w) \/ Become(w, IdleWorker))
    BY DEF Leaves, Exit, Crash, Restart, Kept
  <1>. QED BY <1>1, Leaving

LEMMA LoadEffect ==
    ASSUME TypeInv, NEW w \in Workers, Load(w)
    PROVE  /\ Kept /\ Processes' /\ \A v \in Workers \ {w} : worker'[v] = worker[v]
           /\ worker'[w].acquired = Null /\ worker'[w].run \in {Null, worker[w].run}
           /\ \/ /\ worker'[w].step = "READY" /\ worker'[w].run = worker[w].run
                 /\ worker'[w].seen = run[worker[w].run]
              \/ /\ worker'[w].step \in {"IDLE", "EXITED"} /\ worker'[w].run = Null
                 /\ worker'[w].seen = Null
  <1>1. run' = run /\ Kept /\ worker[w].step = "CLAIMED"
    BY DEF Load, Kept
  <1>2. worker[w].run # Null /\ worker[w].acquired = Null
    BY <1>1 DEF TypeInv, Processes, Coherent, Holding, After
  <1>3. CASE /\ run[worker[w].run].status = "RUNNING"
             /\ Become(w, [worker[w] EXCEPT !.step = "READY", !.seen = run[worker[w].run]])
    <2>1. run[worker[w].run].status \in Active
      BY <1>3 DEF Active
    <2>. QED BY <1>1, <1>2, <1>3, <2>1, Reading
  <1>4. CASE Quit(w)
    BY <1>1, <1>4, Leaving
  <1>. QED BY <1>3, <1>4 DEF Load

LEMMA RequestEffect ==
    ASSUME TypeInv, NEW r \in Runs, NEW kind \in Kinds, NEW p \in Profiles,
           Request(r, kind, p)
    PROVE  /\ Rows' /\ Kept /\ \A q \in Runs \ {r} : run'[q] = run[q]
           /\ run[r].status = "ABSENT" /\ run'[r].status = "QUEUED" /\ run'[r].lease = Null
           /\ run'[r].kind = kind /\ (kind # "GROUP" => run'[r].profile = p)
           /\ run'[r].requested = Cardinality(Created) /\ run'[r].leaseReleased = Null
  <1>1. PICK q \in Profiles \cup {Null} :
           /\ run' = [run EXCEPT ![r] = Queued(kind, q)]
           /\ kind = "GROUP" \/ q = p
    BY DEF Request, Update
  <1>2. run[r].status = "ABSENT"
    BY DEF Request, Update
  <1>3. PICK row \in Run : row = Queued(kind, q)
    BY <1>1, QueuedType
  <1>4. /\ Named(row) /\ row.status = "QUEUED" /\ row.lease = Null
        /\ row.kind = kind /\ row.profile = q
        /\ row.requested = Cardinality(Created) /\ row.leaseReleased = Null
    BY <1>1, <1>3, QueuedType
  <1>. QED BY <1>1, <1>2, <1>3, <1>4, RowUpdate

LEMMA CommitCancelEffect ==
    ASSUME TypeInv, NEW o \in Operators, CommitCancel(o)
    PROVE  /\ Rows' /\ Kept /\ Cancels' /\ cancel[o] \in Runs
           /\ \A q \in Runs \ {cancel[o]} : run'[q] = run[q]
           /\ run'[cancel[o]].status = "CANCELED" /\ run'[cancel[o]].lease = Null
           /\ run'[cancel[o]].requested = run[cancel[o]].requested
           /\ run'[cancel[o]].leaseReleased = Null
  <1>1. PICK r \in Runs : r = cancel[o]
    BY DEF TypeInv, Cancels, CommitCancel
  <1>2. run[r].status # "ABSENT" /\ run[r] \in Run /\ Named(run[r])
    BY <1>1, NullValues DEF TypeInv, Cancels, Rows
  <1>3. PICK row \in Run : row = Canceled(run[r])
    BY <1>2, RowTypes
  <1>4. /\ Named(row) /\ row.status = "CANCELED" /\ row.lease = Null
        /\ row.requested = run[r].requested /\ row.leaseReleased = Null
        /\ row.kind = run[r].kind /\ row.profile = run[r].profile
    BY <1>2, <1>3, RowTypes
  <1>5. run' = [run EXCEPT ![r] = row] /\ cancel' = [cancel EXCEPT ![o] = Null]
    BY <1>1, <1>3 DEF CommitCancel, Save
  <1>6. Rows' /\ Kept /\ run'[r] = row /\ \A q \in Runs \ {r} : run'[q] = run[q]
    BY <1>4, <1>5, RowUpdate
  <1>7. Cancels'
    BY <1>5, <1>6, NullValues DEF TypeInv, Cancels, Kept
  <1>. QED BY <1>1, <1>4, <1>6, <1>7

LEMMA LeaseTypes ==
    ASSUME TypeInv, UNCHANGED access,
           \/ UNCHANGED leaseVars
           \/ \E w \in Workers, l \in Leases : Checkout(w, l)
           \/ \E w \in Workers : Release(w)
    PROVE  Outer'
  <1>1. CASE UNCHANGED leaseVars
    BY <1>1 DEF leaseVars, TypeInv, Outer
  <1>2. ASSUME NEW w \in Workers, NEW l \in Leases, Checkout(w, l)
        PROVE  Outer'
    <2>1. PICK p \in Profiles : Lock!Acquire(p, l)
      BY <1>2, CheckoutEffect
    <2>2. worker[w].run \in Runs
      BY <1>2, CheckoutEffect
    <2>3. held' = held \cup {<<p, l>>} /\ closed' = closed
      BY <2>1 DEF Lock!Acquire
    <2>4. held' \subseteq Profiles \X Leases
      BY <2>3 DEF TypeInv, Outer
    <2>5. grantee' = [grantee EXCEPT ![l] = worker[w].run] /\ released' = released
      BY <1>2 DEF Checkout
    <2>6. grantee' \in [Leases -> Runs \cup {Null}]
      BY <2>2, <2>5 DEF TypeInv, Outer
    <2>. QED BY <2>3, <2>4, <2>5, <2>6 DEF TypeInv, Outer
  <1>3. ASSUME NEW w \in Workers, Release(w)
        PROVE  Outer'
    <2>1. PICK p \in Profiles, l \in Leases : p = worker[w].acquired[1] /\ l = worker[w].acquired[2]
      BY <1>3, ReleaseEffect
    <2>2. Lock!Release(p, l) \/ UNCHANGED <<held, closed>>
      BY <1>3, <2>1 DEF Release
    <2>3. released' = [released EXCEPT ![l] = @ + 1] /\ grantee' = grantee
      BY <1>3, <2>1 DEF Release
    <2>. QED BY <2>2, <2>3 DEF Lock!Release, TypeInv, Outer
  <1>. QED BY <1>1, <1>2, <1>3

\* However requests, processes and cancels interleave, every variable keeps its type
\* and no row changes what it is about, stale saves included (LeasedRuns).
THEOREM TypeSafe == Spec => []TypeInv
  <1>1. Init => TypeInv
    <2>. SUFFICES ASSUME Init PROVE TypeInv
      OBVIOUS
    <2>1. Rows
      BY NoRunType DEF Init, Rows, Named, NoRun
    <2>2. IdleWorker \in Worker
      BY LeasedRunsBounds DEF IdleWorker, Worker
    <2>3. \A w \in Workers : Coherent(w, IdleWorker) /\ Attached(w, IdleWorker, run)
      BY DEF IdleWorker, Coherent, Attached, Holding, After
    <2>4. Processes
      BY <2>2, <2>3 DEF Init, Processes
    <2>. QED BY <2>1, <2>4 DEF Init, Lock!Init, TypeInv, Cancels, Outer
  <1>2. TypeInv /\ [Next]_vars => TypeInv'
    <2>. SUFFICES ASSUME TypeInv, [Next]_vars PROVE TypeInv'
      OBVIOUS
    <2>1. ASSUME NEW r \in Runs, NEW kind \in Kinds, NEW p \in Profiles, Request(r, kind, p)
          PROVE  TypeInv'
      <3>1. Rows' /\ Kept
        BY <2>1, RequestEffect
      <3>2. worker' = worker /\ cancel' = cancel /\ UNCHANGED access /\ UNCHANGED leaseVars
        BY <2>1 DEF Request, outside
      <3>3. Processes'
        BY <3>1, <3>2, AttachedKept DEF TypeInv, Processes
      <3>. QED BY <3>1, <3>2, <3>3, CancelsKept, LeaseTypes DEF TypeInv
    <2>2. ASSUME NEW o \in Operators, NEW r \in Runs, BeginCancel(o, r)
          PROVE  TypeInv'
      <3>1. Cancels'
        BY <2>2 DEF BeginCancel, TypeInv, Cancels
      <3>. QED BY <2>2, <3>1 DEF BeginCancel, TypeInv, Rows, Processes, Outer, leaseVars
    <2>3. ASSUME NEW o \in Operators, CommitCancel(o)
          PROVE  TypeInv'
      <3>1. Rows' /\ Kept /\ Cancels'
        BY <2>3, CommitCancelEffect
      <3>2. worker' = worker /\ UNCHANGED access /\ UNCHANGED leaseVars
        BY <2>3 DEF CommitCancel
      <3>3. Processes'
        BY <3>1, <3>2, AttachedKept DEF TypeInv, Processes
      <3>. QED BY <3>1, <3>2, <3>3, LeaseTypes DEF TypeInv
    <2>4. ASSUME NEW w \in Workers, NEW r \in Runs, Claim(w, r)
          PROVE  TypeInv'
      <3>1. cancel' = cancel /\ UNCHANGED access /\ UNCHANGED leaseVars
        BY <2>4 DEF Claim, outside
      <3>. QED BY <2>4, <3>1, ClaimEffect, CancelsKept, LeaseTypes DEF TypeInv
    <2>5. ASSUME NEW w \in Workers, NEW r \in Runs, NEW p \in Profiles, ToolRequest(w, r, p)
          PROVE  TypeInv'
      <3>1. cancel' = cancel /\ UNCHANGED access /\ UNCHANGED leaseVars
        BY <2>5 DEF ToolRequest, outside
      <3>. QED BY <2>5, <3>1, ToolRequestEffect, CancelsKept, LeaseTypes DEF TypeInv
    <2>6. ASSUME NEW w \in Workers, ToolStart(w) \/ AttachSave(w) \/ EndSave(w)
          PROVE  TypeInv'
      <3>1. cancel' = cancel /\ UNCHANGED access /\ UNCHANGED leaseVars
        BY <2>6 DEF ToolStart, AttachSave, EndSave, outside
      <3>. QED BY <2>6, <3>1, ToolStartEffect, AttachSaveEffect, EndSaveEffect, CancelsKept,
                  LeaseTypes DEF TypeInv
    <2>7. ASSUME NEW w \in Workers,
                 \/ Load(w) \/ ToolRead(w) \/ CheckoutRefused(w) \/ AttachRead(w)
                 \/ Operates(w) \/ EndRead(w) \/ Interrupt(w) \/ Leaves(w)
          PROVE  TypeInv'
      <3>1. run' = run /\ cancel' = cancel /\ UNCHANGED access /\ UNCHANGED leaseVars
        BY <2>7 DEF Load, ToolRead, CheckoutRefused, AttachRead, Operates, Launch,
                    LaunchFails, BrowserFails, BrowserDone, SubmitPayload, SubmittedAll,
                    EndRead, Interrupt, Leaves, Exit, Crash, Restart, outside
      <3>2. Kept /\ Processes'
        BY <2>7, LoadEffect, ToolReadEffect, RefusedEffect, AttachReadEffect, OperateEffect,
           EndReadEffect, InterruptEffect, LeaveEffect
      <3>3. Rows'
        BY <3>1 DEF TypeInv, Rows
      <3>. QED BY <3>1, <3>2, <3>3, CancelsKept, LeaseTypes DEF TypeInv
    <2>8. ASSUME NEW w \in Workers, Release(w) \/ \E l \in Leases : Checkout(w, l)
          PROVE  TypeInv'
      <3>1. run' = run /\ cancel' = cancel /\ UNCHANGED access
        BY <2>8 DEF Release, Checkout, outside
      <3>2. Kept /\ Processes'
        BY <2>8, ReleaseEffect, CheckoutEffect
      <3>3. Rows'
        BY <3>1 DEF TypeInv, Rows
      <3>. QED BY <2>8, <3>1, <3>2, <3>3, CancelsKept, LeaseTypes DEF TypeInv
    <2>9. ASSUME NEW w \in Workers, Apply(w)
          PROVE  TypeInv'
      <3>1. run' = run /\ cancel' = cancel /\ UNCHANGED leaseVars
        BY <2>9 DEF Apply
      <3>2. Kept /\ Processes' /\ access' \in [Profiles -> Runs \cup {Null}]
        BY <2>9, ApplyEffect
      <3>3. Rows' /\ Outer'
        BY <3>1, <3>2 DEF TypeInv, Rows, Outer, leaseVars
      <3>. QED BY <3>1, <3>2, <3>3, CancelsKept DEF TypeInv
    <2>10. CASE UNCHANGED vars
      BY <2>10 DEF vars, leaseVars, TypeInv, Rows, Processes, Cancels, Outer
    <2>. QED BY <2>1, <2>2, <2>3, <2>4, <2>5, <2>6, <2>7, <2>8, <2>9, <2>10
             DEF Next, Api, WorkerStep, Operate, Operates, Leaves
  <1>. QED BY <1>1, <1>2, PTL DEF Spec

-----------------------------------------------------------------------------
(* Leases and their holders *)

\* What the lock and the histories say of each lease.
LeaseTable ==
    /\ \A p \in Profiles, l \in Leases : <<p, l>> \in held => l \notin closed
    /\ \A p \in Profiles, q \in Profiles, l \in Leases, m \in Leases :
          <<p, l>> \in held /\ <<q, m>> \in held => (p = q <=> l = m)
    /\ \A l \in Leases : grantee[l] # Null =>
          l \in closed \/ \E p \in Profiles : <<p, l>> \in held
    /\ \A l \in Leases :
          l \notin closed /\ (\A p \in Profiles : <<p, l>> \notin held) => released[l] = 0
    /\ \A l \in Leases : released[l] <= 1

\* A process that holds a lease got it for its run and has not released it.
HolderInv(w) ==
    worker[w].step \in Holding =>
        /\ worker[w].acquired \in held
        /\ released[worker[w].acquired[2]] = 0
        /\ grantee[worker[w].acquired[2]] = worker[w].run

\* One that goes on without its lease has released it.
DoneInv(w) ==
    worker[w].step \in After /\ worker[w].acquired # Null
    => released[worker[w].acquired[2]] = 1

Succeeds(state) ==
    state.step = "APPLYING" \/ (state.step \in After /\ state.verdict = "SUCCEED")

\* ... and succeeds only if the release was confirmed.
EarnedInv(w) ==
    Succeeds(worker[w]) =>
        /\ worker[w].acquired # Null /\ worker[w].acquired[2] \in closed
        /\ grantee[worker[w].acquired[2]] = worker[w].run

Apart ==
    \A w \in Workers, v \in Workers :
        w # v /\ worker[w].step \in Holding /\ worker[v].step \in Holding
        => worker[w].acquired # worker[v].acquired

LeaseInv ==
    /\ LeaseTable /\ Apart
    /\ \A w \in Workers : HolderInv(w) /\ DoneInv(w) /\ EarnedInv(w)

LEMMA Pairs ==
    ASSUME TypeInv, NEW w \in Workers
    PROVE  /\ worker[w].acquired # Null =>
                 \E p \in Profiles, l \in Leases :
                    /\ worker[w].acquired = <<p, l>>
                    /\ worker[w].acquired[1] = p /\ worker[w].acquired[2] = l
           /\ worker[w].step \in Holding => worker[w].acquired # Null
  <1>1. worker[w] \in Worker /\ Coherent(w, worker[w])
    BY DEF TypeInv, Processes
  <1>2. \A d \in Profiles \X Leases :
           d = <<d[1], d[2]>> /\ d[1] \in Profiles /\ d[2] \in Leases
    OBVIOUS
  <1>3. worker[w].acquired \in (Profiles \X Leases) \cup {Null}
    BY <1>1 DEF Worker
  <1>. QED BY <1>1, <1>2, <1>3 DEF Coherent

\* The steps of one process that change nothing about leases and are silent about
\* its own: it has none, keeps it, or goes on after its release.
Quiet(w) ==
    /\ UNCHANGED leaseVars
    /\ \A v \in Workers \ {w} : worker'[v] = worker[v]
    /\ \/ worker'[w].step \notin Holding \cup After
       \/ /\ worker'[w].run = worker[w].run /\ worker'[w].acquired = worker[w].acquired
          /\ \/ worker[w].step \in Holding /\ worker'[w].step \in Holding
             \/ /\ worker[w].step \in After /\ worker'[w].step \in After
                /\ Succeeds(worker'[w]) => Succeeds(worker[w])
       \/ /\ worker'[w].step \in After /\ worker'[w].acquired = Null
          /\ ~Succeeds(worker'[w])

LEMMA HoldingIsNotAfter == Holding \cap After = {}
  BY DEF Holding, After

LEMMA QuietStep ==
    ASSUME TypeInv, LeaseInv, NEW w \in Workers, Quiet(w)
    PROVE  LeaseInv'
  <1>1. held' = held /\ closed' = closed /\ grantee' = grantee /\ released' = released
    BY DEF Quiet, leaseVars
  <1>2. LeaseTable'
    BY <1>1 DEF LeaseInv, LeaseTable
  <1>3. \A v \in Workers \ {w} : worker'[v] = worker[v]
    BY DEF Quiet
  <1>4. worker'[w].step \in Holding =>
           worker[w].step \in Holding /\ worker'[w].acquired = worker[w].acquired
           /\ worker'[w].run = worker[w].run
    BY HoldingIsNotAfter DEF Quiet
  <1>5. Apart'
    BY <1>3, <1>4 DEF LeaseInv, Apart
  <1>6. \A v \in Workers : HolderInv(v)'
    BY <1>1, <1>3, <1>4 DEF LeaseInv, HolderInv
  <1>7. \A v \in Workers : DoneInv(v)'
    <2>1. worker'[w].step \in After /\ worker'[w].acquired # Null =>
             worker[w].step \in After /\ worker'[w].acquired = worker[w].acquired
      BY HoldingIsNotAfter DEF Quiet
    <2>. QED BY <1>1, <1>3, <2>1 DEF LeaseInv, DoneInv
  <1>8. \A v \in Workers : EarnedInv(v)'
    <2>1. Succeeds(worker'[w]) =>
             Succeeds(worker[w]) /\ worker'[w].acquired = worker[w].acquired
             /\ worker'[w].run = worker[w].run
      BY HoldingIsNotAfter DEF Quiet, Succeeds, After
    <2>. QED BY <1>1, <1>3, <2>1 DEF LeaseInv, EarnedInv
  <1>. QED BY <1>2, <1>5, <1>6, <1>7, <1>8 DEF LeaseInv

\* Every step of a process but a checkout and a release is quiet.
LEMMA QuietSteps ==
    ASSUME TypeInv, NEW w \in Workers,
           \/ Load(w) \/ ToolRead(w) \/ CheckoutRefused(w) \/ AttachRead(w) \/ Operates(w)
           \/ EndRead(w) \/ Interrupt(w) \/ Leaves(w) \/ ToolStart(w) \/ AttachSave(w)
           \/ EndSave(w) \/ Apply(w)
           \/ \E r \in Runs : Claim(w, r)
           \/ \E r \in Runs, p \in Profiles : ToolRequest(w, r, p)
    PROVE  Quiet(w)
  <1>1. UNCHANGED leaseVars
    BY DEF Load, ToolRead, CheckoutRefused, AttachRead, Operates, Launch, LaunchFails,
           BrowserFails, BrowserDone, SubmitPayload, SubmittedAll, EndRead, Interrupt,
           Leaves, Exit, Crash, Restart, ToolStart, AttachSave, EndSave, Apply, Claim,
           ToolRequest
  <1>2. CASE \/ Load(w) \/ ToolRead(w) \/ Leaves(w) \/ ToolStart(w) \/ EndSave(w)
             \/ (\E r \in Runs : Claim(w, r))
             \/ (\E r \in Runs, p \in Profiles : ToolRequest(w, r, p))
    <2>1. /\ \A v \in Workers \ {w} : worker'[v] = worker[v]
          /\ worker'[w].step \in {"IDLE", "EXITED", "REQUESTED", "STARTING", "CLAIMED", "READY"}
      BY <1>2, LoadEffect, ToolReadEffect, LeaveEffect, ToolStartEffect, EndSaveEffect,
         ClaimEffect, ToolRequestEffect
    <2>. QED BY <1>1, <2>1 DEF Quiet, Holding, After
  <1>3. CASE CheckoutRefused(w)
    <2>1. /\ \A v \in Workers \ {w} : worker'[v] = worker[v]
          /\ worker'[w].step = "ENDING" /\ worker'[w].acquired = Null
          /\ worker'[w].verdict # "SUCCEED"
      BY <1>3, RefusedEffect, NullValues
    <2>. QED BY <1>1, <2>1 DEF Quiet, Holding, After, Succeeds
  <1>4. CASE AttachRead(w) \/ AttachSave(w) \/ Operates(w)
    <2>1. /\ \A v \in Workers \ {w} : worker'[v] = worker[v]
          /\ worker'[w].run = worker[w].run /\ worker'[w].acquired = worker[w].acquired
          /\ worker[w].step \in Holding /\ worker'[w].step \in Holding
      BY <1>4, AttachReadEffect, AttachSaveEffect, OperateEffect DEF Holding
    <2>. QED BY <1>1, <2>1 DEF Quiet
  <1>5. CASE Apply(w)
    <2>1. /\ \A v \in Workers \ {w} : worker'[v] = worker[v]
          /\ worker'[w].run = worker[w].run /\ worker'[w].acquired = worker[w].acquired
          /\ worker[w].step = "APPLYING" /\ worker'[w].step = "ENDING"
      BY <1>5, ApplyEffect
    <2>. QED BY <1>1, <2>1 DEF Quiet, After, Succeeds
  <1>6. CASE EndRead(w)
    <2>1. CASE worker'[w].step = "SAVING"
      <3>1. /\ \A v \in Workers \ {w} : worker'[v] = worker[v]
            /\ worker'[w].run = worker[w].run /\ worker'[w].acquired = worker[w].acquired
            /\ worker[w].step = "ENDING" /\ worker'[w].verdict = worker[w].verdict
        BY <1>6, <2>1, EndReadEffect
      <3>. QED BY <1>1, <2>1, <3>1 DEF Quiet, After, Succeeds
    <2>2. CASE worker'[w].step # "SAVING"
      <3>1. /\ \A v \in Workers \ {w} : worker'[v] = worker[v]
            /\ worker'[w].step \in {"IDLE", "EXITED"}
        BY <1>6, <2>2, EndReadEffect
      <3>. QED BY <1>1, <3>1 DEF Quiet, Holding, After
    <2>. QED BY <2>1, <2>2
  <1>7. CASE Interrupt(w)
    <2>1. /\ \A v \in Workers \ {w} : worker'[v] = worker[v]
          /\ worker'[w].run = worker[w].run /\ worker'[w].acquired = worker[w].acquired
          /\ worker'[w].step = worker[w].step /\ worker'[w].verdict = worker[w].verdict
      BY <1>7, InterruptEffect
    <2>. QED BY <1>1, <2>1 DEF Quiet, Succeeds
  <1>. QED BY <1>2, <1>3, <1>4, <1>5, <1>6, <1>7

LEMMA CheckoutLease ==
    ASSUME TypeInv, LeaseInv, NEW w \in Workers, NEW l \in Leases, Checkout(w, l)
    PROVE  LeaseInv'
  <1>1. /\ worker[w].run \in Runs /\ worker'[w].run = worker[w].run
        /\ \A v \in Workers \ {w} : worker'[v] = worker[v]
    BY CheckoutEffect
  <1>2. PICK p \in Profiles :
           /\ Lock!Acquire(p, l)
           /\ \/ worker'[w].step = "LEASED" /\ worker'[w].acquired = <<p, l>>
              \/ /\ worker'[w].step = "ENDING" /\ worker'[w].acquired = Null
                 /\ worker'[w].verdict = "CHECKOUT_FAILED"
    BY CheckoutEffect
  <1>3. /\ \A m \in Leases : <<p, m>> \notin held
        /\ \A q \in Profiles : <<q, l>> \notin held
        /\ l \notin closed /\ held' = held \cup {<<p, l>>} /\ closed' = closed
    BY <1>2 DEF Lock!Acquire
  <1>4. /\ grantee'[l] = worker[w].run /\ released' = released
        /\ \A m \in Leases \ {l} : grantee'[m] = grantee[m]
    BY DEF Checkout, TypeInv, Outer
  <1>5. \A q \in Profiles, m \in Leases :
           <<q, m>> \in held' <=> <<q, m>> \in held \/ (q = p /\ m = l)
    BY <1>3
  <1>6. released[l] = 0
    BY <1>3 DEF LeaseInv, LeaseTable
  <1>7. LeaseTable'
    <2>1. \A q \in Profiles, m \in Leases : <<q, m>> \in held' => m \notin closed'
      BY <1>3, <1>5 DEF LeaseInv, LeaseTable
    <2>2. \A q1 \in Profiles, q2 \in Profiles, m1 \in Leases, m2 \in Leases :
             <<q1, m1>> \in held' /\ <<q2, m2>> \in held' => (q1 = q2 <=> m1 = m2)
      BY <1>3, <1>5 DEF LeaseInv, LeaseTable
    <2>3. \A m \in Leases : grantee'[m] # Null =>
             m \in closed' \/ \E q \in Profiles : <<q, m>> \in held'
      BY <1>3, <1>4, <1>5 DEF LeaseInv, LeaseTable
    <2>4. \A m \in Leases :
             m \notin closed' /\ (\A q \in Profiles : <<q, m>> \notin held')
             => released'[m] = 0
      BY <1>3, <1>4, <1>5 DEF LeaseInv, LeaseTable
    <2>5. \A m \in Leases : released'[m] <= 1
      BY <1>4 DEF LeaseInv, LeaseTable
    <2>. QED BY <2>1, <2>2, <2>3, <2>4, <2>5 DEF LeaseTable
  <1>8. \A v \in Workers \ {w} : worker[v].step \in Holding =>
           worker[v].acquired \in held /\ worker[v].acquired[2] # l
    <2>. SUFFICES ASSUME NEW v \in Workers \ {w}, worker[v].step \in Holding
                  PROVE  worker[v].acquired \in held /\ worker[v].acquired[2] # l
      OBVIOUS
    <2>1. worker[v].acquired \in held
      BY DEF LeaseInv, HolderInv
    <2>2. PICK q \in Profiles, m \in Leases :
             worker[v].acquired = <<q, m>> /\ worker[v].acquired[2] = m
      BY Pairs
    <2>. QED BY <1>3, <2>1, <2>2
  <1>9. Apart'
    <2>1. <<p, l>> \notin held
      BY <1>3
    <2>2. worker'[w].step \in Holding => worker'[w].acquired = <<p, l>>
      BY <1>2 DEF Holding
    <2>. QED BY <1>1, <1>8, <2>1, <2>2 DEF LeaseInv, Apart
  <1>10. \A v \in Workers : HolderInv(v)'
    <2>1. ASSUME NEW v \in Workers \ {w} PROVE HolderInv(v)'
      <3>1. worker[v].step \in Holding => worker[v].acquired[2] \in Leases
        BY Pairs
      <3>. QED BY <1>1, <1>3, <1>4, <1>8, <3>1 DEF LeaseInv, HolderInv
    <2>2. HolderInv(w)'
      <3>1. worker'[w].step \in Holding =>
               worker'[w].acquired = <<p, l>> /\ worker'[w].acquired[2] = l
        BY <1>2 DEF Holding
      <3>. QED BY <1>1, <1>3, <1>4, <1>6, <3>1 DEF HolderInv
    <2>. QED BY <2>1, <2>2
  <1>11. \A v \in Workers : DoneInv(v)'
    <2>1. DoneInv(w)'
      BY <1>2 DEF DoneInv, After
    <2>. QED BY <1>1, <1>4, <2>1 DEF LeaseInv, DoneInv
  <1>12. \A v \in Workers : EarnedInv(v)'
    <2>1. ~Succeeds(worker'[w])
      BY <1>2 DEF Succeeds, After
    <2>2. ASSUME NEW v \in Workers \ {w} PROVE EarnedInv(v)'
      <3>1. worker[v].acquired # Null => worker[v].acquired[2] \in Leases
        BY Pairs
      <3>. QED BY <1>1, <1>3, <1>4, <3>1 DEF LeaseInv, EarnedInv
    <2>. QED BY <2>1, <2>2 DEF EarnedInv
  <1>. QED BY <1>7, <1>9, <1>10, <1>11, <1>12 DEF LeaseInv

LEMMA ReleaseLease ==
    ASSUME TypeInv, LeaseInv, NEW w \in Workers, Release(w)
    PROVE  LeaseInv'
  <1>1. /\ \A v \in Workers \ {w} : worker'[v] = worker[v]
        /\ worker[w].step = "RELEASING" /\ worker'[w].step \in {"APPLYING", "ENDING"}
        /\ worker'[w].run = worker[w].run /\ worker'[w].acquired = worker[w].acquired
    BY ReleaseEffect
  <1>2. worker[w].step \in Holding /\ worker'[w].step \notin Holding
    BY <1>1 DEF Holding
  <1>3. PICK p \in Profiles, l \in Leases :
           /\ worker[w].acquired = <<p, l>>
           /\ worker[w].acquired[1] = p /\ worker[w].acquired[2] = l
    BY <1>2, Pairs
  <1>4. <<p, l>> \in held /\ released[l] = 0 /\ grantee[l] = worker[w].run
    BY <1>2, <1>3 DEF LeaseInv, HolderInv
  <1>5. /\ grantee' = grantee /\ released'[l] = 1
        /\ \A m \in Leases \ {l} : released'[m] = released[m]
    <2>1. released' = [released EXCEPT ![l] = @ + 1] /\ grantee' = grantee
      BY <1>3 DEF Release
    <2>. QED BY <1>4, <2>1 DEF TypeInv, Outer
  <1>6. \/ held' = held \ {<<p, l>>} /\ closed' = closed \cup {l}
        \/ held' = held /\ closed' = closed
    BY <1>3, ReleaseEffect DEF Lock!Release
  <1>7. \A q \in Profiles, m \in Leases :
           <<q, m>> \in held => \/ <<q, m>> \in held' \/ (q = p /\ m = l /\ l \in closed')
    BY <1>6
  <1>8. held' \subseteq held /\ closed \subseteq closed' /\ closed' \subseteq closed \cup {l}
    BY <1>6
  <1>9. LeaseTable'
    <2>1. \A q \in Profiles, m \in Leases : <<q, m>> \in held' => m \notin closed'
      BY <1>4, <1>6 DEF LeaseInv, LeaseTable
    <2>2. \A q1 \in Profiles, q2 \in Profiles, m1 \in Leases, m2 \in Leases :
             <<q1, m1>> \in held' /\ <<q2, m2>> \in held' => (q1 = q2 <=> m1 = m2)
      BY <1>8 DEF LeaseInv, LeaseTable
    <2>3. \A m \in Leases : grantee'[m] # Null =>
             m \in closed' \/ \E q \in Profiles : <<q, m>> \in held'
      BY <1>5, <1>7, <1>8 DEF LeaseInv, LeaseTable
    <2>4. \A m \in Leases :
             m \notin closed' /\ (\A q \in Profiles : <<q, m>> \notin held')
             => released'[m] = 0
      BY <1>4, <1>5, <1>7, <1>8 DEF LeaseInv, LeaseTable
    <2>5. \A m \in Leases : released'[m] <= 1
      BY <1>5 DEF LeaseInv, LeaseTable
    <2>. QED BY <2>1, <2>2, <2>3, <2>4, <2>5 DEF LeaseTable
  <1>10. Apart'
    BY <1>1, <1>2 DEF LeaseInv, Apart
  <1>11. \A v \in Workers : HolderInv(v)'
    <2>1. ASSUME NEW v \in Workers \ {w}, worker[v].step \in Holding
          PROVE  HolderInv(v)'
      <3>1. PICK q \in Profiles, m \in Leases :
               worker[v].acquired = <<q, m>> /\ worker[v].acquired[2] = m
        BY <2>1, Pairs
      <3>2. <<q, m>> \in held /\ <<q, m>> # <<p, l>>
        BY <1>2, <1>3, <2>1, <3>1 DEF LeaseInv, HolderInv, Apart
      <3>3. m # l
        BY <1>4, <3>2 DEF LeaseInv, LeaseTable
      <3>4. <<q, m>> \in held'
        BY <1>7, <3>2, <3>3
      <3>. QED BY <1>1, <1>5, <2>1, <3>1, <3>3, <3>4 DEF LeaseInv, HolderInv
    <2>2. ASSUME NEW v \in Workers \ {w}, worker[v].step \notin Holding
          PROVE  HolderInv(v)'
      BY <1>1, <2>2 DEF HolderInv
    <2>3. HolderInv(w)'
      BY <1>2 DEF HolderInv
    <2>. QED BY <2>1, <2>2, <2>3
  <1>12. \A v \in Workers : DoneInv(v)'
    <2>1. ASSUME NEW v \in Workers \ {w} PROVE DoneInv(v)'
      <3>1. worker[v].acquired # Null => worker[v].acquired[2] \in Leases
        BY Pairs
      <3>. QED BY <1>1, <1>4, <1>5, <3>1 DEF LeaseInv, DoneInv
    <2>2. DoneInv(w)'
      BY <1>1, <1>3, <1>5 DEF DoneInv
    <2>. QED BY <2>1, <2>2
  <1>13. \A v \in Workers : EarnedInv(v)'
    <2>1. ASSUME NEW v \in Workers \ {w} PROVE EarnedInv(v)'
      BY <1>1, <1>5, <1>8 DEF LeaseInv, EarnedInv
    <2>2. EarnedInv(w)'
      <3>1. Succeeds(worker'[w]) => Lock!Release(p, l)
        BY <1>3, ReleaseEffect DEF Succeeds
      <3>2. Lock!Release(p, l) => l \in closed'
        BY DEF Lock!Release
      <3>. QED BY <1>1, <1>3, <1>4, <1>5, <3>1, <3>2, NullValues DEF EarnedInv
    <2>. QED BY <2>1, <2>2
  <1>. QED BY <1>9, <1>10, <1>11, <1>12, <1>13 DEF LeaseInv

\* Each lease is held by at most one process, which took it for its run; it is
\* released at most once, and a run ends well only after its lease was.
THEOREM LeaseSafe == Spec => []LeaseInv
  <1>1. Init => LeaseInv
    <2>. SUFFICES ASSUME Init PROVE LeaseInv
      OBVIOUS
    <2>1. \A w \in Workers : worker[w].step = "IDLE"
      BY DEF Init, IdleWorker
    <2>2. \A w \in Workers : worker[w].step \notin Holding /\ worker[w].step \notin After
      BY <2>1 DEF Holding, After
    <2>3. \A w \in Workers : ~Succeeds(worker[w])
      BY <2>1, <2>2 DEF Succeeds
    <2>4. LeaseTable
      BY DEF Init, Lock!Init, LeaseTable
    <2>. QED BY <2>2, <2>3, <2>4 DEF LeaseInv, Apart, HolderInv, DoneInv, EarnedInv
  <1>2. TypeInv /\ LeaseInv /\ [Next]_vars => LeaseInv'
    <2>. SUFFICES ASSUME TypeInv, LeaseInv, [Next]_vars PROVE LeaseInv'
      OBVIOUS
    <2>1. CASE Api \/ UNCHANGED vars
      <3>1. UNCHANGED worker /\ UNCHANGED leaseVars
        BY <2>1 DEF Api, Request, BeginCancel, CommitCancel, vars, leaseVars
      <3>. QED BY <3>1 DEF leaseVars, LeaseInv, LeaseTable, Apart, HolderInv, DoneInv,
                           EarnedInv
    <2>2. ASSUME NEW w \in Workers, WorkerStep(w) \/ Operate(w)
          PROVE  LeaseInv'
      BY <2>2, QuietSteps, QuietStep, CheckoutLease, ReleaseLease
         DEF WorkerStep, Operate, Operates, Leaves
    <2>. QED BY <2>1, <2>2 DEF Next
  <1>. QED BY <1>1, <1>2, TypeSafe, PTL DEF Spec

\* The lease of a process is released exactly once before its run ends.
THEOREM Released == Spec => []ReleasedOnce
  <1>1. LeaseInv => ReleasedOnce
    BY DEF LeaseInv, LeaseTable, DoneInv, After, ReleasedOnce
  <1>. QED BY <1>1, LeaseSafe, PTL

-----------------------------------------------------------------------------
(* The profile a process operates *)

\* An exercise leases the profile of its run; who browses is with its profile.
RightInv(w) ==
    \/ Serves(w) = "EXERCISE" /\ worker[w].step \in Holding
    \/ Serves(w) # "GROUP" /\ worker[w].step \in Browsing
    => worker[w].acquired[1] = run[worker[w].run].profile

LEMMA SeenProfile ==
    ASSUME TypeInv, NEW w \in Workers, worker[w].step \in {"READY"} \cup Holding
    PROVE  /\ worker[w].run \in Runs /\ run[worker[w].run].status # "ABSENT"
           /\ worker[w].seen.profile = run[worker[w].run].profile
  <1>1. worker[w] \in Worker /\ Coherent(w, worker[w]) /\ Attached(w, worker[w], run)
    BY DEF TypeInv, Processes
  <1>2. worker[w].seen # Null /\ worker[w].run # Null
    BY <1>1 DEF Coherent
  <1>. QED BY <1>1, <1>2 DEF Worker, Attached

LEMMA RightKept ==
    ASSUME TypeInv, Kept, NEW w \in Workers, RightInv(w),
           \/ worker'[w].step \notin Holding
           \/ /\ worker'[w].run = worker[w].run /\ worker'[w].acquired = worker[w].acquired
              /\ worker[w].step \in Holding
              /\ worker'[w].step \in Browsing => worker[w].step \in Browsing \/ ~Misled(w)
           \/ /\ worker'[w].step = "LEASED" /\ worker[w].step = "READY"
              /\ worker'[w].run = worker[w].run
              /\ Serves(w) = "EXERCISE" => worker'[w].acquired[1] = worker[w].seen.profile
    PROVE  RightInv(w)'
  <1>1. Serves(w) \in {"GROUP", "EXERCISE", "ACCESS"}
    BY ServedKinds, LeasedRunsKinds
  <1>2. Browsing \subseteq Holding /\ "LEASED" \notin Browsing
    BY DEF Browsing, Holding
  <1>3. CASE worker'[w].step \notin Holding
    BY <1>2, <1>3 DEF RightInv, Serves
  <1>4. CASE /\ worker'[w].run = worker[w].run /\ worker'[w].acquired = worker[w].acquired
             /\ worker[w].step \in Holding
             /\ worker'[w].step \in Browsing => worker[w].step \in Browsing \/ ~Misled(w)
    <2>1. /\ run'[worker[w].run].profile = run[worker[w].run].profile
          /\ worker[w].seen.profile = run[worker[w].run].profile
      BY <1>4, SeenProfile DEF Kept
    <2>2. CASE worker'[w].step \in Browsing /\ worker[w].step \notin Browsing
      <3>1. Serves(w) = "ACCESS" => worker[w].acquired[1] = run[worker[w].run].profile
        BY <1>4, <2>1, <2>2 DEF Misled, Right
      <3>. QED BY <1>1, <1>4, <2>1, <2>2, <3>1 DEF RightInv, Serves
    <2>3. CASE worker'[w].step \notin Browsing \/ worker[w].step \in Browsing
      BY <1>4, <2>1, <2>3 DEF RightInv, Serves
    <2>. QED BY <2>2, <2>3
  <1>5. CASE /\ worker'[w].step = "LEASED" /\ worker[w].step = "READY"
             /\ worker'[w].run = worker[w].run
             /\ Serves(w) = "EXERCISE" => worker'[w].acquired[1] = worker[w].seen.profile
    <2>1. /\ run'[worker[w].run].profile = run[worker[w].run].profile
          /\ worker[w].seen.profile = run[worker[w].run].profile
      BY <1>5, SeenProfile DEF Kept
    <2>. QED BY <1>2, <1>5, <2>1 DEF RightInv, Serves
  <1>. QED BY <1>3, <1>4, <1>5

\* What a process does not do leaves its lease and its profile alone.
LEMMA RightOthers ==
    ASSUME TypeInv, Kept, NEW w \in Workers, RightInv(w), worker'[w] = worker[w]
    PROVE  RightInv(w)'
  BY RightKept

LEMMA RightStep ==
    ASSUME TypeInv, NEW w \in Workers, RightInv(w), WorkerStep(w) \/ Operate(w)
    PROVE  RightInv(w)' /\ Kept /\ \A v \in Workers \ {w} : worker'[v] = worker[v]
  <1>1. CASE \/ Load(w) \/ ToolRead(w) \/ ToolStart(w) \/ EndSave(w) \/ Leaves(w)
             \/ CheckoutRefused(w) \/ Release(w) \/ Apply(w) \/ EndRead(w)
             \/ (\E r \in Runs : Claim(w, r))
             \/ (\E r \in Runs, p \in Profiles : ToolRequest(w, r, p))
    <2>1. /\ Kept /\ \A v \in Workers \ {w} : worker'[v] = worker[v]
          /\ worker'[w].step \in {"IDLE", "EXITED", "REQUESTED", "STARTING", "CLAIMED",
                                  "READY", "ENDING", "APPLYING", "SAVING"}
      BY <1>1, LoadEffect, ToolReadEffect, LeaveEffect, ToolStartEffect, EndSaveEffect,
         ClaimEffect, ToolRequestEffect, RefusedEffect, ReleaseEffect, ApplyEffect,
         EndReadEffect
    <2>2. worker'[w].step \notin Holding
      BY <2>1 DEF Holding
    <2>. QED BY <2>1, <2>2, RightKept
  <1>2. CASE AttachRead(w) \/ AttachSave(w) \/ Operates(w)
    <2>1. /\ Kept /\ \A v \in Workers \ {w} : worker'[v] = worker[v]
          /\ worker'[w].run = worker[w].run /\ worker'[w].acquired = worker[w].acquired
          /\ worker[w].step \in Holding
          /\ worker'[w].step \in Browsing => worker[w].step \in Browsing \/ ~Misled(w)
      BY <1>2, AttachReadEffect, AttachSaveEffect, OperateEffect DEF Holding, Browsing
    <2>. QED BY <2>1, RightKept
  <1>3. CASE Interrupt(w)
    <2>1. /\ Kept /\ \A v \in Workers \ {w} : worker'[v] = worker[v]
          /\ worker'[w].run = worker[w].run /\ worker'[w].acquired = worker[w].acquired
          /\ worker'[w].step = worker[w].step
      BY <1>3, InterruptEffect
    <2>. QED BY <2>1, RightKept
  <1>4. ASSUME NEW l \in Leases, Checkout(w, l)
        PROVE  RightInv(w)' /\ Kept /\ \A v \in Workers \ {w} : worker'[v] = worker[v]
    <2>1. PICK p \in Profiles :
             /\ Serves(w) = "EXERCISE" => p = worker[w].seen.profile
             /\ \/ worker'[w].step = "LEASED" /\ worker'[w].acquired = <<p, l>>
                \/ worker'[w].step = "ENDING"
      BY <1>4, CheckoutEffect
    <2>2. /\ Kept /\ \A v \in Workers \ {w} : worker'[v] = worker[v]
          /\ worker'[w].run = worker[w].run /\ worker[w].step = "READY"
      BY <1>4, CheckoutEffect
    <2>3. CASE worker'[w].step = "LEASED" /\ worker'[w].acquired = <<p, l>>
      BY <2>1, <2>2, <2>3, RightKept
    <2>4. CASE worker'[w].step = "ENDING"
      BY <2>2, <2>4, RightKept DEF Holding
    <2>. QED BY <2>1, <2>3, <2>4
  <1>. QED BY <1>1, <1>2, <1>3, <1>4 DEF WorkerStep, Operate, Operates, Leaves

\* Whoever browses does so under a lease of the profile that its run is about.
THEOREM RightSafe == Spec => [](\A w \in Workers : RightInv(w))
  <1>. DEFINE Inv == \A w \in Workers : RightInv(w)
  <1>1. Init => Inv
    BY DEF Init, IdleWorker, RightInv, Holding, Browsing
  <1>2. TypeInv /\ Inv /\ [Next]_vars => Inv'
    <2>. SUFFICES ASSUME TypeInv, Inv, [Next]_vars PROVE Inv'
      OBVIOUS
    <2>1. CASE Api \/ UNCHANGED vars
      <3>1. Kept /\ worker' = worker
        <4>1. CASE \E o \in Operators, r \in Runs : BeginCancel(o, r)
          BY <4>1 DEF BeginCancel, Kept
        <4>2. CASE UNCHANGED vars
          BY <4>2 DEF vars, Kept
        <4>3. CASE \/ \E r \in Runs, kind \in Kinds, p \in Profiles : Request(r, kind, p)
                   \/ \E o \in Operators : CommitCancel(o)
          <5>1. Kept
            BY <4>3, RequestEffect, CommitCancelEffect
          <5>2. worker' = worker
            BY <4>3 DEF Request, CommitCancel
          <5>. QED BY <5>1, <5>2
        <4>. QED BY <2>1, <4>1, <4>2, <4>3 DEF Api
      <3>. QED BY <3>1, RightOthers
    <2>2. ASSUME NEW w \in Workers, WorkerStep(w) \/ Operate(w)
          PROVE  Inv'
      <3>1. RightInv(w)' /\ Kept /\ \A v \in Workers \ {w} : worker'[v] = worker[v]
        BY <2>2, RightStep
      <3>2. ASSUME NEW v \in Workers \ {w} PROVE RightInv(v)'
        BY <3>1, RightOthers
      <3>. QED BY <3>1, <3>2
    <2>. QED BY <2>1, <2>2 DEF Next
  <1>. QED BY <1>1, <1>2, TypeSafe, PTL DEF Spec

\* No two processes of any kind browse with the same profile, each holds the lock
\* of the one it operates, and that is the profile of its run.
THEOREM Exclusive == Spec => []BrowsesUnderLease
  <1>1. TypeInv /\ LeaseInv /\ (\A w \in Workers : RightInv(w)) => BrowsesUnderLease
    <2>. SUFFICES ASSUME TypeInv, LeaseInv, \A w \in Workers : RightInv(w),
                         NEW w \in Workers, worker[w].step \in Browsing
                  PROVE  /\ worker[w].acquired \in held
                         /\ Serves(w) # "GROUP" => Right(w)
                         /\ \A v \in Workers \ {w} : worker[v].step \in Browsing
                               => worker[v].acquired[1] # worker[w].acquired[1]
      BY DEF BrowsesUnderLease
    <2>1. Browsing \subseteq Holding
      BY DEF Browsing, Holding
    <2>2. worker[w].acquired \in held
      BY <2>1 DEF LeaseInv, HolderInv
    <2>3. Serves(w) # "GROUP" => Right(w)
      BY <2>1, SeenProfile DEF RightInv, Right
    <2>4. ASSUME NEW v \in Workers \ {w}, worker[v].step \in Browsing,
                 worker[v].acquired[1] = worker[w].acquired[1]
          PROVE  FALSE
      <3>1. PICK p \in Profiles, l \in Leases :
               worker[w].acquired = <<p, l>> /\ worker[w].acquired[1] = p
        BY <2>1, Pairs
      <3>2. PICK q \in Profiles, m \in Leases :
               worker[v].acquired = <<q, m>> /\ worker[v].acquired[1] = q
        BY <2>1, <2>4, Pairs
      <3>3. <<p, l>> \in held /\ <<q, m>> \in held /\ p = q
        BY <2>1, <2>4, <3>1, <3>2 DEF LeaseInv, HolderInv
      <3>4. l = m
        BY <3>3 DEF LeaseInv, LeaseTable
      <3>. QED BY <2>1, <2>4, <3>1, <3>2, <3>3, <3>4 DEF LeaseInv, Apart
    <2>. QED BY <2>2, <2>3, <2>4
  <1>. QED BY <1>1, TypeSafe, LeaseSafe, RightSafe, PTL

-----------------------------------------------------------------------------
(* What the rows say of the leases *)

Honest(r, row, given) == row.lease # Null => given[row.lease] = r
Earned(r, given, gone) == \E l \in gone : given[l] = r

\* The rows, and those the processes have seen, show a lease of their run only.
RowInv ==
    /\ \A r \in Runs : Honest(r, run[r], grantee)
    /\ \A r \in Runs : run[r].status = "SUCCEEDED" => Earned(r, grantee, closed)
    /\ \A w \in Workers :
          worker[w].seen # Null => Honest(worker[w].run, worker[w].seen, grantee)

\* What was granted stays granted, what was closed stays closed.
HistoryKept ==
    /\ closed \subseteq closed'
    /\ \A l \in Leases : grantee[l] # Null => grantee'[l] = grantee[l]

LEMMA RowStep ==
    ASSUME TypeInv, RowInv, HistoryKept,
           \A r \in Runs :
              \/ run'[r] = run[r]
              \/ /\ Honest(r, run'[r], grantee')
                 /\ run'[r].status = "SUCCEEDED" => Earned(r, grantee', closed'),
           \A w \in Workers :
              \/ worker'[w].seen = Null
              \/ worker'[w].seen = worker[w].seen /\ worker'[w].run = worker[w].run
              \/ worker'[w].run \in Runs /\ worker'[w].seen = run'[worker'[w].run]
    PROVE  RowInv'
  <1>1. \A r \in Runs : run[r] \in Run
    BY DEF TypeInv, Rows
  <1>2. \A r \in Runs, row \in Run : Honest(r, row, grantee) => Honest(r, row, grantee')
    BY NullValues DEF HistoryKept, Honest, Run
  <1>3. \A r \in Runs : Earned(r, grantee, closed) => Earned(r, grantee', closed')
    BY NullValues DEF HistoryKept, Earned, TypeInv, Outer
  <1>4. \A r \in Runs : Honest(r, run'[r], grantee')
    BY <1>1, <1>2 DEF RowInv
  <1>5. \A r \in Runs : run'[r].status = "SUCCEEDED" => Earned(r, grantee', closed')
    BY <1>3 DEF RowInv
  <1>6. ASSUME NEW w \in Workers, worker'[w].seen # Null
        PROVE  Honest(worker'[w].run, worker'[w].seen, grantee')
    <2>1. CASE worker'[w].seen = worker[w].seen /\ worker'[w].run = worker[w].run
      <3>1. worker[w].seen \in Run /\ worker[w].run \in Runs
        BY <1>6, <2>1 DEF TypeInv, Processes, Coherent, Worker
      <3>2. Honest(worker[w].run, worker[w].seen, grantee)
        BY <1>6, <2>1 DEF RowInv
      <3>. QED BY <1>2, <2>1, <3>1, <3>2
    <2>2. CASE worker'[w].run \in Runs /\ worker'[w].seen = run'[worker'[w].run]
      BY <1>4, <2>2
    <2>. QED BY <1>6, <2>1, <2>2
  <1>. QED BY <1>4, <1>5, <1>6 DEF RowInv, Honest, Earned

LEMMA HistorySame ==
    ASSUME UNCHANGED leaseVars
    PROVE  HistoryKept /\ grantee' = grantee /\ closed' = closed
  BY DEF leaseVars, HistoryKept

LEMMA HistoryGrows ==
    ASSUME TypeInv, LeaseInv, NEW w \in Workers,
           Release(w) \/ \E l \in Leases : Checkout(w, l)
    PROVE  HistoryKept
  <1>1. CASE Release(w)
    BY <1>1, ReleaseEffect DEF Release, Lock!Release, HistoryKept
  <1>2. ASSUME NEW l \in Leases, Checkout(w, l)
        PROVE  HistoryKept
    <2>1. PICK p \in Profiles : Lock!Acquire(p, l)
      BY <1>2, CheckoutEffect
    <2>2. grantee[l] = Null
      BY <2>1 DEF Lock!Acquire, LeaseInv, LeaseTable
    <2>3. grantee' = [grantee EXCEPT ![l] = worker[w].run]
      BY <1>2 DEF Checkout
    <2>. QED BY <2>1, <2>2, <2>3 DEF Lock!Acquire, HistoryKept, TypeInv, Outer
  <1>. QED BY <1>1, <1>2

\* A lease shown by a row, or by one that some process has read, was granted to that
\* run, and a run that succeeded had a lease that was closed.
THEOREM RowsSafe == Spec => []RowInv
  <1>1. Init => RowInv
    BY DEF Init, NoRun, IdleWorker, RowInv, Honest, Earned
  <1>2. TypeInv /\ LeaseInv /\ RowInv /\ [Next]_vars => RowInv'
    <2>. SUFFICES ASSUME TypeInv, LeaseInv, RowInv, [Next]_vars PROVE RowInv'
      OBVIOUS
    <2>1. CASE \/ \E r \in Runs, kind \in Kinds, p \in Profiles : Request(r, kind, p)
               \/ \E o \in Operators : CommitCancel(o)
      <3>1. worker' = worker /\ UNCHANGED leaseVars
        BY <2>1 DEF Request, CommitCancel
      <3>2. PICK r \in Runs :
               /\ \A q \in Runs \ {r} : run'[q] = run[q]
               /\ run'[r].status \in {"QUEUED", "CANCELED"} /\ run'[r].lease = Null
        BY <2>1, RequestEffect, CommitCancelEffect
      <3>. QED BY <3>1, <3>2, HistorySame, RowStep DEF Honest
    <2>2. CASE (\E o \in Operators, r \in Runs : BeginCancel(o, r)) \/ UNCHANGED vars
      <3>1. worker' = worker /\ run' = run /\ UNCHANGED leaseVars
        BY <2>2 DEF BeginCancel, vars, leaseVars
      <3>. QED BY <3>1, HistorySame, RowStep
    <2>3. ASSUME NEW w \in Workers, NEW r \in Runs, Claim(w, r)
          PROVE  RowInv'
      <3>1. UNCHANGED leaseVars
        BY <2>3 DEF Claim
      <3>2. Honest(r, run'[r], grantee')
        BY <2>3, <3>1, HistorySame, ClaimEffect DEF RowInv, Honest
      <3>3. \/ worker'[w].seen = Null
            \/ worker'[w].run \in Runs /\ worker'[w].seen = run'[worker'[w].run]
        BY <2>3, ClaimEffect
      <3>. QED BY <2>3, <3>1, <3>2, <3>3, HistorySame, ClaimEffect, RowStep
    <2>4. ASSUME NEW w \in Workers, NEW r \in Runs, NEW p \in Profiles, ToolRequest(w, r, p)
          PROVE  RowInv'
      <3>1. UNCHANGED leaseVars
        BY <2>4 DEF ToolRequest
      <3>2. Honest(r, run'[r], grantee')
        BY <2>4, ToolRequestEffect DEF Honest
      <3>. QED BY <2>4, <3>1, <3>2, HistorySame, ToolRequestEffect, RowStep
    <2>5. ASSUME NEW w \in Workers,
                 Load(w) \/ ToolRead(w) \/ AttachRead(w) \/ EndRead(w) \/ Leaves(w)
          PROVE  RowInv'
      <3>1. run' = run /\ UNCHANGED leaseVars
        BY <2>5 DEF Load, ToolRead, AttachRead, EndRead, Leaves, Exit, Crash, Restart
      <3>2. \A v \in Workers \ {w} : worker'[v] = worker[v]
        BY <2>5, LoadEffect, ToolReadEffect, AttachReadEffect, EndReadEffect, LeaveEffect
      <3>3. worker[w].run \in Runs \cup {Null} /\ Processes'
        BY <2>5, LoadEffect, ToolReadEffect, AttachReadEffect, EndReadEffect, LeaveEffect
           DEF TypeInv, Processes, Worker
      <3>4. \/ worker'[w].seen = Null
            \/ /\ worker'[w].run = worker[w].run
               /\ worker'[w].seen \in {worker[w].seen, run[worker[w].run]}
        <4>1. CASE ToolRead(w)
          <5>1. worker'[w].step # "STARTING" => worker'[w].run = Null
            BY <3>3, <4>1, ToolReadEffect DEF Processes, Coherent
          <5>. QED BY <4>1, <5>1, ToolReadEffect
        <4>2. CASE Load(w) \/ AttachRead(w) \/ EndRead(w) \/ Leaves(w)
          BY <4>2, LoadEffect, AttachReadEffect, EndReadEffect, LeaveEffect
        <4>. QED BY <2>5, <4>1, <4>2
      <3>5. worker'[w].seen # Null => worker'[w].run # Null
        BY <3>3 DEF Processes, Coherent
      <3>. QED BY <3>1, <3>2, <3>3, <3>4, <3>5, HistorySame, RowStep
    <2>6. ASSUME NEW w \in Workers,
                 CheckoutRefused(w) \/ Operates(w) \/ Interrupt(w) \/ Apply(w)
          PROVE  RowInv'
      <3>1. run' = run /\ UNCHANGED leaseVars
        BY <2>6 DEF CheckoutRefused, Operates, Launch, LaunchFails, BrowserFails,
                    BrowserDone, SubmitPayload, SubmittedAll, Interrupt, Apply
      <3>2. /\ \A v \in Workers \ {w} : worker'[v] = worker[v]
            /\ worker'[w].run = worker[w].run /\ worker'[w].seen = worker[w].seen
        BY <2>6, RefusedEffect, OperateEffect, InterruptEffect, ApplyEffect
      <3>. QED BY <3>1, <3>2, HistorySame, RowStep
    <2>7. ASSUME NEW w \in Workers, Release(w) \/ \E l \in Leases : Checkout(w, l)
          PROVE  RowInv'
      <3>1. run' = run
        BY <2>7 DEF Release, Checkout
      <3>2. /\ \A v \in Workers \ {w} : worker'[v] = worker[v]
            /\ worker'[w].run = worker[w].run /\ worker'[w].seen = worker[w].seen
        BY <2>7, ReleaseEffect, CheckoutEffect
      <3>. QED BY <2>7, <3>1, <3>2, HistoryGrows, RowStep
    <2>8. ASSUME NEW w \in Workers, ToolStart(w)
          PROVE  RowInv'
      <3>1. UNCHANGED leaseVars
        BY <2>8 DEF ToolStart
      <3>2. worker[w].seen # Null
        BY <2>8, ToolStartEffect, NullValues
      <3>3. Honest(worker[w].run, run'[worker[w].run], grantee')
        BY <2>8, <3>1, <3>2, HistorySame, ToolStartEffect DEF RowInv, Honest
      <3>. QED BY <2>8, <3>1, <3>3, HistorySame, ToolStartEffect, RowStep
    <2>9. ASSUME NEW w \in Workers, AttachSave(w)
          PROVE  RowInv'
      <3>1. UNCHANGED leaseVars
        BY <2>9 DEF AttachSave
      <3>2. grantee[worker[w].acquired[2]] = worker[w].run
        BY <2>9, AttachSaveEffect DEF LeaseInv, HolderInv, Holding
      <3>3. /\ Honest(worker[w].run, run'[worker[w].run], grantee')
            /\ run'[worker[w].run].status # "SUCCEEDED"
        BY <2>9, <3>1, <3>2, HistorySame, AttachSaveEffect DEF Honest, Active
      <3>. QED BY <2>9, <3>1, <3>3, HistorySame, AttachSaveEffect, RowStep
    <2>10. ASSUME NEW w \in Workers, EndSave(w)
           PROVE  RowInv'
      <3>1. UNCHANGED leaseVars
        BY <2>10 DEF EndSave
      <3>2. worker[w].seen # Null
        BY <2>10, EndSaveEffect, NullValues
      <3>3. Honest(worker[w].run, run'[worker[w].run], grantee')
        BY <2>10, <3>1, <3>2, HistorySame, EndSaveEffect DEF RowInv, Honest
      <3>4. worker[w].verdict = "SUCCEED" => Earned(worker[w].run, grantee, closed)
        BY <2>10, EndSaveEffect DEF LeaseInv, EarnedInv, Succeeds, After, Earned
      <3>. QED BY <2>10, <3>1, <3>3, <3>4, HistorySame, EndSaveEffect, RowStep
    <2>. QED BY <2>1, <2>2, <2>3, <2>4, <2>5, <2>6, <2>7, <2>8, <2>9, <2>10
             DEF Next, Api, WorkerStep, Operate, Operates, Leaves
  <1>. QED BY <1>1, <1>2, TypeSafe, LeaseSafe, PTL DEF Spec

\* However requests and executors overwrite each other's rows, a run is SUCCEEDED
\* only if a lease of its own was given back, and a row shows no other's lease.
THEOREM SuccessIsLeased == Spec => []SuccessHadLease
  <1>1. RowInv => SuccessHadLease
    BY DEF RowInv, Honest, Earned, SuccessHadLease
  <1>. QED BY <1>1, RowsSafe, PTL

-----------------------------------------------------------------------------
(* Rows that no save has overwritten *)

LostInv == lost \in [Runs -> Statuses \cup {Null}]

\* What a step does to the history of a run: it stays, or a save of a row that was
\* not the stored one keeps the status it overwrote.
Noted(r) ==
    IF Intact(r)' THEN Intact(r)
    ELSE lost'[r] = IF Intact(r) THEN run[r].status ELSE lost[r]

LEMMA RowStatus ==
    ASSUME TypeInv, NEW r \in Runs
    PROVE  run[r].status \in Statuses /\ run[r].status # Null
  BY LeasedRunsNull DEF TypeInv, Rows, Run

\* A save leaves the run intact only if it is based on the row that is stored.
LEMMA SaveNotes ==
    ASSUME TypeInv, LostInv, NEW r \in Runs, NEW row, NEW base, Save(r, row, run[r] = base)
    PROVE  /\ LostInv' /\ Noted(r) /\ \A q \in Runs \ {r} : lost'[q] = lost[q]
           /\ Intact(r)' => Intact(r) /\ run[r] = base
  BY RowStatus DEF LostInv, Save, Noted, Intact

LEMMA CancelNotes ==
    ASSUME TypeInv, LostInv, NEW r \in Runs, NEW row, Save(r, row, run[r].status = "QUEUED")
    PROVE  /\ LostInv' /\ Noted(r) /\ \A q \in Runs \ {r} : lost'[q] = lost[q]
           /\ Intact(r)' => Intact(r) /\ run[r].status = "QUEUED"
  BY RowStatus DEF LostInv, Save, Noted, Intact

\* What is known of the run that is saved: based is the condition under which the
\* row saved was the one stored.
SavedRun(r, based) ==
    /\ LostInv' /\ Noted(r) /\ \A q \in Runs \ {r} : lost'[q] = lost[q]
    /\ Intact(r)' => Intact(r) /\ based

\* The run a process saves, or a request cancels.
LEMMA SavedRuns ==
    ASSUME TypeInv, LostInv
    PROVE  /\ \A o \in Operators : CommitCancel(o) =>
                 \E r \in Runs : r = cancel[o] /\ SavedRun(r, run[r].status = "QUEUED")
           /\ \A w \in Workers : ToolStart(w) \/ AttachSave(w) \/ EndSave(w) =>
                 \E r \in Runs : r = worker[w].run /\ SavedRun(r, run[r] = worker[w].seen)
  <1>1. ASSUME NEW o \in Operators, CommitCancel(o)
        PROVE  \E r \in Runs : r = cancel[o] /\ SavedRun(r, run[r].status = "QUEUED")
    <2>1. PICK r \in Runs : r = cancel[o]
      BY <1>1 DEF CommitCancel, TypeInv, Cancels
    <2>2. Save(r, Canceled(run[r]), run[r].status = "QUEUED")
      BY <1>1, <2>1 DEF CommitCancel
    <2>3. SavedRun(r, run[r].status = "QUEUED")
      BY <2>2, CancelNotes DEF SavedRun
    <2>. QED BY <2>1, <2>3
  <1>2. ASSUME NEW w \in Workers, ToolStart(w) \/ AttachSave(w) \/ EndSave(w)
        PROVE  \E r \in Runs : r = worker[w].run /\ SavedRun(r, run[r] = worker[w].seen)
    <2>1. PICK r \in Runs : r = worker[w].run
      BY <1>2, ToolStartEffect, AttachSaveEffect, EndSaveEffect
    <2>2. PICK row : Save(r, row, run[r] = worker[w].seen)
      BY <1>2, <2>1 DEF ToolStart, AttachSave, EndSave
    <2>3. PICK seen : seen = worker[w].seen
      OBVIOUS
    <2>4. Save(r, row, run[r] = seen)
      BY <2>2, <2>3
    <2>5. SavedRun(r, run[r] = seen)
      BY <2>4, SaveNotes DEF SavedRun
    <2>. QED BY <2>1, <2>3, <2>5 DEF SavedRun
  <1>. QED BY <1>1, <1>2

\* Every other step leaves the history of the runs alone.
Quietly ==
    \/ \E r \in Runs, kind \in Kinds, p \in Profiles : Request(r, kind, p)
    \/ \E o \in Operators, r \in Runs : BeginCancel(o, r)
    \/ UNCHANGED vars
    \/ \E w \in Workers :
          \/ Load(w) \/ ToolRead(w) \/ CheckoutRefused(w) \/ AttachRead(w) \/ Operates(w)
          \/ Release(w) \/ Apply(w) \/ EndRead(w) \/ Interrupt(w) \/ Leaves(w)
          \/ \E r \in Runs : Claim(w, r)
          \/ \E r \in Runs, p \in Profiles : ToolRequest(w, r, p)
          \/ \E l \in Leases : Checkout(w, l)

LEMMA QuietlyNoted == Quietly => lost' = lost
  <1>1. Quietly => UNCHANGED lost
    BY DEF Quietly, Request, BeginCancel, vars, Load, ToolRead, CheckoutRefused, AttachRead,
           Operates, Launch, LaunchFails, BrowserFails, BrowserDone, SubmitPayload,
           SubmittedAll, Release, Apply, EndRead, Interrupt, Leaves, Exit, Crash, Restart,
           Claim, ToolRequest, Checkout, Update
  <1>. QED BY <1>1

LEMMA StepNotes ==
    ASSUME TypeInv, LostInv, [Next]_vars
    PROVE  LostInv' /\ \A r \in Runs : Noted(r)
  <1>1. CASE lost' = lost
    BY <1>1 DEF LostInv, Noted, Intact
  <1>2. ASSUME NEW r \in Runs, LostInv', Noted(r), \A q \in Runs \ {r} : lost'[q] = lost[q]
        PROVE  LostInv' /\ \A q \in Runs : Noted(q)
    BY <1>2 DEF Noted, Intact
  <1>3. \/ Quietly
        \/ \E o \in Operators : CommitCancel(o)
        \/ \E w \in Workers : ToolStart(w) \/ AttachSave(w) \/ EndSave(w)
    BY DEF Quietly, Next, Api, WorkerStep, Operate, Operates, Leaves
  <1>4. ASSUME NEW r \in Runs, NEW based, SavedRun(r, based)
        PROVE  LostInv' /\ \A q \in Runs : Noted(q)
    BY <1>2, <1>4 DEF SavedRun
  <1>. QED BY <1>1, <1>3, <1>4, QuietlyNoted, SavedRuns

\* Whoever overwrites a row, the history keeps a status of it.
THEOREM LostSafe == Spec => []LostInv
  <1>1. Init => LostInv
    BY DEF Init, LostInv
  <1>. QED BY <1>1, StepNotes, TypeSafe, PTL DEF Spec

\* Every reachable state of the run tables, of the processes and of the histories
\* is well typed, whatever stale rows are saved.
THEOREM Typing == Spec => []TypeOK
  <1>1. TypeInv /\ LostInv => TypeOK
    BY DEF TypeInv, Rows, Processes, Cancels, Outer, LostInv, TypeOK
  <1>. QED BY <1>1, TypeSafe, LostSafe, PTL

Owning == {"CLAIMED", "READY"} \cup Holding \cup After

\* Until a save overwrites it, the row of a run that a process executes stays
\* RUNNING and no other process executes it; the tool starts what it read as QUEUED.
OwnedInv ==
    /\ \A w \in Workers : worker[w].step \in Owning /\ Intact(worker[w].run)
                          => run[worker[w].run].status = "RUNNING"
    /\ \A w \in Workers, v \in Workers :
          /\ worker[w].step \in Owning /\ worker[v].step \in Owning
          /\ worker[w].run = worker[v].run /\ Intact(worker[w].run)
          => w = v
    /\ \A w \in Workers : worker[w].step = "STARTING" => worker[w].seen.status = "QUEUED"

LEMMA OwnedRuns ==
    ASSUME TypeInv, NEW w \in Workers
    PROVE  /\ worker[w].step \in Owning \cup {"STARTING", "REQUESTED"} =>
                 worker[w].run \in Runs /\ run[worker[w].run].status # "ABSENT"
           /\ worker[w].step \notin {"IDLE", "EXITED", "REQUESTED", "STARTING"}
              <=> worker[w].step \in Owning
  BY NullValues DEF TypeInv, Processes, Coherent, Attached, Worker, Owning, Holding, After

\* A step of a process that writes no row: it goes on with its run, or has none.
Reads(w) ==
    /\ run' = run /\ lost' = lost /\ \A v \in Workers \ {w} : worker'[v] = worker[v]
    /\ \/ worker'[w].step \in {"IDLE", "EXITED", "REQUESTED"}
       \/ /\ worker[w].step \in Owning /\ worker'[w].step \in Owning
          /\ worker'[w].run = worker[w].run
       \/ /\ worker'[w].step = worker[w].step /\ worker'[w].run = worker[w].run
          /\ worker'[w].seen = worker[w].seen
       \/ /\ worker[w].step = "REQUESTED" /\ worker'[w].step = "STARTING"
          /\ worker'[w].seen.status = "QUEUED"

LEMMA OwningSteps ==
    /\ {"IDLE", "EXITED", "REQUESTED", "STARTING"} \cap Owning = {}
    /\ {"ATTACHING", "SAVING"} \subseteq Owning
  BY DEF Owning, Holding, After

LEMMA ReadsOwned ==
    ASSUME OwnedInv, NEW w \in Workers, Reads(w)
    PROVE  OwnedInv'
  <1>1. /\ run' = run /\ lost' = lost
        /\ \A v \in Workers \ {w} : worker'[v] = worker[v]
    BY DEF Reads
  <1>2. worker'[w].step \in Owning =>
           worker[w].step \in Owning /\ worker'[w].run = worker[w].run
    BY OwningSteps DEF Reads
  <1>3. worker'[w].step = "STARTING" => worker'[w].seen.status = "QUEUED"
    BY OwningSteps DEF Reads, OwnedInv
  <1>. QED BY <1>1, <1>2, <1>3 DEF OwnedInv, Intact

\* The steps of a process that write no row.
LEMMA ReadSteps ==
    ASSUME TypeInv, NEW w \in Workers,
           \/ Load(w) \/ ToolRead(w) \/ CheckoutRefused(w) \/ AttachRead(w) \/ Operates(w)
           \/ Release(w) \/ Apply(w) \/ EndRead(w) \/ Interrupt(w) \/ Leaves(w)
           \/ \E l \in Leases : Checkout(w, l)
    PROVE  Reads(w)
  <1>1. run' = run /\ lost' = lost
    <2>1. Quietly
      BY DEF Quietly
    <2>2. run' = run
      BY DEF Load, CheckoutRefused, AttachRead, Operates, Launch, LaunchFails, BrowserFails,
             BrowserDone, SubmitPayload, SubmittedAll, Release, Apply, EndRead, Interrupt,
             Leaves, Exit, Crash, Restart, Checkout, ToolRead
    <2>. QED BY <2>1, <2>2, QuietlyNoted
  <1>2. CASE Load(w) \/ Leaves(w)
    <2>1. /\ \A v \in Workers \ {w} : worker'[v] = worker[v]
          /\ \/ worker'[w].step \in {"IDLE", "EXITED"}
             \/ Load(w) /\ worker'[w].step = "READY" /\ worker'[w].run = worker[w].run
      BY <1>2, LoadEffect, LeaveEffect
    <2>2. Load(w) => worker[w].step = "CLAIMED"
      BY DEF Load
    <2>. QED BY <1>1, <2>1, <2>2 DEF Reads, Owning
  <1>3. CASE CheckoutRefused(w) \/ Apply(w) \/ Operates(w) \/ Release(w)
             \/ \E l \in Leases : Checkout(w, l)
    <2>1. /\ \A v \in Workers \ {w} : worker'[v] = worker[v]
          /\ worker'[w].run = worker[w].run
          /\ worker[w].step \in {"READY"} \cup Holding \cup After
          /\ worker'[w].step \in {"LEASED", "BROWSING", "SUBMITTING", "RELEASING",
                                  "APPLYING", "ENDING"}
      BY <1>3, RefusedEffect, ApplyEffect, OperateEffect, ReleaseEffect, CheckoutEffect
         DEF Holding, After
    <2>2. worker[w].step \in Owning /\ worker'[w].step \in Owning
      BY <2>1 DEF Owning, Holding, After
    <2>. QED BY <1>1, <2>1, <2>2 DEF Reads
  <1>4. CASE AttachRead(w)
    <2>1. /\ \A v \in Workers \ {w} : worker'[v] = worker[v]
          /\ worker[w].step = "LEASED" /\ worker'[w].step \in {"ATTACHING", "RELEASING"}
          /\ worker'[w].run = worker[w].run
      BY <1>4, AttachReadEffect
    <2>. QED BY <1>1, <2>1 DEF Reads, Owning, Holding
  <1>5. CASE EndRead(w)
    <2>1. /\ \A v \in Workers \ {w} : worker'[v] = worker[v]
          /\ \/ worker'[w].step \in {"IDLE", "EXITED"}
             \/ /\ worker[w].step = "ENDING" /\ worker'[w].step = "SAVING"
                /\ worker'[w].run = worker[w].run
      BY <1>5, EndReadEffect
    <2>. QED BY <1>1, <2>1 DEF Reads, Owning, After
  <1>6. CASE Interrupt(w)
    BY <1>1, <1>6, InterruptEffect DEF Reads
  <1>7. CASE ToolRead(w)
    <2>1. /\ \A v \in Workers \ {w} : worker'[v] = worker[v]
          /\ worker'[w].step \in {"IDLE", "EXITED", "STARTING"}
          /\ worker'[w].step = "STARTING" => worker'[w].seen = run[worker[w].run]
      BY <1>7, ToolReadEffect
    <2>2. worker[w].step = "REQUESTED"
      BY <1>7 DEF ToolRead
    <2>3. worker'[w].step = "STARTING" => run[worker[w].run].status = "QUEUED"
      <3>1. Quit(w) => worker'[w].step # "STARTING"
        BY DEF Quit, Become, IdleWorker, TypeInv, Processes
      <3>. QED BY <1>7, <3>1 DEF ToolRead
    <2>. QED BY <1>1, <2>1, <2>2, <2>3 DEF Reads
  <1>. QED BY <1>2, <1>3, <1>4, <1>5, <1>6, <1>7

LEMMA QueuedOwned ==
    ASSUME TypeInv, OwnedInv, NEW r \in Runs, run[r].status = "ABSENT", lost' = lost,
           \A q \in Runs \ {r} : run'[q] = run[q],
           \A w \in Workers : \/ worker'[w] = worker[w]
                              \/ worker'[w].step = "REQUESTED"
    PROVE  OwnedInv'
  <1>1. \A w \in Workers : worker[w].step \in Owning =>
           /\ worker[w].run \in Runs \ {r} /\ run'[worker[w].run] = run[worker[w].run]
    BY OwnedRuns
  <1>2. \A w \in Workers : worker'[w].step \in Owning \cup {"STARTING"} =>
           worker'[w] = worker[w]
    BY OwningSteps
  <1>. QED BY <1>1, <1>2 DEF OwnedInv, Intact

\* The processes whose run is not the one written, and those whose run is intact.
LEMMA OwnersOfOthers ==
    ASSUME TypeInv, OwnedInv, NEW r \in Runs, NEW w \in Workers,
           \A q \in Runs \ {r} : run'[q] = run[q] /\ lost'[q] = lost[q],
           worker[w].step \in Owning, worker[w].run # r
    PROVE  /\ worker[w].run \in Runs
           /\ run'[worker[w].run] = run[worker[w].run]
           /\ lost'[worker[w].run] = lost[worker[w].run]
  BY OwnedRuns

LEMMA CancelOwned ==
    ASSUME TypeInv, LostInv, OwnedInv, NEW o \in Operators, CommitCancel(o)
    PROVE  OwnedInv'
  <1>1. PICK r \in Runs : r = cancel[o] /\ SavedRun(r, run[r].status = "QUEUED")
    BY SavedRuns
  <1>2. /\ lost'[r] = Null => lost[r] = Null /\ run[r].status = "QUEUED"
        /\ \A q \in Runs \ {r} : run'[q] = run[q] /\ lost'[q] = lost[q]
    BY <1>1, CommitCancelEffect DEF SavedRun, Intact
  <1>3. worker' = worker
    BY DEF CommitCancel
  <1>4. \A w \in Workers : worker[w].step \in Owning /\ lost'[worker[w].run] = Null =>
           /\ run'[worker[w].run] = run[worker[w].run] /\ lost[worker[w].run] = Null
    <2>. SUFFICES ASSUME NEW w \in Workers, worker[w].step \in Owning,
                         lost'[worker[w].run] = Null
                  PROVE  run'[worker[w].run] = run[worker[w].run] /\ lost[worker[w].run] = Null
      OBVIOUS
    <2>1. worker[w].run # r
      BY <1>2 DEF OwnedInv, Intact
    <2>. QED BY <1>2, <2>1, OwnersOfOthers
  <1>. QED BY <1>3, <1>4 DEF OwnedInv, Intact

\* A process takes a run: intact afterwards only if it was QUEUED and intact.
LEMMA TakenOwned ==
    ASSUME TypeInv, OwnedInv, NEW w \in Workers, NEW r \in Runs,
           run'[r].status = "RUNNING",
           lost'[r] = Null => lost[r] = Null /\ run[r].status = "QUEUED",
           \A q \in Runs \ {r} : run'[q] = run[q] /\ lost'[q] = lost[q],
           \A v \in Workers \ {w} : worker'[v] = worker[v],
           worker'[w].step \in {"CLAIMED", "READY"}, worker'[w].run = r
    PROVE  OwnedInv'
  <1>1. \A v \in Workers : worker[v].step \in Owning /\ lost'[worker[v].run] = Null =>
           /\ worker[v].run # r
           /\ run'[worker[v].run] = run[worker[v].run] /\ lost[worker[v].run] = Null
    <2>. SUFFICES ASSUME NEW v \in Workers, worker[v].step \in Owning,
                         lost'[worker[v].run] = Null
                  PROVE  /\ worker[v].run # r
                         /\ run'[worker[v].run] = run[worker[v].run]
                         /\ lost[worker[v].run] = Null
      OBVIOUS
    <2>1. worker[v].run # r
      BY DEF OwnedInv, Intact
    <2>. QED BY <2>1, OwnersOfOthers
  <1>2. worker'[w].step \in Owning /\ worker'[w].step # "STARTING"
    BY DEF Owning
  <1>. QED BY <1>1, <1>2 DEF OwnedInv, Intact

LEMMA ClaimOwned ==
    ASSUME TypeInv, OwnedInv, NEW w \in Workers, NEW r \in Runs, Claim(w, r)
    PROVE  OwnedInv'
  <1>1. lost' = lost
    BY QuietlyNoted DEF Quietly
  <1>. QED BY <1>1, ClaimEffect, TakenOwned DEF Intact

LEMMA ToolStartOwned ==
    ASSUME TypeInv, LostInv, OwnedInv, NEW w \in Workers, ToolStart(w)
    PROVE  OwnedInv'
  <1>1. worker[w].seen.status = "QUEUED"
    BY DEF ToolStart, OwnedInv
  <1>2. PICK r \in Runs : r = worker[w].run /\ SavedRun(r, run[r] = worker[w].seen)
    BY SavedRuns
  <1>3. /\ lost'[r] = Null => lost[r] = Null /\ run[r].status = "QUEUED"
        /\ \A q \in Runs \ {r} : lost'[q] = lost[q]
    BY <1>1, <1>2 DEF SavedRun, Intact
  <1>. QED BY <1>2, <1>3, ToolStartEffect, TakenOwned

\* A process writes the row of the run it executes and goes on, or ends the run.
LEMMA WrittenOwned ==
    ASSUME TypeInv, OwnedInv, NEW w \in Workers, worker[w].step \in Owning,
           NEW r \in Runs, r = worker[w].run, lost'[r] = Null => lost[r] = Null,
           \A q \in Runs \ {r} : run'[q] = run[q] /\ lost'[q] = lost[q],
           \A v \in Workers \ {w} : worker'[v] = worker[v],
           \/ worker'[w].step \in {"IDLE", "EXITED"}
           \/ /\ worker'[w].step \in {"ATTACHED", "RELEASING"} /\ worker'[w].run = r
              /\ lost'[r] = Null => run'[r].status = "RUNNING"
    PROVE  OwnedInv'
  <1>1. \A v \in Workers \ {w} : worker[v].step \in Owning /\ lost'[worker[v].run] = Null =>
           /\ worker[v].run # r
           /\ run'[worker[v].run] = run[worker[v].run] /\ lost[worker[v].run] = Null
    <2>. SUFFICES ASSUME NEW v \in Workers \ {w}, worker[v].step \in Owning,
                         lost'[worker[v].run] = Null
                  PROVE  /\ worker[v].run # r
                         /\ run'[worker[v].run] = run[worker[v].run]
                         /\ lost[worker[v].run] = Null
      OBVIOUS
    <2>1. worker[v].run # r
      BY DEF OwnedInv, Intact
    <2>. QED BY <2>1, OwnersOfOthers
  <1>2. worker'[w].step # "STARTING" /\ (worker'[w].step \in Owning =>
           worker'[w].run = r /\ (lost'[r] = Null => run'[r].status = "RUNNING"))
    BY OwningSteps
  <1>. QED BY <1>1, <1>2 DEF OwnedInv, Intact

\* An exercise keeps its run RUNNING when it attaches its lease.
LEMMA AttachSaveOwned ==
    ASSUME TypeInv, LostInv, OwnedInv, NEW w \in Workers, AttachSave(w)
    PROVE  OwnedInv' /\ \E r \in Runs :
              r = worker[w].run /\ (lost'[r] = Null => run'[r].status = "RUNNING")
  <1>1. worker[w].step \in Owning
    BY DEF AttachSave, Owning, Holding
  <1>2. PICK r \in Runs : r = worker[w].run /\ SavedRun(r, run[r] = worker[w].seen)
    BY SavedRuns
  <1>3. /\ lost'[r] = Null => lost[r] = Null /\ run[r] = worker[w].seen
        /\ \A q \in Runs \ {r} : lost'[q] = lost[q]
    BY <1>2 DEF SavedRun, Intact
  <1>4. lost'[r] = Null => worker[w].seen.status = "RUNNING"
    BY <1>1, <1>2, <1>3 DEF OwnedInv, Intact
  <1>5. lost'[r] = Null => run'[r].status = "RUNNING"
    BY <1>2, <1>4, AttachSaveEffect
  <1>. QED BY <1>1, <1>2, <1>3, <1>5, AttachSaveEffect, WrittenOwned

LEMMA EndSaveOwned ==
    ASSUME TypeInv, LostInv, OwnedInv, NEW w \in Workers, EndSave(w)
    PROVE  OwnedInv'
  <1>1. worker[w].step \in Owning
    BY EndSaveEffect DEF Owning, After
  <1>2. PICK r \in Runs : r = worker[w].run /\ SavedRun(r, run[r] = worker[w].seen)
    BY SavedRuns
  <1>3. /\ lost'[r] = Null => lost[r] = Null
        /\ \A q \in Runs \ {r} : lost'[q] = lost[q]
    BY <1>2 DEF SavedRun, Intact
  <1>. QED BY <1>1, <1>2, <1>3, EndSaveEffect, WrittenOwned

\* Until a save overwrites its row, a run is executed by one process at most and
\* its row is RUNNING as long as it is.
THEOREM OwnedSafe == Spec => []OwnedInv
  <1>1. Init => OwnedInv
    BY OwningSteps DEF Init, IdleWorker, OwnedInv
  <1>2. TypeInv /\ LostInv /\ OwnedInv /\ [Next]_vars => OwnedInv'
    <2>. SUFFICES ASSUME TypeInv, LostInv, OwnedInv, [Next]_vars PROVE OwnedInv'
      OBVIOUS
    <2>1. ASSUME NEW r \in Runs, NEW kind \in Kinds, NEW p \in Profiles, Request(r, kind, p)
          PROVE  OwnedInv'
      <3>1. worker' = worker /\ lost' = lost
        BY <2>1, QuietlyNoted DEF Request, Quietly
      <3>. QED BY <2>1, <3>1, RequestEffect, QueuedOwned
    <2>2. ASSUME NEW w \in Workers, NEW r \in Runs, NEW p \in Profiles, ToolRequest(w, r, p)
          PROVE  OwnedInv'
      <3>1. lost' = lost
        BY <2>2, QuietlyNoted DEF Quietly
      <3>. QED BY <2>2, <3>1, ToolRequestEffect, QueuedOwned
    <2>3. ASSUME NEW w \in Workers,
                 \/ Load(w) \/ ToolRead(w) \/ CheckoutRefused(w) \/ AttachRead(w)
                 \/ Operates(w) \/ Release(w) \/ Apply(w) \/ EndRead(w) \/ Interrupt(w)
                 \/ Leaves(w) \/ \E l \in Leases : Checkout(w, l)
          PROVE  OwnedInv'
      BY <2>3, ReadSteps, ReadsOwned
    <2>4. CASE UNCHANGED vars \/ \E o \in Operators, r \in Runs : BeginCancel(o, r)
      BY <2>4 DEF BeginCancel, vars, OwnedInv, Intact
    <2>. QED BY <2>1, <2>2, <2>3, <2>4, CancelOwned, ClaimOwned, ToolStartOwned,
                AttachSaveOwned, EndSaveOwned
             DEF Next, Api, WorkerStep, Operate, Operates, Leaves
  <1>. QED BY <1>1, <1>2, TypeSafe, LostSafe, PTL DEF Spec

-----------------------------------------------------------------------------
(* The run tables implement the run lifecycle *)

\* How a step may change the row of a run that stays intact.
RowCreated(r) ==
    /\ run[r].status = "ABSENT" /\ run'[r].status = "QUEUED"
    /\ run'[r].leaseReleased = Null

RowTaken(r) ==
    /\ run[r].status = "QUEUED" /\ run'[r].status \in {"CANCELED", "RUNNING"}
    /\ run'[r].leaseReleased \in {run[r].leaseReleased, Null}

RowAttached(r, w) ==
    /\ AttachSave(w) /\ worker[w].run = r
    /\ run[r].status = "RUNNING" /\ run'[r].status = "RUNNING"
    /\ run'[r].leaseReleased = run[r].leaseReleased
    /\ run'[r].lease = worker[w].acquired[2]

RowEnded(r, w) ==
    /\ EndSave(w) /\ worker[w].run = r /\ worker[w].seen = run[r]
    /\ run[r].status = "RUNNING" /\ run'[r].status \in {"SUCCEEDED", "FAILED"}
    /\ run'[r].leaseReleased \in {worker[w].leaseReleased, Null}
    /\ run'[r].lease = worker[w].seen.lease
    /\ run'[r].status = "SUCCEEDED" => worker[w].verdict = "SUCCEED"

RowNext(r) ==
    \/ run'[r] = run[r]
    \/ RowCreated(r)
    \/ RowTaken(r)
    \/ \E w \in Workers : RowAttached(r, w)
    \/ \E w \in Workers : RowEnded(r, w)

LEMMA EndingRuns ==
    ASSUME TypeInv, OwnedInv, NEW w \in Workers, EndSave(w),
           NEW r \in Runs, r = worker[w].run, lost[r] = Null, run[r] = worker[w].seen
    PROVE  RowEnded(r, w)
  <1>1. worker[w].step \in Owning
    BY EndSaveEffect DEF Owning, After
  <1>2. run[r].status = "RUNNING"
    BY <1>1 DEF OwnedInv, Intact
  <1>. QED BY <1>2, EndSaveEffect DEF RowEnded

\* The tables the steps of requests and processes leave alone.
LEMMA RowsKept ==
    ASSUME NEW w \in Workers,
           \/ Load(w) \/ ToolRead(w) \/ CheckoutRefused(w) \/ AttachRead(w) \/ Operates(w)
           \/ Release(w) \/ Apply(w) \/ EndRead(w) \/ Interrupt(w) \/ Leaves(w)
           \/ \E l \in Leases : Checkout(w, l)
    PROVE  run' = run
  BY DEF Load, CheckoutRefused, AttachRead, Operates, Launch, LaunchFails, BrowserFails,
         BrowserDone, SubmitPayload, SubmittedAll, Release, Apply, EndRead, Interrupt,
         Leaves, Exit, Crash, Restart, Checkout, ToolRead

LEMMA RowsChange ==
    ASSUME TypeInv, LostInv, OwnedInv, [Next]_vars, NEW r \in Runs, lost'[r] = Null
    PROVE  RowNext(r) /\ lost[r] = Null
  <1>0. lost[r] = Null
    BY StepNotes DEF Noted, Intact
  <1>1. ASSUME NEW q \in Runs, NEW kind \in Kinds, NEW p \in Profiles, Request(q, kind, p)
        PROVE  RowNext(r)
    BY <1>1, RequestEffect DEF RowNext, RowCreated
  <1>2. ASSUME NEW o \in Operators, CommitCancel(o)
        PROVE  RowNext(r)
    <2>1. cancel[o] = r => run[r].status = "QUEUED"
      BY <1>2, SavedRuns DEF SavedRun, Intact
    <2>. QED BY <1>2, <2>1, CommitCancelEffect DEF RowNext, RowTaken
  <1>3. ASSUME NEW w \in Workers, NEW q \in Runs, Claim(w, q)
        PROVE  RowNext(r)
    BY <1>3, ClaimEffect DEF RowNext, RowTaken
  <1>4. ASSUME NEW w \in Workers, NEW q \in Runs, NEW p \in Profiles, ToolRequest(w, q, p)
        PROVE  RowNext(r)
    BY <1>4, ToolRequestEffect DEF RowNext, RowCreated
  <1>5. ASSUME NEW w \in Workers, ToolStart(w) \/ AttachSave(w) \/ EndSave(w),
               worker[w].run = r
        PROVE  worker[w].seen = run[r]
    BY <1>5, SavedRuns DEF SavedRun, Intact
  <1>6. ASSUME NEW w \in Workers, ToolStart(w)
        PROVE  RowNext(r)
    <2>1. worker[w].seen.status = "QUEUED"
      BY <1>6 DEF ToolStart, OwnedInv
    <2>. QED BY <1>5, <1>6, <2>1, ToolStartEffect DEF RowNext, RowTaken
  <1>7. ASSUME NEW w \in Workers, AttachSave(w)
        PROVE  RowNext(r)
    <2>1. worker[w].step \in Owning
      BY <1>7 DEF AttachSave, Owning, Holding
    <2>2. worker[w].run = r => worker[w].seen = run[r] /\ run[r].status = "RUNNING"
      BY <1>0, <1>5, <1>7, <2>1 DEF OwnedInv, Intact
    <2>. QED BY <1>7, <2>2, AttachSaveEffect, AttachSaveOwned DEF RowNext, RowAttached
  <1>8. ASSUME NEW w \in Workers, EndSave(w)
        PROVE  RowNext(r)
    <2>1. CASE worker[w].run = r
      <3>1. RowEnded(r, w)
        BY <1>0, <1>5, <1>8, <2>1, EndingRuns
      <3>. QED BY <3>1 DEF RowNext
    <2>2. CASE worker[w].run # r
      <3>1. run'[r] = run[r]
        BY <1>8, <2>2, EndSaveEffect
      <3>. QED BY <3>1 DEF RowNext
    <2>. QED BY <2>1, <2>2
  <1>9. CASE run' = run
    <2>1. run'[r] = run[r]
      BY <1>9
    <2>. QED BY <1>0, <2>1 DEF RowNext
  <1>10. (\E o \in Operators, q \in Runs : BeginCancel(o, q)) \/ UNCHANGED vars => run' = run
    BY DEF BeginCancel, vars
  <1>. QED BY <1>0, <1>1, <1>2, <1>3, <1>4, <1>6, <1>7, <1>8, <1>9, <1>10, RowsKept
           DEF Next, Api, WorkerStep, Operate, Operates, Leaves

\* The status the lifecycle shows: the stored one, or the last before an overwriting.
LEMMA StatusChange ==
    ASSUME NEW r \in Runs, NEW status, \A q \in Runs : Noted(q),
           lost'[r] = Null, run'[r].status = status,
           \A q \in Runs \ {r} : run'[q].status = run[q].status
    PROVE  StatusOf' = [StatusOf EXCEPT ![r] = status] /\ StatusOf[r] = run[r].status
  BY DEF StatusOf, Noted, Intact

LEMMA StatusSame ==
    ASSUME \A q \in Runs : Noted(q),
           \A q \in Runs : lost'[q] = Null => run'[q].status = run[q].status
    PROVE  UNCHANGED StatusOf
  BY DEF StatusOf, Noted, Intact

\* A process executes an intact run of the table.
Drives(w, r) == worker[w].step \in Owning /\ worker[w].run = r /\ lost[r] = Null

LEMMA DrivenPairs ==
    ASSUME TypeInv
    PROVE  /\ Driven \subseteq Workers \X Runs
           /\ \A w \in Workers, r \in Runs : <<w, r>> \in Driven <=> Drives(w, r)
  <1>1. \A v \in Workers :
           /\ worker[v] \in Worker
           /\ worker[v].step \in {"IDLE", "EXITED"} <=> worker[v].run = Null
    BY DEF TypeInv, Processes, Coherent
  <1>2. \A v \in Workers :
           worker[v].step \notin {"IDLE", "EXITED", "REQUESTED", "STARTING"}
           <=> worker[v].step \in Owning
    BY <1>1 DEF Worker, Owning, Holding, After
  <1>3. \A w \in Workers, r \in Runs : <<w, r>> \in Driven <=>
           /\ worker[w].run = r /\ lost[r] = Null
           /\ worker[w].step \notin {"REQUESTED", "STARTING"}
    BY DEF Driven, Intact
  <1>. QED BY <1>1, <1>2, <1>3, NullValues DEF Driven, Drives

LEMMA DrivenPairsNext ==
    ASSUME TypeInv'
    PROVE  /\ Driven' \subseteq Workers \X Runs
           /\ \A w \in Workers, r \in Runs : <<w, r>> \in Driven' <=> Drives(w, r)'
  <1>1. \A v \in Workers :
           /\ worker'[v] \in Worker
           /\ worker'[v].step \in {"IDLE", "EXITED"} <=> worker'[v].run = Null
    BY DEF TypeInv, Processes, Coherent
  <1>2. \A v \in Workers :
           worker'[v].step \notin {"IDLE", "EXITED", "REQUESTED", "STARTING"}
           <=> worker'[v].step \in Owning
    BY <1>1 DEF Worker, Owning, Holding, After
  <1>3. \A w \in Workers, r \in Runs : <<w, r>> \in Driven' <=>
           /\ worker'[w].run = r /\ lost'[r] = Null
           /\ worker'[w].step \notin {"REQUESTED", "STARTING"}
    BY DEF Driven, Intact
  <1>. QED BY <1>1, <1>2, <1>3, NullValues DEF Driven, Drives

\* The processes go on with what they execute, or one gains or loses a run.
LEMMA DrivenSame ==
    ASSUME TypeInv, TypeInv', \A v \in Workers, q \in Runs : Drives(v, q)' <=> Drives(v, q)
    PROVE  UNCHANGED Driven
  <1>1. \A d \in Workers \X Runs : d = <<d[1], d[2]>> /\ d[1] \in Workers /\ d[2] \in Runs
    OBVIOUS
  <1>2. \A d \in Workers \X Runs : d \in Driven' <=> d \in Driven
    BY <1>1, DrivenPairs, DrivenPairsNext
  <1>. QED BY <1>2, DrivenPairs, DrivenPairsNext

LEMMA DrivenLess ==
    ASSUME TypeInv, TypeInv', NEW w \in Workers, NEW r \in Runs, Drives(w, r),
           \A v \in Workers, q \in Runs :
              Drives(v, q)' <=> Drives(v, q) /\ ~(v = w /\ q = r)
    PROVE  <<w, r>> \in Driven /\ Driven' = Driven \ {<<w, r>>}
  <1>1. \A d \in Workers \X Runs : d = <<d[1], d[2]>> /\ d[1] \in Workers /\ d[2] \in Runs
    OBVIOUS
  <1>2. \A v \in Workers, q \in Runs : <<v, q>> = <<w, r>> <=> v = w /\ q = r
    OBVIOUS
  <1>3. \A d \in Workers \X Runs : d \in Driven' <=> d \in Driven /\ d # <<w, r>>
    BY <1>1, <1>2, DrivenPairs, DrivenPairsNext
  <1>. QED BY <1>3, DrivenPairs, DrivenPairsNext

LEMMA DrivenMore ==
    ASSUME TypeInv, TypeInv', NEW w \in Workers, NEW r \in Runs,
           \A q \in Runs : ~Drives(w, q),
           \A v \in Workers, q \in Runs : Drives(v, q)' <=> Drives(v, q) \/ (v = w /\ q = r)
    PROVE  /\ Driven' = Driven \cup {<<w, r>>}
           /\ \A q \in Runs : <<w, q>> \notin Driven
  <1>1. \A d \in Workers \X Runs : d = <<d[1], d[2]>> /\ d[1] \in Workers /\ d[2] \in Runs
    OBVIOUS
  <1>2. \A v \in Workers, q \in Runs : <<v, q>> = <<w, r>> <=> v = w /\ q = r
    OBVIOUS
  <1>3. \A d \in Workers \X Runs : d \in Driven' <=> d \in Driven \/ d = <<w, r>>
    BY <1>1, <1>2, DrivenPairs, DrivenPairsNext
  <1>4. <<w, r>> \in Workers \X Runs
    OBVIOUS
  <1>5. Driven' = Driven \cup {<<w, r>>}
    BY <1>3, <1>4, DrivenPairs, DrivenPairsNext
  <1>. QED BY <1>5, DrivenPairs

\* The save of a row that was not the stored one: whoever executed the run loses it.
LEMMA Overwritten ==
    ASSUME TypeInv, TypeInv', OwnedInv, \A q \in Runs : Noted(q),
           NEW r \in Runs, lost'[r] # Null,
           \A q \in Runs \ {r} : run'[q].status = run[q].status,
           \A v \in Workers, q \in Runs \ {r} : Drives(v, q)' <=> Drives(v, q)
    PROVE  (\E w \in Workers : Lifecycle!Lose(w, r)) \/ UNCHANGED Lifecycle!vars
  <1>1. UNCHANGED StatusOf
    BY StatusSame
  <1>2. \A v \in Workers : ~Drives(v, r)'
    BY DEF Drives
  <1>3. ASSUME NEW w \in Workers, Drives(w, r)
        PROVE  Lifecycle!Lose(w, r)
    <2>1. \A v \in Workers : Drives(v, r) => v = w
      BY <1>3 DEF Drives, OwnedInv, Intact
    <2>2. \A v \in Workers, q \in Runs :
             Drives(v, q)' <=> Drives(v, q) /\ ~(v = w /\ q = r)
      BY <1>2, <2>1
    <2>3. <<w, r>> \in Driven /\ Driven' = Driven \ {<<w, r>>}
      BY <1>3, <2>2, DrivenLess
    <2>. QED BY <1>1, <2>3 DEF Lifecycle!Lose
  <1>4. CASE \A w \in Workers : ~Drives(w, r)
    <2>1. \A v \in Workers, q \in Runs : Drives(v, q)' <=> Drives(v, q)
      BY <1>2, <1>4
    <2>. QED BY <1>1, <2>1, DrivenSame DEF Lifecycle!vars
  <1>. QED BY <1>3, <1>4

\* What a step of a process does to what the processes execute: it stays with its
\* run, takes r or leaves it.
LEMMA DrivesOthers ==
    ASSUME NEW w \in Workers, NEW r, \A v \in Workers \ {w} : worker'[v] = worker[v],
           \A q \in Runs \ {r} : lost'[q] = lost[q],
           worker[w].step \in Owning => worker[w].run = r,
           worker'[w].step \in Owning => worker'[w].run = r
    PROVE  /\ \A v \in Workers, q \in Runs \ {r} : Drives(v, q)' <=> Drives(v, q)
           /\ \A q \in Runs : Drives(w, q) => q = r
  BY DEF Drives

LEMMA QueueStep ==
    ASSUME TypeInv, TypeInv', LostInv, [Next]_vars, NEW r \in Runs, lost' = lost,
           run[r].status = "ABSENT", run'[r].status = "QUEUED",
           \A q \in Runs \ {r} : run'[q] = run[q],
           \A v \in Workers : worker'[v] = worker[v]
                              \/ (worker[v].step = "IDLE" /\ worker'[v].step = "REQUESTED")
    PROVE  Lifecycle!Queue(r) \/ UNCHANGED Lifecycle!vars
  <1>1. \A q \in Runs : Noted(q)
    BY StepNotes
  <1>2. \A v \in Workers, q \in Runs : Drives(v, q)' <=> Drives(v, q)
    BY OwningSteps DEF Drives
  <1>3. UNCHANGED Driven
    BY <1>2, DrivenSame
  <1>4. CASE lost'[r] = Null
    <2>1. StatusOf[r] = "ABSENT" /\ StatusOf' = [StatusOf EXCEPT ![r] = "QUEUED"]
      BY <1>1, <1>4, StatusChange
    <2>. QED BY <1>3, <2>1 DEF Lifecycle!Queue
  <1>5. CASE lost'[r] # Null
    BY <1>1, <1>3, <1>5, StatusSame DEF Lifecycle!vars
  <1>. QED BY <1>4, <1>5

LEMMA CancelStep ==
    ASSUME TypeInv, TypeInv', LostInv, OwnedInv, [Next]_vars,
           NEW o \in Operators, CommitCancel(o)
    PROVE  \/ \E r \in Runs : Lifecycle!Cancel(r)
           \/ \E w \in Workers, r \in Runs : Lifecycle!Lose(w, r)
           \/ UNCHANGED Lifecycle!vars
  <1>1. \A q \in Runs : Noted(q)
    BY StepNotes
  <1>2. PICK r \in Runs : r = cancel[o] /\ SavedRun(r, run[r].status = "QUEUED")
    BY SavedRuns
  <1>3. /\ lost'[r] = Null => lost[r] = Null /\ run[r].status = "QUEUED"
        /\ \A q \in Runs \ {r} : lost'[q] = lost[q]
        /\ run'[r].status = "CANCELED" /\ \A q \in Runs \ {r} : run'[q] = run[q]
        /\ worker' = worker
    BY <1>2, CommitCancelEffect DEF SavedRun, Intact, CommitCancel
  <1>4. CASE lost'[r] # Null
    <2>1. \A v \in Workers, q \in Runs \ {r} : Drives(v, q)' <=> Drives(v, q)
      BY <1>3 DEF Drives
    <2>. QED BY <1>1, <1>3, <1>4, <2>1, Overwritten
  <1>5. CASE lost'[r] = Null
    <2>1. \A v \in Workers, q \in Runs : Drives(v, q)' <=> Drives(v, q)
      BY <1>3, <1>5 DEF Drives
    <2>2. StatusOf[r] = "QUEUED" /\ StatusOf' = [StatusOf EXCEPT ![r] = "CANCELED"]
      BY <1>1, <1>3, <1>5, StatusChange
    <2>3. UNCHANGED Driven
      BY <2>1, DrivenSame
    <2>. QED BY <2>2, <2>3 DEF Lifecycle!Cancel
  <1>. QED BY <1>4, <1>5

\* A process takes a run, by a claim or by the save of the tool.
LEMMA TakeStep ==
    ASSUME TypeInv, TypeInv', LostInv, OwnedInv, [Next]_vars, NEW w \in Workers, NEW r \in Runs,
           lost'[r] = Null => lost[r] = Null /\ run[r].status = "QUEUED",
           run'[r].status = "RUNNING",
           \A q \in Runs \ {r} : run'[q] = run[q] /\ lost'[q] = lost[q],
           \A v \in Workers \ {w} : worker'[v] = worker[v],
           worker[w].step \in {"IDLE", "STARTING"},
           worker'[w].step \in {"CLAIMED", "READY"}, worker'[w].run = r
    PROVE  \/ Lifecycle!Take(w, r)
           \/ \E v \in Workers : Lifecycle!Lose(v, r)
           \/ UNCHANGED Lifecycle!vars
  <1>1. \A q \in Runs : Noted(q)
    BY StepNotes
  <1>2. worker[w].step \notin Owning /\ worker'[w].step \in Owning
    BY OwningSteps DEF Owning
  <1>3. /\ \A v \in Workers, q \in Runs \ {r} : Drives(v, q)' <=> Drives(v, q)
        /\ \A q \in Runs : ~Drives(w, q)
    BY <1>2, DrivesOthers DEF Drives
  <1>4. CASE lost'[r] # Null
    BY <1>1, <1>3, <1>4, Overwritten
  <1>5. CASE lost'[r] = Null
    <2>1. Drives(w, r)' /\ \A v \in Workers \ {w} : Drives(v, r)' <=> Drives(v, r)
      BY <1>2, <1>5 DEF Drives
    <2>2. \A v \in Workers, q \in Runs : Drives(v, q)' <=> Drives(v, q) \/ (v = w /\ q = r)
      BY <1>3, <2>1
    <2>3. /\ Driven' = Driven \cup {<<w, r>>}
          /\ \A q \in Runs : <<w, q>> \notin Driven
      BY <1>3, <2>2, DrivenMore
    <2>4. StatusOf[r] = "QUEUED" /\ StatusOf' = [StatusOf EXCEPT ![r] = "RUNNING"]
      BY <1>1, <1>5, StatusChange
    <2>. QED BY <2>3, <2>4 DEF Lifecycle!Take
  <1>. QED BY <1>4, <1>5

LEMMA EndStep ==
    ASSUME TypeInv, TypeInv', LostInv, OwnedInv, [Next]_vars, NEW w \in Workers, EndSave(w)
    PROVE  \/ \E r \in Runs : Lifecycle!End(w, r)
           \/ \E v \in Workers, r \in Runs : Lifecycle!Lose(v, r)
           \/ UNCHANGED Lifecycle!vars
  <1>1. \A q \in Runs : Noted(q)
    BY StepNotes
  <1>2. PICK r \in Runs : r = worker[w].run /\ SavedRun(r, run[r] = worker[w].seen)
    BY SavedRuns
  <1>3. /\ lost'[r] = Null => lost[r] = Null /\ run[r] = worker[w].seen
        /\ \A q \in Runs \ {r} : lost'[q] = lost[q] /\ run'[q] = run[q]
        /\ \A v \in Workers \ {w} : worker'[v] = worker[v]
    BY <1>2, EndSaveEffect DEF SavedRun, Intact
  <1>4. worker[w].step \in Owning /\ worker'[w].step \notin Owning
    BY EndSaveEffect, OwningSteps DEF Owning, After
  <1>5. /\ \A v \in Workers, q \in Runs \ {r} : Drives(v, q)' <=> Drives(v, q)
        /\ \A q \in Runs : Drives(w, q) => q = r
    BY <1>2, <1>3, <1>4, DrivesOthers
  <1>6. CASE lost'[r] # Null
    BY <1>1, <1>3, <1>5, <1>6, Overwritten
  <1>7. CASE lost'[r] = Null
    <2>1. Drives(w, r) /\ ~Drives(w, r)'
          /\ \A v \in Workers \ {w} : Drives(v, r)' <=> Drives(v, r)
      BY <1>2, <1>3, <1>4, <1>7 DEF Drives
    <2>2. \A v \in Workers, q \in Runs :
             Drives(v, q)' <=> Drives(v, q) /\ ~(v = w /\ q = r)
      BY <1>5, <2>1
    <2>3. <<w, r>> \in Driven /\ Driven' = Driven \ {<<w, r>>}
      BY <2>1, <2>2, DrivenLess
    <2>4. RowEnded(r, w)
      BY <1>2, <1>3, <1>7, EndingRuns
    <2>5. PICK verdict \in {"SUCCEEDED", "FAILED"} : run'[r].status = verdict
      BY <2>4 DEF RowEnded
    <2>6. StatusOf[r] = run[r].status /\ StatusOf' = [StatusOf EXCEPT ![r] = verdict]
      BY <1>1, <1>3, <1>7, <2>5, StatusChange
    <2>. QED BY <2>3, <2>4, <2>6 DEF Lifecycle!End, RowEnded
  <1>. QED BY <1>6, <1>7

LEMMA AttachStep ==
    ASSUME TypeInv, TypeInv', LostInv, OwnedInv, [Next]_vars, NEW w \in Workers, AttachSave(w)
    PROVE  \/ \E v \in Workers, r \in Runs : Lifecycle!Lose(v, r)
           \/ UNCHANGED Lifecycle!vars
  <1>1. \A q \in Runs : Noted(q)
    BY StepNotes
  <1>2. PICK r \in Runs : r = worker[w].run /\ SavedRun(r, run[r] = worker[w].seen)
    BY SavedRuns
  <1>3. /\ lost'[r] = Null => lost[r] = Null /\ run[r] = worker[w].seen
        /\ \A q \in Runs \ {r} : lost'[q] = lost[q] /\ run'[q] = run[q]
        /\ \A v \in Workers \ {w} : worker'[v] = worker[v]
    BY <1>2, AttachSaveEffect DEF SavedRun, Intact
  <1>4. /\ worker[w].step \in Owning /\ worker'[w].step \in Owning /\ worker'[w].run = r
    BY <1>2, AttachSaveEffect DEF Owning, Holding, AttachSave
  <1>5. \A v \in Workers, q \in Runs \ {r} : Drives(v, q)' <=> Drives(v, q)
    BY <1>2, <1>3, <1>4, DrivesOthers
  <1>6. CASE lost'[r] # Null
    BY <1>1, <1>3, <1>5, <1>6, Overwritten
  <1>7. CASE lost'[r] = Null
    <2>1. \A v \in Workers : Drives(v, r)' <=> Drives(v, r)
      BY <1>2, <1>3, <1>4, <1>7 DEF Drives
    <2>2. UNCHANGED Driven
      BY <1>5, <2>1, DrivenSame
    <2>3. run[r].status = "RUNNING" /\ run'[r].status = "RUNNING"
      BY <1>2, <1>3, <1>4, <1>7, AttachSaveOwned DEF OwnedInv, Intact
    <2>4. UNCHANGED StatusOf
      BY <1>1, <1>3, <2>3, StatusSame
    <2>. QED BY <2>2, <2>4 DEF Lifecycle!vars
  <1>. QED BY <1>6, <1>7

\* The steps that write no row: a process goes on with its run or loses it.
LEMMA ReadStep ==
    ASSUME TypeInv, TypeInv', LostInv, OwnedInv, [Next]_vars, NEW w \in Workers, Reads(w)
    PROVE  \/ \E r \in Runs : Lifecycle!Lose(w, r)
           \/ UNCHANGED Lifecycle!vars
  <1>1. /\ run' = run /\ lost' = lost
        /\ \A v \in Workers \ {w} : worker'[v] = worker[v]
    BY DEF Reads
  <1>2. UNCHANGED StatusOf
    BY <1>1, StepNotes, StatusSame
  <1>3. \/ worker'[w].step \notin Owning
        \/ worker[w].step \in Owning /\ worker'[w].run = worker[w].run
    BY OwningSteps DEF Reads
  <1>4. ASSUME NEW r \in Runs, Drives(w, r), worker'[w].step \notin Owning
        PROVE  Lifecycle!Lose(w, r)
    <2>1. \A v \in Workers, q \in Runs :
             Drives(v, q)' <=> Drives(v, q) /\ ~(v = w /\ q = r)
      BY <1>1, <1>4 DEF Drives
    <2>2. <<w, r>> \in Driven /\ Driven' = Driven \ {<<w, r>>}
      BY <1>4, <2>1, DrivenLess
    <2>. QED BY <1>2, <2>2 DEF Lifecycle!Lose
  <1>5. CASE worker'[w].step \in Owning \/ \A r \in Runs : ~Drives(w, r)
    <2>1. \A v \in Workers, q \in Runs : Drives(v, q)' <=> Drives(v, q)
      BY <1>1, <1>3, <1>5 DEF Drives
    <2>. QED BY <1>2, <2>1, DrivenSame DEF Lifecycle!vars
  <1>. QED BY <1>4, <1>5

LEMMA LifecycleStep ==
    ASSUME TypeInv, TypeInv', LostInv, OwnedInv, [Next]_vars
    PROVE  [Lifecycle!Next]_(Lifecycle!vars)
  <1>1. ASSUME NEW r \in Runs, NEW kind \in Kinds, NEW p \in Profiles, Request(r, kind, p)
        PROVE  Lifecycle!Queue(r) \/ UNCHANGED Lifecycle!vars
    <2>1. worker' = worker /\ lost' = lost
      BY <1>1, QuietlyNoted DEF Request, Quietly
    <2>. QED BY <1>1, <2>1, RequestEffect, QueueStep
  <1>2. ASSUME NEW w \in Workers, NEW r \in Runs, NEW p \in Profiles, ToolRequest(w, r, p)
        PROVE  Lifecycle!Queue(r) \/ UNCHANGED Lifecycle!vars
    <2>1. worker[w].step = "IDLE" /\ lost' = lost
      BY <1>2, QuietlyNoted DEF ToolRequest, Quietly
    <2>. QED BY <1>2, <2>1, ToolRequestEffect, QueueStep
  <1>3. ASSUME NEW w \in Workers, NEW r \in Runs, Claim(w, r)
        PROVE  \/ Lifecycle!Take(w, r)
               \/ \E v \in Workers : Lifecycle!Lose(v, r)
               \/ UNCHANGED Lifecycle!vars
    <2>1. worker[w].step = "IDLE" /\ lost' = lost
      BY <1>3, QuietlyNoted DEF Claim, Quietly
    <2>. QED BY <1>3, <2>1, ClaimEffect, TakeStep
  <1>4. ASSUME NEW w \in Workers, ToolStart(w)
        PROVE  \/ \E r \in Runs : Lifecycle!Take(w, r)
               \/ \E v \in Workers, r \in Runs : Lifecycle!Lose(v, r)
               \/ UNCHANGED Lifecycle!vars
    <2>1. PICK r \in Runs : r = worker[w].run /\ SavedRun(r, run[r] = worker[w].seen)
      BY <1>4, SavedRuns
    <2>2. worker[w].step = "STARTING" /\ worker[w].seen.status = "QUEUED"
      BY <1>4 DEF ToolStart, OwnedInv
    <2>3. /\ lost'[r] = Null => lost[r] = Null /\ run[r].status = "QUEUED"
          /\ \A q \in Runs \ {r} : lost'[q] = lost[q]
      BY <2>1, <2>2 DEF SavedRun, Intact
    <2>. QED BY <1>4, <2>1, <2>2, <2>3, ToolStartEffect, TakeStep
  <1>5. CASE UNCHANGED vars \/ \E o \in Operators, r \in Runs : BeginCancel(o, r)
    BY <1>5 DEF BeginCancel, vars, Lifecycle!vars, StatusOf, Driven, Intact
  <1>. QED
    BY <1>1, <1>2, <1>3, <1>4, <1>5, CancelStep, EndStep, AttachStep, ReadStep, ReadSteps
       DEF Next, Api, WorkerStep, Operate, Operates, Leaves, Lifecycle!Next

\* However requests and processes overlap, the three tables and their processes
\* implement the run lifecycle for each run until a save overwrites a row of it that
\* it had not read: a run is taken by one process, only that process ends it, and
\* what is ended or canceled stays so.
THEOREM RunsImplementLifecycle == Spec => ImplementsLifecycle
  <1>1. Init => Lifecycle!Init
    <2>. SUFFICES ASSUME Init PROVE Lifecycle!Init
      OBVIOUS
    <2>1. StatusOf = [r \in Runs |-> "ABSENT"]
      BY DEF Init, StatusOf, NoRun, Intact
    <2>2. \A w \in Workers : worker[w].run = Null
      BY DEF Init, IdleWorker
    <2>3. \A d \in Workers \X Runs : d[1] \in Workers /\ d[2] \in Runs
      OBVIOUS
    <2>4. Driven = {}
      BY <2>2, <2>3, NullValues DEF Driven
    <2>. QED BY <2>1, <2>4 DEF Lifecycle!Init
  <1>2. TypeInv /\ TypeInv' /\ LostInv /\ OwnedInv /\ [Next]_vars
        => [Lifecycle!Next]_(Lifecycle!vars)
    BY LifecycleStep
  <1>. QED BY <1>1, <1>2, TypeSafe, LostSafe, OwnedSafe, PTL
           DEF Spec, ImplementsLifecycle, Lifecycle!Spec

-----------------------------------------------------------------------------
(* What an ended run says of its lease *)

\* The steps by which a process goes on with its run or takes one.
Proceeds(w) ==
    \/ Load(w) \/ ToolRead(w) \/ ToolStart(w) \/ CheckoutRefused(w) \/ AttachRead(w)
    \/ AttachSave(w) \/ Operates(w) \/ Apply(w) \/ EndRead(w) \/ Interrupt(w)
    \/ \E r \in Runs : Claim(w, r)
    \/ \E r \in Runs, p \in Profiles : ToolRequest(w, r, p)
    \/ \E l \in Leases : Checkout(w, l)

LEMMA LeavingFlags ==
    ASSUME TypeInv, NEW w \in Workers,
           Quit(w) \/ Done(w) \/ Become(w, IdleWorker)
    PROVE  worker'[w].leaseReleased = "NO" /\ worker'[w].verdict = Null
  <1>1. \A state : Become(w, state) => worker'[w] = state
    BY DEF Become, TypeInv, Processes
  <1>2. worker'[w] \in {[IdleWorker EXCEPT !.step = "EXITED"], IdleWorker,
                        [IdleWorker EXCEPT !.stopping = worker[w].stopping]}
    BY <1>1 DEF Quit, Done
  <1>. QED BY <1>2 DEF IdleWorker

\* Only the release of a lease is told as such, and only the end of the browser's
\* work or a stored outcome lets a process succeed.
LEMMA FlagSteps ==
    ASSUME TypeInv, NEW w \in Workers, Proceeds(w)
    PROVE  /\ worker'[w].leaseReleased \in {worker[w].leaseReleased, "NO"}
           /\ worker'[w].verdict = "SUCCEED" =>
                 \/ worker[w].verdict = "SUCCEED"
                 \/ worker[w].step \in {"BROWSING", "SUBMITTING", "APPLYING"}
  <1>1. PICK old \in Worker : old = worker[w]
    BY DEF TypeInv, Processes
  <1>2. \A state : Become(w, state) => worker'[w] = state
    BY DEF Become, TypeInv, Processes
  <1>. DEFINE Goal == /\ worker'[w].leaseReleased \in {worker[w].leaseReleased, "NO"}
                      /\ worker'[w].verdict = "SUCCEED" =>
                            \/ worker[w].verdict = "SUCCEED"
                            \/ worker[w].step \in {"BROWSING", "SUBMITTING", "APPLYING"}
  <1>. SUFFICES Goal
    OBVIOUS
  <1>3. CASE Quit(w) \/ Done(w)
    BY <1>3, LeavingFlags, NullValues
  <1>4. ASSUME NEW verdict, Decide(w, verdict) \/ Refuse(w, verdict),
               \/ verdict # "SUCCEED"
               \/ worker[w].step \in {"BROWSING", "SUBMITTING", "APPLYING"}
        PROVE  Goal
    <2>1. /\ worker'[w].leaseReleased = old.leaseReleased
          /\ worker'[w].verdict = verdict
      BY <1>1, <1>2, <1>4 DEF Decide, Refuse, Worker
    <2>. QED BY <1>1, <1>4, <2>1
  <1>5. CASE worker'[w].leaseReleased = old.leaseReleased /\ worker'[w].verdict = old.verdict
    BY <1>1, <1>5
  <1>. HIDE DEF Goal
  <1>6. CASE \E r \in Runs : Claim(w, r)
    BY <1>1, <1>2, <1>5, <1>6 DEF Claim, Worker
  <1>7. CASE \E r \in Runs, p \in Profiles : ToolRequest(w, r, p)
    BY <1>1, <1>2, <1>5, <1>7 DEF ToolRequest, Worker
  <1>8. CASE Load(w)
    BY <1>1, <1>2, <1>3, <1>5, <1>8 DEF Load, Worker
  <1>9. CASE ToolRead(w)
    BY <1>1, <1>2, <1>3, <1>5, <1>9 DEF ToolRead, Worker
  <1>10. CASE ToolStart(w)
    BY <1>1, <1>2, <1>5, <1>10 DEF ToolStart, Worker
  <1>11. CASE CheckoutRefused(w)
    <2>1. Refusals(w) \subseteq Failures
      BY DEF Refusals, Failures
    <2>. QED BY <1>4, <1>11, <2>1, NullValues DEF CheckoutRefused
  <1>12. ASSUME NEW l \in Leases, Checkout(w, l)
         PROVE  Goal
    <2>1. CASE Refuse(w, "CHECKOUT_FAILED")
      BY <1>4, <2>1
    <2>2. ASSUME NEW pair, Become(w, [worker[w] EXCEPT !.step = "LEASED", !.acquired = pair])
          PROVE  Goal
      BY <1>1, <1>2, <1>5, <2>2 DEF Worker
    <2>. QED BY <1>12, <2>1, <2>2 DEF Checkout
  <1>13. CASE AttachRead(w)
    <2>1. CASE Decide(w, "RECORD_FAILED")
      BY <1>4, <2>1
    <2>2. CASE Become(w, [worker[w] EXCEPT !.step = "ATTACHING", !.seen = run[worker[w].run]])
      BY <1>1, <1>2, <1>5, <2>2 DEF Worker
    <2>. QED BY <1>13, <2>1, <2>2 DEF AttachRead
  <1>14. CASE AttachSave(w)
    <2>1. CASE Decide(w, "RECORD_FAILED")
      BY <1>4, <2>1
    <2>2. ASSUME NEW row, Become(w, [worker[w] EXCEPT !.step = "ATTACHED", !.seen = row])
          PROVE  Goal
      BY <1>1, <1>2, <1>5, <2>2 DEF Worker
    <2>. QED BY <1>14, <2>1, <2>2 DEF AttachSave
  <1>15. CASE Launch(w)
    BY <1>1, <1>2, <1>5, <1>15 DEF Launch, Worker
  <1>16. CASE LaunchFails(w)
    BY <1>4, <1>16 DEF LaunchFails
  <1>17. CASE BrowserFails(w) \/ SubmittedAll(w)
    BY <1>4, <1>17 DEF BrowserFails, SubmittedAll
  <1>18. CASE BrowserDone(w)
    <2>1. CASE Decide(w, "SUCCEED")
      BY <1>4, <1>18, <2>1 DEF BrowserDone
    <2>2. ASSUME NEW payloads,
                 Become(w, [worker[w] EXCEPT !.step = "SUBMITTING", !.left = payloads])
          PROVE  Goal
      BY <1>1, <1>2, <1>5, <2>2 DEF Worker
    <2>. QED BY <1>18, <2>1, <2>2 DEF BrowserDone
  <1>19. CASE SubmitPayload(w)
    <2>1. PICK verdict \in {old.verdict, "SUBMISSION_FAILED"} :
             Become(w, [old EXCEPT !.left = @ - 1, !.verdict = verdict])
      BY <1>1, <1>19 DEF SubmitPayload
    <2>2. worker'[w] = [old EXCEPT !.left = @ - 1, !.verdict = verdict]
      BY <1>2, <2>1
    <2>3. worker'[w].leaseReleased = old.leaseReleased /\ worker'[w].verdict = verdict
      BY <2>2 DEF Worker
    <2>. QED BY <1>1, <1>19, <2>3 DEF SubmitPayload, Goal
  <1>20. CASE Apply(w)
    BY <1>4, <1>20 DEF Apply
  <1>21. CASE EndRead(w)
    BY <1>1, <1>2, <1>3, <1>5, <1>21 DEF EndRead, Worker
  <1>22. CASE Interrupt(w)
    BY <1>1, <1>2, <1>5, <1>22 DEF Interrupt, Worker
  <1>. QED BY <1>6, <1>7, <1>8, <1>9, <1>10, <1>11, <1>12, <1>13, <1>14, <1>15, <1>16,
              <1>17, <1>18, <1>19, <1>20, <1>21, <1>22 DEF Proceeds, Operates, Goal

\* Only group runs submit payloads, only access checks store an outcome.
StepInv ==
    \A w \in Workers : /\ worker[w].step = "SUBMITTING" => Serves(w) = "GROUP"
                       /\ worker[w].step = "APPLYING" => Serves(w) = "ACCESS"

LEMMA StepKinds ==
    ASSUME TypeInv, NEW w \in Workers,
           Proceeds(w) \/ Release(w) \/ EndSave(w) \/ Leaves(w)
    PROVE  /\ worker'[w].step = "SUBMITTING" =>
                 worker[w].step = "SUBMITTING" \/ Serves(w) = "GROUP"
           /\ worker'[w].step = "APPLYING" =>
                 worker[w].step = "APPLYING" \/ Serves(w) = "ACCESS"
           /\ worker'[w].step = "BROWSING" /\ Serves(w) = "EXERCISE" =>
                 worker[w].step \in {"ATTACHED", "BROWSING"}
           /\ worker'[w].step = "ATTACHED" =>
                 worker[w].step = "ATTACHED" \/ AttachSave(w)
           /\ \A v \in Workers \ {w} : worker'[v] = worker[v]
  <1>1. CASE \/ Load(w) \/ ToolRead(w) \/ ToolStart(w) \/ CheckoutRefused(w) \/ AttachRead(w)
             \/ Apply(w) \/ EndRead(w) \/ EndSave(w) \/ Leaves(w)
             \/ (\E r \in Runs : Claim(w, r))
             \/ (\E r \in Runs, p \in Profiles : ToolRequest(w, r, p))
             \/ (\E l \in Leases : Checkout(w, l))
    <2>1. /\ worker'[w].step \notin {"SUBMITTING", "APPLYING", "BROWSING", "ATTACHED"}
          /\ \A v \in Workers \ {w} : worker'[v] = worker[v]
      BY <1>1, LoadEffect, ToolReadEffect, ToolStartEffect, RefusedEffect, AttachReadEffect,
         ApplyEffect, EndReadEffect, EndSaveEffect, LeaveEffect, ClaimEffect,
         ToolRequestEffect, CheckoutEffect
    <2>. QED BY <2>1
  <1>2. CASE AttachSave(w)
    BY <1>2, AttachSaveEffect
  <1>3. CASE Release(w)
    BY <1>3, ReleaseEffect
  <1>4. CASE Interrupt(w)
    BY <1>4, InterruptEffect
  <1>5. CASE Operates(w)
    <2>1. \A state : Become(w, state) => worker'[w] = state
      BY DEF Become, TypeInv, Processes
    <2>2. PICK old \in Worker : old = worker[w]
      BY DEF TypeInv, Processes
    <2>3. worker'[w].step = "SUBMITTING" =>
             worker[w].step = "SUBMITTING" \/ Serves(w) = "GROUP"
      <3>1. CASE Launch(w)
        BY <2>1, <2>2, <3>1 DEF Launch, Worker
      <3>2. CASE LaunchFails(w) \/ BrowserFails(w) \/ SubmittedAll(w)
        BY <2>1, <2>2, <3>2 DEF LaunchFails, BrowserFails, SubmittedAll, Decide, Worker
      <3>3. CASE BrowserDone(w)
        BY <2>1, <2>2, <3>3 DEF BrowserDone, Decide, Worker
      <3>4. CASE SubmitPayload(w)
        BY <3>4 DEF SubmitPayload
      <3>. QED BY <1>5, <3>1, <3>2, <3>3, <3>4 DEF Operates
    <2>4. worker'[w].step = "BROWSING" /\ Serves(w) = "EXERCISE" =>
             worker[w].step \in {"ATTACHED", "BROWSING"}
      <3>1. CASE Launch(w)
        BY <3>1 DEF Launch, ReadyToLaunch
      <3>2. CASE LaunchFails(w) \/ SubmittedAll(w)
        BY <2>1, <2>2, <3>2 DEF LaunchFails, SubmittedAll, Decide, Worker
      <3>3. CASE BrowserDone(w) \/ BrowserFails(w)
        BY <3>3 DEF BrowserDone, BrowserFails
      <3>4. CASE SubmitPayload(w)
        <4>1. PICK verdict \in {old.verdict, "SUBMISSION_FAILED"} :
                 Become(w, [old EXCEPT !.left = @ - 1, !.verdict = verdict])
          BY <2>2, <3>4 DEF SubmitPayload
        <4>2. worker'[w] = [old EXCEPT !.left = @ - 1, !.verdict = verdict]
          BY <2>1, <4>1
        <4>3. worker'[w].step = old.step
          BY <4>2 DEF Worker
        <4>. QED BY <2>2, <3>4, <4>3 DEF SubmitPayload
      <3>. QED BY <1>5, <3>1, <3>2, <3>3, <3>4 DEF Operates
    <2>. QED BY <1>5, <2>3, <2>4, OperateEffect
  <1>. QED BY <1>1, <1>2, <1>3, <1>4, <1>5 DEF Proceeds

\* Every step of the system is one of a process or leaves the processes alone.
LEMMA ProcessSteps ==
    ASSUME [Next]_vars
    PROVE  \/ worker' = worker /\ UNCHANGED leaseVars
           \/ \E w \in Workers : Proceeds(w) \/ Release(w) \/ EndSave(w) \/ Leaves(w)
  <1>1. Api \/ UNCHANGED vars => worker' = worker /\ UNCHANGED leaseVars
    BY DEF Api, Request, BeginCancel, CommitCancel, vars, leaseVars
  <1>2. ASSUME NEW w \in Workers, WorkerStep(w) \/ Operate(w)
        PROVE  Proceeds(w) \/ Release(w) \/ EndSave(w) \/ Leaves(w)
    BY <1>2 DEF WorkerStep, Operate, Proceeds, Operates, Leaves
  <1>. QED BY <1>1, <1>2 DEF Next

\* Only group runs submit payloads and only access checks store an outcome.
THEOREM StepsSafe == Spec => []StepInv
  <1>1. Init => StepInv
    BY DEF Init, IdleWorker, StepInv
  <1>2. TypeInv /\ StepInv /\ [Next]_vars => StepInv'
    BY ProcessSteps, StepKinds DEF StepInv
  <1>. QED BY <1>1, <1>2, TypeSafe, PTL DEF Spec

\* What the histories say of the leases checked out for each run: a run that no save
\* overwrote has one lease at most, and none before its process asks for it.
GrantInv ==
    /\ \A p \in Profiles, l \in Leases : <<p, l>> \in held => grantee[l] # Null
    /\ \A l \in Leases : grantee[l] # Null /\ lost[grantee[l]] = Null =>
          run[grantee[l]].status \in {"RUNNING", "SUCCEEDED", "FAILED"}
    /\ \A w \in Workers, l \in Leases :
          worker[w].step \in {"CLAIMED", "READY"} /\ lost[worker[w].run] = Null
          => grantee[l] # worker[w].run
    /\ \A l \in Leases, m \in Leases :
          grantee[l] # Null /\ lost[grantee[l]] = Null /\ grantee[l] = grantee[m] => l = m

LEMMA StatusesKept ==
    ASSUME TypeInv, LostInv, OwnedInv, [Next]_vars, NEW r \in Runs, lost'[r] = Null
    PROVE  /\ lost[r] = Null
           /\ run[r].status \in {"RUNNING", "SUCCEEDED", "FAILED"} =>
                 run'[r].status \in {"RUNNING", "SUCCEEDED", "FAILED"}
           /\ run[r].status \in {"SUCCEEDED", "FAILED"} => run'[r] = run[r]
  BY RowsChange DEF RowNext, RowCreated, RowTaken, RowAttached, RowEnded

\* A process takes a run that is QUEUED if it stays intact, or goes on with its own.
LEMMA ReadySteps ==
    ASSUME TypeInv, LostInv, OwnedInv, NEW w \in Workers,
           Proceeds(w) \/ Release(w) \/ EndSave(w) \/ Leaves(w),
           worker'[w].step \in {"CLAIMED", "READY"}, lost'[worker'[w].run] = Null
    PROVE  \/ worker[w].step \in {"CLAIMED", "READY"} /\ worker'[w].run = worker[w].run
           \/ worker'[w].run \in Runs /\ run[worker'[w].run].status = "QUEUED"
  <1>1. CASE \E r \in Runs : Claim(w, r)
    BY <1>1, ClaimEffect
  <1>2. CASE ToolStart(w)
    <2>1. worker[w].seen.status = "QUEUED"
      BY <1>2 DEF ToolStart, OwnedInv
    <2>2. worker[w].seen = run[worker[w].run]
      BY <1>2, ToolStartEffect, SavedRuns DEF SavedRun, Intact
    <2>. QED BY <1>2, <2>1, <2>2, ToolStartEffect
  <1>3. CASE Load(w)
    BY <1>3, LoadEffect DEF Load
  <1>4. CASE Interrupt(w)
    BY <1>4, InterruptEffect
  <1>5. CASE \/ ToolRead(w) \/ CheckoutRefused(w) \/ AttachRead(w) \/ AttachSave(w)
             \/ Operates(w) \/ Apply(w) \/ EndRead(w) \/ EndSave(w) \/ Leaves(w) \/ Release(w)
             \/ (\E r \in Runs, p \in Profiles : ToolRequest(w, r, p))
             \/ (\E l \in Leases : Checkout(w, l))
    BY <1>5, ToolReadEffect, RefusedEffect, AttachReadEffect, AttachSaveEffect,
       OperateEffect, ApplyEffect, EndReadEffect, EndSaveEffect, LeaveEffect,
       ReleaseEffect, ToolRequestEffect, CheckoutEffect
  <1>. QED BY <1>1, <1>2, <1>3, <1>4, <1>5 DEF Proceeds

LEMMA GrantKept ==
    ASSUME TypeInv, LostInv, OwnedInv, GrantInv, [Next]_vars,
           grantee' = grantee, held' \subseteq held
    PROVE  GrantInv'
  <1>1. \A l \in Leases : grantee[l] \in Runs \cup {Null}
    BY DEF TypeInv, Outer
  <1>2. \A r \in Runs : lost'[r] = Null => lost[r] = Null
    BY StatusesKept
  <1>3. \A l \in Leases : grantee[l] # Null /\ lost'[grantee[l]] = Null =>
           run'[grantee[l]].status \in {"RUNNING", "SUCCEEDED", "FAILED"}
    BY <1>1, StatusesKept DEF GrantInv
  <1>4. ASSUME NEW w \in Workers, NEW l \in Leases, worker'[w].step \in {"CLAIMED", "READY"},
               lost'[worker'[w].run] = Null
        PROVE  grantee[l] # worker'[w].run
    <2>1. \/ worker[w].step \in {"CLAIMED", "READY"} /\ worker'[w].run = worker[w].run
          \/ worker'[w].run \in Runs /\ run[worker'[w].run].status = "QUEUED"
      BY <1>4, ProcessSteps, StepKinds, ReadySteps
    <2>2. CASE worker[w].step \in {"CLAIMED", "READY"} /\ worker'[w].run = worker[w].run
      <3>1. worker[w].run \in Runs
        BY <2>2, OwnedRuns DEF Owning
      <3>. QED BY <1>2, <1>4, <2>2, <3>1 DEF GrantInv
    <2>3. CASE worker'[w].run \in Runs /\ run[worker'[w].run].status = "QUEUED"
      BY <1>2, <1>4, <2>3, NullValues DEF GrantInv
    <2>. QED BY <2>1, <2>2, <2>3
  <1>5. \A l \in Leases, m \in Leases :
           grantee[l] # Null /\ lost'[grantee[l]] = Null /\ grantee[l] = grantee[m] => l = m
    BY <1>1, <1>2 DEF GrantInv
  <1>. QED BY <1>3, <1>4, <1>5 DEF GrantInv

LEMMA GrantCheckout ==
    ASSUME TypeInv, LeaseInv, OwnedInv, GrantInv, NEW w \in Workers, NEW l \in Leases,
           Checkout(w, l)
    PROVE  GrantInv'
  <1>1. /\ worker[w].step = "READY" /\ run' = run /\ lost' = lost
        /\ worker'[w].run = worker[w].run
        /\ worker'[w].step \in {"LEASED", "ENDING"}
        /\ \A v \in Workers \ {w} : worker'[v] = worker[v]
    BY CheckoutEffect, QuietlyNoted DEF Checkout, Quietly
  <1>2. PICK r \in Runs : r = worker[w].run
    BY CheckoutEffect
  <1>3. lost[r] = Null => run[r].status = "RUNNING"
    BY <1>1, <1>2 DEF OwnedInv, Owning, Intact
  <1>4. PICK p \in Profiles : held' = held \cup {<<p, l>>}
    BY CheckoutEffect DEF Lock!Acquire
  <1>5. grantee'[l] = r /\ \A m \in Leases \ {l} : grantee'[m] = grantee[m]
    BY <1>2 DEF Checkout, TypeInv, Outer
  <1>6. lost[r] = Null => \A m \in Leases : grantee[m] # r
    BY <1>1, <1>2 DEF GrantInv
  <1>7. lost[r] = Null => \A v \in Workers \ {w} :
           worker[v].step \in {"CLAIMED", "READY"} => worker[v].run # r
    BY <1>1, <1>2 DEF OwnedInv, Owning, Intact
  <1>8. \A q \in Profiles, m \in Leases : <<q, m>> \in held' => grantee'[m] # Null
    BY <1>4, <1>5, NullValues DEF GrantInv
  <1>9. \A m \in Leases : grantee'[m] # Null /\ lost'[grantee'[m]] = Null =>
           run'[grantee'[m]].status \in {"RUNNING", "SUCCEEDED", "FAILED"}
    BY <1>1, <1>3, <1>5 DEF GrantInv
  <1>10. \A v \in Workers, m \in Leases :
            worker'[v].step \in {"CLAIMED", "READY"} /\ lost'[worker'[v].run] = Null
            => grantee'[m] # worker'[v].run
    BY <1>1, <1>5, <1>7 DEF GrantInv
  <1>11. \A m \in Leases, n \in Leases :
            grantee'[m] # Null /\ lost'[grantee'[m]] = Null /\ grantee'[m] = grantee'[n]
            => m = n
    BY <1>1, <1>5, <1>6 DEF GrantInv
  <1>. QED BY <1>8, <1>9, <1>10, <1>11 DEF GrantInv

\* How a step changes what is known of the leases.
LEMMA LeaseSteps ==
    ASSUME TypeInv, [Next]_vars
    PROVE  \/ \E w \in Workers, l \in Leases : Checkout(w, l)
           \/ grantee' = grantee /\ held' \subseteq held /\ closed \subseteq closed'
  <1>1. CASE worker' = worker /\ UNCHANGED leaseVars
    BY <1>1 DEF leaseVars
  <1>2. ASSUME NEW w \in Workers, Release(w)
        PROVE  grantee' = grantee /\ held' \subseteq held /\ closed \subseteq closed'
    BY <1>2, ReleaseEffect DEF Release, Lock!Release
  <1>3. ASSUME NEW w \in Workers, Proceeds(w) \/ EndSave(w) \/ Leaves(w),
               ~ \E l \in Leases : Checkout(w, l)
        PROVE  UNCHANGED leaseVars
    BY <1>3, QuietSteps DEF Proceeds, Quiet
  <1>. QED BY <1>1, <1>2, <1>3, ProcessSteps DEF leaseVars

\* Until a save overwrites its row, a run has one lease at most, and none before its
\* process checks one out: no other process executes it.
THEOREM GrantsSafe == Spec => []GrantInv
  <1>1. Init => GrantInv
    BY DEF Init, Lock!Init, IdleWorker, GrantInv
  <1>2. TypeInv /\ LostInv /\ LeaseInv /\ OwnedInv /\ GrantInv /\ [Next]_vars => GrantInv'
    BY LeaseSteps, GrantKept, GrantCheckout
  <1>. QED BY <1>1, <1>2, TypeSafe, LostSafe, LeaseSafe, OwnedSafe, PTL DEF Spec

\* Before its process gives the lease back, a run is not among those after it.
LEMMA WorkingSteps ==
    ASSUME TypeInv, NEW w \in Workers,
           \/ Load(w) \/ ToolRead(w) \/ ToolStart(w) \/ CheckoutRefused(w)
           \/ AttachRead(w) \/ AttachSave(w) \/ Operates(w)
           \/ (\E r \in Runs : Claim(w, r))
           \/ (\E r \in Runs, p \in Profiles : ToolRequest(w, r, p))
           \/ (\E l \in Leases : Checkout(w, l))
    PROVE  worker[w].step \notin After
  <1>1. AttachRead(w) \/ AttachSave(w) \/ Operates(w) => worker[w].step \in Holding
    BY AttachReadEffect, AttachSaveEffect, OperateEffect DEF Holding
  <1>2. \/ Load(w) \/ ToolRead(w) \/ ToolStart(w) \/ CheckoutRefused(w)
        \/ (\E r \in Runs : Claim(w, r))
        \/ (\E r \in Runs, p \in Profiles : ToolRequest(w, r, p))
        \/ (\E l \in Leases : Checkout(w, l))
        => worker[w].step \notin After
    BY DEF Load, ToolRead, ToolStart, CheckoutRefused, Claim, ToolRequest, Checkout, After
  <1>. QED BY <1>1, <1>2, HoldingIsNotAfter

LEMMA EndReadDone ==
    ASSUME TypeInv, NEW w \in Workers, EndRead(w), ~Done(w)
    PROVE  worker'[w].step = "SAVING"
  <1>1. PICK old \in Worker : old = worker[w]
    BY DEF TypeInv, Processes
  <1>2. worker'[w] = [old EXCEPT !.step = "SAVING", !.seen = run[old.run]]
    BY <1>1 DEF EndRead, Become, TypeInv, Processes
  <1>. QED BY <1>2 DEF Worker

AllReturned(r, given, gone) == \A l \in Leases : given[l] = r => l \in gone

\* A process or a row that says the lease was released is right, as long as no save
\* overwrites the row.
ToldInv ==
    /\ \A w \in Workers : worker[w].leaseReleased = "YES" =>
          /\ worker[w].step \in After
          /\ lost[worker[w].run] = Null => AllReturned(worker[w].run, grantee, closed)
    /\ \A r \in Runs : run[r].leaseReleased = "YES" /\ lost[r] = Null =>
          run[r].status \in {"SUCCEEDED", "FAILED"} /\ AllReturned(r, grantee, closed)

\* No lease is granted to a run but by the checkout of the process that executes it.
LEMMA ReturnedKept ==
    ASSUME TypeInv, LeaseInv, OwnedInv, [Next]_vars, NEW r \in Runs, lost[r] = Null,
           AllReturned(r, grantee, closed),
           \/ run[r].status # "RUNNING"
           \/ \E w \in Workers : worker[w].step \in After /\ worker[w].run = r
    PROVE  AllReturned(r, grantee', closed')
  <1>1. CASE grantee' = grantee /\ closed \subseteq closed'
    BY <1>1 DEF AllReturned
  <1>2. ASSUME NEW w \in Workers, NEW l \in Leases, Checkout(w, l)
        PROVE  AllReturned(r, grantee', closed')
    <2>1. worker[w].step = "READY" /\ worker[w].step \in Owning
      BY <1>2, CheckoutEffect DEF Owning
    <2>2. worker[w].run # r
      <3>1. ASSUME NEW v \in Workers, worker[v].step \in After, worker[v].run = worker[w].run,
                   worker[w].run = r
            PROVE  FALSE
        <4>1. worker[v].step \in Owning /\ v # w
          BY <2>1, <3>1 DEF Owning, After
        <4>. QED BY <2>1, <3>1, <4>1 DEF OwnedInv, Intact
      <3>2. worker[w].run = r => run[r].status = "RUNNING"
        BY <2>1 DEF OwnedInv, Intact
      <3>. QED BY <3>1, <3>2
    <2>3. /\ grantee'[l] = worker[w].run
          /\ \A m \in Leases \ {l} : grantee'[m] = grantee[m]
      BY <1>2 DEF Checkout, TypeInv, Outer
    <2>4. closed \subseteq closed'
      BY <1>2, HistoryGrows DEF HistoryKept
    <2>. QED BY <2>2, <2>3, <2>4 DEF AllReturned
  <1>. QED BY <1>1, <1>2, LeaseSteps

LEMMA ToldWorker ==
    ASSUME TypeInv, LostInv, LeaseInv, OwnedInv, GrantInv, ToldInv, [Next]_vars,
           NEW w \in Workers, worker'[w].leaseReleased = "YES"
    PROVE  /\ worker'[w].step \in After
           /\ lost'[worker'[w].run] = Null => AllReturned(worker'[w].run, grantee', closed')
  <1>0. \A r \in Runs : lost'[r] = Null => lost[r] = Null
    BY StatusesKept
  <1>1. CASE worker'[w] = worker[w]
    <2>1. /\ worker[w].step \in After
          /\ lost[worker[w].run] = Null => AllReturned(worker[w].run, grantee, closed)
      BY <1>1 DEF ToldInv
    <2>2. worker[w].run \in Runs
      BY <2>1, OwnedRuns DEF Owning
    <2>. QED BY <1>0, <1>1, <2>1, <2>2, ReturnedKept
  <1>2. CASE Release(w)
    <2>1. PICK p \in Profiles, l \in Leases :
             /\ worker[w].acquired = <<p, l>>
             /\ worker[w].acquired[1] = p /\ worker[w].acquired[2] = l
      BY <1>2, Pairs DEF Release, Holding
    <2>2. Lock!Release(p, l)
      BY <1>2, <2>1, ReleaseEffect
    <2>3. grantee[l] = worker[w].run /\ grantee[l] # Null /\ worker[w].run \in Runs
      BY <1>2, <2>1, OwnedRuns, NullValues
         DEF Release, LeaseInv, HolderInv, Holding, Owning
    <2>4. lost'[worker[w].run] = Null =>
             \A m \in Leases : grantee[m] = worker[w].run => m = l
      BY <1>0, <2>3 DEF GrantInv
    <2>5. l \in closed' /\ grantee' = grantee
      BY <1>2, <2>2 DEF Lock!Release, Release
    <2>. QED BY <1>2, <2>4, <2>5, ReleaseEffect DEF AllReturned, After
  <1>3. CASE EndSave(w) \/ Leaves(w)
    <2>1. Quit(w) \/ Done(w) \/ Become(w, IdleWorker)
      BY <1>3 DEF EndSave, Leaves, Exit, Crash, Restart
    <2>. QED BY <2>1, LeavingFlags
  <1>4. CASE Proceeds(w)
    <2>1. worker[w].leaseReleased = "YES"
      BY <1>4, FlagSteps
    <2>2. /\ worker[w].step \in After
          /\ lost[worker[w].run] = Null => AllReturned(worker[w].run, grantee, closed)
      BY <2>1 DEF ToldInv
    <2>3. worker[w].run \in Runs
      BY <2>2, OwnedRuns DEF Owning
    <2>4. worker'[w].step \in After /\ worker'[w].run = worker[w].run
      <3>1. CASE Apply(w)
        BY <3>1, ApplyEffect DEF After
      <3>2. CASE Interrupt(w)
        BY <2>2, <3>2, InterruptEffect
      <3>3. CASE EndRead(w)
        <4>1. ~Done(w)
          BY LeavingFlags
        <4>2. worker'[w].step = "SAVING"
          BY <3>3, <4>1, EndReadDone
        <4>. QED BY <3>3, <4>2, EndReadEffect DEF After
      <3>4. CASE \/ Load(w) \/ ToolRead(w) \/ ToolStart(w) \/ CheckoutRefused(w)
                 \/ AttachRead(w) \/ AttachSave(w) \/ Operates(w)
                 \/ (\E r \in Runs : Claim(w, r))
                 \/ (\E r \in Runs, p \in Profiles : ToolRequest(w, r, p))
                 \/ (\E l \in Leases : Checkout(w, l))
        <4>1. worker[w].step \notin After
          BY <3>4, WorkingSteps
        <4>. QED BY <2>2, <4>1
      <3>. QED BY <1>4, <3>1, <3>2, <3>3, <3>4 DEF Proceeds
    <2>. QED BY <1>0, <2>2, <2>3, <2>4, ReturnedKept
  <1>. QED BY <1>1, <1>2, <1>3, <1>4, ProcessSteps, StepKinds

LEMMA ToldRow ==
    ASSUME TypeInv, LostInv, LeaseInv, OwnedInv, ToldInv, [Next]_vars,
           NEW r \in Runs, run'[r].leaseReleased = "YES", lost'[r] = Null
    PROVE  run'[r].status \in {"SUCCEEDED", "FAILED"} /\ AllReturned(r, grantee', closed')
  <1>0. lost[r] = Null
    BY StatusesKept
  <1>1. CASE run[r].leaseReleased = "YES"
    <2>1. run[r].status \in {"SUCCEEDED", "FAILED"} /\ AllReturned(r, grantee, closed)
      BY <1>0, <1>1 DEF ToldInv
    <2>. QED BY <1>0, <2>1, StatusesKept, ReturnedKept
  <1>2. CASE run[r].leaseReleased # "YES"
    <2>1. Null # "YES"
      BY LeasedRunsNull
    <2>2. PICK w \in Workers : RowEnded(r, w)
      BY <1>2, <2>1, RowsChange DEF RowNext, RowCreated, RowTaken, RowAttached
    <2>3. worker[w].leaseReleased = "YES" /\ worker[w].run = r
      BY <2>1, <2>2 DEF RowEnded
    <2>4. worker[w].step \in After /\ AllReturned(r, grantee, closed)
      BY <1>0, <2>3 DEF ToldInv
    <2>. QED BY <1>0, <2>2, <2>3, <2>4, ReturnedKept DEF RowEnded
  <1>. QED BY <1>1, <1>2

\* Until a save overwrites the row of its run, a process or a row that says the lease
\* was released is right.
THEOREM ToldSafe == Spec => []ToldInv
  <1>1. Init => ToldInv
    BY LeasedRunsNull DEF Init, IdleWorker, NoRun, ToldInv
  <1>2. TypeInv /\ LostInv /\ LeaseInv /\ OwnedInv /\ GrantInv /\ ToldInv /\ [Next]_vars
        => ToldInv'
    <2>. SUFFICES ASSUME TypeInv, LostInv, LeaseInv, OwnedInv, GrantInv, ToldInv, [Next]_vars
                  PROVE  ToldInv'
      OBVIOUS
    <2>. QED BY ToldWorker, ToldRow DEF ToldInv, AllReturned
  <1>. QED BY <1>1, <1>2, TypeSafe, LostSafe, LeaseSafe, OwnedSafe, GrantsSafe, PTL DEF Spec

\* An exercise that has attached its lease, or succeeded, shows it in its row.
Shows(w, state) ==
    /\ Serves(w) = "EXERCISE"
    /\ state.step \in {"ATTACHED", "BROWSING"} \/ state.verdict = "SUCCEED"

ShownInv ==
    /\ \A w \in Workers : Shows(w, worker[w]) =>
          /\ worker[w].acquired # Null
          /\ lost[worker[w].run] = Null => run[worker[w].run].lease = worker[w].acquired[2]
    /\ \A r \in Runs :
          lost[r] = Null /\ run[r].kind = "EXERCISE" /\ run[r].status = "SUCCEEDED"
          => run[r].lease \in closed

\* The steps of a process between its checkout and the end of its run.
LEMMA GoingOn ==
    ASSUME TypeInv, NEW w \in Workers, worker[w].step \in Holding \cup After,
           Proceeds(w) \/ Release(w) \/ EndSave(w) \/ Leaves(w)
    PROVE  \/ worker'[w].run = worker[w].run /\ worker'[w].acquired = worker[w].acquired
           \/ worker'[w].verdict = Null /\ worker'[w].step \notin {"ATTACHED", "BROWSING"}
  <1>1. CASE AttachRead(w) \/ AttachSave(w) \/ Operates(w) \/ Apply(w) \/ Interrupt(w)
             \/ Release(w)
    BY <1>1, AttachReadEffect, AttachSaveEffect, OperateEffect, ApplyEffect,
       InterruptEffect, ReleaseEffect
  <1>2. CASE EndRead(w)
    <2>1. CASE Done(w)
      BY <1>2, <2>1, EndReadEffect, LeavingFlags
    <2>2. CASE ~Done(w)
      BY <1>2, <2>2, EndReadDone, EndReadEffect
    <2>. QED BY <2>1, <2>2
  <1>3. CASE EndSave(w) \/ Leaves(w)
    <2>1. Quit(w) \/ Done(w) \/ Become(w, IdleWorker)
      BY <1>3 DEF EndSave, Leaves, Exit, Crash, Restart
    <2>2. worker'[w].step \notin {"ATTACHED", "BROWSING"}
      BY <1>3, EndSaveEffect, LeaveEffect
    <2>. QED BY <2>1, <2>2, LeavingFlags
  <1>4. ~ (\/ Load(w) \/ ToolRead(w) \/ ToolStart(w) \/ CheckoutRefused(w)
           \/ (\E r \in Runs : Claim(w, r))
           \/ (\E r \in Runs, p \in Profiles : ToolRequest(w, r, p))
           \/ (\E l \in Leases : Checkout(w, l)))
    BY DEF Load, ToolRead, ToolStart, CheckoutRefused, Claim, ToolRequest, Checkout,
           Holding, After
  <1>. QED BY <1>1, <1>2, <1>3, <1>4 DEF Proceeds

LEMMA ShowsSteps ==
    ASSUME TypeInv, StepInv, ShownInv, NEW w \in Workers, ~AttachSave(w),
           Proceeds(w) \/ Release(w) \/ EndSave(w) \/ Leaves(w),
           Shows(w, worker'[w])
    PROVE  /\ Shows(w, worker[w])
           /\ worker'[w].run = worker[w].run /\ worker'[w].acquired = worker[w].acquired
  <1>1. Shows(w, worker[w])
    <2>1. CASE worker'[w].step \in {"ATTACHED", "BROWSING"}
      BY <2>1, StepKinds DEF Shows
    <2>2. CASE worker'[w].verdict = "SUCCEED"
      <3>1. CASE EndSave(w) \/ Leaves(w)
        <4>1. Quit(w) \/ Done(w) \/ Become(w, IdleWorker)
          BY <3>1 DEF EndSave, Leaves, Exit, Crash, Restart
        <4>. QED BY <2>2, <4>1, LeavingFlags, NullValues
      <3>2. CASE Release(w)
        BY <2>2, <3>2, ReleaseEffect DEF Shows
      <3>3. CASE Proceeds(w)
        BY <2>2, <3>3, FlagSteps DEF Shows, StepInv
      <3>. QED BY <3>1, <3>2, <3>3
    <2>. QED BY <2>1, <2>2 DEF Shows
  <1>2. worker[w].step \in Holding \cup After
    BY <1>1 DEF ShownInv, TypeInv, Processes, Coherent
  <1>. QED BY <1>1, <1>2, GoingOn, NullValues DEF Shows

\* Nobody but its process writes the row of an executed run that stays intact.
LEMMA LeaseColumn ==
    ASSUME TypeInv, LostInv, OwnedInv, [Next]_vars, NEW w \in Workers,
           worker[w].step \in Owning, ~AttachSave(w), ~EndSave(w),
           NEW r \in Runs, r = worker[w].run, lost'[r] = Null
    PROVE  run'[r] = run[r] /\ lost[r] = Null
  <1>1. RowNext(r) /\ lost[r] = Null
    BY RowsChange
  <1>2. run[r].status = "RUNNING"
    BY <1>1 DEF OwnedInv, Intact
  <1>3. ASSUME NEW v \in Workers, RowAttached(r, v) \/ RowEnded(r, v)
        PROVE  FALSE
    <2>1. worker[v].run = r /\ (AttachSave(v) \/ EndSave(v))
      BY <1>3 DEF RowAttached, RowEnded
    <2>2. worker[v].step \in Owning
      BY <2>1, AttachSaveEffect, EndSaveEffect DEF Owning, Holding, After
    <2>3. v = w
      BY <1>1, <2>1, <2>2 DEF OwnedInv, Intact
    <2>. QED BY <2>1, <2>3
  <1>. QED BY <1>1, <1>2, <1>3 DEF RowNext, RowCreated, RowTaken

LEMMA ShownWorker ==
    ASSUME TypeInv, LostInv, OwnedInv, StepInv, ShownInv, [Next]_vars,
           NEW w \in Workers, Shows(w, worker'[w])
    PROVE  /\ worker'[w].acquired # Null
           /\ lost'[worker'[w].run] = Null =>
                 run'[worker'[w].run].lease = worker'[w].acquired[2]
  <1>1. CASE AttachSave(w)
    BY <1>1, AttachSaveEffect, LeasedRunsNull
  <1>2. CASE ~AttachSave(w)
    <2>1. /\ Shows(w, worker[w])
          /\ worker'[w].run = worker[w].run /\ worker'[w].acquired = worker[w].acquired
      <3>1. CASE worker'[w] = worker[w]
        BY <3>1
      <3>2. CASE Proceeds(w) \/ Release(w) \/ EndSave(w) \/ Leaves(w)
        BY <1>2, <3>2, ShowsSteps
      <3>. QED BY <3>1, <3>2, ProcessSteps, StepKinds
    <2>2. /\ worker[w].acquired # Null
          /\ lost[worker[w].run] = Null => run[worker[w].run].lease = worker[w].acquired[2]
      BY <2>1 DEF ShownInv
    <2>3. worker[w].step \in Owning
      BY <2>2 DEF TypeInv, Processes, Coherent, Owning
    <2>4. PICK r \in Runs : r = worker[w].run
      BY <2>3, OwnedRuns
    <2>5. ~EndSave(w)
      BY <2>1, <2>4, EndSaveEffect, NullValues
    <2>. QED BY <1>2, <2>1, <2>2, <2>3, <2>4, <2>5, LeaseColumn
  <1>. QED BY <1>1, <1>2

LEMMA ShownRow ==
    ASSUME TypeInv, LostInv, LeaseInv, OwnedInv, ShownInv, [Next]_vars, NEW r \in Runs,
           lost'[r] = Null, run'[r].kind = "EXERCISE", run'[r].status = "SUCCEEDED"
    PROVE  run'[r].lease \in closed'
  <1>1. closed \subseteq closed' /\ lost[r] = Null
    BY LeaseSteps, HistoryGrows, StatusesKept DEF HistoryKept
  <1>2. CASE run[r].status = "SUCCEEDED"
    <2>1. run'[r] = run[r]
      BY <1>2, StatusesKept
    <2>. QED BY <1>1, <1>2, <2>1 DEF ShownInv
  <1>3. CASE run[r].status # "SUCCEEDED"
    <2>1. PICK w \in Workers : RowEnded(r, w)
      BY <1>3, RowsChange DEF RowNext, RowCreated, RowTaken, RowAttached
    <2>2. /\ EndSave(w) /\ worker[w].run = r /\ worker[w].verdict = "SUCCEED"
          /\ run'[r].lease = worker[w].seen.lease /\ worker[w].seen = run[r]
      BY <2>1 DEF RowEnded
    <2>3. Serves(w) = "EXERCISE"
      <3>1. run'[r].kind = run[r].kind
        BY <2>1, EndSaveEffect DEF RowEnded, Kept
      <3>2. run[r].kind = Serves(w)
        BY <2>2, NullValues DEF TypeInv, Processes, Attached
      <3>. QED BY <3>1, <3>2
    <2>4. worker[w].step = "SAVING"
      BY <2>2, <2>3 DEF EndSave
    <2>5. run[r].lease = worker[w].acquired[2]
      BY <1>1, <2>2, <2>3 DEF ShownInv, Shows
    <2>6. worker[w].acquired[2] \in closed
      BY <2>2, <2>4 DEF LeaseInv, EarnedInv, Succeeds, After
    <2>. QED BY <1>1, <2>2, <2>5, <2>6
  <1>. QED BY <1>2, <1>3

\* Until a save overwrites its row, a successful exercise shows the lease that it
\* released.
THEOREM ShownSafe == Spec => []ShownInv
  <1>1. Init => ShownInv
    BY NullValues DEF Init, IdleWorker, NoRun, Shows, ShownInv
  <1>2. TypeInv /\ LostInv /\ LeaseInv /\ OwnedInv /\ StepInv /\ ShownInv /\ [Next]_vars
        => ShownInv'
    <2>. SUFFICES ASSUME TypeInv, LostInv, LeaseInv, OwnedInv, StepInv, ShownInv, [Next]_vars
                  PROVE  ShownInv'
      OBVIOUS
    <2>1. \A w \in Workers : Shows(w, worker'[w]) =>
             /\ worker'[w].acquired # Null
             /\ lost'[worker'[w].run] = Null =>
                   run'[worker'[w].run].lease = worker'[w].acquired[2]
      BY ShownWorker
    <2>2. \A r \in Runs :
             lost'[r] = Null /\ run'[r].kind = "EXERCISE" /\ run'[r].status = "SUCCEEDED"
             => run'[r].lease \in closed'
      BY ShownRow
    <2>. QED BY <2>1, <2>2 DEF ShownInv, Shows
  <1>. QED BY <1>1, <1>2, TypeSafe, LostSafe, LeaseSafe, OwnedSafe, StepsSafe, PTL DEF Spec

\* Whatever requests and processes overlap, what an ended run says of its lease is
\* true unless a save overwrote its row: whoever looks at the tables finds each
\* lease still open.
THEOREM RecordsTellLeases == Spec => []RecordTellsLease
  <1>1. LeaseInv /\ RowInv /\ GrantInv /\ ToldInv /\ ShownInv /\ TypeInv => RecordTellsLease
    <2>. SUFFICES ASSUME LeaseInv, RowInv, GrantInv, ToldInv, ShownInv, TypeInv
                  PROVE  RecordTellsLease
      OBVIOUS
    <2>1. ASSUME NEW l \in Leases, Open(l), Intact(grantee[l])
          PROVE  /\ run[grantee[l]].status \in {"RUNNING", "FAILED"}
                 /\ run[grantee[l]].leaseReleased # "YES"
      <3>1. PICK p \in Profiles : <<p, l>> \in held
        BY <2>1 DEF Open
      <3>2. grantee[l] # Null /\ l \notin closed
        BY <3>1 DEF GrantInv, LeaseInv, LeaseTable
      <3>3. PICK r \in Runs : r = grantee[l] /\ lost[r] = Null
        BY <2>1, <3>2 DEF TypeInv, Outer, Intact
      <3>4. run[r].status \in {"RUNNING", "SUCCEEDED", "FAILED"}
        BY <3>2, <3>3 DEF GrantInv
      <3>5. run[r].status # "SUCCEEDED"
        <4>1. ASSUME run[r].status = "SUCCEEDED" PROVE FALSE
          <5>1. PICK m \in closed : grantee[m] = r
            BY <4>1 DEF RowInv, Earned
          <5>2. m \in Leases
            BY DEF TypeInv, Outer
          <5>3. m = l
            BY <3>2, <3>3, <5>1, <5>2 DEF GrantInv
          <5>. QED BY <3>2, <5>3
        <4>. QED BY <4>1
      <3>6. run[r].leaseReleased # "YES"
        BY <3>2, <3>3 DEF ToldInv, AllReturned
      <3>. QED BY <3>3, <3>4, <3>5, <3>6
    <2>. QED BY <2>1 DEF RecordTellsLease, ShownInv, Intact
  <1>. QED BY <1>1, TypeSafe, LeaseSafe, RowsSafe, GrantsSafe, ToldSafe, ShownSafe, PTL

-----------------------------------------------------------------------------
(* The access a profile shows *)

AccessRun(r, p) == run[r].status # "ABSENT" /\ run[r].kind = "ACCESS" /\ run[r].profile = p

\* No save overwrote a check of the profile.
Clean(p) == \A q \in Runs : AccessRun(q, p) => lost[q] = Null

\* The request times order the runs, also in the rows the processes have seen.
DatedInv ==
    /\ \A r \in Runs : run[r].status # "ABSENT" => run[r].requested < Cardinality(Created)
    /\ \A w \in Workers : worker[w].seen # Null =>
          worker[w].seen.requested = run[worker[w].run].requested

\* An active access check is the only one of its profile, and the newest.
NewestInv ==
    \A p \in Profiles : Clean(p) =>
        \A r \in Runs, q \in Runs :
            AccessRun(r, p) /\ AccessRun(q, p) /\ run[r].status \in Active =>
               /\ run[q].requested <= run[r].requested
               /\ run[q].status \in Active => q = r

\* A check that is about to succeed has been stored.
StoredInv ==
    /\ \A p \in Profiles : access[p] # Null => AccessRun(access[p], p)
    /\ \A p \in Profiles, w \in Workers :
          /\ Clean(p) /\ Serves(w) = "ACCESS" /\ worker[w].seen.profile = p
          /\ worker[w].step = "ENDING" /\ worker[w].verdict = "SUCCEED"
          => access[p] = worker[w].run
    /\ \A p \in Profiles, r \in Runs :
          Clean(p) /\ AccessRun(r, p) /\ run[r].status = "SUCCEEDED"
          => access[p] # Null /\ run[r].requested <= run[access[p]].requested

\* What a process has seen of its run it keeps, or reads and writes anew.
LEMMA SeenSteps ==
    ASSUME TypeInv, [Next]_vars, NEW w \in Workers
    PROVE  \/ worker'[w].seen = Null
           \/ worker'[w].seen = worker[w].seen /\ worker'[w].run = worker[w].run
           \/ worker'[w].run \in Runs /\ worker'[w].seen = run'[worker'[w].run]
  <1>. DEFINE Goal == \/ worker'[w].seen = Null
                      \/ worker'[w].seen = worker[w].seen /\ worker'[w].run = worker[w].run
                      \/ worker'[w].run \in Runs /\ worker'[w].seen = run'[worker'[w].run]
  <1>. SUFFICES Goal
    OBVIOUS
  <1>1. CASE worker'[w] = worker[w]
    BY <1>1
  <1>2. CASE \/ (\E r \in Runs : Claim(w, r)) \/ ToolStart(w) \/ AttachSave(w) \/ EndSave(w)
             \/ (\E r \in Runs, p \in Profiles : ToolRequest(w, r, p)) \/ Leaves(w)
    BY <1>2, ClaimEffect, ToolStartEffect, AttachSaveEffect, EndSaveEffect,
       ToolRequestEffect, LeaveEffect
  <1>3. CASE \/ CheckoutRefused(w) \/ Operates(w) \/ Interrupt(w) \/ Apply(w) \/ Release(w)
             \/ \E l \in Leases : Checkout(w, l)
    BY <1>3, RefusedEffect, OperateEffect, InterruptEffect, ApplyEffect, ReleaseEffect,
       CheckoutEffect
  <1>4. CASE Load(w) \/ ToolRead(w) \/ AttachRead(w) \/ EndRead(w)
    <2>1. /\ run' = run /\ worker[w].run \in Runs \cup {Null}
          /\ worker'[w].seen # Null => worker'[w].run # Null
      <3>1. Processes' /\ run' = run
        BY <1>4, LoadEffect, ToolReadEffect, AttachReadEffect, EndReadEffect
           DEF Load, ToolRead, AttachRead, EndRead
      <3>. QED BY <3>1 DEF Processes, Coherent, TypeInv, Worker
    <2>2. \/ worker'[w].seen = Null
          \/ /\ worker'[w].run = worker[w].run
             /\ worker'[w].seen \in {worker[w].seen, run[worker[w].run]}
      <3>1. CASE ToolRead(w)
        <4>1. worker'[w].step # "STARTING" => worker'[w].run = Null
          BY <3>1, ToolReadEffect DEF Processes, Coherent
        <4>. QED BY <3>1, <4>1, ToolReadEffect
      <3>2. CASE Load(w) \/ AttachRead(w) \/ EndRead(w)
        BY <3>2, LoadEffect, AttachReadEffect, EndReadEffect
      <3>. QED BY <1>4, <3>1, <3>2
    <2>. QED BY <2>1, <2>2
  <1>. HIDE DEF Goal
  <1>. QED BY <1>1, <1>2, <1>3, <1>4, ProcessSteps, StepKinds DEF Proceeds

LEMMA NextKept ==
    ASSUME TypeInv, [Next]_vars
    PROVE  Kept
  <1>1. CASE Api \/ UNCHANGED vars
    BY <1>1, RequestEffect, CommitCancelEffect DEF Api, BeginCancel, vars, Kept
  <1>2. ASSUME NEW w \in Workers, Proceeds(w) \/ Release(w) \/ EndSave(w) \/ Leaves(w)
        PROVE  Kept
    BY <1>2, LoadEffect, ToolReadEffect, ToolStartEffect, RefusedEffect, AttachReadEffect,
       AttachSaveEffect, OperateEffect, ApplyEffect, EndReadEffect, InterruptEffect,
       ClaimEffect, ToolRequestEffect, CheckoutEffect, ReleaseEffect, EndSaveEffect,
       LeaveEffect DEF Proceeds
  <1>3. ASSUME NEW w \in Workers, WorkerStep(w) \/ Operate(w)
        PROVE  Proceeds(w) \/ Release(w) \/ EndSave(w) \/ Leaves(w)
    BY <1>3 DEF WorkerStep, Operate, Proceeds, Operates, Leaves
  <1>. QED BY <1>1, <1>2, <1>3 DEF Next

\* No save changes when a run was requested: a stale row is a row of the same run.
LEMMA DateKept ==
    ASSUME TypeInv, DatedInv, [Next]_vars, NEW r \in Runs, run[r].status # "ABSENT"
    PROVE  run'[r].requested = run[r].requested
  <1>1. ASSUME NEW q \in Runs, NEW kind \in Kinds, NEW p \in Profiles, Request(q, kind, p)
        PROVE  run'[r] = run[r]
    BY <1>1, RequestEffect
  <1>2. ASSUME NEW o \in Operators, CommitCancel(o)
        PROVE  run'[r].requested = run[r].requested
    BY <1>2, CommitCancelEffect
  <1>3. ASSUME NEW w \in Workers, NEW q \in Runs, Claim(w, q)
        PROVE  run'[r].requested = run[r].requested
    BY <1>3, ClaimEffect
  <1>4. ASSUME NEW w \in Workers, NEW q \in Runs, NEW p \in Profiles, ToolRequest(w, q, p)
        PROVE  run'[r] = run[r]
    BY <1>4, ToolRequestEffect
  <1>5. ASSUME NEW w \in Workers, ToolStart(w) \/ AttachSave(w) \/ EndSave(w)
        PROVE  run'[r].requested = run[r].requested
    <2>1. PICK q \in Runs : q = worker[w].run
      BY <1>5, ToolStartEffect, AttachSaveEffect, EndSaveEffect
    <2>2. /\ run'[q].requested = worker[w].seen.requested
          /\ \A x \in Runs \ {q} : run'[x] = run[x]
      BY <1>5, <2>1, ToolStartEffect, AttachSaveEffect, EndSaveEffect
    <2>3. worker[w].seen # Null
      BY <1>5, ToolStartEffect, AttachSaveEffect, EndSaveEffect, NullValues
         DEF TypeInv, Processes, Coherent, Holding
    <2>4. worker[w].seen.requested = run[q].requested
      BY <2>1, <2>3 DEF DatedInv
    <2>. QED BY <2>2, <2>4
  <1>6. CASE run' = run
    BY <1>6
  <1>7. (\E o \in Operators, q \in Runs : BeginCancel(o, q)) \/ UNCHANGED vars => run' = run
    BY DEF BeginCancel, vars
  <1>. QED BY <1>1, <1>2, <1>3, <1>4, <1>5, <1>6, <1>7, RowsKept
           DEF Next, Api, WorkerStep, Operate, Operates, Leaves

\* A run is created as the newest, a check only when no other of its profile is active.
LEMMA CreatedRuns ==
    ASSUME TypeInv, [Next]_vars, NEW r \in Runs, run[r].status = "ABSENT",
           run'[r].status # "ABSENT"
    PROVE  /\ run'[r].requested = Cardinality(Created)
           /\ \A q \in Runs \ {r} : run'[q] = run[q]
           /\ run'[r].kind = "ACCESS" =>
                 \A q \in Runs : run[q].kind = "ACCESS" /\ run[q].profile = run'[r].profile
                                 => run[q].status \notin Active
  <1>1. ASSUME NEW q \in Runs, NEW kind \in Kinds, NEW p \in Profiles, Request(q, kind, p)
        PROVE  /\ run'[r].requested = Cardinality(Created)
               /\ \A x \in Runs \ {r} : run'[x] = run[x]
               /\ run'[r].kind = "ACCESS" =>
                     \A x \in Runs : run[x].kind = "ACCESS" /\ run[x].profile = run'[r].profile
                                     => run[x].status \notin Active
    <2>1. q = r
      BY <1>1, RequestEffect
    <2>2. /\ run'[r].requested = Cardinality(Created) /\ run'[r].kind = kind
          /\ \A x \in Runs \ {r} : run'[x] = run[x]
          /\ kind = "ACCESS" => run'[r].profile = p
      BY <1>1, <2>1, RequestEffect
    <2>3. kind = "ACCESS" => \A x \in Runs : run[x].kind = "ACCESS" /\ run[x].profile = p
                                             => run[x].status \notin Active
      BY <1>1 DEF Request
    <2>. QED BY <2>2, <2>3
  <1>2. ASSUME NEW w \in Workers, NEW q \in Runs, NEW p \in Profiles, ToolRequest(w, q, p)
        PROVE  /\ run'[r].requested = Cardinality(Created) /\ run'[r].kind # "ACCESS"
               /\ \A x \in Runs \ {r} : run'[x] = run[x]
    BY <1>2, ToolRequestEffect
  <1>3. ASSUME NEW w \in Workers, NEW q \in Runs, Claim(w, q)
        PROVE  FALSE
    BY <1>3, ClaimEffect
  <1>4. ASSUME NEW o \in Operators, CommitCancel(o)
        PROVE  FALSE
    <2>1. PICK q \in Runs : q = cancel[o] /\ \A x \in Runs \ {q} : run'[x] = run[x]
      BY <1>4, CommitCancelEffect
    <2>2. run[q].status # "ABSENT"
      BY <2>1, NullValues DEF TypeInv, Cancels
    <2>. QED BY <2>1, <2>2
  <1>5. ASSUME NEW w \in Workers, ToolStart(w) \/ AttachSave(w) \/ EndSave(w)
        PROVE  FALSE
    <2>1. worker[w].run \in Runs /\ \A q \in Runs \ {worker[w].run} : run'[q] = run[q]
      BY <1>5, ToolStartEffect, AttachSaveEffect, EndSaveEffect
    <2>2. run[worker[w].run].status # "ABSENT"
      BY <2>1, NullValues DEF TypeInv, Processes, Attached
    <2>. QED BY <2>1, <2>2
  <1>6. run' # run
    OBVIOUS
  <1>7. ~ ((\E o \in Operators, q \in Runs : BeginCancel(o, q)) \/ UNCHANGED vars)
    BY <1>6 DEF BeginCancel, vars
  <1>. QED BY <1>1, <1>2, <1>3, <1>4, <1>5, <1>6, <1>7, RowsKept
           DEF Next, Api, WorkerStep, Operate, Operates, Leaves

LEMMA DatedStep ==
    ASSUME TypeInv, TypeInv', DatedInv, [Next]_vars
    PROVE  DatedInv'
  <1>1. /\ IsFiniteSet(Created) /\ IsFiniteSet(Created')
        /\ Cardinality(Created) \in Nat /\ Cardinality(Created') \in Nat
    <2>1. Created \subseteq Runs /\ Created' \subseteq Runs
      BY DEF Created
    <2>. QED BY <2>1, LeasedRunsFinite, FS_Subset, FS_CardinalityType
  <1>2. Created \subseteq Created'
    BY NextKept DEF Kept, Created
  <1>3. Cardinality(Created) <= Cardinality(Created')
    BY <1>1, <1>2, FS_Subset
  <1>4. ASSUME NEW r \in Runs, run'[r].status # "ABSENT"
        PROVE  run'[r].requested < Cardinality(Created')
    <2>1. CASE run[r].status # "ABSENT"
      <3>1. run[r].requested < Cardinality(Created) /\ run[r].requested \in Nat
        BY <2>1 DEF DatedInv, TypeInv, Rows, Run
      <3>2. run'[r].requested = run[r].requested
        BY <2>1, DateKept
      <3>. QED BY <1>1, <1>3, <3>1, <3>2
    <2>2. CASE run[r].status = "ABSENT"
      <3>1. run'[r].requested = Cardinality(Created)
        BY <1>4, <2>2, CreatedRuns
      <3>2. r \notin Created /\ Created \cup {r} \subseteq Created'
        BY <1>2, <1>4, <2>2 DEF Created
      <3>3. Cardinality(Created \cup {r}) = Cardinality(Created) + 1
        BY <1>1, <3>2, FS_AddElement
      <3>4. Cardinality(Created \cup {r}) <= Cardinality(Created')
        BY <1>1, <3>2, FS_Subset
      <3>. QED BY <1>1, <3>1, <3>3, <3>4
    <2>. QED BY <2>1, <2>2
  <1>5. ASSUME NEW w \in Workers, worker'[w].seen # Null
        PROVE  worker'[w].seen.requested = run'[worker'[w].run].requested
    <2>1. CASE worker'[w].seen = worker[w].seen /\ worker'[w].run = worker[w].run
      <3>1. worker[w].run \in Runs /\ run[worker[w].run].status # "ABSENT"
        BY <1>5, <2>1 DEF TypeInv, Processes, Coherent, Attached, Worker
      <3>2. worker[w].seen.requested = run[worker[w].run].requested
        BY <1>5, <2>1 DEF DatedInv
      <3>. QED BY <2>1, <3>1, <3>2, DateKept
    <2>. QED BY <1>5, <2>1, SeenSteps
  <1>. QED BY <1>4, <1>5 DEF DatedInv

\* Whatever rows are overwritten, the times of the requests order the runs, as stored
\* and as the processes have read them.
THEOREM DatesSafe == Spec => []DatedInv
  <1>1. Init => DatedInv
    BY DEF Init, NoRun, IdleWorker, DatedInv
  <1>. QED BY <1>1, DatedStep, TypeSafe, PTL DEF Spec

\* A profile whose checks are intact after a step had them intact before.
LEMMA CleanBefore ==
    ASSUME TypeInv, LostInv, [Next]_vars, NEW p \in Profiles, Clean(p)'
    PROVE  /\ Clean(p)
           /\ \A r \in Runs : AccessRun(r, p) => AccessRun(r, p)' /\ lost'[r] = Null
  <1>1. \A r \in Runs : AccessRun(r, p) => AccessRun(r, p)'
    BY NextKept DEF Kept, AccessRun
  <1>2. \A r \in Runs : lost'[r] = Null => lost[r] = Null
    BY StepNotes DEF Noted, Intact
  <1>. QED BY <1>1, <1>2 DEF Clean

\* An ended check is not active again.
LEMMA ActiveBefore ==
    ASSUME TypeInv, LostInv, OwnedInv, [Next]_vars, NEW r \in Runs, lost'[r] = Null,
           run[r].status # "ABSENT", run'[r].status \in Active
    PROVE  run[r].status \in Active
  BY RowsChange DEF RowNext, RowCreated, RowTaken, RowAttached, RowEnded, Active

LEMMA NewestStep ==
    ASSUME TypeInv, LostInv, OwnedInv, DatedInv, NewestInv, [Next]_vars
    PROVE  NewestInv'
  <1>. SUFFICES ASSUME NEW p \in Profiles, Clean(p)', NEW r \in Runs, NEW q \in Runs,
                       AccessRun(r, p)', AccessRun(q, p)', run'[r].status \in Active
                PROVE  /\ run'[q].requested <= run'[r].requested
                       /\ run'[q].status \in Active => q = r
    BY DEF NewestInv
  <1>0. Clean(p) /\ lost'[r] = Null /\ lost'[q] = Null
    BY CleanBefore DEF Clean
  <1>1. /\ run'[r].status # "ABSENT" /\ run'[r].kind = "ACCESS" /\ run'[r].profile = p
        /\ run'[q].status # "ABSENT" /\ run'[q].kind = "ACCESS" /\ run'[q].profile = p
    BY DEF AccessRun
  <1>2. Kept
    BY NextKept
  <1>3. /\ run[r].status # "ABSENT" => AccessRun(r, p) /\ run'[r].requested = run[r].requested
        /\ run[q].status # "ABSENT" => AccessRun(q, p) /\ run'[q].requested = run[q].requested
    BY <1>1, <1>2, DateKept DEF Kept, AccessRun
  <1>4. CASE run[r].status # "ABSENT" /\ run[q].status # "ABSENT"
    BY <1>0, <1>3, <1>4, ActiveBefore DEF NewestInv
  <1>5. CASE run[r].status # "ABSENT" /\ run[q].status = "ABSENT"
    <2>1. run[r].status \in Active
      BY <1>0, <1>5, ActiveBefore
    <2>2. run[r].status \notin Active
      BY <1>1, <1>3, <1>5, CreatedRuns DEF AccessRun
    <2>. QED BY <2>1, <2>2
  <1>6. CASE run[r].status = "ABSENT"
    <2>1. run'[r].requested = Cardinality(Created) /\ \A x \in Runs \ {r} : run'[x] = run[x]
      BY <1>1, <1>6, CreatedRuns
    <2>2. Cardinality(Created) \in Nat
      BY LeasedRunsFinite, FS_Subset, FS_CardinalityType DEF Created
    <2>3. CASE q = r
      BY <2>1, <2>2, <2>3
    <2>4. CASE q # r
      <3>1. run'[q] = run[q] /\ AccessRun(q, p)
        BY <1>1, <1>3, <2>1, <2>4
      <3>2. run[q].requested < Cardinality(Created) /\ run[q].requested \in Nat
        BY <3>1 DEF DatedInv, AccessRun, TypeInv, Rows, Run
      <3>3. run[q].status \notin Active
        BY <1>1, <1>6, <3>1, CreatedRuns DEF AccessRun
      <3>. QED BY <2>1, <2>2, <3>1, <3>2, <3>3
    <2>. QED BY <2>3, <2>4
  <1>. QED BY <1>4, <1>5, <1>6

\* Until a save overwrites a check of its profile, an active access check is the newest
\* of the profile.
THEOREM NewestSafe == Spec => []NewestInv
  <1>1. Init => NewestInv
    BY DEF Init, NoRun, AccessRun, NewestInv
  <1>. QED BY <1>1, NewestStep, TypeSafe, LostSafe, OwnedSafe, DatesSafe, PTL DEF Spec

LEMMA ApplyStores ==
    ASSUME TypeInv, StepInv, NEW w \in Workers, Apply(w)
    PROVE  /\ Serves(w) = "ACCESS" /\ worker[w].run \in Runs
           /\ worker[w].seen.profile \in Profiles
           /\ AccessRun(worker[w].run, worker[w].seen.profile)
           /\ worker'[w].run = worker[w].run /\ worker'[w].seen = worker[w].seen
           /\ \/ /\ access'[worker[w].seen.profile] = worker[w].run
                 /\ \A p \in Profiles \ {worker[w].seen.profile} : access'[p] = access[p]
              \/ access' = access /\ worker'[w].verdict # "SUCCEED"
  <1>1. worker[w].step = "APPLYING"
    BY DEF Apply
  <1>2. Serves(w) = "ACCESS"
    BY <1>1 DEF StepInv
  <1>3. worker[w] \in Worker /\ Coherent(w, worker[w]) /\ Attached(w, worker[w], run)
    BY DEF TypeInv, Processes
  <1>4. worker[w].run \in Runs /\ worker[w].seen \in Run /\ worker[w].seen # Null
    BY <1>1, <1>3 DEF Coherent, Worker, After
  <1>5. worker[w].seen.profile \in Profiles
        /\ AccessRun(worker[w].run, worker[w].seen.profile)
    <2>1. /\ Named(worker[w].seen) /\ worker[w].seen.kind = "ACCESS"
          /\ worker[w].seen.status # "ABSENT"
      BY <1>2, <1>3, <1>4 DEF Coherent, Active
    <2>2. worker[w].seen.profile \in Profiles
      BY <1>4, <2>1 DEF Named, Run
    <2>. QED BY <1>2, <1>3, <1>4, <2>2, NullValues DEF Attached, AccessRun
  <1>6. \/ access' = [access EXCEPT ![worker[w].seen.profile] = worker[w].run]
        \/ access' = access /\ worker'[w].verdict # "SUCCEED"
    <2>1. CASE /\ \E verdict \in {"CLASSIFICATION_FAILED", "MUTATION_FAILED"} :
                     Refuse(w, verdict)
               /\ UNCHANGED access
      <3>1. PICK verdict \in {"CLASSIFICATION_FAILED", "MUTATION_FAILED"} :
               Refuse(w, verdict)
        BY <2>1
      <3>2. worker[w].step \in {"READY", "APPLYING"} /\ Kept
            /\ verdict \in Failures \cup {"SUCCEED"}
        BY <1>1, ApplyEffect DEF Failures
      <3>3. worker'[w].verdict = verdict
        BY <3>1, <3>2, Refusing
      <3>. QED BY <2>1, <3>3
    <2>. QED BY <2>1 DEF Apply
  <1>. QED BY <1>2, <1>4, <1>5, <1>6, ApplyEffect DEF TypeInv, Outer

LEMMA AccessKept ==
    ASSUME [Next]_vars
    PROVE  access' = access \/ \E w \in Workers : Apply(w)
  <1>1. ASSUME NEW w \in Workers, WorkerStep(w) \/ Operate(w), ~Apply(w)
        PROVE  access' = access
    BY <1>1 DEF WorkerStep, Operate, Claim, Load, ToolRead, ToolStart, CheckoutRefused,
           Checkout, AttachRead, AttachSave, Launch, LaunchFails, BrowserFails, BrowserDone,
           SubmitPayload, SubmittedAll, Release, EndRead, EndSave, Exit, ToolRequest,
           Interrupt, Crash, Restart, outside
  <1>2. Api \/ UNCHANGED vars => access' = access
    BY DEF Api, Request, BeginCancel, CommitCancel, outside, vars
  <1>. QED BY <1>1, <1>2 DEF Next

\* An access check gets to its end with success only by its Apply.
LEMMA EndingSteps ==
    ASSUME TypeInv, NEW w \in Workers, Serves(w) = "ACCESS", ~Apply(w),
           Proceeds(w) \/ Release(w) \/ EndSave(w) \/ Leaves(w),
           worker'[w].step = "ENDING", worker'[w].verdict = "SUCCEED"
    PROVE  /\ worker[w].step = "ENDING" /\ worker[w].verdict = "SUCCEED"
           /\ worker'[w].run = worker[w].run /\ worker'[w].seen = worker[w].seen
  <1>1. CASE Interrupt(w)
    BY <1>1, InterruptEffect
  <1>2. CASE CheckoutRefused(w) \/ \E l \in Leases : Checkout(w, l)
    BY <1>2, RefusedEffect, CheckoutEffect, NullValues DEF Failures
  <1>3. CASE Release(w)
    BY <1>3, ReleaseEffect
  <1>4. CASE \/ Load(w) \/ ToolRead(w) \/ ToolStart(w) \/ AttachRead(w) \/ AttachSave(w)
             \/ Operates(w) \/ EndRead(w) \/ EndSave(w) \/ Leaves(w)
             \/ (\E r \in Runs : Claim(w, r))
             \/ (\E r \in Runs, p \in Profiles : ToolRequest(w, r, p))
    BY <1>4, LoadEffect, ToolReadEffect, ToolStartEffect, AttachReadEffect,
       AttachSaveEffect, OperateEffect, EndReadEffect, EndSaveEffect, LeaveEffect,
       ClaimEffect, ToolRequestEffect
  <1>. QED BY <1>1, <1>2, <1>3, <1>4 DEF Proceeds

\* The check of a profile that a process executes: no other is, and none is newer.
LEMMA ExecutedCheck ==
    ASSUME TypeInv, OwnedInv, NewestInv, NEW p \in Profiles, Clean(p),
           NEW w \in Workers, worker[w].step \in Owning, AccessRun(worker[w].run, p)
    PROVE  /\ \A q \in Runs : AccessRun(q, p) =>
                 run[q].requested <= run[worker[w].run].requested
           /\ \A v \in Workers \ {w} :
                 worker[v].step \in Owning => ~AccessRun(worker[v].run, p)
  <1>1. \A v \in Workers : worker[v].step \in Owning /\ AccessRun(worker[v].run, p) =>
           /\ worker[v].run \in Runs /\ run[worker[v].run].status \in Active
           /\ lost[worker[v].run] = Null
    BY OwnedRuns DEF OwnedInv, Active, Intact, Clean
  <1>2. \A q \in Runs : AccessRun(q, p) =>
           run[q].requested <= run[worker[w].run].requested
    BY <1>1 DEF NewestInv
  <1>3. ASSUME NEW v \in Workers \ {w}, worker[v].step \in Owning,
               AccessRun(worker[v].run, p)
        PROVE  FALSE
    <2>1. worker[v].run = worker[w].run
      BY <1>1, <1>3 DEF NewestInv
    <2>. QED BY <1>1, <1>3, <2>1 DEF OwnedInv, Intact
  <1>. QED BY <1>2, <1>3

LEMMA StoredAccess ==
    ASSUME TypeInv, StepInv, StoredInv, [Next]_vars, NEW p \in Profiles, access'[p] # Null
    PROVE  /\ run'[access'[p]].status # "ABSENT" /\ run'[access'[p]].kind = "ACCESS"
           /\ run'[access'[p]].profile = p
  <1>1. ASSUME NEW r \in Runs, AccessRun(r, p)
        PROVE  /\ run'[r].status # "ABSENT" /\ run'[r].kind = "ACCESS"
               /\ run'[r].profile = p
    BY <1>1, NextKept DEF AccessRun, Kept
  <1>2. PICK r \in Runs : r = access'[p] /\ AccessRun(r, p)
    <2>1. CASE access'[p] = access[p]
      BY <2>1 DEF StoredInv, TypeInv, Outer
    <2>2. ASSUME NEW w \in Workers, Apply(w), access'[p] # access[p]
          PROVE  \E r \in Runs : r = access'[p] /\ AccessRun(r, p)
      BY <2>2, ApplyStores
    <2>. QED BY <2>1, <2>2, AccessKept
  <1>. QED BY <1>1, <1>2

LEMMA StoredEnding ==
    ASSUME TypeInv, LostInv, OwnedInv, StepInv, NewestInv, StoredInv, [Next]_vars,
           NEW p \in Profiles, Clean(p)', NEW w \in Workers, Serves(w) = "ACCESS",
           worker'[w].seen.profile = p,
           worker'[w].step = "ENDING", worker'[w].verdict = "SUCCEED"
    PROVE  access'[p] = worker'[w].run
  <1>0. Clean(p)
    BY CleanBefore
  <1>1. CASE Apply(w)
    BY <1>1, ApplyStores
  <1>2. CASE ~Apply(w)
    <2>1. /\ worker[w].step = "ENDING" /\ worker[w].verdict = "SUCCEED"
          /\ worker'[w].run = worker[w].run /\ worker'[w].seen = worker[w].seen
      <3>1. CASE worker'[w] = worker[w]
        BY <3>1
      <3>2. CASE Proceeds(w) \/ Release(w) \/ EndSave(w) \/ Leaves(w)
        BY <1>2, <3>2, EndingSteps
      <3>. QED BY <3>1, <3>2, ProcessSteps, StepKinds
    <2>2. access[p] = worker[w].run
      BY <1>0, <2>1 DEF StoredInv
    <2>3. CASE access' = access
      BY <2>1, <2>2, <2>3
    <2>4. ASSUME NEW v \in Workers, Apply(v)
          PROVE  access'[p] = worker[w].run
      <3>1. PICK q \in Profiles : q = worker[v].seen.profile /\ AccessRun(worker[v].run, q)
        BY <2>4, ApplyStores
      <3>2. worker[w].step \in Owning /\ worker[v].step \in Owning /\ v # w
        BY <1>2, <2>1, <2>4 DEF Apply, Owning, After
      <3>3. AccessRun(worker[w].run, p)
        <4>1. worker[w] \in Worker /\ Coherent(w, worker[w]) /\ Attached(w, worker[w], run)
          BY DEF TypeInv, Processes
        <4>2. worker[w].run \in Runs /\ worker[w].seen # Null
          BY <2>1, <4>1 DEF Coherent, Worker, After
        <4>. QED BY <2>1, <4>1, <4>2, NullValues DEF Attached, AccessRun
      <3>4. p # q
        BY <1>0, <3>1, <3>2, <3>3, ExecutedCheck
      <3>5. access'[p] = access[p]
        BY <2>4, <3>1, <3>4, ApplyStores
      <3>. QED BY <2>2, <3>5
    <2>. QED BY <2>1, <2>3, <2>4, AccessKept
  <1>. QED BY <1>1, <1>2

LEMMA StoredCurrent ==
    ASSUME TypeInv, TypeInv', LostInv, OwnedInv, StepInv, DatedInv, NewestInv, StoredInv,
           [Next]_vars, NEW p \in Profiles, Clean(p)', NEW r \in Runs, AccessRun(r, p)',
           run'[r].status = "SUCCEEDED"
    PROVE  access'[p] # Null /\ run'[r].requested <= run'[access'[p]].requested
  <1>0. Clean(p) /\ lost'[r] = Null
    BY CleanBefore DEF Clean
  <1>1. run'[r].kind = "ACCESS" /\ run'[r].profile = p
    BY DEF AccessRun
  <1>2. CASE run[r].status = "SUCCEEDED"
    <2>1. run'[r] = run[r]
      BY <1>0, <1>2, StatusesKept
    <2>2. AccessRun(r, p)
      BY <1>1, <1>2, <2>1 DEF AccessRun
    <2>3. access[p] # Null /\ run[r].requested <= run[access[p]].requested
      BY <1>0, <1>2, <2>2 DEF StoredInv
    <2>4. access[p] \in Runs /\ AccessRun(access[p], p)
      BY <2>3 DEF StoredInv, TypeInv, Outer
    <2>5. CASE access'[p] = access[p]
      <3>1. run'[access[p]].requested = run[access[p]].requested
        BY <2>4, DateKept DEF AccessRun
      <3>. QED BY <2>1, <2>3, <2>5, <3>1
    <2>6. ASSUME NEW w \in Workers, Apply(w), access'[p] # access[p]
          PROVE  access'[p] # Null /\ run[r].requested <= run'[access'[p]].requested
      <3>1. /\ access'[p] = worker[w].run /\ AccessRun(worker[w].run, p)
            /\ worker[w].run \in Runs
        BY <2>6, ApplyStores
      <3>2. worker[w].step \in Owning
        BY <2>6 DEF Apply, Owning, After
      <3>3. run[r].requested <= run[worker[w].run].requested
        BY <1>0, <2>2, <3>1, <3>2, ExecutedCheck
      <3>4. run'[worker[w].run].requested = run[worker[w].run].requested
        BY <3>1, DateKept DEF AccessRun
      <3>. QED BY <3>1, <3>3, <3>4, NullValues
    <2>. QED BY <2>1, <2>5, <2>6, AccessKept
  <1>3. CASE run[r].status # "SUCCEEDED"
    <2>1. PICK w \in Workers : RowEnded(r, w)
      BY <1>0, <1>3, RowsChange DEF RowNext, RowCreated, RowTaken, RowAttached
    <2>2. /\ EndSave(w) /\ worker[w].run = r /\ worker[w].verdict = "SUCCEED"
          /\ worker[w].seen = run[r] /\ run[r].status = "RUNNING"
      BY <2>1 DEF RowEnded
    <2>3. run'[r].kind = run[r].kind /\ run'[r].profile = run[r].profile
      BY <2>2, EndSaveEffect DEF Kept
    <2>4. Serves(w) = "ACCESS"
      <3>1. Attached(w, worker[w], run)
        BY DEF TypeInv, Processes
      <3>. QED BY <1>1, <2>2, <2>3, <3>1, NullValues DEF Attached
    <2>5. worker[w].step = "ENDING"
      BY <2>2, <2>4 DEF EndSave
    <2>6. access[p] = r
      BY <1>0, <1>1, <2>2, <2>3, <2>4, <2>5 DEF StoredInv
    <2>7. access' = access
      BY <2>2 DEF EndSave, outside
    <2>8. run'[r].requested \in Nat
      BY DEF TypeInv, Rows, Run
    <2>. QED BY <2>6, <2>7, <2>8, NullValues
  <1>. QED BY <1>2, <1>3

\* Until a save overwrites a check of its profile, an access check that is about to
\* succeed is the one its profile shows.
THEOREM StoredSafe == Spec => []StoredInv
  <1>1. Init => StoredInv
    BY NullValues DEF Init, NoRun, IdleWorker, StoredInv, AccessRun
  <1>2. TypeInv /\ TypeInv' /\ LostInv /\ OwnedInv /\ StepInv /\ DatedInv /\ NewestInv
        /\ StoredInv /\ [Next]_vars => StoredInv'
    <2>. SUFFICES ASSUME TypeInv, TypeInv', LostInv, OwnedInv, StepInv, DatedInv, NewestInv,
                         StoredInv, [Next]_vars
                  PROVE  StoredInv'
      OBVIOUS
    <2>1. \A p \in Profiles : access'[p] # Null =>
             /\ run'[access'[p]].status # "ABSENT" /\ run'[access'[p]].kind = "ACCESS"
             /\ run'[access'[p]].profile = p
      BY StoredAccess
    <2>2. \A p \in Profiles, w \in Workers :
             /\ Clean(p)' /\ Serves(w) = "ACCESS" /\ worker'[w].seen.profile = p
             /\ worker'[w].step = "ENDING" /\ worker'[w].verdict = "SUCCEED"
             => access'[p] = worker'[w].run
      BY StoredEnding
    <2>3. \A p \in Profiles, r \in Runs :
             Clean(p)' /\ AccessRun(r, p)' /\ run'[r].status = "SUCCEEDED"
             => access'[p] # Null /\ run'[r].requested <= run'[access'[p]].requested
      BY StoredCurrent
    <2>. QED BY <2>1, <2>2, <2>3 DEF StoredInv, AccessRun
  <1>. QED BY <1>1, <1>2, TypeSafe, LostSafe, OwnedSafe, StepsSafe, DatesSafe, NewestSafe,
              PTL DEF Spec

\* Whatever requests and processes overlap, a successful check was stored and the
\* access of its profile never shows an older one, until a save overwrites a check of
\* the profile: at most one check of a profile is active, so they are stored in the
\* order of the requests.
THEOREM AccessStaysCurrent == Spec => []AccessIsCurrent
  <1>1. TypeInv /\ StoredInv => AccessIsCurrent
    <2>. SUFFICES ASSUME TypeInv, StoredInv, NEW r \in Runs,
                         run[r].kind = "ACCESS", run[r].status = "SUCCEEDED",
                         \A q \in Runs : run[q].kind = "ACCESS"
                                         /\ run[q].profile = run[r].profile => Intact(q)
                  PROVE  /\ access[run[r].profile] # Null
                         /\ run[r].requested <= run[access[run[r].profile]].requested
      BY DEF AccessIsCurrent
    <2>1. PICK p \in Profiles : p = run[r].profile
      BY DEF TypeInv, Rows, Named, Run
    <2>2. Clean(p) /\ AccessRun(r, p)
      BY <2>1 DEF Clean, AccessRun, Intact
    <2>. QED BY <2>1, <2>2 DEF StoredInv
  <1>. QED BY <1>1, TypeSafe, StoredSafe, PTL
=============================================================================
