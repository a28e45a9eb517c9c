---------------------------- MODULE HomeFeedProofs ---------------------------
(* Theorems about HomeFeedExecution, for every value of its constants. *)
EXTENDS HomeFeedExecution, FiniteSetTheorems, TLAPS

-----------------------------------------------------------------------------
(* Type safety *)

\* Who works on what: a worker in the middle of an execution has a run, an ending
\* one has a verdict, and one that holds a lease knows it.
Coherent(state) ==
    /\ state.run = Null <=> state.step \in {"IDLE", "EXITED"}
    /\ state.step \in {"RELEASING", "ENDING"} => state.verdict # Null
    /\ state.step \in {"LEASED", "SUBMITTING", "RELEASING"} => state.acquired # Null

\* A run that exists has a profile.
Named(row) == row.status # "ABSENT" => row.profile # Null

TypeInv ==
    /\ TypeOK
    /\ \A w \in Workers : Coherent(worker[w])
    /\ \A r \in Runs : Named(run[r])

LEMMA IdleWorkers ==
    /\ \A step \in {"IDLE", "EXITED"} :
          LET state == [IdleWorker EXCEPT !.step = step]
          IN  state \in Worker /\ Coherent(state)
    /\ \A stopping \in BOOLEAN :
          LET state == [IdleWorker EXCEPT !.stopping = stopping]
          IN  state \in Worker /\ Coherent(state)
    /\ IdleWorker \in Worker /\ Coherent(IdleWorker)
  <1>1. 0 \in 0 .. MaxPosts
    BY HomeFeedBounds
  <1>. QED BY <1>1 DEF IdleWorker, Worker, Coherent

LEMMA DecidedState ==
    ASSUME NEW old \in Worker, old.acquired # Null, old.run # Null,
           NEW verdict \in Failures \cup {"SUCCEED"}
    PROVE  LET state == [old EXCEPT !.step = "RELEASING", !.verdict = verdict]
           IN  state \in Worker /\ Coherent(state)
  <1>1. verdict # Null
    BY HomeFeedNull
  <1>. QED BY <1>1 DEF Worker, Coherent

LEMMA RefusedState ==
    ASSUME NEW old \in Worker, old.run # Null, NEW verdict \in Failures
    PROVE  LET state == [old EXCEPT !.step = "ENDING", !.verdict = verdict]
           IN  state \in Worker /\ Coherent(state)
  <1>1. verdict # Null
    BY HomeFeedNull
  <1>. QED BY <1>1 DEF Worker, Coherent

LEMMA LeasedState ==
    ASSUME NEW old \in Worker, old.run # Null, NEW p \in Profiles, NEW l \in Leases
    PROVE  LET state == [old EXCEPT !.step = "LEASED", !.acquired = <<p, l>>]
           IN  state \in Worker /\ Coherent(state)
  <1>. DEFINE pair == <<p, l>>
  <1>1. pair \in Profiles \X Leases /\ pair # Null
    BY HomeFeedNull
  <1>. HIDE DEF pair
  <1>2. [old EXCEPT !.step = "LEASED", !.acquired = pair] \in Worker
    BY <1>1 DEF Worker
  <1>3. Coherent([old EXCEPT !.step = "LEASED", !.acquired = pair])
    BY <1>1 DEF Worker, Coherent
  <1>. QED BY <1>2, <1>3 DEF pair

LEMMA ReleasedState ==
    ASSUME NEW old \in Worker, old.run # Null, old.verdict # Null
    PROVE  /\ LET state == [old EXCEPT !.step = "ENDING", !.leaseReleased = "YES"]
              IN  state \in Worker /\ Coherent(state)
           /\ LET state == [old EXCEPT !.step = "ENDING", !.leaseReleased = "NO",
                                       !.verdict = "LEASE_RELEASE_FAILED"]
              IN  state \in Worker /\ Coherent(state)
  <1>1. "LEASE_RELEASE_FAILED" \in Failures
    BY DEF Failures
  <1>2. "LEASE_RELEASE_FAILED" # Null
    BY <1>1, HomeFeedNull
  <1>. QED BY <1>1, <1>2 DEF Worker, Coherent

LEMMA NewRunType ==
    ASSUME NEW p \in Profiles, NEW within \in BOOLEAN
    PROVE  LET row == [NoRun EXCEPT !.status = "QUEUED", !.profile = p,
                                    !.requested = Cardinality(Created),
                                    !.within = within]
           IN  row \in Run /\ Named(row)
  <1>1. Cardinality(Created) \in Nat
    BY HomeFeedRuns, FS_Subset, FS_CardinalityType DEF Created
  <1>. QED BY <1>1, HomeFeedNull DEF NoRun, Run, Statuses, Named

LEMMA StatusType ==
    ASSUME NEW row \in Run, row.profile # Null
    PROVE  /\ LET next == [row EXCEPT !.status = "CANCELED", !.finished = TRUE]
              IN  next \in Run /\ Named(next)
           /\ LET next == [row EXCEPT !.status = "RUNNING", !.started = TRUE]
              IN  next \in Run /\ Named(next)
  BY DEF Run, Statuses, Named

LEMMA EndedType ==
    ASSUME NEW w \in Workers, worker[w] \in Worker, worker[w].verdict # Null,
           NEW row \in Run, row.profile # Null
    PROVE  Ended(w, row) \in Run /\ Named(Ended(w, row))
  BY DEF Ended, Run, Worker, Statuses, Named

LEMMA RowUpdate ==
    ASSUME TypeInv, NEW r \in Runs, NEW expected, NEW row \in Run, Named(row),
           Transition(r, expected, row) \/ run' = [run EXCEPT ![r] = row]
    PROVE  run' \in [Runs -> Run] /\ \A q \in Runs : Named(run'[q])
  BY DEF TypeInv, TypeOK, Transition

\* What an action has to show about the worker it changes.
LEMMA WorkerUpdate ==
    ASSUME TypeInv, NEW w \in Workers, NEW state \in Worker, Coherent(state),
           Become(w, state)
    PROVE  worker' \in [Workers -> Worker] /\ \A v \in Workers : Coherent(worker'[v])
  BY DEF TypeInv, TypeOK, Become

LEMMA DecisionType ==
    ASSUME TypeInv, NEW w \in Workers, worker[w].acquired # Null,
           worker[w].run # Null, NEW verdict \in Failures \cup {"SUCCEED"},
           Decide(w, verdict)
    PROVE  worker' \in [Workers -> Worker] /\ \A v \in Workers : Coherent(worker'[v])
  <1>1. worker[w] \in Worker
    BY DEF TypeInv, TypeOK
  <1>. QED BY <1>1, DecidedState, WorkerUpdate DEF Decide

LEMMA RefusalType ==
    ASSUME TypeInv, NEW w \in Workers, worker[w].run # Null,
           NEW verdict \in Failures, Refuse(w, verdict)
    PROVE  worker' \in [Workers -> Worker] /\ \A v \in Workers : Coherent(worker'[v])
  <1>1. worker[w] \in Worker
    BY DEF TypeInv, TypeOK
  <1>. QED BY <1>1, RefusedState, WorkerUpdate DEF Refuse

LEMMA QuittingType ==
    ASSUME TypeInv, NEW w \in Workers, Quit(w)
    PROVE  worker' \in [Workers -> Worker] /\ \A v \in Workers : Coherent(worker'[v])
  BY IdleWorkers, WorkerUpdate DEF Quit

\* The steps that decide the outcome of an execution.
LEMMA DecisionsType ==
    ASSUME TypeInv, NEW w \in Workers,
           \/ Mismatch(w) \/ CaptureSucceeds(w) \/ CaptureFails(w)
           \/ SubmitPost(w) \/ SubmittedAll(w) \/ Fault(w)
    PROVE  worker' \in [Workers -> Worker] /\ \A v \in Workers : Coherent(worker'[v])
  <1>1. worker[w] \in Worker /\ Coherent(worker[w])
    BY DEF TypeInv, TypeOK
  <1>2. worker[w].step \in {"LEASED", "SUBMITTING"}
    BY DEF Mismatch, CaptureSucceeds, CaptureFails, SubmitPost, SubmittedAll, Fault
  <1>3. worker[w].acquired # Null /\ worker[w].run # Null
    BY <1>1, <1>2 DEF Coherent
  <1>4. CASE \E verdict \in Failures \cup {"SUCCEED"} : Decide(w, verdict)
    BY <1>3, <1>4, DecisionType
  <1>5. CASE \E posts \in 0 .. MaxPosts :
                Become(w, [worker[w] EXCEPT !.step = "SUBMITTING", !.left = posts])
    <2>1. \A old \in Worker, posts \in 0 .. MaxPosts :
             LET state == [old EXCEPT !.step = "SUBMITTING", !.left = posts]
             IN  old.run # Null /\ old.acquired # Null
                 => state \in Worker /\ Coherent(state)
      BY DEF Worker, Coherent
    <2>. QED BY <1>1, <1>3, <1>5, <2>1, WorkerUpdate
  <1>6. CASE /\ worker[w].step = "SUBMITTING" /\ worker[w].left > 0
             /\ \E failed \in {worker[w].failed, TRUE} :
                   Become(w, [worker[w] EXCEPT !.left = @ - 1, !.failed = failed])
    <2>1. \A old \in Worker, failed \in BOOLEAN :
             LET state == [old EXCEPT !.left = @ - 1, !.failed = failed]
             IN  old.left > 0 /\ old.step = "SUBMITTING" /\ Coherent(old)
                 => state \in Worker /\ Coherent(state)
      <3>. SUFFICES ASSUME NEW old \in Worker, NEW failed \in BOOLEAN,
                           old.left > 0, old.step = "SUBMITTING", Coherent(old)
                    PROVE  LET state == [old EXCEPT !.left = @ - 1, !.failed = failed]
                           IN  state \in Worker /\ Coherent(state)
        OBVIOUS
      <3>1. old.left - 1 \in 0 .. MaxPosts
        BY HomeFeedBounds DEF Worker
      <3>. QED BY <3>1 DEF Worker, Coherent
    <2>2. worker[w].failed \in BOOLEAN
      BY <1>1 DEF Worker
    <2>. QED BY <1>1, <1>6, <2>1, <2>2, WorkerUpdate
  <1>. QED BY <1>4, <1>5, <1>6
         DEF Mismatch, CaptureSucceeds, CaptureFails, SubmitPost, SubmittedAll, Fault,
             Failures

\* However the steps of workers, operators and the API interleave, every variable
\* keeps its type and each worker has what its step takes (HomeFeedExecution).
THEOREM TypeSafe == Spec => []TypeInv
  <1>1. Init => TypeInv
    BY HomeFeedNull, IdleWorkers
       DEF Init, Lock!Init, TypeInv, TypeOK, NoRun, Run, Statuses, Named
  <1>2. TypeInv /\ [Next]_vars => TypeInv'
    <2>. SUFFICES ASSUME TypeInv, [Next]_vars PROVE TypeInv'
      OBVIOUS
    <2>0. TypeOK /\ \A w \in Workers :
             worker[w] \in Worker /\ Coherent(worker[w])
      BY DEF TypeInv, TypeOK
    <2>1. ASSUME NEW r \in Runs, NEW p \in Profiles, RequestRun(r, p)
          PROVE  TypeInv'
      <3>1. run' \in [Runs -> Run] /\ \A q \in Runs : Named(run'[q])
        BY <2>1, NewRunType, RowUpdate DEF RequestRun
      <3>. QED BY <2>1, <3>1 DEF RequestRun, TypeInv, TypeOK, leaseVars
    <2>2. ASSUME NEW o \in Operators, NEW r \in Runs, BeginCancel(o, r)
          PROVE  TypeInv'
      BY <2>2 DEF BeginCancel, TypeInv, TypeOK, leaseVars
    <2>3. ASSUME NEW o \in Operators, CommitCancel(o)
          PROVE  TypeInv'
      <3>1. cancel[o] \in Runs
        BY <2>0, <2>3 DEF CommitCancel, TypeOK
      <3>2. CASE run[cancel[o]].status = "QUEUED"
        <4>1. run[cancel[o]] \in Run /\ run[cancel[o]].profile # Null
          BY <2>0, <3>1, <3>2 DEF TypeInv, TypeOK, Named
        <4>2. run' \in [Runs -> Run] /\ \A q \in Runs : Named(run'[q])
          BY <2>3, <3>1, <4>1, StatusType, RowUpdate DEF CommitCancel
        <4>. QED BY <2>3, <4>2 DEF CommitCancel, TypeInv, TypeOK, leaseVars
      <3>3. CASE run[cancel[o]].status # "QUEUED"
        BY <2>3, <3>3 DEF CommitCancel, Transition, TypeInv, TypeOK, leaseVars
      <3>. QED BY <3>2, <3>3
    <2>4. ASSUME NEW w \in Workers, NEW r \in Runs, Claim(w, r)
          PROVE  TypeInv'
      <3>1. run[r] \in Run /\ run[r].profile # Null
        BY <2>0, <2>4 DEF Claim, TypeInv, TypeOK, Named
      <3>2. run' \in [Runs -> Run] /\ \A q \in Runs : Named(run'[q])
        BY <2>4, <3>1, StatusType, RowUpdate DEF Claim
      <3>3. \A old \in Worker :
               LET state == [old EXCEPT !.step = "CLAIMED", !.run = r]
               IN  state \in Worker /\ Coherent(state)
        BY HomeFeedNull DEF Worker, Coherent
      <3>4. worker' \in [Workers -> Worker] /\ \A v \in Workers : Coherent(worker'[v])
        BY <2>0, <2>4, <3>3, WorkerUpdate DEF Claim
      <3>. QED BY <2>4, <3>2, <3>4 DEF Claim, TypeInv, TypeOK, leaseVars
    <2>5. ASSUME NEW w \in Workers, RejectRun(w)
          PROVE  TypeInv'
      <3>1. worker[w].run # Null
        BY <2>0, <2>5 DEF RejectRun, Coherent
      <3>2. worker' \in [Workers -> Worker] /\ \A v \in Workers : Coherent(worker'[v])
        BY <2>5, <3>1, QuittingType, RefusalType DEF RejectRun, Failures
      <3>. QED BY <2>5, <3>2 DEF RejectRun, TypeInv, TypeOK, leaseVars
    <2>6. ASSUME NEW w \in Workers, NEW l \in Leases, Checkout(w, l)
          PROVE  TypeInv'
      <3>1. PICK p \in Profiles :
               /\ Lock!Acquire(p, l)
               /\ \/ Become(w, [worker[w] EXCEPT !.step = "LEASED", !.acquired = <<p, l>>])
                  \/ Refuse(w, "CHECKOUT_FAILED")
        <4>1. worker[w].run \in Runs
          BY <2>0, <2>6 DEF Checkout, ReadyToCheckOut, Coherent, Worker
        <4>2. run[worker[w].run].profile \in Profiles
          BY <2>0, <2>6, <4>1
             DEF Checkout, ReadyToCheckOut, TypeInv, TypeOK, Named, Run
        <4>. QED BY <2>6, <4>2 DEF Checkout
      <3>2. worker[w].run # Null /\ worker[w].step = "CLAIMED"
        BY <2>0, <2>6 DEF Checkout, ReadyToCheckOut, Coherent
      <3>3. worker' \in [Workers -> Worker] /\ \A v \in Workers : Coherent(worker'[v])
        <4>1. CASE Become(w, [worker[w] EXCEPT !.step = "LEASED", !.acquired = <<p, l>>])
          BY <2>0, <3>2, <4>1, LeasedState, WorkerUpdate
        <4>2. CASE Refuse(w, "CHECKOUT_FAILED")
          BY <3>2, <4>2, RefusalType DEF Failures
        <4>. QED BY <3>1, <4>1, <4>2
      <3>4. held' \subseteq Profiles \X Leases /\ closed' \subseteq Leases
        BY <2>0, <3>1 DEF TypeOK, Lock!Acquire
      <3>5. grantee' \in [Leases -> Runs \cup {Null}]
        BY <2>0, <2>6 DEF TypeOK, Checkout, Worker
      <3>. QED BY <2>6, <3>3, <3>4, <3>5 DEF Checkout, TypeInv, TypeOK
    <2>7. ASSUME NEW w \in Workers, CheckoutRefused(w)
          PROVE  TypeInv'
      <3>1. worker[w].run # Null
        BY <2>0, <2>7 DEF CheckoutRefused, ReadyToCheckOut, Coherent
      <3>2. worker' \in [Workers -> Worker] /\ \A v \in Workers : Coherent(worker'[v])
        BY <2>7, <3>1, RefusalType DEF CheckoutRefused, Failures
      <3>. QED BY <2>7, <3>2 DEF CheckoutRefused, TypeInv, TypeOK, leaseVars
    <2>8. ASSUME NEW w \in Workers,
                 \/ Mismatch(w) \/ CaptureSucceeds(w) \/ CaptureFails(w)
                 \/ SubmitPost(w) \/ SubmittedAll(w) \/ Fault(w)
          PROVE  TypeInv'
      <3>1. UNCHANGED <<run, cancel, held, closed, grantee, released>>
        BY <2>8 DEF Mismatch, CaptureSucceeds, CaptureFails, SubmitPost,
                    SubmittedAll, Fault, leaseVars
      <3>. QED BY <2>8, <3>1, DecisionsType DEF TypeInv, TypeOK
    <2>9. ASSUME NEW w \in Workers, Release(w)
          PROVE  TypeInv'
      <3>1. worker[w].run # Null /\ worker[w].verdict # Null
        BY <2>0, <2>9 DEF Release, Coherent
      <3>2. worker[w].acquired \in Profiles \X Leases
        BY <2>0, <2>9 DEF Release, Coherent, Worker
      <3>3. worker' \in [Workers -> Worker] /\ \A v \in Workers : Coherent(worker'[v])
        <4>1. worker[w] \in Worker
          BY <2>0
        <4>. QED BY <2>9, <3>1, <4>1, ReleasedState, WorkerUpdate DEF Release
      <3>4. held' \subseteq Profiles \X Leases /\ closed' \subseteq Leases
        BY <2>0, <2>9, <3>2 DEF Release, Lock!Release, TypeOK
      <3>5. released' \in [Leases -> Nat]
        BY <2>0, <2>9, <3>2 DEF Release, TypeOK
      <3>. QED BY <2>9, <3>3, <3>4, <3>5 DEF Release, TypeInv, TypeOK
    <2>10. ASSUME NEW w \in Workers, EndRun(w)
           PROVE  TypeInv'
      <3>1. worker[w].run \in Runs /\ worker[w].verdict # Null
        BY <2>0, <2>10 DEF EndRun, Coherent, Worker
      <3>2. worker' \in [Workers -> Worker] /\ \A v \in Workers : Coherent(worker'[v])
        <4>1. worker[w].stopping \in BOOLEAN
          BY <2>0 DEF Worker
        <4>. QED BY <2>10, <4>1, IdleWorkers, WorkerUpdate, QuittingType DEF EndRun
      <3>3. run' \in [Runs -> Run] /\ \A q \in Runs : Named(run'[q])
        <4>1. CASE run[worker[w].run].status = "RUNNING"
          <5>1. run[worker[w].run] \in Run /\ run[worker[w].run].profile # Null
            BY <2>0, <3>1, <4>1 DEF TypeInv, TypeOK, Named
          <5>. QED BY <2>0, <2>10, <3>1, <5>1, EndedType, RowUpdate DEF EndRun
        <4>2. CASE run[worker[w].run].status # "RUNNING"
          BY <2>10, <4>2 DEF EndRun, Transition, TypeInv, TypeOK
        <4>. QED BY <4>1, <4>2
      <3>. QED BY <2>10, <3>2, <3>3 DEF EndRun, TypeInv, TypeOK, leaseVars
    <2>11. ASSUME NEW w \in Workers,
                  Exit(w) \/ Interrupt(w) \/ Crash(w) \/ Restart(w)
           PROVE  TypeInv'
      <3>1. UNCHANGED <<run, cancel, held, closed, grantee, released>>
        BY <2>11 DEF Exit, Interrupt, Crash, Restart, leaseVars
      <3>2. worker' \in [Workers -> Worker] /\ \A v \in Workers : Coherent(worker'[v])
        <4>1. CASE Exit(w) \/ Crash(w)
          BY <4>1, QuittingType DEF Exit, Crash
        <4>2. CASE Restart(w)
          BY <4>2, IdleWorkers, WorkerUpdate DEF Restart
        <4>3. CASE Interrupt(w)
          <5>1. \A old \in Worker :
                   LET state == [old EXCEPT !.stopping = TRUE]
                   IN  Coherent(old) => state \in Worker /\ Coherent(state)
            BY DEF Worker, Coherent
          <5>. QED BY <2>0, <4>3, <5>1, WorkerUpdate DEF Interrupt
        <4>. QED BY <2>11, <4>1, <4>2, <4>3
      <3>. QED BY <3>1, <3>2 DEF TypeInv, TypeOK
    <2>12. CASE UNCHANGED vars
      BY <2>12 DEF vars, TypeInv, TypeOK
    <2>. QED
      BY <2>1, <2>2, <2>3, <2>4, <2>5, <2>6, <2>7, <2>8, <2>9, <2>10, <2>11, <2>12
         DEF Next, Api, WorkerStep
  <1>. QED BY <1>1, <1>2, PTL DEF Spec

\* Every reachable state of the tables, the workers and the histories is well
\* typed.
THEOREM Typing == Spec => []TypeOK
  BY TypeSafe, PTL DEF TypeInv

-----------------------------------------------------------------------------
(* Who drives which run *)

\* Only RUNNING runs are driven, each by one worker, and a profile has at most
\* one active run.
DrivenInv ==
    /\ \A w \in Workers :
          worker[w].run # Null => run[worker[w].run].status = "RUNNING"
    /\ \A v, w \in Workers :
          worker[v].run = worker[w].run /\ worker[v].run # Null => v = w
    /\ \A q, r \in Runs :
          /\ run[q].profile = run[r].profile
          /\ run[q].status \in Active /\ run[r].status \in Active
          => q = r

Others(w) == \A v \in Workers \ {w} : worker'[v] = worker[v]

LEMMA BecomeEffect ==
    ASSUME TypeInv, NEW w \in Workers, NEW state, Become(w, state)
    PROVE  Others(w) /\ worker'[w] = state
  BY DEF TypeInv, TypeOK, Become, Others

LEMMA RefuseEffect ==
    ASSUME TypeInv, NEW w \in Workers, NEW verdict, Refuse(w, verdict)
    PROVE  /\ Others(w)
           /\ worker'[w].step = "ENDING" /\ worker'[w].verdict = verdict
           /\ worker'[w].run = worker[w].run /\ worker'[w].acquired = worker[w].acquired
           /\ worker'[w].leaseReleased = worker[w].leaseReleased
  <1>1. worker[w] \in Worker
    BY DEF TypeInv, TypeOK
  <1>2. Others(w) /\ worker'[w] = [worker[w] EXCEPT !.step = "ENDING", !.verdict = verdict]
    BY BecomeEffect DEF Refuse
  <1>. QED BY <1>1, <1>2 DEF Worker

LEMMA DecideEffect ==
    ASSUME TypeInv, NEW w \in Workers, NEW verdict, Decide(w, verdict)
    PROVE  /\ Others(w)
           /\ worker'[w].step = "RELEASING" /\ worker'[w].verdict = verdict
           /\ worker'[w].run = worker[w].run /\ worker'[w].acquired = worker[w].acquired
           /\ worker'[w].leaseReleased = worker[w].leaseReleased
  <1>1. worker[w] \in Worker
    BY DEF TypeInv, TypeOK
  <1>2. Others(w) /\ worker'[w] = [worker[w] EXCEPT !.step = "RELEASING", !.verdict = verdict]
    BY BecomeEffect DEF Decide
  <1>. QED BY <1>1, <1>2 DEF Worker

\* A worker that submits posts goes on or decides; what it works on stays.
LEMMA CollectEffect ==
    ASSUME TypeInv, NEW w \in Workers,
           \/ Mismatch(w) \/ CaptureSucceeds(w) \/ CaptureFails(w)
           \/ SubmitPost(w) \/ SubmittedAll(w) \/ Fault(w)
    PROVE  /\ Others(w)
           /\ worker[w].step \in {"LEASED", "SUBMITTING"}
           /\ worker'[w].step \in {"SUBMITTING", "RELEASING"}
           /\ worker'[w].run = worker[w].run /\ worker'[w].acquired = worker[w].acquired
           /\ worker'[w].leaseReleased = worker[w].leaseReleased
           /\ UNCHANGED <<run, cancel, held, closed, grantee, released>>
           /\ \/ worker'[w].step = "SUBMITTING"
              \/ worker'[w].step = "RELEASING" /\ worker'[w].verdict = "SUCCEED"
              => worker[w].step = "SUBMITTING" \/ Right(w)
           /\ worker'[w].step = "RELEASING" => worker'[w].verdict # "LEASE_RELEASE_FAILED"
  <1>1. worker[w] \in Worker
    BY DEF TypeInv, TypeOK
  <1>2. /\ worker[w].step \in {"LEASED", "SUBMITTING"}
        /\ UNCHANGED <<run, cancel, held, closed, grantee, released>>
    BY DEF Mismatch, CaptureSucceeds, CaptureFails, SubmitPost, SubmittedAll, Fault, leaseVars
  <1>3. CASE /\ \E verdict : Decide(w, verdict) /\ verdict # "LEASE_RELEASE_FAILED"
             /\ worker[w].step = "SUBMITTING" \/ Right(w)
    BY <1>2, <1>3, DecideEffect
  <1>4. CASE Mismatch(w)
    BY <1>2, <1>4, DecideEffect DEF Mismatch
  <1>5. CASE /\ worker[w].step = "LEASED" /\ Right(w)
             /\ \E posts \in 0 .. MaxPosts :
                   Become(w, [worker[w] EXCEPT !.step = "SUBMITTING", !.left = posts])
    <2>1. PICK posts \in 0 .. MaxPosts :
             Become(w, [worker[w] EXCEPT !.step = "SUBMITTING", !.left = posts])
      BY <1>5
    <2>2. Others(w) /\ worker'[w] = [worker[w] EXCEPT !.step = "SUBMITTING", !.left = posts]
      BY <2>1, BecomeEffect
    <2>. QED BY <1>1, <1>2, <1>5, <2>2 DEF Worker
  <1>6. CASE /\ worker[w].step = "SUBMITTING"
             /\ \E failed \in {worker[w].failed, TRUE} :
                   Become(w, [worker[w] EXCEPT !.left = @ - 1, !.failed = failed])
    <2>1. PICK failed \in {worker[w].failed, TRUE} :
             Become(w, [worker[w] EXCEPT !.left = @ - 1, !.failed = failed])
      BY <1>6
    <2>2. Others(w) /\ worker'[w] = [worker[w] EXCEPT !.left = @ - 1, !.failed = failed]
      BY <2>1, BecomeEffect
    <2>. QED BY <1>1, <1>2, <1>6, <2>2 DEF Worker
  <1>7. CASE CaptureSucceeds(w) \/ CaptureFails(w) \/ Fault(w)
    <2>1. CASE CaptureSucceeds(w)
      <3>1. /\ worker[w].step = "LEASED" /\ Right(w)
            /\ \/ Decide(w, "INTERRUPTED")
               \/ \E posts \in 0 .. MaxPosts :
                     Become(w, [worker[w] EXCEPT !.step = "SUBMITTING", !.left = posts])
        BY <2>1 DEF CaptureSucceeds
      <3>2. CASE Decide(w, "INTERRUPTED")
        <4>1. Right(w)
          BY <3>1
        <4>. QED BY <1>3, <3>2, <4>1
      <3>3. CASE \E posts \in 0 .. MaxPosts :
                    Become(w, [worker[w] EXCEPT !.step = "SUBMITTING", !.left = posts])
        BY <1>5, <3>1, <3>3
      <3>. QED BY <3>1, <3>2, <3>3
    <2>2. CASE CaptureFails(w)
      <3>1. /\ Right(w)
            /\ Decide(w, "INTERRUPTED") \/ Decide(w, "CAPTURE_FAILED")
        BY <2>2 DEF CaptureFails
      <3>. QED BY <1>3, <3>1
    <2>3. CASE Fault(w)
      BY <1>3, <2>3 DEF Fault
    <2>. QED BY <1>7, <2>1, <2>2, <2>3
  <1>8. CASE SubmitPost(w) \/ SubmittedAll(w)
    BY <1>3, <1>6, <1>8 DEF SubmitPost, SubmittedAll
  <1>. QED BY <1>4, <1>7, <1>8

\* Steps after which the worker drives nothing.
LEMMA LeaveEffect ==
    ASSUME TypeInv, NEW w \in Workers,
           Quit(w) \/ Become(w, IdleWorker)
           \/ Become(w, [IdleWorker EXCEPT !.stopping = worker[w].stopping])
    PROVE  /\ Others(w) /\ worker'[w].run = Null
           /\ worker'[w].step \in {"IDLE", "EXITED"} /\ worker'[w].acquired = Null
           /\ worker'[w].leaseReleased = Null
  BY BecomeEffect DEF Quit, IdleWorker

LEMMA InterruptEffect ==
    ASSUME TypeInv, NEW w \in Workers, Interrupt(w)
    PROVE  /\ Others(w)
           /\ worker'[w].step = worker[w].step /\ worker'[w].verdict = worker[w].verdict
           /\ worker'[w].run = worker[w].run /\ worker'[w].acquired = worker[w].acquired
           /\ worker'[w].leaseReleased = worker[w].leaseReleased
           /\ UNCHANGED <<run, cancel, held, closed, grantee, released>>
  <1>1. worker[w] \in Worker
    BY DEF TypeInv, TypeOK
  <1>2. Others(w) /\ worker'[w] = [worker[w] EXCEPT !.stopping = TRUE]
    BY BecomeEffect DEF Interrupt
  <1>. QED BY <1>1, <1>2 DEF Worker, Interrupt, leaseVars

LEMMA ClaimEffect ==
    ASSUME TypeInv, NEW w \in Workers, NEW r \in Runs, Claim(w, r)
    PROVE  /\ Others(w)
           /\ worker[w].step = "IDLE" /\ worker'[w].step = "CLAIMED"
           /\ worker'[w].run = r /\ worker'[w].acquired = worker[w].acquired
           /\ worker'[w].leaseReleased = worker[w].leaseReleased
  <1>1. worker[w] \in Worker
    BY DEF TypeInv, TypeOK
  <1>2. Others(w) /\ worker'[w] = [worker[w] EXCEPT !.step = "CLAIMED", !.run = r]
    BY BecomeEffect DEF Claim
  <1>3. worker[w].step = "IDLE"
    BY DEF Claim
  <1>. QED BY <1>1, <1>2, <1>3 DEF Worker

\* The checkout: the grant is recorded; the worker learns of it or not.
LEMMA CheckoutEffect ==
    ASSUME TypeInv, NEW w \in Workers, NEW l \in Leases, Checkout(w, l)
    PROVE  \E p \in Profiles :
              /\ Lock!Acquire(p, l)
              /\ Others(w) /\ worker'[w].run = worker[w].run
              /\ worker'[w].leaseReleased = worker[w].leaseReleased
              /\ \/ /\ worker'[w].step = "LEASED" /\ worker'[w].acquired = <<p, l>>
                 \/ /\ worker'[w].step = "ENDING" /\ worker'[w].verdict = "CHECKOUT_FAILED"
                    /\ worker'[w].acquired = worker[w].acquired
  <1>1. worker[w] \in Worker /\ Coherent(worker[w])
    BY DEF TypeInv, TypeOK
  <1>2. worker[w].run \in Runs
    BY <1>1 DEF Checkout, ReadyToCheckOut, Coherent, Worker
  <1>3. run[worker[w].run].profile \in Profiles
    BY <1>2 DEF Checkout, ReadyToCheckOut, TypeInv, TypeOK, Named, Run
  <1>4. PICK p \in Profiles :
           /\ Lock!Acquire(p, l)
           /\ \/ Become(w, [worker[w] EXCEPT !.step = "LEASED", !.acquired = <<p, l>>])
              \/ Refuse(w, "CHECKOUT_FAILED")
    BY <1>3 DEF Checkout
  <1>5. CASE Refuse(w, "CHECKOUT_FAILED")
    BY <1>4, <1>5, RefuseEffect
  <1>6. CASE Become(w, [worker[w] EXCEPT !.step = "LEASED", !.acquired = <<p, l>>])
    <2>1. Others(w) /\ worker'[w] = [worker[w] EXCEPT !.step = "LEASED", !.acquired = <<p, l>>]
      BY <1>6, BecomeEffect
    <2>. QED BY <1>1, <1>4, <2>1 DEF Worker
  <1>. QED BY <1>4, <1>5, <1>6

LEMMA ReleaseEffect ==
    ASSUME TypeInv, NEW w \in Workers, Release(w)
    PROVE  /\ Others(w) /\ worker'[w].step = "ENDING"
           /\ worker'[w].run = worker[w].run /\ worker'[w].acquired = worker[w].acquired
           /\ LET p == worker[w].acquired[1]
                  l == worker[w].acquired[2] IN
              \/ /\ worker'[w].leaseReleased = "YES"
                 /\ worker'[w].verdict = worker[w].verdict
                 /\ Lock!Release(p, l)
              \/ /\ worker'[w].leaseReleased = "NO"
                 /\ worker'[w].verdict = "LEASE_RELEASE_FAILED"
                 /\ Lock!Release(p, l) \/ UNCHANGED <<held, closed>>
           /\ UNCHANGED <<run, cancel, grantee>>
  <1>. DEFINE p == worker[w].acquired[1]
              l == worker[w].acquired[2]
  <1>1. worker[w] \in Worker
    BY DEF TypeInv, TypeOK
  <1>2. /\ UNCHANGED <<run, cancel, grantee>>
        /\ \/ /\ Lock!Release(p, l)
              /\ Become(w, [worker[w] EXCEPT !.step = "ENDING", !.leaseReleased = "YES"])
           \/ /\ Lock!Release(p, l) \/ UNCHANGED <<held, closed>>
              /\ Become(w, [worker[w] EXCEPT !.step = "ENDING", !.leaseReleased = "NO",
                                             !.verdict = "LEASE_RELEASE_FAILED"])
    BY DEF Release
  <1>. HIDE DEF p, l
  <1>3. CASE /\ Lock!Release(p, l)
             /\ Become(w, [worker[w] EXCEPT !.step = "ENDING", !.leaseReleased = "YES"])
    <2>1. /\ Others(w)
          /\ worker'[w] = [worker[w] EXCEPT !.step = "ENDING", !.leaseReleased = "YES"]
      BY <1>3, BecomeEffect
    <2>. QED BY <1>1, <1>2, <1>3, <2>1 DEF Worker, p, l
  <1>4. CASE /\ Lock!Release(p, l) \/ UNCHANGED <<held, closed>>
             /\ Become(w, [worker[w] EXCEPT !.step = "ENDING", !.leaseReleased = "NO",
                                            !.verdict = "LEASE_RELEASE_FAILED"])
    <2>1. /\ Others(w)
          /\ worker'[w] = [worker[w] EXCEPT !.step = "ENDING", !.leaseReleased = "NO",
                                            !.verdict = "LEASE_RELEASE_FAILED"]
      BY <1>4, BecomeEffect
    <2>. QED BY <1>1, <1>2, <1>4, <2>1 DEF Worker, p, l
  <1>. QED BY <1>2, <1>3, <1>4

\* The steps that leave the run table alone.
Inner(w) ==
    \/ RejectRun(w) \/ (\E l \in Leases : Checkout(w, l)) \/ CheckoutRefused(w)
    \/ Mismatch(w) \/ CaptureSucceeds(w) \/ CaptureFails(w)
    \/ SubmitPost(w) \/ SubmittedAll(w) \/ Fault(w) \/ Release(w)
    \/ Exit(w) \/ Interrupt(w) \/ Crash(w) \/ Restart(w)

LEMMA InnerEffect ==
    ASSUME TypeInv, NEW w \in Workers, Inner(w)
    PROVE  /\ run' = run /\ cancel' = cancel
           /\ Others(w)
           /\ worker'[w].run \in {Null, worker[w].run}
  <1>1. Others(w) /\ worker'[w].run \in {Null, worker[w].run}
    <2>1. CASE RejectRun(w) \/ CheckoutRefused(w)
      BY <2>1, RefuseEffect, LeaveEffect DEF RejectRun, CheckoutRefused
    <2>2. CASE \E l \in Leases : Checkout(w, l)
      BY <2>2, CheckoutEffect
    <2>3. CASE \/ Mismatch(w) \/ CaptureSucceeds(w) \/ CaptureFails(w)
               \/ SubmitPost(w) \/ SubmittedAll(w) \/ Fault(w)
      BY <2>3, CollectEffect
    <2>4. CASE Release(w)
      BY <2>4, ReleaseEffect
    <2>5. CASE Exit(w) \/ Crash(w) \/ Restart(w)
      BY <2>5, LeaveEffect DEF Exit, Crash, Restart
    <2>6. CASE Interrupt(w)
      BY <2>6, InterruptEffect
    <2>. QED BY <2>1, <2>2, <2>3, <2>4, <2>5, <2>6 DEF Inner
  <1>2. run' = run /\ cancel' = cancel
    BY DEF Inner, RejectRun, Checkout, CheckoutRefused, Mismatch, CaptureSucceeds,
           CaptureFails, SubmitPost, SubmittedAll, Fault, Release, Exit, Interrupt,
           Crash, Restart
  <1>. QED BY <1>1, <1>2

LEMMA EndEffect ==
    ASSUME TypeInv, NEW w \in Workers, EndRun(w)
    PROVE  /\ worker[w].run \in Runs
           /\ Others(w)
           /\ worker'[w].run = Null /\ worker'[w].step \in {"IDLE", "EXITED"}
           /\ \A q \in Runs : /\ q # worker[w].run => run'[q] = run[q]
                              /\ run'[q].profile = run[q].profile
                              /\ run'[q].status \in Active => run'[q] = run[q]
           /\ run[worker[w].run].status = "RUNNING" =>
                run'[worker[w].run] = Ended(w, run[worker[w].run])
  <1>. DEFINE r == worker[w].run
  <1>1. r \in Runs
    BY DEF TypeInv, TypeOK, Coherent, EndRun, Worker
  <1>2. run[r] \in Run
    BY <1>1 DEF TypeInv, TypeOK
  <1>3. Ended(w, run[r]).profile = run[r].profile /\ Ended(w, run[r]).status \notin Active
    BY <1>2 DEF Ended, Run, Active
  <1>4. Quit(w) \/ Become(w, [IdleWorker EXCEPT !.stopping = worker[w].stopping])
    BY DEF EndRun
  <1>7. Transition(r, "RUNNING", Ended(w, run[r]))
    BY DEF EndRun
  <1>. HIDE DEF r
  <1>8. \A q \in Runs : /\ q # r => run'[q] = run[q]
                        /\ run'[q].profile = run[q].profile
                        /\ run'[q].status \in Active => run'[q] = run[q]
    BY <1>1, <1>3, <1>7 DEF Transition, TypeInv, TypeOK
  <1>9. run[r].status = "RUNNING" => run'[r] = Ended(w, run[r])
    BY <1>1, <1>7 DEF Transition, TypeInv, TypeOK
  <1>. QED BY <1>1, <1>4, <1>8, <1>9, LeaveEffect DEF r

\* No claim, cancel or restart ever gives a run two workers or a profile two active
\* runs.
THEOREM DrivenSafe == Spec => []DrivenInv
  <1>1. Init => DrivenInv
    BY DEF Init, DrivenInv, IdleWorker, NoRun, Active
  <1>2. TypeInv /\ TypeInv' /\ DrivenInv /\ [Next]_vars => DrivenInv'
    <2>. SUFFICES ASSUME TypeInv, TypeInv', DrivenInv, [Next]_vars PROVE DrivenInv'
      OBVIOUS
    <2>0. \A w \in Workers : worker[w].run \in Runs \cup {Null}
      BY DEF TypeInv, TypeOK, Worker
    <2>1. ASSUME NEW r \in Runs, NEW p \in Profiles, RequestRun(r, p)
          PROVE  DrivenInv'
      <3>1. run'[r].profile = p /\ \A q \in Runs \ {r} : run'[q] = run[q]
        BY <2>1 DEF RequestRun, TypeInv, TypeOK, NoRun
      <3>2. \A q \in Runs : run[q].profile = p => run[q].status \notin Active
        BY <2>1 DEF RequestRun
      <3>3. worker' = worker /\ run[r].status = "ABSENT"
        BY <2>1 DEF RequestRun
      <3>. QED BY <2>0, <3>1, <3>2, <3>3 DEF DrivenInv
    <2>2. ASSUME NEW o \in Operators, NEW r \in Runs, BeginCancel(o, r)
          PROVE  DrivenInv'
      BY <2>2 DEF BeginCancel, DrivenInv
    <2>3. ASSUME NEW o \in Operators, CommitCancel(o)
          PROVE  DrivenInv'
      <3>1. cancel[o] \in Runs /\ worker' = worker
        BY <2>3 DEF CommitCancel, TypeInv, TypeOK
      <3>2. run[cancel[o]].status # "QUEUED" => run' = run
        BY <2>3 DEF CommitCancel, Transition
      <3>3. \A q \in Runs : run'[q].status \in Active => run'[q] = run[q]
        BY <2>3, <3>1 DEF CommitCancel, Transition, TypeInv, TypeOK, Run, Active
      <3>4. \A q \in Runs : run[q].status = "RUNNING" => run'[q] = run[q]
        BY <2>3, <3>1 DEF CommitCancel, Transition, TypeInv, TypeOK
      <3>. QED BY <2>0, <3>1, <3>3, <3>4 DEF DrivenInv
    <2>4. ASSUME NEW w \in Workers, NEW r \in Runs, Claim(w, r)
          PROVE  DrivenInv'
      <3>1. /\ run[r].status = "QUEUED" /\ run'[r].status = "RUNNING"
            /\ run'[r].profile = run[r].profile
            /\ \A q \in Runs \ {r} : run'[q] = run[q]
        BY <2>4 DEF Claim, TypeInv, TypeOK, Run
      <3>2. worker'[w].run = r /\ \A v \in Workers \ {w} : worker'[v] = worker[v]
        BY <2>4 DEF Claim, Become, TypeInv, TypeOK, Worker
      <3>3. \A v \in Workers : worker[v].run # r
        BY <3>1, HomeFeedNull DEF DrivenInv
      <3>4. \A q \in Runs : run'[q].status \in Active => run[q].status \in Active
        BY <3>1 DEF Active
      <3>. QED BY <2>0, <3>1, <3>2, <3>3, <3>4 DEF DrivenInv
    <2>5. ASSUME NEW w \in Workers, Inner(w)
          PROVE  DrivenInv'
      BY <2>5, InnerEffect DEF DrivenInv, Others
    <2>6. ASSUME NEW w \in Workers, EndRun(w)
          PROVE  DrivenInv'
      <3>1. worker[w].run # Null
        BY <2>6, EndEffect, HomeFeedNull
      <3>. QED BY <2>0, <2>6, <3>1, EndEffect DEF DrivenInv, Others
    <2>7. CASE UNCHANGED vars
      BY <2>7 DEF vars, DrivenInv
    <2>. QED BY <2>1, <2>2, <2>3, <2>4, <2>5, <2>6, <2>7 DEF Next, Api, WorkerStep, Inner
  <1>. QED BY <1>1, <1>2, TypeSafe, PTL DEF Spec

\* Whatever the number of workers, profiles and runs, no two workers ever work
\* for the same profile.
THEOREM ProfilesAreSerialized == Spec => []OneWorkerPerProfile
  <1>1. TypeInv /\ DrivenInv => OneWorkerPerProfile
    <2>. SUFFICES ASSUME TypeInv, DrivenInv, NEW d \in Driven, NEW e \in Driven,
                         d[1] # e[1], run[d[2]].profile = run[e[2]].profile
                  PROVE  FALSE
      BY DEF OneWorkerPerProfile
    <2>1. /\ d[1] \in Workers /\ d[2] \in Runs /\ worker[d[1]].run = d[2]
          /\ e[1] \in Workers /\ e[2] \in Runs /\ worker[e[1]].run = e[2]
      BY DEF Driven
    <2>2. run[d[2]].status \in Active /\ run[e[2]].status \in Active
      BY <2>1, HomeFeedNull DEF DrivenInv, Active
    <2>3. d[2] = e[2]
      BY <2>1, <2>2 DEF DrivenInv
    <2>. QED BY <2>1, <2>3, HomeFeedNull DEF DrivenInv
  <1>. QED BY <1>1, TypeSafe, DrivenSafe, PTL

-----------------------------------------------------------------------------
(* The run table implements the run lifecycle *)

LEMMA StatusChange ==
    ASSUME TypeInv, NEW r \in Runs, NEW status,
           run'[r].status = status, \A q \in Runs \ {r} : run'[q] = run[q]
    PROVE  StatusOf' = [StatusOf EXCEPT ![r] = status]
  BY DEF StatusOf

LEMMA DrivenChange ==
    ASSUME TypeInv, TypeInv', NEW w \in Workers, Others(w), worker'[w].run = Null
    PROVE  IF worker[w].run = Null THEN Driven' = Driven
           ELSE /\ <<w, worker[w].run>> \in Driven
                /\ Driven' = Driven \ {<<w, worker[w].run>>}
  <1>1. \A d \in Workers \X Runs : d = <<d[1], d[2]>>
    OBVIOUS
  <1>2. worker[w].run \in Runs \cup {Null}
    BY DEF TypeInv, TypeOK, Worker
  <1>. QED BY <1>1, <1>2, HomeFeedNull DEF Driven, Others

LEMMA LifecycleStep ==
    ASSUME TypeInv, TypeInv', DrivenInv, [Next]_vars
    PROVE  [Lifecycle!Next]_(Lifecycle!vars)
  <1>0. \A w \in Workers : worker[w].run \in Runs \cup {Null}
    BY DEF TypeInv, TypeOK, Worker
  <1>1. ASSUME NEW r \in Runs, NEW p \in Profiles, RequestRun(r, p)
        PROVE  Lifecycle!Queue(r)
    <2>1. run'[r].status = "QUEUED" /\ \A q \in Runs \ {r} : run'[q] = run[q]
      BY <1>1 DEF RequestRun, TypeInv, TypeOK, NoRun
    <2>2. StatusOf[r] = "ABSENT" /\ UNCHANGED Driven
      BY <1>1 DEF RequestRun, StatusOf, Driven
    <2>. QED BY <2>1, <2>2, StatusChange DEF Lifecycle!Queue
  <1>2. ASSUME NEW o \in Operators, NEW r \in Runs, BeginCancel(o, r)
        PROVE  UNCHANGED Lifecycle!vars
    BY <1>2 DEF BeginCancel, Lifecycle!vars, StatusOf, Driven
  <1>3. ASSUME NEW o \in Operators, CommitCancel(o)
        PROVE  \/ cancel[o] \in Runs /\ Lifecycle!Cancel(cancel[o])
               \/ UNCHANGED Lifecycle!vars
    <2>1. cancel[o] \in Runs /\ UNCHANGED Driven
      BY <1>3 DEF CommitCancel, TypeInv, TypeOK, Driven
    <2>2. CASE run[cancel[o]].status = "QUEUED"
      <3>1. /\ run'[cancel[o]].status = "CANCELED"
            /\ \A q \in Runs \ {cancel[o]} : run'[q] = run[q]
        BY <1>3, <2>1, <2>2 DEF CommitCancel, Transition, TypeInv, TypeOK, Run
      <3>2. StatusOf[cancel[o]] = "QUEUED"
        BY <2>1, <2>2 DEF StatusOf
      <3>. QED BY <2>1, <3>1, <3>2, StatusChange DEF Lifecycle!Cancel
    <2>3. CASE run[cancel[o]].status # "QUEUED"
      BY <1>3, <2>1, <2>3 DEF CommitCancel, Transition, Lifecycle!vars, StatusOf
    <2>. QED BY <2>2, <2>3
  <1>4. ASSUME NEW w \in Workers, NEW r \in Runs, Claim(w, r)
        PROVE  Lifecycle!Take(w, r)
    <2>1. run'[r].status = "RUNNING" /\ \A q \in Runs \ {r} : run'[q] = run[q]
      BY <1>4 DEF Claim, TypeInv, TypeOK, Run
    <2>2. StatusOf[r] = "QUEUED"
      BY <1>4 DEF Claim, StatusOf
    <2>3. worker[w].run = Null
      BY <1>4 DEF Claim, TypeInv, Coherent
    <2>4. \A q \in Runs : <<w, q>> \notin Driven
      BY <2>3, HomeFeedNull DEF Driven
    <2>5. Others(w) /\ worker'[w].run = r
      BY <1>4, ClaimEffect
    <2>6. Driven' = Driven \cup {<<w, r>>}
      <3>1. \A d \in Workers \X Runs : d = <<d[1], d[2]>>
        OBVIOUS
      <3>. QED BY <2>4, <2>5, <3>1 DEF Driven, Others
    <2>. QED BY <2>1, <2>2, <2>4, <2>6, StatusChange DEF Lifecycle!Take
  <1>5. ASSUME NEW w \in Workers, Inner(w)
        PROVE  \/ worker[w].run \in Runs /\ Lifecycle!Lose(w, worker[w].run)
               \/ UNCHANGED Lifecycle!vars
    <2>1. UNCHANGED StatusOf
      BY <1>5, InnerEffect DEF StatusOf
    <2>2. CASE worker'[w].run = worker[w].run
      <3>1. \A v \in Workers : worker'[v].run = worker[v].run
        BY <1>5, <2>2, InnerEffect DEF Others
      <3>. QED BY <2>1, <3>1 DEF Lifecycle!vars, Driven
    <2>3. CASE worker'[w].run = Null
      <3>1. IF worker[w].run = Null THEN Driven' = Driven
            ELSE /\ <<w, worker[w].run>> \in Driven
                 /\ Driven' = Driven \ {<<w, worker[w].run>>}
        BY <1>5, <2>3, InnerEffect, DrivenChange
      <3>. QED BY <1>0, <2>1, <3>1 DEF Lifecycle!vars, Lifecycle!Lose
    <2>. QED BY <1>5, <2>2, <2>3, InnerEffect
  <1>6. ASSUME NEW w \in Workers, EndRun(w)
        PROVE  worker[w].run \in Runs /\ Lifecycle!End(w, worker[w].run)
    <2>1. worker[w].run \in Runs /\ worker[w].run # Null
      BY <1>6, EndEffect, HomeFeedNull
    <2>2. run[worker[w].run].status = "RUNNING"
      BY <2>1 DEF DrivenInv
    <2>3. run'[worker[w].run] = Ended(w, run[worker[w].run])
      BY <1>6, <2>2, EndEffect
    <2>4. PICK verdict \in {"SUCCEEDED", "FAILED"} : run'[worker[w].run].status = verdict
      <3>1. run[worker[w].run] \in Run
        BY <2>1 DEF TypeInv, TypeOK
      <3>. QED BY <2>3, <3>1 DEF Ended, Run
    <2>5. StatusOf' = [StatusOf EXCEPT ![worker[w].run] = verdict]
      BY <1>6, <2>1, <2>4, EndEffect, StatusChange
    <2>6. StatusOf[worker[w].run] = "RUNNING"
      BY <2>1, <2>2 DEF StatusOf
    <2>. QED BY <1>6, <2>1, <2>5, <2>6, EndEffect, DrivenChange DEF Lifecycle!End
  <1>7. CASE UNCHANGED vars
    BY <1>7 DEF vars, Lifecycle!vars, StatusOf, Driven
  <1>. QED
    BY <1>1, <1>2, <1>3, <1>4, <1>5, <1>6, <1>7
       DEF Next, Api, WorkerStep, Inner, Lifecycle!Next

\* The compare-and-set run table and its workers implement the abstract lifecycle
\* of a run: claimed once, ended only by the worker that claimed it, and final
\* once it is ended or canceled.
THEOREM RunsImplementLifecycle == Spec => ImplementsLifecycle
  <1>1. Init => Lifecycle!Init
    BY HomeFeedNull DEF Init, Lifecycle!Init, StatusOf, Driven, NoRun, IdleWorker
  <1>. QED BY <1>1, LifecycleStep, TypeSafe, DrivenSafe, PTL
           DEF Spec, ImplementsLifecycle, Lifecycle!Spec

-----------------------------------------------------------------------------
(* Leases and verdicts *)

Unconfirmed == {"CHECKOUT_FAILED", "LEASE_RELEASE_FAILED"}

Holding(state) == state.step \in {"LEASED", "SUBMITTING", "RELEASING"}

\* Why a lease l may be open: its run is in the hands of a worker that holds l or
\* will end it as unconfirmed, or of nobody, or has ended as unconfirmed.
Accounted(l) ==
    LET row == run[grantee[l]] IN
    /\ grantee[l] \in Runs
    /\ \/ /\ row.status = "RUNNING"
          /\ \A w \in Workers : worker[w].run = grantee[l] =>
                \/ Holding(worker[w]) /\ worker[w].acquired[2] = l
                \/ /\ worker[w].step = "ENDING" /\ worker[w].verdict \in Unconfirmed
                   /\ worker[w].leaseReleased # "YES"
       \/ /\ row.status = "FAILED" /\ row.reason \in Unconfirmed
          /\ row.leaseReleased # "YES"

LeaseInv ==
    /\ \A p, q \in Profiles, l \in Leases : <<p, l>> \in held /\ <<q, l>> \in held => p = q
    /\ \A l \in Leases : Open(l) => Accounted(l)
    /\ \A l \in Leases : released[l] = 0 \/ (released[l] = 1 /\ (Open(l) \/ l \in closed))
    /\ \A w \in Workers :
          /\ Holding(worker[w]) =>
                /\ worker[w].acquired \in held
                /\ grantee[worker[w].acquired[2]] = worker[w].run
                /\ released[worker[w].acquired[2]] = 0
          /\ worker[w].step \in {"IDLE", "CLAIMED"} => worker[w].acquired = Null
          /\ worker[w].step # "ENDING" => worker[w].leaseReleased = Null
          /\ worker[w].step = "ENDING" /\ worker[w].acquired # Null
                => released[worker[w].acquired[2]] = 1

\* No lease is lost: one that is open belongs to a run that is under way, or to one
\* whose row tells that its release was not confirmed.
THEOREM LeaseSafe == Spec => []LeaseInv
  <1>1. Init => LeaseInv
    <2>. SUFFICES ASSUME Init PROVE LeaseInv
      OBVIOUS
    <2>1. \A w \in Workers : /\ worker[w].step = "IDLE" /\ worker[w].acquired = Null
                             /\ worker[w].leaseReleased = Null
      BY DEF Init, IdleWorker
    <2>2. held = {} /\ \A l \in Leases : released[l] = 0
      BY DEF Init, Lock!Init
    <2>3. \A l \in Leases : ~Open(l)
      BY <2>2 DEF Open
    <2>4. \A w \in Workers : ~Holding(worker[w]) /\ worker[w].step # "ENDING"
      BY <2>1 DEF Holding
    <2>5. \A p, q \in Profiles, l \in Leases : <<p, l>> \in held /\ <<q, l>> \in held => p = q
      BY <2>2
    <2>6. \A w \in Workers : worker[w].step \in {"IDLE", "CLAIMED"} => worker[w].acquired = Null
      BY <2>1
    <2>7. \A w \in Workers : worker[w].step # "ENDING" => worker[w].leaseReleased = Null
      BY <2>1
    <2>8. \A l \in Leases : Open(l) => Accounted(l)
      BY <2>3
    <2>9. \A l \in Leases : released[l] = 0 \/ (released[l] = 1 /\ (Open(l) \/ l \in closed))
      BY <2>2
    <2>10. \A w \in Workers :
              /\ Holding(worker[w]) =>
                    /\ worker[w].acquired \in held
                    /\ grantee[worker[w].acquired[2]] = worker[w].run
                    /\ released[worker[w].acquired[2]] = 0
              /\ worker[w].step = "ENDING" /\ worker[w].acquired # Null
                    => released[worker[w].acquired[2]] = 1
      BY <2>4
    <2>. QED BY <2>5, <2>6, <2>7, <2>8, <2>9, <2>10 DEF LeaseInv
  <1>2. TypeInv /\ TypeInv' /\ DrivenInv /\ LeaseInv /\ [Next]_vars => LeaseInv'
    <2>. SUFFICES ASSUME TypeInv, TypeInv', DrivenInv, LeaseInv, [Next]_vars
                  PROVE  LeaseInv'
      OBVIOUS
    <2>0. /\ \A w \in Workers : /\ worker[w].run \in Runs \cup {Null}
                                /\ worker[w].run = Null <=> worker[w].step \in {"IDLE", "EXITED"}
                                /\ worker[w].run # Null => run[worker[w].run].status = "RUNNING"
                                /\ worker[w].acquired \in (Profiles \X Leases) \cup {Null}
          /\ \A l \in Leases : Open(l) =>
                run[grantee[l]].status \in {"RUNNING", "FAILED"} /\ grantee[l] \in Runs
      BY DEF TypeInv, TypeOK, Worker, Coherent, DrivenInv, LeaseInv, Accounted
    <2>1. ASSUME NEW r \in Runs, run[r].status \notin {"RUNNING", "FAILED"},
                 \A q \in Runs \ {r} : run'[q] = run[q],
                 UNCHANGED <<worker, held, closed, grantee, released>>
          PROVE  LeaseInv'
      <3>1. \A l \in Leases : Open(l) => run'[grantee[l]] = run[grantee[l]]
        BY <2>0, <2>1
      <3>. QED BY <2>1, <3>1 DEF LeaseInv, Open, Accounted
    <2>2. ASSUME NEW r \in Runs, NEW p \in Profiles, RequestRun(r, p)
          PROVE  LeaseInv'
      BY <2>1, <2>2 DEF RequestRun, TypeInv, TypeOK, leaseVars
    <2>3. ASSUME NEW o \in Operators, NEW r \in Runs, BeginCancel(o, r)
          PROVE  LeaseInv'
      BY <2>3 DEF BeginCancel, leaseVars, LeaseInv, Open, Accounted
    <2>4. ASSUME NEW o \in Operators, CommitCancel(o)
          PROVE  LeaseInv'
      <3>1. cancel[o] \in Runs
        BY <2>4 DEF CommitCancel, TypeInv, TypeOK
      <3>2. CASE run[cancel[o]].status = "QUEUED"
        BY <2>1, <2>4, <3>1, <3>2 DEF CommitCancel, Transition, TypeInv, TypeOK, leaseVars
      <3>3. CASE run[cancel[o]].status # "QUEUED"
        BY <2>4, <3>3 DEF CommitCancel, Transition, leaseVars, LeaseInv, Open, Accounted
      <3>. QED BY <3>2, <3>3
    <2>5. ASSUME NEW w \in Workers, NEW r \in Runs, Claim(w, r)
          PROVE  LeaseInv'
      <3>1. \A q \in Runs \ {r} : run'[q] = run[q]
        BY <2>5 DEF Claim, TypeInv, TypeOK
      <3>2. /\ Others(w) /\ worker'[w].run = r /\ worker'[w].step = "CLAIMED"
            /\ worker'[w].acquired = worker[w].acquired
            /\ worker'[w].leaseReleased = worker[w].leaseReleased
        BY <2>5, ClaimEffect
      <3>3. \A l \in Leases : Open(l) => grantee[l] # r
        BY <2>0, <2>5 DEF Claim
      <3>4. worker[w].acquired = Null /\ worker[w].leaseReleased = Null
        BY <2>5, ClaimEffect DEF LeaseInv
      <3>5. UNCHANGED <<held, closed, grantee, released>>
        BY <2>5 DEF Claim, leaseVars
      <3>6. \A l \in Leases : Accounted(l) /\ grantee[l] # r => Accounted(l)'
        BY <3>1, <3>2, <3>5 DEF Accounted, Others
      <3>7. \A l \in Leases : Open(l)' => Accounted(l)'
        BY <3>3, <3>5, <3>6 DEF LeaseInv, Open
      <3>8. ~Holding(worker[w])' /\ worker'[w].step # "ENDING"
        BY <3>2 DEF Holding
      <3>9. \A v \in Workers \ {w} : worker'[v] = worker[v]
        BY <3>2 DEF Others
      <3>10. \A l \in Leases : Open(l) => Open(l)'
        BY <3>5 DEF Open
      <3>. QED
        BY <3>2, <3>4, <3>5, <3>7, <3>8, <3>9, <3>10 DEF LeaseInv, Holding
    <2>6. ASSUME NEW w \in Workers, Others(w), worker'[w].run = Null,
                 worker'[w].step \in {"IDLE", "EXITED"}, worker'[w].acquired = Null,
                 worker'[w].leaseReleased = Null, UNCHANGED <<run, held, closed, grantee, released>>
          PROVE  LeaseInv'
      <3>1. \A l \in Leases : Accounted(l) => Accounted(l)'
        BY <2>6, HomeFeedNull DEF Accounted, Others
      <3>. QED BY <2>6, <3>1 DEF LeaseInv, Open, Holding, Others
    <2>7. ASSUME NEW w \in Workers, NEW verdict, worker[w].step = "CLAIMED",
                 Refuse(w, verdict), UNCHANGED <<run, held, closed, grantee, released>>
          PROVE  LeaseInv'
      <3>1. /\ Others(w) /\ worker'[w].run = worker[w].run
            /\ worker'[w].step = "ENDING" /\ worker'[w].acquired = Null
        BY <2>7, RefuseEffect DEF LeaseInv
      <3>2. \A l \in Leases : Accounted(l) => Accounted(l)'
        BY <2>7, <3>1 DEF Accounted, Others, Holding
      <3>. QED BY <2>7, <3>1, <3>2 DEF LeaseInv, Open, Holding, Others
    <2>8. ASSUME NEW w \in Workers, RejectRun(w) \/ CheckoutRefused(w)
          PROVE  LeaseInv'
      <3>1. /\ worker[w].step = "CLAIMED"
            /\ UNCHANGED <<run, held, closed, grantee, released>>
            /\ Quit(w) \/ \E verdict : Refuse(w, verdict)
        BY <2>8 DEF RejectRun, CheckoutRefused, ReadyToCheckOut, leaseVars
      <3>. QED BY <2>6, <2>7, <3>1, LeaveEffect
    <2>9. ASSUME NEW w \in Workers, NEW l \in Leases, Checkout(w, l)
          PROVE  LeaseInv'
      <3>. DEFINE r == worker[w].run
      <3>1. PICK p \in Profiles :
               /\ Lock!Acquire(p, l)
               /\ Others(w) /\ worker'[w].run = worker[w].run
               /\ worker'[w].leaseReleased = worker[w].leaseReleased
               /\ \/ /\ worker'[w].step = "LEASED" /\ worker'[w].acquired = <<p, l>>
                  \/ /\ worker'[w].step = "ENDING" /\ worker'[w].verdict = "CHECKOUT_FAILED"
                     /\ worker'[w].acquired = worker[w].acquired
        BY <2>9, CheckoutEffect
      <3>2. /\ worker[w].step = "CLAIMED" /\ run[r].status = "RUNNING"
            /\ grantee' = [grantee EXCEPT ![l] = r] /\ run' = run /\ released' = released
        BY <2>9 DEF Checkout, ReadyToCheckOut
      <3>3. r \in Runs /\ r # Null /\ worker[w].acquired = Null
            /\ worker[w].leaseReleased # "YES"
        <4>1. worker[w].leaseReleased # "YES"
          BY <3>2, HomeFeedNull DEF LeaseInv
        <4>. QED BY <2>0, <3>2, <4>1, HomeFeedNull DEF LeaseInv
      <3>4. /\ held' = held \cup {<<p, l>>} /\ closed' = closed
            /\ ~Open(l) /\ l \notin closed
        BY <3>1 DEF Lock!Acquire, Open
      <3>5. grantee'[l] = r /\ \A m \in Leases \ {l} : grantee'[m] = grantee[m]
        BY <3>2 DEF TypeInv, TypeOK
      <3>. HIDE DEF r
      <3>6. \A m \in Leases : Open(m)' => m = l \/ Open(m)
        BY <3>4 DEF Open
      <3>7. \A m \in Leases : Open(m) => grantee[m] # r
        BY <3>2 DEF LeaseInv, Accounted, Holding, r
      <3>8. \A v \in Workers \ {w} : worker[v].run # r
        BY <3>3 DEF DrivenInv, r
      <3>9. Accounted(l)'
        BY <3>1, <3>2, <3>3, <3>5, <3>8 DEF Accounted, Holding, Unconfirmed, Others, r
      <3>10. \A m \in Leases \ {l} : Accounted(m) /\ grantee[m] # r => Accounted(m)'
        BY <3>1, <3>2, <3>3, <3>5 DEF Accounted, Holding, Others, r
      <3>11. released[l] = 0
        BY <3>4 DEF LeaseInv
      <3>12. \A v \in Workers \ {w} : Holding(worker[v]) => worker[v].acquired[2] # l
        <4>1. \A v \in Workers : Holding(worker[v]) => worker[v].acquired \in held
          BY DEF LeaseInv
        <4>2. \A x \in held : x[1] \in Profiles /\ x = <<x[1], x[2]>>
          BY DEF TypeInv, TypeOK
        <4>. QED BY <3>4, <4>1, <4>2 DEF Open
      <3>13. \A q, t \in Profiles, m \in Leases :
                <<q, m>> \in held' /\ <<t, m>> \in held' => q = t
        BY <3>4 DEF LeaseInv, Open
      <3>14. \A m \in Leases : Open(m) => Open(m)'
        BY <3>4 DEF Open
      <3>15. \A v \in Workers :
                /\ Holding(worker[v])' =>
                      /\ worker'[v].acquired \in held'
                      /\ grantee'[worker'[v].acquired[2]] = worker'[v].run
                      /\ released'[worker'[v].acquired[2]] = 0
                /\ worker'[v].step \in {"IDLE", "CLAIMED"} => worker'[v].acquired = Null
                /\ worker'[v].step # "ENDING" => worker'[v].leaseReleased = Null
                /\ worker'[v].step = "ENDING" /\ worker'[v].acquired # Null
                      => released'[worker'[v].acquired[2]] = 1
        <4>1. ASSUME NEW v \in Workers \ {w}, Holding(worker[v])
              PROVE  /\ worker[v].acquired \in held'
                     /\ grantee'[worker[v].acquired[2]] = worker[v].run
                     /\ released'[worker[v].acquired[2]] = 0
          <5>1. /\ worker[v].acquired \in held /\ worker[v].acquired[2] \in Leases
                /\ grantee[worker[v].acquired[2]] = worker[v].run
                /\ released[worker[v].acquired[2]] = 0
            BY <4>1 DEF LeaseInv, TypeInv, TypeOK
          <5>. QED BY <3>2, <3>4, <3>5, <3>12, <4>1, <5>1
        <4>2. \A v \in Workers \ {w} : worker'[v] = worker[v]
          BY <3>1 DEF Others
        <4>3. Holding(worker[w])' => worker'[w].acquired = <<p, l>>
          BY <3>1 DEF Holding
        <4>4. Holding(worker[w])' =>
                 /\ worker'[w].acquired \in held'
                 /\ grantee'[worker'[w].acquired[2]] = worker'[w].run
                 /\ released'[worker'[w].acquired[2]] = 0
          <5>1. worker'[w].run = r
            BY <3>1 DEF r
          <5>2. <<p, l>> \in held' /\ released'[l] = 0 /\ <<p, l>>[2] = l
            BY <3>2, <3>4, <3>11
          <5>. QED BY <3>5, <4>3, <5>1, <5>2
        <4>5. /\ worker'[w].step \notin {"IDLE", "CLAIMED"}
              /\ worker'[w].step = "ENDING" => worker'[w].acquired = Null
              /\ worker'[w].leaseReleased = Null
          BY <3>1, <3>2, <3>3 DEF LeaseInv
        <4>6. ASSUME NEW v \in Workers \ {w}
              PROVE  /\ Holding(worker[v])' =>
                           /\ worker'[v].acquired \in held'
                           /\ grantee'[worker'[v].acquired[2]] = worker'[v].run
                           /\ released'[worker'[v].acquired[2]] = 0
                     /\ worker'[v].step \in {"IDLE", "CLAIMED"} => worker'[v].acquired = Null
                     /\ worker'[v].step # "ENDING" => worker'[v].leaseReleased = Null
                     /\ worker'[v].step = "ENDING" /\ worker'[v].acquired # Null
                           => released'[worker'[v].acquired[2]] = 1
          BY <3>2, <4>1, <4>2 DEF LeaseInv, Holding
        <4>. QED BY <4>4, <4>5, <4>6
      <3>. QED
        BY <3>2, <3>4, <3>6, <3>7, <3>9, <3>10, <3>13, <3>14, <3>15 DEF LeaseInv
    <2>10. ASSUME NEW w \in Workers,
                  \/ Mismatch(w) \/ CaptureSucceeds(w) \/ CaptureFails(w)
                  \/ SubmitPost(w) \/ SubmittedAll(w) \/ Fault(w)
           PROVE  LeaseInv'
      <3>1. /\ Others(w) /\ Holding(worker[w]) /\ Holding(worker'[w])
            /\ worker'[w].run = worker[w].run /\ worker'[w].acquired = worker[w].acquired
            /\ worker'[w].step \notin {"IDLE", "CLAIMED", "ENDING"}
            /\ worker[w].step # "ENDING"
            /\ worker'[w].leaseReleased = worker[w].leaseReleased
            /\ UNCHANGED <<run, held, closed, grantee, released>>
        BY <2>10, CollectEffect DEF Holding
      <3>2. \A l \in Leases : Accounted(l) => Accounted(l)'
        BY <3>1 DEF Accounted, Others
      <3>. QED BY <3>1, <3>2 DEF LeaseInv, Open, Others
    <2>11. ASSUME NEW w \in Workers, Release(w)
           PROVE  LeaseInv'
      <3>1. /\ Holding(worker[w]) /\ worker[w].step # "ENDING"
            /\ released' = [released EXCEPT ![worker[w].acquired[2]] = @ + 1]
        BY <2>11 DEF Release, Holding
      <3>2. PICK r \in Runs, p \in Profiles, l \in Leases :
               /\ worker[w].run = r /\ worker[w].acquired = <<p, l>>
               /\ <<p, l>> \in held /\ grantee[l] = r /\ released[l] = 0
               /\ run[r].status = "RUNNING" /\ r # Null
        <4>1. /\ worker[w].acquired \in held /\ released[worker[w].acquired[2]] = 0
              /\ grantee[worker[w].acquired[2]] = worker[w].run
          BY <3>1 DEF LeaseInv
        <4>2. worker[w].acquired \in Profiles \X Leases
          BY <4>1 DEF TypeInv, TypeOK
        <4>3. PICK p \in Profiles, l \in Leases : worker[w].acquired = <<p, l>>
          BY <4>2
        <4>4. /\ worker[w].run \in Runs /\ worker[w].run # Null
              /\ run[worker[w].run].status = "RUNNING"
          BY <2>0, <3>1, HomeFeedNull DEF Holding
        <4>. QED BY <4>1, <4>3, <4>4
      <3>3. /\ Others(w) /\ worker'[w].step = "ENDING"
            /\ worker'[w].run = r /\ worker'[w].acquired = worker[w].acquired
            /\ \/ worker'[w].leaseReleased = "YES" /\ Lock!Release(p, l)
               \/ /\ worker'[w].leaseReleased = "NO"
                  /\ worker'[w].verdict = "LEASE_RELEASE_FAILED"
                  /\ Lock!Release(p, l) \/ UNCHANGED <<held, closed>>
            /\ UNCHANGED <<run, cancel, grantee>>
        BY <2>11, <3>2, ReleaseEffect
      <3>4. released'[l] = 1 /\ \A m \in Leases \ {l} : released'[m] = released[m]
        BY <3>1, <3>2 DEF TypeInv, TypeOK
      <3>5. /\ held' \subseteq held /\ closed \subseteq closed'
            /\ \A x \in held : x # <<p, l>> => x \in held'
            /\ <<p, l>> \in held' \/ l \in closed'
        BY <3>2, <3>3 DEF Lock!Release
      <3>6. \A v \in Workers \ {w} : worker'[v] = worker[v] /\ worker[v].run # r
        BY <3>2, <3>3 DEF DrivenInv, Others
      <3>7. ASSUME Open(l)' PROVE Accounted(l)'
        <4>1. PICK q \in Profiles : <<q, l>> \in held'
          BY <3>7 DEF Open
        <4>2. q = p
          BY <3>2, <3>5, <4>1 DEF LeaseInv
        <4>3. ~Lock!Release(p, l)
          BY <4>1, <4>2 DEF Lock!Release
        <4>4. worker'[w].leaseReleased # "YES" /\ worker'[w].verdict \in Unconfirmed
          BY <3>3, <4>3 DEF Unconfirmed
        <4>. QED BY <3>2, <3>3, <3>6, <4>4 DEF Accounted
      <3>8. ASSUME NEW m \in Leases, m # l, Open(m)' PROVE Accounted(m)'
        <4>1. Accounted(m)
          BY <3>5, <3>8 DEF LeaseInv, Open
        <4>2. grantee[m] # r
          BY <3>1, <3>2, <3>8, <4>1 DEF Accounted
        <4>. QED BY <3>3, <3>6, <4>1, <4>2 DEF Accounted
      <3>9. \A m \in Leases : \/ released'[m] = 0
                              \/ released'[m] = 1 /\ (Open(m)' \/ m \in closed')
        <4>1. released'[l] = 1 /\ (Open(l)' \/ l \in closed')
          BY <3>4, <3>5 DEF Open
        <4>2. ASSUME NEW m \in Leases, m # l, Open(m) PROVE Open(m)'
          <5>1. PICK q \in Profiles : <<q, m>> \in held
            BY <4>2 DEF Open
          <5>2. <<q, m>> \in held'
            BY <3>5, <4>2, <5>1
          <5>. QED BY <5>2 DEF Open
        <4>3. ASSUME NEW m \in Leases, m # l
              PROVE  \/ released'[m] = 0
                     \/ released'[m] = 1 /\ (Open(m)' \/ m \in closed')
          <5>1. \/ released[m] = 0
                \/ released[m] = 1 /\ (Open(m) \/ m \in closed)
            BY DEF LeaseInv
          <5>2. Open(m) => Open(m)'
            BY <4>2, <4>3
          <5>. QED BY <3>4, <3>5, <4>3, <5>1, <5>2
        <4>. QED BY <4>1, <4>3
      <3>10. ASSUME NEW v \in Workers \ {w}, Holding(worker[v])
             PROVE  /\ worker[v].acquired \in held'
                    /\ grantee'[worker[v].acquired[2]] = worker[v].run
                    /\ released'[worker[v].acquired[2]] = 0
        <4>1. /\ worker[v].acquired \in held /\ worker[v].acquired[2] \in Leases
              /\ grantee[worker[v].acquired[2]] = worker[v].run
              /\ released[worker[v].acquired[2]] = 0
          BY <3>10 DEF LeaseInv, TypeInv, TypeOK
        <4>2. worker[v].acquired[2] # l
          BY <3>2, <3>6, <4>1
        <4>. QED BY <3>3, <3>4, <3>5, <4>1, <4>2
      <3>11. ASSUME NEW v \in Workers \ {w}, worker[v].step = "ENDING",
                    worker[v].acquired # Null
             PROVE  released'[worker[v].acquired[2]] = 1
        <4>1. released[worker[v].acquired[2]] = 1 /\ worker[v].acquired[2] \in Leases
          BY <2>0, <3>11 DEF LeaseInv
        <4>. QED BY <3>2, <3>4, <4>1
      <3>12. released'[worker'[w].acquired[2]] = 1 /\ ~Holding(worker[w])'
        BY <3>2, <3>3, <3>4 DEF Holding
      <3>13. \A v \in Workers :
                /\ Holding(worker[v])' =>
                      /\ worker'[v].acquired \in held'
                      /\ grantee'[worker'[v].acquired[2]] = worker'[v].run
                      /\ released'[worker'[v].acquired[2]] = 0
                /\ worker'[v].step \in {"IDLE", "CLAIMED"} => worker'[v].acquired = Null
                /\ worker'[v].step # "ENDING" => worker'[v].leaseReleased = Null
                /\ worker'[v].step = "ENDING" /\ worker'[v].acquired # Null
                      => released'[worker'[v].acquired[2]] = 1
        BY <3>3, <3>6, <3>10, <3>11, <3>12 DEF LeaseInv, Holding
      <3>14. \A q, t \in Profiles, m \in Leases :
                <<q, m>> \in held' /\ <<t, m>> \in held' => q = t
        BY <3>5 DEF LeaseInv
      <3>15. \A m \in Leases : Open(m)' => Accounted(m)'
        BY <3>7, <3>8
      <3>. QED BY <3>9, <3>13, <3>14, <3>15 DEF LeaseInv
    <2>12. ASSUME NEW w \in Workers, EndRun(w)
           PROVE  LeaseInv'
      <3>. DEFINE r == worker[w].run
      <3>1. /\ worker[w].step = "ENDING" /\ r \in Runs /\ r # Null
            /\ run[r].status = "RUNNING" /\ run'[r] = Ended(w, run[r])
            /\ \A q \in Runs : q # r => run'[q] = run[q]
        BY <2>0, <2>12, EndEffect, HomeFeedNull DEF EndRun
      <3>2. /\ Others(w) /\ worker'[w].run = Null
            /\ worker'[w].step \in {"IDLE", "EXITED"} /\ worker'[w].acquired = Null
            /\ worker'[w].leaseReleased = Null
            /\ UNCHANGED <<held, closed, grantee, released>>
        BY <2>12, LeaveEffect DEF EndRun, leaseVars
      <3>3. run[r] \in Run
        BY <3>1 DEF TypeInv, TypeOK
      <3>4. ASSUME NEW m \in Leases, Accounted(m), grantee[m] = r
            PROVE  Accounted(m)'
        <4>1. worker[w].verdict \in Unconfirmed /\ worker[w].leaseReleased # "YES"
          BY <3>1, <3>4 DEF Accounted, Holding
        <4>2. /\ run'[r].status = "FAILED" /\ run'[r].reason = worker[w].verdict
              /\ run'[r].leaseReleased = worker[w].leaseReleased
          BY <3>1, <3>3, <4>1 DEF Ended, Run, Unconfirmed
        <4>. QED BY <3>1, <3>2, <3>4, <4>1, <4>2 DEF Accounted
      <3>5. ASSUME NEW m \in Leases, Accounted(m), grantee[m] # r
            PROVE  Accounted(m)'
        BY <3>1, <3>2, <3>5, HomeFeedNull DEF Accounted, Others
      <3>6. \A m \in Leases : Accounted(m) => Accounted(m)'
        BY <3>4, <3>5
      <3>. QED BY <3>2, <3>6 DEF LeaseInv, Open, Holding, Others
    <2>13. ASSUME NEW w \in Workers, Exit(w) \/ Crash(w) \/ Restart(w)
           PROVE  LeaseInv'
      BY <2>6, <2>13, LeaveEffect DEF Exit, Crash, Restart, leaseVars
    <2>14. ASSUME NEW w \in Workers, Interrupt(w)
           PROVE  LeaseInv'
      <3>1. \A v \in Workers :
               /\ worker'[v].step = worker[v].step /\ worker'[v].verdict = worker[v].verdict
               /\ worker'[v].run = worker[v].run /\ worker'[v].acquired = worker[v].acquired
               /\ worker'[v].leaseReleased = worker[v].leaseReleased
        BY <2>14, InterruptEffect DEF Others
      <3>2. UNCHANGED <<run, held, closed, grantee, released>>
        BY <2>14, InterruptEffect
      <3>3. \A l \in Leases : Accounted(l) => Accounted(l)'
        BY <3>1, <3>2 DEF Accounted, Holding
      <3>4. \A v \in Workers : Holding(worker[v])' <=> Holding(worker[v])
        BY <3>1 DEF Holding
      <3>. QED BY <3>1, <3>2, <3>3, <3>4 DEF LeaseInv, Open
    <2>15. CASE UNCHANGED vars
      BY <2>15 DEF vars, LeaseInv, Open, Accounted, Holding
    <2>. QED
      BY <2>2, <2>3, <2>4, <2>5, <2>8, <2>9, <2>10, <2>11, <2>12, <2>13, <2>14, <2>15
         DEF Next, Api, WorkerStep
  <1>. QED BY <1>1, <1>2, TypeSafe, DrivenSafe, PTL DEF Spec

\* An open lease is always explained by the run it was taken for, in every
\* interleaving of workers, lost answers, interrupts and crashes.
THEOREM VerdictsTellLeases == Spec => []VerdictTellsLease
  <1>1. LeaseInv => VerdictTellsLease
    BY DEF LeaseInv, Accounted, Unconfirmed, VerdictTellsLease
  <1>. QED BY <1>1, LeaseSafe, PTL

\* Whichever branch an execution takes, its lease is released exactly once before
\* the run ends.
THEOREM LeasesReleasedOnce == Spec => []ReleasedOnce
  <1>1. LeaseInv => ReleasedOnce
    <2>. SUFFICES ASSUME LeaseInv PROVE ReleasedOnce
      OBVIOUS
    <2>1. \A l \in Leases : released[l] = 0 \/ released[l] = 1
      BY DEF LeaseInv
    <2>2. \A l \in Leases : released[l] <= 1
      BY <2>1
    <2>. QED BY <2>2 DEF LeaseInv, ReleasedOnce
  <1>. QED BY <1>1, LeaseSafe, PTL

-----------------------------------------------------------------------------
(* Posts come from the profile that was asked for *)

Submits(state) ==
    \/ state.step = "SUBMITTING"
    \/ state.step = "RELEASING" /\ state.verdict = "SUCCEED"

RightInv == \A w \in Workers : Submits(worker[w]) => Right(w)

LEMMA ProfilesStay ==
    ASSUME TypeInv, DrivenInv, [Next]_vars, NEW r \in Runs, run[r].status = "RUNNING"
    PROVE  run'[r].profile = run[r].profile
  <1>0. run[r] \in Run
    BY DEF TypeInv, TypeOK
  <1>1. ASSUME NEW q \in Runs, NEW p \in Profiles, RequestRun(q, p)
        PROVE  run'[r] = run[r]
    BY <1>1 DEF RequestRun, TypeInv, TypeOK
  <1>2. ASSUME NEW o \in Operators, CommitCancel(o)
        PROVE  run'[r] = run[r]
    BY <1>2 DEF CommitCancel, Transition, TypeInv, TypeOK
  <1>3. ASSUME NEW w \in Workers, NEW q \in Runs, Claim(w, q)
        PROVE  run'[r] = run[r]
    BY <1>3 DEF Claim, TypeInv, TypeOK
  <1>4. ASSUME NEW w \in Workers, EndRun(w)
        PROVE  run'[r].profile = run[r].profile
    BY <1>4, EndEffect
  <1>5. ASSUME NEW w \in Workers, Inner(w)
        PROVE  run' = run
    BY <1>5, InnerEffect
  <1>6. CASE UNCHANGED vars \/ \E o \in Operators, q \in Runs : BeginCancel(o, q)
    BY <1>6 DEF vars, BeginCancel
  <1>. QED
    BY <1>1, <1>2, <1>3, <1>4, <1>5, <1>6 DEF Next, Api, WorkerStep, Inner

\* A worker starts to submit only under the profile of its run.
LEMMA SubmitsStep ==
    ASSUME TypeInv, DrivenInv, [Next]_vars, NEW w \in Workers,
           Submits(worker[w])'
    PROVE  /\ worker'[w].run = worker[w].run /\ worker[w].run \in Runs
           /\ worker'[w].acquired = worker[w].acquired
           /\ Submits(worker[w]) \/ Right(w)
  <1>0. worker[w] \in Worker /\ Coherent(worker[w])
    BY DEF TypeInv, TypeOK
  <1>1. ASSUME worker'[w] = worker[w]
        PROVE  /\ worker'[w].run = worker[w].run /\ worker[w].run \in Runs
               /\ worker'[w].acquired = worker[w].acquired
               /\ Submits(worker[w])
    BY <1>0, <1>1 DEF Submits, Coherent, Worker
  <1>2. ASSUME NEW v \in Workers, v # w, Others(v)
        PROVE  worker'[w] = worker[w]
    BY <1>2 DEF Others
  <1>3. CASE Api \/ UNCHANGED vars
    BY <1>1, <1>3 DEF Api, RequestRun, BeginCancel, CommitCancel, vars
  <1>4. ASSUME NEW v \in Workers, WorkerStep(v) \/ Interrupt(v) \/ Crash(v) \/ Restart(v)
        PROVE  Others(v)
    <2>1. CASE \E r \in Runs : Claim(v, r)
      BY <2>1, ClaimEffect
    <2>2. CASE EndRun(v)
      BY <2>2, EndEffect
    <2>3. CASE Inner(v)
      BY <2>3, InnerEffect
    <2>. QED BY <1>4, <2>1, <2>2, <2>3 DEF WorkerStep, Inner
  <1>5. CASE \E r \in Runs : Claim(w, r)
    BY <1>5, ClaimEffect DEF Submits
  <1>6. CASE \/ RejectRun(w) \/ CheckoutRefused(w) \/ EndRun(w) \/ Release(w)
             \/ Exit(w) \/ Crash(w) \/ Restart(w)
    <2>1. worker'[w].step \notin {"SUBMITTING", "RELEASING"}
      BY <1>6, RefuseEffect, LeaveEffect, EndEffect, ReleaseEffect
         DEF RejectRun, CheckoutRefused, Exit, Crash, Restart
    <2>. QED BY <2>1 DEF Submits
  <1>7. CASE \E l \in Leases : Checkout(w, l)
    BY <1>7, CheckoutEffect DEF Submits
  <1>8. CASE \/ Mismatch(w) \/ CaptureSucceeds(w) \/ CaptureFails(w)
             \/ SubmitPost(w) \/ SubmittedAll(w) \/ Fault(w)
    BY <1>0, <1>8, CollectEffect DEF Submits, Coherent, Worker
  <1>9. CASE Interrupt(w)
    BY <1>0, <1>9, InterruptEffect DEF Submits, Coherent, Worker
  <1>. QED
    BY <1>1, <1>2, <1>3, <1>4, <1>5, <1>6, <1>7, <1>8, <1>9 DEF Next, WorkerStep

\* A worker that submits posts, or releases after it did, holds a lease of the
\* profile that its run is about.
THEOREM RightSafe == Spec => []RightInv
  <1>1. Init => RightInv
    BY DEF Init, IdleWorker, RightInv, Submits
  <1>2. TypeInv /\ DrivenInv /\ RightInv /\ [Next]_vars => RightInv'
    <2>. SUFFICES ASSUME TypeInv, DrivenInv, RightInv, [Next]_vars, NEW w \in Workers,
                         Submits(worker[w])'
                  PROVE  Right(w)'
      BY DEF RightInv
    <2>1. /\ worker'[w].run = worker[w].run /\ worker[w].run \in Runs
          /\ worker'[w].acquired = worker[w].acquired /\ Right(w)
      BY SubmitsStep DEF RightInv
    <2>2. run'[worker[w].run].profile = run[worker[w].run].profile
      BY <2>1, ProfilesStay, HomeFeedNull DEF DrivenInv
    <2>. QED BY <2>1, <2>2 DEF Right
  <1>. QED BY <1>1, <1>2, TypeSafe, DrivenSafe, PTL DEF Spec

\* Posts are submitted, and a success is reported, only under the lock of the
\* profile the run was requested for, also when checkouts answer another one.
THEOREM PostsUnderLease == Spec => []WorksUnderLease
  <1>1. TypeInv /\ LeaseInv /\ RightInv => WorksUnderLease
    <2>. SUFFICES ASSUME TypeInv, LeaseInv, RightInv, NEW w \in Workers, Submits(worker[w])
                  PROVE  <<run[worker[w].run].profile, worker[w].acquired[2]>> \in held
      BY DEF WorksUnderLease, Submits
    <2>1. worker[w].acquired \in held
      BY DEF LeaseInv, Holding, Submits
    <2>2. worker[w].acquired = <<worker[w].acquired[1], worker[w].acquired[2]>>
      BY <2>1 DEF TypeInv, TypeOK
    <2>3. worker[w].acquired[1] = run[worker[w].run].profile
      BY DEF RightInv, Right
    <2>. QED BY <2>1, <2>2, <2>3
  <1>. QED BY <1>1, TypeSafe, LeaseSafe, RightSafe, PTL

-----------------------------------------------------------------------------
(* What the rows of the table record *)

Recorded(row) ==
    /\ row.started <=> row.status \in {"RUNNING", "SUCCEEDED", "FAILED"}
    /\ row.finished <=> row.status \in {"CANCELED", "SUCCEEDED", "FAILED"}
    /\ row.reason # Null <=> row.status = "FAILED"
    /\ row.status = "SUCCEEDED" => row.leaseReleased = "YES"
    /\ row.leaseReleased = "NO" <=> row.reason = "LEASE_RELEASE_FAILED"
    /\ row.status = "FAILED" /\ row.leaseReleased = Null => row.reason \in NotAcquired

\* The verdict and the summary a worker is about to persist agree.
Settled(state) ==
    /\ state.step = "RELEASING" => state.verdict # "LEASE_RELEASE_FAILED"
    /\ state.step = "ENDING" =>
          /\ state.verdict = "SUCCEED" => state.leaseReleased = "YES"
          /\ state.leaseReleased = "NO" <=> state.verdict = "LEASE_RELEASE_FAILED"
          /\ state.leaseReleased = Null => state.verdict \in NotAcquired

RecordInv ==
    /\ \A r \in Runs : Recorded(run[r])
    /\ \A w \in Workers : Settled(worker[w])

LEMMA QueuedRecorded ==
    ASSUME NEW p \in Profiles, NEW n, NEW within
    PROVE  Recorded([NoRun EXCEPT !.status = "QUEUED", !.profile = p,
                                  !.requested = n, !.within = within])
  <1>1. "LEASE_RELEASE_FAILED" # Null /\ "NO" # Null
    BY HomeFeedNull DEF Failures
  <1>. QED BY <1>1 DEF Recorded, NoRun

LEMMA CanceledRecorded ==
    ASSUME NEW old \in Run, Recorded(old), old.status = "QUEUED"
    PROVE  Recorded([old EXCEPT !.status = "CANCELED", !.finished = TRUE])
  BY DEF Run, Recorded

LEMMA StartedRecorded ==
    ASSUME NEW old \in Run, Recorded(old), old.status = "QUEUED"
    PROVE  Recorded([old EXCEPT !.status = "RUNNING", !.started = TRUE])
  BY DEF Run, Recorded

LEMMA EndedRecorded ==
    ASSUME NEW old \in Run, Recorded(old), old.status = "RUNNING",
           NEW w \in Workers, worker[w].step = "ENDING",
           worker[w].verdict \in Failures \cup {"SUCCEED"},
           Settled(worker[w])
    PROVE  Recorded(Ended(w, old))
  <1>. DEFINE row == Ended(w, old)
  <1>1. /\ row.status = IF worker[w].verdict = "SUCCEED" THEN "SUCCEEDED" ELSE "FAILED"
        /\ row.reason = IF worker[w].verdict = "SUCCEED" THEN Null ELSE worker[w].verdict
        /\ row.finished = TRUE /\ row.started = old.started
        /\ row.leaseReleased = worker[w].leaseReleased
    BY DEF Ended, Run
  <1>. HIDE DEF row
  <1>2. old.started = TRUE
    BY DEF Recorded, Run
  <1>3. "LEASE_RELEASE_FAILED" # Null /\ "NO" # Null /\ "YES" # Null
    BY HomeFeedNull DEF Failures
  <1>4. Recorded(row)
    <2>1. CASE worker[w].verdict = "SUCCEED"
      <3>1. /\ row.status = "SUCCEEDED" /\ row.reason = Null
            /\ row.finished = TRUE /\ row.started = TRUE
            /\ row.leaseReleased = "YES"
        BY <1>1, <1>2, <2>1 DEF Settled
      <3>. QED BY <1>3, <3>1 DEF Recorded
    <2>2. CASE worker[w].verdict # "SUCCEED"
      <3>1. /\ row.status = "FAILED" /\ row.reason = worker[w].verdict
            /\ row.finished = TRUE /\ row.started = TRUE
            /\ row.leaseReleased = worker[w].leaseReleased
        BY <1>1, <1>2, <2>2
      <3>2. worker[w].verdict # Null
        BY <2>2, HomeFeedNull
      <3>3. /\ worker[w].leaseReleased = "NO" <=> worker[w].verdict = "LEASE_RELEASE_FAILED"
            /\ worker[w].leaseReleased = Null => worker[w].verdict \in NotAcquired
        BY DEF Settled
      <3>. QED BY <3>1, <3>2, <3>3 DEF Recorded
    <2>. QED BY <2>1, <2>2
  <1>. QED BY <1>4 DEF row

\* What a worker that is not ending may do leaves it settled.
LEMMA SettledStep ==
    ASSUME TypeInv, DrivenInv, LeaseInv, RecordInv, [Next]_vars, NEW w \in Workers
    PROVE  Settled(worker[w])'
  <1>0. worker[w] \in Worker /\ Settled(worker[w])
    BY DEF TypeInv, TypeOK, RecordInv
  <1>1. ASSUME worker'[w] = worker[w]
        PROVE  Settled(worker[w])'
    BY <1>0, <1>1 DEF Settled
  <1>2. ASSUME NEW v \in Workers, v # w, Others(v)
        PROVE  Settled(worker[w])'
    BY <1>1, <1>2 DEF Others
  <1>3. CASE Api \/ UNCHANGED vars
    BY <1>1, <1>3 DEF Api, RequestRun, BeginCancel, CommitCancel, vars
  <1>4. ASSUME NEW v \in Workers, WorkerStep(v) \/ Interrupt(v) \/ Crash(v) \/ Restart(v)
        PROVE  Others(v)
    <2>1. CASE \E r \in Runs : Claim(v, r)
      BY <2>1, ClaimEffect
    <2>2. CASE EndRun(v)
      BY <2>2, EndEffect
    <2>3. CASE Inner(v)
      BY <2>3, InnerEffect
    <2>. QED BY <1>4, <2>1, <2>2, <2>3 DEF WorkerStep, Inner
  <1>5. ASSUME worker'[w].step \notin {"RELEASING", "ENDING"}
        PROVE  Settled(worker[w])'
    BY <1>5 DEF Settled
  <1>6. CASE \/ \E r \in Runs : Claim(w, r)
             \/ EndRun(w) \/ Exit(w) \/ Crash(w) \/ Restart(w)
    BY <1>5, <1>6, ClaimEffect, LeaveEffect, EndEffect DEF Exit, Crash, Restart
  <1>7. ASSUME NEW verdict \in NotAcquired, worker[w].step = "CLAIMED", Refuse(w, verdict)
        PROVE  Settled(worker[w])'
    <2>1. /\ worker'[w].step = "ENDING" /\ worker'[w].verdict = verdict
          /\ worker'[w].leaseReleased = Null
      BY <1>7, RefuseEffect DEF LeaseInv
    <2>2. verdict # "SUCCEED" /\ verdict # "LEASE_RELEASE_FAILED" /\ "NO" # Null
      BY HomeFeedNull DEF NotAcquired
    <2>. QED BY <2>1, <2>2 DEF Settled
  <1>8. CASE RejectRun(w) \/ CheckoutRefused(w)
    BY <1>5, <1>7, <1>8, LeaveEffect
       DEF RejectRun, CheckoutRefused, ReadyToCheckOut, NotAcquired
  <1>9. CASE \E l \in Leases : Checkout(w, l)
    <2>1. PICK l \in Leases : Checkout(w, l)
      BY <1>9
    <2>2. worker[w].leaseReleased = Null
      BY <2>1 DEF Checkout, ReadyToCheckOut, LeaseInv
    <2>3. "NO" # Null
      BY HomeFeedNull
    <2>. QED BY <2>1, <2>2, <2>3, CheckoutEffect DEF Settled, NotAcquired
  <1>10. CASE \/ Mismatch(w) \/ CaptureSucceeds(w) \/ CaptureFails(w)
              \/ SubmitPost(w) \/ SubmittedAll(w) \/ Fault(w)
    BY <1>10, CollectEffect DEF Settled
  <1>11. CASE Release(w)
    <2>1. worker[w].step = "RELEASING" /\ worker[w].verdict # "LEASE_RELEASE_FAILED"
      BY <1>0, <1>11 DEF Release, Settled
    <2>2. "NO" # Null /\ "YES" # Null
      BY HomeFeedNull
    <2>3. /\ worker'[w].step = "ENDING"
          /\ \/ worker'[w].leaseReleased = "YES" /\ worker'[w].verdict = worker[w].verdict
             \/ /\ worker'[w].leaseReleased = "NO"
                /\ worker'[w].verdict = "LEASE_RELEASE_FAILED"
      BY <1>11, ReleaseEffect
    <2>. QED BY <2>1, <2>2, <2>3 DEF Settled
  <1>12. CASE Interrupt(w)
    BY <1>0, <1>12, InterruptEffect DEF Settled
  <1>. QED
    BY <1>2, <1>3, <1>4, <1>6, <1>8, <1>9, <1>10, <1>11, <1>12 DEF Next, WorkerStep

LEMMA RecordedStep ==
    ASSUME TypeInv, DrivenInv, RecordInv, [Next]_vars, NEW r \in Runs
    PROVE  Recorded(run[r])'
  <1>0. run[r] \in Run /\ Recorded(run[r])
    BY DEF TypeInv, TypeOK, RecordInv
  <1>1. ASSUME run'[r] = run[r]
        PROVE  Recorded(run[r])'
    BY <1>0, <1>1 DEF Recorded
  <1>2. ASSUME NEW q \in Runs, NEW p \in Profiles, RequestRun(q, p)
        PROVE  Recorded(run[r])'
    <2>1. CASE q = r
      <3>1. PICK within \in BOOLEAN :
               run'[r] = [NoRun EXCEPT !.status = "QUEUED", !.profile = p,
                                       !.requested = Cardinality(Created),
                                       !.within = within]
        BY <1>2, <2>1 DEF RequestRun, TypeInv, TypeOK
      <3>2. Recorded([NoRun EXCEPT !.status = "QUEUED", !.profile = p,
                                   !.requested = Cardinality(Created),
                                   !.within = within])
        BY QueuedRecorded
      <3>. QED BY <3>1, <3>2
    <2>2. CASE q # r
      BY <1>1, <1>2, <2>2 DEF RequestRun, TypeInv, TypeOK
    <2>. QED BY <2>1, <2>2
  <1>3. ASSUME NEW o \in Operators, CommitCancel(o)
        PROVE  Recorded(run[r])'
    <2>1. CASE cancel[o] = r /\ run[r].status = "QUEUED"
      <3>1. run'[r] = [run[r] EXCEPT !.status = "CANCELED", !.finished = TRUE]
        BY <1>3, <2>1 DEF CommitCancel, Transition, TypeInv, TypeOK
      <3>. QED BY <1>0, <2>1, <3>1, CanceledRecorded
    <2>2. CASE ~(cancel[o] = r /\ run[r].status = "QUEUED")
      BY <1>1, <1>3, <2>2 DEF CommitCancel, Transition, TypeInv, TypeOK
    <2>. QED BY <2>1, <2>2
  <1>4. ASSUME NEW w \in Workers, NEW q \in Runs, Claim(w, q)
        PROVE  Recorded(run[r])'
    <2>1. CASE q = r
      <3>1. /\ run[r].status = "QUEUED"
            /\ run'[r] = [run[r] EXCEPT !.status = "RUNNING", !.started = TRUE]
        BY <1>4, <2>1 DEF Claim, TypeInv, TypeOK
      <3>. QED BY <1>0, <3>1, StartedRecorded
    <2>2. CASE q # r
      BY <1>1, <1>4, <2>2 DEF Claim, TypeInv, TypeOK
    <2>. QED BY <2>1, <2>2
  <1>5. ASSUME NEW w \in Workers, EndRun(w)
        PROVE  Recorded(run[r])'
    <2>1. CASE worker[w].run = r
      <3>1. /\ worker[w].step = "ENDING" /\ worker[w] \in Worker /\ Coherent(worker[w])
            /\ Settled(worker[w])
        BY <1>5 DEF EndRun, TypeInv, TypeOK, RecordInv
      <3>2. worker[w].verdict \in Failures \cup {"SUCCEED"}
        BY <3>1 DEF Coherent, Worker
      <3>3. run[r].status = "RUNNING"
        BY <2>1, HomeFeedNull DEF DrivenInv
      <3>4. run'[r] = Ended(w, run[r])
        BY <1>5, <2>1, <3>3, EndEffect
      <3>5. Recorded(Ended(w, run[r]))
        BY <1>0, <3>1, <3>2, <3>3, EndedRecorded
      <3>. QED BY <3>4, <3>5
    <2>2. CASE worker[w].run # r
      BY <1>1, <1>5, <2>2, EndEffect
    <2>. QED BY <2>1, <2>2
  <1>6. ASSUME NEW w \in Workers, Inner(w)
        PROVE  Recorded(run[r])'
    BY <1>1, <1>6, InnerEffect
  <1>7. CASE UNCHANGED vars \/ \E o \in Operators, q \in Runs : BeginCancel(o, q)
    BY <1>1, <1>7 DEF vars, BeginCancel
  <1>. QED
    BY <1>2, <1>3, <1>4, <1>5, <1>6, <1>7 DEF Next, Api, WorkerStep, Inner

\* The verdict a worker is about to record agrees with how its lease and its posts
\* ended, and so does each row that ended.
THEOREM RecordSafe == Spec => []RecordInv
  <1>1. Init => RecordInv
    <2>. SUFFICES ASSUME Init PROVE RecordInv
      OBVIOUS
    <2>1. "LEASE_RELEASE_FAILED" # Null /\ "NO" # Null
      BY HomeFeedNull DEF Failures
    <2>2. Recorded(NoRun) /\ Settled(IdleWorker)
      BY <2>1 DEF Recorded, NoRun, Settled, IdleWorker
    <2>. QED BY <2>2 DEF Init, RecordInv
  <1>2. TypeInv /\ DrivenInv /\ LeaseInv /\ RecordInv /\ [Next]_vars => RecordInv'
    BY SettledStep, RecordedStep DEF RecordInv
  <1>. QED BY <1>1, <1>2, TypeSafe, DrivenSafe, LeaseSafe, PTL DEF Spec

\* Whatever the interleaving of requests, cancels and workers, a row tells what
\* happened to its run: started, finished, why it failed, what became of its lease.
THEOREM RunsRecorded == Spec => []RunRecorded
  <1>1. RecordInv => RunRecorded
    BY DEF RecordInv, Recorded, RunRecorded
  <1>. QED BY <1>1, RecordSafe, PTL
=============================================================================
