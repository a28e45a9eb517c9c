---------------------------- MODULE RunLifecycle ----------------------------
(***************************************************************************)
(* What every kind of run promises: it is queued once, then either         *)
(* canceled or taken by exactly one worker; only that worker ends it, and  *)
(* what is ended or canceled stays so.  A worker may lose its run (it      *)
(* stops or fails); nothing takes the run up again.                        *)
(***************************************************************************)
CONSTANTS Runs, Workers

VARIABLES status,   \* status of each run
          driven    \* pairs <<worker, run>>

vars == <<status, driven>>

Terminal == {"SUCCEEDED", "FAILED", "CANCELED"}

Init == status = [r \in Runs |-> "ABSENT"] /\ driven = {}

Queue(r) ==
    /\ status[r] = "ABSENT"
    /\ status' = [status EXCEPT ![r] = "QUEUED"]
    /\ UNCHANGED driven

Cancel(r) ==
    /\ status[r] = "QUEUED"
    /\ status' = [status EXCEPT ![r] = "CANCELED"]
    /\ UNCHANGED driven

Take(w, r) ==
    /\ status[r] = "QUEUED"
    /\ \A q \in Runs : <<w, q>> \notin driven
    /\ status' = [status EXCEPT ![r] = "RUNNING"]
    /\ driven' = driven \cup {<<w, r>>}

End(w, r) ==
    /\ <<w, r>> \in driven /\ status[r] = "RUNNING"
    /\ \E verdict \in {"SUCCEEDED", "FAILED"} :
          status' = [status EXCEPT ![r] = verdict]
    /\ driven' = driven \ {<<w, r>>}

Lose(w, r) ==
    /\ <<w, r>> \in driven
    /\ driven' = driven \ {<<w, r>>}
    /\ UNCHANGED status

Next ==
    \/ \E r \in Runs : Queue(r) \/ Cancel(r)
    \/ \E w \in Workers, r \in Runs : Take(w, r) \/ End(w, r) \/ Lose(w, r)

Spec == Init /\ [][Next]_vars
=============================================================================
