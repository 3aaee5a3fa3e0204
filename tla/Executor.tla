------------------------------- MODULE Executor -------------------------------
(***************************************************************************)
(* What the two hand-offs of the native runtime promise, PresentWorkQueue  *)
(* (callbacks for the render thread) and OwnerService (callbacks for the   *)
(* owner thread): a request is accepted only while the executor is open,   *)
(* one at a time is executed, and each accepted request finishes once,     *)
(* either executed, with the verdict of its callback, or cancelled.        *)
(* Nothing begins after the executor has closed.                           *)
(***************************************************************************)
CONSTANT Requests

VARIABLES open,     \* requests are accepted and begun
          status,   \* "finished" (or never made), "pending" or "running"
          verdict   \* the requests that finished successfully

executorVars == <<open, status, verdict>>

ExecutorTypeOK ==
  /\ open \in BOOLEAN
  /\ status \in [Requests -> {"finished", "pending", "running"}]
  /\ verdict \in SUBSET Requests

ExecutorInit ==
  /\ open = FALSE
  /\ status = [r \in Requests |-> "finished"]
  /\ verdict = {}

Open ==
  /\ ~open /\ \A r \in Requests : status[r] = "finished"
  /\ open' = TRUE
  /\ UNCHANGED <<status, verdict>>

Close ==
  /\ open /\ open' = FALSE
  /\ UNCHANGED <<status, verdict>>

Accept(r) ==
  /\ open /\ status[r] = "finished"
  /\ status' = [status EXCEPT ![r] = "pending"]
  /\ verdict' = verdict \ {r}
  /\ UNCHANGED open

Begin(r) ==
  /\ open /\ status[r] = "pending" /\ \A s \in Requests : status[s] # "running"
  /\ status' = [status EXCEPT ![r] = "running"]
  /\ UNCHANGED <<open, verdict>>

End(r, ok) ==
  /\ status[r] = "running"
  /\ status' = [status EXCEPT ![r] = "finished"]
  /\ verdict' = IF ok THEN verdict \cup {r} ELSE verdict \ {r}
  /\ UNCHANGED open

Cancel(r) ==
  /\ status[r] = "pending"
  /\ status' = [status EXCEPT ![r] = "finished"]
  /\ verdict' = verdict \ {r}
  /\ UNCHANGED open

ExecutorNext ==
  \/ Open \/ Close
  \/ \E r \in Requests : Accept(r) \/ Begin(r) \/ Cancel(r)
  \/ \E r \in Requests, ok \in BOOLEAN : End(r, ok)

ExecutorSpec == ExecutorInit /\ [][ExecutorNext]_executorVars

===============================================================================
