----------------------------- MODULE TaskStatus -----------------------------
(***************************************************************************)
(* The status column of the shared tasks row, and the pure rules both      *)
(* sides apply to it.  The Go backend (backend/tasks.go) and the Python    *)
(* worker (python-worker/sunny_core/db.py) read and write the same row.    *)
(***************************************************************************)

TaskStatuses == {"pending", "claimed", "running", "cancel_requested",
                 "succeeded", "failed", "interrupted", "cancelled"}

terminalTaskStatuses == {"succeeded", "failed", "interrupted", "cancelled"}

\* What markInterrupted sweeps when the backend starts.
Unfinished == {"pending", "claimed", "running", "cancel_requested"}

\* The statuses an executor reads as "stop": SunnyDB.cancel_requested in the
\* worker, finishCancelledTask and taskCancellationContext in the backend.
CancelSignals == {"cancel_requested", "cancelled", "interrupted"}

\* SunnyDB.update_task: a status written over a cancel signal becomes
\* "cancelled".  `current` is the status of an EARLIER statement: the worker's
\* connection is in autocommit mode, so the read and the write are two steps.
Coerced(current, new) ==
  IF current \in CancelSignals /\ new \notin {"cancelled", "interrupted"}
  THEN "cancelled"
  ELSE new

\* transitionTaskCancellation: the two conditional UPDATEs.
CancelPending(status) == IF status = "pending" THEN "cancelled" ELSE status

CancelActive(status) ==
  IF status \in {"claimed", "running"} THEN "cancel_requested" ELSE status
=============================================================================
