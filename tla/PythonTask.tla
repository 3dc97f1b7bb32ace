----------------------------- MODULE PythonTask -----------------------------
(***************************************************************************)
(* One sunny_register/sunny_login task from the pending row to its end, as *)
(* the processes that share its row see it:                                *)
(*   - the Go backend: the dispatcher goroutine, the HTTP cancel handler,  *)
(*     the HTTP status handler that reconciles stale rows, the start-up    *)
(*     sweep (backend/tasks.go, backend/db.go);                            *)
(*   - the Python worker service: /execute, /cancel, one watcher thread    *)
(*     (python-worker/worker.py);                                          *)
(*   - the task's child process (sunny_core/worker.py: run_sunny_task) and *)
(*     the statements it runs through sunny_core/db.py.                    *)
(* A read of the status and the write that depends on it are two actions,  *)
(* so they interleave here as they do there; a sweep over the mailboxes of *)
(* the task is one action.                                                 *)
(***************************************************************************)
EXTENDS TaskStatus, Naturals

CONSTANTS Mailboxes,    \* the ids of the mailboxes of the task
          Registered0,  \* those an earlier task had already registered
          MaxCancels,   \* bound: how often the user presses cancel
          MaxRestarts   \* bound: how often either service goes down

ASSUME MailboxesAssumption == Mailboxes \subseteq Nat
ASSUME Registered0Assumption == Registered0 \subseteq Mailboxes
ASSUME BoundsAssumption == MaxCancels \in Nat /\ MaxRestarts \in Nat

VARIABLES
  status,      \* tasks.status
  silence,     \* how long the row and its events have not changed
  mailbox,     \* sunny_mailboxes.status
  checkpoint,  \* sunny_accounts: what this task recorded about the mailbox
  backend,     \* the Go process
  dispatcher,  \* the goroutine of dispatchPending/executeTask
  stop,        \* the HTTP cancel handler
  call,        \* the backend's POST /cancel to the worker
  poll,        \* the HTTP status handler inside interruptStaleSunnyTask
  worker,      \* the Python service process
  execute,     \* the backend's POST /execute to the worker
  running,     \* task_id \in _running
  process,     \* task_id \in _processes
  kill,        \* the worker's /cancel handler
  watcher,     \* the thread in _watch_task_process
  child,       \* the child process
  faults       \* how often cancel was pressed and a service went down

goVars == <<backend, dispatcher, stop, poll>>
workerVars == <<worker, running, process>>
vars == <<status, silence, mailbox, checkpoint, goVars, call, workerVars,
          execute, kill, watcher, child, faults>>

\* "busy" is 注册中 or 登录刷新, "registered" any of 已注册/已接码/已反代,
\* "failed" 失败, "fresh" 未注册.
MailboxStatuses == {"fresh", "busy", "registered", "failed"}

\* The metadata_json and the status of the account row: "started" under
\* task_started, "registered" under a checkpoint that completes it; "failed"
\* and "retracted" are these two with the account row itself failed.
Checkpoints == {"none", "started", "registered", "failed", "retracted"}

\* Silence in the units the timeouts tell apart: below 20 s, from 20 s (a
\* cancel request is stale), from 20 min (a task is stale), from
\* TASK_IDLE_TIMEOUT_SECONDS, 30 min (the watcher reclaims the child).
Recent == 0
CancelStale == 1
TaskStale == 2
Idle == 3

Exited == {"exit0", "exit1"}
ChildAlive == child.pc \notin Exited \cup {"none"}

\* No cancel handler at work.
NoStop == [pc |-> "idle", changed |-> FALSE]

\* The child's record: the mailboxes left, the one in work, the status its
\* last update_task read, and whether a mailbox succeeded.
NoChild(pc) == [pc |-> pc, todo |-> {}, current |-> {}, seen |-> "pending",
                success |-> FALSE]

(***************************************************************************)
(* Shared database operations.                                             *)
(***************************************************************************)

\* Writing the row refreshes updated_at.
WriteStatus(new) == status' = new /\ silence' = Recent

\* The status a mailbox falls back to when its flow does not complete:
\* original_completed_status, else 失败.
Fallback(m) == IF m \in Registered0 THEN "registered" ELSE "failed"

\* SunnyDB.fail_unfinished_mailboxes: what counts as completed.
Completed(m) ==
  \/ checkpoint[m] \in {"registered", "retracted"}
  \/ checkpoint[m] = "started" /\ m \in Registered0
  \/ mailbox[m] = "registered"

\* Mutant: the sweep forgets what the task has completed.
SweepEverything == mailbox' = [m \in Mailboxes |-> Fallback(m)]

fail_unfinished_mailboxes ==
  mailbox' = [m \in Mailboxes |-> IF Completed(m) THEN "registered" ELSE "failed"]

\* The sweep interruptStaleSunnyTask and markInterrupted share.
failBusyMailboxes ==
  mailbox' = [m \in Mailboxes |->
                IF mailbox[m] = "busy" THEN "failed" ELSE mailbox[m]]

(***************************************************************************)
(* Go backend: dispatch.                                                   *)
(***************************************************************************)

claimPendingTask ==
  /\ backend = "up" /\ dispatcher = "absent"
  /\ status = "pending"
  /\ WriteStatus("claimed")
  /\ dispatcher' = "health"
  /\ UNCHANGED <<mailbox, checkpoint, backend, stop, poll, call, workerVars,
                 execute, kill, watcher, child, faults>>

\* checkSunnyWorkerDatabase answered: POST /execute goes out.
tryDispatchPythonWorker ==
  /\ dispatcher = "health" /\ worker = "up"
  /\ dispatcher' = "waiting"
  /\ execute' = "inflight"
  /\ UNCHANGED <<status, silence, mailbox, checkpoint, backend, stop, poll,
                 call, workerVars, kill, watcher, child, faults>>

\* The health check failed, or /execute answered an error or nothing within
\* 8 s: the goroutine saves its own copy of the row as failed.
failPythonDispatch ==
  /\ dispatcher \in {"health", "waiting"}
  /\ WriteStatus("failed")
  /\ dispatcher' = "done"
  /\ UNCHANGED <<mailbox, checkpoint, backend, stop, poll, call, workerVars,
                 execute, kill, watcher, child, faults>>

DispatchAccepted ==
  /\ dispatcher = "waiting" /\ execute = "accepted"
  /\ dispatcher' = "done"
  /\ silence' = Recent    \* the "dispatched" event
  /\ UNCHANGED <<status, mailbox, checkpoint, backend, stop, poll, call,
                 workerVars, execute, kill, watcher, child, faults>>

(***************************************************************************)
(* Go backend: POST /tasks/<id>/cancel.  The handler loads the row, tries  *)
(* the two conditional updates, reloads the row and decides from it.       *)
(***************************************************************************)

CancelHandlerLoads ==
  /\ faults.cancels < MaxCancels
  /\ faults' = [faults EXCEPT !.cancels = @ + 1]
  /\ backend = "up" /\ stop.pc = "idle"
  /\ status \notin terminalTaskStatuses
  /\ stop' = [pc |-> "pending", changed |-> FALSE]
  /\ UNCHANGED <<status, silence, mailbox, checkpoint, backend, dispatcher,
                 poll, call, workerVars, execute, kill, watcher, child>>

CancelPendingUpdate ==
  /\ stop.pc = "pending"
  /\ \/ /\ status = "pending"
        /\ WriteStatus(CancelPending(status))
        /\ stop' = [stop EXCEPT !.pc = "reload", !.changed = TRUE]
     \/ /\ status # "pending"
        /\ UNCHANGED <<status, silence>>
        /\ stop' = [stop EXCEPT !.pc = "active"]
  /\ UNCHANGED <<mailbox, checkpoint, backend, dispatcher, poll, call,
                 workerVars, execute, kill, watcher, child, faults>>

CancelActiveUpdate ==
  /\ stop.pc = "active"
  /\ \/ /\ status \in {"claimed", "running"}
        /\ WriteStatus(CancelActive(status))
        /\ stop' = [stop EXCEPT !.pc = "reload", !.changed = TRUE]
     \/ /\ status \notin {"claimed", "running"}
        /\ UNCHANGED <<status, silence>>
        /\ stop' = [stop EXCEPT !.pc = "reload"]
  /\ UNCHANGED <<mailbox, checkpoint, backend, dispatcher, poll, call,
                 workerVars, execute, kill, watcher, child, faults>>

\* An already finished task is reported as it is; a cancelled one has its
\* mailboxes swept here; any other is handed to the worker's /cancel.
CancelHandlerReloads ==
  /\ stop.pc = "reload"
  /\ \/ /\ ~stop.changed /\ status \in terminalTaskStatuses
        /\ stop' = NoStop
        /\ UNCHANGED <<call, silence>>
     \/ /\ stop.changed \/ status \notin terminalTaskStatuses
        /\ silence' = Recent    \* the "cancel requested" event
        /\ IF status = "cancelled"
           THEN stop' = [stop EXCEPT !.pc = "mark"] /\ UNCHANGED call
           ELSE stop' = NoStop /\ call' = "sent"
  /\ UNCHANGED <<status, mailbox, checkpoint, backend, dispatcher, poll,
                 workerVars, execute, kill, watcher, child, faults>>

\* Completed, for the backend, is an account row of this task that has not
\* failed; the statement ends with a Save of the reloaded (cancelled) row.
markSunnyUnfinishedMailboxes ==
  /\ stop.pc = "mark"
  /\ mailbox' = [m \in Mailboxes |->
                   IF checkpoint[m] \in {"started", "registered"}
                   THEN mailbox[m] ELSE "failed"]
  /\ WriteStatus("cancelled")
  /\ stop' = NoStop
  /\ UNCHANGED <<checkpoint, backend, dispatcher, poll, call, workerVars,
                 execute, kill, watcher, child, faults>>

\* The POST failed; the handler only logs it.
CancelCallLost ==
  /\ call \in {"sent", "lost"}
  /\ call' = "none"
  /\ silence' = IF backend = "up" THEN Recent ELSE silence    \* its event
  /\ UNCHANGED <<status, mailbox, checkpoint, goVars, workerVars, execute, kill,
                 watcher, child, faults>>

(***************************************************************************)
(* Go backend: GET /tasks/<id> reconciles a row that went quiet.           *)
(***************************************************************************)

\* Mutant: only cancel requests are reconciled.
ReconcileCancelOnly ==
  /\ backend = "up" /\ poll = "idle"
  /\ status = "cancel_requested" /\ silence >= CancelStale
  /\ poll' = "save"
  /\ UNCHANGED <<status, silence, mailbox, checkpoint, backend, dispatcher,
                 stop, call, workerVars, execute, kill, watcher, child, faults>>

reconcilePythonTaskStatus ==
  /\ backend = "up" /\ poll = "idle"
  /\ \/ status = "cancel_requested" /\ silence >= CancelStale
     \/ status \in {"claimed", "running"} /\ silence >= TaskStale /\ worker = "up"
  /\ poll' = "save"
  /\ UNCHANGED <<status, silence, mailbox, checkpoint, backend, dispatcher,
                 stop, call, workerVars, execute, kill, watcher, child, faults>>

\* interruptStaleSunnyTask: Save of the row it loaded, then the mailboxes.
InterruptSavesRow ==
  /\ poll = "save"
  /\ WriteStatus("interrupted")
  /\ poll' = "mailboxes"
  /\ UNCHANGED <<mailbox, checkpoint, backend, dispatcher, stop, call,
                 workerVars, execute, kill, watcher, child, faults>>

InterruptSweepsMailboxes ==
  /\ poll = "mailboxes"
  /\ failBusyMailboxes
  /\ silence' = Recent
  /\ poll' = "idle"
  /\ UNCHANGED <<status, checkpoint, backend, dispatcher, stop, call,
                 workerVars, execute, kill, watcher, child, faults>>

(***************************************************************************)
(* Go backend: restart.  Requests already with the worker stay there.      *)
(***************************************************************************)

BackendStops ==
  /\ faults.restarts < MaxRestarts
  /\ faults' = [faults EXCEPT !.restarts = @ + 1]
  /\ backend # "down"
  /\ backend' = "down"
  /\ dispatcher' = IF dispatcher = "absent" THEN "absent" ELSE "done"
  /\ stop' = NoStop
  /\ poll' = "idle"
  /\ UNCHANGED <<status, silence, mailbox, checkpoint, call, workerVars,
                 execute, kill, watcher, child>>

\* markInterrupted: the mailboxes of every unfinished task, then the rows.
markInterruptedMailboxes ==
  /\ backend = "down"
  /\ backend' = "sweeping"
  /\ IF status \in Unfinished THEN failBusyMailboxes ELSE UNCHANGED mailbox
  /\ UNCHANGED <<status, silence, checkpoint, dispatcher, stop, poll, call,
                 workerVars, execute, kill, watcher, child, faults>>

markInterruptedRows ==
  /\ backend = "sweeping"
  /\ backend' = "up"
  /\ IF status \in Unfinished
     THEN WriteStatus("interrupted") ELSE UNCHANGED <<status, silence>>
  /\ UNCHANGED <<mailbox, checkpoint, dispatcher, stop, poll, call, workerVars,
                 execute, kill, watcher, child, faults>>

(***************************************************************************)
(* Python worker service.                                                  *)
(***************************************************************************)

\* Under _state_lock: Popen, _running, _processes; then the watcher thread.
\* The answer may find the dispatcher no longer waiting for it.
AcceptExecute ==
  /\ worker = "up" /\ execute = "inflight" /\ ~running
  /\ execute' = "accepted"
  /\ running' = TRUE
  /\ process' = TRUE
  /\ watcher' = [pc |-> "watching", seen |-> "pending"]
  /\ child' = [NoChild("boot") EXCEPT !.todo = Mailboxes]
  /\ UNCHANGED <<status, silence, mailbox, checkpoint, goVars, call, worker,
                 kill, faults>>

ExecuteLost ==
  /\ execute = "inflight"
  /\ execute' = "lost"
  /\ UNCHANGED <<status, silence, mailbox, checkpoint, goVars, call, workerVars,
                 kill, watcher, child, faults>>

\* GET /health reaps a finished child before it lists what runs.
health ==
  /\ worker = "up" /\ process /\ child.pc \in Exited
  /\ running' = FALSE
  /\ process' = FALSE
  /\ UNCHANGED <<status, silence, mailbox, checkpoint, goVars, call, worker,
                 execute, kill, watcher, child, faults>>

\* POST /cancel, first statement of _set_cancel_requested.
KillReadsStatus ==
  /\ worker = "up" /\ call = "sent" /\ kill.pc = "idle"
  /\ call' = "none"
  /\ kill' = [kill EXCEPT !.pc = IF status \in terminalTaskStatuses
                                 THEN "snapshot" ELSE "read"]
  /\ UNCHANGED <<status, silence, mailbox, checkpoint, goVars, workerVars,
                 execute, watcher, child, faults>>

\* update_task(status="cancel_requested"): its read, then its write.
KillReadsAgain ==
  /\ kill.pc = "read"
  /\ kill' = [kill EXCEPT !.pc = "write", !.seen = status]
  /\ UNCHANGED <<status, silence, mailbox, checkpoint, goVars, call, workerVars,
                 execute, watcher, child, faults>>

KillRequestsCancel ==
  /\ kill.pc = "write"
  /\ WriteStatus(Coerced(kill.seen, "cancel_requested"))
  /\ kill' = [kill EXCEPT !.pc = "snapshot", !.seen = "pending"]
  /\ UNCHANGED <<mailbox, checkpoint, goVars, call, workerVars, execute,
                 watcher, child, faults>>

\* process = _processes.get(task_id)
KillSnapshotsProcess ==
  /\ kill.pc = "snapshot"
  /\ kill' = [kill EXCEPT !.pc = IF process THEN "wait" ELSE "mailboxes",
                         !.handle = process]
  /\ UNCHANGED <<status, silence, mailbox, checkpoint, goVars, call, workerVars,
                 execute, watcher, child, faults>>

\* The child left within a second, or _terminate_process_tree.
KillTerminates ==
  /\ kill.pc = "wait"
  /\ child' = IF ChildAlive THEN NoChild("exit1") ELSE child
  /\ kill' = [kill EXCEPT !.pc = "mailboxes"]
  /\ UNCHANGED <<status, silence, mailbox, checkpoint, goVars, call, workerVars,
                 execute, watcher, faults>>

\* mark_cancelled: the mailboxes, then the row.
KillSweepsMailboxes ==
  /\ kill.pc = "mailboxes"
  /\ fail_unfinished_mailboxes
  /\ kill' = [kill EXCEPT !.pc = "cancelled"]
  /\ UNCHANGED <<status, silence, checkpoint, goVars, call, workerVars, execute,
                 watcher, child, faults>>

KillMarksCancelled ==
  /\ kill.pc = "cancelled"
  /\ WriteStatus("cancelled")
  /\ kill' = [kill EXCEPT !.pc = "discard"]
  /\ UNCHANGED <<mailbox, checkpoint, goVars, call, workerVars, execute,
                 watcher, child, faults>>

\* Mutant: the handle is dropped whichever process it belongs to.
KillDiscardsAny ==
  /\ kill.pc = "discard"
  /\ running' = FALSE
  /\ process' = FALSE
  /\ kill' = [kill EXCEPT !.pc = "idle", !.handle = FALSE]
  /\ UNCHANGED <<status, silence, mailbox, checkpoint, goVars, call, worker,
                 execute, watcher, child, faults>>

\* _running forgets the task; _processes only the handle of the snapshot.
KillDiscards ==
  /\ kill.pc = "discard"
  /\ running' = FALSE
  /\ process' = (process /\ ~kill.handle)
  /\ kill' = [kill EXCEPT !.pc = "idle", !.handle = FALSE]
  /\ UNCHANGED <<status, silence, mailbox, checkpoint, goVars, call, worker,
                 execute, watcher, child, faults>>

(***************************************************************************)
(* _watch_task_process.                                                    *)
(***************************************************************************)

\* No change of the row or its events for TASK_IDLE_TIMEOUT_SECONDS.
WatcherReclaims ==
  /\ watcher.pc = "watching" /\ ChildAlive
  /\ silence = Idle
  /\ child' = NoChild("exit1")
  /\ UNCHANGED <<status, silence, mailbox, checkpoint, goVars, call, workerVars,
                 execute, kill, watcher, faults>>

WatcherReaps ==
  /\ watcher.pc = "watching" /\ child.pc \in Exited
  /\ running' = FALSE
  /\ process' = FALSE
  /\ watcher' = [watcher EXCEPT !.pc = "decide"]
  /\ UNCHANGED <<status, silence, mailbox, checkpoint, goVars, call, worker,
                 execute, kill, child, faults>>

\* Mutant: the watcher knows only the status a child usually dies in.
WatcherFailsRunning ==
  /\ watcher.pc = "decide"
  /\ watcher' = [watcher EXCEPT !.pc =
                   IF status = "cancel_requested" THEN "cancel"
                   ELSE IF child.pc = "exit1" /\ status = "running"
                        THEN "fail" ELSE "done"]
  /\ UNCHANGED <<status, silence, mailbox, checkpoint, goVars, call, workerVars,
                 execute, kill, child, faults>>

\* status = db.task_status()
WatcherDecides ==
  /\ watcher.pc = "decide"
  /\ watcher' = [watcher EXCEPT !.pc =
                   IF status = "cancel_requested" THEN "cancel"
                   ELSE IF child.pc = "exit1" /\ status \notin terminalTaskStatuses
                        THEN "fail" ELSE "done"]
  /\ UNCHANGED <<status, silence, mailbox, checkpoint, goVars, call, workerVars,
                 execute, kill, child, faults>>

WatcherSweepsMailboxes ==
  /\ watcher.pc \in {"cancel", "fail"}
  /\ fail_unfinished_mailboxes
  /\ watcher' = [watcher EXCEPT !.pc = IF watcher.pc = "cancel"
                                       THEN "cancelled" ELSE "read"]
  /\ UNCHANGED <<status, silence, checkpoint, goVars, call, workerVars, execute,
                 kill, child, faults>>

WatcherMarksCancelled ==
  /\ watcher.pc = "cancelled"
  /\ WriteStatus("cancelled")
  /\ watcher' = [watcher EXCEPT !.pc = "done"]
  /\ UNCHANGED <<mailbox, checkpoint, goVars, call, workerVars, execute, kill,
                 child, faults>>

\* update_task(status="failed"): its read, then its write.
WatcherReadsStatus ==
  /\ watcher.pc = "read"
  /\ watcher' = [pc |-> "write", seen |-> status]
  /\ UNCHANGED <<status, silence, mailbox, checkpoint, goVars, call, workerVars,
                 execute, kill, child, faults>>

\* Mutant: the status word of the account rows on the task row.
WatcherMarksError ==
  /\ watcher.pc = "write"
  /\ WriteStatus("error")
  /\ watcher' = [pc |-> "done", seen |-> "pending"]
  /\ UNCHANGED <<mailbox, checkpoint, goVars, call, workerVars, execute, kill,
                 child, faults>>

WatcherMarksFailed ==
  /\ watcher.pc = "write"
  /\ WriteStatus(Coerced(watcher.seen, "failed"))
  /\ watcher' = [pc |-> "done", seen |-> "pending"]
  /\ UNCHANGED <<mailbox, checkpoint, goVars, call, workerVars, execute, kill,
                 child, faults>>

(***************************************************************************)
(* Restart of the worker service: the shutdown hook kills the children it  *)
(* has on record; handlers and the watcher run on until the process exits. *)
(***************************************************************************)

on_shutdown ==
  /\ faults.restarts < MaxRestarts
  /\ faults' = [faults EXCEPT !.restarts = @ + 1]
  /\ worker = "up"
  /\ worker' = "stopping"
  /\ running' = FALSE
  /\ process' = FALSE
  /\ child' = IF ChildAlive /\ process THEN NoChild("exit1") ELSE child
  /\ UNCHANGED <<status, silence, mailbox, checkpoint, goVars, call, execute,
                 kill, watcher>>

WorkerExits ==
  /\ worker = "stopping"
  /\ worker' = "down"
  /\ execute' = IF execute = "inflight" THEN "lost" ELSE execute
  /\ call' = IF call = "sent" \/ kill.pc # "idle" THEN "lost" ELSE call
  /\ kill' = [pc |-> "idle", seen |-> "pending", handle |-> FALSE]
  /\ watcher' = [pc |-> IF watcher.pc = "none" THEN "none" ELSE "lost",
                 seen |-> "pending"]
  /\ UNCHANGED <<status, silence, mailbox, checkpoint, goVars, running, process,
                 child, faults>>

WorkerStarts ==
  /\ worker = "down"
  /\ worker' = "up"
  /\ UNCHANGED <<status, silence, mailbox, checkpoint, goVars, call, running,
                 process, execute, kill, watcher, child, faults>>

(***************************************************************************)
(* The child: run_sunny_task over one mailbox after another.               *)
(***************************************************************************)

ChildOnly == UNCHANGED <<goVars, call, workerVars, execute, kill, watcher, faults>>

\* The first read: a task stopped before its process came up.
ChildBoots ==
  /\ child.pc = "boot"
  /\ child' = [child EXCEPT !.pc = IF status \in CancelSignals THEN "stop" ELSE "begin"]
  /\ UNCHANGED <<status, silence, mailbox, checkpoint>> /\ ChildOnly

\* update_task(status="running"): its read, then its write.
ChildReadsStatus ==
  /\ child.pc = "begin"
  /\ child' = [child EXCEPT !.pc = "run", !.seen = status]
  /\ UNCHANGED <<status, silence, mailbox, checkpoint>> /\ ChildOnly

ChildMarksRunning ==
  /\ child.pc = "run"
  /\ WriteStatus(Coerced(child.seen, "running"))
  /\ child' = [child EXCEPT !.pc = "check", !.seen = "pending"]
  /\ UNCHANGED <<mailbox, checkpoint>> /\ ChildOnly

\* ensure_not_cancelled, before a mailbox and while _run_one waits for its lease;
\* then the next mailbox, or the summary.
ensure_not_cancelled ==
  /\ \/ /\ child.pc \in {"check", "start"} /\ status \in CancelSignals
        /\ child' = [child EXCEPT !.pc = "stop"]
     \/ /\ child.pc = "check" /\ status \notin CancelSignals
        /\ \E m \in child.todo :
              /\ \A n \in child.todo : m <= n    \* order by id asc
              /\ child' = [child EXCEPT !.pc = "start", !.current = {m}]
     \/ /\ child.pc = "check" /\ status \notin CancelSignals
        /\ child.todo = {}
        /\ child' = [child EXCEPT !.pc = "summary"]
  /\ UNCHANGED <<status, silence, mailbox, checkpoint>> /\ ChildOnly

\* _run_one_impl: the account row of checkpoint task_started.
ChildStartsMailbox ==
  /\ child.pc = "start"
  /\ checkpoint' = [m \in Mailboxes |->
                      IF m \in child.current THEN "started" ELSE checkpoint[m]]
  /\ child' = [child EXCEPT !.pc = "busy"]
  /\ silence' = Recent
  /\ UNCHANGED <<status, mailbox>> /\ ChildOnly

ChildMarksBusy ==
  /\ child.pc = "busy"
  /\ mailbox' = [m \in Mailboxes |-> IF m \in child.current THEN "busy" ELSE mailbox[m]]
  /\ child' = [child EXCEPT !.pc = "flow"]
  /\ silence' = Recent
  /\ UNCHANGED <<status, checkpoint>> /\ ChildOnly

\* save_progress in the middle of the flow (_persist_registration_checkpoint)
\* and the end of a successful one: the account row, then the mailbox row.
\* A flow saves two or three times, and only the first save changes anything:
\* it is the one that returns to the flow.
ChildSavesAccount ==
  /\ child.pc = "flow"
  /\ checkpoint' = [m \in Mailboxes |->
                      IF m \in child.current THEN "registered" ELSE checkpoint[m]]
  /\ child' = [child EXCEPT !.pc = "save"]
  /\ UNCHANGED <<status, silence, mailbox>> /\ ChildOnly

ChildSavesMailbox ==
  /\ child.pc = "save"
  /\ mailbox' = [m \in Mailboxes |->
                   IF m \in child.current THEN "registered" ELSE mailbox[m]]
  /\ \/ /\ \A m \in child.current : mailbox[m] # "registered"
        /\ child' = [child EXCEPT !.pc = "flow"]
     \/ child' = [child EXCEPT !.pc = "record", !.success = TRUE]
  /\ silence' = Recent
  /\ UNCHANGED <<status, checkpoint>> /\ ChildOnly

\* A banned mailbox, or one whose lease another task holds for a minute.
ChildSkipsMailbox ==
  /\ child.pc = "start"
  /\ child' = [child EXCEPT !.pc = "record"]
  /\ silence' = Recent
  /\ UNCHANGED <<status, mailbox, checkpoint>> /\ ChildOnly

\* The flow failed, or no proxy was left before it began: the mailbox row,
\* then the account row.  What it falls back to was read before the flow, so
\* a checkpoint saved since then is taken back.
ChildFailsMailbox ==
  /\ child.pc \in {"start", "flow", "save"}
  /\ mailbox' = [m \in Mailboxes |->
                   IF m \in child.current THEN Fallback(m) ELSE mailbox[m]]
  /\ child' = [child EXCEPT !.pc = "account"]
  /\ silence' = Recent
  /\ UNCHANGED <<status, checkpoint>> /\ ChildOnly

\* The account row fails; its metadata_json keeps the last checkpoint.
Failed(c) == CASE c = "started" -> "failed"
               [] c = "registered" -> "retracted"
               [] OTHER -> c

ChildFailsAccount ==
  /\ child.pc = "account"
  /\ checkpoint' = [m \in Mailboxes |->
                      IF m \in child.current \ Registered0
                      THEN Failed(checkpoint[m]) ELSE checkpoint[m]]
  /\ child' = [child EXCEPT !.pc = "record"]
  /\ UNCHANGED <<status, silence, mailbox>> /\ ChildOnly

\* should_cancel inside the flow: the mailbox goes back to the highest of its
\* own statuses, and the exception unwinds to mark_cancelled.
ChildFlowCancelled ==
  /\ child.pc = "flow" /\ status \in CancelSignals
  /\ mailbox' = [m \in Mailboxes |->
                   IF m \in child.current /\ mailbox[m] # "registered"
                   THEN Fallback(m) ELSE mailbox[m]]
  /\ child' = [child EXCEPT !.pc = "stop"]
  /\ silence' = Recent
  /\ UNCHANGED <<status, checkpoint>> /\ ChildOnly

\* ensure_not_cancelled after _run_one, then record_result.
record_result ==
  /\ child.pc = "record"
  /\ \/ /\ status \in CancelSignals
        /\ child' = [child EXCEPT !.pc = "stop"]
        /\ UNCHANGED silence
     \/ /\ status \notin CancelSignals
        /\ child' = [child EXCEPT !.pc = "check", !.todo = @ \ child.current,
                                 !.current = {}]
        /\ silence' = Recent
  /\ UNCHANGED <<status, mailbox, checkpoint>> /\ ChildOnly

\* No mailbox or no proxy to use, or a statement that failed outside the flow:
\* the exception handler of run_sunny_task ends the task as failed.
ChildRaises ==
  /\ child.pc \in {"check", "start", "busy", "account", "record"}
  /\ child' = [child EXCEPT !.pc = "summary", !.success = FALSE]
  /\ UNCHANGED <<status, silence, mailbox, checkpoint>> /\ ChildOnly

\* update_task(status="succeeded" or "failed"): its read, then its write.
ChildReadsForSummary ==
  /\ child.pc = "summary"
  /\ child' = [child EXCEPT !.pc = "finish", !.seen = status]
  /\ UNCHANGED <<status, silence, mailbox, checkpoint>> /\ ChildOnly

ChildFinishes ==
  /\ child.pc = "finish"
  /\ WriteStatus(Coerced(child.seen, IF child.success THEN "succeeded" ELSE "failed"))
  /\ child' = NoChild("exit0")
  /\ UNCHANGED <<mailbox, checkpoint>> /\ ChildOnly

\* mark_cancelled: the mailboxes, then the row.
ChildSweepsMailboxes ==
  /\ child.pc = "stop"
  /\ fail_unfinished_mailboxes
  /\ child' = [child EXCEPT !.pc = "cancelled"]
  /\ UNCHANGED <<status, silence, checkpoint>> /\ ChildOnly

ChildMarksCancelled ==
  /\ child.pc = "cancelled"
  /\ WriteStatus("cancelled")
  /\ child' = NoChild("exit0")
  /\ UNCHANGED <<mailbox, checkpoint>> /\ ChildOnly

\* A crash or a failed start: return code other than 0.
ChildCrashes ==
  /\ ChildAlive
  /\ child' = NoChild("exit1")
  /\ UNCHANGED <<status, silence, mailbox, checkpoint>> /\ ChildOnly

Tick ==
  /\ silence < Idle
  /\ silence' = silence + 1
  /\ UNCHANGED <<status, mailbox, checkpoint, goVars, call, workerVars, execute,
                 kill, watcher, child, faults>>

(***************************************************************************)
(* The specification.                                                      *)
(***************************************************************************)

Init ==
  /\ status = "pending" /\ silence = Recent
  /\ mailbox = [m \in Mailboxes |-> IF m \in Registered0 THEN "registered" ELSE "fresh"]
  /\ checkpoint = [m \in Mailboxes |-> "none"]
  /\ backend = "up" /\ dispatcher = "absent" /\ poll = "idle"
  /\ stop = NoStop
  /\ call = "none" /\ execute = "none"
  /\ worker = "up" /\ running = FALSE /\ process = FALSE
  /\ kill = [pc |-> "idle", seen |-> "pending", handle |-> FALSE]
  /\ watcher = [pc |-> "none", seen |-> "pending"]
  /\ child = NoChild("none")
  /\ faults = [cancels |-> 0, restarts |-> 0]

Dispatch == claimPendingTask \/ tryDispatchPythonWorker \/ failPythonDispatch
            \/ DispatchAccepted

CancelHandler == CancelPendingUpdate \/ CancelActiveUpdate \/ CancelHandlerReloads
                 \/ markSunnyUnfinishedMailboxes

StatusHandler == reconcilePythonTaskStatus \/ InterruptSavesRow
                 \/ InterruptSweepsMailboxes

BackendRecovers == markInterruptedMailboxes \/ markInterruptedRows

KillHandler == KillReadsStatus \/ KillReadsAgain \/ KillRequestsCancel
               \/ KillSnapshotsProcess \/ KillTerminates \/ KillSweepsMailboxes
               \/ KillMarksCancelled \/ KillDiscards

Watcher == WatcherReclaims \/ WatcherReaps \/ WatcherDecides \/ WatcherSweepsMailboxes
           \/ WatcherMarksCancelled \/ WatcherReadsStatus \/ WatcherMarksFailed

WorkerRestarts == WorkerExits \/ WorkerStarts

Child == ChildBoots \/ ChildReadsStatus \/ ChildMarksRunning \/ ensure_not_cancelled
         \/ ChildStartsMailbox \/ ChildMarksBusy \/ ChildSavesAccount
         \/ ChildSavesMailbox \/ ChildSkipsMailbox \/ ChildFailsMailbox
         \/ ChildFailsAccount \/ ChildFlowCancelled \/ record_result
         \/ ChildRaises \/ ChildReadsForSummary
         \/ ChildFinishes \/ ChildSweepsMailboxes \/ ChildMarksCancelled

Next == \/ Dispatch \/ CancelHandlerLoads \/ CancelHandler \/ CancelCallLost
        \/ StatusHandler
        \/ BackendStops \/ BackendRecovers
        \/ AcceptExecute \/ ExecuteLost \/ health \/ KillHandler \/ Watcher
        \/ on_shutdown \/ WorkerRestarts
        \/ Child \/ ChildCrashes \/ Tick

Spec == Init /\ [][Next]_vars

\* The goroutines, threads and handlers run; both services are restarted by
\* their supervisor; time passes; the page polls the status of a task it
\* shows.  Nothing is assumed of the child, which may hang in any call.
FairSpec ==
  /\ Spec
  /\ WF_vars(Dispatch) /\ WF_vars(CancelHandler) /\ WF_vars(StatusHandler)
  /\ WF_vars(BackendRecovers) /\ WF_vars(WorkerRestarts)
  /\ WF_vars(KillHandler) /\ WF_vars(Watcher) /\ WF_vars(Tick)

(***************************************************************************)
(* Properties.                                                             *)
(***************************************************************************)

StopRecords == [pc : {"idle", "pending", "active", "reload", "mark"}, changed : BOOLEAN]

KillRecords == [pc : {"idle", "read", "write", "snapshot", "wait", "mailboxes",
                      "cancelled", "discard"},
                seen : TaskStatuses, handle : BOOLEAN]

WatcherRecords == [pc : {"none", "watching", "decide", "cancel", "cancelled", "fail",
                         "read", "write", "done", "lost"},
                   seen : TaskStatuses]

ChildRecords == [pc : {"none", "boot", "begin", "run", "check", "start", "busy", "flow",
                       "save", "account", "record", "summary", "finish", "stop",
                       "cancelled", "exit0", "exit1"},
                 todo : SUBSET Mailboxes, current : SUBSET Mailboxes,
                 seen : TaskStatuses, success : BOOLEAN]

\* The values each variable may hold.
TypeOK ==
  /\ status \in TaskStatuses
  /\ silence \in Recent..Idle
  /\ mailbox \in [Mailboxes -> MailboxStatuses]
  /\ checkpoint \in [Mailboxes -> Checkpoints]
  /\ backend \in {"up", "down", "sweeping"}
  /\ dispatcher \in {"absent", "health", "waiting", "done"}
  /\ stop \in StopRecords
  /\ call \in {"none", "sent", "lost"}
  /\ poll \in {"idle", "save", "mailboxes"}
  /\ worker \in {"up", "stopping", "down"}
  /\ execute \in {"none", "inflight", "accepted", "lost"}
  /\ running \in BOOLEAN
  /\ process \in BOOLEAN
  /\ kill \in KillRecords
  /\ watcher \in WatcherRecords
  /\ child \in ChildRecords
  /\ faults \in [cancels : 0..MaxCancels, restarts : 0..MaxRestarts]

\* Whatever the order of /execute, /cancel, /health, the watcher and the exit of
\* the child, a child that still runs is on record in _processes: /cancel and
\* the shutdown hook can reach it.  (KillDiscards pops by identity.)
ChildIsKillable == ChildAlive => process

KillMayRequest == kill.pc \in {"snapshot", "wait", "mailboxes", "cancelled"}

\* When the watcher of a task is done, the row is terminal, unless a /cancel
\* handler is between its own "cancel_requested" and its own "cancelled": no
\* crash, kill or late cancel leaves a row that nobody will finish.
WatcherLeavesTerminal ==
  watcher.pc = "done" /\ ~KillMayRequest => status \in terminalTaskStatuses

\* A mailbox whose account and row this task completed stays completed: no
\* sweep of the backend or of the worker, no restart and no other mailbox's
\* flow takes it back.  Only the failure branch of its own flow may.
CompletedStays ==
  [][\A m \in Mailboxes :
       checkpoint[m] = "registered" /\ mailbox[m] = "registered"
         => \/ mailbox'[m] = "registered"
            \/ m \in child.current /\ ChildFailsMailbox]_vars

\* Every task ends: its row becomes terminal for good and its child is gone,
\* though the child may hang, the calls between the services may be lost, and
\* either service may restart.
Settles == <>[](status \in terminalTaskStatuses /\ ~ChildAlive)

\* What the comment in reconcilePythonTaskStatus asks of the whole backend: the
\* child owns the task, and a failed request to the worker must not be turned
\* into a false failure.  failPythonDispatch does just that on a timeout.
NoFalseFailure == ChildAlive => status # "failed"

\* What the worker tells the user about a stopped task: a mailbox that was
\* registered before keeps its completed state.
RegisteredKept ==
  [][\A m \in Registered0 : mailbox'[m] # "failed"]_vars

\* What the worker's comment asks when a stage after the registration fails: the
\* account is not turned into a failed registration.  A checkpoint the flow has
\* saved is taken back by its failure branch all the same.
CheckpointKept ==
  [][\A m \in Mailboxes :
       checkpoint[m] = "registered" /\ mailbox[m] = "registered"
         => mailbox'[m] # "failed"]_vars

\* What the cancel handler tells the user when the call to the worker failed:
\* the signal in the database ends the task.  It can be overwritten instead, and
\* the task runs on as if nobody had asked.
CancelSignalKept ==
  [][status = "cancel_requested" => status' # "running"]_vars
=============================================================================
