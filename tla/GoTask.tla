------------------------------- MODULE GoTask -------------------------------
(***************************************************************************)
(* The tasks the Go backend executes itself: the dispatcher, the executor  *)
(* goroutine of each task, the 200 ms poller behind its context, the HTTP  *)
(* handlers that submit and cancel, and a restart of the process           *)
(* (backend/tasks.go, backend/db.go).  Three kinds of executor differ in   *)
(* how they write the row:                                                 *)
(*   - checkouts (sunny_checkout.go) only by conditional updates, and they *)
(*     hold their access tokens in memory, in s.checkoutCreds;             *)
(*   - probes (health, access token, trial, subscription, checkout and     *)
(*     payment probes) by Save of their own copy of the row;               *)
(*   - loops (the non-sunny_ types) by Save after every item.              *)
(* All runs in one process: a restart loses every goroutine and secret.    *)
(***************************************************************************)
EXTENDS TaskStatus, Integers, Sequences, FiniteSets

CONSTANTS Checkouts, Probes, Loops,  \* the tasks submitted, by kind
          Items,          \* the accounts a task works on
          Concurrency,    \* how many of them at a time
          DispatchLimit,  \* rows per dispatch; 4 in the code
          MaxCancels,     \* bound: how often the user presses cancel
          MaxRestarts     \* bound: how often the backend restarts

ASSUME KindsAssumption == /\ Checkouts \cap Probes = {}
                          /\ Checkouts \cap Loops = {}
                          /\ Probes \cap Loops = {}
ASSUME ItemsAssumption == Items \in Nat \ {0} /\ Concurrency \in Nat \ {0}
ASSUME LimitAssumption == DispatchLimit \in Nat \ {0}
ASSUME BoundsAssumption == MaxCancels \in Nat /\ MaxRestarts \in Nat

Tasks == Checkouts \cup Probes \cup Loops

VARIABLES
  status,    \* tasks.status, "absent" before the row exists
  queue,     \* the rows in the order of created_at
  secrets,   \* the checkouts with an entry in s.checkoutCreds
  up,        \* FALSE from the crash to the end of markInterrupted
  batch,     \* the places in queue of the rows dispatchPending still has to
             \* claim; it holds runtimeMu until none is left
  running,   \* s.running
  pc,        \* where the task's executor is
  ctx,       \* the executor's context is cancelled
  work,      \* its accounts: [todo, busy, ok, bad]
  stop,      \* where the task's cancel handler is
  faults     \* how often cancel was pressed and the backend restarted

vars == <<status, queue, secrets, up, batch, running, pc, ctx, work, stop, faults>>
execVars == <<queue, up, batch, running, stop, faults>>

NoWork == [todo |-> Items, busy |-> 0, ok |-> 0, bad |-> 0]

\* An account goes from one counter to another, or out of the count.
Moved(w, from, to) == [w EXCEPT ![from] = @ - 1, ![to] = @ + 1]

Dropped(w, from) == [w EXCEPT ![from] = @ - 1]

Goto(t, from, to) == pc[t] = from /\ pc' = [pc EXCEPT ![t] = to]

WriteStatus(t, new) == status' = [status EXCEPT ![t] = new]

(***************************************************************************)
(* Submission.                                                             *)
(***************************************************************************)

\* A checkout's tokens are in memory before its row exists.
StoreCredential(t) ==
  /\ up /\ t \in Checkouts /\ status[t] = "absent" /\ t \notin secrets
  /\ secrets' = secrets \cup {t}
  /\ UNCHANGED <<status, queue, up, batch, running, pc, ctx, work, stop, faults>>

createTask(t) ==
  /\ up /\ status[t] = "absent"
  /\ t \in Checkouts => t \in secrets
  /\ WriteStatus(t, "pending")
  /\ queue' = Append(queue, t)
  /\ UNCHANGED <<secrets, up, batch, running, pc, ctx, work, stop, faults>>

(***************************************************************************)
(* Dispatch.                                                               *)
(***************************************************************************)

Pending == {i \in DOMAIN queue : status[queue[i]] = "pending"}

\* The oldest pending rows, under runtimeMu, which is held until the last of
\* them is claimed or found gone.
dispatchPending ==
  /\ up /\ batch = {} /\ Pending # {}
  /\ batch' = {i \in Pending : Cardinality({j \in Pending : j < i}) < DispatchLimit}
  /\ UNCHANGED <<status, queue, secrets, up, running, pc, ctx, work, stop, faults>>

Claim(t) ==
  /\ WriteStatus(t, "claimed")
  /\ running' = running \cup {t}
  /\ pc' = [pc EXCEPT ![t] = "start"]

\* Mutant: the claim saves the row it read, cancelled meanwhile or not.
ClaimAny ==
  \E i \in batch :
    /\ \A j \in batch : i <= j
    /\ batch' = batch \ {i}
    /\ Claim(queue[i])
    /\ UNCHANGED <<queue, secrets, up, ctx, work, stop, faults>>

\* The conditional claim of the next row, then `go executeTask`.
claimPendingTask ==
  \E i \in batch :
    /\ \A j \in batch : i <= j
    /\ batch' = batch \ {i}
    /\ \/ /\ status[queue[i]] = "pending" /\ queue[i] \notin running
          /\ Claim(queue[i])
       \/ /\ status[queue[i]] # "pending" \/ queue[i] \in running
          /\ UNCHANGED <<status, running, pc>>
    /\ UNCHANGED <<queue, secrets, up, ctx, work, stop, faults>>

\* executeTask cannot load the row, and returns.
ExecutorLosesRow(t) ==
  /\ Goto(t, "start", "abandoned")
  /\ UNCHANGED <<status, secrets, ctx, work>> /\ UNCHANGED execVars

(***************************************************************************)
(* What the executors share.                                               *)
(***************************************************************************)

\* taskCancellationContext.
PollCancels(t) ==
  /\ pc[t] = "work" /\ t \notin Loops /\ ~ctx[t] /\ status[t] \in CancelSignals
  /\ ctx' = [ctx EXCEPT ![t] = TRUE]
  /\ UNCHANGED <<status, secrets, pc, work>> /\ UNCHANGED execVars

\* Mutant: the pool does not look whether an account is left.
AttemptStartsAlways(t) ==
  /\ pc[t] = "work" /\ t \notin Loops /\ ~ctx[t]
  /\ work[t].busy < Concurrency
  /\ work' = [work EXCEPT ![t] = Moved(@, "todo", "busy")]
  /\ UNCHANGED <<status, secrets, pc, ctx>> /\ UNCHANGED execVars

\* A worker takes an account: a goroutine that got the semaphore, or one of
\* the pool of streamSunnyWorkerPoolContext.
AttemptStarts(t) ==
  /\ pc[t] = "work" /\ t \notin Loops /\ ~ctx[t]
  /\ work[t].todo > 0 /\ work[t].busy < Concurrency
  /\ work' = [work EXCEPT ![t] = Moved(@, "todo", "busy")]
  /\ UNCHANGED <<status, secrets, pc, ctx>> /\ UNCHANGED execVars

\* The result is recorded and its counters persisted, the status left alone.
AttemptEnds(t) ==
  /\ pc[t] = "work" /\ ~ctx[t] /\ work[t].busy > 0
  /\ \/ work' = [work EXCEPT ![t] = Moved(@, "busy", "ok")]
     \/ work' = [work EXCEPT ![t] = Moved(@, "busy", "bad")]
  /\ UNCHANGED <<status, secrets, pc, ctx>> /\ UNCHANGED execVars

\* finishCancelledTask: the row is read, then saved as cancelled.
FinishReads(t) ==
  /\ Goto(t, "finish", IF status[t] \in CancelSignals THEN "cancel" ELSE "write")
  /\ UNCHANGED <<status, secrets, ctx, work>> /\ UNCHANGED execVars

SaveCancelled(t) ==
  /\ Goto(t, "cancel", "return")
  /\ WriteStatus(t, "cancelled")
  /\ UNCHANGED <<secrets, ctx, work>> /\ UNCHANGED execVars

\* Mutant: the tokens of a checkout stay in memory.
ReturnKeepsCredential(t) ==
  /\ Goto(t, "return", "leave")
  /\ UNCHANGED <<status, secrets, ctx, work>> /\ UNCHANGED execVars

\* The deferred releaseCheckoutCredential and cancel.
ExecutorReturns(t) ==
  /\ Goto(t, "return", "leave")
  /\ secrets' = secrets \ {t}
  /\ UNCHANGED <<status, ctx, work>> /\ UNCHANGED execVars

\* delete(s.running, id), under runtimeMu.
ExecutorLeaves(t) ==
  /\ batch = {}
  /\ Goto(t, "leave", "done")
  /\ running' = running \ {t}
  /\ UNCHANGED <<status, queue, secrets, up, batch, ctx, work, stop, faults>>

(***************************************************************************)
(* executeSunnyCheckoutTask.  Its branch for lost credentials needs a      *)
(* restart, which interrupts the row before anything can claim it.         *)
(***************************************************************************)

\* Mutant: the start saves the row it was given.
CheckoutStartSaves(t) ==
  /\ t \in Checkouts /\ Goto(t, "start", "work")
  /\ WriteStatus(t, "running")
  /\ UNCHANGED <<secrets, ctx, work>> /\ UNCHANGED execVars

CheckoutStarts(t) ==
  /\ t \in Checkouts /\ status[t] = "claimed"
  /\ Goto(t, "start", "work")
  /\ WriteStatus(t, "running")
  /\ UNCHANGED <<secrets, ctx, work>> /\ UNCHANGED execVars

\* RowsAffected = 0: the row is read again, and only a cancel request saved.
CheckoutFindsCancel(t) ==
  /\ t \in Checkouts /\ status[t] # "claimed"
  /\ Goto(t, "start", IF status[t] = "cancel_requested" THEN "cancel" ELSE "return")
  /\ UNCHANGED <<status, secrets, ctx, work>> /\ UNCHANGED execVars

\* The start could not be written: the executor returns, the row stays.
CheckoutStartFails(t) ==
  /\ t \in Checkouts /\ Goto(t, "start", "abandoned")
  /\ secrets' = secrets \ {t}
  /\ UNCHANGED <<status, ctx, work>> /\ UNCHANGED execVars

\* A goroutine that still waits for the semaphore, or whose attempt came back,
\* finds the context cancelled and leaves without a result.
CheckoutDrops(t) ==
  /\ t \in Checkouts /\ pc[t] = "work" /\ ctx[t]
  /\ \/ /\ work[t].todo > 0
        /\ work' = [work EXCEPT ![t] = Dropped(@, "todo")]
     \/ /\ work[t].busy > 0
        /\ work' = [work EXCEPT ![t] = Dropped(@, "busy")]
  /\ UNCHANGED <<status, secrets, pc, ctx>> /\ UNCHANGED execVars

\* Mutant: the last goroutine is not waited for.
CheckoutFinishesEarly(t) ==
  /\ t \in Checkouts /\ work[t].todo = 0
  /\ Goto(t, "work", "finish")
  /\ UNCHANGED <<status, secrets, ctx, work>> /\ UNCHANGED execVars

\* wg.Wait()
CheckoutWaits(t) ==
  /\ t \in Checkouts /\ work[t].todo = 0 /\ work[t].busy = 0
  /\ Goto(t, "work", "finish")
  /\ UNCHANGED <<status, secrets, ctx, work>> /\ UNCHANGED execVars

\* Mutant: a cancel request that won the race is left to others.
CheckoutWritesOnce(t) ==
  /\ t \in Checkouts /\ Goto(t, "write", "return")
  /\ IF status[t] \in {"claimed", "running"}
     THEN WriteStatus(t, IF work[t].ok = 0 THEN "failed" ELSE "succeeded")
     ELSE UNCHANGED status
  /\ UNCHANGED <<secrets, ctx, work>> /\ UNCHANGED execVars

\* finishSunnyCheckoutTask: the conditional completion; a cancel request that
\* won the race is finished by a second finishCancelledTask.
CheckoutWrites(t) ==
  /\ t \in Checkouts /\ pc[t] = "write"
  /\ IF status[t] \in {"claimed", "running"}
     THEN /\ WriteStatus(t, IF work[t].ok = 0 THEN "failed" ELSE "succeeded")
          /\ pc' = [pc EXCEPT ![t] = "return"]
     ELSE /\ pc' = [pc EXCEPT ![t] = IF status[t] \in CancelSignals
                                     THEN "cancel" ELSE "return"]
          /\ UNCHANGED status
  /\ UNCHANGED <<secrets, ctx, work>> /\ UNCHANGED execVars

(***************************************************************************)
(* The probes and the loops.                                               *)
(***************************************************************************)

\* Save of the row as running, whatever it has become since it was claimed.
ProbeStarts(t) ==
  /\ t \in Probes \cup Loops /\ Goto(t, "start", "work")
  /\ WriteStatus(t, "running")
  /\ UNCHANGED <<secrets, ctx, work>> /\ UNCHANGED execVars

\* The candidates cannot be read, or there is none: failed or completed at once.
ProbeEndsAtOnce(t) ==
  /\ t \in Probes /\ work[t] = NoWork /\ Goto(t, "work", "return")
  /\ \E end \in {"failed", "succeeded"} : WriteStatus(t, end)
  /\ UNCHANGED <<secrets, ctx, work>> /\ UNCHANGED execVars

\* The result loop ends: on a cancelled context, whatever the pool still does,
\* or when the pool is exhausted.
ProbeStopsReading(t) ==
  /\ t \in Probes /\ (ctx[t] \/ (work[t].todo = 0 /\ work[t].busy = 0))
  /\ Goto(t, "work", "finish")
  /\ UNCHANGED <<status, secrets, ctx, work>> /\ UNCHANGED execVars

\* The payment probe's risk breaker cancels its own context.
RiskBreaker(t) ==
  /\ t \in Probes /\ work[t].bad > 0 /\ Goto(t, "work", "finish")
  /\ ctx' = [ctx EXCEPT ![t] = TRUE]
  /\ UNCHANGED <<status, secrets, work>> /\ UNCHANGED execVars

ProbeWrites(t) ==
  /\ t \in Probes /\ Goto(t, "write", "return")
  /\ WriteStatus(t, "succeeded")
  /\ UNCHANGED <<secrets, ctx, work>> /\ UNCHANGED execVars

\* taskCancelled, before each item.
LoopChecks(t) ==
  /\ t \in Loops /\ work[t].todo > 0
  /\ Goto(t, "work", IF status[t] = "cancel_requested" THEN "cancel" ELSE "step")
  /\ UNCHANGED <<status, secrets, ctx, work>> /\ UNCHANGED execVars

\* The item, and the Save of the whole row with its progress.
LoopSteps(t) ==
  /\ t \in Loops /\ Goto(t, "step", "work")
  /\ work' = [work EXCEPT ![t] = Moved(@, "todo", "ok")]
  /\ WriteStatus(t, "running")
  /\ UNCHANGED <<secrets, ctx>> /\ UNCHANGED execVars

LoopFinishes(t) ==
  /\ t \in Loops /\ work[t].todo = 0
  /\ Goto(t, "work", "return")
  /\ WriteStatus(t, "succeeded")
  /\ UNCHANGED <<secrets, ctx, work>> /\ UNCHANGED execVars

(***************************************************************************)
(* POST /tasks/<id>/cancel: the row is loaded, then the two conditional    *)
(* updates of transitionTaskCancellation.                                  *)
(***************************************************************************)

cancelVars == <<queue, up, batch, running, pc, ctx, work>>

CancelLoads(t) ==
  /\ up /\ faults.cancels < MaxCancels
  /\ faults' = [faults EXCEPT !.cancels = @ + 1]
  /\ stop[t] = "idle" /\ status[t] \notin terminalTaskStatuses \cup {"absent"}
  /\ stop' = [stop EXCEPT ![t] = "pending"]
  /\ UNCHANGED <<status, secrets>> /\ UNCHANGED cancelVars

CancelPendingUpdate(t) ==
  /\ stop[t] = "pending"
  /\ WriteStatus(t, CancelPending(status[t]))
  /\ stop' = [stop EXCEPT ![t] = IF status[t] # "pending" THEN "active"
                                 ELSE IF t \in Checkouts THEN "release" ELSE "idle"]
  /\ UNCHANGED <<secrets, faults>> /\ UNCHANGED cancelVars

CancelReleases(t) ==
  /\ stop[t] = "release"
  /\ secrets' = secrets \ {t}
  /\ stop' = [stop EXCEPT ![t] = "idle"]
  /\ UNCHANGED <<status, faults>> /\ UNCHANGED cancelVars

\* Mutant: the handler releases the tokens of an active checkout too.
CancelActiveReleases(t) ==
  /\ stop[t] = "active"
  /\ WriteStatus(t, CancelActive(status[t]))
  /\ secrets' = secrets \ {t}
  /\ stop' = [stop EXCEPT ![t] = "idle"]
  /\ UNCHANGED faults /\ UNCHANGED cancelVars

CancelActiveUpdate(t) ==
  /\ stop[t] = "active"
  /\ WriteStatus(t, CancelActive(status[t]))
  /\ stop' = [stop EXCEPT ![t] = "idle"]
  /\ UNCHANGED <<secrets, faults>> /\ UNCHANGED cancelVars

(***************************************************************************)
(* Restart.                                                                *)
(***************************************************************************)

BackendStops ==
  /\ up /\ faults.restarts < MaxRestarts
  /\ faults' = [faults EXCEPT !.restarts = @ + 1]
  /\ up' = FALSE
  /\ secrets' = {} /\ running' = {} /\ batch' = {}
  /\ pc' = [t \in Tasks |-> "none"]
  /\ ctx' = [t \in Tasks |-> FALSE]
  /\ work' = [t \in Tasks |-> NoWork]
  /\ stop' = [t \in Tasks |-> "idle"]
  /\ UNCHANGED <<status, queue>>

\* Mutant: the sweep overlooks the rows that had been asked to stop.
InterruptRunning ==
  /\ ~up /\ up' = TRUE
  /\ status' = [t \in Tasks |-> IF status[t] \in {"pending", "claimed", "running"}
                                THEN "interrupted" ELSE status[t]]
  /\ UNCHANGED <<queue, secrets, batch, running, pc, ctx, work, stop, faults>>

markInterrupted ==
  /\ ~up /\ up' = TRUE
  /\ status' = [t \in Tasks |-> IF status[t] \in Unfinished
                                THEN "interrupted" ELSE status[t]]
  /\ UNCHANGED <<queue, secrets, batch, running, pc, ctx, work, stop, faults>>

(***************************************************************************)
(* The specification.                                                      *)
(***************************************************************************)

Init ==
  /\ status = [t \in Tasks |-> "absent"] /\ queue = << >>
  /\ secrets = {} /\ up = TRUE
  /\ batch = {} /\ running = {}
  /\ pc = [t \in Tasks |-> "none"]
  /\ ctx = [t \in Tasks |-> FALSE]
  /\ work = [t \in Tasks |-> NoWork]
  /\ stop = [t \in Tasks |-> "idle"]
  /\ faults = [cancels |-> 0, restarts |-> 0]

Submit(t) == StoreCredential(t) \/ createTask(t)

Dispatcher == dispatchPending \/ claimPendingTask

StartFails(t) == ExecutorLosesRow(t) \/ CheckoutStartFails(t)

CheckoutExecutor(t) ==
  CheckoutStarts(t) \/ CheckoutFindsCancel(t) \/ CheckoutDrops(t)
  \/ CheckoutWaits(t) \/ CheckoutWrites(t)

ProbeExecutor(t) == ProbeStarts(t) \/ ProbeStopsReading(t) \/ ProbeWrites(t)

LoopExecutor(t) == LoopChecks(t) \/ LoopSteps(t) \/ LoopFinishes(t)

Executor(t) ==
  CheckoutExecutor(t) \/ ProbeExecutor(t) \/ LoopExecutor(t)
  \/ AttemptStarts(t) \/ AttemptEnds(t) \/ FinishReads(t) \/ SaveCancelled(t)
  \/ ExecutorReturns(t) \/ ExecutorLeaves(t)

CancelHandler(t) ==
  CancelPendingUpdate(t) \/ CancelReleases(t) \/ CancelActiveUpdate(t)

TaskStep(t) ==
  Submit(t) \/ StartFails(t) \/ Executor(t) \/ PollCancels(t)
  \/ ProbeEndsAtOnce(t) \/ RiskBreaker(t) \/ CancelLoads(t) \/ CancelHandler(t)

Next == \/ Dispatcher \/ BackendStops \/ markInterrupted
        \/ \E t \in Tasks : TaskStep(t)

Spec == Init /\ [][Next]_vars

\* The goroutines run, an attempt comes back (a checkout is polled at most 800
\* times, the requests of a probe have timeouts), and the service manager
\* starts the backend again.
Fairness ==
  /\ WF_vars(Dispatcher) /\ WF_vars(markInterrupted)
  /\ \A t \in Tasks : WF_vars(Executor(t)) /\ WF_vars(PollCancels(t))
                      /\ WF_vars(CancelHandler(t))

FairSpec == Spec /\ Fairness

(***************************************************************************)
(* Properties.                                                             *)
(***************************************************************************)

WorkRecords == [todo : 0..Items, busy : 0..Items, ok : 0..Items, bad : 0..Items]

PCs == {"none", "start", "work", "step", "finish", "cancel", "write", "return",
        "leave", "done", "abandoned"}

\* The values each variable may hold.
TypeOK ==
  /\ status \in [Tasks -> TaskStatuses \cup {"absent"}]
  /\ queue \in Seq(Tasks) /\ batch \subseteq DOMAIN queue
  /\ secrets \subseteq Checkouts /\ running \subseteq Tasks
  /\ up \in BOOLEAN
  /\ pc \in [Tasks -> PCs]
  /\ ctx \in [Tasks -> BOOLEAN]
  /\ work \in [Tasks -> WorkRecords]
  /\ stop \in [Tasks -> {"idle", "pending", "active", "release"}]
  /\ faults \in [cancels : 0..MaxCancels, restarts : 0..MaxRestarts]

Active == {"claimed", "running", "cancel_requested"}

\* While the backend is up, a row that is not finished has a goroutine that will
\* still write it, whichever of the executor, the cancel handler and a restart
\* came first; unless a database error made the executor give up at its start.
ActiveHasExecutor ==
  \A t \in Tasks :
    up /\ status[t] \in Active => pc[t] \notin {"none", "return", "leave", "done"}

\* A checkout that may still hand a token to an attempt has its tokens: nothing
\* that ends another way into the task releases them under it.
SecretHeld ==
  \A t \in Checkouts : pc[t] \in {"start", "work"} => t \in secrets

\* No token outlives its task in memory: once the row is finished, only a
\* handler or executor about to release it still holds it.
SecretEnds ==
  \A t \in Checkouts :
    status[t] \in terminalTaskStatuses /\ t \in secrets
      => ~up \/ stop[t] = "release" \/ pc[t] = "return"

\* A checkout reports success only when every account has its result in the row,
\* and failure only when none of them succeeded: a cancelled context never ends
\* as a short but successful task.
CheckoutResult ==
  \A t \in Checkouts :
    /\ status[t] = "succeeded" /\ pc[t] # "none"
         => work[t].ok > 0 /\ work[t].ok + work[t].bad = Items
    /\ status[t] = "failed" /\ pc[t] # "none"
         => work[t].bad = Items

\* A finished row stays as it is, whatever the dispatcher, an executor or a late
\* cancel still had in hand.
TerminalStays ==
  [][\A t \in Tasks : status[t] \in terminalTaskStatuses => status'[t] = status[t]]_vars

Phase(s) == CASE s = "pending" -> "waiting"
              [] s \in {"claimed", "running"} -> "active"
              [] s = "cancel_requested" -> "stopping"
              [] OTHER -> s

checkoutPhase == [t \in Checkouts |-> Phase(status[t])]

Lifecycle == INSTANCE TaskLifecycle WITH Tasks <- Checkouts, phase <- checkoutPhase

\* The conditional updates of the checkout make its row follow the lifecycle: a
\* cancel request is never overwritten, by its start or by its completion.
CheckoutLifecycle == Lifecycle!Spec

\* Every submitted task ends, unless its executor gave up at the start.
Settles ==
  \A t \in Tasks :
    status[t] = "pending" ~> status[t] \in terminalTaskStatuses \/ pc[t] = "abandoned"

\* What the cancellation test of the payment probe expects of it: a probe that
\* was asked to stop ends as cancelled.  Its start and its completion save the
\* whole row, over a request that came in between.
ProbeCancelKept ==
  [][\A t \in Probes :
       status[t] = "cancel_requested" => status'[t] \in CancelSignals]_vars
=============================================================================
