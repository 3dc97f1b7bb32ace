# SunnyRegister: TLA+ models, checks and proofs

SunnyRegister runs long tasks (account registration, login, token renewal,
health and payment probes, checkout links) over a pool of mailboxes.  A Go
backend keeps the tasks in a database table and serves the API; a Python worker
service runs one operating-system process per registration task; both write the
same `tasks` row.  The hard part of the program is not any single flow but who
may write that row, in which order, when processes hang, die, restart or miss
each other's calls.  The same worker tree carries four services with state of
their own: the GoPay payment inbox, the PayPal agreement runtime, the checkout
engine and the mailbox leases; there the question is who may charge, run or read,
and who still does after a cancel or a restart.  That is what the modules here model.

## 1. Inventory

| Component | State it keeps | Operations | Talks to | What makes it correct |
|---|---|---|---|---|
| Task row and API (`backend/tasks.go`) | `tasks.status`, progress, `task_events` | create, dispatch, cancel, status poll with reconciliation, finish | every executor, through the row | a finished row stays; a cancel is not lost; each row ends |
| Dispatcher (`backend/tasks.go:787-840`) | `s.running`, `runtimeMu` | every 2 s or when woken: claim the four oldest pending rows, `go executeTask` | executors, worker | a row is executed at most once, and never after it was cancelled |
| Backend restart (`backend/db.go:705-725`) | none of its own | interrupt all unfinished rows and fail their busy mailboxes | rows, mailboxes | nothing stays active that nobody executes |
| Checkout executor (`backend/sunny_checkout.go`) | tokens in `s.checkoutCreds`, a result under a mutex | attempts under a semaphore, conditional start and completion | row, payment services | tokens live exactly as long as the task; the outcome agrees with the results |
| Probe executors (`backend/sunny_health.go` and five more) | their copy of the row | worker pool, result loop, `Save` | row, accounts, external services | a stopped probe ends as cancelled |
| Loop executors (`backend/tasks.go:1080-1189`) | their copy of the row | one item after the other, `Save` after each | row | as above |
| Worker service (`python-worker/worker.py`) | `_running`, `_processes` under `_state_lock` | `/health`, `/execute`, `/cancel`, watcher thread, shutdown hook | backend by HTTP, child by signals, row | every child can be killed; every row of a dead child ends |
| Task process (`sunny_core/worker.py`, `sunny_core/db.py`) | mailbox and account rows | checkpoint after registration, failure and cancel branches, summary | row, web sites, mail | what is registered stays registered |
| Mailbox leases (`sunny_core/db.py:1437-1488`) | `sunny_mailbox_leases` rows with an expiry | acquire, release by mailbox and owner, release by task | task processes | one flow per mailbox; none is left behind |
| Worker pool (`sunny_core/worker.py:3837-3898`) | futures of a task | submit, wait, cancel, shutdown, summary | task process, leases | no thread works for a finished task |
| GoPay payment inbox (`gopay_runtime/.../payment_inbox.py`) | inbox rows with leases, the Snap journal, account bindings, payment records | create, claim, renew, start, pay, finish, recover, clear | web page, command-line worker, Midtrans | a bill is charged once; what a payer stores as paid is settled; one payment per account |
| Command-line payer (`gopay_protocol_worker.py`) | a process per job | claim, check the journal, link, charge, report | inbox by HTTP, journal by file | as above |
| Automatic flow (`_AutoFlowManager`) | flow records | link, reserve an account, start a payment, poll, retry, resume | payment inbox | one charge per address, unless a silent flow is passed over; it tells the truth |
| PayPal agreement runtime (`paypal_runtime/protocol_web.py`) | `WebJob` records, `RUNNER_SEMAPHORE` | create, cancel, input, run | Go executors, PayPal | slots balance; one job per agreement; every job ends |
| Checkout engine (`tools/pay153_checkout/app.py`) | `JobStore`: records, queue, threads, GCash orders | create, cancel, dispatch, tries, callbacks | Go checkout executor, payment pages | a cancel is final; one checkout per token text; an order settles once |
| Plus watch (`backend/sunny_plus_watch.go`) | `sunny_plus_watches` | register, load due rows, check, expire | checkout, mail, OpenAI | each watch ends; an arrival is not lost |
| Proxy scheduler (`sunny_core/proxy_scheduler.py`) | per-proxy health and cooldown | acquire, record | flows | no flow on a cooling proxy while another is free |
| Phone pool (`sunny_core/db.py:975-1003`) | `sunny_phones` status | reserve, release | flows | a number serves one flow |
| Task admission (`createSunnyHealthTask`, `createSunnyAccessTokenCheckTask`) | active rows | refuse a second task | task row | at most one active task of a kind |
| Stores, settings, audit log, mail providers, other payment runtimes, frontend | tables and clients | CRUD, formatting, external protocols | the above | not concurrent logic: not modelled |

Behaviours that are hard to test, each with the line where it bites and the
properties that cover it, are the `hazards` of `PROJECT.json`.

## 2. Modules

| Module | What it models |
|---|---|
| `TaskStatus` | the status vocabulary and the pure rules both services apply to it: which statuses are terminal, which an executor reads as "stop", how `update_task` coerces a write over a cancel signal, the two conditional updates of a cancel |
| `TaskLifecycle` | abstract: what the API promises of a task. It waits, is active, may be asked to stop, ends once; after a stop request it is never active again and never ends as succeeded or failed |
| `PythonTask` | one registration task from its pending row to its end: the dispatcher, the cancel and status handlers and the restart of the backend; `/execute`, `/health`, `/cancel`, the watcher and the shutdown of the worker; the child process and its database statements |
| `GoTask` | the tasks the backend executes itself: dispatcher and `runtimeMu`, executors of three kinds, the 200 ms context poller, the cancel handler, the tokens of checkouts, a restart |
| `PaymentInbox` | bills and who may charge them: inbox rows and leases, the Snap journal, the account bindings, web payments from start to recovery, the command-line worker, Midtrans, restarts |
| `AutoFlow` | extends `PaymentInbox` with the automatic flow: link, account, payment, poll, retry, resumption |
| `PaypalJobs` | the agreement jobs and their execution slots |
| `CheckoutJobs` | the job store of the checkout engine with its queue, threads, tries and GCash orders |
| `MailboxPool` | the leases of mailboxes and the thread pools of the tasks |
| `PlusWatch` | the watch for a subscription, its registration and its checker |
| `PythonTask_proofs` | theorems about `PythonTask` |
| `GoTask_proofs` | theorems about `GoTask`, the implementation of `TaskLifecycle` included |
| `PaypalJobs_proofs`, `CheckoutJobs_proofs`, `MailboxPool_proofs` | theorems about the three services |
| `Services_proofs` | theorems about `PlusWatch`, and about `MCServices` |
| `PaymentInbox_proofs`, `AutoFlow_proofs` | theorems about the inbox alone, and with its automatic flows |
| `MCPythonTask`, `MCGoTask` | instances for TLC |
| `MCPaymentInbox` | `AutoFlow` with a choice of casts |
| `MCTwoRestarts` | `PaymentInbox` from the first request on |
| `MCServices` | `PaypalJobs`, `CheckoutJobs`, `MailboxPool` and `PlusWatch` side by side |

### PythonTask and the code

The grain is one database statement or one critical section per action.
`status` is the row; `silence` is the time since its last change, in the four
classes the timeouts tell apart (20 s, 20 min, 30 min), so that `Tick` is the
only action that moves time.  `mailbox` and `checkpoint` are the two records of
a mailbox: its own row, and what this task has written into the account row.
The program counters are records: `dispatcher` (`dispatchPending`,
`tryDispatchPythonWorker`), `stop` (the cancel handler), `poll`
(`interruptStaleSunnyTask` inside the status handler), `kill` (the worker's
`/cancel`), `watcher` (`_watch_task_process`), `child` (`run_sunny_task`).
`execute` and `call` are the two HTTP calls in flight.  A call may be lost
(`ExecuteLost`, `CancelCallLost`); a lost `/execute` may still have been accepted.

A read of the status and the write that depends on it are two actions wherever
the code has two statements: `update_task` (`ChildReadsStatus`, then one of
`ChildMarksRunning`, `record_result`, `ChildFinishes`), the worker's
`_set_cancel_requested` (`KillReadsStatus`, `KillReadsAgain`,
`KillRequestsCancel`) and the watcher (`WatcherDecides` to `WatcherMarksFailed`).

Abstracted: one backend cancel handler and one worker `/cancel` handler at a
time; a sweep over the mailboxes is one action; the flow of a mailbox is a
busy mark, an optional checkpoint in two writes (account, mailbox) and an end; the other
failure outcomes (second verification, banned, invalid credentials) are
`"failed"`; the concurrency-1 path of `run_sunny_task`; the shutdown hook of the worker is
one step, although it forgets its processes under the lock and kills them after
releasing it (`worker.py:332-338`); database statements of
the watcher and of `/cancel` do not fail; a worker that is killed hard
(SIGKILL) and leaves its child behind is not modelled.

### GoTask and the code

A checkout, a probe and a loop differ in how they write the row, and that
difference is kept exactly: the checkout only by conditional updates
(`CheckoutStarts`, `CheckoutWrites`), the others by saving their own copy
(`ProbeStarts`, `ProbeWrites`, `LoopSteps`).  `pc` is where a task's executor
is, `batch` what `dispatchPending` still has to claim while it holds
`runtimeMu` (so `ExecutorLeaves`, which needs it, waits), `ctx` the task's
context, `stop` the cancel handler between its two conditional updates.
Accounts are counted, not named: `work[t]` says how many are left, in flight,
and recorded as good or bad.  A database error at the start of an executor is
an action (`ExecutorLosesRow`, `CheckoutStartFails`): its row stays claimed.

Abstracted: a task's credential and row have one identity; what a probe learns
and writes into the account columns; the two phases of the subscription check
are one; the checkout's branch for lost credentials is unreachable (a restart
interrupts the row before anything claims it); one cancel handler per task at a
time; database errors in other places.

### PaymentInbox, AutoFlow and the code

`row` is the inbox row of a bill with its lease (`claim_and_start`, `renew_claim`,
`release_claim`, `set_status_if_pending`), `snap` the journal entry of its Snap token
(`_reserve_persisted_snap_state`, `_update_persisted_snap_state`), `bind` the
`midtrans_binding_*` fields of an account, `job` the saved payment record, `pay` the
thread or process of each attempt, `remote` the transaction as Midtrans sees it. Each
store is changed in its own critical section. The changes that decide who may charge
(the lease, the journal entry, the binding, the record before its thread, the charge)
are actions of their own, and a restart may fall between any two of them. Four actions
at the end of a payment change two or three stores at once where the code takes several
critical sections (`WebCloses`, `WebReleases`, `Parks` and `Reconciles`;
`payment_inbox.py:3639-3669, 4646-4700, 4890-4896, 4936-5012`). Each of these writes is
conditional on its owner, on the row still being pending or on the binding naming this
job, and follows from a status already decided; a restart between them leaves what a
restart before them leaves for the stores not yet written. `charge` is the flag the code
sets before it charges; `remote` is what came of the request: an answer may be lost, so
a failure says nothing of the transaction.

Tokens of a lease are compared, never looked into: a payer keeps only its latest, so the
lease names the payer. A row is also ended by people: `RowCloses` is their cancel, the
expiry, and their "Mark Paid" (`PUT /api/jobs/<id>/paid`, which checks nothing). The
column says `paid` in both cases; the model keeps `"by_hand"` apart from the `"paid"`
that a payer writes, since `PaidIsSettled` is a promise about what payers store and
nothing can be promised of what a person presses. A payer finds either row closed. A
lease lasts at least 300 s and is renewed every 60 s; it lapses in the model only where
nobody renews it (`LeaseLapses`). **Assumption `Stallers`:** a web payment may outlive
its lease once its heartbeat has given up; a command-line attempt does not. Two
command-line attempts sign the journal with the same inbox job id
(`gopay_protocol_worker.py:2027`), so for them only the lease separates charges. The
code gives a command-line attempt no stronger guarantee than a web payment: the time to
live and the heartbeat are the same. If one stalls between its look at the journal
(`:2002`) and its own entry (`:2027`) until its lease has gone to a newer attempt, it
makes its entry, finds the claim lost and writes `failed` (`CliLosesClaim`) over the
newer attempt's entry, so that the bill is offered again although the newer attempt may
have charged, and `ChargedOnce` is false. The comment at
`gopay_protocol_worker.py:2024-2025` ("Persist before linking. A crash anywhere after
this point makes the same snap non-retryable") does not hold then. What is checked and
proved of charges holds while no command-line attempt stalls for the minutes between two
renewals that its lease has left.

Abstracted: the registration, PIN, SMS and envelope managers; proxies and
browsers; the clearing of old `_is_prestart_binding_failure` entries when bindings
are normalised; what `start` does anew of a flow that failed at "signature"
(`payment_inbox.py:5322-5343`: it uses the flow's link again); a flow's
classification of errors by their words (`payment_inbox.py:5741`), which is a choice
here.  All flows are of one address.

`start` refuses while a flow of the address is running, has paid or has an unknown
outcome, but passes over a running record that has not been written for 900 s
(`payment_inbox.py:5295-5302`), whether or not a thread works on it. A thread may be
that silent in the requests that make a link, while another address holds
`_register_lock` (`:5443`) for several registrations, or in the preflight of its
payment: `Silent`. A record without a thread may be that old anywhere. `Stale` is both,
and `FlowStarts` and `FlowRetries` pass over it. `passed` notes a flow that was passed
over while its thread lived; the code keeps no such note, it is history for the
property. After it two flows of one address may each come to a charge, which the model
reaches: without the restriction to flows that are not `passed`, `OneChargePerAddress`
is violated. The property says that this is the only way.

The reservation of an account for a flow and
its record in the flow are one step.

A flow that a restart resumes looks for its payment (`Recovered`): the one it has on
record once `start` had returned, otherwise one that pays the same link.

### PaypalJobs and the code

`agr` is the `WebJob` (status, cancel event, whether it holds a slot, where its
thread is), `slots` the free permits of `RUNNER_SEMAPHORE`, `dropping` the
cancel requests that have answered and still have to release the job's slot.
A cancel is two actions because `WebJob.cancel` sets the record under
the condition and releases the slot after it.  Abstracted: phone numbers that are
refused as duplicates, the CAPTCHA window and its browser, pruning of old jobs; a new job
cancels every active job of its agreement where the code stops at the first it finds
(`protocol_web.py:1722-1739`), which is the same by `OneJobPerAgreement`;
the dialogue with PayPal (`FlowRaises`, `FlowReturns`).

### CheckoutJobs and the code

`rec`, `queue`, `workers` and `recent` are the fields of `JobStore` of the same
meaning; `work` is the thread of each job, with whether it found a link; `order` is
the GCash order of a job.  `CreatesLink` forgets any records to make room, since
which one is the oldest depends on times that are not modelled.  `TextOf` is what the
user pasted for a job, `AccountOf` the ChatGPT account it belongs to: one text belongs to
one account, but an account has many texts (Session JSON, the bare token, a renewed
token).  The lock of `checkout_token_lock` is keyed by the text (`TakesTokenLock`), so
`OneCheckoutPerText` holds and `OneCheckoutPerAccount` does not.  Abstracted: the
provider dialogues (`TryFails`, `TryFinds`), proxies and their health, a second
order of the same job, the refresh of an order's QR code (section 5).

### MailboxPool and the code

`lease` is the owner of a mailbox's row, `flow` each task's flow for each mailbox
(`_run_one`, with whether it has outlived its lease), `chief` the main thread
(`run_sunny_task`).  The pool (`Width` above 1) and the sequential path differ in
who notices a cancel and in what is released, and both are kept.  Only the
register path takes leases; a mailbox without an id takes none; the purchase
of Remail mailboxes before the batch is left out.

### PlusWatch and the code

`watches` is the table, `asking` the checkout goroutines between their query and their
write, `loaded` the rows the checker has read, as they were then, and has still to
check: at most `WatchBatch` (`sunnyPlusWatchBatch`). The checker is one goroutine, so it
loads again only when it is through. What a check looks at (mail, subscription) is a
choice among the verdicts the code can reach. Which of too many due rows are read first,
and in which order they are checked, depends on times that are not modelled.

## 3. Runs

| Run | Bounds | What it shows |
|---|---|---|
| `PythonTask_safety` | 2 mailboxes, one registered before; 1 cancel, 1 restart of either service | `ChildIsKillable`: a live child is always on record in `_processes`. `WatcherLeavesTerminal`: a finished watcher leaves a terminal row. `CompletedStays`: nothing but the failure branch of its own flow takes back a completed mailbox |
| `PythonTask_settles` | 1 mailbox registered before, 1 cancel, 1 restart | `Settles`: the row ends for good and the child is gone, although the child may hang and calls may be lost |
| `PythonTask_falsefailure` | smallest | violation: a dispatch that timed out fails a task whose child runs |
| `PythonTask_registered` | smallest | violation: cancelling a pending task fails a mailbox registered before |
| `PythonTask_cancelsignal` | smallest | violation: the child's read-then-write overwrites a cancel request with running |
| `PythonTask_checkpoint` | smallest | violation: the failure branch takes back its own flow's checkpoint |
| `GoTask` | four casts: any two of a checkout, a probe and a loop, with 1 cancel and 1 restart, or all three with 1 restart; 2 accounts each, 2 at a time, a batch of 2 (332,732 states) | `TerminalStays`, `ActiveHasExecutor`, `SecretHeld`, `SecretEnds`, `CheckoutResult`, the checkout implements `TaskLifecycle`, and `Settles` |
| `GoTask_probecancel` | one probe | violation: a probe saves its stale row over a cancel request |
| `PaymentInbox_safety` | six kinds of cast over four web payments, two command-line attempts, two flows, two bills, two accounts, up to 2 restarts (1,838,298 states) | `ChargedOnce`, `JournalHoldsCharge`, `PaidIsSettled`, `AccountExclusive`, `FailedIsOver`, `OneChargePerAddress`, `FlowTellsTruth` |
| `PaymentInbox_success` | two web payments of two bills, 2 restarts | violation: a second restart takes back the success of a bill in the journal |
| `Services` | seven casts: two agreements (same or different token) over one slot; two links with one token text, 2 tries, 1 thread; two tasks over two mailboxes, one with a pool; three tasks over one mailbox; three links of one buyer, 2 checks, a batch of 2, 1 restart (114,069 states) | the properties of `PaypalJobs`, `CheckoutJobs`, `MailboxPool` and `PlusWatch`: `SlotsBalance`, `RunningHoldsSlot`, `OneJobPerAgreement`, `AgreementJobsEnd`; `QueueAgrees`, `CancelledLinkStays`, `LinkEndsJob`, `OneCheckoutPerText`, `OrderSettlesOnce`, `QueueMoves`; `MailboxExclusive`, `NothingLeftBehind`; `ArrivalSticks`, `WatchEnds` |
| `Services_account` | as `Services`, with a text of its own for one of the links | violation: two links of one account make checkouts at the same time |

Why the bounds are enough to be interesting: in `PythonTask` two mailboxes are
the fewest that separate "this flow's mailbox" from "a mailbox another flow, or
another task, has completed"; one cancel and one restart reach every handler,
every program counter and every pair of concurrent writers (the coverage of the
runs includes every action).  In `GoTask` tasks interact only through the
dispatcher, so three tasks with a batch of two already leave one waiting, which needs no
cancel; a cancel meets each pair of kinds.  Two accounts are needed for a short but
successful result (`CheckoutResult`).  The
theorems below remove the bounds for the properties they state.

In the payment inbox two attempts at one bill, or at one account, are the fewest that
can charge twice or collide; which kinds meet (web, command line, flow) is the choice of
a cast, so that the product of all of them is not explored. A cast starts with some of
the restarts used up: the one with two bills and one account with all, the others with
one, so that one is left, and the flow whose bill the user pays too with none. The
flow's payment may fail before the first restart and the user's be made between the two:
then a flow that looked for its payment by the link alone would report what is not its
own. Who takes no part is finished from the start. Where no flow makes the links their
rows are there from the start, and a person marks a row paid only in the casts with one
bill and one account (`HandBound`): a row closed by hand is closed, and these casts have
every kind of payer. Payers of one kind are symmetric, and the run states no liveness.
The four services of `Services` share no state, so one behaviour steps only one of them,
with one cast; a slot, a thread and a mailbox that two compete for are the interesting
case. The bound on callbacks is two at a time, on checks of a watch two, on prompts and
inputs of an agreement one; every guard that compares with them is reached.

`CHECK_DEADLOCK FALSE` in every configuration: when the tasks have ended and the
bounds on cancels and restarts are used up, the system has nothing left to do.

### Fairness

`PythonTask!FairSpec` assumes that the backend's goroutines and handlers and the
worker's handlers and watcher thread run, that both services are restarted by
their supervisor, that time passes, and that the page which shows a task polls
`GET /tasks/<id>`: reconciliation of a stale row happens only there
(`tasks.go:405-411`).  Nothing is assumed of the child: it may hang in any call.
`GoTask!FairSpec` assumes that goroutines run and that an attempt comes back: a
checkout is polled at most 800 times, 1.5 s apart, and the requests of a probe
have timeouts.  Nothing forces a task to be submitted, cancelled or interrupted.

`PaymentInbox` states no fairness: a payer may hang or die anywhere.  `PaypalJobs`
assumes that a job's thread runs, since each wait has a timeout (an input half
an hour, a slot half a second before it looks again); nobody need answer a
prompt.  `CheckoutJobs` assumes the same of its threads, the dispatcher and the
clock of the quota.  `PlusWatch` assumes the clock and the checker; `MailboxPool`
nothing.  `MCServices` says the same of the jobs of its cast.

### Disagreements between the code and what it says of itself

The seven violation runs are listed under `findings` of `PROJECT.json` with the
lines quoted.  Each needs an interleaving or a failure that no test of the
repository exercises.

## 4. Proofs

`PythonTask_proofs` proves for every set of mailboxes and every bound:
`TypeCorrect`, `ChildAlwaysKillable`, `WatcherAlwaysLeavesTerminal` and
`CompletedAlwaysStays`.  The last three are not inductive; the argument is a chain of
strengthenings, each proved from the ones before it:

- `DispatchInv`: the request to `/execute` is sent at most once, because the
  dispatcher has not got that far.
- `ChildInv`: a child exists only after the request was accepted and its watcher
  started; while the child runs, the handle that `/cancel` may drop is not the child's own.
- `RowInv`: a child that exited with 0 has left a terminal row or a cancel request,
  and `WatcherLeavesTerminal` itself.
- `MailboxInv`: the program counter of the child says which mailbox may be
  busy or half saved.

`GoTask_proofs` proves for every set of tasks, every number of accounts and every
bound every property of the passing run but `Settles`.  The chain:

- `TypeCorrect` needs `WorkInv`: the counters of a task stay in range because no
  account is counted twice, and none is lost while the context is not cancelled.
- `ExecInv`: where an executor is (`pc`) says what its row may be, and a row that
  waits to be claimed has no executor.  From it `ActiveAlwaysHasExecutor`
  (`ActiveHasExecutor`) and `FinishedRowsStay` (`TerminalStays`).
- `SecretInv`: a row that waits to be claimed has its tokens, and a cancel handler
  about to release them has ended the row.  From it `SecretsAlwaysHeld`
  (`SecretHeld`) and `SecretsAlwaysEnd` (`SecretEnds`).
- `ResultInv`: a checkout's context is cancelled only after its row was asked to
  stop, so a row that may still be completed has lost no result.  With `WorkInv`,
  `CheckoutsAlwaysAddUp` (`CheckoutResult`).
- `CheckoutsFollowLifecycle` (`CheckoutLifecycle`): every step of `GoTask` is a
  step of `TaskLifecycle` on the phases of the checkouts, or leaves them alone.

`MailboxPool_proofs` proves for any tasks, batches, pool widths and mailboxes
`PoolTypeCorrect`, `MailboxesExclusive` (`MailboxExclusive`) and
`NothingStaysBehind` (`NothingLeftBehind`).  `LeaseInv`: a flow inside its mailbox
holds the lease, has outlived it, or belongs to a task that is stopping.
`OwnerInv`: a lease belongs to a flow that will still release it, or to a task that
will release all of its own.  `ChiefInv` and `SentInv`: what the main thread's place
and the count of submitted mailboxes say of the flows.

`CheckoutJobs_proofs` proves for any jobs, accounts and limits
`PositionsAgreeAlways` (`QueueAgrees`), `TextsExclusive`
(`OneCheckoutPerText`), `CancelsAreFinal` (`CancelledLinkStays`), `LinksEndJobs`
(`LinkEndsJob`) and `OrdersSettleOnce` (`OrderSettlesOnce`).  Lemmas say
what appending, removing and taking the head do to the members of the queue.
`LinksInv` then keeps together: the queue holds exactly the jobs that wait
(`QueueInv`), the lock of a token text has one holder (`LockInv`), a cancelled record
that no cancel wrote belongs to a thread that writes no more (`CancelInv`), a job
with a link is on its way out while its record is there (`FoundInv`), a callback
that is handled is alone (`OrderInv`).  `LinksTypeCorrect` (`LinksTypeOK`) adds
`CountInv`: `workers` is the number of public jobs between their dispatch and
`_worker_done`, whatever a cancel or the store did to their records (`QuotaInv`); an
attempt is begun only when one is left (`TriesInv`); only public jobs wait
(`WaitInv`); a job without a record shows no position (`AbsentInv`).  That a position
is no larger than the number of jobs is the pigeonhole principle for the queue, which
holds none twice (`QueueLength`).

`PaypalJobs_proofs` proves for any jobs and slots `AgreementsTypeCorrect`,
`SlotsAlwaysBalance` (`SlotsBalance`), `RunningHolds` (`RunningHoldsSlot`) and
`AgreementsExclusive` (`OneJobPerAgreement`).  `JobOK` says what a job's place,
cancel event, status and slot have to do with each other; every step of a job
(`JobStep`) takes a slot from the free ones, gives one back or changes neither,
and never makes a job active again.

`PaymentInbox_proofs` and `AutoFlow_proofs` prove for any web payments, command-line
attempts, flows, bills, accounts and restarts `FlowTypeCorrect` (`FlowTypeOK`),
`ChargesOnce` (`ChargedOnce`), `JournalAlwaysHolds` (`JournalHoldsCharge`),
`PaidAlwaysSettled` (`PaidIsSettled`), `AccountsStayExclusive` (`AccountExclusive`),
`FailuresStayOver` (`FailedIsOver`), `AddressChargedOnce` (`OneChargePerAddress`) and
`FlowsTellTruth` (`FlowTellsTruth`).  None is inductive.  `InboxInv`:

- `PayerOK`: what a payer's place says of its record; before the charge it has none.
- `ClaimInv`: a command-line attempt has the lease of its row while the row is pending,
  and is alone with its bill.  All command-line attempts sign the journal alike, so
  this is all that keeps them apart, and where `Stallers \subseteq Web` is needed.
- `HoldInv`: a payer on its way to or from a charge is named in the journal; until
  it charges, no payment of the bill is on its way (`Clean`).
- `FreeInv`: a journal entry that may be tried again belongs to a clean bill.  It is
  where "failed" written after a charge would break the proof.
- `ReadInv`: between its look at the journal and its own entry a command-line attempt
  can be overtaken by a web payment only, and then its entry is refused.
- `BindInv`: who occupies an account is named in its binding, with its bill.
- `SettledInv`: `PaidIsSettled`, and what a payer about to store it has seen.

`StepOK` takes the step of one payer apart into what it does to each store; most
actions are shown to be such steps (`Moves`), the few that take a lease, an entry or an
account have a lemma each.  `Kept` says what all of them leave to the flows.
`FlowInv` adds what a flow's place says of its record and its payment (`FlowOK`) and
that a flow's reservation is for its own bill (`FlowBindInv`).

Two more invariants are about what is over, and stand on the ones above:

- `EndInv`: a record says failed only of a payment that has `Ended`.  Such a payment
  will not charge again, and if it did charge, Midtrans has denied the transaction or
  the bill is another's.  The last two are not stable by themselves: a denied bill may
  be tried again, and an entry may come back to the payment's own name.  `Spared`
  says what the steps of others leave alone, and `QuietKept` that this is enough,
  because a journal entry is given away only when no payment of the bill is on its way.
- `TruthInv`: a flow `Holds` the address while it runs, has paid or may have paid, and
  one flow at a time `Counts`: holds it and was not `passed` over (`Alone`), because
  `start` refuses a second unless it passes over the first, and a flow that has let go
  never holds again.  `TellOK` is the history a flow carries from one retry to
  the next: at its failure, and whenever it is called failed, the payment it names
  has ended.  With `FlowOK` this gives the second half of `FlowTellsTruth` and, since a
  flow that has let go left no charge that may settle, `OneChargePerAddress`.  `FlowTellsTruth`
  needs no `Alone` and holds of flows passed over too.

`Services_proofs` proves for any links, buyers, batch sizes and numbers of checks
`WatchTypeCorrect` (`WatchTypeOK`) and `ArrivalsStick` (`ArrivalSticks`), and for the
four services side by side `ServicesTypeCorrect` (`ServicesTypeOK`).  `WatchInv`: a
row that the checker has read and not yet written is still pending and has checks left,
although its registration may have been renewed meanwhile (`LoadedOK`), because only the
checker writes a status and it reads no row twice; a row is made for a link whose
goroutine is then done, so there are no more rows than links (`AskingOK`).  The four
share no variable, so a step of one is a stutter of the others (`ServicesStep`).

Assumptions on the constants are those named in the modules (`...Assumption`):
sets of tasks are disjoint by kind, bounds are natural numbers.

Every invariant and every action property that a passing run checks is a theorem.
Only model-checked, and out of the prover's reach, are the liveness properties: both
`Settles`, `AgreementJobsEnd`, `QueueMoves` and `WatchEnds`.  Their proofs need the
enabledness of actions, which the prover does not reason about.

## 5. Not modelled

- The dialogues with external sites: the authentication of OpenAI
  (`sunny_core/openai_auth.py`), GoPay and Gojek (`gojek_client.py`), Midtrans,
  PayPal (`paypal/flow.py`), Stripe and the other payment providers.  They are more
  than half of the implementation: sequences of requests, parsing, signatures
  and fingerprints, with one caller each and no state that another actor
  shares.  The models see of each a result, an exception, or a hang, and what is
  left of it after a crash.  A model of the requests themselves would restate them.
- Vendored copies (the CAPTCHA solver, browser automation, the Rust checkout
  service) and the frontend.  The frontend's polling is part of the fairness of
  `PythonTask`.
- CRUD: registration and session store, settings, audit log, the clients of the mail
  providers.  Their handlers are single transactions without a protocol between them.
- Parts of modelled components: the managers for GoPay registration, PIN changes,
  envelopes and SMS numbers in `payment_inbox.py`; the flows of the worker that are
  not registrations; the event stream and the batch operations of the task API.

Known weak spots of the code that no property here covers, beside those of
`hazards`:

- `gopay_protocol_worker.py:2020`: the command-line worker, when the journal tells it
  to keep off a bill, cancels the inbox row although a web payment of it may be live.
- `payment_inbox.py`: a crash between the reservation of the journal and the
  saved record leaves the entry "running" for ever; a record whose OTP timed out may be
  cleared while its thread still writes.
- `protocol_web.py:1057-1073`: a second input for one prompt is kept and answers
  the next; `complete` looks at the cancel event outside the lock.
- `app.py:4173-4227, 4704-4705`: the refresh of a GCash QR code writes back an order
  it read before the request and puts `payment_status` in the order's result back
  to `waiting_callback`, although the order's own status, which `OrderSettlesOnce` is about,
  keeps its outcome.
- `sunny_plus_watch.go:15-32`: two registrations of one account at the same time make
  two pending rows; the seven intervals add up to less than eleven hours while the
  comment speaks of 24.
- `sunny_core/db.py:975`: a phone number stays reserved when the process that reserved
  it dies.  `proxy_scheduler.py:54-109`: a proxy is chosen before the sleep on its
  cooldown.  `tasks.go:577`: the event stream ends with the terminal status and loses
  what is written later.  `tasks.go:803`: four old rows that cannot be claimed keep
  younger ones waiting.
