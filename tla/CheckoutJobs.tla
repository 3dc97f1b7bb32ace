---------------------------- MODULE CheckoutJobs ----------------------------
(***************************************************************************)
(* The checkout engine's job store (tools/pay153_checkout/app.py).         *)
(*                                                                         *)
(* A public job waits in a queue for one of WorkerLimit threads and for    *)
(* room in the per-minute quota; an internal job, asked for by the Go      *)
(* checkout executor, starts at once in a pool of its own.  A job's thread *)
(* tries to make a payment link, with new proxies each time.  A cancel     *)
(* ends the record at once; the thread notices it between its stages.  The *)
(* store keeps 500 records: to make room for a new one it forgets the one  *)
(* written longest ago, whatever its job is doing.  A GCash link leaves an *)
(* order behind, which the callbacks of the payment page continue.         *)
(***************************************************************************)
EXTENDS Naturals, FiniteSets, Sequences, SequencesExt

CONSTANTS
  Links,        \* the jobs
  Private,      \* the internal ones
  Gcash,        \* those that make GCash links
  TextOf,       \* the text a job was given its token in: the token, Session JSON
  AccountOf,    \* the account of that token; a renewed token is another text
  WorkerLimit,  \* threads for public jobs
  GlobalRpm,    \* public jobs started within a minute
  MaxTries,     \* attempts of a job
  MaxCalls      \* bound: callbacks of an order that are handled at a time

ASSUME LinksAssumption ==
  /\ IsFiniteSet(Links) /\ Private \cup Gcash \subseteq Links
  /\ \A j, k \in Links : TextOf[j] = TextOf[k] => AccountOf[j] = AccountOf[k]
  /\ {WorkerLimit, GlobalRpm, MaxTries, MaxCalls} \subseteq Nat \ {0}

VARIABLES
  rec,      \* the records, "absent" also of a job that was forgotten
  queue,    \* pending
  workers,  \* active_workers
  recent,   \* the length of start_times
  work,     \* the jobs' threads
  order     \* the GCash orders

linkVars == <<rec, queue, workers, recent, work, order>>

NoRecord  == [status |-> "absent", cancel |-> FALSE, position |-> 0]
NewRecord == [status |-> "queued", cancel |-> FALSE, position |-> 0]

LinksInit ==
  /\ rec = [j \in Links |-> NoRecord]
  /\ queue = <<>>
  /\ workers = 0
  /\ recent = 0
  /\ work = [j \in Links |-> [at |-> "none", tries |-> 0, found |-> FALSE]]
  /\ order = [j \in Links |-> [status |-> "none", busy |-> FALSE, calls |-> 0]]

-----------------------------------------------------------------------------

Stored(j)    == rec[j].status # "absent"
WorkAt(j, s) == work[j].at = s
WorkGoes(j, s) == work' = [work EXCEPT ![j].at = s]
Public == Links \ Private

\* _refresh_queue_locked: the positions of the records that wait.
Place(q, j) == CHOOSE i \in DOMAIN q : q[i] = j
Positioned(r, q) ==
  [j \in Links |->
     IF r[j].status # "absent" /\ Contains(q, j)
       THEN [r[j] EXCEPT !.position = Place(q, j)] ELSE r[j]]

\* Mutant: whatever a thread writes is taken.
UpdateAnyway(j, status) ==
  IF Stored(j) THEN [rec EXCEPT ![j].status = status] ELSE rec

\* update: a cancelled record is not written over.
Update(j, status) ==
  IF Stored(j) /\ ~(rec[j].cancel /\ rec[j].status = "cancelled")
    THEN [rec EXCEPT ![j].status = status] ELSE rec

\* create: room is made if the store is full, here of other records too; then
\* the job queues or, if it is internal, starts.
CreatesLink(j) ==
  LET stored == {k \in Links : Stored(k)}
  IN /\ WorkAt(j, "none")
     /\ \E old \in SUBSET stored :
          /\ queue' = IF j \in Public THEN Append(queue, j) ELSE queue
          /\ rec' = Positioned([k \in Links |->
                      CASE k = j          -> NewRecord
                        [] k \in old      -> NoRecord
                        [] OTHER          -> rec[k]], queue')
     /\ WorkGoes(j, IF j \in Public THEN "waiting" ELSE "pooled")
     /\ UNCHANGED <<workers, recent, order>>

\* Mutant: a job that is cancelled leaves the queue as it was.
CancelsInPlace(j) ==
  /\ Stored(j)
  /\ rec' = [rec EXCEPT ![j] = [status |-> "cancelled", cancel |-> TRUE, position |-> 0]]
  /\ UNCHANGED <<queue, work, workers, recent, order>>

\* cancel, at any time, a finished job included.
CancelsLink(j) ==
  LET gone == [rec EXCEPT ![j] = [status |-> "cancelled", cancel |-> TRUE, position |-> 0]]
  IN /\ Stored(j)
     /\ IF WorkAt(j, "waiting")
          THEN /\ queue' = RemoveAt(queue, Place(queue, j))
               /\ rec' = Positioned(gone, queue')
               /\ WorkGoes(j, "done")
          ELSE rec' = gone /\ UNCHANGED <<queue, work>>
     /\ UNCHANGED <<workers, recent, order>>

\* start_times forgets what is a minute old.
MinutePasses ==
  /\ recent > 0
  /\ recent' = recent - 1
  /\ UNCHANGED <<rec, queue, workers, work, order>>

\* _dispatch_loop: the head of the queue goes to the pool, or, if it was
\* forgotten meanwhile, nowhere.
Dispatches ==
  LET j == Head(queue) IN
  /\ queue # <<>>
  /\ workers < WorkerLimit /\ recent < GlobalRpm
  /\ queue' = Tail(queue)
  /\ IF Stored(j)
       THEN /\ rec' = Positioned([rec EXCEPT ![j].position = 0], queue')
            /\ WorkGoes(j, "pooled")
            /\ workers' = workers + 1
            /\ recent' = recent + 1
       ELSE /\ rec' = Positioned(rec, queue')
            /\ WorkGoes(j, "done")
            /\ UNCHANGED <<workers, recent>>
  /\ UNCHANGED order

-----------------------------------------------------------------------------
(* _run and _run_locked *)

Busy == {"loop", "trying", "deciding", "unlocking"}

\* Mutant: the lock of the text is not asked for.
TakesTokenLockAnyway(j) ==
  /\ WorkAt(j, "pooled")
  /\ WorkGoes(j, "loop")
  /\ UNCHANGED <<rec, queue, workers, recent, order>>

\* checkout_token_lock hashes the text: a second job with the same text ends with
\* an error; another text of the same account has another lock.
TakesTokenLock(j) ==
  /\ WorkAt(j, "pooled")
  /\ IF \E k \in Links : TextOf[k] = TextOf[j] /\ work[k].at \in Busy
       THEN rec' = Update(j, "error") /\ WorkGoes(j, "over")
       ELSE WorkGoes(j, "loop") /\ UNCHANGED rec
  /\ UNCHANGED <<queue, workers, recent, order>>

\* The head of the loop over the attempts.  Without a proxy the attempt is lost,
\* and the job goes on to the next or gives up.
BeginsTry(j) ==
  LET last == work[j].tries + 1 = MaxTries
      Spends(s) == work' = [work EXCEPT ![j].at = s, ![j].tries = @ + 1]
  IN
  /\ WorkAt(j, "loop")
  /\ IF rec[j].cancel
       THEN WorkGoes(j, "unlocking") /\ UNCHANGED rec
       ELSE \/ rec' = Update(j, "running") /\ Spends("trying")
            \/ ~last /\ rec' = Update(j, "running") /\ Spends("loop")
            \/ rec' = Update(j, "error") /\ Spends("unlocking")
  /\ UNCHANGED <<queue, workers, recent, order>>

\* _run_single: no link, for whatever reason.  The wrapper says running; a Rust
\* job may have been cancelled at its own service.
TryFails(j) ==
  /\ WorkAt(j, "trying")
  /\ rec' = Update(j, "running") \/ rec' = Update(j, "cancelled")
  /\ WorkGoes(j, "deciding")
  /\ UNCHANGED <<queue, workers, recent, order>>

\* A link is made.  If it is a GCash link, its order is registered first (the
\* first order of a job is modelled).
TryFinds(j) ==
  /\ WorkAt(j, "trying")
  /\ rec' = Update(j, "done")
  /\ work' = [work EXCEPT ![j].at = "deciding", ![j].found = TRUE]
  /\ order' = IF j \in Gcash /\ order[j].status = "none"
                THEN [order EXCEPT ![j].status = "waiting_callback"] ELSE order
  /\ UNCHANGED <<queue, workers, recent>>

\* Mutant: only a record that says done ends the attempts.
DecidesOnDone(j) ==
  /\ WorkAt(j, "deciding")
  /\ IF rec[j].status = "done" \/ work[j].tries = MaxTries
       THEN WorkGoes(j, "unlocking") /\ UNCHANGED rec
       ELSE rec' = Update(j, "running") /\
            work' = [work EXCEPT ![j].at = "trying", ![j].tries = @ + 1]
  /\ UNCHANGED <<queue, workers, recent, order>>

\* The record decides: a link or a cancel ends it, otherwise the job gives up,
\* tries again, or (GoPay, MoMo) rebuilds the checkout within the attempt.
Decides(j) ==
  /\ WorkAt(j, "deciding")
  /\ IF rec[j].status \in {"done", "cancelled"}
       THEN WorkGoes(j, "unlocking") /\ UNCHANGED rec
       ELSE \/ /\ Stored(j) \/ work[j].tries = MaxTries
               /\ rec' = Update(j, "error")
               /\ WorkGoes(j, "unlocking")
            \/ /\ work[j].tries < MaxTries
               /\ WorkGoes(j, "loop")
               /\ UNCHANGED rec
            \/ /\ work[j].tries < MaxTries /\ Stored(j)
               /\ rec' = Update(j, "running")
               /\ work' = [work EXCEPT ![j].at = "trying", ![j].tries = @ + 1]
  /\ UNCHANGED <<queue, workers, recent, order>>

Unlocks(j) ==
  /\ WorkAt(j, "unlocking")
  /\ WorkGoes(j, "over")
  /\ UNCHANGED <<rec, queue, workers, recent, order>>

\* Mutant: a job that made no link leaves its thread counted.
WorkerLeaks(j) ==
  /\ WorkAt(j, "over")
  /\ WorkGoes(j, "done")
  /\ workers' = IF j \in Public /\ work[j].found THEN workers - 1 ELSE workers
  /\ UNCHANGED <<rec, queue, recent, order>>

\* _worker_done, for public jobs.
WorkerDone(j) ==
  /\ WorkAt(j, "over")
  /\ WorkGoes(j, "done")
  /\ workers' = IF j \in Public THEN workers - 1 ELSE workers
  /\ UNCHANGED <<rec, queue, recent, order>>

-----------------------------------------------------------------------------
(* GCash orders *)

Settled == {"success", "failed"}

\* gcash_order: reading an order that is too old expires it.
OrderExpires(j) ==
  /\ order[j].status = "waiting_callback"
  /\ order' = [order EXCEPT ![j].status = "expired"]
  /\ UNCHANGED <<rec, queue, workers, recent, work>>

\* Mutant: a callback does not mind another that is being handled.
CallbackComesAnyway(j) ==
  /\ order[j].status \in {"waiting_callback", "paying"}
  /\ order[j].calls < MaxCalls
  /\ order' = [order EXCEPT ![j].busy = TRUE, ![j].calls = @ + 1]
  /\ UNCHANGED <<rec, queue, workers, recent, work>>

\* complete_gcash_order, under the lock: one callback at a time, and none of an
\* order that is too old.
CallbackComes(j) ==
  /\ order[j].status \in {"waiting_callback", "paying"}
  /\ ~order[j].busy
  /\ \/ /\ order[j].calls < MaxCalls
        /\ order' = [order EXCEPT ![j].busy = TRUE, ![j].calls = @ + 1]
     \/ order' = [order EXCEPT ![j].status = "expired"]
  /\ UNCHANGED <<rec, queue, workers, recent, work>>

\* The checkout has answered, or the call has raised.
CallbackEnds(j) ==
  /\ order[j].calls > 0
  /\ \E status \in {"paying"} \cup Settled :
       order' = [order EXCEPT ![j].status = status, ![j].busy = FALSE, ![j].calls = @ - 1]
  /\ UNCHANGED <<rec, queue, workers, recent, work>>

-----------------------------------------------------------------------------

LinkThread(j) ==
  \/ TakesTokenLock(j) \/ BeginsTry(j) \/ TryFails(j) \/ TryFinds(j)
  \/ Decides(j) \/ Unlocks(j) \/ WorkerDone(j)

LinksNext ==
  \/ Dispatches \/ MinutePasses
  \/ \E j \in Links :
       \/ CreatesLink(j) \/ CancelsLink(j) \/ LinkThread(j)
       \/ OrderExpires(j) \/ CallbackComes(j) \/ CallbackEnds(j)

\* Requests have timeouts, so threads run; the dispatcher and the clock run.
LinksFairness ==
  /\ WF_linkVars(Dispatches) /\ WF_linkVars(MinutePasses)
  /\ \A j \in Links : WF_linkVars(LinkThread(j))

LinksSpec == LinksInit /\ [][LinksNext]_linkVars /\ LinksFairness

-----------------------------------------------------------------------------
(* Properties *)

\* The type invariant.
LinksTypeOK ==
  /\ rec \in [Links ->
       [status : {"absent", "queued", "running", "done", "error", "cancelled"},
        cancel : BOOLEAN, position : 0..Cardinality(Links)]]
  /\ IsInjective(queue) /\ Range(queue) \subseteq Public
  /\ workers \in 0..WorkerLimit /\ recent \in 0..GlobalRpm
  /\ work \in [Links -> [at : Busy \cup {"none", "waiting", "pooled", "over", "done"},
                         tries : 0..MaxTries, found : BOOLEAN]]
  /\ order \in [Links ->
       [status : Settled \cup {"none", "waiting_callback", "paying", "expired"},
        busy : BOOLEAN, calls : 0..MaxCalls]]

\* The position a user is shown is the job's place in the queue, and a job that
\* is shown one is in the queue: nothing waits that was dropped or dispatched.
QueueAgrees ==
  \A j \in Links : Stored(j) =>
    IF rec[j].position = 0 THEN ~Contains(queue, j)
    ELSE rec[j].position \in DOMAIN queue /\ queue[rec[j].position] = j

\* A job that was cancelled is never shown as running, failed or done again, by
\* a thread that was inside a request when the cancel came.
CancelledLinkStays ==
  [][\A j \in Links : rec[j].status = "cancelled" =>
       rec'[j].status \in {"cancelled", "absent"}]_linkVars

\* A job that has made a link starts no other checkout, unless the store has
\* forgotten it.
LinkEndsJob ==
  [][\A j \in Links : work[j].found /\ work'[j].tries > work[j].tries =>
       ~Stored(j)]_linkVars

\* Two jobs never make checkouts with one token text at a time, which would void
\* the first one's session; a thread that was cancelled or forgotten still counts.
OneCheckoutPerText ==
  \A j, k \in Links :
    j # k /\ TextOf[j] = TextOf[k] =>
      ~(WorkAt(j, "trying") /\ WorkAt(k, "trying"))

\* The same of an account, which the message of the lock speaks of: "a link job
\* of the same account is already running".
OneCheckoutPerAccount ==
  \A j, k \in Links :
    j # k /\ AccountOf[j] = AccountOf[k] =>
      ~(WorkAt(j, "trying") /\ WorkAt(k, "trying"))

\* An order that was paid or failed keeps that outcome, whatever callbacks and
\* readers come at the same time.
OrderSettlesOnce ==
  [][\A j \in Links : order[j].status \in Settled =>
       order'[j].status = order[j].status]_linkVars

\* A public job does not wait for ever.
QueueMoves ==
  \A j \in Public : WorkAt(j, "waiting") ~> ~WorkAt(j, "waiting")
=============================================================================
