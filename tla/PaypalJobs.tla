----------------------------- MODULE PaypalJobs -----------------------------
(***************************************************************************)
(* The PayPal agreement jobs of paypal_runtime/protocol_web.py.            *)
(*                                                                         *)
(* A job is a thread that signs one billing agreement.  The threads share  *)
(* MaxActiveJobs execution slots (RUNNER_SEMAPHORE); a thread gives its    *)
(* slot back while it waits for a code from the user.  A cancel is answered*)
(* at once: the record says cancelled and the slot is free while the       *)
(* thread may still be inside a request.  A new internal job for the same  *)
(* agreement cancels the one that an earlier internal task left behind.    *)
(***************************************************************************)
EXTENDS Naturals, FiniteSets

CONSTANTS
  Agreements,     \* the jobs that may be created
  TokenOf,        \* the billing agreement of each job
  Internal,       \* jobs of the internal channel, each with a device of its own
  MaxActiveJobs,  \* slots
  MaxPrompts,     \* bound: prompts of a job
  MaxInputs       \* bound: inputs waiting in the queue of a job

ASSUME AgreementsAssumption ==
  /\ IsFiniteSet(Agreements) /\ Internal \subseteq Agreements
  /\ {MaxActiveJobs, MaxPrompts, MaxInputs} \subseteq Nat \ {0}

VARIABLES
  agr,       \* the records and their threads
  slots,     \* free slots
  dropping   \* jobs whose cancel has still to give back their slot

agreementVars == <<agr, slots, dropping>>

ActiveStatuses == {"queued", "running", "awaiting_otp"}
FinalStatuses  == {"completed", "failed", "cancelled"}

NoJob == [status |-> "none", cancel |-> FALSE, slot |-> FALSE, at |-> "none",
          prompts |-> 0, inputs |-> 0, good |-> FALSE]

AgreementsInit ==
  /\ agr = [j \in Agreements |-> NoJob]
  /\ slots = MaxActiveJobs
  /\ dropping = {}

-----------------------------------------------------------------------------

ThreadAt(j, s) == agr[j].at = s
Active(j)      == agr[j].status \in ActiveStatuses

\* The job's thread goes to s; its record says status, and so on.
Moves(j, s) == agr' = [agr EXCEPT ![j].at = s]
MovesAs(j, s, status) == agr' = [agr EXCEPT ![j].at = s, ![j].status = status]

\* Mutant: the status is set whatever the cancel event says.
StatusAnyway(j, status) == status

\* set_status ignores everything but a cancellation once the job is cancelled.
StatusSet(j, status) == IF agr[j].cancel THEN agr[j].status ELSE status

\* WebJob.cancel, the part under the job's condition.
Cancelled(rec) == [rec EXCEPT !.cancel = TRUE, !.status = "cancelled"]

\* Mutant: whoever releases counts a slot.
SlotsAfterAll(j) == slots + 1

\* release_execution_slot, by whoever comes first.
SlotsAfter(j) == IF agr[j].slot THEN slots + 1 ELSE slots

\* create_job: an active job for the same agreement is an error, unless both
\* are internal: then it is cancelled, even if the new one is then refused
\* because the queue, the device or the history is full.
CreatesJob(j) ==
  LET old == {k \in Agreements : Active(k) /\ TokenOf[k] = TokenOf[j]}
      new == [NoJob EXCEPT !.status = "queued", !.at = "start"]
  IN /\ ThreadAt(j, "none")
     /\ old # {} => j \in Internal /\ old \subseteq Internal
     /\ \E refused \in {FALSE, old # {}} :
          agr' = [k \in Agreements |->
                    CASE k \in old           -> Cancelled(agr[k])
                      [] k = j /\ ~refused   -> new
                      [] OTHER               -> agr[k]]
     /\ dropping' = dropping \cup old
     /\ UNCHANGED slots

\* The user cancels.
CancelsJob(j) ==
  /\ Active(j)
  /\ agr' = [agr EXCEPT ![j] = Cancelled(agr[j])]
  /\ dropping' = dropping \cup {j}
  /\ UNCHANGED slots

\* The rest of cancel: the slot is given back.
DropsSlot(j) ==
  /\ j \in dropping
  /\ slots' = SlotsAfter(j)
  /\ agr' = [agr EXCEPT ![j].slot = FALSE]
  /\ dropping' = dropping \ {j}

\* submit_input: a code or a new phone number.
SubmitsInput(j) ==
  /\ agr[j].status = "awaiting_otp"
  /\ agr[j].inputs < MaxInputs
  /\ agr' = [agr EXCEPT ![j].inputs = @ + 1]
  /\ UNCHANGED <<slots, dropping>>

-----------------------------------------------------------------------------
(* run_job *)

QueuesUp(j) ==
  /\ ThreadAt(j, "start")
  /\ MovesAs(j, "want", StatusSet(j, "queued"))
  /\ UNCHANGED <<slots, dropping>>

\* acquire_execution_slot: the cancel event is looked at every half second.
TakesSlot(j) ==
  /\ ThreadAt(j, "want")
  /\ \/ agr[j].cancel /\ Moves(j, "raised") /\ UNCHANGED slots
     \/ slots > 0 /\ slots' = slots - 1 /\ Moves(j, "mark")
  /\ UNCHANGED dropping

\* Mutant: a cancel that came meanwhile keeps the slot.
MarksOrLosesSlot(j) ==
  /\ ThreadAt(j, "mark")
  /\ IF agr[j].cancel
       THEN Moves(j, "raised")
       ELSE agr' = [agr EXCEPT ![j].slot = TRUE,
                      ![j].at = IF agr[j].prompts > 0 THEN "resume" ELSE "prepare"]
  /\ UNCHANGED <<slots, dropping>>

\* The slot becomes the job's own, unless it has been cancelled meanwhile.
MarksSlot(j) ==
  /\ ThreadAt(j, "mark")
  /\ IF agr[j].cancel
       THEN Moves(j, "raised") /\ slots' = slots + 1
       ELSE /\ agr' = [agr EXCEPT ![j].slot = TRUE,
                         ![j].at = IF agr[j].prompts > 0 THEN "resume" ELSE "prepare"]
            /\ UNCHANGED slots
  /\ UNCHANGED dropping

\* The first step with a slot, and the step after each input.
RunsWithSlot(j) ==
  /\ agr[j].at \in {"prepare", "resume"}
  /\ IF agr[j].cancel THEN Moves(j, "raised") ELSE MovesAs(j, "flow", "running")
  /\ UNCHANGED <<slots, dropping>>

\* Proxy, profile, card, or the dialogue with PayPal raises.
FlowRaises(j) ==
  /\ ThreadAt(j, "flow")
  /\ Moves(j, "raised")
  /\ UNCHANGED <<slots, dropping>>

\* wait_for_input: first the status, then the slot.
AsksInput(j) ==
  /\ ThreadAt(j, "flow")
  /\ agr[j].prompts < MaxPrompts
  /\ IF agr[j].cancel
       THEN Moves(j, "raised")
       ELSE agr' = [agr EXCEPT ![j].at = "ask", ![j].status = "awaiting_otp",
                               ![j].prompts = @ + 1]
  /\ UNCHANGED <<slots, dropping>>

LendsSlot(j) ==
  /\ ThreadAt(j, "ask")
  /\ slots' = SlotsAfter(j)
  /\ agr' = [agr EXCEPT ![j].at = "await", ![j].slot = FALSE]
  /\ UNCHANGED dropping

\* Mutant: the job counts as running as soon as it has its input.
GetsInputAndRuns(j) ==
  /\ ThreadAt(j, "await")
  /\ agr[j].inputs > 0
  /\ agr' = [agr EXCEPT ![j].inputs = @ - 1,
               ![j].at = IF agr[j].cancel THEN "raised" ELSE "want",
               ![j].status = StatusSet(j, "running")]
  /\ UNCHANGED <<slots, dropping>>

\* The job has its input and queues for a slot again.
GetsInput(j) ==
  /\ ThreadAt(j, "await")
  /\ agr[j].inputs > 0
  /\ agr' = [agr EXCEPT ![j].inputs = @ - 1,
               ![j].at = IF agr[j].cancel THEN "raised" ELSE "want",
               ![j].status = StatusSet(j, "queued")]
  /\ UNCHANGED <<slots, dropping>>

\* Mutant: only a cancel ends the wait.
AwaitsForEver(j) ==
  /\ ThreadAt(j, "await")
  /\ agr[j].inputs = 0
  /\ agr[j].cancel
  /\ Moves(j, "raised")
  /\ UNCHANGED <<slots, dropping>>

\* No input comes: a cancel or the timeout of half an hour.
InputFails(j) ==
  /\ ThreadAt(j, "await")
  /\ agr[j].inputs = 0
  /\ Moves(j, "raised")
  /\ UNCHANGED <<slots, dropping>>

\* The flow returns; a good result may still turn bad at Braintree.
FlowReturns(j) ==
  /\ ThreadAt(j, "flow")
  /\ IF agr[j].cancel
       THEN Moves(j, "raised")
       ELSE \E good \in BOOLEAN :
              agr' = [agr EXCEPT ![j].at = "judge", ![j].good = good]
  /\ UNCHANGED <<slots, dropping>>

\* complete and the handler of exceptions (with fail) look at the cancel event
\* first, and write the record afterwards.
LooksForCancel(j) ==
  /\ agr[j].at \in {"judge", "raised"}
  /\ IF agr[j].cancel
       THEN MovesAs(j, "leave", "cancelled")
       ELSE Moves(j, IF ThreadAt(j, "judge") THEN "finish" ELSE "fail")
  /\ UNCHANGED <<slots, dropping>>

WritesEnd(j) ==
  /\ agr[j].at \in {"finish", "fail"}
  /\ MovesAs(j, "leave", IF ThreadAt(j, "finish") /\ agr[j].good
                           THEN "completed" ELSE "failed")
  /\ UNCHANGED <<slots, dropping>>

\* The thread's finally clause.
LeavesJob(j) ==
  /\ ThreadAt(j, "leave")
  /\ slots' = SlotsAfter(j)
  /\ agr' = [agr EXCEPT ![j].at = "done", ![j].slot = FALSE]
  /\ UNCHANGED dropping

-----------------------------------------------------------------------------

JobThread(j) ==
  \/ QueuesUp(j) \/ TakesSlot(j) \/ MarksSlot(j) \/ RunsWithSlot(j)
  \/ FlowRaises(j) \/ AsksInput(j) \/ LendsSlot(j) \/ GetsInput(j)
  \/ InputFails(j) \/ FlowReturns(j) \/ LooksForCancel(j) \/ WritesEnd(j)
  \/ LeavesJob(j)

AgreementsNext ==
  \E j \in Agreements :
    \/ CreatesJob(j) \/ CancelsJob(j) \/ DropsSlot(j) \/ SubmitsInput(j)
    \/ JobThread(j)

\* Requests have timeouts, so threads run; nobody need create, cancel or answer.
AgreementsFairness ==
  \A j \in Agreements : WF_agreementVars(JobThread(j)) /\ WF_agreementVars(DropsSlot(j))

AgreementsSpec ==
  AgreementsInit /\ [][AgreementsNext]_agreementVars /\ AgreementsFairness

-----------------------------------------------------------------------------
(* Properties *)

\* The type invariant.
AgreementsTypeOK ==
  /\ agr \in [Agreements ->
       [status : ActiveStatuses \cup FinalStatuses \cup {"none"},
        cancel : BOOLEAN, slot : BOOLEAN, good : BOOLEAN,
        at : {"none", "start", "want", "mark", "prepare", "resume", "flow", "ask",
              "await", "judge", "raised", "finish", "fail", "leave", "done"},
        prompts : 0..MaxPrompts, inputs : 0..MaxInputs]]
  /\ slots \in 0..MaxActiveJobs
  /\ dropping \subseteq Agreements

\* No slot is lost or given back twice, although the thread and its cancel both
\* release it, and a thread that has ended holds none.
SlotsBalance ==
  /\ slots + Cardinality({j \in Agreements : agr[j].slot \/ ThreadAt(j, "mark")})
       = MaxActiveJobs
  /\ \A j \in Agreements : ThreadAt(j, "done") => ~agr[j].slot

\* A job that is shown as running holds a slot, through prompts and cancels.
RunningHoldsSlot ==
  \A j \in Agreements : agr[j].status = "running" => agr[j].slot

\* An agreement has at most one unfinished job: a job that was cancelled to make
\* room for another never becomes active again.
OneJobPerAgreement ==
  \A j, k \in Agreements :
    j # k /\ TokenOf[j] = TokenOf[k] => ~(Active(j) /\ Active(k))

\* Every job ends, with a final record, whether its user answers or not.
AgreementJobsEnd ==
  \A j \in Agreements :
    ~ThreadAt(j, "none") ~> ThreadAt(j, "done") /\ agr[j].status \in FinalStatuses
=============================================================================
