------------------------------ MODULE AutoFlow ------------------------------
(***************************************************************************)
(* The automatic flow of the payment inbox (_AutoFlowManager): for one     *)
(* e-mail address it generates a Midtrans link, reserves a GoPay account,  *)
(* starts a web payment and polls it; when that fails for a reason that    *)
(* looks temporary it starts over with a new link and a new account.       *)
(* A flow is one record of the manager; all flows here are of one address. *)
(***************************************************************************)
EXTENDS PaymentInbox

VARIABLE flow

flowVars == <<vars, flow>>

FlowAt(f, s)  == flow[f].at = s
Unstarted == [at |-> "idle", status |-> "none", bill |-> NoOne,
              acct |-> NoOne, web |-> NoOne, claimLost |-> FALSE,
              again |-> FALSE, passed |-> FALSE]

FlowInit == Init /\ flow = [f \in Flows |-> Unstarted]

FlowGoes(f, s)        == flow' = [flow EXCEPT ![f].at = s]
FlowEnds(f, status)   == flow' = [flow EXCEPT ![f].at = "done", ![f].status = status]

\* Where a flow may write nothing for 900 s: in the requests that make a link,
\* while another address has _register_lock, in the preflight of its payment.
Silent == {"link", "account", "starting"}

\* A running record that may be 900 s old, whether a thread works on it or not.
Stale(g) == flow[g].status = "running" /\ flow[g].at \in Silent \cup {"done"}

\* Mutant: a record of unknown outcome does not hold the address.
NoFlowKnown ==
  \A g \in Flows : flow[g].status \in {"none", "failed", "interrupted_unknown"} \/ Stale(g)

\* start returns a record that is paid, of unknown outcome, or running and
\* written in the last 900 s; another that is running it passes over.
NoFlowToReuse ==
  \A g \in Flows : flow[g].status \in {"none", "failed"} \/ Stale(g)

\* The new record, and a note, which the code does not keep, of the flows whose
\* threads work although start has passed over their records.
NewFlow(f) ==
  [g \in Flows |->
     IF g = f THEN [flow[f] EXCEPT !.at = "link", !.status = "running"]
     ELSE [flow[g] EXCEPT !.passed = @ \/ (Stale(g) /\ ~FlowAt(g, "done"))]]

\* The user, or the watch loop that finds a new address.
FlowStarts(f) ==
  /\ FlowAt(f, "idle")
  /\ NoFlowToReuse
  /\ flow' = NewFlow(f)
  /\ UNCHANGED vars

\* The retry thread of a failed flow starts over.
FlowRetries(f, g) ==
  /\ flow[f].again
  /\ FlowAt(g, "idle")
  /\ NoFlowToReuse
  /\ flow' = [NewFlow(g) EXCEPT ![f].again = FALSE]
  /\ UNCHANGED vars

\* _create_openai_midtrans_job makes a link and its row, or fails.
GeneratesLink(f) ==
  /\ FlowAt(f, "link")
  /\ \/ \E b \in Bills :
          /\ Create(b)
          /\ flow' = [flow EXCEPT ![f].at = "account", ![f].bill = b]
     \/ FlowGoes(f, "failing") /\ UNCHANGED vars

\* _normalize_gopay_binding_history: a reservation whose job, or else whose
\* bill, has ended takes over that end.
BindingEnd(a) ==
  LET o == bind[a].owner
      ended == IF o \in Web THEN job[o] ELSE IF o \in Flows THEN flow[o].status ELSE "none"
      told  == IF bind[a].bill = NoOne THEN "none" ELSE snap[bind[a].bill].status
  IN IF bind[a].status \notin {"reserved", "interrupted_unknown"} THEN bind[a].status
     ELSE IF ended \in {"success", "success_unreconciled"} THEN "success"
     ELSE IF ended = "failed" THEN "failed"
     ELSE IF told \in {"success", "interrupted_unknown"} THEN told
     ELSE IF told \in Retryable THEN "failed"
     ELSE bind[a].status

\* _gopay_binding_block_reason, for the flow's own id.
Blocked(a, f, status) ==
  /\ bind[a] # Unbound
  /\ ~(status \in {"reserved", "interrupted_unknown"} /\ bind[a].owner = f)

\* _ensure_gopay_account: the bindings are normalised first, then an account
\* that nobody else uses is reserved, or none can be had.
ReservesAccount(f) ==
  LET norm == [a \in Accounts |-> [bind[a] EXCEPT !.status = BindingEnd(a)]]
      free == {a \in Accounts :
                 /\ ~Blocked(a, f, norm[a].status)
                 /\ \A g \in Flows \ {f} : flow[g].acct # a
                 /\ norm[a].status \notin {"success", "failed", "interrupted_unknown"}
                 /\ MayBind(a, f, flow[f].bill, NoOne)}
  IN /\ FlowAt(f, "account")
     /\ \/ \E a \in free :
             /\ bind' = [norm EXCEPT ![a] = [status |-> "reserved", owner |-> f,
                                             bill |-> flow[f].bill]]
             /\ flow' = [flow EXCEPT ![f].at = "start", ![f].acct = a]
        \/ bind' = norm /\ FlowGoes(f, "failing")
     /\ UNCHANGED <<row, snap, job, marked, pay, remote, restarts>>

\* The flow hands its reservation to a web payment of its row.
StartsPayment(f, w) ==
  /\ FlowAt(f, "start")
  /\ Starts(w, flow[f].bill, flow[f].acct, f, "row")
  /\ flow' = [flow EXCEPT ![f].at = "starting", ![f].web = w]

\* The call returns once the web payment runs, or raises.
PaymentStarted(f) ==
  LET w == flow[f].web IN
  /\ FlowAt(f, "starting")
  /\ \/ job[w] # "none" /\ FlowGoes(f, "watch")
     \/ /\ job[w] = "none" /\ At(w, "done")
        /\ \E lost \in BOOLEAN :
             flow' = [flow EXCEPT ![f].at = "failing", ![f].claimLost = lost, ![f].web = NoOne]
  /\ UNCHANGED vars

\* Mutant: the poll takes over whatever the record says.
PollsAsIs(f) ==
  LET w == flow[f].web IN
  /\ FlowAt(f, "watch")
  /\ FlowEnds(f, job[w])
  /\ UNCHANGED vars

\* The poll finds the payment's record finished, or gives up.
PollsPayment(f) ==
  LET w == flow[f].web IN
  /\ FlowAt(f, "watch")
  /\ CASE job[w] \in {"success", "success_unreconciled", "interrupted_unknown"} ->
            /\ FlowEnds(f, job[w])
            /\ bind' = IF job[w] = "success"
                         THEN BindingSet(flow[f].acct, "success", w) ELSE bind
       [] job[w] = "failed" ->
            LET claimLost == At(w, "done") /\ pay[w].lost IN
            /\ flow' = [flow EXCEPT ![f].at = "failing", ![f].claimLost = claimLost]
            /\ bind' = IF claimLost THEN bind ELSE BindingSet(flow[f].acct, "failed", w)
       [] OTHER -> FlowEnds(f, "interrupted_unknown") /\ UNCHANGED bind
  /\ UNCHANGED <<row, snap, job, marked, pay, remote, restarts>>

\* The exception handler: the reservation is released, the row cancelled
\* unless another payer has it, and a reason that speaks of an OTP or of an
\* expired token is retried.
FlowFails(f) ==
  /\ FlowAt(f, "failing")
  /\ bind' = IF flow[f].acct = NoOne THEN bind ELSE BindingReleased(flow[f].acct, f)
  /\ row' = IF flow[f].bill # NoOne /\ ~flow[f].claimLost
              THEN SetStatusIfPending(flow[f].bill, "closed") ELSE row
  /\ \E retryable \in {FALSE, ~flow[f].claimLost} :
       flow' = [flow EXCEPT ![f].at = "done", ![f].status = "failed", ![f].again = retryable]
  /\ UNCHANGED <<snap, job, marked, pay, remote, restarts>>

\* Mutant: a payment that is not decided in time has failed.
RecheckGivesUp(f) ==
  LET status == job[flow[f].web] IN
  /\ FlowAt(f, "recheck")
  /\ FlowEnds(f, IF status \in {"success", "success_unreconciled"} THEN status ELSE "failed")
  /\ UNCHANGED vars

\* _watch_recovered_payment: only a final record counts; then give up.
RechecksPayment(f) ==
  LET status == job[flow[f].web] IN
  /\ FlowAt(f, "recheck")
  /\ FlowEnds(f, IF status \in {"success", "success_unreconciled", "failed"}
                   THEN status ELSE "interrupted_unknown")
  /\ UNCHANGED vars

\* _resume_interrupted_jobs: a flow that may have started its payment only
\* watches that payment's record, which the flow names once start has returned
\* and which is else found by its link; one that was choosing an account goes
\* on; one without a link is left as it is.
RecordsOf(b) == {w \in Web : Bill(w) = b /\ job[w] \notin {"none", "cleared"}}

Recovered(f) ==
  IF flow[f].bill = NoOne THEN {}
  ELSE IF flow[f].web # NoOne /\ ~FlowAt(f, "starting") THEN {flow[f].web}
  ELSE RecordsOf(flow[f].bill)

Resumed(f, w) ==
  LET r == flow[f] IN
  IF r.status \notin {"running", "interrupted_unknown"} THEN [r EXCEPT !.again = FALSE]
  ELSE IF r.bill = NoOne THEN [r EXCEPT !.at = "done"]
  ELSE IF w # NoOne THEN [r EXCEPT !.at = "recheck", !.web = w, !.claimLost = FALSE]
  ELSE IF r.acct = NoOne THEN [r EXCEPT !.at = "account"]
  ELSE [r EXCEPT !.at = "done", !.status = "interrupted_unknown", !.web = NoOne]

FlowRestart ==
  /\ Restart
  /\ \E rec \in [Flows -> Web \cup {NoOne}] :
       /\ \A f \in Flows :
            rec[f] \in IF Recovered(f) = {} THEN {NoOne} ELSE Recovered(f)
       /\ flow' = [f \in Flows |-> Resumed(f, rec[f])]

-----------------------------------------------------------------------------

FlowSteps(f) ==
  \/ GeneratesLink(f) \/ ReservesAccount(f) \/ PaymentStarted(f)
  \/ PollsPayment(f) \/ FlowFails(f) \/ RechecksPayment(f)
  \/ \E w \in Web : StartsPayment(f, w)

\* Every step of the inbox but its restart leaves the flows alone.
PaymentSteps ==
  \/ InboxSteps
  \/ \E p \in Payers : HeartbeatLoses(p)
  \/ \E w \in UserWeb : Requests(w)
  \/ \E w \in Web : StartSteps(w) \/ ThreadSteps(w)
  \/ \E c \in Cli : CliSteps(c) \/ CliDies(c) \/ \E b \in Bills : CliClaims(c, b)
  \/ ClearFinished

FlowNext ==
  \/ PaymentSteps /\ UNCHANGED flow
  \/ \E f \in Flows : FlowStarts(f) \/ FlowSteps(f) \/ \E g \in Flows : FlowRetries(f, g)
  \/ FlowRestart

FlowSpec == FlowInit /\ [][FlowNext]_flowVars

-----------------------------------------------------------------------------
(* Properties *)

\* The type invariant.
FlowTypeOK ==
  /\ TypeOK
  /\ flow \in [Flows ->
       [at : {"idle", "link", "account", "start", "starting", "watch",
              "failing", "recheck", "done"},
        status : {"none", "running", "failed", "success", "success_unreconciled",
                  "interrupted_unknown"},
        bill : Bills \cup {NoOne}, acct : Accounts \cup {NoOne},
        web : Web \cup {NoOne}, claimLost : BOOLEAN, again : BOOLEAN,
        passed : BOOLEAN]]

\* The payment of a flow may still settle, or has; once the bill has passed to
\* another payer, its transaction is that payer's.
Charged(f) ==
  /\ flow[f].web # NoOne
  /\ snap[flow[f].bill].owner = flow[f].web
  /\ pay[flow[f].web].charge
  /\ remote[flow[f].bill] \in {"pending", "settled"}

\* While the payment of one flow may settle or has settled, no other flow of
\* the address is on its way to a payment, by a retry or a new request: only
\* two of which start has passed over one, alive but silent for 900 s, may be.
OneChargePerAddress ==
  \A f, g \in {h \in Flows : ~flow[h].passed} :
    f # g /\ Charged(f) =>
      flow[g].at \notin {"link", "account", "start", "starting", "watch"}

\* What a flow tells of its payment is so: paid is settled, and the charge of
\* a flow that tells of a failure will not settle.
FlowTellsTruth ==
  \A f \in Flows :
    /\ flow[f].status \in {"success", "success_unreconciled"} =>
         remote[flow[f].bill] = "settled"
    /\ flow[f].status = "failed" => ~Charged(f)
=============================================================================
