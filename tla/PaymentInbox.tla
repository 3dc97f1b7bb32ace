---------------------------- MODULE PaymentInbox ----------------------------
(***************************************************************************)
(* The GoPay payment inbox (payment_inbox.py) and the command-line worker  *)
(* beside it (gopay_protocol_worker.py).                                   *)
(*                                                                         *)
(* A bill is a Midtrans link.  It has a row in the inbox, which is leased  *)
(* to the payer that works on it, and an entry in the Snap journal, a file *)
(* shared by all processes, which says who may charge it.  A payer is one  *)
(* attempt: a web payment job (a thread of the inbox server, with a record *)
(* on disk) or one job of the command-line worker (a process of its own).  *)
(* A web job also reserves the GoPay account it pays from.                 *)
(*                                                                         *)
(* A token of a lease (claimed_at) is fresh for each claim and renewal; a  *)
(* payer keeps only its latest, so the lease names the payer itself.       *)
(* Midtrans is external: `remote' is the transaction as Midtrans sees it.  *)
(***************************************************************************)
EXTENDS Naturals, FiniteSets

CONSTANTS
  Web,          \* web payment jobs, one attempt each
  UserWeb,      \* those that the user may ask for
  Cli,          \* jobs taken by the command-line worker, one attempt each
  Flows,        \* automatic flows, which reserve an account for a web job
  Bills,        \* Midtrans links, each with its Snap token
  Accounts,     \* GoPay accounts
  NoOne,        \* no payer, no bill, no account
  CliOwner,     \* what a command-line worker signs the journal with
  Stallers,     \* web jobs that may outlive their lease, see LeaseLapses
  MaxRestarts   \* bound: restarts of the inbox server

ASSUME PayersAssumption ==
  /\ NoOne \notin Web \cup Cli \cup Flows \cup Bills \cup Accounts
  /\ CliOwner \notin Web \cup {NoOne}
  /\ Web \cap Cli = {} /\ Web \cap Flows = {} /\ UserWeb \subseteq Web
  /\ Stallers \subseteq Web
  /\ MaxRestarts \in Nat

VARIABLES
  row,       \* the inbox rows: status and lease
  snap,      \* the Snap journal: status and owner of each bill
  bind,      \* midtrans_binding_* of each account: status, owner and order
  job,       \* status of the web payment records
  marked,    \* records with interrupted_from_status
  pay,       \* the payers' threads
  remote,    \* the transactions at Midtrans
  restarts

vars == <<row, snap, bind, job, marked, pay, remote, restarts>>

Payers == Web \cup Cli

\* The journal signs a web job by its id and a command-line job by the id of
\* the inbox row, which all command-line attempts at a bill share.
Owner(p) == IF p \in Web THEN p ELSE CliOwner

Retryable == {"failed", "fraud_denied"}
Untouched == [status |-> "none", owner |-> NoOne]
Unbound   == [status |-> "none", owner |-> NoOne, bill |-> NoOne]
Newcomer  == [at |-> "idle", bill |-> NoOne, acct |-> NoOne, prev |-> NoOne,
              via |-> "link", lost |-> FALSE, charge |-> FALSE,
              was |-> Untouched]

Init ==
  /\ row = [b \in Bills |-> [status |-> "absent", claim |-> NoOne]]
  /\ snap = [b \in Bills |-> Untouched]
  /\ bind = [a \in Accounts |-> Unbound]
  /\ job = [w \in Web |-> "none"]
  /\ marked = {}
  /\ pay = [p \in Payers |-> Newcomer]
  /\ remote = [b \in Bills |-> "open"]
  /\ restarts = 0

-----------------------------------------------------------------------------
(* The stores *)

At(p, s)    == pay[p].at = s
Bill(p)     == pay[p].bill
ViaRow(p)   == pay[p].via # "link"
Steps(p, s) == pay' = [pay EXCEPT ![p].at = s]
Ends(p)     == pay' = [pay EXCEPT ![p].at = "done", ![p].lost = FALSE, ![p].was = Untouched]

\* set_status_if_pending: only a pending row changes.
SetStatusIfPending(b, status) ==
  IF row[b].status = "pending" THEN [row EXCEPT ![b].status = status] ELSE row

\* release_claim with the caller's token.
ReleaseClaim(b, p) ==
  IF row[b].status = "pending" /\ row[b].claim = p
    THEN [row EXCEPT ![b].claim = NoOne] ELSE row

\* A lease (3600 s, at least 300 s) runs out only where nobody renews it: in a
\* preflight, after the end of the attempt, or once the heartbeat (60 s apart)
\* has given up and the payer takes longer than the rest of the lease.
LeaseLapses(p) ==
  \/ pay[p].at \in {"idle", "preflight", "done", "recover"}
  \/ /\ p \in Stallers /\ pay[p].lost
     /\ pay[p].at \in {"running", "checking", "linking", "charged"}

Claimable(b) ==
  /\ row[b].status = "pending"
  /\ row[b].claim # NoOne => LeaseLapses(row[b].claim)

\* renew_claim: compare and swap on the token.
OwnsClaim(b, p) == row[b].status = "pending" /\ row[b].claim = p

\* Mutant: whoever wants to link takes the bill over.
MayLinkAlways(b, status, p) ==
  \/ snap[b].owner \in {NoOne, Owner(p)}
  \/ status = "linking"

\* _update_persisted_snap_state refuses another owner, unless a new attempt
\* links a bill whose last attempt ended without a charge.
MayJournal(b, status, p) ==
  \/ snap[b].owner \in {NoOne, Owner(p)}
  \/ status = "linking" /\ snap[b].status \in Retryable

Journaled(b, status, p) ==
  IF MayJournal(b, status, p)
    THEN [snap EXCEPT ![b] = [status |-> status, owner |-> Owner(p)]] ELSE snap

\* _update_gopay_midtrans_binding_status: only for the job that owns it.
BindingSet(a, status, o) ==
  IF bind[a].owner = o THEN [bind EXCEPT ![a].status = status] ELSE bind

\* _release_gopay_midtrans_binding: only the owner's unused reservation.
BindingReleased(a, o) ==
  IF bind[a].owner = o /\ bind[a].status = "reserved"
    THEN [bind EXCEPT ![a] = Unbound] ELSE bind

\* Mutant: only how the account's last use ended counts.
MayBindUnlessUsed(a, o, b, prev) ==
  bind[a].status \notin {"success", "failed", "interrupted_unknown"}

\* _reserve_gopay_midtrans_binding: one account serves one order, and passes
\* from a flow to the web job the flow has started.
MayBind(a, o, b, prev) ==
  /\ bind[a].status \notin {"success", "failed", "interrupted_unknown"}
  /\ bind[a].bill \in {NoOne, b}
  /\ bind[a].owner \in {NoOne, o, prev}

Bound(a, o, b) ==
  [bind EXCEPT ![a] = [status |-> "reserved", owner |-> o, bill |-> b]]

\* A record that clear_finished has removed is not written any more.
JobSet(w, status) ==
  IF job[w] = "cleared" THEN job ELSE [job EXCEPT ![w] = status]

-----------------------------------------------------------------------------
(* The inbox *)

\* InboxStore.create, once the user or a flow has generated a link.
Create(b) ==
  /\ row[b].status = "absent"
  /\ row' = [row EXCEPT ![b].status = "pending"]
  /\ UNCHANGED <<snap, bind, job, marked, pay, remote, restarts>>

\* The user cancels the row or marks it paid, unchecked, or expire_overdue ends
\* it.  The column says paid of both "paid", which payers write, and "by_hand".
RowCloses(b) ==
  /\ row[b].status = "pending"
  /\ \E status \in {"closed", "by_hand"} : row' = [row EXCEPT ![b].status = status]
  /\ UNCHANGED <<snap, bind, job, marked, pay, remote, restarts>>

\* The heartbeat's renewal is refused, or fails for any other reason; it
\* gives up and raises the event `lost', which the payer polls.
HeartbeatLoses(p) ==
  /\ pay[p].at \in {"running", "checking", "linking", "charging", "charged"}
  /\ ViaRow(p)
  /\ ~pay[p].lost
  /\ pay' = [pay EXCEPT ![p].lost = TRUE]
  /\ UNCHANGED <<row, snap, bind, job, marked, remote, restarts>>

-----------------------------------------------------------------------------
(* Starting a web payment *)

\* A request to start: claim_and_start takes the next row, the page or a flow
\* names a row, or a link is given by hand.
Starts(w, b, a, prev, via) ==
  /\ At(w, "idle")
  /\ row[b].status # "absent"
  /\ via = "claim" => Claimable(b)
  /\ row' = IF via = "claim" THEN [row EXCEPT ![b].claim = w] ELSE row
  /\ pay' = [pay EXCEPT ![w].at = "preflight", ![w].bill = b, ![w].acct = a,
                        ![w].prev = prev, ![w].via = via]
  /\ UNCHANGED <<snap, bind, job, marked, remote, restarts>>

\* The preflight (PIN, proxy, balance, metadata, the account's binding) or the
\* renewal of the lease is refused; claim_and_start gives its lease back.
StartRefused(w) ==
  /\ At(w, "preflight")
  /\ row' = ReleaseClaim(Bill(w), w)
  /\ Ends(w)
  /\ UNCHANGED <<snap, bind, job, marked, remote, restarts>>

\* _renew_inbox_claim_before_payment: renew the lease, or take a free row.
RenewsClaim(w) ==
  /\ At(w, "preflight")
  /\ pay[w].via = "claim" => OwnsClaim(Bill(w), w)
  /\ pay[w].via = "row" => Claimable(Bill(w))
  /\ row' = IF ViaRow(w) THEN [row EXCEPT ![Bill(w)].claim = w] ELSE row
  /\ Steps(w, "reserve")
  /\ UNCHANGED <<snap, bind, job, marked, remote, restarts>>

\* _reserve_persisted_snap_state: only a bill never tried or one whose last
\* attempt ended before its charge; the old entry is kept for a roll-back.
ReservesSnap(w) ==
  /\ At(w, "reserve")
  /\ IF snap[Bill(w)].status \in Retryable \cup {"none"}
       THEN /\ pay' = [pay EXCEPT ![w].at = "bind", ![w].was = snap[Bill(w)]]
            /\ snap' = [snap EXCEPT ![Bill(w)] = [status |-> "running", owner |-> w]]
            /\ UNCHANGED row
       ELSE /\ Ends(w)
            /\ row' = ReleaseClaim(Bill(w), w)
            /\ UNCHANGED snap
  /\ UNCHANGED <<bind, job, marked, remote, restarts>>

\* _restore_persisted_snap_state: only the reservation still its own.
SnapRestored(w) ==
  IF snap[Bill(w)].owner = w THEN [snap EXCEPT ![Bill(w)] = pay[w].was] ELSE snap

\* The account is reserved, or start rolls the journal back.
ReservesBinding(w) ==
  /\ At(w, "bind")
  /\ IF MayBind(pay[w].acct, w, Bill(w), pay[w].prev)
       THEN /\ bind' = Bound(pay[w].acct, w, Bill(w))
            /\ Steps(w, "launch")
            /\ UNCHANGED <<row, snap>>
       ELSE /\ snap' = SnapRestored(w)
            /\ row' = ReleaseClaim(Bill(w), w)
            /\ Ends(w)
            /\ UNCHANGED bind
  /\ UNCHANGED <<job, marked, remote, restarts>>

\* The record is saved and the thread started.
Launches(w) ==
  /\ At(w, "launch")
  /\ job' = [job EXCEPT ![w] = "running"]
  /\ Steps(w, "running")
  /\ UNCHANGED <<row, snap, bind, marked, remote, restarts>>

\* The save or the start of the thread fails: _rollback_start_locked.
LaunchFails(w) ==
  /\ At(w, "launch")
  /\ snap' = SnapRestored(w)
  /\ bind' = BindingReleased(pay[w].acct, w)
  /\ row' = ReleaseClaim(Bill(w), w)
  /\ Ends(w)
  /\ UNCHANGED <<job, marked, remote, restarts>>

-----------------------------------------------------------------------------
(* The payment thread, _WebPaymentManager._run, and GoPayPayment.pay *)

\* The second preflight raises, which the generic handler catches.
ThreadFails(w) ==
  /\ At(w, "running")
  /\ Steps(w, "erring")
  /\ UNCHANGED <<row, snap, bind, job, marked, remote, restarts>>

\* The lease is checked and the journal says linking.
BeginsLinking(w) ==
  /\ At(w, "running")
  /\ IF pay[w].lost
       THEN Steps(w, "lost") /\ UNCHANGED snap
       ELSE Steps(w, "linking") /\ snap' = Journaled(Bill(w), "linking", w)
  /\ UNCHANGED <<row, bind, job, marked, remote, restarts>>

\* Linking the account ends with a result (failing) or an exception (erring),
\* or a callback (OTP, CAPTCHA) finds the lease lost.  Progress notes raise it
\* too, but pay swallows what they raise.
LinkFails(p) ==
  /\ At(p, "linking")
  /\ \/ Steps(p, "failing")
     \/ Steps(p, "erring")
     \/ pay[p].lost /\ Steps(p, "lost")
  /\ UNCHANGED <<row, snap, bind, job, marked, remote, restarts>>

\* _wait_otp runs into its timeout and already marks the record failed.
OtpTimesOut(w) ==
  /\ At(w, "linking")
  /\ job' = JobSet(w, "failed")
  /\ Steps(w, "failing")
  /\ UNCHANGED <<row, snap, bind, marked, remote, restarts>>

\* Step 9: the note puts the start of the charge on record, unless the lease
\* is known to be lost.  The command-line worker journals it.
Links(p) ==
  /\ At(p, "linking")
  /\ pay' = [pay EXCEPT ![p].at = "charging", ![p].charge = ~pay[p].lost]
  /\ snap' = IF p \in Cli /\ ~pay[p].lost
               THEN Journaled(Bill(p), "charging", p) ELSE snap
  /\ UNCHANGED <<row, bind, job, marked, remote, restarts>>

\* before_charge looks at the lease once more; then the charge goes out.  A
\* transaction that is pending or settled does not change.
Charges(p) ==
  /\ At(p, "charging")
  /\ IF pay[p].lost
       THEN Steps(p, "lost") /\ UNCHANGED remote
       ELSE /\ Steps(p, "charged")
            /\ IF remote[Bill(p)] \in {"open", "denied"}
                 THEN \E s \in {remote[Bill(p)], "pending", "settled", "denied"} :
                        remote' = [remote EXCEPT ![Bill(p)] = s]
                 ELSE UNCHANGED remote
  /\ UNCHANGED <<row, snap, bind, job, marked, restarts>>

\* The charge and its challenge end: paid or denied as Midtrans says, or with
\* a failure or an exception that says nothing about the transaction.
ChargeEnds(p) ==
  /\ At(p, "charged")
  /\ \/ remote[Bill(p)] = "settled" /\ Steps(p, "paid")
     \/ remote[Bill(p)] = "denied"  /\ Steps(p, "denied")
     \/ Steps(p, "failing")
     \/ Steps(p, "erring")
  /\ UNCHANGED <<row, snap, bind, job, marked, remote, restarts>>

\* Midtrans settles or rejects a pending transaction, and open ones expire.
RemoteMoves(b) ==
  /\ \/ remote[b] = "pending" /\ remote' = [remote EXCEPT ![b] = "settled"]
     \/ remote[b] \in {"open", "pending"} /\ remote' = [remote EXCEPT ![b] = "denied"]
  /\ UNCHANGED <<row, snap, bind, job, marked, pay, restarts>>

-----------------------------------------------------------------------------
(* The end of a web payment *)

\* Mutant: a result that says failure is taken at its word.
WebFailsPlainly(w) ==
  /\ pay[w].at \in {"failing", "erring"}
  /\ Steps(w, "closing")
  /\ snap' = Journaled(Bill(w), "failed", w)
  /\ UNCHANGED <<row, bind, job, marked, remote, restarts>>

\* A failure: if the charge may have gone out the outcome is unknown.  The
\* handler of a result looks for the record first, and does nothing without.
WebFails(w) ==
  /\ pay[w].at \in {"failing", "erring"}
  /\ CASE pay[w].charge -> Steps(w, "unknown") /\ UNCHANGED snap
       [] ~pay[w].charge /\ At(w, "failing") /\ job[w] = "cleared"
            -> Ends(w) /\ UNCHANGED snap
       [] OTHER -> /\ Steps(w, IF At(w, "failing") THEN "cancelling" ELSE "closing")
                   /\ snap' = Journaled(Bill(w), "failed", w)
  /\ UNCHANGED <<row, bind, job, marked, remote, restarts>>

\* Binding and record follow the journal; the handler of a result, and the
\* recovery, cancel the inbox row as well.
WebCloses(w) ==
  /\ pay[w].at \in {"cancelling", "closing"}
  /\ bind' = BindingSet(pay[w].acct, "failed", w)
  /\ row' = IF At(w, "cancelling") /\ ViaRow(w)
              THEN SetStatusIfPending(Bill(w), "closed") ELSE row
  /\ job' = JobSet(w, "failed")
  /\ Ends(w)
  /\ UNCHANGED <<snap, marked, remote, restarts>>

\* GoPayFraudDenyError: the bill may be tried again, the account may not.
WebDenied(w) ==
  /\ At(w, "denied")
  /\ snap' = Journaled(Bill(w), "fraud_denied", w)
  /\ Steps(w, "closing")
  /\ UNCHANGED <<row, bind, job, marked, remote, restarts>>

\* PaymentClaimLostError: before the charge the bill is left to the next
\* payer, and the inbox row is not touched.
WebLosesClaim(w) ==
  /\ At(w, "lost")
  /\ IF pay[w].charge
       THEN Steps(w, "unknown") /\ UNCHANGED snap
       ELSE Steps(w, "releasing") /\ snap' = Journaled(Bill(w), "failed", w)
  /\ UNCHANGED <<row, bind, job, marked, remote, restarts>>

\* The record keeps the reason: `lost' stays set.
WebReleases(w) ==
  /\ At(w, "releasing")
  /\ bind' = BindingReleased(pay[w].acct, w)
  /\ job' = JobSet(w, "failed")
  /\ pay' = [pay EXCEPT ![w].at = "done", ![w].was = Untouched]
  /\ UNCHANGED <<row, snap, marked, remote, restarts>>

\* _mark_recovery_unknown: journal first, then binding and record.
MarksUnknown(w) ==
  /\ At(w, "unknown")
  /\ snap' = Journaled(Bill(w), "interrupted_unknown", w)
  /\ Steps(w, "parking")
  /\ UNCHANGED <<row, bind, job, marked, remote, restarts>>

Parks(w) ==
  /\ At(w, "parking")
  /\ bind' = BindingSet(pay[w].acct, "interrupted_unknown", w)
  /\ job' = JobSet(w, "interrupted_unknown")
  /\ Ends(w)
  /\ UNCHANGED <<row, snap, marked, remote, restarts>>

\* _finalize_remote_success: the record says so first, then the journal.
RecordsSuccess(w) ==
  /\ At(w, "paid")
  /\ job' = JobSet(w, "success_unreconciled")
  /\ Steps(w, "journaling")
  /\ UNCHANGED <<row, snap, bind, marked, remote, restarts>>

JournalsSuccess(w) ==
  /\ At(w, "journaling")
  /\ snap' = Journaled(Bill(w), "success", w)
  /\ Steps(w, "reconciling")
  /\ UNCHANGED <<row, bind, job, marked, remote, restarts>>

\* Binding, inbox row and the release of the SMS number; the record stays
\* unreconciled when one of the stores refused or the release failed.
Reconciles(w) ==
  /\ At(w, "reconciling")
  /\ bind' = BindingSet(pay[w].acct, "success", w)
  /\ row' = IF ViaRow(w) THEN SetStatusIfPending(Bill(w), "paid") ELSE row
  /\ \E smsReleased \in BOOLEAN :
       LET reconciled == /\ snap[Bill(w)] = [status |-> "success", owner |-> w]
                         /\ bind'[pay[w].acct].owner = w
                         /\ ViaRow(w) => row'[Bill(w)].status \in {"paid", "by_hand"}
                         /\ smsReleased
       IN job' = JobSet(w, IF reconciled THEN "success" ELSE "success_unreconciled")
  /\ Ends(w)
  /\ UNCHANGED <<snap, marked, remote, restarts>>

-----------------------------------------------------------------------------
(* The command-line worker, _claim_job and _pay_job *)

CliClaims(c, b) ==
  /\ At(c, "idle")
  /\ Claimable(b)
  /\ row' = [row EXCEPT ![b].claim = c]
  /\ pay' = [pay EXCEPT ![c].at = "claimed", ![c].bill = b, ![c].via = "claim"]
  /\ UNCHANGED <<snap, bind, job, marked, remote, restarts>>

\* Too little time is left on the row, or the first renewal is refused or
\* cannot be verified; or the lease is renewed and its heartbeat started.
CliRenews(c) ==
  /\ At(c, "claimed")
  /\ \/ Steps(c, "reporting_failure")
     \/ Ends(c)
     \/ OwnsClaim(Bill(c), c) /\ Steps(c, "checking")
  /\ UNCHANGED <<row, snap, bind, job, marked, remote, restarts>>

\* Mutant: a bill whose charge has gone out passes for a paid one.
CliTrustsCharge(c) ==
  LET status == snap[Bill(c)].status IN
  /\ At(c, "checking")
  /\ \/ Steps(c, "reporting_failure")
     \/ status \in {"success", "charging"} /\ Steps(c, "reporting_success")
     \/ status \in {"none", "failed"} /\ Steps(c, "claiming_bill")
  /\ UNCHANGED <<row, snap, bind, job, marked, remote, restarts>>

\* The preflight fails, or the journal decides: a bill already paid is only
\* reported, any other entry but a plain failure is left to a person.
CliChecks(c) ==
  LET status == snap[Bill(c)].status IN
  /\ At(c, "checking")
  /\ \/ Steps(c, "reporting_failure")
     \/ status = "success" /\ Steps(c, "reporting_success")
     \/ status \in {"none", "failed"} /\ Steps(c, "claiming_bill")
  /\ UNCHANGED <<row, snap, bind, job, marked, remote, restarts>>

\* The journal must say linking before the account is linked.
CliBeginsLinking(c) ==
  /\ At(c, "claiming_bill")
  /\ snap' = Journaled(Bill(c), "linking", c)
  /\ Steps(c, IF MayJournal(Bill(c), "linking", c) THEN "linking" ELSE "reporting_failure")
  /\ UNCHANGED <<row, bind, job, marked, remote, restarts>>

CliFails(c) ==
  /\ pay[c].at \in {"failing", "erring"}
  /\ snap' = Journaled(Bill(c), IF pay[c].charge THEN "interrupted_unknown" ELSE "failed", c)
  /\ Steps(c, "reporting_failure")
  /\ UNCHANGED <<row, bind, job, marked, remote, restarts>>

CliDenied(c) ==
  /\ At(c, "denied")
  /\ snap' = Journaled(Bill(c), "fraud_denied", c)
  /\ Steps(c, "reporting_failure")
  /\ UNCHANGED <<row, bind, job, marked, remote, restarts>>

\* A stale worker leaves the row to the owner of the newer lease.
CliLosesClaim(c) ==
  /\ At(c, "lost")
  /\ snap' = Journaled(Bill(c), IF pay[c].charge THEN "interrupted_unknown" ELSE "failed", c)
  /\ Ends(c)
  /\ UNCHANGED <<row, bind, job, marked, remote, restarts>>

CliPaid(c) ==
  /\ At(c, "paid")
  /\ snap' = Journaled(Bill(c), "success", c)
  /\ Steps(c, "reporting_success")
  /\ UNCHANGED <<row, bind, job, marked, remote, restarts>>

\* PUT /api/jobs/<id>/paid or /cancel; a request that fails is not repeated.
CliReports(c) ==
  /\ \/ /\ At(c, "reporting_failure")
        /\ row' = SetStatusIfPending(Bill(c), "closed")
     \/ /\ At(c, "reporting_success")
        /\ row' = SetStatusIfPending(Bill(c), "paid")
     \/ /\ pay[c].at \in {"reporting_failure", "reporting_success"}
        /\ UNCHANGED row
  /\ Ends(c)
  /\ UNCHANGED <<snap, bind, job, marked, remote, restarts>>

CliDies(c) ==
  /\ pay[c].at \notin {"idle", "done"}
  /\ Ends(c)
  /\ UNCHANGED <<row, snap, bind, job, marked, remote, restarts>>

-----------------------------------------------------------------------------
(* Restart and recovery of the inbox server *)

Interrupted == {w \in Web : job[w] = "running"}
Unresolved  == {"running", "interrupted_unknown", "success_unreconciled"}

\* The threads are gone.  Records that were running become interrupted_unknown
\* and are marked; if there was one, the journal entry of every marked record
\* is set to interrupted_unknown.  Unresolved records get a recovery thread.
Restart ==
  /\ restarts < MaxRestarts
  /\ restarts' = restarts + 1
  /\ marked' = marked \cup Interrupted
  /\ job' = [w \in Web |-> IF w \in Interrupted THEN "interrupted_unknown" ELSE job[w]]
  /\ snap' = [b \in Bills |->
       IF Interrupted # {} /\ \E w \in marked' : job[w] # "cleared" /\ Bill(w) = b /\ snap[b].owner = w
         THEN [snap[b] EXCEPT !.status = "interrupted_unknown"] ELSE snap[b]]
  /\ pay' = [p \in Payers |->
       IF p \in Cli \/ At(p, "idle") THEN pay[p]
       ELSE [pay[p] EXCEPT !.at = IF job[p] \in Unresolved THEN "recover" ELSE "done",
                           !.lost = FALSE, !.was = Untouched]]
  /\ UNCHANGED <<row, bind, remote>>

\* _resume_interrupted_job: finish what is known to be paid, otherwise ask
\* Midtrans; a pending charge may be completed, but never charged again.
Recovers(w) ==
  /\ At(w, "recover")
  /\ \/ /\ job[w] = "success_unreconciled" \/ remote[Bill(w)] = "settled"
        /\ Steps(w, "paid")
        /\ UNCHANGED snap
     \/ /\ job[w] # "success_unreconciled"
        /\ remote[Bill(w)] = "denied"
        /\ snap' = Journaled(Bill(w), "failed", w)
        /\ Steps(w, "cancelling")
     \/ /\ job[w] # "success_unreconciled"
        /\ Steps(w, "unknown")
        /\ UNCHANGED snap
  /\ UNCHANGED <<row, bind, job, marked, remote, restarts>>

\* clear_finished removes the records with a final status.
ClearFinished ==
  /\ \E w \in Web : job[w] \in {"success", "failed"}
  /\ job' = [w \in Web |-> IF job[w] \in {"success", "failed"} THEN "cleared" ELSE job[w]]
  /\ UNCHANGED <<row, snap, bind, marked, pay, remote, restarts>>

-----------------------------------------------------------------------------

\* The user's requests: a row, or a link with or without its row.
Requests(w) ==
  \E b \in Bills, a \in Accounts, via \in {"link", "row", "claim"} :
    Starts(w, b, a, NoOne, via)

StartSteps(w) ==
  \/ StartRefused(w) \/ RenewsClaim(w) \/ ReservesSnap(w)
  \/ ReservesBinding(w) \/ Launches(w) \/ LaunchFails(w)

PayStep(p) == LinkFails(p) \/ Links(p) \/ Charges(p) \/ ChargeEnds(p)

ThreadSteps(w) ==
  \/ ThreadFails(w) \/ BeginsLinking(w) \/ OtpTimesOut(w) \/ PayStep(w)
  \/ WebFails(w) \/ WebCloses(w) \/ WebDenied(w) \/ WebLosesClaim(w)
  \/ WebReleases(w) \/ MarksUnknown(w) \/ Parks(w) \/ RecordsSuccess(w)
  \/ JournalsSuccess(w) \/ Reconciles(w) \/ Recovers(w)

CliSteps(c) ==
  \/ CliRenews(c) \/ CliChecks(c) \/ CliBeginsLinking(c) \/ PayStep(c)
  \/ CliFails(c) \/ CliDenied(c) \/ CliLosesClaim(c) \/ CliPaid(c) \/ CliReports(c)

InboxSteps == \E b \in Bills : Create(b) \/ RowCloses(b) \/ RemoteMoves(b)

Next ==
  \/ InboxSteps
  \/ \E p \in Payers : HeartbeatLoses(p)
  \/ \E w \in UserWeb : Requests(w)
  \/ \E w \in Web : StartSteps(w) \/ ThreadSteps(w)
  \/ \E c \in Cli : CliSteps(c) \/ CliDies(c) \/ \E b \in Bills : CliClaims(c, b)
  \/ Restart
  \/ ClearFinished

Spec == Init /\ [][Next]_vars

-----------------------------------------------------------------------------
(* Properties *)

Phases == {"idle", "preflight", "reserve", "bind", "launch", "running",
  "linking", "charging", "charged", "failing", "erring", "lost", "denied",
  "paid", "unknown", "cancelling", "closing", "releasing", "parking",
  "journaling", "reconciling", "recover", "done", "claimed", "checking",
  "claiming_bill", "reporting_failure", "reporting_success"}

JournalStatuses == {"none", "running", "linking", "charging", "failed",
  "fraud_denied", "interrupted_unknown", "success"}

Entry == [status : JournalStatuses, owner : Web \cup {CliOwner, NoOne}]

\* The type invariant.
TypeOK ==
  /\ row \in [Bills -> [status : {"absent", "pending", "paid", "by_hand", "closed"},
                        claim : Payers \cup {NoOne}]]
  /\ snap \in [Bills -> Entry]
  /\ bind \in [Accounts -> [status : {"none", "reserved", "failed", "success",
                                      "interrupted_unknown"},
                            owner : Web \cup Flows \cup {NoOne},
                            bill : Bills \cup {NoOne}]]
  /\ job \in [Web -> {"none", "running", "failed", "interrupted_unknown",
                      "success_unreconciled", "success", "cleared"}]
  /\ marked \subseteq Web
  /\ pay \in [Payers -> [at : Phases, bill : Bills \cup {NoOne},
                         acct : Accounts \cup {NoOne}, prev : Flows \cup {NoOne},
                         via : {"link", "row", "claim"}, lost : BOOLEAN,
                         charge : BOOLEAN, was : Entry]]
  /\ remote \in [Bills -> {"open", "pending", "settled", "denied"}]
  /\ restarts \in 0..MaxRestarts

\* A charge request goes out only if Midtrans has rejected the transaction or
\* no other attempt, of any process and before any restart, has come to the
\* charge of the same bill (start, _pay_job, before_charge).
ChargedOnce ==
  [][\A p \in Payers : At(p, "charging") /\ pay'[p].at = "charged" =>
       \/ remote[Bill(p)] = "denied"
       \/ \A q \in Payers \ {p} : Bill(q) = Bill(p) => ~pay[q].charge]_vars

\* While a charge is pending or settled at Midtrans, the journal never offers
\* the bill to another attempt, whatever fails, restarts or loses its lease.
JournalHoldsCharge ==
  \A b \in Bills : remote[b] \in {"pending", "settled"} =>
    snap[b].status \notin Retryable \cup {"none"}

\* What a payer stores as paid is paid: journal, inbox row, account and record
\* say so only of a transaction that Midtrans has settled.  Of a row that a
\* person marked nothing is known.
PaidIsSettled ==
  /\ \A b \in Bills : snap[b].status = "success" \/ row[b].status = "paid" =>
       remote[b] = "settled"
  /\ \A a \in Accounts : bind[a].status = "success" => remote[bind[a].bill] = "settled"
  /\ \A w \in Web : job[w] \in {"success", "success_unreconciled"} =>
       remote[Bill(w)] = "settled"

\* Two web payments that may still charge never use the same GoPay account.
AccountExclusive ==
  \A v, w \in Web :
    /\ v # w
    /\ {pay[v].at, pay[w].at} \subseteq {"launch", "running", "linking", "charging", "charged"}
    => pay[v].acct # pay[w].acct

\* Nothing that w has charged will settle for w: it has come to no charge, or
\* Midtrans has rejected the transaction, or the bill has passed to another.
Quiet(w) == pay[w].charge => snap[Bill(w)].owner # w \/ remote[Bill(w)] = "denied"

\* And w will not charge any more, nor take its record up again.
Ended(w) ==
  /\ Quiet(w)
  /\ job[w] \in {"failed", "cleared"}
  /\ \/ At(w, "failing") /\ ~pay[w].charge
     \/ pay[w].at \in {"cancelling", "closing", "done"}

\* A record that says failed can be believed, also where it says so before its
\* thread has ended (_wait_otp): nothing of that payment will settle any more,
\* whatever its lease, a restart or a recovery may do.
FailedIsOver == \A w \in Web : job[w] = "failed" => Ended(w)

\* A finished record's success in the journal is not taken back: the docstring
\* of _finalize_remote_success, "without letting cleanup downgrade it".
SuccessStays ==
  [][\A b \in Bills : snap[b].status = "success" => snap'[b].status = "success"]_vars
=============================================================================
