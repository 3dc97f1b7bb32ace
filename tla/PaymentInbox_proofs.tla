------------------------ MODULE PaymentInbox_proofs ------------------------
(***************************************************************************)
(* The safety properties of PaymentInbox, for any payers, bills, accounts  *)
(* and number of restarts.                                                 *)
(***************************************************************************)
EXTENDS PaymentInbox, TLAPS

RowType == [status : {"absent", "pending", "paid", "by_hand", "closed"},
            claim : Payers \cup {NoOne}]
BindType == [status : {"none", "reserved", "failed", "success", "interrupted_unknown"},
             owner : Web \cup Flows \cup {NoOne}, bill : Bills \cup {NoOne}]
JobStatuses == {"none", "running", "failed", "interrupted_unknown",
                "success_unreconciled", "success", "cleared"}
PayType == [at : Phases, bill : Bills \cup {NoOne}, acct : Accounts \cup {NoOne},
            prev : Flows \cup {NoOne}, via : {"link", "row", "claim"}, lost : BOOLEAN,
            charge : BOOLEAN, was : Entry]

(***************************************************************************)
(* The inductive invariant.                                                *)
(***************************************************************************)

WebPhases == {"idle", "preflight", "reserve", "bind", "launch", "running",
  "linking", "charging", "charged", "failing", "erring", "lost", "denied",
  "paid", "unknown", "cancelling", "closing", "releasing", "parking",
  "journaling", "reconciling", "recover", "done"}
CliPhases == {"idle", "claimed", "checking", "claiming_bill", "linking",
  "charging", "charged", "failing", "erring", "lost", "denied", "paid",
  "reporting_failure", "reporting_success", "done"}

\* Before the charge; on the way to it or from it with the journal's entry in
\* hand; with the account in hand; after a payment.
Early     == {"idle", "preflight", "reserve", "bind", "launch", "running",
              "linking", "claimed", "checking", "claiming_bill"}
Holding   == {"bind", "launch", "running", "linking", "charging", "charged",
              "failing", "erring", "lost", "denied"}
Occupying == {"launch", "running", "linking", "charging", "charged"}
Settling  == {"paid", "journaling", "reconciling", "reporting_success"}

\* A bill whose entry is free may be tried (again).
Free       == Retryable \cup {"none"}
EntryOK(e) == e.owner = NoOne => e.status = "none"

\* What a payer's place says of its record.
PayerOK(p) ==
  /\ p \in Web => pay[p].at \in WebPhases
  /\ p \in Cli => pay[p].at \in CliPhases
  /\ ~At(p, "idle") => Bill(p) \in Bills
  /\ p \in Web /\ ~At(p, "idle") => pay[p].acct \in Accounts
  /\ pay[p].at \in Early => ~pay[p].charge
  /\ At(p, "charging") => pay[p].charge \/ pay[p].lost
  /\ At(p, "charged") => pay[p].charge
  /\ pay[p].at \in {"bind", "launch"} => pay[p].was.status \in Free
  /\ EntryOK(pay[p].was)

\* A command-line attempt has the lease of its row as long as the row is
\* pending, and is alone with its bill.
Working(c) == c \in Cli /\ pay[c].at \notin {"idle", "done"}

ClaimInv ==
  /\ \A c \in Cli : Working(c) =>
       /\ row[Bill(c)].status # "absent"
       /\ row[Bill(c)].status = "pending" => row[Bill(c)].claim = c
  /\ \A c, d \in Cli : Working(c) /\ Working(d) /\ Bill(c) = Bill(d) => c = d

\* No payment of b is on its way: no payer but those of ps has come to its
\* charge, or Midtrans has rejected the transaction.
Clean(b, ps) ==
  /\ remote[b] \in {"open", "denied"}
  /\ \A q \in Payers \ ps : Bill(q) = b /\ pay[q].charge => remote[b] = "denied"

\* Who holds the entry of a bill is named in it, and until it charges no
\* payment of the bill is on its way; nor is one while the entry is free.
HoldInv ==
  \A p \in Payers : pay[p].at \in Holding =>
    /\ snap[Bill(p)].owner = Owner(p)
    /\ snap[Bill(p)].status \notin Free
    /\ ~pay[p].charge \/ At(p, "charging") => Clean(Bill(p), {p})
    /\ At(p, "denied") => remote[Bill(p)] = "denied"

FreeInv ==
  /\ \A b \in Bills : EntryOK(snap[b])
  /\ \A b \in Bills : snap[b].status \in Free => Clean(b, {})

\* What a command-line attempt has read in the journal is still so when it
\* writes, unless a web payment has written in between.
ReadInv ==
  \A c \in Cli : At(c, "claiming_bill") /\ snap[Bill(c)].owner = CliOwner =>
    snap[Bill(c)].status \in Free

\* Who occupies an account is named in its binding, with its bill.
BindInv ==
  /\ \A w \in Web : pay[w].at \in Occupying => bind[pay[w].acct].owner = w
  /\ \A a \in Accounts : bind[a].owner \in Web =>
       ~At(bind[a].owner, "idle") /\ bind[a].bill = Bill(bind[a].owner)
  /\ \A a \in Accounts : bind[a].status = "success" => bind[a].bill \in Bills
  /\ \A w \in Web : job[w] # "none" => ~At(w, "idle")

SettledInv ==
  /\ PaidIsSettled
  /\ \A p \in Payers : pay[p].at \in Settling => remote[Bill(p)] = "settled"

InboxInv ==
  /\ TypeOK
  /\ \A p \in Payers : PayerOK(p)
  /\ ClaimInv /\ HoldInv /\ FreeInv /\ ReadInv /\ BindInv /\ SettledInv

-----------------------------------------------------------------------------
(* The step of one payer, taken apart *)

\* The payer p, at work, comes to s on the same bill and account.
Goes(p, s) ==
  /\ pay[p].at \notin {"idle", "done"}
  /\ pay'[p].at = s /\ s # "idle"
  /\ pay'[p].bill = pay[p].bill /\ pay'[p].acct = pay[p].acct
  /\ \A q \in Payers \ {p} : pay'[q] = pay[q]

\* What a step leaves to the flows, which watch the inbox: their reservations,
\* the bills of the payments they have started, and what is settled.
Kept ==
  /\ \A a \in Accounts : bind'[a].owner \in Flows =>
       bind'[a].owner = bind[a].owner /\ bind'[a].bill = bind[a].bill
  /\ \A w \in Web : pay[w].at # "idle" => pay'[w].at # "idle" /\ pay'[w].bill = pay[w].bill
  /\ \A b \in Bills : remote[b] = "settled" => remote'[b] = "settled"

\* It comes to a place where its record is in order.
PlaceOK(p, s) ==
  /\ p \in Web => s \in WebPhases
  /\ p \in Cli => s \in CliPhases
  /\ s \in Early => ~pay'[p].charge
  /\ s = "charging" => pay'[p].charge \/ pay'[p].lost
  /\ s = "charged" => pay'[p].charge
  /\ s \in {"bind", "launch"} => pay'[p].was.status \in Free
  /\ EntryOK(pay'[p].was)

\* It changes no lease of a command-line attempt at work.
RowTame ==
  \A b \in Bills :
    \/ row'[b] = row[b]
    \/ row[b].status = "absent"
    \/ row'[b].status \in {"paid", "closed"}
    \/ row'[b].status = row[b].status /\ ~Working(row[b].claim)

\* It leaves the journal and Midtrans alone.
JournalKept(p, s) ==
  /\ snap' = snap /\ remote' = remote /\ pay'[p].charge = pay[p].charge
  /\ s \in Holding => pay[p].at \in Holding
  /\ s = "denied" => remote[Bill(p)] = "denied"
  /\ s = "charging" => At(p, "charging")
  /\ s = "claiming_bill" => snap[Bill(p)].status \in Free

\* Or it writes the entry of its bill, which was its own or free: its own name,
\* or what it had found there.
JournalWritten(p, s, e) ==
  /\ remote' = remote /\ pay'[p].charge = pay[p].charge
  /\ snap' = [snap EXCEPT ![Bill(p)] = e]
  /\ snap[Bill(p)].owner \in {NoOne, Owner(p)} \/ snap[Bill(p)].status \in Free
  /\ EntryOK(e) /\ (e.owner = Owner(p) \/ e.status \in Free)
  /\ e.status \in Free => Clean(Bill(p), {})
  /\ s \in Holding => /\ e.owner = Owner(p) /\ e.status \notin Free
                      /\ s \notin {"denied", "charging"} /\ Clean(Bill(p), {p})
  /\ s # "claiming_bill"

\* Or it goes on with the bill it holds, to the charge and through it.
JournalOwned(p, s) ==
  /\ pay[p].at \in Holding /\ s \in Holding \ {"denied"}
  /\ \A b \in Bills \ {Bill(p)} : snap'[b] = snap[b] /\ remote'[b] = remote[b]
  /\ snap'[Bill(p)].owner = Owner(p) /\ snap'[Bill(p)].status \notin Free
  /\ ~pay'[p].charge \/ s = "charging" =>
       /\ ~pay[p].charge \/ At(p, "charging")
       /\ remote'[Bill(p)] = remote[Bill(p)]

\* It gives up no account that it goes on to use, and takes none.
BindTame(p, s) ==
  /\ p \in Web /\ s \in Occupying => pay[p].at \in Occupying /\ bind' = bind
  /\ \A a \in Accounts :
       \/ bind'[a].owner = bind[a].owner /\ bind'[a].bill = bind[a].bill
       \/ bind'[a].owner = NoOne /\ bind[a].owner = p
  /\ \A w \in Web : job'[w] # "none" => job[w] # "none" \/ w = p

\* Or it takes the account it was given, if nobody occupies it.
BindTaken(w, s) ==
  /\ w \in Web /\ job' = job
  /\ bind' = Bound(pay[w].acct, w, Bill(w))
  /\ \A v \in Web \ {w} : bind[pay[w].acct].owner # v

\* What it stores as paid is settled, and what is settled stays so.
SettledTame(p, s) ==
  /\ \A b \in Bills : remote[b] = "settled" => remote'[b] = "settled"
  /\ s \in Settling => pay[p].at \in Settling \/ remote[Bill(p)] = "settled"
  /\ \A b \in Bills : row'[b].status = "paid" => row[b].status = "paid" \/ remote[b] = "settled"
  /\ \A b \in Bills : snap'[b].status = "success" =>
       snap[b].status = "success" \/ remote[b] = "settled"
  /\ \A a \in Accounts : bind'[a].status = "success" =>
       /\ bind'[a].bill = bind[a].bill
       /\ bind[a].status = "success" \/ (bind[a].owner = p /\ p \in Web /\ remote[Bill(p)] = "settled")
  /\ \A w \in Web : job'[w] \in {"success", "success_unreconciled"} =>
       \/ job[w] \in {"success", "success_unreconciled"}
       \/ w = p /\ remote[Bill(p)] = "settled"

-----------------------------------------------------------------------------
(* Each invariant under such a step *)

LEMMA PayFacts ==
  ASSUME InboxInv, NEW p \in Payers
  PROVE  /\ pay \in [Payers -> PayType] /\ pay[p] \in PayType /\ PayerOK(p)
         /\ p \in Web \/ p \in Cli
BY DEF InboxInv, TypeOK, PayType, Payers

LEMMA PlacesKept ==
  ASSUME InboxInv, NEW p \in Payers, NEW s, Goes(p, s), PlaceOK(p, s)
  PROVE  \A q \in Payers : PayerOK(q)'
<1>1. PayerOK(p)'
  BY PayFacts DEF Goes, PlaceOK, PayerOK, At, Bill
<1>2. ASSUME NEW q \in Payers, q # p PROVE PayerOK(q)'
  <2>1. pay'[q] = pay[q] /\ PayerOK(q)
    BY <1>2, PayFacts DEF Goes
  <2> QED BY <2>1 DEF PayerOK, At, Bill
<1> QED BY <1>1, <1>2

LEMMA ClaimsKept ==
  ASSUME InboxInv, NEW p \in Payers, NEW s, Goes(p, s), RowTame
  PROVE  ClaimInv'
<1>1. \A c \in Cli : Working(c)' => Working(c) /\ pay'[c].bill = pay[c].bill /\ pay[c].bill \in Bills
  <2> SUFFICES ASSUME NEW c \in Cli, Working(c)'
               PROVE  Working(c) /\ pay'[c].bill = pay[c].bill /\ pay[c].bill \in Bills
    OBVIOUS
  <2>1. c \in Payers /\ PayerOK(c)
    BY PayFacts DEF Payers
  <2>2. Working(c) /\ pay'[c].bill = pay[c].bill
    <3>1. CASE c = p
      BY <3>1 DEF Goes, Working
    <3>2. CASE c # p
      BY <2>1, <3>2 DEF Goes, Working
    <3> QED BY <3>1, <3>2
  <2> QED BY <2>1, <2>2 DEF PayerOK, Working, At, Bill
<1>2. ClaimInv
  BY DEF InboxInv
<1>3. ASSUME NEW c \in Cli, Working(c)'
      PROVE  /\ row'[pay'[c].bill].status # "absent"
             /\ row'[pay'[c].bill].status = "pending" => row'[pay'[c].bill].claim = c
  <2>1. Working(c) /\ pay'[c].bill = pay[c].bill /\ pay[c].bill \in Bills
    BY <1>1, <1>3
  <2>2. /\ row[pay[c].bill].status # "absent"
        /\ row[pay[c].bill].status = "pending" => row[pay[c].bill].claim = c
    BY <1>2, <2>1 DEF ClaimInv, Bill
  <2> QED BY <2>1, <2>2 DEF RowTame
<1>4. ASSUME NEW c \in Cli, NEW d \in Cli, Working(c)', Working(d)', pay'[c].bill = pay'[d].bill
      PROVE  c = d
  BY <1>1, <1>2, <1>4 DEF ClaimInv, Bill
<1> QED BY <1>3, <1>4 DEF ClaimInv, Bill

\* Two payers never hold the same bill.
LEMMA HoldersDiffer ==
  ASSUME InboxInv, PayersAssumption, NEW p \in Payers, NEW q \in Payers, p # q,
         pay[q].at \in Holding, Bill(q) = Bill(p), pay[p].at \notin {"idle", "done"}
  PROVE  snap[Bill(p)].owner # Owner(p)
<1>1. snap[Bill(p)].owner = Owner(q)
  BY DEF InboxInv, HoldInv
<1>2. CASE p \in Web
  BY <1>1, <1>2 DEF Owner, PayersAssumption
<1>3. CASE p \notin Web /\ q \in Web
  BY <1>1, <1>3 DEF Owner, PayersAssumption
<1>4. CASE p \notin Web /\ q \notin Web
  <2>1. Working(p) /\ Working(q)
    BY <1>4 DEF Working, Payers, Holding
  <2> QED BY <2>1 DEF InboxInv, ClaimInv, Working
<1> QED BY <1>2, <1>3, <1>4

LEMMA KeptJournal ==
  ASSUME InboxInv, NEW p \in Payers, NEW s, Goes(p, s), JournalKept(p, s)
  PROVE  HoldInv' /\ FreeInv' /\ ReadInv'
<1>1. /\ snap' = snap /\ remote' = remote
      /\ \A q \in Payers : pay'[q].bill = pay[q].bill /\ pay'[q].charge = pay[q].charge
  BY DEF JournalKept, Goes
<1>2. HoldInv /\ FreeInv /\ ReadInv
  BY DEF InboxInv
<1>3. \A b, ps : Clean(b, ps) => Clean(b, ps)'
  BY <1>1 DEF Clean, Bill
<1>4. HoldInv'
  <2> SUFFICES ASSUME NEW q \in Payers, pay'[q].at \in Holding
               PROVE  /\ snap'[pay'[q].bill].owner = Owner(q)
                      /\ snap'[pay'[q].bill].status \notin Free
                      /\ ~pay'[q].charge \/ pay'[q].at = "charging" => Clean(pay[q].bill, {q})'
                      /\ pay'[q].at = "denied" => remote'[pay'[q].bill] = "denied"
    BY <1>1 DEF HoldInv, At, Bill, Clean
  <2>1. /\ pay[q].at \in Holding
        /\ pay'[q].at = "charging" => pay[q].at = "charging"
        /\ pay'[q].at = "denied" => remote[pay[q].bill] = "denied"
    <3>1. CASE q = p
      BY <3>1 DEF Goes, JournalKept, At, Bill
    <3>2. CASE q # p
      BY <1>2, <3>2 DEF Goes, HoldInv, At, Bill
    <3> QED BY <3>1, <3>2
  <2> QED BY <1>1, <1>2, <1>3, <2>1 DEF HoldInv, At, Bill
<1>5. FreeInv'
  BY <1>1, <1>2, <1>3 DEF FreeInv, EntryOK
<1>6. ReadInv'
  <2> SUFFICES ASSUME NEW c \in Cli, pay'[c].at = "claiming_bill", snap'[pay'[c].bill].owner = CliOwner
               PROVE  snap'[pay'[c].bill].status \in Free
    BY DEF ReadInv, At, Bill
  <2>1. c \in Payers
    BY DEF Payers
  <2>2. CASE c = p
    BY <1>1, <2>1, <2>2 DEF Goes, JournalKept, Bill
  <2>3. CASE c # p
    <3>1. pay'[c] = pay[c]
      BY <2>1, <2>3 DEF Goes
    <3> QED BY <1>1, <1>2, <3>1 DEF ReadInv, At, Bill
  <2> QED BY <2>2, <2>3
<1> QED BY <1>4, <1>5, <1>6

LEMMA WrittenJournal ==
  ASSUME InboxInv, PayersAssumption, NEW p \in Payers, NEW s, NEW e,
         Goes(p, s), JournalWritten(p, s, e)
  PROVE  HoldInv' /\ FreeInv' /\ ReadInv'
<1> DEFINE b == pay[p].bill
<1>p. PayerOK(p) /\ b \in Bills
  BY PayFacts DEF PayerOK, Goes, At, Bill
<1>1. /\ remote' = remote
      /\ \A q \in Payers : pay'[q].bill = pay[q].bill /\ pay'[q].charge = pay[q].charge
  BY DEF JournalWritten, Goes
<1>2. HoldInv /\ FreeInv /\ ReadInv /\ snap \in [Bills -> Entry]
  BY DEF InboxInv, TypeOK
<1>3. \A x, ps : Clean(x, ps) => Clean(x, ps)'
  BY <1>1 DEF Clean, Bill
<1>4. /\ snap'[b] = e
      /\ \A x \in Bills \ {b} : snap'[x] = snap[x]
  BY <1>p, <1>2 DEF JournalWritten, Bill
<1>5. EntryOK(e)
  BY DEF JournalWritten
<1>6. \A q \in Payers \ {p} : pay[q].at \in Holding => pay[q].bill # b
  <2> SUFFICES ASSUME NEW q \in Payers \ {p}, pay[q].at \in Holding, pay[q].bill = b
               PROVE  FALSE
    OBVIOUS
  <2>1. snap[b].owner # Owner(p)
    BY HoldersDiffer DEF Bill, Goes
  <2>2. snap[b].status \notin Free
    BY <1>2 DEF HoldInv, Bill
  <2>3. snap[b].owner = NoOne
    BY <2>1, <2>2 DEF JournalWritten, Bill
  <2> QED BY <1>p, <1>2, <2>2, <2>3 DEF FreeInv, EntryOK, Free
<1>7. HoldInv'
  <2> SUFFICES ASSUME NEW q \in Payers, pay'[q].at \in Holding
               PROVE  /\ snap'[pay'[q].bill].owner = Owner(q)
                      /\ snap'[pay'[q].bill].status \notin Free
                      /\ ~pay'[q].charge \/ pay'[q].at = "charging" => Clean(pay[q].bill, {q})'
                      /\ pay'[q].at = "denied" => remote'[pay'[q].bill] = "denied"
    BY <1>1 DEF HoldInv, At, Bill, Clean
  <2>1. CASE q = p
    BY <1>1, <1>3, <1>4, <2>1 DEF Goes, JournalWritten, Bill
  <2>2. CASE q # p
    <3>1. pay'[q] = pay[q] /\ pay[q].bill # b /\ pay[q].bill \in Bills
      BY <1>6, <2>2, PayFacts DEF Goes, PayerOK, At, Bill, Holding
    <3> QED BY <1>1, <1>2, <1>3, <1>4, <3>1 DEF HoldInv, At, Bill
  <2> QED BY <2>1, <2>2
<1>8. FreeInv'
  <2> SUFFICES ASSUME NEW x \in Bills
               PROVE  EntryOK(snap'[x]) /\ (snap'[x].status \in Free => Clean(x, {})')
    BY DEF FreeInv, EntryOK
  <2>1. CASE x = b
    BY <1>3, <1>4, <1>5, <2>1 DEF JournalWritten, Bill
  <2>2. CASE x # b
    BY <1>2, <1>3, <1>4, <2>2 DEF FreeInv
  <2> QED BY <2>1, <2>2
<1>9. ReadInv'
  <2> SUFFICES ASSUME NEW c \in Cli, pay'[c].at = "claiming_bill", snap'[pay'[c].bill].owner = CliOwner
               PROVE  snap'[pay'[c].bill].status \in Free
    BY DEF ReadInv, At, Bill
  <2>1. c \in Payers /\ c # p
    BY DEF Payers, Goes, JournalWritten
  <2>2. pay'[c] = pay[c] /\ pay[c].bill \in Bills
    BY <2>1, PayFacts DEF Goes, PayerOK, At, Bill
  <2>3. CASE pay[c].bill = b
    <3>1. CASE p \in Cli
      <4>1. Working(p) /\ Working(c)
        BY <2>2, <3>1 DEF Working, Goes
      <4> QED BY <2>1, <2>3, <3>1, <4>1 DEF InboxInv, ClaimInv, Bill
    <3>2. CASE p \notin Cli
      <4>1. e.owner = CliOwner /\ Owner(p) # CliOwner
        BY <1>4, <2>2, <2>3, <3>2 DEF Owner, PayersAssumption, Payers
      <4> QED BY <1>4, <2>2, <2>3, <4>1 DEF JournalWritten
    <3> QED BY <3>1, <3>2
  <2>4. CASE pay[c].bill # b
    BY <1>2, <1>4, <2>2, <2>4 DEF ReadInv, At, Bill
  <2> QED BY <2>3, <2>4
<1> QED BY <1>7, <1>8, <1>9

LEMMA OwnedJournal ==
  ASSUME InboxInv, PayersAssumption, NEW p \in Payers, NEW s, Goes(p, s), JournalOwned(p, s)
  PROVE  HoldInv' /\ FreeInv' /\ ReadInv'
<1> DEFINE b == pay[p].bill
<1>1. /\ PayerOK(p) /\ b \in Bills
      /\ \A q \in Payers : pay'[q].bill = pay[q].bill
      /\ \A q \in Payers \ {p} : pay'[q] = pay[q]
  BY PayFacts DEF PayerOK, Goes, At, Bill
<1>2. HoldInv /\ FreeInv /\ ReadInv
  BY DEF InboxInv
<1>3. /\ pay[p].at \in Holding /\ pay'[p].at \in Holding \ {"denied"}
      /\ snap[b].owner = Owner(p) /\ snap[b].status \notin Free
      /\ snap'[b].owner = Owner(p) /\ snap'[b].status \notin Free
      /\ \A x \in Bills \ {b} : snap'[x] = snap[x] /\ remote'[x] = remote[x]
  BY <1>2 DEF JournalOwned, HoldInv, Goes, Bill
<1>4. \A x \in Bills \ {b} : \A ps : Clean(x, ps) => Clean(x, ps)'
  BY <1>1, <1>3 DEF Clean, Bill
<1>5. \A q \in Payers \ {p} : pay[q].at \in Holding => pay[q].bill # b
  BY <1>3, HoldersDiffer DEF Bill, Goes
<1>6. HoldInv'
  <2> SUFFICES ASSUME NEW q \in Payers, pay'[q].at \in Holding
               PROVE  /\ snap'[pay'[q].bill].owner = Owner(q)
                      /\ snap'[pay'[q].bill].status \notin Free
                      /\ ~pay'[q].charge \/ pay'[q].at = "charging" => Clean(pay[q].bill, {q})'
                      /\ pay'[q].at = "denied" => remote'[pay'[q].bill] = "denied"
    BY <1>1 DEF HoldInv, At, Bill, Clean
  <2>1. CASE q = p
    <3>1. ASSUME ~pay'[p].charge \/ pay'[p].at = "charging" PROVE Clean(b, {p})'
      <4>1. Clean(b, {p}) /\ remote'[b] = remote[b]
        BY <1>2, <1>3, <3>1 DEF JournalOwned, HoldInv, Goes, Bill
      <4> QED BY <1>1, <4>1 DEF Clean, Bill
    <3> QED BY <1>1, <1>3, <2>1, <3>1
  <2>2. CASE q # p
    <3>1. pay'[q] = pay[q] /\ pay[q].bill # b /\ pay[q].bill \in Bills
      BY <1>1, <1>5, <2>2, PayFacts DEF PayerOK, At, Bill, Holding
    <3> QED BY <1>2, <1>3, <1>4, <3>1 DEF HoldInv, At, Bill
  <2> QED BY <2>1, <2>2
<1>7. FreeInv'
  <2> SUFFICES ASSUME NEW x \in Bills
               PROVE  EntryOK(snap'[x]) /\ (snap'[x].status \in Free => Clean(x, {})')
    BY DEF FreeInv, EntryOK
  <2>1. CASE x = b
    <3>1. Owner(p) # NoOne
      BY DEF Owner, PayersAssumption
    <3> QED BY <1>3, <2>1, <3>1 DEF EntryOK
  <2>2. CASE x # b
    BY <1>2, <1>3, <1>4, <2>2 DEF FreeInv
  <2> QED BY <2>1, <2>2
<1>8. ReadInv'
  <2> SUFFICES ASSUME NEW c \in Cli, pay'[c].at = "claiming_bill", snap'[pay'[c].bill].owner = CliOwner
               PROVE  snap'[pay'[c].bill].status \in Free
    BY DEF ReadInv, At, Bill
  <2>1. c \in Payers /\ c # p
    BY <1>3 DEF Payers, Holding
  <2>2. pay'[c] = pay[c] /\ pay[c].bill \in Bills
    BY <1>1, <2>1, PayFacts DEF PayerOK, At, Bill
  <2>3. CASE pay[c].bill = b
    <3>1. p \in Cli
      BY <1>3, <2>2, <2>3 DEF Owner, PayersAssumption, Payers
    <3>2. Working(p) /\ Working(c)
      BY <2>2, <3>1 DEF Working, Goes
    <3> QED BY <2>1, <2>3, <3>1, <3>2 DEF InboxInv, ClaimInv, Bill
  <2>4. CASE pay[c].bill # b
    BY <1>2, <1>3, <2>2, <2>4 DEF ReadInv, At, Bill
  <2> QED BY <2>3, <2>4
<1> QED BY <1>6, <1>7, <1>8

LEMMA BindingsKept ==
  ASSUME InboxInv, PayersAssumption, NEW p \in Payers, NEW s,
         Goes(p, s), BindTame(p, s), SettledTame(p, s)
  PROVE  BindInv'
<1>1. BindInv
  BY DEF InboxInv
<1>2. \A q \in Payers : pay'[q].bill = pay[q].bill /\ pay'[q].acct = pay[q].acct
  BY DEF Goes
<1>3. \A w \in Web : w \in Payers
  BY DEF Payers
<1>4. ASSUME NEW w \in Web, pay'[w].at \in Occupying
      PROVE  bind'[pay'[w].acct].owner = w
  <2>1. CASE w = p
    BY <1>1, <1>2, <1>3, <1>4, <2>1 DEF BindTame, BindInv, Goes
  <2>2. CASE w # p
    <3>1. pay'[w] = pay[w] /\ pay[w].acct \in Accounts
      BY <1>3, <1>4, <2>2, PayFacts DEF Goes, PayerOK, At, Occupying
    <3> QED BY <1>1, <1>4, <2>2, <3>1 DEF BindTame, BindInv
  <2> QED BY <2>1, <2>2
<1>5. ASSUME NEW a \in Accounts, bind'[a].owner \in Web
      PROVE  pay'[bind'[a].owner].at # "idle" /\ bind'[a].bill = pay'[bind'[a].owner].bill
  <2>1. bind'[a].owner = bind[a].owner /\ bind'[a].bill = bind[a].bill
    BY <1>5 DEF BindTame, PayersAssumption
  <2>2. pay[bind[a].owner].at # "idle" /\ bind[a].bill = pay[bind[a].owner].bill
    BY <1>1, <1>5, <2>1 DEF BindInv, At, Bill
  <2>3. CASE bind[a].owner = p
    BY <1>2, <2>1, <2>2, <2>3 DEF Goes
  <2>4. CASE bind[a].owner # p
    BY <1>3, <1>5, <2>1, <2>2, <2>4 DEF Goes
  <2> QED BY <2>3, <2>4
<1>6. ASSUME NEW a \in Accounts, bind'[a].status = "success" PROVE bind'[a].bill \in Bills
  <2>1. CASE bind[a].status = "success"
    BY <1>1, <1>6, <2>1 DEF SettledTame, BindInv
  <2>2. CASE bind[a].status # "success"
    <3>1. bind[a].owner = p /\ p \in Web /\ bind'[a].bill = bind[a].bill
      BY <1>6, <2>2 DEF SettledTame
    <3>2. bind[a].bill = Bill(p) /\ ~At(p, "idle")
      BY <1>1, <3>1 DEF BindInv
    <3> QED BY <3>1, <3>2, PayFacts DEF PayerOK
  <2> QED BY <2>1, <2>2
<1>7. ASSUME NEW w \in Web, job'[w] # "none" PROVE pay'[w].at # "idle"
  BY <1>1, <1>3, <1>7 DEF BindTame, BindInv, Goes, At
<1> QED BY <1>4, <1>5, <1>6, <1>7 DEF BindInv, At, Bill

LEMMA BindingTaken ==
  ASSUME InboxInv, PayersAssumption, NEW w \in Payers, NEW s, Goes(w, s), BindTaken(w, s)
  PROVE  BindInv'
<1> DEFINE a == pay[w].acct
<1>1. /\ BindInv /\ bind \in [Accounts -> BindType] /\ w \in Web
      /\ a \in Accounts /\ pay[w].bill \in Bills
  BY PayFacts DEF InboxInv, TypeOK, BindType, PayerOK, Goes, BindTaken, At, Bill
<1>2. \A q \in Payers : pay'[q].bill = pay[q].bill /\ pay'[q].acct = pay[q].acct
  BY DEF Goes
<1>3. \A v \in Web : v \in Payers /\ (pay'[v].at = "idle" => pay[v].at = "idle")
  BY DEF Payers, Goes
<1>4. /\ bind'[a].owner = w /\ bind'[a].bill = pay[w].bill /\ bind'[a].status = "reserved"
      /\ \A x \in Accounts \ {a} : bind'[x] = bind[x]
  BY <1>1 DEF BindTaken, Bound, Bill
<1>5. ASSUME NEW v \in Web, pay'[v].at \in Occupying PROVE bind'[pay'[v].acct].owner = v
  <2>1. CASE v = w
    BY <1>2, <1>3, <1>4, <2>1
  <2>2. CASE v # w
    <3>1. pay'[v] = pay[v] /\ pay[v].acct \in Accounts
      BY <1>3, <1>5, <2>2, PayFacts DEF Goes, PayerOK, At, Occupying
    <3>2. bind[pay[v].acct].owner = v
      BY <1>1, <1>5, <3>1 DEF BindInv
    <3>3. pay[v].acct # a
      BY <2>2, <3>2 DEF BindTaken
    <3> QED BY <1>4, <3>1, <3>2, <3>3
  <2> QED BY <2>1, <2>2
<1>6. ASSUME NEW x \in Accounts, bind'[x].owner \in Web
      PROVE  pay'[bind'[x].owner].at # "idle" /\ bind'[x].bill = pay'[bind'[x].owner].bill
  <2>1. CASE x = a
    BY <1>2, <1>3, <1>4, <2>1 DEF Goes
  <2>2. CASE x # a
    <3>1. bind'[x] = bind[x]
      BY <1>4, <2>2
    <3>2. pay[bind[x].owner].at # "idle" /\ bind[x].bill = pay[bind[x].owner].bill
      BY <1>1, <1>6, <3>1 DEF BindInv, At, Bill
    <3> QED BY <1>2, <1>3, <1>6, <3>1, <3>2
  <2> QED BY <2>1, <2>2
<1>7. \A x \in Accounts : bind'[x].status = "success" => bind'[x].bill \in Bills
  BY <1>1, <1>4 DEF BindInv
<1>8. \A v \in Web : job'[v] # "none" => pay'[v].at # "idle"
  BY <1>1, <1>3 DEF BindInv, BindTaken, At
<1> QED BY <1>5, <1>6, <1>7, <1>8 DEF BindInv, At, Bill

LEMMA SettledKept ==
  ASSUME InboxInv, PayersAssumption, NEW p \in Payers, NEW s, Goes(p, s), SettledTame(p, s)
  PROVE  SettledInv'
<1>1. SettledInv /\ BindInv
  BY DEF InboxInv
<1>2. \A q \in Payers : pay'[q].bill = pay[q].bill
  BY DEF Goes
<1>3. \A b \in Bills : remote[b] = "settled" => remote'[b] = "settled"
  BY DEF SettledTame
<1>4. \A w \in Web : w \in Payers
  BY DEF Payers
<1>5. ASSUME NEW b \in Bills, snap'[b].status = "success" \/ row'[b].status = "paid"
      PROVE  remote'[b] = "settled"
  BY <1>1, <1>3, <1>5 DEF SettledTame, SettledInv, PaidIsSettled
<1>6. ASSUME NEW a \in Accounts, bind'[a].status = "success"
      PROVE  remote'[bind'[a].bill] = "settled"
  <2>1. CASE bind[a].status = "success"
    <3>1. bind[a].bill \in Bills /\ bind'[a].bill = bind[a].bill
      BY <1>1, <1>6, <2>1 DEF BindInv, SettledTame
    <3> QED BY <1>1, <1>3, <2>1, <3>1 DEF SettledInv, PaidIsSettled
  <2>2. CASE bind[a].status # "success"
    <3>1. /\ bind[a].owner = p /\ p \in Web /\ bind'[a].bill = bind[a].bill
          /\ remote[Bill(p)] = "settled"
      BY <1>6, <2>2 DEF SettledTame
    <3>2. bind[a].bill = Bill(p) /\ Bill(p) \in Bills
      BY <1>1, <3>1, PayFacts DEF BindInv, PayerOK
    <3> QED BY <1>3, <3>1, <3>2
  <2> QED BY <2>1, <2>2
<1>7. ASSUME NEW w \in Web, job'[w] \in {"success", "success_unreconciled"}
      PROVE  remote'[pay'[w].bill] = "settled"
  <2>1. remote[pay[w].bill] = "settled"
    BY <1>1, <1>7 DEF SettledTame, SettledInv, PaidIsSettled, Bill
  <2>2. pay[w].bill \in Bills
    <3>1. CASE w = p
      BY <3>1, PayFacts DEF PayerOK, Goes, At, Bill
    <3>2. CASE w # p
      <4>1. job[w] # "none"
        BY <1>7, <3>2 DEF SettledTame
      <4> QED BY <1>1, <1>4, <4>1, PayFacts DEF BindInv, PayerOK, Bill
    <3> QED BY <3>1, <3>2
  <2> QED BY <1>2, <1>3, <1>4, <2>1, <2>2
<1>8. ASSUME NEW q \in Payers, pay'[q].at \in Settling PROVE remote'[pay'[q].bill] = "settled"
  <2>1. remote[pay[q].bill] = "settled"
    <3>1. CASE q = p
      BY <1>1, <1>8, <3>1 DEF SettledTame, SettledInv, Goes, Bill
    <3>2. CASE q # p
      BY <1>1, <1>8, <3>2 DEF SettledInv, Goes, Bill
    <3> QED BY <3>1, <3>2
  <2>2. pay[q].bill \in Bills
    <3>1. pay[q].at # "idle"
      BY <1>8 DEF Goes, Settling
    <3> QED BY <3>1, PayFacts DEF PayerOK, At, Bill
  <2> QED BY <1>2, <1>3, <2>1, <2>2
<1> QED BY <1>5, <1>6, <1>7, <1>8 DEF SettledInv, PaidIsSettled, Bill

\* Such a step keeps the whole invariant.
StepOK(p, s) ==
  /\ TypeOK'
  /\ Goes(p, s) /\ PlaceOK(p, s)
  /\ RowTame
  /\ JournalKept(p, s) \/ JournalOwned(p, s) \/ \E e \in Entry : JournalWritten(p, s, e)
  /\ BindTame(p, s) \/ BindTaken(p, s)
  /\ SettledTame(p, s)

LEMMA StepKeeps ==
  ASSUME InboxInv, PayersAssumption, NEW p \in Payers, NEW s, StepOK(p, s)
  PROVE  InboxInv' /\ Kept
<1>1. TypeOK' /\ \A q \in Payers : PayerOK(q)'
  BY PlacesKept DEF StepOK
<1>2. ClaimInv'
  BY ClaimsKept DEF StepOK
<1>3. HoldInv' /\ FreeInv' /\ ReadInv'
  BY KeptJournal, OwnedJournal, WrittenJournal DEF StepOK
<1>4. BindInv'
  BY BindingsKept, BindingTaken DEF StepOK
<1>5. SettledInv'
  BY SettledKept DEF StepOK
<1>6. Kept
  <2>1. \A w \in Web : w \in Payers
    BY DEF Payers
  <2>2. TypeOK
    BY DEF InboxInv
  <2>3. \A w \in Web : pay[w].at # "idle" => pay'[w].at # "idle" /\ pay'[w].bill = pay[w].bill
    BY <2>1 DEF StepOK, Goes
  <2>4. \A a \in Accounts : bind'[a].owner \in Flows =>
          bind'[a].owner = bind[a].owner /\ bind'[a].bill = bind[a].bill
    <3>1. CASE BindTame(p, s)
      BY <3>1 DEF BindTame, PayersAssumption
    <3>2. CASE BindTaken(p, s)
      <4>1. /\ bind \in [Accounts -> BindType] /\ p \notin Flows
            /\ bind' = [bind EXCEPT ![pay[p].acct] = [status |-> "reserved", owner |-> p, bill |-> Bill(p)]]
        BY <2>2, <3>2 DEF TypeOK, BindType, BindTaken, Bound, PayersAssumption
      <4> QED BY <4>1
    <3> QED BY <3>1, <3>2 DEF StepOK
  <2> QED BY <2>3, <2>4 DEF Kept, StepOK, SettledTame
<1> QED BY <1>1, <1>2, <1>3, <1>4, <1>5, <1>6 DEF InboxInv

-----------------------------------------------------------------------------
(* What the operations on the stores do *)

LEMMA StatusFacts ==
  ASSUME TypeOK, NEW b \in Bills, NEW status \in {"paid", "closed"}
  PROVE  /\ SetStatusIfPending(b, status) \in [Bills -> RowType]
         /\ \A x \in Bills : \/ SetStatusIfPending(b, status)[x] = row[x]
                             \/ x = b /\ SetStatusIfPending(b, status)[x].status = status
BY DEF TypeOK, RowType, SetStatusIfPending

LEMMA ReleaseFacts ==
  ASSUME TypeOK, NEW b \in Bills, NEW p \in Payers
  PROVE  /\ ReleaseClaim(b, p) \in [Bills -> RowType]
         /\ \A x \in Bills : \/ ReleaseClaim(b, p)[x] = row[x]
                             \/ row[x].claim = p /\ ReleaseClaim(b, p)[x].status = row[x].status
BY DEF TypeOK, RowType, ReleaseClaim

LEMMA JournaledFacts ==
  ASSUME TypeOK, NEW b \in Bills, NEW p \in Payers, NEW status \in JournalStatuses
  PROVE  /\ Journaled(b, status, p) \in [Bills -> Entry]
         /\ \/ Journaled(b, status, p) = snap
            \/ /\ MayJournal(b, status, p)
               /\ Journaled(b, status, p) =
                    [snap EXCEPT ![b] = [status |-> status, owner |-> Owner(p)]]
BY DEF TypeOK, Entry, Journaled, Owner, Payers

LEMMA BindingSetFacts ==
  ASSUME TypeOK, NEW a \in Accounts, NEW w \in Web,
         NEW status \in {"failed", "success", "interrupted_unknown"}
  PROVE  /\ BindingSet(a, status, w) \in [Accounts -> BindType]
         /\ \A x \in Accounts :
              /\ BindingSet(a, status, w)[x].owner = bind[x].owner
              /\ BindingSet(a, status, w)[x].bill = bind[x].bill
              /\ \/ BindingSet(a, status, w)[x].status = bind[x].status
                 \/ bind[x].owner = w /\ BindingSet(a, status, w)[x].status = status
<1>1. bind \in [Accounts -> BindType]
  BY DEF TypeOK, BindType
<1>2. CASE bind[a].owner = w
  <2>1. BindingSet(a, status, w) = [bind EXCEPT ![a].status = status]
    BY <1>2 DEF BindingSet
  <2>2. BindingSet(a, status, w) \in [Accounts -> BindType]
    BY <1>1, <2>1 DEF BindType
  <2>3. /\ BindingSet(a, status, w)[a].owner = bind[a].owner
        /\ BindingSet(a, status, w)[a].bill = bind[a].bill
        /\ BindingSet(a, status, w)[a].status = status
        /\ \A x \in Accounts \ {a} : BindingSet(a, status, w)[x] = bind[x]
    BY <1>1, <2>1 DEF BindType
  <2> QED BY <1>2, <2>2, <2>3
<1>3. CASE bind[a].owner # w
  BY <1>1, <1>3 DEF BindingSet
<1> QED BY <1>2, <1>3

LEMMA BindingReleasedFacts ==
  ASSUME TypeOK, NEW a \in Accounts, NEW o
  PROVE  /\ BindingReleased(a, o) \in [Accounts -> BindType]
         /\ \A x \in Accounts : \/ BindingReleased(a, o)[x] = bind[x]
                                \/ bind[x].owner = o /\ BindingReleased(a, o)[x] = Unbound
BY DEF TypeOK, BindType, BindingReleased, Unbound

LEMMA JobSetFacts ==
  ASSUME TypeOK, NEW w \in Web, NEW status \in JobStatuses
  PROVE  /\ JobSet(w, status) \in [Web -> JobStatuses]
         /\ \A v \in Web : JobSet(w, status)[v] = job[v] \/ (v = w /\ JobSet(w, status)[v] = status)
BY DEF TypeOK, JobStatuses, JobSet

(***************************************************************************)
(* Steps and Ends go where the code may go.                                *)
(***************************************************************************)

Path(p, s) ==
  /\ pay[p].at \notin {"idle", "done"} /\ s \in Phases \ {"idle", "bind", "charging"}
  /\ p \in Web => s \in WebPhases
  /\ p \in Cli => s \in CliPhases
  /\ s \in Early => pay[p].at \in Early
  /\ s = "charged" => pay[p].charge
  /\ s = "launch" => At(p, "bind")

LEMMA StepsFacts ==
  ASSUME InboxInv, NEW p \in Payers, NEW s, Path(p, s), Steps(p, s)
  PROVE  /\ pay' \in [Payers -> PayType] /\ Goes(p, s) /\ PlaceOK(p, s)
         /\ pay'[p].charge = pay[p].charge
<1>1. /\ pay \in [Payers -> PayType] /\ pay[p] \in PayType /\ PayerOK(p)
      /\ pay' = [pay EXCEPT ![p].at = s] /\ s \in Phases
  BY PayFacts DEF Steps, Path
<1>2. pay' \in [Payers -> PayType]
  BY <1>1 DEF PayType
<1>3. /\ pay'[p].at = s /\ pay'[p].bill = pay[p].bill /\ pay'[p].acct = pay[p].acct
      /\ pay'[p].charge = pay[p].charge /\ pay'[p].was = pay[p].was
      /\ \A q \in Payers \ {p} : pay'[q] = pay[q]
  BY <1>1 DEF PayType
<1> QED BY <1>1, <1>2, <1>3 DEF Goes, PlaceOK, Path, PayerOK, At

LEMMA EndsFacts ==
  ASSUME InboxInv, NEW p \in Payers, pay[p].at \notin {"idle", "done"},
         \/ Ends(p)
         \/ pay' = [pay EXCEPT ![p].at = "done", ![p].was = Untouched]
  PROVE  /\ pay' \in [Payers -> PayType] /\ Goes(p, "done") /\ PlaceOK(p, "done")
         /\ pay'[p].charge = pay[p].charge
<1>1. pay \in [Payers -> PayType] /\ pay[p] \in PayType
  BY PayFacts
<1>2. Untouched \in Entry /\ "done" \in Phases
  BY DEF Untouched, Entry, JournalStatuses, Phases
<1>3. pay' \in [Payers -> PayType]
  BY <1>1, <1>2 DEF PayType, Ends
<1>4. /\ pay'[p].at = "done" /\ pay'[p].bill = pay[p].bill /\ pay'[p].acct = pay[p].acct
      /\ pay'[p].charge = pay[p].charge /\ pay'[p].was = Untouched
      /\ \A q \in Payers \ {p} : pay'[q] = pay[q]
  BY <1>1 DEF PayType, Ends
<1> QED BY <1>3, <1>4 DEF Goes, PlaceOK, Untouched, EntryOK, Early, WebPhases, CliPhases

\* An entry written at the end of an attempt.
LEMMA JournalsFacts ==
  ASSUME InboxInv, PayersAssumption, NEW p \in Payers, NEW s, NEW e \in JournalStatuses,
         pay[p].at \notin {"idle", "done"}, s \notin Holding, s # "claiming_bill",
         snap' = Journaled(Bill(p), e, p), remote' = remote,
         pay'[p].charge = pay[p].charge, e # "linking",
         e \in Free => Clean(Bill(p), {})
  PROVE  /\ snap' \in [Bills -> Entry]
         /\ JournalKept(p, s) \/ \E x \in Entry : JournalWritten(p, s, x)
         /\ \A b \in Bills : snap'[b].status = "success" =>
              snap[b].status = "success" \/ (e = "success" /\ b = Bill(p))
<1>1. TypeOK /\ Bill(p) \in Bills
  BY PayFacts DEF PayerOK, At, InboxInv
<1>2. /\ snap' \in [Bills -> Entry]
      /\ \/ snap' = snap
         \/ /\ MayJournal(Bill(p), e, p)
            /\ snap' = [snap EXCEPT ![Bill(p)] = [status |-> e, owner |-> Owner(p)]]
  BY <1>1, JournaledFacts
<1>3. JournalKept(p, s) \/ \E x \in Entry : JournalWritten(p, s, x)
  <2>1. CASE snap' = snap
    BY <2>1 DEF JournalKept, Holding
  <2>2. CASE /\ MayJournal(Bill(p), e, p)
             /\ snap' = [snap EXCEPT ![Bill(p)] = [status |-> e, owner |-> Owner(p)]]
    <3> DEFINE x == [status |-> e, owner |-> Owner(p)]
    <3>1. x \in Entry /\ x.owner = Owner(p) /\ x.status = e
      BY DEF Entry, Owner, Payers
    <3>2. Owner(p) # NoOne
      BY DEF Owner, PayersAssumption
    <3> HIDE DEF x
    <3>3. JournalWritten(p, s, x)
      <4>1. snap' = [snap EXCEPT ![Bill(p)] = x]
        BY <2>2 DEF x
      <4> QED BY <2>2, <3>1, <3>2, <4>1 DEF JournalWritten, MayJournal, EntryOK
    <3> QED BY <3>1, <3>3
  <2> QED BY <1>2, <2>1, <2>2
<1>4. snap \in [Bills -> Entry]
  BY <1>1 DEF TypeOK
<1>5. \A b \in Bills : snap'[b].status = snap[b].status \/ (b = Bill(p) /\ snap'[b].status = e)
  <2>1. CASE snap' = snap
    BY <2>1
  <2>2. CASE snap' = [snap EXCEPT ![Bill(p)] = [status |-> e, owner |-> Owner(p)]]
    <3>1. snap'[Bill(p)].status = e
      BY <1>1, <1>4, <2>2
    <3>2. \A b \in Bills : b # Bill(p) => snap'[b] = snap[b]
      BY <1>1, <1>4, <2>2
    <3> QED BY <3>1, <3>2
  <2> QED BY <1>2, <2>1, <2>2
<1> QED BY <1>2, <1>3, <1>5

(***************************************************************************)
(* What the actions of one payer do to each store, as the code writes it.  *)
(***************************************************************************)

RowMoves(p) ==
  \/ row' = row
  \/ p \in Web /\ row' = ReleaseClaim(Bill(p), p)
  \/ row' = SetStatusIfPending(Bill(p), "closed")
  \/ row' = SetStatusIfPending(Bill(p), "paid") /\ remote[Bill(p)] = "settled"

JournalMoves(p, s) ==
  \/ /\ snap' = snap
     /\ s \in Holding => pay[p].at \in Holding
     /\ s = "denied" => remote[Bill(p)] = "denied"
     /\ s = "claiming_bill" => snap[Bill(p)].status \in Free
  \/ /\ s \notin Holding \cup {"claiming_bill"}
     /\ \E e \in {"failed", "fraud_denied", "interrupted_unknown", "success"} :
          /\ snap' = Journaled(Bill(p), e, p)
          /\ e \in Free => Clean(Bill(p), {})
          /\ e = "success" => remote[Bill(p)] = "settled"

BindMoves(p, s) ==
  \/ bind' = bind /\ (s \in Occupying => pay[p].at \in Occupying)
  \/ /\ p \in Web /\ s \notin Occupying
     /\ \/ bind' = BindingReleased(pay[p].acct, p)
        \/ \E e \in {"failed", "success", "interrupted_unknown"} :
             /\ bind' = BindingSet(pay[p].acct, e, p)
             /\ e = "success" => remote[Bill(p)] = "settled"

JobMoves(p) ==
  \/ job' = job
  \/ \E e \in JobStatuses :
       /\ p \in Web /\ job' = JobSet(p, e)
       /\ e \in {"success", "success_unreconciled"} => remote[Bill(p)] = "settled"

Moves(p, s) ==
  /\ \/ Path(p, s) /\ Steps(p, s)
     \/ /\ pay[p].at \notin {"idle", "done"} /\ s = "done"
        /\ Ends(p) \/ pay' = [pay EXCEPT ![p].at = "done", ![p].was = Untouched]
  /\ RowMoves(p) /\ JournalMoves(p, s) /\ BindMoves(p, s) /\ JobMoves(p)
  /\ s \in Settling => pay[p].at \in Settling \/ remote[Bill(p)] = "settled"
  /\ UNCHANGED <<marked, remote, restarts>>

LEMMA MovesKeep ==
  ASSUME InboxInv, PayersAssumption, NEW p \in Payers, NEW s, Moves(p, s)
  PROVE  InboxInv' /\ Kept
<1> DEFINE JournalDone ==
             /\ snap' \in [Bills -> Entry]
             /\ JournalKept(p, s) \/ \E e \in Entry : JournalWritten(p, s, e)
             /\ \A b \in Bills : snap'[b].status = "success" =>
                  snap[b].status = "success" \/ remote[b] = "settled"
           BindDone ==
             /\ bind' \in [Accounts -> BindType]
             /\ s \in Occupying => pay[p].at \in Occupying /\ bind' = bind
             /\ \A a \in Accounts :
                  \/ bind'[a].owner = bind[a].owner /\ bind'[a].bill = bind[a].bill
                  \/ bind'[a].owner = NoOne /\ bind[a].owner = p
             /\ \A a \in Accounts : bind'[a].status = "success" =>
                  /\ bind'[a].bill = bind[a].bill
                  /\ bind[a].status = "success" \/ (bind[a].owner = p /\ p \in Web /\ remote[Bill(p)] = "settled")
           JobDone ==
             /\ job' \in [Web -> JobStatuses]
             /\ \A w \in Web : job'[w] # "none" => job[w] # "none" \/ w = p
             /\ \A w \in Web : job'[w] \in {"success", "success_unreconciled"} =>
                  \/ job[w] \in {"success", "success_unreconciled"}
                  \/ w = p /\ remote[Bill(p)] = "settled"
<1>1. /\ TypeOK /\ PayerOK(p) /\ Bill(p) \in Bills /\ (p \in Web => pay[p].acct \in Accounts)
      /\ pay[p].at \notin {"idle", "done"} /\ (p \in Web => p \notin Cli)
  BY PayFacts DEF PayerOK, Moves, Path, At, InboxInv, PayersAssumption
<1>2. /\ pay' \in [Payers -> PayType] /\ Goes(p, s) /\ PlaceOK(p, s)
      /\ pay'[p].charge = pay[p].charge
  BY StepsFacts, EndsFacts DEF Moves
<1>3. /\ row' \in [Bills -> RowType] /\ RowTame
      /\ \A b \in Bills : row'[b].status = "paid" =>
           row[b].status = "paid" \/ remote[b] = "settled"
  <2>1. CASE row' = row
    BY <1>1, <2>1 DEF RowTame, TypeOK, RowType
  <2>2. CASE p \in Web /\ row' = ReleaseClaim(Bill(p), p)
    BY <1>1, <2>2, ReleaseFacts DEF RowTame, Working
  <2>3. CASE row' = SetStatusIfPending(Bill(p), "closed")
    BY <1>1, <2>3, StatusFacts DEF RowTame
  <2>4. CASE row' = SetStatusIfPending(Bill(p), "paid") /\ remote[Bill(p)] = "settled"
    BY <1>1, <2>4, StatusFacts DEF RowTame
  <2> QED BY <2>1, <2>2, <2>3, <2>4 DEF Moves, RowMoves
<1>4. JournalDone
  <2>1. CASE /\ snap' = snap
             /\ s \in Holding => pay[p].at \in Holding
             /\ s = "denied" => remote[Bill(p)] = "denied"
             /\ s = "claiming_bill" => snap[Bill(p)].status \in Free
    <3>1. s # "charging"
      BY <1>1 DEF Moves, Path
    <3> QED BY <1>1, <1>2, <2>1, <3>1 DEF JournalKept, TypeOK, Entry, Moves
  <2>2. ASSUME s \notin Holding \cup {"claiming_bill"},
               NEW e \in {"failed", "fraud_denied", "interrupted_unknown", "success"},
               snap' = Journaled(Bill(p), e, p), e \in Free => Clean(Bill(p), {}),
               e = "success" => remote[Bill(p)] = "settled"
        PROVE  JournalDone
    <3>1. e \in JournalStatuses /\ e # "linking"
      BY DEF JournalStatuses
    <3> QED BY <1>1, <1>2, <2>2, <3>1, JournalsFacts DEF Moves
  <2> QED BY <2>1, <2>2 DEF Moves, JournalMoves
<1>5. BindDone
  <2>1. CASE bind' = bind /\ (s \in Occupying => pay[p].at \in Occupying)
    BY <1>1, <2>1 DEF TypeOK, BindType
  <2>2. CASE p \in Web /\ s \notin Occupying /\ bind' = BindingReleased(pay[p].acct, p)
    BY <1>1, <2>2, BindingReleasedFacts DEF Unbound
  <2>3. ASSUME p \in Web, s \notin Occupying, NEW e \in {"failed", "success", "interrupted_unknown"},
               bind' = BindingSet(pay[p].acct, e, p),
               e = "success" => remote[Bill(p)] = "settled"
        PROVE  BindDone
    BY <1>1, <2>3, BindingSetFacts
  <2> QED BY <2>1, <2>2, <2>3 DEF Moves, BindMoves
<1>6. JobDone
  <2>1. CASE job' = job
    BY <1>1, <2>1 DEF TypeOK, JobStatuses
  <2>2. ASSUME NEW e \in JobStatuses, p \in Web, job' = JobSet(p, e),
               e \in {"success", "success_unreconciled"} => remote[Bill(p)] = "settled"
        PROVE  JobDone
    BY <1>1, <2>2, JobSetFacts
  <2> QED BY <2>1, <2>2 DEF Moves, JobMoves
<1>7. TypeOK'
  BY <1>1, <1>2, <1>3, <1>4, <1>5, <1>6
  DEF Moves, TypeOK, RowType, BindType, PayType, JobStatuses
<1>8. BindTame(p, s)
  BY <1>5, <1>6 DEF BindTame
<1>9. SettledTame(p, s)
  BY <1>3, <1>4, <1>5, <1>6 DEF SettledTame, Moves
<1> QED BY <1>2, <1>3, <1>4, <1>7, <1>8, <1>9, StepKeeps DEF StepOK

-----------------------------------------------------------------------------
(* The actions of a payer at work *)

LEMMA WebMoves ==
  ASSUME InboxInv, PayersAssumption, NEW w \in Web,
         \/ StartRefused(w) \/ ThreadFails(w) \/ OtpTimesOut(w)
         \/ WebFails(w) \/ WebCloses(w) \/ WebDenied(w) \/ WebLosesClaim(w)
         \/ WebReleases(w) \/ MarksUnknown(w) \/ Parks(w) \/ RecordsSuccess(w)
         \/ JournalsSuccess(w) \/ Reconciles(w) \/ Recovers(w)
  PROVE  \E s : Moves(w, s)
<1> USE DEF At, RowMoves, JournalMoves, BindMoves, JobMoves
<1>1. /\ w \in Payers /\ w \notin Cli /\ PayerOK(w) /\ (Bill(w) \in Bills \/ At(w, "idle"))
      /\ pay[w].at \in Holding /\ ~pay[w].charge => Clean(Bill(w), {})
      /\ At(w, "denied") => remote[Bill(w)] = "denied" /\ Clean(Bill(w), {})
      /\ pay[w].at \in Settling => remote[Bill(w)] = "settled"
  <2>1. w \in Payers /\ w \notin Cli /\ PayerOK(w)
    BY PayFacts DEF Payers, PayersAssumption
  <2> QED BY <2>1 DEF InboxInv, HoldInv, SettledInv, Clean, Holding, PayerOK
<1> DEFINE Ready(s) == /\ s \in WebPhases \ {"idle", "bind", "charging", "launch", "charged"}
                       /\ s \in Early => pay[w].at \in Early
<1>2. \A s : Ready(s) /\ pay[w].at \notin {"idle", "done"} => Path(w, s)
  BY <1>1 DEF Path, WebPhases, Phases
<1>3. CASE StartRefused(w)
  <2>1. Moves(w, "done")
    BY <1>1, <1>3 DEF StartRefused, Moves, Holding, Occupying, Settling
  <2> QED BY <2>1
<1>4. CASE ThreadFails(w)
  <2>1. Moves(w, "erring")
    BY <1>1, <1>2, <1>4 DEF ThreadFails, Moves, Holding, Occupying, Settling, Early, WebPhases
  <2> QED BY <2>1
<1>5. CASE OtpTimesOut(w)
  <2>1. Moves(w, "failing")
    BY <1>1, <1>2, <1>5 DEF OtpTimesOut, Moves, Holding, Occupying, Settling, Early, WebPhases, JobStatuses
  <2> QED BY <2>1
<1>6. CASE WebFails(w)
  <2>1. CASE pay[w].charge
    <3>1. Moves(w, "unknown")
      BY <1>1, <1>2, <1>6, <2>1 DEF WebFails, Moves, Holding, Occupying, Settling, Early, WebPhases
    <3> QED BY <3>1
  <2>2. CASE ~pay[w].charge /\ At(w, "failing") /\ job[w] = "cleared"
    <3>1. Moves(w, "done")
      BY <1>1, <1>6, <2>2 DEF WebFails, Moves, Holding, Occupying, Settling
    <3> QED BY <3>1
  <2>3. CASE ~pay[w].charge /\ ~(At(w, "failing") /\ job[w] = "cleared")
    <3> DEFINE s == IF At(w, "failing") THEN "cancelling" ELSE "closing"
    <3>1. /\ pay[w].at \in {"failing", "erring"} /\ Steps(w, s)
          /\ snap' = Journaled(Bill(w), "failed", w)
          /\ UNCHANGED <<row, bind, job, marked, remote, restarts>>
      BY <1>6, <2>3 DEF WebFails
    <3>2. s \in {"cancelling", "closing"}
      OBVIOUS
    <3> HIDE DEF s
    <3>3. Moves(w, s)
      BY <1>1, <1>2, <2>3, <3>1, <3>2 DEF Moves, Holding, Occupying, Settling, Early, WebPhases
    <3> QED BY <3>3
  <2> QED BY <2>1, <2>2, <2>3
<1>7. CASE WebCloses(w)
  <2>1. Moves(w, "done")
    BY <1>1, <1>7 DEF WebCloses, Moves, Holding, Occupying, Settling, JobStatuses
  <2> QED BY <2>1
<1>8. CASE WebDenied(w)
  <2>1. Moves(w, "closing")
    BY <1>1, <1>2, <1>8 DEF WebDenied, Moves, Holding, Occupying, Settling, Early, WebPhases
  <2> QED BY <2>1
<1>9. CASE WebLosesClaim(w)
  <2>1. CASE pay[w].charge
    <3>1. Moves(w, "unknown")
      BY <1>1, <1>2, <1>9, <2>1 DEF WebLosesClaim, Moves, Holding, Occupying, Settling, Early, WebPhases
    <3> QED BY <3>1
  <2>2. CASE ~pay[w].charge
    <3>1. Moves(w, "releasing")
      BY <1>1, <1>2, <1>9, <2>2 DEF WebLosesClaim, Moves, Holding, Occupying, Settling, Early, WebPhases
    <3> QED BY <3>1
  <2> QED BY <2>1, <2>2
<1>10. CASE WebReleases(w)
  <2>1. Moves(w, "done")
    BY <1>1, <1>10 DEF WebReleases, Moves, Holding, Occupying, Settling, JobStatuses
  <2> QED BY <2>1
<1>11. CASE MarksUnknown(w)
  <2>1. Moves(w, "parking")
    BY <1>1, <1>2, <1>11 DEF MarksUnknown, Moves, Holding, Occupying, Settling, Early, WebPhases, Free, Retryable
  <2> QED BY <2>1
<1>12. CASE Parks(w)
  <2>1. Moves(w, "done")
    BY <1>1, <1>12 DEF Parks, Moves, Holding, Occupying, Settling, JobStatuses
  <2> QED BY <2>1
<1>13. CASE RecordsSuccess(w)
  <2>1. Moves(w, "journaling")
    BY <1>1, <1>2, <1>13 DEF RecordsSuccess, Moves, Holding, Occupying, Settling, Early, WebPhases, JobStatuses
  <2> QED BY <2>1
<1>14. CASE JournalsSuccess(w)
  <2>1. Moves(w, "reconciling")
    BY <1>1, <1>2, <1>14 DEF JournalsSuccess, Moves, Holding, Occupying, Settling, Early, WebPhases, Free, Retryable
  <2> QED BY <2>1
<1>15. CASE Reconciles(w)
  <2>1. \E e \in {"success", "success_unreconciled"} : job' = JobSet(w, e)
    BY <1>15 DEF Reconciles
  <2>2. /\ At(w, "reconciling") /\ Ends(w) /\ UNCHANGED <<snap, marked, remote, restarts>>
        /\ bind' = BindingSet(pay[w].acct, "success", w)
        /\ row' = SetStatusIfPending(Bill(w), "paid") \/ row' = row
    BY <1>15 DEF Reconciles
  <2>3. Moves(w, "done")
    BY <1>1, <2>1, <2>2 DEF Moves, Holding, Occupying, Settling, JobStatuses
  <2> QED BY <2>3
<1>16. CASE Recovers(w)
  <2>1. CASE remote[Bill(w)] = "settled" /\ Steps(w, "paid") /\ UNCHANGED snap
    <3>1. Moves(w, "paid")
      BY <1>1, <1>2, <1>16, <2>1 DEF Recovers, Moves, Holding, Occupying, Settling, Early, WebPhases
    <3> QED BY <3>1
  <2>2. CASE /\ remote[Bill(w)] = "denied" /\ Steps(w, "cancelling")
             /\ snap' = Journaled(Bill(w), "failed", w)
    <3>1. Moves(w, "cancelling")
      BY <1>1, <1>2, <1>16, <2>2 DEF Recovers, Moves, Holding, Occupying, Settling, Early, WebPhases, Clean
    <3> QED BY <3>1
  <2>3. CASE Steps(w, "unknown") /\ UNCHANGED snap
    <3>1. Moves(w, "unknown")
      BY <1>1, <1>2, <1>16, <2>3 DEF Recovers, Moves, Holding, Occupying, Settling, Early, WebPhases
    <3> QED BY <3>1
  <2>4. job[w] = "success_unreconciled" => remote[Bill(w)] = "settled"
    BY DEF InboxInv, SettledInv, PaidIsSettled
  <2> QED BY <1>16, <2>1, <2>2, <2>3, <2>4 DEF Recovers
<1> QED BY <1>3, <1>4, <1>5, <1>6, <1>7, <1>8, <1>9, <1>10, <1>11, <1>12, <1>13,
           <1>14, <1>15, <1>16

LEMMA CliMoves ==
  ASSUME InboxInv, PayersAssumption, NEW c \in Cli,
         \/ CliRenews(c) \/ CliChecks(c) \/ CliFails(c) \/ CliDenied(c)
         \/ CliLosesClaim(c) \/ CliPaid(c) \/ CliReports(c) \/ CliDies(c)
  PROVE  \E s : Moves(c, s)
<1> USE DEF At, RowMoves, JournalMoves, BindMoves, JobMoves
<1>1. /\ c \in Payers /\ c \notin Web /\ PayerOK(c) /\ (Bill(c) \in Bills \/ At(c, "idle"))
      /\ pay[c].at \in Holding /\ ~pay[c].charge => Clean(Bill(c), {})
      /\ At(c, "denied") => remote[Bill(c)] = "denied" /\ Clean(Bill(c), {})
      /\ pay[c].at \in Settling => remote[Bill(c)] = "settled"
  <2>1. c \in Payers /\ c \notin Web /\ PayerOK(c)
    BY PayFacts DEF Payers, PayersAssumption
  <2> QED BY <2>1 DEF InboxInv, HoldInv, SettledInv, Clean, Holding, PayerOK
<1> DEFINE Ready(s) == /\ s \in CliPhases \ {"idle", "charging", "charged"}
                       /\ s \in Early => pay[c].at \in Early
<1>2. \A s : Ready(s) /\ pay[c].at \notin {"idle", "done"} => Path(c, s)
  BY <1>1 DEF Path, CliPhases, Phases
<1>3. CASE CliRenews(c)
  <2>1. CASE Steps(c, "reporting_failure")
    <3>1. Moves(c, "reporting_failure")
      BY <1>1, <1>2, <1>3, <2>1 DEF CliRenews, Moves, Holding, Occupying, Settling, Early, CliPhases
    <3> QED BY <3>1
  <2>2. CASE Ends(c)
    <3>1. Moves(c, "done")
      BY <1>1, <1>3, <2>2 DEF CliRenews, Moves, Holding, Occupying, Settling
    <3> QED BY <3>1
  <2>3. CASE Steps(c, "checking")
    <3>1. Moves(c, "checking")
      BY <1>1, <1>2, <1>3, <2>3 DEF CliRenews, Moves, Holding, Occupying, Settling, Early, CliPhases
    <3> QED BY <3>1
  <2> QED BY <1>3, <2>1, <2>2, <2>3 DEF CliRenews
<1>4. CASE CliChecks(c)
  <2>1. CASE Steps(c, "reporting_failure")
    <3>1. Moves(c, "reporting_failure")
      BY <1>1, <1>2, <1>4, <2>1 DEF CliChecks, Moves, Holding, Occupying, Settling, Early, CliPhases
    <3> QED BY <3>1
  <2>2. CASE snap[Bill(c)].status = "success" /\ Steps(c, "reporting_success")
    <3>1. remote[Bill(c)] = "settled"
      BY <1>1, <1>4, <2>2 DEF CliChecks, InboxInv, SettledInv, PaidIsSettled
    <3>2. Moves(c, "reporting_success")
      BY <1>1, <1>2, <1>4, <2>2, <3>1 DEF CliChecks, Moves, Holding, Occupying, Settling, Early, CliPhases
    <3> QED BY <3>2
  <2>3. CASE snap[Bill(c)].status \in {"none", "failed"} /\ Steps(c, "claiming_bill")
    <3>1. Moves(c, "claiming_bill")
      BY <1>1, <1>2, <1>4, <2>3 DEF CliChecks, Moves, Holding, Occupying, Settling, Early, CliPhases, Free, Retryable
    <3> QED BY <3>1
  <2> QED BY <1>4, <2>1, <2>2, <2>3 DEF CliChecks
<1>5. CASE CliFails(c)
  <2>1. Moves(c, "reporting_failure")
    BY <1>1, <1>2, <1>5 DEF CliFails, Moves, Holding, Occupying, Settling, Early, CliPhases, Free, Retryable
  <2> QED BY <2>1
<1>6. CASE CliDenied(c)
  <2>1. Moves(c, "reporting_failure")
    BY <1>1, <1>2, <1>6 DEF CliDenied, Moves, Holding, Occupying, Settling, Early, CliPhases
  <2> QED BY <2>1
<1>7. CASE CliLosesClaim(c)
  <2>1. Moves(c, "done")
    BY <1>1, <1>7 DEF CliLosesClaim, Moves, Holding, Occupying, Settling, Free, Retryable
  <2> QED BY <2>1
<1>8. CASE CliPaid(c)
  <2>1. Moves(c, "reporting_success")
    BY <1>1, <1>2, <1>8 DEF CliPaid, Moves, Holding, Occupying, Settling, Early, CliPhases, Free, Retryable
  <2> QED BY <2>1
<1>9. CASE CliReports(c)
  <2>1. Moves(c, "done")
    BY <1>1, <1>9 DEF CliReports, Moves, Holding, Occupying, Settling
  <2> QED BY <2>1
<1>10. CASE CliDies(c)
  <2>1. Moves(c, "done")
    BY <1>1, <1>10 DEF CliDies, Moves, Holding, Occupying, Settling
  <2> QED BY <2>1
<1> QED BY <1>3, <1>4, <1>5, <1>6, <1>7, <1>8, <1>9, <1>10

LEMMA PayMoves ==
  ASSUME InboxInv, PayersAssumption, NEW p \in Payers, LinkFails(p) \/ ChargeEnds(p)
  PROVE  \E s : Moves(p, s)
<1> USE DEF At, RowMoves, JournalMoves, BindMoves, JobMoves
<1>1. ASSUME NEW s \in {"failing", "erring", "lost", "denied", "paid"}, Steps(p, s),
             pay[p].at \in {"linking", "charged"},
             s = "denied" => remote[Bill(p)] = "denied", s = "paid" => remote[Bill(p)] = "settled",
             UNCHANGED <<row, snap, bind, job, marked, remote, restarts>>
      PROVE  Moves(p, s)
  <2>1. Path(p, s)
    BY <1>1 DEF Path, Phases, WebPhases, CliPhases, Early
  <2> QED BY <1>1, <2>1 DEF Moves, Holding, Occupying, Settling
<1>2. CASE LinkFails(p)
  BY <1>1, <1>2 DEF LinkFails
<1>3. CASE ChargeEnds(p)
  BY <1>1, <1>3 DEF ChargeEnds
<1> QED BY <1>2, <1>3

-----------------------------------------------------------------------------
(* The actions that take a lease, an entry or an account, and the charge *)

\* A lease that may be taken over is not that of a command-line attempt at work.
LEMMA ClaimableFacts ==
  ASSUME InboxInv, PayersAssumption, NEW b \in Bills, Claimable(b)
  PROVE  ~Working(row[b].claim)
<1> SUFFICES ASSUME Working(row[b].claim) PROVE FALSE
  OBVIOUS
<1> DEFINE c == row[b].claim
<1>1. c \in Cli /\ c \in Payers /\ c \notin Web /\ c # NoOne /\ pay[c].at \notin {"idle", "done"}
  BY DEF Working, Payers, PayersAssumption
<1>2. PayerOK(c)
  BY <1>1, PayFacts
<1> QED BY <1>1, <1>2 DEF Claimable, LeaseLapses, PayerOK, CliPhases, PayersAssumption

LEMMA RenewsClaimKeeps ==
  ASSUME InboxInv, PayersAssumption, NEW w \in Web, RenewsClaim(w)
  PROVE  InboxInv' /\ Kept
<1>1. /\ w \in Payers /\ w \notin Cli /\ TypeOK /\ PayerOK(w) /\ Bill(w) \in Bills
      /\ At(w, "preflight")
  BY PayFacts DEF RenewsClaim, PayerOK, At, InboxInv, Payers, PayersAssumption
<1>2. Path(w, "reserve")
  BY <1>1 DEF Path, Phases, WebPhases, Early, At
<1>3. /\ pay' \in [Payers -> PayType] /\ Goes(w, "reserve") /\ PlaceOK(w, "reserve")
      /\ pay'[w].charge = pay[w].charge
  BY <1>1, <1>2, StepsFacts DEF RenewsClaim
<1>4. /\ UNCHANGED <<snap, bind, job, marked, remote, restarts>>
      /\ \/ row' = row
         \/ row' = [row EXCEPT ![Bill(w)].claim = w] /\ ~Working(row[Bill(w)].claim)
  <2>1. CASE pay[w].via = "claim"
    BY <1>1, <2>1 DEF RenewsClaim, ViaRow, OwnsClaim, Working
  <2>2. CASE pay[w].via = "row"
    BY <1>1, <2>2, ClaimableFacts DEF RenewsClaim, ViaRow
  <2>3. CASE pay[w].via = "link"
    BY <2>3 DEF RenewsClaim, ViaRow
  <2>4. pay[w].via \in {"link", "row", "claim"}
    BY <1>1, PayFacts DEF PayType
  <2> QED BY <2>1, <2>2, <2>3, <2>4
<1>5. /\ row' \in [Bills -> RowType] /\ RowTame
      /\ \A b \in Bills : row'[b].status = row[b].status
  <2>1. row \in [Bills -> RowType]
    BY <1>1 DEF TypeOK, RowType
  <2>2. CASE row' = row
    BY <2>1, <2>2 DEF RowTame
  <2>3. CASE row' = [row EXCEPT ![Bill(w)].claim = w] /\ ~Working(row[Bill(w)].claim)
    <3>1. row' \in [Bills -> RowType]
      BY <1>1, <2>1, <2>3 DEF RowType
    <3>2. /\ \A b \in Bills : b # Bill(w) => row'[b] = row[b]
          /\ row'[Bill(w)].status = row[Bill(w)].status
      BY <1>1, <2>1, <2>3 DEF RowType
    <3> QED BY <2>3, <3>1, <3>2 DEF RowTame
  <2> QED BY <1>4, <2>2, <2>3
<1>6. TypeOK'
  BY <1>1, <1>3, <1>4, <1>5 DEF TypeOK, RowType, BindType, PayType
<1>7. JournalKept(w, "reserve") /\ BindTame(w, "reserve") /\ SettledTame(w, "reserve")
  BY <1>3, <1>4, <1>5 DEF JournalKept, BindTame, SettledTame, Holding, Occupying, Settling
<1> QED BY <1>1, <1>3, <1>5, <1>6, <1>7, StepKeeps DEF StepOK

LEMMA ReservesSnapKeeps ==
  ASSUME InboxInv, PayersAssumption, NEW w \in Web, ReservesSnap(w)
  PROVE  InboxInv' /\ Kept
<1>1. /\ w \in Payers /\ w \notin Cli /\ TypeOK /\ PayerOK(w) /\ Bill(w) \in Bills
      /\ At(w, "reserve")
  BY PayFacts DEF ReservesSnap, PayerOK, At, InboxInv, Payers, PayersAssumption
<1>2. CASE snap[Bill(w)].status \in Free
  <2> DEFINE e == [status |-> "running", owner |-> w]
  <2>1. /\ pay' = [pay EXCEPT ![w].at = "bind", ![w].was = snap[Bill(w)]]
        /\ snap' = [snap EXCEPT ![Bill(w)] = e]
        /\ UNCHANGED <<row, bind, job, marked, remote, restarts>>
    BY <1>2 DEF ReservesSnap, Free
  <2>2. e \in Entry /\ e.owner = Owner(w) /\ e.status \notin Free /\ EntryOK(e)
    BY DEF Entry, JournalStatuses, Owner, Free, Retryable, EntryOK
  <2> HIDE DEF e
  <2>3. snap \in [Bills -> Entry] /\ snap[Bill(w)] \in Entry /\ EntryOK(snap[Bill(w)])
    BY <1>1 DEF TypeOK, Entry, InboxInv, FreeInv
  <2>4. pay \in [Payers -> PayType] /\ pay[w] \in PayType /\ "bind" \in Phases
    BY <1>1, PayFacts DEF Phases
  <2>5. pay' \in [Payers -> PayType]
    BY <2>1, <2>3, <2>4 DEF PayType
  <2>6. /\ pay'[w].at = "bind" /\ pay'[w].bill = pay[w].bill /\ pay'[w].acct = pay[w].acct
        /\ pay'[w].charge = pay[w].charge /\ pay'[w].was = snap[Bill(w)]
        /\ \A q \in Payers \ {w} : pay'[q] = pay[q]
    <3> DEFINE x == snap[Bill(w)]
    <3>1. pay' = [pay EXCEPT ![w].at = "bind", ![w].was = x]
      BY <2>1
    <3> HIDE DEF x
    <3>2. /\ pay'[w].at = "bind" /\ pay'[w].bill = pay[w].bill /\ pay'[w].acct = pay[w].acct
          /\ pay'[w].charge = pay[w].charge /\ pay'[w].was = x
      BY <1>1, <2>4, <3>1 DEF PayType
    <3>3. \A q \in Payers \ {w} : pay'[q] = pay[q]
      BY <1>1, <2>4, <3>1
    <3> QED BY <3>2, <3>3 DEF x
  <2>7. Goes(w, "bind") /\ PlaceOK(w, "bind")
    BY <1>1, <1>2, <2>3, <2>6 DEF Goes, PlaceOK, PayerOK, WebPhases, Early, At
  <2>8. Clean(Bill(w), {}) /\ Clean(Bill(w), {w})
    BY <1>1, <1>2 DEF InboxInv, FreeInv, Clean
  <2>9. JournalWritten(w, "bind", e)
    BY <1>2, <2>1, <2>2, <2>6, <2>8 DEF JournalWritten
  <2>10. snap' \in [Bills -> Entry] /\ \A b \in Bills : snap'[b].status = "success" => snap[b].status = "success"
    <3>1. snap'[Bill(w)] = e /\ \A b \in Bills \ {Bill(w)} : snap'[b] = snap[b]
      BY <1>1, <2>1, <2>3
    <3>2. e.status # "success"
      BY DEF e
    <3> QED BY <2>1, <2>2, <2>3, <3>1, <3>2
  <2>11. TypeOK'
    BY <1>1, <2>1, <2>5, <2>10 DEF TypeOK, PayType
  <2>12. RowTame /\ BindTame(w, "bind") /\ SettledTame(w, "bind")
    BY <2>1, <2>10 DEF RowTame, BindTame, SettledTame, Occupying, Settling
  <2> QED BY <1>1, <2>2, <2>7, <2>9, <2>11, <2>12, StepKeeps DEF StepOK
<1>3. CASE snap[Bill(w)].status \notin Free
  <2>1. Moves(w, "done")
    BY <1>1, <1>3 DEF ReservesSnap, Free, Moves, RowMoves, JournalMoves, BindMoves, JobMoves,
      Holding, Occupying, Settling, At
  <2> QED BY <1>1, <2>1, MovesKeep
<1> QED BY <1>2, <1>3

\* A roll-back, with or without a binding to release.
LEMMA RollbackKeeps ==
  ASSUME InboxInv, PayersAssumption, NEW w \in Web, pay[w].at \in {"bind", "launch"},
         snap' = SnapRestored(w), row' = ReleaseClaim(Bill(w), w), Ends(w),
         bind' = bind \/ bind' = BindingReleased(pay[w].acct, w),
         UNCHANGED <<job, marked, remote, restarts>>
  PROVE  InboxInv' /\ Kept
<1>1. /\ w \in Payers /\ w \notin Cli /\ TypeOK /\ PayerOK(w) /\ Bill(w) \in Bills
      /\ pay[w].acct \in Accounts
  BY PayFacts DEF PayerOK, At, InboxInv, Payers, PayersAssumption
<1>2. /\ pay' \in [Payers -> PayType] /\ Goes(w, "done") /\ PlaceOK(w, "done")
      /\ pay'[w].charge = pay[w].charge
  BY <1>1, EndsFacts
<1> DEFINE e == pay[w].was
<1>3. e \in Entry /\ e.status \in Free /\ EntryOK(e)
  BY <1>1, PayFacts DEF PayType, PayerOK
<1>4. snap[Bill(w)].owner = w /\ Clean(Bill(w), {})
  <2>1. snap[Bill(w)].owner = w /\ Clean(Bill(w), {w}) /\ ~pay[w].charge
    BY <1>1 DEF InboxInv, HoldInv, Holding, Owner, PayerOK, Early
  <2> QED BY <2>1 DEF Clean
<1>5. snap' = [snap EXCEPT ![Bill(w)] = e]
  BY <1>4 DEF SnapRestored
<1> HIDE DEF e
<1>6. JournalWritten(w, "done", e)
  BY <1>2, <1>3, <1>4, <1>5 DEF JournalWritten, Owner, Holding
<1>7. snap' \in [Bills -> Entry] /\ \A b \in Bills : snap'[b].status = "success" => snap[b].status = "success"
  <2>1. snap \in [Bills -> Entry]
    BY <1>1 DEF TypeOK, Entry
  <2>2. snap'[Bill(w)] = e /\ \A b \in Bills \ {Bill(w)} : snap'[b] = snap[b]
    BY <1>1, <1>5, <2>1
  <2> QED BY <1>3, <1>5, <2>1, <2>2 DEF Free, Retryable
<1>8. /\ row' \in [Bills -> RowType] /\ RowTame
      /\ \A b \in Bills : row'[b].status = row[b].status
  BY <1>1, ReleaseFacts DEF RowTame, Working
<1>9. /\ bind' \in [Accounts -> BindType]
      /\ \A a \in Accounts : bind'[a] = bind[a] \/ (bind[a].owner = w /\ bind'[a] = Unbound)
  <2>1. bind \in [Accounts -> BindType]
    BY <1>1 DEF TypeOK, BindType
  <2> QED BY <1>1, <2>1, BindingReleasedFacts
<1>10. TypeOK'
  BY <1>1, <1>2, <1>7, <1>8, <1>9 DEF TypeOK, RowType, BindType, PayType
<1>11. BindTame(w, "done") /\ SettledTame(w, "done")
  BY <1>7, <1>8, <1>9 DEF BindTame, SettledTame, Occupying, Settling, Unbound
<1> QED BY <1>1, <1>2, <1>3, <1>6, <1>8, <1>10, <1>11, StepKeeps DEF StepOK

LEMMA ReservesBindingKeeps ==
  ASSUME InboxInv, PayersAssumption, NEW w \in Web, ReservesBinding(w)
  PROVE  InboxInv' /\ Kept
<1>1. /\ w \in Payers /\ w \notin Cli /\ TypeOK /\ PayerOK(w) /\ Bill(w) \in Bills
      /\ pay[w].acct \in Accounts /\ At(w, "bind")
  BY PayFacts DEF ReservesBinding, PayerOK, At, InboxInv, Payers, PayersAssumption
<1>2. CASE MayBind(pay[w].acct, w, Bill(w), pay[w].prev)
  <2>1. /\ bind' = Bound(pay[w].acct, w, Bill(w)) /\ Steps(w, "launch")
        /\ UNCHANGED <<row, snap, job, marked, remote, restarts>>
    BY <1>2 DEF ReservesBinding
  <2>2. Path(w, "launch")
    BY <1>1 DEF Path, Phases, WebPhases, Early, At
  <2>3. /\ pay' \in [Payers -> PayType] /\ Goes(w, "launch") /\ PlaceOK(w, "launch")
        /\ pay'[w].charge = pay[w].charge
    BY <1>1, <2>1, <2>2, StepsFacts
  <2>4. \A v \in Web \ {w} : bind[pay[w].acct].owner # v
    <3>1. pay[w].prev \in Flows \cup {NoOne}
      BY <1>1, PayFacts DEF PayType
    <3> QED BY <1>2, <3>1 DEF MayBind, PayersAssumption
  <2>5. BindTaken(w, "launch")
    BY <2>1, <2>4 DEF BindTaken
  <2>6. bind \in [Accounts -> BindType]
    BY <1>1 DEF TypeOK, BindType
  <2>7. /\ bind' \in [Accounts -> BindType]
        /\ \A a \in Accounts : bind'[a] = bind[a] \/ bind'[a].status = "reserved"
    <3>1. [status |-> "reserved", owner |-> w, bill |-> Bill(w)] \in BindType
      BY <1>1 DEF BindType
    <3> QED BY <1>1, <2>1, <2>6, <3>1 DEF Bound
  <2>8. TypeOK'
    BY <1>1, <2>1, <2>3, <2>7 DEF TypeOK, BindType, PayType
  <2>9. RowTame /\ JournalKept(w, "launch") /\ SettledTame(w, "launch")
    BY <1>1, <2>1, <2>3, <2>7 DEF RowTame, JournalKept, SettledTame, Holding, Settling, At
  <2> QED BY <1>1, <2>3, <2>5, <2>8, <2>9, StepKeeps DEF StepOK
<1>3. CASE ~MayBind(pay[w].acct, w, Bill(w), pay[w].prev)
  BY <1>3, RollbackKeeps DEF ReservesBinding, At
<1> QED BY <1>2, <1>3

LEMMA LaunchKeeps ==
  ASSUME InboxInv, PayersAssumption, NEW w \in Web, Launches(w) \/ LaunchFails(w)
  PROVE  InboxInv' /\ Kept
<1>1. CASE LaunchFails(w)
  BY <1>1, RollbackKeeps DEF LaunchFails, At
<1>2. CASE Launches(w)
  <2>1. /\ w \in Payers /\ w \notin Cli /\ TypeOK /\ PayerOK(w) /\ At(w, "launch")
    BY <1>2, PayFacts DEF Launches, InboxInv, Payers, PayersAssumption
  <2>2. Path(w, "running")
    BY <2>1 DEF Path, Phases, WebPhases, Early, At
  <2>3. /\ pay' \in [Payers -> PayType] /\ Goes(w, "running") /\ PlaceOK(w, "running")
        /\ pay'[w].charge = pay[w].charge
    BY <1>2, <2>1, <2>2, StepsFacts DEF Launches
  <2>4. /\ job' \in [Web -> JobStatuses] /\ job'[w] = "running"
        /\ \A v \in Web \ {w} : job'[v] = job[v]
    BY <1>2, <2>1 DEF Launches, TypeOK, JobStatuses
  <2>5. TypeOK'
    BY <1>2, <2>1, <2>3, <2>4 DEF Launches, TypeOK, JobStatuses, PayType
  <2>6. /\ RowTame /\ JournalKept(w, "running") /\ BindTame(w, "running")
        /\ SettledTame(w, "running")
    BY <1>2, <2>1, <2>3, <2>4 DEF Launches, RowTame, JournalKept, BindTame, SettledTame,
      Holding, Occupying, Settling, At
  <2> QED BY <2>1, <2>3, <2>5, <2>6, StepKeeps DEF StepOK
<1> QED BY <1>1, <1>2

\* The entry of a payer at its own bill is its own to write.
LEMMA OwnEntryFacts ==
  ASSUME InboxInv, PayersAssumption, NEW p \in Payers, pay[p].at \in Holding,
         NEW e \in {"linking", "charging"}
  PROVE  LET r == Journaled(Bill(p), e, p)
         IN  /\ r \in [Bills -> Entry]
             /\ r[Bill(p)].owner = Owner(p) /\ r[Bill(p)].status = e
             /\ \A b \in Bills \ {Bill(p)} : r[b] = snap[b]
<1>1. TypeOK /\ Bill(p) \in Bills /\ e \in JournalStatuses /\ snap[Bill(p)].owner = Owner(p)
  BY PayFacts DEF PayerOK, At, InboxInv, HoldInv, Holding, JournalStatuses
<1>2. snap \in [Bills -> Entry]
  BY <1>1 DEF TypeOK, Entry
<1> DEFINE x == [status |-> e, owner |-> Owner(p)]
<1>3. x \in Entry /\ x.owner = Owner(p) /\ x.status = e
  BY <1>1 DEF Entry, Owner, Payers
<1>4. Journaled(Bill(p), e, p) = [snap EXCEPT ![Bill(p)] = x]
  BY <1>1 DEF Journaled, MayJournal
<1> HIDE DEF x
<1> QED BY <1>1, <1>2, <1>3, <1>4

LEMMA BeginsLinkingKeeps ==
  ASSUME InboxInv, PayersAssumption, NEW w \in Web, BeginsLinking(w)
  PROVE  InboxInv' /\ Kept
<1>1. /\ w \in Payers /\ w \notin Cli /\ TypeOK /\ PayerOK(w) /\ Bill(w) \in Bills
      /\ At(w, "running") /\ UNCHANGED <<row, bind, job, marked, remote, restarts>>
  BY PayFacts DEF BeginsLinking, PayerOK, At, InboxInv, Payers, PayersAssumption
<1>2. Path(w, "lost") /\ Path(w, "linking")
  BY <1>1 DEF Path, Phases, WebPhases, Early, At
<1>3. CASE pay[w].lost
  <2>1. Moves(w, "lost")
    BY <1>1, <1>2, <1>3 DEF BeginsLinking, Moves, RowMoves, JournalMoves, BindMoves, JobMoves,
      Holding, Occupying, Settling, At
  <2> QED BY <1>1, <2>1, MovesKeep
<1>4. CASE ~pay[w].lost
  <2>1. Steps(w, "linking") /\ snap' = Journaled(Bill(w), "linking", w)
    BY <1>4 DEF BeginsLinking
  <2>2. /\ pay' \in [Payers -> PayType] /\ Goes(w, "linking") /\ PlaceOK(w, "linking")
        /\ pay'[w].charge = pay[w].charge
    BY <1>1, <1>2, <2>1, StepsFacts
  <2>3. /\ snap' \in [Bills -> Entry]
        /\ snap'[Bill(w)].owner = Owner(w) /\ snap'[Bill(w)].status = "linking"
        /\ \A b \in Bills \ {Bill(w)} : snap'[b] = snap[b]
    BY <1>1, <2>1, OwnEntryFacts DEF Holding, At
  <2>4. JournalOwned(w, "linking")
    BY <1>1, <2>2, <2>3 DEF JournalOwned, Holding, Free, Retryable, At, PayerOK, Early
  <2>5. TypeOK'
    BY <1>1, <2>2, <2>3 DEF TypeOK, PayType
  <2>6. RowTame /\ BindTame(w, "linking") /\ SettledTame(w, "linking")
    BY <1>1, <2>3 DEF RowTame, BindTame, SettledTame, Occupying, Settling, At
  <2> QED BY <1>1, <2>2, <2>4, <2>5, <2>6, StepKeeps DEF StepOK
<1> QED BY <1>3, <1>4

LEMMA CliBeginsLinkingKeeps ==
  ASSUME InboxInv, PayersAssumption, NEW c \in Cli, CliBeginsLinking(c)
  PROVE  InboxInv' /\ Kept
<1>1. /\ c \in Payers /\ c \notin Web /\ TypeOK /\ PayerOK(c) /\ Bill(c) \in Bills
      /\ At(c, "claiming_bill") /\ UNCHANGED <<row, bind, job, marked, remote, restarts>>
  BY PayFacts DEF CliBeginsLinking, PayerOK, At, InboxInv, Payers, PayersAssumption
<1>2. Path(c, "reporting_failure") /\ Path(c, "linking")
  BY <1>1 DEF Path, Phases, CliPhases, Early, At
<1>3. CASE ~MayJournal(Bill(c), "linking", c)
  <2>1. Moves(c, "reporting_failure")
    BY <1>1, <1>2, <1>3 DEF CliBeginsLinking, Journaled, Moves, RowMoves, JournalMoves,
      BindMoves, JobMoves, Holding, Occupying, Settling
  <2> QED BY <1>1, <2>1, MovesKeep
<1>4. CASE MayJournal(Bill(c), "linking", c)
  <2> DEFINE e == [status |-> "linking", owner |-> Owner(c)]
  <2>1. Steps(c, "linking") /\ snap' = [snap EXCEPT ![Bill(c)] = e]
    BY <1>4 DEF CliBeginsLinking, Journaled
  <2>2. /\ pay' \in [Payers -> PayType] /\ Goes(c, "linking") /\ PlaceOK(c, "linking")
        /\ pay'[c].charge = pay[c].charge
    BY <1>1, <1>2, <2>1, StepsFacts
  <2>3. /\ e \in Entry /\ e.owner = Owner(c) /\ e.status = "linking"
        /\ EntryOK(e) /\ e.status \notin Free
    BY <1>1 DEF Entry, JournalStatuses, Owner, EntryOK, Free, Retryable, PayersAssumption
  <2> HIDE DEF e
  <2>4. snap[Bill(c)].status \in Free
    <3>1. CASE snap[Bill(c)].owner = CliOwner
      BY <1>1, <3>1 DEF InboxInv, ReadInv
    <3>2. CASE snap[Bill(c)].owner = NoOne
      BY <1>1, <3>2 DEF InboxInv, FreeInv, EntryOK, Free
    <3>3. CASE snap[Bill(c)].owner \notin {CliOwner, NoOne}
      BY <1>1, <1>4, <3>3 DEF MayJournal, Owner, Free
    <3> QED BY <3>1, <3>2, <3>3
  <2>5. Clean(Bill(c), {c})
    BY <1>1, <2>4 DEF InboxInv, FreeInv, Clean
  <2>6. JournalWritten(c, "linking", e)
    BY <1>1, <2>1, <2>2, <2>3, <2>4, <2>5 DEF JournalWritten
  <2>7. /\ snap' \in [Bills -> Entry]
        /\ \A b \in Bills : snap'[b].status = "success" => snap[b].status = "success"
    <3>1. snap \in [Bills -> Entry]
      BY <1>1 DEF TypeOK, Entry
    <3>2. snap'[Bill(c)] = e /\ \A b \in Bills \ {Bill(c)} : snap'[b] = snap[b]
      BY <1>1, <2>1, <3>1
    <3> QED BY <2>1, <2>3, <3>1, <3>2
  <2>8. TypeOK'
    BY <1>1, <2>2, <2>7 DEF TypeOK, PayType
  <2>9. RowTame /\ BindTame(c, "linking") /\ SettledTame(c, "linking")
    BY <1>1, <2>7 DEF RowTame, BindTame, SettledTame, Settling
  <2> QED BY <1>1, <2>2, <2>3, <2>6, <2>8, <2>9, StepKeeps DEF StepOK
<1> QED BY <1>3, <1>4

LEMMA LinksKeeps ==
  ASSUME InboxInv, PayersAssumption, NEW p \in Payers, Links(p)
  PROVE  InboxInv' /\ Kept
<1>1. /\ TypeOK /\ PayerOK(p) /\ Bill(p) \in Bills /\ pay[p].at = "linking"
      /\ UNCHANGED <<row, bind, job, marked, remote, restarts>>
      /\ pay \in [Payers -> PayType] /\ pay[p] \in PayType
  BY PayFacts DEF Links, PayerOK, At, InboxInv
<1>2. /\ pay' \in [Payers -> PayType]
      /\ pay'[p].at = "charging" /\ pay'[p].bill = pay[p].bill /\ pay'[p].acct = pay[p].acct
      /\ pay'[p].charge = ~pay[p].lost /\ pay'[p].lost = pay[p].lost /\ pay'[p].was = pay[p].was
      /\ \A q \in Payers \ {p} : pay'[q] = pay[q]
  <2> DEFINE z == ~pay[p].lost
  <2>1. "charging" \in Phases
    BY DEF Phases
  <2>2. pay' = [pay EXCEPT ![p].at = "charging", ![p].charge = z] /\ z \in BOOLEAN
    BY Zenon DEF Links
  <2> HIDE DEF z
  <2>3. pay' \in [Payers -> PayType]
    BY <1>1, <2>1, <2>2 DEF PayType
  <2>4. /\ pay'[p].at = "charging" /\ pay'[p].bill = pay[p].bill /\ pay'[p].acct = pay[p].acct
        /\ pay'[p].charge = z /\ pay'[p].lost = pay[p].lost /\ pay'[p].was = pay[p].was
        /\ \A q \in Payers \ {p} : pay'[q] = pay[q]
    BY <1>1, <2>2 DEF PayType
  <2> QED BY <2>3, <2>4 DEF z
<1>3. Goes(p, "charging") /\ PlaceOK(p, "charging")
  <2>1. pay'[p].charge \/ pay'[p].lost
    BY <1>2
  <2>2. EntryOK(pay'[p].was)
    BY <1>1, <1>2 DEF PayerOK
  <2> QED BY <1>1, <1>2, <2>1, <2>2 DEF Goes, PlaceOK, WebPhases, CliPhases, Early
<1>4. /\ snap' \in [Bills -> Entry]
      /\ snap'[Bill(p)].owner = Owner(p) /\ snap'[Bill(p)].status \notin Free
      /\ \A b \in Bills \ {Bill(p)} : snap'[b] = snap[b]
      /\ \A b \in Bills : snap'[b].status = "success" => snap[b].status = "success"
  <2>1. CASE snap' = Journaled(Bill(p), "charging", p)
    <3>1. /\ snap' \in [Bills -> Entry]
          /\ snap'[Bill(p)].owner = Owner(p) /\ snap'[Bill(p)].status = "charging"
          /\ \A b \in Bills \ {Bill(p)} : snap'[b] = snap[b]
      BY <1>1, <2>1, OwnEntryFacts DEF Holding
    <3>2. ASSUME NEW b \in Bills, snap'[b].status = "success" PROVE snap[b].status = "success"
      BY <3>1, <3>2
    <3> QED BY <3>1, <3>2 DEF Free, Retryable
  <2>2. CASE snap' = snap
    BY <1>1, <2>2 DEF TypeOK, Entry, InboxInv, HoldInv, Holding
  <2> QED BY <2>1, <2>2 DEF Links
<1>5. JournalOwned(p, "charging")
  BY <1>1, <1>4 DEF JournalOwned, Holding, PayerOK, Early
<1>6. TypeOK'
  BY <1>1, <1>2, <1>4 DEF TypeOK, PayType
<1>7. RowTame /\ BindTame(p, "charging") /\ SettledTame(p, "charging")
  BY <1>1, <1>4 DEF RowTame, BindTame, SettledTame, Occupying, Settling
<1> QED BY <1>3, <1>5, <1>6, <1>7, StepKeeps DEF StepOK

LEMMA ChargesKeeps ==
  ASSUME InboxInv, PayersAssumption, NEW p \in Payers, Charges(p)
  PROVE  InboxInv' /\ Kept
<1>1. /\ TypeOK /\ PayerOK(p) /\ Bill(p) \in Bills /\ At(p, "charging")
      /\ UNCHANGED <<row, snap, bind, job, marked, restarts>>
  BY PayFacts DEF Charges, PayerOK, At, InboxInv
<1>2. CASE pay[p].lost
  <2>1. Path(p, "lost")
    BY <1>1 DEF Path, Phases, WebPhases, CliPhases, Early, At
  <2>2. Moves(p, "lost")
    BY <1>1, <1>2, <2>1 DEF Charges, Moves, RowMoves, JournalMoves, BindMoves, JobMoves,
      Holding, Occupying, Settling, At
  <2> QED BY <2>2, MovesKeep
<1>3. CASE ~pay[p].lost
  <2>1. Path(p, "charged") /\ Steps(p, "charged")
    BY <1>1, <1>3 DEF Charges, Path, Phases, WebPhases, CliPhases, Early, At, PayerOK
  <2>2. /\ pay' \in [Payers -> PayType] /\ Goes(p, "charged") /\ PlaceOK(p, "charged")
        /\ pay'[p].charge
    BY <1>1, <1>3, <2>1, StepsFacts DEF PayerOK
  <2>3. remote \in [Bills -> {"open", "pending", "settled", "denied"}]
    BY <1>1 DEF TypeOK
  <2>4. /\ remote' \in [Bills -> {"open", "pending", "settled", "denied"}]
        /\ \A b \in Bills \ {Bill(p)} : remote'[b] = remote[b]
        /\ remote[Bill(p)] = "settled" => remote'[Bill(p)] = "settled"
    <3>1. CASE remote[Bill(p)] \in {"open", "denied"}
      <4>1. PICK s \in {remote[Bill(p)], "pending", "settled", "denied"} :
                   remote' = [remote EXCEPT ![Bill(p)] = s]
        BY <1>3, <3>1 DEF Charges
      <4> QED BY <1>1, <2>3, <3>1, <4>1
    <3>2. CASE remote[Bill(p)] \notin {"open", "denied"}
      BY <1>3, <2>3, <3>2 DEF Charges
    <3> QED BY <3>1, <3>2
  <2>5. JournalOwned(p, "charged")
    BY <1>1, <2>2, <2>4 DEF JournalOwned, InboxInv, HoldInv, Holding, At
  <2>6. TypeOK'
    BY <1>1, <2>2, <2>4 DEF TypeOK, PayType
  <2>7. RowTame /\ BindTame(p, "charged") /\ SettledTame(p, "charged")
    BY <1>1, <2>4 DEF RowTame, BindTame, SettledTame, Occupying, Settling, At
  <2> QED BY <2>2, <2>5, <2>6, <2>7, StepKeeps DEF StepOK
<1> QED BY <1>2, <1>3

LEMMA HeartbeatLosesKeeps ==
  ASSUME InboxInv, PayersAssumption, NEW p \in Payers, HeartbeatLoses(p)
  PROVE  InboxInv' /\ Kept
<1> DEFINE s == pay[p].at
<1>1. /\ TypeOK /\ PayerOK(p) /\ s \in {"running", "checking", "linking", "charging", "charged"}
      /\ UNCHANGED <<row, snap, bind, job, marked, remote, restarts>>
      /\ pay \in [Payers -> PayType] /\ pay[p] \in PayType
      /\ pay' = [pay EXCEPT ![p].lost = TRUE]
  BY PayFacts DEF HeartbeatLoses, InboxInv
<1>2. /\ pay' \in [Payers -> PayType]
      /\ pay'[p].at = s /\ pay'[p].bill = pay[p].bill /\ pay'[p].acct = pay[p].acct
      /\ pay'[p].charge = pay[p].charge /\ pay'[p].lost /\ pay'[p].was = pay[p].was
      /\ \A q \in Payers \ {p} : pay'[q] = pay[q]
  <2>1. pay' \in [Payers -> PayType]
    BY <1>1 DEF PayType
  <2>2. /\ pay'[p].at = s /\ pay'[p].bill = pay[p].bill /\ pay'[p].acct = pay[p].acct
        /\ pay'[p].charge = pay[p].charge /\ pay'[p].lost = TRUE /\ pay'[p].was = pay[p].was
        /\ \A q \in Payers \ {p} : pay'[q] = pay[q]
    BY <1>1 DEF PayType
  <2> QED BY <2>1, <2>2
<1>3. Goes(p, s) /\ PlaceOK(p, s)
  BY <1>1, <1>2 DEF Goes, PlaceOK, PayerOK, At
<1>4. TypeOK'
  BY <1>1, <1>2 DEF TypeOK, PayType
<1>5. RowTame /\ JournalKept(p, s) /\ BindTame(p, s) /\ SettledTame(p, s)
  BY <1>1, <1>2 DEF RowTame, JournalKept, BindTame, SettledTame, At
<1> QED BY <1>3, <1>4, <1>5, StepKeeps DEF StepOK

-----------------------------------------------------------------------------
(* The other actions *)

\* A new attempt takes a bill nobody at work has the lease of.
Enters(p) ==
  /\ At(p, "idle")
  /\ pay' \in [Payers -> PayType]
  /\ pay'[p].at = IF p \in Web THEN "preflight" ELSE "claimed"
  /\ pay'[p].bill \in Bills /\ (p \in Web => pay'[p].acct \in Accounts)
  /\ pay'[p].charge = pay[p].charge /\ pay'[p].was = pay[p].was
  /\ \A q \in Payers \ {p} : pay'[q] = pay[q]
  /\ row' \in [Bills -> RowType]
  /\ \A b \in Bills :
       /\ row'[b].status = row[b].status
       /\ row'[b].claim = row[b].claim \/ ~Working(row[b].claim)
  /\ p \in Cli => /\ row[pay'[p].bill].status = "pending"
                  /\ row'[pay'[p].bill].claim = p
                  /\ ~Working(row[pay'[p].bill].claim)
  /\ UNCHANGED <<snap, bind, job, marked, remote, restarts>>

LEMMA EntersKeeps ==
  ASSUME InboxInv, PayersAssumption, NEW p \in Payers, Enters(p)
  PROVE  InboxInv' /\ Kept
<1>1. /\ TypeOK /\ ClaimInv /\ HoldInv /\ FreeInv /\ ReadInv /\ BindInv /\ SettledInv
      /\ PayerOK(p) /\ pay[p].at = "idle" /\ UNCHANGED <<snap, bind, job, marked, remote, restarts>>
  BY DEF InboxInv, Enters, At
<1>2. /\ pay'[p].at \in {"preflight", "claimed"} /\ ~pay'[p].charge
      /\ \A q \in Payers \ {p} : pay'[q] = pay[q]
  BY <1>1 DEF Enters, PayerOK, Early
<1>3. \A x, ps : Clean(x, ps) => Clean(x, ps)'
  BY <1>1, <1>2 DEF Clean, Bill
<1>4. \A q \in Payers : PayerOK(q)'
  <2>1. PayerOK(p)'
    <3>1. (p \in Web => pay'[p].at = "preflight") /\ (p \in Cli => pay'[p].at = "claimed")
      BY DEF Enters, PayersAssumption
    <3>2. EntryOK(pay'[p].was)
      BY <1>1 DEF Enters, PayerOK
    <3> QED BY <1>2, <3>1, <3>2 DEF Enters, PayerOK, At, Bill, WebPhases, CliPhases
  <2>2. ASSUME NEW q \in Payers, q # p PROVE PayerOK(q)'
    <3>1. pay'[q] = pay[q] /\ PayerOK(q)
      BY <1>2, <2>2 DEF InboxInv
    <3> QED BY <3>1 DEF PayerOK, At, Bill
  <2> QED BY <2>1, <2>2
<1>5. ClaimInv'
  <2>1. \A c \in Cli : c \in Payers
    BY DEF Payers
  <2>2. ASSUME NEW c \in Cli, Working(c)', c # p
        PROVE  /\ Working(c) /\ pay'[c] = pay[c] /\ pay[c].bill \in Bills
               /\ row[pay[c].bill].status # "absent"
               /\ row[pay[c].bill].status = "pending" => row[pay[c].bill].claim = c
    <3>1. pay'[c] = pay[c]
      BY <1>2, <2>1, <2>2
    <3>2. Working(c)
      BY <2>2, <3>1 DEF Working
    <3>3. PayerOK(c)
      BY <2>1 DEF InboxInv
    <3> QED BY <1>1, <3>1, <3>2, <3>3 DEF ClaimInv, PayerOK, Working, At, Bill
  <2>3. ASSUME NEW c \in Cli, Working(c)'
        PROVE  /\ row'[pay'[c].bill].status # "absent"
               /\ row'[pay'[c].bill].status = "pending" => row'[pay'[c].bill].claim = c
    <3>1. CASE c = p
      BY <3>1 DEF Enters
    <3>2. CASE c # p
      BY <2>2, <2>3, <3>2 DEF Enters
    <3> QED BY <3>1, <3>2
  <2>4. ASSUME NEW c \in Cli, Working(c)', c # p, p \in Cli, pay'[c].bill = pay'[p].bill
        PROVE  FALSE
    BY <2>2, <2>4 DEF Enters
  <2>5. ASSUME NEW c \in Cli, NEW d \in Cli, Working(c)', Working(d)', pay'[c].bill = pay'[d].bill
        PROVE  c = d
    <3>1. CASE c = p \/ d = p
      BY <2>4, <2>5, <3>1
    <3>2. CASE c # p /\ d # p
      BY <1>1, <2>2, <2>5, <3>2 DEF ClaimInv, Bill
    <3> QED BY <3>1, <3>2
  <2> QED BY <2>3, <2>5 DEF ClaimInv, Bill
<1>6. HoldInv'
  <2> SUFFICES ASSUME NEW q \in Payers, pay'[q].at \in Holding
               PROVE  /\ snap'[pay'[q].bill].owner = Owner(q)
                      /\ snap'[pay'[q].bill].status \notin Free
                      /\ ~pay'[q].charge \/ pay'[q].at = "charging" => Clean(pay[q].bill, {q})'
                      /\ pay'[q].at = "denied" => remote'[pay'[q].bill] = "denied"
    BY DEF HoldInv, At, Bill, Clean
  <2>1. pay'[q] = pay[q]
    BY <1>2 DEF Holding
  <2> QED BY <1>1, <1>3, <2>1 DEF HoldInv, At, Bill
<1>7. FreeInv'
  BY <1>1, <1>3 DEF FreeInv, EntryOK
<1>8. ReadInv'
  <2>1. \A c \in Cli : c \in Payers
    BY DEF Payers
  <2> QED BY <1>1, <1>2, <2>1 DEF ReadInv, At, Bill
<1>9. BindInv'
  <2>1. \A w \in Web : w \in Payers
    BY DEF Payers
  <2>2. \A w \in Web : pay'[w].at \in Occupying => bind'[pay'[w].acct].owner = w
    BY <1>1, <1>2, <2>1 DEF BindInv, Occupying
  <2>3. \A a \in Accounts : bind'[a].owner \in Web =>
          pay'[bind'[a].owner].at # "idle" /\ bind'[a].bill = pay'[bind'[a].owner].bill
    BY <1>1, <1>2, <2>1 DEF BindInv, At, Bill
  <2>4. \A w \in Web : job'[w] # "none" => pay'[w].at # "idle"
    BY <1>1, <1>2, <2>1 DEF BindInv, At
  <2> QED BY <1>1, <2>2, <2>3, <2>4 DEF BindInv, At, Bill
<1>10. SettledInv'
  <2>1. \A w \in Web : w \in Payers
    BY DEF Payers
  <2>2. ASSUME NEW w \in Web, job'[w] \in {"success", "success_unreconciled"}
        PROVE  remote'[pay'[w].bill] = "settled"
    <3>1. w # p
      BY <1>1, <2>2 DEF BindInv, At
    <3> QED BY <1>1, <1>2, <2>1, <2>2, <3>1 DEF SettledInv, PaidIsSettled, Bill
  <2>3. ASSUME NEW q \in Payers, pay'[q].at \in Settling PROVE remote'[pay'[q].bill] = "settled"
    <3>1. q # p
      BY <1>2, <2>3 DEF Settling
    <3> QED BY <1>1, <1>2, <2>3, <3>1 DEF SettledInv, Bill
  <2>4. /\ \A b \in Bills : snap'[b].status = "success" \/ row'[b].status = "paid" => remote'[b] = "settled"
        /\ \A a \in Accounts : bind'[a].status = "success" => remote'[bind'[a].bill] = "settled"
    BY <1>1 DEF SettledInv, PaidIsSettled, Enters
  <2> QED BY <2>2, <2>3, <2>4 DEF SettledInv, PaidIsSettled, Bill
<1>11. TypeOK'
  BY <1>1 DEF TypeOK, Enters, RowType, PayType
<1>12. Kept
  <2>1. \A w \in Web : w \in Payers
    BY DEF Payers
  <2> QED BY <1>1, <1>2, <2>1 DEF Kept
<1> QED BY <1>4, <1>5, <1>6, <1>7, <1>8, <1>9, <1>10, <1>11, <1>12 DEF InboxInv

LEMMA StartsKeeps ==
  ASSUME InboxInv, PayersAssumption, NEW w \in Web, NEW b \in Bills, NEW a \in Accounts,
         NEW prev \in Flows \cup {NoOne}, NEW via \in {"link", "row", "claim"},
         Starts(w, b, a, prev, via)
  PROVE  InboxInv' /\ Kept
<1>1. /\ w \in Payers /\ w \notin Cli /\ TypeOK /\ pay \in [Payers -> PayType]
      /\ row \in [Bills -> RowType] /\ pay[w] \in PayType /\ "preflight" \in Phases
  BY PayFacts DEF InboxInv, Payers, PayersAssumption, TypeOK, RowType, Phases
<1>2. pay' = [pay EXCEPT ![w].at = "preflight", ![w].bill = b, ![w].acct = a,
                         ![w].prev = prev, ![w].via = via]
  BY DEF Starts
<1>3. /\ pay' \in [Payers -> PayType]
      /\ pay'[w].at = "preflight" /\ pay'[w].bill = b /\ pay'[w].acct = a
      /\ pay'[w].charge = pay[w].charge /\ pay'[w].was = pay[w].was
      /\ \A q \in Payers \ {w} : pay'[q] = pay[q]
  BY <1>1, <1>2 DEF PayType
<1>4. /\ row' \in [Bills -> RowType]
      /\ \A x \in Bills : /\ row'[x].status = row[x].status
                          /\ row'[x].claim = row[x].claim \/ ~Working(row[x].claim)
  <2>1. CASE via = "claim"
    <3>1. row' = [row EXCEPT ![b].claim = w] /\ ~Working(row[b].claim)
      BY <2>1, ClaimableFacts DEF Starts
    <3>2. row' \in [Bills -> RowType]
      BY <1>1, <3>1 DEF RowType
    <3>3. /\ row'[b].status = row[b].status
          /\ \A x \in Bills : x # b => row'[x] = row[x]
      BY <1>1, <3>1 DEF RowType
    <3> QED BY <3>1, <3>2, <3>3
  <2>2. CASE via # "claim"
    BY <1>1, <2>2 DEF Starts
  <2> QED BY <2>1, <2>2
<1>5. Enters(w)
  BY <1>1, <1>3, <1>4 DEF Enters, Starts
<1> QED BY <1>1, <1>5, EntersKeeps

LEMMA CliClaimsKeeps ==
  ASSUME InboxInv, PayersAssumption, NEW c \in Cli, NEW b \in Bills, CliClaims(c, b)
  PROVE  InboxInv' /\ Kept
<1>1. /\ c \in Payers /\ c \notin Web /\ TypeOK /\ pay \in [Payers -> PayType]
      /\ row \in [Bills -> RowType] /\ pay[c] \in PayType /\ "claimed" \in Phases
  BY PayFacts DEF InboxInv, Payers, PayersAssumption, TypeOK, RowType, Phases
<1>2. /\ pay' = [pay EXCEPT ![c].at = "claimed", ![c].bill = b, ![c].via = "claim"]
      /\ row' = [row EXCEPT ![b].claim = c] /\ ~Working(row[b].claim)
  BY ClaimableFacts DEF CliClaims
<1>3. /\ pay' \in [Payers -> PayType]
      /\ pay'[c].at = "claimed" /\ pay'[c].bill = b
      /\ pay'[c].charge = pay[c].charge /\ pay'[c].was = pay[c].was
      /\ \A q \in Payers \ {c} : pay'[q] = pay[q]
  BY <1>1, <1>2 DEF PayType
<1>4. row' \in [Bills -> RowType]
  BY <1>1, <1>2 DEF RowType
<1>5. /\ row'[b].status = row[b].status /\ row'[b].claim = c
      /\ \A x \in Bills : x # b => row'[x] = row[x]
  BY <1>1, <1>2 DEF RowType
<1>6. Enters(c)
  BY <1>1, <1>2, <1>3, <1>4, <1>5 DEF Enters, CliClaims, Claimable
<1> QED BY <1>1, <1>6, EntersKeeps

LEMMA InboxStepsKeep ==
  ASSUME InboxInv, NEW b \in Bills, Create(b) \/ RowCloses(b) \/ RemoteMoves(b)
  PROVE  InboxInv' /\ Kept
<1>1. /\ TypeOK /\ ClaimInv /\ HoldInv /\ FreeInv /\ ReadInv /\ BindInv /\ SettledInv
      /\ \A p \in Payers : PayerOK(p)
  BY DEF InboxInv
<1>2. row \in [Bills -> RowType] /\ remote \in [Bills -> {"open", "pending", "settled", "denied"}]
  BY <1>1 DEF TypeOK, RowType
<1>3. CASE Create(b) \/ RowCloses(b)
  <2>1. /\ UNCHANGED <<snap, bind, job, marked, pay, remote, restarts>>
        /\ \/ row[b].status = "absent" /\ row' = [row EXCEPT ![b].status = "pending"]
           \/ row[b].status = "pending" /\ \E s \in {"closed", "by_hand"} :
                row' = [row EXCEPT ![b].status = s]
    BY <1>3 DEF Create, RowCloses
  <2>2. row' \in [Bills -> RowType]
    BY <1>2, <2>1 DEF RowType
  <2>3. /\ \/ row[b].status = "absent" /\ row'[b].status = "pending"
           \/ row[b].status = "pending" /\ row'[b].status \in {"closed", "by_hand"}
        /\ \A x \in Bills : x # b => row'[x] = row[x]
    BY <1>2, <2>1 DEF RowType
  <2>4. ClaimInv'
    <3>1. ASSUME NEW c \in Cli, Working(c)'
          PROVE  /\ row'[pay'[c].bill].status # "absent"
                 /\ row'[pay'[c].bill].status = "pending" => row'[pay'[c].bill].claim = c
      <4>1. Working(c) /\ pay' = pay
        BY <2>1, <3>1 DEF Working
      <4>2. pay[c].bill \in Bills
        BY <1>1, <4>1 DEF Working, PayerOK, Payers, At, Bill
      <4> QED BY <1>1, <2>3, <4>1, <4>2 DEF ClaimInv, Bill
    <3> QED BY <1>1, <2>1, <3>1 DEF ClaimInv, Working, Bill
  <2>5. (\A p \in Payers : PayerOK(p))' /\ HoldInv' /\ FreeInv' /\ ReadInv' /\ BindInv'
    BY <1>1, <2>1 DEF PayerOK, HoldInv, FreeInv, ReadInv, BindInv, Clean, At, Bill, EntryOK
  <2>6. SettledInv'
    BY <1>1, <2>1, <2>3 DEF SettledInv, PaidIsSettled, Bill
  <2>7. TypeOK'
    BY <1>1, <2>1, <2>2 DEF TypeOK, RowType
  <2> QED BY <2>1, <2>4, <2>5, <2>6, <2>7 DEF InboxInv, Kept
<1>4. CASE RemoteMoves(b)
  <2>1. /\ UNCHANGED <<row, snap, bind, job, marked, pay, restarts>>
        /\ remote' \in [Bills -> {"open", "pending", "settled", "denied"}]
        /\ \A x \in Bills : /\ remote[x] = "settled" => remote'[x] = "settled"
                            /\ remote[x] = "denied" => remote'[x] = "denied"
                            /\ remote[x] = "open" => remote'[x] \in {"open", "denied"}
    BY <1>2, <1>4 DEF RemoteMoves
  <2>2. \A x \in Bills, ps \in SUBSET Payers : Clean(x, ps) => Clean(x, ps)'
    BY <2>1 DEF Clean, Bill
  <2>3. HoldInv'
    <3> SUFFICES ASSUME NEW q \in Payers, pay'[q].at \in Holding
                 PROVE  /\ snap'[pay'[q].bill].owner = Owner(q)
                        /\ snap'[pay'[q].bill].status \notin Free
                        /\ ~pay'[q].charge \/ pay'[q].at = "charging" => Clean(pay[q].bill, {q})'
                        /\ pay'[q].at = "denied" => remote'[pay'[q].bill] = "denied"
      BY DEF HoldInv, At, Bill, Clean
    <3>1. pay[q].bill \in Bills
      BY <1>1, <2>1 DEF PayerOK, Holding, At, Bill
    <3> QED BY <1>1, <2>1, <2>2, <3>1 DEF HoldInv, At, Bill
  <2>4. FreeInv'
    BY <1>1, <2>1, <2>2 DEF FreeInv, EntryOK
  <2>5. (\A p \in Payers : PayerOK(p))' /\ ClaimInv' /\ ReadInv' /\ BindInv'
    BY <1>1, <2>1 DEF PayerOK, ClaimInv, Working, ReadInv, BindInv, At, Bill
  <2>6. SettledInv'
    <3>1. \A b1 \in Bills : snap'[b1].status = "success" \/ row'[b1].status = "paid" => remote'[b1] = "settled"
      BY <1>1, <2>1 DEF SettledInv, PaidIsSettled
    <3>2. \A a \in Accounts : bind'[a].status = "success" => remote'[bind'[a].bill] = "settled"
      BY <1>1, <2>1 DEF SettledInv, PaidIsSettled, BindInv
    <3>3. ASSUME NEW w \in Web, job'[w] \in {"success", "success_unreconciled"}
          PROVE  remote'[pay'[w].bill] = "settled"
      <4>1. pay[w].bill \in Bills
        BY <1>1, <2>1, <3>3 DEF BindInv, PayerOK, Payers, At, Bill
      <4> QED BY <1>1, <2>1, <3>3, <4>1 DEF SettledInv, PaidIsSettled, Bill
    <3>4. ASSUME NEW q \in Payers, pay'[q].at \in Settling
          PROVE  remote'[pay'[q].bill] = "settled"
      <4>1. pay[q].bill \in Bills
        BY <1>1, <2>1, <3>4 DEF PayerOK, Settling, At, Bill
      <4> QED BY <1>1, <2>1, <3>4, <4>1 DEF SettledInv, Bill
    <3> QED BY <3>1, <3>2, <3>3, <3>4 DEF SettledInv, PaidIsSettled, Bill
  <2>7. TypeOK'
    BY <1>1, <2>1 DEF TypeOK
  <2>8. Kept
    BY <2>1 DEF Kept
  <2> QED BY <2>3, <2>4, <2>5, <2>6, <2>7, <2>8 DEF InboxInv
<1> QED BY <1>3, <1>4

LEMMA RestartKeeps ==
  ASSUME InboxInv, PayersAssumption, Restart
  PROVE  InboxInv' /\ Kept
<1>1. /\ TypeOK /\ ClaimInv /\ HoldInv /\ FreeInv /\ ReadInv /\ BindInv /\ SettledInv
      /\ \A p \in Payers : PayerOK(p)
      /\ UNCHANGED <<row, bind, remote>>
  BY DEF InboxInv, Restart
<1>2. /\ pay \in [Payers -> PayType] /\ snap \in [Bills -> Entry] /\ job \in [Web -> JobStatuses]
  BY <1>1 DEF TypeOK, PayType, JobStatuses
<1>3. \A p \in Payers : p \in Cli \/ At(p, "idle") => pay'[p] = pay[p]
  BY DEF Restart
<1>4. ASSUME NEW p \in Payers, p \notin Cli, ~At(p, "idle")
      PROVE  /\ pay'[p].at \in {"recover", "done"} /\ pay'[p].bill = pay[p].bill
             /\ pay'[p].acct = pay[p].acct /\ pay'[p].charge = pay[p].charge
             /\ pay'[p].was = Untouched /\ pay'[p] \in PayType
  <2> DEFINE s == IF job[p] \in Unresolved THEN "recover" ELSE "done"
  <2>1. s \in {"recover", "done"}
    OBVIOUS
  <2>2. s \in Phases
    BY <2>1 DEF Phases
  <2>3. Untouched \in Entry
    BY DEF Untouched, Entry, JournalStatuses
  <2>4. pay'[p] = [pay[p] EXCEPT !.at = s, !.lost = FALSE, !.was = Untouched]
    BY <1>4 DEF Restart
  <2> HIDE DEF s
  <2>5. pay[p] \in PayType
    BY <1>2
  <2> QED BY <2>1, <2>2, <2>3, <2>4, <2>5 DEF PayType
<1>5. /\ pay' \in [Payers -> PayType]
      /\ \A p \in Payers : /\ pay'[p].bill = pay[p].bill /\ pay'[p].acct = pay[p].acct
                           /\ pay'[p].charge = pay[p].charge
                           /\ pay'[p].at = "idle" <=> pay[p].at = "idle"
  <2>1. \E f : pay' = [p \in Payers |-> f[p]]
    <3>1. pay' = [p \in Payers |-> pay'[p]]
      BY DEF Restart
    <3> QED BY <3>1
  <2>2. \A p \in Payers : pay'[p] \in PayType
    BY <1>2, <1>3, <1>4
  <2> QED BY <1>3, <1>4, <2>1, <2>2 DEF At
<1>6. ASSUME NEW b \in Bills
      PROVE  /\ snap'[b] \in Entry /\ snap'[b].owner = snap[b].owner
             /\ \/ snap'[b].status = snap[b].status
                \/ snap[b].owner \in Web /\ snap'[b].status = "interrupted_unknown"
  <2> DEFINE hit == Interrupted # {} /\ \E w \in marked' : job[w] # "cleared" /\ Bill(w) = b /\ snap[b].owner = w
  <2>1. snap'[b] = IF hit THEN [snap[b] EXCEPT !.status = "interrupted_unknown"] ELSE snap[b]
    BY DEF Restart
  <2>2. hit => snap[b].owner \in Web
    BY <1>1 DEF Restart, Interrupted, TypeOK
  <2> HIDE DEF hit
  <2>3. snap[b] \in Entry /\ "interrupted_unknown" \in JournalStatuses
    BY <1>2 DEF JournalStatuses
  <2>4. CASE hit
    <3>1. /\ snap'[b] \in Entry /\ snap'[b].owner = snap[b].owner
          /\ snap'[b].status = "interrupted_unknown"
      BY <2>1, <2>3, <2>4 DEF Entry
    <3> QED BY <2>2, <2>4, <3>1
  <2>5. CASE ~hit
    BY <2>1, <2>3, <2>5
  <2> QED BY <2>4, <2>5
<1>7. ASSUME NEW w \in Web
      PROVE  /\ job'[w] \in JobStatuses
             /\ job'[w] = job[w] \/ (job[w] = "running" /\ job'[w] = "interrupted_unknown")
  BY <1>2 DEF Restart, Interrupted, JobStatuses
<1>8. TypeOK'
  <2>1. snap' \in [Bills -> Entry]
    <3>1. snap' = [b \in Bills |-> snap'[b]]
      BY DEF Restart
    <3> QED BY <1>6, <3>1
  <2>2. job' \in [Web -> JobStatuses]
    <3>1. job' = [w \in Web |-> job'[w]]
      BY DEF Restart
    <3> QED BY <1>7, <3>1
  <2>3. marked' \subseteq Web
    BY <1>1 DEF Restart, Interrupted, TypeOK
  <2>4. restarts' \in 0..MaxRestarts
    <3>1. restarts < MaxRestarts /\ restarts' = restarts + 1
      BY DEF Restart
    <3>2. restarts \in 0..MaxRestarts /\ MaxRestarts \in Nat
      BY <1>1 DEF TypeOK, PayersAssumption
    <3> QED BY <3>1, <3>2
  <2> QED BY <1>1, <1>5, <2>1, <2>2, <2>3, <2>4 DEF TypeOK, PayType, JobStatuses
<1>9. \A p \in Payers : PayerOK(p)'
  <2>1. ASSUME NEW p \in Payers, p \in Cli \/ At(p, "idle") PROVE PayerOK(p)'
    <3>1. pay'[p] = pay[p] /\ PayerOK(p)
      BY <1>1, <1>3, <2>1
    <3> QED BY <3>1 DEF PayerOK, At, Bill
  <2>2. ASSUME NEW p \in Payers, p \notin Cli, ~At(p, "idle") PROVE PayerOK(p)'
    <3>1. PayerOK(p)
      BY <1>1
    <3>2. EntryOK(pay'[p].was)
      BY <1>4, <2>2 DEF EntryOK, Untouched
    <3> QED BY <1>4, <2>2, <3>1, <3>2 DEF PayerOK, At, Bill, WebPhases, Early
  <2> QED BY <2>1, <2>2
<1>10. \A x \in Bills, ps \in SUBSET Payers : Clean(x, ps) => Clean(x, ps)'
  BY <1>1, <1>5 DEF Clean, Bill
<1>11. ClaimInv'
  <2>1. \A c \in Cli : pay'[c] = pay[c]
    BY <1>3 DEF Payers
  <2> QED BY <1>1, <2>1 DEF ClaimInv, Working, Bill
<1>12. ASSUME NEW q \in Payers, pay'[q].at \in Holding \cup Occupying \cup Settling \cup {"claiming_bill"}
       PROVE  q \in Cli /\ pay'[q] = pay[q] /\ pay[q].bill \in Bills
  <2>1. q \in Cli /\ pay'[q] = pay[q]
    BY <1>3, <1>4, <1>12 DEF At, Holding, Occupying, Settling
  <2> QED BY <1>1, <1>12, <2>1 DEF PayerOK, At, Bill, Holding, Occupying, Settling
<1>13. HoldInv'
  <2> SUFFICES ASSUME NEW q \in Payers, pay'[q].at \in Holding
               PROVE  /\ snap'[pay'[q].bill].owner = Owner(q)
                      /\ snap'[pay'[q].bill].status \notin Free
                      /\ ~pay'[q].charge \/ pay'[q].at = "charging" => Clean(pay[q].bill, {q})'
                      /\ pay'[q].at = "denied" => remote'[pay'[q].bill] = "denied"
    BY DEF HoldInv, At, Bill, Clean
  <2>1. q \in Cli /\ pay'[q] = pay[q] /\ pay[q].bill \in Bills
    BY <1>12
  <2>2. /\ snap[pay[q].bill].owner = Owner(q) /\ snap[pay[q].bill].status \notin Free
        /\ ~pay[q].charge \/ pay[q].at = "charging" => Clean(pay[q].bill, {q})
        /\ pay[q].at = "denied" => remote[pay[q].bill] = "denied"
    BY <1>1, <2>1 DEF HoldInv, At, Bill
  <2> QED BY <1>1, <1>6, <1>10, <2>1, <2>2 DEF Free, Retryable
<1>14. FreeInv'
  <2>1. ASSUME NEW b \in Bills PROVE EntryOK(snap'[b])
    BY <1>1, <1>6 DEF FreeInv, EntryOK, PayersAssumption
  <2>2. ASSUME NEW b \in Bills, snap'[b].status \in Free PROVE Clean(b, {})'
    <3>1. snap[b].status \in Free
      BY <1>6, <2>2 DEF Free, Retryable
    <3> QED BY <1>1, <1>10, <3>1 DEF FreeInv
  <2> QED BY <2>1, <2>2 DEF FreeInv
<1>15. ReadInv'
  <2> SUFFICES ASSUME NEW c \in Cli, pay'[c].at = "claiming_bill", snap'[pay'[c].bill].owner = CliOwner
               PROVE  snap'[pay'[c].bill].status \in Free
    BY DEF ReadInv, At, Bill
  <2>1. pay'[c] = pay[c] /\ pay[c].bill \in Bills
    BY <1>12 DEF Payers
  <2> QED BY <1>1, <1>6, <2>1 DEF ReadInv, At, Bill, PayersAssumption
<1>16. BindInv'
  <2>1. \A w \in Web : w \in Payers /\ w \notin Cli
    BY DEF Payers, PayersAssumption
  <2>2. \A w \in Web : pay'[w].at \notin Occupying
    BY <1>12, <2>1
  <2>3. \A w \in Web : job'[w] # "none" => job[w] # "none"
    BY <1>7
  <2> QED BY <1>1, <1>5, <2>1, <2>2, <2>3 DEF BindInv, At, Bill
<1>17. SettledInv'
  <2>1. \A w \in Web : job'[w] \in {"success", "success_unreconciled"} => job'[w] = job[w]
    BY <1>7
  <2>2. \A b \in Bills : snap'[b].status = "success" => snap[b].status = "success"
    BY <1>6
  <2>3. \A w \in Web : w \in Payers
    BY DEF Payers
  <2>4. PaidIsSettled'
    BY <1>1, <1>5, <2>1, <2>2, <2>3 DEF SettledInv, PaidIsSettled, Bill
  <2>5. \A q \in Payers : pay'[q].at \in Settling => remote'[pay'[q].bill] = "settled"
    BY <1>1, <1>12 DEF SettledInv, Bill
  <2> QED BY <2>4, <2>5 DEF SettledInv, Bill
<1>18. Kept
  BY <1>1, <1>5 DEF Kept, Payers
<1> QED BY <1>8, <1>9, <1>11, <1>13, <1>14, <1>15, <1>16, <1>17, <1>18 DEF InboxInv

LEMMA ClearFinishedKeeps ==
  ASSUME InboxInv, ClearFinished
  PROVE  InboxInv' /\ Kept
<1>1. /\ TypeOK /\ ClaimInv /\ HoldInv /\ FreeInv /\ ReadInv /\ BindInv /\ SettledInv
      /\ \A p \in Payers : PayerOK(p)
      /\ UNCHANGED <<row, snap, bind, marked, pay, remote, restarts>>
  BY DEF InboxInv, ClearFinished
<1>2. /\ job' \in [Web -> JobStatuses]
      /\ \A w \in Web : \/ job'[w] = job[w]
                        \/ job[w] \in {"success", "failed"} /\ job'[w] = "cleared"
  BY <1>1 DEF ClearFinished, TypeOK, JobStatuses
<1>3. TypeOK'
  BY <1>1, <1>2 DEF TypeOK, JobStatuses
<1>4. (\A p \in Payers : PayerOK(p))' /\ ClaimInv' /\ HoldInv' /\ FreeInv' /\ ReadInv'
  BY <1>1 DEF PayerOK, ClaimInv, Working, HoldInv, FreeInv, ReadInv, Clean, EntryOK, At, Bill
<1>5. BindInv' /\ SettledInv'
  BY <1>1, <1>2 DEF BindInv, SettledInv, PaidIsSettled, At, Bill
<1> QED BY <1>1, <1>3, <1>4, <1>5 DEF InboxInv, Kept

-----------------------------------------------------------------------------
(* The invariant *)

LEMMA InitHolds ==
  ASSUME PayersAssumption, Init
  PROVE  InboxInv
<1>1. Newcomer \in PayType /\ Newcomer.at = "idle" /\ ~Newcomer.charge
      /\ EntryOK(Newcomer.was) /\ Untouched \in Entry /\ EntryOK(Untouched)
  BY DEF Newcomer, PayType, Phases, Untouched, Entry, EntryOK, JournalStatuses
<1>2. TypeOK
  <2>1. Unbound \in BindType
    BY DEF Unbound, BindType
  <2>2. [status |-> "absent", claim |-> NoOne] \in RowType
    BY DEF RowType
  <2>3. restarts \in 0..MaxRestarts
    BY DEF Init, PayersAssumption
  <2> QED BY <1>1, <2>1, <2>2, <2>3 DEF Init, TypeOK, RowType, BindType, PayType
<1>3. \A p \in Payers : pay[p] = Newcomer
  BY DEF Init
<1>4. \A p \in Payers : PayerOK(p)
  BY <1>1, <1>3 DEF PayerOK, At, WebPhases, CliPhases
<1>5. ClaimInv /\ HoldInv /\ ReadInv
  <2>1. \A c \in Cli : c \in Payers
    BY DEF Payers
  <2> QED BY <1>1, <1>3, <2>1 DEF ClaimInv, Working, HoldInv, ReadInv, Holding, At
<1>6. FreeInv
  <2>1. \A b \in Bills : EntryOK(snap[b]) /\ Clean(b, {})
    BY <1>1, <1>3 DEF Init, Clean
  <2> QED BY <2>1 DEF FreeInv
<1>7. BindInv /\ SettledInv
  <2>1. \A w \in Web : w \in Payers /\ job[w] = "none"
    BY DEF Payers, Init
  <2>2. \A a \in Accounts : bind[a].owner = NoOne /\ bind[a].status = "none"
    BY DEF Init, Unbound
  <2>3. \A b \in Bills : snap[b].status = "none" /\ row[b].status = "absent"
    BY DEF Init, Untouched
  <2> QED BY <1>1, <1>3, <2>1, <2>2, <2>3
      DEF BindInv, SettledInv, PaidIsSettled, Occupying, Settling, At, PayersAssumption
<1> QED BY <1>2, <1>4, <1>5, <1>6, <1>7 DEF InboxInv

LEMMA StepHolds ==
  ASSUME InboxInv, PayersAssumption, [Next]_vars
  PROVE  InboxInv' /\ Kept
<1>1. ASSUME NEW p \in Payers, PayStep(p) PROVE InboxInv' /\ Kept
  BY <1>1, PayMoves, MovesKeep, LinksKeeps, ChargesKeeps DEF PayStep
<1>2. CASE InboxSteps
  BY <1>2, InboxStepsKeep DEF InboxSteps
<1>3. CASE \E p \in Payers : HeartbeatLoses(p)
  BY <1>3, HeartbeatLosesKeeps
<1>4. ASSUME NEW w \in UserWeb, Requests(w) PROVE InboxInv' /\ Kept
  <2>1. PICK b \in Bills, a \in Accounts, via \in {"link", "row", "claim"} :
               Starts(w, b, a, NoOne, via)
    BY <1>4 DEF Requests
  <2>2. w \in Web /\ NoOne \in Flows \cup {NoOne}
    BY DEF PayersAssumption
  <2> QED BY <2>1, <2>2, StartsKeeps
<1>5. ASSUME NEW w \in Web, StartSteps(w) PROVE InboxInv' /\ Kept
  <2>1. w \in Payers
    BY DEF Payers
  <2>2. CASE StartRefused(w)
    BY <2>1, <2>2, WebMoves, MovesKeep
  <2> QED BY <1>5, <2>2, RenewsClaimKeeps, ReservesSnapKeeps, ReservesBindingKeeps, LaunchKeeps
      DEF StartSteps
<1>6. ASSUME NEW w \in Web, ThreadSteps(w) PROVE InboxInv' /\ Kept
  <2>1. w \in Payers
    BY DEF Payers
  <2>2. CASE PayStep(w)
    BY <1>1, <2>1, <2>2
  <2>3. CASE BeginsLinking(w)
    BY <2>3, BeginsLinkingKeeps
  <2>4. CASE ~PayStep(w) /\ ~BeginsLinking(w)
    <3>1. \E s : Moves(w, s)
      BY <1>6, <2>4, WebMoves DEF ThreadSteps
    <3> QED BY <2>1, <3>1, MovesKeep
  <2> QED BY <2>2, <2>3, <2>4
<1>7. ASSUME NEW c \in Cli, CliSteps(c) \/ CliDies(c) PROVE InboxInv' /\ Kept
  <2>1. c \in Payers
    BY DEF Payers
  <2>2. CASE PayStep(c)
    BY <1>1, <2>1, <2>2
  <2>3. CASE CliBeginsLinking(c)
    BY <2>3, CliBeginsLinkingKeeps
  <2>4. CASE ~PayStep(c) /\ ~CliBeginsLinking(c)
    <3>1. \E s : Moves(c, s)
      BY <1>7, <2>4, CliMoves DEF CliSteps
    <3> QED BY <2>1, <3>1, MovesKeep
  <2> QED BY <2>2, <2>3, <2>4
<1>8. ASSUME NEW c \in Cli, NEW b \in Bills, CliClaims(c, b) PROVE InboxInv' /\ Kept
  BY <1>8, CliClaimsKeeps
<1>9. CASE Restart
  BY <1>9, RestartKeeps
<1>10. CASE ClearFinished
  BY <1>10, ClearFinishedKeeps
<1>11. CASE UNCHANGED vars
  BY <1>11 DEF Kept, InboxInv, vars, TypeOK, PayerOK, ClaimInv, Working, HoldInv, FreeInv, ReadInv,
    BindInv, SettledInv, PaidIsSettled, Clean, EntryOK, At, Bill
<1> QED BY <1>2, <1>3, <1>4, <1>5, <1>6, <1>7, <1>8, <1>9, <1>10, <1>11 DEF Next

\* The invariant holds in every state.
THEOREM InboxHolds == Spec => []InboxInv
<1>1. Init => InboxInv
  BY InitHolds, PayersAssumption
<1>2. InboxInv /\ [Next]_vars => InboxInv'
  BY StepHolds, PayersAssumption
<1> QED BY <1>1, <1>2, PTL DEF Spec

\* A charge goes out only for a clean bill: who is at its charge is alone with
\* the bill, or the transaction is rejected.
ChargesClean ==
  \A p \in Payers : At(p, "charging") /\ pay'[p].at = "charged" =>
    \/ remote[Bill(p)] = "denied"
    \/ \A q \in Payers \ {p} : Bill(q) = Bill(p) => ~pay[q].charge

LEMMA InvariantSays ==
  ASSUME InboxInv
  PROVE  TypeOK /\ ChargesClean /\ JournalHoldsCharge /\ PaidIsSettled /\ AccountExclusive
<1>1. ChargesClean
  <2> SUFFICES ASSUME NEW p \in Payers, At(p, "charging"),
                      NEW q \in Payers \ {p}, Bill(q) = Bill(p), pay[q].charge
               PROVE  remote[Bill(p)] = "denied"
    BY DEF ChargesClean
  <2>1. Clean(Bill(p), {p})
    BY DEF InboxInv, HoldInv, Holding, At
  <2> QED BY <2>1 DEF Clean
<1>2. JournalHoldsCharge
  BY DEF InboxInv, FreeInv, Clean, Free, JournalHoldsCharge
<1>3. TypeOK /\ PaidIsSettled
  BY DEF InboxInv, SettledInv
<1>4. AccountExclusive
  <2> SUFFICES ASSUME NEW v \in Web, NEW w \in Web, v # w,
                      {pay[v].at, pay[w].at} \subseteq Occupying
               PROVE  pay[v].acct # pay[w].acct
    BY DEF AccountExclusive, Occupying
  <2>1. bind[pay[v].acct].owner = v /\ bind[pay[w].acct].owner = w
    BY DEF InboxInv, BindInv
  <2> QED BY <2>1
<1> QED BY <1>1, <1>2, <1>3, <1>4

\* The inbox without automatic flows keeps its promises.
THEOREM InboxPromises ==
  Spec => ChargedOnce /\ [](TypeOK /\ JournalHoldsCharge /\ PaidIsSettled /\ AccountExclusive)
<1>1. InboxInv => ChargesClean /\ TypeOK /\ JournalHoldsCharge /\ PaidIsSettled /\ AccountExclusive
  BY InvariantSays
<1>2. Spec => [][ChargesClean]_vars
  BY <1>1, InboxHolds, PTL
<1>3. Spec => [](TypeOK /\ JournalHoldsCharge /\ PaidIsSettled /\ AccountExclusive)
  BY <1>1, InboxHolds, PTL
<1> QED BY <1>2, <1>3 DEF ChargedOnce, ChargesClean
-----------------------------------------------------------------------------
(* How a web payment ends *)

\* A record says failed only of such a payment, also when it says so before the
\* thread has ended.
EndOK(w) ==
  /\ pay[w].at \in {"cancelling", "closing"} => Quiet(w)
  /\ At(w, "releasing") => ~pay[w].charge
  /\ job[w] = "failed" => Ended(w)

EndInv == \A w \in Web : EndOK(w)

\* What a step leaves to a web payment w of another: its thread and record, and
\* the entry of its bill, which is given to w only as free, when no payment of
\* the bill is on its way.
Spared(w) ==
  /\ pay'[w].at = pay[w].at /\ pay'[w].bill = pay[w].bill /\ pay'[w].charge = pay[w].charge
  /\ job'[w] = "failed" => job[w] = "failed"
  /\ job[w] \in {"failed", "cleared"} => job'[w] \in {"failed", "cleared"}
  /\ \A b \in Bills :
       /\ snap'[b].owner = w => snap[b].owner = w \/ snap'[b].status \in Free
       /\ remote[b] = "denied" => remote'[b] = "denied" \/ snap'[b].owner # w

LEMMA QuietKept ==
  ASSUME InboxInv, InboxInv', NEW w \in Web, Quiet(w), ~At(w, "idle"),
         pay'[w].bill = pay[w].bill, pay'[w].charge = pay[w].charge,
         snap'[Bill(w)].owner = w => snap[Bill(w)].owner = w \/ snap'[Bill(w)].status \in Free,
         remote[Bill(w)] = "denied" => remote'[Bill(w)] = "denied" \/ snap'[Bill(w)].owner # w
  PROVE  Quiet(w)'
<1> DEFINE b == pay[w].bill
<1>1. b \in Bills /\ w \in Payers
  BY PayFacts DEF PayerOK, Payers, Bill
<1>2. CASE snap'[b].status \in Free
  <2>1. remote'[b] \in {"open", "denied"} /\ (pay'[w].charge => remote'[b] = "denied")
    BY <1>1, <1>2 DEF InboxInv, FreeInv, Clean, Bill
  <2> QED BY <2>1 DEF Quiet, Bill
<1>3. CASE snap'[b].status \notin Free
  BY <1>3 DEF Quiet, Bill
<1> QED BY <1>2, <1>3

LEMMA SparedEnds ==
  ASSUME InboxInv, InboxInv', NEW w \in Web, Spared(w)
  PROVE  (EndOK(w) => EndOK(w)') /\ (Ended(w) => Ended(w)')
<1>1. ~At(w, "idle") => Bill(w) \in Bills
  BY PayFacts DEF PayerOK, Payers
<1>2. Quiet(w) /\ ~At(w, "idle") => Quiet(w)'
  BY <1>1, QuietKept DEF Spared
<1>3. Ended(w) => Ended(w)'
  BY <1>2 DEF Spared, Ended, At
<1>4. ASSUME EndOK(w) PROVE EndOK(w)'
  <2>1. pay'[w].at \in {"cancelling", "closing"} => Quiet(w)'
    BY <1>2, <1>4 DEF Spared, EndOK, At
  <2>2. pay'[w].at = "releasing" => ~pay'[w].charge
    BY <1>4 DEF Spared, EndOK, At
  <2> QED BY <1>3, <1>4, <2>1, <2>2 DEF Spared, EndOK, At
<1> QED BY <1>3, <1>4

\* The journal as a payer signs it.
LEMMA OthersEntry ==
  ASSUME TypeOK, PayersAssumption, NEW p \in Payers, NEW b \in Bills, NEW status,
         NEW w \in Web, w # p, NEW x \in Bills
  PROVE  Journaled(b, status, p)[x].owner = w => snap[x].owner = w
<1>1. snap \in [Bills -> Entry] /\ Owner(p) # w
  BY DEF TypeOK, Owner, PayersAssumption
<1>2. CASE MayJournal(b, status, p)
  <2> DEFINE e == [status |-> status, owner |-> Owner(p)]
  <2>1. Journaled(b, status, p) = [snap EXCEPT ![b] = e] /\ e.owner = Owner(p)
    BY <1>2 DEF Journaled
  <2> HIDE DEF e
  <2> QED BY <1>1, <2>1
<1>3. CASE ~MayJournal(b, status, p)
  BY <1>3 DEF Journaled
<1> QED BY <1>2, <1>3

LEMMA StepsSet ==
  ASSUME TypeOK, NEW p \in Payers, NEW s, Steps(p, s)
  PROVE  /\ pay'[p].at = s /\ pay'[p].bill = pay[p].bill /\ pay'[p].charge = pay[p].charge
         /\ \A q \in Payers \ {p} : pay'[q] = pay[q]
<1>1. pay \in [Payers -> PayType]
  BY DEF TypeOK, PayType
<1> QED BY <1>1 DEF Steps, PayType

LEMMA EndsSet ==
  ASSUME TypeOK, NEW p \in Payers,
         Ends(p) \/ pay' = [pay EXCEPT ![p].at = "done", ![p].was = Untouched]
  PROVE  /\ pay'[p].at = "done" /\ pay'[p].bill = pay[p].bill /\ pay'[p].charge = pay[p].charge
         /\ \A q \in Payers \ {p} : pay'[q] = pay[q]
<1>1. pay \in [Payers -> PayType]
  BY DEF TypeOK, PayType
<1>2. CASE Ends(p)
  BY <1>1, <1>2 DEF Ends, PayType
<1>3. CASE pay' = [pay EXCEPT ![p].at = "done", ![p].was = Untouched]
  BY <1>1, <1>3 DEF PayType
<1> QED BY <1>2, <1>3

LEMMA MovesSpare ==
  ASSUME InboxInv, PayersAssumption, NEW p \in Payers, NEW s, Moves(p, s), NEW w \in Web, w # p
  PROVE  Spared(w)
<1>1. TypeOK /\ w \in Payers
  BY DEF InboxInv, Payers
<1>2. pay'[w] = pay[w]
  BY <1>1, StepsSet, EndsSet DEF Moves
<1>3. job'[w] = job[w]
  <2>1. ASSUME NEW e \in JobStatuses, p \in Web, job' = JobSet(p, e) PROVE job'[w] = job[w]
    BY <1>1, <2>1, JobSetFacts
  <2> QED BY <2>1 DEF Moves, JobMoves
<1>4. Bill(p) \in Bills
  BY PayFacts DEF PayerOK, Moves, Path, At
<1>5. \A b \in Bills : snap'[b].owner = w => snap[b].owner = w
  <2>1. CASE snap' = snap
    BY <2>1
  <2>2. ASSUME NEW e, snap' = Journaled(Bill(p), e, p) PROVE \A b \in Bills : snap'[b].owner = w => snap[b].owner = w
    BY <1>1, <1>4, <2>2, OthersEntry
  <2> QED BY <2>1, <2>2 DEF Moves, JournalMoves
<1> QED BY <1>2, <1>3, <1>5 DEF Spared, Moves

\* What is written back by a roll-back was free.
LEMMA RestoresSpare ==
  ASSUME InboxInv, PayersAssumption, NEW v \in Web, pay[v].at \in {"bind", "launch"},
         NEW w \in Web, w # v, NEW x \in Bills
  PROVE  SnapRestored(v)[x].owner = w =>
           snap[x].owner = w \/ SnapRestored(v)[x].status \in Free
<1>1. /\ snap \in [Bills -> Entry] /\ v \in Payers
      /\ pay[v].was.status \in Free
  BY PayFacts DEF InboxInv, TypeOK, PayerOK, Payers, At
<1>2. CASE snap[Bill(v)].owner = v
  <2> DEFINE e == pay[v].was
  <2>1. SnapRestored(v) = [snap EXCEPT ![Bill(v)] = e] /\ e.status \in Free
    BY <1>1, <1>2 DEF SnapRestored
  <2> HIDE DEF e
  <2> QED BY <1>1, <2>1
<1>3. CASE snap[Bill(v)].owner # v
  BY <1>3 DEF SnapRestored
<1> QED BY <1>2, <1>3

\* The actions that start a payment or take its bill.
LEMMA StartsSpare ==
  ASSUME InboxInv, PayersAssumption, NEW p \in Payers, NEW w \in Web, w # p,
         \/ p \in Web /\ (RenewsClaim(p) \/ ReservesSnap(p) \/ ReservesBinding(p) \/ Launches(p)
                          \/ LaunchFails(p) \/ BeginsLinking(p))
         \/ p \in Cli /\ CliBeginsLinking(p)
         \/ Links(p) \/ HeartbeatLoses(p)
  PROVE  Spared(w)
<1>1. /\ TypeOK /\ w \in Payers /\ Owner(p) # w
      /\ pay \in [Payers -> PayType] /\ snap \in [Bills -> Entry] /\ job \in [Web -> JobStatuses]
  BY DEF InboxInv, Payers, Owner, PayersAssumption, TypeOK, PayType, JobStatuses
<1>2. pay'[w] = pay[w]
  <2>1. CASE Ends(p) \/ \E s : Steps(p, s)
    BY <1>1, <2>1, StepsSet, EndsSet
  <2>2. CASE p \in Web /\ ReservesSnap(p)
    BY <1>1, <2>1, <2>2 DEF ReservesSnap, PayType
  <2>3. CASE Links(p)
    BY <1>1, <2>3 DEF Links, PayType
  <2>4. CASE HeartbeatLoses(p)
    BY <1>1, <2>4 DEF HeartbeatLoses, PayType
  <2>5. CASE ~Links(p) /\ ~HeartbeatLoses(p) /\ ~(p \in Web /\ ReservesSnap(p))
    <3>1. Ends(p) \/ \E s : Steps(p, s)
      <4>1. CASE p \in Web /\ RenewsClaim(p)
        BY <4>1 DEF RenewsClaim
      <4>2. CASE p \in Web /\ ReservesBinding(p)
        BY <4>2 DEF ReservesBinding
      <4>3. CASE p \in Web /\ Launches(p)
        BY <4>3 DEF Launches
      <4>4. CASE p \in Web /\ LaunchFails(p)
        BY <4>4 DEF LaunchFails
      <4>5. CASE p \in Web /\ BeginsLinking(p)
        BY <4>5 DEF BeginsLinking
      <4>6. CASE p \in Cli /\ CliBeginsLinking(p)
        BY <4>6 DEF CliBeginsLinking
      <4> QED BY <2>5, <4>1, <4>2, <4>3, <4>4, <4>5, <4>6
    <3> QED BY <2>1, <3>1
  <2> QED BY <2>2, <2>3, <2>4, <2>5
<1>3. job'[w] = job[w] /\ remote' = remote
  BY <1>1 DEF RenewsClaim, ReservesSnap, ReservesBinding, Launches, LaunchFails, BeginsLinking,
    CliBeginsLinking, Links, HeartbeatLoses
<1>4. /\ Bill(p) \in Bills \/ snap' = snap
      /\ p \in Web /\ (ReservesBinding(p) \/ LaunchFails(p)) => pay[p].at \in {"bind", "launch"}
  BY PayFacts DEF PayerOK, At, RenewsClaim, ReservesSnap, ReservesBinding, Launches, LaunchFails,
    BeginsLinking, CliBeginsLinking, Links, HeartbeatLoses
<1>5. ASSUME NEW b \in Bills, snap'[b].owner = w
      PROVE  snap[b].owner = w \/ snap'[b].status \in Free
  <2>1. CASE snap' = snap
    BY <1>5, <2>1
  <2>2. CASE \E status : snap' = Journaled(Bill(p), status, p) /\ snap' # snap
    BY <1>1, <1>4, <1>5, <2>2, OthersEntry
  <2>3. CASE p \in Web /\ snap' = [snap EXCEPT ![Bill(p)] = [status |-> "running", owner |-> p]]
    <3> DEFINE e == [status |-> "running", owner |-> p]
    <3>1. e.owner = p /\ snap' = [snap EXCEPT ![Bill(p)] = e]
      BY <2>3
    <3> HIDE DEF e
    <3>2. snap'[b] = e \/ snap'[b] = snap[b]
      BY <1>1, <3>1
    <3> QED BY <1>5, <3>1, <3>2
  <2>4. CASE p \in Web /\ pay[p].at \in {"bind", "launch"} /\ snap' = SnapRestored(p)
    BY <1>5, <2>4, RestoresSpare
  <2>5. \/ snap' = snap
        \/ \E status : snap' = Journaled(Bill(p), status, p) /\ snap' # snap
        \/ p \in Web /\ snap' = [snap EXCEPT ![Bill(p)] = [status |-> "running", owner |-> p]]
        \/ p \in Web /\ pay[p].at \in {"bind", "launch"} /\ snap' = SnapRestored(p)
    BY <1>4 DEF RenewsClaim, ReservesSnap, ReservesBinding, Launches, LaunchFails, BeginsLinking,
      CliBeginsLinking, Links, HeartbeatLoses
  <2> QED BY <2>1, <2>2, <2>3, <2>4, <2>5
<1> QED BY <1>2, <1>3, <1>5 DEF Spared

\* A charge that goes out is for a bill that its payer holds.
LEMMA ChargesSpare ==
  ASSUME InboxInv, PayersAssumption, NEW p \in Payers, NEW w \in Web, w # p, Charges(p)
  PROVE  Spared(w)
<1>1. /\ TypeOK /\ w \in Payers /\ Owner(p) # w /\ Bill(p) \in Bills
      /\ remote \in [Bills -> {"open", "pending", "settled", "denied"}]
  BY PayFacts DEF InboxInv, Payers, Owner, PayersAssumption, TypeOK, PayerOK, At, Charges
<1>2. pay'[w] = pay[w]
  BY <1>1, StepsSet DEF Charges
<1>3. snap' = snap /\ job' = job /\ snap[Bill(p)].owner = Owner(p)
  BY DEF Charges, InboxInv, HoldInv, Holding, At
<1>4. \A b \in Bills : remote'[b] = remote[b] \/ b = Bill(p)
  BY <1>1 DEF Charges
<1> QED BY <1>1, <1>2, <1>3, <1>4 DEF Spared

\* New attempts, and the steps of nobody's thread.
LEMMA EntersSpare ==
  ASSUME InboxInv, PayersAssumption, NEW p \in Payers, NEW w \in Web, w # p,
         NEW b \in Bills, NEW a, NEW prev, NEW via,
         (p \in Web /\ Starts(p, b, a, prev, via)) \/ (p \in Cli /\ CliClaims(p, b))
  PROVE  Spared(w)
<1>1. pay \in [Payers -> PayType] /\ w \in Payers
  BY DEF InboxInv, TypeOK, PayType, Payers
<1>2. pay'[w] = pay[w]
  BY <1>1 DEF Starts, CliClaims
<1> QED BY <1>2 DEF Spared, Starts, CliClaims

LEMMA InboxSpares ==
  ASSUME InboxInv, NEW w \in Web, InboxSteps \/ ClearFinished \/ UNCHANGED vars
  PROVE  Spared(w)
<1>1. pay' = pay /\ snap' = snap
  BY DEF InboxSteps, Create, RowCloses, RemoteMoves, ClearFinished, vars
<1>2. /\ job'[w] = "failed" => job[w] = "failed"
      /\ job[w] \in {"failed", "cleared"} => job'[w] \in {"failed", "cleared"}
  BY DEF InboxSteps, Create, RowCloses, RemoteMoves, ClearFinished, vars
<1>3. \A b \in Bills : remote[b] = "denied" => remote'[b] = "denied"
  BY DEF InboxInv, TypeOK, InboxSteps, Create, RowCloses, RemoteMoves, ClearFinished, vars
<1> QED BY <1>1, <1>2, <1>3 DEF Spared

\* Its own steps, up to the end of its payment.
Ending == {"failing", "cancelling", "closing", "done"}

LEMMA PassesBy ==
  ASSUME NEW w \in Web, EndOK(w), pay[w].at \notin Ending,
         pay'[w].at \notin {"cancelling", "closing", "releasing"},
         job'[w] = "failed" => job[w] = "failed"
  PROVE  EndOK(w)' /\ (Ended(w) => Ended(w)')
BY DEF EndOK, Ended, Ending, At

LEMMA GoesOnEnds ==
  ASSUME InboxInv, NEW w \in Web, EndOK(w),
         \/ StartRefused(w) \/ RenewsClaim(w) \/ ReservesSnap(w) \/ ReservesBinding(w)
         \/ Launches(w) \/ LaunchFails(w) \/ ThreadFails(w) \/ BeginsLinking(w) \/ PayStep(w)
         \/ MarksUnknown(w) \/ Parks(w) \/ RecordsSuccess(w) \/ JournalsSuccess(w)
         \/ Reconciles(w) \/ HeartbeatLoses(w)
  PROVE  EndOK(w)' /\ (Ended(w) => Ended(w)')
<1>1. /\ TypeOK /\ w \in Payers /\ pay \in [Payers -> PayType] /\ job \in [Web -> JobStatuses]
  BY DEF InboxInv, Payers, TypeOK, PayType, JobStatuses
<1>2. ASSUME pay[w].at \notin Ending,
             Ends(w) \/ \E s \in Phases \ {"cancelling", "closing", "releasing"} : Steps(w, s),
             job' = job \/ \E s \in JobStatuses \ {"failed"} : job' = JobSet(w, s) \/ job' = [job EXCEPT ![w] = s]
      PROVE  EndOK(w)' /\ (Ended(w) => Ended(w)')
  <2>1. pay'[w].at \notin {"cancelling", "closing", "releasing"}
    BY <1>1, <1>2, StepsSet, EndsSet
  <2>2. job'[w] = "failed" => job[w] = "failed"
    BY <1>1, <1>2, JobSetFacts
  <2> QED BY <1>2, <2>1, <2>2, PassesBy
<1>3. CASE StartRefused(w) \/ RenewsClaim(w)
  BY <1>2, <1>3 DEF StartRefused, RenewsClaim, At, Ending, Phases
<1>4. CASE ReservesSnap(w)
  <2>1. pay'[w].at \in {"bind", "done"}
    <3>1. CASE Ends(w)
      BY <1>1, <3>1, EndsSet
    <3>2. CASE pay' = [pay EXCEPT ![w].at = "bind", ![w].was = snap[Bill(w)]]
      BY <1>1, <3>2 DEF PayType
    <3> QED BY <1>4, <3>1, <3>2 DEF ReservesSnap
  <2> QED BY <1>4, <2>1, PassesBy DEF ReservesSnap, At, Ending
<1>5. CASE ReservesBinding(w) \/ LaunchFails(w)
  BY <1>2, <1>5 DEF ReservesBinding, LaunchFails, At, Ending, Phases
<1>6. CASE Launches(w)
  BY <1>2, <1>6 DEF Launches, At, Ending, Phases, JobStatuses
<1>7. CASE ThreadFails(w) \/ BeginsLinking(w)
  BY <1>2, <1>7 DEF ThreadFails, BeginsLinking, At, Ending, Phases
<1>8. CASE LinkFails(w) \/ Charges(w) \/ ChargeEnds(w)
  BY <1>2, <1>8 DEF LinkFails, Charges, ChargeEnds, At, Ending, Phases
<1>9. CASE Links(w)
  <2>1. pay'[w].at = "charging"
    BY <1>1, <1>9 DEF Links, PayType
  <2> QED BY <1>9, <2>1, PassesBy DEF Links, At, Ending
<1>10. CASE MarksUnknown(w) \/ Parks(w)
  BY <1>2, <1>10 DEF MarksUnknown, Parks, At, Ending, Phases, JobStatuses
<1>11. CASE RecordsSuccess(w) \/ JournalsSuccess(w)
  BY <1>2, <1>11 DEF RecordsSuccess, JournalsSuccess, At, Ending, Phases, JobStatuses
<1>12. CASE Reconciles(w)
  <2>1. \E s \in {"success", "success_unreconciled"} : job' = JobSet(w, s)
    BY <1>12 DEF Reconciles
  <2> QED BY <1>2, <1>12, <2>1 DEF Reconciles, At, Ending, JobStatuses
<1>13. CASE HeartbeatLoses(w)
  <2>1. pay'[w].at = pay[w].at /\ job' = job
    BY <1>1, <1>13 DEF HeartbeatLoses, PayType
  <2> QED BY <1>13, <2>1, PassesBy DEF HeartbeatLoses, Ending
<1> QED BY <1>3, <1>4, <1>5, <1>6, <1>7, <1>8, <1>9, <1>10, <1>11, <1>12, <1>13 DEF PayStep

LEMMA StartsEnds ==
  ASSUME InboxInv, NEW w \in Web, EndOK(w), NEW b, NEW a, NEW prev, NEW via,
         Starts(w, b, a, prev, via)
  PROVE  EndOK(w)' /\ (Ended(w) => Ended(w)')
<1>1. pay \in [Payers -> PayType] /\ w \in Payers
  BY DEF InboxInv, TypeOK, PayType, Payers
<1>2. pay'[w].at = "preflight" /\ job' = job /\ At(w, "idle")
  BY <1>1 DEF Starts, PayType
<1> QED BY <1>2, PassesBy DEF At, Ending

\* The ends: the charge has not begun, Midtrans has rejected it, or what the
\* payment had become keeps.
LEMMA FailureEnds ==
  ASSUME InboxInv, InboxInv', NEW w \in Web, EndOK(w),
         \/ OtpTimesOut(w) \/ WebFails(w) \/ WebCloses(w) \/ WebDenied(w) \/ WebLosesClaim(w)
         \/ WebReleases(w) \/ Recovers(w)
  PROVE  EndOK(w)' /\ (Ended(w) => Ended(w)')
<1>1. /\ TypeOK /\ w \in Payers /\ job \in [Web -> JobStatuses]
      /\ pay[w].at \in Early => ~pay[w].charge
      /\ At(w, "denied") => remote[Bill(w)] = "denied"
  BY PayFacts DEF InboxInv, Payers, TypeOK, JobStatuses, PayerOK, HoldInv, Holding, At
<1>2. CASE OtpTimesOut(w)
  <2>1. pay'[w].at = "failing" /\ ~pay'[w].charge /\ At(w, "linking")
    BY <1>1, <1>2, StepsSet DEF OtpTimesOut, Early, At
  <2>2. job'[w] \in {"failed", "cleared"}
    BY <1>1, <1>2 DEF OtpTimesOut, JobSet
  <2> QED BY <2>1, <2>2 DEF EndOK, Ended, Quiet, At
<1>3. CASE WebFails(w)
  <2>1. CASE pay[w].charge
    <3>1. pay'[w].at = "unknown" /\ job' = job
      BY <1>1, <1>3, <2>1, StepsSet DEF WebFails
    <3> QED BY <1>3, <2>1, <3>1 DEF WebFails, EndOK, Ended, At
  <2>2. CASE ~pay[w].charge
    <3>1. pay'[w].at \in {"done", "cancelling", "closing"} /\ ~pay'[w].charge /\ job' = job
      BY <1>1, <1>3, <2>2, StepsSet, EndsSet DEF WebFails
    <3> QED BY <3>1 DEF EndOK, Ended, Quiet, At
  <2> QED BY <2>1, <2>2
<1>4. CASE WebCloses(w)
  <2>1. /\ pay'[w].at = "done" /\ pay'[w].bill = pay[w].bill /\ pay'[w].charge = pay[w].charge
        /\ snap' = snap /\ remote' = remote /\ Quiet(w)
    BY <1>1, <1>4, EndsSet DEF WebCloses, EndOK, At
  <2>2. job'[w] \in {"failed", "cleared"}
    BY <1>1, <1>4 DEF WebCloses, JobSet
  <2> QED BY <2>1, <2>2 DEF EndOK, Ended, Quiet, At, Bill
<1>5. CASE WebDenied(w)
  <2>1. /\ pay'[w].at = "closing" /\ pay'[w].bill = pay[w].bill
        /\ remote'[Bill(w)] = "denied" /\ job' = job
    BY <1>1, <1>5, StepsSet DEF WebDenied
  <2> QED BY <1>5, <2>1 DEF WebDenied, EndOK, Ended, Quiet, At, Bill
<1>6. CASE WebLosesClaim(w)
  <2>1. CASE pay[w].charge
    <3>1. pay'[w].at = "unknown" /\ job' = job
      BY <1>1, <1>6, <2>1, StepsSet DEF WebLosesClaim
    <3> QED BY <1>6, <2>1, <3>1 DEF WebLosesClaim, EndOK, Ended, At
  <2>2. CASE ~pay[w].charge
    <3>1. pay'[w].at = "releasing" /\ ~pay'[w].charge /\ job' = job
      BY <1>1, <1>6, <2>2, StepsSet DEF WebLosesClaim
    <3> QED BY <1>6, <3>1 DEF WebLosesClaim, EndOK, Ended, At
  <2> QED BY <2>1, <2>2
<1>7. CASE WebReleases(w)
  <2>1. pay'[w].at = "done" /\ ~pay'[w].charge
    BY <1>1, <1>7, EndsSet DEF WebReleases, EndOK
  <2>2. job'[w] \in {"failed", "cleared"}
    BY <1>1, <1>7 DEF WebReleases, JobSet
  <2> QED BY <2>1, <2>2 DEF EndOK, Ended, Quiet, At
<1>8. CASE Recovers(w)
  <2>1. CASE Steps(w, "paid") \/ Steps(w, "unknown")
    <3>1. pay'[w].at \in {"paid", "unknown"} /\ job' = job /\ At(w, "recover")
      BY <1>1, <1>8, <2>1, StepsSet DEF Recovers
    <3> QED BY <3>1 DEF EndOK, Ended, At
  <2>2. CASE remote[Bill(w)] = "denied" /\ Steps(w, "cancelling")
    <3>1. /\ pay'[w].at = "cancelling" /\ pay'[w].bill = pay[w].bill
          /\ remote'[Bill(w)] = "denied" /\ job' = job /\ At(w, "recover")
      BY <1>1, <1>8, <2>2, StepsSet DEF Recovers
    <3> QED BY <3>1 DEF EndOK, Ended, Quiet, At, Bill
  <2> QED BY <1>8, <2>1, <2>2 DEF Recovers
<1> QED BY <1>2, <1>3, <1>4, <1>5, <1>6, <1>7, <1>8

\* A restart takes up again only what its record shows as open.
LEMMA RestartEnds ==
  ASSUME InboxInv, InboxInv', PayersAssumption, NEW w \in Web, EndOK(w), Restart
  PROVE  EndOK(w)' /\ (Ended(w) => Ended(w)')
<1>1. /\ TypeOK /\ w \in Payers /\ w \notin Cli
      /\ pay \in [Payers -> PayType] /\ snap \in [Bills -> Entry]
      /\ ~At(w, "idle") => Bill(w) \in Bills
  BY PayFacts DEF InboxInv, Payers, TypeOK, PayType, PayersAssumption, PayerOK
<1>2. /\ pay'[w].bill = pay[w].bill /\ pay'[w].charge = pay[w].charge
      /\ pay'[w].at = IF At(w, "idle") THEN "idle"
                      ELSE IF job[w] \in Unresolved THEN "recover" ELSE "done"
  <2>1. CASE At(w, "idle")
    BY <1>1, <2>1 DEF Restart, At
  <2>2. CASE ~At(w, "idle")
    <3> DEFINE s == IF job[w] \in Unresolved THEN "recover" ELSE "done"
    <3>1. pay'[w] = [pay[w] EXCEPT !.at = s, !.lost = FALSE, !.was = Untouched] /\ pay[w] \in PayType
      BY <1>1, <2>2 DEF Restart
    <3> HIDE DEF s
    <3>2. pay'[w].bill = pay[w].bill /\ pay'[w].charge = pay[w].charge /\ pay'[w].at = s
      BY <3>1 DEF PayType
    <3> QED BY <2>2, <3>2 DEF s
  <2> QED BY <2>1, <2>2
<1>3. /\ remote' = remote
      /\ job'[w] = "failed" => job[w] = "failed"
      /\ job[w] \in {"failed", "cleared"} => job'[w] = job[w]
  BY DEF Restart, Interrupted
<1>4. \A b \in Bills : snap'[b].owner = snap[b].owner
  BY <1>1 DEF Restart, Entry
<1>5. Quiet(w) /\ ~At(w, "idle") => Quiet(w)'
  BY <1>1, <1>2, <1>3, <1>4 DEF Quiet, Bill
<1> QED BY <1>2, <1>3, <1>5 DEF EndOK, Ended, Unresolved, At

\* Every step: a failure on record stays one, and only an ended payment is put
\* on record as failed.
LEMMA EndsStay ==
  ASSUME InboxInv, InboxInv', PayersAssumption, NEW w \in Web, EndOK(w), [Next]_vars
  PROVE  EndOK(w)' /\ (Ended(w) => Ended(w)')
<1> DEFINE Goal == EndOK(w)' /\ (Ended(w) => Ended(w)')
<1>0. Spared(w) => Goal
  BY SparedEnds
<1>w. w \in Payers /\ w \notin Cli /\ UserWeb \subseteq Web
  BY DEF Payers, PayersAssumption
<1>m. ASSUME NEW p \in Payers, p # w, \E s : Moves(p, s) PROVE Spared(w)
  BY <1>m, MovesSpare
<1>1. ASSUME NEW p \in Payers, PayStep(p) PROVE Goal
  <2>1. CASE p = w
    BY <1>1, <2>1, GoesOnEnds
  <2>2. CASE p # w
    <3>1. CASE Links(p)
      BY <1>0, <2>2, <3>1, StartsSpare
    <3>2. CASE Charges(p)
      BY <1>0, <2>2, <3>2, ChargesSpare
    <3>3. CASE LinkFails(p) \/ ChargeEnds(p)
      BY <1>0, <1>m, <2>2, <3>3, PayMoves
    <3> QED BY <1>1, <3>1, <3>2, <3>3 DEF PayStep
  <2> QED BY <2>1, <2>2
<1>2. CASE InboxSteps \/ ClearFinished \/ UNCHANGED vars
  BY <1>0, <1>2, InboxSpares
<1>3. ASSUME NEW p \in Payers, HeartbeatLoses(p) PROVE Goal
  <2>1. CASE p = w
    BY <1>3, <2>1, GoesOnEnds
  <2>2. CASE p # w
    BY <1>0, <1>3, <2>2, StartsSpare
  <2> QED BY <2>1, <2>2
<1>4. ASSUME NEW v \in UserWeb, Requests(v) PROVE Goal
  <2>1. PICK b \in Bills, a \in Accounts, via \in {"link", "row", "claim"} :
               Starts(v, b, a, NoOne, via)
    BY <1>4 DEF Requests
  <2>2. v \in Web /\ v \in Payers
    BY <1>w DEF Payers
  <2>3. CASE v = w
    BY <2>1, <2>3, StartsEnds
  <2>4. CASE v # w
    BY <1>0, <2>1, <2>2, <2>4, EntersSpare
  <2> QED BY <2>3, <2>4
<1>5. ASSUME NEW v \in Web, StartSteps(v) PROVE Goal
  <2>1. v \in Payers
    BY DEF Payers
  <2>2. CASE v = w
    BY <1>5, <2>2, GoesOnEnds DEF StartSteps
  <2>3. CASE v # w /\ StartRefused(v)
    BY <1>0, <1>m, <2>1, <2>3, WebMoves
  <2>4. CASE v # w /\ ~StartRefused(v)
    BY <1>0, <1>5, <2>1, <2>4, StartsSpare DEF StartSteps
  <2> QED BY <2>2, <2>3, <2>4
<1>6. ASSUME NEW v \in Web, ThreadSteps(v) PROVE Goal
  <2>1. v \in Payers
    BY DEF Payers
  <2>2. CASE PayStep(v)
    BY <1>1, <2>1, <2>2
  <2>3. CASE ~PayStep(v) /\ v = w
    <3>1. \/ ThreadFails(w) \/ BeginsLinking(w) \/ MarksUnknown(w) \/ Parks(w)
          \/ RecordsSuccess(w) \/ JournalsSuccess(w) \/ Reconciles(w)
          \/ OtpTimesOut(w) \/ WebFails(w) \/ WebCloses(w) \/ WebDenied(w) \/ WebLosesClaim(w)
          \/ WebReleases(w) \/ Recovers(w)
      BY <1>6, <2>3 DEF ThreadSteps
    <3> QED BY <3>1, GoesOnEnds, FailureEnds
  <2>4. CASE v # w /\ BeginsLinking(v)
    BY <1>0, <2>1, <2>4, StartsSpare
  <2>5. CASE v # w /\ ~PayStep(v) /\ ~BeginsLinking(v)
    <3>1. \E s : Moves(v, s)
      BY <1>6, <2>5, WebMoves DEF ThreadSteps
    <3> QED BY <1>0, <1>m, <2>1, <2>5, <3>1
  <2> QED BY <2>2, <2>3, <2>4, <2>5
<1>7. ASSUME NEW c \in Cli, CliSteps(c) \/ CliDies(c) \/ \E b \in Bills : CliClaims(c, b)
      PROVE  Goal
  <2>1. c \in Payers /\ c # w
    BY <1>w DEF Payers
  <2>2. CASE PayStep(c)
    BY <1>1, <2>1, <2>2
  <2>3. CASE CliBeginsLinking(c)
    BY <1>0, <2>1, <2>3, StartsSpare
  <2>4. CASE \E b \in Bills : CliClaims(c, b)
    BY <1>0, <2>1, <2>4, EntersSpare
  <2>5. CASE ~PayStep(c) /\ ~CliBeginsLinking(c) /\ ~\E b \in Bills : CliClaims(c, b)
    <3>1. \E s : Moves(c, s)
      BY <1>7, <2>5, CliMoves DEF CliSteps
    <3> QED BY <1>0, <1>m, <2>1, <3>1
  <2> QED BY <2>2, <2>3, <2>4, <2>5
<1>8. CASE Restart
  BY <1>8, RestartEnds
<1> QED BY <1>1, <1>2, <1>3, <1>4, <1>5, <1>6, <1>7, <1>8 DEF Next

LEMMA EndsInit ==
  ASSUME Init
  PROVE  EndInv
<1>1. \A w \in Web : pay[w] = Newcomer /\ job[w] = "none"
  BY DEF Init, Payers
<1> QED BY <1>1 DEF EndInv, EndOK, Newcomer, At

\* A web payment whose record says failed is over: its thread will not charge
\* again, and what it has charged, if anything, will not settle for it, also
\* after a restart has taken up other records.
THEOREM FailuresAreOver == Spec => []FailedIsOver
<1>1. Init => EndInv
  BY EndsInit
<1>2. InboxInv /\ InboxInv' /\ EndInv /\ [Next]_vars => EndInv'
  BY EndsStay, PayersAssumption DEF EndInv
<1>3. EndInv => FailedIsOver
  BY DEF EndInv, EndOK, FailedIsOver
<1> QED BY <1>1, <1>2, <1>3, InboxHolds, PTL DEF Spec
=============================================================================
