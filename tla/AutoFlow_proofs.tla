-------------------------- MODULE AutoFlow_proofs --------------------------
(***************************************************************************)
(* The payment inbox with its automatic flows keeps the promises of the    *)
(* inbox, for any flows, payers, bills, accounts and number of restarts.   *)
(***************************************************************************)
EXTENDS AutoFlow, PaymentInbox_proofs

FlowType == [at : {"idle", "link", "account", "start", "starting", "watch",
                   "failing", "recheck", "done"},
             status : {"none", "running", "failed", "success", "success_unreconciled",
                       "interrupted_unknown"},
             bill : Bills \cup {NoOne}, acct : Accounts \cup {NoOne},
             web : Web \cup {NoOne}, claimLost : BOOLEAN, again : BOOLEAN,
             passed : BOOLEAN]

\* What a flow's place and status say of its record and of its payment.
FlowOK(f) ==
  /\ flow[f].at \in {"idle", "link"} => flow[f].bill = NoOne /\ flow[f].web = NoOne
  /\ flow[f].at \in {"account", "start", "starting", "watch", "recheck"} => flow[f].bill \in Bills
  /\ flow[f].at \in {"start", "starting", "watch"} => flow[f].acct \in Accounts
  /\ flow[f].at \in {"starting", "watch", "recheck"} => flow[f].web # NoOne
  /\ flow[f].web # NoOne =>
       /\ flow[f].bill \in Bills
       /\ ~At(flow[f].web, "idle") /\ Bill(flow[f].web) = flow[f].bill
  /\ flow[f].status \in {"success", "success_unreconciled"} =>
       flow[f].bill \in Bills /\ remote[flow[f].bill] = "settled"

\* A reservation of a flow is for its bill.
FlowBindInv ==
  \A a \in Accounts : bind[a].owner \in Flows =>
    /\ bind[a].bill \in Bills
    /\ bind[a].bill = flow[bind[a].owner].bill

FlowInv ==
  /\ InboxInv
  /\ flow \in [Flows -> FlowType]
  /\ \A f \in Flows : FlowOK(f)
  /\ FlowBindInv

-----------------------------------------------------------------------------
(* Steps of the inbox *)

LEMMA FlowFacts ==
  ASSUME FlowInv, NEW f \in Flows
  PROVE  flow \in [Flows -> FlowType] /\ flow[f] \in FlowType /\ FlowOK(f)
BY DEF FlowInv

\* What a flow looks at goes on: the bills of payments, and what is settled.
Watched ==
  /\ \A w \in Web : ~At(w, "idle") => pay'[w].at # "idle" /\ pay'[w].bill = pay[w].bill
  /\ \A b \in Bills : remote[b] = "settled" => remote'[b] = "settled"

LEMMA WatchedFacts ==
  ASSUME Kept \/ UNCHANGED <<pay, remote>>
  PROVE  Watched
BY DEF Watched, Kept, At

LEMMA FlowKept ==
  ASSUME FlowInv, NEW f \in Flows, Watched, flow'[f] = flow[f]
  PROVE  FlowOK(f)'
<1>1. flow[f] \in FlowType /\ FlowOK(f)
  BY FlowFacts
<1>2. flow[f].web # NoOne => flow[f].web \in Web
  BY <1>1 DEF FlowType
<1> QED BY <1>1, <1>2 DEF FlowOK, Watched, At, Bill

\* The step of one flow keeps all records in order.
LEMMA FlowsKept ==
  ASSUME FlowInv, NEW f \in Flows, Watched, NEW r \in FlowType,
         flow' = [flow EXCEPT ![f] = r], FlowOK(f)'
  PROVE  /\ flow' \in [Flows -> FlowType]
         /\ \A g \in Flows : FlowOK(g)'
         /\ \A g \in Flows \ {f} : flow'[g] = flow[g]
<1>1. flow \in [Flows -> FlowType]
  BY DEF FlowInv
<1>2. flow' \in [Flows -> FlowType] /\ \A g \in Flows \ {f} : flow'[g] = flow[g]
  BY <1>1
<1> QED BY <1>2, FlowKept

LEMMA PaymentKeepsFlows ==
  ASSUME FlowInv, PayersAssumption, InboxInv', Kept, flow' = flow
  PROVE  FlowInv'
<1>1. \A f \in Flows : FlowOK(f)'
  BY FlowKept, WatchedFacts
<1>2. FlowBindInv'
  BY DEF FlowInv, FlowBindInv, Kept
<1> QED BY <1>1, <1>2 DEF FlowInv

LEMMA PaymentStepsKeep ==
  ASSUME FlowInv, PayersAssumption, PaymentSteps, flow' = flow
  PROVE  FlowInv'
<1>1. Next
  BY DEF PaymentSteps, Next
<1>2. InboxInv' /\ Kept
  BY <1>1, StepHolds DEF FlowInv
<1> QED BY <1>2, PaymentKeepsFlows

\* The payment that a restart finds for a flow is one of its bill.
LEMMA RecoveredFacts ==
  ASSUME FlowInv, NEW f \in Flows, NEW w,
         w \in (IF Recovered(f) = {} THEN {NoOne} ELSE Recovered(f)), w # NoOne
  PROVE  w \in Web /\ flow[f].bill \in Bills /\ Bill(w) = flow[f].bill /\ ~At(w, "idle")
<1>1. /\ flow[f] \in FlowType /\ FlowOK(f) /\ w \in Recovered(f) /\ flow[f].bill # NoOne
      /\ BindInv
  BY FlowFacts DEF Recovered, FlowInv, InboxInv
<1>2. CASE w = flow[f].web
  BY <1>1, <1>2 DEF FlowOK, FlowType
<1>3. CASE w \in RecordsOf(flow[f].bill)
  BY <1>1, <1>3 DEF RecordsOf, FlowType, BindInv
<1> QED BY <1>1, <1>2, <1>3 DEF Recovered

LEMMA FlowRestartKeeps ==
  ASSUME FlowInv, PayersAssumption, FlowRestart
  PROVE  FlowInv'
<1>1. InboxInv' /\ Kept
  BY RestartKeeps DEF FlowInv, FlowRestart
<1>2. PICK rec \in [Flows -> Web \cup {NoOne}] :
        /\ \A f \in Flows : rec[f] \in IF Recovered(f) = {} THEN {NoOne} ELSE Recovered(f)
        /\ flow' = [f \in Flows |-> Resumed(f, rec[f])]
  BY DEF FlowRestart
<1>3. ASSUME NEW f \in Flows
      PROVE  flow'[f] \in FlowType /\ FlowOK(f)' /\ flow'[f].bill = flow[f].bill
  <2>1. flow[f] \in FlowType /\ FlowOK(f) /\ flow'[f] = Resumed(f, rec[f])
    BY <1>2, FlowFacts
  <2>2. rec[f] # NoOne =>
          /\ rec[f] \in Web /\ flow[f].bill \in Bills
          /\ Bill(rec[f]) = flow[f].bill /\ ~At(rec[f], "idle")
    BY <1>2, RecoveredFacts
  <2>3. /\ flow'[f] \in FlowType /\ flow'[f].bill = flow[f].bill
        /\ flow'[f].web \in {flow[f].web, rec[f], NoOne}
        /\ \/ flow'[f].at = flow[f].at /\ flow'[f].web = flow[f].web /\ flow'[f].acct = flow[f].acct
           \/ flow'[f].at = "done"
           \/ flow'[f].at = "recheck" /\ flow'[f].web = rec[f] /\ rec[f] # NoOne
           \/ flow'[f].at = "account" /\ flow[f].bill # NoOne /\ flow'[f].web = flow[f].web
        /\ flow'[f].status \in {flow[f].status, "interrupted_unknown"}
    <3>1. CASE flow'[f] = [flow[f] EXCEPT !.again = FALSE]
      BY <2>1, <3>1 DEF FlowType
    <3>2. CASE flow'[f] = [flow[f] EXCEPT !.at = "done"]
      BY <2>1, <3>2 DEF FlowType
    <3>3. CASE /\ rec[f] # NoOne
               /\ flow'[f] = [flow[f] EXCEPT !.at = "recheck", !.web = rec[f], !.claimLost = FALSE]
      BY <2>1, <2>2, <3>3 DEF FlowType
    <3>4. CASE flow[f].bill # NoOne /\ flow'[f] = [flow[f] EXCEPT !.at = "account"]
      BY <2>1, <3>4 DEF FlowType
    <3>5. CASE flow'[f] = [flow[f] EXCEPT !.at = "done", !.status = "interrupted_unknown", !.web = NoOne]
      BY <2>1, <3>5 DEF FlowType
    <3> QED BY <2>1, <3>1, <3>2, <3>3, <3>4, <3>5 DEF Resumed
  <2>4. FlowOK(f)'
    <3>1. flow[f].web # NoOne => flow[f].web \in Web
      BY <2>1 DEF FlowType
    <3>2. flow[f].bill # NoOne => flow[f].bill \in Bills
      BY <2>1 DEF FlowType
    <3> QED BY <1>1, <2>1, <2>2, <2>3, <3>1, <3>2 DEF FlowOK, Kept, At, Bill
  <2> QED BY <2>3, <2>4
<1>4. flow' \in [Flows -> FlowType]
  <2>1. flow' = [f \in Flows |-> flow'[f]]
    BY <1>2
  <2> QED BY <1>3, <2>1
<1>5. FlowBindInv'
  BY <1>1, <1>3 DEF FlowInv, FlowBindInv, Kept
<1> QED BY <1>1, <1>3, <1>4, <1>5 DEF FlowInv

-----------------------------------------------------------------------------
(* What a flow does to the inbox *)

\* It closes rows, and normalises, reserves or releases bindings that no web
\* payment has; a binding becomes a success only when its bill is settled.
LEMMA FlowTouches ==
  ASSUME InboxInv, PayersAssumption,
         UNCHANGED <<snap, job, marked, pay, remote, restarts>>,
         row' \in [Bills -> RowType], bind' \in [Accounts -> BindType],
         \A b \in Bills : row'[b] = row[b] \/ row'[b].status = "closed",
         \A a \in Accounts :
           \/ bind'[a].owner = bind[a].owner /\ bind'[a].bill = bind[a].bill
           \/ bind[a].owner \notin Web /\ bind'[a].owner \notin Web,
         \A a \in Accounts : bind'[a].status = "success" =>
           bind'[a].bill \in Bills /\ remote[bind'[a].bill] = "settled"
  PROVE  InboxInv'
<1>1. /\ TypeOK /\ ClaimInv /\ HoldInv /\ FreeInv /\ ReadInv /\ BindInv /\ SettledInv
      /\ \A p \in Payers : PayerOK(p)
  BY DEF InboxInv
<1>2. TypeOK'
  BY <1>1 DEF TypeOK, RowType, BindType
<1>3. (\A p \in Payers : PayerOK(p))' /\ HoldInv' /\ FreeInv' /\ ReadInv'
  BY <1>1 DEF PayerOK, HoldInv, FreeInv, ReadInv, Clean, EntryOK, At, Bill
<1>4. ClaimInv'
  <2>1. ASSUME NEW c \in Cli, Working(c)
        PROVE  /\ row'[pay[c].bill].status # "absent"
               /\ row'[pay[c].bill].status = "pending" => row'[pay[c].bill].claim = c
    <3>1. pay[c].bill \in Bills
      BY <1>1, <2>1 DEF PayerOK, Working, Payers, At, Bill
    <3> QED BY <1>1, <2>1, <3>1 DEF ClaimInv, Bill
  <2> QED BY <1>1, <2>1 DEF ClaimInv, Working, Bill
<1>5. BindInv'
  <2>1. ASSUME NEW w \in Web, pay[w].at \in Occupying PROVE bind'[pay[w].acct].owner = w
    <3>1. pay[w].acct \in Accounts /\ bind[pay[w].acct].owner = w
      BY <1>1, <2>1 DEF PayerOK, BindInv, Occupying, Payers, At
    <3> QED BY <3>1
  <2>2. ASSUME NEW a \in Accounts, bind'[a].owner \in Web
        PROVE  pay[bind'[a].owner].at # "idle" /\ bind'[a].bill = pay[bind'[a].owner].bill
    BY <1>1, <2>2 DEF BindInv, At, Bill
  <2> QED BY <1>1, <2>1, <2>2 DEF BindInv, At, Bill
<1>6. SettledInv'
  BY <1>1 DEF SettledInv, PaidIsSettled, Bill
<1> QED BY <1>2, <1>3, <1>4, <1>5, <1>6 DEF InboxInv

LEMMA RowClosedFacts ==
  ASSUME InboxInv, NEW b \in Bills
  PROVE  LET r == SetStatusIfPending(b, "closed")
         IN  r \in [Bills -> RowType] /\ \A x \in Bills : r[x] = row[x] \/ r[x].status = "closed"
BY StatusFacts DEF InboxInv

-----------------------------------------------------------------------------
(* The steps of a flow *)

\* Steps that change nothing but the record.
LEMMA FlowAloneKeeps ==
  ASSUME FlowInv, UNCHANGED vars, flow' \in [Flows -> FlowType],
         \A f \in Flows : flow'[f] = flow[f] \/ (FlowOK(f)' /\ flow'[f].bill = flow[f].bill)
  PROVE  FlowInv'
<1>1. InboxInv'
  BY DEF FlowInv, InboxInv, vars, TypeOK, PayerOK, ClaimInv, Working, HoldInv, FreeInv, ReadInv,
    BindInv, SettledInv, PaidIsSettled, Clean, EntryOK, At, Bill
<1>2. \A f \in Flows : FlowOK(f)'
  BY FlowKept, WatchedFacts DEF vars
<1>3. \A f \in Flows : flow'[f].bill = flow[f].bill
  OBVIOUS
<1>4. FlowBindInv'
  BY <1>3 DEF FlowInv, FlowBindInv, vars
<1> QED BY <1>1, <1>2, <1>4 DEF FlowInv

\* What a start changes: its own record, and the notes of those it passes over.
LEMMA NewFlowFacts ==
  ASSUME FlowInv, NEW f \in Flows
  PROVE  /\ NewFlow(f) \in [Flows -> FlowType]
         /\ NewFlow(f)[f].at = "link" /\ NewFlow(f)[f].status = "running"
         /\ NewFlow(f)[f].bill = flow[f].bill /\ NewFlow(f)[f].web = flow[f].web
         /\ NewFlow(f)[f].again = flow[f].again
         /\ \A h \in Flows \ {f} :
              /\ NewFlow(f)[h].at = flow[h].at /\ NewFlow(f)[h].status = flow[h].status
              /\ NewFlow(f)[h].bill = flow[h].bill /\ NewFlow(f)[h].acct = flow[h].acct
              /\ NewFlow(f)[h].web = flow[h].web /\ NewFlow(f)[h].again = flow[h].again
              /\ flow[h].passed \/ (Stale(h) /\ flow[h].at # "done") => NewFlow(f)[h].passed
<1> DEFINE n == NewFlow(f)
<1>1. flow \in [Flows -> FlowType]
  BY DEF FlowInv
<1>2. /\ n[f] = [flow[f] EXCEPT !.at = "link", !.status = "running"]
      /\ \A h \in Flows \ {f} :
           n[h] = [flow[h] EXCEPT !.passed = flow[h].passed \/ (Stale(h) /\ ~FlowAt(h, "done"))]
      /\ n = [h \in Flows |-> n[h]]
  BY DEF NewFlow
<1> HIDE DEF n
<1>3. /\ n[f] \in FlowType /\ n[f].at = "link" /\ n[f].status = "running"
      /\ n[f].bill = flow[f].bill /\ n[f].web = flow[f].web /\ n[f].again = flow[f].again
  <2>1. flow[f] \in FlowType /\ n[f] = [flow[f] EXCEPT !.at = "link", !.status = "running"]
    BY <1>1, <1>2
  <2>2. n[f] \in FlowType
    BY <2>1 DEF FlowType
  <2>3. /\ n[f].at = "link" /\ n[f].status = "running"
        /\ n[f].bill = flow[f].bill /\ n[f].web = flow[f].web /\ n[f].again = flow[f].again
    BY <2>1 DEF FlowType
  <2> QED BY <2>2, <2>3
<1>4. ASSUME NEW h \in Flows \ {f}
      PROVE  /\ n[h] \in FlowType
             /\ n[h].at = flow[h].at /\ n[h].status = flow[h].status
             /\ n[h].bill = flow[h].bill /\ n[h].acct = flow[h].acct
             /\ n[h].web = flow[h].web /\ n[h].again = flow[h].again
             /\ flow[h].passed \/ (Stale(h) /\ flow[h].at # "done") => n[h].passed
  <2>1. CASE flow[h].passed \/ (Stale(h) /\ ~FlowAt(h, "done"))
    <3>1. n[h] = [flow[h] EXCEPT !.passed = TRUE]
      BY <1>2, <2>1
    <3> QED BY <1>1, <3>1 DEF FlowType
  <2>2. CASE ~(flow[h].passed \/ (Stale(h) /\ ~FlowAt(h, "done")))
    <3>1. n[h] = [flow[h] EXCEPT !.passed = FALSE]
      BY <1>2, <2>2
    <3> QED BY <1>1, <2>2, <3>1 DEF FlowType, FlowAt
  <2> QED BY <2>1, <2>2
<1>5. n \in [Flows -> FlowType]
  BY <1>2, <1>3, <1>4
<1> QED BY <1>3, <1>4, <1>5 DEF n

LEMMA StartedFacts ==
  ASSUME FlowInv, NEW f \in Flows, FlowStarts(f) \/ \E e \in Flows : FlowRetries(e, f)
  PROVE  /\ UNCHANGED vars /\ flow[f].at = "idle" /\ NoFlowToReuse
         /\ flow' \in [Flows -> FlowType]
         /\ flow'[f].at = "link" /\ flow'[f].status = "running"
         /\ flow'[f].bill = flow[f].bill /\ flow'[f].web = flow[f].web
         /\ flow'[f].again => flow[f].again
         /\ \A h \in Flows \ {f} :
              /\ flow'[h].at = flow[h].at /\ flow'[h].status = flow[h].status
              /\ flow'[h].bill = flow[h].bill /\ flow'[h].acct = flow[h].acct
              /\ flow'[h].web = flow[h].web
              /\ flow'[h].again => flow[h].again
              /\ flow[h].passed \/ (Stale(h) /\ flow[h].at # "done") => flow'[h].passed
<1>1. UNCHANGED vars /\ flow[f].at = "idle" /\ NoFlowToReuse
  BY DEF FlowStarts, FlowRetries, FlowAt
<1>2. CASE FlowStarts(f)
  <2>1. flow' = NewFlow(f)
    BY <1>2 DEF FlowStarts
  <2> QED BY <1>1, <2>1, NewFlowFacts
<1>3. ASSUME NEW e \in Flows, FlowRetries(e, f)
      PROVE  /\ flow' \in [Flows -> FlowType]
             /\ \A h \in Flows :
                  /\ flow'[h].at = NewFlow(f)[h].at /\ flow'[h].status = NewFlow(f)[h].status
                  /\ flow'[h].bill = NewFlow(f)[h].bill /\ flow'[h].acct = NewFlow(f)[h].acct
                  /\ flow'[h].web = NewFlow(f)[h].web
                  /\ flow'[h].again => NewFlow(f)[h].again
                  /\ NewFlow(f)[h].passed => flow'[h].passed
  <2> DEFINE n == NewFlow(f)
  <2>1. n \in [Flows -> FlowType]
    BY NewFlowFacts
  <2>2. flow' = [n EXCEPT ![e].again = FALSE]
    BY <1>3 DEF FlowRetries
  <2> HIDE DEF n
  <2>3. flow' \in [Flows -> FlowType] /\ \A h \in Flows \ {e} : flow'[h] = n[h]
    BY <2>1, <2>2 DEF FlowType
  <2>4. /\ flow'[e].at = n[e].at /\ flow'[e].status = n[e].status
        /\ flow'[e].bill = n[e].bill /\ flow'[e].acct = n[e].acct
        /\ flow'[e].web = n[e].web /\ flow'[e].passed = n[e].passed /\ ~flow'[e].again
    BY <2>1, <2>2 DEF FlowType
  <2>5. \A h \in Flows :
          /\ flow'[h].at = n[h].at /\ flow'[h].status = n[h].status
          /\ flow'[h].bill = n[h].bill /\ flow'[h].acct = n[h].acct /\ flow'[h].web = n[h].web
          /\ flow'[h].again => n[h].again
          /\ n[h].passed => flow'[h].passed
    BY <2>3, <2>4
  <2> QED BY <2>3, <2>5 DEF n
<1>4. ASSUME NEW e \in Flows, FlowRetries(e, f)
      PROVE  /\ flow' \in [Flows -> FlowType]
             /\ flow'[f].at = "link" /\ flow'[f].status = "running"
             /\ flow'[f].bill = flow[f].bill /\ flow'[f].web = flow[f].web
             /\ flow'[f].again => flow[f].again
             /\ \A h \in Flows \ {f} :
                  /\ flow'[h].at = flow[h].at /\ flow'[h].status = flow[h].status
                  /\ flow'[h].bill = flow[h].bill /\ flow'[h].acct = flow[h].acct
                  /\ flow'[h].web = flow[h].web
                  /\ flow'[h].again => flow[h].again
                  /\ flow[h].passed \/ (Stale(h) /\ flow[h].at # "done") => flow'[h].passed
  <2> DEFINE n == NewFlow(f)
  <2>1. /\ flow' \in [Flows -> FlowType]
        /\ \A h \in Flows :
             /\ flow'[h].at = n[h].at /\ flow'[h].status = n[h].status
             /\ flow'[h].bill = n[h].bill /\ flow'[h].acct = n[h].acct
             /\ flow'[h].web = n[h].web
             /\ flow'[h].again => n[h].again
             /\ n[h].passed => flow'[h].passed
    BY <1>3, <1>4
  <2>2. /\ n[f].at = "link" /\ n[f].status = "running"
        /\ n[f].bill = flow[f].bill /\ n[f].web = flow[f].web /\ n[f].again = flow[f].again
        /\ \A h \in Flows \ {f} :
             /\ n[h].at = flow[h].at /\ n[h].status = flow[h].status
             /\ n[h].bill = flow[h].bill /\ n[h].acct = flow[h].acct
             /\ n[h].web = flow[h].web /\ n[h].again = flow[h].again
             /\ flow[h].passed \/ (Stale(h) /\ flow[h].at # "done") => n[h].passed
    BY NewFlowFacts
  <2> HIDE DEF n
  <2> QED BY <2>1, <2>2
<1> QED BY <1>1, <1>2, <1>4

LEMMA FlowStartsKeeps ==
  ASSUME FlowInv, NEW f \in Flows, FlowStarts(f) \/ \E e \in Flows : FlowRetries(e, f)
  PROVE  FlowInv'
<1>1. flow' \in [Flows -> FlowType] /\ UNCHANGED vars
  BY StartedFacts
<1>2. ASSUME NEW h \in Flows PROVE FlowOK(h)' /\ flow'[h].bill = flow[h].bill
  <2>1. FlowOK(h)
    BY FlowFacts
  <2>2. CASE h = f
    BY <1>1, <2>1, <2>2, StartedFacts DEF FlowOK
  <2>3. CASE h # f
    <3>1. /\ flow'[h].at = flow[h].at /\ flow'[h].status = flow[h].status
          /\ flow'[h].bill = flow[h].bill /\ flow'[h].acct = flow[h].acct
          /\ flow'[h].web = flow[h].web
      BY <2>3, StartedFacts
    <3> QED BY <1>1, <2>1, <3>1 DEF FlowOK, vars, At, Bill
  <2> QED BY <2>2, <2>3
<1> QED BY <1>1, <1>2, FlowAloneKeeps

LEMMA PaymentStartedKeeps ==
  ASSUME FlowInv, NEW f \in Flows, PaymentStarted(f) \/ RechecksPayment(f)
  PROVE  FlowInv'
<1>1. flow \in [Flows -> FlowType] /\ flow[f] \in FlowType /\ FlowOK(f) /\ UNCHANGED vars
  BY FlowFacts DEF PaymentStarted, RechecksPayment
<1>2. CASE PaymentStarted(f)
  <2>1. flow[f].at = "starting"
    BY <1>2 DEF PaymentStarted, FlowAt
  <2>2. CASE FlowGoes(f, "watch")
    <3>1. flow' = [flow EXCEPT ![f].at = "watch"]
      BY <2>2 DEF FlowGoes
    <3>2. /\ flow' \in [Flows -> FlowType]
          /\ flow'[f].at = "watch" /\ flow'[f].status = flow[f].status
          /\ flow'[f].bill = flow[f].bill /\ flow'[f].acct = flow[f].acct /\ flow'[f].web = flow[f].web
          /\ \A h \in Flows \ {f} : flow'[h] = flow[h]
      BY <1>1, <3>1 DEF FlowType
    <3>3. FlowOK(f)'
      BY <1>1, <2>1, <3>2 DEF FlowOK, vars, At, Bill
    <3> QED BY <1>1, <3>2, <3>3, FlowAloneKeeps
  <2>3. ASSUME NEW lost \in BOOLEAN,
               flow' = [flow EXCEPT ![f].at = "failing", ![f].claimLost = lost, ![f].web = NoOne]
        PROVE  FlowInv'
    <3>1. /\ flow' \in [Flows -> FlowType]
          /\ flow'[f].at = "failing" /\ flow'[f].status = flow[f].status
          /\ flow'[f].bill = flow[f].bill /\ flow'[f].web = NoOne
          /\ \A h \in Flows \ {f} : flow'[h] = flow[h]
      BY <1>1, <2>3 DEF FlowType
    <3>2. FlowOK(f)'
      BY <1>1, <3>1 DEF FlowOK, vars
    <3> QED BY <1>1, <3>1, <3>2, FlowAloneKeeps
  <2> QED BY <1>2, <2>2, <2>3 DEF PaymentStarted
<1>3. CASE RechecksPayment(f)
  <2> DEFINE told == job[flow[f].web]
             s == IF told \in {"success", "success_unreconciled", "failed"}
                    THEN told ELSE "interrupted_unknown"
  <2>1. /\ s \in {"success", "success_unreconciled", "failed", "interrupted_unknown"}
        /\ s \in {"success", "success_unreconciled"} => told \in {"success", "success_unreconciled"}
    OBVIOUS
  <2>2. flow' = [flow EXCEPT ![f].at = "done", ![f].status = s] /\ flow[f].at = "recheck"
    BY <1>3 DEF RechecksPayment, FlowEnds, FlowAt
  <2> HIDE DEF s
  <2>3. /\ flow' \in [Flows -> FlowType]
        /\ flow'[f].at = "done" /\ flow'[f].status = s
        /\ flow'[f].bill = flow[f].bill /\ flow'[f].web = flow[f].web
        /\ \A h \in Flows \ {f} : flow'[h] = flow[h]
    BY <1>1, <2>1, <2>2 DEF FlowType
  <2>4. s \in {"success", "success_unreconciled"} =>
          flow[f].bill \in Bills /\ remote[flow[f].bill] = "settled"
    <3>1. /\ flow[f].web \in Web /\ Bill(flow[f].web) = flow[f].bill /\ flow[f].bill \in Bills
      BY <1>1, <2>2 DEF FlowOK, FlowType
    <3>2. told \in {"success", "success_unreconciled"} => remote[Bill(flow[f].web)] = "settled"
      BY <3>1 DEF FlowInv, InboxInv, SettledInv, PaidIsSettled
    <3> QED BY <2>1, <3>1, <3>2
  <2>5. FlowOK(f)'
    BY <1>1, <2>3, <2>4 DEF FlowOK, vars, At, Bill
  <2> QED BY <1>1, <2>3, <2>5, FlowAloneKeeps
<1> QED BY <1>2, <1>3

LEMMA GeneratesLinkKeeps ==
  ASSUME FlowInv, PayersAssumption, NEW f \in Flows, GeneratesLink(f)
  PROVE  FlowInv'
<1>1. flow \in [Flows -> FlowType] /\ flow[f] \in FlowType /\ FlowOK(f) /\ flow[f].at = "link"
      /\ flow[f].bill = NoOne /\ flow[f].web = NoOne
  BY FlowFacts DEF GeneratesLink, FlowAt, FlowOK
<1>2. CASE FlowGoes(f, "failing") /\ UNCHANGED vars
  <2>1. flow' = [flow EXCEPT ![f].at = "failing"]
    BY <1>2 DEF FlowGoes
  <2>2. /\ flow' \in [Flows -> FlowType]
        /\ flow'[f].at = "failing" /\ flow'[f].status = flow[f].status
        /\ flow'[f].bill = flow[f].bill /\ flow'[f].web = flow[f].web
        /\ \A h \in Flows \ {f} : flow'[h] = flow[h]
    BY <1>1, <2>1 DEF FlowType
  <2>3. FlowOK(f)'
    BY <1>1, <1>2, <2>2 DEF FlowOK, vars
  <2> QED BY <1>1, <1>2, <2>2, <2>3, FlowAloneKeeps
<1>3. ASSUME NEW b \in Bills, Create(b),
             flow' = [flow EXCEPT ![f].at = "account", ![f].bill = b]
      PROVE  FlowInv'
  <2>1. InboxInv' /\ Kept
    BY <1>3, InboxStepsKeep DEF FlowInv
  <2>2. /\ flow' \in [Flows -> FlowType]
        /\ flow'[f].at = "account" /\ flow'[f].status = flow[f].status
        /\ flow'[f].bill = b /\ flow'[f].web = flow[f].web
        /\ \A h \in Flows \ {f} : flow'[h] = flow[h]
    BY <1>1, <1>3 DEF FlowType
  <2>3. FlowOK(f)'
    BY <1>1, <2>2, PayersAssumption DEF FlowOK, PayersAssumption
  <2>4. \A h \in Flows : FlowOK(h)'
    BY <2>1, <2>2, <2>3, FlowKept, WatchedFacts
  <2>5. FlowBindInv'
    <3>1. bind' = bind
      BY <1>3 DEF Create
    <3>2. \A a \in Accounts : bind[a].owner # f
      BY <1>1 DEF FlowInv, FlowBindInv, PayersAssumption
    <3> QED BY <2>2, <3>1, <3>2 DEF FlowInv, FlowBindInv
  <2> QED BY <2>1, <2>2, <2>4, <2>5 DEF FlowInv
<1> QED BY <1>2, <1>3 DEF GeneratesLink

LEMMA StartsPaymentKeeps ==
  ASSUME FlowInv, PayersAssumption, NEW f \in Flows, NEW w \in Web, StartsPayment(f, w)
  PROVE  FlowInv'
<1>1. /\ flow \in [Flows -> FlowType] /\ flow[f] \in FlowType /\ FlowOK(f)
      /\ flow[f].at = "start" /\ flow[f].bill \in Bills /\ flow[f].acct \in Accounts
      /\ flow' = [flow EXCEPT ![f].at = "starting", ![f].web = w]
      /\ Starts(w, flow[f].bill, flow[f].acct, f, "row")
  BY FlowFacts DEF StartsPayment, FlowAt, FlowOK
<1>2. InboxInv' /\ Kept
  BY <1>1, StartsKeeps DEF FlowInv
<1>3. pay'[w].at = "preflight" /\ pay'[w].bill = flow[f].bill
  <2>1. pay \in [Payers -> PayType] /\ w \in Payers
    BY DEF FlowInv, InboxInv, TypeOK, PayType, Payers
  <2> DEFINE b == flow[f].bill
             a == flow[f].acct
  <2>2. pay' = [pay EXCEPT ![w].at = "preflight", ![w].bill = b, ![w].acct = a,
                           ![w].prev = f, ![w].via = "row"]
    BY <1>1 DEF Starts
  <2> HIDE DEF a, b
  <2>3. pay'[w].at = "preflight" /\ pay'[w].bill = b
    BY <2>1, <2>2 DEF PayType
  <2> QED BY <2>3 DEF b
<1>4. /\ flow' \in [Flows -> FlowType]
      /\ flow'[f].at = "starting" /\ flow'[f].status = flow[f].status
      /\ flow'[f].bill = flow[f].bill /\ flow'[f].acct = flow[f].acct /\ flow'[f].web = w
      /\ \A h \in Flows \ {f} : flow'[h] = flow[h]
  BY <1>1 DEF FlowType
<1>5. FlowOK(f)'
  BY <1>1, <1>2, <1>3, <1>4 DEF FlowOK, Kept, At, Bill
<1>6. \A h \in Flows : FlowOK(h)'
  BY <1>2, <1>4, <1>5, FlowKept, WatchedFacts
<1>7. FlowBindInv'
  <2>1. \A h \in Flows : flow'[h].bill = flow[h].bill
    BY <1>4
  <2> QED BY <1>2, <2>1 DEF FlowInv, FlowBindInv, Kept
<1> QED BY <1>2, <1>4, <1>6, <1>7 DEF FlowInv

\* A binding that is normalised to a success is for a settled bill.
LEMMA BindingEndFacts ==
  ASSUME FlowInv, PayersAssumption, NEW a \in Accounts
  PROVE  /\ BindingEnd(a) \in {"none", "reserved", "failed", "success", "interrupted_unknown"}
         /\ BindingEnd(a) = "success" => bind[a].bill \in Bills /\ remote[bind[a].bill] = "settled"
<1> DEFINE o == bind[a].owner
           ended == IF o \in Web THEN job[o] ELSE IF o \in Flows THEN flow[o].status ELSE "none"
           told  == IF bind[a].bill = NoOne THEN "none" ELSE snap[bind[a].bill].status
<1>1. /\ bind[a] \in BindType /\ BindInv /\ SettledInv /\ FlowBindInv
      /\ job \in [Web -> JobStatuses] /\ snap \in [Bills -> Entry]
  BY DEF FlowInv, InboxInv, TypeOK, BindType, JobStatuses
<1>2. ended \in {"success", "success_unreconciled"} =>
        bind[a].bill \in Bills /\ remote[bind[a].bill] = "settled"
  <2>1. CASE o \in Web
    <3>1. ended = job[o] /\ ~At(o, "idle") /\ bind[a].bill = Bill(o)
      BY <1>1, <2>1 DEF BindInv
    <3>2. Bill(o) \in Bills
      BY <2>1, <3>1, PayFacts DEF FlowInv, PayerOK, Payers
    <3> QED BY <1>1, <2>1, <3>1, <3>2 DEF SettledInv, PaidIsSettled
  <2>2. CASE o \notin Web /\ o \in Flows
    <3>1. ended = flow[o].status /\ FlowOK(o) /\ bind[a].bill = flow[o].bill
      BY <1>1, <2>2, FlowFacts DEF FlowBindInv
    <3> QED BY <3>1 DEF FlowOK
  <2>3. CASE o \notin Web /\ o \notin Flows
    BY <2>3
  <2> QED BY <2>1, <2>2, <2>3
<1>3. /\ told = "success" => bind[a].bill \in Bills /\ remote[bind[a].bill] = "settled"
      /\ told \in JournalStatuses
  <2>1. bind[a].bill \in Bills \cup {NoOne}
    BY <1>1 DEF BindType
  <2> QED BY <1>1, <2>1 DEF SettledInv, PaidIsSettled, Entry, JournalStatuses
<1>4. bind[a].status = "success" => bind[a].bill \in Bills /\ remote[bind[a].bill] = "settled"
  BY <1>1 DEF BindInv, SettledInv, PaidIsSettled
<1>5. BindingEnd(a) =
        IF bind[a].status \notin {"reserved", "interrupted_unknown"} THEN bind[a].status
        ELSE IF ended \in {"success", "success_unreconciled"} THEN "success"
        ELSE IF ended = "failed" THEN "failed"
        ELSE IF told \in {"success", "interrupted_unknown"} THEN told
        ELSE IF told \in Retryable THEN "failed"
        ELSE bind[a].status
  BY DEF BindingEnd
<1> HIDE DEF ended, told
<1>6. bind[a].status \in {"none", "reserved", "failed", "success", "interrupted_unknown"}
  BY <1>1 DEF BindType
<1> QED BY <1>2, <1>3, <1>4, <1>5, <1>6

LEMMA ReservesAccountKeeps ==
  ASSUME FlowInv, PayersAssumption, NEW f \in Flows, ReservesAccount(f)
  PROVE  FlowInv'
<1> DEFINE norm == [a \in Accounts |-> [bind[a] EXCEPT !.status = BindingEnd(a)]]
           taken == [status |-> "reserved", owner |-> f, bill |-> flow[f].bill]
<1>1. /\ flow \in [Flows -> FlowType] /\ flow[f] \in FlowType /\ FlowOK(f)
      /\ flow[f].at = "account" /\ flow[f].bill \in Bills
      /\ UNCHANGED <<row, snap, job, marked, pay, remote, restarts>>
      /\ InboxInv /\ row \in [Bills -> RowType] /\ bind \in [Accounts -> BindType]
  BY FlowFacts DEF ReservesAccount, FlowAt, FlowOK, FlowInv, InboxInv, TypeOK, RowType, BindType
<1>2. /\ norm \in [Accounts -> BindType]
      /\ \A a \in Accounts : /\ norm[a].owner = bind[a].owner /\ norm[a].bill = bind[a].bill
                              /\ norm[a].status = BindingEnd(a)
  <2>1. ASSUME NEW a \in Accounts
        PROVE  /\ norm[a] \in BindType /\ norm[a].owner = bind[a].owner
               /\ norm[a].bill = bind[a].bill /\ norm[a].status = BindingEnd(a)
    <3>1. BindingEnd(a) \in {"none", "reserved", "failed", "success", "interrupted_unknown"}
      BY BindingEndFacts
    <3> DEFINE e == BindingEnd(a)
    <3>2. norm[a] = [bind[a] EXCEPT !.status = e] /\ bind[a] \in BindType
      BY <1>1
    <3> HIDE DEF e, norm
    <3>3. /\ norm[a] \in BindType /\ norm[a].owner = bind[a].owner
          /\ norm[a].bill = bind[a].bill /\ norm[a].status = e
      BY <3>1, <3>2 DEF BindType, e
    <3> QED BY <3>3 DEF e
  <2> QED BY <2>1
<1>3. \/ \E a \in Accounts :
           /\ MayBind(a, f, flow[f].bill, NoOne)
           /\ bind' = [norm EXCEPT ![a] = taken]
           /\ flow' = [flow EXCEPT ![f].at = "start", ![f].acct = a]
      \/ bind' = norm /\ flow' = [flow EXCEPT ![f].at = "failing"]
  BY DEF ReservesAccount, FlowGoes
<1>4. taken \in BindType /\ taken.status = "reserved" /\ taken.owner = f /\ taken.bill = flow[f].bill
  BY <1>1 DEF BindType
<1>5. f \notin Web /\ NoOne \notin Web
  BY DEF PayersAssumption
<1> HIDE DEF norm, taken
<1>6. CASE bind' = norm /\ flow' = [flow EXCEPT ![f].at = "failing"]
  <2>1. InboxInv'
    BY <1>1, <1>2, <1>6, BindingEndFacts, FlowTouches
  <2>2. /\ flow' \in [Flows -> FlowType]
        /\ flow'[f].at = "failing" /\ flow'[f].status = flow[f].status
        /\ flow'[f].bill = flow[f].bill /\ flow'[f].web = flow[f].web
        /\ \A h \in Flows \ {f} : flow'[h] = flow[h]
    BY <1>1, <1>6 DEF FlowType
  <2>3. FlowOK(f)'
    BY <1>1, <2>2 DEF FlowOK, At, Bill
  <2>4. \A h \in Flows : FlowOK(h)'
    BY <1>1, <2>2, <2>3, FlowKept, WatchedFacts
  <2>5. FlowBindInv'
    BY <1>2, <1>6, <2>2 DEF FlowInv, FlowBindInv
  <2> QED BY <2>1, <2>2, <2>4, <2>5 DEF FlowInv
<1>7. ASSUME NEW a \in Accounts, MayBind(a, f, flow[f].bill, NoOne),
             bind' = [norm EXCEPT ![a] = taken],
             flow' = [flow EXCEPT ![f].at = "start", ![f].acct = a]
      PROVE  FlowInv'
  <2>1. /\ bind' \in [Accounts -> BindType] /\ bind'[a] = taken
        /\ \A x \in Accounts \ {a} : bind'[x] = norm[x]
    BY <1>2, <1>4, <1>7
  <2>2. bind[a].owner \notin Web
    BY <1>5, <1>7 DEF MayBind
  <2>3. InboxInv'
    <3>1. \A x \in Accounts :
            \/ bind'[x].owner = bind[x].owner /\ bind'[x].bill = bind[x].bill
            \/ bind[x].owner \notin Web /\ bind'[x].owner \notin Web
      BY <1>2, <1>4, <1>5, <2>1, <2>2
    <3>2. \A x \in Accounts : bind'[x].status = "success" =>
            bind'[x].bill \in Bills /\ remote[bind'[x].bill] = "settled"
      BY <1>2, <1>4, <2>1, BindingEndFacts
    <3> QED BY <1>1, <2>1, <3>1, <3>2, FlowTouches
  <2>4. /\ flow' \in [Flows -> FlowType]
        /\ flow'[f].at = "start" /\ flow'[f].status = flow[f].status /\ flow'[f].acct = a
        /\ flow'[f].bill = flow[f].bill /\ flow'[f].web = flow[f].web
        /\ \A h \in Flows \ {f} : flow'[h] = flow[h]
    BY <1>1, <1>7 DEF FlowType
  <2>5. FlowOK(f)'
    BY <1>1, <2>4 DEF FlowOK, At, Bill
  <2>6. \A h \in Flows : FlowOK(h)'
    BY <1>1, <2>4, <2>5, FlowKept, WatchedFacts
  <2>7. FlowBindInv'
    <3>1. \A h \in Flows : flow'[h].bill = flow[h].bill
      BY <2>4
    <3> QED BY <1>1, <1>2, <1>4, <2>1, <3>1 DEF FlowInv, FlowBindInv
  <2> QED BY <2>3, <2>4, <2>6, <2>7 DEF FlowInv
<1> QED BY <1>3, <1>6, <1>7

\* A step that leaves the flow's bill alone and gives no flow a reservation.
LEMMA FlowBindKept ==
  ASSUME FlowInv, \A h \in Flows : flow'[h].bill = flow[h].bill,
         \A a \in Accounts : bind'[a].owner \in Flows =>
           bind'[a].owner = bind[a].owner /\ bind'[a].bill = bind[a].bill
  PROVE  FlowBindInv'
BY DEF FlowInv, FlowBindInv

LEMMA PollsPaymentKeeps ==
  ASSUME FlowInv, PayersAssumption, NEW f \in Flows, PollsPayment(f)
  PROVE  FlowInv'
<1> DEFINE w == flow[f].web
           a == flow[f].acct
<1>1. /\ flow \in [Flows -> FlowType] /\ flow[f] \in FlowType /\ FlowOK(f)
      /\ flow[f].at = "watch" /\ flow[f].bill \in Bills /\ a \in Accounts /\ w \in Web
      /\ Bill(w) = flow[f].bill /\ ~At(w, "idle")
      /\ UNCHANGED <<row, snap, job, marked, pay, remote, restarts>>
      /\ InboxInv /\ TypeOK /\ row \in [Bills -> RowType] /\ bind \in [Accounts -> BindType]
  BY FlowFacts DEF PollsPayment, FlowAt, FlowOK, FlowType, FlowInv, InboxInv, TypeOK, RowType, BindType
<1>2. job[w] \in {"success", "success_unreconciled"} => remote[Bill(w)] = "settled"
  BY <1>1 DEF InboxInv, SettledInv, PaidIsSettled
<1>3. \/ bind' = bind
      \/ bind' = BindingSet(a, "success", w) /\ job[w] = "success"
      \/ bind' = BindingSet(a, "failed", w)
  BY DEF PollsPayment
<1>4. /\ bind' \in [Accounts -> BindType]
      /\ \A x \in Accounts :
           /\ bind'[x].owner = bind[x].owner /\ bind'[x].bill = bind[x].bill
           /\ bind'[x].status = "success" =>
                bind[x].status = "success" \/ (bind[x].owner = w /\ job[w] = "success")
  <2>1. CASE bind' = bind
    BY <1>1, <2>1
  <2>2. CASE bind' = BindingSet(a, "success", w) /\ job[w] = "success"
    BY <1>1, <2>2, BindingSetFacts
  <2>3. CASE bind' = BindingSet(a, "failed", w)
    BY <1>1, <2>3, BindingSetFacts
  <2> QED BY <1>3, <2>1, <2>2, <2>3
<1>5. \A x \in Accounts : bind'[x].status = "success" =>
        bind'[x].bill \in Bills /\ remote[bind'[x].bill] = "settled"
  <2> SUFFICES ASSUME NEW x \in Accounts, bind'[x].status = "success"
               PROVE  bind[x].bill \in Bills /\ remote[bind[x].bill] = "settled"
    BY <1>4
  <2>1. CASE bind[x].status = "success"
    BY <1>1, <2>1 DEF InboxInv, BindInv, SettledInv, PaidIsSettled
  <2>2. CASE bind[x].owner = w /\ job[w] = "success"
    <3>1. bind[x].bill = Bill(w)
      BY <1>1, <2>2 DEF InboxInv, BindInv
    <3> QED BY <1>1, <1>2, <2>2, <3>1
  <2> QED BY <1>4, <2>1, <2>2
<1>6. InboxInv'
  BY <1>1, <1>4, <1>5, FlowTouches
<1>7. \/ \E s \in {"success", "success_unreconciled", "interrupted_unknown"} :
           /\ flow' = [flow EXCEPT ![f].at = "done", ![f].status = s]
           /\ s = job[w] \/ s = "interrupted_unknown"
      \/ \E lost \in BOOLEAN : flow' = [flow EXCEPT ![f].at = "failing", ![f].claimLost = lost]
  <2>1. CASE job[w] \in {"success", "success_unreconciled", "interrupted_unknown"}
    BY <2>1 DEF PollsPayment, FlowEnds
  <2>2. CASE job[w] = "failed"
    <3> DEFINE lost == At(w, "done") /\ pay[w].lost
    <3>1. flow' = [flow EXCEPT ![f].at = "failing", ![f].claimLost = lost]
      BY <2>2 DEF PollsPayment
    <3>2. lost \in BOOLEAN
      BY Zenon
    <3> HIDE DEF lost
    <3> QED BY <3>1, <3>2
  <2>3. CASE job[w] \notin {"success", "success_unreconciled", "interrupted_unknown", "failed"}
    BY <2>3 DEF PollsPayment, FlowEnds
  <2> QED BY <2>1, <2>2, <2>3
<1>8. /\ flow' \in [Flows -> FlowType]
      /\ flow'[f].at \in {"done", "failing"} /\ flow'[f].bill = flow[f].bill
      /\ flow'[f].web = flow[f].web
      /\ flow'[f].status \in {"success", "success_unreconciled"} =>
           flow[f].status = flow'[f].status \/ job[w] = flow'[f].status
      /\ \A h \in Flows \ {f} : flow'[h] = flow[h]
  <2>1. ASSUME NEW s \in {"success", "success_unreconciled", "interrupted_unknown"},
               flow' = [flow EXCEPT ![f].at = "done", ![f].status = s]
        PROVE  /\ flow' \in [Flows -> FlowType]
               /\ flow'[f].at = "done" /\ flow'[f].bill = flow[f].bill
               /\ flow'[f].web = flow[f].web /\ flow'[f].status = s
               /\ \A h \in Flows \ {f} : flow'[h] = flow[h]
    BY <1>1, <2>1 DEF FlowType
  <2>2. ASSUME NEW lost \in BOOLEAN, flow' = [flow EXCEPT ![f].at = "failing", ![f].claimLost = lost]
        PROVE  /\ flow' \in [Flows -> FlowType]
               /\ flow'[f].at = "failing" /\ flow'[f].bill = flow[f].bill
               /\ flow'[f].web = flow[f].web /\ flow'[f].status = flow[f].status
               /\ \A h \in Flows \ {f} : flow'[h] = flow[h]
    BY <1>1, <2>2 DEF FlowType
  <2> QED BY <1>7, <2>1, <2>2
<1>9. FlowOK(f)'
  BY <1>1, <1>2, <1>8 DEF FlowOK, At, Bill
<1>10. \A h \in Flows : FlowOK(h)'
  BY <1>1, <1>8, <1>9, FlowKept, WatchedFacts
<1>11. FlowBindInv'
  <2>1. \A h \in Flows : flow'[h].bill = flow[h].bill
    BY <1>8
  <2> QED BY <1>4, <2>1, FlowBindKept
<1> QED BY <1>6, <1>8, <1>10, <1>11 DEF FlowInv

LEMMA FlowFailsKeeps ==
  ASSUME FlowInv, PayersAssumption, NEW f \in Flows, FlowFails(f)
  PROVE  FlowInv'
<1>1. /\ flow \in [Flows -> FlowType] /\ flow[f] \in FlowType /\ FlowOK(f)
      /\ UNCHANGED <<snap, job, marked, pay, remote, restarts>>
      /\ InboxInv /\ TypeOK /\ row \in [Bills -> RowType] /\ bind \in [Accounts -> BindType]
  BY FlowFacts DEF FlowFails, FlowInv, InboxInv, TypeOK, RowType, BindType
<1>2. /\ row' \in [Bills -> RowType]
      /\ \A b \in Bills : row'[b] = row[b] \/ row'[b].status = "closed"
  <2>1. flow[f].bill # NoOne => flow[f].bill \in Bills
    BY <1>1 DEF FlowType
  <2> QED BY <1>1, <2>1, RowClosedFacts DEF FlowFails
<1>3. /\ bind' \in [Accounts -> BindType]
      /\ \A a \in Accounts : bind'[a] = bind[a] \/ (bind[a].owner = f /\ bind'[a] = Unbound)
  <2>1. flow[f].acct # NoOne => flow[f].acct \in Accounts
    BY <1>1 DEF FlowType
  <2> QED BY <1>1, <2>1, BindingReleasedFacts DEF FlowFails
<1>4. InboxInv'
  <2>1. \A a \in Accounts :
          \/ bind'[a].owner = bind[a].owner /\ bind'[a].bill = bind[a].bill
          \/ bind[a].owner \notin Web /\ bind'[a].owner \notin Web
    BY <1>3 DEF Unbound, PayersAssumption
  <2>2. \A a \in Accounts : bind'[a].status = "success" =>
          bind'[a].bill \in Bills /\ remote[bind'[a].bill] = "settled"
    BY <1>1, <1>3 DEF Unbound, InboxInv, BindInv, SettledInv, PaidIsSettled
  <2> QED BY <1>1, <1>2, <1>3, <2>1, <2>2, FlowTouches
<1>5. PICK again \in BOOLEAN :
        flow' = [flow EXCEPT ![f].at = "done", ![f].status = "failed", ![f].again = again]
  <2>1. (~flow[f].claimLost) \in BOOLEAN
    BY Zenon
  <2> QED BY <2>1 DEF FlowFails
<1>6. /\ flow' \in [Flows -> FlowType]
      /\ flow'[f].at = "done" /\ flow'[f].bill = flow[f].bill
      /\ flow'[f].web = flow[f].web /\ flow'[f].status = "failed"
      /\ \A h \in Flows \ {f} : flow'[h] = flow[h]
  BY <1>1, <1>5 DEF FlowType
<1>7. FlowOK(f)'
  BY <1>1, <1>6 DEF FlowOK, At, Bill
<1>8. \A h \in Flows : FlowOK(h)'
  BY <1>1, <1>6, <1>7, FlowKept, WatchedFacts
<1>9. FlowBindInv'
  <2>1. \A h \in Flows : flow'[h].bill = flow[h].bill
    BY <1>6
  <2> QED BY <1>3, <2>1, FlowBindKept DEF Unbound, PayersAssumption
<1> QED BY <1>4, <1>6, <1>8, <1>9 DEF FlowInv

-----------------------------------------------------------------------------
(* The invariant *)

LEMMA FlowInitHolds ==
  ASSUME PayersAssumption, FlowInit
  PROVE  FlowInv
<1>1. InboxInv
  BY InitHolds DEF FlowInit
<1>2. /\ Unstarted \in FlowType /\ Unstarted.at = "idle" /\ Unstarted.status = "none"
      /\ Unstarted.bill = NoOne /\ Unstarted.web = NoOne
  BY DEF Unstarted, FlowType
<1>3. flow \in [Flows -> FlowType] /\ \A f \in Flows : flow[f] = Unstarted
  BY <1>2 DEF FlowInit
<1>4. \A f \in Flows : FlowOK(f)
  BY <1>2, <1>3 DEF FlowOK
<1>5. FlowBindInv
  BY DEF FlowInit, Init, Unbound, FlowBindInv, PayersAssumption
<1> QED BY <1>1, <1>3, <1>4, <1>5 DEF FlowInv

LEMMA FlowStepHolds ==
  ASSUME FlowInv, PayersAssumption, [FlowNext]_flowVars
  PROVE  FlowInv'
<1>1. CASE PaymentSteps /\ UNCHANGED flow
  BY <1>1, PaymentStepsKeep
<1>2. CASE FlowRestart
  BY <1>2, FlowRestartKeeps
<1>3. ASSUME NEW f \in Flows, FlowSteps(f) PROVE FlowInv'
  <2>1. CASE GeneratesLink(f)
    BY <2>1, GeneratesLinkKeeps
  <2>2. CASE ReservesAccount(f)
    BY <2>2, ReservesAccountKeeps
  <2>3. CASE PaymentStarted(f) \/ RechecksPayment(f)
    BY <2>3, PaymentStartedKeeps
  <2>4. CASE PollsPayment(f)
    BY <2>4, PollsPaymentKeeps
  <2>5. CASE FlowFails(f)
    BY <2>5, FlowFailsKeeps
  <2>6. CASE \E w \in Web : StartsPayment(f, w)
    BY <2>6, StartsPaymentKeeps
  <2> QED BY <1>3, <2>1, <2>2, <2>3, <2>4, <2>5, <2>6 DEF FlowSteps
<1>4. ASSUME NEW f \in Flows, FlowStarts(f) \/ \E e \in Flows : FlowRetries(e, f)
      PROVE  FlowInv'
  BY <1>4, FlowStartsKeeps
<1>5. CASE UNCHANGED flowVars
  <2>1. UNCHANGED vars /\ flow' = flow
    BY <1>5 DEF flowVars
  <2> QED BY <2>1, FlowAloneKeeps DEF FlowInv
<1> QED BY <1>1, <1>2, <1>3, <1>4, <1>5 DEF FlowNext

\* The invariant holds in every state.
THEOREM FlowsKeepInbox == FlowSpec => []FlowInv
<1>1. FlowInit => FlowInv
  BY FlowInitHolds, PayersAssumption
<1>2. FlowInv /\ [FlowNext]_flowVars => FlowInv'
  BY FlowStepHolds, PayersAssumption
<1> QED BY <1>1, <1>2, PTL DEF FlowSpec

-----------------------------------------------------------------------------
(* The history of a flow *)

\* A flow that has paid, may have paid, or is on its way to a payment: start
\* gives no new one to the address.
Holds(f) ==
  \/ flow[f].status \in {"success", "success_unreconciled", "interrupted_unknown"}
  \/ flow[f].status = "running" /\ ~FlowAt(f, "done")

\* Only a record that start has passed over for its age does not.
Counts(f) == ~flow[f].passed /\ Holds(f)

Alone == \A f, g \in Flows : f # g => ~(Counts(f) /\ Counts(g))

OnWay == {"link", "account", "start", "starting", "watch", "failing", "recheck"}

\* What a flow's place says of its status and its payment, and that a flow which
\* fails, or has failed, names a payment that is over.
TellOK(f) ==
  /\ flow[f].web # NoOne /\ (FlowAt(f, "failing") \/ flow[f].status = "failed") =>
       Ended(flow[f].web)
  /\ flow[f].at \in {"idle", "link", "account", "start"} => flow[f].web = NoOne
  /\ flow[f].at \in OnWay => flow[f].status \in {"running", "interrupted_unknown"}
  /\ FlowAt(f, "idle") => flow[f].status = "none"
  /\ flow[f].status = "none" => flow[f].web = NoOne
  /\ flow[f].status = "running" /\ FlowAt(f, "done") => flow[f].bill = NoOne
  /\ flow[f].again => flow[f].status = "failed"

TruthInv == EndInv /\ Alone /\ \A f \in Flows : TellOK(f)

\* What has ended stays so in every step of the inbox and its flows.
EndsGoOn == \A w \in Web : EndOK(w)' /\ (Ended(w) => Ended(w)')

LEMMA FlowsLetEnd ==
  ASSUME FlowInv, FlowInv', PayersAssumption, EndInv, [FlowNext]_flowVars
  PROVE  EndsGoOn
<1>1. InboxInv /\ InboxInv'
  BY DEF FlowInv
<1>2. CASE [Next]_vars
  BY <1>1, <1>2, EndsStay DEF EndInv, EndsGoOn
<1>3. CASE UNCHANGED <<snap, job, pay, remote>>
  <2>1. \A w \in Web : Spared(w)
    BY <1>3 DEF Spared
  <2> QED BY <1>1, <2>1, SparedEnds DEF EndInv, EndsGoOn
<1>4. ASSUME NEW f \in Flows, NEW v \in Web, StartsPayment(f, v) PROVE EndsGoOn
  <2>1. /\ flow[f].bill \in Bills /\ v \in Payers
        /\ Starts(v, flow[f].bill, flow[f].acct, f, "row")
    BY <1>4, FlowFacts DEF StartsPayment, FlowAt, FlowOK, Payers
  <2>2. ASSUME NEW w \in Web PROVE EndOK(w)' /\ (Ended(w) => Ended(w)')
    <3>1. EndOK(w)
      BY DEF EndInv
    <3>2. CASE w = v
      BY <1>1, <2>1, <3>1, <3>2, StartsEnds
    <3>3. CASE w # v
      <4>1. Spared(w)
        BY <1>1, <2>1, <3>3, EntersSpare
      <4> QED BY <1>1, <3>1, <4>1, SparedEnds
    <3> QED BY <3>2, <3>3
  <2> QED BY <2>2 DEF EndsGoOn
<1>5. CASE PaymentSteps \/ FlowRestart
  BY <1>2, <1>5 DEF PaymentSteps, FlowRestart, Next
<1>6. ASSUME NEW f \in Flows, FlowSteps(f) PROVE EndsGoOn
  <2>1. CASE GeneratesLink(f)
    BY <1>2, <2>1 DEF GeneratesLink, InboxSteps, Next
  <2>2. CASE ReservesAccount(f) \/ PollsPayment(f) \/ FlowFails(f)
    BY <1>3, <2>2 DEF ReservesAccount, PollsPayment, FlowFails
  <2>3. CASE PaymentStarted(f) \/ RechecksPayment(f)
    BY <1>2, <2>3 DEF PaymentStarted, RechecksPayment
  <2> QED BY <1>4, <1>6, <2>1, <2>2, <2>3 DEF FlowSteps
<1>7. ASSUME NEW f \in Flows, NEW g \in Flows, FlowStarts(f) \/ FlowRetries(f, g) PROVE EndsGoOn
  BY <1>2, <1>7 DEF FlowStarts, FlowRetries
<1>8. CASE UNCHANGED flowVars
  BY <1>2, <1>8 DEF flowVars
<1> QED BY <1>5, <1>6, <1>7, <1>8 DEF FlowNext

LEMMA TellKept ==
  ASSUME FlowInv, NEW f \in Flows, TellOK(f), EndsGoOn, flow'[f] = flow[f]
  PROVE  TellOK(f)' /\ (Counts(f)' => Counts(f))
<1>1. flow[f] \in FlowType
  BY FlowFacts
<1>2. flow[f].web # NoOne => flow[f].web \in Web
  BY <1>1 DEF FlowType
<1> QED BY <1>2 DEF TellOK, EndsGoOn, Counts, Holds, FlowAt

\* The step of one flow.
LEMMA OneTells ==
  ASSUME FlowInv, TruthInv, EndsGoOn, NEW f \in Flows,
         \A g \in Flows \ {f} : flow'[g] = flow[g],
         TellOK(f)',
         flow'[f].passed = flow[f].passed, Holds(f)' => Holds(f)
  PROVE  TruthInv'
<1>1. EndInv'
  BY DEF EndsGoOn, EndInv
<1>2. \A g \in Flows \ {f} : TellOK(g)' /\ (Counts(g)' => Counts(g))
  BY TellKept DEF TruthInv
<1>3. (\A g \in Flows : TellOK(g))'
  BY <1>2
<1>4. Alone'
  BY <1>2 DEF TruthInv, Alone, Counts
<1> QED BY <1>1, <1>3, <1>4 DEF TruthInv

LEMMA OnWayHolds ==
  ASSUME NEW f \in Flows, TellOK(f), flow[f].at \in OnWay
  PROVE  Holds(f)
BY DEF TellOK, Holds, OnWay, FlowAt

\* Who finds no flow to reuse passes over those that hold the address.
LEMMA FlowStartsTells ==
  ASSUME FlowInv, TruthInv, EndsGoOn, NEW f \in Flows,
         FlowStarts(f) \/ \E e \in Flows : FlowRetries(e, f)
  PROVE  TruthInv'
<1>1. TellOK(f) /\ flow[f].at = "idle" /\ NoFlowToReuse
  BY StartedFacts DEF TruthInv
<1>2. TellOK(f)'
  <2>1. /\ flow'[f].at = "link" /\ flow'[f].status = "running" /\ flow'[f].web = flow[f].web
        /\ flow'[f].again => flow[f].again
    BY StartedFacts
  <2>2. flow[f].web = NoOne /\ ~flow[f].again
    BY <1>1 DEF TellOK, FlowAt
  <2> QED BY <2>1, <2>2 DEF TellOK, FlowAt
<1>3. ASSUME NEW h \in Flows \ {f} PROVE TellOK(h)' /\ ~Counts(h)'
  <2>1. /\ flow'[h].at = flow[h].at /\ flow'[h].status = flow[h].status
        /\ flow'[h].bill = flow[h].bill /\ flow'[h].web = flow[h].web
        /\ flow'[h].again => flow[h].again
        /\ Stale(h) /\ flow[h].at # "done" => flow'[h].passed
    BY StartedFacts
  <2>2. flow[h] \in FlowType /\ TellOK(h) /\ (flow[h].web # NoOne => flow[h].web \in Web)
    BY FlowFacts DEF TruthInv, FlowType
  <2>3. TellOK(h)'
    BY <2>1, <2>2 DEF TellOK, EndsGoOn, FlowAt
  <2>4. flow[h].status \in {"none", "failed"} \/ Stale(h)
    BY <1>1 DEF NoFlowToReuse
  <2>5. CASE flow[h].status \in {"none", "failed"} \/ flow[h].at = "done"
    <3>1. flow[h].status \in {"none", "failed"} \/ (flow[h].status = "running" /\ flow[h].at = "done")
      BY <2>4, <2>5 DEF Stale
    <3> QED BY <2>1, <2>3, <3>1 DEF Counts, Holds, FlowAt
  <2>6. CASE Stale(h) /\ flow[h].at # "done"
    BY <2>1, <2>3, <2>6 DEF Counts
  <2> QED BY <2>4, <2>5, <2>6
<1>4. (\A h \in Flows : TellOK(h))' /\ Alone'
  BY <1>2, <1>3 DEF Alone
<1> QED BY <1>4 DEF TruthInv, EndsGoOn, EndInv

\* The steps before the payment is watched; none names a payment that failed.
LEMMA OnWayTells ==
  ASSUME FlowInv, TruthInv, EndsGoOn, NEW f \in Flows, flow[f].at \in OnWay,
         \A g \in Flows \ {f} : flow'[g] = flow[g],
         flow'[f].status = flow[f].status, flow'[f].again = flow[f].again,
         flow'[f].passed = flow[f].passed,
         \/ flow'[f].at \in {"account", "start", "failing"} /\ flow'[f].web = NoOne
         \/ flow'[f].at \in {"starting", "watch"}
  PROVE  TruthInv'
<1>1. flow[f] \in FlowType /\ TellOK(f) /\ Holds(f)
  BY FlowFacts, OnWayHolds DEF TruthInv
<1>2. TellOK(f)'
  BY <1>1 DEF TellOK, OnWay, FlowAt
<1> QED BY <1>1, <1>2, OneTells

LEMMA FlowGoesTells ==
  ASSUME FlowInv, TruthInv, EndsGoOn, NEW f \in Flows,
         GeneratesLink(f) \/ ReservesAccount(f) \/ PaymentStarted(f)
           \/ \E w \in Web : StartsPayment(f, w)
  PROVE  TruthInv'
<1>1. flow \in [Flows -> FlowType] /\ flow[f] \in FlowType /\ TellOK(f)
  BY FlowFacts DEF TruthInv
<1>2. CASE GeneratesLink(f) \/ ReservesAccount(f)
  <2>1. flow[f].at \in {"link", "account"} /\ flow[f].web = NoOne
    BY <1>1, <1>2 DEF GeneratesLink, ReservesAccount, FlowAt, TellOK
  <2>2. \/ flow' = [flow EXCEPT ![f].at = "failing"]
        \/ \E b : flow' = [flow EXCEPT ![f].at = "account", ![f].bill = b]
        \/ \E a : flow' = [flow EXCEPT ![f].at = "start", ![f].acct = a]
    BY <1>2 DEF GeneratesLink, ReservesAccount, FlowGoes
  <2>3. /\ flow'[f].at \in {"account", "start", "failing"} /\ flow'[f].web = NoOne
        /\ flow'[f].status = flow[f].status /\ flow'[f].again = flow[f].again
        /\ flow'[f].passed = flow[f].passed
        /\ \A g \in Flows \ {f} : flow'[g] = flow[g]
    <3>1. CASE flow' = [flow EXCEPT ![f].at = "failing"]
      BY <1>1, <2>1, <3>1 DEF FlowType
    <3>2. ASSUME NEW b, flow' = [flow EXCEPT ![f].at = "account", ![f].bill = b]
          PROVE  /\ flow'[f].at = "account" /\ flow'[f].web = flow[f].web
                 /\ flow'[f].status = flow[f].status /\ flow'[f].again = flow[f].again
                 /\ flow'[f].passed = flow[f].passed
                 /\ \A g \in Flows \ {f} : flow'[g] = flow[g]
      BY <1>1, <3>2 DEF FlowType
    <3>3. ASSUME NEW a, flow' = [flow EXCEPT ![f].at = "start", ![f].acct = a]
          PROVE  /\ flow'[f].at = "start" /\ flow'[f].web = flow[f].web
                 /\ flow'[f].status = flow[f].status /\ flow'[f].again = flow[f].again
                 /\ flow'[f].passed = flow[f].passed
                 /\ \A g \in Flows \ {f} : flow'[g] = flow[g]
      BY <1>1, <3>3 DEF FlowType
    <3> QED BY <2>1, <2>2, <3>1, <3>2, <3>3
  <2> QED BY <2>1, <2>3, OnWayTells DEF OnWay
<1>3. CASE PaymentStarted(f)
  <2>1. flow[f].at = "starting"
    BY <1>3 DEF PaymentStarted, FlowAt
  <2>2. \/ flow' = [flow EXCEPT ![f].at = "watch"]
        \/ \E lost \in BOOLEAN :
             flow' = [flow EXCEPT ![f].at = "failing", ![f].claimLost = lost, ![f].web = NoOne]
    BY <1>3 DEF PaymentStarted, FlowGoes
  <2>3. /\ flow'[f].at = "watch" \/ (flow'[f].at = "failing" /\ flow'[f].web = NoOne)
        /\ flow'[f].status = flow[f].status /\ flow'[f].again = flow[f].again
        /\ flow'[f].passed = flow[f].passed
        /\ \A g \in Flows \ {f} : flow'[g] = flow[g]
    <3>1. CASE flow' = [flow EXCEPT ![f].at = "watch"]
      BY <1>1, <3>1 DEF FlowType
    <3>2. ASSUME NEW lost \in BOOLEAN,
                 flow' = [flow EXCEPT ![f].at = "failing", ![f].claimLost = lost, ![f].web = NoOne]
          PROVE  /\ flow'[f].at = "failing" /\ flow'[f].web = NoOne
                 /\ flow'[f].status = flow[f].status /\ flow'[f].again = flow[f].again
                 /\ flow'[f].passed = flow[f].passed
                 /\ \A g \in Flows \ {f} : flow'[g] = flow[g]
      BY <1>1, <3>2 DEF FlowType
    <3> QED BY <2>2, <3>1, <3>2
  <2> QED BY <2>1, <2>3, OnWayTells DEF OnWay
<1>4. ASSUME NEW w \in Web, StartsPayment(f, w) PROVE TruthInv'
  <2>1. flow[f].at = "start" /\ flow' = [flow EXCEPT ![f].at = "starting", ![f].web = w]
    BY <1>4 DEF StartsPayment, FlowAt
  <2>2. /\ flow'[f].at = "starting"
        /\ flow'[f].status = flow[f].status /\ flow'[f].again = flow[f].again
        /\ flow'[f].passed = flow[f].passed
        /\ \A g \in Flows \ {f} : flow'[g] = flow[g]
    BY <1>1, <2>1 DEF FlowType
  <2> QED BY <2>1, <2>2, OnWayTells DEF OnWay
<1> QED BY <1>2, <1>3, <1>4

\* The steps that take over what the payment's record says.
LEMMA OutcomeTells ==
  ASSUME FlowInv, TruthInv, EndsGoOn, NEW f \in Flows, flow[f].at \in OnWay,
         NEW s \in {"success", "success_unreconciled", "interrupted_unknown", "failed"},
         \A g \in Flows \ {f} : flow'[g] = flow[g],
         flow'[f].at = "done", flow'[f].status = s, flow'[f].web = flow[f].web, flow'[f].passed = flow[f].passed,
         flow'[f].again => s = "failed",
         s = "failed" /\ flow[f].web # NoOne => Ended(flow[f].web)
  PROVE  TruthInv'
<1>1. flow[f] \in FlowType /\ TellOK(f) /\ Holds(f)
  BY FlowFacts, OnWayHolds DEF TruthInv
<1>2. flow[f].web # NoOne => flow[f].web \in Web
  BY <1>1 DEF FlowType
<1>3. TellOK(f)'
  BY <1>1, <1>2 DEF TellOK, OnWay, FlowAt, EndsGoOn
<1> QED BY <1>1, <1>3, OneTells

LEMMA FlowEndsTells ==
  ASSUME FlowInv, TruthInv, EndsGoOn, NEW f \in Flows,
         PollsPayment(f) \/ FlowFails(f) \/ RechecksPayment(f)
  PROVE  TruthInv'
<1> DEFINE w == flow[f].web
<1>1. /\ flow \in [Flows -> FlowType] /\ flow[f] \in FlowType /\ TellOK(f) /\ FlowOK(f)
      /\ w # NoOne => w \in Web
  BY FlowFacts DEF TruthInv, FlowType
<1>2. w \in Web /\ job[w] = "failed" => Ended(w)
  BY DEF TruthInv, EndInv, EndOK
<1>3. ASSUME NEW s, flow' = [flow EXCEPT ![f].at = "done", ![f].status = s]
      PROVE  /\ flow'[f].at = "done" /\ flow'[f].status = s /\ flow'[f].web = w
             /\ flow'[f].again = flow[f].again /\ flow'[f].passed = flow[f].passed
             /\ \A g \in Flows \ {f} : flow'[g] = flow[g]
  BY <1>1, <1>3 DEF FlowType
<1>4. flow[f].at \in OnWay => ~flow[f].again
  BY <1>1 DEF TellOK
<1>5. CASE PollsPayment(f)
  <2>1. flow[f].at = "watch" /\ flow[f].at \in OnWay /\ w \in Web
    BY <1>1, <1>5 DEF PollsPayment, FlowAt, OnWay, FlowOK
  <2>2. CASE job[w] \in {"success", "success_unreconciled", "interrupted_unknown"}
    <3>1. flow' = [flow EXCEPT ![f].at = "done", ![f].status = job[w]]
      BY <1>5, <2>2 DEF PollsPayment, FlowEnds
    <3>2. /\ flow'[f].at = "done" /\ flow'[f].status = job[w] /\ flow'[f].web = w
          /\ flow'[f].again = flow[f].again /\ flow'[f].passed = flow[f].passed
          /\ \A g \in Flows \ {f} : flow'[g] = flow[g]
      BY <1>3, <3>1
    <3> QED BY <1>4, <2>1, <2>2, <3>2, OutcomeTells
  <2>3. CASE job[w] = "failed"
    <3> DEFINE lost == At(w, "done") /\ pay[w].lost
    <3>1. flow' = [flow EXCEPT ![f].at = "failing", ![f].claimLost = lost]
      BY <1>5, <2>3 DEF PollsPayment
    <3> HIDE DEF lost
    <3>2. /\ flow'[f].at = "failing" /\ flow'[f].web = w
          /\ flow'[f].status = flow[f].status /\ flow'[f].again = flow[f].again
          /\ flow'[f].passed = flow[f].passed
          /\ \A g \in Flows \ {f} : flow'[g] = flow[g]
      BY <1>1, <3>1 DEF FlowType
    <3>3. TellOK(f)'
      BY <1>1, <1>2, <2>1, <2>3, <3>2 DEF TellOK, OnWay, FlowAt, EndsGoOn
    <3> QED BY <1>1, <2>1, <3>2, <3>3, OneTells, OnWayHolds
  <2>4. CASE job[w] \notin {"success", "success_unreconciled", "interrupted_unknown", "failed"}
    <3>1. flow' = [flow EXCEPT ![f].at = "done", ![f].status = "interrupted_unknown"]
      BY <1>5, <2>4 DEF PollsPayment, FlowEnds
    <3>2. /\ flow'[f].at = "done" /\ flow'[f].status = "interrupted_unknown" /\ flow'[f].web = w
          /\ flow'[f].again = flow[f].again /\ flow'[f].passed = flow[f].passed
          /\ \A g \in Flows \ {f} : flow'[g] = flow[g]
      BY <1>3, <3>1
    <3> QED BY <1>4, <2>1, <3>2, OutcomeTells
  <2> QED BY <2>2, <2>3, <2>4
<1>6. CASE FlowFails(f)
  <2>1. flow[f].at = "failing" /\ flow[f].at \in OnWay /\ (w # NoOne => Ended(w))
    BY <1>1, <1>6 DEF FlowFails, FlowAt, OnWay, TellOK
  <2>2. PICK again :
          flow' = [flow EXCEPT ![f].at = "done", ![f].status = "failed", ![f].again = again]
    BY <1>6 DEF FlowFails
  <2>3. /\ flow'[f].at = "done" /\ flow'[f].status = "failed" /\ flow'[f].web = w
        /\ flow'[f].passed = flow[f].passed
        /\ \A g \in Flows \ {f} : flow'[g] = flow[g]
    BY <1>1, <2>2 DEF FlowType
  <2> QED BY <2>1, <2>3, OutcomeTells
<1>7. CASE RechecksPayment(f)
  <2> DEFINE s == IF job[w] \in {"success", "success_unreconciled", "failed"}
                    THEN job[w] ELSE "interrupted_unknown"
  <2>1. flow[f].at = "recheck" /\ flow[f].at \in OnWay /\ w \in Web
    BY <1>1, <1>7 DEF RechecksPayment, FlowAt, OnWay, FlowOK
  <2>2. flow' = [flow EXCEPT ![f].at = "done", ![f].status = s]
    BY <1>7 DEF RechecksPayment, FlowEnds
  <2>3. /\ s \in {"success", "success_unreconciled", "interrupted_unknown", "failed"}
        /\ s = "failed" => job[w] = "failed"
    OBVIOUS
  <2> HIDE DEF s
  <2>4. /\ flow'[f].at = "done" /\ flow'[f].status = s /\ flow'[f].web = w
        /\ flow'[f].again = flow[f].again /\ flow'[f].passed = flow[f].passed
        /\ \A g \in Flows \ {f} : flow'[g] = flow[g]
    BY <1>3, <2>2
  <2> QED BY <1>2, <1>4, <2>1, <2>3, <2>4, OutcomeTells
<1> QED BY <1>5, <1>6, <1>7

\* A restart only takes up again what holds the address.
LEMMA FlowRestartTells ==
  ASSUME FlowInv, TruthInv, EndsGoOn, FlowRestart
  PROVE  TruthInv'
<1>1. PICK rec \in [Flows -> Web \cup {NoOne}] :
        /\ \A f \in Flows : rec[f] \in IF Recovered(f) = {} THEN {NoOne} ELSE Recovered(f)
        /\ flow' = [f \in Flows |-> Resumed(f, rec[f])]
  BY DEF FlowRestart
<1>2. ASSUME NEW f \in Flows PROVE TellOK(f)' /\ (Holds(f)' => Holds(f))
  <2>1. /\ flow[f] \in FlowType /\ FlowOK(f) /\ TellOK(f) /\ flow'[f] = Resumed(f, rec[f])
        /\ flow[f].web # NoOne => flow[f].web \in Web
    BY <1>1, FlowFacts DEF TruthInv, FlowType
  <2>2. CASE flow[f].status \notin {"running", "interrupted_unknown"}
    <3>1. flow'[f] = [flow[f] EXCEPT !.again = FALSE]
      BY <2>1, <2>2 DEF Resumed
    <3>2. /\ flow'[f].at = flow[f].at /\ flow'[f].status = flow[f].status
          /\ flow'[f].web = flow[f].web /\ flow'[f].bill = flow[f].bill /\ ~flow'[f].again
      BY <2>1, <3>1 DEF FlowType
    <3> QED BY <2>1, <3>2 DEF TellOK, EndsGoOn, Holds, FlowAt
  <2>3. CASE flow[f].status \in {"running", "interrupted_unknown"} /\ flow[f].bill = NoOne
    <3>1. flow'[f] = [flow[f] EXCEPT !.at = "done"]
      BY <2>1, <2>3 DEF Resumed
    <3>2. /\ flow'[f].at = "done" /\ flow'[f].status = flow[f].status
          /\ flow'[f].web = flow[f].web /\ flow'[f].bill = NoOne /\ flow'[f].again = flow[f].again
      BY <2>1, <2>3, <3>1 DEF FlowType
    <3> QED BY <2>1, <2>3, <3>2 DEF TellOK, OnWay, Holds, FlowAt
  <2>4. CASE flow[f].status \in {"running", "interrupted_unknown"} /\ flow[f].bill # NoOne
    <3>1. Holds(f) /\ ~flow[f].again
      BY <2>1, <2>4 DEF TellOK, Holds, FlowAt
    <3>2. CASE rec[f] # NoOne
      <4>1. flow'[f] = [flow[f] EXCEPT !.at = "recheck", !.web = rec[f], !.claimLost = FALSE]
        BY <2>1, <2>4, <3>2 DEF Resumed
      <4>2. flow'[f].at = "recheck" /\ flow'[f].status = flow[f].status /\ ~flow'[f].again
        BY <2>1, <3>1, <4>1 DEF FlowType
      <4> QED BY <2>4, <3>1, <4>2 DEF TellOK, OnWay, FlowAt
    <3>3. CASE rec[f] = NoOne /\ flow[f].acct = NoOne
      <4>1. flow[f].web = NoOne
        <5>1. Recovered(f) = {} \/ NoOne \in Recovered(f)
          BY <1>1, <3>3
        <5>2. ~FlowAt(f, "starting")
          BY <2>1, <3>3, PayersAssumption DEF FlowOK, FlowAt, PayersAssumption
        <5> QED BY <2>4, <5>1, <5>2 DEF Recovered
      <4>2. flow'[f] = [flow[f] EXCEPT !.at = "account"]
        BY <2>1, <2>4, <3>3 DEF Resumed
      <4>3. /\ flow'[f].at = "account" /\ flow'[f].status = flow[f].status /\ ~flow'[f].again
            /\ flow'[f].web = NoOne
        BY <2>1, <3>1, <4>1, <4>2 DEF FlowType
      <4> QED BY <2>4, <3>1, <4>3 DEF TellOK, OnWay, FlowAt
    <3>4. CASE rec[f] = NoOne /\ flow[f].acct # NoOne
      <4>1. flow'[f] = [flow[f] EXCEPT !.at = "done", !.status = "interrupted_unknown",
                                       !.web = NoOne]
        BY <2>1, <2>4, <3>4 DEF Resumed
      <4>2. /\ flow'[f].at = "done" /\ flow'[f].status = "interrupted_unknown" /\ ~flow'[f].again
            /\ flow'[f].web = NoOne
        BY <2>1, <3>1, <4>1 DEF FlowType
      <4> QED BY <3>1, <4>2 DEF TellOK, OnWay, FlowAt
    <3> QED BY <3>2, <3>3, <3>4
  <2> QED BY <2>1, <2>2, <2>3, <2>4
<1>3. ASSUME NEW f \in Flows PROVE flow'[f].passed = flow[f].passed
  <2>1. flow[f] \in FlowType /\ flow'[f] = Resumed(f, rec[f])
    BY <1>1, FlowFacts
  <2>2. \/ flow'[f] = [flow[f] EXCEPT !.again = FALSE]
        \/ flow'[f] = [flow[f] EXCEPT !.at = "done"]
        \/ flow'[f] = [flow[f] EXCEPT !.at = "recheck", !.web = rec[f], !.claimLost = FALSE]
        \/ flow'[f] = [flow[f] EXCEPT !.at = "account"]
        \/ flow'[f] = [flow[f] EXCEPT !.at = "done", !.status = "interrupted_unknown", !.web = NoOne]
    BY <2>1 DEF Resumed
  <2> QED BY <2>1, <2>2 DEF FlowType
<1>4. EndInv' /\ (\A f \in Flows : TellOK(f))' /\ Alone'
  BY <1>2, <1>3 DEF EndsGoOn, EndInv, TruthInv, Alone, Counts
<1> QED BY <1>4 DEF TruthInv

LEMMA TruthInitHolds ==
  ASSUME FlowInit
  PROVE  TruthInv
<1>1. EndInv
  BY EndsInit DEF FlowInit
<1>2. /\ Unstarted.at = "idle" /\ Unstarted.status = "none" /\ Unstarted.web = NoOne
      /\ Unstarted.again = FALSE
  BY DEF Unstarted
<1>3. \A f \in Flows : flow[f] = Unstarted
  BY DEF FlowInit
<1>4. \A f \in Flows : TellOK(f) /\ ~Holds(f)
  BY <1>2, <1>3 DEF TellOK, Holds, FlowAt, OnWay
<1> QED BY <1>1, <1>4 DEF TruthInv, Alone, Counts

LEMMA TruthStepHolds ==
  ASSUME FlowInv, FlowInv', TruthInv, PayersAssumption, [FlowNext]_flowVars
  PROVE  TruthInv'
<1>1. EndsGoOn
  BY FlowsLetEnd DEF TruthInv
<1>2. CASE flow' = flow
  <2>1. \A f \in Flows : TellOK(f)' /\ (Counts(f)' => Counts(f))
    BY <1>1, <1>2, TellKept DEF TruthInv
  <2> QED BY <1>1, <2>1 DEF TruthInv, Alone, EndsGoOn, EndInv
<1>3. ASSUME NEW f \in Flows, FlowSteps(f) PROVE TruthInv'
  BY <1>1, <1>3, FlowGoesTells, FlowEndsTells DEF FlowSteps
<1>4. ASSUME NEW f \in Flows, FlowStarts(f) \/ \E e \in Flows : FlowRetries(e, f)
      PROVE  TruthInv'
  BY <1>1, <1>4, FlowStartsTells
<1>5. CASE FlowRestart
  BY <1>1, <1>5, FlowRestartTells
<1> QED BY <1>2, <1>3, <1>4, <1>5 DEF FlowNext, flowVars

\* What the flows tell, in every state.
THEOREM FlowsKeepTruth == FlowSpec => []TruthInv
<1>1. FlowInit => TruthInv
  BY TruthInitHolds
<1>2. FlowInv /\ FlowInv' /\ TruthInv /\ [FlowNext]_flowVars => TruthInv'
  BY TruthStepHolds, PayersAssumption
<1> QED BY <1>1, <1>2, FlowsKeepInbox, PTL DEF FlowSpec

\* A charge that may settle belongs to a flow that holds the address.
LEMMA ChargedHolds ==
  ASSUME FlowInv, TruthInv, NEW f \in Flows, Charged(f)
  PROVE  Holds(f) /\ flow[f].status # "failed"
<1>1. flow[f] \in FlowType /\ FlowOK(f) /\ TellOK(f) /\ flow[f].web # NoOne
  BY FlowFacts DEF TruthInv, Charged
<1>2. ~Ended(flow[f].web) /\ flow[f].bill \in Bills
  BY <1>1 DEF Charged, Ended, Quiet, FlowOK
<1>3. flow[f].status \notin {"failed", "none"} /\ flow[f].bill # NoOne
  BY <1>1, <1>2, PayersAssumption DEF TellOK, PayersAssumption
<1> QED BY <1>1, <1>3 DEF Holds, TellOK, FlowType

(***************************************************************************)
(* The theorems.                                                           *)
(***************************************************************************)

\* Every reachable state of the inbox and its flows is type-correct.
THEOREM FlowTypeCorrect == FlowSpec => []FlowTypeOK
<1>1. FlowInv => FlowTypeOK
  BY InvariantSays DEF FlowInv, FlowTypeOK, FlowType
<1> QED BY <1>1, FlowsKeepInbox, PTL

\* A charge goes out only if Midtrans has rejected the transaction or no other
\* attempt has come to the charge of the bill: HoldInv ties the journal to the
\* one attempt that may, and FreeInv the bills on offer to clean transactions.
THEOREM ChargesOnce == FlowSpec => ChargedOnce
<1>1. FlowInv => ChargesClean
  BY InvariantSays DEF FlowInv
<1>2. FlowSpec => [][ChargesClean]_vars
  BY <1>1, FlowsKeepInbox, PTL
<1> QED BY <1>2 DEF ChargedOnce, ChargesClean

\* No journal entry invites another attempt while a charge is pending or
\* settled, by FreeInv.
THEOREM JournalAlwaysHolds == FlowSpec => []JournalHoldsCharge
<1>1. FlowInv => JournalHoldsCharge
  BY InvariantSays DEF FlowInv
<1> QED BY <1>1, FlowsKeepInbox, PTL

\* No payer stores a bill as paid that Midtrans has not settled: neither the
\* payments nor the normalisation of the bindings make one up.  A row that a
\* person marked paid is not spoken of.
THEOREM PaidAlwaysSettled == FlowSpec => []PaidIsSettled
<1>1. FlowInv => PaidIsSettled
  BY InvariantSays DEF FlowInv
<1> QED BY <1>1, FlowsKeepInbox, PTL

\* Two web payments on their way to a charge use different accounts: the
\* binding of an account names the one that occupies it, by BindInv, and no
\* flow takes it away.
THEOREM AccountsStayExclusive == FlowSpec => []AccountExclusive
<1>1. FlowInv => AccountExclusive
  BY InvariantSays DEF FlowInv
<1> QED BY <1>1, FlowsKeepInbox, PTL

\* A web payment whose record says failed is over, with the flows beside it:
\* nothing it has charged will settle for it, and it will not charge again.
THEOREM FailuresStayOver == FlowSpec => []FailedIsOver
<1>1. TruthInv => FailedIsOver
  BY DEF TruthInv, EndInv, EndOK, FailedIsOver
<1> QED BY <1>1, FlowsKeepTruth, PTL

\* While one flow's payment may settle or has settled, no other flow of the
\* address is on its way to a payment, those apart that start has passed over,
\* alive, for 900 s of silence: it finds every other flow that holds the address,
\* and a retry goes through start as well.
THEOREM AddressChargedOnce == FlowSpec => []OneChargePerAddress
<1>1. FlowInv /\ TruthInv => OneChargePerAddress
  <2> SUFFICES ASSUME FlowInv, TruthInv, NEW f \in Flows, NEW g \in Flows, f # g, Charged(f),
                      ~flow[f].passed, ~flow[g].passed,
                      flow[g].at \in {"link", "account", "start", "starting", "watch"}
               PROVE  FALSE
    BY DEF OneChargePerAddress
  <2>1. Holds(f)
    BY ChargedHolds
  <2>2. Holds(g)
    BY OnWayHolds DEF TruthInv, OnWay
  <2> QED BY <2>1, <2>2 DEF TruthInv, Alone, Counts
<1> QED BY <1>1, FlowsKeepInbox, FlowsKeepTruth, PTL

\* A flow that reports a payment reports a settled one, and what a flow that
\* reports a failure has charged will not settle for it.
THEOREM FlowsTellTruth == FlowSpec => []FlowTellsTruth
<1>1. FlowInv /\ TruthInv => FlowTellsTruth
  <2> SUFFICES ASSUME FlowInv, TruthInv, NEW f \in Flows
               PROVE  /\ flow[f].status \in {"success", "success_unreconciled"} =>
                           remote[flow[f].bill] = "settled"
                      /\ flow[f].status = "failed" => ~Charged(f)
    BY DEF FlowTellsTruth
  <2>1. FlowOK(f)
    BY FlowFacts
  <2> QED BY <2>1, ChargedHolds DEF FlowOK
<1> QED BY <1>1, FlowsKeepInbox, FlowsKeepTruth, PTL
=============================================================================
