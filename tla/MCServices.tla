----------------------------- MODULE MCServices -----------------------------
(***************************************************************************)
(* Four services that share no state, checked side by side: a behaviour    *)
(* picks one of the casts below, and only the cast's service steps, with   *)
(* the cast's jobs.                                                        *)
(***************************************************************************)
EXTENDS PaypalJobs, CheckoutJobs, MailboxPool, PlusWatch

CONSTANTS
  a1, a2, a3,          \* agreements: a1 and a2 are internal jobs for one token
  l1, l2, l3,          \* links: l1 and l2 are public, all of one account
  t1, t2, t3, t4, t5,  \* tasks: t1 and t3 have a pool; t3 to t5 share a mailbox
  m1, m2, o1, o2, o3   \* mailboxes; links with a watch

VARIABLE cast

MCTokenOf   == [j \in Agreements |-> IF j = a3 THEN "second" ELSE "first"]
MCTextOf    == [j \in Links |-> "token"]
MCTextsOf   == [j \in Links |-> IF j = l1 THEN "token" ELSE "session"]
MCAccountOf == [j \in Links |-> "account"]
MCBatchOf   == [t \in Batches |-> IF t \in {t1, t2} THEN <<m1, m2>> ELSE <<m1>>]
MCWidth     == [t \in Batches |-> IF t \in {t1, t3} THEN 2 ELSE 1]
MCBuyerOf   == [o \in Orders |-> "buyer"]

Casts == {{a1, a2}, {a1, a3}, {l1, l2}, {l1, l3}, {t1, t2}, {t3, t4, t5}, {o1, o2, o3}}

mcVars == <<agreementVars, linkVars, poolVars, watchVars, cast>>

MCInit == AgreementsInit /\ LinksInit /\ PoolInit /\ WatchInit /\ cast \in Casts

PaypalSteps ==
  /\ cast \subseteq Agreements
  /\ AgreementsNext
  /\ \A j \in Agreements \ cast : agr'[j] = agr[j]
  /\ UNCHANGED <<linkVars, poolVars, watchVars, cast>>

CheckoutSteps ==
  /\ cast \subseteq Links
  /\ LinksNext
  /\ \A j \in Links \ cast : work'[j] = work[j]
  /\ UNCHANGED <<agreementVars, poolVars, watchVars, cast>>

\* Of three tasks, one is asked to stop.
MailboxSteps ==
  /\ cast \subseteq Batches
  /\ PoolNext
  /\ \A t \in Batches \ cast : chief'[t] = chief[t]
  /\ asked' \subseteq cast \ {t4, t5}
  /\ UNCHANGED <<agreementVars, linkVars, watchVars, cast>>

WatchSteps ==
  /\ cast \subseteq Orders
  /\ WatchNext
  /\ UNCHANGED <<agreementVars, linkVars, poolVars, cast>>

MCNext == PaypalSteps \/ CheckoutSteps \/ MailboxSteps \/ WatchSteps

\* The services' own fairness, said of the jobs that take part.
MCFairness ==
  /\ \A j \in Agreements : /\ WF_agreementVars(j \in cast /\ JobThread(j))
                           /\ WF_agreementVars(j \in cast /\ DropsSlot(j))
  /\ \A j \in Links : WF_linkVars(j \in cast /\ LinkThread(j))
  /\ WF_linkVars(cast \subseteq Links /\ Dispatches)
  /\ WF_linkVars(cast \subseteq Links /\ MinutePasses)
  /\ WF_watchVars(cast \subseteq Orders /\ WatchClock)
  /\ WF_watchVars(cast \subseteq Orders /\ LoadsWatches)
  /\ WF_watchVars(cast \subseteq Orders /\ ChecksWatch)

MCSpec == MCInit /\ [][MCNext]_mcVars /\ MCFairness

\* The type invariants of the four.
ServicesTypeOK == AgreementsTypeOK /\ LinksTypeOK /\ PoolTypeOK /\ WatchTypeOK
=============================================================================
