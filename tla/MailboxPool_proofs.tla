------------------------- MODULE MailboxPool_proofs -------------------------
(***************************************************************************)
(* The safety properties of MailboxPool, for any tasks, any batches and    *)
(* any number of flows at a time.                                          *)
(***************************************************************************)
EXTENDS MailboxPool, TLAPS

Inside == {"inside", "leaving", "fleeing"}

\* A flow in its mailbox has the lease, unless it has outlived it or its task is
\* being stopped.
LeaseInv ==
  \A t \in Batches, m \in Mailboxes : FlowAt(t, m, "inside") =>
    lease[m] = t \/ flow[t][m].overran \/ ChiefAt(t, "stopping")

\* A lease is held by a flow in its mailbox, or left over by a dead process.
OwnerInv ==
  \A t \in Batches, m \in Mailboxes :
    lease[m] = t => flow[t][m].at \in Inside \/ ChiefAt(t, "dead")

\* Where a main thread is says what its flows may be.
ChiefInv ==
  \A t \in Batches, m \in Mailboxes :
    /\ ChiefAt(t, "none") => FlowAt(t, m, "none")
    /\ ChiefAt(t, "over") => flow[t][m].at \in Over

\* The mailboxes that have not been submitted have no flow.
SentInv ==
  \A t \in Batches : ChiefAt(t, "run") =>
    \A i \in DOMAIN BatchOf[t] : i > chief[t].sent => FlowAt(t, BatchOf[t][i], "none")

PoolInv == PoolTypeOK /\ LeaseInv /\ OwnerInv /\ ChiefInv /\ SentInv

LEMMA BatchFacts ==
  ASSUME NEW t \in Batches
  PROVE  /\ BatchOf[t] \in Seq(Mailboxes)
         /\ Len(BatchOf[t]) \in Nat
         /\ DOMAIN BatchOf[t] = 1..Len(BatchOf[t])
         /\ \A i \in DOMAIN BatchOf[t] : BatchOf[t][i] \in Mailboxes
         /\ Width[t] \in Nat \ {0}
  BY BatchesAssumption

FlowStates ==
  [at : Over \cup {"queued", "waiting", "asking", "inside", "leaving", "fleeing"},
   overran : BOOLEAN]

ChiefStates == [at : {"none", "run", "stopping", "over", "dead"}, sent : Nat]

LEMMA TypeParts ==
  PoolTypeOK <=> /\ lease \in [Mailboxes -> Batches \cup {NoBatch}]
                 /\ flow \in [Batches -> [Mailboxes -> FlowStates]]
                 /\ chief \in [Batches -> ChiefStates]
                 /\ asked \subseteq Batches
  BY DEF PoolTypeOK, FlowStates, ChiefStates

LEMMA WithoutFacts ==
  ASSUME NEW t \in Batches, lease \in [Mailboxes -> Batches \cup {NoBatch}]
  PROVE  /\ WithoutLeasesOf(t) \in [Mailboxes -> Batches \cup {NoBatch}]
         /\ \A m \in Mailboxes :
              WithoutLeasesOf(t)[m] = IF lease[m] = t THEN NoBatch ELSE lease[m]
  BY DEF WithoutLeasesOf

\* What Submitted, Recorded and Cut make of the flows of a task.
LEMMA SubmittedFacts ==
  ASSUME NEW fs \in [Mailboxes -> FlowStates], NEW ms
  PROVE  /\ Submitted(fs, ms) \in [Mailboxes -> FlowStates]
         /\ \A m \in Mailboxes :
              Submitted(fs, ms)[m].at = IF m \in ms THEN "queued" ELSE fs[m].at
         /\ \A m \in Mailboxes : Submitted(fs, ms)[m].overran = fs[m].overran
  BY DEF Submitted, FlowStates, Over, Ended

LEMMA RecordedFacts ==
  ASSUME NEW fs \in [Mailboxes -> FlowStates], NEW m \in Mailboxes
  PROVE  /\ Recorded(fs, m) \in [Mailboxes -> FlowStates]
         /\ \A n \in Mailboxes :
              Recorded(fs, m)[n].at = IF n = m THEN "recorded" ELSE fs[n].at
         /\ \A n \in Mailboxes \ {m} : Recorded(fs, m)[n] = fs[n]
  BY DEF Recorded, FlowStates, Over, Ended

LEMMA CutFacts ==
  ASSUME NEW fs \in [Mailboxes -> FlowStates]
  PROVE  /\ Cut(fs) \in [Mailboxes -> FlowStates]
         /\ \A m \in Mailboxes :
              Cut(fs)[m].at = IF fs[m].at = "queued" THEN "cut" ELSE fs[m].at
         /\ \A m \in Mailboxes : Cut(fs)[m].overran = fs[m].overran
  BY DEF Cut, FlowStates, Over, Ended

LEMMA InitPoolInv == PoolInit => PoolInv
<1> SUFFICES ASSUME PoolInit PROVE PoolInv
  OBVIOUS
<1> USE BatchesAssumption DEF PoolInit
<1>1. PoolTypeOK
  BY DEF PoolTypeOK, Over, Ended
<1>2. LeaseInv /\ OwnerInv /\ ChiefInv /\ SentInv
  BY BatchFacts DEF LeaseInv, OwnerInv, ChiefInv, SentInv, FlowAt, ChiefAt
<1> QED BY <1>1, <1>2 DEF PoolInv
LEMMA NextPoolInv == PoolInv /\ [PoolNext]_poolVars => PoolInv'
<1> SUFFICES ASSUME PoolInv, [PoolNext]_poolVars PROVE PoolInv'
  OBVIOUS
<1> USE DEF PoolInv
<1>t. /\ lease \in [Mailboxes -> Batches \cup {NoBatch}]
      /\ flow \in [Batches -> [Mailboxes -> FlowStates]]
      /\ chief \in [Batches -> ChiefStates]
      /\ asked \subseteq Batches
  BY TypeParts
<1>u. /\ \A t \in Batches : flow[t] \in [Mailboxes -> FlowStates]
      /\ \A t \in Batches, m \in Mailboxes : flow[t][m] \in FlowStates
      /\ \A t \in Batches : chief[t].sent \in Nat
  BY <1>t DEF ChiefStates
<1>1. ASSUME NEW t \in Batches, Opens(t)
      PROVE  PoolInv'
  <2> DEFINE first == IF Width[t] < Len(BatchOf[t]) THEN Width[t] ELSE Len(BatchOf[t])
             opened == {BatchOf[t][i] : i \in 1..first}
  <2>1. first \in Nat /\ first <= Len(BatchOf[t])
    BY BatchFacts
  <2>2. /\ chief[t].at = "none" /\ UNCHANGED <<lease, asked>>
        /\ chief' = [chief EXCEPT ![t] = [at |-> "run", sent |-> first]]
        /\ flow' = [flow EXCEPT ![t] = Submitted(flow[t], opened)]
    BY <1>1 DEF Opens, ChiefAt
  <2>3. \A i \in DOMAIN BatchOf[t] : i > first => BatchOf[t][i] \notin opened
    <3> SUFFICES ASSUME NEW i \in DOMAIN BatchOf[t], i > first,
                        NEW k \in 1..first, BatchOf[t][i] = BatchOf[t][k]
                 PROVE  FALSE
      OBVIOUS
    <3>1. k \in DOMAIN BatchOf[t] /\ k # i
      BY <2>1, BatchFacts
    <3> QED BY <3>1, BatchesAssumption
  <2>4. \A i \in DOMAIN BatchOf[t] : BatchOf[t][i] \in Mailboxes
    BY BatchFacts
  <2> HIDE DEF first, opened
  <2>5. \A n \in Mailboxes : flow[t][n].at = "none"
    BY <2>2 DEF ChiefInv, FlowAt, ChiefAt
  <2>6. /\ Submitted(flow[t], opened) \in [Mailboxes -> FlowStates]
        /\ \A n \in Mailboxes :
             Submitted(flow[t], opened)[n].at = IF n \in opened THEN "queued" ELSE flow[t][n].at
    BY <1>u, SubmittedFacts
  <2>7. /\ \A n \in Mailboxes : flow'[t][n].at = IF n \in opened THEN "queued" ELSE "none"
        /\ \A u \in Batches \ {t} : flow'[u] = flow[u] /\ chief'[u] = chief[u]
        /\ chief'[t].at = "run" /\ chief'[t].sent = first
        /\ lease' = lease
    BY <1>t, <2>2, <2>5, <2>6
  <2>l. lease' \in [Mailboxes -> Batches \cup {NoBatch}]
    BY <1>t, <2>2
  <2>f. flow' \in [Batches -> [Mailboxes -> FlowStates]]
    BY <1>t, <2>2, <2>6
  <2>c. chief' \in [Batches -> ChiefStates]
    BY <1>t, <2>1, <2>2 DEF ChiefStates
  <2>p. PoolTypeOK'
    BY <1>t, <2>2, <2>l, <2>f, <2>c DEF PoolTypeOK, FlowStates, ChiefStates
  <2>8. LeaseInv'
    BY <2>2, <2>5, <2>7 DEF LeaseInv, FlowAt, ChiefAt, Over, Ended, Inside
  <2>9. OwnerInv'
    BY <2>2, <2>5, <2>7 DEF OwnerInv, FlowAt, ChiefAt, Over, Ended, Inside
  <2>10. ChiefInv'
    BY <2>2, <2>5, <2>7 DEF ChiefInv, FlowAt, ChiefAt, Over, Ended, Inside
  <2>11. SentInv'
    BY <2>3, <2>4, <2>7 DEF SentInv, FlowAt, ChiefAt, Over, Ended, Inside
  <2> QED BY <2>p, <2>8, <2>9, <2>10, <2>11
<1>2. ASSUME NEW t \in Batches, AsksToStop(t)
      PROVE  PoolInv'
  <2>1. UNCHANGED <<lease, flow, chief>> /\ asked' \subseteq Batches
    BY <1>t, <1>2 DEF AsksToStop
  <2>l. lease' \in [Mailboxes -> Batches \cup {NoBatch}]
    BY <1>t, <2>1
  <2>f. flow' \in [Batches -> [Mailboxes -> FlowStates]]
    BY <1>t, <2>1
  <2>c. chief' \in [Batches -> ChiefStates]
    BY <1>t, <2>1
  <2>p. PoolTypeOK'
    BY <2>1, <2>l, <2>f, <2>c DEF PoolTypeOK, FlowStates, ChiefStates
  <2>2. LeaseInv'
    BY <2>1 DEF LeaseInv, FlowAt, ChiefAt, Over, Ended, Inside
  <2>3. OwnerInv'
    BY <2>1 DEF OwnerInv, FlowAt, ChiefAt, Over, Ended, Inside
  <2>4. ChiefInv'
    BY <2>1 DEF ChiefInv, FlowAt, ChiefAt, Over, Ended, Inside
  <2>5. SentInv'
    BY <2>1 DEF SentInv, FlowAt, ChiefAt, Over, Ended, Inside
  <2> QED BY <2>p, <2>2, <2>3, <2>4, <2>5
<1>3. ASSUME NEW t \in Batches, NoticesStop(t)
      PROVE  PoolInv'
  <2>a. /\ chief[t].at = "run" /\ UNCHANGED asked
        /\ lease' = lease \/ lease' = WithoutLeasesOf(t)
        /\ flow' = [flow EXCEPT ![t] = Cut(flow[t])]
        /\ chief' = [chief EXCEPT ![t].at = "stopping"]
    BY <1>3 DEF NoticesStop, Stops, ChiefGoes, ChiefAt
  <2>d. \A u \in Batches : \A i \in DOMAIN BatchOf[u] : BatchOf[u][i] \in Mailboxes
    BY BatchFacts
  <2>1. /\ Cut(flow[t]) \in [Mailboxes -> FlowStates]
        /\ \A n \in Mailboxes :
             Cut(flow[t])[n].at = IF flow[t][n].at = "queued" THEN "cut" ELSE flow[t][n].at
    BY <1>u, CutFacts
  <2>2. /\ \A n \in Mailboxes :
             flow'[t][n].at = IF flow[t][n].at = "queued" THEN "cut" ELSE flow[t][n].at
        /\ \A u \in Batches \ {t} : flow'[u] = flow[u] /\ chief'[u] = chief[u]
        /\ chief'[t].at = "stopping"
    BY <1>t, <2>a, <2>1 DEF ChiefStates
  <2>3. \A n \in Mailboxes : lease'[n] = lease[n] \/ (lease[n] = t /\ lease'[n] = NoBatch)
    BY <1>t, <2>a, WithoutFacts
  <2>4. NoBatch \notin Batches
    BY BatchesAssumption
  <2>l. lease' \in [Mailboxes -> Batches \cup {NoBatch}]
    BY <1>t, <2>a, WithoutFacts
  <2>f. flow' \in [Batches -> [Mailboxes -> FlowStates]]
    BY <1>t, <2>a, <2>1
  <2>c. chief' \in [Batches -> ChiefStates]
    BY <1>t, <2>a DEF ChiefStates
  <2>p. PoolTypeOK'
    BY <1>t, <2>a, <2>l, <2>f, <2>c DEF PoolTypeOK, FlowStates, ChiefStates
  <2>5. LeaseInv'
    BY <2>2, <2>3, <2>4, <2>a DEF LeaseInv, FlowAt, ChiefAt, Over, Ended, Inside
  <2>6. OwnerInv'
    BY <2>2, <2>3, <2>4, <2>a DEF OwnerInv, FlowAt, ChiefAt, Over, Ended, Inside
  <2>7. ChiefInv'
    BY <2>2 DEF ChiefInv, FlowAt, ChiefAt, Over, Ended, Inside
  <2>8. SentInv'
    BY <2>2, <2>d DEF SentInv, FlowAt, ChiefAt, Over, Ended, Inside
  <2> QED BY <2>p, <2>5, <2>6, <2>7, <2>8
<1>4. ASSUME NEW t \in Batches, NEW m \in Mailboxes, Collects(t, m)
      PROVE  PoolInv'
  <2> DEFINE more == chief[t].sent < Len(BatchOf[t])
             next == BatchOf[t][chief[t].sent + 1]
             ms == IF more THEN {next} ELSE {}
  <2>1. chief[t].at = "run" /\ flow[t][m].at \in Ended /\ UNCHANGED asked
    BY <1>4 DEF Collects, ChiefAt
  <2>d. \A u \in Batches : \A i \in DOMAIN BatchOf[u] : BatchOf[u][i] \in Mailboxes
    BY BatchFacts
  <2>2. CASE /\ chief' = [chief EXCEPT ![t].at = "stopping"]
             /\ flow' = [flow EXCEPT ![t] = Cut(flow[t])]
             /\ lease' = lease \/ lease' = WithoutLeasesOf(t)
    <3>a. /\ chief[t].at = "run" /\ UNCHANGED asked
          /\ chief' = [chief EXCEPT ![t].at = "stopping"]
          /\ flow' = [flow EXCEPT ![t] = Cut(flow[t])]
          /\ lease' = lease \/ lease' = WithoutLeasesOf(t)
      BY <2>1, <2>2
    <3>1. /\ Cut(flow[t]) \in [Mailboxes -> FlowStates]
          /\ \A n \in Mailboxes :
               Cut(flow[t])[n].at = IF flow[t][n].at = "queued" THEN "cut" ELSE flow[t][n].at
      BY <1>u, CutFacts
    <3>2. /\ \A n \in Mailboxes :
               flow'[t][n].at = IF flow[t][n].at = "queued" THEN "cut" ELSE flow[t][n].at
          /\ \A u \in Batches \ {t} : flow'[u] = flow[u] /\ chief'[u] = chief[u]
          /\ chief'[t].at = "stopping"
      BY <1>t, <3>a, <3>1 DEF ChiefStates
    <3>3. \A n \in Mailboxes : lease'[n] = lease[n] \/ (lease[n] = t /\ lease'[n] = NoBatch)
      BY <1>t, <3>a, WithoutFacts
    <3>4. NoBatch \notin Batches
      BY BatchesAssumption
    <3>l. lease' \in [Mailboxes -> Batches \cup {NoBatch}]
      BY <1>t, <3>a, WithoutFacts
    <3>f. flow' \in [Batches -> [Mailboxes -> FlowStates]]
      BY <1>t, <3>a, <3>1
    <3>c. chief' \in [Batches -> ChiefStates]
      BY <1>t, <3>a DEF ChiefStates
    <3>p. PoolTypeOK'
      BY <1>t, <3>a, <3>l, <3>f, <3>c DEF PoolTypeOK, FlowStates, ChiefStates
    <3>5. LeaseInv'
      BY <3>2, <3>3, <3>4, <3>a DEF LeaseInv, FlowAt, ChiefAt, Over, Ended, Inside
    <3>6. OwnerInv'
      BY <3>2, <3>3, <3>4, <3>a DEF OwnerInv, FlowAt, ChiefAt, Over, Ended, Inside
    <3>7. ChiefInv'
      BY <3>2 DEF ChiefInv, FlowAt, ChiefAt, Over, Ended, Inside
    <3>8. SentInv'
      BY <3>2, <2>d DEF SentInv, FlowAt, ChiefAt, Over, Ended, Inside
    <3> QED BY <3>p, <3>5, <3>6, <3>7, <3>8
  <2>3. CASE /\ flow' = [flow EXCEPT ![t] = Submitted(Recorded(flow[t], m), ms)]
             /\ chief' = IF more THEN [chief EXCEPT ![t].sent = @ + 1] ELSE chief
             /\ UNCHANGED lease
    <3>1. chief[t].sent \in Nat /\ (more => chief[t].sent + 1 \in DOMAIN BatchOf[t])
      BY <1>u, BatchFacts
    <3>2. more => next \in Mailboxes /\ flow[t][next].at = "none"
      <4> SUFFICES ASSUME more PROVE next \in Mailboxes /\ flow[t][next].at = "none"
        OBVIOUS
      <4>1. chief[t].sent + 1 \in DOMAIN BatchOf[t] /\ chief[t].sent + 1 > chief[t].sent
        BY <3>1
      <4> QED BY <2>1, <2>d, <4>1 DEF SentInv, FlowAt, ChiefAt
    <3>3. /\ Recorded(flow[t], m) \in [Mailboxes -> FlowStates]
          /\ \A n \in Mailboxes :
               Recorded(flow[t], m)[n].at = IF n = m THEN "recorded" ELSE flow[t][n].at
          /\ \A n \in Mailboxes \ {m} : Recorded(flow[t], m)[n] = flow[t][n]
      BY <1>u, RecordedFacts
    <3> DEFINE fs == Submitted(Recorded(flow[t], m), ms)
    <3>4. /\ fs \in [Mailboxes -> FlowStates]
          /\ \A n \in Mailboxes :
               fs[n].at = IF n \in ms THEN "queued" ELSE Recorded(flow[t], m)[n].at
          /\ \A n \in Mailboxes : fs[n].overran = Recorded(flow[t], m)[n].overran
      BY <3>3, SubmittedFacts
    <3>5. /\ chief'[t].sent = IF more THEN chief[t].sent + 1 ELSE chief[t].sent
          /\ chief'[t].at = "run"
          /\ \A u \in Batches \ {t} : chief'[u] = chief[u]
          /\ chief' \in [Batches -> ChiefStates]
      <4>1. CASE more
        BY <1>t, <1>u, <2>1, <2>3, <4>1 DEF ChiefStates
      <4>2. CASE ~more
        BY <1>t, <2>1, <2>3, <4>2
      <4> QED BY <4>1, <4>2
    <3>6. \A i \in DOMAIN BatchOf[t] : i > chief'[t].sent =>
            i > chief[t].sent /\ BatchOf[t][i] \notin ms
      <4> SUFFICES ASSUME NEW i \in DOMAIN BatchOf[t], i > chief'[t].sent
                   PROVE  i > chief[t].sent /\ BatchOf[t][i] \notin ms
        OBVIOUS
      <4>1. i \in Nat
        BY BatchFacts
      <4>2. i > chief[t].sent /\ (more => i # chief[t].sent + 1)
        BY <3>1, <3>5, <4>1
      <4>3. more => BatchOf[t][i] # next
        BY <3>1, <4>2, BatchesAssumption
      <4> QED BY <4>2, <4>3
    <3>7. \A n \in ms : n \in Mailboxes /\ flow[t][n].at = "none"
      BY <3>2
    <3> HIDE DEF more, next, ms
    <3>8. \A n \in Mailboxes : fs[n].at =
            IF n \in ms THEN "queued" ELSE IF n = m THEN "recorded" ELSE flow[t][n].at
      BY <3>3, <3>4
    <3>9. \A n \in Mailboxes : fs[n].at = "inside" => fs[n].overran = flow[t][n].overran
      BY <3>3, <3>4, <3>8
    <3>10. flow' = [flow EXCEPT ![t] = fs]
      BY <2>3
    <3> HIDE DEF fs
    <3>11. flow'[t] = fs /\ \A u \in Batches \ {t} : flow'[u] = flow[u]
      BY <1>t, <3>10
    <3>12. lease' = lease
      BY <2>3
    <3>l. lease' \in [Mailboxes -> Batches \cup {NoBatch}]
      BY <1>t, <3>12
    <3>f. flow' \in [Batches -> [Mailboxes -> FlowStates]]
      BY <1>t, <3>4, <3>10
    <3>p. PoolTypeOK'
      BY <1>t, <2>1, <3>5, <3>l, <3>f DEF PoolTypeOK, FlowStates, ChiefStates
    <3>13. LeaseInv'
      BY <2>1, <3>5, <3>8, <3>9, <3>11, <3>12 DEF LeaseInv, FlowAt, ChiefAt
    <3>14. OwnerInv'
      BY <2>1, <3>5, <3>7, <3>8, <3>11, <3>12 DEF OwnerInv, FlowAt, ChiefAt, Inside, Ended
    <3>15. ChiefInv'
      BY <3>5, <3>11 DEF ChiefInv, FlowAt, ChiefAt
    <3>16. SentInv'
      <4> SUFFICES ASSUME NEW u \in Batches, ChiefAt(u, "run")',
                          NEW i \in DOMAIN BatchOf[u], i > chief'[u].sent
                   PROVE  flow'[u][BatchOf[u][i]].at = "none"
        BY DEF SentInv, FlowAt
      <4>1. CASE u # t
        BY <3>5, <3>11, <4>1 DEF SentInv, FlowAt, ChiefAt
      <4>2. CASE u = t
        <5>1. /\ i > chief[t].sent /\ BatchOf[t][i] \notin ms
              /\ BatchOf[t][i] \in Mailboxes
          BY <2>d, <3>6, <4>2
        <5>2. flow[t][BatchOf[t][i]].at = "none"
          BY <2>1, <4>2, <5>1 DEF SentInv, FlowAt, ChiefAt
        <5>3. BatchOf[t][i] # m
          BY <2>1, <5>2 DEF Ended
        <5> QED BY <3>8, <3>11, <4>2, <5>1, <5>2, <5>3
      <4> QED BY <4>1, <4>2
    <3> QED BY <3>p, <3>13, <3>14, <3>15, <3>16
  <2> QED
    BY <1>4, <2>2, <2>3 DEF Collects, Stops, ChiefGoes
<1>5. ASSUME NEW t \in Batches, ShutsDown(t)
      PROVE  PoolInv'
  <2>1. /\ chief[t].at = "stopping" /\ UNCHANGED <<flow, asked>>
        /\ \A n \in Mailboxes : flow[t][n].at \in Over
        /\ lease' = lease \/ lease' = WithoutLeasesOf(t)
        /\ chief' = [chief EXCEPT ![t].at = "over"]
    BY <1>5 DEF ShutsDown, ChiefAt, ChiefGoes
  <2>2. chief'[t].at = "over" /\ \A u \in Batches \ {t} : chief'[u] = chief[u]
    BY <1>t, <2>1 DEF ChiefStates
  <2>3. \A n \in Mailboxes : lease'[n] = lease[n] \/ (lease[n] = t /\ lease'[n] = NoBatch)
    BY <1>t, <2>1, WithoutFacts
  <2>4. NoBatch \notin Batches
    BY BatchesAssumption
  <2>l. lease' \in [Mailboxes -> Batches \cup {NoBatch}]
    BY <1>t, <2>1, WithoutFacts
  <2>f. flow' \in [Batches -> [Mailboxes -> FlowStates]]
    BY <1>t, <2>1
  <2>c. chief' \in [Batches -> ChiefStates]
    BY <1>t, <2>1 DEF ChiefStates
  <2>p. PoolTypeOK'
    BY <1>t, <2>1, <2>l, <2>f, <2>c DEF PoolTypeOK, FlowStates, ChiefStates
  <2>5. LeaseInv'
    BY <2>1, <2>2, <2>3, <2>4 DEF LeaseInv, FlowAt, ChiefAt, Over, Ended, Inside
  <2>6. OwnerInv'
    BY <2>1, <2>2, <2>3, <2>4 DEF OwnerInv, FlowAt, ChiefAt, Over, Ended, Inside
  <2>7. ChiefInv'
    BY <2>1, <2>2, <2>3, <2>4 DEF ChiefInv, FlowAt, ChiefAt, Over, Ended, Inside
  <2>8. SentInv'
    BY <2>1, <2>2, <2>3, <2>4 DEF SentInv, FlowAt, ChiefAt, Over, Ended, Inside
  <2> QED BY <2>p, <2>5, <2>6, <2>7, <2>8
<1>6. ASSUME NEW t \in Batches, SumsUp(t)
      PROVE  PoolInv'
  <2>1. /\ chief[t].at = "run" /\ UNCHANGED <<flow, asked>>
        /\ \A n \in Mailboxes : flow[t][n].at \in {"none", "recorded"}
        /\ lease' = lease \/ lease' = WithoutLeasesOf(t)
        /\ chief' = [chief EXCEPT ![t].at = "over"]
    BY <1>6 DEF SumsUp, ChiefAt, ChiefGoes, FlowAt
  <2>2. chief'[t].at = "over" /\ \A u \in Batches \ {t} : chief'[u] = chief[u]
    BY <1>t, <2>1 DEF ChiefStates
  <2>3. \A n \in Mailboxes : lease'[n] = lease[n] \/ (lease[n] = t /\ lease'[n] = NoBatch)
    BY <1>t, <2>1, WithoutFacts
  <2>4. NoBatch \notin Batches
    BY BatchesAssumption
  <2>l. lease' \in [Mailboxes -> Batches \cup {NoBatch}]
    BY <1>t, <2>1, WithoutFacts
  <2>f. flow' \in [Batches -> [Mailboxes -> FlowStates]]
    BY <1>t, <2>1
  <2>c. chief' \in [Batches -> ChiefStates]
    BY <1>t, <2>1 DEF ChiefStates
  <2>p. PoolTypeOK'
    BY <1>t, <2>1, <2>l, <2>f, <2>c DEF PoolTypeOK, FlowStates, ChiefStates
  <2>5. LeaseInv'
    BY <2>1, <2>2, <2>3, <2>4 DEF LeaseInv, FlowAt, ChiefAt, Over, Ended, Inside
  <2>6. OwnerInv'
    BY <2>1, <2>2, <2>3, <2>4 DEF OwnerInv, FlowAt, ChiefAt, Over, Ended, Inside
  <2>7. ChiefInv'
    BY <2>1, <2>2, <2>3, <2>4 DEF ChiefInv, FlowAt, ChiefAt, Over, Ended, Inside
  <2>8. SentInv'
    BY <2>1, <2>2, <2>3, <2>4 DEF SentInv, FlowAt, ChiefAt, Over, Ended, Inside
  <2> QED BY <2>p, <2>5, <2>6, <2>7, <2>8
<1>7. ASSUME NEW t \in Batches, Dies(t)
      PROVE  PoolInv'
  <2> DEFINE killed == [m \in Mailboxes |-> [at |-> "killed", overran |-> FALSE]]
  <2>1. /\ chief[t].at \in {"run", "stopping"} /\ UNCHANGED <<lease, asked>>
        /\ chief' = [chief EXCEPT ![t].at = "dead"]
        /\ flow' = [flow EXCEPT ![t] = killed]
    BY <1>7 DEF Dies, ChiefGoes
  <2>2. killed \in [Mailboxes -> FlowStates] /\ \A n \in Mailboxes : killed[n].at = "killed"
    BY DEF FlowStates, Over
  <2> HIDE DEF killed
  <2>3. /\ chief'[t].at = "dead"
        /\ \A u \in Batches \ {t} : flow'[u] = flow[u] /\ chief'[u] = chief[u]
        /\ \A n \in Mailboxes : flow'[t][n].at = "killed"
    BY <1>t, <2>1, <2>2 DEF ChiefStates
  <2>l. lease' \in [Mailboxes -> Batches \cup {NoBatch}]
    BY <1>t, <2>1
  <2>f. flow' \in [Batches -> [Mailboxes -> FlowStates]]
    BY <1>t, <2>1, <2>2
  <2>c. chief' \in [Batches -> ChiefStates]
    BY <1>t, <2>1 DEF ChiefStates
  <2>p. PoolTypeOK'
    BY <1>t, <2>1, <2>l, <2>f, <2>c DEF PoolTypeOK, FlowStates, ChiefStates
  <2>5. LeaseInv'
    BY <2>1, <2>3 DEF LeaseInv, FlowAt, ChiefAt, Over, Ended, Inside
  <2>6. OwnerInv'
    BY <2>1, <2>3 DEF OwnerInv, FlowAt, ChiefAt, Over, Ended, Inside
  <2>7. ChiefInv'
    BY <2>1, <2>3 DEF ChiefInv, FlowAt, ChiefAt, Over, Ended, Inside
  <2>8. SentInv'
    BY <2>1, <2>3 DEF SentInv, FlowAt, ChiefAt, Over, Ended, Inside
  <2> QED BY <2>p, <2>5, <2>6, <2>7, <2>8
<1>8. ASSUME NEW t \in Batches, NEW m \in Mailboxes, Begins(t, m)
      PROVE  PoolInv'
  <2>1. /\ UNCHANGED <<chief, asked>>
        /\ flow[t][m].at \in {"queued", "waiting", "asking", "inside", "leaving", "fleeing"}
    BY <1>8 DEF Begins, FlowAt
  <2>2. PICK s \in (Over \ {"none"}) \cup {"waiting", "asking", "inside", "leaving", "fleeing"} :
          /\ flow' = [flow EXCEPT ![t][m] = [at |-> s, overran |-> FALSE]]
          /\ UNCHANGED lease /\ s \notin Inside /\ flow[t][m].at \notin Inside
    <3>1. flow[t][m].at \in {"queued", "waiting"} /\ UNCHANGED lease
      BY <1>8 DEF Begins
    <3>2. CASE t \in asked
      <4>1. flow' = [flow EXCEPT ![t][m] = [at |-> "raised", overran |-> FALSE]]
        BY <1>8, <3>2 DEF Begins, FlowGoes
      <4>2. "raised" \in (Over \ {"none"}) \cup {"waiting", "asking", "inside", "leaving", "fleeing"}
        BY DEF Over, Ended
      <4>3. "raised" \notin Inside /\ flow[t][m].at \notin Inside
        BY <3>1 DEF Inside
      <4> QED BY <3>1, <4>1, <4>2, <4>3
    <3>3. CASE t \notin asked
      <4>1. flow' = [flow EXCEPT ![t][m] = [at |-> "asking", overran |-> FALSE]]
        BY <1>8, <3>3 DEF Begins, FlowGoes
      <4>2. "asking" \in (Over \ {"none"}) \cup {"waiting", "asking", "inside", "leaving", "fleeing"}
        BY DEF Over, Ended
      <4>3. "asking" \notin Inside /\ flow[t][m].at \notin Inside
        BY <3>1 DEF Inside
      <4> QED BY <3>1, <4>1, <4>2, <4>3
    <3> QED BY <3>2, <3>3
  <2>3. [at |-> s, overran |-> FALSE] \in FlowStates /\ s # "none"
    BY DEF FlowStates, Over, Ended
  <2>4. /\ flow'[t][m].at = s
        /\ \A u \in Batches, n \in Mailboxes : u # t \/ n # m => flow'[u][n] = flow[u][n]
        /\ \A n \in Mailboxes \ {m} : lease'[n] = lease[n]
        /\ lease'[m] \in {lease[m], t, NoBatch}
    BY <1>t, <2>2
  <2>5. chief[t].at # "none" /\ chief[t].at # "over" /\ chief' = chief
    BY <2>1 DEF ChiefInv, FlowAt, ChiefAt, Over, Ended
  <2>6. NoBatch \notin Batches
    BY BatchesAssumption
  <2>7. s = "inside" => lease'[m] = t
    BY <1>t, <2>2 DEF Inside
  <2>8. \A u \in Batches : lease[m] = u /\ lease'[m] # u => u = t /\ s \notin Inside
    BY <1>t, <2>2, <2>6 DEF Inside
  <2>9. \A u \in Batches : lease'[m] = u =>
          \/ lease[m] = u /\ (flow[t][m].at \in Inside => s \in Inside \/ u # t)
          \/ u = t /\ s \in Inside
    BY <1>t, <2>2, <2>6 DEF Inside
  <2>d. \A u \in Batches : \A i \in DOMAIN BatchOf[u] : BatchOf[u][i] \in Mailboxes
    BY BatchFacts
  <2>l. lease' \in [Mailboxes -> Batches \cup {NoBatch}]
    BY <1>t, <2>2
  <2>f. flow' \in [Batches -> [Mailboxes -> FlowStates]]
    BY <1>t, <2>2, <2>3
  <2>c. chief' \in [Batches -> ChiefStates]
    BY <1>t, <2>1
  <2>p. PoolTypeOK'
    BY <1>t, <2>1, <2>l, <2>f, <2>c DEF PoolTypeOK, FlowStates, ChiefStates
  <2>10. LeaseInv'
    <3> SUFFICES ASSUME NEW u \in Batches, NEW n \in Mailboxes, flow'[u][n].at = "inside"
                 PROVE  lease'[n] = u \/ flow'[u][n].overran \/ chief'[u].at = "stopping"
      BY DEF LeaseInv, FlowAt, ChiefAt
    <3>1. CASE u = t /\ n = m
      BY <2>4, <2>7, <3>1
    <3>2. CASE u # t \/ n # m
      <4>1. lease[n] = u \/ flow'[u][n].overran \/ chief'[u].at = "stopping"
        BY <2>4, <2>5, <3>2 DEF LeaseInv, FlowAt, ChiefAt
      <4> QED BY <2>4, <2>8, <3>2, <4>1
    <3> QED BY <3>1, <3>2
  <2>11. OwnerInv'
    <3> SUFFICES ASSUME NEW u \in Batches, NEW n \in Mailboxes, lease'[n] = u
                 PROVE  flow'[u][n].at \in Inside \/ chief'[u].at = "dead"
      BY DEF OwnerInv, ChiefAt
    <3>1. CASE n # m \/ u # t
      <4>1. lease[n] = u
        BY <2>4, <2>9, <3>1
      <4> QED BY <2>4, <2>5, <3>1, <4>1 DEF OwnerInv, ChiefAt
    <3>2. CASE n = m /\ u = t
      <4>1. lease[m] = t => flow[t][m].at \in Inside \/ chief[t].at = "dead"
        BY DEF OwnerInv, ChiefAt
      <4> QED BY <2>4, <2>5, <2>9, <3>2, <4>1
    <3> QED BY <3>1, <3>2
  <2>12. ChiefInv'
    BY <2>4, <2>5 DEF ChiefInv, FlowAt, ChiefAt, Over, Ended, Inside
  <2>13. SentInv'
    BY <2>1, <2>4, <2>5, <2>3, <2>d DEF SentInv, FlowAt, ChiefAt, Over, Ended, Inside
  <2> QED BY <2>p, <2>10, <2>11, <2>12, <2>13
<1>9. ASSUME NEW t \in Batches, NEW m \in Mailboxes, Acquires(t, m)
      PROVE  PoolInv'
  <2>1. /\ UNCHANGED <<chief, asked>>
        /\ flow[t][m].at \in {"queued", "waiting", "asking", "inside", "leaving", "fleeing"}
    BY <1>9 DEF Acquires, FlowAt
  <2>2. PICK s \in (Over \ {"none"}) \cup {"waiting", "asking", "inside", "leaving", "fleeing"} :
          /\ flow' = [flow EXCEPT ![t][m] = [at |-> s, overran |-> FALSE]]
          /\ \/ s = "inside" /\ lease[m] = NoBatch /\ lease' = [lease EXCEPT ![m] = t]
             \/ s \notin Inside /\ flow[t][m].at \notin Inside /\ UNCHANGED lease
    BY <1>9, <2>1 DEF Acquires, FlowAt, FlowGoes, Over, Ended, Inside
  <2>3. [at |-> s, overran |-> FALSE] \in FlowStates /\ s # "none"
    BY DEF FlowStates, Over, Ended
  <2>4. /\ flow'[t][m].at = s
        /\ \A u \in Batches, n \in Mailboxes : u # t \/ n # m => flow'[u][n] = flow[u][n]
        /\ \A n \in Mailboxes \ {m} : lease'[n] = lease[n]
        /\ lease'[m] \in {lease[m], t, NoBatch}
    BY <1>t, <2>2
  <2>5. chief[t].at # "none" /\ chief[t].at # "over" /\ chief' = chief
    BY <2>1 DEF ChiefInv, FlowAt, ChiefAt, Over, Ended
  <2>6. NoBatch \notin Batches
    BY BatchesAssumption
  <2>7. s = "inside" => lease'[m] = t
    BY <1>t, <2>2 DEF Inside
  <2>8. \A u \in Batches : lease[m] = u /\ lease'[m] # u => u = t /\ s \notin Inside
    BY <1>t, <2>2, <2>6 DEF Inside
  <2>9. \A u \in Batches : lease'[m] = u =>
          \/ lease[m] = u /\ (flow[t][m].at \in Inside => s \in Inside \/ u # t)
          \/ u = t /\ s \in Inside
    BY <1>t, <2>2, <2>6 DEF Inside
  <2>d. \A u \in Batches : \A i \in DOMAIN BatchOf[u] : BatchOf[u][i] \in Mailboxes
    BY BatchFacts
  <2>l. lease' \in [Mailboxes -> Batches \cup {NoBatch}]
    BY <1>t, <2>2
  <2>f. flow' \in [Batches -> [Mailboxes -> FlowStates]]
    BY <1>t, <2>2, <2>3
  <2>c. chief' \in [Batches -> ChiefStates]
    BY <1>t, <2>1
  <2>p. PoolTypeOK'
    BY <1>t, <2>1, <2>l, <2>f, <2>c DEF PoolTypeOK, FlowStates, ChiefStates
  <2>10. LeaseInv'
    <3> SUFFICES ASSUME NEW u \in Batches, NEW n \in Mailboxes, flow'[u][n].at = "inside"
                 PROVE  lease'[n] = u \/ flow'[u][n].overran \/ chief'[u].at = "stopping"
      BY DEF LeaseInv, FlowAt, ChiefAt
    <3>1. CASE u = t /\ n = m
      BY <2>4, <2>7, <3>1
    <3>2. CASE u # t \/ n # m
      <4>1. lease[n] = u \/ flow'[u][n].overran \/ chief'[u].at = "stopping"
        BY <2>4, <2>5, <3>2 DEF LeaseInv, FlowAt, ChiefAt
      <4> QED BY <2>4, <2>8, <3>2, <4>1
    <3> QED BY <3>1, <3>2
  <2>11. OwnerInv'
    <3> SUFFICES ASSUME NEW u \in Batches, NEW n \in Mailboxes, lease'[n] = u
                 PROVE  flow'[u][n].at \in Inside \/ chief'[u].at = "dead"
      BY DEF OwnerInv, ChiefAt
    <3>1. CASE n # m \/ u # t
      <4>1. lease[n] = u
        BY <2>4, <2>9, <3>1
      <4> QED BY <2>4, <2>5, <3>1, <4>1 DEF OwnerInv, ChiefAt
    <3>2. CASE n = m /\ u = t
      <4>1. lease[m] = t => flow[t][m].at \in Inside \/ chief[t].at = "dead"
        BY DEF OwnerInv, ChiefAt
      <4> QED BY <2>4, <2>5, <2>9, <3>2, <4>1
    <3> QED BY <3>1, <3>2
  <2>12. ChiefInv'
    BY <2>4, <2>5 DEF ChiefInv, FlowAt, ChiefAt, Over, Ended, Inside
  <2>13. SentInv'
    BY <2>1, <2>4, <2>5, <2>3, <2>d DEF SentInv, FlowAt, ChiefAt, Over, Ended, Inside
  <2> QED BY <2>p, <2>10, <2>11, <2>12, <2>13
<1>10. ASSUME NEW t \in Batches, NEW m \in Mailboxes, Finishes(t, m)
      PROVE  PoolInv'
  <2>1. /\ UNCHANGED <<chief, asked>>
        /\ flow[t][m].at \in {"queued", "waiting", "asking", "inside", "leaving", "fleeing"}
    BY <1>10 DEF Finishes, FlowAt
  <2>2. PICK s \in (Over \ {"none"}) \cup {"waiting", "asking", "inside", "leaving", "fleeing"} :
          /\ flow' = [flow EXCEPT ![t][m] = [at |-> s, overran |-> FALSE]]
          /\ UNCHANGED lease /\ s \in {"leaving", "fleeing"} /\ flow[t][m].at = "inside"
    BY <1>10, <2>1 DEF Finishes, FlowAt, FlowGoes, Over, Ended, Inside
  <2>3. [at |-> s, overran |-> FALSE] \in FlowStates /\ s # "none"
    BY DEF FlowStates, Over, Ended
  <2>4. /\ flow'[t][m].at = s
        /\ \A u \in Batches, n \in Mailboxes : u # t \/ n # m => flow'[u][n] = flow[u][n]
        /\ \A n \in Mailboxes \ {m} : lease'[n] = lease[n]
        /\ lease'[m] \in {lease[m], t, NoBatch}
    BY <1>t, <2>2
  <2>5. chief[t].at # "none" /\ chief[t].at # "over" /\ chief' = chief
    BY <2>1 DEF ChiefInv, FlowAt, ChiefAt, Over, Ended
  <2>6. NoBatch \notin Batches
    BY BatchesAssumption
  <2>7. s = "inside" => lease'[m] = t
    BY <1>t, <2>2 DEF Inside
  <2>8. \A u \in Batches : lease[m] = u /\ lease'[m] # u => u = t /\ s \notin Inside
    BY <1>t, <2>2, <2>6 DEF Inside
  <2>9. \A u \in Batches : lease'[m] = u =>
          \/ lease[m] = u /\ (flow[t][m].at \in Inside => s \in Inside \/ u # t)
          \/ u = t /\ s \in Inside
    BY <1>t, <2>2, <2>6 DEF Inside
  <2>d. \A u \in Batches : \A i \in DOMAIN BatchOf[u] : BatchOf[u][i] \in Mailboxes
    BY BatchFacts
  <2>l. lease' \in [Mailboxes -> Batches \cup {NoBatch}]
    BY <1>t, <2>2
  <2>f. flow' \in [Batches -> [Mailboxes -> FlowStates]]
    BY <1>t, <2>2, <2>3
  <2>c. chief' \in [Batches -> ChiefStates]
    BY <1>t, <2>1
  <2>p. PoolTypeOK'
    BY <1>t, <2>1, <2>l, <2>f, <2>c DEF PoolTypeOK, FlowStates, ChiefStates
  <2>10. LeaseInv'
    <3> SUFFICES ASSUME NEW u \in Batches, NEW n \in Mailboxes, flow'[u][n].at = "inside"
                 PROVE  lease'[n] = u \/ flow'[u][n].overran \/ chief'[u].at = "stopping"
      BY DEF LeaseInv, FlowAt, ChiefAt
    <3>1. CASE u = t /\ n = m
      BY <2>4, <2>7, <3>1
    <3>2. CASE u # t \/ n # m
      <4>1. lease[n] = u \/ flow'[u][n].overran \/ chief'[u].at = "stopping"
        BY <2>4, <2>5, <3>2 DEF LeaseInv, FlowAt, ChiefAt
      <4> QED BY <2>4, <2>8, <3>2, <4>1
    <3> QED BY <3>1, <3>2
  <2>11. OwnerInv'
    <3> SUFFICES ASSUME NEW u \in Batches, NEW n \in Mailboxes, lease'[n] = u
                 PROVE  flow'[u][n].at \in Inside \/ chief'[u].at = "dead"
      BY DEF OwnerInv, ChiefAt
    <3>1. CASE n # m \/ u # t
      <4>1. lease[n] = u
        BY <2>4, <2>9, <3>1
      <4> QED BY <2>4, <2>5, <3>1, <4>1 DEF OwnerInv, ChiefAt
    <3>2. CASE n = m /\ u = t
      <4>1. lease[m] = t => flow[t][m].at \in Inside \/ chief[t].at = "dead"
        BY DEF OwnerInv, ChiefAt
      <4> QED BY <2>4, <2>5, <2>9, <3>2, <4>1
    <3> QED BY <3>1, <3>2
  <2>12. ChiefInv'
    BY <2>4, <2>5 DEF ChiefInv, FlowAt, ChiefAt, Over, Ended, Inside
  <2>13. SentInv'
    BY <2>1, <2>4, <2>5, <2>3, <2>d DEF SentInv, FlowAt, ChiefAt, Over, Ended, Inside
  <2> QED BY <2>p, <2>10, <2>11, <2>12, <2>13
<1>11. ASSUME NEW t \in Batches, NEW m \in Mailboxes, Releases(t, m)
      PROVE  PoolInv'
  <2>1. /\ UNCHANGED <<chief, asked>>
        /\ flow[t][m].at \in {"queued", "waiting", "asking", "inside", "leaving", "fleeing"}
    BY <1>11 DEF Releases, FlowAt
  <2>2. PICK s \in (Over \ {"none"}) \cup {"waiting", "asking", "inside", "leaving", "fleeing"} :
          /\ flow' = [flow EXCEPT ![t][m] = [at |-> s, overran |-> FALSE]]
          /\ s \notin Inside
          /\ lease' = IF lease[m] = t THEN [lease EXCEPT ![m] = NoBatch] ELSE lease
    <3>1. lease' = IF lease[m] = t THEN [lease EXCEPT ![m] = NoBatch] ELSE lease
      BY <1>11 DEF Releases
    <3>2. CASE FlowAt(t, m, "leaving")
      <4>1. flow' = [flow EXCEPT ![t][m] = [at |-> "ended", overran |-> FALSE]]
        BY <1>11, <3>2 DEF Releases, FlowGoes
      <4>2. "ended" \in (Over \ {"none"}) \cup {"waiting", "asking", "inside", "leaving", "fleeing"}
        BY DEF Over, Ended
      <4>3. "ended" \notin Inside
        BY <3>1 DEF Inside
      <4> QED BY <3>1, <4>1, <4>2, <4>3
    <3>3. CASE ~FlowAt(t, m, "leaving")
      <4>1. flow' = [flow EXCEPT ![t][m] = [at |-> "raised", overran |-> FALSE]]
        BY <1>11, <3>3 DEF Releases, FlowGoes
      <4>2. "raised" \in (Over \ {"none"}) \cup {"waiting", "asking", "inside", "leaving", "fleeing"}
        BY DEF Over, Ended
      <4>3. "raised" \notin Inside
        BY <3>1 DEF Inside
      <4> QED BY <3>1, <4>1, <4>2, <4>3
    <3> QED BY <3>2, <3>3
  <2>3. [at |-> s, overran |-> FALSE] \in FlowStates /\ s # "none"
    BY DEF FlowStates, Over, Ended
  <2>4. /\ flow'[t][m].at = s
        /\ \A u \in Batches, n \in Mailboxes : u # t \/ n # m => flow'[u][n] = flow[u][n]
        /\ \A n \in Mailboxes \ {m} : lease'[n] = lease[n]
        /\ lease'[m] \in {lease[m], t, NoBatch}
    BY <1>t, <2>2
  <2>5. chief[t].at # "none" /\ chief[t].at # "over" /\ chief' = chief
    BY <2>1 DEF ChiefInv, FlowAt, ChiefAt, Over, Ended
  <2>6. NoBatch \notin Batches
    BY BatchesAssumption
  <2>7. s = "inside" => lease'[m] = t
    BY <1>t, <2>2 DEF Inside
  <2>8. \A u \in Batches : lease[m] = u /\ lease'[m] # u => u = t /\ s \notin Inside
    BY <1>t, <2>2, <2>6 DEF Inside
  <2>9. \A u \in Batches : lease'[m] = u =>
          \/ lease[m] = u /\ (flow[t][m].at \in Inside => s \in Inside \/ u # t)
          \/ u = t /\ s \in Inside
    BY <1>t, <2>2, <2>6 DEF Inside
  <2>d. \A u \in Batches : \A i \in DOMAIN BatchOf[u] : BatchOf[u][i] \in Mailboxes
    BY BatchFacts
  <2>l. lease' \in [Mailboxes -> Batches \cup {NoBatch}]
    BY <1>t, <2>2
  <2>f. flow' \in [Batches -> [Mailboxes -> FlowStates]]
    BY <1>t, <2>2, <2>3
  <2>c. chief' \in [Batches -> ChiefStates]
    BY <1>t, <2>1
  <2>p. PoolTypeOK'
    BY <1>t, <2>1, <2>l, <2>f, <2>c DEF PoolTypeOK, FlowStates, ChiefStates
  <2>10. LeaseInv'
    <3> SUFFICES ASSUME NEW u \in Batches, NEW n \in Mailboxes, flow'[u][n].at = "inside"
                 PROVE  lease'[n] = u \/ flow'[u][n].overran \/ chief'[u].at = "stopping"
      BY DEF LeaseInv, FlowAt, ChiefAt
    <3>1. CASE u = t /\ n = m
      BY <2>4, <2>7, <3>1
    <3>2. CASE u # t \/ n # m
      <4>1. lease[n] = u \/ flow'[u][n].overran \/ chief'[u].at = "stopping"
        BY <2>4, <2>5, <3>2 DEF LeaseInv, FlowAt, ChiefAt
      <4> QED BY <2>4, <2>8, <3>2, <4>1
    <3> QED BY <3>1, <3>2
  <2>11. OwnerInv'
    <3> SUFFICES ASSUME NEW u \in Batches, NEW n \in Mailboxes, lease'[n] = u
                 PROVE  flow'[u][n].at \in Inside \/ chief'[u].at = "dead"
      BY DEF OwnerInv, ChiefAt
    <3>1. CASE n # m \/ u # t
      <4>1. lease[n] = u
        BY <2>4, <2>9, <3>1
      <4> QED BY <2>4, <2>5, <3>1, <4>1 DEF OwnerInv, ChiefAt
    <3>2. CASE n = m /\ u = t
      <4>1. lease[m] = t => flow[t][m].at \in Inside \/ chief[t].at = "dead"
        BY DEF OwnerInv, ChiefAt
      <4> QED BY <2>4, <2>5, <2>9, <3>2, <4>1
    <3> QED BY <3>1, <3>2
  <2>12. ChiefInv'
    BY <2>4, <2>5 DEF ChiefInv, FlowAt, ChiefAt, Over, Ended, Inside
  <2>13. SentInv'
    BY <2>1, <2>4, <2>5, <2>3, <2>d DEF SentInv, FlowAt, ChiefAt, Over, Ended, Inside
  <2> QED BY <2>p, <2>10, <2>11, <2>12, <2>13
<1>12. ASSUME NEW m \in Mailboxes, Expires(m)
      PROVE  PoolInv'
  <2>1. lease[m] \in Batches
    BY <1>t, <1>12 DEF Expires
  <2> DEFINE t == lease[m]
  <2>2. /\ UNCHANGED <<chief, asked>>
        /\ lease' = [lease EXCEPT ![m] = NoBatch]
        /\ flow' = [flow EXCEPT ![t][m] =
                      [at |-> flow[t][m].at, overran |-> FlowAt(t, m, "inside")]]
    BY <1>12 DEF Expires
  <2>3. t \in Batches /\ lease[m] = t /\ FlowAt(t, m, "inside") \in BOOLEAN
    BY <2>1 DEF FlowAt
  <2>r. [at |-> flow[t][m].at, overran |-> FlowAt(t, m, "inside")] \in FlowStates
    <3>1. flow[t][m].at \in Over \cup {"queued", "waiting", "asking", "inside", "leaving", "fleeing"}
      BY <1>u, <2>3 DEF FlowStates
    <3> QED BY <2>3, <3>1 DEF FlowStates
  <2> HIDE DEF t
  <2>4. /\ flow'[t][m].at = flow[t][m].at
        /\ flow'[t][m].overran = FlowAt(t, m, "inside")
        /\ \A u \in Batches, n \in Mailboxes : u # t \/ n # m => flow'[u][n] = flow[u][n]
    BY <1>t, <2>2, <2>3 DEF FlowStates
  <2>5. lease'[m] = NoBatch /\ \A n \in Mailboxes \ {m} : lease'[n] = lease[n]
    BY <1>t, <2>2
  <2>6. NoBatch \notin Batches
    BY BatchesAssumption
  <2>d. \A u \in Batches : \A i \in DOMAIN BatchOf[u] : BatchOf[u][i] \in Mailboxes
    BY BatchFacts
  <2>l. lease' \in [Mailboxes -> Batches \cup {NoBatch}]
    BY <1>t, <2>2
  <2>f. flow' \in [Batches -> [Mailboxes -> FlowStates]]
    BY <1>t, <2>2, <2>3, <2>r
  <2>c. chief' \in [Batches -> ChiefStates]
    BY <1>t, <2>2
  <2>p. PoolTypeOK'
    BY <1>t, <2>2, <2>l, <2>f, <2>c DEF PoolTypeOK, FlowStates, ChiefStates
  <2>7. LeaseInv'
    <3> SUFFICES ASSUME NEW u \in Batches, NEW n \in Mailboxes, flow'[u][n].at = "inside"
                 PROVE  lease'[n] = u \/ flow'[u][n].overran \/ chief'[u].at = "stopping"
      BY DEF LeaseInv, FlowAt, ChiefAt
    <3>1. CASE u = t /\ n = m
      BY <2>4, <3>1 DEF FlowAt
    <3>2. CASE u # t \/ n # m
      <4>1. lease[n] = u \/ flow[u][n].overran \/ chief[u].at = "stopping"
        BY <2>4, <3>2 DEF LeaseInv, FlowAt, ChiefAt
      <4> QED BY <2>2, <2>3, <2>4, <2>5, <3>2, <4>1
    <3> QED BY <3>1, <3>2
  <2>8. OwnerInv'
    BY <2>2, <2>3, <2>4, <2>5, <2>6 DEF OwnerInv, FlowAt, ChiefAt, Over, Ended, Inside
  <2>9. ChiefInv'
    BY <2>2, <2>3, <2>4, <2>5, <2>6 DEF ChiefInv, FlowAt, ChiefAt, Over, Ended, Inside
  <2>10. SentInv'
    BY <2>2, <2>4, <2>d DEF SentInv, FlowAt, ChiefAt, Over, Ended, Inside
  <2> QED BY <2>p, <2>7, <2>8, <2>9, <2>10
<1>13. CASE UNCHANGED poolVars
  <2>1. UNCHANGED <<lease, flow, chief, asked>>
    BY <1>13 DEF poolVars
  <2>l. lease' \in [Mailboxes -> Batches \cup {NoBatch}]
    BY <1>t, <2>1
  <2>f. flow' \in [Batches -> [Mailboxes -> FlowStates]]
    BY <1>t, <2>1
  <2>c. chief' \in [Batches -> ChiefStates]
    BY <1>t, <2>1
  <2>p. PoolTypeOK'
    BY <1>t, <2>1, <2>l, <2>f, <2>c DEF PoolTypeOK, FlowStates, ChiefStates
  <2>2. LeaseInv'
    BY <2>1 DEF LeaseInv, FlowAt, ChiefAt, Over, Ended, Inside
  <2>3. OwnerInv'
    BY <2>1 DEF OwnerInv, FlowAt, ChiefAt, Over, Ended, Inside
  <2>4. ChiefInv'
    BY <2>1 DEF ChiefInv, FlowAt, ChiefAt, Over, Ended, Inside
  <2>5. SentInv'
    BY <2>1 DEF SentInv, FlowAt, ChiefAt, Over, Ended, Inside
  <2> QED BY <2>p, <2>2, <2>3, <2>4, <2>5
<1> QED
  BY <1>1, <1>2, <1>3, <1>4, <1>5, <1>6, <1>7, <1>8, <1>9, <1>10, <1>11, <1>12, <1>13
     DEF PoolNext

LEMMA PoolInvariant == PoolSpec => []PoolInv
BY InitPoolInv, NextPoolInv, PTL DEF PoolSpec

(***************************************************************************)
(* The theorems.                                                           *)
(***************************************************************************)

\* Every reachable state of the pools and leases is type-correct.
THEOREM PoolTypeCorrect == PoolSpec => []PoolTypeOK
<1>1. PoolInv => PoolTypeOK
  BY DEF PoolInv
<1> QED BY <1>1, PoolInvariant, PTL

\* Two flows share a mailbox only if a lease was outlived or a task is being
\* stopped: the lease names one owner, and LeaseInv ties each flow to it.
THEOREM MailboxesExclusive == PoolSpec => []MailboxExclusive
<1>1. PoolInv => MailboxExclusive
  BY DEF PoolInv, LeaseInv, MailboxExclusive
<1> QED BY <1>1, PoolInvariant, PTL

\* A task that is over has no flow left, hence by OwnerInv no lease.
THEOREM NothingStaysBehind == PoolSpec => []NothingLeftBehind
<1>1. PoolInv => NothingLeftBehind
  BY DEF PoolInv, OwnerInv, ChiefInv, NothingLeftBehind, ChiefAt, FlowAt, Over, Ended, Inside
<1> QED BY <1>1, PoolInvariant, PTL
=============================================================================
