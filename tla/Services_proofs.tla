-------------------------- MODULE Services_proofs --------------------------
(***************************************************************************)
(* The safety properties of PlusWatch, for any links, buyers and bounds,   *)
(* and the types of the four services side by side, from the inductive     *)
(* invariants of each.                                                     *)
(***************************************************************************)
EXTENDS MCServices, PaypalJobs_proofs, CheckoutJobs_proofs, MailboxPool_proofs

(***************************************************************************)
(* The watches.  The checker writes a result over a row that it read       *)
(* earlier.  A row it has read is still pending, because nobody else       *)
(* changes a status, and it has read no row twice.  A row is made only for *)
(* a link whose goroutine is done with it.                                 *)
(***************************************************************************)

WatchRow == [buyer : {BuyerOf[o] : o \in Orders},
             status : {"pending", "active", "expired"},
             attempts : 0..MaxChecks, next : {"later", "due", "never"}]
Asking   == [at : {"none", "found", "done"}, row : Nat]

Registered == {o \in Orders : asking[o].at = "done"}

\* The rows, and that a pending one has checks left.
RowsOK ==
  /\ watches \in Seq(WatchRow)
  /\ \A i \in DOMAIN watches : Pending(i) => watches[i].attempts < MaxChecks

AskingOK ==
  /\ asking \in [Orders -> Asking]
  /\ \A o \in Orders : asking[o].row \in {0} \cup DOMAIN watches
  /\ Len(watches) <= Cardinality(Registered)

LoadedOK ==
  /\ \A w \in loaded :
       /\ w = [row |-> w.row, attempts |-> w.attempts]
       /\ w.row \in DOMAIN watches /\ Pending(w.row)
       /\ w.attempts \in Nat /\ w.attempts < MaxChecks
  /\ \A v, w \in loaded : v.row = w.row => v = w

WatchInv == RowsOK /\ AskingOK /\ LoadedOK /\ lost \in 0..MaxLost

LEMMA RowsFacts ==
  ASSUME RowsOK
  PROVE  /\ Len(watches) \in Nat /\ DOMAIN watches = 1..Len(watches)
         /\ \A i \in DOMAIN watches : watches[i] \in WatchRow
BY DEF RowsOK

LEMMA RegisteredFacts ==
  IsFiniteSet(Registered) /\ Cardinality(Registered) \in Nat
  /\ Cardinality(Registered) <= Cardinality(Orders)
<1>1. Registered \in SUBSET Orders
  BY DEF Registered
<1> QED BY <1>1, OrdersAssumption, FS_Subset, FS_CardinalityType

\* More links are done with; the rows are as many.
LEMMA RegisteredGrows ==
  ASSUME Registered \subseteq Registered'
  PROVE  Cardinality(Registered) <= Cardinality(Registered')
<1>1. Registered' \in SUBSET Orders
  BY DEF Registered
<1>2. IsFiniteSet(Registered')
  BY <1>1, OrdersAssumption, FS_Subset
<1> QED BY <1>2, FS_Subset

LEMMA WatchStart == WatchInit => WatchInv
<1> SUFFICES ASSUME WatchInit PROVE WatchInv
  OBVIOUS
<1>1. watches = <<>> /\ loaded = {} /\ lost = 0
      /\ asking = [o \in Orders |-> [at |-> "none", row |-> 0]]
  BY DEF WatchInit
<1>2. RowsOK
  BY <1>1 DEF RowsOK
<1>3. Len(watches) <= Cardinality(Registered)
  BY <1>1, RegisteredFacts
<1>4. asking \in [Orders -> Asking] /\ \A o \in Orders : asking[o].row = 0
  BY <1>1 DEF Asking
<1>5. AskingOK
  BY <1>3, <1>4 DEF AskingOK
<1>6. LoadedOK
  BY <1>1 DEF LoadedOK
<1>7. lost \in 0..MaxLost
  BY <1>1, OrdersAssumption
<1> QED BY <1>2, <1>5, <1>6, <1>7 DEF WatchInv

\* Of every row that was there: it stays, and an end that was written stays.
Sticks ==
  \A i \in DOMAIN watches :
    /\ i \in DOMAIN watches'
    /\ watches[i].status = "active" => watches'[i].status = "active"

LEMMA LooksKeeps ==
  ASSUME WatchInv, NEW o \in Orders, LooksForWatch(o)
  PROVE  WatchInv' /\ Sticks
<1>1. /\ watches' = watches /\ loaded' = loaded /\ lost' = lost
      /\ asking[o].at = "none"
  BY DEF LooksForWatch
<1>2. PICK i \in DOMAIN watches \cup {0} :
        asking' = [asking EXCEPT ![o] = [at |-> "found", row |-> i]]
  BY DEF LooksForWatch
<1>3. i \in Nat
  BY RowsFacts DEF WatchInv
<1>4. asking \in [Orders -> Asking]
  BY DEF WatchInv, AskingOK
<1>5. /\ asking' \in [Orders -> Asking]
      /\ \A k \in Orders : asking'[k] = IF k = o THEN [at |-> "found", row |-> i] ELSE asking[k]
  BY <1>2, <1>3, <1>4 DEF Asking
<1>6. \A k \in Orders : asking'[k].row \in {0} \cup DOMAIN watches'
  BY <1>1, <1>2, <1>5 DEF WatchInv, AskingOK
<1>7. Registered' = Registered
  BY <1>1, <1>5 DEF Registered
<1>8. AskingOK'
  BY <1>1, <1>5, <1>6, <1>7 DEF WatchInv, AskingOK
<1>9. RowsOK' /\ LoadedOK' /\ (lost \in 0..MaxLost)' /\ Sticks
  BY <1>1 DEF WatchInv, RowsOK, LoadedOK, Pending, Sticks
<1> QED BY <1>8, <1>9 DEF WatchInv

\* A step that writes in one row r, and makes nothing pending that was not.
LEMMA RowWritten ==
  ASSUME RowsOK, NEW i \in DOMAIN watches, NEW r \in WatchRow,
         watches' = [watches EXCEPT ![i] = r],
         r.status = "pending" => r.attempts < MaxChecks,
         Pending(i) \/ r.status = watches[i].status
  PROVE  /\ RowsOK' /\ DOMAIN watches' = DOMAIN watches /\ Len(watches') = Len(watches)
         /\ watches'[i] = r /\ Sticks
         /\ \A k \in DOMAIN watches : k # i => watches'[k] = watches[k]
<1>1. watches \in Seq(WatchRow)
  BY DEF RowsOK
<1>2. /\ watches' \in Seq(WatchRow) /\ DOMAIN watches' = DOMAIN watches
      /\ Len(watches') = Len(watches) /\ watches'[i] = r
      /\ \A k \in DOMAIN watches : k # i => watches'[k] = watches[k]
  BY <1>1
<1>3. \A k \in DOMAIN watches' :
        watches'[k].status = "pending" => watches'[k].attempts < MaxChecks
  BY <1>2 DEF RowsOK, Pending
<1>4. RowsOK'
  BY <1>2, <1>3 DEF RowsOK, Pending
<1>5. Sticks
  BY <1>2 DEF Sticks, Pending
<1> QED BY <1>2, <1>4, <1>5

LEMMA RegistersKeeps ==
  ASSUME WatchInv, NEW o \in Orders, RegistersWatch(o)
  PROVE  WatchInv' /\ Sticks
<1> DEFINE i == asking[o].row
<1>1. /\ loaded' = loaded /\ lost' = lost /\ asking[o].at = "found"
      /\ asking' = [asking EXCEPT ![o].at = "done"]
      /\ watches' = IF i = 0 THEN Append(watches, NewWatch(o))
                    ELSE [watches EXCEPT ![i].attempts = 0, ![i].next = "later"]
  BY DEF RegistersWatch
<1>2. /\ RowsOK /\ asking \in [Orders -> Asking] /\ lost \in 0..MaxLost
      /\ i \in {0} \cup DOMAIN watches
  BY DEF WatchInv, AskingOK
<1>3. /\ asking' \in [Orders -> Asking]
      /\ \A k \in Orders : asking'[k].row = asking[k].row
      /\ \A k \in Orders : asking'[k].at = IF k = o THEN "done" ELSE asking[k].at
  BY <1>1, <1>2 DEF Asking
<1>4. Registered' = Registered \cup {o} /\ o \notin Registered
  BY <1>1, <1>3 DEF Registered
<1>5. Cardinality(Registered') = Cardinality(Registered) + 1
  BY <1>4, RegisteredFacts, FS_AddElement
<1>6. Len(watches) \in Nat /\ DOMAIN watches = 1..Len(watches)
  BY <1>2, RowsFacts
<1>7. Len(watches) <= Cardinality(Registered) /\ Cardinality(Registered) \in Nat
  BY RegisteredFacts DEF WatchInv, AskingOK
<1>8. /\ RowsOK' /\ Sticks /\ DOMAIN watches \subseteq DOMAIN watches'
      /\ Len(watches') <= Len(watches) + 1
      /\ \A k \in DOMAIN watches : watches'[k].status = watches[k].status
  <2>1. CASE i = 0
    <3> DEFINE r == NewWatch(o)
    <3>1. r \in WatchRow /\ r.status = "pending" /\ r.attempts = 0 /\ 0 < MaxChecks
      BY OrdersAssumption DEF NewWatch, WatchRow
    <3> HIDE DEF r
    <3>2. watches' = Append(watches, r) /\ watches \in Seq(WatchRow)
      BY <1>1, <1>2, <2>1 DEF r, RowsOK
    <3>3. /\ watches' \in Seq(WatchRow) /\ Len(watches') = Len(watches) + 1
          /\ DOMAIN watches' = 1..(Len(watches) + 1)
          /\ watches'[Len(watches) + 1] = r
          /\ \A k \in DOMAIN watches : k \in DOMAIN watches' /\ watches'[k] = watches[k]
      BY <1>6, <3>1, <3>2
    <3>4. \A k \in DOMAIN watches' : k = Len(watches) + 1 \/ k \in DOMAIN watches
      BY <1>6, <3>3
    <3>5. \A k \in DOMAIN watches' :
            watches'[k].status = "pending" => watches'[k].attempts < MaxChecks
      BY <1>2, <3>1, <3>3, <3>4 DEF RowsOK, Pending
    <3>6. RowsOK'
      BY <3>3, <3>5 DEF RowsOK, Pending
    <3>7. Sticks
      BY <3>3 DEF Sticks
    <3> QED BY <1>6, <3>3, <3>6, <3>7
  <2>2. CASE i # 0
    <3> DEFINE r == [watches[i] EXCEPT !.attempts = 0, !.next = "later"]
    <3>1. i \in DOMAIN watches /\ watches[i] \in WatchRow
      BY <1>2, <2>2, RowsFacts
    <3>10. 0 \in 0..MaxChecks /\ 0 < MaxChecks
      BY OrdersAssumption
    <3> HIDE DEF i
    <3>2. r \in WatchRow /\ r.status = watches[i].status /\ r.attempts = 0
      BY <3>1, <3>10 DEF WatchRow
    <3>3. watches' = [watches EXCEPT ![i] = r]
      BY <1>1, <2>2, <3>1
    <3> HIDE DEF r
    <3>4. /\ RowsOK' /\ DOMAIN watches' = DOMAIN watches /\ Len(watches') = Len(watches)
          /\ watches'[i] = r /\ Sticks
          /\ \A k \in DOMAIN watches : k # i => watches'[k] = watches[k]
      BY <1>2, <3>1, <3>10, <3>2, <3>3, RowWritten
    <3>5. \A k \in DOMAIN watches : watches'[k].status = watches[k].status
      BY <3>2, <3>4
    <3> QED BY <1>6, <3>4, <3>5
  <2> QED BY <2>1, <2>2
<1>9. Len(watches') <= Cardinality(Registered') /\ Len(watches') \in Nat
  <2>1. Len(watches') \in Nat
    BY <1>8 DEF RowsOK
  <2> QED BY <1>5, <1>6, <1>7, <1>8, <2>1
<1>10. \A k \in Orders : asking'[k].row \in {0} \cup DOMAIN watches'
  BY <1>3, <1>8 DEF WatchInv, AskingOK
<1>11. AskingOK'
  BY <1>3, <1>9, <1>10 DEF AskingOK
<1>12. LoadedOK'
  BY <1>1, <1>8 DEF WatchInv, LoadedOK, Pending
<1> QED BY <1>1, <1>2, <1>8, <1>11, <1>12 DEF WatchInv

\* Steps of the clock and the checker leave the goroutines alone.
LEMMA AskingStays ==
  ASSUME WatchInv, asking' = asking, lost' = lost,
         DOMAIN watches' = DOMAIN watches, Len(watches') = Len(watches)
  PROVE  AskingOK' /\ (lost \in 0..MaxLost)'
<1>1. Registered' = Registered
  BY DEF Registered
<1> QED BY <1>1 DEF WatchInv, AskingOK

LEMMA FallsDueKeeps ==
  ASSUME WatchInv, NEW i \in DOMAIN watches, WatchFallsDue(i)
  PROVE  WatchInv' /\ Sticks
<1> DEFINE r == [watches[i] EXCEPT !.next = "due"]
<1>1. /\ watches' = [watches EXCEPT ![i] = r]
      /\ asking' = asking /\ loaded' = loaded /\ lost' = lost
  BY DEF WatchFallsDue
<1>2. watches[i] \in WatchRow /\ RowsOK
  BY RowsFacts DEF WatchInv
<1>3. /\ r \in WatchRow /\ r.status = watches[i].status
      /\ r.attempts = watches[i].attempts
  BY <1>2 DEF WatchRow
<1>4. r.status = "pending" => r.attempts < MaxChecks
  BY <1>2, <1>3 DEF RowsOK, Pending
<1> HIDE DEF r
<1>5. /\ RowsOK' /\ DOMAIN watches' = DOMAIN watches /\ Len(watches') = Len(watches)
      /\ watches'[i] = r /\ Sticks
      /\ \A k \in DOMAIN watches : k # i => watches'[k] = watches[k]
  BY <1>1, <1>2, <1>3, <1>4, RowWritten
<1>6. \A k \in DOMAIN watches : watches'[k].status = watches[k].status
  BY <1>3, <1>5
<1>7. LoadedOK'
  BY <1>1, <1>5, <1>6 DEF WatchInv, LoadedOK, Pending
<1>8. AskingOK' /\ (lost \in 0..MaxLost)'
  BY <1>1, <1>5, AskingStays
<1> QED BY <1>5, <1>7, <1>8 DEF WatchInv

LEMMA LoadsKeeps ==
  ASSUME WatchInv, LoadsWatches
  PROVE  WatchInv' /\ Sticks
<1>1. watches' = watches /\ asking' = asking /\ lost' = lost
  BY DEF LoadsWatches
<1>2. PICK batch \in SUBSET {i \in DOMAIN watches : Pending(i) /\ watches[i].next = "due"} :
        loaded' = {[row |-> i, attempts |-> watches[i].attempts] : i \in batch}
  BY DEF LoadsWatches
<1>3. \A w \in loaded' : \E i \in batch : w = [row |-> i, attempts |-> watches[i].attempts]
  BY <1>2
<1>4. \A i \in batch : /\ i \in DOMAIN watches /\ Pending(i)
                       /\ watches[i].attempts \in Nat /\ watches[i].attempts < MaxChecks
  <2>1. \A i \in DOMAIN watches : watches[i].attempts \in 0..MaxChecks
    BY RowsFacts DEF WatchInv, WatchRow
  <2>2. 0..MaxChecks \subseteq Nat
    BY OrdersAssumption
  <2> QED BY <2>1, <2>2 DEF WatchInv, RowsOK
<1>5. \A w \in loaded' :
        /\ w = [row |-> w.row, attempts |-> w.attempts]
        /\ w.row \in DOMAIN watches /\ Pending(w.row)
        /\ w.attempts \in Nat /\ w.attempts < MaxChecks
        /\ w.attempts = watches[w.row].attempts
  BY <1>3, <1>4
<1>6. \A v, w \in loaded' : v.row = w.row => v = w
  BY <1>5
<1>7. LoadedOK'
  BY <1>1, <1>5, <1>6 DEF LoadedOK, Pending
<1>8. AskingOK' /\ (lost \in 0..MaxLost)'
  BY <1>1, AskingStays
<1>9. RowsOK' /\ Sticks
  BY <1>1 DEF WatchInv, RowsOK, Pending, Sticks
<1> QED BY <1>7, <1>8, <1>9 DEF WatchInv

LEMMA ChecksKeeps ==
  ASSUME WatchInv, ChecksWatch
  PROVE  WatchInv' /\ Sticks
<1>1. PICK w \in loaded :
        /\ \E verdict \in Verdicts(w) :
             watches' = [watches EXCEPT ![w.row] =
               [@ EXCEPT !.attempts = w.attempts + 1, !.status = verdict.status,
                         !.next = verdict.next]]
        /\ loaded' = loaded \ {w} /\ asking' = asking /\ lost' = lost
  BY DEF ChecksWatch
<1>2. PICK verdict \in Verdicts(w) :
        watches' = [watches EXCEPT ![w.row] =
          [@ EXCEPT !.attempts = w.attempts + 1, !.status = verdict.status,
                    !.next = verdict.next]]
  BY <1>1
<1> DEFINE i == w.row
           r == [watches[i] EXCEPT !.attempts = w.attempts + 1, !.status = verdict.status,
                                   !.next = verdict.next]
<1>3. /\ i \in DOMAIN watches /\ Pending(i)
      /\ w.attempts \in Nat /\ w.attempts < MaxChecks
  BY DEF WatchInv, LoadedOK
<1>4. watches[i] \in WatchRow /\ RowsOK
  BY <1>3, RowsFacts DEF WatchInv
<1>5. /\ verdict.status \in {"pending", "active", "expired"}
      /\ verdict.next \in {"later", "due", "never"}
      /\ verdict.status = "pending" => w.attempts + 1 < MaxChecks
  BY <1>3 DEF Verdicts, Pending
<1>6. w.attempts + 1 \in 0..MaxChecks
  BY <1>3, OrdersAssumption
<1>7. /\ r \in WatchRow /\ r.status = verdict.status /\ r.attempts = w.attempts + 1
  BY <1>4, <1>5, <1>6 DEF WatchRow
<1>8. watches' = [watches EXCEPT ![i] = r]
  BY <1>2
<1> HIDE DEF r
<1>9. /\ RowsOK' /\ DOMAIN watches' = DOMAIN watches /\ Len(watches') = Len(watches)
      /\ watches'[i] = r /\ Sticks
      /\ \A k \in DOMAIN watches : k # i => watches'[k] = watches[k]
  BY <1>3, <1>4, <1>5, <1>7, <1>8, RowWritten
<1>10. \A v \in loaded' : v \in loaded /\ v.row # i
  BY <1>1 DEF WatchInv, LoadedOK
<1>11. LoadedOK'
  BY <1>9, <1>10 DEF WatchInv, LoadedOK, Pending
<1>12. AskingOK' /\ (lost \in 0..MaxLost)'
  BY <1>1, <1>9, AskingStays
<1> QED BY <1>9, <1>11, <1>12 DEF WatchInv

LEMMA LosesKeeps ==
  ASSUME WatchInv, LosesGoroutines
  PROVE  WatchInv' /\ Sticks
<1>1. /\ watches' = watches /\ loaded' = {} /\ lost < MaxLost /\ lost' = lost + 1
      /\ asking' = [o \in Orders |->
           [asking[o] EXCEPT !.at = IF @ = "found" THEN "done" ELSE @]]
  BY DEF LosesGoroutines
<1>2. asking \in [Orders -> Asking] /\ lost \in 0..MaxLost
  BY DEF WatchInv, AskingOK
<1>3. lost' \in 0..MaxLost
  BY <1>1, <1>2, OrdersAssumption
<1>4. /\ asking' \in [Orders -> Asking]
      /\ \A o \in Orders : asking'[o].row = asking[o].row
      /\ \A o \in Orders : asking[o].at = "done" => asking'[o].at = "done"
  BY <1>1, <1>2 DEF Asking
<1>5. Registered \subseteq Registered'
  BY <1>4 DEF Registered
<1>6. Cardinality(Registered) <= Cardinality(Registered')
  BY <1>5, RegisteredGrows
<1>7. Cardinality(Registered') \in Nat
  <2>1. Registered' \in SUBSET Orders
    BY DEF Registered
  <2> QED BY <2>1, OrdersAssumption, FS_Subset, FS_CardinalityType
<1>8. Len(watches') <= Cardinality(Registered')
  BY <1>1, <1>6, <1>7, RowsFacts, RegisteredFacts DEF WatchInv, AskingOK
<1>9. AskingOK'
  BY <1>1, <1>4, <1>8 DEF WatchInv, AskingOK
<1>10. RowsOK' /\ Sticks /\ LoadedOK'
  BY <1>1 DEF WatchInv, RowsOK, Pending, Sticks, LoadedOK
<1> QED BY <1>3, <1>9, <1>10 DEF WatchInv

LEMMA WatchStep ==
  ASSUME WatchInv, [WatchNext]_watchVars
  PROVE  WatchInv' /\ Sticks
<1>1. CASE UNCHANGED watchVars
  <2>1. watches' = watches /\ asking' = asking /\ loaded' = loaded /\ lost' = lost
    BY <1>1 DEF watchVars
  <2>2. AskingOK' /\ (lost \in 0..MaxLost)'
    BY <2>1, AskingStays
  <2> QED BY <2>1, <2>2 DEF WatchInv, RowsOK, LoadedOK, Pending, Sticks
<1>2. CASE WatchNext
  BY <1>2, LooksKeeps, RegistersKeeps, FallsDueKeeps, LoadsKeeps, ChecksKeeps, LosesKeeps
     DEF WatchNext
<1> QED BY <1>1, <1>2

LEMMA WatchTypes == WatchInv => WatchTypeOK
<1> SUFFICES ASSUME WatchInv PROVE WatchTypeOK
  OBVIOUS
<1>1. /\ Len(watches) \in Nat /\ DOMAIN watches = 1..Len(watches)
      /\ \A i \in DOMAIN watches : watches[i] \in WatchRow
  BY RowsFacts DEF WatchInv
<1>2. Len(watches) <= Cardinality(Orders)
  <2>1. Len(watches) <= Cardinality(Registered)
    BY DEF WatchInv, AskingOK
  <2>2. Cardinality(Orders) \in Nat
    BY OrdersAssumption, FS_CardinalityType
  <2> QED BY <1>1, <2>1, <2>2, RegisteredFacts
<1>3. asking \in [Orders -> [at : {"none", "found", "done"}, row : {0} \cup DOMAIN watches]]
  BY DEF WatchInv, AskingOK, Asking
<1>4. loaded \subseteq [row : DOMAIN watches, attempts : 0..(MaxChecks - 1)]
  <2> SUFFICES ASSUME NEW w \in loaded
               PROVE  w \in [row : DOMAIN watches, attempts : 0..(MaxChecks - 1)]
    OBVIOUS
  <2>1. /\ w = [row |-> w.row, attempts |-> w.attempts]
        /\ w.row \in DOMAIN watches /\ w.attempts \in Nat /\ w.attempts < MaxChecks
    BY DEF WatchInv, LoadedOK
  <2>2. w.attempts \in 0..(MaxChecks - 1)
    BY <2>1, OrdersAssumption
  <2> QED BY <2>1, <2>2
<1>5. lost \in 0..MaxLost
  BY DEF WatchInv
<1> QED BY <1>1, <1>2, <1>3, <1>4, <1>5 DEF WatchTypeOK, WatchRow

LEMMA WatchAlways == WatchSpec => []WatchInv
<1>1. WatchInit => WatchInv
  BY WatchStart
<1>2. WatchInv /\ [WatchNext]_watchVars => WatchInv'
  BY WatchStep
<1> QED BY <1>1, <1>2, PTL DEF WatchSpec

\* The watches are of their types: no row for nobody, none read without a check left.
THEOREM WatchTypeCorrect == WatchSpec => []WatchTypeOK
BY WatchAlways, WatchTypes, PTL

\* A subscription that was seen stays recorded (sunnyRunPlusWatch and
\* upsertSunnyPlusWatch), whatever row a goroutine or the checker had read before.
THEOREM ArrivalsStick == WatchSpec => ArrivalSticks
<1>1. WatchInv /\ [WatchNext]_watchVars =>
        [\A i \in DOMAIN watches :
           watches[i].status = "active" => watches'[i].status = "active"]_watchVars
  BY WatchStep DEF Sticks
<1> QED BY <1>1, WatchAlways, PTL DEF WatchSpec, ArrivalSticks

-----------------------------------------------------------------------------
(***************************************************************************)
(* The four services.  They share no variable: a step of one keeps the     *)
(* invariants of the others, whatever jobs take part.                      *)
(***************************************************************************)

StoreInv == LinksInv /\ QueueAgrees /\ CountInv

ServicesInv == AgreementsInv /\ StoreInv /\ PoolInv /\ WatchInv

LEMMA StoreStep ==
  ASSUME StoreInv, [LinksNext]_linkVars
  PROVE  StoreInv'
BY LinksStep, CountStep, LinksAssumption DEF StoreInv

LEMMA ServicesStart ==
  ASSUME MCInit
  PROVE  ServicesInv
BY AgreementsStart, AgreementsAssumption, LinksStart, CountStart, InitPoolInv, WatchStart
   DEF MCInit, ServicesInv, StoreInv

LEMMA ServicesStep ==
  ASSUME ServicesInv, [MCNext]_mcVars
  PROVE  ServicesInv'
<1>1. [AgreementsNext]_agreementVars /\ [LinksNext]_linkVars
      /\ [PoolNext]_poolVars /\ [WatchNext]_watchVars
  BY DEF MCNext, PaypalSteps, CheckoutSteps, MailboxSteps, WatchSteps, mcVars
<1>2. AgreementsInv'
  BY <1>1, AgreementsStep, AgreementsAssumption DEF ServicesInv
<1>3. StoreInv'
  BY <1>1, StoreStep DEF ServicesInv
<1>4. PoolInv'
  BY <1>1, NextPoolInv DEF ServicesInv
<1>5. WatchInv'
  BY <1>1, WatchStep DEF ServicesInv
<1> QED BY <1>2, <1>3, <1>4, <1>5 DEF ServicesInv

LEMMA ServicesTypes ==
  ASSUME ServicesInv
  PROVE  ServicesTypeOK
BY AgreementsTypes, LinksTypes, WatchTypes
   DEF ServicesInv, StoreInv, PoolInv, ServicesTypeOK

\* The records, queues, leases and watches of the four services are of their
\* types, with their counters within the limits the services set.
THEOREM ServicesTypeCorrect == MCSpec => []ServicesTypeOK
<1>1. MCInit => ServicesInv
  BY ServicesStart
<1>2. ServicesInv /\ [MCNext]_mcVars => ServicesInv'
  BY ServicesStep
<1> QED BY <1>1, <1>2, ServicesTypes, PTL DEF MCSpec
=============================================================================
