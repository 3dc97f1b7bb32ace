------------------------------ MODULE PlusWatch ------------------------------
(***************************************************************************)
(* The watch for a subscription (backend/sunny_plus_watch.go).             *)
(*                                                                         *)
(* Whether the user has paid behind a payment link is learnt by asking from*)
(* time to time.  Every checkout goroutine that made a link registers a    *)
(* watch, in two statements without a transaction: it looks for a pending  *)
(* row of the account, and then restarts that row by its id or adds one.   *)
(* One goroutine checks the rows that are due, and writes each result by   *)
(* the row's id, from the row as it was read before the check.             *)
(***************************************************************************)
EXTENDS Naturals, Sequences, FiniteSets

CONSTANTS
  Orders,     \* the links made
  BuyerOf,    \* the account of each
  MaxChecks,  \* checks of a row, sunnyPlusWatchIntervals
  WatchBatch, \* rows that the checker reads at a time, sunnyPlusWatchBatch
  MaxLost     \* bound: restarts of the backend

ASSUME OrdersAssumption ==
  /\ IsFiniteSet(Orders) /\ MaxLost \in Nat
  /\ MaxChecks \in Nat \ {0} /\ WatchBatch \in Nat \ {0}

VARIABLES
  watches,   \* the table; a row's id is its place
  asking,    \* the checkout goroutines: the row each has found, 0 for none
  loaded,    \* the rows that the checker has read and has still to check
  lost       \* restarts so far

watchVars == <<watches, asking, loaded, lost>>

WatchInit ==
  /\ watches = <<>>
  /\ asking = [o \in Orders |-> [at |-> "none", row |-> 0]]
  /\ loaded = {}
  /\ lost = 0

-----------------------------------------------------------------------------

Pending(i) == watches[i].status = "pending"

\* upsertSunnyPlusWatch, its query: the newest pending row of the account.
LooksForWatch(o) ==
  LET own == {i \in DOMAIN watches : Pending(i) /\ watches[i].buyer = BuyerOf[o]}
  IN /\ asking[o].at = "none"
     /\ \E i \in own \cup {0} :
          /\ \A k \in own : k <= i
          /\ asking' = [asking EXCEPT ![o] = [at |-> "found", row |-> i]]
     /\ UNCHANGED <<watches, loaded, lost>>

NewWatch(o) == [buyer |-> BuyerOf[o], status |-> "pending", attempts |-> 0, next |-> "later"]

\* Mutant: the row that is restarted is pending again.
RegistersAfresh(o) ==
  LET i == asking[o].row IN
  /\ asking[o].at = "found"
  /\ watches' = IF i = 0 THEN Append(watches, NewWatch(o))
                ELSE [watches EXCEPT ![i] = NewWatch(o)]
  /\ asking' = [asking EXCEPT ![o].at = "done"]
  /\ UNCHANGED <<loaded, lost>>

\* Its update, which leaves the status alone, or its insert.
RegistersWatch(o) ==
  LET i == asking[o].row IN
  /\ asking[o].at = "found"
  /\ watches' = IF i = 0 THEN Append(watches, NewWatch(o))
                ELSE [watches EXCEPT ![i].attempts = 0, ![i].next = "later"]
  /\ asking' = [asking EXCEPT ![o].at = "done"]
  /\ UNCHANGED <<loaded, lost>>

\* The clock reaches next_check_at.
WatchFallsDue(i) ==
  /\ watches[i].next = "later"
  /\ watches' = [watches EXCEPT ![i].next = "due"]
  /\ UNCHANGED <<asking, loaded, lost>>

\* sunnyMaybeRunPlusWatches: the pending rows that are due, or a batch of them,
\* as they are now.
LoadsWatches ==
  LET due == {i \in DOMAIN watches : Pending(i) /\ watches[i].next = "due"}
  IN /\ loaded = {} /\ due # {}
     /\ \E batch \in SUBSET due :
          /\ \/ Cardinality(batch) = WatchBatch
             \/ batch = due /\ Cardinality(batch) <= WatchBatch
          /\ loaded' = {[row |-> i, attempts |-> watches[i].attempts] : i \in batch}
     /\ UNCHANGED <<watches, asking, lost>>

\* Mutant: after the last check nothing is due and nothing is said.
FallsSilent(w) ==
  {[status |-> "active", next |-> "never"], [status |-> "expired", next |-> "never"],
   [status |-> watches[w.row].status,
    next   |-> IF w.attempts + 1 < MaxChecks THEN "later" ELSE "never"]}

\* What a check may find: the subscription, that the deadline has passed, or
\* nothing, and then there is a next check unless it was the last.
Verdicts(w) ==
  {[status |-> "active", next |-> "never"], [status |-> "expired", next |-> "never"]}
    \cup (IF w.attempts + 1 < MaxChecks
            THEN {[status |-> watches[w.row].status, next |-> "later"]} ELSE {})

\* sunnyRunPlusWatch, for one row after the other.
ChecksWatch ==
  \E w \in loaded :
    /\ \E verdict \in Verdicts(w) :
         watches' = [watches EXCEPT ![w.row] =
           [@ EXCEPT !.attempts = w.attempts + 1, !.status = verdict.status,
                     !.next = verdict.next]]
    /\ loaded' = loaded \ {w}
    /\ UNCHANGED <<asking, lost>>

\* The backend restarts; its goroutines are gone.
LosesGoroutines ==
  /\ lost < MaxLost
  /\ lost' = lost + 1
  /\ loaded' = {}
  /\ asking' = [o \in Orders |->
       [asking[o] EXCEPT !.at = IF @ = "found" THEN "done" ELSE @]]
  /\ UNCHANGED watches

WatchNext ==
  \/ \E o \in Orders : LooksForWatch(o) \/ RegistersWatch(o)
  \/ \E i \in DOMAIN watches : WatchFallsDue(i)
  \/ LoadsWatches \/ ChecksWatch \/ LosesGoroutines

\* The clock and the checker run.
WatchClock == \E i \in DOMAIN watches : WatchFallsDue(i)
WatchFairness ==
  WF_watchVars(WatchClock) /\ WF_watchVars(LoadsWatches) /\ WF_watchVars(ChecksWatch)

WatchSpec == WatchInit /\ [][WatchNext]_watchVars /\ WatchFairness

-----------------------------------------------------------------------------
(* Properties *)

\* The type invariant.  There is a row at most for each link, and nobody reads a
\* row that has had its last check.
WatchTypeOK ==
  /\ DOMAIN watches = 1..Len(watches) /\ Len(watches) <= Cardinality(Orders)
  /\ \A i \in DOMAIN watches :
       watches[i] \in [buyer : {BuyerOf[o] : o \in Orders},
                       status : {"pending", "active", "expired"},
                       attempts : 0..MaxChecks, next : {"later", "due", "never"}]
  /\ asking \in [Orders -> [at : {"none", "found", "done"}, row : {0} \cup DOMAIN watches]]
  /\ loaded \subseteq [row : DOMAIN watches, attempts : 0..(MaxChecks - 1)]
  /\ lost \in 0..MaxLost

\* A subscription that has been seen stays recorded, although the goroutine of a
\* new link may have found the row when it was still pending.
ArrivalSticks ==
  [][\A i \in DOMAIN watches :
       watches[i].status = "active" => watches'[i].status = "active"]_watchVars

\* A watch ends: no row stays pending that nobody will check again, in spite of
\* results written over a restarted row and of restarts of the backend.
WatchEnds ==
  \A i \in 1..Cardinality(Orders) :
    i \in DOMAIN watches /\ watches[i].status = "pending"
      ~> i \in DOMAIN watches /\ watches[i].status # "pending"
=============================================================================
