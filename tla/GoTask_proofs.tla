---------------------------- MODULE GoTask_proofs ----------------------------
(***************************************************************************)
(* The safety properties of GoTask, for all sets of tasks, every number of *)
(* accounts and every bound on cancels and restarts; and that the rows of  *)
(* the checkouts implement TaskLifecycle.                                  *)
(***************************************************************************)
EXTENDS GoTask, TLAPS

(***************************************************************************)
(* Type correctness.  The counters of a task stay within Items only while  *)
(* no account is counted twice: WorkInv is proved along with TypeOK.       *)
(***************************************************************************)

Accounts(w) == w.todo + w.busy + w.ok + w.bad

WorkInv ==
  /\ \A t \in Tasks : Accounts(work[t]) <= Items
  /\ \A t \in Tasks : ~ctx[t] => Accounts(work[t]) = Items
  /\ \A t \in Tasks : pc[t] = "step" => work[t].todo > 0

TypeInv == TypeOK /\ WorkInv

LEMMA InitTypeInv == Init => TypeInv
  BY ItemsAssumption, BoundsAssumption
     DEF Init, TypeInv, TypeOK, WorkInv, Accounts, NoWork, WorkRecords, TaskStatuses,
         PCs, Tasks

\* A record of counters stays within its ranges, and counts as many accounts, when
\* one account moves from one counter to another; one fewer when it is dropped.
LEMMA Recount ==
  ASSUME NEW w \in WorkRecords, Accounts(w) <= Items
  PROVE  /\ w.todo > 0
              => LET v == Moved(w, "todo", "busy")
                 IN v \in WorkRecords /\ Accounts(v) = Accounts(w)
         /\ w.todo > 0
              => LET v == Moved(w, "todo", "ok")
                 IN v \in WorkRecords /\ Accounts(v) = Accounts(w)
         /\ w.busy > 0
              => LET v == Moved(w, "busy", "ok")
                 IN v \in WorkRecords /\ Accounts(v) = Accounts(w)
         /\ w.busy > 0
              => LET v == Moved(w, "busy", "bad")
                 IN v \in WorkRecords /\ Accounts(v) = Accounts(w)
         /\ w.todo > 0
              => LET v == Dropped(w, "todo")
                 IN v \in WorkRecords /\ Accounts(v) <= Items
         /\ w.busy > 0
              => LET v == Dropped(w, "busy")
                 IN v \in WorkRecords /\ Accounts(v) <= Items
<1> USE ItemsAssumption
<1>1. w.todo \in 0..Items /\ w.busy \in 0..Items /\ w.ok \in 0..Items /\ w.bad \in 0..Items
  BY DEF WorkRecords
<1>2. ASSUME w.todo > 0
      PROVE  LET v == Moved(w, "todo", "busy")
             IN v \in WorkRecords /\ Accounts(v) = Accounts(w)
  <2> DEFINE v == Moved(w, "todo", "busy")
  <2>1. w.todo - 1 \in 0..Items /\ w.busy + 1 \in 0..Items
    BY <1>1, <1>2 DEF Accounts
  <2>2. v \in WorkRecords
    BY <2>1 DEF WorkRecords, Moved
  <2>3. v.todo = w.todo - 1 /\ v.busy = w.busy + 1 /\ v.ok = w.ok /\ v.bad = w.bad
    BY DEF WorkRecords, Moved
  <2>4. Accounts(v) = Accounts(w)
    <3> HIDE DEF v
    <3>1. QED
      BY <1>1, <2>3 DEF Accounts
  <2>5. QED
    BY <2>2, <2>4
<1>3. ASSUME w.todo > 0
      PROVE  LET v == Moved(w, "todo", "ok")
             IN v \in WorkRecords /\ Accounts(v) = Accounts(w)
  <2> DEFINE v == Moved(w, "todo", "ok")
  <2>1. w.todo - 1 \in 0..Items /\ w.ok + 1 \in 0..Items
    BY <1>1, <1>3 DEF Accounts
  <2>2. v \in WorkRecords
    BY <2>1 DEF WorkRecords, Moved
  <2>3. v.todo = w.todo - 1 /\ v.ok = w.ok + 1 /\ v.busy = w.busy /\ v.bad = w.bad
    BY DEF WorkRecords, Moved
  <2>4. Accounts(v) = Accounts(w)
    <3> HIDE DEF v
    <3>1. QED
      BY <1>1, <2>3 DEF Accounts
  <2>5. QED
    BY <2>2, <2>4
<1>4. ASSUME w.busy > 0
      PROVE  LET v == Moved(w, "busy", "ok")
             IN v \in WorkRecords /\ Accounts(v) = Accounts(w)
  <2> DEFINE v == Moved(w, "busy", "ok")
  <2>1. w.busy - 1 \in 0..Items /\ w.ok + 1 \in 0..Items
    BY <1>1, <1>4 DEF Accounts
  <2>2. v \in WorkRecords
    BY <2>1 DEF WorkRecords, Moved
  <2>3. v.busy = w.busy - 1 /\ v.ok = w.ok + 1 /\ v.todo = w.todo /\ v.bad = w.bad
    BY DEF WorkRecords, Moved
  <2>4. Accounts(v) = Accounts(w)
    <3> HIDE DEF v
    <3>1. QED
      BY <1>1, <2>3 DEF Accounts
  <2>5. QED
    BY <2>2, <2>4
<1>5. ASSUME w.busy > 0
      PROVE  LET v == Moved(w, "busy", "bad")
             IN v \in WorkRecords /\ Accounts(v) = Accounts(w)
  <2> DEFINE v == Moved(w, "busy", "bad")
  <2>1. w.busy - 1 \in 0..Items /\ w.bad + 1 \in 0..Items
    BY <1>1, <1>5 DEF Accounts
  <2>2. v \in WorkRecords
    BY <2>1 DEF WorkRecords, Moved
  <2>3. v.busy = w.busy - 1 /\ v.bad = w.bad + 1 /\ v.todo = w.todo /\ v.ok = w.ok
    BY DEF WorkRecords, Moved
  <2>4. Accounts(v) = Accounts(w)
    <3> HIDE DEF v
    <3>1. QED
      BY <1>1, <2>3 DEF Accounts
  <2>5. QED
    BY <2>2, <2>4
<1>6. w.todo > 0 => LET v == Dropped(w, "todo")
                    IN v \in WorkRecords /\ Accounts(v) <= Items
  BY <1>1 DEF WorkRecords, Accounts, Dropped
<1>7. w.busy > 0 => LET v == Dropped(w, "busy")
                    IN v \in WorkRecords /\ Accounts(v) <= Items
  BY <1>1 DEF WorkRecords, Accounts, Dropped
<1>8. QED
  BY <1>2, <1>3, <1>4, <1>5, <1>6, <1>7

LEMMA CancelCounted ==
  ASSUME faults \in [cancels : 0..MaxCancels, restarts : 0..MaxRestarts],
         faults.cancels < MaxCancels, faults' = [faults EXCEPT !.cancels = @ + 1]
  PROVE  faults' \in [cancels : 0..MaxCancels, restarts : 0..MaxRestarts]
  BY BoundsAssumption

LEMMA RestartCounted ==
  ASSUME faults \in [cancels : 0..MaxCancels, restarts : 0..MaxRestarts],
         faults.restarts < MaxRestarts, faults' = [faults EXCEPT !.restarts = @ + 1]
  PROVE  faults' \in [cancels : 0..MaxCancels, restarts : 0..MaxRestarts]
  BY BoundsAssumption

LEMMA NextTypeInv == TypeInv /\ [Next]_vars => TypeInv'
<1> SUFFICES ASSUME TypeInv, [Next]_vars
             PROVE  TypeInv'
  OBVIOUS
<1> USE ItemsAssumption, BoundsAssumption
<1> USE DEF TypeInv, TypeOK, WorkInv, WorkRecords, TaskStatuses, PCs
<1>1. ASSUME NEW t \in Tasks, StoreCredential(t)
      PROVE  TypeInv'
  BY <1>1 DEF StoreCredential
<1>2. ASSUME NEW t \in Tasks, createTask(t)
      PROVE  TypeInv'
  <2>1. queue' = Append(queue, t) /\ batch' = batch
    BY <1>2 DEF createTask
  <2>2. queue' \in Seq(Tasks)
    BY <2>1
  <2>3. DOMAIN queue = 1..Len(queue) /\ DOMAIN queue' = 1..Len(queue')
        /\ Len(queue) \in Nat /\ Len(queue') = Len(queue) + 1
    BY <2>1, <2>2
  <2>4. batch' \subseteq DOMAIN queue'
    BY <2>1, <2>3
  <2>5. QED
    BY <1>2, <2>2, <2>4 DEF createTask, WriteStatus
<1>3. ASSUME NEW t \in Tasks, ExecutorLosesRow(t)
      PROVE  TypeInv'
  BY <1>3 DEF ExecutorLosesRow, Goto, execVars
<1>4. ASSUME NEW t \in Tasks, CheckoutStartFails(t)
      PROVE  TypeInv'
  BY <1>4 DEF CheckoutStartFails, Goto, execVars
<1>5. ASSUME NEW t \in Tasks, CheckoutStarts(t)
      PROVE  TypeInv'
  BY <1>5 DEF CheckoutStarts, Goto, WriteStatus, execVars
<1>6. ASSUME NEW t \in Tasks, CheckoutFindsCancel(t)
      PROVE  TypeInv'
  BY <1>6 DEF CheckoutFindsCancel, Goto, execVars
<1>7. ASSUME NEW t \in Tasks, CheckoutDrops(t)
      PROVE  TypeInv'
  <2>1. work[t] \in WorkRecords /\ Accounts(work[t]) <= Items
    OBVIOUS
  <2>2. \/ work[t].todo > 0 /\ work'[t] = Dropped(work[t], "todo")
        \/ work[t].busy > 0 /\ work'[t] = Dropped(work[t], "busy")
    BY <1>7 DEF CheckoutDrops
  <2>3. work'[t] \in WorkRecords /\ Accounts(work'[t]) <= Items
    <3>1. CASE work[t].todo > 0 /\ work'[t] = Dropped(work[t], "todo")
      BY <2>1, <3>1, Recount
    <3>2. CASE work[t].busy > 0 /\ work'[t] = Dropped(work[t], "busy")
      BY <2>1, <3>2, Recount
    <3>3. QED
      BY <2>2, <3>1, <3>2
  <2>4. /\ work' = [work EXCEPT ![t] = work'[t]]
        /\ \A u \in Tasks : u # t => work'[u] = work[u]
    BY <1>7 DEF CheckoutDrops
  <2>5. work' \in [Tasks -> WorkRecords]
    BY <2>3, <2>4
  <2>6. QED
    BY <1>7, <2>3, <2>4, <2>5 DEF CheckoutDrops, execVars
<1>8. ASSUME NEW t \in Tasks, CheckoutWaits(t)
      PROVE  TypeInv'
  BY <1>8 DEF CheckoutWaits, Goto, execVars
<1>9. ASSUME NEW t \in Tasks, CheckoutWrites(t)
      PROVE  TypeInv'
  BY <1>9 DEF CheckoutWrites, WriteStatus, execVars
<1>10. ASSUME NEW t \in Tasks, ProbeStarts(t)
      PROVE  TypeInv'
  BY <1>10 DEF ProbeStarts, Goto, WriteStatus, execVars
<1>11. ASSUME NEW t \in Tasks, ProbeStopsReading(t)
      PROVE  TypeInv'
  BY <1>11 DEF ProbeStopsReading, Goto, execVars
<1>12. ASSUME NEW t \in Tasks, ProbeWrites(t)
      PROVE  TypeInv'
  BY <1>12 DEF ProbeWrites, Goto, WriteStatus, execVars
<1>13. ASSUME NEW t \in Tasks, LoopChecks(t)
      PROVE  TypeInv'
  BY <1>13 DEF LoopChecks, Goto, execVars
<1>14. ASSUME NEW t \in Tasks, LoopSteps(t)
      PROVE  TypeInv'
  <2>1. work[t] \in WorkRecords /\ Accounts(work[t]) <= Items
    OBVIOUS
  <2>2. work[t].todo > 0 /\ work'[t] = Moved(work[t], "todo", "ok")
    BY <1>14 DEF LoopSteps, Goto
  <2>3. work'[t] \in WorkRecords /\ Accounts(work'[t]) = Accounts(work[t])
    BY <2>1, <2>2, Recount
  <2>4. /\ work' = [work EXCEPT ![t] = work'[t]]
        /\ \A u \in Tasks : u # t => work'[u] = work[u]
    BY <1>14 DEF LoopSteps
  <2>5. work' \in [Tasks -> WorkRecords]
    BY <2>3, <2>4
  <2>6. QED
    BY <1>14, <2>3, <2>4, <2>5 DEF LoopSteps, Goto, WriteStatus, execVars
<1>15. ASSUME NEW t \in Tasks, LoopFinishes(t)
      PROVE  TypeInv'
  BY <1>15 DEF LoopFinishes, Goto, WriteStatus, execVars
<1>16. ASSUME NEW t \in Tasks, AttemptStarts(t)
      PROVE  TypeInv'
  <2>1. work[t] \in WorkRecords /\ Accounts(work[t]) <= Items
    OBVIOUS
  <2>2. work[t].todo > 0 /\ work'[t] = Moved(work[t], "todo", "busy")
    BY <1>16 DEF AttemptStarts
  <2>3. work'[t] \in WorkRecords /\ Accounts(work'[t]) = Accounts(work[t])
    BY <2>1, <2>2, Recount
  <2>4. /\ work' = [work EXCEPT ![t] = work'[t]]
        /\ \A u \in Tasks : u # t => work'[u] = work[u]
    BY <1>16 DEF AttemptStarts
  <2>5. work' \in [Tasks -> WorkRecords]
    BY <2>3, <2>4
  <2>6. QED
    BY <1>16, <2>3, <2>4, <2>5 DEF AttemptStarts, execVars
<1>17. ASSUME NEW t \in Tasks, AttemptEnds(t)
      PROVE  TypeInv'
  <2>1. work[t] \in WorkRecords /\ Accounts(work[t]) <= Items
    OBVIOUS
  <2>2. \/ work[t].busy > 0 /\ work'[t] = Moved(work[t], "busy", "ok")
        \/ work[t].busy > 0 /\ work'[t] = Moved(work[t], "busy", "bad")
    BY <1>17 DEF AttemptEnds
  <2>3. work'[t] \in WorkRecords /\ Accounts(work'[t]) = Accounts(work[t])
    <3>1. CASE work[t].busy > 0 /\ work'[t] = Moved(work[t], "busy", "ok")
      BY <2>1, <3>1, Recount
    <3>2. CASE work[t].busy > 0 /\ work'[t] = Moved(work[t], "busy", "bad")
      BY <2>1, <3>2, Recount
    <3>3. QED
      BY <2>2, <3>1, <3>2
  <2>4. /\ work' = [work EXCEPT ![t] = work'[t]]
        /\ \A u \in Tasks : u # t => work'[u] = work[u]
    BY <1>17 DEF AttemptEnds
  <2>5. work' \in [Tasks -> WorkRecords]
    BY <2>3, <2>4
  <2>6. QED
    BY <1>17, <2>3, <2>4, <2>5 DEF AttemptEnds, execVars
<1>18. ASSUME NEW t \in Tasks, FinishReads(t)
      PROVE  TypeInv'
  BY <1>18 DEF FinishReads, Goto, execVars
<1>19. ASSUME NEW t \in Tasks, SaveCancelled(t)
      PROVE  TypeInv'
  BY <1>19 DEF SaveCancelled, Goto, WriteStatus, execVars
<1>20. ASSUME NEW t \in Tasks, ExecutorReturns(t)
      PROVE  TypeInv'
  BY <1>20 DEF ExecutorReturns, Goto, execVars
<1>21. ASSUME NEW t \in Tasks, ExecutorLeaves(t)
      PROVE  TypeInv'
  BY <1>21 DEF ExecutorLeaves, Goto
<1>22. ASSUME NEW t \in Tasks, PollCancels(t)
      PROVE  TypeInv'
  BY <1>22 DEF PollCancels, execVars
<1>23. ASSUME NEW t \in Tasks, ProbeEndsAtOnce(t)
      PROVE  TypeInv'
  BY <1>23 DEF ProbeEndsAtOnce, Goto, WriteStatus, execVars
<1>24. ASSUME NEW t \in Tasks, RiskBreaker(t)
      PROVE  TypeInv'
  BY <1>24 DEF RiskBreaker, Goto, execVars
<1>25. ASSUME NEW t \in Tasks, CancelLoads(t)
      PROVE  TypeInv'
  <2>1. faults' \in [cancels : 0..MaxCancels, restarts : 0..MaxRestarts]
    BY <1>25, CancelCounted DEF CancelLoads
  <2>2. QED
    BY <1>25, <2>1 DEF CancelLoads, cancelVars
<1>26. ASSUME NEW t \in Tasks, CancelPendingUpdate(t)
      PROVE  TypeInv'
  BY <1>26 DEF CancelPendingUpdate, WriteStatus, cancelVars, CancelPending
<1>27. ASSUME NEW t \in Tasks, CancelReleases(t)
      PROVE  TypeInv'
  BY <1>27 DEF CancelReleases, cancelVars
<1>28. ASSUME NEW t \in Tasks, CancelActiveUpdate(t)
      PROVE  TypeInv'
  BY <1>28 DEF CancelActiveUpdate, WriteStatus, cancelVars, CancelActive
<1>29. CASE dispatchPending
  BY <1>29 DEF dispatchPending, Pending
<1>30. CASE claimPendingTask
  <2>1. PICK i \in batch :
          /\ batch' = batch \ {i}
          /\ Claim(queue[i]) \/ UNCHANGED <<status, running, pc>>
          /\ UNCHANGED <<queue, secrets, up, ctx, work, stop, faults>>
    BY <1>30 DEF claimPendingTask
  <2>2. queue[i] \in Tasks
    OBVIOUS
  <2>3. QED
    BY <2>1, <2>2 DEF Claim, WriteStatus
<1>31. CASE BackendStops
  <2>1. faults' \in [cancels : 0..MaxCancels, restarts : 0..MaxRestarts]
    BY <1>31, RestartCounted DEF BackendStops
  <2>2. NoWork \in WorkRecords /\ Accounts(NoWork) = Items
    BY DEF NoWork, Accounts
  <2>3. /\ work' \in [Tasks -> WorkRecords]
        /\ \A t \in Tasks : Accounts(work'[t]) = Items /\ pc'[t] = "none"
    BY <1>31, <2>2 DEF BackendStops
  <2>4. stop' \in [Tasks -> {"idle", "pending", "active", "release"}]
    BY <1>31 DEF BackendStops
  <2>5. pc' \in [Tasks -> PCs] /\ ctx' \in [Tasks -> BOOLEAN]
    BY <1>31 DEF BackendStops
  <2>6. /\ status' = status /\ queue' = queue /\ secrets' = {} /\ running' = {}
        /\ batch' = {} /\ up' = FALSE
    BY <1>31 DEF BackendStops
  <2>7. WorkInv'
    BY <2>3
  <2>8. QED
    BY <2>1, <2>3, <2>4, <2>5, <2>6, <2>7
<1>32. CASE markInterrupted
  BY <1>32 DEF markInterrupted
<1>33. CASE UNCHANGED vars
  BY <1>33 DEF vars
<1>34. QED
  BY <1>1, <1>2, <1>3, <1>4, <1>5, <1>6, <1>7, <1>8, <1>9, <1>10, <1>11,
     <1>12, <1>13, <1>14, <1>15, <1>16, <1>17, <1>18, <1>19, <1>20, <1>21,
     <1>22, <1>23, <1>24, <1>25, <1>26, <1>27, <1>28, <1>29, <1>30, <1>31,
     <1>32, <1>33
     DEF Next, Dispatcher, TaskStep, Submit, StartFails, Executor,
         CheckoutExecutor, ProbeExecutor, LoopExecutor, CancelHandler

\* Every reachable state is type-correct: no counter leaves its range, no row
\* takes a status the API does not know.
THEOREM TypeCorrect == Spec => []TypeOK
<1>1. Spec => []TypeInv
  BY InitTypeInv, NextTypeInv, PTL DEF Spec
<1>2. QED
  BY <1>1, PTL DEF TypeInv

(***************************************************************************)
(* Rows and executors.  Where an executor is says what its row may be: *)
(* the conditional updates and the cancel handler leave a row that an      *)
(* executor still works on active, and one about to be saved as cancelled  *)
(* has asked for it.                                                       *)
(***************************************************************************)

Working == {"start", "work", "step", "finish", "write"}

ExecInv ==
  /\ ~up => batch = {} /\ \A t \in Tasks : pc[t] = "none"
  /\ \A t \in Tasks : pc[t] = "start" => status[t] \in {"claimed", "cancel_requested"}
  /\ \A t \in Tasks : pc[t] \in Working => status[t] \in Active
  /\ \A t \in Tasks : pc[t] # "none" => status[t] \notin {"absent", "pending"}
  /\ \A t \in Tasks : pc[t] = "cancel" => status[t] = "cancel_requested"
  /\ ActiveHasExecutor

LEMMA InitExecInv == Init => ExecInv
  BY DEF Init, ExecInv, ActiveHasExecutor, Working, Active

LEMMA NextExecInv == TypeOK /\ ExecInv /\ [Next]_vars => ExecInv'
<1> SUFFICES ASSUME TypeOK, ExecInv, [Next]_vars
             PROVE  ExecInv'
  OBVIOUS
<1> USE DEF TypeOK, ExecInv, ActiveHasExecutor, Working, Active, CancelSignals
<1>1. ASSUME NEW t \in Tasks, StoreCredential(t) \/ PollCancels(t) \/
             AttemptStarts(t) \/ AttemptEnds(t) \/ CheckoutDrops(t) \/
             CancelLoads(t) \/ CancelReleases(t)
      PROVE  ExecInv'
  BY <1>1 DEF StoreCredential, PollCancels, execVars, AttemptStarts,
      AttemptEnds, CheckoutDrops, CancelLoads, cancelVars, CancelReleases
<1>2. ASSUME NEW t \in Tasks, createTask(t)
      PROVE  ExecInv'
  BY <1>2 DEF createTask, WriteStatus
<1>3. ASSUME NEW t \in Tasks, ExecutorLosesRow(t)
      PROVE  ExecInv'
  BY <1>3 DEF ExecutorLosesRow, Goto, execVars
<1>4. ASSUME NEW t \in Tasks, CheckoutStartFails(t)
      PROVE  ExecInv'
  BY <1>4 DEF CheckoutStartFails, Goto, execVars
<1>5. ASSUME NEW t \in Tasks, CheckoutStarts(t)
      PROVE  ExecInv'
  BY <1>5 DEF CheckoutStarts, Goto, WriteStatus, execVars
<1>6. ASSUME NEW t \in Tasks, CheckoutFindsCancel(t)
      PROVE  ExecInv'
  BY <1>6 DEF CheckoutFindsCancel, Goto, execVars
<1>7. ASSUME NEW t \in Tasks, CheckoutWaits(t)
      PROVE  ExecInv'
  BY <1>7 DEF CheckoutWaits, Goto, execVars
<1>8. ASSUME NEW t \in Tasks, CheckoutWrites(t)
      PROVE  ExecInv'
  BY <1>8 DEF CheckoutWrites, WriteStatus, execVars
<1>9. ASSUME NEW t \in Tasks, ProbeStarts(t)
      PROVE  ExecInv'
  BY <1>9 DEF ProbeStarts, Goto, WriteStatus, execVars
<1>10. ASSUME NEW t \in Tasks, ProbeStopsReading(t)
      PROVE  ExecInv'
  BY <1>10 DEF ProbeStopsReading, Goto, execVars
<1>11. ASSUME NEW t \in Tasks, ProbeWrites(t)
      PROVE  ExecInv'
  BY <1>11 DEF ProbeWrites, Goto, WriteStatus, execVars
<1>12. ASSUME NEW t \in Tasks, LoopChecks(t)
      PROVE  ExecInv'
  BY <1>12 DEF LoopChecks, Goto, execVars
<1>13. ASSUME NEW t \in Tasks, LoopSteps(t)
      PROVE  ExecInv'
  BY <1>13 DEF LoopSteps, Goto, WriteStatus, execVars
<1>14. ASSUME NEW t \in Tasks, LoopFinishes(t)
      PROVE  ExecInv'
  BY <1>14 DEF LoopFinishes, Goto, WriteStatus, execVars
<1>15. ASSUME NEW t \in Tasks, FinishReads(t)
      PROVE  ExecInv'
  BY <1>15 DEF FinishReads, Goto, execVars
<1>16. ASSUME NEW t \in Tasks, SaveCancelled(t)
      PROVE  ExecInv'
  BY <1>16 DEF SaveCancelled, Goto, WriteStatus, execVars
<1>17. ASSUME NEW t \in Tasks, ExecutorReturns(t)
      PROVE  ExecInv'
  BY <1>17 DEF ExecutorReturns, Goto, execVars
<1>18. ASSUME NEW t \in Tasks, ExecutorLeaves(t)
      PROVE  ExecInv'
  BY <1>18 DEF ExecutorLeaves, Goto
<1>19. ASSUME NEW t \in Tasks, ProbeEndsAtOnce(t)
      PROVE  ExecInv'
  BY <1>19 DEF ProbeEndsAtOnce, Goto, WriteStatus, execVars
<1>20. ASSUME NEW t \in Tasks, RiskBreaker(t)
      PROVE  ExecInv'
  BY <1>20 DEF RiskBreaker, Goto, execVars
<1>21. ASSUME NEW t \in Tasks, CancelPendingUpdate(t)
      PROVE  ExecInv'
  BY <1>21 DEF CancelPendingUpdate, WriteStatus, cancelVars, CancelPending
<1>22. ASSUME NEW t \in Tasks, CancelActiveUpdate(t)
      PROVE  ExecInv'
  BY <1>22 DEF CancelActiveUpdate, WriteStatus, cancelVars, CancelActive
<1>23. CASE dispatchPending
  BY <1>23 DEF dispatchPending, Pending
<1>24. CASE claimPendingTask
  <2>1. PICK i \in batch :
          /\ \/ status[queue[i]] = "pending" /\ Claim(queue[i])
             \/ UNCHANGED <<status, running, pc>>
          /\ batch' = batch \ {i}
          /\ UNCHANGED <<queue, secrets, up, ctx, work, stop, faults>>
    BY <1>24 DEF claimPendingTask
  <2>2. queue[i] \in Tasks
    OBVIOUS
  <2>3. QED
    BY <2>1, <2>2 DEF Claim, WriteStatus
<1>25. CASE BackendStops
  BY <1>25 DEF BackendStops
<1>26. CASE markInterrupted
  BY <1>26 DEF markInterrupted, Unfinished
<1>27. CASE UNCHANGED vars
  BY <1>27 DEF vars
<1>28. QED
  BY <1>1, <1>2, <1>3, <1>4, <1>5, <1>6, <1>7, <1>8, <1>9, <1>10, <1>11,
     <1>12, <1>13, <1>14, <1>15, <1>16, <1>17, <1>18, <1>19, <1>20, <1>21,
     <1>22, <1>23, <1>24, <1>25, <1>26, <1>27
     DEF Next, Dispatcher, TaskStep, Submit, StartFails, Executor,
         CheckoutExecutor, ProbeExecutor, LoopExecutor, CancelHandler

\* A finished row is never written again.
LEMMA StepKeepsFinished ==
  TypeOK /\ ExecInv /\ [Next]_vars
    => \A t \in Tasks : status[t] \in terminalTaskStatuses => status'[t] = status[t]
<1> SUFFICES ASSUME TypeOK, ExecInv, [Next]_vars
             PROVE  \A u \in Tasks : status[u] \in terminalTaskStatuses => status'[u] = status[u]
  OBVIOUS
<1> USE DEF TypeOK, ExecInv, Working, Active, terminalTaskStatuses, TaskStatuses
<1>1. ASSUME NEW t \in Tasks, StoreCredential(t) \/ ExecutorLosesRow(t) \/
             CheckoutStartFails(t) \/ CheckoutFindsCancel(t) \/
             CheckoutDrops(t) \/ CheckoutWaits(t) \/
             ProbeStopsReading(t) \/ LoopChecks(t) \/ AttemptStarts(t) \/
             AttemptEnds(t) \/ FinishReads(t) \/ ExecutorReturns(t) \/
             ExecutorLeaves(t) \/ PollCancels(t) \/ RiskBreaker(t) \/
             CancelLoads(t) \/ CancelReleases(t)
      PROVE  \A u \in Tasks : status[u] \in terminalTaskStatuses => status'[u] = status[u]
  BY <1>1 DEF StoreCredential, ExecutorLosesRow, Goto, execVars,
      CheckoutStartFails, CheckoutFindsCancel, CheckoutDrops, CheckoutWaits,
      ProbeStopsReading, LoopChecks, AttemptStarts, AttemptEnds, FinishReads,
      ExecutorReturns, ExecutorLeaves, PollCancels, RiskBreaker, CancelLoads,
      cancelVars, CancelReleases
<1>2. ASSUME NEW t \in Tasks, createTask(t)
      PROVE  \A u \in Tasks : status[u] \in terminalTaskStatuses => status'[u] = status[u]
  BY <1>2 DEF createTask, WriteStatus
<1>3. ASSUME NEW t \in Tasks, CheckoutStarts(t)
      PROVE  \A u \in Tasks : status[u] \in terminalTaskStatuses => status'[u] = status[u]
  BY <1>3 DEF CheckoutStarts, Goto, WriteStatus, execVars
<1>4. ASSUME NEW t \in Tasks, CheckoutWrites(t)
      PROVE  \A u \in Tasks : status[u] \in terminalTaskStatuses => status'[u] = status[u]
  BY <1>4 DEF CheckoutWrites, WriteStatus, execVars
<1>5. ASSUME NEW t \in Tasks, ProbeStarts(t)
      PROVE  \A u \in Tasks : status[u] \in terminalTaskStatuses => status'[u] = status[u]
  BY <1>5 DEF ProbeStarts, Goto, WriteStatus, execVars
<1>6. ASSUME NEW t \in Tasks, ProbeWrites(t)
      PROVE  \A u \in Tasks : status[u] \in terminalTaskStatuses => status'[u] = status[u]
  BY <1>6 DEF ProbeWrites, Goto, WriteStatus, execVars
<1>7. ASSUME NEW t \in Tasks, LoopSteps(t)
      PROVE  \A u \in Tasks : status[u] \in terminalTaskStatuses => status'[u] = status[u]
  BY <1>7 DEF LoopSteps, Goto, WriteStatus, execVars
<1>8. ASSUME NEW t \in Tasks, LoopFinishes(t)
      PROVE  \A u \in Tasks : status[u] \in terminalTaskStatuses => status'[u] = status[u]
  BY <1>8 DEF LoopFinishes, Goto, WriteStatus, execVars
<1>9. ASSUME NEW t \in Tasks, SaveCancelled(t)
      PROVE  \A u \in Tasks : status[u] \in terminalTaskStatuses => status'[u] = status[u]
  BY <1>9 DEF SaveCancelled, Goto, WriteStatus, execVars
<1>10. ASSUME NEW t \in Tasks, ProbeEndsAtOnce(t)
      PROVE  \A u \in Tasks : status[u] \in terminalTaskStatuses => status'[u] = status[u]
  BY <1>10 DEF ProbeEndsAtOnce, Goto, WriteStatus, execVars
<1>11. ASSUME NEW t \in Tasks, CancelPendingUpdate(t)
      PROVE  \A u \in Tasks : status[u] \in terminalTaskStatuses => status'[u] = status[u]
  BY <1>11 DEF CancelPendingUpdate, WriteStatus, cancelVars, CancelPending
<1>12. ASSUME NEW t \in Tasks, CancelActiveUpdate(t)
      PROVE  \A u \in Tasks : status[u] \in terminalTaskStatuses => status'[u] = status[u]
  BY <1>12 DEF CancelActiveUpdate, WriteStatus, cancelVars, CancelActive
<1>13. CASE dispatchPending
  BY <1>13 DEF dispatchPending, Pending
<1>14. CASE claimPendingTask
  <2>1. PICK i \in batch :
          /\ \/ status[queue[i]] = "pending" /\ Claim(queue[i])
             \/ UNCHANGED <<status, running, pc>>
          /\ batch' = batch \ {i}
          /\ UNCHANGED <<queue, secrets, up, ctx, work, stop, faults>>
    BY <1>14 DEF claimPendingTask
  <2>2. queue[i] \in Tasks
    OBVIOUS
  <2>3. QED
    BY <2>1, <2>2 DEF Claim, WriteStatus
<1>15. CASE BackendStops
  BY <1>15 DEF BackendStops
<1>16. CASE markInterrupted
  BY <1>16 DEF markInterrupted, Unfinished
<1>17. CASE UNCHANGED vars
  BY <1>17 DEF vars
<1>18. QED
  BY <1>1, <1>2, <1>3, <1>4, <1>5, <1>6, <1>7, <1>8, <1>9, <1>10, <1>11,
     <1>12, <1>13, <1>14, <1>15, <1>16, <1>17
     DEF Next, Dispatcher, TaskStep, Submit, StartFails, Executor,
         CheckoutExecutor, ProbeExecutor, LoopExecutor, CancelHandler

\* Every row that is active has an executor that will still write it, whatever
\* the dispatcher, the cancel handler and a restart did before.
THEOREM ActiveAlwaysHasExecutor == Spec => []ActiveHasExecutor
<1>1. Spec => [](TypeOK /\ ExecInv)
  BY TypeCorrect, InitExecInv, NextExecInv, PTL DEF Spec
<1>2. QED
  BY <1>1, PTL DEF ExecInv

\* No late claim, executor or cancel changes a finished row.
THEOREM FinishedRowsStay == Spec => TerminalStays
<1>1. Spec => [](TypeOK /\ ExecInv)
  BY TypeCorrect, InitExecInv, NextExecInv, PTL DEF Spec
<1>2. TypeOK /\ ExecInv /\ [Next]_vars
        => [\A t \in Tasks : status[t] \in terminalTaskStatuses
                              => status'[t] = status[t]]_vars
  BY StepKeepsFinished
<1>3. QED
  BY <1>1, <1>2, PTL DEF Spec, TerminalStays

(***************************************************************************)
(* The tokens of a checkout.  A row that waits to be claimed has them, and *)
(* a cancel handler about to release them has ended the row.               *)
(***************************************************************************)

SecretInv ==
  /\ ~up => secrets = {} /\ \A t \in Tasks : stop[t] = "idle"
  /\ \A t \in Checkouts : up /\ status[t] = "pending" => t \in secrets
  /\ \A t \in Checkouts : stop[t] = "release" => status[t] = "cancelled"
  /\ SecretHeld
  /\ SecretEnds

LEMMA InitSecretInv == Init => SecretInv
  BY DEF Init, SecretInv, SecretHeld, SecretEnds, terminalTaskStatuses, Tasks

LEMMA NextSecretInv == TypeOK /\ ExecInv /\ SecretInv /\ [Next]_vars => SecretInv'
<1> SUFFICES ASSUME TypeOK, ExecInv, SecretInv, [Next]_vars
             PROVE  SecretInv'
  OBVIOUS
<1> USE DEF Tasks
<1> USE DEF TypeOK, ExecInv, Working, Active, SecretInv, SecretHeld, SecretEnds,
            terminalTaskStatuses
<1>1. ASSUME NEW t \in Tasks, PollCancels(t) \/ AttemptStarts(t) \/
             AttemptEnds(t) \/ CheckoutDrops(t)
      PROVE  SecretInv'
  BY <1>1 DEF PollCancels, execVars, AttemptStarts, AttemptEnds, CheckoutDrops
<1>2. ASSUME NEW t \in Tasks, StoreCredential(t)
      PROVE  SecretInv'
  BY <1>2 DEF StoreCredential
<1>3. ASSUME NEW t \in Tasks, createTask(t)
      PROVE  SecretInv'
  BY <1>3 DEF createTask, WriteStatus
<1>4. ASSUME NEW t \in Tasks, ExecutorLosesRow(t)
      PROVE  SecretInv'
  BY <1>4 DEF ExecutorLosesRow, Goto, execVars
<1>5. ASSUME NEW t \in Tasks, CheckoutStartFails(t)
      PROVE  SecretInv'
  BY <1>5 DEF CheckoutStartFails, Goto, execVars
<1>6. ASSUME NEW t \in Tasks, CheckoutStarts(t)
      PROVE  SecretInv'
  BY <1>6 DEF CheckoutStarts, Goto, WriteStatus, execVars
<1>7. ASSUME NEW t \in Tasks, CheckoutFindsCancel(t)
      PROVE  SecretInv'
  BY <1>7 DEF CheckoutFindsCancel, Goto, execVars
<1>8. ASSUME NEW t \in Tasks, CheckoutWaits(t)
      PROVE  SecretInv'
  BY <1>8 DEF CheckoutWaits, Goto, execVars
<1>9. ASSUME NEW t \in Tasks, CheckoutWrites(t)
      PROVE  SecretInv'
  BY <1>9 DEF CheckoutWrites, WriteStatus, execVars
<1>10. ASSUME NEW t \in Tasks, ProbeStarts(t)
      PROVE  SecretInv'
  BY <1>10 DEF ProbeStarts, Goto, WriteStatus, execVars
<1>11. ASSUME NEW t \in Tasks, ProbeStopsReading(t)
      PROVE  SecretInv'
  BY <1>11 DEF ProbeStopsReading, Goto, execVars
<1>12. ASSUME NEW t \in Tasks, ProbeWrites(t)
      PROVE  SecretInv'
  BY <1>12 DEF ProbeWrites, Goto, WriteStatus, execVars
<1>13. ASSUME NEW t \in Tasks, LoopChecks(t)
      PROVE  SecretInv'
  BY <1>13 DEF LoopChecks, Goto, execVars
<1>14. ASSUME NEW t \in Tasks, LoopSteps(t)
      PROVE  SecretInv'
  BY <1>14, KindsAssumption DEF LoopSteps, Goto, WriteStatus, execVars
<1>15. ASSUME NEW t \in Tasks, LoopFinishes(t)
      PROVE  SecretInv'
  BY <1>15 DEF LoopFinishes, Goto, WriteStatus, execVars
<1>16. ASSUME NEW t \in Tasks, FinishReads(t)
      PROVE  SecretInv'
  BY <1>16 DEF FinishReads, Goto, execVars
<1>17. ASSUME NEW t \in Tasks, SaveCancelled(t)
      PROVE  SecretInv'
  BY <1>17 DEF SaveCancelled, Goto, WriteStatus, execVars
<1>18. ASSUME NEW t \in Tasks, ExecutorReturns(t)
      PROVE  SecretInv'
  BY <1>18 DEF ExecutorReturns, Goto, execVars
<1>19. ASSUME NEW t \in Tasks, ExecutorLeaves(t)
      PROVE  SecretInv'
  BY <1>19 DEF ExecutorLeaves, Goto
<1>20. ASSUME NEW t \in Tasks, ProbeEndsAtOnce(t)
      PROVE  SecretInv'
  BY <1>20 DEF ProbeEndsAtOnce, Goto, WriteStatus, execVars
<1>21. ASSUME NEW t \in Tasks, RiskBreaker(t)
      PROVE  SecretInv'
  BY <1>21 DEF RiskBreaker, Goto, execVars
<1>22. ASSUME NEW t \in Tasks, CancelLoads(t)
      PROVE  SecretInv'
  BY <1>22 DEF CancelLoads, cancelVars
<1>23. ASSUME NEW t \in Tasks, CancelPendingUpdate(t)
      PROVE  SecretInv'
  BY <1>23 DEF CancelPendingUpdate, WriteStatus, cancelVars, CancelPending
<1>24. ASSUME NEW t \in Tasks, CancelReleases(t)
      PROVE  SecretInv'
  BY <1>24 DEF CancelReleases, cancelVars
<1>25. ASSUME NEW t \in Tasks, CancelActiveUpdate(t)
      PROVE  SecretInv'
  BY <1>25 DEF CancelActiveUpdate, WriteStatus, cancelVars, CancelActive
<1>26. CASE dispatchPending
  BY <1>26 DEF dispatchPending, Pending
<1>27. CASE claimPendingTask
  <2>1. PICK i \in batch :
          /\ \/ status[queue[i]] = "pending" /\ Claim(queue[i])
             \/ UNCHANGED <<status, running, pc>>
          /\ batch' = batch \ {i}
          /\ UNCHANGED <<queue, secrets, up, ctx, work, stop, faults>>
    BY <1>27 DEF claimPendingTask
  <2>2. queue[i] \in Tasks
    OBVIOUS
  <2>3. QED
    BY <2>1, <2>2 DEF Claim, WriteStatus
<1>28. CASE BackendStops
  BY <1>28 DEF BackendStops
<1>29. CASE markInterrupted
  BY <1>29 DEF markInterrupted, Unfinished
<1>30. CASE UNCHANGED vars
  BY <1>30 DEF vars
<1>31. QED
  BY <1>1, <1>2, <1>3, <1>4, <1>5, <1>6, <1>7, <1>8, <1>9, <1>10, <1>11,
     <1>12, <1>13, <1>14, <1>15, <1>16, <1>17, <1>18, <1>19, <1>20, <1>21,
     <1>22, <1>23, <1>24, <1>25, <1>26, <1>27, <1>28, <1>29, <1>30
     DEF Next, Dispatcher, TaskStep, Submit, StartFails, Executor,
         CheckoutExecutor, ProbeExecutor, LoopExecutor, CancelHandler

\* An executor that may still hand a token to an attempt has its tokens.
THEOREM SecretsAlwaysHeld == Spec => []SecretHeld
<1>1. Spec => [](TypeOK /\ ExecInv /\ SecretInv)
  BY TypeCorrect, InitExecInv, NextExecInv, InitSecretInv, NextSecretInv, PTL DEF Spec
<1>2. QED
  BY <1>1, PTL DEF SecretInv

\* No token outlives its task in memory.
THEOREM SecretsAlwaysEnd == Spec => []SecretEnds
<1>1. Spec => [](TypeOK /\ ExecInv /\ SecretInv)
  BY TypeCorrect, InitExecInv, NextExecInv, InitSecretInv, NextSecretInv, PTL DEF Spec
<1>2. QED
  BY <1>1, PTL DEF SecretInv

(***************************************************************************)
(* The outcome of a checkout.  Its context is cancelled only after its row *)
(* was asked to stop, so a row that may still be completed has lost no     *)
(* result.                                                                 *)
(***************************************************************************)

ResultInv ==
  /\ \A t \in Checkouts : pc[t] = "none" => ~ctx[t]
  /\ \A t \in Checkouts :
       pc[t] \in Working /\ ctx[t] => status[t] = "cancel_requested"
  /\ \A t \in Checkouts :
       pc[t] \in {"finish", "write"} => work[t].todo = 0 /\ work[t].busy = 0
  /\ CheckoutResult

LEMMA InitResultInv == Init => ResultInv
  BY DEF Init, ResultInv, CheckoutResult, Working, Tasks

LEMMA NextResultInv ==
  TypeOK /\ WorkInv /\ ExecInv /\ ResultInv /\ [Next]_vars => ResultInv'
<1> SUFFICES ASSUME TypeOK, WorkInv, ExecInv, ResultInv, [Next]_vars
             PROVE  ResultInv'
  OBVIOUS
<1> USE KindsAssumption, ItemsAssumption
<1> USE DEF TypeOK, ExecInv, Working, Active, CancelSignals, ResultInv, CheckoutResult, Tasks
<1>1. ASSUME NEW t \in Tasks, StoreCredential(t) \/ CancelLoads(t) \/
             CancelReleases(t)
      PROVE  ResultInv'
  BY <1>1 DEF StoreCredential, CancelLoads, cancelVars, CancelReleases
<1>2. ASSUME NEW t \in Tasks, createTask(t)
      PROVE  ResultInv'
  BY <1>2 DEF createTask, WriteStatus
<1>3. ASSUME NEW t \in Tasks, ExecutorLosesRow(t)
      PROVE  ResultInv'
  BY <1>3 DEF ExecutorLosesRow, Goto, execVars
<1>4. ASSUME NEW t \in Tasks, CheckoutStartFails(t)
      PROVE  ResultInv'
  BY <1>4 DEF CheckoutStartFails, Goto, execVars
<1>5. ASSUME NEW t \in Tasks, CheckoutStarts(t)
      PROVE  ResultInv'
  BY <1>5 DEF CheckoutStarts, Goto, WriteStatus, execVars
<1>6. ASSUME NEW t \in Tasks, CheckoutFindsCancel(t)
      PROVE  ResultInv'
  BY <1>6 DEF CheckoutFindsCancel, Goto, execVars
<1>7. ASSUME NEW t \in Tasks, CheckoutDrops(t)
      PROVE  ResultInv'
  BY <1>7 DEF CheckoutDrops, execVars
<1>8. ASSUME NEW t \in Tasks, CheckoutWaits(t)
      PROVE  ResultInv'
  BY <1>8 DEF CheckoutWaits, Goto, execVars
<1>9. ASSUME NEW t \in Tasks, CheckoutWrites(t)
      PROVE  ResultInv'
  <2>1. work[t].todo = 0 /\ work[t].busy = 0
    BY <1>9 DEF CheckoutWrites
  <2>2. CASE status[t] \in {"claimed", "running"}
    <3>1. ~ctx[t]
      BY <2>2, <1>9 DEF CheckoutWrites
    <3>2. Accounts(work[t]) = Items
      BY <3>1 DEF WorkInv
    <3>3. work[t].ok \in 0..Items /\ work[t].bad \in 0..Items
      BY DEF WorkRecords
    <3>4. work[t].ok + work[t].bad = Items
      BY <2>1, <3>2, <3>3 DEF Accounts
    <3>5. work[t].ok # 0 => work[t].ok > 0
      BY <3>3
    <3>6. work[t].ok = 0 => work[t].bad = Items
      BY <3>3, <3>4
    <3>7. status' = [status EXCEPT ![t] = IF work[t].ok = 0 THEN "failed" ELSE "succeeded"]
      BY <2>2, <1>9 DEF CheckoutWrites, WriteStatus
    <3>8. QED
      BY <2>1, <2>2, <3>4, <3>5, <3>6, <3>7, <1>9 DEF CheckoutWrites, execVars
  <2>3. CASE status[t] \notin {"claimed", "running"}
    BY <2>1, <2>3, <1>9 DEF CheckoutWrites, execVars
  <2>4. QED
    BY <2>2, <2>3
<1>10. ASSUME NEW t \in Tasks, ProbeStarts(t)
      PROVE  ResultInv'
  BY <1>10 DEF ProbeStarts, Goto, WriteStatus, execVars
<1>11. ASSUME NEW t \in Tasks, ProbeStopsReading(t)
      PROVE  ResultInv'
  BY <1>11 DEF ProbeStopsReading, Goto, execVars
<1>12. ASSUME NEW t \in Tasks, ProbeWrites(t)
      PROVE  ResultInv'
  BY <1>12 DEF ProbeWrites, Goto, WriteStatus, execVars
<1>13. ASSUME NEW t \in Tasks, LoopChecks(t)
      PROVE  ResultInv'
  BY <1>13 DEF LoopChecks, Goto, execVars
<1>14. ASSUME NEW t \in Tasks, LoopSteps(t)
      PROVE  ResultInv'
  BY <1>14 DEF LoopSteps, Goto, WriteStatus, execVars
<1>15. ASSUME NEW t \in Tasks, LoopFinishes(t)
      PROVE  ResultInv'
  BY <1>15 DEF LoopFinishes, Goto, WriteStatus, execVars
<1>16. ASSUME NEW t \in Tasks, AttemptStarts(t)
      PROVE  ResultInv'
  BY <1>16 DEF AttemptStarts, execVars
<1>17. ASSUME NEW t \in Tasks, AttemptEnds(t)
      PROVE  ResultInv'
  BY <1>17 DEF AttemptEnds, execVars
<1>18. ASSUME NEW t \in Tasks, FinishReads(t)
      PROVE  ResultInv'
  BY <1>18 DEF FinishReads, Goto, execVars
<1>19. ASSUME NEW t \in Tasks, SaveCancelled(t)
      PROVE  ResultInv'
  BY <1>19 DEF SaveCancelled, Goto, WriteStatus, execVars
<1>20. ASSUME NEW t \in Tasks, ExecutorReturns(t)
      PROVE  ResultInv'
  BY <1>20 DEF ExecutorReturns, Goto, execVars
<1>21. ASSUME NEW t \in Tasks, ExecutorLeaves(t)
      PROVE  ResultInv'
  BY <1>21 DEF ExecutorLeaves, Goto
<1>22. ASSUME NEW t \in Tasks, PollCancels(t)
      PROVE  ResultInv'
  BY <1>22 DEF PollCancels, execVars
<1>23. ASSUME NEW t \in Tasks, ProbeEndsAtOnce(t)
      PROVE  ResultInv'
  BY <1>23 DEF ProbeEndsAtOnce, Goto, WriteStatus, execVars
<1>24. ASSUME NEW t \in Tasks, RiskBreaker(t)
      PROVE  ResultInv'
  BY <1>24 DEF RiskBreaker, Goto, execVars
<1>25. ASSUME NEW t \in Tasks, CancelPendingUpdate(t)
      PROVE  ResultInv'
  BY <1>25 DEF CancelPendingUpdate, WriteStatus, cancelVars, CancelPending
<1>26. ASSUME NEW t \in Tasks, CancelActiveUpdate(t)
      PROVE  ResultInv'
  BY <1>26 DEF CancelActiveUpdate, WriteStatus, cancelVars, CancelActive
<1>27. CASE dispatchPending
  BY <1>27 DEF dispatchPending, Pending
<1>28. CASE claimPendingTask
  <2>1. PICK i \in batch :
          /\ \/ status[queue[i]] = "pending" /\ Claim(queue[i])
             \/ UNCHANGED <<status, running, pc>>
          /\ batch' = batch \ {i}
          /\ UNCHANGED <<queue, secrets, up, ctx, work, stop, faults>>
    BY <1>28 DEF claimPendingTask
  <2>2. queue[i] \in Tasks
    OBVIOUS
  <2>3. QED
    BY <2>1, <2>2 DEF Claim, WriteStatus
<1>29. CASE BackendStops
  BY <1>29 DEF BackendStops
<1>30. CASE markInterrupted
  BY <1>30 DEF markInterrupted, Unfinished
<1>31. CASE UNCHANGED vars
  BY <1>31 DEF vars
<1>32. QED
  BY <1>1, <1>2, <1>3, <1>4, <1>5, <1>6, <1>7, <1>8, <1>9, <1>10, <1>11,
     <1>12, <1>13, <1>14, <1>15, <1>16, <1>17, <1>18, <1>19, <1>20, <1>21,
     <1>22, <1>23, <1>24, <1>25, <1>26, <1>27, <1>28, <1>29, <1>30, <1>31
     DEF Next, Dispatcher, TaskStep, Submit, StartFails, Executor,
         CheckoutExecutor, ProbeExecutor, LoopExecutor, CancelHandler

\* A checkout that reports success has the result of every account, and one that
\* reports failure has only failures.
THEOREM CheckoutsAlwaysAddUp == Spec => []CheckoutResult
<1>1. Spec => [](TypeInv /\ ExecInv)
  BY InitTypeInv, NextTypeInv, InitExecInv, NextExecInv, PTL DEF Spec, TypeInv
<1>2. Spec => []ResultInv
  BY <1>1, InitResultInv, NextResultInv, PTL DEF Spec, TypeInv
<1>3. QED
  BY <1>2, PTL DEF ResultInv

(***************************************************************************)
(* The rows of the checkouts follow TaskLifecycle: a write to one row is a *)
(* write to its phase; ExecInv says which phase each write starts from.    *)
(***************************************************************************)

\* Writing a status writes its phase when the row is a checkout's.
LEMMA PhaseWritten ==
  ASSUME TypeOK, NEW t \in Tasks, NEW s, WriteStatus(t, s)
  PROVE  /\ t \in Checkouts
              => checkoutPhase' = [checkoutPhase EXCEPT ![t] = Phase(s)]
         /\ t \notin Checkouts => checkoutPhase' = checkoutPhase
  BY DEF TypeOK, WriteStatus, checkoutPhase, Tasks

\* A write that keeps the phase is a stutter.
LEMMA PhaseKept ==
  ASSUME TypeOK, NEW t \in Tasks, NEW s, WriteStatus(t, s), Phase(s) = Phase(status[t])
  PROVE  checkoutPhase' = checkoutPhase
<1>1. checkoutPhase[t] = Phase(s) \/ t \notin Checkouts
  BY DEF checkoutPhase
<1>2. QED
  BY <1>1, PhaseWritten DEF checkoutPhase

LEMMA StepFollowsLifecycle ==
  TypeOK /\ ExecInv /\ [Next]_vars
    => [Lifecycle!Next]_checkoutPhase
<1> SUFFICES ASSUME TypeOK, ExecInv, [Next]_vars
             PROVE  [Lifecycle!Next]_checkoutPhase
  OBVIOUS
<1>1. ASSUME NEW t \in Tasks, StoreCredential(t) \/ ExecutorLosesRow(t) \/
             CheckoutStartFails(t) \/ CheckoutFindsCancel(t) \/
             CheckoutDrops(t) \/ CheckoutWaits(t) \/
             ProbeStopsReading(t) \/ LoopChecks(t) \/ AttemptStarts(t) \/
             AttemptEnds(t) \/ FinishReads(t) \/ ExecutorReturns(t) \/
             ExecutorLeaves(t) \/ PollCancels(t) \/ RiskBreaker(t) \/
             CancelLoads(t) \/ CancelReleases(t)
      PROVE  [Lifecycle!Next]_checkoutPhase
  BY <1>1 DEF StoreCredential, ExecutorLosesRow, Goto, execVars,
      CheckoutStartFails, CheckoutFindsCancel, CheckoutDrops, CheckoutWaits,
      ProbeStopsReading, LoopChecks, AttemptStarts, AttemptEnds, FinishReads,
      ExecutorReturns, ExecutorLeaves, PollCancels, RiskBreaker, CancelLoads,
      cancelVars, CancelReleases,
      checkoutPhase
<1>2. ASSUME NEW t \in Tasks, createTask(t)
      PROVE  [Lifecycle!Next]_checkoutPhase
  <2>1. WriteStatus(t, "pending") /\ status[t] = "absent"
    BY <1>2 DEF createTask
  <2>2. CASE t \in Checkouts
    <3>1. Lifecycle!Submit(t)
      BY <2>1, <2>2, PhaseWritten DEF Lifecycle!Submit, checkoutPhase, Phase
    <3>2. QED
      BY <2>2, <3>1 DEF Lifecycle!Next
  <2>3. CASE t \notin Checkouts
    BY <2>1, <2>3, PhaseWritten
  <2>4. QED
    BY <2>2, <2>3
<1>3. ASSUME NEW t \in Tasks, CheckoutStarts(t)
      PROVE  [Lifecycle!Next]_checkoutPhase
  <2>1. WriteStatus(t, "running") /\ status[t] = "claimed"
    BY <1>3 DEF CheckoutStarts
  <2>2. QED
    BY <2>1, PhaseKept DEF Phase
<1>4. ASSUME NEW t \in Tasks, CheckoutWrites(t)
      PROVE  [Lifecycle!Next]_checkoutPhase
  <2>1. CASE status[t] \in {"claimed", "running"}
    <3>1. t \in Checkouts /\ checkoutPhase[t] = "active"
      BY <2>1, <1>4 DEF CheckoutWrites, checkoutPhase, Phase
    <3>2. PICK end \in {"failed", "succeeded"} : WriteStatus(t, end)
      BY <2>1, <1>4 DEF CheckoutWrites
    <3>3. Phase(end) = end
      BY DEF Phase
    <3>4. checkoutPhase' = [checkoutPhase EXCEPT ![t] = end]
      BY <3>1, <3>2, <3>3, PhaseWritten
    <3>5. Lifecycle!End(t)
      BY <3>1, <3>4 DEF Lifecycle!End, Lifecycle!Outcomes
    <3>6. QED
      BY <3>1, <3>5 DEF Lifecycle!Next
  <2>2. CASE status[t] \notin {"claimed", "running"}
    BY <2>2, <1>4 DEF CheckoutWrites, checkoutPhase
  <2>3. QED
    BY <2>1, <2>2
<1>5. ASSUME NEW t \in Tasks, ProbeStarts(t)
      PROVE  [Lifecycle!Next]_checkoutPhase
  <2>1. t \notin Checkouts /\ \E s \in TaskStatuses : WriteStatus(t, s)
    BY <1>5, KindsAssumption DEF ProbeStarts, TaskStatuses
  <2>2. QED
    BY <2>1, PhaseWritten
<1>6. ASSUME NEW t \in Tasks, ProbeWrites(t)
      PROVE  [Lifecycle!Next]_checkoutPhase
  <2>1. t \notin Checkouts /\ \E s \in TaskStatuses : WriteStatus(t, s)
    BY <1>6, KindsAssumption DEF ProbeWrites, TaskStatuses
  <2>2. QED
    BY <2>1, PhaseWritten
<1>7. ASSUME NEW t \in Tasks, LoopSteps(t)
      PROVE  [Lifecycle!Next]_checkoutPhase
  <2>1. t \notin Checkouts /\ \E s \in TaskStatuses : WriteStatus(t, s)
    BY <1>7, KindsAssumption DEF LoopSteps, TaskStatuses
  <2>2. QED
    BY <2>1, PhaseWritten
<1>8. ASSUME NEW t \in Tasks, LoopFinishes(t)
      PROVE  [Lifecycle!Next]_checkoutPhase
  <2>1. t \notin Checkouts /\ \E s \in TaskStatuses : WriteStatus(t, s)
    BY <1>8, KindsAssumption DEF LoopFinishes, TaskStatuses
  <2>2. QED
    BY <2>1, PhaseWritten
<1>9. ASSUME NEW t \in Tasks, SaveCancelled(t)
      PROVE  [Lifecycle!Next]_checkoutPhase
  <2>1. status[t] = "cancel_requested" /\ WriteStatus(t, "cancelled")
    BY <1>9 DEF SaveCancelled, Goto, ExecInv
  <2>2. CASE t \in Checkouts
    <3>1. checkoutPhase[t] = "stopping"
      BY <2>1, <2>2 DEF checkoutPhase, Phase
    <3>2. checkoutPhase' = [checkoutPhase EXCEPT ![t] = "cancelled"]
      BY <2>1, <2>2, PhaseWritten DEF Phase
    <3>3. Lifecycle!End(t)
      BY <3>1, <3>2 DEF Lifecycle!End, Lifecycle!Outcomes
    <3>4. QED
      BY <2>2, <3>3 DEF Lifecycle!Next
  <2>3. CASE t \notin Checkouts
    BY <2>1, <2>3, PhaseWritten
  <2>4. QED
    BY <2>2, <2>3
<1>10. ASSUME NEW t \in Tasks, ProbeEndsAtOnce(t)
      PROVE  [Lifecycle!Next]_checkoutPhase
  <2>1. t \notin Checkouts /\ \E s \in TaskStatuses : WriteStatus(t, s)
    BY <1>10, KindsAssumption DEF ProbeEndsAtOnce, TaskStatuses
  <2>2. QED
    BY <2>1, PhaseWritten
<1>11. ASSUME NEW t \in Tasks, CancelPendingUpdate(t)
      PROVE  [Lifecycle!Next]_checkoutPhase
  <2>1. CASE status[t] = "pending" /\ t \in Checkouts
    <3>1. checkoutPhase[t] = "waiting"
      BY <2>1 DEF checkoutPhase, Phase
    <3>2. WriteStatus(t, "cancelled")
      BY <2>1, <1>11 DEF CancelPendingUpdate, CancelPending
    <3>3. checkoutPhase' = [checkoutPhase EXCEPT ![t] = "cancelled"]
      BY <2>1, <3>2, PhaseWritten DEF Phase
    <3>4. Lifecycle!End(t)
      BY <3>1, <3>3 DEF Lifecycle!End, Lifecycle!Outcomes
    <3>5. QED
      BY <2>1, <3>4 DEF Lifecycle!Next
  <2>2. CASE t \notin Checkouts
    BY <2>2, <1>11, PhaseWritten DEF CancelPendingUpdate
  <2>3. CASE status[t] # "pending"
    BY <2>3, <1>11, PhaseKept DEF CancelPendingUpdate, CancelPending
  <2>4. QED
    BY <2>1, <2>2, <2>3
<1>12. ASSUME NEW t \in Tasks, CancelActiveUpdate(t)
      PROVE  [Lifecycle!Next]_checkoutPhase
  <2>1. CASE status[t] \in {"claimed", "running"} /\ t \in Checkouts
    <3>1. checkoutPhase[t] = "active"
      BY <2>1 DEF checkoutPhase, Phase
    <3>2. WriteStatus(t, "cancel_requested")
      BY <2>1, <1>12 DEF CancelActiveUpdate, CancelActive
    <3>3. checkoutPhase' = [checkoutPhase EXCEPT ![t] = "stopping"]
      BY <2>1, <3>2, PhaseWritten DEF Phase
    <3>4. Lifecycle!AskStop(t)
      BY <3>1, <3>3 DEF Lifecycle!AskStop
    <3>5. QED
      BY <2>1, <3>4 DEF Lifecycle!Next
  <2>2. CASE t \notin Checkouts
    BY <2>2, <1>12, PhaseWritten DEF CancelActiveUpdate
  <2>3. CASE status[t] \notin {"claimed", "running"}
    BY <2>3, <1>12, PhaseKept DEF CancelActiveUpdate, CancelActive
  <2>4. QED
    BY <2>1, <2>2, <2>3
<1>13. CASE dispatchPending
  BY <1>13 DEF dispatchPending, checkoutPhase
<1>14. CASE claimPendingTask
  <2>1. PICK i \in batch :
          \/ status[queue[i]] = "pending" /\ Claim(queue[i])
          \/ UNCHANGED status
    BY <1>14 DEF claimPendingTask
  <2>2. queue[i] \in Tasks
    BY DEF TypeOK
  <2>3. CASE UNCHANGED status
    BY <2>3 DEF checkoutPhase
  <2>4. CASE status[queue[i]] = "pending" /\ Claim(queue[i])
    <3>1. WriteStatus(queue[i], "claimed")
      BY <2>4 DEF Claim
    <3>2. CASE queue[i] \in Checkouts
      <4>1. Lifecycle!Start(queue[i])
        BY <2>2, <2>4, <3>1, <3>2, PhaseWritten DEF Lifecycle!Start, checkoutPhase, Phase
      <4>2. QED
        BY <3>2, <4>1 DEF Lifecycle!Next
    <3>3. CASE queue[i] \notin Checkouts
      BY <2>2, <3>1, <3>3, PhaseWritten
    <3>4. QED
      BY <3>2, <3>3
  <2>5. QED
    BY <2>1, <2>3, <2>4
<1>15. CASE BackendStops
  BY <1>15 DEF BackendStops, checkoutPhase
<1>16. CASE markInterrupted
  <2>1. \A u \in Checkouts :
          Phase(IF status[u] \in Unfinished THEN "interrupted" ELSE status[u])
            = IF Phase(status[u]) \in {"waiting", "active", "stopping"}
              THEN "interrupted" ELSE Phase(status[u])
    BY DEF TypeOK, TaskStatuses, Tasks, Unfinished, Phase
  <2>2. \A u \in Checkouts :
          status'[u] = IF status[u] \in Unfinished THEN "interrupted" ELSE status[u]
    BY <1>16 DEF markInterrupted, Tasks
  <2>3. Lifecycle!Interrupt
    BY <2>1, <2>2 DEF Lifecycle!Interrupt, checkoutPhase
  <2>4. QED
    BY <2>3 DEF Lifecycle!Next
<1>17. CASE UNCHANGED vars
  BY <1>17 DEF vars, checkoutPhase
<1>18. QED
  BY <1>1, <1>2, <1>3, <1>4, <1>5, <1>6, <1>7, <1>8, <1>9, <1>10, <1>11,
     <1>12, <1>13, <1>14, <1>15, <1>16, <1>17
     DEF Next, Dispatcher, TaskStep, Submit, StartFails, Executor,
         CheckoutExecutor, ProbeExecutor, LoopExecutor, CancelHandler

\* The conditional updates make the row of every checkout follow the lifecycle: a
\* cancel request is never overwritten, and a row ends once.
THEOREM CheckoutsFollowLifecycle == Spec => CheckoutLifecycle
<1>1. Init => Lifecycle!Init
  BY DEF Init, Lifecycle!Init, checkoutPhase, Phase, Tasks
<1>2. Spec => [](TypeOK /\ ExecInv)
  BY TypeCorrect, InitExecInv, NextExecInv, PTL DEF Spec
<1>3. QED
  BY <1>1, <1>2, StepFollowsLifecycle, PTL DEF Spec, CheckoutLifecycle, Lifecycle!Spec
=============================================================================
