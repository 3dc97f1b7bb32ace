-------------------------- MODULE PythonTask_proofs --------------------------
(***************************************************************************)
(* The safety properties of PythonTask, for every set of mailboxes and     *)
(* every bound on cancels and restarts.                                    *)
(***************************************************************************)
EXTENDS PythonTask, TLAPS

(***************************************************************************)
(* Type correctness: one step per action of Next, and under it the changed *)
(* records and flags first where the step needs them apart.                *)
(***************************************************************************)

LEMMA InitTypeOK == Init => TypeOK
<1> SUFFICES ASSUME Init
             PROVE  TypeOK
  OBVIOUS
<1>1. stop \in StopRecords
  BY DEF Init, NoStop, StopRecords
<1>2. kill \in KillRecords
  BY DEF Init, KillRecords, TaskStatuses
<1>3. watcher \in WatcherRecords
  BY DEF Init, WatcherRecords, TaskStatuses
<1>4. child \in ChildRecords
  BY DEF Init, ChildRecords, NoChild, TaskStatuses
<1>5. running \in BOOLEAN /\ process \in BOOLEAN
  BY DEF Init
<1>6. faults \in [cancels : 0..MaxCancels, restarts : 0..MaxRestarts]
  BY BoundsAssumption DEF Init
<1>7. QED
  BY <1>1, <1>2, <1>3, <1>4, <1>5, <1>6, Registered0Assumption
     DEF Init, TypeOK, TaskStatuses, MailboxStatuses, Checkpoints, Recent, Idle

LEMMA NextTypeOK == TypeOK /\ [Next]_vars => TypeOK'
<1> SUFFICES ASSUME TypeOK, [Next]_vars
             PROVE  TypeOK'
  OBVIOUS
<1> USE MailboxesAssumption, Registered0Assumption, BoundsAssumption
<1> USE DEF TypeOK, TaskStatuses, MailboxStatuses, Checkpoints, Exited, Recent,
            CancelStale, TaskStale, Idle
<1>1. CASE claimPendingTask
  BY <1>1 DEF claimPendingTask, WriteStatus, workerVars
<1>2. CASE tryDispatchPythonWorker
  BY <1>2 DEF tryDispatchPythonWorker, workerVars
<1>3. CASE failPythonDispatch
  BY <1>3 DEF failPythonDispatch, WriteStatus, workerVars
<1>4. CASE DispatchAccepted
  BY <1>4 DEF DispatchAccepted, workerVars
<1>5. CASE CancelHandlerLoads
  BY <1>5 DEF CancelHandlerLoads, terminalTaskStatuses, workerVars, StopRecords
<1>6. CASE CancelPendingUpdate
  <2>1. stop' \in StopRecords
    BY <1>6
       DEF CancelPendingUpdate, WriteStatus, CancelPending, workerVars,
           StopRecords
  <2>2. QED
    BY <1>6, <2>1
       DEF CancelPendingUpdate, WriteStatus, CancelPending, workerVars
<1>7. CASE CancelActiveUpdate
  <2>1. stop' \in StopRecords
    BY <1>7
       DEF CancelActiveUpdate, WriteStatus, CancelActive, workerVars,
           StopRecords
  <2>2. QED
    BY <1>7, <2>1 DEF CancelActiveUpdate, WriteStatus, CancelActive, workerVars
<1>8. CASE CancelHandlerReloads
  <2>1. stop' \in StopRecords
    <3>1. CASE stop' = NoStop
      BY <3>1 DEF NoStop, StopRecords
    <3>2. CASE stop' = [stop EXCEPT !.pc = "mark"]
      BY <3>2 DEF StopRecords
    <3>3. QED
      BY <1>8, <3>1, <3>2 DEF CancelHandlerReloads
  <2>2. QED
    BY <1>8, <2>1
       DEF CancelHandlerReloads, terminalTaskStatuses, NoStop, workerVars
<1>9. CASE markSunnyUnfinishedMailboxes
  BY <1>9
     DEF markSunnyUnfinishedMailboxes, WriteStatus, NoStop, workerVars,
         StopRecords
<1>10. CASE CancelCallLost
  BY <1>10 DEF CancelCallLost, goVars, workerVars
<1>11. CASE reconcilePythonTaskStatus
  BY <1>11 DEF reconcilePythonTaskStatus, workerVars
<1>12. CASE InterruptSavesRow
  BY <1>12 DEF InterruptSavesRow, WriteStatus, workerVars
<1>13. CASE InterruptSweepsMailboxes
  BY <1>13 DEF InterruptSweepsMailboxes, failBusyMailboxes, workerVars
<1>14. CASE BackendStops
  BY <1>14 DEF BackendStops, NoStop, workerVars, StopRecords
<1>15. CASE markInterruptedMailboxes
  BY <1>15
     DEF markInterruptedMailboxes, Unfinished, failBusyMailboxes, workerVars
<1>16. CASE markInterruptedRows
  BY <1>16 DEF markInterruptedRows, WriteStatus, Unfinished, workerVars
<1>17. CASE AcceptExecute
  <2>1. watcher' \in WatcherRecords
    BY <1>17 DEF AcceptExecute, NoChild, goVars, WatcherRecords
  <2>2. child' \in ChildRecords
    BY <1>17 DEF AcceptExecute, NoChild, goVars, ChildRecords
  <2>3. running' \in BOOLEAN
    BY <1>17 DEF AcceptExecute, NoChild, goVars
  <2>4. process' \in BOOLEAN
    BY <1>17 DEF AcceptExecute, NoChild, goVars
  <2>5. QED
    BY <1>17, <2>1, <2>2, <2>3, <2>4 DEF AcceptExecute, NoChild, goVars
<1>18. CASE ExecuteLost
  BY <1>18 DEF ExecuteLost, goVars, workerVars
<1>19. CASE health
  <2>1. running' \in BOOLEAN
    BY <1>19 DEF health, goVars
  <2>2. process' \in BOOLEAN
    BY <1>19 DEF health, goVars
  <2>3. QED
    BY <1>19, <2>1, <2>2 DEF health, goVars
<1>20. CASE KillReadsStatus
  BY <1>20
     DEF KillReadsStatus, terminalTaskStatuses, goVars, workerVars,
         KillRecords
<1>21. CASE KillReadsAgain
  <2>1. kill' \in KillRecords
    BY <1>21 DEF KillReadsAgain, goVars, workerVars, KillRecords
  <2>2. QED
    BY <1>21, <2>1 DEF KillReadsAgain, goVars, workerVars
<1>22. CASE KillRequestsCancel
  <2>1. kill' \in KillRecords
    BY <1>22
       DEF KillRequestsCancel, WriteStatus, Coerced, CancelSignals, goVars,
           workerVars, KillRecords
  <2>2. QED
    BY <1>22, <2>1
       DEF KillRequestsCancel, WriteStatus, Coerced, CancelSignals, goVars,
           workerVars
<1>23. CASE KillSnapshotsProcess
  <2>1. kill' \in KillRecords
    BY <1>23 DEF KillSnapshotsProcess, goVars, workerVars, KillRecords
  <2>2. QED
    BY <1>23, <2>1 DEF KillSnapshotsProcess, goVars, workerVars
<1>24. CASE KillTerminates
  BY <1>24
     DEF KillTerminates, NoChild, ChildAlive, goVars, workerVars,
         KillRecords, ChildRecords
<1>25. CASE KillSweepsMailboxes
  BY <1>25
     DEF KillSweepsMailboxes, fail_unfinished_mailboxes, Completed, goVars,
         workerVars, KillRecords
<1>26. CASE KillMarksCancelled
  BY <1>26 DEF KillMarksCancelled, WriteStatus, goVars, workerVars, KillRecords
<1>27. CASE KillDiscards
  <2>1. kill' \in KillRecords
    BY <1>27 DEF KillDiscards, goVars, KillRecords
  <2>2. running' \in BOOLEAN
    BY <1>27 DEF KillDiscards, goVars, KillRecords
  <2>3. process' \in BOOLEAN
    BY <1>27 DEF KillDiscards, goVars, KillRecords
  <2>4. QED
    BY <1>27, <2>1, <2>2, <2>3 DEF KillDiscards, goVars
<1>28. CASE WatcherReclaims
  BY <1>28
     DEF WatcherReclaims, NoChild, ChildAlive, goVars, workerVars,
         ChildRecords
<1>29. CASE WatcherReaps
  <2>1. watcher' \in WatcherRecords
    BY <1>29 DEF WatcherReaps, goVars, WatcherRecords
  <2>2. running' \in BOOLEAN
    BY <1>29 DEF WatcherReaps, goVars
  <2>3. process' \in BOOLEAN
    BY <1>29 DEF WatcherReaps, goVars
  <2>4. QED
    BY <1>29, <2>1, <2>2, <2>3 DEF WatcherReaps, goVars
<1>30. CASE WatcherDecides
  BY <1>30
     DEF WatcherDecides, terminalTaskStatuses, goVars, workerVars,
         WatcherRecords
<1>31. CASE WatcherSweepsMailboxes
  BY <1>31
     DEF WatcherSweepsMailboxes, fail_unfinished_mailboxes, Completed,
         goVars, workerVars, WatcherRecords
<1>32. CASE WatcherMarksCancelled
  BY <1>32
     DEF WatcherMarksCancelled, WriteStatus, goVars, workerVars,
         WatcherRecords
<1>33. CASE WatcherReadsStatus
  BY <1>33 DEF WatcherReadsStatus, goVars, workerVars, WatcherRecords
<1>34. CASE WatcherMarksFailed
  BY <1>34
     DEF WatcherMarksFailed, WriteStatus, Coerced, CancelSignals, goVars,
         workerVars, WatcherRecords
<1>35. CASE on_shutdown
  <2>1. child' \in ChildRecords
    BY <1>35 DEF on_shutdown, NoChild, ChildAlive, goVars, ChildRecords
  <2>2. running' \in BOOLEAN
    BY <1>35 DEF on_shutdown, NoChild, ChildAlive, goVars
  <2>3. process' \in BOOLEAN
    BY <1>35 DEF on_shutdown, NoChild, ChildAlive, goVars
  <2>4. QED
    BY <1>35, <2>1, <2>2, <2>3 DEF on_shutdown, NoChild, ChildAlive, goVars
<1>36. CASE WorkerExits
  BY <1>36 DEF WorkerExits, goVars, KillRecords, WatcherRecords
<1>37. CASE WorkerStarts
  BY <1>37 DEF WorkerStarts, goVars
<1>38. CASE ChildBoots
  BY <1>38
     DEF ChildBoots, CancelSignals, ChildOnly, goVars, workerVars,
         ChildRecords
<1>39. CASE ChildReadsStatus
  <2>1. child' \in ChildRecords
    BY <1>39 DEF ChildReadsStatus, ChildOnly, goVars, workerVars, ChildRecords
  <2>2. QED
    BY <1>39, <2>1 DEF ChildReadsStatus, ChildOnly, goVars, workerVars
<1>40. CASE ChildMarksRunning
  <2>1. child' \in ChildRecords
    BY <1>40
       DEF ChildMarksRunning, WriteStatus, Coerced, CancelSignals, ChildOnly,
           goVars, workerVars, ChildRecords
  <2>2. QED
    BY <1>40, <2>1
       DEF ChildMarksRunning, WriteStatus, Coerced, CancelSignals, ChildOnly,
           goVars, workerVars
<1>41. CASE ensure_not_cancelled
  <2>1. child' \in ChildRecords
    <3>1. CASE child' = [child EXCEPT !.pc = "stop"]
      BY <3>1 DEF ChildRecords
    <3>2. CASE \E m \in child.todo :
                  child' = [child EXCEPT !.pc = "start", !.current = {m}]
      <4>1. PICK m \in child.todo :
                  child' = [child EXCEPT !.pc = "start", !.current = {m}]
        BY <3>2
      <4>2. {m} \in SUBSET Mailboxes
        BY DEF ChildRecords
      <4>3. QED
        BY <4>1, <4>2 DEF ChildRecords
    <3>3. CASE child' = [child EXCEPT !.pc = "summary"]
      BY <3>3 DEF ChildRecords
    <3>4. QED
      BY <1>41, <3>1, <3>2, <3>3 DEF ensure_not_cancelled
  <2>2. UNCHANGED <<status, silence, mailbox, checkpoint, goVars, call, workerVars,
                    execute, kill, watcher, faults>>
    BY <1>41 DEF ensure_not_cancelled, ChildOnly
  <2>3. QED
    BY <2>1, <2>2 DEF goVars, workerVars
<1>42. CASE ChildStartsMailbox
  BY <1>42 DEF ChildStartsMailbox, ChildOnly, goVars, workerVars, ChildRecords
<1>43. CASE ChildMarksBusy
  BY <1>43 DEF ChildMarksBusy, ChildOnly, goVars, workerVars, ChildRecords
<1>44. CASE ChildSavesAccount
  BY <1>44 DEF ChildSavesAccount, ChildOnly, goVars, workerVars, ChildRecords
<1>45. CASE ChildSavesMailbox
  <2>1. child' \in ChildRecords
    BY <1>45 DEF ChildSavesMailbox, ChildOnly, goVars, workerVars, ChildRecords
  <2>2. QED
    BY <1>45, <2>1 DEF ChildSavesMailbox, ChildOnly, goVars, workerVars
<1>46. CASE ChildSkipsMailbox
  BY <1>46 DEF ChildSkipsMailbox, ChildOnly, goVars, workerVars, ChildRecords
<1>47. CASE ChildFailsMailbox
  BY <1>47
     DEF ChildFailsMailbox, Fallback, ChildOnly, goVars, workerVars,
         ChildRecords
<1>48. CASE ChildFailsAccount
  BY <1>48
     DEF ChildFailsAccount, Failed, ChildOnly, goVars, workerVars,
         ChildRecords
<1>49. CASE ChildFlowCancelled
  BY <1>49
     DEF ChildFlowCancelled, CancelSignals, Fallback, ChildOnly, goVars,
         workerVars, ChildRecords
<1>50. CASE record_result
  <2>1. child' \in ChildRecords
    <3>1. CASE child' = [child EXCEPT !.pc = "stop"]
      BY <3>1 DEF ChildRecords
    <3>2. CASE child' = [child EXCEPT !.pc = "check", !.todo = @ \ child.current,
                                      !.current = {}]
      BY <3>2 DEF ChildRecords
    <3>3. QED
      BY <1>50, <3>1, <3>2 DEF record_result
  <2>2. QED
    BY <1>50, <2>1
       DEF record_result, CancelSignals, ChildOnly, goVars, workerVars
<1>51. CASE ChildRaises
  <2>1. child' \in ChildRecords
    BY <1>51 DEF ChildRaises, ChildOnly, goVars, workerVars, ChildRecords
  <2>2. QED
    BY <1>51, <2>1 DEF ChildRaises, ChildOnly, goVars, workerVars
<1>52. CASE ChildReadsForSummary
  <2>1. child' \in ChildRecords
    BY <1>52
       DEF ChildReadsForSummary, ChildOnly, goVars, workerVars, ChildRecords
  <2>2. QED
    BY <1>52, <2>1 DEF ChildReadsForSummary, ChildOnly, goVars, workerVars
<1>53. CASE ChildFinishes
  BY <1>53
     DEF ChildFinishes, WriteStatus, Coerced, CancelSignals, NoChild,
         ChildOnly, goVars, workerVars, ChildRecords
<1>54. CASE ChildSweepsMailboxes
  BY <1>54
     DEF ChildSweepsMailboxes, fail_unfinished_mailboxes, Completed,
         ChildOnly, goVars, workerVars, ChildRecords
<1>55. CASE ChildMarksCancelled
  BY <1>55
     DEF ChildMarksCancelled, WriteStatus, NoChild, ChildOnly, goVars,
         workerVars, ChildRecords
<1>56. CASE ChildCrashes
  BY <1>56
     DEF ChildCrashes, NoChild, ChildAlive, ChildOnly, goVars, workerVars,
         ChildRecords
<1>57. CASE Tick
  BY <1>57 DEF Tick, goVars, workerVars
<1>58. CASE UNCHANGED vars
  BY <1>58 DEF vars, goVars, workerVars
<1>59. QED
  BY <1>1, <1>2, <1>3, <1>4, <1>5, <1>6, <1>7, <1>8, <1>9, <1>10, <1>11,
     <1>12, <1>13, <1>14, <1>15, <1>16, <1>17, <1>18, <1>19, <1>20, <1>21, <1>22,
     <1>23, <1>24, <1>25, <1>26, <1>27, <1>28, <1>29, <1>30, <1>31, <1>32, <1>33,
     <1>34, <1>35, <1>36, <1>37, <1>38, <1>39, <1>40, <1>41, <1>42, <1>43, <1>44,
     <1>45, <1>46, <1>47, <1>48, <1>49, <1>50, <1>51, <1>52, <1>53, <1>54, <1>55,
     <1>56, <1>57, <1>58
     DEF Next, Dispatch, CancelHandler, StatusHandler, BackendRecovers,
         KillHandler, Watcher, WorkerRestarts, Child

\* Every variable keeps its type: TypeOK of the runs, for every value of the
\* constants.
THEOREM TypeCorrect == Spec => []TypeOK
<1>1. Init => TypeOK
  BY InitTypeOK
<1>2. TypeOK /\ [Next]_vars => TypeOK'
  BY NextTypeOK
<1>3. QED
  BY <1>1, <1>2, PTL DEF Spec

(***************************************************************************)
(* The actions by what they touch.                                         *)
(***************************************************************************)

\* Steps of the backend, of its supervisor's clock, or of an idle worker.
GoStep == claimPendingTask \/ failPythonDispatch \/ DispatchAccepted
          \/ CancelHandlerLoads \/ CancelPendingUpdate \/ CancelActiveUpdate
          \/ CancelHandlerReloads \/ markSunnyUnfinishedMailboxes
          \/ CancelCallLost \/ reconcilePythonTaskStatus \/ InterruptSavesRow
          \/ InterruptSweepsMailboxes \/ BackendStops
          \/ markInterruptedMailboxes \/ markInterruptedRows \/ WorkerStarts
          \/ Tick

\* Steps of the worker service, and the request that starts the child.
ServiceStep == tryDispatchPythonWorker \/ AcceptExecute \/ ExecuteLost
               \/ health \/ KillReadsStatus \/ KillReadsAgain
               \/ KillRequestsCancel \/ KillSnapshotsProcess \/ KillTerminates
               \/ KillSweepsMailboxes \/ KillMarksCancelled \/ KillDiscards
               \/ WatcherReclaims \/ WatcherReaps \/ WatcherDecides
               \/ WatcherSweepsMailboxes \/ WatcherMarksCancelled
               \/ WatcherReadsStatus \/ WatcherMarksFailed \/ on_shutdown
               \/ WorkerExits

\* Steps of the child itself.
ChildStep == Child \/ ChildCrashes

LEMMA NextSplit == [Next]_vars => GoStep \/ ServiceStep \/ ChildStep \/ UNCHANGED vars
  BY DEF Next, Dispatch, CancelHandler, StatusHandler, BackendRecovers, KillHandler,
         Watcher, WorkerRestarts, GoStep, ServiceStep, ChildStep

\* A backend step touches nothing of the worker service or of the child.
LEMMA GoFrame ==
  GoStep => UNCHANGED <<checkpoint, execute, process, kill, watcher, child>>
<1>1. CASE claimPendingTask
  BY <1>1 DEF claimPendingTask, workerVars
<1>2. CASE failPythonDispatch
  BY <1>2 DEF failPythonDispatch, workerVars
<1>3. CASE DispatchAccepted
  BY <1>3 DEF DispatchAccepted, workerVars
<1>4. CASE CancelHandlerLoads
  BY <1>4 DEF CancelHandlerLoads, workerVars
<1>5. CASE CancelPendingUpdate
  BY <1>5 DEF CancelPendingUpdate, workerVars
<1>6. CASE CancelActiveUpdate
  BY <1>6 DEF CancelActiveUpdate, workerVars
<1>7. CASE CancelHandlerReloads
  BY <1>7 DEF CancelHandlerReloads, workerVars
<1>8. CASE markSunnyUnfinishedMailboxes
  BY <1>8 DEF markSunnyUnfinishedMailboxes, workerVars
<1>9. CASE CancelCallLost
  BY <1>9 DEF CancelCallLost, workerVars
<1>10. CASE reconcilePythonTaskStatus
  BY <1>10 DEF reconcilePythonTaskStatus, workerVars
<1>11. CASE InterruptSavesRow
  BY <1>11 DEF InterruptSavesRow, workerVars
<1>12. CASE InterruptSweepsMailboxes
  BY <1>12 DEF InterruptSweepsMailboxes, workerVars
<1>13. CASE BackendStops
  BY <1>13 DEF BackendStops, workerVars
<1>14. CASE markInterruptedMailboxes
  BY <1>14 DEF markInterruptedMailboxes, workerVars
<1>15. CASE markInterruptedRows
  BY <1>15 DEF markInterruptedRows, workerVars
<1>16. CASE WorkerStarts
  BY <1>16 DEF WorkerStarts
<1>17. CASE Tick
  BY <1>17 DEF Tick, workerVars
<1>18. QED
  BY <1>1, <1>2, <1>3, <1>4, <1>5, <1>6, <1>7, <1>8, <1>9, <1>10, <1>11,
     <1>12, <1>13, <1>14, <1>15, <1>16, <1>17
     DEF GoStep

\* A step of the child is a step of a child that runs, and touches neither the
\* request that started it nor the threads of the service.
LEMMA ChildFrame ==
  ASSUME TypeOK, ChildStep
  PROVE  /\ ChildAlive /\ child'.pc # "none"
         /\ UNCHANGED <<execute, process, kill, watcher>>
<1> USE DEF TypeOK, ChildRecords, ChildAlive, Exited, ChildOnly, workerVars
<1>1. CASE ChildBoots
  BY <1>1 DEF ChildBoots
<1>2. CASE ChildReadsStatus
  BY <1>2 DEF ChildReadsStatus
<1>3. CASE ChildMarksRunning
  BY <1>3 DEF ChildMarksRunning
<1>4. CASE ensure_not_cancelled
  BY <1>4 DEF ensure_not_cancelled
<1>5. CASE ChildStartsMailbox
  BY <1>5 DEF ChildStartsMailbox
<1>6. CASE ChildMarksBusy
  BY <1>6 DEF ChildMarksBusy
<1>7. CASE ChildSavesAccount
  BY <1>7 DEF ChildSavesAccount
<1>8. CASE ChildSavesMailbox
  BY <1>8 DEF ChildSavesMailbox
<1>9. CASE ChildSkipsMailbox
  BY <1>9 DEF ChildSkipsMailbox
<1>10. CASE ChildFailsMailbox
  BY <1>10 DEF ChildFailsMailbox
<1>11. CASE ChildFailsAccount
  BY <1>11 DEF ChildFailsAccount
<1>12. CASE ChildFlowCancelled
  BY <1>12 DEF ChildFlowCancelled
<1>13. CASE record_result
  BY <1>13 DEF record_result
<1>14. CASE ChildRaises
  BY <1>14 DEF ChildRaises
<1>15. CASE ChildReadsForSummary
  BY <1>15 DEF ChildReadsForSummary
<1>16. CASE ChildFinishes
  BY <1>16 DEF ChildFinishes, NoChild
<1>17. CASE ChildSweepsMailboxes
  BY <1>17 DEF ChildSweepsMailboxes
<1>18. CASE ChildMarksCancelled
  BY <1>18 DEF ChildMarksCancelled, NoChild
<1>19. CASE ChildCrashes
  BY <1>19 DEF ChildCrashes, NoChild
<1>20. QED
  BY <1>1, <1>2, <1>3, <1>4, <1>5, <1>6, <1>7, <1>8, <1>9, <1>10, <1>11,
     <1>12, <1>13, <1>14, <1>15, <1>16, <1>17, <1>18, <1>19
     DEF ChildStep, Child

(***************************************************************************)
(* A running child is on record.  ChildIsKillable alone is not inductive:  *)
(* KillDiscards and the reaping steps drop the record, and only these      *)
(* facts say that they do so after the exit of the very same child.        *)
(***************************************************************************)

ChildInv ==
  /\ child.pc # "none" => execute = "accepted"
  /\ process \/ watcher.pc # "none" \/ kill.handle => child.pc # "none"
  /\ ChildIsKillable
  /\ kill.pc = "wait" => kill.handle
  /\ kill.pc \in {"mailboxes", "cancelled", "discard"} /\ kill.handle
       => child.pc \in Exited
  /\ watcher.pc \notin {"none", "watching", "lost"} => child.pc \in Exited

LEMMA InitChildInv == Init => ChildInv
  BY DEF Init, ChildInv, ChildIsKillable, ChildAlive, NoChild, Exited

\* One /execute per task: nothing is sent before the dispatcher sends it.
DispatchInv == dispatcher \in {"absent", "health"} => execute = "none"

LEMMA InitDispatchInv == Init => DispatchInv
  BY DEF Init, DispatchInv

LEMMA NextDispatchInv == TypeOK /\ DispatchInv /\ [Next]_vars => DispatchInv'
<1> SUFFICES ASSUME TypeOK, DispatchInv, [Next]_vars
             PROVE  DispatchInv'
  OBVIOUS
<1> USE DEF DispatchInv
<1>1. CASE GoStep
  <2>1. dispatcher' \in {"absent", "health"} => dispatcher \in {"absent", "health"}
    <3>1. CASE claimPendingTask
      BY <3>1 DEF TypeOK, claimPendingTask
    <3>2. CASE failPythonDispatch
      BY <3>2 DEF TypeOK, failPythonDispatch
    <3>3. CASE DispatchAccepted
      BY <3>3 DEF TypeOK, DispatchAccepted
    <3>4. CASE CancelHandlerLoads
      BY <3>4 DEF TypeOK, CancelHandlerLoads
    <3>5. CASE CancelPendingUpdate
      BY <3>5 DEF TypeOK, CancelPendingUpdate
    <3>6. CASE CancelActiveUpdate
      BY <3>6 DEF TypeOK, CancelActiveUpdate
    <3>7. CASE CancelHandlerReloads
      BY <3>7 DEF TypeOK, CancelHandlerReloads
    <3>8. CASE markSunnyUnfinishedMailboxes
      BY <3>8 DEF TypeOK, markSunnyUnfinishedMailboxes
    <3>9. CASE CancelCallLost
      BY <3>9 DEF TypeOK, CancelCallLost, goVars
    <3>10. CASE reconcilePythonTaskStatus
      BY <3>10 DEF TypeOK, reconcilePythonTaskStatus
    <3>11. CASE InterruptSavesRow
      BY <3>11 DEF TypeOK, InterruptSavesRow
    <3>12. CASE InterruptSweepsMailboxes
      BY <3>12 DEF TypeOK, InterruptSweepsMailboxes
    <3>13. CASE BackendStops
      BY <3>13 DEF TypeOK, BackendStops
    <3>14. CASE markInterruptedMailboxes
      BY <3>14 DEF TypeOK, markInterruptedMailboxes
    <3>15. CASE markInterruptedRows
      BY <3>15 DEF TypeOK, markInterruptedRows
    <3>16. CASE WorkerStarts
      BY <3>16 DEF TypeOK, WorkerStarts, goVars
    <3>17. CASE Tick
      BY <3>17 DEF TypeOK, Tick, goVars
    <3>18. QED
      BY <1>1, <3>1, <3>2, <3>3, <3>4, <3>5, <3>6, <3>7, <3>8, <3>9, <3>10,
         <3>11, <3>12, <3>13, <3>14, <3>15, <3>16, <3>17
         DEF GoStep
  <2>2. QED
    BY <1>1, <2>1, GoFrame
<1>2. CASE ServiceStep
  <2>1. CASE tryDispatchPythonWorker
    BY <2>1 DEF tryDispatchPythonWorker
  <2>2. CASE AcceptExecute
    BY <2>2 DEF AcceptExecute, goVars
  <2>3. CASE ExecuteLost
    BY <2>3 DEF ExecuteLost, goVars
  <2>4. CASE health
    BY <2>4 DEF health, goVars
  <2>5. CASE KillReadsStatus
    BY <2>5 DEF KillReadsStatus, goVars
  <2>6. CASE KillReadsAgain
    BY <2>6 DEF KillReadsAgain, goVars
  <2>7. CASE KillRequestsCancel
    BY <2>7 DEF KillRequestsCancel, goVars
  <2>8. CASE KillSnapshotsProcess
    BY <2>8 DEF KillSnapshotsProcess, goVars
  <2>9. CASE KillTerminates
    BY <2>9 DEF KillTerminates, goVars
  <2>10. CASE KillSweepsMailboxes
    BY <2>10 DEF KillSweepsMailboxes, goVars
  <2>11. CASE KillMarksCancelled
    BY <2>11 DEF KillMarksCancelled, goVars
  <2>12. CASE KillDiscards
    BY <2>12 DEF KillDiscards, goVars
  <2>13. CASE WatcherReclaims
    BY <2>13 DEF WatcherReclaims, goVars
  <2>14. CASE WatcherReaps
    BY <2>14 DEF WatcherReaps, goVars
  <2>15. CASE WatcherDecides
    BY <2>15 DEF WatcherDecides, goVars
  <2>16. CASE WatcherSweepsMailboxes
    BY <2>16 DEF WatcherSweepsMailboxes, goVars
  <2>17. CASE WatcherMarksCancelled
    BY <2>17 DEF WatcherMarksCancelled, goVars
  <2>18. CASE WatcherReadsStatus
    BY <2>18 DEF WatcherReadsStatus, goVars
  <2>19. CASE WatcherMarksFailed
    BY <2>19 DEF WatcherMarksFailed, goVars
  <2>20. CASE on_shutdown
    BY <2>20 DEF on_shutdown, goVars
  <2>21. CASE WorkerExits
    BY <2>21 DEF WorkerExits, goVars
  <2>22. QED
    BY <1>2, <2>1, <2>2, <2>3, <2>4, <2>5, <2>6, <2>7, <2>8, <2>9, <2>10,
       <2>11, <2>12, <2>13, <2>14, <2>15, <2>16, <2>17, <2>18, <2>19, <2>20,
       <2>21
       DEF ServiceStep
<1>3. CASE ChildStep
  <2>1. UNCHANGED dispatcher
    <3>1. CASE ChildBoots
      BY <3>1 DEF ChildBoots, ChildOnly, goVars
    <3>2. CASE ChildReadsStatus
      BY <3>2 DEF ChildReadsStatus, ChildOnly, goVars
    <3>3. CASE ChildMarksRunning
      BY <3>3 DEF ChildMarksRunning, ChildOnly, goVars
    <3>4. CASE ensure_not_cancelled
      BY <3>4 DEF ensure_not_cancelled, ChildOnly, goVars
    <3>5. CASE ChildStartsMailbox
      BY <3>5 DEF ChildStartsMailbox, ChildOnly, goVars
    <3>6. CASE ChildMarksBusy
      BY <3>6 DEF ChildMarksBusy, ChildOnly, goVars
    <3>7. CASE ChildSavesAccount
      BY <3>7 DEF ChildSavesAccount, ChildOnly, goVars
    <3>8. CASE ChildSavesMailbox
      BY <3>8 DEF ChildSavesMailbox, ChildOnly, goVars
    <3>9. CASE ChildSkipsMailbox
      BY <3>9 DEF ChildSkipsMailbox, ChildOnly, goVars
    <3>10. CASE ChildFailsMailbox
      BY <3>10 DEF ChildFailsMailbox, ChildOnly, goVars
    <3>11. CASE ChildFailsAccount
      BY <3>11 DEF ChildFailsAccount, ChildOnly, goVars
    <3>12. CASE ChildFlowCancelled
      BY <3>12 DEF ChildFlowCancelled, ChildOnly, goVars
    <3>13. CASE record_result
      BY <3>13 DEF record_result, ChildOnly, goVars
    <3>14. CASE ChildRaises
      BY <3>14 DEF ChildRaises, ChildOnly, goVars
    <3>15. CASE ChildReadsForSummary
      BY <3>15 DEF ChildReadsForSummary, ChildOnly, goVars
    <3>16. CASE ChildFinishes
      BY <3>16 DEF ChildFinishes, ChildOnly, goVars
    <3>17. CASE ChildSweepsMailboxes
      BY <3>17 DEF ChildSweepsMailboxes, ChildOnly, goVars
    <3>18. CASE ChildMarksCancelled
      BY <3>18 DEF ChildMarksCancelled, ChildOnly, goVars
    <3>19. CASE ChildCrashes
      BY <3>19 DEF ChildCrashes, ChildOnly, goVars
    <3>20. QED
      BY <1>3, <3>1, <3>2, <3>3, <3>4, <3>5, <3>6, <3>7, <3>8, <3>9, <3>10,
         <3>11, <3>12, <3>13, <3>14, <3>15, <3>16, <3>17, <3>18, <3>19
         DEF ChildStep, Child
  <2>2. QED
    BY <1>3, <2>1, ChildFrame
<1>4. CASE UNCHANGED vars
  BY <1>4 DEF vars, goVars
<1>5. QED
  BY <1>1, <1>2, <1>3, <1>4, NextSplit

LEMMA NextChildInv ==
  TypeOK /\ DispatchInv /\ ChildInv /\ [Next]_vars => ChildInv'
<1> SUFFICES ASSUME TypeOK, DispatchInv, ChildInv, [Next]_vars
             PROVE  ChildInv'
  OBVIOUS
<1>1. CASE GoStep
  BY <1>1, GoFrame DEF ChildInv, ChildIsKillable, ChildAlive
<1>2. CASE ChildStep
  BY <1>2, ChildFrame DEF ChildInv, ChildIsKillable, ChildAlive, Exited
<1>3. CASE ServiceStep
  <2> USE DEF TypeOK, DispatchInv, KillRecords, WatcherRecords, ChildRecords, ChildInv,
              ChildIsKillable, ChildAlive, Exited
  <2>1. CASE tryDispatchPythonWorker
    BY <2>1 DEF tryDispatchPythonWorker, workerVars
  <2>2. CASE AcceptExecute
    BY <2>2 DEF AcceptExecute, NoChild, goVars
  <2>3. CASE ExecuteLost
    BY <2>3 DEF ExecuteLost, goVars, workerVars
  <2>4. CASE health
    BY <2>4 DEF health, goVars
  <2>5. CASE KillReadsStatus
    BY <2>5 DEF KillReadsStatus, goVars, workerVars
  <2>6. CASE KillReadsAgain
    BY <2>6 DEF KillReadsAgain, goVars, workerVars
  <2>7. CASE KillRequestsCancel
    BY <2>7 DEF KillRequestsCancel, goVars, workerVars
  <2>8. CASE KillSnapshotsProcess
    BY <2>8 DEF KillSnapshotsProcess, goVars, workerVars
  <2>9. CASE KillTerminates
    BY <2>9 DEF KillTerminates, NoChild, goVars, workerVars
  <2>10. CASE KillSweepsMailboxes
    BY <2>10 DEF KillSweepsMailboxes, goVars, workerVars
  <2>11. CASE KillMarksCancelled
    BY <2>11 DEF KillMarksCancelled, goVars, workerVars
  <2>12. CASE KillDiscards
    BY <2>12 DEF KillDiscards, goVars
  <2>13. CASE WatcherReclaims
    BY <2>13 DEF WatcherReclaims, NoChild, goVars, workerVars
  <2>14. CASE WatcherReaps
    BY <2>14 DEF WatcherReaps, goVars
  <2>15. CASE WatcherDecides
    BY <2>15 DEF WatcherDecides, goVars, workerVars
  <2>16. CASE WatcherSweepsMailboxes
    BY <2>16 DEF WatcherSweepsMailboxes, goVars, workerVars
  <2>17. CASE WatcherMarksCancelled
    BY <2>17 DEF WatcherMarksCancelled, goVars, workerVars
  <2>18. CASE WatcherReadsStatus
    BY <2>18 DEF WatcherReadsStatus, goVars, workerVars
  <2>19. CASE WatcherMarksFailed
    BY <2>19 DEF WatcherMarksFailed, goVars, workerVars
  <2>20. CASE on_shutdown
    BY <2>20 DEF on_shutdown, NoChild, goVars
  <2>21. CASE WorkerExits
    BY <2>21 DEF WorkerExits, goVars
  <2>22. QED
    BY <1>3, <2>1, <2>2, <2>3, <2>4, <2>5, <2>6, <2>7, <2>8, <2>9, <2>10,
       <2>11, <2>12, <2>13, <2>14, <2>15, <2>16, <2>17, <2>18, <2>19, <2>20,
       <2>21
       DEF ServiceStep
<1>4. CASE UNCHANGED vars
  BY <1>4 DEF vars, workerVars, ChildInv, ChildIsKillable, ChildAlive
<1>5. QED
  BY <1>1, <1>2, <1>3, <1>4, NextSplit

\* No order of /execute, /cancel, /health, exit and shutdown lets a running child
\* drop out of _processes.
THEOREM ChildAlwaysKillable == Spec => []ChildIsKillable
<1>1. Init => TypeOK /\ DispatchInv /\ ChildInv
  BY InitTypeOK, InitDispatchInv, InitChildInv
<1>2. TypeOK /\ DispatchInv /\ ChildInv /\ [Next]_vars
        => TypeOK' /\ DispatchInv' /\ ChildInv'
  BY NextTypeOK, NextDispatchInv, NextChildInv
<1>3. ChildInv => ChildIsKillable
  BY DEF ChildInv
<1>4. QED
  BY <1>1, <1>2, <1>3, PTL DEF Spec

(***************************************************************************)
(* The watcher leaves a terminal row.  The child that exits with 0 has     *)
(* left a terminal status or a cancel request; afterwards only a /cancel   *)
(* handler moves the row, and it moves it on to "cancelled".               *)
(***************************************************************************)

RowInv ==
  /\ child.pc = "exit0" => status \in terminalTaskStatuses \cup {"cancel_requested"}
  /\ WatcherLeavesTerminal

LEMMA InitRowInv == Init => RowInv
  BY DEF Init, RowInv, WatcherLeavesTerminal, NoChild

\* The backend never takes a row out of a terminal status, and a cancel request
\* only ends.
LEMMA GoStatus ==
  ASSUME TypeOK, GoStep
  PROVE  /\ status \in terminalTaskStatuses => status' \in terminalTaskStatuses
         /\ status = "cancel_requested"
              => status' \in terminalTaskStatuses \cup {"cancel_requested"}
<1> USE DEF TypeOK, terminalTaskStatuses
<1>1. CASE claimPendingTask
  BY <1>1 DEF claimPendingTask, WriteStatus
<1>2. CASE failPythonDispatch
  BY <1>2 DEF failPythonDispatch, WriteStatus
<1>3. CASE DispatchAccepted
  BY <1>3 DEF DispatchAccepted
<1>4. CASE CancelHandlerLoads
  BY <1>4 DEF CancelHandlerLoads
<1>5. CASE CancelPendingUpdate
  BY <1>5 DEF CancelPendingUpdate, WriteStatus, CancelPending
<1>6. CASE CancelActiveUpdate
  BY <1>6 DEF CancelActiveUpdate, WriteStatus, CancelActive
<1>7. CASE CancelHandlerReloads
  BY <1>7 DEF CancelHandlerReloads
<1>8. CASE markSunnyUnfinishedMailboxes
  BY <1>8 DEF markSunnyUnfinishedMailboxes, WriteStatus
<1>9. CASE CancelCallLost
  BY <1>9 DEF CancelCallLost
<1>10. CASE reconcilePythonTaskStatus
  BY <1>10 DEF reconcilePythonTaskStatus
<1>11. CASE InterruptSavesRow
  BY <1>11 DEF InterruptSavesRow, WriteStatus
<1>12. CASE InterruptSweepsMailboxes
  BY <1>12 DEF InterruptSweepsMailboxes
<1>13. CASE BackendStops
  BY <1>13 DEF BackendStops
<1>14. CASE markInterruptedMailboxes
  BY <1>14 DEF markInterruptedMailboxes
<1>15. CASE markInterruptedRows
  BY <1>15 DEF markInterruptedRows, WriteStatus
<1>16. CASE WorkerStarts
  BY <1>16 DEF WorkerStarts
<1>17. CASE Tick
  BY <1>17 DEF Tick
<1>18. QED
  BY <1>1, <1>2, <1>3, <1>4, <1>5, <1>6, <1>7, <1>8, <1>9, <1>10, <1>11,
     <1>12, <1>13, <1>14, <1>15, <1>16, <1>17
     DEF GoStep

\* A child that exits with 0 has just written a terminal status.
LEMMA ChildExit ==
  ASSUME TypeOK, ChildStep, child'.pc = "exit0"
  PROVE  status' \in terminalTaskStatuses
<1> USE DEF TypeOK, ChildRecords, terminalTaskStatuses
<1>1. CASE ChildBoots
  BY <1>1 DEF ChildBoots, CancelSignals
<1>2. CASE ChildReadsStatus
  BY <1>2 DEF ChildReadsStatus
<1>3. CASE ChildMarksRunning
  BY <1>3 DEF ChildMarksRunning, WriteStatus, Coerced, CancelSignals
<1>4. CASE ensure_not_cancelled
  BY <1>4 DEF ensure_not_cancelled, CancelSignals
<1>5. CASE ChildStartsMailbox
  BY <1>5 DEF ChildStartsMailbox
<1>6. CASE ChildMarksBusy
  BY <1>6 DEF ChildMarksBusy
<1>7. CASE ChildSavesAccount
  BY <1>7 DEF ChildSavesAccount
<1>8. CASE ChildSavesMailbox
  BY <1>8 DEF ChildSavesMailbox
<1>9. CASE ChildSkipsMailbox
  BY <1>9 DEF ChildSkipsMailbox
<1>10. CASE ChildFailsMailbox
  BY <1>10 DEF ChildFailsMailbox
<1>11. CASE ChildFailsAccount
  BY <1>11 DEF ChildFailsAccount
<1>12. CASE ChildFlowCancelled
  BY <1>12 DEF ChildFlowCancelled, CancelSignals
<1>13. CASE record_result
  BY <1>13 DEF record_result, CancelSignals
<1>14. CASE ChildRaises
  BY <1>14 DEF ChildRaises
<1>15. CASE ChildReadsForSummary
  BY <1>15 DEF ChildReadsForSummary
<1>16. CASE ChildFinishes
  BY <1>16 DEF ChildFinishes, WriteStatus, Coerced, CancelSignals, NoChild
<1>17. CASE ChildSweepsMailboxes
  BY <1>17 DEF ChildSweepsMailboxes
<1>18. CASE ChildMarksCancelled
  BY <1>18 DEF ChildMarksCancelled, WriteStatus, NoChild
<1>19. CASE ChildCrashes
  BY <1>19 DEF ChildCrashes, NoChild, ChildAlive, Exited
<1>20. QED
  BY <1>1, <1>2, <1>3, <1>4, <1>5, <1>6, <1>7, <1>8, <1>9, <1>10, <1>11,
     <1>12, <1>13, <1>14, <1>15, <1>16, <1>17, <1>18, <1>19
     DEF ChildStep, Child

LEMMA NextRowInv == TypeOK /\ ChildInv /\ RowInv /\ [Next]_vars => RowInv'
<1> SUFFICES ASSUME TypeOK, ChildInv, RowInv, [Next]_vars
             PROVE  RowInv'
  OBVIOUS
<1>1. CASE GoStep
  BY <1>1, GoFrame, GoStatus DEF RowInv, WatcherLeavesTerminal, KillMayRequest
<1>2. CASE ChildStep
  BY <1>2, ChildFrame, ChildExit
     DEF RowInv, WatcherLeavesTerminal, ChildInv, ChildAlive
<1>3. CASE ServiceStep
  <2> USE DEF TypeOK, KillRecords, WatcherRecords, ChildRecords, ChildInv, RowInv,
              WatcherLeavesTerminal, KillMayRequest, terminalTaskStatuses, Exited
  <2>1. CASE tryDispatchPythonWorker
    BY <2>1 DEF tryDispatchPythonWorker
  <2>2. CASE AcceptExecute
    BY <2>2 DEF AcceptExecute, NoChild, goVars
  <2>3. CASE ExecuteLost
    BY <2>3 DEF ExecuteLost, goVars
  <2>4. CASE health
    BY <2>4 DEF health, goVars
  <2>5. CASE KillReadsStatus
    BY <2>5 DEF KillReadsStatus, goVars
  <2>6. CASE KillReadsAgain
    BY <2>6 DEF KillReadsAgain, goVars
  <2>7. CASE KillRequestsCancel
    BY <2>7 DEF KillRequestsCancel, WriteStatus, Coerced, CancelSignals, goVars
  <2>8. CASE KillSnapshotsProcess
    BY <2>8 DEF KillSnapshotsProcess, goVars
  <2>9. CASE KillTerminates
    BY <2>9 DEF KillTerminates, NoChild, ChildAlive, goVars
  <2>10. CASE KillSweepsMailboxes
    BY <2>10 DEF KillSweepsMailboxes, goVars
  <2>11. CASE KillMarksCancelled
    BY <2>11 DEF KillMarksCancelled, WriteStatus, goVars
  <2>12. CASE KillDiscards
    BY <2>12 DEF KillDiscards, goVars
  <2>13. CASE WatcherReclaims
    BY <2>13 DEF WatcherReclaims, NoChild, ChildAlive, goVars
  <2>14. CASE WatcherReaps
    BY <2>14 DEF WatcherReaps, goVars
  <2>15. CASE WatcherDecides
    BY <2>15 DEF WatcherDecides, goVars
  <2>16. CASE WatcherSweepsMailboxes
    BY <2>16 DEF WatcherSweepsMailboxes, goVars
  <2>17. CASE WatcherMarksCancelled
    BY <2>17 DEF WatcherMarksCancelled, WriteStatus, goVars
  <2>18. CASE WatcherReadsStatus
    BY <2>18 DEF WatcherReadsStatus, goVars
  <2>19. CASE WatcherMarksFailed
    BY <2>19 DEF WatcherMarksFailed, WriteStatus, Coerced, CancelSignals, goVars
  <2>20. CASE on_shutdown
    BY <2>20 DEF on_shutdown, NoChild, ChildAlive, goVars
  <2>21. CASE WorkerExits
    BY <2>21 DEF WorkerExits, goVars
  <2>22. QED
    BY <1>3, <2>1, <2>2, <2>3, <2>4, <2>5, <2>6, <2>7, <2>8, <2>9, <2>10,
       <2>11, <2>12, <2>13, <2>14, <2>15, <2>16, <2>17, <2>18, <2>19, <2>20,
       <2>21
       DEF ServiceStep
<1>4. CASE UNCHANGED vars
  BY <1>4 DEF vars, RowInv, WatcherLeavesTerminal, KillMayRequest
<1>5. QED
  BY <1>1, <1>2, <1>3, <1>4, NextSplit

\* Once the watcher is done, the row is terminal unless a /cancel handler is
\* still on its way to "cancelled".
THEOREM WatcherAlwaysLeavesTerminal == Spec => []WatcherLeavesTerminal
<1>1. Init => TypeOK /\ DispatchInv /\ ChildInv /\ RowInv
  BY InitTypeOK, InitDispatchInv, InitChildInv, InitRowInv
<1>2. TypeOK /\ DispatchInv /\ ChildInv /\ RowInv /\ [Next]_vars
        => TypeOK' /\ DispatchInv' /\ ChildInv' /\ RowInv'
  BY NextTypeOK, NextDispatchInv, NextChildInv, NextRowInv
<1>3. RowInv => WatcherLeavesTerminal
  BY DEF RowInv
<1>4. QED
  BY <1>1, <1>2, <1>3, PTL DEF Spec

(***************************************************************************)
(* Completed mailboxes stay completed.  The child starts only mailboxes    *)
(* this task has not touched, so it takes one back only where its flow     *)
(* fails after a checkpoint; every sweep spares what is completed.         *)
(***************************************************************************)

MailboxInv ==
  /\ child.pc = "none" => \A m \in Mailboxes : checkpoint[m] = "none"
  /\ \A m \in child.todo \ child.current : checkpoint[m] = "none"
  /\ child.pc \in {"boot", "begin", "run", "check"} => child.current = {}
  /\ child.pc = "start" => \A m \in child.current : checkpoint[m] = "none"
  /\ child.pc = "busy" => \A m \in child.current : checkpoint[m] = "started"

LEMMA InitMailboxInv == Init => MailboxInv
  BY DEF Init, MailboxInv, NoChild

LEMMA ServiceCheckpoint == ServiceStep => UNCHANGED checkpoint
<1>1. CASE tryDispatchPythonWorker
  BY <1>1 DEF tryDispatchPythonWorker
<1>2. CASE AcceptExecute
  BY <1>2 DEF AcceptExecute
<1>3. CASE ExecuteLost
  BY <1>3 DEF ExecuteLost
<1>4. CASE health
  BY <1>4 DEF health
<1>5. CASE KillReadsStatus
  BY <1>5 DEF KillReadsStatus
<1>6. CASE KillReadsAgain
  BY <1>6 DEF KillReadsAgain
<1>7. CASE KillRequestsCancel
  BY <1>7 DEF KillRequestsCancel
<1>8. CASE KillSnapshotsProcess
  BY <1>8 DEF KillSnapshotsProcess
<1>9. CASE KillTerminates
  BY <1>9 DEF KillTerminates
<1>10. CASE KillSweepsMailboxes
  BY <1>10 DEF KillSweepsMailboxes
<1>11. CASE KillMarksCancelled
  BY <1>11 DEF KillMarksCancelled
<1>12. CASE KillDiscards
  BY <1>12 DEF KillDiscards
<1>13. CASE WatcherReclaims
  BY <1>13 DEF WatcherReclaims
<1>14. CASE WatcherReaps
  BY <1>14 DEF WatcherReaps
<1>15. CASE WatcherDecides
  BY <1>15 DEF WatcherDecides
<1>16. CASE WatcherSweepsMailboxes
  BY <1>16 DEF WatcherSweepsMailboxes
<1>17. CASE WatcherMarksCancelled
  BY <1>17 DEF WatcherMarksCancelled
<1>18. CASE WatcherReadsStatus
  BY <1>18 DEF WatcherReadsStatus
<1>19. CASE WatcherMarksFailed
  BY <1>19 DEF WatcherMarksFailed
<1>20. CASE on_shutdown
  BY <1>20 DEF on_shutdown
<1>21. CASE WorkerExits
  BY <1>21 DEF WorkerExits
<1>22. QED
  BY <1>1, <1>2, <1>3, <1>4, <1>5, <1>6, <1>7, <1>8, <1>9, <1>10, <1>11,
     <1>12, <1>13, <1>14, <1>15, <1>16, <1>17, <1>18, <1>19, <1>20, <1>21
     DEF ServiceStep

LEMMA NextMailboxInv ==
  TypeOK /\ ChildInv /\ MailboxInv /\ [Next]_vars => MailboxInv'
<1> SUFFICES ASSUME TypeOK, ChildInv, MailboxInv, [Next]_vars
             PROVE  MailboxInv'
  OBVIOUS
<1>1. CASE GoStep
  BY <1>1, GoFrame DEF MailboxInv
<1>2. CASE ChildStep
  <2> USE DEF TypeOK, ChildRecords, MailboxInv, ChildAlive, Exited
  <2>1. CASE ChildBoots
    BY <2>1 DEF ChildBoots
  <2>2. CASE ChildReadsStatus
    BY <2>2 DEF ChildReadsStatus
  <2>3. CASE ChildMarksRunning
    BY <2>3 DEF ChildMarksRunning
  <2>4. CASE ensure_not_cancelled
    <3> UNCHANGED checkpoint
      BY <2>4 DEF ensure_not_cancelled
    <3>1. CASE child'.pc \in {"stop", "summary"}
      BY <2>4, <3>1 DEF ensure_not_cancelled
    <3>2. CASE child'.pc = "start"
      <4>1. PICK m \in child.todo :
                  child' = [child EXCEPT !.pc = "start", !.current = {m}]
        BY <2>4, <3>2 DEF ensure_not_cancelled
      <4>2. child.current = {}
        BY <2>4, <3>2 DEF ensure_not_cancelled
      <4>3. QED
        BY <4>1, <4>2
    <3>3. QED
      BY <2>4, <3>1, <3>2 DEF ensure_not_cancelled
  <2>5. CASE ChildStartsMailbox
    BY <2>5 DEF ChildStartsMailbox
  <2>6. CASE ChildMarksBusy
    BY <2>6 DEF ChildMarksBusy
  <2>7. CASE ChildSavesAccount
    BY <2>7 DEF ChildSavesAccount
  <2>8. CASE ChildSavesMailbox
    BY <2>8 DEF ChildSavesMailbox
  <2>9. CASE ChildSkipsMailbox
    BY <2>9 DEF ChildSkipsMailbox
  <2>10. CASE ChildFailsMailbox
    BY <2>10 DEF ChildFailsMailbox
  <2>11. CASE ChildFailsAccount
    BY <2>11 DEF ChildFailsAccount
  <2>12. CASE ChildFlowCancelled
    BY <2>12 DEF ChildFlowCancelled
  <2>13. CASE record_result
    BY <2>13 DEF record_result
  <2>14. CASE ChildRaises
    BY <2>14 DEF ChildRaises
  <2>15. CASE ChildReadsForSummary
    BY <2>15 DEF ChildReadsForSummary
  <2>16. CASE ChildFinishes
    BY <2>16 DEF ChildFinishes, NoChild
  <2>17. CASE ChildSweepsMailboxes
    BY <2>17 DEF ChildSweepsMailboxes
  <2>18. CASE ChildMarksCancelled
    BY <2>18 DEF ChildMarksCancelled, NoChild
  <2>19. CASE ChildCrashes
    BY <2>19 DEF ChildCrashes, NoChild
  <2>20. QED
    BY <1>2, <2>1, <2>2, <2>3, <2>4, <2>5, <2>6, <2>7, <2>8, <2>9, <2>10,
       <2>11, <2>12, <2>13, <2>14, <2>15, <2>16, <2>17, <2>18, <2>19
       DEF ChildStep, Child
<1>3. CASE ServiceStep
  <2> USE <1>3, ServiceCheckpoint DEF TypeOK, ChildRecords, MailboxInv
  <2>1. CASE tryDispatchPythonWorker
    BY <2>1 DEF tryDispatchPythonWorker
  <2>2. CASE AcceptExecute
    BY <2>2 DEF AcceptExecute, NoChild, ChildInv
  <2>3. CASE ExecuteLost
    BY <2>3 DEF ExecuteLost
  <2>4. CASE health
    BY <2>4 DEF health
  <2>5. CASE KillReadsStatus
    BY <2>5 DEF KillReadsStatus
  <2>6. CASE KillReadsAgain
    BY <2>6 DEF KillReadsAgain
  <2>7. CASE KillRequestsCancel
    BY <2>7 DEF KillRequestsCancel
  <2>8. CASE KillSnapshotsProcess
    BY <2>8 DEF KillSnapshotsProcess
  <2>9. CASE KillTerminates
    BY <2>9 DEF KillTerminates, NoChild
  <2>10. CASE KillSweepsMailboxes
    BY <2>10 DEF KillSweepsMailboxes
  <2>11. CASE KillMarksCancelled
    BY <2>11 DEF KillMarksCancelled
  <2>12. CASE KillDiscards
    BY <2>12 DEF KillDiscards
  <2>13. CASE WatcherReclaims
    BY <2>13 DEF WatcherReclaims, NoChild
  <2>14. CASE WatcherReaps
    BY <2>14 DEF WatcherReaps
  <2>15. CASE WatcherDecides
    BY <2>15 DEF WatcherDecides
  <2>16. CASE WatcherSweepsMailboxes
    BY <2>16 DEF WatcherSweepsMailboxes
  <2>17. CASE WatcherMarksCancelled
    BY <2>17 DEF WatcherMarksCancelled
  <2>18. CASE WatcherReadsStatus
    BY <2>18 DEF WatcherReadsStatus
  <2>19. CASE WatcherMarksFailed
    BY <2>19 DEF WatcherMarksFailed
  <2>20. CASE on_shutdown
    BY <2>20 DEF on_shutdown, NoChild
  <2>21. CASE WorkerExits
    BY <2>21 DEF WorkerExits
  <2>22. QED
    BY <1>3, <2>1, <2>2, <2>3, <2>4, <2>5, <2>6, <2>7, <2>8, <2>9, <2>10,
       <2>11, <2>12, <2>13, <2>14, <2>15, <2>16, <2>17, <2>18, <2>19, <2>20,
       <2>21
       DEF ServiceStep
<1>4. CASE UNCHANGED vars
  BY <1>4 DEF vars, MailboxInv
<1>5. QED
  BY <1>1, <1>2, <1>3, <1>4, NextSplit

LEMMA StepKeepsCompleted ==
  ASSUME TypeOK, MailboxInv, [Next]_vars,
         NEW m \in Mailboxes, checkpoint[m] = "registered", mailbox[m] = "registered"
  PROVE  \/ mailbox'[m] = "registered"
         \/ m \in child.current /\ ChildFailsMailbox
<1> USE DEF TypeOK
<1>1. CASE GoStep
  <2>1. CASE claimPendingTask
    BY <2>1 DEF claimPendingTask
  <2>2. CASE failPythonDispatch
    BY <2>2 DEF failPythonDispatch
  <2>3. CASE DispatchAccepted
    BY <2>3 DEF DispatchAccepted
  <2>4. CASE CancelHandlerLoads
    BY <2>4 DEF CancelHandlerLoads
  <2>5. CASE CancelPendingUpdate
    BY <2>5 DEF CancelPendingUpdate
  <2>6. CASE CancelActiveUpdate
    BY <2>6 DEF CancelActiveUpdate
  <2>7. CASE CancelHandlerReloads
    BY <2>7 DEF CancelHandlerReloads
  <2>8. CASE markSunnyUnfinishedMailboxes
    BY <2>8 DEF markSunnyUnfinishedMailboxes
  <2>9. CASE CancelCallLost
    BY <2>9 DEF CancelCallLost
  <2>10. CASE reconcilePythonTaskStatus
    BY <2>10 DEF reconcilePythonTaskStatus
  <2>11. CASE InterruptSavesRow
    BY <2>11 DEF InterruptSavesRow
  <2>12. CASE InterruptSweepsMailboxes
    BY <2>12 DEF InterruptSweepsMailboxes, failBusyMailboxes
  <2>13. CASE BackendStops
    BY <2>13 DEF BackendStops
  <2>14. CASE markInterruptedMailboxes
    BY <2>14 DEF markInterruptedMailboxes, failBusyMailboxes
  <2>15. CASE markInterruptedRows
    BY <2>15 DEF markInterruptedRows
  <2>16. CASE WorkerStarts
    BY <2>16 DEF WorkerStarts
  <2>17. CASE Tick
    BY <2>17 DEF Tick
  <2>18. QED
    BY <1>1, <2>1, <2>2, <2>3, <2>4, <2>5, <2>6, <2>7, <2>8, <2>9, <2>10,
       <2>11, <2>12, <2>13, <2>14, <2>15, <2>16, <2>17
       DEF GoStep
<1>2. CASE ChildStep
  <2> USE DEF MailboxInv
  <2>1. CASE ChildBoots
    BY <2>1 DEF ChildBoots
  <2>2. CASE ChildReadsStatus
    BY <2>2 DEF ChildReadsStatus
  <2>3. CASE ChildMarksRunning
    BY <2>3 DEF ChildMarksRunning
  <2>4. CASE ensure_not_cancelled
    BY <2>4 DEF ensure_not_cancelled
  <2>5. CASE ChildStartsMailbox
    BY <2>5 DEF ChildStartsMailbox
  <2>6. CASE ChildMarksBusy
    BY <2>6 DEF ChildMarksBusy
  <2>7. CASE ChildSavesAccount
    BY <2>7 DEF ChildSavesAccount
  <2>8. CASE ChildSavesMailbox
    BY <2>8 DEF ChildSavesMailbox
  <2>9. CASE ChildSkipsMailbox
    BY <2>9 DEF ChildSkipsMailbox
  <2>10. CASE ChildFailsMailbox
    BY <2>10 DEF ChildFailsMailbox
  <2>11. CASE ChildFailsAccount
    BY <2>11 DEF ChildFailsAccount
  <2>12. CASE ChildFlowCancelled
    BY <2>12 DEF ChildFlowCancelled
  <2>13. CASE record_result
    BY <2>13 DEF record_result
  <2>14. CASE ChildRaises
    BY <2>14 DEF ChildRaises
  <2>15. CASE ChildReadsForSummary
    BY <2>15 DEF ChildReadsForSummary
  <2>16. CASE ChildFinishes
    BY <2>16 DEF ChildFinishes
  <2>17. CASE ChildSweepsMailboxes
    BY <2>17 DEF ChildSweepsMailboxes, fail_unfinished_mailboxes, Completed
  <2>18. CASE ChildMarksCancelled
    BY <2>18 DEF ChildMarksCancelled
  <2>19. CASE ChildCrashes
    BY <2>19 DEF ChildCrashes
  <2>20. QED
    BY <1>2, <2>1, <2>2, <2>3, <2>4, <2>5, <2>6, <2>7, <2>8, <2>9, <2>10,
       <2>11, <2>12, <2>13, <2>14, <2>15, <2>16, <2>17, <2>18, <2>19
       DEF ChildStep, Child
<1>3. CASE ServiceStep
  <2>1. CASE tryDispatchPythonWorker
    BY <2>1 DEF tryDispatchPythonWorker
  <2>2. CASE AcceptExecute
    BY <2>2 DEF AcceptExecute
  <2>3. CASE ExecuteLost
    BY <2>3 DEF ExecuteLost
  <2>4. CASE health
    BY <2>4 DEF health
  <2>5. CASE KillReadsStatus
    BY <2>5 DEF KillReadsStatus
  <2>6. CASE KillReadsAgain
    BY <2>6 DEF KillReadsAgain
  <2>7. CASE KillRequestsCancel
    BY <2>7 DEF KillRequestsCancel
  <2>8. CASE KillSnapshotsProcess
    BY <2>8 DEF KillSnapshotsProcess
  <2>9. CASE KillTerminates
    BY <2>9 DEF KillTerminates
  <2>10. CASE KillSweepsMailboxes
    BY <2>10 DEF KillSweepsMailboxes, fail_unfinished_mailboxes, Completed
  <2>11. CASE KillMarksCancelled
    BY <2>11 DEF KillMarksCancelled
  <2>12. CASE KillDiscards
    BY <2>12 DEF KillDiscards
  <2>13. CASE WatcherReclaims
    BY <2>13 DEF WatcherReclaims
  <2>14. CASE WatcherReaps
    BY <2>14 DEF WatcherReaps
  <2>15. CASE WatcherDecides
    BY <2>15 DEF WatcherDecides
  <2>16. CASE WatcherSweepsMailboxes
    BY <2>16 DEF WatcherSweepsMailboxes, fail_unfinished_mailboxes, Completed
  <2>17. CASE WatcherMarksCancelled
    BY <2>17 DEF WatcherMarksCancelled
  <2>18. CASE WatcherReadsStatus
    BY <2>18 DEF WatcherReadsStatus
  <2>19. CASE WatcherMarksFailed
    BY <2>19 DEF WatcherMarksFailed
  <2>20. CASE on_shutdown
    BY <2>20 DEF on_shutdown
  <2>21. CASE WorkerExits
    BY <2>21 DEF WorkerExits
  <2>22. QED
    BY <1>3, <2>1, <2>2, <2>3, <2>4, <2>5, <2>6, <2>7, <2>8, <2>9, <2>10,
       <2>11, <2>12, <2>13, <2>14, <2>15, <2>16, <2>17, <2>18, <2>19, <2>20,
       <2>21
       DEF ServiceStep
<1>4. CASE UNCHANGED vars
  BY <1>4 DEF vars
<1>5. QED
  BY <1>1, <1>2, <1>3, <1>4, NextSplit

\* No sweep, restart, cancel or flow of another mailbox takes a mailbox back that
\* this task has registered.
THEOREM CompletedAlwaysStays == Spec => CompletedStays
<1>1. Init => TypeOK /\ DispatchInv /\ ChildInv /\ MailboxInv
  BY InitTypeOK, InitDispatchInv, InitChildInv, InitMailboxInv
<1>2. TypeOK /\ DispatchInv /\ ChildInv /\ MailboxInv /\ [Next]_vars
        => TypeOK' /\ DispatchInv' /\ ChildInv' /\ MailboxInv'
  BY NextTypeOK, NextDispatchInv, NextChildInv, NextMailboxInv
<1>3. TypeOK /\ MailboxInv /\ [Next]_vars
        => [\A m \in Mailboxes : checkpoint[m] = "registered" /\ mailbox[m] = "registered"
              => \/ mailbox'[m] = "registered"
                 \/ m \in child.current /\ ChildFailsMailbox]_vars
  BY StepKeepsCompleted
<1>4. QED
  BY <1>1, <1>2, <1>3, PTL DEF Spec, CompletedStays

=============================================================================
