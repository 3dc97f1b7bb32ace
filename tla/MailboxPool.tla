---------------------------- MODULE MailboxPool ----------------------------
(***************************************************************************)
(* Mailbox leases and the thread pools of the registration tasks           *)
(* (sunny_core/worker.py, sunny_core/db.py).                               *)
(*                                                                         *)
(* A task runs in a process of its own, and in it one flow for each        *)
(* mailbox of its batch.  Two flows that read codes from one mailbox would *)
(* take each other's, so a flow first takes the mailbox's lease in the     *)
(* database.  The lease lasts 900 seconds and is never renewed.  A task    *)
(* that is cancelled gives the leases of all its flows back at once and    *)
(* then waits for their threads; a process that is killed gives back none. *)
(***************************************************************************)
EXTENDS Naturals, Sequences

CONSTANTS
  Batches,    \* the tasks
  Mailboxes,
  BatchOf,    \* the mailboxes of a task, in order
  Width,      \* flows of a task at a time; with 1 there is no pool
  NoBatch     \* the owner of a free lease

ASSUME BatchesAssumption ==
  /\ NoBatch \notin Batches
  /\ BatchOf \in [Batches -> Seq(Mailboxes)]
  /\ \A t \in Batches : \A i, k \in DOMAIN BatchOf[t] :
       BatchOf[t][i] = BatchOf[t][k] => i = k
  /\ Width \in [Batches -> Nat \ {0}]

VARIABLES
  lease,   \* sunny_mailbox_leases: the owner's task; an expired row counts as none
  flow,    \* the flows, and whether one has outlived its lease in its mailbox
  chief,   \* the tasks' main threads, with the mailboxes submitted so far
  asked    \* the tasks asked to stop

poolVars == <<lease, flow, chief, asked>>

PoolInit ==
  /\ lease = [m \in Mailboxes |-> NoBatch]
  /\ flow = [t \in Batches |-> [m \in Mailboxes |-> [at |-> "none", overran |-> FALSE]]]
  /\ chief = [t \in Batches |-> [at |-> "none", sent |-> 0]]
  /\ asked = {}

-----------------------------------------------------------------------------

FlowAt(t, m, s)   == flow[t][m].at = s
FlowGoes(t, m, s) == flow' = [flow EXCEPT ![t][m] = [at |-> s, overran |-> FALSE]]
ChiefAt(t, s)     == chief[t].at = s
ChiefGoes(t, s)   == chief' = [chief EXCEPT ![t].at = s]
Stops(t)          == ChiefGoes(t, "stopping")

Ended   == {"ended", "raised"}
Over    == Ended \cup {"none", "cut", "recorded", "killed"}
Pooled(t) == Width[t] > 1

\* The flows fs of a task, with those in ms handed to the pool, with the result
\* of m recorded, or with the futures cancelled that no thread has taken up.
Submitted(fs, ms) ==
  [m \in Mailboxes |-> IF m \in ms THEN [fs[m] EXCEPT !.at = "queued"] ELSE fs[m]]
Recorded(fs, m) == [fs EXCEPT ![m] = [at |-> "recorded", overran |-> FALSE]]
Cut(fs) ==
  [m \in Mailboxes |-> IF fs[m].at = "queued" THEN [fs[m] EXCEPT !.at = "cut"] ELSE fs[m]]

\* release_task_mailbox_leases.
WithoutLeasesOf(t) == [m \in Mailboxes |-> IF lease[m] = t THEN NoBatch ELSE lease[m]]

\* The first flows of the batch.
Opens(t) ==
  LET first == IF Width[t] < Len(BatchOf[t]) THEN Width[t] ELSE Len(BatchOf[t])
  IN /\ ChiefAt(t, "none")
     /\ t \notin asked
     /\ chief' = [chief EXCEPT ![t] = [at |-> "run", sent |-> first]]
     /\ flow' = [flow EXCEPT ![t] = Submitted(flow[t], {BatchOf[t][i] : i \in 1..first})]
     /\ UNCHANGED <<lease, asked>>

AsksToStop(t) ==
  /\ t \notin asked
  /\ asked' = asked \cup {t}
  /\ UNCHANGED <<lease, flow, chief>>

\* The head of the pool's loop.
NoticesStop(t) ==
  /\ ChiefAt(t, "run") /\ Pooled(t)
  /\ t \in asked
  /\ lease' = WithoutLeasesOf(t)
  /\ flow' = [flow EXCEPT ![t] = Cut(flow[t])]
  /\ Stops(t)
  /\ UNCHANGED asked

\* A flow is over.  If it raised because of the cancel, the pool gives the
\* leases back here too.  Otherwise the cancel is looked at once more, the result
\* is recorded and the next mailbox submitted; any of these may raise.
Collects(t, m) ==
  LET more == chief[t].sent < Len(BatchOf[t])
      next == BatchOf[t][chief[t].sent + 1]
  IN /\ ChiefAt(t, "run")
     /\ flow[t][m].at \in Ended
     /\ \/ /\ FlowAt(t, m, "raised")
           /\ Stops(t)
           /\ flow' = [flow EXCEPT ![t] = Cut(flow[t])]
           /\ lease' = IF Pooled(t) THEN WithoutLeasesOf(t) ELSE lease
        \/ /\ FlowAt(t, m, "ended")
           /\ Stops(t)
           /\ flow' = [flow EXCEPT ![t] = Cut(flow[t])]
           /\ UNCHANGED lease
        \/ /\ FlowAt(t, m, "ended") /\ t \notin asked
           /\ flow' = [flow EXCEPT ![t] =
                         Submitted(Recorded(flow[t], m), IF more THEN {next} ELSE {})]
           /\ chief' = IF more THEN [chief EXCEPT ![t].sent = @ + 1] ELSE chief
           /\ UNCHANGED lease
     /\ UNCHANGED asked

\* Mutant: the pool is shut down without waiting for its threads.
LeavesThreads(t) ==
  /\ ChiefAt(t, "stopping")
  /\ ChiefGoes(t, "over")
  /\ UNCHANGED <<lease, flow, asked>>

\* pool.shutdown waits for the threads.
ShutsDown(t) ==
  /\ ChiefAt(t, "stopping")
  /\ \A m \in Mailboxes : flow[t][m].at \in Over
  /\ ChiefGoes(t, "over")
  /\ UNCHANGED <<lease, flow, asked>>

\* All is recorded: a late cancel, or the summary.
SumsUp(t) ==
  /\ ChiefAt(t, "run")
  /\ chief[t].sent = Len(BatchOf[t])
  /\ \A m \in Mailboxes : flow[t][m].at \in {"none", "recorded"}
  /\ lease' = IF t \in asked THEN lease ELSE WithoutLeasesOf(t)
  /\ ChiefGoes(t, "over")
  /\ UNCHANGED <<flow, asked>>

\* The process is killed, or dies.
Dies(t) ==
  /\ chief[t].at \in {"run", "stopping"}
  /\ ChiefGoes(t, "dead")
  /\ flow' = [flow EXCEPT ![t] =
                [m \in Mailboxes |-> [at |-> "killed", overran |-> FALSE]]]
  /\ UNCHANGED <<lease, asked>>

-----------------------------------------------------------------------------
(* _run_one *)

\* Before each attempt, up to 60, the flow looks for a cancel.
Begins(t, m) ==
  /\ flow[t][m].at \in {"queued", "waiting"}
  /\ FlowGoes(t, m, IF t \in asked THEN "raised" ELSE "asking")
  /\ UNCHANGED <<lease, chief, asked>>

\* acquire_mailbox_lease: a row that is there and has not expired stays.
Acquires(t, m) ==
  /\ FlowAt(t, m, "asking")
  /\ \/ /\ lease[m] = NoBatch
        /\ lease' = [lease EXCEPT ![m] = t]
        /\ FlowGoes(t, m, "inside")
     \/ /\ lease[m] # NoBatch
        /\ \/ FlowGoes(t, m, "waiting")
           \/ FlowGoes(t, m, "ended")
        /\ UNCHANGED lease
  /\ UNCHANGED <<chief, asked>>

\* _run_one_impl returns, whatever fails in it, or raises because of the cancel.
Finishes(t, m) ==
  /\ FlowAt(t, m, "inside")
  /\ \/ FlowGoes(t, m, "leaving")
     \/ t \in asked /\ FlowGoes(t, m, "fleeing")
  /\ UNCHANGED <<lease, chief, asked>>

\* Mutant: the lease is deleted by its mailbox alone.
ReleasesAny(t, m) ==
  /\ flow[t][m].at \in {"leaving", "fleeing"}
  /\ lease' = [lease EXCEPT ![m] = NoBatch]
  /\ FlowGoes(t, m, IF FlowAt(t, m, "leaving") THEN "ended" ELSE "raised")
  /\ UNCHANGED <<chief, asked>>

\* The finally clause: release_mailbox_lease, by mailbox and owner.
Releases(t, m) ==
  /\ flow[t][m].at \in {"leaving", "fleeing"}
  /\ lease' = IF lease[m] = t THEN [lease EXCEPT ![m] = NoBatch] ELSE lease
  /\ FlowGoes(t, m, IF FlowAt(t, m, "leaving") THEN "ended" ELSE "raised")
  /\ UNCHANGED <<chief, asked>>

\* 900 seconds have passed since the lease was taken.
Expires(m) ==
  LET t == lease[m] IN
  /\ t # NoBatch
  /\ lease' = [lease EXCEPT ![m] = NoBatch]
  /\ flow' = [flow EXCEPT ![t][m] =
                [at |-> flow[t][m].at, overran |-> FlowAt(t, m, "inside")]]
  /\ UNCHANGED <<chief, asked>>

-----------------------------------------------------------------------------

PoolNext ==
  \/ \E t \in Batches :
       \/ Opens(t) \/ AsksToStop(t) \/ NoticesStop(t) \/ ShutsDown(t)
       \/ SumsUp(t) \/ Dies(t)
  \/ \E t \in Batches, m \in Mailboxes :
       Collects(t, m) \/ Begins(t, m) \/ Acquires(t, m) \/ Finishes(t, m) \/ Releases(t, m)
  \/ \E m \in Mailboxes : Expires(m)

PoolSpec == PoolInit /\ [][PoolNext]_poolVars

-----------------------------------------------------------------------------
(* Properties *)

\* The type invariant.
PoolTypeOK ==
  /\ lease \in [Mailboxes -> Batches \cup {NoBatch}]
  /\ flow \in [Batches -> [Mailboxes ->
       [at : Over \cup {"queued", "waiting", "asking", "inside", "leaving", "fleeing"},
        overran : BOOLEAN]]]
  /\ chief \in [Batches -> [at : {"none", "run", "stopping", "over", "dead"}, sent : Nat]]
  /\ asked \subseteq Batches

\* Two flows are inside one mailbox only if one of them has outlived its lease or
\* belongs to a task that is being stopped: an owner that comes late to release
\* its lease does not take away the lease of the next one.
MailboxExclusive ==
  \A m \in Mailboxes : \A t, u \in Batches :
    t # u /\ FlowAt(t, m, "inside") /\ FlowAt(u, m, "inside") =>
      \E s \in {t, u} : flow[s][m].overran \/ ChiefAt(s, "stopping")

\* A task that ends by itself leaves no lease behind, which would keep the mailbox
\* from the next task for a quarter of an hour, nor a thread that takes one later.
NothingLeftBehind ==
  \A t \in Batches : ChiefAt(t, "over") =>
    \A m \in Mailboxes : lease[m] # t /\ flow[t][m].at \in Over
=============================================================================
