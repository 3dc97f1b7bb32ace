--------------------------- MODULE TaskLifecycle ---------------------------
(***************************************************************************)
(* What the tasks API promises of a task, whoever executes it: it waits,   *)
(* is active, may be asked to stop, and ends once.  A task that was asked  *)
(* to stop is never active again and never ends as succeeded or failed.    *)
(***************************************************************************)

CONSTANT Tasks

VARIABLE phase    \* "absent", "waiting", "active", "stopping", or an outcome

Outcomes == {"succeeded", "failed", "cancelled", "interrupted"}

Init == phase = [t \in Tasks |-> "absent"]

Submit(t) == phase[t] = "absent" /\ phase' = [phase EXCEPT ![t] = "waiting"]

Start(t) == phase[t] = "waiting" /\ phase' = [phase EXCEPT ![t] = "active"]

AskStop(t) == phase[t] = "active" /\ phase' = [phase EXCEPT ![t] = "stopping"]

End(t) ==
  \E outcome \in Outcomes :
    /\ \/ phase[t] = "waiting" /\ outcome = "cancelled"
       \/ phase[t] = "active" /\ outcome \in {"succeeded", "failed"}
       \/ phase[t] = "stopping" /\ outcome = "cancelled"
    /\ phase' = [phase EXCEPT ![t] = outcome]

\* A restart ends everything that has not ended.
Interrupt ==
  phase' = [t \in Tasks |-> IF phase[t] \in {"waiting", "active", "stopping"}
                            THEN "interrupted" ELSE phase[t]]

Next == \/ \E t \in Tasks : Submit(t) \/ Start(t) \/ AskStop(t) \/ End(t)
        \/ Interrupt

Spec == Init /\ [][Next]_phase
=============================================================================
