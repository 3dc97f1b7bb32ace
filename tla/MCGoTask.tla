------------------------------ MODULE MCGoTask ------------------------------
(***************************************************************************)
(* GoTask with a cast: which tasks are submitted is chosen at the start,   *)
(* any two of them, or all, without a cancel.                              *)
(***************************************************************************)
EXTENDS GoTask

VARIABLE cast

mcVars == <<vars, cast>>

Casts == {Tasks, Tasks \ Checkouts, Tasks \ Probes, Tasks \ Loops}

MCInit == Init /\ cast \in Casts

\* Who is not in the cast is not submitted; of three tasks none is cancelled.
MCNext ==
  /\ Next
  /\ \A t \in Tasks \ cast : status'[t] = status[t] /\ t \notin secrets'
  /\ cast = Tasks => faults'.cancels = 0
  /\ UNCHANGED cast

MCSpec == MCInit /\ [][MCNext]_mcVars /\ Fairness
=============================================================================
