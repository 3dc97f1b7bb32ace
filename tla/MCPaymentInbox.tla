--------------------------- MODULE MCPaymentInbox ---------------------------
(* AutoFlow with a cast: who takes part is chosen at the start. *)
EXTENDS AutoFlow, TLC

CONSTANTS u1, u2, x1, x2, c1, c2, f1, f2, b1, b2, a1, a2

\* Two web payments that want the same bill or the same account, a web payment
\* among command-line attempts, a flow whose bill the command-line worker takes
\* too, a flow that retries, and one whose bill the user pays too, who may do so
\* between two restarts.  `from' counts the restarts already made.
Casts ==
       {[who |-> {u1, u2},         bills |-> {b1},     accounts |-> {a1, a2}, from |-> 1],
        [who |-> {u1, u2},         bills |-> {b1, b2}, accounts |-> {a1},     from |-> 2]}
  \cup {[who |-> {f1, f2, x},     bills |-> {b1, b2}, accounts |-> {a1},     from |-> 1] :
           x \in {x1, x2}}
  \cup {[who |-> {u, c1, c2},      bills |-> {b1},     accounts |-> {a1},     from |-> 1] :
           u \in {u1, u2}}
  \cup {[who |-> {f, x, c},        bills |-> {b1},     accounts |-> {a1},     from |-> 1] :
           f \in {f1, f2}, x \in {x1, x2}, c \in {c1, c2}}
  \cup {[who |-> {f, u, x},        bills |-> {b1},     accounts |-> {a1},     from |-> 0] :
           f \in {f1, f2}, u \in {u1, u2}, x \in {x1, x2}}

\* Payers of one kind are interchangeable.
Interchangeable ==
  Permutations({u1, u2}) \cup Permutations({x1, x2}) \cup
  Permutations({c1, c2}) \cup Permutations({f1, f2})

Outsider == [Untouched EXCEPT !.status = "interrupted_unknown"]
Used     == [Unbound EXCEPT !.status = "failed"]

\* What takes no part is finished: a cancelled row, a bill that may not be tried
\* again, a used account.  Where no flow makes the links, they are there.
MCInit ==
  \E cast \in Casts :
    /\ row = [b \in Bills |->
                [claim |-> NoOne,
                 status |-> IF b \notin cast.bills THEN "closed"
                            ELSE IF cast.who \cap Flows = {} THEN "pending" ELSE "absent"]]
    /\ snap = [b \in Bills |-> IF b \in cast.bills THEN Untouched ELSE Outsider]
    /\ bind = [a \in Accounts |->
                 IF a \in cast.accounts THEN Unbound ELSE Used]
    /\ job = [w \in Web |-> "none"]
    /\ marked = {}
    /\ pay = [p \in Payers |-> [Newcomer EXCEPT !.at = IF p \in cast.who THEN "idle" ELSE "done"]]
    /\ remote = [b \in Bills |-> IF b \in cast.bills THEN "open" ELSE "denied"]
    /\ restarts = cast.from
    /\ flow = [f \in Flows |-> [Unstarted EXCEPT !.at = IF f \in cast.who THEN "idle" ELSE "done"]]

\* Bound: a person marks a row paid only where there is one bill and one account.
HandBound ==
  (\E b \in Bills : row'[b].status = "by_hand") => snap[b2] = Outsider /\ bind[a2] = Used

MCSpec == MCInit /\ [][FlowNext /\ HandBound]_flowVars
=============================================================================
