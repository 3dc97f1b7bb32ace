---------------------------- MODULE MCTwoRestarts ----------------------------
(* PaymentInbox with two rows, from the moment the first payment has been asked for. *)
EXTENDS PaymentInbox

CONSTANTS w1, b1, a1

Asked(b, a) == [Newcomer EXCEPT !.at = "preflight", !.bill = b, !.acct = a]

MCInit ==
  /\ row = [b \in Bills |-> [status |-> "pending", claim |-> NoOne]]
  /\ snap = [b \in Bills |-> Untouched]
  /\ bind = [a \in Accounts |-> Unbound]
  /\ job = [w \in Web |-> "none"]
  /\ marked = {}
  /\ pay = [w \in Web |-> IF w = w1 THEN Asked(b1, a1) ELSE Newcomer]
  /\ remote = [b \in Bills |-> "open"]
  /\ restarts = 0

MCSpec == MCInit /\ [][Next]_vars
=============================================================================
