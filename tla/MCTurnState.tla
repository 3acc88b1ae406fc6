---------------------------- MODULE MCTurnState ----------------------------
(* Small instances of TurnState: one bucket with an older and a newer value, and two
   accounts with a value each. *)
EXTENDS TurnState

CONSTANTS a1, a2, m1, r1, r2, old, new, other

OneAccount == {a1}
TwoAccounts == {a1, a2}
OneModel == {m1}
OneRequest == {r1}
TwoRequests == {r1, r2}
TwoAges == {old, new}
TwoOwners == {old, other}
Issues == [v \in Values |-> IF v = new THEN 1 ELSE 0]
Lengths == [v \in Values |-> 1]
Owners == [v \in Values |-> <<IF v = other THEN a2 ELSE a1, m1>>]

Short == [suspended |-> FALSE, enabled |-> TRUE, observe |-> FALSE, learn |-> TRUE,
          ttl |-> 1, length |-> 1, accounts |-> Accounts, models |-> Models]
Long == [Short EXCEPT !.ttl = 2]
Partial == [Short EXCEPT !.accounts = {a1}]
Off == [Partial EXCEPT !.enabled = FALSE]
Suspended == [Short EXCEPT !.suspended = TRUE]
Lifetimes == {Short, Long}
OnAndOff == {Partial, Off}
Switch == {Short, Suspended}
=============================================================================
