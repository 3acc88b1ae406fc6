--------------------------- MODULE MCBillingStore ---------------------------
(* Small instances of BillingStore: one with a database that never fails and many
   kinds of quota windows, one with failing saves and few of them. *)
EXTENDS BillingStore

CONSTANTS k1, pa, w1, m1, m2, db1, db2

OneKey == {k1}
OnePlan == {pa}
OneWindow == {w1}
OneModel == {m1}
TwoModels == {m1, m2}
OneDatabase == {db1}
TwoDatabases == {db1, db2}

Offer(period, scope, anchored) ==
    [period |-> period, limit |-> 1, scope |-> scope, anchored |-> anchored]
ScopedOffers == {Offer(2, Models, FALSE), Offer(2, {m1}, TRUE), Offer(2, Models, TRUE)}
PlainOffers == {Offer(1, Models, FALSE)}
Reliable == {TRUE}
Symmetry == Permutations(Paths) \cup Permutations(Scopes) \cup Permutations(PlanIds) \cup Permutations(WindowIds)
=============================================================================
