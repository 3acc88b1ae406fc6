------------------------- MODULE MCAccountSettings -------------------------
(* Three credential references, two owners, one settings file. *)
EXTENDS AccountSettings, TLC

CONSTANTS o1, o2, a, b, c, p1, p2

MCOwners == {o1, o2}
MCRefs == {a, b, c}
OnePath == {p1}
BinaryLimits == {0, 1}
Symmetry == Permutations(MCOwners) \cup Permutations(MCRefs)
=============================================================================
