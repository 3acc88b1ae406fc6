---------------------------- MODULE MCAdmission ----------------------------
(* Small instances of Admission: two overlapping calls, two requests. *)
EXTENDS Admission, TLC

CONSTANTS c1, c2, r1, r2, t1, k1, a, b

MCCalls == {c1, c2}
MCRequests == {r1, r2}
OneRequest == {r1}
MCTests == {t1}
NoTests == {}
MCOwners == Requests \cup Tests
MCScopes == {k1}
MCRefs == {a, b}
OneRef == {a}
MCLimits == {0, 1}
NoLimit == {0}
Symmetry == Permutations(MCCalls) \cup Permutations(MCRequests) \cup Permutations(MCRefs)
=============================================================================
