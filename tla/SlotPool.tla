------------------------------ MODULE SlotPool ------------------------------
(***************************************************************************)
(* What a concurrency limiter promises, with no counter, map or alias in   *)
(* sight: every owner occupies at most one pool, an owner enters a pool    *)
(* only while that pool has room, and pools may be re-capped, merged and   *)
(* vacated at any time.  A cap of 0 means unlimited.                       *)
(*                                                                         *)
(* Two components of the plugin implement it: the API-key slots of the     *)
(* billing store (KeySlots) and the upstream-account slots of the plugin   *)
(* (AccountSlots).                                                         *)
(***************************************************************************)
EXTENDS Naturals, FiniteSets

CONSTANTS
    Owners,     \* whatever occupies a slot
    Pools,      \* whatever is limited
    NoPool,     \* the place, outside Pools, of an owner that occupies nothing
    Caps        \* the caps a pool may be given, natural numbers

VARIABLES
    held,       \* held[o] is the pool o occupies, or NoPool
    cap         \* cap[p] is the limit of pool p

vars == <<held, cap>>

Members(p) == {o \in Owners : held[o] = p}

HasRoom(p) == cap[p] = 0 \/ Cardinality(Members(p)) < cap[p]

Init ==
    /\ held = [o \in Owners |-> NoPool]
    /\ cap \in [Pools -> Caps]

\* An owner enters a pool, leaving the one it was in.
Occupy(o, p) ==
    /\ held[o] # p
    /\ HasRoom(p)
    /\ held' = [held EXCEPT ![o] = p]
    /\ UNCHANGED cap

\* Any set of owners leaves.
Vacate(S) ==
    /\ held' = [o \in Owners |-> IF o \in S THEN NoPool ELSE held[o]]
    /\ UNCHANGED cap

\* Limits are edited; nobody is evicted, and nobody enters.
Recap ==
    /\ cap' \in [Pools -> Caps]
    /\ UNCHANGED held

\* Pools become one pool, members included.
Merge(f) ==
    /\ held' = [o \in Owners |-> IF held[o] = NoPool THEN NoPool ELSE f[held[o]]]
    /\ cap' \in [Pools -> Caps]

\* The limiter starts afresh.
Reset ==
    /\ held' = [o \in Owners |-> NoPool]
    /\ cap' \in [Pools -> Caps]

Next ==
    \/ \E o \in Owners, p \in Pools : Occupy(o, p)
    \/ \E S \in SUBSET Owners : Vacate(S)
    \/ Recap
    \/ \E f \in [Pools -> Pools] : Merge(f)
    \/ Reset

Spec == Init /\ [][Next]_vars
=============================================================================
