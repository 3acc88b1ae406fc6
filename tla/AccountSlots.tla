---------------------------- MODULE AccountSlots ----------------------------
(***************************************************************************)
(* The request slots of upstream accounts, internal/plugin/                *)
(* account_runtime.go.  An account is named by an opaque credential        *)
(* reference; a rotated credential and its replacement are one pool, named *)
(* by the root of their alias chain.  Every operation runs under           *)
(* accountRuntime.mu.                                                      *)
(***************************************************************************)
EXTENDS Integers, FiniteSets

CONSTANTS
    Owners,        \* whatever occupies an account: requests and model tests
    NoOwner,       \* the empty request identifier
    Refs,          \* credential references
    NoRef,         \* no reference
    AccountLimits, \* limits an operator may set; 0 is unlimited
    MaxTracked     \* how many owners the table may hold (100000 in the code)

ASSUME AccountSlotsAssumption ==
    /\ IsFiniteSet(Owners) /\ IsFiniteSet(Refs)
    /\ NoOwner \notin Owners
    /\ NoRef \notin Refs
    /\ AccountLimits \subseteq Nat /\ 0 \in AccountLimits
    /\ MaxTracked \in Nat \ {0}

VARIABLES
    requests,   \* accountRuntime.requests: NoRef where the map has no entry
    active,     \* accountRuntime.active: 0 where the map has no entry
    root,       \* CredentialAliases, flattened: root[x] = x where unaliased
    policy      \* settings.Accounts[x].ConcurrencyLimit, 0 where absent

slotVars == <<requests, active>>
settingsVars == <<root, policy>>
accountVars == <<requests, active, root, policy>>

Occupies(o) == requests[o] # NoRef
Occupants(p) == {o \in Owners : requests[o] = p}

\* stricterAccountLimit over a set of limits: 0 never wins over a finite limit.
Strictest(S) ==
    IF S \subseteq {0} THEN 0
    ELSE CHOOSE n \in S \ {0} : \A m \in S \ {0} : n <= m

-----------------------------------------------------------------------------
(* acquire and release *)

\* The table once owner o has left any account but p.
Departed(o, p) ==
    [requests EXCEPT ![o] = IF @ = p THEN p ELSE NoRef]

\* active once owner o has left any account but p.
DepartedActive(o, p) ==
    IF Occupies(o) /\ requests[o] # p
    THEN [active EXCEPT ![requests[o]] = @ - 1]
    ELSE active

\* Mutant: one owner too many.
AccountOvergranted(ref, o) ==
    LET p == root[ref]
    IN  IF o = NoOwner THEN policy[p] = 0
        ELSE requests[o] = p \/ policy[p] = 0 \/ active[p] <= policy[p]

\* acquire's answer for account ref (an anonymous owner is never tracked, so it
\* passes unlimited accounts only).
AccountGranted(ref, o) ==
    LET p == root[ref]
        left == Departed(o, p)
    IN  IF o = NoOwner
        THEN policy[p] = 0
        ELSE \/ requests[o] = p
             \/ /\ policy[p] = 0 \/ active[p] < policy[p]
                /\ Cardinality({x \in Owners : left[x] # NoRef}) < MaxTracked

\* A retry on another account gives its previous slot back even if the new
\* account refuses it.
AcquireAccount(ref, o) ==
    LET p == root[ref]
    IN  /\ UNCHANGED settingsVars
        /\ IF o = NoOwner \/ requests[o] = p THEN UNCHANGED slotVars
           ELSE IF AccountGranted(ref, o)
           THEN /\ requests' = [requests EXCEPT ![o] = p]
                /\ active' = [DepartedActive(o, p) EXCEPT ![p] = @ + 1]
           ELSE /\ requests' = Departed(o, p)
                /\ active' = DepartedActive(o, p)

\* An idempotent release; the counter's entry goes away at zero.
ReleaseAccount(o) ==
    /\ UNCHANGED settingsVars
    /\ IF o = NoOwner \/ ~Occupies(o) THEN UNCHANGED slotVars
       ELSE /\ requests' = [requests EXCEPT ![o] = NoRef]
            /\ active' = [active EXCEPT ![requests[o]] = IF @ - 1 <= 0 THEN 0 ELSE @ - 1]

\* Several owners released in turn (pruneModelTestsLocked).
ReleaseAccounts(S) ==
    /\ UNCHANGED settingsVars
    /\ requests' = [o \in Owners |-> IF o \in S THEN NoRef ELSE requests[o]]
    /\ active' = [p \in Refs |-> active[p] - Cardinality({o \in S : requests[o] = p})]

-----------------------------------------------------------------------------
(* Edits of the settings; each is published only once it has been saved *)

\* normalizeAccountAliases: every member of a pool gets the pool's strictest limit.
Normalized(rt, pol) ==
    [x \in Refs |-> Strictest({pol[y] : y \in {z \in Refs : rt[z] = rt[x]}})]

\* The settings an operator's patch leads to: a limit given for one member of a
\* pool is given to all, the strictest one if the patch names several members.
\* A patch that nulls the account table starts from no limits at all.
Patched(patch, cleared) ==
    LET base == IF cleared THEN [x \in Refs |-> 0] ELSE policy
        named(x) == {y \in DOMAIN patch : root[y] = root[x]}
        merged == [x \in Refs |-> IF named(x) = {} THEN base[x]
                                  ELSE Strictest({patch[y] : y \in named(x)})]
    IN  Normalized(root, merged)

SetPolicies(patch, cleared) ==
    /\ cleared => DOMAIN patch = {}
    /\ policy' = Patched(patch, cleared)
    /\ UNCHANGED <<requests, active, root>>

\* One entry from -> to of a rotation: the pools of the two become one, named
\* by the root of the new credential.
Joined(rt, from, to) ==
    [x \in Refs |-> IF rt[x] = rt[from] THEN rt[to] ELSE rt[x]]

\* A rotation maps old references to new ones: two entries here, a -> x and
\* b -> y, applied in that order; a = b, x = y is a rotation of one entry, and an
\* entry that maps a reference to itself changes nothing.  A cycle is refused.
RotatedRoots(a, x, b, y) == Joined(Joined(root, a, x), b, y)

ValidRotation(a, x, b, y) ==
    /\ a = b => x = y
    /\ ~(a # b /\ x = b /\ y = a)

\* Running requests move into the merged pool, and the counters are recounted.
MigrateCredentialRefs(a, x, b, y) ==
    /\ ValidRotation(a, x, b, y)
    /\ root' = RotatedRoots(a, x, b, y)
    /\ policy' = Normalized(RotatedRoots(a, x, b, y), policy)
    /\ requests' = [o \in Owners |-> IF Occupies(o)
                                     THEN RotatedRoots(a, x, b, y)[requests[o]]
                                     ELSE NoRef]
    /\ active' = [p \in Refs |-> Cardinality({o \in Owners : requests'[o] = p})]

\* defaultAccountRuntimeSettings: no alias, no limit.
NoAliases == [x \in Refs |-> x]
NoLimits == [x \in Refs |-> 0]

AccountInit ==
    /\ requests = [o \in Owners |-> NoRef]
    /\ active = [p \in Refs |-> 0]
    /\ root = NoAliases
    /\ policy = NoLimits

-----------------------------------------------------------------------------
(* Properties *)

\* The table of account slots, its counters and its settings are well formed,
\* and an alias leads to a root in one hop (account_runtime.go:19-33).
AccountTypeOK ==
    /\ requests \in [Owners -> Refs \cup {NoRef}]
    /\ active \in [Refs -> Nat]
    /\ root \in [Refs -> Refs]
    /\ policy \in [Refs -> AccountLimits]
    /\ \A x \in Refs : root[root[x]] = root[x]

\* The counter that decides admission to an account counts exactly the owners
\* recorded on it: retries that switch accounts, refused retries, duplicate
\* releases and the recount of a rotation never lose or invent a slot
\* (acquire, release, migrateCredentialRefs).
AccountCountsOccupants ==
    \A p \in Refs : active[p] = Cardinality(Occupants(p))

\* The owners and counters implement the abstract limiter, a rotation being a
\* merge of pools.
AccountPool == INSTANCE SlotPool WITH
    Pools <- Refs, NoPool <- NoRef, Caps <- AccountLimits,
    held <- requests, cap <- policy

\* Every step of the account table is a step of the abstract limiter: an owner
\* enters an account only while that account has room for it.
ImplementsAccountPool == AccountPool!Spec
=============================================================================
