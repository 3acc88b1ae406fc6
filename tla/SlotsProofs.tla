----------------------------- MODULE SlotsProofs -----------------------------
(* Proofs about the two limiters.

   What holds of the API-key slots for every set of requests, keys and limits: KeyTypeOK and
   KeyCountsHolders together are inductive, since the counter can only be shown not to go below
   zero because it counts a finite, non-empty set of holders when it is decremented.

   What every operation on the table of account slots preserves, for every set of owners, accounts
   and limits: the operations are shared by two specifications, AccountSettings and Admission, so
   the lemmas are about the operations and the theorems about those specifications cite them. *)
EXTENDS KeySlots, AccountSlots, FiniteSetTheorems, WellFoundedInduction, TLAPS

KeyInv == KeyTypeOK /\ KeyCountsHolders

\* The holders of a key are some of the requests, so they can be counted.
LEMMA HoldersFinite ==
    ASSUME NEW s PROVE IsFiniteSet(Holders(s)) /\ Cardinality(Holders(s)) \in Nat
<1>1. Holders(s) \in SUBSET Requests BY DEF Holders
<1> QED BY <1>1, FS_Subset, FS_CardinalityType, KeySlotsAssumption

\* The store starts without reservations.
LEMMA KeyInvInit == KeyInit => KeyInv
<1> SUFFICES ASSUME KeyInit PROVE KeyInv OBVIOUS
<1>1. KeyTypeOK BY KeySlotsAssumption DEF KeyInit, KeyTypeOK
<1>2. KeyCountsHolders
  <2> SUFFICES ASSUME NEW s \in Scopes PROVE activeByScope[s] = Cardinality(Holders(s))
      BY DEF KeyCountsHolders
  <2>1. Holders(s) = {} BY KeySlotsAssumption DEF KeyInit, Holders
  <2> QED BY <2>1, FS_EmptySet DEF KeyInit
<1> QED BY <1>1, <1>2 DEF KeyInv

\* An admission keeps the two maps in step: a reservation adds one holder and
\* one to the counter of the same key, and nothing else adds any (AcquireSlot).
LEMMA AcquireSlotInv ==
    ASSUME KeyInv, NEW s \in Scopes \cup {NoScope}, NEW r \in Requests \cup {NoRequest},
           AcquireSlot(s, r)
    PROVE  KeyInv'
<1>1. CASE SlotAcquired(s, r)
  <2>1. s \in Scopes /\ r \in Requests /\ activeRequests[r] = NoScope
      BY <1>1 DEF SlotAcquired, HasSlot
  <2>2. activeRequests' = [activeRequests EXCEPT ![r] = s]
        /\ activeByScope' = [activeByScope EXCEPT ![s] = @ + 1]
        /\ limit' = limit
      BY <1>1 DEF AcquireSlot
  <2>3. KeyTypeOK' BY <2>1, <2>2 DEF KeyInv, KeyTypeOK
  <2>4. KeyCountsHolders'
    <3> SUFFICES ASSUME NEW k \in Scopes
                 PROVE  activeByScope'[k] = Cardinality(Holders(k)')
        BY DEF KeyCountsHolders
    <3>1. activeByScope[k] = Cardinality(Holders(k)) BY DEF KeyInv, KeyCountsHolders
    <3>2. CASE k = s
      <4>1. Holders(k)' = Holders(k) \cup {r}
          BY <2>1, <2>2, <3>2 DEF Holders, KeyInv, KeyTypeOK
      <4>2. r \notin Holders(k) BY <2>1, KeySlotsAssumption DEF Holders
      <4>3. Cardinality(Holders(k) \cup {r}) = Cardinality(Holders(k)) + 1
          BY <4>2, HoldersFinite, FS_AddElement
      <4> QED BY <2>1, <2>2, <3>1, <3>2, <4>1, <4>3 DEF KeyInv, KeyTypeOK
    <3>3. CASE k # s
      <4>1. Holders(k)' = Holders(k)
          BY <2>1, <2>2, <3>3, KeySlotsAssumption DEF Holders, KeyInv, KeyTypeOK
      <4> QED BY <2>1, <2>2, <3>1, <3>3, <4>1 DEF KeyInv, KeyTypeOK
    <3> QED BY <3>2, <3>3
  <2> QED BY <2>3, <2>4 DEF KeyInv
<1>2. CASE ~SlotAcquired(s, r)
  <2>1. UNCHANGED keyVars BY <1>2 DEF AcquireSlot
  <2> QED BY <2>1 DEF KeyInv, KeyTypeOK, KeyCountsHolders, Holders, keyVars
<1> QED BY <1>1, <1>2

\* A release takes one holder and one of the counter away; the counter's floor
\* at zero is never what decides (ReleaseSlot).
LEMMA ReleaseSlotInv ==
    ASSUME KeyInv, NEW r \in Requests \cup {NoRequest}, ReleaseSlot(r)
    PROVE  KeyInv'
<1>1. CASE r # NoRequest /\ HasSlot(r)
  <2> DEFINE s == activeRequests[r]
  <2>1. r \in Requests /\ s \in Scopes BY <1>1 DEF HasSlot, KeyInv, KeyTypeOK
  <2>2. activeRequests' = [activeRequests EXCEPT ![r] = NoScope]
        /\ activeByScope' = [activeByScope EXCEPT ![s] = IF @ > 1 THEN @ - 1 ELSE 0]
        /\ limit' = limit
      BY <1>1 DEF ReleaseSlot
  <2>3. KeyTypeOK' BY <2>1, <2>2 DEF KeyInv, KeyTypeOK
  <2>4. KeyCountsHolders'
    <3> SUFFICES ASSUME NEW k \in Scopes
                 PROVE  activeByScope'[k] = Cardinality(Holders(k)')
        BY DEF KeyCountsHolders
    <3>1. activeByScope[k] = Cardinality(Holders(k)) /\ activeByScope[k] \in Nat
        BY DEF KeyInv, KeyCountsHolders, KeyTypeOK
    <3>2. CASE k = s
      <4>1. Holders(k)' = Holders(k) \ {r}
          BY <2>1, <2>2, <3>2, KeySlotsAssumption DEF Holders, KeyInv, KeyTypeOK
      <4>2. r \in Holders(k) BY <2>1, <3>2 DEF Holders
      <4>3. Cardinality(Holders(k) \ {r}) = Cardinality(Holders(k)) - 1
          BY <4>2, HoldersFinite, FS_RemoveElement
      <4>4. Cardinality(Holders(k)) # 0 BY <4>2, HoldersFinite, FS_EmptySet
      <4>5. activeByScope'[k] = activeByScope[k] - 1
          BY <2>1, <2>2, <3>1, <3>2, <4>4 DEF KeyInv, KeyTypeOK
      <4> QED BY <3>1, <4>1, <4>3, <4>5
    <3>3. CASE k # s
      <4>1. Holders(k)' = Holders(k)
          BY <2>1, <2>2, <3>3, KeySlotsAssumption DEF Holders, KeyInv, KeyTypeOK
      <4>2. activeByScope'[k] = activeByScope[k]
          BY <2>1, <2>2, <3>3 DEF KeyInv, KeyTypeOK
      <4> QED BY <3>1, <4>1, <4>2
    <3> QED BY <3>2, <3>3
  <2> QED BY <2>3, <2>4 DEF KeyInv
<1>2. CASE ~(r # NoRequest /\ HasSlot(r))
  <2>1. UNCHANGED keyVars BY <1>2 DEF ReleaseSlot
  <2> QED BY <2>1 DEF KeyInv, KeyTypeOK, KeyCountsHolders, Holders, keyVars
<1> QED BY <1>1, <1>2

\* Edits, a change of database and a shutdown keep the two maps in step.
LEMMA KeyInvStep == KeyInv /\ [KeyNext]_keyVars => KeyInv'
<1> SUFFICES ASSUME KeyInv, [KeyNext]_keyVars PROVE KeyInv' OBVIOUS
<1>1. ASSUME NEW s \in Scopes \cup {NoScope}, NEW r \in Requests \cup {NoRequest},
             AcquireSlot(s, r)
      PROVE  KeyInv'
    BY <1>1, AcquireSlotInv
<1>2. ASSUME NEW r \in Requests \cup {NoRequest}, ReleaseSlot(r) PROVE KeyInv'
    BY <1>2, ReleaseSlotInv
<1>3. ASSUME NEW s \in Scopes, NEW n \in KeyLimits, SetConcurrencyLimit(s, n)
      PROVE  KeyInv'
    BY <1>3 DEF SetConcurrencyLimit, KeyInv, KeyTypeOK, KeyCountsHolders, Holders
<1>4. CASE SwitchDatabase
    BY <1>4 DEF SwitchDatabase, KeyInv, KeyTypeOK, KeyCountsHolders, Holders
<1>5. CASE CloseStore
  <2>1. KeyTypeOK' BY <1>5 DEF CloseStore, KeyInv, KeyTypeOK
  <2>2. ASSUME NEW k \in Scopes PROVE activeByScope'[k] = Cardinality(Holders(k)')
    <3>1. Holders(k)' = {} BY <1>5, KeySlotsAssumption DEF CloseStore, Holders
    <3> QED BY <1>5, <3>1, FS_EmptySet DEF CloseStore
  <2> QED BY <2>1, <2>2 DEF KeyInv, KeyCountsHolders
<1>6. CASE UNCHANGED keyVars
    BY <1>6 DEF keyVars, KeyInv, KeyTypeOK, KeyCountsHolders, Holders
<1> QED BY <1>1, <1>2, <1>3, <1>4, <1>5, <1>6 DEF KeyNext

LEMMA KeyInvHolds == KeySpec => []KeyInv
<1> QED BY KeyInvInit, KeyInvStep, PTL DEF KeySpec

\* The store's maps keep their types, the counters never go negative
\* (concurrency.go).
THEOREM KeyTypeCorrect == KeySpec => []KeyTypeOK
<1>1. KeyInv => KeyTypeOK BY DEF KeyInv
<1> QED BY <1>1, KeyInvHolds, PTL

\* The counter that decides admission is the number of requests that hold a slot
\* of the key, whatever the host and the operator do (AcquireSlot, ReleaseSlot).
THEOREM KeyCountersExact == KeySpec => []KeyCountsHolders
<1>1. KeyInv => KeyCountsHolders BY DEF KeyInv
<1> QED BY <1>1, KeyInvHolds, PTL

-----------------------------------------------------------------------------
(* Steps, given the invariant *)

\* Only a reservation adds a holder, and it adds one to a key that had room.
LEMMA GainsHolder ==
    ASSUME KeyInv, KeyNext, NEW k \in Scopes, ~(Holders(k)' \subseteq Holders(k))
    PROVE  \E r \in Requests : /\ SlotAcquired(k, r)
                               /\ AcquireSlot(k, r)
                               /\ Holders(k)' = Holders(k) \cup {r}
<1>1. PICK x \in Requests : activeRequests'[x] = k /\ activeRequests[x] # k
    BY DEF Holders
<1>2. ASSUME NEW r \in Requests \cup {NoRequest}, ReleaseSlot(r) PROVE FALSE
    BY <1>1, <1>2, KeySlotsAssumption DEF ReleaseSlot, HasSlot, keyVars, KeyInv, KeyTypeOK
<1>3. ASSUME NEW s \in Scopes, NEW n \in KeyLimits, SetConcurrencyLimit(s, n) PROVE FALSE
    BY <1>1, <1>3 DEF SetConcurrencyLimit
<1>4. ~SwitchDatabase BY <1>1 DEF SwitchDatabase
<1>5. ~CloseStore BY <1>1, KeySlotsAssumption DEF CloseStore
<1>6. PICK s \in Scopes \cup {NoScope}, r \in Requests \cup {NoRequest} : AcquireSlot(s, r)
    BY <1>2, <1>3, <1>4, <1>5 DEF KeyNext
<1>7. SlotAcquired(s, r) BY <1>1, <1>6 DEF AcquireSlot, keyVars
<1>8. r \in Requests /\ activeRequests' = [activeRequests EXCEPT ![r] = s]
    BY <1>6, <1>7 DEF AcquireSlot, SlotAcquired
<1>9. x = r /\ s = k BY <1>1, <1>8 DEF KeyInv, KeyTypeOK
<1>10. Holders(k)' = Holders(k) \cup {r} BY <1>8, <1>9 DEF Holders, KeyInv, KeyTypeOK
<1> QED BY <1>6, <1>7, <1>8, <1>9, <1>10

LEMMA AdmitsWithinLimitStep ==
    ASSUME KeyInv, [KeyNext]_keyVars, NEW k \in Scopes,
           ~(Holders(k)' \subseteq Holders(k)), limit[k] > 0
    PROVE  Cardinality(Holders(k)') <= limit[k]
<1>1. KeyNext BY DEF keyVars, Holders
<1>2. PICK r \in Requests : SlotAcquired(k, r) /\ Holders(k)' = Holders(k) \cup {r}
    BY <1>1, GainsHolder
<1>3. limit[k] \in Nat /\ activeByScope[k] \in Nat
    BY KeySlotsAssumption DEF KeyInv, KeyTypeOK
<1>4. Cardinality(Holders(k)) < limit[k]
    BY <1>2, <1>3 DEF SlotAcquired, KeyFull, KeyInv, KeyCountsHolders
<1> DEFINE n == Cardinality(Holders(k))
<1>5. n \in Nat /\ Cardinality(Holders(k) \cup {r}) \in {n, n + 1}
    BY HoldersFinite, FS_AddElement
<1>6. Cardinality(Holders(k)') \in {n, n + 1} BY <1>2, <1>5
<1> HIDE DEF n
<1> QED BY <1>3, <1>4, <1>5, <1>6 DEF n

\* No admission takes a key with a finite limit above that limit, although the
\* limit is compared with a counter and may have been lowered in between
\* (AcquireSlot, SetConcurrencyLimit).
THEOREM KeyLimitKept == KeySpec => KeyAdmitsWithinLimit
<1>1. KeyInv /\ [KeyNext]_keyVars =>
        [\A s \in Scopes : ~(Holders(s)' \subseteq Holders(s)) /\ limit[s] > 0
            => Cardinality(Holders(s)') <= limit[s]]_keyVars
    BY AdmitsWithinLimitStep
<1> QED BY <1>1, KeyInvHolds, PTL DEF KeySpec, KeyAdmitsWithinLimit

\* A slot is never handed from one key to another (AcquireSlot's duplicate branch).
THEOREM SlotStaysWithKey == KeySpec => SlotNeverChangesKey
<1>1. ASSUME KeyInv, [KeyNext]_keyVars, NEW r \in Requests, HasSlot(r)
      PROVE  activeRequests'[r] \in {activeRequests[r], NoScope}
  <2>1. ASSUME NEW s \in Scopes \cup {NoScope}, NEW x \in Requests \cup {NoRequest},
               AcquireSlot(s, x)
        PROVE  activeRequests'[r] = activeRequests[r]
      BY <1>1, <2>1 DEF AcquireSlot, SlotAcquired, keyVars, HasSlot, KeyInv, KeyTypeOK
  <2>2. ASSUME NEW x \in Requests \cup {NoRequest}, ReleaseSlot(x)
        PROVE  activeRequests'[r] \in {activeRequests[r], NoScope}
      BY <1>1, <2>2 DEF ReleaseSlot, keyVars, KeyInv, KeyTypeOK
  <2>3. CloseStore => activeRequests'[r] = NoScope BY DEF CloseStore
  <2> QED BY <1>1, <2>1, <2>2, <2>3 DEF KeyNext, SetConcurrencyLimit, SwitchDatabase, keyVars
<1>2. KeyInv /\ [KeyNext]_keyVars =>
        [\A r \in Requests :
           HasSlot(r) => activeRequests'[r] \in {activeRequests[r], NoScope}]_keyVars
    BY <1>1
<1> QED BY <1>2, KeyInvHolds, PTL DEF KeySpec, SlotNeverChangesKey

-----------------------------------------------------------------------------
(* Refinement of the abstract limiter *)

\* The abstract limiter counts as the rest of this module does.
LEMMA SameCardinality == \A S : KeyPool!Cardinality(S) = Cardinality(S)
<1> QED BY Zenon DEF KeyPool!Cardinality, Cardinality

\* A reservation is an owner entering a pool that has room: the counter, by the
\* invariant, tells how many there are.
LEMMA AcquireRefines ==
    ASSUME KeyInv, NEW s \in Scopes \cup {NoScope}, NEW r \in Requests \cup {NoRequest},
           AcquireSlot(s, r)
    PROVE  KeyPool!Next \/ UNCHANGED KeyPool!vars
<1>1. CASE SlotAcquired(s, r)
  <2>1. s \in Scopes /\ r \in Requests /\ activeRequests[r] # s
      BY <1>1, KeySlotsAssumption DEF SlotAcquired, HasSlot
  <2>2. KeyPool!HasRoom(s)
    <3>1. KeyPool!Members(s) = Holders(s) BY DEF KeyPool!Members, Holders
    <3>2. activeByScope[s] = Cardinality(Holders(s)) /\ activeByScope[s] \in Nat
          /\ limit[s] \in Nat
        BY <2>1, KeySlotsAssumption DEF KeyInv, KeyCountsHolders, KeyTypeOK
    <3>3. limit[s] = 0 \/ activeByScope[s] < limit[s]
        BY <1>1, <3>2 DEF SlotAcquired, KeyFull
    <3> QED BY <3>1, <3>2, <3>3, SameCardinality DEF KeyPool!HasRoom
  <2>3. KeyPool!Occupy(r, s)
      BY <1>1, <2>1, <2>2 DEF AcquireSlot, KeyPool!Occupy
  <2> QED BY <2>1, <2>3 DEF KeyPool!Next
<1>2. CASE ~SlotAcquired(s, r)
    BY <1>2 DEF AcquireSlot, keyVars, KeyPool!vars
<1> QED BY <1>1, <1>2

LEMMA KeyStepRefines == KeyInv /\ [KeyNext]_keyVars => [KeyPool!Next]_KeyPool!vars
<1> SUFFICES ASSUME KeyInv, [KeyNext]_keyVars
             PROVE  KeyPool!Next \/ UNCHANGED KeyPool!vars
    OBVIOUS
<1>1. ASSUME NEW s \in Scopes \cup {NoScope}, NEW r \in Requests \cup {NoRequest},
             AcquireSlot(s, r)
      PROVE  KeyPool!Next \/ UNCHANGED KeyPool!vars
    BY <1>1, AcquireRefines
<1>2. ASSUME NEW r \in Requests \cup {NoRequest}, ReleaseSlot(r)
      PROVE  KeyPool!Next \/ UNCHANGED KeyPool!vars
  <2>1. CASE r # NoRequest /\ HasSlot(r)
    <3>1. KeyPool!Vacate({r})
        BY <1>2, <2>1 DEF ReleaseSlot, KeyPool!Vacate, KeyInv, KeyTypeOK
    <3> QED BY <2>1, <3>1 DEF KeyPool!Next
  <2>2. CASE ~(r # NoRequest /\ HasSlot(r))
      BY <1>2, <2>2 DEF ReleaseSlot, keyVars, KeyPool!vars
  <2> QED BY <2>1, <2>2
<1>3. ASSUME NEW s \in Scopes, NEW n \in KeyLimits, SetConcurrencyLimit(s, n)
      PROVE  KeyPool!Next
  <2>1. KeyPool!Recap BY <1>3 DEF SetConcurrencyLimit, KeyPool!Recap, KeyInv, KeyTypeOK
  <2> QED BY <2>1 DEF KeyPool!Next
<1>4. SwitchDatabase => KeyPool!Next
    BY DEF SwitchDatabase, KeyPool!Recap, KeyPool!Next
<1>5. CASE CloseStore
  <2>1. KeyPool!Vacate(Requests) BY <1>5 DEF CloseStore, KeyPool!Vacate
  <2> QED BY <2>1 DEF KeyPool!Next
<1>6. UNCHANGED keyVars => UNCHANGED KeyPool!vars BY DEF keyVars, KeyPool!vars
<1> QED BY <1>1, <1>2, <1>3, <1>4, <1>5, <1>6 DEF KeyNext

\* The store's two maps, counters included, implement the limiter that counts
\* its members: the optimisation is invisible (concurrency.go).
THEOREM KeySlotsImplementPool == KeySpec => ImplementsKeyPool
<1>1. KeyInit => KeyPool!Init BY DEF KeyInit, KeyPool!Init
<1> QED BY <1>1, KeyInvHolds, KeyStepRefines, PTL
        DEF KeySpec, ImplementsKeyPool, KeyPool!Spec
-----------------------------------------------------------------------------
AccountInv == AccountTypeOK /\ AccountCountsOccupants

\* act counts the owners that req places on each account.
CountsOf(req, act) ==
    \A p \in Refs : act[p] = Cardinality({x \in Owners : req[x] = p})

\* Flat: an alias leads to a root in one hop.
Flat(rt) == rt \in [Refs -> Refs] /\ \A x \in Refs : rt[rt[x]] = rt[x]

-----------------------------------------------------------------------------
(* Limits *)

LEMMA NatMinimum ==
    ASSUME NEW T \in SUBSET Nat, T # {}
    PROVE  \E x \in T : \A y \in T : x <= y
<1> DEFINE R == OpToRel(<, Nat)
<1>1. IsWellFoundedOn(R, Nat) BY NatLessThanWellFounded, Zenon
<1> HIDE DEF R
<1>2. PICK x \in T : \A y \in T : <<y, x>> \notin R BY <1>1, WFMin, Zenon
<1>3. ASSUME NEW y \in T PROVE x <= y
  <2>1. <<y, x>> \in R <=> y < x BY Zenon DEF R, OpToRel
  <2> QED BY <1>2, <2>1
<1> QED BY <1>3

\* The strictest of some limits is one of them or 0, and a finite limit among
\* them makes it finite and no larger (stricterAccountLimit).
LEMMA StrictestProperties ==
    ASSUME NEW S \in SUBSET AccountLimits
    PROVE  /\ Strictest(S) \in AccountLimits
           /\ \A n \in S : n > 0 => Strictest(S) \in 1..n
<1> USE AccountSlotsAssumption
<1>1. CASE S \subseteq {0} BY <1>1 DEF Strictest
<1>2. CASE ~(S \subseteq {0})
  <2>1. \E n \in S \ {0} : \A m \in S \ {0} : n <= m BY <1>2, NatMinimum
  <2>2. Strictest(S) \in S \ {0} /\ \A m \in S \ {0} : Strictest(S) <= m
      BY <1>2, <2>1 DEF Strictest
  <2> DEFINE n == Strictest(S)
  <2> HIDE DEF n
  <2>3. n \in AccountLimits /\ n \in Nat /\ n > 0
    <3>1. n \in S /\ n # 0 BY <2>2 DEF n
    <3>2. n \in AccountLimits BY <3>1
    <3>3. n \in Nat BY <3>2
    <3> QED BY <3>1, <3>2, <3>3
  <2>4. \A m \in S : m > 0 => m \in Nat /\ n <= m BY <2>2 DEF n
  <2>5. \A m \in S : m > 0 => n \in 1..m BY <2>3, <2>4
  <2> QED BY <2>3, <2>5 DEF n
<1> QED BY <1>1, <1>2

\* Normalising gives each member of a pool the same limit, at most its own
\* finite one (normalizeAccountAliases).
LEMMA NormalizedProperties ==
    ASSUME NEW rt \in [Refs -> Refs], NEW pol \in [Refs -> AccountLimits]
    PROVE  /\ Normalized(rt, pol) \in [Refs -> AccountLimits]
           /\ \A x \in Refs : pol[x] > 0 => Normalized(rt, pol)[x] \in 1..pol[x]
           /\ \A x, y \in Refs : rt[x] = rt[y]
                => Normalized(rt, pol)[x] = Normalized(rt, pol)[y]
<1> DEFINE L(x) == {pol[y] : y \in {z \in Refs : rt[z] = rt[x]}}
<1>1. ASSUME NEW x \in Refs
      PROVE  L(x) \in SUBSET AccountLimits /\ pol[x] \in L(x)
    OBVIOUS
<1>2. ASSUME NEW x \in Refs
      PROVE  /\ Strictest(L(x)) \in AccountLimits
             /\ pol[x] > 0 => Strictest(L(x)) \in 1..pol[x]
    BY <1>1, StrictestProperties
<1>3. ASSUME NEW x \in Refs, NEW y \in Refs, rt[x] = rt[y] PROVE L(x) = L(y)
    BY <1>3
<1>4. Normalized(rt, pol) = [x \in Refs |-> Strictest(L(x))] BY DEF Normalized
<1> HIDE DEF L
<1> QED BY <1>2, <1>3, <1>4

\* Joining two pools keeps every chain of aliases one hop long, and what shared
\* a pool still does (migrateCredentialRefs).
LEMMA JoinedProperties ==
    ASSUME NEW rt, Flat(rt), NEW from \in Refs, NEW to \in Refs
    PROVE  /\ Flat(Joined(rt, from, to))
           /\ Joined(rt, from, to)[from] = Joined(rt, from, to)[to]
           /\ \A x, y \in Refs : rt[x] = rt[y]
                => Joined(rt, from, to)[x] = Joined(rt, from, to)[y]
<1> QED BY DEF Flat, Joined

LEMMA RotatedProperties ==
    ASSUME Flat(root), NEW a \in Refs, NEW x \in Refs, NEW b \in Refs, NEW y \in Refs
    PROVE  /\ Flat(RotatedRoots(a, x, b, y))
           /\ RotatedRoots(a, x, b, y)[a] = RotatedRoots(a, x, b, y)[x]
           /\ \A u, v \in Refs : root[u] = root[v]
                => RotatedRoots(a, x, b, y)[u] = RotatedRoots(a, x, b, y)[v]
<1>1. Flat(Joined(root, a, x)) /\ Joined(root, a, x)[a] = Joined(root, a, x)[x]
      /\ \A u, v \in Refs : root[u] = root[v] => Joined(root, a, x)[u] = Joined(root, a, x)[v]
    BY JoinedProperties
<1> DEFINE j == Joined(root, a, x)
<1> HIDE DEF j
<1>2. Flat(Joined(j, b, y))
      /\ \A u, v \in Refs : j[u] = j[v] => Joined(j, b, y)[u] = Joined(j, b, y)[v]
    BY <1>1, JoinedProperties DEF j
<1> QED BY <1>1, <1>2 DEF j, RotatedRoots

-----------------------------------------------------------------------------
(* One owner leaves or enters an account *)

LEMMA OwnersCount ==
    ASSUME NEW req, NEW p
    PROVE  /\ IsFiniteSet({x \in Owners : req[x] = p})
           /\ Cardinality({x \in Owners : req[x] = p}) \in Nat
<1> QED BY FS_Subset, FS_CardinalityType, AccountSlotsAssumption

LEMMA Leave ==
    ASSUME NEW req \in [Owners -> Refs \cup {NoRef}], NEW act \in [Refs -> Nat],
           CountsOf(req, act), NEW o \in Owners, req[o] # NoRef
    PROVE  /\ act[req[o]] > 0
           /\ [act EXCEPT ![req[o]] = @ - 1] \in [Refs -> Nat]
           /\ CountsOf([req EXCEPT ![o] = NoRef], [act EXCEPT ![req[o]] = @ - 1])
<1> DEFINE p == req[o]
           On(q) == {x \in Owners : req[x] = q}
           req1 == [req EXCEPT ![o] = NoRef]
<1>1. p \in Refs OBVIOUS
<1>2. \A q \in Refs : IsFiniteSet(On(q)) /\ Cardinality(On(q)) \in Nat BY OwnersCount
<1>3. act[p] = Cardinality(On(p)) BY <1>1 DEF CountsOf
<1>4. o \in On(p) OBVIOUS
<1>5. Cardinality(On(p)) # 0 BY <1>1, <1>2, <1>4, FS_EmptySet
<1>6. act[p] > 0 BY <1>1, <1>2, <1>3, <1>5
<1>7. ASSUME NEW q \in Refs
      PROVE  [act EXCEPT ![p] = @ - 1][q] = Cardinality({x \in Owners : req1[x] = q})
  <2>1. CASE q = p
    <3>1. {x \in Owners : req1[x] = q} = On(p) \ {o}
        BY <1>1, <2>1, AccountSlotsAssumption
    <3>2. Cardinality(On(p) \ {o}) = Cardinality(On(p)) - 1
        BY <1>1, <1>2, <1>4, FS_RemoveElement
    <3> QED BY <1>1, <1>3, <2>1, <3>1, <3>2
  <2>2. CASE q # p
    <3>1. {x \in Owners : req1[x] = q} = On(q) BY <2>2, AccountSlotsAssumption
    <3> QED BY <2>2, <3>1 DEF CountsOf
  <2> QED BY <2>1, <2>2
<1> QED BY <1>1, <1>6, <1>7 DEF CountsOf

LEMMA Enter ==
    ASSUME NEW req \in [Owners -> Refs \cup {NoRef}], NEW act \in [Refs -> Nat],
           CountsOf(req, act), NEW o \in Owners, req[o] = NoRef, NEW p \in Refs
    PROVE  CountsOf([req EXCEPT ![o] = p], [act EXCEPT ![p] = @ + 1])
<1> DEFINE On(q) == {x \in Owners : req[x] = q}
           req1 == [req EXCEPT ![o] = p]
<1>1. ASSUME NEW q \in Refs
      PROVE  [act EXCEPT ![p] = @ + 1][q] = Cardinality({x \in Owners : req1[x] = q})
  <2>1. CASE q = p
    <3>1. {x \in Owners : req1[x] = q} = On(q) \cup {o} BY <2>1
    <3>2. o \notin On(q) BY AccountSlotsAssumption
    <3>3. Cardinality(On(q) \cup {o}) = Cardinality(On(q)) + 1
      <4>1. IsFiniteSet(On(q)) BY OwnersCount
      <4> HIDE DEF On
      <4> QED BY <3>2, <4>1, FS_AddElement
    <3> QED BY <2>1, <3>1, <3>3 DEF CountsOf
  <2>2. CASE q # p
    <3>1. {x \in Owners : req1[x] = q} = On(q) BY <2>2, AccountSlotsAssumption
    <3> QED BY <2>2, <3>1 DEF CountsOf
  <2> QED BY <2>1, <2>2
<1> QED BY <1>1 DEF CountsOf

-----------------------------------------------------------------------------
(* Every operation preserves the invariant *)

LEMMA AccountInvInit == AccountInit => AccountInv
<1> SUFFICES ASSUME AccountInit PROVE AccountInv OBVIOUS
<1> USE AccountSlotsAssumption
<1>1. AccountTypeOK BY DEF AccountInit, AccountTypeOK, NoAliases, NoLimits
<1>2. ASSUME NEW p \in Refs PROVE active[p] = Cardinality(Occupants(p))
  <2>1. Occupants(p) = {} BY DEF AccountInit, Occupants
  <2> QED BY <2>1, FS_EmptySet DEF AccountInit
<1> QED BY <1>1, <1>2 DEF AccountInv, AccountCountsOccupants

\* The invariant in terms of the table and its counters.
LEMMA AccountInvIsCount ==
    AccountInv <=> /\ requests \in [Owners -> Refs \cup {NoRef}]
                   /\ active \in [Refs -> Nat]
                   /\ CountsOf(requests, active)
                   /\ Flat(root)
                   /\ policy \in [Refs -> AccountLimits]
<1> QED BY DEF AccountInv, AccountTypeOK, AccountCountsOccupants, CountsOf, Occupants, Flat

\* The table once an owner has left any account but p is still counted right:
\* a retry on another account, granted or not (acquire).
LEMMA DepartedCounts ==
    ASSUME AccountInv, NEW o \in Owners, NEW p \in Refs
    PROVE  /\ Departed(o, p) \in [Owners -> Refs \cup {NoRef}]
           /\ DepartedActive(o, p) \in [Refs -> Nat]
           /\ CountsOf(Departed(o, p), DepartedActive(o, p))
           /\ Departed(o, p)[o] \in {p, NoRef}
<1>1. CASE Occupies(o) /\ requests[o] # p
  <2>1. Departed(o, p) = [requests EXCEPT ![o] = NoRef] BY <1>1 DEF Departed
  <2>2. DepartedActive(o, p) = [active EXCEPT ![requests[o]] = @ - 1]
      BY <1>1 DEF DepartedActive
  <2>3. requests[o] # NoRef BY <1>1 DEF Occupies
  <2>4. [active EXCEPT ![requests[o]] = @ - 1] \in [Refs -> Nat]
        /\ CountsOf([requests EXCEPT ![o] = NoRef], [active EXCEPT ![requests[o]] = @ - 1])
      BY <2>3, AccountInvIsCount, Leave
  <2> QED BY <2>1, <2>2, <2>4, AccountInvIsCount
<1>2. CASE ~(Occupies(o) /\ requests[o] # p)
  <2>1. Departed(o, p) = requests
      BY <1>2, AccountInvIsCount DEF Departed, Occupies
  <2>2. DepartedActive(o, p) = active BY <1>2 DEF DepartedActive
  <2> QED BY <1>2, <2>1, <2>2, AccountInvIsCount DEF Occupies
<1> QED BY <1>1, <1>2

LEMMA AcquireAccountInv ==
    ASSUME AccountInv, NEW ref \in Refs, NEW o \in Owners \cup {NoOwner},
           AcquireAccount(ref, o)
    PROVE  AccountInv'
<1> DEFINE p == root[ref]
<1> USE AccountSlotsAssumption
<1>1. p \in Refs BY AccountInvIsCount DEF Flat
<1>2. UNCHANGED settingsVars BY DEF AcquireAccount
<1>3. CASE o = NoOwner \/ requests[o] = p
  <2>1. UNCHANGED slotVars BY <1>3 DEF AcquireAccount
  <2> QED BY <1>2, <2>1 DEF slotVars, settingsVars, AccountInv, AccountTypeOK,
             AccountCountsOccupants, Occupants
<1>4. CASE o # NoOwner /\ requests[o] # p /\ AccountGranted(ref, o)
  <2>1. requests' = [requests EXCEPT ![o] = p]
        /\ active' = [DepartedActive(o, p) EXCEPT ![p] = @ + 1]
      BY <1>4 DEF AcquireAccount
  <2>2. o \in Owners BY <1>4
  <2>3. Departed(o, p)[o] = NoRef /\ requests' = [Departed(o, p) EXCEPT ![o] = p]
      BY <1>4, <2>1, <2>2, AccountInvIsCount DEF Departed
  <2>4. CountsOf([Departed(o, p) EXCEPT ![o] = p],
                 [DepartedActive(o, p) EXCEPT ![p] = @ + 1])
      BY <1>1, <2>2, <2>3, DepartedCounts, Enter
  <2>5. CountsOf(requests', active') BY <2>1, <2>3, <2>4
  <2>6. CountsOf(requests, active)' BY <2>5 DEF CountsOf
  <2>7. requests' \in [Owners -> Refs \cup {NoRef}] /\ active' \in [Refs -> Nat]
      BY <1>1, <2>1, <2>2, DepartedCounts, AccountInvIsCount
  <2>8. Flat(root)' /\ policy' \in [Refs -> AccountLimits]
      BY <1>2, AccountInvIsCount DEF settingsVars, Flat
  <2> QED BY <2>6, <2>7, <2>8 DEF AccountInv, AccountTypeOK, AccountCountsOccupants,
             CountsOf, Occupants, Flat
<1>5. CASE o # NoOwner /\ requests[o] # p /\ ~AccountGranted(ref, o)
  <2>1. requests' = Departed(o, p) /\ active' = DepartedActive(o, p)
      BY <1>5 DEF AcquireAccount
  <2>2. CountsOf(requests', active')
        /\ requests' \in [Owners -> Refs \cup {NoRef}] /\ active' \in [Refs -> Nat]
      BY <1>1, <1>5, <2>1, DepartedCounts
  <2>3. CountsOf(requests, active)' BY <2>2 DEF CountsOf
  <2>4. Flat(root)' /\ policy' \in [Refs -> AccountLimits]
      BY <1>2, AccountInvIsCount DEF settingsVars, Flat
  <2> QED BY <2>2, <2>3, <2>4 DEF AccountInv, AccountTypeOK, AccountCountsOccupants,
             CountsOf, Occupants, Flat
<1> QED BY <1>3, <1>4, <1>5

\* An idempotent release: the floor at zero never decides (release).
LEMMA ReleaseAccountInv ==
    ASSUME AccountInv, NEW o \in Owners \cup {NoOwner}, ReleaseAccount(o)
    PROVE  AccountInv'
<1>1. UNCHANGED settingsVars BY DEF ReleaseAccount
<1>2. CASE o = NoOwner \/ ~Occupies(o)
  <2>1. UNCHANGED slotVars BY <1>2 DEF ReleaseAccount
  <2> QED BY <1>1, <2>1 DEF slotVars, settingsVars, AccountInv, AccountTypeOK,
             AccountCountsOccupants, Occupants
<1>3. CASE o # NoOwner /\ Occupies(o)
  <2> DEFINE p == requests[o]
  <2>1. o \in Owners /\ p # NoRef /\ p \in Refs
      BY <1>3, AccountInvIsCount DEF Occupies
  <2>2. active[p] > 0 /\ [active EXCEPT ![p] = @ - 1] \in [Refs -> Nat]
        /\ CountsOf([requests EXCEPT ![o] = NoRef], [active EXCEPT ![p] = @ - 1])
      BY <2>1, AccountInvIsCount, Leave
  <2>3. requests' = [requests EXCEPT ![o] = NoRef]
        /\ active' = [active EXCEPT ![p] = IF @ - 1 <= 0 THEN 0 ELSE @ - 1]
      BY <1>3 DEF ReleaseAccount
  <2>4. active' = [active EXCEPT ![p] = @ - 1]
    <3>1. active[p] \in Nat \ {0} BY <2>1, <2>2, AccountInvIsCount
    <3>2. (IF active[p] - 1 <= 0 THEN 0 ELSE active[p] - 1) = active[p] - 1 BY <3>1
    <3> QED BY <2>3, <3>2, Zenon
  <2>5. CountsOf(requests', active') BY <2>2, <2>3, <2>4
  <2>6. requests' \in [Owners -> Refs \cup {NoRef}] /\ active' \in [Refs -> Nat]
      BY <2>1, <2>2, <2>3, <2>4, AccountInvIsCount
  <2> QED BY <1>1, <2>5, <2>6, AccountInvIsCount DEF settingsVars, AccountInv,
             AccountTypeOK, AccountCountsOccupants, CountsOf, Occupants, Flat
<1> QED BY <1>2, <1>3

\* Releasing several owners at once takes away as many as each account had of
\* them (pruneModelTestsLocked).
LEMMA ReleaseAccountsInv ==
    ASSUME AccountInv, NEW S \in SUBSET Owners, ReleaseAccounts(S)
    PROVE  AccountInv'
<1>1. UNCHANGED settingsVars BY DEF ReleaseAccounts
<1>2. requests' \in [Owners -> Refs \cup {NoRef}]
    BY AccountInvIsCount DEF ReleaseAccounts
<1>3. ASSUME NEW p \in Refs
      PROVE  active'[p] \in Nat /\ active'[p] = Cardinality(Occupants(p)')
  <2> DEFINE Gone == {o \in S : requests[o] = p}
  <2>1. Occupants(p)' = Occupants(p) \ Gone
      BY AccountSlotsAssumption, AccountInvIsCount DEF Occupants, ReleaseAccounts
  <2>2. Occupants(p) \cap Gone = Gone BY DEF Occupants
  <2>3. IsFiniteSet(Occupants(p)) BY OwnersCount DEF Occupants
  <2>4. IsFiniteSet(Occupants(p) \ Gone)
        /\ Cardinality(Occupants(p) \ Gone)
             = Cardinality(Occupants(p)) - Cardinality(Occupants(p) \cap Gone)
      BY <2>3, FS_Difference
  <2>5. active'[p] = active[p] - Cardinality(Gone) BY DEF ReleaseAccounts
  <2>6. active[p] = Cardinality(Occupants(p))
      BY DEF AccountInv, AccountCountsOccupants
  <2>7. Cardinality(Occupants(p) \ Gone) \in Nat BY <2>4, FS_CardinalityType
  <2> QED BY <2>1, <2>2, <2>4, <2>5, <2>6, <2>7
<1>4. active' \in [Refs -> Nat] BY <1>3 DEF ReleaseAccounts
<1> QED BY <1>1, <1>2, <1>3, <1>4, AccountInvIsCount DEF settingsVars, AccountInv,
           AccountTypeOK, AccountCountsOccupants, Flat

\* An edit of the limits leaves slots and aliases alone.
LEMMA SetPoliciesInv ==
    ASSUME AccountInv, NEW D \in SUBSET Refs, NEW patch \in [D -> AccountLimits],
           NEW cleared \in BOOLEAN, SetPolicies(patch, cleared)
    PROVE  AccountInv'
<1> USE AccountSlotsAssumption
<1> DEFINE base == IF cleared THEN [x \in Refs |-> 0] ELSE policy
           named(x) == {y \in DOMAIN patch : root[y] = root[x]}
           given(x) == {patch[y] : y \in named(x)}
           merged == [x \in Refs |-> IF named(x) = {} THEN base[x] ELSE Strictest(given(x))]
<1>1. ASSUME NEW x \in Refs PROVE Strictest(given(x)) \in AccountLimits
  <2>1. given(x) \in SUBSET AccountLimits OBVIOUS
  <2> HIDE DEF given
  <2> QED BY <2>1, StrictestProperties
<1>2. base \in [Refs -> AccountLimits] BY AccountInvIsCount
<1>3. merged \in [Refs -> AccountLimits]
  <2> HIDE DEF named, given, base
  <2> QED BY <1>1, <1>2
<1>4. Patched(patch, cleared) = Normalized(root, merged) BY DEF Patched
<1>5. policy' \in [Refs -> AccountLimits]
  <2> HIDE DEF merged
  <2>1. root \in [Refs -> Refs] BY AccountInvIsCount DEF Flat
  <2> QED BY <1>3, <1>4, <2>1, NormalizedProperties DEF SetPolicies
<1> QED BY <1>5 DEF SetPolicies, AccountInv, AccountTypeOK, AccountCountsOccupants, Occupants

\* A rotation joins pools and recounts the requests it moves.
LEMMA MigrateInv ==
    ASSUME AccountInv, NEW a \in Refs, NEW x \in Refs, NEW b \in Refs, NEW y \in Refs,
           MigrateCredentialRefs(a, x, b, y)
    PROVE  AccountInv'
<1> DEFINE rt == RotatedRoots(a, x, b, y)
<1>1. Flat(rt) BY AccountInvIsCount, RotatedProperties
<1>2. root' = rt /\ policy' = Normalized(rt, policy)
      /\ requests' = [o \in Owners |-> IF Occupies(o) THEN rt[requests[o]] ELSE NoRef]
      /\ active' = [p \in Refs |-> Cardinality({o \in Owners : requests'[o] = p})]
    BY DEF MigrateCredentialRefs
<1> HIDE DEF rt
<1>3. policy' \in [Refs -> AccountLimits]
    BY <1>1, <1>2, NormalizedProperties, AccountInvIsCount DEF Flat
<1>4. requests' \in [Owners -> Refs \cup {NoRef}]
    BY <1>1, <1>2, AccountInvIsCount DEF Flat, Occupies
<1>5. active' \in [Refs -> Nat]
  <2> DEFINE n(p) == Cardinality({o \in Owners : requests'[o] = p})
  <2>1. \A p \in Refs : n(p) \in Nat BY OwnersCount
  <2>2. active' = [p \in Refs |-> n(p)] BY <1>2
  <2> HIDE DEF n
  <2> QED BY <2>1, <2>2
<1> QED BY <1>1, <1>2, <1>3, <1>4, <1>5 DEF AccountInv, AccountTypeOK,
           AccountCountsOccupants, Occupants, Flat

-----------------------------------------------------------------------------
(* Every operation is a step of the abstract limiter *)

LEMMA SameCount == \A S : AccountPool!Cardinality(S) = Cardinality(S)
<1> QED BY Zenon DEF AccountPool!Cardinality, Cardinality

\* An acquisition is an owner entering a pool that has room; a refused retry is
\* an owner leaving one.
LEMMA AcquireAccountRefines ==
    ASSUME AccountInv, NEW ref \in Refs, NEW o \in Owners \cup {NoOwner},
           AcquireAccount(ref, o)
    PROVE  AccountPool!Next \/ UNCHANGED AccountPool!vars
<1> DEFINE p == root[ref]
<1> USE AccountSlotsAssumption
<1>1. p \in Refs BY AccountInvIsCount DEF Flat
<1>2. UNCHANGED policy BY DEF AcquireAccount, settingsVars
<1>3. CASE o = NoOwner \/ requests[o] = p
    BY <1>2, <1>3 DEF AcquireAccount, slotVars, AccountPool!vars
<1>4. CASE o # NoOwner /\ requests[o] # p /\ AccountGranted(ref, o)
  <2>1. o \in Owners /\ requests' = [requests EXCEPT ![o] = p]
      BY <1>4 DEF AcquireAccount
  <2>2. policy[p] = 0 \/ active[p] < policy[p] BY <1>4 DEF AccountGranted
  <2>3. active[p] = Cardinality(AccountPool!Members(p))
      BY <1>1 DEF AccountPool!Members, AccountInv, AccountCountsOccupants, Occupants
  <2>4. AccountPool!HasRoom(p) BY <2>2, <2>3, SameCount DEF AccountPool!HasRoom
  <2>5. AccountPool!Occupy(o, p) BY <1>2, <1>4, <2>1, <2>4 DEF AccountPool!Occupy
  <2> QED BY <1>1, <2>1, <2>5 DEF AccountPool!Next
<1>5. CASE o # NoOwner /\ requests[o] # p /\ ~AccountGranted(ref, o)
  <2>1. o \in Owners /\ requests' = Departed(o, p) BY <1>5 DEF AcquireAccount
  <2>2. AccountPool!Vacate({o})
      BY <1>2, <1>5, <2>1, AccountInvIsCount DEF Departed, AccountPool!Vacate
  <2> QED BY <2>1, <2>2 DEF AccountPool!Next
<1> QED BY <1>3, <1>4, <1>5

LEMMA ReleaseAccountRefines ==
    ASSUME AccountInv, NEW o \in Owners \cup {NoOwner}, ReleaseAccount(o)
    PROVE  AccountPool!Next \/ UNCHANGED AccountPool!vars
<1>1. UNCHANGED policy BY DEF ReleaseAccount, settingsVars
<1>2. CASE o = NoOwner \/ ~Occupies(o)
    BY <1>1, <1>2 DEF ReleaseAccount, slotVars, AccountPool!vars
<1>3. CASE o # NoOwner /\ Occupies(o)
  <2>1. AccountPool!Vacate({o})
      BY <1>1, <1>3, AccountInvIsCount DEF ReleaseAccount, AccountPool!Vacate
  <2> QED BY <1>3, <2>1 DEF AccountPool!Next
<1> QED BY <1>2, <1>3

\* Owners that leave together.
LEMMA ReleaseAccountsRefines ==
    ASSUME NEW S \in SUBSET Owners, ReleaseAccounts(S)
    PROVE  AccountPool!Next
<1>1. AccountPool!Vacate(S) BY DEF ReleaseAccounts, settingsVars, AccountPool!Vacate
<1> QED BY <1>1 DEF AccountPool!Next

\* A rotation is a merge of pools.
LEMMA MigrateRefines ==
    ASSUME AccountInv, NEW a \in Refs, NEW x \in Refs, NEW b \in Refs, NEW y \in Refs,
           MigrateCredentialRefs(a, x, b, y)
    PROVE  AccountPool!Next
<1>1. RotatedRoots(a, x, b, y) \in [Refs -> Refs]
    BY AccountInvIsCount, RotatedProperties DEF Flat
<1>2. policy' \in [Refs -> AccountLimits]
    BY MigrateInv DEF AccountInv, AccountTypeOK
<1>3. AccountPool!Merge(RotatedRoots(a, x, b, y))
    BY <1>2 DEF MigrateCredentialRefs, AccountPool!Merge, Occupies
<1> QED BY <1>1, <1>3 DEF AccountPool!Next
=============================================================================
