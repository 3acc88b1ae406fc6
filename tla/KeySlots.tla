------------------------------ MODULE KeySlots ------------------------------
(***************************************************************************)
(* The generation slots of downstream API keys, internal/billing/          *)
(* concurrency.go.  The store keeps one map from request to caller scope   *)
(* and, beside it, a counter per scope; every operation runs under         *)
(* Store.mu, so each is one step here.                                     *)
(***************************************************************************)
EXTENDS Naturals, FiniteSets

CONSTANTS
    Requests,   \* request identifiers issued by the host
    NoRequest,  \* the empty request identifier
    Scopes,     \* caller scopes (digests of API keys)
    NoScope,    \* the empty scope: a request no key can be charged with
    KeyLimits   \* concurrency limits an operator may set; 0 is unlimited

ASSUME KeySlotsAssumption ==
    /\ IsFiniteSet(Requests)
    /\ NoRequest \notin Requests
    /\ NoScope \notin Scopes
    /\ KeyLimits \subseteq Nat /\ 0 \in KeyLimits

VARIABLES
    activeRequests,  \* Store.activeRequests: NoScope where the map has no entry
    activeByScope,   \* Store.activeByScope: 0 where the map has no entry
    limit            \* KeyState.ConcurrencyLimit: 0 for a key not yet known

keyVars == <<activeRequests, activeByScope, limit>>

HasSlot(r) == activeRequests[r] # NoScope
Holders(s) == {r \in Requests : activeRequests[r] = s}

\* Mutant: one request too many.
KeyOverfull(s) == limit[s] > 0 /\ activeByScope[s] > limit[s]

KeyFull(s) == limit[s] > 0 /\ activeByScope[s] >= limit[s]

\* SlotDecision.Acquired: this call creates the reservation.
SlotAcquired(s, r) ==
    /\ s # NoScope
    /\ r # NoRequest
    /\ ~HasSlot(r)
    /\ ~KeyFull(s)

\* SlotDecision.Allowed.  A request that already holds a slot is let through
\* for the same key only; without an identifier a finite limit cannot be kept.
SlotAllowed(s, r) ==
    \/ s = NoScope
    \/ /\ s # NoScope /\ r = NoRequest
       /\ limit[s] = 0
    \/ /\ s # NoScope /\ r # NoRequest /\ HasSlot(r)
       /\ activeRequests[r] = s
    \/ SlotAcquired(s, r)

AcquireSlot(s, r) ==
    IF SlotAcquired(s, r)
    THEN /\ activeRequests' = [activeRequests EXCEPT ![r] = s]
         /\ activeByScope' = [activeByScope EXCEPT ![s] = @ + 1]
         /\ UNCHANGED limit
    ELSE UNCHANGED keyVars

\* Idempotent; a request without a slot, or without an identifier, changes nothing.
ReleaseSlot(r) ==
    IF r # NoRequest /\ HasSlot(r)
    THEN /\ activeRequests' = [activeRequests EXCEPT ![r] = NoScope]
         /\ activeByScope' = [activeByScope EXCEPT
                ![activeRequests[r]] = IF @ > 1 THEN @ - 1 ELSE 0]
         /\ UNCHANGED limit
    ELSE UNCHANGED keyVars

\* The saved edit; a refused or unsaved one leaves the state alone.
SetConcurrencyLimit(s, n) ==
    /\ limit' = [limit EXCEPT ![s] = n]
    /\ UNCHANGED <<activeRequests, activeByScope>>

\* Another billing database replaces the working set; running requests keep
\* their slots.
SwitchDatabase ==
    /\ limit' \in [Scopes -> KeyLimits]
    /\ UNCHANGED <<activeRequests, activeByScope>>

\* Store.Close forgets every reservation.
CloseStore ==
    /\ activeRequests' = [r \in Requests |-> NoScope]
    /\ activeByScope' = [s \in Scopes |-> 0]
    /\ UNCHANGED limit

KeyInit ==
    /\ activeRequests = [r \in Requests |-> NoScope]
    /\ activeByScope = [s \in Scopes |-> 0]
    /\ limit \in [Scopes -> KeyLimits]

KeyNext ==
    \/ \E s \in Scopes \cup {NoScope}, r \in Requests \cup {NoRequest} : AcquireSlot(s, r)
    \/ \E r \in Requests \cup {NoRequest} : ReleaseSlot(r)
    \/ \E s \in Scopes, n \in KeyLimits : SetConcurrencyLimit(s, n)
    \/ SwitchDatabase
    \/ CloseStore

KeySpec == KeyInit /\ [][KeyNext]_keyVars

-----------------------------------------------------------------------------
(* Properties *)

\* The store's maps hold requests, scopes and natural counters (concurrency.go).
KeyTypeOK ==
    /\ activeRequests \in [Requests -> Scopes \cup {NoScope}]
    /\ activeByScope \in [Scopes -> Nat]
    /\ limit \in [Scopes -> KeyLimits]

\* The per-key counter, which alone decides admission, is exactly the number of
\* requests that hold one of the key's slots: no interleaving of duplicate
\* admissions, duplicate completions, limit edits and a shutdown lets the two
\* maps of the store drift apart (AcquireSlot, ReleaseSlot, Close).
KeyCountsHolders ==
    \A s \in Scopes : activeByScope[s] = Cardinality(Holders(s))

\* A request gains a slot of a key with a finite limit only if, counting the
\* requests themselves, the key stays within the limit; lowering a limit below
\* the running requests evicts nobody but admits nobody either (AcquireSlot).
KeyAdmitsWithinLimit ==
    [][\A s \in Scopes :
         ~(Holders(s)' \subseteq Holders(s)) /\ limit[s] > 0
            => Cardinality(Holders(s)') <= limit[s]]_keyVars

\* A reservation is never transferred: while a request holds a slot no other
\* key's admission can take it over, it can only be given back (AcquireSlot's
\* duplicate branch).
SlotNeverChangesKey ==
    [][\A r \in Requests :
         HasSlot(r) => activeRequests'[r] \in {activeRequests[r], NoScope}]_keyVars

\* The two maps implement the abstract limiter: the counter never matters.
KeyPool == INSTANCE SlotPool WITH
    Owners <- Requests, Pools <- Scopes, NoPool <- NoScope, Caps <- KeyLimits,
    held <- activeRequests, cap <- limit

\* Every step of the store's slot table is a step of the abstract limiter.
ImplementsKeyPool == KeyPool!Spec
=============================================================================
