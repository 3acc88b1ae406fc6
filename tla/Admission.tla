------------------------------ MODULE Admission ------------------------------
(***************************************************************************)
(* How the plugin admits a request, internal/plugin/intercept.go: the      *)
(* before-auth interceptor reserves a slot of the caller's API key, the    *)
(* after-auth interceptor one of the selected upstream account, and        *)
(* request.complete gives both back.  The host may deliver the completion  *)
(* while interceptor calls for the same request are still running.         *)
(*                                                                         *)
(* A call is one invocation of an interceptor on a goroutine of the host.  *)
(* Its steps are the sections between which another goroutine can run:     *)
(* the critical sections of App.admissionsMu, Store.mu and                 *)
(* accountRuntime.mu, and the unlocked work before them.                   *)
(***************************************************************************)
EXTENDS KeySlots, AccountSlots

CONSTANTS
    Calls,      \* interceptor invocations
    NoCall,
    Tests,      \* model tests, which occupy accounts under a lease
    MaxTests    \* modelTestMaxActive, 8 in the code

ASSUME AdmissionAssumption ==
    /\ IsFiniteSet(Calls) /\ NoCall \notin Calls
    /\ Owners = Requests \cup Tests
    /\ Requests \cap Tests = {}
    /\ NoOwner = NoRequest
    /\ MaxTests \in Nat

VARIABLES
    enabled,        \* Config.Enabled
    admissionsMu,   \* the call that holds App.admissionsMu, or NoCall
    calls,          \* App.admissions[r].calls: 0 where the map has no entry
    marked,         \* App.admissions[r].completed
    pc,             \* pc[c]: where call c is
    on,             \* on[c]: the request it is about
    scope,          \* scope[c]: the caller scope it carries (before auth)
    account,        \* account[c]: the selected account (after auth), or NoRef
    reserved,       \* reserved[c]: the call made a reservation: slot.Acquired before
                    \* auth, a granted acquire after auth
    lease,          \* lease[t]: the lease of model test t
    completed,      \* history: requests whose completion was handled
    cleared,        \* history: requests let through before auth
    admitted,       \* history: requests let through with a key slot
    granted         \* history: account of the last attempt let through, or NoRef

callVars == <<pc, on, scope, account, reserved>>
admissionVars == <<admissionsMu, calls, marked>>
historyVars == <<completed, cleared, admitted, granted>>
vars == <<keyVars, accountVars, enabled, admissionVars, callVars, lease, historyVars>>

LockFree == admissionsMu = NoCall
Goto(c, label) == pc' = [pc EXCEPT ![c] = label]
Lock(c) == LockFree /\ admissionsMu' = c

InBefore == {"b_check", "b_price", "b_quota", "b_rollback", "b_unlock"}
InAfter == {"a_check", "a_prune", "a_acquire", "a_gate", "a_drop", "a_unlock"}
HoldsLock == {"b_quota", "b_rollback", "b_unlock",
              "a_prune", "a_acquire", "a_gate", "a_drop", "a_unlock"}
Labels == {"idle", "end"} \cup InBefore \cup InAfter

\* The lease of a model test runs out by the clock.
Leases == {"none", "live", "expired"}
Expired == {t \in Tests : lease[t] = "expired"}

-----------------------------------------------------------------------------
(* beginAdmission and endAdmission *)

\* A call about an identified request registers itself before anything else.
BeginAdmission(r) ==
    IF r = NoRequest THEN UNCHANGED admissionVars
    ELSE /\ LockFree
         /\ calls' = [calls EXCEPT ![r] = @ + 1]
         /\ UNCHANGED <<admissionsMu, marked>>

\* The last call to end takes the completion marker with it.
EndAdmission(c) ==
    LET r == on[c]
    IN  /\ pc[c] = "end"
        /\ IF r = NoRequest THEN UNCHANGED admissionVars
           ELSE /\ LockFree
                /\ calls' = [calls EXCEPT ![r] = @ - 1]
                /\ marked' = [marked EXCEPT ![r] = IF calls[r] = 1 THEN FALSE ELSE @]
                /\ UNCHANGED admissionsMu
        /\ Goto(c, "idle")
        /\ on' = [on EXCEPT ![c] = NoRequest]
        /\ scope' = [scope EXCEPT ![c] = NoScope]
        /\ account' = [account EXCEPT ![c] = NoRef]
        /\ reserved' = [reserved EXCEPT ![c] = FALSE]
        /\ UNCHANGED <<keyVars, accountVars, enabled, lease, historyVars>>

-----------------------------------------------------------------------------
(* interceptBeforeAuth *)

\* The host starts no interceptor call for a request it has completed.  A request
\* that generates nothing takes no slot, like one whose key is unknown: both
\* carry NoScope here.
BeginBefore(c, r, s) ==
    /\ pc[c] = "idle"
    /\ r \notin completed
    /\ BeginAdmission(r)
    /\ Goto(c, "b_check")
    /\ on' = [on EXCEPT ![c] = r]
    /\ scope' = [scope EXCEPT ![c] = s]
    /\ UNCHANGED <<keyVars, accountVars, enabled, account, reserved, lease, historyVars>>

\* Disabled: everything passes.  Otherwise the risk policy or the routing
\* refuses the request, or it goes on to refresh the reference prices.
CheckBefore(c) ==
    /\ pc[c] = "b_check"
    /\ \/ ~enabled /\ Goto(c, "end") /\ cleared' = cleared \cup {on[c]}
       \/ enabled /\ Goto(c, "end") /\ UNCHANGED cleared
       \/ enabled /\ Goto(c, "b_price") /\ UNCHANGED cleared
    /\ UNCHANGED <<keyVars, accountVars, enabled, admissionVars, on, scope, account,
                   reserved, lease, completed, admitted, granted>>

\* The final admission takes the lock, looks for a completion that arrived in
\* the meantime, and reserves a slot of the caller's key.
ReserveSlot(c) ==
    LET r == on[c]
        gone == r # NoRequest /\ marked[r]
    IN  /\ pc[c] = "b_price"
        /\ Lock(c)
        /\ IF gone THEN UNCHANGED keyVars ELSE AcquireSlot(scope[c], r)
        /\ reserved' = [reserved EXCEPT ![c] = ~gone /\ SlotAcquired(scope[c], r)]
        /\ Goto(c, IF ~gone /\ SlotAllowed(scope[c], r) THEN "b_quota" ELSE "b_unlock")
        /\ UNCHANGED <<accountVars, enabled, calls, marked, on, scope, account, lease,
                       historyVars>>

\* Mutant: a refusal gives back the slot of an earlier admission, too.
RollsBackAlways(c) == on[c] # NoRequest

\* The deferred rollback is armed by a reservation of this very call.
RollsBack(c) == reserved[c]

\* Store.AuthorizeModel admits the request or refuses it for its quota.
AuthorizeQuota(c) ==
    /\ pc[c] = "b_quota"
    /\ \/ /\ Goto(c, "b_unlock")
          /\ cleared' = cleared \cup {on[c]}
          /\ admitted' = IF scope[c] # NoScope /\ on[c] # NoRequest
                         THEN admitted \cup {on[c]} ELSE admitted
       \/ /\ Goto(c, IF RollsBack(c) THEN "b_rollback" ELSE "b_unlock")
          /\ UNCHANGED <<cleared, admitted>>
    /\ UNCHANGED <<keyVars, accountVars, enabled, admissionVars, on, scope, account,
                   reserved, lease, completed, granted>>

\* A refused admission gives back the slot it reserved itself.
RollbackSlot(c) ==
    /\ pc[c] = "b_rollback"
    /\ ReleaseSlot(on[c])
    /\ Goto(c, "b_unlock")
    /\ UNCHANGED <<accountVars, enabled, admissionVars, on, scope, account, reserved,
                   lease, historyVars>>

-----------------------------------------------------------------------------
(* interceptAfterAuth *)

\* The host has selected a credential for a request let through before; a retry
\* comes back with another one.
BeginAfter(c, r, ref) ==
    /\ pc[c] = "idle"
    /\ r \in cleared \ completed
    /\ BeginAdmission(r)
    /\ Goto(c, "a_check")
    /\ on' = [on EXCEPT ![c] = r]
    /\ account' = [account EXCEPT ![c] = ref]
    /\ UNCHANGED <<keyVars, accountVars, enabled, scope, reserved, lease, historyVars>>

\* A completed request is refused on the spot; enforceSelectedCredential may
\* refuse the account.
CheckAfter(c) ==
    LET gone == on[c] # NoRequest /\ marked[on[c]]
    IN  /\ pc[c] = "a_check"
        /\ Lock(c)
        /\ \/ gone /\ Goto(c, "a_unlock")
           \/ ~gone /\ enabled /\ Goto(c, "a_drop")
           \/ ~gone /\ Goto(c, "a_prune")
        /\ UNCHANGED <<keyVars, accountVars, enabled, calls, marked, on, scope, account,
                       reserved, lease, historyVars>>

\* pruneModelTests gives back the accounts of expired model tests.
PruneModelTests(c) ==
    /\ pc[c] = "a_prune"
    /\ ReleaseAccounts(Expired)
    /\ lease' = [t \in Tests |-> IF t \in Expired THEN "none" ELSE lease[t]]
    /\ Goto(c, IF enabled THEN "a_acquire" ELSE "a_gate")
    /\ UNCHANGED <<keyVars, enabled, admissionVars, on, scope, account, reserved,
                   historyVars>>

\* enforceAccountRuntime.  Without a verified account the request passes only if
\* no account is limited; the Turn State conditions may refuse it either way.
AcquireSelected(c) ==
    /\ pc[c] = "a_acquire"
    /\ \/ UNCHANGED <<accountVars, reserved>> /\ Goto(c, "a_drop")
       \/ /\ account[c] = NoRef
          /\ \A x \in Refs : policy[x] = 0
          /\ UNCHANGED <<accountVars, reserved>> /\ Goto(c, "a_gate")
       \/ /\ account[c] # NoRef
          /\ AcquireAccount(account[c], on[c])
          /\ LET ok == AccountGranted(account[c], on[c])
             IN  /\ Goto(c, IF ok THEN "a_gate" ELSE "a_drop")
                 /\ reserved' = [reserved EXCEPT ![c] = ok]
    /\ UNCHANGED <<keyVars, enabled, admissionVars, on, scope, account, lease,
                   historyVars>>

\* A protected account needs a valid template (Manager.BeforeRequired).
TurnStateGate(c) ==
    /\ pc[c] = "a_gate"
    /\ \/ /\ enabled /\ Goto(c, "a_drop") /\ UNCHANGED granted
       \/ /\ Goto(c, "a_unlock")
          /\ granted' = IF reserved[c] /\ on[c] # NoRequest
                        THEN [granted EXCEPT ![on[c]] = account[c]] ELSE granted
    /\ UNCHANGED <<keyVars, accountVars, enabled, admissionVars, on, scope, account,
                   reserved, lease, completed, cleared, admitted>>

\* Mutant: a refused attempt keeps the account it was given.
DropNothing(c) ==
    /\ pc[c] = "a_drop"
    /\ Goto(c, "a_unlock")
    /\ granted' = IF on[c] = NoRequest THEN granted
                  ELSE [granted EXCEPT ![on[c]] = NoRef]
    /\ UNCHANGED <<keyVars, accountVars, enabled, admissionVars, on, scope, account,
                   reserved, lease, completed, cleared, admitted>>

\* A terminated attempt gives back whatever account slot the request holds.
DropAccount(c) ==
    /\ pc[c] = "a_drop"
    /\ ReleaseAccount(on[c])
    /\ Goto(c, "a_unlock")
    /\ granted' = IF on[c] = NoRequest THEN granted
                  ELSE [granted EXCEPT ![on[c]] = NoRef]
    /\ UNCHANGED <<keyVars, enabled, admissionVars, on, scope, account, reserved, lease,
                   completed, cleared, admitted>>

\* Mutant: the call returns with the lock.
ReturnLocked(c) ==
    /\ pc[c] \in {"b_unlock", "a_unlock"}
    /\ Goto(c, "end")
    /\ UNCHANGED <<keyVars, accountVars, enabled, admissionVars, on, scope, account,
                   reserved, lease, historyVars>>

Unlock(c) ==
    /\ pc[c] \in {"b_unlock", "a_unlock"}
    /\ admissionsMu' = NoCall
    /\ Goto(c, "end")
    /\ UNCHANGED <<keyVars, accountVars, enabled, calls, marked, on, scope, account,
                   reserved, lease, historyVars>>
-----------------------------------------------------------------------------
(* completeRequest *)

\* Mutants: nobody is told of the completion; a request without calls is marked.
MarkNever(r) == marked
MarkAlways(r) == [marked EXCEPT ![r] = TRUE]

\* The marker is for calls that are still running.
MarkCompleted(r) == [marked EXCEPT ![r] = @ \/ calls[r] > 0]

\* Completion and the admissions exclude each other: a running call finds the
\* marker, a finished one has left slots to release.
CompleteRequest(r) ==
    /\ LockFree
    /\ marked' = MarkCompleted(r)
    /\ ReleaseSlot(r)
    /\ ReleaseAccount(r)
    /\ completed' = completed \cup {r}
    /\ admitted' = admitted \ {r}
    /\ granted' = [granted EXCEPT ![r] = NoRef]
    /\ UNCHANGED <<enabled, admissionsMu, calls, callVars, lease, cleared>>

-----------------------------------------------------------------------------
(* Model tests (model_test_runtime.go) and management edits run beside all this *)

\* prepareModelTest prunes, checks the number of tests and acquires the account.
PrepareModelTest(t, ref) ==
    /\ lease[t] = "none"
    /\ Expired = {}
    /\ Cardinality({u \in Tests : lease[u] # "none"}) < MaxTests
    /\ AcquireAccount(ref, t)
    /\ lease' = [lease EXCEPT ![t] = IF AccountGranted(ref, t) THEN "live" ELSE @]
    /\ UNCHANGED <<keyVars, enabled, admissionVars, callVars, historyVars>>

\* Every model test call starts by pruning.
PruneExpired ==
    /\ Expired # {}
    /\ ReleaseAccounts(Expired)
    /\ lease' = [t \in Tests |-> IF t \in Expired THEN "none" ELSE lease[t]]
    /\ UNCHANGED <<keyVars, enabled, admissionVars, callVars, historyVars>>

\* A test whose outcome is known gives its account back; a broken management
\* connection leaves the lease to expire.
CompleteModelTest(t) ==
    /\ lease[t] = "live"
    /\ ReleaseAccount(t)
    /\ lease' = [lease EXCEPT ![t] = "none"]
    /\ UNCHANGED <<keyVars, enabled, admissionVars, callVars, historyVars>>

ExpireLease(t) ==
    /\ lease[t] = "live"
    /\ lease' = [lease EXCEPT ![t] = "expired"]
    /\ UNCHANGED <<keyVars, accountVars, enabled, admissionVars, callVars, historyVars>>

ToggleEnabled ==
    /\ enabled' = ~enabled
    /\ UNCHANGED <<keyVars, accountVars, admissionVars, callVars, lease, historyVars>>

EditKeyLimit ==
    /\ \E s \in Scopes, n \in KeyLimits : SetConcurrencyLimit(s, n)
    /\ UNCHANGED <<accountVars, enabled, admissionVars, callVars, lease, historyVars>>

EditAccounts ==
    /\ \/ \E x \in Refs, n \in AccountLimits : SetPolicies([y \in {x} |-> n], FALSE)
       \/ \E a, x \in Refs : a # x /\ MigrateCredentialRefs(a, x, a, x)
    /\ UNCHANGED <<keyVars, enabled, admissionVars, callVars, lease, historyVars>>

-----------------------------------------------------------------------------
Init ==
    /\ KeyInit
    /\ AccountInit
    /\ enabled = TRUE
    /\ admissionsMu = NoCall
    /\ calls = [r \in Requests |-> 0]
    /\ marked = [r \in Requests |-> FALSE]
    /\ pc = [c \in Calls |-> "idle"]
    /\ on = [c \in Calls |-> NoRequest]
    /\ scope = [c \in Calls |-> NoScope]
    /\ account = [c \in Calls |-> NoRef]
    /\ reserved = [c \in Calls |-> FALSE]
    /\ lease = [t \in Tests |-> "none"]
    /\ completed = {}
    /\ cleared = {}
    /\ admitted = {}
    /\ granted = [r \in Requests |-> NoRef]

Start(c) ==
    \/ \E r \in Requests \cup {NoRequest}, s \in Scopes \cup {NoScope} : BeginBefore(c, r, s)
    \/ \E r \in Requests \cup {NoRequest}, x \in Refs \cup {NoRef} : BeginAfter(c, r, x)

\* The steps of a started call.
Before(c) ==
    \/ CheckBefore(c)
    \/ ReserveSlot(c)
    \/ AuthorizeQuota(c)
    \/ RollbackSlot(c)

After(c) ==
    \/ CheckAfter(c)
    \/ PruneModelTests(c)
    \/ AcquireSelected(c)
    \/ TurnStateGate(c)
    \/ DropAccount(c)

Continue(c) == Before(c) \/ After(c) \/ Unlock(c) \/ EndAdmission(c)

Manage ==
    \/ \E t \in Tests : CompleteModelTest(t) \/ ExpireLease(t)
    \/ \E t \in Tests, ref \in Refs : PrepareModelTest(t, ref)
    \/ PruneExpired
    \/ ToggleEnabled
    \/ EditKeyLimit
    \/ EditAccounts

Next ==
    \/ \E c \in Calls : Start(c) \/ Continue(c)
    \/ \E r \in Requests : CompleteRequest(r)
    \/ Manage

Spec == Init /\ [][Next]_vars

\* A started call keeps running: its downloads time out, and sync.Mutex hands a
\* lock that is asked for for long to the first in line, hence strong fairness.
\* The host completes every request exactly because it owns its life cycle.
Fairness ==
    /\ \A c \in Calls : SF_vars(Continue(c))
    /\ \A r \in Requests : SF_vars(CompleteRequest(r) /\ r \notin completed)

FairSpec == Spec /\ Fairness

-----------------------------------------------------------------------------
(* Properties *)

\* Every map and flag of the admission path is well formed (intercept.go,
\* app.go), and the lock is held by the call that is in a critical section.
TypeOK ==
    /\ KeyTypeOK
    /\ AccountTypeOK
    /\ enabled \in BOOLEAN
    /\ admissionsMu \in Calls \cup {NoCall}
    /\ calls \in [Requests -> Nat]
    /\ marked \in [Requests -> BOOLEAN]
    /\ pc \in [Calls -> Labels]
    /\ on \in [Calls -> Requests \cup {NoRequest}]
    /\ scope \in [Calls -> Scopes \cup {NoScope}]
    /\ account \in [Calls -> Refs \cup {NoRef}]
    /\ reserved \in [Calls -> BOOLEAN]
    /\ lease \in [Tests -> Leases]
    /\ completed \subseteq Requests
    /\ cleared \subseteq Requests \cup {NoRequest}
    /\ admitted \subseteq Requests
    /\ granted \in [Requests -> Refs \cup {NoRef}]

\* A request whose completion was handled holds neither a key slot nor an
\* account slot, ever again, although calls that began before the completion may
\* still reach their reservations after it (completeRequest and the two
\* interceptors share admissionsMu and the marker).
CompletedHoldsNothing ==
    \A r \in completed : ~HasSlot(r) /\ ~Occupies(r)

\* Between critical sections the key slots are exactly those of the requests that
\* were admitted and not yet completed: a refused admission leaves nothing
\* behind, and a duplicate admission that the quota refuses does not take the
\* slot of the first one away (interceptBeforeAuth's deferred rollback).
SlotsAreAdmissions ==
    LockFree => {r \in Requests : HasSlot(r)} = admitted

\* Between critical sections a request occupies the account of its last attempt
\* that was let through, or none if that attempt was refused: a retry moves the
\* slot, a refused retry ends it, a rotation renames it, and model tests occupy
\* accounts exactly for as long as their leases exist (interceptAfterAuth,
\* acquire, release, pruneModelTests).
AccountSlotsFollowAttempts ==
    /\ LockFree =>
        \A r \in Requests :
            requests[r] = IF granted[r] = NoRef THEN NoRef ELSE root[granted[r]]
    /\ \A t \in Tests : Occupies(t) <=> lease[t] # "none"

InFlight(r) == {c \in Calls : pc[c] # "idle" /\ on[c] = r}

\* The table of admissions has an entry for a request exactly while calls for it
\* are running, and the entry carries the marker exactly if the request was
\* completed meanwhile: the table neither grows with the traffic nor forgets a
\* completion that a running call has yet to see (beginAdmission, endAdmission).
MarkersFollowCalls ==
    \A r \in Requests :
        /\ calls[r] = Cardinality(InFlight(r))
        /\ marked[r] <=> (r \in completed /\ calls[r] > 0)

\* Every interceptor call returns (lock order, deferred unlocks).
CallsReturn ==
    \A c \in Calls : pc[c] # "idle" ~> pc[c] = "idle"

\* Every slot a request takes is given back for good, whatever happens between
\* its admission and its completion.
SlotsFreedForGood ==
    \A r \in Requests :
        HasSlot(r) \/ Occupies(r) ~> [](~HasSlot(r) /\ ~Occupies(r))
=============================================================================
