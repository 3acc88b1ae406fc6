-------------------------- MODULE AdmissionProofs --------------------------
(***************************************************************************)
(* What holds of the admission path for every number of overlapping calls, *)
(* requests, model tests, keys and accounts.                               *)
(*                                                                         *)
(* The argument for CompletedHoldsNothing: a call that is past its check   *)
(* holds the lock, so its request cannot be completed until it returns     *)
(* (PastCheckLive); a call before its check sees the marker, because the   *)
(* table of admissions counts the running calls exactly                    *)
(* (MarkersFollowCalls).                                                   *)
(*                                                                         *)
(* The argument for the two slot tables: inside a critical section the one *)
(* call there may have reserved a key slot it has yet to admit or to roll  *)
(* back (Undecided), or have moved an account slot it has yet to note or   *)
(* to drop (Moving); every other slot is an admission or an attempt        *)
(* (OwnersInv).                                                            *)
(***************************************************************************)
EXTENDS Admission, SlotsProofs

\* TypeOK without the two slot tables, whose types belong to their invariants.
ControlTypeOK ==
    /\ enabled \in BOOLEAN
    /\ admissionsMu \in Calls \cup {NoCall}
    /\ calls \in [Requests -> Nat]
    /\ marked \in [Requests -> BOOLEAN]
    /\ pc \in [Calls -> Labels]
    /\ on \in [Calls -> Requests \cup {NoRequest}]
    /\ scope \in [Calls -> Scopes \cup {NoScope}]
    /\ account \in [Calls -> Refs \cup {NoRef}]
    /\ reserved \in [Calls -> BOOLEAN]
    /\ lease \in [Tests -> Leases]
    /\ completed \subseteq Requests
    /\ cleared \subseteq Requests \cup {NoRequest}
    /\ admitted \subseteq Requests
    /\ granted \in [Requests -> Refs \cup {NoRef}]

\* The lock is held by the one call that is in a critical section.
LockOK == \A c \in Calls : pc[c] \in HoldsLock <=> admissionsMu = c

\* Past the check for a completion, inside the critical section.
PastCheck == {"b_quota", "b_rollback", "a_prune", "a_acquire", "a_gate", "a_drop"}
PastCheckLive == \A c \in Calls : pc[c] \in PastCheck => on[c] \notin completed

AdmissionInv ==
    /\ ControlTypeOK
    /\ KeyInv
    /\ AccountInv
    /\ LockOK
    /\ MarkersFollowCalls
    /\ PastCheckLive
    /\ CompletedHoldsNothing

LEMMA InFlightFinite ==
    ASSUME NEW r PROVE IsFiniteSet(InFlight(r)) /\ Cardinality(InFlight(r)) \in Nat
<1> QED BY FS_Subset, FS_CardinalityType, AdmissionAssumption DEF InFlight

LEMMA AdmissionInvInit == Init => AdmissionInv
<1> SUFFICES ASSUME Init PROVE AdmissionInv OBVIOUS
<1>1. ControlTypeOK BY DEF Init, ControlTypeOK, Labels, Leases
<1>2. KeyInv /\ AccountInv BY KeyInvInit, AccountInvInit DEF Init
<1>3. LockOK /\ PastCheckLive
    BY AdmissionAssumption DEF Init, LockOK, PastCheckLive, HoldsLock, PastCheck
<1>4. MarkersFollowCalls
  <2>1. \A r \in Requests : InFlight(r) = {} BY DEF Init, InFlight
  <2> QED BY <2>1, FS_EmptySet DEF Init, MarkersFollowCalls
<1>5. CompletedHoldsNothing BY DEF Init, CompletedHoldsNothing
<1> QED BY <1>1, <1>2, <1>3, <1>4, <1>5 DEF AdmissionInv

-----------------------------------------------------------------------------
(* The key slots are only touched by their own operations *)

LEMMA KeyPart ==
    ASSUME ControlTypeOK, [Next]_vars
    PROVE  [KeyNext]_keyVars
<1> USE DEF ControlTypeOK
<1>1. ASSUME NEW c \in Calls, Start(c) \/ Continue(c) PROVE [KeyNext]_keyVars
  <2>1. CASE Start(c) BY <2>1 DEF Start, BeginBefore, BeginAfter
  <2>2. CASE Before(c)
    <3>1. CASE ReserveSlot(c)
        BY <3>1 DEF ReserveSlot, KeyNext
    <3>2. CASE RollbackSlot(c)
        BY <3>2 DEF RollbackSlot, KeyNext
    <3> QED BY <2>2, <3>1, <3>2 DEF Before, CheckBefore, AuthorizeQuota
  <2>3. CASE After(c)
      BY <2>3 DEF After, CheckAfter, PruneModelTests, AcquireSelected, TurnStateGate,
                  DropAccount
  <2>4. CASE Unlock(c) \/ EndAdmission(c) BY <2>4 DEF Unlock, EndAdmission
  <2> QED BY <1>1, <2>1, <2>2, <2>3, <2>4 DEF Continue
<1>2. ASSUME NEW r \in Requests, CompleteRequest(r) PROVE [KeyNext]_keyVars
    BY <1>2 DEF CompleteRequest, KeyNext
<1>3. CASE Manage
  <2>1. CASE EditKeyLimit BY <2>1 DEF EditKeyLimit, KeyNext
  <2> QED BY <1>3, <2>1 DEF Manage, CompleteModelTest, ExpireLease, PrepareModelTest,
             PruneExpired, ToggleEnabled, EditAccounts
<1>4. CASE UNCHANGED vars BY <1>4 DEF vars
<1> QED BY <1>1, <1>2, <1>3, <1>4 DEF Next

LEMMA KeyInvPreserved ==
    ASSUME ControlTypeOK, KeyInv, [Next]_vars PROVE KeyInv'
<1> QED BY KeyPart, KeyInvStep

-----------------------------------------------------------------------------
(* The account slots are only touched by theirs *)

LEMMA AccountUnchanged ==
    ASSUME AccountInv, UNCHANGED accountVars PROVE AccountInv'
<1> QED BY DEF accountVars, AccountInv, AccountTypeOK, AccountCountsOccupants, Occupants

LEMMA AccountPart ==
    ASSUME ControlTypeOK, AccountInv, [Next]_vars PROVE AccountInv'
<1> USE AdmissionAssumption DEF ControlTypeOK
<1>1. Expired \in SUBSET Owners BY DEF Expired
<1>2. ASSUME NEW c \in Calls, Start(c) \/ Continue(c) PROVE AccountInv'
  <2>1. CASE Start(c)
      BY <2>1, AccountUnchanged DEF Start, BeginBefore, BeginAfter
  <2>2. CASE Before(c)
      BY <2>2, AccountUnchanged
         DEF Before, CheckBefore, ReserveSlot, AuthorizeQuota, RollbackSlot
  <2>3. CASE PruneModelTests(c)
      BY <1>1, <2>3, ReleaseAccountsInv DEF PruneModelTests
  <2>4. CASE AcquireSelected(c)
    <3>1. CASE UNCHANGED accountVars BY <3>1, AccountUnchanged
    <3>2. CASE account[c] # NoRef /\ AcquireAccount(account[c], on[c])
        BY <3>2, AcquireAccountInv
    <3> QED BY <2>4, <3>1, <3>2 DEF AcquireSelected
  <2>5. CASE DropAccount(c) BY <2>5, ReleaseAccountInv DEF DropAccount
  <2>6. CASE CheckAfter(c) \/ TurnStateGate(c)
      BY <2>6, AccountUnchanged DEF CheckAfter, TurnStateGate
  <2>7. CASE Unlock(c) \/ EndAdmission(c)
      BY <2>7, AccountUnchanged DEF Unlock, EndAdmission
  <2> QED BY <1>2, <2>1, <2>2, <2>3, <2>4, <2>5, <2>6, <2>7 DEF Continue, After
<1>3. ASSUME NEW r \in Requests, CompleteRequest(r) PROVE AccountInv'
    BY <1>3, ReleaseAccountInv DEF CompleteRequest
<1>4. CASE Manage
  <2>1. ASSUME NEW t \in Tests, CompleteModelTest(t) PROVE AccountInv'
      BY <2>1, ReleaseAccountInv DEF CompleteModelTest
  <2>2. ASSUME NEW t \in Tests, NEW ref \in Refs, PrepareModelTest(t, ref)
        PROVE  AccountInv'
      BY <2>2, AcquireAccountInv DEF PrepareModelTest
  <2>3. CASE PruneExpired BY <1>1, <2>3, ReleaseAccountsInv DEF PruneExpired
  <2>4. CASE EditAccounts
    <3>1. ASSUME NEW x \in Refs, NEW n \in AccountLimits,
                 SetPolicies([y \in {x} |-> n], FALSE)
          PROVE  AccountInv'
      <4>1. {x} \in SUBSET Refs /\ [y \in {x} |-> n] \in [{x} -> AccountLimits] OBVIOUS
      <4> QED BY <3>1, <4>1, SetPoliciesInv
    <3>2. ASSUME NEW a \in Refs, NEW x \in Refs, MigrateCredentialRefs(a, x, a, x)
          PROVE  AccountInv'
        BY <3>2, MigrateInv
    <3> QED BY <2>4, <3>1, <3>2 DEF EditAccounts
  <2>5. ASSUME NEW t \in Tests, ExpireLease(t) PROVE AccountInv'
      BY <2>5, AccountUnchanged DEF ExpireLease
  <2>6. CASE ToggleEnabled \/ EditKeyLimit
      BY <2>6, AccountUnchanged DEF ToggleEnabled, EditKeyLimit
  <2> QED BY <1>4, <2>1, <2>2, <2>3, <2>4, <2>5, <2>6 DEF Manage
<1>5. CASE UNCHANGED vars BY <1>5, AccountUnchanged DEF vars
<1> QED BY <1>2, <1>3, <1>4, <1>5 DEF Next

-----------------------------------------------------------------------------
(* Control: the steps of a call, the lock and the table of admissions *)

Inner(c) == Before(c) \/ After(c) \/ Unlock(c)

\* A call that goes on stays on its request and registers nothing.
LEMMA InnerFrame ==
    ASSUME ControlTypeOK, NEW c \in Calls, Inner(c)
    PROVE  /\ UNCHANGED <<enabled, calls, marked, on, scope, account, completed>>
           /\ pc[c] # "idle"
           /\ \E l \in Labels \ {"idle"} : pc' = [pc EXCEPT ![c] = l]
<1> USE DEF Goto, Labels, InBefore, InAfter, admissionVars
<1>1. CASE CheckBefore(c) BY <1>1 DEF CheckBefore
<1>2. CASE ReserveSlot(c) BY <1>2 DEF ReserveSlot, historyVars
<1>3. CASE AuthorizeQuota(c) BY <1>3 DEF AuthorizeQuota
<1>4. CASE RollbackSlot(c) BY <1>4 DEF RollbackSlot, historyVars
<1>5. CASE CheckAfter(c) BY <1>5 DEF CheckAfter, historyVars
<1>6. CASE PruneModelTests(c) BY <1>6 DEF PruneModelTests, historyVars
<1>7. CASE AcquireSelected(c) BY <1>7 DEF AcquireSelected, historyVars
<1>8. CASE TurnStateGate(c) BY <1>8 DEF TurnStateGate
<1>9. CASE DropAccount(c) BY <1>9 DEF DropAccount
<1>10. CASE Unlock(c) BY <1>10 DEF Unlock, historyVars
<1> QED BY <1>1, <1>2, <1>3, <1>4, <1>5, <1>6, <1>7, <1>8, <1>9, <1>10
        DEF Inner, Before, After

LEMMA InnerTypes ==
    ASSUME ControlTypeOK, NEW c \in Calls, Inner(c)
    PROVE  ControlTypeOK'
<1> USE DEF ControlTypeOK
<1>1. pc' \in [Calls -> Labels] /\ UNCHANGED <<enabled, calls, marked, on, scope, account, completed>>
    BY InnerFrame
<1> DEFINE Rest == /\ admissionsMu' \in Calls \cup {NoCall}
                   /\ reserved' \in [Calls -> BOOLEAN]
                   /\ lease' \in [Tests -> Leases]
                   /\ cleared' \subseteq Requests \cup {NoRequest}
                   /\ admitted' \subseteq Requests
                   /\ granted' \in [Requests -> Refs \cup {NoRef}]
<1>2. ASSUME CheckBefore(c) \/ RollbackSlot(c) PROVE Rest
    BY <1>2 DEF CheckBefore, RollbackSlot, historyVars, admissionVars
<1>3. ASSUME ReserveSlot(c) PROVE Rest
  <2>1. reserved' \in [Calls -> BOOLEAN] BY <1>3 DEF ReserveSlot, SlotAcquired
  <2> QED BY <1>3, <2>1 DEF ReserveSlot, historyVars, Lock
<1>4. ASSUME AuthorizeQuota(c) PROVE Rest BY <1>4 DEF AuthorizeQuota, admissionVars
<1>5. ASSUME CheckAfter(c) PROVE Rest BY <1>5 DEF CheckAfter, historyVars, Lock
<1>6. ASSUME PruneModelTests(c) PROVE Rest
    BY <1>6 DEF PruneModelTests, historyVars, admissionVars, Leases
<1>7. ASSUME AcquireSelected(c) PROVE Rest
  <2>1. AccountGranted(account[c], on[c]) \in BOOLEAN BY DEF AccountGranted
  <2>2. reserved' \in [Calls -> BOOLEAN] BY <1>7, <2>1 DEF AcquireSelected
  <2> QED BY <1>7, <2>2 DEF AcquireSelected, historyVars, admissionVars
<1>8. ASSUME TurnStateGate(c) PROVE Rest
  <2>1. granted' \in [Requests -> Refs \cup {NoRef}] BY <1>8 DEF TurnStateGate
  <2> QED BY <1>8, <2>1 DEF TurnStateGate, admissionVars
<1>9. ASSUME DropAccount(c) PROVE Rest
  <2>1. granted' \in [Requests -> Refs \cup {NoRef}] BY <1>9 DEF DropAccount
  <2> QED BY <1>9, <2>1 DEF DropAccount, admissionVars
<1>10. ASSUME Unlock(c) PROVE Rest BY <1>10 DEF Unlock, historyVars
<1>11. Rest
  BY <1>2, <1>3, <1>4, <1>5, <1>6, <1>7, <1>8, <1>9, <1>10 DEF Inner, Before, After
<1> QED BY <1>1, <1>11

\* Entering a critical section needs the free lock; inside it nothing else moves
\* the lock; Unlock gives it back.
LEMMA InnerLock ==
    ASSUME ControlTypeOK, LockOK, NEW c \in Calls, Inner(c)
    PROVE  LockOK'
<1> USE AdmissionAssumption DEF ControlTypeOK, LockOK, HoldsLock, Goto, LockFree, Lock
<1>1. CASE CheckBefore(c) BY <1>1 DEF CheckBefore, admissionVars
<1>2. CASE ReserveSlot(c) BY <1>2 DEF ReserveSlot
<1>3. CASE AuthorizeQuota(c) BY <1>3 DEF AuthorizeQuota, admissionVars
<1>4. CASE RollbackSlot(c) BY <1>4 DEF RollbackSlot, admissionVars
<1>5. CASE CheckAfter(c) BY <1>5 DEF CheckAfter
<1>6. CASE PruneModelTests(c) BY <1>6 DEF PruneModelTests, admissionVars
<1>7. CASE AcquireSelected(c) BY <1>7 DEF AcquireSelected, admissionVars
<1>8. CASE TurnStateGate(c) BY <1>8 DEF TurnStateGate, admissionVars
<1>9. CASE DropAccount(c) BY <1>9 DEF DropAccount, admissionVars
<1>10. CASE Unlock(c) BY <1>10 DEF Unlock
<1> QED BY <1>1, <1>2, <1>3, <1>4, <1>5, <1>6, <1>7, <1>8, <1>9, <1>10
        DEF Inner, Before, After

\* The running calls of every request are the same after a step of a running call.
LEMMA InnerMarkers ==
    ASSUME ControlTypeOK, MarkersFollowCalls, NEW c \in Calls, Inner(c)
    PROVE  MarkersFollowCalls'
<1>1. PICK l \in Labels \ {"idle"} : pc' = [pc EXCEPT ![c] = l] BY InnerFrame
<1>2. pc[c] # "idle" /\ UNCHANGED <<calls, marked, on, completed>> BY InnerFrame
<1>3. \A r \in Requests : InFlight(r)' = InFlight(r)
    BY <1>1, <1>2 DEF InFlight, ControlTypeOK
<1> QED BY <1>2, <1>3 DEF MarkersFollowCalls

LEMMA CompletedCallsMarked ==
    ASSUME ControlTypeOK, MarkersFollowCalls, NEW c \in Calls,
           on[c] \in completed, pc[c] # "idle"
    PROVE  on[c] # NoRequest /\ marked[on[c]]
<1>1. on[c] \in Requests /\ c \in InFlight(on[c]) BY DEF InFlight, ControlTypeOK
<1>2. calls[on[c]] > 0
  <2>1. Cardinality(InFlight(on[c])) # 0 BY <1>1, InFlightFinite, FS_EmptySet
  <2> QED BY <1>1, <2>1, InFlightFinite DEF MarkersFollowCalls
<1> QED BY <1>1, <1>2, KeySlotsAssumption DEF MarkersFollowCalls

\* The two checks let only requests pass that are not completed: a completed
\* request of a running call is marked.
LEMMA InnerPastCheck ==
    ASSUME ControlTypeOK, MarkersFollowCalls, PastCheckLive, NEW c \in Calls, Inner(c)
    PROVE  PastCheckLive'
<1> USE DEF PastCheckLive, PastCheck, ControlTypeOK, Goto
<1>1. UNCHANGED <<on, completed>> BY InnerFrame
<1>2. on[c] \in completed /\ pc[c] # "idle" => on[c] # NoRequest /\ marked[on[c]]
    BY CompletedCallsMarked
<1>3. CASE CheckBefore(c) BY <1>1, <1>3 DEF CheckBefore
<1>4. CASE ReserveSlot(c) BY <1>1, <1>2, <1>4 DEF ReserveSlot
<1>5. CASE AuthorizeQuota(c) BY <1>1, <1>5 DEF AuthorizeQuota
<1>6. CASE RollbackSlot(c) BY <1>1, <1>6 DEF RollbackSlot
<1>7. CASE CheckAfter(c) BY <1>1, <1>2, <1>7 DEF CheckAfter
<1>8. CASE PruneModelTests(c) BY <1>1, <1>8 DEF PruneModelTests
<1>9. CASE AcquireSelected(c) BY <1>1, <1>9 DEF AcquireSelected
<1>10. CASE TurnStateGate(c) BY <1>1, <1>10 DEF TurnStateGate
<1>11. CASE DropAccount(c) BY <1>1, <1>11 DEF DropAccount
<1>12. CASE Unlock(c) BY <1>1, <1>12 DEF Unlock
<1> QED BY <1>3, <1>4, <1>5, <1>6, <1>7, <1>8, <1>9, <1>10, <1>11, <1>12
        DEF Inner, Before, After

\* A reservation is made for a request the check has just found live, or under
\* the lock that excludes its completion.
LEMMA InnerHoldsNothing ==
    ASSUME AdmissionInv, NEW c \in Calls, Inner(c)
    PROVE  CompletedHoldsNothing'
<1> USE DEF AdmissionInv
<1>1. UNCHANGED <<on, completed>> BY InnerFrame
<1>2. SUFFICES ASSUME NEW r \in completed PROVE ~HasSlot(r)' /\ ~Occupies(r)'
    BY <1>1 DEF CompletedHoldsNothing
<1>3. r \in Requests /\ r \in Owners /\ activeRequests[r] = NoScope /\ requests[r] = NoRef
    BY <1>2, AdmissionAssumption DEF CompletedHoldsNothing, HasSlot, Occupies, ControlTypeOK
<1>4. activeRequests'[r] = NoScope
  <2>1. CASE ReserveSlot(c)
    <3>1. CASE on[c] = r
      <4>1. r # NoRequest /\ marked[r]
          BY <2>1, <3>1, <1>2, CompletedCallsMarked DEF ReserveSlot
      <4> QED BY <1>3, <2>1, <3>1, <4>1 DEF ReserveSlot, keyVars
    <3>2. CASE on[c] # r
        BY <1>3, <2>1, <3>2 DEF ReserveSlot, AcquireSlot, keyVars, KeyInv, KeyTypeOK
    <3> QED BY <3>1, <3>2
  <2>2. CASE RollbackSlot(c)
      BY <1>3, <2>2 DEF RollbackSlot, ReleaseSlot, keyVars, KeyInv, KeyTypeOK
  <2>3. ASSUME ~ReserveSlot(c), ~RollbackSlot(c) PROVE UNCHANGED keyVars
      BY <2>3 DEF Inner, Before, After, CheckBefore, AuthorizeQuota, CheckAfter,
                  PruneModelTests, AcquireSelected, TurnStateGate, DropAccount, Unlock
  <2> QED BY <1>3, <2>1, <2>2, <2>3 DEF keyVars
<1>5. requests'[r] = NoRef
  <2>1. CASE PruneModelTests(c) BY <1>3, <2>1 DEF PruneModelTests, ReleaseAccounts
  <2>2. CASE AcquireSelected(c)
    <3>1. on[c] # r BY <1>2, <2>2 DEF AcquireSelected, PastCheckLive, PastCheck
    <3>2. CASE UNCHANGED accountVars BY <1>3, <3>2 DEF accountVars
    <3>3. CASE AcquireAccount(account[c], on[c])
      <4>1. requests \in [Owners -> Refs \cup {NoRef}] BY DEF AccountInv, AccountTypeOK
      <4> QED BY <1>3, <3>1, <3>3, <4>1 DEF AcquireAccount, Departed, slotVars
    <3> QED BY <2>2, <3>2, <3>3 DEF AcquireSelected
  <2>3. CASE DropAccount(c)
      BY <1>3, <2>3 DEF DropAccount, ReleaseAccount, slotVars, AccountInv, AccountTypeOK
  <2>4. ASSUME ~PruneModelTests(c), ~AcquireSelected(c), ~DropAccount(c)
        PROVE  UNCHANGED accountVars
      BY <2>4 DEF Inner, Before, After, CheckBefore, ReserveSlot, AuthorizeQuota,
                  RollbackSlot, CheckAfter, TurnStateGate, Unlock
  <2> QED BY <1>3, <2>1, <2>2, <2>3, <2>4 DEF accountVars
<1> QED BY <1>4, <1>5 DEF HasSlot, Occupies

LEMMA InnerInv ==
    ASSUME AdmissionInv, NEW c \in Calls, Inner(c), [Next]_vars
    PROVE  AdmissionInv'
<1> QED BY InnerTypes, InnerLock, InnerMarkers, InnerPastCheck, InnerHoldsNothing,
           KeyInvPreserved, AccountPart DEF AdmissionInv

-----------------------------------------------------------------------------
(* Calls begin and end *)

LEMMA StartInv ==
    ASSUME AdmissionInv, NEW c \in Calls, Start(c), [Next]_vars
    PROVE  AdmissionInv'
<1> USE DEF AdmissionInv
<1>1. PICK r \in Requests \cup {NoRequest} :
        /\ pc[c] = "idle" /\ r \notin completed
        /\ BeginAdmission(r)
        /\ pc' \in {[pc EXCEPT ![c] = "b_check"], [pc EXCEPT ![c] = "a_check"]}
        /\ on' = [on EXCEPT ![c] = r]
        /\ UNCHANGED <<keyVars, accountVars, enabled, reserved, lease, historyVars>>
    BY DEF Start, BeginBefore, BeginAfter, Goto
<1>2. scope' \in [Calls -> Scopes \cup {NoScope}]
    BY DEF Start, BeginBefore, BeginAfter, ControlTypeOK
<1>3. account' \in [Calls -> Refs \cup {NoRef}]
    BY DEF Start, BeginBefore, BeginAfter, ControlTypeOK
<1>4. /\ UNCHANGED <<admissionsMu, marked>>
      /\ IF r = NoRequest THEN calls' = calls ELSE calls' = [calls EXCEPT ![r] = @ + 1]
    BY <1>1 DEF BeginAdmission, admissionVars
<1>5. ControlTypeOK'
  <2>1. calls' \in [Requests -> Nat] BY <1>4 DEF ControlTypeOK
  <2>2. pc' \in [Calls -> Labels] /\ on' \in [Calls -> Requests \cup {NoRequest}]
      BY <1>1 DEF ControlTypeOK, Labels, InBefore, InAfter
  <2> QED BY <1>1, <1>2, <1>3, <1>4, <2>1, <2>2 DEF ControlTypeOK, historyVars
<1>6. LockOK' BY <1>1, <1>4 DEF LockOK, HoldsLock, ControlTypeOK
<1>7. PastCheckLive'
    BY <1>1, <1>4 DEF PastCheckLive, PastCheck, ControlTypeOK, historyVars
<1>8. MarkersFollowCalls'
  <2> SUFFICES ASSUME NEW q \in Requests
               PROVE  /\ calls'[q] = Cardinality(InFlight(q)')
                      /\ marked'[q] <=> (q \in completed' /\ calls'[q] > 0)
      BY DEF MarkersFollowCalls
  <2>1. calls[q] = Cardinality(InFlight(q)) /\ calls[q] \in Nat
        /\ (marked[q] <=> (q \in completed /\ calls[q] > 0))
      BY DEF MarkersFollowCalls, ControlTypeOK
  <2>2. completed' = completed /\ marked' = marked BY <1>1, <1>4 DEF historyVars
  <2>3. CASE q = r
    <3>1. InFlight(q)' = InFlight(q) \cup {c}
        BY <1>1, <2>3 DEF InFlight, ControlTypeOK
    <3>2. c \notin InFlight(q) BY <1>1 DEF InFlight
    <3>3. Cardinality(InFlight(q) \cup {c}) = Cardinality(InFlight(q)) + 1
        BY <3>2, InFlightFinite, FS_AddElement
    <3>4. calls'[q] = calls[q] + 1
        BY <1>4, <2>3, KeySlotsAssumption DEF ControlTypeOK
    <3> QED BY <1>1, <2>1, <2>2, <2>3, <3>1, <3>3, <3>4
  <2>4. CASE q # r
    <3>1. InFlight(q)' = InFlight(q) BY <1>1, <2>4 DEF InFlight, ControlTypeOK
    <3>2. calls'[q] = calls[q] BY <1>4, <2>4 DEF ControlTypeOK
    <3> QED BY <2>1, <2>2, <3>1, <3>2
  <2> QED BY <2>3, <2>4
<1>9. CompletedHoldsNothing'
    BY <1>1 DEF CompletedHoldsNothing, HasSlot, Occupies, keyVars, accountVars, historyVars
<1> QED BY <1>5, <1>6, <1>7, <1>8, <1>9, KeyInvPreserved, AccountPart

LEMMA EndAdmissionInv ==
    ASSUME AdmissionInv, NEW c \in Calls, EndAdmission(c), [Next]_vars
    PROVE  AdmissionInv'
<1> USE DEF AdmissionInv
<1> DEFINE r == on[c]
<1>1. /\ pc[c] = "end" /\ pc' = [pc EXCEPT ![c] = "idle"]
      /\ on' = [on EXCEPT ![c] = NoRequest]
      /\ UNCHANGED <<keyVars, accountVars, enabled, lease, historyVars, admissionsMu>>
    BY DEF EndAdmission, Goto, admissionVars
<1>2. scope' \in [Calls -> Scopes \cup {NoScope}] /\ account' \in [Calls -> Refs \cup {NoRef}]
      /\ reserved' \in [Calls -> BOOLEAN]
    BY DEF EndAdmission, ControlTypeOK
<1>3. r \in Requests =>
        /\ calls' = [calls EXCEPT ![r] = @ - 1]
        /\ marked' = [marked EXCEPT ![r] = IF calls[r] = 1 THEN FALSE ELSE @]
    BY KeySlotsAssumption DEF EndAdmission
<1>4. r \notin Requests => calls' = calls /\ marked' = marked
    BY DEF EndAdmission, ControlTypeOK, admissionVars
<1>5. ASSUME NEW q \in Requests
      PROVE  /\ calls'[q] = Cardinality(InFlight(q)') /\ calls'[q] \in Nat
             /\ marked'[q] <=> (q \in completed' /\ calls'[q] > 0)
  <2>1. calls[q] = Cardinality(InFlight(q)) /\ calls[q] \in Nat /\ marked[q] \in BOOLEAN
        /\ (marked[q] <=> (q \in completed /\ calls[q] > 0))
      BY DEF MarkersFollowCalls, ControlTypeOK
  <2>2. completed' = completed BY <1>1 DEF historyVars
  <2>3. CASE q = r
    <3>1. InFlight(q)' = InFlight(q) \ {c}
        BY <1>1, <2>3, KeySlotsAssumption DEF InFlight, ControlTypeOK
    <3>2. c \in InFlight(q) BY <1>1, <2>3 DEF InFlight
    <3>3. Cardinality(InFlight(q) \ {c}) = Cardinality(InFlight(q)) - 1
        BY <3>2, InFlightFinite, FS_RemoveElement
    <3>4. Cardinality(InFlight(q)) # 0 BY <3>2, InFlightFinite, FS_EmptySet
    <3>5. calls'[q] = calls[q] - 1
          /\ marked'[q] = IF calls[q] = 1 THEN FALSE ELSE marked[q]
        BY <1>3, <2>3 DEF ControlTypeOK
    <3> QED BY <2>1, <2>2, <3>1, <3>3, <3>4, <3>5
  <2>4. CASE q # r
    <3>1. InFlight(q)' = InFlight(q)
        BY <1>1, <2>4, KeySlotsAssumption DEF InFlight, ControlTypeOK
    <3>2. calls'[q] = calls[q] /\ marked'[q] = marked[q]
        BY <1>3, <1>4, <2>4 DEF ControlTypeOK
    <3> QED BY <2>1, <2>2, <3>1, <3>2
  <2> QED BY <2>3, <2>4
<1>6. MarkersFollowCalls' BY <1>5 DEF MarkersFollowCalls
<1>7. ControlTypeOK'
  <2>1. calls' \in [Requests -> Nat] /\ marked' \in [Requests -> BOOLEAN]
      BY <1>3, <1>4, <1>5 DEF ControlTypeOK
  <2>2. pc' \in [Calls -> Labels] /\ on' \in [Calls -> Requests \cup {NoRequest}]
      BY <1>1 DEF ControlTypeOK, Labels
  <2> QED BY <1>1, <1>2, <2>1, <2>2 DEF ControlTypeOK, historyVars
<1>8. LockOK' BY <1>1 DEF LockOK, HoldsLock, ControlTypeOK
<1>9. PastCheckLive'
    BY <1>1 DEF PastCheckLive, PastCheck, ControlTypeOK, historyVars
<1>10. CompletedHoldsNothing'
    BY <1>1 DEF CompletedHoldsNothing, HasSlot, Occupies, keyVars, accountVars, historyVars
<1> QED BY <1>6, <1>7, <1>8, <1>9, <1>10, KeyInvPreserved, AccountPart

-----------------------------------------------------------------------------
(* Completion *)

\* The lock is free, so no call is past its check: the request may be completed.
LEMMA CompleteRequestInv ==
    ASSUME AdmissionInv, NEW r \in Requests, CompleteRequest(r), [Next]_vars
    PROVE  AdmissionInv'
<1> USE DEF AdmissionInv
<1>1. /\ admissionsMu = NoCall
      /\ marked' = [marked EXCEPT ![r] = @ \/ calls[r] > 0]
      /\ completed' = completed \cup {r}
      /\ admitted' = admitted \ {r}
      /\ granted' = [granted EXCEPT ![r] = NoRef]
      /\ UNCHANGED <<enabled, admissionsMu, calls, callVars, lease, cleared>>
    BY DEF CompleteRequest, LockFree, MarkCompleted
<1>2. ControlTypeOK' BY <1>1 DEF ControlTypeOK, callVars
<1>3. LockOK' BY <1>1 DEF LockOK, callVars
<1>4. MarkersFollowCalls'
  <2>1. \A q \in Requests : InFlight(q)' = InFlight(q) BY <1>1 DEF InFlight, callVars
  <2> QED BY <1>1, <2>1 DEF MarkersFollowCalls, ControlTypeOK
<1>5. PastCheckLive'
  <2>1. \A c \in Calls : pc[c] \notin PastCheck
      BY <1>1, AdmissionAssumption DEF LockOK, HoldsLock, PastCheck
  <2> QED BY <1>1, <2>1 DEF PastCheckLive, callVars
<1>6. CompletedHoldsNothing'
  <2>1. activeRequests' = [activeRequests EXCEPT ![r] = NoScope]
      BY KeySlotsAssumption DEF CompleteRequest, ReleaseSlot, HasSlot, keyVars, KeyInv, KeyTypeOK
  <2>2. r \in Owners /\ r # NoOwner BY AdmissionAssumption, AccountSlotsAssumption
  <2>3. requests' = [requests EXCEPT ![r] = NoRef]
      BY <2>2 DEF CompleteRequest, ReleaseAccount, Occupies, slotVars, AccountInv, AccountTypeOK
  <2>4. activeRequests \in [Requests -> Scopes \cup {NoScope}]
        /\ requests \in [Owners -> Refs \cup {NoRef}] /\ completed \subseteq Requests
      BY DEF KeyInv, KeyTypeOK, AccountInv, AccountTypeOK, ControlTypeOK
  <2>5. ASSUME NEW q \in completed' PROVE activeRequests'[q] = NoScope /\ requests'[q] = NoRef
    <3>1. q \in Requests /\ q \in Owners BY <1>1, <2>4, AdmissionAssumption
    <3>2. CASE q = r BY <2>1, <2>2, <2>3, <2>4, <3>2
    <3>3. CASE q # r
      <4>1. activeRequests[q] = NoScope /\ requests[q] = NoRef
          BY <1>1, <3>3 DEF CompletedHoldsNothing, HasSlot, Occupies
      <4> QED BY <2>1, <2>3, <2>4, <3>1, <3>3, <4>1
    <3> QED BY <3>2, <3>3
  <2> QED BY <2>5 DEF CompletedHoldsNothing, HasSlot, Occupies
<1> QED BY <1>2, <1>3, <1>4, <1>5, <1>6, KeyInvPreserved, AccountPart

-----------------------------------------------------------------------------
(* Model tests and management *)

\* They never give a request a slot: model tests are owners of their own, and a
\* rotation moves the requests that have one.
LEMMA ManageHoldsNothing ==
    ASSUME AdmissionInv, Manage
    PROVE  CompletedHoldsNothing'
<1> USE DEF AdmissionInv
<1>1. completed' = completed /\ activeRequests' = activeRequests
    BY DEF Manage, CompleteModelTest, ExpireLease, PrepareModelTest, PruneExpired,
           ToggleEnabled, EditKeyLimit, EditAccounts, SetConcurrencyLimit, keyVars, historyVars
<1>2. SUFFICES ASSUME NEW r \in completed, requests[r] = NoRef PROVE requests'[r] = NoRef
    BY <1>1 DEF CompletedHoldsNothing, HasSlot, Occupies
<1>3. r \in Owners /\ r \notin Tests
    BY <1>2, AdmissionAssumption DEF ControlTypeOK
<1>4. requests \in [Owners -> Refs \cup {NoRef}] BY DEF AccountInv, AccountTypeOK
<1>5. ASSUME NEW t \in Tests, CompleteModelTest(t) PROVE requests'[r] = NoRef
    BY <1>2, <1>3, <1>4, <1>5 DEF CompleteModelTest, ReleaseAccount, slotVars
<1>6. ASSUME NEW t \in Tests, NEW ref \in Refs, PrepareModelTest(t, ref)
      PROVE  requests'[r] = NoRef
    BY <1>2, <1>3, <1>4, <1>6, AdmissionAssumption
       DEF PrepareModelTest, AcquireAccount, Departed, slotVars
<1>7. CASE PruneExpired BY <1>2, <1>3, <1>7 DEF PruneExpired, ReleaseAccounts
<1>8. CASE EditAccounts
    BY <1>2, <1>3, <1>8 DEF EditAccounts, SetPolicies, MigrateCredentialRefs, Occupies
<1>9. ASSUME \/ \E t \in Tests : ExpireLease(t)
             \/ ToggleEnabled
             \/ EditKeyLimit
      PROVE  requests'[r] = NoRef
    BY <1>2, <1>9 DEF ExpireLease, ToggleEnabled, EditKeyLimit, accountVars
<1> QED BY <1>5, <1>6, <1>7, <1>8, <1>9 DEF Manage

LEMMA ManageInv ==
    ASSUME AdmissionInv, Manage, [Next]_vars
    PROVE  AdmissionInv'
<1> USE DEF AdmissionInv
<1>1. UNCHANGED <<admissionVars, callVars, historyVars>>
    BY DEF Manage, CompleteModelTest, ExpireLease, PrepareModelTest, PruneExpired,
           ToggleEnabled, EditKeyLimit, EditAccounts
<1>2. lease' \in [Tests -> Leases] /\ enabled' \in BOOLEAN
  <2>1. enabled' \in BOOLEAN
      BY DEF Manage, CompleteModelTest, ExpireLease, PrepareModelTest, PruneExpired,
             ToggleEnabled, EditKeyLimit, EditAccounts, ControlTypeOK
  <2>2. lease' \in [Tests -> Leases]
    <3>1. ASSUME NEW t \in Tests, CompleteModelTest(t) PROVE lease' \in [Tests -> Leases]
        BY <3>1 DEF CompleteModelTest, ControlTypeOK, Leases
    <3>2. ASSUME NEW t \in Tests, ExpireLease(t) PROVE lease' \in [Tests -> Leases]
        BY <3>2 DEF ExpireLease, ControlTypeOK, Leases
    <3>3. ASSUME NEW t \in Tests, NEW ref \in Refs, PrepareModelTest(t, ref)
          PROVE  lease' \in [Tests -> Leases]
        BY <3>3 DEF PrepareModelTest, ControlTypeOK, Leases
    <3>4. CASE PruneExpired BY <3>4 DEF PruneExpired, ControlTypeOK, Leases
    <3>5. CASE ToggleEnabled \/ EditKeyLimit \/ EditAccounts
        BY <3>5 DEF ToggleEnabled, EditKeyLimit, EditAccounts, ControlTypeOK
    <3> QED BY <3>1, <3>2, <3>3, <3>4, <3>5 DEF Manage
  <2> QED BY <2>1, <2>2
<1>3. ControlTypeOK'
    BY <1>1, <1>2 DEF ControlTypeOK, admissionVars, callVars, historyVars
<1>4. LockOK' BY <1>1 DEF LockOK, admissionVars, callVars
<1>5. MarkersFollowCalls'
  <2>1. \A q \in Requests : InFlight(q)' = InFlight(q) BY <1>1 DEF InFlight, callVars
  <2> QED BY <1>1, <2>1 DEF MarkersFollowCalls, admissionVars, historyVars
<1>6. PastCheckLive' BY <1>1 DEF PastCheckLive, callVars, historyVars
<1> QED BY <1>3, <1>4, <1>5, <1>6, ManageHoldsNothing, KeyInvPreserved, AccountPart

-----------------------------------------------------------------------------
(* The invariant of control and its step *)

LEMMA AdmissionInvStep == AdmissionInv /\ [Next]_vars => AdmissionInv'
<1> SUFFICES ASSUME AdmissionInv, [Next]_vars PROVE AdmissionInv' OBVIOUS
<1>1. CASE UNCHANGED vars
  <2>1. \A q \in Requests : InFlight(q)' = InFlight(q) BY <1>1 DEF InFlight, vars, callVars
  <2>2. KeyInv' /\ AccountInv' BY KeyInvPreserved, AccountPart DEF AdmissionInv
  <2> QED BY <1>1, <2>1, <2>2 DEF AdmissionInv, ControlTypeOK, LockOK, MarkersFollowCalls,
             PastCheckLive, CompletedHoldsNothing, HasSlot, Occupies, vars, keyVars,
             accountVars, admissionVars, callVars, historyVars
<1> QED BY <1>1, StartInv, InnerInv, EndAdmissionInv, CompleteRequestInv, ManageInv
        DEF Next, Continue, Inner

LEMMA AdmissionInvHolds == Spec => []AdmissionInv
<1> QED BY AdmissionInvInit, AdmissionInvStep, PTL DEF Spec

-----------------------------------------------------------------------------
(* Who holds what, in and between critical sections *)

\* A call has reserved nothing before it asked for its reservation.
ReservedLate ==
    \A c \in Calls :
        pc[c] \in {"idle", "b_check", "b_price", "a_check", "a_prune", "a_acquire"} => ~reserved[c]

\* The call between its reservation and the quota's answer.
Undecided(r) == {c \in Calls : pc[c] \in {"b_quota", "b_rollback"} /\ on[c] = r /\ reserved[c]}

\* A slot is that of an admitted request, or of one a call still decides about.
KeySlotsOwned ==
    /\ \A r \in Requests : HasSlot(r) <=> (r \in admitted \/ Undecided(r) # {})
    /\ \A r \in admitted : Undecided(r) = {}
    /\ \A c \in Calls :
        /\ pc[c] = "b_rollback" => reserved[c] /\ on[c] # NoRequest
        /\ pc[c] = "b_quota" /\ reserved[c] => scope[c] # NoScope /\ on[c] # NoRequest
        /\ pc[c] = "b_quota" /\ scope[c] # NoScope /\ on[c] # NoRequest => HasSlot(on[c])

\* A call about r has moved its account slot and not yet noted it, or is to drop it.
Moving(r) ==
    \E c \in Calls : on[c] = r /\ (pc[c] = "a_drop" \/ (pc[c] = "a_gate" /\ reserved[c]))

AccountsOwned ==
    /\ \A r \in Requests : ~Moving(r) =>
        requests[r] = IF granted[r] = NoRef THEN NoRef ELSE root[granted[r]]
    /\ \A c \in Calls : pc[c] = "a_gate" /\ reserved[c] =>
        account[c] # NoRef /\ (on[c] # NoRequest => requests[on[c]] = root[account[c]])
    /\ \A t \in Tests : Occupies(t) <=> lease[t] # "none"

OwnersInv == ReservedLate /\ KeySlotsOwned /\ AccountsOwned

\* With the lock free nobody is inside, and inside is at most one.
LEMMA OneInside ==
    ASSUME AdmissionInv, NEW c \in Calls, NEW d \in Calls,
           pc[c] \in HoldsLock, pc[d] \in HoldsLock
    PROVE  c = d /\ ~LockFree
<1> QED BY AdmissionAssumption DEF AdmissionInv, LockOK, LockFree

LEMMA ReservedLateStep ==
    ASSUME AdmissionInv, ReservedLate, [Next]_vars
    PROVE  ReservedLate'
<1> USE DEF AdmissionInv, ControlTypeOK, ReservedLate, Goto
<1>1. ASSUME NEW c \in Calls, Start(c) PROVE ReservedLate'
    BY <1>1 DEF Start, BeginBefore, BeginAfter
<1>2. ASSUME NEW c \in Calls, Before(c) PROVE ReservedLate'
    BY <1>2 DEF Before, CheckBefore, ReserveSlot, AuthorizeQuota, RollbackSlot
<1>3. ASSUME NEW c \in Calls, After(c) PROVE ReservedLate'
  <2>1. CASE CheckAfter(c) BY <2>1 DEF CheckAfter
  <2>2. CASE PruneModelTests(c) BY <2>2 DEF PruneModelTests
  <2>3. CASE AcquireSelected(c) BY <2>3 DEF AcquireSelected
  <2>4. CASE TurnStateGate(c) BY <2>4 DEF TurnStateGate
  <2>5. CASE DropAccount(c) BY <2>5 DEF DropAccount
  <2> QED BY <1>3, <2>1, <2>2, <2>3, <2>4, <2>5 DEF After
<1>4. ASSUME NEW c \in Calls, Unlock(c) \/ EndAdmission(c) PROVE ReservedLate'
    BY <1>4 DEF Unlock, EndAdmission
<1>5. ASSUME NEW r \in Requests, CompleteRequest(r) PROVE ReservedLate'
    BY <1>5 DEF CompleteRequest, callVars
<1>6. CASE Manage
    BY <1>6 DEF Manage, CompleteModelTest, ExpireLease, PrepareModelTest, PruneExpired,
                ToggleEnabled, EditKeyLimit, EditAccounts, callVars
<1>7. CASE UNCHANGED vars BY <1>7 DEF vars, callVars
<1> QED BY <1>1, <1>2, <1>3, <1>4, <1>5, <1>6, <1>7 DEF Next, Continue

Deciding == {"b_quota", "b_rollback"}

\* What a call does before it asks for its reservation and after the answer.
LEMMA KeySlotsElsewhere ==
    ASSUME ControlTypeOK, KeySlotsOwned, NEW c \in Calls, UNCHANGED <<activeRequests, admitted>>,
           pc[c] \notin Deciding, pc'[c] \notin Deciding,
           \A d \in Calls \ {c} : /\ pc'[d] = pc[d] /\ on'[d] = on[d]
                                  /\ reserved'[d] = reserved[d] /\ scope'[d] = scope[d]
    PROVE  KeySlotsOwned'
<1>1. \A r \in Requests : Undecided(r)' = Undecided(r) BY DEF Undecided, Deciding
<1>2. \A r : HasSlot(r)' = HasSlot(r) BY DEF HasSlot
<1>3. ASSUME NEW d \in Calls
      PROVE  /\ pc'[d] = "b_rollback" => reserved'[d] /\ on'[d] # NoRequest
             /\ pc'[d] = "b_quota" /\ reserved'[d] => scope'[d] # NoScope /\ on'[d] # NoRequest
             /\ pc'[d] = "b_quota" /\ scope'[d] # NoScope /\ on'[d] # NoRequest
                  => activeRequests'[on'[d]] # NoScope
  <2>1. CASE d = c BY <2>1 DEF Deciding
  <2>2. CASE d # c BY <2>2 DEF KeySlotsOwned, HasSlot
  <2> QED BY <2>1, <2>2
<1>4. admitted \subseteq Requests /\ admitted' = admitted BY DEF ControlTypeOK
<1> QED BY <1>1, <1>2, <1>3, <1>4 DEF KeySlotsOwned, HasSlot

\* A reservation makes the slot, for a request nobody else decides about.
LEMMA ReserveSlotOwned ==
    ASSUME AdmissionInv, KeySlotsOwned, NEW c \in Calls, ReserveSlot(c)
    PROVE  KeySlotsOwned'
<1> DEFINE r == on[c]
           gone == r # NoRequest /\ marked[r]
           taken == ~gone /\ SlotAcquired(scope[c], r)
           next == IF ~gone /\ SlotAllowed(scope[c], r) THEN "b_quota" ELSE "b_unlock"
<1>1. /\ pc[c] = "b_price" /\ LockFree
      /\ pc' = [pc EXCEPT ![c] = next]
      /\ reserved' = [reserved EXCEPT ![c] = taken]
      /\ UNCHANGED <<on, scope, admitted>>
    BY DEF ReserveSlot, Lock, Goto, historyVars
<1>2. /\ r \in Requests \cup {NoRequest} /\ scope[c] \in Scopes \cup {NoScope}
      /\ activeRequests \in [Requests -> Scopes \cup {NoScope}]
      /\ pc \in [Calls -> Labels] /\ reserved \in [Calls -> BOOLEAN]
      /\ NoScope \notin Scopes /\ NoRequest \notin Requests /\ admitted \subseteq Requests
    BY KeySlotsAssumption DEF AdmissionInv, ControlTypeOK, KeyInv, KeyTypeOK
<1>3. \A d \in Calls : pc[d] \notin Deciding
    BY <1>1, OneInside DEF HoldsLock, Deciding
<1>4. activeRequests' = IF taken THEN [activeRequests EXCEPT ![r] = scope[c]] ELSE activeRequests
    BY DEF ReserveSlot, AcquireSlot, keyVars
<1>5. \A q \in Requests : Undecided(q) = {} BY <1>3 DEF Undecided, Deciding
<1>6. taken => r \in Requests /\ ~HasSlot(r) /\ scope[c] \in Scopes /\ next = "b_quota"
    BY <1>2 DEF SlotAcquired, SlotAllowed
<1>7. ASSUME NEW q \in Requests
      PROVE  /\ (q # r \/ ~taken) => Undecided(q)' = {} /\ HasSlot(q)' = HasSlot(q)
             /\ q = r /\ taken => c \in Undecided(q)' /\ HasSlot(q)'
  <2>1. \A d \in Calls : pc'[d] \in Deciding => d = c BY <1>1, <1>2, <1>3
  <2>2. (q # r \/ ~taken) => Undecided(q)' = {}
      BY <1>1, <1>2, <2>1 DEF Undecided, Deciding
  <2>3. q = r /\ taken => c \in Undecided(q)' BY <1>1, <1>2, <1>6 DEF Undecided
  <2>4. (q # r \/ ~taken) => HasSlot(q)' = HasSlot(q) BY <1>2, <1>4 DEF HasSlot
  <2>5. q = r /\ taken => HasSlot(q)' BY <1>2, <1>4, <1>6 DEF HasSlot
  <2> QED BY <2>2, <2>3, <2>4, <2>5
<1>8. taken => r \notin admitted BY <1>5, <1>6 DEF KeySlotsOwned
<1>9. next = "b_quota" /\ scope[c] # NoScope /\ r # NoRequest
        => r \in Requests /\ activeRequests'[r] # NoScope
  <2> SUFFICES ASSUME next = "b_quota", scope[c] # NoScope, r # NoRequest
               PROVE  r \in Requests /\ activeRequests'[r] # NoScope
      OBVIOUS
  <2>1. r \in Requests /\ ~gone /\ SlotAllowed(scope[c], r) BY <1>2
  <2>2. CASE taken BY <1>2, <1>4, <2>1, <2>2
  <2>3. CASE ~taken BY <1>4, <2>1, <2>3 DEF SlotAllowed, HasSlot
  <2> QED BY <2>1, <2>2, <2>3
<1> HIDE DEF next, taken, gone
<1>10. ASSUME NEW d \in Calls
       PROVE  /\ pc'[d] = "b_rollback" => reserved'[d] /\ on'[d] # NoRequest
              /\ pc'[d] = "b_quota" /\ reserved'[d] => scope'[d] # NoScope /\ on'[d] # NoRequest
              /\ pc'[d] = "b_quota" /\ scope'[d] # NoScope /\ on'[d] # NoRequest
                   => activeRequests'[on'[d]] # NoScope
  <2>1. CASE d = c
    <3>1. pc'[d] = next /\ (reserved'[d] <=> taken) /\ on'[d] = r /\ scope'[d] = scope[c]
        BY <1>1, <1>2, <2>1
    <3>2. next \in {"b_quota", "b_unlock"} BY DEF next
    <3> QED BY <1>2, <1>6, <1>9, <3>1, <3>2
  <2>2. CASE d # c BY <1>1, <1>2, <1>3, <2>2 DEF Deciding
  <2> QED BY <2>1, <2>2
<1>11. ASSUME NEW q \in Requests
       PROVE  /\ HasSlot(q)' <=> (q \in admitted' \/ Undecided(q)' # {})
              /\ q \in admitted' => Undecided(q)' = {}
    BY <1>1, <1>5, <1>7, <1>8 DEF KeySlotsOwned
<1> QED BY <1>1, <1>2, <1>10, <1>11 DEF KeySlotsOwned, HasSlot

\* The quota's answer turns the slot into an admission, or leaves it to the rollback.
LEMMA AuthorizeQuotaOwned ==
    ASSUME AdmissionInv, KeySlotsOwned, NEW c \in Calls, AuthorizeQuota(c)
    PROVE  KeySlotsOwned'
<1> DEFINE r == on[c]
<1>1. /\ pc[c] = "b_quota" /\ UNCHANGED <<activeRequests, on, scope, reserved>>
      /\ r \in Requests \cup {NoRequest} /\ pc \in [Calls -> Labels]
      /\ NoRequest \notin Requests /\ admitted \subseteq Requests
    BY KeySlotsAssumption DEF AuthorizeQuota, AdmissionInv, ControlTypeOK, keyVars
<1>2. \A d \in Calls \ {c} : pc[d] \notin Deciding
    BY <1>1, OneInside DEF HoldsLock, Deciding
<1>3. \A q \in Requests : Undecided(q) = IF q = r /\ reserved[c] THEN {c} ELSE {}
    BY <1>1, <1>2 DEF Undecided, Deciding
<1>4. CASE /\ Goto(c, "b_unlock")
           /\ admitted' = IF scope[c] # NoScope /\ r # NoRequest
                          THEN admitted \cup {r} ELSE admitted
  <2>1. \A d \in Calls : pc'[d] \notin Deciding BY <1>1, <1>2, <1>4 DEF Goto, Deciding
  <2>2. \A q \in Requests : Undecided(q)' = {} BY <2>1 DEF Undecided, Deciding
  <2>3. reserved[c] => scope[c] # NoScope /\ r # NoRequest BY <1>1 DEF KeySlotsOwned
  <2>4. scope[c] # NoScope /\ r # NoRequest => r \in Requests /\ activeRequests[r] # NoScope
      BY <1>1 DEF KeySlotsOwned, HasSlot
  <2>5. \A q \in Requests : activeRequests[q] # NoScope <=> q \in admitted'
      BY <1>3, <1>4, <2>3, <2>4 DEF KeySlotsOwned, HasSlot
  <2>6. admitted' \subseteq Requests BY <1>1, <1>4
  <2> QED BY <1>1, <2>1, <2>2, <2>5, <2>6 DEF KeySlotsOwned, HasSlot, Deciding
<1>5. CASE /\ Goto(c, IF reserved[c] THEN "b_rollback" ELSE "b_unlock")
           /\ UNCHANGED admitted
  <2>1. pc' = [pc EXCEPT ![c] = IF reserved[c] THEN "b_rollback" ELSE "b_unlock"]
      BY <1>5 DEF Goto
  <2>2. \A q \in Requests : Undecided(q)' = Undecided(q)
      BY <1>1, <1>2, <2>1 DEF Undecided, Deciding
  <2>3. reserved[c] => r # NoRequest BY <1>1 DEF KeySlotsOwned
  <2>4. ASSUME NEW d \in Calls
        PROVE  /\ pc'[d] = "b_rollback" => reserved[d] /\ on[d] # NoRequest
               /\ pc'[d] # "b_quota"
      BY <1>1, <1>2, <2>1, <2>3 DEF Deciding
  <2> QED BY <1>1, <1>5, <2>2, <2>4 DEF KeySlotsOwned, HasSlot
<1> QED BY <1>4, <1>5 DEF AuthorizeQuota, RollsBack

\* The rollback gives back what this call reserved, and nobody else's slot.
LEMMA RollbackSlotOwned ==
    ASSUME AdmissionInv, KeySlotsOwned, NEW c \in Calls, RollbackSlot(c)
    PROVE  KeySlotsOwned'
<1> DEFINE r == on[c]
<1>1. /\ pc[c] = "b_rollback" /\ pc' = [pc EXCEPT ![c] = "b_unlock"]
      /\ UNCHANGED <<admitted, on, scope, reserved>>
      /\ pc \in [Calls -> Labels] /\ admitted \subseteq Requests
      /\ activeRequests \in [Requests -> Scopes \cup {NoScope}]
    BY DEF RollbackSlot, Goto, AdmissionInv, ControlTypeOK, KeyInv, KeyTypeOK, historyVars
<1>2. reserved[c] /\ r \in Requests /\ r # NoRequest
    BY <1>1 DEF KeySlotsOwned, AdmissionInv, ControlTypeOK
<1>3. \A d \in Calls \ {c} : pc[d] \notin Deciding
    BY <1>1, OneInside DEF HoldsLock, Deciding
<1>4. \A q \in Requests : Undecided(q) = IF q = r THEN {c} ELSE {}
    BY <1>1, <1>2, <1>3 DEF Undecided, Deciding
<1>5. \A d \in Calls : pc'[d] \notin Deciding BY <1>1, <1>3 DEF Deciding
<1>6. \A q \in Requests : Undecided(q)' = {} BY <1>5 DEF Undecided, Deciding
<1>7. activeRequests' = [activeRequests EXCEPT ![r] = NoScope]
    BY <1>1, <1>2, <1>4 DEF RollbackSlot, ReleaseSlot, KeySlotsOwned
<1>8. ASSUME NEW q \in Requests PROVE activeRequests'[q] # NoScope <=> q \in admitted
    BY <1>1, <1>2, <1>4, <1>7 DEF KeySlotsOwned, HasSlot
<1> QED BY <1>1, <1>5, <1>6, <1>8 DEF KeySlotsOwned, HasSlot, Deciding

\* A completion excludes every call inside, so it takes an admission and its slot.
LEMMA CompleteRequestOwned ==
    ASSUME AdmissionInv, KeySlotsOwned, NEW r \in Requests, CompleteRequest(r)
    PROVE  KeySlotsOwned'
<1>1. /\ LockFree /\ admitted' = admitted \ {r} /\ UNCHANGED <<pc, on, scope, reserved>>
      /\ activeRequests \in [Requests -> Scopes \cup {NoScope}] /\ admitted \subseteq Requests
    BY DEF CompleteRequest, callVars, AdmissionInv, KeyInv, KeyTypeOK, ControlTypeOK
<1>2. \A d \in Calls : pc[d] \notin Deciding BY <1>1, OneInside DEF HoldsLock, Deciding
<1>3. \A q \in Requests : Undecided(q) = {} /\ Undecided(q)' = {}
    BY <1>1, <1>2 DEF Undecided, Deciding
<1>4. activeRequests' = [activeRequests EXCEPT ![r] = NoScope]
    BY <1>1, KeySlotsAssumption DEF CompleteRequest, ReleaseSlot, HasSlot, keyVars
<1>5. \A q \in Requests : activeRequests'[q] # NoScope <=> q \in admitted'
    BY <1>1, <1>3, <1>4 DEF KeySlotsOwned, HasSlot
<1> QED BY <1>1, <1>2, <1>3, <1>5 DEF KeySlotsOwned, HasSlot, Deciding

LEMMA KeySlotsOwnedStep ==
    ASSUME AdmissionInv, KeySlotsOwned, [Next]_vars
    PROVE  KeySlotsOwned'
<1> DEFINE Elsewhere(c) == /\ UNCHANGED <<activeRequests, admitted>>
                           /\ pc[c] \notin Deciding /\ pc'[c] \notin Deciding
                           /\ \A d \in Calls \ {c} :
                                /\ pc'[d] = pc[d] /\ on'[d] = on[d]
                                /\ reserved'[d] = reserved[d] /\ scope'[d] = scope[d]
<1>1. ASSUME NEW c \in Calls, Elsewhere(c) PROVE KeySlotsOwned'
    BY <1>1, KeySlotsElsewhere DEF AdmissionInv
<1> USE DEF AdmissionInv, ControlTypeOK, Goto, Deciding, keyVars, historyVars
<1>2. ASSUME NEW c \in Calls, Start(c) PROVE Elsewhere(c)
    BY <1>2 DEF Start, BeginBefore, BeginAfter
<1>3. ASSUME NEW c \in Calls, CheckBefore(c) PROVE Elsewhere(c) BY <1>3 DEF CheckBefore
<1>4. ASSUME NEW c \in Calls, After(c) PROVE Elsewhere(c)
  <2>1. CASE CheckAfter(c) BY <2>1 DEF CheckAfter
  <2>2. CASE PruneModelTests(c) BY <2>2 DEF PruneModelTests
  <2>3. CASE AcquireSelected(c) BY <2>3 DEF AcquireSelected
  <2>4. CASE TurnStateGate(c) BY <2>4 DEF TurnStateGate
  <2>5. CASE DropAccount(c) BY <2>5 DEF DropAccount
  <2> QED BY <1>4, <2>1, <2>2, <2>3, <2>4, <2>5 DEF After
<1>5. ASSUME NEW c \in Calls, Unlock(c) PROVE Elsewhere(c) BY <1>5 DEF Unlock
<1>6. ASSUME NEW c \in Calls, EndAdmission(c) PROVE Elsewhere(c) BY <1>6 DEF EndAdmission
<1>7. ASSUME NEW c \in Calls, Start(c) \/ Continue(c) PROVE KeySlotsOwned'
  <2> HIDE DEF Elsewhere
  <2> QED BY <1>1, <1>2, <1>3, <1>4, <1>5, <1>6, <1>7, ReserveSlotOwned,
             AuthorizeQuotaOwned, RollbackSlotOwned DEF Continue, Before
<1>8. CASE Manage \/ UNCHANGED vars
  <2>1. UNCHANGED <<activeRequests, admitted, pc, on, scope, reserved>>
      BY <1>8 DEF Manage, CompleteModelTest, ExpireLease, PrepareModelTest, PruneExpired,
                  ToggleEnabled, EditKeyLimit, EditAccounts, SetConcurrencyLimit, callVars, vars
  <2>2. \A q \in Requests : Undecided(q)' = Undecided(q) BY <2>1 DEF Undecided
  <2> QED BY <2>1, <2>2 DEF KeySlotsOwned, HasSlot
<1> QED BY <1>7, <1>8, CompleteRequestOwned DEF Next

\* The accounts of running requests and tests, as they enter, move and leave.
LEMMA AccountMoves ==
    ASSUME AdmissionInv
    PROVE  /\ requests \in [Owners -> Refs \cup {NoRef}] /\ Flat(root)
           /\ Requests \subseteq Owners /\ Tests \subseteq Owners
           /\ Requests \cap Tests = {} /\ NoRequest \notin Requests /\ NoRef \notin Refs
           /\ NoOwner = NoRequest /\ NoRequest \notin Owners
           /\ Expired \subseteq Tests
           /\ \A o \in Owners, p \in Owners, ref \in Refs :
                AcquireAccount(ref, o) /\ p # o => requests'[p] = requests[p]
           /\ \A o \in Owners, ref \in Refs :
                AcquireAccount(ref, o) =>
                    /\ AccountGranted(ref, o) => requests'[o] = root[ref]
                    /\ ~AccountGranted(ref, o) => requests'[o] = NoRef
           /\ \A o \in Owners : ReleaseAccount(o) => requests' = [requests EXCEPT ![o] = NoRef]
<1>1. requests \in [Owners -> Refs \cup {NoRef}] /\ Flat(root)
    BY AccountInvIsCount DEF AdmissionInv
<1>2. /\ Requests \subseteq Owners /\ Tests \subseteq Owners
      /\ Requests \cap Tests = {} /\ NoRequest \notin Requests /\ NoRef \notin Refs
      /\ NoOwner = NoRequest /\ NoOwner \notin Owners
    BY AdmissionAssumption, AccountSlotsAssumption, KeySlotsAssumption
<1>3. ASSUME NEW o \in Owners, NEW ref \in Refs, AcquireAccount(ref, o)
      PROVE  /\ \A p \in Owners \ {o} : requests'[p] = requests[p]
             /\ AccountGranted(ref, o) => requests'[o] = root[ref]
             /\ ~AccountGranted(ref, o) => requests'[o] = NoRef
  <2>1. root[ref] \in Refs /\ o # NoOwner BY <1>1, <1>2 DEF Flat
  <2>2. CASE requests[o] = root[ref]
      BY <2>1, <2>2, <1>3 DEF AcquireAccount, AccountGranted, slotVars
  <2>3. CASE requests[o] # root[ref] /\ AccountGranted(ref, o)
    <3>1. requests' = [requests EXCEPT ![o] = root[ref]]
        BY <2>1, <2>3, <1>3 DEF AcquireAccount
    <3> QED BY <1>1, <2>3, <3>1
  <2>4. CASE requests[o] # root[ref] /\ ~AccountGranted(ref, o)
    <3>1. requests' = Departed(o, root[ref]) BY <2>1, <2>4, <1>3 DEF AcquireAccount
    <3> QED BY <1>1, <2>4, <3>1 DEF Departed
  <2> QED BY <2>2, <2>3, <2>4
<1>4. ASSUME NEW o \in Owners, ReleaseAccount(o)
      PROVE  requests' = [requests EXCEPT ![o] = NoRef]
    BY <1>1, <1>2, <1>4 DEF ReleaseAccount, Occupies, slotVars
<1> QED BY <1>1, <1>2, <1>3, <1>4 DEF Expired

\* Steps that leave accounts, attempts and leases alone.
LEMMA AccountsElsewhere ==
    ASSUME ControlTypeOK, AccountsOwned, NEW c \in Calls, UNCHANGED <<requests, root, granted, lease>>,
           pc[c] # "a_drop",
           pc[c] = "a_gate" /\ reserved[c] => pc'[c] = "a_drop" /\ on'[c] = on[c],
           pc'[c] = "a_gate" => ~reserved'[c],
           \A d \in Calls \ {c} : /\ pc'[d] = pc[d] /\ on'[d] = on[d]
                                  /\ reserved'[d] = reserved[d] /\ account'[d] = account[d]
    PROVE  AccountsOwned'
<1>1. ASSUME NEW r \in Requests, Moving(r) PROVE Moving(r)'
  <2>1. PICK d \in Calls : on[d] = r /\ (pc[d] = "a_drop" \/ (pc[d] = "a_gate" /\ reserved[d]))
      BY <1>1 DEF Moving
  <2>2. CASE d # c BY <2>1, <2>2 DEF Moving
  <2>3. CASE d = c /\ pc[c] = "a_gate" BY <2>1, <2>3 DEF Moving
  <2> QED BY <2>1, <2>2, <2>3
<1> QED BY <1>1 DEF AccountsOwned, Occupies

\* Expired tests leave together with their leases; a call inside goes on without a
\* reservation of its own.
LEMMA PruneOwned ==
    ASSUME AdmissionInv, AccountsOwned, ReleaseAccounts(Expired), UNCHANGED <<on, account, reserved, granted>>,
           lease' = [t \in Tests |-> IF t \in Expired THEN "none" ELSE lease[t]],
           \A d \in Calls : pc'[d] = pc[d] \/ (pc[d] = "a_prune" /\ ~reserved[d] /\ pc'[d] # "a_drop")
    PROVE  AccountsOwned'
<1>1. /\ requests' = [o \in Owners |-> IF o \in Expired THEN NoRef ELSE requests[o]]
      /\ root' = root
    BY DEF ReleaseAccounts, settingsVars
<1>2. \A r \in Requests : requests'[r] = requests[r] BY <1>1, AccountMoves
<1>3. \A r \in Requests : Moving(r)' = Moving(r) BY DEF Moving
<1>4. ASSUME NEW t \in Tests PROVE Occupies(t)' <=> lease'[t] # "none"
    BY <1>1, <1>4, AccountMoves DEF AccountsOwned, Occupies
<1>5. \A d \in Calls : on[d] \in Requests \cup {NoRequest} BY DEF AdmissionInv, ControlTypeOK
<1> QED BY <1>1, <1>2, <1>3, <1>4, <1>5 DEF AccountsOwned

LEMMA AcquireSelectedOwned ==
    ASSUME AdmissionInv, ReservedLate, AccountsOwned, NEW c \in Calls, AcquireSelected(c)
    PROVE  AccountsOwned'
<1> DEFINE r == on[c]
<1>1. /\ pc[c] = "a_acquire" /\ ~reserved[c] /\ UNCHANGED <<on, account, granted, lease>>
      /\ pc \in [Calls -> Labels] /\ reserved \in [Calls -> BOOLEAN]
      /\ account[c] \in Refs \cup {NoRef} /\ r \in Requests \cup {NoRequest}
    BY DEF AcquireSelected, ReservedLate, AdmissionInv, ControlTypeOK, historyVars
<1>2. \A d \in Calls \ {c} : pc[d] \notin {"a_gate", "a_drop"}
    BY <1>1, OneInside DEF HoldsLock
<1>3. CASE UNCHANGED <<accountVars, reserved>>
  <2>1. UNCHANGED <<requests, root>> BY <1>3 DEF accountVars
  <2>2. pc'[c] \in {"a_drop", "a_gate"} BY <1>1 DEF AcquireSelected, Goto
  <2>3. \A d \in Calls \ {c} : pc'[d] = pc[d] BY <1>1 DEF AcquireSelected, Goto
  <2> QED BY <1>1, <1>3, <2>1, <2>2, <2>3, AccountsElsewhere DEF AdmissionInv
<1>4. CASE /\ account[c] # NoRef
           /\ AcquireAccount(account[c], r)
           /\ LET ok == AccountGranted(account[c], r)
              IN  /\ Goto(c, IF ok THEN "a_gate" ELSE "a_drop")
                  /\ reserved' = [reserved EXCEPT ![c] = ok]
  <2> DEFINE ok == AccountGranted(account[c], r)
  <2>1. /\ pc' = [pc EXCEPT ![c] = IF ok THEN "a_gate" ELSE "a_drop"]
        /\ reserved' = [reserved EXCEPT ![c] = ok]
        /\ account[c] \in Refs /\ root' = root
      BY <1>1, <1>4 DEF Goto, AcquireAccount, settingsVars
  <2>2. \A o \in Owners : o # r => requests'[o] = requests[o]
    <3>1. CASE r = NoRequest
        BY <1>4, <3>1, AccountMoves DEF AcquireAccount, slotVars
    <3>2. CASE r \in Requests BY <1>4, <2>1, <3>2, AccountMoves
    <3> QED BY <1>1, <3>1, <3>2
  <2>3. r \in Requests /\ ok => requests'[r] = root[account[c]]
      BY <1>4, <2>1, AccountMoves
  <2> HIDE DEF ok
  <2>4. \A q \in Requests : Moving(q)' <=> q = r
      BY <1>1, <1>2, <2>1 DEF Moving
  <2>5. \A q \in Requests : ~Moving(q) BY <1>1, <1>2 DEF Moving
  <2>6. \A q \in Requests : q # r => requests'[q] = IF granted[q] = NoRef THEN NoRef ELSE root[granted[q]]
      BY <2>2, <2>5, AccountMoves DEF AccountsOwned
  <2>7. \A d \in Calls : pc'[d] = "a_gate" /\ reserved'[d] =>
            account[d] # NoRef /\ (on[d] # NoRequest => requests'[on[d]] = root[account[d]])
      BY <1>1, <1>2, <1>4, <2>1, <2>3
  <2>8. \A t \in Tests : requests'[t] # NoRef <=> lease[t] # "none"
      BY <1>1, <2>2, AccountMoves DEF AccountsOwned, Occupies
  <2> QED BY <1>1, <2>1, <2>4, <2>6, <2>7, <2>8 DEF AccountsOwned, Occupies
<1> QED BY <1>3, <1>4 DEF AcquireSelected

\* The attempt is noted with the account it reserved.
LEMMA TurnStateGateOwned ==
    ASSUME AdmissionInv, AccountsOwned, NEW c \in Calls, TurnStateGate(c)
    PROVE  AccountsOwned'
<1> DEFINE r == on[c]
<1>1. /\ pc[c] = "a_gate" /\ UNCHANGED <<requests, root, on, account, reserved, lease>>
      /\ pc \in [Calls -> Labels] /\ r \in Requests \cup {NoRequest}
      /\ granted \in [Requests -> Refs \cup {NoRef}] /\ NoRequest \notin Requests
    BY AccountMoves DEF TurnStateGate, AdmissionInv, ControlTypeOK, accountVars
<1>2. CASE Goto(c, "a_drop") /\ UNCHANGED granted
    BY <1>1, <1>2, AccountsElsewhere DEF Goto, AdmissionInv
<1>3. CASE /\ Goto(c, "a_unlock")
           /\ granted' = IF reserved[c] /\ r # NoRequest
                         THEN [granted EXCEPT ![r] = account[c]] ELSE granted
  <2>1. \A d \in Calls \ {c} : pc[d] \notin {"a_gate", "a_drop"}
      BY <1>1, OneInside DEF HoldsLock
  <2>2. \A d \in Calls : pc'[d] \notin {"a_gate", "a_drop"} BY <1>1, <1>3, <2>1 DEF Goto
  <2>3. \A q \in Requests : Moving(q) <=> q = r /\ reserved[c] BY <1>1, <2>1 DEF Moving
  <2>4. ASSUME NEW q \in Requests
        PROVE  requests[q] = IF granted'[q] = NoRef THEN NoRef ELSE root[granted'[q]]
    <3>1. CASE q = r /\ reserved[c] BY <1>1, <1>3, <3>1 DEF AccountsOwned
    <3>2. CASE ~(q = r /\ reserved[c]) BY <1>1, <1>3, <2>3, <3>2 DEF AccountsOwned
    <3> QED BY <3>1, <3>2
  <2> QED BY <1>1, <2>2, <2>4 DEF AccountsOwned, Occupies
<1> QED BY <1>2, <1>3 DEF TurnStateGate

LEMMA DropAccountOwned ==
    ASSUME AdmissionInv, AccountsOwned, NEW c \in Calls, DropAccount(c)
    PROVE  AccountsOwned'
<1> DEFINE r == on[c]
<1>1. /\ pc[c] = "a_drop" /\ pc' = [pc EXCEPT ![c] = "a_unlock"]
      /\ UNCHANGED <<root, on, account, reserved, lease>>
      /\ pc \in [Calls -> Labels] /\ r \in Requests \cup {NoRequest}
      /\ granted \in [Requests -> Refs \cup {NoRef}]
      /\ granted' = IF r = NoRequest THEN granted ELSE [granted EXCEPT ![r] = NoRef]
    BY DEF DropAccount, AdmissionInv, ControlTypeOK, ReleaseAccount, settingsVars, Goto
<1>2. \A o \in Owners : requests'[o] = IF o = r THEN NoRef ELSE requests[o]
  <2>1. CASE r = NoRequest
      BY <2>1, AccountMoves DEF DropAccount, ReleaseAccount, slotVars, AdmissionInv,
         AccountInv, AccountTypeOK, AccountSlotsAssumption, AdmissionAssumption
  <2>2. CASE r \in Requests BY <2>2, AccountMoves DEF DropAccount
  <2> QED BY <1>1, <2>1, <2>2
<1>3. \A d \in Calls \ {c} : pc[d] \notin {"a_gate", "a_drop"} BY <1>1, OneInside DEF HoldsLock
<1>4. \A d \in Calls : pc'[d] \notin {"a_gate", "a_drop"} BY <1>1, <1>3
<1>5. \A q \in Requests : q # r => ~Moving(q) BY <1>1, <1>3 DEF Moving
<1>6. ASSUME NEW q \in Requests
      PROVE  requests'[q] = IF granted'[q] = NoRef THEN NoRef ELSE root[granted'[q]]
    BY <1>1, <1>2, <1>5, AccountMoves DEF AccountsOwned
<1>7. \A t \in Tests : requests'[t] # NoRef <=> lease[t] # "none"
    BY <1>1, <1>2, AccountMoves DEF AccountsOwned, Occupies
<1> QED BY <1>1, <1>4, <1>6, <1>7 DEF AccountsOwned, Occupies

\* The lock is free: no account is moving.
LEMMA CompleteRequestAccounts ==
    ASSUME AdmissionInv, AccountsOwned, NEW r \in Requests, CompleteRequest(r)
    PROVE  AccountsOwned'
<1>1. /\ LockFree /\ UNCHANGED <<pc, on, account, reserved, lease, root>>
      /\ granted' = [granted EXCEPT ![r] = NoRef]
      /\ granted \in [Requests -> Refs \cup {NoRef}]
    BY DEF CompleteRequest, callVars, AdmissionInv, ControlTypeOK, ReleaseAccount, settingsVars
<1>2. requests' = [requests EXCEPT ![r] = NoRef] BY AccountMoves DEF CompleteRequest
<1>3. \A d \in Calls : pc[d] \notin {"a_gate", "a_drop"} BY <1>1, OneInside DEF HoldsLock
<1>4. \A q \in Requests : ~Moving(q) BY <1>3 DEF Moving
<1>5. ASSUME NEW q \in Requests
      PROVE  requests'[q] = IF granted'[q] = NoRef THEN NoRef ELSE root[granted'[q]]
    BY <1>1, <1>2, <1>4, AccountMoves DEF AccountsOwned
<1>6. \A t \in Tests : requests'[t] # NoRef <=> lease[t] # "none"
    BY <1>2, AccountMoves DEF AccountsOwned, Occupies
<1> QED BY <1>1, <1>3, <1>5, <1>6 DEF AccountsOwned, Occupies

\* Tests come and go beside the requests, and a rotation renames what both occupy.
LEMMA ManageAccounts ==
    ASSUME AdmissionInv, AccountsOwned, Manage
    PROVE  AccountsOwned'
<1>1. UNCHANGED <<pc, on, account, reserved, granted>>
    BY DEF Manage, CompleteModelTest, ExpireLease, PrepareModelTest, PruneExpired,
           ToggleEnabled, EditKeyLimit, EditAccounts, callVars, historyVars
<1>2. \A r \in Requests : Moving(r)' = Moving(r) BY <1>1 DEF Moving
<1>3. \A d \in Calls : on[d] \in Requests \cup {NoRequest} BY DEF AdmissionInv, ControlTypeOK
<1>4. lease \in [Tests -> Leases] BY DEF AdmissionInv, ControlTypeOK
<1>5. ASSUME root' = root, \A r \in Requests : requests'[r] = requests[r],
             \A t \in Tests : requests'[t] # NoRef <=> lease'[t] # "none"
      PROVE  AccountsOwned'
    BY <1>1, <1>2, <1>3, <1>5 DEF AccountsOwned, Occupies
<1>6. ASSUME NEW t \in Tests, CompleteModelTest(t) PROVE AccountsOwned'
  <2>1. requests' = [requests EXCEPT ![t] = NoRef] /\ root' = root
        /\ lease' = [lease EXCEPT ![t] = "none"]
      BY <1>6, AccountMoves DEF CompleteModelTest, ReleaseAccount, settingsVars
  <2>2. \A r \in Requests : requests'[r] = requests[r] BY <2>1, AccountMoves
  <2>3. \A u \in Tests : requests'[u] # NoRef <=> lease'[u] # "none"
      BY <1>4, <2>1, AccountMoves DEF AccountsOwned, Occupies
  <2> QED BY <1>5, <2>1, <2>2, <2>3
<1>7. ASSUME NEW t \in Tests, ExpireLease(t) PROVE AccountsOwned'
    BY <1>4, <1>5, <1>7 DEF ExpireLease, accountVars, AccountsOwned, Occupies
<1>8. ASSUME NEW t \in Tests, NEW ref \in Refs, PrepareModelTest(t, ref) PROVE AccountsOwned'
  <2>1. /\ AcquireAccount(ref, t) /\ root' = root /\ lease[t] = "none"
        /\ lease' = [lease EXCEPT ![t] = IF AccountGranted(ref, t) THEN "live" ELSE @]
      BY <1>8 DEF PrepareModelTest, AcquireAccount, settingsVars
  <2>2. t \in Owners /\ root[ref] \in Refs BY AccountMoves DEF Flat
  <2>3. \A o \in Owners : o # t => requests'[o] = requests[o] BY <2>1, <2>2, AccountMoves
  <2>4. requests'[t] # NoRef <=> lease'[t] # "none"
    <3>1. CASE AccountGranted(ref, t)
        BY <1>4, <2>1, <2>2, <3>1, AccountMoves
    <3>2. CASE ~AccountGranted(ref, t)
        BY <1>4, <2>1, <2>2, <3>2, AccountMoves
    <3> QED BY <3>1, <3>2
  <2>5. \A r \in Requests : requests'[r] = requests[r] BY <2>2, <2>3, AccountMoves
  <2>6. \A u \in Tests : requests'[u] # NoRef <=> lease'[u] # "none"
      BY <1>4, <2>1, <2>3, <2>4, AccountMoves DEF AccountsOwned, Occupies
  <2> QED BY <1>5, <2>1, <2>5, <2>6
<1>9. CASE PruneExpired BY <1>1, <1>9, PruneOwned DEF PruneExpired
<1>10. CASE EditAccounts
  <2>1. lease' = lease BY <1>10 DEF EditAccounts
  <2>2. ASSUME NEW x \in Refs, NEW n \in AccountLimits, SetPolicies([y \in {x} |-> n], FALSE)
        PROVE  AccountsOwned'
      BY <1>5, <2>1, <2>2 DEF SetPolicies, AccountsOwned, Occupies
  <2>3. ASSUME NEW a \in Refs, NEW x \in Refs, MigrateCredentialRefs(a, x, a, x)
        PROVE  AccountsOwned'
    <3> DEFINE rt == RotatedRoots(a, x, a, x)
    <3>1. /\ root' = rt
          /\ requests' = [o \in Owners |-> IF Occupies(o) THEN rt[requests[o]] ELSE NoRef]
        BY <2>3 DEF MigrateCredentialRefs
    <3>2. Flat(rt) /\ \A u \in Refs : rt[root[u]] = rt[u]
      <4>1. Flat(root) BY AccountMoves
      <4>2. Flat(rt) /\ \A u, v \in Refs : root[u] = root[v] => rt[u] = rt[v]
          BY <4>1, RotatedProperties
      <4>3. \A u \in Refs : root[u] \in Refs /\ root[root[u]] = root[u] BY <4>1 DEF Flat
      <4> HIDE DEF rt
      <4> QED BY <4>2, <4>3
    <3> HIDE DEF rt
    <3>3. \A u \in Refs : root[u] \in Refs /\ rt[u] \in Refs BY <3>2, AccountMoves DEF Flat
    <3>4. granted \in [Requests -> Refs \cup {NoRef}]
          /\ account \in [Calls -> Refs \cup {NoRef}]
        BY DEF AdmissionInv, ControlTypeOK
    <3>5. ASSUME NEW r \in Requests, ~Moving(r)
          PROVE  requests'[r] = IF granted[r] = NoRef THEN NoRef ELSE rt[granted[r]]
        BY <3>1, <3>2, <3>3, <3>4, <3>5, AccountMoves DEF AccountsOwned, Occupies
    <3>6. ASSUME NEW d \in Calls, pc[d] = "a_gate" /\ reserved[d]
          PROVE  account[d] # NoRef /\ (on[d] # NoRequest => requests'[on[d]] = rt[account[d]])
        BY <1>3, <3>1, <3>2, <3>3, <3>4, <3>6, AccountMoves DEF AccountsOwned, Occupies
    <3>7. ASSUME NEW t \in Tests PROVE requests'[t] # NoRef <=> lease[t] # "none"
        BY <3>1, <3>3, AccountMoves DEF AccountsOwned, Occupies
    <3> QED BY <1>1, <1>2, <2>1, <3>1, <3>5, <3>6, <3>7 DEF AccountsOwned, Occupies
  <2> QED BY <1>10, <2>2, <2>3 DEF EditAccounts
<1>11. CASE ToggleEnabled \/ EditKeyLimit
  <2>1. UNCHANGED <<requests, root, lease>>
      BY <1>11 DEF ToggleEnabled, EditKeyLimit, accountVars
  <2> QED BY <1>5, <2>1 DEF AccountsOwned, Occupies
<1> QED BY <1>6, <1>7, <1>8, <1>9, <1>10, <1>11 DEF Manage

LEMMA AccountsOwnedStep ==
    ASSUME AdmissionInv, ReservedLate, AccountsOwned, [Next]_vars
    PROVE  AccountsOwned'
<1> DEFINE Elsewhere(c) ==
        /\ UNCHANGED <<requests, root, granted, lease>>
        /\ pc[c] # "a_drop"
        /\ pc[c] = "a_gate" /\ reserved[c] => pc'[c] = "a_drop" /\ on'[c] = on[c]
        /\ pc'[c] = "a_gate" => ~reserved'[c]
        /\ \A d \in Calls \ {c} : /\ pc'[d] = pc[d] /\ on'[d] = on[d]
                                  /\ reserved'[d] = reserved[d] /\ account'[d] = account[d]
<1>1. ASSUME NEW c \in Calls, Elsewhere(c) PROVE AccountsOwned'
    BY <1>1, AccountsElsewhere DEF AdmissionInv
<1>2. pc \in [Calls -> Labels] /\ on \in [Calls -> Requests \cup {NoRequest}]
      /\ reserved \in [Calls -> BOOLEAN] /\ account \in [Calls -> Refs \cup {NoRef}]
    BY DEF AdmissionInv, ControlTypeOK
<1>3. ASSUME NEW c \in Calls, Start(c) PROVE Elsewhere(c)
    BY <1>2, <1>3 DEF Start, BeginBefore, BeginAfter, Goto, accountVars, historyVars
<1>4. ASSUME NEW c \in Calls, Before(c) PROVE Elsewhere(c)
    BY <1>2, <1>4 DEF Before, CheckBefore, ReserveSlot, AuthorizeQuota, RollbackSlot, Goto,
                      accountVars, historyVars
<1>5. ASSUME NEW c \in Calls, CheckAfter(c) PROVE Elsewhere(c)
    BY <1>2, <1>5 DEF CheckAfter, Goto, accountVars, historyVars
<1>6. ASSUME NEW c \in Calls, Unlock(c) \/ EndAdmission(c) PROVE Elsewhere(c)
    BY <1>2, <1>6 DEF Unlock, EndAdmission, Goto, accountVars, historyVars
<1>7. ASSUME NEW c \in Calls, PruneModelTests(c) PROVE AccountsOwned'
    BY <1>2, <1>7, PruneOwned DEF PruneModelTests, Goto, historyVars, ReservedLate
<1> HIDE DEF Elsewhere
<1>8. ASSUME NEW c \in Calls, Start(c) \/ Continue(c) PROVE AccountsOwned'
    BY <1>1, <1>3, <1>4, <1>5, <1>6, <1>7, <1>8, AcquireSelectedOwned, TurnStateGateOwned,
       DropAccountOwned DEF Continue, After
<1>9. CASE UNCHANGED vars
  <2>1. UNCHANGED <<pc, on, account, reserved, granted, requests, root, lease>>
      BY <1>9 DEF vars, callVars, accountVars, historyVars
  <2> QED BY <2>1 DEF AccountsOwned, Moving, Occupies
<1> QED BY <1>8, <1>9, CompleteRequestAccounts, ManageAccounts DEF Next

LEMMA OwnersInvInit == Init => OwnersInv
<1> SUFFICES ASSUME Init PROVE OwnersInv OBVIOUS
<1>1. ReservedLate BY DEF Init, ReservedLate
<1>2. KeySlotsOwned BY DEF Init, KeyInit, KeySlotsOwned, HasSlot, Undecided
<1>3. AccountsOwned
    BY AdmissionAssumption DEF Init, AccountInit, AccountsOwned, Occupies
<1> QED BY <1>1, <1>2, <1>3 DEF OwnersInv

LEMMA OwnersInvHolds == Spec => []OwnersInv
<1>1. AdmissionInv /\ OwnersInv /\ [Next]_vars => OwnersInv'
    BY ReservedLateStep, KeySlotsOwnedStep, AccountsOwnedStep DEF OwnersInv
<1> QED BY <1>1, OwnersInvInit, AdmissionInvHolds, PTL DEF Spec

-----------------------------------------------------------------------------
(* Theorems *)

\* The admission path is well typed; no counter of calls or slots goes negative.
THEOREM AdmissionTypeCorrect == Spec => []TypeOK
<1>1. AdmissionInv => TypeOK
    BY DEF AdmissionInv, ControlTypeOK, TypeOK, KeyInv, AccountInv
<1> QED BY <1>1, AdmissionInvHolds, PTL

\* A completed request holds no slot, however late its interceptor calls run
\* (completeRequest, beginAdmission).
THEOREM NothingAfterCompletion == Spec => []CompletedHoldsNothing
<1>1. AdmissionInv => CompletedHoldsNothing BY DEF AdmissionInv
<1> QED BY <1>1, AdmissionInvHolds, PTL

\* The table of admissions has exactly the running calls, and the markers exactly
\* the completions they have yet to see (beginAdmission, endAdmission).
THEOREM MarkersExact == Spec => []MarkersFollowCalls
<1>1. AdmissionInv => MarkersFollowCalls BY DEF AdmissionInv
<1> QED BY <1>1, AdmissionInvHolds, PTL

\* Inside the admission path the key slots still implement the abstract limiter:
\* whatever is proved of KeySpec is true of the composed system.
THEOREM AdmissionUsesKeySlots == Spec => KeySpec
<1>1. Init => KeyInit BY DEF Init
<1>2. AdmissionInv /\ [Next]_vars => [KeyNext]_keyVars BY KeyPart DEF AdmissionInv
<1> QED BY <1>1, <1>2, AdmissionInvHolds, PTL DEF Spec, KeySpec

\* Admissions and completions, interleaved in any way, never let a key exceed a
\* finite limit, and the key slots implement the abstract limiter.
THEOREM AdmissionKeepsKeyLimits == Spec => KeyAdmitsWithinLimit /\ ImplementsKeyPool
<1> QED BY AdmissionUsesKeySlots, KeyLimitKept, KeySlotsImplementPool, PTL

\* Between critical sections the key slots are those of the admitted requests:
\* what a refused admission leaves, a duplicate takes or a late completion frees is
\* nobody else's (interceptBeforeAuth's rollback, completeRequest).
THEOREM SlotsFollowAdmissions == Spec => []SlotsAreAdmissions
<1>1. AdmissionInv /\ OwnersInv => SlotsAreAdmissions
  <2> SUFFICES ASSUME AdmissionInv, OwnersInv, LockFree, NEW r \in Requests
               PROVE  HasSlot(r) <=> r \in admitted
      BY DEF SlotsAreAdmissions, AdmissionInv, ControlTypeOK
  <2>1. Undecided(r) = {} BY OneInside DEF Undecided, HoldsLock
  <2> QED BY <2>1 DEF OwnersInv, KeySlotsOwned
<1> QED BY <1>1, AdmissionInvHolds, OwnersInvHolds, PTL

\* Between critical sections a request occupies the account of its last attempt that
\* was let through, by its present name, and model tests occupy accounts exactly
\* for their leases (interceptAfterAuth, pruneModelTests, migrateCredentialRefs).
THEOREM AccountsFollowAttempts == Spec => []AccountSlotsFollowAttempts
<1>1. AdmissionInv /\ OwnersInv => AccountSlotsFollowAttempts
  <2> SUFFICES ASSUME AdmissionInv, OwnersInv PROVE AccountSlotsFollowAttempts OBVIOUS
  <2>1. ASSUME LockFree, NEW r \in Requests PROVE ~Moving(r)
      BY <2>1, OneInside DEF Moving, HoldsLock
  <2> QED BY <2>1 DEF OwnersInv, AccountsOwned, AccountSlotsFollowAttempts
<1> QED BY <1>1, AdmissionInvHolds, OwnersInvHolds, PTL

\* Inside the admission path the account slots implement the abstract limiter too:
\* an owner enters an account only while it has room, whatever retries, refusals,
\* expiring tests and rotations do meanwhile (acquire, enforceAccountRuntime).
THEOREM AdmissionKeepsAccountPool == Spec => ImplementsAccountPool
<1>1. Init => AccountPool!Init
    BY AccountSlotsAssumption DEF Init, AccountInit, NoLimits, AccountPool!Init
<1>2. AdmissionInv /\ AdmissionInv' /\ [Next]_vars => [AccountPool!Next]_AccountPool!vars
  <2> SUFFICES ASSUME AdmissionInv, AdmissionInv', [Next]_vars
               PROVE  AccountPool!Next \/ UNCHANGED AccountPool!vars
      OBVIOUS
  <2>1. AccountInv /\ policy' \in [Refs -> AccountLimits]
      BY DEF AdmissionInv, AccountInv, AccountTypeOK
  <2>2. UNCHANGED accountVars => UNCHANGED AccountPool!vars
      BY DEF accountVars, AccountPool!vars
  <2>3. Expired \in SUBSET Owners /\ Requests \cup {NoRequest} \subseteq Owners \cup {NoOwner}
        /\ Tests \subseteq Owners
      BY AccountMoves
  <2>4. ASSUME NEW c \in Calls, Start(c) \/ Continue(c)
        PROVE  AccountPool!Next \/ UNCHANGED AccountPool!vars
    <3>1. on[c] \in Owners \cup {NoOwner} /\ account[c] \in Refs \cup {NoRef}
        BY <2>3 DEF AdmissionInv, ControlTypeOK
    <3>2. CASE PruneModelTests(c)
        BY <2>3, <3>2, ReleaseAccountsRefines DEF PruneModelTests
    <3>3. CASE AcquireSelected(c)
        BY <2>1, <2>2, <3>1, <3>3, AcquireAccountRefines DEF AcquireSelected
    <3>4. CASE DropAccount(c) BY <2>1, <3>1, <3>4, ReleaseAccountRefines DEF DropAccount
    <3>5. ASSUME ~PruneModelTests(c), ~AcquireSelected(c), ~DropAccount(c)
          PROVE  UNCHANGED accountVars
        BY <2>4, <3>5 DEF Start, BeginBefore, BeginAfter, Continue, Before, CheckBefore,
           ReserveSlot, AuthorizeQuota, RollbackSlot, After, CheckAfter, TurnStateGate,
           Unlock, EndAdmission
    <3> QED BY <2>2, <3>2, <3>3, <3>4, <3>5
  <2>5. ASSUME NEW r \in Requests, CompleteRequest(r)
        PROVE  AccountPool!Next \/ UNCHANGED AccountPool!vars
      BY <2>1, <2>3, <2>5, ReleaseAccountRefines DEF CompleteRequest
  <2>6. CASE Manage
    <3>1. ASSUME NEW t \in Tests, CompleteModelTest(t)
          PROVE  AccountPool!Next \/ UNCHANGED AccountPool!vars
        BY <2>1, <2>3, <3>1, ReleaseAccountRefines DEF CompleteModelTest
    <3>2. ASSUME NEW t \in Tests, NEW ref \in Refs, PrepareModelTest(t, ref)
          PROVE  AccountPool!Next \/ UNCHANGED AccountPool!vars
        BY <2>1, <2>3, <3>2, AcquireAccountRefines DEF PrepareModelTest
    <3>3. CASE PruneExpired BY <2>3, <3>3, ReleaseAccountsRefines DEF PruneExpired
    <3>4. CASE EditAccounts
        BY <2>1, <3>4, MigrateRefines
           DEF EditAccounts, SetPolicies, AccountPool!Recap, AccountPool!Next
    <3>5. CASE ToggleEnabled \/ EditKeyLimit \/ \E t \in Tests : ExpireLease(t)
        BY <2>2, <3>5 DEF ToggleEnabled, EditKeyLimit, ExpireLease
    <3> QED BY <2>6, <3>1, <3>2, <3>3, <3>4, <3>5 DEF Manage
  <2>7. CASE UNCHANGED vars BY <2>2, <2>7 DEF vars
  <2> QED BY <2>4, <2>5, <2>6, <2>7 DEF Next
<1> QED BY <1>1, <1>2, AdmissionInvHolds, PTL
        DEF Spec, ImplementsAccountPool, AccountPool!Spec
=============================================================================
