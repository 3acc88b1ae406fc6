--------------------------- MODULE AccountsProofs ---------------------------
(***************************************************************************)
(* What holds of the upstream accounts.  Of their settings, for every set  *)
(* of accounts, owners, limits and state files: besides the table itself   *)
(* (AccountInv), the invariant covers the settings a restart or a          *)
(* reconfiguration can bring back, the saved ones and the ones configure   *)
(* is still holding.  Of the round robin among them: how often one may be  *)
(* passed over, for any weights and any number of candidates.              *)
(***************************************************************************)
EXTENDS AccountSettings, SlotsProofs, Scheduler, SequenceTheorems, WellFoundedInduction, NaturalsInduction, TLAPS

WellFormed(st) ==
    /\ Flat(st.root)
    /\ st.policy \in [Refs -> AccountLimits]

FilesOK ==
    /\ path \in Paths
    /\ file \in [Paths -> [root : [Refs -> Refs], policy : [Refs -> AccountLimits]]]
    /\ \A p \in Paths : WellFormed(file[p])
    /\ loading \in Paths \cup {NoPath}
    /\ WellFormed(loaded)

\* The history of rotations, and what configure read is no older than it while
\* no edit has overlapped the load.
HistoryOK ==
    /\ rotated \in [Paths -> SUBSET Refs]
    /\ overlapped \in [Paths -> BOOLEAN]
    /\ \A p \in Paths :
         loading = p /\ ~overlapped[p] => OnePool(loaded.root, rotated[p])

SettingsInv == AccountInv /\ FilesOK /\ HistoryOK /\ RotationSurvives

LEMMA DefaultsOK ==
    /\ WellFormed(DefaultSettings)
    /\ DefaultSettings \in [root : [Refs -> Refs], policy : [Refs -> AccountLimits]]
<1> QED BY AccountSlotsAssumption
        DEF WellFormed, Flat, DefaultSettings, Settings, NoAliases, NoLimits

LEMMA SettingsInvInit == SettingsInit => SettingsInv
<1> SUFFICES ASSUME SettingsInit PROVE SettingsInv OBVIOUS
<1>1. AccountInv BY AccountInvInit DEF SettingsInit
<1>2. FilesOK BY DefaultsOK DEF SettingsInit, FilesOK
<1>3. HistoryOK /\ RotationSurvives
    BY SettingsAssumption DEF SettingsInit, HistoryOK, RotationSurvives, OnePool
<1> QED BY <1>1, <1>2, <1>3 DEF SettingsInv

\* Saving writes the settings the edit leads to, which the table's invariant
\* makes well formed.
LEMMA SaveOK ==
    ASSUME FilesOK, AccountInv', SaveSettings
    PROVE  FilesOK'
<1> DEFINE st == Settings(root', policy')
<1>1. Flat(root') /\ policy' \in [Refs -> AccountLimits]
    BY DEF AccountInv, AccountTypeOK, Flat
<1>2. WellFormed(st) /\ st \in [root : [Refs -> Refs], policy : [Refs -> AccountLimits]]
    BY <1>1 DEF WellFormed, Settings, Flat
<1>3. file' = [file EXCEPT ![path] = st] /\ UNCHANGED <<path, loading, loaded>>
    BY DEF SaveSettings
<1> HIDE DEF st
<1>4. ASSUME NEW p \in Paths PROVE WellFormed(file'[p])
  <2>1. CASE p = path BY <1>2, <1>3, <2>1 DEF FilesOK
  <2>2. CASE p # path BY <1>3, <2>2 DEF FilesOK
  <2> QED BY <2>1, <2>2
<1>5. file' \in [Paths -> [root : [Refs -> Refs], policy : [Refs -> AccountLimits]]]
    BY <1>2, <1>3 DEF FilesOK
<1> QED BY <1>3, <1>4, <1>5 DEF FilesOK, WellFormed, Flat

\* If the new roots keep every pool together and join the pair recorded for the
\* current path, a saved edit keeps the rotations of every path.
LEMMA SaveKeepsRotations ==
    ASSUME SettingsInv, SaveSettings,
           NEW pair \in SUBSET Refs,
           rotated' = [rotated EXCEPT ![path] = pair],
           \A x, y \in Refs : root[x] = root[y] => root'[x] = root'[y],
           OnePool(root, rotated[path]) => OnePool(root', pair)
    PROVE  HistoryOK' /\ RotationSurvives'
<1> USE DEF SettingsInv
<1>1. path \in Paths /\ path' = path /\ loading' = loading /\ loaded' = loaded
    BY DEF FilesOK, SaveSettings
<1>2. /\ file' = [file EXCEPT ![path] = Settings(root', policy')]
      /\ overlapped' = [overlapped EXCEPT ![path] = @ \/ loading = path]
    BY DEF SaveSettings
<1>3. rotated' \in [Paths -> SUBSET Refs] /\ overlapped' \in [Paths -> BOOLEAN]
    BY <1>1, <1>2 DEF HistoryOK
<1>4. ASSUME NEW p \in Paths, ~overlapped'[p]
      PROVE  /\ ~overlapped[p]
             /\ p = path => loading # p
             /\ p # path => rotated'[p] = rotated[p] /\ file'[p] = file[p]
             /\ p = path => rotated'[p] = pair /\ file'[p].root = root'
    BY <1>1, <1>2, <1>4 DEF HistoryOK, FilesOK, Settings
<1>5. ASSUME NEW p \in Paths, ~overlapped'[p]
      PROVE  OnePool(file'[p].root, rotated'[p]) /\ (path' = p => OnePool(root', rotated'[p]))
    BY <1>1, <1>4, <1>5 DEF RotationSurvives
<1>6. ASSUME NEW p \in Paths, loading' = p, ~overlapped'[p]
      PROVE  OnePool(loaded'.root, rotated'[p])
  <2>1. p # path /\ ~overlapped[p] /\ rotated'[p] = rotated[p] BY <1>1, <1>4, <1>6
  <2>2. OnePool(loaded.root, rotated[p]) BY <1>1, <1>6, <2>1 DEF HistoryOK
  <2> QED BY <1>1, <2>1, <2>2
<1> QED BY <1>3, <1>5, <1>6 DEF HistoryOK, RotationSurvives, OnePool

LEMMA EditPoliciesInv == ASSUME SettingsInv, EditPolicies PROVE SettingsInv'
<1>1. PICK D \in SUBSET Refs, cleared \in BOOLEAN :
         /\ \E patch \in [D -> AccountLimits] : SetPolicies(patch, cleared)
         /\ SaveSettings
         /\ UNCHANGED rotated
    BY DEF EditPolicies
<1>2. AccountInv' BY <1>1, SetPoliciesInv DEF SettingsInv
<1>3. FilesOK' BY <1>1, <1>2, SaveOK DEF SettingsInv
<1>4. UNCHANGED root BY <1>1 DEF SetPolicies
<1>5. rotated[path] \in SUBSET Refs /\ rotated' = [rotated EXCEPT ![path] = rotated[path]]
    BY <1>1 DEF SettingsInv, HistoryOK, FilesOK
<1>6. HistoryOK' /\ RotationSurvives'
    BY <1>1, <1>4, <1>5, SaveKeepsRotations
<1> QED BY <1>2, <1>3, <1>6 DEF SettingsInv

LEMMA RotateCredentialsInv == ASSUME SettingsInv, RotateCredentials PROVE SettingsInv'
<1>1. PICK a, x, b, y \in Refs :
         /\ MigrateCredentialRefs(a, x, b, y)
         /\ SaveSettings
         /\ \E pair \in {{}, {a, x}} :
               rotated' = [rotated EXCEPT ![path] = IF @ = {} THEN pair ELSE @]
    BY DEF RotateCredentials
<1>2. AccountInv' BY <1>1, MigrateInv DEF SettingsInv
<1>3. FilesOK' BY <1>1, <1>2, SaveOK DEF SettingsInv
<1>4. /\ root'[a] = root'[x]
      /\ \A u, v \in Refs : root[u] = root[v] => root'[u] = root'[v]
  <2> DEFINE rt == RotatedRoots(a, x, b, y)
  <2>1. Flat(root) BY AccountInvIsCount DEF SettingsInv
  <2>2. root' = rt BY <1>1 DEF MigrateCredentialRefs
  <2>3. rt[a] = rt[x] /\ \A u, v \in Refs : root[u] = root[v] => rt[u] = rt[v]
      BY <2>1, RotatedProperties
  <2> HIDE DEF rt
  <2> QED BY <2>2, <2>3
<1>5. PICK pair \in {{}, {a, x}} :
        rotated' = [rotated EXCEPT ![path] = IF @ = {} THEN pair ELSE @]
    BY <1>1
<1> DEFINE new == IF rotated[path] = {} THEN pair ELSE rotated[path]
<1>6. rotated[path] \in SUBSET Refs BY DEF SettingsInv, HistoryOK, FilesOK
<1>7. new \in SUBSET Refs /\ rotated' = [rotated EXCEPT ![path] = new] BY <1>5, <1>6
<1>8. OnePool(root, rotated[path]) => OnePool(root', new)
    BY <1>4, <1>5, <1>6 DEF OnePool
<1>9. HistoryOK' /\ RotationSurvives'
  <2> HIDE DEF new
  <2> QED BY <1>1, <1>4, <1>7, <1>8, SaveKeepsRotations
<1> QED BY <1>2, <1>3, <1>9 DEF SettingsInv

\* Traffic does not touch the settings.
LEMMA TrafficInv == ASSUME SettingsInv, Acquire \/ Release PROVE SettingsInv'
<1>1. AccountInv'
    BY AcquireAccountInv, ReleaseAccountInv DEF Acquire, Release, SettingsInv
<1>2. UNCHANGED <<fileVars, historyVars, root>>
    BY DEF Acquire, Release, AcquireAccount, ReleaseAccount, settingsVars
<1> QED BY <1>1, <1>2 DEF SettingsInv, FilesOK, HistoryOK, RotationSurvives, fileVars,
           historyVars, WellFormed, Flat, OnePool

\* Loading, installing and restarting: settings come back as they were saved, or
\* as they were when configure read them.
LEMMA LoadSettingsInv ==
    ASSUME SettingsInv, NEW p \in Paths, LoadSettings(p) PROVE SettingsInv'
<1>1. AccountInv'
    BY DEF LoadSettings, SettingsInv, AccountInv, AccountTypeOK, AccountCountsOccupants,
           Occupants, accountVars
<1>2. FilesOK' BY DEF LoadSettings, SettingsInv, FilesOK, accountVars, historyVars,
                      WellFormed, Flat
<1>3. HistoryOK' /\ RotationSurvives'
    BY DEF LoadSettings, SettingsInv, HistoryOK, RotationSurvives, accountVars,
           historyVars, OnePool
<1> QED BY <1>1, <1>2, <1>3 DEF SettingsInv

LEMMA AbandonConfigureInv == ASSUME SettingsInv, AbandonConfigure PROVE SettingsInv'
<1>1. AccountInv'
    BY DEF AbandonConfigure, SettingsInv, AccountInv, AccountTypeOK,
           AccountCountsOccupants, Occupants, accountVars
<1>2. FilesOK' BY DefaultsOK DEF AbandonConfigure, SettingsInv, FilesOK, accountVars,
                  WellFormed, Flat
<1>3. HistoryOK' /\ RotationSurvives'
    BY SettingsAssumption DEF AbandonConfigure, SettingsInv, HistoryOK, RotationSurvives,
       accountVars, historyVars, OnePool
<1> QED BY <1>1, <1>2, <1>3 DEF SettingsInv

LEMMA InstallSettingsInv == ASSUME SettingsInv, InstallSettings PROVE SettingsInv'
<1> USE DEF SettingsInv
<1>1. loading \in Paths /\ WellFormed(loaded) BY DEF InstallSettings, FilesOK
<1>2. AccountInv'
    BY <1>1 DEF InstallSettings, WellFormed, Flat, AccountInv, AccountTypeOK,
       AccountCountsOccupants, Occupants
<1>3. FilesOK' BY <1>1, DefaultsOK DEF InstallSettings, FilesOK, WellFormed, Flat
<1>4. HistoryOK' /\ RotationSurvives'
    BY <1>1, SettingsAssumption DEF InstallSettings, HistoryOK, RotationSurvives,
       historyVars, OnePool
<1> QED BY <1>2, <1>3, <1>4

LEMMA RestartInv ==
    ASSUME SettingsInv, NEW p \in Paths, Restart(p) PROVE SettingsInv'
<1> USE DEF SettingsInv
<1>1. WellFormed(file[p]) BY DEF FilesOK
<1>2. AccountInv'
  <2>1. ASSUME NEW q \in Refs PROVE active'[q] = Cardinality(Occupants(q)')
    <3>1. Occupants(q)' = {} BY AccountSlotsAssumption DEF Restart, Occupants
    <3> QED BY <3>1, FS_EmptySet DEF Restart
  <2>2. AccountTypeOK' BY <1>1 DEF Restart, WellFormed, Flat, AccountTypeOK
  <2> QED BY <2>1, <2>2 DEF AccountInv, AccountCountsOccupants
<1>3. FilesOK' BY <1>1, DefaultsOK DEF Restart, FilesOK, WellFormed, Flat
<1>4. HistoryOK' /\ RotationSurvives'
    BY SettingsAssumption DEF Restart, HistoryOK, RotationSurvives, historyVars, OnePool
<1> QED BY <1>2, <1>3, <1>4

LEMMA SettingsInvStep == SettingsInv /\ [SettingsNext]_settingsAllVars => SettingsInv'
<1> SUFFICES ASSUME SettingsInv, [SettingsNext]_settingsAllVars PROVE SettingsInv'
    OBVIOUS
<1>1. CASE UNCHANGED settingsAllVars
    BY <1>1 DEF settingsAllVars, SettingsInv, AccountInv, AccountTypeOK,
       AccountCountsOccupants, Occupants, FilesOK, HistoryOK, RotationSurvives, OnePool,
       WellFormed, Flat
<1> QED BY <1>1, TrafficInv, EditPoliciesInv, RotateCredentialsInv, LoadSettingsInv,
           AbandonConfigureInv, InstallSettingsInv, RestartInv DEF SettingsNext

LEMMA SettingsInvHolds == SettingsSpec => []SettingsInv
<1> QED BY SettingsInvInit, SettingsInvStep, PTL DEF SettingsSpec

-----------------------------------------------------------------------------
(* Theorems *)

\* The account table and its settings are well formed and every alias chain is
\* one hop long, also after settings came back from disk (account_runtime.go).
THEOREM AccountTypeCorrect == SettingsSpec => []AccountTypeOK
<1>1. SettingsInv => AccountTypeOK BY DEF SettingsInv, AccountInv
<1> QED BY <1>1, SettingsInvHolds, PTL

\* The counters count the owners of every account exactly (acquire, release,
\* migrateCredentialRefs), although a reconfiguration may split the pools under
\* the running requests.
THEOREM AccountCountersExact == SettingsSpec => []AccountCountsOccupants
<1>1. SettingsInv => AccountCountsOccupants BY DEF SettingsInv, AccountInv
<1> QED BY <1>1, SettingsInvHolds, PTL

\* A saved rotation survives in memory and on disk unless a reconfiguration of
\* the same state file overlapped an edit (configure).
THEOREM RotationDurable == SettingsSpec => []RotationSurvives
<1>1. SettingsInv => RotationSurvives BY DEF SettingsInv
<1> QED BY <1>1, SettingsInvHolds, PTL

\* Where the roots and the file change together, a rotation was saved.
LEMMA RotationStep ==
    ASSUME SettingsInv, [SettingsNext]_settingsAllVars,
           root' # root, file'[path] # file[path]
    PROVE  \E a, x, b, y \in Refs : MigrateCredentialRefs(a, x, b, y)
<1>1. ~Acquire /\ ~Release BY DEF Acquire, Release, fileVars
<1>2. ~EditPolicies BY DEF EditPolicies, SetPolicies
<1>3. ~AbandonConfigure /\ ~InstallSettings BY DEF AbandonConfigure, InstallSettings
<1>4. \A p \in Paths : ~LoadSettings(p) /\ ~Restart(p) BY DEF LoadSettings, Restart
<1>5. ~UNCHANGED settingsAllVars BY DEF settingsAllVars
<1>6. RotateCredentials BY <1>1, <1>2, <1>3, <1>4, <1>5 DEF SettingsNext
<1> QED BY <1>6 DEF RotateCredentials

\* A rotation never loosens an account and leaves the members of every pool with
\* one limit (normalizeAccountAliases).
THEOREM RotationNeverLoosens == SettingsSpec => RotationKeepsLimits
<1>1. ASSUME SettingsInv, [SettingsNext]_settingsAllVars,
             root' # root, file'[path] # file[path], NEW u \in Refs
      PROVE  /\ policy[u] > 0 => policy'[u] \in 1..policy[u]
             /\ policy'[u] = policy'[root'[u]]
  <2>1. PICK a, x, b, y \in Refs : MigrateCredentialRefs(a, x, b, y)
      BY <1>1, RotationStep
  <2> DEFINE rt == RotatedRoots(a, x, b, y)
  <2>2. Flat(rt) BY <1>1, AccountInvIsCount, RotatedProperties DEF SettingsInv
  <2>3. root' = rt /\ policy' = Normalized(rt, policy) BY <2>1 DEF MigrateCredentialRefs
  <2>4. policy \in [Refs -> AccountLimits] BY <1>1, AccountInvIsCount DEF SettingsInv
  <2> HIDE DEF rt
  <2>5. rt \in [Refs -> Refs] /\ rt[u] \in Refs /\ rt[rt[u]] = rt[u] BY <2>2 DEF Flat
  <2>6. policy[u] > 0 => Normalized(rt, policy)[u] \in 1..policy[u]
      BY <2>4, <2>5, NormalizedProperties
  <2>7. Normalized(rt, policy)[u] = Normalized(rt, policy)[rt[u]]
      BY <2>4, <2>5, NormalizedProperties
  <2> QED BY <2>3, <2>6, <2>7
<1>2. SettingsInv /\ [SettingsNext]_settingsAllVars =>
        [root' # root /\ file'[path] # file[path] =>
           \A x \in Refs : /\ policy[x] > 0 => policy'[x] \in 1..policy[x]
                           /\ policy'[x] = policy'[root'[x]]]_settingsAllVars
    BY <1>1
<1> QED BY <1>2, SettingsInvHolds, PTL DEF SettingsSpec, RotationKeepsLimits

\* The table, its counters and its aliases implement the abstract limiter through
\* edits, rotations, reconfigurations and restarts: an account is entered only
\* while it has room (acquire).
THEOREM AccountSlotsImplementPool == SettingsSpec => ImplementsAccountPool
<1>1. SettingsInit => AccountPool!Init
  <2>1. AccountInit => AccountInv BY AccountInvInit
  <2> QED BY <2>1 DEF SettingsInit, AccountInit, AccountInv, AccountTypeOK, AccountPool!Init
<1>2. SettingsInv /\ SettingsInv' /\ [SettingsNext]_settingsAllVars
        => [AccountPool!Next]_AccountPool!vars
  <2> SUFFICES ASSUME SettingsInv, SettingsInv', [SettingsNext]_settingsAllVars
               PROVE  AccountPool!Next \/ UNCHANGED AccountPool!vars
      OBVIOUS
  <2>1. AccountInv /\ policy' \in [Refs -> AccountLimits]
      BY DEF SettingsInv, AccountInv, AccountTypeOK
  <2>2. CASE Acquire BY <2>1, <2>2, AcquireAccountRefines DEF Acquire
  <2>3. CASE Release BY <2>1, <2>3, ReleaseAccountRefines DEF Release
  <2>4. CASE EditPolicies
      BY <2>1, <2>4 DEF EditPolicies, SetPolicies, AccountPool!Recap, AccountPool!Next
  <2>5. CASE RotateCredentials BY <2>1, <2>5, MigrateRefines DEF RotateCredentials
  <2>6. CASE InstallSettings
      BY <2>1, <2>6 DEF InstallSettings, AccountPool!Recap, AccountPool!Next
  <2>7. ASSUME NEW p \in Paths, Restart(p) PROVE AccountPool!Next
      BY <2>1, <2>7 DEF Restart, AccountPool!Reset, AccountPool!Next
  <2>8. ASSUME \/ AbandonConfigure
               \/ \E p \in Paths : LoadSettings(p)
               \/ UNCHANGED settingsAllVars
        PROVE  UNCHANGED AccountPool!vars
      BY <2>8 DEF AbandonConfigure, LoadSettings, accountVars, settingsAllVars,
                  AccountPool!vars
  <2> QED BY <2>2, <2>3, <2>4, <2>5, <2>6, <2>7, <2>8 DEF SettingsNext
<1> QED BY <1>1, <1>2, SettingsInvHolds, PTL
        DEF SettingsSpec, ImplementsAccountPool, AccountPool!Spec
-----------------------------------------------------------------------------
(* Every nonempty set of numbers has a least element. *)
LEMMA LeastNumber ==
    ASSUME NEW S \in SUBSET Nat, S # {}
    PROVE  \E m \in S : \A n \in S : m <= n
<1> DEFINE R == OpToRel(<, Nat)
<1>1. R = {p \in Nat \X Nat : p[1] < p[2]} BY DEF OpToRel
<1>2. IsWellFoundedOn(R, Nat) BY NatLessThanWellFounded
<1>3. PICK m \in S : \A n \in S : <<n, m>> \notin R
  <2> HIDE DEF R
  <2> QED BY <1>2, WFMin
<1>4. ASSUME NEW n \in S PROVE m <= n
  <2>1. <<n, m>> \in Nat \X Nat /\ <<n, m>>[1] = n /\ <<n, m>>[2] = m OBVIOUS
  <2>2. ~(n < m) BY <1>1, <1>3, <2>1
  <2> QED BY <2>2
<1> QED BY <1>4
-----------------------------------------------------------------------------
(* How far the running weights of k candidates may drift, twice: concave in k. *)
Drift(e, n, k) == e * (k * (2 * n - k - 1))

LEMMA DriftIsConcave ==
    ASSUME NEW e \in Nat, NEW n \in Nat, NEW k \in Nat
    PROVE  /\ Drift(e, n, k + 1) + Drift(e, n, k - 1) = 2 * Drift(e, n, k) - 2 * e
           /\ Drift(e, n, 0) = 0 /\ Drift(e, n, k) \in Int
<1> DEFINE q == k * (2 * n - k - 1)
           r == (k + 1) * (2 * n - (k + 1) - 1)
           s == (k - 1) * (2 * n - (k - 1) - 1)
<1>1. q \in Int /\ r \in Int /\ s \in Int OBVIOUS
<1>2. r + s = 2 * q - 2 OBVIOUS
<1>3. e * r + e * s = e * (r + s)
  <2> HIDE DEF q, r, s
  <2> QED BY <1>1
<1>4. e * (2 * q - 2) = 2 * (e * q) - 2 * e
  <2> HIDE DEF q, r, s
  <2> QED BY <1>1
<1>5. e * 0 = 0 /\ 0 * (2 * n - 0 - 1) = 0 OBVIOUS
<1> QED BY <1>1, <1>2, <1>3, <1>4, <1>5 DEF Drift

LEMMA DriftGrows ==
    ASSUME NEW e \in Nat, NEW n \in Nat, NEW k \in 0..n, NEW j \in 0..k
    PROVE  Drift(e, n, j) <= Drift(e, n, k)
<1> DEFINE q == k * (2 * n - k - 1)
           r == j * (2 * n - j - 1)
<1>1. q \in Int /\ r \in Int OBVIOUS
<1>2. q - r = (k - j) * (2 * n - k - j - 1) OBVIOUS
<1>3. r <= q
  <2>1. CASE k = j BY <2>1
  <2>2. CASE k # j
    <3>1. k - j \in Nat /\ 2 * n - k - j - 1 \in Nat BY <2>2
    <3>2. \A x, y \in Nat : x * y >= 0 OBVIOUS
    <3>3. (k - j) * (2 * n - k - j - 1) >= 0 BY <3>1, <3>2
    <3> QED BY <1>1, <1>2, <3>3
  <2> QED BY <2>1, <2>2
<1>4. e * r <= e * q
  <2> HIDE DEF q, r
  <2>1. PICK d \in Nat : d = q - r BY <1>1, <1>3
  <2>2. e * q = e * r + e * d
    <3>1. q = r + d BY <1>1, <2>1
    <3> QED BY <1>1, <2>1, <3>1
  <2>3. e * d \in Nat /\ e * r \in Int BY <1>1, <2>1
  <2> QED BY <2>2, <2>3
<1> QED BY <1>4 DEF Drift
-----------------------------------------------------------------------------
LEMMA LastIsMost == Candidates # {} => Last \in Candidates /\ Last \in Nat /\ \A c \in Candidates : c <= Last
<1> SUFFICES ASSUME Candidates # {} PROVE Last \in Candidates /\ Last \in Nat /\ \A c \in Candidates : c <= Last
  OBVIOUS
<1> DEFINE Most(T, x) == x \in T /\ \A c \in T : x >= c
           W == {k \in Nat : \E T \in SUBSET Candidates : T # {} /\ Cardinality(T) = k /\ ~\E x \in T : Most(T, x)}
<1>1. W = {}
  <2> SUFFICES ASSUME W # {} PROVE FALSE OBVIOUS
  <2>1. PICK m \in W : \A n \in W : m <= n
    <3> HIDE DEF W
    <3>1. W \in SUBSET Nat BY DEF W
    <3> QED BY <3>1, LeastNumber
  <2>2. PICK T \in SUBSET Candidates : T # {} /\ Cardinality(T) = m /\ ~\E x \in T : Most(T, x) BY <2>1
  <2>3. PICK x \in T : x \in Nat BY <2>2, SchedulerAssumption
  <2>4. IsFiniteSet(T) BY FS_Subset, SchedulerAssumption
  <2>5. IsFiniteSet(T \ {x}) /\ Cardinality(T \ {x}) = m - 1 /\ T \ {x} \in SUBSET Candidates
    BY <2>2, <2>3, <2>4, FS_RemoveElement
  <2>6. m \in Nat /\ m - 1 \in Nat /\ ~(m <= m - 1)
    <3>1. Cardinality(T \ {x}) \in Nat BY <2>5, FS_CardinalityType
    <3> QED BY <2>1, <2>5, <3>1
  <2>7. m - 1 \notin W
    <3> HIDE DEF W
    <3> QED BY <2>1, <2>6
  <2>8. T \ {x} # {}
    <3>1. x >= x BY <2>3
    <3>2. CASE T \ {x} = {} BY <2>2, <2>3, <3>1, <3>2
    <3> QED BY <3>2
  <2>9. PICK y \in T \ {x} : Most(T \ {x}, y) BY <2>5, <2>6, <2>7, <2>8
  <2>10. y \in Nat /\ T \subseteq Nat BY SchedulerAssumption
  <2>11. CASE y >= x
    <3>1. Most(T, y) BY <2>9, <2>11
    <3> QED BY <2>2, <3>1
  <2>12. CASE ~(y >= x)
    <3>1. Most(T, x) BY <2>3, <2>9, <2>10, <2>12
    <3> QED BY <2>2, <2>3, <3>1
  <2> QED BY <2>11, <2>12
<1>2. PICK k \in Nat : k = Cardinality(Candidates) BY SchedulerAssumption, FS_CardinalityType
<1>3. k \notin W
  <2> HIDE DEF W
  <2> QED BY <1>1
<1>4. \E x \in Candidates : Most(Candidates, x) BY <1>2, <1>3
<1>5. Last \in Candidates /\ \A c \in Candidates : Last >= c BY <1>4 DEF Last, Max
<1> QED BY <1>5, SchedulerAssumption

Term(f, cs, n) == IF n \in cs THEN f[n] ELSE 0
Sums(sum, f, cs) ==
    /\ DOMAIN sum = 0..Last /\ sum[0] = Term(f, cs, 0)
    /\ \A n \in 1..Last : sum[n] = sum[n - 1] + Term(f, cs, n)

(* The sum over a set is the last of its partial sums. *)
LEMMA SumIsLast ==
    ASSUME Last \in Nat, NEW f, NEW cs, NEW sum \in [0..Last -> Int], Sums(sum, f, cs)
    PROVE  SumOver(f, cs) = sum[Last]
<1> DEFINE all == CHOOSE all : all = [n \in 0..Last |-> (IF n = 0 THEN 0 ELSE all[n - 1]) + (IF n \in cs THEN f[n] ELSE 0)]
<1>1. sum = [n \in 0..Last |-> (IF n = 0 THEN 0 ELSE sum[n - 1]) + (IF n \in cs THEN f[n] ELSE 0)]
  <2>1. ASSUME NEW n \in 0..Last PROVE sum[n] = (IF n = 0 THEN 0 ELSE sum[n - 1]) + (IF n \in cs THEN f[n] ELSE 0)
    <3>1. CASE n = 0
      <4>1. sum[0] \in Int /\ sum[0] = Term(f, cs, 0) BY DEF Sums
      <4>2. Term(f, cs, 0) = 0 + Term(f, cs, 0) BY <4>1
      <4> QED BY <3>1, <4>1, <4>2 DEF Term
    <3>2. CASE n # 0
      <4>1. n \in 1..Last BY <3>2
      <4> QED BY <3>2, <4>1 DEF Sums, Term
    <3> QED BY <3>1, <3>2
  <2> QED BY <2>1
<1>2. all = [n \in 0..Last |-> (IF n = 0 THEN 0 ELSE all[n - 1]) + (IF n \in cs THEN f[n] ELSE 0)] BY <1>1
<1>3. SumOver(f, cs) = all[Last] BY DEF SumOver
<1> HIDE DEF all
<1> DEFINE W == {n \in 0..Last : all[n] # sum[n]}
<1>4. W = {}
  <2> SUFFICES ASSUME W # {} PROVE FALSE OBVIOUS
  <2>1. PICK m \in W : \A n \in W : m <= n
    <3> HIDE DEF W
    <3>1. W \in SUBSET Nat BY DEF W
    <3> QED BY <3>1, LeastNumber
  <2>2. CASE m = 0 BY <1>1, <1>2, <2>1, <2>2
  <2>3. CASE m # 0
    <3>1. m - 1 \in 0..Last /\ ~(m <= m - 1) BY <2>1, <2>3
    <3>2. m - 1 \notin W
      <4> HIDE DEF W
      <4> QED BY <2>1, <3>1
    <3>3. all[m - 1] = sum[m - 1] BY <3>1, <3>2
    <3> QED BY <1>1, <1>2, <2>1, <2>3, <3>3
  <2> QED BY <2>2, <2>3
<1>5. Last \in 0..Last BY Last \in Nat
<1> QED BY <1>3, <1>4, <1>5

LEMMA SumsThere ==
    ASSUME Last \in Nat, NEW f, NEW cs, \A n \in 0..Last : Term(f, cs, n) \in Int
    PROVE  \E sum \in [0..Last -> Int] : Sums(sum, f, cs)
<1> DEFINE Upto(g, m) == g[0] = Term(f, cs, 0) /\ \A n \in 1..m : g[n] = g[n - 1] + Term(f, cs, n)
           W == {m \in 0..Last : ~\E g \in [0..m -> Int] : Upto(g, m)}
<1>1. W = {}
  <2> SUFFICES ASSUME W # {} PROVE FALSE OBVIOUS
  <2>1. PICK m \in W : \A n \in W : m <= n
    <3> HIDE DEF W
    <3>1. W \in SUBSET Nat BY DEF W
    <3> QED BY <3>1, LeastNumber
  <2>2. m # 0
    <3> SUFFICES ASSUME m = 0 PROVE FALSE OBVIOUS
    <3>1. PICK g : g = [n \in 0..0 |-> Term(f, cs, 0)] OBVIOUS
    <3>2. Term(f, cs, 0) \in Int BY Last \in Nat
    <3>3. g \in [0..0 -> Int] /\ Upto(g, 0) BY <3>1, <3>2
    <3> QED BY <2>1, <3>3
  <2>3. m \in 1..Last /\ m - 1 \in 0..Last /\ ~(m <= m - 1) BY <2>1, <2>2
  <2>4. m - 1 \notin W
    <3> HIDE DEF W
    <3> QED BY <2>1, <2>3
  <2>5. PICK g \in [0..(m - 1) -> Int] : Upto(g, m - 1) BY <2>3, <2>4
  <2>6. Term(f, cs, m) \in Int BY <2>1
  <2>7. g[m - 1] \in Int BY <2>3, <2>5
  <2>8. PICK h : h = [n \in 0..m |-> IF n = m THEN g[m - 1] + Term(f, cs, m) ELSE g[n]] OBVIOUS
  <2>9. \A n \in 0..m : n = m \/ n \in 0..(m - 1) BY <2>3
  <2>10. h \in [0..m -> Int] BY <2>5, <2>6, <2>7, <2>8, <2>9
  <2>11. Upto(h, m)
    <3>1. h[0] = Term(f, cs, 0) BY <2>3, <2>5, <2>8
    <3>2. ASSUME NEW n \in 1..m PROVE h[n] = h[n - 1] + Term(f, cs, n)
      <4>1. n - 1 \in 0..(m - 1) /\ n - 1 # m /\ n - 1 \in 0..m /\ n \in 0..m BY <2>3
      <4>2. h[n - 1] = g[n - 1] BY <2>8, <4>1
      <4>3. CASE n = m BY <2>8, <4>1, <4>2, <4>3
      <4>4. CASE n # m
        <5>1. n \in 1..(m - 1) BY <2>3, <4>4
        <5>2. h[n] = g[n] BY <2>8, <4>1, <4>4
        <5> QED BY <2>5, <4>2, <5>1, <5>2
      <4> QED BY <4>3, <4>4
    <3> QED BY <3>1, <3>2
  <2> QED BY <2>1, <2>10, <2>11
<1>2. Last \in 0..Last /\ Last \notin W
  <2> HIDE DEF W
  <2> QED BY <1>1, Last \in Nat
<1>3. PICK g \in [0..Last -> Int] : Upto(g, Last) BY <1>2
<1>4. Sums(g, f, cs) BY <1>3 DEF Sums
<1> QED BY <1>4

TermsAdd(f, as, g, bs, h, cs) ==
    \A n \in 0..Last : /\ Term(f, as, n) \in Int /\ Term(g, bs, n) \in Int
                       /\ Term(h, cs, n) = Term(f, as, n) + Term(g, bs, n)

LEMMA SumsAdd ==
    ASSUME Last \in Nat, NEW f, NEW as, NEW g, NEW bs, NEW h, NEW cs, TermsAdd(f, as, g, bs, h, cs)
    PROVE  /\ SumOver(f, as) \in Int /\ SumOver(g, bs) \in Int
           /\ SumOver(h, cs) = SumOver(f, as) + SumOver(g, bs)
<1>1. PICK p \in [0..Last -> Int] : Sums(p, f, as) BY SumsThere DEF TermsAdd
<1>2. PICK q \in [0..Last -> Int] : Sums(q, g, bs) BY SumsThere DEF TermsAdd
<1>3. PICK r : r = [n \in 0..Last |-> p[n] + q[n]] OBVIOUS
<1>4. r \in [0..Last -> Int] BY <1>1, <1>2, <1>3
<1>5. Sums(r, h, cs)
  <2>1. r[0] = Term(h, cs, 0) /\ DOMAIN r = 0..Last
    <3>1. 0 \in 0..Last BY Last \in Nat
    <3>2. r[0] = p[0] + q[0] BY <1>3, <3>1
    <3>3. p[0] = Term(f, as, 0) /\ q[0] = Term(g, bs, 0) BY <1>1, <1>2 DEF Sums
    <3>4. Term(h, cs, 0) = Term(f, as, 0) + Term(g, bs, 0) BY <3>1 DEF TermsAdd
    <3> QED BY <1>3, <3>1, <3>2, <3>3, <3>4
  <2>2. ASSUME NEW n \in 1..Last PROVE r[n] = r[n - 1] + Term(h, cs, n)
    <3>1. n \in 0..Last /\ n - 1 \in 0..Last BY Last \in Nat
    <3>2. r[n] = p[n] + q[n] /\ r[n - 1] = p[n - 1] + q[n - 1] BY <1>3, <3>1
    <3>3. p[n] = p[n - 1] + Term(f, as, n) /\ q[n] = q[n - 1] + Term(g, bs, n) BY <1>1, <1>2 DEF Sums
    <3>4. p[n - 1] \in Int /\ q[n - 1] \in Int BY <1>1, <1>2, <3>1
    <3>5. Term(f, as, n) \in Int /\ Term(g, bs, n) \in Int /\ Term(h, cs, n) = Term(f, as, n) + Term(g, bs, n)
      BY <3>1 DEF TermsAdd
    <3>6. PICK a \in Int, b \in Int : a = Term(f, as, n) /\ b = Term(g, bs, n) BY <3>5
    <3>7. PICK i \in Int, j \in Int : i = p[n - 1] /\ j = q[n - 1] BY <3>4
    <3>8. r[n] = (i + a) + (j + b) /\ r[n - 1] = i + j /\ Term(h, cs, n) = a + b BY <3>2, <3>3, <3>5, <3>6, <3>7
    <3>9. (i + a) + (j + b) = (i + j) + (a + b) OBVIOUS
    <3> QED BY <3>8, <3>9
  <2> QED BY <2>1, <2>2 DEF Sums
<1>6. SumOver(f, as) = p[Last] /\ SumOver(g, bs) = q[Last] /\ SumOver(h, cs) = r[Last]
  BY <1>1, <1>2, <1>4, <1>5, SumIsLast
<1>7. Last \in 0..Last BY Last \in Nat
<1> QED BY <1>1, <1>2, <1>3, <1>6, <1>7

LEMMA SumOfOne ==
    ASSUME Last \in Nat, NEW f, NEW x \in 0..Last, f[x] \in Int
    PROVE  SumOver(f, {x}) = f[x]
<1>1. PICK p : p = [n \in 0..Last |-> IF n < x THEN 0 ELSE f[x]] OBVIOUS
<1>2. p \in [0..Last -> Int] BY <1>1
<1>3. Sums(p, f, {x})
  <2>1. p[0] = Term(f, {x}, 0) /\ DOMAIN p = 0..Last BY <1>1, Last \in Nat DEF Term
  <2>2. ASSUME NEW n \in 1..Last PROVE p[n] = p[n - 1] + Term(f, {x}, n)
    <3>1. n \in 0..Last /\ n - 1 \in 0..Last BY Last \in Nat
    <3> QED BY <1>1, <3>1 DEF Term
  <2> QED BY <2>1, <2>2 DEF Sums
<1>4. p[Last] = f[x] BY <1>1, Last \in Nat
<1> QED BY <1>2, <1>3, <1>4, SumIsLast

LEMMA SumsOrdered ==
    ASSUME Last \in Nat, NEW W \in Nat, NEW f, NEW cs, \A n \in 0..Last : Term(f, cs, n) \in 0..W
    PROVE  SumOver(f, cs) \in 0..((Last + 1) * W)
<1>1. PICK p \in [0..Last -> Int] : Sums(p, f, cs)
  <2>1. \A n \in 0..Last : Term(f, cs, n) \in Int OBVIOUS
  <2> QED BY <2>1, SumsThere
<1> DEFINE X == {n \in 0..Last : p[n] \notin 0..((n + 1) * W)}
<1>2. X = {}
  <2> SUFFICES ASSUME X # {} PROVE FALSE OBVIOUS
  <2>1. PICK m \in X : \A n \in X : m <= n
    <3> HIDE DEF X
    <3>1. X \in SUBSET Nat BY DEF X
    <3> QED BY <3>1, LeastNumber
  <2>2. CASE m = 0
    <3>1. p[0] \in 0..W BY <1>1, Last \in Nat DEF Sums
    <3>2. (0 + 1) * W = W OBVIOUS
    <3> QED BY <2>1, <2>2, <3>1, <3>2
  <2>3. CASE m # 0
    <3>1. m \in 1..Last /\ m - 1 \in 0..Last /\ ~(m <= m - 1) BY <2>1, <2>3
    <3>2. m - 1 \notin X
      <4> HIDE DEF X
      <4> QED BY <2>1, <3>1
    <3>3. p[m - 1] \in 0..((m - 1 + 1) * W) BY <3>1, <3>2
    <3>4. p[m] = p[m - 1] + Term(f, cs, m) /\ Term(f, cs, m) \in 0..W BY <1>1, <2>1, <3>1 DEF Sums
    <3>5. (m + 1) * W = (m - 1 + 1) * W + W /\ (m + 1) * W \in Nat /\ (m - 1 + 1) * W \in Nat BY <3>1
    <3>6. p[m] \in 0..((m + 1) * W) BY <3>3, <3>4, <3>5
    <3> QED BY <2>1, <3>6
  <2> QED BY <2>2, <2>3
<1>3. Last \in 0..Last BY Last \in Nat
<1>4. p[Last] \in 0..((Last + 1) * W) BY <1>2, <1>3
<1> QED BY <1>1, <1>4, SumIsLast
-----------------------------------------------------------------------------
LEMMA SumOfNone == Last \in Nat => \A f : SumOver(f, {}) = 0
<1> SUFFICES ASSUME Last \in Nat, NEW f PROVE SumOver(f, {}) = 0 OBVIOUS
<1>1. PICK z : z = [n \in 0..Last |-> 0] OBVIOUS
<1>2. z \in [0..Last -> Int] /\ Sums(z, f, {})
  <2>1. \A n \in 0..Last : z[n] = 0 /\ Term(f, {}, n) = 0 BY <1>1 DEF Term
  <2>2. \A n \in 1..Last : n \in 0..Last /\ n - 1 \in 0..Last BY Last \in Nat
  <2>3. 0 \in 0..Last BY Last \in Nat
  <2> QED BY <1>1, <2>1, <2>2, <2>3 DEF Sums
<1>3. Last \in 0..Last BY Last \in Nat
<1> QED BY <1>1, <1>2, <1>3, SumIsLast

LEMMA TermsAre ==
    ASSUME NEW f \in [Candidates -> Int], NEW cs \in SUBSET Candidates, NEW n
    PROVE  Term(f, cs, n) \in Int
BY DEF Term

LEMMA SumSplits ==
    ASSUME Last \in Nat, NEW f \in [Candidates -> Int], NEW cs \in SUBSET Candidates, NEW x \in Candidates, x \in 0..Last
    PROVE  /\ SumOver(f, cs) \in Int
           /\ x \notin cs => SumOver(f, cs \cup {x}) = SumOver(f, cs) + f[x]
           /\ x \in cs => SumOver(f, cs) = SumOver(f, cs \ {x}) + f[x]
<1>1. ASSUME NEW A \in SUBSET Candidates, x \notin A
      PROVE  SumOver(f, A) \in Int /\ SumOver(f, A \cup {x}) = SumOver(f, A) + f[x]
  <2>1. \A n \in 0..Last : Term(f, A, n) \in Int /\ Term(f, {x}, n) \in Int BY TermsAre
  <2>2. \A n \in 0..Last : Term(f, A \cup {x}, n) = Term(f, A, n) + Term(f, {x}, n)
    <3>1. ASSUME NEW n \in 0..Last PROVE Term(f, A \cup {x}, n) = Term(f, A, n) + Term(f, {x}, n)
      <4>1. CASE n = x BY <1>1, <4>1 DEF Term
      <4>2. CASE n # x
        <5>1. Term(f, A \cup {x}, n) = Term(f, A, n) /\ Term(f, {x}, n) = 0 BY <4>2 DEF Term
        <5> QED BY <2>1, <5>1
      <4> QED BY <4>1, <4>2
    <3> QED BY <3>1
  <2>3. f[x] \in Int OBVIOUS
  <2>4. TermsAdd(f, A, f, {x}, f, A \cup {x}) BY <2>1, <2>2 DEF TermsAdd
  <2>5. SumOver(f, A) \in Int /\ SumOver(f, A \cup {x}) = SumOver(f, A) + SumOver(f, {x}) BY <2>4, SumsAdd
  <2>6. SumOver(f, {x}) = f[x] BY <2>3, SumOfOne
  <2> QED BY <2>5, <2>6
<1>2. CASE x \in cs
  <2>1. PICK A \in SUBSET Candidates : A = cs \ {x} OBVIOUS
  <2>2. x \notin A /\ A \cup {x} = cs BY <1>2, <2>1
  <2>3. SumOver(f, A) \in Int /\ SumOver(f, cs) = SumOver(f, A) + f[x] BY <1>1, <2>2
  <2>4. f[x] \in Int OBVIOUS
  <2> QED BY <1>2, <2>1, <2>3, <2>4
<1>3. CASE x \notin cs BY <1>1, <1>3
<1> QED BY <1>2, <1>3

LEMMA SumSame ==
    ASSUME Last \in Nat, NEW f, NEW as, NEW h, NEW cs,
           \A n \in 0..Last : Term(f, as, n) \in Int /\ Term(h, cs, n) = Term(f, as, n)
    PROVE  SumOver(h, cs) = SumOver(f, as)
<1>1. PICK sum \in [0..Last -> Int] : Sums(sum, f, as)
  <2>1. \A n \in 0..Last : Term(f, as, n) \in Int OBVIOUS
  <2> QED BY <2>1, SumsThere
<1>2. Sums(sum, h, cs)
  <2>1. \A n \in 0..Last : Term(h, cs, n) = Term(f, as, n) OBVIOUS
  <2>2. 0 \in 0..Last /\ \A n \in 1..Last : n \in 0..Last BY Last \in Nat
  <2>3. sum[0] = Term(f, as, 0) /\ DOMAIN sum = 0..Last BY <1>1 DEF Sums
  <2>4. \A n \in 1..Last : sum[n] = sum[n - 1] + Term(f, as, n) BY <1>1 DEF Sums
  <2> QED BY <2>1, <2>2, <2>3, <2>4 DEF Sums
<1>3. SumOver(f, as) = sum[Last] BY <1>1, SumIsLast
<1>4. SumOver(h, cs) = sum[Last] BY <1>2, SumIsLast
<1> QED BY <1>3, <1>4

Numbered == Last \in Nat /\ \A c \in Candidates : c \in 0..Last
PoolRecord == [known : SUBSET Candidates, current : [Candidates -> Int], weight : [Candidates -> Nat]]

SumMoves(state, usable, x, A) ==
    SumOver(Advanced(state, usable, x), A) =
        SumOver(state.current, A) + SumOver(state.weight, A \cap usable)
        - (IF x \in A THEN TotalWeight(state, usable) ELSE 0)

(* A turn adds the weights of those that may be chosen and takes their sum from the chosen one. *)
LEMMA AdvancedSum ==
    ASSUME Numbered, NEW state \in PoolRecord, NEW usable \in SUBSET Candidates, NEW x \in usable,
           NEW A \in SUBSET Candidates, TotalWeight(state, usable) \in Int
    PROVE  SumMoves(state, usable, x, A)
<1>1. PICK cur \in [Candidates -> Int] : cur = state.current BY DEF PoolRecord
<1>2. PICK w \in [Candidates -> Int] : w = state.weight BY DEF PoolRecord
<1>3. PICK t \in Int : t = TotalWeight(state, usable) OBVIOUS
<1>4. PICK mid : mid = [c \in Candidates |-> IF c \in usable THEN cur[c] + w[c] ELSE cur[c]] OBVIOUS
<1>5. PICK neg : neg = [c \in Candidates |-> -t] OBVIOUS
<1>6. PICK adv : adv = [c \in Candidates |-> CASE c = x -> cur[c] + w[c] - t
                                                 [] c \in usable \ {x} -> cur[c] + w[c]
                                                 [] OTHER -> cur[c]] OBVIOUS
<1>7. adv = Advanced(state, usable, x) BY <1>1, <1>2, <1>3, <1>6 DEF Advanced, Score
<1>8. mid \in [Candidates -> Int] /\ neg \in [Candidates -> Int] BY <1>4, <1>5
<1>9. Last \in Nat BY DEF Numbered
<1>10. /\ SumOver(cur, A) \in Int /\ SumOver(w, A \cap usable) \in Int
       /\ SumOver(mid, A) = SumOver(cur, A) + SumOver(w, A \cap usable)
  <2>1. \A n \in 0..Last : Term(cur, A, n) \in Int /\ Term(w, A \cap usable, n) \in Int BY TermsAre
  <2>2. ASSUME NEW n \in 0..Last PROVE Term(mid, A, n) = Term(cur, A, n) + Term(w, A \cap usable, n)
    <3>1. CASE n \notin A
      <4>1. Term(mid, A, n) = 0 /\ Term(cur, A, n) = 0 /\ Term(w, A \cap usable, n) = 0 BY <3>1 DEF Term
      <4> QED BY <4>1
    <3>2. CASE n \in A /\ n \in usable BY <1>4, <3>2 DEF Term
    <3>3. CASE n \in A /\ n \notin usable
      <4>1. Term(mid, A, n) = cur[n] /\ Term(cur, A, n) = cur[n] /\ Term(w, A \cap usable, n) = 0
        BY <1>4, <3>3 DEF Term
      <4>2. cur[n] \in Int BY <3>3
      <4> QED BY <4>1, <4>2
    <3> QED BY <3>1, <3>2, <3>3
  <2>3. TermsAdd(cur, A, w, A \cap usable, mid, A) BY <2>1, <2>2 DEF TermsAdd
  <2> QED BY <1>9, <2>3, SumsAdd
<1>11. SumOver(neg, A \cap {x}) = (IF x \in A THEN -t ELSE 0)
  <2>1. CASE x \in A
    <3>1. A \cap {x} = {x} /\ neg[x] = -t /\ -t \in Int /\ x \in 0..Last BY <1>5, <2>1 DEF Numbered
    <3> QED BY <1>9, <2>1, <3>1, SumOfOne
  <2>2. CASE x \notin A
    <3>1. A \cap {x} = {} BY <2>2
    <3> QED BY <1>9, <2>2, <3>1, SumOfNone
  <2> QED BY <2>1, <2>2
<1>12. SumOver(adv, A) = SumOver(mid, A) + SumOver(neg, A \cap {x}) /\ SumOver(mid, A) \in Int
  <2>1. \A n \in 0..Last : Term(mid, A, n) \in Int /\ Term(neg, A \cap {x}, n) \in Int BY <1>8, TermsAre
  <2>2. ASSUME NEW n \in 0..Last PROVE Term(adv, A, n) = Term(mid, A, n) + Term(neg, A \cap {x}, n)
    <3>1. CASE n \notin A BY <3>1 DEF Term
    <3>2. CASE n \in A /\ n = x
      <4>1. adv[n] = cur[n] + w[n] - t BY <1>6, <3>2
      <4>2. mid[n] = cur[n] + w[n] /\ neg[n] = -t BY <1>4, <1>5, <3>2
      <4>3. Term(adv, A, n) = adv[n] /\ Term(mid, A, n) = mid[n] /\ Term(neg, A \cap {x}, n) = neg[n] BY <3>2 DEF Term
      <4>4. cur[n] \in Int /\ w[n] \in Int BY <3>2
      <4> QED BY <4>1, <4>2, <4>3, <4>4
    <3>3. CASE n \in A /\ n # x
      <4>1. adv[n] = mid[n] BY <1>4, <1>6, <3>3
      <4>2. Term(adv, A, n) = adv[n] /\ Term(mid, A, n) = mid[n] /\ Term(neg, A \cap {x}, n) = 0 BY <3>3 DEF Term
      <4>3. mid[n] \in Int BY <1>8, <3>3
      <4> QED BY <4>1, <4>2, <4>3
    <3> QED BY <3>1, <3>2, <3>3
  <2>3. TermsAdd(mid, A, neg, A \cap {x}, adv, A) BY <2>1, <2>2 DEF TermsAdd
  <2> QED BY <1>9, <2>3, SumsAdd
<1> QED BY <1>1, <1>2, <1>3, <1>7, <1>10, <1>11, <1>12 DEF SumMoves
Room == Last + 1
Spread(W) == 2 * (Room * W) + W
MayDrift(W, A) == Drift(Spread(W), Room, Cardinality(A))

(* The invariant of the running weights: no set of candidates is far ahead of the others, or behind. *)
Balanced(current, W) ==
    \A A \in SUBSET Candidates :
        2 * SumOver(current, A) <= MayDrift(W, A) /\ -(2 * SumOver(current, A)) <= MayDrift(W, A)

LEMMA SpreadIsNatural == ASSUME Last \in Nat, NEW W \in Nat PROVE Spread(W) \in Nat /\ Room \in Nat /\ Room * W \in Nat
BY DEF Spread, Room

LEMMA CandidatesFit ==
    ASSUME Numbered, NEW A \in SUBSET Candidates
    PROVE  IsFiniteSet(A) /\ Cardinality(A) \in 0..Room
<1>1. A \in SUBSET Nat /\ \A n \in A : n <= Last BY DEF Numbered
<1>2. Last \in Nat BY DEF Numbered
<1>3. IsFiniteSet(A) /\ Cardinality(A) <= Last + 1 BY <1>1, <1>2, FS_BoundedSetOfNaturals
<1>4. Cardinality(A) \in Nat BY <1>3, FS_CardinalityType
<1> QED BY <1>2, <1>3, <1>4 DEF Room

LEMMA DriftOf ==
    ASSUME Numbered, NEW W \in Nat, NEW A \in SUBSET Candidates
    PROVE  /\ MayDrift(W, A) \in Int
           /\ \A B \in SUBSET A : MayDrift(W, B) <= MayDrift(W, A)
           /\ \A i \in Candidates \ A, o \in A :
                MayDrift(W, A \cup {i}) + MayDrift(W, A \ {o}) = 2 * MayDrift(W, A) - 2 * Spread(W)
<1>1. Spread(W) \in Nat /\ Room \in Nat BY SpreadIsNatural DEF Numbered
<1>2. PICK k \in 0..Room : k = Cardinality(A) BY CandidatesFit
<1>3. MayDrift(W, A) \in Int BY <1>1, <1>2, DriftIsConcave DEF MayDrift
<1>4. ASSUME NEW B \in SUBSET A PROVE MayDrift(W, B) <= MayDrift(W, A)
  <2>1. IsFiniteSet(A) BY CandidatesFit
  <2>2. Cardinality(B) <= k /\ IsFiniteSet(B) BY <1>2, <2>1, FS_Subset
  <2>3. Cardinality(B) \in Nat BY <2>2, FS_CardinalityType
  <2>4. Cardinality(B) \in 0..k BY <1>2, <2>2, <2>3
  <2> QED BY <1>1, <1>2, <2>4, DriftGrows DEF MayDrift
<1>5. ASSUME NEW i \in Candidates \ A, NEW o \in A
      PROVE  MayDrift(W, A \cup {i}) + MayDrift(W, A \ {o}) = 2 * MayDrift(W, A) - 2 * Spread(W)
  <2>1. IsFiniteSet(A) BY CandidatesFit
  <2>2. Cardinality(A \cup {i}) = k + 1 /\ Cardinality(A \ {o}) = k - 1 BY <1>2, <2>1, FS_AddElement, FS_RemoveElement
  <2>3. k \in Nat BY <1>1, <1>2
  <2>4. Drift(Spread(W), Room, k + 1) + Drift(Spread(W), Room, k - 1) = 2 * Drift(Spread(W), Room, k) - 2 * Spread(W)
    BY <1>1, <2>3, DriftIsConcave
  <2> QED BY <1>2, <2>2, <2>4 DEF MayDrift
<1> QED BY <1>3, <1>4, <1>5

(* Of two candidates, one in a set and one outside it: the set drifts by no more than they differ. *)
LEMMA Exchange ==
    ASSUME Numbered, NEW W \in Nat, NEW cur \in [Candidates -> Int], Balanced(cur, W),
           NEW A \in SUBSET Candidates, NEW i \in Candidates \ A, NEW o \in A
    PROVE  /\ 2 * SumOver(cur, A) <= MayDrift(W, A) - Spread(W) + (cur[o] - cur[i])
           /\ -(2 * SumOver(cur, A)) <= MayDrift(W, A) - Spread(W) + (cur[i] - cur[o])
<1>1. PICK more \in SUBSET Candidates : more = A \cup {i} OBVIOUS
<1>2. PICK less \in SUBSET Candidates : less = A \ {o} OBVIOUS
<1>3. Last \in Nat /\ i \in 0..Last /\ o \in 0..Last BY DEF Numbered
<1>4. PICK a \in Int, m \in Int, l \in Int : a = SumOver(cur, A) /\ m = SumOver(cur, more) /\ l = SumOver(cur, less)
  BY <1>3, SumSplits
<1>5. m = a + cur[i]
  <2>1. i \notin A /\ i \in Candidates OBVIOUS
  <2> QED BY <1>1, <1>3, <1>4, <2>1, SumSplits
<1>6. a = l + cur[o]
  <2>1. o \in A /\ o \in Candidates OBVIOUS
  <2> QED BY <1>2, <1>3, <1>4, <2>1, SumSplits
<1>7. PICK d \in Int, e \in Int, dm \in Int, dl \in Int :
        d = MayDrift(W, A) /\ e = Spread(W) /\ dm = MayDrift(W, more) /\ dl = MayDrift(W, less)
  <2>1. Spread(W) \in Int BY <1>3, SpreadIsNatural
  <2>2. MayDrift(W, A) \in Int /\ MayDrift(W, more) \in Int /\ MayDrift(W, less) \in Int BY DriftOf
  <2> QED BY <2>1, <2>2
<1>8. dm + dl = 2 * d - 2 * e BY <1>1, <1>2, <1>7, DriftOf
<1>9. 2 * m <= dm /\ -(2 * m) <= dm BY <1>4, <1>7 DEF Balanced
<1>10. 2 * l <= dl /\ -(2 * l) <= dl BY <1>4, <1>7 DEF Balanced
<1>11. PICK ci \in Int, co \in Int : ci = cur[i] /\ co = cur[o] OBVIOUS
<1>12. m = a + ci /\ a = l + co BY <1>5, <1>6, <1>11
<1>13. 2 * a <= d - e + (co - ci) /\ -(2 * a) <= d - e + (ci - co)
  <2>1. 2 * (2 * a) = 2 * m + 2 * l + 2 * (co - ci) BY <1>12
  <2> QED BY <1>8, <1>9, <1>10, <2>1
<1> QED BY <1>4, <1>7, <1>11, <1>13

LEMMA AdvancedIsBalanced ==
    ASSUME Numbered, NEW W \in Nat, NEW state \in PoolRecord, NEW usable \in SUBSET Candidates, NEW x \in usable,
           Ahead(state, usable, x), \A c \in usable : state.weight[c] <= W, Balanced(state.current, W)
    PROVE  Balanced(Advanced(state, usable, x), W)
<1>1. PICK cur \in [Candidates -> Int] : cur = state.current BY DEF PoolRecord
<1>2. PICK w \in [Candidates -> Nat] : w = state.weight BY DEF PoolRecord
<1>3. PICK adv : adv = Advanced(state, usable, x) OBVIOUS
<1>4. Last \in Nat BY DEF Numbered
<1>5. PICK most \in Nat, e \in Nat : most = Room * W /\ e = 2 * most + W /\ e = Spread(W)
  BY <1>4, SpreadIsNatural DEF Spread
<1>6. ASSUME NEW B \in SUBSET usable PROVE SumOver(w, B) \in 0..most
  <2>1. \A n \in 0..Last : Term(w, B, n) \in 0..W BY <1>2 DEF Term
  <2> QED BY <1>4, <1>5, <2>1, SumsOrdered DEF Room
<1>7. PICK t \in 0..most : t = TotalWeight(state, usable) BY <1>2, <1>6 DEF TotalWeight
<1> SUFFICES ASSUME NEW A \in SUBSET Candidates
             PROVE  2 * SumOver(adv, A) <= MayDrift(W, A) /\ -(2 * SumOver(adv, A)) <= MayDrift(W, A)
  BY <1>3 DEF Balanced
<1>8. PICK some \in SUBSET usable : some = A \cap usable OBVIOUS
<1>9. PICK s \in Int, g \in 0..most, d \in Int : s = SumOver(cur, A) /\ g = SumOver(w, some) /\ d = MayDrift(W, A)
  <2>1. MayDrift(W, A) \in Int BY DriftOf
  <2>2. SumOver(cur, A) \in Int
    <3>1. x \in Candidates /\ x \in 0..Last BY DEF Numbered
    <3> QED BY <1>4, <3>1, SumSplits
  <2> QED BY <1>6, <2>1, <2>2
<1>10. SumOver(adv, A) = s + g - (IF x \in A THEN t ELSE 0)
  <2>1. TotalWeight(state, usable) \in Int BY <1>7
  <2>2. SumMoves(state, usable, x, A) BY <2>1, AdvancedSum
  <2> QED BY <1>1, <1>2, <1>3, <1>7, <1>8, <1>9, <2>2 DEF SumMoves
<1>11. 2 * s <= d /\ -(2 * s) <= d BY <1>1, <1>9 DEF Balanced
<1>12. \A c \in usable : cur[x] + w[x] >= cur[c] + w[c]
  <2>1. ASSUME NEW c \in usable PROVE cur[x] + w[x] >= cur[c] + w[c]
    <3>1. cur[x] \in Int /\ w[x] \in Nat /\ cur[c] \in Int /\ w[c] \in Nat OBVIOUS
    <3>2. Score(state, x) > Score(state, c) \/ Score(state, x) = Score(state, c) BY DEF Ahead
    <3> QED BY <1>1, <1>2, <3>1, <3>2 DEF Score
  <2> QED BY <2>1
<1>13. \A c \in usable : w[c] \in 0..W /\ cur[c] \in Int BY <1>2
<1>14. g <= t
  <2>1. PICK other \in SUBSET usable : other = usable \ some OBVIOUS
  <2>2. PICK r \in 0..most : r = SumOver(w, other) BY <1>6, <2>1
  <2>3. TermsAdd(w, some, w, other, w, usable)
    <3>1. ASSUME NEW n
          PROVE  /\ Term(w, some, n) \in Int /\ Term(w, other, n) \in Int
                 /\ Term(w, usable, n) = Term(w, some, n) + Term(w, other, n)
      <4>1. Term(w, some, n) \in Int /\ Term(w, other, n) \in Int /\ Term(w, usable, n) \in Int BY <1>2 DEF Term
      <4>2. CASE n \in some
        <5>1. Term(w, usable, n) = Term(w, some, n) /\ Term(w, other, n) = 0 BY <2>1, <4>2 DEF Term
        <5> QED BY <4>1, <5>1
      <4>3. CASE n \notin some
        <5>1. Term(w, usable, n) = Term(w, other, n) /\ Term(w, some, n) = 0 BY <2>1, <4>3 DEF Term
        <5> QED BY <4>1, <5>1
      <4> QED BY <4>2, <4>3
    <3> QED BY <3>1 DEF TermsAdd
  <2>4. SumOver(w, usable) = g + r BY <1>4, <1>9, <2>2, <2>3, SumsAdd
  <2>5. t = g + r BY <1>2, <1>7, <2>4 DEF TotalWeight
  <2> QED BY <2>2, <2>5
<1>15. CASE x \in A
  <2>1. PICK b \in Int : b = SumOver(adv, A) /\ b = s + g - t BY <1>10, <1>15
  <2>2. 2 * b <= d BY <1>9, <1>11, <1>14, <2>1
  <2>3. CASE usable \subseteq A
    <3>1. some = usable BY <1>8, <2>3
    <3>2. g = t BY <1>2, <1>7, <1>9, <3>1 DEF TotalWeight
    <3> QED BY <1>9, <1>11, <2>1, <2>2, <3>2
  <2>4. CASE ~(usable \subseteq A)
    <3>1. PICK i \in usable : i \notin A BY <2>4
    <3>2. PICK ci \in Int, co \in Int, wi \in 0..W, wo \in 0..W : ci = cur[i] /\ co = cur[x] /\ wi = w[i] /\ wo = w[x]
      BY <1>13
    <3>3. -(2 * s) <= d - e + (ci - co)
      <4>1. i \in Candidates \ A /\ x \in A /\ Balanced(cur, W) BY <1>1, <1>15, <3>1
      <4> QED BY <1>5, <1>9, <3>2, <4>1, Exchange
    <3>4. co + wo >= ci + wi BY <1>12, <3>2
    <3>5. -(2 * b) <= d BY <1>5, <1>9, <1>7, <2>1, <3>2, <3>3, <3>4
    <3> QED BY <1>9, <2>1, <2>2, <3>5
  <2> QED BY <2>3, <2>4
<1>16. CASE x \notin A
  <2>1. PICK b \in Int : b = SumOver(adv, A) /\ b = s + g BY <1>10, <1>16
  <2>2. -(2 * b) <= d BY <1>9, <1>11, <2>1
  <2>3. CASE some = {}
    <3>1. g = 0 BY <1>4, <1>9, <2>3, SumOfNone
    <3> QED BY <1>9, <1>11, <2>1, <2>2, <3>1
  <2>4. CASE some # {}
    <3>1. PICK o \in usable : o \in A BY <1>8, <2>4
    <3>2. PICK ci \in Int, co \in Int, wi \in 0..W, wo \in 0..W : ci = cur[x] /\ co = cur[o] /\ wi = w[x] /\ wo = w[o]
      BY <1>13
    <3>3. 2 * s <= d - e + (co - ci)
      <4>1. x \in Candidates \ A /\ o \in A /\ Balanced(cur, W) BY <1>1, <1>16, <3>1
      <4> QED BY <1>5, <1>9, <3>2, <4>1, Exchange
    <3>4. ci + wi >= co + wo BY <1>12, <3>2
    <3>5. 2 * b <= d BY <1>5, <1>9, <2>1, <3>2, <3>3, <3>4
    <3> QED BY <1>9, <2>1, <2>2, <3>5
  <2> QED BY <2>3, <2>4
<1> QED BY <1>15, <1>16

(* The picks that a candidate may be passed over: it depends on the number of candidates and the weights. *)
PassBound(W) == Drift(Spread(W), Room, 1)

LEMMA OneIsBalanced ==
    ASSUME Numbered, NEW W \in Nat, NEW cur \in [Candidates -> Int], Balanced(cur, W), NEW c \in Candidates
    PROVE  2 * cur[c] <= PassBound(W) /\ -(2 * cur[c]) <= PassBound(W)
<1>1. {c} \in SUBSET Candidates /\ Cardinality({c}) = 1 BY FS_Singleton
<1>2. SumOver(cur, {c}) = cur[c]
  <2>1. Last \in Nat /\ c \in 0..Last /\ cur[c] \in Int BY DEF Numbered
  <2> QED BY <2>1, SumOfOne
<1>3. MayDrift(W, {c}) = PassBound(W) BY <1>1 DEF MayDrift, PassBound
<1> QED BY <1>1, <1>2, <1>3 DEF Balanced

LEMMA BoundIsNatural == ASSUME Numbered, NEW W \in Nat PROVE PassBound(W) \in Nat
<1>1. Spread(W) \in Nat /\ Room \in Nat /\ 1 \in 0..Room /\ 0 \in 0..1 BY SpreadIsNatural DEF Numbered, Room
<1>2. Drift(Spread(W), Room, 0) <= Drift(Spread(W), Room, 1) BY <1>1, DriftGrows
<1>3. Drift(Spread(W), Room, 0) = 0 /\ Drift(Spread(W), Room, 1) \in Int BY <1>1, DriftIsConcave
<1> QED BY <1>2, <1>3 DEF PassBound

LEMMA NothingIsBalanced ==
    ASSUME Numbered, NEW W \in Nat
    PROVE  Balanced([c \in Candidates |-> 0], W)
<1>1. PICK zero : zero = [c \in Candidates |-> 0] OBVIOUS
<1>2. Last \in Nat BY DEF Numbered
<1>3. ASSUME NEW A \in SUBSET Candidates
      PROVE  2 * SumOver(zero, A) <= MayDrift(W, A) /\ -(2 * SumOver(zero, A)) <= MayDrift(W, A)
  <2>1. \A n \in 0..Last : Term(zero, {}, n) \in Int /\ Term(zero, A, n) = Term(zero, {}, n) BY <1>1 DEF Term
  <2>2. SumOver(zero, A) = SumOver(zero, {}) BY <1>2, <2>1, SumSame
  <2>3. SumOver(zero, A) = 0 BY <1>2, <2>2, SumOfNone
  <2>4. {} \in SUBSET A OBVIOUS
  <2>5. MayDrift(W, {}) <= MayDrift(W, A) /\ MayDrift(W, A) \in Int BY <2>4, DriftOf
  <2>6. MayDrift(W, {}) = 0
    <3>1. Spread(W) \in Nat /\ Room \in Nat BY <1>2, SpreadIsNatural
    <3>2. Cardinality({}) = 0 BY FS_EmptySet
    <3> QED BY <3>1, <3>2, DriftIsConcave DEF MayDrift
  <2> QED BY <2>3, <2>5, <2>6
<1> QED BY <1>1, <1>3 DEF Balanced

LEMMA PartIsBalanced ==
    ASSUME Numbered, NEW W \in Nat, NEW cur \in [Candidates -> Int], Balanced(cur, W), NEW usable \in SUBSET Candidates
    PROVE  Balanced([c \in Candidates |-> IF c \in usable THEN cur[c] ELSE 0], W)
<1>1. PICK part : part = [c \in Candidates |-> IF c \in usable THEN cur[c] ELSE 0] OBVIOUS
<1>2. Last \in Nat BY DEF Numbered
<1>3. ASSUME NEW A \in SUBSET Candidates
      PROVE  2 * SumOver(part, A) <= MayDrift(W, A) /\ -(2 * SumOver(part, A)) <= MayDrift(W, A)
  <2>1. PICK some \in SUBSET Candidates : some = A \cap usable OBVIOUS
  <2>2. \A n \in 0..Last : Term(cur, some, n) \in Int /\ Term(part, A, n) = Term(cur, some, n)
    <3>1. ASSUME NEW n \in 0..Last PROVE Term(part, A, n) = Term(cur, some, n) BY <1>1, <2>1 DEF Term
    <3>2. \A n \in 0..Last : Term(cur, some, n) \in Int BY TermsAre
    <3> QED BY <3>1, <3>2
  <2>3. SumOver(part, A) = SumOver(cur, some) BY <1>2, <2>2, SumSame
  <2>4. 2 * SumOver(cur, some) <= MayDrift(W, some) /\ -(2 * SumOver(cur, some)) <= MayDrift(W, some) BY DEF Balanced
  <2>5. MayDrift(W, some) <= MayDrift(W, A) /\ MayDrift(W, A) \in Int /\ MayDrift(W, some) \in Int BY <2>1, DriftOf
  <2>6. SumOver(cur, some) \in Int
    <3>1. CASE some = {} BY <1>2, <3>1, SumOfNone
    <3>2. CASE some # {}
      <4>1. PICK x \in Candidates : x \in 0..Last BY <3>2 DEF Numbered
      <4> QED BY <1>2, <4>1, SumSplits
    <3> QED BY <3>1, <3>2
  <2> QED BY <2>3, <2>4, <2>5, <2>6
<1> QED BY <1>1, <1>3 DEF Balanced

(* One of those that may be chosen is ahead of the others. *)
LEMMA SomeIsAhead ==
    ASSUME Numbered, NEW state \in PoolRecord, NEW usable \in SUBSET Candidates, usable # {}
    PROVE  \E x \in usable : Ahead(state, usable, x)
<1> DEFINE Upto(n) == {c \in usable : c <= n}
           W == {n \in 0..Last : Upto(n) # {} /\ ~\E x \in Upto(n) : Ahead(state, Upto(n), x)}
<1>1. Last \in Nat /\ usable \subseteq Nat BY DEF Numbered
<1>2. \A c \in usable : Score(state, c) \in Int
  <2>1. ASSUME NEW c \in usable PROVE Score(state, c) \in Int
    <3>1. state.current \in [Candidates -> Int] /\ state.weight \in [Candidates -> Nat] BY DEF PoolRecord
    <3>2. state.current[c] \in Int /\ state.weight[c] \in Nat BY <3>1
    <3> QED BY <3>2 DEF Score
  <2> QED BY <2>1
<1>3. W = {}
  <2> SUFFICES ASSUME W # {} PROVE FALSE OBVIOUS
  <2>1. PICK m \in W : \A n \in W : m <= n
    <3> HIDE DEF W
    <3>1. W \in SUBSET Nat BY DEF W
    <3> QED BY <3>1, LeastNumber
  <2>2. m \in usable
    <3> SUFFICES ASSUME m \notin usable PROVE FALSE OBVIOUS
    <3>1. PICK c \in usable : c <= m BY <2>1
    <3>2. m - 1 \in 0..Last /\ ~(m <= m - 1) BY <1>1, <2>1, <3>1
    <3>3. Upto(m) = Upto(m - 1)
      <4>1. \A d \in usable : d # m /\ d \in Nat BY <1>1
      <4>2. \A d \in usable : d <= m <=> d <= m - 1 BY <2>1, <3>2, <4>1
      <4> QED BY <4>2
    <3>4. m - 1 \in W BY <2>1, <3>2, <3>3
    <3> HIDE DEF W
    <3> QED BY <2>1, <3>2, <3>4
  <2>3. m \in Upto(m) /\ m \in Nat BY <1>1, <2>2
  <2>4. \A d \in Upto(m) : d = m \/ (m - 1 \in Nat /\ d \in Upto(m - 1)) BY <1>1, <2>3
  <2>5. CASE \A d \in Upto(m) : d = m
    <3>1. Ahead(state, Upto(m), m) BY <2>3, <2>5 DEF Ahead
    <3> QED BY <2>1, <2>3, <3>1
  <2>6. CASE \E d \in Upto(m) : d # m
    <3>1. m - 1 \in 0..Last /\ Upto(m - 1) # {} /\ ~(m <= m - 1) BY <1>1, <2>1, <2>4, <2>6
    <3>2. m - 1 \notin W
      <4> HIDE DEF W
      <4> QED BY <2>1, <3>1
    <3>3. PICK y \in Upto(m - 1) : Ahead(state, Upto(m - 1), y) BY <3>1, <3>2
    <3>4. y \in Upto(m) /\ y <= m /\ y \in Nat BY <1>1, <2>3, <3>3
    <3>5. CASE Score(state, y) >= Score(state, m)
      <4>1. Ahead(state, Upto(m), y)
        <5>1. ASSUME NEW d \in Upto(m)
              PROVE  Score(state, y) > Score(state, d) \/ (Score(state, y) = Score(state, d) /\ y <= d)
          <6>1. CASE d = m BY <1>2, <2>2, <3>4, <3>5, <6>1
          <6>2. CASE d # m BY <2>4, <3>3, <6>2 DEF Ahead
          <6> QED BY <6>1, <6>2
        <5> QED BY <5>1 DEF Ahead
      <4> QED BY <2>1, <3>4, <4>1
    <3>6. CASE ~(Score(state, y) >= Score(state, m))
      <4>1. Ahead(state, Upto(m), m)
        <5>1. ASSUME NEW d \in Upto(m)
              PROVE  Score(state, m) > Score(state, d) \/ (Score(state, m) = Score(state, d) /\ m <= d)
          <6>1. CASE d = m BY <2>3, <6>1
          <6>2. CASE d # m
            <7>1. Score(state, y) >= Score(state, d) BY <1>2, <2>4, <3>3, <6>2 DEF Ahead
            <7>2. Score(state, m) > Score(state, y) BY <1>2, <2>2, <3>3, <3>6
            <7> QED BY <1>2, <2>2, <3>3, <7>1, <7>2
          <6> QED BY <6>1, <6>2
        <5> QED BY <5>1 DEF Ahead
      <4> QED BY <2>1, <2>3, <4>1
    <3> QED BY <3>5, <3>6
  <2> QED BY <2>5, <2>6
<1>4. Last \notin W
  <2> HIDE DEF W
  <2> QED BY <1>3
<1>5. Upto(Last) = usable /\ Last \in 0..Last
  <2>1. \A c \in usable : c <= Last BY DEF Numbered
  <2>2. Upto(Last) = usable BY <2>1
  <2>3. Last \in 0..Last BY <1>1
  <2> QED BY <2>2, <2>3
<1> QED BY <1>4, <1>5
-----------------------------------------------------------------------------
SchedulerTypeOK ==
    /\ weight \in [Candidates -> Weights]
    /\ pools \in [SchedulerScopes -> [Pools -> PoolRecord \cup {NoPool}]]
    /\ passed \in [SchedulerScopes -> [Pools -> [Candidates -> Nat]]]

(* A candidate that was passed over has gathered that much weight. *)
Gathers(old, current, W) == \A c \in Candidates : 2 * old[c] <= 2 * current[c] + PassBound(W)
Bounded(old, W) == \A c \in Candidates : old[c] <= PassBound(W)

FairInv(W) ==
    /\ SchedulerTypeOK
    /\ \A s \in SchedulerScopes, p \in Pools :
         /\ Bounded(passed[s][p], W)
         /\ pools[s][p] # NoPool =>
              Balanced(pools[s][p].current, W) /\ Gathers(passed[s][p], pools[s][p].current, W)

LEMMA NewPoolIsBalanced ==
    ASSUME Numbered, NEW W \in Nat PROVE NewPool \in PoolRecord /\ Balanced(NewPool.current, W)
<1>1. [c \in Candidates |-> 0] \in [Candidates -> Int] /\ [c \in Candidates |-> 0] \in [Candidates -> Nat] OBVIOUS
<1> QED BY <1>1, NothingIsBalanced DEF NewPool, PoolRecord

LEMMA ReweighedIs ==
    ASSUME Numbered, NEW W \in Nat, weight \in [Candidates -> Weights], NEW old \in PoolRecord, Balanced(old.current, W),
           NEW usable \in SUBSET Candidates
    PROVE  LET state == Reweighed(old, usable) IN
           /\ state \in PoolRecord /\ Balanced(state.current, W)
           /\ \A c \in usable : state.weight[c] = weight[c]
           /\ ~Reweighs(old, usable) => state.current = old.current
<1>1. PICK state : state = Reweighed(old, usable) OBVIOUS
<1>2. PICK base : base = IF Reweighs(old, usable) THEN StartedOver(old) ELSE old OBVIOUS
<1>3. base \in PoolRecord /\ Balanced(base.current, W) /\ (~Reweighs(old, usable) => base = old)
  <2>1. CASE Reweighs(old, usable)
    <3>1. PICK zero : zero = [c \in Candidates |-> 0] OBVIOUS
    <3>2. zero \in [Candidates -> Int] BY <3>1
    <3>3. base = [old EXCEPT !.known = {}, !.current = zero] BY <1>2, <2>1, <3>1 DEF StartedOver
    <3>4. base \in PoolRecord /\ base.current = zero BY <3>2, <3>3 DEF PoolRecord
    <3> QED BY <2>1, <3>1, <3>4, NothingIsBalanced
  <2>2. CASE ~Reweighs(old, usable) BY <1>2, <2>2
  <2> QED BY <2>1, <2>2
<1>4. PICK w : w = [c \in Candidates |-> IF c \in usable THEN weight[c] ELSE base.weight[c]] OBVIOUS
<1>5. w \in [Candidates -> Nat]
  <2>1. base.weight \in [Candidates -> Nat] BY <1>3 DEF PoolRecord
  <2> QED BY <1>4, <2>1, SchedulerAssumption
<1>6. state = [base EXCEPT !.weight = w] BY <1>1, <1>2, <1>4 DEF Reweighed
<1>7. state \in PoolRecord /\ state.current = base.current /\ state.weight = w BY <1>3, <1>5, <1>6 DEF PoolRecord
<1>8. \A c \in usable : w[c] = weight[c] BY <1>4
<1> QED BY <1>1, <1>3, <1>7, <1>8

LEMMA TrimmedIs ==
    ASSUME Numbered, NEW W \in Nat, NEW old \in PoolRecord, Balanced(old.current, W), NEW usable \in SUBSET Candidates
    PROVE  LET state == Trimmed(old, usable) IN
           /\ state \in PoolRecord /\ Balanced(state.current, W)
           /\ \A c \in usable : state.weight[c] = old.weight[c]
           /\ \A c \in Candidates : c \in state.known => state.current[c] = old.current[c]
<1>1. CASE Cardinality(old.known) <= MaxPerPool BY <1>1 DEF Trimmed
<1>2. CASE ~(Cardinality(old.known) <= MaxPerPool)
  <2>1. PICK cur : cur = [c \in Candidates |-> IF c \in usable THEN old.current[c] ELSE 0] OBVIOUS
  <2>2. PICK w : w = [c \in Candidates |-> IF c \in usable THEN old.weight[c] ELSE 0] OBVIOUS
  <2>3. PICK state : state = [known |-> usable, current |-> cur, weight |-> w] OBVIOUS
  <2>4. state = Trimmed(old, usable) BY <1>2, <2>1, <2>2, <2>3 DEF Trimmed
  <2>5. old.current \in [Candidates -> Int] /\ old.weight \in [Candidates -> Nat] BY DEF PoolRecord
  <2>6. cur \in [Candidates -> Int] /\ w \in [Candidates -> Nat] BY <2>1, <2>2, <2>5
  <2>7. state \in PoolRecord /\ state.known = usable /\ state.current = cur /\ state.weight = w
    BY <2>3, <2>6 DEF PoolRecord
  <2>8. Balanced(cur, W) BY <2>1, <2>5, PartIsBalanced
  <2>9. \A c \in usable : w[c] = old.weight[c] /\ cur[c] = old.current[c] BY <2>1, <2>2
  <2> QED BY <2>4, <2>7, <2>8, <2>9
<1> QED BY <1>1, <1>2

LEMMA AdvancedGathers ==
    ASSUME Numbered, NEW W \in Nat, NEW state \in PoolRecord, NEW usable \in SUBSET Candidates, NEW x \in usable,
           \A c \in usable : state.weight[c] \in Nat \ {0},
           NEW adv \in [Candidates -> Int], adv = Advanced(state, usable, x), Balanced(adv, W),
           NEW old \in [Candidates -> Nat], Gathers(old, state.current, W)
    PROVE  Passed(old, usable, x) \in [Candidates -> Nat] /\ Gathers(Passed(old, usable, x), adv, W)
<1>1. PICK now : now = Passed(old, usable, x) OBVIOUS
<1>2. now \in [Candidates -> Nat] BY <1>1 DEF Passed
<1>3. ASSUME NEW c \in Candidates PROVE 2 * now[c] <= 2 * adv[c] + PassBound(W)
  <2>1. PICK b \in Nat : b = PassBound(W) BY BoundIsNatural
  <2>2. state.current \in [Candidates -> Int] BY DEF PoolRecord
  <2>3. PICK i \in Int, j \in Int, n \in Nat : i = state.current[c] /\ j = adv[c] /\ n = old[c] BY <2>2
  <2>4. 2 * n <= 2 * i + b BY <2>1, <2>3 DEF Gathers
  <2>5. CASE c = x
    <3>1. now[c] = 0 BY <1>1, <2>5 DEF Passed
    <3>2. -(2 * j) <= b BY <2>1, <2>3, OneIsBalanced
    <3> QED BY <2>1, <2>3, <3>1, <3>2
  <2>6. CASE c \in usable \ {x}
    <3>1. now[c] = n + 1 BY <1>1, <2>3, <2>6 DEF Passed
    <3>2. PICK w \in Nat \ {0} : w = state.weight[c] BY <2>6
    <3>3. j = i + w BY <2>3, <2>6, <3>2 DEF Advanced, Score
    <3> QED BY <2>1, <2>3, <2>4, <3>1, <3>2, <3>3
  <2>7. CASE c \notin usable
    <3>1. now[c] = n BY <1>1, <2>3, <2>7 DEF Passed
    <3>2. j = i BY <2>3, <2>7 DEF Advanced
    <3> QED BY <2>1, <2>3, <2>4, <3>1, <3>2
  <2> QED BY <2>5, <2>6, <2>7
<1> QED BY <1>1, <1>2, <1>3 DEF Gathers

LEMMA PoolFound ==
    ASSUME Numbered, NEW W \in Nat, FairInv(W), NEW s \in SchedulerScopes, NEW p \in Pools
    PROVE  LET found == PoolsWith(s, p) IN
           /\ found \in [Pools -> PoolRecord \cup {NoPool}]
           /\ found[p] \in PoolRecord /\ Balanced(found[p].current, W)
           /\ pools[s][p] # NoPool => found[p] = pools[s][p]
           /\ \A q \in Pools \ {p} : found[q] \in {pools[s][q], NoPool}
<1>1. PICK own \in [Pools -> PoolRecord \cup {NoPool}] : own = pools[s] BY DEF FairInv, SchedulerTypeOK
<1>2. PICK new \in PoolRecord : new = NewPool /\ Balanced(new.current, W) BY NewPoolIsBalanced
<1>3. PICK found : found = PoolsWith(s, p) OBVIOUS
<1>4. CASE own[p] # NoPool
  <2>1. found = own BY <1>1, <1>3, <1>4 DEF PoolsWith
  <2>2. own[p] \in PoolRecord BY <1>4
  <2>3. Balanced(own[p].current, W) BY <1>1, <1>4 DEF FairInv
  <2> QED BY <1>1, <1>3, <2>1, <2>2, <2>3
<1>5. CASE own[p] = NoPool /\ Cardinality(PoolsOf(s)) >= MaxPools
  <2>1. found = [q \in Pools |-> IF q = p THEN new ELSE NoPool] BY <1>1, <1>2, <1>3, <1>5 DEF PoolsWith
  <2>2. found \in [Pools -> PoolRecord \cup {NoPool}] /\ found[p] = new BY <2>1
  <2>3. \A q \in Pools \ {p} : found[q] = NoPool BY <2>1
  <2> QED BY <1>1, <1>2, <1>3, <1>5, <2>2, <2>3
<1>6. CASE own[p] = NoPool /\ ~(Cardinality(PoolsOf(s)) >= MaxPools)
  <2>1. found = [own EXCEPT ![p] = new] BY <1>1, <1>2, <1>3, <1>6 DEF PoolsWith
  <2>2. found \in [Pools -> PoolRecord \cup {NoPool}] /\ found[p] = new BY <2>1
  <2>3. \A q \in Pools \ {p} : found[q] = own[q] BY <2>1
  <2> QED BY <1>1, <1>2, <1>3, <1>6, <2>2, <2>3
<1> QED BY <1>4, <1>5, <1>6

LEMMA PickKeepsShares ==
    ASSUME Numbered, NEW W \in Nat, \A w \in Weights : w <= W, FairInv(W),
           NEW s \in SchedulerScopes, NEW p \in Pools, NEW offered \in SUBSET Candidates, Pick(s, p, offered)
    PROVE  FairInv(W)'
<1>1. PICK usable \in SUBSET Candidates : usable = {c \in offered : weight[c] > 0} OBVIOUS
<1>2. PICK found : found = PoolsWith(s, p) OBVIOUS
<1>3. PICK old \in PoolRecord : old = found[p] /\ Balanced(old.current, W) BY <1>2, PoolFound
<1>4. weight \in [Candidates -> Weights] /\ SchedulerTypeOK BY DEF FairInv, SchedulerTypeOK
<1>5. PICK mid \in PoolRecord : mid = Reweighed(old, usable) BY <1>3, <1>4, ReweighedIs
<1>6. /\ Balanced(mid.current, W) /\ \A c \in usable : mid.weight[c] = weight[c]
      /\ ~Reweighs(old, usable) => mid.current = old.current BY <1>3, <1>4, <1>5, ReweighedIs
<1>7. PICK state \in PoolRecord : state = Trimmed(mid, usable) BY <1>6, TrimmedIs
<1>8. /\ Balanced(state.current, W) /\ \A c \in usable : state.weight[c] = mid.weight[c]
      /\ \A c \in Candidates : c \in state.known => state.current[c] = mid.current[c] BY <1>6, <1>7, TrimmedIs
<1>9. PICK x : x = Chosen(state, usable) OBVIOUS
<1>10. x \in usable /\ Ahead(state, usable, x)
  <2>1. Cardinality(usable) > 1 BY <1>1 DEF Pick
  <2>2. usable # {} BY <2>1, FS_EmptySet
  <2> QED BY <1>9, <2>2, SomeIsAhead DEF Chosen
<1>11. \A c \in usable : state.weight[c] \in Nat \ {0} /\ state.weight[c] <= W
  <2>1. ASSUME NEW c \in usable PROVE state.weight[c] \in Nat \ {0} /\ state.weight[c] <= W
    <3>1. state.weight[c] = weight[c] /\ weight[c] > 0 BY <1>1, <1>6, <1>8
    <3>2. weight[c] \in Weights /\ weight[c] \in Nat BY <1>4, SchedulerAssumption
    <3> QED BY <3>1, <3>2
  <2> QED BY <2>1
<1>12. PICK adv : adv = Advanced(state, usable, x) OBVIOUS
<1>13. adv \in [Candidates -> Int]
  <2>1. state.current \in [Candidates -> Int] /\ state.weight \in [Candidates -> Nat] BY DEF PoolRecord
  <2>2. \A c \in Candidates : state.current[c] \in Int /\ state.weight[c] \in Int BY <2>1
  <2>3. PICK t \in Int : t = TotalWeight(state, usable)
    <3>1. x \in Candidates /\ x \in 0..Last /\ Last \in Nat BY <1>10 DEF Numbered
    <3>2. state.weight \in [Candidates -> Int] BY <2>1
    <3> QED BY <3>1, <3>2, SumSplits DEF TotalWeight
  <2> QED BY <1>12, <2>2, <2>3 DEF Advanced, Score
<1>14. Balanced(adv, W) BY <1>8, <1>10, <1>11, <1>12, AdvancedIsBalanced
<1>15. PICK before \in [Candidates -> Nat] : before = passed[s][p] BY <1>4 DEF SchedulerTypeOK
<1>16. PICK startsOver \in BOOLEAN : startsOver <=> pools[s][p] = NoPool \/ Reweighs(old, usable)
  <2>1. PICK v : v = (pools[s][p] = NoPool \/ Reweighs(old, usable)) OBVIOUS
  <2>2. v \in BOOLEAN BY <2>1
  <2> QED BY <2>1, <2>2
<1>17. PICK carried : carried = Carried(before, state.known, startsOver) OBVIOUS
<1>18. carried \in [Candidates -> Nat] BY <1>17 DEF Carried
<1>19. Gathers(carried, state.current, W)
  <2>1. ASSUME NEW c \in Candidates PROVE 2 * carried[c] <= 2 * state.current[c] + PassBound(W)
    <3>1. PICK b \in Nat : b = PassBound(W) BY BoundIsNatural
    <3>2. state.current \in [Candidates -> Int] BY DEF PoolRecord
    <3>3. PICK i \in Int : i = state.current[c] BY <3>2
    <3>4. CASE startsOver \/ c \notin state.known
      <4>1. carried[c] = 0 BY <1>17, <3>4 DEF Carried
      <4>2. -(2 * i) <= b BY <1>8, <3>1, <3>2, <3>3, OneIsBalanced
      <4> QED BY <3>1, <3>3, <4>1, <4>2
    <3>5. CASE ~startsOver /\ c \in state.known
      <4>1. carried[c] = before[c] BY <1>17, <3>5 DEF Carried
      <4>2. pools[s][p] # NoPool /\ old = pools[s][p] BY <1>2, <1>3, <1>16, <3>5, PoolFound
      <4>3. state.current[c] = old.current[c] BY <1>6, <1>8, <1>16, <3>5
      <4>4. Gathers(before, old.current, W) BY <1>15, <4>2 DEF FairInv
      <4> QED BY <4>1, <4>3, <4>4 DEF Gathers
    <3> QED BY <3>4, <3>5
  <2> QED BY <2>1 DEF Gathers
<1>20. PICK now : now = Passed(carried, usable, x) OBVIOUS
<1>21. now \in [Candidates -> Nat] /\ Gathers(now, adv, W)
  <2>1. \A c \in usable : state.weight[c] \in Nat \ {0} BY <1>11
  <2> QED BY <1>10, <1>12, <1>13, <1>14, <1>18, <1>19, <1>20, <2>1, AdvancedGathers
<1>22. Bounded(now, W)
  <2>1. ASSUME NEW c \in Candidates PROVE now[c] <= PassBound(W)
    <3>1. PICK n \in Nat, i \in Int, b \in Nat : n = now[c] /\ i = adv[c] /\ b = PassBound(W)
      BY <1>13, <1>21, BoundIsNatural
    <3>2. 2 * n <= 2 * i + b BY <1>21, <3>1 DEF Gathers
    <3>3. 2 * i <= b BY <1>13, <1>14, <3>1, OneIsBalanced
    <3> QED BY <3>1, <3>2, <3>3
  <2> QED BY <2>1 DEF Bounded
<1>23. PICK turn : turn = [state EXCEPT !.known = @ \cup usable, !.current = adv] OBVIOUS
<1>24. turn \in PoolRecord /\ turn.current = adv BY <1>13, <1>23 DEF PoolRecord
<1>25. pools' = [pools EXCEPT ![s] = [found EXCEPT ![p] = turn]]
  BY <1>1, <1>2, <1>3, <1>5, <1>7, <1>9, <1>12, <1>23 DEF Pick
<1>26. passed' = [passed EXCEPT ![s][p] = now]
  BY <1>1, <1>2, <1>3, <1>5, <1>7, <1>9, <1>15, <1>16, <1>17, <1>20 DEF Pick, Carried
<1>27. weight' = weight BY DEF Pick
<1>28. found \in [Pools -> PoolRecord \cup {NoPool}] /\ \A q \in Pools \ {p} : found[q] \in {pools[s][q], NoPool}
  BY <1>2, PoolFound
<1>29. SchedulerTypeOK' BY <1>4, <1>21, <1>24, <1>25, <1>26, <1>27, <1>28 DEF SchedulerTypeOK
<1>30. ASSUME NEW t \in SchedulerScopes, NEW q \in Pools
       PROVE  /\ Bounded(passed'[t][q], W)
              /\ pools'[t][q] # NoPool =>
                   Balanced(pools'[t][q].current, W) /\ Gathers(passed'[t][q], pools'[t][q].current, W)
  <2>1. CASE t = s /\ q = p
    <3>1. pools'[t][q] = turn BY <1>4, <1>25, <1>28, <2>1 DEF SchedulerTypeOK
    <3>2. passed'[t][q] = now BY <1>4, <1>26, <2>1 DEF SchedulerTypeOK
    <3> QED BY <1>14, <1>21, <1>22, <1>24, <3>1, <3>2
  <2>2. CASE ~(t = s /\ q = p)
    <3>1. passed'[t][q] = passed[t][q] BY <1>4, <1>26, <2>2 DEF SchedulerTypeOK
    <3>2. pools'[t][q] \in {pools[t][q], NoPool} BY <1>4, <1>25, <1>28, <2>2 DEF SchedulerTypeOK
    <3> QED BY <3>1, <3>2 DEF FairInv
  <2> QED BY <2>1, <2>2
<1> QED BY <1>29, <1>30 DEF FairInv

LEMMA SharesKept ==
    ASSUME NEW W \in Nat, \A w \in Weights : w <= W
    PROVE  SchedulerSpec => [](Candidates # {} => Numbered /\ FairInv(W))
<1>1. ASSUME Candidates # {} PROVE Numbered BY <1>1, LastIsMost, SchedulerAssumption DEF Numbered
<1> DEFINE Inv == Candidates # {} => FairInv(W)
<1>3. SchedulerInit => Inv
  <2> SUFFICES ASSUME SchedulerInit, Candidates # {} PROVE FairInv(W) OBVIOUS
  <2>1. Numbered BY <1>1
  <2>2. NonePassed \in [Candidates -> Nat] BY DEF NonePassed
  <2>3. SchedulerTypeOK BY <2>2 DEF SchedulerInit, SchedulerTypeOK
  <2>4. Bounded(NonePassed, W)
    <3>1. PassBound(W) \in Nat BY <2>1, BoundIsNatural
    <3> QED BY <3>1 DEF Bounded, NonePassed
  <2> QED BY <2>3, <2>4 DEF SchedulerInit, FairInv
<1>4. Inv /\ [SchedulerNext]_schedulerVars => Inv'
  <2> SUFFICES ASSUME FairInv(W), Candidates # {}, [SchedulerNext]_schedulerVars PROVE FairInv(W)'
    BY DEF SchedulerTypeOK
  <2>1. Numbered BY <1>1
  <2>2. ASSUME NEW s \in SchedulerScopes, NEW p \in Pools, NEW offered \in SUBSET Candidates, Pick(s, p, offered)
        PROVE  FairInv(W)'
    BY <2>1, <2>2, PickKeepsShares
  <2>3. ASSUME NEW c \in Candidates, NEW w \in Weights, Reweigh(c, w) PROVE FairInv(W)'
    <3>1. pools' = pools /\ passed' = passed BY <2>3 DEF Reweigh
    <3>2. weight' \in [Candidates -> Weights] BY <2>3 DEF Reweigh, FairInv, SchedulerTypeOK
    <3> QED BY <3>1, <3>2 DEF FairInv, SchedulerTypeOK
  <2>4. ASSUME NEW live \in SUBSET SchedulerScopes, Prune(live) PROVE FairInv(W)'
    <3>1. NonePassed \in [Candidates -> Nat] BY DEF NonePassed
    <3>2. Bounded(NonePassed, W)
      <4>1. PassBound(W) \in Nat BY <2>1, BoundIsNatural
      <4> QED BY <4>1 DEF Bounded, NonePassed
    <3>3. SchedulerTypeOK' BY <2>4, <3>1 DEF Prune, FairInv, SchedulerTypeOK
    <3>4. ASSUME NEW s \in SchedulerScopes, NEW p \in Pools
          PROVE  \/ pools'[s][p] = pools[s][p] /\ passed'[s][p] = passed[s][p]
                 \/ pools'[s][p] = NoPool /\ passed'[s][p] = NonePassed
      BY <2>4 DEF Prune
    <3>5. ASSUME NEW s \in SchedulerScopes, NEW p \in Pools
          PROVE  /\ Bounded(passed'[s][p], W)
                 /\ pools'[s][p] # NoPool =>
                      Balanced(pools'[s][p].current, W) /\ Gathers(passed'[s][p], pools'[s][p].current, W)
      BY <3>2, <3>4 DEF FairInv
    <3> QED BY <3>3, <3>5 DEF FairInv
  <2>5. ASSUME UNCHANGED schedulerVars PROVE FairInv(W)'
    BY <2>5 DEF schedulerVars, FairInv, SchedulerTypeOK
  <2> QED BY <2>2, <2>3, <2>4, <2>5 DEF SchedulerNext
<1>5. Inv => (Candidates # {} => Numbered /\ FairInv(W)) BY <1>1
<1> QED BY <1>3, <1>4, <1>5, PTL DEF SchedulerSpec

(* However the candidates come and go, none is passed over more often in a row than PassBound
   says of their number and of the largest weight (scheduler.go:117-133). *)
THEOREM SharesAreFair ==
    ASSUME NEW W \in Nat, \A w \in Weights : w <= W, MaxPasses >= PassBound(W)
    PROVE  SchedulerSpec => []FairShare
<1>1. ASSUME Candidates = {} PROVE FairShare BY <1>1 DEF FairShare
<1>2. (Candidates # {} => Numbered /\ FairInv(W)) => FairShare
  <2> SUFFICES ASSUME Numbered, FairInv(W), Candidates # {} PROVE FairShare BY <1>1
  <2>1. ASSUME NEW s \in SchedulerScopes, NEW p \in Pools, NEW c \in Candidates PROVE passed[s][p][c] <= MaxPasses
    <3>1. passed[s][p] \in [Candidates -> Nat] BY DEF FairInv, SchedulerTypeOK
    <3>2. PICK n \in Nat, b \in Nat : n = passed[s][p][c] /\ b = PassBound(W) BY <3>1, BoundIsNatural
    <3>3. n <= b BY <3>2 DEF FairInv, Bounded
    <3> QED BY <3>2, <3>3, SchedulerAssumption
  <2> QED BY <2>1 DEF FairShare
<1> QED BY <1>2, SharesKept, PTL

(* Every running weight of a pool in use is within the bound. *)
WeightsWithin(W) ==
    \A s \in SchedulerScopes, p \in Pools, c \in Candidates :
        pools[s][p] # NoPool => pools[s][p].current[c] \in -PassBound(W)..PassBound(W)

(* The running weights, which the code keeps in an int64, stay within the bound however long the
   scheduler runs: no change of the candidates makes them drift (scheduler.go:127-133). *)
THEOREM WeightsDoNotDrift ==
    ASSUME NEW W \in Nat, \A w \in Weights : w <= W
    PROVE  SchedulerSpec => []WeightsWithin(W)
<1>1. ASSUME Candidates = {} PROVE WeightsWithin(W) BY <1>1 DEF WeightsWithin
<1>2. (Candidates # {} => Numbered /\ FairInv(W)) => WeightsWithin(W)
  <2> SUFFICES ASSUME Numbered, FairInv(W), Candidates # {} PROVE WeightsWithin(W) BY <1>1
  <2>1. ASSUME NEW s \in SchedulerScopes, NEW p \in Pools, NEW c \in Candidates, pools[s][p] # NoPool
        PROVE  pools[s][p].current[c] \in -PassBound(W)..PassBound(W)
    <3>1. PICK cur : cur = pools[s][p].current OBVIOUS
    <3>2. pools[s][p] \in PoolRecord BY <2>1 DEF FairInv, SchedulerTypeOK
    <3>3. cur \in [Candidates -> Int] BY <3>1, <3>2 DEF PoolRecord
    <3>4. Balanced(cur, W) BY <2>1, <3>1 DEF FairInv
    <3>5. PICK i \in Int, b \in Nat : i = cur[c] /\ b = PassBound(W) BY <3>3, BoundIsNatural
    <3>6. 2 * i <= b /\ -(2 * i) <= b BY <3>3, <3>4, <3>5, OneIsBalanced
    <3> QED BY <3>1, <3>5, <3>6
  <2> QED BY <2>1 DEF WeightsWithin
<1> QED BY <1>2, SharesKept, PTL
=============================================================================
