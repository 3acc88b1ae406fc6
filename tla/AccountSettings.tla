-------------------------- MODULE AccountSettings --------------------------
(***************************************************************************)
(* The life of the account settings: edits that are saved and then         *)
(* published, a reconfiguration that reads the settings file first and     *)
(* installs what it read much later (internal/plugin/app.go, configure),   *)
(* and restarts of the process.  A plugin.reconfigure call may overlap     *)
(* management calls: the host calls handlers concurrently.                 *)
(***************************************************************************)
EXTENDS AccountSlots

CONSTANTS
    Paths,      \* state files the operator may configure
    NoPath,     \* no configuration in progress
    MaxPatch    \* bound: accounts named by one edit

ASSUME SettingsAssumption == NoPath \notin Paths /\ MaxPatch \in Nat

VARIABLES
    path,       \* accountRuntime.path
    file,       \* file[p]: the settings saved beside state file p
    loading,    \* the path configure has read and not yet installed, or NoPath
    loaded,     \* what it read
    rotated,    \* history: rotated[p], one pair (any) whose rotation was saved under p, or {}
    overlapped  \* history: overlapped[p], p was edited while it was being loaded

fileVars == <<path, file, loading, loaded>>
historyVars == <<rotated, overlapped>>
settingsAllVars == <<requests, active, root, policy, path, file, loading, loaded,
                     rotated, overlapped>>

Settings(rt, pol) == [root |-> rt, policy |-> pol]
DefaultSettings == Settings(NoAliases, NoLimits)

\* Mutant: the edit reaches the memory only.
PublishUnsaved ==
    /\ overlapped' = [overlapped EXCEPT ![path] = @ \/ loading = path]
    /\ UNCHANGED <<path, file, loading, loaded>>

\* An edit is written to the file of the current path, then published.
SaveSettings ==
    /\ file' = [file EXCEPT ![path] = Settings(root', policy')]
    /\ overlapped' = [overlapped EXCEPT ![path] = @ \/ loading = path]
    /\ UNCHANGED <<path, loading, loaded>>

EditPolicies ==
    \E D \in SUBSET Refs, cleared \in BOOLEAN :
        /\ Cardinality(D) <= MaxPatch
        /\ \E patch \in [D -> AccountLimits] : SetPolicies(patch, cleared)
        /\ SaveSettings
        /\ UNCHANGED rotated

RotateCredentials ==
    \E a, x, b, y \in Refs :
        /\ a # x /\ b # y
        /\ MigrateCredentialRefs(a, x, b, y)
        /\ SaveSettings
        /\ \E pair \in {{}, {a, x}} :
              rotated' = [rotated EXCEPT ![path] = IF @ = {} THEN pair ELSE @]

Acquire ==
    /\ \E ref \in Refs, o \in Owners \cup {NoOwner} : AcquireAccount(ref, o)
    /\ UNCHANGED <<fileVars, historyVars>>

Release ==
    /\ \E o \in Owners \cup {NoOwner} : ReleaseAccount(o)
    /\ UNCHANGED <<fileVars, historyVars>>

\* configure reads the settings file of the new configuration before it takes
\* any lock...
LoadSettings(p) ==
    /\ loading = NoPath
    /\ loading' = p
    /\ loaded' = file[p]
    /\ UNCHANGED <<accountVars, path, file, historyVars>>

\* ...waits for the runner's gate, and may fail there...
AbandonConfigure ==
    /\ loading # NoPath
    /\ loading' = NoPath
    /\ loaded' = DefaultSettings
    /\ UNCHANGED <<accountVars, path, file, historyVars>>

\* ...and installs what it read.  Running requests are not moved between pools.
InstallSettings ==
    /\ loading # NoPath
    /\ path' = loading
    /\ root' = loaded.root
    /\ policy' = loaded.policy
    /\ loading' = NoPath
    /\ loaded' = DefaultSettings
    /\ UNCHANGED <<requests, active, file, historyVars>>

\* The process restarts and registers: the slots are gone, the settings are read
\* back before any traffic.
Restart(p) ==
    /\ requests' = [o \in Owners |-> NoRef]
    /\ active' = [q \in Refs |-> 0]
    /\ root' = file[p].root
    /\ policy' = file[p].policy
    /\ path' = p
    /\ loading' = NoPath
    /\ loaded' = DefaultSettings
    /\ UNCHANGED <<file, historyVars>>

SettingsInit ==
    /\ AccountInit
    /\ path \in Paths
    /\ file = [p \in Paths |-> DefaultSettings]
    /\ loading = NoPath
    /\ loaded = DefaultSettings
    /\ rotated = [p \in Paths |-> {}]
    /\ overlapped = [p \in Paths |-> FALSE]

SettingsNext ==
    \/ Acquire
    \/ Release
    \/ EditPolicies
    \/ RotateCredentials
    \/ \E p \in Paths : LoadSettings(p)
    \/ AbandonConfigure
    \/ InstallSettings
    \/ \E p \in Paths : Restart(p)

SettingsSpec == SettingsInit /\ [][SettingsNext]_settingsAllVars

-----------------------------------------------------------------------------
(* Properties *)

OnePool(rt, pair) == \A x, y \in pair : rt[x] = rt[y]

\* The old and the new reference of a rotation that was saved stay one pool, on
\* disk and in memory, through later rotations, edits, reconfigurations and
\* restarts, as long as no reconfiguration of the same state file overlapped an
\* edit (migrateCredentialRefs, loadAccountRuntimeSettings, configure).
RotationSurvives ==
    \A p \in Paths :
        ~overlapped[p] =>
            /\ OnePool(file[p].root, rotated[p])
            /\ path = p => OnePool(root, rotated[p])

\* "keeps old and newly published credentials in one pool ... old aliases remain
\* valid" (account_runtime.go:147-149), without the reservation above: false when
\* configure installs settings it read before the rotation.
RotatedCredentialsShareOnePool ==
    OnePool(root, rotated[path])

\* A saved rotation never loosens an account: whoever had a finite limit keeps
\* one, no larger, and whichever member of a pool is edited or selected, the
\* limit that applies is the same (normalizeAccountAliases, stricterAccountLimit).
RotationKeepsLimits ==
    [][root' # root /\ file'[path] # file[path] =>
         \A x \in Refs : /\ policy[x] > 0 => policy'[x] \in 1..policy[x]
                         /\ policy'[x] = policy'[root'[x]]]_settingsAllVars

=============================================================================
