---------------------------- MODULE Integration ----------------------------
(* An integration account (plugin/integrations.go, integrations_cline.go, integration_migration.go):
   its record lives in the host's auth directory, its API key rotates with refresh tokens that work
   once, and a new key has another credential ref, which must take over the permissions and the
   concurrency limits of the old one before the browser publishes it as a channel. Every handler
   holds integrationsMu; the process may end between any two of its writes. *)
EXTENDS Naturals

CONSTANTS
    ApiKeys,           \* keys in the order they are issued, 1 is the first; the ref of a key is the key
    NoAccount, NoMigration

VARIABLES
    record,           \* the account in the host's auth directory
    unsaved,        \* App.integrationUnsaved: what the host has not confirmed
    grants,         \* refs that have the permissions of this account (billing store)
    pooled,         \* refs in the concurrency pool of this account (account runtime)
    configured,     \* refs the store was told of by the last synchronization, and by migrations
    work,           \* the handler that holds integrationsMu, and its copy of the account
    payload,        \* the key whose channel the browser was last given, 0: none
    published,      \* the ref of the channel the host serves
    snapshot,       \* the inventory the browser read and has yet to post, 0: none
    issued,         \* the last key the upstream issued
    uses,           \* history: how often the refresh token that came with a key was used
    lost            \* history: an account that was not saved, or the answer to a refresh, was lost

integrationVars == <<record, unsaved, grants, pooled, configured, work, payload, published, snapshot, uses, issued, lost>>

(* integrationRefMigration and integrationAccount; key 0 is none. *)
Migration == [id : Nat, from : Nat, to : Nat, prepared : BOOLEAN]
IntegrationAccount ==
    [key : Nat, refresh : BOOLEAN, pending : Migration \cup {NoMigration}, last : Nat, deleted : BOOLEAN]

ASSUME IntegrationAssumption ==
    /\ 1 \in ApiKeys /\ \A k \in ApiKeys : k \in Nat /\ 1..k \subseteq ApiKeys
    /\ NoMigration \notin Migration /\ NoAccount \notin IntegrationAccount

Unheld == [at |-> "idle"]
(* integrationForMutation: an account that is not saved hides the saved one. *)
Recovering == unsaved # NoAccount
Account == IF Recovering THEN unsaved ELSE record
Found == work.at = "idle" /\ (Recovering \/ ~record.deleted)

(* A replacement needs a migration when the account had a key before; a deleted account has none. *)
WithKey(account, key, refresh) ==
    [account EXCEPT !.key = key, !.refresh = refresh,
                    !.pending = IF account.key = 0 THEN NoMigration
                                ELSE [id |-> key, from |-> account.key, to |-> key, prepared |-> FALSE]]
NextKey == issued + 1
CanIssue == NextKey \in ApiKeys
TokenUsed(account) == uses' = [uses EXCEPT ![account.key] = @ + 1]
-----------------------------------------------------------------------------
(* saveIntegration with another key; a pending migration refuses it. *)
Edit ==
    /\ Found /\ CanIssue /\ Account.pending = NoMigration
    /\ issued' = NextKey
    /\ work' = [at |-> "save", account |-> WithKey(Account, NextKey, FALSE)]
    /\ UNCHANGED <<record, unsaved, grants, pooled, configured, payload, published, snapshot, uses, lost>>

RotateAlways ==     \* an unsaved rotation is rotated again, from the saved token
    /\ Found /\ CanIssue
    /\ ~record.deleted /\ record.refresh /\ record.pending = NoMigration
    /\ issued' = NextKey
    /\ TokenUsed(record)
    /\ work' = [at |-> "save", account |-> WithKey(record, NextKey, TRUE)]
    /\ UNCHANGED <<record, unsaved, grants, pooled, configured, payload, published, snapshot, lost>>

(* refreshIntegration: a pending or unsaved rotation is repaired and not rotated again. *)
Rotate ==
    /\ Found /\ CanIssue
    /\ Account.pending = NoMigration /\ ~Recovering /\ Account.refresh
    /\ issued' = NextKey
    /\ TokenUsed(Account)
    /\ work' = [at |-> "save", account |-> WithKey(Account, NextKey, TRUE)]
    /\ UNCHANGED <<record, unsaved, grants, pooled, configured, payload, published, snapshot, lost>>

(* The upstream rotated and its answer was lost. *)
RotateUnanswered ==
    /\ Found /\ CanIssue
    /\ Account.pending = NoMigration /\ ~Recovering /\ Account.refresh
    /\ issued' = NextKey
    /\ TokenUsed(Account)
    /\ lost' = TRUE
    /\ UNCHANGED <<record, unsaved, grants, pooled, configured, work, payload, published, snapshot>>

(* channelIntegration, and the repair that a refresh amounts to. *)
Repair ==
    /\ Found
    /\ work' = [at |-> IF Recovering THEN "save" ELSE "prepare", account |-> Account]
    /\ UNCHANGED <<record, unsaved, grants, pooled, configured, payload, published, snapshot, uses, issued, lost>>

Delete ==
    /\ Found
    /\ work' = [at |-> "mark", account |-> [Account EXCEPT !.deleted = TRUE, !.key = 0, !.refresh = FALSE,
                                                          !.pending = NoMigration]]
    /\ UNCHANGED <<record, unsaved, grants, pooled, configured, payload, published, snapshot, uses, issued, lost>>

(* persistIntegrationRecoverably: the host saves, refuses, or saves and reports a failure. A
   "save" goes on to the preparation; a "mark" is the handler's last step. *)
Save ==
    /\ work.at \in {"save", "mark"}
    /\ record' = work.account
    /\ unsaved' = NoAccount
    /\ work' = IF work.at = "mark" THEN Unheld ELSE [work EXCEPT !.at = "prepare"]
    /\ UNCHANGED <<grants, pooled, configured, payload, published, snapshot, uses, issued, lost>>

SaveFails(written) ==
    /\ work.at \in {"save", "mark"}
    /\ record' = IF written THEN work.account ELSE record
    /\ unsaved' = work.account
    /\ work' = Unheld
    /\ UNCHANGED <<grants, pooled, configured, payload, published, snapshot, uses, issued, lost>>
-----------------------------------------------------------------------------
(* prepareIntegrationReplacement: permissions, then concurrency, then the mark; a step that
   fails leaves the rest to a repair. Only a prepared account is given to the browser. *)
Prepared(account) == account.pending # NoMigration => account.pending.prepared
Both(refs, m) == IF m.from \in refs THEN refs \cup {m.to} ELSE refs
OnlyNew(refs, m) == Both(refs, m) \ {m.from}

PreparePermissions ==
    LET m == work.account.pending IN
    /\ work.at = "prepare" /\ ~Prepared(work.account)
    /\ grants' = Both(grants, m)
    /\ configured' = Both(configured, m)
    /\ work' = [work EXCEPT !.at = "runtime"]
    /\ UNCHANGED <<record, unsaved, pooled, payload, published, snapshot, uses, issued, lost>>

PrepareConcurrency ==
    /\ work.at = "runtime"
    /\ pooled' = pooled \cup {work.account.pending.to}
    /\ work' = [at |-> "save", account |-> [work.account EXCEPT !.pending.prepared = TRUE]]
    /\ UNCHANGED <<record, unsaved, grants, configured, payload, published, snapshot, uses, issued, lost>>

PrepareFails ==
    /\ work.at \in {"prepare", "runtime"} /\ ~Prepared(work.account)
    /\ work' = Unheld
    /\ UNCHANGED <<record, unsaved, grants, pooled, configured, payload, published, snapshot, uses, issued, lost>>

ReplyAtOnce ==      \* the channel is given before its permissions are prepared
    /\ work.at = "prepare"
    /\ payload' = work.account.key
    /\ work' = IF Prepared(work.account) THEN Unheld ELSE work
    /\ UNCHANGED <<record, unsaved, grants, pooled, configured, published, snapshot, uses, issued, lost>>
Reply ==
    /\ work.at = "prepare" /\ Prepared(work.account)
    /\ payload' = work.account.key
    /\ work' = Unheld
    /\ UNCHANGED <<record, unsaved, grants, pooled, configured, published, snapshot, uses, issued, lost>>

(* commitIntegrationReplacement, once the inventory shows the new ref and no longer the old. *)
Committed(account) == [account EXCEPT !.last = account.pending.id, !.pending = NoMigration]
Commit(id) ==
    LET m == Account.pending IN
    /\ Found /\ m # NoMigration /\ m.id = id /\ m.prepared
    /\ m.to \in configured /\ m.from \notin configured
    /\ grants' = OnlyNew(grants, m)
    /\ configured' = OnlyNew(configured, m)
    /\ work' = [at |-> "mark", account |-> Committed(Account)]
    /\ UNCHANGED <<record, unsaved, pooled, payload, published, snapshot, uses, issued, lost>>

(* A commit whose mark was not saved is saved by the retry. *)
CommitAgain(id) ==
    /\ Recovering /\ Found
    /\ Account.pending = NoMigration /\ Account.last = id
    /\ work' = [at |-> "mark", account |-> Account]
    /\ UNCHANGED <<record, unsaved, grants, pooled, configured, payload, published, snapshot, uses, issued, lost>>
-----------------------------------------------------------------------------
(* The browser publishes the channel it was given and synchronizes the inventory. *)
PublishChannel ==
    /\ payload # 0
    /\ published' = payload
    /\ UNCHANGED <<record, unsaved, grants, pooled, configured, work, payload, snapshot, uses, issued, lost>>

ReadInventory ==
    /\ snapshot = 0
    /\ snapshot' = published
    /\ UNCHANGED <<record, unsaved, grants, pooled, configured, work, payload, published, uses, issued, lost>>

Synchronize ==
    /\ snapshot # 0
    /\ configured' = {snapshot}
    /\ snapshot' = 0
    /\ UNCHANGED <<record, unsaved, grants, pooled, work, payload, published, uses, issued, lost>>

(* The process ends: what the host did not save is gone. *)
RestartPlugin ==
    /\ unsaved' = NoAccount
    /\ work' = Unheld
    /\ lost' = (lost \/ (unsaved # NoAccount /\ unsaved # record) \/ (work.at # "idle" /\ work.account # record))
    /\ UNCHANGED <<record, grants, pooled, configured, payload, published, snapshot, uses, issued>>
-----------------------------------------------------------------------------
IntegrationInit ==
    /\ record = [key |-> 1, refresh |-> TRUE, pending |-> NoMigration, last |-> 0, deleted |-> FALSE]
    /\ unsaved = NoAccount
    /\ grants = {1} /\ pooled = {1} /\ configured = {1}
    /\ work = Unheld
    /\ payload = 0 /\ published = 1 /\ snapshot = 0
    /\ issued = 1 /\ uses = [k \in ApiKeys |-> 0] /\ lost = FALSE

IntegrationNext ==
    \/ Edit \/ Rotate \/ RotateUnanswered \/ Repair \/ Delete
    \/ Save \/ \E written \in BOOLEAN : SaveFails(written)
    \/ PreparePermissions \/ PrepareConcurrency \/ PrepareFails \/ Reply
    \/ \E id \in ApiKeys : Commit(id) \/ CommitAgain(id)
    \/ PublishChannel \/ ReadInventory \/ Synchronize
    \/ RestartPlugin

IntegrationSpec == IntegrationInit /\ [][IntegrationNext]_integrationVars
-----------------------------------------------------------------------------
(* Until the account is deleted, the channel the host serves has the account's permissions and
   counts against its limit, wherever a replacement is interrupted; and once the saved account has
   no replacement pending, its key alone has them (credential_migration.go:9-14). *)
AccessFollowsRotation ==
    ~record.deleted =>
        /\ published \in grants /\ published \in pooled
        /\ record.pending = NoMigration => grants = {record.key}

(* Unless an answer or an unsaved account is lost, a refresh token is used once, however saving
   fails and whatever is repeated (integration_migration.go:16-18). *)
TokenUsedOnce == lost \/ \A k \in ApiKeys : uses[k] <= 1
=============================================================================
