----------------------------- MODULE PartsProofs -----------------------------
(* Proofs about parts that MCParts runs side by side: a credential's connection is rotated with
   the account that uses it (Integration), a device login ends as the provider answered
   (DeviceLogin), what a key may use follows from its rules (Routing), the choice of an account
   and the check after it agree (CredentialPick), and large settings are saved whole
   (ConfigUpload). *)
EXTENDS Integration, DeviceLogin, Routing, CredentialPick, ConfigUpload, FiniteSetTheorems, SequenceTheorems, TLAPS
(* The account the handlers go on with: the copy at work, else what a mutation would read. *)
AtHand == IF work.at = "idle" THEN Account ELSE work.account

IntegrationTypeOK ==
    /\ record \in IntegrationAccount /\ unsaved \in IntegrationAccount \cup {NoAccount}
    /\ work \in {Unheld} \cup [at : {"save", "mark", "prepare", "runtime"}, account : IntegrationAccount]
    /\ issued \in ApiKeys /\ uses \in [ApiKeys -> Nat] /\ lost \in BOOLEAN
    /\ payload \in Nat /\ published \in Nat /\ snapshot \in Nat /\ configured \subseteq Nat

(* A handler that prepares has saved its account; a deletion is undone by nothing. *)
HeldInv ==
    /\ work.at \in {"prepare", "runtime"} => record = work.account /\ unsaved = NoAccount
    /\ work.at = "runtime" => ~Prepared(work.account) /\ (record.deleted \/ record.pending.to \in grants)
    /\ record.deleted => AtHand.deleted

(* How the permissions, the pool, the browser and the host stand to an account. *)
Settled(account) ==
    /\ published = account.key /\ grants = {account.key} /\ account.key \in pooled
    /\ payload \in {0, account.key}
Replacing(own, m) ==
    /\ own = m.to /\ m.from < m.to
    /\ published \in {m.from, m.to} /\ published \in pooled
    /\ grants \in {{m.from}, {m.from, m.to}, {m.to}}
    /\ payload \in {0, m.from, m.to}
    /\ published = m.to => payload = m.to
    /\ payload = m.to => m.to \in grants /\ m.to \in pooled
    /\ m.prepared => m.to \in grants /\ m.to \in pooled
    /\ m.from \notin grants => published = m.to
    /\ snapshot = m.to \/ (m.to \in configured /\ m.from \notin configured) => published = m.to
Follows(account) ==
    /\ account.key \in 1..issued
    /\ account.pending = NoMigration => Settled(account)
    /\ account.pending # NoMigration => Replacing(account.key, account.pending)

(* A replacement is prepared only where the saved account has it too. *)
PreparedIsSaved ==
    LET m == AtHand.pending IN
    m # NoMigration /\ m.prepared =>
        /\ record.pending # NoMigration /\ record.pending.from = m.from /\ record.pending.to = m.to
        /\ AtHand.deleted => record.deleted

(* No key is known before it is issued. *)
KnownKeys ==
    ~record.deleted => payload <= issued /\ published <= issued /\ snapshot <= issued /\ configured \subseteq 0..issued

RotationInv ==
    /\ KnownKeys
    /\ ~record.deleted => Follows(record)
    /\ ~AtHand.deleted => Follows(AtHand)
    /\ PreparedIsSaved

(* The refresh token of the current account is fresh. *)
TokenInv ==
    /\ lost \/ \A k \in ApiKeys : uses[k] <= 1 /\ (k > issued => uses[k] = 0)
    /\ lost \/ (AtHand.refresh => AtHand.key \in 1..issued /\ uses[AtHand.key] = 0)

IntegrationInv == IntegrationTypeOK /\ HeldInv /\ RotationInv /\ TokenInv
USE DEF integrationVars
-----------------------------------------------------------------------------
\* What becomes of an account: it gets another key...
LEMMA WithKeyFields ==
    ASSUME NEW account \in IntegrationAccount, NEW k \in ApiKeys, NEW refreshed \in BOOLEAN
    PROVE  /\ WithKey(account, k, refreshed) \in IntegrationAccount
           /\ WithKey(account, k, refreshed).key = k
           /\ WithKey(account, k, refreshed).refresh = refreshed
           /\ WithKey(account, k, refreshed).deleted = account.deleted
           /\ account.key = 0 => WithKey(account, k, refreshed).pending = NoMigration
           /\ account.key # 0 => /\ WithKey(account, k, refreshed).pending # NoMigration
                                 /\ WithKey(account, k, refreshed).pending.from = account.key
                                 /\ WithKey(account, k, refreshed).pending.to = k
                                 /\ ~WithKey(account, k, refreshed).pending.prepared
<1> DEFINE m == [id |-> k, from |-> account.key, to |-> k, prepared |-> FALSE]
<1>1. k \in Nat BY IntegrationAssumption
<1>2. m \in Migration /\ m.from = account.key /\ m.to = k /\ ~m.prepared
    BY <1>1 DEF IntegrationAccount, Migration
<1> HIDE DEF m
<1>3. WithKey(account, k, refreshed) =
          [account EXCEPT !.key = k, !.refresh = refreshed,
                          !.pending = IF account.key = 0 THEN NoMigration ELSE m]
    BY DEF WithKey, m
<1>4. m # NoMigration BY <1>2, IntegrationAssumption
<1> DEFINE p == IF account.key = 0 THEN NoMigration ELSE m
<1>5. p \in Migration \cup {NoMigration} BY <1>2
<1>6. WithKey(account, k, refreshed) = [account EXCEPT !.key = k, !.refresh = refreshed, !.pending = p] BY <1>3
<1> HIDE DEF p
<1>7. /\ WithKey(account, k, refreshed) \in IntegrationAccount
      /\ WithKey(account, k, refreshed).key = k
      /\ WithKey(account, k, refreshed).refresh = refreshed
      /\ WithKey(account, k, refreshed).deleted = account.deleted
      /\ WithKey(account, k, refreshed).pending = p
    BY <1>1, <1>5, <1>6 DEF IntegrationAccount
<1>8. (account.key = 0 => p = NoMigration) /\ (account.key # 0 => p = m) BY DEF p
<1> QED BY <1>2, <1>4, <1>7, <1>8

\* ...its replacement is marked as prepared, or as completed...
LEMMA PreparedFields ==
    ASSUME NEW account \in IntegrationAccount, account.pending # NoMigration
    PROVE  LET next == [account EXCEPT !.pending.prepared = TRUE] IN
           /\ next \in IntegrationAccount
           /\ next.key = account.key /\ next.refresh = account.refresh /\ next.deleted = account.deleted
           /\ next.pending # NoMigration /\ next.pending.prepared
           /\ next.pending.from = account.pending.from /\ next.pending.to = account.pending.to
<1> DEFINE m == [account.pending EXCEPT !.prepared = TRUE]
           next == [account EXCEPT !.pending.prepared = TRUE]
<1>1. account.pending \in Migration BY DEF IntegrationAccount
<1>2. m \in Migration /\ m.prepared /\ m.from = account.pending.from /\ m.to = account.pending.to
    BY <1>1 DEF Migration
<1>3. m # NoMigration BY <1>2, IntegrationAssumption
<1>4. next = [account EXCEPT !.pending = m] BY DEF IntegrationAccount
<1> HIDE DEF m
<1>5. /\ next \in IntegrationAccount /\ next.pending = m
      /\ next.key = account.key /\ next.refresh = account.refresh /\ next.deleted = account.deleted
    BY <1>2, <1>4 DEF IntegrationAccount
<1> QED BY <1>2, <1>3, <1>5

LEMMA CommittedFields ==
    ASSUME NEW account \in IntegrationAccount, account.pending # NoMigration
    PROVE  /\ Committed(account) \in IntegrationAccount
           /\ Committed(account).key = account.key /\ Committed(account).refresh = account.refresh
           /\ Committed(account).deleted = account.deleted /\ Committed(account).pending = NoMigration
<1>1. account.pending.id \in Nat BY DEF IntegrationAccount, Migration
<1> QED BY <1>1 DEF Committed, IntegrationAccount

\* ...or it is deleted.
Deleted(account) == [account EXCEPT !.deleted = TRUE, !.key = 0, !.refresh = FALSE, !.pending = NoMigration]
LEMMA DeletedFields ==
    ASSUME NEW account \in IntegrationAccount
    PROVE  /\ Deleted(account) \in IntegrationAccount
           /\ Deleted(account).deleted /\ ~Deleted(account).refresh
           /\ Deleted(account).pending = NoMigration
BY DEF Deleted, IntegrationAccount

\* A handler works on an account, and an idle plugin has one at hand.
LEMMA AtHandType ==
    ASSUME IntegrationTypeOK
    PROVE  /\ AtHand \in IntegrationAccount /\ Account \in IntegrationAccount
           /\ work.at = "idle" => work = Unheld /\ AtHand = Account
           /\ work.at # "idle" => /\ AtHand = work.account /\ work.account \in IntegrationAccount
                                  /\ work = [at |-> work.at, account |-> work.account]
                                  /\ work.at \in {"save", "mark", "prepare", "runtime"}
<1>1. Account \in IntegrationAccount BY DEF IntegrationTypeOK, Account, Recovering
<1>2. CASE work = Unheld BY <1>1, <1>2 DEF Unheld, AtHand
<1>3. CASE work \in [at : {"save", "mark", "prepare", "runtime"}, account : IntegrationAccount]
    BY <1>1, <1>3 DEF AtHand
<1> QED BY <1>2, <1>3 DEF IntegrationTypeOK

\* What a handler starts with, and the copy it leaves behind.
LEMMA HeldAccount ==
    ASSUME NEW account \in IntegrationAccount, NEW step \in {"save", "mark", "prepare", "runtime"},
           work' = [at |-> step, account |-> account]
    PROVE  /\ AtHand' = account /\ work'.at = step /\ work'.account = account
           /\ work' \in [at : {"save", "mark", "prepare", "runtime"}, account : IntegrationAccount]
BY DEF AtHand

LEMMA UnheldAccount ==
    ASSUME work' = Unheld
    PROVE  /\ AtHand' = IF unsaved' # NoAccount THEN unsaved' ELSE record'
           /\ work'.at = "idle"
BY DEF AtHand, Account, Recovering, Unheld

\* Every step keeps the types; the upstream issues its keys in order.
LEMMA IntegrationTypeStep ==
    IntegrationTypeOK /\ HeldInv /\ IntegrationNext => IntegrationTypeOK'
<1> SUFFICES ASSUME IntegrationTypeOK, HeldInv, IntegrationNext PROVE IntegrationTypeOK' OBVIOUS
<1> USE AtHandType
<1>a. /\ issued \in Nat /\ \A k \in ApiKeys : k \in Nat
      /\ work \in {Unheld} \cup [at : {"save", "mark", "prepare", "runtime"}, account : IntegrationAccount]
    BY IntegrationAssumption DEF IntegrationTypeOK
<1>b. ASSUME CanIssue, issued' = NextKey
      PROVE  issued' \in ApiKeys
    BY <1>b DEF CanIssue, NextKey
<1>c. ASSUME NEW account \in IntegrationAccount, TokenUsed(account) PROVE uses' \in [ApiKeys -> Nat]
  <2> DEFINE k == account.key
  <2>1. uses' = [uses EXCEPT ![k] = @ + 1] BY <1>c DEF TokenUsed
  <2> HIDE DEF k
  <2>2. CASE k \in ApiKeys BY <2>1, <2>2 DEF IntegrationTypeOK
  <2>3. CASE k \notin ApiKeys BY <2>1, <2>3 DEF IntegrationTypeOK
  <2> QED BY <2>2, <2>3
<1>d. ASSUME NEW account \in IntegrationAccount, NEW step \in {"save", "mark", "prepare", "runtime"},
             work' = [at |-> step, account |-> account]
      PROVE  work' \in {Unheld} \cup [at : {"save", "mark", "prepare", "runtime"}, account : IntegrationAccount]
    BY <1>d
<1>1. CASE Edit
  <2> DEFINE next == WithKey(Account, NextKey, FALSE)
  <2>1. next \in IntegrationAccount BY <1>1, WithKeyFields DEF Edit, CanIssue
  <2> HIDE DEF next
  <2>2. work' = [at |-> "save", account |-> next] BY <1>1 DEF Edit, next
  <2> QED BY <1>1, <1>b, <1>d, <2>1, <2>2 DEF Edit, IntegrationTypeOK
<1>2. CASE Rotate
  <2> DEFINE next == WithKey(Account, NextKey, TRUE)
  <2>1. next \in IntegrationAccount BY <1>2, WithKeyFields DEF Rotate, CanIssue
  <2> HIDE DEF next
  <2>2. work' = [at |-> "save", account |-> next] BY <1>2 DEF Rotate, next
  <2> QED BY <1>2, <1>b, <1>c, <1>d, <2>1, <2>2 DEF Rotate, IntegrationTypeOK
<1>3. CASE RotateUnanswered BY <1>3, <1>b, <1>c DEF RotateUnanswered, IntegrationTypeOK
<1>4. CASE Repair
  <2>1. PICK step \in {"save", "prepare"} : work' = [at |-> step, account |-> Account] BY <1>4 DEF Repair
  <2> QED BY <1>4, <1>d, <2>1 DEF Repair, IntegrationTypeOK
<1>5. CASE Delete
  <2>1. work' = [at |-> "mark", account |-> Deleted(Account)] BY <1>5 DEF Delete, Deleted
  <2> QED BY <1>5, <1>d, <2>1, DeletedFields DEF Delete, IntegrationTypeOK
<1>6. CASE Save
  <2>1. CASE work.at = "mark" BY <1>6, <2>1 DEF Save, IntegrationTypeOK
  <2>2. CASE work.at # "mark"
    <3>1. work' = [at |-> "prepare", account |-> work.account] BY <1>6, <2>2 DEF Save
    <3> QED BY <1>6, <1>d, <3>1 DEF Save, IntegrationTypeOK
  <2> QED BY <2>1, <2>2
<1>7. ASSUME NEW written \in BOOLEAN, SaveFails(written) PROVE IntegrationTypeOK'
    BY <1>7 DEF SaveFails, IntegrationTypeOK
<1>8. CASE PreparePermissions
  <2>1. /\ work' = [at |-> "runtime", account |-> work.account] /\ work.account \in IntegrationAccount
        /\ work.account.pending # NoMigration
      BY <1>8 DEF PreparePermissions, Prepared
  <2>3. configured' \subseteq Nat
      BY <1>8, <2>1 DEF PreparePermissions, Both, IntegrationTypeOK, IntegrationAccount, Migration
  <2> QED BY <1>8, <1>d, <2>1, <2>3 DEF PreparePermissions, IntegrationTypeOK
<1>9. CASE PrepareConcurrency
  <2> DEFINE next == [work.account EXCEPT !.pending.prepared = TRUE]
  <2>1. next \in IntegrationAccount
      BY <1>9, PreparedFields DEF PrepareConcurrency, HeldInv, Prepared
  <2> HIDE DEF next
  <2>2. work' = [at |-> "save", account |-> next] BY <1>9 DEF PrepareConcurrency, next
  <2> QED BY <1>9, <1>d, <2>1, <2>2 DEF PrepareConcurrency, IntegrationTypeOK
<1>10. CASE PrepareFails BY <1>10 DEF PrepareFails, IntegrationTypeOK
<1>11. CASE Reply BY <1>11 DEF Reply, IntegrationTypeOK, IntegrationAccount
<1>12. ASSUME NEW id \in ApiKeys, Commit(id) PROVE IntegrationTypeOK'
  <2>1. work' = [at |-> "mark", account |-> Committed(Account)] /\ Account.pending # NoMigration
      BY <1>12 DEF Commit
  <2>2. configured' \subseteq Nat
      BY <1>12, <2>1 DEF Commit, OnlyNew, Both, IntegrationTypeOK, IntegrationAccount, Migration
  <2> QED BY <1>12, <1>d, <2>1, <2>2, CommittedFields DEF Commit, IntegrationTypeOK
<1>13. ASSUME NEW id \in ApiKeys, CommitAgain(id) PROVE IntegrationTypeOK'
    BY <1>13, <1>d DEF CommitAgain, IntegrationTypeOK
<1>14. CASE PublishChannel BY <1>14 DEF PublishChannel, IntegrationTypeOK
<1>15. CASE ReadInventory BY <1>15 DEF ReadInventory, IntegrationTypeOK
<1>16. CASE Synchronize BY <1>16 DEF Synchronize, IntegrationTypeOK
<1>17. CASE RestartPlugin
  <2>1. lost' \in BOOLEAN BY <1>17, Zenon DEF RestartPlugin
  <2> QED BY <1>17, <2>1 DEF RestartPlugin, IntegrationTypeOK
<1> QED BY <1>1, <1>2, <1>3, <1>4, <1>5, <1>6, <1>7, <1>8, <1>9, <1>10, <1>11, <1>12, <1>13, <1>14,
           <1>15, <1>16, <1>17 DEF IntegrationNext

\* A step that moves neither permissions nor channels leaves an account as it stands to them.
LEMMA FollowsFrame ==
    ASSUME IntegrationTypeOK, UNCHANGED <<grants, pooled, configured, payload, published, snapshot>>,
           issued' \in Nat, issued <= issued'
    PROVE  /\ KnownKeys /\ (record'.deleted \/ ~record.deleted) => KnownKeys'
           /\ \A account \in IntegrationAccount : Follows(account) => Follows(account)'
<1>1. issued \in Nat BY IntegrationAssumption DEF IntegrationTypeOK
<1>2. KnownKeys /\ (record'.deleted \/ ~record.deleted) => KnownKeys' BY <1>1 DEF KnownKeys, IntegrationTypeOK
<1>3. ASSUME NEW account \in IntegrationAccount, Follows(account) PROVE Follows(account)'
  <2>1. account.key \in 1..issued' BY <1>1, <1>3 DEF Follows
  <2>2. account.pending = NoMigration => Settled(account)' BY <1>3 DEF Follows, Settled
  <2>3. account.pending # NoMigration => Replacing(account.key, account.pending)'
      BY <1>3 DEF Follows, Replacing
  <2> QED BY <2>1, <2>2, <2>3 DEF Follows
<1> QED BY <1>2, <1>3

\* An account with a new key replaces the old one, which nothing knows yet.
LEMMA NewKeyFollows ==
    ASSUME IntegrationTypeOK, KnownKeys, ~record.deleted, CanIssue, issued' = NextKey,
           UNCHANGED <<grants, pooled, configured, payload, published, snapshot>>,
           NEW account \in IntegrationAccount, NEW next \in IntegrationAccount, NEW refreshed \in BOOLEAN,
           Follows(account), account.pending = NoMigration, next = WithKey(account, NextKey, refreshed)
    PROVE  Follows(next)'
<1> DEFINE m == next.pending
<1>0. NextKey \in ApiKeys /\ NextKey \in Nat BY IntegrationAssumption DEF CanIssue
<1>1. /\ issued \in Nat /\ NextKey = issued + 1 /\ issued' = issued + 1
    BY IntegrationAssumption DEF IntegrationTypeOK, NextKey
<1>2. /\ account.key \in 1..issued /\ published = account.key /\ grants = {account.key}
      /\ account.key \in pooled /\ payload \in {0, account.key}
    BY DEF Follows, Settled
<1>3. /\ next.key = NextKey /\ m # NoMigration /\ m.from = account.key /\ m.to = NextKey /\ ~m.prepared
    BY <1>0, <1>1, <1>2, WithKeyFields
<1>4. snapshot # NextKey /\ NextKey \notin configured BY <1>1 DEF KnownKeys, IntegrationTypeOK
<1>5. Replacing(next.key, m)' BY <1>1, <1>2, <1>3, <1>4 DEF Replacing
<1> QED BY <1>1, <1>3, <1>5 DEF Follows

\* A handler that waits, repeats, saves or fails to save goes on with what was known.
LEMMA RotationQuiet ==
    ASSUME IntegrationTypeOK, IntegrationTypeOK', HeldInv, RotationInv,
           UNCHANGED <<grants, pooled, configured, payload, published, snapshot>>, issued <= issued',
           \/ record' = record /\ AtHand' \in {AtHand, record}
           \/ record' = AtHand /\ AtHand' = AtHand
    PROVE  RotationInv'
<1>1. issued' \in Nat BY IntegrationAssumption DEF IntegrationTypeOK
<1>2. AtHand \in IntegrationAccount /\ record \in IntegrationAccount BY AtHandType DEF IntegrationTypeOK
<1>3. record'.deleted \/ ~record.deleted BY DEF HeldInv
<1>4. KnownKeys' BY <1>1, <1>3, FollowsFrame DEF RotationInv
<1>5. \A account \in IntegrationAccount : Follows(account) => Follows(account)' BY <1>1, FollowsFrame
<1>6. /\ ~record.deleted => Follows(record)
      /\ ~AtHand.deleted => Follows(AtHand)
      /\ AtHand.deleted \/ ~record.deleted
    BY DEF RotationInv, HeldInv
<1>7. ~record'.deleted => Follows(record)'
    BY <1>2, <1>5, <1>6 DEF Follows, Settled, Replacing
<1>8. ~AtHand'.deleted => Follows(AtHand)'
    BY <1>2, <1>5, <1>6 DEF Follows, Settled, Replacing
<1>9. PreparedIsSaved' BY DEF RotationInv, PreparedIsSaved
<1> QED BY <1>4, <1>7, <1>8, <1>9 DEF RotationInv

\* An account that replaces none gets another key.
LEMMA RotationIssued ==
    ASSUME IntegrationTypeOK, IntegrationTypeOK', HeldInv, RotationInv, NEW refreshed \in BOOLEAN,
           UNCHANGED <<grants, pooled, configured, payload, published, snapshot, record>>,
           CanIssue, issued' = NextKey,
           AtHand.pending = NoMigration, AtHand' = WithKey(AtHand, NextKey, refreshed)
    PROVE  RotationInv'
<1>1. issued \in Nat /\ issued' \in Nat /\ issued <= issued' /\ NextKey \in ApiKeys
    BY IntegrationAssumption DEF IntegrationTypeOK, NextKey, CanIssue
<1>2. AtHand \in IntegrationAccount /\ record \in IntegrationAccount /\ AtHand' \in IntegrationAccount
    BY AtHandType, <1>1, WithKeyFields DEF IntegrationTypeOK
<1>3. KnownKeys' BY <1>1, FollowsFrame DEF RotationInv
<1>4. ~record'.deleted => Follows(record)'
  <2>1. \A account \in IntegrationAccount : Follows(account) => Follows(account)' BY <1>1, FollowsFrame
  <2>2. ~record.deleted => Follows(record) BY DEF RotationInv
  <2> QED BY <1>2, <2>1, <2>2 DEF Follows, Settled, Replacing
<1>5. /\ AtHand'.deleted = AtHand.deleted
      /\ AtHand'.pending = NoMigration \/ ~AtHand'.pending.prepared
    BY <1>1, <1>2, WithKeyFields
<1>6. ~AtHand'.deleted => Follows(AtHand)'
  <2> SUFFICES ASSUME ~AtHand.deleted PROVE Follows(AtHand)' BY <1>5
  <2>1. Follows(AtHand) /\ KnownKeys /\ ~record.deleted BY DEF RotationInv, HeldInv
  <2>2. \A account, next \in IntegrationAccount :
            Follows(account) /\ account.pending = NoMigration /\ next = WithKey(account, NextKey, refreshed)
                => Follows(next)'
      BY <2>1, NewKeyFollows
  <2>3. \A next \in IntegrationAccount : next = WithKey(AtHand, NextKey, refreshed) => Follows(next)'
      BY <1>2, <2>1, <2>2
  <2> QED BY <1>2, <2>3 DEF Follows, Settled, Replacing
<1>7. PreparedIsSaved' BY <1>5 DEF PreparedIsSaved
<1> QED BY <1>3, <1>4, <1>6, <1>7 DEF RotationInv

\* An account that is being deleted follows nothing.
LEMMA RotationDeletes ==
    ASSUME IntegrationTypeOK, IntegrationTypeOK', HeldInv, RotationInv,
           UNCHANGED <<grants, pooled, configured, payload, published, snapshot, record, issued>>,
           AtHand'.deleted, AtHand'.pending = NoMigration
    PROVE  RotationInv'
<1>1. issued' \in Nat /\ issued <= issued' BY IntegrationAssumption DEF IntegrationTypeOK
<1>2. KnownKeys' BY <1>1, FollowsFrame DEF RotationInv
<1>3. ~record'.deleted => Follows(record)'
  <2>1. \A account \in IntegrationAccount : Follows(account) => Follows(account)' BY <1>1, FollowsFrame
  <2>2. (~record.deleted => Follows(record)) /\ record \in IntegrationAccount
      BY DEF RotationInv, IntegrationTypeOK
  <2> QED BY <2>1, <2>2 DEF Follows, Settled, Replacing
<1> QED BY <1>2, <1>3 DEF RotationInv, PreparedIsSaved

\* Preparing adds the new key where the old one is.
LEMMA RotationPrepares ==
    ASSUME IntegrationTypeOK, IntegrationTypeOK', HeldInv, RotationInv, PreparePermissions \/ PrepareConcurrency
    PROVE  RotationInv'
<1> DEFINE m == record.pending
<1>0. /\ work.at \in {"prepare", "runtime"} /\ record = work.account /\ AtHand = record
      /\ m # NoMigration /\ ~m.prepared /\ record \in IntegrationAccount
      /\ work.at = "runtime" => record.deleted \/ m.to \in grants
      /\ record' = record /\ UNCHANGED <<payload, published, snapshot, issued>>
    BY AtHandType DEF PreparePermissions, PrepareConcurrency, HeldInv, Prepared, IntegrationTypeOK
<1>1. issued \in Nat /\ m \in Migration /\ m.to \in Nat /\ m.from \in Nat
    BY <1>0, IntegrationAssumption DEF IntegrationTypeOK, IntegrationAccount, Migration
<1>2. ~record.deleted => /\ record.key \in 1..issued /\ Replacing(record.key, m) /\ KnownKeys
    BY <1>0 DEF RotationInv, Follows
<1>3. CASE PreparePermissions
  <2>1. /\ work' = [at |-> "runtime", account |-> work.account] /\ pooled' = pooled
        /\ grants' = Both(grants, m) /\ configured' = Both(configured, m)
      BY <1>0, <1>3, AtHandType DEF PreparePermissions
  <2>2. AtHand' = record /\ AtHand \in IntegrationAccount BY <1>0, <2>1, HeldAccount
  <2>3. ~record.deleted => Replacing(record.key, m)'
      BY <1>0, <1>1, <1>2, <2>1 DEF Replacing, Both
  <2>4. ~record.deleted => Follows(record)' BY <1>0, <1>2, <2>3 DEF Follows
  <2>5. KnownKeys'
      BY <1>0, <1>1, <1>2, <2>1 DEF KnownKeys, Both, Replacing, IntegrationTypeOK
  <2> QED BY <1>0, <2>2, <2>4, <2>5 DEF RotationInv, PreparedIsSaved, Follows, Settled, Replacing
<1>4. CASE PrepareConcurrency
  <2> DEFINE next == [record EXCEPT !.pending.prepared = TRUE]
  <2>1. work' = [at |-> "save", account |-> next] /\ pooled' = pooled \cup {m.to}
      BY <1>0, <1>4 DEF PrepareConcurrency
  <2>2. /\ next \in IntegrationAccount /\ next.key = record.key /\ next.deleted = record.deleted
        /\ next.pending # NoMigration /\ next.pending.prepared
        /\ next.pending.from = m.from /\ next.pending.to = m.to
      BY <1>0, PreparedFields
  <2> HIDE DEF next
  <2>3. AtHand' = next BY <2>1, <2>2, HeldAccount
  <2>4. work.at = "runtime" /\ UNCHANGED <<grants, configured>> BY <1>4 DEF PrepareConcurrency
  <2>5. ~record.deleted => Replacing(record.key, m)' /\ m.to \in grants'
      BY <1>0, <1>1, <1>2, <2>1, <2>4 DEF Replacing
  <2>6. ~record.deleted => Follows(record)' BY <1>0, <1>2, <2>5 DEF Follows
  <2>7. ~AtHand'.deleted => Follows(AtHand)'
    <3> SUFFICES ASSUME ~record.deleted PROVE Follows(AtHand)' BY <2>2, <2>3
    <3>1. Replacing(record.key, m)' /\ m.to \in grants' /\ m.to \in pooled' BY <2>1, <2>5
    <3>2. Replacing(AtHand.key, AtHand.pending)' BY <1>0, <2>2, <2>3, <3>1 DEF Replacing
    <3> QED BY <1>0, <1>2, <2>2, <2>3, <3>2 DEF Follows
  <2>8. KnownKeys' BY <1>0, <1>2, <2>4 DEF KnownKeys
  <2>9. PreparedIsSaved' BY <1>0, <2>2, <2>3 DEF PreparedIsSaved
  <2> QED BY <1>0, <2>6, <2>7, <2>8, <2>9 DEF RotationInv
<1> QED BY <1>3, <1>4

\* Nothing forgets the old key before its channel is gone.
LEMMA RotationCommits ==
    ASSUME IntegrationTypeOK, IntegrationTypeOK', HeldInv, RotationInv, NEW id \in ApiKeys, Commit(id)
    PROVE  RotationInv'
<1> DEFINE m == Account.pending
           next == Committed(Account)
<1>0. /\ work.at = "idle" /\ AtHand = Account /\ Account \in IntegrationAccount /\ record \in IntegrationAccount
      /\ m # NoMigration /\ m.prepared /\ m.to \in configured /\ m.from \notin configured
      /\ grants' = OnlyNew(grants, m) /\ configured' = OnlyNew(configured, m)
      /\ work' = [at |-> "mark", account |-> next]
      /\ UNCHANGED <<record, unsaved, pooled, payload, published, snapshot, issued>>
    BY AtHandType DEF Commit, Found, IntegrationTypeOK
<1>1. /\ next \in IntegrationAccount /\ next.key = Account.key /\ next.pending = NoMigration
      /\ next.deleted = Account.deleted
    BY <1>0, CommittedFields
<1> HIDE DEF next
<1>2. AtHand' = next BY <1>0, <1>1, HeldAccount
<1>3. KnownKeys'
  <2>1. m.to \in configured /\ configured' \subseteq configured BY <1>0 DEF OnlyNew, Both
  <2> QED BY <1>0, <2>1 DEF RotationInv, KnownKeys
<1>4. CASE Account.deleted
  <2>1. record'.deleted BY <1>0, <1>4 DEF RotationInv, PreparedIsSaved
  <2> QED BY <1>1, <1>2, <1>3, <1>4, <2>1 DEF RotationInv, PreparedIsSaved
<1>5. CASE ~Account.deleted
  <2>1. /\ Account.key \in 1..issued /\ Replacing(Account.key, m) /\ ~record.deleted
        /\ record.key \in 1..issued
      BY <1>0, <1>5 DEF RotationInv, Follows, HeldInv
  <2>2. published = m.to /\ payload = m.to /\ m.to \in pooled /\ m.from # m.to /\ m.to \in grants
        /\ Account.key = m.to /\ grants \subseteq {m.from, m.to}
      BY <2>1, <1>0 DEF Replacing
  <2>3. grants' = {m.to} BY <1>0, <2>2 DEF OnlyNew, Both
  <2>4. Follows(AtHand)' BY <1>0, <1>1, <1>2, <2>1, <2>2, <2>3 DEF Follows, Settled
  <2>5. /\ record.pending # NoMigration /\ record.pending.from = m.from /\ record.pending.to = m.to
        /\ Replacing(record.key, record.pending)
      BY <1>0, <1>5, <2>1 DEF RotationInv, PreparedIsSaved, Follows
  <2>6. Replacing(record.key, record.pending)' BY <1>0, <2>2, <2>3, <2>5 DEF Replacing
  <2>7. Follows(record)' BY <1>0, <2>1, <2>5, <2>6 DEF Follows
  <2> QED BY <1>1, <1>2, <1>3, <2>4, <2>7 DEF RotationInv, PreparedIsSaved
<1> QED BY <1>4, <1>5

\* The browser publishes what it was given last and reports what it read last.
LEMMA RotationHosted ==
    ASSUME IntegrationTypeOK, IntegrationTypeOK', HeldInv, RotationInv, PublishChannel \/ ReadInventory \/ Synchronize
    PROVE  RotationInv'
<1>1. UNCHANGED <<record, unsaved, work, grants, pooled, payload, issued>>
    BY DEF PublishChannel, ReadInventory, Synchronize
<1>2. AtHand' = AtHand BY <1>1 DEF AtHand, Account, Recovering
<1>3. \A account \in IntegrationAccount : Follows(account) => Follows(account)'
  <2> SUFFICES ASSUME NEW account \in IntegrationAccount, Follows(account) PROVE Follows(account)' OBVIOUS
  <2>1. account.pending = NoMigration => Settled(account)'
      BY <1>1 DEF Follows, Settled, PublishChannel, ReadInventory, Synchronize
  <2>2. account.pending # NoMigration => Replacing(account.key, account.pending)'
    <3> SUFFICES ASSUME account.pending # NoMigration PROVE Replacing(account.key, account.pending)' OBVIOUS
    <3>0. Replacing(account.key, account.pending) BY DEF Follows
    <3>1. account.pending.from \in Nat /\ account.pending.to \in Nat BY DEF IntegrationAccount, Migration
    <3>2. CASE PublishChannel BY <1>1, <3>0, <3>1, <3>2 DEF PublishChannel, Replacing
    <3>3. CASE ReadInventory BY <1>1, <3>0, <3>1, <3>3 DEF ReadInventory, Replacing
    <3>4. CASE Synchronize BY <1>1, <3>0, <3>1, <3>4 DEF Synchronize, Replacing
    <3> QED BY <3>2, <3>3, <3>4
  <2> QED BY <1>1, <2>1, <2>2 DEF Follows
<1>4. KnownKeys'
    BY <1>1, IntegrationAssumption
       DEF RotationInv, KnownKeys, PublishChannel, ReadInventory, Synchronize, IntegrationTypeOK
<1>5. (~record'.deleted => Follows(record)') /\ (~AtHand'.deleted => Follows(AtHand)')
  <2>1. record \in IntegrationAccount /\ AtHand \in IntegrationAccount BY AtHandType DEF IntegrationTypeOK
  <2>2. (~record.deleted => Follows(record)) /\ (~AtHand.deleted => Follows(AtHand)) BY DEF RotationInv
  <2> QED BY <1>1, <1>2, <1>3, <2>1, <2>2 DEF Follows, Settled, Replacing
<1>6. PreparedIsSaved' BY <1>1, <1>2 DEF RotationInv, PreparedIsSaved
<1> QED BY <1>4, <1>5, <1>6 DEF RotationInv

\* The browser is given the channel of an account that is saved and prepared.
LEMMA RotationReplies ==
    ASSUME IntegrationTypeOK, IntegrationTypeOK', HeldInv, RotationInv, Reply
    PROVE  RotationInv'
<1>1. /\ AtHand = record /\ record = work.account /\ record \in IntegrationAccount
      /\ unsaved = NoAccount /\ Prepared(record) /\ payload' = record.key /\ work' = Unheld
      /\ UNCHANGED <<record, unsaved, grants, pooled, configured, published, snapshot, issued>>
    BY AtHandType DEF Reply, HeldInv, IntegrationTypeOK
<1>2. AtHand' = record BY <1>1, UnheldAccount
<1>3. ~record.deleted => Follows(record)'
  <2> SUFFICES ASSUME ~record.deleted PROVE Follows(record)' OBVIOUS
  <2>1. Follows(record) BY DEF RotationInv
  <2>2. record.pending = NoMigration => Settled(record)' BY <1>1, <2>1 DEF Follows, Settled
  <2>3. record.pending # NoMigration => Replacing(record.key, record.pending)'
      BY <1>1, <2>1 DEF Follows, Replacing, Prepared
  <2> QED BY <1>1, <2>1, <2>2, <2>3 DEF Follows
<1>4. ~record.deleted => payload' <= issued'
    BY <1>1, IntegrationAssumption DEF RotationInv, Follows, IntegrationTypeOK
<1>5. KnownKeys' BY <1>1, <1>4 DEF RotationInv, KnownKeys
<1>6. ~AtHand'.deleted => Follows(AtHand)' BY <1>1, <1>2, <1>3 DEF Follows, Settled, Replacing
<1>7. PreparedIsSaved' BY <1>1, <1>2 DEF RotationInv, PreparedIsSaved
<1> QED BY <1>1, <1>3, <1>5, <1>6, <1>7 DEF RotationInv

\* What every step makes of the account at hand.
LEMMA AtHandMoves ==
    ASSUME IntegrationTypeOK, HeldInv, IntegrationNext
    PROVE  \/ /\ UNCHANGED <<grants, pooled, configured, payload, published, snapshot>>
              /\ \/ /\ record' = record \/ (record' = AtHand /\ work.at \in {"save", "mark"})
                    /\ AtHand' = AtHand /\ UNCHANGED <<uses, lost, issued>>
                 \/ RotateUnanswered /\ record' = record /\ AtHand' = AtHand
                 \/ RestartPlugin /\ record' = record /\ AtHand' = record
                 \/ /\ Edit \/ Rotate
                    /\ record' = record /\ AtHand.pending = NoMigration /\ CanIssue /\ issued' = NextKey
                    /\ \E refreshed \in BOOLEAN : AtHand' = WithKey(AtHand, NextKey, refreshed)
                 \/ /\ UNCHANGED <<record, uses, lost, issued>>
                    /\ AtHand'.deleted /\ AtHand'.pending = NoMigration /\ ~AtHand'.refresh
           \/ PreparePermissions \/ PrepareConcurrency \/ Reply
           \/ \E id \in ApiKeys : Commit(id)
           \/ PublishChannel \/ ReadInventory \/ Synchronize
<1> USE AtHandType
<1>a. work.at = "idle" => AtHand = Account BY DEF AtHand
<1>1. CASE Edit
  <2> DEFINE next == WithKey(Account, NextKey, FALSE)
  <2>1. next \in IntegrationAccount /\ next = WithKey(Account, NextKey, FALSE)
      BY <1>1, WithKeyFields DEF Edit, CanIssue
  <2> HIDE DEF next
  <2>2. work' = [at |-> "save", account |-> next] BY <1>1, <2>1 DEF Edit
  <2>3. AtHand' = WithKey(AtHand, NextKey, FALSE) BY <1>1, <1>a, <2>1, <2>2, HeldAccount DEF Edit, Found
  <2> QED BY <1>1, <1>a, <2>3 DEF Edit, Found
<1>2. CASE Rotate
  <2> DEFINE next == WithKey(Account, NextKey, TRUE)
  <2>1. next \in IntegrationAccount /\ next = WithKey(Account, NextKey, TRUE)
      BY <1>2, WithKeyFields DEF Rotate, CanIssue
  <2> HIDE DEF next
  <2>2. work' = [at |-> "save", account |-> next] BY <1>2, <2>1 DEF Rotate
  <2>3. AtHand' = WithKey(AtHand, NextKey, TRUE) BY <1>2, <1>a, <2>1, <2>2, HeldAccount DEF Rotate, Found
  <2> QED BY <1>2, <1>a, <2>3 DEF Rotate, Found
<1>3. CASE RotateUnanswered
  <2>1. AtHand' = AtHand BY <1>3 DEF RotateUnanswered, AtHand, Account, Recovering
  <2> QED BY <1>3, <2>1 DEF RotateUnanswered
<1>4. CASE Repair
  <2>1. PICK step \in {"save", "prepare"} : work' = [at |-> step, account |-> Account] BY <1>4 DEF Repair
  <2>2. AtHand' = AtHand BY <1>4, <1>a, <2>1, HeldAccount DEF Repair, Found
  <2> QED BY <1>4, <2>2 DEF Repair
<1>5. CASE Delete
  <2>1. work' = [at |-> "mark", account |-> Deleted(Account)] BY <1>5 DEF Delete, Deleted
  <2>2. AtHand' = Deleted(Account) BY <2>1, DeletedFields, HeldAccount
  <2> QED BY <1>5, <2>2, DeletedFields DEF Delete
<1>6. CASE Save
  <2>1. record' = AtHand /\ unsaved' = NoAccount /\ AtHand = work.account BY <1>6 DEF Save
  <2>2. AtHand' = AtHand
    <3>1. CASE work.at = "mark" BY <1>6, <2>1, <3>1, UnheldAccount DEF Save
    <3>2. CASE work.at # "mark"
      <4>1. work' = [at |-> "prepare", account |-> work.account] BY <1>6, <3>2 DEF Save
      <4> QED BY <1>6, <2>1, <4>1, HeldAccount DEF Save
    <3> QED BY <3>1, <3>2
  <2> QED BY <1>6, <2>1, <2>2 DEF Save
<1>7. ASSUME NEW written \in BOOLEAN, SaveFails(written)
      PROVE  /\ UNCHANGED <<grants, pooled, configured, payload, published, snapshot, uses, lost, issued>>
             /\ record' = record \/ (record' = AtHand /\ work.at \in {"save", "mark"})
             /\ AtHand' = AtHand
  <2>1. AtHand = work.account /\ unsaved' = work.account /\ work' = Unheld /\ unsaved' # NoAccount
      BY <1>7, IntegrationAssumption DEF SaveFails
  <2>2. AtHand' = AtHand BY <2>1, UnheldAccount
  <2> QED BY <1>7, <2>1, <2>2 DEF SaveFails
<1>8. CASE PrepareFails
  <2>1. AtHand = record /\ unsaved = NoAccount BY <1>8 DEF PrepareFails, HeldInv
  <2>2. AtHand' = AtHand BY <1>8, <2>1, UnheldAccount DEF PrepareFails
  <2> QED BY <1>8, <2>2 DEF PrepareFails
<1>9. ASSUME NEW id \in ApiKeys, CommitAgain(id)
      PROVE  /\ UNCHANGED <<grants, pooled, configured, payload, published, snapshot, record, uses, lost, issued>>
             /\ AtHand' = AtHand
  <2>1. work' = [at |-> "mark", account |-> Account] BY <1>9 DEF CommitAgain
  <2>2. AtHand' = AtHand BY <1>9, <1>a, <2>1, HeldAccount DEF CommitAgain, Found
  <2> QED BY <1>9, <2>2 DEF CommitAgain
<1>10. CASE RestartPlugin
  <2>1. AtHand' = record BY <1>10, UnheldAccount DEF RestartPlugin
  <2> QED BY <1>10, <2>1 DEF RestartPlugin
<1> QED BY <1>1, <1>2, <1>3, <1>4, <1>5, <1>6, <1>7, <1>8, <1>9, <1>10 DEF IntegrationNext

\* Every step keeps permissions, pool and channels where the account at hand needs them.
LEMMA RotationStep ==
    ASSUME IntegrationTypeOK, IntegrationTypeOK', HeldInv, RotationInv, IntegrationNext
    PROVE  RotationInv'
<1>0. issued \in Nat BY IntegrationAssumption DEF IntegrationTypeOK
<1>1. ASSUME UNCHANGED <<grants, pooled, configured, payload, published, snapshot>>,
             record' = record \/ record' = AtHand, AtHand' = AtHand, UNCHANGED issued
      PROVE  RotationInv'
    BY <1>0, <1>1, RotationQuiet
<1>2. ASSUME UNCHANGED <<grants, pooled, configured, payload, published, snapshot>>,
             RotateUnanswered, record' = record, AtHand' = AtHand
      PROVE  RotationInv'
    BY <1>0, <1>2, RotationQuiet DEF RotateUnanswered, NextKey
<1>3. ASSUME UNCHANGED <<grants, pooled, configured, payload, published, snapshot>>,
             RestartPlugin, record' = record, AtHand' = record
      PROVE  RotationInv'
    BY <1>0, <1>3, RotationQuiet DEF RestartPlugin
<1>4. ASSUME UNCHANGED <<grants, pooled, configured, payload, published, snapshot, record>>,
             AtHand.pending = NoMigration, CanIssue, issued' = NextKey,
             \E refreshed \in BOOLEAN : AtHand' = WithKey(AtHand, NextKey, refreshed)
      PROVE  RotationInv'
    BY <1>4, RotationIssued
<1>5. ASSUME UNCHANGED <<grants, pooled, configured, payload, published, snapshot, record, issued>>,
             AtHand'.deleted, AtHand'.pending = NoMigration
      PROVE  RotationInv'
    BY <1>5, RotationDeletes
<1> QED BY <1>1, <1>2, <1>3, <1>4, <1>5, AtHandMoves, RotationPrepares, RotationReplies, RotationCommits,
           RotationHosted

\* A handler prepares what it has saved, and a deleted account stays deleted.
LEMMA HeldStep ==
    ASSUME IntegrationTypeOK, HeldInv, RotationInv, IntegrationNext
    PROVE  HeldInv'
<1> USE AtHandType
<1>0. issued \in Nat /\ record \in IntegrationAccount BY IntegrationAssumption DEF IntegrationTypeOK
<1>1. record'.deleted => AtHand'.deleted
  <2>1. ASSUME NEW refreshed \in BOOLEAN, CanIssue, AtHand' = WithKey(AtHand, NextKey, refreshed)
        PROVE  AtHand'.deleted = AtHand.deleted
      BY <2>1, WithKeyFields DEF CanIssue
  <2>2. CASE PreparePermissions
    <3>1. work' = [at |-> "runtime", account |-> work.account] BY <2>2 DEF PreparePermissions
    <3> QED BY <2>2, <3>1, HeldAccount DEF PreparePermissions, HeldInv
  <2>3. CASE PrepareConcurrency
    <3> DEFINE next == [work.account EXCEPT !.pending.prepared = TRUE]
    <3>1. next \in IntegrationAccount /\ next.deleted = work.account.deleted
        BY <2>3, PreparedFields DEF PrepareConcurrency, HeldInv, Prepared
    <3>2. work' = [at |-> "save", account |-> next] BY <2>3 DEF PrepareConcurrency
    <3> HIDE DEF next
    <3>3. AtHand' = next BY <3>1, <3>2, HeldAccount
    <3> QED BY <2>3, <3>1, <3>3 DEF PrepareConcurrency, HeldInv
  <2>4. CASE Reply
    <3>1. AtHand' = record' BY <2>4, UnheldAccount DEF Reply, HeldInv
    <3> QED BY <3>1
  <2>5. ASSUME NEW id \in ApiKeys, Commit(id) PROVE record'.deleted => AtHand'.deleted
    <3> DEFINE next == Committed(Account)
    <3>1. next \in IntegrationAccount /\ next.deleted = Account.deleted BY <2>5, CommittedFields DEF Commit
    <3> HIDE DEF next
    <3>2. work' = [at |-> "mark", account |-> next] BY <2>5 DEF Commit, next
    <3>3. AtHand' = next BY <3>1, <3>2, HeldAccount
    <3> QED BY <2>5, <3>1, <3>3 DEF Commit, Found, HeldInv
  <2>6. CASE PublishChannel \/ ReadInventory \/ Synchronize
    <3>1. AtHand' = AtHand /\ record' = record
        BY <2>6 DEF PublishChannel, ReadInventory, Synchronize, AtHand, Account, Recovering
    <3> QED BY <3>1 DEF HeldInv
  <2>7. record.deleted => AtHand.deleted BY DEF HeldInv
  <2> QED BY <2>1, <2>2, <2>3, <2>4, <2>5, <2>6, <2>7, AtHandMoves
<1>2. /\ \/ /\ UNCHANGED <<work, record, unsaved, grants>>
         \/ work'.at \in {"idle", "save", "mark"}
         \/ work'.at = "prepare" /\ (Save \/ Repair)
         \/ work'.at = "runtime" /\ PreparePermissions
  <2>1. Edit \/ Rotate \/ Delete => work'.at \in {"save", "mark"}
    <3>1. Edit => work'.at = "save" BY DEF Edit
    <3>2. Rotate => work'.at = "save" BY DEF Rotate
    <3>3. Delete => work'.at = "mark" BY DEF Delete
    <3> QED BY <3>1, <3>2, <3>3
  <2>2. RotateUnanswered \/ PublishChannel \/ ReadInventory \/ Synchronize
            => UNCHANGED <<work, record, unsaved, grants>>
      BY DEF RotateUnanswered, PublishChannel, ReadInventory, Synchronize
  <2>3. PrepareFails \/ Reply \/ RestartPlugin => work'.at = "idle"
      BY DEF PrepareFails, Reply, RestartPlugin, Unheld
  <2>4. ASSUME NEW written \in BOOLEAN, SaveFails(written) PROVE work'.at = "idle"
      BY <2>4 DEF SaveFails, Unheld
  <2>5. ASSUME NEW id \in ApiKeys, Commit(id) \/ CommitAgain(id) PROVE work'.at = "mark"
      BY <2>5 DEF Commit, CommitAgain
  <2>6. Repair => work'.at \in {"save", "prepare"} BY DEF Repair
  <2>7. PreparePermissions => work'.at = "runtime" BY DEF PreparePermissions
  <2>8. PrepareConcurrency => work'.at = "save" BY DEF PrepareConcurrency
  <2>9. Save => work'.at \in {"idle", "prepare"}
    <3>1. CASE work.at = "mark" BY <3>1 DEF Save, Unheld
    <3>2. CASE work.at # "mark" BY <3>2 DEF Save
    <3> QED BY <3>1, <3>2
  <2> QED BY <2>1, <2>2, <2>3, <2>4, <2>5, <2>6, <2>7, <2>8, <2>9 DEF IntegrationNext
<1>3. ASSUME Save, work'.at = "prepare" PROVE record' = work'.account /\ unsaved' = NoAccount
  <2>1. work.at # "mark" BY <1>3, UnheldAccount DEF Save
  <2>2. work' = [at |-> "prepare", account |-> work.account] BY <1>3, <2>1 DEF Save
  <2> QED BY <1>3, <2>2 DEF Save
<1>4. ASSUME Repair, work'.at = "prepare" PROVE record' = work'.account /\ unsaved' = NoAccount
  <2>1. ~Recovering /\ work'.account = Account BY <1>4 DEF Repair
  <2> QED BY <1>4, <2>1 DEF Repair, Recovering, Account
<1>5. ASSUME PreparePermissions
      PROVE  /\ record' = work'.account /\ unsaved' = NoAccount
             /\ ~Prepared(work'.account) /\ (record'.deleted \/ record'.pending.to \in grants')
  <2>1. /\ work' = [at |-> "runtime", account |-> work.account] /\ record = work.account /\ unsaved = NoAccount
        /\ ~Prepared(work.account) /\ UNCHANGED <<record, unsaved>>
        /\ grants' = Both(grants, record.pending)
      BY <1>5 DEF PreparePermissions, HeldInv
  <2>2. work'.account = record BY <2>1
  <2>3. record.deleted \/ record.pending.to \in grants'
      BY <2>1 DEF RotationInv, Follows, Replacing, Both, Prepared
  <2> QED BY <2>1, <2>2, <2>3 DEF Prepared
<1>6. UNCHANGED <<work, record, unsaved, grants>> => HeldInv' BY <1>1 DEF HeldInv, Prepared
<1> QED BY <1>1, <1>2, <1>3, <1>4, <1>5, <1>6 DEF HeldInv

\* A token is used where it is fresh, and the account at hand then has the next one.
LEMMA TokenStep ==
    ASSUME IntegrationTypeOK, IntegrationTypeOK', HeldInv, TokenInv, IntegrationNext
    PROVE  TokenInv'
<1> USE AtHandType
<1>0. /\ issued \in Nat /\ issued \in ApiKeys /\ \A k \in ApiKeys : k \in Nat
      /\ uses \in [ApiKeys -> Nat] /\ record \in IntegrationAccount
    BY IntegrationAssumption DEF IntegrationTypeOK
<1>1. ASSUME UNCHANGED <<uses, lost, issued>>,
             AtHand'.refresh => AtHand.refresh /\ AtHand'.key = AtHand.key
      PROVE  TokenInv'
    BY <1>1 DEF TokenInv
<1>2. CASE RotateUnanswered BY <1>2 DEF RotateUnanswered, TokenInv
<1>3. CASE RestartPlugin
  <2>1. lost' \/ (AtHand = record /\ ~lost) BY <1>3 DEF RestartPlugin, AtHand, Account, Recovering
  <2>2. AtHand' = record BY <1>3, UnheldAccount DEF RestartPlugin
  <2> QED BY <1>3, <2>1, <2>2 DEF RestartPlugin, TokenInv
<1>4. ASSUME Edit \/ Rotate, NEW refreshed \in BOOLEAN, AtHand' = WithKey(AtHand, NextKey, refreshed)
      PROVE  TokenInv'
  <2>1. /\ CanIssue /\ NextKey \in ApiKeys /\ issued' = issued + 1 /\ NextKey = issued + 1 /\ lost' = lost
        /\ AtHand = Account
      BY <1>4 DEF Edit, Rotate, CanIssue, NextKey, Found
  <2>2. AtHand'.key = issued + 1 BY <1>4, <2>1, WithKeyFields
  <2>3. CASE Edit
    <3>1. uses' = uses BY <2>3 DEF Edit
    <3> QED BY <1>0, <2>1, <2>2, <3>1 DEF TokenInv
  <2>4. CASE Rotate
    <3> SUFFICES ASSUME ~lost PROVE TokenInv' BY <2>1 DEF TokenInv
    <3>1. AtHand.refresh /\ uses' = [uses EXCEPT ![AtHand.key] = @ + 1] BY <2>1, <2>4 DEF Rotate, TokenUsed
    <3>2. /\ AtHand.key \in 1..issued /\ uses[AtHand.key] = 0
          /\ \A k \in ApiKeys : uses[k] <= 1 /\ (k > issued => uses[k] = 0)
        BY <3>1 DEF TokenInv
    <3>3. AtHand.key \in ApiKeys BY <1>0, <3>2, IntegrationAssumption
    <3>4. \A k \in ApiKeys : uses'[k] = IF k = AtHand.key THEN 1 ELSE uses[k]
        BY <1>0, <3>1, <3>2, <3>3
    <3>5. \A k \in ApiKeys : uses'[k] <= 1 /\ (k > issued' => uses'[k] = 0)
        BY <1>0, <2>1, <3>2, <3>4
    <3>6. issued' \in ApiKeys /\ AtHand'.key = issued' /\ uses'[issued'] = 0 /\ issued' \in 1..issued'
        BY <1>0, <2>1, <2>2, <3>2, <3>4
    <3> QED BY <3>5, <3>6 DEF TokenInv
  <2> QED BY <1>4, <2>3, <2>4
<1>5. CASE PreparePermissions
  <2>1. work' = [at |-> "runtime", account |-> work.account] BY <1>5 DEF PreparePermissions
  <2>2. AtHand' = AtHand BY <1>5, <2>1, HeldAccount DEF PreparePermissions
  <2> QED BY <1>1, <1>5, <2>2 DEF PreparePermissions
<1>6. CASE PrepareConcurrency
  <2> DEFINE next == [work.account EXCEPT !.pending.prepared = TRUE]
  <2>1. next \in IntegrationAccount /\ next.key = work.account.key /\ next.refresh = work.account.refresh
      BY <1>6, PreparedFields DEF PrepareConcurrency, HeldInv, Prepared
  <2>2. work' = [at |-> "save", account |-> next] BY <1>6 DEF PrepareConcurrency
  <2> HIDE DEF next
  <2>3. AtHand' = next /\ AtHand = work.account BY <1>6, <2>1, <2>2, HeldAccount DEF PrepareConcurrency
  <2> QED BY <1>1, <1>6, <2>1, <2>3 DEF PrepareConcurrency
<1>7. CASE Reply
  <2>1. AtHand' = record' /\ AtHand = record BY <1>7, UnheldAccount DEF Reply, HeldInv
  <2> QED BY <1>1, <1>7, <2>1 DEF Reply
<1>8. ASSUME NEW id \in ApiKeys, Commit(id) PROVE TokenInv'
  <2> DEFINE next == Committed(Account)
  <2>1. next \in IntegrationAccount /\ next.key = Account.key /\ next.refresh = Account.refresh
      BY <1>8, CommittedFields DEF Commit
  <2> HIDE DEF next
  <2>2. work' = [at |-> "mark", account |-> next] BY <1>8 DEF Commit, next
  <2>3. AtHand' = next /\ AtHand = Account BY <1>8, <2>1, <2>2, HeldAccount DEF Commit, Found
  <2> QED BY <1>1, <1>8, <2>1, <2>3 DEF Commit
<1>9. CASE PublishChannel \/ ReadInventory \/ Synchronize
  <2>1. AtHand' = AtHand /\ UNCHANGED <<uses, lost, issued>>
      BY <1>9 DEF PublishChannel, ReadInventory, Synchronize, AtHand, Account, Recovering
  <2> QED BY <1>1, <2>1
<1> QED BY <1>1, <1>2, <1>3, <1>4, <1>5, <1>6, <1>7, <1>8, <1>9, AtHandMoves

\* The first account has one key, which its channel uses.
LEMMA IntegrationInvInit == IntegrationInit => IntegrationInv
<1> SUFFICES ASSUME IntegrationInit PROVE IntegrationInv OBVIOUS
<1> USE IntegrationAssumption DEF IntegrationInit
<1>1. record \in IntegrationAccount /\ record.key = 1 /\ record.pending = NoMigration /\ ~record.deleted
    BY DEF IntegrationAccount
<1>2. IntegrationTypeOK
  <2>1. lost \in BOOLEAN BY Zenon
  <2> QED BY <1>1, <2>1 DEF IntegrationTypeOK
<1>3. AtHand = record /\ work.at = "idle" BY DEF AtHand, Account, Recovering, Unheld
<1>4. HeldInv BY <1>3 DEF HeldInv
<1>5. Follows(record) BY <1>1 DEF Follows, Settled
<1>6. KnownKeys BY DEF KnownKeys
<1>7. RotationInv BY <1>1, <1>3, <1>5, <1>6 DEF RotationInv, PreparedIsSaved
<1>8. TokenInv BY <1>1, <1>3 DEF TokenInv
<1> QED BY <1>2, <1>4, <1>7, <1>8 DEF IntegrationInv

\* IntegrationInv is inductive.
LEMMA IntegrationInvStep == IntegrationInv /\ [IntegrationNext]_integrationVars => IntegrationInv'
<1> SUFFICES ASSUME IntegrationInv, [IntegrationNext]_integrationVars PROVE IntegrationInv' OBVIOUS
<1>0. IntegrationTypeOK /\ HeldInv /\ RotationInv /\ TokenInv BY DEF IntegrationInv
<1>1. CASE IntegrationNext
  <2>1. IntegrationTypeOK' BY <1>0, <1>1, IntegrationTypeStep
  <2> QED BY <1>0, <1>1, <2>1, HeldStep, RotationStep, TokenStep DEF IntegrationInv
<1>2. CASE UNCHANGED integrationVars
  <2>1. AtHand' = AtHand BY <1>2 DEF AtHand, Account, Recovering
  <2>2. IntegrationTypeOK' BY <1>0, <1>2 DEF IntegrationTypeOK
  <2>3. issued <= issued' BY <1>0, <1>2, IntegrationAssumption DEF IntegrationTypeOK
  <2>4. RotationInv' BY <1>0, <1>2, <2>1, <2>2, <2>3, RotationQuiet
  <2>5. HeldInv' BY <1>0, <1>2, <2>1 DEF HeldInv, Prepared
  <2>6. TokenInv' BY <1>0, <1>2, <2>1 DEF TokenInv
  <2> QED BY <2>2, <2>4, <2>5, <2>6 DEF IntegrationInv
<1> QED BY <1>1, <1>2

\* For any number of keys, wherever a replacement is interrupted, the channel the host serves has the
\* account's permissions and counts against its limit, and a completed one leaves them to the new key.
THEOREM RotationKeepsAccess == IntegrationSpec => []AccessFollowsRotation
<1>1. IntegrationInv => AccessFollowsRotation
  <2> SUFFICES ASSUME IntegrationInv, ~record.deleted PROVE AccessFollowsRotation BY DEF AccessFollowsRotation
  <2>1. Follows(record) BY DEF IntegrationInv, RotationInv
  <2> QED BY <2>1 DEF Follows, Settled, Replacing, AccessFollowsRotation
<1> QED BY <1>1, IntegrationInvInit, IntegrationInvStep, PTL DEF IntegrationSpec

\* For any number of keys, a refresh token is used once unless an answer or an unsaved account is lost.
THEOREM TokensUsedOnce == IntegrationSpec => []TokenUsedOnce
<1>1. IntegrationInv => TokenUsedOnce BY DEF IntegrationInv, TokenInv, TokenUsedOnce
<1> QED BY <1>1, IntegrationInvInit, IntegrationInvStep, PTL DEF IntegrationSpec
-----------------------------------------------------------------------------
(* A device login: until its account is registered nothing of it is saved, and the page is told of a
   cancellation when nothing is left that could save it. *)
LoginTypeOK ==
    /\ session \in [Logins -> LoginSession \cup {NoSession}]
    /\ saved \in [Logins -> {"none", "live", "deleted"}]
    /\ answer \in [Logins -> {"none", "complete", "cancelled"}]
LoginInv ==
    /\ LoginTypeOK
    /\ \A l \in Logins :
          /\ session[l] # NoSession /\ session[l].account # "registered" => saved[l] = "none"
          /\ answer[l] = "cancelled" => session[l] = NoSession /\ saved[l] # "live"
          /\ answer[l] = "complete" => saved[l] # "none"

\* LoginInv is inductive.
LEMMA LoginInvStep == LoginInv /\ [LoginNext]_loginVars => LoginInv'
<1> SUFFICES ASSUME LoginInv, [LoginNext]_loginVars PROVE LoginInv' OBVIOUS
<1> USE LoginAssumption DEF LoginInv, LoginTypeOK
<1>1. ASSUME NEW l \in Logins, Start(l) PROVE LoginInv'
  <2> DEFINE fresh == [account |-> "none", expired |-> FALSE]
  <2>1. fresh \in LoginSession /\ fresh.account = "none" BY DEF LoginSession
  <2> HIDE DEF fresh
  <2>2. /\ saved[l] = "none" /\ answer[l] = "none" /\ UNCHANGED <<saved, answer>>
        /\ \A o \in Logins : session'[o] = IF o = l THEN fresh
                                           ELSE IF o \in Open /\ ~session[o].expired THEN session[o] ELSE NoSession
        /\ session' \in [Logins -> LoginSession \cup {NoSession}]
      BY <1>1, <2>1 DEF Start, fresh
  <2> QED BY <2>1, <2>2
<1>2. ASSUME NEW l \in Logins, SessionExpires(l) PROVE LoginInv'
  <2> DEFINE next == [session[l] EXCEPT !.expired = TRUE]
  <2>0. \A s \in LoginSession : LET late == [s EXCEPT !.expired = TRUE] IN
            late \in LoginSession /\ late.account = s.account
      BY DEF LoginSession
  <2>1. next \in LoginSession /\ next.account = session[l].account
      BY <1>2, <2>0 DEF SessionExpires, Open
  <2> HIDE DEF next
  <2>2. session' = [session EXCEPT ![l] = next] /\ session[l] # NoSession /\ UNCHANGED <<saved, answer>>
      BY <1>2 DEF SessionExpires, Open, next
  <2> QED BY <2>1, <2>2
<1>3. ASSUME NEW l \in Logins, PollGone(l) PROVE LoginInv' BY <1>3 DEF PollGone, Without
<1>4. ASSUME NEW l \in Logins, NEW account \in {"granted", "registered"}, session[l] # NoSession,
             session[l].account # "registered",
             session' = [session EXCEPT ![l].account = account], UNCHANGED <<saved, answer>>
      PROVE  LoginInv'
  <2> DEFINE next == [session[l] EXCEPT !.account = account]
  <2>1. next \in LoginSession BY <1>4 DEF LoginSession
  <2> HIDE DEF next
  <2>2. session' = [session EXCEPT ![l] = next] BY <1>4 DEF next
  <2> QED BY <1>4, <2>1, <2>2
<1>5. ASSUME NEW l \in Logins, PollGranted(l) PROVE LoginInv'
    BY <1>4, <1>5 DEF PollGranted, Pending, Open
<1>6. ASSUME NEW l \in Logins, PollRegistered(l) PROVE LoginInv'
    BY <1>4, <1>6 DEF PollRegistered, Open
<1>7. ASSUME NEW l \in Logins, NEW finished \in BOOLEAN, PollSaves(l, finished) PROVE LoginInv'
  <2>1. CASE finished BY <1>7, <2>1 DEF PollSaves, Open, Without
  <2>2. CASE ~finished BY <1>7, <2>2 DEF PollSaves, Open
  <2> QED BY <2>1, <2>2
<1>8. ASSUME NEW l \in Logins, Cancel(l) PROVE LoginInv' BY <1>8 DEF Cancel, Without, Pending, Open
<1>9. ASSUME NEW l \in Logins, DeleteSignedIn(l) PROVE LoginInv' BY <1>9 DEF DeleteSignedIn
<1>10. CASE EndProcess BY <1>10 DEF EndProcess
<1>11. CASE UNCHANGED loginVars BY <1>11 DEF loginVars
<1> QED BY <1>1, <1>2, <1>3, <1>5, <1>6, <1>7, <1>8, <1>9, <1>10, <1>11 DEF LoginNext

\* For any number of logins and sessions, what the page was told of a login is true then and later.
THEOREM AnswersStayTrue == LoginSpec => []AnswersAreTrue
<1>1. LoginInit => LoginInv BY DEF LoginInit, LoginInv, LoginTypeOK
<1>2. LoginInv => AnswersAreTrue BY DEF LoginInv, AnswersAreTrue
<1> QED BY <1>1, <1>2, LoginInvStep, PTL DEF LoginSpec
-----------------------------------------------------------------------------
(* Access control: nothing is bound to a route or a group that is gone, and no key is in two
   exclusive groups. *)
Bindings ==
    /\ \A k \in Keys : /\ key[k].routes \subseteq Present(route)
                       /\ key[k].groups \subseteq Present(group)
                       /\ ~ConflictIn(group, key[k].groups)
    /\ \A g \in Present(group) : group[g].routes \subseteq Present(route)
RoutingInv == RoutingTypeOK /\ Bindings

\* The empty rule and what a replacement makes of a rule are rules.
LEMMA RuleTypes ==
    /\ EmptyRule \in Rule
    /\ \A rule \in Rule, old \in Credentials, new \in Credentials, complete \in BOOLEAN :
          RuleReplaced(rule, old, new, complete) \in Rule
<1>1. EmptyRule \in Rule BY DEF EmptyRule, Rule
<1>2. ASSUME NEW rule \in Rule, NEW old \in Credentials, NEW new \in Credentials, NEW complete \in BOOLEAN
      PROVE  RuleReplaced(rule, old, new, complete) \in Rule
  <2> DEFINE creds == Replaced(rule.creds, old, new, complete)
             noCreds == Replaced(rule.noCreds, old, new, complete)
  <2>1. rule.creds \subseteq Credentials /\ rule.noCreds \subseteq Credentials BY DEF Rule
  <2>2. creds \in SUBSET Credentials /\ noCreds \in SUBSET Credentials BY <2>1 DEF Replaced
  <2>3. RuleReplaced(rule, old, new, complete) = [rule EXCEPT !.creds = creds, !.noCreds = noCreds]
      BY DEF RuleReplaced
  <2> HIDE DEF creds, noCreds
  <2> QED BY <2>2, <2>3 DEF Rule
<1> QED BY <1>1, <1>2

\* The edits keep the types.
LEMMA RoutingTypeStep == RoutingTypeOK /\ [RoutingNext]_routingVars => RoutingTypeOK'
<1> SUFFICES ASSUME RoutingTypeOK, [RoutingNext]_routingVars PROVE RoutingTypeOK' OBVIOUS
<1> USE RoutingAssumption DEF RoutingTypeOK
<1>a. \A x \in KeyRecord : /\ \A routes \in SUBSET Routes : [x EXCEPT !.routes = routes] \in KeyRecord
                         /\ \A groups \in SUBSET Groups : [x EXCEPT !.groups = groups] \in KeyRecord
    BY DEF KeyRecord
<1>b. \A x \in KeyRecord : x.routes \subseteq Routes /\ x.groups \subseteq Groups BY DEF KeyRecord
<1>d. ASSUME NEW scopes \in SUBSET Keys, NEW r \in Routes
      PROVE  /\ [k \in Keys |-> [key[k] EXCEPT !.routes = IF k \in scopes THEN @ \cup {r} ELSE @ \ {r}]]
                    \in [Keys -> KeyRecord]
             /\ [k \in Keys |-> [key[k] EXCEPT !.routes = @ \ {r}]] \in [Keys -> KeyRecord]
  <2>1. \A k \in Keys : /\ key[k] \in KeyRecord
                       /\ key[k].routes \ {r} \in SUBSET Routes
                       /\ (IF k \in scopes THEN key[k].routes \cup {r} ELSE key[k].routes \ {r}) \in SUBSET Routes
      BY <1>b
  <2> QED BY <1>a, <2>1
<1>e. ASSUME NEW scopes \in SUBSET Keys, NEW g \in Groups
      PROVE  WithMembers(g, scopes) \in [Keys -> KeyRecord]
  <2>1. \A k \in Keys : /\ key[k] \in KeyRecord
                       /\ (IF k \in scopes THEN key[k].groups \cup {g} ELSE key[k].groups \ {g}) \in SUBSET Groups
      BY <1>b
  <2> QED BY <1>a, <2>1 DEF WithMembers
<1>c. \A choice \in GroupChoices, routes \in SUBSET Routes : GroupOf(choice, routes) \in GroupRecord
    BY DEF GroupOf, GroupRecord
<1>1. ASSUME NEW r \in Routes, NEW rule \in RouteRules, NEW scopes \in SUBSET Keys,
             CreateRoute(r, rule, scopes) \/ UpdateRoute(r, rule, scopes)
      PROVE  RoutingTypeOK'
  <2>1. route' \in [Routes -> Rule \cup {Absent}] BY <1>1 DEF CreateRoute, UpdateRoute
  <2>2. key' \in [Keys -> KeyRecord]
    <3>1. CASE CreateRoute(r, rule, scopes)
      <4>1. key' = [k \in Keys |-> IF k \in scopes THEN [key[k] EXCEPT !.routes = @ \cup {r}] ELSE key[k]]
          BY <3>1 DEF CreateRoute
      <4>2. \A k \in Keys : /\ key[k] \in KeyRecord /\ key[k].routes \cup {r} \in SUBSET Routes
                           /\ [key[k] EXCEPT !.routes = @ \cup {r}] \in KeyRecord
        <5>1. \A k \in Keys : key[k] \in KeyRecord OBVIOUS
        <5>2. \A k \in Keys : key[k].routes \cup {r} \in SUBSET Routes BY <1>b, <5>1
        <5> QED BY <1>a, <5>1, <5>2
      <4> HIDE DEF RoutingTypeOK
      <4> QED BY <4>1, <4>2
    <3>2. CASE UpdateRoute(r, rule, scopes)
      <4>1. key' = [k \in Keys |-> [key[k] EXCEPT !.routes = IF k \in scopes THEN @ \cup {r} ELSE @ \ {r}]]
          BY <3>2 DEF UpdateRoute
      <4> HIDE DEF RoutingTypeOK
      <4> QED BY <1>d, <4>1
    <3> QED BY <1>1, <3>1, <3>2
  <2>3. UNCHANGED <<access, group, rotating>> BY <1>1 DEF CreateRoute, UpdateRoute
  <2> QED BY <2>1, <2>2, <2>3
<1>2. ASSUME NEW r \in Routes, DeleteRoute(r) PROVE RoutingTypeOK' BY <1>2, <1>d DEF DeleteRoute
<1>3. ASSUME NEW k \in Keys, NEW routes \in SUBSET Routes, NEW rule \in KeyRules, SetKeyRoutes(k, routes, rule)
      PROVE  RoutingTypeOK'
  <2> DEFINE next == [key[k] EXCEPT !.routes = routes, !.rule = rule, !.configured = TRUE]
  <2>1. PICK K \in KeyRecord : K = key[k] OBVIOUS
  <2>2. rule \in Rule BY RoutingAssumption
  <2>3. [K EXCEPT !.routes = routes, !.rule = rule, !.configured = TRUE] \in KeyRecord
    <3> HIDE DEF RoutingTypeOK
    <3> QED BY <2>2 DEF KeyRecord
  <2>4. next \in KeyRecord BY <2>1, <2>3
  <2>5. key' = [key EXCEPT ![k] = next]
      BY <1>3 DEF SetKeyRoutes, KeyRecord
  <2> HIDE DEF next
  <2>6. UNCHANGED <<access, route, group, rotating>> BY <1>3 DEF SetKeyRoutes
  <2> QED BY <2>4, <2>5, <2>6
<1>4. ASSUME NEW g \in Groups, NEW choice \in GroupChoices, NEW routes \in SUBSET Routes, NEW scopes \in SUBSET Keys,
             CreateGroup(g, choice, routes, scopes) \/ UpdateGroup(g, choice, routes, scopes)
      PROVE  RoutingTypeOK'
  <2>1. group' \in [Groups -> GroupRecord \cup {Absent}] BY <1>4, <1>c DEF CreateGroup, UpdateGroup
  <2>2. key' \in [Keys -> KeyRecord]
    <3>1. CASE CreateGroup(g, choice, routes, scopes)
      <4>1. key' = [k \in Keys |-> IF k \in scopes THEN [key[k] EXCEPT !.groups = @ \cup {g}] ELSE key[k]]
          BY <3>1 DEF CreateGroup
      <4>2. \A k \in Keys : /\ key[k] \in KeyRecord /\ key[k].groups \cup {g} \in SUBSET Groups
                           /\ [key[k] EXCEPT !.groups = @ \cup {g}] \in KeyRecord
        <5>1. \A k \in Keys : key[k] \in KeyRecord OBVIOUS
        <5>2. \A k \in Keys : key[k].groups \cup {g} \in SUBSET Groups BY <1>b, <5>1
        <5> QED BY <1>a, <5>1, <5>2
      <4> HIDE DEF RoutingTypeOK
      <4> QED BY <4>1, <4>2
    <3>2. CASE UpdateGroup(g, choice, routes, scopes) BY <1>e, <3>2 DEF UpdateGroup
    <3> QED BY <1>4, <3>1, <3>2
  <2>3. UNCHANGED <<access, route, rotating>> BY <1>4 DEF CreateGroup, UpdateGroup
  <2> QED BY <2>1, <2>2, <2>3
<1>5. ASSUME NEW g \in Groups, DeleteGroup(g) PROVE RoutingTypeOK' BY <1>5, <1>e DEF DeleteGroup
<1>6. ASSUME NEW scopes \in SUBSET Keys, NEW groups \in SUBSET Groups, SetKeyGroups(scopes, groups)
      PROVE  RoutingTypeOK'
  <2>1. [k \in Keys |-> IF k \in scopes THEN [key[k] EXCEPT !.groups = groups] ELSE key[k]] \in [Keys -> KeyRecord]
      BY DEF KeyRecord
  <2> QED BY <1>6, <2>1 DEF SetKeyGroups
<1>7. ASSUME NEW settings \in AccessChoices, SetAccessControl(settings) PROVE RoutingTypeOK'
    BY <1>7 DEF SetAccessControl
<1>8. ASSUME NEW k \in Keys, SyncKey(k) PROVE RoutingTypeOK'
  <2> DEFINE next == [key[k] EXCEPT !.deleted = ~@]
  <2>1. next \in KeyRecord BY DEF KeyRecord
  <2> HIDE DEF next
  <2>2. key' = [key EXCEPT ![k] = next] BY <1>8 DEF SyncKey, next
  <2> QED BY <1>8, <2>1, <2>2 DEF SyncKey
<1>9. ASSUME NEW pair \in Rotations, NEW complete \in BOOLEAN, MigrateRefs(pair, complete) PROVE RoutingTypeOK'
  <2>1. pair[1] \in Credentials /\ pair[2] \in Credentials OBVIOUS
  <2>2. route' \in [Routes -> Rule \cup {Absent}] BY <1>9, <2>1, RuleTypes DEF MigrateRefs
  <2>3. \A x \in GroupRecord : [x EXCEPT !.rule = RuleReplaced(@, pair[1], pair[2], complete)] \in GroupRecord
      BY <2>1, RuleTypes DEF GroupRecord
  <2>4. group' \in [Groups -> GroupRecord \cup {Absent}] BY <1>9, <2>3 DEF MigrateRefs
  <2>5. \A x \in KeyRecord : [x EXCEPT !.rule = RuleReplaced(@, pair[1], pair[2], complete)] \in KeyRecord
      BY <2>1, RuleTypes DEF KeyRecord
  <2>6. key' \in [Keys -> KeyRecord] BY <1>9, <2>5 DEF MigrateRefs
  <2> QED BY <1>9, <2>2, <2>4, <2>6 DEF MigrateRefs
<1>10. CASE UNCHANGED routingVars BY <1>10 DEF routingVars
<1> QED BY <1>1, <1>2, <1>3, <1>4, <1>5, <1>6, <1>7, <1>8, <1>9, <1>10 DEF RoutingNext, RouteEdit, GroupEdit

\* Groups that a key keeps or loses do not come into conflict unless one of them changes.
LEMMA ConflictKept ==
    ASSUME NEW old, NEW new, NEW ids \in SUBSET Groups, NEW later \in SUBSET ids, ~ConflictIn(old, ids),
           \A g \in later : \/ new[g] = Absent
                            \/ old[g] # Absent /\ new[g].disabled = old[g].disabled /\ new[g].mode = old[g].mode
    PROVE  ~ConflictIn(new, later)
<1> DEFINE S == {g \in ids : old[g] # Absent /\ ~old[g].disabled /\ old[g].mode = "exclusive"}
           T == {g \in later : new[g] # Absent /\ ~new[g].disabled /\ new[g].mode = "exclusive"}
<1>1. T \subseteq S /\ S \subseteq Groups OBVIOUS
<1>2. IsFiniteSet(S) BY <1>1, FS_Subset, RoutingAssumption
<1>3. Cardinality(T) <= Cardinality(S) /\ Cardinality(S) \in Nat /\ Cardinality(T) \in Nat
    BY <1>1, <1>2, FS_Subset, FS_CardinalityType
<1>4. ~(Cardinality(S) > 1) BY DEF ConflictIn
<1>5. ~(Cardinality(T) > 1) BY <1>3, <1>4
<1> QED BY <1>5 DEF ConflictIn

\* What an edit checks of the groups of a key is what resolving it would find.
LEMMA ConflictIsExclusives ==
    ASSUME RoutingTypeOK, NEW ids \in SUBSET Groups
    PROVE  /\ Exclusives(ids) = {g \in ids : group[g] # Absent /\ ~group[g].disabled /\ group[g].mode = "exclusive"}
           /\ Conflicting(ids) <=> ConflictIn(group, ids)
<1>1. Exclusives(ids) = {g \in ids : group[g] # Absent /\ ~group[g].disabled /\ group[g].mode = "exclusive"}
    BY DEF Exclusives, EnabledGroups, Present, RoutingTypeOK
<1> QED BY <1>1 DEF Conflicting, ConflictIn

\* Every edit leaves keys and groups bound to what there is, or is refused.
LEMMA BindingsStep == RoutingInv /\ RoutingTypeOK' /\ [RoutingNext]_routingVars => Bindings'
<1> SUFFICES ASSUME RoutingTypeOK, Bindings, RoutingTypeOK', [RoutingNext]_routingVars PROVE Bindings'
    BY DEF RoutingInv
<1>t. /\ route \in [Routes -> Rule \cup {Absent}] /\ route' \in [Routes -> Rule \cup {Absent}]
      /\ group \in [Groups -> GroupRecord \cup {Absent}] /\ group' \in [Groups -> GroupRecord \cup {Absent}]
      /\ key \in [Keys -> KeyRecord] /\ key' \in [Keys -> KeyRecord]
    BY DEF RoutingTypeOK
<1>p. /\ Present(route) = {r \in Routes : route[r] # Absent} /\ Present(group) = {g \in Groups : group[g] # Absent}
      /\ Present(route') = {r \in Routes : route'[r] # Absent}
      /\ Present(group') = {g \in Groups : group'[g] # Absent}
    BY <1>t DEF Present
<1>k. \A k \in Keys : /\ key[k].groups \in SUBSET Groups /\ key'[k].groups \in SUBSET Groups
                      /\ key[k].routes \in SUBSET Routes /\ key'[k].routes \in SUBSET Routes
    BY <1>t DEF KeyRecord
<1>b. /\ \A k \in Keys : /\ key[k].routes \subseteq Present(route)
                         /\ key[k].groups \subseteq Present(group)
                         /\ ~ConflictIn(group, key[k].groups)
      /\ \A g \in Present(group) : group[g].routes \subseteq Present(route)
    BY DEF Bindings
\* An edit of routes: the groups of keys stay as they are.
<1>r. ASSUME group' = group, \A k \in Keys : key'[k].groups = key[k].groups,
             \A k \in Keys : key'[k].routes \subseteq Present(route'),
             \A g \in Present(group) : group[g].routes \subseteq Present(route')
      PROVE  Bindings'
    BY <1>b, <1>r DEF Bindings
\* An edit of groups: those of a key that it does not touch become fewer.
<1>g. ASSUME route' = route, \A k \in Keys : key'[k].routes = key[k].routes,
             \A k \in Keys : key'[k].groups \subseteq Present(group'),
             \A k \in Keys : \/ ~ConflictIn(group', key'[k].groups)
                             \/ /\ key'[k].groups \subseteq key[k].groups
                                /\ \A h \in key'[k].groups : group'[h] = group[h],
             \A h \in Present(group') : group'[h].routes \subseteq Present(route)
      PROVE  Bindings'
  <2>1. ASSUME NEW k \in Keys PROVE ~ConflictIn(group', key'[k].groups)
    <3>1. CASE key'[k].groups \subseteq key[k].groups /\ \A h \in key'[k].groups : group'[h] = group[h]
      <4>1. \A h \in key'[k].groups : group[h] # Absent BY <1>b, <1>p, <3>1
      <4> QED BY <1>b, <1>k, <3>1, <4>1, ConflictKept
    <3> QED BY <1>g, <3>1
  <2> QED BY <1>b, <1>g, <2>1 DEF Bindings
<1>1. ASSUME NEW r \in Routes, NEW rule \in RouteRules, NEW scopes \in SUBSET Keys, CreateRoute(r, rule, scopes)
      PROVE  Bindings'
  <2>1. rule # Absent /\ Present(route') = Present(route) \cup {r} /\ group' = group
    <3>1. rule # Absent BY RoutingAssumption
    <3>2. route' = [route EXCEPT ![r] = rule] /\ group' = group BY <1>1 DEF CreateRoute
    <3> QED BY <1>t, <1>p, <3>1, <3>2
  <2>2. \A k \in Keys : key'[k] = IF k \in scopes THEN [key[k] EXCEPT !.routes = @ \cup {r}] ELSE key[k]
      BY <1>1 DEF CreateRoute
  <2>3. \A k \in Keys : key'[k].groups = key[k].groups /\ key'[k].routes \subseteq key[k].routes \cup {r}
      BY <1>t, <2>2 DEF KeyRecord
  <2> QED BY <1>b, <1>r, <2>1, <2>3
<1>2. ASSUME NEW r \in Routes, NEW rule \in RouteRules, NEW scopes \in SUBSET Keys, UpdateRoute(r, rule, scopes)
      PROVE  Bindings'
  <2>1. rule # Absent /\ Present(route') = Present(route) /\ r \in Present(route) /\ group' = group
    <3>1. rule # Absent BY RoutingAssumption
    <3>2. route' = [route EXCEPT ![r] = rule] /\ route[r] # Absent /\ group' = group BY <1>2 DEF UpdateRoute
    <3> QED BY <1>t, <1>p, <3>1, <3>2
  <2>2. \A k \in Keys : key'[k] = [key[k] EXCEPT !.routes = IF k \in scopes THEN @ \cup {r} ELSE @ \ {r}]
      BY <1>2 DEF UpdateRoute
  <2>3. \A k \in Keys : key'[k].groups = key[k].groups /\ key'[k].routes \subseteq key[k].routes \cup {r}
      BY <1>t, <2>2 DEF KeyRecord
  <2> QED BY <1>b, <1>r, <2>1, <2>3
<1>3. ASSUME NEW r \in Routes, DeleteRoute(r) PROVE Bindings'
  <2>1. Present(route') = Present(route) \ {r} /\ group' = group /\ \A g \in Present(group) : r \notin group[g].routes
      BY <1>3, <1>t, <1>p DEF DeleteRoute
  <2>2. \A k \in Keys : key'[k] = [key[k] EXCEPT !.routes = @ \ {r}]
      BY <1>3 DEF DeleteRoute
  <2>3. \A k \in Keys : key'[k].groups = key[k].groups /\ key'[k].routes = key[k].routes \ {r}
      BY <1>t, <2>2 DEF KeyRecord
  <2> QED BY <1>b, <1>r, <2>1, <2>3
<1>4. ASSUME NEW k \in Keys, NEW routes \in SUBSET Routes, NEW rule \in KeyRules, SetKeyRoutes(k, routes, rule)
      PROVE  Bindings'
  <2> DEFINE next == [key[k] EXCEPT !.routes = routes, !.rule = rule, !.configured = TRUE]
  <2>1. key' = [key EXCEPT ![k] = next] /\ group' = group /\ route' = route /\ routes \subseteq Present(route)
      BY <1>4, <1>t DEF SetKeyRoutes, KeyRecord
  <2>2. next.groups = key[k].groups /\ next.routes = routes BY <1>t DEF KeyRecord
  <2> HIDE DEF next
  <2>3. \A o \in Keys : /\ key'[o].groups = key[o].groups
                        /\ key'[o].routes = IF o = k THEN routes ELSE key[o].routes
      BY <1>t, <2>1, <2>2
  <2> QED BY <1>b, <1>r, <2>1, <2>3
<1>5. ASSUME NEW g \in Groups, NEW choice \in GroupChoices, NEW routes \in SUBSET Routes, NEW scopes \in SUBSET Keys,
             CreateGroup(g, choice, routes, scopes) \/ UpdateGroup(g, choice, routes, scopes)
      PROVE  Bindings'
  <2> DEFINE new == GroupOf(choice, routes)
  <2>1. new \in GroupRecord /\ new # Absent /\ new.routes = routes
      BY RoutingAssumption DEF GroupOf, GroupRecord
  <2>2. group' = [group EXCEPT ![g] = new] /\ route' = route /\ routes \subseteq Present(route)
      BY <1>5 DEF CreateGroup, UpdateGroup
  <2> HIDE DEF new
  <2>3. /\ Present(group') = Present(group) \cup {g} /\ group'[g] = new
        /\ \A h \in Groups : h # g => group'[h] = group[h]
      BY <1>t, <1>p, <2>1, <2>2
  <2>4. \A h \in Present(group') : group'[h].routes \subseteq Present(route)
      BY <1>b, <1>p, <2>1, <2>2, <2>3
  <2>5. CASE CreateGroup(g, choice, routes, scopes)
    <3>1. \A k \in Keys : key'[k] = IF k \in scopes THEN [key[k] EXCEPT !.groups = @ \cup {g}] ELSE key[k]
        BY <2>5 DEF CreateGroup
    <3>2. \A k \in Keys : /\ key'[k].routes = key[k].routes
                          /\ key'[k].groups = IF k \in scopes THEN key[k].groups \cup {g} ELSE key[k].groups
        BY <1>t, <3>1 DEF KeyRecord
    <3>3. \A k \in scopes : ~ConflictIn(group', key'[k].groups) BY <2>5 DEF CreateGroup, NoConflict
    <3>4. g \notin Present(group) BY <2>5, <1>p DEF CreateGroup
    <3>5. \A k \in Keys : \/ ~ConflictIn(group', key'[k].groups)
                          \/ /\ key'[k].groups \subseteq key[k].groups
                             /\ \A h \in key'[k].groups : group'[h] = group[h]
        BY <1>b, <1>k, <2>3, <3>2, <3>3, <3>4
    <3>6. \A k \in Keys : key'[k].groups \subseteq Present(group') BY <1>b, <2>3, <3>2
    <3> QED BY <1>g, <2>2, <2>4, <3>2, <3>5, <3>6
  <2>6. CASE UpdateGroup(g, choice, routes, scopes)
    <3>1. \A k \in Keys : key'[k] = [key[k] EXCEPT !.groups = IF k \in scopes THEN @ \cup {g} ELSE @ \ {g}]
        BY <2>6 DEF UpdateGroup, WithMembers
    <3>2. \A k \in Keys : /\ key'[k].routes = key[k].routes
                          /\ key'[k].groups = IF k \in scopes THEN key[k].groups \cup {g} ELSE key[k].groups \ {g}
      <4>1. \A x \in KeyRecord : \A s : LET y == [x EXCEPT !.groups = s] IN y.routes = x.routes /\ y.groups = s
          BY DEF KeyRecord
      <4>2. ASSUME NEW k \in Keys
            PROVE  /\ key'[k].routes = key[k].routes
                   /\ key'[k].groups = IF k \in scopes THEN key[k].groups \cup {g} ELSE key[k].groups \ {g}
        <5> DEFINE next == IF k \in scopes THEN key[k].groups \cup {g} ELSE key[k].groups \ {g}
        <5>1. key[k] \in KeyRecord /\ key'[k] = [key[k] EXCEPT !.groups = next] BY <1>t, <3>1
        <5> HIDE DEF next
        <5>2. key'[k].routes = key[k].routes /\ key'[k].groups = next BY <4>1, <5>1
        <5> QED BY <5>2 DEF next
      <4> QED BY <4>2
    <3>3. \A k \in Keys : g \in key'[k].groups => ~ConflictIn(group', key'[k].groups)
        BY <2>6 DEF UpdateGroup, NoConflict, Members
    <3>5. \A k \in Keys : \/ ~ConflictIn(group', key'[k].groups)
                          \/ /\ key'[k].groups \subseteq key[k].groups
                             /\ \A h \in key'[k].groups : group'[h] = group[h]
        BY <1>b, <1>k, <2>3, <3>2, <3>3
    <3>6. \A k \in Keys : key'[k].groups \subseteq Present(group') BY <1>b, <2>3, <3>2
    <3> QED BY <1>g, <2>2, <2>4, <3>2, <3>5, <3>6
  <2> QED BY <1>5, <2>5, <2>6
<1>6. ASSUME NEW g \in Groups, DeleteGroup(g) PROVE Bindings'
  <2>1. /\ Present(group') = Present(group) \ {g} /\ route' = route
        /\ \A h \in Groups : h # g => group'[h] = group[h]
      BY <1>6, <1>t, <1>p DEF DeleteGroup
  <2>2. \A k \in Keys : key'[k] = [key[k] EXCEPT !.groups = IF k \in {} THEN @ \cup {g} ELSE @ \ {g}]
      BY <1>6 DEF DeleteGroup, WithMembers
  <2>3. \A k \in Keys : key'[k].routes = key[k].routes /\ key'[k].groups = key[k].groups \ {g}
      BY <1>t, <2>2 DEF KeyRecord
  <2>4. \A k \in Keys : key'[k].groups \subseteq key[k].groups /\ \A h \in key'[k].groups : group'[h] = group[h]
      BY <1>k, <2>1, <2>3
  <2>5. \A k \in Keys : key'[k].groups \subseteq Present(group') BY <1>b, <2>1, <2>3
  <2>6. \A h \in Present(group') : group'[h].routes \subseteq Present(route) BY <1>b, <1>p, <2>1
  <2> QED BY <1>g, <2>1, <2>3, <2>4, <2>5, <2>6
<1>7. ASSUME NEW scopes \in SUBSET Keys, NEW groups \in SUBSET Groups, SetKeyGroups(scopes, groups)
      PROVE  Bindings'
  <2>1. \A k \in Keys : key'[k] = IF k \in scopes THEN [key[k] EXCEPT !.groups = groups] ELSE key[k]
      BY <1>7 DEF SetKeyGroups
  <2>2. \A k \in Keys : /\ key'[k].routes = key[k].routes
                        /\ key'[k].groups = IF k \in scopes THEN groups ELSE key[k].groups
      BY <1>t, <2>1 DEF KeyRecord
  <2>3. route' = route /\ group' = group /\ groups \subseteq Present(group) BY <1>7 DEF SetKeyGroups
  <2>4. \A k \in scopes : ~ConflictIn(group', key'[k].groups) BY <1>7 DEF SetKeyGroups, NoConflict
  <2>5. \A k \in Keys : \/ ~ConflictIn(group', key'[k].groups)
                        \/ /\ key'[k].groups \subseteq key[k].groups
                           /\ \A h \in key'[k].groups : group'[h] = group[h]
      BY <2>2, <2>3, <2>4
  <2>6. \A k \in Keys : key'[k].groups \subseteq Present(group') BY <1>b, <2>2, <2>3
  <2> QED BY <1>b, <1>g, <2>2, <2>3, <2>5, <2>6
<1>8. ASSUME NEW k \in Keys, SyncKey(k) PROVE Bindings'
  <2> DEFINE next == [key[k] EXCEPT !.deleted = ~@]
  <2>1. next.groups = key[k].groups /\ next.routes = key[k].routes BY <1>t DEF KeyRecord
  <2> HIDE DEF next
  <2>2. key' = [key EXCEPT ![k] = next] /\ route' = route /\ group' = group BY <1>8 DEF SyncKey, next
  <2>3. \A o \in Keys : key'[o].groups = key[o].groups /\ key'[o].routes = key[o].routes BY <1>t, <2>1, <2>2
  <2> QED BY <1>b, <1>r, <2>2, <2>3
<1>9. ASSUME NEW pair \in Rotations, NEW complete \in BOOLEAN, MigrateRefs(pair, complete) PROVE Bindings'
  <2> DEFINE replaced(rule) == RuleReplaced(rule, pair[1], pair[2], complete)
  <2>1. pair[1] \in Credentials /\ pair[2] \in Credentials BY RoutingAssumption
  <2>2. \A rule \in Rule : replaced(rule) \in Rule /\ replaced(rule) # Absent BY <2>1, RuleTypes, RoutingAssumption
  <2>3. Present(route') = Present(route)
    <3>1. \A r \in Routes : route'[r] = IF route[r] = Absent THEN Absent ELSE replaced(route[r])
        BY <1>9 DEF MigrateRefs
    <3> HIDE DEF replaced
    <3> QED BY <1>t, <1>p, <2>2, <3>1
  <2>4. \A g \in Groups : group'[g] = IF group[g] = Absent THEN Absent ELSE [group[g] EXCEPT !.rule = replaced(@)]
      BY <1>9 DEF MigrateRefs
  <2>5. \A k \in Keys : key'[k] = [key[k] EXCEPT !.rule = replaced(@)] BY <1>9 DEF MigrateRefs
  <2> HIDE DEF replaced
  <2>6. \A x \in GroupRecord : LET y == [x EXCEPT !.rule = replaced(@)] IN
            y \in GroupRecord /\ y.routes = x.routes /\ y.disabled = x.disabled /\ y.mode = x.mode
      BY <2>2 DEF GroupRecord
  <2>7. \A g \in Groups : /\ group[g] = Absent <=> group'[g] = Absent
                          /\ group[g] # Absent => /\ group'[g].routes = group[g].routes
                                                  /\ group'[g].disabled = group[g].disabled
                                                  /\ group'[g].mode = group[g].mode
    <3> SUFFICES ASSUME NEW g \in Groups
                 PROVE  /\ group[g] = Absent <=> group'[g] = Absent
                        /\ group[g] # Absent => /\ group'[g].routes = group[g].routes
                                                /\ group'[g].disabled = group[g].disabled
                                                /\ group'[g].mode = group[g].mode
        OBVIOUS
    <3>1. CASE group[g] = Absent BY <2>4, <3>1
    <3>2. CASE group[g] # Absent
      <4>1. group[g] \in GroupRecord BY <1>t, <3>2
      <4>2. group'[g] = [group[g] EXCEPT !.rule = replaced(@)] BY <2>4, <3>2
      <4> QED BY <2>6, <3>2, <4>1, <4>2, RoutingAssumption
    <3> QED BY <3>1, <3>2
  <2>8. \A k \in Keys : key'[k].groups = key[k].groups /\ key'[k].routes = key[k].routes
      BY <1>t, <2>5 DEF KeyRecord
  <2>9. ASSUME NEW k \in Keys PROVE ~ConflictIn(group', key'[k].groups)
    <3>1. \A g \in key[k].groups : /\ group[g] # Absent /\ group'[g].disabled = group[g].disabled
                                   /\ group'[g].mode = group[g].mode
        BY <1>b, <1>p, <1>k, <2>7
    <3> QED BY <1>b, <1>k, <2>8, <3>1, ConflictKept
  <2>10. Present(group') = Present(group) BY <1>p, <2>7
  <2>11. \A g \in Present(group') : group'[g].routes \subseteq Present(route') BY <1>b, <1>p, <2>3, <2>7, <2>10
  <2> QED BY <1>b, <2>3, <2>8, <2>9, <2>10, <2>11 DEF Bindings
<1>10. ASSUME NEW settings \in AccessChoices, SetAccessControl(settings) PROVE Bindings'
    BY <1>b, <1>10, <1>r DEF SetAccessControl
<1>11. CASE UNCHANGED routingVars BY <1>b, <1>11, <1>r DEF routingVars
<1> QED BY <1>1, <1>2, <1>3, <1>4, <1>5, <1>6, <1>7, <1>8, <1>9, <1>10, <1>11
        DEF RoutingNext, RouteEdit, GroupEdit

\* What is granted or denied by several rules is what one of them grants or denies.
LEMMA MergedFields ==
    ASSUME NEW rules
    PROVE  /\ \A m : m \in Merged(rules).models <=> \E r \in rules : m \in r.models
           /\ \A m : m \in Merged(rules).noModels <=> \E r \in rules : m \in r.noModels
           /\ \A c : Lists(Merged(rules), c) <=> \E r \in rules : Lists(r, c)
           /\ \A c : Denies(Merged(rules), c) <=> \E r \in rules : Denies(r, c)
<1>1. /\ Merged(rules).models = UNION {r.models : r \in rules}
      /\ Merged(rules).creds = UNION {r.creds : r \in rules}
      /\ Merged(rules).providers = UNION {r.providers : r \in rules}
      /\ Merged(rules).noModels = UNION {r.noModels : r \in rules}
      /\ Merged(rules).noCreds = UNION {r.noCreds : r \in rules}
      /\ Merged(rules).noProviders = UNION {r.noProviders : r \in rules}
    BY DEF Merged
<1> HIDE DEF Merged
<1>2. \A m : m \in Merged(rules).models <=> \E r \in rules : m \in r.models BY <1>1
<1>3. \A m : m \in Merged(rules).noModels <=> \E r \in rules : m \in r.noModels BY <1>1
<1>4. \A c : Lists(Merged(rules), c) <=> \E r \in rules : Lists(r, c) BY <1>1 DEF Lists
<1>5. \A c : Denies(Merged(rules), c) <=> \E r \in rules : Denies(r, c) BY <1>1 DEF Denies
<1> QED BY <1>2, <1>3, <1>4, <1>5

\* The grants that list no models count beside others where each that lists some names credentials.
LEMMA OpenGrantFields ==
    ASSUME NEW units, HasOpen(OpenGrant(units))
    PROVE  /\ \A u \in units : u.models # {} => Grants(u)
           /\ \E u \in units : u.models # {}
           /\ \A c : Lists(OpenGrant(units), c) => \E u \in units : u.models = {} /\ Lists(u, c)
<1>1. ~HasOpen(EmptyRule) BY DEF HasOpen, Grants, EmptyRule
<1>2. /\ \A u \in units : u.models # {} => Grants(u)
      /\ \E u \in units : u.models # {}
      /\ OpenGrant(units) = Merged({u \in units : u.models = {}})
    BY <1>1 DEF OpenGrant
<1>3. \A c : Lists(OpenGrant(units), c) <=> \E u \in {u \in units : u.models = {}} : Lists(u, c)
    BY <1>2, MergedFields
<1> QED BY <1>2, <1>3

\* A decision under an exclusive group, field by field.
ExclusiveFrom(d, own, constraint, units) ==
    LET base == Merged(units)
        open == OpenGrant(units)
        models == NarrowedModels(base.models, own.models)
    IN /\ ~HasOpen(open) /\ base.models # {} /\ models = {} => d = Refused
       /\ HasOpen(open) \/ base.models = {} \/ models # {} =>
             /\ ~d.error /\ ~d.denied /\ d.require /\ d.constraint = constraint
             /\ d.rule.creds = base.creds /\ d.rule.providers = base.providers
             /\ d.rule.noModels = base.noModels \cup own.noModels
             /\ d.rule.noCreds = base.noCreds \cup own.noCreds
             /\ d.rule.noProviders = base.noProviders \cup own.noProviders
             /\ HasOpen(open) => d.rule.models = own.models /\ d.open = open /\ d.paired = models
             /\ ~HasOpen(open) => d.rule.models = models /\ d.open = EmptyRule /\ d.paired = {}

LEMMA ExclusiveFields ==
    ASSUME NEW K, NEW units
    PROVE  ExclusiveFrom(ExclusiveDecision(K, units), OwnUnit(K), Constraint(K), units)
<1> USE DEF ExclusiveFrom
<1> DEFINE own == OwnUnit(K)
           base == Merged(units)
           open == OpenGrant(units)
           models == NarrowedModels(base.models, own.models)
           rule == [base EXCEPT !.noModels = @ \cup own.noModels, !.noCreds = @ \cup own.noCreds,
                                !.noProviders = @ \cup own.noProviders]
           basis == [Unrestricted EXCEPT !.require = TRUE, !.constraint = Constraint(K)]
           d == ExclusiveDecision(K, units)
<1>1. /\ rule.creds = base.creds /\ rule.providers = base.providers
      /\ rule.noModels = base.noModels \cup own.noModels
      /\ rule.noCreds = base.noCreds \cup own.noCreds
      /\ rule.noProviders = base.noProviders \cup own.noProviders
      /\ \A list : LET r == [rule EXCEPT !.models = list] IN
            /\ r.models = list /\ r.creds = rule.creds /\ r.providers = rule.providers
            /\ r.noModels = rule.noModels /\ r.noCreds = rule.noCreds /\ r.noProviders = rule.noProviders
  <2> HIDE DEF own
  <2> QED BY DEF Merged
<1>2. \A r, p, q :
        LET plain == [basis EXCEPT !.rule = r]
            opened == [basis EXCEPT !.rule = r, !.open = p, !.paired = q]
        IN /\ ~plain.error /\ ~plain.denied /\ plain.require /\ plain.constraint = Constraint(K)
           /\ plain.rule = r /\ plain.open = EmptyRule /\ plain.paired = {}
           /\ ~opened.error /\ ~opened.denied /\ opened.require /\ opened.constraint = Constraint(K)
           /\ opened.rule = r /\ opened.open = p /\ opened.paired = q
    BY DEF Unrestricted
<1>3. d = IF HasOpen(open)
          THEN [basis EXCEPT !.rule = [rule EXCEPT !.models = own.models], !.open = open, !.paired = models]
          ELSE IF base.models # {} /\ models = {} THEN Refused
          ELSE [basis EXCEPT !.rule = [rule EXCEPT !.models = models]]
    BY DEF ExclusiveDecision
<1> HIDE DEF own, base, open, models, rule, basis, d
<1>4. CASE HasOpen(open)
  <2> DEFINE r == [rule EXCEPT !.models = own.models]
  <2>1. /\ r.models = own.models /\ r.creds = base.creds /\ r.providers = base.providers
        /\ r.noModels = base.noModels \cup own.noModels
        /\ r.noCreds = base.noCreds \cup own.noCreds
        /\ r.noProviders = base.noProviders \cup own.noProviders
      BY <1>1
  <2>2. d = [basis EXCEPT !.rule = r, !.open = open, !.paired = models] BY <1>3, <1>4
  <2> HIDE DEF r
  <2>3. /\ ~d.error /\ ~d.denied /\ d.require /\ d.constraint = Constraint(K)
        /\ d.rule = r /\ d.open = open /\ d.paired = models
      BY <1>2, <2>2
  <2> QED BY <1>4, <2>1, <2>3 DEF own, base, open, models, d
<1>5. CASE ~HasOpen(open) /\ base.models # {} /\ models = {}
    BY <1>3, <1>5 DEF own, base, open, models, d
<1>6. CASE ~HasOpen(open) /\ ~(base.models # {} /\ models = {})
    BY <1>1, <1>2, <1>3, <1>6 DEF own, base, open, models, d
<1> QED BY <1>4, <1>5, <1>6 DEF own, base, open, models, d

\* A decision without one.
Managed(K) == K.configured \/ K.groups # {} \/ K.routes # {} \/ K.rule # EmptyRule
CombinedFrom(d, managed, all) ==
    LET base == Merged(all)
        open == OpenGrant(all)
    IN /\ ~d.error /\ ~d.denied /\ d.constraint = Absent
       /\ d.require <=> managed
       /\ d.rule.creds = base.creds /\ d.rule.providers = base.providers
       /\ d.rule.noModels = base.noModels /\ d.rule.noCreds = base.noCreds
       /\ d.rule.noProviders = base.noProviders
       /\ HasOpen(open) => d.rule.models = {} /\ d.open = open /\ d.paired = base.models
       /\ ~HasOpen(open) => d.rule.models = base.models /\ d.open = EmptyRule /\ d.paired = {}

LEMMA CombinedFields ==
    ASSUME NEW K, NEW units
    PROVE  CombinedFrom(CombinedDecision(K, units), Managed(K), units \cup {OwnUnit(K)})
<1> USE DEF CombinedFrom, Managed
<1> DEFINE all == units \cup {OwnUnit(K)}
           base == Merged(all)
           open == OpenGrant(all)
           managed == K.configured \/ K.groups # {} \/ K.routes # {} \/ K.rule # EmptyRule
           basis == [Unrestricted EXCEPT !.require = managed, !.rule = base]
           d == CombinedDecision(K, units)
<1>1. LET r == [base EXCEPT !.models = {}] IN
      /\ r.models = {} /\ r.creds = base.creds /\ r.providers = base.providers
      /\ r.noModels = base.noModels /\ r.noCreds = base.noCreds /\ r.noProviders = base.noProviders
  <2> HIDE DEF all
  <2> QED BY DEF Merged
<1>2. /\ ~basis.error /\ ~basis.denied /\ basis.constraint = Absent
      /\ basis.require = managed
      /\ basis.rule = base /\ basis.open = EmptyRule /\ basis.paired = {}
  <2> HIDE DEF managed, base
  <2> QED BY DEF Unrestricted
<1>3. \A p, q : LET opened == [basis EXCEPT !.rule.models = {}, !.open = p, !.paired = q] IN
        /\ ~opened.error /\ ~opened.denied /\ opened.constraint = Absent
        /\ opened.require = managed
        /\ opened.rule = [base EXCEPT !.models = {}] /\ opened.open = p /\ opened.paired = q
  <2> HIDE DEF managed, base
  <2> QED BY DEF Unrestricted
<1>4. d = IF HasOpen(open)
          THEN [basis EXCEPT !.rule.models = {}, !.open = open, !.paired = base.models]
          ELSE basis
    BY DEF CombinedDecision
<1>5. managed <=> K.configured \/ K.groups # {} \/ K.routes # {} \/ K.rule # EmptyRule OBVIOUS
<1> HIDE DEF all, base, open, managed, basis, d
<1>6. CASE HasOpen(open)
  <2>1. d = [basis EXCEPT !.rule.models = {}, !.open = open, !.paired = base.models] BY <1>4, <1>6
  <2>2. /\ ~d.error /\ ~d.denied /\ d.constraint = Absent /\ d.require = managed
        /\ d.rule = [base EXCEPT !.models = {}] /\ d.open = open /\ d.paired = base.models
      BY <1>3, <2>1
  <2> QED BY <1>1, <1>5, <1>6, <2>2 DEF all, base, open, d
<1>7. CASE ~HasOpen(open) BY <1>2, <1>4, <1>5, <1>7 DEF all, base, open, d
<1> QED BY <1>6, <1>7 DEF all, base, open, d

\* Everything that is resolved is a rule, and a decision of known shape.
Decision ==
    [error : BOOLEAN, denied : BOOLEAN, require : BOOLEAN, rule : Rule, constraint : Rule \cup {Absent},
     open : Rule, paired : SUBSET Models]

LEMMA MergedType == ASSUME NEW rules \in SUBSET Rule PROVE Merged(rules) \in Rule
<1>1. /\ UNION {r.models : r \in rules} \subseteq Models /\ UNION {r.noModels : r \in rules} \subseteq Models
      /\ UNION {r.creds : r \in rules} \subseteq Credentials /\ UNION {r.noCreds : r \in rules} \subseteq Credentials
      /\ UNION {r.providers : r \in rules} \subseteq Providers /\ UNION {r.noProviders : r \in rules} \subseteq Providers
  <2>1. \A r \in rules : /\ r.models \subseteq Models /\ r.noModels \subseteq Models
                         /\ r.creds \subseteq Credentials /\ r.noCreds \subseteq Credentials
                         /\ r.providers \subseteq Providers /\ r.noProviders \subseteq Providers
      BY DEF Rule
  <2> QED BY <2>1
<1> QED BY <1>1 DEF Merged, Rule

LEMMA UnitTypes ==
    ASSUME RoutingTypeOK
    PROVE  /\ \A rule \in Rule : \A routes : Unit(routes, rule) \in Rule
           /\ \A g \in Present(group) : group[g] \in GroupRecord /\ GroupUnit(g) \in Rule
           /\ \A K \in KeyRecord : OwnUnit(K) \in Rule
<1>1. ASSUME NEW routes, NEW rule \in Rule PROVE Unit(routes, rule) \in Rule
  <2>1. \A r \in Present(route) : route[r] \in Rule BY DEF Present, RoutingTypeOK
  <2>2. {route[r] : r \in routes \cap Present(route)} \cup {rule} \in SUBSET Rule BY <2>1
  <2> QED BY <2>2, MergedType DEF Unit
<1>2. ASSUME NEW g \in Present(group) PROVE group[g] \in GroupRecord /\ GroupUnit(g) \in Rule
  <2>1. group[g] \in GroupRecord BY DEF Present, RoutingTypeOK
  <2>2. group[g].rule \in Rule BY <2>1 DEF GroupRecord
  <2> QED BY <1>1, <2>1, <2>2 DEF GroupUnit
<1>3. ASSUME NEW K \in KeyRecord PROVE OwnUnit(K) \in Rule
  <2>1. K.rule \in Rule BY DEF KeyRecord
  <2> QED BY <1>1, <2>1 DEF OwnUnit
<1> QED BY <1>1, <1>2, <1>3

LEMMA OpenGrantType == ASSUME NEW units \in SUBSET Rule PROVE OpenGrant(units) \in Rule
<1>1. {u \in units : u.models = {}} \in SUBSET Rule OBVIOUS
<1> QED BY <1>1, MergedType, RuleTypes DEF OpenGrant

LEMMA DecisionTypes ==
    ASSUME NEW K, OwnUnit(K) \in Rule, NEW units \in SUBSET Rule
    PROVE  /\ ExclusiveDecision(K, units) \in Decision /\ CombinedDecision(K, units) \in Decision
           /\ Unrestricted \in Decision /\ Refused \in Decision
<1>1. Unrestricted \in Decision BY RuleTypes DEF Unrestricted, Decision
<1>2. Refused \in Decision BY <1>1 DEF Refused, Decision
<1>3. ExclusiveDecision(K, units) \in Decision
  <2> DEFINE own == OwnUnit(K)
             base == Merged(units)
             open == OpenGrant(units)
             models == NarrowedModels(base.models, own.models)
             rule == [base EXCEPT !.noModels = @ \cup own.noModels, !.noCreds = @ \cup own.noCreds,
                                  !.noProviders = @ \cup own.noProviders]
             constraint == Constraint(K)
             basis == [Unrestricted EXCEPT !.require = TRUE, !.constraint = constraint]
  <2>1. base \in Rule /\ own \in Rule /\ open \in Rule BY MergedType, OpenGrantType
  <2>2. rule \in Rule
    <3> HIDE DEF base, own
    <3> QED BY <2>1 DEF Rule
  <2>3. constraint \in Rule \cup {Absent} BY DEF Constraint
  <2>4. models \in SUBSET Models
    <3>1. base.models \subseteq Models /\ own.models \subseteq Models
      <4> HIDE DEF base, own
      <4> QED BY <2>1 DEF Rule
    <3> QED BY <3>1 DEF NarrowedModels
  <2>5. own.models \in SUBSET Models
    <3> HIDE DEF own
    <3> QED BY <2>1 DEF Rule
  <2>6. basis \in Decision
    <3> HIDE DEF constraint
    <3> QED BY <1>1, <2>3 DEF Decision
  <2>7. ExclusiveDecision(K, units) =
            IF HasOpen(open)
            THEN [basis EXCEPT !.rule = [rule EXCEPT !.models = own.models], !.open = open, !.paired = models]
            ELSE IF base.models # {} /\ models = {} THEN Refused
            ELSE [basis EXCEPT !.rule = [rule EXCEPT !.models = models]]
      BY DEF ExclusiveDecision
  <2>8. \A list \in SUBSET Models : [rule EXCEPT !.models = list] \in Rule
    <3> HIDE DEF rule
    <3> QED BY <2>2 DEF Rule
  <2>9. \A r \in Rule : /\ [basis EXCEPT !.rule = r] \in Decision
                        /\ \A p \in Rule, q \in SUBSET Models :
                              [basis EXCEPT !.rule = r, !.open = p, !.paired = q] \in Decision
    <3> HIDE DEF basis
    <3> QED BY <2>6 DEF Decision
  <2> HIDE DEF own, base, open, models, rule, basis
  <2>10. CASE HasOpen(open)
    <3> DEFINE r == [rule EXCEPT !.models = own.models]
    <3>1. r \in Rule BY <2>5, <2>8
    <3>2. ExclusiveDecision(K, units) = [basis EXCEPT !.rule = r, !.open = open, !.paired = models]
        BY <2>7, <2>10
    <3> HIDE DEF r
    <3>3. [basis EXCEPT !.rule = r, !.open = open, !.paired = models] \in Decision
        BY <2>1, <2>4, <2>9, <3>1, Zenon
    <3> QED BY <3>2, <3>3, Zenon
  <2>11. CASE ~HasOpen(open) /\ base.models # {} /\ models = {} BY <1>2, <2>7, <2>11
  <2>12. CASE ~HasOpen(open) /\ ~(base.models # {} /\ models = {})
    <3> DEFINE r == [rule EXCEPT !.models = models]
    <3>1. r \in Rule BY <2>4, <2>8
    <3>2. ExclusiveDecision(K, units) = [basis EXCEPT !.rule = r] BY <2>7, <2>12
    <3> HIDE DEF r
    <3> QED BY <2>9, <3>1, <3>2
  <2> QED BY <2>10, <2>11, <2>12
<1>4. CombinedDecision(K, units) \in Decision
  <2> DEFINE all == units \cup {OwnUnit(K)}
             base == Merged(all)
             open == OpenGrant(all)
             managed == K.configured \/ K.groups # {} \/ K.routes # {} \/ K.rule # EmptyRule
             basis == [Unrestricted EXCEPT !.require = managed, !.rule = base]
  <2>1. base \in Rule /\ open \in Rule BY MergedType, OpenGrantType
  <2>2. managed \in BOOLEAN OBVIOUS
  <2>3. basis \in Decision
    <3> HIDE DEF managed, base
    <3> QED BY <1>1, <2>1, <2>2 DEF Decision
  <2>4. [base EXCEPT !.models = {}] \in Rule /\ base.models \in SUBSET Models
    <3> HIDE DEF base
    <3> QED BY <2>1 DEF Rule
  <2>5. \A p \in Rule, q \in SUBSET Models :
            [basis EXCEPT !.rule.models = {}, !.open = p, !.paired = q] \in Decision
    <3>1. basis.rule = base
      <4> HIDE DEF managed, base
      <4> QED BY DEF Unrestricted
    <3> HIDE DEF basis, base
    <3> QED BY <2>3, <2>4, <3>1 DEF Decision
  <2>6. CombinedDecision(K, units) =
            IF HasOpen(open) THEN [basis EXCEPT !.rule.models = {}, !.open = open, !.paired = base.models]
            ELSE basis
      BY DEF CombinedDecision
  <2> HIDE DEF all, base, open, managed, basis
  <2> QED BY <2>1, <2>3, <2>4, <2>5, <2>6
<1> QED BY <1>1, <1>2, <1>3, <1>4

\* What a decision allows.
LEMMA AllowedFields ==
    ASSUME NEW d \in Decision, NEW m, NEW c
    PROVE  LET narrow == HasOpen(d.open) /\ m \notin d.paired IN
           AllowedUnder(d, m, c) <=>
              /\ ~d.error /\ ~d.denied
              /\ m \notin d.rule.noModels /\ (d.rule.models = {} \/ m \in d.rule.models)
              /\ d.constraint = Absent \/ RuleAllows(d.constraint, c, TRUE)
              /\ ~Denies(d.rule, c)
              /\ \/ narrow /\ Lists(d.open, c)
                 \/ ~narrow /\ Lists(d.rule, c)
                 \/ ~d.require /\ ~narrow /\ ~Grants(d.rule)
<1> DEFINE n == [d EXCEPT !.rule.creds = d.open.creds, !.rule.providers = d.open.providers]
<1>1. /\ n.error = d.error /\ n.denied = d.denied /\ n.require = d.require /\ n.constraint = d.constraint
      /\ n.rule.models = d.rule.models /\ n.rule.noModels = d.rule.noModels /\ n.rule.noCreds = d.rule.noCreds
      /\ n.rule.noProviders = d.rule.noProviders
      /\ n.rule.creds = d.open.creds /\ n.rule.providers = d.open.providers
    BY DEF Decision, Rule
<1> HIDE DEF n
<1>2. CASE HasOpen(d.open) /\ m \notin d.paired
  <2>1. NarrowedTo(d, m) = n BY <1>2 DEF NarrowedTo, n
  <2>2. Lists(n.rule, c) <=> Lists(d.open, c) BY <1>1 DEF Lists
  <2>3. Grants(n.rule) BY <1>1, <1>2 DEF HasOpen, Grants
  <2>4. Denies(n.rule, c) <=> Denies(d.rule, c) BY <1>1 DEF Denies
  <2>5. AllowsModel(n, m) <=> /\ ~d.error /\ ~d.denied /\ m \notin d.rule.noModels
                              /\ d.rule.models = {} \/ m \in d.rule.models
      BY <1>1 DEF AllowsModel
  <2>6. AllowsCredential(n, c) <=>
            /\ ~d.error /\ ~d.denied /\ (d.constraint = Absent \/ RuleAllows(d.constraint, c, TRUE))
            /\ ~Denies(d.rule, c) /\ Lists(d.open, c)
    <3>1. RuleAllows(n.rule, c, n.require) <=> ~Denies(d.rule, c) /\ Lists(d.open, c)
        BY <2>2, <2>3, <2>4 DEF RuleAllows
    <3> QED BY <1>1, <3>1 DEF AllowsCredential
  <2> QED BY <1>2, <2>1, <2>5, <2>6 DEF AllowedUnder
<1>3. CASE ~(HasOpen(d.open) /\ m \notin d.paired)
  <2>1. NarrowedTo(d, m) = d BY <1>3 DEF NarrowedTo
  <2>2. AllowedUnder(d, m, c) <=> AllowsModel(d, m) /\ AllowsCredential(d, c) BY <2>1 DEF AllowedUnder
  <2>3. RuleAllows(d.rule, c, d.require) <=>
            ~Denies(d.rule, c) /\ (Lists(d.rule, c) \/ (~d.require /\ ~Grants(d.rule)))
      BY DEF RuleAllows
  <2> QED BY <1>3, <2>2, <2>3 DEF AllowsModel, AllowsCredential
<1> QED BY <1>2, <1>3

\* What a key is bound to can be resolved: it is refused, or decided with or without an exclusive
\* group.
RefusesAll(K) ==
    \/ K.groups = {} /\ access.denyUngrouped
    \/ K.groups # {} /\ \A g \in EffectiveGroups(K.groups) : ~GrantsAccess(g)
GroupUnits(K) == {GroupUnit(g) : g \in EffectiveGroups(K.groups)}
Bound(K) ==
    /\ K.routes \subseteq Present(route)
    /\ K.groups \in SUBSET Groups /\ K.groups \subseteq Present(group) /\ ~ConflictIn(group, K.groups)

LEMMA ResolveCases ==
    ASSUME RoutingInv, access.enabled, NEW K, Bound(K)
    PROVE  Resolve(K) = IF RefusesAll(K) THEN Refused
                        ELSE IF Exclusives(K.groups) # {} THEN ExclusiveDecision(K, GroupUnits(K))
                        ELSE CombinedDecision(K, GroupUnits(K))
<1>1. ~Conflicting(K.groups) /\ K.groups \subseteq Present(group)
    BY ConflictIsExclusives DEF RoutingInv, Bound
<1>2. K.routes \cup UNION {group[g].routes : g \in EffectiveGroups(K.groups)} \subseteq Present(route)
  <2>1. EffectiveGroups(K.groups) \subseteq Present(group) BY DEF EffectiveGroups, EnabledGroups
  <2>2. \A g \in EffectiveGroups(K.groups) : group[g].routes \subseteq Present(route)
      BY <2>1 DEF RoutingInv, Bindings
  <2> QED BY <2>2 DEF Bound
<1>3. CASE K.groups = {} /\ access.denyUngrouped BY <1>1, <1>3 DEF Resolve, RefusesAll
<1>4. CASE ~(K.groups = {} /\ access.denyUngrouped)
  <2>1. Resolve(K) =
            IF K.groups # {} /\ \A g \in EffectiveGroups(K.groups) : ~GrantsAccess(g) THEN Refused
            ELSE IF Exclusives(K.groups) # {} THEN ExclusiveDecision(K, GroupUnits(K))
            ELSE CombinedDecision(K, GroupUnits(K))
      BY <1>1, <1>2, <1>4 DEF Resolve, GroupUnits
  <2> QED BY <1>4, <2>1 DEF RefusesAll
<1> QED BY <1>3, <1>4

LEMMA KeysAreBound ==
    ASSUME RoutingInv, NEW k \in Keys
    PROVE  /\ key[k] \in KeyRecord /\ Bound(key[k])
           /\ Bound(Cleared(key[k])) /\ Cleared(key[k]) \in KeyRecord /\ Cleared(key[k]).groups = key[k].groups
           /\ Cleared(key[k]).routes = {} /\ Cleared(key[k]).rule = EmptyRule
<1>1. key[k] \in KeyRecord BY DEF RoutingInv, RoutingTypeOK
<1>2. key[k].groups \in SUBSET Groups BY <1>1 DEF KeyRecord
<1>3. Bound(key[k]) BY <1>2 DEF RoutingInv, Bindings, Bound
<1>4. /\ Cleared(key[k]).groups = key[k].groups /\ Cleared(key[k]).routes = {}
      /\ Cleared(key[k]).rule = EmptyRule /\ Cleared(key[k]) \in KeyRecord
    BY <1>1, RuleTypes DEF Cleared, KeyRecord
<1>5. Bound(Cleared(key[k])) BY <1>3, <1>4 DEF Bound
<1> QED BY <1>1, <1>3, <1>4, <1>5

\* The units of the groups are rules, and so is the key's own.
LEMMA UnitsAreRules ==
    ASSUME RoutingInv, NEW K \in KeyRecord
    PROVE  GroupUnits(K) \in SUBSET Rule /\ OwnUnit(K) \in Rule
<1>1. EffectiveGroups(K.groups) \subseteq Present(group) BY DEF EffectiveGroups, EnabledGroups
<1>2. \A g \in EffectiveGroups(K.groups) : GroupUnit(g) \in Rule BY <1>1, UnitTypes DEF RoutingInv
<1>3. OwnUnit(K) \in Rule BY UnitTypes DEF RoutingInv
<1> QED BY <1>2, <1>3 DEF GroupUnits

LEMMA RoutingStarts == RoutingInit => RoutingInv
<1> SUFFICES ASSUME RoutingInit PROVE RoutingInv OBVIOUS
<1>1. NewKey \in KeyRecord BY RuleTypes DEF NewKey, KeyRecord
<1>2. /\ \A k \in Keys : key[k] = NewKey
      /\ key = [k \in Keys |-> NewKey] /\ route = [r \in Routes |-> Absent] /\ group = [g \in Groups |-> Absent]
    BY DEF RoutingInit
<1>3. RoutingTypeOK
  <2>1. access \in [enabled : BOOLEAN, denyUngrouped : BOOLEAN] /\ rotating \subseteq Rotations BY DEF RoutingInit
  <2>2. key \in [Keys -> KeyRecord] BY <1>1, <1>2
  <2>3. route \in [Routes -> Rule \cup {Absent}] /\ group \in [Groups -> GroupRecord \cup {Absent}] BY <1>2
  <2> QED BY <2>1, <2>2, <2>3 DEF RoutingTypeOK
<1>4. Present(group) = {} BY <1>2 DEF Present
<1>5. ~ConflictIn(group, {})
  <2>1. {g \in {} : group[g] # Absent /\ ~group[g].disabled /\ group[g].mode = "exclusive"} = {} OBVIOUS
  <2> QED BY <2>1, FS_EmptySet DEF ConflictIn
<1>6. NewKey.routes = {} /\ NewKey.groups = {} BY DEF NewKey
<1>7. Bindings BY <1>2, <1>4, <1>5, <1>6 DEF Bindings
<1> QED BY <1>3, <1>7 DEF RoutingInv

\* What every key is bound to stays there.
LEMMA RoutingInvariant == RoutingSpec => []RoutingInv
<1>1. RoutingInv /\ [RoutingNext]_routingVars => RoutingInv'
    BY RoutingTypeStep, BindingsStep DEF RoutingInv
<1> QED BY <1>1, RoutingStarts, PTL DEF RoutingSpec

LEMMA InvResolves == RoutingInv => RoutingResolves
<1> SUFFICES ASSUME RoutingInv, NEW k \in Keys PROVE ~Resolve(key[k]).error BY DEF RoutingResolves
<1>1. Bound(key[k]) BY KeysAreBound
<1>2. ~Unrestricted.error BY DEF Unrestricted
<1>3. ~Refused.error BY <1>2 DEF Refused, Unrestricted
<1>4. ~CombinedDecision(key[k], GroupUnits(key[k])).error BY CombinedFields DEF CombinedFrom, Managed
<1>5. ~ExclusiveDecision(key[k], GroupUnits(key[k])).error BY <1>3, ExclusiveFields DEF ExclusiveFrom
<1>6. CASE ~access.enabled BY <1>2, <1>6 DEF Resolve
<1>7. CASE access.enabled BY <1>1, <1>3, <1>4, <1>5, <1>7, ResolveCases
<1> QED BY <1>6, <1>7

\* No edit leaves a key whose rules cannot be resolved.
THEOREM RulesResolve == RoutingSpec => []RoutingResolves
<1> QED BY RoutingInvariant, InvResolves, PTL

LEMMA RefusedAllowsNothing == \A m, c : ~AllowedUnder(Refused, m, c)
<1>1. Refused \in Decision BY RuleTypes DEF Unrestricted, Refused, Decision
<1>2. Refused.denied BY DEF Unrestricted, Refused
<1> QED BY <1>1, <1>2, AllowedFields

\* The three ways a key of a configured instance is decided, and the grants that count for it.
LEMMA KeyDecided ==
    ASSUME RoutingInv, access.enabled, NEW k \in Keys
    PROVE  LET K == key[k]
               units == GroupUnits(K)
               d == Resolve(K)
           IN /\ units \in SUBSET Rule /\ OwnUnit(K) \in Rule /\ d \in Decision
              /\ UnitsOf(K) = IF Exclusives(K.groups) = {} THEN units \cup {OwnUnit(K)} ELSE units
              /\ \/ d = Refused
                 \/ Exclusives(K.groups) # {} /\ d = ExclusiveDecision(K, units)
                 \/ Exclusives(K.groups) = {} /\ d = CombinedDecision(K, units)
<1> DEFINE K == key[k]
           units == GroupUnits(K)
           d == Resolve(K)
<1>1. K \in KeyRecord /\ Bound(K) BY KeysAreBound
<1>2. units \in SUBSET Rule /\ OwnUnit(K) \in Rule BY <1>1, UnitsAreRules
<1>3. UnitsOf(K) = IF Exclusives(K.groups) = {} THEN units \cup {OwnUnit(K)} ELSE units
    BY DEF UnitsOf, GroupUnits
<1>4. \/ d = Refused
      \/ Exclusives(K.groups) # {} /\ d = ExclusiveDecision(K, units)
      \/ Exclusives(K.groups) = {} /\ d = CombinedDecision(K, units)
    BY <1>1, ResolveCases
<1>5. d \in Decision BY <1>2, <1>4, DecisionTypes
<1> QED BY <1>2, <1>3, <1>4, <1>5

\* A denial of any rule that counts wins.
LEMMA InvDenials == RoutingInv => DenialsWin
<1> SUFFICES ASSUME RoutingInv, access.enabled, NEW k \in Keys,
                    NEW u \in UnitsOf(key[k]) \cup {OwnUnit(key[k])}, NEW m \in Models, NEW c \in Credentials,
                    m \in u.noModels \/ Denies(u, c), AllowedUnder(Resolve(key[k]), m, c)
             PROVE  FALSE
    BY DEF DenialsWin
<1> DEFINE K == key[k]
           units == GroupUnits(K)
           own == OwnUnit(K)
           d == Resolve(K)
<1>1. /\ d \in Decision
      /\ UnitsOf(K) = IF Exclusives(K.groups) = {} THEN units \cup {own} ELSE units
      /\ \/ d = Refused
         \/ Exclusives(K.groups) # {} /\ d = ExclusiveDecision(K, units)
         \/ Exclusives(K.groups) = {} /\ d = CombinedDecision(K, units)
    BY KeyDecided
<1>2. m \notin d.rule.noModels /\ ~Denies(d.rule, c) /\ d # Refused
  <2> HIDE DEF d
  <2>1. AllowedUnder(d, m, c) BY DEF d
  <2>2. d \in Decision BY <1>1
  <2>3. m \notin d.rule.noModels /\ ~Denies(d.rule, c) BY <2>1, <2>2, AllowedFields
  <2> QED BY <2>1, <2>3, RefusedAllowsNothing
<1>3. u \in units \cup {own} BY <1>1
<1>4. CASE Exclusives(K.groups) # {} /\ d = ExclusiveDecision(K, units)
  <2>1. \/ d = Refused
        \/ /\ d.rule.noModels = Merged(units).noModels \cup own.noModels
           /\ d.rule.noCreds = Merged(units).noCreds \cup own.noCreds
           /\ d.rule.noProviders = Merged(units).noProviders \cup own.noProviders
      BY <1>4, ExclusiveFields DEF ExclusiveFrom
  <2>2. u \in units => /\ m \in u.noModels => m \in Merged(units).noModels
                       /\ Denies(u, c) => Denies(Merged(units), c)
    <3> HIDE DEF units
    <3> QED BY MergedFields
  <2>3. m \notin Merged(units).noModels /\ m \notin own.noModels BY <1>2, <2>1
  <2>4. ~Denies(Merged(units), c) /\ ~Denies(own, c)
    <3> HIDE DEF units, own, d
    <3> QED BY <1>2, <2>1 DEF Denies
  <2> HIDE DEF units, own, d
  <2> QED BY <1>3, <2>2, <2>3, <2>4
<1>5. CASE Exclusives(K.groups) = {} /\ d = CombinedDecision(K, units)
  <2> DEFINE all == units \cup {own}
  <2>1. /\ d.rule.noModels = Merged(all).noModels /\ d.rule.noCreds = Merged(all).noCreds
        /\ d.rule.noProviders = Merged(all).noProviders
      BY <1>5, CombinedFields DEF CombinedFrom, Managed
  <2>2. /\ m \in u.noModels => m \in Merged(all).noModels
        /\ Denies(u, c) => Denies(Merged(all), c)
    <3>1. u \in all BY <1>3
    <3> HIDE DEF all
    <3> QED BY <3>1, MergedFields
  <2>3. Denies(d.rule, c) <=> Denies(Merged(all), c)
    <3> HIDE DEF all, d
    <3> QED BY <2>1 DEF Denies
  <2> HIDE DEF all, d
  <2> QED BY <1>2, <2>1, <2>2, <2>3
<1> QED BY <1>1, <1>2, <1>4, <1>5

\* What a managed key may use was granted to it.
LEMMA InvGranted == RoutingInv => AccessIsGranted
<1> SUFFICES ASSUME RoutingInv, access.enabled, NEW k \in Keys, key[k].groups # {} \/ key[k].configured,
                    NEW m \in Models, NEW c \in Credentials, AllowedUnder(Resolve(key[k]), m, c)
             PROVE  \E u \in UnitsOf(key[k]) :
                        /\ Lists(u, c)
                        /\ \/ \E v \in UnitsOf(key[k]) : m \in v.models
                           \/ u.models = {} /\ \A v \in UnitsOf(key[k]) : v.models # {} => Grants(v)
    BY DEF AccessIsGranted
<1> DEFINE K == key[k]
           units == GroupUnits(K)
           all == UnitsOf(K)
           base == Merged(all)
           open == OpenGrant(all)
           d == Resolve(K)
<1>1. /\ d \in Decision
      /\ UnitsOf(K) = IF Exclusives(K.groups) = {} THEN units \cup {OwnUnit(K)} ELSE units
      /\ \/ d = Refused
         \/ Exclusives(K.groups) # {} /\ d = ExclusiveDecision(K, units)
         \/ Exclusives(K.groups) = {} /\ d = CombinedDecision(K, units)
      /\ all \in SUBSET Rule
    BY KeyDecided
<1>2. d # Refused
  <2> HIDE DEF d
  <2>1. AllowedUnder(d, m, c) BY DEF d
  <2> QED BY <2>1, RefusedAllowsNothing
\* In either way the rule of the decision grants what the grants do.
<1>3. /\ d.require /\ d.rule.creds = base.creds /\ d.rule.providers = base.providers
      /\ HasOpen(open) => d.open = open /\ d.paired \subseteq base.models
      /\ ~HasOpen(open) => /\ d.open = EmptyRule
                           /\ base.models # {} => d.rule.models # {} /\ d.rule.models \subseteq base.models
  <2>1. CASE Exclusives(K.groups) # {} /\ d = ExclusiveDecision(K, units)
    <3> DEFINE models == NarrowedModels(base.models, OwnUnit(K).models)
    <3>1. all = units BY <1>1, <2>1
    <3>2. base.models # {} => models \subseteq base.models BY DEF NarrowedModels
    <3>3. \/ ~HasOpen(open) /\ base.models # {} /\ models = {}
          \/ /\ d.require /\ d.rule.creds = base.creds /\ d.rule.providers = base.providers
             /\ HasOpen(open) => d.open = open /\ d.paired = models
             /\ ~HasOpen(open) => d.open = EmptyRule /\ d.rule.models = models
        BY <2>1, <3>1, ExclusiveFields DEF ExclusiveFrom
    <3>4. ~(~HasOpen(open) /\ base.models # {} /\ models = {}) BY <1>2, <2>1, <3>1, ExclusiveFields DEF ExclusiveFrom
    <3>5. HasOpen(open) => base.models # {}
      <4>1. HasOpen(open) => \E u \in all : u.models # {}
        <5> HIDE DEF all
        <5> QED BY OpenGrantFields
      <4>2. \A x : x \in base.models <=> \E r \in all : x \in r.models
        <5> HIDE DEF all
        <5> QED BY MergedFields
      <4> HIDE DEF all, base, open
      <4> QED BY <4>1, <4>2
    <3> HIDE DEF all, base, open, models, d
    <3> QED BY <3>2, <3>3, <3>4, <3>5
  <2>2. CASE Exclusives(K.groups) = {} /\ d = CombinedDecision(K, units)
    <3>1. all = units \cup {OwnUnit(K)} BY <1>1, <2>2
    <3>2. /\ d.require <=> K.configured \/ K.groups # {} \/ K.routes # {} \/ K.rule # EmptyRule
          /\ d.rule.creds = base.creds /\ d.rule.providers = base.providers
          /\ HasOpen(open) => d.open = open /\ d.paired = base.models
          /\ ~HasOpen(open) => d.open = EmptyRule /\ d.rule.models = base.models
        BY <2>2, <3>1, CombinedFields DEF CombinedFrom, Managed
    <3> QED BY <3>2
  <2> QED BY <1>1, <1>2, <2>1, <2>2
<1>4. LET narrow == HasOpen(d.open) /\ m \notin d.paired IN
      /\ d.rule.models = {} \/ m \in d.rule.models
      /\ \/ narrow /\ Lists(d.open, c)
         \/ ~narrow /\ Lists(d.rule, c)
         \/ ~d.require /\ ~narrow /\ ~Grants(d.rule)
  <2> HIDE DEF d
  <2>1. AllowedUnder(d, m, c) BY DEF d
  <2> QED BY <1>1, <2>1, AllowedFields
<1>5. ~HasOpen(EmptyRule) BY DEF HasOpen, Grants, EmptyRule
<1>6. /\ \A x : x \in base.models <=> \E r \in all : x \in r.models
      /\ \A x : Lists(base, x) <=> \E r \in all : Lists(r, x)
  <2> HIDE DEF all
  <2> QED BY MergedFields
<1>7. HasOpen(open) => /\ \A u \in all : u.models # {} => Grants(u)
                       /\ \A x : Lists(open, x) => \E u \in all : u.models = {} /\ Lists(u, x)
  <2> HIDE DEF all
  <2> QED BY OpenGrantFields
<1>8. Lists(d.rule, c) <=> Lists(base, c)
  <2> HIDE DEF base, d
  <2> QED BY <1>3 DEF Lists
<1> HIDE DEF all, base, open, d
<1>9. CASE HasOpen(open) /\ m \notin d.paired
  <2>1. Lists(open, c) BY <1>3, <1>4, <1>9
  <2>2. PICK u \in all : u.models = {} /\ Lists(u, c) BY <1>7, <1>9, <2>1
  <2> QED BY <1>7, <1>9, <2>2 DEF all
<1>10. CASE HasOpen(open) /\ m \in d.paired
  <2>1. Lists(d.rule, c) /\ m \in base.models BY <1>3, <1>4, <1>10
  <2>2. PICK u \in all : Lists(u, c) BY <1>6, <1>8, <2>1
  <2>3. PICK v \in all : m \in v.models BY <1>6, <2>1
  <2> QED BY <2>2, <2>3 DEF all
<1>11. CASE ~HasOpen(open)
  <2>1. Lists(d.rule, c) /\ (base.models # {} => m \in base.models) BY <1>3, <1>4, <1>5, <1>11
  <2>2. PICK u \in all : Lists(u, c) BY <1>6, <1>8, <2>1
  <2>3. CASE base.models # {}
    <3>1. PICK v \in all : m \in v.models BY <1>6, <2>1, <2>3
    <3> QED BY <2>2, <3>1 DEF all
  <2>4. CASE base.models = {}
    <3>1. \A v \in all : v.models = {}
      <4> SUFFICES ASSUME NEW v \in all PROVE v.models = {} OBVIOUS
      <4>1. v.models \subseteq Models BY <1>1 DEF Rule
      <4>2. \A x : x \notin v.models BY <1>6, <2>4
      <4> QED BY <4>2
    <3> QED BY <2>2, <3>1 DEF all
  <2> QED BY <2>3, <2>4
<1> QED BY <1>9, <1>10, <1>11

\* Under an exclusive group what the key itself is given only narrows.
LEMMA InvNarrows == RoutingInv => OwnRulesOnlyNarrow
<1> SUFFICES ASSUME RoutingInv, access.enabled, NEW k \in Keys, Exclusives(key[k].groups) # {},
                    NEW m \in Models, NEW c \in Credentials, AllowedUnder(Resolve(key[k]), m, c)
             PROVE  AllowedUnder(Resolve(Cleared(key[k])), m, c)
    BY DEF OwnRulesOnlyNarrow
<1> DEFINE K == key[k]
           C == Cleared(K)
           units == GroupUnits(K)
           base == Merged(units)
           open == OpenGrant(units)
           own == OwnUnit(K)
           models == NarrowedModels(base.models, own.models)
           d == Resolve(K)
           e == Resolve(C)
<1>1. /\ K \in KeyRecord /\ Bound(K) /\ C \in KeyRecord /\ Bound(C)
      /\ C.groups = K.groups /\ C.routes = {} /\ C.rule = EmptyRule
    BY KeysAreBound
<1>2. GroupUnits(C) = units /\ (RefusesAll(C) <=> RefusesAll(K)) BY <1>1 DEF GroupUnits, RefusesAll
<1>3. d # Refused
  <2> HIDE DEF d
  <2>1. AllowedUnder(d, m, c) BY DEF d
  <2> QED BY <2>1, RefusedAllowsNothing
<1>4. d = ExclusiveDecision(K, units) /\ e = ExclusiveDecision(C, units)
  <2>1. d = ExclusiveDecision(K, units) /\ ~RefusesAll(K) BY <1>1, <1>3, ResolveCases
  <2>2. Exclusives(C.groups) # {} /\ ~RefusesAll(C) BY <1>1, <1>2, <2>1
  <2> QED BY <1>1, <1>2, <2>1, <2>2, ResolveCases
<1>5. units \in SUBSET Rule /\ own \in Rule /\ OwnUnit(C) \in Rule BY <1>1, UnitsAreRules
<1>6. d \in Decision /\ e \in Decision BY <1>4, <1>5, DecisionTypes
\* A cleared key says nothing of its own.
<1>7. OwnUnit(C) = EmptyRule
  <2>1. {route[r] : r \in {} \cap Present(route)} \cup {EmptyRule} = {EmptyRule} OBVIOUS
  <2>2. Merged({EmptyRule}) = EmptyRule BY DEF Merged, EmptyRule
  <2> QED BY <1>1, <2>1, <2>2 DEF OwnUnit, Unit
<1>8. Constraint(C) = Absent
  <2>1. ~Grants(EmptyRule) BY DEF Grants, EmptyRule
  <2> QED BY <1>1, <1>7, <2>1 DEF Constraint
<1>9. NarrowedModels(base.models, EmptyRule.models) = base.models BY DEF NarrowedModels, EmptyRule
<1>10. /\ EmptyRule.models = {} /\ EmptyRule.noModels = {} /\ EmptyRule.noCreds = {} /\ EmptyRule.noProviders = {}
       /\ ~HasOpen(EmptyRule)
    BY DEF EmptyRule, HasOpen, Grants
<1>11. /\ HasOpen(open) \/ base.models = {} \/ models # {}
       /\ d.require
       /\ d.rule.creds = base.creds /\ d.rule.providers = base.providers
       /\ d.rule.noModels = base.noModels \cup own.noModels
       /\ d.rule.noCreds = base.noCreds \cup own.noCreds
       /\ d.rule.noProviders = base.noProviders \cup own.noProviders
       /\ HasOpen(open) => d.rule.models = own.models /\ d.open = open /\ d.paired = models
       /\ ~HasOpen(open) => d.rule.models = models /\ d.open = EmptyRule /\ d.paired = {}
  <2>1. HasOpen(open) \/ base.models = {} \/ models # {} BY <1>3, <1>4, ExclusiveFields DEF ExclusiveFrom
  <2> QED BY <1>4, <2>1, ExclusiveFields DEF ExclusiveFrom
<1>12. /\ ~e.error /\ ~e.denied /\ e.require /\ e.constraint = Absent
       /\ e.rule.creds = base.creds /\ e.rule.providers = base.providers
       /\ e.rule.noModels = base.noModels /\ e.rule.noCreds = base.noCreds
       /\ e.rule.noProviders = base.noProviders
       /\ HasOpen(open) => e.rule.models = {} /\ e.open = open /\ e.paired = base.models
       /\ ~HasOpen(open) => e.rule.models = base.models /\ e.open = EmptyRule /\ e.paired = {}
  <2> DEFINE narrowed == NarrowedModels(base.models, OwnUnit(C).models)
  <2>1. narrowed = base.models BY <1>7, <1>9
  <2>2. HasOpen(open) \/ base.models = {} \/ narrowed # {} BY <2>1
  <2>3. /\ ~e.error /\ ~e.denied /\ e.require /\ e.constraint = Constraint(C)
        /\ e.rule.creds = base.creds /\ e.rule.providers = base.providers
        /\ e.rule.noModels = base.noModels \cup OwnUnit(C).noModels
        /\ e.rule.noCreds = base.noCreds \cup OwnUnit(C).noCreds
        /\ e.rule.noProviders = base.noProviders \cup OwnUnit(C).noProviders
        /\ HasOpen(open) => e.rule.models = OwnUnit(C).models /\ e.open = open /\ e.paired = narrowed
        /\ ~HasOpen(open) => e.rule.models = narrowed /\ e.open = EmptyRule /\ e.paired = {}
      BY <1>4, <2>2, ExclusiveFields DEF ExclusiveFrom
  <2> HIDE DEF base, open, narrowed, e
  <2> QED BY <1>7, <1>8, <1>10, <2>1, <2>3
<1>13. LET narrow == HasOpen(d.open) /\ m \notin d.paired IN
       /\ m \notin d.rule.noModels /\ (d.rule.models = {} \/ m \in d.rule.models)
       /\ ~Denies(d.rule, c)
       /\ \/ narrow /\ Lists(d.open, c)
          \/ ~narrow /\ Lists(d.rule, c)
          \/ ~d.require /\ ~narrow /\ ~Grants(d.rule)
  <2> HIDE DEF d
  <2>1. AllowedUnder(d, m, c) BY DEF d
  <2> QED BY <1>6, <2>1, AllowedFields
\* Both decisions list the same credentials, and the key's own denials are gone.
<1>14. /\ Lists(e.rule, c) <=> Lists(d.rule, c)
       /\ ~Denies(e.rule, c)
       /\ m \notin e.rule.noModels
  <2> HIDE DEF d, e, base, own
  <2>1. Lists(e.rule, c) <=> Lists(d.rule, c) BY <1>11, <1>12 DEF Lists
  <2>2. ~Denies(e.rule, c) BY <1>11, <1>12, <1>13 DEF Denies
  <2>3. m \notin e.rule.noModels BY <1>11, <1>12, <1>13
  <2> QED BY <2>1, <2>2, <2>3
\* The models that the key is left with are among those it had.
<1>15. /\ base.models # {} => models \subseteq base.models
       /\ own.models = {} => models = base.models
       /\ own.models # {} /\ base.models # {} => models = base.models \cap own.models
  <2> DEFINE b == base.models
             o == own.models
  <2>1. /\ b # {} => NarrowedModels(b, o) \subseteq b
        /\ o = {} => NarrowedModels(b, o) = b
        /\ o # {} /\ b # {} => NarrowedModels(b, o) = b \cap o
      BY DEF NarrowedModels
  <2> QED BY <2>1
<1>16. HasOpen(open) => base.models # {}
  <2>1. HasOpen(open) => \E u \in units : u.models # {}
    <3> HIDE DEF units
    <3> QED BY OpenGrantFields
  <2>2. \A x : x \in base.models <=> \E r \in units : x \in r.models
    <3> HIDE DEF units
    <3> QED BY MergedFields
  <2>3. ASSUME HasOpen(open), base.models = {} PROVE FALSE
    <3>1. PICK u \in units : u.models # {} BY <2>1, <2>3
    <3>2. u.models \subseteq Models BY <1>5 DEF Rule
    <3>3. PICK x : x \in u.models BY <3>1
    <3> HIDE DEF units, base, open
    <3> QED BY <2>2, <2>3, <3>3
  <2> QED BY <2>3
<1> HIDE DEF K, C, units, base, open, own, models, d, e
<1>17. /\ e.rule.models = {} \/ m \in e.rule.models
       /\ LET narrow == HasOpen(e.open) /\ m \notin e.paired IN
          \/ narrow /\ Lists(e.open, c)
          \/ ~narrow /\ Lists(e.rule, c)
  <2>1. CASE HasOpen(open)
    <3>1. m \in d.paired <=> m \in e.paired BY <1>11, <1>12, <1>13, <1>15, <1>16, <2>1
    <3>2. /\ d.require /\ d.open = open /\ e.open = open /\ e.rule.models = {}
          /\ Lists(e.rule, c) <=> Lists(d.rule, c)
        BY <1>11, <1>12, <1>14, <2>1
    <3>3. \/ m \notin d.paired /\ Lists(open, c)
          \/ m \in d.paired /\ Lists(d.rule, c)
        BY <1>13, <2>1, <3>2
    <3> QED BY <2>1, <3>1, <3>2, <3>3
  <2>2. CASE ~HasOpen(open)
    <3>1. e.rule.models = {} \/ m \in e.rule.models BY <1>11, <1>12, <1>13, <1>15, <2>2
    <3>2. Lists(e.rule, c) /\ ~HasOpen(e.open) BY <1>10, <1>11, <1>12, <1>13, <1>14, <2>2
    <3> QED BY <3>1, <3>2
  <2> QED BY <2>1, <2>2
<1>18. AllowedUnder(e, m, c) BY <1>6, <1>12, <1>14, <1>17, AllowedFields
<1> QED BY <1>18 DEF e, C, K

\* What a key may use follows from its rules: granted by one that counts, denied by none, and
\* under an exclusive group never widened by the key's own.
THEOREM AccessFollows == RoutingSpec => []AccessFollowsRules
<1>1. RoutingInv => AccessFollowsRules BY InvGranted, InvDenials, InvNarrows DEF AccessFollowsRules
<1> QED BY <1>1, RoutingInvariant, PTL
-----------------------------------------------------------------------------

(* A rule that says of the new credential what the other says of the old one. *)
Carries(s, r, old, new) ==
    /\ s.models = r.models /\ s.noModels = r.noModels
    /\ s.providers = r.providers /\ s.noProviders = r.noProviders
    /\ s.creds = {} <=> r.creds = {}
    /\ new \in s.creds <=> old \in r.creds
    /\ new \in s.noCreds <=> old \in r.noCreds

(* Two sets of rules of which each rule of one carries over a rule of the other. *)
CarryEachOther(S, R, old, new) ==
    /\ \A r \in R : \E s \in S : Carries(s, r, old, new)
    /\ \A s \in S : \E r \in R : Carries(s, r, old, new)

\* A rule that does not mention the new credential is carried over by adding it beside the old one.
LEMMA ReplacedCarries ==
    ASSUME NEW r \in Rule, NEW old \in Credentials, NEW new \in Credentials, old # new,
           new \notin r.creds \cup r.noCreds
    PROVE  LET s == RuleReplaced(r, old, new, FALSE) IN
           s \in Rule /\ Carries(s, r, old, new) /\ (s = EmptyRule <=> r = EmptyRule)
<1> DEFINE s == RuleReplaced(r, old, new, FALSE)
<1>1. s \in Rule BY RuleTypes
<1>2. /\ s.models = r.models /\ s.noModels = r.noModels
      /\ s.providers = r.providers /\ s.noProviders = r.noProviders
      /\ s.creds = Replaced(r.creds, old, new, FALSE) /\ s.noCreds = Replaced(r.noCreds, old, new, FALSE)
    BY DEF RuleReplaced, Rule
<1> HIDE DEF s
<1>3. /\ s.creds = {} <=> r.creds = {}
      /\ s.noCreds = {} <=> r.noCreds = {}
      /\ new \in s.creds <=> old \in r.creds
      /\ new \in s.noCreds <=> old \in r.noCreds
    BY <1>2 DEF Replaced
<1>4. Carries(s, r, old, new) BY <1>2, <1>3 DEF Carries
<1>5. \A x \in Rule : x = EmptyRule <=> /\ x.models = {} /\ x.creds = {} /\ x.providers = {}
                                        /\ x.noModels = {} /\ x.noCreds = {} /\ x.noProviders = {}
    BY DEF Rule, EmptyRule
<1>6. s = EmptyRule <=> r = EmptyRule BY <1>1, <1>2, <1>3, <1>5
<1> QED BY <1>1, <1>4, <1>6 DEF s

\* A carried rule lists, denies and grants alike.
LEMMA CarriedSays ==
    ASSUME NEW s, NEW r, NEW old, NEW new, ProviderOf[old] = ProviderOf[new], Carries(s, r, old, new)
    PROVE  /\ Lists(s, new) <=> Lists(r, old)
           /\ Denies(s, new) <=> Denies(r, old)
           /\ Grants(s) <=> Grants(r)
           /\ \A require \in BOOLEAN : RuleAllows(s, new, require) <=> RuleAllows(r, old, require)
<1>1. Lists(s, new) <=> Lists(r, old) BY DEF Carries, Lists
<1>2. Denies(s, new) <=> Denies(r, old) BY DEF Carries, Denies
<1>3. Grants(s) <=> Grants(r) BY DEF Carries, Grants
<1> QED BY <1>1, <1>2, <1>3 DEF RuleAllows

\* Rules that carry each other merge into rules that do.
LEMMA MergedCarries ==
    ASSUME NEW S, NEW R, NEW old, NEW new, CarryEachOther(S, R, old, new)
    PROVE  Carries(Merged(S), Merged(R), old, new)
<1> DEFINE s == Merged(S)
           r == Merged(R)
<1>1. \A T : /\ Merged(T).models = UNION {x.models : x \in T}
             /\ Merged(T).creds = UNION {x.creds : x \in T}
             /\ Merged(T).providers = UNION {x.providers : x \in T}
             /\ Merged(T).noModels = UNION {x.noModels : x \in T}
             /\ Merged(T).noCreds = UNION {x.noCreds : x \in T}
             /\ Merged(T).noProviders = UNION {x.noProviders : x \in T}
    BY DEF Merged
<1>2. \A x \in R : \E y \in S : Carries(y, x, old, new) BY DEF CarryEachOther
<1>3. \A y \in S : \E x \in R : Carries(y, x, old, new) BY DEF CarryEachOther
<1>4. Merged(S).models = Merged(R).models
  <2>1. \A m : m \in Merged(S).models <=> m \in Merged(R).models BY <1>2, <1>3, MergedFields DEF Carries
  <2>2. Merged(S).models = UNION {x.models : x \in S} /\ Merged(R).models = UNION {x.models : x \in R} BY <1>1
  <2> QED BY <2>1, <2>2
<1>5. UNION {x.noModels : x \in S} = UNION {x.noModels : x \in R} BY <1>2, <1>3 DEF Carries
<1>6. UNION {x.providers : x \in S} = UNION {x.providers : x \in R} BY <1>2, <1>3 DEF Carries
<1>7. UNION {x.noProviders : x \in S} = UNION {x.noProviders : x \in R} BY <1>2, <1>3 DEF Carries
<1>8. UNION {x.creds : x \in S} = {} <=> UNION {x.creds : x \in R} = {}
  <2>1. \A T : UNION {x.creds : x \in T} = {} <=> \A x \in T : x.creds = {} OBVIOUS
  <2>2. (\A x \in S : x.creds = {}) <=> (\A x \in R : x.creds = {}) BY <1>2, <1>3 DEF Carries
  <2> QED BY <2>1, <2>2
<1>9. new \in UNION {x.creds : x \in S} <=> old \in UNION {x.creds : x \in R} BY <1>2, <1>3 DEF Carries
<1>10. new \in UNION {x.noCreds : x \in S} <=> old \in UNION {x.noCreds : x \in R} BY <1>2, <1>3 DEF Carries
<1>11. Merged(S).creds = {} <=> Merged(R).creds = {} BY <1>1, <1>8
<1>12. new \in Merged(S).creds <=> old \in Merged(R).creds BY <1>1, <1>9
<1>13. new \in Merged(S).noCreds <=> old \in Merged(R).noCreds BY <1>1, <1>10
<1>14. Merged(S).noModels = Merged(R).noModels BY <1>1, <1>5, Zenon
<1>15. Merged(S).providers = Merged(R).providers BY <1>1, <1>6, Zenon
<1>16. Merged(S).noProviders = Merged(R).noProviders BY <1>1, <1>7, Zenon
<1> QED BY <1>4, <1>11, <1>12, <1>13, <1>14, <1>15, <1>16 DEF Carries

\* So do the open grants among them.
LEMMA OpenCarries ==
    ASSUME NEW S, NEW R, NEW old, NEW new, ProviderOf[old] = ProviderOf[new], CarryEachOther(S, R, old, new)
    PROVE  /\ HasOpen(OpenGrant(S)) <=> HasOpen(OpenGrant(R))
           /\ HasOpen(OpenGrant(R)) => Carries(OpenGrant(S), OpenGrant(R), old, new)
<1>1. \A x \in R : \E y \in S : Carries(y, x, old, new) /\ (Grants(y) <=> Grants(x))
    BY CarriedSays DEF CarryEachOther
<1>2. \A y \in S : \E x \in R : Carries(y, x, old, new) /\ (Grants(y) <=> Grants(x))
    BY CarriedSays DEF CarryEachOther
<1>3. (\A u \in S : u.models # {} => Grants(u)) <=> (\A u \in R : u.models # {} => Grants(u))
    BY <1>1, <1>2 DEF Carries
<1>4. (\E u \in S : u.models # {}) <=> (\E u \in R : u.models # {}) BY <1>1, <1>2 DEF Carries
<1>5. CarryEachOther({u \in S : u.models = {}}, {u \in R : u.models = {}}, old, new)
  <2>1. \A x \in {u \in R : u.models = {}} : \E y \in {u \in S : u.models = {}} : Carries(y, x, old, new)
      BY <1>1 DEF Carries
  <2>2. \A y \in {u \in S : u.models = {}} : \E x \in {u \in R : u.models = {}} : Carries(y, x, old, new)
      BY <1>2 DEF Carries
  <2> QED BY <2>1, <2>2, Zenon DEF CarryEachOther
<1>6. Carries(Merged({u \in S : u.models = {}}), Merged({u \in R : u.models = {}}), old, new)
    BY <1>5, MergedCarries
<1>7. ~HasOpen(EmptyRule) BY DEF HasOpen, Grants, EmptyRule
<1>8. CASE (\A u \in R : u.models # {} => Grants(u)) /\ (\E u \in R : u.models # {})
  <2>1. /\ OpenGrant(S) = Merged({u \in S : u.models = {}})
        /\ OpenGrant(R) = Merged({u \in R : u.models = {}})
      BY <1>3, <1>4, <1>8 DEF OpenGrant
  <2>2. Carries(OpenGrant(S), OpenGrant(R), old, new) BY <1>6, <2>1
  <2>3. Grants(OpenGrant(S)) <=> Grants(OpenGrant(R)) BY <2>2, CarriedSays
  <2> QED BY <2>2, <2>3 DEF HasOpen
<1>9. CASE ~((\A u \in R : u.models # {} => Grants(u)) /\ (\E u \in R : u.models # {}))
  <2>1. OpenGrant(S) = EmptyRule /\ OpenGrant(R) = EmptyRule BY <1>3, <1>4, <1>9 DEF OpenGrant
  <2> QED BY <1>7, <2>1
<1> QED BY <1>8, <1>9

(* What an allowance for the new credential and one for the old one compare by. *)
DecidesAlike(e, d, old, new) ==
    /\ e.error <=> d.error
    /\ e.denied <=> d.denied
    /\ e.require <=> d.require
    /\ e.paired = d.paired
    /\ Carries(e.rule, d.rule, old, new)
    /\ HasOpen(e.open) <=> HasOpen(d.open)
    /\ HasOpen(d.open) => Carries(e.open, d.open, old, new)
    /\ e.constraint = Absent <=> d.constraint = Absent
    /\ d.constraint # Absent => Carries(e.constraint, d.constraint, old, new)

LEMMA AlikeAllows ==
    ASSUME NEW e \in Decision, NEW d \in Decision, NEW old, NEW new, ProviderOf[old] = ProviderOf[new],
           DecidesAlike(e, d, old, new), NEW m
    PROVE  AllowedUnder(e, m, new) <=> AllowedUnder(d, m, old)
<1>1. /\ Lists(e.rule, new) <=> Lists(d.rule, old)
      /\ Denies(e.rule, new) <=> Denies(d.rule, old)
      /\ Grants(e.rule) <=> Grants(d.rule)
  <2>1. Carries(e.rule, d.rule, old, new) BY DEF DecidesAlike
  <2> QED BY <2>1, CarriedSays
<1>2. HasOpen(d.open) => (Lists(e.open, new) <=> Lists(d.open, old))
  <2>1. HasOpen(d.open) => Carries(e.open, d.open, old, new) BY DEF DecidesAlike
  <2> QED BY <2>1, CarriedSays
<1>3. (e.constraint = Absent \/ RuleAllows(e.constraint, new, TRUE))
        <=> (d.constraint = Absent \/ RuleAllows(d.constraint, old, TRUE))
  <2>1. /\ e.constraint = Absent <=> d.constraint = Absent
        /\ d.constraint # Absent => Carries(e.constraint, d.constraint, old, new)
      BY DEF DecidesAlike
  <2> QED BY <2>1, CarriedSays
<1>4. /\ e.error <=> d.error
      /\ e.denied <=> d.denied
      /\ e.require <=> d.require
      /\ e.paired = d.paired /\ e.rule.models = d.rule.models /\ e.rule.noModels = d.rule.noModels
      /\ HasOpen(e.open) <=> HasOpen(d.open)
    BY DEF DecidesAlike, Carries
<1>5. HasOpen(e.open) /\ m \notin e.paired <=> HasOpen(d.open) /\ m \notin d.paired BY <1>4
<1>6. AllowedUnder(d, m, old) <=>
        LET narrow == HasOpen(d.open) /\ m \notin d.paired IN
              /\ ~d.error /\ ~d.denied
              /\ m \notin d.rule.noModels /\ (d.rule.models = {} \/ m \in d.rule.models)
              /\ d.constraint = Absent \/ RuleAllows(d.constraint, old, TRUE)
              /\ ~Denies(d.rule, old)
              /\ \/ narrow /\ Lists(d.open, old)
                 \/ ~narrow /\ Lists(d.rule, old)
                 \/ ~d.require /\ ~narrow /\ ~Grants(d.rule)
    BY AllowedFields
<1>7. AllowedUnder(e, m, new) <=>
        LET narrow == HasOpen(e.open) /\ m \notin e.paired IN
              /\ ~e.error /\ ~e.denied
              /\ m \notin e.rule.noModels /\ (e.rule.models = {} \/ m \in e.rule.models)
              /\ e.constraint = Absent \/ RuleAllows(e.constraint, new, TRUE)
              /\ ~Denies(e.rule, new)
              /\ \/ narrow /\ Lists(e.open, new)
                 \/ ~narrow /\ Lists(e.rule, new)
                 \/ ~e.require /\ ~narrow /\ ~Grants(e.rule)
    BY AllowedFields
<1> QED BY <1>1, <1>2, <1>3, <1>4, <1>5, <1>6, <1>7, Zenon

(* What a replacement that was prepared in this step has done to the rules. *)
LEMMA PreparedRules ==
    ASSUME RoutingTypeOK, NEW pair \in Rotations, MigrateRefs(pair, FALSE), ~Mentions(pair[2])
    PROVE  LET old == pair[1]
               new == pair[2]
           IN  /\ Present(route)' = Present(route)
               /\ \A r \in Present(route) : Carries(route'[r], route[r], old, new)
               /\ Present(group)' = Present(group)
               /\ \A g \in Present(group) :
                     /\ group'[g].disabled = group[g].disabled /\ group'[g].mode = group[g].mode
                     /\ group'[g].routes = group[g].routes
                     /\ Carries(group'[g].rule, group[g].rule, old, new)
                     /\ group'[g].rule = EmptyRule <=> group[g].rule = EmptyRule
               /\ \A k \in Keys :
                     /\ key'[k].groups = key[k].groups /\ key'[k].routes = key[k].routes
                     /\ key'[k].configured = key[k].configured
                     /\ Carries(key'[k].rule, key[k].rule, old, new)
                     /\ key'[k].rule = EmptyRule <=> key[k].rule = EmptyRule
<1> DEFINE old == pair[1]
           new == pair[2]
<1>1. old \in Credentials /\ new \in Credentials /\ old # new BY RoutingAssumption
<1>2. ASSUME NEW r \in Rule, new \notin r.creds \cup r.noCreds
      PROVE  LET s == RuleReplaced(r, old, new, FALSE) IN
             s \in Rule /\ Carries(s, r, old, new) /\ (s = EmptyRule <=> r = EmptyRule)
    BY <1>1, <1>2, ReplacedCarries
<1>3. /\ \A r \in Present(route) : new \notin route[r].creds \cup route[r].noCreds
      /\ \A g \in Present(group) : new \notin group[g].rule.creds \cup group[g].rule.noCreds
      /\ \A k \in Keys : new \notin key[k].rule.creds \cup key[k].rule.noCreds
    BY DEF Mentions
<1>4. /\ route' = [r \in Routes |-> IF route[r] = Absent THEN Absent ELSE RuleReplaced(route[r], old, new, FALSE)]
      /\ group' = [g \in Groups |-> IF group[g] = Absent THEN Absent
                                    ELSE [group[g] EXCEPT !.rule = RuleReplaced(@, old, new, FALSE)]]
      /\ key' = [k \in Keys |-> [key[k] EXCEPT !.rule = RuleReplaced(@, old, new, FALSE)]]
    BY DEF MigrateRefs
<1>5. /\ route \in [Routes -> Rule \cup {Absent}] /\ group \in [Groups -> GroupRecord \cup {Absent}]
      /\ key \in [Keys -> KeyRecord]
    BY DEF RoutingTypeOK
<1> HIDE DEF old, new
<1>6. \A r \in Present(route) : route'[r] \in Rule /\ Carries(route'[r], route[r], old, new)
  <2> SUFFICES ASSUME NEW r \in Present(route)
               PROVE  route'[r] \in Rule /\ Carries(route'[r], route[r], old, new)
      OBVIOUS
  <2>1. r \in Routes /\ route[r] # Absent /\ route[r] \in Rule BY <1>5 DEF Present
  <2>2. route'[r] = RuleReplaced(route[r], old, new, FALSE) BY <1>4, <2>1
  <2> QED BY <1>2, <1>3, <2>1, <2>2
<1>7. Present(route)' = Present(route)
  <2>1. DOMAIN route = Routes /\ DOMAIN route' = Routes BY <1>4, <1>5
  <2>2. \A r \in Routes : route[r] = Absent => route'[r] = Absent BY <1>4
  <2>3. \A r \in Routes : route[r] # Absent => route'[r] # Absent BY <1>6, <2>1, RoutingAssumption DEF Present
  <2> QED BY <2>1, <2>2, <2>3 DEF Present
<1>8. ASSUME NEW g \in Present(group)
      PROVE  /\ group'[g] \in GroupRecord
             /\ group'[g].disabled = group[g].disabled /\ group'[g].mode = group[g].mode
             /\ group'[g].routes = group[g].routes
             /\ Carries(group'[g].rule, group[g].rule, old, new)
             /\ group'[g].rule = EmptyRule <=> group[g].rule = EmptyRule
  <2>1. g \in Groups /\ group[g] # Absent /\ group[g] \in GroupRecord BY <1>5 DEF Present
  <2>2. group[g].rule \in Rule BY <2>1 DEF GroupRecord
  <2> DEFINE next == RuleReplaced(group[g].rule, old, new, FALSE)
  <2>3. next \in Rule /\ Carries(next, group[g].rule, old, new) /\ (next = EmptyRule <=> group[g].rule = EmptyRule)
      BY <1>2, <1>3, <2>2
  <2>4. group'[g] = [group[g] EXCEPT !.rule = next] BY <1>4, <2>1 DEF GroupRecord
  <2> HIDE DEF next
  <2>5. /\ group'[g] \in GroupRecord /\ group'[g].rule = next
        /\ group'[g].disabled = group[g].disabled /\ group'[g].mode = group[g].mode
        /\ group'[g].routes = group[g].routes
      BY <2>1, <2>3, <2>4 DEF GroupRecord
  <2> QED BY <2>3, <2>5
<1>9. Present(group)' = Present(group)
  <2>1. DOMAIN group = Groups /\ DOMAIN group' = Groups BY <1>4, <1>5
  <2>2. \A g \in Groups : group[g] = Absent => group'[g] = Absent BY <1>4
  <2>3. \A g \in Groups : group[g] # Absent => group'[g] # Absent BY <1>8, <2>1, RoutingAssumption DEF Present
  <2> QED BY <2>1, <2>2, <2>3 DEF Present
<1>10. ASSUME NEW k \in Keys
       PROVE  /\ key'[k].groups = key[k].groups /\ key'[k].routes = key[k].routes
              /\ key'[k].configured = key[k].configured
              /\ Carries(key'[k].rule, key[k].rule, old, new)
              /\ key'[k].rule = EmptyRule <=> key[k].rule = EmptyRule
  <2>1. key[k] \in KeyRecord /\ key[k].rule \in Rule BY <1>5 DEF KeyRecord
  <2> DEFINE next == RuleReplaced(key[k].rule, old, new, FALSE)
  <2>3. next \in Rule /\ Carries(next, key[k].rule, old, new) /\ (next = EmptyRule <=> key[k].rule = EmptyRule)
      BY <1>2, <1>3, <2>1
  <2>4. key'[k] = [key[k] EXCEPT !.rule = next] BY <1>4, <2>1 DEF KeyRecord
  <2> HIDE DEF next
  <2>5. /\ key'[k].rule = next /\ key'[k].groups = key[k].groups /\ key'[k].routes = key[k].routes
        /\ key'[k].configured = key[k].configured
      BY <2>1, <2>4 DEF KeyRecord
  <2> QED BY <2>3, <2>5
<1> QED BY <1>6, <1>7, <1>8, <1>9, <1>10 DEF old, new

(* What PreparedRules says of a replacement, for rigid states: routes q and groups h of the next
   state, and a key. *)
LEMMA PreparedUnits ==
    ASSUME RoutingTypeOK, NEW pair \in Rotations, MigrateRefs(pair, FALSE), ~Mentions(pair[2])
    PROVE  /\ \A routes, s, r : Carries(s, r, pair[1], pair[2]) =>
                 Carries(Unit(routes, s)', Unit(routes, r), pair[1], pair[2])
           /\ \A groups : /\ EffectiveGroups(groups)' = EffectiveGroups(groups)
                          /\ Exclusives(groups)' = Exclusives(groups)
           /\ \A g \in Present(group) : /\ GrantsAccess(g)' <=> GrantsAccess(g)
                                        /\ Carries(GroupUnit(g)', GroupUnit(g), pair[1], pair[2])
<1> DEFINE old == pair[1]
           new == pair[2]
<1>1. /\ Present(route)' = Present(route)
      /\ \A r \in Present(route) : Carries(route'[r], route[r], old, new)
      /\ Present(group)' = Present(group)
      /\ \A g \in Present(group) :
            /\ group'[g].disabled = group[g].disabled /\ group'[g].mode = group[g].mode
            /\ group'[g].routes = group[g].routes
            /\ Carries(group'[g].rule, group[g].rule, old, new)
            /\ group'[g].rule = EmptyRule <=> group[g].rule = EmptyRule
    BY PreparedRules
<1> HIDE DEF old, new
<1>2. ASSUME NEW routes, NEW s, NEW r, Carries(s, r, old, new)
      PROVE  Carries(Unit(routes, s)', Unit(routes, r), old, new)
  <2> DEFINE S == {route'[x] : x \in routes \cap Present(route)} \cup {s}
             R == {route[x] : x \in routes \cap Present(route)} \cup {r}
  <2>1. Unit(routes, s)' = Merged(S) /\ Unit(routes, r) = Merged(R) BY <1>1 DEF Unit
  <2>2. \A y \in R : \E x \in S : Carries(x, y, old, new) BY <1>1, <1>2
  <2>3. \A x \in S : \E y \in R : Carries(x, y, old, new) BY <1>1, <1>2
  <2> HIDE DEF S, R
  <2>4. CarryEachOther(S, R, old, new) BY <2>2, <2>3, Zenon DEF CarryEachOther
  <2> QED BY <2>1, <2>4, MergedCarries
<1>3. ASSUME NEW groups
      PROVE  EffectiveGroups(groups)' = EffectiveGroups(groups) /\ Exclusives(groups)' = Exclusives(groups)
  <2>1. EnabledGroups(groups)' = EnabledGroups(groups) /\ EnabledGroups(groups) \subseteq Present(group)
      BY <1>1 DEF EnabledGroups
  <2>2. Exclusives(groups)' = Exclusives(groups) BY <1>1, <2>1 DEF Exclusives
  <2>3. EffectiveGroups(groups)' = EffectiveGroups(groups) BY <1>1, <2>1, <2>2 DEF EffectiveGroups
  <2> QED BY <2>2, <2>3
<1>4. ASSUME NEW g \in Present(group)
      PROVE  (GrantsAccess(g)' <=> GrantsAccess(g)) /\ Carries(GroupUnit(g)', GroupUnit(g), old, new)
  <2>1. GrantsAccess(g)' <=> GrantsAccess(g) BY <1>1 DEF GrantsAccess
  <2>2. PICK s : s = group'[g].rule OBVIOUS
  <2>3. PICK r : r = group[g].rule OBVIOUS
  <2>4. PICK routes : routes = group[g].routes OBVIOUS
  <2>5. Carries(Unit(routes, s)', Unit(routes, r), old, new) BY <1>1, <1>2, <2>2, <2>3
  <2>6. GroupUnit(g) = Unit(routes, r) BY <2>3, <2>4 DEF GroupUnit
  <2>7. GroupUnit(g)' = Unit(routes, s)' BY <1>1, <2>2, <2>4 DEF GroupUnit
  <2> QED BY <2>1, <2>5, <2>6, <2>7
<1> QED BY <1>2, <1>3, <1>4 DEF old, new

(* The two decisions are alike if what they are made from is. *)
LEMMA CombinedAlike ==
    ASSUME NEW old, NEW new, ProviderOf[old] = ProviderOf[new],
           NEW e, NEW d, NEW S, NEW R, CarryEachOther(S, R, old, new),
           d.error <=> FALSE, d.denied <=> FALSE, e.error <=> FALSE, e.denied <=> FALSE,
           e.require <=> d.require, d.constraint = Absent, e.constraint = Absent,
           d.rule.creds = Merged(R).creds, d.rule.providers = Merged(R).providers,
           d.rule.noModels = Merged(R).noModels, d.rule.noCreds = Merged(R).noCreds,
           d.rule.noProviders = Merged(R).noProviders,
           e.rule.creds = Merged(S).creds, e.rule.providers = Merged(S).providers,
           e.rule.noModels = Merged(S).noModels, e.rule.noCreds = Merged(S).noCreds,
           e.rule.noProviders = Merged(S).noProviders,
           HasOpen(OpenGrant(R)) => d.rule.models = {} /\ d.open = OpenGrant(R) /\ d.paired = Merged(R).models,
           HasOpen(OpenGrant(S)) => e.rule.models = {} /\ e.open = OpenGrant(S) /\ e.paired = Merged(S).models,
           ~HasOpen(OpenGrant(R)) => d.rule.models = Merged(R).models /\ d.open = EmptyRule /\ d.paired = {},
           ~HasOpen(OpenGrant(S)) => e.rule.models = Merged(S).models /\ e.open = EmptyRule /\ e.paired = {}
    PROVE  DecidesAlike(e, d, old, new)
<1>1. Carries(Merged(S), Merged(R), old, new) BY MergedCarries
<1>2. /\ HasOpen(OpenGrant(S)) <=> HasOpen(OpenGrant(R))
      /\ HasOpen(OpenGrant(R)) => Carries(OpenGrant(S), OpenGrant(R), old, new)
    BY OpenCarries
<1>3. ~HasOpen(EmptyRule) BY DEF HasOpen, Grants, EmptyRule
<1>4. e.rule.models = d.rule.models /\ e.paired = d.paired BY <1>1, <1>2 DEF Carries
<1>5. Carries(e.rule, d.rule, old, new) BY <1>1, <1>4 DEF Carries
<1>6. /\ HasOpen(e.open) <=> HasOpen(d.open)
      /\ HasOpen(d.open) => Carries(e.open, d.open, old, new)
    BY <1>2, <1>3
<1> QED BY <1>4, <1>5, <1>6 DEF DecidesAlike

LEMMA ExclusiveAlike ==
    ASSUME NEW old, NEW new, ProviderOf[old] = ProviderOf[new],
           NEW S, NEW R, CarryEachOther(S, R, old, new),
           NEW s, NEW r, Carries(s, r, old, new),
           NEW b, NEW c, b = Absent <=> c = Absent, c # Absent => Carries(b, c, old, new),
           NEW d, ExclusiveFrom(d, r, c, R), NEW e, ExclusiveFrom(e, s, b, S)
    PROVE  (d = Refused /\ e = Refused) \/ DecidesAlike(e, d, old, new)
<1> DEFINE models == NarrowedModels(Merged(R).models, r.models)
<1>1. Carries(Merged(S), Merged(R), old, new) BY MergedCarries
<1>2. /\ HasOpen(OpenGrant(S)) <=> HasOpen(OpenGrant(R))
      /\ HasOpen(OpenGrant(R)) => Carries(OpenGrant(S), OpenGrant(R), old, new)
    BY OpenCarries
<1>3. ~HasOpen(EmptyRule) BY DEF HasOpen, Grants, EmptyRule
<1>4. models = NarrowedModels(Merged(S).models, s.models) /\ Merged(S).models = Merged(R).models
    BY <1>1 DEF Carries
<1> HIDE DEF models
<1>5. CASE ~HasOpen(OpenGrant(R)) /\ Merged(R).models # {} /\ models = {}
    BY <1>2, <1>4, <1>5 DEF ExclusiveFrom, models
<1>6. CASE HasOpen(OpenGrant(R)) \/ Merged(R).models = {} \/ models # {}
  <2>1. /\ ~d.error /\ ~d.denied /\ d.require /\ d.constraint = c
        /\ d.rule.creds = Merged(R).creds /\ d.rule.providers = Merged(R).providers
        /\ d.rule.noModels = Merged(R).noModels \cup r.noModels
        /\ d.rule.noCreds = Merged(R).noCreds \cup r.noCreds
        /\ d.rule.noProviders = Merged(R).noProviders \cup r.noProviders
        /\ HasOpen(OpenGrant(R)) => d.rule.models = r.models /\ d.open = OpenGrant(R) /\ d.paired = models
        /\ ~HasOpen(OpenGrant(R)) => d.rule.models = models /\ d.open = EmptyRule /\ d.paired = {}
      BY <1>6 DEF ExclusiveFrom, models
  <2>2. /\ ~e.error /\ ~e.denied /\ e.require /\ e.constraint = b
        /\ e.rule.creds = Merged(S).creds /\ e.rule.providers = Merged(S).providers
        /\ e.rule.noModels = Merged(S).noModels \cup s.noModels
        /\ e.rule.noCreds = Merged(S).noCreds \cup s.noCreds
        /\ e.rule.noProviders = Merged(S).noProviders \cup s.noProviders
        /\ HasOpen(OpenGrant(S)) => e.rule.models = s.models /\ e.open = OpenGrant(S) /\ e.paired = models
        /\ ~HasOpen(OpenGrant(S)) => e.rule.models = models /\ e.open = EmptyRule /\ e.paired = {}
      BY <1>2, <1>4, <1>6 DEF ExclusiveFrom
  <2>3. e.rule.models = d.rule.models /\ e.paired = d.paired BY <1>2, <2>1, <2>2 DEF Carries
  <2>4. /\ e.rule.noModels = d.rule.noModels /\ e.rule.noProviders = d.rule.noProviders
        /\ e.rule.providers = d.rule.providers
        /\ e.rule.creds = {} <=> d.rule.creds = {}
        /\ new \in e.rule.creds <=> old \in d.rule.creds
        /\ new \in e.rule.noCreds <=> old \in d.rule.noCreds
      BY <1>1, <2>1, <2>2 DEF Carries
  <2>5. Carries(e.rule, d.rule, old, new) BY <2>3, <2>4 DEF Carries
  <2>6. /\ HasOpen(e.open) <=> HasOpen(d.open)
        /\ HasOpen(d.open) => Carries(e.open, d.open, old, new)
      BY <1>2, <1>3, <2>1, <2>2
  <2>7. DecidesAlike(e, d, old, new) BY <2>1, <2>2, <2>3, <2>5, <2>6 DEF DecidesAlike
  <2> QED BY <2>7
<1> QED BY <1>5, <1>6

(* How the rules of a key are resolved, in the present state or the next. *)
DecidedByRules(k) ==
    LET K == key[k]
        d == Resolve(K)
    IN /\ d \in Decision /\ OwnUnit(K) \in Rule
       /\ ~access.enabled => d = Unrestricted
       /\ access.enabled /\ RefusesAll(K) => d = Refused
       /\ access.enabled /\ ~RefusesAll(K) /\ Exclusives(K.groups) # {} =>
             ExclusiveFrom(d, OwnUnit(K), Constraint(K), GroupUnits(K))
       /\ access.enabled /\ ~RefusesAll(K) /\ Exclusives(K.groups) = {} =>
             CombinedFrom(d, Managed(K), GroupUnits(K) \cup {OwnUnit(K)})

LEMMA EveryKeyDecided == RoutingInv => \A k \in Keys : DecidedByRules(k)
<1> SUFFICES ASSUME RoutingInv, NEW k \in Keys PROVE DecidedByRules(k) OBVIOUS
<1>1. key[k] \in KeyRecord /\ Bound(key[k]) BY KeysAreBound
<1>2. GroupUnits(key[k]) \in SUBSET Rule /\ OwnUnit(key[k]) \in Rule BY <1>1, UnitsAreRules
<1>3. CASE ~access.enabled
  <2>1. Resolve(key[k]) = Unrestricted BY <1>3 DEF Resolve
  <2> QED BY <1>2, <1>3, <2>1, DecisionTypes DEF DecidedByRules
<1>4. CASE access.enabled
  <2>1. Resolve(key[k]) = IF RefusesAll(key[k]) THEN Refused
                          ELSE IF Exclusives(key[k].groups) # {} THEN ExclusiveDecision(key[k], GroupUnits(key[k]))
                          ELSE CombinedDecision(key[k], GroupUnits(key[k]))
      BY <1>1, <1>4, ResolveCases
  <2>2. Resolve(key[k]) \in Decision BY <1>2, <2>1, DecisionTypes
  <2>3. /\ ExclusiveFrom(ExclusiveDecision(key[k], GroupUnits(key[k])), OwnUnit(key[k]), Constraint(key[k]), GroupUnits(key[k]))
        /\ CombinedFrom(CombinedDecision(key[k], GroupUnits(key[k])), Managed(key[k]), GroupUnits(key[k]) \cup {OwnUnit(key[k])})
      BY ExclusiveFields, CombinedFields
  <2> QED BY <1>2, <1>4, <2>1, <2>2, <2>3 DEF DecidedByRules
<1> QED BY <1>3, <1>4

LEMMA EveryKeyDecidedNext == RoutingInv' => \A k \in Keys : DecidedByRules(k)'
<1>1. (RoutingInv => \A k \in Keys : DecidedByRules(k))' BY EveryKeyDecided, PTL
<1> QED BY <1>1

(* The two resolutions of a key, before and after a replacement was prepared, are alike. *)
LEMMA ResolveAlike ==
    ASSUME RoutingInv, RoutingInv', NEW pair \in Rotations, MigrateRefs(pair, FALSE), ~Mentions(pair[2]),
           NEW k \in Keys, NEW d, d = Resolve(key[k]), NEW e, e = Resolve(key[k])'
    PROVE  d \in Decision /\ e \in Decision /\ DecidesAlike(e, d, pair[1], pair[2])
<1> DEFINE old == pair[1]
           new == pair[2]
<1>1. ProviderOf[old] = ProviderOf[new] /\ access' = access BY RoutingAssumption DEF MigrateRefs
<1>2. RoutingTypeOK BY DEF RoutingInv
<1>3. /\ key'[k].groups = key[k].groups /\ key'[k].routes = key[k].routes
      /\ key'[k].configured = key[k].configured
      /\ Carries(key'[k].rule, key[k].rule, old, new)
      /\ key'[k].rule = EmptyRule <=> key[k].rule = EmptyRule
    BY <1>2, PreparedRules
<1>4. /\ \A routes, s, r : Carries(s, r, old, new) => Carries(Unit(routes, s)', Unit(routes, r), old, new)
      /\ \A groups : EffectiveGroups(groups)' = EffectiveGroups(groups) /\ Exclusives(groups)' = Exclusives(groups)
      /\ \A g \in Present(group) : /\ GrantsAccess(g)' <=> GrantsAccess(g)
                                   /\ Carries(GroupUnit(g)', GroupUnit(g), old, new)
    BY <1>2, PreparedUnits
<1> HIDE DEF old, new
<1>5. PICK groups : groups = key[k].groups OBVIOUS
<1>6. PICK r : r = OwnUnit(key[k]) OBVIOUS
<1>7. PICK s : s = OwnUnit(key[k])' OBVIOUS
<1>8. Carries(s, r, old, new)
  <2>1. PICK routes : routes = key[k].routes OBVIOUS
  <2>2. PICK x : x = key[k].rule OBVIOUS
  <2>3. PICK y : y = key'[k].rule OBVIOUS
  <2>4. Carries(Unit(routes, y)', Unit(routes, x), old, new) BY <1>3, <1>4, <2>2, <2>3
  <2>5. r = Unit(routes, x) BY <1>6, <2>1, <2>2 DEF OwnUnit
  <2>6. s = Unit(routes, y)' BY <1>3, <1>7, <2>1, <2>3 DEF OwnUnit
  <2> QED BY <2>4, <2>5, <2>6
<1>9. PICK R : R = GroupUnits(key[k]) OBVIOUS
<1>10. PICK S : S = GroupUnits(key[k])' OBVIOUS
<1>11. CarryEachOther(S, R, old, new)
  <2>1. EffectiveGroups(groups) \subseteq Present(group) BY DEF EffectiveGroups, EnabledGroups
  <2>2. R = {GroupUnit(g) : g \in EffectiveGroups(groups)} BY <1>5, <1>9 DEF GroupUnits
  <2>3. S = {GroupUnit(g)' : g \in EffectiveGroups(groups)}
    <3>1. key'[k].groups = groups BY <1>3, <1>5
    <3>2. EffectiveGroups(groups)' = EffectiveGroups(groups) BY <1>4
    <3> QED BY <1>10, <3>1, <3>2 DEF GroupUnits
  <2>4. \A g \in EffectiveGroups(groups) : Carries(GroupUnit(g)', GroupUnit(g), old, new) BY <1>4, <2>1
  <2>5. \A x \in R : \E y \in S : Carries(y, x, old, new) BY <2>2, <2>3, <2>4
  <2>6. \A y \in S : \E x \in R : Carries(y, x, old, new) BY <2>2, <2>3, <2>4
  <2> QED BY <2>5, <2>6, Zenon DEF CarryEachOther
<1>12. CarryEachOther(S \cup {s}, R \cup {r}, old, new) BY <1>8, <1>11 DEF CarryEachOther
<1>13. RefusesAll(key[k])' <=> RefusesAll(key[k])
  <2>1. EffectiveGroups(groups) \subseteq Present(group) /\ EffectiveGroups(groups)' = EffectiveGroups(groups)
      BY <1>4 DEF EffectiveGroups, EnabledGroups
  <2>2. RefusesAll(key[k]) <=> \/ groups = {} /\ access.denyUngrouped
                               \/ groups # {} /\ \A g \in EffectiveGroups(groups) : ~GrantsAccess(g)
      BY <1>5 DEF RefusesAll
  <2>3. RefusesAll(key[k])' <=> \/ groups = {} /\ access.denyUngrouped
                                \/ groups # {} /\ \A g \in EffectiveGroups(groups) : ~GrantsAccess(g)'
      BY <1>1, <1>3, <1>5, <2>1 DEF RefusesAll
  <2> QED BY <1>4, <2>1, <2>2, <2>3
<1>14. Exclusives(key[k].groups)' = Exclusives(groups) /\ Exclusives(key[k].groups) = Exclusives(groups)
    BY <1>3, <1>4, <1>5
<1>15. Managed(key[k])' <=> Managed(key[k]) BY <1>3 DEF Managed
<1>16. PICK c : c = Constraint(key[k]) OBVIOUS
<1>17. PICK b : b = Constraint(key[k])' OBVIOUS
<1>18. /\ d \in Decision /\ r \in Rule
       /\ ~access.enabled => d = Unrestricted
       /\ access.enabled /\ RefusesAll(key[k]) => d = Refused
       /\ access.enabled /\ ~RefusesAll(key[k]) /\ Exclusives(groups) # {} => ExclusiveFrom(d, r, c, R)
       /\ access.enabled /\ ~RefusesAll(key[k]) /\ Exclusives(groups) = {} =>
             CombinedFrom(d, Managed(key[k]), R \cup {r})
  <2>1. DecidedByRules(k) BY EveryKeyDecided
  <2> QED BY <1>5, <1>6, <1>9, <1>16, <2>1 DEF DecidedByRules
<1>19. /\ e \in Decision /\ s \in Rule
       /\ ~access.enabled => e = Unrestricted
       /\ access.enabled /\ RefusesAll(key[k])' => e = Refused
       /\ access.enabled /\ ~RefusesAll(key[k])' /\ Exclusives(groups) # {} => ExclusiveFrom(e, s, b, S)
       /\ access.enabled /\ ~RefusesAll(key[k])' /\ Exclusives(groups) = {} =>
             CombinedFrom(e, Managed(key[k])', S \cup {s})
  <2>1. DecidedByRules(k)' BY EveryKeyDecidedNext
  <2> QED BY <1>1, <1>7, <1>10, <1>14, <1>17, <2>1 DEF DecidedByRules
<1>20. /\ b = Absent <=> c = Absent
       /\ c # Absent => Carries(b, c, old, new)
  <2>1. PICK own : own <=> (key[k].configured /\ ~(key[k].routes = {} /\ key[k].rule = EmptyRule)) \/ Grants(r)
      OBVIOUS
  <2>2. c = IF own THEN r ELSE Absent BY <1>6, <1>16, <2>1 DEF Constraint
  <2>3. Grants(s) <=> Grants(r) BY <1>1, <1>8, CarriedSays
  <2>4. b = IF own THEN s ELSE Absent BY <1>3, <1>7, <1>17, <2>1, <2>3 DEF Constraint
  <2> QED BY <1>8, <1>18, <1>19, <2>2, <2>4, RoutingAssumption
<1>21. DecidesAlike(Unrestricted, Unrestricted, old, new) /\ DecidesAlike(Refused, Refused, old, new)
  <2>1. Carries(EmptyRule, EmptyRule, old, new) BY DEF Carries, EmptyRule
  <2>2. /\ Unrestricted.rule = EmptyRule /\ Unrestricted.open = EmptyRule /\ Unrestricted.constraint = Absent
        /\ Refused.rule = EmptyRule /\ Refused.open = EmptyRule /\ Refused.constraint = Absent
      BY DEF Unrestricted, Refused
  <2> QED BY <2>1, <2>2 DEF DecidesAlike
<1>22. CASE ~access.enabled \/ RefusesAll(key[k])
    BY <1>13, <1>18, <1>19, <1>21, <1>22 DEF old, new
<1>23. CASE access.enabled /\ ~RefusesAll(key[k]) /\ Exclusives(groups) = {}
  <2>1. CombinedFrom(d, Managed(key[k]), R \cup {r}) BY <1>18, <1>23
  <2>2. CombinedFrom(e, Managed(key[k])', S \cup {s}) BY <1>13, <1>19, <1>23
  <2>3. PICK T : T = S \cup {s} OBVIOUS
  <2>4. PICK Q : Q = R \cup {r} OBVIOUS
  <2>5. CarryEachOther(T, Q, old, new) BY <1>12, <2>3, <2>4
  <2>6. /\ ~d.error /\ ~d.denied /\ d.constraint = Absent
        /\ d.rule.creds = Merged(Q).creds /\ d.rule.providers = Merged(Q).providers
        /\ d.rule.noModels = Merged(Q).noModels /\ d.rule.noCreds = Merged(Q).noCreds
        /\ d.rule.noProviders = Merged(Q).noProviders
        /\ HasOpen(OpenGrant(Q)) => d.rule.models = {} /\ d.open = OpenGrant(Q) /\ d.paired = Merged(Q).models
        /\ ~HasOpen(OpenGrant(Q)) => d.rule.models = Merged(Q).models /\ d.open = EmptyRule /\ d.paired = {}
      BY <2>1, <2>4 DEF CombinedFrom
  <2>7. /\ ~e.error /\ ~e.denied /\ e.constraint = Absent
        /\ e.rule.creds = Merged(T).creds /\ e.rule.providers = Merged(T).providers
        /\ e.rule.noModels = Merged(T).noModels /\ e.rule.noCreds = Merged(T).noCreds
        /\ e.rule.noProviders = Merged(T).noProviders
        /\ HasOpen(OpenGrant(T)) => e.rule.models = {} /\ e.open = OpenGrant(T) /\ e.paired = Merged(T).models
        /\ ~HasOpen(OpenGrant(T)) => e.rule.models = Merged(T).models /\ e.open = EmptyRule /\ e.paired = {}
      BY <2>2, <2>3 DEF CombinedFrom
  <2>8. e.require <=> d.require BY <1>15, <2>1, <2>2 DEF CombinedFrom
  <2>9. DecidesAlike(e, d, old, new) BY <1>1, <2>5, <2>6, <2>7, <2>8, CombinedAlike
  <2> QED BY <1>18, <1>19, <2>9 DEF old, new
<1>24. CASE access.enabled /\ ~RefusesAll(key[k]) /\ Exclusives(groups) # {}
  <2>1. ExclusiveFrom(d, r, c, R) BY <1>18, <1>24
  <2>2. ExclusiveFrom(e, s, b, S) BY <1>13, <1>19, <1>24
  <2>3. (d = Refused /\ e = Refused) \/ DecidesAlike(e, d, old, new)
      BY <1>1, <1>8, <1>11, <1>20, <2>1, <2>2, ExclusiveAlike
  <2> QED BY <1>18, <1>19, <1>21, <2>3 DEF old, new
<1> QED BY <1>22, <1>23, <1>24

(* While a credential is being replaced no key can use the new one that could not use the old
   one, and none that could loses access: for any routes, groups, keys and rules, unless rules
   about the new one say so (MigrateCredentialRefs). *)
THEOREM RotationsCarryAccess == RoutingSpec => RotationCarriesAccess
<1>1. RoutingInv /\ RoutingInv' /\ [RoutingNext]_routingVars =>
        [\A pair \in Rotations :
          pair \in rotating' /\ pair \notin rotating /\ ~Mentions(pair[2]) =>
              \A k \in Keys, m \in Models : Allowed(key[k], m, pair[1]) <=> Allowed(key[k], m, pair[2])']_routingVars
  <2> SUFFICES ASSUME RoutingInv, RoutingInv', [RoutingNext]_routingVars,
                      NEW pair \in Rotations, pair \in rotating', pair \notin rotating, ~Mentions(pair[2]),
                      NEW k \in Keys, NEW m \in Models
               PROVE  Allowed(key[k], m, pair[1]) <=> Allowed(key[k], m, pair[2])'
      OBVIOUS
  <2>1. MigrateRefs(pair, FALSE)
    <3>1. PICK p \in Rotations, complete \in BOOLEAN : MigrateRefs(p, complete)
      <4>1. ~RouteEdit
          BY DEF RouteEdit, CreateRoute, UpdateRoute, DeleteRoute, SetKeyRoutes
      <4>2. ~GroupEdit
          BY DEF GroupEdit, CreateGroup, UpdateGroup, DeleteGroup, SetKeyGroups
      <4>3. /\ \A settings \in AccessChoices : ~SetAccessControl(settings)
            /\ \A q \in Keys : ~SyncKey(q)
            /\ ~UNCHANGED routingVars
          BY DEF SetAccessControl, SyncKey, routingVars
      <4> QED BY <4>1, <4>2, <4>3 DEF RoutingNext
    <3>2. rotating' = IF complete THEN rotating \ {p} ELSE rotating \cup {p} BY <3>1 DEF MigrateRefs
    <3>3. complete = FALSE /\ p = pair BY <3>2
    <3> QED BY <3>1, <3>3
  <2>2. PICK d : d = Resolve(key[k]) OBVIOUS
  <2>3. PICK e : e = Resolve(key[k])' OBVIOUS
  <2>4. d \in Decision /\ e \in Decision /\ DecidesAlike(e, d, pair[1], pair[2])
      BY <2>1, <2>2, <2>3, ResolveAlike
  <2>5. ProviderOf[pair[1]] = ProviderOf[pair[2]] BY RoutingAssumption
  <2>6. AllowedUnder(e, m, pair[2]) <=> AllowedUnder(d, m, pair[1]) BY <2>4, <2>5, AlikeAllows
  <2> QED BY <2>2, <2>3, <2>6 DEF Allowed
<1> QED BY <1>1, RoutingInvariant, PTL DEF RoutingSpec, RotationCarriesAccess
-----------------------------------------------------------------------------
(* The choice of an account: while nothing has changed since, it is what would be chosen now, and
   the inventory knows the classes it was told. *)
HostOffer ==
    [accounts : SUBSET Accounts, usable : SUBSET Accounts,
     name : {"exact", "alias", "none"}, kind : {"chat", "image", "helper"}]
OneOffer(offer) == offer \in HostOffer /\ offer.usable \subseteq offer.accounts
Pick == [offer : HostOffer, choices : SUBSET Accounts, served : BOOLEAN, overtaken : BOOLEAN]
AsNow(offer) ==
    /\ picked.choices = OpenTo(offer)
    /\ Unconcerned(offer) \/ offer.accounts \cap Classified \subseteq inventory
PickInv ==
    /\ decision \in KeyDecisions /\ gates \in StateSettings
    /\ picked \in Pick \cup {NoPick}
    /\ picked # NoPick => OneOffer(picked.offer)
    /\ Undisturbed => \A offer \in HostOffer : picked.offer = offer => AsNow(offer)

LEMMA OpenToType == ASSUME NEW offer, OneOffer(offer) PROVE OpenTo(offer) \in SUBSET Accounts
<1>1. offer.accounts \subseteq Accounts /\ offer.usable \subseteq Accounts BY DEF OneOffer, HostOffer
<1>2. Admissible(offer) \subseteq offer.usable /\ Breakouts(offer) \subseteq offer.usable
    BY DEF Admissible, Breakouts
<1>3. Eligible(offer) \subseteq offer.usable BY <1>2 DEF Eligible, Rather
<1> QED BY <1>1, <1>3 DEF OpenTo

\* A pick is answered from what is configured at that moment.
LEMMA PickForInv == \A offer : PickInv /\ OneOffer(offer) /\ PickFor(offer) => PickInv'
<1> SUFFICES ASSUME NEW offer, PickInv, OneOffer(offer), PickFor(offer) PROVE PickInv' OBVIOUS
<1> DEFINE next == [offer |-> offer, choices |-> OpenTo(offer), served |-> FALSE, overtaken |-> FALSE]
<1>1. next \in Pick BY OpenToType DEF Pick, OneOffer
<1>2. next.offer = offer /\ next.choices = OpenTo(offer) OBVIOUS
<1>3. picked' = next /\ inventory' = Observed(offer) /\ UNCHANGED <<gates, decision, templated>>
    BY DEF PickFor
<1> HIDE DEF next
<1>4. /\ decision' \in KeyDecisions /\ gates' \in StateSettings
      /\ picked' \in Pick /\ OneOffer(picked'.offer)
    BY <1>1, <1>2, <1>3 DEF PickInv
<1>5. OpenTo(offer)' = OpenTo(offer) /\ (Unconcerned(offer)' <=> Unconcerned(offer))
    BY <1>3 DEF OpenTo, LeftToHost, Unconcerned, Guarded, GateClosed, NotStale, Steered, StaleBucket, Eligible,
        Rather, Admissible, Sure, Breakouts, Protects, InScopeAs, TemplateReady, BusinessReady, Injects, BreakoutReady
<1>6. AsNow(offer)'
  <2>1. picked'.choices = OpenTo(offer)' BY <1>2, <1>3, <1>5
  <2>2. Unconcerned(offer)' \/ offer.accounts \cap Classified \subseteq inventory'
      BY <1>3, <1>5 DEF Observed
  <2> QED BY <2>1, <2>2 DEF AsNow
<1>7. \A o \in HostOffer : picked'.offer = o => AsNow(o)'
  <2> SUFFICES ASSUME NEW o \in HostOffer, picked'.offer = o PROVE AsNow(o)' OBVIOUS
  <2>1. o = offer BY <1>2, <1>3
  <2> QED BY <1>6, <2>1
<1> QED BY <1>4, <1>7 DEF PickInv, OneOffer

\* Any change in between is noted at the request under way.
LEMMA OvertakenInv ==
    PickInv /\ decision' \in KeyDecisions /\ gates' \in StateSettings /\ Overtakes => PickInv'
<1> SUFFICES ASSUME PickInv, decision' \in KeyDecisions, gates' \in StateSettings, Overtakes PROVE PickInv'
    OBVIOUS
<1>1. CASE picked = NoPick BY <1>1 DEF Overtakes, PickInv, Undisturbed
<1>2. CASE picked # NoPick
  <2>1. picked \in Pick /\ picked' = [picked EXCEPT !.overtaken = TRUE] BY <1>2 DEF Overtakes, PickInv
  <2>2. picked' \in Pick /\ picked'.overtaken /\ picked'.offer = picked.offer BY <2>1 DEF Pick
  <2> QED BY <1>2, <2>2 DEF PickInv, Undisturbed, OneOffer
<1> QED BY <1>1, <1>2

LEMMA PickInvStep == PickInv /\ [PickNext]_pickVars => PickInv'
<1> SUFFICES ASSUME PickInv, [PickNext]_pickVars PROVE PickInv' OBVIOUS
<1>1. ASSUME NEW offer \in Offers, AskFor(offer) PROVE PickInv'
  <2>1. OneOffer(offer) BY PickAssumption DEF OneOffer, HostOffer
  <2> QED BY <1>1, <2>1, PickForInv DEF AskFor
<1>2. ASSUME NEW c \in Accounts, Serve(c) PROVE PickInv'
  <2>1. picked \in Pick /\ picked # NoPick BY <1>2 DEF Serve, PickInv
  <2>2. picked' = [picked EXCEPT !.served = TRUE, !.choices = {c}] /\ UNCHANGED <<gates, decision>>
      BY <1>2 DEF Serve
  <2>3. picked' \in Pick /\ picked'.served /\ picked'.offer = picked.offer BY <2>1, <2>2 DEF Pick
  <2> QED BY <2>1, <2>2, <2>3 DEF PickInv, Undisturbed, OneOffer
<1>3. ASSUME NEW c \in Accounts, Retry(c) PROVE PickInv'
  <2> DEFINE offer == [picked.offer EXCEPT !.accounts = @ \ {c}, !.usable = @ \ {c}]
  <2>1. OneOffer(picked.offer) /\ PickFor(offer) BY <1>3 DEF Retry, PickInv
  <2>2. OneOffer(offer)
    <3> DEFINE o == picked.offer
    <3>1. o \in HostOffer /\ o.usable \subseteq o.accounts BY <2>1 DEF OneOffer
    <3> HIDE DEF o
    <3>2. [o EXCEPT !.accounts = @ \ {c}, !.usable = @ \ {c}] \in HostOffer BY <3>1 DEF HostOffer
    <3>3. LET n == [o EXCEPT !.accounts = @ \ {c}, !.usable = @ \ {c}] IN n.usable \subseteq n.accounts
        BY <3>1 DEF HostOffer
    <3> QED BY <3>2, <3>3 DEF OneOffer, o
  <2> HIDE DEF offer
  <2> QED BY <2>1, <2>2, PickForInv
<1>4. ASSUME Conclude PROVE PickInv' BY <1>4 DEF Conclude, PickInv, Undisturbed
<1>5. ASSUME NEW choice \in StateSettings, ChangeGates(choice) PROVE PickInv'
    BY <1>5, OvertakenInv DEF ChangeGates, PickInv
<1>6. ASSUME NEW d \in KeyDecisions, ChangeDecision(d) PROVE PickInv'
    BY <1>6, OvertakenInv DEF ChangeDecision, PickInv
<1>7. ASSUME NEW c \in Accounts, LearnFor(c) \/ ExpireFor(c) PROVE PickInv'
    BY <1>7, OvertakenInv DEF LearnFor, ExpireFor, PickInv
<1>8. ASSUME NEW listed \in SUBSET Accounts, RefreshInventory(listed) PROVE PickInv'
    BY <1>8, OvertakenInv DEF RefreshInventory, PickInv
<1>9. CASE UNCHANGED pickVars
  <2>1. UNCHANGED <<gates, decision, templated, inventory, picked>> BY <1>9 DEF pickVars
  <2>2. ASSUME NEW offer \in HostOffer, AsNow(offer) PROVE AsNow(offer)'
    <3>1. OpenTo(offer)' = OpenTo(offer) /\ (Unconcerned(offer)' <=> Unconcerned(offer))
        BY <2>1 DEF OpenTo, LeftToHost, Unconcerned, Guarded, GateClosed, NotStale, Steered, StaleBucket, Eligible,
          Rather, Admissible, Sure, Breakouts, Protects, InScopeAs, TemplateReady, BusinessReady, Injects, BreakoutReady
    <3> QED BY <2>1, <2>2, <3>1 DEF AsNow
  <2> QED BY <2>1, <2>2 DEF PickInv, Undisturbed
<1> QED BY <1>1, <1>2, <1>3, <1>4, <1>5, <1>6, <1>7, <1>8, <1>9 DEF PickNext

\* What a pick finds permitted of the class it is told, the check finds permitted of the class it
\* knows, and conversely where the candidate tells.
LEMMA ToldIsKnown ==
    ASSUME NEW d \in KeyDecisions, NEW c \in Accounts, c \in inventory
    PROVE  /\ Permits(d, c, ToldClass(c)) => Permits(d, c, KnownClass(c))
           /\ c \in Classified => (Permits(d, c, KnownClass(c)) <=> Permits(d, c, ToldClass(c)))
<1>1. KnownClass(c) = ClassOf[c] BY DEF KnownClass
<1>2. CASE c \in Classified BY <1>1, <1>2 DEF ToldClass
<1>3. CASE c \notin Classified
  <2> DEFINE told == [ClassOf[c] EXCEPT !.source = ""]
  <2>1. ToldClass(c) = told BY <1>3 DEF ToldClass
  <2>2. ClassOf[c] \in Class BY PickAssumption
  <2>3. told.source = "" /\ told.provider = ClassOf[c].provider BY <2>2 DEF Class
  <2> HIDE DEF told
  <2>4. d.classes \subseteq Selector /\ d.noClasses \subseteq Selector BY PickAssumption DEF RoutingDecisions
  <2>5. told \notin d.classes BY <2>3, <2>4 DEF Selector
  <2>6. \A selector \in d.noClasses : Matches(ClassOf[c], selector) => Matches(told, selector)
      BY <2>3 DEF Matches
  <2> QED BY <1>1, <1>3, <2>1, <2>5, <2>6 DEF Permits
<1> QED BY <1>2, <1>3

\* A decision that restricts nothing permits every account.
LEMMA Unrestrained == ASSUME NEW d \in KeyDecisions, ~Restricts(d), NEW c, NEW class PROVE Permits(d, c, class)
<1>1. ~d.refused /\ ~d.require /\ d.ids = {} /\ d.classes = {} /\ d.noIds = {} /\ d.noClasses = {}
    BY DEF Restricts
<1> QED BY <1>1 DEF Permits

\* The preferences keep an account whenever one is left.
LEMMA RatherKeeps ==
    ASSUME NEW some, NEW better
    PROVE  /\ Rather(some, better) \subseteq some
           /\ Rather(some, better) = {} <=> some = {}
           /\ some \cap better # {} => Rather(some, better) \subseteq better
BY DEF Rather

LEMMA EligibleFrom ==
    ASSUME NEW offer
    PROVE  /\ Admissible(offer) # {} =>
                 /\ Eligible(offer) # {} /\ Eligible(offer) \subseteq Admissible(offer)
                 /\ Admissible(offer) \cap Sure(offer) # {} => Eligible(offer) \subseteq Sure(offer)
           /\ Admissible(offer) = {} => Eligible(offer) = Breakouts(offer)
<1> DEFINE sure == Rather(Admissible(offer), Sure(offer))
           permitted == Rather(sure, NotStale(offer))
<1>1. /\ sure \subseteq Admissible(offer) /\ (sure = {} <=> Admissible(offer) = {})
      /\ Admissible(offer) \cap Sure(offer) # {} => sure \subseteq Sure(offer)
    BY RatherKeeps
<1>2. permitted \subseteq sure /\ (permitted = {} <=> sure = {}) BY RatherKeeps
<1>3. Eligible(offer) = IF permitted # {} THEN permitted ELSE Breakouts(offer) BY DEF Eligible
<1> HIDE DEF sure, permitted
<1> QED BY <1>1, <1>2, <1>3

\* An account that was chosen, or left to the host, passes.
LEMMA InvChoicesPass == PickInv => ChoicesPass
<1> SUFFICES ASSUME PickInv, Undisturbed, NEW c \in picked.choices \cap (Classified \cup inventory)
             PROVE  \/ Passes(picked.offer, c)
                    \/ /\ picked.offer.name # "exact"
                       /\ RulesPass(picked.offer, c)
                       /\ Admissible(picked.offer) \subseteq gates.selected
                    \/ ~gates.schema6 /\ Admissible(picked.offer) = {}
    BY DEF ChoicesPass
<1> DEFINE offer == picked.offer
<1>1. /\ OneOffer(offer) /\ AsNow(offer) /\ decision \in KeyDecisions /\ offer \in HostOffer
    BY DEF PickInv, Undisturbed, OneOffer
<1> HIDE DEF offer
<1>2. c \in OpenTo(offer) BY <1>1 DEF AsNow
<1>3. offer.usable \subseteq offer.accounts /\ offer.accounts \subseteq Accounts
      /\ offer.name \in {"exact", "alias", "none"}
    BY <1>1 DEF OneOffer, HostOffer
<1>4. c \in offer.accounts /\ c \in Accounts
  <2>1. Eligible(offer) \subseteq offer.usable BY DEF Eligible, Rather, Admissible, Breakouts
  <2> QED BY <1>2, <1>3, <2>1 DEF OpenTo
<1>5. CASE Unconcerned(offer) BY <1>5 DEF Passes, RulesPass, GatePasses, offer
<1>6. CASE ~Unconcerned(offer) /\ LeftToHost(offer)
  <2>1. ~Restricts(decision) /\ ~Guarded(offer) BY <1>6 DEF LeftToHost
  <2>2. GatePasses(offer, c) BY <2>1 DEF GatePasses, Guarded, Protects, InScopeAs
  <2> QED BY <2>1, <2>2 DEF Passes, RulesPass, offer
<1>7. CASE ~LeftToHost(offer)
  <2>1. ~Unconcerned(offer) /\ ~decision.refused /\ c \in Eligible(offer) /\ c \in inventory
    <3>1. ~Unconcerned(offer) BY <1>7 DEF LeftToHost
    <3>2. c \in inventory BY <1>1, <1>4, <3>1 DEF AsNow
    <3> QED BY <1>2, <1>7, <3>1, <3>2 DEF OpenTo
  <2>2. CASE Admissible(offer) = {}
    <3>1. c \in Breakouts(offer) BY <2>1, <2>2, EligibleFrom
    <3>2. offer.kind # "image" /\ BreakoutReady(offer.name, c) BY <3>1 DEF Breakouts
    <3>3. offer.name = "exact" /\ BreakoutReady("exact", c) /\ Injects /\ TemplateReady("exact", c)
        BY <3>2 DEF BreakoutReady, TemplateReady, InScopeAs
    <3>4. RulesPass(offer, c) BY <2>1, <3>2, <3>3 DEF RulesPass
    <3>5. gates.schema6 => GatePasses(offer, c) BY <3>3 DEF GatePasses
    <3> QED BY <2>2, <3>4, <3>5 DEF Passes, offer
  <2>3. CASE Admissible(offer) # {}
    <3>1. c \in Admissible(offer) /\ (Admissible(offer) \cap Sure(offer) # {} => c \in Sure(offer))
        BY <2>1, <2>3, EligibleFrom
    <3>2. Permits(decision, c, KnownClass(c))
      <4>1. Permits(decision, c, ToldClass(c)) BY <3>1 DEF Admissible
      <4> QED BY <1>1, <1>4, <2>1, <4>1, ToldIsKnown
    <3>3. RulesPass(offer, c) BY <2>1, <3>2 DEF RulesPass
    <3>4. CASE GatePasses(offer, c) BY <3>3, <3>4 DEF Passes, offer
    <3>5. CASE ~GatePasses(offer, c)
      <4>1. /\ offer.kind = "chat" /\ GateClosed /\ Protects("exact", c)
            /\ ~(gates.schema6 /\ Injects /\ TemplateReady("exact", c))
          BY <3>5 DEF GatePasses
      <4>2. c \in gates.selected /\ gates.scoped BY <4>1 DEF Protects, InScopeAs
      <4>3. Guarded(offer) BY <4>1, <4>2 DEF Guarded
      <4>4. Protects(offer.name, c) => gates.schema6 /\ BusinessReady(offer.name, c)
          BY <3>1, <4>3 DEF Admissible
      <4>5. ~Protects(offer.name, c)
        <5>1. ASSUME Protects(offer.name, c) PROVE FALSE
          <6>1. gates.schema6 /\ Injects /\ TemplateReady(offer.name, c) BY <4>4, <5>1 DEF BusinessReady
          <6>2. TemplateReady("exact", c) BY <6>1 DEF TemplateReady
          <6> QED BY <4>1, <6>1, <6>2
        <5> QED BY <5>1
      <4>6. offer.name # "exact" BY <4>1, <4>5
      <4>7. Admissible(offer) \subseteq gates.selected
        <5>1. ASSUME NEW o \in Admissible(offer), o \notin gates.selected PROVE FALSE
          <6>1. o \in Accounts BY <1>3 DEF Admissible
          <6>2. o \in Sure(offer) BY <5>1, <6>1 DEF Sure
          <6>3. c \in Sure(offer) BY <3>1, <6>2
          <6>4. TemplateReady(offer.name, c) BY <4>2, <4>3, <6>3 DEF Sure
          <6> QED BY <4>6, <6>4 DEF TemplateReady
        <5> QED BY <5>1
      <4> QED BY <3>3, <4>6, <4>7 DEF offer
    <3> QED BY <3>4, <3>5
  <2> QED BY <2>2, <2>3
<1> QED BY <1>5, <1>6, <1>7

\* Where none is chosen, none would pass.
LEMMA InvRefusalsAreFinal == PickInv => RefusalsAreFinal
<1> SUFFICES ASSUME PickInv, Undisturbed, picked.choices = {}, picked.offer.name = "exact",
                    NEW c \in picked.offer.usable \cap Classified, Passes(picked.offer, c)
             PROVE  FALSE
    BY DEF RefusalsAreFinal
<1> DEFINE offer == picked.offer
<1>1. /\ OneOffer(offer) /\ AsNow(offer) /\ decision \in KeyDecisions /\ offer \in HostOffer
      /\ offer.name = "exact" /\ Passes(offer, c) /\ c \in offer.usable /\ c \in Classified
    BY DEF PickInv, Undisturbed, OneOffer
<1>2. OpenTo(offer) = {} BY <1>1 DEF AsNow
<1> HIDE DEF offer
<1>3. c \in offer.accounts /\ c \in Accounts BY <1>1 DEF OneOffer, HostOffer
<1>4. ~LeftToHost(offer) BY <1>2, <1>3 DEF OpenTo
<1>5. ~Unconcerned(offer) BY <1>4 DEF LeftToHost
<1>6. c \in inventory BY <1>1, <1>3, <1>5 DEF AsNow
<1>7. ~decision.refused
  <2>1. decision.refused => Restricts(decision) BY DEF Restricts
  <2> QED BY <1>1, <1>5, <2>1 DEF Passes, RulesPass
<1>8. Eligible(offer) = {} BY <1>2, <1>4, <1>7 DEF OpenTo
<1>9. Admissible(offer) = {} /\ Breakouts(offer) = {} BY <1>8, EligibleFrom
<1>10. Permits(decision, c, KnownClass(c))
  <2>1. ~(offer.kind # "image" /\ BreakoutReady("exact", c)) BY <1>1, <1>9 DEF Breakouts
  <2>2. ~Restricts(decision) \/ Permits(decision, c, KnownClass(c))
      BY <1>1, <1>5, <2>1 DEF Passes, RulesPass
  <2> QED BY <1>1, <2>2, Unrestrained
<1>11. Permits(decision, c, ToldClass(c)) BY <1>1, <1>3, <1>6, <1>10, ToldIsKnown
<1>12. Guarded(offer) /\ Protects("exact", c) /\ ~(gates.schema6 /\ BusinessReady("exact", c))
    BY <1>1, <1>9, <1>11 DEF Admissible
<1>13. gates.schema6 /\ Injects /\ TemplateReady("exact", c)
    BY <1>1, <1>5, <1>12 DEF Passes, GatePasses, Guarded
<1> QED BY <1>12, <1>13 DEF BusinessReady

\* For any accounts, rules, templates and switches, the choice of an account and the check that
\* follows it agree, unless something changes in between.
THEOREM PicksAgree == PickSpec => []PickAgreesWithCheck
<1>1. PickInit => PickInv BY DEF PickInit, PickInv, Undisturbed
<1>2. PickInv => PickAgreesWithCheck BY InvChoicesPass, InvRefusalsAreFinal DEF PickAgreesWithCheck
<1> QED BY <1>1, <1>2, PickInvStep, PTL DEF PickSpec
-----------------------------------------------------------------------------
(* Large settings: what a page has read, and what was staged of its draft, are the first parts of
   either; a page that edits has read all of one revision; no upload is two pages'. *)
FirstParts(part, whole) == Len(part) <= Len(whole) /\ part = SubSeq(whole, 1, Len(part))
UploadTypeOK ==
    /\ config \in Contents /\ revision \in Nat
    /\ uploads \in [Ids -> Upload \cup {NoUpload}]
    /\ committing \in [page : Pages, data : Seq(Parts)] \cup {NoUpload}
    /\ page \in [Pages -> Page]
PageInv(p) ==
    /\ p.at = "reading" => p.id = NoUpload
    /\ p.read = <<>> \/ p.token \in Contents
    /\ FirstParts(p.read, p.token)
    /\ p.at = "edited" => p.draft \in Contents /\ p.read = p.token
StagedInv ==
    \A p \in Pages : page[p].id # NoUpload =>
        /\ uploads[page[p].id] # NoUpload => FirstParts(uploads[page[p].id].data, page[p].draft)
        /\ \A q \in Pages \ {p} : page[q].id # page[p].id
CommitInv ==
    committing # NoUpload =>
        page[committing.page].at = "edited" /\ committing.data = page[committing.page].draft
UploadInv == UploadTypeOK /\ (\A p \in Pages : PageInv(page[p])) /\ StagedInv /\ CommitInv

LEMMA WholeContents == \A content \in Contents : content \in Seq(Parts) /\ Len(content) = Width
<1> SUFFICES ASSUME NEW content \in Contents PROVE content \in Seq(Parts) /\ Len(content) = Width OBVIOUS
<1>1. content \in [1..Width -> Parts] /\ Width \in Nat BY UploadAssumption
<1>2. content \in Seq(Parts) BY <1>1, SeqDef
<1>3. DOMAIN content = 1..Width /\ DOMAIN content = 1..Len(content) /\ Len(content) \in Nat
    BY <1>1, <1>2, LenProperties
<1>4. Len(content) = Width BY <1>1, <1>3
<1> QED BY <1>2, <1>4

\* The first parts of a configuration that are as many as it has are the configuration.
LEMMA AllParts ==
    ASSUME NEW whole \in Seq(Parts), NEW part, FirstParts(part, whole), Len(part) = Len(whole)
    PROVE  part = whole
BY SubSeqFull DEF FirstParts

LEMMA NoParts == ASSUME NEW whole \in Seq(Parts) PROVE FirstParts(<<>>, whole) /\ <<>> \in Seq(Parts)
<1>1. Len(<<>>) = 0 /\ <<>> \in Seq(Parts) BY EmptySeq
<1>2. SubSeq(whole, 1, 0) = <<>> BY SubSeqEmpty
<1>3. Len(whole) \in Nat BY LenProperties
<1> QED BY <1>1, <1>2, <1>3 DEF FirstParts

\* A further part extends them, and a chunk does where it is the next one.
LEMMA MoreParts ==
    ASSUME NEW whole \in Seq(Parts), NEW part \in Seq(Parts), FirstParts(part, whole)
    PROVE  /\ \A j \in (Len(part) + 1)..Len(whole) :
                 /\ part \o SubSeq(whole, Len(part) + 1, j) \in Seq(Parts)
                 /\ FirstParts(part \o SubSeq(whole, Len(part) + 1, j), whole)
           /\ Len(part) < Len(whole) => /\ Append(part, whole[Len(part) + 1]) \in Seq(Parts)
                                        /\ FirstParts(Append(part, whole[Len(part) + 1]), whole)
<1>1. Len(whole) \in Nat /\ Len(part) \in Nat /\ Len(part) <= Len(whole) BY LenProperties DEF FirstParts
<1>2. ASSUME NEW j \in (Len(part) + 1)..Len(whole)
      PROVE  /\ part \o SubSeq(whole, Len(part) + 1, j) = SubSeq(whole, 1, j)
             /\ SubSeq(whole, 1, j) \in Seq(Parts) /\ Len(SubSeq(whole, 1, j)) = j
             /\ FirstParts(SubSeq(whole, 1, j), whole)
  <2>1. j \in Int /\ 1 <= j /\ j <= Len(whole) BY <1>1
  <2>2. SubSeq(whole, 1, Len(part)) \o SubSeq(whole, Len(part) + 1, j) = SubSeq(whole, 1, j)
    <3>1. 1 \in 1..(Len(whole) + 1) /\ Len(part) \in (1 - 1)..Len(whole) /\ j \in Len(part)..Len(whole)
        BY <1>1, <2>1
    <3> QED BY <3>1, ConcatAdjacentSubSeq
  <2>3. \A i \in 1..j : whole[i] \in Parts BY <1>1, <2>1, ElementOfSeq
  <2>4. SubSeq(whole, 1, j) \in Seq(Parts) /\ Len(SubSeq(whole, 1, j)) = j
    <3>1. Len(SubSeq(whole, 1, j)) = IF 1 <= j THEN j - 1 + 1 ELSE 0 BY <2>1, <2>3, SubSeqProperties
    <3>2. SubSeq(whole, 1, j) \in Seq(Parts) BY <2>1, <2>3, SubSeqProperties
    <3> QED BY <2>1, <3>1, <3>2
  <2> QED BY <2>1, <2>2, <2>4 DEF FirstParts
<1>3. ASSUME Len(part) < Len(whole)
      PROVE  Append(part, whole[Len(part) + 1]) = SubSeq(whole, 1, Len(part) + 1)
  <2>1. Len(part) + 1 \in 1..Len(whole) BY <1>1, <1>3
  <2>2. SubSeq(whole, 1, Len(part) + 1) = SubSeq(whole, 1, Len(part) + 1 - 1) \o <<whole[Len(part) + 1]>>
    <3>1. 1 \in 1..Len(whole) BY <1>1, <2>1
    <3> QED BY <2>1, <3>1, SubSeqRecursiveSecond
  <2>3. Len(part) + 1 - 1 = Len(part) BY <1>1
  <2>4. SubSeq(whole, 1, Len(part) + 1) = part \o <<whole[Len(part) + 1]>> BY <2>2, <2>3 DEF FirstParts
  <2>5. whole[Len(part) + 1] \in Parts BY <2>1, ElementOfSeq
  <2>6. Append(part, whole[Len(part) + 1]) = part \o <<whole[Len(part) + 1]>> BY <2>5
  <2> QED BY <2>4, <2>6
<1>4. Len(part) < Len(whole) => Len(part) + 1 \in (Len(part) + 1)..Len(whole) BY <1>1
<1> QED BY <1>2, <1>3, <1>4

LEMMA NewPageInv == NewPage \in Page /\ PageInv(NewPage)
<1>1. <<>> \in Seq(Parts) /\ FirstParts(<<>>, <<>>) BY NoParts, EmptySeq
<1> QED BY <1>1 DEF NewPage, Page, PageInv

\* A page that no commit is under way for goes on without an upload of its own.
LEMMA PageMoves ==
    \A p \in Pages, next \in Page :
        /\ UploadInv
        /\ PageInv(next) /\ next.id = NoUpload
        /\ committing # NoUpload => committing.page # p
        /\ page' = [page EXCEPT ![p] = next]
        /\ \A id \in Ids : uploads'[id] = uploads[id] \/ uploads'[id] = NoUpload
        /\ uploads' \in [Ids -> Upload \cup {NoUpload}]
        /\ config' \in Contents /\ revision' \in Nat /\ UNCHANGED committing
        => UploadInv'
<1> SUFFICES ASSUME NEW p \in Pages, NEW next \in Page, UploadInv,
                    PageInv(next), next.id = NoUpload,
                    committing # NoUpload => committing.page # p,
                    page' = [page EXCEPT ![p] = next],
                    \A id \in Ids : uploads'[id] = uploads[id] \/ uploads'[id] = NoUpload,
                    uploads' \in [Ids -> Upload \cup {NoUpload}],
                    config' \in Contents, revision' \in Nat, UNCHANGED committing
             PROVE  UploadInv'
    OBVIOUS
<1>1. /\ page \in [Pages -> Page] /\ page'[p] = next /\ \A q \in Pages \ {p} : page'[q] = page[q]
    BY DEF UploadInv, UploadTypeOK
<1>2. UploadTypeOK' BY DEF UploadInv, UploadTypeOK
<1>3. (\A q \in Pages : PageInv(page[q]))' BY <1>1 DEF UploadInv
<1>4. StagedInv'
  <2> SUFFICES ASSUME NEW q \in Pages, page'[q].id # NoUpload
               PROVE  /\ uploads'[page'[q].id] # NoUpload => FirstParts(uploads'[page'[q].id].data, page'[q].draft)
                      /\ \A o \in Pages \ {q} : page'[o].id # page'[q].id
      BY DEF StagedInv
  <2>1. q # p /\ page'[q] = page[q] /\ page[q].id \in Ids BY <1>1 DEF Page
  <2>2. /\ uploads[page[q].id] # NoUpload => FirstParts(uploads[page[q].id].data, page[q].draft)
        /\ \A o \in Pages \ {q} : page[o].id # page[q].id
      BY <2>1 DEF UploadInv, StagedInv
  <2>3. \A o \in Pages \ {q} : page'[o].id # page'[q].id BY <1>1, <2>1, <2>2
  <2> QED BY <2>1, <2>2, <2>3
<1>5. CommitInv'
  <2> SUFFICES ASSUME committing # NoUpload
               PROVE  page'[committing.page].at = "edited" /\ committing.data = page'[committing.page].draft
      BY DEF CommitInv
  <2>1. committing.page \in Pages /\ committing.page # p BY DEF UploadInv, UploadTypeOK
  <2> QED BY <1>1, <2>1 DEF UploadInv, CommitInv
<1> QED BY <1>2, <1>3, <1>4, <1>5 DEF UploadInv

\* What is staged goes, or the settings change, and the pages stay.
LEMMA PagesStay ==
    /\ UploadInv
    /\ UNCHANGED page /\ config' \in Contents /\ revision' \in Nat
    /\ uploads' \in [Ids -> Upload \cup {NoUpload}]
    /\ \A id \in Ids : uploads'[id] = uploads[id] \/ uploads'[id] = NoUpload
    /\ committing' = committing \/ committing' = NoUpload
    => UploadInv'
<1> SUFFICES ASSUME UploadInv, UNCHANGED page, config' \in Contents, revision' \in Nat,
                    uploads' \in [Ids -> Upload \cup {NoUpload}],
                    \A id \in Ids : uploads'[id] = uploads[id] \/ uploads'[id] = NoUpload,
                    committing' = committing \/ committing' = NoUpload
             PROVE  UploadInv'
    OBVIOUS
<1>1. UploadTypeOK' BY DEF UploadInv, UploadTypeOK
<1>2. (\A q \in Pages : PageInv(page[q]))' BY DEF UploadInv
<1>3. StagedInv'
  <2> SUFFICES ASSUME NEW q \in Pages, page[q].id # NoUpload
               PROVE  /\ uploads'[page[q].id] # NoUpload => FirstParts(uploads'[page[q].id].data, page[q].draft)
                      /\ \A o \in Pages \ {q} : page[o].id # page[q].id
      BY DEF StagedInv
  <2>1. page[q].id \in Ids BY DEF UploadInv, UploadTypeOK, Page
  <2> QED BY <2>1 DEF UploadInv, StagedInv
<1>4. CommitInv' BY DEF UploadInv, CommitInv
<1> QED BY <1>1, <1>2, <1>3, <1>4 DEF UploadInv

LEMMA UploadInvStep == UploadInv /\ [UploadNext]_uploadVars => UploadInv'
<1> SUFFICES ASSUME UploadInv, [UploadNext]_uploadVars PROVE UploadInv' OBVIOUS
<1>t. /\ config \in Contents /\ revision \in Nat /\ uploads \in [Ids -> Upload \cup {NoUpload}]
      /\ committing \in [page : Pages, data : Seq(Parts)] \cup {NoUpload} /\ page \in [Pages -> Page]
      /\ \A p \in Pages : page[p] \in Page /\ PageInv(page[p])
    BY DEF UploadInv, UploadTypeOK
<1>c. committing # NoUpload =>
          page[committing.page].at = "edited" /\ committing.data = page[committing.page].draft
    BY DEF UploadInv, CommitInv
<1>i. \A content \in Contents : Install(content) => config' \in Contents /\ revision' \in Nat BY <1>t DEF Install
<1>1. ASSUME NEW p \in Pages, ReadPart(p) PROVE UploadInv'
  <2>1. /\ page[p].at = "reading" /\ page[p].id = NoUpload /\ page[p] \in Page /\ Len(page[p].read) < Width
        /\ UNCHANGED <<config, revision, uploads, committing>>
      BY <1>1, <1>t DEF ReadPart, PageInv
  <2>2. committing # NoUpload => committing.page # p BY <1>c, <2>1
  <2> DEFINE next == IF page[p].read = <<>> THEN [page[p] EXCEPT !.token = config, !.read = <<config[1]>>]
                     ELSE IF SameRevision(p) THEN [page[p] EXCEPT !.read = Append(page[p].read, config[Len(page[p].read) + 1])]
                     ELSE NewPage
  <2>3. page' = [page EXCEPT ![p] = next] BY <1>1 DEF ReadPart
  <2>4. next \in Page /\ PageInv(next) /\ next.id = NoUpload
    <3>1. config \in Seq(Parts) /\ Len(config) = Width /\ Width \in Nat /\ Width > 0
        BY <1>t, WholeContents, UploadAssumption
    <3>2. CASE page[p].read = <<>>
      <4> DEFINE first == <<config[1]>>
                 n == [page[p] EXCEPT !.token = config, !.read = first]
      <4>1. first \in Seq(Parts) /\ FirstParts(first, config)
        <5>1. FirstParts(<<>>, config) /\ <<>> \in Seq(Parts) /\ Len(<<>>) = 0 BY <3>1, NoParts, EmptySeq
        <5> DEFINE none == <<>>
        <5>2. Append(none, config[Len(none) + 1]) = first BY <5>1
        <5>3. none \in Seq(Parts) /\ FirstParts(none, config) /\ Len(none) < Len(config) BY <3>1, <5>1
        <5> HIDE DEF none, first
        <5> QED BY <3>1, <5>2, <5>3, MoreParts
      <4> HIDE DEF first
      <4>2. /\ n \in Page /\ n.at = "reading" /\ n.id = NoUpload /\ n.token = config /\ n.read = first
          BY <2>1, <3>1, <4>1 DEF Page
      <4>3. next = n BY <3>2 DEF first
      <4> HIDE DEF n, next
      <4> QED BY <1>t, <4>1, <4>2, <4>3 DEF PageInv
    <3>3. CASE page[p].read # <<>> /\ SameRevision(p)
      <4> DEFINE more == Append(page[p].read, config[Len(page[p].read) + 1])
                 n == [page[p] EXCEPT !.read = more]
      <4>1. page[p].token = config /\ page[p].read \in Seq(Parts) /\ FirstParts(page[p].read, config)
          BY <1>t, <2>1, <3>3 DEF SameRevision, PageInv, Page
      <4>2. more \in Seq(Parts) /\ FirstParts(more, config) BY <2>1, <3>1, <4>1, MoreParts
      <4>3. next = n BY <3>3
      <4> HIDE DEF more
      <4>4. n \in Page /\ n.at = "reading" /\ n.id = NoUpload /\ n.token = config /\ n.read = more
          BY <2>1, <4>1, <4>2 DEF Page
      <4> HIDE DEF n, next
      <4> QED BY <1>t, <4>2, <4>3, <4>4 DEF PageInv
    <3>4. CASE page[p].read # <<>> /\ ~SameRevision(p) BY <3>4, NewPageInv DEF NewPage
    <3> QED BY <3>2, <3>3, <3>4
  <2> HIDE DEF next
  <2> QED BY <1>t, <2>1, <2>2, <2>3, <2>4, PageMoves
<1>2. ASSUME NEW p \in Pages, NEW draft \in Contents, EditDraft(p, draft) PROVE UploadInv'
  <2> DEFINE next == [page[p] EXCEPT !.at = "edited", !.draft = draft]
  <2>1. /\ page[p].at = "reading" /\ page[p].id = NoUpload /\ page[p] \in Page /\ Len(page[p].read) = Width
        /\ UNCHANGED <<config, revision, uploads, committing>>
      BY <1>2, <1>t DEF EditDraft, PageInv
  <2>2. committing # NoUpload => committing.page # p BY <1>c, <2>1
  <2>3. page' = [page EXCEPT ![p] = next] BY <1>2, <1>t DEF EditDraft
  <2>4. page[p].read # <<>>
    <3>1. Len(<<>>) = 0 /\ Width # 0 BY EmptySeq, UploadAssumption
    <3> QED BY <2>1, <3>1
  <2>5. page[p].token \in Contents /\ page[p].read = page[p].token
    <3>1. page[p].token \in Contents /\ FirstParts(page[p].read, page[p].token) BY <1>t, <2>4 DEF PageInv
    <3>2. page[p].token \in Seq(Parts) /\ Len(page[p].token) = Width BY <3>1, WholeContents
    <3> QED BY <2>1, <3>1, <3>2, AllParts
  <2>6. draft \in Seq(Parts) BY WholeContents
  <2>7. /\ next \in Page /\ next.at = "edited" /\ next.draft = draft /\ next.id = NoUpload
        /\ next.read = page[p].read /\ next.token = page[p].token
      BY <2>1, <2>6 DEF Page
  <2> HIDE DEF next
  <2>8. PageInv(next) BY <1>t, <2>5, <2>7 DEF PageInv
  <2> QED BY <1>t, <2>1, <2>2, <2>3, <2>7, <2>8, PageMoves
<1>3. ASSUME NEW p \in Pages, NEW id \in Ids, Begin(p, id) PROVE UploadInv'
  <2> DEFINE next == [page[p] EXCEPT !.id = id]
             fresh == [data |-> <<>>, revision |-> revision]
  <2>1. /\ page[p].at = "edited" /\ page[p] \in Page /\ id \notin Drawn /\ UNCHANGED <<config, revision, committing>>
      BY <1>3, <1>t DEF Begin
  <2>2. /\ next \in Page /\ next.at = "edited" /\ next.id = id /\ next.draft = page[p].draft
        /\ next.read = page[p].read /\ next.token = page[p].token
      BY <2>1 DEF Page
  <2>3. fresh \in Upload /\ fresh.data = <<>> BY <1>t, EmptySeq DEF Upload
  <2>4. page' = [page EXCEPT ![p] = next] /\ uploads' = [uploads EXCEPT ![id] = fresh] BY <1>3, <1>t DEF Begin
  <2> HIDE DEF next, fresh
  <2>5. page'[p] = next /\ \A q \in Pages \ {p} : page'[q] = page[q] BY <1>t, <2>4
  <2>6. \A q \in Pages : page[q].id # id BY <2>1 DEF Drawn
  <2>7. UploadTypeOK' BY <1>t, <2>1, <2>2, <2>3, <2>4 DEF UploadTypeOK
  <2>8. (\A q \in Pages : PageInv(page[q]))'
    <3>1. PageInv(next) BY <1>t, <2>1, <2>2 DEF PageInv
    <3> QED BY <1>t, <2>5, <3>1
  <2>9. StagedInv'
    <3> SUFFICES ASSUME NEW q \in Pages, page'[q].id # NoUpload
                 PROVE  /\ uploads'[page'[q].id] # NoUpload => FirstParts(uploads'[page'[q].id].data, page'[q].draft)
                        /\ \A o \in Pages \ {q} : page'[o].id # page'[q].id
        BY DEF StagedInv
    <3>1. CASE q = p
      <4>1. page[p].draft \in Seq(Parts) BY <2>1 DEF Page
      <4>2. FirstParts(fresh.data, next.draft) BY <2>2, <2>3, <4>1, NoParts
      <4>3. uploads'[id] = fresh BY <1>t, <2>4
      <4> QED BY <2>2, <2>5, <2>6, <3>1, <4>2, <4>3
    <3>2. CASE q # p
      <4>1. page'[q] = page[q] /\ page[q].id \in Ids /\ page[q].id # id BY <1>t, <2>5, <2>6, <3>2 DEF Page
      <4>2. uploads'[page[q].id] = uploads[page[q].id] BY <1>t, <2>4, <4>1
      <4>3. /\ uploads[page[q].id] # NoUpload => FirstParts(uploads[page[q].id].data, page[q].draft)
            /\ \A o \in Pages \ {q} : page[o].id # page[q].id
          BY <4>1 DEF UploadInv, StagedInv
      <4> QED BY <2>2, <2>5, <4>1, <4>2, <4>3
    <3> QED BY <3>1, <3>2
  <2>10. CommitInv'
    <3> SUFFICES ASSUME committing # NoUpload
                 PROVE  page'[committing.page].at = "edited" /\ committing.data = page'[committing.page].draft
        BY <2>1 DEF CommitInv
    <3>1. committing.page \in Pages BY <1>t
    <3> QED BY <1>c, <2>1, <2>2, <2>5, <3>1
  <2> QED BY <2>7, <2>8, <2>9, <2>10 DEF UploadInv
<1>4. ASSUME NEW p \in Pages, NEW i \in 0..(Width - 1), NEW j \in (i + 1)..Width, AppendChunk(p, i, j)
      PROVE  UploadInv'
  <2> DEFINE id == page[p].id
             data == uploads[id].data
             draft == page[p].draft
             next == Appended(data, i, SubSeq(draft, i + 1, j))
  <2>1. /\ id \in Ids /\ id # NoUpload /\ uploads[id] # NoUpload /\ uploads[id] \in Upload /\ page[p] \in Page
        /\ uploads' = [uploads EXCEPT ![id].data = next] /\ UNCHANGED <<config, revision, committing, page>>
    <3>1. id # NoUpload /\ page[p] \in Page /\ uploads[id] # NoUpload /\ UNCHANGED <<config, revision, committing, page>>
        BY <1>4, <1>t DEF AppendChunk
    <3>2. id \in Ids BY <3>1 DEF Page
    <3>3. uploads[id] \in Upload BY <1>t, <3>1, <3>2
    <3>4. uploads' = [uploads EXCEPT ![id].data = next] BY <1>4, <1>t, <3>2 DEF AppendChunk
    <3> QED BY <3>1, <3>2, <3>3, <3>4
  <2>2. draft \in Contents /\ Len(draft) = Width /\ draft \in Seq(Parts)
    <3>1. draft \in Contents
      <4>1. page[p].at = "edited" BY <1>t, <2>1 DEF PageInv, Page
      <4> QED BY <1>t, <4>1 DEF PageInv
    <3> QED BY <3>1, WholeContents
  <2>3. data \in Seq(Parts) /\ FirstParts(data, draft)
    <3>1. data \in Seq(Parts) BY <2>1 DEF Upload
    <3> QED BY <2>1, <3>1 DEF UploadInv, StagedInv
  <2>4. next \in Seq(Parts) /\ FirstParts(next, draft)
    <3> HIDE DEF data, draft, id
    <3>1. CASE i = Len(data)
      <4>1. j \in (Len(data) + 1)..Len(draft) BY <2>2, <3>1
      <4>2. next = data \o SubSeq(draft, Len(data) + 1, j) BY <3>1 DEF Appended
      <4> QED BY <2>2, <2>3, <4>1, <4>2, MoreParts
    <3>2. CASE i # Len(data) BY <2>3, <3>2 DEF Appended
    <3> QED BY <3>1, <3>2
  <2> DEFINE staged == [uploads[id] EXCEPT !.data = next]
  <2>5. staged \in Upload /\ staged.data = next
    <3> HIDE DEF next
    <3> QED BY <2>1, <2>4 DEF Upload
  <2>6. uploads' = [uploads EXCEPT ![id] = staged] BY <1>t, <2>1
  <2> HIDE DEF next, staged, data
  <2>7. UploadTypeOK' BY <1>t, <2>1, <2>5, <2>6 DEF UploadTypeOK
  <2>8. StagedInv'
    <3> SUFFICES ASSUME NEW q \in Pages, page[q].id # NoUpload
                 PROVE  /\ uploads'[page[q].id] # NoUpload => FirstParts(uploads'[page[q].id].data, page[q].draft)
                        /\ \A o \in Pages \ {q} : page[o].id # page[q].id
        BY <2>1 DEF StagedInv
    <3>1. /\ uploads[page[q].id] # NoUpload => FirstParts(uploads[page[q].id].data, page[q].draft)
          /\ \A o \in Pages \ {q} : page[o].id # page[q].id
          /\ page[q].id \in Ids
        BY <1>t DEF UploadInv, StagedInv, Page
    <3>2. CASE q = p
      <4>1. uploads'[page[q].id] = staged BY <1>t, <2>1, <2>6, <3>2
      <4> QED BY <2>4, <2>5, <3>1, <3>2, <4>1
    <3>3. CASE q # p
      <4>1. page[q].id # id BY <2>1, <3>1, <3>3 DEF UploadInv, StagedInv
      <4>2. uploads'[page[q].id] = uploads[page[q].id] BY <1>t, <2>6, <3>1, <4>1
      <4> QED BY <3>1, <4>2
    <3> QED BY <3>2, <3>3
  <2>9. (\A q \in Pages : PageInv(page[q]))' /\ CommitInv' BY <2>1 DEF UploadInv, CommitInv
  <2> QED BY <2>7, <2>8, <2>9 DEF UploadInv
<1>5. ASSUME NEW p \in Pages, BeginCommit(p) PROVE UploadInv'
  <2> DEFINE id == page[p].id
             next == [page |-> p, data |-> uploads[id].data]
  <2>1. /\ id # NoUpload /\ page[p] \in Page /\ uploads[id] # NoUpload /\ Len(uploads[id].data) = Width
        /\ committing' = next /\ UNCHANGED <<config, revision, uploads, page>>
      BY <1>5, <1>t DEF BeginCommit
  <2>2. id \in Ids /\ uploads[id] \in Upload
    <3>1. id \in Ids BY <2>1 DEF Page
    <3> QED BY <1>t, <2>1, <3>1
  <2>3. uploads[id].data \in Seq(Parts) BY <2>2 DEF Upload
  <2>4. page[p].at = "edited" /\ page[p].draft \in Contents
    <3>1. page[p].at = "edited" BY <1>t, <2>1 DEF PageInv, Page
    <3> QED BY <1>t, <3>1 DEF PageInv
  <2>5. uploads[id].data = page[p].draft
    <3>1. FirstParts(uploads[id].data, page[p].draft) BY <2>1 DEF UploadInv, StagedInv
    <3>2. page[p].draft \in Seq(Parts) /\ Len(page[p].draft) = Width BY <2>4, WholeContents
    <3> QED BY <2>1, <3>1, <3>2, AllParts
  <2>6. UploadTypeOK' BY <1>t, <2>1, <2>3 DEF UploadTypeOK
  <2>7. CommitInv' BY <2>1, <2>4, <2>5 DEF CommitInv
  <2>8. (\A q \in Pages : PageInv(page[q]))' /\ StagedInv' BY <2>1 DEF UploadInv, StagedInv
  <2> QED BY <2>6, <2>7, <2>8 DEF UploadInv
<1>6. ASSUME NEW was \in BOOLEAN, EndCommit(was) PROVE UploadInv'
  <2> DEFINE p == committing.page
  <2>1. committing # NoUpload /\ p \in Pages /\ committing' = NoUpload BY <1>6, <1>t DEF EndCommit
  <2>2. CASE was
    <3>1. /\ Install(committing.data) /\ uploads' = [uploads EXCEPT ![page[p].id] = NoUpload]
          /\ page' = [page EXCEPT ![p] = NewPage]
        BY <1>6, <2>2 DEF EndCommit
    <3>2. committing.data \in Contents BY <1>c, <1>t, <2>1 DEF PageInv
    <3>3. config' \in Contents /\ revision' \in Nat BY <1>i, <3>1, <3>2
    <3>4. NewPage \in Page /\ PageInv(NewPage) /\ NewPage.id = NoUpload BY NewPageInv DEF NewPage
    <3>5. page'[p] = NewPage /\ \A q \in Pages \ {p} : page'[q] = page[q] BY <1>t, <2>1, <3>1
    <3>6. uploads' \in [Ids -> Upload \cup {NoUpload}] BY <1>t, <3>1
    <3>7. UploadTypeOK' BY <1>t, <2>1, <3>1, <3>3, <3>4, <3>6 DEF UploadTypeOK
    <3>8. StagedInv'
      <4> SUFFICES ASSUME NEW q \in Pages, page'[q].id # NoUpload
                   PROVE  /\ uploads'[page'[q].id] # NoUpload => FirstParts(uploads'[page'[q].id].data, page'[q].draft)
                          /\ \A o \in Pages \ {q} : page'[o].id # page'[q].id
          BY DEF StagedInv
      <4>1. q # p /\ page'[q] = page[q] /\ page[q].id \in Ids BY <1>t, <3>4, <3>5 DEF Page
      <4>2. uploads'[page[q].id] = uploads[page[q].id] \/ uploads'[page[q].id] = NoUpload BY <1>t, <3>1, <4>1
      <4>3. /\ uploads[page[q].id] # NoUpload => FirstParts(uploads[page[q].id].data, page[q].draft)
            /\ \A o \in Pages \ {q} : page[o].id # page[q].id
          BY <4>1 DEF UploadInv, StagedInv
      <4> QED BY <3>4, <3>5, <4>1, <4>2, <4>3
    <3>9. (\A q \in Pages : PageInv(page[q]))' BY <1>t, <3>4, <3>5
    <3>10. CommitInv' BY <2>1 DEF CommitInv
    <3> QED BY <3>7, <3>8, <3>9, <3>10 DEF UploadInv
  <2>3. CASE ~was BY <1>6, <1>t, <2>3, PagesStay DEF EndCommit
  <2> QED BY <2>2, <2>3
<1>7. ASSUME NEW p \in Pages, Put(p) PROVE UploadInv'
  <2>1. /\ page[p].at = "edited" /\ committing = NoUpload /\ Install(page[p].draft)
        /\ page' = [page EXCEPT ![p] = NewPage] /\ UNCHANGED <<uploads, committing>>
      BY <1>7 DEF Put
  <2>2. page[p].draft \in Contents BY <1>t, <2>1 DEF PageInv
  <2>3. config' \in Contents /\ revision' \in Nat BY <1>i, <2>1, <2>2
  <2>4. NewPage \in Page /\ PageInv(NewPage) /\ NewPage.id = NoUpload BY NewPageInv DEF NewPage
  <2> QED BY <1>t, <2>1, <2>3, <2>4, PageMoves
<1>8. ASSUME NEW p \in Pages, GiveUp(p) PROVE UploadInv'
  <2>1. /\ committing # NoUpload => committing.page # p
        /\ uploads' = IF page[p].id = NoUpload THEN uploads ELSE [uploads EXCEPT ![page[p].id] = NoUpload]
        /\ page' = [page EXCEPT ![p] = NewPage] /\ UNCHANGED <<config, revision, committing>>
      BY <1>8 DEF GiveUp
  <2>2. NewPage \in Page /\ PageInv(NewPage) /\ NewPage.id = NoUpload BY NewPageInv DEF NewPage
  <2>3. /\ uploads' \in [Ids -> Upload \cup {NoUpload}]
        /\ \A id \in Ids : uploads'[id] = uploads[id] \/ uploads'[id] = NoUpload
      BY <1>t, <2>1
  <2> QED BY <1>t, <2>1, <2>2, <2>3, PageMoves
<1>9. ASSUME NEW id \in Ids, Discard(id) PROVE UploadInv' BY <1>9, <1>t, PagesStay DEF Discard
<1>10. ASSUME NEW content \in Contents, ChangeOtherwise(content) PROVE UploadInv'
    BY <1>10, <1>i, <1>t, PagesStay DEF ChangeOtherwise
<1>11. ASSUME NEW content \in Contents, NEW restarts \in BOOLEAN, Reload(content, restarts) PROVE UploadInv'
  <2>1. config' \in Contents /\ revision' \in Nat
    <3>1. CASE restarts BY <1>11, <3>1 DEF Reload
    <3>2. CASE ~restarts BY <1>11, <1>i, <3>2 DEF Reload
    <3> QED BY <3>1, <3>2
  <2> QED BY <1>11, <2>1, PagesStay DEF Reload
<1>12. CASE UNCHANGED uploadVars BY <1>12, <1>t, PagesStay DEF uploadVars
<1> QED BY <1>1, <1>2, <1>3, <1>4, <1>5, <1>6, <1>7, <1>8, <1>9, <1>10, <1>11, <1>12 DEF UploadNext

LEMMA UploadStarts == UploadInit => UploadInv
<1> SUFFICES ASSUME UploadInit PROVE UploadInv OBVIOUS
<1>1. config \in Contents BY UploadAssumption DEF UploadInit
<1>2. \A p \in Pages : page[p] = NewPage BY DEF UploadInit
<1>3. UploadTypeOK BY <1>1, NewPageInv DEF UploadTypeOK, UploadInit
<1>4. NewPage.id = NoUpload BY DEF NewPage
<1> QED BY <1>2, <1>3, <1>4, NewPageInv DEF UploadInv, StagedInv, CommitInv, UploadInit

\* For any pages, uploads and settings, what a page's save installs is its whole draft, over exactly
\* what the page had read, however chunks are repeated, delayed or lost.
THEOREM SavesAreWhole == UploadSpec => SavesAreWholeAndCurrent
<1>1. UploadInv /\ [UploadNext]_uploadVars =>
          [committing # NoUpload /\ config' # config /\ revision' # 0 =>
              config' = page[committing.page].draft /\ config = page[committing.page].read]_uploadVars
  <2> SUFFICES ASSUME UploadInv, UploadNext, committing # NoUpload, config' # config, revision' # 0
               PROVE  config' = page[committing.page].draft /\ config = page[committing.page].read
      OBVIOUS
  <2>1. committing.page \in Pages /\ committing.data = page[committing.page].draft
        /\ page[committing.page].at = "edited" /\ PageInv(page[committing.page])
      BY DEF UploadInv, UploadTypeOK, CommitInv
  <2>2. PICK was \in BOOLEAN : EndCommit(was)
    <3>1. \A p \in Pages : ~ReadPart(p) BY DEF ReadPart
    <3>2. \A p \in Pages, draft \in Contents : ~EditDraft(p, draft) BY DEF EditDraft
    <3>3. \A p \in Pages, id \in Ids : ~Begin(p, id) BY DEF Begin
    <3>4. \A p \in Pages : \A i, j : ~AppendChunk(p, i, j) BY DEF AppendChunk
    <3>5. \A p \in Pages : ~BeginCommit(p) /\ ~Put(p) /\ ~GiveUp(p) BY DEF BeginCommit, Put, GiveUp
    <3>6. \A id \in Ids : ~Discard(id) BY DEF Discard
    <3>7. \A content \in Contents : ~ChangeOtherwise(content) BY DEF ChangeOtherwise
    <3>8. \A content \in Contents, restarts \in BOOLEAN : ~Reload(content, restarts) BY DEF Reload
    <3> QED BY <3>1, <3>2, <3>3, <3>4, <3>5, <3>6, <3>7, <3>8 DEF UploadNext
  <2>3. /\ was => page[committing.page].token = config /\ config' = committing.data
        /\ ~was => config' = config
      BY <2>2 DEF EndCommit, Install
  <2> QED BY <2>1, <2>3 DEF PageInv
<1> QED BY <1>1, UploadStarts, UploadInvStep, PTL DEF UploadSpec, SavesAreWholeAndCurrent
=============================================================================
