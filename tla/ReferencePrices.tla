--------------------------- MODULE ReferencePrices ---------------------------
(* Reference prices (billing/reference_prices.go, billing/prices.go, sqlite/reference_prices.go):
   callers look prices up in a bounded cache over one database, share one download of a new
   document, and meanwhile an operator sets custom prices or switches the database. *)
EXTENDS Integers, Sequences, FiniteSets

CONSTANTS
    Callers,
    Queries,        \* what a call asks for: the keys of its upstream and its requested model
    Databases,      \* files a configuration can name
    Documents,      \* what models.dev may answer: sets of [key, canonical, rate]
    NoRate,         \* an entry without supported rates
    Capacity,       \* referencePriceCacheCapacity
    Durations,      \* minutes that may pass
    MaxCalls, MaxVersions, MaxEvents,   \* bounds: calls, documents published, other events
    NoCaller

VARIABLES
    disk,           \* per database: the documents published (the last is stored) and the metadata
    managers,       \* one per opening of a database; the last is Store.referencePrices
    custom,         \* queries whose billing model has a custom price
    call,           \* the callers' progress
    clock,          \* minutes
    quiet,          \* history: until when a database's saved metadata rules out a download
    calls, events

priceVars == <<disk, managers, custom, call, clock, quiet, calls, events>>

ASSUME PriceAssumption ==
    /\ Capacity \in Nat \ {0} /\ MaxVersions \in Nat
    /\ Durations \subseteq Nat
    /\ \A q \in Queries : q \in Seq(UNION {{e.key : e \in d} : d \in Documents} \cup {"none"})

Least(a, b) == IF a < b THEN a ELSE b
-----------------------------------------------------------------------------
(* The rate of a key: canonical entries rule out the others, and all that remain must have
   the same supported rate. *)
MatchKey(doc, key) ==
    LET entries == {e \in doc : e.key = key}
        canonical == {e \in entries : e.canonical}
        rates == {e.rate : e \in IF canonical # {} THEN canonical ELSE entries}
    IN IF Cardinality(rates) = 1 THEN CHOOSE r \in rates : TRUE ELSE NoRate

(* The upstream model decides as soon as it has entries, even conflicting ones. *)
Match(doc, query) ==
    LET known == {i \in DOMAIN query : \E e \in doc : e.key = query[i]}
    IN IF known = {} THEN NoRate
       ELSE MatchKey(doc, query[CHOOSE i \in known : \A j \in known : i <= j])

UsableRate(doc) == \E e \in doc : e.rate # NoRate      \* parseModelsDevPrices refuses the others
-----------------------------------------------------------------------------
NeverTried == -1
NoMeta == [version |-> 0, fetched |-> NeverTried, failures |-> 0, retryAfter |-> NeverTried]
RetryDelay(failures) == IF failures > 6 THEN 60 ELSE <<1, 2, 4, 8, 16, 32>>[failures]

Manager(db, meta) ==
    [db |-> db, meta |-> meta, closed |-> FALSE, sequence |-> 0, refresher |-> NoCaller,
     error |-> FALSE, storage |-> FALSE, entries |-> <<>>]
Current == Len(managers)
Stored(db) == disk[db].log[Len(disk[db].log)]

NoCall == [at |-> "idle"]
Of(c) == managers[call[c].manager]
Holds(c, i) == call[c].at = "fill" /\ call[c].manager = i
ReadersIgnored(i) == i \in Nat     \* publication and Close do not wait for readers
StorageFree(i) == \A c \in Callers : ~Holds(c, i)

NeedsRefresh(meta, found) ==
    \/ meta.version = 0
    \/ clock - meta.fetched > 24 * 60
    \/ ~found /\ clock - meta.fetched > 60
-----------------------------------------------------------------------------
(* ResolveModelPrice. Admission refreshes, the accounting of usage does not. *)
ResolvePrice(c, q, refresh) ==
    /\ call[c].at = "idle" /\ calls < MaxCalls
    /\ calls' = calls + 1
    /\ q \notin custom
    /\ call' = [call EXCEPT ![c] =
                  [at |-> "lookup", query |-> q, manager |-> Current, refresh |-> refresh, again |-> FALSE,
                   force |-> FALSE, rate |-> NoRate, failed |-> FALSE, observed |-> 0,
                   since |-> managers[Current].meta.version]]
    /\ UNCHANGED <<disk, managers, custom, clock, quiet, events>>

(* RefreshReferencePrices and EnsureReferencePrices. *)
Ask(c, force) ==
    /\ call[c].at = "idle" /\ calls < MaxCalls
    /\ calls' = calls + 1
    /\ call' = [call EXCEPT ![c] =
                  [at |-> "refresh", query |-> <<>>, manager |-> Current, refresh |-> TRUE, again |-> FALSE,
                   force |-> force, rate |-> NoRate, failed |-> FALSE,
                   observed |-> managers[Current].sequence, since |-> managers[Current].meta.version]]
    /\ UNCHANGED <<disk, managers, custom, clock, quiet, events>>

LookedUp(c, rate, manager) ==
    IF call[c].refresh /\ ~call[c].again /\ NeedsRefresh(manager.meta, rate # NoRate)
    THEN [call[c] EXCEPT !.at = "refresh", !.rate = rate, !.observed = manager.sequence]
    ELSE [call[c] EXCEPT !.at = "settle", !.rate = rate]

Cached(m, q) == {i \in DOMAIN m.entries : m.entries[i].query = q}
EntriesBut(entries, i) == SubSeq(entries, 1, i - 1) \o SubSeq(entries, i + 1, Len(entries))

LookupHit(c) ==
    /\ call[c].at = "lookup"
    /\ \E i \in Cached(Of(c), call[c].query) :
         LET entry == Of(c).entries[i] IN
         /\ managers' = [managers EXCEPT ![call[c].manager].entries = <<entry>> \o EntriesBut(@, i)]
         /\ call' = [call EXCEPT ![c] = LookedUp(c, entry.rate, Of(c))]
    /\ UNCHANGED <<disk, custom, clock, quiet, calls, events>>

(* A miss reads the database under storageMu, and keeps it while it fills the cache. *)
LookupRead(c) ==
    /\ call[c].at = "lookup"
    /\ Cached(Of(c), call[c].query) = {}
    /\ call' = [call EXCEPT ![c] =
                  IF Of(c).closed THEN [call[c] EXCEPT !.at = "settle", !.failed = TRUE]
                  ELSE IF Of(c).meta.version = 0 THEN LookedUp(c, NoRate, Of(c))
                  ELSE [call[c] EXCEPT !.at = "fill", !.rate = Match(Stored(Of(c).db), call[c].query)]]
    /\ UNCHANGED <<disk, managers, custom, clock, quiet, calls, events>>

LookupFill(c) ==
    LET i == call[c].manager
        entries == managers[i].entries
        old == Cached(managers[i], call[c].query)       \* another call may have filled it meanwhile
        others == IF old = {} THEN entries ELSE EntriesBut(entries, CHOOSE n \in old : TRUE)
        filled == <<[query |-> call[c].query, rate |-> call[c].rate]>> \o others
    IN /\ call[c].at = "fill"
       /\ managers' = [managers EXCEPT ![i].entries = SubSeq(filled, 1, Least(Len(filled), Capacity))]
       /\ call' = [call EXCEPT ![c] = LookedUp(c, call[c].rate, Of(c))]
       /\ UNCHANGED <<disk, custom, clock, quiet, calls, events>>
-----------------------------------------------------------------------------
Refreshing(i) == managers[i].refresher # NoCaller

(* What a call does with the outcome of the refresh it made, joined or found made: it looks
   again, keeps what it had, or ends. *)
Refreshed(c, error, storage) ==
    IF call[c].query = <<>> THEN NoCall
    ELSE IF ~error THEN [call[c] EXCEPT !.at = "lookup", !.again = TRUE]
    ELSE [call[c] EXCEPT !.at = "settle", !.failed = storage /\ call[c].rate = NoRate]

(* A refresh is under way: wait for it, or until the caller's time is up. *)
Join(c) ==
    /\ call[c].at = "refresh" /\ Refreshing(call[c].manager)
    /\ call' = [call EXCEPT ![c].at = "wait", ![c].observed = Of(c).sequence]
    /\ UNCHANGED <<disk, managers, custom, clock, quiet, calls, events>>

Wake(c) ==
    /\ call[c].at = "wait" /\ Of(c).sequence # call[c].observed
    /\ call' = [call EXCEPT ![c] = Refreshed(c, Of(c).error, Of(c).storage)]
    /\ UNCHANGED <<disk, managers, custom, clock, quiet, calls, events>>

WaitEnds(c) ==
    /\ call[c].at = "wait"
    /\ call' = [call EXCEPT ![c] = Refreshed(c, TRUE, FALSE)]
    /\ UNCHANGED <<disk, managers, custom, clock, quiet, calls, events>>

(* Somebody refreshed since this call looked. *)
FoundRefreshed(c) ==
    /\ call[c].at = "refresh" /\ ~Refreshing(call[c].manager)
    /\ call[c].observed # Of(c).sequence
    /\ call' = [call EXCEPT ![c] = Refreshed(c, Of(c).error, Of(c).storage)]
    /\ UNCHANGED <<disk, managers, custom, clock, quiet, calls, events>>

Due(c) == NeedsRefresh(Of(c).meta, call[c].query = <<>> \/ call[c].rate # NoRate) /\ clock >= Of(c).meta.retryAfter

Skip(c) ==
    /\ call[c].at = "refresh" /\ ~Refreshing(call[c].manager)
    /\ call[c].observed = Of(c).sequence
    /\ ~call[c].force /\ ~Due(c)
    /\ call' = [call EXCEPT ![c] = Refreshed(c, FALSE, FALSE)]
    /\ UNCHANGED <<disk, managers, custom, clock, quiet, calls, events>>

StartDownload(c) ==
    /\ call[c].at = "refresh" /\ ~Refreshing(call[c].manager)
    /\ call[c].observed = Of(c).sequence
    /\ call[c].force \/ Due(c)
    /\ managers' = [managers EXCEPT ![call[c].manager].refresher = c]
    /\ call' = [call EXCEPT ![c].at = "download"]
    /\ UNCHANGED <<disk, custom, clock, quiet, calls, events>>

(* downloadAndCommit. The same document only renews its time. *)
Publish(c, doc) ==
    LET i == call[c].manager
        db == managers[i].db
        unchanged == disk[db].log # <<>> /\ Stored(db) = doc
        log == IF unchanged THEN disk[db].log ELSE Append(disk[db].log, doc)
        next == [version |-> Len(log), fetched |-> clock, failures |-> 0, retryAfter |-> NeverTried]
    IN /\ call[c].at = "download" /\ UsableRate(doc)
       /\ ~managers[i].closed /\ StorageFree(i)
       /\ Len(log) <= MaxVersions
       /\ disk' = [disk EXCEPT ![db] = [log |-> log, meta |-> next]]
       /\ managers' = [managers EXCEPT ![i].meta = next, ![i].entries = IF unchanged THEN @ ELSE <<>>]
       /\ call' = [call EXCEPT ![c].at = "finish", ![c].failed = FALSE]
       /\ quiet' = [quiet EXCEPT ![db] = clock + 60]
       /\ UNCHANGED <<custom, clock, calls, events>>

(* The download, the document or the database fails, or the database was closed. *)
PublishFails(c, storage) ==
    /\ call[c].at = "download"
    /\ call' = [call EXCEPT ![c].at = "failed", ![c].failed = storage]
    /\ UNCHANGED <<disk, managers, custom, clock, quiet, calls, events>>

Failure(meta) ==
    [meta EXCEPT !.failures = @ + 1, !.retryAfter = clock + RetryDelay(meta.failures + 1)]

(* The pause is saved, unless the database refuses or was closed, and applies in memory. *)
Ended(c, i, error, storage) ==
    /\ managers' = [managers EXCEPT ![i] =
                      [managers[i] EXCEPT !.meta = IF error THEN Failure(@) ELSE @, !.sequence = @ + 1,
                                          !.refresher = NoCaller, !.error = error, !.storage = storage]]
    /\ call' = [call EXCEPT ![c] = Refreshed(c, error, storage)]
FailureUnsaved(c) ==
    LET i == call[c].manager IN
    /\ call[c].at = "failed" /\ StorageFree(i)
    /\ Ended(c, i, TRUE, call[c].failed \/ ~managers[i].closed)
    /\ UNCHANGED <<disk, custom, clock, quiet, calls, events>>
FailureRemembered(c) ==     \* the pause applies in memory only
    LET i == call[c].manager IN
    /\ call[c].at = "failed" /\ StorageFree(i) /\ ~managers[i].closed
    /\ Ended(c, i, TRUE, call[c].failed)
    /\ quiet' = [quiet EXCEPT ![managers[i].db] = Failure(managers[i].meta).retryAfter]
    /\ UNCHANGED <<disk, custom, clock, calls, events>>
FailureSaved(c) ==
    LET i == call[c].manager
        db == managers[i].db IN
    /\ call[c].at = "failed" /\ StorageFree(i) /\ ~managers[i].closed
    /\ disk' = [disk EXCEPT ![db].meta = Failure(managers[i].meta)]
    /\ Ended(c, i, TRUE, call[c].failed)
    /\ quiet' = [quiet EXCEPT ![db] = Failure(managers[i].meta).retryAfter]
    /\ UNCHANGED <<custom, clock, calls, events>>

FinishDownload(c) ==
    /\ call[c].at = "finish"
    /\ Ended(c, call[c].manager, FALSE, FALSE)
    /\ UNCHANGED <<disk, custom, clock, quiet, calls, events>>

(* The end of ResolveModelPrice: the custom price and the database are looked at again. *)
Switched(c) == call[c].manager # Current
Outcome(c) ==
    IF Switched(c) THEN [is |-> "error", rate |-> NoRate]
    ELSE IF call[c].query \in custom THEN [is |-> "custom", rate |-> NoRate]
    ELSE IF call[c].failed THEN [is |-> "error", rate |-> NoRate]
    ELSE [is |-> "reference", rate |-> call[c].rate]

Settle(c) ==
    /\ call[c].at = "settle"
    /\ call' = [call EXCEPT ![c] = NoCall]
    /\ UNCHANGED <<disk, managers, custom, clock, quiet, calls, events>>
-----------------------------------------------------------------------------
(* UpsertPrice, DeletePrice *)
SetCustom(q, set) ==
    /\ events < MaxEvents
    /\ custom' = IF set THEN custom \cup {q} ELSE custom \ {q}
    /\ custom' # custom
    /\ events' = events + 1
    /\ UNCHANGED <<disk, managers, call, clock, quiet, calls>>

(* ConfigureWith opens another file and swaps the manager, then closes the old one. *)
Switch(db) ==
    /\ events < MaxEvents /\ events' = events + 1
    /\ db # managers[Current].db
    /\ \A i \in 1..(Current - 1) : managers[i].closed
    /\ managers' = Append(managers, Manager(db, disk[db].meta))
    /\ UNCHANGED <<disk, custom, call, clock, quiet, calls>>

CloseOld(i) ==
    /\ i < Current /\ ~managers[i].closed /\ StorageFree(i)
    /\ managers' = [managers EXCEPT ![i].closed = TRUE]
    /\ UNCHANGED <<disk, custom, call, clock, quiet, calls, events>>

(* The process ends and starts again on the same file. *)
RestartPrices ==
    /\ events < MaxEvents /\ events' = events + 1
    /\ managers' = Append([i \in 1..Current |-> [managers[i] EXCEPT !.closed = TRUE]],
                          Manager(managers[Current].db, disk[managers[Current].db].meta))
    /\ call' = [c \in Callers |-> NoCall]
    /\ UNCHANGED <<disk, custom, clock, quiet, calls>>

Elapse(minutes) ==
    /\ events < MaxEvents
    /\ clock' = clock + minutes
    /\ events' = events + 1
    /\ UNCHANGED <<disk, managers, custom, call, quiet, calls>>
-----------------------------------------------------------------------------
PriceInit ==
    /\ disk = [db \in Databases |-> [log |-> <<>>, meta |-> NoMeta]]
    /\ \E db \in Databases : managers = <<Manager(db, NoMeta)>>
    /\ custom = {}
    /\ call = [c \in Callers |-> NoCall]
    /\ clock = 0
    /\ quiet = [db \in Databases |-> 0]
    /\ calls = 0 /\ events = 0

CallerStep(c) ==
    \/ \E q \in Queries, refresh \in BOOLEAN : ResolvePrice(c, q, refresh)
    \/ \E force \in BOOLEAN : Ask(c, force)
    \/ LookupHit(c) \/ LookupRead(c) \/ LookupFill(c)
    \/ Join(c) \/ Wake(c) \/ WaitEnds(c) \/ FoundRefreshed(c) \/ Skip(c)
    \/ StartDownload(c)
    \/ \E doc \in Documents : Publish(c, doc)
    \/ \E storage \in BOOLEAN : PublishFails(c, storage)
    \/ FailureUnsaved(c) \/ FailureSaved(c) \/ FinishDownload(c)
    \/ Settle(c)

PriceNext ==
    \/ \E c \in Callers : CallerStep(c)
    \/ \E q \in Queries, set \in BOOLEAN : SetCustom(q, set)
    \/ \E db \in Databases : Switch(db)
    \/ \E i \in 1..Current : CloseOld(i)
    \/ RestartPrices
    \/ \E minutes \in Durations : Elapse(minutes)

PriceSpec == PriceInit /\ [][PriceNext]_priceVars
-----------------------------------------------------------------------------
Answers(c, is) == call[c].at = "settle" /\ call'[c] = NoCall /\ Outcome(c).is = is
PublishedDuring(c) ==
    {disk[Of(c).db].log[v] : v \in call[c].since..Len(disk[Of(c).db].log) \cap 1..MaxVersions}

(* A call never answers with a reference price once its model has a custom price or the database
   was switched, and the price it answers with was published in that database at some moment of
   the call: no fill of the cache outlives the document it was read from (prices.go:142-186). *)
ResolvedInForce ==
    [][\A c \in Callers :
         Answers(c, "reference") /\ Outcome(c).rate # NoRate =>
            /\ ~Switched(c)
            /\ call[c].query \notin custom
            /\ \E doc \in PublishedDuring(c) : Match(doc, call[c].query) = Outcome(c).rate]_priceVars

(* Nobody but an operator asks models.dev again within the pause a saved attempt left, whatever
   calls overlap and however often the process restarts or the database is switched; only a
   call that still holds a closed database may (reference_prices.go:230-268). *)
PausesOutliveManagers ==
    [][\A c \in Callers :
         (call[c].at = "refresh" /\ call'[c].at = "download" /\ ~call[c].force /\ ~Of(c).closed) =>
            clock >= quiet[Of(c).db]]_priceVars
=============================================================================
