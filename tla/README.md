# Verification of the API-key team manager (TLA+)

This directory holds a formal model of the plugin in `src/internal`: TLA+ modules
translated from the Go source, TLC configurations that check them on small
instances, and proofs that TLAPS checks for every value of the constants.

`PROJECT.json` lists the components, runs, mutants, hazards and theorems, and maps
every definition to the source lines it stands for.

Contents: [the system](#the-system) · [the modules](#the-modules) ·
[the runs](#the-runs) · [fairness](#fairness) · [the proofs](#the-proofs) ·
[what is not modelled](#what-is-not-modelled) · [known limits](#known-limits-of-the-code) · [the plan](#the-plan)

## The system

The plugin is a library inside CLIProxyAPI (the *host*). The host calls its
handlers, concurrently, from goroutines of its own: interceptors before and after
it has selected an upstream credential, a scheduler that selects one, a usage
report after each request, a completion notice, and management calls. The plugin
starts no long-lived goroutine and no timer of its own; whatever must happen
later (expiry, renewal, retries of saves) happens lazily inside some later call.

| Component | State it keeps | Operations | Modelled by |
| --- | --- | --- | --- |
| API-key slots, `billing/concurrency.go` | `activeRequests` (request → key), `activeByScope` (key → count), limits | acquire, release, edit limit, close, switch database | `KeySlots` |
| Account runtime, `plugin/account_runtime.go` | request → account, account → count, credential aliases, policies, their file | acquire, release, edit, rotate credentials, load, install | `AccountSlots`, `AccountSettings` |
| Admission, `plugin/intercept.go` | table of running interceptor calls per request with completion markers | before-auth, after-auth, complete | `Admission` |
| Model tests, `plugin/model_test_runtime.go` | leases, each occupying an account | prepare, complete, prune | `Admission` (leases) |
| Billing store, `billing/store.go`, `sqlite/` | working set, pending changes, database, path | update, edit, configure | `BillingStore` |
| Quotas and plans, `billing/quota.go`, `plan.go`, `keys.go`, `enforce.go`, `account.go` | plans with windows, a running cycle per key and window | authorize, record usage, bind, unbind, reset, create/update/delete plan, sync keys | `Quota`, `BillingStore` |
| Routing and access, `billing/routing.go`, `access_control.go`, `credential_migration.go` | routes, groups, per-key rules, bindings | edit, delete, bind, resolve, replace a credential | `Routing` |
| Scheduler, `plugin/scheduler.go`, `routing_enforcement.go`, `routing_credentials.go` | running weights per caller and pool; classes of the accounts seen | filter and pick, prune, check the account after authentication, refresh the inventory | `Scheduler`, `CredentialPick` |
| Turn State manager, `turnstate/manager.go`, `persistence.go`, `discard.go`, `admission.go` | templates per account and model, tombstones, attributions of requests, epochs; main file and runtime overlay | before a request, learn, complete, clear, discard, update, persist, configure | `TurnState` |
| Turn State probing, `turnstate/probe*.go`, `renewal.go`, `berserk.go`, `proxy_pruning.go` | probes in flight, hourly usage, cooldowns, exit pauses, cursors, refresh rounds | reserve, finish, clear cooldowns, load | `Probe`, `Completion` |
| Turn State runner and collectors, `plugin/turn_state_runner.go`, `statecollector/` | intent and its file, lease, next check, lanes | start, stop, wake, tick, probe by hand, reconfigure | `Runner` |
| Turn State settings, `turnstate/config_upload.go`, `proxy_lists.go`, `manager.go` | uploads in progress, revision | append, commit, abandon, read in parts | `ConfigUpload` |
| Integrations, `plugin/integrations.go`, `integrations_cline.go`, `integration_migration.go` | accounts in the host's directory, a pending migration, device sessions | edit, rotate, migrate in steps, repair, publish, sign in, cancel | `Integration`, `DeviceLogin` |
| Risk control, `plugin/risk_control.go` | policy, events, remembered digests, their file | inspect, edit, clear, install | `RiskControl` |
| Traffic capture, `plugin/traffic_capture.go`, `ui.html` | bounded entries, requests in flight, listeners | three hooks, poll, clear, switch | `Capture` |
| Prices, `billing/prices.go`, `reference_prices.go`, `sqlite/reference_prices.go` | cache, one shared refresh, pauses, stored documents | look up, refresh, set custom prices, switch database | `ReferencePrices` |
| Usage handler, upstream quotas, management views, logs, analysis, HTTP, C bridge | none that decides anything | — | left out |

How they interact. A generating request passes `interceptBeforeAuth` (risk
control, routing, a key slot, the quota), the scheduler, `interceptAfterAuth` (the
selected account, an account slot, Turn State), the upstream, `usage.handle` and
`request.complete`. A retry repeats the part from the scheduler on. Slots are
plain memory behind their own locks; they are tied together only by the request
identifier and by the lock and the markers of `App.admissions`. Quotas are decided
in `Store.AuthorizeModel` and charged, possibly much later, in `Store.RecordUsage`.
Management calls edit keys, plans, accounts and settings at any point in between;
a reconfiguration replaces the database and the settings file under way.

What is hard about it:

- **Interleaving.** The completion of a request may be handled while interceptor
  calls for it are still on their way to a reservation; `configure` reads a
  settings file long before it installs it; disk writes of Turn State run with the
  manager's lock released.
- **Retries and repetition.** The same request identifier is presented again by a
  duplicate admission, by a retry with another account, by a repeated completion.
- **Lateness.** Usage is reported after the quota cycle of its request may have
  expired, been reset or been replaced by another plan's. Model tests are completed
  after their lease ran out.
- **Partial failure.** A quota refusal after the slot was reserved; a save that
  fails after traffic has changed the working set; a refused retry of a request
  that occupies an account.
- **Restarts.** Slots vanish, settings and quotas come back from disk, and what was
  pending is gone.
- **Boundaries.** 0 means unlimited, so minima are not plain minima; counters
  saturate; queues and tables are bounded.

What makes each part correct is stated, property by property, under
[the runs](#the-runs); `hazards` in `PROJECT.json` ties each source line where one of
these bites to the properties that would notice, or says why none does.

## The modules

    SlotPool                 what a concurrency limiter promises (abstract)
      ↑ implemented by
    KeySlots  AccountSlots   the two limiters of the plugin
      ↑           ↑    ↖
      └─ Admission┘     AccountSettings   settings file, reconfiguration, restart
    Quota                    cycles, windows, plans as pure operators
      ↑
    BillingStore             working set, pending changes, databases
    TurnState                templates, attributions, commits, files, crashes
    Runner   Probe           collection: who drives it; what is probed next
    Completion               when a streamed answer proves the probe
    Routing  Scheduler       what a key may use; who among those serves it
    CredentialPick           the filter before the pick, the check after it
    ReferencePrices          cache, shared download, stored documents
    Capture                  the capture and the page that polls it
    Integration  DeviceLogin rotation of an account's credential; signing in
    ConfigUpload             settings in chunks, read in parts
    RiskControl              policy, events, digests and their file
    MC*.tla + *.cfg          small instances for TLC
    *Proofs.tla              theorems, each EXTENDS its component

**SlotPool** is the abstract specification: owners, pools, caps. An owner is in at
most one pool and enters one only while it has room; pools may be re-capped, merged
or vacated. No counter, no alias. Nobody is evicted when a cap is lowered, because
the code evicts nobody.

**KeySlots** translates `concurrency.go`. `activeRequests` maps a request to its key
(`NoScope`: no entry), `activeByScope` a key to its counter (0: no entry). An
anonymous request (`NoRequest`) or one with an unknown key passes without a slot, as in
the code. Only the counter is compared with the limit; that it counts the
reservations is a theorem, not an assumption. `KeyPool` is the refinement mapping.

**AccountSlots** translates `accountRuntime`: `requests`, `active`, the alias table as
`root` (each reference's canonical reference) and `policy`. A policy belongs to a
pool and is kept for every member, as `normalizeAccountAliases` leaves it. Rotations
re-count the occupants of merged pools. `AccountPool` is the refinement mapping: an
occupant of a reference occupies its root's pool.

**AccountSettings** adds the settings file. An edit is saved and then published; a
reconfiguration is two steps, `LoadSettings` (`app.go:149`) and `InstallSettings`
(`app.go:194-196`), with whatever the host runs in between; `AbandonConfigure` is each
of its error returns. `Restart` empties the slots.

**Admission** composes both limiters with the three handlers and the model tests.
An interceptor call is a process with a program counter; its labels are the points
between which another goroutine may run: before the lock, and each critical section
of `admissionsMu`, inside which other locks are taken and released one by one. The
answers of risk control, routing, quota and Turn State are nondeterministic: their
outcome matters here, not their reason. `marked[r]` and `calls[r]` are the fields of
`admissionState`. Two host assumptions are made: no interceptor call is *started* for
a request whose completion was handled, and an after-auth call is made only for a
request let through before auth. `completed`, `cleared`, `admitted` and `granted`
are history variables: no guard but these two host assumptions reads them.

**Quota** has the arithmetic of cycles: when one starts, what it is charged, what an
edited plan keeps, what a loaded database must satisfy (`ValidateCycles`). One
metered dimension stands for the three of the code, which are treated alike. A scope
is a set of models (the code's empty scope is the set of all).

**BillingStore** is the store around them. Every operation is one critical section
of `Store.mu` including its `Save`, so one action; the answer of the database is a
parameter. `Update` is `updateResult` (takes effect whatever the database says),
`Edit` is `editConfiguration` (takes effect only once saved, and takes what was
pending along). `Configure` is both a reconfiguration and a restart: both load the
database and forget the rest. `born` in a cycle, and the variables `recorded`,
`dropped` and `forgiven`, are history.

**TurnState** is the template manager. `state` is `Manager.state` (settings, templates,
tombstones), `dirty`, `pending`, `epochs`, `prunedAt` and `base` are its fields of the
like names. A bucket is an account and a model; a template is just its value, since
the rest of the record can be read off the value and the key. A commit
(`commitStateLocked`) is three steps, because it releases the manager's lock around the
disk: `Commit` takes the copy, inside the action of each writer (`PersistLearned`,
`Clear`, `Discard`, `Update`, and the reservation and the result of a probe);
`WriteFile` or `WriteFails`; `Publish`, which merges what responses taught meanwhile
and moves the epochs. `writer` is the commit in flight, and `writerMu` with it.
`Exclusive` is `probeMu`. The hooks of requests run between any two of these steps.
The after-auth hook is two steps, `AskState` (what `intercept.go:182-184` and
`turnStateRequest` look at first) and `AnswerState` (`BeforeRequired` or `Before`),
because it takes the manager's lock twice. A request whose provider is no Codex
account, or whose payload is an image, is treated as one outside the scope: the code
does the same with both. `disk` holds the two files and a backup an operator may
have made of the overlay; `Restart` may happen anywhere, also between `WriteFile` and
`Publish`. `upstream[r]` is the host: the bucket that serves the latest attempt of
`r`; what it hands out, `IssuedTo` says. `gone`, `lapsed` and `stale` are history: what
was discarded, what expired, which attributions were invalidated. `Reconfigure` stands
for a move to another billing file and back: there is one pair of files. `SwitchPlugin` is
a reconfiguration with the same file, which keeps the attributions and may disable the
plugin (`pluginOn`, `Store.Enabled()`): then, and while State is suspended, the hooks look at
nothing (`Looks`) and attempts and responses pass. `passed` and `guessed` are history: the
requests whose latest attempt left the attribution of an earlier one in place, and what the
responses to such attempts taught.

**Runner** is the runner inside the plugin and the collector processes around it. The
head of a tick (`SendTick`) reads the settings before it takes the runner's lock, so what
it read may be old when `BeginTick`, `IdleTick` or one of the two refusals use it. A start
or stop is three steps with `controlMu` held: `BeginSet` raises the barrier of a stop,
`SaveControl` writes the file, `PublishControl` puts it in effect. A lane is a process:
admitted under the lock (`ClearLane`), past the global switch (`CallProbe`), probing
(`ReserveProbe` … `EndProbe`, `FailProbe`). What a probe does is `Probe`'s affair.
`owed` is history: a wake no tick has begun to answer.

**Probe** is what `selectProbeLocked` and its neighbours decide. Deadlines are countdowns.
`Selected` composes the classes of the code (renewals, first probes, refreshes) with
their cursors and the burst counter; `Reserve` takes slot, exit, cursor, pacing and the
hour's budget at once, as the commit does; `Finish` is the whole outcome: template,
pauses of account and exit, removal of exits, refresh rounds. A commit that the disk
refuses is a parameter of both; `Learn` is a template that traffic brought, which keeps the
refresh round of the one it replaces; `StopProbing` is a restart, which forgets what was in
memory only. `sent` and
`refusedFor` are history.

**Completion** is a pure reader: the lines of a stream one at a time
(`verifyProbeSSECompletion`) with the name and the data of the event that is open. The
definition it is compared with looks at the whole stream.

**Routing** has the edits as transactions with what each refuses, and `Resolve`/`Allowed`
as the code resolves a key. Patterns are sets of models, categories a function of the
credential. `rotating` is history: the pairs replaced so far.

**Scheduler** is the smooth weighted round robin of `pick`: weights are added to the
members offered, the chosen one pays the sum, members and pools beyond the bound are
evicted. `passed` is history: how often a candidate was passed over in a row.

**CredentialPick** puts the two decisions about one request side by side: `pickCredential`,
asked before authentication with the candidates' attributes and the client's name for the
model, and `interceptAfterAuth`, asked with the inventory and the upstream model. Between
them rules, templates, switches and the inventory may change (`picked.overtaken`), and CPA
may ask again without an account that failed (`Retry`). A name is exact, an alias, or
missing. The routing decision is one of a few instead of `Routing`'s result.

**ReferencePrices** gives each caller a program counter: cache, database, wait for the
shared refresh, download, settle; between the labels no lock is held. A manager lives as
long as its database is configured; a call keeps the one it started with.

**Capture** has each hook as one critical section, and the page as a process that polls
with a cursor, may lose an answer, and starts over when the revision is lower than its
own. The page also sends commands (watch, stop, clear) and checks of the hooks
(`PageCommand`). The answer to one of these takes off the page what it does not list and
leaves the cursor alone (`ReceiveCommand`, `receiveCapture` without rows); the page then polls
anew and ignores the poll under way, which a check may let go on. Commands of others
(`Command` alone) reach the server only. `taken` is history: the entries that an answer took
off out of step with the polls and that no poll has brought back.

**Integration** follows one account over the host's directory, the permissions and the
account limits: `Rotate` spends the refresh token and leaves a migration, whose steps
follow one by one or are repaired by the next handler; the process may end between any
two. `DeviceLogin` is the sign-in: session, poll in three steps, cancellation.

**ConfigUpload** has chunked saves by two pages, the draft and the parts a page read,
expiry, abandonment and the commit with the lock released (`BeginCommit`, `EndCommit`). The
saves are those that carry an expected revision (`manager.go:500`), as the page's do when a
pool changed (`ui.html:12721-12726`); a save without one is a `ChangeOtherwise`.

**RiskControl** is policy, events and digests with their file. An inspection goes on when
its save fails; a command does not.

## The runs

Each run takes TLC between a few seconds and about three minutes.

| Run | Instance | Shows |
| --- | --- | --- |
| `admission` | 2 overlapping calls, 1 request, 1 model test, 2 references | `CompletedHoldsNothing`, `AccountSlotsFollowAttempts`, `MarkersFollowCalls` |
| `admission_pair` | 2 calls, 2 requests, 1 key, 1 account, limits 0, 1 | `SlotsAreAdmissions`, `ImplementsKeyPool`: the key slots within the composition |
| `admission_live` | 2 calls, 1 request, 1 account, fair | `CallsReturn`, `SlotsFreedForGood` |
| `account_settings_race` | 2 owners, 3 references, limits 0, 1, one file, rotations of one or two entries | **violation** of `RotatedCredentialsShareOnePool`, finding 1 |
| `billing_store` | 1 key, 1 plan, 1 window, 2 databases, saves that fail, clock 0..1, 2 usage records, queue of 1, counters up to 1 | `DatabaseLoads`, `LoggedOnce`, `PendingReachesTheLog` |
| `quota` | 1 key, 1 plan, 1 window out of three kinds (with and without scope and anchor), 2 models, clock 0..2, 2 usage records, reliable saves | `CyclesCountTheirRecords`, with schedules, scopes and grids that change under running cycles |
| `turn_state` | 1 bucket, an older and a newer value, 1 request, lifetimes 1 and 2, 3 file writes, clock 0..2 | `DiscardedStaysGone`, `RestartKeepsSaved`, `ExpiredStaysExpired`, `StaleResponsesTeachNothing` |
| `turn_state_pair` | 2 accounts with a value each, 2 requests, plugin disabled and enabled, injection on and off, 2 file writes | `LookedAtTemplatesServe` |
| `turn_state_switch` | 2 accounts, 1 request, State suspended and resumed | **violation** of `TemplatesServeTheirBucket`, finding 2 |
| `collection` | 2 collectors with 2 calls at once, or 1 with restarts and 2 installations; 1 lane, 2 starts and stops, 1 change of settings; and six probe settings over 2 accounts, 2 models, 3 exits, 2 slots, an hour of 2 ticks; fair | `IntentIsSaved`, `WakesAreAnswered`, `StopAdmitsNoProbe`, `CollectionGoesOn`; `ProbesStayWithinLimits`, `RefusalsPause`, `NoBucketStarves` |
| `turns` | the probes alone: 2 slots, 2 accounts with 2 models each, every probe fails; fair | **violation** of `EveryBucketGetsItsTurn`, finding 3 |
| `parts` | eleven parts that share no state, each in behaviours of its own, sizes in `MCParts.cfg` | `RotationSurvives`, `ImplementsAccountPool`, `RoutingResolves`, `AccessFollowsRules`, `RotationCarriesAccess`, `FairShare`, `ResolvedInForce`, `PausesOutliveManagers`, `CaptureAccounts`, `PageShowsWhatIsRetained`, `AccessFollowsRotation`, `TokenUsedOnce`, `AnswersAreTrue`, `SavesAreWholeAndCurrent`, `RiskSurvivesRestart`, `CompletionIsEvidence`, `PickAgreesWithCheck` |

`collection` and `parts` put components side by side that share no variable; `part` picks
one at the start of a behaviour and the others stand still. Nothing is composed by that:
it checks each of them in one pass. Where components do interact they are composed:
`Admission` (both limiters, model tests), `AccountSettings` (the table and its file),
`BillingStore` (quotas and saving). The outcome of a probe as `TurnState` sees it is one of
the outcomes of `Probe`, and what `Runner` calls a probe is a slot of `Probe`.

What the properties say, in the order of their importance:

- `CompletedHoldsNothing`: once the completion of a request was handled, it holds no
  slot, and never again, although interceptor calls that started earlier may reach
  their reservation later. This is what the markers exist for.
- `SlotsFreedForGood`, `CallsReturn`: every slot is eventually free for good, every call
  returns.
- `CyclesCountTheirRecords`: for every running cycle, in memory and in every
  database, the usage counted equals the number of logged usage records that belong
  to it: same key, model in scope, request made while the cycle was open. Late,
  out-of-order, failed and retried reports, edits of plans and
  restarts do not disturb it. Where the counter saturates it is the maximum.
- `DatabaseLoads`: whatever was saved can be loaded; the plugin refuses to start
  otherwise, so a single inconsistent save would lock the operator out.
- `LoggedOnce`, `PendingReachesTheLog`: retries neither repeat, reorder nor lose
  records; only the bound of the queue does, and a reconfiguration.
- `DiscardedStaysGone`: once a discard succeeded, the value is never usable again:
  not through a response or a probe in flight, not through the copy another commit
  is saving, not after a crash, not with an older overlay put back beside the main file.
- `StaleResponsesTeachNothing`: a response to a request sent before its bucket was
  cleared or discarded, or before the template rules changed, adds no template.
- `RestartKeepsSaved`: between commits the files hold the settings and, bucket for
  bucket, the template in memory; where something learned still awaits saving, they
  hold an older one or none. So a crash loses unsaved learning and nothing else, and
  brings back nothing that was cleared.
- `ExpiredStaysExpired`: a longer lifetime does not resurrect what had expired under the
  shorter one, although templates are cleaned up lazily.
- `LookedAtTemplatesServe`: a template is filed under the account and model whose
  upstream handed it out, although retries reuse the request identifier and responses
  may not name their account; but for what the response to an attempt that the hooks let
  pass taught (finding 2).
- `SlotsAreAdmissions`, `AccountSlotsFollowAttempts`: between critical sections the two
  slot tables are functions of the history of admissions: refusals leave nothing
  behind, duplicates take nothing away, a retry moves its slot.
- `MarkersFollowCalls`: the table of admissions is exactly the set of running calls.
- `ImplementsKeyPool`, `ImplementsAccountPool`: the maps, counters and aliases of the
  limiters behave like the abstract pool.
- `RotationSurvives`: a saved rotation keeps the two credentials in one pool across
  restarts.
- `StopAdmitsNoProbe`: once a stop is saved no lane is admitted to another probe, although
  the tick under way began before it. `IntentIsSaved`: what was acknowledged is what a
  restart reads. `WakesAreAnswered`: the end of a tick does not overwrite the check that a
  start, a stop or a wake asked for meanwhile.
- `CollectionGoesOn`: once started for good, ticks run and end again and again, whatever
  collectors die holding the lease, calls are sent twice, fail or panic.
- `ProbesStayWithinLimits`: no hour sees more probes than its budget, over lanes, failed
  saves and restarts, and but for berserk renewal an account is probed once at a time.
  `RefusalsPause`: it is not probed at all for the time a refusal asked for, through any
  exit, for any model, also when the pause could not be saved.
- `NoBucketStarves`: renewals, first probes and refreshes compete; none that waits for a
  first probe or a renewal waits for ever, as long as each account has one model.
- `AccessFollowsRules`: no key is granted what no rule of it grants, every denial wins,
  and under an exclusive group the key's own rules only narrow. `RoutingResolves`: no
  sequence of edits leaves a key whose rules cannot be resolved. `RotationCarriesAccess`:
  a replaced credential hands over exactly its permissions.
- `PickAgreesWithCheck`: unless something changes in between, an account the pick chose is
  not refused by the check, and no request is turned away that an account it may use would
  serve; with the exceptions the code makes on purpose, and one under the known limits.
- `FairShare`: a candidate that is offered again and again is passed over a bounded number
  of times, however members, weights and pools change under the running weights.
- `ResolvedInForce`: a price is never answered from a document or a database that was
  replaced before the call began, nor for a model with a custom price.
  `PausesOutliveManagers`: a failed download's pause holds over restarts and switches.
- `CaptureAccounts`: the byte counter and the table of requests in flight follow every
  eviction, retry and clearing. `PageShowsWhatIsRetained`: after a poll's answer a page that is
  sent only changes shows exactly what was retained, but for what the answers to its own commands
  took off it out of step with its polls. In step they take nothing that is retained.
- `AccessFollowsRotation`, `TokenUsedOnce`: wherever the replacement of an integration
  credential is cut off, the channel served keeps its permissions and limits, and a
  one-time refresh token is not spent twice.
- `AnswersAreTrue`: a sign-in reported as cancelled leaves no account, one reported as
  complete has been saved.
- `SavesAreWholeAndCurrent`: what an upload installs is one page's draft, whole and in
  order, over the settings that page had read.
- `RiskSurvivesRestart`: the policy in force is the saved one, and without a shown storage
  error a restart neither forgets nor brings back.
- `CompletionIsEvidence`: the line-by-line reader confirms exactly the streams that the
  definition over the whole stream calls completed.

**The findings.** (1) `configure` reads the account settings at `app.go:149`, then waits for
the runner's gate and loads the billing database, and installs what it read at
`app.go:194-196`. A credential rotation that is saved in between is overwritten in
memory: the old and the new credential are separate pools with separate limits, against
the promise at `account_runtime.go:147-149`; the next saved edit then makes the loss
permanent. `account_settings_race` has the trace: load, rotate, install. This is why
`RotationSurvives` carries the reservation `~overlapped[p]`.

(2) While State is suspended the after-auth hook leaves before it forgets the attribution
of the previous attempt (`intercept.go:182`, `turn_state.go:200`). A request that is tried
on one account, retried on another during a suspension, and answered after it, has its
second account's value filed under the first, provided the response does not name its
account. The comments at `turn_state.go:203-204` and `manager.go:724-725` rule that out.
`turn_state_switch` has the trace: ask, answer, suspend, ask, resume, learn. Two other ways
lead there: the plugin is disabled for the retry and enabled before the response, by a
reconfiguration with the same file, which keeps the attributions (`manager.go:245-252`); or
the models in scope change between the two looks of the hook (`AnswerState`, second
disjunct). `guessed` holds what is learned like that, and `LookedAtTemplatesServe` says that
there is no fourth way.

(3) With more than one lane, `selectProbeLocked` leaves out the buckets of an account that
has a probe in flight or is pacing (`probe.go:501-515`), but moves its class's cursor past
them (`probe.go:609-627`). Such a bucket loses its turn, and others of its class are tried
again and again before it, although `probe.go:599-600` says "Within each class every bucket
gets one attempt before an earlier bucket gets another, regardless of pool size." `turns`
has the trace: two lanes fall into step so that one model of each account is never tried.
Hence the reservation of `NoBucketStarves`.

**Why the bounds are enough.** The interesting cases are: contention (one owner
more than a limit), two pools to move between, two overlapping calls (the markers and the
lock relate a call to a completion or to one other call), a queue of one (the next record
overflows it), a counter of one in `billing_store` (the next record saturates it; `quota` has
no record beyond its maximum, and what a saturated cycle holds is left to the theorem), a clock of two
ticks (a cycle of period two is opened off its grid, and expires on it), two
databases (what one holds while the other is current). For Turn State: two values of
different age (newer replaces older, not the reverse), three writes (one that settles a
state, one that fails or crashes half-way, one after it), lifetimes of one and two
ticks (the second brings back what the first let expire), one bucket, since commits
treat buckets alike, and two accounts where attribution is the question. For the
collection: two collectors and two calls of each (a lease taken over under a running
tick, a call sent again), a lease and a window of one tick (both run out under a tick), two
revisions (a start and the stop after it); two probes at once over two accounts with two
models. For the rest: two routes' worth of rules on one key under two groups, one of them
exclusive; three candidates with weights 1 and 2 (the smallest pool in which running
weights leave zero by more than one weight); two callers over two databases and two
documents; two requests over two upstreams with room for two entries; two refresh tokens
after the first; two sign-ins with room for one; two pages and two parts; streams of four
lines (an event, its data, its end, and what is left of the event before). None of the code inspects
larger numbers. The slot components and the runner are moreover proved for every size.
Symmetry is used only in runs without liveness properties. `CHECK_DEADLOCK` is off only in
`parts`, where a part may be done: a stream is read to its end, the bound on calls or hooks is reached.

The runs leave to the theorems what would not fit into them: the shutdown of the store
(`SlotsProofs`), cycles past the counter's end and restarts under late usage (`CyclesAreCounted`),
rescheduled and re-scoped windows over restarts (`AlwaysLoadable`), the eviction of scheduler
pools (`SharesAreFair`), the pruning of test leases from the account table
(`AdmissionKeepsAccountPool`), suspensions and changes of the scope under retries
(`TemplatesServeTheorem`).

A tick of Turn State's clock is longer than the minute between two lazy clean-ups, so a
clean-up happens at most once per tick; nothing in the code depends on shorter times.
`ExpiredStaysExpired` leaves out what expires while the very change of the settings is
being written: the copy is then older than the expiry.

Bounds in guards: `MaxTracked` (owners the account table may hold, 100000 in the
code), `MaxPatch` (accounts named by one edit),
`MaxTests` (`modelTestMaxActive`), `MaxPending` (`maxPendingRequestRecords`),
`MaxCount` (2^63 − 1), `MaxTime` (clock), `MaxEvents` (usage records; listener events in
`ReferencePrices`), `MaxWrites` (file writes of Turn State), `MaxEpoch`
(reconfigurations), `MaxRevision`, `MaxSettings`, `MaxRestarts` (starts and stops, changes of
settings and restarts in `Runner`), `MaxStops` and `MaxUsage` (restarts and charges in
`Probe`), `MaxReweighings` (`Scheduler`), `MaxCalls`, `MaxVersions` (`ReferencePrices`),
`MaxHooks` (`Capture`), `MaxSaves` (`ConfigUpload`), `MaxLines` (`Completion`). `MaxPending` and
`MaxDiscarded` of `TurnState`, `MaxPools`, `MaxPerPool`, `Capacity`, `MaxEntries`, `MaxBody`,
`MaxTotal`, `MaxListeners`, `MaxLogins`, `MaxUploads` and `MaxHashes` are the code's own limits.

## Fairness

`admission_live`: `SF(Continue(c))`: a started call keeps running. Its
downloads have deadlines, every lock is released by a deferred call, and
`sync.Mutex` in its starvation mode hands a contended lock to the longest waiter, so a
call that can take the lock again and again does take it eventually: strong, not
weak, fairness. `SF` on the completion of a request that is not yet completed: the host
owns the request's life and completes each exactly once, however it ends. No fairness is
put on the start of calls, on model tests, on edits or on the clock.

`collection` and `turns` use `RunnerFairness` and `ProbeFairness`, each guarded by `part`. Weak
fairness of a started start or stop, of a manual call's end, of the steps of a tick and of
its lanes: they are ordinary code behind locks released by deferred calls, and probes have
a deadline of 25 s. Weak fairness of the clock. Strong fairness of a living
collector's next heartbeat, since `Collector.Run` sends one whatever became of the last:
strong because `Ticks` bounds how many calls the host serves at once, which it does not.
For the probes: a probe in flight ends, the clock runs, and the next one is reserved
whenever one may be, which is what the running tick does. No fairness is put on
operators, restarts, deaths or particular outcomes.

## The proofs

All theorems are for arbitrary sets of calls, requests, keys, references,
model tests, collectors, lanes and arbitrary natural limits, under the named assumptions of the
modules (`KeySlotsAssumption`, `AccountSlotsAssumption`, `SettingsAssumption`,
`AdmissionAssumption`, `BillingAssumption`, `TurnStateAssumption`, `RunnerAssumption`, `ProbeAssumption`,
`IntegrationAssumption`, `LoginAssumption`, `RoutingAssumption`, `PickAssumption`,
`UploadAssumption`, `SchedulerAssumption`, `RiskAssumption`, `PriceAssumption`, `CaptureAssumption`,
`CompletionAssumption`: finiteness where something is counted, and that the "absent" values are
outside their sets), which TLC evaluates in every run. `CompletionAssumption` fixes the names
and contents of a stream's events to the kinds its reader tells apart; what is arbitrary
there is the number of lines. Four say more, and the code sees to
them: a rule's selectors name a source and a provider (`normalizeCredentialProviderSelector`,
`routing.go:195`), the candidates the host reports usable are among those it offers, no hourly
limit is above the count at which reservations saturate (`manager.go:384`), and a replacement is
another credential with the provider of the one it replaces, whose record it takes over
(`credential_migration.go:19`, `68`).

- `SlotsProofs`. *Key slots.* `KeyInv` = types and `KeyCountsHolders`. The counter's type
  alone is not inductive: that it is not decremented below zero follows only from its
  counting a non-empty set. From it: `KeyTypeCorrect`, `KeyCountersExact`,
  `KeyLimitKept`, `SlotStaysWithKey`, and the refinement `KeySlotsImplementPool`.
  *Account slots.* Lemmas about the account table's operators (`Strictest`,
  `Normalized`, `Joined`: alias chains stay one hop long, merged pools get one limit,
  the stricter of the finite ones) and that each operation keeps `AccountInv`.
- `AccountsProofs`. *Settings.* `SettingsInv` adds that every saved file and whatever was
  loaded is normalised, and that a rotation on record is one pool on disk, in a load
  that no edit overlapped, and in memory. The clause about the *loaded* settings is
  what makes it inductive: without it an installation could undo a rotation. From
  it: `AccountTypeCorrect`, `AccountCountersExact`, `RotationDurable`,
  `RotationNeverLoosens`, `AccountSlotsImplementPool`.
  *Round robin.* A bound on every candidate alone is not inductive: the chosen one pays for
  all, and who takes part changes from pick to pick. `Balanced` therefore bounds the sum of the
  running weights over *every set* of candidates, by `Drift`, a function of its size that is
  concave and vanishes for the empty set. A turn adds weight to a set that the chosen one is
  not in, or takes it from one that it is in and others are not; then someone inside and
  someone outside can be compared, since the chosen one is ahead, and exchanging them gives the set's
  sum as the mean of those of a larger and of a smaller set, which concavity puts well below
  the bound (`Exchange`, `AdvancedIsBalanced`). Trimming a pool restricts the sums to fewer
  candidates, whose bound is smaller (`PartIsBalanced`). `Gathers` ties the history to this: who
  was passed over has gathered as much weight. Hence `WeightsDoNotDrift` and
  `SharesAreFair`: with N candidates (numbered from 0) and weights up to W, `PassBound(W)` is
  (2NW + W)(2N - 2). It is far above what small instances show (`parts` checks 6 for three
  candidates of weight 1 or 2), and what matters is that it depends on nothing else: not on the
  number of pools or picks, nor on the order in which candidates come and go. The theorem
  supposes a largest weight and `MaxPasses >= PassBound(W)`, which the claim of the run is not:
  theorem and run state the same formula for different constants. The model's
  integers are unbounded; by `WeightsDoNotDrift` so may the code's int64 be taken to be, as
  long as `PassBound(W) + W` fits into one. Sums are a function of the number summed
  up to, reasoned about by the least place where two such functions differ (`SumIsLast`).
- `AdmissionProofs`. `AdmissionInv` = types, the two slot invariants, `LockOK` (the lock
  is held by the one call in a critical section), `MarkersFollowCalls`,
  `PastCheckLive` and `CompletedHoldsNothing`. The argument: a call past its check for
  the marker holds the lock, so its request cannot be completed before it returns;
  a call before the check will find the marker, because the entry that carries it lives
  as long as any call does. From it: `AdmissionTypeCorrect`,
  `NothingAfterCompletion`, `MarkersExact`; and the composed system is an execution of
  `KeySlots` (`AdmissionUsesKeySlots`), so it inherits `AdmissionKeepsKeyLimits`. `OwnersInv`
  says who owns a slot *inside* critical sections too: a key slot belongs to an admitted
  request or to the one call that has reserved it and waits for the quota's answer
  (`KeySlotsOwned`); an account slot to the attempt granted last, unless a call has just
  moved it and has not passed the gate (`AccountsOwned`). The first alone is not inductive: a
  refusal may roll back only what its own call reserved, which `ReservedLate` pins to the
  labels after the reservation. From it: `SlotsFollowAdmissions`, `AccountsFollowAttempts`,
  `AdmissionKeepsAccountPool`.
- `BillingStoreProofs`. `StoreInv` = types, `OnlyUsageAwaitsSaving`, and for the working
  set and every database: each key fits its plan (`Sound`) and pays since its last
  binding or reset only (`PaysSince`). The argument: everything in which memory and
  disk differ is named by the pending changes, so a database that is written becomes a
  copy of the working set (`SavedIsState`) and inherits what holds of it; a failed write
  leaves a copy of an older one. What holds of the working set is shown operation by
  operation; that cycles stay on their windows' grids rests on three lemmas about
  remainders (`StartOnGrid`, `SameGrid`). From it: `StoreTypeCorrect`,
  `InEffectIsSaved`, `AlwaysLoadable`, `NeverPaysTwice`. `BillingAssumption` asks for
  finiteness of the sets and that `NoPlan` is neither a plan nor its identifier.
  The log: every operation moves the records in one of few ways (`RecordsMove`): the queue
  grows by at most one, loses its oldest, and is written in full or kept. Log and queue
  together are then strictly ordered by number (`LogsNumbered`); from these
  `RecordsLoggedOnce` and `NoRecordLost`. The cycles: a database must answer for the records
  in its log *and* for those dropped before its last one, the working set for the queued and
  the dropped too (`CountsInv`). An operation that records nothing leaves each running cycle
  as it is or opens one that no record can belong to yet (`CyclesStay`); `RecordUsage` adds
  one to exactly the cycles its record belongs to (`RecordUsageCounts`). From it:
  `CyclesAreCounted`.

- `TurnStateProofs`. Types, and two inductive invariants. `DiscardInv`: the tombstone of
  every discarded value that its age has not retired is in memory, in the copy being
  saved and in the *main* file (`TombstonesKept`), and a discard is written in full
  (`DiscardsAreFull`). Every way back to memory passes one of the three; an overlay can
  only add tombstones. This is why `Discard` must write the main file, and the mutant that
  writes the overlay breaks it. `AttributionsAreDated`: an attribution's epoch has been,
  and that of an invalidated one lies before the invalidation; it holds because an
  invalidation moves the epoch past every attribution there is. From them:
  `TurnStateTypeCorrect`, `DiscardedStaysGoneTheorem`, `StaleResponsesTheorem`, under
  `TurnStateAssumption` (natural times and limits, lifetimes of at most an hour, absent
  values outside their sets; no finiteness is needed). TLC has checked both
  invariants on the instance of `turn_state`.
  For what a restart finds, `StoreSteps` reduces the actions to the few things that happen to
  memory, copy and files. `FilesInv`: the overlay that belongs to the main file names its
  digest, both carry the same settings, and what awaits saving (`dirty`) is what memory holds, not
  of a date to come and not tombstoned. `LapsedInv`: wherever a lapsed template can still come back from (memory, the copy,
  the main file, an overlay of its checkpoint, the backup), it comes back unusable; hence
  `ExpiredStaysExpiredTheorem`. `SavedInv`: the main file has every live tombstone and between
  commits the files agree with memory bucket by bucket; hence `RestartKeepsSavedTheorem`.
  `TemplatesServeTheorem` rests on `AttributionsAreTrue` (an attribution names the bucket of
  the upstream its request is at, unless the attempt there has passed the hooks) and
  `CopiesServe` (memory, the copy, the files and the backup hold what serves its bucket or was
  guessed). It has no hypothesis: the plugin and State may be switched and every setting may
  change at any time.

- `RunnerProofs`. `RunnerInv` = types, `IntentInv`, `DriverInv` and `WakeInv`. `IntentInv` relates
  memory, file and barrier at each step of a start or stop: the file is ahead of memory
  only while the handler is between its save and its publication, and then the barrier of
  a stop is up. That is why `StopAdmitsNoProbe` holds of the *file*. `DriverInv` adds to
  `OneDriver` that a tick under way belongs to a collector, without which a second tick of
  the same collector could not be shown to leave the lease alone. `WakeInv` says what a
  running tick can still notice: either the wake itself or a revision later than the one it
  began with; that it began no later than the present one makes it inductive. From it:
  `RunnerTypeCorrect`, `OneDriverAlways`, `IntentAlwaysSaved`, `WakesAlwaysAnswered`,
  `SavedStopBarsLanes`.
  `ProbeInv` is about the probes. The bucket selected is one of the settings and ready, whichever
  of the three classes it comes from (`SelectedIsReady`: the place of a bucket in the settings
  is a number, and a nonempty set of numbers has a least element), so its account is neither
  busy nor resting. Outside berserk renewal an account rests for as long as its last refusal
  asks (`RefusalInv`). That alone is not inductive: the next answer sets the pause anew, and
  would shorten it, but for there being no other probe of the account in flight. The hour's
  reservations are counted as a set, to which a reservation adds at most one element and
  from which time only takes some (`ReservedAddsOne`, `AgedLeaves`). From it:
  `ProbesKeepTheirLimits`, `RefusedAccountsRest`.
  `CompletionInv` is about the reading of a stream (`Completion`): the name and the data at hand
  are what the lines since the last blank one say (`Reading`), and every event before it
  neither failed nor confirmed (`Passed`). The events are stated by one pass over their lines
  (`Says`), which a further line extends (`SaysMore`) and leaves alone where it has ended
  (`EndsKept`); that this is what the definition of evidence reads is `EventFound`. With
  `JudgedIs`, that the checks at a blank line decide what that definition asks, it gives
  `ConfirmedByEvidence`.

- `PartsProofs`. Five parts of `parts`, one invariant each.
  *Integration.* An account without a migration is `Settled`: channel, permissions and pool
  are those of its key. One with a migration is `Replacing`: the six facts of `Replacing` order
  the steps, from "the new key has what the old one had before any channel carries it" to
  "the old one loses its permissions only once the new channel is published". This holds of the
  saved account and of the one in memory, which may differ, since a save may fail
  (`RotationInv`); a migration is prepared only where the saved account has it too
  (`PreparedIsSaved`), or a restart would forget that permissions were moved. `TokenInv`: the
  token at hand is unspent. Hence `RotationKeepsAccess`, `TokensUsedOnce`.
  *Device login* (`LoginInv`): an open session whose account is not registered has saved
  nothing, and a cancelled one is closed. Hence `AnswersStayTrue`.
  *Routing* (`RoutingInv`): nothing is bound to a route or group that is gone, and no key is in
  two exclusive groups (`Bindings`), so `Resolve` reaches none of its error branches
  (`RulesResolve`). `AccessFollows` then is a case analysis of the three branches of `Resolve`,
  each described by the fields of its decision (`ExclusiveFields`, `CombinedFields`,
  `OpenGrantFields`). For `RotationsCarryAccess` a rule `Carries` another over when it says of the
  new credential what the other says of the old one: preparing a replacement makes every rule
  carry over its former self, merging and the open grant keep that (`MergedCarries`,
  `OpenCarries`), so the two decisions of each key are alike (`ResolveAlike`) and alike decisions
  allow the same (`AlikeAllows`). A replacement that also changed the provider would not do.
  *Credential pick* (`PickInv`): an undisturbed pick is what would be chosen now, and the
  inventory knows every class that was told. What remains is to compare the filter of the one
  side with the checks of the other (`InvChoicesPass`, `InvRefusalsAreFinal`). Hence `PicksAgree`.
  *Uploads* (`UploadInv`): a page has read the first parts of the configuration its token
  names, an upload holds the first parts of its page's draft (`FirstParts`), no two pages share
  an upload, and a commit in flight has the whole draft. Hence the action property
  `SavesAreWhole`.
- `CopiesProofs`. Parts that answer from a copy, one invariant each.
  *Risk control* (`RiskInv`): memory and file agree on what they *show*, not on the events they
  hold, since what has expired or is beyond the limit is dropped from the one and not yet from the
  other. Events are in the order they were recorded (`Ordered`, which `RiskState` includes), so
  the unexpired ones are the last ones (`UnexpiredIsSuffix`); then pruning twice is pruning once
  (`ShownAgain`), and two lists that show the same still do after the same event is added
  (`EventAppended`) and a day later (`ShownADayLater`). Hence `RiskSurvives`.
  *Prices* (`PriceInv`): at most one open manager per database (`Opened`), so that nobody else
  publishes in it; an open manager's metadata name the stored document, and every cached rate is
  that document's (`ManagerOK`); a call between the database and the cache holds `storageMu`, so its
  rate is still that of the stored document (`CallOK`), and what a call has found was published
  since it began (`Witnessed`). The pause a saved attempt left is told by its `retryAfter`, or by
  a document less than an hour old (`Paced`), in the database and in every open manager; no
  later failure shortens it, because a delay is never shorter than the one before (`Delayed`,
  `DelaysGrow`), which an unsaved failure needs. Hence the action properties
  `PricesResolvedInForce` and `PausesOutlive`.
  *Traffic capture* (`CaptureInv`). `Sound` is about the capture alone: numbers are unique and
  given out once, every entry was last written under a revision given out, with the bytes it
  holds, and every request in flight has an entry that `Serves` it. While a request is being
  recorded its new entry is blank, so `Booked` says this of all entries but one, and
  `Touched` closes the gap (`TouchedOK`). Sums over entries are a function of the number of
  entries summed; two such functions of the same entries agree, by the least place where they
  would differ (`SumsAgree`), which gives what appending, replacing and cutting off entries
  does to the bytes (`BytesAppended`, `BytesReplaced`, `BytesSplit`). Hence
  `CaptureKeepsAccounts`. For the page, no operation changes or adds an entry without a revision
  above all earlier ones (`Moves`), so what a page knew at its cursor it still knows of every entry
  not changed since (`Synced`, `SyncedMoves`), but for what was `taken`, and what it lacks is in the
  answer (`AnswerOK`). The answer to a command still lists every entry that has not changed since
  it was made (`Lists`, `ListsMoves`); if the page's cursor is not ahead of it and no poll is under
  way, it therefore takes off only entries that have changed or are gone, which the next poll settles
  (`CommandTells`); a poll that goes on conveys the rest all the same (`ConveysStill`). A restart ends
  this until the page starts over. Hence the action property `PageShows`.

Proved and not repeated in a run: `KeyCountsHolders`, `KeyAdmitsWithinLimit`,
`SlotNeverChangesKey`, `AccountCountsOccupants`, `RotationKeepsLimits`, `OnlyUsageAwaitsSaving`,
`ForgivenStaysForgiven`, `OneDriver` and the type invariants of the modules that have proofs.

Only model-checked: liveness (`CallsReturn`, `SlotsFreedForGood`, `CollectionGoesOn`,
`NoBucketStarves`), since temporal fairness is outside the prover's reach. Every invariant and
action property of the passing runs is also stated by a theorem.

## What is not modelled

- Components without state or decisions of their own: the reading of the host's auth
  files and of upstream quotas (`auth_files.go` reads and reshapes HTTP answers), the
  management views and the HTTP envelope, logs and analysis, Turn State's cookies, journal and
  observations (reports and best-effort caches), the collector's command line, the C
  bridge. SQL text.
- The migrations of the schema: what they promise is that an old database loads, and what
  earlier versions could have written is not in the repository, so their inputs would be
  guesses. `BillingStore` states it of what this version saves.
- The usage handler: what it records is `BillingStore!RecordUsage`; how it reads the host's
  report is a conversion of formats.
- In `Admission`: the shutdown of the plugin, helper requests of the model-callback
  path (they take no slots), the refresh of reference prices (a delay between two
  steps), the contents of responses.
- In `KeySlots`: the status text of a decision.
- In `BillingStore`: labels, the write-error status, plugin logs (queued and bounded like
  records), the retention sweep of the log, the group and route bindings a key also
  carries (`Routing` has them), pricing of a record, throttling of the log of refusals. The
  store before its first configuration does nothing and is left out.
- In `TurnState`: the text of the injected header and its modes, cookies, counters, the
  journal and the status view, several probes of one bucket at a time (berserk mode), and
  the migration of old settings. What a probe is sent for is nondeterministic; cooldowns,
  budgets and cursors, which the same commits carry, are `Probe`'s.
- In `Runner`: the event list, the counters of the status, the result of a self-test.
- In `Probe`: the HTTP request, answers that are not streamed, the check of a proxy.
- In `Routing`: saving (as in `BillingStore`), names, views. The inventory of
  credentials is `CredentialPick`'s.
- In `CredentialPick`: accounts without an identifier, the second rule of an exclusive group,
  the check of WebSocket upgrades and the slots the same interceptor takes (`Admission`'s).
  The pick reads rules, templates and inventory in one step; what changes them while it runs
  is a change between the pick and the check.
- In `ReferencePrices`: the arithmetic of a record's cost, the search views.
- In `Capture`: redaction, the setting that caps a body, the details of one entry, and the page
  being opened anew, which begins again with no rows and a cursor of 0 (`ui.html:9274-9283`).
- In `ConfigUpload`: saves without an expected revision, but for their effect on the pages.
- In `Integration`: providers with plain API keys, the reading of models and quotas from the
  upstream, the composition of channels beyond the account's credential.
- Formatting and languages.

## Known limits of the code

Met while modelling; none contradicts what the code promises, and the properties are
stated so that they say what does hold.

- A lane that passed `admit` may still reserve a probe after State was suspended, since
  the switch is looked at once before (`turn_state_runner.go:304`, `387`).
- A berserk probe that ends after another was refused replaces the refusal's pause of the
  account by its own short one (`probe.go:746`).
- A price lookup that still holds a closed manager may download within a pause; a panic in
  a download leaves its waiters waiting (`reference_prices.go`).
- The capture page: the answer to a command (a clear among them) or to a check of the hooks
  that a poll has overtaken removes the rows captured meanwhile, and since the cursor is past
  them no later poll brings them back until they change or the page is opened anew
  (`ui.html:8567-8571`, `8650-8684`, `8714`). `view.taken` holds exactly these, and
  `PageShowsWhatIsRetained` excepts them. A restart goes unnoticed once the new revision has passed
  the page's cursor; `view.misled` marks this.
- After a deletion that could not be saved, `saveIntegration` goes on editing the unsaved
  deleted account (`integration_migration.go:31-37`).
- A sign-in poll that is repeated after its first save writes the first tokens over a
  rotation made meanwhile and drops its pending migration (`integrations_cline.go:182-193`);
  the unsaved account of an expired session stays in memory. A poll repeated after its session
  ended is told to start again, also when its account was saved; `AnswersAreTrue` is about the
  other answers.
- A cancellation of an upload during its commit is answered "cancelled" although the commit
  goes on (`config_upload.go:118`).
- On a host whose schema is older than the gate needs, the last resort of the pick may
  choose an account the gate then refuses; the request is refused either way
  (`scheduler.go:231`). An account whose candidate does not tell its source, and that no
  inventory knows, may be picked and then refused by the check under a denial of its
  provider (`routing_enforcement.go:30-34`).
- Deleting the last group of a key leaves the key unrestricted, unless keys without a
  group are denied (`routing.go`).

## The plan

Done: every module of the list above, its runs, and the proofs of the two limiters, the
account settings, admission, the billing store, Turn State, the runner, and of routing, the
pick, integrations, sign-ins, uploads, risk control, prices, traffic capture and the reading of
a streamed answer.

Left: **Runner with Probe**, the two composed, so that a lane's probe is a slot of the manager and
the known limit on suspension becomes a statement about probes sent.
