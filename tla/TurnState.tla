----------------------------- MODULE TurnState -----------------------------
(***************************************************************************)
(* The turn-state manager, internal/turnstate: templates cached per bucket *)
(* (an account and an upstream model), learned from upstream responses and *)
(* from probes, injected into requests and kept in two files.              *)
(*                                                                         *)
(* The main file holds a whole checkpoint.  The smaller runtime overlay    *)
(* holds templates only, and names the checkpoint it belongs to.  A write  *)
(* takes three steps, because the mutex of the business hooks is free      *)
(* meanwhile: a copy is taken (writer), the file is replaced, the copy is  *)
(* published.  What responses teach in between is merged by Publish.       *)
(*                                                                         *)
(* One tick of the clock is longer than the minute pruneLocked waits and   *)
(* than the time a hook takes.  A template is its value: the account and   *)
(* the model are its key, and IssuedAt and LengthOf are read off the value.*)
(* Cooldowns, budgets and the choice of what to probe are not in this      *)
(* module; here a probe is a bucket and the answer it brings back.         *)
(***************************************************************************)
EXTENDS Integers, FiniteSets

CONSTANTS
    Accounts, Models,
    Requests,      \* request IDs; a retry reuses its ID
    Values,        \* turn-state values
    IssuedAt,      \* IssuedAt[v], the timestamp in v
    LengthOf,      \* LengthOf[v]
    IssuedTo,      \* IssuedTo[v], the bucket whose upstream hands out v
    Configs,       \* settings the operator may save
    DefaultConfig, \* the settings before the first save
    PluginSettings,\* whether the plugin is enabled: what the host's configuration may say
    Hour,          \* the upstream lifetime of a value, of a tombstone too
    PendingLife,   \* how long an attribution lasts, 15 minutes in the code
    MaxPending,    \* 4096 in the code
    MaxDiscarded,  \* maxDiscardedTemplates, 4096 in the code
    NoValue, NoPending, NoBucket, NoFile, Idle,
    MaxTime,       \* bound of the clock
    MaxWrites,     \* bound: file writes started
    MaxEpoch       \* bound: the template epoch when the host moves to another file

Bucket == Accounts \X Models

Config == [suspended : BOOLEAN, enabled : BOOLEAN, observe : BOOLEAN, learn : BOOLEAN,
           ttl : 1..Hour, length : Nat, accounts : SUBSET Accounts, models : SUBSET Models]
Templates == [Bucket -> Values \cup {NoValue}]
Tombstones == SUBSET (Bucket \X Values)
State == [config : Config, templates : Templates, discarded : Tombstones]
Main == [digest : Nat, config : Config, templates : Templates, discarded : Tombstones]
Overlay == [base : Nat, templates : Templates, discarded : Tombstones]
Attribution == [bucket : Bucket, at : Nat, epoch : Nat, stale : BOOLEAN]
Asking == [req : Requests, bucket : Bucket, required : BOOLEAN]
Epochs == [current : Nat, all : Nat, cleared : [Bucket -> Nat]]
Writer == [op : {"persist", "clear", "discard", "update", "reserve", "finish"}, next : State,
           full : BOOLEAN, scope : SUBSET Bucket, bucket : Bucket \cup {NoBucket},
           written : BOOLEAN]

ASSUME TurnStateAssumption ==
    /\ IssuedAt \in [Values -> Nat] /\ LengthOf \in [Values -> Nat]
    /\ IssuedTo \in [Values -> Bucket]
    /\ Hour \in Nat \ {0} /\ PendingLife \in Nat
    /\ MaxPending \in Nat /\ MaxDiscarded \in Nat
    /\ MaxTime \in Nat /\ MaxWrites \in Nat /\ MaxEpoch \in Nat
    /\ Configs \subseteq Config /\ DefaultConfig \in Config
    /\ PluginSettings \subseteq BOOLEAN
    /\ NoValue \notin Values /\ NoBucket \notin Bucket /\ NoFile \notin Main \cup Overlay
    /\ NoPending \notin Attribution /\ Idle \notin Writer \cup Asking

VARIABLES
    state,     \* Manager.state: config, templates and tombstones
    dirty,     \* dirtyTemplates: learned and not yet saved
    pending,   \* pending[r]: the attribution of request r
    epochs,    \* templateEpoch, allTemplateEpoch, clearedTemplates
    prunedAt,  \* when pruneLocked last ran, -1 for never
    base,      \* baseDigest: the checkpoint in the main file, 0 for none
    writer,    \* the commit in flight; whoever started it holds writerMu
    probing,   \* buckets with a probe in flight; their callers share probeMu
    asking,    \* the after-auth hook between its two looks at the manager
    disk,      \* the main file, the overlay, and a backup of the overlay
    now,
    pluginOn,  \* Store.Enabled(): a disabled plugin leaves requests and responses alone
    upstream,  \* the host: upstream[r], the bucket serving r's latest attempt
    writes,    \* history: file writes started
    gone,      \* history: what administrators discarded
    lapsed,    \* history: what expired under the settings of its time
    passed,    \* history: requests whose latest attempt left the attribution of the one before
    guessed    \* history: what responses to such attempts taught

storeVars == <<state, dirty, base, writer, disk>>
hookVars == <<pending, asking, upstream, passed>>
historyVars == <<writes, gone, lapsed>>
switchVars == <<pluginOn, guessed>>
vars == <<storeVars, hookVars, epochs, prunedAt, probing, now, historyVars, switchVars>>

-----------------------------------------------------------------------------
(* Templates *)

InScope(c, b) == b[1] \in c.accounts /\ b[2] \in c.models

\* usableWithConfig
UsableUnder(c, v, t) ==
    LengthOf[v] = c.length /\ IssuedAt[v] <= t /\ t - IssuedAt[v] < c.ttl

\* templateDiscarded
Tombstoned(s, b, v, t) == <<b, v>> \in s.discarded /\ t < IssuedAt[v] + Hour

\* usableLocked
Usable(s, b, v, t) == UsableUnder(s.config, v, t) /\ ~Tombstoned(s, b, v, t)

Holds(s, b, t) == s.templates[b] # NoValue /\ Usable(s, b, s.templates[b], t)

LiveTombstones(D, t) == {d \in D : t < IssuedAt[d[2]] + Hour}

\* pruneState
Pruned(s, t) ==
    [s EXCEPT !.discarded = LiveTombstones(s.discarded, t),
              !.templates = [b \in Bucket |-> IF Holds(s, b, t) THEN s.templates[b] ELSE NoValue]]

\* pruneLocked runs at most once a minute.
Due == prunedAt # now

KeptState == IF Due THEN Pruned(state, now) ELSE state

KeptDirty ==
    [b \in Bucket |-> IF KeptState.templates[b] = state.templates[b] THEN dirty[b] ELSE NoValue]

KeptPending(p) ==
    [r \in Requests |-> IF Due /\ p[r] # NoPending /\ now - p[r].at > PendingLife
                        THEN NoPending ELSE p[r]]

Prune ==
    /\ state' = KeptState
    /\ dirty' = KeptDirty
    /\ prunedAt' = now

Forget(r) == [pending EXCEPT ![r] = NoPending]

-----------------------------------------------------------------------------
(* Hooks of business requests.  The after-auth hook holds admissionsMu, so one
   request is asking at a time; it decides whether the template is required in one
   critical section of the manager and looks the template up in the next. *)

\* The hooks do their part of State.
Looks == pluginOn /\ ~state.config.suspended
Asks(b, gate) == Looks /\ InScope(state.config, b) /\ (gate \/ state.config.enabled)

\* An attempt of r goes to its upstream, and nobody has forgotten the attribution.
PassedBy(r) == IF pending[r] = NoPending THEN passed \ {r} ELSE passed \cup {r}

\* Mutant: an attempt outside the scope keeps the attribution of the one before.
ForgetfulAsk(r, b, gate) ==
    /\ asking = Idle
    /\ asking' = IF Asks(b, gate)
                 THEN [req |-> r, bucket |-> b, required |-> gate /\ InScope(state.config, b)]
                 ELSE Idle
    /\ upstream' = [upstream EXCEPT ![r] = IF Asks(b, gate) THEN NoBucket ELSE b]
    /\ passed' = IF Looks THEN passed \ {r} ELSE PassedBy(r)
    /\ UNCHANGED <<pending, storeVars, epochs, prunedAt, probing, now, historyVars, switchVars>>

\* gate: the account settings require a template of protected accounts.
\* With the plugin disabled or State suspended, an attempt reaches its upstream without a look.
AskState(r, b, gate) ==
    /\ asking = Idle
    /\ LET required == gate /\ InScope(state.config, b)
       IN  /\ asking' = IF Asks(b, gate) THEN [req |-> r, bucket |-> b, required |-> required]
                        ELSE Idle
           /\ pending' = IF ~Looks \/ required THEN pending ELSE Forget(r)
    /\ upstream' = [upstream EXCEPT ![r] = IF Asks(b, gate) THEN NoBucket ELSE b]
    /\ passed' = IF Looks THEN passed \ {r} ELSE PassedBy(r)
    /\ UNCHANGED <<storeVars, epochs, prunedAt, probing, now, historyVars, switchVars>>

\* The attribution of r's attempt; stale is history, set once it is no longer to be used.
Attributed(p, r, b) ==
    IF Cardinality({q \in Requests : p[q] # NoPending}) >= MaxPending THEN p
    ELSE [p EXCEPT ![r] = [bucket |-> b, at |-> now, epoch |-> epochs.current, stale |-> FALSE]]

\* beforeAtLocked
Before(r, b) ==
    IF state.config.enabled
    THEN Prune /\ pending' = Attributed(KeptPending(Forget(r)), r, b)
    ELSE pending' = Forget(r) /\ UNCHANGED <<state, dirty, prunedAt>>

\* BeforeRequired's refusals: the request is answered without an upstream.
\* replaceable: the header of the request may be replaced.
Refused(b, replaceable) ==
    /\ InScope(state.config, b)
    /\ \/ ~state.config.enabled \/ state.config.observe
       \/ ~Holds(state, b, now)
       \/ ~replaceable

AnswerState(replaceable) ==
    /\ asking # Idle
    /\ LET r == asking.req
           b == asking.bucket
           skipped == b[1] \in state.config.accounts /\ ~InScope(state.config, b)
       IN  \/ /\ asking.required /\ Refused(b, replaceable)
              /\ upstream' = [upstream EXCEPT ![r] = NoBucket]
              /\ UNCHANGED <<state, dirty, prunedAt, pending, passed>>
           \/ /\ asking.required /\ skipped
              /\ upstream' = [upstream EXCEPT ![r] = b]
              /\ passed' = PassedBy(r)
              /\ UNCHANGED <<state, dirty, prunedAt, pending>>
           \/ /\ ~(asking.required /\ (Refused(b, replaceable) \/ skipped))
              /\ upstream' = [upstream EXCEPT ![r] = b]
              /\ Before(r, b)
              /\ UNCHANGED passed
    /\ asking' = Idle
    /\ UNCHANGED <<base, writer, disk, epochs, probing, now, historyVars, switchVars>>

\* Mutant: a response is used whatever was cleared since its request.
AnyAttribution(p) == p # NoPending /\ now - p.at <= PendingLife

Attributable(p) ==
    /\ p # NoPending /\ now - p.at <= PendingLife
    /\ p.epoch >= epochs.all /\ p.epoch >= epochs.cleared[p.bucket]

\* learnFromLocked: an older value, or one an administrator discarded, is not learned.
Learnable(s, b, v) ==
    /\ Usable(s, b, v, now)
    /\ s.templates[b] # NoValue => IssuedAt[v] > IssuedAt[s.templates[b]]

\* The response hook: r's upstream hands out v; known says whether the host names
\* the account that served it.
LearnResponse(r, v, known) ==
    /\ upstream[r] # NoBucket /\ IssuedTo[v] = upstream[r] /\ Looks
    /\ LET p == pending[r]
           learns == /\ Attributable(p) /\ state.config.learn
                     /\ known => upstream[r][1] = p.bucket[1]
                     /\ Learnable(KeptState, p.bucket, v)
       IN  IF ~state.config.enabled
           THEN pending' = Forget(r) /\ UNCHANGED <<state, dirty, prunedAt, lapsed, guessed>>
           ELSE /\ pending' = KeptPending(Forget(r))
                /\ prunedAt' = now
                /\ IF learns
                   THEN /\ state' = [KeptState EXCEPT !.templates[p.bucket] = v]
                        /\ dirty' = [KeptDirty EXCEPT ![p.bucket] = v]
                        /\ lapsed' = lapsed \ {<<p.bucket, v>>}
                        /\ guessed' = IF r \in passed THEN guessed \cup {<<p.bucket, v>>}
                                       ELSE guessed
                   ELSE state' = KeptState /\ dirty' = KeptDirty /\ UNCHANGED <<lapsed, guessed>>
    /\ passed' = passed \ {r}
    /\ UNCHANGED <<base, writer, disk, asking, upstream, epochs, probing, now, writes, gone,
                   pluginOn>>

Complete(r) ==
    /\ pending' = Forget(r)
    /\ upstream' = [upstream EXCEPT ![r] = NoBucket]
    /\ passed' = passed \ {r}
    /\ UNCHANGED <<storeVars, asking, epochs, prunedAt, probing, now, historyVars, switchVars>>

\* Reading the status prunes too.
Status ==
    /\ Due
    /\ Prune
    /\ pending' = KeptPending(pending)
    /\ UNCHANGED <<base, writer, disk, asking, upstream, passed, epochs, probing, now, historyVars,
                   switchVars>>

-----------------------------------------------------------------------------
(* Files *)

\* A file is replaced as a whole; a full write replaces the main file.
Written(d, w) ==
    IF w.full
    THEN [d EXCEPT !.main = [digest |-> writes, config |-> w.next.config,
                             templates |-> w.next.templates, discarded |-> w.next.discarded]]
    ELSE [d EXCEPT !.overlay = [base |-> base, templates |-> w.next.templates,
                                discarded |-> w.next.discarded]]

\* Mutant: the overlay counts whatever checkpoint it belongs to.
AnyOverlay(d) ==
    IF d.main = NoFile
    THEN [config |-> DefaultConfig, templates |-> [b \in Bucket |-> NoValue], discarded |-> {}]
    ELSE [config |-> d.main.config,
          templates |-> IF d.overlay # NoFile THEN d.overlay.templates ELSE d.main.templates,
          discarded |-> LiveTombstones(d.main.discarded, now)
                        \cup (IF d.overlay = NoFile THEN {}
                              ELSE LiveTombstones(d.overlay.discarded, now))]

\* loadRuntime: an overlay of another checkpoint brings its tombstones, nothing else.
Loaded(d) ==
    IF d.main = NoFile
    THEN [config |-> DefaultConfig, templates |-> [b \in Bucket |-> NoValue], discarded |-> {}]
    ELSE [config |-> d.main.config,
          templates |-> IF d.overlay # NoFile /\ d.overlay.base = d.main.digest
                        THEN d.overlay.templates ELSE d.main.templates,
          discarded |-> LiveTombstones(d.main.discarded, now)
                        \cup (IF d.overlay = NoFile THEN {}
                              ELSE LiveTombstones(d.overlay.discarded, now))]

Digest(d) == IF d.main = NoFile THEN 0 ELSE d.main.digest

\* A copy to save.  With no checkpoint yet, the first write is a full one.
Commit(op, next, full, scope, b) ==
    /\ writer = Idle /\ writes < MaxWrites
    /\ writer' = [op |-> op, next |-> next, full |-> full \/ base = 0, scope |-> scope,
                  bucket |-> b, written |-> FALSE]
    /\ writes' = writes + 1

\* Management writers take probeMu alone: no probe is in flight.
Exclusive == probing = {}

untouchedByCommit ==
    <<hookVars, epochs, disk, base, probing, now, gone, lapsed, switchVars>>

PersistLearned ==
    /\ \E b \in Bucket : dirty[b] # NoValue
    /\ Commit("persist", state, FALSE, {}, NoBucket)
    /\ UNCHANGED <<state, dirty, prunedAt, untouchedByCommit>>

\* Of one bucket or, with scope Bucket, of all.
Clear(scope) ==
    /\ Exclusive
    /\ Commit("clear", [state EXCEPT !.templates = [b \in Bucket |->
                            IF b \in scope THEN NoValue ELSE state.templates[b]]],
              FALSE, scope, NoBucket)
    /\ UNCHANGED <<state, dirty, prunedAt, untouchedByCommit>>

\* Mutant: the tombstone goes to the overlay.
OverlayDiscard(b) ==
    /\ Exclusive
    /\ Holds(state, b, now)
    /\ LET kept == Pruned(state, now) IN
       Commit("discard", [kept EXCEPT !.templates[b] = NoValue,
                                      !.discarded = @ \cup {<<b, state.templates[b]>>}],
              FALSE, {}, b)
    /\ UNCHANGED <<state, dirty, prunedAt, untouchedByCommit>>

Discard(b) ==
    /\ Exclusive
    /\ Holds(state, b, now)
    /\ LET kept == Pruned(state, now) IN
       /\ Cardinality(kept.discarded) < MaxDiscarded
       /\ Commit("discard", [kept EXCEPT !.templates[b] = NoValue,
                                         !.discarded = @ \cup {<<b, state.templates[b]>>}],
                 TRUE, {}, b)
    /\ UNCHANGED <<state, dirty, prunedAt, untouchedByCommit>>

\* Mutant: templates the old settings let expire are not dropped first.
HastyUpdate(c) ==
    /\ Exclusive
    /\ Commit("update", Pruned([state EXCEPT !.config = c], now), TRUE, {}, NoBucket)
    /\ UNCHANGED <<state, dirty, prunedAt, untouchedByCommit>>

\* Templates are pruned under the old settings, then under the new ones.
Update(c) ==
    /\ Exclusive
    /\ Commit("update", Pruned([Pruned(state, now) EXCEPT !.config = c], now), TRUE, {}, NoBucket)
    /\ UNCHANGED <<state, dirty, prunedAt, untouchedByCommit>>

\* A probe saves its reservation before anything is sent.  Bound: one probe per bucket
\* at a time (renewals in berserk mode run several).
StartProbe(b) ==
    /\ InScope(state.config, b) /\ b \notin probing
    /\ Prune
    /\ pending' = KeptPending(pending)
    /\ Commit("reserve", Pruned(state, now), FALSE, {}, b)
    /\ UNCHANGED <<asking, upstream, passed, epochs, disk, base, probing, now, gone, lapsed,
                   switchVars>>

\* v is what the upstream answered, NoValue for a failure or a degraded state; removed:
\* a proxy leaves the pool, which changes the settings.
FinishProbe(b, v, removed) ==
    /\ b \in probing
    /\ LET kept == Pruned(state, now)
           harvested == v # NoValue /\ Learnable(kept, b, v)
       IN  /\ Commit("finish", IF harvested THEN [kept EXCEPT !.templates[b] = v] ELSE kept,
                     removed, {}, b)
           /\ lapsed' = IF harvested THEN lapsed \ {<<b, v>>} ELSE lapsed
    /\ UNCHANGED <<state, dirty, prunedAt, hookVars, epochs, disk, base, probing, now, gone,
                   switchVars>>

WriteFile ==
    /\ writer # Idle /\ ~writer.written
    /\ disk' = Written(disk, writer)
    /\ writer' = [writer EXCEPT !.written = TRUE]
    /\ UNCHANGED <<state, dirty, base, hookVars, epochs, prunedAt, probing, now, historyVars,
                   switchVars>>

\* Nothing was replaced and nothing is published; a probe is over.
WriteFails ==
    /\ writer # Idle /\ ~writer.written
    /\ writer' = Idle
    /\ probing' = IF writer.op = "finish" THEN probing \ {writer.bucket} ELSE probing
    /\ UNCHANGED <<state, dirty, base, disk, hookVars, epochs, prunedAt, now, historyVars,
                   switchVars>>

\* What a response taught and the commit does not settle.
Outlives(w, b) ==
    LET v == dirty[b] IN
    /\ v # NoValue /\ b \notin w.scope
    /\ UsableUnder(w.next.config, v, now) /\ UsableUnder(state.config, v, now)
    /\ ~Tombstoned(w.next, b, v, now)
    /\ w.next.templates[b] # NoValue => IssuedAt[v] > IssuedAt[w.next.templates[b]]

\* Buckets for which answers to earlier requests no longer count.
Invalidated(w) ==
    LET rules(c) == <<c.ttl, c.length, c.learn, c.enabled>> IN
    CASE w.op = "clear"   -> w.scope
      [] w.op = "discard" -> {w.bucket}
      [] w.op = "update"  -> IF rules(state.config) # rules(w.next.config) THEN Bucket ELSE {}
      [] OTHER            -> {}

NextEpochs(B) ==
    IF B = {} THEN epochs
    ELSE IF B = Bucket
         THEN [current |-> epochs.current + 1, all |-> epochs.current + 1,
               cleared |-> [b \in Bucket |-> 0]]
         ELSE [epochs EXCEPT !.current = @ + 1,
                             !.cleared = [b \in Bucket |-> IF b \in B THEN epochs.current + 1
                                                                      ELSE @[b]]]

Publish ==
    /\ writer # Idle /\ writer.written
    /\ LET w == writer IN
       /\ dirty' = [b \in Bucket |-> IF Outlives(w, b) THEN dirty[b] ELSE NoValue]
       /\ state' = [w.next EXCEPT !.templates = [b \in Bucket |->
                       IF Outlives(w, b) THEN dirty[b] ELSE w.next.templates[b]]]
       /\ base' = IF w.full THEN Digest(disk) ELSE base
       /\ epochs' = NextEpochs(Invalidated(w))
       /\ pending' = [r \in Requests |->
                         IF pending[r] # NoPending /\ pending[r].bucket \in Invalidated(w)
                         THEN [pending[r] EXCEPT !.stale = TRUE] ELSE pending[r]]
       /\ probing' = CASE w.op = "reserve" -> probing \cup {w.bucket}
                       [] w.op = "finish"  -> probing \ {w.bucket}
                       [] OTHER            -> probing
       /\ gone' = IF w.op = "discard" THEN gone \cup (w.next.discarded \ state.discarded) ELSE gone
    /\ writer' = Idle
    /\ UNCHANGED <<disk, asking, upstream, passed, prunedAt, now, writes, lapsed, switchVars>>

-----------------------------------------------------------------------------
(* Configuration, crashes and time *)

\* ConfigureWith reads the files d; every attribution is void.
Opened(d, epoch) ==
    /\ state' = Pruned(Loaded(d), now)
    /\ dirty' = [b \in Bucket |-> NoValue]
    /\ base' = Digest(d)
    /\ pending' = [r \in Requests |-> NoPending]
    /\ passed' = {}
    /\ epochs' = [current |-> epoch, all |-> epoch, cleared |-> [b \in Bucket |-> 0]]
    /\ prunedAt' = now

\* The process ends at any moment and starts again; requests die with it.  restored: the
\* operator puts the backup of the overlay back before the start.
Restart(restored) ==
    /\ restored => disk.backup # NoFile
    /\ disk' = IF restored THEN [disk EXCEPT !.overlay = disk.backup] ELSE disk
    /\ Opened(disk', 1)
    /\ writer' = Idle /\ asking' = Idle /\ probing' = {}
    /\ upstream' = [r \in Requests |-> NoBucket]
    /\ UNCHANGED <<now, historyVars, switchVars>>

\* The host moves to another billing file and back.
Reconfigure ==
    /\ Exclusive /\ writer = Idle /\ epochs.current < MaxEpoch
    /\ Opened(disk, epochs.current + 1)
    /\ UNCHANGED <<writer, disk, asking, upstream, probing, now, historyVars, switchVars>>

\* The host reconfigures the plugin with the same file: the attributions stay.  A restart or
\* another file may bring the other setting too, which is a step of its own here.
SwitchPlugin ==
    /\ Exclusive /\ writer = Idle
    /\ pluginOn' \in PluginSettings
    /\ UNCHANGED <<storeVars, hookVars, epochs, prunedAt, probing, now, historyVars, guessed>>

\* The operator copies the overlay.
BackUp ==
    /\ disk.overlay # NoFile
    /\ disk' = [disk EXCEPT !.backup = disk.overlay]
    /\ UNCHANGED <<state, dirty, base, writer, hookVars, epochs, prunedAt, probing, now,
                   historyVars, switchVars>>

\* What expires while no change of the settings is being saved has lapsed.
Tick ==
    /\ now < MaxTime
    /\ now' = now + 1
    /\ lapsed' = IF writer # Idle /\ writer.op = "update" THEN lapsed
                 ELSE lapsed \cup {<<b, state.templates[b]>> : b \in
                          {b \in Bucket : Holds(state, b, now) /\ ~Holds(state, b, now + 1)}}
    /\ UNCHANGED <<storeVars, hookVars, epochs, prunedAt, probing, writes, gone, switchVars>>

Init ==
    /\ state = [config |-> DefaultConfig, templates |-> [b \in Bucket |-> NoValue], discarded |-> {}]
    /\ dirty = [b \in Bucket |-> NoValue]
    /\ pending = [r \in Requests |-> NoPending]
    /\ epochs = [current |-> 1, all |-> 1, cleared |-> [b \in Bucket |-> 0]]
    /\ prunedAt = 0 /\ base = 0 /\ writer = Idle /\ probing = {} /\ asking = Idle
    /\ disk = [main |-> NoFile, overlay |-> NoFile, backup |-> NoFile]
    /\ now = 0
    /\ upstream = [r \in Requests |-> NoBucket]
    /\ pluginOn = TRUE
    /\ writes = 0 /\ gone = {} /\ lapsed = {} /\ passed = {} /\ guessed = {}

Next ==
    \/ \E r \in Requests, b \in Bucket, gate \in BOOLEAN : AskState(r, b, gate)
    \/ \E replaceable \in BOOLEAN : AnswerState(replaceable)
    \/ \E r \in Requests, v \in Values, known \in BOOLEAN : LearnResponse(r, v, known)
    \/ \E r \in Requests : Complete(r)
    \/ Status
    \/ PersistLearned
    \/ \E b \in Bucket : Clear({b})
    \/ Clear(Bucket)
    \/ \E b \in Bucket : Discard(b)
    \/ \E c \in Configs : Update(c)
    \/ \E b \in Bucket : StartProbe(b)
    \/ \E b \in Bucket, v \in Values \cup {NoValue}, removed \in BOOLEAN :
           /\ v # NoValue => IssuedTo[v] = b
           /\ FinishProbe(b, v, removed)
    \/ WriteFile
    \/ WriteFails
    \/ Publish
    \/ \E restored \in BOOLEAN : Restart(restored)
    \/ Reconfigure
    \/ SwitchPlugin
    \/ BackUp
    \/ Tick

Spec == Init /\ [][Next]_vars

-----------------------------------------------------------------------------
(* Properties *)

\* Every variable holds a value of its kind.
TypeOK ==
    /\ state \in State /\ dirty \in Templates
    /\ pending \in [Requests -> Attribution \cup {NoPending}]
    /\ epochs \in Epochs
    /\ prunedAt \in Nat /\ base \in Nat /\ now \in Nat /\ writes \in Nat
    /\ writer \in Writer \cup {Idle}
    /\ writer # Idle /\ writer.op \in {"discard", "reserve", "finish"} => writer.bucket \in Bucket
    /\ probing \subseteq Bucket
    /\ asking \in Asking \cup {Idle}
    /\ disk \in [main : Main \cup {NoFile}, overlay : Overlay \cup {NoFile},
                 backup : Overlay \cup {NoFile}]
    /\ upstream \in [Requests -> Bucket \cup {NoBucket}]
    /\ pluginOn \in BOOLEAN
    /\ gone \in Tombstones /\ lapsed \in Tombstones
    /\ passed \subseteq Requests /\ guessed \in Tombstones

(* Discarded values must never return (discard.go:85-87): once Discard has succeeded
   the value is never usable again, whatever responses and probes bring, whatever is
   in flight, after a crash, and with an older overlay restored (discard.go:145-147). *)
DiscardedStaysGone ==
    \A d \in gone : state.templates[d[1]] = d[2] => ~Usable(state, d[1], d[2], now)

(* A restart keeps what was saved and loses only unsaved learning: between commits the
   files hold the settings, and for each bucket the template in memory unless it awaits
   saving; then they hold an older one or none, never one that was cleared. *)
RestartKeepsSaved ==
    writer = Idle =>
        LET saved == Loaded(disk) IN
        /\ saved.config = state.config
        /\ \A b \in Bucket :
             /\ dirty[b] = NoValue =>
                    /\ Holds(saved, b, now) <=> Holds(state, b, now)
                    /\ Holds(saved, b, now) => saved.templates[b] = state.templates[b]
             /\ dirty[b] # NoValue /\ Holds(saved, b, now) =>
                    IssuedAt[saved.templates[b]] < IssuedAt[state.templates[b]]

(* A larger lifetime must not resurrect a template that expired under the settings of
   its time, even between the lazy clean-ups (manager.go:514-516): it comes back only if
   an upstream hands it out again.  What expires while the change itself is being written
   is left out (Tick). *)
ExpiredStaysExpired ==
    \A e \in lapsed : state.templates[e[1]] = e[2] => ~Usable(state, e[1], e[2], now)

(* A response to a request sent before its bucket was cleared or discarded, or before
   the template rules changed, teaches nothing (manager.go:528-529, persistence.go:188-190). *)
StaleResponsesTeachNothing ==
    [][\A r \in Requests, v \in Values, known \in BOOLEAN :
           LearnResponse(r, v, known) /\ pending[r] # NoPending /\ pending[r].stale =>
               \A b \in Bucket : state'.templates[b] \in {state.templates[b], NoValue}]_vars

(* A template serves the bucket whose upstream handed it out, although retries reuse the
   request ID and responses may not name their account: no later response is left with the
   account of an earlier attempt (turn_state.go:203-204).  The code breaks this when the
   hooks let an attempt pass (finding 2). *)
TemplatesServeTheirBucket ==
    \A b \in Bucket : state.templates[b] # NoValue => IssuedTo[state.templates[b]] = b

(* Only what the response to such an attempt taught can serve another bucket: whenever the
   plugin and State are switched off and on, settings change, files are saved, restored or
   loaded, and requests are retried, every other template serves the bucket whose upstream
   handed it out (turn_state.go:203-204, manager.go:724-726). *)
LookedAtTemplatesServe ==
    \A b \in Bucket : state.templates[b] # NoValue =>
        IssuedTo[state.templates[b]] = b \/ <<b, state.templates[b]>> \in guessed
=============================================================================
