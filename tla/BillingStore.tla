---------------------------- MODULE BillingStore ----------------------------
(***************************************************************************)
(* The working set of the billing store and the database behind it,        *)
(* internal/billing/store.go.  Traffic changes the working set at once and *)
(* saves as it goes; a failed save leaves the changes pending for the next *)
(* write.  Management edits prepare a copy and publish it only once it has *)
(* been saved.  What they change here: keys, subscription plans, quota     *)
(* cycles (Quota) and the request log.                                     *)
(*                                                                         *)
(* Every operation is one critical section of Store.mu that includes its   *)
(* Save, a transaction of the database.  Nothing runs before the first     *)
(* configuration (store.go:184-186), so a path is always configured here.  *)
(***************************************************************************)
EXTENDS Quota, SequencesExt

CONSTANTS
    Scopes,       \* API keys
    Paths,        \* databases the operator may configure
    Offers,       \* kinds of windows an operator sets up: [period, limit, scope, anchored]
    SaveAnswers,  \* what the database may answer to a save: TRUE (saved), FALSE (failed)
    MaxPending,   \* maxPendingRequestRecords, 1000 in the code
    MaxTime,      \* bound of the clock
    MaxEvents     \* bound: usage records

ASSUME BillingAssumption ==
    /\ IsFiniteSet(Scopes) /\ IsFiniteSet(WindowIds) /\ IsFiniteSet(Models)
    /\ NoPlan \notin PlanIds /\ NoPlan \notin Plan /\ AutoModel \notin Models
    /\ Offers \subseteq [period : Nat \ {0}, limit : Nat \ {0}, scope : (SUBSET Models) \ {{}},
                         anchored : BOOLEAN]
    /\ SaveAnswers \subseteq BOOLEAN /\ TRUE \in SaveAnswers
    /\ MaxPending \in Nat \ {0} /\ MaxCount \in Nat
    /\ MaxTime \in Nat /\ MaxEvents \in Nat

VARIABLES
    state,     \* Store.state: plans and keys
    disk,      \* disk[p]: what database p holds: plans, keys and the request log
    path,      \* Store.path
    dirty,     \* Store.dirty, the changes a failed save left pending
    now,       \* the clock
    recorded,  \* history: number of usage records so far
    dropped,   \* history: dropped[p], records that fell out of p's pending queue
    forgiven   \* history: forgiven[p][k], when k was last bound or reset in p

storeVars == <<state, disk, path, dirty>>
historyVars == <<recorded, dropped, forgiven>>
vars == <<storeVars, now, historyVars>>

-----------------------------------------------------------------------------
(* Changes and saving *)

\* Changes: keys and plans to write (AllKeys is every known key), records to append.
NoChanges == [keys |-> {}, plans |-> FALSE, events |-> <<>>]
KeysChanged(S) == [NoChanges EXCEPT !.keys = S]

\* Mutant: a plan is saved without the keys it was edited with.
PlansAlone(S) == [NoChanges EXCEPT !.plans = TRUE]

PlansChanged(S) == [NoChanges EXCEPT !.keys = S, !.plans = TRUE]

\* Changes.merge, with withBoundedRequestRecords: only the latest records are kept.
\* The logs of normal and of failed requests are separate queues of one kind.
Merged(pending, next) ==
    LET all == pending.events \o next.events
        excess == IF Len(all) > MaxPending THEN Len(all) - MaxPending ELSE 0
    IN  [keys |-> pending.keys \cup next.keys,
         plans |-> pending.plans \/ next.plans,
         events |-> SubSeq(all, excess + 1, Len(all))]

\* Save writes the present state of what has changed.
Saved(db, st, changes) ==
    [plans |-> IF changes.plans THEN st.plans ELSE db.plans,
     keys |-> [k \in Scopes |-> IF k \in changes.keys THEN st.keys[k] ELSE db.keys[k]],
     log |-> db.log \o changes.events]

\* Mutant: a save that was retried is not forgotten.
UpdateRepeats(st, changes, ok) ==
    LET all == Merged(dirty, changes)
        written == all # NoChanges
    IN  /\ state' = st
        /\ ~written => ok
        /\ disk' = IF written /\ ok THEN [disk EXCEPT ![path] = Saved(@, st, all)] ELSE disk
        /\ dirty' = IF ok THEN dirty ELSE all
        /\ UNCHANGED path

\* updateResult: the change takes effect in any case, and what could not be saved
\* stays pending.  ok is the database's answer, if it is asked at all.
Update(st, changes, ok) ==
    LET all == Merged(dirty, changes)
        written == all # NoChanges
    IN  /\ state' = st
        /\ ~written => ok
        /\ disk' = IF written /\ ok THEN [disk EXCEPT ![path] = Saved(@, st, all)] ELSE disk
        /\ dirty' = IF ok THEN NoChanges ELSE all
        /\ UNCHANGED path

\* Mutant: an edit forgets what was pending.
EditForgets(st, changes, ok) ==
    LET written == changes # NoChanges
    IN  /\ ~written => ok
        /\ IF ok
           THEN /\ state' = st
                /\ dirty' = NoChanges
                /\ disk' = IF written THEN [disk EXCEPT ![path] = Saved(@, st, changes)] ELSE disk
           ELSE UNCHANGED <<state, disk, dirty>>
        /\ UNCHANGED path

\* editConfiguration: a failed save leaves everything as it was.
Edit(st, changes, ok) ==
    LET all == Merged(dirty, changes)
        written == all # NoChanges
    IN  /\ ~written => ok
        /\ IF ok
           THEN /\ state' = st
                /\ dirty' = NoChanges
                /\ disk' = IF written THEN [disk EXCEPT ![path] = Saved(@, st, all)] ELSE disk
           ELSE UNCHANGED <<state, disk, dirty>>
        /\ UNCHANGED path

WithKey(st, k, key) == [st EXCEPT !.keys[k] = key]

-----------------------------------------------------------------------------
(* Keys.  status tells the three kinds of record of KeyState apart: in CPA's
   configuration, deleted from it, or only ever seen in traffic. *)

NoKey == [status |-> "unknown", plan |-> NoPlan, cycles |-> NoCycles]
Known(st) == {k \in Scopes : st.keys[k].status # "unknown"}
Live(st) == {k \in Scopes : st.keys[k].status \in {"config", "traffic"}}
BoundTo(st, p) == {k \in Known(st) : st.keys[k].plan = p}

\* ensureKey
Ensured(key) == IF key.status = "unknown" THEN [key EXCEPT !.status = "traffic"] ELSE key

\* A key without a plan is not metered, and a dynamic model cannot be if the plan
\* tells models apart.
AuthorizeModel(k, m, ok) ==
    LET key == state.keys[k]
        plan == state.plans[key.plan]
        settled == Settled(key, now)
        after == IF \/ key.plan = NoPlan
                    \/ m = AutoModel /\ \E w \in WindowIds : IsWindow(plan[w]) /\ ~AllModels(plan[w])
                 THEN key
                 ELSE IF Blocked(settled, plan, m) THEN settled
                 ELSE Activated(settled, plan, m, now, recorded)
    IN  /\ Update(WithKey(state, k, after),
                  IF after # key THEN KeysChanged({k}) ELSE NoChanges, ok)
        /\ UNCHANGED <<now, historyVars>>

\* Usage is reported after the fact, in any order, for the instant its request was
\* made at, if the host knows it.  It is charged first, then expired cycles go.
RecordUsage(k, m, at, failed, ok) ==
    LET key == Ensured(state.keys[k])
        after == IF key.plan = NoPlan THEN key
                 ELSE Settled(Charged(key, state.plans[key.plan], m, at,
                                      IF failed THEN 0 ELSE 1), now)
        event == [id |-> recorded + 1, scope |-> k, model |-> m, at |-> at,
                  failed |-> failed]
        changes == [KeysChanged({k}) EXCEPT !.events = <<event>>]
    IN  /\ recorded < MaxEvents
        /\ Update(WithKey(state, k, after), changes, ok)
        /\ recorded' = recorded + 1
        /\ dropped' = [dropped EXCEPT ![path] =
              @ \cup (ToSet(dirty.events) \ ToSet(Merged(dirty, changes).events))]
        /\ UNCHANGED <<now, forgiven>>

\* KeyViews and KeyViewForScope settle the cycles they show.
SettleViews(S, ok) ==
    LET after == [k \in Scopes |-> IF k \in S THEN Settled(state.keys[k], now)
                                   ELSE state.keys[k]]
        changed == {k \in S : after[k] # state.keys[k]}
    IN  /\ S \in {{}, Live(state)} \cup {{k} : k \in Live(state)}
        /\ Update([state EXCEPT !.keys = after], KeysChanged(changed), ok)
        /\ UNCHANGED <<now, historyVars>>

\* Every key of S starts afresh, if the edit is saved.
Forgive(S, ok) ==
    /\ forgiven' = IF ok THEN [forgiven EXCEPT ![path] =
                            [k \in Scopes |-> IF k \in S THEN now ELSE @[k]]]
                   ELSE forgiven
    /\ UNCHANGED <<now, recorded, dropped>>

BindKey(k, p, ok) ==
    LET key == state.keys[k]
        same == key.plan = p
    IN  /\ k \in Live(state) /\ state.plans[p] # NoPlan
        /\ Edit(IF same THEN state ELSE WithKey(state, k, Bound(key, p)),
                IF same THEN NoChanges ELSE KeysChanged({k}), ok)
        /\ Forgive(IF same THEN {} ELSE {k}, ok)

UnbindKey(k, ok) ==
    LET key == state.keys[k]
        bound == k \in Live(state) /\ key.plan # NoPlan
    IN  /\ Edit(IF bound THEN WithKey(state, k, Unbound(key)) ELSE state,
                IF bound THEN KeysChanged({k}) ELSE NoChanges, ok)
        /\ Forgive(IF bound THEN {k} ELSE {}, ok)

ResetQuota(S, ok) ==
    /\ S \subseteq Live(state)
    /\ \A k \in S : state.keys[k].plan # NoPlan
    /\ Edit([state EXCEPT !.keys = [k \in Scopes |->
                IF k \in S THEN [@[k] EXCEPT !.cycles = NoCycles] ELSE @[k]]],
            KeysChanged({k \in S : state.keys[k].cycles # NoCycles}), ok)
    /\ Forgive(S, ok)

\* The keys CPA holds.  A missing one is marked deleted if an earlier list had it;
\* a returning one keeps its plan and its cycles.
SyncKeys(S, ok) ==
    LET after == [k \in Scopes |->
            IF k \in S THEN [state.keys[k] EXCEPT !.status = "config"]
            ELSE IF state.keys[k].status = "config"
                 THEN [state.keys[k] EXCEPT !.status = "deleted"]
                 ELSE state.keys[k]]
        next == [state EXCEPT !.keys = after]
    IN  /\ Edit(next, IF next = state THEN NoChanges ELSE KeysChanged(Known(next)), ok)
        /\ UNCHANGED <<now, historyVars>>

-----------------------------------------------------------------------------
(* Subscription plans *)

WindowsUsed(db) ==
    {w \in WindowIds : \E p \in PlanIds : db.plans[p] # NoPlan /\ IsWindow(db.plans[p][w])}

\* prepareWindows: new identifiers are random, so never one in use; an anchor is
\* the next start of a cycle, unless the window keeps its schedule.
PreparedWindow(w, old) ==
    IF IsWindow(old) /\ w.anchor # NoTime /\ SameSchedule(w, old)
    THEN [w EXCEPT !.anchor = old.anchor] ELSE w

Anchors(o) == IF o.anchored THEN {now + d : d \in 1..o.period} ELSE {NoTime}

CandidateWindows ==
    {NoWindow} \cup
    UNION {{[period |-> o.period, anchor |-> a, limit |-> o.limit, scope |-> o.scope]
            : a \in Anchors(o)} : o \in Offers}

\* Plan.Validate: at least one window, no two alike, one cycle mode.
ValidPlan(plan) ==
    LET ws == {w \in WindowIds : IsWindow(plan[w])}
    IN  /\ ws # {}
        /\ \A v, w \in ws :
              /\ (plan[v].anchor = NoTime) = (plan[w].anchor = NoTime)
              /\ v # w => plan[v].period # plan[w].period \/ plan[v].scope # plan[w].scope

\* The plans an edit may lead to from plan old (NoPlan: a new plan).
PreparedPlans(old) ==
    LET foreign == UNION {WindowsUsed(disk[p]) : p \in Paths}
                   \cup UNION {WindowsUsed(state)}
        own(w) == old # NoPlan /\ IsWindow(old[w])
        drafts == {d \in [WindowIds -> CandidateWindows] :
                     \A w \in WindowIds : IsWindow(d[w]) => own(w) \/ w \notin foreign}
    IN  {plan \in {[w \in WindowIds |->
                      IF own(w) /\ IsWindow(d[w]) THEN PreparedWindow(d[w], old[w]) ELSE d[w]]
                   : d \in drafts} : ValidPlan(plan)}

CreatePlan(p, plan, S, ok) ==
    LET next == [plans |-> [state.plans EXCEPT ![p] = plan],
                 keys |-> [k \in Scopes |-> IF k \in S THEN Bound(state.keys[k], p)
                                            ELSE state.keys[k]]]
    IN  /\ state.plans[p] = NoPlan
        /\ plan \in PreparedPlans(NoPlan)
        /\ S \subseteq Live(state)
        /\ \A k \in S : state.keys[k].plan = NoPlan
        /\ Edit(next, PlansChanged(S), ok)
        /\ Forgive(S, ok)

\* The key after an edit of plan p that makes S the plan's keys: keys that leave
\* it are unbound, keys that enter it start afresh, the others lose the cycles of
\* windows that were removed or rescheduled.
Rebound(key, k, p, S, old, new) ==
    IF key.plan = p
    THEN IF k \in S THEN Rescheduled(key, old, new) ELSE Unbound(key)
    ELSE IF k \in S THEN Bound(key, p) ELSE key

UpdatePlan(p, plan, S, ok) ==
    LET old == state.plans[p]
        next == [plans |-> [state.plans EXCEPT ![p] = plan],
                 keys |-> [k \in Scopes |-> Rebound(state.keys[k], k, p, S, old, plan)]]
        moved == {k \in Scopes : next.keys[k].plan # state.keys[k].plan}
    IN  /\ old # NoPlan
        /\ plan \in PreparedPlans(old)
        /\ \A k \in S : \/ k \in Live(state) /\ state.keys[k].plan \in {NoPlan, p}
                        \/ k \in Known(state) /\ state.keys[k].plan = p
        /\ Edit(next, PlansChanged(Known(state)), ok)
        /\ Forgive(moved, ok)

DeletePlan(p, ok) ==
    LET keys == BoundTo(state, p)
        next == [plans |-> [state.plans EXCEPT ![p] = NoPlan],
                 keys |-> [k \in Scopes |-> IF k \in keys THEN Unbound(state.keys[k])
                                            ELSE state.keys[k]]]
    IN  /\ state.plans[p] # NoPlan
        /\ Edit(next, PlansChanged(Known(state)), ok)
        /\ Forgive(keys, ok)

-----------------------------------------------------------------------------
(* Configuration and restart *)

Loadable(db) == \A k \in Known(db) : ValidCycles(db.keys[k], db.plans)

LastId(log) == IF log = <<>> THEN 0 ELSE Last(log).id

\* The database of the new path is loaded before anything changes; pending
\* changes of the old one are given up.  A restart is the same step, to any path.
Configure(p) ==
    /\ Loadable(disk[p])
    /\ state' = [plans |-> disk[p].plans, keys |-> disk[p].keys]
    /\ dirty' = NoChanges
    /\ path' = p
    /\ dropped' = [dropped EXCEPT ![path] = {e \in @ : e.id < LastId(disk[path].log)}]
    /\ UNCHANGED <<disk, now, recorded, forgiven>>

Tick ==
    /\ now < MaxTime
    /\ now' = now + 1
    /\ UNCHANGED <<storeVars, historyVars>>

EmptyState == [plans |-> [p \in PlanIds |-> NoPlan], keys |-> [k \in Scopes |-> NoKey]]
EmptyDatabase == [plans |-> EmptyState.plans, keys |-> EmptyState.keys, log |-> <<>>]

Init ==
    /\ state = EmptyState
    /\ disk = [p \in Paths |-> EmptyDatabase]
    /\ path \in Paths
    /\ dirty = NoChanges
    /\ now = 0
    /\ recorded = 0
    /\ dropped = [p \in Paths |-> {}]
    /\ forgiven = [p \in Paths |-> [k \in Scopes |-> 0]]

Traffic(ok) ==
    \/ \E k \in Scopes, m \in Models \cup {AutoModel} : AuthorizeModel(k, m, ok)
    \/ \E k \in Scopes, m \in Models, at \in 0..now \cup {NoTime}, failed \in BOOLEAN :
          RecordUsage(k, m, at, failed, ok)
    \/ \E S \in SUBSET Scopes : SettleViews(S, ok)

Manage(ok) ==
    \/ \E k \in Scopes : UnbindKey(k, ok) \/ \E p \in PlanIds : BindKey(k, p, ok)
    \/ \E S \in SUBSET Scopes : ResetQuota(S, ok) \/ SyncKeys(S, ok)
    \/ \E p \in PlanIds, S \in SUBSET Scopes :
          \/ \E plan \in PreparedPlans(NoPlan) : CreatePlan(p, plan, S, ok)
          \/ \E plan \in PreparedPlans(state.plans[p]) : UpdatePlan(p, plan, S, ok)
    \/ \E p \in PlanIds : DeletePlan(p, ok)

Next ==
    \/ \E ok \in SaveAnswers : Traffic(ok) \/ Manage(ok)
    \/ \E p \in Paths : Configure(p)
    \/ Tick

Spec == Init /\ [][Next]_vars

-----------------------------------------------------------------------------
(* Properties *)

Event == [id : Nat, scope : Scopes, model : Models, at : Nat \cup {NoTime}, failed : BOOLEAN]

\* The working set, the databases and the pending changes are well formed, and the
\* pending queue is bounded (state.go, repository.go:20-46).
TypeOK ==
    /\ state \in [plans : [PlanIds -> Plan \cup {NoPlan}], keys : [Scopes -> Key]]
    /\ disk \in [Paths -> [plans : [PlanIds -> Plan \cup {NoPlan}], keys : [Scopes -> Key],
                           log : Seq(Event)]]
    /\ path \in Paths
    /\ dirty \in [keys : SUBSET Scopes, plans : BOOLEAN, events : Seq(Event)]
    /\ Len(dirty.events) <= MaxPending
    /\ now \in Nat /\ recorded \in Nat
    /\ dropped \in [Paths -> SUBSET Event]
    /\ forgiven \in [Paths -> [Scopes -> Nat]]

\* Whatever has been saved, and whatever has failed to be, the database can be
\* loaded: every key's plan exists and its cycles fit the plan's windows
\* (ValidateCycles, on which the start of the plugin depends).
DatabaseLoads == \A p \in Paths : Loadable(disk[p])

\* The usage records that a cycle has to answer for.
Answers(e, k, w, window, cycle) ==
    /\ e.scope = k /\ ~e.failed /\ e.at # NoTime
    /\ e.id > cycle.born
    /\ e.at >= cycle.since /\ e.at < cycle.end
    /\ Matches(window, e.model)

CountsRecords(plans, keys, records) ==
    \A k \in Scopes, w \in WindowIds : Running(keys[k], w) =>
        LET cycle == keys[k].cycles[w]
            n == Cardinality({e \in records : Answers(e, k, w, plans[keys[k].plan][w], cycle)})
        IN  cycle.used = IF n > MaxCount THEN MaxCount ELSE n

\* A cycle has used exactly what the request log says: every record of a request
\* the cycle meters is charged to it once, none is charged for a request made
\* before it opened, and retried or failed saves, edits of limits, late records
\* and restarts change nothing about that, neither in memory nor on disk
\* (chargeCycles, updateResult, UpdatePlanWithBindings).
CyclesCountTheirRecords ==
    /\ \A p \in Paths : CountsRecords(disk[p].plans, disk[p].keys, ToSet(disk[p].log) \cup
                            {e \in dropped[p] : e.id < LastId(disk[p].log)})
    /\ CountsRecords(state.plans, state.keys,
                     ToSet(disk[path].log \o dirty.events) \cup dropped[path])

\* A key that was bound or reset never pays for a request made before that, not
\* even after a restart (ResetQuota, BindKey; quota.go:25).
ForgivenStaysForgiven ==
    \A k \in Scopes, w \in WindowIds :
        /\ \A p \in Paths : Running(disk[p].keys[k], w) =>
              disk[p].keys[k].cycles[w].since >= forgiven[p][k]
        /\ Running(state.keys[k], w) => state.keys[k].cycles[w].since >= forgiven[path][k]

\* What is not yet on disk is waiting for the next write, and it is usage only: a
\* plan or a binding that is in effect has been saved (store.go:171-172, 208-209).
OnlyUsageAwaitsSaving ==
    /\ state.plans = disk[path].plans
    /\ \A k \in Scopes :
        /\ state.keys[k].plan = disk[path].keys[k].plan
        /\ state.keys[k] # disk[path].keys[k] => k \in dirty.keys

Increasing(s) == \A i, j \in DOMAIN s : i < j => s[i].id < s[j].id

\* Every usage record is logged once, in the order of arrival: the retries of a
\* failed save neither repeat nor reorder any (merge, Save).
LoggedOnce ==
    \A p \in Paths : Increasing(disk[p].log \o IF p = path THEN dirty.events ELSE <<>>)

\* A record leaves the queue of pending records only for the database, or because
\* a full queue of later ones pushed it out (withBoundedRequestRecords).
PendingReachesTheLog ==
    [][~(\E p \in Paths : Configure(p)) =>
         \A e \in ToSet(dirty.events) :
            LET kept == ToSet(disk'[path].log \o dirty'.events)
            IN  e \in kept \/ Cardinality({f \in kept : f.id > e.id}) >= MaxPending]_vars
=============================================================================
