-------------------------------- MODULE Quota --------------------------------
(***************************************************************************)
(* Subscription quotas, internal/billing/quota.go and plan.go, as          *)
(* operators on a key record, a plan and an instant.  A plan is a set of   *)
(* windows; a key bound to it runs at most one cycle per window.  Cycles   *)
(* are started by admissions only, charged by usage, and dropped lazily    *)
(* once they have expired.                                                 *)
(*                                                                         *)
(* One metered dimension stands for the three of the code (amount, tokens, *)
(* requests), which are charged and compared alike; it is the request      *)
(* count, which failed requests do not raise.                              *)
(***************************************************************************)
EXTENDS Integers, FiniteSets

CONSTANTS
    Models,     \* billing models
    AutoModel,  \* the dynamic model "auto", outside Models
    PlanIds,
    NoPlan,     \* an absent plan, or a key bound to none
    WindowIds,  \* identifiers of quota windows
    NoWindow,   \* an identifier that is not a window of the plan
    NoCycle,    \* a window whose cycle has not started
    NoTime,     \* Go's zero time
    MaxCount    \* largest counter (2^63 - 1 in the code)

Window == [period : Nat \ {0}, anchor : Nat \cup {NoTime}, limit : Nat \ {0}, scope : SUBSET Models]
Plan == [WindowIds -> Window \cup {NoWindow}]
Cycle == [plan : PlanIds, start : Int, end : Int, since : Nat, used : 0..MaxCount, born : Nat]
Key == [status : {"unknown", "traffic", "config", "deleted"}, plan : PlanIds \cup {NoPlan},
        cycles : [WindowIds -> Cycle \cup {NoCycle}]]

\* A window meters the models in its scope; an empty scope of the code is Models
\* here.  With an anchor its cycles lie on a grid, without one each starts with
\* the admission that opens it.
IsWindow(w) == w # NoWindow
AllModels(w) == w.scope = Models
Matches(w, m) == IsWindow(w) /\ (AllModels(w) \/ m \in w.scope)

-----------------------------------------------------------------------------
(* Cycles *)

\* since is the later of StartAt and UsageSince: usage of requests made before
\* the admission that opened the cycle is not its business.
NewCycle(w, p, now, born) ==
    LET start == IF w.anchor = NoTime THEN now
                 ELSE now - ((now - w.anchor) % w.period)
    IN  [plan |-> p, start |-> start, end |-> start + w.period, since |-> now,
         used |-> 0, born |-> born]

NoCycles == [w \in WindowIds |-> NoCycle]
Running(key, w) == key.cycles[w] # NoCycle

Settled(key, now) ==
    [key EXCEPT !.cycles = [w \in WindowIds |->
        IF Running(key, w) /\ now >= key.cycles[w].end THEN NoCycle ELSE key.cycles[w]]]

\* addQuotaCount
Saturated(n, delta) == IF delta > MaxCount - n THEN MaxCount ELSE n + delta

\* A cycle that has used its window's limit blocks it.
Exhausted(w, cycle) == cycle # NoCycle /\ cycle.used >= w.limit

\* The admission is refused if a window that meters the model is exhausted.
Blocked(key, plan, m) ==
    \E w \in WindowIds : Matches(plan[w], m) /\ Exhausted(plan[w], key.cycles[w])

\* activateCycles, for the windows that meter the model.
Activated(key, plan, m, now, born) ==
    [key EXCEPT !.cycles = [w \in WindowIds |->
        IF Matches(plan[w], m) /\ ~Running(key, w)
        THEN NewCycle(plan[w], key.plan, now, born)
        ELSE key.cycles[w]]]

\* chargeCycles: usage reported for a request made at an instant is charged to the
\* running cycles that were open then; without an instant it is not charged.
Charged(key, plan, m, at, delta) ==
    IF at = NoTime THEN key
    ELSE [key EXCEPT !.cycles = [w \in WindowIds |->
            IF /\ Running(key, w) /\ Matches(plan[w], m)
               /\ key.cycles[w].plan = key.plan
               /\ at >= key.cycles[w].since /\ at < key.cycles[w].end
            THEN [key.cycles[w] EXCEPT !.used = Saturated(@, delta)]
            ELSE key.cycles[w]]]

-----------------------------------------------------------------------------
(* Plans and keys *)

\* sameSchedule: same period, and anchors on the same grid.
SameSchedule(v, w) ==
    /\ v.period = w.period
    /\ (v.anchor = NoTime) = (w.anchor = NoTime)
    /\ w.anchor # NoTime => (v.anchor - w.anchor) % w.period = 0

\* Mutant: a window that is given another scope keeps its cycles.
KeepsCyclesOfScope(old, new) == IsWindow(new) /\ SameSchedule(new, old)

\* An edited window keeps its cycles if it still meters the same models on the
\* same schedule; its limit may change.
KeepsCycles(old, new) ==
    IsWindow(new) /\ SameSchedule(new, old) /\ new.scope = old.scope

\* The key after its plan was edited from old to new.
Rescheduled(key, old, new) ==
    [key EXCEPT !.cycles = [w \in WindowIds |->
        IF IsWindow(old[w]) /\ ~KeepsCycles(old[w], new[w]) THEN NoCycle ELSE key.cycles[w]]]

Bound(key, p) == [key EXCEPT !.plan = p, !.cycles = NoCycles]
Unbound(key) == Bound(key, NoPlan)

\* ValidateCycles, which a database must pass to be loaded.
ValidCycles(key, plans) ==
    /\ key.plan # NoPlan => plans[key.plan] # NoPlan
    /\ \A w \in WindowIds : Running(key, w) =>
        LET cycle == key.cycles[w]
            window == plans[key.plan][w]
        IN  /\ key.plan # NoPlan
            /\ IsWindow(window)
            /\ cycle.plan = key.plan
            /\ cycle.end = cycle.start + window.period
            /\ window.anchor # NoTime => (cycle.start - window.anchor) % window.period = 0
            /\ cycle.since >= cycle.start /\ cycle.since < cycle.end
            /\ cycle.used >= 0
=============================================================================
