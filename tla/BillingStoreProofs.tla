------------------------- MODULE BillingStoreProofs -------------------------
(***************************************************************************)
(* What holds of the billing store for every set of keys, plans, windows,  *)
(* models and databases, whatever the database answers.                    *)
(*                                                                         *)
(* The argument for DatabaseLoads and ForgivenStaysForgiven: whenever a    *)
(* database is written it becomes a copy of the working set (SavedIsState, *)
(* from OnlyUsageAwaitsSaving: everything that differs is being written),  *)
(* so what holds of every working set holds of every database.             *)
(*                                                                         *)
(* The argument for the usage records: every step moves them in one way    *)
(* (RecordsMove), which keeps each log with the queue behind it in order   *)
(* (LogsNumbered) and its records, with those a full queue gave up, the    *)
(* same set (RecordsKept).  Every operation leaves a running cycle as it   *)
(* is, opens a new one or charges it with the record that arrives, so      *)
(* cycles go on counting these records (CountsInv).                        *)
(***************************************************************************)
EXTENDS BillingStore, SequenceTheorems, FiniteSetTheorems, TLAPS

-----------------------------------------------------------------------------
(* Arithmetic of grids *)

LEMMA Division ==
    ASSUME NEW x \in Int, NEW d \in Nat \ {0}
    PROVE  /\ x % d \in 0..(d - 1)
           /\ x \div d \in Int
           /\ x = d * (x \div d) + (x % d)
OBVIOUS

LEMMA NoRemainder ==
    ASSUME NEW d \in Nat \ {0}, NEW q \in Int, NEW k \in Int, NEW r \in 0..(d - 1),
           d * q = d * k + r
    PROVE  r = 0
<1>1. d * (q - k) = r OBVIOUS
<1>2. CASE q - k >= 1
  <2>1. d * (q - k) >= d BY <1>2
  <2> QED BY <1>1, <2>1
<1>3. CASE q - k <= -1
  <2>1. d * (q - k) <= -d BY <1>3
  <2> QED BY <1>1, <2>1
<1>4. CASE q - k = 0 BY <1>1, <1>4
<1> QED BY <1>2, <1>3, <1>4

LEMMA Multiple ==
    ASSUME NEW d \in Nat \ {0}, NEW q \in Int
    PROVE  (d * q) % d = 0
<1> DEFINE x == d * q
<1>1. x \in Int OBVIOUS
<1>2. x % d \in 0..(d - 1) /\ x \div d \in Int /\ x = d * (x \div d) + (x % d)
    BY <1>1, Division
<1> HIDE DEF x
<1>3. d * q = d * (x \div d) + (x % d) BY <1>2 DEF x
<1>4. x % d = 0 BY <1>2, <1>3, NoRemainder
<1> QED BY <1>4 DEF x

\* newCycle puts the start of an anchored cycle on the window's grid.
LEMMA StartOnGrid ==
    ASSUME NEW t \in Int, NEW a \in Int, NEW d \in Nat \ {0}
    PROVE  /\ (t - a) % d \in 0..(d - 1)
           /\ (t - ((t - a) % d) - a) % d = 0
<1> DEFINE x == t - a
<1>1. x % d \in 0..(d - 1) /\ x \div d \in Int /\ x = d * (x \div d) + (x % d)
    BY Division
<1>2. t - (x % d) - a = d * (x \div d) BY <1>1
<1> QED BY <1>1, <1>2, Multiple

\* What is on one grid is on every grid of the same schedule (sameSchedule).
LEMMA SameGrid ==
    ASSUME NEW s \in Int, NEW a \in Int, NEW b \in Int, NEW d \in Nat \ {0},
           (s - a) % d = 0, (b - a) % d = 0
    PROVE  (s - b) % d = 0
<1> DEFINE x == s - a
           y == b - a
           q == (x \div d) - (y \div d)
<1>1. x \div d \in Int /\ x = d * (x \div d) BY Division
<1>2. y \div d \in Int /\ y = d * (y \div d) BY Division
<1>3. s - b = d * q /\ q \in Int
  <2>1. s - b = x - y OBVIOUS
  <2> HIDE DEF x, y
  <2>2. d * (x \div d) - d * (y \div d) = d * ((x \div d) - (y \div d)) BY <1>1, <1>2
  <2> QED BY <1>1, <1>2, <2>1, <2>2
<1> HIDE DEF q
<1> QED BY <1>3, Multiple

-----------------------------------------------------------------------------
(* Keys and their cycles *)

\* Every running cycle of new is one of old, but for what it has used.
Lighter(new, old) ==
    /\ new.plan = old.plan
    /\ \A w \in WindowIds : Running(new, w) =>
        /\ Running(old, w)
        /\ new.cycles[w].plan = old.cycles[w].plan
        /\ new.cycles[w].start = old.cycles[w].start
        /\ new.cycles[w].end = old.cycles[w].end
        /\ new.cycles[w].since = old.cycles[w].since

LEMMA LighterIsValid ==
    ASSUME NEW old \in Key, NEW new \in Key, NEW plans,
           Lighter(new, old), ValidCycles(old, plans)
    PROVE  ValidCycles(new, plans)
<1> SUFFICES ASSUME NEW w \in WindowIds, Running(new, w)
             PROVE  /\ new.plan # NoPlan
                    /\ IsWindow(plans[new.plan][w])
                    /\ new.cycles[w].plan = new.plan
                    /\ new.cycles[w].end = new.cycles[w].start + plans[new.plan][w].period
                    /\ plans[new.plan][w].anchor # NoTime =>
                         (new.cycles[w].start - plans[new.plan][w].anchor)
                             % plans[new.plan][w].period = 0
                    /\ new.cycles[w].since >= new.cycles[w].start
                    /\ new.cycles[w].since < new.cycles[w].end
                    /\ new.cycles[w].used >= 0
    BY DEF ValidCycles, Lighter
<1>1. new.cycles[w] \in Cycle BY DEF Running, Key
<1>2. new.cycles[w].used >= 0 BY <1>1, BillingAssumption DEF Cycle
<1> QED BY <1>2 DEF ValidCycles, Lighter

LEMMA SettledProperties ==
    ASSUME NEW key \in Key, NEW t \in Nat
    PROVE  /\ Settled(key, t) \in Key
           /\ Settled(key, t).status = key.status
           /\ Lighter(Settled(key, t), key)
BY DEF Settled, Key, Lighter, Running

LEMMA ChargedProperties ==
    ASSUME NEW key \in Key, NEW plan, NEW m, NEW at, NEW delta \in {0, 1}
    PROVE  /\ Charged(key, plan, m, at, delta) \in Key
           /\ Charged(key, plan, m, at, delta).status = key.status
           /\ Lighter(Charged(key, plan, m, at, delta), key)
<1> DEFINE new == Charged(key, plan, m, at, delta)
           charge(w) == [key.cycles[w] EXCEPT !.used = Saturated(@, delta)]
<1>1. ASSUME NEW w \in WindowIds, Running(key, w)
      PROVE  /\ charge(w) \in Cycle
             /\ charge(w).plan = key.cycles[w].plan
             /\ charge(w).start = key.cycles[w].start
             /\ charge(w).end = key.cycles[w].end
             /\ charge(w).since = key.cycles[w].since
  <2>1. key.cycles[w] \in Cycle BY <1>1 DEF Running, Key
  <2>2. Saturated(key.cycles[w].used, delta) \in 0..MaxCount
      BY <2>1, BillingAssumption DEF Cycle, Saturated
  <2> QED BY <2>1, <2>2 DEF Cycle
<1>2. CASE at = NoTime BY <1>2 DEF Charged, Lighter
<1>3. CASE at # NoTime
  <2> DEFINE C == [w \in WindowIds |-> IF /\ Running(key, w) /\ Matches(plan[w], m)
                                          /\ key.cycles[w].plan = key.plan
                                          /\ at >= key.cycles[w].since
                                          /\ at < key.cycles[w].end
                                       THEN charge(w) ELSE key.cycles[w]]
  <2>1. new = [key EXCEPT !.cycles = C] BY <1>3 DEF Charged
  <2>2. \A w \in WindowIds : C[w] = key.cycles[w] \/ (Running(key, w) /\ C[w] = charge(w))
      OBVIOUS
  <2>3. C \in [WindowIds -> Cycle \cup {NoCycle}]
    <3>1. \A w \in WindowIds : key.cycles[w] \in Cycle \cup {NoCycle} BY DEF Key
    <3>2. \A w \in WindowIds : C[w] \in Cycle \cup {NoCycle} BY <1>1, <2>2, <3>1
    <3> QED BY <3>2
  <2> HIDE DEF C, charge
  <2>4. new \in Key /\ new.status = key.status /\ new.plan = key.plan /\ new.cycles = C
      BY <2>1, <2>3 DEF Key
  <2>5. Lighter(new, key)
    <3> HIDE DEF new
    <3> SUFFICES ASSUME NEW w \in WindowIds, Running(new, w)
                 PROVE  /\ Running(key, w)
                        /\ new.cycles[w].plan = key.cycles[w].plan
                        /\ new.cycles[w].start = key.cycles[w].start
                        /\ new.cycles[w].end = key.cycles[w].end
                        /\ new.cycles[w].since = key.cycles[w].since
        BY <2>4 DEF Lighter
    <3>1. CASE C[w] = key.cycles[w] BY <2>4, <3>1 DEF Running
    <3>2. CASE Running(key, w) /\ C[w] = charge(w) BY <1>1, <2>4, <3>2
    <3> QED BY <2>2, <3>1, <3>2
  <2> QED BY <2>4, <2>5
<1> QED BY <1>2, <1>3

\* A cycle that an admission opens fits its window and reaches back to no request
\* made before (newCycle).
LEMMA NewCycleProperties ==
    ASSUME NEW w \in Window, NEW p \in PlanIds, NEW t \in Nat, NEW born \in Nat
    PROVE  LET c == NewCycle(w, p, t, born)
           IN  /\ c \in Cycle
               /\ c.plan = p
               /\ c.end = c.start + w.period
               /\ w.anchor # NoTime => (c.start - w.anchor) % w.period = 0
               /\ c.since >= c.start /\ c.since < c.end
               /\ c.since = t
<1> DEFINE start == IF w.anchor = NoTime THEN t ELSE t - ((t - w.anchor) % w.period)
<1>1. w.period \in Nat \ {0} BY DEF Window
<1>2. start \in Int /\ t >= start /\ t < start + w.period
      /\ (w.anchor # NoTime => (start - w.anchor) % w.period = 0)
  <2>1. CASE w.anchor = NoTime BY <1>1, <2>1
  <2>2. CASE w.anchor # NoTime
    <3> DEFINE a == w.anchor
               d == w.period
               r == (t - a) % d
    <3>1. a \in Int /\ d \in Nat \ {0} BY <1>1, <2>2 DEF Window
    <3>2. start = t - r BY <2>2
    <3> HIDE DEF start, a, d
    <3>0. t \in Int OBVIOUS
    <3>3. r \in 0..(d - 1) /\ (t - r - a) % d = 0 BY <3>0, <3>1, StartOnGrid, Zenon
    <3> HIDE DEF r
    <3>4. start \in Int /\ t >= start /\ t < start + d /\ (start - a) % d = 0
        BY <3>1, <3>2, <3>3
    <3> QED BY <3>4 DEF a, d
  <2> QED BY <2>1, <2>2
<1>3. NewCycle(w, p, t, born) =
        [plan |-> p, start |-> start, end |-> start + w.period, since |-> t,
         used |-> 0, born |-> born]
    BY DEF NewCycle
<1> HIDE DEF start
<1> QED BY <1>1, <1>2, <1>3, BillingAssumption DEF Cycle

\* The cycles of new are those of old or were opened at t for plan.
Opened(new, old, plan, t, born) ==
    /\ new.status = old.status
    /\ new.plan = old.plan
    /\ \A w \in WindowIds :
         \/ new.cycles[w] = old.cycles[w]
         \/ IsWindow(plan[w]) /\ new.cycles[w] = NewCycle(plan[w], old.plan, t, born)

LEMMA ActivatedProperties ==
    ASSUME NEW key \in Key, NEW plan \in Plan, NEW m, NEW t \in Nat, NEW born \in Nat,
           key.plan \in PlanIds
    PROVE  /\ Activated(key, plan, m, t, born) \in Key
           /\ Opened(Activated(key, plan, m, t, born), key, plan, t, born)
<1> DEFINE new == Activated(key, plan, m, t, born)
           fresh(w) == NewCycle(plan[w], key.plan, t, born)
           C == [w \in WindowIds |-> IF Matches(plan[w], m) /\ ~Running(key, w)
                                     THEN fresh(w) ELSE key.cycles[w]]
<1>1. new = [key EXCEPT !.cycles = C] BY DEF Activated
<1>2. \A w \in WindowIds : \/ C[w] = key.cycles[w]
                           \/ IsWindow(plan[w]) /\ C[w] = fresh(w)
    BY DEF Matches
<1>3. ASSUME NEW w \in WindowIds, IsWindow(plan[w]) PROVE fresh(w) \in Cycle
  <2>1. plan[w] \in Window BY <1>3 DEF Plan, IsWindow
  <2> QED BY <2>1, NewCycleProperties
<1> HIDE DEF fresh
<1>4. C \in [WindowIds -> Cycle \cup {NoCycle}]
  <2>1. \A w \in WindowIds : key.cycles[w] \in Cycle \cup {NoCycle} BY DEF Key
  <2>2. \A w \in WindowIds : C[w] \in Cycle \cup {NoCycle} BY <1>2, <1>3, <2>1
  <2> QED BY <2>2
<1> HIDE DEF C
<1>5. new \in Key /\ new.status = key.status /\ new.plan = key.plan /\ new.cycles = C
    BY <1>1, <1>4 DEF Key
<1> HIDE DEF new
<1> QED BY <1>2, <1>5 DEF fresh, new, Opened

LEMMA ActivatedIsValid ==
    ASSUME NEW key \in Key, NEW plans \in [PlanIds -> Plan \cup {NoPlan}], NEW m,
           NEW t \in Nat, NEW born \in Nat,
           key.plan \in PlanIds, plans[key.plan] \in Plan, ValidCycles(key, plans)
    PROVE  ValidCycles(Activated(key, plans[key.plan], m, t, born), plans)
<1> DEFINE plan == plans[key.plan]
           new == Activated(key, plan, m, t, born)
<1>0. new \in Key /\ Opened(new, key, plan, t, born) BY ActivatedProperties
<1> HIDE DEF new
<1>1. /\ new.plan = key.plan
      /\ \A w \in WindowIds :
           \/ new.cycles[w] = key.cycles[w]
           \/ IsWindow(plan[w]) /\ new.cycles[w] = NewCycle(plan[w], key.plan, t, born)
    BY <1>0 DEF Opened
<1>2. key.plan # NoPlan /\ plan # NoPlan BY BillingAssumption
<1> SUFFICES ASSUME NEW w \in WindowIds, Running(new, w)
             PROVE  /\ IsWindow(plan[w])
                    /\ new.cycles[w].plan = key.plan
                    /\ new.cycles[w].end = new.cycles[w].start + plan[w].period
                    /\ plan[w].anchor # NoTime =>
                         (new.cycles[w].start - plan[w].anchor) % plan[w].period = 0
                    /\ new.cycles[w].since >= new.cycles[w].start
                    /\ new.cycles[w].since < new.cycles[w].end
                    /\ new.cycles[w].used >= 0
    BY <1>1, <1>2 DEF ValidCycles, new
<1>3. CASE new.cycles[w] = key.cycles[w] BY <1>1, <1>3 DEF ValidCycles, Running
<1>4. CASE IsWindow(plan[w]) /\ new.cycles[w] = NewCycle(plan[w], key.plan, t, born)
  <2>1. plan[w] \in Window BY <1>4 DEF Plan, IsWindow
  <2>2. new.cycles[w].used >= 0 BY <1>4 DEF NewCycle
  <2> QED BY <1>4, <2>1, <2>2, NewCycleProperties
<1> QED BY <1>1, <1>3, <1>4

\* An edit of a plan leaves only cycles that fit the new windows
\* (UpdatePlanWithBindings, sameSchedule).
LEMMA RescheduledIsValid ==
    ASSUME NEW key \in Key, NEW plans \in [PlanIds -> Plan \cup {NoPlan}], NEW new \in Plan,
           key.plan \in PlanIds, plans[key.plan] \in Plan, ValidCycles(key, plans)
    PROVE  /\ Rescheduled(key, plans[key.plan], new) \in Key
           /\ Rescheduled(key, plans[key.plan], new).status = key.status
           /\ Lighter(Rescheduled(key, plans[key.plan], new), key)
           /\ ValidCycles(Rescheduled(key, plans[key.plan], new),
                          [plans EXCEPT ![key.plan] = new])
<1> DEFINE old == plans[key.plan]
           res == Rescheduled(key, old, new)
<1>1. /\ res \in Key /\ res.status = key.status /\ res.plan = key.plan
      /\ \A w \in WindowIds : Running(res, w) =>
           /\ res.cycles[w] = key.cycles[w]
           /\ Running(key, w)
           /\ IsWindow(old[w]) => KeepsCycles(old[w], new[w])
    BY DEF Rescheduled, Key, Running
<1> HIDE DEF res
<1>2. Lighter(res, key) BY <1>1 DEF Lighter
<1>3. ValidCycles(res, [plans EXCEPT ![key.plan] = new])
  <2>1. new # NoPlan BY BillingAssumption
  <2> SUFFICES ASSUME NEW w \in WindowIds, Running(res, w)
               PROVE  /\ key.plan # NoPlan
                      /\ IsWindow(new[w])
                      /\ res.cycles[w].plan = key.plan
                      /\ res.cycles[w].end = res.cycles[w].start + new[w].period
                      /\ new[w].anchor # NoTime =>
                           (res.cycles[w].start - new[w].anchor) % new[w].period = 0
                      /\ res.cycles[w].since >= res.cycles[w].start
                      /\ res.cycles[w].since < res.cycles[w].end
                      /\ res.cycles[w].used >= 0
      BY <1>1, <2>1 DEF ValidCycles
  <2>2. res.cycles[w] = key.cycles[w] /\ Running(key, w) BY <1>1
  <2>3. /\ key.plan # NoPlan /\ IsWindow(old[w])
        /\ key.cycles[w].plan = key.plan
        /\ key.cycles[w].end = key.cycles[w].start + old[w].period
        /\ old[w].anchor # NoTime => (key.cycles[w].start - old[w].anchor) % old[w].period = 0
        /\ key.cycles[w].since >= key.cycles[w].start
        /\ key.cycles[w].since < key.cycles[w].end
        /\ key.cycles[w].used >= 0
      BY <2>2 DEF ValidCycles
  <2>4. IsWindow(new[w]) /\ SameSchedule(new[w], old[w]) BY <1>1, <2>3 DEF KeepsCycles
  <2>5. new[w] \in Window /\ old[w] \in Window BY <2>3, <2>4 DEF Plan, IsWindow
  <2>6. new[w].period = old[w].period BY <2>4 DEF SameSchedule
  <2>7. ASSUME new[w].anchor # NoTime
        PROVE  (key.cycles[w].start - new[w].anchor) % new[w].period = 0
    <3> DEFINE x == key.cycles[w].start
               a == old[w].anchor
               b == new[w].anchor
               d == new[w].period
    <3>1. a # NoTime /\ (b - a) % d = 0 BY <2>4, <2>6, <2>7 DEF SameSchedule
    <3>2. x \in Int BY <2>2 DEF Running, Key, Cycle
    <3>3. a \in Int /\ b \in Int /\ d \in Nat \ {0} BY <2>5, <2>7, <3>1 DEF Window
    <3>4. (x - a) % d = 0 BY <2>3, <2>6, <3>1
    <3> HIDE DEF x, a, b, d
    <3>5. (x - b) % d = 0 BY <3>1, <3>2, <3>3, <3>4, SameGrid, Zenon
    <3> QED BY <3>5 DEF x, b, d
  <2> QED BY <2>2, <2>3, <2>4, <2>6, <2>7
<1> QED BY <1>1, <1>2, <1>3 DEF res

-----------------------------------------------------------------------------
(* Working sets, databases and writes *)

Plans == [PlanIds -> Plan \cup {NoPlan}]
Keys == [Scopes -> Key]
Changes == [keys : SUBSET Scopes, plans : BOOLEAN, events : Seq(Event)]

\* Every key fits the plans, and keys that are not on record are bound to nothing.
Sound(plans, keys) ==
    \A k \in Scopes : /\ ValidCycles(keys[k], plans)
                      /\ keys[k].status = "unknown" => keys[k].plan = NoPlan

\* No cycle reaches back behind the instants of f.
PaysSince(keys, f) ==
    \A k \in Scopes, w \in WindowIds : Running(keys[k], w) => keys[k].cycles[w].since >= f[k]

\* The changes name everything in which st differs from the working set.
Names(st, changes) ==
    /\ st.plans # state.plans => changes.plans
    /\ \A k \in Scopes : st.keys[k] # state.keys[k] => k \in changes.keys

StoreInv ==
    /\ TypeOK
    /\ OnlyUsageAwaitsSaving
    /\ Sound(state.plans, state.keys)
    /\ \A p \in Paths : Sound(disk[p].plans, disk[p].keys)
    /\ \A p \in Paths : PaysSince(disk[p].keys, forgiven[p])
    /\ PaysSince(state.keys, forgiven[path])
    /\ \A p \in Paths, k \in Scopes : forgiven[p][k] <= now

LEMMA MergedProperties ==
    ASSUME NEW a \in Changes, NEW b \in Changes
    PROVE  /\ Merged(a, b) \in Changes
           /\ Len(Merged(a, b).events) <= MaxPending
           /\ Merged(a, b).keys = a.keys \cup b.keys
           /\ Merged(a, b).plans = (a.plans \/ b.plans)
<1> DEFINE all == a.events \o b.events
           excess == IF Len(all) > MaxPending THEN Len(all) - MaxPending ELSE 0
           kept == SubSeq(all, excess + 1, Len(all))
<1>1. all \in Seq(Event) /\ Len(all) \in Nat BY ConcatProperties, LenProperties DEF Changes
<1> HIDE DEF all
<1>2. excess \in Nat /\ Len(all) - excess <= MaxPending /\ excess <= Len(all)
    BY <1>1, BillingAssumption
<1> HIDE DEF excess
<1>3. kept \in Seq(Event) /\ Len(kept) = Len(all) - excess
  <2>1. CASE excess + 1 <= Len(all)
    BY <1>1, <1>2, <2>1, SubSeqProperties
  <2>2. CASE excess = Len(all)
    BY <1>1, <1>2, <2>2, SubSeqProperties
  <2> QED BY <1>1, <1>2, <2>1, <2>2
<1>4. Merged(a, b) = [keys |-> a.keys \cup b.keys, plans |-> a.plans \/ b.plans, events |-> kept]
    BY DEF Merged, all, excess
<1> HIDE DEF kept
<1> DEFINE planned == a.plans \/ b.plans
<1>5. planned \in BOOLEAN OBVIOUS
<1>6. a.keys \cup b.keys \in SUBSET Scopes BY DEF Changes
<1>7. Merged(a, b) = [keys |-> a.keys \cup b.keys, plans |-> planned, events |-> kept]
    BY <1>4
<1> HIDE DEF planned
<1>8. Len(kept) <= MaxPending BY <1>2, <1>3
<1>9. Merged(a, b) \in Changes BY <1>3, <1>5, <1>6, <1>7 DEF Changes
<1>10. Merged(a, b).plans = planned BY <1>7
<1> QED BY <1>7, <1>8, <1>9, <1>10 DEF planned

LEMMA NoChangesIsChanges == NoChanges \in Changes /\ Len(NoChanges.events) = 0
BY EmptySeq DEF NoChanges, Changes

\* A database that is written becomes a copy of the working set.
LEMMA SavedIsState ==
    ASSUME TypeOK, OnlyUsageAwaitsSaving, NEW st \in [plans : Plans, keys : Keys],
           NEW changes \in Changes, Names(st, changes)
    PROVE  /\ Saved(disk[path], st, Merged(dirty, changes)).plans = st.plans
           /\ Saved(disk[path], st, Merged(dirty, changes)).keys = st.keys
           /\ Saved(disk[path], st, Merged(dirty, changes)).log \in Seq(Event)
           /\ Merged(dirty, changes) = NoChanges =>
                /\ st.plans = disk[path].plans
                /\ st.keys = disk[path].keys
<1> DEFINE all == Merged(dirty, changes)
           db == disk[path]
<1>1. dirty \in Changes BY DEF TypeOK, Changes
<1>2. all \in Changes /\ all.keys = dirty.keys \cup changes.keys
      /\ all.plans = (dirty.plans \/ changes.plans)
    BY <1>1, MergedProperties
<1>3. db \in [plans : Plans, keys : Keys, log : Seq(Event)] BY DEF TypeOK, Plans, Keys
<1> HIDE DEF all
<1>4. ~all.plans => st.plans = db.plans BY <1>2 DEF Names, OnlyUsageAwaitsSaving
<1>5. \A k \in Scopes : k \notin all.keys => st.keys[k] = db.keys[k]
    BY <1>2 DEF Names, OnlyUsageAwaitsSaving
<1> HIDE DEF db
<1>6. Saved(db, st, all).keys = st.keys
  <2>1. Saved(db, st, all).keys = [k \in Scopes |-> IF k \in all.keys THEN st.keys[k] ELSE db.keys[k]]
      BY DEF Saved
  <2>2. \A k \in Scopes : Saved(db, st, all).keys[k] = st.keys[k] BY <1>5, <2>1
  <2>3. st.keys = [k \in Scopes |-> st.keys[k]] BY DEF Keys
  <2> QED BY <1>5, <2>1, <2>3
<1>7. Saved(db, st, all).plans = st.plans BY <1>4 DEF Saved
<1>8. Saved(db, st, all).log \in Seq(Event)
    BY <1>2, <1>3, ConcatProperties DEF Saved, Changes
<1>9. ASSUME all = NoChanges PROVE st.plans = db.plans /\ st.keys = db.keys
  <2>1. ~all.plans /\ all.keys = {} BY <1>9 DEF NoChanges
  <2>2. st.keys = [k \in Scopes |-> st.keys[k]] /\ db.keys = [k \in Scopes |-> db.keys[k]]
      BY <1>3 DEF Keys
  <2> QED BY <1>4, <1>5, <2>1, <2>2
<1> QED BY <1>6, <1>7, <1>8, <1>9 DEF all, db

\* The history variables around a write of st that forgives as of f.
Frame(ok, f) ==
    /\ forgiven' = IF ok THEN [forgiven EXCEPT ![path] = f] ELSE forgiven
    /\ now' = now
    /\ recorded' \in Nat
    /\ dropped' \in [Paths -> SUBSET Event]

\* A write that reaches the database.
LEMMA WrittenInv ==
    ASSUME StoreInv, NEW st \in [plans : Plans, keys : Keys], NEW changes \in Changes,
           NEW f \in [Scopes -> Nat],
           Names(st, changes), Sound(st.plans, st.keys), PaysSince(st.keys, f),
           \A k \in Scopes : f[k] <= now,
           LET all == Merged(dirty, changes)
           IN  disk' = IF all # NoChanges THEN [disk EXCEPT ![path] = Saved(@, st, all)] ELSE disk,
           state' = st, dirty' = NoChanges, path' = path, Frame(TRUE, f)
    PROVE  StoreInv'
<1> DEFINE all == Merged(dirty, changes)
           db == Saved(disk[path], st, all)
<1>1. TypeOK /\ OnlyUsageAwaitsSaving BY DEF StoreInv
<1>2. /\ db.plans = st.plans /\ db.keys = st.keys /\ db.log \in Seq(Event)
      /\ all = NoChanges => st.plans = disk[path].plans /\ st.keys = disk[path].keys
    BY <1>1, SavedIsState
<1>3. db \in [plans : Plans, keys : Keys, log : Seq(Event)]
  <2>1. db = [plans |-> db.plans, keys |-> db.keys, log |-> db.log] BY DEF Saved
  <2> HIDE DEF db
  <2> QED BY <1>2, <2>1
<1> HIDE DEF db
<1>4. disk' = IF all # NoChanges THEN [disk EXCEPT ![path] = db] ELSE disk BY DEF db
<1> HIDE DEF all
<1>5. path \in Paths /\ disk \in [Paths -> [plans : Plans, keys : Keys, log : Seq(Event)]]
    BY <1>1 DEF TypeOK, Plans, Keys
<1>6. /\ disk' \in [Paths -> [plans : Plans, keys : Keys, log : Seq(Event)]]
      /\ disk'[path].plans = st.plans /\ disk'[path].keys = st.keys
      /\ \A p \in Paths \ {path} : disk'[p] = disk[p]
    BY <1>2, <1>3, <1>4, <1>5
<1>7. /\ forgiven' \in [Paths -> [Scopes -> Nat]]
      /\ forgiven'[path] = f
      /\ \A p \in Paths \ {path} : forgiven'[p] = forgiven[p]
    BY <1>1, <1>5 DEF TypeOK, Frame
<1>8. TypeOK' BY <1>1, <1>6, <1>7, NoChangesIsChanges, BillingAssumption
              DEF TypeOK, Frame, Plans, Keys, Changes
<1>9. OnlyUsageAwaitsSaving' BY <1>6 DEF OnlyUsageAwaitsSaving
<1>10. \A p \in Paths : Sound(disk'[p].plans, disk'[p].keys)
    BY <1>6 DEF StoreInv
<1>11. \A p \in Paths : PaysSince(disk'[p].keys, forgiven'[p])
    BY <1>6, <1>7 DEF StoreInv
<1>12. \A p \in Paths, k \in Scopes : forgiven'[p][k] <= now'
    BY <1>7 DEF StoreInv, Frame
<1> QED BY <1>7, <1>8, <1>9, <1>10, <1>11, <1>12 DEF StoreInv

\* A change of the traffic takes effect in any case (updateResult).
LEMMA UpdateInv ==
    ASSUME StoreInv, NEW st \in [plans : Plans, keys : Keys], NEW changes \in Changes,
           NEW ok \in BOOLEAN,
           Update(st, changes, ok), Names(st, changes),
           st.plans = state.plans, \A k \in Scopes : st.keys[k].plan = state.keys[k].plan,
           Sound(st.plans, st.keys), PaysSince(st.keys, forgiven[path]),
           Frame(ok, forgiven[path])
    PROVE  StoreInv'
<1>1. TypeOK BY DEF StoreInv
<1>2. path \in Paths /\ forgiven[path] \in [Scopes -> Nat]
      /\ \A k \in Scopes : forgiven[path][k] <= now
    BY <1>1 DEF TypeOK, StoreInv
<1>3. CASE ok
  <2>1. /\ disk' = IF Merged(dirty, changes) # NoChanges
                   THEN [disk EXCEPT ![path] = Saved(@, st, Merged(dirty, changes))] ELSE disk
        /\ state' = st /\ dirty' = NoChanges /\ path' = path
      BY <1>3 DEF Update
  <2>2. Frame(TRUE, forgiven[path]) BY <1>3 DEF Frame
  <2> QED BY <1>2, <2>1, <2>2, WrittenInv
<1>4. CASE ~ok
  <2> DEFINE all == Merged(dirty, changes)
  <2>1. state' = st /\ disk' = disk /\ dirty' = all /\ path' = path BY <1>4 DEF Update
  <2>2. dirty \in Changes BY <1>1 DEF TypeOK, Changes
  <2>3. all \in Changes /\ Len(all.events) <= MaxPending
        /\ all.keys = dirty.keys \cup changes.keys
      BY <2>2, MergedProperties
  <2> HIDE DEF all
  <2>4. forgiven' = forgiven BY <1>4 DEF Frame
  <2>5. TypeOK' BY <1>1, <2>1, <2>3, <2>4 DEF TypeOK, Frame, Plans, Keys, Changes
  <2>6. OnlyUsageAwaitsSaving'
    <3>1. OnlyUsageAwaitsSaving BY DEF StoreInv
    <3>2. ASSUME NEW k \in Scopes, st.keys[k] # disk[path].keys[k] PROVE k \in all.keys
      <4>1. CASE st.keys[k] = state.keys[k] BY <2>3, <3>1, <3>2, <4>1 DEF OnlyUsageAwaitsSaving
      <4>2. CASE st.keys[k] # state.keys[k] BY <2>3, <4>2 DEF Names
      <4> QED BY <4>1, <4>2
    <3> QED BY <2>1, <3>1, <3>2 DEF OnlyUsageAwaitsSaving
  <2> QED BY <2>1, <2>4, <2>5, <2>6 DEF StoreInv, Frame
<1> QED BY <1>3, <1>4

\* An edit takes effect if it is saved (editConfiguration).
LEMMA EditInv ==
    ASSUME StoreInv, NEW st \in [plans : Plans, keys : Keys], NEW changes \in Changes,
           NEW ok \in BOOLEAN, NEW f \in [Scopes -> Nat],
           Edit(st, changes, ok), Names(st, changes), Sound(st.plans, st.keys),
           PaysSince(st.keys, f), \A k \in Scopes : f[k] <= now, Frame(ok, f)
    PROVE  StoreInv'
<1>1. CASE ok
  <2>1. /\ disk' = IF Merged(dirty, changes) # NoChanges
                   THEN [disk EXCEPT ![path] = Saved(@, st, Merged(dirty, changes))] ELSE disk
        /\ state' = st /\ dirty' = NoChanges /\ path' = path
      BY <1>1 DEF Edit
  <2>2. Frame(TRUE, f) BY <1>1 DEF Frame
  <2> QED BY <2>1, <2>2, WrittenInv
<1>2. CASE ~ok
  <2>1. UNCHANGED <<state, disk, dirty, path, forgiven, now>> BY <1>2 DEF Edit, Frame
  <2>2. TypeOK' BY <2>1 DEF StoreInv, TypeOK, Frame
  <2>3. OnlyUsageAwaitsSaving' BY <2>1 DEF StoreInv, OnlyUsageAwaitsSaving
  <2> QED BY <2>1, <2>2, <2>3 DEF StoreInv
<1> QED BY <1>1, <1>2

-----------------------------------------------------------------------------
(* The operations: traffic *)

\* The working set with one other key, lighter than or like the old one.
LEMMA WithKeyProperties ==
    ASSUME StoreInv, NEW k \in Scopes, NEW key \in Key
    PROVE  /\ WithKey(state, k, key) \in [plans : Plans, keys : Keys]
           /\ WithKey(state, k, key).plans = state.plans
           /\ WithKey(state, k, key).keys[k] = key
           /\ \A l \in Scopes \ {k} : WithKey(state, k, key).keys[l] = state.keys[l]
BY DEF WithKey, StoreInv, TypeOK, Plans, Keys

LEMMA KeysChangedProperties ==
    ASSUME NEW S \in SUBSET Scopes
    PROVE  /\ KeysChanged(S) \in Changes /\ KeysChanged(S).keys = S
           /\ PlansChanged(S) \in Changes /\ PlansChanged(S).keys = S /\ PlansChanged(S).plans
BY EmptySeq DEF KeysChanged, PlansChanged, NoChanges, Changes

\* Traffic that leaves every key bound where it was.
LEMMA TrafficInv ==
    ASSUME StoreInv, NEW st \in [plans : Plans, keys : Keys], NEW changes \in Changes,
           NEW ok \in BOOLEAN,
           Update(st, changes, ok), st.plans = state.plans,
           \A k \in Scopes :
              \/ st.keys[k] = state.keys[k]
              \/ /\ k \in changes.keys
                 /\ st.keys[k].plan = state.keys[k].plan
                 /\ ValidCycles(st.keys[k], state.plans)
                 /\ st.keys[k].status = "unknown" => state.keys[k].status = "unknown"
                 /\ \A w \in WindowIds : Running(st.keys[k], w) =>
                      st.keys[k].cycles[w].since >= forgiven[path][k],
           now' = now, forgiven' = forgiven, recorded' \in Nat,
           dropped' \in [Paths -> SUBSET Event]
    PROVE  StoreInv'
<1>1. Names(st, changes) BY DEF Names
<1>2. \A k \in Scopes : st.keys[k].plan = state.keys[k].plan OBVIOUS
<1>3. Sound(st.plans, st.keys) BY DEF Sound, StoreInv
<1>4. PaysSince(st.keys, forgiven[path]) BY DEF PaysSince, StoreInv
<1>5. Frame(ok, forgiven[path]) BY DEF Frame, StoreInv, TypeOK
<1> QED BY <1>1, <1>2, <1>3, <1>4, <1>5, UpdateInv

\* Of a lighter key nothing has to be shown but that it is one.
LEMMA LighterFits ==
    ASSUME StoreInv, NEW k \in Scopes, NEW new \in Key, NEW old \in Key, Lighter(new, old),
           old = state.keys[k] \/ (/\ old.plan = state.keys[k].plan
                                   /\ old.cycles = state.keys[k].cycles)
    PROVE  /\ new.plan = state.keys[k].plan
           /\ ValidCycles(new, state.plans)
           /\ \A w \in WindowIds : Running(new, w) =>
                 new.cycles[w].since >= forgiven[path][k]
<1>1. state.keys[k] \in Key BY DEF StoreInv, TypeOK
<1>2. Lighter(new, state.keys[k]) BY DEF Lighter, Running
<1>3. ValidCycles(state.keys[k], state.plans) BY DEF StoreInv, Sound
<1>4. ValidCycles(new, state.plans) BY <1>1, <1>2, <1>3, LighterIsValid
<1>5. \A w \in WindowIds : Running(state.keys[k], w) =>
        state.keys[k].cycles[w].since >= forgiven[path][k]
    BY DEF StoreInv, PaysSince
<1> QED BY <1>2, <1>4, <1>5 DEF Lighter

LEMMA AuthorizeModelInv ==
    ASSUME StoreInv, NEW k \in Scopes, NEW m, NEW ok \in BOOLEAN, AuthorizeModel(k, m, ok)
    PROVE  StoreInv'
<1> DEFINE key == state.keys[k]
           plan == state.plans[key.plan]
           settled == Settled(key, now)
           after == IF \/ key.plan = NoPlan
                       \/ m = AutoModel /\ \E w \in WindowIds : IsWindow(plan[w]) /\ ~AllModels(plan[w])
                    THEN key
                    ELSE IF Blocked(settled, plan, m) THEN settled
                    ELSE Activated(settled, plan, m, now, recorded)
           changes == IF after # key THEN KeysChanged({k}) ELSE NoChanges
           st == WithKey(state, k, after)
<1>1. /\ Update(st, changes, ok)
      /\ UNCHANGED <<now, recorded, dropped, forgiven>>
    BY DEF AuthorizeModel, historyVars
<1>2. key \in Key /\ state.plans \in Plans /\ now \in Nat /\ recorded \in Nat
      /\ recorded' \in Nat /\ dropped' \in [Paths -> SUBSET Event]
    BY <1>1 DEF StoreInv, TypeOK, Plans
<1>3. settled \in Key /\ settled.status = key.status /\ Lighter(settled, key)
    BY <1>2, SettledProperties
<1>4. /\ settled.plan = key.plan /\ ValidCycles(settled, state.plans)
      /\ \A w \in WindowIds : Running(settled, w) => settled.cycles[w].since >= forgiven[path][k]
    BY <1>2, <1>3, LighterFits
<1> DEFINE Fits(x) == /\ x \in Key
                      /\ x.plan = key.plan
                      /\ x.status = key.status
                      /\ ValidCycles(x, state.plans)
                      /\ \A w \in WindowIds : Running(x, w) =>
                            x.cycles[w].since >= forgiven[path][k]
<1>5. Fits(key) BY <1>2 DEF StoreInv, Sound, PaysSince
<1>6. Fits(settled) BY <1>3, <1>4
<1>7. ASSUME key.plan # NoPlan PROVE Fits(Activated(settled, plan, m, now, recorded))
  <2> DEFINE new == Activated(settled, plan, m, now, recorded)
  <2>1. key.plan \in PlanIds BY <1>2, <1>7 DEF Key
  <2>2. plan \in Plan
    <3>1. state.plans[key.plan] # NoPlan BY <1>5, <1>7 DEF ValidCycles
    <3> QED BY <1>2, <2>1, <3>1 DEF Plans
  <2> HIDE DEF key, settled
  <2>3. settled.plan \in PlanIds /\ plan = state.plans[settled.plan] BY <1>4, <2>1
  <2> HIDE DEF plan
  <2>4. new \in Key /\ Opened(new, settled, plan, now, recorded)
      BY <1>2, <1>3, <2>2, <2>3, ActivatedProperties
  <2>5. ValidCycles(new, state.plans) BY <1>2, <1>3, <1>4, <2>2, <2>3, ActivatedIsValid DEF Plans
  <2> HIDE DEF new
  <2>6. ASSUME NEW w \in WindowIds, Running(new, w)
        PROVE  new.cycles[w].since >= forgiven[path][k]
    <3>1. CASE new.cycles[w] = settled.cycles[w] BY <1>4, <2>6, <3>1 DEF Running
    <3>2. CASE IsWindow(plan[w]) /\ new.cycles[w] = NewCycle(plan[w], settled.plan, now, recorded)
      <4>1. plan[w] \in Window BY <2>2, <3>2 DEF Plan, IsWindow
      <4>2. new.cycles[w].since = now BY <1>2, <2>3, <3>2, <4>1, NewCycleProperties
      <4>3. forgiven[path][k] <= now BY DEF StoreInv, TypeOK
      <4>4. forgiven[path][k] \in Nat BY DEF StoreInv, TypeOK
      <4> QED BY <1>2, <4>2, <4>3, <4>4
    <3> QED BY <2>4, <3>1, <3>2 DEF Opened
  <2> QED BY <1>3, <1>4, <2>4, <2>5, <2>6 DEF Opened, new
<1> HIDE DEF Fits
<1>8. Fits(after) BY <1>5, <1>6, <1>7
<1> HIDE DEF after
<1>9. st \in [plans : Plans, keys : Keys] /\ st.plans = state.plans /\ st.keys[k] = after
      /\ \A l \in Scopes \ {k} : st.keys[l] = state.keys[l]
    BY <1>8, WithKeyProperties DEF Fits
<1>10. changes \in Changes /\ (after # key => k \in changes.keys)
    BY KeysChangedProperties, NoChangesIsChanges
<1> HIDE DEF st, changes
<1>11. \A l \in Scopes :
          \/ st.keys[l] = state.keys[l]
          \/ /\ l \in changes.keys
             /\ st.keys[l].plan = state.keys[l].plan
             /\ ValidCycles(st.keys[l], state.plans)
             /\ st.keys[l].status = "unknown" => state.keys[l].status = "unknown"
             /\ \A w \in WindowIds : Running(st.keys[l], w) =>
                  st.keys[l].cycles[w].since >= forgiven[path][l]
    BY <1>8, <1>9, <1>10 DEF Fits
<1> QED BY <1>1, <1>2, <1>9, <1>10, <1>11, TrafficInv

LEMMA RecordUsageInv ==
    ASSUME StoreInv, NEW k \in Scopes, NEW m \in Models, NEW at \in Nat \cup {NoTime},
           NEW failed \in BOOLEAN, NEW ok \in BOOLEAN, RecordUsage(k, m, at, failed, ok)
    PROVE  StoreInv'
<1> DEFINE old == state.keys[k]
           key == Ensured(old)
           delta == IF failed THEN 0 ELSE 1
           charged == Charged(key, state.plans[key.plan], m, at, delta)
           after == IF key.plan = NoPlan THEN key ELSE Settled(charged, now)
           event == [id |-> recorded + 1, scope |-> k, model |-> m, at |-> at,
                     failed |-> failed]
           changes == [KeysChanged({k}) EXCEPT !.events = <<event>>]
           st == WithKey(state, k, after)
<1>1. /\ Update(st, changes, ok)
      /\ recorded' = recorded + 1
      /\ dropped' = [dropped EXCEPT ![path] =
            @ \cup (ToSet(dirty.events) \ ToSet(Merged(dirty, changes).events))]
      /\ UNCHANGED <<now, forgiven>>
    BY DEF RecordUsage
<1>2. old \in Key /\ now \in Nat /\ recorded \in Nat /\ recorded' \in Nat
    BY <1>1 DEF StoreInv, TypeOK
<1>3. dropped' \in [Paths -> SUBSET Event]
  <2>1. dirty.events \in Seq(Event) /\ dropped \in [Paths -> SUBSET Event]
      BY DEF StoreInv, TypeOK
  <2>2. \A i \in DOMAIN dirty.events : dirty.events[i] \in Event
      BY <2>1, LenProperties, ElementOfSeq
  <2>3. ToSet(dirty.events) \subseteq Event BY <2>2 DEF ToSet
  <2> QED BY <1>1, <2>1, <2>3
<1>4. key \in Key /\ key.plan = old.plan /\ key.cycles = old.cycles
      /\ key.status # "unknown" /\ Lighter(key, old)
    BY <1>2 DEF Ensured, Key, Lighter, Running
<1> HIDE DEF key, old
<1>5. after \in Key /\ Lighter(after, key) /\ after.status # "unknown"
  <2>1. CASE key.plan = NoPlan BY <1>4, <2>1 DEF Lighter
  <2>2. CASE key.plan # NoPlan
    <3>1. delta \in {0, 1} OBVIOUS
    <3>2. charged \in Key /\ charged.status = key.status /\ Lighter(charged, key)
        BY <1>4, <3>1, ChargedProperties
    <3> HIDE DEF charged
    <3>3. /\ Settled(charged, now) \in Key /\ Settled(charged, now).status = charged.status
          /\ Lighter(Settled(charged, now), charged)
        BY <1>2, <3>2, SettledProperties
    <3>4. after = Settled(charged, now) BY <2>2
    <3> QED BY <1>4, <3>2, <3>3, <3>4 DEF Lighter
  <2> QED BY <2>1, <2>2
<1> HIDE DEF after
<1>6. /\ after.plan = state.keys[k].plan
      /\ ValidCycles(after, state.plans)
      /\ \A w \in WindowIds : Running(after, w) => after.cycles[w].since >= forgiven[path][k]
    BY <1>4, <1>5, LighterFits DEF old
<1>7. st \in [plans : Plans, keys : Keys] /\ st.plans = state.plans /\ st.keys[k] = after
      /\ \A l \in Scopes \ {k} : st.keys[l] = state.keys[l]
    BY <1>5, WithKeyProperties
<1>8. changes \in Changes /\ k \in changes.keys
  <2>1. event \in Event BY <1>2 DEF Event
  <2> HIDE DEF event
  <2>2. <<event>> \in Seq(Event) BY <2>1
  <2> DEFINE x == KeysChanged({k})
             events == <<event>>
  <2>3. x \in Changes /\ x.keys = {k} BY KeysChangedProperties
  <2>4. events \in Seq(Event) BY <2>2
  <2> HIDE DEF x, events
  <2>5. [x EXCEPT !.events = events] \in Changes /\ [x EXCEPT !.events = events].keys = {k}
      BY <2>3, <2>4 DEF Changes
  <2> QED BY <2>5 DEF x, events
<1> HIDE DEF st, changes
<1>9. \A l \in Scopes :
         \/ st.keys[l] = state.keys[l]
         \/ /\ l \in changes.keys
            /\ st.keys[l].plan = state.keys[l].plan
            /\ ValidCycles(st.keys[l], state.plans)
            /\ st.keys[l].status = "unknown" => state.keys[l].status = "unknown"
            /\ \A w \in WindowIds : Running(st.keys[l], w) =>
                 st.keys[l].cycles[w].since >= forgiven[path][l]
    BY <1>5, <1>6, <1>7, <1>8
<1> QED BY <1>1, <1>2, <1>3, <1>7, <1>8, <1>9, TrafficInv

LEMMA SettleViewsInv ==
    ASSUME StoreInv, NEW S \in SUBSET Scopes, NEW ok \in BOOLEAN, SettleViews(S, ok)
    PROVE  StoreInv'
<1> DEFINE after == [k \in Scopes |-> IF k \in S THEN Settled(state.keys[k], now)
                                      ELSE state.keys[k]]
           changed == {k \in S : after[k] # state.keys[k]}
           st == [state EXCEPT !.keys = after]
           changes == KeysChanged(changed)
<1>1. Update(st, changes, ok) /\ UNCHANGED <<now, recorded, dropped, forgiven>>
    BY DEF SettleViews, historyVars
<1>2. /\ state \in [plans : Plans, keys : Keys] /\ now \in Nat
      /\ recorded' \in Nat /\ dropped' \in [Paths -> SUBSET Event]
    BY <1>1 DEF StoreInv, TypeOK, Plans, Keys
<1>3. ASSUME NEW k \in Scopes
      PROVE  /\ after[k] \in Key
             /\ after[k].plan = state.keys[k].plan
             /\ after[k].status = state.keys[k].status
             /\ ValidCycles(after[k], state.plans)
             /\ \A w \in WindowIds : Running(after[k], w) =>
                  after[k].cycles[w].since >= forgiven[path][k]
  <2>1. state.keys[k] \in Key BY <1>2 DEF Keys
  <2>2. CASE k \in S
    <3>1. after[k] = Settled(state.keys[k], now) BY <2>2
    <3>2. /\ after[k] \in Key /\ after[k].status = state.keys[k].status
          /\ Lighter(after[k], state.keys[k])
        BY <1>2, <2>1, <3>1, SettledProperties
    <3> HIDE DEF after
    <3> QED BY <2>1, <3>2, LighterFits
  <2>3. CASE k \notin S BY <2>1, <2>3 DEF StoreInv, Sound, PaysSince
  <2> QED BY <2>2, <2>3
<1>4. after \in Keys BY <1>3 DEF Keys
<1>5. changes \in Changes /\ changes.keys = changed BY KeysChangedProperties
<1>6. \A k \in Scopes : after[k] = state.keys[k] \/ k \in changed OBVIOUS
<1> HIDE DEF after, changed, changes
<1>7. st \in [plans : Plans, keys : Keys] /\ st.plans = state.plans /\ st.keys = after
    BY <1>2, <1>4
<1> HIDE DEF st
<1>8. \A k \in Scopes :
         \/ st.keys[k] = state.keys[k]
         \/ /\ k \in changes.keys
            /\ st.keys[k].plan = state.keys[k].plan
            /\ ValidCycles(st.keys[k], state.plans)
            /\ st.keys[k].status = "unknown" => state.keys[k].status = "unknown"
            /\ \A w \in WindowIds : Running(st.keys[k], w) =>
                 st.keys[k].cycles[w].since >= forgiven[path][k]
    BY <1>3, <1>5, <1>6, <1>7
<1> QED BY <1>1, <1>2, <1>5, <1>7, <1>8, TrafficInv

-----------------------------------------------------------------------------
(* The operations: management *)

\* The keys of S lose their cycles, no other key gains one.
Forgives(st, S) ==
    \A k \in Scopes, w \in WindowIds : Running(st.keys[k], w) =>
        /\ k \notin S
        /\ Running(state.keys[k], w)
        /\ st.keys[k].cycles[w].since = state.keys[k].cycles[w].since

LEMMA ManageInv ==
    ASSUME StoreInv, NEW st \in [plans : Plans, keys : Keys], NEW changes \in Changes,
           NEW ok \in BOOLEAN, NEW S \in SUBSET Scopes,
           Edit(st, changes, ok), Forgive(S, ok), Names(st, changes),
           Sound(st.plans, st.keys), Forgives(st, S)
    PROVE  StoreInv'
<1> DEFINE f == [k \in Scopes |-> IF k \in S THEN now ELSE forgiven[path][k]]
<1>1. TypeOK BY DEF StoreInv
<1>2. f \in [Scopes -> Nat] /\ \A k \in Scopes : f[k] <= now
    BY <1>1 DEF StoreInv, TypeOK
<1>3. PaysSince(st.keys, f) BY DEF PaysSince, Forgives, StoreInv
<1>4. Frame(ok, f) BY <1>1 DEF Frame, Forgive, TypeOK
<1> QED BY <1>2, <1>3, <1>4, EditInv

LEMMA BoundProperties ==
    ASSUME NEW key \in Key, NEW p \in PlanIds \cup {NoPlan}, NEW plans,
           p # NoPlan => plans[p] # NoPlan
    PROVE  /\ Bound(key, p) \in Key
           /\ Bound(key, p).plan = p
           /\ Bound(key, p).status = key.status
           /\ \A w \in WindowIds : ~Running(Bound(key, p), w)
           /\ ValidCycles(Bound(key, p), plans)
BY DEF Bound, Key, NoCycles, Running, ValidCycles

\* An edit of one key.
LEMMA EditKeyInv ==
    ASSUME StoreInv, NEW k \in Scopes, NEW p \in PlanIds \cup {NoPlan}, NEW ok \in BOOLEAN,
           p # NoPlan => state.plans[p] # NoPlan,
           state.keys[k].status # "unknown",
           Edit(WithKey(state, k, Bound(state.keys[k], p)), KeysChanged({k}), ok),
           Forgive({k}, ok)
    PROVE  StoreInv'
<1> DEFINE new == Bound(state.keys[k], p)
           st == WithKey(state, k, new)
<1>1. state.keys[k] \in Key BY DEF StoreInv, TypeOK
<1>2. new \in Key /\ new.status # "unknown" /\ ValidCycles(new, state.plans)
      /\ \A w \in WindowIds : ~Running(new, w)
    BY <1>1, BoundProperties
<1> HIDE DEF new
<1>3. st \in [plans : Plans, keys : Keys] /\ st.plans = state.plans /\ st.keys[k] = new
      /\ \A l \in Scopes \ {k} : st.keys[l] = state.keys[l]
    BY <1>2, WithKeyProperties
<1>4. Edit(st, KeysChanged({k}), ok) BY DEF new
<1> HIDE DEF st
<1>5. Names(st, KeysChanged({k})) BY <1>3, KeysChangedProperties DEF Names
<1>6. Sound(st.plans, st.keys) BY <1>2, <1>3 DEF Sound, StoreInv
<1>7. Forgives(st, {k}) BY <1>2, <1>3 DEF Forgives
<1> QED BY <1>3, <1>4, <1>5, <1>6, <1>7, KeysChangedProperties, ManageInv

\* An edit of nothing saves what is pending.
LEMMA EditNothingInv ==
    ASSUME StoreInv, NEW ok \in BOOLEAN, Edit(state, NoChanges, ok), Forgive({}, ok)
    PROVE  StoreInv'
<1>1. state \in [plans : Plans, keys : Keys] BY DEF StoreInv, TypeOK, Plans, Keys
<1>2. Names(state, NoChanges) BY DEF Names
<1>3. Sound(state.plans, state.keys) BY DEF StoreInv
<1>4. Forgives(state, {}) BY DEF Forgives
<1> QED BY <1>1, <1>2, <1>3, <1>4, NoChangesIsChanges, ManageInv

LEMMA BindKeyInv ==
    ASSUME StoreInv, NEW k \in Scopes, NEW p \in PlanIds, NEW ok \in BOOLEAN, BindKey(k, p, ok)
    PROVE  StoreInv'
<1>1. CASE state.keys[k].plan = p BY <1>1, EditNothingInv DEF BindKey
<1>2. CASE state.keys[k].plan # p
  <2>1. state.keys[k].status # "unknown" BY DEF BindKey, Live
  <2> QED BY <1>2, <2>1, EditKeyInv DEF BindKey
<1> QED BY <1>1, <1>2

LEMMA UnbindKeyInv ==
    ASSUME StoreInv, NEW k \in Scopes, NEW ok \in BOOLEAN, UnbindKey(k, ok)
    PROVE  StoreInv'
<1>1. CASE k \in Live(state) /\ state.keys[k].plan # NoPlan
  <2>1. state.keys[k].status # "unknown" BY <1>1 DEF Live
  <2> QED BY <1>1, <2>1, EditKeyInv DEF UnbindKey, Unbound
<1>2. CASE ~(k \in Live(state) /\ state.keys[k].plan # NoPlan)
  BY <1>2, EditNothingInv DEF UnbindKey
<1> QED BY <1>1, <1>2

LEMMA ResetQuotaInv ==
    ASSUME StoreInv, NEW S \in SUBSET Scopes, NEW ok \in BOOLEAN, ResetQuota(S, ok)
    PROVE  StoreInv'
<1> DEFINE reset(k) == [state.keys[k] EXCEPT !.cycles = NoCycles]
           keys == [k \in Scopes |-> IF k \in S THEN reset(k) ELSE state.keys[k]]
           st == [state EXCEPT !.keys = keys]
           C == {k \in S : state.keys[k].cycles # NoCycles}
           changes == KeysChanged(C)
<1>1. state \in [plans : Plans, keys : Keys] BY DEF StoreInv, TypeOK, Plans, Keys
<1>2. /\ Forgive(S, ok)
      /\ Edit([state EXCEPT !.keys = [k \in Scopes |-> IF k \in S
                 THEN [state.keys[k] EXCEPT !.cycles = NoCycles] ELSE state.keys[k]]], changes, ok)
    BY <1>1 DEF ResetQuota
<1>3. Edit(st, changes, ok) BY <1>2
<1>4. ASSUME NEW k \in S
      PROVE  /\ reset(k) \in Key
             /\ reset(k).plan = state.keys[k].plan
             /\ reset(k).status = state.keys[k].status
             /\ \A w \in WindowIds : ~Running(reset(k), w)
             /\ k \notin C => reset(k) = state.keys[k]
             /\ ValidCycles(reset(k), state.plans)
  <2>1. state.keys[k] \in Key /\ ValidCycles(state.keys[k], state.plans)
      BY <1>1 DEF Keys, StoreInv, Sound
  <2>2. /\ reset(k) \in Key
        /\ reset(k).plan = state.keys[k].plan
        /\ reset(k).status = state.keys[k].status
        /\ \A w \in WindowIds : ~Running(reset(k), w)
      BY <2>1 DEF Key, NoCycles, Running
  <2>3. k \notin C => reset(k) = state.keys[k] BY <2>1 DEF Key
  <2>4. ValidCycles(reset(k), state.plans) BY <2>1, <2>2 DEF ValidCycles
  <2> QED BY <2>2, <2>3, <2>4
<1> HIDE DEF reset
<1>5. /\ keys \in Keys
      /\ \A k \in S : keys[k] = reset(k)
      /\ \A k \in Scopes \ S : keys[k] = state.keys[k]
  <2>1. \A k \in Scopes : state.keys[k] \in Key BY <1>1 DEF Keys
  <2> QED BY <1>4, <2>1 DEF Keys
<1> HIDE DEF keys
<1>6. st \in [plans : Plans, keys : Keys] /\ st.plans = state.plans /\ st.keys = keys
    BY <1>1, <1>5
<1>7. changes \in Changes /\ changes.keys = C BY KeysChangedProperties
<1> HIDE DEF st, changes, C
<1>8. Names(st, changes) BY <1>4, <1>5, <1>6, <1>7 DEF Names
<1>9. Sound(st.plans, st.keys) BY <1>4, <1>5, <1>6 DEF Sound, StoreInv
<1>10. Forgives(st, S) BY <1>4, <1>5, <1>6 DEF Forgives
<1> QED BY <1>2, <1>3, <1>6, <1>7, <1>8, <1>9, <1>10, ManageInv

LEMMA SyncKeysInv ==
    ASSUME StoreInv, NEW S \in SUBSET Scopes, NEW ok \in BOOLEAN, SyncKeys(S, ok)
    PROVE  StoreInv'
<1> DEFINE after == [k \in Scopes |->
              IF k \in S THEN [state.keys[k] EXCEPT !.status = "config"]
              ELSE IF state.keys[k].status = "config"
                   THEN [state.keys[k] EXCEPT !.status = "deleted"]
                   ELSE state.keys[k]]
           st == [state EXCEPT !.keys = after]
           changes == IF st = state THEN NoChanges ELSE KeysChanged(Known(st))
<1>1. state \in [plans : Plans, keys : Keys] /\ now \in Nat /\ path \in Paths
      /\ forgiven \in [Paths -> [Scopes -> Nat]]
    BY DEF StoreInv, TypeOK, Plans, Keys
<1>2. Edit(st, changes, ok) /\ UNCHANGED <<now, recorded, dropped, forgiven>>
    BY DEF SyncKeys, historyVars
<1>3. ASSUME NEW k \in Scopes
      PROVE  /\ after[k] \in Key
             /\ after[k].plan = state.keys[k].plan
             /\ after[k].cycles = state.keys[k].cycles
             /\ after[k].status = "unknown" => after[k] = state.keys[k]
  <2>1. state.keys[k] \in Key BY <1>1 DEF Keys
  <2> QED BY <2>1 DEF Key
<1>4. after \in Keys BY <1>3 DEF Keys
<1> HIDE DEF after
<1>5. st \in [plans : Plans, keys : Keys] /\ st.plans = state.plans /\ st.keys = after
    BY <1>1, <1>4
<1> HIDE DEF st
<1>6. Known(st) \in SUBSET Scopes BY DEF Known
<1>7. changes \in Changes BY <1>6, KeysChangedProperties, NoChangesIsChanges
<1>8. Names(st, changes)
  <2>1. CASE st = state BY <2>1 DEF Names
  <2>2. CASE st # state
    <3>1. changes.keys = Known(st) BY <1>6, <2>2, KeysChangedProperties
    <3>2. \A k \in Scopes : k \notin Known(st) => st.keys[k] = state.keys[k]
        BY <1>3, <1>5 DEF Known
    <3> QED BY <1>5, <3>1, <3>2 DEF Names
  <2> QED BY <2>1, <2>2
<1>9. Sound(st.plans, st.keys)
  <2> SUFFICES ASSUME NEW k \in Scopes
               PROVE  /\ ValidCycles(after[k], state.plans)
                      /\ after[k].status = "unknown" => after[k].plan = NoPlan
      BY <1>5 DEF Sound
  <2>1. /\ ValidCycles(state.keys[k], state.plans)
        /\ state.keys[k].status = "unknown" => state.keys[k].plan = NoPlan
      BY DEF StoreInv, Sound
  <2>2. ValidCycles(after[k], state.plans) BY <1>3, <2>1 DEF ValidCycles, Running
  <2> QED BY <1>3, <2>1, <2>2
<1>10. PaysSince(st.keys, forgiven[path]) BY <1>3, <1>5 DEF PaysSince, Running, StoreInv
<1>11. Frame(ok, forgiven[path]) BY <1>1, <1>2 DEF Frame, StoreInv, TypeOK
<1>12. forgiven[path] \in [Scopes -> Nat] /\ \A k \in Scopes : forgiven[path][k] <= now
    BY <1>1 DEF StoreInv
<1> HIDE DEF changes
<1> QED BY <1>2, <1>5, <1>7, <1>8, <1>9, <1>10, <1>11, <1>12, EditInv

LEMMA PreparedPlansProperties ==
    ASSUME TypeOK, NEW old \in Plan \cup {NoPlan}
    PROVE  PreparedPlans(old) \subseteq Plan
<1> DEFINE own(w) == old # NoPlan /\ IsWindow(old[w])
           made(d) == [w \in WindowIds |->
                          IF own(w) /\ IsWindow(d[w]) THEN PreparedWindow(d[w], old[w]) ELSE d[w]]
<1>1. CandidateWindows \subseteq Window \cup {NoWindow}
  <2>1. now \in Nat BY DEF TypeOK
  <2>2. ASSUME NEW o \in Offers, NEW a \in Anchors(o)
        PROVE  [period |-> o.period, anchor |-> a, limit |-> o.limit, scope |-> o.scope] \in Window
    <3>1. o \in [period : Nat \ {0}, limit : Nat \ {0}, scope : (SUBSET Models) \ {{}},
                 anchored : BOOLEAN]
        BY BillingAssumption
    <3>2. a \in Nat \cup {NoTime} BY <2>1, <3>1 DEF Anchors
    <3> QED BY <3>1, <3>2 DEF Window
  <2> QED BY <2>2 DEF CandidateWindows
<1>2. ASSUME NEW d \in [WindowIds -> CandidateWindows] PROVE made(d) \in Plan
  <2> SUFFICES ASSUME NEW w \in WindowIds,
                      own(w) /\ IsWindow(d[w])
               PROVE  PreparedWindow(d[w], old[w]) \in Window \cup {NoWindow}
      BY <1>1 DEF Plan
  <2>1. d[w] \in Window BY <1>1 DEF IsWindow
  <2>2. old[w] \in Window BY DEF Plan, IsWindow
  <2> QED BY <2>1, <2>2 DEF PreparedWindow, Window
<1>3. \A plan \in PreparedPlans(old) : \E d \in [WindowIds -> CandidateWindows] : plan = made(d)
    BY DEF PreparedPlans
<1> QED BY <1>2, <1>3

\* A plan that no key is bound to can be set to anything.
LEMMA OtherPlan ==
    ASSUME StoreInv, NEW p \in PlanIds, NEW plan \in Plan \cup {NoPlan}, NEW key \in Key,
           ValidCycles(key, state.plans), key.plan # p
    PROVE  ValidCycles(key, [state.plans EXCEPT ![p] = plan])
<1>1. state.plans \in Plans BY DEF StoreInv, TypeOK, Plans
<1>2. key.plan # NoPlan => [state.plans EXCEPT ![p] = plan][key.plan] = state.plans[key.plan]
    BY <1>1 DEF Key, Plans
<1> QED BY <1>2 DEF ValidCycles

\* An edit of plan p, given what becomes of each key.
LEMMA EditPlanInv ==
    ASSUME StoreInv, NEW p \in PlanIds, NEW plan \in Plan \cup {NoPlan},
           NEW S \in SUBSET Scopes, NEW C \in SUBSET Scopes, NEW ok \in BOOLEAN,
           NEW keys \in Keys,
           Edit([plans |-> [state.plans EXCEPT ![p] = plan], keys |-> keys], PlansChanged(C), ok),
           Forgive(S, ok),
           \A k \in Scopes :
              /\ keys[k] # state.keys[k] => k \in C
              /\ keys[k].status = state.keys[k].status
              /\ keys[k].status = "unknown" => keys[k].plan = NoPlan
              /\ ValidCycles(keys[k], [state.plans EXCEPT ![p] = plan])
              /\ \A w \in WindowIds : Running(keys[k], w) =>
                    /\ k \notin S
                    /\ Running(state.keys[k], w)
                    /\ keys[k].cycles[w].since = state.keys[k].cycles[w].since
    PROVE  StoreInv'
<1> DEFINE plans == [state.plans EXCEPT ![p] = plan]
           st == [plans |-> plans, keys |-> keys]
<1>1. state.plans \in Plans BY DEF StoreInv, TypeOK, Plans
<1>2. plans \in Plans BY <1>1 DEF Plans
<1> HIDE DEF plans
<1>3. st \in [plans : Plans, keys : Keys] /\ st.plans = plans /\ st.keys = keys BY <1>2
<1>4. PlansChanged(C) \in Changes /\ PlansChanged(C).keys = C /\ PlansChanged(C).plans
    BY KeysChangedProperties
<1>5. Edit(st, PlansChanged(C), ok) BY DEF plans
<1> HIDE DEF st
<1>6. Names(st, PlansChanged(C)) BY <1>3, <1>4 DEF Names
<1>7. Sound(st.plans, st.keys) BY <1>3 DEF Sound, plans
<1>8. Forgives(st, S) BY <1>3 DEF Forgives
<1> QED BY <1>3, <1>4, <1>5, <1>6, <1>7, <1>8, ManageInv

LEMMA CreatePlanInv ==
    ASSUME StoreInv, NEW p \in PlanIds, NEW plan, NEW S \in SUBSET Scopes, NEW ok \in BOOLEAN,
           CreatePlan(p, plan, S, ok)
    PROVE  StoreInv'
<1> DEFINE plans == [state.plans EXCEPT ![p] = plan]
           keys == [k \in Scopes |-> IF k \in S THEN Bound(state.keys[k], p) ELSE state.keys[k]]
<1>1. /\ plan \in Plan /\ plan # NoPlan
      /\ state.plans[p] = NoPlan
      /\ S \subseteq Live(state)
      /\ Edit([plans |-> plans, keys |-> keys], PlansChanged(S), ok)
      /\ Forgive(S, ok)
    BY PreparedPlansProperties, BillingAssumption DEF CreatePlan, StoreInv
<1>2. state.plans \in Plans /\ state.keys \in Keys BY DEF StoreInv, TypeOK, Plans, Keys
<1>3. plans[p] # NoPlan BY <1>1, <1>2 DEF Plans
<1>4. ASSUME NEW k \in Scopes
      PROVE  /\ keys[k] \in Key
             /\ keys[k] # state.keys[k] => k \in S
             /\ keys[k].status = state.keys[k].status
             /\ keys[k].status = "unknown" => keys[k].plan = NoPlan
             /\ ValidCycles(keys[k], plans)
             /\ \A w \in WindowIds : Running(keys[k], w) =>
                   /\ k \notin S
                   /\ Running(state.keys[k], w)
                   /\ keys[k].cycles[w].since = state.keys[k].cycles[w].since
  <2>1. /\ state.keys[k] \in Key
        /\ ValidCycles(state.keys[k], state.plans)
        /\ state.keys[k].status = "unknown" => state.keys[k].plan = NoPlan
      BY <1>2 DEF Keys, StoreInv, Sound
  <2>2. CASE k \in S
    <3>1. keys[k] = Bound(state.keys[k], p) BY <2>2
    <3>2. state.keys[k].status # "unknown" BY <1>1, <2>2 DEF Live
    <3> HIDE DEF keys, plans
    <3> QED BY <1>3, <2>1, <2>2, <3>1, <3>2, BoundProperties
  <2>3. CASE k \notin S
    <3>1. state.keys[k].plan # p BY <1>1, <2>1, BillingAssumption DEF ValidCycles
    <3>2. ValidCycles(state.keys[k], plans) BY <1>1, <2>1, <3>1, OtherPlan
    <3> QED BY <2>1, <2>3, <3>2
  <2> QED BY <2>2, <2>3
<1>5. keys \in Keys BY <1>4 DEF Keys
<1> HIDE DEF keys
<1> QED BY <1>1, <1>4, <1>5, EditPlanInv

LEMMA DeletePlanInv ==
    ASSUME StoreInv, NEW p \in PlanIds, NEW ok \in BOOLEAN, DeletePlan(p, ok)
    PROVE  StoreInv'
<1> DEFINE S == BoundTo(state, p)
           plans == [state.plans EXCEPT ![p] = NoPlan]
           keys == [k \in Scopes |-> IF k \in S THEN Unbound(state.keys[k]) ELSE state.keys[k]]
<1>1. /\ Edit([plans |-> plans, keys |-> keys], PlansChanged(Known(state)), ok)
      /\ Forgive(S, ok)
    BY DEF DeletePlan
<1>2. state.plans \in Plans /\ state.keys \in Keys BY DEF StoreInv, TypeOK, Plans, Keys
<1>3. ASSUME NEW k \in Scopes
      PROVE  /\ keys[k] \in Key
             /\ keys[k] # state.keys[k] => k \in Known(state)
             /\ keys[k].status = state.keys[k].status
             /\ keys[k].status = "unknown" => keys[k].plan = NoPlan
             /\ ValidCycles(keys[k], plans)
             /\ \A w \in WindowIds : Running(keys[k], w) =>
                   /\ k \notin S
                   /\ Running(state.keys[k], w)
                   /\ keys[k].cycles[w].since = state.keys[k].cycles[w].since
  <2>1. /\ state.keys[k] \in Key
        /\ ValidCycles(state.keys[k], state.plans)
        /\ state.keys[k].status = "unknown" => state.keys[k].plan = NoPlan
      BY <1>2 DEF Keys, StoreInv, Sound
  <2>2. CASE k \in S
    <3>1. keys[k] = Bound(state.keys[k], NoPlan) BY <2>2 DEF Unbound
    <3>2. k \in Known(state) BY <2>2 DEF BoundTo
    <3> HIDE DEF keys, plans
    <3> QED BY <2>1, <2>2, <3>1, <3>2, BoundProperties
  <2>3. CASE k \notin S
    <3>1. state.keys[k].plan # p BY <2>1, <2>3, BillingAssumption DEF BoundTo, Known
    <3>2. ValidCycles(state.keys[k], plans) BY <2>1, <3>1, OtherPlan
    <3> QED BY <2>1, <2>3, <3>2
  <2> QED BY <2>2, <2>3
<1>4. keys \in Keys BY <1>3 DEF Keys
<1>5. S \in SUBSET Scopes /\ Known(state) \in SUBSET Scopes BY DEF BoundTo, Known
<1> HIDE DEF keys, S
<1> QED BY <1>1, <1>3, <1>4, <1>5, EditPlanInv

LEMMA UpdatePlanInv ==
    ASSUME StoreInv, NEW p \in PlanIds, NEW plan, NEW S \in SUBSET Scopes, NEW ok \in BOOLEAN,
           UpdatePlan(p, plan, S, ok)
    PROVE  StoreInv'
<1> DEFINE old == state.plans[p]
           plans == [state.plans EXCEPT ![p] = plan]
           keys == [k \in Scopes |-> Rebound(state.keys[k], k, p, S, old, plan)]
           moved == {k \in Scopes : keys[k].plan # state.keys[k].plan}
<1>1. state.plans \in Plans /\ state.keys \in Keys BY DEF StoreInv, TypeOK, Plans, Keys
<1>2. /\ old # NoPlan
      /\ \A k \in S : \/ k \in Live(state) /\ state.keys[k].plan \in {NoPlan, p}
                      \/ k \in Known(state) /\ state.keys[k].plan = p
      /\ Edit([plans |-> plans, keys |-> keys], PlansChanged(Known(state)), ok)
      /\ Forgive(moved, ok)
    BY DEF UpdatePlan
<1>3. old \in Plan /\ plan \in Plan
  <2>1. old \in Plan BY <1>1, <1>2 DEF Plans
  <2>2. plan \in PreparedPlans(old) /\ TypeOK BY DEF UpdatePlan, StoreInv
  <2> QED BY <2>1, <2>2, PreparedPlansProperties
<1>4. plans[p] # NoPlan BY <1>1, <1>3, BillingAssumption DEF Plans
<1>5. ASSUME NEW k \in Scopes
      PROVE  /\ keys[k] \in Key
             /\ keys[k] # state.keys[k] => k \in Known(state)
             /\ keys[k].status = state.keys[k].status
             /\ keys[k].status = "unknown" => keys[k].plan = NoPlan
             /\ ValidCycles(keys[k], plans)
             /\ \A w \in WindowIds : Running(keys[k], w) =>
                   /\ k \notin moved
                   /\ Running(state.keys[k], w)
                   /\ keys[k].cycles[w].since = state.keys[k].cycles[w].since
  <2>1. /\ state.keys[k] \in Key
        /\ ValidCycles(state.keys[k], state.plans)
        /\ state.keys[k].status = "unknown" => state.keys[k].plan = NoPlan
      BY <1>1 DEF Keys, StoreInv, Sound
  <2>2. k \in moved => keys[k].plan # state.keys[k].plan OBVIOUS
  <2>3. state.keys[k].plan = p => k \in Known(state)
      BY <2>1, BillingAssumption DEF Known
  <2>4. k \in S => k \in Known(state) BY <1>2 DEF Live, Known
  <2> HIDE DEF moved
  <2>5. CASE state.keys[k].plan = p /\ k \in S
    <3>1. keys[k] = Rescheduled(state.keys[k], state.plans[state.keys[k].plan], plan)
        BY <2>5 DEF Rebound
    <3>2. state.plans[state.keys[k].plan] \in Plan /\ state.keys[k].plan \in PlanIds
        BY <1>3, <2>5
    <3>3. plans = [state.plans EXCEPT ![state.keys[k].plan] = plan] BY <2>5
    <3> HIDE DEF keys, plans
    <3>4. /\ keys[k] \in Key /\ keys[k].status = state.keys[k].status
          /\ Lighter(keys[k], state.keys[k]) /\ ValidCycles(keys[k], plans)
        BY <1>1, <1>3, <2>1, <3>1, <3>2, <3>3, RescheduledIsValid DEF Plans
    <3> QED BY <2>1, <2>2, <2>3, <2>5, <3>4 DEF Lighter
  <2>6. CASE state.keys[k].plan = p /\ k \notin S
    <3>1. keys[k] = Bound(state.keys[k], NoPlan) BY <2>6 DEF Rebound, Unbound
    <3> HIDE DEF keys, plans
    <3> QED BY <2>1, <2>3, <2>6, <3>1, BoundProperties
  <2>7. CASE state.keys[k].plan # p /\ k \in S
    <3>1. keys[k] = Bound(state.keys[k], p) BY <2>7 DEF Rebound
    <3>2. state.keys[k].status # "unknown" BY <2>4, <2>7 DEF Known
    <3> HIDE DEF keys, plans
    <3> QED BY <1>4, <2>1, <2>4, <2>7, <3>1, <3>2, BoundProperties
  <2>8. CASE state.keys[k].plan # p /\ k \notin S
    <3>1. keys[k] = state.keys[k] BY <2>8 DEF Rebound
    <3>2. ValidCycles(state.keys[k], plans) BY <1>3, <2>1, <2>8, OtherPlan
    <3> HIDE DEF keys, plans
    <3> QED BY <2>1, <2>2, <3>1, <3>2
  <2> QED BY <2>5, <2>6, <2>7, <2>8
<1>6. keys \in Keys BY <1>5 DEF Keys
<1>7. moved \in SUBSET Scopes /\ Known(state) \in SUBSET Scopes BY DEF Known
<1> HIDE DEF keys, moved
<1> QED BY <1>2, <1>3, <1>5, <1>6, <1>7, EditPlanInv

-----------------------------------------------------------------------------
(* The specification *)

LEMMA StoreInvInit == Init => StoreInv
<1> SUFFICES ASSUME Init PROVE StoreInv OBVIOUS
<1>1. EmptyState \in [plans : Plans, keys : Keys]
      /\ EmptyDatabase \in [plans : Plans, keys : Keys, log : Seq(Event)]
      /\ EmptyDatabase.plans = EmptyState.plans /\ EmptyDatabase.keys = EmptyState.keys
    BY EmptySeq DEF EmptyState, EmptyDatabase, NoKey, NoCycles, Plans, Keys, Key
<1>2. \A k \in Scopes : /\ EmptyState.keys[k].plan = NoPlan
                        /\ \A w \in WindowIds : ~Running(EmptyState.keys[k], w)
    BY DEF EmptyState, NoKey, NoCycles, Running
<1>3. TypeOK BY <1>1, NoChangesIsChanges, BillingAssumption
             DEF Init, TypeOK, Plans, Keys, Changes
<1>4. Sound(EmptyState.plans, EmptyState.keys) BY <1>2 DEF Sound, ValidCycles
<1>5. OnlyUsageAwaitsSaving BY <1>1 DEF Init, OnlyUsageAwaitsSaving
<1>6. \A f : PaysSince(EmptyState.keys, f) BY <1>2 DEF PaysSince
<1>7. \A p \in Paths, k \in Scopes : forgiven[p][k] <= now BY DEF Init
<1> HIDE DEF EmptyState
<1> QED BY <1>1, <1>3, <1>4, <1>5, <1>6, <1>7 DEF Init, StoreInv

LEMMA ConfigureInv ==
    ASSUME StoreInv, NEW p \in Paths, Configure(p)
    PROVE  StoreInv'
<1>1. TypeOK BY DEF StoreInv
<1>2. disk[p] \in [plans : Plans, keys : Keys, log : Seq(Event)]
    BY <1>1 DEF TypeOK, Plans, Keys
<1>3. /\ state' = [plans |-> disk[p].plans, keys |-> disk[p].keys]
      /\ dirty' = NoChanges /\ path' = p
      /\ UNCHANGED <<disk, now, recorded, forgiven>>
    BY DEF Configure
<1>4. dropped' \in [Paths -> SUBSET Event] BY <1>1 DEF Configure, TypeOK
<1>5. TypeOK' BY <1>1, <1>2, <1>3, <1>4, NoChangesIsChanges, BillingAssumption
              DEF TypeOK, Plans, Keys, Changes
<1>6. OnlyUsageAwaitsSaving' BY <1>3 DEF OnlyUsageAwaitsSaving
<1> QED BY <1>3, <1>5, <1>6 DEF StoreInv

LEMMA TickInv == ASSUME StoreInv, Tick PROVE StoreInv'
<1>1. UNCHANGED <<state, disk, path, dirty, recorded, dropped, forgiven>> /\ now' = now + 1
    BY DEF Tick, storeVars, historyVars
<1>2. TypeOK' BY <1>1 DEF StoreInv, TypeOK
<1>3. OnlyUsageAwaitsSaving' BY <1>1 DEF StoreInv, OnlyUsageAwaitsSaving
<1>4. \A p \in Paths, k \in Scopes : forgiven'[p][k] <= now' BY <1>1 DEF StoreInv, TypeOK
<1> QED BY <1>1, <1>2, <1>3, <1>4 DEF StoreInv

LEMMA StoreInvStep == StoreInv /\ [Next]_vars => StoreInv'
<1> SUFFICES ASSUME StoreInv, [Next]_vars PROVE StoreInv' OBVIOUS
<1>1. ASSUME NEW ok \in SaveAnswers, Traffic(ok) PROVE StoreInv'
  <2>1. ok \in BOOLEAN BY BillingAssumption
  <2>2. CASE \E k \in Scopes, m \in Models \cup {AutoModel} : AuthorizeModel(k, m, ok)
      BY <2>1, <2>2, AuthorizeModelInv
  <2>3. CASE \E k \in Scopes, m \in Models, at \in 0..now \cup {NoTime}, failed \in BOOLEAN :
                RecordUsage(k, m, at, failed, ok)
    <3>1. 0..now \cup {NoTime} \subseteq Nat \cup {NoTime} BY DEF StoreInv, TypeOK
    <3> QED BY <2>1, <2>3, <3>1, RecordUsageInv
  <2>4. CASE \E S \in SUBSET Scopes : SettleViews(S, ok) BY <2>1, <2>4, SettleViewsInv
  <2> QED BY <1>1, <2>2, <2>3, <2>4 DEF Traffic
<1>2. ASSUME NEW ok \in SaveAnswers, Manage(ok) PROVE StoreInv'
  <2>1. ok \in BOOLEAN BY BillingAssumption
  <2>2. CASE \E k \in Scopes : UnbindKey(k, ok) \/ \E p \in PlanIds : BindKey(k, p, ok)
      BY <2>1, <2>2, UnbindKeyInv, BindKeyInv
  <2>3. CASE \E S \in SUBSET Scopes : ResetQuota(S, ok) \/ SyncKeys(S, ok)
      BY <2>1, <2>3, ResetQuotaInv, SyncKeysInv
  <2>4. CASE \E p \in PlanIds, S \in SUBSET Scopes :
                \/ \E plan \in PreparedPlans(NoPlan) : CreatePlan(p, plan, S, ok)
                \/ \E plan \in PreparedPlans(state.plans[p]) : UpdatePlan(p, plan, S, ok)
      BY <2>1, <2>4, CreatePlanInv, UpdatePlanInv
  <2>5. CASE \E p \in PlanIds : DeletePlan(p, ok) BY <2>1, <2>5, DeletePlanInv
  <2> QED BY <1>2, <2>2, <2>3, <2>4, <2>5 DEF Manage
<1>3. CASE \E p \in Paths : Configure(p) BY <1>3, ConfigureInv
<1>4. CASE Tick BY <1>4, TickInv
<1>5. CASE UNCHANGED vars
  <2>1. UNCHANGED <<state, disk, path, dirty, now, recorded, dropped, forgiven>>
      BY <1>5 DEF vars, storeVars, historyVars
  <2>2. TypeOK' BY <2>1 DEF StoreInv, TypeOK
  <2>3. OnlyUsageAwaitsSaving' BY <2>1 DEF StoreInv, OnlyUsageAwaitsSaving
  <2> QED BY <2>1, <2>2, <2>3 DEF StoreInv
<1> QED BY <1>1, <1>2, <1>3, <1>4, <1>5 DEF Next

LEMMA StoreInvHolds == Spec => []StoreInv
BY StoreInvInit, StoreInvStep, PTL DEF Spec

\* The working set, the databases and the pending changes are well formed and the
\* queue of pending records never exceeds its bound (state.go, repository.go:89).
THEOREM StoreTypeCorrect == Spec => []TypeOK
<1>1. StoreInv => TypeOK BY DEF StoreInv
<1> QED BY <1>1, StoreInvHolds, PTL

\* Plans and bindings in effect have been saved, and whatever else differs from the
\* database is registered for the next write (updateResult, editConfiguration).
THEOREM InEffectIsSaved == Spec => []OnlyUsageAwaitsSaving
<1>1. StoreInv => OnlyUsageAwaitsSaving BY DEF StoreInv
<1> QED BY <1>1, StoreInvHolds, PTL

\* Every database can be loaded at any time, whatever saves have failed: the cycles of
\* every key fit the windows of its plan (ValidateCycles, loadKeys).
THEOREM AlwaysLoadable == Spec => []DatabaseLoads
<1>1. StoreInv => DatabaseLoads BY DEF StoreInv, DatabaseLoads, Loadable, Sound, Known
<1> QED BY <1>1, StoreInvHolds, PTL

\* No key ever pays for a request made before it was last bound or reset, not even
\* after a restart (BindKey, ResetQuota, newCycle).
THEOREM NeverPaysTwice == Spec => []ForgivenStaysForgiven
<1>1. StoreInv => ForgivenStaysForgiven BY DEF StoreInv, PaysSince, ForgivenStaysForgiven
<1> QED BY <1>1, StoreInvHolds, PTL
-----------------------------------------------------------------------------
(* The usage records: every one is numbered when it arrives, and whatever saves fail,
   the log of a database followed by the queue of pending records stays in that order. *)

\* withBoundedRequestRecords: the latest of a sequence of records.
Latest(s) ==
    LET excess == IF Len(s) > MaxPending THEN Len(s) - MaxPending ELSE 0
    IN  SubSeq(s, excess + 1, Len(s))

LEMMA LatestProperties ==
    ASSUME NEW s \in Seq(Event)
    PROVE  /\ Latest(s) \in Seq(Event)
           /\ Len(Latest(s)) \in 0..Len(s)
           /\ Len(Latest(s)) < Len(s) => Len(Latest(s)) = MaxPending
           /\ Len(s) <= MaxPending => Latest(s) = s
           /\ \A i \in 1..Len(Latest(s)) : Latest(s)[i] = s[i + (Len(s) - Len(Latest(s)))]
<1> DEFINE excess == IF Len(s) > MaxPending THEN Len(s) - MaxPending ELSE 0
           kept == SubSeq(s, excess + 1, Len(s))
<1>1. Latest(s) = kept BY DEF Latest
<1>2. Len(s) \in Nat /\ \A i \in 1..Len(s) : s[i] \in Event BY LenProperties, ElementOfSeq
<1>3. /\ excess \in 0..Len(s)
      /\ excess > 0 => Len(s) - excess = MaxPending
      /\ Len(s) <= MaxPending => excess = 0
    BY <1>2, BillingAssumption
<1> HIDE DEF excess
<1>4. /\ kept \in Seq(Event)
      /\ Len(kept) = Len(s) - excess
      /\ \A i \in 1..(Len(s) - excess) : kept[i] = s[i + excess]
  <2>1. \A i \in (excess + 1)..Len(s) : s[i] \in Event BY <1>2, <1>3
  <2>2. /\ kept \in Seq(Event)
        /\ Len(kept) = IF excess + 1 <= Len(s) THEN Len(s) - (excess + 1) + 1 ELSE 0
        /\ \A i \in 1..(Len(s) - (excess + 1) + 1) : kept[i] = s[excess + 1 + i - 1]
      BY <1>2, <1>3, <2>1, SubSeqProperties
  <2> HIDE DEF kept
  <2>3. Len(s) - (excess + 1) + 1 = Len(s) - excess BY <1>2, <1>3
  <2>4. Len(kept) = Len(s) - excess
    <3>1. CASE excess + 1 <= Len(s) BY <2>2, <2>3, <3>1
    <3>2. CASE ~(excess + 1 <= Len(s)) BY <1>2, <1>3, <2>2, <3>2
    <3> QED BY <3>1, <3>2
  <2>5. \A i \in 1..(Len(s) - excess) : kept[i] = s[i + excess]
    <3> SUFFICES ASSUME NEW i \in 1..(Len(s) - excess) PROVE kept[i] = s[i + excess] OBVIOUS
    <3>1. excess + 1 + i - 1 = i + excess BY <1>2, <1>3
    <3> QED BY <2>2, <2>3, <3>1
  <2> QED BY <2>2, <2>4, <2>5
<1>5. excess = 0 => kept = s BY <1>2, SubSeqFull
<1> HIDE DEF kept
<1>6. Len(s) - Len(kept) = excess BY <1>2, <1>3, <1>4
<1> QED BY <1>1, <1>2, <1>3, <1>4, <1>5, <1>6

LEMMA MergedEvents ==
    ASSUME NEW a, NEW b
    PROVE  Merged(a, b).events = Latest(a.events \o b.events)
BY DEF Merged, Latest

\* What a step does to the records, new being the record that arrives with it, if one
\* does: the queue grows by it, loses what is too much, and is written or kept.
RecordsMove(new) ==
    LET all == Latest(dirty.events \o new)
    IN  /\ path' = path
        /\ \/ new = <<>> /\ recorded' = recorded
           \/ \E e \in Event : new = <<e>> /\ e.id = recorded + 1 /\ recorded' = recorded + 1
        /\ dropped' = [dropped EXCEPT ![path] = @ \cup (ToSet(dirty.events) \ ToSet(all))]
        /\ \/ disk'[path].log = disk[path].log \o all /\ dirty' = NoChanges
           \/ disk'[path] = disk[path] /\ dirty'.events = all
        /\ \A p \in Paths \ {path} : disk'[p] = disk[p]

LEMMA NothingNew ==
    ASSUME StoreInv
    PROVE  /\ Latest(dirty.events \o <<>>) = dirty.events
           /\ [dropped EXCEPT ![path] = @ \cup (ToSet(dirty.events) \ ToSet(dirty.events))]
                = dropped
<1>1. /\ dirty.events \in Seq(Event) /\ Len(dirty.events) <= MaxPending
      /\ dropped \in [Paths -> SUBSET Event] /\ path \in Paths
    BY DEF StoreInv, TypeOK
<1>2. dirty.events \o <<>> = dirty.events BY <1>1, ConcatEmptySeq
<1>3. Latest(dirty.events) = dirty.events BY <1>1, LatestProperties
<1>4. [dropped EXCEPT ![path] = @ \cup {}] = dropped BY <1>1
<1> QED BY <1>2, <1>3, <1>4

LEMMA WritesMoveRecords ==
    ASSUME StoreInv, NEW st, NEW changes \in Changes, NEW ok \in BOOLEAN,
           \/ Update(st, changes, ok)
           \/ Edit(st, changes, ok) /\ changes.events = <<>>,
           \/ /\ changes.events = <<>> /\ recorded' = recorded /\ dropped' = dropped
           \/ /\ \E e \in Event :
                    changes.events = <<e>> /\ e.id = recorded + 1 /\ recorded' = recorded + 1
              /\ dropped' = [dropped EXCEPT ![path] =
                    @ \cup (ToSet(dirty.events) \ ToSet(Merged(dirty, changes).events))]
    PROVE  RecordsMove(changes.events)
<1> DEFINE new == changes.events
           merged == Merged(dirty, changes)
           all == Latest(dirty.events \o new)
           moved == [dropped EXCEPT ![path] = @ \cup (ToSet(dirty.events) \ ToSet(all))]
<1>1. /\ dirty \in Changes /\ path \in Paths
      /\ disk \in [Paths -> [plans : Plans, keys : Keys, log : Seq(Event)]]
    BY DEF StoreInv, TypeOK, Changes, Plans, Keys
<1>2. merged \in Changes /\ merged.events = all BY <1>1, MergedProperties, MergedEvents
<1>3. new = <<>> => all = dirty.events /\ moved = dropped BY NothingNew
<1>4. \/ new = <<>> /\ recorded' = recorded
      \/ \E e \in Event : new = <<e>> /\ e.id = recorded + 1 /\ recorded' = recorded + 1
    OBVIOUS
<1>5. dropped' = moved BY <1>2, <1>3
<1>6. NoChanges.events = <<>> BY DEF NoChanges
<1>7. Saved(disk[path], st, merged).log = disk[path].log \o all BY <1>2 DEF Saved
<1>8. disk[path].log \o <<>> = disk[path].log BY <1>1, ConcatEmptySeq
<1>9. path' = path BY DEF Update, Edit
<1> HIDE DEF moved, new, all, merged
<1> DEFINE db == Saved(disk[path], st, merged)
<1>10. CASE Update(st, changes, ok)
  <2>1. /\ disk' = IF merged # NoChanges /\ ok THEN [disk EXCEPT ![path] = db] ELSE disk
        /\ dirty' = IF ok THEN NoChanges ELSE merged
      BY <1>10 DEF Update, merged
  <2> HIDE DEF db
  <2>2. CASE ok /\ merged # NoChanges
      BY <1>1, <1>4, <1>5, <1>6, <1>7, <1>9, <2>1, <2>2 DEF RecordsMove, moved, new, all, db
  <2>3. CASE ok /\ merged = NoChanges
    <3>1. all = <<>> BY <1>2, <1>6, <2>3
    <3> QED BY <1>1, <1>4, <1>5, <1>6, <1>8, <1>9, <2>1, <2>3, <3>1
            DEF RecordsMove, moved, new, all
  <2>4. CASE ~ok BY <1>1, <1>2, <1>4, <1>5, <1>9, <2>1, <2>4 DEF RecordsMove, moved, new, all
  <2> QED BY <2>2, <2>3, <2>4
<1>11. CASE Edit(st, changes, ok) /\ new = <<>>
  <2>1. /\ ok => /\ disk' = IF merged # NoChanges THEN [disk EXCEPT ![path] = db] ELSE disk
                 /\ dirty' = NoChanges
        /\ ~ok => disk' = disk /\ dirty' = dirty
      BY <1>11 DEF Edit, merged
  <2> HIDE DEF db
  <2>2. CASE ok /\ merged # NoChanges
      BY <1>1, <1>4, <1>5, <1>6, <1>7, <1>9, <2>1, <2>2 DEF RecordsMove, moved, new, all, db
  <2>3. CASE ok /\ merged = NoChanges
    <3>1. all = <<>> BY <1>2, <1>6, <2>3
    <3> QED BY <1>1, <1>4, <1>5, <1>6, <1>8, <1>9, <2>1, <2>3, <3>1
            DEF RecordsMove, moved, new, all
  <2>4. CASE ~ok
    <3>1. all = dirty.events BY <1>3, <1>11
    <3> QED BY <1>1, <1>4, <1>5, <1>9, <2>1, <2>4, <3>1 DEF RecordsMove, moved, new, all
  <2> QED BY <2>2, <2>3, <2>4
<1> QED BY <1>10, <1>11 DEF new

\* A usage record is the one record that comes with its step.
LEMMA RecordUsageMoves ==
    ASSUME StoreInv, NEW k \in Scopes, NEW m \in Models, NEW at \in Nat \cup {NoTime},
           NEW failed \in BOOLEAN, NEW ok \in BOOLEAN, RecordUsage(k, m, at, failed, ok),
           NEW event, event = [id |-> recorded + 1, scope |-> k, model |-> m, at |-> at,
                               failed |-> failed]
    PROVE  event \in Event /\ RecordsMove(<<event>>)
<1> DEFINE key == Ensured(state.keys[k])
           after == IF key.plan = NoPlan THEN key
                    ELSE Settled(Charged(key, state.plans[key.plan], m, at,
                                         IF failed THEN 0 ELSE 1), now)
           events == <<event>>
           changes == [KeysChanged({k}) EXCEPT !.events = events]
<1>1. /\ Update(WithKey(state, k, after), changes, ok)
      /\ recorded' = recorded + 1
      /\ dropped' = [dropped EXCEPT ![path] =
            @ \cup (ToSet(dirty.events) \ ToSet(Merged(dirty, changes).events))]
    BY DEF RecordUsage
<1> HIDE DEF after
<1>2. event \in Event /\ event.id = recorded + 1 BY DEF Event, StoreInv, TypeOK
<1>3. events \in Seq(Event) BY <1>2
<1>4. \E e \in Event : events = <<e>> /\ e.id = recorded + 1 BY <1>2
<1> HIDE DEF events
<1>5. changes \in Changes /\ changes.events = events
  <2> DEFINE x == KeysChanged({k})
  <2>1. {k} \in SUBSET Scopes OBVIOUS
  <2>2. x \in Changes BY <2>1, KeysChangedProperties
  <2> HIDE DEF x
  <2>3. [x EXCEPT !.events = events] \in Changes /\ [x EXCEPT !.events = events].events = events
      BY <1>3, <2>2 DEF Changes
  <2> QED BY <2>3 DEF x
<1> HIDE DEF changes
<1>6. RecordsMove(changes.events) BY <1>1, <1>4, <1>5, WritesMoveRecords
<1> QED BY <1>2, <1>5, <1>6 DEF events

\* Every operation moves the records this way; a usage record is the only one that
\* brings any.
LEMMA OperationsMoveRecords ==
    ASSUME StoreInv, NEW ok \in SaveAnswers, Traffic(ok) \/ Manage(ok)
    PROVE  \E new \in Seq(Event) : RecordsMove(new)
<1>1. ok \in BOOLEAN BY BillingAssumption
<1> DEFINE Silent(changes) == changes \in Changes /\ changes.events = <<>>
<1>2. /\ Silent(NoChanges)
      /\ \A S \in SUBSET Scopes : Silent(KeysChanged(S)) /\ Silent(PlansChanged(S))
    BY NoChangesIsChanges, KeysChangedProperties DEF NoChanges, KeysChanged, PlansChanged
<1>3. ASSUME NEW st, NEW changes, Silent(changes),
             Update(st, changes, ok) \/ Edit(st, changes, ok),
             recorded' = recorded, dropped' = dropped
      PROVE  \E new \in Seq(Event) : RecordsMove(new)
  <2>1. RecordsMove(changes.events) BY <1>1, <1>3, WritesMoveRecords
  <2> QED BY <1>3, <2>1 DEF Changes
<1>4. \A k \in Scopes : {k} \in SUBSET Scopes OBVIOUS
<1>5. Known(state) \in SUBSET Scopes BY DEF Known
<1> HIDE DEF Silent
<1>6. ASSUME NEW k \in Scopes, NEW m, AuthorizeModel(k, m, ok)
      PROVE  \E new \in Seq(Event) : RecordsMove(new)
  <2> DEFINE key == state.keys[k]
             plan == state.plans[key.plan]
             settled == Settled(key, now)
             after == IF \/ key.plan = NoPlan
                         \/ m = AutoModel /\ \E w \in WindowIds : IsWindow(plan[w]) /\ ~AllModels(plan[w])
                      THEN key
                      ELSE IF Blocked(settled, plan, m) THEN settled
                      ELSE Activated(settled, plan, m, now, recorded)
  <2>1. /\ Update(WithKey(state, k, after), IF after # key THEN KeysChanged({k}) ELSE NoChanges, ok)
        /\ recorded' = recorded /\ dropped' = dropped
      BY <1>6 DEF AuthorizeModel, historyVars
  <2> HIDE DEF after, key
  <2>2. Silent(IF after # key THEN KeysChanged({k}) ELSE NoChanges) BY <1>2, <1>4
  <2> QED BY <1>3, <2>1, <2>2
<1>7. ASSUME NEW k \in Scopes, NEW m \in Models, NEW at \in Nat \cup {NoTime},
             NEW failed \in BOOLEAN, RecordUsage(k, m, at, failed, ok)
      PROVE  \E new \in Seq(Event) : RecordsMove(new)
  <2> DEFINE event == [id |-> recorded + 1, scope |-> k, model |-> m, at |-> at,
                       failed |-> failed]
             events == <<event>>
  <2>1. event \in Event /\ RecordsMove(<<event>>) BY <1>1, <1>7, RecordUsageMoves
  <2> HIDE DEF event
  <2>2. events \in Seq(Event) /\ RecordsMove(events) BY <2>1
  <2> HIDE DEF events
  <2> QED BY <2>2
<1>8. ASSUME NEW S \in SUBSET Scopes, SettleViews(S, ok)
      PROVE  \E new \in Seq(Event) : RecordsMove(new)
  <2> DEFINE after == [k \in Scopes |-> IF k \in S THEN Settled(state.keys[k], now)
                                        ELSE state.keys[k]]
             changed == {k \in S : after[k] # state.keys[k]}
  <2>1. /\ Update([state EXCEPT !.keys = after], KeysChanged(changed), ok)
        /\ recorded' = recorded /\ dropped' = dropped
      BY <1>8 DEF SettleViews, historyVars
  <2>2. Silent(KeysChanged(changed)) BY <1>2
  <2> HIDE DEF after, changed
  <2> QED BY <1>3, <2>1, <2>2
<1>9. CASE Traffic(ok)
  <2>1. 0..now \cup {NoTime} \subseteq Nat \cup {NoTime} BY DEF StoreInv, TypeOK
  <2> QED BY <1>6, <1>7, <1>8, <1>9, <2>1 DEF Traffic
<1>10. ASSUME NEW k \in Scopes, UnbindKey(k, ok) \/ \E p \in PlanIds : BindKey(k, p, ok)
       PROVE  \E new \in Seq(Event) : RecordsMove(new)
  <2>1. ASSUME NEW st, NEW same \in BOOLEAN,
               Edit(st, IF same THEN NoChanges ELSE KeysChanged({k}), ok),
               recorded' = recorded, dropped' = dropped
        PROVE  \E new \in Seq(Event) : RecordsMove(new)
    <3>1. Silent(IF same THEN NoChanges ELSE KeysChanged({k})) BY <1>2, <1>4
    <3> QED BY <1>3, <2>1, <3>1
  <2>2. CASE UnbindKey(k, ok)
    <3> DEFINE bound == k \in Live(state) /\ state.keys[k].plan # NoPlan
    <3>1. /\ Edit(IF bound THEN WithKey(state, k, Unbound(state.keys[k])) ELSE state,
                  IF bound THEN KeysChanged({k}) ELSE NoChanges, ok)
          /\ recorded' = recorded /\ dropped' = dropped
        BY <2>2 DEF UnbindKey, Forgive
    <3> HIDE DEF bound
    <3>2. (IF bound THEN KeysChanged({k}) ELSE NoChanges)
            = IF ~bound THEN NoChanges ELSE KeysChanged({k})
        OBVIOUS
    <3>3. Edit(IF bound THEN WithKey(state, k, Unbound(state.keys[k])) ELSE state,
               IF ~bound THEN NoChanges ELSE KeysChanged({k}), ok)
        BY <3>1, <3>2
    <3>4. (~bound) \in BOOLEAN OBVIOUS
    <3> QED BY <2>1, <3>1, <3>3, <3>4
  <2>3. CASE \E p \in PlanIds : BindKey(k, p, ok)
    <3>1. PICK p \in PlanIds : BindKey(k, p, ok) BY <2>3
    <3> DEFINE same == state.keys[k].plan = p
    <3>2. /\ Edit(IF same THEN state ELSE WithKey(state, k, Bound(state.keys[k], p)),
                  IF same THEN NoChanges ELSE KeysChanged({k}), ok)
          /\ recorded' = recorded /\ dropped' = dropped
        BY <3>1 DEF BindKey, Forgive
    <3>3. same \in BOOLEAN OBVIOUS
    <3> HIDE DEF same
    <3> QED BY <2>1, <3>2, <3>3
  <2> QED BY <1>10, <2>2, <2>3
<1>11. ASSUME NEW S \in SUBSET Scopes, ResetQuota(S, ok) \/ SyncKeys(S, ok)
       PROVE  \E new \in Seq(Event) : RecordsMove(new)
  <2>1. CASE ResetQuota(S, ok)
    <3> DEFINE C == {k \in S : state.keys[k].cycles # NoCycles}
    <3>1. PICK st : Edit(st, KeysChanged(C), ok) /\ recorded' = recorded /\ dropped' = dropped
        BY <2>1 DEF ResetQuota, Forgive
    <3>2. Silent(KeysChanged(C)) BY <1>2
    <3> HIDE DEF C
    <3> QED BY <1>3, <3>1, <3>2
  <2>2. CASE SyncKeys(S, ok)
    <3>1. PICK next : /\ Edit(next, IF next = state THEN NoChanges ELSE KeysChanged(Known(next)), ok)
                      /\ recorded' = recorded /\ dropped' = dropped
        BY <2>2 DEF SyncKeys, historyVars
    <3>2. Known(next) \in SUBSET Scopes BY DEF Known
    <3>3. Silent(IF next = state THEN NoChanges ELSE KeysChanged(Known(next))) BY <1>2, <3>2
    <3> QED BY <1>3, <3>1, <3>3
  <2> QED BY <1>11, <2>1, <2>2
<1>12. ASSUME NEW p \in PlanIds, NEW S \in SUBSET Scopes, NEW plan,
              CreatePlan(p, plan, S, ok) \/ UpdatePlan(p, plan, S, ok) \/ DeletePlan(p, ok)
       PROVE  \E new \in Seq(Event) : RecordsMove(new)
  <2>1. ASSUME NEW st, NEW C \in SUBSET Scopes, Edit(st, PlansChanged(C), ok),
               recorded' = recorded, dropped' = dropped
        PROVE  \E new \in Seq(Event) : RecordsMove(new)
      BY <1>2, <1>3, <2>1
  <2>2. CASE CreatePlan(p, plan, S, ok)
      BY <1>5, <2>1, <2>2 DEF CreatePlan, Forgive
  <2>3. CASE UpdatePlan(p, plan, S, ok)
      BY <1>5, <2>1, <2>3 DEF UpdatePlan, Forgive
  <2>4. CASE DeletePlan(p, ok)
      BY <1>5, <2>1, <2>4 DEF DeletePlan, Forgive
  <2> QED BY <1>12, <2>2, <2>3, <2>4
<1>13. CASE Manage(ok)
  <2>1. {} \in SUBSET Scopes OBVIOUS
  <2> QED BY <1>10, <1>11, <1>12, <1>13, <2>1 DEF Manage
<1> QED BY <1>9, <1>13

\* A log and a queue behind it are numbered in order, up to top.
Numbered(log, queue, top) ==
    /\ \A i \in 1..Len(log) : log[i].id <= top
    /\ \A i \in 1..Len(queue) : queue[i].id <= top
    /\ \A i, j \in 1..Len(log) : i < j => log[i].id < log[j].id
    /\ \A i, j \in 1..Len(queue) : i < j => queue[i].id < queue[j].id
    /\ \A i \in 1..Len(log), j \in 1..Len(queue) : log[i].id < queue[j].id

LogsNumbered ==
    /\ \A p \in Paths : Numbered(disk[p].log, <<>>, recorded)
    /\ Numbered(disk[path].log, dirty.events, recorded)

\* A record that arrives is the next in the queue.
LEMMA NumberedArrives ==
    ASSUME NEW log \in Seq(Event), NEW queue \in Seq(Event), NEW top \in Nat,
           Numbered(log, queue, top), NEW e \in Event, e.id = top + 1
    PROVE  Numbered(log, queue \o <<e>>, top + 1)
<1> DEFINE all == queue \o <<e>>
<1>1. /\ all \in Seq(Event) /\ Len(all) = Len(queue) + 1
      /\ \A i \in 1..(Len(queue) + 1) : all[i] = IF i <= Len(queue) THEN queue[i] ELSE e
  <2>1. <<e>> \in Seq(Event) /\ Len(<<e>>) = 1 /\ <<e>>[1] = e OBVIOUS
  <2> DEFINE one == <<e>>
  <2>2. one \in Seq(Event) /\ Len(one) = 1 /\ one[1] = e BY <2>1
  <2> HIDE DEF one
  <2>3. /\ queue \o one \in Seq(Event) /\ Len(queue \o one) = Len(queue) + Len(one)
        /\ \A i \in 1..(Len(queue) + Len(one)) : (queue \o one)[i] =
              IF i <= Len(queue) THEN queue[i] ELSE one[i - Len(queue)]
      BY <2>2, ConcatProperties
  <2>4. Len(queue) \in Nat BY LenProperties
  <2>5. \A i \in 1..(Len(queue) + 1) : i <= Len(queue) \/ i - Len(queue) = 1 BY <2>4
  <2> QED BY <2>2, <2>3, <2>5 DEF one
<1> HIDE DEF all
<1>2. /\ Len(queue) \in Nat /\ Len(log) \in Nat
      /\ \A i \in 1..Len(queue) : queue[i].id \in Nat
      /\ \A i \in 1..Len(log) : log[i].id \in Nat
  <2>1. /\ \A i \in 1..Len(queue) : queue[i] \in Event
        /\ \A i \in 1..Len(log) : log[i] \in Event
      BY ElementOfSeq
  <2>2. \A x \in Event : x.id \in Nat BY DEF Event
  <2> QED BY <2>1, <2>2, LenProperties
<1>3. \A i \in 1..Len(all) : \/ i \in 1..Len(queue) /\ all[i] = queue[i]
                             \/ i = Len(queue) + 1 /\ all[i] = e
    BY <1>1, <1>2
<1>4. \A i \in 1..Len(all) : all[i].id <= top + 1 BY <1>2, <1>3 DEF Numbered
<1>5. \A i, j \in 1..Len(all) : i < j => all[i].id < all[j].id
  <2> SUFFICES ASSUME NEW i \in 1..Len(all), NEW j \in 1..Len(all), i < j
               PROVE  all[i].id < all[j].id
      OBVIOUS
  <2>1. i \in 1..Len(queue) /\ all[i] = queue[i] BY <1>1, <1>2, <1>3
  <2>2. CASE j \in 1..Len(queue) /\ all[j] = queue[j] BY <2>1, <2>2 DEF Numbered
  <2>3. CASE all[j] = e
    <3>1. queue[i].id <= top /\ queue[i].id \in Nat BY <1>2, <2>1 DEF Numbered
    <3> QED BY <2>1, <2>3, <3>1
  <2> QED BY <1>3, <2>2, <2>3
<1>6. ASSUME NEW i \in 1..Len(log), NEW j \in 1..Len(all)
      PROVE  log[i].id < all[j].id
  <2>1. log[i].id <= top /\ log[i].id \in Nat BY <1>2 DEF Numbered
  <2>2. CASE j \in 1..Len(queue) /\ all[j] = queue[j] BY <2>2 DEF Numbered
  <2>3. CASE all[j] = e BY <2>1, <2>3
  <2> QED BY <1>3, <2>2, <2>3
<1>7. \A i \in 1..Len(log) : log[i].id <= top + 1 BY <1>2 DEF Numbered
<1> QED BY <1>4, <1>5, <1>6, <1>7 DEF Numbered, all

\* The latest of a queue are in order as well.
LEMMA NumberedLatest ==
    ASSUME NEW log \in Seq(Event), NEW queue \in Seq(Event), NEW top \in Nat,
           Numbered(log, queue, top)
    PROVE  Numbered(log, Latest(queue), top)
<1> DEFINE skipped == Len(queue) - Len(Latest(queue))
           kept == Latest(queue)
<1>1. /\ Len(queue) \in Nat /\ Len(kept) \in 0..Len(queue)
      /\ \A i \in 1..Len(kept) : kept[i] = queue[i + skipped]
    BY LatestProperties, LenProperties
<1>2. skipped \in Nat /\ \A i \in 1..Len(kept) : i + skipped \in 1..Len(queue) BY <1>1
<1>3. \A i, j \in 1..Len(kept) : i < j => i + skipped < j + skipped BY <1>1, <1>2
<1> HIDE DEF skipped, kept
<1> QED BY <1>1, <1>2, <1>3 DEF Numbered, kept

\* What is written is in order, and nothing is left behind it.
LEMMA NumberedWritten ==
    ASSUME NEW log \in Seq(Event), NEW queue \in Seq(Event), NEW top \in Nat,
           Numbered(log, queue, top)
    PROVE  Numbered(log \o queue, <<>>, top)
<1> DEFINE all == log \o queue
<1>1. /\ Len(log) \in Nat /\ Len(queue) \in Nat /\ Len(all) = Len(log) + Len(queue)
      /\ \A i \in 1..(Len(log) + Len(queue)) : all[i] = IF i <= Len(log) THEN log[i]
                                                        ELSE queue[i - Len(log)]
    BY ConcatProperties, LenProperties
<1> HIDE DEF all
<1>2. \A i \in 1..Len(all) : \/ i \in 1..Len(log) /\ all[i] = log[i]
                             \/ /\ i > Len(log) /\ i - Len(log) \in 1..Len(queue)
                                /\ all[i] = queue[i - Len(log)]
    BY <1>1
<1>3. \A i \in 1..Len(all) : all[i].id <= top BY <1>2 DEF Numbered
<1>4. ASSUME NEW i \in 1..Len(all), NEW j \in 1..Len(all), i < j
      PROVE  all[i].id < all[j].id
  <2>1. CASE j \in 1..Len(log) /\ all[j] = log[j] BY <1>1, <1>2, <1>4, <2>1 DEF Numbered
  <2>2. CASE j > Len(log) /\ j - Len(log) \in 1..Len(queue) /\ all[j] = queue[j - Len(log)]
    <3>1. CASE i \in 1..Len(log) /\ all[i] = log[i] BY <2>2, <3>1 DEF Numbered
    <3>2. CASE i > Len(log) /\ i - Len(log) \in 1..Len(queue) /\ all[i] = queue[i - Len(log)]
      <4>1. i - Len(log) < j - Len(log) BY <1>1, <1>4
      <4> QED BY <2>2, <3>2, <4>1 DEF Numbered
    <3> QED BY <1>2, <3>1, <3>2
  <2> QED BY <1>2, <2>1, <2>2
<1> QED BY <1>3, <1>4, EmptySeq DEF Numbered, all

LEMMA NumberedMore ==
    ASSUME NEW log \in Seq(Event), NEW queue, NEW top \in Nat, NEW more \in {top, top + 1},
           Numbered(log, queue, top)
    PROVE  Numbered(log, <<>>, more)
<1>1. \A i \in 1..Len(log) : log[i] \in Event BY ElementOfSeq
<1>2. \A x \in Event : x.id \in Nat BY DEF Event
<1>3. \A i \in 1..Len(log) : log[i].id <= more BY <1>1, <1>2 DEF Numbered
<1> QED BY <1>3, EmptySeq DEF Numbered

LEMMA LogsNumberedInit == Init => LogsNumbered
<1> SUFFICES ASSUME Init PROVE LogsNumbered OBVIOUS
<1>1. /\ \A p \in Paths : disk[p].log = <<>>
      /\ dirty.events = <<>> /\ path \in Paths
    BY DEF Init, EmptyDatabase, NoChanges
<1>2. Numbered(<<>>, <<>>, recorded) BY EmptySeq DEF Numbered
<1> QED BY <1>1, <1>2 DEF LogsNumbered

\* The queue with what has arrived, and the queue that is left of it.
LEMMA QueueNumbered ==
    ASSUME StoreInv, LogsNumbered, NEW new \in Seq(Event), RecordsMove(new)
    PROVE  /\ recorded \in Nat /\ recorded' \in {recorded, recorded + 1} /\ recorded' \in Nat
           /\ disk[path].log \in Seq(Event)
           /\ dirty.events \o new \in Seq(Event)
           /\ Numbered(disk[path].log, dirty.events \o new, recorded')
           /\ Numbered(disk[path].log, Latest(dirty.events \o new), recorded')
<1>1. /\ recorded \in Nat /\ disk[path].log \in Seq(Event) /\ dirty.events \in Seq(Event)
    BY DEF StoreInv, TypeOK
<1>2. dirty.events \o new \in Seq(Event) BY <1>1, ConcatProperties
<1>3. Numbered(disk[path].log, dirty.events, recorded) BY DEF LogsNumbered
<1>4. recorded' \in {recorded, recorded + 1} BY DEF RecordsMove
<1>5. Numbered(disk[path].log, dirty.events \o new, recorded')
  <2>1. CASE new = <<>> /\ recorded' = recorded BY <1>1, <1>3, <2>1, ConcatEmptySeq
  <2>2. CASE \E e \in Event : new = <<e>> /\ e.id = recorded + 1 /\ recorded' = recorded + 1
      BY <1>1, <1>3, <2>2, NumberedArrives
  <2> QED BY <2>1, <2>2 DEF RecordsMove
<1>6. recorded' \in Nat BY <1>1, <1>4
<1>7. Numbered(disk[path].log, Latest(dirty.events \o new), recorded')
    BY <1>1, <1>2, <1>5, <1>6, NumberedLatest
<1> QED BY <1>1, <1>2, <1>4, <1>5, <1>6, <1>7

LEMMA LogsNumberedStep == StoreInv /\ LogsNumbered /\ [Next]_vars => LogsNumbered'
<1> SUFFICES ASSUME StoreInv, LogsNumbered, [Next]_vars PROVE LogsNumbered' OBVIOUS
<1>1. \A p \in Paths : disk[p].log \in Seq(Event) BY DEF StoreInv, TypeOK
<1>2. ASSUME NEW new \in Seq(Event), RecordsMove(new) PROVE LogsNumbered'
  <2> DEFINE all == Latest(dirty.events \o new)
             log == disk[path].log
  <2>1. /\ recorded \in Nat /\ recorded' \in {recorded, recorded + 1} /\ recorded' \in Nat
        /\ log \in Seq(Event) /\ all \in Seq(Event)
        /\ Numbered(log, all, recorded')
      BY <1>2, QueueNumbered, LatestProperties
  <2>2. /\ path' = path /\ path \in Paths
        /\ \/ disk'[path].log = log \o all /\ dirty'.events = <<>>
           \/ disk'[path].log = log /\ dirty'.events = all
        /\ \A p \in Paths \ {path} : disk'[p] = disk[p]
      BY <1>2 DEF RecordsMove, StoreInv, TypeOK, NoChanges
  <2> HIDE DEF all, log
  <2>3. Numbered(log \o all, <<>>, recorded') BY <2>1, NumberedWritten
  <2>4. Numbered(log, <<>>, recorded') BY <2>1, NumberedMore
  <2>5. /\ Numbered(disk'[path].log, <<>>, recorded')
        /\ Numbered(disk'[path].log, dirty'.events, recorded')
      BY <2>1, <2>2, <2>3, <2>4
  <2>6. ASSUME NEW p \in Paths \ {path} PROVE Numbered(disk'[p].log, <<>>, recorded')
    <3>1. Numbered(disk[p].log, <<>>, recorded) BY DEF LogsNumbered
    <3>2. Numbered(disk[p].log, <<>>, recorded') BY <1>1, <2>1, <3>1, NumberedMore
    <3> QED BY <2>2, <3>2
  <2> QED BY <2>2, <2>5, <2>6 DEF LogsNumbered, Numbered
<1>3. CASE \E ok \in SaveAnswers : Traffic(ok) \/ Manage(ok)
    BY <1>2, <1>3, OperationsMoveRecords
<1>4. CASE \E p \in Paths : Configure(p)
  <2>1. /\ disk' = disk /\ recorded' = recorded /\ dirty'.events = <<>> /\ path' \in Paths
      BY <1>4 DEF Configure, NoChanges
  <2> QED BY <2>1 DEF LogsNumbered, Numbered
<1>5. CASE Tick \/ UNCHANGED vars
  <2>1. UNCHANGED <<disk, recorded, dirty, path>>
      BY <1>5 DEF Tick, vars, storeVars, historyVars
  <2> QED BY <2>1 DEF LogsNumbered, Numbered
<1> QED BY <1>3, <1>4, <1>5 DEF Next

LEMMA LogsNumberedHolds == Spec => [](StoreInv /\ LogsNumbered)
<1>1. Init => StoreInv /\ LogsNumbered BY StoreInvInit, LogsNumberedInit
<1>2. StoreInv /\ LogsNumbered /\ [Next]_vars => (StoreInv /\ LogsNumbered)'
    BY StoreInvStep, LogsNumberedStep
<1> QED BY <1>1, <1>2, PTL DEF Spec

\* Every usage record is logged once and in the order of arrival, whatever saves fail and
\* are retried, in every database (updateResult, Changes.merge, Save).
THEOREM RecordsLoggedOnce == Spec => []LoggedOnce
<1>1. ASSUME StoreInv, LogsNumbered PROVE LoggedOnce
  <2>1. path \in Paths /\ dirty.events \in Seq(Event) /\ \A p \in Paths : disk[p].log \in Seq(Event)
      BY <1>1 DEF StoreInv, TypeOK
  <2>2. ASSUME NEW s \in Seq(Event), NEW top, Numbered(s, <<>>, top) PROVE Increasing(s)
      BY <2>2, LenProperties DEF Increasing, Numbered
  <2>3. recorded \in Nat BY <1>1 DEF StoreInv, TypeOK
  <2>4. ASSUME NEW p \in Paths
        PROVE  Increasing(disk[p].log \o IF p = path THEN dirty.events ELSE <<>>)
    <3>1. CASE p = path
      <4>1. Numbered(disk[path].log \o dirty.events, <<>>, recorded)
          BY <1>1, <2>1, <2>3, NumberedWritten DEF LogsNumbered
      <4>2. disk[path].log \o dirty.events \in Seq(Event) BY <2>1, ConcatProperties
      <4> QED BY <2>2, <3>1, <4>1, <4>2
    <3>2. CASE p # path
      <4>1. disk[p].log \o <<>> = disk[p].log BY <2>1, ConcatEmptySeq
      <4> QED BY <1>1, <2>1, <2>2, <3>2, <4>1 DEF LogsNumbered
    <3> QED BY <3>1, <3>2
  <2> QED BY <2>4 DEF LoggedOnce
<1> QED BY <1>1, LogsNumberedHolds, PTL

LEMMA ToSetProperties ==
    ASSUME NEW s \in Seq(Event)
    PROVE  /\ IsFiniteSet(ToSet(s))
           /\ ToSet(s) = {s[i] : i \in 1..Len(s)}
           /\ ToSet(s) \subseteq Event
<1>1. Len(s) \in Nat /\ DOMAIN s = 1..Len(s) /\ s \in [1..Len(s) -> Event]
    BY LenProperties
<1>2. ToSet(s) = {s[i] : i \in 1..Len(s)} BY <1>1 DEF ToSet
<1>3. s \in Surjection(1..Len(s), ToSet(s)) BY <1>1, <1>2 DEF Surjection
<1>4. IsFiniteSet(1..Len(s)) BY <1>1, FS_Interval
<1> QED BY <1>1, <1>2, <1>3, <1>4, FS_Surjection

LEMMA ToSetConcat ==
    ASSUME NEW s \in Seq(Event), NEW t \in Seq(Event)
    PROVE  ToSet(s \o t) = ToSet(s) \cup ToSet(t)
<1>1. /\ s \o t \in Seq(Event)
      /\ Len(s) \in Nat /\ Len(t) \in Nat /\ Len(s \o t) = Len(s) + Len(t)
      /\ \A i \in 1..(Len(s) + Len(t)) : (s \o t)[i] = IF i <= Len(s) THEN s[i]
                                                       ELSE t[i - Len(s)]
    BY ConcatProperties, LenProperties
<1> DEFINE u == s \o t
<1>2. /\ ToSet(u) = {u[i] : i \in 1..Len(u)}
      /\ ToSet(s) = {s[i] : i \in 1..Len(s)}
      /\ ToSet(t) = {t[i] : i \in 1..Len(t)}
    BY <1>1, ToSetProperties
<1> HIDE DEF u
<1>3. ASSUME NEW e \in ToSet(u) PROVE e \in ToSet(s) \cup ToSet(t)
  <2>1. PICK i \in 1..Len(u) : e = u[i] BY <1>2
  <2>2. CASE i <= Len(s) BY <1>1, <1>2, <2>1, <2>2 DEF u
  <2>3. CASE i > Len(s)
    <3>1. i - Len(s) \in 1..Len(t) /\ e = t[i - Len(s)] BY <1>1, <2>1, <2>3 DEF u
    <3> QED BY <1>2, <3>1
  <2> QED BY <1>1, <2>1, <2>2, <2>3
<1>4. ASSUME NEW e \in ToSet(s) PROVE e \in ToSet(u)
  <2>1. PICK i \in 1..Len(s) : e = s[i] BY <1>2
  <2>2. i \in 1..Len(u) /\ u[i] = e BY <1>1, <2>1 DEF u
  <2> QED BY <1>2, <2>2
<1>5. ASSUME NEW e \in ToSet(t) PROVE e \in ToSet(u)
  <2>1. PICK i \in 1..Len(t) : e = t[i] BY <1>2
  <2>2. /\ i + Len(s) \in 1..(Len(s) + Len(t)) /\ ~(i + Len(s) <= Len(s))
        /\ (i + Len(s)) - Len(s) = i
      BY <1>1, <2>1
  <2>3. i + Len(s) \in 1..Len(u) /\ u[i + Len(s)] = e BY <1>1, <2>1, <2>2 DEF u
  <2> QED BY <1>2, <2>3
<1> QED BY <1>3, <1>4, <1>5 DEF u

\* A record of the queue either stays among the latest or leaves behind a full queue of
\* later ones.
LEMMA LeavesBehind ==
    ASSUME NEW log \in Seq(Event), NEW queue \in Seq(Event), NEW top \in Nat,
           Numbered(log, queue, top), NEW i \in 1..Len(queue),
           NEW kept, IsFiniteSet(kept), ToSet(Latest(queue)) \subseteq kept
    PROVE  \/ queue[i] \in kept
           \/ Cardinality({f \in kept : f.id > queue[i].id}) >= MaxPending
<1> DEFINE all == Latest(queue)
           skipped == Len(queue) - Len(all)
           later == {f \in kept : f.id > queue[i].id}
<1>1. /\ all \in Seq(Event) /\ Len(queue) \in Nat /\ Len(all) \in 0..Len(queue)
      /\ Len(all) < Len(queue) => Len(all) = MaxPending
      /\ \A j \in 1..Len(all) : all[j] = queue[j + skipped]
    BY LatestProperties, LenProperties
<1>2. ToSet(all) = {all[j] : j \in 1..Len(all)} BY <1>1, ToSetProperties
<1>3. \A x \in 1..Len(queue) : queue[x].id \in Nat
  <2>1. \A x \in 1..Len(queue) : queue[x] \in Event BY ElementOfSeq
  <2> QED BY <2>1 DEF Event
<1> HIDE DEF all
<1>4. CASE i > skipped
  <2>1. i - skipped \in 1..Len(all) /\ (i - skipped) + skipped = i BY <1>1, <1>4
  <2>2. all[i - skipped] = queue[i] BY <1>1, <2>1
  <2> QED BY <1>2, <2>1, <2>2 DEF all
<1>5. CASE ~(i > skipped)
  <2>1. Len(all) = MaxPending BY <1>1, <1>5
  <2>2. ASSUME NEW j \in 1..MaxPending PROVE all[j] \in later
    <3>1. j + skipped \in 1..Len(queue) /\ i < j + skipped BY <1>1, <1>5, <2>1
    <3>2. all[j] = queue[j + skipped] BY <1>1, <2>1
    <3>3. all[j].id > queue[i].id BY <1>3, <3>1, <3>2 DEF Numbered
    <3> QED BY <1>2, <2>1, <3>3 DEF all
  <2>3. ASSUME NEW j \in 1..MaxPending, NEW k \in 1..MaxPending, j < k
        PROVE  all[j] # all[k]
    <3>1. /\ j + skipped \in 1..Len(queue) /\ k + skipped \in 1..Len(queue)
          /\ j + skipped < k + skipped
        BY <1>1, <2>1, <2>3
    <3>2. all[j] = queue[j + skipped] /\ all[k] = queue[k + skipped] BY <1>1, <2>1
    <3>3. queue[j + skipped].id < queue[k + skipped].id BY <3>1 DEF Numbered
    <3>4. all[j].id \in Nat BY <1>3, <3>1, <3>2
    <3> QED BY <3>2, <3>3, <3>4
  <2> DEFINE f == [j \in 1..MaxPending |-> all[j]]
  <2>4. MaxPending \in Nat BY BillingAssumption
  <2>5. f \in Injection(1..MaxPending, later)
    <3>1. f \in [1..MaxPending -> later] BY <2>2
    <3>2. \A j, k \in 1..MaxPending : f[j] = f[k] => j = k BY <2>3, <2>4
    <3> QED BY <3>1, <3>2 DEF Injection, IsInjective
  <2>6. later \in SUBSET kept OBVIOUS
  <2>7. IsFiniteSet(later) BY <2>6, FS_Subset
  <2> HIDE DEF f
  <2>8. Cardinality(1..MaxPending) <= Cardinality(later) BY <2>5, <2>7, FS_Injection
  <2>9. Cardinality(1..MaxPending) = MaxPending
    <3>1. MaxPending \in Int /\ ~(1 > MaxPending) /\ MaxPending - 1 + 1 = MaxPending
        BY BillingAssumption
    <3>2. Cardinality(1..MaxPending) = IF 1 > MaxPending THEN 0 ELSE MaxPending - 1 + 1
        BY <3>1, FS_Interval
    <3> QED BY <3>1, <3>2
  <2>10. Cardinality(later) \in Nat BY <2>7, FS_CardinalityType
  <2> QED BY <2>4, <2>8, <2>9, <2>10
<1> QED BY <1>4, <1>5

\* No record is lost on its way: it leaves the queue for the database, or pushed out of a
\* full queue by later ones (withBoundedRequestRecords, updateResult).
THEOREM NoRecordLost == Spec => PendingReachesTheLog
<1> DEFINE Kept(log, queue, e) ==
              LET kept == ToSet(log \o queue)
              IN  e \in kept \/ Cardinality({f \in kept : f.id > e.id}) >= MaxPending
<1>1. ASSUME StoreInv, LogsNumbered, [Next]_vars, NEW e \in ToSet(dirty.events),
             ~(\E p \in Paths : Configure(p))
      PROVE  Kept(disk'[path].log, dirty'.events, e)
  <2>1. /\ dirty.events \in Seq(Event) /\ path \in Paths /\ disk[path].log \in Seq(Event)
      BY <1>1 DEF StoreInv, TypeOK
  <2>2. PICK i \in 1..Len(dirty.events) : e = dirty.events[i] BY <1>1, <2>1, ToSetProperties
  <2>3. ASSUME NEW new \in Seq(Event), RecordsMove(new)
        PROVE  Kept(disk'[path].log, dirty'.events, e)
    <3> DEFINE queue == dirty.events \o new
               kept == ToSet(disk'[path].log \o dirty'.events)
    <3>1. /\ queue \in Seq(Event) /\ recorded' \in Nat
          /\ Numbered(disk[path].log, queue, recorded')
        BY <1>1, <2>3, QueueNumbered
    <3>2. Len(new) \in Nat /\ Len(dirty.events) \in Nat /\ Len(queue) = Len(dirty.events) + Len(new)
          /\ \A j \in 1..(Len(dirty.events) + Len(new)) : queue[j] =
                IF j <= Len(dirty.events) THEN dirty.events[j] ELSE new[j - Len(dirty.events)]
        BY <2>1, ConcatProperties, LenProperties
    <3>3. i \in 1..Len(queue) /\ queue[i] = e BY <2>2, <3>2
    <3> HIDE DEF queue
    <3>4. Latest(queue) \in Seq(Event) BY <3>1, LatestProperties
    <3>5. disk'[path].log \o dirty'.events = disk[path].log \o Latest(queue)
      <4>1. disk[path].log \o Latest(queue) \in Seq(Event) BY <2>1, <3>4, ConcatProperties
      <4>2. CASE disk'[path].log = disk[path].log \o Latest(queue) /\ dirty' = NoChanges
        <5>1. dirty'.events = <<>> BY <4>2 DEF NoChanges
        <5> QED BY <4>1, <4>2, <5>1, ConcatEmptySeq
      <4>3. CASE disk'[path] = disk[path] /\ dirty'.events = Latest(queue) BY <4>3
      <4> QED BY <2>3, <4>2, <4>3 DEF RecordsMove, queue
    <3>6. IsFiniteSet(kept) /\ ToSet(Latest(queue)) \subseteq kept
      <4>1. disk[path].log \o Latest(queue) \in Seq(Event) BY <2>1, <3>4, ConcatProperties
      <4>2. IsFiniteSet(kept) BY <3>5, <4>1, ToSetProperties
      <4>3. kept = ToSet(disk[path].log) \cup ToSet(Latest(queue))
          BY <2>1, <3>4, <3>5, ToSetConcat
      <4> QED BY <4>2, <4>3
    <3> HIDE DEF kept
    <3>7. e \in kept \/ Cardinality({f \in kept : f.id > e.id}) >= MaxPending
        BY <2>1, <3>1, <3>3, <3>6, LeavesBehind
    <3> QED BY <3>7 DEF kept
  <2>4. CASE \E ok \in SaveAnswers : Traffic(ok) \/ Manage(ok)
      BY <1>1, <2>3, <2>4, OperationsMoveRecords
  <2>5. CASE Tick \/ UNCHANGED vars
    <3>1. dirty' = dirty /\ disk' = disk BY <2>5 DEF Tick, vars, storeVars, historyVars
    <3> QED BY <2>1, <3>1, <1>1, ToSetConcat
  <2> QED BY <1>1, <2>4, <2>5 DEF Next
<1>2. StoreInv /\ LogsNumbered /\ [Next]_vars =>
        [~(\E p \in Paths : Configure(p)) =>
            \A e \in ToSet(dirty.events) :
               LET kept == ToSet(disk'[path].log \o dirty'.events)
               IN  e \in kept \/ Cardinality({f \in kept : f.id > e.id}) >= MaxPending]_vars
    BY <1>1
<1> QED BY <1>2, LogsNumberedHolds, PTL DEF Spec, PendingReachesTheLog

-----------------------------------------------------------------------------
(* Cycles and the records they answer for.  Whatever becomes of a save, the records of a
   database stay the same set: those of its log, those of the queue, and those that a full
   queue gave up.  So a write has to be looked at once for all operations, and of an
   operation only what it does to the cycles. *)

BornBy(keys, top) ==
    \A k \in Scopes, w \in WindowIds : Running(keys[k], w) => keys[k].cycles[w].born <= top

\* The records the working set answers for, and those a database does.
WorkingRecords == ToSet(disk[path].log \o dirty.events) \cup dropped[path]
SavedRecords(p) == ToSet(disk[p].log) \cup {e \in dropped[p] : e.id < LastId(disk[p].log)}

CountsInv ==
    /\ \A p \in Paths : CountsRecords(disk[p].plans, disk[p].keys, SavedRecords(p))
    /\ CountsRecords(state.plans, state.keys, WorkingRecords)
    /\ \A p \in Paths : IsFiniteSet(dropped[p]) /\ \A e \in dropped[p] : e.id <= recorded
    /\ \A p \in Paths \ {path} : \A e \in dropped[p] : e.id < LastId(disk[p].log)
    /\ \A e \in dropped[path] : e.id < LastId(disk[path].log \o dirty.events)
    /\ \A p \in Paths : BornBy(disk[p].keys, recorded)
    /\ BornBy(state.keys, recorded)

Capped(n) == IF n > MaxCount THEN MaxCount ELSE n

\* A cycle that a step leaves as it is, with a window that meters the same models.
CycleStays(k, w) ==
    /\ Running(state.keys[k], w)
    /\ state'.keys[k].cycles[w] = state.keys[k].cycles[w]
    /\ \A m : Matches(state'.plans[state'.keys[k].plan][w], m)
                 <=> Matches(state.plans[state.keys[k].plan][w], m)

CycleOpens(k, w) ==
    state'.keys[k].cycles[w].used = 0 /\ state'.keys[k].cycles[w].born = recorded

\* What every operation but the recording of usage does to the cycles.
CyclesStay ==
    \A k \in Scopes, w \in WindowIds :
        Running(state'.keys[k], w) => CycleStays(k, w) \/ CycleOpens(k, w)

LEMMA CyclesStayCounts ==
    ASSUME CyclesStay, NEW R \in SUBSET Event, IsFiniteSet(R), \A e \in R : e.id <= recorded,
           recorded \in Nat, CountsRecords(state.plans, state.keys, R), BornBy(state.keys, recorded)
    PROVE  CountsRecords(state'.plans, state'.keys, R) /\ BornBy(state'.keys, recorded)
<1>1. ASSUME NEW k \in Scopes, NEW w \in WindowIds, Running(state'.keys[k], w)
      PROVE  LET cycle == state'.keys[k].cycles[w]
                 window == state'.plans[state'.keys[k].plan][w]
             IN  /\ cycle.used = Capped(Cardinality({e \in R : Answers(e, k, w, window, cycle)}))
                 /\ cycle.born <= recorded
  <2> DEFINE cycle == state'.keys[k].cycles[w]
             window == state'.plans[state'.keys[k].plan][w]
             before == state.plans[state.keys[k].plan][w]
             count == {e \in R : Answers(e, k, w, window, cycle)}
  <2>1. CASE CycleStays(k, w)
    <3>1. count = {e \in R : Answers(e, k, w, before, cycle)}
        BY <2>1 DEF CycleStays, Answers
    <3>2. state.keys[k].cycles[w] = cycle /\ Running(state.keys[k], w) BY <2>1 DEF CycleStays
    <3>3. cycle.used = Capped(Cardinality({e \in R : Answers(e, k, w, before, cycle)}))
        BY <3>2 DEF CountsRecords, Capped
    <3>4. cycle.born <= recorded BY <3>2 DEF BornBy
    <3> QED BY <3>1, <3>3, <3>4
  <2>2. CASE CycleOpens(k, w)
    <3>1. cycle.used = 0 /\ cycle.born = recorded BY <2>2 DEF CycleOpens
    <3>2. \A e \in R : e.id \in Nat BY DEF Event
    <3>3. count = {} BY <3>1, <3>2 DEF Answers
    <3>4. Capped(0) = 0 BY BillingAssumption DEF Capped
    <3> QED BY <3>1, <3>3, <3>4, FS_EmptySet
  <2> QED BY <1>1, <2>1, <2>2 DEF CyclesStay
<1> QED BY <1>1 DEF CountsRecords, BornBy, Capped

\* One more record that a cycle answers for raises it by one, up to the largest counter.
LEMMA CountOneMore ==
    ASSUME NEW S, IsFiniteSet(S), NEW e, e \notin S
    PROVE  Capped(Cardinality(S \cup {e})) = Saturated(Capped(Cardinality(S)), 1)
<1>1. Cardinality(S) \in Nat /\ Cardinality(S \cup {e}) = Cardinality(S) + 1
    BY FS_CardinalityType, FS_AddElement
<1> QED BY <1>1, BillingAssumption DEF Capped, Saturated

LEMMA RecordUsageCounts ==
    ASSUME StoreInv, NEW R \in SUBSET Event, IsFiniteSet(R), \A e \in R : e.id <= recorded,
           CountsRecords(state.plans, state.keys, R), BornBy(state.keys, recorded),
           NEW k \in Scopes, NEW m \in Models, NEW at \in Nat \cup {NoTime},
           NEW failed \in BOOLEAN, NEW ok \in BOOLEAN, RecordUsage(k, m, at, failed, ok),
           NEW event, event = [id |-> recorded + 1, scope |-> k, model |-> m, at |-> at,
                               failed |-> failed]
    PROVE  /\ CountsRecords(state'.plans, state'.keys, R \cup {event})
           /\ BornBy(state'.keys, recorded + 1)
<1> DEFINE old == state.keys[k]
           key == Ensured(old)
           delta == IF failed THEN 0 ELSE 1
           plan == state.plans[old.plan]
           charged == Charged(key, plan, m, at, delta)
           after == IF key.plan = NoPlan THEN key ELSE Settled(charged, now)
<1>1. /\ recorded \in Nat /\ state.keys \in Keys /\ old \in Key
      /\ state \in [plans : Plans, keys : Keys]
      /\ ValidCycles(old, state.plans)
    BY DEF StoreInv, TypeOK, Keys, Plans, Sound
<1>2. key.plan = old.plan /\ key.cycles = old.cycles BY <1>1 DEF Ensured, Key
<1>3. state' = WithKey(state, k, after) BY <1>2 DEF RecordUsage, Update
<1>4. /\ state'.plans = state.plans /\ state'.keys[k] = after
      /\ \A l \in Scopes \ {k} : state'.keys[l] = state.keys[l]
    BY <1>1, <1>3 DEF WithKey, Keys
<1>5. event.id = recorded + 1 /\ event.scope = k /\ event.model = m /\ event.at = at
      /\ event.failed = failed
    BY DEF Event
<1>6. \A e \in R : e.id \in Nat BY DEF Event
<1>7. event \notin R BY <1>1, <1>5, <1>6
<1> DEFINE Hit(w) == /\ at # NoTime /\ Matches(plan[w], m)
                     /\ at >= old.cycles[w].since /\ at < old.cycles[w].end
           charge(w) == [old.cycles[w] EXCEPT !.used = Saturated(@, delta)]
<1>8. ASSUME NEW w \in WindowIds, Running(after, w)
      PROVE  /\ Running(old, w) /\ old.plan # NoPlan /\ after.plan = old.plan
             /\ after.cycles[w] = IF Hit(w) THEN charge(w) ELSE old.cycles[w]
  <2>1. CASE key.plan = NoPlan
    <3>1. Running(old, w) BY <1>2, <1>8, <2>1 DEF Running
    <3> QED BY <1>1, <1>2, <2>1, <3>1 DEF ValidCycles
  <2>2. CASE key.plan # NoPlan
    <3>0. charged \in Key /\ Lighter(charged, key)
      <4>1. key \in Key /\ delta \in {0, 1} BY <1>1 DEF Ensured, Key
      <4> HIDE DEF key, delta
      <4> QED BY <4>1, ChargedProperties
    <3>1. Running(charged, w) /\ after.cycles[w] = charged.cycles[w] /\ after.plan = charged.plan
      <4> HIDE DEF charged
      <4>1. after = Settled(charged, now) BY <2>2
      <4> QED BY <1>8, <3>0, <4>1 DEF Settled, Running, Key
    <3>2. charged.plan = old.plan /\ Running(old, w)
        BY <1>2, <3>0, <3>1 DEF Lighter, Running
    <3>3. old.cycles[w].plan = old.plan BY <1>1, <3>2 DEF ValidCycles
    <3>4. charged.cycles[w] = IF Hit(w) THEN charge(w) ELSE old.cycles[w]
      <4>1. CASE at = NoTime BY <1>2, <4>1 DEF Charged
      <4>2. CASE at # NoTime
        <5>1. charged.cycles[w] = IF /\ Running(key, w) /\ Matches(plan[w], m)
                                     /\ key.cycles[w].plan = key.plan
                                     /\ at >= key.cycles[w].since /\ at < key.cycles[w].end
                                  THEN [key.cycles[w] EXCEPT !.used = Saturated(@, delta)]
                                  ELSE key.cycles[w]
            BY <4>2 DEF Charged
        <5>2. Running(key, w) BY <1>2, <3>2 DEF Running
        <5> QED BY <1>2, <3>3, <4>2, <5>1, <5>2
      <4> QED BY <4>1, <4>2
    <3> QED BY <1>2, <2>2, <3>1, <3>2, <3>4
  <2> QED BY <2>1, <2>2
<1> DEFINE Counted(l, w, keyNow) ==
              keyNow.cycles[w].used = Capped(Cardinality({e \in R \cup {event} :
                  Answers(e, l, w, state.plans[keyNow.plan][w], keyNow.cycles[w])}))
<1>9. ASSUME NEW l \in Scopes \ {k}, NEW w \in WindowIds, Running(state.keys[l], w)
      PROVE  Counted(l, w, state.keys[l])
  <2> DEFINE window == state.plans[state.keys[l].plan][w]
             cycle == state.keys[l].cycles[w]
  <2>1. cycle.used = Capped(Cardinality({e \in R : Answers(e, l, w, window, cycle)}))
      BY <1>9 DEF CountsRecords, Capped
  <2>2. ~Answers(event, l, w, window, cycle) BY <1>5 DEF Answers
  <2>3. {e \in R \cup {event} : Answers(e, l, w, window, cycle)}
          = {e \in R : Answers(e, l, w, window, cycle)}
      BY <2>2
  <2> QED BY <2>1, <2>3
<1>10. ASSUME NEW w \in WindowIds, Running(after, w)
       PROVE  /\ Counted(k, w, after)
              /\ after.cycles[w].born \in Nat /\ after.cycles[w].born <= recorded
  <2> DEFINE window == plan[w]
             cycle == old.cycles[w]
             count == {e \in R : Answers(e, k, w, window, cycle)}
  <2>1. Running(old, w) /\ old.plan # NoPlan /\ after.plan = old.plan
        /\ after.cycles[w] = IF Hit(w) THEN charge(w) ELSE cycle
      BY <1>8, <1>10
  <2>2. cycle \in Cycle /\ cycle.born <= recorded /\ cycle.used = Capped(Cardinality(count))
      BY <1>1, <2>1 DEF Running, Key, BornBy, CountsRecords, Capped
  <2>3. cycle.used \in 0..MaxCount /\ cycle.born \in Nat BY <2>2 DEF Cycle
  <2> DEFINE next == after.cycles[w]
  <2>4. /\ next.born = cycle.born /\ next.since = cycle.since /\ next.end = cycle.end
        /\ next.used = IF Hit(w) THEN Saturated(cycle.used, delta) ELSE cycle.used
      BY <2>1, <2>2 DEF Cycle
  <2> HIDE DEF next, charge
  <2>5. {e \in R \cup {event} : Answers(e, k, w, window, next)}
          = {e \in R \cup {event} : Answers(e, k, w, window, cycle)}
      BY <2>4 DEF Answers
  <2>6. Answers(event, k, w, window, cycle) <=> Hit(w) /\ ~failed
    <3>1. event.id > cycle.born BY <1>1, <1>5, <2>2, <2>3
    <3> QED BY <1>5, <3>1 DEF Answers
  <2>7. IsFiniteSet(count) BY FS_Subset
  <2>8. event \notin count BY <1>7
  <2> HIDE DEF Hit, cycle, window
  <2>9. next.used = Capped(Cardinality({e \in R \cup {event} : Answers(e, k, w, window, cycle)}))
    <3>1. CASE Hit(w) /\ ~failed
      <4>1. {e \in R \cup {event} : Answers(e, k, w, window, cycle)} = count \cup {event}
          BY <2>6, <3>1
      <4>2. next.used = Saturated(Capped(Cardinality(count)), 1) BY <2>2, <2>4, <3>1
      <4> HIDE DEF count
      <4> QED BY <2>7, <2>8, <4>1, <4>2, CountOneMore
    <3>2. CASE ~(Hit(w) /\ ~failed)
      <4>1. {e \in R \cup {event} : Answers(e, k, w, window, cycle)} = count BY <2>6, <3>2
      <4>2. next.used = cycle.used
        <5>1. CASE Hit(w)
          <6>1. delta = 0 BY <3>2, <5>1
          <6>2. Saturated(cycle.used, 0) = cycle.used
              BY <2>3, BillingAssumption DEF Saturated
          <6> QED BY <2>4, <5>1, <6>1, <6>2
        <5>2. CASE ~Hit(w) BY <2>4, <5>2
        <5> QED BY <5>1, <5>2
      <4> QED BY <2>2, <4>1, <4>2
    <3> QED BY <3>1, <3>2
  <2>10. state.plans[after.plan][w] = window BY <2>1 DEF window
  <2> QED BY <2>2, <2>3, <2>4, <2>5, <2>9, <2>10 DEF next
<1> HIDE DEF after
<1>11. CountsRecords(state'.plans, state'.keys, R \cup {event})
  <2> SUFFICES ASSUME NEW l \in Scopes, NEW w \in WindowIds, Running(state'.keys[l], w)
               PROVE  Counted(l, w, state'.keys[l])
      BY <1>4 DEF CountsRecords, Capped
  <2>1. CASE l = k BY <1>4, <1>10, <2>1
  <2>2. CASE l # k BY <1>4, <1>9, <2>2
  <2> QED BY <2>1, <2>2
<1>12. BornBy(state'.keys, recorded + 1)
  <2> SUFFICES ASSUME NEW l \in Scopes, NEW w \in WindowIds, Running(state'.keys[l], w)
               PROVE  state'.keys[l].cycles[w].born <= recorded + 1
      BY DEF BornBy
  <2>1. CASE l = k
    <3>1. state'.keys[l].cycles[w].born \in Nat /\ state'.keys[l].cycles[w].born <= recorded
        BY <1>4, <1>10, <2>1
    <3> QED BY <1>1, <3>1
  <2>2. CASE l # k
    <3>1. state'.keys[l] = state.keys[l] /\ state.keys[l] \in Key BY <1>1, <1>4, <2>2 DEF Keys
    <3>2. state.keys[l].cycles[w] \in Cycle BY <3>1 DEF Key, Running
    <3>3. state.keys[l].cycles[w].born \in Nat BY <3>2 DEF Cycle
    <3>4. state.keys[l].cycles[w].born <= recorded BY <3>1 DEF BornBy
    <3> QED BY <1>1, <3>1, <3>3, <3>4
  <2> QED BY <2>1, <2>2
<1> QED BY <1>11, <1>12

\* Operations that leave every window as it is.
LEMMA SteadyPlans ==
    ASSUME state'.plans = state.plans,
           \A k \in Scopes, w \in WindowIds : Running(state'.keys[k], w) =>
              \/ /\ state'.keys[k].plan = state.keys[k].plan
                 /\ state'.keys[k].cycles[w] = state.keys[k].cycles[w]
              \/ CycleOpens(k, w)
    PROVE  CyclesStay
BY DEF CyclesStay, CycleStays, Running

LEMMA SettledStays ==
    ASSUME NEW key \in Key, NEW t, NEW w \in WindowIds, Running(Settled(key, t), w)
    PROVE  Settled(key, t).plan = key.plan /\ Settled(key, t).cycles[w] = key.cycles[w]
BY DEF Settled, Running, Key

LEMMA NewCycleStartsEmpty ==
    ASSUME NEW w, NEW p, NEW t, NEW born
    PROVE  NewCycle(w, p, t, born).used = 0 /\ NewCycle(w, p, t, born).born = born
BY DEF NewCycle

LEMMA AuthorizeModelStays ==
    ASSUME StoreInv, NEW k \in Scopes, NEW m, NEW ok, AuthorizeModel(k, m, ok)
    PROVE  CyclesStay
<1> DEFINE key == state.keys[k]
           plan == state.plans[key.plan]
           settled == Settled(key, now)
           unmetered == \/ key.plan = NoPlan
                        \/ m = AutoModel /\ \E w \in WindowIds : IsWindow(plan[w]) /\ ~AllModels(plan[w])
           after == IF unmetered THEN key
                    ELSE IF Blocked(settled, plan, m) THEN settled
                    ELSE Activated(settled, plan, m, now, recorded)
<1>1. /\ state \in [plans : Plans, keys : Keys] /\ key \in Key
      /\ now \in Nat /\ recorded \in Nat /\ ValidCycles(key, state.plans)
    BY DEF StoreInv, TypeOK, Plans, Keys, Sound
<1>2. state' = WithKey(state, k, after) BY DEF AuthorizeModel, Update
<1>3. settled \in Key BY <1>1, SettledProperties
<1>4. settled.plan = key.plan BY DEF Settled
<1>5. ASSUME ~unmetered
      PROVE  Opened(Activated(settled, plan, m, now, recorded), settled, plan, now, recorded)
  <2>1. key.plan \in PlanIds BY <1>1, <1>5 DEF Key
  <2>2. plan \in Plan
    <3>1. state.plans[key.plan] # NoPlan BY <1>1, <1>5 DEF ValidCycles
    <3> QED BY <1>1, <2>1, <3>1 DEF Plans
  <2>3. settled.plan \in PlanIds BY <1>4, <2>1
  <2> HIDE DEF settled, plan
  <2> QED BY <1>1, <1>3, <2>2, <2>3, ActivatedProperties
<1>6. \/ after = key
      \/ after = settled
      \/ ~unmetered /\ after = Activated(settled, plan, m, now, recorded)
    OBVIOUS
<1> HIDE DEF after, unmetered
<1>7. ASSUME NEW w \in WindowIds, Running(after, w)
      PROVE  \/ after.plan = key.plan /\ after.cycles[w] = key.cycles[w]
             \/ after.cycles[w].used = 0 /\ after.cycles[w].born = recorded
  <2>1. CASE after = key BY <2>1
  <2>2. CASE after = settled BY <1>1, <1>7, <2>2, SettledStays
  <2>3. CASE ~unmetered /\ after = Activated(settled, plan, m, now, recorded)
    <3>1. /\ after.plan = settled.plan
          /\ \/ after.cycles[w] = settled.cycles[w]
             \/ after.cycles[w] = NewCycle(plan[w], settled.plan, now, recorded)
        BY <1>5, <2>3 DEF Opened
    <3>2. CASE after.cycles[w] = settled.cycles[w]
      <4>1. Running(settled, w) BY <1>7, <3>2 DEF Running
      <4> QED BY <1>1, <1>4, <3>1, <3>2, <4>1, SettledStays
    <3>3. CASE after.cycles[w] = NewCycle(plan[w], settled.plan, now, recorded)
      <4> HIDE DEF key, plan, settled
      <4> QED BY <3>3, NewCycleStartsEmpty
    <3> QED BY <3>1, <3>2, <3>3
  <2> QED BY <1>6, <2>1, <2>2, <2>3
<1>8. /\ state'.plans = state.plans /\ state'.keys[k] = after
      /\ \A l \in Scopes \ {k} : state'.keys[l] = state.keys[l]
    BY <1>1, <1>2 DEF WithKey, Keys
<1> HIDE DEF key
<1> QED BY <1>7, <1>8, SteadyPlans DEF CycleOpens, key

LEMMA SettleViewsStays ==
    ASSUME StoreInv, NEW S \in SUBSET Scopes, NEW ok, SettleViews(S, ok)
    PROVE  CyclesStay
<1> DEFINE after == [k \in Scopes |-> IF k \in S THEN Settled(state.keys[k], now)
                                      ELSE state.keys[k]]
<1>1. state \in [plans : Plans, keys : Keys] BY DEF StoreInv, TypeOK, Plans, Keys
<1>2. state' = [state EXCEPT !.keys = after] BY DEF SettleViews, Update
<1>3. state'.plans = state.plans /\ state'.keys = after BY <1>1, <1>2
<1>4. ASSUME NEW k \in Scopes, NEW w \in WindowIds, Running(state'.keys[k], w)
      PROVE  /\ state'.keys[k].plan = state.keys[k].plan
             /\ state'.keys[k].cycles[w] = state.keys[k].cycles[w]
  <2>1. state.keys[k] \in Key BY <1>1 DEF Keys
  <2>2. CASE k \in S
    <3>1. state'.keys[k] = Settled(state.keys[k], now) BY <1>3, <2>2
    <3> QED BY <1>4, <2>1, <3>1, SettledStays
  <2>3. CASE k \notin S BY <1>3, <2>3
  <2> QED BY <2>2, <2>3
<1> QED BY <1>3, <1>4, SteadyPlans

\* A key that is bound anew runs no cycle.
LEMMA BoundRunsNothing ==
    ASSUME NEW key \in Key, NEW p, NEW w \in WindowIds
    PROVE  ~Running(Bound(key, p), w)
BY DEF Bound, Running, NoCycles, Key

\* An edit that is refused changes nothing.
LEMMA EditStays ==
    ASSUME NEW st, NEW changes, NEW ok, Edit(st, changes, ok), state' = st => CyclesStay
    PROVE  CyclesStay
<1>1. state' = st \/ state' = state BY DEF Edit
<1>2. CASE state' = state BY <1>2 DEF CyclesStay, CycleStays
<1> QED BY <1>1, <1>2

LEMMA EditKeyStays ==
    ASSUME StoreInv, NEW k \in Scopes, NEW p, NEW changes, NEW ok,
           \/ Edit(WithKey(state, k, Bound(state.keys[k], p)), changes, ok)
           \/ Edit(state, changes, ok)
    PROVE  CyclesStay
<1>1. state \in [plans : Plans, keys : Keys] BY DEF StoreInv, TypeOK, Plans, Keys
<1>2. state.keys[k] \in Key BY <1>1 DEF Keys
<1>3. ASSUME state' = WithKey(state, k, Bound(state.keys[k], p)) PROVE CyclesStay
  <2>1. /\ state'.plans = state.plans /\ state'.keys[k] = Bound(state.keys[k], p)
        /\ \A l \in Scopes \ {k} : state'.keys[l] = state.keys[l]
      BY <1>1, <1>3 DEF WithKey, Keys
  <2>2. \A w \in WindowIds : ~Running(state'.keys[k], w) BY <1>2, <2>1, BoundRunsNothing
  <2> QED BY <2>1, <2>2, SteadyPlans
<1>4. ASSUME state' = state PROVE CyclesStay BY <1>4 DEF CyclesStay, CycleStays
<1> QED BY <1>3, <1>4, EditStays

LEMMA ResetQuotaStays ==
    ASSUME StoreInv, NEW S \in SUBSET Scopes, NEW ok, ResetQuota(S, ok)
    PROVE  CyclesStay
<1> DEFINE after == [k \in Scopes |-> IF k \in S THEN [state.keys[k] EXCEPT !.cycles = NoCycles]
                                      ELSE state.keys[k]]
           st == [state EXCEPT !.keys = after]
<1>1. state \in [plans : Plans, keys : Keys] BY DEF StoreInv, TypeOK, Plans, Keys
<1>2. PICK changes : Edit(st, changes, ok)
  <2>1. Edit([state EXCEPT !.keys = [k \in Scopes |->
                IF k \in S THEN [state.keys[k] EXCEPT !.cycles = NoCycles] ELSE state.keys[k]]],
            KeysChanged({k \in S : state.keys[k].cycles # NoCycles}), ok)
      BY DEF ResetQuota
  <2> QED BY <2>1
<1>3. ASSUME state' = st PROVE CyclesStay
  <2>1. state'.plans = state.plans /\ state'.keys = after BY <1>1, <1>3
  <2>2. ASSUME NEW k \in Scopes, NEW w \in WindowIds, Running(state'.keys[k], w)
        PROVE  /\ state'.keys[k].plan = state.keys[k].plan
               /\ state'.keys[k].cycles[w] = state.keys[k].cycles[w]
    <3>1. state.keys[k] \in Key BY <1>1 DEF Keys
    <3> QED BY <2>1, <2>2, <3>1 DEF Running, NoCycles, Key
  <2> QED BY <2>1, <2>2, SteadyPlans
<1> HIDE DEF st
<1> QED BY <1>2, <1>3, EditStays

LEMMA SyncKeysStays ==
    ASSUME StoreInv, NEW S \in SUBSET Scopes, NEW ok, SyncKeys(S, ok)
    PROVE  CyclesStay
<1> DEFINE after == [k \in Scopes |->
              IF k \in S THEN [state.keys[k] EXCEPT !.status = "config"]
              ELSE IF state.keys[k].status = "config"
                   THEN [state.keys[k] EXCEPT !.status = "deleted"]
                   ELSE state.keys[k]]
           st == [state EXCEPT !.keys = after]
<1>1. state \in [plans : Plans, keys : Keys] BY DEF StoreInv, TypeOK, Plans, Keys
<1>2. PICK changes : Edit(st, changes, ok) BY DEF SyncKeys
<1>3. ASSUME state' = st PROVE CyclesStay
  <2>1. state'.plans = state.plans /\ state'.keys = after BY <1>1, <1>3
  <2>2. \A k \in Scopes : /\ state'.keys[k].plan = state.keys[k].plan
                          /\ state'.keys[k].cycles = state.keys[k].cycles
      BY <1>1, <2>1 DEF Keys, Key
  <2> QED BY <2>1, <2>2, SteadyPlans
<1> HIDE DEF st
<1> QED BY <1>2, <1>3, EditStays

\* An edit of plan p: the keys of other plans stay as they are, and of the keys of p only
\* those keep cycles that keep the plan, where their window still meters the same.
CyclesFollow(keys, p, plan) ==
    \A k \in Scopes, w \in WindowIds : Running(keys[k], w) =>
        /\ Running(state.keys[k], w)
        /\ keys[k].plan = state.keys[k].plan
        /\ keys[k].cycles[w] = state.keys[k].cycles[w]
        /\ keys[k].plan = p => /\ IsWindow(state.plans[p][w])
                               /\ KeepsCycles(state.plans[p][w], plan[w])

LEMMA EditPlanStays ==
    ASSUME StoreInv, NEW p \in PlanIds, NEW plan, NEW keys, NEW changes, NEW ok,
           Edit([plans |-> [state.plans EXCEPT ![p] = plan], keys |-> keys], changes, ok),
           CyclesFollow(keys, p, plan)
    PROVE  CyclesStay
<1> DEFINE st == [plans |-> [state.plans EXCEPT ![p] = plan], keys |-> keys]
<1>1. state.plans \in Plans BY DEF StoreInv, TypeOK, Plans
<1>2. ASSUME state' = st PROVE CyclesStay
  <2>1. state'.plans = [state.plans EXCEPT ![p] = plan] /\ state'.keys = keys BY <1>2
  <2>2. ASSUME NEW k \in Scopes, NEW w \in WindowIds, Running(state'.keys[k], w)
        PROVE  CycleStays(k, w)
    <3>1. /\ Running(state.keys[k], w)
          /\ state'.keys[k].plan = state.keys[k].plan
          /\ state'.keys[k].cycles[w] = state.keys[k].cycles[w]
          /\ keys[k].plan = p => IsWindow(state.plans[p][w]) /\ KeepsCycles(state.plans[p][w], plan[w])
        BY <2>1, <2>2 DEF CyclesFollow
    <3>2. CASE keys[k].plan = p
      <4>1. state'.plans[state'.keys[k].plan][w] = plan[w]
            /\ state.plans[state.keys[k].plan][w] = state.plans[p][w]
          BY <1>1, <2>1, <3>1, <3>2 DEF Plans
      <4>2. /\ IsWindow(plan[w]) /\ IsWindow(state.plans[p][w])
            /\ plan[w].scope = state.plans[p][w].scope
          BY <3>1, <3>2 DEF KeepsCycles
      <4> QED BY <3>1, <4>1, <4>2 DEF CycleStays, Matches, AllModels
    <3>3. CASE keys[k].plan # p
      <4>1. state.keys[k].plan # NoPlan BY <3>1 DEF StoreInv, Sound, ValidCycles
      <4>2. state.keys[k].plan \in PlanIds BY <4>1 DEF StoreInv, TypeOK, Key
      <4>3. state'.plans[state'.keys[k].plan] = state.plans[state.keys[k].plan]
          BY <1>1, <2>1, <3>1, <3>3, <4>2 DEF Plans
      <4> QED BY <3>1, <4>3 DEF CycleStays
    <3> QED BY <3>2, <3>3
  <2> QED BY <2>2 DEF CyclesStay
<1> HIDE DEF st
<1>3. Edit(st, changes, ok) BY DEF st
<1> QED BY <1>2, <1>3, EditStays

LEMMA PlanEditsStay ==
    ASSUME StoreInv, NEW p \in PlanIds, NEW plan, NEW S \in SUBSET Scopes, NEW ok,
           CreatePlan(p, plan, S, ok) \/ UpdatePlan(p, plan, S, ok) \/ DeletePlan(p, ok)
    PROVE  CyclesStay
<1>1. \A k \in Scopes : /\ state.keys[k] \in Key
                        /\ ValidCycles(state.keys[k], state.plans)
                        /\ state.keys[k].status = "unknown" => state.keys[k].plan = NoPlan
    BY DEF StoreInv, TypeOK, Sound
<1>2. CASE CreatePlan(p, plan, S, ok)
  <2> DEFINE keys == [k \in Scopes |-> IF k \in S THEN Bound(state.keys[k], p) ELSE state.keys[k]]
  <2>1. /\ Edit([plans |-> [state.plans EXCEPT ![p] = plan], keys |-> keys], PlansChanged(S), ok)
        /\ state.plans[p] = NoPlan
      BY <1>2 DEF CreatePlan
  <2>2. ASSUME NEW k \in Scopes, NEW w \in WindowIds, Running(keys[k], w)
        PROVE  /\ Running(state.keys[k], w) /\ keys[k] = state.keys[k]
               /\ keys[k].plan # p
    <3>1. keys[k] = state.keys[k] BY <1>1, <2>2, BoundRunsNothing
    <3>2. state.keys[k].plan # p BY <1>1, <2>1, <2>2, <3>1 DEF ValidCycles
    <3> QED BY <2>2, <3>1, <3>2
  <2> HIDE DEF keys
  <2>3. CyclesFollow(keys, p, plan) BY <2>2 DEF CyclesFollow
  <2> QED BY <2>1, <2>3, EditPlanStays
<1>3. CASE DeletePlan(p, ok)
  <2> DEFINE keys == [k \in Scopes |-> IF k \in BoundTo(state, p) THEN Unbound(state.keys[k])
                                       ELSE state.keys[k]]
  <2>1. Edit([plans |-> [state.plans EXCEPT ![p] = NoPlan], keys |-> keys],
             PlansChanged(Known(state)), ok)
      BY <1>3 DEF DeletePlan
  <2>2. ASSUME NEW k \in Scopes, NEW w \in WindowIds, Running(keys[k], w)
        PROVE  /\ Running(state.keys[k], w) /\ keys[k] = state.keys[k]
               /\ keys[k].plan # p
    <3>1. k \notin BoundTo(state, p) BY <1>1, <2>2, BoundRunsNothing DEF Unbound
    <3>2. keys[k] = state.keys[k] BY <3>1
    <3>3. state.keys[k].plan # p BY <1>1, <3>1, BillingAssumption DEF BoundTo, Known
    <3> QED BY <2>2, <3>2, <3>3
  <2> HIDE DEF keys
  <2>3. CyclesFollow(keys, p, NoPlan) BY <2>2 DEF CyclesFollow
  <2> QED BY <2>1, <2>3, EditPlanStays
<1>4. CASE UpdatePlan(p, plan, S, ok)
  <2> DEFINE old == state.plans[p]
             keys == [k \in Scopes |-> Rebound(state.keys[k], k, p, S, old, plan)]
  <2>1. Edit([plans |-> [state.plans EXCEPT ![p] = plan], keys |-> keys],
             PlansChanged(Known(state)), ok)
      BY <1>4 DEF UpdatePlan
  <2>2. ASSUME NEW k \in Scopes, NEW w \in WindowIds, Running(keys[k], w)
        PROVE  /\ Running(state.keys[k], w)
               /\ keys[k].plan = state.keys[k].plan
               /\ keys[k].cycles[w] = state.keys[k].cycles[w]
               /\ keys[k].plan = p => IsWindow(old[w]) /\ KeepsCycles(old[w], plan[w])
    <3>1. CASE state.keys[k].plan = p
      <4>1. keys[k] = Rescheduled(state.keys[k], old, plan)
          BY <1>1, <2>2, <3>1, BoundRunsNothing DEF Rebound, Unbound
      <4>2. /\ keys[k].plan = state.keys[k].plan
            /\ keys[k].cycles[w] = state.keys[k].cycles[w]
            /\ IsWindow(old[w]) => KeepsCycles(old[w], plan[w])
          BY <1>1, <2>2, <4>1 DEF Rescheduled, Key, Running
      <4>3. Running(state.keys[k], w) BY <2>2, <4>2 DEF Running
      <4>4. IsWindow(old[w]) BY <1>1, <3>1, <4>3 DEF ValidCycles
      <4> QED BY <4>2, <4>3, <4>4
    <3>2. CASE state.keys[k].plan # p
      <4>1. keys[k] = state.keys[k] BY <1>1, <2>2, <3>2, BoundRunsNothing DEF Rebound
      <4> QED BY <2>2, <3>2, <4>1
    <3> QED BY <3>1, <3>2
  <2> HIDE DEF keys
  <2>3. CyclesFollow(keys, p, plan) BY <2>2 DEF CyclesFollow
  <2> QED BY <2>1, <2>3, EditPlanStays
<1> QED BY <1>2, <1>3, <1>4

LEMMA LastIdConcat ==
    ASSUME NEW log \in Seq(Event), NEW queue \in Seq(Event)
    PROVE  LastId(log \o queue) = IF queue = <<>> THEN LastId(log) ELSE queue[Len(queue)].id
<1>1. CASE queue = <<>> BY <1>1, ConcatEmptySeq
<1>2. CASE queue # <<>>
  <2> DEFINE all == log \o queue
  <2>1. /\ all \in Seq(Event) /\ Len(log) \in Nat /\ Len(queue) \in Nat \ {0}
        /\ Len(all) = Len(log) + Len(queue)
        /\ \A i \in 1..(Len(log) + Len(queue)) : all[i] = IF i <= Len(log) THEN log[i]
                                                          ELSE queue[i - Len(log)]
      BY <1>2, ConcatProperties, LenProperties, EmptySeq
  <2> HIDE DEF all
  <2>2. all # <<>> BY <2>1, EmptySeq
  <2>3. all[Len(all)] = queue[Len(queue)]
    <3>1. /\ Len(all) \in 1..(Len(log) + Len(queue)) /\ ~(Len(all) <= Len(log))
          /\ Len(all) - Len(log) = Len(queue)
        BY <2>1
    <3> QED BY <2>1, <3>1
  <2> QED BY <1>2, <2>2, <2>3 DEF LastId, Last, all
<1> QED BY <1>1, <1>2

LEMMA LastIdBounds ==
    ASSUME NEW log \in Seq(Event), NEW queue \in Seq(Event), NEW top \in Nat,
           Numbered(log, queue, top)
    PROVE  /\ LastId(log) \in 0..top
           /\ \A i \in 1..Len(queue) : LastId(log) <= queue[i].id
           /\ LastId(log \o queue) \in 0..top
           /\ \A i \in 1..Len(queue) : \/ queue[i] = queue[Len(queue)]
                                       \/ queue[i].id < LastId(log \o queue)
<1>1. /\ Len(log) \in Nat /\ Len(queue) \in Nat
      /\ log # <<>> => Len(log) \in 1..Len(log)
      /\ queue # <<>> => Len(queue) \in 1..Len(queue)
    BY LenProperties, EmptySeq
<1>2. /\ \A i \in 1..Len(log) : log[i].id \in Nat
      /\ \A i \in 1..Len(queue) : queue[i].id \in Nat
  <2>1. /\ \A i \in 1..Len(log) : log[i] \in Event
        /\ \A i \in 1..Len(queue) : queue[i] \in Event
      BY ElementOfSeq
  <2> QED BY <2>1 DEF Event
<1>3. LastId(log) \in 0..top BY <1>1, <1>2 DEF LastId, Last, Numbered
<1>4. \A i \in 1..Len(queue) : LastId(log) <= queue[i].id
  <2>1. CASE log = <<>> BY <1>2, <2>1 DEF LastId
  <2>2. CASE log # <<>>
    <3>1. LastId(log) = log[Len(log)].id BY <2>2 DEF LastId, Last
    <3>2. log[Len(log)].id \in Nat BY <1>1, <1>2, <2>2
    <3> QED BY <1>1, <1>2, <2>2, <3>1, <3>2 DEF Numbered
  <2> QED BY <2>1, <2>2
<1>5. LastId(log \o queue) \in 0..top
  <2>1. CASE queue = <<>> BY <1>3, <2>1, LastIdConcat
  <2>2. CASE queue # <<>> BY <1>1, <1>2, <2>2, LastIdConcat DEF Numbered
  <2> QED BY <2>1, <2>2
<1>6. ASSUME NEW i \in 1..Len(queue)
      PROVE  queue[i] = queue[Len(queue)] \/ queue[i].id < LastId(log \o queue)
  <2>1. queue # <<>> BY <1>1, EmptySeq
  <2>2. LastId(log \o queue) = queue[Len(queue)].id BY <2>1, LastIdConcat
  <2>3. i = Len(queue) \/ i < Len(queue) BY <1>1
  <2> QED BY <1>1, <2>1, <2>2, <2>3 DEF Numbered
<1> QED BY <1>3, <1>4, <1>5, <1>6

\* The latest of a queue end like the queue.
LEMMA LatestEnds ==
    ASSUME NEW log \in Seq(Event), NEW queue \in Seq(Event)
    PROVE  /\ LastId(log \o Latest(queue)) = LastId(log \o queue)
           /\ ToSet(Latest(queue)) \subseteq ToSet(queue)
           /\ queue # <<>> => queue[Len(queue)] \in ToSet(Latest(queue))
<1> DEFINE all == Latest(queue)
           skipped == Len(queue) - Len(all)
<1>1. /\ all \in Seq(Event) /\ Len(queue) \in Nat /\ Len(all) \in 0..Len(queue)
      /\ Len(all) < Len(queue) => Len(all) = MaxPending
      /\ Len(queue) <= MaxPending => all = queue
      /\ \A j \in 1..Len(all) : all[j] = queue[j + skipped]
    BY LatestProperties, LenProperties
<1>2. ToSet(all) = {all[j] : j \in 1..Len(all)} /\ ToSet(queue) = {queue[j] : j \in 1..Len(queue)}
    BY <1>1, ToSetProperties
<1> HIDE DEF all
<1>3. \A j \in 1..Len(all) : j + skipped \in 1..Len(queue) BY <1>1
<1>4. ToSet(all) \subseteq ToSet(queue) BY <1>1, <1>2, <1>3
<1>5. CASE queue = <<>>
  <2>1. Len(queue) <= MaxPending BY <1>5, EmptySeq, BillingAssumption
  <2> QED BY <1>1, <1>4, <1>5, <2>1 DEF all
<1>6. CASE queue # <<>>
  <2>1. Len(queue) \in Nat \ {0} BY <1>6, EmptySeq
  <2>2. Len(all) \in 1..Len(all) /\ Len(all) + skipped = Len(queue)
      BY <1>1, <2>1, BillingAssumption
  <2>3. all[Len(all)] = queue[Len(queue)] BY <1>1, <2>2
  <2>4. all # <<>> BY <2>2, EmptySeq
  <2>5. LastId(log \o all) = LastId(log \o queue) BY <1>1, <1>6, <2>3, <2>4, LastIdConcat
  <2>6. queue[Len(queue)] \in ToSet(all) BY <1>2, <2>2, <2>3
  <2> QED BY <1>4, <2>5, <2>6 DEF all
<1> QED BY <1>5, <1>6

\* The records before and after a write.
LEMMA RecordsKept ==
    ASSUME StoreInv, LogsNumbered, CountsInv, NEW new \in Seq(Event), RecordsMove(new)
    PROVE  LET log == disk[path].log
               all == Latest(dirty.events \o new)
           IN  /\ ToSet(log \o all) \cup dropped'[path] = WorkingRecords \cup ToSet(new)
               /\ \A e \in dropped'[path] : e.id < LastId(log \o all)
               /\ {e \in dropped'[path] : e.id < LastId(log)}
                    = {e \in dropped[path] : e.id < LastId(log)}
               /\ IsFiniteSet(dropped'[path])
               /\ \A e \in dropped'[path] : e.id <= recorded'
               /\ \A p \in Paths \ {path} : dropped'[p] = dropped[p]
<1> DEFINE log == disk[path].log
           queue == dirty.events \o new
           all == Latest(queue)
           out == ToSet(dirty.events) \ ToSet(all)
<1>1. /\ dirty.events \in Seq(Event) /\ log \in Seq(Event) /\ recorded \in Nat
      /\ dropped \in [Paths -> SUBSET Event] /\ path \in Paths
    BY DEF StoreInv, TypeOK
<1>2. /\ queue \in Seq(Event) /\ recorded' \in Nat /\ recorded' \in {recorded, recorded + 1}
      /\ Numbered(log, queue, recorded')
    BY QueueNumbered
<1>3. all \in Seq(Event) /\ Len(all) \in 0..Len(queue) BY <1>2, LatestProperties
<1>4. /\ ToSet(queue) = ToSet(dirty.events) \cup ToSet(new)
      /\ ToSet(log \o all) = ToSet(log) \cup ToSet(all)
      /\ ToSet(log \o dirty.events) = ToSet(log) \cup ToSet(dirty.events)
    BY <1>1, <1>3, ToSetConcat
<1>5. /\ LastId(log \o all) = LastId(log \o queue)
      /\ ToSet(all) \subseteq ToSet(queue)
      /\ queue # <<>> => queue[Len(queue)] \in ToSet(all)
    BY <1>1, <1>2, LatestEnds
<1>6. /\ dropped'[path] = dropped[path] \cup out
      /\ \A p \in Paths \ {path} : dropped'[p] = dropped[p]
    BY <1>1 DEF RecordsMove
<1>7. ToSet(new) \subseteq ToSet(all)
  <2>1. CASE new = <<>>
    <3>1. ToSet(new) = {} BY <2>1, EmptySeq DEF ToSet
    <3> QED BY <3>1
  <2>2. CASE \E e \in Event : new = <<e>>
    <3>1. PICK e \in Event : new = <<e>> BY <2>2
    <3>2. Len(new) = 1 /\ new[1] = e BY <3>1
    <3>3. ToSet(new) = {e}
      <4>1. ToSet(new) = {new[i] : i \in 1..1} BY <3>2, ToSetProperties
      <4> QED BY <3>2, <4>1
    <3>4. Len(dirty.events) \in Nat /\ Len(queue) = Len(dirty.events) + 1
          /\ queue[Len(dirty.events) + 1] = new[1]
      <4>1. /\ Len(dirty.events) \in Nat
            /\ Len(queue) = Len(dirty.events) + Len(new)
            /\ \A i \in 1..(Len(dirty.events) + Len(new)) : queue[i] =
                  IF i <= Len(dirty.events) THEN dirty.events[i] ELSE new[i - Len(dirty.events)]
          BY <1>1, ConcatProperties, LenProperties
      <4>2. /\ Len(dirty.events) + 1 \in 1..(Len(dirty.events) + Len(new))
            /\ ~(Len(dirty.events) + 1 <= Len(dirty.events))
            /\ (Len(dirty.events) + 1) - Len(dirty.events) = 1
          BY <3>2, <4>1
      <4> HIDE DEF queue
      <4> QED BY <3>2, <4>1, <4>2
    <3>5. queue # <<>> BY <3>4, EmptySeq
    <3> QED BY <1>5, <3>2, <3>3, <3>4, <3>5
  <2> QED BY <2>1, <2>2 DEF RecordsMove
<1>8. ToSet(log \o all) \cup dropped'[path] = WorkingRecords \cup ToSet(new)
    BY <1>4, <1>5, <1>6, <1>7 DEF WorkingRecords
<1>9. /\ LastId(log) \in 0..recorded' /\ LastId(log \o queue) \in 0..recorded'
      /\ \A i \in 1..Len(queue) : LastId(log) <= queue[i].id
      /\ \A i \in 1..Len(queue) : \/ queue[i] = queue[Len(queue)]
                                  \/ queue[i].id < LastId(log \o queue)
    BY <1>1, <1>2, LastIdBounds
<1>10. ASSUME NEW e \in out
       PROVE  e \in Event /\ e.id < LastId(log \o all) /\ ~(e.id < LastId(log))
  <2>1. PICK i \in 1..Len(queue) : e = queue[i]
    <3>1. e \in ToSet(queue) BY <1>4
    <3> QED BY <1>2, <3>1, ToSetProperties
  <2>2. queue # <<>> BY <1>2, <2>1, EmptySeq
  <2>3. e # queue[Len(queue)] BY <1>5, <2>2
  <2>4. e \in Event /\ e.id \in Nat
    <3>1. e \in Event BY <1>2, <2>1, ElementOfSeq
    <3> QED BY <3>1 DEF Event
  <2> HIDE DEF queue, out, all
  <2> QED BY <1>5, <1>9, <2>1, <2>3, <2>4
<1>11. LastId(log \o dirty.events) <= LastId(log \o queue)
  <2>1. Numbered(log, dirty.events, recorded) BY DEF LogsNumbered
  <2>2. LastId(log \o dirty.events) \in 0..recorded BY <1>1, <2>1, LastIdBounds
  <2>3. CASE new = <<>>
    <3>1. queue = dirty.events BY <1>1, <2>3, ConcatEmptySeq
    <3> QED BY <2>2, <3>1
  <2>4. CASE \E e \in Event : new = <<e>> /\ e.id = recorded + 1
    <3>1. PICK e \in Event : new = <<e>> /\ e.id = recorded + 1 BY <2>4
    <3>2. Len(new) = 1 /\ new[1] = e /\ new # <<>> BY <3>1
    <3>3. log \o queue = (log \o dirty.events) \o new
      <4> DEFINE pending == dirty.events
      <4>1. pending \in Seq(Event) BY <1>1
      <4> HIDE DEF log, pending
      <4>2. (log \o pending) \o new = log \o (pending \o new) BY <1>1, <4>1, ConcatAssociative
      <4> QED BY <4>2 DEF pending
    <3>4. LastId(log \o queue) = new[Len(new)].id
      <4>1. log \o dirty.events \in Seq(Event) BY <1>1, ConcatProperties
      <4> QED BY <3>2, <3>3, <4>1, LastIdConcat
    <3> QED BY <1>1, <2>2, <3>1, <3>2, <3>4
  <2> QED BY <2>3, <2>4 DEF RecordsMove
<1>12. ASSUME NEW e \in dropped[path]
       PROVE  e \in Event /\ e.id < LastId(log \o all) /\ e.id <= recorded'
  <2>1. e \in Event /\ e.id \in Nat BY <1>1 DEF Event
  <2>2. e.id < LastId(log \o dirty.events) /\ e.id <= recorded BY <1>1 DEF CountsInv
  <2>3. LastId(log \o dirty.events) \in 0..recorded
    <3>1. Numbered(log, dirty.events, recorded) BY DEF LogsNumbered
    <3> QED BY <1>1, <3>1, LastIdBounds
  <2> HIDE DEF queue, all, log
  <2> QED BY <1>1, <1>2, <1>5, <1>9, <1>11, <2>1, <2>2, <2>3
<1>13. \A e \in dropped'[path] : e.id < LastId(log \o all) BY <1>6, <1>10, <1>12
<1>14. {e \in dropped'[path] : e.id < LastId(log)} = {e \in dropped[path] : e.id < LastId(log)}
    BY <1>6, <1>10
<1>15. IsFiniteSet(dropped'[path])
  <2>1. IsFiniteSet(dropped[path]) BY <1>1 DEF CountsInv
  <2>2. IsFiniteSet(ToSet(dirty.events)) BY <1>1, ToSetProperties
  <2>3. out \in SUBSET ToSet(dirty.events) OBVIOUS
  <2>4. IsFiniteSet(out) BY <2>2, <2>3, FS_Subset
  <2> QED BY <1>6, <2>1, <2>4, FS_Union
<1>16. \A e \in dropped'[path] : e.id <= recorded'
  <2> SUFFICES ASSUME NEW e \in dropped'[path] PROVE e.id <= recorded' OBVIOUS
  <2>1. CASE e \in dropped[path] BY <1>12, <2>1
  <2>2. CASE e \in out
    <3>1. e \in Event /\ e.id < LastId(log \o queue) BY <1>5, <1>10, <2>2
    <3>2. e.id \in Nat BY <3>1 DEF Event
    <3> HIDE DEF queue, log, out
    <3> QED BY <1>2, <1>9, <3>1, <3>2
  <2> QED BY <1>6, <2>1, <2>2
<1> QED BY <1>6, <1>8, <1>13, <1>14, <1>15, <1>16

\* Once the cycles of the working set fit the records with the one that has arrived, so do
\* those of every database, whatever has become of the save.
LEMMA WriteCounts ==
    ASSUME StoreInv, StoreInv', LogsNumbered, CountsInv, NEW new \in Seq(Event), RecordsMove(new),
           CountsRecords(state'.plans, state'.keys, WorkingRecords \cup ToSet(new)),
           BornBy(state'.keys, recorded')
    PROVE  CountsInv'
<1> DEFINE log == disk[path].log
           all == Latest(dirty.events \o new)
<1>1. /\ log \in Seq(Event) /\ all \in Seq(Event) /\ recorded \in Nat /\ path \in Paths
      /\ recorded' \in {recorded, recorded + 1}
    BY QueueNumbered, LatestProperties DEF StoreInv, TypeOK
<1>2. /\ ToSet(log \o all) \cup dropped'[path] = WorkingRecords \cup ToSet(new)
      /\ \A e \in dropped'[path] : e.id < LastId(log \o all)
      /\ {e \in dropped'[path] : e.id < LastId(log)}
           = {e \in dropped[path] : e.id < LastId(log)}
      /\ IsFiniteSet(dropped'[path])
      /\ \A e \in dropped'[path] : e.id <= recorded'
      /\ \A p \in Paths \ {path} : dropped'[p] = dropped[p]
    BY RecordsKept
<1>3. /\ path' = path
      /\ \/ disk'[path].log = log \o all /\ dirty' = NoChanges
         \/ disk'[path] = disk[path] /\ dirty'.events = all
      /\ \A p \in Paths \ {path} : disk'[p] = disk[p]
    BY DEF RecordsMove
<1> HIDE DEF all
<1>4. disk'[path].log \o dirty'.events = log \o all
  <2>1. CASE disk'[path].log = log \o all /\ dirty' = NoChanges
    <3>1. dirty'.events = <<>> BY <2>1 DEF NoChanges
    <3>2. log \o all \in Seq(Event) BY <1>1, ConcatProperties
    <3> HIDE DEF log
    <3> QED BY <2>1, <3>1, <3>2, ConcatEmptySeq
  <2>2. CASE disk'[path] = disk[path] /\ dirty'.events = all BY <2>2
  <2> QED BY <1>3, <2>1, <2>2
<1>5. CountsRecords(state'.plans, state'.keys,
                    ToSet(disk'[path].log \o dirty'.events) \cup dropped'[path])
    BY <1>2, <1>4
<1>6. CountsRecords(disk'[path].plans, disk'[path].keys,
                    ToSet(disk'[path].log) \cup {e \in dropped'[path] : e.id < LastId(disk'[path].log)})
      /\ BornBy(disk'[path].keys, recorded')
  <2>1. CASE disk'[path].log = log \o all /\ dirty' = NoChanges
    <3>1. disk'[path].plans = state'.plans /\ disk'[path].keys = state'.keys
      <4>1. /\ OnlyUsageAwaitsSaving'
            /\ state'.keys \in Keys /\ disk'[path].keys \in Keys
          BY <1>1 DEF StoreInv, TypeOK, Keys
      <4>2. dirty'.keys = {} BY <2>1 DEF NoChanges
      <4>3. disk'[path].plans = state'.plans
            /\ \A k \in Scopes : state'.keys[k] = disk'[path].keys[k]
          BY <1>3, <4>1, <4>2 DEF OnlyUsageAwaitsSaving
      <4>4. state'.keys = [k \in Scopes |-> state'.keys[k]]
            /\ disk'[path].keys = [k \in Scopes |-> disk'[path].keys[k]]
          BY <4>1 DEF Keys
      <4> QED BY <4>3, <4>4
    <3>2. {e \in dropped'[path] : e.id < LastId(log \o all)} = dropped'[path] BY <1>2
    <3> QED BY <1>2, <2>1, <3>1, <3>2
  <2>2. CASE disk'[path] = disk[path] /\ dirty'.events = all
    <3>1. CountsRecords(disk[path].plans, disk[path].keys,
              ToSet(log) \cup {e \in dropped'[path] : e.id < LastId(log)})
        BY <1>1, <1>2 DEF CountsInv, SavedRecords
    <3>2. BornBy(disk[path].keys, recorded')
      <4>1. BornBy(disk[path].keys, recorded) /\ disk[path].keys \in Keys
          BY <1>1 DEF CountsInv, StoreInv, TypeOK, Keys
      <4>2. \A k \in Scopes, w \in WindowIds : Running(disk[path].keys[k], w) =>
              disk[path].keys[k].cycles[w].born \in Nat
          BY <4>1 DEF Keys, Key, Cycle, Running
      <4> QED BY <1>1, <4>1, <4>2 DEF BornBy
    <3> QED BY <2>2, <3>1, <3>2
  <2> QED BY <1>3, <2>1, <2>2
<1>7. ASSUME NEW p \in Paths \ {path}
      PROVE  /\ CountsRecords(disk'[p].plans, disk'[p].keys,
                    ToSet(disk'[p].log) \cup {e \in dropped'[p] : e.id < LastId(disk'[p].log)})
             /\ BornBy(disk'[p].keys, recorded')
             /\ IsFiniteSet(dropped'[p]) /\ \A e \in dropped'[p] : e.id <= recorded'
             /\ \A e \in dropped'[p] : e.id < LastId(disk'[p].log)
  <2>1. disk'[p] = disk[p] /\ dropped'[p] = dropped[p] BY <1>2, <1>3
  <2>2. /\ CountsRecords(disk[p].plans, disk[p].keys,
               ToSet(disk[p].log) \cup {e \in dropped[p] : e.id < LastId(disk[p].log)})
        /\ BornBy(disk[p].keys, recorded)
        /\ IsFiniteSet(dropped[p]) /\ \A e \in dropped[p] : e.id <= recorded
        /\ \A e \in dropped[p] : e.id < LastId(disk[p].log)
      BY DEF CountsInv, SavedRecords
  <2>3. BornBy(disk[p].keys, recorded')
    <3>1. disk[p].keys \in Keys BY DEF StoreInv, TypeOK, Keys
    <3>2. \A k \in Scopes, w \in WindowIds : Running(disk[p].keys[k], w) =>
            disk[p].keys[k].cycles[w].born \in Nat
        BY <3>1 DEF Keys, Key, Cycle, Running
    <3> QED BY <1>1, <2>2, <3>2 DEF BornBy
  <2>4. \A e \in dropped[p] : e.id <= recorded'
    <3>1. \A e \in dropped[p] : e.id \in Nat
      <4>1. dropped[p] \subseteq Event BY DEF StoreInv, TypeOK
      <4> QED BY <4>1 DEF Event
    <3> QED BY <1>1, <2>2, <3>1
  <2> QED BY <2>1, <2>2, <2>3, <2>4
<1>8. \A e \in dropped'[path] : e.id < LastId(disk'[path].log \o dirty'.events) BY <1>2, <1>4
<1> HIDE DEF log
<1>9. \A p \in Paths : /\ CountsRecords(disk'[p].plans, disk'[p].keys,
                             ToSet(disk'[p].log) \cup {e \in dropped'[p] : e.id < LastId(disk'[p].log)})
                       /\ BornBy(disk'[p].keys, recorded')
                       /\ IsFiniteSet(dropped'[p]) /\ \A e \in dropped'[p] : e.id <= recorded'
    BY <1>2, <1>6, <1>7
<1>10. BornBy(state'.keys, recorded') OBVIOUS
<1>11. \A p \in Paths \ {path} : \A e \in dropped'[p] : e.id < LastId(disk'[p].log) BY <1>7
<1> QED BY <1>3, <1>5, <1>8, <1>9, <1>10, <1>11
        DEF CountsInv, WorkingRecords, SavedRecords, BornBy, CountsRecords, LastId

\* Another database is loaded: its keys answer for its records.
LEMMA ConfigureCounts ==
    ASSUME StoreInv, CountsInv, NEW p \in Paths, Configure(p)
    PROVE  CountsInv'
<1>1. /\ disk[p].log \in Seq(Event) /\ path \in Paths
      /\ dropped \in [Paths -> SUBSET Event]
    BY DEF StoreInv, TypeOK
<1>2. /\ disk' = disk /\ recorded' = recorded /\ path' = p
      /\ state'.plans = disk[p].plans /\ state'.keys = disk[p].keys
      /\ dirty'.events = <<>>
    BY DEF Configure, NoChanges
<1>3. /\ dropped'[path] = {e \in dropped[path] : e.id < LastId(disk[path].log)}
      /\ \A q \in Paths \ {path} : dropped'[q] = dropped[q]
    BY <1>1 DEF Configure
<1>4. disk[p].log \o <<>> = disk[p].log BY <1>1, ConcatEmptySeq
<1>5. ASSUME NEW q \in Paths
      PROVE  /\ dropped'[q] = {e \in dropped[q] : e.id < LastId(disk[q].log)}
             /\ IsFiniteSet(dropped'[q])
             /\ \A e \in dropped'[q] : e.id < LastId(disk[q].log) /\ e.id <= recorded
  <2>1. dropped'[q] = {e \in dropped[q] : e.id < LastId(disk[q].log)}
    <3>1. CASE q = path BY <1>3, <3>1
    <3>2. CASE q # path BY <1>3, <3>2 DEF CountsInv
    <3> QED BY <3>1, <3>2
  <2>2. IsFiniteSet(dropped[q]) /\ \A e \in dropped[q] : e.id <= recorded BY DEF CountsInv
  <2>3. dropped'[q] \in SUBSET dropped[q] BY <2>1
  <2> QED BY <2>1, <2>2, <2>3, FS_Subset
<1>6. ASSUME NEW q \in Paths
      PROVE  ToSet(disk[q].log) \cup {e \in dropped'[q] : e.id < LastId(disk[q].log)}
               = SavedRecords(q)
    BY <1>5 DEF SavedRecords
<1>7. ToSet(disk[p].log) \cup dropped'[p] = SavedRecords(p) BY <1>5 DEF SavedRecords
<1>8. \A q \in Paths : CountsRecords(disk[q].plans, disk[q].keys,
         ToSet(disk[q].log) \cup {e \in dropped'[q] : e.id < LastId(disk[q].log)})
    BY <1>6 DEF CountsInv
<1>9. CountsRecords(disk[p].plans, disk[p].keys,
          ToSet(disk[p].log \o <<>>) \cup dropped'[p])
    BY <1>4, <1>7 DEF CountsInv
<1>10. \A q \in Paths : BornBy(disk[q].keys, recorded) BY DEF CountsInv
<1>11. CountsRecords(state'.plans, state'.keys,
           ToSet(disk'[path'].log \o dirty'.events) \cup dropped'[path'])
    BY <1>2, <1>9
<1>12. \A q \in Paths :
          /\ CountsRecords(disk'[q].plans, disk'[q].keys,
                 ToSet(disk'[q].log) \cup {e \in dropped'[q] : e.id < LastId(disk'[q].log)})
          /\ IsFiniteSet(dropped'[q]) /\ \A e \in dropped'[q] : e.id <= recorded'
          /\ BornBy(disk'[q].keys, recorded')
    BY <1>2, <1>5, <1>8, <1>10
<1>13. \A q \in Paths \ {path'} : \A e \in dropped'[q] : e.id < LastId(disk'[q].log)
    BY <1>2, <1>5
<1>14. \A e \in dropped'[path'] : e.id < LastId(disk'[path'].log \o dirty'.events)
    BY <1>2, <1>4, <1>5
<1>15. BornBy(state'.keys, recorded') BY <1>2, <1>10
<1> QED BY <1>11, <1>12, <1>13, <1>14, <1>15
        DEF CountsInv, WorkingRecords, SavedRecords, BornBy, CountsRecords, LastId

LEMMA CountsInvInit == Init => CountsInv
<1> SUFFICES ASSUME Init PROVE CountsInv OBVIOUS
<1>1. \A p \in Paths : dropped[p] = {} BY DEF Init
<1>2. \A k \in Scopes, w \in WindowIds : ~Running(EmptyState.keys[k], w)
    BY DEF EmptyState, NoKey, NoCycles, Running
<1>3. state.keys = EmptyState.keys /\ \A p \in Paths : disk[p].keys = EmptyState.keys
    BY DEF Init, EmptyDatabase
<1>4. path \in Paths BY DEF Init
<1>5. \A plans, R : CountsRecords(plans, EmptyState.keys, R) BY <1>2 DEF CountsRecords
<1>6. BornBy(EmptyState.keys, recorded) BY <1>2 DEF BornBy
<1> HIDE DEF EmptyState
<1> QED BY <1>1, <1>3, <1>4, <1>5, <1>6, FS_EmptySet DEF CountsInv

LEMMA CountsInvStep ==
    ASSUME StoreInv, StoreInv', LogsNumbered, CountsInv, [Next]_vars
    PROVE  CountsInv'
<1>1. /\ recorded \in Nat /\ path \in Paths /\ dirty.events \in Seq(Event)
      /\ disk[path].log \in Seq(Event) /\ dropped \in [Paths -> SUBSET Event]
    BY DEF StoreInv, TypeOK
<1>2. /\ WorkingRecords \in SUBSET Event /\ IsFiniteSet(WorkingRecords)
      /\ \A e \in WorkingRecords : e.id <= recorded
  <2> DEFINE all == disk[path].log \o dirty.events
  <2>1. all \in Seq(Event) BY <1>1, ConcatProperties
  <2>2. Numbered(all, <<>>, recorded) BY <1>1, NumberedWritten DEF LogsNumbered
  <2> HIDE DEF all
  <2>3. /\ IsFiniteSet(ToSet(all)) /\ ToSet(all) \subseteq Event
        /\ ToSet(all) = {all[i] : i \in 1..Len(all)}
      BY <2>1, ToSetProperties
  <2>4. \A e \in ToSet(all) : e.id <= recorded BY <2>2, <2>3 DEF Numbered
  <2>5. IsFiniteSet(dropped[path]) /\ dropped[path] \subseteq Event
        /\ \A e \in dropped[path] : e.id <= recorded
      BY <1>1 DEF CountsInv
  <2>6. WorkingRecords = ToSet(all) \cup dropped[path] BY DEF WorkingRecords, all
  <2> QED BY <2>3, <2>4, <2>5, <2>6, FS_Union
<1>3. /\ CountsRecords(state.plans, state.keys, WorkingRecords)
      /\ BornBy(state.keys, recorded)
    BY DEF CountsInv
<1>4. ASSUME NEW ok \in SaveAnswers, Traffic(ok) \/ Manage(ok), recorded' = recorded, CyclesStay
      PROVE  CountsInv'
  <2>1. PICK new \in Seq(Event) : RecordsMove(new) BY <1>4, OperationsMoveRecords
  <2>2. new = <<>> BY <1>1, <1>4, <2>1 DEF RecordsMove
  <2>3. WorkingRecords \cup ToSet(new) = WorkingRecords BY <2>2, EmptySeq DEF ToSet
  <2>4. /\ CountsRecords(state'.plans, state'.keys, WorkingRecords)
        /\ BornBy(state'.keys, recorded')
      BY <1>1, <1>2, <1>3, <1>4, CyclesStayCounts
  <2> QED BY <2>1, <2>3, <2>4, WriteCounts
<1>5. ASSUME NEW ok \in SaveAnswers, Traffic(ok)
      PROVE  CountsInv'
  <2>1. ok \in BOOLEAN BY BillingAssumption
  <2>2. ASSUME NEW k \in Scopes, NEW m \in Models, NEW at \in Nat \cup {NoTime},
               NEW failed \in BOOLEAN, RecordUsage(k, m, at, failed, ok)
        PROVE  CountsInv'
    <3> DEFINE event == [id |-> recorded + 1, scope |-> k, model |-> m, at |-> at,
                         failed |-> failed]
               new == <<event>>
    <3>1. event \in Event /\ RecordsMove(<<event>>) BY <2>1, <2>2, RecordUsageMoves
    <3>2. /\ CountsRecords(state'.plans, state'.keys, WorkingRecords \cup {event})
          /\ BornBy(state'.keys, recorded + 1)
        BY <1>2, <1>3, <2>1, <2>2, RecordUsageCounts
    <3>3. recorded' = recorded + 1 BY <2>2 DEF RecordUsage
    <3> HIDE DEF event
    <3>4. new \in Seq(Event) /\ ToSet(new) = {event}
      <4>1. new \in Seq(Event) /\ Len(new) = 1 /\ new[1] = event BY <3>1
      <4> HIDE DEF new
      <4>2. ToSet(new) = {new[i] : i \in 1..1} BY <4>1, ToSetProperties
      <4> QED BY <4>1, <4>2
    <3> HIDE DEF new
    <3>5. RecordsMove(new) BY <3>1 DEF new
    <3> QED BY <3>2, <3>3, <3>4, <3>5, WriteCounts
  <2>3. ASSUME NEW k \in Scopes, NEW m, AuthorizeModel(k, m, ok) PROVE CountsInv'
    <3>1. recorded' = recorded BY <2>3 DEF AuthorizeModel, historyVars
    <3> QED BY <1>4, <1>5, <2>3, <3>1, AuthorizeModelStays
  <2>4. ASSUME NEW S \in SUBSET Scopes, SettleViews(S, ok) PROVE CountsInv'
    <3>1. recorded' = recorded BY <2>4 DEF SettleViews, historyVars
    <3> QED BY <1>4, <1>5, <2>4, <3>1, SettleViewsStays
  <2>5. 0..now \cup {NoTime} \subseteq Nat \cup {NoTime} BY DEF StoreInv, TypeOK
  <2> QED BY <1>5, <2>2, <2>3, <2>4, <2>5 DEF Traffic
<1>6. ASSUME NEW ok \in SaveAnswers, Manage(ok)
      PROVE  CountsInv'
  <2>1. ASSUME NEW k \in Scopes, UnbindKey(k, ok) PROVE CyclesStay /\ recorded' = recorded
    <3> DEFINE bound == k \in Live(state) /\ state.keys[k].plan # NoPlan
               changes == IF bound THEN KeysChanged({k}) ELSE NoChanges
    <3>1. /\ Edit(IF bound THEN WithKey(state, k, Unbound(state.keys[k])) ELSE state, changes, ok)
          /\ recorded' = recorded
        BY <2>1 DEF UnbindKey, Forgive
    <3> HIDE DEF bound, changes
    <3>2. \/ Edit(WithKey(state, k, Bound(state.keys[k], NoPlan)), changes, ok)
          \/ Edit(state, changes, ok)
        BY <3>1 DEF Unbound
    <3> QED BY <3>1, <3>2, EditKeyStays
  <2>2. ASSUME NEW k \in Scopes, NEW p \in PlanIds, BindKey(k, p, ok)
        PROVE  CyclesStay /\ recorded' = recorded
    <3> DEFINE same == state.keys[k].plan = p
               changes == IF same THEN NoChanges ELSE KeysChanged({k})
    <3>1. /\ Edit(IF same THEN state ELSE WithKey(state, k, Bound(state.keys[k], p)), changes, ok)
          /\ recorded' = recorded
        BY <2>2 DEF BindKey, Forgive
    <3> HIDE DEF same, changes
    <3>2. \/ Edit(WithKey(state, k, Bound(state.keys[k], p)), changes, ok)
          \/ Edit(state, changes, ok)
        BY <3>1
    <3> QED BY <3>1, <3>2, EditKeyStays
  <2>3. ASSUME NEW S \in SUBSET Scopes, ResetQuota(S, ok) \/ SyncKeys(S, ok)
        PROVE  CyclesStay /\ recorded' = recorded
    <3>1. recorded' = recorded BY <2>3 DEF ResetQuota, SyncKeys, Forgive, historyVars
    <3> QED BY <2>3, <3>1, ResetQuotaStays, SyncKeysStays
  <2>4. ASSUME NEW p \in PlanIds, NEW S \in SUBSET Scopes, NEW plan,
               CreatePlan(p, plan, S, ok) \/ UpdatePlan(p, plan, S, ok) \/ DeletePlan(p, ok)
        PROVE  CyclesStay /\ recorded' = recorded
    <3>1. recorded' = recorded
      <4>1. CASE CreatePlan(p, plan, S, ok) BY <4>1 DEF CreatePlan, Forgive
      <4>2. CASE UpdatePlan(p, plan, S, ok) BY <4>2 DEF UpdatePlan, Forgive
      <4>3. CASE DeletePlan(p, ok) BY <4>3 DEF DeletePlan, Forgive
      <4> QED BY <2>4, <4>1, <4>2, <4>3
    <3> QED BY <2>4, <3>1, PlanEditsStay
  <2>5. {} \in SUBSET Scopes OBVIOUS
  <2>6. CyclesStay /\ recorded' = recorded
      BY <1>6, <2>1, <2>2, <2>3, <2>4, <2>5 DEF Manage
  <2> QED BY <1>4, <1>6, <2>6
<1>7. CASE \E p \in Paths : Configure(p) BY <1>7, ConfigureCounts
<1>8. CASE Tick \/ UNCHANGED vars
  <2>1. UNCHANGED <<state, disk, path, dirty, recorded, dropped>>
      BY <1>8 DEF Tick, vars, storeVars, historyVars
  <2>2. WorkingRecords' = WorkingRecords BY <2>1 DEF WorkingRecords
  <2>3. ASSUME NEW p \in Paths PROVE SavedRecords(p)' = SavedRecords(p)
      BY <2>1 DEF SavedRecords
  <2> QED BY <2>1, <2>2, <2>3 DEF CountsInv
<1> QED BY <1>5, <1>6, <1>7, <1>8 DEF Next

\* The heart of metering: a cycle has used exactly as many of its models' requests as the
\* request log and the queue say, in memory and in every database, whatever saves fail,
\* whatever is edited and however late usage is reported (chargeCycles, updateResult).
THEOREM CyclesAreCounted == Spec => []CyclesCountTheirRecords
<1>1. Init => CountsInv BY CountsInvInit
<1>2. StoreInv /\ StoreInv' /\ LogsNumbered /\ CountsInv /\ [Next]_vars => CountsInv'
    BY CountsInvStep
<1>3. CountsInv => CyclesCountTheirRecords
  <2> SUFFICES ASSUME CountsInv PROVE CyclesCountTheirRecords OBVIOUS
  <2> QED BY DEF CountsInv, CyclesCountTheirRecords, WorkingRecords, SavedRecords
<1> QED BY <1>1, <1>2, <1>3, LogsNumberedHolds, PTL DEF Spec
=============================================================================
