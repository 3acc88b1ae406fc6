-------------------------------- MODULE Probe --------------------------------
(* Turn State probing (turnstate/probe.go, probe_budget.go, renewal.go, berserk.go,
   proxy_pruning.go): which bucket is probed next through which exit, what an attempt
   reserves before it is sent, and what its answer changes. A bucket is an account and a
   model. Every deadline of the code is a countdown here, and 0 is a deadline that has
   passed; a template is the time left until it expires. *)
EXTENDS Integers, FiniteSets, SequencesExt

CONSTANTS
    Slots,          \* probes that can be in flight at once
    Accounts, ProbeModels, Exits,
    Rotating,       \* the exits of the rotating pool; the others are static
    Direct, NoExit, NoBucket, NoProbe,
    ProbeSettings,  \* saved settings a run starts from
    Hour,           \* the rolling window of the budget
    Pacing,         \* the ordinary request interval, 2 s
    RefreshRoundLimit,  \* refresh rounds try at most 25 exits
    MaxUsage,       \* maxProbeUsageCount, where counts saturate; no limit is above it
    MaxStops        \* bound: restarts

VARIABLES
    cfg,                        \* Config, but for the pool
    pool, cursor,               \* the explicit exits, and the next one to use
    left, exitOf,               \* templates: time left, exit that harvested them
    refreshIn, tried,           \* RefreshAt and RefreshTried
    rest, savedRest,            \* account cooldowns, in memory and saved
    exitRest, budget,           \* cooldowns of exits, rotating budgets
    usage,                      \* ProbeUsage: reservations by age
    lastMissing, lastRenew, renewalBurst,
    probe,                      \* probes in flight
    stops,
    sent, refusedFor            \* history: what was sent by age; pauses refusals ask for

probeVars == <<cfg, pool, cursor, left, exitOf, refreshIn, tried, rest, savedRest, exitRest,
               budget, usage, lastMissing, lastRenew, renewalBurst, probe, stops, sent, refusedFor>>

Buckets == Accounts \X ProbeModels
AnyExit == Exits \cup {Direct}
NoRest == [until |-> 0, pacing |-> 0]
NoExitRest == [until |-> 0, renewal |-> FALSE]
NoBudget == [until |-> 0, attempts |-> 0, renewal |-> FALSE]
Never == -1     \* no cookie refresh is scheduled
(* The buckets of the settings, and their order: the models of each account in turn. *)
Scope == ToSet(cfg.accounts) \X ToSet(cfg.models)
Rank(s, e) == CHOOSE i \in DOMAIN s : s[i] = e
Place(b) == Rank(cfg.accounts, b[1]) * Len(cfg.models) + Rank(cfg.models, b[2])
Larger(a, b) == IF a > b THEN a ELSE b
Smaller(a, b) == IF a < b THEN a ELSE b

Outcomes == {"disconnected", "failed", "credential", "blocked", "refused", "degraded", "discarded", "unchanged", "harvested"}

(* Config, as far as probes read it; learns, operated and outcomes say what may happen to it. *)
ProbeConfig ==
    [accounts : Seq(Accounts), models : Seq(ProbeModels), pool : Seq(Exits), ttl : Nat, lead : Nat, refresh : Nat,
     retry : Nat, accountPause : Nat, staticPause : Nat, rotatingPause : Nat, maxAttempts : Nat, limit : Nat,
     parallel : Nat, berserk : Nat, berserkParallel : Nat, dropFailed : BOOLEAN, dropDegraded : BOOLEAN,
     minProxies : Nat, learns : BOOLEAN, operated : BOOLEAN, outcomes : SUBSET Outcomes]

ASSUME ProbeAssumption ==
    /\ IsFiniteSet(Slots) /\ IsFiniteSet(Accounts) /\ IsFiniteSet(ProbeModels) /\ IsFiniteSet(Exits)
    /\ Rotating \subseteq Exits /\ Direct \notin Exits /\ NoExit \notin AnyExit
    /\ ProbeSettings \subseteq {c \in ProbeConfig : c.limit <= MaxUsage}
    /\ Hour \in Nat \ {0} /\ Pacing \in Nat \ {0} /\ RefreshRoundLimit \in Nat
    /\ MaxUsage \in Nat /\ MaxStops \in Nat
-----------------------------------------------------------------------------
(* The state of a bucket. *)

Usable(b) == left[b] > 0
RefreshesCookies(b) == cfg.refresh > 0 /\ b[2] = cfg.models[1]
RenewIn(t) == Larger(0, t - cfg.lead)
RenewDue(b) == left[b] <= cfg.lead
RefreshDue(b) == RefreshesCookies(b) /\ refreshIn[b] = 0
RefreshOnly(b) == Usable(b) /\ ~RenewDue(b) /\ RefreshDue(b)
Fresh(b) == Usable(b) /\ ~RenewDue(b) /\ ~RefreshDue(b)
InBerserkWindow(b) == cfg.berserk > 0 /\ left[b] <= cfg.berserk

(* bucketRenewAt for a template with this much time and this refresh left. *)
DueIn(b, time, refresh) ==
    IF RefreshesCookies(b) /\ refresh # Never THEN Smaller(refresh, RenewIn(time)) ELSE RenewIn(time)

InFlight == {s \in Slots : probe[s] # NoProbe}
AccountBusy(a) == \E s \in InFlight : probe[s].bucket[1] = a
(* Only the renewal of a bucket in its berserk window runs several probes at once. *)
BucketHeldBack(b) == (\E s \in InFlight : probe[s].bucket = b) /\ ~InBerserkWindow(b)   \* looks at the bucket only
HeldBack(b) == AccountBusy(b[1]) /\ ~(Usable(b) /\ ~RefreshOnly(b) /\ InBerserkWindow(b))

PauseLeft(a) == IF cfg.accountPause = 0 THEN rest[a].pacing ELSE rest[a].until

ProbeConcurrency ==
    IF \E b \in Scope : Usable(b) /\ InBerserkWindow(b) THEN cfg.berserkParallel ELSE cfg.parallel
-----------------------------------------------------------------------------
(* Exits. An intentionally empty pool is the direct exit. *)

ExitPool == IF pool = <<>> THEN <<Direct>> ELSE pool
From(index) == [i \in 1..Len(ExitPool) |-> ExitPool[((index + i - 2) % Len(ExitPool)) + 1]]
CursorAfter(index) == IF pool = <<>> THEN 1 ELSE (index % Len(pool)) + 1

(* Where the cursor points once an exit was removed: the next surviving exit in the
   old cyclic order. *)
CursorWithout(x) ==
    LET survivors == SelectSeq(From(cursor), LAMBDA y : y # x)
    IN CHOOSE i \in 1..Len(pool) - 1 : Remove(pool, x)[i] = survivors[1]

Exhausted(limit, b) == limit > 0 /\ budget[b].until > 0 /\ budget[b].attempts >= limit
AttemptLimit == IF cfg.rotatingPause = 0 THEN 0 ELSE cfg.maxAttempts
ExitCooling(x, resting) ==
    /\ resting.until > 0
    /\ resting.renewal \/ (x \notin Rotating /\ cfg.staticPause > 0)
ExitOpen(b, x, resting) == ~(x \in Rotating /\ Exhausted(AttemptLimit, b)) /\ ~ExitCooling(x, resting)

(* The exit that harvested the template first, then from the cursor on. *)
ScanOrder(b) ==
    LET rotation == From(cursor)
    IN IF Usable(b) /\ Contains(rotation, exitOf[b])
       THEN <<exitOf[b]>> \o Remove(rotation, exitOf[b]) ELSE rotation

(* A refresh round tries each exit once, and starts over rather than stall. *)
OpenExits(b) == SelectSeq(ScanOrder(b), LAMBDA x : ExitOpen(b, x, exitRest[b][x]))
ChosenExit(b) ==
    LET untried == SelectSeq(OpenExits(b), LAMBDA x : ~(RefreshOnly(b) /\ x \in tried[b]))
    IN IF untried # <<>> THEN Head(untried) ELSE Head(OpenExits(b))
-----------------------------------------------------------------------------
(* selectProbeLocked, for a scope of buckets: those of the accounts the host lists, or the
   one an operator named. *)

Ready(b) == ~Fresh(b) /\ ~HeldBack(b) /\ PauseLeft(b[1]) = 0 /\ OpenExits(b) # <<>>
ReadyBuckets(scope) == {b \in scope \cap Scope : Ready(b)}

IsMissing(b) == ~Usable(b)
IsRenewing(b) == Usable(b) /\ ~RefreshOnly(b)

(* The next of a class after its cursor, in the order of the settings. *)
First(class) == CHOOSE b \in class : \A c \in class : Place(b) <= Place(c)
NextAfter(last, class) ==
    LET later == {b \in class : last # NoBucket /\ Place(b) > Place(last)}
    IN IF later # {} THEN First(later) ELSE First(class)

(* Renewals come first, but no more than three in a row while a first probe waits. *)
RenewalsAlways(renewing, missing) == renewing # {}    \* without the counter
RenewalsFirst(renewing, missing) == renewing # {} /\ (missing = {} \/ renewalBurst < 3)

Selectable(scope) == ReadyBuckets(scope) # {}
Selected(scope) ==
    LET renewing == {b \in ReadyBuckets(scope) : IsRenewing(b)}
        missing == {b \in ReadyBuckets(scope) : IsMissing(b)}
        refreshes == {b \in ReadyBuckets(scope) : RefreshOnly(b)}
    IN IF RenewalsFirst(renewing, missing) THEN NextAfter(lastRenew, renewing)
       ELSE IF missing # {} THEN NextAfter(lastMissing, missing)
       ELSE NextAfter(lastRenew, refreshes)
-----------------------------------------------------------------------------
(* probeBudget: the reservations of the rolling hour. *)

Total(ages) == Cardinality({r \in (DOMAIN ages) \X (1..MaxUsage) : r[2] <= ages[r[1]]})
SpentNow(ages) == ages[0]      \* forgets all but the last instant
Spent(ages) == Total(ages)
BudgetExhausted == cfg.limit > 0 /\ Spent(usage) >= cfg.limit
Reserved(ages) == [ages EXCEPT ![0] = Smaller(MaxUsage, @ + 1)]
Aged(ages) == [age \in DOMAIN ages |-> IF age = 0 THEN 0 ELSE ages[age - 1]]

(* The budget of the rotating pool that an attempt of the bucket is charged to. *)
ChargedBudget(b) ==
    LET open == IF budget[b].until = 0 /\ cfg.rotatingPause > 0
                THEN [NoBudget EXCEPT !.until = cfg.rotatingPause] ELSE budget[b]
    IN [open EXCEPT !.attempts = @ + 1]

RestsAfterReserving(b, x, refresh) ==
    CASE x \in Rotating /\ ChargedBudget(b).until > 0 ->
           [exitRest EXCEPT ![b][x] = [until |-> ChargedBudget(b).until, renewal |-> FALSE]]
      [] x \notin Rotating /\ cfg.staticPause > 0 /\ ~refresh ->
           [exitRest EXCEPT ![b][x] = [until |-> cfg.staticPause, renewal |-> FALSE]]
      [] OTHER -> exitRest

(* An attempt is reserved and saved, with the next exit, before it is sent. Where that
   cannot be saved nothing is sent, and nothing changes. *)
Reserve(s, scope, limit) ==
    /\ Cardinality(InFlight) < limit
    /\ probe[s] = NoProbe
    /\ Selectable(scope)
    /\ ~BudgetExhausted
    /\ LET b == Selected(scope)
           x == ChosenExit(b)
           refresh == RefreshOnly(b)
       IN /\ usage' = Reserved(usage)
          /\ budget' = IF x \in Rotating /\ ChargedBudget(b).until > 0
                       THEN [budget EXCEPT ![b] = ChargedBudget(b)] ELSE budget
          /\ exitRest' = RestsAfterReserving(b, x, refresh)
          /\ cursor' = CursorAfter(CHOOSE i \in 1..Len(ExitPool) : ExitPool[i] = x)
          /\ savedRest' = rest
          /\ lastRenew' = IF Usable(b) THEN b ELSE lastRenew
          /\ lastMissing' = IF Usable(b) THEN lastMissing ELSE b
          /\ renewalBurst' = CASE refresh -> renewalBurst
                               [] Usable(b) /\ ~refresh -> Smaller(3, renewalBurst + 1)
                               [] OTHER -> 0
          /\ probe' = [probe EXCEPT ![s] = [bucket |-> b, exit |-> x, refresh |-> refresh]]
          /\ sent' = Reserved(sent)
    /\ UNCHANGED <<cfg, pool, left, exitOf, refreshIn, tried, rest, stops, refusedFor>>
-----------------------------------------------------------------------------
(* finishProbe. *)

(* What an answer makes of the bucket's template and its refresh round. *)
Served(p, outcome) ==
    \/ outcome = "harvested"
    \/ outcome = "unchanged" /\ RefreshesCookies(p.bucket)

RoundTried(b, x) == IF x \in tried[b] THEN {x} ELSE tried[b] \cup {x}

ExitFault(outcome, proxyFault) == outcome = "blocked" \/ proxyFault \/ outcome = "disconnected"
RestsAfterFault(p, outcome, proxyFault) ==
    IF ExitFault(outcome, proxyFault) /\ p.exit \notin Rotating /\ cfg.staticPause > 0
    THEN [exitRest EXCEPT ![p.bucket][p.exit] = [until |-> cfg.staticPause, renewal |-> FALSE]]
    ELSE exitRest

Pause(outcome) ==
    IF outcome \in {"credential", "refused"} THEN Larger(cfg.accountPause, Pacing) ELSE Pacing

PacedAccount(a, outcome) == [rest EXCEPT ![a] = [until |-> Pacing, pacing |-> Pacing]]  \* whatever the answer
PausedAccount(a, outcome) == [rest EXCEPT ![a] = [until |-> Pause(outcome), pacing |-> Pacing]]

(* discardProbeProxy: only a listed exit, never the last or below the minimum, and never
   for the degraded answer of a refresh. *)
Removes(p, outcome, proxyFault) ==
    /\ p.exit \in Exits /\ Contains(pool, p.exit)
    /\ \/ cfg.dropFailed /\ proxyFault
       \/ cfg.dropDegraded /\ outcome = "degraded" /\ ~p.refresh
    /\ Len(pool) > Larger(1, cfg.minProxies)

(* A refresh round goes on at once while it has an exit it has not tried, and otherwise
   waits for the next. pool1 and rests are those after the answer. *)
RoundGoesOn(p, pool1, rests) ==
    LET b == p.bucket
        now == RoundTried(b, p.exit)
        exits == IF pool1 = <<>> THEN {Direct} ELSE ToSet(pool1)
    IN /\ Cardinality(now) < Smaller(RefreshRoundLimit, Larger(1, Len(pool1)))
       /\ \E x \in exits \ now : ExitOpen(b, x, rests[b][x])

Answer(s, outcome, proxyFault) ==
    LET p == probe[s]
        b == p.bucket
        removed == Removes(p, outcome, proxyFault)
        pool1 == IF removed THEN Remove(pool, p.exit) ELSE pool
        served == Served(p, outcome)
        failedRound == p.refresh /\ ~served
        rests == IF failedRound THEN RestsAfterFault(p, outcome, proxyFault) ELSE exitRest
        time == IF outcome = "harvested" THEN cfg.ttl ELSE left[b]
        scheduled == IF served /\ RefreshesCookies(b) THEN cfg.refresh ELSE Never
        due == DueIn(b, time, scheduled)
    IN /\ left' = [left EXCEPT ![b] = time]
       /\ exitOf' = IF served THEN [exitOf EXCEPT ![b] = p.exit] ELSE exitOf
       /\ pool' = pool1
       /\ cursor' = IF removed THEN CursorWithout(p.exit) ELSE cursor
       /\ exitRest' = IF served /\ due > 0
                      THEN [exitRest EXCEPT ![b][p.exit] = [until |-> due, renewal |-> TRUE]]
                      ELSE IF served THEN [exitRest EXCEPT ![b][p.exit] = NoExitRest] ELSE rests
       /\ budget' = IF served /\ p.exit \in Rotating
                    THEN [budget EXCEPT ![b] = IF due > 0 THEN [until |-> due, attempts |-> 0, renewal |-> TRUE]
                                               ELSE NoBudget]
                    ELSE budget
       /\ refreshIn' = CASE served -> [refreshIn EXCEPT ![b] = scheduled]
                         [] failedRound /\ Usable(b) ->
                              [refreshIn EXCEPT ![b] = CASE ~RefreshesCookies(b) -> Never
                                                         [] RefreshesCookies(b) /\ RoundGoesOn(p, pool1, rests) -> 0
                                                         [] OTHER -> cfg.retry]
                         [] ~served /\ ~p.refresh /\ RefreshDue(b) -> [refreshIn EXCEPT ![b] = Never]
                         [] OTHER -> refreshIn
       /\ tried' = CASE failedRound /\ Usable(b) /\ RefreshesCookies(b) /\ RoundGoesOn(p, pool1, rests) ->
                          [tried EXCEPT ![b] = RoundTried(b, p.exit)]
                     [] served \/ failedRound \/ RefreshDue(b) -> [tried EXCEPT ![b] = {}]
                     [] OTHER -> tried
       /\ rest' = PausedAccount(b[1], outcome)
       /\ savedRest' = rest'
-----------------------------------------------------------------------------
Finish(s, outcome, proxyFault) ==
    /\ probe[s] # NoProbe
    /\ outcome = "unchanged" => Usable(probe[s].bucket)
    /\ proxyFault => outcome \in {"disconnected", "failed"}
    /\ Answer(s, outcome, proxyFault)
    /\ probe' = [probe EXCEPT ![s] = NoProbe]
    /\ refusedFor' = IF outcome = "refused" THEN [refusedFor EXCEPT ![probe[s].bucket[1]] = cfg.accountPause]
                     ELSE refusedFor
    /\ UNCHANGED <<cfg, usage, lastMissing, lastRenew, renewalBurst, stops, sent>>

(* An answer that cannot be saved changes nothing, but a refusal still pauses the account,
   in memory. *)
FinishUnsaved(s, outcome) ==
    /\ probe[s] # NoProbe
    /\ outcome \in {"refused", "failed"}
    /\ LET a == probe[s].bucket[1]
       IN /\ rest' = IF outcome = "refused"
                     THEN [rest EXCEPT ![a] = [until |-> Larger(Pause(outcome), @.until), pacing |-> Pacing]]
                     ELSE rest
          /\ refusedFor' = IF outcome = "refused" THEN [refusedFor EXCEPT ![a] = cfg.accountPause] ELSE refusedFor
    /\ probe' = [probe EXCEPT ![s] = NoProbe]
    /\ UNCHANGED <<cfg, pool, cursor, left, exitOf, refreshIn, tried, savedRest, exitRest, budget,
                   usage, lastMissing, lastRenew, renewalBurst, stops, sent>>
-----------------------------------------------------------------------------
(* Traffic, the operator, time. *)

(* A business response brought a newer template (learn); no exit goes with it, and it keeps
   the refresh round of the one it replaces. *)
Learn(b) ==
    /\ left[b] < cfg.ttl
    /\ left' = [left EXCEPT ![b] = cfg.ttl]
    /\ exitOf' = [exitOf EXCEPT ![b] = NoExit]
    /\ UNCHANGED <<cfg, pool, cursor, refreshIn, tried, rest, savedRest, exitRest, budget, usage,
                   lastMissing, lastRenew, renewalBurst, probe, stops, sent, refusedFor>>

(* Clears failure cooldowns, those of one bucket or all, and waits for probes under way. *)
ClearCooldowns(scope) ==
    /\ InFlight = {}
    /\ LET accounts == {b[1] : b \in scope}
       IN /\ rest' = [a \in Accounts |-> IF a \in accounts THEN NoRest ELSE rest[a]]
          /\ refusedFor' = [a \in Accounts |-> IF a \in accounts THEN 0 ELSE refusedFor[a]]
    /\ savedRest' = rest'
    /\ exitRest' = [b \in Buckets |-> [x \in AnyExit |->
                      IF b \in scope /\ ~exitRest[b][x].renewal THEN NoExitRest ELSE exitRest[b][x]]]
    /\ budget' = [b \in Buckets |-> IF b \in scope /\ ~budget[b].renewal THEN NoBudget ELSE budget[b]]
    /\ UNCHANGED <<cfg, pool, cursor, left, exitOf, refreshIn, tried, usage, lastMissing, lastRenew,
                   renewalBurst, probe, stops, sent>>

(* PersistLearned, of every heartbeat: saves a pause that is in memory only. *)
PersistPauses ==
    /\ savedRest # rest
    /\ savedRest' = rest
    /\ UNCHANGED <<cfg, pool, cursor, left, exitOf, refreshIn, tried, rest, exitRest, budget, usage,
                   lastMissing, lastRenew, renewalBurst, probe, stops, sent, refusedFor>>

(* What was sent is neither answered nor taken back. *)
StopProbing ==
    /\ stops < MaxStops
    /\ stops' = stops + 1
    /\ probe' = [s \in Slots |-> NoProbe]
    /\ rest' = savedRest
    /\ refusedFor' = [a \in Accounts |-> Smaller(refusedFor[a], savedRest[a].until)]
    /\ lastMissing' = NoBucket /\ lastRenew' = NoBucket /\ renewalBurst' = 0
    /\ UNCHANGED <<cfg, pool, cursor, left, exitOf, refreshIn, tried, savedRest, exitRest, budget, usage, sent>>

Sooner(n) == IF n <= 0 THEN n ELSE n - 1
RestSooner(r) == [until |-> Sooner(r.until), pacing |-> Sooner(r.pacing)]
ExitRestSooner(r) == IF r.until <= 1 THEN NoExitRest ELSE [r EXCEPT !.until = @ - 1]
BudgetSooner(r) == IF r.until <= 1 THEN NoBudget ELSE [r EXCEPT !.until = @ - 1]

(* A template that expires takes its exit and its refresh round with it. *)
ProbeTime ==
    /\ left' = [b \in Buckets |-> Sooner(left[b])]
    /\ exitOf' = [b \in Buckets |-> IF left[b] <= 1 THEN NoExit ELSE exitOf[b]]
    /\ refreshIn' = [b \in Buckets |-> IF left[b] <= 1 THEN Never ELSE Sooner(refreshIn[b])]
    /\ tried' = [b \in Buckets |-> IF left[b] <= 1 THEN {} ELSE tried[b]]
    /\ rest' = [a \in Accounts |-> RestSooner(rest[a])]
    /\ savedRest' = [a \in Accounts |-> RestSooner(savedRest[a])]
    /\ exitRest' = [b \in Buckets |-> [x \in AnyExit |-> ExitRestSooner(exitRest[b][x])]]
    /\ budget' = [b \in Buckets |-> BudgetSooner(budget[b])]
    /\ usage' = Aged(usage) /\ sent' = Aged(sent)
    /\ refusedFor' = [a \in Accounts |-> Sooner(refusedFor[a])]
    /\ UNCHANGED <<cfg, pool, cursor, lastMissing, lastRenew, renewalBurst, probe, stops>>
-----------------------------------------------------------------------------
ProbeInit ==
    /\ cfg \in ProbeSettings
    /\ pool = cfg.pool /\ cursor = 1
    /\ left = [b \in Buckets |-> 0] /\ exitOf = [b \in Buckets |-> NoExit]
    /\ refreshIn = [b \in Buckets |-> Never] /\ tried = [b \in Buckets |-> {}]
    /\ rest = [a \in Accounts |-> NoRest] /\ savedRest = rest
    /\ exitRest = [b \in Buckets |-> [x \in AnyExit |-> NoExitRest]]
    /\ budget = [b \in Buckets |-> NoBudget]
    /\ usage = [age \in 0..Hour - 1 |-> 0] /\ sent = usage
    /\ lastMissing = NoBucket /\ lastRenew = NoBucket /\ renewalBurst = 0
    /\ probe = [s \in Slots |-> NoProbe]
    /\ stops = 0 /\ refusedFor = [a \in Accounts |-> 0]

UsageScopes == {Scope} \cup {{b} : b \in Scope}
ReserveNext(s) == Reserve(s, Scope, ProbeConcurrency)
FinishNext(s) == \E outcome \in cfg.outcomes, proxyFault \in BOOLEAN : Finish(s, outcome, proxyFault)

CollectorNext ==
    \/ \E s \in Slots : ReserveNext(s) \/ FinishNext(s)
    \/ \E s \in Slots, outcome \in cfg.outcomes : FinishUnsaved(s, outcome)
    \/ \E b \in Scope : cfg.learns /\ Learn(b)
    \/ PersistPauses \/ StopProbing \/ ProbeTime

(* The operator probes by hand, one probe at a time, and clears cooldowns. *)
OperatorNext ==
    \/ \E s \in Slots, scope \in UsageScopes : Reserve(s, scope, 1)
    \/ \E scope \in UsageScopes : ClearCooldowns(scope)

ProbeNext == CollectorNext \/ (cfg.operated /\ OperatorNext)

ProbeSpec == ProbeInit /\ [][ProbeNext]_probeVars

(* Probes have deadlines, the clock runs, and the runner asks for the next probe whenever
   one may be sent. *)
ProbeFairness ==
    /\ WF_probeVars(ProbeTime)
    /\ \A s \in Slots : WF_probeVars(FinishNext(s))
    /\ WF_probeVars(\E s \in Slots : ReserveNext(s))
FairProbeSpec == ProbeSpec /\ ProbeFairness
-----------------------------------------------------------------------------
ProbeTypeOK ==
    /\ cfg \in ProbeSettings
    /\ ToSet(pool) \subseteq Exits /\ cursor \in 1..Larger(1, Len(pool))
    /\ left \in [Buckets -> 0..cfg.ttl] /\ exitOf \in [Buckets -> AnyExit \cup {NoExit}]
    /\ refreshIn \in [Buckets -> Int] /\ tried \in [Buckets -> SUBSET AnyExit]
    /\ rest \in [Accounts -> [until : Nat, pacing : 0..Pacing]]
    /\ savedRest \in [Accounts -> [until : Nat, pacing : 0..Pacing]]
    /\ exitRest \in [Buckets -> [AnyExit -> [until : Nat, renewal : BOOLEAN]]]
    /\ budget \in [Buckets -> [until : Nat, attempts : Nat, renewal : BOOLEAN]]
    /\ usage \in [0..Hour - 1 -> 0..MaxUsage]
    /\ {lastMissing, lastRenew} \subseteq Buckets \cup {NoBucket} /\ renewalBurst \in 0..3
    /\ probe \in [Slots -> [bucket : Buckets, exit : AnyExit, refresh : BOOLEAN] \cup {NoProbe}]

(* However many probes run side by side, fail or are cut off by a restart, no hour sees
   more of them than its budget (probe_budget.go, probe.go:301-302). *)
BudgetKept == cfg.limit > 0 => Total(sent) <= cfg.limit

(* Outside berserk renewal an account runs one probe at a time (probe.go:226). *)
OneProbePerAccount ==
    \A s, u \in InFlight : probe[s].bucket[1] = probe[u].bucket[1] => s = u \/ cfg.berserk > 0

(* Both limits on what is sent: the operator's by the hour and the one by account. *)
ProbesStayWithinLimits == BudgetKept /\ OneProbePerAccount

(* Once the upstream refused an account, nothing is sent for any of its models, through any
   exit, until the pause is over (probe.go:677), outside berserk renewal. *)
Sends(s) == probe[s] = NoProbe /\ probe'[s] # NoProbe
RefusalsPause ==
    [][\A s \in Slots : Sends(s) /\ cfg.berserk = 0 => refusedFor[probe'[s].bucket[1]] = 0]_probeVars

(* No bucket that is due for a first probe or a renewal is passed over for ever, although
   both kinds compete for the same slots and budget (probe.go:598-600): while the operator
   does not spend the budget by hand, and every account has one model. *)
Waiting(b) == Ready(b) /\ ~RefreshOnly(b)
EachInTurn(b) == []<>(b \in Scope /\ Waiting(b)) => []<>(\E s \in InFlight : probe[s].bucket = b)
NoBucketStarves == ~cfg.operated /\ Len(cfg.models) = 1 => \A b \in Buckets : EachInTurn(b)

(* "Within each class every bucket gets one attempt before an earlier bucket gets another"
   (probe.go:598-600), for accounts with several models too: false where parallel probes
   take turns, as a bucket whose account is busy or paused loses its turn. *)
EveryBucketGetsItsTurn == ~cfg.operated => \A b \in Buckets : EachInTurn(b)
=============================================================================
