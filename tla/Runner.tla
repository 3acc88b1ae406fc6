------------------------------- MODULE Runner -------------------------------
(* Server collection: the runner inside the plugin (turn_state_runner.go), which acts
   only within management calls, and the collector processes (statecollector/) whose
   heartbeats drive it. A tick reads the settings, then takes the lease and may become
   the one tick that runs; its lanes send probes until their window closes. An operator
   starts and stops collection, wakes it, or probes by hand; CPA may be reconfigured or
   restarted. Deadlines are counted down: 0 is a deadline that has passed. *)
EXTENDS Naturals, FiniteSets

CONSTANTS
    Instances,    \* collector processes
    Ticks,        \* tick calls the host can serve at once
    Lanes,        \* probe lanes of a tick
    Installations,        \* control files, one per installation
    LeaseLife,    \* turnStateRunnerLease
    LaneWindow,   \* turnStateLaneWindow
    MaxDue,       \* the longest wait between two checks, a minute
    NoInstance, NoChange,
    MaxRevision,  \* bounds: starts and stops,
    MaxSettings,  \* changes of the settings,
    MaxRestarts   \* restarts of CPA

VARIABLES
    installed, control,          \* the installed file and the intent read from it
    controlFile,            \* the files
    setting, stopPending,   \* the start or stop being saved, and its barrier
    instance, leaseLeft,    \* the lease
    dueIn, woken,           \* nextCheck; wakeRevision differs from the running tick's
    token,                  \* configToken
    inFlight, manual,
    tick, lane, windowLeft, panicked,
    suspended, settings,    \* Config.Suspended; the settings' revision
    alive,                  \* the collectors that still run
    restarts,
    owed                    \* history: a wake no tick has answered

setVars == <<installed, control, controlFile, setting, stopPending>>
leaseVars == <<instance, leaseLeft, token>>
tickVars == <<tick, lane, windowLeft, panicked>>
flightVars == <<inFlight, manual>>
checkVars == <<dueIn, woken, owed>>
hostVars == <<suspended, settings, alive, restarts>>
runnerVars == <<setVars, leaseVars, tickVars, flightVars, checkVars, hostVars>>

Controls == [enabled : BOOLEAN, revision : 0..MaxRevision]
FreshControl == [enabled |-> FALSE, revision |-> 0]
Idle == "idle"
TickStates ==
    [pc : {Idle, "asked", "running"}, by : Instances \cup {NoInstance},
     suspended : BOOLEAN, token : 0..MaxSettings, start : 0..MaxRevision]
NotTicking == [pc |-> Idle, by |-> NoInstance, suspended |-> FALSE, token |-> 0, start |-> 0]
LaneStates == {"out", "free", "cleared", "called", "probing"}
NoToken == MaxSettings + 1

ASSUME RunnerAssumption ==
    /\ IsFiniteSet(Ticks) /\ IsFiniteSet(Lanes) /\ Installations # {}
    /\ NoInstance \notin Instances
    /\ NoChange \notin [next : Controls, saved : BOOLEAN]
    /\ LeaseLife \in Nat \ {0} /\ LaneWindow \in Nat \ {0} /\ MaxDue \in Nat \ {0}
    /\ MaxRevision \in Nat /\ MaxSettings \in Nat /\ MaxRestarts \in Nat

Running(t) == tick[t].pc = "running"
(* Calls that hold the gate, which a reconfiguration takes exclusively. *)
GateHeld == manual \/ \E t \in Ticks : tick[t].pc # Idle
-----------------------------------------------------------------------------
(* Start and stop. controlMu is held from the first step to the last. *)

BeginSet(enabled) ==
    /\ setting = NoChange
    /\ enabled => ~suspended
    /\ control.enabled # enabled
    /\ control.revision < MaxRevision
    /\ setting' = [next |-> [enabled |-> enabled, revision |-> control.revision + 1], saved |-> FALSE]
    /\ stopPending' = ~enabled
    /\ UNCHANGED <<installed, control, controlFile, leaseVars, tickVars, flightVars, checkVars, hostVars>>

SaveControl ==
    /\ setting # NoChange /\ ~setting.saved
    /\ controlFile' = [controlFile EXCEPT ![installed] = setting.next]
    /\ setting' = [setting EXCEPT !.saved = TRUE]
    /\ UNCHANGED <<installed, control, stopPending, leaseVars, tickVars, flightVars, checkVars, hostVars>>

SaveControlIgnored ==      \* publishes what could not be saved
    /\ setting # NoChange /\ ~setting.saved
    /\ control' = setting.next
    /\ setting' = NoChange /\ stopPending' = FALSE
    /\ UNCHANGED <<installed, controlFile, leaseVars, tickVars, flightVars, checkVars, hostVars>>

SaveControlFails ==
    /\ setting # NoChange /\ ~setting.saved
    /\ setting' = NoChange
    /\ stopPending' = FALSE
    /\ UNCHANGED <<installed, control, controlFile, leaseVars, tickVars, flightVars, checkVars, hostVars>>

PublishControl ==
    /\ setting # NoChange /\ setting.saved
    /\ control' = setting.next
    /\ setting' = NoChange
    /\ stopPending' = FALSE
    /\ dueIn' = 0
    /\ owed' = TRUE
    /\ UNCHANGED <<installed, controlFile, woken, leaseVars, tickVars, flightVars, hostVars>>
-----------------------------------------------------------------------------
(* Ticks. *)

(* The head of a tick, under the shared gate: the settings are read (Status) before the
   runner's own lock is taken. A collector whose call timed out sends another while the
   first is still being served. *)
SendTick(i, t) ==
    /\ i \in alive
    /\ tick[t].pc = Idle
    /\ tick' = [tick EXCEPT ![t] =
                  [pc |-> "asked", by |-> i, suspended |-> suspended, token |-> settings, start |-> 0]]
    /\ UNCHANGED <<setVars, leaseVars, lane, windowLeft, panicked, flightVars, checkVars, hostVars>>

OwnedByOther(i) == instance \notin {NoInstance, i} /\ (leaseLeft > 0 \/ inFlight)

EndTick(t) == tick' = [tick EXCEPT ![t] = NotTicking]

RefuseTick(t) ==
    /\ tick[t].pc = "asked"
    /\ OwnedByOther(tick[t].by)
    /\ EndTick(t)
    /\ UNCHANGED <<setVars, leaseVars, lane, windowLeft, panicked, flightVars, checkVars, hostVars>>

RenewLease(t) == instance' = tick[t].by /\ leaseLeft' = LeaseLife

RefuseBusyTick(t) ==
    /\ tick[t].pc = "asked"
    /\ ~OwnedByOther(tick[t].by)
    /\ inFlight
    /\ RenewLease(t)
    /\ EndTick(t)
    /\ UNCHANGED <<setVars, token, lane, windowLeft, panicked, flightVars, checkVars, hostVars>>

(* The wait that is left once changed settings have cancelled it. *)
WaitLeft(t) == IF token # tick[t].token THEN 0 ELSE dueIn
MayRun(t) == control.enabled /\ ~stopPending /\ ~tick[t].suspended /\ WaitLeft(t) = 0

IdleTick(t) ==
    /\ tick[t].pc = "asked"
    /\ ~OwnedByOther(tick[t].by) /\ ~inFlight
    /\ ~MayRun(t)
    /\ RenewLease(t)
    /\ token' = tick[t].token
    /\ dueIn' = WaitLeft(t)
    /\ EndTick(t)
    /\ UNCHANGED <<setVars, lane, windowLeft, panicked, flightVars, woken, owed, hostVars>>

BeginTick(t, open) ==
    /\ tick[t].pc = "asked"
    /\ ~OwnedByOther(tick[t].by) /\ ~inFlight
    /\ MayRun(t)
    /\ RenewLease(t)
    /\ token' = tick[t].token
    /\ dueIn' = 0
    /\ inFlight' = TRUE /\ manual' = FALSE
    /\ tick' = [tick EXCEPT ![t].pc = "running", ![t].start = control.revision]
    /\ lane' = [l \in Lanes |-> IF l \in open THEN "free" ELSE "out"]
    /\ windowLeft' = LaneWindow
    /\ panicked' = FALSE
    /\ woken' = FALSE /\ owed' = FALSE
    /\ UNCHANGED <<setVars, hostVars>>

(* The deferred finalizer: it runs also when a lane panicked. The next check is where the
   earliest hint of the lanes says, within the bounds of runnerCheckAt, unless the
   operator intervened meanwhile. *)
CheckAfterHint(t, hint) == hint    \* the hint wins
CheckAfter(t, hint) == IF control.revision # tick[t].start \/ woken THEN 0 ELSE hint

FinishTickUnlessPanicked(t, hint) ==     \* a panic leaves it in flight
    /\ Running(t)
    /\ \A l \in Lanes : lane[l] = "out"
    /\ inFlight' = panicked
    /\ dueIn' = CheckAfter(t, hint)
    /\ EndTick(t)
    /\ UNCHANGED <<setVars, leaseVars, lane, windowLeft, panicked, manual, woken, owed, hostVars>>

FinishTick(t, hint) ==
    /\ Running(t)
    /\ \A l \in Lanes : lane[l] = "out"
    /\ inFlight' = FALSE
    /\ dueIn' = CheckAfter(t, hint)
    /\ EndTick(t)
    /\ UNCHANGED <<setVars, leaseVars, lane, windowLeft, panicked, manual, woken, owed, hostVars>>
-----------------------------------------------------------------------------
(* Lanes of the running tick. *)

MoveLane(l, to) == lane' = [lane EXCEPT ![l] = to]

LaneOpenUnbarred(t) ==     \* without the barrier of a stop
    /\ control.enabled /\ control.revision = tick[t].start
    /\ ~panicked /\ windowLeft > 0
(* admit: what it looks at under the runner's lock, ... *)
LaneOpen(t) ==
    /\ control.enabled /\ ~stopPending /\ control.revision = tick[t].start
    /\ ~panicked /\ windowLeft > 0

ClearLane(l) ==
    \E t \in Ticks :
        /\ Running(t)
        /\ lane[l] = "free"
        /\ MoveLane(l, IF LaneOpen(t) THEN "cleared" ELSE "out")
        /\ UNCHANGED <<setVars, leaseVars, tick, windowLeft, panicked, flightVars, checkVars, hostVars>>

(* ... and the global switch after it. *)
CallProbe(l) ==
    /\ lane[l] = "cleared"
    /\ MoveLane(l, IF suspended THEN "out" ELSE "called")
    /\ UNCHANGED <<setVars, leaseVars, tick, windowLeft, panicked, flightVars, checkVars, hostVars>>

(* The manager reserves the attempt of a bucket that is due, and sends it. *)
ReserveProbe(l) ==
    /\ lane[l] = "called"
    /\ MoveLane(l, "probing")
    /\ UNCHANGED <<setVars, leaseVars, tick, windowLeft, panicked, flightVars, checkVars, hostVars>>

(* Nothing is due, and the lane ends, or an account is paused for a moment while another
   lane probes, and it waits. *)
NothingDue(l, waits) ==
    /\ lane[l] = "called"
    /\ waits => \E o \in Lanes \ {l} : lane[o] \in {"called", "probing"}
    /\ MoveLane(l, IF waits THEN "free" ELSE "out")
    /\ UNCHANGED <<setVars, leaseVars, tick, windowLeft, panicked, flightVars, checkVars, hostVars>>

EndProbe(l) ==
    /\ lane[l] = "probing"
    /\ MoveLane(l, "free")
    /\ UNCHANGED <<setVars, leaseVars, tick, windowLeft, panicked, flightVars, checkVars, hostVars>>

(* A failed call ends its lane; a panic of a host callback ends the others with it. *)
FailProbe(l, panics) ==
    /\ lane[l] \in {"called", "probing"}
    /\ MoveLane(l, "out")
    /\ panicked' = (panicked \/ panics)
    /\ UNCHANGED <<setVars, leaseVars, tick, windowLeft, flightVars, checkVars, hostVars>>
-----------------------------------------------------------------------------
(* The operator, the host, time. *)

(* beginManualTurnStateProbe: a probe, a self-test or a discard by hand. *)
BeginManual ==
    /\ ~control.enabled /\ ~inFlight
    /\ inFlight' = TRUE /\ manual' = TRUE
    /\ UNCHANGED <<setVars, leaseVars, tickVars, checkVars, hostVars>>

EndManual ==
    /\ manual
    /\ inFlight' = FALSE /\ manual' = FALSE
    /\ UNCHANGED <<setVars, leaseVars, tickVars, checkVars, hostVars>>

(* requestCheck, after cooldowns were cleared or a template was discarded. *)
RequestCheck ==
    /\ dueIn' = 0 /\ woken' = TRUE /\ owed' = TRUE
    /\ UNCHANGED <<setVars, leaseVars, tickVars, flightVars, hostVars>>

(* A change of the settings waits for the probes under way (probeMu). *)
UpdateSettings(off) ==
    /\ settings < MaxSettings
    /\ \A l \in Lanes : lane[l] # "probing"
    /\ suspended' = off
    /\ settings' = settings + 1
    /\ UNCHANGED <<setVars, leaseVars, tickVars, flightVars, checkVars, alive, restarts>>

InstalledControl(p) ==
    /\ installed' = p
    /\ control' = controlFile[p]
    /\ setting' = NoChange /\ stopPending' = FALSE
    /\ instance' = NoInstance /\ leaseLeft' = 0 /\ token' = NoToken
    /\ dueIn' = 0 /\ woken' = FALSE /\ owed' = FALSE
    /\ inFlight' = FALSE /\ manual' = FALSE

Reconfigure(p) ==
    /\ p # installed
    /\ ~GateHeld /\ setting = NoChange
    /\ InstalledControl(p)
    /\ UNCHANGED <<controlFile, tickVars, hostVars>>

RestartRunner ==
    /\ restarts < MaxRestarts
    /\ InstalledControl(installed)
    /\ tick' = [t \in Ticks |-> NotTicking]
    /\ lane' = [l \in Lanes |-> "out"]
    /\ windowLeft' = 0 /\ panicked' = FALSE
    /\ restarts' = restarts + 1
    /\ UNCHANGED <<controlFile, suspended, settings, alive>>

CollectorDies(i) ==
    /\ i \in alive /\ alive # {i}
    /\ alive' = alive \ {i}
    /\ UNCHANGED <<setVars, leaseVars, tickVars, flightVars, checkVars, suspended, settings, restarts>>

Less(n) == IF n = 0 THEN 0 ELSE n - 1
TimePasses ==
    /\ leaseLeft > 0 \/ dueIn > 0 \/ windowLeft > 0
    /\ leaseLeft' = Less(leaseLeft) /\ dueIn' = Less(dueIn) /\ windowLeft' = Less(windowLeft)
    /\ UNCHANGED <<setVars, instance, token, tick, lane, panicked, flightVars, woken, owed, hostVars>>
-----------------------------------------------------------------------------
RunnerInit ==
    /\ installed \in Installations
    /\ control = FreshControl
    /\ controlFile = [p \in Installations |-> FreshControl]
    /\ setting = NoChange /\ stopPending = FALSE
    /\ instance = NoInstance /\ leaseLeft = 0 /\ token = NoToken
    /\ dueIn = 0 /\ woken = FALSE /\ owed = FALSE
    /\ inFlight = FALSE /\ manual = FALSE
    /\ tick = [t \in Ticks |-> NotTicking]
    /\ lane = [l \in Lanes |-> "out"]
    /\ windowLeft = 0 /\ panicked = FALSE
    /\ suspended = FALSE /\ settings = 0
    /\ alive = Instances /\ restarts = 0

TickStep(t) ==
    \/ RefuseTick(t) \/ RefuseBusyTick(t) \/ IdleTick(t)
    \/ \E open \in SUBSET Lanes \ {{}} : BeginTick(t, open)
    \/ \E hint \in 1..MaxDue : FinishTick(t, hint)

LaneStep(l) ==
    \/ ClearLane(l) \/ CallProbe(l) \/ ReserveProbe(l) \/ EndProbe(l)
    \/ \E waits \in BOOLEAN : NothingDue(l, waits)
    \/ \E panics \in BOOLEAN : FailProbe(l, panics)

SetStep == SaveControl \/ SaveControlFails \/ PublishControl

RunnerNext ==
    \/ \E enabled \in BOOLEAN : BeginSet(enabled)
    \/ SetStep
    \/ \E i \in Instances, t \in Ticks : SendTick(i, t)
    \/ \E t \in Ticks : TickStep(t)
    \/ \E l \in Lanes : LaneStep(l)
    \/ BeginManual \/ EndManual \/ RequestCheck
    \/ \E off \in BOOLEAN : UpdateSettings(off)
    \/ \E p \in Installations : Reconfigure(p)
    \/ RestartRunner
    \/ \E i \in Instances : CollectorDies(i)
    \/ TimePasses

RunnerSpec == RunnerInit /\ [][RunnerNext]_runnerVars

(* Locks are released, probes have deadlines (25 s), the clock runs, and a collector sends
   its next heartbeat whatever became of the last (Collector.Run). Sending is strongly
   fair because Ticks bounds what the host serves at once, which it does not. *)
RunnerFairness ==
    /\ WF_runnerVars(SetStep) /\ WF_runnerVars(EndManual) /\ WF_runnerVars(TimePasses)
    /\ \A t \in Ticks : WF_runnerVars(TickStep(t))
    /\ \A l \in Lanes : WF_runnerVars(LaneStep(l))
    /\ \A i \in Instances : SF_runnerVars(\E t \in Ticks : SendTick(i, t))
FairRunnerSpec == RunnerSpec /\ RunnerFairness
-----------------------------------------------------------------------------
RunnerTypeOK ==
    /\ installed \in Installations /\ control \in Controls /\ controlFile \in [Installations -> Controls]
    /\ setting \in [next : Controls, saved : BOOLEAN] \cup {NoChange}
    /\ stopPending \in BOOLEAN
    /\ instance \in Instances \cup {NoInstance} /\ leaseLeft \in 0..LeaseLife
    /\ dueIn \in 0..MaxDue /\ woken \in BOOLEAN /\ owed \in BOOLEAN
    /\ token \in 0..NoToken
    /\ inFlight \in BOOLEAN /\ manual \in BOOLEAN
    /\ tick \in [Ticks -> TickStates] /\ lane \in [Lanes -> LaneStates]
    /\ windowLeft \in 0..LaneWindow /\ panicked \in BOOLEAN
    /\ suspended \in BOOLEAN /\ settings \in 0..MaxSettings
    /\ alive \subseteq Instances /\ restarts \in 0..MaxRestarts

(* At most one tick or manual call works at any time, exactly while inFlight says so, and
   lanes work for a tick only; the tick belongs to the collector that holds the lease,
   also when the lease ran out under it (turn_state_runner.go:289). *)
OneDriver ==
    /\ \A t, u \in Ticks : Running(t) /\ Running(u) => t = u
    /\ inFlight <=> (manual \/ \E t \in Ticks : Running(t))
    /\ manual => \A t \in Ticks : ~Running(t)
    /\ \A t \in Ticks : Running(t) => instance = tick[t].by
    /\ (\A t \in Ticks : ~Running(t)) => \A l \in Lanes : lane[l] = "out"

(* Outside the handler that changes it, the intent in memory is the one in the file: what
   was acknowledged survives a restart, and what could not be saved is not in effect
   (turn_state_runner.go:254-266). *)
IntentIsSaved == setting = NoChange => control = controlFile[installed]

(* No lane is admitted to another probe once a stop is saved, although the stop is in
   effect only later and the tick started before it (turn_state_runner.go:243-245). *)
StopAdmitsNoProbe ==
    [][\A l \in Lanes : lane[l] = "free" /\ lane'[l] = "cleared" => controlFile[installed].enabled]_runnerVars

(* A start, a stop or a wake is answered by the next heartbeat, also one that comes while
   a tick is running which knows nothing of it (turn_state_runner.go:335-339). *)
WakesAreAnswered == owed => dueIn = 0

(* Collection goes on: once it is started for good, no stop is tried and State is not suspended, ticks run and end
   again and again, whatever collectors die, calls fail or panic, and leases are left
   behind. *)
CollectionGoesOn ==
    <>[](control.enabled /\ setting = NoChange /\ ~suspended) =>
        []<>(\E t \in Ticks : Running(t)) /\ []<>~inFlight
=============================================================================
