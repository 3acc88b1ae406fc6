---------------------------- MODULE RunnerProofs ----------------------------
(***************************************************************************)
(* What holds of server collection for any number of collectors, calls,    *)
(* lanes, installations and starts and stops.  RunnerInv is inductive: a   *)
(* stop bars lanes because the file is ahead of the intent in memory only  *)
(* while its barrier is up, and a wake survives the end of a running tick  *)
(* because that tick began at an earlier revision or sees the wake itself. *)
(*                                                                         *)
(* And of the probes collection sends, for any accounts, models, exits and *)
(* settings.  ProbeInv is inductive: a pause asked for by a refusal is not *)
(* shortened because no other probe of that account is in flight.          *)
(*                                                                         *)
(* And of the reading of a streamed answer, for any number of lines:       *)
(* CompletionInv relates what was read of the open event to the lines.     *)
(***************************************************************************)
EXTENDS Runner, Probe, Completion, FiniteSetTheorems, FunctionTheorems, SequenceTheorems, WellFoundedInduction, TLAPS

(* Between the steps of a start or stop the file holds the old intent or the next. *)
IntentInv ==
    /\ (setting = NoChange \/ ~setting.saved) => control = controlFile[installed]
    /\ (setting # NoChange /\ setting.saved) => controlFile[installed] = setting.next
    /\ stopPending <=> (setting # NoChange /\ ~setting.next.enabled)
    /\ setting # NoChange => setting.next.revision = control.revision + 1

DriverInv ==
    /\ OneDriver
    /\ \A t \in Ticks : tick[t].pc # Idle => tick[t].by \in Instances

(* What the running tick does not know of differs from what it began with. *)
WakeInv ==
    /\ WakesAreAnswered
    /\ \A t \in Ticks : Running(t) => tick[t].start <= control.revision
    /\ \A t \in Ticks : Running(t) /\ owed => woken \/ control.revision # tick[t].start

RunnerInv == RunnerTypeOK /\ IntentInv /\ DriverInv /\ WakeInv

USE DEF setVars, leaseVars, tickVars, flightVars, checkVars, hostVars
-----------------------------------------------------------------------------
\* An idle tick is a tick.
LEMMA NotTickingType == NotTicking \in TickStates /\ NotTicking.pc = Idle
<1> USE RunnerAssumption
<1>1. NoInstance \in Instances \cup {NoInstance} /\ 0 \in 0..MaxSettings /\ 0 \in 0..MaxRevision
    OBVIOUS
<1> QED BY <1>1 DEF NotTicking, TickStates, Idle

\* The runner starts in a state of the invariant.
LEMMA RunnerInvInit == RunnerInit => RunnerInv
<1> SUFFICES ASSUME RunnerInit PROVE RunnerInv OBVIOUS
<1> USE RunnerAssumption
<1>1. RunnerTypeOK
  <2>1. FreshControl \in Controls BY DEF FreshControl, Controls
  <2>2. tick \in [Ticks -> TickStates] /\ lane \in [Lanes -> LaneStates]
      BY NotTickingType DEF RunnerInit, LaneStates
  <2>3. controlFile \in [Installations -> Controls] /\ control \in Controls BY <2>1 DEF RunnerInit
  <2>4. token \in 0..NoToken BY DEF RunnerInit, NoToken
  <2>5. installed \in Installations /\ setting = NoChange /\ instance = NoInstance BY DEF RunnerInit
  <2>6. /\ stopPending \in BOOLEAN /\ woken \in BOOLEAN /\ owed \in BOOLEAN /\ inFlight \in BOOLEAN
        /\ manual \in BOOLEAN /\ panicked \in BOOLEAN /\ suspended \in BOOLEAN
      BY Zenon DEF RunnerInit
  <2>7. /\ leaseLeft \in 0..LeaseLife /\ dueIn \in 0..MaxDue /\ windowLeft \in 0..LaneWindow
        /\ settings \in 0..MaxSettings /\ restarts \in 0..MaxRestarts /\ alive \subseteq Instances
      BY DEF RunnerInit
  <2> QED BY <2>2, <2>3, <2>4, <2>5, <2>6, <2>7 DEF RunnerTypeOK
<1>2. IntentInv BY DEF RunnerInit, IntentInv
<1>3. DriverInv BY DEF RunnerInit, DriverInv, OneDriver, Running, NotTicking, Idle
<1>4. WakeInv BY DEF RunnerInit, WakeInv, WakesAreAnswered, Running, NotTicking, Idle
<1> QED BY <1>1, <1>2, <1>3, <1>4 DEF RunnerInv

\* Installing a control file leaves everything it sets in its type.
LEMMA InstalledTypes ==
    ASSUME RunnerTypeOK, NEW p \in Installations, InstalledControl(p)
    PROVE  /\ installed' \in Installations /\ control' \in Controls
           /\ setting' = NoChange /\ instance' = NoInstance
           /\ leaseLeft' \in 0..LeaseLife /\ token' \in 0..NoToken /\ dueIn' \in 0..MaxDue
           /\ stopPending' \in BOOLEAN /\ woken' \in BOOLEAN /\ owed' \in BOOLEAN
           /\ inFlight' \in BOOLEAN /\ manual' \in BOOLEAN
<1>1. installed' \in Installations /\ control' \in Controls /\ setting' = NoChange /\ instance' = NoInstance
    BY DEF InstalledControl, RunnerTypeOK
<1>2. leaseLeft' \in 0..LeaseLife /\ token' \in 0..NoToken /\ dueIn' \in 0..MaxDue
    BY RunnerAssumption DEF InstalledControl, NoToken
<1>3. /\ stopPending' \in BOOLEAN /\ woken' \in BOOLEAN /\ owed' \in BOOLEAN
      /\ inFlight' \in BOOLEAN /\ manual' \in BOOLEAN
    BY Zenon DEF InstalledControl
<1> QED BY <1>1, <1>2, <1>3

\* Every handler keeps the runner's variables in their types.
LEMMA RunnerTypeStep == RunnerTypeOK /\ RunnerNext => RunnerTypeOK'
<1> SUFFICES ASSUME RunnerTypeOK, RunnerNext PROVE RunnerTypeOK' OBVIOUS
<1> USE RunnerAssumption DEF RunnerTypeOK
<1>1. ASSUME NEW enabled \in BOOLEAN, BeginSet(enabled) PROVE RunnerTypeOK'
  <2> DEFINE next == [enabled |-> enabled, revision |-> control.revision + 1]
  <2>1. next \in Controls BY <1>1 DEF BeginSet, Controls
  <2> HIDE DEF next
  <2>2. setting' = [next |-> next, saved |-> FALSE] BY <1>1 DEF BeginSet, next
  <2>3. setting' \in [next : Controls, saved : BOOLEAN] BY <2>1, <2>2
  <2>4. stopPending' \in BOOLEAN BY <1>1, Zenon DEF BeginSet
  <2> QED BY <1>1, <2>3, <2>4 DEF BeginSet
<1>2. CASE SaveControl BY <1>2 DEF SaveControl, Controls
<1>3. CASE SaveControlFails BY <1>3 DEF SaveControlFails
<1>4. CASE PublishControl
  <2>1. control' \in Controls BY <1>4 DEF PublishControl
  <2>2. stopPending' \in BOOLEAN /\ owed' \in BOOLEAN BY <1>4, Zenon DEF PublishControl
  <2> QED BY <1>4, <2>1, <2>2 DEF PublishControl
<1>5. ASSUME NEW i \in Instances, NEW t \in Ticks, SendTick(i, t) PROVE RunnerTypeOK'
  <2> DEFINE asked == [pc |-> "asked", by |-> i, suspended |-> suspended, token |-> settings, start |-> 0]
  <2>1. asked \in TickStates BY DEF TickStates
  <2> HIDE DEF asked
  <2> QED BY <1>5, <2>1 DEF SendTick, asked
<1>6. ASSUME NEW t \in Ticks, TickStep(t) PROVE RunnerTypeOK'
  <2>1. CASE RefuseTick(t) BY <2>1 DEF RefuseTick, EndTick, NotTicking, TickStates, Idle
  <2>2. CASE RefuseBusyTick(t)
      BY <2>2 DEF RefuseBusyTick, RenewLease, EndTick, NotTicking, TickStates, Idle
  <2>3. CASE IdleTick(t)
      BY <2>3 DEF IdleTick, RenewLease, WaitLeft, EndTick, NotTicking, TickStates, Idle, NoToken
  <2>4. ASSUME NEW open \in SUBSET Lanes, BeginTick(t, open) PROVE RunnerTypeOK'
    <3> DEFINE running == [tick[t] EXCEPT !.pc = "running", !.start = control.revision]
    <3>0. running \in TickStates
      <4>1. tick[t] \in TickStates /\ control.revision \in 0..MaxRevision BY DEF Controls
      <4> HIDE DEF RunnerTypeOK
      <4> QED BY <4>1 DEF TickStates
    <3> HIDE DEF running
    <3>1. tick' \in [Ticks -> TickStates]
      <4>1. tick' = [tick EXCEPT ![t] = running] BY <2>4 DEF BeginTick, running
      <4> QED BY <3>0, <4>1
    <3>2. lane' \in [Lanes -> LaneStates] BY <2>4 DEF BeginTick, LaneStates
    <3>3. instance' \in Instances \cup {NoInstance} /\ leaseLeft' \in 0..LeaseLife /\ token' \in 0..NoToken
        BY <2>4 DEF BeginTick, RenewLease, TickStates, NoToken
    <3>4. inFlight' \in BOOLEAN /\ manual' \in BOOLEAN /\ panicked' \in BOOLEAN /\ woken' \in BOOLEAN /\ owed' \in BOOLEAN
        BY <2>4, Zenon DEF BeginTick
    <3>5. dueIn' \in 0..MaxDue /\ windowLeft' \in 0..LaneWindow BY <2>4 DEF BeginTick
    <3> QED BY <2>4, <3>1, <3>2, <3>3, <3>4, <3>5 DEF BeginTick
  <2>5. ASSUME NEW hint \in 1..MaxDue, FinishTick(t, hint) PROVE RunnerTypeOK'
    <3>1. tick' \in [Ticks -> TickStates] BY <2>5, NotTickingType DEF FinishTick, EndTick
    <3>2. inFlight' \in BOOLEAN BY <2>5, Zenon DEF FinishTick
    <3>3. dueIn' \in 0..MaxDue BY <2>5 DEF FinishTick, CheckAfter
    <3> QED BY <2>5, <3>1, <3>2, <3>3 DEF FinishTick
  <2> QED BY <1>6, <2>1, <2>2, <2>3, <2>4, <2>5 DEF TickStep
<1>7. ASSUME NEW l \in Lanes, LaneStep(l) PROVE RunnerTypeOK'
  <2> USE DEF MoveLane, LaneStates
  <2>1. CASE ClearLane(l) BY <2>1 DEF ClearLane
  <2>2. CASE CallProbe(l) BY <2>2 DEF CallProbe
  <2>3. CASE ReserveProbe(l) BY <2>3 DEF ReserveProbe
  <2>4. CASE EndProbe(l) BY <2>4 DEF EndProbe
  <2>5. ASSUME NEW waits \in BOOLEAN, NothingDue(l, waits) PROVE RunnerTypeOK' BY <2>5 DEF NothingDue
  <2>6. ASSUME NEW panics \in BOOLEAN, FailProbe(l, panics) PROVE RunnerTypeOK' BY <2>6 DEF FailProbe
  <2> QED BY <1>7, <2>1, <2>2, <2>3, <2>4, <2>5, <2>6 DEF LaneStep
<1>8. CASE BeginManual BY <1>8 DEF BeginManual
<1>9. CASE EndManual BY <1>9 DEF EndManual
<1>10. CASE RequestCheck BY <1>10 DEF RequestCheck
<1>11. ASSUME NEW off \in BOOLEAN, UpdateSettings(off) PROVE RunnerTypeOK' BY <1>11 DEF UpdateSettings
<1>12. ASSUME NEW p \in Installations, Reconfigure(p) PROVE RunnerTypeOK'
    BY <1>12, InstalledTypes DEF Reconfigure
<1>13. CASE RestartRunner
  <2>1. InstalledControl(installed) /\ installed \in Installations BY <1>13 DEF RestartRunner
  <2>2. tick' \in [Ticks -> TickStates] /\ lane' \in [Lanes -> LaneStates]
      BY <1>13, NotTickingType DEF RestartRunner, LaneStates
  <2>3. panicked' \in BOOLEAN BY <1>13, Zenon DEF RestartRunner
  <2>4. windowLeft' \in 0..LaneWindow /\ restarts' \in 0..MaxRestarts BY <1>13 DEF RestartRunner
  <2>5. /\ controlFile' = controlFile /\ suspended' = suspended /\ settings' = settings /\ alive' = alive
      BY <1>13 DEF RestartRunner
  <2> QED BY <2>1, <2>2, <2>3, <2>4, <2>5, InstalledTypes
<1>14. ASSUME NEW i \in Instances, CollectorDies(i) PROVE RunnerTypeOK' BY <1>14 DEF CollectorDies
<1>15. CASE TimePasses BY <1>15 DEF TimePasses, Less
<1> QED BY <1>1, <1>2, <1>3, <1>4, <1>5, <1>6, <1>7, <1>8, <1>9, <1>10, <1>11, <1>12, <1>13, <1>14, <1>15
        DEF RunnerNext, SetStep
-----------------------------------------------------------------------------
\* The intent, its file and the barrier of a stop change only together.
LEMMA IntentKept == ASSUME IntentInv, UNCHANGED setVars PROVE IntentInv'
BY DEF IntentInv

\* Every step of a start or stop, a reconfiguration and a restart keep what IntentInv says.
LEMMA IntentStep == RunnerTypeOK /\ IntentInv /\ RunnerNext => IntentInv'
<1> SUFFICES ASSUME RunnerTypeOK, IntentInv, RunnerNext, ~UNCHANGED setVars PROVE IntentInv'
    BY IntentKept
<1> USE RunnerAssumption DEF IntentInv
<1>1. ASSUME NEW enabled \in BOOLEAN, BeginSet(enabled) PROVE IntentInv'
  <2> DEFINE next == [enabled |-> enabled, revision |-> control.revision + 1]
  <2>1. next \in Controls BY <1>1 DEF BeginSet, Controls, RunnerTypeOK
  <2>2. next.enabled = enabled /\ next.revision = control.revision + 1 OBVIOUS
  <2> HIDE DEF next
  <2>3. setting' = [next |-> next, saved |-> FALSE] BY <1>1 DEF BeginSet, next
  <2>4. setting' # NoChange
    <3>1. setting' \in [next : Controls, saved : BOOLEAN] BY <2>1, <2>3
    <3> QED BY <3>1, RunnerAssumption
  <2>5. /\ setting = NoChange /\ stopPending' = ~enabled
        /\ control' = control /\ controlFile' = controlFile /\ installed' = installed
      BY <1>1 DEF BeginSet
  <2>6. setting'.next = next /\ ~setting'.saved BY <2>3
  <2> QED BY <2>2, <2>4, <2>5, <2>6
<1>2. CASE SaveControl
  <2>1. setting \in [next : Controls, saved : BOOLEAN] BY <1>2 DEF SaveControl, RunnerTypeOK
  <2>2. /\ setting' \in [next : Controls, saved : BOOLEAN]
        /\ setting'.next = setting.next /\ setting'.saved
      BY <1>2, <2>1 DEF SaveControl
  <2>3. controlFile'[installed'] = setting.next BY <1>2 DEF SaveControl, RunnerTypeOK
  <2> QED BY <1>2, <2>2, <2>3 DEF SaveControl
<1>3. CASE SaveControlFails
  <2>1. setting' = NoChange /\ ~stopPending' BY <1>3 DEF SaveControlFails
  <2>2. control' = control /\ controlFile' = controlFile /\ installed' = installed /\ ~setting.saved
      BY <1>3 DEF SaveControlFails
  <2> QED BY <2>1, <2>2
<1>4. CASE PublishControl BY <1>4 DEF PublishControl
<1>5. ASSUME NEW p \in Installations, Reconfigure(p) PROVE IntentInv'
    BY <1>5 DEF Reconfigure, InstalledControl
<1>6. CASE RestartRunner BY <1>6 DEF RestartRunner, InstalledControl
<1>7. ASSUME NEW t \in Ticks, TickStep(t) PROVE FALSE
    BY <1>7 DEF TickStep, RefuseTick, RefuseBusyTick, IdleTick, BeginTick, FinishTick
<1>8. ASSUME NEW l \in Lanes, LaneStep(l) PROVE FALSE
    BY <1>8 DEF LaneStep, ClearLane, CallProbe, ReserveProbe, NothingDue, EndProbe, FailProbe
<1>9. ASSUME NEW i \in Instances, NEW t \in Ticks, SendTick(i, t) PROVE FALSE BY <1>9 DEF SendTick
<1>10. ASSUME NEW i \in Instances, CollectorDies(i) PROVE FALSE BY <1>10 DEF CollectorDies
<1>11. ASSUME NEW off \in BOOLEAN, UpdateSettings(off) PROVE FALSE BY <1>11 DEF UpdateSettings
<1>12. ~BeginManual /\ ~EndManual /\ ~RequestCheck /\ ~TimePasses
    BY DEF BeginManual, EndManual, RequestCheck, TimePasses
<1> QED BY <1>1, <1>2, <1>3, <1>4, <1>5, <1>6, <1>7, <1>8, <1>9, <1>10, <1>11, <1>12
        DEF RunnerNext, SetStep
-----------------------------------------------------------------------------
driverVars == <<tick, lane, inFlight, manual, instance>>

\* Who drives depends on the ticks, the lanes, the calls in flight and the lease's holder alone.
LEMMA DriverKept == ASSUME DriverInv, UNCHANGED driverVars PROVE DriverInv'
BY DEF DriverInv, OneDriver, Running, driverVars

\* A step of a lane needs a running tick, which keeps the lanes where they may be.
LEMMA LaneDriverStep ==
    ASSUME DriverInv, RunnerTypeOK, NEW l \in Lanes, LaneStep(l)
    PROVE  DriverInv'
<1>1. /\ tick' = tick /\ inFlight' = inFlight /\ manual' = manual /\ instance' = instance
      /\ lane[l] # "out"
    BY DEF LaneStep, ClearLane, CallProbe, ReserveProbe, EndProbe, NothingDue, FailProbe, MoveLane
<1>2. ~\A t \in Ticks : ~Running(t) BY <1>1 DEF DriverInv, OneDriver
<1> QED BY <1>1, <1>2 DEF DriverInv, OneDriver, Running

\* A tick takes the lease, and the work, only when no other collector and no call has them.
LEMMA TickDriverStep ==
    ASSUME DriverInv, RunnerTypeOK, NEW t \in Ticks, TickStep(t)
    PROVE  DriverInv'
<1> USE RunnerAssumption DEF RunnerTypeOK
<1> DEFINE Idled == tick' = [tick EXCEPT ![t] = NotTicking]
<1>0. Idled => /\ \A u \in Ticks : Running(u)' <=> Running(u) /\ u # t
               /\ \A u \in Ticks : u # t => tick'[u] = tick[u]
               /\ tick'[t].pc = Idle
    BY NotTickingType DEF Running, Idle
<1>1. ASSUME RefuseTick(t) PROVE DriverInv'
  <2>1. ~Running(t) BY <1>1 DEF RefuseTick, Running
  <2>2. Idled /\ UNCHANGED <<lane, inFlight, manual, instance>> BY <1>1 DEF RefuseTick, EndTick
  <2> QED BY <1>0, <2>1, <2>2 DEF DriverInv, OneDriver
<1>2. ASSUME RefuseBusyTick(t) PROVE DriverInv'
  <2>1. ~Running(t) /\ tick[t].by \in Instances
      BY <1>2 DEF RefuseBusyTick, Running, DriverInv, Idle
  <2>2. Idled /\ UNCHANGED <<lane, inFlight, manual>> /\ instance' = tick[t].by
      BY <1>2 DEF RefuseBusyTick, EndTick, RenewLease
  <2>3. \A u \in Ticks : Running(u) => tick[u].by = tick[t].by
    <3> SUFFICES ASSUME NEW u \in Ticks, Running(u) PROVE tick[u].by = tick[t].by OBVIOUS
    <3>1. instance = tick[u].by /\ tick[u].by \in Instances BY DEF DriverInv, OneDriver, Running, Idle
    <3>2. instance \in {NoInstance, tick[t].by} BY <1>2 DEF RefuseBusyTick, OwnedByOther
    <3> QED BY <3>1, <3>2
  <2> QED BY <1>0, <2>1, <2>2, <2>3 DEF DriverInv, OneDriver
<1>3. ASSUME IdleTick(t) PROVE DriverInv'
  <2>1. \A u \in Ticks : ~Running(u) BY <1>3 DEF IdleTick, DriverInv, OneDriver
  <2>2. Idled /\ UNCHANGED <<lane, inFlight, manual>> BY <1>3 DEF IdleTick, EndTick
  <2> QED BY <1>0, <2>1, <2>2 DEF DriverInv, OneDriver
<1>4. ASSUME NEW open \in SUBSET Lanes, BeginTick(t, open) PROVE DriverInv'
  <2>1. (\A u \in Ticks : ~Running(u)) /\ tick[t].by \in Instances
      BY <1>4 DEF BeginTick, DriverInv, OneDriver, Idle
  <2>2. /\ tick' = [tick EXCEPT ![t].pc = "running", ![t].start = control.revision]
        /\ inFlight' /\ ~manual' /\ instance' = tick[t].by
      BY <1>4 DEF BeginTick, RenewLease
  <2>3. /\ \A u \in Ticks : u # t => tick'[u] = tick[u]
        /\ tick'[t].pc = "running" /\ tick'[t].by = tick[t].by
      BY <2>2 DEF TickStates
  <2>4. \A u \in Ticks : Running(u)' <=> u = t BY <2>1, <2>3 DEF Running
  <2> QED BY <2>1, <2>2, <2>3, <2>4 DEF DriverInv, OneDriver
<1>5. ASSUME NEW hint \in 1..MaxDue, FinishTick(t, hint) PROVE DriverInv'
  <2>1. Running(t) /\ (\A l \in Lanes : lane[l] = "out") BY <1>5 DEF FinishTick
  <2>2. Idled /\ ~inFlight' /\ UNCHANGED <<lane, manual, instance>> BY <1>5 DEF FinishTick, EndTick
  <2>3. ~manual /\ \A u \in Ticks : Running(u) => u = t BY <2>1 DEF DriverInv, OneDriver
  <2>4. \A u \in Ticks : ~Running(u)' BY <1>0, <2>2, <2>3
  <2> QED BY <1>0, <2>1, <2>2, <2>3, <2>4 DEF DriverInv, OneDriver
<1> QED BY <1>1, <1>2, <1>3, <1>4, <1>5 DEF TickStep

\* Every handler keeps one driver.
LEMMA DriverStep == RunnerTypeOK /\ DriverInv /\ RunnerNext => DriverInv'
<1> SUFFICES ASSUME RunnerTypeOK, DriverInv, RunnerNext, ~UNCHANGED driverVars PROVE DriverInv'
    BY DriverKept
<1> USE DEF driverVars
<1>1. ASSUME NEW enabled \in BOOLEAN, BeginSet(enabled) PROVE FALSE BY <1>1 DEF BeginSet
<1>2. ~SetStep BY DEF SetStep, SaveControl, SaveControlFails, PublishControl
<1>3. ASSUME NEW i \in Instances, NEW t \in Ticks, SendTick(i, t) PROVE DriverInv'
  <2>1. /\ ~Running(t) /\ UNCHANGED <<lane, inFlight, manual, instance>>
        /\ tick'[t].by = i /\ ~Running(t)'
        /\ \A u \in Ticks : u # t => tick'[u] = tick[u]
      BY <1>3 DEF SendTick, Running, Idle, RunnerTypeOK
  <2>2. \A u \in Ticks : Running(u)' <=> Running(u) BY <2>1 DEF Running
  <2> QED BY <2>1, <2>2 DEF DriverInv, OneDriver
<1>4. ASSUME NEW t \in Ticks, TickStep(t) PROVE DriverInv' BY <1>4, TickDriverStep
<1>5. ASSUME NEW l \in Lanes, LaneStep(l) PROVE DriverInv' BY <1>5, LaneDriverStep
<1>6. CASE BeginManual
  <2>1. /\ ~inFlight /\ inFlight' /\ manual' /\ UNCHANGED <<tick, lane, instance>>
      BY <1>6 DEF BeginManual
  <2>2. \A t \in Ticks : ~Running(t) BY <2>1 DEF DriverInv, OneDriver
  <2> QED BY <2>1, <2>2 DEF DriverInv, OneDriver, Running
<1>7. CASE EndManual
  <2>1. /\ manual /\ ~inFlight' /\ ~manual' /\ UNCHANGED <<tick, lane, instance>>
      BY <1>7 DEF EndManual
  <2>2. \A t \in Ticks : ~Running(t) BY <2>1 DEF DriverInv, OneDriver
  <2> QED BY <2>1, <2>2 DEF DriverInv, OneDriver, Running
<1>8. ~RequestCheck /\ ~TimePasses BY DEF RequestCheck, TimePasses
<1>9. ASSUME NEW off \in BOOLEAN, UpdateSettings(off) PROVE FALSE BY <1>9 DEF UpdateSettings
<1>10. ASSUME NEW p \in Installations, Reconfigure(p) PROVE DriverInv'
  <2>1. \A t \in Ticks : tick[t].pc = Idle BY <1>10 DEF Reconfigure, GateHeld
  <2>2. \A t \in Ticks : ~Running(t) BY <2>1 DEF Running, Idle
  <2>3. UNCHANGED <<tick, lane>> /\ ~inFlight' /\ ~manual'
      BY <1>10 DEF Reconfigure, InstalledControl
  <2> QED BY <2>1, <2>2, <2>3 DEF DriverInv, OneDriver, Running
<1>11. CASE RestartRunner
  <2>1. /\ \A t \in Ticks : tick'[t].pc = Idle
        /\ \A l \in Lanes : lane'[l] = "out"
        /\ ~inFlight' /\ ~manual'
      BY <1>11, NotTickingType DEF RestartRunner, InstalledControl
  <2>2. \A t \in Ticks : ~Running(t)' BY <2>1 DEF Running, Idle
  <2> QED BY <2>1, <2>2 DEF DriverInv, OneDriver
<1>12. ASSUME NEW i \in Instances, CollectorDies(i) PROVE FALSE BY <1>12 DEF CollectorDies
<1> QED BY <1>1, <1>2, <1>3, <1>4, <1>5, <1>6, <1>7, <1>8, <1>9, <1>10, <1>11, <1>12 DEF RunnerNext
-----------------------------------------------------------------------------
wakeVars == <<owed, dueIn, woken, tick, control>>

\* Whether a wake is answered depends on the check, the ticks and the intent alone.
LEMMA WakeKept == ASSUME WakeInv, UNCHANGED wakeVars PROVE WakeInv'
BY DEF WakeInv, WakesAreAnswered, Running, wakeVars

\* The end of a tick makes a check due whenever a wake is owed; what clears a wake is the
\* tick that answers it.
LEMMA WakeStep == RunnerInv /\ RunnerNext => WakeInv'
<1> SUFFICES ASSUME RunnerInv, RunnerNext, ~UNCHANGED wakeVars PROVE WakeInv'
    BY WakeKept DEF RunnerInv
<1> USE RunnerAssumption DEF wakeVars
<1>0. RunnerTypeOK /\ IntentInv /\ DriverInv /\ WakeInv BY DEF RunnerInv
<1>a. /\ control \in Controls /\ control.revision \in Nat
      /\ \A t \in Ticks : tick[t] \in TickStates /\ tick[t].start \in Nat
    BY <1>0 DEF RunnerTypeOK, Controls, TickStates
<1>1. ASSUME NEW enabled \in BOOLEAN, BeginSet(enabled) PROVE FALSE BY <1>1 DEF BeginSet
<1>2. ~SaveControl /\ ~SaveControlFails BY DEF SaveControl, SaveControlFails
<1>3. CASE PublishControl
  <2>1. /\ control'.revision = control.revision + 1
        /\ owed' /\ dueIn' = 0 /\ tick' = tick
      BY <1>3, <1>0 DEF PublishControl, IntentInv
  <2>2. \A t \in Ticks : Running(t) => tick[t].start <= control.revision BY <1>0 DEF WakeInv
  <2>3. \A t \in Ticks : Running(t) => tick[t].start <= control'.revision /\ control'.revision # tick[t].start
      BY <2>1, <2>2, <1>a
  <2> QED BY <2>1, <2>3 DEF WakeInv, WakesAreAnswered, Running
<1>4. ASSUME NEW i \in Instances, NEW t \in Ticks, SendTick(i, t) PROVE WakeInv'
  <2>1. /\ UNCHANGED <<owed, dueIn, woken, control>> /\ ~Running(t)'
        /\ \A u \in Ticks : u # t => tick'[u] = tick[u]
      BY <1>4, <1>0 DEF SendTick, Running, RunnerTypeOK
  <2> QED BY <2>1, <1>0 DEF WakeInv, WakesAreAnswered, Running
<1>5. ASSUME NEW t \in Ticks, TickStep(t) PROVE WakeInv'
  <2> DEFINE Idled == tick' = [tick EXCEPT ![t] = NotTicking]
  <2>0. Idled => /\ \A u \in Ticks : Running(u)' => Running(u) /\ tick'[u] = tick[u]
                 /\ control' = control
      BY <1>5, <1>0, NotTickingType
      DEF Running, Idle, RunnerTypeOK, TickStep, RefuseTick, RefuseBusyTick, IdleTick, BeginTick, FinishTick,
          setVars
  <2>1. CASE RefuseTick(t)
    <3>1. Idled /\ UNCHANGED <<owed, dueIn, woken>> BY <2>1 DEF RefuseTick, EndTick
    <3> QED BY <2>0, <3>1, <1>0 DEF WakeInv, WakesAreAnswered
  <2>2. CASE RefuseBusyTick(t)
    <3>1. Idled /\ UNCHANGED <<owed, dueIn, woken>> BY <2>2 DEF RefuseBusyTick, EndTick
    <3> QED BY <2>0, <3>1, <1>0 DEF WakeInv, WakesAreAnswered
  <2>3. CASE IdleTick(t)
    <3>1. Idled /\ UNCHANGED <<owed, woken>> /\ (dueIn = 0 => dueIn' = 0)
        BY <2>3 DEF IdleTick, EndTick, WaitLeft
    <3> QED BY <2>0, <3>1, <1>0 DEF WakeInv, WakesAreAnswered
  <2>4. ASSUME NEW open \in SUBSET Lanes, BeginTick(t, open) PROVE WakeInv'
    <3>1. ~owed' /\ control' = control BY <2>4 DEF BeginTick
    <3>2. tick' = [tick EXCEPT ![t].pc = "running", ![t].start = control.revision] BY <2>4 DEF BeginTick
    <3>3. tick'[t].start = control.revision /\ \A u \in Ticks : u # t => tick'[u] = tick[u]
        BY <3>2, <1>0 DEF RunnerTypeOK, TickStates
    <3> QED BY <3>1, <3>3, <1>0, <1>a DEF WakeInv, WakesAreAnswered, Running
  <2>5. ASSUME NEW hint \in 1..MaxDue, FinishTick(t, hint) PROVE WakeInv'
    <3>1. Idled /\ Running(t) /\ UNCHANGED <<owed, woken>> /\ dueIn' = CheckAfter(t, hint)
        BY <2>5 DEF FinishTick, EndTick
    <3>2. owed => dueIn' = 0 BY <3>1, <1>0 DEF CheckAfter, WakeInv
    <3> QED BY <2>0, <3>1, <3>2, <1>0 DEF WakeInv, WakesAreAnswered
  <2> QED BY <1>5, <2>1, <2>2, <2>3, <2>4, <2>5 DEF TickStep
<1>6. ASSUME NEW l \in Lanes, LaneStep(l) PROVE FALSE
    BY <1>6 DEF LaneStep, ClearLane, CallProbe, ReserveProbe, NothingDue, EndProbe, FailProbe
<1>7. ~BeginManual /\ ~EndManual BY DEF BeginManual, EndManual
<1>8. CASE RequestCheck BY <1>8, <1>0 DEF RequestCheck, WakeInv, WakesAreAnswered, Running
<1>9. ASSUME NEW off \in BOOLEAN, UpdateSettings(off) PROVE FALSE BY <1>9 DEF UpdateSettings
<1>10. ASSUME NEW p \in Installations, Reconfigure(p) PROVE WakeInv'
  <2>1. \A t \in Ticks : tick[t].pc = Idle BY <1>10 DEF Reconfigure, GateHeld
  <2>2. tick' = tick /\ ~owed' BY <1>10 DEF Reconfigure, InstalledControl
  <2> QED BY <2>1, <2>2 DEF WakeInv, WakesAreAnswered, Running, Idle
<1>11. CASE RestartRunner
  <2>1. (\A t \in Ticks : tick'[t].pc = Idle) /\ ~owed'
      BY <1>11, NotTickingType DEF RestartRunner, InstalledControl
  <2> QED BY <2>1 DEF WakeInv, WakesAreAnswered, Running, Idle
<1>12. ASSUME NEW i \in Instances, CollectorDies(i) PROVE FALSE BY <1>12 DEF CollectorDies
<1>13. CASE TimePasses
  <2>1. UNCHANGED <<owed, woken, tick, control>> /\ (dueIn = 0 => dueIn' = 0)
      BY <1>13 DEF TimePasses, Less
  <2> QED BY <2>1, <1>0 DEF WakeInv, WakesAreAnswered, Running
<1> QED BY <1>1, <1>2, <1>3, <1>4, <1>5, <1>6, <1>7, <1>8, <1>9, <1>10, <1>11, <1>12, <1>13
        DEF RunnerNext, SetStep

\* RunnerInv is inductive.
LEMMA RunnerInvStep == RunnerInv /\ [RunnerNext]_runnerVars => RunnerInv'
<1> SUFFICES ASSUME RunnerInv, [RunnerNext]_runnerVars PROVE RunnerInv' OBVIOUS
<1>1. CASE RunnerNext BY <1>1, RunnerTypeStep, IntentStep, DriverStep, WakeStep DEF RunnerInv
<1>2. CASE UNCHANGED runnerVars
  <2>1. RunnerTypeOK' BY <1>2 DEF runnerVars, RunnerInv, RunnerTypeOK
  <2>2. UNCHANGED setVars /\ UNCHANGED driverVars /\ UNCHANGED wakeVars
      BY <1>2 DEF runnerVars, driverVars, wakeVars
  <2> QED BY <2>1, <2>2, IntentKept, DriverKept, WakeKept DEF RunnerInv
<1> QED BY <1>1, <1>2

\* RunnerInv holds throughout every behaviour.
LEMMA RunnerInvHolds == RunnerSpec => []RunnerInv
BY RunnerInvInit, RunnerInvStep, PTL DEF RunnerSpec
-----------------------------------------------------------------------------
(* The variables of the runner keep their types. *)
THEOREM RunnerTypeCorrect == RunnerSpec => []RunnerTypeOK
<1>1. RunnerInv => RunnerTypeOK BY DEF RunnerInv
<1> QED BY <1>1, RunnerInvHolds, PTL

(* However many collectors send ticks, and whatever leases run out under them, one tick or
   one manual call works at a time. *)
THEOREM OneDriverAlways == RunnerSpec => []OneDriver
<1>1. RunnerInv => OneDriver BY DEF RunnerInv, DriverInv
<1> QED BY <1>1, RunnerInvHolds, PTL

(* What was acknowledged is what the file says. *)
THEOREM IntentAlwaysSaved == RunnerSpec => []IntentIsSaved
<1>1. RunnerInv => IntentIsSaved BY DEF RunnerInv, IntentInv, IntentIsSaved
<1> QED BY <1>1, RunnerInvHolds, PTL

(* No wake is lost to a tick that ends without knowing of it. *)
THEOREM WakesAlwaysAnswered == RunnerSpec => []WakesAreAnswered
<1>1. RunnerInv => WakesAreAnswered BY DEF RunnerInv, WakeInv
<1> QED BY <1>1, RunnerInvHolds, PTL

(* A saved stop bars the lanes of the tick that runs. *)
THEOREM SavedStopBarsLanes == RunnerSpec => StopAdmitsNoProbe
<1> DEFINE Step == \A l \in Lanes : lane[l] = "free" /\ lane'[l] = "cleared" => controlFile[installed].enabled
<1>1. RunnerInv /\ [RunnerNext]_runnerVars => Step
  <2> SUFFICES ASSUME RunnerInv, [RunnerNext]_runnerVars,
                      NEW l \in Lanes, lane[l] = "free", lane'[l] = "cleared"
               PROVE  controlFile[installed].enabled
      OBVIOUS
  <2>1. RunnerTypeOK /\ IntentInv BY DEF RunnerInv
  <2>2. lane' # lane OBVIOUS
  <2>3. \E m \in Lanes : LaneStep(m)
    <3>1. ~SetStep /\ ~BeginManual /\ ~EndManual /\ ~RequestCheck /\ ~TimePasses
        BY <2>2 DEF SetStep, SaveControl, SaveControlFails, PublishControl, BeginManual, EndManual, RequestCheck, TimePasses
    <3>2. /\ \A enabled \in BOOLEAN : ~BeginSet(enabled)
          /\ \A off \in BOOLEAN : ~UpdateSettings(off)
          /\ \A i \in Instances : ~CollectorDies(i) /\ \A t \in Ticks : ~SendTick(i, t)
          /\ \A p \in Installations : ~Reconfigure(p)
        BY <2>2 DEF BeginSet, UpdateSettings, CollectorDies, SendTick, Reconfigure
    <3>3. ~RestartRunner BY DEF RestartRunner
    <3>4. \A t \in Ticks : ~TickStep(t)
        BY <2>2 DEF TickStep, RefuseTick, RefuseBusyTick, IdleTick, BeginTick, FinishTick
    <3>5. ~UNCHANGED runnerVars BY <2>2 DEF runnerVars
    <3> QED BY <3>1, <3>2, <3>3, <3>4, <3>5 DEF RunnerNext
  <2>4. ClearLane(l)
    <3>1. PICK m \in Lanes : LaneStep(m) BY <2>3
    <3>2. m = l BY <3>1, <2>1
        DEF LaneStep, ClearLane, CallProbe, ReserveProbe, EndProbe, NothingDue, FailProbe, MoveLane, RunnerTypeOK
    <3> QED BY <3>1, <3>2, <2>1
        DEF LaneStep, CallProbe, ReserveProbe, EndProbe, NothingDue, FailProbe, MoveLane, RunnerTypeOK
  <2>5. control.enabled /\ ~stopPending
      BY <2>1, <2>4 DEF ClearLane, MoveLane, LaneOpen, RunnerTypeOK
  <2>6. CASE setting = NoChange \/ ~setting.saved BY <2>1, <2>5, <2>6 DEF IntentInv
  <2>7. CASE setting # NoChange /\ setting.saved BY <2>1, <2>5, <2>7 DEF IntentInv
  <2> QED BY <2>6, <2>7
<1>2. RunnerInv /\ [RunnerNext]_runnerVars => [Step]_runnerVars BY <1>1
<1> QED BY <1>2, RunnerInvHolds, PTL DEF RunnerSpec, StopAdmitsNoProbe
-----------------------------------------------------------------------------
(* Every nonempty set of numbers has a least element. *)
LEMMA LeastNumber ==
    ASSUME NEW S \in SUBSET Nat, S # {}
    PROVE  \E m \in S : \A n \in S : m <= n
<1> DEFINE R == OpToRel(<, Nat)
<1>1. R = {p \in Nat \X Nat : p[1] < p[2]} BY DEF OpToRel
<1>2. IsWellFoundedOn(R, Nat) BY NatLessThanWellFounded
<1>3. PICK m \in S : \A n \in S : <<n, m>> \notin R
  <2> HIDE DEF R
  <2> QED BY <1>2, WFMin
<1>4. ASSUME NEW n \in S PROVE m <= n
  <2>1. <<n, m>> \in Nat \X Nat /\ <<n, m>>[1] = n /\ <<n, m>>[2] = m OBVIOUS
  <2>2. ~(n < m) BY <1>1, <1>3, <2>1
  <2> QED BY <2>2
<1> QED BY <1>4

(* The place of a bucket in the settings is a number. *)
LEMMA PlaceIsNumber ==
    ASSUME cfg \in ProbeConfig, NEW b \in Scope
    PROVE  Place(b) \in Nat
<1>1. cfg.accounts \in Seq(Accounts) /\ cfg.models \in Seq(ProbeModels) BY DEF ProbeConfig
<1>2. ASSUME NEW T, NEW s \in Seq(T), NEW e \in ToSet(s) PROVE Rank(s, e) \in Nat
  <2>1. \E i \in DOMAIN s : s[i] = e BY <1>2 DEF ToSet
  <2>2. Rank(s, e) \in DOMAIN s BY <2>1 DEF Rank
  <2> QED BY <1>2, <2>2
<1>3. b[1] \in ToSet(cfg.accounts) /\ b[2] \in ToSet(cfg.models) BY DEF Scope
<1>4. Rank(cfg.accounts, b[1]) \in Nat /\ Rank(cfg.models, b[2]) \in Nat BY <1>1, <1>2, <1>3
<1>5. Len(cfg.models) \in Nat BY <1>1
<1> QED BY <1>4, <1>5 DEF Place

(* The bucket taken from a class is one of the class. *)
LEMMA NextIsOfClass ==
    ASSUME cfg \in ProbeConfig, NEW class \in SUBSET Scope, class # {}, NEW last
    PROVE  NextAfter(last, class) \in class
<1>1. ASSUME NEW some \in SUBSET Scope, some # {} PROVE First(some) \in some
  <2> DEFINE places == {Place(b) : b \in some}
  <2>1. places \in SUBSET Nat /\ places # {} BY <1>1, PlaceIsNumber
  <2> HIDE DEF places
  <2>2. PICK m \in places : \A n \in places : m <= n BY <2>1, LeastNumber
  <2>3. PICK b \in some : Place(b) = m BY <2>2 DEF places
  <2>4. \A c \in some : Place(b) <= Place(c) BY <2>2, <2>3 DEF places
  <2> QED BY <2>4 DEF First
<1>2. CASE \E b \in class : last # NoBucket /\ Place(b) > Place(last)
  <2> DEFINE later == {b \in class : last # NoBucket /\ Place(b) > Place(last)}
  <2>1. later \in SUBSET Scope /\ later # {} BY <1>2
  <2>2. NextAfter(last, class) = First(later) BY <2>1 DEF NextAfter
  <2> HIDE DEF later
  <2>3. First(later) \in later BY <2>1, <1>1
  <2> QED BY <2>2, <2>3 DEF later
<1>3. CASE ~\E b \in class : last # NoBucket /\ Place(b) > Place(last)
  <2>1. NextAfter(last, class) = First(class) BY <1>3 DEF NextAfter
  <2> QED BY <2>1, <1>1
<1> QED BY <1>2, <1>3

(* What is selected is ready, whichever of the three classes it comes from. *)
LEMMA SelectedIsReady ==
    ASSUME cfg \in ProbeConfig, NEW scope, Selectable(scope)
    PROVE  Selected(scope) \in ReadyBuckets(scope)
<1> DEFINE renewing == {b \in ReadyBuckets(scope) : IsRenewing(b)}
           missing == {b \in ReadyBuckets(scope) : IsMissing(b)}
           refreshes == {b \in ReadyBuckets(scope) : RefreshOnly(b)}
<1>1. /\ renewing \in SUBSET Scope /\ missing \in SUBSET Scope /\ refreshes \in SUBSET Scope
      /\ renewing \subseteq ReadyBuckets(scope) /\ missing \subseteq ReadyBuckets(scope)
      /\ refreshes \subseteq ReadyBuckets(scope)
    BY DEF ReadyBuckets
<1>2. ReadyBuckets(scope) \subseteq renewing \cup missing \cup refreshes BY DEF IsRenewing, IsMissing
<1>3. ReadyBuckets(scope) # {} BY DEF Selectable
<1>4. Selected(scope) = IF RenewalsFirst(renewing, missing) THEN NextAfter(lastRenew, renewing)
                        ELSE IF missing # {} THEN NextAfter(lastMissing, missing)
                        ELSE NextAfter(lastRenew, refreshes)
    BY DEF Selected
<1> HIDE DEF renewing, missing, refreshes
<1>5. CASE RenewalsFirst(renewing, missing)
  <2>1. renewing # {} BY <1>5 DEF RenewalsFirst
  <2> QED BY <1>1, <1>4, <1>5, <2>1, NextIsOfClass
<1>6. CASE ~RenewalsFirst(renewing, missing) /\ missing # {} BY <1>1, <1>4, <1>6, NextIsOfClass
<1>7. CASE ~RenewalsFirst(renewing, missing) /\ missing = {}
  <2>1. refreshes # {} BY <1>2, <1>3, <1>7 DEF RenewalsFirst
  <2> QED BY <1>1, <1>4, <1>7, <2>1, NextIsOfClass
<1> QED BY <1>5, <1>6, <1>7
-----------------------------------------------------------------------------
Ages == [0..Hour - 1 -> 0..MaxUsage]

(* A reservation adds at most one to the hour, whatever saturates. *)
LEMMA ReservedAddsOne ==
    ASSUME NEW ages \in Ages
    PROVE  /\ Reserved(ages) \in Ages
           /\ Total(ages) \in Nat /\ Total(Reserved(ages)) <= Total(ages) + 1
<1> USE ProbeAssumption
<1> DEFINE later == Reserved(ages)
           all == (0..Hour - 1) \X (1..MaxUsage)
           before == {r \in all : r[2] <= ages[r[1]]}
           after == {r \in all : r[2] <= later[r[1]]}
           one == <<0, ages[0] + 1>>
<1>1. later \in Ages BY DEF Reserved, Ages, Smaller
<1>2. IsFiniteSet(all)
  <2>1. Hour - 1 \in Int /\ MaxUsage \in Int OBVIOUS
  <2>2. IsFiniteSet(0..Hour - 1) /\ IsFiniteSet(1..MaxUsage) BY <2>1, FS_Interval
  <2> QED BY <2>2, FS_Product
<1>3. IsFiniteSet(before) /\ Cardinality(before) \in Nat BY <1>2, FS_Subset, FS_CardinalityType
<1>4. after \subseteq before \cup {one}
  <2> SUFFICES ASSUME NEW r \in all, r[2] <= later[r[1]], r \notin before PROVE r = one
      OBVIOUS
  <2>1. r[1] \in 0..Hour - 1 /\ r[2] \in 1..MaxUsage /\ r = <<r[1], r[2]>> OBVIOUS
  <2>2. r[2] > ages[r[1]] /\ ages[r[1]] \in Nat BY <2>1 DEF Ages
  <2>3. r[1] = 0
    <3> SUFFICES ASSUME r[1] # 0 PROVE FALSE OBVIOUS
    <3>1. later[r[1]] = ages[r[1]] BY <2>1 DEF Reserved, Ages
    <3> QED BY <2>1, <2>2, <3>1
  <2>4. later[0] <= ages[0] + 1 BY DEF Reserved, Ages, Smaller
  <2>5. r[2] <= later[0] /\ r[2] > ages[0] /\ later[0] \in Nat /\ ages[0] \in Nat
      BY <1>1, <2>2, <2>3 DEF Ages
  <2>6. r[2] = ages[0] + 1
    <3> HIDE DEF later
    <3> QED BY <2>1, <2>4, <2>5
  <2> QED BY <2>1, <2>3, <2>6
<1>5. /\ IsFiniteSet(before \cup {one})
      /\ Cardinality(before \cup {one}) <= Cardinality(before) + 1
  <2> HIDE DEF before, one
  <2>1. /\ IsFiniteSet(before \cup {one})
        /\ Cardinality(before \cup {one}) = IF one \in before THEN Cardinality(before) ELSE Cardinality(before) + 1
      BY <1>3, FS_AddElement
  <2> QED BY <1>3, <2>1
<1>6. Cardinality(after) <= Cardinality(before \cup {one}) /\ Cardinality(after) \in Nat
      /\ Cardinality(before \cup {one}) \in Nat
    BY <1>4, <1>5, FS_Subset, FS_CardinalityType
<1>7. Total(ages) = Cardinality(before) /\ Total(later) = Cardinality(after)
    BY <1>1 DEF Total, Ages
<1> HIDE DEF before, after, one, later
<1>8. Total(later) <= Total(ages) + 1 BY <1>3, <1>5, <1>6, <1>7
<1> QED BY <1>1, <1>3, <1>7, <1>8 DEF later

(* Time only lets reservations leave the hour. *)
LEMMA AgedLeaves ==
    ASSUME NEW ages \in Ages
    PROVE  Aged(ages) \in Ages /\ Total(Aged(ages)) \in Nat /\ Total(Aged(ages)) <= Total(ages)
<1> USE ProbeAssumption
<1> DEFINE later == Aged(ages)
           all == (0..Hour - 1) \X (1..MaxUsage)
           before == {r \in all : r[2] <= ages[r[1]]}
           after == {r \in all : r[2] <= later[r[1]]}
           younger == [r \in after |-> <<r[1] - 1, r[2]>>]
<1>1. later \in Ages BY DEF Aged, Ages
<1>2. IsFiniteSet(all)
  <2>1. Hour - 1 \in Int /\ MaxUsage \in Int OBVIOUS
  <2>2. IsFiniteSet(0..Hour - 1) /\ IsFiniteSet(1..MaxUsage) BY <2>1, FS_Interval
  <2> QED BY <2>2, FS_Product
<1>3. IsFiniteSet(before) /\ IsFiniteSet(after) BY <1>2, FS_Subset
<1>4. ASSUME NEW r \in after PROVE younger[r] \in before /\ r = <<r[1], r[2]>> /\ r[1] \in Int
  <2>1. r[1] \in 0..Hour - 1 /\ r[2] \in 1..MaxUsage /\ r = <<r[1], r[2]>> OBVIOUS
  <2>2. r[1] # 0 BY <2>1 DEF Aged, Ages
  <2>3. later[r[1]] = ages[r[1] - 1] BY <2>1, <2>2 DEF Aged, Ages
  <2>4. r[2] <= ages[r[1] - 1] BY <2>3
  <2>5. r[1] - 1 \in 0..Hour - 1 BY <2>1, <2>2
  <2>6. <<r[1] - 1, r[2]>> \in before BY <2>1, <2>4, <2>5
  <2> QED BY <2>1, <2>6
<1>5. \A r \in after : younger[r] = <<r[1] - 1, r[2]>> OBVIOUS
<1>5a. DOMAIN younger = after /\ younger = [r \in after |-> younger[r]] OBVIOUS
<1>6. Total(ages) = Cardinality(before) /\ Total(later) = Cardinality(after)
    BY <1>1 DEF Total, Ages
<1> HIDE DEF before, after, later, younger
<1>7. younger \in [after -> before] BY <1>4, <1>5a
<1>8. ASSUME NEW r \in after, NEW q \in after, younger[r] = younger[q] PROVE r = q
  <2>1. <<r[1] - 1, r[2]>> = <<q[1] - 1, q[2]>> BY <1>5, <1>8
  <2>2. r[1] - 1 = q[1] - 1 /\ r[2] = q[2] BY <2>1
  <2>3. r[1] = q[1] BY <2>2, <1>4
  <2> QED BY <1>4, <2>2, <2>3
<1>9. younger \in Injection(after, before) BY <1>7, <1>8 DEF Injection, IsInjective
<1>10. Cardinality(after) <= Cardinality(before) BY <1>3, <1>9, FS_Injection
<1>11. Cardinality(after) \in Nat BY <1>3, FS_CardinalityType
<1> QED BY <1>1, <1>6, <1>10, <1>11 DEF later
-----------------------------------------------------------------------------
(* The part of the state that limits and pauses are about. *)
CoolingInv ==
    /\ rest \in [Accounts -> [until : Nat, pacing : 0..Pacing]]
    /\ savedRest \in [Accounts -> [until : Nat, pacing : 0..Pacing]]
    /\ refusedFor \in [Accounts -> Nat]

LaneInv ==
    /\ probe = [s \in Slots |-> probe[s]]
    /\ \A s \in InFlight : probe[s].bucket \in Scope
    /\ OneProbePerAccount

(* Outside berserk renewal an account rests for as long as its last refusal asks, and none
   of its probes is still in flight to shorten that. *)
RefusalInv ==
    cfg.berserk = 0 =>
        /\ \A a \in Accounts :
              refusedFor[a] <= rest[a].until /\ (cfg.accountPause = 0 => refusedFor[a] = 0)
        /\ \A s \in InFlight : refusedFor[probe[s].bucket[1]] = 0

SpendingInv == usage \in Ages /\ sent = usage /\ BudgetKept

ProbeInv == cfg \in ProbeSettings /\ CoolingInv /\ LaneInv /\ RefusalInv /\ SpendingInv

(* A bucket of the settings is an account with a model. *)
LEMMA ScopeInBuckets == ASSUME cfg \in ProbeSettings PROVE cfg \in ProbeConfig /\ Scope \subseteq Buckets
<1>1. cfg \in ProbeConfig BY ProbeAssumption
<1>2. cfg.accounts \in Seq(Accounts) /\ cfg.models \in Seq(ProbeModels) BY <1>1 DEF ProbeConfig
<1>3. ToSet(cfg.accounts) \subseteq Accounts /\ ToSet(cfg.models) \subseteq ProbeModels
    BY <1>2 DEF ToSet
<1> QED BY <1>1, <1>3 DEF Scope, Buckets

LEMMA ProbeInvInit == ProbeInit => ProbeInv
<1> SUFFICES ASSUME ProbeInit PROVE ProbeInv OBVIOUS
<1> USE ProbeAssumption
<1>1. cfg \in ProbeSettings BY DEF ProbeInit
<1>2. CoolingInv BY DEF ProbeInit, CoolingInv, NoRest
<1>3. InFlight = {} BY DEF ProbeInit, InFlight
<1>4. LaneInv BY <1>3 DEF ProbeInit, LaneInv, OneProbePerAccount
<1>5. RefusalInv BY <1>3 DEF ProbeInit, RefusalInv, NoRest
<1>6. SpendingInv
  <2>1. usage \in Ages /\ sent = usage BY DEF ProbeInit, Ages
  <2>2. \A r \in (DOMAIN sent) \X (1..MaxUsage) : ~(r[2] <= sent[r[1]])
    <3> TAKE r \in (DOMAIN sent) \X (1..MaxUsage)
    <3>1. r[1] \in 0..Hour - 1 /\ r[2] \in 1..MaxUsage BY DEF ProbeInit
    <3>2. sent[r[1]] = 0 BY <3>1 DEF ProbeInit
    <3> QED BY <3>1, <3>2
  <2>3. Total(sent) = 0 BY <2>2, FS_EmptySet DEF Total
  <2>4. cfg.limit \in Nat BY <1>1, ScopeInBuckets DEF ProbeConfig
  <2> QED BY <2>1, <2>3, <2>4 DEF SpendingInv, BudgetKept
<1> QED BY <1>1, <1>2, <1>4, <1>5, <1>6 DEF ProbeInv

(* An account that a probe is sent for neither runs another, nor rests. *)
LEMMA SendsWhenFree ==
    ASSUME ProbeInv, NEW scope, Selectable(scope)
    PROVE  LET a == Selected(scope)[1]
           IN  /\ Selected(scope) \in Scope /\ a \in Accounts
               /\ cfg.berserk = 0 => ~AccountBusy(a)
               /\ cfg.berserk = 0 => refusedFor[a] = 0
<1> DEFINE b == Selected(scope)
<1>1. cfg \in ProbeConfig /\ Scope \subseteq Buckets BY ScopeInBuckets DEF ProbeInv
<1>2. b \in ReadyBuckets(scope) BY <1>1, SelectedIsReady
<1> HIDE DEF b
<1>3. b \in Scope /\ ~HeldBack(b) /\ PauseLeft(b[1]) = 0 BY <1>2 DEF ReadyBuckets, Ready
<1>4. b[1] \in Accounts BY <1>1, <1>3 DEF Buckets
<1>5. cfg.berserk = 0 => ~AccountBusy(b[1])
    BY <1>3 DEF HeldBack, InBerserkWindow
<1>6. cfg.berserk = 0 => refusedFor[b[1]] = 0
  <2> SUFFICES ASSUME cfg.berserk = 0 PROVE refusedFor[b[1]] = 0 OBVIOUS
  <2>1. /\ refusedFor[b[1]] <= rest[b[1]].until
        /\ cfg.accountPause = 0 => refusedFor[b[1]] = 0
      BY <1>4 DEF ProbeInv, RefusalInv
  <2>2. refusedFor[b[1]] \in Nat BY <1>4 DEF ProbeInv, CoolingInv
  <2> QED BY <1>3, <2>1, <2>2 DEF PauseLeft
<1> QED BY <1>3, <1>4, <1>5, <1>6 DEF b
-----------------------------------------------------------------------------
(* A probe that ends leaves the others as they were. *)
LEMMA ReleaseKeepsLanes ==
    ASSUME LaneInv, NEW s \in Slots, probe' = [probe EXCEPT ![s] = NoProbe], cfg' = cfg
    PROVE  LaneInv' /\ \A u \in InFlight' : u \in InFlight /\ u # s /\ probe'[u] = probe[u]
<1>1. probe' = [u \in Slots |-> IF u = s THEN NoProbe ELSE probe[u]] BY DEF LaneInv
<1>2. \A u \in InFlight' : u \in InFlight /\ u # s /\ probe'[u] = probe[u] BY <1>1 DEF InFlight
<1>3. Scope' = Scope BY DEF Scope
<1> QED BY <1>1, <1>2, <1>3 DEF LaneInv, OneProbePerAccount

(* A reservation keeps the limits. *)
LEMMA ReserveKeeps ==
    ASSUME ProbeInv, NEW s \in Slots, NEW scope, NEW limit, Reserve(s, scope, limit)
    PROVE  ProbeInv'
<1> DEFINE b == Selected(scope)
           sending == [bucket |-> b, exit |-> ChosenExit(b), refresh |-> RefreshOnly(b)]
<1>1. /\ probe' = [probe EXCEPT ![s] = sending] /\ Selectable(scope) /\ ~BudgetExhausted
      /\ cfg' = cfg /\ rest' = rest /\ savedRest' = rest /\ refusedFor' = refusedFor
      /\ usage' = Reserved(usage) /\ sent' = Reserved(sent)
    BY DEF Reserve
<1>2. /\ b \in Scope /\ b[1] \in Accounts
      /\ cfg.berserk = 0 => ~AccountBusy(b[1])
      /\ cfg.berserk = 0 => refusedFor[b[1]] = 0
    BY <1>1, SendsWhenFree
<1>3. sending.bucket = b OBVIOUS
<1> HIDE DEF b, sending
<1>4. probe' = [u \in Slots |-> IF u = s THEN sending ELSE probe[u]] BY <1>1 DEF ProbeInv, LaneInv
<1>5. \A u \in InFlight' : (u = s /\ probe'[u].bucket = b) \/ (u # s /\ u \in InFlight /\ probe'[u] = probe[u])
  <2> SUFFICES ASSUME NEW u \in InFlight'
               PROVE  (u = s /\ probe'[u].bucket = b) \/ (u # s /\ u \in InFlight /\ probe'[u] = probe[u])
      OBVIOUS
  <2>1. u \in Slots /\ probe'[u] # NoProbe BY DEF InFlight
  <2>2. probe'[u] = IF u = s THEN sending ELSE probe[u] BY <1>4, <2>1
  <2> QED BY <1>3, <2>1, <2>2 DEF InFlight
<1>6. CoolingInv' BY <1>1 DEF ProbeInv, CoolingInv
<1>7. LaneInv'
  <2>1. Scope' = Scope BY <1>1 DEF Scope
  <2>2. \A u \in InFlight' : probe'[u].bucket \in Scope' BY <1>2, <1>5, <2>1 DEF ProbeInv, LaneInv
  <2>3. cfg.berserk \in Nat BY ScopeInBuckets DEF ProbeInv, ProbeConfig
  <2>4. ASSUME NEW u \in InFlight', NEW v \in InFlight', probe'[u].bucket[1] = probe'[v].bucket[1],
               cfg.berserk = 0
        PROVE  u = v
    <3>1. \A w \in InFlight : probe[w].bucket[1] # b[1] BY <1>2, <2>4 DEF AccountBusy
    <3>2. u # s /\ v # s => u = v
        BY <1>5, <2>4 DEF ProbeInv, LaneInv, OneProbePerAccount
    <3> QED BY <1>5, <2>4, <3>1, <3>2
  <2>5. OneProbePerAccount' BY <1>1, <2>3, <2>4 DEF OneProbePerAccount
  <2> QED BY <1>4, <2>2, <2>5 DEF LaneInv
<1>8. RefusalInv'
    BY <1>1, <1>2, <1>5 DEF ProbeInv, RefusalInv
<1>9. SpendingInv'
  <2>1. /\ usage \in Ages /\ sent = usage /\ cfg.limit \in Nat
      BY ScopeInBuckets DEF ProbeInv, SpendingInv, ProbeConfig
  <2>2. /\ Reserved(usage) \in Ages /\ Total(usage) \in Nat /\ Total(Reserved(usage)) <= Total(usage) + 1
      BY <2>1, ReservedAddsOne
  <2>3. Total(Reserved(usage)) \in Nat BY <2>2, ReservedAddsOne
  <2>4. cfg.limit > 0 => Total(usage) < cfg.limit BY <1>1, <2>1, <2>2 DEF BudgetExhausted, Spent
  <2>5. cfg.limit > 0 => Total(Reserved(usage)) <= cfg.limit BY <2>1, <2>2, <2>3, <2>4
  <2>6. sent' = Reserved(usage) /\ usage' = Reserved(usage) BY <1>1, <2>1
  <2> QED BY <1>1, <2>2, <2>5, <2>6 DEF SpendingInv, BudgetKept
<1>10. cfg' \in ProbeSettings BY <1>1 DEF ProbeInv
<1> QED BY <1>6, <1>7, <1>8, <1>9, <1>10 DEF ProbeInv

(* Nothing is spent. *)
LEMMA SpendingStays == SpendingInv /\ UNCHANGED <<cfg, usage, sent>> => SpendingInv'
BY DEF SpendingInv, BudgetKept

(* What an account rests for after an answer. *)
LEMMA PauseType ==
    ASSUME cfg \in ProbeSettings, NEW outcome
    PROVE  /\ Pause(outcome) \in Nat /\ Pacing \in 0..Pacing /\ cfg.accountPause \in Nat
           /\ outcome = "refused" => cfg.accountPause <= Pause(outcome)
<1>1. cfg.accountPause \in Nat BY ScopeInBuckets DEF ProbeConfig
<1> QED BY <1>1, ProbeAssumption DEF Pause, Larger

(* An answer gives the account the pause it asks for, and no other account any. *)
LEMMA AnswerKeeps ==
    ASSUME ProbeInv, NEW s \in Slots, probe[s] # NoProbe, NEW outcome,
           probe' = [probe EXCEPT ![s] = NoProbe], UNCHANGED <<cfg, usage, sent>>,
           NEW rests \in [Accounts -> [until : Nat, pacing : 0..Pacing]], rest' = rests,
           savedRest' \in [Accounts -> [until : Nat, pacing : 0..Pacing]],
           \A a \in Accounts \ {probe[s].bucket[1]} : rests[a] = rest[a],
           outcome = "refused" => rests[probe[s].bucket[1]].until >= cfg.accountPause,
           refusedFor' = IF outcome = "refused"
                         THEN [refusedFor EXCEPT ![probe[s].bucket[1]] = cfg.accountPause]
                         ELSE refusedFor
    PROVE  ProbeInv'
<1> DEFINE a == probe[s].bucket[1]
<1>1. s \in InFlight /\ cfg \in ProbeSettings /\ LaneInv /\ CoolingInv /\ SpendingInv BY DEF InFlight, ProbeInv
<1>2. a \in Accounts BY <1>1, ScopeInBuckets DEF LaneInv, Buckets
<1>3. LaneInv' /\ \A u \in InFlight' : u \in InFlight /\ u # s /\ probe'[u] = probe[u]
    BY <1>1, ReleaseKeepsLanes
<1>4. cfg.accountPause \in Nat BY <1>1, PauseType
<1>5. refusedFor' \in [Accounts -> Nat] BY <1>1, <1>4 DEF CoolingInv
<1>6. CoolingInv' BY <1>5 DEF CoolingInv
<1>7. ASSUME cfg.berserk = 0 PROVE RefusalInv'
  <2>1. refusedFor[a] = 0 /\ \A u \in InFlight : refusedFor[probe[u].bucket[1]] = 0
      BY <1>1, <1>7 DEF ProbeInv, RefusalInv
  <2>2. \A u \in InFlight : u # s => probe[u].bucket[1] # a
    <3>1. OneProbePerAccount /\ ~(cfg.berserk > 0) BY <1>1, <1>7 DEF LaneInv
    <3> QED BY <1>1, <3>1, Zenon DEF OneProbePerAccount
  <2>3. \A u \in InFlight' : refusedFor'[probe'[u].bucket[1]] = 0
      BY <1>1, <1>3, <2>1, <2>2 DEF CoolingInv
  <2>4. ASSUME NEW c \in Accounts
        PROVE  refusedFor'[c] <= rest'[c].until /\ (cfg.accountPause = 0 => refusedFor'[c] = 0)
    <3>1. refusedFor[c] <= rest[c].until /\ (cfg.accountPause = 0 => refusedFor[c] = 0)
        BY <1>7 DEF ProbeInv, RefusalInv
    <3>2. rests[c].until \in Nat OBVIOUS
    <3>3. CASE c # a BY <1>1, <3>1, <3>3 DEF CoolingInv
    <3>4. CASE c = a /\ outcome # "refused" BY <2>1, <3>2, <3>4
    <3>5. CASE c = a /\ outcome = "refused"
      <4>1. refusedFor'[c] = cfg.accountPause BY <1>1, <1>2, <3>5 DEF CoolingInv
      <4> QED BY <3>2, <3>5, <4>1, <1>4
    <3> QED BY <3>3, <3>4, <3>5
  <2> QED BY <2>3, <2>4 DEF RefusalInv
<1>8. RefusalInv' BY <1>7 DEF RefusalInv
<1>9. SpendingInv' BY <1>1, SpendingStays
<1> QED BY <1>1, <1>3, <1>6, <1>8, <1>9 DEF ProbeInv

LEMMA FinishKeeps ==
    ASSUME ProbeInv, NEW s \in Slots, NEW outcome, NEW proxyFault, Finish(s, outcome, proxyFault)
    PROVE  ProbeInv'
<1> DEFINE a == probe[s].bucket[1]
           rests == PausedAccount(a, outcome)
<1>1. /\ probe[s] # NoProbe /\ rest' = rests /\ savedRest' = rest'
      /\ probe' = [probe EXCEPT ![s] = NoProbe] /\ UNCHANGED <<cfg, usage, sent>>
      /\ refusedFor' = IF outcome = "refused" THEN [refusedFor EXCEPT ![a] = cfg.accountPause] ELSE refusedFor
    BY DEF Finish, Answer
<1>2. s \in InFlight /\ rest \in [Accounts -> [until : Nat, pacing : 0..Pacing]] /\ cfg \in ProbeSettings
    BY <1>1 DEF InFlight, ProbeInv, CoolingInv
<1>3. a \in Accounts BY <1>2, ScopeInBuckets DEF ProbeInv, LaneInv, Buckets
<1>4. /\ Pause(outcome) \in Nat /\ Pacing \in 0..Pacing /\ cfg.accountPause \in Nat
      /\ outcome = "refused" => cfg.accountPause <= Pause(outcome)
    BY <1>2, PauseType
<1>5. /\ rests \in [Accounts -> [until : Nat, pacing : 0..Pacing]]
      /\ \A c \in Accounts \ {a} : rests[c] = rest[c]
      /\ rests[a].until = Pause(outcome)
    BY <1>2, <1>3, <1>4 DEF PausedAccount
<1> HIDE DEF rests
<1>6. outcome = "refused" => rests[a].until >= cfg.accountPause BY <1>4, <1>5
<1>7. savedRest' \in [Accounts -> [until : Nat, pacing : 0..Pacing]] BY <1>1, <1>5
<1> QED BY <1>1, <1>5, <1>6, <1>7, AnswerKeeps

LEMMA FinishUnsavedKeeps ==
    ASSUME ProbeInv, NEW s \in Slots, NEW outcome, FinishUnsaved(s, outcome)
    PROVE  ProbeInv'
<1> DEFINE a == probe[s].bucket[1]
           kept == [until |-> Larger(Pause(outcome), rest[a].until), pacing |-> Pacing]
           rests == IF outcome = "refused" THEN [rest EXCEPT ![a] = kept] ELSE rest
<1>1. /\ probe[s] # NoProbe /\ savedRest' = savedRest
      /\ probe' = [probe EXCEPT ![s] = NoProbe] /\ UNCHANGED <<cfg, usage, sent>>
      /\ refusedFor' = IF outcome = "refused" THEN [refusedFor EXCEPT ![a] = cfg.accountPause] ELSE refusedFor
    BY DEF FinishUnsaved
<1>2. /\ s \in InFlight /\ rest \in [Accounts -> [until : Nat, pacing : 0..Pacing]] /\ cfg \in ProbeSettings
      /\ savedRest \in [Accounts -> [until : Nat, pacing : 0..Pacing]]
    BY <1>1 DEF InFlight, ProbeInv, CoolingInv
<1>3. a \in Accounts BY <1>2, ScopeInBuckets DEF ProbeInv, LaneInv, Buckets
<1>4. rest' = rests BY <1>2, <1>3 DEF FinishUnsaved
<1>5. /\ Pause(outcome) \in Nat /\ Pacing \in 0..Pacing /\ cfg.accountPause \in Nat
      /\ outcome = "refused" => cfg.accountPause <= Pause(outcome)
    BY <1>2, PauseType
<1>6. rest[a].until \in Nat BY <1>2, <1>3
<1>7. kept \in [until : Nat, pacing : 0..Pacing] /\ kept.until >= Pause(outcome)
    BY <1>5, <1>6 DEF Larger
<1> HIDE DEF kept
<1>8. /\ rests \in [Accounts -> [until : Nat, pacing : 0..Pacing]]
      /\ \A c \in Accounts \ {a} : rests[c] = rest[c]
      /\ outcome = "refused" => rests[a] = kept
    BY <1>2, <1>3, <1>7
<1> HIDE DEF rests
<1>9. outcome = "refused" => rests[a].until >= cfg.accountPause
  <2>1. kept.until \in Nat BY <1>7
  <2> QED BY <1>5, <1>7, <1>8, <2>1
<1> QED BY <1>1, <1>2, <1>4, <1>8, <1>9, AnswerKeeps

(* A restart forgets the probes in flight and every pause that was not saved, and with those
   pauses what they were for. *)
LEMMA StopProbingKeeps == ASSUME ProbeInv, StopProbing PROVE ProbeInv'
<1>1. InFlight' = {} BY DEF StopProbing, InFlight
<1>2. LaneInv' BY <1>1 DEF StopProbing, LaneInv, OneProbePerAccount
<1>3. /\ savedRest \in [Accounts -> [until : Nat, pacing : 0..Pacing]] /\ refusedFor \in [Accounts -> Nat]
      /\ rest' = savedRest /\ savedRest' = savedRest /\ cfg' = cfg
      /\ refusedFor' = [a \in Accounts |-> Smaller(refusedFor[a], savedRest[a].until)]
    BY DEF ProbeInv, CoolingInv, StopProbing
<1>4. \A a \in Accounts : /\ refusedFor'[a] \in Nat /\ refusedFor'[a] <= savedRest[a].until
                          /\ refusedFor'[a] <= refusedFor[a]
  <2> TAKE a \in Accounts
  <2>1. savedRest[a].until \in Nat /\ refusedFor[a] \in Nat BY <1>3
  <2>2. refusedFor'[a] = Smaller(refusedFor[a], savedRest[a].until) BY <1>3
  <2> QED BY <2>1, <2>2 DEF Smaller
<1>5. refusedFor' \in [Accounts -> Nat]
  <2>1. refusedFor' = [a \in Accounts |-> refusedFor'[a]] BY <1>3
  <2> QED BY <1>4, <2>1
<1>6. CoolingInv' BY <1>3, <1>5 DEF CoolingInv
<1>7. RefusalInv'
  <2>1. ASSUME cfg.berserk = 0, cfg.accountPause = 0, NEW a \in Accounts PROVE refusedFor'[a] = 0
    <3>1. refusedFor[a] = 0 BY <2>1 DEF ProbeInv, RefusalInv
    <3> QED BY <3>1, <1>4
  <2> QED BY <1>1, <1>3, <1>4, <2>1 DEF RefusalInv
<1>8. SpendingInv' BY SpendingStays DEF ProbeInv, StopProbing
<1> QED BY <1>2, <1>3, <1>6, <1>7, <1>8 DEF ProbeInv

(* The operator's reset takes pauses and what they were for together, and waits for the probes
   under way. *)
LEMMA ClearCooldownsKeeps == ASSUME ProbeInv, NEW scope, ClearCooldowns(scope) PROVE ProbeInv'
<1> DEFINE accounts == {b[1] : b \in scope}
<1>1. /\ rest' = [a \in Accounts |-> IF a \in accounts THEN NoRest ELSE rest[a]]
      /\ refusedFor' = [a \in Accounts |-> IF a \in accounts THEN 0 ELSE refusedFor[a]]
      /\ savedRest' = rest' /\ UNCHANGED <<cfg, probe, usage, sent>>
    BY DEF ClearCooldowns
<1> HIDE DEF accounts
<1>2. InFlight' = {} BY DEF ClearCooldowns, InFlight
<1>3. LaneInv' BY <1>1, <1>2 DEF ProbeInv, LaneInv, OneProbePerAccount
<1>4. NoRest \in [until : Nat, pacing : 0..Pacing] /\ NoRest.until = 0 BY ProbeAssumption DEF NoRest
<1>5. CoolingInv' BY <1>1, <1>4 DEF ProbeInv, CoolingInv
<1>6. RefusalInv'
  <2>1. ASSUME cfg.berserk = 0, NEW a \in Accounts
        PROVE  refusedFor'[a] <= rest'[a].until /\ (cfg.accountPause = 0 => refusedFor'[a] = 0)
    <3>1. refusedFor[a] <= rest[a].until /\ (cfg.accountPause = 0 => refusedFor[a] = 0)
        BY <2>1 DEF ProbeInv, RefusalInv
    <3>2. CASE a \in accounts BY <1>1, <1>4, <3>2
    <3>3. CASE a \notin accounts BY <1>1, <3>1, <3>3
    <3> QED BY <3>2, <3>3
  <2> QED BY <1>1, <1>2, <2>1 DEF RefusalInv
<1>7. SpendingInv' BY <1>1, SpendingStays DEF ProbeInv
<1> QED BY <1>1, <1>3, <1>5, <1>6, <1>7 DEF ProbeInv

(* Time runs for a pause and for the refusal behind it alike. *)
LEMMA ProbeTimeKeeps == ASSUME ProbeInv, ProbeTime PROVE ProbeInv'
<1>1. /\ rest' = [a \in Accounts |-> RestSooner(rest[a])]
      /\ savedRest' = [a \in Accounts |-> RestSooner(savedRest[a])]
      /\ refusedFor' = [a \in Accounts |-> Sooner(refusedFor[a])]
      /\ usage' = Aged(usage) /\ sent' = Aged(sent) /\ UNCHANGED <<cfg, probe>>
    BY DEF ProbeTime
<1>2. CoolingInv BY DEF ProbeInv
<1>3. ASSUME NEW r \in [until : Nat, pacing : 0..Pacing]
      PROVE  RestSooner(r) \in [until : Nat, pacing : 0..Pacing] /\ RestSooner(r).until = Sooner(r.until)
  <2>1. Sooner(r.until) \in Nat /\ Sooner(r.pacing) \in 0..Pacing BY ProbeAssumption DEF Sooner
  <2> QED BY <2>1 DEF RestSooner
<1>4. CoolingInv'
  <2>1. \A n \in Nat : Sooner(n) \in Nat BY DEF Sooner
  <2> QED BY <1>1, <1>2, <1>3, <2>1 DEF CoolingInv
<1>5. InFlight' = InFlight /\ Scope' = Scope BY <1>1 DEF InFlight, Scope
<1>6. LaneInv' BY <1>1, <1>5 DEF ProbeInv, LaneInv, OneProbePerAccount
<1>7. RefusalInv'
  <2>1. ASSUME cfg.berserk = 0, NEW a \in Accounts
        PROVE  refusedFor'[a] <= rest'[a].until /\ (refusedFor[a] = 0 => refusedFor'[a] = 0)
    <3>1. refusedFor[a] <= rest[a].until BY <2>1 DEF ProbeInv, RefusalInv
    <3>2. refusedFor[a] \in Nat /\ rest[a] \in [until : Nat, pacing : 0..Pacing] BY <1>2 DEF CoolingInv
    <3>3. rest'[a].until = Sooner(rest[a].until) /\ refusedFor'[a] = Sooner(refusedFor[a])
        BY <1>1, <1>3, <3>2
    <3> QED BY <3>1, <3>2, <3>3 DEF Sooner
  <2>2. ASSUME cfg.berserk = 0, NEW s \in InFlight PROVE refusedFor'[probe[s].bucket[1]] = 0
    <3>1. probe[s].bucket[1] \in Accounts BY ScopeInBuckets DEF ProbeInv, LaneInv, Buckets
    <3>2. refusedFor[probe[s].bucket[1]] = 0 BY <2>2 DEF ProbeInv, RefusalInv
    <3> QED BY <2>1, <2>2, <3>1, <3>2
  <2>3. ASSUME cfg.berserk = 0, cfg.accountPause = 0, NEW a \in Accounts PROVE refusedFor'[a] = 0
    <3>1. refusedFor[a] = 0 BY <2>3 DEF ProbeInv, RefusalInv
    <3> QED BY <2>1, <2>3, <3>1
  <2> QED BY <1>1, <1>5, <2>1, <2>2, <2>3 DEF RefusalInv
<1>8. SpendingInv'
  <2>1. usage \in Ages /\ sent = usage /\ cfg.limit \in Nat /\ BudgetKept
      BY ScopeInBuckets DEF ProbeInv, SpendingInv, ProbeConfig
  <2>2. Aged(usage) \in Ages /\ Total(Aged(usage)) \in Nat /\ Total(Aged(usage)) <= Total(usage)
      BY <2>1, AgedLeaves
  <2>3. Total(usage) \in Nat BY <2>1, ReservedAddsOne
  <2>4. sent' = Aged(usage) /\ usage' = Aged(usage) /\ cfg' = cfg BY <1>1, <2>1
  <2>5. cfg.limit > 0 => Total(Aged(usage)) <= cfg.limit BY <2>1, <2>2, <2>3 DEF BudgetKept
  <2> QED BY <2>2, <2>4, <2>5 DEF SpendingInv, BudgetKept
<1> QED BY <1>1, <1>4, <1>6, <1>7, <1>8 DEF ProbeInv

LEMMA ProbeInvStep == ProbeInv /\ [ProbeNext]_probeVars => ProbeInv'
<1> SUFFICES ASSUME ProbeInv, [ProbeNext]_probeVars PROVE ProbeInv' OBVIOUS
<1>1. ASSUME NEW s \in Slots, NEW scope, NEW limit, Reserve(s, scope, limit) PROVE ProbeInv'
    BY <1>1, ReserveKeeps
<1>2. ASSUME NEW s \in Slots, FinishNext(s) PROVE ProbeInv' BY <1>2, FinishKeeps DEF FinishNext
<1>3. ASSUME NEW s \in Slots, NEW outcome, FinishUnsaved(s, outcome) PROVE ProbeInv'
    BY <1>3, FinishUnsavedKeeps
<1>4. ASSUME UNCHANGED <<cfg, rest, refusedFor, usage, sent, probe>>,
             savedRest' \in [Accounts -> [until : Nat, pacing : 0..Pacing]]
      PROVE  ProbeInv'
  <2>1. InFlight' = InFlight /\ Scope' = Scope BY <1>4 DEF InFlight, Scope
  <2>2. LaneInv' BY <1>4, <2>1 DEF ProbeInv, LaneInv, OneProbePerAccount
  <2>3. RefusalInv' BY <1>4, <2>1 DEF ProbeInv, RefusalInv
  <2>4. CoolingInv' BY <1>4 DEF ProbeInv, CoolingInv
  <2>5. SpendingInv' BY <1>4, SpendingStays DEF ProbeInv
  <2> QED BY <1>4, <2>2, <2>3, <2>4, <2>5 DEF ProbeInv
<1>5. ASSUME NEW b, Learn(b) PROVE ProbeInv' BY <1>5, <1>4 DEF Learn, ProbeInv, CoolingInv
<1>6. CASE PersistPauses BY <1>6, <1>4 DEF PersistPauses, ProbeInv, CoolingInv
<1>7. CASE UNCHANGED probeVars BY <1>7, <1>4 DEF probeVars, ProbeInv, CoolingInv
<1>8. CASE CollectorNext
    BY <1>1, <1>2, <1>3, <1>5, <1>6, <1>8, StopProbingKeeps, ProbeTimeKeeps DEF CollectorNext, ReserveNext
<1>9. CASE OperatorNext BY <1>1, <1>9, ClearCooldownsKeeps DEF OperatorNext
<1> QED BY <1>7, <1>8, <1>9 DEF ProbeNext

LEMMA ProbeInvHolds == ProbeSpec => []ProbeInv
BY ProbeInvInit, ProbeInvStep, PTL DEF ProbeSpec

(* No hour sees more probes than the operator's budget, and no account two at once outside
   berserk renewal: for any accounts, models, exits and settings, any number of lanes, manual
   probes beside them, answers that cannot be saved, and restarts (reserveProbe, probe.go:226). *)
THEOREM ProbesKeepTheirLimits == ProbeSpec => []ProbesStayWithinLimits
<1>1. ProbeInv => ProbesStayWithinLimits
    BY DEF ProbeInv, SpendingInv, LaneInv, ProbesStayWithinLimits
<1> QED BY <1>1, ProbeInvHolds, PTL

(* Nothing is sent for an account the upstream refused before its pause is over, even if the
   answer could not be saved and another bucket or exit of the account is due (finishProbe). *)
THEOREM RefusedAccountsRest == ProbeSpec => RefusalsPause
<1> DEFINE Step == \A s \in Slots : Sends(s) /\ cfg.berserk = 0 => refusedFor[probe'[s].bucket[1]] = 0
<1>1. ProbeInv /\ [ProbeNext]_probeVars => Step
  <2> SUFFICES ASSUME ProbeInv, [ProbeNext]_probeVars, NEW s \in Slots, Sends(s), cfg.berserk = 0
               PROVE  refusedFor[probe'[s].bucket[1]] = 0
      OBVIOUS
  <2>0. probe[s] = NoProbe /\ probe'[s] # NoProbe BY DEF Sends
  <2>1. \E u \in Slots : \E scope, limit : Reserve(u, scope, limit)
    <3>1. ASSUME NEW u \in Slots, NEW scope, NEW limit, Reserve(u, scope, limit)
          PROVE  \E v \in Slots : \E sc, li : Reserve(v, sc, li)
        BY <3>1
    <3>2. ~UNCHANGED probe BY <2>0
    <3>3. ASSUME NEW u \in Slots PROVE probe' # [probe EXCEPT ![u] = NoProbe]
      <4>1. probe = [w \in Slots |-> probe[w]] BY DEF ProbeInv, LaneInv
      <4> QED BY <2>0, <4>1
    <3>4. \A u \in Slots : ~FinishNext(u) BY <3>3 DEF FinishNext, Finish
    <3>5. \A u \in Slots : \A outcome : ~FinishUnsaved(u, outcome) BY <3>3 DEF FinishUnsaved
    <3>6. /\ ~PersistPauses /\ ~ProbeTime /\ \A b : ~Learn(b) /\ \A scope : ~ClearCooldowns(scope)
        BY <3>2 DEF PersistPauses, ProbeTime, Learn, ClearCooldowns
    <3>7. ~StopProbing BY <2>0 DEF StopProbing
    <3>8. ~UNCHANGED probeVars BY <3>2 DEF probeVars
    <3>9. CollectorNext \/ OperatorNext BY <3>8 DEF ProbeNext
    <3>10. \/ \E u \in Slots : ReserveNext(u)
           \/ \E u \in Slots, scope \in UsageScopes : Reserve(u, scope, 1)
        BY <3>4, <3>5, <3>6, <3>7, <3>9 DEF CollectorNext, OperatorNext
    <3> QED BY <3>1, <3>10 DEF ReserveNext
  <2>2. PICK u, scope, limit : u \in Slots /\ Reserve(u, scope, limit) BY <2>1
  <2> DEFINE sending == [bucket |-> Selected(scope), exit |-> ChosenExit(Selected(scope)),
                         refresh |-> RefreshOnly(Selected(scope))]
  <2>3. probe' = [probe EXCEPT ![u] = sending] /\ Selectable(scope) BY <2>2 DEF Reserve
  <2>4. sending.bucket = Selected(scope) OBVIOUS
  <2> HIDE DEF sending
  <2>5. u = s /\ probe'[s] = sending
    <3>1. probe = [w \in Slots |-> probe[w]] BY DEF ProbeInv, LaneInv
    <3>2. probe'[s] = IF u = s THEN sending ELSE probe[s] BY <2>3, <3>1
    <3> QED BY <2>0, <3>2
  <2> QED BY <2>3, <2>4, <2>5, SendsWhenFree
<1>2. ProbeInv /\ [ProbeNext]_probeVars
        => [\A s \in Slots : Sends(s) /\ cfg.berserk = 0 => refusedFor[probe'[s].bucket[1]] = 0]_probeVars
    BY <1>1
<1> QED BY <1>2, ProbeInvHolds, PTL DEF ProbeSpec, RefusalsPause
-----------------------------------------------------------------------------
(* The event that ends at line b, read in one pass: where it begins, its data and its name. *)
Grown(v, ls, a, i, field) ==
    IF i < a THEN <<>> ELSE IF ls[i].field = field THEN Append(v, ls[i].value) ELSE v
Gathers(f, ls, a, b, field) == f[0] = <<>> /\ \A i \in 1..b : f[i] = Grown(f[i - 1], ls, a, i, field)
Starts(ls, a, b) ==
    /\ a \in 1..b /\ (a - 1 = 0 \/ ls[a - 1] = Blank)
    /\ \A i \in a..(b - 1) : ls[i] # Blank
Says(ls, a, b, values, name) ==
    /\ values \in Seq(Payloads) /\ \E f : Gathers(f, ls, a, b, "data") /\ f[b] = values
    /\ \E g : Gathers(g, ls, a, b, "event") /\ g[b] \in Seq(Names) /\ LastOf(g[b]) = name
Ends(ls, b, values, name) == \E a \in 1..b : Starts(ls, a, b) /\ Says(ls, a, b, values, name)

LEMMA GathersAgree ==
    ASSUME NEW ls, NEW a, NEW b \in Nat, NEW field, NEW f, NEW g, Gathers(f, ls, a, b, field), Gathers(g, ls, a, b, field)
    PROVE  f[b] = g[b]
<1> DEFINE W == {n \in 0..b : f[n] # g[n]}
<1>1. W \in SUBSET Nat OBVIOUS
<1>2. W = {}
  <2> SUFFICES ASSUME W # {} PROVE FALSE OBVIOUS
  <2>1. PICK m \in W : \A n \in W : m <= n
    <3> HIDE DEF W
    <3> QED BY <1>1, LeastNumber
  <2>2. m # 0 /\ m \in 1..b BY <2>1 DEF Gathers
  <2>3. m - 1 \in 0..b /\ ~(m <= m - 1) BY <2>2
  <2>4. m - 1 \notin W
    <3> HIDE DEF W
    <3> QED BY <2>1, <2>3
  <2>5. f[m - 1] = g[m - 1] BY <2>3, <2>4
  <2>6. f[m] = g[m] BY <2>2, <2>5 DEF Gathers
  <2> QED BY <2>1, <2>6
<1>3. b \in 0..b OBVIOUS
<1> QED BY <1>2, <1>3

LEMMA StartIsFound ==
    ASSUME NEW ls, NEW b \in Nat, NEW a, Starts(ls, a, b)
    PROVE  StartOf(ls, b) = a
<1>1. a \in 1..b /\ BlankAt(ls, a - 1) /\ \A i \in a..(b - 1) : ls[i] # Blank BY DEF Starts, BlankAt
<1>2. ASSUME NEW c \in 1..b, BlankAt(ls, c - 1), \A i \in c..(b - 1) : ls[i] # Blank PROVE c = a
  <2>1. ~(c < a)
    <3> SUFFICES ASSUME c < a PROVE FALSE OBVIOUS
    <3>1. a - 1 \in c..(b - 1) /\ a - 1 # 0 BY <1>1
    <3> QED BY <1>1, <1>2, <3>1 DEF BlankAt
  <2>2. ~(a < c)
    <3> SUFFICES ASSUME a < c PROVE FALSE OBVIOUS
    <3>1. c - 1 \in a..(b - 1) /\ c - 1 # 0 BY <1>1
    <3> QED BY <1>1, <1>2, <3>1 DEF BlankAt
  <2> QED BY <1>1, <2>1, <2>2
<1>3. StartOf(ls, b) \in 1..b /\ BlankAt(ls, StartOf(ls, b) - 1) /\ \A i \in StartOf(ls, b)..(b - 1) : ls[i] # Blank
    BY <1>1 DEF StartOf
<1> QED BY <1>2, <1>3

LEMMA ValuesFound ==
    ASSUME NEW ls, NEW b \in Nat, NEW a, Starts(ls, a, b), NEW field, NEW f, Gathers(f, ls, a, b, field)
    PROVE  Values(ls, b, field) = f[b]
<1> DEFINE its == CHOOSE its : its = [i \in 0..b |-> IF i < a THEN <<>>
                                     ELSE IF ls[i].field = field THEN Append(its[i - 1], ls[i].value)
                                     ELSE its[i - 1]]
<1>1. StartOf(ls, b) = a BY StartIsFound
<1>2. Values(ls, b, field) = its[b] BY <1>1 DEF Values
<1>3. a \in Int /\ 0 < a BY DEF Starts
<1>4. PICK g : g = [i \in 0..b |-> f[i]] OBVIOUS
<1>5. g = [i \in 0..b |-> IF i < a THEN <<>>
                          ELSE IF ls[i].field = field THEN Append(g[i - 1], ls[i].value)
                          ELSE g[i - 1]]
  <2>1. ASSUME NEW i \in 0..b
        PROVE  f[i] = IF i < a THEN <<>>
                      ELSE IF ls[i].field = field THEN Append(g[i - 1], ls[i].value)
                      ELSE g[i - 1]
    <3>1. CASE i = 0 BY <1>3, <3>1 DEF Gathers
    <3>2. CASE i # 0
      <4>1. i \in 1..b /\ i - 1 \in 0..b BY <3>2
      <4>2. g[i - 1] = f[i - 1] BY <1>4, <4>1
      <4> QED BY <4>1, <4>2 DEF Gathers, Grown
    <3> QED BY <3>1, <3>2
  <2> QED BY <1>4, <2>1
<1>6. its = [i \in 0..b |-> IF i < a THEN <<>>
                            ELSE IF ls[i].field = field THEN Append(its[i - 1], ls[i].value)
                            ELSE its[i - 1]]
    BY <1>5
<1>7. Gathers(its, ls, a, b, field)
  <2> HIDE DEF its
  <2>1. its[0] = <<>> BY <1>3, <1>6
  <2>2. \A i \in 1..b : i \in 0..b OBVIOUS
  <2> QED BY <1>6, <2>1, <2>2 DEF Gathers, Grown
<1> HIDE DEF its
<1> QED BY <1>2, <1>7, GathersAgree

LEMMA EventFound ==
    ASSUME NEW ls, NEW b \in Nat, NEW values, NEW name, Ends(ls, b, values, name)
    PROVE  Values(ls, b, "data") = values /\ NameOf(ls, b) = name
<1>1. PICK a \in 1..b : Starts(ls, a, b) /\ Says(ls, a, b, values, name) BY DEF Ends
<1>2. PICK f : Gathers(f, ls, a, b, "data") /\ f[b] = values BY <1>1 DEF Says
<1>3. PICK g : Gathers(g, ls, a, b, "event") /\ LastOf(g[b]) = name BY <1>1 DEF Says
<1> QED BY <1>1, <1>2, <1>3, ValuesFound DEF NameOf

LEMMA LineKinds ==
    ASSUME NEW line \in Lines
    PROVE  /\ line = Blank <=> line.field = "blank"
           /\ line.field = "event" => line.value \in Names
           /\ line.field = "data" => line.value \in Payloads
           /\ Blank \in Lines /\ Blank.field = "blank"
<1>1. Blank \in Lines /\ Blank.field = "blank" /\ Comment.field = "other" BY DEF Lines, Blank, Comment
<1>2. CASE line = Blank BY <1>1, <1>2
<1>3. CASE line = Comment BY <1>1, <1>3
<1>4. CASE line \in [field : {"event"}, value : Names] BY <1>1, <1>4
<1>5. CASE line \in [field : {"data"}, value : Payloads] BY <1>1, <1>5
<1> QED BY <1>2, <1>3, <1>4, <1>5 DEF Lines

LEMMA LineAdded ==
    ASSUME NEW ls \in Seq(Lines), NEW x \in Lines
    PROVE  \E t \in Seq(Lines) : /\ t = Append(ls, x) /\ Len(t) = Len(ls) + 1 /\ t[Len(ls) + 1] = x
                                 /\ \A i \in 1..Len(ls) : t[i] = ls[i]
<1>1. PICK t : t = Append(ls, x) OBVIOUS
<1>2. t \in Seq(Lines) /\ Len(t) = Len(ls) + 1 BY <1>1, AppendProperties
<1>3. t[Len(ls) + 1] = x BY <1>1, AppendProperties
<1>4. \A i \in 1..Len(ls) : t[i] = ls[i] BY <1>1, AppendProperties
<1> QED BY <1>1, <1>2, <1>3, <1>4

(* One more line leaves what was read before as it was. *)
LEMMA StartsKept ==
    ASSUME NEW ls \in Seq(Lines), NEW x \in Lines, NEW b \in 1..(Len(ls) + 1), NEW a, Starts(ls, a, b)
    PROVE  Starts(Append(ls, x), a, b)
<1>1. PICK t \in Seq(Lines) : t = Append(ls, x) /\ \A i \in 1..Len(ls) : t[i] = ls[i] BY LineAdded
<1>2. a \in 1..b /\ (a - 1 = 0 \/ ls[a - 1] = Blank) /\ \A i \in a..(b - 1) : ls[i] # Blank BY DEF Starts
<1>3. Len(ls) \in Nat OBVIOUS
<1>4. \A i \in a..(b - 1) : i \in 1..Len(ls) BY <1>2, <1>3
<1>5. a - 1 = 0 \/ a - 1 \in 1..Len(ls) BY <1>2, <1>3
<1>6. a - 1 = 0 \/ t[a - 1] = Blank BY <1>1, <1>2, <1>5
<1>7. \A i \in a..(b - 1) : t[i] # Blank BY <1>1, <1>2, <1>4
<1> QED BY <1>1, <1>2, <1>6, <1>7 DEF Starts

LEMMA GathersKept ==
    ASSUME NEW ls \in Seq(Lines), NEW x \in Lines, NEW b \in 0..Len(ls), NEW a, NEW f, NEW field,
           Gathers(f, ls, a, b, field)
    PROVE  Gathers(f, Append(ls, x), a, b, field)
<1>1. PICK t \in Seq(Lines) : t = Append(ls, x) /\ \A i \in 1..Len(ls) : t[i] = ls[i] BY LineAdded
<1>2. \A i \in 1..b : i \in 1..Len(ls) OBVIOUS
<1>3. Gathers(f, t, a, b, field) BY <1>1, <1>2 DEF Gathers, Grown
<1> QED BY <1>1, <1>3

LEMMA EndsKept ==
    ASSUME NEW ls \in Seq(Lines), NEW x \in Lines, NEW b \in 1..Len(ls), NEW values, NEW name,
           Ends(ls, b, values, name)
    PROVE  Ends(Append(ls, x), b, values, name)
<1>1. PICK a \in 1..b : Starts(ls, a, b) /\ Says(ls, a, b, values, name) BY DEF Ends
<1>2. b \in 0..Len(ls) /\ b \in 1..(Len(ls) + 1) OBVIOUS
<1>3. Starts(Append(ls, x), a, b) BY <1>1, <1>2, StartsKept
<1>4. PICK f : Gathers(f, ls, a, b, "data") /\ f[b] = values BY <1>1 DEF Says
<1>5. PICK g : Gathers(g, ls, a, b, "event") /\ g[b] \in Seq(Names) /\ LastOf(g[b]) = name BY <1>1 DEF Says
<1>6. Gathers(f, Append(ls, x), a, b, "data") /\ Gathers(g, Append(ls, x), a, b, "event")
    BY <1>2, <1>4, <1>5, GathersKept
<1>7. values \in Seq(Payloads) BY <1>1 DEF Says
<1>8. Says(Append(ls, x), a, b, values, name) BY <1>4, <1>5, <1>6, <1>7 DEF Says
<1> QED BY <1>3, <1>8 DEF Ends

LEMMA GathersMore ==
    ASSUME NEW ls \in Seq(Lines), NEW x \in Lines, NEW a \in 1..(Len(ls) + 1), NEW f, NEW field,
           Gathers(f, ls, a, Len(ls), field)
    PROVE  \E g : /\ Gathers(g, Append(ls, x), a, Len(ls) + 1, field)
                  /\ g[Len(ls) + 1] = IF x.field = field THEN Append(f[Len(ls)], x.value) ELSE f[Len(ls)]
<1>1. PICK l \in Nat : l = Len(ls) OBVIOUS
<1>2. PICK t \in Seq(Lines) : t = Append(ls, x) /\ t[l + 1] = x BY <1>1, AppendProperties
<1>3. Gathers(f, t, a, l, field)
  <2>1. Len(ls) \in 0..Len(ls) OBVIOUS
  <2> QED BY <1>1, <1>2, <2>1, GathersKept
<1>4. PICK g : g = [i \in 0..(l + 1) |-> IF i = l + 1 THEN Grown(f[l], t, a, l + 1, field) ELSE f[i]] OBVIOUS
<1>5. Gathers(g, t, a, l + 1, field)
  <2>1. g[0] = <<>> BY <1>3, <1>4 DEF Gathers
  <2>2. ASSUME NEW i \in 1..(l + 1) PROVE g[i] = Grown(g[i - 1], t, a, i, field)
    <3>1. i - 1 \in 0..(l + 1) /\ i - 1 # l + 1 /\ i \in 0..(l + 1) OBVIOUS
    <3>2. g[i - 1] = f[i - 1] BY <1>4, <3>1
    <3>3. CASE i = l + 1
      <4>1. i - 1 = l BY <3>3
      <4> QED BY <1>4, <3>1, <3>2, <3>3, <4>1
    <3>4. CASE i # l + 1
      <4>1. i \in 1..l /\ g[i] = f[i] BY <1>4, <3>1, <3>4
      <4> QED BY <1>3, <3>2, <4>1 DEF Gathers
    <3> QED BY <3>3, <3>4
  <2> QED BY <2>1, <2>2 DEF Gathers
<1>6. g[l + 1] = Grown(f[l], t, a, l + 1, field)
  <2>1. l + 1 \in 0..(l + 1) OBVIOUS
  <2> QED BY <1>4, <2>1
<1>7. ~(l + 1 < a) BY <1>1
<1>8. g[l + 1] = IF x.field = field THEN Append(f[l], x.value) ELSE f[l] BY <1>2, <1>6, <1>7 DEF Grown
<1> QED BY <1>1, <1>2, <1>5, <1>8

LEMMA SaysMore ==
    ASSUME NEW ls \in Seq(Lines), NEW x \in Lines, NEW a \in 1..(Len(ls) + 1), NEW values, NEW name,
           Says(ls, a, Len(ls), values, name)
    PROVE  Says(Append(ls, x), a, Len(ls) + 1,
                IF x.field = "data" THEN Append(values, x.value) ELSE values,
                IF x.field = "event" THEN x.value ELSE name)
<1>1. PICK f : Gathers(f, ls, a, Len(ls), "data") /\ f[Len(ls)] = values BY DEF Says
<1>2. PICK g : Gathers(g, ls, a, Len(ls), "event") /\ g[Len(ls)] \in Seq(Names) /\ LastOf(g[Len(ls)]) = name BY DEF Says
<1>3. PICK f2 : /\ Gathers(f2, Append(ls, x), a, Len(ls) + 1, "data")
                /\ f2[Len(ls) + 1] = IF x.field = "data" THEN Append(f[Len(ls)], x.value) ELSE f[Len(ls)]
    BY <1>1, GathersMore
<1>4. PICK g2 : /\ Gathers(g2, Append(ls, x), a, Len(ls) + 1, "event")
                /\ g2[Len(ls) + 1] = IF x.field = "event" THEN Append(g[Len(ls)], x.value) ELSE g[Len(ls)]
    BY <1>2, GathersMore
<1>5. values \in Seq(Payloads) BY DEF Says
<1>6. (IF x.field = "data" THEN Append(values, x.value) ELSE values) \in Seq(Payloads) BY <1>5, LineKinds, AppendProperties
<1>7. PICK names \in Seq(Names) : names = g[Len(ls)] BY <1>2
<1>8. g2[Len(ls) + 1] \in Seq(Names) /\ LastOf(g2[Len(ls) + 1]) = IF x.field = "event" THEN x.value ELSE name
  <2>1. CASE x.field = "event"
    <3>1. x.value \in Names BY <2>1, LineKinds
    <3>2. PICK more \in Seq(Names) : more = Append(names, x.value) /\ Len(more) = Len(names) + 1
                                     /\ more[Len(names) + 1] = x.value
        BY <3>1, AppendProperties
    <3>3. more # <<>>
      <4>1. Len(names) + 1 # 0 /\ Len(<<>>) = 0 OBVIOUS
      <4> QED BY <3>2, <4>1
    <3>4. LastOf(more) = x.value BY <3>2, <3>3 DEF LastOf
    <3> QED BY <1>4, <1>7, <2>1, <3>2, <3>4
  <2>2. CASE x.field # "event" BY <1>2, <1>4, <2>2
  <2> QED BY <2>1, <2>2
<1> QED BY <1>1, <1>3, <1>4, <1>6, <1>8 DEF Says

(* Nothing of the next event has been read. *)
LEMMA SaysNothing ==
    ASSUME NEW ls, NEW b \in Nat
    PROVE  Says(ls, b + 1, b, <<>>, "")
<1>1. PICK f : f = [i \in 0..b |-> <<>>] OBVIOUS
<1>2. \A i \in 1..b : i < b + 1 /\ i \in 0..b OBVIOUS
<1>3. \A field : Gathers(f, ls, b + 1, b, field) BY <1>1, <1>2 DEF Gathers, Grown
<1>4. f[b] = <<>> BY <1>1
<1>5. LastOf(<<>>) = "" BY DEF LastOf
<1>6. <<>> \in Seq(Payloads) /\ <<>> \in Seq(Names) OBVIOUS
<1> QED BY <1>3, <1>4, <1>5, <1>6 DEF Says

(* Every event so far has been passed over: it neither failed nor confirmed. *)
Passed(ls) ==
    \A b \in 1..Len(ls) : ls[b] = Blank =>
        \E values, name : Ends(ls, b, values, name) /\ ~FailsBy(name, values) /\ ~ConfirmsBy(name, values)
Reading(ls, values, name) ==
    /\ \E a \in 1..(Len(ls) + 1) : Starts(ls, a, Len(ls) + 1) /\ Says(ls, a, Len(ls), values, name)
    /\ Passed(ls)
CompletionInv ==
    /\ lines \in Seq(Lines)
    /\ verdict = None => Reading(lines, data, event)
    /\ verdict # None => CompletionIsEvidence

LEMMA EnvelopesAre ==
    ASSUME NEW values \in Seq(Payloads)
    PROVE  /\ Envelope(values) \in {"[DONE]", "completed", "created", "untyped", "failed", "unfinished", "malformed"}
           /\ values = <<>> => Envelope(values) = "malformed"
<1>1. CASE values = <<>>
  <2>1. values # <<"[DONE]">> /\ values # <<"open", "close">> /\ Len(values) # 1
    <3>1. Len(<<>>) = 0 /\ Len(<<"[DONE]">>) = 1 /\ Len(<<"open", "close">>) = 2 OBVIOUS
    <3> QED BY <1>1, <3>1
  <2> QED BY <2>1 DEF Envelope
<1>2. CASE values # <<>>
  <2>1. Len(values) = 1 => values[1] \in Payloads OBVIOUS
  <2> QED BY <1>2, <2>1, CompletionAssumption DEF Envelope
<1> QED BY <1>1, <1>2

(* The checks at the end of an event agree with what makes one evidence. *)
LEMMA JudgedIs ==
    ASSUME data \in Seq(Payloads)
    PROVE  /\ Judged = "complete" <=> ConfirmsBy(event, data)
           /\ Judged = None => ~FailsBy(event, data) /\ ~ConfirmsBy(event, data)
<1>1. PICK object \in {"[DONE]", "completed", "created", "untyped", "failed", "unfinished", "malformed"} :
             object = Envelope(data) /\ (data = <<>> => object = "malformed")
    BY EnvelopesAre
<1>2. PICK name : name = event OBVIOUS
<1>3. PICK judged : judged = Judged OBVIOUS
<1>4. judged = (IF name = "response.failed" THEN "failed"
                ELSE IF data = <<>> THEN None
                ELSE IF object = "[DONE]" THEN "missing"
                ELSE IF object = "malformed" THEN "malformed"
                ELSE IF object = "failed" THEN "failed"
                ELSE IF name # "response.completed" /\ object \notin {"completed", "unfinished"} THEN None
                ELSE IF name # "response.completed" /\ name \notin {"", "message"} THEN "malformed"
                ELSE IF object = "created" THEN "malformed"
                ELSE IF object = "unfinished" THEN "missing"
                ELSE "complete")
    BY <1>1, <1>2, <1>3 DEF Judged, FailureType
<1>5. None \notin {"complete", "missing", "malformed", "failed"} BY CompletionAssumption
<1>6. ConfirmsBy(event, data) <=> \/ name = "response.completed" /\ object \in {"completed", "untyped"}
                                  \/ name \in {"", "message"} /\ object = "completed"
    BY <1>1, <1>2 DEF ConfirmsBy
<1>7. FailsBy(event, data) <=> \/ name = "response.failed"
                               \/ data # <<>> /\ object \in {"failed", "malformed", "[DONE]"}
    BY <1>1, <1>2 DEF FailsBy, FailureType
<1>8. judged = "complete" <=> \/ name = "response.completed" /\ object \in {"completed", "untyped"}
                              \/ name \in {"", "message"} /\ object = "completed"
    BY <1>1, <1>4, <1>5
<1>9. judged = None => ~(name = "response.failed") /\ ~(data # <<>> /\ object \in {"failed", "malformed", "[DONE]"})
    BY <1>1, <1>4, <1>5
<1>10. judged = None => judged # "complete" BY <1>5
<1> QED BY <1>3, <1>6, <1>7, <1>8, <1>9, <1>10

(* While a stream is read, or when it breaks off, nothing in it is evidence. *)
LEMMA NoEvidenceYet ==
    ASSUME NEW ls \in Seq(Lines), Passed(ls)
    PROVE  ~IsEvidence(ls)
<1>1. ASSUME ls # <<>>, ls[Len(ls)] = Blank PROVE ~Confirms(ls, Len(ls))
  <2>1. Len(ls) \in 1..Len(ls) /\ Len(ls) \in Nat BY <1>1
  <2>2. PICK values, name : Ends(ls, Len(ls), values, name) /\ ~ConfirmsBy(name, values)
      BY <1>1, <2>1 DEF Passed
  <2>3. Values(ls, Len(ls), "data") = values /\ NameOf(ls, Len(ls)) = name BY <2>1, <2>2, EventFound
  <2> QED BY <2>2, <2>3 DEF Confirms
<1> QED BY <1>1 DEF IsEvidence

(* What the events before the last one say has been passed over. *)
LEMMA LastDecides ==
    ASSUME NEW ls \in Seq(Lines), Passed(ls), NEW values, NEW name,
           Ends(Append(ls, Blank), Len(ls) + 1, values, name)
    PROVE  IsEvidence(Append(ls, Blank)) <=> ConfirmsBy(name, values)
<1>1. Blank \in Lines BY DEF Lines
<1>2. PICK t \in Seq(Lines) : /\ t = Append(ls, Blank) /\ Len(t) = Len(ls) + 1 /\ t[Len(ls) + 1] = Blank
                              /\ \A i \in 1..Len(ls) : t[i] = ls[i]
    BY <1>1, LineAdded
<1>3. PICK l \in Nat : l = Len(ls) /\ Len(t) = l + 1 BY <1>2
<1>4. Confirms(t, l + 1) <=> ConfirmsBy(name, values)
  <2>1. Values(t, l + 1, "data") = values /\ NameOf(t, l + 1) = name
    <3>1. l + 1 \in Nat /\ Ends(t, l + 1, values, name) BY <1>2, <1>3
    <3> QED BY <3>1, EventFound
  <2> QED BY <2>1 DEF Confirms
<1>5. ASSUME NEW b \in 1..l, t[b] = Blank PROVE ~Fails(t, b)
  <2>1. PICK v, n : Ends(ls, b, v, n) /\ ~FailsBy(n, v) BY <1>2, <1>3, <1>5 DEF Passed
  <2>2. Ends(t, b, v, n) BY <1>1, <1>2, <1>3, <2>1, EndsKept
  <2>3. Values(t, b, "data") = v /\ NameOf(t, b) = n BY <2>2, EventFound
  <2> QED BY <2>1, <2>3 DEF Fails
<1>6. t # <<>> /\ Len(t) - 1 = l BY <1>2, <1>3
<1>7. IsEvidence(t) <=> ConfirmsBy(name, values) BY <1>2, <1>3, <1>4, <1>5, <1>6 DEF IsEvidence
<1> QED BY <1>2, <1>7

(* A blank line ends the event that was read. *)
LEMMA BlankEnds ==
    ASSUME NEW ls \in Seq(Lines), NEW values, NEW name, Reading(ls, values, name)
    PROVE  Ends(Append(ls, Blank), Len(ls) + 1, values, name)
<1>1. PICK a \in 1..(Len(ls) + 1) : Starts(ls, a, Len(ls) + 1) /\ Says(ls, a, Len(ls), values, name) BY DEF Reading
<1>2. Blank \in Lines /\ Blank.field # "data" /\ Blank.field # "event"
  <2>1. Blank \in Lines BY DEF Lines
  <2> QED BY <2>1, LineKinds
<1>3. Says(Append(ls, Blank), a, Len(ls) + 1,
           IF Blank.field = "data" THEN Append(values, Blank.value) ELSE values,
           IF Blank.field = "event" THEN Blank.value ELSE name)
    BY <1>1, <1>2, SaysMore
<1>4. Says(Append(ls, Blank), a, Len(ls) + 1, values, name) BY <1>2, <1>3
<1>5. Len(ls) + 1 \in 1..(Len(ls) + 1) OBVIOUS
<1>6. Starts(Append(ls, Blank), a, Len(ls) + 1) BY <1>1, <1>2, <1>5, StartsKept
<1> QED BY <1>4, <1>6 DEF Ends

LEMMA PassedMore ==
    ASSUME NEW ls \in Seq(Lines), Passed(ls), NEW x \in Lines,
           x = Blank => \E values, name : /\ Ends(Append(ls, x), Len(ls) + 1, values, name)
                                          /\ ~FailsBy(name, values) /\ ~ConfirmsBy(name, values)
    PROVE  Passed(Append(ls, x))
<1>1. PICK t \in Seq(Lines) : /\ t = Append(ls, x) /\ Len(t) = Len(ls) + 1 /\ t[Len(ls) + 1] = x
                              /\ \A i \in 1..Len(ls) : t[i] = ls[i]
    BY LineAdded
<1>2. ASSUME NEW b \in 1..Len(t), t[b] = Blank
      PROVE  \E values, name : Ends(t, b, values, name) /\ ~FailsBy(name, values) /\ ~ConfirmsBy(name, values)
  <2>1. CASE b = Len(ls) + 1 BY <1>1, <1>2, <2>1
  <2>2. CASE b # Len(ls) + 1
    <3>1. b \in 1..Len(ls) BY <1>1, <2>2
    <3>2. PICK values, name : Ends(ls, b, values, name) /\ ~FailsBy(name, values) /\ ~ConfirmsBy(name, values)
        BY <1>1, <1>2, <3>1 DEF Passed
    <3>3. Ends(t, b, values, name) BY <1>1, <3>1, <3>2, EndsKept
    <3> QED BY <3>2, <3>3
  <2> QED BY <2>1, <2>2
<1>3. Passed(t) BY <1>2 DEF Passed
<1> QED BY <1>1, <1>3

LEMMA LineKeepsInv ==
    ASSUME CompletionInv, NEW line \in Lines, ReadLine(line)
    PROVE  CompletionInv'
<1>1. lines \in Seq(Lines) /\ verdict = None /\ Reading(lines, data, event) BY DEF CompletionInv, ReadLine
<1>2. PICK ls \in Seq(Lines) : ls = lines BY <1>1
<1>3. PICK values \in Seq(Payloads) : values = data BY <1>1 DEF Reading, Says
<1>4. PICK name : name = event OBVIOUS
<1>5. Reading(ls, values, name) /\ Passed(ls) BY <1>1, <1>2, <1>3, <1>4 DEF Reading
<1>6. PICK t \in Seq(Lines) : /\ t = Append(ls, line) /\ Len(t) = Len(ls) + 1 /\ t[Len(ls) + 1] = line
                              /\ \A i \in 1..Len(ls) : t[i] = ls[i]
    BY LineAdded
<1>7. lines' = t BY <1>2, <1>6 DEF ReadLine
<1>8. PICK l \in Nat : l = Len(ls) OBVIOUS
<1>9. CASE line = Blank
  <2>1. verdict' = Judged /\ event' = "" /\ data' = <<>> BY <1>9 DEF ReadLine, Dispatch
  <2>2. Ends(Append(ls, Blank), Len(ls) + 1, values, name) BY <1>5, BlankEnds
  <2>3. /\ Judged = "complete" <=> ConfirmsBy(name, values)
        /\ Judged = None => ~FailsBy(name, values) /\ ~ConfirmsBy(name, values)
      BY <1>3, <1>4, JudgedIs
  <2>4. ASSUME Judged = None PROVE Reading(t, <<>>, "")
    <3>1. Passed(t) BY <1>5, <1>6, <1>9, <2>2, <2>3, <2>4, PassedMore
    <3>2. Starts(t, l + 2, l + 2)
      <4>1. l + 2 \in 1..(l + 2) /\ (l + 2) - 1 = l + 1 /\ (l + 2)..((l + 2) - 1) = {} BY <1>8
      <4> QED BY <1>6, <1>8, <1>9, <4>1 DEF Starts
    <3>3. Says(t, l + 2, l + 1, <<>>, "")
      <4>1. l + 1 \in Nat /\ (l + 1) + 1 = l + 2 BY <1>8
      <4>2. Says(t, (l + 1) + 1, l + 1, <<>>, "") BY <4>1, SaysNothing
      <4> QED BY <4>1, <4>2
    <3>4. Len(t) + 1 = l + 2 /\ Len(t) = l + 1 /\ l + 2 \in 1..(l + 2) BY <1>6, <1>8
    <3> QED BY <3>1, <3>2, <3>3, <3>4 DEF Reading
  <2>5. IsEvidence(t) <=> ConfirmsBy(name, values) BY <1>5, <1>6, <1>9, <2>2, LastDecides
  <2>6. CompletionIsEvidence' BY <1>7, <2>1, <2>3, <2>5 DEF CompletionIsEvidence
  <2> QED BY <1>6, <1>7, <2>1, <2>4, <2>6 DEF CompletionInv
<1>10. CASE line # Blank
  <2>1. /\ event' = IF line.field = "event" THEN line.value ELSE name
        /\ data' = IF line.field = "data" THEN Append(values, line.value) ELSE values
        /\ verdict' = None
      BY <1>1, <1>3, <1>4, <1>10 DEF ReadLine
  <2>2. PICK v, n : /\ v = IF line.field = "data" THEN Append(values, line.value) ELSE values
                    /\ n = IF line.field = "event" THEN line.value ELSE name
      OBVIOUS
  <2>3. PICK a \in 1..(l + 1) : Starts(ls, a, l + 1) /\ Says(ls, a, l, values, name) BY <1>5, <1>8 DEF Reading
  <2>4. Says(t, a, l + 1, v, n) BY <1>6, <1>8, <2>2, <2>3, SaysMore
  <2>5. Starts(t, a, l + 1)
    <3>1. l + 1 \in 1..(l + 1) BY <1>8
    <3> QED BY <1>6, <1>8, <2>3, <3>1, StartsKept
  <2>6. Starts(t, a, l + 2)
    <3>1. a \in 1..(l + 2) /\ \A i \in a..((l + 2) - 1) : i = l + 1 \/ i \in a..((l + 1) - 1) BY <1>8
    <3> QED BY <1>6, <1>8, <1>10, <2>5, <3>1 DEF Starts
  <2>7. Passed(t) BY <1>5, <1>6, <1>10, PassedMore
  <2>8. Len(t) + 1 = l + 2 /\ Len(t) = l + 1 /\ a \in 1..(l + 2) BY <1>6, <1>8
  <2>9. Reading(t, v, n) BY <2>4, <2>6, <2>7, <2>8 DEF Reading
  <2> QED BY <1>6, <1>7, <2>1, <2>2, <2>9 DEF CompletionInv
<1> QED BY <1>9, <1>10

LEMMA EndKeepsInv ==
    ASSUME CompletionInv, NEW reason \in {"missing", "unreadable", "too large"}, EndStream(reason)
    PROVE  CompletionInv'
<1>1. lines \in Seq(Lines) /\ Passed(lines) /\ lines' = lines /\ verdict' = reason
    BY DEF CompletionInv, Reading, EndStream
<1>2. ~IsEvidence(lines) BY <1>1, NoEvidenceYet
<1>3. reason # "complete" /\ reason # None BY CompletionAssumption
<1>4. CompletionIsEvidence' BY <1>1, <1>2, <1>3 DEF CompletionIsEvidence
<1> QED BY <1>1, <1>3, <1>4 DEF CompletionInv

LEMMA NoLines == <<>> \in Seq(Lines) /\ Len(<<>>) = 0
OBVIOUS

(* A stream is confirmed exactly when it is evidence: for any number of lines. *)
THEOREM ConfirmedByEvidence == CompletionSpec => []CompletionIsEvidence
<1>1. CompletionInit => CompletionInv
  <2> SUFFICES ASSUME CompletionInit PROVE CompletionInv OBVIOUS
  <2>1. lines = <<>> /\ event = "" /\ data = <<>> /\ verdict = None BY DEF CompletionInit
  <2>2. PICK ls \in Seq(Lines) : ls = <<>> /\ Len(ls) = 0 BY NoLines
  <2>3. Says(ls, 1, 0, <<>>, "")
    <3>1. Says(ls, 0 + 1, 0, <<>>, "") BY SaysNothing
    <3>2. 0 + 1 = 1 OBVIOUS
    <3> QED BY <3>1, <3>2
  <2>4. Starts(ls, 1, 1) BY DEF Starts
  <2>5. Passed(ls) BY <2>2 DEF Passed
  <2>6. Reading(ls, <<>>, "")
    <3>1. Len(ls) + 1 = 1 /\ 1 \in 1..1 BY <2>2
    <3> QED BY <2>2, <2>3, <2>4, <2>5, <3>1 DEF Reading
  <2> QED BY <2>1, <2>2, <2>6 DEF CompletionInv
<1>2. CompletionInv /\ [CompletionNext]_completionVars => CompletionInv'
  <2> SUFFICES ASSUME CompletionInv, [CompletionNext]_completionVars PROVE CompletionInv' OBVIOUS
  <2>1. CASE CompletionNext BY <2>1, LineKeepsInv, EndKeepsInv DEF CompletionNext
  <2>2. CASE UNCHANGED completionVars
    <3>1. lines' = lines /\ event' = event /\ data' = data /\ verdict' = verdict BY <2>2 DEF completionVars
    <3> QED BY <3>1 DEF CompletionInv, CompletionIsEvidence
  <2> QED BY <2>1, <2>2
<1>3. CompletionInv => CompletionIsEvidence
  <2> SUFFICES ASSUME CompletionInv PROVE CompletionIsEvidence OBVIOUS
  <2>1. CASE verdict = None
    <3>1. ~IsEvidence(lines) BY <2>1, NoEvidenceYet DEF CompletionInv, Reading
    <3>2. verdict # "complete" BY <2>1, CompletionAssumption
    <3> QED BY <3>1, <3>2 DEF CompletionIsEvidence
  <2>2. CASE verdict # None BY <2>2 DEF CompletionInv
  <2> QED BY <2>1, <2>2
<1> QED BY <1>1, <1>2, <1>3, PTL DEF CompletionSpec
=============================================================================
