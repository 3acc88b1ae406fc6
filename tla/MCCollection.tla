---------------------------- MODULE MCCollection ----------------------------
(* The collector's two halves, which share no state: a behaviour runs one of them (part). *)
EXTENDS Runner, Probe

CONSTANTS
    Parts,
    i1, i2, t1, t2, l1, p1, p2,
    s1, s2, a1, a2, m1, m2, e1, e2, x1
VARIABLE part

MCSlots == {s1, s2}
MCAccounts == {a1, a2}
MCModels == {m1, m2}
MCExits == {e1, e2, x1}
MCRotating == {x1}

(* Probe settings. No accounts: nothing to probe. *)
NoProbes ==
    [accounts |-> <<>>, models |-> <<m1>>, pool |-> <<>>, ttl |-> 2, lead |-> 1, refresh |-> 0, retry |-> 1,
     accountPause |-> 2, staticPause |-> 0, rotatingPause |-> 0, maxAttempts |-> 0,
     limit |-> 1, parallel |-> 1, berserk |-> 0, berserkParallel |-> 1,
     dropFailed |-> FALSE, dropDegraded |-> FALSE, minProxies |-> 0, learns |-> FALSE, operated |-> TRUE,
     outcomes |-> {"failed", "harvested"}]
One == [NoProbes EXCEPT !.accounts = <<a1>>]
Two == [NoProbes EXCEPT !.accounts = <<a1, a2>>]
(* Two lanes for two accounts with two models each, and refusals. *)
Lanes2 == [Two EXCEPT !.models = <<m1, m2>>, !.parallel = 2, !.limit = 2, !.outcomes = {"refused", "failed"}]
(* A pool of static and rotating exits that wears out. *)
ExitPools == [One EXCEPT !.pool = <<e1, e2, x1>>, !.staticPause = 1, !.limit = 2, !.ttl = 1, !.lead = 0,
                         !.dropFailed = TRUE, !.dropDegraded = TRUE, !.minProxies = 1, !.outcomes = Outcomes]
(* Cookie refreshes in rounds over the exits, with a budget of attempts. *)
Rounds == [One EXCEPT !.pool = <<e1, x1>>, !.staticPause = 1, !.rotatingPause = 2, !.maxAttempts = 1,
                      !.refresh = 1, !.learns = TRUE, !.ttl = 3, !.outcomes = {"unchanged", "harvested", "blocked"}]
(* Berserk renewal: parallel probes of one account. *)
Berserk == [One EXCEPT !.limit = 2, !.berserk = 2, !.berserkParallel = 2,
                       !.outcomes = {"refused", "harvested", "degraded"}]
(* More buckets than the budget serves at once. *)
Crowd == [Two EXCEPT !.accountPause = 0, !.ttl = 3, !.lead = 2, !.operated = FALSE]
(* Two lanes, two models each, and every probe fails. *)
Parallel == [Lanes2 EXCEPT !.outcomes = {"failed"}, !.operated = FALSE]

MCProbeSettings == {NoProbes, Lanes2, ExitPools, Rounds, Berserk, Crowd}
ParallelOnly == {NoProbes, Parallel}

(* Three kinds of behaviours: two collectors, each with two calls at once, for one installation;
   a single collector, one call at a time, while CPA restarts and installations are switched; and
   probes. *)
Runs == part \in {"collectors", "host"}
SoleCall == tick'[t2] = NotTicking /\ (\A t \in Ticks : tick'[t].by # i2) /\ alive' = Instances
OneInstallation == installed' = p1 /\ restarts' = 0 /\ settings' = 0

vars == <<part, runnerVars, probeVars>>
Init ==
    /\ part \in Parts
    /\ RunnerInit /\ installed = p1
    /\ ProbeInit /\ (cfg = NoProbes <=> Runs)
Next ==
    /\ UNCHANGED part
    /\ \/ Runs /\ RunnerNext /\ UNCHANGED probeVars
          /\ IF part = "host" THEN SoleCall ELSE OneInstallation
       \/ ~Runs /\ ProbeNext /\ UNCHANGED runnerVars

(* RunnerFairness and ProbeFairness, each for its part. *)
Fairness ==
    /\ WF_runnerVars(Runs /\ SetStep) /\ WF_runnerVars(Runs /\ EndManual) /\ WF_runnerVars(Runs /\ TimePasses)
    /\ \A t \in Ticks : WF_runnerVars(Runs /\ TickStep(t))
    /\ \A l \in Lanes : WF_runnerVars(Runs /\ LaneStep(l))
    /\ \A i \in Instances : SF_runnerVars(part = "collectors" /\ \E t \in Ticks : SendTick(i, t))
    /\ SF_runnerVars(part = "host" /\ SendTick(i1, t1))
    /\ WF_probeVars(~Runs /\ ProbeTime)
    /\ \A s \in Slots : WF_probeVars(~Runs /\ FinishNext(s))
    /\ WF_probeVars(~Runs /\ \E s \in Slots : ReserveNext(s))

Spec == Init /\ [][Next]_vars
FairSpec == Spec /\ Fairness
=============================================================================
