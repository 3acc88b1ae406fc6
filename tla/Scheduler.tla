------------------------------ MODULE Scheduler ------------------------------
(* The smooth weighted round robin of the credential scheduler (plugin/scheduler.go), for
   requests that may not be served by every candidate CPA offers: which candidates remain,
   and their weights, change from pick to pick, and what the scheduler remembers of them is
   bounded. *)
EXTENDS Integers, FiniteSets, FiniteSetsExt

CONSTANTS
    SchedulerScopes,    \* callers
    Pools,          \* pools of a caller: a model and a routing decision
    Candidates,     \* upstream accounts, numbered in the order of their IDs
    Weights,        \* weights CPA gives them
    MaxPools,       \* maxPoolsPerKey
    MaxPerPool,     \* maxCredentialsPerPool
    MaxReweighings,     \* bound: changes of a weight
    MaxPasses,      \* the claim: picks a candidate may be passed over
    NoPool

VARIABLES
    weight,         \* CPA's weights
    pools,           \* subsetScheduler.keys: the running weights of a caller's pools
    reweighings,
    passed          \* history: how often in a row a candidate was passed over

schedulerVars == <<weight, pools, reweighings, passed>>

ASSUME SchedulerAssumption ==
    /\ Candidates \subseteq Nat /\ IsFiniteSet(Candidates)
    /\ Weights \subseteq Nat /\ Weights # {}
    /\ MaxPools \in Nat \ {0} /\ MaxPerPool \in Nat /\ MaxPasses \in Nat

(* A candidate that is not known has no running weight. *)
NewPool == [known |-> {}, current |-> [c \in Candidates |-> 0], weight |-> [c \in Candidates |-> 0]]
PoolsOf(s) == {p \in Pools : pools[s][p] # NoPool}
-----------------------------------------------------------------------------
(* A caller with too many pools loses them all. *)
PoolsWith(s, p) ==
    CASE pools[s][p] # NoPool -> pools[s]
      [] pools[s][p] = NoPool /\ Cardinality(PoolsOf(s)) >= MaxPools ->
           [q \in Pools |-> IF q = p THEN NewPool ELSE NoPool]
      [] OTHER -> [pools[s] EXCEPT ![p] = NewPool]

Reweighs(state, usable) == \E c \in usable : state.weight[c] # 0 /\ state.weight[c] # weight[c]
StartedOver(state) == [state EXCEPT !.known = {}, !.current = [c \in Candidates |-> 0]]

(* A weight that changed starts the pool over. *)
Reweighed(state, usable) ==
    LET base == IF Reweighs(state, usable) THEN StartedOver(state) ELSE state
    IN [base EXCEPT !.weight = [c \in Candidates |-> IF c \in usable THEN weight[c] ELSE @[c]]]

(* A pool that knows too many keeps those it can use now. *)
Trimmed(state, usable) ==
    IF Cardinality(state.known) <= MaxPerPool THEN state
    ELSE [known |-> usable,
          current |-> [c \in Candidates |-> IF c \in usable THEN state.current[c] ELSE 0],
          weight |-> [c \in Candidates |-> IF c \in usable THEN state.weight[c] ELSE 0]]

Last == Max(Candidates)
SumOver(f, cs) ==
    LET sum[n \in 0..Last] == (IF n = 0 THEN 0 ELSE sum[n - 1]) + (IF n \in cs THEN f[n] ELSE 0)
    IN  sum[Last]
TotalWeight(state, usable) == SumOver(state.weight, usable)
Score(state, c) == state.current[c] + state.weight[c]
Ahead(state, usable, c) ==
    \A d \in usable : Score(state, c) > Score(state, d) \/ (Score(state, c) = Score(state, d) /\ c <= d)
Chosen(state, usable) == CHOOSE c \in usable : Ahead(state, usable, c)

OwnWeightPaid(state, usable, chosen) ==     \* the winner pays its own weight only
    [c \in Candidates |-> IF c \in usable \ {chosen} THEN Score(state, c) ELSE state.current[c]]
Advanced(state, usable, chosen) ==
    [c \in Candidates |-> CASE c = chosen -> Score(state, c) - TotalWeight(state, usable)
                            [] c \in usable \ {chosen} -> Score(state, c)
                            [] OTHER -> state.current[c]]

Passed(old, usable, chosen) ==
    [c \in Candidates |-> CASE c = chosen -> 0
                            [] c \in usable \ {chosen} -> old[c] + 1
                            [] OTHER -> old[c]]
Carried(old, known, startsOver) == [c \in Candidates |-> IF startsOver \/ c \notin known THEN 0 ELSE old[c]]
NonePassed == [c \in Candidates |-> 0]

(* pick. A candidate that is the only one left is not a turn of the round robin. *)
Pick(s, p, offered) ==
    LET usable == {c \in offered : weight[c] > 0}
        found == PoolsWith(s, p)
        state == Trimmed(Reweighed(found[p], usable), usable)
        chosen == Chosen(state, usable)
        startsOver == pools[s][p] = NoPool \/ Reweighs(found[p], usable)
    IN /\ Cardinality(usable) > 1
       /\ pools' = [pools EXCEPT ![s] =
                     [found EXCEPT ![p] = [state EXCEPT !.known = @ \cup usable,
                                                        !.current = Advanced(state, usable, chosen)]]]
       /\ passed' = [passed EXCEPT ![s][p] = Passed(Carried(@, state.known, startsOver), usable, chosen)]
       /\ UNCHANGED <<weight, reweighings>>

(* CPA gives an account another weight. *)
Reweigh(c, w) ==
    /\ reweighings < MaxReweighings
    /\ w # weight[c]
    /\ weight' = [weight EXCEPT ![c] = w]
    /\ reweighings' = reweighings + 1
    /\ UNCHANGED <<pools, passed>>

(* Keys that are gone are forgotten. *)
Prune(live) ==
    /\ pools' = [s \in SchedulerScopes |-> IF s \in live THEN pools[s] ELSE [p \in Pools |-> NoPool]]
    /\ passed' = [s \in SchedulerScopes |-> IF s \in live THEN passed[s] ELSE [p \in Pools |-> NonePassed]]
    /\ UNCHANGED <<weight, reweighings>>
-----------------------------------------------------------------------------
SchedulerInit ==
    /\ weight \in [Candidates -> Weights]
    /\ pools = [s \in SchedulerScopes |-> [p \in Pools |-> NoPool]]
    /\ reweighings = 0
    /\ passed = [s \in SchedulerScopes |-> [p \in Pools |-> NonePassed]]

SchedulerNext ==
    \/ \E s \in SchedulerScopes, p \in Pools, offered \in SUBSET Candidates : Pick(s, p, offered)
    \/ \E c \in Candidates, w \in Weights : Reweigh(c, w)
    \/ \E live \in SUBSET SchedulerScopes : Prune(live)

SchedulerSpec == SchedulerInit /\ [][SchedulerNext]_schedulerVars
-----------------------------------------------------------------------------
(* However the candidates come and go, none that is offered again and again is passed over
   more than a bounded number of times (scheduler.go:117-133). *)
FairShare == \A s \in SchedulerScopes, p \in Pools, c \in Candidates : passed[s][p][c] <= MaxPasses
=============================================================================
