----------------------------- MODULE RiskControl -----------------------------
(* Content risk control (plugin/risk_control.go): policy, events and remembered digests in memory
   under one mutex, and in a file beside the billing database that is rewritten as a whole; an
   inspection goes on when its save fails, a command does not. *)
EXTENDS Naturals, Sequences, FiniteSets

CONSTANTS
    Files,          \* settings files, one per installation
    Texts,          \* request texts; each stands for its digest
    Policies,       \* policies an operator writes: [enabled, blocks (mode), words, remember, maxEvents]
    DefaultPolicy,  \* defaultRiskConfig
    MaxHashes,      \* remembered digests, 4096
    Retention       \* days an event is kept

VARIABLES
    riskPath, risk,     \* riskControl.path and .state
    storageError,       \* an inspection was not saved
    riskFile,           \* the files
    flagged             \* history: texts known to the current file by a digest, lost only by a clear

riskVars == <<riskPath, risk, storageError, riskFile, flagged>>

ASSUME RiskAssumption ==
    /\ Files # {} /\ Retention \in Nat
    /\ \A policy \in Policies \cup {DefaultPolicy} : policy.maxEvents \in Nat

NoEvents == [config |-> DefaultPolicy, events |-> <<>>, hashes |-> {}]

(* pruneLocked: events within the retention, and the newest of those. *)
Newest(events, n) == SubSeq(events, (IF Len(events) > n THEN Len(events) - n ELSE 0) + 1, Len(events))
Unexpired(events) ==
    LET kept == {i \in DOMAIN events : events[i].age <= Retention}
    IN [n \in 1..Cardinality(kept) |-> events[CHOOSE i \in kept : Cardinality(kept \cap 1..i) = n]]
PrunedState(state) == [state EXCEPT !.events = Newest(Unexpired(@), state.config.maxEvents)]

Write(state) == riskFile' = [riskFile EXCEPT ![riskPath] = state]
-----------------------------------------------------------------------------
(* inspect: a remembered digest first, then the words; a request that cannot be read is recorded. *)
Reason(text) ==
    IF ~risk.config.enabled THEN "none"
    ELSE IF risk.config.remember /\ text \in risk.hashes THEN "hash"
    ELSE IF text \in risk.config.words THEN "keyword"
    ELSE "none"
Remembers(text, reason) == reason = "keyword" /\ risk.config.remember /\ Cardinality(risk.hashes) < MaxHashes
EventOf(text, reason) ==
    [age |-> 0, reason |-> reason,
     decision |-> IF risk.config.blocks THEN "blocked"
                  ELSE IF reason = "unread" THEN "not_inspected" ELSE "observed"]
Recorded(text, reason) ==
    PrunedState([risk EXCEPT !.events = Append(@, EventOf(text, reason)),
                             !.hashes = IF Remembers(text, reason) THEN @ \cup {text} ELSE @])

Inspect(text, written) ==
    LET reason == Reason(text) IN
    /\ reason # "none"
    /\ risk' = Recorded(text, reason)
    /\ storageError' = ~written
    /\ IF written THEN Write(risk') ELSE UNCHANGED riskFile
    /\ flagged' = IF Remembers(text, reason) THEN flagged \cup {text} ELSE flagged
    /\ UNCHANGED riskPath

InspectUnread(written) ==
    /\ risk.config.enabled
    /\ risk' = PrunedState([risk EXCEPT !.events = Append(@, EventOf("", "unread"))])
    /\ storageError' = ~written
    /\ IF written THEN Write(risk') ELSE UNCHANGED riskFile
    /\ UNCHANGED <<riskPath, flagged>>

(* setRiskConfig and clearRisk publish what they have saved; a save that fails changes nothing. *)
SaveCommandPublished(next, written) ==
    /\ risk' = next
    /\ storageError' = (storageError /\ ~written)
    /\ IF written THEN Write(next) ELSE UNCHANGED riskFile
SaveCommand(next, written) ==
    /\ written
    /\ risk' = next
    /\ storageError' = FALSE
    /\ Write(next)
SetRiskConfig(policy, written) ==
    /\ SaveCommand([risk EXCEPT !.config = policy], written)
    /\ UNCHANGED <<riskPath, flagged>>
ClearRisk(hashes, written) ==
    /\ SaveCommand(IF hashes THEN [risk EXCEPT !.hashes = {}] ELSE [risk EXCEPT !.events = <<>>], written)
    /\ flagged' = IF hashes /\ written THEN {} ELSE flagged
    /\ UNCHANGED riskPath

(* getRiskCenter prunes what it shows. *)
GetRiskCenter ==
    /\ risk' = PrunedState(risk)
    /\ UNCHANGED <<riskPath, storageError, riskFile, flagged>>

(* configure installs the state of another file, and keeps memory for the same one; a restart reads
   the file. *)
Load(f) ==
    /\ riskPath' = f
    /\ risk' = riskFile[f]
    /\ storageError' = FALSE
    /\ flagged' = riskFile[f].hashes
InstallRisk(f) == f # riskPath /\ Load(f) /\ UNCHANGED riskFile
RestartRisk == Load(riskPath) /\ UNCHANGED riskFile

Older(events) == [i \in DOMAIN events |-> [events[i] EXCEPT !.age = IF @ > Retention THEN @ ELSE @ + 1]]
DayPasses ==
    /\ risk' = [risk EXCEPT !.events = Older(@)]
    /\ riskFile' = [f \in Files |-> [riskFile[f] EXCEPT !.events = Older(@)]]
    /\ UNCHANGED <<riskPath, storageError, flagged>>

RiskInit ==
    /\ riskPath = CHOOSE f \in Files : TRUE
    /\ risk = NoEvents /\ riskFile = [f \in Files |-> NoEvents]
    /\ storageError = FALSE /\ flagged = {}
RiskNext ==
    \/ \E written \in BOOLEAN :
          \/ InspectUnread(written)
          \/ \E text \in Texts : Inspect(text, written)
          \/ \E policy \in Policies : SetRiskConfig(policy, written)
          \/ \E hashes \in BOOLEAN : ClearRisk(hashes, written)
    \/ GetRiskCenter \/ RestartRisk \/ DayPasses \/ \E f \in Files : InstallRisk(f)

RiskSpec == RiskInit /\ [][RiskNext]_riskVars
-----------------------------------------------------------------------------
(* A policy in force is always the saved one, and unless the page is shown a storage error a restart
   forgets no remembered digest and brings back no event that is shown no longer, except the expired. *)
RiskSurvivesRestart ==
    /\ risk.config = riskFile[riskPath].config
    /\ ~storageError => /\ risk.hashes = riskFile[riskPath].hashes
                        /\ PrunedState(risk).events = PrunedState(riskFile[riskPath]).events
    /\ flagged \subseteq risk.hashes
=============================================================================
