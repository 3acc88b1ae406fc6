-------------------------- MODULE TurnStateProofs --------------------------
(***************************************************************************)
(* Proofs about TurnState for every set of accounts, models, requests and  *)
(* values: its variables keep their types, a discarded value never becomes *)
(* usable again, a response to a request that was sent before its bucket   *)
(* was invalidated teaches nothing, what expired stays expired, a restart  *)
(* keeps what was saved, and templates serve their bucket.                 *)
(*                                                                         *)
(* The last three rest on one account of the files (FilesInv) and on the   *)
(* list of ways in which a step touches the store (StoreSteps).            *)
(***************************************************************************)
EXTENDS TurnState, TLAPS

USE DEF Templates, Tombstones, State, Main, Overlay, Attribution, Asking, Epochs, Writer

-----------------------------------------------------------------------------
(* What the helpers return *)

LEMMA ConfigFields ==
    ASSUME NEW c \in Config
    PROVE  /\ c.enabled \in BOOLEAN /\ c.suspended \in BOOLEAN /\ c.ttl \in Nat
           /\ c.accounts \subseteq Accounts /\ c.models \subseteq Models
  BY TurnStateAssumption DEF Config

LEMMA PrunedType ==
    ASSUME NEW s \in State, NEW t \in Nat
    PROVE  /\ Pruned(s, t) \in State
           /\ Pruned(s, t).config = s.config
           /\ Pruned(s, t).discarded = LiveTombstones(s.discarded, t)
  BY DEF Pruned, Holds, LiveTombstones

\* What pruneLocked leaves has the types it found.
LEMMA KeptTypes ==
    ASSUME TypeOK
    PROVE  KeptState \in State /\ KeptDirty \in Templates /\ KeptState.config = state.config
  <1>1. KeptState \in State /\ KeptState.config = state.config
    BY PrunedType DEF TypeOK, KeptState
  <1>2. KeptDirty \in Templates
    BY DEF TypeOK, KeptDirty
  <1>. QED  BY <1>1, <1>2

LEMMA PendingTypes ==
    ASSUME TypeOK, NEW p \in [Requests -> Attribution \cup {NoPending}], NEW r \in Requests
    PROVE  /\ KeptPending(p) \in [Requests -> Attribution \cup {NoPending}]
           /\ Forget(r) \in [Requests -> Attribution \cup {NoPending}]
  BY DEF TypeOK, KeptPending, Forget

LEMMA AttributedType ==
    ASSUME TypeOK, NEW p \in [Requests -> Attribution \cup {NoPending}], NEW r \in Requests,
           NEW b \in Bucket
    PROVE  Attributed(p, r, b) \in [Requests -> Attribution \cup {NoPending}]
  <1>1. [bucket |-> b, at |-> now, epoch |-> epochs.current, stale |-> FALSE] \in Attribution
    BY DEF TypeOK
  <1>. QED  BY <1>1 DEF Attributed

\* What TypeOK says of the commit in flight.
CommitTyped ==
    /\ writer \in Writer \cup {Idle} /\ writes \in Nat
    /\ writer # Idle /\ writer.op \in {"discard", "reserve", "finish"} => writer.bucket \in Bucket

\* A commit in flight is of its type, whatever it is to save.
LEMMA CommitType ==
    ASSUME TypeOK, NEW op \in {"persist", "clear", "discard", "update", "reserve", "finish"},
           NEW next \in State, NEW full \in BOOLEAN, NEW scope \in SUBSET Bucket,
           NEW b \in Bucket \cup {NoBucket}, Commit(op, next, full, scope, b),
           op \in {"discard", "reserve", "finish"} => b \in Bucket
    PROVE  CommitTyped'
  <1>1. (full \/ base = 0) \in BOOLEAN
    OBVIOUS
  <1>2. writer' = [op |-> op, next |-> next, full |-> full \/ base = 0, scope |-> scope,
                   bucket |-> b, written |-> FALSE]
    BY DEF Commit
  <1>3. writer' \in Writer
    BY <1>1, <1>2
  <1>4. writes' \in Nat
    BY DEF Commit, TypeOK
  <1>5. writer'.op = op /\ writer'.bucket = b
    BY <1>2
  <1>. QED  BY <1>3, <1>4, <1>5 DEF CommitTyped

LEMMA LoadedType ==
    ASSUME NEW d \in [main : Main \cup {NoFile}, overlay : Overlay \cup {NoFile},
                      backup : Overlay \cup {NoFile}]
    PROVE  Loaded(d) \in State /\ Digest(d) \in Nat
  <1>0. LiveTombstones({}, now) = {} /\ \A D \in Tombstones : LiveTombstones(D, now) \in Tombstones
    BY DEF LiveTombstones
  <1>1. CASE d.main = NoFile
    BY <1>1, TurnStateAssumption DEF Loaded, Digest
  <1>2. CASE d.main # NoFile
    <2>1. d.main \in Main
      BY <1>2
    <2>2. CASE d.overlay = NoFile
      BY <1>0, <1>2, <2>1, <2>2 DEF Loaded, Digest
    <2>3. CASE d.overlay # NoFile
      <3>1. d.overlay \in Overlay
        BY <2>3
      <3>. QED  BY <1>0, <1>2, <2>1, <2>3, <3>1 DEF Loaded, Digest
    <2>. QED  BY <2>2, <2>3
  <1>. QED  BY <1>1, <1>2

-----------------------------------------------------------------------------
(* Types *)

LEMMA InitType == Init => TypeOK
  BY TurnStateAssumption DEF Init, TypeOK

LEMMA AskType ==
    ASSUME TypeOK, NEW r \in Requests, NEW b \in Bucket, NEW gate \in BOOLEAN,
           AskState(r, b, gate)
    PROVE  TypeOK'
  <1>1. InScope(state.config, b) \in BOOLEAN
    BY DEF InScope
  <1>2. (gate /\ InScope(state.config, b)) \in BOOLEAN
    OBVIOUS
  <1>3. asking' \in Asking \cup {Idle}
    BY <1>2 DEF AskState
  <1>4. upstream' \in [Requests -> Bucket \cup {NoBucket}]
    BY DEF AskState, TypeOK
  <1>5. pending' \in [Requests -> Attribution \cup {NoPending}] /\ passed' \subseteq Requests
    BY DEF AskState, TypeOK, Forget, PassedBy
  <1>. QED  BY <1>3, <1>4, <1>5 DEF AskState, TypeOK, storeVars, historyVars, switchVars

LEMMA PruneType ==
    ASSUME TypeOK, Prune
    PROVE  state' \in State /\ dirty' \in Templates /\ prunedAt' \in Nat
  BY KeptTypes DEF Prune, TypeOK

LEMMA AnswerType ==
    ASSUME TypeOK, NEW replaceable \in BOOLEAN, AnswerState(replaceable)
    PROVE  TypeOK'
  <1>1. asking \in Asking
    BY DEF AnswerState, TypeOK
  <1>2. asking.req \in Requests /\ asking.bucket \in Bucket
    BY <1>1
  <1>3. upstream' \in [Requests -> Bucket \cup {NoBucket}]
    BY <1>2 DEF AnswerState, TypeOK
  <1>4. /\ state' \in State /\ dirty' \in Templates /\ prunedAt' \in Nat
        /\ pending' \in [Requests -> Attribution \cup {NoPending}]
    <2>1. CASE UNCHANGED <<state, dirty, prunedAt, pending>>
      BY <2>1 DEF TypeOK
    <2>2. CASE Before(asking.req, asking.bucket)
      <3>1. Forget(asking.req) \in [Requests -> Attribution \cup {NoPending}]
        BY <1>2 DEF TypeOK, Forget
      <3>2. KeptPending(Forget(asking.req)) \in [Requests -> Attribution \cup {NoPending}]
        BY <1>2, <3>1, PendingTypes
      <3>3. Attributed(KeptPending(Forget(asking.req)), asking.req, asking.bucket)
                \in [Requests -> Attribution \cup {NoPending}]
        BY <1>2, <3>2, AttributedType
      <3>. QED  BY <2>2, <3>1, <3>3, PruneType DEF Before, TypeOK
    <2>. QED  BY <2>1, <2>2 DEF AnswerState
  <1>5. passed' \subseteq Requests
    BY <1>2 DEF AnswerState, TypeOK, PassedBy
  <1>. QED  BY <1>3, <1>4, <1>5 DEF AnswerState, TypeOK, historyVars, switchVars

LEMMA LearnType ==
    ASSUME TypeOK, NEW r \in Requests, NEW v \in Values, NEW known \in BOOLEAN,
           LearnResponse(r, v, known)
    PROVE  TypeOK'
  <1>1. pending' \in [Requests -> Attribution \cup {NoPending}]
    <2>1. Forget(r) \in [Requests -> Attribution \cup {NoPending}]
      BY DEF TypeOK, Forget
    <2>. QED  BY <2>1, PendingTypes DEF LearnResponse
  <1>2. CASE ~Attributable(pending[r])
    <2>1. /\ state' \in State /\ dirty' \in Templates /\ prunedAt' \in Nat /\ lapsed' \in Tombstones
          /\ guessed' \in Tombstones
      BY <1>2, KeptTypes DEF LearnResponse, TypeOK
    <2>. QED  BY <1>1, <2>1 DEF LearnResponse, TypeOK
  <1>3. CASE Attributable(pending[r])
    <2>1. pending[r].bucket \in Bucket
      BY <1>3 DEF Attributable, TypeOK
    <2>2. /\ [KeptState EXCEPT !.templates[pending[r].bucket] = v] \in State
          /\ [KeptDirty EXCEPT ![pending[r].bucket] = v] \in Templates
      BY <2>1, KeptTypes
    <2>3. /\ state' \in State /\ dirty' \in Templates /\ prunedAt' \in Nat /\ lapsed' \in Tombstones
          /\ guessed' \in Tombstones
      BY <2>1, <2>2, KeptTypes DEF LearnResponse, TypeOK
    <2>. QED  BY <1>1, <2>3 DEF LearnResponse, TypeOK
  <1>. QED  BY <1>2, <1>3

LEMMA StatusType == ASSUME TypeOK, Status PROVE TypeOK'
  <1>1. pending' \in [Requests -> Attribution \cup {NoPending}]
    BY DEF Status, TypeOK, KeptPending
  <1>. QED  BY <1>1, PruneType DEF Status, TypeOK, historyVars, switchVars

\* What writers save.
LEMMA SavedTypes ==
    ASSUME TypeOK
    PROVE  /\ \A scope \in SUBSET Bucket :
                [state EXCEPT !.templates = [b \in Bucket |->
                     IF b \in scope THEN NoValue ELSE state.templates[b]]] \in State
           /\ \A b \in Bucket : Holds(state, b, now) =>
                [Pruned(state, now) EXCEPT !.templates[b] = NoValue,
                     !.discarded = @ \cup {<<b, state.templates[b]>>}] \in State
           /\ \A c \in Config : Pruned([Pruned(state, now) EXCEPT !.config = c], now) \in State
           /\ \A b \in Bucket, v \in Values :
                [Pruned(state, now) EXCEPT !.templates[b] = v] \in State
  <1>1. state \in State /\ now \in Nat
    BY DEF TypeOK
  <1>2. Pruned(state, now) \in State
    BY <1>1, PrunedType
  <1>3. ASSUME NEW scope \in SUBSET Bucket
        PROVE  [state EXCEPT !.templates = [b \in Bucket |->
                    IF b \in scope THEN NoValue ELSE state.templates[b]]] \in State
    BY <1>1
  <1>4. ASSUME NEW b \in Bucket, Holds(state, b, now)
        PROVE  [Pruned(state, now) EXCEPT !.templates[b] = NoValue,
                    !.discarded = @ \cup {<<b, state.templates[b]>>}] \in State
    <2>1. state.templates[b] \in Values
      BY <1>1, <1>4 DEF Holds
    <2>2. {<<b, state.templates[b]>>} \in Tombstones
      BY <2>1
    <2>3. ASSUME NEW s \in State, NEW D \in Tombstones
          PROVE  [s EXCEPT !.templates[b] = NoValue, !.discarded = @ \cup D] \in State
      <3>1. s.discarded \cup D \in Tombstones /\ [s.templates EXCEPT ![b] = NoValue] \in Templates
        OBVIOUS
      <3>. QED  BY <3>1
    <2>. QED  BY <1>2, <2>2, <2>3
  <1>5. ASSUME NEW c \in Config
        PROVE  Pruned([Pruned(state, now) EXCEPT !.config = c], now) \in State
    <2>1. [Pruned(state, now) EXCEPT !.config = c] \in State
      BY <1>2
    <2>. QED  BY <1>1, <2>1, PrunedType
  <1>6. ASSUME NEW b \in Bucket, NEW v \in Values
        PROVE  [Pruned(state, now) EXCEPT !.templates[b] = v] \in State
    BY <1>2
  <1>. QED  BY <1>3, <1>4, <1>5, <1>6

LEMMA PersistType == ASSUME TypeOK, PersistLearned PROVE TypeOK'
  <1>1. state \in State /\ {} \in SUBSET Bucket
    BY DEF TypeOK
  <1>2. CommitTyped'
    BY <1>1, CommitType DEF PersistLearned
  <1>. QED  BY <1>2 DEF PersistLearned, untouchedByCommit, hookVars, switchVars, CommitTyped, TypeOK

LEMMA ClearType ==
    ASSUME TypeOK, NEW scope \in SUBSET Bucket, Clear(scope)
    PROVE  TypeOK'
  <1>. DEFINE next == [state EXCEPT !.templates = [b \in Bucket |->
                           IF b \in scope THEN NoValue ELSE state.templates[b]]]
  <1>a. next \in State
    BY SavedTypes
  <1>b. Commit("clear", next, FALSE, scope, NoBucket)
    BY DEF Clear
  <1>. HIDE DEF next
  <1>1. CommitTyped'
    BY <1>a, <1>b, CommitType
  <1>. QED  BY <1>1 DEF Clear, untouchedByCommit, hookVars, switchVars, CommitTyped, TypeOK

LEMMA DiscardType ==
    ASSUME TypeOK, NEW b \in Bucket, Discard(b)
    PROVE  TypeOK'
  <1>. DEFINE next == [Pruned(state, now) EXCEPT !.templates[b] = NoValue,
                           !.discarded = @ \cup {<<b, state.templates[b]>>}]
  <1>a. next \in State
    BY SavedTypes DEF Discard
  <1>b. Commit("discard", next, TRUE, {}, b)
    BY DEF Discard
  <1>. HIDE DEF next
  <1>2. CommitTyped'
    BY <1>a, <1>b, CommitType
  <1>. QED  BY <1>2 DEF Discard, untouchedByCommit, hookVars, switchVars, CommitTyped, TypeOK

LEMMA UpdateType ==
    ASSUME TypeOK, NEW c \in Configs, Update(c)
    PROVE  TypeOK'
  <1>1. c \in Config
    BY TurnStateAssumption
  <1>. DEFINE next == Pruned([Pruned(state, now) EXCEPT !.config = c], now)
  <1>a. next \in State
    BY <1>1, SavedTypes
  <1>b. Commit("update", next, TRUE, {}, NoBucket)
    BY DEF Update
  <1>. HIDE DEF next
  <1>2. CommitTyped'
    BY <1>a, <1>b, CommitType
  <1>. QED  BY <1>2 DEF Update, untouchedByCommit, hookVars, switchVars, CommitTyped, TypeOK

LEMMA StartType ==
    ASSUME TypeOK, NEW b \in Bucket, StartProbe(b)
    PROVE  TypeOK'
  <1>1. Pruned(state, now) \in State
    BY PrunedType DEF TypeOK
  <1>2. CommitTyped'
    BY <1>1, CommitType DEF StartProbe
  <1>3. pending' \in [Requests -> Attribution \cup {NoPending}]
    BY DEF StartProbe, TypeOK, KeptPending
  <1>4. Prune
    BY DEF StartProbe
  <1>. QED  BY <1>2, <1>3, <1>4, PruneType DEF StartProbe, CommitTyped, TypeOK, switchVars

LEMMA FinishType ==
    ASSUME TypeOK, NEW b \in Bucket, NEW v \in Values \cup {NoValue}, NEW removed \in BOOLEAN,
           FinishProbe(b, v, removed)
    PROVE  TypeOK'
  <1>1. Pruned(state, now) \in State
    BY PrunedType DEF TypeOK
  <1>2. v # NoValue => [Pruned(state, now) EXCEPT !.templates[b] = v] \in State
    BY SavedTypes
  <1>3. PICK next \in State : Commit("finish", next, removed, {}, b)
    BY <1>1, <1>2 DEF FinishProbe
  <1>4. CommitTyped'
    BY <1>3, CommitType
  <1>5. lapsed' \in Tombstones
    BY DEF FinishProbe, TypeOK
  <1>. QED  BY <1>4, <1>5 DEF FinishProbe, CommitTyped, TypeOK, hookVars, switchVars

LEMMA WriteType == ASSUME TypeOK, WriteFile PROVE TypeOK'
  <1>1. writer \in Writer /\ writer.next \in State /\ writes \in Nat /\ base \in Nat
    BY DEF WriteFile, TypeOK
  <1>2. writer' \in Writer
    BY <1>1 DEF WriteFile
  <1>3. disk' \in [main : Main \cup {NoFile}, overlay : Overlay \cup {NoFile},
                   backup : Overlay \cup {NoFile}]
    <2>1. [digest |-> writes, config |-> writer.next.config, templates |-> writer.next.templates,
           discarded |-> writer.next.discarded] \in Main
      BY <1>1
    <2>2. [base |-> base, templates |-> writer.next.templates,
           discarded |-> writer.next.discarded] \in Overlay
      BY <1>1
    <2>. QED  BY <2>1, <2>2 DEF WriteFile, Written, TypeOK
  <1>. QED  BY <1>2, <1>3 DEF WriteFile, TypeOK, hookVars, historyVars, switchVars

LEMMA FailType == ASSUME TypeOK, WriteFails PROVE TypeOK'
  BY DEF WriteFails, TypeOK, hookVars, historyVars, switchVars

LEMMA EpochsType ==
    ASSUME TypeOK, NEW B
    PROVE  NextEpochs(B) \in Epochs
  <1>1. \A n \in Nat : n + 1 \in Nat
    OBVIOUS
  <1>2. epochs.current \in Nat /\ epochs.cleared \in [Bucket -> Nat] /\ epochs \in Epochs
    BY DEF TypeOK
  <1>3. [b \in Bucket |-> IF b \in B THEN epochs.current + 1 ELSE epochs.cleared[b]]
            \in [Bucket -> Nat]
    BY <1>1, <1>2
  <1>. QED  BY <1>1, <1>2, <1>3 DEF NextEpochs

LEMMA PublishType == ASSUME TypeOK, Publish PROVE TypeOK'
  <1>1. writer \in Writer /\ writer.next \in State /\ writer.next.templates \in Templates
    BY DEF Publish, TypeOK
  <1>2. dirty' \in Templates
    BY DEF Publish, TypeOK
  <1>3. state' \in State
    <2>1. [b \in Bucket |-> IF Outlives(writer, b) THEN dirty[b]
                            ELSE writer.next.templates[b]] \in Templates
      BY <1>1 DEF TypeOK
    <2>. QED  BY <1>1, <2>1 DEF Publish
  <1>4. base' \in Nat
    BY LoadedType DEF Publish, TypeOK
  <1>5. epochs' \in Epochs
    BY EpochsType DEF Publish
  <1>6. pending' \in [Requests -> Attribution \cup {NoPending}]
    <2>1. ASSUME NEW r \in Requests, pending[r] # NoPending
          PROVE  [pending[r] EXCEPT !.stale = TRUE] \in Attribution
      BY <2>1 DEF TypeOK
    <2>. QED  BY <2>1 DEF Publish, TypeOK
  <1>7. probing' \subseteq Bucket
    BY DEF Publish, TypeOK
  <1>8. gone' \in Tombstones
    BY <1>1 DEF Publish, TypeOK
  <1>9. writer' = Idle
    BY DEF Publish
  <1>. QED
    BY <1>2, <1>3, <1>4, <1>5, <1>6, <1>7, <1>8, <1>9 DEF Publish, TypeOK, switchVars

LEMMA OpenedType ==
    ASSUME TypeOK, NEW d \in [main : Main \cup {NoFile}, overlay : Overlay \cup {NoFile},
                              backup : Overlay \cup {NoFile}],
           NEW epoch \in Nat, Opened(d, epoch)
    PROVE  /\ state' \in State /\ dirty' \in Templates /\ base' \in Nat /\ epochs' \in Epochs
           /\ pending' \in [Requests -> Attribution \cup {NoPending}] /\ prunedAt' \in Nat
  BY LoadedType, PrunedType DEF Opened, TypeOK

LEMMA RestartType ==
    ASSUME TypeOK, NEW restored \in BOOLEAN, Restart(restored)
    PROVE  TypeOK'
  <1>1. disk' \in [main : Main \cup {NoFile}, overlay : Overlay \cup {NoFile},
                   backup : Overlay \cup {NoFile}]
    BY DEF Restart, TypeOK
  <1>2. Opened(disk', 1) /\ 1 \in Nat
    BY DEF Restart
  <1>3. /\ state' \in State /\ dirty' \in Templates /\ base' \in Nat /\ epochs' \in Epochs
        /\ pending' \in [Requests -> Attribution \cup {NoPending}] /\ prunedAt' \in Nat
    BY <1>1, <1>2, OpenedType
  <1>. QED  BY <1>1, <1>3 DEF Restart, Opened, TypeOK, historyVars, switchVars

LEMMA ReconfigureType == ASSUME TypeOK, Reconfigure PROVE TypeOK'
  <1>1. Opened(disk, epochs.current + 1) /\ epochs.current + 1 \in Nat
    BY DEF Reconfigure, TypeOK
  <1>2. /\ state' \in State /\ dirty' \in Templates /\ base' \in Nat /\ epochs' \in Epochs
        /\ pending' \in [Requests -> Attribution \cup {NoPending}] /\ prunedAt' \in Nat
    BY <1>1, OpenedType DEF TypeOK
  <1>. QED  BY <1>2 DEF Reconfigure, Opened, TypeOK, historyVars, switchVars

LEMMA TickType == ASSUME TypeOK, Tick PROVE TypeOK'
  <1>1. lapsed' \in Tombstones
    BY DEF Tick, TypeOK, Holds
  <1>. QED  BY <1>1 DEF Tick, TypeOK, storeVars, hookVars, switchVars

LEMMA OtherTypes ==
    ASSUME TypeOK, BackUp \/ SwitchPlugin \/ \E r \in Requests : Complete(r)
    PROVE  TypeOK'
  <1>1. CASE BackUp
    BY <1>1 DEF BackUp, TypeOK, hookVars, historyVars, switchVars
  <1>2. ASSUME NEW r \in Requests, Complete(r) PROVE TypeOK'
    BY <1>2 DEF Complete, TypeOK, Forget, storeVars, historyVars, switchVars
  <1>3. CASE SwitchPlugin
    BY <1>3, TurnStateAssumption DEF SwitchPlugin, TypeOK, storeVars, hookVars, historyVars
  <1>. QED  BY <1>1, <1>2, <1>3

LEMMA StepType == TypeOK /\ [Next]_vars => TypeOK'
  <1>. SUFFICES ASSUME TypeOK, [Next]_vars PROVE TypeOK'
    OBVIOUS
  <1>1. CASE UNCHANGED vars
    BY <1>1 DEF vars, storeVars, hookVars, historyVars, switchVars, TypeOK
  <1>2. CASE Next
    BY <1>2, AskType, AnswerType, LearnType, OtherTypes, StatusType, PersistType, ClearType,
       DiscardType, UpdateType, StartType, FinishType, WriteType, FailType, PublishType,
       RestartType, ReconfigureType, TickType DEF Next
  <1>. QED  BY <1>1, <1>2

(* Every variable holds a value of its kind, whatever the requests, probes, writes,
   crashes and settings. *)
THEOREM TurnStateTypeCorrect == Spec => []TypeOK
  BY InitType, StepType, PTL DEF Spec
-----------------------------------------------------------------------------
(* Responses to earlier requests *)

\* An attribution is of an epoch that has been, and one no longer to be used is of an
\* epoch before the invalidation of its bucket.
AttributionsAreDated ==
    \A r \in Requests : pending[r] # NoPending =>
        /\ pending[r].epoch <= epochs.current
        /\ pending[r].stale => \/ pending[r].epoch < epochs.all
                               \/ pending[r].epoch < epochs.cleared[pending[r].bucket]

LEMMA InitDated == Init => AttributionsAreDated
  BY DEF Init, AttributionsAreDated

\* Dropping attributions, or keeping one of now, dates no attribution wrongly.
LEMMA FewerDated ==
    ASSUME TypeOK, AttributionsAreDated, epochs' = epochs,
           \A r \in Requests : \/ pending'[r] \in {pending[r], NoPending}
                               \/ /\ pending'[r].epoch = epochs.current
                                  /\ ~pending'[r].stale
    PROVE  AttributionsAreDated'
  <1>. SUFFICES ASSUME NEW r \in Requests, pending'[r] # NoPending
                PROVE  /\ pending'[r].epoch <= epochs'.current
                       /\ pending'[r].stale =>
                              \/ pending'[r].epoch < epochs'.all
                              \/ pending'[r].epoch < epochs'.cleared[pending'[r].bucket]
    BY DEF AttributionsAreDated
  <1>1. CASE pending'[r] = pending[r]
    BY <1>1 DEF AttributionsAreDated
  <1>2. CASE pending'[r].epoch = epochs.current /\ ~pending'[r].stale
    BY <1>2 DEF TypeOK
  <1>. QED  BY <1>1, <1>2

LEMMA PublishDated ==
    ASSUME TypeOK, AttributionsAreDated, Publish
    PROVE  AttributionsAreDated'
  <1>. DEFINE B == Invalidated(writer)
  <1>1. epochs' = NextEpochs(B)
    BY DEF Publish
  <1>2. \A r \in Requests : pending'[r] = IF pending[r] # NoPending /\ pending[r].bucket \in B
                                          THEN [pending[r] EXCEPT !.stale = TRUE] ELSE pending[r]
    BY DEF Publish
  <1>. HIDE DEF B
  <1>. SUFFICES ASSUME NEW r \in Requests, pending'[r] # NoPending
                PROVE  /\ pending'[r].epoch <= epochs'.current
                       /\ pending'[r].stale =>
                              \/ pending'[r].epoch < epochs'.all
                              \/ pending'[r].epoch < epochs'.cleared[pending'[r].bucket]
    BY DEF AttributionsAreDated
  <1>3. pending[r] \in Attribution /\ pending[r] # NoPending
    BY <1>2 DEF TypeOK
  <1>4. /\ pending'[r].epoch = pending[r].epoch /\ pending'[r].bucket = pending[r].bucket
        /\ pending'[r].stale => pending[r].stale \/ pending[r].bucket \in B
    BY <1>2, <1>3
  <1>5. /\ pending[r].epoch \in Nat /\ pending[r].bucket \in Bucket
        /\ epochs.current \in Nat /\ epochs.all \in Nat /\ epochs.cleared \in [Bucket -> Nat]
        /\ epochs \in Epochs /\ pending[r].epoch <= epochs.current
    BY <1>3 DEF TypeOK, AttributionsAreDated
  <1>6. pending[r].stale => \/ pending[r].epoch < epochs.all
                            \/ pending[r].epoch < epochs.cleared[pending[r].bucket]
    BY <1>3 DEF AttributionsAreDated
  <1>7. CASE B = {}
    BY <1>1, <1>4, <1>5, <1>6, <1>7 DEF NextEpochs
  <1>8. CASE B # {} /\ B = Bucket
    <2>1. epochs'.current = epochs.current + 1 /\ epochs'.all = epochs.current + 1
      BY <1>1, <1>8 DEF NextEpochs
    <2>. QED  BY <2>1, <1>4, <1>5
  <1>9. CASE B # {} /\ B # Bucket
    <2>1. /\ epochs'.current = epochs.current + 1 /\ epochs'.all = epochs.all
          /\ epochs'.cleared[pending[r].bucket] =
                 IF pending[r].bucket \in B THEN epochs.current + 1
                                            ELSE epochs.cleared[pending[r].bucket]
      BY <1>1, <1>5, <1>9 DEF NextEpochs
    <2>. QED  BY <2>1, <1>4, <1>5, <1>6
  <1>. QED  BY <1>7, <1>8, <1>9

\* A response whose attribution is stale is not attributable.
LEMMA StaleIsUnattributable ==
    ASSUME TypeOK, AttributionsAreDated, NEW r \in Requests, pending[r] # NoPending,
           pending[r].stale
    PROVE  ~Attributable(pending[r])
  <1>1. pending[r] \in Attribution
    BY DEF TypeOK
  <1>2. /\ pending[r].epoch \in Nat /\ epochs.all \in Nat
        /\ epochs.cleared[pending[r].bucket] \in Nat
    BY <1>1 DEF TypeOK
  <1>. QED  BY <1>2 DEF AttributionsAreDated, Attributable

LEMMA StepDated == TypeOK /\ AttributionsAreDated /\ [Next]_vars => AttributionsAreDated'
  <1>. SUFFICES ASSUME TypeOK, AttributionsAreDated, [Next]_vars PROVE AttributionsAreDated'
    OBVIOUS
  <1>0. /\ DOMAIN pending = Requests
        /\ \A r \in Requests : Forget(r) \in [Requests -> Attribution \cup {NoPending}]
        /\ \A r, q \in Requests : Forget(r)[q] \in {pending[q], NoPending}
    BY DEF TypeOK, Forget
  <1>1. CASE UNCHANGED <<pending, epochs>>
    BY <1>1, FewerDated
  <1>2. ASSUME NEW r \in Requests, NEW b \in Bucket, NEW gate \in BOOLEAN, AskState(r, b, gate)
        PROVE  AttributionsAreDated'
    BY <1>0, <1>2, FewerDated DEF AskState
  <1>3. ASSUME NEW replaceable \in BOOLEAN, AnswerState(replaceable)
        PROVE  AttributionsAreDated'
    <2>1. asking \in Asking
      BY <1>3 DEF AnswerState, TypeOK
    <2>2. epochs' = epochs
      BY <1>3 DEF AnswerState
    <2>3. CASE UNCHANGED pending
      BY <2>2, <2>3, FewerDated
    <2>4. CASE Before(asking.req, asking.bucket)
      <3>. DEFINE F == Forget(asking.req)
                  K == KeptPending(F)
      <3>1. asking.req \in Requests /\ asking.bucket \in Bucket
        BY <2>1
      <3>2. F \in [Requests -> Attribution \cup {NoPending}]
        BY <1>0, <3>1
      <3>3. /\ K \in [Requests -> Attribution \cup {NoPending}]
            /\ \A q \in Requests : K[q] \in {pending[q], NoPending}
        BY <1>0, <3>1, <3>2 DEF KeptPending
      <3>4. CASE pending' = F
        BY <1>0, <2>2, <3>1, <3>4, FewerDated
      <3>5. CASE pending' = Attributed(K, asking.req, asking.bucket)
        <4>. HIDE DEF K
        <4>1. \A q \in Requests :
                 \/ pending'[q] = K[q]
                 \/ /\ pending'[q].epoch = epochs.current /\ ~pending'[q].stale
          BY <3>1, <3>3, <3>5 DEF Attributed
        <4>. QED  BY <2>2, <3>3, <4>1, FewerDated
      <3>. QED  BY <2>4, <3>4, <3>5 DEF Before
    <2>. QED  BY <1>3, <2>3, <2>4 DEF AnswerState
  <1>4. ASSUME NEW r \in Requests, NEW v \in Values, NEW known \in BOOLEAN,
               LearnResponse(r, v, known)
        PROVE  AttributionsAreDated'
    <2>1. \A q \in Requests : KeptPending(Forget(r))[q] \in {pending[q], NoPending}
      BY <1>0 DEF KeptPending
    <2>. QED  BY <1>0, <1>4, <2>1, FewerDated DEF LearnResponse
  <1>5. ASSUME NEW r \in Requests, Complete(r) PROVE AttributionsAreDated'
    BY <1>0, <1>5, FewerDated DEF Complete
  <1>6. \A q \in Requests : KeptPending(pending)[q] \in {pending[q], NoPending}
    BY DEF KeptPending
  <1>7. CASE Status
    BY <1>6, <1>7, FewerDated DEF Status
  <1>8. ASSUME NEW b \in Bucket, StartProbe(b) PROVE AttributionsAreDated'
    BY <1>6, <1>8, FewerDated DEF StartProbe
  <1>9. CASE Publish
    BY <1>9, PublishDated
  <1>10. ASSUME NEW restored \in BOOLEAN, Restart(restored) PROVE AttributionsAreDated'
    BY <1>10 DEF Restart, Opened, AttributionsAreDated
  <1>11. CASE Reconfigure
    BY <1>11 DEF Reconfigure, Opened, AttributionsAreDated
  <1>12. CASE Next
    BY <1>12, <1>1, <1>2, <1>3, <1>4, <1>5, <1>7, <1>8, <1>9, <1>10, <1>11
       DEF Next, PersistLearned, Clear, Discard, Update, FinishProbe, WriteFile, WriteFails, BackUp,
           Tick, SwitchPlugin, untouchedByCommit, hookVars, switchVars
  <1>. QED  BY <1>1, <1>12 DEF vars, hookVars, switchVars

\* What a response whose attribution is stale does to the templates.
LEMMA StaleStep ==
    TypeOK /\ AttributionsAreDated =>
        \A r \in Requests, v \in Values, known \in BOOLEAN :
            LearnResponse(r, v, known) /\ pending[r] # NoPending /\ pending[r].stale =>
                \A b \in Bucket : state'.templates[b] \in {state.templates[b], NoValue}
  <1>. SUFFICES ASSUME TypeOK, AttributionsAreDated, NEW r \in Requests, NEW v \in Values,
                       NEW known \in BOOLEAN, LearnResponse(r, v, known),
                       pending[r] # NoPending, pending[r].stale, NEW b \in Bucket
                PROVE  state'.templates[b] \in {state.templates[b], NoValue}
    OBVIOUS
  <1>1. state' = state \/ state' = KeptState
    BY StaleIsUnattributable DEF LearnResponse
  <1>2. KeptState.templates[b] \in {state.templates[b], NoValue}
    BY DEF KeptState, Pruned, TypeOK
  <1>. QED  BY <1>1, <1>2

(* For all requests, buckets and interleavings: a response to a request that was sent
   before its bucket was cleared, discarded or put under other rules adds no template. *)
THEOREM StaleResponsesTheorem == Spec => StaleResponsesTeachNothing
  <1>1. TypeOK /\ AttributionsAreDated /\ [Next]_vars =>
            [\A r \in Requests, v \in Values, known \in BOOLEAN :
                LearnResponse(r, v, known) /\ pending[r] # NoPending /\ pending[r].stale =>
                    \A b \in Bucket : state'.templates[b] \in {state.templates[b], NoValue}]_vars
    BY StaleStep
  <1>. QED
    BY <1>1, InitType, StepType, InitDated, StepDated, PTL DEF Spec, StaleResponsesTeachNothing

-----------------------------------------------------------------------------
(* Discarded values *)

\* What administrators discarded and could still be usable by its age.
LiveGone == {d \in gone : now < IssuedAt[d[2]] + Hour}

\* The tombstone of each is in memory, in the copy being saved and in the main file,
\* which every way back to memory reads.
TombstonesKept ==
    /\ LiveGone \subseteq state.discarded
    /\ writer # Idle => LiveGone \subseteq writer.next.discarded
    /\ LiveGone # {} => disk.main # NoFile /\ LiveGone \subseteq disk.main.discarded

\* A discard is saved by a full write, and the main file then holds what it saves.
DiscardsAreFull ==
    writer # Idle =>
        /\ writer.op = "discard" => writer.full
        /\ writer.written /\ writer.full =>
               disk.main # NoFile /\ disk.main.discarded = writer.next.discarded

DiscardInv == TombstonesKept /\ DiscardsAreFull

LEMMA InitDiscard == Init => DiscardInv
  BY DEF Init, DiscardInv, TombstonesKept, DiscardsAreFull, LiveGone

\* The invariant says what the property wants: a value that is not too old has its tombstone.
LEMMA TombstonedIsUnusable == TypeOK /\ TombstonesKept => DiscardedStaysGone
  <1>. SUFFICES ASSUME TypeOK, TombstonesKept, NEW d \in gone, Usable(state, d[1], d[2], now)
                PROVE  FALSE
    BY DEF DiscardedStaysGone
  <1>1. d \in Bucket \X Values /\ d = <<d[1], d[2]>> /\ d[2] \in Values
    BY DEF TypeOK
  <1>2. IssuedAt[d[2]] \in Nat /\ now \in Nat /\ Hour \in Nat /\ state.config \in Config
    BY <1>1, TurnStateAssumption DEF TypeOK
  <1>3. state.config.ttl \in Nat /\ state.config.ttl <= Hour
    BY <1>2 DEF Config
  <1>4. now - IssuedAt[d[2]] < state.config.ttl
    BY DEF Usable, UsableUnder
  <1>5. now < IssuedAt[d[2]] + Hour
    BY <1>2, <1>3, <1>4
  <1>6. <<d[1], d[2]>> \in state.discarded
    BY <1>1, <1>5 DEF TombstonesKept, LiveGone
  <1>. QED  BY <1>5, <1>6 DEF Usable, Tombstoned

\* Pruning drops the tombstone of no value that could still be usable.
LEMMA PrunedKeeps ==
    ASSUME TypeOK, NEW s \in State, LiveGone \subseteq s.discarded
    PROVE  LiveGone \subseteq Pruned(s, now).discarded
  <1>1. Pruned(s, now).discarded = LiveTombstones(s.discarded, now)
    BY PrunedType DEF TypeOK
  <1>. QED  BY <1>1 DEF LiveTombstones, LiveGone

LEMMA KeptKeeps ==
    ASSUME TypeOK, TombstonesKept
    PROVE  LiveGone \subseteq KeptState.discarded
  BY PrunedKeeps DEF KeptState, TombstonesKept, TypeOK

\* Steps of hooks: no write starts or ends.
LEMMA HookDiscard ==
    ASSUME TypeOK, DiscardInv, UNCHANGED <<writer, disk, gone, now>>,
           LiveGone \subseteq state'.discarded
    PROVE  DiscardInv'
  <1>1. LiveGone' = LiveGone
    BY DEF LiveGone
  <1>2. TombstonesKept'
    BY <1>1 DEF DiscardInv, TombstonesKept
  <1>3. DiscardsAreFull'
    BY DEF DiscardInv, DiscardsAreFull
  <1>. QED  BY <1>2, <1>3 DEF DiscardInv

\* A write starts: what is to be saved holds the tombstones.
LEMMA CommitDiscard ==
    ASSUME TypeOK, DiscardInv,
           NEW op \in {"persist", "clear", "discard", "update", "reserve", "finish"},
           NEW next \in State, NEW full \in BOOLEAN, NEW scope, NEW b,
           Commit(op, next, full, scope, b), op = "discard" => full,
           UNCHANGED <<disk, gone, now>>,
           LiveGone \subseteq state'.discarded, LiveGone \subseteq next.discarded
    PROVE  DiscardInv'
  <1>1. LiveGone' = LiveGone
    BY DEF LiveGone
  <1>2. /\ writer'.op = op /\ writer'.next = next /\ writer'.written = FALSE
        /\ writer'.full = (full \/ base = 0)
    BY DEF Commit
  <1>3. TombstonesKept'
    BY <1>1, <1>2 DEF DiscardInv, TombstonesKept
  <1>4. DiscardsAreFull'
    BY <1>2 DEF DiscardsAreFull
  <1>. QED  BY <1>3, <1>4 DEF DiscardInv

LEMMA WriteDiscard == ASSUME TypeOK, DiscardInv, WriteFile PROVE DiscardInv'
  <1>1. LiveGone' = LiveGone
    BY DEF WriteFile, historyVars, switchVars, LiveGone
  <1>2. /\ writer \in Writer /\ writer # Idle /\ state' = state
        /\ writer'.op = writer.op /\ writer'.next = writer.next /\ writer'.full = writer.full
    BY DEF WriteFile, TypeOK
  <1>3. disk' = Written(disk, writer) /\ DOMAIN disk = {"main", "overlay", "backup"}
    BY DEF WriteFile, TypeOK
  <1>4. CASE writer.full
    <2>1. disk'.main = [digest |-> writes, config |-> writer.next.config,
                        templates |-> writer.next.templates,
                        discarded |-> writer.next.discarded]
      BY <1>3, <1>4 DEF Written
    <2>2. disk'.main \in Main /\ disk'.main.discarded = writer.next.discarded
      BY <1>2, <2>1 DEF TypeOK
    <2>3. disk'.main # NoFile
      BY <2>2, TurnStateAssumption
    <2>4. LiveGone \subseteq writer.next.discarded
      BY <1>2 DEF DiscardInv, TombstonesKept
    <2>. QED
      BY <1>1, <1>2, <2>2, <2>3, <2>4 DEF DiscardInv, TombstonesKept, DiscardsAreFull
  <1>5. CASE ~writer.full
    <2>1. disk'.main = disk.main
      BY <1>3, <1>5 DEF Written
    <2>. QED  BY <1>1, <1>2, <1>5, <2>1 DEF DiscardInv, TombstonesKept, DiscardsAreFull
  <1>. QED  BY <1>2, <1>4, <1>5

LEMMA PublishDiscard == ASSUME TypeOK, DiscardInv, Publish PROVE DiscardInv'
  <1>1. /\ writer \in Writer /\ writer # Idle /\ writer.written /\ writer' = Idle
        /\ disk' = disk /\ now' = now /\ writer.next \in State
    BY DEF Publish, TypeOK
  <1>2. state'.discarded = writer.next.discarded
    BY <1>1 DEF Publish
  <1>3. gone' = IF writer.op = "discard"
                THEN gone \cup (writer.next.discarded \ state.discarded) ELSE gone
    BY DEF Publish
  <1>4. LiveGone' \subseteq LiveGone \cup writer.next.discarded
    BY <1>1, <1>3 DEF LiveGone
  <1>5. LiveGone' \subseteq state'.discarded
    BY <1>1, <1>2, <1>4 DEF DiscardInv, TombstonesKept
  <1>6. LiveGone' # {} => disk'.main # NoFile /\ LiveGone' \subseteq disk'.main.discarded
    <2>1. CASE writer.op = "discard"
      BY <1>1, <1>2, <1>5, <2>1 DEF DiscardInv, DiscardsAreFull
    <2>2. CASE writer.op # "discard"
      <3>1. LiveGone' = LiveGone
        BY <1>1, <1>3, <2>2 DEF LiveGone
      <3>. QED  BY <1>1, <3>1 DEF DiscardInv, TombstonesKept
    <2>. QED  BY <2>1, <2>2
  <1>. QED  BY <1>1, <1>5, <1>6 DEF DiscardInv, TombstonesKept, DiscardsAreFull

\* The files are read again; the main file, which no backup replaces, has the tombstones.
LEMMA OpenedDiscard ==
    ASSUME TypeOK, DiscardInv, NEW epoch, UNCHANGED <<gone, now>>, writer' = Idle,
           disk' \in [main : Main \cup {NoFile}, overlay : Overlay \cup {NoFile},
                      backup : Overlay \cup {NoFile}],
           disk'.main = disk.main, Opened(disk', epoch)
    PROVE  DiscardInv'
  <1>1. LiveGone' = LiveGone
    BY DEF LiveGone
  <1>2. Loaded(disk') \in State
    BY LoadedType
  <1>3. state' = Pruned(Loaded(disk'), now)
    BY DEF Opened
  <1>4. LiveGone \subseteq Loaded(disk').discarded
    <2>1. CASE LiveGone = {}
      BY <2>1
    <2>2. CASE LiveGone # {}
      <3>1. disk'.main # NoFile /\ LiveGone \subseteq disk'.main.discarded
        BY <2>2 DEF DiscardInv, TombstonesKept
      <3>2. LiveGone \subseteq LiveTombstones(disk'.main.discarded, now)
        BY <3>1 DEF LiveTombstones, LiveGone
      <3>3. LiveTombstones(disk'.main.discarded, now) \subseteq Loaded(disk').discarded
        BY <3>1 DEF Loaded
      <3>. QED  BY <3>2, <3>3
    <2>. QED  BY <2>1, <2>2
  <1>5. LiveGone \subseteq state'.discarded
    BY <1>2, <1>3, <1>4, PrunedKeeps
  <1>. QED  BY <1>1, <1>5 DEF DiscardInv, TombstonesKept, DiscardsAreFull

LEMMA TickDiscard == ASSUME TypeOK, DiscardInv, Tick PROVE DiscardInv'
  <1>1. now' = now + 1 /\ gone' = gone /\ UNCHANGED <<state, writer, disk>> /\ now \in Nat
    BY DEF Tick, storeVars, TypeOK
  <1>2. LiveGone' \subseteq LiveGone
    <2>1. ASSUME NEW d \in gone, now + 1 < IssuedAt[d[2]] + Hour
          PROVE  now < IssuedAt[d[2]] + Hour
      <3>1. IssuedAt[d[2]] \in Nat /\ Hour \in Nat
        BY TurnStateAssumption DEF TypeOK
      <3>. QED  BY <1>1, <2>1, <3>1
    <2>. QED  BY <1>1, <2>1 DEF LiveGone
  <1>3. TombstonesKept'
    BY <1>1, <1>2 DEF DiscardInv, TombstonesKept
  <1>. QED  BY <1>1, <1>3 DEF DiscardInv, DiscardsAreFull

LEMMA StepDiscard == TypeOK /\ DiscardInv /\ [Next]_vars => DiscardInv'
  <1>. SUFFICES ASSUME TypeOK, DiscardInv, [Next]_vars PROVE DiscardInv'
    OBVIOUS
  <1>0. /\ LiveGone \subseteq state.discarded /\ LiveGone \subseteq KeptState.discarded
        /\ state \in State /\ now \in Nat /\ KeptState \in State
        /\ Pruned(state, now) \in State /\ LiveGone \subseteq Pruned(state, now).discarded
    BY KeptKeeps, KeptTypes, PrunedKeeps, PrunedType DEF DiscardInv, TombstonesKept, TypeOK
  <1>1. CASE UNCHANGED <<state, writer, disk, gone, now>>
    BY <1>0, <1>1, HookDiscard
  <1>2. ASSUME NEW replaceable \in BOOLEAN, AnswerState(replaceable) PROVE DiscardInv'
    BY <1>0, <1>2, HookDiscard DEF AnswerState, Before, Prune, historyVars, switchVars
  <1>3. ASSUME NEW r \in Requests, NEW v \in Values, NEW known \in BOOLEAN,
               LearnResponse(r, v, known)
        PROVE  DiscardInv'
    <2>1. state'.discarded \in {state.discarded, KeptState.discarded}
      BY <1>0, <1>3 DEF LearnResponse
    <2>. QED  BY <1>0, <1>3, <2>1, HookDiscard DEF LearnResponse
  <1>4. CASE Status
    BY <1>0, <1>4, HookDiscard DEF Status, Prune, historyVars, switchVars
  <1>5. CASE PersistLearned
    BY <1>0, <1>5, CommitDiscard DEF PersistLearned, untouchedByCommit, hookVars, switchVars
  <1>6. ASSUME NEW scope \in SUBSET Bucket, Clear(scope) PROVE DiscardInv'
    <2>. DEFINE next == [state EXCEPT !.templates = [b \in Bucket |->
                             IF b \in scope THEN NoValue ELSE state.templates[b]]]
    <2>1. next \in State /\ next.discarded = state.discarded
      BY <1>0, SavedTypes
    <2>2. Commit("clear", next, FALSE, scope, NoBucket)
      BY <1>6 DEF Clear
    <2>. HIDE DEF next
    <2>. QED  BY <1>0, <1>6, <2>1, <2>2, CommitDiscard DEF Clear, untouchedByCommit, hookVars, switchVars
  <1>7. ASSUME NEW b \in Bucket, Discard(b) PROVE DiscardInv'
    <2>. DEFINE next == [Pruned(state, now) EXCEPT !.templates[b] = NoValue,
                             !.discarded = @ \cup {<<b, state.templates[b]>>}]
    <2>1. next \in State
      BY <1>7, SavedTypes DEF Discard
    <2>2. LiveGone \subseteq next.discarded
      BY <1>0
    <2>3. Commit("discard", next, TRUE, {}, b)
      BY <1>7 DEF Discard
    <2>. HIDE DEF next
    <2>. QED  BY <1>0, <1>7, <2>1, <2>2, <2>3, CommitDiscard DEF Discard, untouchedByCommit, hookVars, switchVars
  <1>8. ASSUME NEW c \in Configs, Update(c) PROVE DiscardInv'
    <2>. DEFINE kept == [Pruned(state, now) EXCEPT !.config = c]
    <2>1. c \in Config
      BY TurnStateAssumption
    <2>2. kept \in State /\ LiveGone \subseteq kept.discarded
      BY <1>0, <2>1
    <2>3. Commit("update", Pruned(kept, now), TRUE, {}, NoBucket)
      BY <1>8 DEF Update
    <2>. HIDE DEF kept
    <2>4. Pruned(kept, now) \in State /\ LiveGone \subseteq Pruned(kept, now).discarded
      BY <1>0, <2>2, PrunedKeeps, PrunedType
    <2>. QED  BY <1>0, <1>8, <2>3, <2>4, CommitDiscard DEF Update, untouchedByCommit, hookVars, switchVars
  <1>9. ASSUME NEW b \in Bucket, StartProbe(b) PROVE DiscardInv'
    BY <1>0, <1>9, CommitDiscard DEF StartProbe, Prune
  <1>10. ASSUME NEW b \in Bucket, NEW v \in Values \cup {NoValue}, NEW removed \in BOOLEAN,
                FinishProbe(b, v, removed)
         PROVE  DiscardInv'
    <2>1. v # NoValue => [Pruned(state, now) EXCEPT !.templates[b] = v] \in State
      BY SavedTypes
    <2>2. LiveGone \subseteq [Pruned(state, now) EXCEPT !.templates[b] = v].discarded
      BY <1>0
    <2>3. PICK next \in State : /\ Commit("finish", next, removed, {}, b)
                                /\ LiveGone \subseteq next.discarded
      BY <1>0, <1>10, <2>1, <2>2 DEF FinishProbe
    <2>. QED  BY <1>0, <1>10, <2>3, CommitDiscard DEF FinishProbe
  <1>11. CASE WriteFails
    BY <1>11 DEF WriteFails, historyVars, switchVars, DiscardInv, TombstonesKept, DiscardsAreFull, LiveGone
  <1>12. ASSUME NEW restored \in BOOLEAN, Restart(restored) PROVE DiscardInv'
    <2>1. /\ disk' \in [main : Main \cup {NoFile}, overlay : Overlay \cup {NoFile},
                        backup : Overlay \cup {NoFile}]
          /\ disk'.main = disk.main
      BY <1>12 DEF Restart, TypeOK
    <2>. QED  BY <1>12, <2>1, OpenedDiscard DEF Restart, historyVars, switchVars
  <1>13. CASE Reconfigure
    <2>1. /\ disk' = disk /\ writer' = Idle
          /\ Opened(disk', epochs.current + 1)
      BY <1>13 DEF Reconfigure, Opened
    <2>. QED  BY <1>13, <2>1, OpenedDiscard DEF Reconfigure, historyVars, switchVars, TypeOK
  <1>14. CASE BackUp
    <2>1. disk'.main = disk.main
      BY <1>14 DEF BackUp, TypeOK
    <2>. QED
      BY <1>14, <2>1 DEF BackUp, historyVars, switchVars, DiscardInv, TombstonesKept, DiscardsAreFull, LiveGone
  <1>15. CASE Next
    BY <1>15, <1>1, <1>2, <1>3, <1>4, <1>5, <1>6, <1>7, <1>8, <1>9, <1>10, <1>11, <1>12, <1>13,
       <1>14, WriteDiscard, PublishDiscard, TickDiscard
       DEF Next, AskState, Complete, SwitchPlugin, storeVars, historyVars, switchVars
  <1>. QED  BY <1>1, <1>15 DEF vars, storeVars, historyVars, switchVars

(* For all buckets, values, clocks and interleavings: a value an administrator discarded is
   never usable again, whatever is in flight, after a crash and with an old overlay restored. *)
THEOREM DiscardedStaysGoneTheorem == Spec => []DiscardedStaysGone
  BY InitType, StepType, InitDiscard, StepDiscard, TombstonedIsUnusable, PTL DEF Spec, DiscardInv
-----------------------------------------------------------------------------
(* What a step does to the store *)

LEMMA PrunedFacts ==
    ASSUME NEW s \in State, NEW t \in Nat
    PROVE  /\ \A b \in Bucket, v \in Values :
                  Usable(Pruned(s, t), b, v, t) <=> Usable(s, b, v, t)
           /\ \A b \in Bucket, v \in Values :
                  Tombstoned(Pruned(s, t), b, v, t) <=> Tombstoned(s, b, v, t)
           /\ \A b \in Bucket : Pruned(s, t).templates[b] = s.templates[b] \/
                  (Pruned(s, t).templates[b] = NoValue /\ ~Holds(s, b, t))
           /\ \A b \in Bucket : Pruned(s, t).templates[b] # NoValue => Holds(s, b, t)
           /\ LiveTombstones(Pruned(s, t).discarded, t) = LiveTombstones(s.discarded, t)
  <1>1. /\ Pruned(s, t).config = s.config
        /\ Pruned(s, t).discarded = LiveTombstones(s.discarded, t)
    BY PrunedType
  <1>2. \A b \in Bucket : Pruned(s, t).templates[b] = IF Holds(s, b, t) THEN s.templates[b]
                                                      ELSE NoValue
    BY DEF Pruned
  <1>3. LiveTombstones(LiveTombstones(s.discarded, t), t) = LiveTombstones(s.discarded, t)
    BY DEF LiveTombstones
  <1>4. ASSUME NEW b \in Bucket, NEW v \in Values
        PROVE  Tombstoned(Pruned(s, t), b, v, t) <=> Tombstoned(s, b, v, t)
    BY <1>1 DEF Tombstoned, LiveTombstones
  <1>. QED  BY <1>1, <1>2, <1>3, <1>4 DEF Usable

LEMMA KeptFacts ==
    ASSUME TypeOK
    PROVE  /\ \A b \in Bucket, v \in Values :
                  Usable(KeptState, b, v, now) <=> Usable(state, b, v, now)
           /\ \A b \in Bucket, v \in Values :
                  Tombstoned(KeptState, b, v, now) <=> Tombstoned(state, b, v, now)
           /\ \A b \in Bucket : KeptState.templates[b] = state.templates[b] \/
                  (KeptState.templates[b] = NoValue /\ ~Holds(state, b, now))
           /\ LiveTombstones(KeptState.discarded, now) = LiveTombstones(state.discarded, now)
  BY PrunedFacts DEF KeptState, TypeOK

\* Nothing of the store changes.
Rests == UNCHANGED <<state, dirty, base, writer, disk, now, writes, lapsed>>

\* The templates are pruned.
Cleans == state' = KeptState /\ dirty' = KeptDirty /\ UNCHANGED <<base, writer, disk, now, writes, lapsed>>

\* A response teaches v.
Learns(b, v) ==
    /\ Learnable(KeptState, b, v)
    /\ state' = [KeptState EXCEPT !.templates[b] = v]
    /\ dirty' = [KeptDirty EXCEPT ![b] = v]
    /\ lapsed' = lapsed \ {<<b, v>>}
    /\ UNCHANGED <<base, writer, disk, now, writes>>

\* What a writer copies: the templates of memory, or fewer, or one that a probe harvested.
CopyToSave(op, next, full) ==
    /\ next \in State /\ full \in BOOLEAN
    /\ op \in {"persist", "clear", "discard", "update", "reserve", "finish"}
    /\ lapsed' \subseteq lapsed
    /\ \A b \in Bucket :
         LET v == next.templates[b] IN
         v # NoValue => \/ v = state.templates[b] /\ (op = "update" => Holds(state, b, now))
                        \/ /\ op = "finish" /\ IssuedTo[v] = b
                           /\ IssuedAt[v] <= now /\ <<b, v>> \notin lapsed'
    /\ IF op = "update" THEN full /\ next.config \in Configs ELSE next.config = state.config
    /\ IF op = "discard"
       THEN full /\ LiveTombstones(state.discarded, now) \subseteq next.discarded
       ELSE LiveTombstones(next.discarded, now) = LiveTombstones(state.discarded, now)

StartsWrite ==
    /\ \E op, next, full, scope, b :
           Commit(op, next, full, scope, b) /\ CopyToSave(op, next, full)
    /\ UNCHANGED <<state, dirty>> \/ (state' = KeptState /\ dirty' = KeptDirty)
    /\ UNCHANGED <<base, disk, now>>

\* The files are read, perhaps with the backup of the overlay in place.
Opens ==
    /\ disk' \in {disk, [disk EXCEPT !.overlay = disk.backup]}
    /\ \E epoch : Opened(disk', epoch)
    /\ writer' = Idle
    /\ UNCHANGED <<now, writes, lapsed>>

LEMMA CopyStarts ==
    ASSUME TypeOK, NEW op, NEW next, NEW full, NEW scope, NEW b,
           Commit(op, next, full, scope, b), CopyToSave(op, next, full),
           UNCHANGED <<state, dirty>> \/ (state' = KeptState /\ dirty' = KeptDirty),
           UNCHANGED <<base, disk, now>>
    PROVE  StartsWrite
  BY DEF StartsWrite

LEMMA WritesStart ==
    ASSUME TypeOK,
           \/ PersistLearned
           \/ \E scope \in SUBSET Bucket : Clear(scope)
           \/ \E b \in Bucket : Discard(b)
           \/ \E c \in Configs : Update(c)
           \/ \E b \in Bucket : StartProbe(b)
           \/ \E b \in Bucket, v \in Values \cup {NoValue}, removed \in BOOLEAN :
                  (v # NoValue => IssuedTo[v] = b) /\ FinishProbe(b, v, removed)
    PROVE  StartsWrite
  <1>. DEFINE kept == Pruned(state, now)
  <1>0. /\ state \in State /\ now \in Nat /\ kept \in State /\ kept.config = state.config
        /\ \A b \in Bucket : kept.templates[b] # NoValue =>
               kept.templates[b] = state.templates[b] /\ Holds(state, b, now)
        /\ LiveTombstones(kept.discarded, now) = LiveTombstones(state.discarded, now)
        /\ LiveTombstones(state.discarded, now) = kept.discarded
    BY PrunedType, PrunedFacts DEF TypeOK
  <1>1. CASE PersistLearned
    <2>1. Commit("persist", state, FALSE, {}, NoBucket) /\ CopyToSave("persist", state, FALSE)
      BY <1>0, <1>1 DEF PersistLearned, untouchedByCommit, hookVars, switchVars, CopyToSave
    <2>. QED  BY <1>1, <2>1, CopyStarts DEF PersistLearned, untouchedByCommit, hookVars, switchVars
  <1>2. ASSUME NEW scope \in SUBSET Bucket, Clear(scope) PROVE StartsWrite
    <2>. DEFINE next == [state EXCEPT !.templates = [b \in Bucket |->
                             IF b \in scope THEN NoValue ELSE state.templates[b]]]
    <2>1. next \in State /\ Commit("clear", next, FALSE, scope, NoBucket) /\ lapsed' = lapsed
      BY <1>2, SavedTypes DEF Clear, untouchedByCommit, hookVars, switchVars
    <2>2. /\ next.config = state.config /\ next.discarded = state.discarded
          /\ \A b \in Bucket : next.templates[b] \in {NoValue, state.templates[b]}
      BY <1>0
    <2>. HIDE DEF next
    <2>3. CopyToSave("clear", next, FALSE)
      BY <2>1, <2>2 DEF CopyToSave
    <2>. QED  BY <1>2, <2>1, <2>3, CopyStarts DEF Clear, untouchedByCommit, hookVars, switchVars
  <1>3. ASSUME NEW b \in Bucket, Discard(b) PROVE StartsWrite
    <2>. DEFINE next == [kept EXCEPT !.templates[b] = NoValue,
                                     !.discarded = @ \cup {<<b, state.templates[b]>>}]
    <2>1. next \in State
      BY <1>3, SavedTypes DEF Discard
    <2>2. Commit("discard", next, TRUE, {}, b) /\ lapsed' = lapsed
      BY <1>3 DEF Discard, untouchedByCommit, hookVars, switchVars
    <2>3. /\ next.config = kept.config /\ kept.discarded \subseteq next.discarded
          /\ \A c \in Bucket : next.templates[c] \in {NoValue, kept.templates[c]}
      BY <1>0
    <2>. HIDE DEF next, kept
    <2>4. CopyToSave("discard", next, TRUE)
      BY <1>0, <2>1, <2>2, <2>3 DEF CopyToSave
    <2>. QED  BY <1>3, <2>2, <2>4, CopyStarts DEF Discard, untouchedByCommit, hookVars, switchVars
  <1>4. ASSUME NEW c \in Configs, Update(c) PROVE StartsWrite
    <2>. DEFINE set == [kept EXCEPT !.config = c]
                next == Pruned(set, now)
    <2>1. c \in Config
      BY TurnStateAssumption
    <2>2. set \in State /\ set.config = c /\ set.templates = kept.templates
          /\ set.discarded = kept.discarded
      BY <1>0, <2>1
    <2>3. Commit("update", next, TRUE, {}, NoBucket) /\ lapsed' = lapsed
      BY <1>4 DEF Update, untouchedByCommit, hookVars, switchVars
    <2>. HIDE DEF set
    <2>4. /\ next \in State /\ next.config = c
          /\ LiveTombstones(next.discarded, now) = LiveTombstones(kept.discarded, now)
          /\ \A b \in Bucket : next.templates[b] \in {NoValue, kept.templates[b]}
      BY <1>0, <2>2, PrunedType, PrunedFacts
    <2>. HIDE DEF next, kept
    <2>5. CopyToSave("update", next, TRUE)
      BY <1>0, <2>3, <2>4 DEF CopyToSave
    <2>. QED  BY <1>4, <2>3, <2>5, CopyStarts DEF Update, untouchedByCommit, hookVars, switchVars
  <1>5. ASSUME NEW b \in Bucket, StartProbe(b) PROVE StartsWrite
    <2>1. Commit("reserve", kept, FALSE, {}, b) /\ lapsed' = lapsed
      BY <1>5 DEF StartProbe
    <2>. HIDE DEF kept
    <2>2. CopyToSave("reserve", kept, FALSE)
      BY <1>0, <2>1 DEF CopyToSave
    <2>. QED  BY <1>5, <2>1, <2>2, CopyStarts DEF StartProbe, Prune
  <1>6. ASSUME NEW b \in Bucket, NEW v \in Values \cup {NoValue}, NEW removed \in BOOLEAN,
               v # NoValue => IssuedTo[v] = b, FinishProbe(b, v, removed)
        PROVE  StartsWrite
    <2>1. CASE v # NoValue /\ Learnable(kept, b, v)
      <3>. DEFINE next == [kept EXCEPT !.templates[b] = v]
      <3>1. Commit("finish", next, removed, {}, b) /\ lapsed' = lapsed \ {<<b, v>>}
        BY <1>6, <2>1 DEF FinishProbe
      <3>2. v \in Values /\ IssuedTo[v] = b /\ IssuedAt[v] <= now
        BY <1>6, <2>1 DEF Learnable, Usable, UsableUnder
      <3>3. /\ next \in State /\ next.config = kept.config /\ next.discarded = kept.discarded
            /\ next.templates[b] = v
            /\ \A c \in Bucket : c # b => next.templates[c] = kept.templates[c]
        BY <1>0, <3>2
      <3>. HIDE DEF next, kept
      <3>4. CopyToSave("finish", next, removed)
        BY <1>0, <3>1, <3>2, <3>3 DEF CopyToSave
      <3>. QED  BY <1>6, <3>1, <3>4, CopyStarts DEF FinishProbe
    <2>2. CASE ~(v # NoValue /\ Learnable(kept, b, v))
      <3>1. Commit("finish", kept, removed, {}, b) /\ lapsed' = lapsed
        BY <1>6, <2>2 DEF FinishProbe
      <3>. HIDE DEF kept
      <3>2. CopyToSave("finish", kept, removed)
        BY <1>0, <3>1 DEF CopyToSave
      <3>. QED  BY <1>6, <3>1, <3>2, CopyStarts DEF FinishProbe
    <2>. QED  BY <2>1, <2>2
  <1>. QED  BY <1>1, <1>2, <1>3, <1>4, <1>5, <1>6

\* The response to r teaches v, by the attribution of r.
Answered(r, v) ==
    /\ pending[r] # NoPending /\ upstream[r] # NoBucket /\ IssuedTo[v] = upstream[r]
    /\ Learns(pending[r].bucket, v)
    /\ r \in passed => <<pending[r].bucket, v>> \in guessed'

\* The ways in which a step touches the store.
LEMMA StoreSteps ==
    ASSUME TypeOK, [Next]_vars
    PROVE  \/ Rests \/ Cleans \/ StartsWrite \/ WriteFile \/ WriteFails \/ Publish \/ Opens
           \/ BackUp \/ Tick
           \/ \E r \in Requests, v \in Values : Answered(r, v)
  <1>1. CASE UNCHANGED <<state, dirty, base, writer, disk, now, writes, lapsed>>
    BY <1>1 DEF Rests
  <1>2. ASSUME NEW replaceable \in BOOLEAN, AnswerState(replaceable) PROVE Rests \/ Cleans
    BY <1>2 DEF AnswerState, Before, Prune, Rests, Cleans, historyVars, switchVars
  <1>3. ASSUME NEW r \in Requests, NEW v \in Values, NEW known \in BOOLEAN,
               LearnResponse(r, v, known)
        PROVE  Rests \/ Cleans \/ Answered(r, v)
    BY <1>3 DEF LearnResponse, Attributable, Rests, Cleans, Learns, Answered
  <1>4. CASE Status
    BY <1>4 DEF Status, Prune, Cleans, historyVars, switchVars
  <1>5. ASSUME NEW restored \in BOOLEAN, Restart(restored) PROVE Opens
    BY <1>5 DEF Restart, Opens, historyVars, switchVars
  <1>6. CASE Reconfigure
    <2>1. disk' = disk /\ writer' = Idle /\ Opened(disk', epochs.current + 1)
      BY <1>6 DEF Reconfigure, Opened
    <2>. QED  BY <1>6, <2>1 DEF Reconfigure, Opens, historyVars, switchVars
  <1>7. ASSUME NEW b \in Bucket PROVE {b} \in SUBSET Bucket
    OBVIOUS
  <1>8. Bucket \in SUBSET Bucket
    OBVIOUS
  <1>9. CASE \/ PersistLearned \/ Clear(Bucket)
             \/ \E b \in Bucket : Clear({b}) \/ Discard(b) \/ StartProbe(b)
             \/ \E c \in Configs : Update(c)
             \/ \E b \in Bucket, v \in Values \cup {NoValue}, removed \in BOOLEAN :
                    (v # NoValue => IssuedTo[v] = b) /\ FinishProbe(b, v, removed)
    BY <1>7, <1>8, <1>9, WritesStart
  <1>10. CASE \/ SwitchPlugin
              \/ \E r \in Requests :
                     Complete(r) \/ \E b \in Bucket, gate \in BOOLEAN : AskState(r, b, gate)
    BY <1>1, <1>10 DEF AskState, Complete, SwitchPlugin, storeVars, historyVars, switchVars
  <1>11. CASE Next
    BY <1>11, <1>2, <1>3, <1>4, <1>5, <1>6, <1>9, <1>10 DEF Next
  <1>. QED  BY <1>1, <1>11 DEF vars, storeVars, historyVars, switchVars

-----------------------------------------------------------------------------
(* The files and what the manager knows of them *)

\* A file has been replaced and the copy it holds is not published yet.
Replaced == writer # Idle /\ writer.written

\* What the files were last written for.
Saved == IF Replaced THEN writer.next ELSE state

\* n numbers an earlier write, and not the one about to reach a file.
Earlier(n) == n <= writes /\ (writer # Idle /\ ~writer.written => n < writes)

\* Checkpoints have numbers of their own, and the manager knows the one in the main file.
DigestsFresh ==
    /\ Earlier(0) /\ Earlier(base)
    /\ disk.main # NoFile => disk.main.digest > 0 /\ Earlier(disk.main.digest)
    /\ disk.overlay # NoFile => Earlier(disk.overlay.base)
    /\ disk.backup # NoFile => Earlier(disk.backup.base)
    /\ disk.main = NoFile => disk.overlay = NoFile /\ disk.backup = NoFile
    /\ ~(Replaced /\ writer.full) => base = Digest(disk)
    /\ writer # Idle /\ ~writer.full => base # 0
    /\ Replaced => disk.main # NoFile

\* The settings change by an update alone, and an update writes the main file.
ConfigsAgree ==
    /\ writer # Idle => IF writer.op = "update" THEN writer.full
                                                ELSE writer.next.config = state.config
    /\ disk.main # NoFile => disk.main.config = Saved.config
    /\ disk.main = NoFile => state.config = DefaultConfig

\* What awaits saving, d, is in memory, s, and no tombstone covers it.
Held(s, d, t) ==
    \A b \in Bucket : d[b] # NoValue =>
        /\ d[b] = s.templates[b]
        /\ LengthOf[d[b]] = s.config.length /\ IssuedAt[d[b]] <= t
        /\ ~Tombstoned(s, b, d[b], t)

FilesInv == DigestsFresh /\ ConfigsAgree /\ Held(state, dirty, now)

Files == [main : Main \cup {NoFile}, overlay : Overlay \cup {NoFile},
          backup : Overlay \cup {NoFile}]

LEMMA InitFiles == Init => FilesInv
  BY DEF Init, FilesInv, DigestsFresh, ConfigsAgree, Held, Earlier, Replaced, Saved, Digest

LEMMA Fetched ==
    ASSUME TypeOK
    PROVE  /\ disk \in Files
           /\ disk.main # NoFile => disk.main \in Main
           /\ disk.overlay # NoFile => disk.overlay \in Overlay
           /\ disk.backup # NoFile => disk.backup \in Overlay
           /\ writer # Idle => /\ writer \in Writer /\ writer.next \in State
                               /\ writer.written \in BOOLEAN /\ writer.full \in BOOLEAN
           /\ base \in Nat /\ writes \in Nat /\ now \in Nat /\ Digest(disk) \in Nat
           /\ state \in State /\ dirty \in Templates /\ lapsed \in Tombstones
  BY DEF TypeOK, Files, Digest

LEMMA KeptHeld ==
    ASSUME TypeOK, Held(state, dirty, now)
    PROVE  Held(KeptState, KeptDirty, now)
  <1>. SUFFICES ASSUME NEW b \in Bucket, KeptDirty[b] # NoValue
                PROVE  /\ KeptDirty[b] = KeptState.templates[b]
                       /\ LengthOf[KeptDirty[b]] = KeptState.config.length
                       /\ IssuedAt[KeptDirty[b]] <= now
                       /\ ~Tombstoned(KeptState, b, KeptDirty[b], now)
    BY DEF Held
  <1>1. KeptDirty[b] = dirty[b] /\ KeptState.templates[b] = state.templates[b]
    BY DEF KeptDirty
  <1>2. dirty[b] \in Values
    BY <1>1 DEF TypeOK
  <1>. QED  BY <1>1, <1>2, KeptFacts, KeptTypes DEF Held

\* One more learned template is held as the others are.
LEMMA LearnedHeld ==
    ASSUME NEW s \in State, NEW d \in Templates, Held(s, d, now), NEW b \in Bucket,
           NEW v \in Values, Learnable(s, b, v)
    PROVE  Held([s EXCEPT !.templates[b] = v], [d EXCEPT ![b] = v], now)
  <1>. DEFINE s2 == [s EXCEPT !.templates[b] = v]
              d2 == [d EXCEPT ![b] = v]
  <1>1. /\ s2.config = s.config /\ s2.discarded = s.discarded /\ s2.templates[b] = v /\ d2[b] = v
        /\ \A c \in Bucket : c # b => s2.templates[c] = s.templates[c] /\ d2[c] = d[c]
    OBVIOUS
  <1>2. /\ LengthOf[v] = s.config.length /\ IssuedAt[v] <= now
        /\ ~Tombstoned(s, b, v, now)
    BY DEF Learnable, Usable, UsableUnder
  <1>. HIDE DEF s2, d2
  <1>3. Held(s2, d2, now)
    BY <1>1, <1>2 DEF Held, Tombstoned
  <1>. QED  BY <1>3 DEF s2, d2

LEMMA LearnsHeld ==
    ASSUME TypeOK, Held(state, dirty, now), NEW b \in Bucket, NEW v \in Values, Learns(b, v)
    PROVE  Held(state', dirty', now)
  BY KeptHeld, KeptTypes, LearnedHeld DEF Learns

\* Published learning is held: it outlived the commit.
LEMMA PublishHeld ==
    ASSUME TypeOK, Publish
    PROVE  Held(state', dirty', now)
  <1>1. /\ writer.next \in State
        /\ state' = [writer.next EXCEPT !.templates = [b \in Bucket |->
                        IF Outlives(writer, b) THEN dirty[b] ELSE writer.next.templates[b]]]
        /\ dirty' = [b \in Bucket |-> IF Outlives(writer, b) THEN dirty[b] ELSE NoValue]
    BY DEF Publish, TypeOK
  <1>2. /\ state'.config = writer.next.config /\ state'.discarded = writer.next.discarded
        /\ \A b \in Bucket : Outlives(writer, b) => state'.templates[b] = dirty[b]
        /\ \A b \in Bucket : dirty'[b] # NoValue => Outlives(writer, b) /\ dirty'[b] = dirty[b]
    BY <1>1
  <1>. QED  BY <1>2 DEF Held, Outlives, UsableUnder, Tombstoned

LEMMA TickHeld ==
    ASSUME TypeOK, Held(state, dirty, now)
    PROVE  Held(state, dirty, now + 1)
  <1>1. \A b \in Bucket : dirty[b] # NoValue => dirty[b] \in Values
    BY DEF TypeOK
  <1>2. now \in Nat /\ \A v \in Values : IssuedAt[v] \in Nat /\ IssuedAt[v] + Hour \in Nat
    BY TurnStateAssumption DEF TypeOK
  <1>. QED  BY <1>1, <1>2 DEF Held, Tombstoned

LEMMA StepHeld ==
    ASSUME TypeOK, Held(state, dirty, now), [Next]_vars
    PROVE  Held(state, dirty, now)'
  <1>0. Held(state, dirty, now)' <=> Held(state', dirty', now')
    BY DEF Held, Tombstoned
  <1>1. CASE Rests \/ WriteFile \/ WriteFails \/ BackUp
    BY <1>0, <1>1 DEF Rests, WriteFile, WriteFails, BackUp
  <1>2. CASE Cleans \/ StartsWrite
    BY <1>0, <1>2, KeptHeld DEF Cleans, StartsWrite
  <1>3. ASSUME NEW r \in Requests, NEW v \in Values, pending[r] # NoPending,
               Learns(pending[r].bucket, v)
        PROVE  Held(state, dirty, now)'
    <2>1. pending[r].bucket \in Bucket
      BY <1>3 DEF TypeOK
    <2>. QED  BY <1>0, <1>3, <2>1, LearnsHeld DEF Learns
  <1>4. CASE Publish
    BY <1>0, <1>4, PublishHeld DEF Publish
  <1>5. CASE Opens
    BY <1>0, <1>5 DEF Opens, Opened, Held
  <1>6. CASE Tick
    BY <1>0, <1>6, TickHeld DEF Tick, storeVars
  <1>. QED  BY <1>1, <1>2, <1>3, <1>4, <1>5, <1>6, StoreSteps DEF Answered

LEMMA StepDigests ==
    ASSUME TypeOK, DigestsFresh, [Next]_vars
    PROVE  DigestsFresh'
  <1>0. /\ base \in Nat /\ writes \in Nat
        /\ disk.main # NoFile => disk.main.digest \in Nat
        /\ disk.overlay # NoFile => disk.overlay.base \in Nat
        /\ disk.backup # NoFile => disk.backup.base \in Nat
    BY Fetched
  <1>1. CASE UNCHANGED <<base, writer, disk, writes>>
    BY <1>1 DEF DigestsFresh, Earlier, Replaced, Digest
  <1>2. CASE StartsWrite
    <2>1. PICK op, next, full, scope, b : Commit(op, next, full, scope, b)
      BY <1>2 DEF StartsWrite
    <2>2. /\ writer = Idle /\ writes' = writes + 1 /\ ~writer'.written
          /\ writer'.full = (full \/ base = 0) /\ UNCHANGED <<base, disk>>
      BY <1>2, <2>1 DEF Commit, StartsWrite
    <2>3. \A n \in Nat : Earlier(n) => Earlier(n)'
      BY <1>0, <2>2 DEF Earlier
    <2>. QED  BY <1>0, <2>2, <2>3 DEF DigestsFresh, Replaced, Digest
  <1>3. CASE WriteFile
    <2>1. /\ writer # Idle /\ ~writer.written /\ writer' # Idle /\ writer'.written
          /\ writer'.full = writer.full /\ UNCHANGED <<base, writes>>
          /\ disk' = Written(disk, writer)
      <3>1. writer \in Writer /\ writer' = [writer EXCEPT !.written = TRUE]
        BY <1>3 DEF WriteFile, TypeOK
      <3>2. writer' \in Writer
        BY <3>1
      <3>3. writer' # Idle
        BY <3>2, TurnStateAssumption
      <3>. QED  BY <1>3, <3>1, <3>3 DEF WriteFile, historyVars, switchVars
    <2>2. \A n \in Nat : Earlier(n) => Earlier(n)' /\ n < writes
      BY <1>0, <2>1 DEF Earlier
    <2>3. Earlier(writes)'
      BY <1>0, <2>1 DEF Earlier
    <2>4. CASE writer.full
      <3>1. /\ disk'.main.digest = writes /\ disk'.overlay = disk.overlay
            /\ disk'.backup = disk.backup /\ disk'.main \in Main
        BY <2>1, <2>4, Fetched DEF Written, Files
      <3>2. disk'.main # NoFile
        BY <3>1, TurnStateAssumption
      <3>3. 0 < writes
        BY <2>2 DEF DigestsFresh
      <3>. QED  BY <1>0, <2>1, <2>2, <2>3, <2>4, <3>1, <3>2, <3>3 DEF DigestsFresh, Replaced
    <2>5. CASE ~writer.full
      <3>1. /\ disk'.overlay.base = base /\ disk'.main = disk.main
            /\ disk'.backup = disk.backup
        BY <2>1, <2>5, Fetched DEF Written, Files
      <3>2. base = Digest(disk) /\ base # 0
        BY <2>1, <2>5 DEF DigestsFresh, Replaced
      <3>3. disk.main # NoFile
        BY <3>2 DEF Digest
      <3>. QED  BY <1>0, <2>1, <2>2, <2>3, <2>5, <3>1, <3>2, <3>3 DEF DigestsFresh, Replaced, Digest
    <2>. QED  BY <2>4, <2>5
  <1>4. CASE WriteFails
    <2>1. writer # Idle /\ ~writer.written /\ writer' = Idle /\ UNCHANGED <<base, disk, writes>>
      BY <1>4 DEF WriteFails, historyVars, switchVars
    <2>. QED  BY <1>0, <2>1 DEF DigestsFresh, Earlier, Replaced, Digest
  <1>5. CASE Publish
    <2>1. /\ writer # Idle /\ writer.written /\ writer' = Idle /\ UNCHANGED <<disk, writes>>
          /\ base' = IF writer.full THEN Digest(disk) ELSE base
      BY <1>5 DEF Publish
    <2>2. base' = Digest(disk') /\ base' \in Nat
      BY <1>0, <2>1, Fetched DEF DigestsFresh, Replaced, Digest
    <2>3. Earlier(base)'
      BY <1>0, <2>1, <2>2 DEF DigestsFresh, Earlier, Digest
    <2>. QED  BY <1>0, <2>1, <2>2, <2>3 DEF DigestsFresh, Earlier, Replaced
  <1>6. CASE Opens
    <2>1. /\ writer' = Idle /\ writes' = writes /\ base' = Digest(disk')
          /\ disk'.main = disk.main /\ disk'.backup = disk.backup
          /\ disk'.overlay \in {disk.overlay, disk.backup}
      BY <1>6, Fetched DEF Opens, Opened, Files
    <2>2. Earlier(base)'
      BY <1>0, <2>1 DEF DigestsFresh, Earlier, Digest
    <2>. QED  BY <1>0, <2>1, <2>2 DEF DigestsFresh, Earlier, Replaced
  <1>7. CASE BackUp
    <2>1. /\ disk.overlay # NoFile /\ disk'.main = disk.main /\ disk'.overlay = disk.overlay
          /\ disk'.backup = disk.overlay /\ UNCHANGED <<base, writer, writes>>
      BY <1>7, Fetched DEF BackUp, historyVars, switchVars, Files
    <2>. QED  BY <1>0, <2>1 DEF DigestsFresh, Earlier, Replaced, Digest
  <1>. QED
    BY <1>1, <1>2, <1>3, <1>4, <1>5, <1>6, <1>7, StoreSteps
       DEF Answered, Rests, Cleans, Learns, Tick, storeVars, historyVars, switchVars

LEMMA StepConfigs ==
    ASSUME TypeOK, DigestsFresh, ConfigsAgree, [Next]_vars
    PROVE  ConfigsAgree'
  <1>1. ASSUME state'.config = state.config, UNCHANGED <<writer, disk>>
        PROVE  ConfigsAgree'
    <2>1. Saved'.config = Saved.config
      BY <1>1 DEF Saved, Replaced
    <2>. QED  BY <1>1, <2>1 DEF ConfigsAgree
  <1>2. CASE Rests \/ Cleans \/ Tick
    BY <1>1, <1>2, KeptTypes DEF Rests, Cleans, Tick, storeVars
  <1>3. ASSUME NEW r \in Requests, NEW v \in Values, Learns(pending[r].bucket, v)
        PROVE  ConfigsAgree'
    <2>1. state'.config = state.config
      BY <1>3, KeptTypes DEF Learns
    <2>. QED  BY <1>1, <1>3, <2>1 DEF Learns
  <1>4. CASE StartsWrite
    <2>1. PICK op, next, full, scope, b :
              Commit(op, next, full, scope, b) /\ CopyToSave(op, next, full)
      BY <1>4 DEF StartsWrite
    <2>2. /\ writer = Idle /\ ~writer'.written /\ writer'.next = next /\ writer'.op = op
          /\ writer'.full = (full \/ base = 0) /\ disk' = disk /\ state'.config = state.config
      BY <1>4, <2>1, KeptTypes DEF Commit, StartsWrite
    <2>. QED  BY <2>1, <2>2 DEF ConfigsAgree, CopyToSave, Saved, Replaced
  <1>5. CASE WriteFile
    <2>1. /\ writer # Idle /\ ~writer.written /\ writer'.written /\ writer'.next = writer.next
          /\ writer'.full = writer.full /\ writer'.op = writer.op /\ state' = state
          /\ disk' = Written(disk, writer)
      BY <1>5, Fetched DEF WriteFile
    <2>2. disk'.main # NoFile => disk'.main.config = writer.next.config
      <3>1. CASE writer.full
        BY <2>1, <3>1, Fetched DEF Written, Files
      <3>2. CASE ~writer.full
        BY <2>1, <3>2, Fetched DEF Written, Files, ConfigsAgree, Saved, Replaced
      <3>. QED  BY <3>1, <3>2
    <2>3. disk'.main # NoFile /\ writer' # Idle
      <3>1. writer' # Idle
        BY <1>5, Fetched, TurnStateAssumption DEF WriteFile
      <3>. QED  BY <2>1, <3>1, StepDigests DEF DigestsFresh, Replaced
    <2>. QED  BY <2>1, <2>2, <2>3 DEF ConfigsAgree, Saved, Replaced
  <1>6. CASE WriteFails
    BY <1>6 DEF WriteFails, ConfigsAgree, Saved, Replaced
  <1>7. CASE Publish
    <2>1. /\ writer # Idle /\ writer.written /\ writer' = Idle /\ disk' = disk
          /\ state'.config = writer.next.config
      BY <1>7, Fetched DEF Publish
    <2>. QED  BY <2>1 DEF ConfigsAgree, DigestsFresh, Saved, Replaced
  <1>8. CASE Opens
    <2>1. /\ writer' = Idle /\ disk'.main = disk.main /\ disk' \in Files
          /\ state' = Pruned(Loaded(disk'), now)
      BY <1>8, Fetched DEF Opens, Opened, Files
    <2>2. state'.config = Loaded(disk').config
      BY <2>1, LoadedType, PrunedType, Fetched DEF Files
    <2>. QED  BY <2>1, <2>2 DEF ConfigsAgree, Saved, Replaced, Loaded
  <1>9. CASE BackUp
    <2>1. disk'.main = disk.main /\ UNCHANGED <<state, writer>>
      BY <1>9, Fetched DEF BackUp, Files
    <2>. QED  BY <2>1 DEF ConfigsAgree, Saved, Replaced
  <1>. QED  BY <1>2, <1>3, <1>4, <1>5, <1>6, <1>7, <1>8, <1>9, StoreSteps DEF Answered

LEMMA StepFiles == TypeOK /\ FilesInv /\ [Next]_vars => FilesInv'
  BY StepHeld, StepDigests, StepConfigs DEF FilesInv

-----------------------------------------------------------------------------
(* What lapsed *)

\* Among the templates T, none that lapsed is usable under the settings c.
Spent(T, c) == \A e \in lapsed : T[e[1]] = e[2] => ~UsableUnder(c, e[2], now)

\* Wherever a template could come back from, it comes back unusable.  A file of another
\* checkpoint brings no templates, so its settings do not matter.
LapsedInv ==
    /\ \A e \in lapsed : IssuedAt[e[2]] <= now
    /\ Spent(state.templates, state.config)
    /\ writer # Idle => Spent(writer.next.templates, writer.next.config)
    /\ disk.main # NoFile =>
         /\ Spent(disk.main.templates, disk.main.config)
         /\ \A o \in {disk.overlay, disk.backup} :
                o # NoFile /\ o.base = disk.main.digest => Spent(o.templates, disk.main.config)

LEMMA InitLapsed == Init => LapsedInv
  BY DEF Init, LapsedInv, Spent

LEMMA LapsedExpired == TypeOK /\ LapsedInv => ExpiredStaysExpired
  BY DEF LapsedInv, Spent, ExpiredStaysExpired, Usable

LEMMA ExpiredOnce ==
    ASSUME NEW c \in Config, NEW v \in Values, NEW t \in Nat,
           IssuedAt[v] <= t, ~UsableUnder(c, v, t)
    PROVE  ~UsableUnder(c, v, t + 1)
  <1>1. IssuedAt[v] \in Nat /\ c.ttl \in Nat
    BY TurnStateAssumption DEF Config
  <1>. QED  BY <1>1 DEF UsableUnder

\* Fewer lapsed pairs, at the same time: what was spent is.
LEMMA StillSpent ==
    ASSUME NEW T, NEW T2, NEW c, Spent(T, c), lapsed' \subseteq lapsed, now' = now,
           \A e \in lapsed' : T2[e[1]] = e[2] => T[e[1]] = e[2]
    PROVE  \A e \in lapsed' : T2[e[1]] = e[2] => ~UsableUnder(c, e[2], now')
  BY DEF Spent

LEMMA SameSpent ==
    ASSUME LapsedInv, lapsed' \subseteq lapsed, now' = now
    PROVE  /\ \A e \in lapsed' : IssuedAt[e[2]] <= now'
           /\ \A T, c : Spent(T, c) => \A e \in lapsed' : T[e[1]] = e[2] => ~UsableUnder(c, e[2], now')
  BY DEF LapsedInv, Spent

\* The settings and templates of each place are spent after the step.
LEMMA LapsedParts ==
    ASSUME \A e \in lapsed' : IssuedAt[e[2]] <= now',
           \A e \in lapsed' : state'.templates[e[1]] = e[2] =>
               ~UsableUnder(state'.config, e[2], now'),
           writer' # Idle => \A e \in lapsed' : writer'.next.templates[e[1]] = e[2] =>
               ~UsableUnder(writer'.next.config, e[2], now'),
           disk'.main # NoFile => \A e \in lapsed' : disk'.main.templates[e[1]] = e[2] =>
               ~UsableUnder(disk'.main.config, e[2], now'),
           disk'.main # NoFile =>
               \A o \in {disk'.overlay, disk'.backup} : o # NoFile /\ o.base = disk'.main.digest =>
                   \A e \in lapsed' : o.templates[e[1]] = e[2] =>
                       ~UsableUnder(disk'.main.config, e[2], now')
    PROVE  LapsedInv'
  BY DEF LapsedInv, Spent, UsableUnder

LEMMA TickLapsed ==
    ASSUME TypeOK, FilesInv, LapsedInv, Tick
    PROVE  LapsedInv'
  <1>1. /\ now' = now + 1 /\ now \in Nat /\ UNCHANGED <<state, writer, disk>>
        /\ state \in State
    BY DEF Tick, storeVars, TypeOK
  <1>2. \A e \in lapsed : e[2] \in Values /\ IssuedAt[e[2]] \in Nat /\ IssuedAt[e[2]] <= now
    BY TurnStateAssumption DEF TypeOK, LapsedInv
  <1>. DEFINE new == {b \in Bucket : Holds(state, b, now) /\ ~Holds(state, b, now + 1)}
  <1>3. CASE writer # Idle /\ writer.op = "update"
    <2>1. lapsed' = lapsed
      BY <1>3 DEF Tick
    <2>2. ASSUME NEW T, NEW c \in Config, Spent(T, c)
          PROVE  \A e \in lapsed' : T[e[1]] = e[2] => ~UsableUnder(c, e[2], now')
      BY <1>1, <1>2, <2>1, <2>2, ExpiredOnce DEF Spent
    <2>3. /\ state.config \in Config
          /\ writer # Idle => writer.next.config \in Config
          /\ disk.main # NoFile => disk.main.config \in Config
      BY Fetched
    <2>4. \A e \in lapsed' : IssuedAt[e[2]] <= now'
      BY <1>1, <1>2, <2>1
    <2>. QED  BY <1>1, <2>2, <2>3, <2>4, LapsedParts DEF LapsedInv
  <1>4. CASE ~(writer # Idle /\ writer.op = "update")
    <2>1. lapsed' = lapsed \cup {<<b, state.templates[b]>> : b \in new}
      BY <1>4 DEF Tick
    <2>2. ASSUME NEW e \in lapsed', e \notin lapsed
          PROVE  /\ e[2] \in Values /\ IssuedAt[e[2]] <= now'
                 /\ ~UsableUnder(state.config, e[2], now')
      <3>1. PICK b \in new : e = <<b, state.templates[b]>>
        BY <2>1, <2>2
      <3>. DEFINE v == state.templates[b]
      <3>2. e[2] = v /\ v \in Values /\ UsableUnder(state.config, v, now)
            /\ ~Tombstoned(state, b, v, now) /\ ~Usable(state, b, v, now + 1)
        BY <1>1, <3>1 DEF Holds, Usable
      <3>3. ~Tombstoned(state, b, v, now + 1)
        <4>1. IssuedAt[v] \in Nat /\ Hour \in Nat
          BY <3>2, TurnStateAssumption
        <4>. QED  BY <1>1, <3>2, <4>1 DEF Tombstoned
      <3>4. IssuedAt[v] \in Nat /\ IssuedAt[v] <= now
        BY <3>2, TurnStateAssumption DEF UsableUnder
      <3>. QED  BY <1>1, <3>2, <3>3, <3>4 DEF Usable
    <2>3. ASSUME NEW T, Spent(T, state.config)
          PROVE  \A e \in lapsed' : T[e[1]] = e[2] => ~UsableUnder(state.config, e[2], now')
      <3>1. state.config \in Config
        BY <1>1
      <3>. QED  BY <1>1, <1>2, <2>2, <2>3, <3>1, ExpiredOnce DEF Spent
    <2>4. writer # Idle => writer.next.config = state.config
      BY <1>4 DEF FilesInv, ConfigsAgree
    <2>5. disk.main # NoFile => disk.main.config = state.config
      BY <2>4 DEF FilesInv, ConfigsAgree, Saved, Replaced
    <2>6. \A e \in lapsed' : IssuedAt[e[2]] <= now'
      BY <1>1, <1>2, <2>2
    <2>. QED  BY <1>1, <2>3, <2>4, <2>5, <2>6, LapsedParts DEF LapsedInv
  <1>. QED  BY <1>3, <1>4

LEMMA LearnsLapsed ==
    ASSUME TypeOK, LapsedInv, NEW b \in Bucket, NEW v \in Values, Learns(b, v)
    PROVE  LapsedInv'
  <1>1. /\ lapsed' = lapsed \ {<<b, v>>} /\ lapsed \in Tombstones
        /\ UNCHANGED <<writer, disk, now>> /\ KeptState \in State
        /\ KeptState.config = state.config /\ state' = [KeptState EXCEPT !.templates[b] = v]
    BY KeptTypes DEF Learns, TypeOK
  <1>2. /\ state'.config = state.config /\ state'.templates[b] = v
        /\ \A c \in Bucket : c # b => state'.templates[c] = KeptState.templates[c]
    BY <1>1
  <1>3. \A e \in lapsed' : state'.templates[e[1]] = e[2] => state.templates[e[1]] = e[2]
    <2>. SUFFICES ASSUME NEW e \in lapsed', state'.templates[e[1]] = e[2]
                  PROVE  state.templates[e[1]] = e[2]
      OBVIOUS
    <2>1. e[1] \in Bucket /\ e[2] \in Values /\ e = <<e[1], e[2]>> /\ e # <<b, v>>
      BY <1>1
    <2>2. e[1] # b
      BY <1>2, <2>1
    <2>3. KeptState.templates[e[1]] = e[2] /\ e[2] # NoValue
      BY <1>2, <2>1, <2>2, TurnStateAssumption
    <2>. QED  BY <2>1, <2>3, KeptFacts
  <1>. QED  BY <1>1, <1>2, <1>3, SameSpent, LapsedParts, StillSpent DEF LapsedInv

LEMMA StartsLapsed ==
    ASSUME TypeOK, LapsedInv, StartsWrite
    PROVE  LapsedInv'
  <1>1. PICK op, next, full, scope, b :
            Commit(op, next, full, scope, b) /\ CopyToSave(op, next, full)
    BY DEF StartsWrite
  <1>2. /\ writer = Idle /\ writer'.next = next /\ UNCHANGED <<disk, now>> /\ next \in State
        /\ lapsed' \subseteq lapsed /\ lapsed \in Tombstones
        /\ state'.config = state.config
    BY <1>1, KeptTypes DEF Commit, CopyToSave, StartsWrite, TypeOK
  <1>3. \A e \in lapsed' : state'.templates[e[1]] = e[2] => state.templates[e[1]] = e[2]
    BY <1>2, KeptFacts, TurnStateAssumption DEF StartsWrite
  <1>4. ASSUME NEW e \in lapsed', next.templates[e[1]] = e[2]
        PROVE  ~UsableUnder(next.config, e[2], now')
    <2>1. e \in lapsed /\ e[1] \in Bucket /\ e[2] \in Values /\ e = <<e[1], e[2]>>
      BY <1>2
    <2>2. e[2] = state.templates[e[1]] /\ (op = "update" => Holds(state, e[1], now))
      BY <1>1, <1>4, <2>1, TurnStateAssumption DEF CopyToSave
    <2>3. ~UsableUnder(state.config, e[2], now)
      BY <2>1, <2>2 DEF LapsedInv, Spent
    <2>4. op # "update"
      BY <2>2, <2>3 DEF Holds, Usable
    <2>. QED  BY <1>1, <1>2, <2>3, <2>4 DEF CopyToSave
  <1>. QED  BY <1>2, <1>3, <1>4, SameSpent, LapsedParts, StillSpent DEF LapsedInv

LEMMA WriteLapsed ==
    ASSUME TypeOK, FilesInv, LapsedInv, WriteFile
    PROVE  LapsedInv'
  <1>1. /\ writer # Idle /\ ~writer.written /\ writer'.next = writer.next
        /\ UNCHANGED <<state, lapsed, now>> /\ disk' = Written(disk, writer)
    BY Fetched DEF WriteFile, historyVars, switchVars
  <1>2. \A T, c : Spent(T, c) => \A e \in lapsed' : T[e[1]] = e[2] => ~UsableUnder(c, e[2], now')
    BY <1>1 DEF Spent
  <1>3. CASE writer.full
    <2>1. /\ disk'.main.digest = writes /\ disk'.main.config = writer.next.config
          /\ disk'.main.templates = writer.next.templates
          /\ disk'.overlay = disk.overlay /\ disk'.backup = disk.backup
      BY <1>1, <1>3, Fetched DEF Written, Files
    <2>2. \A o \in {disk.overlay, disk.backup} : o # NoFile => o.base < writes /\ o.base \in Nat
      BY <1>1, Fetched DEF FilesInv, DigestsFresh, Earlier
    <2>3. \A o \in {disk.overlay, disk.backup} : o # NoFile => o.base # disk'.main.digest
      BY <2>1, <2>2, Fetched
    <2>. QED  BY <1>1, <1>2, <2>1, <2>3, LapsedParts DEF LapsedInv
  <1>4. CASE ~writer.full
    <2>1. /\ disk'.main = disk.main /\ disk'.backup = disk.backup
          /\ disk'.overlay.templates = writer.next.templates
      BY <1>1, <1>4, Fetched DEF Written, Files
    <2>2. disk.main # NoFile => disk.main.config = writer.next.config
      BY <1>1, <1>4 DEF FilesInv, ConfigsAgree, Saved, Replaced
    <2>. QED  BY <1>1, <1>2, <2>1, <2>2, LapsedParts DEF LapsedInv
  <1>. QED  BY <1>3, <1>4

LEMMA PublishLapsed ==
    ASSUME TypeOK, FilesInv, LapsedInv, Publish
    PROVE  LapsedInv'
  <1>1. /\ writer # Idle /\ writer.next \in State /\ writer' = Idle
        /\ UNCHANGED <<disk, lapsed, now>> /\ lapsed \in Tombstones
        /\ state' = [writer.next EXCEPT !.templates = [b \in Bucket |->
                        IF Outlives(writer, b) THEN dirty[b] ELSE writer.next.templates[b]]]
    BY Fetched DEF Publish
  <1>2. /\ state'.config = writer.next.config
        /\ \A b \in Bucket : state'.templates[b] =
               IF Outlives(writer, b) THEN dirty[b] ELSE writer.next.templates[b]
    BY <1>1
  <1>3. \A T, c : Spent(T, c) => \A e \in lapsed' : T[e[1]] = e[2] => ~UsableUnder(c, e[2], now')
    BY <1>1 DEF Spent
  <1>4. ASSUME NEW e \in lapsed, state'.templates[e[1]] = e[2]
        PROVE  ~UsableUnder(state'.config, e[2], now)
    <2>1. e[1] \in Bucket
      BY <1>1
    <2>2. CASE Outlives(writer, e[1])
      <3>1. dirty[e[1]] = e[2] /\ dirty[e[1]] # NoValue /\ UsableUnder(state.config, e[2], now)
        BY <1>2, <1>4, <2>1, <2>2 DEF Outlives
      <3>2. state.templates[e[1]] = e[2]
        BY <2>1, <3>1 DEF FilesInv, Held
      <3>. QED  BY <3>1, <3>2 DEF LapsedInv, Spent
    <2>3. CASE ~Outlives(writer, e[1])
      BY <1>1, <1>2, <1>4, <2>1, <2>3 DEF LapsedInv, Spent
    <2>. QED  BY <2>2, <2>3
  <1>. QED  BY <1>1, <1>3, <1>4, LapsedParts DEF LapsedInv

LEMMA OpensLapsed ==
    ASSUME TypeOK, LapsedInv, Opens
    PROVE  LapsedInv'
  <1>1. /\ disk' \in Files /\ disk'.main = disk.main /\ disk'.backup = disk.backup
        /\ disk'.overlay \in {disk.overlay, disk.backup} /\ writer' = Idle
        /\ UNCHANGED <<now, lapsed>> /\ state' = Pruned(Loaded(disk'), now)
        /\ lapsed \in Tombstones /\ now \in Nat
    BY Fetched DEF Opens, Opened, Files
  <1>2. \A T, c : Spent(T, c) => \A e \in lapsed' : T[e[1]] = e[2] => ~UsableUnder(c, e[2], now')
    BY <1>1 DEF Spent
  <1>3. /\ Loaded(disk') \in State /\ state'.config = Loaded(disk').config
        /\ \A b \in Bucket : state'.templates[b] \in {Loaded(disk').templates[b], NoValue}
    BY <1>1, LoadedType, PrunedType, PrunedFacts DEF Files
  <1>4. Spent(Loaded(disk').templates, Loaded(disk').config)
    <2>1. CASE disk'.main = NoFile
      BY <1>1, <2>1, TurnStateAssumption DEF Loaded, Spent
    <2>2. CASE disk'.main # NoFile
      BY <1>1, <2>2 DEF Loaded, LapsedInv
    <2>. QED  BY <2>1, <2>2
  <1>5. \A e \in lapsed' : state'.templates[e[1]] = e[2] => Loaded(disk').templates[e[1]] = e[2]
    BY <1>1, <1>3, TurnStateAssumption
  <1>. QED  BY <1>1, <1>2, <1>3, <1>4, <1>5, LapsedParts DEF LapsedInv

LEMMA StepLapsed == TypeOK /\ FilesInv /\ LapsedInv /\ [Next]_vars => LapsedInv'
  <1>. SUFFICES ASSUME TypeOK, FilesInv, LapsedInv, [Next]_vars PROVE LapsedInv'
    OBVIOUS
  <1>1. CASE Rests
    BY <1>1 DEF Rests, LapsedInv, Spent
  <1>2. CASE Cleans
    <2>1. \A e \in lapsed : e[1] \in Bucket /\ e[2] # NoValue
      BY TurnStateAssumption DEF TypeOK
    <2>2. /\ UNCHANGED <<writer, disk, now, lapsed>> /\ state'.config = state.config
          /\ \A e \in lapsed' : state'.templates[e[1]] = e[2] => state.templates[e[1]] = e[2]
      BY <1>2, <2>1, KeptTypes, KeptFacts DEF Cleans
    <2>. QED  BY <2>2, SameSpent, LapsedParts, StillSpent DEF LapsedInv
  <1>3. ASSUME NEW r \in Requests, NEW v \in Values, pending[r] # NoPending,
               Learns(pending[r].bucket, v)
        PROVE  LapsedInv'
    BY <1>3, LearnsLapsed DEF TypeOK
  <1>4. CASE WriteFails
    BY <1>4 DEF WriteFails, historyVars, switchVars, LapsedInv, Spent
  <1>5. CASE BackUp
    <2>1. /\ disk'.main = disk.main /\ disk'.overlay = disk.overlay /\ disk'.backup = disk.overlay
          /\ UNCHANGED <<state, writer, now, lapsed>>
      BY <1>5, Fetched DEF BackUp, historyVars, switchVars, Files
    <2>. QED  BY <2>1 DEF LapsedInv, Spent
  <1>. QED
    BY <1>1, <1>2, <1>3, <1>4, <1>5, StartsLapsed, WriteLapsed, PublishLapsed, OpensLapsed,
       TickLapsed, StoreSteps DEF Answered

(* For all settings, clocks and interleavings of responses, probes, writes, crashes and
   restored overlays: a template that expired is not usable again until it is handed out
   again, whatever lifetime is set later. *)
THEOREM ExpiredStaysExpiredTheorem == Spec => []ExpiredStaysExpired
  BY InitType, StepType, InitFiles, StepFiles, InitLapsed, StepLapsed, LapsedExpired, PTL DEF Spec

-----------------------------------------------------------------------------
(* A restart keeps what was saved *)

Past(T, t) == \A b \in Bucket : T[b] # NoValue => IssuedAt[T[b]] <= t

\* No copy of a template bears a date to come.
DatesPast ==
    /\ Past(state.templates, now)
    /\ writer # Idle => Past(writer.next.templates, now)
    /\ disk.main # NoFile => Past(disk.main.templates, now)
    /\ disk.overlay # NoFile => Past(disk.overlay.templates, now)
    /\ disk.backup # NoFile => Past(disk.backup.templates, now)

\* A value issued before t and usable later is usable at t.
LEMMA UsableEarlier ==
    ASSUME NEW s \in State, NEW b, NEW v \in Values, NEW t \in Nat,
           IssuedAt[v] <= t, Usable(s, b, v, t + 1)
    PROVE  Usable(s, b, v, t)
  <1>1. /\ IssuedAt[v] \in Nat /\ Hour \in Nat /\ s.config.ttl \in Nat /\ s.config.ttl <= Hour
    BY TurnStateAssumption DEF Config
  <1>. QED  BY <1>1 DEF Usable, UsableUnder, Tombstoned

LEMMA StepDates == TypeOK /\ FilesInv /\ DatesPast /\ [Next]_vars => DatesPast'
  <1>. SUFFICES ASSUME TypeOK, FilesInv, DatesPast, [Next]_vars PROVE DatesPast'
    OBVIOUS
  <1>0. /\ state \in State /\ now \in Nat
        /\ \A b \in Bucket : KeptState.templates[b] \in {state.templates[b], NoValue}
    BY KeptFacts DEF TypeOK
  <1>1. CASE Rests
    BY <1>1 DEF Rests, DatesPast, Past
  <1>2. CASE Cleans
    BY <1>0, <1>2 DEF Cleans, DatesPast, Past
  <1>3. ASSUME NEW r \in Requests, NEW v \in Values, pending[r] # NoPending,
               Learns(pending[r].bucket, v)
        PROVE  DatesPast'
    <2>1. /\ pending[r].bucket \in Bucket /\ IssuedAt[v] <= now
          /\ state' = [KeptState EXCEPT !.templates[pending[r].bucket] = v]
          /\ UNCHANGED <<writer, disk, now>> /\ KeptState \in State
      BY <1>3, KeptTypes DEF Learns, Learnable, Usable, UsableUnder, TypeOK
    <2>2. \A b \in Bucket : state'.templates[b] \in {v, KeptState.templates[b]}
      BY <2>1
    <2>. QED  BY <1>0, <2>1, <2>2 DEF DatesPast, Past
  <1>4. CASE StartsWrite
    <2>1. PICK op, next, full, scope, b :
              Commit(op, next, full, scope, b) /\ CopyToSave(op, next, full)
      BY <1>4 DEF StartsWrite
    <2>2. /\ writer'.next = next /\ UNCHANGED <<disk, now>>
          /\ \A c \in Bucket : state'.templates[c] \in {state.templates[c], NoValue}
      BY <1>0, <1>4, <2>1 DEF Commit, StartsWrite
    <2>3. \A c \in Bucket : next.templates[c] # NoValue => IssuedAt[next.templates[c]] <= now
      BY <2>1 DEF CopyToSave, DatesPast, Past
    <2>. QED  BY <2>2, <2>3 DEF DatesPast, Past
  <1>5. CASE WriteFile
    <2>1. /\ writer # Idle /\ writer'.next = writer.next /\ UNCHANGED <<state, now>>
          /\ disk' = Written(disk, writer)
      BY <1>5, Fetched DEF WriteFile, historyVars, switchVars
    <2>2. /\ disk'.main.templates \in {disk.main.templates, writer.next.templates}
          /\ disk'.overlay.templates \in {disk.overlay.templates, writer.next.templates}
          /\ disk'.backup = disk.backup
          /\ disk'.main = disk.main \/ disk'.main.templates = writer.next.templates
          /\ disk'.overlay = disk.overlay \/ disk'.overlay.templates = writer.next.templates
      BY <2>1, Fetched DEF Written, Files
    <2>. QED  BY <2>1, <2>2 DEF DatesPast, Past
  <1>6. CASE WriteFails
    BY <1>6 DEF WriteFails, historyVars, switchVars, DatesPast, Past
  <1>7. CASE Publish
    <2>1. /\ writer # Idle /\ writer' = Idle /\ UNCHANGED <<disk, now>> /\ writer.next \in State
          /\ \A b \in Bucket : state'.templates[b] =
                 IF Outlives(writer, b) THEN dirty[b] ELSE writer.next.templates[b]
      BY <1>7, Fetched DEF Publish
    <2>2. \A b \in Bucket : Outlives(writer, b) => IssuedAt[dirty[b]] <= now
      BY DEF FilesInv, Held, Outlives
    <2>. QED  BY <2>1, <2>2 DEF DatesPast, Past
  <1>8. CASE Opens
    <2>1. /\ disk' \in Files /\ disk'.main = disk.main /\ disk'.backup = disk.backup
          /\ disk'.overlay \in {disk.overlay, disk.backup} /\ writer' = Idle /\ now' = now
          /\ state' = Pruned(Loaded(disk'), now)
      BY <1>8, Fetched DEF Opens, Opened, Files
    <2>2. \A b \in Bucket : state'.templates[b] \in {Loaded(disk').templates[b], NoValue}
      BY <1>0, <2>1, LoadedType, PrunedFacts DEF Files
    <2>3. Past(Loaded(disk').templates, now)
      BY <2>1 DEF Loaded, DatesPast, Past
    <2>. QED  BY <2>1, <2>2, <2>3 DEF DatesPast, Past
  <1>9. CASE BackUp
    <2>1. /\ disk'.main = disk.main /\ disk'.overlay = disk.overlay /\ disk'.backup = disk.overlay
          /\ UNCHANGED <<state, writer, now>>
      BY <1>9, Fetched DEF BackUp, historyVars, switchVars, Files
    <2>. QED  BY <2>1 DEF DatesPast
  <1>10. CASE Tick
    <2>1. now' = now + 1 /\ UNCHANGED <<state, writer, disk>>
      BY <1>10 DEF Tick, storeVars
    <2>2. ASSUME NEW T \in Templates, Past(T, now) PROVE Past(T, now + 1)
      <3>1. \A b \in Bucket : T[b] # NoValue => IssuedAt[T[b]] \in Nat
        BY TurnStateAssumption
      <3>. QED  BY <1>0, <2>2, <3>1 DEF Past
    <2>. QED  BY <2>1, <2>2, Fetched DEF DatesPast
  <1>. QED  BY <1>1, <1>2, <1>3, <1>4, <1>5, <1>6, <1>7, <1>8, <1>9, <1>10, StoreSteps DEF Answered

\* The tombstones of f, a state or a file, that are not too old to matter.
LiveIn(f) == LiveTombstones(f.discarded, now)

\* The main file has every live tombstone; overlays, the backup included, have no other.
TombstonesSaved ==
    /\ writer # Idle => IF writer.op = "discard"
                        THEN writer.full /\ LiveIn(state) \subseteq LiveIn(writer.next)
                        ELSE LiveIn(writer.next) = LiveIn(state)
    /\ disk.main = NoFile => LiveIn(state) = {}
    /\ disk.main # NoFile =>
         /\ LiveIn(disk.main) = LiveIn(Saved)
         /\ disk.overlay # NoFile => LiveIn(disk.overlay) \subseteq LiveIn(disk.main)
         /\ disk.backup # NoFile => LiveIn(disk.backup) \subseteq LiveIn(disk.main)

LEMMA LiveLater ==
    ASSUME NEW D \in Tombstones, NEW t \in Nat
    PROVE  /\ LiveTombstones(D, t + 1) = LiveTombstones(LiveTombstones(D, t), t + 1)
           /\ LiveTombstones(LiveTombstones(D, t), t) = LiveTombstones(D, t)
  <1>1. \A d \in D : IssuedAt[d[2]] \in Nat /\ Hour \in Nat
    BY TurnStateAssumption
  <1>. QED  BY <1>1 DEF LiveTombstones

LEMMA StepTombstones == TypeOK /\ FilesInv /\ TombstonesSaved /\ [Next]_vars => TombstonesSaved'
  <1>. SUFFICES ASSUME TypeOK, FilesInv, TombstonesSaved, [Next]_vars PROVE TombstonesSaved'
    OBVIOUS
  <1>0. LiveIn(KeptState) = LiveIn(state)
    BY KeptFacts DEF LiveIn
  <1>1. ASSUME LiveTombstones(state'.discarded, now) = LiveIn(state),
               UNCHANGED <<writer, disk, now>>
        PROVE  TombstonesSaved'
    BY <1>1 DEF TombstonesSaved, LiveIn, Saved, Replaced
  <1>2. CASE Rests \/ Cleans
    BY <1>0, <1>1, <1>2 DEF Rests, Cleans, LiveIn
  <1>3. ASSUME NEW r \in Requests, NEW v \in Values, pending[r] # NoPending,
               Learns(pending[r].bucket, v)
        PROVE  TombstonesSaved'
    <2>1. state'.discarded = KeptState.discarded
      BY <1>3, KeptTypes DEF Learns
    <2>. QED  BY <1>0, <1>1, <1>3, <2>1 DEF Learns, LiveIn
  <1>4. CASE StartsWrite
    <2>1. PICK op, next, full, scope, b :
              Commit(op, next, full, scope, b) /\ CopyToSave(op, next, full)
      BY <1>4 DEF StartsWrite
    <2>2. /\ writer = Idle /\ ~writer'.written /\ writer'.next = next /\ writer'.op = op
          /\ writer'.full = (full \/ base = 0) /\ UNCHANGED <<disk, now>>
          /\ LiveTombstones(state'.discarded, now) = LiveIn(state)
      BY <1>0, <1>4, <2>1 DEF Commit, StartsWrite, LiveIn
    <2>3. IF op = "discard"
          THEN full /\ LiveIn(state) \subseteq LiveTombstones(next.discarded, now)
          ELSE LiveTombstones(next.discarded, now) = LiveIn(state)
      BY <2>1 DEF CopyToSave, LiveIn, LiveTombstones
    <2>. QED  BY <2>2, <2>3 DEF TombstonesSaved, LiveIn, Saved, Replaced
  <1>5. CASE WriteFile
    <2>1. /\ writer # Idle /\ ~writer.written /\ writer'.written /\ writer'.next = writer.next
          /\ writer'.full = writer.full /\ writer'.op = writer.op /\ UNCHANGED <<state, now>>
          /\ disk' = Written(disk, writer)
      BY <1>5, Fetched DEF WriteFile, historyVars, switchVars
    <2>2. disk'.main # NoFile /\ writer' # Idle
      <3>1. writer' # Idle
        BY <1>5, Fetched, TurnStateAssumption DEF WriteFile
      <3>. QED  BY <2>1, <3>1, StepDigests DEF FilesInv, DigestsFresh, Replaced
    <2>3. LiveIn(state) \subseteq LiveIn(writer.next)
      BY <2>1 DEF TombstonesSaved
    <2>4. CASE writer.full
      <3>1. /\ disk'.main.discarded = writer.next.discarded
            /\ disk'.overlay = disk.overlay /\ disk'.backup = disk.backup
        BY <2>1, <2>4, Fetched DEF Written, Files
      <3>2. disk.main # NoFile => LiveIn(disk.main) = LiveIn(state)
        BY <2>1 DEF TombstonesSaved, Saved, Replaced
      <3>3. disk.main = NoFile => disk.overlay = NoFile /\ disk.backup = NoFile
        BY DEF FilesInv, DigestsFresh
      <3>. QED
        BY <2>1, <2>2, <2>3, <3>1, <3>2, <3>3 DEF TombstonesSaved, LiveIn, Saved, Replaced
    <2>5. CASE ~writer.full
      <3>1. /\ disk'.overlay.discarded = writer.next.discarded
            /\ disk'.main = disk.main /\ disk'.backup = disk.backup
        BY <2>1, <2>5, Fetched DEF Written, Files
      <3>2. LiveIn(writer.next) = LiveIn(state)
        BY <2>1, <2>5 DEF TombstonesSaved
      <3>. QED  BY <2>1, <2>2, <3>1, <3>2 DEF TombstonesSaved, LiveIn, Saved, Replaced
    <2>. QED  BY <2>4, <2>5
  <1>6. CASE WriteFails
    BY <1>6 DEF WriteFails, historyVars, switchVars, TombstonesSaved, LiveIn, Saved, Replaced
  <1>7. CASE Publish
    <2>1. /\ writer # Idle /\ writer.written /\ writer' = Idle /\ UNCHANGED <<disk, now>>
          /\ state'.discarded = writer.next.discarded
      BY <1>7, Fetched DEF Publish
    <2>2. disk.main # NoFile
      BY <2>1 DEF FilesInv, DigestsFresh, Replaced
    <2>. QED  BY <2>1, <2>2 DEF TombstonesSaved, LiveIn, Saved, Replaced
  <1>8. CASE Opens
    <2>1. /\ disk' \in Files /\ disk'.main = disk.main /\ disk'.backup = disk.backup
          /\ disk'.overlay \in {disk.overlay, disk.backup} /\ writer' = Idle /\ now' = now
          /\ state' = Pruned(Loaded(disk'), now)
      BY <1>8, Fetched DEF Opens, Opened, Files
    <2>2. LiveTombstones(state'.discarded, now) = LiveTombstones(Loaded(disk').discarded, now)
      BY <2>1, LoadedType, PrunedFacts, Fetched DEF Files
    <2>3. disk.main = NoFile => Loaded(disk').discarded = {}
      BY <2>1 DEF Loaded
    <2>4. disk.main # NoFile => LiveTombstones(Loaded(disk').discarded, now) = LiveIn(disk.main)
      <3>. HAVE disk.main # NoFile
      <3>1. disk'.overlay # NoFile => LiveIn(disk'.overlay) \subseteq LiveIn(disk.main)
        BY <2>1 DEF TombstonesSaved
      <3>2. Loaded(disk').discarded = LiveIn(disk.main)
        BY <2>1, <3>1 DEF Loaded, LiveIn
      <3>. QED  BY <3>2 DEF LiveIn, LiveTombstones
    <2>. QED  BY <2>1, <2>2, <2>3, <2>4 DEF TombstonesSaved, LiveIn, Saved, Replaced, LiveTombstones
  <1>9. CASE BackUp
    <2>1. /\ disk'.main = disk.main /\ disk'.overlay = disk.overlay /\ disk'.backup = disk.overlay
          /\ UNCHANGED <<state, writer, now>>
      BY <1>9, Fetched DEF BackUp, historyVars, switchVars, Files
    <2>. QED  BY <2>1 DEF TombstonesSaved, LiveIn, Saved, Replaced
  <1>10. CASE Tick
    <2>1. now' = now + 1 /\ UNCHANGED <<state, writer, disk>>
      BY <1>10 DEF Tick, storeVars
    <2>2. \A D \in Tombstones : LiveTombstones(D, now') = LiveTombstones(LiveTombstones(D, now), now')
      BY <2>1, LiveLater, Fetched
    <2>3. /\ state.discarded \in Tombstones
          /\ writer # Idle => writer.next.discarded \in Tombstones
          /\ disk.main # NoFile => disk.main.discarded \in Tombstones
          /\ disk.overlay # NoFile => disk.overlay.discarded \in Tombstones
          /\ disk.backup # NoFile => disk.backup.discarded \in Tombstones
      BY Fetched
    <2>4. \A D, E : D \subseteq E => LiveTombstones(D, now') \subseteq LiveTombstones(E, now')
      BY DEF LiveTombstones
    <2>5. LiveTombstones({}, now') = {}
      BY DEF LiveTombstones
    <2>. HIDE DEF Tombstones
    <2>. QED  BY <2>1, <2>2, <2>3, <2>4, <2>5 DEF TombstonesSaved, LiveIn, Saved, Replaced
  <1>. QED  BY <1>2, <1>3, <1>4, <1>5, <1>6, <1>7, <1>8, <1>9, <1>10, StoreSteps DEF Answered

\* What the files hold, S, of the templates of s: each usable one, unless what awaits
\* saving, d, replaces it, and then no newer one.
Agrees(S, s, d, t) ==
    \A b \in Bucket, v \in Values : Usable(s, b, v, t) =>
        IF d[b] = NoValue THEN S[b] = v <=> s.templates[b] = v
                          ELSE S[b] = v => IssuedAt[v] < IssuedAt[d[b]]

\* Between a write and its publication the files hold the copy; otherwise they agree
\* with memory.
TemplatesSaved ==
    IF Replaced THEN Loaded(disk).templates = writer.next.templates
                ELSE Agrees(Loaded(disk).templates, state, dirty, now)

SavedInv == DatesPast /\ TombstonesSaved /\ TemplatesSaved

LEMMA InitSaved == Init => SavedInv
  <1>. SUFFICES ASSUME Init PROVE SavedInv
    OBVIOUS
  <1>1. DatesPast
    BY DEF Init, DatesPast, Past
  <1>2. TombstonesSaved
    BY DEF Init, TombstonesSaved, LiveIn, LiveTombstones
  <1>3. TemplatesSaved
    BY DEF Init, TemplatesSaved, Agrees, Replaced, Loaded
  <1>. QED  BY <1>1, <1>2, <1>3 DEF SavedInv

LEMMA KeptAgrees ==
    ASSUME TypeOK, Held(state, dirty, now), NEW S \in Templates, Agrees(S, state, dirty, now)
    PROVE  Agrees(S, KeptState, KeptDirty, now)
  <1>. SUFFICES ASSUME NEW b \in Bucket, NEW v \in Values, Usable(state, b, v, now)
                PROVE  IF KeptDirty[b] = NoValue THEN S[b] = v <=> KeptState.templates[b] = v
                       ELSE S[b] = v => IssuedAt[v] < IssuedAt[KeptDirty[b]]
    BY KeptFacts DEF Agrees
  <1>0. /\ state \in State /\ now \in Nat /\ v # NoValue
        /\ KeptDirty[b] = IF KeptState.templates[b] = state.templates[b] THEN dirty[b] ELSE NoValue
    BY TurnStateAssumption DEF TypeOK, KeptDirty
  <1>1. CASE KeptState.templates[b] = state.templates[b]
    BY <1>0, <1>1 DEF Agrees
  <1>2. CASE KeptState.templates[b] # state.templates[b]
    <2>. DEFINE w == state.templates[b]
    <2>1. /\ KeptState.templates[b] = NoValue /\ ~Holds(state, b, now) /\ w # NoValue
          /\ KeptDirty[b] = NoValue
      BY <1>0, <1>2, KeptFacts
    <2>2. w \in Values /\ w # v
      BY <1>0, <2>1 DEF Holds
    <2>3. S[b] # v
      <3>1. CASE dirty[b] = NoValue
        BY <2>2, <3>1 DEF Agrees
      <3>2. CASE dirty[b] # NoValue
        <4>1. /\ dirty[b] = w /\ LengthOf[w] = state.config.length /\ IssuedAt[w] <= now
              /\ ~Tombstoned(state, b, w, now)
          BY <3>2 DEF Held
        <4>2. IssuedAt[w] \in Nat /\ IssuedAt[v] \in Nat /\ state.config.ttl \in Nat
          BY <1>0, <2>2, TurnStateAssumption DEF Config
        <4>3. now - IssuedAt[w] >= state.config.ttl
          BY <1>0, <2>1, <4>1, <4>2 DEF Holds, Usable, UsableUnder
        <4>4. now - IssuedAt[v] < state.config.ttl
          BY DEF Usable, UsableUnder
        <4>5. ~(IssuedAt[v] < IssuedAt[w])
          BY <1>0, <4>2, <4>3, <4>4
        <4>. QED  BY <3>2, <4>1, <4>5 DEF Agrees
      <3>. QED  BY <3>1, <3>2
    <2>. QED  BY <1>0, <2>1, <2>3
  <1>. QED  BY <1>1, <1>2

LEMMA LearnedAgrees ==
    ASSUME NEW s \in State, NEW d \in Templates, NEW S \in Templates, Held(s, d, now),
           Agrees(S, s, d, now), NEW b \in Bucket, NEW v \in Values, Learnable(s, b, v)
    PROVE  Agrees(S, [s EXCEPT !.templates[b] = v], [d EXCEPT ![b] = v], now)
  <1>. DEFINE s2 == [s EXCEPT !.templates[b] = v]
              d2 == [d EXCEPT ![b] = v]
  <1>1. /\ s2.config = s.config /\ s2.discarded = s.discarded /\ d2[b] = v /\ v # NoValue
        /\ \A c \in Bucket : c # b => s2.templates[c] = s.templates[c] /\ d2[c] = d[c]
    BY TurnStateAssumption
  <1>. HIDE DEF s2, d2
  <1>2. \A c \in Bucket, u \in Values : Usable(s2, c, u, now) <=> Usable(s, c, u, now)
    BY <1>1 DEF Usable, Tombstoned
  <1>3. ASSUME NEW u \in Values, Usable(s, b, u, now), S[b] = u
        PROVE  IssuedAt[u] < IssuedAt[v]
    <2>0. \A x \in Values : IssuedAt[x] \in Nat
      BY TurnStateAssumption
    <2>1. CASE d[b] = NoValue
      <3>1. s.templates[b] = u /\ u # NoValue
        BY <1>3, <2>1, TurnStateAssumption DEF Agrees
      <3>. QED  BY <2>0, <3>1 DEF Learnable
    <2>2. CASE d[b] # NoValue
      <3>1. d[b] = s.templates[b] /\ IssuedAt[u] < IssuedAt[d[b]]
        BY <1>3, <2>2 DEF Agrees, Held
      <3>2. IssuedAt[v] > IssuedAt[d[b]] /\ d[b] \in Values
        BY <2>2, <3>1 DEF Learnable
      <3>. QED  BY <2>0, <3>1, <3>2
    <2>. QED  BY <2>1, <2>2
  <1>4. Agrees(S, s2, d2, now)
    BY <1>1, <1>2, <1>3 DEF Agrees
  <1>. QED  BY <1>4 DEF s2, d2

LEMMA LearnsSaved ==
    ASSUME TypeOK, FilesInv, TemplatesSaved, NEW b \in Bucket, NEW v \in Values, Learns(b, v)
    PROVE  TemplatesSaved'
  <1>1. UNCHANGED <<writer, disk, now>> /\ Loaded(disk)' = Loaded(disk)
    BY DEF Learns, Loaded
  <1>2. Loaded(disk).templates \in Templates
    BY LoadedType, Fetched DEF Files
  <1>3. CASE Replaced
    BY <1>1, <1>3 DEF TemplatesSaved, Replaced
  <1>4. CASE ~Replaced
    <2>1. Agrees(Loaded(disk).templates, KeptState, KeptDirty, now)
      BY <1>2, <1>4, KeptAgrees DEF TemplatesSaved, FilesInv
    <2>2. Held(KeptState, KeptDirty, now)
      BY KeptHeld DEF FilesInv
    <2>3. Agrees(Loaded(disk).templates, state', dirty', now)
      BY <1>2, <2>1, <2>2, KeptTypes, LearnedAgrees DEF Learns
    <2>. QED  BY <1>1, <1>4, <2>3 DEF TemplatesSaved, Agrees, Replaced
  <1>. QED  BY <1>3, <1>4

LEMMA WriteSaved ==
    ASSUME TypeOK, FilesInv, WriteFile, [Next]_vars
    PROVE  TemplatesSaved'
  <1>1. /\ writer # Idle /\ ~writer.written /\ writer'.written /\ writer'.next = writer.next
        /\ writer'.full = writer.full /\ disk' = Written(disk, writer) /\ now' = now
    BY Fetched DEF WriteFile, historyVars, switchVars
  <1>2. disk'.main # NoFile /\ writer' # Idle
    BY <1>1, StepDigests, Fetched, TurnStateAssumption, WriteType
       DEF FilesInv, DigestsFresh, Replaced, WriteFile
  <1>3. Loaded(disk').templates = writer.next.templates
    <2>1. CASE writer.full
      <3>1. /\ disk'.main.digest = writes /\ disk'.main.templates = writer.next.templates
            /\ disk'.overlay = disk.overlay
        BY <1>1, <2>1, Fetched DEF Written, Files
      <3>2. disk.overlay # NoFile => disk.overlay.base < writes /\ disk.overlay.base \in Nat
        BY <1>1, Fetched DEF FilesInv, DigestsFresh, Earlier
      <3>3. ~(disk'.overlay # NoFile /\ disk'.overlay.base = disk'.main.digest)
        BY <3>1, <3>2, Fetched
      <3>. QED  BY <1>2, <3>1, <3>3 DEF Loaded
    <2>2. CASE ~writer.full
      <3>1. /\ disk'.overlay.templates = writer.next.templates /\ disk'.overlay.base = base
            /\ disk'.overlay \in Overlay /\ disk'.main = disk.main
        BY <1>1, <2>2, Fetched DEF Written, Files
      <3>2. base = disk.main.digest
        BY <1>1, <1>2, <2>2, <3>1 DEF FilesInv, DigestsFresh, Replaced, Digest
      <3>. QED  BY <1>2, <3>1, <3>2, TurnStateAssumption DEF Loaded
    <2>. QED  BY <2>1, <2>2
  <1>4. Loaded(disk)'.templates = Loaded(disk').templates
    BY <1>1 DEF Loaded
  <1>. QED  BY <1>1, <1>2, <1>3, <1>4 DEF TemplatesSaved, Replaced

LEMMA PublishSaved ==
    ASSUME TypeOK, TemplatesSaved, Publish
    PROVE  TemplatesSaved'
  <1>1. /\ Replaced /\ ~Replaced' /\ writer.next \in State /\ UNCHANGED <<disk, now>>
        /\ Loaded(disk)' = Loaded(disk)
        /\ state'.config = writer.next.config
        /\ \A b \in Bucket : state'.templates[b] =
               IF Outlives(writer, b) THEN dirty[b] ELSE writer.next.templates[b]
        /\ \A b \in Bucket : dirty'[b] = IF Outlives(writer, b) THEN dirty[b] ELSE NoValue
    BY Fetched DEF Publish, Replaced, Loaded
  <1>2. Loaded(disk).templates = writer.next.templates
    BY <1>1 DEF TemplatesSaved
  <1>3. ASSUME NEW b \in Bucket, NEW v \in Values
        PROVE  IF dirty'[b] = NoValue
               THEN writer.next.templates[b] = v <=> state'.templates[b] = v
               ELSE writer.next.templates[b] = v => IssuedAt[v] < IssuedAt[dirty'[b]]
    <2>1. CASE Outlives(writer, b)
      <3>1. dirty[b] # NoValue /\ dirty[b] \in Values /\ v # NoValue
        BY <2>1, Fetched, TurnStateAssumption DEF Outlives
      <3>2. \A x \in Values : IssuedAt[x] \in Nat
        BY TurnStateAssumption
      <3>. QED  BY <1>1, <2>1, <3>1, <3>2 DEF Outlives
    <2>2. CASE ~Outlives(writer, b)
      BY <1>1, <2>2
    <2>. QED  BY <2>1, <2>2
  <1>4. Agrees(Loaded(disk).templates, state', dirty', now)
    BY <1>2, <1>3 DEF Agrees
  <1>. QED  BY <1>1, <1>4 DEF TemplatesSaved, Agrees

LEMMA OpensSaved ==
    ASSUME TypeOK, Opens
    PROVE  TemplatesSaved'
  <1>1. /\ disk' \in Files /\ writer' = Idle /\ now' = now /\ now \in Nat
        /\ state' = Pruned(Loaded(disk'), now)
        /\ \A b \in Bucket : dirty'[b] = NoValue
    BY Fetched DEF Opens, Opened, Files
  <1>2. Loaded(disk') \in State /\ Loaded(disk)' = Loaded(disk')
    BY <1>1, LoadedType DEF Files, Loaded
  <1>3. ASSUME NEW b \in Bucket, NEW v \in Values, Usable(state', b, v, now)
        PROVE  Loaded(disk').templates[b] = v <=> state'.templates[b] = v
    <2>1. Usable(Loaded(disk'), b, v, now) /\ v # NoValue
      BY <1>1, <1>2, <1>3, PrunedFacts, TurnStateAssumption
    <2>. QED  BY <1>1, <1>2, <2>1, PrunedFacts DEF Holds
  <1>4. Agrees(Loaded(disk').templates, state', dirty', now)
    BY <1>1, <1>3 DEF Agrees
  <1>. QED  BY <1>1, <1>2, <1>4 DEF TemplatesSaved, Agrees, Replaced

LEMMA TickSaved ==
    ASSUME TypeOK, DatesPast, TemplatesSaved, Tick
    PROVE  TemplatesSaved'
  <1>1. /\ now' = now + 1 /\ UNCHANGED <<state, dirty, writer, disk>>
        /\ state \in State /\ now \in Nat
    BY Fetched DEF Tick, storeVars
  <1>. DEFINE S == Loaded(disk).templates
  <1>2. /\ Loaded(disk)'.templates = S /\ S \in Templates /\ Past(S, now)
    <2>1. Loaded(disk)'.templates = S
      BY <1>1 DEF Loaded
    <2>2. S \in Templates
      BY LoadedType, Fetched DEF Files
    <2>3. Past(S, now)
      BY DEF Loaded, DatesPast, Past
    <2>. QED  BY <2>1, <2>2, <2>3
  <1>. HIDE DEF S
  <1>3. CASE Replaced
    BY <1>1, <1>2, <1>3 DEF TemplatesSaved, Replaced, S
  <1>4. CASE ~Replaced
    <2>1. Agrees(S, state, dirty, now) /\ Past(state.templates, now)
      BY <1>4 DEF TemplatesSaved, DatesPast, S
    <2>2. ASSUME NEW b \in Bucket, NEW v \in Values, Usable(state, b, v, now + 1)
          PROVE  IF dirty[b] = NoValue THEN S[b] = v <=> state.templates[b] = v
                 ELSE S[b] = v => IssuedAt[v] < IssuedAt[dirty[b]]
      <3>1. v # NoValue
        BY TurnStateAssumption
      <3>2. CASE IssuedAt[v] <= now
        BY <1>1, <2>1, <2>2, <3>2, UsableEarlier DEF Agrees
      <3>3. CASE ~(IssuedAt[v] <= now)
        BY <1>2, <2>1, <3>1, <3>3 DEF Past
      <3>. QED  BY <3>2, <3>3
    <2>3. Agrees(S, state, dirty, now + 1)
      BY <2>2 DEF Agrees
    <2>. QED  BY <1>1, <1>2, <1>4, <2>3 DEF TemplatesSaved, Agrees, Replaced
  <1>. QED  BY <1>3, <1>4

LEMMA StepTemplates ==
    ASSUME TypeOK, FilesInv, DatesPast, TemplatesSaved, [Next]_vars
    PROVE  TemplatesSaved'
  <1>0. Loaded(disk).templates \in Templates
    BY LoadedType, Fetched DEF Files
  <1>1. CASE Rests
    BY <1>1 DEF Rests, TemplatesSaved, Agrees, Replaced, Loaded
  <1>2. ASSUME UNCHANGED <<state, dirty>> \/ (state' = KeptState /\ dirty' = KeptDirty),
               UNCHANGED <<disk, now>>, Replaced' <=> Replaced,
               Replaced => writer' = writer
        PROVE  TemplatesSaved'
    <2>1. Loaded(disk)' = Loaded(disk)
      BY <1>2 DEF Loaded
    <2>2. CASE Replaced
      BY <1>2, <2>1, <2>2 DEF TemplatesSaved
    <2>3. CASE ~Replaced
      <3>1. Agrees(Loaded(disk).templates, state', dirty', now)
        BY <1>0, <1>2, <2>3, KeptAgrees DEF TemplatesSaved, FilesInv
      <3>. QED  BY <1>2, <2>1, <2>3, <3>1 DEF TemplatesSaved, Agrees
    <2>. QED  BY <2>2, <2>3
  <1>3. CASE Cleans
    BY <1>2, <1>3 DEF Cleans, Replaced
  <1>4. CASE StartsWrite
    <2>1. ~Replaced /\ ~Replaced'
      BY <1>4 DEF StartsWrite, Commit, Replaced
    <2>. QED  BY <1>2, <1>4, <2>1 DEF StartsWrite
  <1>5. CASE WriteFails
    <2>1. ~Replaced /\ ~Replaced' /\ UNCHANGED <<state, dirty, disk, now>>
      BY <1>5 DEF WriteFails, Replaced
    <2>. QED  BY <1>2, <2>1
  <1>6. CASE BackUp
    <2>1. /\ UNCHANGED <<state, dirty, writer, now>> /\ disk'.main = disk.main
          /\ disk'.overlay = disk.overlay
      BY <1>6, Fetched DEF BackUp, Files
    <2>. QED  BY <2>1 DEF TemplatesSaved, Agrees, Replaced, Loaded
  <1>7. ASSUME NEW r \in Requests, NEW v \in Values, pending[r] # NoPending,
               Learns(pending[r].bucket, v)
        PROVE  TemplatesSaved'
    BY <1>7, LearnsSaved DEF TypeOK
  <1>. QED
    BY <1>1, <1>3, <1>4, <1>5, <1>6, <1>7, WriteSaved, PublishSaved, OpensSaved, TickSaved,
       StoreSteps DEF Answered

LEMMA StepSaved == TypeOK /\ FilesInv /\ SavedInv /\ [Next]_vars => SavedInv'
  BY StepDates, StepTombstones, StepTemplates DEF SavedInv

\* Between commits, what a restart would read agrees with memory.
LEMMA SavedIsKept == TypeOK /\ FilesInv /\ SavedInv => RestartKeepsSaved
  <1>. SUFFICES ASSUME TypeOK, FilesInv, SavedInv, writer = Idle PROVE RestartKeepsSaved
    BY DEF RestartKeepsSaved
  <1>. DEFINE saved == Loaded(disk)
  <1>1. ~Replaced /\ saved \in State /\ state \in State /\ dirty \in Templates
    BY LoadedType, Fetched DEF Replaced, Files
  <1>2. saved.config = state.config
    BY <1>1 DEF FilesInv, ConfigsAgree, Saved, Loaded
  <1>3. LiveTombstones(saved.discarded, now) = LiveIn(state)
    <2>1. CASE disk.main = NoFile
      BY <2>1 DEF SavedInv, TombstonesSaved, Loaded, LiveTombstones
    <2>2. CASE disk.main # NoFile
      <3>1. saved.discarded = LiveIn(disk.main)
        BY <2>2 DEF Loaded, LiveIn, SavedInv, TombstonesSaved
      <3>. QED  BY <1>1, <2>2, <3>1 DEF SavedInv, TombstonesSaved, Saved, LiveIn, LiveTombstones
    <2>. QED  BY <2>1, <2>2
  <1>4. Agrees(saved.templates, state, dirty, now)
    BY <1>1 DEF SavedInv, TemplatesSaved
  <1>. HIDE DEF saved
  <1>5. \A b \in Bucket, v \in Values : Usable(saved, b, v, now) <=> Usable(state, b, v, now)
    BY <1>1, <1>2, <1>3 DEF Usable, Tombstoned, LiveIn, LiveTombstones
  <1>6. ASSUME NEW b \in Bucket, dirty[b] = NoValue
        PROVE  /\ Holds(saved, b, now) <=> Holds(state, b, now)
               /\ Holds(saved, b, now) => saved.templates[b] = state.templates[b]
    <2>1. ASSUME Holds(saved, b, now) PROVE saved.templates[b] = state.templates[b]
      BY <1>1, <1>4, <1>5, <1>6, <2>1 DEF Holds, Agrees
    <2>2. ASSUME Holds(state, b, now) PROVE saved.templates[b] = state.templates[b]
      BY <1>1, <1>4, <1>5, <1>6, <2>2 DEF Holds, Agrees
    <2>3. state.templates[b] # NoValue => state.templates[b] \in Values
      BY <1>1
    <2>. QED  BY <1>5, <2>1, <2>2, <2>3 DEF Holds
  <1>7. ASSUME NEW b \in Bucket, dirty[b] # NoValue, Holds(saved, b, now)
        PROVE  IssuedAt[saved.templates[b]] < IssuedAt[state.templates[b]]
    <2>1. dirty[b] = state.templates[b]
      BY <1>7 DEF FilesInv, Held
    <2>. QED  BY <1>1, <1>4, <1>5, <1>7, <2>1 DEF Holds, Agrees
  <1>. QED  BY <1>2, <1>6, <1>7 DEF RestartKeepsSaved, saved

(* For all settings, clocks and interleavings: between commits the files hold the settings
   in force, the usable template of every bucket that awaits no saving, and an older one or
   none where one does. *)
THEOREM RestartKeepsSavedTheorem == Spec => []RestartKeepsSaved
  BY InitType, StepType, InitFiles, StepFiles, InitSaved, StepSaved, SavedIsKept, PTL DEF Spec

-----------------------------------------------------------------------------
(* Templates serve their bucket *)

\* The attribution of a request at an upstream names the bucket that serves it, unless its
\* attempt passed the hooks.  While the hook is asking, there is no upstream.
AttributionsAreTrue ==
    \A r \in Requests : pending[r] # NoPending /\ upstream[r] # NoBucket /\ r \notin passed =>
        pending[r].bucket = upstream[r]

Serves(T) == \A b \in Bucket : T[b] # NoValue => IssuedTo[T[b]] = b \/ <<b, T[b]>> \in guessed

\* Every copy of the templates serves its buckets, but for what was guessed.
CopiesServe ==
    /\ Serves(state.templates) /\ Serves(dirty)
    /\ writer # Idle => Serves(writer.next.templates)
    /\ disk.main # NoFile => Serves(disk.main.templates)
    /\ disk.overlay # NoFile => Serves(disk.overlay.templates)
    /\ disk.backup # NoFile => Serves(disk.backup.templates)

LEMMA InitServes == Init => AttributionsAreTrue /\ CopiesServe
  BY DEF Init, AttributionsAreTrue, CopiesServe, Serves

\* Attributions may be dropped or marked stale at any time, and upstreams left.
LEMMA FewerTrue ==
    ASSUME TypeOK, AttributionsAreTrue,
           \A r \in Requests : upstream'[r] \in {upstream[r], NoBucket},
           \A r \in Requests : pending'[r] # NoPending =>
               pending[r] # NoPending /\ pending'[r].bucket = pending[r].bucket,
           \A r \in passed : r \in passed' \/ pending'[r] = NoPending
    PROVE  AttributionsAreTrue'
  BY DEF AttributionsAreTrue

LEMMA AskTrue ==
    ASSUME TypeOK, AttributionsAreTrue,
           NEW r \in Requests, NEW b \in Bucket, NEW gate \in BOOLEAN, AskState(r, b, gate)
    PROVE  AttributionsAreTrue'
  <1>1. /\ pending \in [Requests -> Attribution \cup {NoPending}]
        /\ upstream \in [Requests -> Bucket \cup {NoBucket}]
    BY DEF TypeOK
  <1>2. /\ pending' = pending \/ pending' = Forget(r)
        /\ upstream' = [upstream EXCEPT ![r] = IF Asks(b, gate) THEN NoBucket ELSE b]
        /\ passed' = IF Looks THEN passed \ {r} ELSE PassedBy(r)
    BY DEF AskState
  <1>3. \A q \in Requests : q # r => /\ pending'[q] = pending[q] /\ upstream'[q] = upstream[q]
                                     /\ q \in passed' <=> q \in passed
    BY <1>1, <1>2 DEF Forget, PassedBy
  <1>4. pending'[r] # NoPending /\ upstream'[r] # NoBucket => r \in passed'
    <2>1. CASE Asks(b, gate)
      BY <1>1, <1>2, <2>1
    <2>2. CASE ~Asks(b, gate) /\ Looks
      <3>1. ~(gate /\ InScope(state.config, b))
        BY <2>2 DEF Asks
      <3>2. pending' = Forget(r)
        BY <2>2, <3>1 DEF AskState
      <3>. QED  BY <1>1, <3>2 DEF Forget
    <2>3. CASE ~Looks
      <3>1. pending' = pending
        BY <2>3 DEF AskState
      <3>. QED  BY <1>2, <2>3, <3>1 DEF PassedBy
    <2>. QED  BY <2>1, <2>2, <2>3
  <1>. QED  BY <1>3, <1>4 DEF AttributionsAreTrue

LEMMA AnswerTrue ==
    ASSUME TypeOK, AttributionsAreTrue, NEW replaceable \in BOOLEAN, AnswerState(replaceable)
    PROVE  AttributionsAreTrue'
  <1>. DEFINE r == asking.req
              b == asking.bucket
  <1>1. /\ asking # Idle /\ r \in Requests /\ b \in Bucket
        /\ pending \in [Requests -> Attribution \cup {NoPending}]
        /\ upstream \in [Requests -> Bucket \cup {NoBucket}]
    BY DEF AnswerState, TypeOK
  <1>2. CASE upstream' = [upstream EXCEPT ![r] = NoBucket] /\ UNCHANGED <<pending, passed>>
    BY <1>1, <1>2 DEF AttributionsAreTrue
  <1>3. CASE upstream' = [upstream EXCEPT ![r] = b] /\ passed' = PassedBy(r) /\ pending' = pending
    BY <1>1, <1>3 DEF AttributionsAreTrue, PassedBy
  <1>4. CASE upstream' = [upstream EXCEPT ![r] = b] /\ Before(r, b) /\ UNCHANGED passed
    <2>1. /\ Forget(r) \in [Requests -> Attribution \cup {NoPending}]
          /\ Forget(r)[r] = NoPending
          /\ \A q \in Requests : q # r => Forget(r)[q] = pending[q]
      BY <1>1 DEF Forget
    <2>. HIDE DEF r, b
    <2>2. ASSUME NEW q \in Requests, pending'[q] # NoPending
          PROVE  IF q = r THEN pending'[q].bucket = b ELSE pending'[q] = pending[q]
      <3>1. CASE pending' = Forget(r)
        BY <2>1, <2>2, <3>1
      <3>2. CASE pending' = Attributed(KeptPending(Forget(r)), r, b)
        <4>. DEFINE K == KeptPending(Forget(r))
        <4>1. /\ K \in [Requests -> Attribution \cup {NoPending}]
              /\ K[q] \in {Forget(r)[q], NoPending}
          BY <2>1 DEF KeptPending
        <4>. HIDE DEF K
        <4>2. CASE pending' = K
          BY <2>1, <2>2, <4>1, <4>2
        <4>3. CASE pending' # K
          <5>1. pending' = [K EXCEPT ![r] = [bucket |-> b, at |-> now, epoch |-> epochs.current,
                                             stale |-> FALSE]]
            BY <3>2, <4>3 DEF Attributed, K
          <5>. QED  BY <1>1, <2>1, <2>2, <4>1, <5>1
        <4>. QED  BY <4>2, <4>3
      <3>. QED  BY <1>4, <3>1, <3>2 DEF Before
    <2>. QED  BY <1>1, <1>4, <2>2 DEF AttributionsAreTrue
  <1>. QED  BY <1>2, <1>3, <1>4 DEF AnswerState

LEMMA StepTrue ==
    TypeOK /\ AttributionsAreTrue /\ [Next]_vars => AttributionsAreTrue'
  <1>. SUFFICES ASSUME TypeOK, AttributionsAreTrue, [Next]_vars
                PROVE  AttributionsAreTrue'
    OBVIOUS
  <1>0. /\ pending \in [Requests -> Attribution \cup {NoPending}]
        /\ upstream \in [Requests -> Bucket \cup {NoBucket}] /\ passed \subseteq Requests
        /\ \A r, q \in Requests : Forget(r)[q] \in {pending[q], NoPending}
        /\ \A r \in Requests : Forget(r)[r] = NoPending
        /\ \A q \in Requests : KeptPending(pending)[q] \in {pending[q], NoPending}
        /\ \A r, q \in Requests : KeptPending(Forget(r))[q] \in {pending[q], NoPending}
        /\ \A r \in Requests : KeptPending(Forget(r))[r] = NoPending
    BY DEF TypeOK, Forget, KeptPending
  <1>1. CASE UNCHANGED <<pending, upstream, passed>>
    BY <1>0, <1>1, FewerTrue
  <1>2. ASSUME NEW r \in Requests, NEW v \in Values, NEW known \in BOOLEAN,
               LearnResponse(r, v, known)
        PROVE  AttributionsAreTrue'
    <2>1. /\ pending' \in {Forget(r), KeptPending(Forget(r))} /\ upstream' = upstream
          /\ passed' = passed \ {r}
      BY <1>2 DEF LearnResponse
    <2>. QED  BY <1>0, <2>1, FewerTrue
  <1>3. ASSUME NEW r \in Requests, Complete(r) PROVE AttributionsAreTrue'
    <2>1. /\ pending' = Forget(r) /\ upstream' = [upstream EXCEPT ![r] = NoBucket]
          /\ passed' = passed \ {r}
      BY <1>3 DEF Complete
    <2>. QED  BY <1>0, <2>1, FewerTrue
  <1>4. CASE Status
    BY <1>0, <1>4, FewerTrue DEF Status
  <1>5. ASSUME NEW b \in Bucket, StartProbe(b) PROVE AttributionsAreTrue'
    BY <1>0, <1>5, FewerTrue DEF StartProbe
  <1>6. CASE Publish
    <2>1. /\ UNCHANGED <<upstream, passed>>
          /\ \A r \in Requests : pending'[r] =
                 IF pending[r] # NoPending /\ pending[r].bucket \in Invalidated(writer)
                 THEN [pending[r] EXCEPT !.stale = TRUE] ELSE pending[r]
      BY <1>6 DEF Publish
    <2>2. \A r \in Requests : pending'[r] # NoPending =>
              pending[r] # NoPending /\ pending'[r].bucket = pending[r].bucket
      BY <1>0, <2>1
    <2>. QED  BY <1>0, <2>1, <2>2, FewerTrue
  <1>7. ASSUME NEW restored \in BOOLEAN, Restart(restored) PROVE AttributionsAreTrue'
    BY <1>7 DEF Restart, Opened, AttributionsAreTrue
  <1>8. CASE Reconfigure
    BY <1>8 DEF Reconfigure, Opened, AttributionsAreTrue
  <1>9. CASE Next
    BY <1>9, <1>1, <1>2, <1>3, <1>4, <1>5, <1>6, <1>7, <1>8, AskTrue, AnswerTrue
       DEF Next, PersistLearned, Clear, Discard, Update, FinishProbe, WriteFile, WriteFails, BackUp,
           SwitchPlugin, Tick, untouchedByCommit, hookVars
  <1>. QED  BY <1>1, <1>9 DEF vars, hookVars

\* Only a response that teaches by the attribution of an earlier attempt guesses, and guesses stay.
LEMMA StepGuesses ==
    ASSUME TypeOK, [Next]_vars
    PROVE  guessed \subseteq guessed'
  BY DEF Next, vars, switchVars, AskState, AnswerState, LearnResponse, Complete, Status, PersistLearned,
         Clear, Discard, Update, StartProbe, FinishProbe, WriteFile, WriteFails, Publish, Restart,
         Reconfigure, SwitchPlugin, BackUp, Tick, untouchedByCommit

LEMMA StepServes ==
    TypeOK /\ AttributionsAreTrue /\ CopiesServe /\ [Next]_vars => CopiesServe'
  <1>. SUFFICES ASSUME TypeOK, AttributionsAreTrue, CopiesServe, [Next]_vars PROVE CopiesServe'
    OBVIOUS
  <1>0. /\ \A b \in Bucket : KeptState.templates[b] \in {state.templates[b], NoValue}
        /\ \A b \in Bucket : KeptDirty[b] \in {dirty[b], NoValue}
        /\ KeptState \in State /\ KeptDirty \in Templates
        /\ guessed \subseteq guessed'
    BY KeptFacts, KeptTypes, StepGuesses DEF KeptDirty
  <1>1. CASE Rests \/ Cleans \/ WriteFails \/ Tick
    BY <1>0, <1>1 DEF Rests, Cleans, WriteFails, Tick, storeVars, CopiesServe, Serves
  <1>2. ASSUME NEW r \in Requests, NEW v \in Values, pending[r] # NoPending,
               upstream[r] # NoBucket, IssuedTo[v] = upstream[r], Learns(pending[r].bucket, v),
               r \in passed => <<pending[r].bucket, v>> \in guessed'
        PROVE  CopiesServe'
    <2>. DEFINE p == pending[r].bucket
    <2>1. p \in Bucket /\ (IssuedTo[v] = p \/ <<p, v>> \in guessed')
      BY <1>2 DEF AttributionsAreTrue, TypeOK
    <2>2. /\ state' = [KeptState EXCEPT !.templates[p] = v] /\ dirty' = [KeptDirty EXCEPT ![p] = v]
          /\ UNCHANGED <<writer, disk>>
      BY <1>2 DEF Learns
    <2>. HIDE DEF p
    <2>3. \A b \in Bucket :
             IF b = p THEN state'.templates[b] = v /\ dirty'[b] = v
             ELSE state'.templates[b] = KeptState.templates[b] /\ dirty'[b] = KeptDirty[b]
      BY <1>0, <2>2
    <2>. QED  BY <1>0, <2>1, <2>2, <2>3 DEF CopiesServe, Serves
  <1>3. CASE StartsWrite
    <2>1. PICK op, next, full, scope, b :
              Commit(op, next, full, scope, b) /\ CopyToSave(op, next, full)
      BY <1>3 DEF StartsWrite
    <2>2. Serves(next.templates)
      BY <2>1 DEF CopyToSave, CopiesServe, Serves
    <2>3. writer'.next = next /\ disk' = disk
      BY <1>3, <2>1 DEF Commit, StartsWrite
    <2>. QED  BY <1>0, <1>3, <2>2, <2>3 DEF StartsWrite, CopiesServe, Serves
  <1>4. CASE WriteFile
    <2>1. /\ writer # Idle /\ writer'.next = writer.next /\ UNCHANGED <<state, dirty>>
          /\ disk' = Written(disk, writer)
      BY <1>4, Fetched DEF WriteFile
    <2>2. /\ disk'.backup = disk.backup
          /\ disk'.main = disk.main \/ disk'.main.templates = writer.next.templates
          /\ disk'.overlay = disk.overlay \/ disk'.overlay.templates = writer.next.templates
      BY <2>1, Fetched DEF Written, Files
    <2>. QED  BY <1>0, <2>1, <2>2 DEF CopiesServe, Serves
  <1>5. CASE Publish
    <2>1. /\ writer # Idle /\ writer' = Idle /\ disk' = disk
          /\ \A b \in Bucket : state'.templates[b] =
                 IF Outlives(writer, b) THEN dirty[b] ELSE writer.next.templates[b]
          /\ \A b \in Bucket : dirty'[b] \in {dirty[b], NoValue}
      BY <1>5, Fetched DEF Publish
    <2>. QED  BY <1>0, <2>1 DEF CopiesServe, Serves
  <1>6. CASE Opens
    <2>1. /\ disk' \in Files /\ disk'.main = disk.main /\ disk'.backup = disk.backup
          /\ disk'.overlay \in {disk.overlay, disk.backup} /\ writer' = Idle
          /\ state' = Pruned(Loaded(disk'), now) /\ \A b \in Bucket : dirty'[b] = NoValue
      BY <1>6, Fetched DEF Opens, Opened, Files
    <2>2. \A b \in Bucket : state'.templates[b] \in {Loaded(disk').templates[b], NoValue}
      BY <2>1, LoadedType, PrunedFacts, Fetched DEF Files
    <2>3. Serves(Loaded(disk').templates)
      BY <2>1 DEF Loaded, CopiesServe, Serves
    <2>. QED  BY <1>0, <2>1, <2>2, <2>3 DEF CopiesServe, Serves
  <1>7. CASE BackUp
    <2>1. /\ disk'.main = disk.main /\ disk'.overlay = disk.overlay /\ disk'.backup = disk.overlay
          /\ UNCHANGED <<state, dirty, writer>>
      BY <1>7, Fetched DEF BackUp, Files
    <2>. QED  BY <1>0, <2>1 DEF CopiesServe, Serves
  <1>. QED  BY <1>1, <1>2, <1>3, <1>4, <1>5, <1>6, <1>7, StoreSteps DEF Answered

(* For all accounts, models, settings, requests and interleavings, with the plugin and State
   switched at any time: a template serves the bucket whose upstream handed it out, unless the
   response to an attempt that had passed the hooks taught it. *)
THEOREM TemplatesServeTheorem == Spec => []LookedAtTemplatesServe
  <1>1. Init => TypeOK /\ AttributionsAreTrue /\ CopiesServe
    BY InitType, InitServes
  <1>2. TypeOK /\ AttributionsAreTrue /\ CopiesServe /\ [Next]_vars
            => (TypeOK /\ AttributionsAreTrue /\ CopiesServe)'
    BY StepType, StepTrue, StepServes
  <1>3. CopiesServe => LookedAtTemplatesServe
    BY DEF CopiesServe, Serves, LookedAtTemplatesServe
  <1>. QED  BY <1>1, <1>2, <1>3, PTL DEF Spec

=============================================================================
