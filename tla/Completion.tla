----------------------------- MODULE Completion -----------------------------
(* How a probe decides that a streamed answer was completed (turnstate/probe_completion.go,
   verifyProbeSSECompletion): the lines of the stream one by one, against the definition of the
   event that is the evidence. *)
EXTENDS Naturals, Sequences

CONSTANTS
    Names,          \* values of an "event:" line
    Payloads,       \* values of a "data:" line
    MaxLines,       \* bound: lines of a stream
    None            \* no verdict yet

VARIABLES
    lines,          \* the terminated lines so far
    event, data,    \* the event under construction: its name and its data lines
    verdict

completionVars == <<lines, event, data, verdict>>

Blank == [field |-> "blank"]
Comment == [field |-> "other"]
Lines == {Blank, Comment} \cup [field : {"event"}, value : Names] \cup [field : {"data"}, value : Payloads]

ASSUME CompletionAssumption ==
    /\ Names = {"", "message", "response.created", "response.completed", "response.failed"}
    /\ Payloads = {"created", "completed", "untyped", "failed", "unfinished", "open", "close", "[DONE]"}
    /\ MaxLines \in Nat
    /\ None \notin {"complete", "missing", "malformed", "failed", "unreadable", "too large"}

(* What the data lines of an event decode to: an object with a type and a status, the end marker,
   or nothing valid. An object may be spread over lines, but two are not an object. *)
Envelope(values) ==
    IF values = <<"[DONE]">> THEN "[DONE]"
    ELSE IF values = <<"open", "close">> THEN "completed"
    ELSE IF Len(values) = 1 /\ values[1] \notin {"open", "close"} THEN values[1]
    ELSE "malformed"
FailureType(name) == name = "response.failed"
-----------------------------------------------------------------------------
(* The checks at the blank line that ends an event, in their order; None: read on. *)
Judged ==
    LET object == Envelope(data)
        named == event = "response.completed"
    IN  IF FailureType(event) THEN "failed"
        ELSE IF data = <<>> THEN None
        ELSE IF object = "[DONE]" THEN "missing"
        ELSE IF object = "malformed" THEN "malformed"
        ELSE IF object = "failed" THEN "failed"
        ELSE IF ~named /\ object \notin {"completed", "unfinished"} THEN None
        ELSE IF ~named /\ event \notin {"", "message"} THEN "malformed"
        ELSE IF object = "created" THEN "malformed"
        ELSE IF object = "unfinished" THEN "missing"
        ELSE "complete"

DispatchKeepingName ==      \* the name of an event without data is kept for the next one
    /\ verdict' = Judged
    /\ event' = IF data = <<>> THEN event ELSE ""
    /\ data' = <<>>
Dispatch ==
    /\ verdict' = Judged
    /\ event' = ""
    /\ data' = <<>>

ReadLine(line) ==
    /\ verdict = None /\ Len(lines) < MaxLines
    /\ lines' = Append(lines, line)
    /\ IF line = Blank THEN Dispatch
       ELSE /\ event' = IF line.field = "event" THEN line.value ELSE event
            /\ data' = IF line.field = "data" THEN Append(data, line.value) ELSE data
            /\ UNCHANGED verdict

(* The stream ends, with or without a line that is not terminated, fails or passes 1 MiB. *)
EndStream(reason) ==
    /\ verdict = None
    /\ verdict' = reason
    /\ UNCHANGED <<lines, event, data>>

CompletionInit == lines = <<>> /\ event = "" /\ data = <<>> /\ verdict = None
CompletionNext ==
    \/ \E line \in Lines : ReadLine(line)
    \/ \E reason \in {"missing", "unreadable", "too large"} : EndStream(reason)

CompletionSpec == CompletionInit /\ [][CompletionNext]_completionVars
-----------------------------------------------------------------------------
(* The event that ends at line b begins after the blank line before it. *)
BlankAt(stream, b) == b = 0 \/ stream[b] = Blank
StartOf(stream, b) == CHOOSE a \in 1..b : BlankAt(stream, a - 1) /\ \A i \in a..(b - 1) : stream[i] # Blank
Values(stream, b, field) ==
    LET first == StartOf(stream, b)
        its[i \in 0..b] == IF i < first THEN <<>>
                           ELSE IF stream[i].field = field THEN Append(its[i - 1], stream[i].value)
                           ELSE its[i - 1]
    IN  its[b]
LastOf(names) == IF names = <<>> THEN "" ELSE names[Len(names)]
NameOf(stream, b) == LastOf(Values(stream, b, "event"))

FailsBy(name, values) ==
    \/ FailureType(name)
    \/ values # <<>> /\ Envelope(values) \in {"failed", "malformed", "[DONE]"}
ConfirmsBy(name, values) ==
    \/ name = "response.completed" /\ Envelope(values) \in {"completed", "untyped"}
    \/ name \in {"", "message"} /\ Envelope(values) = "completed"
Fails(stream, b) == FailsBy(NameOf(stream, b), Values(stream, b, "data"))
Confirms(stream, b) == ConfirmsBy(NameOf(stream, b), Values(stream, b, "data"))
IsEvidence(stream) ==
    /\ stream # <<>> /\ stream[Len(stream)] = Blank /\ Confirms(stream, Len(stream))
    /\ \A b \in 1..(Len(stream) - 1) : stream[b] = Blank => ~Fails(stream, b)

(* A probe is confirmed exactly by a dispatched event that says completed by its own name or
   type, contradicts itself nowhere, and follows no failure, broken data or end marker; what an
   earlier event said never counts for a later one (probe_completion.go:120-123). *)
CompletionIsEvidence == verdict = "complete" <=> IsEvidence(lines)
=============================================================================
