------------------------------ MODULE Capture ------------------------------
(* Traffic capture (plugin/traffic_capture.go) and the page that polls it (plugin/ui.html).
   The hooks of the requests, the page and the operators reach the capture in any order; every
   operation of it is one critical section of its mutex. *)
EXTENDS Integers, Sequences, FiniteSets, FiniteSetsExt

CONSTANTS
    Requests,       \* request IDs
    Upstreams,
    NoUpstream,        \* a response that does not say which account it is from
    MaxEntries,     \* captureMaxEntries
    MaxBody,        \* captureMaxBodyBytes
    MaxTotal,       \* captureMaxTotal
    MaxListeners,   \* captureMaxListeners
    MaxHooks,     \* bound: hooks, commands and restarts
    NoAnswer

VARIABLES
    capture,        \* trafficCapture
    view,           \* captureState of the page: its rows, its cursor, the answers under way; and history
    hooks

captureVars == <<capture, view, hooks>>

ASSUME CaptureAssumption ==
    /\ {MaxEntries, MaxTotal, MaxBody} \subseteq Nat \ {0}
    /\ MaxListeners \in Nat
    /\ NoUpstream \notin Upstreams

SmallerOf(a, b) == IF a < b THEN a ELSE b
-----------------------------------------------------------------------------
Numbers == {capture.entries[i].seq : i \in DOMAIN capture.entries}
At(entries, seq) == CHOOSE i \in DOMAIN entries : entries[i].seq = seq
EntryOf(s, id) == s.entries[At(s.entries, s.inflight[id])]
Kept(entry) == entry.request + entry.upstream + entry.response
BytesOf(entries) ==
    LET sum[n \in 0..Len(entries)] == IF n = 0 THEN 0 ELSE sum[n - 1] + entries[n].bytes
    IN sum[Len(entries)]

(* Too many entries or bytes: the oldest go, in flight or not, the last one never. *)
Fits(s, n) == Len(s.entries) - n <= MaxEntries /\ s.total - BytesOf(SubSeq(s.entries, 1, n)) <= MaxTotal
Drops(s) == Min({n \in 0..Len(s.entries) - 1 : n = Len(s.entries) - 1 \/ Fits(s, n)})
EvictedFromList(s) ==       \* the request keeps pointing at its evicted entry
    LET n == Drops(s)
    IN [s EXCEPT !.entries = SubSeq(@, n + 1, Len(@)), !.total = @ - BytesOf(SubSeq(s.entries, 1, n))]
Evicted(s) ==
    LET n == Drops(s)
        gone == {s.entries[i].seq : i \in 1..n}
    IN [s EXCEPT !.entries = SubSeq(@, n + 1, Len(@)),
                 !.total = @ - BytesOf(SubSeq(s.entries, 1, n)),
                 !.inflight = [id \in Requests |-> IF @[id] \in gone THEN 0 ELSE @[id]]]

(* touchLocked *)
Unnumbered(s, entry, delta) ==      \* the page is not told of the change
    Evicted([s EXCEPT !.entries[At(s.entries, entry.seq)] = [entry EXCEPT !.bytes = @ + delta],
                      !.total = @ + delta, !.revision = @ + 1])
Touched(s, entry, delta) ==
    LET told == [entry EXCEPT !.bytes = @ + delta, !.revision = s.revision + 1] IN
    Evicted([s EXCEPT !.entries[At(s.entries, entry.seq)] = told, !.total = @ + delta, !.revision = @ + 1])
-----------------------------------------------------------------------------
Leased(s) == IF s.expired THEN [s EXCEPT !.listeners = [a \in Upstreams |-> "off"]] ELSE s

(* A retry that leaves the account of its entry starts over. *)
MovedAway(s, id, account) ==
    IF s.inflight[id] # 0 /\ EntryOf(s, id).account # account
    THEN Touched([s EXCEPT !.inflight[id] = 0], [EntryOf(s, id) EXCEPT !.moved = TRUE], 0)
    ELSE s

BlankEntry(seq, id, account) ==
    [seq |-> seq, revision |-> 0, id |-> id, account |-> account, bytes |-> 0, request |-> 0,
     upstream |-> 0, response |-> 0, from |-> {}, moved |-> FALSE, done |-> FALSE]

(* observeRequest: a retry on the same account takes its entry over. *)
ObserveRequest(id, account, rejected) ==
    LET met == MovedAway(capture, id, account)
        known == met.inflight[id] # 0
        active == IF known THEN met ELSE Leased(met)
        opened == IF known THEN active
                  ELSE [active EXCEPT !.seq = @ + 1,
                                      !.entries = Append(@, BlankEntry(active.seq + 1, id, account)),
                                      !.inflight[id] = active.seq + 1]
        old == EntryOf(opened, id)
        answer == IF rejected THEN 1 ELSE 0
        entry == [BlankEntry(old.seq, id, account) EXCEPT !.bytes = old.bytes, !.request = 1,
                                                     !.response = answer]
    IN capture' = IF ~known /\ active.listeners[account] # "on" THEN active
                  ELSE Touched(opened, entry, 1 + answer - old.bytes)

(* observeResponse: one chunk, or a whole body that replaces what is there. The first response
   also brings the body the host sent upstream. *)
FromItsAccount(entry, account) == account \in {NoUpstream, entry.account}
ObserveResponse(id, account, stream) ==
    /\ capture.inflight[id] # 0
    /\ LET old == EntryOf(capture, id)
           upstream == IF old.upstream = 0 THEN 1 ELSE old.upstream
           response == IF stream THEN SmallerOf(old.response + 1, MaxBody) ELSE 1
           entry == [old EXCEPT !.upstream = upstream, !.response = response,
                                !.from = @ \cup ({account} \ {NoUpstream})]
       IN /\ FromItsAccount(old, account)
          /\ capture' = Touched(capture, entry, upstream + response - old.upstream - old.response)

ObserveCompletion(id) ==
    /\ capture.inflight[id] # 0
    /\ capture' = Touched([capture EXCEPT !.inflight[id] = 0], [EntryOf(capture, id) EXCEPT !.done = TRUE], 0)
-----------------------------------------------------------------------------
(* Every listener shares one lease, which polls renew. *)
Watch(account, paused) ==
    LET active == Leased(capture) IN
    /\ \/ active.listeners[account] # "off"
       \/ Cardinality({a \in Upstreams : active.listeners[a] # "off"}) < MaxListeners
    /\ capture' = [active EXCEPT !.listeners[account] = IF paused THEN "paused" ELSE "on", !.expired = FALSE]

StopWatching(accounts) ==
    capture' = Leased([capture EXCEPT !.listeners = [a \in Upstreams |-> IF a \in accounts THEN "off" ELSE @[a]]])

Clear ==
    capture' = Leased([capture EXCEPT !.entries = <<>>, !.total = 0, !.inflight = [id \in Requests |-> 0],
                                      !.revision = @ + 1])

(* No poll for the length of the lease. *)
Expire == capture' = [capture EXCEPT !.expired = TRUE]
-----------------------------------------------------------------------------
Summary(entry) == [seq |-> entry.seq, size |-> entry.response, moved |-> entry.moved, done |-> entry.done]
PageAnswer(s, since) ==
    [rows |-> {Summary(s.entries[i]) : i \in {j \in DOMAIN s.entries : s.entries[j].revision > since}},
     retained |-> {s.entries[i].seq : i \in DOMAIN s.entries},
     revision |-> s.revision,
     all |-> {Summary(s.entries[i]) : i \in DOMAIN s.entries}]        \* history: what the answer has to convey

Poll ==
    LET active == Leased(capture) IN
    /\ view.answer = NoAnswer
    /\ capture' = active
    /\ UNCHANGED hooks
    /\ view' = [view EXCEPT !.answer = PageAnswer(active, view.cursor)]

(* receiveCapture: what is no longer retained goes, what was sent is merged in. *)
MergedRows(rows, answer) ==
    {r \in rows : r.seq \in answer.retained /\ \A n \in answer.rows : n.seq # r.seq} \cup answer.rows

\* What answers to commands took off the page and the poll does not bring again.
StillTaken(taken, answer) == {seq \in taken \cap answer.retained : \A n \in answer.rows : n.seq # seq}

Receive ==
    /\ view.answer # NoAnswer /\ view.answer.revision >= view.cursor
    /\ view' = [view EXCEPT !.rows = MergedRows(@, view.answer), !.cursor = view.answer.revision,
                           !.answer = NoAnswer, !.taken = StillTaken(@, view.answer),
                           !.restarted = FALSE, !.misled = @ \/ view.restarted]
    /\ UNCHANGED <<capture, hooks>>

(* The cursor belongs to a previous process: start over. *)
StartOver ==
    /\ view.answer # NoAnswer /\ view.answer.revision < view.cursor
    /\ view' = [view EXCEPT !.rows = {}, !.cursor = 0, !.answer = NoAnswer, !.taken = {}, !.restarted = FALSE]
    /\ UNCHANGED <<capture, hooks>>

(* The answer is lost: the page polls again from the same cursor. *)
Lose ==
    /\ view.answer # NoAnswer
    /\ view' = [view EXCEPT !.answer = NoAnswer]
    /\ UNCHANGED <<capture, hooks>>

(* receiveCapture for a command: what its answer does not list goes, the cursor stays.  The page
   then polls anew and ignores a poll under way; a check of the hooks may let that poll go on. A
   clear goes on to drop every row, and its answer lists none. *)
ReceiveCommand(polls) ==
    /\ view.command # NoAnswer /\ (polls => view.command.check)
    /\ LET gone == {r \in view.rows : r.seq \notin view.command.retained}
           answer == IF polls THEN view.answer ELSE NoAnswer
           inStep == view.cursor <= view.command.revision /\ answer = NoAnswer
       IN view' = [view EXCEPT !.rows = @ \ gone, !.answer = answer, !.command = NoAnswer,
                               !.taken = IF inStep THEN @ ELSE @ \cup {r.seq : r \in gone}]
    /\ UNCHANGED <<capture, hooks>>

(* The command failed, or its answer is lost: the page polls anew all the same. *)
LoseCommand ==
    /\ view.command # NoAnswer
    /\ view' = [view EXCEPT !.answer = NoAnswer, !.command = NoAnswer]
    /\ UNCHANGED <<capture, hooks>>
-----------------------------------------------------------------------------
FreshCapture == [entries |-> <<>>, inflight |-> [id \in Requests |-> 0],
          listeners |-> [a \in Upstreams |-> "off"], expired |-> TRUE,
          seq |-> 0, revision |-> 0, total |-> 0]

(* The plugin's process ends, and its answers with it; the page stays open. *)
RestartCapture ==
    /\ ~view.restarted
    /\ capture' = FreshCapture
    /\ view' = [view EXCEPT !.answer = NoAnswer, !.command = NoAnswer, !.restarted = view.cursor > 0]

CaptureInit ==
    /\ capture = FreshCapture
    /\ hooks = 0
    /\ view = [rows |-> {}, cursor |-> 0, answer |-> NoAnswer, command |-> NoAnswer, taken |-> {},
               restarted |-> FALSE, misled |-> FALSE]

Hook ==
    \/ \E id \in Requests, account \in Upstreams, rejected \in BOOLEAN : ObserveRequest(id, account, rejected)
    \/ \E id \in Requests, account \in Upstreams \cup {NoUpstream}, stream \in BOOLEAN : ObserveResponse(id, account, stream)
    \/ \E id \in Requests : ObserveCompletion(id)
Command ==
    \/ \E account \in Upstreams, paused \in BOOLEAN : Watch(account, paused)
    \/ \E accounts \in SUBSET Upstreams : StopWatching(accounts)
    \/ Clear

(* The answer to a command lists what is retained and brings no entries; so does the check whether
   the host has registered the hooks, and the command that saves whether they are wanted. *)
Asked(check) ==
    view' = [view EXCEPT !.command = [retained |-> {capture'.entries[i].seq : i \in DOMAIN capture'.entries},
                                      revision |-> capture'.revision, check |-> check]]

(* The page has one command under way at a time. Bound: so with its checks. *)
PageCommand ==
    /\ view.command = NoAnswer
    /\ \/ Command /\ Asked(FALSE)
       \/ \E check \in BOOLEAN : capture' = Leased(capture) /\ Asked(check)

CaptureNext ==
    \/ hooks < MaxHooks /\ hooks' = hooks + 1 /\ (Hook \/ Command \/ Expire) /\ UNCHANGED view
    \/ hooks < MaxHooks /\ hooks' = hooks + 1 /\ (PageCommand \/ RestartCapture)
    \/ Poll \/ Receive \/ StartOver \/ Lose
    \/ (\E polls \in BOOLEAN : ReceiveCommand(polls)) \/ LoseCommand

CaptureSpec == CaptureInit /\ [][CaptureNext]_captureVars
-----------------------------------------------------------------------------
(* However requests are retried, moved, evicted in flight or cleared, the bytes counted are the
   bytes held, the limits hold, and every request in flight has an entry of its own among those
   retained; no entry holds the response of another account (traffic_capture.go:382-396). *)
CaptureAccounts ==
    /\ capture.total = BytesOf(capture.entries)
    /\ \A i \in DOMAIN capture.entries : capture.entries[i].bytes = Kept(capture.entries[i])
    /\ Len(capture.entries) <= MaxEntries
    /\ capture.total <= MaxTotal \/ Len(capture.entries) = 1
    /\ \A id \in Requests : capture.inflight[id] # 0 =>
         capture.inflight[id] \in Numbers /\ EntryOf(capture, id).id = id /\ ~EntryOf(capture, id).moved
    /\ \A i \in DOMAIN capture.entries : capture.entries[i].from \subseteq {capture.entries[i].account}

(* After a poll's answer the page shows exactly the entries that were retained when it was made, each
   as it then was, although an answer carries only what changed; the answers to the page's commands
   move no cursor, and take a retained entry off it only when a newer poll overtook them or the poll
   goes on; and a restart it can tell by the revision it starts over for (traffic_capture.go:593-632,
   ui.html:8567-8658). *)
PageShowsWhatIsRetained ==
    [][Receive /\ ~view'.misled =>
           view'.rows = {r \in view.answer.all : r.seq \notin view'.taken}]_captureVars
=============================================================================
