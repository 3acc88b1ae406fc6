---------------------------- MODULE ConfigUpload ----------------------------
(* How a page edits large Turn State settings (turnstate/proxy_lists.go, config_upload.go,
   manager.go Update): it reads the pools in parts under one revision, and sends the edited
   settings in chunks, any of which may be repeated, delayed or lost. *)
EXTENDS Naturals, Sequences, FiniteSets

CONSTANTS
    Pages,
    Width,          \* parts of a configuration, each of which a page reads or sends at once
    Contents,       \* configurations
    Ids,            \* upload IDs, in the order they are drawn
    MaxUploads,     \* maxConfigUploads
    NoUpload,
    MaxSaves     \* bound: changes of the settings between two restarts

VARIABLES
    config,         \* Config; its revision token is a hash of it
    revision,       \* configRevision
    uploads,        \* upload IDs to what was staged
    committing,     \* the upload whose commit is validating and saving without m.mu
    page            \* a page: what it read, under which token, its draft and its upload

uploadVars == <<config, revision, uploads, committing, page>>

(* A configuration as its parts, what is staged of one, and a page. *)
Parts == UNION {{content[i] : i \in 1..Width} : content \in Contents}
Upload == [data : Seq(Parts), revision : Nat]
Page == [at : {"reading", "edited"}, token : Seq(Parts), read : Seq(Parts), draft : Seq(Parts), id : Ids \cup {NoUpload}]

ASSUME UploadAssumption ==
    /\ Width \in Nat \ {0} /\ Contents # {} /\ Contents \subseteq [1..Width -> Parts]
    /\ MaxUploads \in Nat /\ Ids \subseteq Nat

NewPage == [at |-> "reading", token |-> <<>>, read |-> <<>>, draft |-> <<>>, id |-> NoUpload]
Staged == {id \in Ids : uploads[id] # NoUpload}
Drawn == {id \in Ids : \E p \in Pages : page[p].id = id} \cup Staged
Install(data) ==
    /\ revision < MaxSaves
    /\ config' = data
    /\ revision' = revision + 1
-----------------------------------------------------------------------------
(* ReadProxyPage: the first part names the token, which later ones must match. *)
SameRevision(p) == page[p].token = config
ReadPart(p) ==
    /\ page[p].at = "reading" /\ Len(page[p].read) < Width
    /\ page' = [page EXCEPT ![p] =
          LET read == page[p].read IN
          IF read = <<>> THEN [page[p] EXCEPT !.token = config, !.read = <<config[1]>>]
          ELSE IF SameRevision(p) THEN [page[p] EXCEPT !.read = Append(read, config[Len(read) + 1])]
          ELSE NewPage]
    /\ UNCHANGED <<config, revision, uploads, committing>>

EditDraft(p, draft) ==
    /\ page[p].at = "reading" /\ Len(page[p].read) = Width
    /\ page' = [page EXCEPT ![p].at = "edited", ![p].draft = draft]
    /\ UNCHANGED <<config, revision, uploads, committing>>

Begin(p, id) ==
    /\ page[p].at = "edited" /\ page[p].id = NoUpload
    /\ id \notin Drawn /\ \A other \in Ids \ Drawn : id <= other
    /\ Cardinality(Staged) < MaxUploads
    /\ uploads' = [uploads EXCEPT ![id] = [data |-> <<>>, revision |-> revision]]
    /\ page' = [page EXCEPT ![p].id = id]
    /\ UNCHANGED <<config, revision, committing>>

AppendedAnyway(data, offset, chunk) ==      \* a repeated chunk is appended again
    IF Len(data) + Len(chunk) <= Width THEN data \o chunk ELSE data

(* AppendConfigUpload takes the next bytes, and exact repetitions of earlier ones. *)
Appended(data, offset, chunk) == IF offset = Len(data) THEN data \o chunk ELSE data

(* A chunk of the page's draft arrives, perhaps late or again. *)
AppendChunk(p, offset, end) ==
    LET id == page[p].id IN
    /\ id # NoUpload /\ uploads[id] # NoUpload
    /\ uploads' = [uploads EXCEPT ![id].data = Appended(@, offset, SubSeq(page[p].draft, offset + 1, end))]
    /\ UNCHANGED <<config, revision, committing, page>>

(* CommitConfigUpload up to the release of m.mu in updateLocked: probeMu and writerMu stay held. *)
BeginCommit(p) ==
    LET id == page[p].id IN
    /\ id # NoUpload /\ uploads[id] # NoUpload /\ committing = NoUpload
    /\ uploads[id].revision = revision
    /\ Len(uploads[id].data) = Width
    /\ committing' = [page |-> p, data |-> uploads[id].data]
    /\ UNCHANGED <<config, revision, uploads, page>>

(* The expected revision matches and the save succeeds; or the upload stays as it is. *)
EndCommit(saved) ==
    LET p == committing.page IN
    /\ committing # NoUpload
    /\ saved => page[p].token = config
    /\ IF saved
       THEN /\ Install(committing.data)
            /\ uploads' = [uploads EXCEPT ![page[p].id] = NoUpload]
            /\ page' = [page EXCEPT ![p] = NewPage]
       ELSE UNCHANGED <<config, revision, uploads, page>>
    /\ committing' = NoUpload

(* Small settings are sent in one call. *)
Put(p) ==
    /\ page[p].at = "edited" /\ page[p].id = NoUpload /\ committing = NoUpload
    /\ page[p].token = config
    /\ Install(page[p].draft)
    /\ page' = [page EXCEPT ![p] = NewPage]
    /\ UNCHANGED <<uploads, committing>>

(* The page gives up, CancelConfigUpload, or the upload expires; a commit under way goes on. *)
GiveUp(p) ==
    /\ page[p].at = "edited" /\ (committing # NoUpload => committing.page # p)
    /\ uploads' = IF page[p].id = NoUpload THEN uploads ELSE [uploads EXCEPT ![page[p].id] = NoUpload]
    /\ page' = [page EXCEPT ![p] = NewPage]
    /\ UNCHANGED <<config, revision, committing>>
Discard(id) ==
    /\ uploads[id] # NoUpload
    /\ uploads' = [uploads EXCEPT ![id] = NoUpload]
    /\ UNCHANGED <<config, revision, committing, page>>
-----------------------------------------------------------------------------
(* A probe removes an exit, or settings without an expected revision are saved. *)
ChangeOtherwise(content) ==
    /\ committing = NoUpload
    /\ Install(content)
    /\ UNCHANGED <<uploads, committing, page>>

(* Configure loads another file; a restart also starts the revisions over. *)
Reload(content, restarts) ==
    /\ committing = NoUpload \/ restarts
    /\ IF restarts THEN config' = content /\ revision' = 0 ELSE Install(content)
    /\ uploads' = [id \in Ids |-> NoUpload]
    /\ committing' = NoUpload
    /\ UNCHANGED page

UploadInit ==
    /\ config = CHOOSE content \in Contents : TRUE
    /\ revision = 0
    /\ uploads = [id \in Ids |-> NoUpload]
    /\ committing = NoUpload
    /\ page = [p \in Pages |-> NewPage]

UploadNext ==
    \/ \E p \in Pages :
          \/ ReadPart(p)
          \/ \E draft \in Contents : EditDraft(p, draft)
          \/ \E id \in Ids : Begin(p, id)
          \/ \E i \in 0..(Width - 1) : \E j \in (i + 1)..Width : AppendChunk(p, i, j)
          \/ BeginCommit(p) \/ Put(p) \/ GiveUp(p)
    \/ \E saved \in BOOLEAN : EndCommit(saved)
    \/ \E id \in Ids : Discard(id)
    \/ \E content \in Contents : ChangeOtherwise(content) \/ \E restarts \in BOOLEAN : Reload(content, restarts)

UploadSpec == UploadInit /\ [][UploadNext]_uploadVars
-----------------------------------------------------------------------------
(* What a page's save installs is its draft, entire and in order, over exactly the settings the
   page had read, part by part, however chunks are repeated or delayed and whoever else saves
   in between (proxy_lists.go:27-30, config_upload.go:67-69). *)
SavesAreWholeAndCurrent ==
    [][committing # NoUpload /\ config' # config /\ revision' # 0 =>
          config' = page[committing.page].draft /\ config = page[committing.page].read]_uploadVars
=============================================================================
