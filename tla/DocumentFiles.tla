---------------------------- MODULE DocumentFiles ----------------------------
(***************************************************************************)
(* Rows and files of BearStack's documents: the import of an upload, the   *)
(* trash, purging, the queue of file deletions and the renderers of        *)
(* previews and thumbnails.  A row changes in a transaction of SQLite, a   *)
(* file by a system call, and nothing changes both.                        *)
(*                                                                         *)
(* Every upload is for the same name in the same month, so that all of     *)
(* them compete for the paths 0, 1, 2, ... ("name", "name-1", "name-2",    *)
(* ...).  The document that an upload creates goes by the upload's name:   *)
(* the ids of documents are never used again (AUTOINCREMENT).              *)
(***************************************************************************)
EXTENDS Naturals

CONSTANTS Uploads,    \* uploads, each at most one document
          Digest,     \* the SHA-256 of an upload's bytes
          Converted,  \* office and text documents: rendered by way of a preview
          MaxFaults   \* bound on crashes and failed calls

ASSUME DocumentsAssumption ==
    /\ Converted \subseteq Uploads
    /\ MaxFaults \in Nat

VARIABLES
    row,       \* documents: "none", "active", "trash" or "purged"
    path,      \* stored_path of the row, and of its job once it is purged
    recorded,  \* whether thumbnail_path of the row is set
    job,       \* document_file_deletions: "none", "pending" or "staged"
    place,     \* where the bytes of an upload are
    derived,   \* the files .previews/<id>.pdf and .thumbnails/<id>.jpg
    quarantine,\* the occupied slots 1, 2, 3 of .purge/<id>
    up, name,  \* where an import is, and the path it tries
    held,      \* who holds the document's gate
    clean,     \* where DeletePurgedDocumentFiles is
    render,    \* where a renderer is
    faults     \* crashes and failed calls so far

vars == <<row, path, recorded, job, place, derived, quarantine, up, name,
          held, clean, render, faults>>
rows == <<row, path, recorded, job>>
files == <<place, derived, quarantine>>
import == <<up, name>>

-----------------------------------------------------------------------------
(* Bytes are in no file, under a stored path, or in slot 0 of a quarantine. *)
Nowhere == [at |-> "nowhere"]
Stored(n) == [at |-> "stored", name |-> n]
Purged(u) == [at |-> "purged", of |-> u]
Places == {Nowhere} \cup [at : {"stored"}, name : Nat] \cup [at : {"purged"}, of : Uploads]

Slots == 0..3
Idle == [phase |-> "idle", slot |-> 0]
CleanStates == [phase : {"idle", "stage", "unlink"}, slot : 0..4]

\* A row that GetDocumentFile finds; the trash is no obstacle to renderers.
HasRow(u) == row[u] \in {"active", "trash"}
Taken(n) == \E v \in Uploads : place[v] = Stored(n)

TypeOK ==
    /\ row \in [Uploads -> {"none", "active", "trash", "purged"}]
    /\ path \in [Uploads -> Nat]
    /\ recorded \in [Uploads -> BOOLEAN]
    /\ job \in [Uploads -> {"none", "pending", "staged"}]
    /\ place \in [Uploads -> Places]
    /\ derived \in [Uploads -> SUBSET {"preview", "thumb"}]
    /\ quarantine \in [Uploads -> SUBSET (1..3)]
    /\ up \in [Uploads -> {"new", "scan", "link", "linked", "undo", "created", "ended", "lost"}]
    /\ name \in [Uploads -> Nat]
    /\ held \in [Uploads -> {"free", "cleaner", "renderer"}]
    /\ clean \in [Uploads -> CleanStates]
    /\ render \in [Uploads -> {"idle", "only", "preview", "thumb", "record"}]
    /\ faults \in 0..MaxFaults

Init ==
    /\ row = [u \in Uploads |-> "none"]
    /\ path = [u \in Uploads |-> 0]
    /\ recorded = [u \in Uploads |-> FALSE]
    /\ job = [u \in Uploads |-> "none"]
    /\ place = [u \in Uploads |-> Nowhere]
    /\ derived = [u \in Uploads |-> {}]
    /\ quarantine = [u \in Uploads |-> {}]
    /\ up = [u \in Uploads |-> "new"]
    /\ name = [u \in Uploads |-> 0]
    /\ held = [u \in Uploads |-> "free"]
    /\ clean = [u \in Uploads |-> Idle]
    /\ render = [u \in Uploads |-> "idle"]
    /\ faults = 0

Fault == faults < MaxFaults /\ faults' = faults + 1

-----------------------------------------------------------------------------
(* The import of an upload, ImportCandidateWithOptions.  Its temporary file *)
(* is not modelled: it goes when the import ends.                           *)

Goto(u, pc) == up' = [up EXCEPT ![u] = pc]
Importing == UNCHANGED <<derived, quarantine, held, clean, render>>

\* FindActiveByChecksum: an active document with the same bytes ends the import.
Duplicate(u) == \E v \in Uploads : row[v] = "active" /\ Digest[v] = Digest[u]

Look(u) ==
    /\ up[u] = "new"
    /\ Goto(u, IF Duplicate(u) THEN "ended" ELSE "scan")
    /\ Importing /\ UNCHANGED <<rows, place, name, faults>>

\* StoredPathPendingDeletion
Reserved(n) == \E v \in Uploads : job[v] # "none" /\ path[v] = n

TryNext(u) == Goto(u, "scan") /\ name' = [name EXCEPT ![u] = @ + 1]

\* The reservation is asked for first; the link is made in another step.
AskReserved(u) ==
    /\ up[u] = "scan"
    /\ \/ Reserved(name[u]) /\ TryNext(u)
       \/ ~Reserved(name[u]) /\ Goto(u, "link") /\ UNCHANGED name
    /\ Importing /\ UNCHANGED <<rows, place, faults>>

\* Variant: the file is renamed to its path whatever is there.
Commit_Overwrites(u) ==
    /\ place' = [v \in Uploads |->
                   IF v = u THEN Stored(name[u])
                   ELSE IF place[v] = Stored(name[u]) THEN Nowhere ELSE place[v]]
    /\ Goto(u, "linked")
    /\ UNCHANGED name

\* commitTempFile: link, or create exclusively, never over a file.
Commit(u) ==
    \/ Taken(name[u]) /\ TryNext(u) /\ UNCHANGED place
    \/ /\ ~Taken(name[u])
       /\ place' = [place EXCEPT ![u] = Stored(name[u])]
       /\ Goto(u, "linked")
       /\ UNCHANGED name

Link(u) ==
    /\ up[u] = "link"
    /\ Commit(u)
    /\ Importing /\ UNCHANGED <<rows, faults>>

\* CreateDocument: one transaction; stored_path is UNIQUE.
Create(u) ==
    /\ up[u] = "linked"
    /\ \A v \in Uploads : HasRow(v) => path[v] # name[u]
    /\ row' = [row EXCEPT ![u] = "active"]
    /\ path' = [path EXCEPT ![u] = name[u]]
    /\ Goto(u, "created")
    /\ Importing /\ UNCHANGED <<recorded, job, place, name, faults>>

\* A query, the link, the transaction or the removal of the file fails.
ImportFails(u) ==
    /\ up[u] \in {"new", "scan", "link", "linked", "undo"}
    /\ Fault
    /\ Goto(u, CASE up[u] = "linked" -> "undo"
                 [] up[u] = "undo"   -> "lost"
                 [] OTHER            -> "ended")
    /\ Importing /\ UNCHANGED <<rows, place, name>>

\* Store.Delete(storedPath) removes what is there by now.
Undo(u) ==
    /\ up[u] = "undo"
    /\ place' = [v \in Uploads |->
                   IF place[v] = Stored(name[u]) THEN Nowhere ELSE place[v]]
    /\ Goto(u, "ended")
    /\ Importing /\ UNCHANGED <<rows, name, faults>>

-----------------------------------------------------------------------------
(* Requests for a document, each one transaction.  Whether a tag protects   *)
(* the document is left open: a protected one sees no request.              *)

Requesting == UNCHANGED <<path, recorded, files, import, held, clean, render, faults>>

SoftDelete(u) ==
    /\ row[u] = "active"
    /\ row' = [row EXCEPT ![u] = "trash"]
    /\ Requesting /\ UNCHANGED job

Restore(u) ==
    /\ row[u] = "trash"
    /\ row' = [row EXCEPT ![u] = "active"]
    /\ Requesting /\ UNCHANGED job

\* Purge for one document, purgeTrash for the trash or what is old in it.
Purge(S) ==
    /\ \A u \in S : row[u] = "trash"
    /\ row' = [u \in Uploads |-> IF u \in S THEN "purged" ELSE row[u]]
    /\ job' = [u \in Uploads |-> IF u \in S THEN "pending" ELSE job[u]]
    /\ Requesting

-----------------------------------------------------------------------------
(* DeletePurgedDocumentFiles: called by the request that purged, by the     *)
(* retention loop and every minute for all pending jobs.                    *)

Phase(u, p, i) == clean' = [clean EXCEPT ![u] = [phase |-> p, slot |-> i]]
At(u, p) == held[u] = "cleaner" /\ clean[u].phase = p
Cleaning == UNCHANGED <<row, path, recorded, import, render>>

\* Variant: the phase of an earlier attempt is not looked at.
CleanBegin_Restages(u) ==
    /\ held[u] = "free"
    /\ job[u] # "none"
    /\ held' = [held EXCEPT ![u] = "cleaner"]
    /\ Phase(u, "stage", 0)
    /\ Cleaning /\ UNCHANGED <<job, files, faults>>

\* AcquireDocumentFiles, then FileDeletion; a purged document without a job returns.
CleanBegin(u) ==
    /\ held[u] = "free"
    /\ job[u] # "none"
    /\ held' = [held EXCEPT ![u] = "cleaner"]
    /\ Phase(u, IF job[u] = "staged" THEN "unlink" ELSE "stage", 0)
    /\ Cleaning /\ UNCHANGED <<job, files, faults>>

\* StageDeletion of the original: a full slot is left alone, and so is a missing file.
StageOriginal(u) ==
    place' = IF \E v \in Uploads : place[v] = Purged(u) THEN place
             ELSE [v \in Uploads |-> IF place[v] = Stored(path[u]) THEN Purged(u) ELSE place[v]]

\* Variant: only the recorded thumbnail is removed.
FileOf_Recorded(u, i) == CASE i = 1 -> IF recorded[u] THEN {"thumb"} ELSE {}
                           [] i = 2 -> {"preview"}
                           [] i = 3 -> {}

\* The derived file of a slot: the recorded thumbnail, the preview, the thumbnail.
FileOf(u, i) == CASE i = 1 -> IF recorded[u] THEN {"thumb"} ELSE {}
                  [] i = 2 -> {"preview"}
                  [] i = 3 -> {"thumb"}

StageDerived(u, i) ==
    LET moved == IF i \in quarantine[u] THEN {} ELSE FileOf(u, i) \cap derived[u]
    IN /\ derived' = [derived EXCEPT ![u] = @ \ moved]
       /\ quarantine' = [quarantine EXCEPT ![u] = IF moved = {} THEN @ ELSE @ \cup {i}]

Stage(u) ==
    /\ At(u, "stage")
    /\ clean[u].slot \in Slots
    /\ \/ clean[u].slot = 0 /\ StageOriginal(u) /\ UNCHANGED <<derived, quarantine>>
       \/ clean[u].slot # 0 /\ StageDerived(u, clean[u].slot) /\ UNCHANGED place
    /\ Phase(u, "stage", clean[u].slot + 1)
    /\ Cleaning /\ UNCHANGED <<job, held, faults>>

MarkStaged(u) ==
    /\ At(u, "stage")
    /\ clean[u].slot = 4
    /\ job' = [job EXCEPT ![u] = "staged"]
    /\ Phase(u, "unlink", 0)
    /\ Cleaning /\ UNCHANGED <<files, held, faults>>

Unlink(u) ==
    /\ At(u, "unlink")
    /\ clean[u].slot \in Slots
    /\ place' = IF clean[u].slot = 0
                THEN [v \in Uploads |-> IF place[v] = Purged(u) THEN Nowhere ELSE place[v]]
                ELSE place
    /\ quarantine' = [quarantine EXCEPT ![u] = @ \ {clean[u].slot}]
    /\ Phase(u, "unlink", clean[u].slot + 1)
    /\ Cleaning /\ UNCHANGED <<job, derived, held, faults>>

Release(u) == held' = [held EXCEPT ![u] = "free"]

\* CompleteFileDeletion, then the deferred release.
Complete(u) ==
    /\ At(u, "unlink")
    /\ clean[u].slot = 4
    /\ job' = [job EXCEPT ![u] = "none"]
    /\ clean' = [clean EXCEPT ![u] = Idle]
    /\ Release(u)
    /\ Cleaning /\ UNCHANGED <<files, faults>>

\* A cancelled request, a failed call: the job stays for the next attempt.
CleanFails(u) ==
    /\ held[u] = "cleaner"
    /\ Fault
    /\ clean' = [clean EXCEPT ![u] = Idle]
    /\ Release(u)
    /\ Cleaning /\ UNCHANGED <<job, files>>

-----------------------------------------------------------------------------
(* Renderers: Ensure for thumbnails, EnsureOfficePreview for previews.      *)

Rendering == UNCHANGED <<row, path, job, place, quarantine, import, clean>>
Turn(u, pc) == render' = [render EXCEPT ![u] = pc]

\* The row is read once the gate is held; a purged document is not rendered.
MayRender(u) == held[u] = "free" /\ HasRow(u)

FirstStep(u) == IF "thumb" \in derived[u] THEN "record"
                ELSE IF u \in Converted /\ "preview" \notin derived[u] THEN "preview"
                ELSE "thumb"

RenderBegin(u) ==
    /\ MayRender(u)
    /\ ~(recorded[u] /\ "thumb" \in derived[u])
    /\ held' = [held EXCEPT ![u] = "renderer"]
    /\ Turn(u, FirstStep(u))
    /\ Rendering /\ UNCHANGED <<recorded, derived, faults>>

PreviewBegin(u) ==
    /\ MayRender(u)
    /\ u \in Converted /\ "preview" \notin derived[u]
    /\ held' = [held EXCEPT ![u] = "renderer"]
    /\ Turn(u, "only")
    /\ Rendering /\ UNCHANGED <<recorded, derived, faults>>

\* Converting needs the original; a call for the preview alone ends here.
WritePreview(u) ==
    /\ Taken(path[u])
    /\ derived' = [derived EXCEPT ![u] = @ \cup {"preview"}]
    /\ \/ render[u] = "preview" /\ Turn(u, "thumb") /\ UNCHANGED held
       \/ render[u] = "only" /\ Turn(u, "idle") /\ Release(u)
    /\ Rendering /\ UNCHANGED <<recorded, faults>>

\* The thumbnail is rendered beside its target and renamed.
WriteThumb(u) ==
    /\ render[u] = "thumb"
    /\ IF u \in Converted THEN "preview" \in derived[u] ELSE Taken(path[u])
    /\ derived' = [derived EXCEPT ![u] = @ \cup {"thumb"}]
    /\ Turn(u, "record")
    /\ Rendering /\ UNCHANGED <<recorded, held, faults>>

\* UpdateThumbnailPath, which fails when the row has gone.
Record(u) ==
    /\ render[u] = "record"
    /\ recorded' = [recorded EXCEPT ![u] = HasRow(u) \/ @]
    /\ Turn(u, "idle")
    /\ Release(u)
    /\ Rendering /\ UNCHANGED <<derived, faults>>

\* Variant: a renderer that fails keeps the gate.
RenderFails_KeepsGate(u) ==
    /\ render[u] # "idle"
    /\ Fault
    /\ Turn(u, "idle")
    /\ Rendering /\ UNCHANGED <<recorded, derived, held>>

RenderFails(u) ==
    /\ render[u] # "idle"
    /\ Fault
    /\ Turn(u, "idle")
    /\ Release(u)
    /\ Rendering /\ UNCHANGED <<recorded, derived>>

-----------------------------------------------------------------------------
\* Everything in memory is lost; an import in flight is not taken up again.
Crash ==
    /\ Fault
    /\ up' = [u \in Uploads |-> IF up[u] \in {"new", "created", "ended"} THEN up[u] ELSE "lost"]
    /\ held' = [u \in Uploads |-> "free"]
    /\ clean' = [u \in Uploads |-> Idle]
    /\ render' = [u \in Uploads |-> "idle"]
    /\ UNCHANGED <<rows, files, name>>

Import(u) == Look(u) \/ AskReserved(u) \/ Link(u) \/ Create(u) \/ ImportFails(u) \/ Undo(u)
Clean(u) == CleanBegin(u) \/ Stage(u) \/ MarkStaged(u) \/ Unlink(u) \/ Complete(u)
Render(u) == WritePreview(u) \/ WriteThumb(u) \/ Record(u)
RequestRender(u) == RenderBegin(u) \/ PreviewBegin(u)

\* Everything is purged: nothing remains to be asked for.
Finished ==
    /\ \A u \in Uploads : /\ row[u] \in {"none", "purged"} /\ job[u] = "none"
                          /\ up[u] \in {"created", "ended", "lost"} /\ held[u] = "free"
    /\ UNCHANGED vars

Next ==
    \/ \E u \in Uploads : Import(u) \/ SoftDelete(u) \/ Restore(u)
    \/ \E S \in SUBSET Uploads \ {{}} : Purge(S)
    \/ \E u \in Uploads : Clean(u) \/ CleanFails(u)
    \/ \E u \in Uploads : Render(u) \/ RequestRender(u) \/ RenderFails(u)
    \/ Crash
    \/ Finished

Spec == Init /\ [][Next]_vars

\* The retry loop comes back to every job, the gate's waiters queue up, and
\* an import or a renderer goes on until it is done or a call fails.
Fairness ==
    \A u \in Uploads :
        /\ SF_vars(CleanBegin(u))
        /\ WF_vars(Stage(u) \/ MarkStaged(u) \/ Unlink(u) \/ Complete(u))
        /\ WF_vars(Render(u))

FairSpec == Spec /\ Fairness

-----------------------------------------------------------------------------
(* A document, active or in the trash, has its file: the bytes that were    *)
(* imported are under the path of its row.                                  *)
RowsHaveFiles ==
    \A u \in Uploads : HasRow(u) => place[u] = Stored(path[u])

(* A cleanup takes its own document's file and no other: in the quarantine  *)
(* of a document are only its own bytes, whoever uses the path meanwhile.   *)
QuarantineIsOwn ==
    \A u, v \in Uploads : place[v] = Purged(u) => u = v

(* While a renderer is at work on a document the original stays in place,   *)
(* though the document may be purged under it.                              *)
RendererSeesOriginal ==
    \A u \in Uploads : render[u] # "idle" => place[u] = Stored(path[u])

(* Once the job of a purged document is completed nothing of it is left:    *)
(* no original, no preview, no thumbnail, nothing in quarantine, also when  *)
(* a renderer was at work during the purge.                                 *)
PurgedLeavesNothing ==
    \A u \in Uploads : row[u] = "purged" /\ job[u] = "none" =>
        /\ place[u] = Nowhere
        /\ derived[u] = {} /\ quarantine[u] = {}

(* A row that records a thumbnail has one on disk.                          *)
RecordedThumbnailExists ==
    \A u \in Uploads : HasRow(u) /\ recorded[u] => "thumb" \in derived[u]

(* An import that reports an error or a duplicate leaves no file behind;    *)
(* only the end of the process does, or a removal that fails as well.       *)
EndedLeavesNothing ==
    \A u \in Uploads : up[u] = "ended" => place[u] = Nowhere

(* Nobody removes another's bytes: they leave their place only through the  *)
(* deletion of their own document or the undoing of their own import.       *)
OnlyOwnBytesGo ==
    [][\A u \in Uploads : place[u] # Nowhere /\ place'[u] # place[u] =>
          job[u] # "none" \/ up[u] = "undo"]_vars

(* The inductive invariant, one document at a time.                         *)

\* An import has a file only between its link and its end, and a row only at the end.
ImportState(u) ==
    /\ row[u] = "none" <=> up[u] # "created"
    /\ up[u] \in {"new", "scan", "link", "ended"} => place[u] = Nowhere
    /\ up[u] \in {"linked", "undo"} => place[u] = Stored(name[u])
    /\ up[u] = "lost" => place[u] = Nowhere \/ place[u].at = "stored"

\* Where a document's bytes are follows from its row and its job.
BytesState(u) ==
    /\ row[u] # "purged" => job[u] = "none"
    /\ HasRow(u) => place[u] = Stored(path[u])
    /\ job[u] = "pending" => place[u] \in {Stored(path[u]), Purged(u)}
    /\ job[u] = "staged" => place[u] \in {Purged(u), Nowhere}
    /\ row[u] = "purged" /\ job[u] = "none" => place[u] = Nowhere

\* What is in quarantine is there no more, and nobody puts it there again.
DerivedState(u) ==
    /\ row[u] = "none" => derived[u] = {} /\ quarantine[u] = {} /\ ~recorded[u]
    /\ HasRow(u) \/ place[u] = Stored(path[u]) => quarantine[u] = {}
    /\ 2 \in quarantine[u] => "preview" \notin derived[u]
    /\ {1, 3} \cap quarantine[u] # {} => "thumb" \notin derived[u]
    /\ job[u] = "staged" => derived[u] = {}
    /\ row[u] = "purged" /\ job[u] = "none" => derived[u] = {} /\ quarantine[u] = {}
    /\ HasRow(u) /\ recorded[u] => "thumb" \in derived[u]

\* The gate is held by whoever is at work.
GateState(u) ==
    /\ held[u] = "cleaner" <=> clean[u].phase # "idle"
    /\ held[u] = "renderer" <=> render[u] # "idle"

\* A cleanup has dealt with the slots below the one it is at.
CleanState(u) ==
    /\ clean[u].phase = "stage" =>
         /\ job[u] = "pending"
         /\ clean[u].slot > 0 => place[u] = Purged(u)
         /\ clean[u].slot > 2 => "preview" \notin derived[u]
         /\ clean[u].slot > 3 => "thumb" \notin derived[u]
    /\ clean[u].phase = "unlink" =>
         /\ job[u] = "staged"
         /\ clean[u].slot > 0 => place[u] = Nowhere
         /\ \A i \in quarantine[u] : i >= clean[u].slot

\* A renderer has the original before it until it lets go of the gate.
RenderState(u) ==
    /\ render[u] # "idle" => row[u] # "none" /\ place[u] = Stored(path[u])
    /\ render[u] = "record" => "thumb" \in derived[u]

DocumentState(u) ==
    /\ ImportState(u) /\ BytesState(u) /\ DerivedState(u)
    /\ GateState(u) /\ CleanState(u) /\ RenderState(u)

\* Links are exclusive: no two uploads have their bytes under one path.
PathsAreExclusive ==
    \A u, v \in Uploads : place[u] = place[v] /\ place[u].at = "stored" => u = v

(* The inductive invariant: bytes, rows, jobs and derived files belong to   *)
(* each other as the steps of imports, cleanups and renderers leave them.   *)
DInv == TypeOK /\ PathsAreExclusive /\ QuarantineIsOwn /\ \A u \in Uploads : DocumentState(u)

(* Every purge is carried through: its job is completed in the end.         *)
EveryPurgeEnds ==
    \A u \in Uploads : []<>(job[u] = "none")
=============================================================================
