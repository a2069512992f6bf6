------------------------------ MODULE PhotoIndex -------------------------------
(***************************************************************************)
(* PhotoIndex: the index of the photo library.  Albums are folders with at *)
(* most one photo.  They are changed from outside, and the drive may be    *)
(* gone for a while.  A rebuild walks the albums twice: to recognize what  *)
(* was moved, what has come back and what was changed, and then to write   *)
(* rows for what is there and keep aside, for a time, what is not.  In the *)
(* meantime requests look at albums, and so write rows too, and set tags.  *)
(***************************************************************************)
EXTENDS Integers, FiniteSets

CONSTANTS
    AlbumNames,   \* names that an album has had or may get
    Contents,     \* bytes of photos, told apart by their fingerprint
    Libraries,    \* contents of the albums when the process starts
    MaxEvents,    \* bound: changes on the drive, failures, edits and restarts
    NoDir, NoFile, NoRow, NoFace, NoEntity, NoSign,
    Unread        \* no content: a fingerprint that is not known, or a row to be read again

VARIABLES
    drive,        \* whether the drive is there, and the albums on it
    db,           \* rows, entities with what is kept of them, faces, folder scans
    seen,         \* photo_identity_scan, which outlives the process
    run,          \* the rebuild
    request,
    clock,        \* events so far; gives times of change and names of tags
    steady,       \* history: what has been on the drive since the rebuild began
    late          \* history: rows of photos written otherwise than the scan of the album says

vars == <<drive, db, seen, run, request, clock, steady, late>>

Objects == AlbumNames \X {"folder", "photo"}
Folder(a) == <<a, "folder">>
Photo(a) == <<a, "photo">>
AlbumOf(o) == o[1]
IsPhoto(o) == o[2] = "photo"

\* Photos and albums on the drive, rows of the index, faces and identities.
Stamps == 0 .. MaxEvents
Files == [content : Contents, changed : Stamps]
Dirs == [changed : Stamps, marker : BOOLEAN, file : Files \cup {NoFile}]
Rows == [tags : Stamps, found : Stamps, private : BOOLEAN, content : Contents \cup {Unread}, changed : Stamps]
Faces == [hash : Contents, changed : Stamps, review : BOOLEAN, owned : BOOLEAN, held : BOOLEAN]
Entities == [missing : 0 .. 2, manual : BOOLEAN, print : Contents \cup {Unread}, changed : Stamps,
             kept : Rows \cup {NoRow}, wanted : Stamps]
Signs == [changed : Stamps, file : Stamps \cup {NoFile}]

ASSUME PhotoAssumption ==
    /\ IsFiniteSet(AlbumNames) /\ MaxEvents \in Nat /\ Unread \notin Contents
    /\ Libraries \subseteq [AlbumNames -> Contents \cup {NoDir}] /\ NoDir \notin Contents
    /\ NoDir \notin Dirs \cup [file : Files \cup {NoFile}]
    /\ NoFile \notin Files \cup Stamps /\ NoRow \notin Rows /\ NoFace \notin Faces
    /\ NoEntity \notin Entities /\ NoSign \notin Signs

-----------------------------------------------------------------------------
(* The drive                                                                *)

\* ReadDir of the root: without the drive, an empty folder.
Names == IF drive.mounted THEN {a \in AlbumNames : drive.album[a] # NoDir} ELSE {}
Dir(a) == drive.album[a]
Holds(d, o) == d.album[AlbumOf(o)] # NoDir /\ (IsPhoto(o) => d.album[AlbumOf(o)].file # NoFile)
Visible(o) == drive.mounted /\ Holds(drive, o)

External(d) ==
    /\ clock < MaxEvents
    /\ clock' = clock + 1
    /\ drive' = d
    /\ steady' = {o \in steady : Holds(d, o)}
    /\ UNCHANGED <<db, seen, run, request, late>>

Unmount == drive.mounted /\ External([drive EXCEPT !.mounted = FALSE])
Mount == /\ ~drive.mounted /\ drive' = [drive EXCEPT !.mounted = TRUE]
         /\ UNCHANGED <<db, seen, run, request, clock, steady, late>>

\* Albums and files come, go, are renamed and are written again, sometimes
\* with the old time of change.
NewDir(content) == [changed |-> clock + 1, marker |-> FALSE, file |-> [content |-> content, changed |-> clock + 1]]
RootChange(albums) == External([drive EXCEPT !.album = albums, !.changed = clock + 1])
AlbumChange(a, dir) == External([drive EXCEPT !.album[a] = dir])

AddAlbum(a, content) == drive.mounted /\ Dir(a) = NoDir /\ RootChange([drive.album EXCEPT ![a] = NewDir(content)])
RemoveAlbum(a) == a \in Names /\ RootChange([drive.album EXCEPT ![a] = NoDir])
RenameAlbum(a, b) == /\ a \in Names /\ Dir(b) = NoDir
                     /\ RootChange([drive.album EXCEPT ![a] = NoDir, ![b] = Dir(a)])
RemovePhoto(a) == /\ a \in Names /\ Dir(a).file # NoFile
                  /\ AlbumChange(a, [Dir(a) EXCEPT !.file = NoFile, !.changed = clock + 1])
WritePhoto(a, content) ==
    /\ a \in Names
    /\ \/ /\ Dir(a).file = NoFile
          /\ AlbumChange(a, [NewDir(content) EXCEPT !.marker = Dir(a).marker])
       \/ /\ Dir(a).file # NoFile /\ Dir(a).file.content # content
          /\ \E changed \in {Dir(a).file.changed, clock + 1} :
                AlbumChange(a, [Dir(a) EXCEPT !.file = [content |-> content, changed |-> changed]])
MarkAlbum(a) == a \in Names /\ AlbumChange(a, [Dir(a) EXCEPT !.marker = ~@, !.changed = clock + 1])

World == \/ Unmount \/ Mount
         \/ \E a \in AlbumNames : \/ RemoveAlbum(a) \/ RemovePhoto(a) \/ MarkAlbum(a)
                                  \/ \E b \in AlbumNames : RenameAlbum(a, b)
                                  \/ \E content \in Contents : AddAlbum(a, content) \/ WritePhoto(a, content)

-----------------------------------------------------------------------------
(* The database.  Every operator below is what some statements, and the     *)
(* triggers they fire, make of it; a transaction combines them.             *)
(*   row: tags, the tags the search finds it by, whether only an            *)
(*     administrator sees it, and the file as it was read                   *)
(*   entity: how long it has been missing (2: seven days), whether tags     *)
(*     were edited, the fingerprint, and the row that is kept of it; wanted *)
(*     is history: the tags that were set last                              *)
(*   face, hidden: of the photo of an album, the face and the face that is  *)
(*     kept; owned when entity_id, and held when retention_id, is that of   *)
(*     the identity which the path has now                                  *)

Row(tags, private, file) ==
    [tags |-> tags, found |-> tags, private |-> private,
     content |-> IF file = NoFile THEN Unread ELSE file.content, changed |-> IF file = NoFile THEN 0 ELSE file.changed]
Newcomer(tags) == [missing |-> 0, manual |-> FALSE, print |-> Unread, changed |-> 0, kept |-> NoRow, wanted |-> tags]
Missing(d, o) == d.entity[o] # NoEntity /\ d.entity[o].missing > 0

\* identity_media_index_insert
AddRow(d, o, row) == [d EXCEPT !.row[o] = row, !.entity[o] = IF @ = NoEntity THEN Newcomer(row.tags) ELSE @]

\* photo_identity_private and photo_identity_public: private has what the
\* objects become.
Proven(entity, face, changed) ==
    face.owned /\ entity.print # Unread /\ entity.print = face.hash /\ entity.changed = changed
Doubted(face, doubt) == IF face # NoFace /\ doubt THEN [face EXCEPT !.review = TRUE] ELSE face
Hidden(face) == [face EXCEPT !.held = face.owned]
Shown(entity, face, changed) ==
    [face EXCEPT !.held = FALSE, !.review = @ \/ (face.changed # changed /\ ~Proven(entity, face, changed))]
SetPrivate(d, objects, private) ==
    LET turns(a) == Photo(a) \in objects /\ d.row[Photo(a)].private # private[a]
        hides(a) == turns(a) /\ private[a] /\ d.face[a] # NoFace
        shows(a) == turns(a) /\ ~private[a] /\ d.hidden[a] # NoFace
    IN  [d EXCEPT
            !.row = [o \in Objects |-> IF o \in objects THEN [@[o] EXCEPT !.private = private[AlbumOf(o)]] ELSE @[o]],
            !.face = [a \in AlbumNames |-> IF hides(a) THEN NoFace
                        ELSE IF shows(a) THEN Shown(d.entity[Photo(a)], d.hidden[a], d.row[Photo(a)].changed) ELSE @[a]],
            !.hidden = [a \in AlbumNames |-> IF hides(a) THEN Hidden(d.face[a]) ELSE IF shows(a) THEN NoFace ELSE @[a]]]
Everywhere(private) == [a \in AlbumNames |-> private]

\* saveMediaBatchWithExisting: the tags of the row stay, and are what the
\* search is told.
\* Variant: the search is told the tags of the photo as it was collected.
SavePhoto_Collected(d, a, file, private) ==
    LET o == Photo(a)
    IN  IF d.row[o] = NoRow THEN AddRow(d, o, Row(0, private, file))
        ELSE SetPrivate([d EXCEPT !.row[o] = [Row(d.row[o].tags, d.row[o].private, file) EXCEPT !.found = 0]], {o}, Everywhere(private))

SavePhoto(d, a, file, private) ==
    LET o == Photo(a)
        doubt == d.row[o].changed # file.changed /\ ~Proven(d.entity[o], d.face[a], file.changed)
    IN  IF d.row[o] = NoRow THEN AddRow(d, o, Row(0, private, file))
        ELSE SetPrivate([d EXCEPT !.row[o] = Row(d.row[o].tags, d.row[o].private, file),
                                  !.face[a] = IF @ = NoFace THEN @ ELSE Doubted(@, doubt)], {o}, Everywhere(private))

SaveFolder(d, a, private, tags) ==
    IF d.row[Folder(a)] = NoRow THEN AddRow(d, Folder(a), Row(tags, private, NoFile))
    ELSE SetPrivate(d, {Folder(a)}, Everywhere(private))

\* setMediaTagsTx; identity_media_index_tags.  What is set on a row whose
\* entity is missing is no part of what is kept of it.
Tagged(row, tags) == [row EXCEPT !.tags = tags, !.found = tags]
Edited(entity, edit, tags) ==
    [entity EXCEPT !.manual = @ \/ edit, !.wanted = IF entity.missing > 0 THEN @ ELSE tags]
SetTags(d, objects, tags) ==
    [d EXCEPT !.row = [o \in Objects |-> IF o \in objects THEN Tagged(@[o], tags) ELSE @[o]],
              !.entity = [o \in Objects |-> IF o \in objects /\ @[o] # NoEntity
                            THEN Edited(@[o], tags # d.row[o].tags, tags) ELSE @[o]]]

\* retainSelectionTx, then the deletions of deleteIndexBatch
Retain(d, o) ==
    IF d.entity[o] = NoEntity \/ Missing(d, o) THEN d
    ELSE [d EXCEPT !.entity[o].missing = 1, !.entity[o].kept = d.row[o],
                   !.hidden[AlbumOf(o)] = IF IsPhoto(o) /\ d.face[AlbumOf(o)] # NoFace
                                          THEN [d.face[AlbumOf(o)] EXCEPT !.held = TRUE] ELSE @]
Discard(d, o) == [d EXCEPT !.row[o] = NoRow, !.face[AlbumOf(o)] = IF IsPhoto(o) THEN NoFace ELSE @]
\* Variant: what was found to be missing is deleted at once.
Drop_AtOnce(d, o) == [Discard(d, o) EXCEPT !.entity[o] = NoEntity]

Drop(d, o) == Discard(Retain(d, o), o)
DropAlbum(d, a) == [Drop(Drop(d, Photo(a)), Folder(a)) EXCEPT !.scanned[a] = NoSign]

\* invalidateIdentityFoldersTx
Unscanned(d, albums) ==
    [d EXCEPT !.scanned = [a \in AlbumNames |-> IF a \in albums THEN NoSign ELSE d.scanned[a]], !.root = NoSign]

\* restoreEntityTx: the faces of a private photo stay where they are.
Restored(d, o) ==
    LET a == AlbumOf(o)
        kept == d.entity[o].kept
        open == IsPhoto(o) /\ ~kept.private /\ d.hidden[a] # NoFace /\ d.hidden[a].held
    IN  Unscanned([d EXCEPT !.row[o] = [kept EXCEPT !.found = kept.tags],
                            !.entity[o].missing = 0, !.entity[o].kept = NoRow,
                            !.hidden[a] = IF open THEN NoFace ELSE @,
                            !.face[a] = IF open THEN [d.hidden[a] EXCEPT !.held = FALSE] ELSE @], {a})

\* purgeEntityTx: faces that are on show, or are kept for another identity,
\* are then nobody's.
Released(face) == IF face # NoFace /\ face.held THEN NoFace ELSE face
Disowned(face) == IF face # NoFace THEN [face EXCEPT !.owned = FALSE] ELSE face
Purged(d, objects) ==
    [d EXCEPT !.entity = [o \in Objects |-> IF o \in objects THEN NoEntity ELSE @[o]],
              !.hidden = [a \in AlbumNames |-> IF Photo(a) \in objects THEN Released(@[a]) ELSE @[a]],
              !.face = [a \in AlbumNames |-> IF Photo(a) \in objects THEN Disowned(@[a]) ELSE @[a]]]

\* relocatePhotoFolder, the transaction: rows, entities and faces of one
\* album get the paths of another, in place of what was there.
Relocated(d, a, b, private) ==
    LET From(o) == <<a, o[2]>>
        moves(o) == AlbumOf(o) = b /\ d.entity[From(o)] # NoEntity
        kept(o) == IF IsPhoto(o) /\ d.entity[From(o)].kept # NoRow
                   THEN [d.entity[From(o)] EXCEPT !.kept.private = private] ELSE d.entity[From(o)]
        moved == [d EXCEPT
            !.entity = [o \in Objects |-> IF moves(o) THEN kept(o) ELSE IF AlbumOf(o) = a THEN NoEntity ELSE @[o]],
            !.row = [o \in Objects |-> IF moves(o) THEN d.row[From(o)] ELSE IF AlbumOf(o) = a THEN NoRow ELSE @[o]],
            !.face = [c \in AlbumNames |-> IF c = a THEN NoFace ELSE IF moves(Photo(c)) THEN d.face[a] ELSE @[c]],
            !.hidden = [c \in AlbumNames |-> IF c = a THEN NoFace ELSE IF ~moves(Photo(c)) THEN @[c]
                                             ELSE IF d.hidden[a] # NoFace THEN d.hidden[a] ELSE Released(@[c])]]
    IN  Unscanned(SetPrivate(moved, {o \in {Folder(b), Photo(b)} : moved.row[o] # NoRow}, Everywhere(private)), {a, b})

Published(d, s) ==
    LET present(a) == s[a] # NoDir /\ s[a].file # NoFile
        here(a) == present(a) /\ d.entity[Photo(a)] # NoEntity /\ ~Missing(d, Photo(a))
        news(a) == here(a) /\ d.entity[Photo(a)].print \notin {Unread, s[a].file.content}
        doubted(a, face) == IF news(a) /\ face # NoFace
                            THEN Doubted(face, face.owned /\ face.hash # s[a].file.content) ELSE face
        settled(a, face) == IF present(a) /\ face # NoFace /\ face.hash = s[a].file.content
                            THEN [face EXCEPT !.review = FALSE] ELSE face
    IN  [d EXCEPT
            !.entity = [o \in Objects |-> LET a == AlbumOf(o) IN
                IF IsPhoto(o) /\ here(a) THEN [@[o] EXCEPT !.print = s[a].file.content, !.changed = s[a].file.changed] ELSE @[o]],
            !.face = [a \in AlbumNames |-> settled(a, doubted(a, @[a]))],
            !.hidden = [a \in AlbumNames |-> doubted(a, @[a])],
            !.row = [o \in Objects |-> IF IsPhoto(o) /\ news(AlbumOf(o)) /\ @[o] # NoRow THEN [@[o] EXCEPT !.content = Unread] ELSE @[o]],
            !.scanned = [a \in AlbumNames |-> IF news(a) THEN NoSign ELSE @[a]]]

-----------------------------------------------------------------------------
(* A rebuild; identityMu is held from its first step to its last            *)

Idle == [at |-> "idle", names |-> {}, left |-> {}, complete |-> TRUE, moves |-> {},
         plan |-> <<>>, cache |-> <<>>, sign |-> <<>>, view |-> <<>>]
End == run' = Idle
OnlyRun == UNCHANGED <<drive, db, seen, request, clock, steady, late>>
Commit(d) == db' = d /\ UNCHANGED <<drive, seen, request, clock, steady, late>>

\* A row of a photo that is written while a scan of its album is on record.
SaysTheSame(row, other) ==
    IF row = NoRow \/ other = NoRow THEN row = other
    ELSE row.changed = other.changed /\ row.private = other.private /\ (row.content = Unread <=> other.content = Unread)
Rewritten(d) == {a \in AlbumNames : db.scanned[a] # NoSign /\ ~SaysTheSame(d.row[Photo(a)], db.row[Photo(a)])}
CommitPhoto(d) ==
    /\ db' = d /\ late' = [late EXCEPT !.record = @ \cup Rewritten(d)]
    /\ UNCHANGED <<drive, seen, request, clock, steady>>

\* A folder or file cannot be read, though it is there.
Failure == clock < MaxEvents /\ clock' = clock + 1 /\ UNCHANGED <<drive, db, seen, request, steady, late>>

\* scanPhotoIdentities: an empty root, where something is known to have been,
\* is no reason to take it all for gone.
Start ==
    /\ run.at = "idle"
    /\ Names = {} => \A o \in Objects : db.entity[o] = NoEntity
    /\ run' = [run EXCEPT !.at = "walk", !.names = Names, !.left = Names]
    /\ steady' = {o \in Objects : Holds(drive, o)}
    /\ UNCHANGED <<drive, db, seen, request, clock, late>>

Walk(a) ==
    /\ run.at = "walk" /\ a \in run.left
    /\ IF a \in Names
       THEN /\ seen' = [seen EXCEPT ![a] = [file |-> Dir(a).file]]
            /\ run' = [run EXCEPT !.left = @ \ {a}]
       ELSE seen' = seen /\ run' = [run EXCEPT !.left = @ \ {a}, !.complete = FALSE]
    /\ UNCHANGED <<drive, db, request, clock, steady, late>>
WalkFails(a) == /\ run.at = "walk" /\ a \in run.left
                /\ run' = [run EXCEPT !.left = @ \ {a}, !.complete = FALSE] /\ Failure

\* recognizePhotoRelocations: a photo that is gone and one with its bytes,
\* each the only one of its kind, in an album that is gone and one that is there.
Scanned(s, o) == s[AlbumOf(o)] # NoDir /\ (IsPhoto(o) => s[AlbumOf(o)].file # NoFile)
Only(S, value) == {x \in S : \A y \in S : value[y] = value[x] => y = x}
Relocations(s) ==
    LET old == {a \in AlbumNames : LET e == db.entity[Photo(a)]
                               IN e # NoEntity /\ e.missing # 2 /\ e.print # Unread /\ ~Scanned(s, Photo(a))}
        hash == [a \in old |-> db.entity[Photo(a)].print]
        new == {a \in AlbumNames : Scanned(s, Photo(a))}
        bytes == [a \in new |-> s[a].file.content]
    IN  {p \in Only(old, hash) \X Only(new, bytes) :
            /\ hash[p[1]] = bytes[p[2]]
            /\ db.entity[Folder(p[1])] # NoEntity /\ s[p[1]] = NoDir}

Walked ==
    /\ run.at = "walk" /\ run.left = {}
    /\ IF run.complete
       THEN /\ seen' = [a \in AlbumNames |-> IF a \in run.names THEN seen[a] ELSE NoDir]
            /\ run' = [run EXCEPT !.at = "relocate", !.moves = Relocations(seen')]
       ELSE seen' = seen /\ End
    /\ UNCHANGED <<drive, db, request, clock, steady, late>>

\* verifyRelocationTarget and prepareRelocationVisibility look at the drive.
Verify(a, b) ==
    /\ run.at = "relocate" /\ <<a, b>> \in run.moves
    /\ \/ /\ a \in Names
          /\ run' = [run EXCEPT !.moves = @ \ {<<a, b>>}]
       \/ a \notin Names /\ ~Visible(Photo(b)) /\ End
       \/ /\ a \notin Names /\ Visible(Photo(b))
          /\ run' = IF Dir(b).file # seen[b].file THEN [run EXCEPT !.moves = @ \ {<<a, b>>}]
                    ELSE [run EXCEPT !.at = "move", !.plan = [from |-> a, to |-> b, entity |-> db.entity[Folder(a)], private |-> Dir(b).marker]]
    /\ OnlyRun

\* relocatePhotoFolder, the transaction.  What was edited at the target, or is
\* kept of it, stays; removeUneditedEntityTx.  A row at the target that has no
\* identity is in the way, and the rebuild fails.
Taken(a, b) ==
    \E o \in Objects : /\ AlbumOf(o) = b /\ db.entity[o] # NoEntity
                       /\ db.entity[o].manual \/ (Missing(db, o) /\ db.entity[<<a, o[2]>>] # NoEntity)
Blocked(b) == \E o \in {Folder(b), Photo(b)} : db.row[o] # NoRow /\ db.entity[o] = NoEntity

Relocate ==
    /\ run.at = "move"
    /\ LET p == run.plan
           next == [run EXCEPT !.at = "relocate", !.plan = <<>>, !.moves = @ \ {<<p.from, p.to>>}]
           conflict == db.entity[Folder(p.from)] # p.entity \/ Taken(p.from, p.to)
       IN  \/ conflict /\ run' = next /\ OnlyRun
           \/ ~conflict /\ Blocked(p.to) /\ End /\ OnlyRun
           \/ ~conflict /\ ~Blocked(p.to) /\ run' = next /\ Commit(Relocated(db, p.from, p.to, p.private))
AllMoved == run.at = "relocate" /\ run.moves = {}

\* restorePresentEntities: a row that is there already makes the insertion,
\* and with it the rebuild, fail.
Back == {o \in Objects : Missing(db, o) /\ Scanned(seen, o)}
Restore(o) ==
    /\ AllMoved /\ o \in Back
    /\ \/ db.row[o] = NoRow /\ run' = run /\ Commit(Restored(db, o))
       \/ db.row[o] # NoRow /\ End /\ OnlyRun
PublishFingerprints ==
    /\ AllMoved /\ Back = {}
    /\ run' = [run EXCEPT !.at = "load"] /\ Commit(Published(db, seen))

\* loadIndexRunCache
LoadCache ==
    /\ run.at = "load"
    /\ run' = [run EXCEPT !.at = "root", !.cache = [root |-> db.root, album |-> [a \in AlbumNames |->
           IF db.row[Folder(a)] = NoRow THEN NoRow ELSE [sign |-> db.scanned[a], private |-> db.row[Folder(a)].private]]]]
    /\ OnlyRun

\* indexDirectoryEntries of the root: albums that are gone are kept aside one
\* by one, then the root is signed.
RootSign == [changed |-> drive.changed, names |-> Names]
Prune == run' = [run EXCEPT !.at = "prune", !.left = {a \in AlbumNames : db.row[Folder(a)] # NoRow} \ Names,
                            !.names = Names, !.sign = RootSign]
\* Variant: an empty root is taken for what it seems to be.
IndexRoot_Trusts == run.at = "root" /\ Prune /\ OnlyRun

IndexRoot ==
    /\ run.at = "root"
    /\ \/ Names = {} /\ End
       \/ /\ Names # {} /\ run.cache.root = RootSign
          /\ run' = [run EXCEPT !.at = "albums", !.left = {a \in AlbumNames : run.cache.album[a] # NoRow}]
       \/ Names # {} /\ run.cache.root # RootSign /\ Prune
    /\ OnlyRun
PruneAlbum(a) ==
    /\ run.at = "prune" /\ a \in run.left
    /\ run' = [run EXCEPT !.left = @ \ {a}] /\ Commit(DropAlbum(db, a))
SignRoot ==
    /\ run.at = "prune" /\ run.left = {}
    /\ run' = [run EXCEPT !.at = "albums", !.left = run.names, !.sign = <<>>] /\ Commit([db EXCEPT !.root = run.sign])

\* indexDirectoryStep of an album: what it read once, it writes in four
\* transactions, the signature last.
NextAlbum(a, complete) == run' = [run EXCEPT !.at = "albums", !.left = @ \ {a}, !.complete = complete, !.view = <<>>]
Fits(row, file, private) == row # NoRow /\ row.changed = file.changed /\ row.content # Unread /\ row.private = private
AlbumSign(a) == [changed |-> Dir(a).changed, file |-> IF Dir(a).file = NoFile THEN NoFile ELSE Dir(a).file.changed]

ReadAlbum(a) ==
    /\ run.at = "albums" /\ a \in run.left
    /\ \/ a \notin Names /\ NextAlbum(a, FALSE)
       \/ /\ a \in Names /\ run.cache.album[a] = [sign |-> AlbumSign(a), private |-> Dir(a).marker]
          /\ NextAlbum(a, run.complete)
       \/ /\ a \in Names /\ run.cache.album[a] # [sign |-> AlbumSign(a), private |-> Dir(a).marker]
          /\ LET fits == Dir(a).file = NoFile \/ Fits(db.row[Photo(a)], Dir(a).file, Dir(a).marker)
             IN  run' = [run EXCEPT !.at = IF fits THEN "folder" ELSE "photo",
                                    !.view = [album |-> a, file |-> Dir(a).file, private |-> Dir(a).marker,
                                              sign |-> AlbumSign(a), new |-> db.row[Photo(a)] = NoRow]]
    /\ OnlyRun
ReadFails(a) == run.at = "albums" /\ a \in run.left /\ NextAlbum(a, FALSE) /\ Failure

\* A row that came since cannot be entered in the search again.
WritePhotos ==
    /\ run.at = "photo"
    /\ LET v == run.view
           late_row == v.new /\ db.row[Photo(v.album)] # NoRow
       IN  \/ late_row /\ NextAlbum(v.album, FALSE) /\ OnlyRun
           \/ ~late_row /\ run' = [run EXCEPT !.at = "folder"] /\ CommitPhoto(SavePhoto(db, v.album, v.file, v.private))
WriteFolder ==
    /\ run.at = "folder"
    /\ run' = [run EXCEPT !.at = "gone"] /\ Commit(SaveFolder(db, run.view.album, run.view.private, 0))
PrunePhotos ==
    /\ run.at = "gone"
    /\ run' = [run EXCEPT !.at = "sign"]
    /\ LET o == Photo(run.view.album)
       IN  CommitPhoto(IF run.view.file = NoFile /\ db.row[o] # NoRow THEN Drop(db, o) ELSE db)
\* With its signature on record an album is as it was read, unless a request
\* wrote the row of its photo after it was read.
SignAlbum ==
    /\ run.at = "sign"
    /\ NextAlbum(run.view.album, run.complete)
    /\ db' = [db EXCEPT !.scanned[run.view.album] = run.view.sign]
    /\ late' = [record |-> IF late.crossed THEN late.record \cup {run.view.album} ELSE late.record \ {run.view.album},
                crossed |-> FALSE]
    /\ UNCHANGED <<drive, seen, request, clock, steady>>

\* finishIdentityScan, only after a rebuild in which all could be read: what
\* has been missing for seven days goes.
FinishScan ==
    /\ run.at = "albums" /\ run.left = {}
    /\ \/ run.complete /\ run' = [run EXCEPT !.at = "purge"] /\ Commit(Published(db, seen))
       \/ ~run.complete /\ End /\ OnlyRun
Purge(o) == /\ run.at = "purge" /\ db.entity[o] # NoEntity /\ db.entity[o].missing = 2
            /\ run' = run /\ Commit(Purged(db, {o}))
Finished == /\ run.at = "purge" /\ \A o \in Objects : db.entity[o] # NoEntity => db.entity[o].missing # 2
            /\ End /\ OnlyRun

Rebuild ==
    \/ Walked \/ Relocate \/ PublishFingerprints \/ LoadCache \/ IndexRoot \/ SignRoot
    \/ WritePhotos \/ WriteFolder \/ PrunePhotos \/ SignAlbum \/ FinishScan \/ Finished
    \/ \E a \in AlbumNames : Walk(a) \/ PruneAlbum(a) \/ ReadAlbum(a) \/ \E b \in AlbumNames : Verify(a, b)
    \/ \E o \in Objects : Restore(o) \/ Purge(o)

-----------------------------------------------------------------------------
(* Requests, which take no lock                                             *)

NoRequest == [at |-> "none"]
Ask(r) == request' = r
OnlyRequest == UNCHANGED <<drive, db, seen, run, clock, steady, late>>
Crosses(d) == /\ run.at \in {"folder", "gone", "sign"}
              /\ ~SaysTheSame(d.row[Photo(run.view.album)], db.row[Photo(run.view.album)])
Write(d) ==
    /\ db' = d
    /\ late' = [record |-> late.record \cup Rewritten(d), crossed |-> late.crossed \/ Crosses(d)]
    /\ UNCHANGED <<drive, seen, run, steady>>
Save(d) == Write(d) /\ clock' = clock
Edit(d) == Write(d) /\ clock < MaxEvents /\ clock' = clock + 1

\* MediaContext: a photo that the index has differently is written to it.
OpenPhoto(a) ==
    /\ request.at = "none" /\ a \in Names /\ Dir(a).file # NoFile
    /\ Ask([at |-> IF Fits(db.row[Photo(a)], Dir(a).file, Dir(a).marker) THEN "tags" ELSE "save",
            album |-> a, file |-> Dir(a).file, private |-> Dir(a).marker])
    /\ OnlyRequest
SaveOpened ==
    /\ request.at = "save"
    /\ Ask([request EXCEPT !.at = "tags"]) /\ Save(SavePhoto(db, request.album, request.file, request.private))

\* SetMediaTagsContext and UpdateMediaTagsContext
TagPhoto ==
    /\ request.at = "tags" /\ db.row[Photo(request.album)] # NoRow
    /\ Ask(NoRequest) /\ Edit(SetTags(db, {Photo(request.album)}, clock + 1))

\* folderFromPath and SetFolderTagsContext
OpenFolder(a) ==
    /\ request.at = "none" /\ a \in Names
    /\ \E at \in {"folder", "folder tags"} :
          Ask([at |-> at, album |-> a, private |-> Dir(a).marker,
               tags |-> IF db.row[Folder(a)] = NoRow THEN 0 ELSE db.row[Folder(a)].tags])
    /\ OnlyRequest
SaveOpenedFolder ==
    /\ request.at = "folder"
    /\ Ask(NoRequest) /\ Save(SaveFolder(db, request.album, request.private, request.tags))
TagFolder ==
    /\ request.at = "folder tags"
    /\ LET o == Folder(request.album)
           saved == SaveFolder(db, request.album, request.private, clock + 1)
       IN  Edit(IF db.row[o] # NoRow THEN SetTags(saved, {o}, clock + 1) ELSE saved)
    /\ Ask(NoRequest)
Leave == request.at \in {"tags", "folder tags"} /\ Ask(NoRequest) /\ OnlyRequest

\* renameTag and deleteTag: the rows that the tag index names.
ChangeTag(tag, name) ==
    LET tagged == {o \in Objects : db.row[o] # NoRow /\ db.row[o].found = tag}
    IN  tag > 0 /\ tagged # {} /\ Edit(SetTags(db, tagged, name)) /\ Ask(request)

\* RefreshFaceVisibility
HideFaces(a) ==
    /\ a \in Names /\ Dir(a).marker /\ db.face[a] # NoFace /\ db.row[Photo(a)] # NoRow /\ ~db.row[Photo(a)].private
    /\ Save(SetPrivate(db, {Photo(a)}, Everywhere(TRUE))) /\ Ask(request)

\* ForgetRetainedPhoto; a folder goes with the photo in it.
Forget(o) ==
    /\ run.at = "idle" /\ Missing(db, o) /\ ~Visible(o)
    /\ LET gone == {x \in Objects : Missing(db, x) /\ (x = o \/ (~IsPhoto(o) /\ x = Photo(AlbumOf(o))))}
       IN  Save(Purged(db, gone))
    /\ Ask(request)

\* Seven days go by.
SevenDays ==
    /\ \E o \in Objects : db.entity[o] # NoEntity /\ db.entity[o].missing = 1
    /\ Save([db EXCEPT !.entity = [o \in Objects |-> IF Missing(db, o) THEN [@[o] EXCEPT !.missing = 2] ELSE @[o]]])
    /\ Ask(request)

\* The process ends at any time; at the next start setupPhotoIdentity and
\* refreshAdminOnlyIndexFlags put in order what they can see.
Restart ==
    LET known == [db EXCEPT !.entity = [o \in Objects |->
                    IF @[o] = NoEntity /\ db.row[o] # NoRow THEN Newcomer(db.row[o].tags) ELSE @[o]]]
        flagged == {o \in Objects : db.row[o] # NoRow /\ AlbumOf(o) \in Names}
        started == SetPrivate(known, flagged, [a \in AlbumNames |-> IF a \in Names THEN Dir(a).marker ELSE FALSE])
    IN  /\ clock < MaxEvents /\ clock' = clock + 1
        /\ run' = Idle /\ Ask(NoRequest)
        /\ db' = started /\ late' = [record |-> late.record \cup Rewritten(started), crossed |-> FALSE]
        /\ UNCHANGED <<drive, seen, steady>>

-----------------------------------------------------------------------------
(* Every photo of a library at the start has one face.                      *)

InitWith(library) ==
    LET file(a) == [content |-> library[a], changed |-> 0]
        there(a) == library[a] # NoDir
    IN  /\ drive = [mounted |-> TRUE, changed |-> 0, album |-> [a \in AlbumNames |->
                      IF there(a) THEN [changed |-> 0, marker |-> FALSE, file |-> file(a)] ELSE NoDir]]
        /\ db = [row |-> [o \in Objects |-> IF ~there(AlbumOf(o)) THEN NoRow
                            ELSE Row(0, FALSE, IF IsPhoto(o) THEN file(AlbumOf(o)) ELSE NoFile)],
                 entity |-> [o \in Objects |-> IF ~there(AlbumOf(o)) THEN NoEntity
                               ELSE IF IsPhoto(o) THEN [Newcomer(0) EXCEPT !.print = library[AlbumOf(o)]] ELSE Newcomer(0)],
                 face |-> [a \in AlbumNames |-> IF ~there(a) THEN NoFace
                             ELSE [hash |-> library[a], changed |-> 0, review |-> FALSE, owned |-> TRUE, held |-> FALSE]],
                 hidden |-> [a \in AlbumNames |-> NoFace],
                 scanned |-> [a \in AlbumNames |-> IF there(a) THEN [changed |-> 0, file |-> 0] ELSE NoSign],
                 root |-> [changed |-> 0, names |-> {a \in AlbumNames : there(a)}]]
        /\ seen = [a \in AlbumNames |-> IF there(a) THEN [file |-> file(a)] ELSE NoDir]
Init ==
    /\ \E library \in Libraries : InitWith(library)
    /\ run = Idle /\ request = NoRequest /\ clock = 0 /\ steady = {}
    /\ late = [record |-> {}, crossed |-> FALSE]

Next ==
    \/ World \/ Start \/ Rebuild \/ SaveOpened \/ TagPhoto \/ SaveOpenedFolder \/ TagFolder \/ Leave \/ Restart
    \/ \E a \in AlbumNames : WalkFails(a) \/ ReadFails(a) \/ OpenPhoto(a) \/ OpenFolder(a) \/ HideFaces(a)
    \/ SevenDays \/ \E o \in Objects : Forget(o)
    \/ \E tag \in 1 .. MaxEvents, name \in {0, clock + 1} : ChangeTag(tag, name)

Spec == Init /\ [][Next]_vars

-----------------------------------------------------------------------------
(* Properties                                                               *)

TypeOK ==
    /\ drive \in [mounted : BOOLEAN, changed : Stamps, album : [AlbumNames -> Dirs \cup {NoDir}]]
    /\ DOMAIN db = {"row", "entity", "face", "hidden", "scanned", "root"}
    /\ db.row \in [Objects -> Rows \cup {NoRow}] /\ db.entity \in [Objects -> Entities \cup {NoEntity}]
    /\ db.face \in [AlbumNames -> Faces \cup {NoFace}] /\ db.hidden \in [AlbumNames -> Faces \cup {NoFace}]
    /\ db.scanned \in [AlbumNames -> Signs \cup {NoSign}]
    /\ seen \in [AlbumNames -> [file : Files \cup {NoFile}] \cup {NoDir}]
    /\ clock \in Stamps /\ steady \subseteq Objects
    /\ late \in [record : SUBSET AlbumNames, crossed : BOOLEAN]
    /\ run.left \subseteq AlbumNames /\ run.moves \subseteq AlbumNames \X AlbumNames

\* An identity has its row or, when it is missing, the row that is kept of it,
\* with the tags that were set last; the search finds a row by exactly the
\* tags it has.
KeptOrShown ==
    \A o \in Objects :
        LET row == db.row[o]
            entity == db.entity[o]
        IN  /\ row # NoRow => row.found = row.tags
            /\ entity # NoEntity => IF entity.missing > 0 THEN entity.kept # NoRow /\ entity.kept.tags = entity.wanted
                                    ELSE entity.kept = NoRow /\ row # NoRow /\ row.tags = entity.wanted

\* A face of an identity, when it is not in doubt, was found in the very bytes
\* that the index knows of the photo; photos that only administrators see show
\* no faces.
FacesFit ==
    \A a \in AlbumNames :
        db.face[a] # NoFace =>
            /\ db.row[Photo(a)] # NoRow /\ ~db.row[Photo(a)].private
            /\ db.face[a].owned => /\ db.entity[Photo(a)] # NoEntity
                                   /\ db.face[a].review \/ db.face[a].hash = db.entity[Photo(a)].print

\* What has been on the drive ever since a rebuild began is not taken for
\* missing by it, whatever cannot be read in the meantime.  (What was missing
\* elsewhere and is recognized there is put back in the next steps.)
PresentStaysKnown ==
    [][run.at # "move" => \A o \in steady : db.entity[o] # NoEntity /\ ~Missing(db, o) => ~Missing(db', o)]_vars

\* Tags that a user edited go only with what has been missing for seven days,
\* with what is forgotten, or by another edit.
EditsStay ==
    [][\A o \in Objects :
        LET entity == db.entity[o]
        IN  entity # NoEntity /\ entity.manual /\ entity.wanted > 0 =>
                \/ entity.missing = 2 \/ Forget(o) \/ Forget(Folder(AlbumOf(o)))
                \/ db'.entity[o] # NoEntity /\ db'.entity[o].wanted = clock' /\ clock' > clock
                \/ db'.entity[o] # NoEntity /\ db'.entity[o].wanted = 0 /\ clock' > clock
                \/ \E p \in Objects : p[2] = o[2] /\ db'.entity[p] # NoEntity /\ db'.entity[p].wanted = entity.wanted]_vars

\* An album whose scan is on record, and fits the album as it is, though the
\* row of its photo does not.
Misread(a) ==
    /\ Dir(a) # NoDir /\ db.scanned[a] = AlbumSign(a)
    /\ IF Dir(a).file = NoFile THEN db.row[Photo(a)] # NoRow ELSE ~Fits(db.row[Photo(a)], Dir(a).file, Dir(a).marker)
\* A scan is not put on record before all that was read is written, so what
\* is on record can be left out of the next rebuild: only where the row of the
\* photo was written by a request, by the start of the process or by a rebuild
\* that did not get to the end of the album is the record wrong.
ScansAreSound == \A a \in AlbumNames : Misread(a) => a \in late.record

\* Rows, entities and scans agree; what is still missing is kept whole.
PhotoInv == TypeOK /\ KeptOrShown /\ ScansAreSound /\ FacesFit
=============================================================================
