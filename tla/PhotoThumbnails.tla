---------------------------- MODULE PhotoThumbnails ----------------------------
(***************************************************************************)
(* PhotoThumbnails: the thumbnails of one photo.  Requests and the worker  *)
(* make them from the original, or from a larger thumbnail, one at a time  *)
(* for each file, and no more than there are slots.  In the meantime the   *)
(* photo is replaced, and a rebuild of the index finds that out and gives  *)
(* its thumbnails another place.  Times are numbers of changes: a file has *)
(* the number of the last change before it was written.                    *)
(***************************************************************************)
EXTENDS Naturals, FiniteSets

CONSTANTS
    Clients,      \* goroutines: requests, and the worker's
    Slots,        \* thumbnails that are rendered at the same time
    Wanted,       \* sizes that requests ask for
    Prepared,     \* sizes the worker makes
    MaxChanges,   \* bound: changes of the photo and crashes, the first photo being one
    NoFile, NoRow, Nothing

VARIABLES
    photo,        \* the original: its bytes, its time, and the change that made it so
    honest,       \* history: whether every photo so far came with the time of its change
    changes,      \* changes so far
    db,           \* time in the row of the photo; bytes, time and place of its entity;
                  \* rows of its thumbnails; files that are to be removed
    files,        \* the cache: a file per place and size
    rebuild,      \* the rebuild of the index, as far as it is
    client        \* what each goroutine is about, and the photo as it read it

vars == <<photo, honest, changes, db, files, rebuild, client>>

Sizes == {"small", "large"}
Keys == 0 .. MaxChanges + 1
\* Every goroutine works on sizes there are.
ThumbnailAssumption == MaxChanges \in Nat /\ Wanted \cup Prepared \subseteq Sizes
Idle == [at |-> "idle", size |-> "small", saw |-> Nothing, key |-> 0, made |-> Nothing, leader |-> Nothing]

-----------------------------------------------------------------------------
(* Rows of thumbnails, in the state d of the database                       *)

Row(src, status) == [src |-> src, status |-> status, verified |-> FALSE]

\* thumbnailQueueUpsertSQL
IsOf(row, src) == row # NoRow /\ row.src = src
Queued(row, src) == IF IsOf(row, src) /\ row.status # "failed" THEN row ELSE Row(src, "queued")
Generated(row, src) == IF IsOf(row, src) /\ row.status = "generated" THEN row ELSE Row(src, "generated")
Failed(src) == Row(src, "failed")

\* saveMediaBatchWithExisting, for a photo whose time has changed.
Saved(d, src) ==
    IF d.media = src THEN d
    ELSE [d EXCEPT !.media = src, !.rows = [s \in Sizes |-> Queued(d.rows[s], src)]]

\* A cached file shows a source of this time: it is not older, or its bytes
\* were compared.
FileOf(d, s) == files[d.key][s]
Verified(d, s, src) == d.time = src /\ d.rows[s] = [Row(src, "generated") EXCEPT !.verified = TRUE]
Current(d, s, src) == FileOf(d, s) # NoFile /\ (FileOf(d, s).time >= src \/ Verified(d, s, src))
Ready(d, s, src) == Current(d, s, src) /\ (d.rows[s] = NoRow \/ IsOf(d.rows[s], src))
Repaired(d, s, src) == IF Ready(d, s, src) THEN [d EXCEPT !.rows[s] = Generated(@, src)] ELSE d

-----------------------------------------------------------------------------
(* The photo                                                                *)

Change(p) ==
    /\ changes < MaxChanges /\ changes' = changes + 1
    /\ photo' = p /\ honest' = (honest /\ p.time = p.change)
    /\ UNCHANGED <<db, files, rebuild, client>>
\* Other bytes, with the time of now, the time the photo had, or an old one.
Replace == \E t \in {changes + 1, photo.time, 0} :
               Change([bytes |-> changes + 1, time |-> t, change |-> changes + 1])
Touch == Change([photo EXCEPT !.time = changes + 1, !.change = changes + 1])

-----------------------------------------------------------------------------
(* A thumbnail                                                              *)

To(c, at) == client' = [client EXCEPT ![c].at = at]
Leading == {"slot", "render", "check", "rename", "mark"}
Leads(c, key, s) == client[c].at \in Leading /\ client[c].key = key /\ client[c].size = s
Rendering == {c \in Clients : client[c].at \in Leading \ {"slot"}}

\* Whoever waits for a flight gets what its leader got.
Follows(d, c) == client[d].at = "wait" /\ client[d].leader = c
Done(c) == client' = [d \in Clients |-> IF d = c \/ Follows(d, c) THEN Idle ELSE client[d]]

\* thumbnailForMedia looks again.  A thumbnail that is there is served; one
\* that is being made is waited for.
Fly(c, d, s) ==
    LET Is(k) == client' = [client EXCEPT ![c] = k]
    IN  IF Ready(d, s, photo.time) THEN Is(Idle)
        ELSE \/ \E l \in Clients :
                   Leads(l, d.key, s) /\ Is([Idle EXCEPT !.at = "wait", !.size = s, !.leader = l])
             \/ /\ \A l \in Clients : ~Leads(l, d.key, s)
                /\ Is([Idle EXCEPT !.at = "slot", !.size = s, !.saw = photo, !.key = d.key])
Thumbnail(c, s) ==
    /\ client[c].at = "idle"
    /\ \E d \in {Saved(db, photo.time)} : Fly(c, d, s) /\ db' = Repaired(d, s, photo.time)
    /\ UNCHANGED <<photo, honest, changes, files, rebuild>>

\* ensureThumbnailsFromIndex: rows are made, and what is not generated, or no
\* more of the photo as it was read, is looked at.  The rebuild that follows a
\* relocation chosen by hand does not take the place of photo jobs, so the
\* worker may run beside it.
Candidate(s) == db.rows[s] # NoRow /\ (db.rows[s].status # "generated" \/ db.rows[s].src # db.media)
EnsureQueue(s) == /\ db.rows[s] = NoRow
                  /\ db' = [db EXCEPT !.rows[s] = Row(db.media, "queued")]
                  /\ UNCHANGED <<photo, honest, changes, files, rebuild, client>>
Ensure(c, s) ==
    /\ client[c].at = "idle" /\ Candidate(s)
    /\ IF Ready(db, s, db.media) THEN db' = Repaired(db, s, db.media) /\ UNCHANGED client
       ELSE db' = Repaired(db, s, photo.time) /\ Fly(c, db, s)
    /\ UNCHANGED <<photo, honest, changes, files, rebuild>>

\* The slot is one of the semaphore as it was when it was asked for.
AcquireSlot(c) ==
    /\ client[c].at = "slot" /\ Cardinality(Rendering) < Slots
    /\ LET s == client[c].size
           t == client[c].saw.time
       IN  IF Ready(db, s, t) THEN Done(c) /\ db' = Repaired(db, s, t) ELSE To(c, "render") /\ UNCHANGED db
    /\ UNCHANGED <<photo, honest, changes, files, rebuild>>

\* cachedLargerThumbnailSource
HasLarger(s, t) ==
    /\ s = "small" /\ IsOf(db.rows["large"], t) /\ db.rows["large"].status = "generated"
    /\ Ready(db, "large", t)
Render(c) ==
    /\ client[c].at = "render"
    /\ LET source == IF HasLarger(client[c].size, client[c].saw.time) THEN FileOf(db, "large") ELSE photo
       IN  client' = [client EXCEPT ![c].at = "check", ![c].made = source.bytes]
    /\ UNCHANGED <<photo, honest, changes, db, files, rebuild>>
RenderFails(c) ==
    /\ client[c].at \in {"render", "rename"}
    /\ db' = [db EXCEPT !.rows[client[c].size] = Failed(client[c].saw.time)]
    /\ Done(c)
    /\ UNCHANGED <<photo, honest, changes, files, rebuild>>

\* Variant: only the place is looked at.
Unchanged_Place(c) == db.key = client[c].key
\* The photo must be what it was, and have the place it had.
Unchanged(c) == photo = client[c].saw /\ db.key = client[c].key
Check(c) ==
    /\ client[c].at = "check"
    /\ IF Unchanged(c)
       THEN client' = [client EXCEPT ![c].at = "rename", ![c].made = [bytes |-> @, time |-> changes]]
       ELSE Done(c)
    /\ UNCHANGED <<photo, honest, changes, db, files, rebuild>>
Rename(c) == /\ client[c].at = "rename" /\ To(c, "mark")
             /\ files' = [files EXCEPT ![client[c].key][client[c].size] = client[c].made]
             /\ UNCHANGED <<photo, honest, changes, db, rebuild>>
Mark(c) == /\ client[c].at = "mark" /\ Done(c)
           /\ db' = [db EXCEPT !.rows[client[c].size] = Generated(@, client[c].saw.time)]
           /\ UNCHANGED <<photo, honest, changes, files, rebuild>>

\* The request is given up: also for those who wait for its thumbnail.
GiveUp(c) == /\ client[c].at \in {"wait", "slot", "render"} /\ Done(c)
             /\ UNCHANGED <<photo, honest, changes, db, files, rebuild>>

\* CachedThumbnailContext asks for the photo as the index has it.
ServeCached(s) == /\ Ready(db, s, db.media)
                  /\ db' = Repaired(db, s, db.media)
                  /\ UNCHANGED <<photo, honest, changes, files, rebuild, client>>

\* What is not ready is queued; a batch is told by the rows alone, and looks at
\* the cache only for what is not generated.
AskStatus(s) == /\ db' = IF Ready(db, s, photo.time) THEN Repaired(db, s, photo.time)
                         ELSE LET d == Saved(db, photo.time) IN [d EXCEPT !.rows[s] = Queued(@, photo.time)]
                /\ UNCHANGED <<photo, honest, changes, files, rebuild, client>>

ReadyInBatch(s) ==
    LET row == db.rows[s]
    IN  \/ IsOf(row, db.media) /\ row.status = "generated"
        \/ /\ row = NoRow \/ IsOf(row, db.media)
           /\ FileOf(db, s) # NoFile /\ FileOf(db, s).time >= db.media
AskStatusBatch(s) == /\ ~ReadyInBatch(s)
                     /\ db' = [db EXCEPT !.rows[s] = Queued(@, db.media)]
                     /\ UNCHANGED <<photo, honest, changes, files, rebuild, client>>

-----------------------------------------------------------------------------
(* The rebuild: fingerprint, publish, write the row, remove old files       *)

Rebuild(d, r) == db' = d /\ rebuild' = r /\ UNCHANGED <<photo, honest, changes, client>>

\* publishIdentityFingerprints: what was only touched keeps its thumbnails,
\* other bytes get another place.
Published(d, scan) ==
    IF d.bytes = scan.bytes
    THEN [d EXCEPT !.time = scan.time,
                   !.rows = [s \in Sizes |->
                       IF IsOf(@[s], d.time) /\ d.time # scan.time
                       THEN [@[s] EXCEPT !.verified = TRUE, !.src = scan.time] ELSE @[s]]]
    ELSE [d EXCEPT !.bytes = scan.bytes, !.time = scan.time, !.key = scan.bytes,
                   !.rows = [s \in Sizes |-> NoRow],
                   !.garbage = @ \cup {<<d.key, s>> : s \in {s \in Sizes : d.rows[s] # NoRow}}]

Scan == rebuild.at = "idle" /\ Rebuild(db, [at |-> "scanned", scan |-> photo]) /\ UNCHANGED files
Publish == /\ rebuild.at = "scanned"
           /\ Rebuild(Published(db, rebuild.scan), [rebuild EXCEPT !.at = "published"])
           /\ UNCHANGED files
IndexRow == /\ rebuild.at = "published"
            /\ Rebuild(Saved(db, photo.time), [at |-> "collect", scan |-> Nothing])
            /\ UNCHANGED files
ProcessCacheGC ==
    /\ rebuild.at = "collect"
    /\ \/ /\ db.garbage = {} /\ Rebuild(db, [at |-> "idle", scan |-> Nothing]) /\ UNCHANGED files
       \/ \E g \in db.garbage : /\ Rebuild([db EXCEPT !.garbage = @ \ {g}], rebuild)
                                /\ files' = [files EXCEPT ![g[1]][g[2]] = NoFile]
Crash == /\ changes < MaxChanges /\ changes' = changes + 1
         /\ client' = [c \in Clients |-> Idle] /\ rebuild' = [at |-> "idle", scan |-> Nothing]
         /\ UNCHANGED <<photo, honest, db, files>>

-----------------------------------------------------------------------------
Init ==
    /\ photo = [bytes |-> 0, time |-> 1, change |-> 1] /\ honest = TRUE /\ changes = 1
    /\ db = [media |-> 1, bytes |-> 0, time |-> 1, key |-> 0,
             rows |-> [s \in Sizes |-> NoRow], garbage |-> {}]
    /\ files = [k \in Keys |-> [s \in Sizes |-> NoFile]]
    /\ rebuild = [at |-> "idle", scan |-> Nothing]
    /\ client = [c \in Clients |-> Idle]

Work(c) == Render(c) \/ RenderFails(c) \/ Check(c) \/ Rename(c) \/ Mark(c) \/ GiveUp(c)
Next ==
    \/ Replace \/ Touch \/ Crash
    \/ \E c \in Clients : Work(c) \/ AcquireSlot(c)
    \/ \E s \in Wanted : AskStatus(s) \/ AskStatusBatch(s) \/ ServeCached(s) \/ \E c \in Clients : Thumbnail(c, s)
    \/ \E s \in Prepared : EnsureQueue(s) \/ \E c \in Clients : Ensure(c, s)
    \/ Scan \/ Publish \/ IndexRow \/ ProcessCacheGC
Spec == Init /\ [][Next]_vars

\* No thumbnail that is served shows an earlier photo: neither one that was
\* rendered from it, or from a larger thumbnail of it, and is put into the
\* cache later, nor one whose file is given the newer time.  As long as the
\* index has not fingerprinted the photo, this holds only if its time is that
\* of the change, and for requests that look at the file.
Shows(t) == \A s \in Sizes : Ready(db, s, t) => FileOf(db, s).bytes = photo.bytes
ShowsPhoto == /\ honest => Shows(photo.time)
              /\ db.bytes = photo.bytes => Shows(photo.time) /\ Shows(db.media)
=============================================================================
