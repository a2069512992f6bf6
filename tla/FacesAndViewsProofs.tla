-------------------------- MODULE FacesAndViewsProofs --------------------------
(***************************************************************************)
(* Theorems about the photos besides their index.  What FaceAnalysis never *)
(* does, for any number of photos, versions, requests and orders: save     *)
(* faces of other bytes than it says, show faces of private photos, or     *)
(* bring back what was deleted.  What PhotoViews shows: routes on maps,    *)
(* markers of private files, groups of images, and answers to searches.    *)
(***************************************************************************)
EXTENDS FaceAnalysis, PhotoViews, Sequences, FiniteSets, FiniteSetTheorems, WellFoundedInduction, TLAPS

-----------------------------------------------------------------------------
(* The analysis of faces                                                    *)

Drives == [rev : 1 .. MaxRev, marked : BOOLEAN, lost : BOOLEAN]

(* A row of the database, and the version that is on the drive now.         *)
RowFits(row, now) ==
    /\ row.hidden => row.face = NoFaces
    /\ row.face # NoFaces /\ ~row.face.review => row.face.of = row.face.at /\ row.face.at = row.rev
    /\ row.kept # NoFaces /\ ~row.kept.review => row.kept.of = row.kept.at
    /\ row.rev <= now
    /\ row.job # NoJob => row.job.rev <= now /\ (row.job.status = "queued" => row.job.attempts < MaxTries)
Fitting(now) == {row \in Rows : RowFits(row, now)}

LEMMA Constants ==
  /\ MaxRev \in Nat /\ MaxRev > 0 /\ MaxTries \in Nat /\ MaxTries > 0
  /\ RunSize \in Nat /\ Batches \in Nat /\ Batches > 0
  BY FaceAssumption

(* A job that is made is one.                                               *)
LEMMA JobIs ==
  ASSUME NEW rev \in 1 .. MaxRev
  PROVE  /\ Job(rev) \in JobTypes /\ Job(rev).rev = rev /\ Job(rev).status = "queued" /\ Job(rev).attempts = 0
  BY Constants DEF Job, JobTypes

(* Hiding keeps the faces for later and takes the job away.                 *)
LEMMA HideFits ==
  ASSUME NEW now \in 1 .. MaxRev, NEW row \in Fitting(now)
  PROVE  Hide(row) \in Fitting(now)
<1>1. Hide(row) \in Rows
  BY DEF Hide, Fitting, Rows
<1>2. RowFits(Hide(row), now)
  BY DEF Hide, Fitting, RowFits, Rows
<1> QED BY <1>1, <1>2 DEF Fitting

(* What is shown again may be of an earlier version: then it is in doubt.   *)
LEMMA IndexedFits ==
  ASSUME NEW now \in 1 .. MaxRev, NEW row \in Rows,
         row.hidden => row.face = NoFaces,
         row.face # NoFaces /\ ~row.face.review => row.face.of = row.face.at,
         row.kept # NoFaces /\ ~row.kept.review => row.kept.of = row.kept.at,
         row.job # NoJob => row.job.rev <= now /\ (row.job.status = "queued" => row.job.attempts < MaxTries)
  PROVE  Indexed(row, now) \in Fitting(now) /\ Indexed(row, now).rev = now /\ Indexed(row, now).hidden = row.hidden
<1> DEFINE f == Doubted(row.face, now)
           new == [row EXCEPT !.rev = now, !.face = f]
<1>1. f \in {NoFaces} \cup FaceTypes
  BY DEF Doubted, Rows, FaceTypes
<1>2. f # NoFaces /\ ~f.review => f.of = f.at /\ f.at = now
  <2>1. CASE row.face # NoFaces /\ row.face.at # now
    <3>1. row.face \in FaceTypes
      BY <2>1 DEF Rows
    <3>2. f.review = TRUE
      BY <2>1, <3>1 DEF Doubted, FaceTypes
    <3> QED BY <3>2
  <2>2. CASE ~(row.face # NoFaces /\ row.face.at # now)
    BY <2>2 DEF Doubted
  <2> QED BY <2>1, <2>2
<1>3. row.face = NoFaces => f = NoFaces
  BY DEF Doubted
<1> HIDE DEF f
<1>a. now \in 0 .. MaxRev
  BY Constants
<1>4. new \in Rows /\ new.rev = now /\ new.hidden = row.hidden /\ new.face = f /\ new.kept = row.kept /\ new.job = row.job
  BY <1>1, <1>a DEF Rows
<1>5. RowFits(new, now)
  BY <1>2, <1>3, <1>4 DEF RowFits
<1>6. [new EXCEPT !.job = NoJob] \in Rows /\ RowFits([new EXCEPT !.job = NoJob], now)
      /\ [new EXCEPT !.job = NoJob].rev = now /\ [new EXCEPT !.job = NoJob].hidden = row.hidden
  BY <1>4, <1>5 DEF Rows, RowFits
<1>7. Indexed(row, now) = new \/ Indexed(row, now) = [new EXCEPT !.job = NoJob]
  BY DEF Indexed, f
<1> QED BY <1>4, <1>5, <1>6, <1>7 DEF Fitting

LEMMA QueueFits ==
  ASSUME NEW now \in 1 .. MaxRev, NEW row \in Fitting(now), row.rev = now
  PROVE  QueueMedia(row) \in Fitting(now)
<1>1. [row EXCEPT !.job = Job(now)] \in Rows
  BY JobIs DEF Fitting, Rows
<1>2. RowFits([row EXCEPT !.job = Job(now)], now)
  BY JobIs, Constants DEF Fitting, Rows, RowFits
<1> QED BY <1>1, <1>2 DEF QueueMedia, Fitting

LEMMA RefreshedFits ==
  ASSUME NEW now \in Drives, NEW row \in Fitting(now.rev)
  PROVE  Refreshed(row, now) \in Fitting(now.rev)
<1>0. now.rev \in 1 .. MaxRev /\ now.marked \in BOOLEAN /\ row \in Rows /\ RowFits(row, now.rev)
  BY DEF Drives, Fitting
<1> DEFINE seen == IF row.hidden = now.marked THEN row ELSE IF now.marked THEN Hide(row) ELSE Show(row)
<1>1. /\ seen \in Rows
      /\ seen.hidden => seen.face = NoFaces
      /\ seen.face # NoFaces /\ ~seen.face.review => seen.face.of = seen.face.at
      /\ seen.kept # NoFaces /\ ~seen.kept.review => seen.kept.of = seen.kept.at
      /\ seen.job # NoJob => seen.job.rev <= now.rev /\ (seen.job.status = "queued" => seen.job.attempts < MaxTries)
  <2>1. CASE row.hidden = now.marked
    BY <1>0, <2>1 DEF RowFits
  <2>2. CASE row.hidden # now.marked /\ now.marked
    <3>1. seen = Hide(row)
      BY <2>2
    <3> HIDE DEF seen
    <3>2. seen \in Fitting(now.rev)
      BY <1>0, <3>1, HideFits
    <3> QED BY <3>2 DEF Fitting, RowFits
  <2>3. CASE row.hidden # now.marked /\ ~now.marked
    <3>1. seen = Show(row)
      BY <2>3
    <3>2. row.hidden
      BY <2>3, <1>0 DEF Rows
    <3> HIDE DEF seen
    <3>3. seen \in Rows /\ ~seen.hidden /\ seen.face = row.kept /\ seen.kept = NoFaces /\ seen.job = row.job
      BY <1>0, <3>1 DEF Show, Rows
    <3> QED BY <3>3, <1>0 DEF RowFits
  <2> QED BY <2>1, <2>2, <2>3
<1> HIDE DEF seen
<1>2. Indexed(seen, now.rev) \in Fitting(now.rev) /\ Indexed(seen, now.rev).rev = now.rev
  BY <1>0, <1>1, IndexedFits
<1>3. QueueMedia(Indexed(seen, now.rev)) \in Fitting(now.rev)
  BY <1>0, <1>2, QueueFits
<1> QED BY <1>3 DEF Refreshed, SaveMedia, seen

-----------------------------------------------------------------------------
(* The inductive invariant                                                  *)

Runs == [pc : {"idle", "begin", "prepare", "fill", "loop", "wait", "analyze", "end", "clear"},
         cancelled : BOOLEAN, committed : BOOLEAN, n : Nat, rows : SUBSET (Photos \X (1 .. MaxRev))]
Recons == [pc : {"idle", "begin", "ready", "batch", "clear"}, cancelled : BOOLEAN]
Controls == [pc : {"idle", "save", "enable", "act", "run", "recon", "gate"}, order : Orders \cup {"none"},
             saves : [faces : BOOLEAN, reconcile : BOOLEAN]]
Settings == [faces : BOOLEAN, reconcile : BOOLEAN]
Passes == [pending : BOOLEAN, running : BOOLEAN, dirty : BOOLEAN, left : 0 .. Batches]

DriveOK == drive \in [Photos -> Drives]
DatabaseOK == db \in [Photos -> Rows] /\ \A p \in Photos : RowFits(db[p], drive[p].rev)
SettingsOK == enabled \in BOOLEAN /\ settings \in Settings /\ pass \in Passes /\ cleared \in BOOLEAN
WorkersOK == run \in Runs /\ recon \in Recons /\ control \in [Requests -> Controls]

(* An analysis that looked at bytes of the version its job is for, and finds *)
(* that version still there at the end, has seen no other: versions only     *)
(* grow.                                                                     *)
Working(w) ==
    /\ w \in Works
    /\ w.rev <= drive[w.photo].rev
    /\ w.at \in {"analyze", "refine", "check"} /\ drive[w.photo].rev = w.rev => w.of = w.rev
    /\ w.at = "write" => w.of = w.rev
WorkFits == work # NoWork => Working(work)

RunFits ==
    /\ \A row \in run.rows : row[2] <= drive[row[1]].rev
    /\ run.pc = "analyze" => Working(work) /\ work.by = "run"

(* Who deletes everything has ended both workers and keeps them away.       *)
Clearing(r) == control[r].pc \in {"recon", "gate"}
ClearLocks ==
    /\ \A r \in Requests : Clearing(r) => run.pc = "clear"
    /\ \A r \in Requests : control[r].pc = "gate" => recon.pc = "clear"
    /\ \A r, s \in Requests : Clearing(r) /\ Clearing(s) => r = s

(* While nobody asks for faces nothing is queued, and nobody is past the    *)
(* question whether faces are wanted.                                       *)
Quiet ==
    /\ ~settings.faces /\ ~enabled
    /\ run.pc \in {"idle", "begin", "end", "clear"}
    /\ work # NoWork => work.by = "request" /\ work.at = "queue"
    /\ \A p \in Photos : db[p].job = NoJob /\ db[p].face = NoFaces /\ db[p].kept = NoFaces

AInv ==
    /\ DriveOK /\ DatabaseOK /\ SettingsOK /\ WorkersOK
    /\ WorkFits /\ RunFits /\ ClearLocks /\ (cleared => Quiet)

LEMMA StartInvariant == Init => AInv
<1> SUFFICES ASSUME Init PROVE AInv
  OBVIOUS
<1>1. PICK seen \in {0, 1} :
         db = [p \in Photos |-> [rev |-> IF p \in bounds.photos THEN seen ELSE 0, hidden |-> FALSE,
                                 job |-> NoJob, face |-> NoFaces, kept |-> NoFaces]]
  BY DEF Init
<1>2. db \in [Photos -> Rows]
  BY <1>1, Constants DEF Rows
<1>3. DriveOK /\ \A p \in Photos : drive[p].rev = 1
  BY Constants DEF Init, DriveOK, Drives
<1>4. SettingsOK
  <2>1. 0 \in 0 .. Batches
    BY Constants
  <2>2. pass \in Passes
    BY <2>1 DEF Init, Passes
  <2> QED BY <2>2 DEF Init, SettingsOK, Settings
<1>5. WorkersOK
  BY DEF Init, WorkersOK, IdleRun, IdleRecon, NoOrder, Runs, Recons, Controls
<1>6. DatabaseOK
  <2>1. ASSUME NEW p \in Photos PROVE RowFits(db[p], drive[p].rev)
    <3>1. db[p].face = NoFaces /\ db[p].kept = NoFaces /\ db[p].job = NoJob /\ db[p].rev \in {0, seen}
      BY <1>1
    <3>2. drive[p].rev = 1 /\ seen <= 1
      BY <1>3
    <3> QED BY <3>1, <3>2 DEF RowFits
  <2> QED BY <1>2, <2>1 DEF DatabaseOK
<1>7. WorkFits /\ RunFits /\ ClearLocks /\ (cleared => Quiet)
  BY DEF Init, WorkFits, RunFits, ClearLocks, Clearing, IdleRun, NoOrder
<1> QED BY <1>3, <1>4, <1>5, <1>6, <1>7 DEF AInv

(* The properties are parts of the invariant, or follow from it.            *)
LEMMA InvariantShows == AInv => FaceInv /\ ClearedStaysCleared
<1> SUFFICES ASSUME AInv PROVE FaceInv /\ ClearedStaysCleared
  OBVIOUS
<1>1. TypeOK
  BY DEF AInv, DriveOK, DatabaseOK, SettingsOK, TypeOK, Drives, Settings, Passes
<1>2. HiddenHasNoFaces /\ FacesAreOfThePhoto
  BY DEF AInv, DatabaseOK, RowFits, HiddenHasNoFaces, FacesAreOfThePhoto, InReview
<1>3. ClearedStaysCleared
  BY DEF AInv, Quiet, ClearedStaysCleared
<1> QED BY <1>1, <1>2, <1>3 DEF FaceInv

-----------------------------------------------------------------------------
(* Changes of the database                                                  *)

Fits(d) == d \in [Photos -> Rows] /\ \A p \in Photos : RowFits(d[p], drive[p].rev)
Empty(row) == row.job = NoJob /\ row.face = NoFaces /\ row.kept = NoFaces
AllEmpty(d) == \A p \in Photos : Empty(d[p])

LEMMA OneRowFits ==
  ASSUME NEW d, Fits(d), NEW p \in Photos, NEW row \in Fitting(drive[p].rev)
  PROVE  Fits([d EXCEPT ![p] = row])
  BY DEF Fits, Fitting

LEMMA RefreshFits ==
  ASSUME NEW d, Fits(d), NEW p \in Photos, DriveOK
  PROVE  Fits(Refresh(d, p))
<1>1. drive[p] \in Drives
  BY DEF DriveOK
<1>2. drive[p].rev \in 1 .. MaxRev
  BY <1>1 DEF Drives
<1>3. d[p] \in Fitting(drive[p].rev)
  BY DEF Fits, Fitting
<1>4. Refreshed(d[p], drive[p]) \in Fitting(drive[p].rev)
  BY <1>1, <1>2, <1>3, RefreshedFits
<1> QED BY <1>4, OneRowFits DEF Refresh

LEMMA HideMarkedFits ==
  ASSUME NEW d, Fits(d), NEW ps, DriveOK
  PROVE  Fits(HideMarked(d, ps))
<1> DEFINE e == HideMarked(d, ps)
<1>1. \A p \in Photos : drive[p].rev \in 1 .. MaxRev
  BY DEF DriveOK, Drives
<1>2. \A p \in Photos : d[p] \in Fitting(drive[p].rev)
  BY DEF Fits, Fitting
<1>3. \A p \in Photos : Hide(d[p]) \in Fitting(drive[p].rev)
  BY <1>1, <1>2, HideFits
<1>4. \A p \in Photos : e[p] \in Fitting(drive[p].rev)
  BY <1>2, <1>3 DEF HideMarked
<1>5. e \in [Photos -> Rows]
  BY <1>2, <1>3 DEF HideMarked, Fitting
<1> QED BY <1>4, <1>5 DEF Fits, Fitting

(* An empty row stays empty, while nothing is queued.                       *)
LEMMA EmptyRefreshed ==
  ASSUME NEW row \in Rows, NEW now, Empty(row), ~enabled
  PROVE  Empty(Refreshed(row, now))
<1> DEFINE seen == IF row.hidden = now.marked THEN row ELSE IF now.marked THEN Hide(row) ELSE Show(row)
<1>1. seen \in Rows /\ Empty(seen)
  BY DEF Hide, Show, Rows, Empty
<1> HIDE DEF seen
<1>2. Indexed(seen, now.rev).face = NoFaces /\ Empty(Indexed(seen, now.rev))
  BY <1>1 DEF Indexed, Doubted, InReview, Empty, Rows
<1>3. QueueMedia(Indexed(seen, now.rev)) = Indexed(seen, now.rev)
  BY DEF QueueMedia
<1> QED BY <1>2, <1>3 DEF Refreshed, SaveMedia, seen

LEMMA EmptyRefresh ==
  ASSUME NEW d \in [Photos -> Rows], NEW p \in Photos, AllEmpty(d), ~enabled
  PROVE  AllEmpty(Refresh(d, p))
  BY EmptyRefreshed DEF Refresh, AllEmpty

LEMMA EmptyHidden ==
  ASSUME NEW d \in [Photos -> Rows], NEW ps, AllEmpty(d)
  PROVE  AllEmpty(HideMarked(d, ps))
  BY DEF HideMarked, AllEmpty, Empty, Hide, Rows

-----------------------------------------------------------------------------
(* Steps of the drive and of the index                                      *)

(* Versions only grow, so that what fitted still does.                      *)
LEMMA DriveGrows ==
  ASSUME AInv, DriveOK', \A p \in Photos : drive[p].rev <= drive'[p].rev,
         UNCHANGED <<db, enabled, settings, pass, run, recon, work, control, cleared>>
  PROVE  AInv'
<1>0. DriveOK /\ DatabaseOK
  BY DEF AInv
<1>1. \A p \in Photos : drive[p].rev \in Int /\ drive'[p].rev \in Int
  BY <1>0 DEF DriveOK, Drives
<1>2. DatabaseOK'
  <2>1. ASSUME NEW p \in Photos PROVE RowFits(db[p], drive'[p].rev)
    <3>1. RowFits(db[p], drive[p].rev) /\ db[p] \in Rows
      BY <1>0 DEF DatabaseOK
    <3>2. db[p].rev \in Int /\ (db[p].job # NoJob => db[p].job.rev \in Int)
      BY <3>1 DEF Rows, JobTypes
    <3> QED BY <3>1, <3>2, <1>1 DEF RowFits
  <2> QED BY <1>0, <2>1 DEF DatabaseOK
<1>3. ASSUME Working(work) PROVE Working(work)'
  <2>1. work.rev \in Int /\ work.photo \in Photos
    BY <1>3 DEF Working, Works
  <2> QED BY <1>1, <1>3, <2>1 DEF Working
<1>4. \A row \in run.rows : row[2] <= drive'[row[1]].rev
  <2> TAKE row \in run.rows
  <2>1. row[1] \in Photos /\ row[2] \in Int
    BY DEF AInv, WorkersOK, Runs
  <2>2. row[2] <= drive[row[1]].rev
    BY DEF AInv, RunFits
  <2> QED BY <1>1, <2>1, <2>2
<1>5. WorkFits' /\ RunFits'
  BY <1>3, <1>4 DEF AInv, WorkFits, RunFits
<1>6. SettingsOK' /\ WorkersOK' /\ ClearLocks' /\ (cleared => Quiet)'
  BY DEF AInv, SettingsOK, WorkersOK, ClearLocks, Clearing, Quiet
<1> QED BY <1>2, <1>5, <1>6 DEF AInv

LEMMA DriveKeeps ==
  ASSUME AInv, NEW p \in Photos, WritePhoto(p) \/ MarkAlbum(p) \/ LoseAlbum(p) \/ FindAlbum(p)
  PROVE  AInv'
<1>0. drive \in [Photos -> Drives] /\ drive[p] \in Drives
  BY DEF AInv, DriveOK
<1>1. CASE WritePhoto(p)
  <2> DEFINE x == [drive[p] EXCEPT !.rev = drive[p].rev + 1]
  <2>1. drive' = [drive EXCEPT ![p] = x]
    BY <1>1 DEF WritePhoto
  <2>2. drive[p].rev + 1 \in 1 .. MaxRev
    BY <1>0, <1>1, Constants DEF WritePhoto, Drives
  <2>3. x \in Drives /\ x.rev = drive[p].rev + 1
    BY <1>0, <2>2 DEF Drives
  <2> HIDE DEF x
  <2>4. DriveOK' /\ \A q \in Photos : drive[q].rev <= drive'[q].rev
    BY <1>0, <2>1, <2>3 DEF DriveOK, Drives
  <2> QED BY <1>1, <2>4, DriveGrows DEF WritePhoto, OnDrive, history
<1>2. CASE MarkAlbum(p)
  <2> DEFINE x == [drive[p] EXCEPT !.marked = ~drive[p].marked]
  <2>1. drive' = [drive EXCEPT ![p] = x]
    BY <1>2 DEF MarkAlbum
  <2>3. x \in Drives /\ x.rev = drive[p].rev
    BY <1>0 DEF Drives
  <2> HIDE DEF x
  <2>4. DriveOK' /\ \A q \in Photos : drive[q].rev <= drive'[q].rev
    BY <1>0, <2>1, <2>3 DEF DriveOK, Drives
  <2> QED BY <1>2, <2>4, DriveGrows DEF MarkAlbum, OnDrive, history
<1>3. CASE LoseAlbum(p) \/ FindAlbum(p)
  <2>1. PICK lost \in BOOLEAN : drive' = [drive EXCEPT ![p].lost = lost]
    BY <1>3 DEF LoseAlbum, FindAlbum
  <2> DEFINE x == [drive[p] EXCEPT !.lost = lost]
  <2>2. drive' = [drive EXCEPT ![p] = x]
    BY <2>1
  <2>3. x \in Drives /\ x.rev = drive[p].rev
    BY <1>0 DEF Drives
  <2> HIDE DEF x
  <2>4. DriveOK' /\ \A q \in Photos : drive[q].rev <= drive'[q].rev
    BY <1>0, <2>2, <2>3 DEF DriveOK, Drives
  <2> QED BY <1>3, <2>4, DriveGrows DEF LoseAlbum, FindAlbum, OnDrive, history
<1> QED BY <1>1, <1>2, <1>3

(* A database that fits and, where nothing may come back, stays empty.      *)
LEMMA DatabaseStep ==
  ASSUME AInv, Fits(db'), cleared => AllEmpty(db'),
         UNCHANGED <<drive, enabled, settings, run, recon, work, control, cleared>>, pass' \in Passes
  PROVE  AInv'
<1>1. DriveOK' /\ DatabaseOK'
  BY DEF AInv, DriveOK, Fits, DatabaseOK
<1>2. SettingsOK' /\ WorkersOK' /\ ClearLocks'
  BY DEF AInv, SettingsOK, WorkersOK, ClearLocks, Clearing
<1>3. WorkFits' /\ RunFits'
  BY DEF AInv, WorkFits, RunFits, Working
<1>4. (cleared => Quiet)'
  BY DEF AInv, Quiet, AllEmpty, Empty
<1> QED BY <1>1, <1>2, <1>3, <1>4 DEF AInv

LEMMA DatabaseFits == AInv => DriveOK /\ Fits(db) /\ pass \in Passes /\ (cleared => ~enabled /\ AllEmpty(db))
  BY DEF AInv, DatabaseOK, Fits, SettingsOK, Quiet, AllEmpty, Empty

LEMMA IndexKeeps ==
  ASSUME AInv, (\E p \in Photos : IndexPhoto(p)) \/ FaceStatus
  PROVE  AInv'
<1>1. ASSUME NEW p \in Photos, IndexPhoto(p) PROVE AInv'
  <2>1. Fits(db') /\ (cleared => AllEmpty(db'))
    BY <1>1, DatabaseFits, RefreshFits, EmptyRefresh DEF IndexPhoto, Fits
  <2> QED BY <1>1, <2>1, DatabaseFits, DatabaseStep DEF IndexPhoto, history
<1>2. CASE FaceStatus
  <2>1. Fits(db') /\ (cleared => AllEmpty(db'))
    BY <1>2, DatabaseFits, HideMarkedFits, EmptyHidden DEF FaceStatus, Fits
  <2> QED BY <1>2, <2>1, DatabaseFits, DatabaseStep DEF FaceStatus, history
<1> QED BY <1>1, <1>2

LEMMA ConfirmKeeps ==
  ASSUME AInv, NEW p \in Photos, ConfirmFaces(p)
  PROVE  AInv'
<1>0. DriveOK /\ Fits(db) /\ pass \in Passes
  BY DatabaseFits
<1>1. drive[p].rev \in 1 .. MaxRev /\ drive[p].rev \in 0 .. MaxRev /\ drive[p].rev = db[p].rev /\ db[p] \in Rows
  BY <1>0, Constants DEF DriveOK, Drives, ConfirmFaces, Fits
<1> DEFINE f == [of |-> drive[p].rev, at |-> drive[p].rev, review |-> FALSE]
           row == [db[p] EXCEPT !.face = f, !.job = NoJob]
<1>2. f \in FaceTypes /\ f.of = drive[p].rev /\ f.at = drive[p].rev
  BY <1>1 DEF FaceTypes
<1> HIDE DEF f
<1>3. row \in Rows /\ row.rev = db[p].rev /\ row.hidden = db[p].hidden /\ row.face = f /\ row.kept = db[p].kept /\ row.job = NoJob
  BY <1>1, <1>2 DEF Rows
<1>4. RowFits(db[p], drive[p].rev) /\ ~db[p].hidden
  BY <1>0 DEF Fits, ConfirmFaces
<1>5. RowFits(row, drive[p].rev)
  BY <1>1, <1>2, <1>3, <1>4 DEF RowFits
<1>6. db' = [db EXCEPT ![p] = row]
  BY DEF ConfirmFaces, f
<1> HIDE DEF row
<1>7. Fits(db')
  BY <1>0, <1>3, <1>5, <1>6, OneRowFits DEF Fitting
<1>8. ~cleared
  BY DatabaseFits DEF ConfirmFaces, InReview, AllEmpty, Empty
<1>9. pass' \in Passes
  BY <1>0 DEF ConfirmFaces, OrderPass, OrderNoPass, Schedule, Passes
<1> QED BY <1>7, <1>8, <1>9, DatabaseStep DEF ConfirmFaces

-----------------------------------------------------------------------------
(* Steps of an analysis                                                     *)

LEMMA WorkIsSome == \A w \in Works : w # NoWork
  BY WorkAssumption

LEMMA WorkStep ==
  ASSUME AInv, UNCHANGED <<drive, enabled, settings, pass, run, recon, control>>, Fits(db'), cleared' \in BOOLEAN,
         work' # NoWork => Working(work'),
         run.pc = "analyze" => Working(work') /\ work'.by = "run",
         cleared' => /\ cleared /\ AllEmpty(db')
                     /\ (work' # NoWork => work'.by = "request" /\ work'.at = "queue")
  PROVE  AInv'
<1>1. DriveOK' /\ DatabaseOK'
  BY DEF AInv, DriveOK, Fits, DatabaseOK
<1>2. SettingsOK' /\ WorkersOK' /\ ClearLocks'
  BY DEF AInv, SettingsOK, WorkersOK, ClearLocks, Clearing
<1>3. WorkFits' /\ RunFits'
  BY DEF AInv, WorkFits, RunFits, Working
<1>4. (cleared => Quiet)'
  BY DEF AInv, Quiet, AllEmpty, Empty
<1> QED BY <1>1, <1>2, <1>3, <1>4 DEF AInv

(* What a step finds of the analysis it goes on with.                       *)
LEMMA AtWork ==
  ASSUME AInv, work # NoWork
  PROVE  /\ Working(work) /\ work \in Works /\ work.photo \in Photos /\ work.rev \in 1 .. MaxRev
         /\ drive[work.photo] \in Drives /\ drive[work.photo].rev \in 1 .. MaxRev
         /\ cleared => work.by = "request" /\ work.at = "queue"
         /\ run.pc = "analyze" => work.by = "run"
         /\ DriveOK /\ Fits(db) /\ cleared \in BOOLEAN
<1>1. Working(work) /\ work \in Works
  BY DEF AInv, WorkFits, Working
<1>2. work.photo \in Photos /\ work.rev \in 1 .. MaxRev
  BY <1>1 DEF Works
<1>3. drive[work.photo] \in Drives /\ drive[work.photo].rev \in 1 .. MaxRev
  BY <1>2 DEF AInv, DriveOK, Drives
<1> QED BY <1>1, <1>2, <1>3, DatabaseFits DEF AInv, Quiet, RunFits, SettingsOK

(* An analysis that has only come to another place.                         *)
LEMMA PlaceChanges ==
  ASSUME NEW w \in Works, NEW at \in {"queue", "read", "analyze", "refine", "check", "write", "done", "fail"}
  PROVE  LET x == [w EXCEPT !.at = at]
         IN  /\ x \in Works /\ x.photo = w.photo /\ x.by = w.by /\ x.rev = w.rev
             /\ x.attempts = w.attempts /\ x.at = at /\ x.of = w.of
  BY DEF Works

LEMMA FailKeeps ==
  ASSUME AInv, work # NoWork, work.at # "queue", work' = [work EXCEPT !.at = "fail"],
         UNCHANGED <<drive, db, enabled, settings, pass, run, recon, control, cleared>>
  PROVE  AInv'
<1>1. /\ work' \in Works /\ work'.photo = work.photo /\ work'.by = work.by /\ work'.rev = work.rev /\ work'.at = "fail"
  BY AtWork, PlaceChanges
<1>2. Working(work')
  BY <1>1, AtWork DEF Working
<1> QED BY <1>1, <1>2, AtWork, WorkStep

LEMMA NewWork ==
  ASSUME NEW by \in {"run", "request"}, NEW p \in Photos, NEW rev \in 1 .. MaxRev, NEW n \in 0 .. MaxTries - 1,
         NEW at \in {"queue", "read"}, rev <= drive[p].rev
  PROVE  LET w == Work(by, p, rev, n, at)
         IN  w \in Works /\ Working(w) /\ w # NoWork /\ w.by = by /\ w.at = at
<1> DEFINE w == Work(by, p, rev, n, at)
<1>1. Mixed \in 0 .. MaxRev /\ 0 \in 0 .. MaxRev
  BY Constants DEF Mixed
<1>2. w \in Works /\ w.by = by /\ w.at = at /\ w.photo = p /\ w.rev = rev
  BY <1>1 DEF Work, Works
<1>3. Working(w)
  BY <1>2 DEF Working
<1> QED BY <1>2, <1>3, WorkIsSome

LEMMA AnalyzeKeeps ==
  ASSUME AInv, NEW p \in Photos, AnalyzePhoto(p)
  PROVE  AInv'
<1>0. DriveOK /\ Fits(db) /\ (cleared => ~enabled /\ AllEmpty(db)) /\ cleared \in BOOLEAN
  BY DatabaseFits DEF AInv, SettingsOK
<1> DEFINE d == HideMarked(db, Marked(db) \cap {p})
<1>1. Fits(d) /\ (cleared => AllEmpty(d))
  BY <1>0, HideMarkedFits, EmptyHidden DEF Fits
<1> HIDE DEF d
<1>2. Fits(Refresh(d, p)) /\ (cleared => AllEmpty(Refresh(d, p)))
  BY <1>0, <1>1, RefreshFits, EmptyRefresh DEF Fits
<1>3. db' = Refresh(d, p)
  BY DEF AnalyzePhoto, d
<1>4. run.pc # "analyze"
  BY WorkIsSome DEF AInv, RunFits, AnalyzePhoto, GateIsFree, Working
<1>5. work' # NoWork => Working(work') /\ work'.by = "request" /\ work'.at = "queue"
  <2>1. drive[p].rev \in 1 .. MaxRev /\ 0 \in 0 .. MaxTries - 1
    BY <1>0, Constants DEF DriveOK, Drives
  <2>2. Working(Work("request", p, drive[p].rev, 0, "queue"))
        /\ Work("request", p, drive[p].rev, 0, "queue").by = "request"
        /\ Work("request", p, drive[p].rev, 0, "queue").at = "queue"
    BY <2>1, NewWork
  <2> QED BY <2>2 DEF AnalyzePhoto
<1> QED BY <1>0, <1>2, <1>3, <1>4, <1>5, WorkStep DEF AnalyzePhoto, history

LEMMA PrepareKeeps ==
  ASSUME AInv, PrepareFacePhoto
  PROVE  AInv'
<1> DEFINE p == work.photo
           row == [db[p] EXCEPT !.job = Job(work.rev)]
<1>0. work # NoWork /\ work.at = "queue"
  BY DEF PrepareFacePhoto, Analyzing
<1>1. Working(work) /\ work \in Works /\ p \in Photos /\ work.rev \in 1 .. MaxRev /\ Fits(db)
  BY <1>0, AtWork
<1>2. db[p] \in Rows /\ RowFits(db[p], drive[p].rev)
  BY <1>1 DEF Fits
<1>3. Job(work.rev) \in JobTypes /\ Job(work.rev).rev = work.rev /\ Job(work.rev).attempts = 0
  BY <1>1, JobIs
<1>4. row \in Rows /\ row.rev = db[p].rev /\ row.hidden = db[p].hidden /\ row.face = db[p].face
      /\ row.kept = db[p].kept /\ row.job = Job(work.rev)
  BY <1>2, <1>3 DEF Rows
<1>5. RowFits(row, drive[p].rev)
  BY <1>1, <1>2, <1>3, <1>4, Constants DEF RowFits, Working
<1>6. Fits(db')
  BY <1>1, <1>4, <1>5, OneRowFits DEF PrepareFacePhoto, Fitting
<1>7. /\ work' \in Works /\ work'.photo = p /\ work'.by = work.by /\ work'.rev = work.rev /\ work'.at = "read"
  BY <1>1, PlaceChanges DEF PrepareFacePhoto, Go
<1>8. Working(work')
  BY <1>1, <1>7 DEF Working
<1> QED BY <1>0, <1>6, <1>7, <1>8, AtWork, WorkStep DEF PrepareFacePhoto, InAnalysis

(* The photo is read, and read again for small faces.                       *)
LEMMA ReadKeeps ==
  ASSUME AInv, FaceImage \/ Analyze \/ RefineFaceResult
  PROVE  AInv'
<1> DEFINE p == work.photo
<1>0. work # NoWork /\ work.at \in {"read", "analyze", "refine"}
  BY DEF FaceImage, Analyze, RefineFaceResult, Analyzing
<1>1. Working(work) /\ work \in Works /\ p \in Photos /\ drive[p].rev \in 1 .. MaxRev /\ Fits(db) /\ ~cleared
  BY <1>0, AtWork
<1>2. UNCHANGED <<drive, db, enabled, settings, pass, run, recon, control, cleared>>
  BY DEF FaceImage, Analyze, RefineFaceResult, InAnalysis, history
<1>3. CASE work' = [work EXCEPT !.at = "fail"]
  BY <1>0, <1>2, <1>3, FailKeeps
<1>4. ASSUME Working(work'), work'.by = work.by PROVE AInv'
  BY <1>0, <1>1, <1>2, <1>4, AtWork, WorkStep
<1>5. CASE FaceImage /\ work' = [work EXCEPT !.at = "analyze", !.of = drive[p].rev]
  <2>1. drive[p].rev \in 0 .. MaxRev
    BY <1>1, Constants
  <2>2. work' \in Works /\ work'.photo = p /\ work'.by = work.by /\ work'.rev = work.rev /\ work'.at = "analyze" /\ work'.of = drive[p].rev
    BY <1>1, <1>5, <2>1 DEF Works
  <2>3. Working(work')
    BY <1>1, <2>2 DEF Working
  <2> QED BY <1>4, <2>2, <2>3
<1>6. CASE Analyze /\ work' = [work EXCEPT !.at = "refine"]
  <2>1. work' \in Works /\ work'.photo = p /\ work'.by = work.by /\ work'.rev = work.rev /\ work'.at = "refine" /\ work'.of = work.of
    BY <1>1, <1>6, PlaceChanges
  <2>2. Working(work')
    BY <1>1, <1>6, <2>1 DEF Working, Analyze, Analyzing
  <2> QED BY <1>4, <2>1, <2>2
<1>7. CASE RefineFaceResult /\ work' = [work EXCEPT !.at = "check", !.of = IF drive[p].rev = work.of THEN work.of ELSE Mixed]
  <2> DEFINE of == IF drive[p].rev = work.of THEN work.of ELSE Mixed
  <2>1. of \in 0 .. MaxRev
    BY <1>1, Constants DEF Works, Mixed
  <2>2. work' \in Works /\ work'.photo = p /\ work'.by = work.by /\ work'.rev = work.rev /\ work'.at = "check" /\ work'.of = of
    BY <1>1, <1>7, <2>1 DEF Works
  <2>3. drive[p].rev = work.rev => of = work.rev
    BY <1>1, <1>7 DEF Working, RefineFaceResult, Analyzing
  <2> HIDE DEF of
  <2>4. Working(work')
    BY <1>1, <2>2, <2>3 DEF Working
  <2> QED BY <1>4, <2>2, <2>4
<1> QED BY <1>3, <1>5, <1>6, <1>7 DEF FaceImage, Analyze, RefineFaceResult, Go

(* The photo is still the one the job is for, so its bytes were read.       *)
LEMMA CheckKeeps ==
  ASSUME AInv, CheckMedia
  PROVE  AInv'
<1> DEFINE p == work.photo
<1>0. work # NoWork /\ work.at = "check"
  BY DEF CheckMedia, Analyzing
<1>1. Working(work) /\ work \in Works /\ p \in Photos /\ drive[p].rev \in 1 .. MaxRev /\ DriveOK /\ Fits(db) /\ ~cleared
  BY <1>0, AtWork
<1>2. Fits(db')
  BY <1>1, RefreshFits DEF CheckMedia
<1>3. UNCHANGED <<drive, enabled, settings, pass, run, recon, control, cleared>>
  BY DEF CheckMedia, InAnalysis, history
<1>4. ASSUME NEW at \in {"write", "fail"}, work' = [work EXCEPT !.at = at], at = "write" => drive[p].rev = work.rev
      PROVE  AInv'
  <2>1. work' \in Works /\ work'.photo = p /\ work'.by = work.by /\ work'.rev = work.rev /\ work'.at = at /\ work'.of = work.of
    <3>1. at \in {"queue", "read", "analyze", "refine", "check", "write", "done", "fail"}
      BY <1>4
    <3> QED BY <1>1, <1>4, <3>1 DEF Works
  <2>2. Working(work')
    BY <1>0, <1>1, <1>4, <2>1 DEF Working
  <2> QED BY <1>0, <1>1, <1>2, <1>3, <2>1, <2>2, AtWork, WorkStep
<1>5. drive[p] = [rev |-> work.rev, marked |-> FALSE, lost |-> FALSE] => drive[p].rev = work.rev
  OBVIOUS
<1> QED BY <1>4, <1>5 DEF CheckMedia, Go

(* What is saved was found in the version of the row.                       *)
LEMMA WriteKeeps ==
  ASSUME AInv, WriteResult
  PROVE  AInv'
<1> DEFINE p == work.photo
<1>0. work # NoWork /\ work.at = "write"
  BY DEF WriteResult, Analyzing
<1>1. Working(work) /\ work \in Works /\ p \in Photos /\ work.rev \in 1 .. MaxRev /\ Fits(db) /\ ~cleared
  BY <1>0, AtWork
<1>2. UNCHANGED <<drive, enabled, settings, pass, run, recon, control>>
  BY DEF WriteResult, InAnalysis
<1>3. CASE UNCHANGED <<db, cleared>> /\ Go("fail")
  BY <1>0, <1>2, <1>3, FailKeeps DEF Go
<1>4. ASSUME Acceptable(db[p], work.rev), UNCHANGED cleared, Go("done"),
             NEW f \in {NoFaces, [of |-> work.of, at |-> work.rev, review |-> FALSE]},
             db' = [db EXCEPT ![p].face = f, ![p].job = [Job(work.rev) EXCEPT !.status = "done"]]
      PROVE  AInv'
  <2> DEFINE j == [Job(work.rev) EXCEPT !.status = "done"]
             row == [db[p] EXCEPT !.face = f, !.job = j]
  <2>1. j \in JobTypes /\ j.rev = work.rev /\ j.status = "done"
    BY <1>1, JobIs DEF JobTypes
  <2>2. db[p] \in Rows /\ RowFits(db[p], drive[p].rev)
    BY <1>1 DEF Fits
  <2>3. f \in {NoFaces} \cup FaceTypes /\ (f # NoFaces => f.of = work.rev /\ f.at = work.rev)
    <3>1. work.of \in 0 .. MaxRev /\ work.of = work.rev
      BY <1>0, <1>1 DEF Works, Working
    <3>2. [of |-> work.of, at |-> work.rev, review |-> FALSE] \in FaceTypes
      BY <1>1, <3>1 DEF FaceTypes
    <3> DEFINE found == [of |-> work.of, at |-> work.rev, review |-> FALSE]
    <3>3. found \in FaceTypes /\ found.of = work.rev /\ found.at = work.rev
      BY <3>1, <3>2
    <3>4. f = NoFaces \/ f = found
      BY <1>4
    <3> HIDE DEF found
    <3> QED BY <3>3, <3>4
  <2> HIDE DEF j
  <2>4. row \in Rows /\ row.rev = db[p].rev /\ row.hidden = db[p].hidden /\ row.face = f /\ row.kept = db[p].kept /\ row.job = j
    BY <2>1, <2>2, <2>3 DEF Rows
  <2>5. RowFits(row, drive[p].rev)
    BY <1>1, <1>4, <2>1, <2>2, <2>3, <2>4 DEF RowFits, Acceptable, Working
  <2>6. db' = [db EXCEPT ![p] = row]
    BY <1>4 DEF j
  <2> HIDE DEF row
  <2>7. Fits(db')
    BY <1>1, <2>4, <2>5, <2>6, OneRowFits DEF Fitting
  <2>8. work' \in Works /\ work'.photo = p /\ work'.by = work.by /\ work'.rev = work.rev /\ work'.at = "done"
    BY <1>1, <1>4, PlaceChanges DEF Go
  <2>9. Working(work')
    BY <1>1, <2>8 DEF Working
  <2> QED BY <1>0, <1>1, <1>2, <1>4, <2>7, <2>8, <2>9, AtWork, WorkStep
<1> QED BY <1>3, <1>4 DEF WriteResult, history

(* A job is failed as often as it was when it was taken, and once more.     *)
LEMMA FailJobFits ==
  ASSUME NEW d, Fits(d), NEW w, Working(w)
  PROVE  Fits(FailJob(d, w))
<1> DEFINE p == w.photo
           j == [rev |-> w.rev, attempts |-> w.attempts + 1,
                 status |-> IF w.attempts + 1 >= MaxTries THEN "failed" ELSE "queued"]
           row == [d[p] EXCEPT !.job = j]
<1>1. w \in Works /\ p \in Photos /\ w.rev \in 1 .. MaxRev /\ w.attempts \in 0 .. MaxTries - 1 /\ w.rev <= drive[p].rev
  BY DEF Working, Works
<1>2. d[p] \in Rows /\ RowFits(d[p], drive[p].rev)
  BY <1>1 DEF Fits
<1>3. w.attempts + 1 \in 0 .. MaxTries
  BY <1>1, Constants
<1>4. j \in JobTypes /\ j.rev = w.rev /\ (j.status = "queued" => j.attempts < MaxTries)
  BY <1>1, <1>3, Constants DEF JobTypes
<1> HIDE DEF j
<1>5. row \in Rows /\ row.rev = d[p].rev /\ row.hidden = d[p].hidden /\ row.face = d[p].face /\ row.kept = d[p].kept /\ row.job = j
  BY <1>2, <1>4 DEF Rows
<1>6. RowFits(row, drive[p].rev)
  BY <1>1, <1>2, <1>4, <1>5 DEF RowFits
<1>7. FailJob(d, w) \in {d, [d EXCEPT ![p] = row]}
  BY DEF FailJob, j
<1> HIDE DEF row
<1> QED BY <1>1, <1>5, <1>6, <1>7, OneRowFits DEF Fitting

LEMMA EndKeeps ==
  ASSUME AInv, EndRequest \/ LeaveRequest
  PROVE  AInv'
<1>0. work # NoWork /\ work.by = "request" /\ work' = NoWork
  BY DEF EndRequest, LeaveRequest
<1>1. UNCHANGED <<drive, enabled, settings, pass, run, recon, control, cleared>>
  BY DEF EndRequest, LeaveRequest, InAnalysis, history
<1>2. run.pc # "analyze" /\ Fits(db) /\ Working(work) /\ cleared \in BOOLEAN
  BY <1>0, AtWork
<1>3. Fits(db')
  BY <1>2, FailJobFits DEF EndRequest, LeaveRequest
<1>4. cleared => AllEmpty(db')
  <2> SUFFICES ASSUME cleared PROVE AllEmpty(db')
    OBVIOUS
  <2>1. work.at = "queue" /\ AllEmpty(db)
    BY <1>0, AtWork, DatabaseFits
  <2> QED BY <2>1 DEF EndRequest, LeaveRequest
<1> QED BY <1>0, <1>1, <1>2, <1>3, <1>4, WorkStep

-----------------------------------------------------------------------------
(* Steps of the background run                                              *)

LEMMA RunStep ==
  ASSUME AInv, UNCHANGED <<drive, settings, recon, control, cleared>>, Fits(db'),
         enabled' \in BOOLEAN, pass' \in Passes, run' \in Runs,
         \A row \in run'.rows : row[2] <= drive[row[1]].rev,
         work' # NoWork => Working(work'),
         run'.pc = "analyze" => Working(work') /\ work'.by = "run",
         run.pc = "clear" => run'.pc = "clear",
         cleared => /\ AllEmpty(db') /\ ~enabled' /\ run'.pc \in {"idle", "begin", "end", "clear"}
                    /\ (work' # NoWork => work'.by = "request" /\ work'.at = "queue")
  PROVE  AInv'
<1>1. DriveOK' /\ DatabaseOK'
  BY DEF AInv, DriveOK, Fits, DatabaseOK
<1>2. SettingsOK' /\ WorkersOK'
  BY DEF AInv, SettingsOK, WorkersOK
<1>3. WorkFits' /\ RunFits'
  BY DEF WorkFits, RunFits, Working
<1>4. ClearLocks'
  BY DEF AInv, ClearLocks, Clearing
<1>5. (cleared => Quiet)'
  BY DEF AInv, Quiet, AllEmpty, Empty
<1> QED BY <1>1, <1>2, <1>3, <1>4, <1>5 DEF AInv

(* What a step of the run finds.                                            *)
LEMMA AtRun ==
  ASSUME AInv
  PROVE  /\ DriveOK /\ Fits(db) /\ run \in Runs /\ pass \in Passes /\ enabled \in BOOLEAN
         /\ \A row \in run.rows : row[2] <= drive[row[1]].rev
         /\ work # NoWork => Working(work)
         /\ run.pc = "analyze" => Working(work) /\ work.by = "run"
         /\ cleared => /\ AllEmpty(db) /\ ~enabled /\ ~settings.faces
                       /\ run.pc \in {"idle", "begin", "end", "clear"}
                       /\ (work # NoWork => work.by = "request" /\ work.at = "queue")
  BY DatabaseFits DEF AInv, WorkersOK, SettingsOK, WorkFits, RunFits, Quiet

(* A run that has only come to another place.                               *)
LEMMA RunMoves ==
  ASSUME NEW r \in Runs,
         NEW pc \in {"idle", "begin", "prepare", "fill", "loop", "wait", "analyze", "end", "clear"}
  PROVE  [r EXCEPT !.pc = pc] \in Runs /\ [r EXCEPT !.pc = pc].pc = pc /\ [r EXCEPT !.pc = pc].rows = r.rows
  BY DEF Runs

LEMMA MoveKeeps ==
  ASSUME AInv, NEW pc \in {"idle", "begin", "prepare", "fill", "loop", "wait", "end"},
         run' = [run EXCEPT !.pc = pc], run.pc # "clear",
         UNCHANGED <<drive, db, enabled, settings, pass, recon, work, control, cleared>>,
         cleared => pc = "end"
  PROVE  AInv'
<1>1. pc \in {"idle", "begin", "prepare", "fill", "loop", "wait", "analyze", "end", "clear"}
  OBVIOUS
<1>2. run' \in Runs /\ run'.pc = pc /\ run'.rows = run.rows
  BY <1>1, AtRun, RunMoves
<1> QED BY <1>2, AtRun, RunStep

LEMMA RunMovesKeep ==
  ASSUME AInv, RunBegin \/ RunGivesUp \/ RunLoop \/ RunRests
  PROVE  AInv'
<1>1. UNCHANGED <<drive, db, enabled, settings, pass, recon, work, control, cleared>> /\ run.pc # "clear"
  BY DEF RunBegin, RunGivesUp, RunLoop, RunRests, InRun, WithinRun, RunAt, history
<1>2. CASE RunBegin
  BY <1>1, <1>2, AtRun, MoveKeeps DEF RunBegin
<1>3. CASE RunGivesUp
  BY <1>1, <1>3, MoveKeeps DEF RunGivesUp
<1>4. CASE RunLoop
  <2>1. ~cleared
    BY <1>4, AtRun DEF RunLoop, RunAt
  <2> QED BY <1>1, <1>4, <2>1, MoveKeeps DEF RunLoop
<1>5. CASE RunRests
  BY <1>1, <1>5, MoveKeeps DEF RunRests
<1> QED BY <1>2, <1>3, <1>4, <1>5

LEMMA BacklogFits ==
  ASSUME NEW d, Fits(d), DriveOK
  PROVE  Backlog(d) \subseteq Photos \X (1 .. MaxRev) /\ \A row \in Backlog(d) : row[2] <= drive[row[1]].rev
<1>1. ASSUME NEW p \in Photos, d[p].rev > 0 PROVE d[p].rev \in 1 .. MaxRev /\ d[p].rev <= drive[p].rev
  <2>1. d[p].rev \in 0 .. MaxRev /\ d[p].rev <= drive[p].rev
    BY DEF Fits, RowFits, Rows
  <2> QED BY <1>1, <2>1, Constants
<1> QED BY <1>1 DEF Backlog

LEMMA PrepareQueueKeeps ==
  ASSUME AInv, RunPrepare
  PROVE  AInv'
<1>1. ~cleared /\ run.pc = "prepare" /\ run \in Runs
  BY AtRun DEF RunPrepare, RunAt
<1>2. Fits(db')
  BY AtRun, HideMarkedFits DEF RunPrepare
<1>3. UNCHANGED <<drive, settings, pass, recon, work, control, cleared>>
  BY DEF RunPrepare, InRun, WithinRun, history
<1>4. CASE enabled' = enabled /\ run' = [run EXCEPT !.pc = "loop"]
  <2>1. run' \in Runs /\ run'.pc = "loop" /\ run'.rows = run.rows
    BY <1>1, <1>4, RunMoves
  <2> QED BY <1>1, <1>2, <1>3, <1>4, <2>1, AtRun, RunStep
<1>5. CASE enabled' = TRUE /\ run' = [run EXCEPT !.pc = "fill", !.rows = Backlog(db')]
  <2>1. Backlog(db') \subseteq Photos \X (1 .. MaxRev) /\ \A row \in Backlog(db') : row[2] <= drive[row[1]].rev
    BY <1>2, AtRun, BacklogFits
  <2>2. run' \in Runs /\ run'.pc = "fill" /\ run'.rows = Backlog(db')
    BY <1>1, <1>5, <2>1 DEF Runs
  <2> QED BY <1>1, <1>2, <1>3, <1>5, <2>1, <2>2, AtRun, RunStep
<1> QED BY <1>4, <1>5 DEF RunPrepare

LEMMA FillKeeps ==
  ASSUME AInv, RunFill
  PROVE  AInv'
<1>1. ~cleared /\ run.pc = "fill" /\ run \in Runs /\ Fits(db) /\ enabled \in BOOLEAN
  BY AtRun DEF RunFill, RunAt
<1>2. ASSUME NEW p \in Photos PROVE Filled(p) \in Fitting(drive[p].rev)
  <2>1. db[p] \in Rows /\ RowFits(db[p], drive[p].rev)
    BY <1>1 DEF Fits
  <2>2. ASSUME NEW row \in run.rows, row[1] = p
        PROVE  [db[p] EXCEPT !.job = Job(row[2])] \in Fitting(drive[p].rev)
    <3>1. row[2] \in 1 .. MaxRev /\ row[2] <= drive[p].rev
      BY <1>1, <2>2, AtRun DEF Runs
    <3>2. Job(row[2]) \in JobTypes /\ Job(row[2]).rev = row[2] /\ Job(row[2]).attempts = 0
      BY <3>1, JobIs
    <3> DEFINE x == [db[p] EXCEPT !.job = Job(row[2])]
    <3>3. x \in Rows /\ x.rev = db[p].rev /\ x.hidden = db[p].hidden /\ x.face = db[p].face /\ x.kept = db[p].kept /\ x.job = Job(row[2])
      BY <2>1, <3>2 DEF Rows
    <3>4. RowFits(x, drive[p].rev)
      BY <2>1, <3>1, <3>2, <3>3, Constants DEF RowFits
    <3> QED BY <3>3, <3>4 DEF Fitting
  <2> DEFINE row == CHOOSE row \in run.rows : row[1] = p
  <2>3. (\E x \in run.rows : x[1] = p) => row \in run.rows /\ row[1] = p
    OBVIOUS
  <2> HIDE DEF row
  <2>4. (\E x \in run.rows : x[1] = p) => [db[p] EXCEPT !.job = Job(row[2])] \in Fitting(drive[p].rev)
    BY <2>2, <2>3
  <2>5. Filled(p) = db[p] \/ ((\E x \in run.rows : x[1] = p) /\ Filled(p) = [db[p] EXCEPT !.job = Job(row[2])])
    BY DEF Filled, row
  <2> QED BY <2>1, <2>4, <2>5 DEF Fitting
<1>3. Fits([p \in Photos |-> Filled(p)])
  BY <1>2 DEF Fits, Fitting
<1>4. UNCHANGED <<drive, settings, pass, recon, work, control, cleared>>
  BY DEF RunFill, InRun, WithinRun, history
<1>5. ASSUME NEW pc \in {"loop", "end"}, run' = [run EXCEPT !.pc = pc, !.rows = {}], Fits(db'), enabled' \in BOOLEAN
      PROVE  AInv'
  <2>1. run' \in Runs /\ run'.pc = pc /\ run'.rows = {}
    BY <1>1, <1>5 DEF Runs
  <2> QED BY <1>1, <1>4, <1>5, <2>1, AtRun, RunStep
<1> QED BY <1>1, <1>3, <1>5 DEF RunFill

(* Whatever fails ends the run; a backfill that is broken off may leave the *)
(* analysis on.                                                             *)
LEMMA FailsKeeps ==
  ASSUME AInv, RunCannotPrepare \/ RunFails
  PROVE  AInv'
<1>1. /\ ~cleared /\ run.pc \in {"prepare", "fill", "loop", "wait", "analyze"} /\ run \in Runs /\ enabled \in BOOLEAN
  BY AtRun DEF RunCannotPrepare, RunFails, RunAt
<1>2. UNCHANGED <<drive, settings, pass, recon, control, cleared>>
  BY DEF RunCannotPrepare, RunFails, InRun, WithinRun, history
<1>3. Fits(db')
  <2>1. DriveOK /\ Fits(db)
    BY AtRun
  <2>2. \A ps : Fits(HideMarked(db, ps))
    BY <2>1, HideMarkedFits
  <2>3. db' = db => Fits(db')
    BY <2>1
  <2> QED BY <2>2, <2>3 DEF RunCannotPrepare, RunFails
<1>4. enabled' \in BOOLEAN /\ work' \in {work, NoWork}
  BY <1>1 DEF RunCannotPrepare, RunFails
<1>5. run' \in Runs /\ run'.pc = "end" /\ run'.rows \in {run.rows, {}}
  <2>1. CASE run' = [run EXCEPT !.pc = "end"]
    BY <1>1, <2>1, RunMoves
  <2>2. CASE run' = [run EXCEPT !.pc = "end", !.rows = {}]
    BY <1>1, <2>2 DEF Runs
  <2> QED BY <2>1, <2>2 DEF RunCannotPrepare, RunFails
<1> QED BY <1>1, <1>2, <1>3, <1>4, <1>5, AtRun, RunStep

LEMMA TakeKeeps ==
  ASSUME AInv, NEW p \in Photos, RunTake(p)
  PROVE  AInv'
<1>1. ~cleared /\ run.pc = "wait" /\ run \in Runs /\ Fits(db)
  BY AtRun DEF RunTake, RunAt
<1>2. p \in Ready
  BY DEF RunTake, Due
<1>3. db[p] \in Rows /\ RowFits(db[p], drive[p].rev) /\ db[p].job # NoJob /\ db[p].job.status = "queued"
  BY <1>1, <1>2 DEF Fits, Ready
<1>4. db[p].job \in JobTypes
  BY <1>3 DEF Rows
<1>5. /\ db[p].job.rev \in 1 .. MaxRev /\ db[p].job.rev <= drive[p].rev
      /\ db[p].job.attempts \in 0 .. MaxTries - 1
  <2>1. db[p].job.rev \in 1 .. MaxRev /\ db[p].job.attempts \in 0 .. MaxTries
    BY <1>4 DEF JobTypes
  <2> QED BY <1>3, <2>1, Constants DEF RowFits
<1>6. Working(work') /\ work'.by = "run"
  BY <1>5, NewWork DEF RunTake
<1>7. run' \in Runs /\ run'.pc = "analyze" /\ run'.rows = run.rows
  BY <1>1, RunMoves DEF RunTake
<1> QED BY <1>1, <1>6, <1>7, AtRun, RunStep DEF RunTake, InRun, WithinRun, history

LEMMA DoneKeeps ==
  ASSUME AInv, RunDone
  PROVE  AInv'
<1>1. ~cleared /\ run.pc = "analyze" /\ run \in Runs /\ Fits(db) /\ Working(work)
  BY AtRun DEF RunDone, RunAt
<1>2. UNCHANGED <<drive, enabled, settings, pass, recon, control, cleared>> /\ work' = NoWork
  BY DEF RunDone, InRun, WithinRun, history
<1>3. Fits(db')
  BY <1>1, FailJobFits DEF RunDone
<1>4. run' \in Runs /\ run'.pc \in {"end", "loop"} /\ run'.rows = run.rows
  <2>1. CASE run' = [run EXCEPT !.pc = "end"]
    BY <1>1, <2>1, RunMoves
  <2>2. CASE run' = [run EXCEPT !.pc = "loop", !.n = run.n + 1, !.committed = (run.committed \/ work.at = "done")]
    <3>1. run.n + 1 \in Nat /\ (run.committed \/ work.at = "done") \in BOOLEAN
      BY <1>1 DEF Runs
    <3> QED BY <1>1, <2>2, <3>1 DEF Runs
  <2> QED BY <2>1, <2>2 DEF RunDone
<1> QED BY <1>1, <1>2, <1>3, <1>4, AtRun, RunStep

LEMMA StopsKeeps ==
  ASSUME AInv, RunStops
  PROVE  AInv'
<1>1. ~cleared /\ run.pc = "analyze" /\ Fits(db) /\ Working(work) /\ work.by = "run"
  BY AtRun DEF RunStops, RunAt
<1>2. work' \in Works /\ work'.photo = work.photo /\ work'.by = work.by /\ work'.rev = work.rev /\ work'.at = "fail"
  BY <1>1, PlaceChanges DEF RunStops, Go, Working
<1>3. Working(work')
  BY <1>1, <1>2 DEF Working
<1> QED BY <1>1, <1>2, <1>3, AtRun, RunStep DEF RunStops, InRun, WithinRun, history

LEMMA RunEndKeeps ==
  ASSUME AInv, RunEnd \/ RunEndsUnordered \/ LoopRun
  PROVE  AInv'
<1>1. IdleRun \in Runs /\ NewRun \in Runs /\ IdleRun.pc = "idle" /\ NewRun.pc = "begin" /\ IdleRun.rows = {} /\ NewRun.rows = {}
  BY DEF IdleRun, NewRun, Runs
<1>2. CASE RunEnd
  <2>1. pass' \in Passes
    BY <1>2, AtRun DEF RunEnd, OrderPass, OrderNoPass, Schedule, Passes
  <2> QED BY <1>1, <1>2, <2>1, AtRun, RunStep DEF RunEnd, RunAt
<1>3. CASE LoopRun
  BY <1>1, <1>3, AtRun, RunStep DEF LoopRun, history
<1>4. CASE RunEndsUnordered
  BY <1>1, <1>4, AtRun, RunStep DEF RunEndsUnordered, RunAt, OrderNoPass
<1> QED BY <1>2, <1>3, <1>4

-----------------------------------------------------------------------------
(* Steps of the second worker                                               *)

LEMMA PassTypes ==
  ASSUME pass \in Passes
  PROVE  /\ Schedule(pass) \in Passes /\ Begun(pass) \in Passes
         /\ Batched(pass) \in Passes /\ Rethought(pass) \in Passes
<1>1. Batches \in 0 .. Batches /\ 0 \in 0 .. Batches
  BY Constants
<1>2. Schedule(pass) \in Passes
  BY DEF Schedule, Passes
<1>3. Begun(pass) \in Passes
  BY <1>1 DEF Begun, Passes
<1>4. Rethought(pass) \in Passes
  BY <1>1 DEF Rethought, Passes
<1>5. Batched(pass) \in Passes
  <2>1. pass.left > 1 => pass.left - 1 \in 0 .. Batches
    BY Constants DEF Passes
  <2>2. CASE pass.left > 1
    BY <2>1, <2>2 DEF Batched, Passes
  <2>3. CASE ~(pass.left > 1)
    BY <1>1, <2>3 DEF Batched, Passes
  <2> QED BY <2>2, <2>3
<1> QED BY <1>2, <1>3, <1>4, <1>5

LEMMA ReconStep ==
  ASSUME AInv, UNCHANGED <<drive, db, enabled, settings, run, work, control, cleared>>,
         pass' \in Passes, recon' \in Recons, recon.pc # "clear"
  PROVE  AInv'
<1>1. DriveOK' /\ DatabaseOK' /\ SettingsOK' /\ WorkersOK'
  BY DEF AInv, DriveOK, DatabaseOK, SettingsOK, WorkersOK
<1>2. WorkFits' /\ RunFits'
  BY DEF AInv, WorkFits, RunFits, Working
<1>3. ClearLocks'
  BY DEF AInv, ClearLocks, Clearing
<1>4. (cleared => Quiet)'
  BY DEF AInv, Quiet
<1> QED BY <1>1, <1>2, <1>3, <1>4 DEF AInv

LEMMA ReconKeeps ==
  ASSUME AInv, Reconciling \/ ReconStops \/ LoopReconcile
  PROVE  AInv'
<1>1. recon \in Recons /\ pass \in Passes
  BY DEF AInv, WorkersOK, SettingsOK
<1>2. UNCHANGED <<drive, db, enabled, settings, run, work, control, cleared>> /\ recon.pc # "clear"
  BY DEF Reconciling, ReconChecks, ReconBegin, ReconIdles, ReconBatch, ReconStops, LoopReconcile, InRecon, history
<1>3. pass' \in Passes
  BY <1>1, PassTypes
     DEF Reconciling, ReconChecks, ReconBegin, ReconIdles, ReconBatch, ReconStops, LoopReconcile
<1>4. recon' \in Recons
  <2>1. IdleRecon \in Recons
    BY DEF IdleRecon, Recons
  <2>2. \A pc \in {"begin", "ready", "batch"} : [recon EXCEPT !.pc = pc] \in Recons
    BY <1>1 DEF Recons
  <2>3. StartedRecon(recon) \in Recons
    BY <1>1, <2>2 DEF StartedRecon
  <2> QED BY <2>1, <2>2, <2>3 DEF Reconciling, ReconChecks, ReconBegin, ReconIdles, ReconBatch, ReconStops, LoopReconcile
<1> QED BY <1>2, <1>3, <1>4, ReconStep

-----------------------------------------------------------------------------
(* Orders                                                                   *)

LEMMA OrderStep ==
  ASSUME AInv, UNCHANGED <<drive, db, run, recon, work>>,
         enabled' \in BOOLEAN, settings' \in Settings, pass' \in Passes, cleared' \in BOOLEAN,
         NEW r \in Requests, NEW c \in Controls, control' = [control EXCEPT ![r] = c], c.pc \notin {"recon", "gate"},
         cleared' => cleared /\ ~settings'.faces /\ (enabled' => enabled)
  PROVE  AInv'
<1>1. DriveOK' /\ DatabaseOK' /\ SettingsOK' /\ WorkersOK'
  BY DEF AInv, DriveOK, DatabaseOK, SettingsOK, WorkersOK
<1>2. WorkFits' /\ RunFits'
  BY DEF AInv, WorkFits, RunFits, Working
<1>3. ClearLocks'
  BY DEF AInv, WorkersOK, ClearLocks, Clearing
<1>4. (cleared => Quiet)'
  BY DEF AInv, Quiet
<1> QED BY <1>1, <1>2, <1>3, <1>4 DEF AInv

LEMMA AtControl ==
  ASSUME AInv, NEW r \in Requests
  PROVE  /\ control[r] \in Controls /\ control \in [Requests -> Controls]
         /\ control[r].saves \in Settings
         /\ settings \in Settings /\ enabled \in BOOLEAN /\ cleared \in BOOLEAN /\ pass \in Passes
         /\ \A pc \in {"idle", "save", "enable", "act", "run", "recon", "gate"} :
               [control[r] EXCEPT !.pc = pc] \in Controls /\ [control[r] EXCEPT !.pc = pc].pc = pc
         /\ NoOrder \in Controls /\ NoOrder.pc = "idle"
<1>1. control[r] \in Controls
  BY DEF AInv, WorkersOK
<1>2. control[r].saves \in Settings
  BY <1>1 DEF Controls, Settings
<1>3. \A pc \in {"idle", "save", "enable", "act", "run", "recon", "gate"} :
         [control[r] EXCEPT !.pc = pc] \in Controls /\ [control[r] EXCEPT !.pc = pc].pc = pc
  BY <1>1 DEF Controls
<1>4. NoOrder \in Controls /\ NoOrder.pc = "idle"
  BY DEF NoOrder, Controls
<1> QED BY <1>1, <1>2, <1>3, <1>4 DEF AInv, WorkersOK, SettingsOK

LEMMA ReadSettingsKeeps ==
  ASSUME AInv, NEW r \in Requests, NEW order \in Orders, ReadSettings(r, order)
  PROVE  AInv'
<1>1. PICK s \in Wanted(order, settings) :
         control' = [control EXCEPT ![r] = [pc |-> IF order = "retry" THEN "act" ELSE "save", order |-> order, saves |-> s]]
  BY DEF ReadSettings
<1>2. s \in Settings
  <2>1. \A x \in BOOLEAN : /\ [settings EXCEPT !.faces = x] \in Settings /\ [settings EXCEPT !.reconcile = x] \in Settings
    BY AtControl DEF Settings
  <2>2. [faces |-> FALSE, reconcile |-> FALSE] \in Settings /\ settings \in Settings
    BY AtControl DEF Settings
  <2>3. Wanted(order, settings) \subseteq Settings
    BY <2>1, <2>2 DEF Wanted
  <2> QED BY <1>1, <2>3
<1> DEFINE c == [pc |-> IF order = "retry" THEN "act" ELSE "save", order |-> order, saves |-> s]
<1>3. c \in Controls /\ c.pc \notin {"recon", "gate"}
  BY <1>2 DEF Controls, Settings
<1> HIDE DEF c
<1>4. control' = [control EXCEPT ![r] = c]
  BY <1>1 DEF c
<1>5. cleared => ~settings.faces
  BY DEF AInv, Quiet
<1> QED BY <1>3, <1>4, <1>5, AtControl, OrderStep DEF ReadSettings, history

LEMMA SaveKeeps ==
  ASSUME AInv, NEW r \in Requests, SaveSettings(r) \/ SetFaceProcessingEnabled(r)
  PROVE  AInv'
<1>1. CASE SaveSettings(r)
  <2>1. settings' \in Settings /\ pass' \in Passes /\ cleared' \in BOOLEAN
    BY <1>1, AtControl, PassTypes DEF SaveSettings, OrderNoPass, Settings
  <2>2. cleared' => cleared /\ ~settings'.faces
    BY <1>1, AtControl DEF SaveSettings
  <2> DEFINE c == [control[r] EXCEPT !.pc = "enable"]
  <2>3. c \in Controls /\ c.pc = "enable"
    BY AtControl
  <2>4. control' = [control EXCEPT ![r] = c]
    BY <1>1 DEF SaveSettings, Advance
  <2> HIDE DEF c
  <2> QED BY <1>1, <2>1, <2>2, <2>3, <2>4, AtControl, OrderStep DEF SaveSettings
<1>2. CASE SetFaceProcessingEnabled(r)
  <2>1. enabled' \in BOOLEAN /\ (enabled' => enabled)
    BY <1>2, AtControl DEF SetFaceProcessingEnabled, Settings
  <2>2. cleared => ~settings.faces
    BY DEF AInv, Quiet
  <2> DEFINE c == [control[r] EXCEPT !.pc = "act"]
  <2>3. c \in Controls /\ c.pc = "act"
    BY AtControl
  <2>4. control' = [control EXCEPT ![r] = c]
    BY <1>2 DEF SetFaceProcessingEnabled, Advance
  <2> HIDE DEF c
  <2> QED BY <1>2, <2>1, <2>2, <2>3, <2>4, AtControl, OrderStep DEF SetFaceProcessingEnabled, history
<1> QED BY <1>1, <1>2

(* What an order makes of both workers; a lock that is held stays.          *)
LEMMA WorkersAfter ==
  ASSUME AInv, NEW o \in Controls
  PROVE  /\ RunAfter(o) \in Runs /\ (run.pc = "clear" => RunAfter(o) = run)
         /\ RunAfter(o).pc = run.pc \/ (run.pc = "idle" /\ RunAfter(o).pc = "begin")
         /\ RunAfter(o).rows = run.rows \/ RunAfter(o).rows = {}
         /\ ReconAfter(o) \in Recons /\ (recon.pc = "clear" => ReconAfter(o).pc = "clear")
<1>1. run \in Runs /\ recon \in Recons
  BY DEF AInv, WorkersOK
<1>2. Started(run) \in Runs /\ (run.pc # "idle" => Started(run) = run)
      /\ (run.pc = "idle" => Started(run).pc = "begin" /\ Started(run).rows = {})
  BY <1>1 DEF Started, NewRun, IdleRun, Runs
<1>3. Cancelled(run) \in Runs /\ (run.pc = "clear" => Cancelled(run) = run)
      /\ Cancelled(run).pc = run.pc /\ Cancelled(run).rows = run.rows
  BY <1>1 DEF Cancelled, Runs
<1>4. RunAfter(o) \in {run, Started(run), Cancelled(run)}
  BY DEF RunAfter
<1>5. StartedRecon(recon) \in Recons /\ (recon.pc = "clear" => StartedRecon(recon).pc = "clear")
  BY <1>1 DEF StartedRecon, Recons
<1>6. CancelledRecon(recon) \in Recons /\ (recon.pc = "clear" => CancelledRecon(recon).pc = "clear")
  BY <1>1 DEF CancelledRecon, Recons
<1>7. ReconAfter(o) \in {recon, StartedRecon(recon), CancelledRecon(recon)}
  BY DEF ReconAfter
<1> QED BY <1>1, <1>2, <1>3, <1>4, <1>5, <1>6, <1>7

(* A job that failed is queued again, as it was at first.                   *)
LEMMA RetryFits ==
  ASSUME NEW d, Fits(d), DriveOK
  PROVE  /\ Fits([p \in Photos |-> [d[p] EXCEPT !.job = Retried(d[p].job)]])
         /\ AllEmpty(d) => AllEmpty([p \in Photos |-> [d[p] EXCEPT !.job = Retried(d[p].job)]])
<1>1. ASSUME NEW p \in Photos
      PROVE  /\ [d[p] EXCEPT !.job = Retried(d[p].job)] \in Fitting(drive[p].rev)
             /\ Empty(d[p]) => Empty([d[p] EXCEPT !.job = Retried(d[p].job)])
  <2> DEFINE j == Retried(d[p].job)
             row == [d[p] EXCEPT !.job = j]
  <2>1. d[p] \in Rows /\ RowFits(d[p], drive[p].rev)
    BY DEF Fits
  <2>2. j \in {NoJob} \cup JobTypes /\ (d[p].job = NoJob => j = NoJob)
        /\ (j # NoJob => d[p].job # NoJob /\ j.rev = d[p].job.rev /\ (j.attempts = 0 \/ j = d[p].job))
    <3>1. CASE d[p].job = NoJob
      BY <3>1 DEF Retried
    <3>2. CASE d[p].job # NoJob
      <4>1. d[p].job \in JobTypes /\ d[p].job.rev \in 1 .. MaxRev
        BY <2>1, <3>2 DEF Rows, JobTypes
      <4>2. Job(d[p].job.rev) \in JobTypes /\ Job(d[p].job.rev).rev = d[p].job.rev /\ Job(d[p].job.rev).attempts = 0
        BY <4>1, JobIs
      <4> QED BY <3>2, <4>1, <4>2 DEF Retried
    <3> QED BY <3>1, <3>2
  <2> HIDE DEF j
  <2>3. row \in Rows /\ row.rev = d[p].rev /\ row.hidden = d[p].hidden /\ row.face = d[p].face /\ row.kept = d[p].kept /\ row.job = j
    BY <2>1, <2>2 DEF Rows
  <2>4. RowFits(row, drive[p].rev)
    BY <2>1, <2>2, <2>3, Constants DEF RowFits
  <2> QED BY <2>2, <2>3, <2>4 DEF Fitting, Empty, j
<1> QED BY <1>1 DEF Fits, AllEmpty, Fitting

(* The general step of an order.                                            *)
LEMMA ControlStep ==
  ASSUME AInv, UNCHANGED <<drive, enabled, settings, work, cleared>>, Fits(db'), pass' \in Passes,
         run' \in Runs, recon' \in Recons, control' \in [Requests -> Controls],
         run'.pc # "analyze" \/ run'.pc = run.pc, \A row \in run'.rows : row \in run.rows,
         ClearLocks',
         cleared => AllEmpty(db') /\ run'.pc \in {"idle", "begin", "end", "clear"}
  PROVE  AInv'
<1>1. DriveOK' /\ DatabaseOK' /\ SettingsOK' /\ WorkersOK'
  BY DEF AInv, DriveOK, Fits, DatabaseOK, SettingsOK, WorkersOK
<1>2. WorkFits' /\ RunFits'
  BY DEF AInv, WorkFits, RunFits, Working
<1>3. (cleared => Quiet)'
  BY DEF AInv, Quiet, AllEmpty, Empty
<1> QED BY <1>1, <1>2, <1>3 DEF AInv

LEMMA ActKeeps ==
  ASSUME AInv, NEW r \in Requests, Act(r)
  PROVE  AInv'
<1> DEFINE o == control[r]
           c == IF o.order = "clear" THEN [o EXCEPT !.pc = "run"] ELSE NoOrder
<1>1. o \in Controls /\ c \in Controls /\ c.pc \notin {"recon", "gate"} /\ control \in [Requests -> Controls]
  BY AtControl
<1>2. UNCHANGED <<drive, enabled, settings, work, cleared>> /\ run' = RunAfter(o) /\ recon' = ReconAfter(o)
      /\ control' = [control EXCEPT ![r] = c]
  BY DEF Act
<1>3. Fits(db') /\ (cleared => AllEmpty(db'))
  BY DatabaseFits, RetryFits DEF Act
<1>4. pass' \in Passes
  BY DatabaseFits, PassTypes DEF Act, OrderPass, OrderNoPass
<1>5. run.pc = "clear" => run'.pc = "clear"
  BY <1>1, <1>2, WorkersAfter
<1>6. recon.pc = "clear" => recon'.pc = "clear"
  BY <1>1, <1>2, WorkersAfter
<1> HIDE DEF o, c
<1>7. ClearLocks'
  BY <1>1, <1>2, <1>5, <1>6 DEF AInv, ClearLocks, Clearing
<1>8. run' \in Runs /\ recon' \in Recons /\ control' \in [Requests -> Controls]
      /\ (run'.pc = run.pc \/ run'.pc = "begin") /\ \A row \in run'.rows : row \in run.rows
  BY <1>1, <1>2, WorkersAfter
<1>9. cleared => run.pc \in {"idle", "begin", "end", "clear"}
  BY AtRun
<1> QED BY <1>2, <1>3, <1>4, <1>7, <1>8, <1>9, ControlStep

(* Both locks, one after the other.                                         *)
LEMMA LockKeeps ==
  ASSUME AInv, NEW r \in Requests, LockRun(r) \/ LockRecon(r) \/ LeaveClear(r)
  PROVE  AInv'
<1>1. control \in [Requests -> Controls] /\ run \in Runs /\ recon \in Recons /\ ClearLocks
  BY DEF AInv, WorkersOK
<1>2. UNCHANGED <<drive, db, enabled, settings, pass, work, cleared>>
  BY DEF LockRun, LockRecon, LeaveClear, history
<1>3. CASE LockRun(r)
  <2> DEFINE c == [control[r] EXCEPT !.pc = "recon"]
  <2>1. c \in Controls /\ c.pc = "recon"
    BY AtControl
  <2>2. run' = [run EXCEPT !.pc = "clear"] /\ run.pc = "idle" /\ recon' = recon /\ control' = [control EXCEPT ![r] = c]
    BY <1>3 DEF LockRun, Advance
  <2> HIDE DEF c
  <2>3. run' \in Runs /\ run'.pc = "clear" /\ run'.rows = run.rows
    BY <1>1, <2>2, RunMoves
  <2>4. ClearLocks'
    BY <1>1, <2>1, <2>2, <2>3 DEF ClearLocks, Clearing
  <2> QED BY <1>1, <1>2, <2>1, <2>2, <2>3, <2>4, DatabaseFits, ControlStep
<1>4. CASE LockRecon(r)
  <2> DEFINE c == [control[r] EXCEPT !.pc = "gate"]
  <2>1. c \in Controls /\ c.pc = "gate"
    BY AtControl
  <2>2. run' = run /\ recon' = [recon EXCEPT !.pc = "clear"] /\ control' = [control EXCEPT ![r] = c] /\ control[r].pc = "recon"
    BY <1>4 DEF LockRecon, Advance, AtOrder
  <2> HIDE DEF c
  <2>3. recon' \in Recons /\ recon'.pc = "clear"
    BY <1>1, <2>2 DEF Recons
  <2>4. ClearLocks'
    BY <1>1, <2>1, <2>2, <2>3 DEF ClearLocks, Clearing
  <2> QED BY <1>1, <1>2, <2>1, <2>2, <2>3, <2>4, AtRun, ControlStep
<1>5. CASE LeaveClear(r)
  <2>1. IdleRun \in Runs /\ IdleRun.pc = "idle" /\ IdleRun.rows = {} /\ IdleRecon \in Recons
    BY DEF IdleRun, Runs, IdleRecon, Recons
  <2>2. ClearLocks'
    BY <1>1, <1>5, AtControl DEF LeaveClear, AtOrder, ClearLocks, Clearing
  <2>3. control' \in [Requests -> Controls]
    BY <1>1, <1>5, AtControl DEF LeaveClear
  <2> QED BY <1>2, <1>5, <2>1, <2>2, <2>3, AtRun, ControlStep DEF LeaveClear
<1> QED BY <1>3, <1>4, <1>5

(* Nothing is left, and nobody works on anything.                           *)
LEMMA ClearKeeps ==
  ASSUME AInv, NEW r \in Requests, ClearFaces(r)
  PROVE  AInv'
<1>1. control \in [Requests -> Controls] /\ ClearLocks /\ DriveOK /\ Fits(db) /\ settings \in Settings
  BY DatabaseFits DEF AInv, WorkersOK, SettingsOK
<1>2. IdleRun \in Runs /\ IdleRun.pc = "idle" /\ IdleRun.rows = {} /\ IdleRecon \in Recons
  BY DEF IdleRun, Runs, IdleRecon, Recons
<1>3. ClearLocks'
  BY <1>1, AtControl DEF ClearFaces, AtOrder, ClearLocks, Clearing
<1>4. WorkersOK'
  BY <1>1, <1>2, AtControl DEF ClearFaces, WorkersOK
<1>5. SettingsOK'
  <2>1. 0 \in 0 .. Batches
    BY Constants
  <2>2. pass' \in Passes
    BY <2>1 DEF ClearFaces, Passes
  <2>3. cleared' \in BOOLEAN
    BY <1>1 DEF ClearFaces, Settings
  <2> QED BY <1>1, <2>2, <2>3 DEF ClearFaces, SettingsOK
<1>6. DriveOK' /\ DatabaseOK' /\ \A p \in Photos : Empty(db'[p])
  <2>1. \A p \in Photos : Emptied(db[p]) \in Rows /\ RowFits(Emptied(db[p]), drive[p].rev) /\ Empty(Emptied(db[p]))
    BY <1>1 DEF Fits, Emptied, Rows, RowFits, Empty
  <2> QED BY <1>1, <2>1 DEF ClearFaces, DriveOK, DatabaseOK
<1>7. WorkFits' /\ RunFits'
  BY <1>2 DEF ClearFaces, GateIsFree, WorkFits, RunFits
<1>8. (cleared => Quiet)'
  BY <1>2, <1>6 DEF ClearFaces, GateIsFree, Quiet, Empty
<1> QED BY <1>3, <1>4, <1>5, <1>6, <1>7, <1>8 DEF AInv

LEMMA StopKeeps ==
  ASSUME AInv, Stop
  PROVE  AInv'
<1>1. IdleRun \in Runs /\ IdleRun.pc = "idle" /\ IdleRun.rows = {} /\ IdleRecon \in Recons /\ NoOrder \in Controls /\ NoOrder.pc = "idle"
  BY DEF IdleRun, Runs, IdleRecon, Recons, NoOrder, Controls
<1>2. DriveOK' /\ DatabaseOK' /\ SettingsOK'
  BY DEF AInv, Stop, history, DriveOK, DatabaseOK, SettingsOK
<1>3. WorkersOK' /\ ClearLocks'
  BY <1>1 DEF Stop, WorkersOK, ClearLocks, Clearing
<1>4. WorkFits' /\ RunFits'
  BY <1>1 DEF Stop, WorkFits, RunFits
<1>5. (cleared => Quiet)'
  BY <1>1 DEF AInv, Stop, history, Quiet
<1> QED BY <1>2, <1>3, <1>4, <1>5 DEF AInv

-----------------------------------------------------------------------------
LEMMA StepInvariant == AInv /\ [Next]_vars => AInv'
<1> SUFFICES ASSUME AInv, [Next]_vars PROVE AInv'
  OBVIOUS
<1>1. ASSUME NEW p \in Photos, WritePhoto(p) \/ MarkAlbum(p) \/ LoseAlbum(p) \/ FindAlbum(p) \/ IndexPhoto(p) \/ AnalyzePhoto(p) \/ ConfirmFaces(p)
      PROVE  AInv'
  BY <1>1, DriveKeeps, IndexKeeps, AnalyzeKeeps, ConfirmKeeps
<1>2. CASE FaceStatus
  BY <1>2, IndexKeeps
<1>3. CASE Analysis \/ LeaveRequest
  BY <1>3, PrepareKeeps, ReadKeeps, CheckKeeps, WriteKeeps, EndKeeps DEF Analysis
<1>4. CASE Run \/ RunGivesUp \/ RunFails \/ RunEndsUnordered
  BY <1>4, RunMovesKeep, PrepareQueueKeeps, FailsKeeps, FillKeeps, TakeKeeps, DoneKeeps, StopsKeeps, RunEndKeeps DEF Run
<1>5. CASE Reconciling \/ ReconStops \/ LoopRun \/ LoopReconcile
  BY <1>5, ReconKeeps, RunEndKeeps
<1>6. ASSUME NEW r \in Requests, Order(r) \/ LeaveClear(r) \/ \E order \in Orders : ReadSettings(r, order)
      PROVE  AInv'
  BY <1>6, SaveKeeps, ActKeeps, LockKeeps, ClearKeeps, ReadSettingsKeeps DEF Order
<1>7. CASE Stop
  BY <1>7, StopKeeps
<1>8. CASE UNCHANGED vars
  BY <1>8 DEF vars, AInv, DriveOK, DatabaseOK, SettingsOK, WorkersOK, WorkFits, RunFits, Working, ClearLocks, Clearing, Quiet
<1> QED BY <1>1, <1>2, <1>3, <1>4, <1>5, <1>6, <1>7, <1>8 DEF Next

(* Whatever order drive, index, workers and administrators take their steps *)
(* in, the inductive invariant holds.                                       *)
THEOREM AnalysisInvariance == Spec => []AInv
  BY StartInvariant, StepInvariant, PTL DEF Spec

(* Faces that nobody has to look at again were found in the bytes on record,*)
(* and a private photo shows none (CommitFaceResult, the triggers of        *)
(* photo_media).                                                            *)
THEOREM FacesFitTheirPhotos == Spec => []FaceInv
<1>1. AInv => FaceInv
  BY InvariantShows
<1> QED BY <1>1, AnalysisInvariance, PTL

(* What was deleted does not come back by itself (ClearFaces).              *)
THEOREM ClearedIsFinal == Spec => []ClearedStaysCleared
<1>1. AInv => ClearedStaysCleared
  BY InvariantShows
<1> QED BY <1>1, AnalysisInvariance, PTL

(* While everything is deleted, one request holds the locks of both workers,*)
(* which are not in the middle of anything (handleFaceControl).             *)
THEOREM ClearHoldsTheLocks == Spec => []ClearLocks
<1>1. AInv => ClearLocks
  BY DEF AInv
<1> QED BY <1>1, AnalysisInvariance, PTL

-----------------------------------------------------------------------------
(* Numbers                                                                  *)

Below(S, x) == {y \in S : y < x}
Beyond(S, x) == {y \in S : y > x}
\* Of a set of numbers, those that have fewer than k below them.
FirstOf(S, k) == {x \in S : Cardinality(Below(S, x)) < k}

\* A finite set of numbers has a greatest and a least one: the one with the
\* fewest beyond it, or below it.
LEMMA FewestIsMinimal ==
  ASSUME NEW S, IsFiniteSet(S), NEW F, F \in [S -> SUBSET S], S # {}
  PROVE  \E x \in S : \A y \in S : F[y] \subseteq F[x] => F[y] = F[x]
<1>. DEFINE T == {F[x] : x \in S}
<1>1. T # {} /\ T \subseteq FiniteSubsetsOf(S)
  BY FS_Subset DEF FiniteSubsetsOf
<1>2. PICK t \in T : \A u \in T : <<u, t>> \notin StrictSubsetOrdering(S)
  BY <1>1, FS_StrictSubsetOrderingWellFounded, WFMin
<1>3. \A u \in T : u \subseteq t => u = t
  BY <1>2 DEF StrictSubsetOrdering
<1>4. PICK x \in S : t = F[x]
  OBVIOUS
<1>5. ASSUME NEW y \in S, F[y] \subseteq F[x] PROVE F[y] = F[x]
  <2>1. F[y] \in T
    OBVIOUS
  <2>. QED BY <1>3, <1>4, <1>5, <2>1
<1>. QED BY <1>5

LEMMA GreatestNumber ==
  ASSUME NEW S, S \subseteq Nat, IsFiniteSet(S), S # {}
  PROVE  \E x \in S : \A y \in S : x >= y
<1>. DEFINE F == [x \in S |-> Beyond(S, x)]
<1>0. F \in [S -> SUBSET S]
  BY DEF Beyond
<1>1. \E x \in S : \A y \in S : F[y] \subseteq F[x] => F[y] = F[x]
  <2>1. S # {} /\ IsFiniteSet(S)
    OBVIOUS
  <2>. HIDE DEF F
  <2>. QED BY ONLY <1>0, <2>1, FewestIsMinimal
<1>2. PICK x \in S : \A y \in S : Beyond(S, y) \subseteq Beyond(S, x) => Beyond(S, y) = Beyond(S, x)
  BY <1>1
<1>3. ASSUME NEW y \in S PROVE x >= y
  <2>. x \in Nat /\ y \in Nat
    OBVIOUS
  <2>1. CASE y > x
    <3>1. Beyond(S, y) \subseteq Beyond(S, x)
      <4>1. ASSUME NEW z \in S, z > y PROVE z > x
        <5>1. z \in Nat
          OBVIOUS
        <5>. QED BY <2>1, <4>1, <5>1
      <4>. QED BY <4>1 DEF Beyond
    <3>2. y \in Beyond(S, x) /\ y \notin Beyond(S, y)
      BY <2>1 DEF Beyond
    <3>. QED BY <1>2, <3>1, <3>2
  <2>. QED BY <2>1
<1>. QED BY <1>3

LEMMA LeastNumber ==
  ASSUME NEW S, S \subseteq Nat, IsFiniteSet(S), S # {}
  PROVE  \E x \in S : \A y \in S : x <= y
<1>. DEFINE F == [x \in S |-> Below(S, x)]
<1>0. F \in [S -> SUBSET S]
  BY DEF Below
<1>1. \E x \in S : \A y \in S : F[y] \subseteq F[x] => F[y] = F[x]
  <2>1. S # {} /\ IsFiniteSet(S)
    OBVIOUS
  <2>. HIDE DEF F
  <2>. QED BY ONLY <1>0, <2>1, FewestIsMinimal
<1>2. PICK x \in S : \A y \in S : Below(S, y) \subseteq Below(S, x) => Below(S, y) = Below(S, x)
  BY <1>1
<1>3. ASSUME NEW y \in S PROVE x <= y
  <2>. x \in Nat /\ y \in Nat
    OBVIOUS
  <2>1. CASE y < x
    <3>1. Below(S, y) \subseteq Below(S, x)
      <4>1. ASSUME NEW z \in S, z < y PROVE z < x
        <5>1. z \in Nat
          OBVIOUS
        <5>. QED BY <2>1, <4>1, <5>1
      <4>. QED BY <4>1 DEF Below
    <3>2. y \in Below(S, x) /\ y \notin Below(S, y)
      BY <2>1 DEF Below
    <3>. QED BY <1>2, <3>1, <3>2
  <2>. QED BY <2>1
<1>. QED BY <1>3

\* What lies below a number of a finite set is finite, and less the lower it is.
LEMMA BelowIsFinite ==
  ASSUME NEW S, S \subseteq Nat, IsFiniteSet(S), NEW x \in Nat
  PROVE  /\ IsFiniteSet(Below(S, x)) /\ Cardinality(Below(S, x)) \in Nat
         /\ \A y \in Nat : y <= x => Cardinality(Below(S, y)) <= Cardinality(Below(S, x))
<1>1. Below(S, x) \in SUBSET S
  BY DEF Below
<1>2. IsFiniteSet(Below(S, x)) /\ Cardinality(Below(S, x)) \in Nat
  BY <1>1, FS_Subset, FS_CardinalityType
<1>3. ASSUME NEW y \in Nat, y <= x PROVE Below(S, y) \in SUBSET Below(S, x)
  <2>1. ASSUME NEW z \in S, z < y PROVE z < x
    <3>1. z \in Nat
      OBVIOUS
    <3>. QED BY <1>3, <2>1, <3>1
  <2>. QED BY <2>1 DEF Below
<1>. QED BY <1>2, <1>3, FS_Subset

\* The first k of a set of numbers are k of them, if any number is left over, and
\* come before it.
LEMMA FirstOfMore ==
  ASSUME NEW S, S \subseteq Nat, IsFiniteSet(S), NEW k \in Nat, NEW x \in S, x \notin FirstOf(S, k)
  PROVE  Cardinality(FirstOf(S, k)) = k /\ \A f \in FirstOf(S, k) : f < x
<1>. DEFINE B == FirstOf(S, k)
<1>1. ASSUME NEW f \in B, NEW y \in S \ B PROVE f < y
  <2>1. f \in Nat /\ y \in Nat /\ Cardinality(Below(S, f)) < k /\ ~(Cardinality(Below(S, y)) < k)
    BY DEF FirstOf
  <2>2. /\ Cardinality(Below(S, f)) \in Nat /\ Cardinality(Below(S, y)) \in Nat
        /\ y <= f => Cardinality(Below(S, y)) <= Cardinality(Below(S, f))
    BY <2>1, BelowIsFinite
  <2>. QED BY <2>1, <2>2
<1>2. B \in SUBSET S /\ S \ B \in SUBSET S
  BY DEF FirstOf
<1>3. IsFiniteSet(B) /\ IsFiniteSet(S \ B) /\ Cardinality(B) \in Nat
  BY <1>2, FS_Subset, FS_CardinalityType
<1>4. Cardinality(B) >= k
  <2>1. S \ B \subseteq Nat /\ S \ B # {}
    OBVIOUS
  <2>2. PICK y \in S \ B : \A z \in S \ B : y <= z
    BY <1>3, <2>1, LeastNumber
  <2>3. Below(S, y) \in SUBSET B
    <3>1. ASSUME NEW z \in S \ B PROVE ~(z < y)
      <4>1. z \in Nat /\ y \in Nat /\ y <= z
        BY <2>2
      <4>. QED BY <4>1
    <3>. QED BY <3>1 DEF Below
  <2>4. Cardinality(Below(S, y)) <= Cardinality(B)
    BY <1>3, <2>3, FS_Subset
  <2>5. y \in Nat /\ ~(Cardinality(Below(S, y)) < k)
    BY DEF FirstOf
  <2>6. Cardinality(Below(S, y)) \in Nat
    BY <2>5, BelowIsFinite
  <2>. QED BY <1>3, <2>4, <2>5, <2>6
<1>5. Cardinality(B) <= k
  <2>1. CASE B = {}
    <3>1. Cardinality(B) = 0
      BY <2>1, FS_EmptySet
    <3>. QED BY <3>1
  <2>2. CASE B # {}
    <3>1. PICK z \in B : \A y \in B : z >= y
      <4>1. B \subseteq Nat
        BY <1>2
      <4>. QED BY <1>3, <2>2, <4>1, GreatestNumber
    <3>2. z \in Nat /\ Cardinality(Below(S, z)) < k
      BY DEF FirstOf
    <3>3. IsFiniteSet(Below(S, z)) /\ Cardinality(Below(S, z)) \in Nat
      BY <3>2, BelowIsFinite
    <3>4. z \notin Below(S, z)
      BY <3>2 DEF Below
    <3>5. IsFiniteSet(Below(S, z) \cup {z}) /\ Cardinality(Below(S, z) \cup {z}) = Cardinality(Below(S, z)) + 1
      BY <3>3, <3>4, FS_AddElement
    <3>6. B \in SUBSET (Below(S, z) \cup {z})
      <4>1. ASSUME NEW y \in B PROVE y = z \/ y \in Below(S, z)
        <5>1. y \in Nat /\ z \in Nat /\ y \in S /\ z >= y
          BY <1>2, <3>1
        <5>. QED BY <5>1 DEF Below
      <4>. QED BY <4>1
    <3>7. Cardinality(B) <= Cardinality(Below(S, z)) + 1
      BY <3>5, <3>6, FS_Subset
    <3>. QED BY <1>3, <3>2, <3>3, <3>7
  <2>. QED BY <2>1, <2>2
<1>6. x \in S \ B
  OBVIOUS
<1>. QED BY <1>1, <1>3, <1>4, <1>5, <1>6

\* Max and Min of the library are that greatest and that least number.
LEMMA MaxAndMin ==
  ASSUME NEW S, S \subseteq Nat, IsFiniteSet(S), S # {}
  PROVE  /\ Routes!Max(S) \in S /\ \A y \in S : Routes!Max(S) >= y
         /\ Visibility!Max(S) \in S /\ \A y \in S : Visibility!Max(S) >= y
         /\ Groups!Min(S) \in S /\ \A y \in S : Groups!Min(S) <= y
<1>1. \E x \in S : \A y \in S : x >= y
  BY GreatestNumber
<1>2. \E x \in S : \A y \in S : x =< y
  BY LeastNumber
<1>3. Routes!Max(S) \in S /\ \A y \in S : Routes!Max(S) >= y
  BY <1>1 DEF Routes!Max
<1>4. Visibility!Max(S) \in S /\ \A y \in S : Visibility!Max(S) >= y
  BY <1>1 DEF Visibility!Max
<1>5. Groups!Min(S) \in S /\ \A y \in S : Groups!Min(S) <= y
  BY <1>2 DEF Groups!Min
<1>. QED BY <1>3, <1>4, <1>5

-----------------------------------------------------------------------------
(* Routes                                                                   *)

\* A revision that the index has had.
Past(R) == /\ R \in Routes!Revisions /\ R.instance <= index.instance
           /\ R.instance = index.instance => R.number <= index.number
\* A route read while the index was at a revision, or after: of that revision if
\* the index is still at it.
Read(s, R, route) == Past(R) /\ (R = Routes!Revision(s) => route = Routes!Route(s))
RequestHolds(v) ==
    /\ v.at \in {"open", "join", "waiting", "reopen", "stream"} => Past(v.revision)
    /\ v.at = "read" => v.source.revision = v.revision /\ Read(v.scope, v.revision, v.source.route)
    /\ v.at = "check" => Read(v.scope, v.revision, v.route)
BuildHolds(b) ==
    /\ b.at \in {"open", "scan"} => Past(b.revision)
    /\ b.at \in {"verify", "rename"} => b.route \in Routes!Paths /\ Read(b.scope, b.revision, b.route)
FileHolds(s, file) == file # NoRoute => Read(s, file.revision, file.route)
RoutesHold ==
    /\ Routes!TypeOK /\ Routes!MarksAreCounted
    /\ \A c \in Viewers : RequestHolds(viewer[c])
    /\ \A f \in Flights : flight[f] # NoFlight => BuildHolds(flight[f])
    /\ \A s \in Scopes : FileHolds(s, routeFile[s])
    /\ Routes!WaitersAreKnown /\ IsFiniteSet(Routes!Listed)

\* The greatest of the marks of some directories.
LEMMA GreatestMark ==
  ASSUME NEW K, NEW mark, NEW n \in Nat, \A k \in K : mark[k] \in Nat /\ mark[k] <= n
  PROVE  /\ Routes!Max({mark[k] : k \in K} \cup {0}) \in 0 .. n
         /\ \A k \in K : mark[k] <= Routes!Max({mark[k_1] : k_1 \in K} \cup {0})
<1>. DEFINE noted == {mark[k] : k \in K} \cup {0}
<1>1. noted # {} /\ noted \subseteq Nat /\ \A m \in noted : m <= n
  OBVIOUS
<1>2. IsFiniteSet(noted)
  BY <1>1, FS_BoundedSetOfNaturals
<1>3. Routes!Max(noted) \in noted /\ \A m \in noted : Routes!Max(noted) >= m
  BY <1>1, <1>2, MaxAndMin
<1>4. Routes!Max(noted) \in 0 .. n
  BY <1>1, <1>3
<1>5. ASSUME NEW k \in K PROVE mark[k] <= Routes!Max(noted)
  <2>1. mark[k] \in noted /\ mark[k] \in Nat
    OBVIOUS
  <2>2. Routes!Max(noted) >= mark[k]
    BY <1>3, <2>1
  <2>. HIDE DEF noted
  <2>. QED BY <1>4, <2>1, <2>2
<1>. QED BY <1>4, <1>5

\* The revision of a scope is one of the index.
LEMMA RevisionIsPast ==
  ASSUME Routes!TypeOK, Routes!MarksAreCounted, NEW s \in Scopes
  PROVE  Past(Routes!Revision(s))
<1>1. index.number \in Nat /\ index.instance \in Nat /\ \A k \in Routes!KindsOf(s) : index.mark[k] \in Nat /\ index.mark[k] <= index.number
  BY DEF Routes!TypeOK, Routes!MarksAreCounted, Routes!KindsOf
<1>2. Routes!Max({index.mark[k] : k \in Routes!KindsOf(s)} \cup {0}) \in 0 .. index.number
  BY <1>1, GreatestMark
<1>. QED BY <1>1, <1>2 DEF Past, Routes!Revision, Routes!Revisions

\* The index moves: a revision that it has had is one that it has had, and is
\* the present one only if nothing has changed in the scope.
Moves == /\ \A R : Past(R) => Past(R)'
         /\ \A s \in Scopes : \A R : Past(R) /\ R = Routes!Revision(s)' => R = Routes!Revision(s) /\ Routes!Route(s)' = Routes!Route(s)

LEMMA WriteMoves ==
  ASSUME Routes!RouteAssumption, Routes!TypeOK, Routes!MarksAreCounted,
         NEW p \in Pictures, NEW row \in Routes!Row \cup {NoPicture}, Routes!Write(p, row)
  PROVE  Moves /\ Routes!TypeOK' /\ Routes!MarksAreCounted'
<1>. DEFINE touched == Routes!Touched(index.row[p], row)
<1>. DEFINE marks2 == [k \in Routes!Kinds |-> IF k \in touched THEN index.number + 1 ELSE index.mark[k]]
<1>. DEFINE rows2 == [index.row EXCEPT ![p] = row]
<1>0. index \in [row : [Pictures -> Routes!Row \cup {NoPicture}], number : Nat, mark : [Routes!Kinds -> Nat], instance : Nat]
  BY DEF Routes!TypeOK
<1>1. index' = [row |-> rows2, number |-> index.number + 1, mark |-> marks2, instance |-> index.instance]
  <2>1. index' = [index EXCEPT !.row = rows2, !.number = index.number + 1, !.mark = marks2]
    BY DEF Routes!Write
  <2>. HIDE DEF rows2, marks2
  <2>. QED BY <1>0, <2>1
<1>2. marks2 \in [Routes!Kinds -> Nat] /\ \A k \in Routes!Kinds : marks2[k] <= index.number + 1
  BY <1>0 DEF Routes!MarksAreCounted
<1>3. rows2 \in [Pictures -> Routes!Row \cup {NoPicture}]
  BY <1>0
<1>4. index'.row = rows2 /\ index'.mark = marks2 /\ index'.number = index.number + 1 /\ index'.instance = index.instance
  <2>. HIDE DEF rows2, marks2
  <2>. QED BY <1>1
<1>5. Routes!TypeOK'
  <2>1. index' \in [row : [Pictures -> Routes!Row \cup {NoPicture}], number : Nat, mark : [Routes!Kinds -> Nat], instance : Nat]
    <3>. HIDE DEF rows2, marks2
    <3>. QED BY <1>0, <1>1, <1>2, <1>3
  <2>2. indexChanges' \in 0 .. MaxIndexChanges /\ UNCHANGED <<routeFile, flight, viewer>>
    BY DEF Routes!Write, Routes!TypeOK, Routes!Change, Routes!RouteAssumption
  <2>. QED BY <2>1, <2>2 DEF Routes!TypeOK
<1>6. Routes!MarksAreCounted'
  BY <1>2, <1>4 DEF Routes!MarksAreCounted
<1>7. \A R : Past(R) => Past(R)'
  BY <1>0, <1>4 DEF Past, Routes!Revisions
<1>8. ASSUME NEW s \in Scopes, NEW R, Past(R), R = Routes!Revision(s)'
      PROVE  R = Routes!Revision(s) /\ Routes!Route(s)' = Routes!Route(s)
  <2>. DEFINE K == Routes!KindsOf(s)
  <2>1. R = [instance |-> index.instance, number |-> Routes!Max({marks2[k] : k \in K} \cup {0})]
    BY <1>4, <1>8 DEF Routes!Revision
  <2>2. R.number <= index.number /\ R.number = Routes!Max({marks2[k] : k \in K} \cup {0})
    BY <1>8, <2>1 DEF Past
  <2>3. K \subseteq Routes!Kinds
    BY DEF Routes!KindsOf
  <2>4. ASSUME NEW k \in K, k \in touched PROVE FALSE
    <3>1. marks2[k] = index.number + 1 /\ index.number \in Nat /\ index.number + 1 \in Nat
      BY <1>0, <2>3, <2>4
    <3>2. \A j \in K : marks2[j] \in Nat /\ marks2[j] <= index.number + 1
      BY <1>2, <2>3
    <3>. HIDE DEF marks2, K
    <3>3. /\ marks2[k] <= Routes!Max({marks2[j] : j \in K} \cup {0})
          /\ Routes!Max({marks2[j] : j \in K} \cup {0}) \in 0 .. index.number + 1
      BY <3>1, <3>2, GreatestMark
    <3>. QED BY <2>2, <3>1, <3>3
  <2>5. \A k \in K : marks2[k] = index.mark[k]
    BY <2>3, <2>4
  <2>6. {marks2[k] : k \in K} = {index.mark[k] : k \in K}
    <3>. HIDE DEF marks2, K
    <3>. QED BY <2>5
  <2>7. R = Routes!Revision(s)
    BY <2>1, <2>6 DEF Routes!Revision
  <2>8. ASSUME NEW q \in Pictures PROVE Routes!OnRoute(index'.row[q], s) <=> Routes!OnRoute(index.row[q], s)
    <3>1. index'.row[q] = IF q = p THEN row ELSE index.row[q]
      BY <1>0, <1>4
    <3>2. q = p => ~Routes!OnRoute(row, s) /\ ~Routes!OnRoute(index.row[q], s)
      BY <2>4 DEF Routes!Touched, Routes!OnRoute
    <3>. QED BY <3>1, <3>2
  <2>9. ASSUME NEW q \in Pictures, Routes!OnRoute(index.row[q], s) PROVE index'.row[q].spot = index.row[q].spot
    <3>1. index'.row[q] = IF q = p THEN row ELSE index.row[q]
      BY <1>0, <1>4
    <3>2. q = p => ~Routes!OnRoute(index.row[q], s)
      BY <2>4 DEF Routes!Touched, Routes!OnRoute
    <3>. QED BY <2>9, <3>1, <3>2
  <2>10. Routes!Route(s)' = Routes!Route(s)
    BY <2>8, <2>9 DEF Routes!Route
  <2>. QED BY <2>7, <2>10
<1>. QED BY <1>5, <1>6, <1>7, <1>8 DEF Moves

LEMMA RecreateMoves ==
  ASSUME Routes!RouteAssumption, Routes!TypeOK, Routes!MarksAreCounted, Routes!Recreate
  PROVE  Moves /\ Routes!TypeOK' /\ Routes!MarksAreCounted'
<1>1. /\ index.instance \in Nat
      /\ index' = [row |-> [p \in Pictures |-> NoPicture], number |-> 0, mark |-> [k \in Routes!Kinds |-> 0], instance |-> index.instance + 1]
  BY DEF Routes!TypeOK, Routes!Recreate
<1>2. index'.number = 0 /\ index'.mark = [k \in Routes!Kinds |-> 0] /\ index'.instance = index.instance + 1
  BY <1>1
<1>3. Routes!TypeOK'
  <2>1. index' \in [row : [Pictures -> Routes!Row \cup {NoPicture}], number : Nat, mark : [Routes!Kinds -> Nat], instance : Nat]
    BY <1>1
  <2>2. indexChanges' \in 0 .. MaxIndexChanges /\ UNCHANGED <<routeFile, flight, viewer>>
    BY DEF Routes!Recreate, Routes!TypeOK, Routes!Change, Routes!RouteAssumption
  <2>. QED BY <2>1, <2>2 DEF Routes!TypeOK
<1>4. Routes!MarksAreCounted'
  BY <1>2 DEF Routes!MarksAreCounted
<1>5. \A R : Past(R) => Past(R)' /\ R.instance # index'.instance
  BY <1>1, <1>2 DEF Past, Routes!Revisions
<1>6. \A s \in Scopes : Routes!Revision(s)'.instance = index'.instance
  BY DEF Routes!Revision
<1>. QED BY <1>3, <1>4, <1>5, <1>6 DEF Moves

\* What has been read stays what it was when the index moves, and when it does not.
LEMMA ReadStays ==
  ASSUME Moves \/ index' = index, NEW s \in Scopes, NEW R, NEW route, Read(s, R, route)
  PROVE  Read(s, R, route)'
<1>1. CASE Moves
  BY <1>1 DEF Moves, Read
<1>2. CASE index' = index
  BY <1>2 DEF Read, Past, Routes!Revision, Routes!Route
<1>. QED BY <1>1, <1>2
LEMMA PastStays ==
  ASSUME Moves \/ index' = index, NEW R, Past(R)
  PROVE  Past(R)'
BY DEF Moves, Past

\* The fields of a request, by its stage, and of a build.
LEMMA RequestFields ==
  ASSUME Routes!TypeOK, NEW c \in Viewers
  PROVE  /\ viewer[c] \in Routes!ViewerRow
         /\ viewer[c].at \in {"idle", "revision", "open", "join", "reopen", "stream", "waiting", "read", "check"}
         /\ viewer[c].at # "idle" => viewer[c].scope \in Scopes /\ viewer[c].attempt \in 1 .. MaxAttempts
         /\ viewer[c].at \in {"open", "join", "reopen", "stream", "waiting", "read", "check"} => viewer[c].revision \in Routes!Revisions
         /\ viewer[c].at = "waiting" => viewer[c].on \in Flights
         /\ viewer[c].at = "read" => viewer[c].source \in Routes!FileRow
         /\ viewer[c].at = "check" => viewer[c].route \in Routes!Paths
<1>1. viewer[c] \in Routes!ViewerRow
  BY DEF Routes!TypeOK
<1>2. CASE viewer[c] = Routes!Idle
  BY <1>1, <1>2 DEF Routes!Idle
<1>3. CASE viewer[c] # Routes!Idle
  BY <1>1, <1>3 DEF Routes!ViewerRow
<1>. QED BY <1>2, <1>3
LEMMA BuildFields ==
  ASSUME Routes!TypeOK, NEW f \in Flights, flight[f] # NoFlight
  PROVE  /\ flight[f] \in Routes!FlightRow
         /\ flight[f].scope \in Scopes /\ flight[f].revision \in Routes!Revisions /\ flight[f].waiters \in SUBSET Viewers
         /\ flight[f].at \in {"open", "scan", "verify", "rename", "done"} /\ flight[f].listed \in BOOLEAN
         /\ flight[f].at # "done" =>
               flight[f] \in [scope : Scopes, revision : Routes!Revisions, at : {"open", "scan", "verify", "rename"},
                              route : {NoRoute} \cup Routes!Paths, listed : BOOLEAN, waiters : SUBSET Viewers]
         /\ flight[f].at = "done" => flight[f].listed = FALSE
         /\ flight[f].at = "done" =>
               flight[f] \in [scope : Scopes, revision : Routes!Revisions, at : {"done"}, err : {"none", "changed", "unavailable", "failed"},
                              listed : {FALSE}, waiters : SUBSET Viewers]
<1>1. flight[f] \in Routes!FlightRow
  BY DEF Routes!TypeOK
<1>. QED BY <1>1 DEF Routes!FlightRow

LEMMA RoutesInit == ASSUME Routes!RouteAssumption, Routes!Init PROVE RoutesHold
<1>1. PICK start \in [Pictures -> Routes!Row \cup {NoPicture}] :
         index = [row |-> start, number |-> 0, mark |-> [k \in Routes!Kinds |-> 0], instance |-> 1]
  BY DEF Routes!Init
<1>2. /\ \A s \in Scopes : routeFile[s] = NoRoute
      /\ \A f \in Flights : flight[f] = NoFlight
      /\ \A c \in Viewers : viewer[c] = Routes!Idle
  BY DEF Routes!Init
<1>3. Routes!Listed = {}
  BY <1>2 DEF Routes!Listed
<1>4. Routes!TypeOK
  <2>1. index \in [row : [Pictures -> Routes!Row \cup {NoPicture}], number : Nat, mark : [Routes!Kinds -> Nat], instance : Nat]
    BY <1>1
  <2>2. Routes!Idle \in Routes!ViewerRow
    BY DEF Routes!ViewerRow
  <2>. QED BY <2>1, <2>2 DEF Routes!Init, Routes!TypeOK, Routes!RouteAssumption
<1>5. Routes!MarksAreCounted
  BY <1>1 DEF Routes!MarksAreCounted
<1>6. Routes!WaitersAreKnown
  <2>1. Routes!Cardinality({}) = 0
    BY FS_EmptySet DEF Routes!Cardinality, Cardinality
  <2>. QED BY <1>2, <1>3, <2>1 DEF Routes!WaitersAreKnown, Routes!Waits, Routes!Has, Routes!Idle, Routes!RouteAssumption
<1>7. \A c \in Viewers : RequestHolds(viewer[c])
  BY <1>2 DEF RequestHolds, Routes!Idle
<1>. QED BY <1>2, <1>3, <1>4, <1>5, <1>6, <1>7, FS_EmptySet DEF RoutesHold, FileHolds

\* The index moves, and no request or build does.
LEMMA IndexStep ==
  ASSUME RoutesHold, Moves, Routes!TypeOK', Routes!MarksAreCounted', UNCHANGED <<routeFile, flight, viewer>>
  PROVE  RoutesHold'
<1>1. ASSUME NEW c \in Viewers PROVE RequestHolds(viewer[c])'
  <2>1. RequestHolds(viewer[c])
    BY DEF RoutesHold
  <2>2. viewer[c].at # "idle" => viewer[c].scope \in Scopes
    BY RequestFields DEF RoutesHold
  <2>. QED BY <2>1, <2>2, PastStays, ReadStays DEF RequestHolds
<1>2. ASSUME NEW f \in Flights, flight[f] # NoFlight PROVE BuildHolds(flight[f])'
  <2>1. BuildHolds(flight[f]) /\ flight[f].scope \in Scopes
    BY <1>2, BuildFields DEF RoutesHold
  <2>. QED BY <2>1, PastStays, ReadStays DEF BuildHolds
<1>3. ASSUME NEW s \in Scopes PROVE FileHolds(s, routeFile[s])'
  <2>1. FileHolds(s, routeFile[s])
    BY DEF RoutesHold
  <2>. QED BY <2>1, ReadStays DEF FileHolds
<1>4. Routes!WaitersAreKnown' /\ IsFiniteSet(Routes!Listed)'
  BY DEF RoutesHold, Routes!WaitersAreKnown, Routes!Waits, Routes!Has, Routes!Listed, Routes!Of
<1>. QED BY <1>1, <1>2, <1>3, <1>4 DEF RoutesHold

\* A request takes a step outside of builds.
LEMMA RequestStep ==
  ASSUME RoutesHold, NEW c \in Viewers, NEW v \in Routes!ViewerRow, viewer' = [viewer EXCEPT ![c] = v],
         RequestHolds(v), viewer[c].at # "waiting", v.at # "waiting", UNCHANGED <<index, flight, indexChanges>>,
         routeFile' \in [Scopes -> Routes!FileRow \cup {NoRoute}], \A s \in Scopes : FileHolds(s, routeFile'[s])
  PROVE  RoutesHold'
<1>0. viewer \in [Viewers -> Routes!ViewerRow]
  BY DEF RoutesHold, Routes!TypeOK
<1>1. Routes!TypeOK' /\ Routes!MarksAreCounted'
  BY DEF RoutesHold, Routes!TypeOK, Routes!MarksAreCounted
<1>2. ASSUME NEW d \in Viewers PROVE RequestHolds(viewer[d])'
  <2>1. viewer'[d] = IF d = c THEN v ELSE viewer[d]
    BY <1>0
  <2>2. RequestHolds(viewer'[d])
    BY <2>1 DEF RoutesHold
  <2>3. viewer'[d].at \in {"read", "check"} => viewer'[d].scope \in Scopes
    BY <1>0, <2>1, RequestFields DEF RoutesHold, Routes!ViewerRow, Routes!Idle
  <2>. QED BY <2>2, <2>3, PastStays, ReadStays DEF RequestHolds
<1>3. ASSUME NEW f \in Flights, flight[f] # NoFlight PROVE BuildHolds(flight[f])'
  <2>1. BuildHolds(flight[f]) /\ flight[f].scope \in Scopes
    BY <1>3, BuildFields DEF RoutesHold
  <2>. QED BY <2>1, PastStays, ReadStays DEF BuildHolds
<1>4. ASSUME NEW s \in Scopes PROVE FileHolds(s, routeFile[s])'
  BY ReadStays DEF FileHolds
<1>5. \A d \in Viewers, f \in Flights : Routes!Waits(d, f)' <=> Routes!Waits(d, f)
  BY <1>0 DEF Routes!Waits, Routes!Has
<1>6. Routes!WaitersAreKnown' /\ IsFiniteSet(Routes!Listed)'
  <2>1. Routes!WaitersAreKnown /\ IsFiniteSet(Routes!Listed)
    BY DEF RoutesHold
  <2>. QED BY <1>5, <2>1 DEF Routes!WaitersAreKnown, Routes!Listed, Routes!Of
<1>. QED BY <1>1, <1>2, <1>3, <1>4, <1>6 DEF RoutesHold

\* Steps of a request that leave files and builds alone.
LEMMA QuietRequestStep ==
  ASSUME RoutesHold, NEW c \in Viewers, NEW v \in Routes!ViewerRow, Routes!Becomes(c, v),
         RequestHolds(v), viewer[c].at # "waiting", v.at # "waiting", UNCHANGED <<index, routeFile, flight, indexChanges>>
  PROVE  RoutesHold'
<1>1. viewer' = [viewer EXCEPT ![c] = v]
  BY DEF Routes!Becomes
<1>2. routeFile' \in [Scopes -> Routes!FileRow \cup {NoRoute}] /\ \A s \in Scopes : FileHolds(s, routeFile'[s])
  BY DEF RoutesHold, Routes!TypeOK
<1>. QED BY <1>1, <1>2, RequestStep
\* The next attempt, or the end.
LEMMA RetryIsRequest ==
  ASSUME Routes!RouteAssumption, Routes!TypeOK, NEW c \in Viewers, viewer[c].at # "idle", Routes!Retry(c)
  PROVE  \E v \in Routes!ViewerRow : Routes!Becomes(c, v) /\ RequestHolds(v) /\ v.at # "waiting"
<1>. DEFINE v == IF viewer[c].attempt < MaxAttempts THEN Routes!Attempt(viewer[c].scope, viewer[c].attempt + 1) ELSE Routes!Idle
<1>1. viewer[c].scope \in Scopes /\ viewer[c].attempt \in 1 .. MaxAttempts /\ MaxAttempts \in Nat
  BY RequestFields DEF Routes!RouteAssumption
<1>2. v \in Routes!ViewerRow
  BY <1>1 DEF Routes!ViewerRow, Routes!Attempt
<1>3. RequestHolds(v) /\ v.at # "waiting"
  BY DEF RequestHolds, Routes!Attempt, Routes!Idle
<1>4. Routes!Becomes(c, v)
  BY DEF Routes!Retry
<1>. QED BY <1>2, <1>3, <1>4

LEMMA RequestSteps ==
  ASSUME Routes!RouteAssumption, RoutesHold, NEW c \in Viewers,
         \/ \E s \in Scopes : Routes!Ask(c, s)
         \/ Routes!ReadRevision(c) \/ Routes!OpenCache(c) \/ Routes!Uncached(c) \/ Routes!Reopen(c) \/ Routes!ReadCache(c)
         \/ Routes!Stream(c) \/ Routes!Check(c)
  PROVE  RoutesHold'
<1>. DEFINE v0 == viewer[c]
<1>. DEFINE Calm == UNCHANGED <<index, routeFile, flight, indexChanges>>
<1>0. /\ Routes!TypeOK /\ Routes!MarksAreCounted /\ RequestHolds(viewer[c])
      /\ viewer[c].at # "idle" => viewer[c].scope \in Scopes /\ viewer[c].attempt \in 1 .. MaxAttempts
      /\ viewer[c].at \in {"open", "join", "reopen", "stream", "waiting", "read", "check"} => viewer[c].revision \in Routes!Revisions
  BY RequestFields DEF RoutesHold
<1>1. ASSUME NEW s \in Scopes, Routes!Ask(c, s) PROVE RoutesHold'
  <2>1. Routes!Attempt(s, 1) \in Routes!ViewerRow
    BY DEF Routes!Attempt, Routes!ViewerRow, Routes!RouteAssumption
  <2>2. RequestHolds(Routes!Attempt(s, 1)) /\ Routes!Attempt(s, 1).at # "waiting"
    BY DEF RequestHolds, Routes!Attempt
  <2>. QED BY <1>1, <2>1, <2>2, QuietRequestStep DEF Routes!Ask, Routes!Has
<1>2. CASE Routes!ReadRevision(c)
  <2>. DEFINE v == [at |-> "open", scope |-> viewer[c].scope, attempt |-> viewer[c].attempt, revision |-> Routes!Revision(viewer[c].scope)]
  <2>1. viewer[c].at = "revision"
    BY <1>2 DEF Routes!ReadRevision, Routes!Has
  <2>2. Past(v.revision)
    BY <1>0, <2>1, RevisionIsPast
  <2>3. v \in Routes!ViewerRow /\ RequestHolds(v)
    BY <1>0, <2>1, <2>2 DEF Routes!ViewerRow, RequestHolds, Past
  <2>. QED BY <1>2, <2>1, <2>3, QuietRequestStep DEF Routes!ReadRevision
\* The next stage, or the file that is read.
<1>3. ASSUME NEW at \in {"join", "stream"}, v0.at \in {"open", "reopen"}, Routes!Becomes(c, Routes!Stage(c, at)), Calm
      PROVE  RoutesHold'
  <2>1. Routes!Stage(c, at) \in Routes!ViewerRow
    BY <1>0, <1>3 DEF Routes!Stage, Routes!ViewerRow
  <2>2. RequestHolds(Routes!Stage(c, at)) /\ Routes!Stage(c, at).at # "waiting"
    BY <1>0, <1>3 DEF Routes!Stage, RequestHolds
  <2>. QED BY <1>3, <2>1, <2>2, QuietRequestStep
<1>4. ASSUME v0.at \in {"open", "reopen"}, Routes!Matches(v0.scope, v0.revision), Routes!Becomes(c, Routes!Source(c, v0)), Calm
      PROVE  RoutesHold'
  <2>1. FileHolds(v0.scope, routeFile[v0.scope]) /\ routeFile[v0.scope] \in Routes!FileRow /\ routeFile[v0.scope].revision = v0.revision
    BY <1>0, <1>4 DEF RoutesHold, Routes!TypeOK, Routes!Matches
  <2>2. Routes!Source(c, v0) \in Routes!ViewerRow
    BY <1>0, <1>4, <2>1 DEF Routes!Source, Routes!ViewerRow
  <2>3. RequestHolds(Routes!Source(c, v0)) /\ Routes!Source(c, v0).at # "waiting"
    BY <1>0, <1>4, <2>1 DEF Routes!Source, RequestHolds, FileHolds, Routes!Matches
  <2>. QED BY <1>4, <2>2, <2>3, QuietRequestStep
<1>5. CASE Routes!OpenCache(c) \/ Routes!Reopen(c)
  BY <1>3, <1>4, <1>5 DEF Routes!OpenCache, Routes!Reopen, Routes!Has
<1>6. CASE Routes!Uncached(c)
  BY <1>3, <1>6 DEF Routes!Uncached, Routes!Has
<1>7. ASSUME Routes!Retry(c), Calm, v0.at \in {"check", "read"} PROVE RoutesHold'
  BY <1>0, <1>7, RetryIsRequest, QuietRequestStep
\* What is answered now.
<1>8. ASSUME NEW route \in Routes!Paths, Read(v0.scope, v0.revision, route), v0.at \in {"read", "stream"},
             Routes!Becomes(c, Routes!Emitted(c, route)), Calm
      PROVE  RoutesHold'
  <2>1. Routes!Emitted(c, route) \in Routes!ViewerRow
    BY <1>0, <1>8 DEF Routes!Emitted, Routes!ViewerRow
  <2>2. RequestHolds(Routes!Emitted(c, route)) /\ Routes!Emitted(c, route).at # "waiting"
    BY <1>8 DEF Routes!Emitted, RequestHolds
  <2>. QED BY <1>8, <2>1, <2>2, QuietRequestStep
<1>9. CASE Routes!Stream(c)
  <2>1. v0.at = "stream"
    BY <1>9 DEF Routes!Stream, Routes!Has
  <2>2. Routes!Route(v0.scope) \in Routes!Paths
    BY <1>0 DEF Routes!Route, Routes!Paths, Routes!OnRoute, Routes!TypeOK, Routes!Row
  <2>3. Read(v0.scope, v0.revision, Routes!Route(v0.scope))
    BY <1>0, <2>1 DEF RequestHolds, Read
  <2>. QED BY <1>8, <1>9, <2>1, <2>2, <2>3 DEF Routes!Stream
<1>10. CASE Routes!Check(c)
  <2>1. CASE Routes!Current(c)
    <3>1. Routes!Idle \in Routes!ViewerRow /\ RequestHolds(Routes!Idle) /\ Routes!Idle.at # "waiting"
      BY DEF Routes!Idle, Routes!ViewerRow, RequestHolds
    <3>. QED BY <1>10, <2>1, <3>1, QuietRequestStep DEF Routes!Check, Routes!Has
  <2>2. CASE ~Routes!Current(c)
    BY <1>7, <1>10, <2>2 DEF Routes!Check, Routes!Has
  <2>. QED BY <2>1, <2>2
<1>11. CASE Routes!ReadCache(c)
  <2>1. v0.at = "read"
    BY <1>11 DEF Routes!ReadCache, Routes!Has
  <2>2. v0.source \in Routes!FileRow
    BY <1>0, <2>1, RequestFields
  <2>3. CASE v0.source.whole
    <3>1. Routes!Becomes(c, Routes!Emitted(c, v0.source.route)) /\ Calm
      BY <1>11, <2>3 DEF Routes!ReadCache
    <3>2. v0.source.route \in Routes!Paths /\ Read(v0.scope, v0.revision, v0.source.route)
      BY <1>0, <2>1, <2>2 DEF RequestHolds, Routes!FileRow
    <3>. QED BY <1>8, <2>1, <3>1, <3>2
  <2>4. CASE ~v0.source.whole
    <3>1. /\ Routes!Retry(c) /\ UNCHANGED <<index, flight, indexChanges>>
          /\ routeFile' = [routeFile EXCEPT ![v0.scope] = IF @ = v0.source THEN NoRoute ELSE @]
      BY <1>11, <2>4 DEF Routes!ReadCache
    <3>2. routeFile \in [Scopes -> Routes!FileRow \cup {NoRoute}] /\ \A s \in Scopes : FileHolds(s, routeFile[s])
      BY <1>0 DEF RoutesHold, Routes!TypeOK
    <3>3. routeFile' \in [Scopes -> Routes!FileRow \cup {NoRoute}] /\ \A s \in Scopes : FileHolds(s, routeFile'[s])
      BY <3>1, <3>2 DEF FileHolds
    <3>4. PICK v \in Routes!ViewerRow : viewer' = [viewer EXCEPT ![c] = v] /\ RequestHolds(v) /\ v.at # "waiting"
      BY <1>0, <2>1, <3>1, RetryIsRequest DEF Routes!Becomes
    <3>. QED BY <2>1, <3>1, <3>3, <3>4, RequestStep
  <2>. QED BY <2>3, <2>4
<1>. QED BY <1>1, <1>2, <1>5, <1>6, <1>9, <1>10, <1>11

\* A file goes, or is damaged behind its header.
LEMMA FileSteps ==
  ASSUME Routes!RouteAssumption, RoutesHold, NEW s \in Scopes, Routes!Damage(s) \/ Routes!Prune(s)
  PROVE  RoutesHold'
<1>. DEFINE file == [routeFile[s] EXCEPT !.whole = FALSE]
<1>. DEFINE touched(c) == viewer[c].at = "read" /\ viewer[c].scope = s /\ viewer[c].source = routeFile[s]
<1>0. /\ Routes!TypeOK /\ Routes!MarksAreCounted /\ routeFile \in [Scopes -> Routes!FileRow \cup {NoRoute}] /\ viewer \in [Viewers -> Routes!ViewerRow]
      /\ \A t \in Scopes : FileHolds(t, routeFile[t])
      /\ \A c \in Viewers : RequestHolds(viewer[c])
  BY DEF RoutesHold, Routes!TypeOK
<1>1. /\ UNCHANGED <<index, flight>> /\ indexChanges' \in 0 .. MaxIndexChanges /\ routeFile[s] # NoRoute
  BY <1>0 DEF Routes!Damage, Routes!Prune, Routes!Change, Routes!TypeOK, Routes!RouteAssumption
<1>2. /\ routeFile' \in [Scopes -> Routes!FileRow \cup {NoRoute}]
      /\ \A t \in Scopes : FileHolds(t, routeFile'[t])
  <2>1. CASE Routes!Prune(s)
    BY <1>0, <2>1 DEF Routes!Prune, FileHolds
  <2>2. CASE Routes!Damage(s)
    <3>1. routeFile' = [routeFile EXCEPT ![s] = file]
      BY <2>2 DEF Routes!Damage
    <3>2. file \in Routes!FileRow /\ file.revision = routeFile[s].revision /\ file.route = routeFile[s].route
      BY <1>0, <1>1 DEF Routes!FileRow
    <3>3. FileHolds(s, file)
      BY <1>0, <1>1, <3>2 DEF FileHolds
    <3>. HIDE DEF file
    <3>. QED BY <1>0, <3>1, <3>2, <3>3
  <2>. QED BY <2>1, <2>2
<1>3. ASSUME NEW c \in Viewers
      PROVE  /\ viewer'[c] \in Routes!ViewerRow /\ RequestHolds(viewer'[c])
             /\ viewer'[c].at = viewer[c].at /\ (viewer[c].at = "waiting" => viewer'[c] = viewer[c])
             /\ viewer[c].at \in {"read", "check"} => viewer'[c].scope \in Scopes
  <2>1. CASE viewer'[c] = viewer[c]
    BY <1>0, <2>1, RequestFields
  <2>2. CASE viewer'[c] # viewer[c]
    <3>1. Routes!Damage(s) /\ touched(c) /\ viewer'[c] = [viewer[c] EXCEPT !.source = [@ EXCEPT !.whole = FALSE]]
      BY <2>2 DEF Routes!Damage, Routes!Prune, Routes!Has
    <3>2. viewer[c] \in [at : {"read"}, scope : Scopes, attempt : 1 .. MaxAttempts, revision : Routes!Revisions, source : Routes!FileRow]
      BY <1>0, <3>1 DEF Routes!ViewerRow, Routes!Idle
    <3>3. viewer'[c] = [at |-> "read", scope |-> viewer[c].scope, attempt |-> viewer[c].attempt, revision |-> viewer[c].revision,
                        source |-> [viewer[c].source EXCEPT !.whole = FALSE]]
      BY <3>1, <3>2
    <3>. DEFINE source2 == [viewer[c].source EXCEPT !.whole = FALSE]
    <3>4. source2 \in Routes!FileRow /\ source2.revision = viewer[c].source.revision /\ source2.route = viewer[c].source.route
      BY <3>2 DEF Routes!FileRow
    <3>5. viewer'[c] = [at |-> "read", scope |-> viewer[c].scope, attempt |-> viewer[c].attempt, revision |-> viewer[c].revision,
                        source |-> source2]
      BY <3>3
    <3>. HIDE DEF source2
    <3>6. viewer'[c] \in Routes!ViewerRow
      BY <3>2, <3>4, <3>5 DEF Routes!ViewerRow
    <3>7. RequestHolds(viewer'[c])
      <4>1. viewer[c].source.revision = viewer[c].revision /\ Read(viewer[c].scope, viewer[c].revision, viewer[c].source.route)
        BY <1>0, <3>1 DEF RequestHolds
      <4>2. source2.revision = viewer[c].revision /\ Read(viewer[c].scope, viewer[c].revision, source2.route)
        BY <3>4, <4>1
      <4>. QED BY <3>5, <4>2 DEF RequestHolds
    <3>. QED BY <3>1, <3>2, <3>5, <3>6, <3>7
  <2>. QED BY <2>1, <2>2
<1>4. Routes!TypeOK' /\ Routes!MarksAreCounted'
  <2>1. viewer' \in [Viewers -> Routes!ViewerRow]
    BY <1>0, <1>3 DEF Routes!Damage, Routes!Prune
  <2>. QED BY <1>0, <1>1, <1>2, <2>1 DEF Routes!TypeOK, Routes!MarksAreCounted
<1>5. ASSUME NEW c \in Viewers PROVE RequestHolds(viewer[c])'
  BY <1>1, <1>3, PastStays, ReadStays DEF RequestHolds
<1>6. ASSUME NEW f \in Flights, flight[f] # NoFlight PROVE BuildHolds(flight[f])'
  <2>1. BuildHolds(flight[f]) /\ flight[f].scope \in Scopes
    BY <1>6, BuildFields DEF RoutesHold
  <2>. QED BY <1>1, <2>1, PastStays, ReadStays DEF BuildHolds
<1>7. ASSUME NEW t \in Scopes PROVE FileHolds(t, routeFile[t])'
  BY <1>1, <1>2, ReadStays DEF FileHolds
<1>8. Routes!WaitersAreKnown' /\ IsFiniteSet(Routes!Listed)'
  <2>1. Routes!WaitersAreKnown /\ IsFiniteSet(Routes!Listed)
    BY DEF RoutesHold
  <2>2. \A c \in Viewers, f \in Flights : Routes!Waits(c, f)' <=> Routes!Waits(c, f)
    BY <1>3 DEF Routes!Waits, Routes!Has
  <2>. QED BY <1>1, <2>1, <2>2 DEF Routes!WaitersAreKnown, Routes!Listed, Routes!Of
<1>. QED BY <1>1, <1>4, <1>5, <1>6, <1>7, <1>8 DEF RoutesHold

\* A build goes on or ends, and nobody joins or leaves it.
LEMMA BuildStep ==
  ASSUME Routes!RouteAssumption, RoutesHold, NEW f \in Flights, flight[f] # NoFlight,
         NEW b \in Routes!FlightRow \cup {NoFlight}, flight' = [flight EXCEPT ![f] = b],
         b = NoFlight => flight[f].waiters = {},
         b # NoFlight => /\ BuildHolds(b) /\ b.scope = flight[f].scope /\ b.revision = flight[f].revision
                         /\ b.waiters = flight[f].waiters
                         /\ b.listed => flight[f].listed /\ b.at # "done",
         UNCHANGED <<index, viewer>>, indexChanges' \in 0 .. MaxIndexChanges,
         routeFile' \in [Scopes -> Routes!FileRow \cup {NoRoute}], \A s \in Scopes : FileHolds(s, routeFile'[s])
  PROVE  RoutesHold'
<1>0. /\ Routes!TypeOK /\ Routes!MarksAreCounted /\ flight \in [Flights -> Routes!FlightRow \cup {NoFlight}] /\ Routes!WaitersAreKnown
      /\ IsFiniteSet(Routes!Listed)
  BY DEF RoutesHold, Routes!TypeOK
<1>1. \A g \in Flights : flight'[g] = IF g = f THEN b ELSE flight[g]
  BY <1>0
<1>2. flight' \in [Flights -> Routes!FlightRow \cup {NoFlight}]
  BY <1>0
<1>3. Routes!TypeOK' /\ Routes!MarksAreCounted'
  BY <1>0, <1>2 DEF Routes!TypeOK, Routes!MarksAreCounted
<1>4. ASSUME NEW c \in Viewers PROVE RequestHolds(viewer[c])'
  <2>1. RequestHolds(viewer[c])
    BY DEF RoutesHold
  <2>2. viewer[c].at # "idle" => viewer[c].scope \in Scopes
    BY <1>0, RequestFields
  <2>. QED BY <2>1, <2>2, PastStays, ReadStays DEF RequestHolds
<1>5. ASSUME NEW g \in Flights, flight'[g] # NoFlight PROVE BuildHolds(flight[g])'
  <2>1. /\ BuildHolds(flight'[g]) /\ flight'[g].scope \in Scopes
    <3>1. CASE g = f
      BY <1>0, <1>1, <1>5, <3>1, BuildFields
    <3>2. CASE g # f
      BY <1>0, <1>1, <1>5, <3>2, BuildFields DEF RoutesHold
    <3>. QED BY <3>1, <3>2
  <2>. QED BY <2>1, PastStays, ReadStays DEF BuildHolds
<1>6. ASSUME NEW s \in Scopes PROVE FileHolds(s, routeFile[s])'
  BY ReadStays DEF FileHolds
<1>7. ASSUME NEW c \in Viewers, NEW g \in Flights
      PROVE  Routes!Waits(c, g)' <=> flight'[g] # NoFlight /\ c \in flight'[g].waiters
  <2>1. Routes!Waits(c, g) <=> flight[g] # NoFlight /\ c \in flight[g].waiters
    BY <1>0 DEF Routes!WaitersAreKnown
  <2>2. Routes!Waits(c, g)' <=> Routes!Waits(c, g)
    BY DEF Routes!Waits, Routes!Has
  <2>. QED BY <1>1, <2>1, <2>2
<1>8. Routes!Listed' \in SUBSET Routes!Listed
  BY <1>1 DEF Routes!Listed
<1>9. IsFiniteSet(Routes!Listed)' /\ Cardinality(Routes!Listed)' <= Cardinality(Routes!Listed)
  BY <1>0, <1>8, FS_Subset
<1>10. ASSUME NEW g \in Routes!Listed'
       PROVE  flight'[g].at # "done" /\ flight'[g].waiters # {} /\ Routes!Of(flight[g].scope, flight[g].revision)' = {g}
  <2>1. g \in Routes!Listed /\ flight'[g] # NoFlight /\ flight'[g].listed /\ g \in Flights
    BY <1>8 DEF Routes!Listed
  <2>2. flight[g].at # "done" /\ flight[g].waiters # {} /\ Routes!Of(flight[g].scope, flight[g].revision) = {g}
    BY <1>0, <2>1 DEF Routes!WaitersAreKnown
  <2>3. flight'[g].at # "done" /\ flight'[g].waiters # {} /\ flight'[g].scope = flight[g].scope /\ flight'[g].revision = flight[g].revision
    BY <1>1, <2>1, <2>2
  <2>4. \A h \in Routes!Listed' : flight'[h].scope = flight[h].scope /\ flight'[h].revision = flight[h].revision
    BY <1>1 DEF Routes!Listed
  <2>5. Routes!Of(flight[g].scope, flight[g].revision)' = {g}
    BY <1>8, <2>2, <2>3, <2>4 DEF Routes!Of
  <2>. QED BY <2>3, <2>5
<1>11. Routes!WaitersAreKnown'
  <2>1. Routes!Cardinality(Routes!Listed)' <= MaxFlights
    <3>1. Routes!Cardinality(Routes!Listed) <= MaxFlights
      BY <1>0 DEF Routes!WaitersAreKnown
    <3>2. Routes!Cardinality(Routes!Listed) = Cardinality(Routes!Listed) /\ Routes!Cardinality(Routes!Listed') = Cardinality(Routes!Listed')
      BY DEF Routes!Cardinality, Cardinality
    <3>3. Cardinality(Routes!Listed) \in Nat /\ Cardinality(Routes!Listed') \in Nat /\ MaxFlights \in Nat
      BY <1>0, <1>9, FS_CardinalityType DEF Routes!RouteAssumption
    <3>. QED BY <1>9, <3>1, <3>2, <3>3
  <2>. QED BY <1>7, <1>10, <2>1 DEF Routes!WaitersAreKnown
<1>. QED BY <1>3, <1>4, <1>5, <1>6, <1>9, <1>11 DEF RoutesHold

LEMMA BuildSteps ==
  ASSUME Routes!RouteAssumption, RoutesHold, NEW f \in Flights,
         Routes!OpenFirst(f) \/ Routes!Scan(f) \/ Routes!Verify(f) \/ Routes!Rename(f) \/ Routes!Breaks(f)
  PROVE  RoutesHold'
<1>. DEFINE fl == flight[f]
<1>. DEFINE Going == [scope : Scopes, revision : Routes!Revisions, at : {"open", "scan", "verify", "rename"},
                      route : {NoRoute} \cup Routes!Paths, listed : BOOLEAN, waiters : SUBSET Viewers]
<1>1. /\ Routes!TypeOK /\ flight[f] # NoFlight /\ flight[f] \in Going /\ BuildHolds(flight[f])
      /\ flight \in [Flights -> Routes!FlightRow \cup {NoFlight}]
      /\ routeFile \in [Scopes -> Routes!FileRow \cup {NoRoute}] /\ \A s \in Scopes : FileHolds(s, routeFile[s])
      /\ UNCHANGED <<index, viewer>> /\ indexChanges' \in 0 .. MaxIndexChanges
  <2>1. /\ Routes!TypeOK /\ flight[f] # NoFlight /\ flight[f].at # "done" /\ UNCHANGED <<index, viewer>>
        /\ indexChanges' = indexChanges \/ Routes!Change
    BY DEF RoutesHold, Routes!OpenFirst, Routes!Scan, Routes!Verify, Routes!Rename, Routes!Breaks, Routes!Builds, Routes!Calm
  <2>2. indexChanges' \in 0 .. MaxIndexChanges
    BY <2>1 DEF Routes!Change, Routes!TypeOK, Routes!RouteAssumption
  <2>. QED BY <2>1, <2>2, BuildFields DEF RoutesHold, Routes!TypeOK
\* The build goes on.
<1>2. ASSUME NEW b \in Going, flight' = [flight EXCEPT ![f] = b], BuildHolds(b), b.scope = fl.scope, b.revision = fl.revision,
             b.waiters = fl.waiters, b.listed = fl.listed, UNCHANGED routeFile
      PROVE  RoutesHold'
  <2>1. b \in Routes!FlightRow /\ b # NoFlight /\ b.at # "done"
    BY DEF Routes!FlightRow, Routes!RouteAssumption
  <2>. QED BY <1>1, <1>2, <2>1, BuildStep
\* The build ends.
<1>3. ASSUME NEW err \in {"none", "changed", "unavailable", "failed"}, Routes!Ends(f, err),
             routeFile' \in [Scopes -> Routes!FileRow \cup {NoRoute}], \A s \in Scopes : FileHolds(s, routeFile'[s])
      PROVE  RoutesHold'
  <2>. DEFINE done == [scope |-> fl.scope, revision |-> fl.revision, at |-> "done", err |-> err, listed |-> FALSE, waiters |-> fl.waiters]
  <2>1. CASE fl.waiters = {}
    <3>1. flight' = [flight EXCEPT ![f] = NoFlight]
      BY <1>3, <2>1 DEF Routes!Ends
    <3>. QED BY <1>1, <1>3, <2>1, <3>1, BuildStep
  <2>2. CASE fl.waiters # {}
    <3>1. flight' = [flight EXCEPT ![f] = done]
      BY <1>3, <2>2 DEF Routes!Ends
    <3>2. done \in Routes!FlightRow
      BY <1>1 DEF Routes!FlightRow
    <3>3. done # NoFlight /\ BuildHolds(done) /\ done.listed = FALSE /\ done.scope = fl.scope /\ done.revision = fl.revision /\ done.waiters = fl.waiters
      BY <3>2 DEF Routes!RouteAssumption, BuildHolds
    <3>. HIDE DEF done
    <3>. QED BY <1>1, <1>3, <3>1, <3>2, <3>3, BuildStep
  <2>. QED BY <2>1, <2>2
<1>4. CASE Routes!OpenFirst(f)
  <2>1. UNCHANGED routeFile /\ fl.at = "open"
    BY <1>4 DEF Routes!OpenFirst, Routes!Builds
  <2>2. CASE Routes!Matches(fl.scope, fl.revision)
    BY <1>1, <1>3, <1>4, <2>1, <2>2 DEF Routes!OpenFirst
  <2>3. CASE ~Routes!Matches(fl.scope, fl.revision)
    <3>. DEFINE b == [fl EXCEPT !.at = "scan"]
    <3>1. flight' = [flight EXCEPT ![f] = b]
      BY <1>4, <2>3 DEF Routes!OpenFirst
    <3>2. b \in Going /\ b.at = "scan" /\ b.scope = fl.scope /\ b.revision = fl.revision /\ b.waiters = fl.waiters /\ b.listed = fl.listed
      BY <1>1
    <3>3. BuildHolds(b)
      BY <1>1, <2>1, <3>2 DEF BuildHolds
    <3>. HIDE DEF b
    <3>. QED BY <1>2, <2>1, <3>1, <3>2, <3>3
  <2>. QED BY <2>2, <2>3
<1>5. CASE Routes!Scan(f)
  <2>. DEFINE b == [fl EXCEPT !.at = "verify", !.route = Routes!Route(fl.scope)]
  <2>1. UNCHANGED routeFile /\ fl.at = "scan" /\ flight' = [flight EXCEPT ![f] = b]
    BY <1>5 DEF Routes!Scan, Routes!Builds
  <2>2. Routes!Route(fl.scope) \in Routes!Paths
    BY <1>1 DEF Routes!Route, Routes!Paths, Routes!OnRoute, Routes!TypeOK, Routes!Row
  <2>3. /\ b \in Going /\ b.at = "verify" /\ b.scope = fl.scope /\ b.revision = fl.revision /\ b.waiters = fl.waiters /\ b.listed = fl.listed
        /\ b.route = Routes!Route(fl.scope)
    BY <1>1, <2>2
  <2>4. BuildHolds(b)
    <3>1. Past(fl.revision)
      BY <1>1, <2>1 DEF BuildHolds
    <3>. HIDE DEF b
    <3>. QED BY <2>2, <2>3, <3>1 DEF BuildHolds, Read
  <2>. HIDE DEF b
  <2>. QED BY <1>2, <2>1, <2>3, <2>4
<1>6. CASE Routes!Verify(f)
  <2>1. UNCHANGED routeFile /\ fl.at = "verify"
    BY <1>6 DEF Routes!Verify, Routes!Builds
  <2>2. CASE Routes!Revision(fl.scope) # fl.revision
    BY <1>1, <1>3, <1>6, <2>1, <2>2 DEF Routes!Verify
  <2>3. CASE Routes!Revision(fl.scope) = fl.revision
    <3>. DEFINE b == [fl EXCEPT !.at = "rename"]
    <3>1. flight' = [flight EXCEPT ![f] = b]
      BY <1>6, <2>3 DEF Routes!Verify
    <3>2. /\ b \in Going /\ b.at = "rename" /\ b.scope = fl.scope /\ b.revision = fl.revision /\ b.waiters = fl.waiters /\ b.listed = fl.listed
          /\ b.route = fl.route
      BY <1>1
    <3>3. BuildHolds(b)
      BY <1>1, <2>1, <3>2 DEF BuildHolds
    <3>. HIDE DEF b
    <3>. QED BY <1>2, <2>1, <3>1, <3>2, <3>3
  <2>. QED BY <2>2, <2>3
<1>7. CASE Routes!Rename(f)
  <2>. DEFINE file == [revision |-> fl.revision, route |-> fl.route, whole |-> TRUE]
  <2>1. fl.at = "rename" /\ Routes!Ends(f, "none") /\ routeFile' = [routeFile EXCEPT ![fl.scope] = file]
    BY <1>7 DEF Routes!Rename, Routes!Builds
  <2>2. Read(fl.scope, fl.revision, fl.route) /\ fl.route \in Routes!Paths
    BY <1>1, <2>1 DEF BuildHolds
  <2>3. file \in Routes!FileRow
    BY <1>1, <2>2 DEF Routes!FileRow
  <2>4. FileHolds(fl.scope, file)
    BY <2>2 DEF FileHolds
  <2>5. routeFile' \in [Scopes -> Routes!FileRow \cup {NoRoute}] /\ \A s \in Scopes : FileHolds(s, routeFile'[s])
    <3>. HIDE DEF file
    <3>. QED BY <1>1, <2>1, <2>3, <2>4
  <2>. QED BY <1>3, <2>1, <2>5
<1>8. CASE Routes!Breaks(f)
  BY <1>1, <1>3, <1>8 DEF Routes!Breaks
<1>. QED BY <1>4, <1>5, <1>6, <1>7, <1>8

Agree(c, v, f, b) ==
    /\ RequestHolds(v) /\ (b # NoFlight => BuildHolds(b)) /\ (v.at = "waiting" => v.on = f)
    /\ \A g \in Flights : Routes!Waits(c, g) => g = f
    /\ \A d \in Viewers : b # NoFlight /\ d \in b.waiters <=> IF d = c THEN v.at = "waiting" ELSE flight[f] # NoFlight /\ d \in flight[f].waiters
    /\ b # NoFlight /\ b.listed =>
          /\ b.at # "done" /\ b.waiters # {}
          /\ \A g \in Routes!Listed : g = f \/ flight[g].scope # b.scope \/ flight[g].revision # b.revision
          /\ f \in Routes!Listed \/ Cardinality(Routes!Listed) < MaxFlights

\* A request joins a build, starts one, or leaves one.
LEMMA WaiterStep ==
  ASSUME Routes!RouteAssumption, RoutesHold, NEW c \in Viewers, NEW f \in Flights,
         NEW v \in Routes!ViewerRow, viewer' = [viewer EXCEPT ![c] = v],
         NEW b \in Routes!FlightRow \cup {NoFlight}, flight' = [flight EXCEPT ![f] = b],
         UNCHANGED <<index, routeFile, indexChanges>>, Agree(c, v, f, b)
  PROVE  RoutesHold'
<1>. /\ RequestHolds(v) /\ (b # NoFlight => BuildHolds(b)) /\ (v.at = "waiting" => v.on = f)
     /\ \A g \in Flights : Routes!Waits(c, g) => g = f
     /\ \A d \in Viewers : b # NoFlight /\ d \in b.waiters <=> IF d = c THEN v.at = "waiting" ELSE flight[f] # NoFlight /\ d \in flight[f].waiters
  BY DEF Agree
<1>0. /\ Routes!TypeOK /\ Routes!MarksAreCounted /\ flight \in [Flights -> Routes!FlightRow \cup {NoFlight}]
      /\ viewer \in [Viewers -> Routes!ViewerRow] /\ Routes!WaitersAreKnown /\ IsFiniteSet(Routes!Listed) /\ MaxFlights \in Nat
  BY DEF RoutesHold, Routes!TypeOK, Routes!RouteAssumption
<1>1. /\ \A g \in Flights : flight'[g] = IF g = f THEN b ELSE flight[g]
      /\ \A d \in Viewers : viewer'[d] = IF d = c THEN v ELSE viewer[d]
  BY <1>0
<1>2. Routes!TypeOK' /\ Routes!MarksAreCounted'
  BY <1>0 DEF Routes!TypeOK, Routes!MarksAreCounted
<1>3. ASSUME NEW d \in Viewers PROVE RequestHolds(viewer[d])'
  <2>1. RequestHolds(viewer'[d])
    BY <1>1 DEF RoutesHold
  <2>2. viewer'[d].at \in {"read", "check"} => viewer'[d].scope \in Scopes
    BY <1>0, <1>1, RequestFields DEF Routes!ViewerRow, Routes!Idle
  <2>. QED BY <2>1, <2>2, PastStays, ReadStays DEF RequestHolds
<1>4. ASSUME NEW g \in Flights, flight'[g] # NoFlight PROVE BuildHolds(flight[g])'
  <2>1. BuildHolds(flight'[g])
    BY <1>1, <1>4 DEF RoutesHold
  <2>2. flight'[g].scope \in Scopes
    BY <1>0, <1>1, <1>4, BuildFields DEF Routes!FlightRow
  <2>. QED BY <2>1, <2>2, PastStays, ReadStays DEF BuildHolds
<1>5. ASSUME NEW s \in Scopes PROVE FileHolds(s, routeFile[s])'
  BY ReadStays DEF FileHolds, RoutesHold
<1>6. ASSUME NEW d \in Viewers, NEW g \in Flights
      PROVE  Routes!Waits(d, g)' <=> flight'[g] # NoFlight /\ d \in flight'[g].waiters
  <2>1. Routes!Waits(d, g) <=> flight[g] # NoFlight /\ d \in flight[g].waiters
    BY <1>0 DEF Routes!WaitersAreKnown
  <2>2. Routes!Waits(d, g)' <=> IF d = c THEN v.at = "waiting" /\ v.on = g ELSE Routes!Waits(d, g)
    BY <1>1 DEF Routes!Waits, Routes!Has
  <2>3. CASE g = f
    BY <1>1, <2>1, <2>2, <2>3
  <2>4. CASE g # f
    BY <1>1, <2>1, <2>2, <2>4
  <2>. QED BY <2>3, <2>4
<1>7. Routes!Listed' \in SUBSET (Routes!Listed \cup {f})
  BY <1>1 DEF Routes!Listed
<1>8. f \in Routes!Listed' => /\ b # NoFlight /\ b.at # "done" /\ b.waiters # {}
                              /\ \A g \in Routes!Listed : g = f \/ flight[g].scope # b.scope \/ flight[g].revision # b.revision
                              /\ f \in Routes!Listed \/ Cardinality(Routes!Listed) < MaxFlights
  BY <1>1 DEF Routes!Listed, Agree
<1>9. IsFiniteSet(Routes!Listed') /\ Cardinality(Routes!Listed') <= MaxFlights
  <2>1. Cardinality(Routes!Listed) <= MaxFlights /\ Cardinality(Routes!Listed) \in Nat
    BY <1>0, FS_CardinalityType DEF Routes!WaitersAreKnown, Routes!Cardinality, Cardinality
  <2>2. CASE f \in Routes!Listed \/ f \notin Routes!Listed'
    <3>1. Routes!Listed' \in SUBSET Routes!Listed
      BY <1>7, <2>2
    <3>2. IsFiniteSet(Routes!Listed') /\ Cardinality(Routes!Listed') <= Cardinality(Routes!Listed) /\ Cardinality(Routes!Listed') \in Nat
      BY <1>0, <3>1, FS_Subset, FS_CardinalityType
    <3>. QED BY <1>0, <2>1, <3>2
  <2>3. CASE f \notin Routes!Listed /\ f \in Routes!Listed'
    <3>1. Cardinality(Routes!Listed) < MaxFlights
      BY <1>8, <2>3
    <3>2. IsFiniteSet(Routes!Listed \cup {f}) /\ Cardinality(Routes!Listed \cup {f}) = Cardinality(Routes!Listed) + 1
      BY <1>0, <2>3, FS_AddElement
    <3>3. IsFiniteSet(Routes!Listed') /\ Cardinality(Routes!Listed') <= Cardinality(Routes!Listed \cup {f}) /\ Cardinality(Routes!Listed') \in Nat
      BY <1>7, <3>2, FS_Subset, FS_CardinalityType
    <3>. QED BY <1>0, <2>1, <3>1, <3>2, <3>3
  <2>. QED BY <2>2, <2>3
<1>10. ASSUME NEW g \in Routes!Listed'
       PROVE  flight'[g].at # "done" /\ flight'[g].waiters # {} /\ Routes!Of(flight[g].scope, flight[g].revision)' = {g}
  <2>0. g \in Flights
    BY <1>10 DEF Routes!Listed
  <2>1. CASE g = f
    <3>1. b.at # "done" /\ b.waiters # {} /\ \A h \in Routes!Listed : h = f \/ flight[h].scope # b.scope \/ flight[h].revision # b.revision
      BY <1>8, <2>1
    <3>2. \A h \in Routes!Listed' : h # f => h \in Routes!Listed /\ flight'[h] = flight[h]
      BY <1>1, <1>7 DEF Routes!Listed
    <3>3. Routes!Of(flight[f].scope, flight[f].revision)' = {f}
      BY <1>1, <2>1, <3>1, <3>2 DEF Routes!Of
    <3>. QED BY <1>1, <2>1, <3>1, <3>3
  <2>2. CASE g # f
    <3>1. g \in Routes!Listed /\ flight'[g] = flight[g]
      BY <1>1, <1>7, <2>0, <2>2
    <3>2. flight[g].at # "done" /\ flight[g].waiters # {} /\ Routes!Of(flight[g].scope, flight[g].revision) = {g}
      BY <1>0, <3>1 DEF Routes!WaitersAreKnown
    <3>3. f \in Routes!Listed' => b.scope # flight[g].scope \/ b.revision # flight[g].revision
      BY <1>8, <2>2, <3>1
    <3>4. \A h \in Routes!Listed' : IF h = f THEN flight'[h] = b ELSE h \in Routes!Listed /\ flight'[h] = flight[h]
      BY <1>1, <1>7 DEF Routes!Listed
    <3>5. \A h \in Routes!Listed : flight[h].scope = flight[g].scope /\ flight[h].revision = flight[g].revision => h = g
      BY <3>2 DEF Routes!Of
    <3>6. Routes!Of(flight[g].scope, flight[g].revision)' = {g}
      BY <1>10, <2>2, <3>1, <3>3, <3>4, <3>5 DEF Routes!Of
    <3>. QED BY <3>1, <3>2, <3>6
  <2>. QED BY <2>1, <2>2
<1>11. Routes!WaitersAreKnown'
  <2>1. Routes!Cardinality(Routes!Listed') = Cardinality(Routes!Listed')
    BY DEF Routes!Cardinality, Cardinality
  <2>. QED BY <1>6, <1>9, <1>10, <2>1 DEF Routes!WaitersAreKnown
<1>. QED BY <1>2, <1>3, <1>4, <1>5, <1>9, <1>11 DEF RoutesHold

LEMMA JoinStep ==
  ASSUME Routes!RouteAssumption, RoutesHold, NEW c \in Viewers, Routes!Join(c)
  PROVE  RoutesHold'
<1>. DEFINE v0 == viewer[c]
<1>. DEFINE same == Routes!Of(v0.scope, v0.revision)
<1>1. /\ v0.at = "join" /\ UNCHANGED <<index, routeFile, indexChanges>> /\ Routes!TypeOK /\ Routes!WaitersAreKnown
      /\ v0.scope \in Scopes /\ v0.attempt \in 1 .. MaxAttempts /\ v0.revision \in Routes!Revisions /\ Past(v0.revision)
  BY RequestFields DEF Routes!Join, Routes!Has, RoutesHold, RequestHolds
<1>2. \A f \in Flights : ~Routes!Waits(c, f) /\ (flight[f] # NoFlight => c \notin flight[f].waiters)
  BY <1>1 DEF Routes!Waits, Routes!Has, Routes!WaitersAreKnown
<1>3. ASSUME NEW f \in Flights
      PROVE  Routes!Waiting(c, f) \in Routes!ViewerRow /\ RequestHolds(Routes!Waiting(c, f)) /\ Routes!Waiting(c, f).at = "waiting" /\ Routes!Waiting(c, f).on = f
  BY <1>1 DEF Routes!Waiting, Routes!ViewerRow, RequestHolds
<1>4. CASE \E f \in same : /\ flight' = [flight EXCEPT ![f].waiters = @ \cup {c}]
                           /\ Routes!Becomes(c, Routes!Waiting(c, f))
  <2>0. PICK f \in same : /\ flight' = [flight EXCEPT ![f].waiters = @ \cup {c}]
                          /\ Routes!Becomes(c, Routes!Waiting(c, f))
    BY <1>4
  <2>1. /\ flight' = [flight EXCEPT ![f] = [flight[f] EXCEPT !.waiters = flight[f].waiters \cup {c}]]
        /\ viewer' = [viewer EXCEPT ![c] = Routes!Waiting(c, f)]
    <3>1. flight' = [flight EXCEPT ![f] = [flight[f] EXCEPT !.waiters = flight[f].waiters \cup {c}]]
      BY <2>0
    <3>2. viewer' = [viewer EXCEPT ![c] = Routes!Waiting(c, f)]
      BY <2>0 DEF Routes!Becomes
    <3>. QED BY <3>1, <3>2
  <2>2. /\ f \in Flights /\ f \in Routes!Listed /\ flight[f] # NoFlight /\ flight[f].listed /\ flight[f].at # "done"
        /\ \A g \in Routes!Listed : g = f \/ flight[g].scope # flight[f].scope \/ flight[g].revision # flight[f].revision
    BY <1>1 DEF Routes!Of, Routes!Listed, Routes!WaitersAreKnown
  <2>. DEFINE b == [flight[f] EXCEPT !.waiters = flight[f].waiters \cup {c}]
  <2>3. /\ b \in Routes!FlightRow /\ b.at = flight[f].at /\ b.scope = flight[f].scope /\ b.revision = flight[f].revision
        /\ b.waiters = flight[f].waiters \cup {c} /\ b.route = flight[f].route
    BY <1>1, <2>2, BuildFields DEF Routes!FlightRow
  <2>4. BuildHolds(b) /\ b # NoFlight
    BY <2>2, <2>3 DEF RoutesHold, BuildHolds, Routes!RouteAssumption
  <2>. HIDE DEF b
  <2>5. flight' = [flight EXCEPT ![f] = b]
    BY <2>1 DEF b
  <2>6. \A d \in Viewers : b # NoFlight /\ d \in b.waiters <=> IF d = c THEN Routes!Waiting(c, f).at = "waiting" ELSE flight[f] # NoFlight /\ d \in flight[f].waiters
    BY <1>3, <2>2, <2>3, <2>4
  <2>7. b.listed => /\ b.at # "done" /\ b.waiters # {}
                    /\ \A g \in Routes!Listed : g = f \/ flight[g].scope # b.scope \/ flight[g].revision # b.revision
                    /\ f \in Routes!Listed \/ Cardinality(Routes!Listed) < MaxFlights
    BY <2>2, <2>3
  <2>8. f \in Flights /\ b \in Routes!FlightRow /\ b # NoFlight /\ BuildHolds(b)
    BY <2>2, <2>3, <2>4
  <2>. DEFINE v == Routes!Waiting(c, f)
  <2>9. /\ v \in Routes!ViewerRow /\ RequestHolds(v) /\ v.at = "waiting" /\ v.on = f /\ viewer' = [viewer EXCEPT ![c] = v]
        /\ \A d \in Viewers : b # NoFlight /\ d \in b.waiters <=> IF d = c THEN v.at = "waiting" ELSE flight[f] # NoFlight /\ d \in flight[f].waiters
    BY <1>3, <2>1, <2>6, <2>8
  <2>. HIDE DEF v
  <2>10. \A g \in Flights : Routes!Waits(c, g) => g = f
    BY <1>2
  <2>11. b \in Routes!FlightRow \cup {NoFlight} /\ (b # NoFlight => BuildHolds(b)) /\ (v.at = "waiting" => v.on = f) /\ UNCHANGED <<index, routeFile, indexChanges>>
    BY <1>1, <2>8, <2>9
  <2>12. Agree(c, v, f, b)
    BY <2>7, <2>8, <2>9, <2>10 DEF Agree
  <2>. QED BY <2>5, <2>8, <2>9, <2>11, <2>12, WaiterStep
<1>5. CASE /\ same = {} /\ Routes!Cardinality(Routes!Listed) < MaxFlights
           /\ \E f \in Flights : flight[f] = NoFlight /\ flight' = [flight EXCEPT ![f] = Routes!NewFlight(c)] /\ Routes!Becomes(c, Routes!Waiting(c, f))
  <2>1. PICK f \in Flights : flight[f] = NoFlight /\ flight' = [flight EXCEPT ![f] = Routes!NewFlight(c)]
                             /\ viewer' = [viewer EXCEPT ![c] = Routes!Waiting(c, f)]
    BY <1>5 DEF Routes!Becomes
  <2>. DEFINE b == Routes!NewFlight(c)
  <2>2. /\ b \in Routes!FlightRow /\ b.at = "open" /\ b.scope = v0.scope /\ b.revision = v0.revision /\ b.waiters = {c}
    BY <1>1 DEF Routes!NewFlight, Routes!FlightRow
  <2>3. BuildHolds(b) /\ b # NoFlight
    BY <1>1, <2>2 DEF BuildHolds, Routes!RouteAssumption
  <2>4. \A g \in Routes!Listed : flight[g].scope # b.scope \/ flight[g].revision # b.revision
    BY <1>5, <2>2 DEF Routes!Of
  <2>5. Cardinality(Routes!Listed) < MaxFlights
    BY <1>5 DEF Routes!Cardinality, Cardinality
  <2>. HIDE DEF b
  <2>6. flight' = [flight EXCEPT ![f] = b]
    BY <2>1 DEF b
  <2>7. \A d \in Viewers : b # NoFlight /\ d \in b.waiters <=> IF d = c THEN Routes!Waiting(c, f).at = "waiting" ELSE flight[f] # NoFlight /\ d \in flight[f].waiters
    BY <1>3, <2>1, <2>2, <2>3
  <2>8. b.listed => /\ b.at # "done" /\ b.waiters # {}
                    /\ \A g \in Routes!Listed : g = f \/ flight[g].scope # b.scope \/ flight[g].revision # b.revision
                    /\ f \in Routes!Listed \/ Cardinality(Routes!Listed) < MaxFlights
    BY <2>2, <2>4, <2>5
  <2>9. f \in Flights /\ b \in Routes!FlightRow /\ b # NoFlight /\ BuildHolds(b)
    BY <2>2, <2>3, <2>4
  <2>. DEFINE v == Routes!Waiting(c, f)
  <2>10. /\ v \in Routes!ViewerRow /\ RequestHolds(v) /\ v.at = "waiting" /\ v.on = f /\ viewer' = [viewer EXCEPT ![c] = v]
        /\ \A d \in Viewers : b # NoFlight /\ d \in b.waiters <=> IF d = c THEN v.at = "waiting" ELSE flight[f] # NoFlight /\ d \in flight[f].waiters
    BY <1>3, <2>1, <2>7, <2>9
  <2>. HIDE DEF v
  <2>11. \A g \in Flights : Routes!Waits(c, g) => g = f
    BY <1>2
  <2>12. b \in Routes!FlightRow \cup {NoFlight} /\ (b # NoFlight => BuildHolds(b)) /\ (v.at = "waiting" => v.on = f) /\ UNCHANGED <<index, routeFile, indexChanges>>
    BY <1>1, <2>9, <2>10
  <2>13. Agree(c, v, f, b)
    BY <2>8, <2>9, <2>10, <2>11 DEF Agree
  <2>. QED BY <2>6, <2>9, <2>10, <2>12, <2>13, WaiterStep
<1>6. CASE Routes!Becomes(c, Routes!Stage(c, "stream")) /\ UNCHANGED flight
  <2>1. Routes!Stage(c, "stream") \in Routes!ViewerRow /\ RequestHolds(Routes!Stage(c, "stream")) /\ Routes!Stage(c, "stream").at = "stream"
    BY <1>1 DEF Routes!Stage, Routes!ViewerRow, RequestHolds
  <2>. QED BY <1>1, <1>6, <2>1, QuietRequestStep
<1>. QED BY <1>4, <1>5, <1>6 DEF Routes!Join

\* Who leaves a build, for what follows.
LEMMA LeaveStep ==
  ASSUME Routes!RouteAssumption, RoutesHold, NEW c \in Viewers, NEW f \in Flights, Routes!Waits(c, f),
         NEW v \in Routes!ViewerRow, Routes!Becomes(c, v), RequestHolds(v), v.at # "waiting",
         flight' = [flight EXCEPT ![f] = Routes!Left(f, c)], UNCHANGED <<index, routeFile, indexChanges>>
  PROVE  RoutesHold'
<1>1. /\ Routes!TypeOK /\ Routes!WaitersAreKnown /\ flight[f] # NoFlight /\ c \in flight[f].waiters /\ BuildHolds(flight[f])
      /\ \A g \in Flights : Routes!Waits(c, g) => g = f
  BY DEF RoutesHold, Routes!WaitersAreKnown, Routes!Waits
<1>2. viewer' = [viewer EXCEPT ![c] = v]
  BY DEF Routes!Becomes
<1>3. flight[f].listed => /\ f \in Routes!Listed /\ flight[f].at # "done"
                          /\ \A g \in Routes!Listed : g = f \/ flight[g].scope # flight[f].scope \/ flight[g].revision # flight[f].revision
  BY <1>1 DEF Routes!Of, Routes!Listed, Routes!WaitersAreKnown
<1>. DEFINE b == Routes!Left(f, c)
<1>4. CASE flight[f].waiters # {c}
  <2>1. b = [flight[f] EXCEPT !.waiters = flight[f].waiters \ {c}]
    BY <1>4 DEF Routes!Left
  <2>2. /\ b \in Routes!FlightRow /\ b.at = flight[f].at /\ b.scope = flight[f].scope /\ b.revision = flight[f].revision
        /\ b.waiters = flight[f].waiters \ {c} /\ b.waiters # {} /\ (b.listed <=> flight[f].listed)
        /\ flight[f].at # "done" => b.route = flight[f].route
    <3>1. PICK waiters \in SUBSET Viewers : waiters = flight[f].waiters \ {c}
      BY <1>1, BuildFields
    <3>2. PICK g \in Routes!FlightRow : g = flight[f]
      BY <1>1, BuildFields
    <3>3. b = [g EXCEPT !.waiters = waiters] /\ waiters # {}
      BY <1>1, <1>4, <2>1, <3>1, <3>2
    <3>4. /\ b \in Routes!FlightRow /\ b.at = g.at /\ b.scope = g.scope /\ b.revision = g.revision
          /\ b.waiters = waiters /\ b.listed = g.listed /\ (g.at # "done" => b.route = g.route)
      BY <3>2, <3>3 DEF Routes!FlightRow
    <3>. HIDE DEF b
    <3>. QED BY <3>1, <3>2, <3>3, <3>4
  <2>3. BuildHolds(b) /\ b # NoFlight
    BY <1>1, <2>2 DEF BuildHolds, Routes!RouteAssumption
  <2>. HIDE DEF b
  <2>4. flight' = [flight EXCEPT ![f] = b]
    BY DEF b
  <2>5. \A d \in Viewers : b # NoFlight /\ d \in b.waiters <=> IF d = c THEN v.at = "waiting" ELSE flight[f] # NoFlight /\ d \in flight[f].waiters
    BY <1>1, <2>2, <2>3
  <2>6. b.listed => /\ f \in Routes!Listed /\ b.at # "done"
                    /\ \A g \in Routes!Listed : g = f \/ flight[g].scope # b.scope \/ flight[g].revision # b.revision
    BY <1>3, <2>2
  <2>7. Agree(c, v, f, b)
    BY <1>1, <2>2, <2>3, <2>5, <2>6 DEF Agree
  <2>. QED BY <1>2, <2>2, <2>4, <2>7, WaiterStep
<1>5. CASE flight[f].waiters = {c} /\ flight[f].at = "done"
  <2>1. b = NoFlight
    BY <1>5 DEF Routes!Left
  <2>2. flight' = [flight EXCEPT ![f] = NoFlight]
    BY <2>1
  <2>3. Agree(c, v, f, NoFlight)
    BY <1>1, <1>5 DEF Agree
  <2>. QED BY <1>2, <2>2, <2>3, WaiterStep
<1>6. CASE flight[f].waiters = {c} /\ flight[f].at # "done"
  <2>1. b = [flight[f] EXCEPT !.waiters = {}, !.listed = FALSE]
    BY <1>6 DEF Routes!Left
  <2>2. /\ b \in Routes!FlightRow /\ b.at = flight[f].at /\ b.scope = flight[f].scope /\ b.revision = flight[f].revision
        /\ b.waiters = {} /\ b.route = flight[f].route /\ b.listed = FALSE
    BY <1>1, <1>6, <2>1, BuildFields DEF Routes!FlightRow
  <2>3. BuildHolds(b) /\ b # NoFlight
    BY <1>1, <2>2 DEF BuildHolds, Routes!RouteAssumption
  <2>. HIDE DEF b
  <2>4. flight' = [flight EXCEPT ![f] = b]
    BY DEF b
  <2>5. Agree(c, v, f, b)
    BY <1>1, <1>6, <2>2, <2>3 DEF Agree
  <2>. QED BY <1>2, <2>2, <2>4, <2>5, WaiterStep
<1>. QED BY <1>4, <1>5, <1>6

LEMMA LeaveSteps ==
  ASSUME Routes!RouteAssumption, RoutesHold, NEW c \in Viewers, NEW f \in Flights, Routes!Leave(c, f) \/ Routes!Answered(c, f)
  PROVE  RoutesHold'
<1>1. /\ Routes!Waits(c, f) /\ flight' = [flight EXCEPT ![f] = Routes!Left(f, c)] /\ UNCHANGED <<index, routeFile, indexChanges>>
      /\ viewer[c].at = "waiting" /\ Routes!TypeOK /\ RequestHolds(viewer[c])
  BY DEF Routes!Leave, Routes!Answered, Routes!Waits, Routes!Has, RoutesHold
<1>2. /\ viewer[c].scope \in Scopes /\ viewer[c].attempt \in 1 .. MaxAttempts /\ viewer[c].revision \in Routes!Revisions /\ Past(viewer[c].revision)
  BY <1>1, RequestFields DEF RequestHolds
<1>3. CASE Routes!Becomes(c, Routes!Idle)
  <2>1. Routes!Idle \in Routes!ViewerRow /\ RequestHolds(Routes!Idle) /\ Routes!Idle.at # "waiting"
    BY DEF Routes!Idle, Routes!ViewerRow, RequestHolds
  <2>. QED BY <1>1, <1>3, <2>1, LeaveStep
<1>4. ASSUME NEW at \in {"reopen", "stream"}, Routes!Becomes(c, Routes!Stage(c, at)) PROVE RoutesHold'
  <2>1. Routes!Stage(c, at) \in Routes!ViewerRow /\ RequestHolds(Routes!Stage(c, at)) /\ Routes!Stage(c, at).at # "waiting"
    BY <1>2 DEF Routes!Stage, Routes!ViewerRow, RequestHolds
  <2>. QED BY <1>1, <1>4, <2>1, LeaveStep
<1>5. CASE Routes!Retry(c)
  <2>1. PICK v \in Routes!ViewerRow : Routes!Becomes(c, v) /\ RequestHolds(v) /\ v.at # "waiting"
    BY <1>1, <1>5, RetryIsRequest
  <2>. QED BY <1>1, <2>1, LeaveStep
<1>. QED BY <1>3, <1>4, <1>5 DEF Routes!Leave, Routes!Answered

LEMMA RoutesNext == ASSUME Routes!RouteAssumption, RoutesHold, [Routes!Next]_(Routes!routeVars) PROVE RoutesHold'
<1>1. CASE \E p \in Pictures, row \in Routes!Row \cup {NoPicture} : Routes!Write(p, row)
  BY <1>1, WriteMoves, IndexStep DEF RoutesHold, Routes!Write
<1>2. CASE Routes!Recreate
  BY <1>2, RecreateMoves, IndexStep DEF RoutesHold, Routes!Recreate
<1>3. CASE \E s \in Scopes : Routes!Damage(s) \/ Routes!Prune(s)
  BY <1>3, FileSteps
<1>4. CASE \E c \in Viewers : \/ \E s \in Scopes : Routes!Ask(c, s)
                              \/ Routes!ReadRevision(c) \/ Routes!OpenCache(c) \/ Routes!Uncached(c) \/ Routes!Reopen(c)
                              \/ Routes!ReadCache(c) \/ Routes!Stream(c) \/ Routes!Check(c)
  BY <1>4, RequestSteps
<1>5. CASE \E c \in Viewers : Routes!Join(c) \/ \E f \in Flights : Routes!Leave(c, f) \/ Routes!Answered(c, f)
  BY <1>5, JoinStep, LeaveSteps
<1>6. CASE \E f \in Flights : Routes!OpenFirst(f) \/ Routes!Scan(f) \/ Routes!Verify(f) \/ Routes!Rename(f) \/ Routes!Breaks(f)
  BY <1>6, BuildSteps
<1>7. CASE UNCHANGED Routes!routeVars
  <2>1. UNCHANGED <<index, routeFile, flight, viewer, indexChanges>>
    BY <1>7 DEF Routes!routeVars
  <2>2. Moves /\ Routes!TypeOK' /\ Routes!MarksAreCounted'
    BY <2>1 DEF Moves, Past, Routes!Revision, Routes!Route, RoutesHold, Routes!TypeOK, Routes!MarksAreCounted
  <2>. QED BY <2>1, <2>2, IndexStep
<1>. QED BY <1>1, <1>2, <1>3, <1>4, <1>5, <1>6, <1>7 DEF Routes!Next

\* Whatever changes while a route is built, cached and shared, what is answered is
\* the route of the index, or is thrown away (route_cache.go, route_revision.go).
LEMMA RoutesAreTrue == Routes!Spec => []Routes!RoutesInv
<1>1. RoutesHold => Routes!RoutesInv
  <2>1. SUFFICES ASSUME RoutesHold PROVE Routes!RoutesInv
    OBVIOUS
  <2>2. Routes!AnswersAreCurrent
    BY <2>1 DEF RoutesHold, RequestHolds, Read, Routes!AnswersAreCurrent, Routes!Current, Routes!Has
  <2>3. Routes!FilesAreCurrent
    BY <2>1 DEF RoutesHold, FileHolds, Read, Routes!FilesAreCurrent
  <2>. QED BY <2>1, <2>2, <2>3 DEF RoutesHold, Routes!RoutesInv
<1>. QED BY <1>1, RoutesInit, RoutesNext, RoutesInstance, PTL DEF Routes!Spec

-----------------------------------------------------------------------------
(* PhotoVisibility                                                          *)

\* Who takes the result of a scan: its runner, and who waits for it or is about to,
\* unless the scan is too old for it.
Takes(c, g, s, r) == c = s.runner \/ (g.at \in {"check", "wait"} /\ g.range = r /\ c \notin s.old)
\* A folder and a marker above it that are due, the value of the folder's rows, and
\* a scan: it has the folder before it, or among those it looks at, and does not pass
\* over the marker.
SeenBy(q, v, s) ==
    /\ v = "public" => q[1] > s.cursor
    /\ s.at = "read" /\ v = "public" =>
          \/ q[1] \in s.batch
          \/ Cardinality(s.batch) = BatchSize /\ \A f \in s.batch : f < q[1]
    /\ q[2] \in s.read => q[2] \in s.found
ScanHolds(s) == /\ s.batch \in SUBSET Folders /\ s.cursor \in Nat /\ (s.at = "list" => s.read = {})
                /\ s.found \subseteq s.read
GuestRows == [at : {"check", "wait", "run", "done"}, range : Ranges] \cup {Visibility!Resting}
VisibilityHolds ==
    /\ Visibility!TypeOK /\ Visibility!DueIsMarked /\ Visibility!MarkedIsPrivate
    /\ \A r \in Ranges : scan[r] # NoScan => /\ guest[scan[r].runner].at = "run" /\ guest[scan[r].runner].range = r
                                             /\ scan[r].runner \in Guests /\ ScanHolds(scan[r])
    /\ \A c \in Guests : guest[c].at # "idle" => \A q \in due[c] : q[1] \in guest[c].range
    /\ \A r \in Ranges, c \in Guests : scan[r] # NoScan /\ Takes(c, guest[c], scan[r], r) => \A q \in due[c] : SeenBy(q, rows[q[1]], scan[r])

\* What the type of the rows says of each.
LEMMA VisibilityFields ==
  /\ \A g \in [at : {"check", "wait", "run", "done"}, range : Ranges] \cup {Visibility!Resting} :
        /\ g.at \in {"idle", "check", "wait", "run", "done"} /\ (g.at # "idle" => g.range \in Ranges)
        /\ (g = Visibility!Resting <=> g.at = "idle")
        /\ \A at \in {"check", "wait", "run", "done"} :
              g.at # "idle" => /\ [g EXCEPT !.at = at] \in [at : {"check", "wait", "run", "done"}, range : Ranges]
                               /\ [g EXCEPT !.at = at].at = at /\ [g EXCEPT !.at = at].range = g.range
  /\ \A s \in Visibility!ScanRow :
        /\ s.at \in {"list", "read"} /\ s.runner \in Guests /\ s.cursor \in Nat /\ s.batch \in SUBSET Folders
        /\ s.read \in SUBSET Markers /\ s.found \in SUBSET Markers /\ s.old \in SUBSET Guests
        /\ s = [at |-> s.at, runner |-> s.runner, cursor |-> s.cursor, batch |-> s.batch, read |-> s.read, found |-> s.found, old |-> s.old]
  BY DEF Visibility!Resting, Visibility!ScanRow

\* The rows or markers change, no scan does.
LEMMA MarksStep ==
  ASSUME Visibility!VisibilityAssumption, VisibilityHolds, Visibility!TypeOK', UNCHANGED <<scan, guest>>,
         \A c \in Guests : \A q \in due'[c] : q \in due[c] /\ q[2] \in marked' /\ rows'[q[1]] = rows[q[1]]
  PROVE  VisibilityHolds'
<1>1. /\ Visibility!TypeOK /\ Visibility!DueIsMarked /\ Visibility!MarkedIsPrivate
  BY DEF VisibilityHolds
<1>2. Visibility!DueIsMarked' /\ Visibility!MarkedIsPrivate'
  BY <1>1 DEF Visibility!DueIsMarked, Visibility!MarkedIsPrivate, Visibility!Is
<1>3. ASSUME NEW r \in Ranges, NEW c \in Guests, scan'[r] # NoScan, Takes(c, guest'[c], scan'[r], r), NEW q \in due'[c]
      PROVE  SeenBy(q, rows'[q[1]], scan'[r])
  <2>1. scan[r] # NoScan /\ Takes(c, guest[c], scan[r], r) /\ q \in due[c] /\ rows'[q[1]] = rows[q[1]] /\ scan'[r] = scan[r]
    BY <1>3
  <2>2. SeenBy(q, rows[q[1]], scan[r])
    BY <2>1 DEF VisibilityHolds
  <2>. QED BY <2>1, <2>2
<1>4. \A c \in Guests : guest'[c].at # "idle" => \A q \in due'[c] : q[1] \in guest'[c].range
  BY DEF VisibilityHolds
<1>5. \A r \in Ranges : scan'[r] # NoScan => /\ guest'[scan'[r].runner].at = "run" /\ guest'[scan'[r].runner].range = r
                                             /\ scan'[r].runner \in Guests /\ ScanHolds(scan'[r])
  BY DEF VisibilityHolds
<1>. QED BY <1>2, <1>3, <1>4, <1>5 DEF VisibilityHolds

LEMMA MarkSteps ==
  ASSUME Visibility!VisibilityAssumption, VisibilityHolds,
         \/ \E a \in Markers : Visibility!Mark(a) \/ Visibility!Unmark(a)
         \/ \E f \in Folders, v \in {"none", "public", "private"} : Visibility!WriteRows(f, v)
  PROVE  VisibilityHolds'
<1>0. Visibility!TypeOK /\ Visibility!DueIsMarked /\ MaxMarks \in Nat
  BY DEF VisibilityHolds, Visibility!VisibilityAssumption
<1>1. ASSUME NEW a \in Markers, Visibility!Mark(a) PROVE VisibilityHolds'
  <2>1. Visibility!TypeOK' /\ UNCHANGED <<scan, guest, rows, due>> /\ marked \subseteq marked'
    BY <1>0, <1>1 DEF Visibility!Mark, Visibility!TypeOK, Visibility!Change
  <2>. QED BY <1>0, <2>1, MarksStep DEF Visibility!DueIsMarked
<1>2. ASSUME NEW a \in Markers, Visibility!Unmark(a) PROVE VisibilityHolds'
  <2>1. /\ UNCHANGED <<scan, guest, rows>> /\ marked' = marked \ {a} /\ marks < MaxMarks /\ marks' = marks + 1
        /\ due' = [c \in Guests |-> {q \in due[c] : q[2] # a}]
    BY <1>2 DEF Visibility!Unmark, Visibility!Change
  <2>2. Visibility!TypeOK'
    BY <1>0, <2>1 DEF Visibility!TypeOK
  <2>. QED BY <1>0, <2>1, <2>2, MarksStep DEF Visibility!DueIsMarked
<1>3. ASSUME NEW f \in Folders, NEW v \in {"none", "public", "private"}, Visibility!WriteRows(f, v) PROVE VisibilityHolds'
  <2>1. /\ UNCHANGED <<scan, guest, marked>> /\ rows' = [rows EXCEPT ![f] = v] /\ marks < MaxMarks /\ marks' = marks + 1
        /\ due' = [c \in Guests |-> {q \in due[c] : q[1] # f}]
    BY <1>3 DEF Visibility!WriteRows, Visibility!Change
  <2>2. Visibility!TypeOK'
    BY <1>0, <2>1 DEF Visibility!TypeOK
  <2>3. \A c \in Guests : \A q \in due'[c] : q \in due[c] /\ q[1] # f /\ q[1] \in Folders
    BY <1>0, <2>1 DEF Visibility!TypeOK
  <2>4. \A c \in Guests : \A q \in due'[c] : rows'[q[1]] = rows[q[1]]
    BY <1>0, <2>1, <2>3 DEF Visibility!TypeOK
  <2>. QED BY <1>0, <2>1, <2>2, <2>3, <2>4, MarksStep DEF Visibility!DueIsMarked
<1>. QED BY <1>1, <1>2, <1>3

\* A request goes on, and no scan is for it that was not before.
LEMMA QuietGuestStep ==
  ASSUME Visibility!VisibilityAssumption, VisibilityHolds, NEW c \in Guests, guest[c].at # "run",
         NEW g \in GuestRows, guest' = [guest EXCEPT ![c] = g], g.at \in {"idle", "wait"},
         g.at = "wait" => guest[c].at = "check" /\ g.range = guest[c].range,
         NEW D \in SUBSET due[c], due' = [due EXCEPT ![c] = D], UNCHANGED <<marked, rows, scan, marks>>
  PROVE  VisibilityHolds'
<1>0. /\ Visibility!TypeOK /\ Visibility!DueIsMarked /\ Visibility!MarkedIsPrivate
      /\ guest \in [Guests -> GuestRows] /\ due \in [Guests -> SUBSET (Folders \X Markers)]
  BY DEF VisibilityHolds, Visibility!TypeOK, GuestRows
<1>1. /\ \A d \in Guests : guest'[d] = IF d = c THEN g ELSE guest[d]
      /\ \A d \in Guests : due'[d] \in SUBSET due[d]
  BY <1>0
<1>2. Visibility!TypeOK'
  BY <1>0 DEF Visibility!TypeOK, GuestRows
<1>3. Visibility!DueIsMarked' /\ Visibility!MarkedIsPrivate'
  BY <1>0, <1>1 DEF Visibility!DueIsMarked, Visibility!MarkedIsPrivate, Visibility!Is
<1>4. ASSUME NEW r \in Ranges, NEW d \in Guests, scan[r] # NoScan, Takes(d, guest'[d], scan[r], r), NEW q \in due'[d]
      PROVE  SeenBy(q, rows[q[1]], scan[r])
  <2>1. Takes(d, guest[d], scan[r], r)
    BY <1>1, <1>4 DEF Takes
  <2>. QED BY <1>1, <1>4, <2>1 DEF VisibilityHolds
<1>5. \A d \in Guests : guest'[d].at # "idle" => \A q \in due'[d] : q[1] \in guest'[d].range
  BY <1>1 DEF VisibilityHolds
<1>6. \A r \in Ranges : scan[r] # NoScan => /\ guest'[scan[r].runner].at = "run" /\ guest'[scan[r].runner].range = r
                                            /\ scan[r].runner \in Guests /\ ScanHolds(scan[r])
  BY <1>1 DEF VisibilityHolds
<1>. QED BY <1>2, <1>3, <1>4, <1>5, <1>6 DEF VisibilityHolds

LEMMA GuestSteps ==
  ASSUME Visibility!VisibilityAssumption, VisibilityHolds, NEW c \in Guests,
         Visibility!Wait(c) \/ Visibility!Done(c) \/ Visibility!Leave(c)
  PROVE  VisibilityHolds'
<1>0. guest \in [Guests -> GuestRows] /\ due \in [Guests -> SUBSET (Folders \X Markers)]
  BY DEF VisibilityHolds, Visibility!TypeOK, GuestRows
<1>1. CASE Visibility!Wait(c)
  <2>. DEFINE g == [guest[c] EXCEPT !.at = "wait"]
  <2>1. guest[c].at = "check" /\ guest' = [guest EXCEPT ![c] = g] /\ UNCHANGED <<rows, marked, scan, marks, due>>
    BY <1>1 DEF Visibility!Wait, Visibility!Is, Visibility!Step
  <2>2. g \in GuestRows /\ g.at = "wait" /\ g.range = guest[c].range
    BY <1>0, <2>1, VisibilityFields DEF GuestRows
  <2>3. due' = [due EXCEPT ![c] = due[c]]
    BY <1>0, <2>1
  <2>. HIDE DEF g
  <2>. QED BY <2>1, <2>2, <2>3, QuietGuestStep
<1>2. CASE Visibility!Done(c) \/ Visibility!Leave(c)
  <2>1. /\ guest[c].at # "run" /\ guest' = [guest EXCEPT ![c] = Visibility!Resting] /\ due' = [due EXCEPT ![c] = {}]
        /\ UNCHANGED <<rows, marked, scan, marks>>
    BY <1>2 DEF Visibility!Done, Visibility!Leave, Visibility!Is
  <2>2. Visibility!Resting \in GuestRows /\ Visibility!Resting.at = "idle"
    BY DEF GuestRows, Visibility!Resting
  <2>. QED BY <2>1, <2>2, QuietGuestStep
<1>. QED BY <1>1, <1>2

\* A request that comes while a scan is at work does not take its result.
LEMMA ArriveStep ==
  ASSUME Visibility!VisibilityAssumption, VisibilityHolds, NEW c \in Guests, NEW r \in Ranges, Visibility!Arrive(c, r)
  PROVE  VisibilityHolds'
<1>. DEFINE D == {q \in Visibility!Public(r) \X marked : q[2] \in Above[q[1]]}
            g == [at |-> "check", range |-> r]
<1>0. /\ Visibility!TypeOK /\ Visibility!DueIsMarked /\ Visibility!MarkedIsPrivate /\ marked \subseteq Markers /\ r \subseteq Folders
      /\ guest \in [Guests -> GuestRows] /\ due \in [Guests -> SUBSET (Folders \X Markers)] /\ scan \in [Ranges -> Visibility!ScanRow \cup {NoScan}]
  BY DEF VisibilityHolds, Visibility!TypeOK, GuestRows, Visibility!VisibilityAssumption
<1>1. /\ guest[c].at = "idle" /\ guest' = [guest EXCEPT ![c] = g] /\ due' = [due EXCEPT ![c] = D] /\ UNCHANGED <<marked, rows, marks>>
      /\ scan' = IF scan[r] # NoScan THEN [scan EXCEPT ![r] = [scan[r] EXCEPT !.old = scan[r].old \cup {c}]] ELSE scan
  BY <1>0 DEF Visibility!Arrive, Visibility!Resting, Visibility!Runs, Visibility!TooOld
<1>2. /\ D \in SUBSET (Folders \X Markers) /\ \A q \in D : q[1] \in r /\ q[2] \in marked /\ q[2] \in Above[q[1]]
  BY <1>0 DEF Visibility!Public
<1>3. g \in GuestRows /\ g.at = "check" /\ g.range = r
  BY DEF GuestRows
<1>. HIDE DEF D, g
<1>4. /\ \A d \in Guests : guest'[d] = IF d = c THEN g ELSE guest[d]
      /\ \A d \in Guests : due'[d] = IF d = c THEN D ELSE due[d]
  BY <1>0, <1>1
<1>5. ASSUME NEW x \in Ranges, scan'[x] # NoScan
      PROVE  /\ scan[x] # NoScan /\ scan'[x] \in Visibility!ScanRow
             /\ scan'[x].at = scan[x].at /\ scan'[x].runner = scan[x].runner /\ scan'[x].cursor = scan[x].cursor
             /\ scan'[x].batch = scan[x].batch /\ scan'[x].read = scan[x].read /\ scan'[x].found = scan[x].found
             /\ scan[x].old \subseteq scan'[x].old /\ (x = r => c \in scan'[x].old)
  <2>1. CASE x = r
    <3>1. scan[r] # NoScan /\ scan[r] \in Visibility!ScanRow
      BY <1>0, <1>1, <1>5, <2>1
    <3>2. scan'[r] = [scan[r] EXCEPT !.old = scan[r].old \cup {c}]
      BY <1>0, <1>1, <3>1
    <3>. QED BY <2>1, <3>1, <3>2 DEF Visibility!ScanRow
  <2>2. CASE x # r
    <3>1. scan'[x] = scan[x]
      BY <1>0, <1>1, <2>2
    <3>. QED BY <1>0, <1>5, <2>2, <3>1
  <2>. QED BY <2>1, <2>2
<1>6. Visibility!TypeOK'
  <2>1. scan' \in [Ranges -> Visibility!ScanRow \cup {NoScan}]
    BY <1>0, <1>1, <1>5
  <2>. QED BY <1>0, <1>1, <1>2, <1>3, <2>1 DEF Visibility!TypeOK, GuestRows
<1>7. Visibility!DueIsMarked' /\ Visibility!MarkedIsPrivate'
  BY <1>0, <1>1, <1>2, <1>3, <1>4 DEF Visibility!DueIsMarked, Visibility!MarkedIsPrivate, Visibility!Is
<1>8. \A d \in Guests : guest'[d].at # "idle" => \A q \in due'[d] : q[1] \in guest'[d].range
  BY <1>2, <1>3, <1>4 DEF VisibilityHolds
<1>9. ASSUME NEW x \in Ranges, scan'[x] # NoScan
      PROVE  /\ guest'[scan'[x].runner].at = "run" /\ guest'[scan'[x].runner].range = x
             /\ scan'[x].runner \in Guests /\ ScanHolds(scan'[x])
  <2>1. /\ guest[scan[x].runner].at = "run" /\ guest[scan[x].runner].range = x
        /\ scan[x].runner \in Guests /\ ScanHolds(scan[x])
    BY <1>5, <1>9 DEF VisibilityHolds
  <2>. QED BY <1>1, <1>4, <1>5, <1>9, <2>1 DEF ScanHolds
<1>10. ASSUME NEW x \in Ranges, NEW d \in Guests, scan'[x] # NoScan, Takes(d, guest'[d], scan'[x], x), NEW q \in due'[d]
       PROVE  SeenBy(q, rows'[q[1]], scan'[x])
  <2>1. d # c
    <3>1. guest[scan[x].runner].at = "run"
      BY <1>5, <1>10 DEF VisibilityHolds
    <3>. QED BY <1>1, <1>3, <1>4, <1>5, <1>10, <3>1 DEF Takes
  <2>2. Takes(d, guest[d], scan[x], x)
    BY <1>4, <1>5, <1>10, <2>1 DEF Takes
  <2>3. SeenBy(q, rows[q[1]], scan[x])
    BY <1>4, <1>5, <1>10, <2>1, <2>2 DEF VisibilityHolds
  <2>. QED BY <1>1, <1>5, <1>10, <2>3 DEF SeenBy
<1>. QED BY <1>6, <1>7, <1>8, <1>9, <1>10 DEF VisibilityHolds

\* What is due to a request about a range.
DueIn(r) == {q \in r \X marked : q[2] \in Above[q[1]]}
\* Rows are public only if they were.
RowsHide == /\ rows' \in [Folders -> {"none", "public", "private"}] /\ UNCHANGED <<marked, due>>
            /\ \A f \in Folders : rows'[f] = "public" => rows[f] = "public"

LEMMA WhatIsDue ==
  ASSUME Visibility!VisibilityAssumption, VisibilityHolds, NEW c \in Guests, guest[c].at # "idle", NEW q \in due[c]
  PROVE  guest[c].range \in Ranges /\ q \in DueIn(guest[c].range) /\ q[1] \in Folders
<1>1. /\ Visibility!DueIsMarked /\ guest[c] \in GuestRows /\ due[c] \in SUBSET (Folders \X Markers) /\ q[1] \in guest[c].range
  BY DEF VisibilityHolds, Visibility!TypeOK, GuestRows
<1>2. guest[c].range \in Ranges
  BY <1>1, VisibilityFields DEF GuestRows
<1>3. q \in Folders \X Markers /\ q[2] \in marked /\ q[2] \in Above[q[1]]
  BY <1>1 DEF Visibility!DueIsMarked
<1>. QED BY <1>1, <1>2, <1>3 DEF DueIn

\* A scan goes on.
LEMMA AdvanceStep ==
  ASSUME Visibility!VisibilityAssumption, VisibilityHolds, NEW r \in Ranges, scan[r] # NoScan, NEW s \in Visibility!ScanRow,
         scan' = [scan EXCEPT ![r] = s], UNCHANGED <<guest, marks>>, RowsHide,
         s.runner = scan[r].runner, s.old = scan[r].old, ScanHolds(s),
         \A q \in DueIn(r) : SeenBy(q, rows[q[1]], scan[r]) => SeenBy(q, rows'[q[1]], s)
  PROVE  VisibilityHolds'
<1>0. /\ Visibility!TypeOK /\ Visibility!DueIsMarked /\ Visibility!MarkedIsPrivate /\ UNCHANGED <<marked, due>>
      /\ scan \in [Ranges -> Visibility!ScanRow \cup {NoScan}] /\ NoScan \notin Visibility!ScanRow
  BY DEF VisibilityHolds, Visibility!TypeOK, Visibility!VisibilityAssumption, RowsHide
<1>1. \A x \in Ranges : scan'[x] = IF x = r THEN s ELSE scan[x]
  BY <1>0
<1>2. Visibility!TypeOK' /\ Visibility!DueIsMarked'
  BY <1>0 DEF Visibility!TypeOK, Visibility!DueIsMarked, RowsHide
<1>3. Visibility!MarkedIsPrivate'
  <2>1. SUFFICES ASSUME NEW c \in Guests, guest[c].at = "done", NEW q \in due[c] PROVE rows'[q[1]] # "public"
    BY <1>0 DEF Visibility!MarkedIsPrivate, Visibility!Is
  <2>2. q[1] \in Folders /\ rows[q[1]] # "public"
    BY <1>0, <2>1, WhatIsDue DEF Visibility!MarkedIsPrivate, Visibility!Is
  <2>. QED BY <2>2 DEF RowsHide
<1>4. ASSUME NEW x \in Ranges, NEW d \in Guests, scan'[x] # NoScan, Takes(d, guest[d], scan'[x], x), NEW q \in due[d]
      PROVE  SeenBy(q, rows'[q[1]], scan'[x])
  <2>1. scan[x] # NoScan /\ Takes(d, guest[d], scan[x], x)
    BY <1>1, <1>4 DEF Takes
  <2>2. SeenBy(q, rows[q[1]], scan[x]) /\ guest[d].at # "idle" /\ guest[d].range = x
    BY <1>4, <2>1 DEF VisibilityHolds, Takes
  <2>3. q \in DueIn(x) /\ q[1] \in Folders
    BY <1>4, <2>2, WhatIsDue
  <2>4. CASE x = r
    BY <1>1, <2>2, <2>3, <2>4
  <2>5. CASE x # r
    BY <1>1, <2>2, <2>3, <2>5 DEF SeenBy, RowsHide
  <2>. QED BY <2>4, <2>5
<1>5. ASSUME NEW x \in Ranges, scan'[x] # NoScan
      PROVE  /\ guest[scan'[x].runner].at = "run" /\ guest[scan'[x].runner].range = x
             /\ scan'[x].runner \in Guests /\ ScanHolds(scan'[x])
  BY <1>1, <1>5 DEF VisibilityHolds
<1>6. \A d \in Guests : guest[d].at # "idle" => \A q \in due[d] : q[1] \in guest[d].range
  BY DEF VisibilityHolds
<1>. QED BY <1>0, <1>2, <1>3, <1>4, <1>5, <1>6 DEF VisibilityHolds

\* A scan ends, and who waited for it goes on or tries again.
LEMMA EndStep ==
  ASSUME Visibility!VisibilityAssumption, VisibilityHolds, NEW r \in Ranges, scan[r] # NoScan, NEW at \in {"done", "failed", "cancelled"},
         Visibility!Ended(r, at), RowsHide, marks' \in 0 .. MaxMarks,
         at = "done" => \A q \in DueIn(r) : SeenBy(q, rows[q[1]], scan[r]) => rows'[q[1]] # "public"
  PROVE  VisibilityHolds'
<1>0. /\ Visibility!TypeOK /\ Visibility!DueIsMarked /\ Visibility!MarkedIsPrivate /\ UNCHANGED <<marked, due>>
      /\ scan \in [Ranges -> Visibility!ScanRow \cup {NoScan}] /\ NoScan \notin Visibility!ScanRow
      /\ guest \in [Guests -> GuestRows]
  BY DEF VisibilityHolds, Visibility!TypeOK, Visibility!VisibilityAssumption, RowsHide, GuestRows
<1>1. /\ \A x \in Ranges : scan'[x] = IF x = r THEN NoScan ELSE scan[x]
      /\ guest[scan[r].runner].at = "run" /\ guest[scan[r].runner].range = r /\ scan[r].runner \in Guests
  BY <1>0 DEF Visibility!Ended, VisibilityHolds
<1>2. ASSUME NEW c \in Guests
      PROVE  /\ guest'[c] \in GuestRows
             /\ \/ guest'[c] = guest[c] /\ c # scan[r].runner
                \/ guest'[c].at = "idle" /\ guest[c].range = r
                \/ guest'[c].at = "check" /\ guest[c].at = "wait" /\ guest'[c].range = r /\ guest[c].range = r
                \/ at = "done" /\ guest'[c].at = "done" /\ guest'[c].range = r /\ guest[c].range = r /\ Takes(c, guest[c], scan[r], r)
  <2>1. /\ guest'[c] = IF c = scan[r].runner THEN IF at = "done" THEN [guest[c] EXCEPT !.at = "done"] ELSE Visibility!Resting
                        ELSE IF ~(guest[c].at = "wait" /\ guest[c].range = r) THEN guest[c]
                        ELSE IF c \in scan[r].old \/ at = "cancelled" THEN [guest[c] EXCEPT !.at = "check"]
                        ELSE IF at = "done" THEN [guest[c] EXCEPT !.at = "done"] ELSE Visibility!Resting
        /\ guest[c] \in GuestRows /\ Visibility!Resting \in GuestRows /\ Visibility!Resting.at = "idle"
    BY <1>0 DEF Visibility!Ended, Visibility!Is, GuestRows, Visibility!Resting
  <2>2. ASSUME NEW v \in {"check", "done"}, guest[c].at # "idle"
        PROVE  [guest[c] EXCEPT !.at = v] \in GuestRows /\ [guest[c] EXCEPT !.at = v].at = v /\ [guest[c] EXCEPT !.at = v].range = guest[c].range
    BY <2>1, <2>2, VisibilityFields DEF GuestRows
  <2>3. CASE c = scan[r].runner
    BY <1>1, <2>1, <2>2, <2>3 DEF Takes
  <2>4. CASE c # scan[r].runner /\ ~(guest[c].at = "wait" /\ guest[c].range = r)
    BY <2>1, <2>4
  <2>5. CASE c # scan[r].runner /\ guest[c].at = "wait" /\ guest[c].range = r
    BY <1>1, <2>1, <2>2, <2>5 DEF Takes
  <2>. QED BY <2>3, <2>4, <2>5
<1>3. Visibility!TypeOK'
  <2>1. guest' \in [Guests -> GuestRows] /\ scan' \in [Ranges -> Visibility!ScanRow \cup {NoScan}]
    BY <1>0, <1>2 DEF Visibility!Ended
  <2>. QED BY <1>0, <2>1 DEF Visibility!TypeOK, GuestRows, RowsHide
<1>4. Visibility!DueIsMarked'
  BY <1>0 DEF Visibility!DueIsMarked
<1>5. Visibility!MarkedIsPrivate'
  <2>1. SUFFICES ASSUME NEW c \in Guests, guest'[c].at = "done", NEW q \in due[c] PROVE rows'[q[1]] # "public"
    BY <1>0 DEF Visibility!MarkedIsPrivate, Visibility!Is
  <2>2. CASE guest'[c] = guest[c]
    <3>1. q[1] \in Folders /\ rows[q[1]] # "public"
      BY <1>0, <2>1, <2>2, WhatIsDue DEF Visibility!MarkedIsPrivate, Visibility!Is
    <3>. QED BY <3>1 DEF RowsHide
  <2>3. CASE at = "done" /\ guest[c].range = r /\ Takes(c, guest[c], scan[r], r)
    <3>1. guest[c].at # "idle"
      BY <1>1, <2>3 DEF Takes
    <3>2. q \in DueIn(r) /\ SeenBy(q, rows[q[1]], scan[r])
      BY <2>1, <2>3, <3>1, WhatIsDue DEF VisibilityHolds
    <3>. QED BY <2>3, <3>2
  <2>. QED BY <1>2, <2>1, <2>2, <2>3
<1>6. ASSUME NEW x \in Ranges, NEW d \in Guests, scan'[x] # NoScan, Takes(d, guest'[d], scan'[x], x), NEW q \in due[d]
      PROVE  SeenBy(q, rows'[q[1]], scan'[x])
  <2>1. x # r /\ scan[x] # NoScan /\ scan'[x] = scan[x] /\ guest[scan[x].runner].range = x
    BY <1>1, <1>6 DEF VisibilityHolds
  <2>2. guest'[d] = guest[d]
    BY <1>2, <1>6, <2>1 DEF Takes
  <2>3. SeenBy(q, rows[q[1]], scan[x]) /\ guest[d].at # "idle"
    BY <1>6, <2>1, <2>2 DEF VisibilityHolds, Takes
  <2>4. q[1] \in Folders
    BY <1>6, <2>3, WhatIsDue
  <2>. QED BY <2>1, <2>3, <2>4 DEF SeenBy, RowsHide
<1>7. ASSUME NEW x \in Ranges, scan'[x] # NoScan
      PROVE  /\ guest'[scan'[x].runner].at = "run" /\ guest'[scan'[x].runner].range = x
             /\ scan'[x].runner \in Guests /\ ScanHolds(scan'[x])
  <2>1. /\ x # r /\ scan[x] # NoScan /\ scan'[x] = scan[x] /\ guest[scan[x].runner].range = x /\ guest[scan[x].runner].at = "run"
        /\ scan[x].runner \in Guests /\ ScanHolds(scan[x])
    BY <1>1, <1>7 DEF VisibilityHolds
  <2>2. guest'[scan[x].runner] = guest[scan[x].runner]
    BY <1>2, <2>1
  <2>. QED BY <2>1, <2>2
<1>8. ASSUME NEW d \in Guests, guest'[d].at # "idle", NEW q \in due[d] PROVE q[1] \in guest'[d].range
  <2>1. guest[d].at # "idle" /\ guest'[d].range = guest[d].range
    BY <1>1, <1>2, <1>8 DEF Takes
  <2>. QED BY <1>8, <2>1 DEF VisibilityHolds
<1>. QED BY <1>0, <1>3, <1>4, <1>5, <1>6, <1>7, <1>8 DEF VisibilityHolds

\* A scan that begins now is for all that ask at that time.
LEMMA StartStep ==
  ASSUME Visibility!VisibilityAssumption, VisibilityHolds, NEW c \in Guests, Visibility!Start(c)
  PROVE  VisibilityHolds'
<1>. DEFINE r == guest[c].range
            g == [guest[c] EXCEPT !.at = "run"]
            s == Visibility!Fresh(c)
<1>0. /\ Visibility!TypeOK /\ Visibility!DueIsMarked /\ Visibility!MarkedIsPrivate /\ NoScan \notin Visibility!ScanRow
      /\ guest \in [Guests -> GuestRows] /\ scan \in [Ranges -> Visibility!ScanRow \cup {NoScan}] /\ Folders \subseteq Nat \ {0}
  BY DEF VisibilityHolds, Visibility!TypeOK, GuestRows, Visibility!VisibilityAssumption
<1>1. /\ guest[c].at = "check" /\ scan[r] = NoScan /\ guest' = [guest EXCEPT ![c] = g]
      /\ scan' = [scan EXCEPT ![r] = s] /\ UNCHANGED <<marked, rows, due, marks>>
  BY DEF Visibility!Start, Visibility!Is, Visibility!Runs, Visibility!Step
<1>2. g \in GuestRows /\ g.at = "run" /\ g.range = r /\ r \in Ranges
  BY <1>0, <1>1, VisibilityFields DEF GuestRows
<1>3. s \in Visibility!ScanRow /\ s.runner = c /\ s.cursor = 0 /\ s.at = "list" /\ s.read = {} /\ ScanHolds(s)
  BY DEF Visibility!Fresh, Visibility!ScanRow, ScanHolds
<1>. HIDE DEF g, s, r
<1>4. /\ \A d \in Guests : guest'[d] = IF d = c THEN g ELSE guest[d]
      /\ \A x \in Ranges : scan'[x] = IF x = r THEN s ELSE scan[x]
  BY <1>0, <1>1, <1>2
<1>5. Visibility!TypeOK'
  <2>1. guest' \in [Guests -> GuestRows] /\ scan' \in [Ranges -> Visibility!ScanRow \cup {NoScan}]
    BY <1>0, <1>1, <1>2, <1>3
  <2>. QED BY <1>0, <1>1, <2>1 DEF Visibility!TypeOK, GuestRows
<1>6. Visibility!DueIsMarked' /\ Visibility!MarkedIsPrivate'
  BY <1>0, <1>1, <1>2, <1>4 DEF Visibility!DueIsMarked, Visibility!MarkedIsPrivate, Visibility!Is
<1>7. ASSUME NEW x \in Ranges, NEW d \in Guests, scan'[x] # NoScan, Takes(d, guest'[d], scan'[x], x), NEW q \in due[d]
      PROVE  SeenBy(q, rows[q[1]], scan'[x])
  <2>1. CASE x = r
    <3>1. guest[d].at # "idle"
      BY <1>1, <1>3, <1>4, <1>7, <2>1 DEF Takes
    <3>2. q[1] \in Nat \ {0}
      BY <1>0, <1>7, <3>1, WhatIsDue
    <3>. QED BY <1>3, <1>4, <2>1, <3>2 DEF SeenBy
  <2>2. CASE x # r
    <3>1. scan'[x] = scan[x] /\ guest[scan[x].runner].at = "run"
      BY <1>4, <1>7, <2>2 DEF VisibilityHolds
    <3>2. d # c
      BY <1>1, <1>2, <1>4, <1>7, <2>2, <3>1 DEF Takes
    <3>. QED BY <1>4, <1>7, <3>1, <3>2 DEF VisibilityHolds
  <2>. QED BY <2>1, <2>2
<1>8. ASSUME NEW x \in Ranges, scan'[x] # NoScan
      PROVE  /\ guest'[scan'[x].runner].at = "run" /\ guest'[scan'[x].runner].range = x
             /\ scan'[x].runner \in Guests /\ ScanHolds(scan'[x])
  <2>1. CASE x = r
    BY <1>2, <1>3, <1>4, <2>1
  <2>2. CASE x # r
    <3>1. /\ scan'[x] = scan[x] /\ guest[scan[x].runner].range = x /\ guest[scan[x].runner].at = "run"
          /\ scan[x].runner \in Guests /\ ScanHolds(scan[x])
      BY <1>4, <1>8, <2>2 DEF VisibilityHolds
    <3>. QED BY <1>1, <1>4, <3>1
  <2>. QED BY <2>1, <2>2
<1>9. ASSUME NEW d \in Guests, guest'[d].at # "idle", NEW q \in due[d] PROVE q[1] \in guest'[d].range
  <2>1. guest[d].at # "idle" /\ guest'[d].range = guest[d].range
    BY <1>1, <1>2, <1>4, <1>9 DEF r
  <2>. QED BY <1>9, <2>1 DEF VisibilityHolds
<1>. QED BY <1>1, <1>5, <1>6, <1>7, <1>8, <1>9 DEF VisibilityHolds

\* The folders that a scan has left, and those it takes next.
Rest(r) == {f \in Visibility!Public(r) : f > scan[r].cursor}
LEMMA NextBatch ==
  ASSUME Visibility!VisibilityAssumption, VisibilityHolds, NEW r \in Ranges, scan[r] # NoScan
  PROVE  /\ Visibility!Batch(r) = FirstOf(Rest(r), BatchSize) /\ Visibility!Batch(r) \in SUBSET Folders
         /\ \A f \in Rest(r) : f \notin Visibility!Batch(r) =>
               Cardinality(Visibility!Batch(r)) = BatchSize /\ \A b \in Visibility!Batch(r) : b < f
<1>1. Visibility!Batch(r) = FirstOf(Rest(r), BatchSize)
  BY Zenon DEF Visibility!Batch, FirstOf, Rest, Below, Visibility!Cardinality, Cardinality
<1>2. Rest(r) \in SUBSET Folders /\ Folders \subseteq Nat /\ BatchSize \in Nat /\ IsFiniteSet(Folders)
  BY DEF Rest, Visibility!Public, Visibility!VisibilityAssumption, Visibility!IsFiniteSet, IsFiniteSet
<1>3. IsFiniteSet(Rest(r)) /\ Rest(r) \subseteq Nat
  BY <1>2, FS_Subset
<1>4. FirstOf(Rest(r), BatchSize) \in SUBSET Rest(r)
  BY DEF FirstOf
<1>5. ASSUME NEW f \in Rest(r), f \notin FirstOf(Rest(r), BatchSize)
      PROVE  Cardinality(FirstOf(Rest(r), BatchSize)) = BatchSize /\ \A b \in FirstOf(Rest(r), BatchSize) : b < f
  BY <1>2, <1>3, <1>5, FirstOfMore
<1>. HIDE DEF Rest, FirstOf
<1>. QED BY <1>1, <1>2, <1>4, <1>5

LEMMA ListStep ==
  ASSUME Visibility!VisibilityAssumption, VisibilityHolds, NEW r \in Ranges, Visibility!List(r)
  PROVE  VisibilityHolds'
<1>. DEFINE B == Visibility!Batch(r)
<1>0. /\ Visibility!TypeOK /\ scan[r] # NoScan /\ scan[r].at = "list" /\ scan[r] \in Visibility!ScanRow /\ BatchSize \in Nat \ {0}
      /\ UNCHANGED <<marked, rows, due, marks>> /\ r \subseteq Folders /\ ScanHolds(scan[r])
  BY DEF Visibility!List, Visibility!Runs, VisibilityHolds, Visibility!TypeOK, Visibility!VisibilityAssumption
<1>1. RowsHide /\ marks' \in 0 .. MaxMarks
  BY <1>0 DEF RowsHide, Visibility!TypeOK
<1>2. /\ B \in SUBSET Folders
      /\ \A f \in Rest(r) : f \notin B => Cardinality(B) = BatchSize /\ \A b \in B : b < f
  BY <1>0, NextBatch
<1>3. ASSUME NEW q \in DueIn(r), SeenBy(q, rows[q[1]], scan[r]), rows[q[1]] = "public" PROVE q[1] \in Rest(r)
  BY <1>0, <1>3 DEF DueIn, SeenBy, Rest, Visibility!Public
<1>4. CASE B = {}
  <2>1. Visibility!Ended(r, "done")
    BY <1>4 DEF Visibility!List
  <2>2. \A q \in DueIn(r) : SeenBy(q, rows[q[1]], scan[r]) => rows'[q[1]] # "public"
    BY <1>0, <1>2, <1>3, <1>4, FS_EmptySet
  <2>. QED BY <1>0, <1>1, <2>1, <2>2, EndStep
<1>5. CASE B # {}
  <2>. DEFINE s == [scan[r] EXCEPT !.at = "read", !.batch = B, !.read = {}, !.found = {}]
  <2>1. scan' = [scan EXCEPT ![r] = s] /\ UNCHANGED guest
    BY <1>5 DEF Visibility!List, Visibility!Advance
  <2>2. /\ s \in Visibility!ScanRow /\ s.runner = scan[r].runner /\ s.old = scan[r].old /\ s.cursor = scan[r].cursor
        /\ s.at = "read" /\ s.batch = B /\ s.read = {} /\ s.found = {}
    BY <1>0, <1>2 DEF Visibility!ScanRow
  <2>. HIDE DEF s, B
  <2>3. ScanHolds(s)
    BY <1>0, <1>2, <2>2 DEF ScanHolds
  <2>4. \A q \in DueIn(r) : SeenBy(q, rows[q[1]], scan[r]) => SeenBy(q, rows'[q[1]], s)
    BY <1>0, <1>2, <1>3, <2>2 DEF SeenBy
  <2>. QED BY <1>0, <1>1, <2>1, <2>2, <2>3, <2>4, AdvanceStep
<1>. QED BY <1>4, <1>5

LEMMA ReadMarkerStep ==
  ASSUME Visibility!VisibilityAssumption, VisibilityHolds, NEW r \in Ranges, NEW a \in Markers, Visibility!ReadMarker(r, a)
  PROVE  VisibilityHolds'
<1>. DEFINE s == [scan[r] EXCEPT !.read = scan[r].read \cup {a}, !.found = scan[r].found \cup ({a} \cap marked)]
<1>0. /\ Visibility!TypeOK /\ scan[r] # NoScan /\ scan[r].at = "read" /\ scan[r] \in Visibility!ScanRow
      /\ UNCHANGED <<marked, rows, due, marks, guest>> /\ scan' = [scan EXCEPT ![r] = s] /\ ScanHolds(scan[r])
  BY DEF Visibility!ReadMarker, Visibility!Runs, Visibility!Advance, VisibilityHolds, Visibility!TypeOK, Visibility!VisibilityAssumption
<1>1. RowsHide
  BY <1>0 DEF RowsHide, Visibility!TypeOK
<1>2. /\ s \in Visibility!ScanRow /\ s.runner = scan[r].runner /\ s.old = scan[r].old /\ s.cursor = scan[r].cursor
      /\ s.at = "read" /\ s.batch = scan[r].batch /\ s.read = scan[r].read \cup {a} /\ s.found = scan[r].found \cup ({a} \cap marked)
  BY <1>0 DEF Visibility!ScanRow
<1>. HIDE DEF s
<1>3. ScanHolds(s)
  BY <1>0, <1>2 DEF ScanHolds
<1>4. \A q \in DueIn(r) : SeenBy(q, rows[q[1]], scan[r]) => SeenBy(q, rows'[q[1]], s)
  BY <1>0, <1>2 DEF SeenBy, DueIn
<1>. QED BY <1>0, <1>1, <1>2, <1>3, <1>4, AdvanceStep

\* What a scan has looked at is private if a marker is above it.
LEMMA UpdateStep ==
  ASSUME Visibility!VisibilityAssumption, VisibilityHolds, NEW r \in Ranges, Visibility!Update(r)
  PROVE  VisibilityHolds'
<1>. DEFINE s == scan[r]
<1>0. /\ Visibility!TypeOK /\ s # NoScan /\ s.at = "read" /\ s \in Visibility!ScanRow /\ UNCHANGED <<marked, due, marks>>
      /\ rows \in [Folders -> {"none", "public", "private"}] /\ r \subseteq Folders /\ ScanHolds(s) /\ Visibility!Places(s) \subseteq s.read
      /\ rows' = [f \in Folders |-> IF f \in Visibility!Hidden(s) /\ rows[f] = "public" THEN "private" ELSE rows[f]]
      /\ BatchSize \in Nat \ {0} /\ Folders \subseteq Nat /\ IsFiniteSet(Folders)
  BY DEF Visibility!Update, Visibility!Runs, VisibilityHolds, Visibility!TypeOK, Visibility!VisibilityAssumption, Visibility!IsFiniteSet, IsFiniteSet
<1>1. RowsHide /\ marks' \in 0 .. MaxMarks
  BY <1>0 DEF RowsHide, Visibility!TypeOK
<1>2. ASSUME NEW q \in DueIn(r), SeenBy(q, rows[q[1]], s), rows'[q[1]] = "public"
      PROVE  q[1] \in Nat /\ q[1] > s.cursor /\ Cardinality(s.batch) = BatchSize /\ \A f \in s.batch : f < q[1]
  <2>1. q[1] \in Folders /\ q[2] \in Above[q[1]] /\ rows[q[1]] = "public" /\ q[1] \notin Visibility!Hidden(s)
    BY <1>0, <1>2 DEF DueIn
  <2>2. q[1] \notin s.batch
    <3>1. SUFFICES ASSUME q[1] \in s.batch PROVE FALSE
      OBVIOUS
    <3>2. q[2] \in s.read
      BY <1>0, <2>1, <3>1 DEF Visibility!Places
    <3>3. q[2] \in s.found
      BY <1>2, <3>2 DEF SeenBy
    <3>. QED BY <2>1, <3>1, <3>3 DEF Visibility!Hidden
  <2>. QED BY <1>0, <1>2, <2>1, <2>2 DEF SeenBy
<1>3. IsFiniteSet(s.batch) /\ Cardinality(s.batch) = Visibility!Cardinality(s.batch) /\ s.batch \subseteq Nat /\ s.batch \in SUBSET Folders
  <2>1. s.batch \in SUBSET Folders
    BY <1>0 DEF ScanHolds
  <2>. QED BY <1>0, <2>1, FS_Subset DEF Cardinality, Visibility!Cardinality
<1>4. CASE Visibility!Cardinality(s.batch) < BatchSize
  <2>1. Visibility!Ended(r, "done")
    BY <1>4 DEF Visibility!Update
  <2>2. \A q \in DueIn(r) : SeenBy(q, rows[q[1]], scan[r]) => rows'[q[1]] # "public"
    BY <1>0, <1>2, <1>3, <1>4
  <2>. QED BY <1>0, <1>1, <2>1, <2>2, EndStep
<1>5. CASE ~(Visibility!Cardinality(s.batch) < BatchSize)
  <2>. DEFINE m == Visibility!Max(s.batch)
              t == [s EXCEPT !.at = "list", !.cursor = m, !.batch = {}, !.read = {}, !.found = {}]
  <2>1. scan' = [scan EXCEPT ![r] = t] /\ UNCHANGED guest
    BY <1>5 DEF Visibility!Update, Visibility!Advance
  <2>2. s.batch # {}
    BY <1>0, <1>3, <1>5, FS_EmptySet
  <2>3. m \in s.batch /\ m \in Nat
    BY <1>3, <2>2, MaxAndMin
  <2>. HIDE DEF m
  <2>4. /\ t \in Visibility!ScanRow /\ t.runner = s.runner /\ t.old = s.old /\ t.cursor = m
        /\ t.at = "list" /\ t.batch = {} /\ t.read = {} /\ t.found = {}
    BY <1>0, <2>3 DEF Visibility!ScanRow
  <2>. HIDE DEF t
  <2>5. ScanHolds(t)
    BY <2>3, <2>4 DEF ScanHolds
  <2>6. \A q \in DueIn(r) : SeenBy(q, rows[q[1]], scan[r]) => SeenBy(q, rows'[q[1]], t)
    BY <1>2, <2>3, <2>4 DEF SeenBy
  <2>. QED BY <1>0, <1>1, <2>1, <2>4, <2>5, <2>6, AdvanceStep
<1>. QED BY <1>4, <1>5

LEMMA BreakOffStep ==
  ASSUME Visibility!VisibilityAssumption, VisibilityHolds, NEW r \in Ranges, Visibility!BreakOff(r)
  PROVE  VisibilityHolds'
<1>1. /\ Visibility!TypeOK /\ scan[r] # NoScan /\ UNCHANGED <<marked, rows, due>> /\ MaxMarks \in Nat /\ marks < MaxMarks /\ marks' = marks + 1
      /\ Visibility!Ended(r, "failed") \/ Visibility!Ended(r, "cancelled")
  BY DEF Visibility!BreakOff, Visibility!Runs, Visibility!Change, VisibilityHolds, Visibility!VisibilityAssumption
<1>2. RowsHide /\ marks' \in 0 .. MaxMarks
  BY <1>1 DEF RowsHide, Visibility!TypeOK
<1>. QED BY <1>1, <1>2, EndStep

LEMMA VisibilityInit == ASSUME Visibility!VisibilityAssumption, Visibility!Init PROVE VisibilityHolds
  BY DEF Visibility!VisibilityAssumption, Visibility!Init, VisibilityHolds, Visibility!TypeOK, Visibility!DueIsMarked,
         Visibility!MarkedIsPrivate, Visibility!Is, Visibility!Resting

LEMMA VisibilityNext == ASSUME Visibility!VisibilityAssumption, VisibilityHolds, [Visibility!Next]_(Visibility!visibilityVars) PROVE VisibilityHolds'
<1>0. CASE \E a \in Markers : Visibility!Mark(a) \/ Visibility!Unmark(a)
  BY <1>0, MarkSteps
<1>1. CASE \E f \in Folders, v \in {"none", "public", "private"} : Visibility!WriteRows(f, v)
  BY <1>1, MarkSteps
<1>2. CASE \E c \in Guests : \/ \E r \in Ranges : Visibility!Arrive(c, r)
                             \/ Visibility!Wait(c) \/ Visibility!Start(c) \/ Visibility!Done(c) \/ Visibility!Leave(c)
  BY <1>2, ArriveStep, StartStep, GuestSteps
<1>3. CASE \E r \in Ranges : \/ Visibility!List(r) \/ Visibility!Update(r) \/ Visibility!BreakOff(r)
                             \/ \E a \in Markers : Visibility!ReadMarker(r, a)
  BY <1>3, ListStep, UpdateStep, BreakOffStep, ReadMarkerStep
<1>4. CASE UNCHANGED Visibility!visibilityVars
  <2>1. UNCHANGED <<marked, rows, scan, guest, due, marks>>
    BY <1>4 DEF Visibility!visibilityVars
  <2>. QED BY <2>1 DEF VisibilityHolds, Visibility!TypeOK, Visibility!DueIsMarked, Visibility!MarkedIsPrivate, Visibility!Is
<1>. QED BY <1>0, <1>1, <1>2, <1>3, <1>4 DEF Visibility!Next

\* Whatever markers, rows and requests do, what a request makes sure of is private
\* (map_visibility.go, faces_visibility.go).
LEMMA MarkersAreSeen == Visibility!Spec => []Visibility!VisibilityInv
<1>1. VisibilityHolds => Visibility!VisibilityInv
  <2>1. SUFFICES ASSUME VisibilityHolds PROVE Visibility!VisibilityInv
    OBVIOUS
  <2>2. ASSUME NEW c \in Guests, NEW r \in Ranges, scan[r] # NoScan,
               c = scan[r].runner \/ (guest[c].at = "wait" /\ guest[c].range = r /\ c \notin scan[r].old), NEW q \in due[c]
        PROVE  SeenBy(q, rows[q[1]], scan[r]) /\ Visibility!Cardinality(scan[r].batch) = Cardinality(scan[r].batch)
    BY <2>1, <2>2 DEF VisibilityHolds, Takes, Visibility!Cardinality, Cardinality
  <2>3. Visibility!DueIsSeen
    BY <2>2 DEF Visibility!DueIsSeen, Visibility!Runs, Visibility!Is, SeenBy
  <2>. QED BY <2>1, <2>3 DEF VisibilityHolds, Visibility!VisibilityInv
<1>. QED BY <1>1, VisibilityInit, VisibilityNext, VisibilityInstance, PTL DEF Visibility!Spec

-----------------------------------------------------------------------------
(* ImageGroups                                                              *)

AlbumType == [image : [Groups!Images -> Groups!Rows], made : 0 .. MaxGroups,
              group : [Groups!GroupIds -> [primary : {Groups!NoImage} \cup Groups!Images, revision : Nat]]]

LEMMA AlbumFields ==
  ASSUME NEW d \in AlbumType, Groups!GroupsAssumption
  PROVE  /\ d.image \in [Groups!Images -> Groups!Rows] /\ d.made \in 0 .. MaxGroups
         /\ d.group \in [Groups!GroupIds -> [primary : {Groups!NoImage} \cup Groups!Images, revision : Nat]]
         /\ \A e \in Groups!Images :
               /\ d.image[e] \in Groups!Rows /\ d.image[e].at \in {"new", "here", "missing", "purged"} /\ d.image[e].hidden \in BOOLEAN
               /\ d.image[e].private \in BOOLEAN /\ d.image[e].group \in {Groups!NoGroup} \cup Groups!GroupIds /\ e \in Nat \ {0}
         /\ \A g \in Groups!GroupIds :
               /\ d.group[g].primary \in {Groups!NoImage} \cup Groups!Images /\ d.group[g].revision \in Nat /\ g \in Nat \ {0}
         /\ \A g : Groups!MembersOf(d, g) \in SUBSET Groups!Images
         /\ IsFiniteSet(Groups!Images) /\ Groups!Images \subseteq Nat \ {0}
<1>1. IsFiniteSet(1 .. MaxImages) /\ MaxImages \in Nat /\ MaxGroups \in Nat
  BY FS_Interval DEF Groups!GroupsAssumption
<1>2. /\ d.image \in [Groups!Images -> Groups!Rows] /\ d.made \in 0 .. MaxGroups
      /\ d.group \in [Groups!GroupIds -> [primary : {Groups!NoImage} \cup Groups!Images, revision : Nat]]
  BY DEF AlbumType
<1>3. ASSUME NEW e \in Groups!Images
      PROVE  /\ d.image[e] \in Groups!Rows /\ d.image[e].at \in {"new", "here", "missing", "purged"} /\ d.image[e].hidden \in BOOLEAN
             /\ d.image[e].private \in BOOLEAN /\ d.image[e].group \in {Groups!NoGroup} \cup Groups!GroupIds /\ e \in Nat \ {0}
  BY <1>1, <1>2 DEF Groups!Rows, Groups!Images
<1>4. ASSUME NEW g \in Groups!GroupIds
      PROVE  d.group[g].primary \in {Groups!NoImage} \cup Groups!Images /\ d.group[g].revision \in Nat /\ g \in Nat \ {0}
  BY <1>1, <1>2 DEF Groups!GroupIds
<1>5. \A g : Groups!MembersOf(d, g) \in SUBSET Groups!Images
  BY DEF Groups!MembersOf
<1>. QED BY <1>1, <1>2, <1>3, <1>4, <1>5 DEF Groups!Images

\* Which image serves: the chosen one while it has a row, else the first of the
\* members that have one.
LEMMA ServingIs ==
  ASSUME NEW d \in AlbumType, Groups!GroupsAssumption, NEW g \in Groups!GroupIds, NEW M \in SUBSET Groups!Images
  PROVE  LET p == d.group[g].primary
             s == Groups!Serving(d, g, M)
         IN /\ p # Groups!NoImage /\ Groups!Live(d, p) => s = p
            /\ ~(p # Groups!NoImage /\ Groups!Live(d, p)) /\ (\E e \in M : Groups!Live(d, e)) =>
                  s \in M /\ Groups!Live(d, s) /\ \A e \in M : Groups!Live(d, e) => s <= e
            /\ ~(p # Groups!NoImage /\ Groups!Live(d, p)) /\ ~(\E e \in M : Groups!Live(d, e)) => s = Groups!NoImage
<1>. DEFINE L == {e \in M : Groups!Live(d, e)}
<1>1. L \in SUBSET Groups!Images /\ IsFiniteSet(Groups!Images) /\ Groups!Images \subseteq Nat
  BY AlbumFields
<1>2. L # {} => Groups!Min(L) \in L /\ \A y \in L : Groups!Min(L) <= y
  BY <1>1, FS_Subset, MaxAndMin
<1>. QED BY <1>2 DEF Groups!Serving

LEMMA RefreshedFields ==
  ASSUME NEW d \in AlbumType, Groups!GroupsAssumption, NEW g \in Groups!GroupIds
  PROVE  LET n == Groups!Refreshed(d, g)
             s == Groups!Serving(d, g, Groups!MembersOf(d, g))
         IN /\ n \in AlbumType /\ n.group = d.group /\ n.made = d.made
            /\ \A e \in Groups!Images :
                  /\ n.image[e].at = d.image[e].at /\ n.image[e].group = d.image[e].group
                  /\ d.image[e].group # g => n.image[e] = d.image[e]
                  /\ d.image[e].group = g /\ Groups!Live(d, e) => (n.image[e].hidden <=> e # s)
                  /\ ~Groups!Live(d, e) => n.image[e] = d.image[e]
<1>. DEFINE s == Groups!Serving(d, g, Groups!MembersOf(d, g))
            f == [e \in Groups!Images |-> IF d.image[e].group = g /\ Groups!Live(d, e) THEN [d.image[e] EXCEPT !.hidden = e # s] ELSE d.image[e]]
<1>0. g # Groups!NoGroup
  BY AlbumFields DEF Groups!NoGroup
<1>1. Groups!Refreshed(d, g) = [d EXCEPT !.image = f]
  BY <1>0 DEF Groups!Refreshed
<1>. HIDE DEF s
<1>2. ASSUME NEW e \in Groups!Images
      PROVE  /\ f[e] \in Groups!Rows /\ f[e].at = d.image[e].at /\ f[e].group = d.image[e].group
             /\ d.image[e].group # g => f[e] = d.image[e]
             /\ d.image[e].group = g /\ Groups!Live(d, e) => (f[e].hidden <=> e # s)
             /\ ~Groups!Live(d, e) => f[e] = d.image[e]
  <2>1. d.image[e] \in Groups!Rows
    BY AlbumFields
  <2>. QED BY <2>1 DEF Groups!Rows
<1>3. f \in [Groups!Images -> Groups!Rows]
  BY <1>2
<1>. HIDE DEF f
<1>4. [d EXCEPT !.image = f] \in AlbumType /\ [d EXCEPT !.image = f].image = f /\ [d EXCEPT !.image = f].group = d.group
      /\ [d EXCEPT !.image = f].made = d.made
  BY <1>3 DEF AlbumType
<1>. QED BY <1>1, <1>2, <1>4 DEF s

LEMMA BumpedFields ==
  ASSUME NEW d \in AlbumType, Groups!GroupsAssumption, NEW g \in Groups!GroupIds
  PROVE  LET n == Groups!Bumped(d, g)
         IN /\ n \in AlbumType /\ n.image = d.image /\ n.made = d.made
            /\ n.group[g].revision = d.group[g].revision + 1 /\ n.group[g].primary = d.group[g].primary
            /\ \A h \in Groups!GroupIds : h # g => n.group[h] = d.group[h]
<1>. DEFINE r == [d.group[g] EXCEPT !.revision = d.group[g].revision + 1]
            f == [d.group EXCEPT ![g] = r]
<1>1. Groups!Bumped(d, g) = [d EXCEPT !.group = f]
  BY DEF Groups!Bumped
<1>2. r \in [primary : {Groups!NoImage} \cup Groups!Images, revision : Nat] /\ r.revision = d.group[g].revision + 1 /\ r.primary = d.group[g].primary
  BY AlbumFields
<1>. HIDE DEF r
<1>3. f \in [Groups!GroupIds -> [primary : {Groups!NoImage} \cup Groups!Images, revision : Nat]] /\ f[g] = r
      /\ \A h \in Groups!GroupIds : h # g => f[h] = d.group[h]
  BY <1>2, AlbumFields
<1>. HIDE DEF f
<1>4. [d EXCEPT !.group = f] \in AlbumType /\ [d EXCEPT !.group = f].image = d.image /\ [d EXCEPT !.group = f].group = f
      /\ [d EXCEPT !.group = f].made = d.made
  BY <1>3 DEF AlbumType
<1>. QED BY <1>1, <1>2, <1>3, <1>4

LEMMA ChosenFields ==
  ASSUME NEW d \in AlbumType, Groups!GroupsAssumption, NEW g \in Groups!GroupIds, NEW p \in Groups!Images
  PROVE  LET n == [d EXCEPT !.group[g].primary = p]
         IN /\ n \in AlbumType /\ n.image = d.image /\ n.made = d.made /\ Groups!Chosen(d, g, p) = Groups!Refreshed(n, g)
            /\ n.group[g].revision = d.group[g].revision /\ n.group[g].primary = p
            /\ \A h \in Groups!GroupIds : h # g => n.group[h] = d.group[h]
<1>. DEFINE r == [d.group[g] EXCEPT !.primary = p]
            f == [d.group EXCEPT ![g] = r]
<1>1. [d EXCEPT !.group[g].primary = p] = [d EXCEPT !.group = f]
  OBVIOUS
<1>2. r \in [primary : {Groups!NoImage} \cup Groups!Images, revision : Nat] /\ r.revision = d.group[g].revision /\ r.primary = p
  BY AlbumFields
<1>. HIDE DEF r
<1>3. f \in [Groups!GroupIds -> [primary : {Groups!NoImage} \cup Groups!Images, revision : Nat]] /\ f[g] = r
      /\ \A h \in Groups!GroupIds : h # g => f[h] = d.group[h]
  BY <1>2, AlbumFields
<1>. HIDE DEF f
<1>4. [d EXCEPT !.group = f] \in AlbumType /\ [d EXCEPT !.group = f].image = d.image /\ [d EXCEPT !.group = f].group = f
      /\ [d EXCEPT !.group = f].made = d.made
  BY <1>3 DEF AlbumType
<1>. QED BY <1>1, <1>2, <1>3, <1>4 DEF Groups!Chosen

LEMMA ServingAgrees ==
  ASSUME NEW d, NEW n, NEW g, NEW M \in SUBSET Groups!Images, n.group[g].primary = d.group[g].primary,
         d.group[g].primary \in {Groups!NoImage} \cup Groups!Images, \A e \in Groups!Images : n.image[e].at = d.image[e].at
  PROVE  Groups!Serving(n, g, M) = Groups!Serving(d, g, M)
<1>1. {e \in M : Groups!Live(n, e)} = {e \in M : Groups!Live(d, e)}
  BY DEF Groups!Live
<1>. QED BY <1>1 DEF Groups!Serving, Groups!Live

LEMMA AtFields ==
  ASSUME album \in AlbumType, Groups!GroupsAssumption, NEW e \in Groups!Images, NEW place \in {"here", "missing", "purged"}
  PROVE  LET n == Groups!At(e, place)
         IN /\ n \in AlbumType /\ n.group = album.group /\ n.made = album.made
            /\ \A o \in Groups!Images : o # e => n.image[o] = album.image[o]
            /\ n.image[e].at = place /\ n.image[e].group = album.image[e].group /\ n.image[e].hidden = album.image[e].hidden
<1>. DEFINE r == [album.image[e] EXCEPT !.at = place]
            f == [album.image EXCEPT ![e] = r]
<1>1. Groups!At(e, place) = [album EXCEPT !.image = f]
  BY DEF Groups!At
<1>2. r \in Groups!Rows /\ r.at = place /\ r.group = album.image[e].group /\ r.hidden = album.image[e].hidden
  BY AlbumFields DEF Groups!Rows
<1>. HIDE DEF r
<1>3. f \in [Groups!Images -> Groups!Rows] /\ f[e] = r /\ \A o \in Groups!Images : o # e => f[o] = album.image[o]
  BY <1>2, AlbumFields
<1>. HIDE DEF f
<1>4. [album EXCEPT !.image = f] \in AlbumType /\ [album EXCEPT !.image = f].image = f /\ [album EXCEPT !.image = f].group = album.group
      /\ [album EXCEPT !.image = f].made = album.made
  BY <1>3 DEF AlbumType
<1>. QED BY <1>1, <1>2, <1>3, <1>4

OutIs(d, e, n) ==
    /\ n \in AlbumType /\ n.group = d.group /\ n.made = d.made
    /\ \A o \in Groups!Images : o # e => n.image[o] = d.image[o]
    /\ n.image[e].at = d.image[e].at /\ n.image[e].group = Groups!NoGroup /\ (n.image[e].hidden <=> ~Groups!Live(d, e) /\ d.image[e].hidden)
LEMMA OutFields ==
  ASSUME NEW d \in AlbumType, Groups!GroupsAssumption, NEW e \in Groups!Images
  PROVE  OutIs(d, e, [d EXCEPT !.image[e] = [d.image[e] EXCEPT !.group = Groups!NoGroup, !.hidden = ~Groups!Live(d, e) /\ d.image[e].hidden]])
<1>. DEFINE q == ~Groups!Live(d, e) /\ d.image[e].hidden
            r == [d.image[e] EXCEPT !.group = Groups!NoGroup, !.hidden = q]
            f == [d.image EXCEPT ![e] = r]
<1>0. q \in BOOLEAN /\ d.image[e] \in Groups!Rows
  BY AlbumFields
<1>1. [d EXCEPT !.image[e] = [d.image[e] EXCEPT !.group = Groups!NoGroup, !.hidden = ~Groups!Live(d, e) /\ d.image[e].hidden]] = [d EXCEPT !.image = f]
  OBVIOUS
<1>2. r \in Groups!Rows /\ r.at = d.image[e].at /\ r.group = Groups!NoGroup /\ (r.hidden <=> q)
  BY <1>0 DEF Groups!Rows
<1>. HIDE DEF r
<1>3. f \in [Groups!Images -> Groups!Rows] /\ f[e] = r /\ \A o \in Groups!Images : o # e => f[o] = d.image[o]
  BY <1>2, AlbumFields
<1>. HIDE DEF f
<1>4. [d EXCEPT !.image = f] \in AlbumType /\ [d EXCEPT !.image = f].image = f /\ [d EXCEPT !.image = f].group = d.group
      /\ [d EXCEPT !.image = f].made = d.made
  BY <1>3 DEF AlbumType
<1>5. OutIs(d, e, [d EXCEPT !.image = f])
  BY <1>2, <1>3, <1>4 DEF OutIs
<1>. QED BY <1>1, <1>5

\* What is left of group g, to n, when e leaves it.
LeftIs(d, e, g, n) ==
    LET R == Groups!MembersOf(d, g) \ {e}
    IN /\ n \in AlbumType /\ n.made = d.made /\ \A h \in Groups!GroupIds : h # g => n.group[h] = d.group[h]
       /\ \A o \in Groups!Images : n.image[o].at = d.image[o].at /\ (d.image[o].group # g => n.image[o] = d.image[o])
       /\ n.image[e].group = Groups!NoGroup /\ (n.image[e].hidden <=> ~Groups!Live(d, e) /\ d.image[e].hidden)
       /\ IF Cardinality(R) < 2
          THEN n.group[g] = Groups!Ended /\ \A o \in R : n.image[o].group = Groups!NoGroup /\ n.image[o].hidden = d.image[o].hidden
          ELSE /\ n.group[g].revision = d.group[g].revision + 1 /\ n.group[g].primary = d.group[g].primary
               /\ \A o \in R : n.image[o].group = g /\ (Groups!Live(d, o) => (n.image[o].hidden <=> o # Groups!Serving(d, g, R)))
LEMMA LeftFields ==
  ASSUME NEW d \in AlbumType, Groups!GroupsAssumption, NEW e \in Groups!Images, NEW g \in Groups!GroupIds, d.image[e].group = g
  PROVE  LeftIs(d, e, g, Groups!Left(d, e))
<1>. DEFINE x == [d EXCEPT !.image[e] = [d.image[e] EXCEPT !.group = Groups!NoGroup, !.hidden = ~Groups!Live(d, e) /\ d.image[e].hidden]]
            R == Groups!MembersOf(d, g) \ {e}
<1>1. /\ x \in AlbumType /\ x.group = d.group /\ x.made = d.made
      /\ \A o \in Groups!Images : o # e => x.image[o] = d.image[o]
      /\ x.image[e].at = d.image[e].at /\ x.image[e].group = Groups!NoGroup /\ (x.image[e].hidden <=> ~Groups!Live(d, e) /\ d.image[e].hidden)
  BY OutFields DEF OutIs
<1>2. Groups!Left(d, e) = IF Groups!Cardinality(Groups!MembersOf(x, g)) < 2
                          THEN [x EXCEPT !.image = [o \in Groups!Images |->
                                                [x.image[o] EXCEPT !.group = IF x.image[o].group = g THEN Groups!NoGroup ELSE x.image[o].group]],
                                         !.group = [x.group EXCEPT ![g] = Groups!Ended]]
                          ELSE Groups!Refreshed(Groups!Bumped(x, g), g)
  BY DEF Groups!Left
<1>. HIDE DEF x
<1>3. Groups!MembersOf(x, g) = R /\ Groups!Cardinality(R) = Cardinality(R) /\ g # Groups!NoGroup
  BY <1>1, AlbumFields DEF Groups!MembersOf, Groups!Cardinality, Cardinality, Groups!NoGroup
<1>4. CASE Cardinality(R) < 2
  <2>. DEFINE f == [o \in Groups!Images |-> [x.image[o] EXCEPT !.group = IF x.image[o].group = g THEN Groups!NoGroup ELSE x.image[o].group]]
              k == [x.group EXCEPT ![g] = Groups!Ended]
  <2>1. Groups!Left(d, e) = [x EXCEPT !.image = f, !.group = k]
    BY <1>2, <1>3, <1>4
  <2>2. ASSUME NEW o \in Groups!Images
        PROVE  /\ f[o] \in Groups!Rows /\ f[o].at = x.image[o].at /\ f[o].hidden = x.image[o].hidden
               /\ x.image[o].group # g => f[o] = x.image[o]
               /\ x.image[o].group = g => f[o].group = Groups!NoGroup
    <3>1. x.image[o] \in Groups!Rows
      BY <1>1, AlbumFields
    <3>. QED BY <3>1 DEF Groups!Rows
  <2>3. Groups!Ended \in [primary : {Groups!NoImage} \cup Groups!Images, revision : Nat]
    BY DEF Groups!Ended
  <2>4. k \in [Groups!GroupIds -> [primary : {Groups!NoImage} \cup Groups!Images, revision : Nat]] /\ k[g] = Groups!Ended
        /\ \A h \in Groups!GroupIds : h # g => k[h] = d.group[h]
    BY <1>1, <2>3, AlbumFields
  <2>5. f \in [Groups!Images -> Groups!Rows]
    BY <2>2
  <2>. HIDE DEF f, k
  <2>6. [x EXCEPT !.image = f, !.group = k] \in AlbumType /\ [x EXCEPT !.image = f, !.group = k].image = f
        /\ [x EXCEPT !.image = f, !.group = k].group = k /\ [x EXCEPT !.image = f, !.group = k].made = d.made
    BY <1>1, <2>4, <2>5 DEF AlbumType
  <2>7. \A o \in R : x.image[o].group = g /\ o # e /\ o \in Groups!Images
    BY <1>1 DEF Groups!MembersOf
  <2>8. LeftIs(d, e, g, [x EXCEPT !.image = f, !.group = k])
    BY <1>1, <1>4, <2>2, <2>4, <2>6, <2>7 DEF LeftIs
  <2>. QED BY <2>1, <2>8
<1>5. CASE ~(Cardinality(R) < 2)
  <2>. DEFINE y == Groups!Bumped(x, g)
              n == Groups!Refreshed(y, g)
  <2>1. /\ y \in AlbumType /\ y.image = x.image /\ y.made = x.made
        /\ y.group[g].revision = x.group[g].revision + 1 /\ y.group[g].primary = x.group[g].primary
        /\ \A h \in Groups!GroupIds : h # g => y.group[h] = x.group[h]
    BY <1>1, BumpedFields
  <2>2. Groups!MembersOf(y, g) = R
    BY <1>3, <2>1 DEF Groups!MembersOf
  <2>. HIDE DEF y, R
  <2>3. /\ n \in AlbumType /\ n.group = y.group /\ n.made = y.made
        /\ \A o \in Groups!Images :
              /\ n.image[o].at = y.image[o].at /\ n.image[o].group = y.image[o].group
              /\ y.image[o].group # g => n.image[o] = y.image[o]
              /\ y.image[o].group = g /\ Groups!Live(y, o) => (n.image[o].hidden <=> o # Groups!Serving(y, g, R))
    BY <2>1, <2>2, RefreshedFields
  <2>4. Groups!Left(d, e) = n
    BY <1>2, <1>3, <1>5 DEF y
  <2>. HIDE DEF n
  <2>5. R \in SUBSET Groups!Images /\ e \notin R
    BY DEF Groups!MembersOf, R
  <2>6. \A o \in Groups!Images : x.image[o].at = d.image[o].at
    BY <1>1
  <2>7. Groups!Serving(y, g, R) = Groups!Serving(d, g, R)
    BY <1>1, <2>1, <2>5, <2>6, ServingAgrees, AlbumFields
  <2>8. \A o \in R : x.image[o].group = g /\ (Groups!Live(d, o) => Groups!Live(y, o)) /\ o \in Groups!Images
    BY <1>1, <2>1, <2>6 DEF Groups!MembersOf, Groups!Live, R
  <2>9. \A o \in Groups!Images : n.image[o].at = d.image[o].at
    BY <2>1, <2>3, <2>6
  <2>10. \A o \in Groups!Images : d.image[o].group # g => n.image[o] = d.image[o]
    BY <1>1, <2>1, <2>3
  <2>11. n.image[e].group = Groups!NoGroup /\ (n.image[e].hidden <=> ~Groups!Live(d, e) /\ d.image[e].hidden)
    <3>1. n.image[e] = x.image[e]
      BY <1>1, <1>3, <2>1, <2>3
    <3>. QED BY <1>1, <3>1
  <2>12. \A o \in R : n.image[o].group = g /\ (Groups!Live(d, o) => (n.image[o].hidden <=> o # Groups!Serving(d, g, R)))
    BY <2>1, <2>3, <2>7, <2>8
  <2>13. /\ n \in AlbumType /\ n.made = d.made /\ \A h \in Groups!GroupIds : h # g => n.group[h] = d.group[h]
         /\ n.group[g].revision = d.group[g].revision + 1 /\ n.group[g].primary = d.group[g].primary
    BY <1>1, <2>1, <2>3
  <2>14. LeftIs(d, e, g, n)
    BY <1>5, <2>9, <2>10, <2>11, <2>12, <2>13 DEF LeftIs, R
  <2>. QED BY <2>4, <2>14
<1>. QED BY <1>4, <1>5

LEMMA DissolvedFields ==
  ASSUME NEW d \in AlbumType, Groups!GroupsAssumption, NEW g \in Groups!GroupIds
  PROVE  LET n == Groups!Dissolved(d, g)
         IN /\ n \in AlbumType /\ n.made = d.made /\ n.group[g] = Groups!Ended
            /\ \A h \in Groups!GroupIds : h # g => n.group[h] = d.group[h]
            /\ \A o \in Groups!Images : d.image[o].group # g => n.image[o] = d.image[o]
            /\ \A o \in Groups!Images : d.image[o].group = g => n.image[o].group = Groups!NoGroup /\ (n.image[o].hidden => ~Groups!Live(d, o))
            /\ \A o \in Groups!Images : n.image[o].at = d.image[o].at
<1>. DEFINE f == [o \in Groups!Images |-> IF d.image[o].group = g
                                        THEN [d.image[o] EXCEPT !.group = Groups!NoGroup, !.hidden = ~Groups!Live(d, o) /\ d.image[o].hidden]
                                        ELSE d.image[o]]
            k == [d.group EXCEPT ![g] = Groups!Ended]
<1>1. Groups!Dissolved(d, g) = [d EXCEPT !.image = f, !.group = k]
  BY DEF Groups!Dissolved
<1>2. ASSUME NEW o \in Groups!Images
      PROVE  /\ f[o] \in Groups!Rows /\ f[o].at = d.image[o].at
             /\ d.image[o].group # g => f[o] = d.image[o]
             /\ d.image[o].group = g => f[o].group = Groups!NoGroup /\ (f[o].hidden => ~Groups!Live(d, o))
  <2>1. d.image[o] \in Groups!Rows /\ (~Groups!Live(d, o) /\ d.image[o].hidden) \in BOOLEAN
    BY AlbumFields
  <2>. QED BY <2>1 DEF Groups!Rows
<1>3. k \in [Groups!GroupIds -> [primary : {Groups!NoImage} \cup Groups!Images, revision : Nat]] /\ k[g] = Groups!Ended
      /\ \A h \in Groups!GroupIds : h # g => k[h] = d.group[h]
  BY AlbumFields DEF Groups!Ended
<1>4. f \in [Groups!Images -> Groups!Rows]
  BY <1>2
<1>. HIDE DEF f, k
<1>5. [d EXCEPT !.image = f, !.group = k] \in AlbumType /\ [d EXCEPT !.image = f, !.group = k].image = f
      /\ [d EXCEPT !.image = f, !.group = k].group = k /\ [d EXCEPT !.image = f, !.group = k].made = d.made
  BY <1>3, <1>4 DEF AlbumType
<1>. QED BY <1>1, <1>2, <1>3, <1>5

\* What members there are once e joins with s, in which it may be anywhere.
NowWith(d, g, s, e) == Groups!MembersOf(d, g) \cup {s[i] : i \in {k \in DOMAIN s : \A j \in DOMAIN s : s[j] = e => k <= j}}
LEMMA JoinedFields ==
  ASSUME NEW d \in AlbumType, Groups!GroupsAssumption, NEW g \in Groups!GroupIds, NEW s, Groups!Picked(s) \in SUBSET Groups!Images
  PROVE  LET n == Groups!Joined(d, g, s)
         IN /\ n \in AlbumType /\ n.made = d.made /\ n.group = d.group
            /\ \A e \in Groups!Images :
                  /\ n.image[e].at = d.image[e].at
                  /\ e \notin Groups!Picked(s) => n.image[e] = d.image[e]
                  /\ e \in Groups!Picked(s) => n.image[e].group = g /\ (n.image[e].hidden <=> e # Groups!Serving(d, g, NowWith(d, g, s, e)))
<1>. DEFINE f == [e \in Groups!Images |-> IF e \in Groups!Picked(s)
                                        THEN [d.image[e] EXCEPT !.group = g, !.hidden = e # Groups!Serving(d, g, NowWith(d, g, s, e))]
                                        ELSE d.image[e]]
<1>1. Groups!Joined(d, g, s) = [d EXCEPT !.image = f]
  BY Zenon DEF Groups!Joined, NowWith
<1>2. ASSUME NEW e \in Groups!Images
      PROVE  /\ f[e] \in Groups!Rows /\ f[e].at = d.image[e].at
             /\ e \notin Groups!Picked(s) => f[e] = d.image[e]
             /\ e \in Groups!Picked(s) => f[e].group = g /\ (f[e].hidden <=> e # Groups!Serving(d, g, NowWith(d, g, s, e)))
  <2>1. d.image[e] \in Groups!Rows
    BY AlbumFields
  <2>. QED BY <2>1 DEF Groups!Rows
<1>3. f \in [Groups!Images -> Groups!Rows]
  BY <1>2
<1>. HIDE DEF f
<1>4. [d EXCEPT !.image = f] \in AlbumType /\ [d EXCEPT !.image = f].image = f /\ [d EXCEPT !.image = f].group = d.group
      /\ [d EXCEPT !.image = f].made = d.made
  BY <1>3 DEF AlbumType
<1>. QED BY <1>1, <1>2, <1>4

\* The images of a sequence without repetitions are as many as it is long, and
\* who joins with it joins those that come before.
LEMMA SelectionFields ==
  ASSUME Groups!GroupsAssumption, NEW s \in Groups!Selections, NEW d \in AlbumType, NEW admin, Groups!Candidates(s, admin), NEW g \in Groups!GroupIds
  PROVE  /\ Len(s) \in 1 .. MaxImageGroupSize /\ Groups!Picked(s) \in SUBSET Groups!Images
         /\ IsFiniteSet(Groups!Picked(s)) /\ Cardinality(Groups!Picked(s)) = Len(s)
         /\ \A e \in Groups!Picked(s) : Groups!Live(album, e) /\ album.image[e].group = Groups!NoGroup
         /\ \A e \in Groups!Picked(s) :
               /\ e \in NowWith(d, g, s, e)
               /\ NowWith(d, g, s, e) \in SUBSET (Groups!MembersOf(d, g) \cup Groups!Picked(s))
               /\ Groups!MembersOf(d, g) \in SUBSET NowWith(d, g, s, e)
<1>1. PICK n \in 1 .. MaxImageGroupSize : s \in [1 .. n -> Groups!Images]
  BY DEF Groups!Selections
<1>2. n \in Nat /\ DOMAIN s = 1 .. n /\ Len(s) = n /\ n \in 1 .. MaxImageGroupSize
  BY <1>1 DEF Groups!GroupsAssumption
<1>3. /\ \A i, j \in DOMAIN s : s[i] = s[j] => i = j
      /\ \A e \in Groups!Picked(s) : Groups!Live(album, e) /\ album.image[e].group = Groups!NoGroup
  BY DEF Groups!Candidates
<1>4. Groups!Picked(s) \in SUBSET Groups!Images /\ s \in [1 .. n -> Groups!Picked(s)]
  BY <1>1 DEF Groups!Picked
<1>5. IsFiniteSet(Groups!Picked(s)) /\ Cardinality(Groups!Picked(s)) = n
  <2>1. s \in Bijection(1 .. n, Groups!Picked(s))
    BY <1>1, <1>2, <1>3, <1>4 DEF Groups!Picked, Bijection, Injection, Surjection, IsInjective
  <2>2. ExistsBijection(1 .. n, Groups!Picked(s))
    BY <2>1 DEF ExistsBijection
  <2>3. IsFiniteSet(1 .. n)
    BY <1>2, FS_Interval
  <2>. QED BY <1>2, <2>2, <2>3, FS_CountingElements, FS_Bijection
<1>6. ASSUME NEW e \in Groups!Picked(s) PROVE e \in NowWith(d, g, s, e)
  <2>1. PICK i \in DOMAIN s : s[i] = e
    BY DEF Groups!Picked
  <2>2. i \in {k \in DOMAIN s : \A j \in DOMAIN s : s[j] = e => k <= j}
    BY <1>2, <1>3, <2>1
  <2>. QED BY <2>1, <2>2 DEF NowWith
<1>7. \A e : NowWith(d, g, s, e) \subseteq Groups!MembersOf(d, g) \cup Groups!Picked(s) /\ Groups!MembersOf(d, g) \subseteq NowWith(d, g, s, e)
  BY DEF NowWith, Groups!Picked
<1>. QED BY <1>2, <1>3, <1>4, <1>5, <1>6, <1>7

\* Which members of a group are hidden.
Shows(d, g) ==
    LET M == Groups!MembersOf(d, g)
        p == d.group[g].primary
    IN /\ p \in M
       /\ \A e \in M : Groups!Live(d, e) =>
              IF Groups!Live(d, p) THEN d.image[e].hidden <=> e # p
              ELSE (\A o \in M : Groups!Live(d, o) => e <= o) => ~d.image[e].hidden
GroupHolds(d, g, lost) ==
    LET M == Groups!MembersOf(d, g)
    IN /\ g > d.made => ~Groups!Exists(d, g)
       /\ IF Groups!Exists(d, g) THEN Cardinality(M) \in 2 .. MaxImageGroupSize ELSE M = {}
       /\ \A e \in M : d.image[e].at \in {"here", "missing"}
       /\ Groups!Exists(d, g) /\ ~lost => Shows(d, g)
OpenedHolds(d, v) ==
    /\ v.group \in {Groups!NoGroup} \cup Groups!GroupIds /\ v.revision \in Nat
    /\ v.group # Groups!NoGroup =>
          /\ v.group <= d.made
          /\ Groups!Exists(d, v.group) => v.revision <= d.group[v.group].revision
          /\ Groups!Exists(d, v.group) /\ d.group[v.group].revision = v.revision => v = Groups!Seen(d, v.group)
GroupsHold ==
    /\ album \in AlbumType /\ astray.images \in SUBSET Groups!Images /\ astray.groups \in SUBSET Groups!GroupIds
    /\ \A g \in Groups!GroupIds : GroupHolds(album, g, g \in astray.groups)
    /\ \A e \in Groups!Images : album.image[e].group = Groups!NoGroup /\ e \notin astray.images => ~album.image[e].hidden
    /\ OpenedHolds(album, opened)

\* From d to n, no group but g changes.
Touches(d, n, g) ==
    /\ n \in AlbumType /\ d.made <= n.made
    /\ \A h \in Groups!GroupIds : h # g => n.group[h] = d.group[h]
    /\ \A e \in Groups!Images :
          IF d.image[e].group \in {g, Groups!NoGroup} THEN n.image[e].group \in {g, Groups!NoGroup}
          ELSE n.image[e].at = d.image[e].at /\ n.image[e].hidden = d.image[e].hidden /\ n.image[e].group = d.image[e].group
\* What changes in a group that stays changes its revision.
Follows(d, n, g) ==
    g <= d.made /\ Groups!Exists(n, g) =>
        /\ Groups!Exists(d, g) /\ d.group[g].revision <= n.group[g].revision
        /\ n.group[g].revision = d.group[g].revision =>
              Groups!MembersOf(n, g) = Groups!MembersOf(d, g) /\ n.group[g].primary = d.group[g].primary
Lost(d, n, g) == n.group[g].primary = d.group[g].primary /\ (g \in astray.groups \/ n.group[g].primary \notin Groups!MembersOf(n, g))
\* An image that is hidden in no group was so before, or goes astray.
Strays(d, n, e) ==
    n.image[e].group = Groups!NoGroup /\ n.image[e].hidden =>
        \/ d.image[e].group = Groups!NoGroup /\ d.image[e].hidden
        \/ d.image[e].group # Groups!NoGroup /\ (~Groups!Live(d, e) \/ d.image[e].group \in astray.groups)

LEMMA OpenedStays ==
  ASSUME NEW d \in AlbumType, NEW n \in AlbumType, NEW v, OpenedHolds(d, v), d.made <= n.made, Groups!GroupsAssumption,
         \A h \in Groups!GroupIds : Follows(d, n, h)
  PROVE  OpenedHolds(n, v)
<1>1. CASE v.group = Groups!NoGroup
  BY <1>1 DEF OpenedHolds
<1>2. CASE v.group # Groups!NoGroup
  <2>1. v.group \in Groups!GroupIds /\ v.group <= d.made /\ v.revision \in Nat /\ d.made \in Nat /\ n.made \in Nat /\ v.group \in Nat
    BY <1>2, AlbumFields DEF OpenedHolds, Groups!GroupIds
  <2>2. ASSUME Groups!Exists(n, v.group)
        PROVE  /\ v.revision <= n.group[v.group].revision
               /\ n.group[v.group].revision = v.revision => v = Groups!Seen(n, v.group)
    <3>1. /\ Groups!Exists(d, v.group) /\ d.group[v.group].revision <= n.group[v.group].revision
          /\ n.group[v.group].revision = d.group[v.group].revision =>
                Groups!MembersOf(n, v.group) = Groups!MembersOf(d, v.group) /\ n.group[v.group].primary = d.group[v.group].primary
      BY <2>1, <2>2 DEF Follows
    <3>2. d.group[v.group].revision \in Nat /\ n.group[v.group].revision \in Nat
      BY <2>1, AlbumFields
    <3>3. v.revision <= d.group[v.group].revision /\ (d.group[v.group].revision = v.revision => v = Groups!Seen(d, v.group))
      BY <1>2, <3>1 DEF OpenedHolds
    <3>. QED BY <2>1, <3>1, <3>2, <3>3 DEF Groups!Seen
  <2>. QED BY <1>2, <2>1, <2>2 DEF OpenedHolds
<1>. QED BY <1>1, <1>2

LEMMA GroupStep ==
  ASSUME Groups!GroupsAssumption, GroupsHold, NEW g \in {Groups!NoGroup} \cup Groups!GroupIds, NEW n, Touches(album, n, g), Groups!Write(n),
         UNCHANGED opened,
         g \in Groups!GroupIds => GroupHolds(n, g, Lost(album, n, g)) /\ Follows(album, n, g),
         \A e \in Groups!Images : Strays(album, n, e)
  PROVE  GroupsHold'
<1>0. /\ album' = n /\ n \in AlbumType /\ album \in AlbumType /\ opened' = opened /\ album.made \in Nat /\ n.made \in Nat /\ album.made <= n.made
      /\ Groups!GroupIds \subseteq Nat
  BY AlbumFields DEF Groups!Write, Touches, GroupsHold, Groups!GroupIds
<1>1. /\ astray'.images = astray.images \cup {e \in Groups!Images : album.image[e].group # Groups!NoGroup /\ n.image[e].group = Groups!NoGroup
                                                                   /\ (~Groups!Live(album, e) \/ album.image[e].group \in astray.groups)}
      /\ astray'.groups = {h \in Groups!GroupIds : Groups!Exists(n, h) /\ n.group[h].primary = album.group[h].primary
                                                   /\ (h \in astray.groups \/ n.group[h].primary \notin Groups!MembersOf(n, h))}
  BY DEF Groups!Write, Groups!Astray
<1>2. ASSUME NEW h \in Groups!GroupIds, h # g
      PROVE  /\ n.group[h] = album.group[h] /\ Groups!MembersOf(n, h) = Groups!MembersOf(album, h)
             /\ \A e \in Groups!MembersOf(album, h) : n.image[e].at = album.image[e].at /\ n.image[e].hidden = album.image[e].hidden
  <2>1. h # Groups!NoGroup
    BY <1>0, AlbumFields DEF Groups!NoGroup
  <2>. QED BY <1>2, <2>1 DEF Touches, Groups!MembersOf
<1>3. ASSUME NEW h \in Groups!GroupIds PROVE GroupHolds(n, h, h \in astray'.groups)
  <2>1. CASE h = g
    <3>1. Groups!Exists(n, h) => (h \in astray'.groups <=> Lost(album, n, h))
      BY <1>1 DEF Lost
    <3>. QED BY <2>1, <3>1 DEF GroupHolds
  <2>2. CASE h # g
    <3>1. GroupHolds(album, h, h \in astray.groups)
      BY DEF GroupsHold
    <3>2. /\ n.group[h] = album.group[h] /\ Groups!MembersOf(n, h) = Groups!MembersOf(album, h)
          /\ \A e \in Groups!MembersOf(album, h) : n.image[e].at = album.image[e].at /\ n.image[e].hidden = album.image[e].hidden
      BY <1>2, <2>2
    <3>3. Shows(album, h) => Shows(n, h)
      BY <3>2 DEF Shows, Groups!Live
    <3>4. Groups!Exists(n, h) /\ h \notin astray'.groups => Groups!Exists(album, h) /\ h \notin astray.groups
      BY <1>1, <3>2 DEF Groups!Exists
    <3>5. (Groups!Exists(n, h) <=> Groups!Exists(album, h)) /\ (h > n.made => h > album.made)
      BY <1>0, <3>2 DEF Groups!Exists
    <3>. QED BY <3>1, <3>2, <3>3, <3>4, <3>5 DEF GroupHolds
  <2>. QED BY <2>1, <2>2
<1>4. ASSUME NEW e \in Groups!Images, n.image[e].group = Groups!NoGroup, e \notin astray'.images PROVE ~n.image[e].hidden
  <2>1. Strays(album, n, e)
    OBVIOUS
  <2>. QED BY <1>1, <1>4, <2>1 DEF Strays, GroupsHold
<1>5. ASSUME NEW h \in Groups!GroupIds PROVE Follows(album, n, h)
  <2>1. CASE h = g
    BY <2>1
  <2>2. CASE h # g
    <3>1. album.group[h].revision \in Nat
      BY <1>0, AlbumFields
    <3>. QED BY <1>2, <2>2, <3>1 DEF Follows, Groups!Exists
  <2>. QED BY <2>1, <2>2
<1>6. OpenedHolds(n, opened)
  BY <1>0, <1>5, OpenedStays DEF GroupsHold
<1>7. astray'.images \in SUBSET Groups!Images /\ astray'.groups \in SUBSET Groups!GroupIds
  BY <1>1 DEF GroupsHold
<1>. QED BY <1>0, <1>3, <1>4, <1>6, <1>7 DEF GroupsHold

\* Flags that are as the one that serves shows one image.
LEMMA ServedShows ==
  ASSUME Groups!GroupsAssumption, NEW d \in AlbumType, NEW g \in Groups!GroupIds, d.group[g].primary \in Groups!MembersOf(d, g),
         \A e \in Groups!MembersOf(d, g) : Groups!Live(d, e) => (d.image[e].hidden <=> e # Groups!Serving(d, g, Groups!MembersOf(d, g)))
  PROVE  Shows(d, g)
<1>. DEFINE M == Groups!MembersOf(d, g)
            p == d.group[g].primary
            s == Groups!Serving(d, g, M)
<1>1. M \in SUBSET Groups!Images /\ Groups!Images \subseteq Nat \ {0} /\ p # Groups!NoImage
  BY AlbumFields DEF Groups!NoImage
<1>2. /\ Groups!Live(d, p) => s = p
      /\ ~Groups!Live(d, p) /\ (\E e \in M : Groups!Live(d, e)) => s \in M /\ Groups!Live(d, s) /\ \A e \in M : Groups!Live(d, e) => s <= e
  BY <1>1, ServingIs
<1>3. ASSUME NEW e \in M, Groups!Live(d, e)
      PROVE  IF Groups!Live(d, p) THEN d.image[e].hidden <=> e # p
             ELSE (\A o \in M : Groups!Live(d, o) => e <= o) => ~d.image[e].hidden
  <2>. HIDE DEF M, p, s
  <2>0. e \in Nat /\ (s \in M => s \in Nat) /\ (d.image[e].hidden <=> e # s)
    BY <1>1, <1>3 DEF M, s
  <2>. QED BY <1>2, <1>3, <2>0
<1>. QED BY <1>3 DEF Shows

\* The members of a group, and which of them is shown, before a step.
LEMMA GroupIs ==
  ASSUME Groups!GroupsAssumption, GroupsHold, NEW g \in Groups!GroupIds
  PROVE  LET M == Groups!MembersOf(album, g)
         IN /\ g \in Nat /\ g # Groups!NoGroup /\ M \in SUBSET Groups!Images /\ IsFiniteSet(M) /\ Cardinality(M) \in Nat
            /\ Groups!Exists(album, g) <=> M # {}
            /\ Groups!Exists(album, g) => g <= album.made /\ Cardinality(M) \in 2 .. MaxImageGroupSize
            /\ \A e \in M : album.image[e].at \in {"here", "missing"} /\ album.image[e].group = g
            /\ Groups!Exists(album, g) /\ g \notin astray.groups => Shows(album, g)
<1>1. album \in AlbumType /\ GroupHolds(album, g, g \in astray.groups) /\ g \in Nat /\ g # Groups!NoGroup /\ album.made \in Nat
  BY AlbumFields DEF GroupsHold, Groups!NoGroup
<1>2. Groups!MembersOf(album, g) \in SUBSET Groups!Images /\ IsFiniteSet(Groups!Images)
  BY <1>1, AlbumFields
<1>3. IsFiniteSet(Groups!MembersOf(album, g)) /\ Cardinality(Groups!MembersOf(album, g)) \in Nat
  BY <1>2, FS_Subset, FS_CardinalityType
<1>4. Cardinality({}) = 0
  BY FS_EmptySet
<1>5. \A e \in Groups!MembersOf(album, g) : album.image[e].group = g
  BY DEF Groups!MembersOf
<1>. QED BY <1>1, <1>2, <1>3, <1>4, <1>5 DEF GroupHolds

\* The flags of a group are refreshed, and an image has gone or come.
LEMMA RefreshStep ==
  ASSUME Groups!GroupsAssumption, GroupsHold, UNCHANGED opened, NEW d \in AlbumType, NEW e \in Groups!Images,
         d.group = album.group, d.made = album.made, d.image[e].at \in {"here", "missing"}, d.image[e].group = album.image[e].group,
         d.image[e].hidden = album.image[e].hidden, \A o \in Groups!Images : o # e => d.image[o] = album.image[o],
         Groups!Write(Groups!Refreshed(d, album.image[e].group))
  PROVE  GroupsHold'
<1>. DEFINE g == album.image[e].group
            n == Groups!Refreshed(d, g)
<1>0. album \in AlbumType /\ g \in {Groups!NoGroup} \cup Groups!GroupIds
  BY AlbumFields DEF GroupsHold
<1>1. CASE g = Groups!NoGroup
  <2>1. n = d
    BY <1>1 DEF Groups!Refreshed
  <2>2. Touches(album, d, g) /\ \A o \in Groups!Images : Strays(album, d, o)
    BY <1>0, <1>1, AlbumFields DEF Touches, Strays
  <2>3. g \notin Groups!GroupIds
    BY <1>0, <1>1, AlbumFields DEF Groups!NoGroup
  <2>. QED BY <1>0, <2>1, <2>2, <2>3, GroupStep
<1>2. CASE g # Groups!NoGroup
  <2>. DEFINE M == Groups!MembersOf(d, g)
  <2>0. g \in Groups!GroupIds
    BY <1>0, <1>2
  <2>1. /\ n \in AlbumType /\ n.group = d.group /\ n.made = d.made
        /\ \A o \in Groups!Images :
              /\ n.image[o].at = d.image[o].at /\ n.image[o].group = d.image[o].group
              /\ d.image[o].group # g => n.image[o] = d.image[o]
              /\ d.image[o].group = g /\ Groups!Live(d, o) => (n.image[o].hidden <=> o # Groups!Serving(d, g, M))
    BY <2>0, RefreshedFields
  <2>2. M = Groups!MembersOf(album, g)
    BY DEF Groups!MembersOf
  <2>. HIDE DEF n, g, M
  <2>3. Groups!MembersOf(n, g) = M
    BY <2>1 DEF Groups!MembersOf, M
  <2>4. Groups!Serving(n, g, M) = Groups!Serving(d, g, M) /\ M \in SUBSET Groups!Images
    <3>1. M \in SUBSET Groups!Images /\ d.group[g].primary \in {Groups!NoImage} \cup Groups!Images
      BY <2>0, AlbumFields DEF M
    <3>. QED BY <2>1, <3>1, ServingAgrees
  <2>5. Touches(album, n, g) /\ \A o \in Groups!Images : Strays(album, n, o)
    <3>1. album.made <= n.made
      BY <1>0, <2>1, AlbumFields
    <3>2. \A o \in Groups!Images : n.image[o].group = album.image[o].group
      BY <2>1
    <3>3. \A o \in Groups!Images : album.image[o].group # g => o # e /\ n.image[o] = album.image[o]
      BY <2>1 DEF g
    <3>4. g # Groups!NoGroup
      BY <1>2
    <3>. QED BY <2>1, <3>1, <3>2, <3>3, <3>4 DEF Touches, Strays
  <2>6. Follows(album, n, g)
    BY <1>0, <2>0, <2>1, <2>2, <2>3, AlbumFields DEF Follows, Groups!Exists
  <2>7. GroupHolds(n, g, Lost(album, n, g))
    <3>1. /\ Groups!Exists(album, g) <=> M # {}
          /\ Groups!Exists(album, g) => g <= album.made /\ Cardinality(M) \in 2 .. MaxImageGroupSize
          /\ \A o \in M : album.image[o].at \in {"here", "missing"} /\ album.image[o].group = g
          /\ g \in Nat /\ album.made \in Nat
      BY <1>0, <2>0, <2>2, GroupIs, AlbumFields
    <3>2. (Groups!Exists(n, g) <=> Groups!Exists(album, g)) /\ n.group = album.group /\ n.made = album.made
      BY <2>1 DEF Groups!Exists
    <3>3. \A o \in M : n.image[o].at \in {"here", "missing"} /\ o \in Groups!Images
      BY <2>1, <2>4, <3>1
    <3>4. ASSUME ~Lost(album, n, g) PROVE Shows(n, g)
      <4>1. n.group[g].primary \in M
        BY <2>3, <3>2, <3>4 DEF Lost
      <4>2. \A o \in M : Groups!Live(n, o) => (n.image[o].hidden <=> o # Groups!Serving(n, g, M))
        BY <2>1, <2>4, <3>1 DEF Groups!Live, M, Groups!MembersOf
      <4>. QED BY <2>0, <2>1, <2>3, <4>1, <4>2, ServedShows
    <3>. QED BY <2>3, <3>1, <3>2, <3>3, <3>4 DEF GroupHolds
  <2>8. Groups!Write(n)
    BY DEF n, g
  <2>. QED BY <2>0, <2>5, <2>6, <2>7, <2>8, GroupStep
<1>. QED BY <1>1, <1>2

\* Images that are found, come and go; what a client has open.
LEMMA ImageSteps ==
  ASSUME Groups!GroupsAssumption, GroupsHold, NEW e \in Groups!Images,
         Groups!Find(e) \/ Groups!GoMissing(e) \/ Groups!Return(e) \/ Groups!Move(e)
  PROVE  GroupsHold'
<1>0. album \in AlbumType /\ album.image[e].group \in {Groups!NoGroup} \cup Groups!GroupIds
  BY AlbumFields DEF GroupsHold
<1>1. ASSUME NEW place \in {"here", "missing"}, UNCHANGED opened, Groups!Write(Groups!Refreshed(Groups!At(e, place), album.image[e].group))
      PROVE  GroupsHold'
  <2>. DEFINE d == Groups!At(e, place)
  <2>1. /\ d \in AlbumType /\ d.group = album.group /\ d.made = album.made
        /\ \A o \in Groups!Images : o # e => d.image[o] = album.image[o]
        /\ d.image[e].at = place /\ d.image[e].group = album.image[e].group /\ d.image[e].hidden = album.image[e].hidden
    BY <1>0, AtFields
  <2>2. UNCHANGED opened /\ Groups!Write(Groups!Refreshed(d, album.image[e].group))
    BY <1>1
  <2>. HIDE DEF d
  <2>. QED BY <2>1, <2>2, RefreshStep
<1>2. CASE Groups!GoMissing(e) \/ Groups!Return(e)
  BY <1>1, <1>2 DEF Groups!GoMissing, Groups!Return, Groups!NoEdit
<1>3. CASE Groups!Move(e)
  <2>1. UNCHANGED opened /\ Groups!Write(Groups!Refreshed(album, album.image[e].group)) /\ album.image[e].at \in {"here", "missing"}
    BY <1>3 DEF Groups!Move, Groups!Live
  <2>. QED BY <1>0, <2>1, RefreshStep
<1>4. CASE Groups!Find(e)
  <2>1. UNCHANGED opened /\ Groups!Write(Groups!At(e, "here")) /\ album.image[e].at = "new"
    BY <1>4 DEF Groups!Find, Groups!NoEdit
  <2>2. album.image[e].group = Groups!NoGroup
    <3>1. SUFFICES ASSUME album.image[e].group \in Groups!GroupIds PROVE FALSE
      BY <1>0
    <3>2. e \in Groups!MembersOf(album, album.image[e].group)
      BY DEF Groups!MembersOf
    <3>. QED BY <2>1, <3>1, <3>2, GroupIs
  <2>3. Groups!Refreshed(Groups!At(e, "here"), album.image[e].group) = Groups!At(e, "here")
    BY <2>2 DEF Groups!Refreshed
  <2>. QED BY <1>1, <2>1, <2>3
<1>. QED BY <1>2, <1>3, <1>4

LEMMA MarkPrivateStep ==
  ASSUME Groups!GroupsAssumption, GroupsHold, NEW e \in Groups!Images, Groups!MarkPrivate(e)
  PROVE  GroupsHold'
<1>. DEFINE r == [album.image[e] EXCEPT !.private = ~album.image[e].private]
            f == [album.image EXCEPT ![e] = r]
            n == [album EXCEPT !.image = f]
<1>0. album \in AlbumType /\ UNCHANGED opened
  BY DEF GroupsHold, Groups!MarkPrivate
<1>1. Groups!Write(n)
  BY DEF Groups!MarkPrivate
<1>2. r \in Groups!Rows /\ r.at = album.image[e].at /\ r.group = album.image[e].group /\ r.hidden = album.image[e].hidden
  <2>1. album.image[e] \in Groups!Rows /\ (~album.image[e].private) \in BOOLEAN
    BY <1>0, AlbumFields
  <2>. QED BY <2>1 DEF Groups!Rows
<1>. HIDE DEF r
<1>3. /\ f \in [Groups!Images -> Groups!Rows]
      /\ \A o \in Groups!Images : f[o].at = album.image[o].at /\ f[o].group = album.image[o].group /\ f[o].hidden = album.image[o].hidden
  BY <1>0, <1>2, AlbumFields
<1>. HIDE DEF f
<1>4. n \in AlbumType /\ n.image = f /\ n.group = album.group /\ n.made = album.made /\ album.made <= n.made
  BY <1>0, <1>3 DEF AlbumType
<1>. HIDE DEF n
<1>5. Touches(album, n, Groups!NoGroup) /\ \A o \in Groups!Images : Strays(album, n, o)
  BY <1>3, <1>4 DEF Touches, Strays
<1>6. Groups!NoGroup \notin Groups!GroupIds
  BY <1>0, AlbumFields DEF Groups!NoGroup
<1>. QED BY <1>0, <1>1, <1>5, <1>6, GroupStep

LEMMA OpenStep ==
  ASSUME Groups!GroupsAssumption, GroupsHold, NEW g \in Groups!GroupIds, NEW admin, Groups!Open(g, admin)
  PROVE  GroupsHold'
<1>1. Groups!Exists(album, g) /\ opened' = Groups!Seen(album, g) /\ UNCHANGED <<album, astray, groupEdits>> /\ album \in AlbumType
  BY DEF Groups!Open, GroupsHold
<1>2. g <= album.made /\ album.group[g].revision \in Nat
  BY <1>1, GroupIs, AlbumFields
<1>3. OpenedHolds(album, Groups!Seen(album, g))
  BY <1>1, <1>2 DEF OpenedHolds, Groups!Seen
<1>. QED BY <1>1, <1>3 DEF GroupsHold

\* While the one that was chosen is not shown, the first is.
LEMMA LastIsShown ==
  ASSUME Groups!GroupsAssumption, GroupsHold, NEW g \in Groups!GroupIds, g \notin astray.groups, NEW e, NEW o,
         Groups!MembersOf(album, g) \ {e} = {o}, Groups!Live(album, o),
         Groups!Live(album, e) => album.group[g].primary # e
  PROVE  ~album.image[o].hidden
<1>. DEFINE M == Groups!MembersOf(album, g)
            p == album.group[g].primary
<1>1. o \in M /\ \A x \in M : x = o \/ x = e
  OBVIOUS
<1>2. Shows(album, g) /\ o \in Nat
  BY <1>1, GroupIs, AlbumFields DEF GroupsHold
<1>3. /\ p \in M
      /\ IF Groups!Live(album, p) THEN album.image[o].hidden <=> o # p
         ELSE (\A x \in M : Groups!Live(album, x) => o <= x) => ~album.image[o].hidden
  BY <1>1, <1>2 DEF Shows
<1>. HIDE DEF M, p
<1>4. CASE Groups!Live(album, p)
  <2>1. p = o
    BY <1>1, <1>3, <1>4 DEF p
  <2>. QED BY <1>3, <1>4, <2>1
<1>5. CASE ~Groups!Live(album, p)
  <2>1. p = e
    BY <1>1, <1>3, <1>5
  <2>2. \A x \in M : Groups!Live(album, x) => o <= x
    BY <1>1, <1>2, <1>5, <2>1
  <2>. QED BY <1>3, <1>5, <2>2
<1>. QED BY <1>4, <1>5

\* An image leaves its group, which may be as it is when another one has just been
\* chosen in it.
MayLeave(d, e, g) ==
    /\ d \in AlbumType /\ d.made = album.made /\ \A h \in Groups!GroupIds : h # g => d.group[h] = album.group[h]
    /\ album.group[g].revision <= d.group[g].revision
    /\ \A o \in Groups!Images : d.image[o].group = album.image[o].group
    /\ \A o \in Groups!Images : o # e => d.image[o].at = album.image[o].at
    /\ \A o \in Groups!Images : album.image[o].group # g => d.image[o] = album.image[o]
    /\ Groups!Live(album, e) => Groups!Live(d, e)
    /\ d.group[g].primary # album.group[g].primary => d.group[g].primary \in Groups!MembersOf(album, g) \ {e}
    /\ \A o \in Groups!Images : g \notin astray.groups /\ Groups!Live(album, o) /\ Groups!MembersOf(album, g) \ {e} = {o} => ~d.image[o].hidden
LEMMA LeftStep ==
  ASSUME Groups!GroupsAssumption, GroupsHold, UNCHANGED opened, NEW e \in Groups!Images, NEW g \in Groups!GroupIds, album.image[e].group = g,
         NEW d, MayLeave(d, e, g), Groups!Write(Groups!Left(d, e))
  PROVE  GroupsHold'
<1>. DEFINE n == Groups!Left(d, e)
            M == Groups!MembersOf(album, g)
            R == M \ {e}
<1>0. /\ album \in AlbumType /\ album.made \in Nat /\ album.group[g].revision \in Nat /\ d.group[g].revision \in Nat
      /\ d.group[g].primary \in {Groups!NoImage} \cup Groups!Images /\ MaxImageGroupSize \in Nat /\ d \in AlbumType
  BY AlbumFields DEF GroupsHold, MayLeave, Groups!GroupsAssumption
<1>0a. /\ d.made = album.made /\ \A h \in Groups!GroupIds : h # g => d.group[h] = album.group[h]
       /\ album.group[g].revision <= d.group[g].revision
       /\ \A o \in Groups!Images : d.image[o].group = album.image[o].group
       /\ \A o \in Groups!Images : o # e => d.image[o].at = album.image[o].at
       /\ \A o \in Groups!Images : album.image[o].group # g => d.image[o] = album.image[o]
       /\ Groups!Live(album, e) => Groups!Live(d, e)
  BY DEF MayLeave
<1>1. /\ g \in Nat /\ g # Groups!NoGroup /\ M \in SUBSET Groups!Images /\ IsFiniteSet(M) /\ Cardinality(M) \in Nat /\ e \in M
      /\ Groups!Exists(album, g) /\ g <= album.made /\ Cardinality(M) \in 2 .. MaxImageGroupSize
      /\ \A o \in M : album.image[o].at \in {"here", "missing"} /\ album.image[o].group = g
  <2>1. e \in M
    BY DEF Groups!MembersOf
  <2>. QED BY <2>1, GroupIs
<1>2. Groups!MembersOf(d, g) = M
  BY <1>0a DEF Groups!MembersOf
<1>3. LeftIs(d, e, g, n)
  BY <1>0, <1>0a, LeftFields
<1>. HIDE DEF n, M
<1>4. /\ n \in AlbumType /\ n.made = d.made /\ \A h \in Groups!GroupIds : h # g => n.group[h] = d.group[h]
      /\ \A o \in Groups!Images : n.image[o].at = d.image[o].at /\ (d.image[o].group # g => n.image[o] = d.image[o])
      /\ n.image[e].group = Groups!NoGroup /\ (n.image[e].hidden => ~Groups!Live(d, e))
      /\ Cardinality(R) < 2 => n.group[g] = Groups!Ended
      /\ Cardinality(R) < 2 => \A o \in R : n.image[o].group = Groups!NoGroup /\ n.image[o].hidden = d.image[o].hidden
      /\ ~(Cardinality(R) < 2) => n.group[g].revision = d.group[g].revision + 1 /\ n.group[g].primary = d.group[g].primary
      /\ ~(Cardinality(R) < 2) => \A o \in R : n.image[o].group = g /\ (Groups!Live(d, o) => (n.image[o].hidden <=> o # Groups!Serving(d, g, R)))
  BY <1>2, <1>3 DEF LeftIs
<1>5. /\ IsFiniteSet(R) /\ Cardinality(R) \in Nat /\ Cardinality(R) <= Cardinality(M) /\ R \in SUBSET Groups!Images
      /\ Cardinality(R) = Cardinality(M) - 1
  BY <1>1, FS_Subset, FS_CardinalityType, FS_RemoveElement
<1>6. ASSUME NEW o \in Groups!Images
      PROVE  \/ o = e /\ album.image[o].group = g
             \/ o \in R /\ o # e /\ album.image[o].group = g
             \/ o \notin M /\ o # e /\ album.image[o].group # g /\ n.image[o] = album.image[o]
  BY <1>0a, <1>1, <1>4 DEF M, Groups!MembersOf
<1>. HIDE DEF R
<1>7. Touches(album, n, g)
  <2>1. ASSUME NEW o \in Groups!Images
        PROVE  IF album.image[o].group \in {g, Groups!NoGroup} THEN n.image[o].group \in {g, Groups!NoGroup}
               ELSE n.image[o].at = album.image[o].at /\ n.image[o].hidden = album.image[o].hidden /\ n.image[o].group = album.image[o].group
    BY <1>0a, <1>4, <1>6
  <2>. QED BY <1>0, <1>0a, <1>4, <2>1 DEF Touches
<1>8. ASSUME NEW o \in Groups!Images PROVE Strays(album, n, o)
  <2>1. CASE o = e
    BY <1>0a, <1>1, <1>4, <1>6, <2>1 DEF Strays
  <2>2. CASE o \in R /\ Cardinality(R) < 2
    <3>1. R = {o}
      <4>1. IsFiniteSet(R \ {o}) /\ Cardinality(R \ {o}) = 0
        BY <1>5, <2>2, FS_RemoveElement, FS_CardinalityType, FS_Subset
      <4>. QED BY <2>2, <4>1, FS_EmptySet
    <3>2. g \notin astray.groups /\ Groups!Live(album, o) => ~n.image[o].hidden
      BY <1>4, <2>2, <3>1 DEF R, M, MayLeave
    <3>. QED BY <1>1, <1>6, <2>2, <3>2 DEF Strays, R
  <2>3. CASE o \in R /\ ~(Cardinality(R) < 2)
    BY <1>1, <1>4, <2>3 DEF Strays
  <2>4. CASE o \notin M
    BY <1>1, <1>6, <2>4 DEF Strays, R
  <2>. QED BY <1>6, <2>1, <2>2, <2>3, <2>4
<1>9. CASE Cardinality(R) < 2
  <2>1. Groups!MembersOf(n, g) = {}
    BY <1>1, <1>4, <1>6, <1>9 DEF Groups!MembersOf
  <2>2. ~Groups!Exists(n, g)
    BY <1>4, <1>9 DEF Groups!Exists, Groups!Ended
  <2>3. GroupHolds(n, g, Lost(album, n, g)) /\ Follows(album, n, g)
    BY <2>1, <2>2 DEF GroupHolds, Follows
  <2>. QED BY <1>7, <1>8, <2>3, GroupStep DEF n
<1>10. CASE ~(Cardinality(R) < 2)
  <2>1. Groups!MembersOf(n, g) = R
    BY <1>1, <1>4, <1>6, <1>10 DEF Groups!MembersOf, R
  <2>2. Groups!Exists(n, g) /\ Follows(album, n, g)
    BY <1>0, <1>0a, <1>1, <1>4, <1>10 DEF Groups!Exists, Follows
  <2>3. \A o \in R : o \in M /\ o # e /\ o \in Groups!Images
    BY <1>5 DEF R
  <2>4. \A o \in R : n.image[o].at = album.image[o].at /\ d.image[o].at = album.image[o].at
    BY <1>0a, <1>4, <2>3
  <2>5. Groups!Serving(n, g, R) = Groups!Serving(d, g, R)
    BY <1>0, <1>4, <1>5, <1>10, ServingAgrees
  <2>6. ASSUME ~Lost(album, n, g) PROVE Shows(n, g)
    <3>1. n.group[g].primary \in R
      BY <1>4, <1>10, <2>1, <2>6 DEF Lost, R, M, MayLeave
    <3>2. \A o \in R : Groups!Live(n, o) => (n.image[o].hidden <=> o # Groups!Serving(n, g, R))
      BY <1>4, <1>10, <2>4, <2>5 DEF Groups!Live
    <3>. QED BY <1>4, <2>1, <3>1, <3>2, ServedShows
  <2>7. Cardinality(R) \in 2 .. MaxImageGroupSize
    BY <1>0, <1>1, <1>5, <1>10
  <2>8. GroupHolds(n, g, Lost(album, n, g))
    BY <1>0, <1>0a, <1>1, <1>4, <2>1, <2>2, <2>3, <2>4, <2>6, <2>7 DEF GroupHolds
  <2>. QED BY <1>7, <1>8, <2>2, <2>8, GroupStep DEF n
<1>. QED BY <1>9, <1>10

LEMMA PurgeStep ==
  ASSUME Groups!GroupsAssumption, GroupsHold, NEW e \in Groups!Images, Groups!Purge(e)
  PROVE  GroupsHold'
<1>. DEFINE d == Groups!At(e, "purged")
            g == album.image[e].group
<1>0. album \in AlbumType /\ g \in {Groups!NoGroup} \cup Groups!GroupIds /\ Groups!NoGroup \notin Groups!GroupIds
      /\ album.made \in Nat
  BY AlbumFields DEF GroupsHold, Groups!NoGroup
<1>1. /\ d \in AlbumType /\ d.group = album.group /\ d.made = album.made
      /\ \A o \in Groups!Images : o # e => d.image[o] = album.image[o]
      /\ d.image[e].at = "purged" /\ d.image[e].group = g /\ d.image[e].hidden = album.image[e].hidden
  BY <1>0, AtFields
<1>2. /\ album.image[e].at = "missing" /\ UNCHANGED opened
      /\ Groups!Write(IF g = Groups!NoGroup THEN d ELSE Groups!Left(d, e))
  BY DEF Groups!Purge, Groups!NoEdit
<1>. HIDE DEF d
<1>3. CASE g = Groups!NoGroup
  <2>1. Touches(album, d, Groups!NoGroup) /\ \A o \in Groups!Images : Strays(album, d, o)
    BY <1>0, <1>1, <1>3 DEF Touches, Strays
  <2>. QED BY <1>0, <1>2, <1>3, <2>1, GroupStep
<1>4. CASE g # Groups!NoGroup
  <2>0. g \in Groups!GroupIds /\ album.group[g].revision \in Nat /\ ~Groups!Live(album, e)
    BY <1>0, <1>2, <1>4, AlbumFields DEF Groups!Live
  <2>1. ASSUME NEW o \in Groups!Images, g \notin astray.groups, Groups!Live(album, o), Groups!MembersOf(album, g) \ {e} = {o}
        PROVE  ~d.image[o].hidden
    <3>1. ~album.image[o].hidden
      BY <2>0, <2>1, LastIsShown
    <3>. QED BY <1>1, <2>1, <3>1
  <2>2. MayLeave(d, e, g)
    BY <1>0, <1>1, <2>0, <2>1 DEF MayLeave
  <2>. QED BY <1>2, <1>4, <2>0, <2>2, LeftStep
<1>. QED BY <1>3, <1>4

LEMMA RemoveStep ==
  ASSUME Groups!GroupsAssumption, GroupsHold, NEW g \in Groups!GroupIds, NEW e, Groups!Remove(g, e), UNCHANGED opened
  PROVE  GroupsHold'
<1>. DEFINE M == Groups!MembersOf(album, g)
            fellows == {o \in M : o # e /\ Groups!Live(album, o)}
            b == Groups!Bumped(album, g)
            chosen == Groups!PrimaryID(album, g) = e /\ fellows # {}
<1>0. /\ album \in AlbumType /\ M \in SUBSET Groups!Images /\ IsFiniteSet(M) /\ album.group[g].revision \in Nat
      /\ album.group[g].primary \in {Groups!NoImage} \cup Groups!Images /\ Groups!Images \subseteq Nat \ {0}
  BY GroupIs, AlbumFields DEF GroupsHold
<1>1. e \in M /\ Groups!Write(Groups!Left(IF chosen THEN Groups!Chosen(b, g, Groups!Min(fellows)) ELSE b, e))
  BY DEF Groups!Remove
<1>2. e \in Groups!Images /\ album.image[e].group = g
  BY <1>0, <1>1 DEF Groups!MembersOf
<1>3. /\ b \in AlbumType /\ b.image = album.image /\ b.made = album.made
      /\ b.group[g].revision = album.group[g].revision + 1 /\ b.group[g].primary = album.group[g].primary
      /\ \A h \in Groups!GroupIds : h # g => b.group[h] = album.group[h]
  BY <1>0, BumpedFields
<1>4. CASE chosen
  <2>. DEFINE m == Groups!Min(fellows)
              c == [b EXCEPT !.group[g].primary = m]
              d == Groups!Refreshed(c, g)
  <2>1. m \in fellows
    BY <1>0, <1>4, FS_Subset, MaxAndMin
  <2>2. m \in Groups!Images /\ m \in M \ {e} /\ Groups!Live(album, m)
    BY <1>0, <2>1
  <2>. HIDE DEF m
  <2>3. /\ c \in AlbumType /\ c.image = b.image /\ c.made = b.made /\ Groups!Chosen(b, g, m) = d
        /\ c.group[g].revision = b.group[g].revision /\ c.group[g].primary = m
        /\ \A h \in Groups!GroupIds : h # g => c.group[h] = b.group[h]
    BY <1>3, <2>2, ChosenFields
  <2>. HIDE DEF c
  <2>4. Groups!MembersOf(c, g) = M
    BY <1>3, <2>3 DEF Groups!MembersOf
  <2>5. /\ d \in AlbumType /\ d.group = c.group /\ d.made = c.made
        /\ \A o \in Groups!Images :
              /\ d.image[o].at = c.image[o].at /\ d.image[o].group = c.image[o].group
              /\ c.image[o].group # g => d.image[o] = c.image[o]
              /\ c.image[o].group = g /\ Groups!Live(c, o) => (d.image[o].hidden <=> o # Groups!Serving(c, g, M))
    BY <2>3, <2>4, RefreshedFields
  <2>. HIDE DEF d
  <2>6. Groups!Live(c, m) /\ Groups!Serving(c, g, M) = m
    <3>1. Groups!Live(c, m) /\ c.group[g].primary # Groups!NoImage
      BY <1>0, <1>3, <2>2, <2>3 DEF Groups!Live, Groups!NoImage
    <3>. QED BY <1>0, <2>3, <3>1, ServingIs
  <2>7. ASSUME NEW o \in Groups!Images, M \ {e} = {o} PROVE ~d.image[o].hidden
    <3>1. o = m /\ album.image[o].group = g
      BY <2>2, <2>7 DEF Groups!MembersOf
    <3>. QED BY <1>3, <2>3, <2>5, <2>6, <3>1
  <2>8. Groups!Live(album, e) => Groups!Live(d, e)
    BY <1>2, <1>3, <2>3, <2>5 DEF Groups!Live
  <2>. HIDE DEF M
  <2>9. MayLeave(d, e, g)
    BY <1>0, <1>3, <2>2, <2>3, <2>5, <2>7, <2>8 DEF MayLeave, M
  <2>. QED BY <1>1, <1>2, <1>4, <2>3, <2>9, LeftStep DEF m
<1>5. CASE ~chosen
  <2>1. ASSUME NEW o \in Groups!Images, g \notin astray.groups, Groups!Live(album, o), M \ {e} = {o}
        PROVE  ~album.image[o].hidden
    <3>1. o \in fellows
      BY <2>1
    <3>2. Groups!PrimaryID(album, g) # e
      BY <1>5, <3>1
    <3>3. ASSUME Groups!Live(album, e), album.group[g].primary = e PROVE FALSE
      <4>1. Groups!Serving(album, g, M) = e /\ e # Groups!NoImage
        BY <1>0, <1>2, <3>3, ServingIs DEF Groups!NoImage
      <4>. QED BY <3>2, <4>1 DEF Groups!PrimaryID
    <3>. QED BY <2>1, <3>3, LastIsShown
  <2>. HIDE DEF b
  <2>2. /\ b.image = album.image /\ b.group[g].primary = album.group[g].primary
        /\ Groups!Live(album, e) => Groups!Live(b, e)
        /\ \A o \in Groups!Images : g \notin astray.groups /\ Groups!Live(album, o) /\ M \ {e} = {o} => ~b.image[o].hidden
    BY <1>3, <2>1 DEF Groups!Live
  <2>3. MayLeave(b, e, g)
    BY <1>0, <1>3, <2>2 DEF MayLeave
  <2>. QED BY <1>1, <1>2, <1>5, <2>3, LeftStep
<1>. QED BY <1>4, <1>5

LEMMA MakePrimaryStep ==
  ASSUME Groups!GroupsAssumption, GroupsHold, NEW g \in Groups!GroupIds, NEW e, Groups!MakePrimary(g, e), UNCHANGED opened
  PROVE  GroupsHold'
<1>. DEFINE M == Groups!MembersOf(album, g)
            b == Groups!Bumped(album, g)
            c == [b EXCEPT !.group[g].primary = e]
            n == Groups!Refreshed(c, g)
<1>0. /\ album \in AlbumType /\ M \in SUBSET Groups!Images /\ album.group[g].revision \in Nat /\ e \in M /\ e \in Groups!Images
      /\ Groups!Write(Groups!Chosen(b, g, e)) /\ album.made \in Nat /\ g # Groups!NoGroup
  BY GroupIs, AlbumFields DEF GroupsHold, Groups!MakePrimary
<1>1. /\ b \in AlbumType /\ b.image = album.image /\ b.made = album.made
      /\ b.group[g].revision = album.group[g].revision + 1 /\ b.group[g].primary = album.group[g].primary
      /\ \A h \in Groups!GroupIds : h # g => b.group[h] = album.group[h]
  BY <1>0, BumpedFields
<1>2. /\ c \in AlbumType /\ c.image = b.image /\ c.made = b.made /\ Groups!Chosen(b, g, e) = n
      /\ c.group[g].revision = b.group[g].revision /\ c.group[g].primary = e
      /\ \A h \in Groups!GroupIds : h # g => c.group[h] = b.group[h]
  BY <1>0, <1>1, ChosenFields
<1>. HIDE DEF b, c
<1>3. Groups!MembersOf(c, g) = M
  BY <1>1, <1>2 DEF Groups!MembersOf
<1>4. /\ n \in AlbumType /\ n.group = c.group /\ n.made = album.made
      /\ \A o \in Groups!Images :
            /\ n.image[o].at = album.image[o].at /\ n.image[o].group = album.image[o].group
            /\ album.image[o].group # g => n.image[o] = album.image[o]
            /\ album.image[o].group = g /\ Groups!Live(c, o) => (n.image[o].hidden <=> o # Groups!Serving(c, g, M))
  BY <1>1, <1>2, <1>3, RefreshedFields
<1>. HIDE DEF n
<1>5. Groups!MembersOf(n, g) = M
  BY <1>4 DEF Groups!MembersOf
<1>6. Touches(album, n, g) /\ Follows(album, n, g) /\ \A o \in Groups!Images : Strays(album, n, o)
  <2>1. Groups!Exists(album, g) /\ g <= album.made
    BY <1>0, GroupIs
  <2>. QED BY <1>0, <1>1, <1>2, <1>4, <2>1 DEF Touches, Follows, Strays
<1>7. Shows(n, g)
  <2>1. Groups!Serving(n, g, M) = Groups!Serving(c, g, M)
    BY <1>0, <1>1, <1>2, <1>4, ServingAgrees
  <2>2. \A o \in M : Groups!Live(n, o) => (n.image[o].hidden <=> o # Groups!Serving(n, g, M))
    BY <1>0, <1>1, <1>2, <1>4, <2>1 DEF Groups!Live, Groups!MembersOf
  <2>. QED BY <1>0, <1>2, <1>4, <1>5, <2>2, ServedShows
<1>8. GroupHolds(n, g, Lost(album, n, g))
  <2>1. /\ Groups!Exists(album, g) /\ g <= album.made /\ Cardinality(M) \in 2 .. MaxImageGroupSize /\ g \in Nat
        /\ \A o \in M : album.image[o].at \in {"here", "missing"}
    BY <1>0, GroupIs
  <2>2. Groups!Exists(n, g)
    BY <1>0, <1>1, <1>2, <1>4 DEF Groups!Exists
  <2>. QED BY <1>0, <1>4, <1>5, <1>7, <2>1, <2>2 DEF GroupHolds
<1>. QED BY <1>0, <1>2, <1>6, <1>8, GroupStep

LEMMA DissolveStep ==
  ASSUME Groups!GroupsAssumption, GroupsHold, NEW g \in Groups!GroupIds, Groups!Dissolve(g), UNCHANGED opened
  PROVE  GroupsHold'
<1>. DEFINE n == Groups!Dissolved(album, g)
<1>0. album \in AlbumType /\ Groups!Write(n) /\ album.made \in Nat /\ g # Groups!NoGroup
  BY GroupIs, AlbumFields DEF GroupsHold, Groups!Dissolve
<1>1. /\ n \in AlbumType /\ n.made = album.made /\ n.group[g] = Groups!Ended
      /\ \A h \in Groups!GroupIds : h # g => n.group[h] = album.group[h]
      /\ \A o \in Groups!Images : album.image[o].group # g => n.image[o] = album.image[o]
      /\ \A o \in Groups!Images : album.image[o].group = g => n.image[o].group = Groups!NoGroup /\ (n.image[o].hidden => ~Groups!Live(album, o))
  BY <1>0, DissolvedFields
<1>. HIDE DEF n
<1>2. Groups!MembersOf(n, g) = {} /\ ~Groups!Exists(n, g)
  BY <1>0, <1>1 DEF Groups!MembersOf, Groups!Exists, Groups!Ended
<1>3. GroupHolds(n, g, Lost(album, n, g)) /\ Follows(album, n, g)
  BY <1>2 DEF GroupHolds, Follows
<1>4. Touches(album, n, g)
  BY <1>0, <1>1 DEF Touches
<1>5. ASSUME NEW o \in Groups!Images PROVE Strays(album, n, o)
  <2>1. CASE album.image[o].group = g
    BY <1>0, <1>1, <2>1 DEF Strays
  <2>2. CASE album.image[o].group # g
    BY <1>1, <2>2 DEF Strays
  <2>. QED BY <2>1, <2>2
<1>. QED BY <1>0, <1>3, <1>4, <1>5, GroupStep

\* Images join a group, or make one with the one that is chosen.
JoinsWith(d, g, s) ==
    LET P == Groups!Picked(s)
        M == Groups!MembersOf(d, g)
    IN /\ P \in SUBSET Groups!Images
       /\ \A e \in P : Groups!Live(d, e) /\ d.image[e].group = Groups!NoGroup
       /\ \A e \in P : e \in NowWith(d, g, s, e) /\ NowWith(d, g, s, e) \in SUBSET (M \cup P) /\ M \in SUBSET NowWith(d, g, s, e)
LEMMA JoinShows ==
  ASSUME Groups!GroupsAssumption, NEW d \in AlbumType, NEW g \in Groups!GroupIds, NEW s, JoinsWith(d, g, s)
  PROVE  LET n == Groups!Joined(d, g, s)
             M == Groups!MembersOf(d, g)
         IN /\ Groups!MembersOf(n, g) = M \cup Groups!Picked(s)
            /\ Shows(d, g) \/ (M = {} /\ d.group[g].primary \in Groups!Picked(s)) => Shows(n, g)
<1>. DEFINE n == Groups!Joined(d, g, s)
            M == Groups!MembersOf(d, g)
            P == Groups!Picked(s)
            p == d.group[g].primary
            W(e) == NowWith(d, g, s, e)
<1>0. /\ P \in SUBSET Groups!Images /\ M \in SUBSET Groups!Images /\ Groups!Images \subseteq Nat \ {0} /\ g # Groups!NoGroup
      /\ \A e \in P : Groups!Live(d, e) /\ d.image[e].group = Groups!NoGroup
      /\ \A e \in P : e \in W(e) /\ W(e) \in SUBSET (M \cup P) /\ M \in SUBSET W(e)
  BY AlbumFields DEF JoinsWith, Groups!NoGroup
<1>1. /\ n \in AlbumType /\ n.made = d.made /\ n.group = d.group
      /\ \A e \in Groups!Images :
            /\ n.image[e].at = d.image[e].at
            /\ e \notin P => n.image[e] = d.image[e]
            /\ e \in P => n.image[e].group = g /\ (n.image[e].hidden <=> e # Groups!Serving(d, g, W(e)))
  BY <1>0, JoinedFields
<1>2. \A e \in P : e \notin M
  BY <1>0 DEF Groups!MembersOf
<1>. HIDE DEF n, P, W
<1>3. Groups!MembersOf(n, g) = M \cup P
  <2>1. \A e \in Groups!Images : n.image[e].group = g <=> e \in M \/ e \in P
    BY <1>0, <1>1 DEF Groups!MembersOf
  <2>. HIDE DEF M
  <2>. QED BY <1>0, <2>1 DEF Groups!MembersOf
<1>. HIDE DEF M
<1>4. ASSUME Shows(d, g) \/ (M = {} /\ p \in P) PROVE Shows(n, g)
  <2>1. p \in M \cup P /\ p \in Groups!Images /\ p # Groups!NoImage
    BY <1>0, <1>4 DEF Shows, M, Groups!NoImage
  <2>2. \A e \in Groups!Images : Groups!Live(n, e) <=> Groups!Live(d, e)
    BY <1>1 DEF Groups!Live
  <2>3. ASSUME NEW e \in M \cup P, Groups!Live(d, e), Groups!Live(d, p) PROVE n.image[e].hidden <=> e # p
    <3>1. CASE e \in M
      <4>1. d.image[e].hidden <=> e # p
        BY <1>4, <2>3, <3>1 DEF Shows, M
      <4>. QED BY <1>0, <1>1, <1>2, <3>1, <4>1
    <3>2. CASE e \in P
      <4>1. Groups!Serving(d, g, W(e)) = p
        BY <1>0, <2>1, <2>3, <3>2, ServingIs
      <4>. QED BY <1>0, <1>1, <3>2, <4>1
    <3>. QED BY <3>1, <3>2
  <2>4. ASSUME NEW e \in M \cup P, Groups!Live(d, e), ~Groups!Live(d, p), \A o \in M \cup P : Groups!Live(d, o) => e <= o PROVE ~n.image[e].hidden
    <3>1. CASE e \in M
      <4>1. p \in M /\ Shows(d, g)
        BY <1>0, <1>4, <2>4, <3>1 DEF Shows, M
      <4>2. ~d.image[e].hidden
        BY <2>4, <3>1, <4>1 DEF Shows, M
      <4>. QED BY <1>0, <1>1, <1>2, <3>1, <4>2
    <3>2. CASE e \in P
      <4>1. /\ W(e) \in SUBSET Groups!Images /\ e \in W(e) /\ W(e) \in SUBSET (M \cup P)
        BY <1>0, <3>2
      <4>2. LET v == Groups!Serving(d, g, W(e)) IN v \in W(e) /\ Groups!Live(d, v) /\ \A o \in W(e) : Groups!Live(d, o) => v <= o
        BY <2>4, <4>1, ServingIs
      <4>3. Groups!Serving(d, g, W(e)) = e
        <5>1. PICK v : v = Groups!Serving(d, g, W(e))
          OBVIOUS
        <5>2. v \in Nat /\ e \in Nat /\ v <= e /\ e <= v
          BY <1>0, <2>4, <4>1, <4>2, <5>1
        <5>. QED BY <5>1, <5>2
      <4>. QED BY <1>0, <1>1, <3>2, <4>3
    <3>. QED BY <3>1, <3>2
  <2>. QED BY <1>0, <1>1, <1>3, <2>1, <2>2, <2>3, <2>4 DEF Shows
<1>. QED BY <1>3, <1>4 DEF M, P, n

LEMMA AddStep ==
  ASSUME Groups!GroupsAssumption, GroupsHold, NEW g \in Groups!GroupIds, NEW s \in Groups!Selections, NEW admin, Groups!Candidates(s, admin),
         Groups!Exists(album, g), Groups!AddImageGroupMembers(g, s), UNCHANGED opened
  PROVE  GroupsHold'
<1>. DEFINE M == Groups!MembersOf(album, g)
            P == Groups!Picked(s)
            b == Groups!Bumped(album, g)
            n == Groups!Joined(b, g, s)
<1>0. /\ album \in AlbumType /\ M \in SUBSET Groups!Images /\ album.group[g].revision \in Nat /\ album.made \in Nat
      /\ Groups!Write(n) /\ Groups!Cardinality(M) + Len(s) <= MaxImageGroupSize /\ MaxImageGroupSize \in Nat
  BY GroupIs, AlbumFields DEF GroupsHold, Groups!AddImageGroupMembers, Groups!GroupsAssumption
<1>1. /\ b \in AlbumType /\ b.image = album.image /\ b.made = album.made
      /\ b.group[g].revision = album.group[g].revision + 1 /\ b.group[g].primary = album.group[g].primary
      /\ \A h \in Groups!GroupIds : h # g => b.group[h] = album.group[h]
  BY <1>0, BumpedFields
<1>. HIDE DEF b
<1>2. /\ Len(s) \in Nat /\ P \in SUBSET Groups!Images /\ IsFiniteSet(P) /\ Cardinality(P) = Len(s)
      /\ \A e \in P : Groups!Live(album, e) /\ album.image[e].group = Groups!NoGroup
      /\ \A e \in P : e \in NowWith(b, g, s, e) /\ NowWith(b, g, s, e) \in SUBSET (Groups!MembersOf(b, g) \cup P)
                     /\ Groups!MembersOf(b, g) \in SUBSET NowWith(b, g, s, e)
  BY <1>1, SelectionFields
<1>3. Groups!MembersOf(b, g) = M
  BY <1>1 DEF Groups!MembersOf
<1>4. JoinsWith(b, g, s)
  BY <1>1, <1>2 DEF JoinsWith, Groups!Live
<1>5. Groups!MembersOf(n, g) = M \cup P /\ (Shows(b, g) => Shows(n, g))
  BY <1>1, <1>3, <1>4, JoinShows
<1>6. /\ n \in AlbumType /\ n.made = b.made /\ n.group = b.group
      /\ \A e \in Groups!Images :
            /\ n.image[e].at = album.image[e].at
            /\ e \notin P => n.image[e] = album.image[e]
            /\ e \in P => n.image[e].group = g
  BY <1>1, <1>2, JoinedFields
<1>. HIDE DEF n, P, M
<1>7. /\ IsFiniteSet(M) /\ Cardinality(M) \in Nat /\ Cardinality(M) \in 2 .. MaxImageGroupSize /\ g <= album.made /\ g \in Nat /\ g # Groups!NoGroup
      /\ \A e \in M : album.image[e].at \in {"here", "missing"} /\ album.image[e].group = g
      /\ g \notin astray.groups => Shows(album, g)
      /\ Cardinality(M) + Len(s) <= MaxImageGroupSize
  BY <1>0, GroupIs DEF M, Groups!Cardinality, Cardinality
<1>8. Touches(album, n, g) /\ \A o \in Groups!Images : Strays(album, n, o)
  BY <1>0, <1>1, <1>2, <1>6, <1>7 DEF Touches, Strays
<1>9. Groups!Exists(n, g) /\ Follows(album, n, g)
  BY <1>0, <1>1, <1>6 DEF Groups!Exists, Follows
<1>10. Cardinality(M \cup P) \in 2 .. MaxImageGroupSize
  <2>1. IsFiniteSet(M \cup P) /\ Cardinality(M \cup P) \in Nat /\ Cardinality(M) <= Cardinality(M \cup P)
    BY <1>2, <1>7, FS_Union, FS_Subset, FS_CardinalityType
  <2>2. IsFiniteSet(M \cap P) /\ Cardinality(M \cap P) \in Nat
    BY <1>7, FS_Subset, FS_CardinalityType
  <2>3. Cardinality(M \cup P) = Cardinality(M) + Cardinality(P) - Cardinality(M \cap P)
    BY <1>2, <1>7, FS_Union
  <2>. QED BY <1>0, <1>2, <1>7, <2>1, <2>2, <2>3
<1>11. GroupHolds(n, g, Lost(album, n, g))
  <2>1. \A e \in M \cup P : n.image[e].at \in {"here", "missing"}
    BY <1>0, <1>2, <1>6, <1>7 DEF Groups!Live, M
  <2>2. ASSUME ~Lost(album, n, g) PROVE Shows(n, g)
    <3>1. g \notin astray.groups
      BY <1>1, <1>6, <2>2 DEF Lost
    <3>2. Shows(b, g)
      BY <1>1, <1>3, <1>7, <3>1 DEF Shows, M, Groups!Live
    <3>. QED BY <1>5, <3>2
  <2>. QED BY <1>0, <1>1, <1>5, <1>6, <1>7, <1>9, <1>10, <2>1, <2>2 DEF GroupHolds
<1>. QED BY <1>0, <1>8, <1>9, <1>11, GroupStep DEF n

LEMMA CreateStep ==
  ASSUME Groups!GroupsAssumption, GroupsHold, NEW s \in Groups!Selections, NEW p, NEW admin, Groups!CreateImageGroup(s, p, admin)
  PROVE  GroupsHold'
<1>. DEFINE g == album.made + 1
            r == [primary |-> p, revision |-> 1]
            k == [album.group EXCEPT ![g] = r]
            d == [album EXCEPT !.made = g, !.group = k]
            P == Groups!Picked(s)
            n == Groups!Joined(d, g, s)
<1>0. /\ album \in AlbumType /\ album.made \in Nat /\ g \in Groups!GroupIds /\ g \in 0 .. MaxGroups /\ p \in P /\ Len(s) >= 2 /\ Groups!Candidates(s, admin)
      /\ UNCHANGED opened /\ album.made <= g /\ g # Groups!NoGroup /\ MaxImageGroupSize \in Nat
  BY AlbumFields DEF GroupsHold, Groups!CreateImageGroup, Groups!GroupIds, Groups!NoGroup, Groups!GroupsAssumption
<1>1. Groups!Write(n)
  BY DEF Groups!CreateImageGroup
<1>2. /\ Len(s) \in Nat /\ P \in SUBSET Groups!Images /\ IsFiniteSet(P) /\ Cardinality(P) = Len(s) /\ Len(s) \in 1 .. MaxImageGroupSize
      /\ \A e \in P : Groups!Live(album, e) /\ album.image[e].group = Groups!NoGroup
  BY <1>0, SelectionFields
<1>. HIDE DEF g
<1>3. /\ d \in AlbumType /\ d.image = album.image /\ d.made = g /\ d.group[g].primary = p /\ d.group[g].revision = 1
      /\ \A h \in Groups!GroupIds : h # g => d.group[h] = album.group[h]
  <2>1. r \in [primary : {Groups!NoImage} \cup Groups!Images, revision : Nat] /\ r.primary = p /\ r.revision = 1
    BY <1>0, <1>2
  <2>. HIDE DEF r
  <2>2. k \in [Groups!GroupIds -> [primary : {Groups!NoImage} \cup Groups!Images, revision : Nat]] /\ k[g] = r
        /\ \A h \in Groups!GroupIds : h # g => k[h] = album.group[h]
    BY <1>0, <2>1, AlbumFields
  <2>. HIDE DEF k
  <2>3. d \in AlbumType /\ d.image = album.image /\ d.made = g /\ d.group = k
    BY <1>0, <2>2 DEF AlbumType
  <2>. QED BY <2>1, <2>2, <2>3
<1>. HIDE DEF d
<1>4. Groups!MembersOf(album, g) = {} /\ ~Groups!Exists(album, g) /\ ~(g <= album.made)
  BY <1>0, GroupIs DEF g
<1>5. Groups!MembersOf(d, g) = {}
  BY <1>3, <1>4 DEF Groups!MembersOf
<1>6. \A e \in P : e \in NowWith(d, g, s, e) /\ NowWith(d, g, s, e) \in SUBSET (Groups!MembersOf(d, g) \cup P)
                   /\ Groups!MembersOf(d, g) \in SUBSET NowWith(d, g, s, e)
  BY <1>0, <1>3, SelectionFields
<1>7. JoinsWith(d, g, s)
  BY <1>2, <1>3, <1>6 DEF JoinsWith, Groups!Live
<1>8. Groups!MembersOf(n, g) = P /\ Shows(n, g)
  <2>1. Groups!MembersOf(d, g) = {} /\ d.group[g].primary \in Groups!Picked(s)
    BY <1>0, <1>3, <1>5
  <2>2. /\ Groups!MembersOf(Groups!Joined(d, g, s), g) = Groups!MembersOf(d, g) \cup Groups!Picked(s)
        /\ Shows(Groups!Joined(d, g, s), g)
    BY <1>0, <1>3, <1>7, <2>1, JoinShows
  <2>. QED BY <2>1, <2>2
<1>9. /\ n \in AlbumType /\ n.made = d.made /\ n.group = d.group
      /\ \A e \in Groups!Images :
            /\ n.image[e].at = album.image[e].at
            /\ e \notin P => n.image[e] = album.image[e]
            /\ e \in P => n.image[e].group = g
  BY <1>0, <1>2, <1>3, JoinedFields
<1>. HIDE DEF n, P
<1>10. Touches(album, n, g) /\ Follows(album, n, g) /\ \A o \in Groups!Images : Strays(album, n, o)
  <2>1. Touches(album, n, g)
    BY <1>0, <1>2, <1>3, <1>9 DEF Touches
  <2>2. Follows(album, n, g)
    BY <1>4 DEF Follows
  <2>3. \A o \in Groups!Images : Strays(album, n, o)
    BY <1>0, <1>9 DEF Strays
  <2>. QED BY <2>1, <2>2, <2>3
<1>11. GroupHolds(n, g, Lost(album, n, g))
  <2>1. \A e \in P : n.image[e].at \in {"here", "missing"}
    BY <1>2, <1>9 DEF Groups!Live
  <2>2. Groups!Exists(n, g) /\ Cardinality(P) \in 2 .. MaxImageGroupSize /\ ~(g > n.made)
    BY <1>0, <1>2, <1>3, <1>9 DEF Groups!Exists
  <2>. QED BY <1>8, <2>1, <2>2 DEF GroupHolds
<1>. QED BY <1>0, <1>1, <1>10, <1>11, GroupStep

LEMMA ApplyStep ==
  ASSUME Groups!GroupsAssumption, GroupsHold, Groups!ApplyImageGroupAction
  PROVE  GroupsHold'
<1>1. PICK q \in Groups!Asked, admin \in BOOLEAN :
          /\ q[1] \in Groups!GroupIds /\ Groups!MayChange(q[1], q[2], admin) /\ UNCHANGED opened
          /\ \/ \E s \in Groups!Selections : Groups!Candidates(s, admin) /\ Groups!AddImageGroupMembers(q[1], s)
             \/ \E e \in Groups!Images : Groups!MakePrimary(q[1], e) \/ Groups!Remove(q[1], e)
             \/ Groups!Dissolve(q[1])
  BY DEF Groups!ApplyImageGroupAction
<1>2. Groups!Exists(album, q[1])
  BY <1>1 DEF Groups!MayChange
<1>3. CASE \E s \in Groups!Selections : Groups!Candidates(s, admin) /\ Groups!AddImageGroupMembers(q[1], s)
  BY <1>1, <1>2, <1>3, AddStep
<1>4. CASE \E e \in Groups!Images : Groups!MakePrimary(q[1], e) \/ Groups!Remove(q[1], e)
  BY <1>1, <1>4, MakePrimaryStep, RemoveStep
<1>5. CASE Groups!Dissolve(q[1])
  BY <1>1, <1>5, DissolveStep
<1>. QED BY <1>1, <1>3, <1>4, <1>5

LEMMA GroupsInit == ASSUME Groups!GroupsAssumption, Groups!Init PROVE GroupsHold
<1>1. /\ album = [image |-> [e \in Groups!Images |-> Groups!Unknown], group |-> [g \in Groups!GroupIds |-> Groups!Ended], made |-> 0]
      /\ opened = Groups!Closed /\ astray = [images |-> {}, groups |-> {}] /\ MaxGroups \in Nat
  BY DEF Groups!Init, Groups!GroupsAssumption
<1>2. Groups!Unknown \in Groups!Rows /\ Groups!Ended \in [primary : {Groups!NoImage} \cup Groups!Images, revision : Nat]
  BY DEF Groups!Unknown, Groups!Ended, Groups!Rows
<1>3. album \in AlbumType
  BY <1>1, <1>2 DEF AlbumType
<1>4. ASSUME NEW g \in Groups!GroupIds PROVE GroupHolds(album, g, g \in astray.groups)
  <2>1. ~Groups!Exists(album, g)
    BY <1>1 DEF Groups!Exists, Groups!Ended
  <2>2. g # Groups!NoGroup
    BY <1>3, AlbumFields DEF Groups!NoGroup
  <2>3. Groups!MembersOf(album, g) = {}
    BY <1>1, <2>2 DEF Groups!MembersOf, Groups!Unknown
  <2>. QED BY <2>1, <2>3 DEF GroupHolds
<1>5. \A e \in Groups!Images : ~album.image[e].hidden
  BY <1>1 DEF Groups!Unknown
<1>6. OpenedHolds(album, opened)
  BY <1>1 DEF OpenedHolds, Groups!Closed
<1>. QED BY <1>1, <1>3, <1>4, <1>5, <1>6 DEF GroupsHold

LEMMA GroupsNext == ASSUME Groups!GroupsAssumption, GroupsHold, [Groups!Next]_(Groups!groupVars) PROVE GroupsHold'
<1>1. CASE \E e \in Groups!Images : Groups!Find(e) \/ Groups!GoMissing(e) \/ Groups!Return(e) \/ Groups!Purge(e) \/ Groups!Move(e) \/ Groups!MarkPrivate(e)
  BY <1>1, ImageSteps, PurgeStep, MarkPrivateStep
<1>2. CASE \E g \in Groups!GroupIds, admin \in BOOLEAN : Groups!Open(g, admin)
  BY <1>2, OpenStep
<1>3. CASE \E s \in Groups!Selections, e \in Groups!Images, admin \in BOOLEAN : Groups!CreateImageGroup(s, e, admin)
  BY <1>3, CreateStep
<1>4. CASE Groups!ApplyImageGroupAction
  BY <1>4, ApplyStep
<1>5. CASE UNCHANGED Groups!groupVars
  <2>1. album' = album /\ opened' = opened /\ astray' = astray
    BY <1>5 DEF Groups!groupVars
  <2>. QED BY <2>1 DEF GroupsHold
<1>. QED BY <1>1, <1>2, <1>3, <1>4, <1>5 DEF Groups!Next

\* One image of each group is in the gallery, whatever its members do
\* (image_groups.go, image_groups_schema.go).
LEMMA GroupsAreShown == Groups!Spec => []Groups!GroupsInv
<1>1. ASSUME Groups!GroupsAssumption, GroupsHold PROVE Groups!GroupsInv
  <2>0. album \in AlbumType
    BY <1>1 DEF GroupsHold
  <2>1. Groups!TypeOK
    BY <1>1 DEF GroupsHold, AlbumType, OpenedHolds, Groups!TypeOK
  <2>2. Groups!GroupsAreWhole
    BY <1>1 DEF GroupsHold, GroupHolds, Groups!GroupsAreWhole, Groups!Cardinality, Cardinality
  <2>3. Groups!OpenedIsCurrent
    BY <1>1 DEF GroupsHold, OpenedHolds, Groups!OpenedIsCurrent
  <2>4. ASSUME NEW g \in Groups!GroupIds, Groups!Exists(album, g), g \notin astray.groups
        PROVE  LET p == album.group[g].primary
                   M == Groups!MembersOf(album, g)
                   shown == {e \in M : Groups!Live(album, e) /\ ~album.image[e].hidden}
               IN /\ \A e \in M : Groups!Live(album, e) => Groups!Serving(album, g, M) \in shown
                  /\ Groups!Live(album, p) => shown = {p}
    <3>. DEFINE p == album.group[g].primary
                M == Groups!MembersOf(album, g)
    <3>1. Shows(album, g) /\ M \in SUBSET Groups!Images /\ Groups!Images \subseteq Nat \ {0}
      BY <1>1, <2>0, <2>4, GroupIs, AlbumFields
    <3>2. /\ p \in M /\ p # Groups!NoImage
          /\ \A e \in M : Groups!Live(album, e) =>
                IF Groups!Live(album, p) THEN album.image[e].hidden <=> e # p
                ELSE (\A o \in M : Groups!Live(album, o) => e <= o) => ~album.image[e].hidden
      BY <3>1 DEF Shows, Groups!NoImage
    <3>3. /\ Groups!Live(album, p) => Groups!Serving(album, g, M) = p
          /\ ~Groups!Live(album, p) /\ (\E e \in M : Groups!Live(album, e)) =>
                LET v == Groups!Serving(album, g, M) IN v \in M /\ Groups!Live(album, v) /\ \A e \in M : Groups!Live(album, e) => v <= e
      BY <1>1, <2>0, <3>1, <3>2, ServingIs
    <3>. HIDE DEF p, M
    <3>4. ASSUME NEW e \in M, Groups!Live(album, e)
          PROVE  LET v == Groups!Serving(album, g, M) IN v \in M /\ Groups!Live(album, v) /\ ~album.image[v].hidden
      BY <3>2, <3>3, <3>4
    <3>5. Groups!Live(album, p) => {e \in M : Groups!Live(album, e) /\ ~album.image[e].hidden} = {p}
      BY <3>2
    <3>. QED BY <3>4, <3>5 DEF p, M
  <2>5. Groups!GroupsShowOne
    BY <1>1, <2>4 DEF GroupsHold, Groups!GroupsShowOne
  <2>. QED BY <2>1, <2>2, <2>3, <2>5 DEF Groups!GroupsInv
<1>. QED BY <1>1, GroupsInit, GroupsNext, GroupsInstance, PTL DEF Groups!Spec

\* In every gallery each group is shown by one image, and forms that are accepted
\* are about the group as it is (image_groups.go, image_groups_schema.go).
THEOREM ImagesAreShownAlways == Groups!Spec => []ImagesAreShown
<1>. QED BY GroupsAreShown, PTL DEF ImagesAreShown

\* On the map no request is answered with a route the index did not have, and none
\* reads on before what lies below a marker is private (route_cache.go,
\* map_visibility.go, faces_visibility.go).
THEOREM MapsAreTrueAlways == Routes!Spec /\ Visibility!Spec => []MapsAreTrue
<1>. QED BY RoutesAreTrue, MarkersAreSeen, PTL DEF MapsAreTrue

-----------------------------------------------------------------------------
(* PhotoQuery                                                               *)

MediaType == [Shots -> Search!Look \cup {NoLook}]
StatsType == [all : Nat, located : Nat, root : Nat, open : Nat]

\* A token has the terms its kind allows.
LEMMA TokenIs ==
  ASSUME NEW n \in Search!Token
  PROVE  /\ n.kind \in {"term", "some", "and", "or"} /\ n.terms \in Seq(Search!Term)
         /\ Search!Terms(n) \in SUBSET Search!Term
         /\ n.kind = "term" => n.terms[1] \in Search!Term /\ Search!Terms(n) = {n.terms[1]}
         /\ Search!Skip(n) => Search!Terms(n) = {}
<1>1. /\ n.kind \in {"term", "some", "and", "or"} /\ n.terms \in Seq(Search!Term)
      /\ n.kind = "term" => Len(n.terms) = 1
      /\ n.kind \in {"and", "or"} => n.terms = <<>>
  BY DEF Search!Token
<1>2. Search!Terms(n) \in SUBSET Search!Term
  BY <1>1 DEF Search!Terms
<1>3. n.kind = "term" => n.terms[1] \in Search!Term /\ Search!Terms(n) = {n.terms[1]}
  BY <1>1 DEF Search!Terms
<1>4. Search!Skip(n) => Search!Terms(n) = {}
  BY <1>1 DEF Search!Terms, Search!Skip
<1>. QED BY <1>1, <1>2, <1>3, <1>4

\* The groups of a query are of its tokens; there is one, which has all of them, if
\* no token is an OR.
LEMMA QueryIs ==
  ASSUME Search!QueryAssumption, NEW q \in Queries
  PROVE  /\ \A i \in DOMAIN q : q[i] \in Search!Token /\ Search!Terms(q[i]) \in SUBSET Search!TermsOf(q)
         /\ Search!TermsOf(q) \in SUBSET Search!Term
         /\ Search!Groups(q) # {} /\ \A g \in Search!Groups(q) : g \in SUBSET DOMAIN q
         /\ ~Search!HasOr(q) => Search!Groups(q) = {DOMAIN q}
         /\ \A g \in SUBSET DOMAIN q : Search!PlainTerms(q, g) \in SUBSET Search!TermsOf(q)
         /\ q = <<>> => DOMAIN q = {} /\ ~Search!HasOr(q) /\ Search!TermsOf(q) = {}
<1>1. q \in Seq(Search!Token)
  BY DEF Search!QueryAssumption
<1>2. \A i \in DOMAIN q : q[i] \in Search!Token /\ Search!Terms(q[i]) \in SUBSET Search!TermsOf(q)
  BY <1>1 DEF Search!TermsOf
<1>3. Search!TermsOf(q) \in SUBSET Search!Term
  BY <1>2, TokenIs DEF Search!TermsOf
<1>4. Search!Ors(q) \in SUBSET DOMAIN q /\ \A i : Search!Around(q, i) \in SUBSET DOMAIN q
  BY DEF Search!Ors, Search!Around
<1>5. Search!Groups(q) # {} /\ \A g \in Search!Groups(q) : g \in SUBSET DOMAIN q
  BY <1>4 DEF Search!Groups
<1>6. ASSUME ~Search!HasOr(q) PROVE Search!Groups(q) = {DOMAIN q}
  <2>1. Search!Ors(q) = {}
    BY <1>6 DEF Search!HasOr
  <2>2. \A i \in DOMAIN q : Search!Around(q, i) = DOMAIN q
    BY <2>1 DEF Search!Around
  <2>. QED BY <2>1, <2>2 DEF Search!Groups
<1>7. \A g \in SUBSET DOMAIN q : Search!PlainTerms(q, g) \in SUBSET Search!TermsOf(q)
  BY <1>2 DEF Search!PlainTerms
<1>8. q = <<>> => DOMAIN q = {} /\ ~Search!HasOr(q) /\ Search!TermsOf(q) = {}
  BY DEF Search!HasOr, Search!Ors, Search!TermsOf
<1>. QED BY <1>2, <1>3, <1>5, <1>6, <1>7, <1>8

LEMMA LookFields ==
  ASSUME NEW r \in Search!Look
  PROVE  /\ r.says \in [Search!Places -> SUBSET Words]
         /\ r.located \in BOOLEAN /\ r.private \in BOOLEAN /\ r.grouped \in BOOLEAN /\ r.root \in BOOLEAN
BY DEF Search!Look

LEMMA TermFields ==
  ASSUME NEW t \in Search!Term
  PROVE  /\ t.field \in {"name", "tag", "person", "gps", "camera", "text"}
         /\ t.word \in Words /\ t.negated \in BOOLEAN
BY DEF Search!Term

\* Whether a term matches: what is tested of a position, of a person and of words.
LEMMA TermIs ==
  ASSUME NEW r \in Search!Look, NEW t \in Search!Term, NEW added
  PROVE  /\ Search!TermMatches(r, t, added) \in BOOLEAN
         /\ t.field = "text" => (Search!TermMatches(r, t, added) <=> t.word \in Search!Text(r) \cup added)
         /\ t.field \notin {"gps", "person"} => (Search!TermMatches(r, t, {}) => t.word \in Search!Text(r))
         /\ t.field # "text" => (Search!TermMatches(r, t, added) <=> Search!TermMatches(r, t, {}))
         /\ Search!SqlHolds(r, t) <=> (Search!TermMatches(r, t, {}) # t.negated)
<1>1. \A x \in {"name", "camera", "tag", "xmp"} : r.says[x] \subseteq Search!Text(r)
  BY DEF Search!Text
<1>2. t.field = "gps" => Search!TermMatches(r, t, added) = r.located
  BY DEF Search!TermMatches
<1>3. t.field = "person" => Search!TermMatches(r, t, added) = (t.word \in r.says["xmp"] \cup r.says["seen"])
  BY DEF Search!TermMatches
<1>4. t.field = "text" => Search!TermMatches(r, t, added) = (t.word \in Search!Text(r) \cup added)
  BY DEF Search!TermMatches
<1>5. t.field \in {"name", "tag", "camera"} => Search!TermMatches(r, t, added) = (t.word \in r.says[t.field])
  BY DEF Search!TermMatches
<1>6. t.field # "text" => Search!TermMatches(r, t, added) = Search!TermMatches(r, t, {})
  BY DEF Search!TermMatches
<1>7. t.field = "text" => Search!TermMatches(r, t, {}) = (t.word \in Search!Text(r))
  BY DEF Search!TermMatches
<1>8. Search!TermMatches(r, t, added) \in BOOLEAN
  <2>1. CASE t.field = "gps"
    BY <1>2, <2>1, LookFields
  <2>2. /\ (t.word \in r.says["xmp"] \cup r.says["seen"]) \in BOOLEAN /\ (t.word \in Search!Text(r) \cup added) \in BOOLEAN
        /\ (t.word \in r.says[t.field]) \in BOOLEAN
    OBVIOUS
  <2>3. CASE t.field = "person"
    BY <1>3, <2>2, <2>3
  <2>4. CASE t.field = "text"
    BY <1>4, <2>2, <2>4
  <2>5. CASE t.field \in {"name", "tag", "camera"}
    BY <1>5, <2>2, <2>5
  <2>. QED BY <2>1, <2>3, <2>4, <2>5, TermFields
<1>9. t.field \notin {"gps", "person"} => (Search!TermMatches(r, t, {}) => t.word \in Search!Text(r))
  BY <1>1, <1>5, <1>6, <1>7, TermFields
<1>10. Search!SqlHolds(r, t) <=> (Search!TermMatches(r, t, {}) # t.negated)
  BY DEF Search!SqlHolds
<1>. QED BY <1>4, <1>6, <1>8, <1>9, <1>10


\* In SQL a term holds if it matches and is not negated; so does a 2-of without
\* negated terms.
LEMMA NodesAgree ==
  ASSUME Search!QueryAssumption, NEW q \in Queries, NEW r \in Search!Look, ~Search!SomeOf(q), NEW i \in DOMAIN q
  PROVE  Search!NodeInSql(r, q[i]) <=> Search!NodeMatches(r, q[i], {})
<1>. DEFINE n == q[i]
<1>1. n.terms \in Seq(Search!Term) /\ Search!Terms(n) \in SUBSET Search!Term
  BY QueryIs, TokenIs
<1>2. \A t \in Search!Terms(n) : Search!SqlHolds(r, t) <=> (Search!TermMatches(r, t, {}) # t.negated)
  BY <1>1, TermIs
<1>3. ASSUME n.kind = "some" PROVE {j \in DOMAIN n.terms : Search!SqlHolds(r, n.terms[j])} = {j \in DOMAIN n.terms : Search!TermMatches(r, n.terms[j], {})}
  <2>1. \A j \in DOMAIN n.terms : n.terms[j] \in Search!Terms(n)
    BY DEF Search!Terms
  <2>2. \A t \in Search!Terms(n) : t.negated = FALSE /\ Search!TermMatches(r, t, {}) \in BOOLEAN
    BY <1>1, <1>3, TermFields, TermIs DEF Search!SomeOf
  <2>. QED BY <1>2, <2>1, <2>2
<1>. HIDE DEF n
<1>4. Search!NodeInSql(r, n) <=> Search!NodeMatches(r, n, {})
  BY <1>2, <1>3 DEF Search!NodeInSql, Search!NodeMatches
<1>. QED BY <1>4 DEF n

LEMMA ExpressionMatches ==
  ASSUME Search!QueryAssumption, NEW q \in Queries, NEW r \in Search!Look, ~Search!SomeOf(q)
  PROVE  Search!ExpressionHolds(r, q) <=> Search!Matches(r, q)
BY NodesAgree, QueryIs DEF Search!ExpressionHolds, Search!Matches, Search!MatchesWith

\* Without persons, the filter keeps what matches.
LEMMA FilterMatches ==
  ASSUME NEW q, NEW r, ~Search!Mixed(q), ~Search!ByExpression(q)
  PROVE  ~Search!HasPerson(q) /\ (Search!RowMatches(r, q) <=> Search!Matches(r, q))
BY DEF Search!Mixed, Search!RowMatches, Search!Matches

\* A term of SQL narrows to what it matches; one of the full text to what has its word.
LEMMA NarrowsIs ==
  ASSUME NEW r \in Search!Look, NEW t \in Search!Term
  PROVE  /\ Search!CanUseSql(t) => (Search!TermNarrows(r, t) <=> (Search!TermMatches(r, t, {}) # t.negated))
         /\ ~Search!CanUseSql(t) /\ Search!FullText(t) => (Search!TermNarrows(r, t) <=> t.word \in Search!Text(r))
         /\ (Search!TermMatches(r, t, {}) # t.negated) => Search!TermNarrows(r, t)
<1>1. Search!CanUseSql(t) => (Search!TermNarrows(r, t) <=> (Search!TermMatches(r, t, {}) # t.negated))
  BY TermIs DEF Search!TermNarrows
<1>2. ~Search!CanUseSql(t) => (Search!TermNarrows(r, t) <=> (Search!FullText(t) => t.word \in Search!Text(r)))
  BY DEF Search!TermNarrows
<1>3. ~Search!CanUseSql(t) /\ Search!FullText(t) /\ (Search!TermMatches(r, t, {}) # t.negated) => t.word \in Search!Text(r)
  BY TermIs, TermFields DEF Search!CanUseSql, Search!FullText
<1>. QED BY <1>1, <1>2, <1>3

LEMMA MatchIsFound ==
  ASSUME Search!QueryAssumption, NEW q \in Queries, q # <<>>, NEW r \in Search!Look,
         ~Search!Mixed(q), ~Search!SomeOf(q), Search!Matches(r, q)
  PROVE  Search!Found(r, q)
<1>1. CASE Search!ByExpression(q)
  BY <1>1, ExpressionMatches DEF Search!Found, Search!Candidate, Search!PostFilter
<1>2. CASE ~Search!ByExpression(q)
  <2>1. ~Search!HasPerson(q) /\ (Search!PostFilter(q) => Search!RowMatches(r, q))
    BY <1>2, FilterMatches
  <2>2. PICK g \in Search!Groups(q) : \A i \in g : Search!NodeMatches(r, q[i], {})
    BY DEF Search!Matches, Search!MatchesWith
  <2>3. g \in SUBSET DOMAIN q
    BY QueryIs
  <2>4. ASSUME NEW t \in Search!PlainTerms(q, g)
        PROVE  /\ t \in Search!Term /\ t.field # "person" /\ (Search!TermMatches(r, t, {}) # t.negated)
               /\ Search!FullText(t) /\ t.field # "gps" => t.word \in Search!Text(r)
    <3>1. t \in Search!Term /\ t.field # "person"
      BY <2>1, <2>3, QueryIs DEF Search!HasPerson
    <3>2. Search!TermMatches(r, t, {}) # t.negated
      BY <2>2 DEF Search!PlainTerms, Search!NodeMatches
    <3>. QED BY <3>1, <3>2, TermIs, TermFields DEF Search!FullText
  <2>5. CASE Search!HasOr(q)
    <3>1. Search!OrCandidate(r, q)
      BY <2>4 DEF Search!OrCandidate, Search!OrTerms
    <3>. QED BY <1>2, <2>1, <2>5, <3>1 DEF Search!Found, Search!Candidate
  <2>6. CASE ~Search!HasOr(q)
    <3>1. g = DOMAIN q
      BY <2>6, QueryIs
    <3>2. Search!AndCandidate(r, q)
      BY <2>4, <3>1, NarrowsIs DEF Search!AndCandidate
    <3>. QED BY <1>2, <2>1, <2>6, <3>2 DEF Search!Found, Search!Candidate
  <2>. QED BY <2>5, <2>6
<1>. QED BY <1>1, <1>2

LEMMA FoundIsMatch ==
  ASSUME Search!QueryAssumption, NEW q \in Queries, NEW r \in Search!Look,
         ~Search!Mixed(q), ~Search!SomeOf(q), ~Search!Coarse(q), Search!Found(r, q)
  PROVE  Search!Matches(r, q)
<1>1. CASE q = <<>>
  <2>1. Search!Groups(q) = {{}}
    BY <1>1, QueryIs
  <2>. QED BY <2>1 DEF Search!Matches, Search!MatchesWith
<1>2. CASE q # <<>> /\ Search!ByExpression(q)
  BY <1>2, ExpressionMatches DEF Search!Found, Search!Candidate
<1>3. CASE q # <<>> /\ ~Search!ByExpression(q) /\ Search!PostFilter(q)
  BY <1>3, FilterMatches DEF Search!Found
<1>4. CASE q # <<>> /\ ~Search!ByExpression(q) /\ ~Search!PostFilter(q)
  <2>1. ~Search!HasOr(q) /\ ~Search!LeavesWork(q) /\ Search!Groups(q) = {DOMAIN q}
    BY <1>4, QueryIs DEF Search!PostFilter
  <2>2. Search!AndCandidate(r, q)
    BY <1>4, <2>1 DEF Search!Found, Search!Candidate
  <2>3. ASSUME NEW i \in DOMAIN q PROVE Search!NodeMatches(r, q[i], {})
    <3>1. q[i].kind # "some"
      BY <2>1 DEF Search!LeavesWork
    <3>2. ASSUME q[i].kind = "term", NEW t \in Search!Terms(q[i]) PROVE Search!TermMatches(r, t, {}) # t.negated
      <4>1. t \in Search!Term /\ t \in Search!TermsOf(q) /\ t \in Search!PlainTerms(q, DOMAIN q)
        BY <3>2, QueryIs DEF Search!PlainTerms
      <4>2. Search!TermNarrows(r, t) /\ (Search!CanUseSql(t) \/ Search!FullText(t))
        BY <2>1, <2>2, <4>1 DEF Search!AndCandidate, Search!LeavesWork
      <4>3. CASE Search!CanUseSql(t)
        BY <4>1, <4>2, <4>3, NarrowsIs
      <4>4. CASE ~Search!CanUseSql(t)
        <5>1. t.field \in {"camera", "text"} /\ ~t.negated /\ t.word \in Search!Text(r)
          BY <4>1, <4>2, <4>4, NarrowsIs, TermFields DEF Search!CanUseSql, Search!FullText
        <5>2. t.field = "text"
          BY <2>1, <4>1, <5>1 DEF Search!Coarse
        <5>. QED BY <4>1, <5>1, <5>2, TermIs, TermFields
      <4>. QED BY <4>3, <4>4
    <3>. QED BY <3>1, <3>2 DEF Search!NodeMatches
  <2>. QED BY <2>1, <2>3 DEF Search!Matches, Search!MatchesWith
<1>. QED BY <1>2, <1>1, <1>3, <1>4

\* What is asked of a post or folder is in its text, where its name and tags are too.
LEMMA EntryIs ==
  ASSUME NEW e \in Search!Entry, NEW t \in Search!Term
  PROVE  /\ t.word \in Search!EntrySays(e, t) => t.word \in Search!EntryText(e)
         /\ t.field \in {"name", "tag"} => Search!EntrySays(e, t) = e.says[t.field]
<1>1. \A x \in Search!EntryPlaces : e.says[x] \subseteq Search!EntryText(e)
  BY DEF Search!EntryText
<1>2. t.field \in {"name", "tag"} => Search!EntrySays(e, t) = e.says[t.field]
  BY DEF Search!EntrySays
<1>3. t.field \notin {"name", "tag"} => Search!EntrySays(e, t) = Search!EntryText(e)
  BY DEF Search!EntrySays
<1>. QED BY <1>1, <1>2, <1>3 DEF Search!EntryPlaces

LEMMA EntryIsFound ==
  ASSUME Search!QueryAssumption, NEW q \in Queries, NEW e \in Entries, Search!PlainlyAsked(e, q), Search!EntryMatches(e, q)
  PROVE  Search!EntryFound(e, q)
<1>0. e \in Search!Entry
  BY DEF Search!QueryAssumption
<1>1. PICK g \in Search!Groups(q) : \A i \in g : \A t \in Search!Terms(q[i]) : (t.word \in Search!EntrySays(e, t)) # t.negated
  BY DEF Search!EntryMatches
<1>2. ASSUME ~Search!HasOr(q) PROVE Search!EntryCandidate(e, q)
  <2>1. g = DOMAIN q
    BY <1>2, QueryIs
  <2>2. ASSUME NEW t \in Search!PlainTerms(q, DOMAIN q)
        PROVE  /\ t \in Search!Term /\ t \in Search!TermsOf(q) /\ (t.word \in Search!EntrySays(e, t)) # t.negated
               /\ t.negated \in BOOLEAN
               /\ t.field \in {"name", "person", "gps"} => ~t.negated /\ t.word \notin Short
    <3>1. t \in Search!TermsOf(q) /\ t \in Search!Term
      BY QueryIs
    <3>2. (t.word \in Search!EntrySays(e, t)) # t.negated
      BY <1>1, <2>1 DEF Search!PlainTerms
    <3>. QED BY <3>1, <3>2, TermFields DEF Search!PlainlyAsked
  <2>3. ASSUME NEW t \in Search!Texts(q) PROVE t.word \in Search!EntryText(e)
    <3>1. t \in Search!PlainTerms(q, DOMAIN q) /\ ~t.negated
      BY DEF Search!Texts, Search!FullText
    <3>. QED BY <1>0, <2>2, <3>1, EntryIs
  <2>4. ASSUME NEW t \in Search!LookedUp(e, q) PROVE t.word \in Search!EntryText(e) /\ t.word \notin Short
    <3>1. t \in Search!PlainTerms(q, DOMAIN q) /\ t.field \in {"name", "person", "gps"}
      <4>1. t \in Search!PlainTerms(q, DOMAIN q) /\ Search!CanUseSql(t) /\ t.field # "tag"
        BY DEF Search!LookedUp, Search!Compares
      <4>. QED BY <2>2, <4>1, TermFields DEF Search!CanUseSql
    <3>. QED BY <1>0, <2>2, <3>1, EntryIs
  <2>5. Search!TextNarrows(e, q)
    BY <2>3, <2>4 DEF Search!TextNarrows
  <2>6. ASSUME NEW t \in Search!PlainTerms(q, DOMAIN q), t.field \in Search!Compares(e)
        PROVE  (t.word \in e.says[t.field]) # (t.negated /\ t.field = "tag")
    <3>1. t.field \in {"tag", "name"}
      BY <2>6 DEF Search!Compares
    <3>2. (t.word \in e.says[t.field]) # t.negated
      BY <1>0, <2>2, <3>1, EntryIs
    <3>. QED BY <2>2, <3>1, <3>2
  <2>7. \A t \in Search!PlainTerms(q, DOMAIN q) :
           t.field \in Search!Compares(e) => (t.word \in e.says[t.field]) # (t.negated /\ t.field = "tag")
    BY <2>6
  <2>. QED BY ONLY <2>5, <2>7 DEF Search!EntryCandidate
<1>3. Search!EntryCandidate(e, q)
  BY <1>2 DEF Search!EntryCandidate
<1>. QED BY <1>3 DEF Search!EntryFound, Search!PlainlyAsked
LEMMA SameCount == \A S : Search!Cardinality(S) = Cardinality(S)
BY DEF Search!Cardinality, Cardinality

LEMMA PageIs ==
  ASSUME NEW S, NEW k
  PROVE  Search!PageOf(S, k) = {p \in S : Cardinality(Below(S, p)) \in Search!Offset(k) .. Search!Offset(k) + PageSize - 1}
BY SameCount DEF Search!PageOf, Below

\* Of the first rows, as many as up to a page and the ones to leave out, those
\* that are not left out have the page.
LEMMA FirstHasPage ==
  ASSUME NEW S, S \subseteq Nat, IsFiniteSet(S), NEW E, IsFiniteSet(E), NEW hi \in Nat
  PROVE  LET F == FirstOf(S, hi + Cardinality(E)) \ E
             T == S \ E
         IN /\ F \in SUBSET T
            /\ \A p \in F : Below(F, p) = Below(T, p)
            /\ \A p \in T : Cardinality(Below(T, p)) < hi => p \in F
<1>. DEFINE m == hi + Cardinality(E)
            F == FirstOf(S, m) \ E
            T == S \ E
<1>0. Cardinality(E) \in Nat /\ m \in Nat /\ F \in SUBSET T /\ T \in SUBSET S
  BY FS_CardinalityType DEF FirstOf
<1>1. ASSUME NEW p \in F PROVE Below(F, p) = Below(T, p)
  <2>1. p \in Nat /\ Cardinality(Below(S, p)) < m
    BY DEF FirstOf
  <2>2. ASSUME NEW o \in T, o < p PROVE o \in F
    <3>1. o \in S /\ o \in Nat /\ o <= p /\ o \notin E
      BY <2>1, <2>2
    <3>2. Cardinality(Below(S, o)) <= Cardinality(Below(S, p)) /\ Cardinality(Below(S, o)) \in Nat /\ Cardinality(Below(S, p)) \in Nat
      BY <2>1, <3>1, BelowIsFinite
    <3>. QED BY <1>0, <2>1, <3>1, <3>2 DEF FirstOf
  <2>. HIDE DEF F, T
  <2>. QED BY <1>0, <2>2 DEF Below
<1>2. ASSUME NEW p \in T, Cardinality(Below(T, p)) < hi PROVE p \in F
  <2>1. p \in Nat /\ Below(S, p) \in SUBSET (Below(T, p) \cup E)
    BY DEF Below
  <2>2. IsFiniteSet(T) /\ T \subseteq Nat
    BY <1>0, FS_Subset
  <2>3. IsFiniteSet(Below(T, p)) /\ Cardinality(Below(T, p)) \in Nat /\ Cardinality(Below(S, p)) \in Nat
    BY <2>1, <2>2, BelowIsFinite
  <2>. DEFINE A == Below(T, p)
  <2>. HIDE DEF A, T
  <2>4. IsFiniteSet(A \cup E) /\ Cardinality(A \cup E) = Cardinality(A) + Cardinality(E) - Cardinality(A \cap E)
    BY <2>3, FS_Union DEF A
  <2>5. Cardinality(A \cap E) \in Nat /\ Cardinality(A \cup E) \in Nat
    BY <2>3, <2>4, FS_Intersection, FS_CardinalityType DEF A
  <2>6. Cardinality(Below(S, p)) <= Cardinality(A \cup E)
    BY <2>1, <2>4, FS_Subset DEF A
  <2>. QED BY <1>0, <1>2, <2>3, <2>4, <2>5, <2>6 DEF A, T, FirstOf
<1>. QED BY <1>0, <1>1, <1>2

LEMMA Counting ==
  ASSUME NEW k \in Nat \ {0}, Search!QueryAssumption
  PROVE  /\ k * PageSize \in Nat \ {0} /\ PageSize \in Nat \ {0}
         /\ Search!Offset(k) \in Nat /\ Search!Offset(k) + PageSize = k * PageSize
         /\ \A n \in Nat \ {0} : k <= (n - 1) \div PageSize <=> k * PageSize < n
<1>1. PageSize \in Nat \ {0}
  BY DEF Search!QueryAssumption
<1>2. k * PageSize \in Nat \ {0} /\ (k - 1) * PageSize \in Nat /\ (k - 1) * PageSize + PageSize = k * PageSize
  BY <1>1
<1>3. ASSUME NEW n \in Nat \ {0} PROVE k <= (n - 1) \div PageSize <=> k * PageSize < n
  <2>. DEFINE d == (n - 1) \div PageSize
              e == (n - 1) % PageSize
  <2>1. d \in Nat /\ e \in Nat /\ e < PageSize /\ n - 1 = d * PageSize + e
    BY <1>1
  <2>2. CASE k <= d
    <3>1. k * PageSize <= d * PageSize
      BY <1>1, <2>1, <2>2
    <3>. QED BY <1>1, <1>2, <2>1, <2>2, <3>1
  <2>3. CASE d < k
    <3>1. (d + 1) * PageSize <= k * PageSize /\ (d + 1) * PageSize = d * PageSize + PageSize /\ d * PageSize \in Nat
      BY <1>1, <2>1, <2>3
    <3>. HIDE DEF d, e
    <3>. QED BY <1>1, <1>2, <2>1, <2>3, <3>1 DEF d
  <2>. QED BY <2>1, <2>2, <2>3
<1>. QED BY <1>1, <1>2, <1>3 DEF Search!Offset

\* There is a next page if a row has as many before it as this page and the earlier ones take.
LEMMA NextPage ==
  ASSUME Search!QueryAssumption, NEW S, S \subseteq Nat, IsFiniteSet(S), NEW k \in Nat \ {0}
  PROVE  Search!HasNext(k, Cardinality(S)) <=> \E p \in S : Search!Cardinality({o \in S : o < p}) >= k * PageSize
<1>0. /\ Cardinality(S) \in Nat /\ k * PageSize \in Nat \ {0}
      /\ Search!HasNext(k, Cardinality(S)) <=> k * PageSize < Cardinality(S)
  <2>1. Cardinality(S) \in Nat
    BY FS_CardinalityType
  <2>2. k * PageSize \in Nat \ {0}
    BY Counting
  <2>3. CASE Cardinality(S) = 0
    BY <2>1, <2>2, <2>3 DEF Search!HasNext
  <2>4. CASE Cardinality(S) # 0
    BY <2>1, <2>2, <2>4, Counting DEF Search!HasNext
  <2>. QED BY <2>1, <2>2, <2>3, <2>4
<1>1. ASSUME NEW p \in S PROVE Cardinality(Below(S, p)) \in Nat /\ Cardinality(Below(S, p)) < Cardinality(S)
  <2>1. p \in Nat /\ IsFiniteSet(S \ {p}) /\ Cardinality(S \ {p}) = Cardinality(S) - 1 /\ Below(S, p) \in SUBSET (S \ {p})
    <3>1. IsFiniteSet(S \ {p}) /\ Cardinality(S \ {p}) = Cardinality(S) - 1
      BY FS_RemoveElement
    <3>2. p \in Nat /\ Below(S, p) \in SUBSET (S \ {p})
      <4>1. \A x \in Below(S, p) : x \in S /\ x # p
        BY DEF Below
      <4>2. QED BY <4>1
    <3>. QED BY <3>1, <3>2
  <2>2. Cardinality(Below(S, p)) \in Nat
    BY <2>1, BelowIsFinite
  <2>. QED BY <1>0, <2>1, <2>2, FS_Subset
<1>2. ASSUME k * PageSize < Cardinality(S) PROVE \E p \in S : Cardinality(Below(S, p)) >= k * PageSize
  <2>1. S # {}
    BY <1>0, <1>2, FS_EmptySet
  <2>2. PICK p \in S : \A o \in S : p >= o
    BY <2>1, GreatestNumber
  <2>3. Below(S, p) = S \ {p}
    <3>1. \A o \in S : o < p <=> o # p
      BY <2>2
    <3>. QED BY <3>1 DEF Below
  <2>4. Cardinality(S \ {p}) = Cardinality(S) - 1
    BY FS_RemoveElement
  <2>. QED BY <1>0, <1>2, <2>3, <2>4
<1>3. \A p : Search!Cardinality({o \in S : o < p}) = Cardinality(Below(S, p))
  BY SameCount DEF Below
<1>4. ASSUME NEW p \in S, Cardinality(Below(S, p)) >= k * PageSize PROVE k * PageSize < Cardinality(S)
  BY <1>0, <1>1, <1>4
<1>5. k * PageSize < Cardinality(S) <=> \E p \in S : Cardinality(Below(S, p)) >= k * PageSize
  BY <1>2, <1>4
<1>6. (\E p \in S : Cardinality(Below(S, p)) >= k * PageSize) <=> \E p \in S : Search!Cardinality({o \in S : o < p}) >= k * PageSize
  BY <1>3
<1>. QED BY <1>0, <1>5, <1>6

-----------------------------------------------------------------------------
(* Totals                                                                   *)

LEMMA RowsOf ==
  ASSUME Search!QueryAssumption, NEW m \in MediaType
  PROVE  /\ Search!Rows(m) \in SUBSET Shots /\ IsFiniteSet(Search!Rows(m)) /\ Search!Rows(m) \subseteq Nat
         /\ \A p \in Search!Rows(m) : m[p] \in Search!Look
         /\ \A q, admin : /\ Search!Search(m, q, admin) \in SUBSET Search!Rows(m)
                          /\ IsFiniteSet(Search!Search(m, q, admin))
<1>1. IsFiniteSet(Shots) /\ Shots \subseteq Nat
  BY DEF Search!QueryAssumption, Search!IsFiniteSet, IsFiniteSet
<1>2. Search!Rows(m) \in SUBSET Shots /\ \A p \in Search!Rows(m) : m[p] \in Search!Look
  BY DEF Search!Rows, MediaType
<1>3. \A q, admin : Search!Search(m, q, admin) \in SUBSET Search!Rows(m)
  BY DEF Search!Search
<1>4. IsFiniteSet(Search!Rows(m))
  BY <1>1, <1>2, FS_Subset
<1>5. \A q, admin : IsFiniteSet(Search!Search(m, q, admin))
  BY <1>3, <1>4, FS_Subset
<1>. QED BY <1>1, <1>2, <1>3, <1>4, <1>5

\* A count less the part of it that is in a group.
LEMMA CountLess ==
  ASSUME NEW S, IsFiniteSet(S), NEW G \in SUBSET S
  PROVE  Search!Less(Cardinality(S), Cardinality(G)) = Cardinality(S \ G)
<1>1. S \cap G = G
  OBVIOUS
<1>2. Cardinality(S \ G) = Cardinality(S) - Cardinality(G) /\ IsFiniteSet(S \ G)
  BY <1>1, FS_Difference
<1>3. Cardinality(S \ G) \in Nat /\ Cardinality(S) \in Nat /\ Cardinality(G) \in Nat
  BY <1>2, FS_Subset, FS_CardinalityType
<1>. QED BY <1>2, <1>3 DEF Search!Less

\* A query of one term, which is one of SQL, and is not filtered.
LoneOf(q, t, field, negated) ==
    /\ t.field = field /\ t.negated = negated /\ Search!TermsOf(q) = {t} /\ q # <<>>
    /\ \A r \in Search!Look : /\ Search!Candidate(r, q) <=> (Search!TermMatches(r, t, {}) # negated)
                              /\ Search!Found(r, q) <=> (Search!TermMatches(r, t, {}) # negated)
LEMMA LoneIs ==
  ASSUME Search!QueryAssumption, NEW q \in Queries, NEW field \in {"tag", "gps"}, NEW negated, Search!Lone(q, field, negated)
  PROVE  \E t \in Search!Term : LoneOf(q, t, field, negated)
<1>1. PICK i \in DOMAIN q : /\ q[i].kind = "term" /\ q[i].terms[1].field = field /\ q[i].terms[1].negated = negated
                           /\ \A j \in DOMAIN q \ {i} : Search!Skip(q[j])
  BY DEF Search!Lone
<1>2. ~Search!HasOr(q)
  BY DEF Search!Lone
<1>3. PICK t \in Search!Term : t = q[i].terms[1] /\ Search!Terms(q[i]) = {t}
  BY <1>1, QueryIs, TokenIs
<1>4. \A j \in DOMAIN q \ {i} : Search!Terms(q[j]) = {} /\ q[j].kind \notin {"term", "some"}
  BY <1>1, QueryIs, TokenIs DEF Search!Skip
<1>5. Search!TermsOf(q) = {t} /\ Search!PlainTerms(q, DOMAIN q) = {t} /\ \A j \in DOMAIN q : q[j].kind # "some"
  BY <1>1, <1>3, <1>4 DEF Search!TermsOf, Search!PlainTerms
<1>6. ~Search!HasPerson(q) /\ ~Search!ByExpression(q) /\ Search!CanUseSql(t) /\ q # <<>>
  <2>1. t.field \in {"tag", "gps"}
    BY <1>1, <1>3
  <2>. QED BY <1>5, <2>1 DEF Search!HasPerson, Search!ByExpression, Search!CanUseSql
<1>7. ~Search!PostFilter(q)
  BY <1>2, <1>5, <1>6 DEF Search!PostFilter, Search!LeavesWork
<1>8. ASSUME NEW r \in Search!Look
      PROVE  /\ Search!Candidate(r, q) <=> (Search!TermMatches(r, t, {}) # negated)
             /\ Search!Found(r, q) <=> (Search!TermMatches(r, t, {}) # negated)
  <2>1. Search!AndCandidate(r, q) <=> (Search!TermMatches(r, t, {}) # t.negated)
    BY <1>5, <1>6, NarrowsIs DEF Search!AndCandidate
  <2>2. Search!Candidate(r, q) <=> Search!AndCandidate(r, q)
    BY <1>2, <1>6 DEF Search!Candidate
  <2>. QED BY <1>1, <1>3, <1>7, <2>1, <2>2 DEF Search!Found
<1>. QED BY <1>1, <1>3, <1>5, <1>6, <1>8 DEF LoneOf

LEMMA GroupedIs ==
  ASSUME Search!QueryAssumption, NEW m \in MediaType, NEW q \in Queries, NEW admin \in BOOLEAN
  PROVE  /\ Search!GroupedAmong(m, q, admin) \in SUBSET Search!Rows(m)
         /\ IsFiniteSet(Search!GroupedAmong(m, q, admin)) /\ IsFiniteSet(Search!Tagged(m, q))
         /\ Search!Tagged(m, q) \in SUBSET Search!Rows(m)
         /\ Search!Cardinality(Search!GroupedAmong(m, q, admin)) = Cardinality(Search!GroupedAmong(m, q, admin))
         /\ Search!Cardinality(Search!Tagged(m, q)) = Cardinality(Search!Tagged(m, q))
         /\ Cardinality(Search!GroupedAmong(m, q, admin)) \in Nat /\ Cardinality(Search!Tagged(m, q)) \in Nat
<1>1. Search!GroupedAmong(m, q, admin) \in SUBSET Search!Rows(m) /\ Search!Tagged(m, q) \in SUBSET Search!Rows(m)
  BY DEF Search!GroupedAmong, Search!Tagged
<1>2. IsFiniteSet(Search!GroupedAmong(m, q, admin)) /\ IsFiniteSet(Search!Tagged(m, q))
  BY <1>1, RowsOf, FS_Subset
<1>. QED BY <1>1, <1>2, SameCount, FS_CardinalityType

LEMMA CountsAre ==
  ASSUME Search!QueryAssumption, NEW m \in MediaType
  PROVE  LET c == Search!CountsOf(m)
         IN /\ c \in StatsType
            /\ c.all = Cardinality(Search!Rows(m))
            /\ c.located = Cardinality({p \in Search!Rows(m) : m[p].located})
            /\ c.root = Cardinality({p \in Search!Rows(m) : m[p].root})
            /\ c.open = Cardinality({p \in Search!Rows(m) : m[p].root /\ ~m[p].private})
<1>. DEFINE A == Search!Rows(m)
            B == {p \in A : m[p].located}
            C == {p \in A : m[p].root}
            D == {p \in A : m[p].root /\ ~m[p].private}
<1>1. IsFiniteSet(A) /\ B \in SUBSET A /\ C \in SUBSET A /\ D \in SUBSET A
  BY RowsOf
<1>2. IsFiniteSet(B) /\ IsFiniteSet(C) /\ IsFiniteSet(D)
  BY <1>1, FS_Subset
<1>3. Cardinality(A) \in Nat /\ Cardinality(B) \in Nat /\ Cardinality(C) \in Nat /\ Cardinality(D) \in Nat
  BY <1>1, <1>2, FS_CardinalityType
<1>4. Search!CountsOf(m) = [all |-> Cardinality(A), located |-> Cardinality(B), root |-> Cardinality(C), open |-> Cardinality(D)]
  BY SameCount DEF Search!CountsOf
<1>. QED BY <1>3, <1>4 DEF StatsType

\* A total made of earlier counts, less the rows in groups, is the number of photos
\* the search finds, if the counts are those of the index.
LEMMA TotalIs ==
  ASSUME Search!QueryAssumption, NEW m \in MediaType, NEW q \in Queries, NEW admin \in BOOLEAN,
         stats = Search!CountsOf(m), Search!HasFastTotal(m, q, admin), ~(Search!Lone(q, "gps", TRUE) /\ admin)
  PROVE  Search!Less(Search!Counted(m, q, admin), Search!Cardinality(Search!GroupedAmong(m, q, admin)))
         = Cardinality(Search!Search(m, q, admin))
<1>. DEFINE A == Search!Rows(m)
            G == Search!GroupedAmong(m, q, admin)
            F == Search!Search(m, q, admin)
            n == Search!Counted(m, q, admin)
<1>0. /\ IsFiniteSet(A) /\ G \in SUBSET A /\ F \in SUBSET A /\ Search!Cardinality(G) = Cardinality(G)
      /\ \A p \in A : m[p] \in Search!Look
  BY RowsOf, GroupedIs
<1>. DEFINE c == Search!CountsOf(m)
<1>a. /\ c.all = Cardinality(A)
      /\ c.located = Cardinality({p \in A : m[p].located})
      /\ c.root = Cardinality({p \in A : m[p].root})
      /\ c.open = Cardinality({p \in A : m[p].root /\ ~m[p].private})
  BY CountsAre
<1>b. /\ stats.all = Cardinality(A)
      /\ stats.located = Cardinality({p \in A : m[p].located})
      /\ stats.root = Cardinality({p \in A : m[p].root})
      /\ stats.open = Cardinality({p \in A : m[p].root /\ ~m[p].private})
  BY <1>a
<1>1. ASSUME NEW B \in SUBSET A, n = Cardinality(B), \A p \in A : p \in G \/ p \in F <=> p \in B, G \cap F = {}
      PROVE  Search!Less(n, Search!Cardinality(G)) = Cardinality(F)
  <2>. HIDE DEF n, G, F, A, c
  <2>1. IsFiniteSet(B) /\ G \in SUBSET B /\ F = B \ G
    BY <1>0, <1>1, FS_Subset
  <2>2. Search!Less(Cardinality(B), Cardinality(G)) = Cardinality(B \ G)
    BY <2>1, CountLess
  <2>. QED BY <1>0, <1>1, <2>1, <2>2
<1>2. G \cap F = {}
  BY DEF Search!GroupedAmong, Search!Search, Search!Shown
<1>3. CASE q = <<>>
  <2>1. \A r : (Search!Candidate(r, q) <=> r.root) /\ (Search!Found(r, q) <=> r.root)
    <3>1. ~Search!PostFilter(q)
      <4>1. DOMAIN q = {} /\ ~Search!HasOr(q)
        BY <1>3, QueryIs
      <4>2. ~Search!LeavesWork(q)
        BY <4>1 DEF Search!LeavesWork, Search!PlainTerms
      <4>. QED BY <4>1, <4>2 DEF Search!PostFilter
    <3>2. \A r : Search!Candidate(r, q) = r.root
      <4>1. ~Search!HasOr(q) /\ ~Search!ByExpression(q)
        BY <1>3, QueryIs DEF Search!ByExpression, Search!HasPerson
      <4>. QED BY <1>3, <4>1 DEF Search!Candidate
    <3>. QED BY <3>1, <3>2 DEF Search!Found
  <2>2. CASE admin
    <3>. DEFINE B == {p \in A : m[p].root}
    <3>1. n = Cardinality(B) /\ B \in SUBSET A
      BY <1>b, <1>3, <2>2 DEF Search!Counted
    <3>2. \A p \in A : p \in G \/ p \in F <=> p \in B
      BY <1>0, <2>1, <2>2, LookFields DEF Search!GroupedAmong, Search!Search, Search!Shown, Search!Allowed
    <3>. HIDE DEF n, G, F, A, B, c
    <3>3. Search!Less(n, Search!Cardinality(G)) = Cardinality(F)
      BY <1>1, <1>2, <3>1, <3>2
    <3>. QED BY <3>3 DEF n, G, F
  <2>3. CASE ~admin
    <3>. DEFINE B == {p \in A : m[p].root /\ ~m[p].private}
    <3>1. n = Cardinality(B) /\ B \in SUBSET A
      BY <1>b, <1>3, <2>3 DEF Search!Counted
    <3>2. \A p \in A : p \in G \/ p \in F <=> p \in B
      BY <1>0, <2>1, <2>3, LookFields DEF Search!GroupedAmong, Search!Search, Search!Shown, Search!Allowed
    <3>. HIDE DEF n, G, F, A, B, c
    <3>3. Search!Less(n, Search!Cardinality(G)) = Cardinality(F)
      BY <1>1, <1>2, <3>1, <3>2
    <3>. QED BY <3>3 DEF n, G, F
  <2>. QED BY <2>2, <2>3
<1>4. CASE q # <<>> /\ Search!OnlyGps(q)
  <2>1. PICK negated \in BOOLEAN : Search!Lone(q, "gps", negated)
    BY <1>4 DEF Search!OnlyGps
  <2>2. PICK t \in Search!Term : LoneOf(q, t, "gps", negated)
    BY <2>1, LoneIs
  <2>3. admin /\ negated = FALSE
    <3>1. t.field = "gps" /\ Search!TermsOf(q) = {t}
      BY <2>2 DEF LoneOf
    <3>2. ~Search!OnlyNegatedTag(q)
      <4>1. SUFFICES ASSUME Search!OnlyNegatedTag(q) PROVE FALSE
        OBVIOUS
      <4>2. PICK u \in Search!Term : LoneOf(q, u, "tag", TRUE)
        BY <4>1, LoneIs DEF Search!OnlyNegatedTag
      <4>. QED BY <3>1, <4>2 DEF LoneOf
    <3>3. admin
      BY <1>4, <3>2 DEF Search!HasFastTotal
    <3>. QED BY <2>1, <3>3
  <2>4. \A r \in Search!Look : (Search!Candidate(r, q) <=> r.located) /\ (Search!Found(r, q) <=> r.located)
    <3>1. t.field = "gps" /\ \A r \in Search!Look : r.located \in BOOLEAN /\ (Search!TermMatches(r, t, {}) = r.located)
      BY <2>2, LookFields DEF LoneOf, Search!TermMatches
    <3>. QED BY <2>2, <2>3, <3>1 DEF LoneOf
  <2>. DEFINE B == {p \in A : m[p].located}
  <2>5. n = Cardinality(B) /\ B \in SUBSET A
    BY <1>b, <1>4 DEF Search!Counted
  <2>6. \A p \in A : p \in G \/ p \in F <=> p \in B
    BY <1>0, <2>3, <2>4 DEF Search!GroupedAmong, Search!Search, Search!Shown, Search!Allowed
  <2>. HIDE DEF n, G, F, A, B, c
  <2>7. Search!Less(n, Search!Cardinality(G)) = Cardinality(F)
    BY <1>1, <1>2, <2>5, <2>6
  <2>. QED BY <2>7 DEF n, G, F
<1>5. CASE q # <<>> /\ ~Search!OnlyGps(q)
  <2>. DEFINE T == Search!Tagged(m, q)
              B == A \ T
  <2>1. Search!OnlyNegatedTag(q) /\ \A p \in A : Search!Allowed(m[p], admin)
    BY <1>5 DEF Search!HasFastTotal, Search!Allowed
  <2>2. PICK t \in Search!Term : LoneOf(q, t, "tag", TRUE)
    BY <2>1, LoneIs DEF Search!OnlyNegatedTag
  <2>3. \A p \in A : /\ Search!Candidate(m[p], q) <=> p \notin T
                     /\ Search!Found(m[p], q) <=> p \notin T
    <3>1. \A p \in A : Search!TermMatches(m[p], t, {}) <=> t.word \in m[p].says["tag"]
      BY <2>2 DEF LoneOf, Search!TermMatches
    <3>2. \A p \in A : p \in T <=> t.word \in m[p].says["tag"]
      BY <2>2 DEF LoneOf, Search!Tagged
    <3>3. \A p \in A : Search!TermMatches(m[p], t, {}) \in BOOLEAN
      BY <1>0, TermIs
    <3>. QED BY <1>0, <2>2, <3>1, <3>2, <3>3 DEF LoneOf
  <2>4. n = Cardinality(B) /\ B \in SUBSET A
    <3>1. n = Search!Less(stats.all, Cardinality(T))
      BY <1>5, GroupedIs DEF Search!Counted
    <3>2. T \in SUBSET A
      BY GroupedIs
    <3>. HIDE DEF n, T, A, c
    <3>3. Search!Less(Cardinality(A), Cardinality(T)) = Cardinality(A \ T)
      BY <1>0, <3>2, CountLess
    <3>. QED BY <1>b, <3>1, <3>3
  <2>5. \A p \in A : p \in G \/ p \in F <=> p \in B
    BY <1>0, <2>1, <2>3 DEF Search!GroupedAmong, Search!Search, Search!Shown
  <2>. HIDE DEF n, G, F, A, B, c, T
  <2>6. Search!Less(n, Search!Cardinality(G)) = Cardinality(F)
    BY <1>1, <1>2, <2>4, <2>5
  <2>. QED BY <2>6 DEF n, G, F
<1>. QED BY <1>3, <1>4, <1>5

LEMMA LessIsNat == \A a, b \in Nat : Search!Less(a, b) \in Nat
BY DEF Search!Less

LEMMA CountedIsNat ==
  ASSUME Search!QueryAssumption, NEW m \in MediaType, NEW q \in Queries, NEW admin \in BOOLEAN, stats \in StatsType
  PROVE  Search!Counted(m, q, admin) \in Nat
<1>1. stats.all \in Nat /\ stats.located \in Nat /\ stats.root \in Nat /\ stats.open \in Nat
  BY DEF StatsType
<1>2. Search!Less(stats.all, Search!Cardinality(Search!Tagged(m, q))) \in Nat
  BY <1>1, GroupedIs, LessIsNat
<1>. QED BY <1>1, <1>2 DEF Search!Counted
-----------------------------------------------------------------------------
(* Listings                                                                 *)

ListRow == [at : {"start", "hidden", "exclude", "fetch", "page", "filter", "done", "failed"},
            query : Queries, admin : BOOLEAN, page : Pages, fast : BOOLEAN, total : Nat, excluded : SUBSET Shots,
            read : MediaType, shown : SUBSET Shots, fresh : BOOLEAN, touched : SUBSET Shots]
Matching(l) == Search!Search(media, l.query, l.admin)
\* The one query for which SQLite has no plan.
NoPlan(l) == Search!Lone(l.query, "gps", TRUE) /\ l.admin
\* A listing for which the index is as it was, and the counts too; its total, at first
\* with the rows in groups; the rows it leaves out, which are the tagged ones, and the
\* rows it filters, which are the candidates, but for those that changed.
Current(l) == l.fresh /\ l.touched = {}
CountedHolds(l) ==
    Current(l) /\ ~NoPlan(l) => Search!HasFastTotal(media, l.query, l.admin) /\ l.total = Search!Counted(media, l.query, l.admin)
TotalHolds(l) == Current(l) /\ ~NoPlan(l) => l.total = Cardinality(Matching(l))
LeavesOutTagged(l) == \A p \in Shots \ l.touched : p \in l.excluded <=> p \in Search!Tagged(media, l.query)
ReadsCandidates(l) == \A p \in Shots \ l.touched :
    l.read[p] = IF p \in Search!Candidates(media, l.query, l.admin) THEN media[p] ELSE NoLook
ListingHolds(l) ==
    /\ l \in ListRow
    /\ Current(l) => Search!Fresh
    /\ l.at \in {"exclude", "fetch"} \/ l.fast => Search!OnlyNegatedTag(l.query)
    /\ l.at = "hidden" => CountedHolds(l)
    /\ l.at \in {"exclude", "fetch", "page"} => TotalHolds(l)
    /\ l.at = "fetch" => LeavesOutTagged(l)
    /\ l.at = "filter" => Search!PostFilter(l.query) /\ ReadsCandidates(l)
    /\ l.at = "done" => NoPlan(l) \/ Search!AnswerHolds(l)
QueryHolds == Search!TypeOK /\ (listing = NoListing \/ ListingHolds(listing))

LEMMA SearchTypes ==
  ASSUME Search!QueryAssumption, Search!TypeOK
  PROVE  /\ media \in MediaType /\ stats \in StatsType
         /\ listing = NoListing \/ listing \in ListRow
         /\ rowChanges \in 0 .. MaxRowChanges /\ Pages \subseteq Nat \ {0}
BY DEF Search!TypeOK, MediaType, StatsType, ListRow, Search!QueryAssumption

LEMMA QueryGives == ASSUME Search!QueryAssumption, QueryHolds PROVE Search!QueryInv
<1>0. media \in MediaType /\ Search!TypeOK
  BY SearchTypes DEF QueryHolds
<1>1. \A p \in Search!Rows(media) : media[p] \in Search!Look
  BY <1>0, RowsOf
<1>q. ASSUME Search!Is("start") PROVE listing.query \in Queries
  BY <1>q DEF QueryHolds, Search!Is, ListingHolds, ListRow
<1>2. Search!MatchesAreFound
  BY <1>1, <1>q, MatchIsFound DEF Search!MatchesAreFound
<1>3. Search!FoundMatches
  BY <1>1, <1>q, FoundIsMatch DEF Search!FoundMatches
<1>4. Search!EntriesAreFound
  BY <1>q, EntryIsFound DEF Search!EntriesAreFound
<1>5. Search!AnswersHold
  BY DEF QueryHolds, ListingHolds, NoPlan, Search!AnswersHold, Search!Is
<1>. QED BY <1>0, <1>2, <1>3, <1>4, <1>5 DEF Search!QueryInv

\* What a page shows matches; a page of all that matches is their page.
LEMMA PageAnswers ==
  ASSUME Search!QueryAssumption, media \in MediaType, NEW l \in ListRow,
         l.shown \ l.touched \subseteq Matching(l),
         Current(l) => l.shown = Search!PageOf(Matching(l), l.page) /\ l.total = Cardinality(Matching(l))
  PROVE  Search!AnswerHolds(l)
<1>1. IsFiniteSet(Matching(l)) /\ Matching(l) \subseteq Nat /\ l.page \in Nat \ {0}
  BY RowsOf DEF Matching, ListRow, Search!QueryAssumption
<1>2. Search!HasNext(l.page, Cardinality(Matching(l))) <=> \E p \in Matching(l) : Search!Cardinality({o \in Matching(l) : o < p}) >= l.page * PageSize
  BY <1>1, NextPage
<1>3. Search!Cardinality(Matching(l)) = Cardinality(Matching(l))
  BY SameCount
<1>. QED BY <1>2, <1>3 DEF Search!AnswerHolds, Current, Matching

LEMMA QueryInit == ASSUME Search!QueryAssumption, Search!Init PROVE QueryHolds
<1>1. media \in MediaType
  BY DEF Search!Init, MediaType, Search!QueryAssumption
<1>2. stats \in StatsType
  BY <1>1, CountsAre DEF Search!Init
<1>3. MaxRowChanges \in Nat
  BY DEF Search!QueryAssumption
<1>. QED BY <1>1, <1>2, <1>3 DEF Search!Init, QueryHolds, Search!TypeOK, MediaType, StatsType

\* A row that changes is one the listing takes as touched.
LEMMA WriteSearch ==
  ASSUME Search!QueryAssumption, QueryHolds, NEW p \in Shots, NEW row \in Search!Look \cup {NoLook}, Search!Write(p, row)
  PROVE  QueryHolds'
<1>0. /\ media \in MediaType /\ rowChanges' \in 0 .. MaxRowChanges /\ UNCHANGED stats
      /\ media' = [media EXCEPT ![p] = row]
      /\ listing' = IF listing = NoListing THEN listing ELSE [listing EXCEPT !.touched = @ \cup {p}]
      /\ stats \in StatsType
  BY SearchTypes DEF QueryHolds, Search!Write, Search!QueryAssumption
<1>1. media' \in MediaType /\ \A o \in Shots \ {p} : media'[o] = media[o]
  BY <1>0 DEF MediaType
<1>2. CASE listing = NoListing
  BY <1>0, <1>1, <1>2 DEF QueryHolds, Search!TypeOK, MediaType, StatsType
<1>3. CASE listing # NoListing
  <2>0. PICK l : l = [listing EXCEPT !.touched = @ \cup {p}]
    OBVIOUS
  <2>1. /\ listing \in ListRow /\ l \in ListRow /\ listing' = l /\ l.touched = listing.touched \cup {p} /\ ListingHolds(listing)
        /\ l.query = listing.query /\ l.admin = listing.admin /\ l.at = listing.at /\ l.excluded = listing.excluded
        /\ l.shown = listing.shown /\ l.fast = listing.fast /\ l.read = listing.read
    BY <1>0, <1>3, <2>0, SearchTypes DEF QueryHolds, ListRow
  <2>2. \A o \in Shots \ {p} :
           /\ o \in Search!Tagged(media, l.query) <=> o \in Search!Tagged(media', l.query)
           /\ o \in Search!Search(media, l.query, l.admin) <=> o \in Search!Search(media', l.query, l.admin)
           /\ o \in Search!Candidates(media, l.query, l.admin) <=> o \in Search!Candidates(media', l.query, l.admin)
    BY <1>1 DEF Search!Tagged, Search!Search, Search!Candidates, Search!Rows
  <2>3. ~Current(l)
    BY <2>1 DEF Current
  <2>4. l.at = "fetch" => LeavesOutTagged(l)'
    BY <2>1, <2>2 DEF ListingHolds, LeavesOutTagged
  <2>5. l.at = "filter" => ReadsCandidates(l)'
    BY <1>1, <2>1, <2>2 DEF ListingHolds, ReadsCandidates
  <2>6. l.at = "done" => NoPlan(l) \/ Search!AnswerHolds(l)'
    <3>1. l.at = "done" /\ ~NoPlan(l) => listing.shown \ listing.touched \subseteq Search!Search(media, l.query, l.admin)
      BY <2>1 DEF ListingHolds, NoPlan, Search!AnswerHolds
    <3>2. listing.shown \in SUBSET Shots
      BY <2>1 DEF ListRow
    <3>3. l.at = "done" /\ ~NoPlan(l) => l.shown \ l.touched \subseteq Search!Search(media', l.query, l.admin)
      BY <2>1, <2>2, <3>1, <3>2
    <3>. QED BY <2>1, <2>3, <3>3 DEF Search!AnswerHolds, Current
  <2>7. ListingHolds(l)'
    BY <2>1, <2>3, <2>4, <2>5, <2>6 DEF ListingHolds, TotalHolds, CountedHolds, Current, NoPlan
  <2>. QED BY <1>0, <1>1, <2>1, <2>7 DEF QueryHolds, Search!TypeOK, MediaType, StatsType, ListRow
<1>. QED BY <1>2, <1>3

LEMMA ChangeSearch ==
  ASSUME Search!QueryAssumption, QueryHolds, Search!Change
  PROVE  QueryHolds'
<1>0. media \in MediaType /\ Looks \in SUBSET Search!Look
  BY SearchTypes DEF QueryHolds, Search!QueryAssumption
<1>1. PICK p \in Shots : \/ \E row \in Looks : Search!Save(p, row)
                         \/ Search!Drop(p)
                         \/ \E s \in {{}} \cup {{w} : w \in Words} : Search!SetTags(p, s) \/ Search!Recognize(p, s)
                         \/ \E b \in BOOLEAN : Search!Group(p, b) \/ Search!SetPrivate(p, b)
  BY DEF Search!Change
<1>2. CASE \E row \in Looks : Search!Save(p, row)
  BY <1>0, <1>2, WriteSearch DEF Search!Save
<1>3. CASE Search!Drop(p)
  BY <1>3, WriteSearch DEF Search!Drop
<1>4. CASE \E s \in {{}} \cup {{w} : w \in Words} : Search!SetTags(p, s) \/ Search!Recognize(p, s)
  <2>1. PICK s \in {{}} \cup {{w} : w \in Words} : Search!SetTags(p, s) \/ Search!Recognize(p, s)
    BY <1>4
  <2>2. s \in SUBSET Words
    BY <2>1
  <2>3. media[p] \in Search!Look
    BY <1>0, <2>1 DEF Search!SetTags, Search!Recognize, MediaType
  <2>4. ASSUME NEW x \in {"tag", "seen"} PROVE [media[p] EXCEPT !.says[x] = s] \in Search!Look
    <3>. DEFINE e == [media[p].says EXCEPT ![x] = s]
    <3>1. e \in [Search!Places -> SUBSET Words]
      BY <2>2, <2>3, LookFields DEF Search!Places
    <3>2. [media[p] EXCEPT !.says[x] = s] = [media[p] EXCEPT !.says = e]
      BY <2>3 DEF Search!Look
    <3>. HIDE DEF e
    <3>. QED BY <2>3, <3>1, <3>2 DEF Search!Look
  <2>. QED BY <2>1, <2>4, WriteSearch DEF Search!SetTags, Search!Recognize
<1>5. CASE \E b \in BOOLEAN : Search!Group(p, b) \/ Search!SetPrivate(p, b)
  <2>1. PICK b \in BOOLEAN : Search!Group(p, b) \/ Search!SetPrivate(p, b)
    BY <1>5
  <2>2. media[p] \in Search!Look
    BY <1>0, <2>1 DEF Search!Group, Search!SetPrivate, MediaType
  <2>3. [media[p] EXCEPT !.grouped = b] \in Search!Look /\ [media[p] EXCEPT !.private = b] \in Search!Look
    BY <2>2 DEF Search!Look
  <2>. QED BY <2>1, <2>3, WriteSearch DEF Search!Group, Search!SetPrivate
<1>. QED BY <1>1, <1>2, <1>3, <1>4, <1>5

\* A recount happens only if the counts were not fresh.
LEMMA RecountSearch ==
  ASSUME Search!QueryAssumption, QueryHolds, Search!Recount
  PROVE  QueryHolds'
<1>1. /\ media \in MediaType /\ ~Search!Fresh /\ stats' = Search!CountsOf(media) /\ UNCHANGED <<media, listing, rowChanges>>
  BY SearchTypes DEF QueryHolds, Search!Recount
<1>2. Search!TypeOK'
  <2>1. stats' \in StatsType
    BY <1>1, CountsAre
  <2>. QED BY <1>1, <2>1 DEF QueryHolds, Search!TypeOK, StatsType
<1>3. ASSUME listing # NoListing PROVE ListingHolds(listing)'
  <2>1. ListingHolds(listing) /\ ~Current(listing)
    BY <1>1, <1>3 DEF QueryHolds, ListingHolds
  <2>2. listing.at = "done" => NoPlan(listing) \/ Search!AnswerHolds(listing)'
    BY <1>1, <2>1 DEF ListingHolds, Search!AnswerHolds
  <2>. QED BY <1>1, <2>1, <2>2 DEF ListingHolds, Current, TotalHolds, CountedHolds, NoPlan, LeavesOutTagged, ReadsCandidates
<1>. QED BY <1>1, <1>2, <1>3 DEF QueryHolds

\* A step of the listing alone.
LEMMA ListingStep ==
  ASSUME Search!QueryAssumption, QueryHolds, NEW l, ListingHolds(l), Search!Step(l)
  PROVE  QueryHolds'
<1>0. listing' = l /\ UNCHANGED <<media, stats, rowChanges>>
  BY DEF Search!Step
<1>1. Search!TypeOK'
  BY <1>0 DEF QueryHolds, Search!TypeOK, ListingHolds, ListRow, MediaType
<1>2. ListingHolds(l)'
  BY <1>0 DEF ListingHolds, TotalHolds, CountedHolds, Current, NoPlan, Matching, LeavesOutTagged, ReadsCandidates,
              Search!Fresh, Search!AnswerHolds, Search!Counted
<1>. QED BY <1>0, <1>1, <1>2 DEF QueryHolds

LEMMA OpenSearch ==
  ASSUME Search!QueryAssumption, QueryHolds, NEW q \in Queries, NEW admin \in BOOLEAN, NEW k \in Pages, Search!Open(q, admin, k)
  PROVE  QueryHolds'
<1>1. PICK l : l = [at |-> "start", query |-> q, admin |-> admin, page |-> k, fast |-> Search!OnlyNegatedTag(q), total |-> 0,
                    excluded |-> {}, read |-> Search!Unread, shown |-> {}, fresh |-> Search!Fresh, touched |-> {}]
  OBVIOUS
<1>2. Search!Step(l)
  BY <1>1 DEF Search!Open, Search!Step
<1>3. l \in ListRow
  <2>1. Search!Unread \in MediaType /\ Search!Fresh \in BOOLEAN /\ Search!OnlyNegatedTag(q) \in BOOLEAN
    BY DEF Search!Unread, MediaType, Search!Fresh, Search!OnlyNegatedTag, Search!Lone
  <2>. QED BY <1>1, <2>1 DEF ListRow
<1>4. l.query = q /\ (l.fresh <=> Search!Fresh) /\ (l.fast <=> Search!OnlyNegatedTag(q)) /\ l.at = "start"
  BY <1>1
<1>5. ListingHolds(l)
  BY <1>3, <1>4 DEF ListingHolds, Current
<1>. QED BY <1>2, <1>5, ListingStep

\* At a stage, the listing is there, with what holds of it.
LEMMA At ==
  ASSUME Search!QueryAssumption, QueryHolds, NEW at, Search!Is(at)
  PROVE  /\ ListingHolds(listing) /\ listing.at = at /\ listing \in ListRow /\ listing.query \in Queries /\ listing.admin \in BOOLEAN
         /\ media \in MediaType /\ stats \in StatsType /\ listing # NoListing
         /\ listing.page \in Nat \ {0} /\ listing.total \in Nat /\ listing.excluded \in SUBSET Shots /\ listing.read \in MediaType
BY SearchTypes DEF QueryHolds, Search!Is, ListingHolds, ListRow

\* A listing that fails, or starts again without the fast page.
LEMMA FailStep ==
  ASSUME Search!QueryAssumption, QueryHolds, listing # NoListing, Search!Step([listing EXCEPT !.at = "failed"])
  PROVE  QueryHolds'
<1>1. PICK l : l = [listing EXCEPT !.at = "failed"]
  OBVIOUS
<1>2. /\ ListingHolds(listing) /\ l \in ListRow /\ l.at = "failed" /\ l.fresh = listing.fresh /\ l.touched = listing.touched
      /\ l.fast = listing.fast /\ l.query = listing.query
  BY <1>1 DEF QueryHolds, ListingHolds, ListRow
<1>3. ListingHolds(l)
  BY <1>2 DEF ListingHolds, Current
<1>. QED BY <1>1, <1>3, ListingStep

LEMMA RestartStep ==
  ASSUME Search!QueryAssumption, QueryHolds, listing # NoListing, Search!Step([listing EXCEPT !.at = "start", !.fast = FALSE])
  PROVE  QueryHolds'
<1>1. PICK l : l = [listing EXCEPT !.at = "start", !.fast = FALSE]
  OBVIOUS
<1>2. /\ ListingHolds(listing) /\ l \in ListRow /\ l.at = "start" /\ l.fresh = listing.fresh /\ l.touched = listing.touched
      /\ l.fast = FALSE
  BY <1>1 DEF QueryHolds, ListingHolds, ListRow
<1>3. ListingHolds(l)
  BY <1>2 DEF ListingHolds, Current
<1>. QED BY <1>1, <1>3, ListingStep

\* An answer: a page of what matches, or of all that does.
LEMMA AnswerStep ==
  ASSUME Search!QueryAssumption, QueryHolds, listing # NoListing, NEW S \in SUBSET Shots, NEW n \in Nat,
         Search!Step(Search!Answer(S, n)),
         \/ NoPlan(listing)
         \/ /\ S \ listing.touched \subseteq Matching(listing)
            /\ Current(listing) => S = Search!PageOf(Matching(listing), listing.page) /\ n = Cardinality(Matching(listing))
  PROVE  QueryHolds'
<1>1. PICK l : l = Search!Answer(S, n)
  OBVIOUS
<1>2. /\ ListingHolds(listing) /\ l \in ListRow /\ l.at = "done" /\ l.fresh = listing.fresh /\ l.touched = listing.touched
      /\ l.shown = S /\ l.total = n /\ l.query = listing.query /\ l.admin = listing.admin /\ l.page = listing.page
      /\ l.fast = listing.fast /\ media \in MediaType
  BY <1>1, SearchTypes DEF QueryHolds, ListingHolds, ListRow, Search!Answer
<1>3. NoPlan(l) \/ Search!AnswerHolds(l)
  BY <1>2, PageAnswers DEF NoPlan, Matching, Current
<1>4. ListingHolds(l)
  BY <1>2, <1>3 DEF ListingHolds, Current
<1>. QED BY <1>1, <1>4, ListingStep

LEMMA FastTotalStep ==
  ASSUME Search!QueryAssumption, QueryHolds, Search!FastTotal
  PROVE  QueryHolds'
<1>. DEFINE n == Search!Counted(media, listing.query, listing.admin)
<1>0. /\ ListingHolds(listing) /\ listing \in ListRow /\ n \in Nat
      /\ Search!HasFastTotal(media, listing.query, listing.admin) /\ Search!Step([listing EXCEPT !.at = "hidden", !.total = n])
  BY At, CountedIsNat DEF Search!FastTotal, Search!Fast
<1>1. PICK l : l = [listing EXCEPT !.at = "hidden", !.total = n]
  OBVIOUS
<1>. HIDE DEF n
<1>2. /\ l \in ListRow /\ l.at = "hidden" /\ l.fresh = listing.fresh /\ l.touched = listing.touched /\ l.fast = listing.fast
      /\ l.query = listing.query /\ l.admin = listing.admin /\ l.total = n
  BY <1>0, <1>1 DEF ListRow
<1>3. ListingHolds(l)
  BY <1>0, <1>2 DEF ListingHolds, Current, CountedHolds, n
<1>. QED BY <1>0, <1>1, <1>3, ListingStep

LEMMA HiddenStep ==
  ASSUME Search!QueryAssumption, QueryHolds, Search!Hidden
  PROVE  QueryHolds'
<1>. DEFINE n == Search!Less(listing.total, Search!Cardinality(Search!GroupedAmong(media, listing.query, listing.admin)))
            at == IF listing.fast THEN "exclude" ELSE "page"
<1>0. /\ ListingHolds(listing) /\ listing.at = "hidden" /\ listing \in ListRow /\ n \in Nat /\ media \in MediaType
      /\ listing.query \in Queries /\ listing.admin \in BOOLEAN
  BY At, GroupedIs, LessIsNat DEF Search!Hidden
<1>1. PICK l : l = [listing EXCEPT !.at = at, !.total = n]
  OBVIOUS
<1>2. Search!Step(l)
  <2>1. l = [listing EXCEPT !.at = at, !.total = Search!Less(@, Search!Cardinality(Search!GroupedAmong(media, listing.query, listing.admin)))]
    BY <1>0, <1>1 DEF ListRow
  <2>. QED BY <2>1 DEF Search!Hidden
<1>3. /\ l \in ListRow /\ l.at = at /\ l.fresh = listing.fresh /\ l.touched = listing.touched /\ l.fast = listing.fast
      /\ l.query = listing.query /\ l.admin = listing.admin /\ l.total = n
  <2>. HIDE DEF n
  <2>. QED BY <1>0, <1>1 DEF ListRow
<1>4. TotalHolds(l)
  <2>. SUFFICES ASSUME Current(l), ~NoPlan(l) PROVE n = Cardinality(Search!Search(media, l.query, l.admin))
    BY <1>3 DEF TotalHolds, Matching
  <2>1. Current(listing) /\ ~NoPlan(listing) /\ stats = Search!CountsOf(media)
    BY <1>0, <1>3 DEF Current, NoPlan, ListingHolds, Search!Fresh
  <2>2. /\ Search!HasFastTotal(media, l.query, l.admin)
        /\ listing.total = Search!Counted(media, l.query, l.admin)
    BY <1>0, <1>3, <2>1 DEF ListingHolds, CountedHolds
  <2>. QED BY <1>0, <1>3, <2>1, <2>2, TotalIs DEF NoPlan
<1>. HIDE DEF n
<1>5. /\ l.at = "exclude" => Search!OnlyNegatedTag(l.query)
      /\ l.at \in {"exclude", "page"}
      /\ l.fast => Search!OnlyNegatedTag(l.query)
      /\ Current(l) => Search!Fresh
  BY <1>0, <1>3 DEF ListingHolds, Current
<1>6. ListingHolds(l)
  BY <1>3, <1>4, <1>5 DEF ListingHolds
<1>. QED BY <1>2, <1>6, ListingStep

LEMMA NotFastStep ==
  ASSUME Search!QueryAssumption, QueryHolds, Search!NotFast
  PROVE  QueryHolds'
<1>1. listing.at = "start" /\ listing # NoListing /\ listing \in ListRow /\ Search!Step([listing EXCEPT !.fast = FALSE])
  BY At DEF Search!NotFast
<1>2. [listing EXCEPT !.fast = FALSE] = [listing EXCEPT !.at = "start", !.fast = FALSE]
  BY <1>1 DEF ListRow
<1>. QED BY <1>1, <1>2, RestartStep

LEMMA ExcludeStep ==
  ASSUME Search!QueryAssumption, QueryHolds, Search!Exclude
  PROVE  QueryHolds'
<1>. DEFINE s == Search!Tagged(media, listing.query)
<1>0. ListingHolds(listing) /\ listing.at = "exclude" /\ listing # NoListing /\ listing \in ListRow /\ media \in MediaType
  BY At DEF Search!Exclude, Search!Is
<1>1. CASE Search!Cardinality(s) > ExcludedMax
  BY <1>0, <1>1, RestartStep DEF Search!Exclude
<1>2. CASE ~(Search!Cardinality(s) > ExcludedMax)
  <2>1. PICK l : l = [listing EXCEPT !.at = "fetch", !.excluded = s]
    OBVIOUS
  <2>2. s \in SUBSET Shots
    BY DEF Search!Tagged, Search!Rows
  <2>3. /\ l \in ListRow /\ l.at = "fetch" /\ l.excluded = s /\ l.fresh = listing.fresh /\ l.touched = listing.touched
        /\ l.query = listing.query /\ l.admin = listing.admin /\ l.total = listing.total
    BY <1>0, <2>1, <2>2 DEF ListRow
  <2>4. Search!Step(l)
    BY <1>2, <2>1 DEF Search!Exclude
  <2>5. ListingHolds(l)
    BY <1>0, <2>3 DEF ListingHolds, Current, TotalHolds, NoPlan, Matching, LeavesOutTagged
  <2>. QED BY <2>4, <2>5, ListingStep
<1>. QED BY <1>1, <1>2

LEMMA FastPageStep ==
  ASSUME Search!QueryAssumption, QueryHolds, Search!FastPage
  PROVE  QueryHolds'
<1>. DEFINE l == listing
            S == {p \in Search!Rows(media) : Search!Shown(media[p], l.admin)}
            hi == Search!Offset(l.page) + PageSize
            F == FirstOf(S, hi + Cardinality(l.excluded)) \ l.excluded
            T == S \ l.excluded
            A == Search!PageOf(F, l.page)
<1>0. /\ ListingHolds(l) /\ l.at = "fetch" /\ l # NoListing /\ l \in ListRow /\ media \in MediaType /\ l.total \in Nat
      /\ Search!OnlyNegatedTag(l.query) /\ LeavesOutTagged(l) /\ TotalHolds(l) /\ l.page \in Nat \ {0} /\ l.query \in Queries
      /\ l.excluded \in SUBSET Shots
  BY At DEF Search!FastPage, Search!Is, ListingHolds, ListRow
<1>1. IsFiniteSet(S) /\ S \subseteq Nat /\ S \in SUBSET Shots /\ IsFiniteSet(l.excluded)
  <2>1. IsFiniteSet(Shots)
    BY DEF Search!QueryAssumption, Search!IsFiniteSet, IsFiniteSet
  <2>. QED BY <1>0, <2>1, RowsOf, FS_Subset
<1>2. hi \in Nat \ {0} /\ Search!Offset(l.page) \in Nat
  BY <1>0, Counting
<1>3. /\ F \in SUBSET T /\ \A p \in F : Below(F, p) = Below(T, p)
      /\ \A p \in T : Cardinality(Below(T, p)) < hi => p \in F
  <2>1. PICK E : E = l.excluded
    OBVIOUS
  <2>2. hi \in Nat /\ IsFiniteSet(E)
    BY <1>1, <1>2, <2>1
  <2>3. F = FirstOf(S, hi + Cardinality(E)) \ E /\ T = S \ E
    BY <2>1
  <2>. HIDE DEF S, hi, l, F, T
  <2>4. /\ FirstOf(S, hi + Cardinality(E)) \ E \in SUBSET (S \ E)
        /\ \A p \in FirstOf(S, hi + Cardinality(E)) \ E : Below(FirstOf(S, hi + Cardinality(E)) \ E, p) = Below(S \ E, p)
        /\ \A p \in S \ E : Cardinality(Below(S \ E, p)) < hi => p \in FirstOf(S, hi + Cardinality(E)) \ E
    BY <1>1, <2>2, FirstHasPage
  <2>. QED BY <2>3, <2>4
<1>4. Search!Step(Search!Answer(A, l.total))
  <2>1. Search!First(media, l.admin, Search!FetchLimit(l.page, l.excluded)) = FirstOf(S, hi + Cardinality(l.excluded))
    BY SameCount DEF Search!First, Search!FetchLimit, FirstOf, Below
  <2>. QED BY <2>1 DEF Search!FastPage
<1>5. A = Search!PageOf(T, l.page)
  <2>. HIDE DEF F, T
  <2>1. \A p \in T : Cardinality(Below(T, p)) \in Search!Offset(l.page) .. hi - 1 => p \in F
    BY <1>2, <1>3
  <2>2. PageSize \in Nat /\ Search!Offset(l.page) \in Nat
    BY <1>2 DEF Search!QueryAssumption
  <2>3. Search!Offset(l.page) + PageSize - 1 = hi - 1
    BY <2>2
  <2>4. A = {p \in F : Cardinality(Below(F, p)) \in Search!Offset(l.page) .. Search!Offset(l.page) + PageSize - 1}
    BY PageIs
  <2>5. Search!PageOf(T, l.page) = {p \in T : Cardinality(Below(T, p)) \in Search!Offset(l.page) .. Search!Offset(l.page) + PageSize - 1}
    BY PageIs
  <2>. HIDE DEF A, hi
  <2>. QED BY <1>3, <2>1, <2>3, <2>4, <2>5
<1>6. \A p \in S : p \in Matching(l) <=> p \notin Search!Tagged(media, l.query)
  <2>1. PICK t \in Search!Term : LoneOf(l.query, t, "tag", TRUE)
    BY <1>0, LoneIs DEF Search!OnlyNegatedTag
  <2>2. ASSUME NEW p \in S PROVE p \in Matching(l) <=> p \notin Search!Tagged(media, l.query)
    <3>1. media[p] \in Search!Look /\ p \in Search!Rows(media) /\ Search!Shown(media[p], l.admin)
      BY <1>0, <2>2, RowsOf
    <3>2. Search!Found(media[p], l.query) <=> (Search!TermMatches(media[p], t, {}) # TRUE)
      BY <2>1, <3>1 DEF LoneOf
    <3>3. Search!TermMatches(media[p], t, {}) <=> t.word \in media[p].says["tag"]
      BY <2>1 DEF LoneOf, Search!TermMatches
    <3>4. p \in Search!Tagged(media, l.query) <=> t.word \in media[p].says["tag"]
      BY <2>1, <3>1 DEF LoneOf, Search!Tagged
    <3>. QED BY <3>1, <3>2, <3>3, <3>4, TermIs DEF Matching, Search!Search
  <2>. QED BY <2>2
<1>7. A \ l.touched \subseteq Matching(l) /\ A \in SUBSET Shots
  <2>1. A \in SUBSET T
    BY <1>5 DEF Search!PageOf
  <2>. QED BY <1>0, <1>1, <1>6, <2>1 DEF LeavesOutTagged
<1>8. ASSUME Current(l), ~NoPlan(l) PROVE A = Search!PageOf(Matching(l), l.page) /\ l.total = Cardinality(Matching(l))
  <2>1. T = Matching(l)
    <3>1. \A p \in S : p \in T <=> p \notin Search!Tagged(media, l.query)
      BY <1>0, <1>1, <1>8 DEF LeavesOutTagged, Current
    <3>2. Matching(l) \in SUBSET S
      BY DEF Matching, Search!Search
    <3>. QED BY <1>6, <3>1, <3>2
  <2>. QED BY <1>0, <1>5, <1>8, <2>1 DEF TotalHolds
<1>. HIDE DEF A, S, T, F, hi
<1>. QED BY <1>0, <1>4, <1>7, <1>8, AnswerStep

LEMMA CountStep ==
  ASSUME Search!QueryAssumption, QueryHolds, Search!Count
  PROVE  QueryHolds'
<1>0. /\ ListingHolds(listing) /\ listing \in ListRow /\ media \in MediaType /\ Search!Cardinality(Matching(listing)) \in Nat
  <2>1. ListingHolds(listing) /\ listing \in ListRow /\ media \in MediaType
    BY At DEF Search!Count
  <2>2. Cardinality(Matching(listing)) \in Nat
    BY <2>1, RowsOf, FS_CardinalityType DEF Matching
  <2>. QED BY <2>1, <2>2, SameCount
<1>1. PICK l : l = [listing EXCEPT !.at = "page", !.total = Search!Cardinality(Matching(listing))]
  OBVIOUS
<1>2. Search!Step(l)
  BY <1>1 DEF Search!Count, Matching
<1>3. /\ l \in ListRow /\ l.at = "page" /\ l.total = Search!Cardinality(Matching(listing)) /\ l.fast = listing.fast
      /\ l.fresh = listing.fresh /\ l.touched = listing.touched /\ l.query = listing.query /\ l.admin = listing.admin
  BY <1>0, <1>1 DEF ListRow
<1>4. TotalHolds(l)
  BY <1>3, SameCount DEF TotalHolds, Matching
<1>5. ListingHolds(l)
  BY <1>0, <1>3, <1>4 DEF ListingHolds, Current
<1>. QED BY <1>2, <1>5, ListingStep

LEMMA PlainPageStep ==
  ASSUME Search!QueryAssumption, QueryHolds, Search!PlainPage
  PROVE  QueryHolds'
<1>. DEFINE S == Search!PageOf(Matching(listing), listing.page)
            reached == listing.total > 0 /\ Search!Offset(listing.page) < listing.total
<1>0. /\ listing # NoListing /\ media \in MediaType /\ TotalHolds(listing) /\ listing.total \in Nat /\ listing.page \in Nat \ {0}
  BY At DEF Search!PlainPage, Search!Is, ListingHolds
<1>1. /\ S \in SUBSET Matching(listing) /\ S \in SUBSET Shots /\ IsFiniteSet(Matching(listing)) /\ Matching(listing) \subseteq Nat
  BY <1>0, RowsOf DEF Search!PageOf, Matching
<1>2. CASE ~reached
  <2>1. Search!Step(Search!Answer({}, listing.total))
    BY <1>2 DEF Search!PlainPage
  <2>2. ASSUME Current(listing), ~NoPlan(listing) PROVE S = {}
    <3>1. listing.total = Cardinality(Matching(listing)) /\ Search!Offset(listing.page) \in Nat
      BY <1>0, <2>2, Counting DEF TotalHolds
    <3>2. ASSUME NEW p \in S PROVE FALSE
      <4>1. p \in Matching(listing) /\ Cardinality(Below(Matching(listing), p)) >= Search!Offset(listing.page)
        BY <3>1, <3>2, PageIs
      <4>2. Cardinality(Below(Matching(listing), p)) < Cardinality(Matching(listing)) /\ Cardinality(Below(Matching(listing), p)) \in Nat
        <5>1. /\ p \in Nat /\ IsFiniteSet(Matching(listing) \ {p}) /\ Cardinality(Matching(listing) \ {p}) = Cardinality(Matching(listing)) - 1
              /\ Below(Matching(listing), p) \in SUBSET (Matching(listing) \ {p})
          BY <1>1, <4>1, FS_RemoveElement DEF Below
        <5>2. Cardinality(Below(Matching(listing), p)) <= Cardinality(Matching(listing) \ {p})
          BY <5>1, FS_Subset
        <5>3. Cardinality(Below(Matching(listing), p)) \in Nat
          BY <1>1, <5>1, BelowIsFinite
        <5>. QED BY <1>0, <3>1, <5>1, <5>2, <5>3
      <4>. QED BY <1>0, <1>2, <3>1, <4>1, <4>2
    <3>. QED BY <3>2
  <2>3. NoPlan(listing) \/ (Current(listing) => {} = S /\ listing.total = Cardinality(Matching(listing)))
    BY <1>0, <2>2 DEF TotalHolds
  <2>4. PICK e \in SUBSET Shots : e = {}
    OBVIOUS
  <2>. QED BY <1>0, <2>1, <2>3, <2>4, AnswerStep
<1>3. CASE reached /\ NoPlan(listing)
  BY <1>0, <1>3, FailStep DEF Search!PlainPage, NoPlan
<1>4. CASE reached /\ ~NoPlan(listing)
  <2>1. Search!Step(Search!Answer(S, listing.total))
    BY <1>4 DEF Search!PlainPage, NoPlan, Matching
  <2>2. S \ listing.touched \subseteq Matching(listing)
    BY <1>1
  <2>. QED BY <1>0, <1>1, <1>4, <2>1, <2>2, AnswerStep DEF TotalHolds
<1>. QED BY <1>2, <1>3, <1>4

LEMMA FilterStep ==
  ASSUME Search!QueryAssumption, QueryHolds, Search!Filter
  PROVE  QueryHolds'
<1>. DEFINE s == Search!Candidates(media, listing.query, listing.admin)
            read == [p \in Shots |-> IF p \in s THEN media[p] ELSE NoLook]
<1>0. /\ ListingHolds(listing) /\ listing # NoListing /\ listing \in ListRow /\ media \in MediaType
      /\ Search!PostFilter(listing.query)
  BY At DEF Search!Filter
<1>1. CASE Search!Cardinality(s) > Search!CandidateLimit(listing.page)
  BY <1>0, <1>1, FailStep DEF Search!Filter
<1>2. CASE ~(Search!Cardinality(s) > Search!CandidateLimit(listing.page))
  <2>1. PICK l : l = [listing EXCEPT !.at = "filter", !.read = read]
    OBVIOUS
  <2>2. read \in MediaType /\ \A p \in Shots : read[p] = IF p \in s THEN media[p] ELSE NoLook
    BY <1>0 DEF MediaType
  <2>3. Search!Step(l)
    BY <1>2, <2>1 DEF Search!Filter
  <2>. HIDE DEF read
  <2>4. /\ l \in ListRow /\ l.at = "filter" /\ l.read = read /\ l.fast = listing.fast
        /\ l.fresh = listing.fresh /\ l.touched = listing.touched /\ l.query = listing.query /\ l.admin = listing.admin
    BY <1>0, <2>1, <2>2 DEF ListRow
  <2>5. ReadsCandidates(l)
    BY <2>2, <2>4 DEF ReadsCandidates
  <2>6. ListingHolds(l)
    BY <1>0, <2>4, <2>5 DEF ListingHolds, Current
  <2>. QED BY <2>3, <2>6, ListingStep
<1>. QED BY <1>1, <1>2

\* What is kept of the rows read are the photos that match, but for those that changed.
LEMMA KeptIs ==
  ASSUME Search!QueryAssumption, media \in MediaType, NEW l \in ListRow, Search!PostFilter(l.query), ReadsCandidates(l)
  PROVE  /\ Search!Kept(l) \in SUBSET Shots
         /\ \A p \in Shots \ l.touched : p \in Search!Kept(l) <=> p \in Matching(l)
<1>1. Search!Kept(l) \in SUBSET Shots
  BY DEF Search!Kept, Search!Rows
<1>2. ASSUME NEW p \in Shots \ l.touched PROVE p \in Search!Kept(l) <=> p \in Matching(l)
  <2>1. l.read[p] = IF p \in Search!Candidates(media, l.query, l.admin) THEN media[p] ELSE NoLook
    BY <1>2 DEF ReadsCandidates
  <2>2. CASE p \in Search!Candidates(media, l.query, l.admin)
    <3>1. media[p] # NoLook /\ media[p] \in Search!Look /\ p \in Search!Rows(media) /\ p \in Search!Rows(l.read)
      BY <1>2, <2>1, <2>2, RowsOf DEF Search!Candidates, Search!Rows
    <3>2. [l.read[p] EXCEPT !.says["seen"] = Search!SeenNow(p)] = media[p]
      <4>1. PICK r \in Search!Look : r = media[p]
        BY <3>1
      <4>2. r.says \in [Search!Places -> SUBSET Words]
        BY LookFields
      <4>3. [r.says EXCEPT !["seen"] = r.says["seen"]] = r.says
        BY <4>2
      <4>4. [r EXCEPT !.says["seen"] = r.says["seen"]] = [r EXCEPT !.says = [r.says EXCEPT !["seen"] = r.says["seen"]]]
        BY DEF Search!Look
      <4>5. [r EXCEPT !.says = r.says] = r
        BY DEF Search!Look
      <4>6. Search!SeenNow(p) = r.says["seen"] /\ l.read[p] = r
        BY <2>1, <2>2, <3>1, <4>1 DEF Search!SeenNow
      <4>. QED BY <4>1, <4>3, <4>4, <4>5, <4>6
    <3>3. p \in Search!Kept(l) <=> Search!RowMatches(media[p], l.query)
      BY <3>1, <3>2 DEF Search!Kept
    <3>4. p \in Matching(l) <=> Search!RowMatches(media[p], l.query)
      BY <2>2 DEF Matching, Search!Search, Search!Candidates, Search!Found
    <3>. QED BY <3>3, <3>4
  <2>3. CASE p \notin Search!Candidates(media, l.query, l.admin)
    <3>1. p \notin Search!Kept(l)
      BY <2>1, <2>3 DEF Search!Kept, Search!Rows
    <3>2. p \notin Matching(l)
      BY <2>3 DEF Matching, Search!Search, Search!Candidates, Search!Found
    <3>. QED BY <3>1, <3>2
  <2>. QED BY <2>2, <2>3
<1>. QED BY <1>1, <1>2

LEMMA FilteredPageStep ==
  ASSUME Search!QueryAssumption, QueryHolds, Search!FilteredPage
  PROVE  QueryHolds'
<1>. DEFINE K == Search!Kept(listing)
            S == Search!PageOf(K, listing.page)
<1>0. /\ listing # NoListing /\ listing \in ListRow /\ media \in MediaType
      /\ Search!PostFilter(listing.query) /\ ReadsCandidates(listing)
  BY At DEF Search!FilteredPage, ListingHolds
<1>1. K \in SUBSET Shots /\ \A p \in Shots \ listing.touched : p \in K <=> p \in Matching(listing)
  BY <1>0, KeptIs
<1>2. S \in SUBSET K /\ Search!Step(Search!Answer(S, Search!Cardinality(K)))
  BY DEF Search!PageOf, Search!FilteredPage
<1>3. Search!Cardinality(K) = Cardinality(K) /\ Cardinality(K) \in Nat
  <2>1. IsFiniteSet(Shots)
    BY DEF Search!QueryAssumption, Search!IsFiniteSet, IsFiniteSet
  <2>. HIDE DEF K
  <2>. QED BY <1>1, <2>1, FS_Subset, FS_CardinalityType, SameCount
<1>4. Matching(listing) \in SUBSET Shots
  BY <1>0, RowsOf DEF Matching
<1>. HIDE DEF K
<1>5. Current(listing) => K = Matching(listing)
  BY <1>1, <1>4 DEF Current
<1>6. S \in SUBSET Shots /\ S \ listing.touched \subseteq Matching(listing)
  BY <1>1, <1>2
<1>7. Current(listing) => S = Search!PageOf(Matching(listing), listing.page) /\ Cardinality(K) = Cardinality(Matching(listing))
  BY <1>5
<1>. HIDE DEF S
<1>. QED BY <1>0, <1>2, <1>3, <1>6, <1>7, AnswerStep

LEMMA SearchNext == ASSUME Search!QueryAssumption, QueryHolds, [Search!Next]_(Search!queryVars) PROVE QueryHolds'
<1>1. CASE Search!Change \/ Search!Recount
  BY <1>1, ChangeSearch, RecountSearch
<1>2. CASE \E q \in Queries, admin \in BOOLEAN, k \in Pages : Search!Open(q, admin, k)
  BY <1>2, OpenSearch
<1>3. CASE Search!FastTotal \/ Search!Hidden \/ Search!NotFast \/ Search!Exclude \/ Search!FastPage
  BY <1>3, FastTotalStep, HiddenStep, NotFastStep, ExcludeStep, FastPageStep
<1>4. CASE Search!Count \/ Search!PlainPage \/ Search!Filter \/ Search!FilteredPage
  BY <1>4, CountStep, PlainPageStep, FilterStep, FilteredPageStep
<1>5. CASE Search!Close
  BY <1>5, SearchTypes DEF QueryHolds, Search!Close, Search!Step, Search!TypeOK
<1>6. CASE UNCHANGED Search!queryVars
  <2>1. UNCHANGED <<media, stats, listing, rowChanges>>
    BY <1>6 DEF Search!queryVars
  <2>2. listing # NoListing => ListingHolds(listing)'
    BY <2>1 DEF QueryHolds, ListingHolds, TotalHolds, Current, NoPlan, Matching, LeavesOutTagged,
                  CountedHolds, ReadsCandidates, Search!Fresh, Search!AnswerHolds, Search!Counted
  <2>. QED BY <2>1, <2>2 DEF QueryHolds, Search!TypeOK
<1>. QED BY <1>1, <1>2, <1>3, <1>4, <1>5, <1>6 DEF Search!Next

\* A search finds what matches, and a listing that nothing changed under answers the
\* page and the total of the matches, whatever the index and its counts do in between
\* (index_query_plan.go, index_query_media.go).
THEOREM SearchIsTrueAlways == Search!Spec => []SearchIsTrue
<1>1. Search!Init => QueryHolds
  BY SearchInstance, QueryInit
<1>2. QueryHolds /\ [Search!Next]_(Search!queryVars) => QueryHolds'
  BY SearchInstance, SearchNext
<1>3. QueryHolds => SearchIsTrue
  BY SearchInstance, QueryGives DEF SearchIsTrue
<1>. QED BY <1>1, <1>2, <1>3, PTL DEF Search!Spec
================================================================================
