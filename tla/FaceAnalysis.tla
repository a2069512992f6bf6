----------------------------- MODULE FaceAnalysis -----------------------------
(***************************************************************************)
(* FaceAnalysis: how photos get to the face service and its results into   *)
(* the index.  A background run takes queued photos one after the other, a *)
(* request may ask for one photo, and a gate lets one analysis go on at a  *)
(* time.  Meanwhile photos are written again, albums become private, the   *)
(* index is brought up to date, administrators pause, resume and clear the *)
(* analysis, and a second worker goes over the saved faces.                *)
(* Who a face is given to is the matter of FaceGroups.                     *)
(***************************************************************************)
EXTENDS Integers, FiniteSets

CONSTANTS
    Photos,        \* each in an album of its own
    Requests,      \* requests of administrators that are served at a time
    MaxRev,        \* bound: versions of the bytes of a photo
    MaxTries,      \* failed analyses after which a job is given up
    RunSize,       \* photos of one background run
    Batches,       \* batches of one pass over the saved faces
    Starts,        \* bound: which photos there are; how many changes on the drive and of
                   \* the references, refused statements and stops follow; how many orders
    NoJob, NoFaces, NoWork

VARIABLES
    drive,         \* per photo: version of its bytes, whether its album is marked private,
                   \* whether it cannot be read
    db,            \* media_index, photo_face_jobs, photo_faces, photo_retained_photo_faces
    enabled,       \* photo_face_state.enabled: changed photos are queued by the index
    settings,      \* photo_face_settings: analysis on, reconciliation on
    pass,          \* photo_face_reconciliation; dirty stands for generation <> run_generation
    run,           \* the background run and its lock
    recon,         \* the reconciliation worker and its lock
    work,          \* the analysis that holds the gate
    control,       \* requests of administrators
    bounds,        \* the photos there are, events and orders that are left
    ordered,       \* history: photos whose results a pass was ordered for
    covered,       \* history: those the pass that has begun is to go over
    cleared        \* history: all was deleted, and nobody asked for faces since

vars == <<drive, db, enabled, settings, pass, run, recon, work, control, bounds, ordered, covered, cleared>>
history == <<ordered, covered, cleared>>

ASSUME FaceAssumption ==
    /\ IsFiniteSet(Photos) /\ {MaxRev, MaxTries, RunSize, Batches} \subseteq Nat \ {0}
    /\ Starts \subseteq [photos : SUBSET Photos, events : Nat, orders : Nat]

-----------------------------------------------------------------------------
(* The drive                                                                *)

Ordered == bounds.orders > 0 /\ bounds' = [bounds EXCEPT !.orders = @ - 1]
Happens == bounds.events > 0 /\ bounds' = [bounds EXCEPT !.events = @ - 1]
OnDrive == UNCHANGED <<db, enabled, settings, pass, run, recon, work, control, history>>

\* Bytes that are written have a time of change they never had.
WritePhoto(p) == Happens /\ drive[p].rev < MaxRev /\ drive' = [drive EXCEPT ![p].rev = @ + 1] /\ OnDrive
MarkAlbum(p) == Happens /\ drive' = [drive EXCEPT ![p].marked = ~@] /\ OnDrive
\* An album cannot be read, and can again.
LoseAlbum(p) == Happens /\ ~drive[p].lost /\ drive' = [drive EXCEPT ![p].lost = TRUE] /\ OnDrive
FindAlbum(p) == drive[p].lost /\ drive' = [drive EXCEPT ![p].lost = FALSE] /\ UNCHANGED bounds /\ OnDrive

-----------------------------------------------------------------------------
(* The database: a row for each photo                                       *)
(*   rev: the version that was indexed (0: none); hidden: it is private     *)
(*   job: the version it is for, its state, failed attempts                 *)
(*   face: what was found; at is the version that was indexed then, of is   *)
(*     history: the version of the bytes that were looked at                *)
(*   kept: the faces of a photo that became private                         *)

Job(rev) == [rev |-> rev, status |-> "queued", attempts |-> 0]
InReview(row) == row.face # NoFaces /\ row.face.review
Doubted(face, rev) == IF face # NoFaces /\ face.at # rev THEN [face EXCEPT !.review = TRUE] ELSE face

\* photo_identity_private and photo_identity_public
Hide(row) == [row EXCEPT !.hidden = TRUE, !.kept = row.face, !.face = NoFaces, !.job = NoJob]
Show(row) == [row EXCEPT !.hidden = FALSE, !.face = row.kept, !.kept = NoFaces]

\* photo_media_faces_invalidate: a new version puts faces in doubt, which no
\* job may replace.
Indexed(row, rev) ==
    LET new == [row EXCEPT !.rev = rev, !.face = Doubted(row.face, rev)]
    IN  IF row.rev # rev /\ InReview(new) THEN [new EXCEPT !.job = NoJob] ELSE new

\* queueFaceMediaTx
Analyzed(row) == /\ row.face # NoFaces /\ ~InReview(row) /\ row.face.at = row.rev
                 /\ row.job # NoJob /\ row.job.status = "done"
QueueMedia_Always(row) ==  \* mutant: whether anything is queued is not asked
    IF row.hidden \/ Analyzed(row) \/ (row.job # NoJob /\ row.job.rev = row.rev)
    THEN row ELSE [row EXCEPT !.job = Job(row.rev)]
QueueMedia(row) ==
    IF ~enabled \/ row.hidden \/ Analyzed(row) \/ (row.job # NoJob /\ row.job.rev = row.rev)
    THEN row ELSE [row EXCEPT !.job = Job(row.rev)]

\* What is read from the drive is saved, in one transaction with its triggers.
SaveMedia(row, now) ==
    LET seen == IF row.hidden = now.marked THEN row ELSE IF now.marked THEN Hide(row) ELSE Show(row)
    IN  QueueMedia(Indexed(seen, now.rev))
\* What cannot be read stays as it is.
Refreshed(row, now) ==
    IF now.lost \/ (row.rev = now.rev /\ row.hidden = now.marked) THEN row ELSE SaveMedia(row, now)
Refresh(d, p) == [d EXCEPT ![p] = Refreshed(@, drive[p])]

\* refreshFaceDirectories: albums with faces or jobs that were marked since
\* become private, one after the other up to one that cannot be read.
HideMarked(d, ps) == [p \in Photos |-> IF p \in ps THEN Hide(d[p]) ELSE d[p]]
Watched(d) == {p \in Photos : ~d[p].hidden /\ d[p].rev > 0 /\ (d[p].face # NoFaces \/ d[p].job # NoJob)}
Marked(d) == {p \in Watched(d) : drive[p].marked /\ ~drive[p].lost}
Unreadable(d) == {p \in Watched(d) : drive[p].lost}

\* A rebuild of the index, or a request that looks at the photo, finds it
\* changed; a request for the state of the analysis looks at the markers.
IndexPhoto(p) ==
    /\ Refreshed(db[p], drive[p]) # db[p]
    /\ db' = Refresh(db, p)
    /\ UNCHANGED <<drive, enabled, settings, pass, run, recon, work, control, bounds, history>>
FaceStatus ==
    /\ Marked(db) # {}
    /\ \E ps \in SUBSET Marked(db) : (ps = Marked(db) \/ Unreadable(db) # {}) /\ db' = HideMarked(db, ps)
    /\ UNCHANGED <<drive, enabled, settings, pass, run, recon, work, control, bounds, history>>

\* ScheduleFaceReconciliation, and the triggers face_reconcile_*
Schedule(x) == [x EXCEPT !.pending = TRUE, !.dirty = TRUE]
Recognized == {p \in Photos : db[p].face # NoFaces}
OrderPass ==
    /\ pass' = Schedule(pass)
    /\ ordered' = Recognized /\ covered' = covered \ Recognized
OrderNoPass == UNCHANGED <<pass, ordered, covered>>

-----------------------------------------------------------------------------
(* One analysis, by the run or by a request.  It holds the gate from the    *)
(* choice of the job to the record of what became of it.                    *)

GateIsFree == work = NoWork
Analyzing(at) == work # NoWork /\ work.at = at
\* faceRuntime.mu: one result or one batch of the second worker at a time.
RuntimeIsFree == recon.pc # "batch" /\ ~Analyzing("write")
Mixed == 0  \* faces of two versions
Works == [by : {"run", "request"}, photo : Photos, rev : 1 .. MaxRev, attempts : 0 .. MaxTries - 1,
          at : {"queue", "read", "analyze", "refine", "check", "write", "done", "fail"}, of : 0 .. MaxRev]
ASSUME WorkAssumption == NoWork \notin Works
Work(by, p, rev, attempts, at) == [by |-> by, photo |-> p, rev |-> rev, attempts |-> attempts, at |-> at, of |-> 0]
Go(at) == work' = [work EXCEPT !.at = at]
InAnalysis == UNCHANGED <<drive, enabled, settings, pass, run, recon, control, bounds>>

\* PrepareFacePhoto: the photo is indexed, and a job is queued for what was
\* found, whatever has been queued or has happened in between.
AnalyzePhoto(p) ==
    /\ GateIsFree /\ ~drive[p].lost /\ Ordered
    /\ db' = Refresh(HideMarked(db, Marked(db) \cap {p}), p)
    /\ work' = IF drive[p].marked THEN NoWork ELSE Work("request", p, drive[p].rev, 0, "queue")
    /\ UNCHANGED <<drive, enabled, settings, pass, run, recon, control, history>>
PrepareFacePhoto ==
    /\ Analyzing("queue")
    /\ db' = [db EXCEPT ![work.photo].job = Job(work.rev)]
    /\ cleared' = FALSE
    /\ Go("read") /\ InAnalysis /\ UNCHANGED <<ordered, covered>>

\* The bytes are those of now, whatever version the job is for; small faces are
\* cut out of the photo once more after the service has answered.
FaceImage ==
    /\ Analyzing("read")
    /\ \/ /\ ~drive[work.photo].marked /\ ~drive[work.photo].lost
          /\ work' = [work EXCEPT !.at = "analyze", !.of = drive[work.photo].rev]
       \/ Go("fail")
    /\ InAnalysis /\ UNCHANGED <<db, history>>
Analyze ==
    /\ Analyzing("analyze") /\ (Go("refine") \/ Go("fail"))
    /\ InAnalysis /\ UNCHANGED <<db, history>>
RefineFaceResult ==
    /\ Analyzing("refine")
    /\ \/ /\ ~drive[work.photo].marked /\ ~drive[work.photo].lost
          /\ work' = [work EXCEPT !.at = "check", !.of = IF drive[work.photo].rev = @ THEN @ ELSE Mixed]
       \/ Go("fail")
    /\ InAnalysis /\ UNCHANGED <<db, history>>

\* CommitFaceResult: the photo is looked at and saved if it changed, and then,
\* in the transaction of the result, row, review and job are looked at again.
CheckMedia ==
    /\ Analyzing("check") /\ RuntimeIsFree
    /\ db' = Refresh(db, work.photo)
    /\ IF drive[work.photo] = [rev |-> work.rev, marked |-> FALSE, lost |-> FALSE] THEN Go("write") ELSE Go("fail")
    /\ InAnalysis /\ UNCHANGED history
Acceptable_JobOnly(row, rev) ==  \* mutant: the row of the photo is not looked at again
    ~InReview(row) /\ row.job # NoJob /\ row.job.rev = rev
Acceptable(row, rev) ==
    ~InReview(row) /\ row.rev = rev /\ ~row.hidden /\ row.job # NoJob /\ row.job.rev = rev
WriteResult ==
    /\ Analyzing("write")
    /\ \/ /\ Acceptable(db[work.photo], work.rev)
          /\ \E face \in {NoFaces, [of |-> work.of, at |-> work.rev, review |-> FALSE]} :
                db' = [db EXCEPT ![work.photo].face = face, ![work.photo].job = [Job(work.rev) EXCEPT !.status = "done"]]
          /\ Go("done")
          /\ ordered' = ordered \ {work.photo} /\ covered' = covered \ {work.photo}
          /\ UNCHANGED cleared
       \* Also when the references changed since they were read.
       \/ Go("fail") /\ UNCHANGED <<db, history>>
    /\ InAnalysis

FailJob(d, w) ==
    IF d[w.photo].job = NoJob \/ d[w.photo].job.rev # w.rev THEN d
    ELSE [d EXCEPT ![w.photo].job = [rev |-> w.rev, attempts |-> w.attempts + 1,
                                     status |-> IF w.attempts + 1 >= MaxTries THEN "failed" ELSE "queued"]]

\* A request fails its job, is answered, or is gone at any time before.
EndRequest ==
    /\ work # NoWork /\ work.by = "request" /\ work.at \in {"fail", "done"}
    /\ db' = IF work.at = "fail" THEN FailJob(db, work) ELSE db
    /\ work' = NoWork
    /\ InAnalysis /\ UNCHANGED history
LeaveRequest ==
    /\ work # NoWork /\ work.by = "request" /\ work.at # "done" /\ work' = NoWork
    /\ InAnalysis /\ UNCHANGED <<db, history>>

Analysis == PrepareFacePhoto \/ FaceImage \/ Analyze \/ RefineFaceResult \/ CheckMedia \/ WriteResult \/ EndRequest

\* ConfirmFaceSource, under the gate: somebody looks at faces in doubt and
\* keeps them for the version that is there now; the first time that is a
\* correction, which orders a pass.
ConfirmFaces(p) ==
    /\ GateIsFree /\ RuntimeIsFree /\ InReview(db[p])
    /\ drive[p] = [rev |-> db[p].rev, marked |-> FALSE, lost |-> FALSE] /\ ~db[p].hidden
    /\ db' = [db EXCEPT ![p].face = [of |-> drive[p].rev, at |-> drive[p].rev, review |-> FALSE], ![p].job = NoJob]
    /\ OrderPass \/ OrderNoPass
    /\ UNCHANGED <<drive, enabled, settings, run, recon, work, control, bounds, cleared>>

-----------------------------------------------------------------------------
(* The background run                                                       *)

IdleRun == [pc |-> "idle", cancelled |-> FALSE, committed |-> FALSE, n |-> 0, rows |-> {}]
NewRun == [IdleRun EXCEPT !.pc = "begin"]
RunAt(pc) == run.pc = pc
WithinRun == UNCHANGED <<drive, settings, pass, recon, control, history>>
InRun == WithinRun /\ UNCHANGED bounds

\* startFaceRun does nothing while the lock is held.
Started(r) == IF r.pc = "idle" THEN NewRun ELSE r
Cancelled(r) == IF r.pc \in {"idle", "clear"} THEN r ELSE [r EXCEPT !.cancelled = TRUE]

\* processFaceBatch up to the queue: the setting, and the health of the service.
RunBegin ==
    /\ RunAt("begin") /\ settings.faces /\ ~run.cancelled
    /\ run' = [run EXCEPT !.pc = "prepare"]
    /\ UNCHANGED <<db, enabled, work>> /\ InRun
RunGivesUp ==
    /\ RunAt("begin")
    /\ run' = [run EXCEPT !.pc = "end"]
    /\ UNCHANGED <<db, enabled, work>> /\ InRun

\* PrepareFaceQueue: an album that cannot be read ends the run, whatever else
\* is queued.  Otherwise enabled is set, then the rows are read, then jobs are
\* made of them; whatever fails in between takes enabled back, if it can.
Backlog(d) == {<<p, d[p].rev>> : p \in {q \in Photos : d[q].rev > 0 /\ ~d[q].hidden}}
RunPrepare ==
    /\ RunAt("prepare") /\ Unreadable(db) = {}
    /\ db' = HideMarked(db, Marked(db))
    /\ \/ enabled /\ run' = [run EXCEPT !.pc = "loop"] /\ UNCHANGED enabled
       \/ ~enabled /\ enabled' = TRUE /\ run' = [run EXCEPT !.pc = "fill", !.rows = Backlog(db')]
    /\ UNCHANGED work /\ InRun
RunCannotPrepare ==
    /\ RunAt("prepare") /\ Unreadable(db) # {}
    /\ \E ps \in SUBSET Marked(db) : db' = HideMarked(db, ps)
    /\ run' = [run EXCEPT !.pc = "end"]
    /\ UNCHANGED <<enabled, work>> /\ InRun
Filled(p) ==
    IF \E row \in run.rows : row[1] = p /\ (db[p].job = NoJob \/ db[p].job.rev # row[2])
    THEN [db[p] EXCEPT !.job = Job((CHOOSE row \in run.rows : row[1] = p)[2])] ELSE db[p]
RunFill ==
    /\ RunAt("fill")
    /\ \/ /\ db' = [p \in Photos |-> Filled(p)]
          /\ run' = [run EXCEPT !.pc = "loop", !.rows = {}] /\ UNCHANGED enabled
       \/ run.cancelled /\ enabled' = FALSE /\ run' = [run EXCEPT !.pc = "end", !.rows = {}] /\ UNCHANGED db
    /\ UNCHANGED work /\ InRun

\* Before each photo: cancelled, turned off, enough?
RunLoop ==
    /\ RunAt("loop")
    /\ run' = [run EXCEPT !.pc = IF run.cancelled \/ ~settings.faces \/ run.n = RunSize THEN "end" ELSE "wait"]
    /\ UNCHANGED <<db, enabled, work>> /\ InRun

\* NextFaceJob, under the gate: a job that failed is due after a time; those
\* that never did come first.
Ready == {p \in Photos : db[p].job # NoJob /\ db[p].job.status = "queued" /\ ~InReview(db[p])}
Due == LET untried == {p \in Ready : db[p].job.attempts = 0} IN IF untried # {} THEN untried ELSE Ready
RunTake(p) ==
    /\ RunAt("wait") /\ ~run.cancelled /\ GateIsFree /\ p \in Due
    /\ work' = Work("run", p, db[p].job.rev, db[p].job.attempts, "read")
    /\ run' = [run EXCEPT !.pc = "analyze"]
    /\ UNCHANGED <<db, enabled>> /\ InRun
RunRests ==
    /\ RunAt("wait") /\ (run.cancelled \/ (GateIsFree /\ \A p \in Due : db[p].job.attempts > 0))
    /\ run' = [run EXCEPT !.pc = "end"]
    /\ UNCHANGED <<db, enabled, work>> /\ InRun

\* After AnalyzeJob the run looks first whether it was cancelled: then it
\* neither remembers a result nor records a failure.
RunDone ==
    /\ RunAt("analyze") /\ work.at \in {"fail", "done"}
    /\ work' = NoWork
    /\ \/ run.cancelled /\ run' = [run EXCEPT !.pc = "end"] /\ UNCHANGED db
       \/ /\ ~run.cancelled
          /\ db' = IF work.at = "fail" THEN FailJob(db, work) ELSE db
          /\ run' = [run EXCEPT !.pc = "loop", !.n = @ + 1, !.committed = @ \/ work.at = "done"]
    /\ UNCHANGED enabled /\ InRun
RunStops ==
    /\ RunAt("analyze") /\ run.cancelled /\ work.at \notin {"fail", "done"}
    /\ Go("fail") /\ UNCHANGED <<db, enabled, run>> /\ InRun

\* The database refuses a statement between two analyses, during the backfill,
\* or the one that counts a failure.
RunFails ==
    /\ Happens
    /\ \/ run.pc \in {"prepare", "loop", "wait"} /\ UNCHANGED <<enabled, work>>
       \/ RunAt("fill") /\ enabled' \in {FALSE, enabled} /\ UNCHANGED work
       \/ RunAt("analyze") /\ work.at = "fail" /\ work' = NoWork /\ UNCHANGED enabled
    /\ run' = [run EXCEPT !.pc = "end", !.rows = {}]
    /\ UNCHANGED db /\ WithinRun

\* A pass is ordered, unless the database refuses that.
RunEnd ==
    /\ RunAt("end")
    /\ run' = IdleRun
    /\ IF run.committed THEN OrderPass ELSE OrderNoPass
    /\ UNCHANGED <<drive, db, enabled, settings, recon, work, control, bounds, cleared>>
RunEndsUnordered ==
    /\ RunAt("end") /\ run.committed /\ Happens
    /\ run' = IdleRun /\ OrderNoPass
    /\ UNCHANGED <<drive, db, enabled, settings, recon, work, control, cleared>>

-----------------------------------------------------------------------------
(* The second worker goes over the saved faces, a batch at a time; what has *)
(* been gone over and the end of the pass are saved with the batch.         *)

IdleRecon == [pc |-> "idle", cancelled |-> FALSE]
StartedRecon(c) == IF c.pc = "idle" THEN [c EXCEPT !.pc = "begin"] ELSE c
CancelledRecon(c) == IF c.pc \in {"idle", "clear"} THEN c ELSE [c EXCEPT !.cancelled = TRUE]
InRecon == UNCHANGED <<drive, db, enabled, settings, run, work, control, cleared>>

Begun(x) == IF x.running THEN x ELSE [x EXCEPT !.running = TRUE, !.dirty = FALSE, !.left = Batches]
ReconChecks ==
    /\ recon.pc = "begin" /\ settings.reconcile /\ ~recon.cancelled
    /\ recon' = [recon EXCEPT !.pc = "ready"]
    /\ UNCHANGED <<pass, bounds, ordered, covered>> /\ InRecon
ReconBegin ==
    /\ recon.pc = "ready" /\ pass.pending /\ ~recon.cancelled /\ RuntimeIsFree
    /\ pass' = Begun(pass)
    /\ \/ pass.running /\ UNCHANGED <<ordered, covered>>
       \/ ~pass.running /\ covered' = ordered /\ ordered' = {}
    /\ recon' = [recon EXCEPT !.pc = "batch"]
    /\ UNCHANGED bounds /\ InRecon
ReconIdles ==
    /\ \/ recon.pc = "begin" /\ ~settings.reconcile
       \/ recon.pc = "ready" /\ ~pass.pending
       \/ recon.pc \in {"begin", "ready"} /\ recon.cancelled
    /\ recon' = IdleRecon
    /\ UNCHANGED <<pass, bounds, ordered, covered>> /\ InRecon

\* ReconcileFacesBatch: a request for another pass has counted the generation up.
Batched_Settles(x) ==  \* mutant: what was ordered meanwhile is forgotten
    IF x.left > 1 THEN [x EXCEPT !.left = @ - 1] ELSE [x EXCEPT !.left = 0, !.running = FALSE, !.pending = FALSE]
Batched(x) == IF x.left > 1 THEN [x EXCEPT !.left = @ - 1]
              ELSE [x EXCEPT !.left = 0, !.running = FALSE, !.pending = x.dirty]
ReconBatch ==
    /\ recon.pc = "batch" /\ ~recon.cancelled
    /\ pass' = Batched(pass)
    /\ covered' = IF pass.left > 1 THEN covered ELSE {}
    /\ recon' = IdleRecon
    /\ UNCHANGED <<bounds, ordered>> /\ InRecon
\* It is cancelled, or the references are not those it has read.
ReconStops ==
    /\ recon.pc = "batch"
    /\ \/ recon.cancelled /\ UNCHANGED bounds
       \/ Happens
    /\ recon' = IdleRecon
    /\ UNCHANGED <<pass, ordered, covered>> /\ InRecon

-----------------------------------------------------------------------------
(* RunFaceWorker, by its timer or woken                                     *)

LoopRun ==
    /\ settings.faces /\ run.pc = "idle" /\ run' = NewRun
    /\ UNCHANGED <<drive, db, enabled, settings, pass, recon, work, control, bounds, history>>
LoopReconcile ==
    /\ settings.reconcile /\ pass.pending /\ recon.pc = "idle" /\ recon' = StartedRecon(recon)
    /\ UNCHANGED <<drive, db, enabled, settings, pass, run, work, control, bounds, history>>

-----------------------------------------------------------------------------
(* Orders.  Each reads all settings and later writes all of them.           *)

Orders == {"pause", "resume", "reconcile", "reconcile-resume", "reconcile-pause", "retry", "clear", "form"}
NoOrder == [pc |-> "idle", order |-> "none", saves |-> [faces |-> FALSE, reconcile |-> FALSE]]

\* What an order will write; a form says whether photos are to be analysed.
Wanted(order, s) ==
    CASE order = "pause"                              -> {[s EXCEPT !.faces = FALSE]}
      [] order = "resume"                             -> {[s EXCEPT !.faces = TRUE]}
      [] order \in {"reconcile", "reconcile-resume"}  -> {[s EXCEPT !.reconcile = TRUE]}
      [] order = "reconcile-pause"                    -> {[s EXCEPT !.reconcile = FALSE]}
      [] order = "clear"                              -> {[faces |-> FALSE, reconcile |-> FALSE]}
      [] order = "form"                               -> {[s EXCEPT !.faces = f] : f \in BOOLEAN}
      [] OTHER                                        -> {s}
Advance(r, pc) == control' = [control EXCEPT ![r].pc = pc]
AtOrder(r, pc) == control[r].pc = pc
ReadSettings(r, order) ==
    /\ AtOrder(r, "idle") /\ Ordered
    /\ \E s \in Wanted(order, settings) :
          control' = [control EXCEPT ![r] = [pc |-> IF order = "retry" THEN "act" ELSE "save", order |-> order, saves |-> s]]
    /\ UNCHANGED <<drive, db, enabled, settings, pass, run, recon, work, history>>

\* saveFaceSettings: new thresholds begin the pass again; the settings and
\* what the index goes by are in two databases.
Rethought(x) == [x EXCEPT !.pending = TRUE, !.running = FALSE, !.dirty = TRUE, !.left = 0]
SaveSettings(r) ==
    /\ AtOrder(r, "save") /\ RuntimeIsFree
    /\ settings' = control[r].saves
    /\ \/ OrderNoPass
       \/ /\ control[r].order = "form" /\ pass' = Rethought(pass)
          /\ ordered' = ordered \cup covered /\ covered' = {}
    /\ cleared' = (cleared /\ ~settings'.faces)
    /\ Advance(r, "enable")
    /\ UNCHANGED <<drive, db, enabled, run, recon, work, bounds>>
SetFaceProcessingEnabled(r) ==
    /\ AtOrder(r, "enable")
    /\ enabled' = (enabled /\ control[r].saves.faces)
    /\ Advance(r, "act")
    /\ UNCHANGED <<drive, db, settings, pass, run, recon, work, bounds, history>>

Retried(job) ==
    IF job # NoJob /\ (job.status = "failed" \/ (job.status = "queued" /\ job.attempts > 0)) THEN Job(job.rev) ELSE job

RunAfter(o) ==
    CASE o.order \in {"pause", "clear"}              -> Cancelled(run)
      [] o.order \in {"resume", "form", "retry"}     -> IF o.saves.faces THEN Started(run)
                                                        ELSE IF o.order = "form" THEN Cancelled(run) ELSE run
      [] OTHER                                       -> run
ReconAfter(o) ==
    CASE o.order \in {"reconcile", "reconcile-resume"} -> StartedRecon(recon)
      [] o.order \in {"reconcile-pause", "clear"}      -> CancelledRecon(recon)
      [] OTHER                                         -> recon
Act(r) ==
    LET o == control[r]
    IN  /\ AtOrder(r, "act")
        /\ db' = IF o.order = "retry" THEN [p \in Photos |-> [db[p] EXCEPT !.job = Retried(@)]] ELSE db
        /\ IF o.order = "reconcile" THEN OrderPass ELSE OrderNoPass
        /\ run' = RunAfter(o) /\ recon' = ReconAfter(o)
        /\ control' = [control EXCEPT ![r] = IF o.order = "clear" THEN [o EXCEPT !.pc = "run"] ELSE NoOrder]
        /\ UNCHANGED <<drive, enabled, settings, work, bounds, cleared>>

\* Before everything is deleted both workers have to end, and stay away.
LockRun(r) ==
    /\ AtOrder(r, "run") /\ run.pc = "idle" /\ run' = [run EXCEPT !.pc = "clear"] /\ Advance(r, "recon")
    /\ UNCHANGED <<drive, db, enabled, settings, pass, recon, work, bounds, history>>
LockRecon(r) ==
    /\ AtOrder(r, "recon") /\ recon.pc = "idle" /\ recon' = [recon EXCEPT !.pc = "clear"] /\ Advance(r, "gate")
    /\ UNCHANGED <<drive, db, enabled, settings, pass, run, work, bounds, history>>

Emptied(row) == [row EXCEPT !.job = NoJob, !.face = NoFaces, !.kept = NoFaces]
ClearFaces(r) ==
    /\ AtOrder(r, "gate") /\ GateIsFree
    /\ db' = [p \in Photos |-> Emptied(db[p])] /\ enabled' = FALSE
    /\ pass' = [pending |-> TRUE, running |-> FALSE, dirty |-> TRUE, left |-> 0]
    /\ ordered' = {} /\ covered' = {} /\ cleared' = ~settings.faces
    /\ run' = IdleRun /\ recon' = IdleRecon
    /\ control' = [control EXCEPT ![r] = NoOrder]
    /\ UNCHANGED <<drive, settings, work, bounds>>
\* The request is gone while it waits for the gate.
LeaveClear(r) ==
    /\ AtOrder(r, "gate")
    /\ run' = IdleRun /\ recon' = IdleRecon
    /\ control' = [control EXCEPT ![r] = NoOrder]
    /\ UNCHANGED <<drive, db, enabled, settings, pass, work, bounds, history>>

-----------------------------------------------------------------------------
(* The process stops; the databases stay.                                   *)

Stop ==
    /\ Happens
    /\ run' = IdleRun /\ recon' = IdleRecon /\ work' = NoWork
    /\ control' = [r \in Requests |-> NoOrder]
    /\ UNCHANGED <<drive, db, enabled, settings, pass, history>>

\* A database that was cleared, or never used for faces, and gone over since.
Init ==
    /\ drive = [p \in Photos |-> [rev |-> 1, marked |-> FALSE, lost |-> FALSE]]
    /\ bounds \in Starts
    /\ \E seen \in {0, 1} :
          db = [p \in Photos |-> [rev |-> IF p \in bounds.photos THEN seen ELSE 0, hidden |-> FALSE,
                                  job |-> NoJob, face |-> NoFaces, kept |-> NoFaces]]
    /\ settings = [faces |-> TRUE, reconcile |-> TRUE]
    /\ enabled = FALSE
    /\ pass = [pending |-> FALSE, running |-> FALSE, dirty |-> FALSE, left |-> 0]
    /\ run = IdleRun /\ recon = IdleRecon /\ work = NoWork
    /\ control = [r \in Requests |-> NoOrder]
    /\ ordered = {} /\ covered = {} /\ cleared = FALSE

Run == \/ RunBegin \/ RunPrepare \/ RunCannotPrepare \/ RunFill \/ RunLoop \/ RunRests \/ RunDone \/ RunStops \/ RunEnd
       \/ \E p \in Photos : RunTake(p)
Reconciling == ReconChecks \/ ReconBegin \/ ReconIdles \/ ReconBatch \/ (recon.cancelled /\ ReconStops)
Order(r) == SaveSettings(r) \/ SetFaceProcessingEnabled(r) \/ Act(r) \/ LockRun(r) \/ LockRecon(r) \/ ClearFaces(r)

Next ==
    \/ \E p \in Photos : p \in bounds.photos /\
          (\/ WritePhoto(p) \/ MarkAlbum(p) \/ LoseAlbum(p) \/ FindAlbum(p)
           \/ IndexPhoto(p) \/ AnalyzePhoto(p) \/ ConfirmFaces(p))
    \/ FaceStatus \/ Analysis \/ LeaveRequest \/ Run \/ RunGivesUp \/ RunFails \/ RunEndsUnordered
    \/ Reconciling \/ ReconStops \/ LoopRun \/ LoopReconcile
    \/ \E r \in Requests : Order(r) \/ LeaveClear(r) \/ \E order \in Orders : ReadSettings(r, order)
    \/ Stop

\* Every goroutine goes on; the service answers, and a job comes up again and finds
\* the gate free, again and again.
Fairness ==
    /\ WF_vars(Run) /\ SF_vars(RunBegin) /\ \A p \in Photos : SF_vars(RunTake(p))
    /\ WF_vars(Analysis) /\ WF_vars(Reconciling) /\ WF_vars(LoopRun) /\ WF_vars(LoopReconcile)
    /\ \A r \in Requests : WF_vars(Order(r))
Spec == Init /\ [][Next]_vars
FairSpec == Spec /\ Fairness

-----------------------------------------------------------------------------
(* Properties                                                               *)

\* What the parts consist of.
JobTypes == [rev : 1 .. MaxRev, status : {"queued", "done", "failed"}, attempts : 0 .. MaxTries]
FaceTypes == [of : 0 .. MaxRev, at : 1 .. MaxRev, review : BOOLEAN]
Rows == [rev : 0 .. MaxRev, hidden : BOOLEAN, job : {NoJob} \cup JobTypes,
         face : {NoFaces} \cup FaceTypes, kept : {NoFaces} \cup FaceTypes]
TypeOK ==
    /\ drive \in [Photos -> [rev : 1 .. MaxRev, marked : BOOLEAN, lost : BOOLEAN]]
    /\ db \in [Photos -> Rows]
    /\ enabled \in BOOLEAN /\ settings \in [faces : BOOLEAN, reconcile : BOOLEAN]
    /\ pass \in [pending : BOOLEAN, running : BOOLEAN, dirty : BOOLEAN, left : 0 .. Batches]

\* A photo the index knows as private has no faces, whatever order its album is
\* marked, the index is brought up to date and an analysis ends in: the result
\* of a photo that became private on the way is refused (CommitFaceResult).
HiddenHasNoFaces == \A p \in Photos : db[p].hidden => db[p].face = NoFaces

\* Faces that nobody has to look at again were found in the bytes the index has
\* on record, although the bytes are read after the job is chosen and the result
\* is saved after the bytes are read (CommitFaceResult, photo_media_faces_invalidate).
FacesAreOfThePhoto ==
    \A p \in Photos : db[p].face # NoFaces /\ ~InReview(db[p]) =>
        db[p].face.of = db[p].face.at /\ db[p].face.at = db[p].rev

FaceInv == TypeOK /\ HiddenHasNoFaces /\ FacesAreOfThePhoto

\* After an administrator had everything deleted there is nothing again until
\* settings are saved that turn the analysis on or somebody asks for one photo,
\* whatever the workers, the index and other orders were doing (the clear branch
\* of handleFaceControl, ClearFaces).
ClearedStaysCleared ==
    cleared => \A p \in Photos : db[p].job = NoJob /\ db[p].face = NoFaces /\ db[p].kept = NoFaces

\* Results a pass is on order for are gone over, also when the order came in the
\* middle of a pass, thresholds began it again, or it was cancelled or died between
\* two batches; unless they are replaced first (photo_face_reconciliation).
Owed == ordered \cup covered
OrderedIsReconciled == \A p \in Photos : []<>(p \notin Owed \/ ~settings.reconcile)

\* A queued photo is analysed, given up or put aside for review as long as the
\* analysis is on and every album with faces or jobs can be read, with photos that
\* keep failing, runs that break off and requests that take the gate in between
\* (PrepareFaceQueue, NextFaceJob, FailFaceJob).
Queued(p) == p \in Ready
=============================================================================
