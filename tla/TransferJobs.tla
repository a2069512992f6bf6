---------------------------- MODULE TransferJobs ----------------------------
(***************************************************************************)
(* The job engine of internal/transfers: export jobs and connections in    *)
(* transfers.db, the run loop and the preview loop, the requests of the    *)
(* administrators, and the restarts of the process.                        *)
(*                                                                         *)
(* An action is what one goroutine does between two points at which the    *)
(* others can interfere.  Requests hold e.mu from their first read to      *)
(* their last effect, but the loops write job states without it; that is   *)
(* why a request is two actions.                                           *)
(***************************************************************************)
EXTENDS Integers, FiniteSets

CONSTANTS
    Jobs,          \* identifiers of jobs; each is used once
    Conns,         \* configured connections
    ConnOf,        \* the connection a job was previewed for
    Nobody,        \* no job and no connection
    RetryLimit,    \* automatic retries of a job before it pauses
    MaxEvents,     \* bound: requests, shutdowns and crashes of a behaviour
    DeadRequests   \* whether a client may abandon a request half-way

ASSUME JobsAssumption ==
    /\ ConnOf \in [Jobs -> Conns]
    /\ Nobody \notin Jobs \union Conns
    /\ RetryLimit \in Nat
    /\ MaxEvents \in Nat
    /\ DeadRequests \in BOOLEAN

VARIABLES
    conn,      \* table connections
    job,       \* table jobs; items and directories only as "plan"
    draft,     \* NewPreview between its read and its INSERT: a revision
    pick,      \* SetBase between its read and its save: a revision
    mu,        \* e.mu, with the request that holds it
    reg,       \* e.cancels: whose cancel function is registered for a job
    run,       \* the goroutine of Run
    prev,      \* the goroutine of previewLoop
    stopping,  \* the context of the background jobs is cancelled
    events     \* environment events left

vars == <<conn, job, draft, pick, mu, reg, run, prev, stopping, events>>

-----------------------------------------------------------------------------
(* Types *)

States == {"absent", "preparing", "planning", "ready", "queued", "running",
           "waiting", "paused", "failed", "partial", "complete", "cancelled",
           "gone"}
Attempts == 0 .. RetryLimit
Connection == [rev : Nat, enabled : BOOLEAN, connected : BOOLEAN, based : BOOLEAN]
Job == [st : States, sub : BOOLEAN, rev : Nat, att : Attempts,
        seq : Nat, expired : BOOLEAN, plan : {"none", "partial", "full"}]

Starts == {"start", "resume", "retry"}
Halts  == {"pause", "cancel"}
NoRev  == -1
Free   == [op |-> "free", on |-> Nobody]

RunPcs  == {"idle", "claimed", "active", "loaded", "upload", "drained",
            "verdict", "final", "release", "ended"}
Active  == {"active", "loaded", "upload", "drained", "verdict", "final"}
PrevPcs == {"idle", "claimed", "check", "walk", "list", "planned", "failed",
            "release", "ended"}
Runner    == [pc : RunPcs, job : Jobs \union {Nobody}, live : BOOLEAN, rev : Nat,
              att : Attempts, err : {"none", "retry", "stop"}]
Previewer == [pc : PrevPcs, job : Jobs \union {Nobody}, live : BOOLEAN]
Holder    == {Free} \union [op : Starts \union Halts, on : Jobs]
                    \union [op : {"sweep"}, on : Conns]
RunIdle  == [pc |-> "idle", job |-> Nobody, live |-> FALSE, rev |-> 0,
             att |-> 0, err |-> "none"]
PrevIdle == [pc |-> "idle", job |-> Nobody, live |-> FALSE]

Absent == [st |-> "absent", sub |-> FALSE, rev |-> 0, att |-> 0, seq |-> 0,
           expired |-> FALSE, plan |-> "none"]
Gone   == [Absent EXCEPT !.st = "gone"]

-----------------------------------------------------------------------------
(* Helpers *)

Exists(j) == job[j].st \notin {"absent", "gone"}
JobsOf(c) == {j \in Jobs : ConnOf[j] = c}

\* The connection is the one a job with revision r was previewed for.
Usable(c, r) == conn[c].rev = r /\ conn[c].enabled /\ conn[c].connected

\* A context is done when it was cancelled itself or its parent was.
RunLive  == run.live /\ ~stopping
PrevLive == prev.live /\ ~stopping

\* UPDATE jobs SET state=to WHERE id=j AND state=from
Finish_Unconditional(j, from, to) == job' = [job EXCEPT ![j].st = to]
Finish(j, from, to) ==
    job' = [job EXCEPT ![j].st = IF @ = from THEN to ELSE @]

Pausable == {"preparing", "planning", "ready", "queued", "running", "waiting"}
PauseAll(c) ==
    [j \in Jobs |-> IF ConnOf[j] = c /\ job[j].st \in Pausable
                    THEN [job[j] EXCEPT !.st = "paused"] ELSE job[j]]

\* Calls the registered cancel functions of the jobs in S.
Cancel(S) ==
    /\ run' = IF run.job \in S /\ reg[run.job] = "run"
              THEN [run EXCEPT !.live = FALSE] ELSE run
    /\ prev' = IF prev.job \in S /\ reg[prev.job] = "prev"
               THEN [prev EXCEPT !.live = FALSE] ELSE prev

NextSeq ==
    {n \in {1} \union {job[k].seq + 1 : k \in Jobs} : \A i \in Jobs : job[i].seq < n}

\* The place of j when it is queued: a confirmed job keeps the one it has.
Place(j) == IF job[j].sub THEN {job[j].seq} ELSE NextSeq

StartsLive(j) == ~stopping /\ job[j].st \in {"running", "planning"}

\* Another automatic retry is allowed to the job that the run loop works on.
MayRetry_OneMore == run.err = "retry" /\ run.att <= RetryLimit
MayRetry == run.err = "retry" /\ run.att < RetryLimit

\* What Open makes of a job's state.
Recovered_NotPlanning(st) == IF st = "running" THEN "queued" ELSE st
Recovered(st) ==
    CASE st = "running"  -> "queued"
      [] st = "planning" -> "preparing"
      [] OTHER -> st

-----------------------------------------------------------------------------
(* Initial state: the connections are set up, there are no jobs.           *)

Init ==
    /\ conn = [c \in Conns |-> [rev |-> 0, enabled |-> TRUE,
                                connected |-> TRUE, based |-> TRUE]]
    /\ job = [j \in Jobs |-> Absent]
    /\ draft = [j \in Jobs |-> NoRev]
    /\ pick = [c \in Conns |-> NoRev]
    /\ mu = Free
    /\ reg = [j \in Jobs |-> "none"]
    /\ run = RunIdle
    /\ prev = PrevIdle
    /\ stopping = FALSE
    /\ events = MaxEvents

Spend == events > 0 /\ events' = events - 1

-----------------------------------------------------------------------------
(* Requests *)

\* NewPreview reads the connection without e.mu ...
PreviewRead(j) ==
    /\ job[j].st = "absent" /\ draft[j] = NoRev
    /\ conn[ConnOf[j]].enabled /\ conn[ConnOf[j]].connected /\ conn[ConnOf[j]].based
    /\ draft' = [draft EXCEPT ![j] = conn[ConnOf[j]].rev]
    /\ UNCHANGED <<conn, job, pick, mu, reg, run, prev, stopping, events>>

\* ... and inserts the job with the revision it read.
PreviewInsert(j) ==
    /\ draft[j] # NoRev
    /\ job' = [job EXCEPT ![j] = [Absent EXCEPT !.st = "preparing", !.rev = draft[j]]]
    /\ draft' = [draft EXCEPT ![j] = NoRev]
    /\ UNCHANGED <<conn, pick, mu, reg, run, prev, stopping, events>>

Admissible(j, a) ==
    /\ a \in Starts => Usable(ConnOf[j], job[j].rev)
    /\ a = "start"  => ~job[j].sub /\ job[j].st = "ready" /\ ~job[j].expired
    /\ a = "resume" => job[j].sub /\ job[j].st \in {"paused", "waiting"}
    /\ a = "retry"  => job[j].sub /\ job[j].st \in {"partial", "failed"}
    /\ a \in Halts  => job[j].st \notin {"complete", "cancelled"}

\* Action takes e.mu and reads the job and its connection.
ActionRead(j, a) ==
    /\ mu = Free /\ Exists(j) /\ Admissible(j, a)
    /\ Spend
    /\ mu' = [op |-> a, on |-> j]
    /\ UNCHANGED <<conn, job, draft, pick, reg, run, prev, stopping>>

\* Start, resume and retry commit by the job's id alone.
ActionQueue(j) ==
    /\ mu.op \in Starts /\ mu.on = j
    /\ \/ /\ Exists(j)
          /\ \E n \in Place(j) :
                job' = [job EXCEPT ![j] = [@ EXCEPT !.st = "queued", !.sub = TRUE,
                                                    !.att = 0, !.seq = n]]
       \/ (DeadRequests \/ ~Exists(j)) /\ UNCHANGED job
    /\ mu' = Free
    /\ UNCHANGED <<conn, draft, pick, reg, run, prev, stopping, events>>

\* Pause and cancel write by the id alone, then call the cancel function,
\* also when the write failed.
ActionHalt(j) ==
    /\ mu.op \in Halts /\ mu.on = j
    /\ \/ /\ Exists(j)
          /\ job' = [job EXCEPT ![j].st = IF mu.op = "pause" THEN "paused" ELSE "cancelled"]
       \/ (DeadRequests \/ ~Exists(j)) /\ UNCHANGED job
    /\ Cancel({j})
    /\ mu' = Free
    /\ UNCHANGED <<conn, draft, pick, reg, stopping, events>>

\* SaveConnection from the settings form: enabling, and a new configuration.
SaveSettings(c, enable, reconfigure) ==
    LET pause == reconfigure \/ (conn[c].enabled /\ ~enable) IN
    /\ mu = Free /\ Spend
    /\ conn' = [conn EXCEPT ![c] =
          [rev |-> IF reconfigure THEN @.rev + 1 ELSE @.rev, enabled |-> enable,
           connected |-> @.connected /\ ~reconfigure, based |-> @.based /\ ~reconfigure]]
    /\ IF pause
         THEN job' = PauseAll(c) /\ mu' = [op |-> "sweep", on |-> c]
         ELSE UNCHANGED <<job, mu>>
    /\ UNCHANGED <<draft, pick, reg, run, prev, stopping>>

\* SetBase copies the connection, which client() wants enabled and connected,
\* and asks the provider for the folder without e.mu ...
BaseRead(c) ==
    /\ pick[c] = NoRev /\ conn[c].enabled /\ conn[c].connected
    /\ Spend
    /\ pick' = [pick EXCEPT ![c] = conn[c].rev]
    /\ UNCHANGED <<conn, job, draft, mu, reg, run, prev, stopping>>

\* ... and saves its copy, with the enabled flag it read, if the revision is
\* still the same; another base is a new revision.
BaseSave(c, other) ==
    /\ mu = Free /\ pick[c] # NoRev
    /\ pick' = [pick EXCEPT ![c] = NoRev]
    /\ other \/ conn[c].based
    /\ IF pick[c] # conn[c].rev THEN UNCHANGED <<conn, job, mu>>
       ELSE /\ conn' = [conn EXCEPT ![c] = [@ EXCEPT !.enabled = TRUE, !.based = TRUE,
                                    !.rev = IF other THEN conn[c].rev + 1 ELSE conn[c].rev]]
            /\ IF other
                 THEN job' = PauseAll(c) /\ mu' = [op |-> "sweep", on |-> c]
                 ELSE UNCHANGED <<job, mu>>
    /\ UNCHANGED <<draft, reg, run, prev, stopping, events>>

\* PollLogin with an answer, once the revision has been found unchanged.
Login(c) ==
    /\ mu = Free /\ Spend
    /\ conn' = [conn EXCEPT ![c] = [@ EXCEPT !.connected = TRUE, !.based = FALSE, !.rev = conn[c].rev + 1]]
    /\ job' = PauseAll(c)
    /\ mu' = [op |-> "sweep", on |-> c]
    /\ UNCHANGED <<draft, pick, reg, run, prev, stopping>>

Disconnect(c) ==
    /\ mu = Free /\ Spend
    /\ conn' = [conn EXCEPT ![c] = [@ EXCEPT !.connected = FALSE, !.enabled = FALSE, !.rev = conn[c].rev + 1]]
    /\ job' = PauseAll(c)
    /\ mu' = [op |-> "sweep", on |-> c]
    /\ UNCHANGED <<draft, pick, reg, run, prev, stopping>>

\* cancelConnection after the commit; its SELECT fails when the client left.
CancelConnection(c) ==
    /\ mu = [op |-> "sweep", on |-> c]
    /\ Cancel(JobsOf(c)) \/ (DeadRequests /\ UNCHANGED <<run, prev>>)
    /\ mu' = Free
    /\ UNCHANGED <<conn, job, draft, pick, reg, stopping, events>>

-----------------------------------------------------------------------------
(* The preview loop *)

PrevClaim(j) ==
    /\ prev.pc = "idle" /\ mu = Free /\ ~stopping
    /\ job[j].st = "preparing"
    /\ job' = [job EXCEPT ![j].st = "planning"]
    /\ prev' = [prev EXCEPT !.pc = "claimed", !.job = j]
    /\ UNCHANGED <<conn, draft, pick, mu, reg, run, stopping, events>>

\* activeContext registers the cancel function and reads the state again.
PrevActivate ==
    /\ prev.pc = "claimed" /\ mu = Free
    /\ reg' = [reg EXCEPT ![prev.job] = "prev"]
    /\ prev' = [prev EXCEPT !.pc = "check",
                   !.live = StartsLive(prev.job)]
    /\ UNCHANGED <<conn, job, draft, pick, mu, run, stopping, events>>

\* prepareJob: expiry, connection and client, then the old items are deleted.
PrevCheck ==
    /\ prev.pc = "check" /\ PrevLive
    /\ Exists(prev.job) /\ ~job[prev.job].expired
    /\ Usable(ConnOf[prev.job], job[prev.job].rev)
    /\ job' = [job EXCEPT ![prev.job].plan = "none"]
    /\ prev' = [prev EXCEPT !.pc = "walk"]
    /\ UNCHANGED <<conn, draft, pick, mu, reg, run, stopping, events>>

\* The source is walked and its items are inserted batch by batch.
PrevWalk ==
    /\ prev.pc = "walk" /\ PrevLive
    /\ Exists(prev.job) /\ ~job[prev.job].expired
    /\ job' = [job EXCEPT ![prev.job].plan = "partial"]
    /\ prev' = [prev EXCEPT !.pc = "list"]
    /\ UNCHANGED <<conn, draft, pick, mu, reg, run, stopping, events>>

\* The target is listed and every item is marked missing, existing or conflict.
PrevList ==
    /\ prev.pc = "list" /\ PrevLive
    /\ Exists(prev.job) /\ ~job[prev.job].expired
    /\ job' = [job EXCEPT ![prev.job].plan = "full"]
    /\ prev' = [prev EXCEPT !.pc = "planned"]
    /\ UNCHANGED <<conn, draft, pick, mu, reg, run, stopping, events>>

\* Any of these reads, writes and remote calls may fail instead.
PrevFail ==
    /\ prev.pc \in {"check", "walk", "list"}
    /\ prev' = [prev EXCEPT !.pc = "failed"]
    /\ UNCHANGED <<conn, job, draft, pick, mu, reg, run, stopping, events>>

PrevFinish ==
    /\ \/ prev.pc = "planned" /\ Finish(prev.job, "planning", "ready")
       \/ prev.pc = "failed" /\ Finish(prev.job, "planning",
                                       IF stopping THEN "preparing" ELSE "failed")
    /\ prev' = [prev EXCEPT !.pc = "release"]
    /\ UNCHANGED <<conn, draft, pick, mu, reg, run, stopping, events>>

\* The deferred release deletes the registration of the job, whoever made it.
PrevRelease ==
    /\ prev.pc = "release" /\ mu = Free
    /\ reg' = [reg EXCEPT ![prev.job] = "none"]
    /\ prev' = PrevIdle
    /\ UNCHANGED <<conn, job, draft, pick, mu, run, stopping, events>>

PrevEnd ==
    /\ prev.pc = "idle" /\ stopping
    /\ prev' = [PrevIdle EXCEPT !.pc = "ended"]
    /\ UNCHANGED <<conn, job, draft, pick, mu, reg, run, stopping, events>>

-----------------------------------------------------------------------------
(* The run loop *)

\* Waiting jobs whose delay is over, any of them, are queued again.
RunWake(due) ==
    /\ run.pc = "idle" /\ ~stopping
    /\ due # {} /\ \A j \in due : job[j].st = "waiting"
    /\ job' = [j \in Jobs |-> IF j \in due THEN [job[j] EXCEPT !.st = "queued"] ELSE job[j]]
    /\ UNCHANGED <<conn, draft, pick, mu, reg, run, prev, stopping, events>>

\* cleanup: expired previews, and the ended jobs that are old enough.
Sweepable(j, old) ==
    \/ Exists(j) /\ ~job[j].sub /\ job[j].st # "planning" /\ job[j].expired
    \/ j \in old /\ job[j].st \in {"complete", "partial", "cancelled"}

RunCleanup(old) ==
    /\ run.pc = "idle" /\ ~stopping
    /\ job' = [j \in Jobs |-> IF Sweepable(j, old) THEN Gone ELSE job[j]]
    /\ UNCHANGED <<conn, draft, pick, mu, reg, run, prev, stopping, events>>

\* Confirmed jobs are taken in the order of their confirmation.
RunClaim(j) ==
    /\ run.pc = "idle" /\ mu = Free /\ ~stopping
    /\ job[j].st = "queued"
    /\ \A k \in Jobs : job[k].st = "queued" => job[j].seq <= job[k].seq
    /\ job' = [job EXCEPT ![j].st = "running"]
    /\ run' = [run EXCEPT !.pc = "claimed", !.job = j]
    /\ UNCHANGED <<conn, draft, pick, mu, reg, prev, stopping, events>>

RunActivate ==
    /\ run.pc = "claimed" /\ mu = Free
    /\ reg' = [reg EXCEPT ![run.job] = "run"]
    /\ run' = [run EXCEPT !.pc = "active",
                  !.live = StartsLive(run.job)]
    /\ UNCHANGED <<conn, job, draft, pick, mu, prev, stopping, events>>

\* The job is read once; its revision and attempts are used until the end.
RunLoad ==
    /\ run.pc = "active"
    /\ IF RunLive
         THEN /\ run' = [run EXCEPT !.pc = "loaded", !.rev = job[run.job].rev,
                                    !.att = job[run.job].att]
              /\ UNCHANGED job
         ELSE /\ Finish(run.job, "running", "failed")
              /\ run' = [run EXCEPT !.pc = "release"]
    /\ UNCHANGED <<conn, draft, pick, mu, reg, prev, stopping, events>>

\* The connection is read and the provider's client built, or the job pauses.
RunConnect ==
    /\ run.pc = "loaded"
    /\ \/ /\ RunLive /\ Usable(ConnOf[run.job], run.rev)
          /\ run' = [run EXCEPT !.pc = "upload"]
          /\ UNCHANGED job
       \/ /\ Finish(run.job, "running", "paused")
          /\ run' = [run EXCEPT !.pc = "release"]
    /\ UNCHANGED <<conn, draft, pick, mu, reg, prev, stopping, events>>

\* The two workers and the producer end, with the first error or without one.
RunUpload(err) ==
    /\ run.pc = "upload"
    /\ run' = [run EXCEPT !.pc = "drained", !.err = err]
    /\ UNCHANGED <<conn, job, draft, pick, mu, reg, prev, stopping, events>>

\* After the workers have ended a shutdown is asked for first: it puts the job
\* back into the queue.
RunDrained ==
    /\ run.pc = "drained"
    /\ IF stopping THEN Finish(run.job, "running", "queued") ELSE UNCHANGED job
    /\ run' = [run EXCEPT !.pc = IF stopping THEN "release" ELSE "verdict"]
    /\ UNCHANGED <<conn, draft, pick, mu, reg, prev, stopping, events>>

\* Then the job's own context, which a shutdown may have ended by now: the row
\* is left as it is, whoever called the cancel function having written it.
\* Otherwise the outcome of the upload decides.
RunVerdict ==
    /\ run.pc = "verdict"
    /\ IF ~RunLive \/ run.err = "none" THEN UNCHANGED job
       ELSE IF MayRetry
         THEN job' = [job EXCEPT ![run.job] =
                IF @.st = "running" THEN [@ EXCEPT !.st = "waiting", !.att = job[run.job].att + 1] ELSE @]
       ELSE Finish(run.job, "running", "paused")
    /\ run' = [run EXCEPT !.pc = IF RunLive /\ run.err = "none" THEN "final" ELSE "release"]
    /\ UNCHANGED <<conn, draft, pick, mu, reg, prev, stopping, events>>

\* The totals are read under the context and decide how the job ends.
RunFinal(to) ==
    /\ run.pc = "final"
    /\ Finish(run.job, "running", IF RunLive THEN to ELSE "failed")
    /\ run' = [run EXCEPT !.pc = "release"]
    /\ UNCHANGED <<conn, draft, pick, mu, reg, prev, stopping, events>>

RunRelease ==
    /\ run.pc = "release" /\ mu = Free
    /\ reg' = [reg EXCEPT ![run.job] = "none"]
    /\ run' = RunIdle
    /\ UNCHANGED <<conn, job, draft, pick, mu, prev, stopping, events>>

RunEnd_WhenEmpty ==
    /\ run.pc = "idle" /\ \A j \in Jobs : job[j].st # "queued"
    /\ run' = [RunIdle EXCEPT !.pc = "ended"]
    /\ UNCHANGED <<conn, job, draft, pick, mu, reg, prev, stopping, events>>
RunEnd ==
    /\ run.pc = "idle" /\ stopping
    /\ run' = [RunIdle EXCEPT !.pc = "ended"]
    /\ UNCHANGED <<conn, job, draft, pick, mu, reg, prev, stopping, events>>

-----------------------------------------------------------------------------
(* Time, shutdown and restart *)

\* Half an hour after its creation a preview cannot be confirmed any more.
Expire(j) ==
    /\ Exists(j) /\ ~job[j].sub /\ ~job[j].expired
    /\ job' = [job EXCEPT ![j].expired = TRUE]
    /\ UNCHANGED <<conn, draft, pick, mu, reg, run, prev, stopping, events>>

\* main cancels the context of the background jobs; requests are still served.
Stop ==
    /\ ~stopping /\ Spend
    /\ stopping' = TRUE
    /\ UNCHANGED <<conn, job, draft, pick, mu, reg, run, prev>>

\* Open on what the process left behind.
Recover ==
    /\ job' = [j \in Jobs |-> [job[j] EXCEPT !.st = Recovered(@)]]
    /\ draft' = [j \in Jobs |-> NoRev]
    /\ pick' = [c \in Conns |-> NoRev]
    /\ mu' = Free
    /\ reg' = [j \in Jobs |-> "none"]
    /\ run' = RunIdle
    /\ prev' = PrevIdle
    /\ stopping' = FALSE
    /\ UNCHANGED conn

Restart ==
    /\ run.pc = "ended" /\ prev.pc = "ended" /\ mu = Free
    /\ Recover
    /\ UNCHANGED events

\* The process may also be killed at any point.
Crash == Spend /\ Recover

-----------------------------------------------------------------------------

Request ==
    \/ \E j \in Jobs : PreviewRead(j) \/ PreviewInsert(j) \/ ActionQueue(j) \/ ActionHalt(j)
    \/ \E j \in Jobs, a \in Starts \union Halts : ActionRead(j, a)
    \/ \E c \in Conns : BaseRead(c) \/ Login(c) \/ Disconnect(c) \/ CancelConnection(c)
    \/ \E c \in Conns, other \in BOOLEAN : BaseSave(c, other)
    \/ \E c \in Conns, enable, reconfigure \in BOOLEAN : SaveSettings(c, enable, reconfigure)

PreviewLoop ==
    \/ \E j \in Jobs : PrevClaim(j)
    \/ PrevActivate \/ PrevCheck \/ PrevWalk \/ PrevList \/ PrevFail
    \/ PrevFinish \/ PrevRelease \/ PrevEnd

RunLoop ==
    \/ \E due \in SUBSET Jobs : RunWake(due)
    \/ \E j \in Jobs : RunClaim(j)
    \/ \E err \in {"none", "retry", "stop"} : RunUpload(err)
    \/ \E to \in {"complete", "partial"} : RunFinal(to)
    \/ RunActivate \/ RunLoad \/ RunConnect \/ RunDrained \/ RunVerdict \/ RunRelease \/ RunEnd

Next ==
    \/ Request \/ PreviewLoop \/ RunLoop
    \/ \E old \in SUBSET Jobs : RunCleanup(old)
    \/ \E j \in Jobs : Expire(j)
    \/ Stop \/ Restart \/ Crash

Spec == Init /\ [][Next]_vars

\* The goroutines go on and a request that holds e.mu ends; nobody has to
\* send a request, and no process has to be stopped or killed.
Fairness ==
    /\ WF_vars(PreviewLoop) /\ WF_vars(RunLoop) /\ WF_vars(Restart)
    /\ \A j \in Jobs : WF_vars(ActionQueue(j)) /\ WF_vars(ActionHalt(j))
    /\ \A c \in Conns : WF_vars(CancelConnection(c))

FairSpec == Spec /\ Fairness

-----------------------------------------------------------------------------
(* Properties *)

TypeOK ==
    /\ conn \in [Conns -> Connection]
    /\ job \in [Jobs -> Job]
    /\ draft \in [Jobs -> Nat \union {NoRev}]
    /\ pick \in [Conns -> Nat \union {NoRev}]
    /\ mu \in Holder
    /\ reg \in [Jobs -> {"none", "run", "prev"}]
    /\ run \in Runner /\ (run.job = Nobody <=> run.pc \in {"idle", "ended"})
    /\ prev \in Previewer /\ (prev.job = Nobody <=> prev.pc \in {"idle", "ended"})
    /\ stopping \in BOOLEAN
    /\ events \in 0 .. MaxEvents

\* The whole file list stands before a preview is offered, and stays while the
\* job can run: neither a crash nor a second planning of the same job may leave
\* a confirmed job with part of its items (store.go, comment in Open).
PublishedPlansAreComplete ==
    \A j \in Jobs : job[j].st = "ready" \/ job[j].sub => job[j].plan = "full"

\* An offered, queued, running or waiting job belongs to the revision its
\* connection has now, and the connection is enabled and connected: whoever
\* changes a connection takes every such job along in the same transaction.
ActiveJobsMatchConnection ==
    \A j \in Jobs : job[j].st \in {"ready", "queued", "running", "waiting"}
                       => Usable(ConnOf[j], job[j].rev)

\* The preview loop is through with a job, up to its release, before the run
\* loop takes it: the two never read and rewrite the items of one job together.
LoopsNeverShareAJob ==
    run.job # Nobody /\ run.job = prev.job => prev.pc = "release"

\* A job is "planning" only while a goroutine works on it, and so is a running
\* one until the process is being shut down: a shutdown between the two tests
\* at the end of a transfer leaves the row to the next start, and nothing else
\* does.  That needs pause and cancel to write before they call the cancel
\* function, and every request to be carried through.
WorkIsOwned ==
    ~DeadRequests => \A j \in Jobs :
        /\ job[j].st = "running" => stopping \/ (run.job = j /\ run.pc # "release")
        /\ job[j].st = "planning" => prev.job = j /\ prev.pc # "release"

\* Once a request has returned, a transfer whose job is no longer running has
\* its context cancelled, if its cancel function is still registered.
RegisteredTransferIsStopped ==
    ~DeadRequests /\ mu = Free /\ run.pc \in Active
        /\ job[run.job].st # "running" /\ reg[run.job] = "run"
      => ~RunLive

\* Confirmed jobs have different places in the queue.
QueuePlacesDiffer ==
    \A j, k \in Jobs : job[j].sub /\ job[k].sub /\ job[j].seq = job[k].seq => j = k

\* A cancelled job is never taken up again by a worker, a wake-up, a changed
\* connection, a recovery or a late request; it can only be removed.
CancelledIsFinal ==
    [][\A j \in Jobs : job[j].st = "cancelled" => job'[j].st \in {"cancelled", "gone"}]_vars

\* A complete job changes only by its removal or by a pause or cancel request
\* that had read it before it completed.
CompleteIsLeftOnlyLate ==
    [][\A j \in Jobs : job[j].st = "complete" /\ job'[j].st # "complete"
          => job'[j].st = "gone" \/ (mu.op \in Halts /\ mu.on = j)]_vars

\* Confirming gives a job its place in the queue for good: pauses, retries,
\* changed connections and restarts neither unconfirm it nor move it.
PlaceIsKept ==
    [][\A j \in Jobs : job[j].sub /\ job'[j].st # "gone"
          => job'[j].sub /\ job'[j].seq = job[j].seq]_vars

\* The engine implements the life cycle of TransferLifecycle.
Phase(j) ==
    CASE job[j].st \in {"absent", "gone", "cancelled", "complete"} -> job[j].st
      [] job[j].st \in {"preparing", "planning"} -> "draft"
      [] job[j].st = "ready" -> "offered"
      [] job[j].st \in {"queued", "running", "waiting"} -> "active"
      [] OTHER -> IF job[j].sub THEN "held" ELSE "void"

Lifecycle == INSTANCE TransferLifecycle WITH phase <- [j \in Jobs |-> Phase(j)]

\* LifecycleSpec: every step of the engine is a step or a stutter of that
\* specification, so only an offered preview that its user confirms becomes
\* active and nothing that ended comes back.
LifecycleSpec == Lifecycle!Spec

\* No job stays queued, no preview stays in preparation and no transfer stays
\* running for good: each is always left again ([]<>~P is P ~> ~P).
QueuedIsTaken == \A j \in Jobs : []<>(job[j].st # "queued")
PreviewIsSettled == \A j \in Jobs : []<>(job[j].st \notin {"preparing", "planning"})
RunningIsLeft == \A j \in Jobs : []<>(job[j].st # "running")

\* Together: the one loop for transfers and the one for previews serve every
\* job in the end, though a shutdown or a crash may come between two steps.
JobsAreSettled == QueuedIsTaken /\ PreviewIsSettled /\ RunningIsLeft

-----------------------------------------------------------------------------
(* The inductive invariant behind the safety properties: what a goroutine or  *)
(* a request relies on between two of its steps.                              *)

Planning == {"claimed", "check", "walk", "list", "planned", "failed"}
Transferring == RunPcs \ {"idle", "ended"}

\* The states a job has before it is confirmed, and those only a confirmed
\* job has.
ConfirmedStates ==
    \A j \in Jobs :
        /\ job[j].st \in {"queued", "running", "waiting", "partial", "complete"} => job[j].sub
        /\ job[j].st \in {"absent", "gone", "preparing", "planning", "ready"} => ~job[j].sub

\* A pending NewPreview has not inserted its job yet.
DraftsAreNew == \A j \in Jobs : draft[j] # NoRev => job[j].st = "absent"

\* A job in planning belongs to the preview loop, and the job of that loop was
\* not confirmed; a finished plan is whole, and up to the end of the planning
\* its connection is the one it was checked against.
PlanningIsOwned ==
    \A j \in Jobs : job[j].st = "planning" => prev.job = j /\ prev.pc \in Planning
PlanningIsUnconfirmed ==
    prev.pc \in Planning =>
        /\ ~job[prev.job].sub
        /\ job[prev.job].st \in {"planning", "paused", "cancelled", "gone"}
FinishedPlanIsFull ==
    prev.pc = "planned" => job[prev.job].st = "gone" \/ job[prev.job].plan = "full"
PlanningMatchesConnection ==
    prev.pc \in {"walk", "list", "planned"} /\ job[prev.job].st = "planning"
      => Usable(ConnOf[prev.job], job[prev.job].rev)

\* What a request has read stays true until it writes, unless cleanup removes
\* the job, a waiting job is woken, or a job completes before it is halted.
RequestIsCurrent ==
    /\ mu.op \in Starts =>
        \/ job[mu.on].st = "gone"
        \/ /\ Usable(ConnOf[mu.on], job[mu.on].rev)
           /\ mu.op = "start"  => job[mu.on].st = "ready"
           /\ mu.op # "start"  => job[mu.on].sub
           /\ mu.op = "resume" => job[mu.on].st \in {"paused", "waiting", "queued"}
           /\ mu.op = "retry"  => job[mu.on].st \in {"partial", "failed"}
    /\ mu.op \in Halts => job[mu.on].st \notin {"absent", "cancelled"}

\* The run loop works on confirmed jobs and knows their number of attempts.
TransferIsConfirmed == run.pc \in Transferring => job[run.job].sub
AttemptsAreKnown ==
    run.pc \in {"loaded", "upload", "drained", "verdict", "final"} /\ job[run.job].st = "running"
      => run.att = job[run.job].att

IInv ==
    /\ TypeOK /\ AttemptsAreKnown
    /\ ConfirmedStates /\ DraftsAreNew
    /\ PlanningIsOwned /\ PlanningIsUnconfirmed
    /\ FinishedPlanIsFull /\ PlanningMatchesConnection
    /\ RequestIsCurrent /\ TransferIsConfirmed
    /\ PublishedPlansAreComplete /\ ActiveJobsMatchConnection

\* Who owns a running job, as long as every request is carried through: the
\* run loop does until a shutdown; a transfer whose cancel function was called without a shutdown
\* has lost its job, the jobs of a connection that is being swept have stopped,
\* and a registered transfer that lost its job has its context cancelled.
RunningIsTaken ==
    ~stopping => \A j \in Jobs : job[j].st = "running"
                       => run.job = j /\ run.pc \in Transferring \ {"release"}
StoppedTransferRests ==
    run.pc \in Active /\ ~run.live /\ ~stopping => job[run.job].st # "running"
SweptJobsRest ==
    mu.op = "sweep" => \A j \in JobsOf(mu.on) : job[j].st # "running"
RegisteredTransferRests ==
    run.pc \in Active /\ job[run.job].st # "running" /\ reg[run.job] = "run"
        /\ ~(mu.op = "sweep" /\ run.job \in JobsOf(mu.on))
      => ~RunLive

WorkInv ==
    ~DeadRequests => /\ RunningIsTaken /\ StoppedTransferRests
                     /\ SweptJobsRest /\ RegisteredTransferRests

-----------------------------------------------------------------------------
(* A statement of the tests that the code does not keep.                    *)

\* A paused or cancelled job is not transferred further ("pause ignored").
PausedTransferIsStopped ==
    mu = Free /\ run.pc \in {"loaded", "upload"} /\ job[run.job].st \in {"paused", "cancelled"}
      => ~RunLive
=============================================================================
