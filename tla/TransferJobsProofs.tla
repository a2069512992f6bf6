------------------------- MODULE TransferJobsProofs -------------------------
(***************************************************************************)
(* Theorems about TransferJobs, for any number of jobs and connections,    *)
(* any retry limit and any number of environment events: first that its    *)
(* invariant is inductive, then what rests on it: how a job's row may      *)
(* change, the life cycle it implements, and who owns a running job.       *)
(***************************************************************************)
EXTENDS TransferJobs, TLAPS

(***************************************************************************)
(* The helpers keep the types of what they change.                         *)
(***************************************************************************)

\* A job whose state is overwritten is a job.
LEMMA NewState ==
  ASSUME NEW r \in Job, NEW s \in States
  PROVE  [r EXCEPT !.st = s] \in Job
BY DEF Job

\* Queueing a job keeps its type.
LEMMA QueuedJob ==
  ASSUME NEW r \in Job, NEW n \in Nat
  PROVE  [r EXCEPT !.st = "queued", !.sub = TRUE, !.att = 0, !.seq = n] \in Job
<1>1. 0 \in Attempts /\ "queued" \in States
  BY JobsAssumption DEF JobsAssumption, Attempts, States
<1> QED
  BY <1>1 DEF Job

\* The changes that requests make to a connection keep its type.
LEMMA ConnectionFields ==
  ASSUME NEW r \in Connection, NEW n \in Nat, NEW a \in BOOLEAN, NEW b \in BOOLEAN
  PROVE  /\ [r EXCEPT !.enabled = a, !.based = b, !.rev = n] \in Connection
         /\ [r EXCEPT !.connected = a, !.based = b, !.rev = n] \in Connection
         /\ [r EXCEPT !.connected = a, !.enabled = b, !.rev = n] \in Connection
<1>1. [r EXCEPT !.enabled = a, !.based = b, !.rev = n] \in Connection
  BY DEF Connection
<1>2. [r EXCEPT !.connected = a, !.based = b, !.rev = n] \in Connection
  BY DEF Connection
<1>3. [r EXCEPT !.connected = a, !.enabled = b, !.rev = n] \in Connection
  BY DEF Connection
<1> QED
  BY <1>1, <1>2, <1>3

\* The connections that a login, a disconnect and a new base folder leave are connections.
LEMMA ConnectionType ==
  ASSUME NEW r \in Connection
  PROVE  /\ [r EXCEPT !.connected = TRUE, !.based = FALSE, !.rev = r.rev + 1] \in Connection
         /\ [r EXCEPT !.connected = FALSE, !.enabled = FALSE, !.rev = r.rev + 1] \in Connection
         /\ \A other \in BOOLEAN :
              [r EXCEPT !.enabled = TRUE, !.based = TRUE,
                        !.rev = IF other THEN r.rev + 1 ELSE r.rev] \in Connection
<1>1. r.rev \in Nat /\ r.rev + 1 \in Nat
  BY DEF Connection
<1>2. \A other \in BOOLEAN : (IF other THEN r.rev + 1 ELSE r.rev) \in Nat
  BY <1>1
<1>3. [r EXCEPT !.connected = TRUE, !.based = FALSE, !.rev = r.rev + 1] \in Connection
  BY <1>1, ConnectionFields, Zenon
<1>4. [r EXCEPT !.connected = FALSE, !.enabled = FALSE, !.rev = r.rev + 1] \in Connection
  BY <1>1, ConnectionFields, Zenon
<1>5. ASSUME NEW other \in BOOLEAN
      PROVE  [r EXCEPT !.enabled = TRUE, !.based = TRUE,
                       !.rev = IF other THEN r.rev + 1 ELSE r.rev] \in Connection
  BY <1>2, ConnectionFields, Zenon
<1> QED
  BY <1>3, <1>4, <1>5

\* The conditional UPDATE that ends a piece of work keeps the table's type.
LEMMA FinishType ==
  ASSUME job \in [Jobs -> Job], NEW j, NEW from, NEW to \in States,
         Finish(j, from, to)
  PROVE  job' \in [Jobs -> Job]
BY DEF Finish, Job

\* The UPDATE of a changed connection.
LEMMA PauseAllType ==
  ASSUME job \in [Jobs -> Job], NEW c
  PROVE  PauseAll(c) \in [Jobs -> Job]
<1>1. "paused" \in States
  BY DEF States
<1> QED
  BY <1>1, NewState DEF PauseAll

\* Cancelling only clears the "live" flags of the two loops.
\* So does a change of one job's plan.
LEMMA PlanType ==
  ASSUME job \in [Jobs -> Job], NEW j, NEW p \in {"none", "partial", "full"}
  PROVE  [job EXCEPT ![j].plan = p] \in [Jobs -> Job]
BY DEF Job

\* Calling cancel functions changes nothing but the live flag of the loops.
LEMMA CancelType ==
  ASSUME run \in Runner, prev \in Previewer, NEW S, Cancel(S)
  PROVE  /\ run' \in Runner /\ run'.pc = run.pc /\ run'.job = run.job
         /\ prev' \in Previewer /\ prev'.pc = prev.pc /\ prev'.job = prev.job
BY DEF Cancel, Runner, Previewer

\* The bound on environment events stays in its range.
LEMMA SpendType ==
  ASSUME events \in 0 .. MaxEvents, Spend
  PROVE  events' \in 0 .. MaxEvents
BY JobsAssumption DEF JobsAssumption, Spend

\* The constants of the model have their types.
LEMMA IdleType ==
  Absent \in Job /\ Gone \in Job /\ RunIdle \in Runner /\ PrevIdle \in Previewer
    /\ RunIdle.pc = "idle" /\ PrevIdle.pc = "idle"
    /\ RunIdle.job = Nobody /\ PrevIdle.job = Nobody
    /\ Free \in Holder /\ Absent.sub = FALSE /\ Absent.st = "absent" /\ Gone.st = "gone"
<1> USE JobsAssumption DEF JobsAssumption
<1>0. 0 \in Attempts
  BY DEF Attempts
<1>1. Absent \in Job /\ Absent.sub = FALSE /\ Absent.st = "absent"
  BY <1>0 DEF Absent, Job, States
<1>2. Gone \in Job /\ Gone.st = "gone"
  BY <1>1, NewState DEF Gone, States, Absent
<1>3. RunIdle \in Runner /\ RunIdle.pc = "idle" /\ RunIdle.job = Nobody
  BY <1>0 DEF RunIdle, Runner, RunPcs
<1>4. PrevIdle \in Previewer /\ PrevIdle.pc = "idle" /\ PrevIdle.job = Nobody
  BY DEF PrevIdle, Previewer, PrevPcs
<1> QED
  BY <1>1, <1>2, <1>3, <1>4 DEF Holder

\* A request that takes e.mu is a holder of it.
LEMMA HolderType ==
  /\ \A j \in Jobs, a \in Starts \union Halts : [op |-> a, on |-> j] \in Holder
  /\ \A c \in Conns : [op |-> "sweep", on |-> c] \in Holder
BY DEF Holder

(***************************************************************************)
(* Type correctness is inductive by itself.                                *)
(***************************************************************************)

\* The initial state is typed.
LEMMA InitTypeOK == Init => TypeOK
<1> SUFFICES ASSUME Init PROVE TypeOK
  OBVIOUS
<1>1. conn \in [Conns -> Connection]
  BY DEF Init, Connection
<1>2. events \in 0 .. MaxEvents
  BY JobsAssumption DEF JobsAssumption, Init
<1> QED
  BY <1>1, <1>2, IdleType DEF Init, TypeOK

\* Requests keep the types.
LEMMA RequestTypeOK == TypeOK /\ Request => TypeOK'
<1> SUFFICES ASSUME TypeOK, Request PROVE TypeOK'
  OBVIOUS
<1> USE JobsAssumption, IdleType, HolderType DEF TypeOK
<1>1. ASSUME NEW j \in Jobs, PreviewRead(j) PROVE TypeOK'
  <2>1. ConnOf[j] \in Conns /\ conn[ConnOf[j]].rev \in Nat
    BY DEF JobsAssumption, Connection
  <2> QED
    BY <1>1, <2>1 DEF PreviewRead
<1>2. ASSUME NEW j \in Jobs, PreviewInsert(j) PROVE TypeOK'
  <2>1. [Absent EXCEPT !.st = "preparing", !.rev = draft[j]] \in Job
    BY <1>2 DEF PreviewInsert, Absent, Job, States, NoRev, JobsAssumption
  <2> QED
    BY <1>2, <2>1 DEF PreviewInsert
<1>3. ASSUME NEW j \in Jobs, ActionQueue(j) PROVE TypeOK'
  <2>1. Place(j) \subseteq Nat
    BY DEF Place, NextSeq, Job
  <2>3. job' \in [Jobs -> Job]
    <3>1. CASE UNCHANGED job
      BY <3>1
    <3>2. ASSUME NEW n \in Place(j),
                 job' = [job EXCEPT ![j] = [@ EXCEPT !.st = "queued", !.sub = TRUE,
                                                      !.att = 0, !.seq = n]]
          PROVE  job' \in [Jobs -> Job]
      BY <2>1, <3>2, QueuedJob
    <3> QED
      BY <1>3, <3>1, <3>2 DEF ActionQueue
  <2> QED
    BY <1>3, <2>3 DEF ActionQueue
<1>4. ASSUME NEW j \in Jobs, ActionHalt(j) PROVE TypeOK'
  <2>1. job' \in [Jobs -> Job]
    BY <1>4 DEF ActionHalt, Job, States
  <2> QED
    BY <1>4, <2>1, CancelType DEF ActionHalt
<1>5. ASSUME NEW j \in Jobs, NEW a \in Starts \union Halts, ActionRead(j, a) PROVE TypeOK'
  BY <1>5, SpendType DEF ActionRead
<1>6. ASSUME NEW c \in Conns, BaseRead(c) PROVE TypeOK'
  <2>1. conn[c].rev \in Nat
    BY DEF Connection
  <2> QED
    BY <1>6, <2>1, SpendType DEF BaseRead
<1>7. ASSUME NEW c \in Conns, Login(c) PROVE TypeOK'
  <2>1. conn' \in [Conns -> Connection]
    <3>1. [conn[c] EXCEPT !.connected = TRUE, !.based = FALSE, !.rev = conn[c].rev + 1] \in Connection
      BY ConnectionType
    <3> QED
      BY <1>7, <3>1 DEF Login
  <2> QED
    BY <1>7, <2>1, SpendType, PauseAllType DEF Login
<1>8. ASSUME NEW c \in Conns, Disconnect(c) PROVE TypeOK'
  <2>1. conn' \in [Conns -> Connection]
    <3>1. [conn[c] EXCEPT !.connected = FALSE, !.enabled = FALSE, !.rev = conn[c].rev + 1] \in Connection
      BY ConnectionType
    <3> QED
      BY <1>8, <3>1 DEF Disconnect
  <2> QED
    BY <1>8, <2>1, SpendType, PauseAllType DEF Disconnect
<1>9. ASSUME NEW c \in Conns, CancelConnection(c) PROVE TypeOK'
  BY <1>9, CancelType DEF CancelConnection
<1>10. ASSUME NEW c \in Conns, NEW other \in BOOLEAN, BaseSave(c, other) PROVE TypeOK'
  <2>1. conn' \in [Conns -> Connection]
    <3>1. [conn[c] EXCEPT !.enabled = TRUE, !.based = TRUE,
                          !.rev = IF other THEN conn[c].rev + 1 ELSE conn[c].rev] \in Connection
      BY ConnectionType
    <3> QED
      BY <1>10, <3>1 DEF BaseSave
  <2> QED
    <3>1. job' \in [Jobs -> Job] /\ mu' \in Holder
      BY <1>10, PauseAllType, HolderType DEF BaseSave
    <3>2. pick' \in [Conns -> Nat \union {NoRev}]
      BY <1>10 DEF BaseSave
    <3> QED
      BY <1>10, <2>1, <3>1, <3>2 DEF BaseSave
<1>11. ASSUME NEW c \in Conns, NEW enable \in BOOLEAN, NEW reconfigure \in BOOLEAN,
              SaveSettings(c, enable, reconfigure) PROVE TypeOK'
  <2>1. conn' \in [Conns -> Connection]
    BY <1>11 DEF SaveSettings, Connection
  <2> QED
    BY <1>11, <2>1, SpendType, PauseAllType DEF SaveSettings
<1> QED
  BY <1>1, <1>2, <1>3, <1>4, <1>5, <1>6, <1>7, <1>8, <1>9, <1>10, <1>11 DEF Request

\* The preview loop keeps the types.
LEMMA PreviewLoopTypeOK == TypeOK /\ PreviewLoop => TypeOK'
<1> SUFFICES ASSUME TypeOK, PreviewLoop PROVE TypeOK'
  OBVIOUS
<1> USE JobsAssumption, IdleType DEF TypeOK
<1>1. ASSUME NEW j \in Jobs, PrevClaim(j) PROVE TypeOK'
  <2>1. job' \in [Jobs -> Job]
    BY <1>1, NewState DEF PrevClaim, States
  <2>2. prev' \in Previewer
    BY <1>1 DEF PrevClaim, Previewer, PrevPcs
  <2> QED
    BY <1>1, <2>1, <2>2 DEF PrevClaim
<1>2. CASE PrevActivate
  <2>0. prev.job \in Jobs
    BY <1>2 DEF PrevActivate, Previewer
  <2>1. prev' \in Previewer
    BY <1>2 DEF PrevActivate, Previewer, PrevPcs, StartsLive
  <2> QED
    BY <1>2, <2>0, <2>1 DEF PrevActivate, Previewer
<1>3. CASE PrevCheck
  <2>1. job' \in [Jobs -> Job]
    BY <1>3, PlanType DEF PrevCheck
  <2>2. prev' \in Previewer
    BY <1>3 DEF PrevCheck, Previewer, PrevPcs
  <2> QED
    BY <1>3, <2>1, <2>2 DEF PrevCheck
<1>4. CASE PrevWalk
  <2>1. job' \in [Jobs -> Job]
    BY <1>4, PlanType DEF PrevWalk
  <2>2. prev' \in Previewer
    BY <1>4 DEF PrevWalk, Previewer, PrevPcs
  <2> QED
    BY <1>4, <2>1, <2>2 DEF PrevWalk
<1>5. CASE PrevList
  <2>1. job' \in [Jobs -> Job]
    BY <1>5, PlanType DEF PrevList
  <2>2. prev' \in Previewer
    BY <1>5 DEF PrevList, Previewer, PrevPcs
  <2> QED
    BY <1>5, <2>1, <2>2 DEF PrevList
<1>6. CASE PrevFail
  BY <1>6 DEF PrevFail, Previewer, PrevPcs
<1>7. CASE PrevFinish
  <2>1. job' \in [Jobs -> Job]
    BY <1>7, FinishType DEF PrevFinish, States
  <2>2. prev' \in Previewer
    BY <1>7 DEF PrevFinish, Previewer, PrevPcs
  <2> QED
    BY <1>7, <2>1, <2>2 DEF PrevFinish
<1>8. CASE PrevRelease
  BY <1>8, IdleType DEF PrevRelease
<1>9. CASE PrevEnd
  BY <1>9 DEF PrevEnd, PrevIdle, Previewer, PrevPcs
<1> QED
  BY <1>1, <1>2, <1>3, <1>4, <1>5, <1>6, <1>7, <1>8, <1>9 DEF PreviewLoop

\* The run loop keeps the types; a retry stays within the limit because the
\* loop's copy of the attempts is the job's.
LEMMA RunLoopTypeOK == TypeOK /\ AttemptsAreKnown /\ RunLoop => TypeOK'
<1> SUFFICES ASSUME TypeOK, AttemptsAreKnown, RunLoop PROVE TypeOK'
  OBVIOUS
<1> USE JobsAssumption, IdleType DEF TypeOK
<1>1. ASSUME NEW due \in SUBSET Jobs, RunWake(due) PROVE TypeOK'
  <2>1. job' \in [Jobs -> Job]
    BY <1>1, NewState DEF RunWake, States
  <2> QED
    BY <1>1, <2>1 DEF RunWake
<1>2. ASSUME NEW j \in Jobs, RunClaim(j) PROVE TypeOK'
  <2>1. job' \in [Jobs -> Job]
    BY <1>2, NewState DEF RunClaim, States
  <2>2. run' \in Runner
    BY <1>2 DEF RunClaim, Runner, RunPcs
  <2> QED
    BY <1>2, <2>1, <2>2 DEF RunClaim
<1>3. ASSUME NEW err \in {"none", "retry", "stop"}, RunUpload(err) PROVE TypeOK'
  BY <1>3 DEF RunUpload, Runner, RunPcs
<1>4. ASSUME NEW to \in {"complete", "partial"}, RunFinal(to) PROVE TypeOK'
  <2>1. job' \in [Jobs -> Job]
    BY <1>4, FinishType DEF RunFinal, States
  <2>2. run' \in Runner
    BY <1>4 DEF RunFinal, Runner, RunPcs
  <2> QED
    BY <1>4, <2>1, <2>2 DEF RunFinal
<1>5. CASE RunActivate
  <2>0. run.job \in Jobs
    BY <1>5 DEF RunActivate, Runner
  <2>1. run' \in Runner
    BY <1>5 DEF RunActivate, Runner, RunPcs, StartsLive
  <2> QED
    BY <1>5, <2>0, <2>1 DEF RunActivate, Runner
<1>6. CASE RunConnect
  <2>0. run.job \in Jobs
    BY <1>6 DEF RunConnect, Runner
  <2>1. job' \in [Jobs -> Job]
    BY <1>6, FinishType DEF RunConnect, States
  <2>2. run' \in Runner
    BY <1>6 DEF RunConnect, Runner, RunPcs
  <2> QED
    BY <1>6, <2>0, <2>1, <2>2 DEF RunConnect, Runner
<1>7. CASE RunRelease
  BY <1>7, IdleType DEF RunRelease
<1>8. CASE RunEnd
  BY <1>8 DEF RunEnd, RunIdle, Runner, RunPcs, JobsAssumption
<1>9. CASE RunLoad
  <2>1. job' \in [Jobs -> Job]
    BY <1>9, FinishType DEF RunLoad, States
  <2>2. run.job \in Jobs
    BY <1>9 DEF RunLoad, Runner
  <2>3. job[run.job].rev \in Nat /\ job[run.job].att \in Attempts
    BY <2>2 DEF Job
  <2>4. run' \in Runner
    BY <1>9, <2>3 DEF RunLoad, Runner, RunPcs
  <2> QED
    BY <1>9, <2>1, <2>2, <2>4 DEF RunLoad, Runner
<1>10. CASE RunVerdict
  <2>1. run.job \in Jobs
    BY <1>10 DEF RunVerdict, Runner
  <2>2. job' \in [Jobs -> Job]
    <3>1. CASE \E to \in States : Finish(run.job, "running", to)
      BY <3>1, FinishType
    <3>2. CASE UNCHANGED job
      BY <3>2
    <3>3. ASSUME MayRetry,
                 job' = [job EXCEPT ![run.job] =
                    IF @.st = "running"
                    THEN [@ EXCEPT !.st = "waiting", !.att = job[run.job].att + 1] ELSE @]
          PROVE  job' \in [Jobs -> Job]
      <4>1. job[run.job] \in Job /\ job[run.job].att \in Attempts
        BY <2>1 DEF Job
      <4>2. ASSUME job[run.job].st = "running"
            PROVE  job[run.job].att + 1 \in Attempts
        BY <1>10, <3>3, <4>1, <4>2 DEF AttemptsAreKnown, RunVerdict, MayRetry, Attempts, JobsAssumption
      <4>3. ASSUME job[run.job].st = "running"
            PROVE  [job[run.job] EXCEPT !.st = "waiting", !.att = job[run.job].att + 1] \in Job
        BY <4>1, <4>2, <4>3 DEF Job, States
      <4> QED
        BY <2>1, <3>3, <4>1, <4>3
    <3> QED
      BY <1>10, <3>1, <3>2, <3>3 DEF RunVerdict, States
  <2>3. run' \in Runner
    BY <1>10 DEF RunVerdict, Runner, RunPcs
  <2> QED
    BY <1>10, <2>1, <2>2, <2>3 DEF RunVerdict, Runner
<1>11. CASE RunDrained
  <2>1. run' \in Runner /\ run'.job = run.job
    BY <1>11 DEF RunDrained, Runner, RunPcs
  <2>2. job' \in [Jobs -> Job]
    BY <1>11, FinishType DEF RunDrained, States
  <2> QED
    BY <1>11, <2>1, <2>2 DEF RunDrained, Runner
<1> QED
  BY <1>1, <1>2, <1>3, <1>4, <1>5, <1>6, <1>7, <1>8, <1>9, <1>10, <1>11 DEF RunLoop

\* Opening the database keeps the types of the tables.
LEMMA RecoverTypeOK == TypeOK /\ Recover => job' \in [Jobs -> Job] /\ draft' \in [Jobs -> Nat \union {NoRev}]
                        /\ pick' \in [Conns -> Nat \union {NoRev}] /\ reg' \in [Jobs -> {"none", "run", "prev"}]
<1> SUFFICES ASSUME TypeOK, Recover
             PROVE  job' \in [Jobs -> Job] /\ draft' \in [Jobs -> Nat \union {NoRev}]
                      /\ pick' \in [Conns -> Nat \union {NoRev}] /\ reg' \in [Jobs -> {"none", "run", "prev"}]
  OBVIOUS
<1>1. \A s \in States : Recovered(s) \in States
  BY DEF Recovered, States
<1>2. \A j \in Jobs : job[j].st \in States
  BY DEF TypeOK, Job
<1>3. job' \in [Jobs -> Job]
  BY <1>1, <1>2, NewState DEF Recover, TypeOK
<1> QED
  BY <1>3 DEF Recover

\* Every step keeps the types.
LEMMA StepTypeOK == TypeOK /\ AttemptsAreKnown /\ [Next]_vars => TypeOK'
<1> SUFFICES ASSUME TypeOK, AttemptsAreKnown, [Next]_vars PROVE TypeOK'
  OBVIOUS
<1>1. CASE Request
  BY <1>1, RequestTypeOK
<1>2. CASE PreviewLoop
  BY <1>2, PreviewLoopTypeOK
<1>3. CASE RunLoop
  BY <1>3, RunLoopTypeOK
<1>4. ASSUME NEW old \in SUBSET Jobs, RunCleanup(old) PROVE TypeOK'
  <2>1. job' \in [Jobs -> Job]
    BY <1>4, IdleType DEF RunCleanup, TypeOK
  <2> QED
    BY <1>4, <2>1 DEF RunCleanup, TypeOK
<1>5. ASSUME NEW j \in Jobs, Expire(j) PROVE TypeOK'
  <2>1. job' \in [Jobs -> Job]
    BY <1>5 DEF Expire, TypeOK, Job
  <2> QED
    BY <1>5, <2>1 DEF Expire, TypeOK
<1>6. CASE Stop
  BY <1>6, SpendType DEF Stop, TypeOK
<1>7. CASE Restart
  BY <1>7, RecoverTypeOK, IdleType DEF Restart, Recover, TypeOK
<1>8. CASE Crash
  BY <1>8, RecoverTypeOK, IdleType, SpendType DEF Crash, Recover, TypeOK
<1>9. CASE UNCHANGED vars
  BY <1>9 DEF vars, TypeOK
<1> QED
  BY <1>1, <1>2, <1>3, <1>4, <1>5, <1>6, <1>7, <1>8, <1>9 DEF Next

(***************************************************************************)
(* What the helpers do to every job.                                       *)
(***************************************************************************)

\* Everything of a row but its state.
Kept(k) == /\ job'[k].sub = job[k].sub /\ job'[k].rev = job[k].rev
           /\ job'[k].att = job[k].att /\ job'[k].seq = job[k].seq
           /\ job'[k].plan = job[k].plan

\* Writing one state changes that state only.
LEMMA StateEffect ==
  ASSUME job \in [Jobs -> Job], NEW j, NEW s, job' = [job EXCEPT ![j].st = s]
  PROVE  \A k \in Jobs : Kept(k) /\ job'[k].st = IF k = j THEN s ELSE job[k].st
BY DEF Kept, Job

\* A conditional UPDATE changes the state of its job if it finds the one it expects.
LEMMA FinishEffect ==
  ASSUME job \in [Jobs -> Job], NEW j, NEW from, NEW to, Finish(j, from, to)
  PROVE  \A k \in Jobs : /\ Kept(k)
                         /\ job'[k].st = IF k = j /\ job[k].st = from THEN to ELSE job[k].st
BY DEF Kept, Job, Finish

\* Pausing a connection's jobs changes their states only.
LEMMA PauseEffect ==
  ASSUME job \in [Jobs -> Job], NEW c, job' = PauseAll(c)
  PROVE  \A k \in Jobs : /\ Kept(k)
                         /\ job'[k].st = IF ConnOf[k] = c /\ job[k].st \in Pausable
                                         THEN "paused" ELSE job[k].st
BY DEF Kept, Job, PauseAll

\* Queueing a job leaves its revision, its plan and every other job alone.
LEMMA QueueEffect ==
  ASSUME job \in [Jobs -> Job], NEW j \in Jobs, NEW n,
         job' = [job EXCEPT ![j] = [@ EXCEPT !.st = "queued", !.sub = TRUE,
                                             !.att = 0, !.seq = n]]
  PROVE  /\ \A k \in Jobs : k # j => job'[k] = job[k]
         /\ job'[j].st = "queued" /\ job'[j].sub = TRUE /\ job'[j].seq = n
         /\ job'[j].rev = job[j].rev /\ job'[j].plan = job[j].plan
BY DEF Job

\* Cleanup removes a row as a whole or leaves it as it is.
LEMMA CleanupEffect ==
  ASSUME NEW old, RunCleanup(old)
  PROVE  \A k \in Jobs : IF Sweepable(k, old) THEN job'[k] = Gone ELSE job'[k] = job[k]
BY DEF RunCleanup

\* Recovery changes states only.
LEMMA RecoverEffect ==
  ASSUME job \in [Jobs -> Job], Recover
  PROVE  \A k \in Jobs : Kept(k) /\ job'[k].st = Recovered(job[k].st)
BY DEF Kept, Job, Recover

(***************************************************************************)
(* The inductive invariant.                                                *)
(***************************************************************************)

\* The invariant holds initially.
LEMMA InitIInv == Init => IInv
<1> SUFFICES ASSUME Init PROVE IInv
  OBVIOUS
<1>1. TypeOK
  BY InitTypeOK
<1> QED
  BY <1>1 DEF Init, IInv, AttemptsAreKnown, ConfirmedStates, DraftsAreNew, PlanningIsOwned,
     PlanningIsUnconfirmed, FinishedPlanIsFull, PlanningMatchesConnection, RequestIsCurrent,
     TransferIsConfirmed, PublishedPlansAreComplete, ActiveJobsMatchConnection,
     Absent, RunIdle, PrevIdle, Free, Starts, Planning, Transferring, Halts

\* A new preview keeps it.
LEMMA PreviewStep ==
  ASSUME IInv, NEW j \in Jobs, PreviewRead(j) \/ PreviewInsert(j), TypeOK'
  PROVE  IInv'
<1> USE DEF IInv
<1>1. CASE PreviewRead(j)
  BY <1>1 DEF PreviewRead, AttemptsAreKnown, ConfirmedStates, DraftsAreNew, PlanningIsOwned,
     PlanningIsUnconfirmed, FinishedPlanIsFull, PlanningMatchesConnection, RequestIsCurrent,
     TransferIsConfirmed, PublishedPlansAreComplete, ActiveJobsMatchConnection, Usable, TypeOK
<1>2. CASE PreviewInsert(j)
  <2>1. /\ job[j].st = "absent" /\ job'[j].st = "preparing" /\ ~job'[j].sub
        /\ \A k \in Jobs : k # j => job'[k] = job[k]
    BY <1>2 DEF PreviewInsert, DraftsAreNew, TypeOK, Absent
  <2>2. draft'[j] = NoRev /\ \A k \in Jobs : k # j => draft'[k] = draft[k]
    BY <1>2 DEF PreviewInsert, TypeOK
  <2> QED
    BY <1>2, <2>1, <2>2 DEF PreviewInsert, AttemptsAreKnown, ConfirmedStates, DraftsAreNew,
       PlanningIsOwned, PlanningIsUnconfirmed, FinishedPlanIsFull, PlanningMatchesConnection,
       RequestIsCurrent, TransferIsConfirmed, PublishedPlansAreComplete,
       ActiveJobsMatchConnection, Usable, Runner, Previewer, Holder, Planning, Transferring
<1> QED
  BY <1>1, <1>2

\* So does the write of an action, because what it has read is still true.
LEMMA ActionStep ==
  ASSUME IInv, NEW j \in Jobs, ActionQueue(j) \/ ActionHalt(j), TypeOK'
  PROVE  IInv'
<1> USE DEF IInv
<1>1. CASE ActionQueue(j)
  <2>1. CASE UNCHANGED job
    BY <1>1, <2>1 DEF ActionQueue, AttemptsAreKnown, ConfirmedStates, DraftsAreNew, PlanningIsOwned,
     PlanningIsUnconfirmed, FinishedPlanIsFull, PlanningMatchesConnection, RequestIsCurrent,
     TransferIsConfirmed, PublishedPlansAreComplete, ActiveJobsMatchConnection, Usable, Free, Starts, Halts
  <2>2. ASSUME Exists(j), NEW n, 
               job' = [job EXCEPT ![j] = [@ EXCEPT !.st = "queued", !.sub = TRUE,
                                             !.att = 0, !.seq = n]]
        PROVE IInv'
    <3>1. /\ \A k \in Jobs : k # j => job'[k] = job[k]
          /\ job'[j].st = "queued" /\ job'[j].sub = TRUE
          /\ job'[j].rev = job[j].rev /\ job'[j].plan = job[j].plan
      BY <2>2, QueueEffect DEF TypeOK
    <3>2. Usable(ConnOf[j], job[j].rev) /\ job[j].plan = "full" /\ (job[j].sub \/ job[j].st = "ready")
      BY <1>1, <2>2 DEF ActionQueue, RequestIsCurrent, Exists, PublishedPlansAreComplete
    <3>3. prev.pc \in Planning => prev.job # j
      BY <3>2 DEF PlanningIsUnconfirmed
    <3>4. prev' = prev /\ run' = run /\ conn' = conn /\ draft' = draft /\ mu' = Free
      BY <1>1 DEF ActionQueue
    <3>5. (prev.pc \in Planning => prev.job \in Jobs) /\ (run.pc \in Transferring => run.job \in Jobs)
      BY DEF TypeOK, Runner, Previewer, Planning, Transferring
    <3> QED
      BY <3>1, <3>2, <3>3, <3>4, <3>5 DEF AttemptsAreKnown, ConfirmedStates, DraftsAreNew,
       PlanningIsOwned, PlanningIsUnconfirmed, FinishedPlanIsFull, PlanningMatchesConnection,
       RequestIsCurrent, TransferIsConfirmed, PublishedPlansAreComplete,
       ActiveJobsMatchConnection, Usable, Planning, Transferring, RunPcs, Free, Starts, Halts
  <2> QED
    BY <1>1, <2>1, <2>2 DEF ActionQueue
<1>2. CASE ActionHalt(j)
  <2>0. /\ Cancel({j}) /\ mu' = Free /\ conn' = conn /\ draft' = draft /\ mu.op \in Halts
        /\ run'.pc = run.pc /\ run'.job = run.job /\ run'.att = run.att
        /\ prev'.pc = prev.pc /\ prev'.job = prev.job
    BY <1>2 DEF ActionHalt, Cancel, TypeOK, Runner, Previewer
  <2>1. CASE UNCHANGED job
    BY <2>0, <2>1 DEF AttemptsAreKnown, ConfirmedStates, DraftsAreNew, PlanningIsOwned,
       PlanningIsUnconfirmed, FinishedPlanIsFull, PlanningMatchesConnection,
       RequestIsCurrent, TransferIsConfirmed, PublishedPlansAreComplete,
       ActiveJobsMatchConnection, Usable, Free, Starts, Halts
  <2>2. ASSUME Exists(j), NEW s \in {"paused", "cancelled"}, job' = [job EXCEPT ![j].st = s]
        PROVE IInv'
    <3>1. \A k \in Jobs : Kept(k) /\ job'[k].st = IF k = j THEN s ELSE job[k].st
      BY <2>2, StateEffect DEF TypeOK
    <3>2. (prev.pc \in Planning => prev.job \in Jobs) /\ (run.pc \in Transferring => run.job \in Jobs)
      BY DEF TypeOK, Runner, Previewer, Planning, Transferring
    <3>3. draft[j] = NoRev
      BY <2>2 DEF DraftsAreNew, Exists
    <3> QED
      BY <2>0, <2>2, <3>1, <3>2, <3>3 DEF AttemptsAreKnown, ConfirmedStates, DraftsAreNew, PlanningIsOwned,
       PlanningIsUnconfirmed, FinishedPlanIsFull, PlanningMatchesConnection,
       RequestIsCurrent, TransferIsConfirmed, PublishedPlansAreComplete,
       ActiveJobsMatchConnection, Usable, Kept, Planning, Transferring, RunPcs,
       Free, Starts, Exists, Halts
  <2> QED
    BY <1>2, <2>1, <2>2 DEF ActionHalt
<1> QED
  BY <1>1, <1>2

\* And its read, which establishes what the write relies on.
LEMMA ActionReadStep ==
  ASSUME IInv, NEW j \in Jobs, NEW a \in Starts \union Halts, ActionRead(j, a), TypeOK'
  PROVE  IInv'
<1>1. mu' = [op |-> a, on |-> j] /\ UNCHANGED <<conn, job, draft, run, prev>>
  BY DEF ActionRead
<1>2. RequestIsCurrent'
  <2>1. CASE a = "start"
    BY <1>1, <2>1 DEF ActionRead, Admissible, RequestIsCurrent, Starts, Usable
  <2>2. CASE a \in {"resume", "retry"}
    BY <1>1, <2>2 DEF ActionRead, Admissible, RequestIsCurrent, Starts, Usable
  <2>3. CASE a \in Halts
    BY <1>1, <2>3 DEF ActionRead, Admissible, Exists, RequestIsCurrent, Starts, Halts
  <2> QED
    BY <2>1, <2>2, <2>3 DEF Starts
<1> QED
  BY <1>1, <1>2 DEF IInv, AttemptsAreKnown, ConfirmedStates, DraftsAreNew, PlanningIsOwned,
       PlanningIsUnconfirmed, FinishedPlanIsFull, PlanningMatchesConnection,
       RequestIsCurrent, TransferIsConfirmed, PublishedPlansAreComplete,
       ActiveJobsMatchConnection, Usable

\* A step that pauses every job of c, or leaves the jobs, when c changes:
\* no other connection is touched and c's jobs no longer need it.
LEMMA ConnectionStep ==
  ASSUME IInv, NEW c \in Conns, TypeOK', mu = Free,
         mu' \in {Free, [op |-> "sweep", on |-> c]},
         \A d \in Conns : d # c => conn'[d] = conn[d],
         \/ job' = PauseAll(c)
         \/ /\ job' = job
            /\ \A r \in Nat : Usable(c, r) => Usable(c, r)',
         UNCHANGED <<draft, run, prev>>
  PROVE  IInv'
<1>1. \A k \in Jobs : ConnOf[k] \in Conns
  BY JobsAssumption DEF JobsAssumption
<1>2. \A k \in Jobs : job[k].rev \in Nat
  BY DEF IInv, TypeOK, Job
<1>3. (prev.pc \in Planning => prev.job \in Jobs) /\ (run.pc \in Transferring => run.job \in Jobs)
  BY DEF IInv, TypeOK, Runner, Previewer, Planning, Transferring
<1>4. mu'.op \notin Starts \union Halts
  BY DEF Free, Starts, Halts
<1>5. CASE job' = PauseAll(c)
  <2>1. \A k \in Jobs : /\ Kept(k)
                        /\ job'[k].st = IF ConnOf[k] = c /\ job[k].st \in Pausable
                                        THEN "paused" ELSE job[k].st
    BY <1>5, PauseEffect DEF IInv, TypeOK
  <2> QED
    BY <1>1, <1>3, <1>4, <2>1 DEF IInv, AttemptsAreKnown, ConfirmedStates, DraftsAreNew, PlanningIsOwned,
       PlanningIsUnconfirmed, FinishedPlanIsFull, PlanningMatchesConnection,
       RequestIsCurrent, TransferIsConfirmed, PublishedPlansAreComplete,
       ActiveJobsMatchConnection, Usable, Kept, Pausable, Planning, Transferring, RunPcs, Starts, Halts
<1>6. CASE /\ job' = job
           /\ \A r \in Nat : Usable(c, r) => Usable(c, r)'
  <2>1. \A k \in Jobs : Usable(ConnOf[k], job[k].rev) => Usable(ConnOf[k], job[k].rev)'
    <3> TAKE k \in Jobs
    <3>1. CASE ConnOf[k] = c
      BY <1>2, <1>6, <3>1 DEF Usable
    <3>2. CASE ConnOf[k] # c
      BY <1>1, <1>6, <3>2 DEF Usable
    <3> QED
      BY <3>1, <3>2
  <2> QED
    BY <1>3, <1>4, <1>6, <2>1 DEF IInv, AttemptsAreKnown, ConfirmedStates, DraftsAreNew, PlanningIsOwned,
       PlanningIsUnconfirmed, FinishedPlanIsFull, PlanningMatchesConnection,
       RequestIsCurrent, TransferIsConfirmed, PublishedPlansAreComplete,
       ActiveJobsMatchConnection, Planning, Transferring, RunPcs, Starts, Halts
<1> QED
  BY <1>5, <1>6

\* Every request keeps the invariant.
LEMMA RequestStep == IInv /\ Request /\ TypeOK' => IInv'
<1> SUFFICES ASSUME IInv, Request, TypeOK' PROVE IInv'
  OBVIOUS
<1>1. ASSUME NEW j \in Jobs, PreviewRead(j) \/ PreviewInsert(j) PROVE IInv'
  BY <1>1, PreviewStep
<1>2. ASSUME NEW j \in Jobs, ActionQueue(j) \/ ActionHalt(j) PROVE IInv'
  BY <1>2, ActionStep
<1>3. ASSUME NEW j \in Jobs, NEW a \in Starts \union Halts, ActionRead(j, a) PROVE IInv'
  BY <1>3, ActionReadStep
<1>4. ASSUME NEW c \in Conns, BaseRead(c) PROVE IInv'
  BY <1>4 DEF BaseRead, IInv, AttemptsAreKnown, ConfirmedStates, DraftsAreNew, PlanningIsOwned,
       PlanningIsUnconfirmed, FinishedPlanIsFull, PlanningMatchesConnection,
       RequestIsCurrent, TransferIsConfirmed, PublishedPlansAreComplete,
       ActiveJobsMatchConnection, Usable
<1>5. ASSUME NEW c \in Conns, Login(c) \/ Disconnect(c) PROVE IInv'
  BY <1>5, ConnectionStep DEF Login, Disconnect, IInv, TypeOK
<1>6. ASSUME NEW c \in Conns, NEW other \in BOOLEAN, BaseSave(c, other) PROVE IInv'
  <2>1. \A d \in Conns : d # c => conn'[d] = conn[d]
    BY <1>6 DEF BaseSave, IInv, TypeOK
  <2>2. CASE job' = PauseAll(c)
    BY <1>6, <2>1, <2>2, ConnectionStep DEF BaseSave
  <2>3. CASE job' # PauseAll(c)
    <3>1. \A r \in Nat : Usable(c, r) => Usable(c, r)'
      <4>1. CASE UNCHANGED conn
        BY <4>1 DEF Usable
      <4>2. CASE ~ UNCHANGED conn
        <5>1. conn' = [conn EXCEPT ![c] = [@ EXCEPT !.enabled = TRUE, !.based = TRUE,
                                                    !.rev = conn[c].rev]]
          BY <1>6, <2>3, <4>2 DEF BaseSave
        <5>2. conn[c] \in Connection
          BY DEF IInv, TypeOK
        <5>3. /\ conn'[c].rev = conn[c].rev /\ conn'[c].enabled
              /\ conn'[c].connected = conn[c].connected
          BY <5>1, <5>2 DEF Connection, IInv, TypeOK
        <5> QED
          BY <5>3 DEF Usable
      <4> QED
        BY <4>1, <4>2
    <3> QED
      BY <1>6, <2>1, <2>3, <3>1, ConnectionStep DEF BaseSave
  <2> QED
    BY <2>2, <2>3
<1>7. ASSUME NEW c \in Conns, NEW enable \in BOOLEAN, NEW reconfigure \in BOOLEAN,
             SaveSettings(c, enable, reconfigure) PROVE IInv'
  <2>1. \A d \in Conns : d # c => conn'[d] = conn[d]
    BY <1>7 DEF SaveSettings, IInv, TypeOK
  <2>2. CASE job' = PauseAll(c)
    BY <1>7, <2>1, <2>2, ConnectionStep DEF SaveSettings
  <2>3. CASE job' # PauseAll(c)
    <3>1. \A r \in Nat : Usable(c, r) => Usable(c, r)'
      BY <1>7, <2>3 DEF SaveSettings, Usable, IInv, TypeOK, Connection
    <3> QED
      BY <1>7, <2>1, <2>3, <3>1, ConnectionStep DEF SaveSettings
  <2> QED
    BY <2>2, <2>3
<1>8. ASSUME NEW c \in Conns, CancelConnection(c) PROVE IInv'
  <2>1. /\ mu' = Free /\ UNCHANGED <<conn, job, draft>>
        /\ run'.pc = run.pc /\ run'.job = run.job /\ run'.att = run.att
        /\ prev'.pc = prev.pc /\ prev'.job = prev.job
    BY <1>8 DEF CancelConnection, Cancel, IInv, TypeOK, Runner, Previewer
  <2> QED
    BY <2>1 DEF IInv, AttemptsAreKnown, ConfirmedStates, DraftsAreNew, PlanningIsOwned,
       PlanningIsUnconfirmed, FinishedPlanIsFull, PlanningMatchesConnection,
       RequestIsCurrent, TransferIsConfirmed, PublishedPlansAreComplete,
       ActiveJobsMatchConnection, Usable, Free, Starts, Halts
<1> QED
  BY <1>1, <1>2, <1>3, <1>4, <1>5, <1>6, <1>7, <1>8 DEF Request

\* The preview loop keeps the invariant: it owns the job it plans.
LEMMA PreviewLoopStep == IInv /\ PreviewLoop /\ TypeOK' => IInv'
<1> SUFFICES ASSUME IInv, PreviewLoop, TypeOK' PROVE IInv'
  OBVIOUS
<1> USE DEF Planning, Transferring, RunPcs, Usable, Kept
<1> USE DEF IInv, ConfirmedStates, DraftsAreNew, PublishedPlansAreComplete,
            ActiveJobsMatchConnection, PlanningIsOwned, PlanningIsUnconfirmed,
            FinishedPlanIsFull, PlanningMatchesConnection, RequestIsCurrent,
            TransferIsConfirmed, AttemptsAreKnown
<1>0. (prev.pc \in Planning => prev.job \in Jobs) /\ (run.pc \in Transferring => run.job \in Jobs)
        /\ job \in [Jobs -> Job] /\ run \in Runner /\ prev \in Previewer
  BY DEF TypeOK, Runner, Previewer
<1>20. mu.op \in Starts \union Halts => mu.on \in Jobs
  BY DEF TypeOK, Holder, Free, Starts, Halts
<1>1. ASSUME NEW j \in Jobs, PrevClaim(j) PROVE IInv'
  <2>1. \A k \in Jobs : Kept(k) /\ job'[k].st = IF k = j THEN "planning" ELSE job[k].st
    BY <1>0, <1>1, StateEffect DEF PrevClaim
  <2>2. prev'.pc = "claimed" /\ prev'.job = j
    BY <1>0, <1>1 DEF PrevClaim, Previewer
  <2> QED
    BY <1>0, <1>1, <2>1, <2>2 DEF PrevClaim
<1>2. CASE PrevActivate
  <2>1. prev'.pc = "check" /\ prev'.job = prev.job
    BY <1>0, <1>2 DEF PrevActivate, Previewer
  <2> QED
    BY <1>0, <1>2, <2>1 DEF PrevActivate
<1>3. ASSUME NEW p, prev.pc \in {"check", "walk", "list"}, job' = [job EXCEPT ![prev.job].plan = p],
             Exists(prev.job)
      PROVE  /\ \A k \in Jobs : /\ job'[k].st = job[k].st /\ job'[k].sub = job[k].sub
                                /\ job'[k].rev = job[k].rev /\ job'[k].att = job[k].att
                                /\ k # prev.job => job'[k].plan = job[k].plan
             /\ job'[prev.job].plan = p
  BY <1>0, <1>3 DEF Job
<1>4. CASE PrevCheck
  <2>1. prev'.pc = "walk" /\ prev'.job = prev.job
    BY <1>0, <1>4 DEF PrevCheck, Previewer
  <2> QED
    BY <1>0, <1>3, <1>4, <2>1 DEF PrevCheck
<1>5. CASE PrevWalk
  <2>1. prev'.pc = "list" /\ prev'.job = prev.job
    BY <1>0, <1>5 DEF PrevWalk, Previewer
  <2> QED
    BY <1>0, <1>3, <1>5, <2>1 DEF PrevWalk
<1>6. CASE PrevList
  <2>1. prev'.pc = "planned" /\ prev'.job = prev.job
    BY <1>0, <1>6 DEF PrevList, Previewer
  <2> QED
    BY <1>0, <1>3, <1>6, <2>1 DEF PrevList
<1>7. CASE PrevFail
  <2>1. prev'.pc = "failed" /\ prev'.job = prev.job
    BY <1>0, <1>7 DEF PrevFail, Previewer
  <2> QED
    BY <1>0, <1>7, <2>1 DEF PrevFail
<1>8. CASE PrevFinish
  <2>0. prev'.pc = "release" /\ prev'.job = prev.job
    BY <1>0, <1>8 DEF PrevFinish, Previewer
  <2>1. ASSUME NEW to \in {"ready", "preparing", "failed"}, Finish(prev.job, "planning", to),
               to = "ready" => prev.pc = "planned"
        PROVE  IInv'
    <3>1. \A k \in Jobs : /\ Kept(k)
                          /\ job'[k].st = IF k = prev.job /\ job[k].st = "planning"
                                          THEN to ELSE job[k].st
      BY <1>0, <2>1, FinishEffect
    <3>10. ConfirmedStates' /\ DraftsAreNew'
      BY <1>0, <1>8, <2>0, <2>1, <3>1 DEF PrevFinish
    <3>11. PublishedPlansAreComplete' /\ ActiveJobsMatchConnection'
      BY <1>0, <1>8, <2>0, <2>1, <3>1 DEF PrevFinish
    <3>12. PlanningIsOwned' /\ PlanningIsUnconfirmed'
      BY <1>0, <1>8, <2>0, <2>1, <3>1 DEF PrevFinish
    <3>13. FinishedPlanIsFull' /\ PlanningMatchesConnection'
      BY <1>0, <1>8, <2>0, <2>1, <3>1 DEF PrevFinish
    <3>14. RequestIsCurrent'
      BY <1>0, <1>20, <1>8, <2>0, <2>1, <3>1 DEF PrevFinish, Starts, Halts
    <3>15. TransferIsConfirmed' /\ AttemptsAreKnown'
      BY <1>0, <1>8, <2>0, <2>1, <3>1 DEF PrevFinish
    <3> QED
      BY <3>10, <3>11, <3>12, <3>13, <3>14, <3>15
  <2> QED
    BY <1>8, <2>1 DEF PrevFinish
<1>9. CASE PrevRelease \/ PrevEnd
  <2>1. prev'.pc \in {"idle", "ended"} /\ UNCHANGED <<conn, job, draft, mu, run>>
    BY <1>9 DEF PrevRelease, PrevEnd, PrevIdle
  <2>2. prev.pc \notin Planning
    BY <1>9 DEF PrevRelease, PrevEnd
  <2> QED
    BY <1>0, <2>1, <2>2
<1> QED
  BY <1>1, <1>2, <1>4, <1>5, <1>6, <1>7, <1>8, <1>9 DEF PreviewLoop

\* The run loop keeps the invariant: it works on confirmed jobs only.
LEMMA RunLoopStep == IInv /\ RunLoop /\ TypeOK' => IInv'
<1> SUFFICES ASSUME IInv, RunLoop, TypeOK' PROVE IInv'
  OBVIOUS
<1> USE DEF Planning, Transferring, RunPcs, Usable, Kept
<1> USE DEF IInv, ConfirmedStates, DraftsAreNew, PublishedPlansAreComplete,
            ActiveJobsMatchConnection, PlanningIsOwned, PlanningIsUnconfirmed,
            FinishedPlanIsFull, PlanningMatchesConnection, RequestIsCurrent,
            TransferIsConfirmed, AttemptsAreKnown
<1>0. (prev.pc \in Planning => prev.job \in Jobs) /\ (run.pc \in Transferring => run.job \in Jobs)
        /\ job \in [Jobs -> Job] /\ run \in Runner /\ prev \in Previewer
  BY DEF TypeOK, Runner, Previewer
<1>20. mu.op \in Starts \union Halts => mu.on \in Jobs
  BY DEF TypeOK, Holder, Free, Starts, Halts
\* Every step that ends the work on a job is of this form.
<1>1. ASSUME NEW to \in {"queued", "paused", "failed", "complete", "partial"},
             Finish(run.job, "running", to), run.pc \in Transferring,
             run'.pc = "release", run'.job = run.job, UNCHANGED <<conn, draft, mu, prev>>
      PROVE  IInv'
  <2>1. \A k \in Jobs : /\ Kept(k)
                        /\ job'[k].st = IF k = run.job /\ job[k].st = "running"
                                        THEN to ELSE job[k].st
    BY <1>0, <1>1, FinishEffect
  <2>10. ConfirmedStates' /\ DraftsAreNew'
    BY <1>0, <1>1, <2>1
  <2>11. PublishedPlansAreComplete' /\ ActiveJobsMatchConnection'
    BY <1>0, <1>1, <2>1
  <2>12. PlanningIsOwned' /\ PlanningIsUnconfirmed'
    BY <1>0, <1>1, <2>1
  <2>13. FinishedPlanIsFull' /\ PlanningMatchesConnection'
    BY <1>0, <1>1, <2>1
  <2>14. RequestIsCurrent'
    BY <1>0, <1>20, <1>1, <2>1 DEF Starts, Halts
  <2>15. TransferIsConfirmed' /\ AttemptsAreKnown'
    BY <1>0, <1>1, <2>1
  <2> QED
    BY <2>10, <2>11, <2>12, <2>13, <2>14, <2>15
\* And every other step that leaves the jobs of this one.
<1>2. ASSUME UNCHANGED <<conn, job, draft, mu, prev>>, run'.job = run.job,
             run.pc \in Transferring, AttemptsAreKnown'
      PROVE  IInv'
  BY <1>0, <1>2
<1>3. ASSUME NEW due \in SUBSET Jobs, RunWake(due) PROVE IInv'
  <2>1. \A k \in Jobs : Kept(k) /\ job'[k].st = IF k \in due THEN "queued" ELSE job[k].st
    BY <1>0, <1>3 DEF RunWake, Job
  <2>10. ConfirmedStates' /\ DraftsAreNew'
    BY <1>0, <1>3, <2>1 DEF RunWake
  <2>11. PublishedPlansAreComplete' /\ ActiveJobsMatchConnection'
    BY <1>0, <1>3, <2>1 DEF RunWake
  <2>12. PlanningIsOwned' /\ PlanningIsUnconfirmed'
    BY <1>0, <1>3, <2>1 DEF RunWake
  <2>13. FinishedPlanIsFull' /\ PlanningMatchesConnection'
    BY <1>0, <1>3, <2>1 DEF RunWake
  <2>14. RequestIsCurrent'
    BY <1>0, <1>20, <1>3, <2>1 DEF RunWake, Starts, Halts
  <2>15. TransferIsConfirmed' /\ AttemptsAreKnown'
    BY <1>0, <1>3, <2>1 DEF RunWake
  <2> QED
    BY <2>10, <2>11, <2>12, <2>13, <2>14, <2>15
<1>4. ASSUME NEW j \in Jobs, RunClaim(j) PROVE IInv'
  <2>1. \A k \in Jobs : Kept(k) /\ job'[k].st = IF k = j THEN "running" ELSE job[k].st
    BY <1>0, <1>4, StateEffect DEF RunClaim
  <2>2. run'.pc = "claimed" /\ run'.job = j
    BY <1>0, <1>4 DEF RunClaim, Runner
  <2> QED
    BY <1>0, <1>4, <2>1, <2>2 DEF RunClaim, Free, Starts, Halts
<1>5. CASE RunActivate
  <2>1. run'.pc = "active" /\ run'.job = run.job
    BY <1>0, <1>5 DEF RunActivate, Runner
  <2> QED
    BY <1>2, <1>5, <2>1 DEF RunActivate
<1>6. CASE RunLoad
  <2>1. CASE RunLive
    <3>1. run'.pc = "loaded" /\ run'.job = run.job /\ run'.att = job[run.job].att
      BY <1>0, <1>6, <2>1 DEF RunLoad, Runner
    <3> QED
      BY <1>2, <1>6, <2>1, <3>1 DEF RunLoad
  <2>2. CASE ~RunLive
    <3>1. run'.pc = "release" /\ run'.job = run.job
      BY <1>0, <1>6, <2>2 DEF RunLoad, Runner
    <3> QED
      BY <1>1, <1>6, <2>2, <3>1 DEF RunLoad
  <2> QED
    BY <2>1, <2>2
<1>7. CASE RunConnect
  <2>1. CASE UNCHANGED job /\ run' = [run EXCEPT !.pc = "upload"]
    <3>1. run'.pc = "upload" /\ run'.job = run.job /\ run'.att = run.att
      BY <1>0, <2>1 DEF Runner
    <3> QED
      BY <1>2, <1>7, <2>1, <3>1 DEF RunConnect
  <2>2. CASE Finish(run.job, "running", "paused") /\ run' = [run EXCEPT !.pc = "release"]
    <3>1. run'.pc = "release" /\ run'.job = run.job
      BY <1>0, <2>2 DEF Runner
    <3> QED
      BY <1>1, <1>7, <2>2, <3>1 DEF RunConnect
  <2> QED
    BY <1>7, <2>1, <2>2 DEF RunConnect
<1>8. ASSUME NEW err \in {"none", "retry", "stop"}, RunUpload(err) PROVE IInv'
  <2>1. run'.pc = "drained" /\ run'.job = run.job /\ run'.att = run.att
    BY <1>0, <1>8 DEF RunUpload, Runner
  <2> QED
    BY <1>2, <1>8, <2>1 DEF RunUpload
<1>9. CASE RunVerdict
  <2>0. /\ run'.pc \in {"final", "release"} /\ run'.job = run.job /\ run'.att = run.att
        /\ run.pc \in Transferring /\ run.pc = "verdict"
        /\ UNCHANGED <<conn, draft, mu, prev>>
    BY <1>0, <1>9 DEF RunVerdict, Runner
  <2>1. CASE UNCHANGED job
    BY <1>2, <2>0, <2>1
  <2>2. ASSUME Finish(run.job, "running", "paused"), run'.pc = "release"
        PROVE  IInv'
    BY <1>1, <2>0, <2>2
  <2>3. ASSUME run'.pc = "release",
               job' = [job EXCEPT ![run.job] =
                  IF @.st = "running"
                  THEN [@ EXCEPT !.st = "waiting", !.att = job[run.job].att + 1] ELSE @]
        PROVE  IInv'
    <3>1. \A k \in Jobs : /\ job'[k].sub = job[k].sub /\ job'[k].rev = job[k].rev
                          /\ job'[k].plan = job[k].plan
                          /\ job'[k].st = IF k = run.job /\ job[k].st = "running"
                                          THEN "waiting" ELSE job[k].st
      BY <1>0, <2>3 DEF Job
    <3> QED
      BY <1>0, <2>0, <2>3, <3>1
  <2>4. job' # job => run'.pc = "release"
    BY <1>0, <1>9 DEF RunVerdict, RunLive, MayRetry, Runner
  <2> QED
    BY <1>9, <2>1, <2>2, <2>3, <2>4 DEF RunVerdict
<1>10. ASSUME NEW to \in {"complete", "partial"}, RunFinal(to) PROVE IInv'
  <2>1. run'.pc = "release" /\ run'.job = run.job
    BY <1>0, <1>10 DEF RunFinal, Runner
  <2> QED
    BY <1>1, <1>10, <2>1 DEF RunFinal
<1>11. CASE RunRelease \/ RunEnd
  <2>1. run'.pc \in {"idle", "ended"} /\ UNCHANGED <<conn, job, draft, mu, prev>>
    BY <1>11 DEF RunRelease, RunEnd, RunIdle
  <2> QED
    BY <1>0, <2>1
<1>12. CASE RunDrained
  <2>1. /\ run'.pc \in {"verdict", "release"} /\ run'.job = run.job /\ run'.att = run.att
        /\ run.pc = "drained" /\ run.pc \in Transferring
        /\ job' # job => run'.pc = "release"
    BY <1>0, <1>12 DEF RunDrained, Runner
  <2> QED
    BY <1>1, <1>2, <1>12, <2>1 DEF RunDrained
<1> QED
  BY <1>3, <1>4, <1>5, <1>6, <1>7, <1>8, <1>9, <1>10, <1>11, <1>12 DEF RunLoop

\* Cleanup, the passing of time, shutdown, restart and crash.
LEMMA WorldStep ==
  ASSUME IInv, TypeOK',
         \/ \E old \in SUBSET Jobs : RunCleanup(old)
         \/ \E j \in Jobs : Expire(j)
         \/ Stop \/ Restart \/ Crash \/ UNCHANGED vars
  PROVE  IInv'
<1> USE DEF Planning, Transferring, RunPcs, Usable, Kept
<1> USE DEF IInv, ConfirmedStates, DraftsAreNew, PublishedPlansAreComplete,
            ActiveJobsMatchConnection, PlanningIsOwned, PlanningIsUnconfirmed,
            FinishedPlanIsFull, PlanningMatchesConnection, RequestIsCurrent,
            TransferIsConfirmed, AttemptsAreKnown
<1>0. /\ prev.pc \in Planning => prev.job \in Jobs
      /\ run.pc \in Transferring => run.job \in Jobs
      /\ job \in [Jobs -> Job]
  BY DEF TypeOK, Runner, Previewer
<1>1. mu.op \in Starts \union Halts => mu.on \in Jobs
  BY DEF TypeOK, Holder, Free, Starts, Halts
<1>2. ASSUME NEW old \in SUBSET Jobs, RunCleanup(old) PROVE IInv'
  <2>1. \A k \in Jobs : \/ job'[k] = job[k]
                        \/ /\ job'[k].st = "gone" /\ ~job'[k].sub
                           /\ job[k].st \notin {"planning", "absent"}
    BY <1>2, CleanupEffect DEF Sweepable, Exists, Gone, Absent
  <2>2. run.pc = "idle" /\ UNCHANGED <<conn, draft, mu, run, prev>>
    BY <1>2 DEF RunCleanup
  <2> QED
    BY <1>0, <1>1, <2>1, <2>2 DEF Starts, Halts
<1>3. ASSUME NEW j \in Jobs, Expire(j) PROVE IInv'
  <2>1. \A k \in Jobs : Kept(k) /\ job'[k].st = job[k].st
    BY <1>0, <1>3 DEF Expire, Job
  <2> QED
    BY <1>0, <1>1, <1>3, <2>1 DEF Expire
<1>4. CASE Stop \/ UNCHANGED vars
  BY <1>4 DEF Stop, vars
<1>5. CASE Restart \/ Crash
  <2>1. /\ run'.pc = "idle" /\ prev'.pc = "idle" /\ mu' = Free
        /\ conn' = conn /\ \A k \in Jobs : draft'[k] = NoRev
    BY <1>5 DEF Restart, Crash, Recover, RunIdle, PrevIdle
  <2>2. \A k \in Jobs : Kept(k) /\ job'[k].st = Recovered(job[k].st)
    BY <1>0, <1>5, RecoverEffect DEF Restart, Crash
  <2> QED
    BY <2>1, <2>2 DEF Recovered, Free, Starts, Halts
<1> QED
  BY <1>2, <1>3, <1>4, <1>5

\* The invariant is inductive.
LEMMA StepIInv == IInv /\ [Next]_vars => IInv'
<1> SUFFICES ASSUME IInv, [Next]_vars PROVE IInv'
  OBVIOUS
<1>1. TypeOK'
  BY StepTypeOK DEF IInv
<1> QED
  BY <1>1, RequestStep, PreviewLoopStep, RunLoopStep, WorldStep DEF Next

\* The inductive invariant holds in every reachable state.
THEOREM Invariance == Spec => []IInv
<1>1. Init => IInv
  BY InitIInv
<1>2. IInv /\ [Next]_vars => IInv'
  BY StepIInv
<1> QED
  BY <1>1, <1>2, PTL DEF Spec

-----------------------------------------------------------------------------
(***************************************************************************)
(* The changes of one row.                                                 *)
(***************************************************************************)

\* States that follow one another without the help of a request that the
\* job's user made, other than its confirmation.
Ordinary ==
    {<<"preparing", "planning">>, <<"preparing", "paused">>}
    \union {<<"planning", s>> : s \in {"ready", "preparing", "failed", "paused"}}
    \union {<<"ready", "paused">>}
    \union {<<"queued", s>> : s \in {"running", "paused"}}
    \union {<<"running", s>> : s \in {"waiting", "queued", "paused", "failed",
                                      "complete", "partial"}}
    \union {<<"waiting", s>> : s \in {"queued", "paused"}}

Same(k)  == job'[k].st = job[k].st /\ job'[k].sub = job[k].sub /\ job'[k].seq = job[k].seq
Goes(k)  == /\ <<job[k].st, job'[k].st>> \in Ordinary
            /\ job'[k].sub = job[k].sub /\ job'[k].seq = job[k].seq
Again(k) == /\ job[k].st \in {"paused", "waiting", "queued", "partial", "failed"} /\ job[k].sub
            /\ job'[k].st = "queued" /\ job'[k].sub /\ job'[k].seq = job[k].seq
Confirmed(k) == /\ job[k].st = "ready" /\ ~job[k].sub
                /\ job'[k].st = "queued" /\ job'[k].sub
                /\ \A i \in Jobs : job[i].seq < job'[k].seq
                /\ \A i \in Jobs : i # k => job'[i] = job[i]
Halted(k) == /\ mu.op \in Halts /\ mu.on = k
             /\ job[k].st \notin {"absent", "gone", "cancelled"}
             /\ job'[k].st \in {"paused", "cancelled"}
             /\ job'[k].sub = job[k].sub /\ job'[k].seq = job[k].seq
Removed(k) == /\ job'[k].st = "gone" /\ ~job'[k].sub
              /\ job[k].st \in {"complete", "partial", "cancelled"}
                   \/ (~job[k].sub /\ job[k].st \notin {"absent", "gone", "planning"})
Created(k) == job[k].st = "absent" /\ job'[k].st = "preparing" /\ ~job'[k].sub

Change(k) == \/ Same(k) \/ Goes(k) \/ Again(k) \/ Confirmed(k)
             \/ Halted(k) \/ Removed(k) \/ Created(k)

\* A conditional UPDATE along an ordinary pair is an ordinary change.
LEMMA FinishChange ==
  ASSUME job \in [Jobs -> Job], NEW j, NEW from, NEW to, Finish(j, from, to),
         <<from, to>> \in Ordinary
  PROVE  \A k \in Jobs : Change(k)
<1>1. \A k \in Jobs : /\ Kept(k)
                      /\ job'[k].st = IF k = j /\ job[k].st = from THEN to ELSE job[k].st
  BY FinishEffect
<1> QED
  BY <1>1 DEF Kept, Change, Same, Goes

\* So is pausing the jobs of a connection.
LEMMA PauseChange ==
  ASSUME job \in [Jobs -> Job], NEW c, job' = PauseAll(c)
  PROVE  \A k \in Jobs : Change(k)
<1>1. \A k \in Jobs : /\ Kept(k)
                      /\ job'[k].st = IF ConnOf[k] = c /\ job[k].st \in Pausable
                                      THEN "paused" ELSE job[k].st
  BY PauseEffect
<1>2. \A s \in Pausable : <<s, "paused">> \in Ordinary
  BY DEF Pausable, Ordinary
<1> QED
  BY <1>1, <1>2 DEF Kept, Change, Same, Goes, Pausable

\* The next place in the queue is above all places given so far.
LEMMA NextSeqAbove ==
  ASSUME NEW n \in NextSeq
  PROVE  \A i \in Jobs : job[i].seq < n
BY DEF NextSeq

\* Requests change rows in these ways only.
LEMMA RequestChange ==
  ASSUME IInv, Request
  PROVE  \A k \in Jobs : Change(k)
<1>0. job \in [Jobs -> Job]
  BY DEF IInv, TypeOK
<1>1. ASSUME UNCHANGED job PROVE \A k \in Jobs : Change(k)
  BY <1>1 DEF Change, Same
<1>2. ASSUME NEW j \in Jobs, PreviewInsert(j) PROVE \A k \in Jobs : Change(k)
  <2>1. job[j].st = "absent" /\ job'[j].st = "preparing" /\ ~job'[j].sub
    BY <1>0, <1>2 DEF PreviewInsert, IInv, DraftsAreNew, Absent
  <2>2. \A k \in Jobs : k # j => job'[k] = job[k]
    BY <1>0, <1>2 DEF PreviewInsert
  <2> QED
    BY <2>1, <2>2 DEF Change, Same, Created
<1>3. ASSUME NEW j \in Jobs, ActionQueue(j) PROVE \A k \in Jobs : Change(k)
  <2>1. ASSUME Exists(j), NEW n \in Place(j),
               job' = [job EXCEPT ![j] = [@ EXCEPT !.st = "queued", !.sub = TRUE,
                                                   !.att = 0, !.seq = n]]
        PROVE  \A k \in Jobs : Change(k)
    <3>1. /\ \A k \in Jobs : k # j => job'[k] = job[k]
          /\ job'[j].st = "queued" /\ job'[j].sub = TRUE /\ job'[j].seq = n
      BY <1>0, <2>1, QueueEffect
    <3>2. /\ mu.op \in Starts
          /\ mu.op = "start"  => job[j].st = "ready"
          /\ mu.op # "start"  => job[j].sub
          /\ mu.op = "resume" => job[j].st \in {"paused", "waiting", "queued"}
          /\ mu.op = "retry"  => job[j].st \in {"partial", "failed"}
      BY <1>3, <2>1 DEF ActionQueue, IInv, RequestIsCurrent, Exists
    <3>3. CASE mu.op = "start"
      <4>1. ~job[j].sub
        BY <3>2, <3>3 DEF IInv, ConfirmedStates
      <4>2. n \in NextSeq
        BY <2>1, <4>1 DEF Place
      <4>3. \A i \in Jobs : job[i].seq < job'[j].seq
        BY <3>1, <4>2, NextSeqAbove
      <4> QED
        BY <3>1, <3>2, <3>3, <4>1, <4>3 DEF Change, Same, Confirmed
    <3>4. CASE mu.op \in {"resume", "retry"}
      <4>1. n = job[j].seq
        BY <2>1, <3>2, <3>4 DEF Place
      <4> QED
        BY <3>1, <3>2, <3>4, <4>1 DEF Change, Same, Again
    <3> QED
      BY <3>2, <3>3, <3>4 DEF Starts
  <2> QED
    BY <1>1, <1>3, <2>1 DEF ActionQueue
<1>4. ASSUME NEW j \in Jobs, ActionHalt(j) PROVE \A k \in Jobs : Change(k)
  <2>1. ASSUME Exists(j), NEW s \in {"paused", "cancelled"}, job' = [job EXCEPT ![j].st = s]
        PROVE  \A k \in Jobs : Change(k)
    <3>1. \A k \in Jobs : Kept(k) /\ job'[k].st = IF k = j THEN s ELSE job[k].st
      BY <1>0, <2>1, StateEffect
    <3>2. mu.op \in Halts /\ mu.on = j /\ job[j].st \notin {"absent", "gone", "cancelled"}
      BY <1>4, <2>1 DEF ActionHalt, IInv, RequestIsCurrent, Exists
    <3> QED
      BY <2>1, <3>1, <3>2 DEF Kept, Change, Same, Halted
  <2> QED
    BY <1>1, <1>4, <2>1 DEF ActionHalt
<1>5. ASSUME NEW c, job' = PauseAll(c) PROVE \A k \in Jobs : Change(k)
  BY <1>0, <1>5, PauseChange
<1>6. ASSUME NEW j \in Jobs, PreviewRead(j) \/ \E a \in Starts \union Halts : ActionRead(j, a)
      PROVE  \A k \in Jobs : Change(k)
  BY <1>1, <1>6 DEF PreviewRead, ActionRead
<1>7. ASSUME NEW c \in Conns, BaseRead(c) \/ Login(c) \/ Disconnect(c) \/ CancelConnection(c)
      PROVE  \A k \in Jobs : Change(k)
  BY <1>1, <1>5, <1>7 DEF BaseRead, Login, Disconnect, CancelConnection
<1>8. ASSUME NEW c \in Conns, NEW other \in BOOLEAN, BaseSave(c, other)
      PROVE  \A k \in Jobs : Change(k)
  BY <1>1, <1>5, <1>8 DEF BaseSave
<1>9. ASSUME NEW c \in Conns, NEW enable \in BOOLEAN, NEW reconfigure \in BOOLEAN,
             SaveSettings(c, enable, reconfigure)
      PROVE  \A k \in Jobs : Change(k)
  BY <1>1, <1>5, <1>9 DEF SaveSettings
<1> QED
  BY <1>2, <1>3, <1>4, <1>6, <1>7, <1>8, <1>9 DEF Request

\* So do the loops.
LEMMA LoopChange ==
  ASSUME IInv, PreviewLoop \/ RunLoop
  PROVE  \A k \in Jobs : Change(k)
<1>0. job \in [Jobs -> Job]
  BY DEF IInv, TypeOK
<1>1. ASSUME UNCHANGED job PROVE \A k \in Jobs : Change(k)
  BY <1>1 DEF Change, Same
<1>2. ASSUME NEW j, NEW from, NEW to, Finish(j, from, to), <<from, to>> \in Ordinary
      PROVE  \A k \in Jobs : Change(k)
  BY <1>0, <1>2, FinishChange
<1>3. ASSUME NEW j \in Jobs, PrevClaim(j) \/ RunClaim(j) PROVE \A k \in Jobs : Change(k)
  <2>1. CASE PrevClaim(j)
    <3>1. \A k \in Jobs : Kept(k) /\ job'[k].st = IF k = j THEN "planning" ELSE job[k].st
      BY <1>0, <2>1, StateEffect DEF PrevClaim
    <3> QED
      BY <2>1, <3>1 DEF PrevClaim, Kept, Change, Same, Goes, Ordinary
  <2>2. CASE RunClaim(j)
    <3>1. \A k \in Jobs : Kept(k) /\ job'[k].st = IF k = j THEN "running" ELSE job[k].st
      BY <1>0, <2>2, StateEffect DEF RunClaim
    <3> QED
      BY <2>2, <3>1 DEF RunClaim, Kept, Change, Same, Goes, Ordinary
  <2> QED
    BY <1>3, <2>1, <2>2
<1>4. CASE PrevCheck \/ PrevWalk \/ PrevList
  BY <1>0, <1>4 DEF PrevCheck, PrevWalk, PrevList, Job, Change, Same
<1>5. CASE PrevFinish
  BY <1>2, <1>5 DEF PrevFinish, Ordinary
<1>6. CASE PrevActivate \/ PrevFail \/ PrevRelease \/ PrevEnd
  BY <1>1, <1>6 DEF PrevActivate, PrevFail, PrevRelease, PrevEnd
<1>7. ASSUME NEW due \in SUBSET Jobs, RunWake(due) PROVE \A k \in Jobs : Change(k)
  <2>1. \A k \in Jobs : Kept(k) /\ job'[k].st = IF k \in due THEN "queued" ELSE job[k].st
    BY <1>0, <1>7 DEF RunWake, Kept, Job
  <2> QED
    BY <1>7, <2>1 DEF RunWake, Kept, Change, Same, Goes, Ordinary
<1>8. CASE RunLoad \/ RunConnect
  BY <1>1, <1>2, <1>8 DEF RunLoad, RunConnect, Ordinary
<1>9. CASE RunVerdict
  <2>1. CASE job' = [job EXCEPT ![run.job] =
                IF @.st = "running" THEN [@ EXCEPT !.st = "waiting", !.att = job[run.job].att + 1] ELSE @]
    <3>1. \A k \in Jobs : /\ job'[k].sub = job[k].sub /\ job'[k].seq = job[k].seq
                          /\ job'[k].st = IF k = run.job /\ job[k].st = "running"
                                          THEN "waiting" ELSE job[k].st
      BY <1>0, <2>1 DEF Job
    <3> QED
      BY <3>1 DEF Change, Same, Goes, Ordinary
  <2> QED
    BY <1>1, <1>2, <1>9, <2>1 DEF RunVerdict, Ordinary
<1>10. ASSUME NEW to \in {"complete", "partial"}, RunFinal(to) PROVE \A k \in Jobs : Change(k)
  BY <1>2, <1>10 DEF RunFinal, Ordinary
<1>11. CASE RunActivate \/ RunRelease \/ RunEnd \/ \E err \in {"none", "retry", "stop"} : RunUpload(err)
  BY <1>1, <1>11 DEF RunActivate, RunRelease, RunEnd, RunUpload
<1>12. CASE RunDrained
  BY <1>1, <1>2, <1>12 DEF RunDrained, Ordinary
<1> QED
  BY <1>3, <1>4, <1>5, <1>6, <1>7, <1>8, <1>9, <1>10, <1>11, <1>12 DEF PreviewLoop, RunLoop

\* Every step changes every row in one of these ways.
LEMMA RowChange ==
  ASSUME IInv, [Next]_vars
  PROVE  \A k \in Jobs : Change(k)
<1>0. job \in [Jobs -> Job]
  BY DEF IInv, TypeOK
<1>1. ASSUME NEW old \in SUBSET Jobs, RunCleanup(old) PROVE \A k \in Jobs : Change(k)
  <2>1. \A k \in Jobs : \/ job'[k] = job[k]
                        \/ Sweepable(k, old) /\ job'[k].st = "gone" /\ ~job'[k].sub
    BY <1>1, CleanupEffect DEF Gone, Absent
  <2> QED
    BY <2>1 DEF Sweepable, Exists, Change, Same, Removed
<1>2. ASSUME NEW j \in Jobs, Expire(j) PROVE \A k \in Jobs : Change(k)
  BY <1>0, <1>2 DEF Expire, Job, Change, Same
<1>3. CASE Stop \/ UNCHANGED vars
  BY <1>3 DEF Stop, vars, Change, Same
<1>4. CASE Restart \/ Crash
  <2>1. \A k \in Jobs : Kept(k) /\ job'[k].st = Recovered(job[k].st)
    BY <1>0, <1>4, RecoverEffect DEF Restart, Crash
  <2> QED
    BY <2>1 DEF Recovered, Kept, Change, Same, Goes, Ordinary
<1> QED
  BY <1>1, <1>2, <1>3, <1>4, RequestChange, LoopChange DEF Next

(***************************************************************************)
(* What follows from the changes of a row.                                 *)
(***************************************************************************)

\* No step takes a cancelled job up again.
LEMMA StepCancelled ==
  IInv /\ [Next]_vars =>
    [\A j \in Jobs : job[j].st = "cancelled" => job'[j].st \in {"cancelled", "gone"}]_vars
<1> SUFFICES ASSUME IInv, [Next]_vars, NEW j \in Jobs, job[j].st = "cancelled"
             PROVE  job'[j].st \in {"cancelled", "gone"}
  OBVIOUS
<1> QED
  BY RowChange DEF Change, Same, Goes, Ordinary, Again, Confirmed, Halted, Removed, Created

\* A complete job is left by removal or by a late pause or cancel.
LEMMA StepComplete ==
  IInv /\ [Next]_vars =>
    [\A j \in Jobs : job[j].st = "complete" /\ job'[j].st # "complete"
          => job'[j].st = "gone" \/ (mu.op \in Halts /\ mu.on = j)]_vars
<1> SUFFICES ASSUME IInv, [Next]_vars, NEW j \in Jobs,
                    job[j].st = "complete", job'[j].st # "complete"
             PROVE  job'[j].st = "gone" \/ (mu.op \in Halts /\ mu.on = j)
  OBVIOUS
<1> QED
  BY RowChange DEF Change, Same, Goes, Ordinary, Again, Confirmed, Halted, Removed, Created

\* No step moves or unconfirms a confirmed job.
LEMMA StepPlace ==
  IInv /\ [Next]_vars =>
    [\A j \in Jobs : job[j].sub /\ job'[j].st # "gone"
          => job'[j].sub /\ job'[j].seq = job[j].seq]_vars
<1> SUFFICES ASSUME IInv, [Next]_vars, NEW j \in Jobs, job[j].sub, job'[j].st # "gone"
             PROVE  job'[j].sub /\ job'[j].seq = job[j].seq
  OBVIOUS
<1>1. job[j].st # "absent"
  BY DEF IInv, ConfirmedStates
<1> QED
  BY <1>1, RowChange DEF Change, Same, Goes, Again, Confirmed, Halted, Removed, Created

\* Confirming is the only step that gives a place, and it gives a new one.
LEMMA StepPlacesDiffer == IInv /\ QueuePlacesDiffer /\ [Next]_vars => QueuePlacesDiffer'
<1> SUFFICES ASSUME IInv, QueuePlacesDiffer, [Next]_vars,
                    NEW j \in Jobs, NEW k \in Jobs,
                    job'[j].sub, job'[k].sub, job'[j].seq = job'[k].seq
             PROVE  j = k
  BY DEF QueuePlacesDiffer
<1>1. \A i \in Jobs : job[i].seq \in Nat
  BY DEF IInv, TypeOK, Job
<1>2. \A i \in Jobs : job'[i].sub => \/ job[i].sub /\ job'[i].seq = job[i].seq
                                     \/ Confirmed(i)
  BY RowChange DEF Change, Same, Goes, Again, Halted, Removed, Created
<1>3. CASE Confirmed(j) \/ Confirmed(k)
  BY <1>1, <1>3 DEF Confirmed
<1>4. CASE ~Confirmed(j) /\ ~Confirmed(k)
  BY <1>2, <1>4 DEF QueuePlacesDiffer
<1> QED
  BY <1>3, <1>4

\* Initial states map to initial states of the life cycle.
LEMMA InitPhase == Init => Lifecycle!Init
BY DEF Init, Lifecycle!Init, Phase, Absent

\* A change of a row is a move of the life cycle or leaves the phase.
LEMMA PhaseMoves ==
  ASSUME IInv, IInv', [Next]_vars, NEW k \in Jobs
  PROVE  Phase(k)' = Phase(k) \/ <<Phase(k), Phase(k)'>> \in Lifecycle!Moves
<1> USE DEF Phase, Lifecycle!Moves
<1>0. Change(k)
  BY RowChange
<1>1. CASE Same(k)
  BY <1>1 DEF Same
<1>2. CASE Goes(k)
  BY <1>2 DEF Goes, Ordinary, IInv, ConfirmedStates
<1>3. CASE Again(k)
  BY <1>3 DEF Again
<1>4. CASE Confirmed(k)
  BY <1>4 DEF Confirmed
<1>5. CASE Halted(k)
  <2>1. job[k].st \in States
    BY DEF IInv, TypeOK, Job
  <2> QED
    BY <1>5, <2>1 DEF Halted, States, IInv, ConfirmedStates
<1>6. CASE Removed(k)
  <2>1. job[k].st \in States
    BY DEF IInv, TypeOK, Job
  <2> QED
    BY <1>6, <2>1 DEF Removed, States, IInv, ConfirmedStates
<1>7. CASE Created(k)
  BY <1>7 DEF Created
<1> QED
  BY <1>0, <1>1, <1>2, <1>3, <1>4, <1>5, <1>6, <1>7 DEF Change

\* Every step maps to a step of the life cycle.
LEMMA StepLifecycle ==
  IInv /\ IInv' /\ [Next]_vars => [Lifecycle!Next]_([j \in Jobs |-> Phase(j)])
<1> SUFFICES ASSUME IInv, IInv', [Next]_vars PROVE Lifecycle!Next
  OBVIOUS
<1>1. \A k \in Jobs : Phase(k)' \in Lifecycle!Phases
  <2> TAKE k \in Jobs
  <2>1. job'[k].st \in States
    BY DEF IInv, TypeOK, Job
  <2> QED
    BY <2>1 DEF Phase, Lifecycle!Phases, States
<1> QED
  BY <1>1, PhaseMoves DEF Lifecycle!Next

(***************************************************************************)
(* Who owns a running job.                                                 *)
(***************************************************************************)

\* Initially nothing runs.
LEMMA InitWork == Init => WorkInv
BY DEF Init, WorkInv, RunningIsTaken, StoppedTransferRests, SweptJobsRest,
       RegisteredTransferRests, Absent, Free, RunIdle, Active

\* A step that starts or stops no transfer and does not touch the run loop.
LEMMA QuietStep ==
  ASSUME IInv, WorkInv, UNCHANGED <<run, stopping>>,
         \A k \in Jobs : job'[k].st = "running" <=> job[k].st = "running",
         run.pc \in Active /\ reg'[run.job] = "run" => reg[run.job] = "run",
         mu' = mu \/ {mu.op, mu'.op} \intersect {"sweep"} = {}
  PROVE  WorkInv'
<1>1. run.pc \in Active => run.job \in Jobs
  BY DEF IInv, TypeOK, Runner, Active
<1> QED
  BY <1>1 DEF WorkInv, RunningIsTaken, StoppedTransferRests, SweptJobsRest,
              RegisteredTransferRests, RunLive, JobsOf

\* A step that pauses the jobs of c and leaves the sweep to do.
LEMMA SweepStep ==
  ASSUME IInv, WorkInv, NEW c \in Conns, job' = PauseAll(c), mu = Free,
         mu' = [op |-> "sweep", on |-> c], UNCHANGED <<reg, run, stopping>>
  PROVE  WorkInv'
<1>1. \A k \in Jobs : job'[k].st = IF ConnOf[k] = c /\ job[k].st \in Pausable
                                   THEN "paused" ELSE job[k].st
  BY PauseEffect DEF IInv, TypeOK
<1>2. run.pc \in Active => run.job \in Jobs
  BY DEF IInv, TypeOK, Runner, Active
<1> QED
  BY <1>1, <1>2 DEF WorkInv, RunningIsTaken, StoppedTransferRests, SweptJobsRest,
                    RegisteredTransferRests, RunLive, JobsOf, Free, Pausable

\* Requests that are carried through keep the ownership of running jobs.
LEMMA RequestWork == IInv /\ WorkInv /\ Request => WorkInv'
<1> SUFFICES ASSUME IInv, WorkInv, Request PROVE WorkInv'
  OBVIOUS
<1>0. job \in [Jobs -> Job]
  BY DEF IInv, TypeOK
<1>1. ASSUME UNCHANGED <<job, reg, run, stopping>>,
             mu' = mu \/ {mu.op, mu'.op} \intersect {"sweep"} = {}
      PROVE  WorkInv'
  BY <1>1, QuietStep
<1>2. ASSUME NEW j \in Jobs, PreviewRead(j) PROVE WorkInv'
  BY <1>1, <1>2 DEF PreviewRead
<1>3. ASSUME NEW j \in Jobs, PreviewInsert(j) PROVE WorkInv'
  <2>1. job[j].st = "absent" /\ job'[j].st = "preparing"
    BY <1>0, <1>3 DEF PreviewInsert, IInv, DraftsAreNew, Absent
  <2>2. \A k \in Jobs : k # j => job'[k] = job[k]
    BY <1>0, <1>3 DEF PreviewInsert
  <2> QED
    BY <1>3, <2>1, <2>2, QuietStep DEF PreviewInsert
<1>4. ASSUME NEW j \in Jobs, NEW a \in Starts \union Halts, ActionRead(j, a) PROVE WorkInv'
  BY <1>1, <1>4 DEF ActionRead, Free, Starts, Halts
<1>5. ASSUME NEW j \in Jobs, ActionQueue(j) PROVE WorkInv'
  <2>1. UNCHANGED <<reg, run, stopping>> /\ {mu.op, mu'.op} \intersect {"sweep"} = {}
    BY <1>5 DEF ActionQueue, Starts, Free
  <2>2. CASE UNCHANGED job
    BY <1>1, <2>1, <2>2
  <2>3. ASSUME Exists(j), NEW n,
               job' = [job EXCEPT ![j] = [@ EXCEPT !.st = "queued", !.sub = TRUE,
                                                   !.att = 0, !.seq = n]]
        PROVE  WorkInv'
    <3>1. job'[j].st = "queued" /\ \A k \in Jobs : k # j => job'[k] = job[k]
      BY <1>0, <2>3, QueueEffect
    <3>2. job[j].st # "running"
      BY <1>5, <2>3 DEF ActionQueue, Exists, Starts, IInv, RequestIsCurrent
    <3> QED
      BY <2>1, <3>1, <3>2, QuietStep
  <2> QED
    BY <1>5, <2>2, <2>3 DEF ActionQueue
\* A pause or cancel: the state is written, and the transfer cancelled.
<1>6. ASSUME NEW j \in Jobs, ActionHalt(j) PROVE WorkInv'
  <2>0. /\ run'.pc = run.pc /\ run'.job = run.job
        /\ run'.live => run.live
        /\ run.job = j /\ reg[j] = "run" => ~run'.live
        /\ run.job # j => run' = run
        /\ mu' = Free /\ mu.op \in Halts /\ UNCHANGED <<reg, stopping>>
    BY <1>6 DEF ActionHalt, Cancel, IInv, TypeOK, Runner
  <2>1. ASSUME ~DeadRequests
        PROVE  /\ \A k \in Jobs : k # j => job'[k].st = job[k].st
               /\ job'[j].st # "running"
    <3>1. CASE Exists(j) /\ \E s \in {"paused", "cancelled"} : job' = [job EXCEPT ![j].st = s]
      BY <1>0, <3>1 DEF Job
    <3>2. CASE ~Exists(j) /\ UNCHANGED job
      BY <3>2 DEF Exists
    <3> QED
      BY <1>6, <2>1, <3>1, <3>2 DEF ActionHalt
  <2>2. run.pc \in Active => run.job \in Jobs
    BY DEF IInv, TypeOK, Runner, Active
  <2> QED
    BY <2>0, <2>1, <2>2 DEF WorkInv, RunningIsTaken, StoppedTransferRests, SweptJobsRest,
       RegisteredTransferRests, RunLive, Free, Halts
<1>7. ASSUME NEW c \in Conns, BaseRead(c) \/ Login(c) \/ Disconnect(c) PROVE WorkInv'
  BY <1>1, <1>7, SweepStep DEF BaseRead, Login, Disconnect
<1>8. ASSUME NEW c \in Conns, NEW other \in BOOLEAN, BaseSave(c, other) PROVE WorkInv'
  BY <1>1, <1>8, SweepStep DEF BaseSave
<1>9. ASSUME NEW c \in Conns, NEW enable \in BOOLEAN, NEW reconfigure \in BOOLEAN,
             SaveSettings(c, enable, reconfigure) PROVE WorkInv'
  BY <1>1, <1>9, SweepStep DEF SaveSettings
\* The sweep: whatever transfer of c is still registered is cancelled.
<1>10. ASSUME NEW c \in Conns, CancelConnection(c) PROVE WorkInv'
  <2>1. /\ run'.pc = run.pc /\ run'.job = run.job
        /\ run'.live => run.live
        /\ run'.live # run.live => run.job \in JobsOf(c)
        /\ ~DeadRequests /\ run.job \in JobsOf(c) /\ reg[run.job] = "run" => ~run'.live
        /\ mu' = Free /\ mu.op = "sweep" /\ mu.on = c /\ UNCHANGED <<job, reg, stopping>>
    BY <1>10 DEF CancelConnection, Cancel, IInv, TypeOK, Runner
  <2> QED
    BY <2>1 DEF WorkInv, RunningIsTaken, StoppedTransferRests, SweptJobsRest,
       RegisteredTransferRests, RunLive, Free
<1> QED
  BY <1>2, <1>3, <1>4, <1>5, <1>6, <1>7, <1>8, <1>9, <1>10 DEF Request

\* The preview loop never touches a running job.
LEMMA PreviewLoopWork == IInv /\ WorkInv /\ PreviewLoop => WorkInv'
<1> SUFFICES ASSUME IInv, WorkInv, PreviewLoop PROVE WorkInv'
  OBVIOUS
<1>0. job \in [Jobs -> Job]
  BY DEF IInv, TypeOK
<1>1. UNCHANGED <<run, stopping, mu>>
  BY DEF PreviewLoop, PrevClaim, PrevActivate, PrevCheck, PrevWalk, PrevList, PrevFail,
         PrevFinish, PrevRelease, PrevEnd
<1>2. \A k \in Jobs : job'[k].st = "running" <=> job[k].st = "running"
  <2>1. ASSUME NEW j \in Jobs, PrevClaim(j)
        PROVE  \A k \in Jobs : job'[k].st = "running" <=> job[k].st = "running"
    BY <1>0, <2>1, StateEffect DEF PrevClaim
  <2>2. CASE PrevCheck \/ PrevWalk \/ PrevList
    BY <1>0, <2>2 DEF PrevCheck, PrevWalk, PrevList, Job
  <2>3. CASE PrevFinish
    BY <1>0, <2>3, FinishEffect DEF PrevFinish
  <2>4. CASE PrevActivate \/ PrevFail \/ PrevRelease \/ PrevEnd
    BY <2>4 DEF PrevActivate, PrevFail, PrevRelease, PrevEnd
  <2> QED
    BY <2>1, <2>2, <2>3, <2>4 DEF PreviewLoop
<1>3. run.pc \in Active /\ reg'[run.job] = "run" => reg[run.job] = "run"
  <2>1. run.pc \in Active => run.job \in Jobs /\ reg \in [Jobs -> {"none", "run", "prev"}]
    BY DEF IInv, TypeOK, Runner, Active
  <2> QED
    BY <2>1 DEF PreviewLoop, PrevClaim, PrevActivate, PrevCheck, PrevWalk, PrevList, PrevFail,
                PrevFinish, PrevRelease, PrevEnd
<1> QED
  BY <1>1, <1>2, <1>3, QuietStep

\* The run loop lets go of a job only when it is not running any more.
LEMMA RunLoopWork == IInv /\ WorkInv /\ RunLoop => WorkInv'
<1> SUFFICES ASSUME IInv, WorkInv, RunLoop PROVE WorkInv'
  OBVIOUS
<1> USE DEF WorkInv, RunningIsTaken, StoppedTransferRests, SweptJobsRest,
            RegisteredTransferRests, RunLive, Active, Transferring, RunPcs
<1>0. job \in [Jobs -> Job] /\ run \in Runner /\ (run.job = Nobody <=> run.pc \in {"idle", "ended"})
  BY DEF IInv, TypeOK
<1>1. run.pc \in Transferring => run.job \in Jobs
  BY <1>0 DEF Runner
\* The end of the work on a job.
<1>2. ASSUME NEW to \in {"queued", "paused", "failed", "complete", "partial"},
             Finish(run.job, "running", to), run.pc \in Transferring,
             run'.pc = "release", run'.job = run.job, UNCHANGED <<mu, stopping>>
      PROVE  WorkInv'
  BY <1>1, <1>0, <1>2, FinishEffect DEF JobsOf
<1>3. ASSUME NEW due \in SUBSET Jobs, RunWake(due) PROVE WorkInv'
  <2>1. \A k \in Jobs : job'[k].st = IF k \in due THEN "queued" ELSE job[k].st
    BY <1>0, <1>3 DEF RunWake, Job
  <2> QED
    BY <1>3, <2>1 DEF RunWake, JobsOf
<1>4. ASSUME NEW j \in Jobs, RunClaim(j) PROVE WorkInv'
  <2>1. \A k \in Jobs : job'[k].st = IF k = j THEN "running" ELSE job[k].st
    BY <1>0, <1>4, StateEffect DEF RunClaim
  <2>2. run'.pc = "claimed" /\ run'.job = j
    BY <1>0, <1>4 DEF RunClaim, Runner
  <2> QED
    BY <1>4, <2>1, <2>2 DEF RunClaim, Free
<1>5. CASE RunActivate
  <2>1. run'.pc = "active" /\ run'.job = run.job /\ run'.live = StartsLive(run.job)
    BY <1>0, <1>5 DEF RunActivate, Runner
  <2>2. job[run.job].st # "planning"
    BY <1>1, <1>5 DEF RunActivate, IInv, ConfirmedStates, TransferIsConfirmed
  <2> QED
    BY <1>1, <1>5, <2>1, <2>2 DEF RunActivate, StartsLive
<1>6. ASSUME UNCHANGED <<job, mu, reg, stopping>>, run'.job = run.job, run'.live = run.live,
             run.pc \in Active, run'.pc \in Active
      PROVE  WorkInv'
  BY <1>1, <1>6
<1>7. CASE RunLoad
  BY <1>0, <1>2, <1>6, <1>7 DEF RunLoad, Runner
<1>8. CASE RunConnect
  BY <1>0, <1>2, <1>6, <1>8 DEF RunConnect, Runner
<1>9. ASSUME NEW err \in {"none", "retry", "stop"}, RunUpload(err) PROVE WorkInv'
  BY <1>0, <1>6, <1>9 DEF RunUpload, Runner
<1>10. CASE RunVerdict
  <2>1. CASE RunLive /\ run.err = "none"
    BY <1>0, <1>6, <1>10, <2>1 DEF RunVerdict, Runner
  <2>2. CASE ~(RunLive /\ run.err = "none")
    <3>0. run'.pc = "release" /\ run'.job = run.job /\ UNCHANGED <<mu, stopping>>
      BY <1>0, <1>10, <2>2 DEF RunVerdict, Runner
    <3>1. CASE Finish(run.job, "running", "paused")
      BY <1>2, <1>10, <3>0, <3>1 DEF RunVerdict
    <3>2. CASE job' = [job EXCEPT ![run.job] =
                IF @.st = "running" THEN [@ EXCEPT !.st = "waiting", !.att = job[run.job].att + 1] ELSE @]
      <4>1. \A k \in Jobs : job'[k].st = IF k = run.job /\ job[k].st = "running"
                                         THEN "waiting" ELSE job[k].st
        BY <1>0, <3>2 DEF Job
      <4> QED
        BY <1>1, <1>10, <3>0, <4>1 DEF RunVerdict, JobsOf
    \* Cancelled by hand: the job is not running any more.  Cancelled by the
    \* shutdown: the row is left to the next start.
    <3>3. CASE UNCHANGED job /\ ~RunLive
      <4>1. CASE stopping
        BY <1>1, <1>10, <3>0, <3>3, <4>1 DEF RunVerdict
      <4>2. CASE ~stopping
        <5>1. ~DeadRequests => job[run.job].st # "running"
          BY <1>10, <3>3, <4>2 DEF RunVerdict
        <5> QED
          BY <1>1, <1>10, <3>0, <3>3, <4>2, <5>1 DEF RunVerdict
      <4> QED
        BY <4>1, <4>2
    <3> QED
      BY <1>10, <2>2, <3>1, <3>2, <3>3 DEF RunVerdict
  <2> QED
    BY <2>1, <2>2
<1>11. ASSUME NEW to \in {"complete", "partial"}, RunFinal(to) PROVE WorkInv'
  BY <1>0, <1>2, <1>11 DEF RunFinal, Runner
<1>12. CASE RunRelease \/ RunEnd
  <2>1. run'.pc \in {"idle", "ended"} /\ UNCHANGED <<job, mu, stopping>>
        /\ run.pc \in {"idle", "release"}
    BY <1>12 DEF RunRelease, RunEnd, RunIdle
  <2> QED
    BY <2>1
<1>13. CASE RunDrained
  <2>1. CASE stopping
    <3>1. run'.pc = "release" /\ run'.job = run.job /\ UNCHANGED <<mu, stopping>>
      BY <1>0, <1>13, <2>1 DEF RunDrained, Runner
    <3> QED
      BY <1>2, <1>13, <2>1, <3>1 DEF RunDrained
  <2>2. CASE ~stopping
    BY <1>0, <1>6, <1>13, <2>2 DEF RunDrained, Runner
  <2> QED
    BY <2>1, <2>2
<1> QED
  BY <1>3, <1>4, <1>5, <1>7, <1>8, <1>9, <1>10, <1>11, <1>12, <1>13 DEF RunLoop

\* Every step keeps the ownership of running jobs.
LEMMA StepWork == IInv /\ WorkInv /\ [Next]_vars => WorkInv'
<1> SUFFICES ASSUME IInv, WorkInv, [Next]_vars PROVE WorkInv'
  OBVIOUS
<1>0. job \in [Jobs -> Job]
  BY DEF IInv, TypeOK
<1>1. ASSUME NEW old \in SUBSET Jobs, RunCleanup(old) PROVE WorkInv'
  <2>1. \A k \in Jobs : job'[k].st = "running" <=> job[k].st = "running"
    BY <1>1, CleanupEffect DEF Gone, Absent, Sweepable, Exists, IInv, ConfirmedStates
  <2> QED
    BY <1>1, <2>1, QuietStep DEF RunCleanup
<1>2. ASSUME NEW j \in Jobs, Expire(j) PROVE WorkInv'
  BY <1>0, <1>2, QuietStep DEF Expire, Job
<1>3. CASE Stop \/ UNCHANGED vars
  BY <1>3 DEF Stop, vars, WorkInv, RunningIsTaken, StoppedTransferRests, SweptJobsRest,
       RegisteredTransferRests, RunLive, JobsOf
<1>4. CASE Restart \/ Crash
  <2>1. \A k \in Jobs : job'[k].st = Recovered(job[k].st)
    BY <1>0, <1>4, RecoverEffect DEF Restart, Crash
  <2>2. run'.pc = "idle" /\ mu' = Free
    BY <1>4 DEF Restart, Crash, Recover, RunIdle
  <2> QED
    BY <2>1, <2>2 DEF Recovered, Free, WorkInv, RunningIsTaken, StoppedTransferRests,
       SweptJobsRest, RegisteredTransferRests, Active
<1> QED
  BY <1>1, <1>2, <1>3, <1>4, RequestWork, PreviewLoopWork, RunLoopWork DEF Next

(***************************************************************************)
(* The theorems                                                            *)
(***************************************************************************)

\* In every reachable state every variable has its type.
THEOREM TypeCorrect == Spec => []TypeOK
<1>1. IInv => TypeOK
  BY DEF IInv
<1> QED
  BY <1>1, Invariance, PTL

\* No preview is offered and no confirmed job can run before its whole file
\* list stands, across crashes, replanning and changed connections.
THEOREM PlansAreComplete == Spec => []PublishedPlansAreComplete
<1>1. IInv => PublishedPlansAreComplete
  BY DEF IInv
<1> QED
  BY <1>1, Invariance, PTL

\* Every job that is offered or may run belongs to the enabled and connected
\* configuration its connection has now.
THEOREM ActiveJobsMatch == Spec => []ActiveJobsMatchConnection
<1>1. IInv => ActiveJobsMatchConnection
  BY DEF IInv
<1> QED
  BY <1>1, Invariance, PTL

\* The preview loop and the run loop never work on the items of one job at
\* the same time.
THEOREM LoopsAreApart == Spec => []LoopsNeverShareAJob
<1>1. IInv => LoopsNeverShareAJob
  <2> SUFFICES ASSUME IInv, run.job # Nobody, run.job = prev.job PROVE prev.pc = "release"
    BY DEF LoopsNeverShareAJob
  <2>1. run.pc \in Transferring /\ prev.pc \in Planning \union {"release"}
    BY DEF IInv, TypeOK, Runner, Previewer, RunPcs, PrevPcs, Transferring, Planning
  <2> QED
    BY <2>1 DEF IInv, TransferIsConfirmed, PlanningIsUnconfirmed
<1> QED
  BY <1>1, Invariance, PTL

\* No two confirmed jobs have the same place in the queue.
THEOREM PlacesDiffer == Spec => []QueuePlacesDiffer
<1>1. Init => QueuePlacesDiffer
  BY DEF Init, QueuePlacesDiffer, Absent
<1>2. IInv /\ QueuePlacesDiffer /\ [Next]_vars => QueuePlacesDiffer'
  BY StepPlacesDiffer
<1> QED
  BY <1>1, <1>2, Invariance, PTL DEF Spec

\* A cancelled job is never taken up again.
THEOREM CancelIsFinal == Spec => CancelledIsFinal
<1>1. IInv /\ [Next]_vars =>
        [\A j \in Jobs : job[j].st = "cancelled" => job'[j].st \in {"cancelled", "gone"}]_vars
  BY StepCancelled
<1> QED
  BY <1>1, Invariance, PTL DEF Spec, CancelledIsFinal

\* A complete job is only removed, or halted by a request that had read it
\* before it completed.
THEOREM CompleteStays == Spec => CompleteIsLeftOnlyLate
<1>1. IInv /\ [Next]_vars =>
        [\A j \in Jobs : job[j].st = "complete" /\ job'[j].st # "complete"
              => job'[j].st = "gone" \/ (mu.op \in Halts /\ mu.on = j)]_vars
  BY StepComplete
<1> QED
  BY <1>1, Invariance, PTL DEF Spec, CompleteIsLeftOnlyLate

\* A confirmed job stays confirmed and keeps its place in the queue.
THEOREM ConfirmedKeepsPlace == Spec => PlaceIsKept
<1>1. IInv /\ [Next]_vars =>
        [\A j \in Jobs : job[j].sub /\ job'[j].st # "gone"
              => job'[j].sub /\ job'[j].seq = job[j].seq]_vars
  BY StepPlace
<1> QED
  BY <1>1, Invariance, PTL DEF Spec, PlaceIsKept

\* The engine, with its loops, requests, crashes and restarts, implements the
\* life cycle of a job.
THEOREM Implementation == Spec => LifecycleSpec
<1>1. Init => Lifecycle!Init
  BY InitPhase
<1>2. IInv /\ IInv' /\ [Next]_vars => [Lifecycle!Next]_([j \in Jobs |-> Phase(j)])
  BY StepLifecycle
<1> QED
  BY <1>1, <1>2, Invariance, PTL DEF Spec, LifecycleSpec, Lifecycle!Spec

\* As long as requests are carried through, a job is planning, and until the
\* process shuts down running, only while the goroutine that took it is at
\* work on it.
THEOREM OwnedWork == Spec => []WorkIsOwned
<1>1. Init => WorkInv
  BY InitWork
<1>2. IInv /\ WorkInv /\ [Next]_vars => WorkInv'
  BY StepWork
<1>3. IInv /\ WorkInv => WorkIsOwned
  BY DEF IInv, PlanningIsOwned, Planning, WorkInv, RunningIsTaken, WorkIsOwned
<1> QED
  BY <1>1, <1>2, <1>3, Invariance, PTL DEF Spec

\* Once requests have returned, a registered transfer that lost its job has
\* its context cancelled.
THEOREM StoppedTransfers == Spec => []RegisteredTransferIsStopped
<1>1. Init => WorkInv
  BY InitWork
<1>2. IInv /\ WorkInv /\ [Next]_vars => WorkInv'
  BY StepWork
<1>3. WorkInv => RegisteredTransferIsStopped
  BY DEF WorkInv, RegisteredTransferRests, RegisteredTransferIsStopped, Free
<1> QED
  BY <1>1, <1>2, <1>3, Invariance, PTL DEF Spec
=============================================================================
