--------------------------- MODULE TransferUpload ---------------------------
(***************************************************************************)
(* The passes of the run loop over the items of one confirmed job: a       *)
(* producer, workers, and a Nextcloud server whose answers may be lost and *)
(* whose side of a request may happen after the client has given up.       *)
(* Small files are one PUT; big ones are sent in chunks into an upload     *)
(* session that a MOVE assembles, and survive a pass as a resume state.    *)
(*                                                                         *)
(* TransferJobs says when passes begin and end; here the other half of the *)
(* run loop is filled in, what it does to items and to the server.         *)
(***************************************************************************)
EXTENDS Integers, FiniteSets

CONSTANTS
    N,          \* items 1 .. N of the job, in the order of their ids
    Big,        \* the items that are uploaded in chunks
    Chunks,     \* chunks of a big item
    Blocked,    \* items whose directory path a remote file occupies
    Workers,    \* consumers of a pass
    Buffer,     \* capacity of the channel between producer and workers
    Late,       \* whether a lost request may still arrive later
    MaxFaults   \* bound: failures, foreign files, requests of users, crashes

Items == 1 .. N

ASSUME UploadAssumption ==
    /\ N \in Nat /\ Chunks \in Nat \ {0} /\ Buffer \in Nat \ {0}
    /\ Big \subseteq Items /\ Blocked \subseteq Items
    /\ Workers # {} /\ Late \in BOOLEAN /\ MaxFaults \in Nat

VARIABLES
    job,       \* state of the job
    item,      \* states of its items
    resume,    \* their saved resume states
    pass,      \* the pass under way: producer, contexts and first error
    work,      \* the channel; items are sent in order, so it is a set
    worker,    \* the workers of the pass
    remote,    \* what the server has at the target path of an item
    session,   \* the newest upload session of an item on the server
    late,      \* lost requests that the server has not processed yet
    faults     \* environment events left

vars == <<job, item, resume, pass, work, worker, remote, session, late, faults>>

-----------------------------------------------------------------------------

Settled == {"done", "existing", "conflict", "failed"}
ItemStates == Settled \union {"missing", "uploading"}
JobStates == {"queued", "running", "waiting", "paused", "cancelled", "complete", "partial",
              "failed"}
Ended == {"cancelled", "complete"}

\* "ours": the whole source file; "part": less than that; "same" and "other":
\* a foreign file or folder that does or does not have its size.
Contents == {"none", "ours", "part", "same", "other"}

NoResume == [tok |-> 0, off |-> 0]
Resumes  == [tok : Nat, off : 0 .. Chunks]
Sessions == [tok : Nat, open : BOOLEAN, have : SUBSET (1 .. Chunks)]
Requests == [op : {"put", "chunk", "move"}, i : Items, tok : Nat, n : 0 .. Chunks]
Passes   == [pc : {"none", "producing", "closed"}, at : 1 .. N + 1, live : BOOLEAN,
             failed : BOOLEAN, err : {"none", "retry", "stop"}]
NoPass   == [pc |-> "none", at |-> 1, live |-> FALSE, failed |-> FALSE, err |-> "none"]

WorkerPcs == {"ended", "idle", "check", "open", "stat", "dirs", "mark", "probe",
              "mkcol", "save", "chunk", "keep", "move", "put", "store", "refuse"}
Sending == {"chunk", "move", "put"}
WorkerState == [pc : WorkerPcs, i : 0 .. N, tok : Nat, off : 0 .. Chunks]
Gone == [pc |-> "ended", i |-> 0, tok |-> 0, off |-> 0]
Idle == [Gone EXCEPT !.pc = "idle"]

-----------------------------------------------------------------------------
(* Helpers *)

\* runCtx: cancelled with the job's context, or by a worker that failed.
RunLive == pass.live /\ ~pass.failed

Spend == faults > 0 /\ faults' = faults - 1

Go(w, pc) == worker' = [worker EXCEPT ![w] = [@ EXCEPT !.pc = pc]]

SetItem(i, st) == item' = [item EXCEPT ![i] = st]

\* A worker's error ends it and cancels the others; the first one counts, and
\* takes the place of the producer's.
Fail(w, kind) ==
    /\ worker' = [worker EXCEPT ![w] = Gone]
    /\ pass' = [pass EXCEPT !.failed = TRUE, !.err = IF pass.failed THEN @ ELSE kind]

\* A context that is not cancelled fails only by a fault.
MayFail == IF RunLive THEN Spend ELSE UNCHANGED faults

\* What the server does with a request: a file is only created where there is
\* none (If-None-Match: *), a session is only assembled to such a place
\* (Overwrite: F), and chunks go into their own session.
Free_NotAsked(i) == TRUE
Free(i) == remote[i] = "none"

Put(i) == remote' = [remote EXCEPT ![i] = IF Free(i) THEN "ours" ELSE @]

SessionIs(i, tok) == session[i].open /\ session[i].tok = tok

Move(i, tok) ==
    IF SessionIs(i, tok) /\ Free(i)
    THEN /\ remote' = [remote EXCEPT ![i] =
                          IF session[i].have = 1 .. Chunks THEN "ours" ELSE "part"]
         /\ session' = [session EXCEPT ![i] = [@ EXCEPT !.open = FALSE]]
    ELSE UNCHANGED <<remote, session>>

Chunk(i, tok, n) ==
    session' = [session EXCEPT ![i] =
        IF SessionIs(i, tok) THEN [@ EXCEPT !.have = session[i].have \union {n}] ELSE @]

\* The effect of request r on the server.
Serve(r) ==
    \/ r.op = "put"   /\ Put(r.i) /\ UNCHANGED session
    \/ r.op = "chunk" /\ Chunk(r.i, r.tok, r.n) /\ UNCHANGED remote
    \/ r.op = "move"  /\ Move(r.i, r.tok)

\* A usable resume state belongs to the session that is open on the server.
Reusable(i) == resume[i].tok > 0 /\ SessionIs(i, resume[i].tok)

\* An upload starts with an empty session.
Fresh_KeepsOffset(w) == [worker[w] EXCEPT !.pc = "save", !.tok = session[worker[w].i].tok + 1,
                                          !.off = resume[worker[w].i].off]
Fresh(w) == [worker[w] EXCEPT !.pc = "save", !.tok = session[worker[w].i].tok + 1, !.off = 0]

\* The pass is over when every worker has returned.
AllGone == \A w \in Workers : worker[w].pc = "ended"

\* Items a pass takes up, those of an interrupted upload included.
Open(st) == st \in {"missing", "uploading"}

\* The producer stops when the pass is cancelled, also while it waits.
MayClose_OnlyAtTheEnd == pass.at > N
MayClose == pass.at > N \/ ~RunLive

\* The target is looked up before every attempt.
Seen(i) == remote[i] # "none"

\* What Stat makes of an entry at the target.
Found(i) == IF remote[i] \in {"ours", "same"} THEN "existing" ELSE "conflict"

\* How a pass without errors ends.
Verdict == IF \E i \in Items : item[i] \in {"conflict", "failed"} THEN "partial" ELSE "complete"

ReadFailed == IF pass.failed THEN pass.err ELSE "retry"

\* The producer goes on behind the item it has sent.
NextAfter_Same == pass.at
NextAfter == pass.at + 1

\* What a retry by the user makes of an item.
Again(st) == IF st \in {"failed", "conflict"} THEN "missing" ELSE st

\* What the end of a pass, or a restart, makes of the items it was uploading.
Reset(st) == IF st = "uploading" THEN "missing" ELSE st

-----------------------------------------------------------------------------
(* The job has been confirmed; its items are as the preview found them, and   *)
(* the directories of blocked ones were occupied after the preview.           *)

Init ==
    /\ job = "queued"
    /\ remote \in [Items -> {"none", "same", "other"}]
    /\ \A i \in Blocked : remote[i] = "none"
    /\ item = [i \in Items |-> CASE remote[i] = "none" -> "missing"
                                 [] remote[i] = "same" -> "existing"
                                 [] OTHER -> "conflict"]
    /\ resume = [i \in Items |-> NoResume]
    /\ pass = NoPass
    /\ work = {}
    /\ worker = [w \in Workers |-> Gone]
    /\ session = [i \in Items |-> [tok |-> 0, open |-> FALSE, have |-> {}]]
    /\ late = {}
    /\ faults = MaxFaults

-----------------------------------------------------------------------------
(* A pass *)

Claim ==
    /\ job = "queued" /\ pass.pc = "none"
    /\ job' = "running"
    /\ pass' = [NoPass EXCEPT !.pc = "producing", !.live = TRUE]
    /\ work' = {}
    /\ worker' = [w \in Workers |-> Idle]
    /\ UNCHANGED <<item, resume, remote, session, late, faults>>

Produce ==
    /\ pass.pc = "producing" /\ pass.at <= N /\ RunLive
    /\ IF Open(item[pass.at])
         THEN Cardinality(work) < Buffer /\ work' = work \union {pass.at}
         ELSE UNCHANGED work
    /\ pass' = [pass EXCEPT !.at = NextAfter]
    /\ UNCHANGED <<job, item, resume, worker, remote, session, late, faults>>

\* The job or its connection cannot be read, or has changed.
Refused ==
    /\ job = "queued" /\ pass.pc = "none" /\ Spend
    /\ job' \in {"paused", "failed"}
    /\ UNCHANGED <<item, resume, pass, work, worker, remote, session, late>>

\* A page of items cannot be read; the workers finish what they have.
Unread ==
    /\ pass.pc = "producing" /\ MayFail
    /\ pass' = [pass EXCEPT !.pc = "closed", !.err = ReadFailed]
    /\ UNCHANGED <<job, item, resume, work, worker, remote, session, late>>

Close ==
    /\ pass.pc = "producing" /\ MayClose
    /\ pass' = [pass EXCEPT !.pc = "closed"]
    /\ UNCHANGED <<job, item, resume, work, worker, remote, session, late, faults>>

\* A worker that finds the pass cancelled drops the item it has received.
Take(w, i) ==
    /\ worker[w].pc = "idle"
    /\ i \in work /\ \A k \in work : i <= k
    /\ work' = work \ {i}
    /\ worker' = [worker EXCEPT ![w] =
                    IF RunLive THEN [Idle EXCEPT !.pc = "check", !.i = i] ELSE Gone]
    /\ UNCHANGED <<job, item, resume, pass, remote, session, late, faults>>

Leave(w) ==
    /\ worker[w].pc = "idle" /\ pass.pc = "closed" /\ work = {}
    /\ worker' = [worker EXCEPT ![w] = Gone]
    /\ UNCHANGED <<job, item, resume, pass, work, remote, session, late, faults>>

\* The workers have ended: open uploads are missing again, and the job ends,
\* waits or pauses.  Every write to the job expects it to be still running;
\* it is not after a pause, and after a shutdown it is queued again.
Drain ==
    /\ pass.pc = "closed" /\ AllGone
    /\ item' = [i \in Items |-> Reset(item[i])]
    /\ pass' = NoPass
    /\ work' = {}
    /\ \/ job # "running" /\ UNCHANGED job
       \/ job = "running" /\ ~pass.live /\ job' = "queued"
       \/ /\ job = "running" /\ pass.live /\ pass.err = "retry"
          /\ job' \in {"waiting", "paused"}
       \/ job = "running" /\ pass.live /\ pass.err = "stop" /\ job' = "paused"
       \/ job = "running" /\ pass.live /\ pass.err = "none" /\ job' = Verdict
    /\ UNCHANGED <<resume, worker, remote, session, late, faults>>

\* The run loop resumes a waiting job at its retry time, a user at any time.
Wake ==
    /\ job = "waiting"
    /\ job' = "queued"
    /\ UNCHANGED <<item, resume, pass, work, worker, remote, session, late, faults>>

-----------------------------------------------------------------------------
(* uploadItem and CreateFile.  Every statement and request is made under      *)
(* runCtx; the ones below need it alive.                                      *)

\* The rights of the job's user and the connection are read again.
Check(w) ==
    /\ worker[w].pc = "check" /\ RunLive
    /\ Go(w, "open")
    /\ UNCHANGED <<job, item, resume, pass, work, remote, session, late, faults>>

\* The source is opened, if it still is the file of the preview.
OpenSource(w) ==
    /\ worker[w].pc = "open" /\ RunLive
    /\ \/ Go(w, "stat") /\ UNCHANGED <<item, faults>>
       \/ /\ Spend
          /\ SetItem(worker[w].i, "failed")
          /\ worker' = [worker EXCEPT ![w] = Idle]
    /\ UNCHANGED <<job, resume, pass, work, remote, session, late>>

\* Whatever is at the target already is left alone.
Stat(w) ==
    LET i == worker[w].i IN
    /\ worker[w].pc = "stat" /\ RunLive
    /\ \/ ~Seen(i) /\ Go(w, "dirs") /\ UNCHANGED item
       \/ /\ Seen(i)
          /\ SetItem(i, Found(i))
          /\ worker' = [worker EXCEPT ![w] = Idle]
    /\ UNCHANGED <<job, resume, pass, work, remote, session, late, faults>>

EnsureDirectories(w) ==
    /\ worker[w].pc = "dirs" /\ RunLive
    /\ Go(w, IF worker[w].i \in Blocked THEN "refuse" ELSE "mark")
    /\ UNCHANGED <<job, item, resume, pass, work, remote, session, late, faults>>

\* A resume state that is older than 23 hours is not tried.
Mark(w) ==
    /\ worker[w].pc = "mark" /\ RunLive
    /\ SetItem(worker[w].i, "uploading")
    /\ \/ worker[w].i \notin Big /\ Go(w, "put")
       \/ worker[w].i \in Big /\ resume[worker[w].i].tok > 0 /\ Go(w, "probe")
       \/ worker[w].i \in Big /\ Go(w, "mkcol")
    /\ UNCHANGED <<job, resume, pass, work, remote, session, late, faults>>

\* Is the session of the resume state still there?
Probe(w) ==
    LET i == worker[w].i IN
    /\ worker[w].pc = "probe" /\ RunLive
    /\ worker' = [worker EXCEPT ![w] =
            IF Reusable(i)
            THEN [@ EXCEPT !.pc = IF resume[i].off < Chunks THEN "chunk" ELSE "move",
                           !.tok = resume[i].tok, !.off = resume[i].off]
            ELSE [@ EXCEPT !.pc = "mkcol"]]
    /\ UNCHANGED <<job, item, resume, pass, work, remote, session, late, faults>>

\* A new session with a new random token; the last one is never used again.
MakeSession(w) ==
    LET i == worker[w].i IN
    /\ worker[w].pc = "mkcol" /\ RunLive
    /\ session' = [session EXCEPT ![i] = [tok |-> session[i].tok + 1, open |-> TRUE, have |-> {}]]
    /\ worker' = [worker EXCEPT ![w] = Fresh(w)]
    /\ UNCHANGED <<job, item, resume, pass, work, remote, late, faults>>

\* The resume state is saved: after MKCOL, and after every chunk.
Save(w) ==
    LET i == worker[w].i IN
    /\ worker[w].pc \in {"save", "keep"} /\ RunLive
    /\ resume' = [resume EXCEPT ![i] = [tok |-> worker[w].tok, off |-> worker[w].off]]
    /\ Go(w, IF worker[w].off < Chunks THEN "chunk" ELSE "move")
    /\ UNCHANGED <<job, item, pass, work, remote, session, late, faults>>

\* The request a worker is about to send.
RequestOf(w) ==
    [op |-> worker[w].pc, i |-> worker[w].i, tok |-> worker[w].tok,
     n |-> IF worker[w].pc = "chunk" THEN worker[w].off + 1 ELSE 0]

\* A request is sent, served and answered.
SendChunk(w) ==
    LET i == worker[w].i IN
    /\ worker[w].pc = "chunk" /\ RunLive
    /\ Serve(RequestOf(w))
    /\ IF SessionIs(i, worker[w].tok)
         THEN /\ worker' = [worker EXCEPT ![w] = [@ EXCEPT !.pc = "keep", !.off = worker[w].off + 1]]
              /\ UNCHANGED pass
         ELSE Fail(w, "stop")
    /\ UNCHANGED <<job, item, resume, work, late, faults>>

SendMove(w) ==
    LET i == worker[w].i IN
    /\ worker[w].pc = "move" /\ RunLive
    /\ Serve(RequestOf(w))
    /\ IF SessionIs(i, worker[w].tok)
         THEN Go(w, IF Free(i) THEN "store" ELSE "refuse") /\ UNCHANGED pass
         ELSE Fail(w, "stop")
    /\ UNCHANGED <<job, item, resume, work, late, faults>>

SendPut(w) ==
    /\ worker[w].pc = "put" /\ RunLive
    /\ Serve(RequestOf(w))
    /\ Go(w, IF Free(worker[w].i) THEN "store" ELSE "refuse")
    /\ UNCHANGED <<job, item, resume, pass, work, late, faults>>

\* The answer is lost: the server has served the request, or will, or never.
Lose(w) ==
    /\ worker[w].pc \in Sending /\ MayFail
    /\ \/ Serve(RequestOf(w)) /\ UNCHANGED late
       \/ Late /\ late' = late \union {RequestOf(w)} /\ UNCHANGED <<remote, session>>
       \/ UNCHANGED <<remote, session, late>>
    /\ Fail(w, "retry")
    /\ UNCHANGED <<job, item, resume, work>>

\* MKCOL of a session whose answer is lost: nobody knows its token.
LoseSession(w) ==
    LET i == worker[w].i IN
    /\ worker[w].pc = "mkcol" /\ MayFail
    /\ session' = [session EXCEPT ![i] = [tok |-> session[i].tok + 1, open |-> TRUE, have |-> {}]]
    /\ Fail(w, "retry")
    /\ UNCHANGED <<job, item, resume, work, remote, late>>

\* The result is stored.
Store(w) ==
    /\ worker[w].pc \in {"store", "refuse"} /\ RunLive
    /\ SetItem(worker[w].i, IF worker[w].pc = "store" THEN "done" ELSE "conflict")
    /\ worker' = [worker EXCEPT ![w] = Idle]
    /\ UNCHANGED <<job, resume, pass, work, remote, session, late, faults>>

\* Any statement or request may fail without an effect; under a cancelled
\* context it does.
Error(w, kind) ==
    /\ worker[w].pc \notin {"idle", "ended"}
    /\ MayFail
    /\ Fail(w, kind)
    /\ UNCHANGED <<job, item, resume, work, remote, session, late>>

-----------------------------------------------------------------------------
(* The server and other clients of it *)

\* A lost request arrives, or never will.
Arrive(r) ==
    /\ r \in late
    /\ late' = late \ {r}
    /\ Serve(r) \/ UNCHANGED <<remote, session>>
    /\ UNCHANGED <<job, item, resume, pass, work, worker, faults>>

\* Sessions are removed a day after their last chunk.
Expire(i) ==
    /\ session[i].open /\ Spend
    /\ session' = [session EXCEPT ![i] = [@ EXCEPT !.open = FALSE]]
    /\ UNCHANGED <<job, item, resume, pass, work, worker, remote, late>>

Foreign(i, what) ==
    /\ remote[i] = "none" /\ i \notin Blocked /\ Spend
    /\ remote' = [remote EXCEPT ![i] = what]
    /\ UNCHANGED <<job, item, resume, pass, work, worker, session, late>>

-----------------------------------------------------------------------------
(* Requests of users, shutdown and crash *)

\* The cancel function stops the pass, if it is registered.
Halt(to) ==
    /\ job \notin Ended /\ Spend
    /\ job' = to
    /\ pass' \in {pass, [pass EXCEPT !.live = FALSE]}
    /\ UNCHANGED <<item, resume, work, worker, remote, session, late>>

Resume ==
    /\ job = "paused"
    /\ job' = "queued"
    /\ UNCHANGED <<item, resume, pass, work, worker, remote, session, late, faults>>

Retry ==
    /\ job \in {"partial", "failed"}
    /\ job' = "queued"
    /\ item' = [i \in Items |-> Again(item[i])]
    /\ UNCHANGED <<resume, pass, work, worker, remote, session, late, faults>>

Shutdown ==
    /\ pass.pc # "none" /\ pass.live /\ Spend
    /\ pass' = [pass EXCEPT !.live = FALSE]
    /\ UNCHANGED <<job, item, resume, work, worker, remote, session, late>>

Crash ==
    /\ Spend
    /\ job' = IF job = "running" THEN "queued" ELSE job
    /\ pass' = NoPass
    /\ work' = {}
    /\ worker' = [w \in Workers |-> Gone]
    /\ item' = [i \in Items |-> Reset(item[i])]
    /\ UNCHANGED <<resume, remote, session, late>>

-----------------------------------------------------------------------------

Step(w) ==
    \/ \E i \in Items : Take(w, i)
    \/ Leave(w) \/ Check(w) \/ OpenSource(w) \/ Stat(w) \/ EnsureDirectories(w)
    \/ Mark(w) \/ Probe(w) \/ MakeSession(w) \/ Save(w)
    \/ SendChunk(w) \/ SendMove(w) \/ SendPut(w) \/ Store(w)
    \/ Lose(w) \/ LoseSession(w) \/ \E kind \in {"retry", "stop"} : Error(w, kind)

Pass == Claim \/ Refused \/ Produce \/ Unread \/ Close \/ Drain \/ Wake \/ \E w \in Workers : Step(w)

Next ==
    \/ Pass
    \/ \E r \in late : Arrive(r)
    \/ \E i \in Items : Expire(i)
    \/ \E i \in Items, what \in {"same", "other"} : Foreign(i, what)
    \/ \E to \in {"paused", "cancelled"} : Halt(to)
    \/ Resume \/ Retry \/ Shutdown \/ Crash

Spec == Init /\ [][Next]_vars

\* The goroutines of the pass go on, and the loop claims and wakes jobs; every
\* request has a deadline.
Fairness ==
    /\ WF_vars(Claim) /\ WF_vars(Produce) /\ WF_vars(Close) /\ WF_vars(Drain)
    /\ WF_vars(Wake)
    /\ \A w \in Workers : WF_vars(Step(w))

FairSpec == Spec /\ Fairness

-----------------------------------------------------------------------------
(* What the passes are to achieve *)

\* Every variable holds a value of its kind, and the workers and the channel
\* are empty when no pass is under way (transfer, jobs.go 460-515).
TypeOK ==
    /\ job \in JobStates
    /\ item \in [Items -> ItemStates]
    /\ resume \in [Items -> Resumes]
    /\ pass \in Passes
    /\ work \subseteq Items
    /\ worker \in [Workers -> WorkerState]
    /\ remote \in [Items -> Contents]
    /\ session \in [Items -> Sessions]
    /\ late \subseteq Requests
    /\ faults \in 0 .. MaxFaults
    /\ pass.pc = "none" => work = {} /\ \A w \in Workers : worker[w].pc = "ended"

\* Workers hold different items behind the producer's place, as the channel
\* does, and none of them has a result yet.
Holding ==
    /\ \A w \in Workers : worker[w].i = 0 <=> worker[w].pc \in {"ended", "idle"}
    /\ \A w \in Workers : worker[w].i < pass.at
    /\ \A i \in work : i < pass.at
    /\ \A v, w \in Workers :
          worker[v].i > 0 => worker[v].i \notin work /\ (v # w => worker[v].i # worker[w].i)
    /\ \A w \in Workers : worker[w].i > 0 => item[worker[w].i] \in {"missing", "uploading"}
    /\ \A i \in work : item[i] \in {"missing", "uploading"}

\* What is known of session i under token tok covers the first off chunks.
Covered(i, tok, off) ==
    /\ tok <= session[i].tok
    /\ SessionIs(i, tok) => 1 .. off \subseteq session[i].have

Informed(w) ==
    /\ worker[w].pc \in {"save", "keep", "chunk", "move"} =>
          Covered(worker[w].i, worker[w].tok, worker[w].off)
    /\ worker[w].pc = "chunk" => worker[w].off < Chunks
    /\ worker[w].pc = "move" => worker[w].off = Chunks

\* Resume states, workers and late requests know at most what is on the server.
Knowledge ==
    /\ \A i \in Items : Covered(i, resume[i].tok, resume[i].off)
    /\ \A w \in Workers : Informed(w)
    /\ \A r \in late : /\ r.op = "move" => Covered(r.i, r.tok, Chunks)
                       /\ r.op = "chunk" => r.n > 0

\* Results, those about to be stored included, agree with the server.
Results ==
    /\ \A i \in Items : /\ remote[i] # "part"
                        /\ item[i] = "done" => remote[i] = "ours"
                        /\ item[i] = "existing" => remote[i] \in {"ours", "same"}
    /\ \A w \in Workers : worker[w].pc = "store" => remote[worker[w].i] = "ours"

\* A pass without an error has not lost sight of an item.
Coverage ==
    /\ job \in {"complete", "partial", "failed"} => pass.pc = "none"
    /\ job = "complete" => \A i \in Items : item[i] \in {"done", "existing"}
    /\ job = "partial" => \A i \in Items : item[i] \in Settled
    /\ pass.failed => pass.err # "none"
    /\ pass.pc # "none" /\ pass.live /\ pass.err = "none" =>
          /\ pass.pc = "closed" => pass.at > N
          /\ (\E w \in Workers : worker[w].pc = "ended") => pass.pc = "closed" /\ work = {}
          /\ \A i \in Items : i < pass.at =>
                item[i] \in Settled \/ i \in work \/ \E w \in Workers : worker[w].i = i

\* Without late requests, a worker that is past the lookup finds the target
\* free or taken by others.
NoEcho ==
    /\ late = {}
    /\ \A w \in Workers : worker[w].i > 0 /\ remote[worker[w].i] = "ours"
                            => worker[w].pc \in {"check", "open", "stat", "store"}
    /\ \A w \in Workers : worker[w].pc = "refuse" =>
          remote[worker[w].i] \in {"same", "other"} \/ worker[w].i \in Blocked
    /\ \A i \in Items : item[i] = "conflict" => remote[i] \in {"same", "other"} \/ i \in Blocked

\* The inductive invariant of the passes (transfer and uploadItem,
\* jobs.go 440-618).
UInv == TypeOK /\ Holding /\ Knowledge /\ Results /\ Coverage /\ (~Late => NoEcho)

\* What is at a target stays there as it is: neither an upload nor a request
\* that arrives late replaces it (CreateFile sends If-None-Match and
\* Overwrite: F, nextcloud.go 504 and 593).
NothingIsOverwritten ==
    [][\A i \in Items : remote[i] # "none" => remote'[i] = remote[i]]_remote

\* A file appears on the server only as a whole, however often its upload was
\* interrupted, resumed or begun anew (chunks and resume state,
\* nextcloud.go 519-603).
UploadsAreWhole == \A i \in Items : remote[i] # "part"

\* The offset saved for a session never runs ahead of the chunks the server
\* has of it (save after the answer, nextcloud.go 586-589).
ResumeIsBehindServer ==
    \A i \in Items : SessionIs(i, resume[i].tok) => 1 .. resume[i].off \subseteq session[i].have

\* An item is recorded as transferred only when its file is there, and as
\* existing only when a file of its size is (uploadItem, jobs.go 567-617).
SettledIsStored ==
    \A i \in Items : /\ item[i] = "done" => remote[i] = "ours"
                     /\ item[i] = "existing" => remote[i] \in {"ours", "same"}

\* A conflict is recorded only where something else is in the way, unless a
\* request of an earlier attempt was served after all (jobs.go 610-613).
ConflictIsForeign ==
    \A i \in Items : item[i] = "conflict" => remote[i] \in {"same", "other"} \/ i \in Blocked

\* A finished job leaves no item behind: all files of a complete job are
\* there, and a partial one has a result for every item (jobs.go 538-547).
EndedJobIsSettled ==
    /\ job = "complete" => \A i \in Items : item[i] \in {"done", "existing"}
    /\ job = "partial"  => \A i \in Items : item[i] \in Settled

\* The record that a file is stored is never taken back, by no pass, retry or
\* restart (jobs.go 104-108 and 516, store.go 122).
StoredStays ==
    [][\A i \in Items : item[i] \in {"done", "existing"} => item'[i] = item[i]]_item

\* Two workers never have the same item, nor one that is still to be received:
\* sessions and resume states have a single writer (jobs.go 484-508).
OneWorkerPerItem ==
    \A v, w \in Workers :
        worker[v].i > 0 => worker[v].i \notin work /\ (v # w => worker[v].i # worker[w].i)

\* A confirmed job comes to rest again and again, whatever fails in the pass:
\* producer and workers never wait for each other for good (jobs.go 486-515).
JobRests == []<>(job \notin {"queued", "running", "waiting"})
=============================================================================
