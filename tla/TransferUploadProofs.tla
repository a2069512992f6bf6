------------------------ MODULE TransferUploadProofs ------------------------
(***************************************************************************)
(* The invariant UInv of TransferUpload is inductive, and the properties   *)
(* of the passes follow from it, for every number of items, chunks and     *)
(* workers.  Its parts are shown one after the other: TypeOK, Holding,     *)
(* Knowledge, Results, Coverage and, unless lost requests are served late, *)
(* NoEcho; each of them needs some of the others before the step.  First   *)
(* come the helpers and the shapes a step can have: how a request changes  *)
(* the server, and whether a worker goes on with its item, records a       *)
(* result, or ends with an error.                                          *)
(***************************************************************************)
EXTENDS TransferUpload, TLAPS

-----------------------------------------------------------------------------
(* What the helpers of the model do *)

\* Worker w has become r, the others are as they were.
Moved(w, r) ==
    /\ worker' \in [Workers -> WorkerState]
    /\ worker'[w] = r
    /\ \A v \in Workers : v # w => worker'[v] = worker[v]

\* The server only gains: chunks in the sessions it has, files where none was.
ServerGrows ==
    /\ remote' \in [Items -> Contents]
    /\ session' \in [Items -> Sessions]
    /\ \A k \in Items : /\ session'[k].tok = session[k].tok
                        /\ session[k].have \subseteq session'[k].have
                        /\ session'[k].open => session[k].open
    /\ \A k \in Items : \/ remote'[k] = remote[k]
                        \/ remote[k] = "none" /\ remote'[k] = "ours"

\* Workers at rest are workers without an item.
LEMMA IdleGone ==
  /\ Gone \in WorkerState /\ Gone.pc = "ended" /\ Gone.i = 0
  /\ Idle \in WorkerState /\ Idle.pc = "idle" /\ Idle.i = 0
  BY UploadAssumption DEF Gone, Idle, WorkerState, WorkerPcs

\* An update of one worker leaves the others alone.
LEMMA MoveFacts ==
  ASSUME TypeOK, NEW w \in Workers, NEW r \in WorkerState,
         worker' = [worker EXCEPT ![w] = r]
  PROVE  Moved(w, r)
  BY DEF TypeOK, Moved

\* Going on changes the place of one worker and nothing else of it.
LEMMA GoFacts ==
  ASSUME TypeOK, NEW w \in Workers, NEW pc \in WorkerPcs, Go(w, pc)
  PROVE  /\ Moved(w, worker'[w])
         /\ worker'[w].pc = pc /\ worker'[w].i = worker[w].i
         /\ worker'[w].tok = worker[w].tok /\ worker'[w].off = worker[w].off
<1> DEFINE r == [worker[w] EXCEPT !.pc = pc]
<1>1. worker[w] \in WorkerState
  BY DEF TypeOK
<1>2. /\ r \in WorkerState /\ r.pc = pc /\ r.i = worker[w].i
      /\ r.tok = worker[w].tok /\ r.off = worker[w].off
  BY <1>1 DEF WorkerState
<1>3. worker' = [worker EXCEPT ![w] = r]
  BY DEF Go
<1> QED
  BY <1>2, <1>3 DEF TypeOK, Moved

\* A failure ends its worker, cancels the pass and keeps the first error
\* (jobs.go 474-482).
LEMMA FailFacts ==
  ASSUME TypeOK, NEW w \in Workers, NEW kind \in {"retry", "stop"}, Fail(w, kind)
  PROVE  /\ Moved(w, Gone)
         /\ pass' \in Passes /\ pass'.failed
         /\ pass'.pc = pass.pc /\ pass'.at = pass.at /\ pass'.live = pass.live
         /\ pass.failed => pass'.err = pass.err
         /\ ~pass.failed => pass'.err = kind
<1>1. pass \in Passes
  BY DEF TypeOK
<1>2. /\ pass' \in Passes /\ pass'.failed
      /\ pass'.pc = pass.pc /\ pass'.at = pass.at /\ pass'.live = pass.live
      /\ pass.failed => pass'.err = pass.err
      /\ ~pass.failed => pass'.err = kind
  BY <1>1 DEF Fail, Passes
<1> QED
  BY <1>2, IdleGone, MoveFacts DEF Fail

\* The bound of the faults stays one.
LEMMA MayFailFacts ==
  ASSUME TypeOK, MayFail
  PROVE  faults' \in 0 .. MaxFaults
  BY UploadAssumption DEF TypeOK, MayFail, Spend

\* A spent fault leaves a number of them.
LEMMA SpendFacts ==
  ASSUME TypeOK, Spend
  PROVE  faults' \in 0 .. MaxFaults
  BY UploadAssumption DEF TypeOK, Spend

\* A PUT with If-None-Match fills an empty target (nextcloud.go 504).
LEMMA PutFacts ==
  ASSUME TypeOK, NEW i \in Items, Put(i), UNCHANGED session
  PROVE  ServerGrows
  BY DEF TypeOK, Put, Free, ServerGrows, Contents

\* A chunk enters its own session, if that is still there.
LEMMA ChunkFacts ==
  ASSUME TypeOK, NEW i \in Items, NEW tok \in Nat, NEW n \in 1 .. Chunks,
         Chunk(i, tok, n), UNCHANGED remote
  PROVE  ServerGrows /\ (SessionIs(i, tok) => n \in session'[i].have)
<1>1. session[i] \in Sessions
  BY DEF TypeOK
<1> DEFINE s == [session[i] EXCEPT !.have = session[i].have \union {n}]
<1>2. /\ s \in Sessions /\ s.tok = session[i].tok /\ s.open = session[i].open
      /\ s.have = session[i].have \union {n}
  BY <1>1 DEF Sessions
<1>3. CASE SessionIs(i, tok)
  <2>1. session' = [session EXCEPT ![i] = s]
    BY <1>3 DEF Chunk
  <2> QED
    BY <1>2, <2>1 DEF TypeOK, ServerGrows
<1>4. CASE ~SessionIs(i, tok)
  <2>1. session' = session
    BY <1>4 DEF Chunk, TypeOK
  <2> QED
    BY <1>4, <2>1 DEF TypeOK, ServerGrows
<1> QED
  BY <1>3, <1>4

\* A MOVE from a session that has all chunks makes a whole file.
LEMMA MoveSessionFacts ==
  ASSUME TypeOK, NEW i \in Items, NEW tok \in Nat, Move(i, tok),
         SessionIs(i, tok) => 1 .. Chunks \subseteq session[i].have
  PROVE  ServerGrows
<1>1. session[i] \in Sessions
  BY DEF TypeOK
<1> DEFINE s == [session[i] EXCEPT !.open = FALSE]
<1>2. s \in Sessions /\ s.tok = session[i].tok /\ s.have = session[i].have /\ ~s.open
  BY <1>1 DEF Sessions
<1>3. CASE SessionIs(i, tok) /\ Free(i)
  <2>1. session' = [session EXCEPT ![i] = s]
    BY <1>3 DEF Move
  <2>2. session[i].have = 1 .. Chunks
    BY <1>1, <1>3 DEF Sessions
  <2>3. remote' = [remote EXCEPT ![i] = "ours"]
    BY <1>3, <2>2 DEF Move
  <2> QED
    BY <1>2, <1>3, <2>1, <2>3 DEF TypeOK, ServerGrows, Contents, Free
<1>4. CASE ~(SessionIs(i, tok) /\ Free(i))
  BY <1>4 DEF Move, TypeOK, ServerGrows
<1> QED
  BY <1>3, <1>4

\* So the server only gains by any request that is sent.
LEMMA ServeFacts ==
  ASSUME TypeOK, NEW r \in Requests, Serve(r),
         r.op = "chunk" => r.n > 0,
         r.op = "move" => Covered(r.i, r.tok, Chunks)
  PROVE  /\ ServerGrows
         /\ r.op = "chunk" /\ SessionIs(r.i, r.tok) => r.n \in session'[r.i].have
<1>1. r.i \in Items /\ r.tok \in Nat /\ r.n \in 0 .. Chunks
  BY DEF Requests
<1>2. CASE r.op = "put" /\ Put(r.i) /\ UNCHANGED session
  BY <1>1, <1>2, PutFacts
<1>3. CASE r.op = "chunk" /\ Chunk(r.i, r.tok, r.n) /\ UNCHANGED remote
  <2>1. r.n \in 1 .. Chunks
    BY <1>1, <1>3, UploadAssumption
  <2> QED
    BY <1>1, <1>3, <2>1, ChunkFacts
<1>4. CASE r.op = "move" /\ Move(r.i, r.tok)
  BY <1>1, <1>4, MoveSessionFacts DEF Covered
<1> QED
  BY <1>2, <1>3, <1>4 DEF Serve

\* A request knows what its worker knows, and a MOVE that all chunks are there.
LEMMA RequestFacts ==
  ASSUME UInv, NEW w \in Workers, worker[w].pc \in Sending
  PROVE  LET r == RequestOf(w) IN
         /\ worker[w].i \in Items
         /\ r \in Requests
         /\ r.op = worker[w].pc /\ r.i = worker[w].i /\ r.tok = worker[w].tok
         /\ r.op = "chunk" => r.n = worker[w].off + 1
         /\ r.op = "chunk" => r.n > 0
         /\ r.op = "move" => Covered(r.i, r.tok, Chunks)
<1>1. worker[w] \in WorkerState
  BY DEF UInv, TypeOK
<1>2. worker[w].i \in Items
  BY <1>1, UploadAssumption DEF UInv, Holding, Sending, WorkerState, Items
<1>3. worker[w].pc = "chunk" => worker[w].off + 1 \in 0 .. Chunks
  BY <1>1, UploadAssumption DEF UInv, Knowledge, Informed, WorkerState
<1> QED
  BY <1>1, <1>2, <1>3, UploadAssumption
     DEF RequestOf, Requests, WorkerState, Sending, UInv, Knowledge, Informed

-----------------------------------------------------------------------------
(* What the steps of a worker do *)

\* A worker beyond the channel has an item.
LEMMA BusyFacts ==
  ASSUME UInv, NEW w \in Workers, worker[w].pc \notin {"idle", "ended"}
  PROVE  worker[w] \in WorkerState /\ worker[w].i \in Items
BY UploadAssumption DEF UInv, TypeOK, Holding, WorkerState, Items

\* A probe takes up the resume state or asks for a new session
\* (nextcloud.go 527-543).
LEMMA ProbeFacts ==
  ASSUME UInv, NEW w \in Workers, Probe(w)
  PROVE  /\ Moved(w, worker'[w]) /\ worker'[w].i = worker[w].i
         /\ \/ /\ worker'[w].pc \in {"chunk", "move"}
               /\ worker'[w].tok = resume[worker[w].i].tok
               /\ worker'[w].off = resume[worker[w].i].off
               /\ worker'[w].pc = "chunk" => worker'[w].off < Chunks
               /\ worker'[w].pc = "move" => worker'[w].off = Chunks
            \/ worker'[w].pc = "mkcol"
<1> DEFINE i == worker[w].i
<1>1. worker[w] \in WorkerState /\ i \in Items /\ resume[i] \in Resumes
  BY BusyFacts DEF Probe, UInv, TypeOK
<1>2. CASE Reusable(i)
  <2> DEFINE to == IF resume[i].off < Chunks THEN "chunk" ELSE "move"
  <2> DEFINE r == [worker[w] EXCEPT !.pc = to, !.tok = resume[i].tok, !.off = resume[i].off]
  <2>1. /\ r \in WorkerState /\ r.i = i /\ r.pc = to
        /\ r.tok = resume[i].tok /\ r.off = resume[i].off
    BY <1>1 DEF WorkerState, WorkerPcs, Resumes
  <2>2. worker' = [worker EXCEPT ![w] = r]
    BY <1>2 DEF Probe
  <2>3. Moved(w, r)
    BY <2>1, <2>2, MoveFacts DEF UInv
  <2>4. resume[i].off \in 0 .. Chunks
    BY <1>1 DEF Resumes
  <2> QED
    BY <2>1, <2>3, <2>4, UploadAssumption DEF Moved
<1>3. CASE ~Reusable(i)
  <2> DEFINE r == [worker[w] EXCEPT !.pc = "mkcol"]
  <2>1. r \in WorkerState /\ r.i = i /\ r.pc = "mkcol"
    BY <1>1 DEF WorkerState, WorkerPcs
  <2>2. worker' = [worker EXCEPT ![w] = r]
    BY <1>3 DEF Probe
  <2>3. Moved(w, r)
    BY <2>1, <2>2, MoveFacts DEF UInv
  <2> QED
    BY <2>1, <2>3 DEF Moved
<1> QED
  BY <1>2, <1>3

\* A new session replaces the last one of its item; nothing else is touched.
Renewed(i) ==
    /\ session' \in [Items -> Sessions]
    /\ session'[i].tok = session[i].tok + 1
    /\ \A k \in Items : k # i => session'[k] = session[k]

\* MKCOL makes the next session of its item, and of no other.
LEMMA RenewFacts ==
  ASSUME TypeOK, NEW i \in Items,
         session' = [session EXCEPT ![i] = [tok |-> session[i].tok + 1, open |-> TRUE, have |-> {}]]
  PROVE  Renewed(i)
BY DEF TypeOK, Sessions, Renewed

\* A worker whose MKCOL is answered is at the start of a session nobody else
\* has heard of (nextcloud.go 553-566).
LEMMA FreshFacts ==
  ASSUME UInv, NEW w \in Workers, MakeSession(w)
  PROVE  /\ Moved(w, worker'[w]) /\ worker'[w].i = worker[w].i /\ worker'[w].pc = "save"
         /\ worker'[w].tok = session[worker[w].i].tok + 1 /\ worker'[w].off = 0
         /\ Renewed(worker[w].i)
<1> DEFINE i == worker[w].i
<1>1. worker[w] \in WorkerState /\ i \in Items /\ session[i].tok + 1 \in Nat /\ 0 \in 0 .. Chunks
  BY BusyFacts, UploadAssumption DEF MakeSession, UInv, TypeOK, Sessions
<1>2. /\ Fresh(w) \in WorkerState /\ Fresh(w).i = i /\ Fresh(w).pc = "save"
      /\ Fresh(w).tok = session[i].tok + 1 /\ Fresh(w).off = 0
  BY <1>1 DEF Fresh, WorkerState, WorkerPcs
<1>3. Moved(w, Fresh(w))
  BY <1>2, MoveFacts DEF MakeSession, UInv
<1>4. Renewed(i)
  BY <1>1, RenewFacts DEF MakeSession, UInv
<1> QED
  BY <1>2, <1>3, <1>4 DEF Moved

\* A chunk that is answered is on the server; without its session the upload
\* stops (nextcloud.go 571-590).
LEMMA SendChunkFacts ==
  ASSUME UInv, NEW w \in Workers, SendChunk(w)
  PROVE  /\ ServerGrows /\ remote' = remote
         /\ worker[w].off < Chunks
         /\ \/ /\ Moved(w, worker'[w]) /\ worker'[w].i = worker[w].i
               /\ worker'[w].pc = "keep" /\ worker'[w].tok = worker[w].tok
               /\ worker'[w].off = worker[w].off + 1
               /\ worker[w].off + 1 \in session'[worker[w].i].have
               /\ UNCHANGED pass
            \/ Fail(w, "stop")
<1> DEFINE i == worker[w].i  r == RequestOf(w)
<1>1. worker[w] \in WorkerState /\ i \in Items
  BY BusyFacts DEF SendChunk
<1>2. /\ r \in Requests /\ r.op = "chunk" /\ r.i = i /\ r.tok = worker[w].tok
      /\ r.n = worker[w].off + 1 /\ r.n > 0
  BY RequestFacts DEF SendChunk, Sending
<1>3. /\ ServerGrows
      /\ SessionIs(i, worker[w].tok) => worker[w].off + 1 \in session'[i].have
  BY <1>2, ServeFacts DEF SendChunk, UInv
<1>4. remote' = remote
  BY <1>2 DEF SendChunk, Serve
<1>5. worker[w].off < Chunks
  BY DEF SendChunk, UInv, Knowledge, Informed
<1>6. CASE SessionIs(i, worker[w].tok)
  <2> DEFINE s == [worker[w] EXCEPT !.pc = "keep", !.off = worker[w].off + 1]
  <2> HIDE DEF i
  <2>0. worker[w].off + 1 \in 0 .. Chunks
    BY <1>1, <1>5, UploadAssumption DEF WorkerState
  <2>1. /\ s \in WorkerState /\ s.i = worker[w].i /\ s.pc = "keep" /\ s.tok = worker[w].tok
        /\ s.off = worker[w].off + 1
    BY <1>1, <2>0 DEF WorkerState, WorkerPcs
  <2> USE DEF i
  <2>2. worker' = [worker EXCEPT ![w] = s] /\ UNCHANGED pass
    BY <1>6 DEF SendChunk
  <2>3. Moved(w, s)
    BY <2>1, <2>2, MoveFacts DEF UInv
  <2> QED
    BY <1>3, <1>4, <1>5, <1>6, <2>1, <2>2, <2>3 DEF Moved
<1>7. CASE ~SessionIs(i, worker[w].tok)
  BY <1>3, <1>4, <1>5, <1>7 DEF SendChunk
<1> QED
  BY <1>6, <1>7

\* An answered MOVE has assembled the whole file, was refused because of what
\* is there, or has lost its session (nextcloud.go 591-604).
LEMMA SendMoveFacts ==
  ASSUME UInv, NEW w \in Workers, SendMove(w)
  PROVE  /\ ServerGrows
         /\ \A k \in Items : k # worker[w].i => remote'[k] = remote[k]
         /\ \/ Go(w, "store") /\ UNCHANGED pass /\ remote'[worker[w].i] = "ours"
            \/ /\ Go(w, "refuse") /\ UNCHANGED pass
               /\ remote'[worker[w].i] = remote[worker[w].i] /\ remote[worker[w].i] # "none"
            \/ Fail(w, "stop") /\ remote' = remote
<1> DEFINE i == worker[w].i  r == RequestOf(w)
<1>1. worker[w] \in WorkerState /\ i \in Items /\ session[i] \in Sessions
  BY BusyFacts DEF SendMove, UInv, TypeOK
<1>2. /\ r \in Requests /\ r.op = "move" /\ r.i = i /\ r.tok = worker[w].tok
      /\ Covered(i, worker[w].tok, Chunks)
  BY RequestFacts DEF SendMove, Sending
<1>3. ServerGrows
  BY <1>2, ServeFacts DEF SendMove, UInv
<1>4. Move(i, worker[w].tok)
  BY <1>2 DEF SendMove, Serve
<1>5. \A k \in Items : k # i => remote'[k] = remote[k]
  BY <1>1, <1>4 DEF Move, UInv, TypeOK
<1>6. CASE ~SessionIs(i, worker[w].tok)
  BY <1>3, <1>4, <1>5, <1>6 DEF SendMove, Move
<1>7. CASE SessionIs(i, worker[w].tok) /\ Free(i)
  <2>1. session[i].have = 1 .. Chunks
    BY <1>1, <1>2, <1>7 DEF Covered, Sessions
  <2>2. remote'[i] = "ours"
    BY <1>1, <1>4, <1>7, <2>1 DEF Move, UInv, TypeOK
  <2> QED
    BY <1>3, <1>5, <1>7, <2>2 DEF SendMove
<1>8. CASE SessionIs(i, worker[w].tok) /\ ~Free(i)
  BY <1>3, <1>4, <1>5, <1>8 DEF SendMove, Move, Free
<1> QED
  BY <1>6, <1>7, <1>8

\* An answered PUT has stored the file or was refused because of what is there
\* (nextcloud.go 502-513).
LEMMA SendPutFacts ==
  ASSUME UInv, NEW w \in Workers, SendPut(w)
  PROVE  /\ ServerGrows /\ session' = session
         /\ \A k \in Items : k # worker[w].i => remote'[k] = remote[k]
         /\ \/ Go(w, "store") /\ remote'[worker[w].i] = "ours"
            \/ /\ Go(w, "refuse")
               /\ remote'[worker[w].i] = remote[worker[w].i] /\ remote[worker[w].i] # "none"
<1> DEFINE i == worker[w].i  r == RequestOf(w)
<1>1. i \in Items
  BY BusyFacts DEF SendPut
<1>2. r \in Requests /\ r.op = "put" /\ r.i = i
  BY RequestFacts DEF SendPut, Sending
<1>3. ServerGrows
  BY <1>2, ServeFacts DEF SendPut, UInv
<1>4. Put(i) /\ session' = session
  BY <1>2 DEF SendPut, Serve
<1> QED
  BY <1>1, <1>3, <1>4 DEF SendPut, Put, Free, UInv, TypeOK

\* A lost answer ends the worker, and changes the server at most as the
\* request would have.
LEMMA LoseFacts ==
  ASSUME UInv, NEW w \in Workers, Lose(w)
  PROVE  /\ Fail(w, "retry") /\ ServerGrows
         /\ \A k \in Items : k # worker[w].i => remote'[k] = remote[k]
         /\ late' \in {late, late \union {RequestOf(w)}} /\ (~Late => late' = late)
<1> DEFINE i == worker[w].i  r == RequestOf(w)
<1>1. /\ i \in Items /\ r \in Requests /\ r.i = i /\ (r.op = "chunk" => r.n > 0)
      /\ r.op = "move" => Covered(r.i, r.tok, Chunks)
  BY RequestFacts DEF Lose
<1>2. CASE Serve(r) /\ UNCHANGED late
  <2>1. ServerGrows
    BY <1>1, <1>2, ServeFacts DEF UInv
  <2>2. \A k \in Items : k # i => remote'[k] = remote[k]
    BY <1>1, <1>2 DEF Serve, Put, Move, UInv, TypeOK
  <2> QED
    BY <1>2, <2>1, <2>2 DEF Lose
<1>3. CASE UNCHANGED <<remote, session>>
  <2>1. ServerGrows
    BY <1>3 DEF ServerGrows, UInv, TypeOK
  <2> QED
    BY <1>3, <2>1 DEF Lose
<1> QED
  BY <1>2, <1>3 DEF Lose

\* A late request changes the server at most as it would have in time.
LEMMA ArriveFacts ==
  ASSUME UInv, NEW r \in late, Arrive(r)
  PROVE  ServerGrows /\ late' \subseteq late
<1>1. /\ r \in Requests /\ (r.op = "chunk" => r.n > 0)
      /\ r.op = "move" => Covered(r.i, r.tok, Chunks)
  BY DEF UInv, TypeOK, Knowledge
<1>2. CASE Serve(r)
  BY <1>1, <1>2, ServeFacts DEF UInv, Arrive
<1>3. CASE UNCHANGED <<remote, session>>
  BY <1>3 DEF ServerGrows, UInv, TypeOK, Arrive
<1> QED
  BY <1>2, <1>3 DEF Arrive

-----------------------------------------------------------------------------
(* The shapes of a worker's step *)

Busy(w) == worker[w].pc \notin {"idle", "ended"}

\* It goes on with its item, which may now be uploading.
Goes(w) ==
    /\ Busy(w) /\ Moved(w, worker'[w])
    /\ worker'[w].i = worker[w].i /\ worker'[w].pc \notin {"idle", "ended"}
    /\ item' \in {item, [item EXCEPT ![worker[w].i] = "uploading"]}
    /\ UNCHANGED <<job, pass, work, late, faults>>

\* It has a result for its item.
Rests(w) ==
    /\ Busy(w) /\ Moved(w, Idle)
    /\ \E st \in Settled : item' = [item EXCEPT ![worker[w].i] = st]
    /\ UNCHANGED <<job, pass, work, late, resume, remote, session>>

\* It ends with an error.
Fails(w) ==
    /\ Busy(w) /\ Moved(w, Gone)
    /\ pass' \in Passes /\ pass'.failed
    /\ pass'.pc = pass.pc /\ pass'.at = pass.at /\ pass'.live = pass.live
    /\ pass.failed => pass'.err = pass.err
    /\ ~pass.failed => pass'.err \in {"retry", "stop"}
    /\ UNCHANGED <<job, item, resume, work>>

\* What the step leaves in the variables the shape says nothing of.
Typed ==
    /\ resume' \in [Items -> Resumes] /\ remote' \in [Items -> Contents]
    /\ session' \in [Items -> Sessions] /\ late' \subseteq Requests
    /\ faults' \in 0 .. MaxFaults

\* An error of a busy worker has the shape of an end.
LEMMA FailShape ==
  ASSUME UInv, NEW w \in Workers, NEW kind \in {"retry", "stop"}, Busy(w), Fail(w, kind),
         UNCHANGED <<job, item, resume, work>>
  PROVE  Fails(w)
BY FailFacts DEF UInv, Fails

\* Going on to another place of uploadItem has the shape of going on.
LEMMA GoShape ==
  ASSUME UInv, NEW w \in Workers, NEW pc \in WorkerPcs \ {"idle", "ended"}, Busy(w), Go(w, pc),
         item' \in {item, [item EXCEPT ![worker[w].i] = "uploading"]},
         UNCHANGED <<job, pass, work, late, faults>>
  PROVE  Goes(w)
BY GoFacts DEF UInv, Goes

\* Recording a result has the shape of coming to rest.
LEMMA RestShape ==
  ASSUME UInv, NEW w \in Workers, NEW st \in Settled, Busy(w), SetItem(worker[w].i, st),
         worker' = [worker EXCEPT ![w] = Idle],
         UNCHANGED <<job, pass, work, late, resume, remote, session>>
  PROVE  Rests(w)
BY IdleGone, MoveFacts DEF UInv, Rests, SetItem

\* So the rereading of rights and connection (jobs.go 549-559) goes on,
LEMMA CheckShape ==
  ASSUME UInv, NEW w \in Workers, Check(w)
  PROVE  Goes(w) /\ Typed
<1>1. Goes(w)
  BY GoShape DEF Check, Busy, WorkerPcs
<1> QED
  BY <1>1 DEF Check, UInv, TypeOK, Typed

\* opening the source (560-565) goes on or records a failure,
LEMMA OpenShape ==
  ASSUME UInv, NEW w \in Workers, OpenSource(w)
  PROVE  (Goes(w) \/ Rests(w)) /\ Typed
<1>1. Typed
  BY SpendFacts DEF OpenSource, UInv, TypeOK, Typed
<1>2. CASE Go(w, "stat") /\ UNCHANGED <<item, faults>>
  BY <1>1, <1>2, GoShape DEF OpenSource, Busy, WorkerPcs
<1>3. CASE SetItem(worker[w].i, "failed") /\ worker' = [worker EXCEPT ![w] = Idle]
  BY <1>1, <1>3, RestShape DEF OpenSource, Busy, Settled
<1> QED
  BY <1>2, <1>3 DEF OpenSource

\* looking up the target (566-579) goes on or records what was found,
LEMMA StatShape ==
  ASSUME UInv, NEW w \in Workers, Stat(w)
  PROVE  (Goes(w) \/ Rests(w)) /\ Typed
<1>1. Typed
  BY DEF Stat, UInv, TypeOK, Typed
<1>2. CASE Go(w, "dirs") /\ UNCHANGED item
  BY <1>1, <1>2, GoShape DEF Stat, Busy, WorkerPcs
<1>3. CASE SetItem(worker[w].i, Found(worker[w].i)) /\ worker' = [worker EXCEPT ![w] = Idle]
  BY <1>1, <1>3, RestShape DEF Stat, Busy, Settled, Found
<1> QED
  BY <1>2, <1>3 DEF Stat

\* making the directories (nextcloud.go 435-477) goes on,
LEMMA DirsShape ==
  ASSUME UInv, NEW w \in Workers, EnsureDirectories(w)
  PROVE  Goes(w) /\ Typed
<1>1. Goes(w)
  BY GoShape DEF EnsureDirectories, Busy, WorkerPcs
<1> QED
  BY <1>1 DEF EnsureDirectories, UInv, TypeOK, Typed

\* marking the item as uploading (jobs.go 588-595) goes on,
LEMMA MarkShape ==
  ASSUME UInv, NEW w \in Workers, Mark(w)
  PROVE  Goes(w) /\ Typed
<1>1. Goes(w)
  BY GoShape DEF Mark, Busy, WorkerPcs, SetItem
<1> QED
  BY <1>1 DEF Mark, UInv, TypeOK, Typed

\* probing the session (nextcloud.go 527-543) goes on,
LEMMA ProbeShape ==
  ASSUME UInv, NEW w \in Workers, Probe(w)
  PROVE  Goes(w) /\ Typed
<1>1. Goes(w)
  BY ProbeFacts DEF Probe, Busy, Goes
<1> QED
  BY <1>1 DEF Probe, UInv, TypeOK, Typed

\* MKCOL (nextcloud.go 553-566) goes on,
LEMMA MakeShape ==
  ASSUME UInv, NEW w \in Workers, MakeSession(w)
  PROVE  Goes(w) /\ Typed
<1>1. Goes(w) /\ session' \in [Items -> Sessions]
  BY FreshFacts DEF MakeSession, Busy, Goes, Renewed
<1> QED
  BY <1>1 DEF MakeSession, UInv, TypeOK, Typed

\* saving the resume state (nextcloud.go 545-552) goes on,
LEMMA SaveShape ==
  ASSUME UInv, NEW w \in Workers, Save(w)
  PROVE  Goes(w) /\ Typed
<1>1. Goes(w)
  BY GoShape DEF Save, Busy, WorkerPcs
<1>2. worker[w] \in WorkerState
  BY DEF UInv, TypeOK
<1>3. [tok |-> worker[w].tok, off |-> worker[w].off] \in Resumes
  BY <1>2 DEF WorkerState, Resumes
<1> QED
  BY <1>1, <1>3 DEF Save, UInv, TypeOK, Typed

\* a chunk goes on or ends the worker,
LEMMA SendChunkShape ==
  ASSUME UInv, NEW w \in Workers, SendChunk(w)
  PROVE  (Goes(w) \/ Fails(w)) /\ Typed
<1>1. Goes(w) \/ Fails(w)
  BY SendChunkFacts, FailShape DEF SendChunk, Busy, Goes
<1>2. ServerGrows
  BY SendChunkFacts
<1> QED
  BY <1>1, <1>2 DEF SendChunk, UInv, TypeOK, Typed, ServerGrows

\* a MOVE goes on or ends the worker,
LEMMA SendMoveShape ==
  ASSUME UInv, NEW w \in Workers, SendMove(w)
  PROVE  (Goes(w) \/ Fails(w)) /\ Typed
<1>1. Goes(w) \/ Fails(w)
  BY SendMoveFacts, FailShape, GoShape DEF SendMove, Busy, WorkerPcs
<1>2. ServerGrows
  BY SendMoveFacts
<1> QED
  BY <1>1, <1>2 DEF SendMove, UInv, TypeOK, Typed, ServerGrows

\* an answered PUT goes on,
LEMMA SendPutShape ==
  ASSUME UInv, NEW w \in Workers, SendPut(w)
  PROVE  Goes(w) /\ Typed
<1>1. Goes(w)
  BY SendPutFacts, GoShape DEF SendPut, Busy, WorkerPcs
<1>2. ServerGrows
  BY SendPutFacts
<1> QED
  BY <1>1, <1>2 DEF SendPut, UInv, TypeOK, Typed, ServerGrows

\* a lost answer ends the worker,
LEMMA LoseShape ==
  ASSUME UInv, NEW w \in Workers, Lose(w)
  PROVE  Fails(w) /\ Typed
<1>1. Fails(w)
  BY LoseFacts, FailShape DEF Lose, Busy, Sending
<1>2. ServerGrows /\ late' \in {late, late \union {RequestOf(w)}} /\ RequestOf(w) \in Requests
  BY LoseFacts, RequestFacts DEF Lose
<1>3. faults' \in 0 .. MaxFaults
  BY MayFailFacts DEF Lose, UInv
<1> QED
  BY <1>1, <1>2, <1>3 DEF Lose, UInv, TypeOK, Typed, ServerGrows

\* a lost answer to MKCOL ends the worker,
LEMMA LoseSessionShape ==
  ASSUME UInv, NEW w \in Workers, LoseSession(w)
  PROVE  Fails(w) /\ Typed /\ Renewed(worker[w].i)
<1>1. Fails(w)
  BY FailShape DEF LoseSession, Busy
<1>2. Renewed(worker[w].i)
  BY BusyFacts, RenewFacts DEF LoseSession, UInv
<1>3. faults' \in 0 .. MaxFaults
  BY MayFailFacts DEF LoseSession, UInv
<1> QED
  BY <1>1, <1>2, <1>3 DEF LoseSession, UInv, TypeOK, Typed, Renewed

\* the result of an upload (jobs.go 609-617) is recorded,
LEMMA StoreShape ==
  ASSUME UInv, NEW w \in Workers, Store(w)
  PROVE  Rests(w) /\ Typed
<1>1. Rests(w)
  BY RestShape DEF Store, Busy, Settled
<1> QED
  BY <1>1 DEF Store, UInv, TypeOK, Typed

\* and any other error ends the worker (jobs.go 474-482).
LEMMA ErrorShape ==
  ASSUME UInv, NEW w \in Workers, NEW kind \in {"retry", "stop"}, Error(w, kind)
  PROVE  Fails(w) /\ Typed
<1>1. Fails(w)
  BY FailShape DEF Error, Busy
<1>2. faults' \in 0 .. MaxFaults
  BY MayFailFacts DEF Error, UInv
<1> QED
  BY <1>1, <1>2 DEF Error, UInv, TypeOK, Typed

\* Every step of a worker takes an item, leaves, or has one of the shapes.
LEMMA StepShape ==
  ASSUME UInv, NEW w \in Workers, Step(w)
  PROVE  \/ \E i \in Items : Take(w, i)
         \/ Leave(w)
         \/ (Goes(w) \/ Rests(w) \/ Fails(w)) /\ Typed
BY CheckShape, OpenShape, StatShape, DirsShape, MarkShape, ProbeShape, MakeShape, SaveShape,
   SendChunkShape, SendMoveShape, SendPutShape, LoseShape, LoseSessionShape, StoreShape, ErrorShape
   DEF Step

-----------------------------------------------------------------------------
(* The types *)

\* Every step keeps the types, and leaves no worker behind a pass.
LEMMA TypeStep ==
  ASSUME UInv, [Next]_vars
  PROVE  TypeOK'
<1> USE UploadAssumption
<1>0. TypeOK
  BY DEF UInv
<1>1. CASE Claim
  <2>1. NoPass \in Passes
    BY DEF NoPass, Passes
  <2>2. worker' \in [Workers -> WorkerState]
    BY <1>1, IdleGone DEF Claim
  <2>3. pass' \in Passes /\ pass'.pc = "producing"
    BY <1>1, <2>1 DEF Claim, Passes
  <2> QED
    BY <1>0, <1>1, <2>1, <2>2, <2>3 DEF Claim, TypeOK, JobStates
<1>2. CASE Refused
  BY <1>0, <1>2, SpendFacts DEF Refused, TypeOK, JobStates
<1>3. CASE Produce
  <2>1. pass \in Passes /\ pass.at \in 1 .. N
    BY <1>0, <1>3 DEF Produce, TypeOK, Passes
  <2>2. pass' \in Passes /\ pass'.pc = pass.pc
    BY <1>3, <2>1 DEF Produce, Passes, NextAfter
  <2>3. work' \subseteq Items
    BY <1>0, <1>3, <2>1 DEF Produce, TypeOK, Items
  <2> QED
    BY <1>0, <1>3, <2>2, <2>3 DEF Produce, TypeOK
<1>4. CASE Unread
  <2>1. pass \in Passes /\ ReadFailed \in {"none", "retry", "stop"}
    BY <1>0 DEF TypeOK, Passes, ReadFailed
  <2>2. pass' \in Passes /\ pass'.pc = "closed"
    BY <1>4, <2>1 DEF Unread, Passes
  <2>3. faults' \in 0 .. MaxFaults
    BY <1>0, <1>4, MayFailFacts DEF Unread
  <2> QED
    BY <1>0, <1>4, <2>2, <2>3 DEF Unread, TypeOK
<1>5. CASE Close
  <2>1. pass' \in Passes /\ pass'.pc = "closed"
    BY <1>0, <1>5 DEF Close, TypeOK, Passes
  <2> QED
    BY <1>0, <1>5, <2>1 DEF Close, TypeOK
<1>6. CASE Drain
  <2>1. NoPass \in Passes
    BY DEF NoPass, Passes
  <2>2. item' \in [Items -> ItemStates]
    BY <1>0, <1>6 DEF Drain, TypeOK, Reset, ItemStates
  <2>3. job' \in JobStates
    BY <1>0, <1>6 DEF Drain, TypeOK, JobStates, Verdict
  <2> QED
    BY <1>0, <1>6, <2>1, <2>2, <2>3 DEF Drain, TypeOK, AllGone, NoPass
<1>7. CASE Wake
  BY <1>0, <1>7 DEF Wake, TypeOK, JobStates
<1>8. ASSUME NEW w \in Workers, Step(w) PROVE TypeOK'
  <2>1. ASSUME NEW i \in Items, Take(w, i) PROVE TypeOK'
    <3>0. i \in 0 .. N
      BY DEF Items
    <3>1. [Idle EXCEPT !.pc = "check", !.i = i] \in WorkerState
      BY <3>0, IdleGone DEF WorkerState, WorkerPcs
    <3>2. worker' \in [Workers -> WorkerState]
      BY <1>0, <2>1, <3>1, IdleGone DEF Take, TypeOK
    <3>3. pass.pc # "none" /\ work' \subseteq Items
      BY <1>0, <2>1 DEF Take, TypeOK
    <3> QED
      BY <1>0, <2>1, <3>2, <3>3 DEF Take, TypeOK
  <2>2. CASE Leave(w)
    <3>1. worker' \in [Workers -> WorkerState]
      BY <1>0, <2>2, IdleGone DEF Leave, TypeOK
    <3> QED
      BY <1>0, <2>2, <3>1 DEF Leave, TypeOK
  <2>3. CASE (Goes(w) \/ Rests(w) \/ Fails(w)) /\ Typed
    <3>1. pass.pc # "none"
      BY <1>0, <2>3 DEF TypeOK, Goes, Rests, Fails, Busy
    <3>2. worker' \in [Workers -> WorkerState]
      BY <2>3 DEF Goes, Rests, Fails, Moved
    <3>3. item' \in [Items -> ItemStates]
      BY <1>0, <2>3 DEF Goes, Rests, Fails, TypeOK, ItemStates
    <3>4. pass' \in Passes /\ pass'.pc = pass.pc /\ job' = job /\ work' = work
      BY <1>0, <2>3 DEF Goes, Rests, Fails, TypeOK
    <3> QED
      BY <1>0, <2>3, <3>1, <3>2, <3>3, <3>4 DEF TypeOK, Typed
  <2> QED
    BY <1>8, <2>1, <2>2, <2>3, StepShape
<1>9. ASSUME NEW r \in late, Arrive(r) PROVE TypeOK'
  <2>1. ServerGrows /\ late' \subseteq late
    BY <1>9, ArriveFacts
  <2> QED
    BY <1>0, <1>9, <2>1 DEF Arrive, TypeOK, ServerGrows
<1>10. ASSUME NEW i \in Items, Expire(i) PROVE TypeOK'
  <2>1. [session[i] EXCEPT !.open = FALSE] \in Sessions
    BY <1>0 DEF TypeOK, Sessions
  <2>2. session' \in [Items -> Sessions] /\ faults' \in 0 .. MaxFaults
    BY <1>0, <1>10, <2>1, SpendFacts DEF Expire, TypeOK
  <2> QED
    BY <1>0, <1>10, <2>2 DEF Expire, TypeOK
<1>11. ASSUME NEW i \in Items, NEW what \in {"same", "other"}, Foreign(i, what) PROVE TypeOK'
  BY <1>0, <1>11, SpendFacts DEF Foreign, TypeOK, Contents
<1>12. ASSUME NEW to \in {"paused", "cancelled"}, Halt(to) PROVE TypeOK'
  <2>1. pass' \in Passes /\ pass'.pc = pass.pc
    BY <1>0, <1>12 DEF Halt, TypeOK, Passes
  <2> QED
    BY <1>0, <1>12, <2>1, SpendFacts DEF Halt, TypeOK, JobStates
<1>13. CASE Resume
  BY <1>0, <1>13 DEF Resume, TypeOK, JobStates
<1>14. CASE Retry
  BY <1>0, <1>14 DEF Retry, TypeOK, JobStates, ItemStates, Again
<1>15. CASE Shutdown
  <2>1. pass' \in Passes /\ pass'.pc = pass.pc
    BY <1>0, <1>15 DEF Shutdown, TypeOK, Passes
  <2> QED
    BY <1>0, <1>15, <2>1, SpendFacts DEF Shutdown, TypeOK
<1>16. CASE Crash
  <2>1. NoPass \in Passes
    BY DEF NoPass, Passes
  <2>2. worker' \in [Workers -> WorkerState] /\ \A w \in Workers : worker'[w].pc = "ended"
    BY <1>16, IdleGone DEF Crash
  <2>3. item' \in [Items -> ItemStates]
    BY <1>0, <1>16 DEF Crash, TypeOK, Reset, ItemStates
  <2> QED
    BY <1>0, <1>16, <2>1, <2>2, <2>3, SpendFacts DEF Crash, TypeOK, JobStates
<1>17. CASE UNCHANGED vars
  BY <1>0, <1>17 DEF TypeOK, vars
<1> QED
  BY <1>1, <1>2, <1>3, <1>4, <1>5, <1>6, <1>7, <1>8, <1>9, <1>10, <1>11, <1>12, <1>13, <1>14,
     <1>15, <1>16, <1>17 DEF Next, Pass

-----------------------------------------------------------------------------
(* Who holds which item *)

\* A worker that takes an item works on it, or drops it in a cancelled pass
\* (jobs.go 470-473).
LEMMA TakeFacts ==
  ASSUME UInv, NEW w \in Workers, NEW i \in Items, Take(w, i)
  PROVE  /\ Moved(w, worker'[w]) /\ worker[w].pc = "idle" /\ i \in work /\ i > 0
         /\ \/ worker'[w].pc = "check" /\ worker'[w].i = i
            \/ worker'[w] = Gone /\ ~RunLive
<1>1. [Idle EXCEPT !.pc = "check", !.i = i] \in WorkerState
  <2>1. i \in 0 .. N
    BY UploadAssumption DEF Items
  <2> QED
    BY <2>1, IdleGone DEF WorkerState, WorkerPcs
<1>2. CASE RunLive
  <2>1. Moved(w, [Idle EXCEPT !.pc = "check", !.i = i])
    BY <1>1, <1>2, MoveFacts DEF Take, UInv
  <2> QED
    BY <1>1, <2>1, IdleGone, UploadAssumption DEF Take, Moved, WorkerState, Items
<1>3. CASE ~RunLive
  <2>1. Moved(w, Gone)
    BY <1>3, IdleGone, MoveFacts DEF Take, UInv
  <2> QED
    BY <1>3, <2>1, UploadAssumption DEF Take, Moved, Items
<1> QED
  BY <1>2, <1>3

\* A worker that finds the channel closed and empty has ended.
LEMMA LeaveFacts ==
  ASSUME UInv, NEW w \in Workers, Leave(w)
  PROVE  Moved(w, Gone)
BY IdleGone, MoveFacts DEF Leave, UInv

\* Every step leaves an item with one worker at most: items enter the channel
\* in the order of the producer and leave it for one worker (jobs.go 484-508).
LEMMA HoldingStep ==
  ASSUME UInv, [Next]_vars
  PROVE  Holding'
<1> USE UploadAssumption
<1>0. TypeOK /\ Holding
  BY DEF UInv
<1>1. CASE Claim
  <2>1. worker' = [w \in Workers |-> Idle] /\ work' = {}
    BY <1>1 DEF Claim
  <2>2. pass'.at = 1
    BY <1>1 DEF Claim, NoPass
  <2> QED
    BY <2>1, <2>2, IdleGone DEF Holding
<1>2. CASE Refused
  BY <1>0, <1>2 DEF Refused, Holding
<1>3. CASE Produce
  <2>1. pass.at \in 1 .. N /\ pass'.at = pass.at + 1
    BY <1>0, <1>3 DEF Produce, TypeOK, Passes, NextAfter
  <2>2. \/ work' = work
        \/ work' = work \union {pass.at} /\ item[pass.at] \in {"missing", "uploading"}
    BY <1>3 DEF Produce, Open
  <2>3. worker' = worker /\ item' = item
    BY <1>3 DEF Produce
  <2>4. \A w \in Workers : worker[w].i \in Nat
    BY <1>0 DEF TypeOK, WorkerState
  <2>5. \A i \in work : i \in Nat
    BY <1>0 DEF TypeOK, Items
  <2> QED
    BY <1>0, <2>1, <2>2, <2>3, <2>4, <2>5 DEF Holding
<1>4. CASE Unread
  <2>1. pass'.at = pass.at
    BY <1>0, <1>4 DEF Unread, TypeOK, Passes
  <2> QED
    BY <1>0, <1>4, <2>1 DEF Unread, Holding
<1>5. CASE Close
  <2>1. pass'.at = pass.at
    BY <1>0, <1>5 DEF Close, TypeOK, Passes
  <2> QED
    BY <1>0, <1>5, <2>1 DEF Close, Holding
<1>6. CASE Drain
  <2>1. \A w \in Workers : worker[w].pc = "ended" /\ worker[w].i = 0
    BY <1>0, <1>6 DEF Drain, AllGone, Holding
  <2>2. worker' = worker /\ work' = {} /\ pass'.at = 1
    BY <1>6 DEF Drain, NoPass
  <2> QED
    BY <2>1, <2>2 DEF Holding
<1>7. CASE Wake
  BY <1>0, <1>7 DEF Wake, Holding
<1>8. ASSUME NEW w \in Workers, Step(w) PROVE Holding'
  <2>1. ASSUME NEW i \in Items, Take(w, i) PROVE Holding'
    <3>1. /\ Moved(w, worker'[w]) /\ worker[w].pc = "idle" /\ i \in work /\ i > 0
          /\ \/ worker'[w].pc = "check" /\ worker'[w].i = i
             \/ worker'[w] = Gone
      BY <2>1, TakeFacts
    <3>2. work' = work \ {i} /\ item' = item /\ pass' = pass
      BY <2>1 DEF Take
    <3>3. worker[w].i = 0
      BY <1>0, <3>1 DEF Holding
    <3> QED
      BY <1>0, <3>1, <3>2, <3>3, IdleGone DEF Holding, Moved
  <2>2. CASE Leave(w)
    <3>1. Moved(w, Gone)
      BY <2>2, LeaveFacts
    <3>2. work' = work /\ item' = item /\ pass' = pass /\ pass.at \in 1 .. N + 1
      BY <1>0, <2>2 DEF Leave, TypeOK, Passes
    <3> QED
      BY <1>0, <3>1, <3>2, IdleGone DEF Holding, Moved
  <2>3. CASE Goes(w)
    <3>1. /\ Moved(w, worker'[w]) /\ worker'[w].i = worker[w].i
          /\ worker[w].pc \notin {"idle", "ended"} /\ worker'[w].pc \notin {"idle", "ended"}
          /\ work' = work /\ pass' = pass
          /\ item' \in {item, [item EXCEPT ![worker[w].i] = "uploading"]}
      BY <2>3 DEF Goes, Busy
    <3>2. \A i \in Items : item[i] \in {"missing", "uploading"} => item'[i] \in {"missing", "uploading"}
      BY <1>0, <3>1 DEF TypeOK
    <3>3. \A v \in Workers : worker'[v].i = worker[v].i
      BY <3>1 DEF Moved
    <3>4. \A v \in Workers : worker[v].i > 0 => worker[v].i \in Items
      BY <1>0 DEF TypeOK, WorkerState, Items
    <3>5. \A v \in Workers : worker'[v].pc \in {"ended", "idle"} <=> worker[v].pc \in {"ended", "idle"}
      BY <3>1 DEF Moved
    <3>6. work \subseteq Items
      BY <1>0 DEF TypeOK
    <3> QED
      BY <1>0, <3>1, <3>2, <3>3, <3>4, <3>5, <3>6 DEF Holding
  <2>4. CASE Rests(w) \/ Fails(w)
    <3>1. /\ Moved(w, worker'[w]) /\ worker'[w].i = 0 /\ worker'[w].pc \in {"ended", "idle"}
          /\ worker[w].pc \notin {"idle", "ended"} /\ work' = work /\ pass'.at = pass.at
      BY <2>4, IdleGone DEF Rests, Fails, Busy, Moved
    <3>2. \A i \in Items : i # worker[w].i => item'[i] = item[i]
      BY <1>0, <2>4 DEF Rests, Fails, TypeOK
    <3>3. worker[w].i > 0 /\ pass.at > 0
      BY <1>0, <3>1 DEF Holding, TypeOK, WorkerState, Passes
    <3>4. \A v \in Workers : worker[v].i > 0 => worker[v].i \in Items
      BY <1>0 DEF TypeOK, WorkerState, Items
    <3>5. work \subseteq Items
      BY <1>0 DEF TypeOK
    <3> QED
      BY <1>0, <3>1, <3>2, <3>3, <3>4, <3>5 DEF Holding, Moved
  <2> QED
    BY <1>8, <2>1, <2>2, <2>3, <2>4, StepShape
<1>9. ASSUME NEW r \in late, Arrive(r) PROVE Holding'
  BY <1>0, <1>9 DEF Arrive, Holding
<1>10. ASSUME NEW i \in Items, Expire(i) PROVE Holding'
  BY <1>0, <1>10 DEF Expire, Holding
<1>11. ASSUME NEW i \in Items, NEW what \in {"same", "other"}, Foreign(i, what) PROVE Holding'
  BY <1>0, <1>11 DEF Foreign, Holding
<1>12. ASSUME NEW to \in {"paused", "cancelled"}, Halt(to) PROVE Holding'
  <2>1. pass'.at = pass.at
    BY <1>0, <1>12 DEF Halt, TypeOK, Passes
  <2> QED
    BY <1>0, <1>12, <2>1 DEF Halt, Holding
<1>13. CASE Resume
  BY <1>0, <1>13 DEF Resume, Holding
<1>14. CASE Retry
  <2>1. \A i \in Items : item[i] \in {"missing", "uploading"} => item'[i] \in {"missing", "uploading"}
    BY <1>0, <1>14 DEF Retry, Again
  <2>2. \A v \in Workers : worker[v].i > 0 => worker[v].i \in Items
    BY <1>0 DEF TypeOK, WorkerState, Items
  <2>3. work \subseteq Items
    BY <1>0 DEF TypeOK
  <2> QED
    BY <1>0, <1>14, <2>1, <2>2, <2>3 DEF Retry, Holding
<1>15. CASE Shutdown
  <2>1. pass'.at = pass.at
    BY <1>0, <1>15 DEF Shutdown, TypeOK, Passes
  <2> QED
    BY <1>0, <1>15, <2>1 DEF Shutdown, Holding
<1>16. CASE Crash
  <2>1. worker' = [w \in Workers |-> Gone] /\ work' = {} /\ pass'.at = 1
    BY <1>16 DEF Crash, NoPass
  <2> QED
    BY <2>1, IdleGone DEF Holding
<1>17. CASE UNCHANGED vars
  BY <1>0, <1>17 DEF Holding, vars
<1> QED
  BY <1>1, <1>2, <1>3, <1>4, <1>5, <1>6, <1>7, <1>8, <1>9, <1>10, <1>11, <1>12, <1>13, <1>14,
     <1>15, <1>16, <1>17 DEF Next, Pass

-----------------------------------------------------------------------------
(* What is known of the sessions *)

\* A session keeps what it has until a new one takes its place.
SessionsAge ==
    \A k \in Items :
        \/ session'[k].tok \in Nat /\ session'[k].tok > session[k].tok
        \/ /\ session'[k].tok = session[k].tok
           /\ session[k].have \subseteq session'[k].have
           /\ session'[k].open => session[k].open

\* Whatever happens to the server, its sessions age.
LEMMA AgeFacts ==
  ASSUME TypeOK, ServerGrows \/ session' = session \/ \E i \in Items : Renewed(i)
  PROVE  SessionsAge
<1>1. \A k \in Items : session[k] \in Sessions
  BY DEF TypeOK
<1>2. CASE ServerGrows
  BY <1>2 DEF ServerGrows, SessionsAge
<1>3. CASE session' = session
  BY <1>3 DEF SessionsAge
<1>4. ASSUME NEW i \in Items, Renewed(i) PROVE SessionsAge
  BY <1>1, <1>4 DEF Renewed, SessionsAge, Sessions
<1> QED
  BY <1>2, <1>3, <1>4

\* What is known of a session stays true while it ages.
LEMMA CoveredAges ==
  ASSUME TypeOK, SessionsAge, NEW i \in Items, NEW tok \in Nat, NEW off \in 0 .. Chunks,
         Covered(i, tok, off)
  PROVE  Covered(i, tok, off)'
<1>1. session[i] \in Sessions
  BY DEF TypeOK
<1>2. CASE session'[i].tok \in Nat /\ session'[i].tok > session[i].tok
  BY <1>1, <1>2 DEF Covered, SessionIs, Sessions
<1>3. CASE /\ session'[i].tok = session[i].tok
           /\ session[i].have \subseteq session'[i].have
           /\ session'[i].open => session[i].open
  BY <1>1, <1>3 DEF Covered, SessionIs, Sessions
<1> QED
  BY <1>2, <1>3 DEF SessionsAge

\* Knowledge stays true of everything that is not learnt anew.
LEMMA KnowledgeKept ==
  ASSUME UInv, SessionsAge,
         \A i \in Items : resume'[i] = resume[i] \/ Covered(i, resume[i].tok, resume[i].off)',
         \A w \in Workers : worker'[w] = worker[w] \/ Informed(w)',
         \A r \in late' : \/ r \in late
                          \/ /\ r.op = "move" => Covered(r.i, r.tok, Chunks)'
                             /\ r.op = "chunk" => r.n > 0
  PROVE  Knowledge'
<1> USE UploadAssumption
<1>0. TypeOK /\ Knowledge
  BY DEF UInv
<1>1. ASSUME NEW i \in Items PROVE Covered(i, resume[i].tok, resume[i].off)'
  <2>1. CASE resume'[i] = resume[i]
    <3>1. /\ resume[i].tok \in Nat /\ resume[i].off \in 0 .. Chunks
          /\ Covered(i, resume[i].tok, resume[i].off)
      BY <1>0 DEF TypeOK, Resumes, Knowledge
    <3>2. Covered(i, resume[i].tok, resume[i].off)'
          <=> (/\ resume[i].tok <= session'[i].tok
               /\ (session'[i].open /\ session'[i].tok = resume[i].tok)
                     => 1 .. resume[i].off \subseteq session'[i].have)
      BY <2>1 DEF Covered, SessionIs
    <3>3. session[i] \in Sessions
      BY <1>0 DEF TypeOK
    <3> QED
      BY <3>1, <3>2, <3>3 DEF Covered, SessionIs, SessionsAge, Sessions
  <2> QED
    BY <2>1
<1>2. ASSUME NEW w \in Workers PROVE Informed(w)'
  <2>1. CASE worker'[w] = worker[w]
    <3>1. Informed(w)
      BY <1>0 DEF Knowledge
    <3>2. CASE worker[w].pc \in {"save", "keep", "chunk", "move"}
      <4>1. /\ worker[w].i \in Items /\ worker[w].tok \in Nat /\ worker[w].off \in 0 .. Chunks
            /\ Covered(worker[w].i, worker[w].tok, worker[w].off)
        BY <3>1, <3>2, BusyFacts DEF Informed, WorkerState
      <4>2. session[worker[w].i] \in Sessions
        BY <1>0, <4>1 DEF TypeOK
      <4>3. /\ worker[w].tok <= session'[worker[w].i].tok
            /\ (session'[worker[w].i].open /\ session'[worker[w].i].tok = worker[w].tok)
                  => 1 .. worker[w].off \subseteq session'[worker[w].i].have
        BY <4>1, <4>2 DEF Covered, SessionIs, SessionsAge, Sessions
      <4> QED
        BY <2>1, <3>1, <4>3 DEF Informed, Covered, SessionIs
    <3>3. CASE worker[w].pc \notin {"save", "keep", "chunk", "move"}
      BY <2>1, <3>3 DEF Informed
    <3> QED
      BY <3>2, <3>3
  <2> QED
    BY <2>1
<1>3. ASSUME NEW r \in late' PROVE /\ r.op = "move" => Covered(r.i, r.tok, Chunks)'
                                   /\ r.op = "chunk" => r.n > 0
  <2>1. CASE r \in late
    <3>1. /\ r.i \in Items /\ r.tok \in Nat
          /\ r.op = "move" => Covered(r.i, r.tok, Chunks)
          /\ r.op = "chunk" => r.n > 0
      BY <1>0, <2>1 DEF TypeOK, Requests, Knowledge
    <3> QED
      BY <1>0, <3>1, CoveredAges
  <2> QED
    BY <2>1
<1> QED
  BY <1>1, <1>2, <1>3 DEF Knowledge

\* A resumed upload knows what its resume state knew.
LEMMA ProbeInforms ==
  ASSUME UInv, NEW w \in Workers, Probe(w)
  PROVE  Informed(w)'
<1> DEFINE i == worker[w].i
<1>1. /\ i \in Items /\ Covered(i, resume[i].tok, resume[i].off)
  BY BusyFacts DEF Probe, UInv, Knowledge
<1>2. worker'[w].i = i /\ session' = session
  BY ProbeFacts DEF Probe
<1>3. CASE worker'[w].pc = "mkcol"
  BY <1>3 DEF Informed
<1>4. CASE /\ worker'[w].tok = resume[i].tok /\ worker'[w].off = resume[i].off
           /\ worker'[w].pc = "chunk" => worker'[w].off < Chunks
           /\ worker'[w].pc = "move" => worker'[w].off = Chunks
  BY <1>1, <1>2, <1>4 DEF Informed, Covered, SessionIs
<1> QED
  BY <1>3, <1>4, ProbeFacts

\* A new session is known to be empty.
LEMMA MakeInforms ==
  ASSUME UInv, NEW w \in Workers, MakeSession(w)
  PROVE  Informed(w)'
<1> DEFINE i == worker[w].i
<1>1. i \in Items /\ session[i].tok \in Nat
  BY BusyFacts DEF MakeSession, UInv, TypeOK, Sessions
<1>2. /\ worker'[w].i = i /\ worker'[w].pc = "save" /\ worker'[w].off = 0
      /\ worker'[w].tok = session[i].tok + 1 /\ session'[i].tok = session[i].tok + 1
  BY FreshFacts DEF Renewed
<1>3. 1 .. worker'[w].off = {} /\ worker'[w].tok <= session'[i].tok
  BY <1>1, <1>2
<1> QED
  BY <1>2, <1>3 DEF Informed, Covered

\* A saved resume state knows what its worker does.
LEMMA SaveInforms ==
  ASSUME UInv, NEW w \in Workers, Save(w)
  PROVE  /\ Informed(w)'
         /\ \A i \in Items : resume'[i] = resume[i] \/ Covered(i, resume[i].tok, resume[i].off)'
<1> DEFINE i == worker[w].i
<1>1. /\ worker[w] \in WorkerState /\ i \in Items /\ Covered(i, worker[w].tok, worker[w].off)
  BY BusyFacts DEF Save, UInv, Knowledge, Informed
<1> DEFINE to == IF worker[w].off < Chunks THEN "chunk" ELSE "move"
<1>2. to \in WorkerPcs /\ Go(w, to)
  BY DEF Save, WorkerPcs
<1> HIDE DEF to
<1>3. /\ worker'[w].pc = to /\ worker'[w].i = i
      /\ worker'[w].tok = worker[w].tok /\ worker'[w].off = worker[w].off
  BY <1>2, GoFacts DEF UInv
<1>4. worker[w].off \in 0 .. Chunks /\ session' = session
  BY <1>1 DEF Save, WorkerState
<1>5. Informed(w)'
  BY <1>1, <1>3, <1>4, UploadAssumption DEF to, Informed, Covered, SessionIs
<1>6. /\ resume'[i].tok = worker[w].tok /\ resume'[i].off = worker[w].off
      /\ \A k \in Items : k # i => resume'[k] = resume[k]
  BY <1>1 DEF Save, UInv, TypeOK
<1> QED
  BY <1>1, <1>4, <1>5, <1>6 DEF Covered, SessionIs

\* The offset follows the chunks the server has answered.
LEMMA ChunkInforms ==
  ASSUME UInv, NEW w \in Workers, SendChunk(w)
  PROVE  Informed(w)'
<1> DEFINE i == worker[w].i  tok == worker[w].tok  off == worker[w].off
<1>1. /\ i \in Items /\ tok \in Nat /\ off \in 0 .. Chunks /\ Covered(i, tok, off)
      /\ session[i] \in Sessions
  BY BusyFacts DEF SendChunk, UInv, TypeOK, Knowledge, Informed, WorkerState
<1>2. ServerGrows
  BY SendChunkFacts
<1>3. /\ session'[i].tok = session[i].tok /\ session[i].have \subseteq session'[i].have
      /\ session'[i].open => session[i].open
  BY <1>1, <1>2 DEF ServerGrows
<1>4. CASE Fail(w, "stop")
  BY <1>4, FailFacts, IdleGone DEF UInv, Moved, Informed
<1>5. CASE /\ worker'[w].i = i /\ worker'[w].pc = "keep" /\ worker'[w].tok = tok
           /\ worker'[w].off = off + 1 /\ off + 1 \in session'[i].have
  <2>1. tok <= session'[i].tok
    BY <1>1, <1>3 DEF Covered
  <2>2. SessionIs(i, tok)' => 1 .. off \subseteq session'[i].have
    <3>1. (session'[i].open /\ session'[i].tok = worker[w].tok) => 1 .. off \subseteq session'[i].have
      BY <1>1, <1>3 DEF Covered, SessionIs
    <3> QED
      BY <1>5, <3>1 DEF SessionIs
  <2>3. 1 .. off + 1 = (1 .. off) \union {off + 1}
    BY <1>1
  <2> QED
    BY <1>5, <2>1, <2>2, <2>3 DEF Informed, Covered, SessionIs
<1> QED
  BY <1>4, <1>5, SendChunkFacts

\* Every step leaves resume states, workers and late requests behind the
\* server (nextcloud.go 519-603).
LEMMA KnowledgeStep ==
  ASSUME UInv, [Next]_vars
  PROVE  Knowledge'
<1>0. TypeOK /\ Knowledge
  BY DEF UInv
<1>1. ASSUME session' = session, resume' = resume, late' \subseteq late,
             \A w \in Workers : worker'[w] = worker[w] \/ Informed(w)'
      PROVE  Knowledge'
  <2>1. SessionsAge
    BY <1>0, <1>1, AgeFacts
  <2> QED
    BY <1>1, <2>1, KnowledgeKept
<1>2. CASE Claim \/ Crash
  <2>1. \A w \in Workers : Informed(w)'
    BY <1>2, IdleGone DEF Claim, Crash, Informed
  <2> QED
    BY <1>1, <1>2, <2>1 DEF Claim, Crash
<1>3. CASE Refused \/ Produce \/ Unread \/ Close \/ Drain \/ Wake \/ Resume \/ Retry \/ Shutdown
  BY <1>1, <1>3 DEF Refused, Produce, Unread, Close, Drain, Wake, Resume, Retry, Shutdown
<1>4. ASSUME NEW w \in Workers, Step(w) PROVE Knowledge'
  <2>1. ASSUME Moved(w, worker'[w]), Informed(w)', ServerGrows \/ session' = session,
               resume' = resume, late' \subseteq late
        PROVE  Knowledge'
    <3>1. SessionsAge
      BY <1>0, <2>1, AgeFacts
    <3>2. \A v \in Workers : worker'[v] = worker[v] \/ Informed(v)'
      BY <2>1 DEF Moved
    <3> QED
      BY <2>1, <3>1, <3>2, KnowledgeKept
  <2>2. ASSUME NEW i \in Items, Take(w, i) PROVE Knowledge'
    <3>1. Moved(w, worker'[w]) /\ worker'[w].pc \in {"check", "ended"}
      BY <2>2, TakeFacts, IdleGone
    <3> QED
      BY <2>1, <2>2, <3>1 DEF Take, Informed
  <2>3. CASE Leave(w)
    <3>1. Moved(w, worker'[w]) /\ worker'[w].pc = "ended"
      BY <2>3, LeaveFacts, IdleGone DEF Moved
    <3> QED
      BY <2>1, <2>3, <3>1 DEF Leave, Informed
  <2>4. CASE Check(w) \/ OpenSource(w) \/ Stat(w) \/ EnsureDirectories(w) \/ Mark(w) \/ Store(w)
    <3>1. Goes(w) \/ Rests(w)
      BY <2>4, CheckShape, OpenShape, StatShape, DirsShape, MarkShape, StoreShape
    <3>2. Moved(w, worker'[w])
      BY <3>1 DEF Goes, Rests, Moved
    <3>3. worker'[w].pc \in {"open", "stat", "dirs", "refuse", "mark", "put", "probe", "mkcol", "idle"}
      <4>1. CASE Rests(w)
        BY <4>1, IdleGone DEF Rests, Moved
      <4>2. CASE \E pc \in {"open", "stat", "dirs", "refuse", "mark", "put", "probe", "mkcol"} : Go(w, pc)
        BY <1>0, <4>2, GoFacts DEF WorkerPcs
      <4>3. CASE worker' = [worker EXCEPT ![w] = Idle]
        BY <1>0, <4>3, IdleGone DEF TypeOK
      <4> QED
        BY <2>4, <4>2, <4>3 DEF Check, OpenSource, Stat, EnsureDirectories, Mark, Store
    <3> QED
      BY <2>1, <2>4, <3>2, <3>3 DEF Check, OpenSource, Stat, EnsureDirectories, Mark, Store, Informed
  <2>5. CASE Probe(w)
    BY <2>1, <2>5, ProbeFacts, ProbeInforms DEF Probe
  <2>6. CASE MakeSession(w)
    <3>1. Moved(w, worker'[w]) /\ worker[w].i \in Items /\ Renewed(worker[w].i)
      BY <2>6, FreshFacts, BusyFacts DEF MakeSession
    <3>2. SessionsAge
      BY <1>0, <3>1, AgeFacts
    <3>3. \A v \in Workers : worker'[v] = worker[v] \/ Informed(v)'
      BY <2>6, <3>1, MakeInforms DEF Moved
    <3> QED
      BY <2>6, <3>2, <3>3, KnowledgeKept DEF MakeSession
  <2>7. CASE Save(w)
    <3>1. Moved(w, worker'[w]) /\ session' = session /\ late' = late
      BY <2>7, SaveShape DEF Goes, Save
    <3>2. SessionsAge
      BY <1>0, <3>1, AgeFacts
    <3>3. \A v \in Workers : worker'[v] = worker[v] \/ Informed(v)'
      BY <2>7, <3>1, SaveInforms DEF Moved
    <3> QED
      BY <2>7, <3>1, <3>2, <3>3, SaveInforms, KnowledgeKept
  <2>8. CASE SendChunk(w)
    <3>1. Moved(w, worker'[w])
      BY <2>8, SendChunkShape DEF Goes, Fails, Moved
    <3> QED
      BY <2>1, <2>8, <3>1, SendChunkFacts, ChunkInforms DEF SendChunk
  <2>9. CASE SendMove(w) \/ SendPut(w)
    <3>1. Moved(w, worker'[w]) /\ worker'[w].pc \in {"store", "refuse", "ended"}
      BY <1>0, <2>9, SendMoveFacts, SendPutFacts, GoFacts, FailFacts, IdleGone DEF Moved, WorkerPcs
    <3>2. ServerGrows
      BY <2>9, SendMoveFacts, SendPutFacts
    <3> QED
      BY <2>1, <2>9, <3>1, <3>2 DEF SendMove, SendPut, Informed
  <2>10. CASE Lose(w)
    <3>1. /\ Fail(w, "retry") /\ ServerGrows /\ late' \in {late, late \union {RequestOf(w)}}
      BY <2>10, LoseFacts
    <3>2. SessionsAge
      BY <1>0, <3>1, AgeFacts
    <3>3. \A v \in Workers : worker'[v] = worker[v] \/ Informed(v)'
      BY <1>0, <3>1, FailFacts, IdleGone DEF Moved, Informed
    <3>4. ASSUME NEW r \in late', r \notin late
          PROVE  /\ r.op = "move" => Covered(r.i, r.tok, Chunks)'
                 /\ r.op = "chunk" => r.n > 0
      <4>1. r = RequestOf(w)
        BY <3>1, <3>4
      <4>2. /\ r.i \in Items /\ r.tok \in Nat /\ (r.op = "chunk" => r.n > 0)
            /\ r.op = "move" => Covered(r.i, r.tok, Chunks)
        BY <2>10, <4>1, RequestFacts DEF Lose, Requests
      <4>3. Chunks \in 0 .. Chunks
        BY UploadAssumption
      <4> QED
        BY <1>0, <3>2, <4>2, <4>3, CoveredAges
    <3> QED
      BY <2>10, <3>1, <3>2, <3>3, <3>4, KnowledgeKept DEF Lose
  <2>11. CASE LoseSession(w)
    <3>1. Fails(w) /\ worker[w].i \in Items /\ Renewed(worker[w].i)
      BY <2>11, LoseSessionShape, BusyFacts DEF LoseSession
    <3>2. SessionsAge
      BY <1>0, <3>1, AgeFacts
    <3>3. \A v \in Workers : worker'[v] = worker[v] \/ Informed(v)'
      BY <3>1, IdleGone DEF Fails, Moved, Informed
    <3> QED
      BY <2>11, <3>2, <3>3, KnowledgeKept DEF LoseSession
  <2>12. ASSUME NEW kind \in {"retry", "stop"}, Error(w, kind) PROVE Knowledge'
    <3>1. Moved(w, worker'[w]) /\ worker'[w].pc = "ended"
      BY <2>12, ErrorShape, IdleGone DEF Fails, Moved
    <3> QED
      BY <2>1, <2>12, <3>1 DEF Error, Informed
  <2> QED
    BY <1>4, <2>2, <2>3, <2>4, <2>5, <2>6, <2>7, <2>8, <2>9, <2>10, <2>11, <2>12 DEF Step
<1>5. ASSUME NEW r \in late, Arrive(r) PROVE Knowledge'
  <2>1. SessionsAge /\ late' \subseteq late
    BY <1>0, <1>5, ArriveFacts, AgeFacts
  <2> QED
    BY <1>5, <2>1, KnowledgeKept DEF Arrive
<1>6. ASSUME NEW i \in Items, Expire(i) PROVE Knowledge'
  <2>1. SessionsAge
    BY <1>0, <1>6 DEF Expire, SessionsAge, TypeOK, Sessions
  <2> QED
    BY <1>6, <2>1, KnowledgeKept DEF Expire
<1>7. ASSUME NEW i \in Items, NEW what \in {"same", "other"}, Foreign(i, what) PROVE Knowledge'
  BY <1>1, <1>7 DEF Foreign
<1>8. ASSUME NEW to \in {"paused", "cancelled"}, Halt(to) PROVE Knowledge'
  BY <1>1, <1>8 DEF Halt
<1>9. CASE UNCHANGED vars
  BY <1>1, <1>9 DEF vars
<1> QED
  BY <1>2, <1>3, <1>4, <1>5, <1>6, <1>7, <1>8, <1>9 DEF Next, Pass

-----------------------------------------------------------------------------
(* Results *)

\* What is at a target stays there; the empty ones may be filled.
RemoteKeeps ==
    \A k \in Items : \/ remote'[k] = remote[k]
                     \/ remote[k] = "none" /\ remote'[k] \in {"ours", "same", "other"}

\* No step replaces what is at a target.
LEMMA RemoteStep ==
  ASSUME UInv, [Next]_vars
  PROVE  RemoteKeeps
<1>1. ASSUME NEW w \in Workers, Step(w) PROVE RemoteKeeps
  <2>1. CASE ServerGrows
    BY <2>1 DEF ServerGrows, RemoteKeeps
  <2>2. CASE SendChunk(w) \/ SendMove(w) \/ SendPut(w) \/ Lose(w)
    BY <2>1, <2>2, SendChunkFacts, SendMoveFacts, SendPutFacts, LoseFacts
  <2>3. CASE remote' = remote
    BY <2>3 DEF RemoteKeeps
  <2> QED
    BY <1>1, <2>2, <2>3 DEF Step, Take, Leave, Check, OpenSource, Stat, EnsureDirectories, Mark,
       Probe, MakeSession, Save, Store, LoseSession, Error
<1>2. ASSUME NEW r \in late, Arrive(r) PROVE RemoteKeeps
  BY <1>2, ArriveFacts DEF ServerGrows, RemoteKeeps
<1>3. ASSUME NEW i \in Items, NEW what \in {"same", "other"}, Foreign(i, what) PROVE RemoteKeeps
  BY <1>3 DEF Foreign, RemoteKeeps, UInv, TypeOK
<1>4. CASE remote' = remote
  BY <1>4 DEF RemoteKeeps
<1> QED
  BY <1>1, <1>2, <1>3, <1>4 DEF Next, Pass, vars, Claim, Refused, Produce, Unread, Close, Drain,
     Wake, Expire, Halt, Resume, Retry, Shutdown, Crash

\* New results agree with the server.
ItemsAgree ==
    \A k \in Items : \/ item'[k] = item[k]
                     \/ item'[k] \notin {"done", "existing"}
                     \/ item'[k] = "done" /\ remote'[k] = "ours"
                     \/ item'[k] = "existing" /\ remote'[k] \in {"ours", "same"}

\* Results stay right when nothing at a target is replaced.
LEMMA ResultsKept ==
  ASSUME UInv, RemoteKeeps, ItemsAgree,
         \A w \in Workers : \/ worker'[w] = worker[w]
                            \/ worker'[w].pc = "store" => remote'[worker'[w].i] = "ours"
  PROVE  Results'
<1>1. \A w \in Workers : worker[w].pc = "store" => worker[w].i \in Items
  BY BusyFacts
<1> QED
  BY <1>1 DEF UInv, Results, RemoteKeeps, ItemsAgree

\* Every step records results that agree with the server (jobs.go 566-617).
LEMMA ResultsStep ==
  ASSUME UInv, [Next]_vars
  PROVE  Results'
<1>0. TypeOK /\ RemoteKeeps
  BY RemoteStep DEF UInv
<1>1. ASSUME worker' = worker \/ (\A w \in Workers : worker'[w].pc # "store"),
             \A k \in Items : item'[k] = item[k] \/ item'[k] = "missing"
      PROVE  Results'
  <2>1. ItemsAgree
    BY <1>1 DEF ItemsAgree
  <2> QED
    BY <1>0, <1>1, <2>1, ResultsKept
<1>2. CASE Claim \/ Crash
  BY <1>0, <1>1, <1>2, IdleGone DEF Claim, Crash, TypeOK, Reset
<1>3. CASE Refused \/ Produce \/ Unread \/ Close \/ Drain \/ Wake \/ Resume \/ Retry \/ Shutdown
  BY <1>0, <1>1, <1>3 DEF Refused, Produce, Unread, Close, Drain, Wake, Resume, Retry, Shutdown,
     TypeOK, Reset, Again
<1>4. ASSUME NEW w \in Workers, Step(w) PROVE Results'
  <2>1. ASSUME Moved(w, worker'[w]), item' = item,
               worker'[w].pc = "store" => remote'[worker'[w].i] = "ours"
        PROVE  Results'
    <3>1. ItemsAgree
      BY <2>1 DEF ItemsAgree
    <3> QED
      BY <1>0, <2>1, <3>1, ResultsKept DEF Moved
  <2>2. ASSUME NEW i \in Items, Take(w, i) PROVE Results'
    <3>1. Moved(w, worker'[w]) /\ worker'[w].pc \in {"check", "ended"}
      BY <2>2, TakeFacts, IdleGone
    <3> QED
      BY <2>1, <2>2, <3>1 DEF Take
  <2>3. CASE Leave(w)
    <3>1. Moved(w, worker'[w]) /\ worker'[w].pc = "ended"
      BY <2>3, LeaveFacts, IdleGone DEF Moved
    <3> QED
      BY <2>1, <2>3, <3>1 DEF Leave
  <2>4. CASE Fails(w)
    <3>1. Moved(w, worker'[w]) /\ worker'[w].pc = "ended" /\ item' = item
      BY <2>4, IdleGone DEF Fails, Moved
    <3> QED
      BY <2>1, <3>1
  <2>5. CASE Check(w) \/ EnsureDirectories(w) \/ Save(w)
    <3>1. worker'[w].pc # "store"
      BY <1>0, <2>5, GoFacts DEF Check, EnsureDirectories, Save, WorkerPcs
    <3>2. Moved(w, worker'[w]) /\ item' = item
      BY <2>5, CheckShape, DirsShape, SaveShape DEF Goes, Check, EnsureDirectories, Save
    <3> QED
      BY <2>1, <3>1, <3>2
  <2>6. CASE Probe(w) \/ MakeSession(w)
    <3>1. Moved(w, worker'[w]) /\ worker'[w].pc # "store"
      BY <2>6, ProbeFacts, FreshFacts
    <3> QED
      BY <2>1, <2>6, <3>1 DEF Probe, MakeSession
  <2>7. CASE Mark(w)
    <3>1. Moved(w, worker'[w]) /\ worker'[w].pc # "store"
      BY <1>0, <2>7, GoFacts DEF Mark, WorkerPcs
    <3>2. ItemsAgree
      BY <1>0, <2>7 DEF Mark, SetItem, TypeOK, ItemsAgree
    <3> QED
      BY <1>0, <3>1, <3>2, ResultsKept DEF Moved
  <2>8. ASSUME Rests(w), ItemsAgree PROVE Results'
    <3>1. Moved(w, worker'[w]) /\ worker'[w].pc # "store"
      BY <2>8, IdleGone DEF Rests, Moved
    <3> QED
      BY <1>0, <2>8, <3>1, ResultsKept DEF Moved
  <2>9. CASE OpenSource(w)
    <3>1. CASE Go(w, "stat") /\ item' = item
      <4>1. Moved(w, worker'[w]) /\ worker'[w].pc # "store"
        BY <1>0, <3>1, GoFacts DEF WorkerPcs
      <4> QED
        BY <2>1, <3>1, <4>1
    <3>2. CASE SetItem(worker[w].i, "failed") /\ worker' = [worker EXCEPT ![w] = Idle]
      <4>1. Rests(w)
        BY <2>9, <3>2, RestShape DEF OpenSource, Busy, Settled
      <4>2. ItemsAgree
        BY <1>0, <3>2 DEF SetItem, TypeOK, ItemsAgree
      <4> QED
        BY <2>8, <4>1, <4>2
    <3> QED
      BY <2>9, <3>1, <3>2 DEF OpenSource
  <2>10. CASE Stat(w)
    <3>1. CASE Go(w, "dirs") /\ item' = item
      <4>1. Moved(w, worker'[w]) /\ worker'[w].pc # "store"
        BY <1>0, <3>1, GoFacts DEF WorkerPcs
      <4> QED
        BY <2>1, <3>1, <4>1
    <3>2. CASE SetItem(worker[w].i, Found(worker[w].i)) /\ worker' = [worker EXCEPT ![w] = Idle]
      <4>1. Rests(w)
        BY <2>10, <3>2, RestShape DEF Stat, Busy, Settled, Found
      <4>2. ItemsAgree
        BY <1>0, <2>10, <3>2 DEF SetItem, TypeOK, Found, Stat, ItemsAgree
      <4> QED
        BY <2>8, <4>1, <4>2
    <3> QED
      BY <2>10, <3>1, <3>2 DEF Stat
  <2>11. CASE Store(w)
    <3>1. Rests(w)
      BY <2>11, StoreShape
    <3>2. worker[w].pc = "store" => remote[worker[w].i] = "ours"
      BY DEF UInv, Results
    <3>3. ItemsAgree
      BY <1>0, <2>11, <3>2 DEF Store, SetItem, TypeOK, ItemsAgree
    <3> QED
      BY <2>8, <3>1, <3>3
  <2>12. CASE SendChunk(w)
    BY <2>1, <2>4, <2>12, SendChunkShape, SendChunkFacts, FailShape DEF SendChunk, Busy
  <2>13. CASE SendMove(w) \/ SendPut(w)
    <3>1. CASE Go(w, "store") /\ remote'[worker[w].i] = "ours"
      <4>1. Moved(w, worker'[w]) /\ worker'[w].i = worker[w].i
        BY <1>0, <3>1, GoFacts DEF WorkerPcs
      <4> QED
        BY <2>1, <2>13, <3>1, <4>1 DEF SendMove, SendPut
    <3>2. CASE Go(w, "refuse")
      <4>1. Moved(w, worker'[w]) /\ worker'[w].pc # "store"
        BY <1>0, <3>2, GoFacts DEF WorkerPcs
      <4> QED
        BY <2>1, <2>13, <4>1 DEF SendMove, SendPut
    <3>3. CASE Fail(w, "stop")
      <4>1. Moved(w, worker'[w]) /\ worker'[w].pc # "store"
        BY <1>0, <3>3, FailFacts, IdleGone DEF Moved
      <4> QED
        BY <2>1, <2>13, <4>1 DEF SendMove, SendPut
    <3> QED
      BY <2>13, <3>1, <3>2, <3>3, SendMoveFacts, SendPutFacts
  <2> QED
    BY <1>4, <2>2, <2>3, <2>4, <2>5, <2>6, <2>7, <2>9, <2>10, <2>11, <2>12, <2>13,
       LoseShape, LoseSessionShape, ErrorShape DEF Step
<1>5. ASSUME NEW r \in late, Arrive(r) PROVE Results'
  BY <1>1, <1>5 DEF Arrive
<1>6. ASSUME NEW i \in Items, Expire(i) PROVE Results'
  BY <1>1, <1>6 DEF Expire
<1>7. ASSUME NEW i \in Items, NEW what \in {"same", "other"}, Foreign(i, what) PROVE Results'
  BY <1>1, <1>7 DEF Foreign
<1>8. ASSUME NEW to \in {"paused", "cancelled"}, Halt(to) PROVE Results'
  BY <1>1, <1>8 DEF Halt
<1>9. CASE UNCHANGED vars
  BY <1>1, <1>9 DEF vars
<1> QED
  BY <1>2, <1>3, <1>4, <1>5, <1>6, <1>7, <1>8, <1>9 DEF Next, Pass

-----------------------------------------------------------------------------
(* No item is lost sight of *)

\* Every step of a pass without errors keeps sight of all items: settled, in
\* the channel, or with a worker (jobs.go 486-515 and 538-547).
LEMMA CoverageStep ==
  ASSUME UInv, [Next]_vars
  PROVE  Coverage'
<1> USE UploadAssumption
<1>0. TypeOK /\ Holding /\ Coverage
  BY DEF UInv
<1>a. \A w \in Workers : worker[w].i \in 0 .. N
  BY <1>0 DEF TypeOK, WorkerState
<1>1. CASE Claim
  <2>1. /\ job' = "running" /\ pass'.pc = "producing" /\ pass'.at = 1 /\ ~pass'.failed
        /\ \A w \in Workers : worker'[w].pc = "idle"
    BY <1>1, IdleGone DEF Claim, NoPass
  <2>2. \A i \in Items : ~(i < 1)
    BY DEF Items
  <2> QED
    BY <2>1, <2>2 DEF Coverage
<1>2. CASE Refused
  BY <1>0, <1>2 DEF Refused, Coverage
<1>3. CASE Produce
  <2>1. /\ pass.at \in 1 .. N /\ pass'.at = pass.at + 1 /\ pass' .pc = pass.pc
        /\ pass'.live = pass.live /\ pass'.failed = pass.failed /\ pass'.err = pass.err
    BY <1>0, <1>3 DEF Produce, TypeOK, Passes, NextAfter
  <2>2. \/ work' = work /\ item[pass.at] \in Settled
        \/ work' = work \union {pass.at}
    BY <1>0, <1>3, <2>1 DEF Produce, Open, TypeOK, ItemStates, Items
  <2>3. worker' = worker /\ item' = item /\ job' = job /\ pass.pc = "producing"
    BY <1>3 DEF Produce
  <2>4. \A i \in Items : i < pass'.at => i < pass.at \/ i = pass.at
    BY <2>1 DEF Items
  <2> QED
    BY <1>0, <2>1, <2>2, <2>3, <2>4 DEF Coverage
<1>4. CASE Unread
  <2>1. pass'.failed = pass.failed /\ pass'.err # "none"
    BY <1>0, <1>4 DEF Unread, TypeOK, Passes, ReadFailed, Coverage
  <2> QED
    BY <1>0, <1>4, <2>1 DEF Unread, Coverage
<1>5. CASE Close
  <2>1. /\ pass'.at = pass.at /\ pass'.pc = "closed" /\ pass'.live = pass.live
        /\ pass'.failed = pass.failed /\ pass'.err = pass.err
    BY <1>0, <1>5 DEF Close, TypeOK, Passes
  <2>2. pass.live /\ pass.err = "none" => pass.at > N
    BY <1>0, <1>5 DEF Close, MayClose, RunLive, Coverage
  <2> QED
    BY <1>0, <1>5, <2>1, <2>2 DEF Close, Coverage
<1>6. CASE Drain
  <2>1. /\ pass.pc = "closed" /\ \A w \in Workers : worker[w].pc = "ended" /\ worker[w].i = 0
    BY <1>0, <1>6 DEF Drain, AllGone, Holding
  <2>2. pass'.pc = "none" /\ ~pass'.failed
    BY <1>6 DEF Drain, NoPass
  <2>3. \A i \in Items : item'[i] = Reset(item[i])
    BY <1>6 DEF Drain
  <2>4. CASE job = "running" /\ pass.live /\ pass.err = "none" /\ job' = Verdict
    <3>1. work = {} /\ pass.at > N
      BY <1>0, <2>1, <2>4 DEF Coverage
    <3>2. \A i \in Items : item[i] \in Settled
      <4>1. \A i \in Items : i < pass.at /\ i # 0
        BY <1>0, <3>1 DEF Items, TypeOK, Passes
      <4> QED
        BY <1>0, <2>1, <2>4, <3>1, <4>1 DEF Coverage
    <3>3. \A i \in Items : item'[i] = item[i]
      BY <2>3, <3>2 DEF Reset, Settled
    <3> QED
      BY <2>2, <2>4, <3>2, <3>3 DEF Coverage, Verdict, Settled
  <2>5. CASE job' \in {"queued", "waiting", "paused"}
    BY <2>2, <2>5 DEF Coverage
  <2>6. CASE job' = job
    BY <1>0, <2>1, <2>2, <2>6 DEF Coverage
  <2> QED
    BY <1>6, <2>4, <2>5, <2>6 DEF Drain
<1>7. CASE Wake
  BY <1>0, <1>7 DEF Wake, Coverage
<1>8. ASSUME NEW w \in Workers, Step(w) PROVE Coverage'
  <2>0. ASSUME worker[w].pc # "ended" PROVE pass.pc # "none" /\ job \notin {"complete", "partial", "failed"}
    BY <1>0, <2>0 DEF TypeOK, Coverage
  <2>1. ASSUME NEW i \in Items, Take(w, i) PROVE Coverage'
    <3>1. /\ Moved(w, worker'[w]) /\ worker[w].pc = "idle"
          /\ \/ worker'[w].pc = "check" /\ worker'[w].i = i
             \/ worker'[w] = Gone /\ ~RunLive
      BY <2>1, TakeFacts
    <3>2. work' = work \ {i} /\ item' = item /\ pass' = pass /\ job' = job /\ i \in work
      BY <2>1 DEF Take
    <3>3. worker[w].i = 0 /\ \A k \in Items : k # 0
      BY <1>0, <3>1 DEF Holding, Items
    <3>4. CASE RunLive
      BY <1>0, <2>0, <3>1, <3>2, <3>3, <3>4 DEF Coverage, Moved
    <3>5. CASE ~RunLive
      <4>1. ~(pass.live /\ pass.err = "none")
        BY <1>0, <3>5 DEF RunLive, Coverage
      <4> QED
        BY <1>0, <2>0, <3>1, <3>2, <4>1 DEF Coverage
    <3> QED
      BY <3>4, <3>5
  <2>2. CASE Leave(w)
    <3>1. Moved(w, Gone) /\ worker[w].pc = "idle"
      BY <2>2, LeaveFacts DEF Leave
    <3>2. /\ work' = work /\ item' = item /\ pass' = pass /\ job' = job
          /\ pass.pc = "closed" /\ work = {}
      BY <2>2 DEF Leave
    <3>3. worker[w].i = 0 /\ \A k \in Items : k # 0
      BY <1>0, <3>1 DEF Holding, Items
    <3> QED
      BY <1>0, <2>0, <3>1, <3>2, <3>3 DEF Coverage, Moved
  <2>3. CASE Goes(w)
    <3>1. /\ Moved(w, worker'[w]) /\ worker'[w].i = worker[w].i
          /\ worker[w].pc # "ended" /\ worker'[w].pc # "ended"
          /\ work' = work /\ pass' = pass /\ job' = job
          /\ item' \in {item, [item EXCEPT ![worker[w].i] = "uploading"]}
      BY <2>3 DEF Goes, Busy
    <3>2. \A v \in Workers : worker'[v].i = worker[v].i /\ (worker'[v].pc = "ended" => worker[v].pc = "ended")
      BY <3>1 DEF Moved
    <3>3. \A k \in Items : item'[k] = item[k] \/ worker[w].i = k
      BY <1>0, <3>1 DEF TypeOK
    <3> QED
      BY <1>0, <2>0, <3>1, <3>2, <3>3 DEF Coverage
  <2>4. CASE Rests(w)
    <3>1. /\ Moved(w, worker'[w]) /\ worker'[w].pc # "ended" /\ worker[w].pc # "ended"
          /\ work' = work /\ pass' = pass /\ job' = job
      BY <2>4, IdleGone DEF Rests, Busy, Moved
    <3>2. \A k \in Items : /\ k # worker[w].i => item'[k] = item[k]
                           /\ k = worker[w].i => item'[k] \in Settled
      BY <1>0, <2>4 DEF Rests, TypeOK
    <3> QED
      BY <1>0, <2>0, <3>1, <3>2 DEF Coverage, Moved
  <2>5. CASE Fails(w)
    <3>1. /\ worker[w].pc # "ended" /\ pass'.failed /\ pass'.pc = pass.pc /\ job' = job
          /\ pass.failed => pass'.err = pass.err
          /\ ~pass.failed => pass'.err \in {"retry", "stop"}
      BY <2>5 DEF Fails, Busy
    <3>2. pass'.err # "none"
      <4>1. CASE pass.failed
        BY <1>0, <3>1, <4>1 DEF Coverage
      <4>2. CASE ~pass.failed
        BY <3>1, <4>2
      <4> QED
        BY <4>1, <4>2
    <3> QED
      BY <2>0, <3>1, <3>2 DEF Coverage
  <2> QED
    BY <1>8, <2>1, <2>2, <2>3, <2>4, <2>5, StepShape
<1>9. ASSUME NEW r \in late, Arrive(r) PROVE Coverage'
  BY <1>0, <1>9 DEF Arrive, Coverage
<1>10. ASSUME NEW i \in Items, Expire(i) PROVE Coverage'
  BY <1>0, <1>10 DEF Expire, Coverage
<1>11. ASSUME NEW i \in Items, NEW what \in {"same", "other"}, Foreign(i, what) PROVE Coverage'
  BY <1>0, <1>11 DEF Foreign, Coverage
<1>12. ASSUME NEW to \in {"paused", "cancelled"}, Halt(to) PROVE Coverage'
  <2>1. /\ pass'.at = pass.at /\ pass'.pc = pass.pc /\ (pass'.live => pass.live)
        /\ pass'.failed = pass.failed /\ pass'.err = pass.err
    BY <1>0, <1>12 DEF Halt, TypeOK, Passes
  <2> QED
    BY <1>0, <1>12, <2>1 DEF Halt, Coverage
<1>13. CASE Resume
  BY <1>0, <1>13 DEF Resume, Coverage
<1>14. CASE Retry
  <2>1. pass.pc = "none" /\ job' = "queued" /\ pass' = pass
    BY <1>0, <1>14 DEF Retry, Coverage
  <2> QED
    BY <1>0, <2>1 DEF Coverage
<1>15. CASE Shutdown
  <2>1. pass'.pc = pass.pc /\ ~pass'.live /\ pass'.failed = pass.failed /\ pass'.err = pass.err
    BY <1>0, <1>15 DEF Shutdown, TypeOK, Passes
  <2> QED
    BY <1>0, <1>15, <2>1 DEF Shutdown, Coverage
<1>16. CASE Crash
  <2>1. pass'.pc = "none" /\ ~pass'.failed
    BY <1>16 DEF Crash, NoPass
  <2>2. job' \in {"complete", "partial"} => job = job'
    BY <1>16 DEF Crash
  <2>3. \A i \in Items : item[i] \in Settled => item'[i] = item[i]
    BY <1>16 DEF Crash, Reset, Settled
  <2> QED
    BY <1>0, <2>1, <2>2, <2>3 DEF Coverage, Settled
<1>17. CASE UNCHANGED vars
  BY <1>0, <1>17 DEF Coverage, vars
<1> QED
  BY <1>1, <1>2, <1>3, <1>4, <1>5, <1>6, <1>7, <1>8, <1>9, <1>10, <1>11, <1>12, <1>13, <1>14,
     <1>15, <1>16, <1>17 DEF Next, Pass

-----------------------------------------------------------------------------
(* Conflicts, when lost requests are served at once or never *)

\* Worker w is not beyond the lookup when its own file is there already.
Clear(w) ==
    /\ worker[w].i > 0 /\ remote[worker[w].i] = "ours" =>
          worker[w].pc \in {"check", "open", "stat", "store"}
    /\ worker[w].pc = "refuse" =>
          remote[worker[w].i] \in {"same", "other"} \/ worker[w].i \in Blocked

\* Worker w changes only its own target, and records conflicts rightly.
LEMMA NoEchoKept ==
  ASSUME UInv, ~Late, RemoteKeeps, NEW w \in Workers, Moved(w, worker'[w]), late' = late,
         \A k \in Items : k # worker[w].i => remote'[k] = remote[k],
         Clear(w)',
         \A k \in Items : item'[k] = "conflict" =>
             item[k] = "conflict" \/ remote'[k] \in {"same", "other"} \/ k \in Blocked
  PROVE  NoEcho'
<1>0. TypeOK /\ Holding /\ NoEcho
  BY DEF UInv
<1>1. ASSUME NEW v \in Workers, v # w PROVE Clear(v)'
  <2>1. worker'[v] = worker[v]
    BY <1>1 DEF Moved
  <2>2. CASE worker[v].i = 0
    <3>1. worker[v].pc \in {"ended", "idle"}
      BY <1>0, <2>2 DEF Holding
    <3> QED
      BY <2>1, <2>2, <3>1 DEF Clear
  <2>3. CASE worker[v].i > 0
    <3>1. worker[v].i \in Items /\ worker[v].i # worker[w].i
      BY <1>0, <1>1, <2>3 DEF Holding, TypeOK, WorkerState, Items
    <3> QED
      BY <1>0, <2>1, <3>1 DEF Clear, NoEcho
  <2> QED
    BY <1>0, <2>2, <2>3, UploadAssumption DEF TypeOK, WorkerState
<1>2. \A v \in Workers : Clear(v)'
  BY <1>1
<1>3. \A k \in Items : item'[k] = "conflict" => remote'[k] \in {"same", "other"} \/ k \in Blocked
  BY <1>0 DEF NoEcho, RemoteKeeps
<1> QED
  BY <1>0, <1>2, <1>3 DEF NoEcho, Clear

\* A worker never mistakes its own file for a conflict (jobs.go 566-613).
LEMMA NoEchoWorker ==
  ASSUME UInv, ~Late, NEW w \in Workers, Step(w)
  PROVE  NoEcho'
<1>0. TypeOK /\ Holding /\ Results /\ NoEcho /\ RemoteKeeps
  BY RemoteStep DEF UInv, Next, Pass
<1>1. Clear(w)
  BY <1>0 DEF NoEcho, Clear
<1>2. ASSUME Moved(w, worker'[w]), late' = late, remote' = remote, Clear(w)',
             \A k \in Items : item'[k] = item[k] \/ item'[k] # "conflict"
      PROVE  NoEcho'
  BY <1>0, <1>2, NoEchoKept
<1>3. ASSUME worker'[w].pc \in {"ended", "idle"}, TypeOK', Holding' PROVE Clear(w)'
  BY <1>3 DEF Clear, Holding
<1>4. TypeOK' /\ Holding'
  BY TypeStep, HoldingStep DEF Next, Pass
<1>5. ASSUME NEW i \in Items, Take(w, i) PROVE NoEcho'
  <2>1. Moved(w, worker'[w]) /\ worker'[w].pc \in {"check", "ended"}
    BY <1>5, TakeFacts, IdleGone
  <2>2. Clear(w)'
    BY <1>3, <1>4, <2>1 DEF Clear
  <2> QED
    BY <1>2, <1>5, <2>1, <2>2 DEF Take
<1>6. CASE Leave(w)
  <2>1. Moved(w, worker'[w]) /\ worker'[w].pc = "ended"
    BY <1>6, LeaveFacts, IdleGone DEF Moved
  <2> QED
    BY <1>2, <1>3, <1>4, <1>6, <2>1 DEF Leave
<1>7. ASSUME Fails(w), late' = late, \A k \in Items : k # worker[w].i => remote'[k] = remote[k]
      PROVE  NoEcho'
  <2>1. Moved(w, worker'[w]) /\ worker'[w].pc = "ended" /\ item' = item
    BY <1>7, IdleGone DEF Fails, Moved
  <2>2. Clear(w)'
    BY <1>3, <1>4, <2>1
  <2> QED
    BY <1>0, <1>7, <2>1, <2>2, NoEchoKept
<1>8. CASE LoseSession(w) \/ \E kind \in {"retry", "stop"} : Error(w, kind)
  BY <1>7, <1>8, LoseSessionShape, ErrorShape DEF LoseSession, Error
<1>9. CASE Lose(w)
  BY <1>7, <1>9, LoseShape, LoseFacts
<1>10. CASE Check(w)
  BY <1>0, <1>2, <1>10, GoFacts DEF Check, WorkerPcs, Clear
<1>11. CASE OpenSource(w)
  <2>1. CASE Go(w, "stat") /\ item' = item
    BY <1>0, <1>2, <1>11, <2>1, GoFacts DEF OpenSource, WorkerPcs, Clear
  <2>2. CASE SetItem(worker[w].i, "failed") /\ worker' = [worker EXCEPT ![w] = Idle]
    <3>1. Moved(w, worker'[w]) /\ worker'[w].pc = "idle"
      BY <1>0, <2>2, IdleGone, MoveFacts DEF Moved
    <3>2. \A k \in Items : item'[k] = item[k] \/ item'[k] # "conflict"
      BY <1>0, <2>2 DEF SetItem, TypeOK
    <3> QED
      BY <1>2, <1>3, <1>4, <1>11, <3>1, <3>2 DEF OpenSource
  <2> QED
    BY <1>11, <2>1, <2>2 DEF OpenSource
<1>12. CASE Stat(w)
  <2>1. CASE ~Seen(worker[w].i) /\ Go(w, "dirs") /\ item' = item
    <3>1. Moved(w, worker'[w]) /\ worker'[w].i = worker[w].i /\ worker'[w].pc = "dirs"
      BY <1>0, <2>1, GoFacts DEF WorkerPcs
    <3>2. remote' = remote /\ late' = late
      BY <1>12 DEF Stat
    <3>3. Clear(w)'
      BY <2>1, <3>1, <3>2 DEF Clear, Seen
    <3> QED
      BY <1>2, <2>1, <3>1, <3>2, <3>3
  <2>2. CASE /\ Seen(worker[w].i) /\ SetItem(worker[w].i, Found(worker[w].i))
             /\ worker' = [worker EXCEPT ![w] = Idle]
    <3>1. Moved(w, worker'[w]) /\ worker'[w].pc = "idle"
      BY <1>0, <2>2, IdleGone, MoveFacts DEF Moved
    <3>2. worker[w].i \in Items /\ remote' = remote /\ late' = late
      BY <1>12, BusyFacts DEF Stat
    <3>3. \A k \in Items : item'[k] = "conflict" =>
              item[k] = "conflict" \/ remote'[k] \in {"same", "other"} \/ k \in Blocked
      <4>1. remote[worker[w].i] \in {"ours", "same", "other"}
        BY <1>0, <2>2, <3>2 DEF Seen, TypeOK, Contents, Results
      <4> QED
        BY <1>0, <2>2, <3>2, <4>1 DEF SetItem, Found, TypeOK
    <3>4. Clear(w)'
      BY <1>3, <1>4, <3>1
    <3> QED
      BY <1>0, <3>1, <3>2, <3>3, <3>4, NoEchoKept
  <2> QED
    BY <1>12, <2>1, <2>2 DEF Stat
<1>13. ASSUME NEW pc \in {"refuse", "mark", "put", "probe", "mkcol", "chunk", "move"},
              Goes(w), worker'[w].pc = pc,
              worker[w].pc \in {"dirs", "mark", "probe", "mkcol", "save", "keep"},
              pc = "refuse" => worker[w].i \in Blocked, remote' = remote
       PROVE  NoEcho'
  <2>1. /\ Moved(w, worker'[w]) /\ worker'[w].i = worker[w].i /\ late' = late
        /\ item' \in {item, [item EXCEPT ![worker[w].i] = "uploading"]}
    BY <1>13 DEF Goes
  <2>2. Clear(w)'
    BY <1>1, <1>13, <2>1 DEF Clear
  <2>3. \A k \in Items : item'[k] = item[k] \/ item'[k] # "conflict"
    BY <1>0, <2>1 DEF TypeOK
  <2> QED
    BY <1>2, <1>13, <2>1, <2>2, <2>3
<1>14. CASE EnsureDirectories(w)
  <2>1. CASE worker[w].i \in Blocked
    BY <1>0, <1>13, <1>14, <2>1, GoFacts, DirsShape DEF EnsureDirectories, WorkerPcs
  <2>2. CASE worker[w].i \notin Blocked
    BY <1>0, <1>13, <1>14, <2>2, GoFacts, DirsShape DEF EnsureDirectories, WorkerPcs
  <2> QED
    BY <2>1, <2>2
<1>15. CASE Mark(w)
  <2>1. worker'[w].pc \in {"put", "probe", "mkcol"}
    BY <1>0, <1>15, GoFacts DEF Mark, WorkerPcs
  <2> QED
    BY <1>13, <1>15, <2>1, MarkShape DEF Mark
<1>16. CASE Probe(w)
  BY <1>13, <1>16, ProbeFacts, ProbeShape DEF Probe
<1>17. CASE MakeSession(w) \/ SendChunk(w)
  <2>1. CASE Fails(w) /\ SendChunk(w)
    BY <1>7, <2>1, SendChunkFacts DEF SendChunk
  <2>2. CASE Goes(w) /\ ~Fails(w)
    <3>1. /\ Moved(w, worker'[w]) /\ worker'[w].i = worker[w].i
          /\ late' = late /\ item' = item /\ remote' = remote
          /\ worker[w].pc \in {"mkcol", "chunk"} /\ worker'[w].pc \in {"save", "keep"}
      BY <1>17, <2>2, FreshFacts, SendChunkFacts, FailShape DEF MakeSession, SendChunk, Busy
    <3>2. Clear(w)'
      BY <1>1, <3>1 DEF Clear
    <3> QED
      BY <1>2, <3>1, <3>2
  <2> QED
    BY <1>17, <2>1, <2>2, MakeShape, SendChunkShape, IdleGone DEF Goes, Fails, Moved
<1>18. CASE Save(w)
  <2>1. worker'[w].pc \in {"chunk", "move"}
    BY <1>0, <1>18, GoFacts DEF Save, WorkerPcs
  <2> QED
    BY <1>13, <1>18, <2>1, SaveShape DEF Save
<1>19. CASE SendMove(w) \/ SendPut(w)
  <2>0. /\ \A k \in Items : k # worker[w].i => remote'[k] = remote[k]
        /\ late' = late /\ item' = item /\ worker[w].i \in Items
        /\ worker[w].pc \in {"move", "put"}
    BY <1>19, SendMoveFacts, SendPutFacts, BusyFacts DEF SendMove, SendPut
  <2>1. CASE Go(w, "store") /\ remote'[worker[w].i] = "ours"
    <3>1. Moved(w, worker'[w]) /\ worker'[w].pc = "store"
      BY <1>0, <2>1, GoFacts DEF WorkerPcs
    <3>2. Clear(w)'
      BY <3>1 DEF Clear
    <3> QED
      BY <1>0, <2>0, <3>1, <3>2, NoEchoKept
  <2>2. CASE /\ Go(w, "refuse")
             /\ remote'[worker[w].i] = remote[worker[w].i] /\ remote[worker[w].i] # "none"
    <3>1. Moved(w, worker'[w]) /\ worker'[w].pc = "refuse" /\ worker'[w].i = worker[w].i
      BY <1>0, <2>2, GoFacts DEF WorkerPcs
    <3>2. remote[worker[w].i] \in {"same", "other"}
      <4>1. remote[worker[w].i] # "ours"
        BY <1>0, <1>1, <2>0 DEF Clear, Holding, TypeOK, WorkerState, Items
      <4> QED
        BY <1>0, <2>0, <2>2, <4>1 DEF TypeOK, Contents, Results
    <3>3. Clear(w)'
      BY <2>2, <3>1, <3>2 DEF Clear
    <3> QED
      BY <1>0, <2>0, <3>1, <3>3, NoEchoKept
  <2>3. CASE Fail(w, "stop") /\ SendMove(w)
    <3>1. Fails(w)
      BY <2>3, FailShape DEF SendMove, Busy
    <3> QED
      BY <1>7, <2>0, <3>1
  <2> QED
    BY <1>19, <2>1, <2>2, <2>3, SendMoveFacts, SendPutFacts
<1>20. CASE Store(w)
  <2>1. Moved(w, worker'[w]) /\ worker'[w].pc = "idle" /\ late' = late /\ remote' = remote
    BY <1>20, StoreShape, IdleGone DEF Rests, Moved
  <2>2. worker[w].i \in Items
    BY <1>20, BusyFacts DEF Store
  <2>3. \A k \in Items : item'[k] = "conflict" =>
            item[k] = "conflict" \/ remote'[k] \in {"same", "other"} \/ k \in Blocked
    BY <1>0, <1>1, <1>20, <2>1, <2>2 DEF Store, SetItem, Clear, TypeOK
  <2>4. Clear(w)'
    BY <1>3, <1>4, <2>1
  <2> QED
    BY <1>0, <2>1, <2>3, <2>4, NoEchoKept
<1> QED
  BY <1>5, <1>6, <1>8, <1>9, <1>10, <1>11, <1>12, <1>14, <1>15, <1>16, <1>17, <1>18, <1>19, <1>20
     DEF Step

\* Nor does anything else make one of it, when lost requests are never late.
LEMMA NoEchoStep ==
  ASSUME UInv, [Next]_vars, ~Late
  PROVE  NoEcho'
<1>0. TypeOK /\ NoEcho /\ RemoteKeeps
  BY RemoteStep DEF UInv
<1>1. CASE Claim \/ Crash
  <2>1. late' = late /\ remote' = remote /\ \A w \in Workers : worker'[w].i = 0 /\ worker'[w].pc # "refuse"
    BY <1>1, IdleGone DEF Claim, Crash
  <2>2. \A i \in Items : item'[i] = "conflict" => item[i] = "conflict"
    BY <1>1 DEF Claim, Crash, Reset
  <2> QED
    BY <1>0, <2>1, <2>2 DEF NoEcho
<1>2. ASSUME late' = late, remote' = remote, worker' = worker,
             \A i \in Items : item'[i] = "conflict" => item[i] = "conflict"
      PROVE  NoEcho'
  BY <1>0, <1>2 DEF NoEcho
<1>3. CASE Refused \/ Produce \/ Unread \/ Close \/ Drain \/ Wake \/ Resume \/ Retry \/ Shutdown
  BY <1>2, <1>3 DEF Refused, Produce, Unread, Close, Drain, Wake, Resume, Retry, Shutdown, Reset, Again
<1>4. ASSUME NEW w \in Workers, Step(w) PROVE NoEcho'
  BY <1>4, NoEchoWorker
<1>5. ASSUME NEW r \in late, Arrive(r) PROVE NoEcho'
  BY <1>0, <1>5 DEF NoEcho
<1>6. ASSUME NEW i \in Items, Expire(i) PROVE NoEcho'
  BY <1>2, <1>6 DEF Expire
<1>7. ASSUME NEW i \in Items, NEW what \in {"same", "other"}, Foreign(i, what) PROVE NoEcho'
  BY <1>0, <1>7 DEF Foreign, NoEcho, TypeOK
<1>8. ASSUME NEW to \in {"paused", "cancelled"}, Halt(to) PROVE NoEcho'
  BY <1>2, <1>8 DEF Halt
<1>9. CASE UNCHANGED vars
  BY <1>2, <1>9 DEF vars
<1> QED
  BY <1>1, <1>3, <1>4, <1>5, <1>6, <1>7, <1>8, <1>9 DEF Next, Pass

-----------------------------------------------------------------------------
(* The theorems *)

\* A job that was just confirmed satisfies the invariant.
LEMMA UInvInit == Init => UInv
<1> USE UploadAssumption
<1> SUFFICES ASSUME Init PROVE UInv
  OBVIOUS
<1>1. TypeOK
  <2>1. NoPass \in Passes /\ NoPass.pc = "none" /\ NoResume \in Resumes
    BY DEF NoPass, Passes, NoResume, Resumes
  <2>2. remote \in [Items -> Contents]
    BY DEF Init, Contents
  <2>3. item \in [Items -> ItemStates]
    BY DEF Init, ItemStates, Settled
  <2>4. [tok |-> 0, open |-> FALSE, have |-> {}] \in Sessions
    BY DEF Sessions
  <2>5. worker \in [Workers -> WorkerState] /\ \A w \in Workers : worker[w].pc = "ended"
    BY IdleGone DEF Init
  <2> QED
    BY <2>1, <2>2, <2>3, <2>4, <2>5 DEF Init, TypeOK, JobStates
<1>2. Holding
  BY IdleGone DEF Init, Holding, NoPass
<1>3. Knowledge
  BY IdleGone DEF Init, Knowledge, Informed, Covered, SessionIs, NoResume
<1>4. Results
  BY IdleGone DEF Init, Results
<1>5. Coverage
  BY DEF Init, Coverage, NoPass
<1>6. NoEcho
  BY IdleGone DEF Init, NoEcho
<1> QED
  BY <1>1, <1>2, <1>3, <1>4, <1>5, <1>6 DEF UInv

\* The invariant of the passes is inductive (transfer, jobs.go 440-548): it
\* holds in every reachable state, for any number of items, chunks and workers.
THEOREM PassInvariance == Spec => []UInv
<1>1. UInv /\ [Next]_vars => UInv'
  BY TypeStep, HoldingStep, KnowledgeStep, ResultsStep, CoverageStep, NoEchoStep DEF UInv
<1> QED
  BY <1>1, UInvInit, PTL DEF Spec

\* Every variable keeps its type, and a pass that is over leaves no worker and
\* nothing in the channel behind (jobs.go 509-511).
THEOREM PassTypeCorrect == Spec => []TypeOK
<1>1. UInv => TypeOK
  BY DEF UInv
<1> QED
  BY <1>1, PassInvariance, PTL

\* Only whole files appear on the server, whatever interrupts an upload and
\* whenever lost requests arrive (CreateFile, nextcloud.go 519-603).
THEOREM WholeUploads == Spec => []UploadsAreWhole
<1>1. UInv => UploadsAreWhole
  BY DEF UInv, Results, UploadsAreWhole
<1> QED
  BY <1>1, PassInvariance, PTL

\* A saved offset never runs ahead of the server (save, nextcloud.go 586-589).
THEOREM ResumeBehind == Spec => []ResumeIsBehindServer
<1>1. UInv => ResumeIsBehindServer
  BY DEF UInv, Knowledge, Covered, ResumeIsBehindServer
<1> QED
  BY <1>1, PassInvariance, PTL

\* What is recorded as stored is on the server (uploadItem, jobs.go 567-617).
THEOREM StoredOnServer == Spec => []SettledIsStored
<1>1. UInv => SettledIsStored
  BY DEF UInv, Results, SettledIsStored
<1> QED
  BY <1>1, PassInvariance, PTL

\* A finished job has a result for every item (jobs.go 538-547).
THEOREM EndedSettled == Spec => []EndedJobIsSettled
<1>1. UInv => EndedJobIsSettled
  BY DEF UInv, Coverage, EndedJobIsSettled
<1> QED
  BY <1>1, PassInvariance, PTL

\* An item is with one worker at a time (jobs.go 484-508).
THEOREM OneWorker == Spec => []OneWorkerPerItem
<1>1. UInv => OneWorkerPerItem
  BY DEF UInv, Holding, OneWorkerPerItem
<1> QED
  BY <1>1, PassInvariance, PTL

\* Unless lost requests are served late, a conflict is somebody else's file
\* (jobs.go 566-576 and 610-613).
THEOREM ConflictsAreForeign ==
  ASSUME ~Late
  PROVE  Spec => []ConflictIsForeign
<1>1. UInv => ConflictIsForeign
  BY DEF UInv, NoEcho, ConflictIsForeign
<1> QED
  BY <1>1, PassInvariance, PTL

\* No upload replaces what is at a target (nextcloud.go 504 and 593).
THEOREM NothingOverwritten == Spec => NothingIsOverwritten
<1>1. UInv /\ [Next]_vars => [\A i \in Items : remote[i] # "none" => remote'[i] = remote[i]]_remote
  BY RemoteStep DEF RemoteKeeps
<1> QED
  BY <1>1, PassInvariance, PTL DEF Spec, NothingIsOverwritten

\* The record of a stored file is never taken back (jobs.go 104-108 and 516).
THEOREM StoredStay == Spec => StoredStays
<1>1. ASSUME UInv, [Next]_vars
      PROVE  \A i \in Items : item[i] \in {"done", "existing"} => item'[i] = item[i]
  <2>0. TypeOK /\ Holding
    BY <1>1 DEF UInv
  <2>1. ASSUME NEW w \in Workers, Step(w)
        PROVE  \A i \in Items : item[i] \in {"done", "existing"} => item'[i] = item[i]
    <3>1. Busy(w) => item[worker[w].i] \in {"missing", "uploading"}
      BY <1>1, <2>0, <2>1, BusyFacts, UploadAssumption DEF Busy, Holding, Items
    <3>2. \/ item' = item
          \/ Busy(w) /\ \E st : item' = [item EXCEPT ![worker[w].i] = st]
      BY <1>1, <2>1, StepShape DEF Take, Leave, Goes, Rests, Fails
    <3> QED
      BY <2>0, <3>1, <3>2 DEF TypeOK
  <2>2. CASE item' = item
    BY <2>2
  <2>3. CASE Drain \/ Crash \/ Retry
    BY <2>3 DEF Drain, Crash, Retry, Reset, Again
  <2> QED
    BY <1>1, <2>1, <2>2, <2>3 DEF Next, Pass, vars, Claim, Refused, Produce, Unread, Close, Wake,
       Arrive, Expire, Foreign, Halt, Resume, Shutdown
<1>2. UInv /\ [Next]_vars
      => [\A i \in Items : item[i] \in {"done", "existing"} => item'[i] = item[i]]_item
  BY <1>1
<1> QED
  BY <1>2, PassInvariance, PTL DEF Spec, StoredStays
=============================================================================
