----------------------------- MODULE DocumentText -----------------------------
(***************************************************************************)
(* Where the text of a document comes from: the worker that reads the file *)
(* after an import and tries again what failed, and the OCR queue, a table *)
(* of jobs with one goroutine that works on them.  Requests put jobs in    *)
(* and wake the worker; documents go to the trash and away meanwhile; the  *)
(* process is stopped, or dies, and starts again.                          *)
(***************************************************************************)
EXTENDS Integers, Sequences, FiniteSets

CONSTANTS
    Docs,     \* ids of documents, a set of numbers: older ones are smaller
    Requests, \* goroutines that serve requests for OCR
    MaxJobs,  \* bound: jobs that are ever made
    MaxStops, \* bound: ends of the process
    MaxFaults, \* bound: writes of the OCR worker that the database refuses
    Batch,    \* ocrQueueBatchSize, postImportBatchSize
    Touched,  \* bound: documents that users move or have read by OCR
    Broken,   \* documents whose thumbnail cannot be made
    HasText,  \* documents whose file has text
    NoDoc

ASSUME TextAssumption ==
    /\ Docs \subseteq Nat /\ IsFiniteSet(Docs)
    /\ Touched \subseteq Docs /\ Broken \subseteq Docs /\ HasText \subseteq Docs
    /\ MaxJobs \in Nat /\ MaxStops \in Nat /\ MaxFaults \in Nat /\ Batch \in Nat \ {0}
    /\ NoDoc \notin Docs

VARIABLES
    place,    \* where a document is
    text,     \* documents.content_text_source
    pending,  \* documents.post_import_pending
    tried,    \* post_import_attempted_at: 0 is never, and the last attempt has the highest number
    status,   \* ocr_jobs.status of the jobs made so far
    docOf,    \* ocr_jobs.document_id
    process,  \* up, stopping or down
    stops,    \* how often it has ended
    faults,   \* how many writes the database has refused
    left,     \* history: jobs that run on because a write that should end them failed
    wake,     \* the wake channel of the OCR worker, which holds one signal
    request,  \* a request for OCR: what it has read or made
    ocr,      \* the OCR worker: where it is, its list of jobs
    post      \* the import worker: where it is, its list, whether something failed

table == <<status, docOf>>
rows == <<place, text, pending, tried>>
life == <<process, stops>>
failures == <<faults, left>>
vars == <<rows, table, life, failures, wake, request, ocr, post>>

Jobs == 1 .. Len(status)
Row(d) == place[d] \in {"active", "trash"}
ActiveJobs(d) == {j \in Jobs : docOf[j] = d /\ status[j] \in {"queued", "running"}}
Ended == {"completed", "failed", "interrupted"}
Stopping == process = "stopping"

\* The first entries of a sequence, as many as one query returns.
Limited(s) == IF Len(s) <= Batch THEN s ELSE SubSeq(s, 1, Batch)
\* The one list of a set of numbers that ORDER BY id gives.
Sorted(S) == {s \in [1 .. Cardinality(S) -> S] : \A i, j \in DOMAIN s : i < j => s[i] < s[j]}

Off == [at |-> "off", list |-> <<>>, end |-> "failed"]
PostOff == [at |-> "off", list |-> <<>>, failed |-> FALSE]
NoRequest == [at |-> "idle", doc |-> NoDoc]

Init ==
    /\ place = [d \in Docs |-> "new"]
    /\ text = [d \in Docs |-> "none"]
    /\ pending = [d \in Docs |-> FALSE]
    /\ tried = [d \in Docs |-> 0]
    /\ status = <<>> /\ docOf = <<>>
    /\ process = "up" /\ stops = 0
    /\ faults = 0 /\ left = {}
    /\ wake = FALSE
    /\ request = [r \in Requests |-> NoRequest]
    /\ ocr = [Off EXCEPT !.at = "boot"]
    /\ post = [PostOff EXCEPT !.at = "scan"]

-----------------------------------------------------------------------------
(* Documents                                                                *)

Import(d) ==
    /\ process = "up" /\ place[d] = "new"
    /\ place' = [place EXCEPT ![d] = "active"]
    /\ pending' = [pending EXCEPT ![d] = TRUE]
    \* PostProcessor.Enqueue wakes the worker
    /\ post' = IF post.at = "wait" THEN [post EXCEPT !.at = "scan"] ELSE post
    /\ UNCHANGED <<text, tried, table, life, failures, wake, request, ocr>>

Move(d, from, to) ==
    /\ process = "up" /\ place[d] = from
    /\ place' = [place EXCEPT ![d] = to]
    /\ UNCHANGED <<text, pending, tried, table, life, failures, wake, request, ocr, post>>

\* The jobs of a document go with its row.
Purge(d) ==
    /\ process = "up" /\ place[d] = "trash"
    /\ place' = [place EXCEPT ![d] = "gone"]
    /\ pending' = [pending EXCEPT ![d] = FALSE]
    /\ status' = [j \in Jobs |-> IF docOf[j] = d THEN "gone" ELSE status[j]]
    /\ UNCHANGED <<text, tried, docOf, life, failures, wake, request, ocr, post>>

-----------------------------------------------------------------------------
(* Requests for OCR: look at the document, make a job, wake the worker.     *)

SetRequest(r, at, d) == request' = [request EXCEPT ![r] = [at |-> at, doc |-> d]]

AskOCR(r, d) ==
    /\ process = "up" /\ request[r].at = "idle" /\ place[d] = "active"
    /\ SetRequest(r, "asked", d)
    /\ UNCHANGED <<rows, table, life, failures, wake, ocr, post>>

\* One transaction: no second job for a document that has one on its way.
EnqueueOCRJob(r) ==
    LET d == request[r].doc
    IN  /\ request[r].at = "asked"
        /\ IF ~Row(d) \/ ActiveJobs(d) # {} THEN SetRequest(r, "idle", NoDoc) /\ UNCHANGED table
           ELSE /\ Len(status) < MaxJobs
                /\ status' = Append(status, "queued")
                /\ docOf' = Append(docOf, d)
                /\ SetRequest(r, "made", d)
        /\ UNCHANGED <<rows, life, failures, wake, ocr, post>>

\* Variant: a worker that is not waiting does not get the signal.
Enqueue_OnlyWaiting(r) ==
    /\ request[r].at = "made"
    /\ wake' = (wake \/ ocr.at = "wait")
    /\ SetRequest(r, "idle", NoDoc)
    /\ UNCHANGED <<rows, table, life, failures, ocr, post>>

Enqueue(r) ==
    /\ request[r].at = "made"
    /\ wake' = TRUE
    /\ SetRequest(r, "idle", NoDoc)
    /\ UNCHANGED <<rows, table, life, failures, ocr, post>>

-----------------------------------------------------------------------------
(* The OCR worker                                                           *)

Worker(at, list) == ocr' = [ocr EXCEPT !.at = at, !.list = list]
This == ocr.list[1]
Job == docOf[This]
ToNext == IF Len(ocr.list) = 1 THEN Worker("scan", <<>>) ELSE Worker("fetch", Tail(ocr.list))
EndWith(end) == ocr' = [ocr EXCEPT !.at = "ending", !.end = end]

\* The database refuses a write; one that is bound to the process also fails
\* when it ends.
Refused == faults < MaxFaults /\ faults' = faults + 1
Fails == Refused \/ (Stopping /\ UNCHANGED faults)
\* What is to be written of the job is not: if it was running, it stays so.
Running == {j \in Jobs : status[j] = "running"}
Leave == left' = left \cup (Running \cap {This}) /\ UNCHANGED status

SetStatus(j, s) == status' = [status EXCEPT ![j] = IF @ = "gone" THEN @ ELSE s]

\* InterruptActiveOCRJobs: what an earlier process left, and what came since.
\* When it fails, the worker goes on with the queue as it is.
Boot ==
    /\ ocr.at = "boot"
    /\ \/ /\ status' = [j \in Jobs |-> IF status[j] \in {"queued", "running"} THEN "interrupted" ELSE status[j]]
          /\ left' = {} /\ UNCHANGED faults
       \/ Fails /\ left' = Running /\ UNCHANGED status
    /\ Worker("scan", <<>>)
    /\ UNCHANGED <<rows, docOf, life, wake, request, post>>

\* QueuedOCRJobIDs, and what the loop does with an empty list.
Scan ==
    LET queued == {j \in Jobs : status[j] = "queued"}
    IN  /\ ocr.at = "scan"
        /\ IF Stopping THEN Worker("off", <<>>)
           ELSE IF queued = {} THEN Worker("idle", <<>>)
           ELSE \E list \in Sorted(queued) : Worker("fetch", Limited(list))
        /\ UNCHANGED <<rows, table, life, failures, wake, request, post>>

\* Between its look at the queue and its wait the worker misses no signal.
Idle == /\ ocr.at = "idle" /\ Worker("wait", <<>>)
        /\ UNCHANGED <<rows, table, life, failures, wake, request, post>>

\* A signal, or the end.  The ticker, which would scan too, is not needed.
Wait ==
    /\ ocr.at = "wait"
    /\ \/ Stopping /\ Worker("off", <<>>) /\ UNCHANGED wake
       \/ wake /\ wake' = FALSE /\ Worker("scan", <<>>)
    /\ UNCHANGED <<rows, table, life, failures, request, post>>

Tick == /\ ocr.at = "wait" /\ Worker("scan", <<>>)
        /\ UNCHANGED <<rows, table, life, failures, wake, request, post>>

\* GetOCRJob and GetDocumentFile.
Fetch ==
    /\ ocr.at = "fetch"
    /\ \/ Stopping /\ Worker("off", <<>>)
       \/ status[This] = "gone" /\ ToNext
       \/ status[This] # "gone" /\ (Stopping \/ place[Job] # "active") /\ EndWith("failed")
       \/ status[This] # "gone" /\ place[Job] = "active" /\ Worker("start", ocr.list)
    /\ UNCHANGED <<rows, table, life, failures, wake, request, post>>

\* A job that cannot be started is passed over, and found again if it waits.
StartOCRJob ==
    /\ ocr.at = "start"
    /\ \/ /\ status[This] \in {"queued", "running"}
          /\ SetStatus(This, "running") /\ Worker("read", ocr.list)
          /\ UNCHANGED failures
       \/ /\ \/ status[This] \notin {"queued", "running"} /\ UNCHANGED <<status, failures>>
             \/ Fails /\ Leave
          /\ ToNext
    /\ UNCHANGED <<rows, docOf, life, wake, request, post>>

\* The engine ends: with text, with an error or late, or with the process.
\* It reports its progress to the job, which must be there.
Read ==
    /\ ocr.at = "read"
    /\ \/ status[This] = "running" /\ Worker("store", ocr.list)
       \/ EndWith("failed")
       \/ Stopping /\ EndWith("interrupted")
    /\ UNCHANGED <<rows, table, life, failures, wake, request, post>>

\* UpdateSearchText, also for a document that has gone to the trash.
Store ==
    /\ ocr.at = "store"
    /\ \/ /\ Row(Job) /\ text' = [text EXCEPT ![Job] = "ocr"]
          /\ Worker("complete", ocr.list) /\ UNCHANGED faults
       \/ /\ Fails \/ (~Row(Job) /\ UNCHANGED faults)
          /\ EndWith("failed") /\ UNCHANGED text
    /\ UNCHANGED <<place, pending, tried, table, life, left, wake, request, post>>

\* A completion that fails is only logged.
CompleteOCRJob ==
    /\ ocr.at = "complete"
    /\ \/ SetStatus(This, "completed") /\ UNCHANGED failures
       \/ Fails /\ Leave
    /\ ToNext
    /\ UNCHANGED <<rows, docOf, life, wake, request, post>>

\* Variant: the end of a job that failed is not written.
Finish_Forgets ==
    /\ ocr.at = "ending"
    /\ IF ocr.end = "failed" THEN UNCHANGED status ELSE SetStatus(This, ocr.end)
    /\ ToNext
    /\ UNCHANGED <<rows, docOf, life, failures, wake, request, post>>

\* FailOCRJob and InterruptOCRJob, which are not bound to the process; their
\* errors are dropped or logged.
Finish ==
    /\ ocr.at = "ending"
    /\ \/ SetStatus(This, ocr.end) /\ UNCHANGED failures
       \/ Refused /\ Leave
    /\ ToNext
    /\ UNCHANGED <<rows, docOf, life, wake, request, post>>

-----------------------------------------------------------------------------
(* The import worker                                                        *)

Importer(at, list, failed) == post' = [at |-> at, list |-> list, failed |-> failed]
Now == post.list[1]
PostOnly == UNCHANGED <<place, table, life, failures, wake, request, ocr>>

Pending == {d \in Docs : place[d] = "active" /\ pending[d]}

\* An attempt is later than all others, whose order stays.
Attempted(d) == [e \in Docs |-> IF e = d THEN Cardinality(Docs) ELSE IF tried[e] > tried[d] THEN tried[e] - 1 ELSE tried[e]]
\* Documents that were never tried come first, then by their last attempt.
Before(d, e) == tried[d] < tried[e] \/ (tried[d] = tried[e] /\ d < e)
Line == {s \in [1 .. Cardinality(Pending) -> Pending] : \A i, j \in DOMAIN s : i < j => Before(s[i], s[j])}

PostScan ==
    /\ post.at = "scan"
    /\ IF Stopping THEN Importer("off", <<>>, FALSE)
       ELSE IF Pending = {} THEN Importer("wait", <<>>, FALSE)
       ELSE \E list \in Line : Importer("mark", Limited(list), FALSE)
    /\ UNCHANGED <<text, pending, tried>> /\ PostOnly

PostWait ==
    /\ post.at = "wait"
    /\ Importer(IF Stopping THEN "off" ELSE "scan", <<>>, FALSE)
    /\ UNCHANGED <<text, pending, tried>> /\ PostOnly

\* The next document of the list; after a failure the loop waits.
PostNext(failed) ==
    IF Len(post.list) > 1 THEN Importer("mark", Tail(post.list), failed)
    ELSE Importer(IF failed THEN "wait" ELSE "scan", <<>>, FALSE)

\* Variant: a document is done before it is worked on.
MarkPostImportAttempted_Done ==
    /\ post.at = "mark"
    /\ \/ /\ Row(Now)
          /\ tried' = Attempted(Now)
          /\ pending' = [pending EXCEPT ![Now] = FALSE]
          /\ Importer("process", post.list, post.failed)
       \/ /\ ~Row(Now) \/ Stopping
          /\ PostNext(TRUE) /\ UNCHANGED <<tried, pending>>
    /\ UNCHANGED text /\ PostOnly

MarkPostImportAttempted ==
    /\ post.at = "mark"
    /\ \/ /\ Row(Now)
          /\ tried' = Attempted(Now)
          /\ Importer("process", post.list, post.failed)
       \/ /\ ~Row(Now) \/ Stopping
          /\ PostNext(TRUE) /\ UNCHANGED tried
    /\ UNCHANGED <<text, pending>> /\ PostOnly

\* Text from the file, if it has any, whatever there is; then the thumbnail.
Process ==
    /\ post.at = "process"
    /\ \/ /\ Row(Now)
          /\ text' = IF Now \in HasText THEN [text EXCEPT ![Now] = "file"] ELSE text
          /\ IF Now \in Broken THEN PostNext(TRUE) ELSE Importer("done", post.list, post.failed)
       \/ /\ ~Row(Now) \/ Stopping
          /\ PostNext(TRUE) /\ UNCHANGED text
    /\ UNCHANGED <<pending, tried>> /\ PostOnly

MarkPostImportComplete ==
    /\ post.at = "done"
    /\ \/ /\ Row(Now)
          /\ pending' = [pending EXCEPT ![Now] = FALSE]
          /\ PostNext(post.failed)
       \/ /\ ~Row(Now) \/ Stopping
          /\ PostNext(TRUE) /\ UNCHANGED pending
    /\ UNCHANGED <<text, tried>> /\ PostOnly

-----------------------------------------------------------------------------
(* The process                                                              *)

StopBackgroundJobs ==
    /\ process = "up" /\ stops < MaxStops
    /\ process' = "stopping"
    /\ UNCHANGED <<rows, table, stops, failures, wake, request, ocr, post>>

Down ==
    /\ process' = "down" /\ stops' = stops + 1
    /\ wake' = FALSE
    /\ request' = [r \in Requests |-> NoRequest]
    /\ ocr' = Off /\ post' = PostOff
    /\ UNCHANGED <<rows, table, failures>>

Shutdown == Stopping /\ ocr.at = "off" /\ post.at = "off" /\ Down
Crash == process # "down" /\ stops < MaxStops /\ Down

Start ==
    /\ process = "down"
    /\ process' = "up"
    /\ ocr' = [Off EXCEPT !.at = "boot"]
    /\ post' = [PostOff EXCEPT !.at = "scan"]
    /\ UNCHANGED <<rows, table, stops, failures, wake, request>>

OcrStep == \/ Boot \/ Scan \/ Idle \/ Wait \/ Fetch \/ StartOCRJob \/ Read \/ Store \/ CompleteOCRJob \/ Finish
PostStep == \/ PostScan \/ PostWait \/ MarkPostImportAttempted \/ Process \/ MarkPostImportComplete
RequestStep(r) == EnqueueOCRJob(r) \/ Enqueue(r)

Next ==
    \/ \E d \in Docs : Import(d)
    \/ \E d \in Touched : Move(d, "active", "trash") \/ Move(d, "trash", "active") \/ Purge(d)
    \/ \E r \in Requests : (\E d \in Touched : AskOCR(r, d)) \/ RequestStep(r)
    \/ OcrStep \/ Tick \/ PostStep
    \/ StopBackgroundJobs \/ Shutdown \/ Crash \/ Start

Spec == Init /\ [][Next]_vars

\* Goroutines get to run, the engine ends within its time limit, the ticker of
\* the import worker ticks, and a process that has ended is started again.
Fairness == /\ WF_vars(OcrStep) /\ WF_vars(PostStep) /\ WF_vars(Start) /\ WF_vars(Shutdown)
            /\ \A r \in Requests : WF_vars(RequestStep(r))

FairSpec == Spec /\ Fairness

-----------------------------------------------------------------------------
TypeOK ==
    /\ place \in [Docs -> {"new", "active", "trash", "gone"}]
    /\ text \in [Docs -> {"none", "file", "ocr"}]
    /\ pending \in [Docs -> BOOLEAN]
    /\ tried \in [Docs -> 0 .. Cardinality(Docs)]
    /\ status \in Seq(Ended \cup {"queued", "running", "gone"}) /\ docOf \in Seq(Docs)
    /\ Len(status) = Len(docOf)
    /\ process \in {"up", "stopping", "down"} /\ stops \in 0 .. MaxStops
    /\ faults \in 0 .. MaxFaults /\ left \subseteq Jobs
    /\ wake \in BOOLEAN
    /\ request \in [Requests -> [at : {"idle", "asked", "made"}, doc : Docs \cup {NoDoc}]]
    /\ ocr \in [at : {"off", "boot", "scan", "idle", "wait", "fetch", "start", "read", "store", "complete", "ending"},
                list : Seq(Nat), end : Ended]
    /\ post \in [at : {"off", "scan", "wait", "mark", "process", "done"}, list : Seq(Docs), failed : BOOLEAN]

AtJob == ocr.at \in {"fetch", "start", "read", "store", "complete", "ending"}
Open(j) == j \in Jobs /\ status[j] \in {"queued", "running"}

(* A job says that it is running while the worker is on it.  Otherwise the  *)
(* process is ending, or has ended and not yet cleaned up, or the database  *)
(* has refused the write that should have ended the job, or the clean-up:   *)
(* then it says so until a start that cleans up.                            *)
RunningIsWorkedOn ==
    \A j \in Running :
       \/ AtJob /\ This = j
       \/ process # "up" \/ ocr.at = "boot"
       \/ j \in left

(* Text that OCR found stays, once the import of the document is done: only *)
(* the retries of an import overwrite it, with the text of the file.        *)
OcrTextStays ==
    [][\A d \in Docs : text[d] = "ocr" /\ ~pending[d] => text'[d] = "ocr"]_vars

(* Every job gets an end, also when the process is killed while it runs, and*)
(* no signal to the worker is lost, though the channel holds only one; only *)
(* a job whose end the database has refused goes on without one.            *)
JobsEnd == \A j \in 1 .. MaxJobs : []<>(~Open(j) \/ j \in left)

(* A document that can be processed is, however often others fail before it.*)
ImportsEnd == \A d \in Docs \ Broken : []<>(~pending[d] \/ place[d] # "active")

(* Together: whatever both workers meet and whenever the process is killed, *)
(* what was asked of them is done in the end.                               *)
WorkIsDone == JobsEnd /\ ImportsEnd
=============================================================================
