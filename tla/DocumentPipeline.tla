-------------------------- MODULE DocumentPipeline --------------------------
(***************************************************************************)
(* The life of a document from upload to the search indexes: the API       *)
(* handlers that create and steer it (files.py, reindex.py,                *)
(* bulk_upload_service.py), the Celery workers that process it             *)
(* (tasks/document.py), the periodic sweep that picks up waiting documents *)
(* and the periodic task meant to fail stuck ones (tasks/maintenance.py).  *)
(*                                                                         *)
(* One document is one database row, named by its uuid.  A step of a       *)
(* worker ends where the code commits or where a slow call to the scanner, *)
(* the extractor, Elasticsearch or Qdrant returns: between two such points *)
(* every other actor may run.                                              *)
(***************************************************************************)
EXTENDS Integers, FiniteSets

CONSTANTS
    Documents,    \* uuids
    Workers,      \* Celery worker processes
    NoDoc,        \* the document of a worker that has none
    Textual,      \* documents whose file yields non-blank text
    Verdicts,     \* [Documents -> sets of verdicts the scanner may return]
    FailOnError,  \* settings.VIRUS_SCAN_FAIL_ON_ERROR
    SweepLimit,   \* process_pending_documents reads at most this many rows
    Requests,     \* kinds of user request the instance allows
    MaxRequests,  \* bound: user requests after the uploads
    MaxBroken,    \* bound: tasks that break off
    MaxOutages,   \* bound: publications the broker refuses
    MaxSweeps     \* bound: sweep messages waiting in the queue

RequestKinds == {"retry", "cancel", "reindex", "scan_all", "archive", "delete"}
ScanVerdicts == {"clean", "infected", "error", "skipped"}

ASSUME DocAssumption == NoDoc \notin Documents /\ Textual \subseteq Documents
ASSUME ScanAssumption == /\ Verdicts \in [Documents -> SUBSET ScanVerdicts]
                         /\ FailOnError \in BOOLEAN
ASSUME BoundAssumption == /\ Requests \subseteq RequestKinds
                          /\ SweepLimit \in Nat \ {0}
                          /\ {MaxRequests, MaxBroken, MaxOutages, MaxSweeps}
                                \subseteq Nat

VARIABLES
    row,      \* the documents table, as committed
    file,     \* documents whose bytes are on the local disk
    open,     \* the API transaction or background call outstanding on a row
    queue,    \* process_document messages, per document
    sweeps,   \* process_pending_documents messages
    es,       \* documents Elasticsearch holds
    qd,       \* documents Qdrant holds
    task,     \* what each worker is executing
    used,     \* user requests, broken tasks and broker refusals so far
    broken,
    outages

vars == <<row, file, open, queue, sweeps, es, qd, task, used, broken, outages>>
stores == <<es, qd>>
bounds == <<used, broken, outages>>

-----------------------------------------------------------------------------
(* Rows and tasks                                                          *)

Statuses == {"absent", "uploaded", "pending", "processing", "text_extracted",
             "indexed", "stored", "partially_indexed", "failed", "archived",
             "deleted"}

Errors == {"none", "cancelled", "other"}

\* elasticsearch_id and qdrant_id matter only as set or null.
Row == [status : Statuses, scan : ScanVerdicts \cup {"pending"},
        err : Errors, esId : BOOLEAN, qdId : BOOLEAN]

Fresh(s) == [status |-> s, scan |-> "pending", err |-> "none",
             esId |-> FALSE, qdId |-> FALSE]

\* Writes of the status columns; SetStatus leaves error_message alone.
Mark(d, s, e) == row' = [row EXCEPT ![d].status = s, ![d].err = e]
SetStatus(d, s) == Mark(d, s, row[d].err)

Exists(d) == row[d].status \notin {"absent", "deleted"}
Waiting == {d \in Documents : row[d].status \in {"pending", "uploaded"}}
Settled(d) == row[d].status \in {"indexed", "stored", "partially_indexed",
                                 "failed", "archived", "deleted"}

Steps == {"start", "scan", "verdict", "extract", "read", "es", "esCommit",
          "qd", "qdCommit", "final"}

Task == [pc : Steps \cup {"idle", "sweep", "publish"},
         doc : Documents \cup {NoDoc},
         verdict : ScanVerdicts \cup {"none"},
         esOk : BOOLEAN, qdOk : BOOLEAN, todo : SUBSET Documents]

Idle == [pc |-> "idle", doc |-> NoDoc, verdict |-> "none",
         esOk |-> FALSE, qdOk |-> FALSE, todo |-> {}]

TypeOK ==
    /\ row \in [Documents -> Row]
    /\ file \subseteq Documents
    /\ open \in [Documents -> {"none", "upload", "bulk", "retry", "retry_same"}]
    /\ queue \in [Documents -> Nat]
    /\ sweeps \in Nat
    /\ es \subseteq Documents
    /\ qd \subseteq Documents
    /\ task \in [Workers -> Task]
    /\ \A w \in Workers : task[w].pc \in Steps \cup {"publish"}
                             => task[w].doc \in Documents
    /\ used \in Nat /\ broken \in Nat /\ outages \in Nat

Init ==
    /\ row = [d \in Documents |-> Fresh("absent")]
    /\ file = {}
    /\ open = [d \in Documents |-> "none"]
    /\ queue = [d \in Documents |-> 0]
    /\ sweeps = 0
    /\ es = {} /\ qd = {}
    /\ task = [w \in Workers |-> Idle]
    /\ used = 0 /\ broken = 0 /\ outages = 0

-----------------------------------------------------------------------------
(* Publishing: .delay() adds a message, or raises while the broker is      *)
(* unreachable.                                                            *)

Publish(d) == queue' = [queue EXCEPT ![d] = @ + 1] /\ UNCHANGED outages

RefusePublish == /\ outages < MaxOutages
                 /\ outages' = outages + 1
                 /\ UNCHANGED queue

-----------------------------------------------------------------------------
(* API handlers                                                            *)

\* POST /upload: the row is flushed, the file written (locally, or only to
\* object storage when the local write fails) and the task published, all
\* before get_db commits.  A refused publication still commits the row.
UploadStage(d) ==
    /\ row[d].status = "absent" /\ open[d] = "none"
    /\ open' = [open EXCEPT ![d] = "upload"]
    /\ file' \in {file, file \cup {d}}
    /\ Publish(d) \/ RefusePublish
    /\ UNCHANGED <<row, sweeps, stores, task, used, broken>>

\* The commit of get_db after the handler; when it fails, or the request is
\* cancelled first, the row never becomes visible.
UploadCommit(d) ==
    /\ open[d] = "upload"
    /\ open' = [open EXCEPT ![d] = "none"]
    /\ row' \in {[row EXCEPT ![d] = Fresh(s)] : s \in {"uploaded", "deleted"}}
    /\ UNCHANGED <<file, queue, sweeps, stores, task, bounds>>

\* Bulk upload commits the row first and publishes from a background
\* asyncio task, which is not created when the refresh of the committed row
\* raises.
BulkUpload(d) ==
    /\ row[d].status = "absent" /\ open[d] = "none"
    /\ row' = [row EXCEPT ![d] = Fresh("pending")]
    /\ file' = file \cup {d}
    /\ open' \in {open, [open EXCEPT ![d] = "bulk"]}
    /\ UNCHANGED <<queue, sweeps, stores, task, bounds>>

\* A refused publication is only logged.
BulkPublish(d) ==
    /\ open[d] = "bulk"
    /\ open' = [open EXCEPT ![d] = "none"]
    /\ Publish(d) \/ RefusePublish
    /\ UNCHANGED <<row, file, sweeps, stores, task, used, broken>>

Request(kind) == /\ kind \in Requests
                 /\ used < MaxRequests
                 /\ used' = used + 1

\* POST /retry with the file on disk: publish, then commit.  The ORM sends
\* only changed columns, so a row loaded as "uploaded" is not written.
RetryStage(d) ==
    /\ Request("retry")
    /\ Exists(d) /\ open[d] = "none" /\ d \in file
    /\ open' = [open EXCEPT ![d] = IF row[d].status = "uploaded"
                                   THEN "retry_same" ELSE "retry"]
    /\ Publish(d)
    /\ UNCHANGED <<row, file, sweeps, stores, task, broken>>

\* Nothing is written when the commit fails, and it fails when the row has
\* been deleted since.
RetryCommit(d) ==
    /\ open[d] \in {"retry", "retry_same"}
    /\ open' = [open EXCEPT ![d] = "none"]
    /\ \/ Exists(d) /\ open[d] = "retry" /\ Mark(d, "uploaded", "none")
       \/ UNCHANGED row
    /\ UNCHANGED <<file, queue, sweeps, stores, task, bounds>>

\* POST /retry without the file: the handler marks the row failed and then
\* raises HTTPException, on which get_db rolls back.
RetryNoFile(d) ==
    /\ Request("retry")
    /\ Exists(d) /\ open[d] = "none" /\ d \notin file
    /\ UNCHANGED <<row, file, open, queue, sweeps, stores, task,
                   broken, outages>>

Cancel(d) ==
    /\ Request("cancel")
    /\ Exists(d)
    /\ Mark(d, "failed", "cancelled")
    /\ UNCHANGED <<file, open, queue, sweeps, stores, task, broken, outages>>

ReindexDocument(d) ==
    /\ Request("reindex")
    /\ Exists(d)
    /\ Publish(d)
    /\ UNCHANGED <<row, file, open, sweeps, stores, task, broken>>

\* One message for every row not marked clean; a refusal ends the handler,
\* the messages before it sent.
ScanAll ==
    /\ Request("scan_all")
    /\ LET unclean == {d \in Documents : Exists(d) /\ row[d].scan # "clean"}
       IN  \E sent \in SUBSET unclean :
              /\ queue' = [d \in Documents |-> IF d \in sent THEN queue[d] + 1
                                                            ELSE queue[d]]
              /\ IF sent = unclean THEN UNCHANGED outages
                 ELSE outages < MaxOutages /\ outages' = outages + 1
    /\ UNCHANGED <<row, file, open, sweeps, stores, task, broken>>

BulkArchive(d) ==
    /\ Request("archive")
    /\ Exists(d)
    /\ SetStatus(d, "archived")
    /\ UNCHANGED <<file, open, queue, sweeps, stores, task, broken, outages>>

\* POST /bulk-action "delete" removes the row only: the file and the index
\* entries stay.
BulkDelete(d) ==
    /\ Request("delete")
    /\ Exists(d)
    /\ row' = [row EXCEPT ![d] = Fresh("deleted")]
    /\ UNCHANGED <<file, open, queue, sweeps, stores, task, broken, outages>>

-----------------------------------------------------------------------------
(* process_document                                                        *)

At(w, pc) == task[w].pc = pc
Doc(w) == task[w].doc

Goto(w, pc) == task' = [task EXCEPT ![w].pc = pc]
Release(w) == task' = [task EXCEPT ![w] = Idle]

\* Mutant: the failure is returned but not committed.
FailUncommitted(d) == UNCHANGED row

Fail(d) == Mark(d, "failed", "other")

\* Mutant: the commit inserts the row again instead of raising.
RowGoneReinserted(w) ==
    /\ ~Exists(Doc(w))
    /\ Release(w)
    /\ row' = [row EXCEPT ![Doc(w)] = Fresh("failed")]

\* What every commit or refresh of a deleted row comes to: the exception
\* reaches the outer handler, whose own commit raises too, and the task ends
\* without having written.  (On a live row the same is BreakOff.)
RowGone(w) ==
    /\ ~Exists(Doc(w))
    /\ Release(w)
    /\ UNCHANGED row

\* Mutant: a worker runs a task for which there is no message.
TakeUnasked(w, d) ==
    /\ At(w, "idle")
    /\ queue' = [queue EXCEPT ![d] = @ - 1]
    /\ task' = [task EXCEPT ![w] = [Idle EXCEPT !.pc = "start", !.doc = d]]
    /\ UNCHANGED <<row, file, open, sweeps, stores, bounds>>

\* Messages are acknowledged when the worker takes them.
Take(w, d) ==
    /\ At(w, "idle") /\ queue[d] > 0
    /\ queue' = [queue EXCEPT ![d] = @ - 1]
    /\ task' = [task EXCEPT ![w] = [Idle EXCEPT !.pc = "start", !.doc = d]]
    /\ UNCHANGED <<row, file, open, sweeps, stores, bounds>>

\* The row is looked up once; its status is not looked at.
Begin(w) ==
    /\ At(w, "start")
    /\ \/ RowGone(w)
       \/ Exists(Doc(w)) /\ Doc(w) \notin file /\ Fail(Doc(w)) /\ Release(w)
       \/ /\ Exists(Doc(w)) /\ Doc(w) \in file
          /\ SetStatus(Doc(w), "processing")
          /\ Goto(w, "scan")
    /\ UNCHANGED <<file, open, queue, sweeps, stores, bounds>>

Scan(w) ==
    /\ At(w, "scan")
    /\ \/ RowGone(w)
       \/ /\ Exists(Doc(w))
          /\ \E v \in Verdicts[Doc(w)] :
                /\ row' = [row EXCEPT ![Doc(w)].scan = v]
                /\ task' = [task EXCEPT ![w].pc = "verdict", ![w].verdict = v]
    /\ UNCHANGED <<file, open, queue, sweeps, stores, bounds>>

\* Mutant: strict mode lets a file through that could not be scanned.
BlockedInfectedOnly(v) == v = "infected"

Blocked(v) == v = "infected" \/ (v = "error" /\ FailOnError)

ActOnVerdict(w) ==
    /\ At(w, "verdict")
    /\ \/ RowGone(w)
       \/ /\ Exists(Doc(w)) /\ Blocked(task[w].verdict)
          /\ Fail(Doc(w)) /\ Release(w)
       \/ /\ Exists(Doc(w)) /\ ~Blocked(task[w].verdict)
          /\ Goto(w, "extract") /\ UNCHANGED row
    /\ UNCHANGED <<file, open, queue, sweeps, stores, bounds>>

\* Failure is an unsuccessful extraction, an exception of the extractor, or
\* the step running past its hard limit.
Extract(w) ==
    /\ At(w, "extract")
    /\ \/ RowGone(w)
       \/ Exists(Doc(w)) /\ Fail(Doc(w)) /\ Release(w)
       \/ /\ Exists(Doc(w))
          /\ SetStatus(Doc(w), "text_extracted")
          /\ Goto(w, "read")
    /\ UNCHANGED <<file, open, queue, sweeps, stores, bounds>>

\* The metadata is read from the refreshed row.
ReadMetadata(w) ==
    /\ At(w, "read")
    /\ \/ RowGone(w)
       \/ Exists(Doc(w)) /\ Goto(w, "es") /\ UNCHANGED row
    /\ UNCHANGED <<file, open, queue, sweeps, stores, bounds>>

\* Mutant: a failed call is taken for a success.
IndexElasticsearchUnchecked(w) ==
    /\ At(w, "es")
    /\ es' \in {es, es \cup {Doc(w)}} /\ Goto(w, "esCommit")
    /\ UNCHANGED <<row, file, open, queue, sweeps, qd, bounds>>

\* No row is read before or during the call.  A failed call may have reached
\* the server all the same.
IndexElasticsearch(w) ==
    /\ At(w, "es")
    /\ \/ es' = es \cup {Doc(w)} /\ Goto(w, "esCommit")
       \/ es' \in {es, es \cup {Doc(w)}} /\ Goto(w, "qd")
    /\ UNCHANGED <<row, file, open, queue, sweeps, qd, bounds>>

CommitElasticsearch(w) ==
    /\ At(w, "esCommit")
    /\ \/ RowGone(w)
       \/ /\ Exists(Doc(w))
          /\ row' = [row EXCEPT ![Doc(w)].esId = TRUE]
          /\ task' = [task EXCEPT ![w].pc = "qd", ![w].esOk = TRUE]
    /\ UNCHANGED <<file, open, queue, sweeps, stores, bounds>>

\* A document without text has no vectors, which counts as success.
SkipQdrant(w) ==
    /\ At(w, "qd") /\ Doc(w) \notin Textual
    /\ \/ RowGone(w)
       \/ /\ Exists(Doc(w))
          /\ row' = [row EXCEPT ![Doc(w)].qdId = FALSE]
          /\ task' = [task EXCEPT ![w].pc = "final", ![w].qdOk = TRUE]
    /\ UNCHANGED <<file, open, queue, sweeps, stores, bounds>>

IndexQdrant(w) ==
    /\ At(w, "qd") /\ Doc(w) \in Textual
    /\ \/ qd' = qd \cup {Doc(w)} /\ Goto(w, "qdCommit")
       \/ qd' \in {qd, qd \cup {Doc(w)}} /\ Goto(w, "final")
    /\ UNCHANGED <<row, file, open, queue, sweeps, es, bounds>>

CommitQdrant(w) ==
    /\ At(w, "qdCommit")
    /\ \/ RowGone(w)
       \/ /\ Exists(Doc(w))
          /\ row' = [row EXCEPT ![Doc(w)].qdId = TRUE]
          /\ task' = [task EXCEPT ![w].pc = "final", ![w].qdOk = TRUE]
    /\ UNCHANGED <<file, open, queue, sweeps, stores, bounds>>

\* Mutant: one success is enough.
OutcomeEither(w) ==
    IF task[w].esOk \/ task[w].qdOk
    THEN IF Doc(w) \in Textual THEN "indexed" ELSE "stored"
    ELSE "failed"

\* The status follows from this run's two outcomes alone; a status another
\* actor wrote meanwhile is overwritten.
Outcome(w) ==
    CASE task[w].esOk /\ task[w].qdOk ->
            IF Doc(w) \in Textual THEN "indexed" ELSE "stored"
      [] task[w].esOk # task[w].qdOk -> "partially_indexed"
      [] OTHER -> "failed"

Settle(w) ==
    /\ At(w, "final")
    /\ \/ RowGone(w)
       \/ /\ Exists(Doc(w))
          /\ IF task[w].esOk /\ task[w].qdOk
             THEN SetStatus(Doc(w), Outcome(w))
             ELSE Mark(Doc(w), Outcome(w), "other")
          /\ Release(w)
    /\ UNCHANGED <<file, open, queue, sweeps, stores, bounds>>

-----------------------------------------------------------------------------
(* Periodic tasks                                                          *)

BeatTick ==
    /\ sweeps < MaxSweeps
    /\ sweeps' = sweeps + 1
    /\ UNCHANGED <<row, file, open, queue, stores, task, bounds>>

\* What the query of process_pending_documents may return: the waiting rows,
\* or as many of them as its limit, in no particular order.
AtLimit(rows) ==
    {list \in SUBSET rows : Cardinality(list) <= SweepLimit
                            /\ (list = rows \/ Cardinality(list) = SweepLimit)}

\* Mutant: the legacy status "uploaded" is no longer picked up.
ListedPendingOnly == AtLimit({d \in Documents : row[d].status = "pending"})

Listed == AtLimit(Waiting)

\* process_pending_documents reads its list once.
StartSweep(w) ==
    /\ At(w, "idle") /\ sweeps > 0
    /\ sweeps' = sweeps - 1
    /\ \E list \in Listed :
          IF list = {} THEN UNCHANGED task
          ELSE task' = [task EXCEPT ![w] = [Idle EXCEPT !.pc = "sweep",
                                                       !.todo = list]]
    /\ UNCHANGED <<row, file, open, queue, stores, bounds>>

\* Mutant: the whole list is flipped before the first task is published.
SweepFlipAll(w, d) ==
    /\ At(w, "sweep") /\ d \in task[w].todo
    /\ row' = [x \in Documents |-> IF Exists(x) /\ x \in task[w].todo
                                   THEN [row[x] EXCEPT !.status = "processing"]
                                   ELSE row[x]]
    /\ task' = [task EXCEPT ![w] = [Idle EXCEPT !.pc = "publish", !.doc = d,
                                       !.todo = task[w].todo \ {d}]]
    /\ UNCHANGED <<file, open, queue, sweeps, stores, bounds>>

\* Flip and commit one listed row; the list is not checked again.  A row
\* deleted meanwhile makes the commit raise and ends the sweep (so does any
\* other refusal of the database: BreakOff).
SweepFlip(w, d) ==
    /\ At(w, "sweep") /\ d \in task[w].todo
    /\ \/ ~Exists(d) /\ Release(w) /\ UNCHANGED row
       \/ /\ Exists(d)
          /\ SetStatus(d, "processing")
          /\ task' = [task EXCEPT ![w] = [Idle EXCEPT !.pc = "publish", !.doc = d,
                                             !.todo = task[w].todo \ {d}]]
    /\ UNCHANGED <<file, open, queue, sweeps, stores, bounds>>

\* A refused publication ends the sweep, the row already flipped.
SweepPublish(w) ==
    /\ At(w, "publish")
    /\ \/ ~Exists(Doc(w)) /\ Release(w) /\ UNCHANGED <<queue, outages>>
       \/ /\ Exists(Doc(w)) /\ Publish(Doc(w))
          /\ IF task[w].todo = {} THEN Release(w)
             ELSE task' = [task EXCEPT ![w] = [Idle EXCEPT !.pc = "sweep",
                                                           !.todo = task[w].todo]]
       \/ Exists(Doc(w)) /\ RefusePublish /\ Release(w)
    /\ UNCHANGED <<row, file, open, sweeps, stores, used, broken>>

\* fail_stuck_documents: with any row to look at, the comparison of the
\* timezone-aware updated_at with the naive cutoff raises, and nothing is
\* committed.
FailStuckDocuments ==
    /\ \E d \in Documents : row[d].status \in {"uploaded", "processing"}
    /\ UNCHANGED vars

\* A task ends where it is, the rows as committed so far.  Either its pool
\* process is killed (task_time_limit, out of memory, restart), its message
\* acknowledged and not delivered again.  Or the database refuses a statement
\* or a commit on a live row (a NUL in the extracted text, a lost connection):
\* the outer handler of process_document commits again on the session nobody
\* rolled back, which raises too, so the row is not marked failed.  A commit
\* that took effect although it raised is the step itself and then this one; a
\* COMMIT refused inside the try around the call to Elasticsearch, where the
\* run goes on to Qdrant on the lost session, is a call that failed after
\* reaching the server, the call to Qdrant, and then this.
BreakOff(w) ==
    /\ ~At(w, "idle")
    /\ broken < MaxBroken
    /\ broken' = broken + 1
    /\ Release(w)
    /\ UNCHANGED <<row, file, open, queue, sweeps, stores, used, outages>>

-----------------------------------------------------------------------------
ProcessStep(w) ==
    \/ Begin(w) \/ Scan(w) \/ ActOnVerdict(w) \/ Extract(w) \/ ReadMetadata(w)
    \/ IndexElasticsearch(w) \/ CommitElasticsearch(w)
    \/ SkipQdrant(w) \/ IndexQdrant(w) \/ CommitQdrant(w) \/ Settle(w)

SweepStep(w) == SweepPublish(w) \/ \E d \in Documents : SweepFlip(w, d)

ApiFinish(d) == UploadCommit(d) \/ BulkPublish(d) \/ RetryCommit(d)

ApiRequest(d) ==
    \/ UploadStage(d) \/ BulkUpload(d) \/ RetryStage(d) \/ RetryNoFile(d)
    \/ Cancel(d) \/ ReindexDocument(d) \/ BulkArchive(d) \/ BulkDelete(d)

Next ==
    \/ \E d \in Documents : ApiRequest(d) \/ ApiFinish(d)
    \/ ScanAll
    \/ \E w \in Workers, d \in Documents : Take(w, d)
    \/ \E w \in Workers :
          ProcessStep(w) \/ StartSweep(w) \/ SweepStep(w) \/ BreakOff(w)
    \/ BeatTick
    \/ FailStuckDocuments

Spec == Init /\ [][Next]_vars

\* A live worker goes on with its task, an API call ends, beat keeps
\* ticking, and the queues are first in first out, so that no message waits
\* for ever while workers are free again and again.
Fairness ==
    /\ \A w \in Workers : WF_vars(ProcessStep(w) \/ SweepStep(w))
    /\ \A d \in Documents : WF_vars(ApiFinish(d))
    /\ \A d \in Documents : SF_vars(\E w \in Workers : Take(w, d))
    /\ SF_vars(\E w \in Workers : StartSweep(w))
    /\ WF_vars(BeatTick)

FairSpec == Spec /\ Fairness

-----------------------------------------------------------------------------
(* Safety                                                                  *)

\* A recorded elasticsearch_id or qdrant_id points at an entry the store
\* holds: the id is committed after the store answered, and no interleaving
\* of runs leaves one behind.
IdsBacked ==
    \A d \in Documents : /\ row[d].esId => d \in es
                         /\ row[d].qdId => d \in qd

\* Final statuses tell the truth about the search indexes, whatever runs,
\* retries and cancellations overlapped: "indexed" documents are found by
\* both engines and carry both ids, "stored" ones by Elasticsearch, and a
\* partially indexed text by at least one.  (The query of reindex_all_broken,
\* indexed rows that lack an id, therefore finds nothing.)
FinalStatusTruthful ==
    \A d \in Documents :
        /\ row[d].status = "indexed" => /\ d \in es \cap qd
                                        /\ row[d].esId /\ row[d].qdId
        /\ row[d].status = "stored" => d \in es /\ row[d].esId
        /\ row[d].status = "partially_indexed" /\ d \in Textual
              => d \in es \cup qd

\* In strict mode a file on which the scanner never gives a good verdict
\* reaches no search index, through retries, reindexing, duplicate runs and
\* broken tasks.
TaintedNeverSearchable ==
    FailOnError => \A d \in Documents :
                      Verdicts[d] \subseteq {"infected", "error"}
                         => d \notin es \cup qd

\* Somebody is still responsible for d: a message, a run, or a sweep about
\* to publish it.
Carried(d) ==
    \/ queue[d] > 0
    \/ \E w \in Workers : Doc(w) = d /\ task[w].pc \in Steps \cup {"publish"}

\* A document that has been picked up and has no final status is carried by
\* someone, as long as no worker was killed, no statement of a task was
\* refused by the database and no message by the broker.
NotForgotten ==
    broken = 0 /\ outages = 0 =>
        \A d \in Documents :
            Exists(d) /\ ~Settled(d) /\ d \notin Waiting => Carried(d)

\* A deleted row never comes back: a run that still holds the object cannot
\* write it into the table again.
RemovedStaysRemoved ==
    [][\A d \in Documents :
          row[d].status = "deleted" => row'[d].status = "deleted"]_vars

-----------------------------------------------------------------------------
(* Liveness                                                                *)

\* Every document reaches a final status, also when its message overtook the
\* commit of its row or was never published, unless a worker is killed, the
\* database refuses a statement of a task or the broker a message.
EveryDocumentSettles ==
    \A d \in Documents : Exists(d) ~> Settled(d) \/ broken + outages > 0

\* Also with tasks that break off and refusals, a waiting document is still picked up.
WaitingIsPickedUp ==
    \A d \in Documents : d \in Waiting ~> d \notin Waiting

-----------------------------------------------------------------------------
(* What docstrings and comments say                                        *)

\* tasks/document.py:494: the sweep flips the status "to avoid duplicate task
\* enqueues".
NoDuplicateTasks ==
    \A d \in Documents :
        queue[d] + Cardinality({w \in Workers : Doc(w) = d}) <= 1

\* files.py:897: cancelling marks the document failed; nothing but a new
\* request moves it on.
CancelledStaysFailed ==
    [][\A d \in Documents :
          row[d].status = "failed" /\ row[d].err = "cancelled"
             => row'[d].status \in {"failed", "uploaded", "archived",
                                    "deleted"}]_vars

\* files.py:851: the failed status of a retry without a file is committed.
RetryWithoutFileFails ==
    [][\A d \in Documents : RetryNoFile(d) => row'[d].status = "failed"]_vars

\* tasks/maintenance.py:33: documents stuck in uploaded or processing are
\* marked failed in the end.
StuckIsFailed ==
    \A d \in Documents :
        row[d].status \in {"uploaded", "processing"}
           ~> row[d].status \notin {"uploaded", "processing"}
=============================================================================
