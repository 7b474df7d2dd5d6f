----------------------- MODULE DocumentPipelineProofs -----------------------
(***************************************************************************)
(* Theorems about DocumentPipeline and AtomicDeletion, for any documents,  *)
(* workers, scanner verdicts, deletions, faults and bounds.                *)
(*                                                                         *)
(* First what each form of assignment leaves behind.  The properties of    *)
(* the pipeline are consequences of Inv, which says in addition what a     *)
(* worker in the middle of a run has already achieved; Kept is what every  *)
(* step does to the rows.  Then the two modules together: a removed row    *)
(* has no file.  Then who carries a document that has no final status yet, *)
(* and last what deletions owe the documents they give up on.              *)
(***************************************************************************)
EXTENDS AtomicDeletion, TLAPS

-----------------------------------------------------------------------------
(* Rows and workers                                                        *)

\* Row d, and no other, has got status s; its ids are as they were.
RowMarked(d, s) ==
    /\ row' \in [Documents -> Row]
    /\ \A x \in Documents \ {d} : row'[x] = row[x]
    /\ row'[d].status = s
    /\ row'[d].esId = row[d].esId /\ row'[d].qdId = row[d].qdId

\* No worker but w has changed.
OnlyTask(w) == /\ task' \in [Workers -> Task]
               /\ \A x \in Workers \ {w} : task'[x] = task[x]

\* Worker w has gone on to step p of its run.
Moved(w, p) ==
    /\ OnlyTask(w)
    /\ task'[w].pc = p
    /\ task'[w].doc = task[w].doc
    /\ task'[w].esOk = task[w].esOk /\ task'[w].qdOk = task[w].qdOk
    /\ task'[w].verdict = task[w].verdict

USE DEF RowMarked, OnlyTask, Moved

\* A status write: the row stays typed, the ids and the other rows as they
\* were.
LEMMA MarkEffect ==
    ASSUME row \in [Documents -> Row], NEW d \in Documents,
           NEW s \in Statuses, NEW e \in Errors, Mark(d, s, e)
    PROVE  RowMarked(d, s)
  BY DEF Mark, Row

\* The same of a status write that leaves error_message alone.
LEMMA SetStatusEffect ==
    ASSUME row \in [Documents -> Row], NEW d \in Documents,
           NEW s \in Statuses, SetStatus(d, s)
    PROVE  RowMarked(d, s)
  <1>1. row[d].err \in Errors
    BY DEF Row
  <1>2. Mark(d, s, row[d].err)
    BY DEF SetStatus
  <1> QED
    BY <1>1, <1>2, MarkEffect

\* A failed run marks its row and nothing else.
LEMMA FailEffect ==
    ASSUME row \in [Documents -> Row], NEW d \in Documents, Fail(d)
    PROVE  RowMarked(d, "failed")
  <1>1. "failed" \in Statuses /\ "other" \in Errors
    BY DEF Statuses, Errors
  <1> QED
    BY <1>1, MarkEffect DEF Fail

\* A row inserted or removed.
LEMMA FreshEffect ==
    ASSUME row \in [Documents -> Row], NEW d \in Documents, NEW s \in Statuses,
           row' = [row EXCEPT ![d] = Fresh(s)]
    PROVE  /\ row' \in [Documents -> Row]
           /\ \A x \in Documents \ {d} : row'[x] = row[x]
           /\ row'[d].status = s /\ ~row'[d].esId /\ ~row'[d].qdId
  BY DEF Fresh, Row, Errors

\* A move of a worker within its run changes its program counter alone.
LEMMA GotoEffect ==
    ASSUME task \in [Workers -> Task], NEW w \in Workers, NEW p \in Steps,
           Goto(w, p)
    PROVE  Moved(w, p)
  BY DEF Goto, Task

\* A worker that has finished is idle.
LEMMA ReleaseEffect ==
    ASSUME task \in [Workers -> Task], NEW w \in Workers, Release(w)
    PROVE  /\ OnlyTask(w)
           /\ task'[w].pc = "idle"
  BY DEF Release, Task, Idle

\* One worker is written.
LEMMA TaskWritten ==
    ASSUME task \in [Workers -> Task], NEW w \in Workers, NEW new \in Task,
           task' = [task EXCEPT ![w] = new]
    PROVE  OnlyTask(w) /\ task'[w] = new
  OBVIOUS

\* A worker remembers the scanner's verdict.
LEMMA VerdictEffect ==
    ASSUME task \in [Workers -> Task], NEW w \in Workers, NEW p \in Steps, NEW v \in ScanVerdicts,
           task' = [task EXCEPT ![w].pc = p, ![w].verdict = v]
    PROVE  /\ OnlyTask(w)
           /\ task'[w].pc = p /\ task'[w].doc = task[w].doc
           /\ task'[w].verdict = v
           /\ task'[w].esOk = task[w].esOk /\ task'[w].qdOk = task[w].qdOk
<1> DEFINE new == [task[w] EXCEPT !.pc = p, !.verdict = v]
<1>1. task' = [task EXCEPT ![w] = new] /\ task[w] \in Task
  OBVIOUS
<1>2. new \in Task /\ new.pc = p /\ new.doc = task[w].doc
  BY <1>1 DEF Task
<1>3. new.verdict = v /\ new.esOk = task[w].esOk /\ new.qdOk = task[w].qdOk
  BY <1>1 DEF Task
<1> HIDE DEF new
<1>4. OnlyTask(w) /\ task'[w] = new
  BY <1>1, <1>2, TaskWritten, Zenon
<1> QED
  BY <1>2, <1>3, <1>4, Zenon

\* A worker remembers that Elasticsearch has the document.
LEMMA EsOkEffect ==
    ASSUME task \in [Workers -> Task], NEW w \in Workers, NEW p \in Steps,
           task' = [task EXCEPT ![w].pc = p, ![w].esOk = TRUE]
    PROVE  /\ OnlyTask(w)
           /\ task'[w].pc = p /\ task'[w].doc = task[w].doc
           /\ task'[w].esOk /\ task'[w].qdOk = task[w].qdOk
           /\ task'[w].verdict = task[w].verdict
<1> DEFINE new == [task[w] EXCEPT !.pc = p, !.esOk = TRUE]
<1>1. task' = [task EXCEPT ![w] = new] /\ task[w] \in Task
  OBVIOUS
<1>2. new \in Task /\ new.pc = p /\ new.doc = task[w].doc
  BY <1>1 DEF Task
<1>3. new.esOk /\ new.qdOk = task[w].qdOk /\ new.verdict = task[w].verdict
  BY <1>1 DEF Task
<1> HIDE DEF new
<1>4. OnlyTask(w) /\ task'[w] = new
  BY <1>1, <1>2, TaskWritten, Zenon
<1> QED
  BY <1>2, <1>3, <1>4, Zenon

\* A worker remembers that Qdrant has the document, or need not have it.
LEMMA QdOkEffect ==
    ASSUME task \in [Workers -> Task], NEW w \in Workers, NEW p \in Steps,
           task' = [task EXCEPT ![w].pc = p, ![w].qdOk = TRUE]
    PROVE  /\ OnlyTask(w)
           /\ task'[w].pc = p /\ task'[w].doc = task[w].doc
           /\ task'[w].qdOk /\ task'[w].esOk = task[w].esOk
           /\ task'[w].verdict = task[w].verdict
<1> DEFINE new == [task[w] EXCEPT !.pc = p, !.qdOk = TRUE]
<1>1. task' = [task EXCEPT ![w] = new] /\ task[w] \in Task
  OBVIOUS
<1>2. new \in Task /\ new.pc = p /\ new.doc = task[w].doc
  BY <1>1 DEF Task
<1>3. new.qdOk /\ new.esOk = task[w].esOk /\ new.verdict = task[w].verdict
  BY <1>1 DEF Task
<1> HIDE DEF new
<1>4. OnlyTask(w) /\ task'[w] = new
  BY <1>1, <1>2, TaskWritten, Zenon
<1> QED
  BY <1>2, <1>3, <1>4, Zenon

\* A run starts with nothing remembered.
LEMMA TakeEffect ==
    ASSUME task \in [Workers -> Task], NEW w \in Workers, NEW d \in Documents,
           task' = [task EXCEPT ![w] = [Idle EXCEPT !.pc = "start", !.doc = d]]
    PROVE  /\ OnlyTask(w)
           /\ task'[w].pc = "start" /\ task'[w].doc = d
           /\ ~task'[w].esOk /\ ~task'[w].qdOk
  BY DEF Task, Idle, Steps

\* A sweep starts with the list it read, and goes on with what is left of it.
LEMMA ListEffect ==
    ASSUME task \in [Workers -> Task], NEW w \in Workers, NEW list \in SUBSET Documents,
           task' = [task EXCEPT ![w] = [Idle EXCEPT !.pc = "sweep", !.todo = list]]
    PROVE  /\ OnlyTask(w)
           /\ task'[w].pc = "sweep"
  BY DEF Task, Idle, Steps

\* A sweep goes from flipping a row to publishing it.
LEMMA FlipEffect ==
    ASSUME task \in [Workers -> Task], NEW w \in Workers, NEW d \in Documents,
           NEW rest \in SUBSET Documents,
           task' = [task EXCEPT ![w] = [Idle EXCEPT !.pc = "publish", !.doc = d,
                                              !.todo = rest]]
    PROVE  /\ OnlyTask(w)
           /\ task'[w].pc = "publish" /\ task'[w].doc = d
  BY DEF Task, Idle, Steps

\* elasticsearch_id is written alone.
LEMMA EsIdEffect ==
    ASSUME row \in [Documents -> Row], NEW d \in Documents, NEW b \in BOOLEAN,
           row' = [row EXCEPT ![d].esId = b]
    PROVE  /\ row' \in [Documents -> Row]
           /\ \A x \in Documents \ {d} : row'[x] = row[x]
           /\ row'[d].esId = b /\ row'[d].status = row[d].status
           /\ row'[d].qdId = row[d].qdId
  BY DEF Row

\* qdrant_id is written alone.
LEMMA QdIdEffect ==
    ASSUME row \in [Documents -> Row], NEW d \in Documents, NEW b \in BOOLEAN,
           row' = [row EXCEPT ![d].qdId = b]
    PROVE  /\ row' \in [Documents -> Row]
           /\ \A x \in Documents \ {d} : row'[x] = row[x]
           /\ row'[d].qdId = b /\ row'[d].status = row[d].status
           /\ row'[d].esId = row[d].esId
  BY DEF Row

\* The verdict is written alone.
LEMMA ScanEffect ==
    ASSUME row \in [Documents -> Row], NEW d \in Documents, NEW v \in ScanVerdicts,
           row' = [row EXCEPT ![d].scan = v]
    PROVE  /\ row' \in [Documents -> Row]
           /\ \A x \in Documents \ {d} : row'[x] = row[x]
           /\ row'[d].scan = v /\ row'[d].status = row[d].status
           /\ row'[d].esId = row[d].esId /\ row'[d].qdId = row[d].qdId
  BY DEF Row

\* The verdicts, statuses and steps that the actions write.
LEMMA Literals ==
    /\ {"absent", "uploaded", "pending", "processing", "text_extracted", "indexed",
        "stored", "partially_indexed", "failed", "archived", "deleted"}
          \subseteq Statuses
    /\ {"none", "cancelled", "other"} \subseteq Errors
    /\ {"start", "scan", "verdict", "extract", "read", "es", "esCommit", "qd",
        "qdCommit", "final"} \subseteq Steps
    /\ "idle" \notin Steps /\ "sweep" \notin Steps /\ "publish" \notin Steps
  BY DEF Statuses, Errors, Steps

\* The scanner returns verdicts.
LEMMA VerdictType ==
    ASSUME NEW d \in Documents, NEW v \in Verdicts[d] PROVE v \in ScanVerdicts
  BY ScanAssumption

\* A run ends with one of four statuses.
LEMMA OutcomeType ==
    ASSUME NEW w \in Workers
    PROVE  Outcome(w) \in {"indexed", "stored", "partially_indexed", "failed"}
  BY DEF Outcome

\* and claims no success it did not have.
LEMMA OutcomeMeaning ==
    ASSUME NEW w \in Workers, task[w].esOk \in BOOLEAN, task[w].qdOk \in BOOLEAN
    PROVE  /\ Outcome(w) = "indexed"
                => task[w].esOk /\ task[w].qdOk /\ task[w].doc \in Textual
           /\ Outcome(w) = "stored" => task[w].esOk /\ task[w].doc \notin Textual
           /\ Outcome(w) = "partially_indexed" => task[w].esOk \/ task[w].qdOk
<1>1. CASE task[w].esOk /\ task[w].qdOk
  BY <1>1 DEF Outcome, Doc
<1>2. CASE ~(task[w].esOk /\ task[w].qdOk)
  BY <1>2 DEF Outcome, Doc
<1> QED
  BY <1>1, <1>2

-----------------------------------------------------------------------------
(* The inductive invariant                                                 *)

\* The final statuses in terms of a row r of d alone.
StatusRecorded(d, r) ==
    /\ r.status = "indexed" => d \in Textual /\ r.esId /\ r.qdId
    /\ r.status = "stored" => d \notin Textual /\ r.esId
    /\ r.status = "partially_indexed" /\ d \in Textual => r.esId \/ r.qdId

\* A document strict mode must keep out of the indexes.
Tainted(d) == FailOnError /\ Verdicts[d] \subseteq {"infected", "error"}

\* A run past its lookup has seen the row; what it remembers of the stores is
\* so, and recorded in the row as long as there is one; past the verdict it
\* works on a document that can be clean.
RunFine(w) ==
    /\ task[w].pc = "start" => ~task[w].esOk /\ ~task[w].qdOk
    /\ task[w].pc \in Steps \ {"start"} =>
          /\ row[task[w].doc].status # "absent"
          /\ task[w].esOk /\ Exists(task[w].doc) => row[task[w].doc].esId
          /\ task[w].qdOk /\ Exists(task[w].doc) /\ task[w].doc \in Textual
                => row[task[w].doc].qdId
    /\ task[w].pc = "esCommit" => task[w].doc \in es
    /\ task[w].pc = "qdCommit" => task[w].doc \in qd
    /\ task[w].pc = "verdict" => task[w].verdict \in Verdicts[task[w].doc]
    /\ task[w].pc \in Steps \ {"start", "scan", "verdict"} => ~Tainted(task[w].doc)

\* An upload that is not committed has no row yet.
StagedAbsent ==
    \A d \in Documents : open[d] = "upload" => row[d].status = "absent"

Inv == /\ TypeOK /\ StagedAbsent
       /\ \A w \in Workers : RunFine(w)
       /\ \A d \in Documents : StatusRecorded(d, row[d])
       /\ IdsBacked
       /\ \A d \in Documents : Tainted(d) => d \notin es \cup qd

\* A step may remove a row, add an id the store knows, or change the status
\* to one its ids bear out; it inserts only rows that were absent.
RowKept(d) ==
    /\ row[d].status # "absent" => row'[d].status # "absent"
    /\ row[d].status # "absent" /\ row'[d].status \notin {"absent", "deleted"} =>
          /\ Exists(d)
          /\ row[d].esId => row'[d].esId
          /\ row[d].qdId /\ d \in Textual => row'[d].qdId
    /\ row'[d].esId => row[d].esId \/ d \in es
    /\ row'[d].qdId => row[d].qdId \/ d \in qd
    /\ StatusRecorded(d, row'[d])

Kept == \A d \in Documents : RowKept(d)

StoresGrow == /\ es \subseteq es' /\ qd \subseteq qd'
              /\ \A d \in Documents : Tainted(d) => d \notin es' \cup qd'

\* An idle worker, and one about to run a sweep step, is in good order.
LEMMA NotRunningFine ==
    ASSUME NEW w \in Workers, task'[w].pc \notin Steps PROVE RunFine(w)'
  BY Literals DEF RunFine

USE DEF Kept

\* A step that keeps every row in this sense, only adds to the stores and
\* leaves every worker alone or in good order preserves the invariant.
LEMMA Preserved ==
    ASSUME Inv, TypeOK', StagedAbsent', StoresGrow,
           Kept,
           \A w \in Workers : task'[w] = task[w] \/ RunFine(w)'
    PROVE  Inv' /\ Kept
<1>1. ASSUME NEW w \in Workers, task'[w] = task[w] PROVE RunFine(w)'
  <2>1. CASE task[w].pc \notin Steps
    BY <1>1, <2>1, NotRunningFine
  <2>2. CASE task[w].pc \in Steps
    <3>1. PICK c \in Documents : c = task[w].doc
      BY <2>2 DEF Inv, TypeOK
    <3>2. RowKept(c) /\ RunFine(w)
      BY DEF Inv
    <3>3. task'[w].doc = c /\ task[w].doc = c
      BY <1>1, <3>1
    <3>4. (task'[w].pc \in Steps \ {"start"}) =>
             /\ row'[c].status # "absent"
             /\ task'[w].esOk /\ Exists(c)' => row'[c].esId
             /\ task'[w].qdOk /\ Exists(c)' /\ c \in Textual => row'[c].qdId
      BY <1>1, <3>2, <3>3 DEF RunFine, RowKept, Exists
    <3> QED
      BY <1>1, <3>2, <3>3, <3>4, Literals DEF RunFine, StoresGrow, Tainted, Exists
  <2> QED
    BY <2>1, <2>2
<1>2. IdsBacked'
  BY DEF Inv, IdsBacked, RowKept, StoresGrow
<1>3. \A d \in Documents : StatusRecorded(d, row'[d])
  BY DEF RowKept
<1>4. \A d \in Documents : Tainted(d) => d \notin es' \cup qd'
  BY DEF StoresGrow
<1> QED
  BY <1>1, <1>2, <1>3, <1>4 DEF Inv, Tainted

\* A row a step does not touch is kept.
LEMMA SameRowKept ==
    ASSUME Inv, NEW d \in Documents, row'[d] = row[d] PROVE RowKept(d)
  BY DEF Inv, RowKept, StatusRecorded, Exists

\* So is one of which it changes other columns.
LEMMA SameColumnsKept ==
    ASSUME Inv, NEW d \in Documents, row'[d].status = row[d].status,
           row'[d].esId = row[d].esId, row'[d].qdId = row[d].qdId
    PROVE  RowKept(d)
<1>1. StatusRecorded(d, row[d]) /\ IdsBacked
  BY DEF Inv
<1> QED
  BY <1>1 DEF RowKept, StatusRecorded, Exists

\* A row of which a step writes a status that claims nothing is kept.
LEMMA StatusRowKept ==
    ASSUME Inv, NEW d \in Documents, Exists(d),
           row'[d].status \notin {"absent", "deleted", "indexed", "stored",
                                  "partially_indexed"},
           row'[d].esId = row[d].esId, row'[d].qdId = row[d].qdId
    PROVE  RowKept(d)
  BY DEF RowKept, StatusRecorded, Exists

\* A new row, or the place of a removed one, is kept.
LEMMA FreshRowKept ==
    ASSUME Inv, NEW d \in Documents, ~row'[d].esId, ~row'[d].qdId,
           \/ row[d].status = "absent"
              /\ row'[d].status \in {"uploaded", "pending", "deleted"}
           \/ row'[d].status = "deleted"
    PROVE  RowKept(d)
  BY DEF RowKept, StatusRecorded, Exists

-----------------------------------------------------------------------------
(* API handlers                                                            *)

USE DEF stores, bounds

\* A step of the API leaves the stores and the workers alone.
LEMMA ApiPreserved ==
    ASSUME Inv, TypeOK', StagedAbsent', UNCHANGED <<es, qd, task>>,
           Kept
    PROVE  Inv' /\ Kept
<1>1. StoresGrow
  BY DEF StoresGrow, Inv
<1> QED
  BY <1>1, Preserved

\* One that leaves the rows alone as well.
LEMMA RowsAlone ==
    ASSUME Inv, TypeOK', StagedAbsent', UNCHANGED <<row, es, qd, task>>
    PROVE  Inv' /\ Kept
<1>1. Kept
  BY SameRowKept
<1> QED
  BY <1>1, ApiPreserved

\* UploadStage keeps the invariant and the rows.
LEMMA UploadStageInv ==
    ASSUME Inv, NEW d \in Documents, UploadStage(d) PROVE Inv' /\ Kept
<1>1. TypeOK' /\ StagedAbsent'
  BY DEF Inv, TypeOK, StagedAbsent, UploadStage, Publish, RefusePublish
<1> QED
  BY <1>1, RowsAlone DEF UploadStage

\* BulkPublish keeps the invariant and the rows.
LEMMA BulkPublishInv ==
    ASSUME Inv, NEW d \in Documents, BulkPublish(d) PROVE Inv' /\ Kept
<1>1. TypeOK' /\ StagedAbsent'
  BY DEF Inv, TypeOK, StagedAbsent, BulkPublish, Publish, RefusePublish
<1> QED
  BY <1>1, RowsAlone DEF BulkPublish

\* RetryStage keeps the invariant and the rows.
LEMMA RetryStageInv ==
    ASSUME Inv, NEW d \in Documents, RetryStage(d) PROVE Inv' /\ Kept
<1>1. TypeOK' /\ StagedAbsent'
  BY DEF Inv, TypeOK, StagedAbsent, RetryStage, Publish, Request
<1> QED
  BY <1>1, RowsAlone DEF RetryStage

\* RetryNoFile keeps the invariant and the rows.
LEMMA RetryNoFileInv ==
    ASSUME Inv, NEW d \in Documents, RetryNoFile(d) PROVE Inv' /\ Kept
<1>1. TypeOK' /\ StagedAbsent'
  BY DEF Inv, TypeOK, StagedAbsent, RetryNoFile, Request
<1> QED
  BY <1>1, RowsAlone DEF RetryNoFile

\* ReindexDocument keeps the invariant and the rows.
LEMMA ReindexDocumentInv ==
    ASSUME Inv, NEW d \in Documents, ReindexDocument(d) PROVE Inv' /\ Kept
<1>1. TypeOK' /\ StagedAbsent'
  BY DEF Inv, TypeOK, StagedAbsent, ReindexDocument, Publish, Request
<1> QED
  BY <1>1, RowsAlone DEF ReindexDocument

\* ScanAll keeps the invariant and the rows.
LEMMA ScanAllInv ==
    ASSUME Inv, ScanAll PROVE Inv' /\ Kept
<1>1. TypeOK' /\ StagedAbsent'
  BY DEF Inv, TypeOK, StagedAbsent, ScanAll, Request
<1> QED
  BY <1>1, RowsAlone DEF ScanAll

\* BeatTick keeps the invariant and the rows.
LEMMA BeatTickInv ==
    ASSUME Inv, BeatTick PROVE Inv' /\ Kept
<1>1. TypeOK' /\ StagedAbsent'
  BY DEF Inv, TypeOK, StagedAbsent, BeatTick
<1> QED
  BY <1>1, RowsAlone DEF BeatTick

\* FailStuckDocuments keeps the invariant and the rows.
LEMMA FailStuckDocumentsInv ==
    ASSUME Inv, FailStuckDocuments PROVE Inv' /\ Kept
<1>1. TypeOK' /\ StagedAbsent'
  BY DEF Inv, TypeOK, StagedAbsent, FailStuckDocuments, vars
<1> QED
  BY <1>1, RowsAlone DEF FailStuckDocuments, vars

\* BulkUpload keeps the invariant and the rows.
LEMMA BulkUploadInv ==
    ASSUME Inv, NEW d \in Documents, BulkUpload(d) PROVE Inv' /\ Kept
<1> USE DEF BulkUpload
<1>1. row' = [row EXCEPT ![d] = Fresh("pending")] /\ row[d].status = "absent"
  OBVIOUS
<1>2. /\ row' \in [Documents -> Row]
      /\ \A x \in Documents \ {d} : row'[x] = row[x]
      /\ row'[d].status = "pending" /\ ~row'[d].esId /\ ~row'[d].qdId
  BY <1>1, FreshEffect, Literals DEF Inv, TypeOK
<1>3. TypeOK' /\ StagedAbsent'
  BY <1>2 DEF Inv, TypeOK, StagedAbsent, Exists
<1>4. RowKept(d)
  BY <1>1, <1>2, FreshRowKept
<1> QED
  BY <1>2, <1>3, <1>4, SameRowKept, ApiPreserved

\* BulkDelete keeps the invariant and the rows.
LEMMA BulkDeleteInv ==
    ASSUME Inv, NEW d \in Documents, BulkDelete(d) PROVE Inv' /\ Kept
<1> USE DEF BulkDelete
<1>1. row' = [row EXCEPT ![d] = Fresh("deleted")]
  OBVIOUS
<1>2. /\ row' \in [Documents -> Row]
      /\ \A x \in Documents \ {d} : row'[x] = row[x]
      /\ row'[d].status = "deleted" /\ ~row'[d].esId /\ ~row'[d].qdId
  BY <1>1, FreshEffect, Literals DEF Inv, TypeOK
<1>3. TypeOK' /\ StagedAbsent'
  BY <1>2 DEF Inv, TypeOK, StagedAbsent, Exists, Request
<1>4. RowKept(d)
  BY <1>1, <1>2, FreshRowKept
<1> QED
  BY <1>2, <1>3, <1>4, SameRowKept, ApiPreserved

\* UploadCommit keeps the invariant and the rows.
LEMMA UploadCommitInv ==
    ASSUME Inv, NEW d \in Documents, UploadCommit(d) PROVE Inv' /\ Kept
<1> USE DEF UploadCommit
<1>0. PICK s \in {"uploaded", "deleted"} : row' = [row EXCEPT ![d] = Fresh(s)]
  OBVIOUS
<1>1. /\ row' = [row EXCEPT ![d] = Fresh(s)] /\ s \in {"uploaded", "deleted"}
      /\ row[d].status = "absent"
  BY <1>0 DEF Inv, StagedAbsent
<1>2. /\ row' \in [Documents -> Row]
      /\ \A x \in Documents \ {d} : row'[x] = row[x]
      /\ row'[d].status = s /\ ~row'[d].esId /\ ~row'[d].qdId
  BY <1>1, FreshEffect, Literals DEF Inv, TypeOK
<1>3. TypeOK' /\ StagedAbsent'
  BY <1>2 DEF Inv, TypeOK, StagedAbsent, Exists
<1>4. RowKept(d)
  BY <1>1, <1>2, FreshRowKept
<1> QED
  BY <1>2, <1>3, <1>4, SameRowKept, ApiPreserved

\* Cancel keeps the invariant and the rows.
LEMMA CancelInv ==
    ASSUME Inv, NEW d \in Documents, Cancel(d) PROVE Inv' /\ Kept
<1> USE DEF Cancel
<1>1. RowMarked(d, "failed")
  BY MarkEffect, Literals DEF Inv, TypeOK
<1>2. TypeOK' /\ StagedAbsent'
  BY <1>1 DEF Inv, TypeOK, StagedAbsent, Exists, Request
<1>3. RowKept(d)
  BY <1>1, StatusRowKept
<1> QED
  BY <1>1, <1>2, <1>3, SameRowKept, ApiPreserved

\* BulkArchive keeps the invariant and the rows.
LEMMA BulkArchiveInv ==
    ASSUME Inv, NEW d \in Documents, BulkArchive(d) PROVE Inv' /\ Kept
<1> USE DEF BulkArchive
<1>1. RowMarked(d, "archived")
  BY SetStatusEffect, Literals DEF Inv, TypeOK
<1>2. TypeOK' /\ StagedAbsent'
  BY <1>1 DEF Inv, TypeOK, StagedAbsent, Exists, Request
<1>3. RowKept(d)
  BY <1>1, StatusRowKept
<1> QED
  BY <1>1, <1>2, <1>3, SameRowKept, ApiPreserved

\* RetryCommit keeps the invariant and the rows.
LEMMA RetryCommitInv ==
    ASSUME Inv, NEW d \in Documents, RetryCommit(d) PROVE Inv' /\ Kept
<1> USE DEF RetryCommit
<1>1. CASE Exists(d) /\ open[d] = "retry" /\ Mark(d, "uploaded", "none")
  <2>1. RowMarked(d, "uploaded")
    BY <1>1, MarkEffect, Literals DEF Inv, TypeOK
  <2>2. TypeOK' /\ StagedAbsent'
    BY <1>1, <2>1 DEF Inv, TypeOK, StagedAbsent, Exists
  <2>3. RowKept(d)
    BY <1>1, <2>1, StatusRowKept
  <2> QED
    BY <2>1, <2>2, <2>3, SameRowKept, ApiPreserved
<1>2. CASE UNCHANGED row
  <2>1. TypeOK' /\ StagedAbsent'
    BY <1>2 DEF Inv, TypeOK, StagedAbsent
  <2> QED
    BY <1>2, <2>1, RowsAlone
<1> QED
  BY <1>1, <1>2

-----------------------------------------------------------------------------
(* Workers                                                                 *)

USE DEF At, Doc

\* The counters and queues a step of a worker may change.
CountersTyped == /\ queue' \in [Documents -> Nat]
                 /\ sweeps' \in Nat /\ broken' \in Nat /\ outages' \in Nat

\* A step of worker w that writes no row but c's, and that one only if it
\* exists.
LEMMA WorkerPreserved ==
    ASSUME Inv, NEW w \in Workers, NEW c \in Documents,
           UNCHANGED <<file, open, used>>, CountersTyped,
           es' \subseteq Documents, qd' \subseteq Documents, StoresGrow,
           row' \in [Documents -> Row],
           \A d \in Documents \ {c} : row'[d] = row[d],
           row'[c] = row[c] \/ Exists(c), RowKept(c),
           OnlyTask(w),
           task'[w].pc \in Steps \cup {"publish"} => task'[w].doc \in Documents,
           RunFine(w)'
    PROVE  Inv' /\ Kept
<1>1. TypeOK'
  BY DEF Inv, TypeOK, CountersTyped
<1>2. StagedAbsent'
  BY DEF Inv, StagedAbsent, Exists
<1>3. Kept
  BY SameRowKept
<1> QED
  BY <1>1, <1>2, <1>3, Preserved

\* A worker that stops without writing.
LEMMA RunOver ==
    ASSUME Inv, NEW w \in Workers, Release(w),
           UNCHANGED <<row, file, open, es, qd, used>>, CountersTyped
    PROVE  Inv' /\ Kept
<1>1. OnlyTask(w) /\ task'[w].pc = "idle"
  BY ReleaseEffect DEF Inv, TypeOK
<1>2. RunFine(w)'
  BY <1>1, NotRunningFine, Literals
<1>3. TypeOK' /\ StagedAbsent'
  BY <1>1, Literals DEF Inv, TypeOK, StagedAbsent, CountersTyped
<1>4. Kept
  BY SameRowKept
<1>5. StoresGrow
  BY DEF StoresGrow, Inv
<1> QED
  BY <1>1, <1>2, <1>3, <1>4, <1>5, Preserved

\* A worker that writes a status which claims nothing, and is in good order
\* afterwards.
LEMMA WorkerMarks ==
    ASSUME Inv, NEW w \in Workers, NEW c \in Documents, Exists(c),
           UNCHANGED <<file, open, used, es, qd>>, CountersTyped,
           row' \in [Documents -> Row],
           \A d \in Documents \ {c} : row'[d] = row[d],
           row'[c].status \notin {"absent", "deleted", "indexed", "stored",
                                  "partially_indexed"},
           row'[c].esId = row[c].esId, row'[c].qdId = row[c].qdId,
           OnlyTask(w),
           task'[w].pc \in Steps \cup {"publish"} => task'[w].doc \in Documents,
           RunFine(w)'
    PROVE  Inv' /\ Kept
<1>1. RowKept(c)
  BY StatusRowKept
<1>2. StoresGrow /\ es' \subseteq Documents /\ qd' \subseteq Documents
  BY DEF StoresGrow, Inv, TypeOK
<1> QED
  BY <1>1, <1>2, WorkerPreserved

\* A run that fails.
LEMMA RunFails ==
    ASSUME Inv, NEW w \in Workers, NEW c \in Documents, Exists(c), Fail(c), Release(w),
           UNCHANGED <<file, open, used, es, qd>>, CountersTyped
    PROVE  Inv' /\ Kept
<1>1. RowMarked(c, "failed")
  BY FailEffect DEF Inv, TypeOK
<1>2. OnlyTask(w) /\ task'[w].pc = "idle"
  BY ReleaseEffect DEF Inv, TypeOK
<1>3. RunFine(w)'
  BY <1>2, NotRunningFine, Literals
<1> QED
  BY <1>1, <1>2, <1>3, WorkerMarks, Literals

\* A run that goes on without writing a row.
LEMMA RunMoves ==
    ASSUME Inv, NEW w \in Workers, Doc(w) \in Documents,
           UNCHANGED <<row, file, open, used>>, CountersTyped,
           es' \subseteq Documents, qd' \subseteq Documents, StoresGrow,
           OnlyTask(w),
           task'[w].doc \in Documents, RunFine(w)'
    PROVE  Inv' /\ Kept
<1>1. RowKept(Doc(w))
  BY SameRowKept
<1>2. row' \in [Documents -> Row]
  BY DEF Inv, TypeOK
<1> QED
  BY <1>1, <1>2, WorkerPreserved

\* What a step of process_document finds, and the queues and counters it
\* leaves alone.
Ready(w) == /\ task \in [Workers -> Task] /\ row \in [Documents -> Row]
            /\ task[w].doc \in Documents /\ RunFine(w) /\ CountersTyped

\* A step of process_document finds the worker in good order.
LEMMA RunReady ==
    ASSUME Inv, NEW w \in Workers, task[w].pc \in Steps,
           UNCHANGED <<queue, sweeps, broken, outages>>
    PROVE  Ready(w)
  BY DEF Ready, Inv, TypeOK, CountersTyped

\* A step that leaves queues and counters alone leaves them typed.
LEMMA CountersAlone ==
    ASSUME Inv, UNCHANGED <<queue, sweeps, broken, outages>> PROVE CountersTyped
  BY DEF Inv, TypeOK, CountersTyped

USE DEF Ready

\* Take keeps the invariant and the rows.
LEMMA TakeInv ==
    ASSUME Inv, NEW w \in Workers, NEW d \in Documents, Take(w, d) PROVE Inv' /\ Kept
<1> USE DEF Take
<1>1. /\ OnlyTask(w)
      /\ task'[w].pc = "start" /\ task'[w].doc = d
      /\ ~task'[w].esOk /\ ~task'[w].qdOk
  BY TakeEffect DEF Inv, TypeOK
<1>2. RunFine(w)'
  BY <1>1 DEF RunFine
<1>3. CountersTyped /\ StoresGrow /\ es' \subseteq Documents /\ qd' \subseteq Documents
  BY DEF Inv, TypeOK, CountersTyped, StoresGrow
<1>4. RowKept(d) /\ row' \in [Documents -> Row]
  BY SameRowKept DEF Inv, TypeOK
<1> QED
  BY <1>1, <1>2, <1>3, <1>4, WorkerPreserved

\* Begin keeps the invariant and the rows.
LEMMA BeginInv == ASSUME Inv, NEW w \in Workers, Begin(w) PROVE Inv' /\ Kept
<1> USE DEF Begin
<1>0. Ready(w)
  BY RunReady, Literals
<1>1. CASE RowGone(w)
  BY <1>0, <1>1, RunOver DEF RowGone
<1>2. CASE Exists(Doc(w)) /\ Doc(w) \notin file /\ Fail(Doc(w)) /\ Release(w)
  BY <1>0, <1>2, RunFails
<1>3. CASE /\ Exists(Doc(w)) /\ Doc(w) \in file
           /\ SetStatus(Doc(w), "processing") /\ Goto(w, "scan")
  <2>1. RowMarked(Doc(w), "processing")
    BY <1>0, <1>3, SetStatusEffect, Literals
  <2>2. /\ OnlyTask(w)
        /\ task'[w].pc = "scan" /\ task'[w].doc = task[w].doc
        /\ task'[w].esOk = task[w].esOk /\ task'[w].qdOk = task[w].qdOk
    BY <1>0, <1>3, GotoEffect, Literals
  <2>3. RunFine(w)'
    BY <1>0, <2>1, <2>2 DEF RunFine
  <2> QED
    BY <1>0, <1>3, <2>1, <2>2, <2>3, WorkerMarks
<1> QED
  BY <1>1, <1>2, <1>3

\* Scan keeps the invariant and the rows.
LEMMA ScanInv == ASSUME Inv, NEW w \in Workers, Scan(w) PROVE Inv' /\ Kept
<1>0. Ready(w)
      /\ UNCHANGED <<file, open, es, qd, used>> /\ task[w].pc = "scan"
  BY RunReady, Literals DEF Scan
<1>1. CASE RowGone(w)
  BY <1>0, <1>1, RunOver DEF RowGone
<1>2. ASSUME NEW v \in Verdicts[Doc(w)], Exists(Doc(w)),
             row' = [row EXCEPT ![Doc(w)].scan = v],
             task' = [task EXCEPT ![w].pc = "verdict", ![w].verdict = v]
      PROVE  Inv' /\ Kept
  <2>1. v \in ScanVerdicts
    BY <1>0, VerdictType
  <2>2. RowMarked(Doc(w), row[Doc(w)].status)
    BY <1>0, <1>2, <2>1, ScanEffect
  <2>3. /\ OnlyTask(w)
        /\ task'[w].pc = "verdict" /\ task'[w].doc = task[w].doc
        /\ task'[w].verdict = v
        /\ task'[w].esOk = task[w].esOk /\ task'[w].qdOk = task[w].qdOk
    BY <1>0, <1>2, <2>1, VerdictEffect, Literals
  <2>4. RunFine(w)'
    BY <1>0, <2>2, <2>3, Literals DEF RunFine, Exists
  <2>5. RowKept(Doc(w))
    BY <1>0, <2>2, SameColumnsKept
  <2>6. StoresGrow /\ es' \subseteq Documents /\ qd' \subseteq Documents
    BY <1>0 DEF Inv, TypeOK, StoresGrow
  <2> QED
    BY <1>0, <1>2, <2>2, <2>3, <2>4, <2>5, <2>6, WorkerPreserved
<1> QED
  BY <1>1, <1>2 DEF Scan

\* A verdict that does not stop the run is one a clean document may get.
LEMMA NotBlocked ==
    ASSUME NEW d \in Documents, NEW v \in Verdicts[d], ~Blocked(v) PROVE ~Tainted(d)
  BY DEF Blocked, Tainted

\* ActOnVerdict keeps the invariant and the rows.
LEMMA ActOnVerdictInv == ASSUME Inv, NEW w \in Workers, ActOnVerdict(w) PROVE Inv' /\ Kept
<1> USE DEF ActOnVerdict
<1>0. Ready(w)
  BY RunReady, Literals
<1>1. CASE RowGone(w)
  BY <1>0, <1>1, RunOver DEF RowGone
<1>2. CASE Exists(Doc(w)) /\ Fail(Doc(w)) /\ Release(w)
  BY <1>0, <1>2, RunFails
<1>3. CASE /\ Exists(Doc(w)) /\ ~Blocked(task[w].verdict)
           /\ Goto(w, "extract") /\ UNCHANGED row
  <2>1. Moved(w, "extract")
    BY <1>0, <1>3, GotoEffect, Literals
  <2>2. ~Tainted(Doc(w))
    BY <1>0, <1>3, NotBlocked DEF RunFine
  <2>3. RunFine(w)'
    BY <1>0, <1>3, <2>1, <2>2, Literals DEF RunFine, Tainted, Exists
  <2>4. StoresGrow /\ es' \subseteq Documents /\ qd' \subseteq Documents
    BY DEF Inv, TypeOK, StoresGrow
  <2> QED
    BY <1>0, <1>3, <2>1, <2>3, <2>4, RunMoves
<1> QED
  BY <1>1, <1>2, <1>3

\* Extract keeps the invariant and the rows.
LEMMA ExtractInv == ASSUME Inv, NEW w \in Workers, Extract(w) PROVE Inv' /\ Kept
<1> USE DEF Extract
<1>0. Ready(w)
  BY RunReady, Literals
<1>1. CASE RowGone(w)
  BY <1>0, <1>1, RunOver DEF RowGone
<1>2. CASE Exists(Doc(w)) /\ Fail(Doc(w)) /\ Release(w)
  BY <1>0, <1>2, RunFails
<1>3. CASE /\ Exists(Doc(w))
           /\ SetStatus(Doc(w), "text_extracted") /\ Goto(w, "read")
  <2>1. RowMarked(Doc(w), "text_extracted")
    BY <1>0, <1>3, SetStatusEffect, Literals
  <2>2. Moved(w, "read")
    BY <1>0, <1>3, GotoEffect, Literals
  <2>3. RunFine(w)'
    BY <1>0, <1>3, <2>1, <2>2, Literals DEF RunFine, Tainted, Exists
  <2> QED
    BY <1>0, <1>3, <2>1, <2>2, <2>3, WorkerMarks
<1> QED
  BY <1>1, <1>2, <1>3

\* ReadMetadata keeps the invariant and the rows.
LEMMA ReadMetadataInv == ASSUME Inv, NEW w \in Workers, ReadMetadata(w) PROVE Inv' /\ Kept
<1> USE DEF ReadMetadata
<1>0. Ready(w)
  BY RunReady, Literals
<1>1. CASE RowGone(w)
  BY <1>0, <1>1, RunOver DEF RowGone
<1>2. CASE Exists(Doc(w)) /\ Goto(w, "es") /\ UNCHANGED row
  <2>1. Moved(w, "es")
    BY <1>0, <1>2, GotoEffect, Literals
  <2>2. RunFine(w)'
    BY <1>0, <1>2, <2>1, Literals DEF RunFine, Tainted, Exists
  <2>3. StoresGrow /\ es' \subseteq Documents /\ qd' \subseteq Documents
    BY DEF Inv, TypeOK, StoresGrow
  <2> QED
    BY <1>0, <1>2, <2>1, <2>2, <2>3, RunMoves
<1> QED
  BY <1>1, <1>2

\* IndexElasticsearch keeps the invariant and the rows.
LEMMA IndexElasticsearchInv == ASSUME Inv, NEW w \in Workers, IndexElasticsearch(w) PROVE Inv' /\ Kept
<1> USE DEF IndexElasticsearch
<1>0. Ready(w)
  BY RunReady, Literals
<1>1. CASE es' = es \cup {Doc(w)} /\ Goto(w, "esCommit")
  <2>1. Moved(w, "esCommit")
    BY <1>0, <1>1, GotoEffect, Literals
  <2>2. RunFine(w)'
    BY <1>0, <1>1, <2>1, Literals DEF RunFine, Tainted, Exists
  <2>3. StoresGrow /\ es' \subseteq Documents /\ qd' \subseteq Documents
    BY <1>0, <1>1, Literals DEF Inv, TypeOK, StoresGrow, RunFine
  <2> QED
    BY <1>0, <2>1, <2>2, <2>3, RunMoves
<1>2. CASE es' \in {es, es \cup {Doc(w)}} /\ Goto(w, "qd")
  <2>1. Moved(w, "qd")
    BY <1>0, <1>2, GotoEffect, Literals
  <2>2. RunFine(w)'
    BY <1>0, <1>2, <2>1, Literals DEF RunFine, Tainted, Exists
  <2>3. StoresGrow /\ es' \subseteq Documents /\ qd' \subseteq Documents
    BY <1>0, <1>2, Literals DEF Inv, TypeOK, StoresGrow, RunFine
  <2> QED
    BY <1>0, <2>1, <2>2, <2>3, RunMoves
<1> QED
  BY <1>1, <1>2

\* IndexQdrant keeps the invariant and the rows.
LEMMA IndexQdrantInv == ASSUME Inv, NEW w \in Workers, IndexQdrant(w) PROVE Inv' /\ Kept
<1> USE DEF IndexQdrant
<1>0. Ready(w)
  BY RunReady, Literals
<1>1. CASE qd' = qd \cup {Doc(w)} /\ Goto(w, "qdCommit")
  <2>1. Moved(w, "qdCommit")
    BY <1>0, <1>1, GotoEffect, Literals
  <2>2. RunFine(w)'
    BY <1>0, <1>1, <2>1, Literals DEF RunFine, Tainted, Exists
  <2>3. StoresGrow /\ es' \subseteq Documents /\ qd' \subseteq Documents
    BY <1>0, <1>1, Literals DEF Inv, TypeOK, StoresGrow, RunFine
  <2> QED
    BY <1>0, <2>1, <2>2, <2>3, RunMoves
<1>2. CASE qd' \in {qd, qd \cup {Doc(w)}} /\ Goto(w, "final")
  <2>1. Moved(w, "final")
    BY <1>0, <1>2, GotoEffect, Literals
  <2>2. RunFine(w)'
    BY <1>0, <1>2, <2>1, Literals DEF RunFine, Tainted, Exists
  <2>3. StoresGrow /\ es' \subseteq Documents /\ qd' \subseteq Documents
    BY <1>0, <1>2, Literals DEF Inv, TypeOK, StoresGrow, RunFine
  <2> QED
    BY <1>0, <2>1, <2>2, <2>3, RunMoves
<1> QED
  BY <1>1, <1>2

\* CommitElasticsearch keeps the invariant and the rows.
LEMMA CommitElasticsearchInv == ASSUME Inv, NEW w \in Workers, CommitElasticsearch(w) PROVE Inv' /\ Kept
<1> USE DEF CommitElasticsearch
<1>0. Ready(w)
  BY RunReady, Literals
<1>1. CASE RowGone(w)
  BY <1>0, <1>1, RunOver DEF RowGone
<1>2. CASE /\ Exists(Doc(w))
           /\ row' = [row EXCEPT ![Doc(w)].esId = TRUE]
           /\ task' = [task EXCEPT ![w].pc = "qd", ![w].esOk = TRUE]
  <2>1. /\ row' \in [Documents -> Row]
        /\ \A x \in Documents \ {Doc(w)} : row'[x] = row[x]
        /\ row'[Doc(w)].esId = TRUE /\ row'[Doc(w)].status = row[Doc(w)].status
        /\ row'[Doc(w)].qdId = row[Doc(w)].qdId
    BY <1>0, <1>2, EsIdEffect
  <2>2. /\ OnlyTask(w)
        /\ task'[w].pc = "qd" /\ task'[w].doc = task[w].doc
        /\ task'[w].esOk /\ task'[w].qdOk = task[w].qdOk
        /\ task'[w].verdict = task[w].verdict
    BY <1>0, <1>2, EsOkEffect, Literals
  <2>3. RunFine(w)'
    BY <1>0, <1>2, <2>1, <2>2, Literals DEF RunFine, Tainted, Exists
  <2>4. RowKept(Doc(w))
    BY <1>0, <1>2, <2>1 DEF Inv, RowKept, StatusRecorded, Exists, RunFine
  <2>5. StoresGrow /\ es' \subseteq Documents /\ qd' \subseteq Documents
    BY DEF Inv, TypeOK, StoresGrow
  <2> QED
    BY <1>0, <1>2, <2>1, <2>2, <2>3, <2>4, <2>5, WorkerPreserved
<1> QED
  BY <1>1, <1>2

\* SkipQdrant keeps the invariant and the rows.
LEMMA SkipQdrantInv == ASSUME Inv, NEW w \in Workers, SkipQdrant(w) PROVE Inv' /\ Kept
<1> USE DEF SkipQdrant
<1>0. Ready(w)
  BY RunReady, Literals
<1>1. CASE RowGone(w)
  BY <1>0, <1>1, RunOver DEF RowGone
<1>2. CASE /\ Exists(Doc(w))
           /\ row' = [row EXCEPT ![Doc(w)].qdId = FALSE]
           /\ task' = [task EXCEPT ![w].pc = "final", ![w].qdOk = TRUE]
  <2>1. /\ row' \in [Documents -> Row]
        /\ \A x \in Documents \ {Doc(w)} : row'[x] = row[x]
        /\ row'[Doc(w)].qdId = FALSE /\ row'[Doc(w)].status = row[Doc(w)].status
        /\ row'[Doc(w)].esId = row[Doc(w)].esId
    BY <1>0, <1>2, QdIdEffect
  <2>2. /\ OnlyTask(w)
        /\ task'[w].pc = "final" /\ task'[w].doc = task[w].doc
        /\ task'[w].qdOk /\ task'[w].esOk = task[w].esOk
        /\ task'[w].verdict = task[w].verdict
    BY <1>0, <1>2, QdOkEffect, Literals
  <2>3. RunFine(w)'
    BY <1>0, <1>2, <2>1, <2>2, Literals DEF RunFine, Tainted, Exists
  <2>4. RowKept(Doc(w))
    BY <1>0, <1>2, <2>1 DEF Inv, RowKept, StatusRecorded, Exists, RunFine
  <2>5. StoresGrow /\ es' \subseteq Documents /\ qd' \subseteq Documents
    BY DEF Inv, TypeOK, StoresGrow
  <2> QED
    BY <1>0, <1>2, <2>1, <2>2, <2>3, <2>4, <2>5, WorkerPreserved
<1> QED
  BY <1>1, <1>2

\* CommitQdrant keeps the invariant and the rows.
LEMMA CommitQdrantInv == ASSUME Inv, NEW w \in Workers, CommitQdrant(w) PROVE Inv' /\ Kept
<1> USE DEF CommitQdrant
<1>0. Ready(w)
  BY RunReady, Literals
<1>1. CASE RowGone(w)
  BY <1>0, <1>1, RunOver DEF RowGone
<1>2. CASE /\ Exists(Doc(w))
           /\ row' = [row EXCEPT ![Doc(w)].qdId = TRUE]
           /\ task' = [task EXCEPT ![w].pc = "final", ![w].qdOk = TRUE]
  <2>1. /\ row' \in [Documents -> Row]
        /\ \A x \in Documents \ {Doc(w)} : row'[x] = row[x]
        /\ row'[Doc(w)].qdId = TRUE /\ row'[Doc(w)].status = row[Doc(w)].status
        /\ row'[Doc(w)].esId = row[Doc(w)].esId
    BY <1>0, <1>2, QdIdEffect
  <2>2. /\ OnlyTask(w)
        /\ task'[w].pc = "final" /\ task'[w].doc = task[w].doc
        /\ task'[w].qdOk /\ task'[w].esOk = task[w].esOk
        /\ task'[w].verdict = task[w].verdict
    BY <1>0, <1>2, QdOkEffect, Literals
  <2>3. RunFine(w)'
    BY <1>0, <1>2, <2>1, <2>2, Literals DEF RunFine, Tainted, Exists
  <2>4. RowKept(Doc(w))
    BY <1>0, <1>2, <2>1 DEF Inv, RowKept, StatusRecorded, Exists, RunFine
  <2>5. StoresGrow /\ es' \subseteq Documents /\ qd' \subseteq Documents
    BY DEF Inv, TypeOK, StoresGrow
  <2> QED
    BY <1>0, <1>2, <2>1, <2>2, <2>3, <2>4, <2>5, WorkerPreserved
<1> QED
  BY <1>1, <1>2

\* A run that indexed the document in one engine or both says
\* so, and its row has the ids to show for it.
LEMMA OutcomeRecorded ==
    ASSUME Inv, NEW w \in Workers, At(w, "final"), Exists(Doc(w)),
           row'[Doc(w)].status = Outcome(w),
           row'[Doc(w)].esId = row[Doc(w)].esId, row'[Doc(w)].qdId = row[Doc(w)].qdId
    PROVE  RowKept(Doc(w))
<1>1. /\ Doc(w) \in Documents /\ RunFine(w)
      /\ Outcome(w) \in {"indexed", "stored", "partially_indexed", "failed"}
  BY OutcomeType, Literals DEF Inv, TypeOK
<1>2. /\ task[w].esOk => row[Doc(w)].esId
      /\ task[w].qdOk /\ Doc(w) \in Textual => row[Doc(w)].qdId
  BY <1>1, Literals DEF RunFine
<1>3. task[w].esOk \in BOOLEAN /\ task[w].qdOk \in BOOLEAN
  BY DEF Inv, TypeOK, Task
<1>4. StatusRecorded(Doc(w), row'[Doc(w)])
  BY <1>1, <1>2, <1>3, OutcomeMeaning DEF StatusRecorded
<1> QED
  BY <1>1, <1>4 DEF RowKept, Exists

\* Settle keeps the invariant and the rows.
LEMMA SettleInv == ASSUME Inv, NEW w \in Workers, Settle(w) PROVE Inv' /\ Kept
<1> USE DEF Settle
<1>0. Ready(w)
  BY RunReady, Literals
<1>1. CASE RowGone(w)
  BY <1>0, <1>1, RunOver DEF RowGone
<1>2. CASE Exists(Doc(w)) /\ ~RowGone(w)
  <2>1. Outcome(w) \in Statuses
    BY OutcomeType, Literals
  <2>2. Release(w)
    BY <1>2
  <2>3. SetStatus(Doc(w), Outcome(w)) \/ Mark(Doc(w), Outcome(w), "other")
    BY <1>2
  <2>4. RowMarked(Doc(w), Outcome(w))
    BY <1>0, <2>1, <2>3, SetStatusEffect, MarkEffect, Literals
  <2>5. OnlyTask(w) /\ task'[w].pc = "idle"
    BY <1>0, <2>2, ReleaseEffect
  <2>6. RunFine(w)' /\ task'[w].pc \notin Steps \cup {"publish"}
    BY <2>5, NotRunningFine, Literals
  <2>7. RowKept(Doc(w))
    BY <1>2, <2>4, OutcomeRecorded
  <2>8. StoresGrow /\ es' \subseteq Documents /\ qd' \subseteq Documents
    BY DEF Inv, TypeOK, StoresGrow
  <2> QED
    BY <1>0, <1>2, <2>4, <2>5, <2>6, <2>7, <2>8, WorkerPreserved
<1> QED
  BY <1>1, <1>2

\* StartSweep keeps the invariant and the rows.
LEMMA StartSweepInv == ASSUME Inv, NEW w \in Workers, StartSweep(w) PROVE Inv' /\ Kept
<1>1. /\ task \in [Workers -> Task] /\ sweeps \in Nat /\ sweeps > 0
      /\ sweeps' = sweeps - 1
      /\ UNCHANGED <<row, file, open, queue, es, qd, used, broken, outages>>
  BY DEF StartSweep, Inv, TypeOK
<1>2. CountersTyped
  BY <1>1 DEF CountersTyped, Inv, TypeOK
<1>3. CASE UNCHANGED task
  <2>1. TypeOK' /\ StagedAbsent'
    BY <1>1, <1>2, <1>3 DEF Inv, TypeOK, StagedAbsent, CountersTyped
  <2> QED
    BY <1>1, <1>3, <2>1, RowsAlone
<1>4. ASSUME NEW list \in Listed,
             task' = [task EXCEPT ![w] = [Idle EXCEPT !.pc = "sweep", !.todo = list]]
      PROVE  Inv' /\ Kept
  <2>1. list \in SUBSET Documents
    BY <1>4 DEF Listed, AtLimit, Waiting
  <2>2. OnlyTask(w) /\ task'[w].pc = "sweep"
    BY <1>1, <1>4, <2>1, ListEffect
  <2>3. RunFine(w)'
    BY <2>2, NotRunningFine, Literals
  <2>4. TypeOK' /\ StagedAbsent'
    BY <1>1, <1>2, <2>2, Literals DEF Inv, TypeOK, StagedAbsent, CountersTyped
  <2>5. Kept /\ StoresGrow
    BY <1>1, SameRowKept DEF StoresGrow, Inv
  <2> QED
    BY <2>2, <2>3, <2>4, <2>5, Preserved
<1> QED
  BY <1>3, <1>4 DEF StartSweep

\* SweepFlip keeps the invariant and the rows.
LEMMA SweepFlipInv ==
    ASSUME Inv, NEW w \in Workers, NEW d \in Documents, SweepFlip(w, d) PROVE Inv' /\ Kept
<1>1. /\ task \in [Workers -> Task] /\ row \in [Documents -> Row]
      /\ UNCHANGED <<file, open, es, qd, used>> /\ CountersTyped
  BY CountersAlone DEF SweepFlip, Inv, TypeOK
<1>2. CASE Release(w) /\ UNCHANGED row
  BY <1>1, <1>2, RunOver
<1>3. ASSUME Exists(d), SetStatus(d, "processing"),
             task' = [task EXCEPT ![w] = [Idle EXCEPT !.pc = "publish", !.doc = d,
                                                !.todo = task[w].todo \ {d}]]
      PROVE  Inv' /\ Kept
  <2>1. RowMarked(d, "processing")
    BY <1>1, <1>3, SetStatusEffect, Literals
  <2>2. task[w].todo \ {d} \in SUBSET Documents
    BY <1>1 DEF Task
  <2>3. /\ OnlyTask(w)
        /\ task'[w].pc = "publish" /\ task'[w].doc = d
    BY <1>1, <1>3, <2>2, FlipEffect
  <2>4. RunFine(w)'
    BY <2>3, NotRunningFine, Literals
  <2> QED
    BY <1>1, <1>3, <2>1, <2>3, <2>4, WorkerMarks
<1> QED
  BY <1>2, <1>3 DEF SweepFlip

\* SweepPublish keeps the invariant and the rows.
LEMMA SweepPublishInv == ASSUME Inv, NEW w \in Workers, SweepPublish(w) PROVE Inv' /\ Kept
<1>1. /\ task \in [Workers -> Task] /\ task[w].pc = "publish" /\ Doc(w) \in Documents
      /\ UNCHANGED <<row, file, open, sweeps, es, qd, used, broken>>
  BY DEF SweepPublish, Inv, TypeOK
<1>2. CountersTyped
  BY <1>1 DEF SweepPublish, Publish, RefusePublish, CountersTyped, Inv, TypeOK
<1>3. CASE Release(w)
  BY <1>1, <1>2, <1>3, RunOver
<1>4. CASE task' = [task EXCEPT ![w] = [Idle EXCEPT !.pc = "sweep",
                                                    !.todo = task[w].todo]]
  <2>1. task[w].todo \in SUBSET Documents
    BY <1>1 DEF Task
  <2>2. OnlyTask(w) /\ task'[w].pc = "sweep"
    BY <1>1, <1>4, <2>1, ListEffect
  <2>3. RunFine(w)'
    BY <2>2, NotRunningFine, Literals
  <2>4. TypeOK' /\ StagedAbsent'
    BY <1>1, <1>2, <2>2, Literals DEF Inv, TypeOK, StagedAbsent, CountersTyped
  <2>5. Kept /\ StoresGrow
    BY <1>1, SameRowKept DEF StoresGrow, Inv
  <2> QED
    BY <2>2, <2>3, <2>4, <2>5, Preserved
<1> QED
  BY <1>3, <1>4 DEF SweepPublish

\* BreakOff keeps the invariant and the rows.
LEMMA BreakOffInv == ASSUME Inv, NEW w \in Workers, BreakOff(w) PROVE Inv' /\ Kept
<1>1. CountersTyped
  BY DEF BreakOff, CountersTyped, Inv, TypeOK
<1> QED
  BY <1>1, RunOver DEF BreakOff

-----------------------------------------------------------------------------
(* The theorems                                                            *)

\* The initial state is well typed.
LEMMA InitType == Init => TypeOK
  BY ScanAssumption, BoundAssumption
     DEF Init, TypeOK, Row, Task, Fresh, Idle, Statuses, Errors, Steps

\* The invariant holds initially.
LEMMA InitInv == Init => Inv
<1> SUFFICES ASSUME Init PROVE Inv
  OBVIOUS
<1>1. TypeOK
  BY InitType
<1>2. /\ \A d \in Documents : /\ row[d].status = "absent" /\ ~row[d].esId /\ ~row[d].qdId
      /\ \A w \in Workers : task[w].pc = "idle"
  BY DEF Init, Fresh, Idle
<1>3. \A w \in Workers : RunFine(w)
  BY <1>2, Literals DEF RunFine
<1> QED
  BY <1>1, <1>2, <1>3 DEF Inv, StagedAbsent, StatusRecorded, IdsBacked, Init

\* Every step keeps the invariant and the rows.
LEMMA NextInv == Inv /\ [Next]_vars => Inv' /\ Kept
<1> SUFFICES ASSUME Inv, [Next]_vars PROVE Inv' /\ Kept
  OBVIOUS
<1>1. ASSUME NEW d \in Documents, ApiRequest(d) \/ ApiFinish(d) PROVE Inv' /\ Kept
  BY <1>1, UploadStageInv, BulkUploadInv, RetryStageInv, RetryNoFileInv, CancelInv,
     ReindexDocumentInv, BulkArchiveInv, BulkDeleteInv, UploadCommitInv,
     BulkPublishInv, RetryCommitInv
     DEF ApiRequest, ApiFinish
<1>2. ASSUME NEW w \in Workers, ProcessStep(w) PROVE Inv' /\ Kept
  BY <1>2, BeginInv, ScanInv, ActOnVerdictInv, ExtractInv, ReadMetadataInv,
     IndexElasticsearchInv, CommitElasticsearchInv, SkipQdrantInv, IndexQdrantInv,
     CommitQdrantInv, SettleInv
     DEF ProcessStep
<1>3. ASSUME NEW w \in Workers, StartSweep(w) \/ SweepStep(w) \/ BreakOff(w) PROVE Inv' /\ Kept
  BY <1>3, StartSweepInv, SweepFlipInv, SweepPublishInv, BreakOffInv DEF SweepStep
<1>4. ASSUME NEW w \in Workers, NEW d \in Documents, Take(w, d) PROVE Inv' /\ Kept
  BY <1>4, TakeInv
<1>5. CASE ScanAll \/ BeatTick \/ FailStuckDocuments
  BY <1>5, ScanAllInv, BeatTickInv, FailStuckDocumentsInv
<1>6. CASE UNCHANGED vars
  <2>1. TypeOK' /\ StagedAbsent'
    BY <1>6 DEF vars, Inv, TypeOK, StagedAbsent
  <2> QED
    BY <1>6, <2>1, RowsAlone DEF vars
<1> QED
  BY <1>1, <1>2, <1>3, <1>4, <1>5, <1>6 DEF Next

\* The invariant holds throughout.
LEMMA Invariance == Spec => []Inv
  BY InitInv, NextInv, PTL DEF Spec

\* Every reachable state is well typed, and a worker in a run has a document.
THEOREM TypeCorrect == Spec => []TypeOK
<1>1. Inv => TypeOK
  BY DEF Inv
<1> QED
  BY <1>1, Invariance, PTL

\* An id in a row always points at an entry the store holds.
THEOREM IdsAreBacked == Spec => []IdsBacked
<1>1. Inv => IdsBacked
  BY DEF Inv
<1> QED
  BY <1>1, Invariance, PTL

\* "indexed", "stored" and "partially_indexed" are true of the search engines
\* in every reachable state.
THEOREM FinalStatusIsTruthful == Spec => []FinalStatusTruthful
<1>1. Inv => FinalStatusTruthful
  BY DEF Inv, IdsBacked, StatusRecorded, FinalStatusTruthful
<1> QED
  BY <1>1, Invariance, PTL

\* In strict mode a document that never gets a good verdict is in no index.
THEOREM TaintedIsNeverSearchable == Spec => []TaintedNeverSearchable
<1>1. Inv => TaintedNeverSearchable
  BY DEF Inv, Tainted, TaintedNeverSearchable
<1> QED
  BY <1>1, Invariance, PTL

\* No run, retry or sweep brings a removed row back.
THEOREM RemovedRowStaysRemoved == Spec => RemovedStaysRemoved
<1>1. Inv /\ [Next]_vars =>
        [\A d \in Documents :
            row[d].status = "deleted" => row'[d].status = "deleted"]_vars
  BY NextInv DEF RowKept, Exists
<1> QED
  BY <1>1, Invariance, PTL DEF Spec, RemovedStaysRemoved

-----------------------------------------------------------------------------
(* Deletions between the steps of the pipeline.  Of the pipeline they use  *)
(* only that no step makes a row absent again and that files appear for    *)
(* absent rows only: GoesOn.                                               *)

-----------------------------------------------------------------------------
(* What the steps of the pipeline do to rows and files                     *)

\* The part of the pipeline's types this takes.
Sound == /\ row \in [Documents -> Row]
         /\ task \in [Workers -> Task]
         /\ \A w \in Workers : task[w].pc \in Steps \cup {"publish"}
                                  => task[w].doc \in Documents

GoesOn ==
    /\ Sound'
    /\ \A d \in Documents :
          /\ row[d].status # "absent" => row'[d].status # "absent"
          /\ d \in file' => d \in file \/ row[d].status = "absent"

\* Only row c is written, and not to make it absent.
RowWritten(c) ==
    /\ row' \in [Documents -> Row]
    /\ \A x \in Documents \ {c} : row'[x] = row[x]
    /\ row'[c].status \in {row[c].status} \cup (Statuses \ {"absent"})

\* Only worker w goes on, with a document wherever one is needed.
TaskGoesOn(w) ==
    /\ OnlyTask(w)
    /\ task'[w].pc \in Steps \cup {"publish"} => task'[w].doc \in Documents

\* A step of the API on one row, which may write the file of an absent one.
LEMMA ApiGoesOn ==
    ASSUME Sound, NEW c \in Documents, UNCHANGED task,
           UNCHANGED row \/ RowWritten(c),
           \/ UNCHANGED file
           \/ row[c].status = "absent" /\ file' \in {file, file \cup {c}}
    PROVE  GoesOn
<1>1. Sound'
  BY DEF Sound, RowWritten
<1> QED
  BY <1>1 DEF GoesOn, RowWritten

\* A step of a worker on one row.
LEMMA WorkerGoesOn ==
    ASSUME Sound, NEW w \in Workers, NEW c \in Documents, UNCHANGED file,
           UNCHANGED row \/ RowWritten(c), UNCHANGED task \/ TaskGoesOn(w)
    PROVE  GoesOn
<1>1. Sound'
  BY DEF Sound, RowWritten, TaskGoesOn
<1> QED
  BY <1>1 DEF GoesOn, RowWritten

\* A step that writes neither rows nor files.
LEMMA IdleGoesOn ==
    ASSUME Sound, UNCHANGED <<row, file>>,
           UNCHANGED task \/ \E w \in Workers : TaskGoesOn(w)
    PROVE  GoesOn
<1>1. Sound'
  BY DEF Sound, TaskGoesOn
<1> QED
  BY <1>1 DEF GoesOn

\* Any status write to a status but "absent" counts.
LEMMA MarkWritten ==
    ASSUME Sound, NEW c \in Documents, NEW s \in Statuses \ {"absent"},
           \/ SetStatus(c, s)
           \/ \E e \in Errors : Mark(c, s, e)
           \/ row' = [row EXCEPT ![c] = Fresh(s)]
    PROVE  RowWritten(c)
<1>1. row \in [Documents -> Row] /\ s \in Statuses
  BY DEF Sound
<1>2. /\ row' \in [Documents -> Row]
      /\ \A x \in Documents \ {c} : row'[x] = row[x]
      /\ row'[c].status = s
  BY <1>1, MarkEffect, SetStatusEffect, FreshEffect
<1> QED
  BY <1>2 DEF RowWritten

\* A step within a run, and one that ends it.
LEMMA TaskMoves ==
    ASSUME Sound, NEW w \in Workers, task[w].pc \in Steps \cup {"publish"},
           Release(w) \/ \E p \in Steps : Goto(w, p)
    PROVE  TaskGoesOn(w)
<1>1. task \in [Workers -> Task] /\ task[w].doc \in Documents
  BY DEF Sound
<1>2. CASE Release(w)
  BY <1>1, <1>2, ReleaseEffect, Literals DEF TaskGoesOn
<1>3. ASSUME NEW p \in Steps, Goto(w, p) PROVE TaskGoesOn(w)
  BY <1>1, <1>3, GotoEffect DEF TaskGoesOn
<1> QED
  BY <1>2, <1>3

-----------------------------------------------------------------------------
(* Action by action                                                        *)

USE DEF stores, bounds, At, Doc

\* Handlers.
LEMMA ApiRequestGoesOn ==
    ASSUME Sound, NEW d \in Documents, ApiRequest(d) PROVE GoesOn
<1>1. CASE UploadStage(d)
  BY <1>1, ApiGoesOn DEF UploadStage
<1>2. CASE BulkUpload(d)
  <2>1. PICK s \in {"pending"} : row' = [row EXCEPT ![d] = Fresh(s)]
    BY <1>2 DEF BulkUpload
  <2>2. RowWritten(d)
    BY <2>1, MarkWritten, Literals
  <2> QED
    BY <1>2, <2>2, ApiGoesOn DEF BulkUpload
<1>3. CASE RetryStage(d) \/ RetryNoFile(d) \/ ReindexDocument(d)
  BY <1>3, ApiGoesOn DEF RetryStage, RetryNoFile, ReindexDocument
<1>4. CASE Cancel(d)
  <2>1. RowWritten(d)
    BY <1>4, MarkWritten, Literals DEF Cancel
  <2> QED
    BY <1>4, <2>1, ApiGoesOn DEF Cancel
<1>5. CASE BulkArchive(d)
  <2>1. RowWritten(d)
    BY <1>5, MarkWritten, Literals DEF BulkArchive
  <2> QED
    BY <1>5, <2>1, ApiGoesOn DEF BulkArchive
<1>6. CASE BulkDelete(d)
  <2>1. PICK s \in {"deleted"} : row' = [row EXCEPT ![d] = Fresh(s)]
    BY <1>6 DEF BulkDelete
  <2>2. RowWritten(d)
    BY <2>1, MarkWritten, Literals
  <2> QED
    BY <1>6, <2>2, ApiGoesOn DEF BulkDelete
<1> QED
  BY <1>1, <1>2, <1>3, <1>4, <1>5, <1>6 DEF ApiRequest

\* What is left of a handler.
LEMMA ApiFinishGoesOn ==
    ASSUME Sound, NEW d \in Documents, ApiFinish(d) PROVE GoesOn
<1>1. CASE UploadCommit(d)
  <2>1. PICK s \in {"uploaded", "deleted"} : row' = [row EXCEPT ![d] = Fresh(s)]
    BY <1>1 DEF UploadCommit
  <2>2. RowWritten(d)
    BY <2>1, MarkWritten, Literals
  <2> QED
    BY <1>1, <2>2, ApiGoesOn DEF UploadCommit
<1>2. CASE BulkPublish(d)
  BY <1>2, ApiGoesOn DEF BulkPublish
<1>3. CASE RetryCommit(d)
  <2>1. Mark(d, "uploaded", "none") \/ UNCHANGED row
    BY <1>3 DEF RetryCommit
  <2>2. RowWritten(d) \/ UNCHANGED row
    BY <2>1, MarkWritten, Literals
  <2> QED
    BY <1>3, <2>2, ApiGoesOn DEF RetryCommit
<1> QED
  BY <1>1, <1>2, <1>3 DEF ApiFinish

\* A run ends, fails or goes on, and writes its row alone.
LEMMA RunGoesOn ==
    ASSUME Sound, NEW w \in Workers, task[w].pc \in Steps, UNCHANGED file,
           UNCHANGED row \/ RowWritten(Doc(w)),
           Release(w) \/ \E p \in Steps : Goto(w, p)
    PROVE  GoesOn
  BY TaskMoves, WorkerGoesOn DEF Sound

\* The first half of process_document.
LEMMA EarlyGoesOn ==
    ASSUME Sound, NEW w \in Workers, Begin(w) \/ ActOnVerdict(w) \/ Extract(w) \/ ReadMetadata(w)
    PROVE  GoesOn
<1>1. /\ task[w].pc \in Steps /\ Doc(w) \in Documents /\ UNCHANGED file
  BY Literals DEF Begin, ActOnVerdict, Extract, ReadMetadata, Sound
<1>2. \/ UNCHANGED row
      \/ Fail(Doc(w))
      \/ SetStatus(Doc(w), "processing")
      \/ SetStatus(Doc(w), "text_extracted")
  BY DEF Begin, ActOnVerdict, Extract, ReadMetadata, RowGone
<1>3. UNCHANGED row \/ RowWritten(Doc(w))
  BY <1>1, <1>2, MarkWritten, Literals DEF Fail
<1>4. Release(w) \/ \E p \in Steps : Goto(w, p)
  BY Literals DEF Begin, ActOnVerdict, Extract, ReadMetadata, RowGone
<1> QED
  BY <1>1, <1>3, <1>4, RunGoesOn

\* The steps that remember something.
LEMMA RememberGoesOn ==
    ASSUME Sound, NEW w \in Workers,
           Scan(w) \/ CommitElasticsearch(w) \/ SkipQdrant(w) \/ CommitQdrant(w)
    PROVE  GoesOn
<1>1. /\ task[w].pc \in Steps /\ Doc(w) \in Documents /\ UNCHANGED file
      /\ row \in [Documents -> Row] /\ task \in [Workers -> Task]
  BY Literals DEF Scan, CommitElasticsearch, SkipQdrant, CommitQdrant, Sound
<1>2. CASE RowGone(w)
  BY <1>1, <1>2, RunGoesOn DEF RowGone
<1>3. ASSUME NEW v \in Verdicts[Doc(w)], row' = [row EXCEPT ![Doc(w)].scan = v],
             task' = [task EXCEPT ![w].pc = "verdict", ![w].verdict = v]
      PROVE  GoesOn
  <2>1. v \in ScanVerdicts
    BY <1>1, VerdictType
  <2>2. RowWritten(Doc(w))
    BY <1>1, <1>3, <2>1, ScanEffect DEF RowWritten
  <2>3. TaskGoesOn(w)
    BY <1>1, <1>3, <2>1, VerdictEffect, Literals DEF TaskGoesOn
  <2> QED
    BY <1>1, <2>2, <2>3, WorkerGoesOn
<1>4. ASSUME row' = [row EXCEPT ![Doc(w)].esId = TRUE],
             task' = [task EXCEPT ![w].pc = "qd", ![w].esOk = TRUE]
      PROVE  GoesOn
  <2>1. RowWritten(Doc(w))
    BY <1>1, <1>4, EsIdEffect DEF RowWritten
  <2>2. TaskGoesOn(w)
    BY <1>1, <1>4, EsOkEffect, Literals DEF TaskGoesOn
  <2> QED
    BY <1>1, <2>1, <2>2, WorkerGoesOn
<1>5. ASSUME NEW b \in BOOLEAN, row' = [row EXCEPT ![Doc(w)].qdId = b],
             task' = [task EXCEPT ![w].pc = "final", ![w].qdOk = TRUE]
      PROVE  GoesOn
  <2>1. RowWritten(Doc(w))
    BY <1>1, <1>5, QdIdEffect DEF RowWritten
  <2>2. TaskGoesOn(w)
    BY <1>1, <1>5, QdOkEffect, Literals DEF TaskGoesOn
  <2> QED
    BY <1>1, <2>1, <2>2, WorkerGoesOn
<1> QED
  BY <1>2, <1>3, <1>4, <1>5 DEF Scan, CommitElasticsearch, SkipQdrant, CommitQdrant

\* The calls to the engines, and the end of a run.
LEMMA LateGoesOn ==
    ASSUME Sound, NEW w \in Workers,
           IndexElasticsearch(w) \/ IndexQdrant(w) \/ Settle(w)
    PROVE  GoesOn
<1>1. /\ task[w].pc \in Steps /\ Doc(w) \in Documents /\ UNCHANGED file
  BY Literals DEF IndexElasticsearch, IndexQdrant, Settle, Sound
<1>2. \/ UNCHANGED row
      \/ SetStatus(Doc(w), Outcome(w))
      \/ Mark(Doc(w), Outcome(w), "other")
  BY DEF IndexElasticsearch, IndexQdrant, Settle, RowGone
<1>3. Outcome(w) \in Statuses \ {"absent"}
  BY OutcomeType, Literals
<1>4. UNCHANGED row \/ RowWritten(Doc(w))
  BY <1>1, <1>2, <1>3, MarkWritten, Literals
<1>5. Release(w) \/ \E p \in Steps : Goto(w, p)
  BY Literals DEF IndexElasticsearch, IndexQdrant, Settle, RowGone
<1> QED
  BY <1>1, <1>4, <1>5, RunGoesOn

\* The sweep.
LEMMA SweepGoesOn ==
    ASSUME Sound, NEW w \in Workers, StartSweep(w) \/ SweepStep(w)
    PROVE  GoesOn
<1>1. task \in [Workers -> Task] /\ row \in [Documents -> Row]
  BY DEF Sound
<1>2. ASSUME NEW list \in SUBSET Documents,
             task' = [task EXCEPT ![w] = [Idle EXCEPT !.pc = "sweep", !.todo = list]]
      PROVE  TaskGoesOn(w)
  BY <1>1, <1>2, ListEffect, Literals DEF TaskGoesOn
<1>3. CASE StartSweep(w)
  <2>1. ASSUME NEW list \in Listed PROVE list \in SUBSET Documents
    BY DEF Listed, AtLimit, Waiting
  <2>2. UNCHANGED task \/ TaskGoesOn(w)
    BY <1>2, <1>3, <2>1 DEF StartSweep
  <2> QED
    BY <1>3, <2>2, IdleGoesOn DEF StartSweep
<1>4. CASE SweepPublish(w)
  <2>1. task[w].todo \in SUBSET Documents
    BY <1>1 DEF Task
  <2>2. TaskGoesOn(w)
    BY <1>2, <1>4, <2>1, TaskMoves DEF SweepPublish
  <2> QED
    BY <1>4, <2>2, IdleGoesOn DEF SweepPublish
<1>5. ASSUME NEW d \in Documents, SweepFlip(w, d) PROVE GoesOn
  <2>1. CASE Release(w) /\ UNCHANGED row
    <3>1. TaskGoesOn(w)
      BY <1>1, <2>1, ReleaseEffect, Literals DEF TaskGoesOn
    <3> QED
      BY <1>5, <2>1, <3>1, IdleGoesOn DEF SweepFlip
  <2>2. ASSUME SetStatus(d, "processing"),
               task' = [task EXCEPT ![w] = [Idle EXCEPT !.pc = "publish", !.doc = d,
                                                  !.todo = task[w].todo \ {d}]]
        PROVE  GoesOn
    <3>1. RowWritten(d)
      BY <2>2, MarkWritten, Literals
    <3>2. task[w].todo \ {d} \in SUBSET Documents
      BY <1>1 DEF Task
    <3>3. TaskGoesOn(w)
      <4> DEFINE rest == task[w].todo \ {d}
      <4> HIDE DEF rest
      <4>1. task' = [task EXCEPT ![w] = [Idle EXCEPT !.pc = "publish", !.doc = d,
                                               !.todo = rest]]
        BY <2>2 DEF rest
      <4>2. rest \in SUBSET Documents
        BY <3>2 DEF rest
      <4>3. OnlyTask(w) /\ task'[w].pc = "publish" /\ task'[w].doc = d
        BY <1>1, <4>1, <4>2, FlipEffect
      <4> QED
        BY <4>3 DEF TaskGoesOn
    <3> QED
      BY <1>5, <3>1, <3>3, WorkerGoesOn DEF SweepFlip
  <2> QED
    BY <1>5, <2>1, <2>2 DEF SweepFlip
<1> QED
  BY <1>3, <1>4, <1>5 DEF SweepStep

\* No step of the pipeline makes a row absent or writes the file of a row
\* that is there, or was.
LEMMA PipelineGoesOn == ASSUME Sound, [Next]_vars PROVE GoesOn
<1>1. ASSUME NEW w \in Workers, NEW d \in Documents, Take(w, d) PROVE GoesOn
  <2>1. TaskGoesOn(w)
    <3>1. task \in [Workers -> Task]
      BY DEF Sound
    <3>2. task' = [task EXCEPT ![w] = [Idle EXCEPT !.pc = "start", !.doc = d]]
      BY <1>1 DEF Take
    <3>3. OnlyTask(w) /\ task'[w].pc = "start" /\ task'[w].doc = d
      BY <3>1, <3>2, TakeEffect
    <3> QED
      BY <3>3 DEF TaskGoesOn
  <2> QED
    BY <1>1, <2>1, IdleGoesOn DEF Take
<1>2. ASSUME NEW w \in Workers, BreakOff(w) PROVE GoesOn
  <2>1. TaskGoesOn(w)
    BY <1>2, ReleaseEffect, Literals DEF BreakOff, TaskGoesOn, Sound
  <2> QED
    BY <1>2, <2>1, IdleGoesOn DEF BreakOff
<1>3. CASE ScanAll \/ BeatTick \/ FailStuckDocuments \/ UNCHANGED vars
  BY <1>3, IdleGoesOn DEF ScanAll, BeatTick, FailStuckDocuments, vars
<1>4. ASSUME NEW w \in Workers, ProcessStep(w) PROVE GoesOn
  BY <1>4, EarlyGoesOn, RememberGoesOn, LateGoesOn DEF ProcessStep
<1> QED
  BY <1>1, <1>2, <1>3, <1>4, ApiRequestGoesOn, ApiFinishGoesOn, SweepGoesOn DEF Next

-----------------------------------------------------------------------------
(* The inductive invariant of the deletions                                *)

\* A row that was fetched is never absent again, so nothing writes its file;
\* a deletion about to remove the row has dealt with the file.
GoneInv ==
    /\ Sound /\ DeletionTypeOK
    /\ \A r \in Deleters :
          /\ del[r].pc # "new" => row[Doomed(r)].status # "absent"
          /\ del[r].pc = "finalize" => Doomed(r) \notin file
    /\ \A d \in removed : row[d].status # "absent" /\ d \notin file

\* Deletion r has gone on to pc; its document and ids, and the other
\* deletions, are as they were.
DelGoesOn(r, pc) ==
    /\ del' \in [Deleters -> Deletion]
    /\ \A x \in Deleters \ {r} : del'[x] = del[x]
    /\ del'[r].pc = pc /\ del'[r].doc = del[r].doc
    /\ del'[r].qdId = del[r].qdId

\* The steps of a deletion under way.
LEMMA DeletionLiterals ==
    Active = {"checkEs", "checkQd", "deleteEs", "deleteQd", "unlink", "finalize",
              "restoreEs", "restoreQd"}
  BY DEF Active

\* One deletion is written.
LEMMA DelWritten ==
    ASSUME del \in [Deleters -> Deletion], NEW r \in Deleters, NEW new \in Deletion,
           del' = [del EXCEPT ![r] = new]
    PROVE  /\ del' \in [Deleters -> Deletion] /\ del'[r] = new
           /\ \A x \in Deleters \ {r} : del'[x] = del[x]
  OBVIOUS

\* A deletion moves on.
LEMMA AdvanceEffect ==
    ASSUME del \in [Deleters -> Deletion], NEW r \in Deleters,
           NEW pc \in Active \cup {"new", "succeeded", "failed", "aborted"},
           Advance(r, pc)
    PROVE  DelGoesOn(r, pc) /\ del'[r].inQd = del[r].inQd
<1> DEFINE new == [del[r] EXCEPT !.pc = pc]
<1>1. new \in Deletion /\ new.pc = pc /\ new.doc = del[r].doc
  BY DEF Deletion
<1>2. new.qdId = del[r].qdId /\ new.inQd = del[r].inQd
  BY DEF Deletion
<1>3. del' = [del EXCEPT ![r] = new]
  BY DEF Advance
<1> HIDE DEF new
<1>4. /\ del' \in [Deleters -> Deletion] /\ del'[r] = new
      /\ \A x \in Deleters \ {r} : del'[x] = del[x]
  BY <1>1, <1>3, DelWritten
<1> QED
  BY <1>1, <1>2, <1>4 DEF DelGoesOn

\* It remembers whether Elasticsearch has the document.
LEMMA InEsEffect ==
    ASSUME del \in [Deleters -> Deletion], NEW r \in Deleters,
           NEW pc \in Active, NEW b \in BOOLEAN,
           del' = [del EXCEPT ![r] = [@ EXCEPT !.pc = pc, !.inEs = b]]
    PROVE  DelGoesOn(r, pc) /\ del'[r].inQd = del[r].inQd
<1> DEFINE new == [del[r] EXCEPT !.pc = pc, !.inEs = b]
<1>1. new \in Deletion /\ new.pc = pc /\ new.doc = del[r].doc
  BY DEF Deletion
<1>2. new.qdId = del[r].qdId /\ new.inQd = del[r].inQd
  BY DEF Deletion
<1>3. del' = [del EXCEPT ![r] = new]
  OBVIOUS
<1> HIDE DEF new
<1>4. /\ del' \in [Deleters -> Deletion] /\ del'[r] = new
      /\ \A x \in Deleters \ {r} : del'[x] = del[x]
  BY <1>1, <1>3, DelWritten, Zenon
<1> QED
  BY <1>1, <1>2, <1>4, Zenon DEF DelGoesOn

\* It remembers whether Qdrant and the disk have it.
LEMMA InQdEffect ==
    ASSUME del \in [Deleters -> Deletion], NEW r \in Deleters,
           NEW pc \in Active, NEW b \in BOOLEAN, NEW c \in BOOLEAN,
           del' = [del EXCEPT ![r] = [@ EXCEPT !.pc = pc, !.inQd = b, !.onDisk = c]]
    PROVE  DelGoesOn(r, pc) /\ del'[r].inQd = b
<1> DEFINE new == [del[r] EXCEPT !.pc = pc, !.inQd = b, !.onDisk = c]
<1>1. new \in Deletion /\ new.pc = pc /\ new.doc = del[r].doc
  BY DEF Deletion
<1>2. new.qdId = del[r].qdId /\ new.inQd = b
  BY DEF Deletion
<1>3. del' = [del EXCEPT ![r] = new]
  OBVIOUS
<1> HIDE DEF new
<1>4. /\ del' \in [Deleters -> Deletion] /\ del'[r] = new
      /\ \A x \in Deleters \ {r} : del'[x] = del[x]
  BY <1>1, <1>3, DelWritten, Zenon
<1> QED
  BY <1>1, <1>2, <1>4, Zenon DEF DelGoesOn

\* A deletion starts.
LEMMA FetchEffect ==
    ASSUME del \in [Deleters -> Deletion], NEW r \in Deleters, NEW d \in Documents,
           NEW b \in BOOLEAN, NEW c \in BOOLEAN,
           del' = [del EXCEPT ![r] = [NewDeletion EXCEPT
                     !.pc = "checkEs", !.doc = d, !.esId = b, !.qdId = c]]
    PROVE  /\ del' \in [Deleters -> Deletion]
           /\ \A x \in Deleters \ {r} : del'[x] = del[x]
           /\ del'[r].pc = "checkEs" /\ del'[r].doc = d
           /\ del'[r].qdId = c /\ ~del'[r].inQd
<1> DEFINE new == [NewDeletion EXCEPT !.pc = "checkEs", !.doc = d, !.esId = b, !.qdId = c]
<1>1. new \in Deletion
  BY DEF Deletion, NewDeletion, Active
<1>2. new.pc = "checkEs" /\ new.doc = d /\ new.qdId = c /\ ~new.inQd
  BY DEF NewDeletion
<1>3. del' = [del EXCEPT ![r] = new]
  OBVIOUS
<1> HIDE DEF new
<1> QED
  BY <1>1, <1>2, <1>3, DelWritten

\* A step of deletion r that writes no row, and may unlink a file.
LEMMA DeleterKeeps ==
    ASSUME GoneInv, NEW r \in Deleters, NEW pc \in Active \cup {"succeeded", "failed", "aborted"},
           del[r].pc # "new", DelGoesOn(r, pc),
           UNCHANGED <<row, task, removed>>, file' \subseteq file,
           faults' \in {faults, faults + 1},
           pc = "finalize" => del[r].doc \notin file'
    PROVE  GoneInv'
<1>1. Sound'
  BY DEF GoneInv, Sound
<1>2. DeletionTypeOK'
  BY DEF GoneInv, DeletionTypeOK, DelGoesOn
<1>3. \A x \in Deleters :
         /\ del'[x].pc # "new" => row[del'[x].doc].status # "absent"
         /\ del'[x].pc = "finalize" => del'[x].doc \notin file'
  BY DEF GoneInv, DelGoesOn, Doomed
<1> QED
  BY <1>1, <1>2, <1>3 DEF GoneInv, Doomed

\* Steps before the row goes.
LEMMA EarlyDeletion ==
    ASSUME GoneInv, NEW r \in Deleters,
           \/ CheckElasticsearch(r) \/ CheckQdrantAndDisk(r)
           \/ DeleteElasticsearch(r) \/ DeleteQdrant(r)
    PROVE  GoneInv'
<1>1. /\ del[r].pc # "new" /\ del \in [Deleters -> Deletion]
      /\ UNCHANGED <<row, task, removed, file>> /\ faults' \in {faults, faults + 1}
  BY DEF CheckElasticsearch, CheckQdrantAndDisk, DeleteElasticsearch, DeleteQdrant,
         Busy, Fault, pipeline, GoneInv, DeletionTypeOK
<1>2. \E pc \in Active \ {"finalize"} : DelGoesOn(r, pc)
  <2>1. CASE CheckElasticsearch(r)
    <3>1. PICK b : \/ del' = [del EXCEPT ![r] = [@ EXCEPT !.pc = "checkQd", !.inEs = b]]
                      /\ b = (del[r].esId /\ Doomed(r) \in es)
                   \/ Advance(r, "checkQd")
      BY <2>1 DEF CheckElasticsearch
    <3>2. b \in BOOLEAN \/ Advance(r, "checkQd")
      BY <3>1
    <3> QED
      BY <1>1, <3>1, <3>2, InEsEffect, AdvanceEffect, DeletionLiterals
  <2>2. CASE CheckQdrantAndDisk(r)
    <3>1. PICK found \in BOOLEAN :
             del' = [del EXCEPT ![r] = [@ EXCEPT !.pc = "deleteEs", !.inQd = found,
                                           !.onDisk = Doomed(r) \in file]]
      BY <2>2 DEF CheckQdrantAndDisk
    <3>2. (Doomed(r) \in file) \in BOOLEAN
      OBVIOUS
    <3> QED
      BY <1>1, <3>1, <3>2, InQdEffect, DeletionLiterals
  <2>3. CASE DeleteElasticsearch(r) \/ DeleteQdrant(r)
    <3>1. \E pc \in {"restoreEs", "deleteQd", "unlink"} : Advance(r, pc)
      BY <2>3 DEF DeleteElasticsearch, DeleteQdrant
    <3> QED
      BY <1>1, <3>1, AdvanceEffect, DeletionLiterals
  <2> QED
    BY <2>1, <2>2, <2>3
<1> QED
  BY <1>1, <1>2, DeleterKeeps

\* The file is off the disk when the row is about to go.
LEMMA UnlinkGone == ASSUME GoneInv, NEW r \in Deleters, Unlink(r) PROVE GoneInv'
<1>1. /\ del[r].pc # "new" /\ del \in [Deleters -> Deletion]
      /\ UNCHANGED <<row, task, removed>> /\ faults' \in {faults, faults + 1}
  BY DEF Unlink, Busy, Fault, pipeline, GoneInv, DeletionTypeOK
<1>2. CASE file' = file \ {Doomed(r)} /\ Advance(r, "finalize")
  <2>1. DelGoesOn(r, "finalize")
    BY <1>1, <1>2, AdvanceEffect, DeletionLiterals
  <2> QED
    BY <1>1, <1>2, <2>1, DeleterKeeps, DeletionLiterals DEF Doomed
<1>3. CASE UNCHANGED file /\ Advance(r, "restoreEs")
  <2>1. DelGoesOn(r, "restoreEs")
    BY <1>1, <1>3, AdvanceEffect, DeletionLiterals
  <2> QED
    BY <1>1, <1>3, <2>1, DeleterKeeps, DeletionLiterals
<1> QED
  BY <1>2, <1>3 DEF Unlink

\* The rollback, and a deletion cut off.
LEMMA LateDeletion ==
    ASSUME GoneInv, NEW r \in Deleters,
           RestoreElasticsearch(r) \/ RestoreQdrant(r) \/ Abort(r)
    PROVE  GoneInv'
<1>1. /\ del[r].pc # "new" /\ del \in [Deleters -> Deletion]
      /\ UNCHANGED <<row, task, removed, file>> /\ faults' \in {faults, faults + 1}
  BY DeletionLiterals DEF RestoreElasticsearch, RestoreQdrant, Abort, Busy, Fault,
         pipeline, GoneInv, DeletionTypeOK
<1>2. \E pc \in {"restoreQd", "failed", "aborted"} : Advance(r, pc)
  BY DEF RestoreElasticsearch, RestoreQdrant, Abort
<1>3. \E pc \in {"restoreQd", "failed", "aborted"} : DelGoesOn(r, pc)
  BY <1>1, <1>2, AdvanceEffect, DeletionLiterals
<1> QED
  BY <1>1, <1>3, DeleterKeeps, DeletionLiterals

\* A deletion that removes the row has removed the file.
LEMMA FinalizeGone == ASSUME GoneInv, NEW r \in Deleters, Finalize(r) PROVE GoneInv'
<1> DEFINE d == del[r].doc
<1>1. /\ del[r].pc = "finalize" /\ del \in [Deleters -> Deletion] /\ d \in Documents
      /\ UNCHANGED <<task, file>> /\ faults' \in {faults, faults + 1}
  BY DEF Finalize, Busy, Fault, pipeline, GoneInv, DeletionTypeOK
<1>2. PICK pc \in {"succeeded", "failed", "restoreEs"} : DelGoesOn(r, pc)
  <2>1. PICK pc \in {"succeeded", "failed", "restoreEs"} : Advance(r, pc)
    BY DEF Finalize
  <2> QED
    BY <1>1, <2>1, AdvanceEffect, DeletionLiterals
<1>3. CASE UNCHANGED <<row, removed>>
  BY <1>1, <1>2, <1>3, DeleterKeeps, DeletionLiterals
<1>4. CASE RemoveRow(d)
  <2>1. UNCHANGED row \/ row' = [row EXCEPT ![d] = Fresh("deleted")]
    BY <1>4 DEF RemoveRow
  <2>2. UNCHANGED row \/ RowWritten(d)
    <3>1. CASE UNCHANGED row
      BY <3>1
    <3>2. ASSUME NEW s \in {"deleted"}, row' = [row EXCEPT ![d] = Fresh(s)]
          PROVE  RowWritten(d)
      BY <1>1, <3>2, MarkWritten, Literals DEF GoneInv
    <3> QED
      BY <2>1, <3>1, <3>2
  <2>3. GoesOn
    BY <1>1, <2>2, ApiGoesOn DEF GoneInv
  <2>4. removed' = removed \cup {d} /\ row[d].status # "absent" /\ d \notin file
    BY <1>1, <1>4 DEF RemoveRow, GoneInv, Doomed
  <2>5. DeletionTypeOK'
    BY <1>1, <1>2, <2>4 DEF GoneInv, DeletionTypeOK, DelGoesOn
  <2>6. \A x \in Deleters :
           /\ del'[x].pc # "new" => row'[del'[x].doc].status # "absent"
           /\ del'[x].pc = "finalize" => del'[x].doc \notin file'
    BY <1>1, <1>2, <2>3, <2>4
       DEF GoneInv, DelGoesOn, GoesOn, Doomed, DeletionTypeOK
  <2>7. \A x \in removed' : row'[x].status # "absent" /\ x \notin file'
    BY <1>1, <2>3, <2>4 DEF GoneInv, GoesOn, DeletionTypeOK
  <2> QED
    BY <2>3, <2>5, <2>6, <2>7 DEF GoneInv, GoesOn, Doomed
<1> QED
  BY <1>3, <1>4 DEF Finalize, Doomed

\* A deletion starts on a row that is there.
LEMMA FetchGone ==
    ASSUME GoneInv, NEW r \in Deleters, NEW d \in Documents, Fetch(r, d) PROVE GoneInv'
<1>1. /\ del \in [Deleters -> Deletion] /\ row \in [Documents -> Row]
      /\ UNCHANGED <<row, task, removed, file, faults>> /\ row[d].status # "absent"
  BY DEF Fetch, Exists, pipeline, GoneInv, DeletionTypeOK, Sound
<1>2. row[d].esId \in BOOLEAN /\ row[d].qdId \in BOOLEAN
  BY <1>1 DEF Row
<1>3. /\ del' \in [Deleters -> Deletion]
      /\ \A x \in Deleters \ {r} : del'[x] = del[x]
      /\ del'[r].pc = "checkEs" /\ del'[r].doc = d
  BY <1>1, <1>2, FetchEffect DEF Fetch
<1>4. Sound' /\ DeletionTypeOK'
  BY <1>1, <1>3 DEF GoneInv, Sound, DeletionTypeOK
<1> QED
  BY <1>1, <1>3, <1>4 DEF GoneInv, Doomed

\* Steps of the pipeline leave deletions alone.
LEMMA PipelineGone ==
    ASSUME GoneInv, [Next]_vars, UNCHANGED <<del, removed, faults>> PROVE GoneInv'
<1>1. GoesOn
  BY PipelineGoesOn DEF GoneInv
<1>2. DeletionTypeOK'
  BY DEF GoneInv, DeletionTypeOK
<1>3. \A r \in Deleters :
         /\ del'[r].pc # "new" => row'[del'[r].doc].status # "absent"
         /\ del'[r].pc = "finalize" => del'[r].doc \notin file'
  BY <1>1 DEF GoneInv, GoesOn, Doomed, DeletionTypeOK
<1>4. \A x \in removed' : row'[x].status # "absent" /\ x \notin file'
  BY <1>1 DEF GoneInv, GoesOn, DeletionTypeOK
<1> QED
  BY <1>1, <1>2, <1>3, <1>4 DEF GoneInv, GoesOn, Doomed

-----------------------------------------------------------------------------
(* The theorems                                                            *)

\* The invariant holds initially.
LEMMA GoneInit == DeletionInit => GoneInv
<1> SUFFICES ASSUME DeletionInit PROVE GoneInv
  OBVIOUS
<1>1. row \in [Documents -> Row]
  BY DEF DeletionInit, Init, Row, Fresh, Statuses, Errors
<1>2. task \in [Workers -> Task] /\ \A w \in Workers : task[w].pc = "idle"
  BY DEF DeletionInit, Init, Task, Idle
<1>3. DeletionTypeOK /\ \A r \in Deleters : del[r].pc = "new"
  BY DEF DeletionInit, DeletionTypeOK, NewDeletion, Deletion
<1> QED
  BY <1>1, <1>2, <1>3, Literals DEF GoneInv, Sound, DeletionInit

\* Every step keeps it.
LEMMA GoneNext == GoneInv /\ [DeletionNext]_delVars => GoneInv'
<1> SUFFICES ASSUME GoneInv, [DeletionNext]_delVars PROVE GoneInv'
  OBVIOUS
<1>1. CASE (Next \/ UNCHANGED vars) /\ UNCHANGED <<del, removed, faults>>
  BY <1>1, PipelineGone
<1>2. ASSUME NEW r \in Deleters, DeletionStep(r) PROVE GoneInv'
  BY <1>2, FetchGone, EarlyDeletion, UnlinkGone, FinalizeGone, LateDeletion
     DEF DeletionStep
<1> QED
  BY <1>1, <1>2 DEF DeletionNext, delVars

\* It holds throughout.
LEMMA GoneInvariance == DeletionSpec => []GoneInv
  BY GoneInit, GoneNext, PTL DEF DeletionSpec

\* Every reachable state is well typed; in particular every deletion under
\* way has a document.
THEOREM DeletionTypeCorrect == DeletionSpec => []DeletionTypeOK
<1>1. GoneInv => DeletionTypeOK
  BY DEF GoneInv
<1> QED
  BY <1>1, GoneInvariance, PTL

\* When a deletion has removed the row, the file is off the disk for good.
THEOREM GoneStaysUnlinked == DeletionSpec => []GoneIsUnlinked
<1>1. GoneInv => GoneIsUnlinked
  BY DEF GoneInv, GoneIsUnlinked
<1> QED
  BY <1>1, GoneInvariance, PTL

-----------------------------------------------------------------------------
(* Nobody forgets a document.  NotForgotten is inductive beside the types: *)
(* a message becomes a run before it is gone, a sweep publishes what it    *)
(* has flipped, and a run ends with a final status or without a row.       *)

\* Picked up, and not yet with a final status.
Unfinished(d) == row[d].status \in {"processing", "text_extracted"}

Carries(w, d) == Doc(w) = d /\ task[w].pc \in Steps \cup {"publish"}

\* What a step without broken tasks and refusals must do: a document is newly
\* unfinished only when somebody carries it, and is carried on until then.
HandsOn(d) == Unfinished(d)' => Carried(d)' \/ (Unfinished(d) /\ ~Carried(d))

\* It is enough that a step hands on every document, or counts a broken task or a
\* refusal.
LEMMA CarriedOn ==
    ASSUME Inv, Inv', NotForgotten,
           broken' = 0 /\ outages' = 0 =>
              broken = 0 /\ outages = 0 /\ \A d \in Documents : HandsOn(d)
    PROVE  NotForgotten'
<1>1. row \in [Documents -> Row] /\ row' \in [Documents -> Row]
  BY DEF Inv, TypeOK
<1>2. ASSUME NEW d \in Documents
      PROVE  /\ Unfinished(d) <=> Exists(d) /\ ~Settled(d) /\ d \notin Waiting
             /\ Unfinished(d)' <=> (Exists(d) /\ ~Settled(d) /\ d \notin Waiting)'
  <2>1. row[d].status \in Statuses /\ row'[d].status \in Statuses
    BY <1>1 DEF Row
  <2> QED
    BY <2>1 DEF Unfinished, Exists, Settled, Waiting, Statuses
<1>3. ASSUME NEW d \in Documents, broken' = 0, outages' = 0, Unfinished(d)'
      PROVE  Carried(d)'
  <2>1. Unfinished(d) => Carried(d)
    BY <1>2, <1>3 DEF NotForgotten
  <2> QED
    BY <1>3, <2>1 DEF HandsOn
<1> QED
  BY <1>2, <1>3 DEF NotForgotten

\* A document that is carried stays so while the workers are left alone and no
\* message is taken.
LEMMA ApiHandsOn ==
    ASSUME Inv, Inv', UNCHANGED task, NEW d \in Documents,
           queue'[d] >= queue[d],
           Unfinished(d)' => Unfinished(d)
    PROVE  HandsOn(d)
<1>1. queue[d] \in Nat /\ queue'[d] \in Nat
  BY DEF Inv, TypeOK
<1>2. Carried(d) => Carried(d)'
  BY <1>1 DEF Carried
<1> QED
  BY <1>2 DEF HandsOn

\* A step of worker w that carries on with its document or leaves it finished.
LEMMA RunHandsOn ==
    ASSUME Inv, Inv', NEW w \in Workers, NEW d \in Documents, OnlyTask(w),
           queue'[d] >= queue[d],
           Carries(w, d)' \/ ~Unfinished(d)' \/
              (Unfinished(d) /\ (Carries(w, d) => queue'[d] > 0))
    PROVE  HandsOn(d)
<1>1. queue[d] \in Nat /\ queue'[d] \in Nat
  BY DEF Inv, TypeOK
<1>2. Carries(w, d)' => Carried(d)'
  BY DEF Carries, Carried
<1>3. queue'[d] > 0 => Carried(d)'
  BY DEF Carried
<1>4. Carried(d) => Carries(w, d) \/ Carried(d)'
  <2>1. ASSUME NEW x \in Workers, x # w, Carries(x, d) PROVE Carried(d)'
    BY <2>1 DEF Carries, Carried
  <2> QED
    BY <1>1, <2>1 DEF Carries, Carried
<1> QED
  BY <1>2, <1>3, <1>4 DEF HandsOn

\* Handlers write only statuses that are final or waiting, and publish.
LEMMA ApiCarries ==
    ASSUME Inv, Inv', NotForgotten, NEW c \in Documents, ApiRequest(c) \/ ApiFinish(c)
    PROVE  NotForgotten'
<1>1. row \in [Documents -> Row] /\ queue \in [Documents -> Nat] /\ outages \in Nat
      /\ broken \in Nat
  BY DEF Inv, TypeOK
<1>2. UNCHANGED task /\ broken' = broken /\ (outages' = 0 => outages = 0)
  BY <1>1 DEF ApiRequest, ApiFinish, UploadStage, BulkUpload, RetryStage, RetryNoFile,
     Cancel, ReindexDocument, BulkArchive, BulkDelete, UploadCommit, BulkPublish,
     RetryCommit, Publish, RefusePublish
<1>3. \A d \in Documents : queue'[d] >= queue[d]
  BY <1>1 DEF ApiRequest, ApiFinish, UploadStage, BulkUpload, RetryStage, RetryNoFile,
     Cancel, ReindexDocument, BulkArchive, BulkDelete, UploadCommit, BulkPublish,
     RetryCommit, Publish, RefusePublish
<1>4. \/ UNCHANGED row
      \/ \E s \in {"uploaded", "pending", "deleted"} : row' = [row EXCEPT ![c] = Fresh(s)]
      \/ \E s \in {"uploaded", "failed"}, e \in Errors : Mark(c, s, e)
      \/ SetStatus(c, "archived")
  BY Literals DEF ApiRequest, ApiFinish, UploadStage, BulkUpload, RetryStage, RetryNoFile,
     Cancel, ReindexDocument, BulkArchive, BulkDelete, UploadCommit, BulkPublish,
     RetryCommit
<1>5. \/ UNCHANGED row
      \/ /\ \A x \in Documents \ {c} : row'[x] = row[x]
         /\ row'[c].status \in {"uploaded", "pending", "deleted", "failed", "archived"}
  <2>1. ASSUME NEW s \in {"uploaded", "pending", "deleted"}, row' = [row EXCEPT ![c] = Fresh(s)]
        PROVE  (\A x \in Documents \ {c} : row'[x] = row[x]) /\ row'[c].status = s
    BY <1>1, <2>1, FreshEffect, Literals
  <2>2. ASSUME NEW s \in {"uploaded", "failed"}, NEW e \in Errors, Mark(c, s, e)
        PROVE  (\A x \in Documents \ {c} : row'[x] = row[x]) /\ row'[c].status = s
    BY <1>1, <2>2, MarkEffect, Literals
  <2>3. ASSUME SetStatus(c, "archived")
        PROVE  (\A x \in Documents \ {c} : row'[x] = row[x]) /\ row'[c].status = "archived"
    BY <1>1, <2>3, SetStatusEffect, Literals
  <2> QED
    BY <1>4, <2>1, <2>2, <2>3
<1>6. ASSUME NEW d \in Documents PROVE HandsOn(d)
  <2>1. Unfinished(d)' => Unfinished(d)
    BY <1>5 DEF Unfinished
  <2> QED
    BY <1>2, <1>3, <2>1, ApiHandsOn
<1> QED
  BY <1>2, <1>6, CarriedOn

\* The message of a run is its worker's from then on.
LEMMA TakeCarries ==
    ASSUME Inv, Inv', NotForgotten, NEW w \in Workers, NEW c \in Documents, Take(w, c)
    PROVE  NotForgotten'
<1>1. /\ task \in [Workers -> Task] /\ queue \in [Documents -> Nat]
      /\ row' = row /\ broken' = broken /\ outages' = outages
  BY DEF Inv, TypeOK, Take
<1>2. /\ OnlyTask(w) /\ task'[w].pc = "start" /\ task'[w].doc = c
      /\ \A x \in Documents \ {c} : queue'[x] = queue[x]
  BY <1>1, TakeEffect DEF Take
<1>3. HandsOn(c)
  BY <1>2, Literals DEF HandsOn, Carried
<1>4. ASSUME NEW d \in Documents \ {c} PROVE HandsOn(d)
  <2>1. queue'[d] >= queue[d]
    BY <1>1, <1>2
  <2>2. ~Carries(w, d) /\ (Unfinished(d)' <=> Unfinished(d))
    BY <1>1, Literals DEF Take, Carries, Unfinished
  <2> QED
    BY <1>2, <2>1, <2>2, RunHandsOn
<1> QED
  BY <1>1, <1>3, <1>4, CarriedOn

\* A run goes on with its document, or leaves it finished or gone.
LEMMA RunCarries ==
    ASSUME Inv, Inv', NotForgotten, NEW w \in Workers, task[w].pc \in Steps,
           UNCHANGED <<queue, broken, outages>>, OnlyTask(w),
           \A x \in Documents \ {Doc(w)} : row'[x] = row[x],
           \/ task'[w].doc = task[w].doc /\ task'[w].pc \in Steps
           \/ row'[Doc(w)].status \notin {"processing", "text_extracted"}
    PROVE  NotForgotten'
<1>1. task[w].doc \in Documents /\ queue \in [Documents -> Nat]
  BY DEF Inv, TypeOK
<1>2. ASSUME NEW d \in Documents PROVE HandsOn(d)
  <2>1. queue'[d] >= queue[d]
    BY <1>1
  <2>2. CASE d = Doc(w)
    <3>1. \/ task'[w].doc = d /\ task'[w].pc \in Steps
          \/ row'[d].status \notin {"processing", "text_extracted"}
      BY <2>2
    <3>2. Carries(w, d)' \/ ~Unfinished(d)'
      BY <3>1 DEF Carries, Unfinished
    <3> QED
      BY <2>1, <3>2, RunHandsOn
  <2>3. CASE d # Doc(w)
    <3>1. ~Carries(w, d) /\ (Unfinished(d)' <=> Unfinished(d))
      BY <2>3 DEF Carries, Unfinished
    <3> QED
      BY <2>1, <3>1, RunHandsOn
  <2> QED
    BY <2>2, <2>3
<1> QED
  BY <1>2, CarriedOn

\* Within process_document.
LEMMA ProcessCarries ==
    ASSUME Inv, Inv', NotForgotten, NEW w \in Workers, ProcessStep(w)
    PROVE  NotForgotten'
<1>1. /\ row \in [Documents -> Row] /\ task \in [Workers -> Task]
      /\ task[w].pc \in Steps /\ Doc(w) \in Documents
      /\ UNCHANGED <<queue, broken, outages>>
  <2>1. task[w].pc \in Steps
    BY Literals DEF ProcessStep, Begin, Scan, ActOnVerdict, Extract, ReadMetadata,
       IndexElasticsearch, CommitElasticsearch, SkipQdrant, IndexQdrant, CommitQdrant, Settle
  <2>2. UNCHANGED <<queue, broken, outages>>
    BY DEF ProcessStep, Begin, Scan, ActOnVerdict, Extract, ReadMetadata,
       IndexElasticsearch, CommitElasticsearch, SkipQdrant, IndexQdrant, CommitQdrant, Settle
  <2> QED
    BY <2>1, <2>2 DEF Inv, TypeOK
<1> DEFINE c == Doc(w)
           Written == \A x \in Documents \ {c} : row'[x] = row[x]
           Carrying == OnlyTask(w) /\ task'[w].doc = task[w].doc /\ task'[w].pc \in Steps
           Ending == OnlyTask(w) /\ row'[c].status \notin {"processing", "text_extracted"}
<1>2. ASSUME Written, Carrying \/ Ending PROVE NotForgotten'
  BY <1>1, <1>2, RunCarries
<1>3. CASE RowGone(w)
  BY <1>1, <1>2, <1>3, ReleaseEffect DEF RowGone, Exists
<1>4. CASE Release(w) /\ \E s \in {"indexed", "stored", "partially_indexed", "failed"} :
             RowMarked(c, s)
  BY <1>1, <1>2, <1>4, ReleaseEffect
<1>5. CASE (\E p \in Steps : Goto(w, p)) /\ (UNCHANGED row \/ \E s \in Statuses : RowMarked(c, s))
  <2>1. PICK p \in Steps : Goto(w, p)
    BY <1>5
  <2>2. Carrying
    BY <1>1, <2>1, GotoEffect
  <2>3. Written
    BY <1>5
  <2> QED
    BY <1>2, <2>2, <2>3
<1>6. CASE Begin(w) \/ ActOnVerdict(w) \/ Extract(w) \/ ReadMetadata(w)
  <2>1. Fail(c) => RowMarked(c, "failed")
    BY <1>1, FailEffect
  <2>2. /\ SetStatus(c, "processing") => RowMarked(c, "processing")
        /\ SetStatus(c, "text_extracted") => RowMarked(c, "text_extracted")
    BY <1>1, SetStatusEffect, Literals
  <2>3. \/ RowGone(w)
        \/ Release(w) /\ Fail(c)
        \/ /\ \E p \in Steps : Goto(w, p)
           /\ UNCHANGED row \/ SetStatus(c, "processing") \/ SetStatus(c, "text_extracted")
    BY <1>6, Literals DEF Begin, ActOnVerdict, Extract, ReadMetadata
  <2> QED
    BY <1>3, <1>4, <1>5, <2>1, <2>2, <2>3, Literals
<1>7. CASE Scan(w)
  <2>1. ASSUME NEW v \in Verdicts[c], row' = [row EXCEPT ![c].scan = v],
               task' = [task EXCEPT ![w].pc = "verdict", ![w].verdict = v]
        PROVE  NotForgotten'
    <3>1. v \in ScanVerdicts
      BY <1>1, VerdictType
    <3>2. Written
      BY <1>1, <2>1, <3>1, ScanEffect
    <3>3. Carrying
      <4>1. /\ OnlyTask(w) /\ task'[w].pc = "verdict"
            /\ task'[w].doc = task[w].doc
        BY <1>1, <2>1, <3>1, VerdictEffect, Literals
      <4> QED
        BY <4>1, Literals
    <3> QED
      BY <1>2, <3>2, <3>3
  <2> QED
    BY <1>3, <1>7, <2>1 DEF Scan
<1>8. CASE IndexElasticsearch(w) \/ IndexQdrant(w)
  <2>1. (\E p \in Steps : Goto(w, p)) /\ UNCHANGED row
    BY <1>8, Literals DEF IndexElasticsearch, IndexQdrant
  <2> QED
    BY <1>5, <2>1
<1>9. CASE CommitElasticsearch(w)
  <2>1. ASSUME row' = [row EXCEPT ![c].esId = TRUE],
               task' = [task EXCEPT ![w].pc = "qd", ![w].esOk = TRUE]
        PROVE  NotForgotten'
    <3>1. Written
      BY <1>1, <2>1, EsIdEffect
    <3>2. Carrying
      <4>1. /\ OnlyTask(w) /\ task'[w].pc = "qd"
            /\ task'[w].doc = task[w].doc
        BY <1>1, <2>1, EsOkEffect, Literals
      <4> QED
        BY <4>1, Literals
    <3> QED
      BY <1>2, <3>1, <3>2
  <2> QED
    BY <1>3, <1>9, <2>1 DEF CommitElasticsearch
<1>10. CASE SkipQdrant(w) \/ CommitQdrant(w)
  <2>1. ASSUME NEW b \in BOOLEAN, row' = [row EXCEPT ![c].qdId = b],
               task' = [task EXCEPT ![w].pc = "final", ![w].qdOk = TRUE]
        PROVE  NotForgotten'
    <3>1. Written
      BY <1>1, <2>1, QdIdEffect
    <3>2. Carrying
      <4>1. /\ OnlyTask(w) /\ task'[w].pc = "final"
            /\ task'[w].doc = task[w].doc
        BY <1>1, <2>1, QdOkEffect, Literals
      <4> QED
        BY <4>1, Literals
    <3> QED
      BY <1>2, <3>1, <3>2
  <2> QED
    BY <1>3, <1>10, <2>1 DEF SkipQdrant, CommitQdrant
<1>11. CASE Settle(w)
  <2>1. Outcome(w) \in {"indexed", "stored", "partially_indexed", "failed"}
    BY OutcomeType
  <2>2. /\ SetStatus(c, Outcome(w)) => RowMarked(c, Outcome(w))
        /\ Mark(c, Outcome(w), "other") => RowMarked(c, Outcome(w))
    BY <1>1, <2>1, SetStatusEffect, MarkEffect, Literals
  <2>3. \/ RowGone(w)
        \/ Release(w) /\ (SetStatus(c, Outcome(w)) \/ Mark(c, Outcome(w), "other"))
    BY <1>11 DEF Settle
  <2> QED
    BY <1>3, <1>4, <2>1, <2>2, <2>3
<1> QED
  BY <1>6, <1>7, <1>8, <1>9, <1>10, <1>11 DEF ProcessStep

\* A sweep flips a row and carries it until it has published it.
LEMMA SweepCarries ==
    ASSUME Inv, Inv', NotForgotten, NEW w \in Workers, StartSweep(w) \/ SweepStep(w)
    PROVE  NotForgotten'
<1>1. /\ row \in [Documents -> Row] /\ task \in [Workers -> Task]
      /\ queue \in [Documents -> Nat] /\ outages \in Nat /\ broken' = broken
  BY DEF Inv, TypeOK, StartSweep, SweepStep, SweepFlip, SweepPublish
<1>2. ASSUME NEW list \in SUBSET Documents,
             task' = [task EXCEPT ![w] = [Idle EXCEPT !.pc = "sweep", !.todo = list]]
      PROVE  OnlyTask(w)
  BY <1>1, <1>2, ListEffect
<1>3. CASE StartSweep(w)
  <2>1. ASSUME NEW list \in Listed PROVE list \in SUBSET Documents
    BY DEF Listed, AtLimit, Waiting
  <2>2. OnlyTask(w) /\ UNCHANGED <<row, queue, outages>>
    BY <1>1, <1>2, <1>3, <2>1 DEF StartSweep
  <2>3. ASSUME NEW d \in Documents PROVE HandsOn(d)
    <3>1. queue'[d] >= queue[d]
      BY <1>1, <2>2
    <3>2. ~Carries(w, d)
      BY <1>3, Literals DEF StartSweep, Carries
    <3>3. Unfinished(d)' <=> Unfinished(d)
      BY <2>2 DEF Unfinished
    <3> QED
      BY <2>2, <3>1, <3>2, <3>3, RunHandsOn
  <2> QED
    BY <1>1, <2>2, <2>3, CarriedOn
<1>4. ASSUME NEW c \in Documents, SweepFlip(w, c) PROVE NotForgotten'
  <2>1. UNCHANGED <<queue, outages>> /\ \A d \in Documents : queue'[d] >= queue[d]
    BY <1>1, <1>4 DEF SweepFlip
  <2>2. \A d \in Documents : ~Carries(w, d)
    BY <1>4, Literals DEF SweepFlip, Carries
  <2>3. /\ OnlyTask(w)
        /\ \A d \in Documents : Carries(w, d)' \/ row'[d] = row[d]
    <3>1. CASE Release(w) /\ UNCHANGED row
      BY <1>1, <3>1, ReleaseEffect
    <3>2. ASSUME SetStatus(c, "processing"),
                 task' = [task EXCEPT ![w] = [Idle EXCEPT !.pc = "publish", !.doc = c,
                                                    !.todo = task[w].todo \ {c}]]
          PROVE  /\ OnlyTask(w)
                 /\ \A d \in Documents : Carries(w, d)' \/ row'[d] = row[d]
      <4>1. task[w].todo \ {c} \in SUBSET Documents
        BY <1>1 DEF Task
      <4>2. OnlyTask(w) /\ task'[w].pc = "publish" /\ task'[w].doc = c
        <5> DEFINE rest == task[w].todo \ {c}
        <5> HIDE DEF rest
        <5>1. task' = [task EXCEPT ![w] = [Idle EXCEPT !.pc = "publish", !.doc = c,
                                                 !.todo = rest]]
          BY <3>2 DEF rest
        <5>2. rest \in SUBSET Documents
          BY <4>1 DEF rest
        <5> QED
          BY <1>1, <5>1, <5>2, FlipEffect
      <4>3. RowMarked(c, "processing")
        BY <1>1, <3>2, SetStatusEffect, Literals
      <4> QED
        BY <4>2, <4>3 DEF Carries
    <3> QED
      BY <1>4, <3>1, <3>2 DEF SweepFlip
  <2>4. ASSUME NEW d \in Documents PROVE HandsOn(d)
    <3>1. Carries(w, d)' \/ (Unfinished(d)' <=> Unfinished(d))
      BY <2>3 DEF Unfinished
    <3> QED
      BY <2>1, <2>2, <2>3, <3>1, RunHandsOn
  <2> QED
    BY <1>1, <2>1, <2>4, CarriedOn
<1>5. CASE SweepPublish(w)
  <2>1. task[w].todo \in SUBSET Documents /\ Doc(w) \in Documents /\ UNCHANGED row
    BY <1>1, <1>5 DEF Task, SweepPublish, Inv, TypeOK
  <2>2. OnlyTask(w)
    BY <1>1, <1>2, <1>5, <2>1, ReleaseEffect DEF SweepPublish
  <2>3. outages' = 0 => outages = 0
    BY <1>1, <1>5 DEF SweepPublish, Publish, RefusePublish
  <2>4. ASSUME NEW d \in Documents, outages' = 0 PROVE HandsOn(d)
    <3>1. queue'[d] >= queue[d]
      BY <1>1, <1>5 DEF SweepPublish, Publish, RefusePublish
    <3>2. CASE d # Doc(w)
      <4>1. ~Carries(w, d) /\ (Unfinished(d)' <=> Unfinished(d))
        BY <2>1, <3>2 DEF Carries, Unfinished
      <4> QED
        BY <2>2, <3>1, <4>1, RunHandsOn
    <3>3. CASE d = Doc(w)
      <4>1. ~Exists(d) => ~Unfinished(d)'
        BY <2>1 DEF Exists, Unfinished
      <4>2. Exists(d) => Publish(d)
        BY <1>1, <1>5, <2>4, <3>3 DEF SweepPublish, RefusePublish
      <4>3. Publish(d) => queue'[d] > 0
        BY <1>1 DEF Publish
      <4>4. ~Unfinished(d)' \/ (Unfinished(d) /\ queue'[d] > 0)
        BY <2>1, <4>1, <4>2, <4>3 DEF Unfinished
      <4> QED
        BY <2>2, <3>1, <4>4, RunHandsOn
    <3> QED
      BY <3>2, <3>3
  <2> QED
    BY <1>1, <2>3, <2>4, CarriedOn
<1> QED
  BY <1>3, <1>4, <1>5 DEF SweepStep

\* Every step does.
LEMMA NotForgottenNext ==
    ASSUME Inv, Inv', NotForgotten, [Next]_vars
    PROVE  NotForgotten'
<1>1. /\ queue \in [Documents -> Nat] /\ broken \in Nat /\ outages \in Nat
      /\ row \in [Documents -> Row]
  BY DEF Inv, TypeOK
<1>2. ASSUME NEW w \in Workers, BreakOff(w) PROVE NotForgotten'
  BY <1>1, <1>2, CarriedOn DEF BreakOff
<1>3. CASE ScanAll \/ BeatTick \/ FailStuckDocuments \/ UNCHANGED vars
  <2>1. /\ UNCHANGED <<row, task, broken>> /\ (outages' = 0 => outages = 0)
        /\ \A d \in Documents : queue'[d] >= queue[d]
    BY <1>1, <1>3 DEF ScanAll, BeatTick, FailStuckDocuments, vars
  <2>2. ASSUME NEW d \in Documents PROVE HandsOn(d)
    BY <2>1, ApiHandsOn DEF Unfinished
  <2> QED
    BY <2>1, <2>2, CarriedOn
<1> QED
  BY <1>2, <1>3, ApiCarries, TakeCarries, ProcessCarries, SweepCarries DEF Next

\* A picked-up document without a final status is always somebody's task, for
\* any number of workers, sweeps and requests, unless a worker was killed or
\* the broker refused a message.
THEOREM NobodyForgets == Spec => []NotForgotten
<1>1. Init => NotForgotten
  BY DEF Init, NotForgotten, Exists, Fresh
<1>2. Inv /\ NotForgotten /\ [Next]_vars => Inv' /\ NotForgotten'
  BY NextInv, NotForgottenNext
<1> QED
  BY <1>1, <1>2, InitInv, PTL DEF Spec

-----------------------------------------------------------------------------
(* What the steps of the pipeline do to ids and index entries, also while   *)
(* deletions take entries away.                                             *)

\* A run past its lookup has seen the row; an id about to be committed has
\* its entry, or had it before a deletion took it.
WorkerSure(w) ==
    /\ task[w].pc \in Steps \ {"start"} => row[task[w].doc].status # "absent"
    /\ task[w].pc = "esCommit" => task[w].doc \in es
    /\ task[w].pc = "qdCommit" =>
          /\ task[w].doc \in Textual
          /\ Exists(task[w].doc) => task[w].doc \in qd \/ row[task[w].doc].qdId

\* Every document has its transaction, and an upload that is not committed has
\* no row yet.
Staged == DOMAIN open = Documents /\ StagedAbsent

\* Rows without a document have no ids, elasticsearch_ids are backed, and only
\* texts have a qdrant_id.
IdsRecorded ==
    /\ Sound /\ Staged
    /\ \A d \in Documents : /\ ~Exists(d) => ~row[d].esId /\ ~row[d].qdId
                            /\ row[d].esId => d \in es
                            /\ row[d].qdId => d \in Textual
    /\ \A w \in Workers : WorkerSure(w)

\* What a step does to the row of d.
RowSafe(d) ==
    /\ row[d].status # "absent" => row'[d].status # "absent"
    /\ row[d].status = "deleted" => row'[d].status = "deleted"
    /\ ~Exists(d)' => ~row'[d].esId /\ ~row'[d].qdId
    /\ row'[d].esId => row[d].esId \/ d \in es
    /\ row'[d].qdId => row[d].qdId \/ (d \in qd /\ d \in Textual)
    /\ row[d].qdId => row'[d].qdId \/ ~Exists(d)'

RowsSafe == \A d \in Documents : RowSafe(d)

\* An entry goes only while the row has its id.
EntriesSafe ==
    /\ es \subseteq es'
    /\ \A d \in Documents : d \in qd => d \in qd' \/ row[d].qdId \/ ~Exists(d)

\* A step of this kind preserves the invariant.
LEMMA StillRecorded ==
    ASSUME IdsRecorded, Sound', Staged', RowsSafe, EntriesSafe,
           \A w \in Workers : task'[w] = task[w] \/ WorkerSure(w)'
    PROVE  IdsRecorded'
<1>1. ASSUME NEW d \in Documents
      PROVE  /\ ~Exists(d)' => ~row'[d].esId /\ ~row'[d].qdId
             /\ row'[d].esId => d \in es'
             /\ row'[d].qdId => d \in Textual
  BY DEF IdsRecorded, RowsSafe, RowSafe, EntriesSafe
<1>2. ASSUME NEW w \in Workers, task'[w] = task[w] PROVE WorkerSure(w)'
  <2>1. CASE task[w].pc \in Steps \ {"start"}
    <3>1. PICK c \in Documents : c = task[w].doc
      BY <2>1 DEF IdsRecorded, Sound
    <3>2. RowSafe(c) /\ WorkerSure(w) /\ task'[w].doc = c
      BY <1>2, <3>1 DEF IdsRecorded, RowsSafe
    <3>3. row[c].status # "absent" /\ row'[c].status # "absent"
      BY <2>1, <3>1, <3>2 DEF WorkerSure, RowSafe
    <3>4. Exists(c)' => Exists(c)
      BY <3>2, <3>3 DEF RowSafe, Exists
    <3>5. task[w].pc = "esCommit" => c \in es'
      BY <3>1, <3>2 DEF WorkerSure, EntriesSafe
    <3>6. task[w].pc = "qdCommit" =>
             c \in Textual /\ (Exists(c)' => c \in qd' \/ row'[c].qdId)
      BY <3>1, <3>2, <3>4 DEF WorkerSure, EntriesSafe, RowSafe
    <3> QED
      BY <1>2, <3>2, <3>3, <3>5, <3>6 DEF WorkerSure, Exists
  <2>2. CASE task[w].pc \notin Steps \ {"start"}
    BY <1>2, <2>2, Literals DEF WorkerSure
  <2> QED
    BY <2>1, <2>2
<1> QED
  BY <1>1, <1>2 DEF IdsRecorded

\* No row is written.
LEMMA SameRowsSafe == ASSUME IdsRecorded, UNCHANGED row PROVE RowsSafe
  BY DEF IdsRecorded, RowsSafe, RowSafe, Exists

\* Only the status of one row is written.
LEMMA MarkedRowsSafe ==
    ASSUME IdsRecorded, NEW c \in Documents, Exists(c),
           NEW s \in Statuses \ {"absent", "deleted"}, RowMarked(c, s)
    PROVE  RowsSafe
<1>1. ASSUME NEW d \in Documents, d # c PROVE RowSafe(d)
  BY <1>1 DEF IdsRecorded, RowSafe, Exists
<1>2. RowSafe(c)
  BY DEF IdsRecorded, RowSafe, Exists
<1> QED
  BY <1>1, <1>2 DEF RowsSafe

\* Rows that come or go.
LEMMA FreshRowsSafe ==
    ASSUME IdsRecorded, NEW c \in Documents, NEW s \in Statuses \ {"absent"},
           row[c].status = "absent" \/ s = "deleted",
           row' = [row EXCEPT ![c] = Fresh(s)]
    PROVE  RowsSafe
<1>1. /\ \A x \in Documents \ {c} : row'[x] = row[x]
      /\ row'[c].status = s /\ ~row'[c].esId /\ ~row'[c].qdId
  BY FreshEffect DEF IdsRecorded, Sound
<1>2. ASSUME NEW d \in Documents, d # c PROVE RowSafe(d)
  BY <1>1, <1>2 DEF IdsRecorded, RowSafe, Exists
<1>3. ~Exists(c) \/ s = "deleted"
  BY DEF Exists
<1>4. RowSafe(c)
  BY <1>1, <1>3 DEF IdsRecorded, RowSafe, Exists
<1> QED
  BY <1>2, <1>4 DEF RowsSafe

\* What a step of the pipeline does.
StepSafe == RowsSafe /\ Staged' /\ es \subseteq es' /\ qd \subseteq qd'
            /\ \A w \in Workers : task'[w] = task[w] \/ WorkerSure(w)'

\* A handler.
LEMMA ApiRequestSafe ==
    ASSUME IdsRecorded, NEW d \in Documents, ApiRequest(d) PROVE StepSafe
<1>1. UNCHANGED <<es, qd, task>>
  BY DEF ApiRequest, UploadStage, BulkUpload, RetryStage, RetryNoFile, Cancel,
         ReindexDocument, BulkArchive, BulkDelete
<1>2. Staged /\ row \in [Documents -> Row]
  BY DEF IdsRecorded, Sound
<1>3. RowsSafe /\ Staged'
  <2>1. CASE UploadStage(d)
    BY <1>2, <2>1, SameRowsSafe DEF UploadStage, Staged, StagedAbsent
  <2>2. CASE RetryStage(d) \/ RetryNoFile(d) \/ ReindexDocument(d)
    <3>1. UNCHANGED row
      BY <2>2 DEF RetryStage, RetryNoFile, ReindexDocument
    <3>2. UNCHANGED open \/ \E k \in {"retry", "retry_same"} :
                                open' = [open EXCEPT ![d] = k]
      BY <2>2 DEF RetryStage, RetryNoFile, ReindexDocument
    <3>3. Staged'
      BY <1>2, <3>1, <3>2 DEF Staged, StagedAbsent
    <3> QED
      BY <3>1, <3>3, SameRowsSafe
  <2>3. CASE BulkUpload(d)
    <3>1. row' = [row EXCEPT ![d] = Fresh("pending")] /\ row[d].status = "absent"
      BY <2>3 DEF BulkUpload
    <3>2. \A x \in Documents \ {d} : row'[x] = row[x] /\ open'[x] = open[x]
      BY <1>2, <2>3 DEF BulkUpload, Staged
    <3>3. open'[d] # "upload" /\ DOMAIN open' = Documents
      BY <1>2, <2>3 DEF BulkUpload, Staged
    <3>4. Staged'
      BY <1>2, <3>2, <3>3 DEF Staged, StagedAbsent
    <3> QED
      BY <3>1, <3>4, FreshRowsSafe, Literals
  <2>4. CASE BulkDelete(d)
    <3>1. row' = [row EXCEPT ![d] = Fresh("deleted")] /\ Exists(d) /\ UNCHANGED open
      BY <2>4 DEF BulkDelete
    <3>2. Staged'
      BY <1>2, <3>1 DEF Staged, StagedAbsent, Exists
    <3> QED
      BY <3>1, <3>2, FreshRowsSafe, Literals
  <2>5. ASSUME NEW s \in {"failed", "archived"}, RowMarked(d, s), Exists(d), UNCHANGED open
        PROVE  RowsSafe /\ Staged'
    <3>1. Staged'
      BY <1>2, <2>5 DEF Staged, StagedAbsent, Exists
    <3> QED
      BY <2>5, <3>1, MarkedRowsSafe, Literals
  <2>6. CASE Cancel(d)
    BY <1>2, <2>5, <2>6, MarkEffect, Literals DEF Cancel
  <2>7. CASE BulkArchive(d)
    BY <1>2, <2>5, <2>7, SetStatusEffect, Literals DEF BulkArchive
  <2> QED
    BY <2>1, <2>2, <2>3, <2>4, <2>6, <2>7 DEF ApiRequest
<1> QED
  BY <1>1, <1>3 DEF StepSafe

\* What is left of a handler.
LEMMA ApiFinishSafe ==
    ASSUME IdsRecorded, NEW d \in Documents, ApiFinish(d) PROVE StepSafe
<1>1. UNCHANGED <<es, qd, task>>
  BY DEF ApiFinish, UploadCommit, BulkPublish, RetryCommit
<1>2. Staged /\ row \in [Documents -> Row]
  BY DEF IdsRecorded, Sound
<1>3. /\ DOMAIN open' = Documents /\ open'[d] # "upload"
      /\ \A x \in Documents \ {d} : open'[x] = open[x] \/ open'[x] # "upload"
  <2>1. open' = [open EXCEPT ![d] = "none"]
    BY DEF ApiFinish, UploadCommit, BulkPublish, RetryCommit
  <2> QED
    BY <1>2, <2>1 DEF Staged
<1>4. RowsSafe /\ \A x \in Documents \ {d} : row'[x] = row[x]
  <2>1. CASE UploadCommit(d)
    <3>1. PICK s \in {"uploaded", "deleted"} : row' = [row EXCEPT ![d] = Fresh(s)]
      BY <2>1 DEF UploadCommit
    <3>2. row[d].status = "absent"
      BY <1>2, <2>1 DEF UploadCommit, Staged, StagedAbsent
    <3>3. s \in Statuses \ {"absent"} /\ \A x \in Documents \ {d} : row'[x] = row[x]
      BY <3>1, Literals
    <3> QED
      BY <3>1, <3>2, <3>3, FreshRowsSafe
  <2>2. CASE BulkPublish(d)
    BY <2>2, SameRowsSafe DEF BulkPublish
  <2>3. CASE RetryCommit(d)
    <3>1. CASE Exists(d) /\ Mark(d, "uploaded", "none")
      <4>1. RowMarked(d, "uploaded")
        BY <1>2, <3>1, MarkEffect, Literals
      <4> QED
        BY <3>1, <4>1, MarkedRowsSafe, Literals
    <3>2. CASE UNCHANGED row
      BY <3>2, SameRowsSafe
    <3> QED
      BY <2>3, <3>1, <3>2 DEF RetryCommit
  <2> QED
    BY <2>1, <2>2, <2>3 DEF ApiFinish
<1>5. Staged'
  BY <1>2, <1>3, <1>4 DEF Staged, StagedAbsent
<1> QED
  BY <1>1, <1>4, <1>5 DEF StepSafe

\* A worker that is not past its lookup need not be sure of anything.
LEMMA OutOfRunSure ==
    ASSUME NEW w \in Workers, task'[w].pc \notin Steps \ {"start"} PROVE WorkerSure(w)'
  BY Literals DEF WorkerSure

\* A run that goes on, past no call to an engine.
LEMMA RunGoesOnSure ==
    ASSUME NEW w \in Workers, RowsSafe, task[w].doc \in Documents,
           row[task[w].doc].status # "absent", task'[w].doc = task[w].doc,
           task'[w].pc \notin {"esCommit", "qdCommit"}
    PROVE  WorkerSure(w)'
  BY DEF WorkerSure, RowsSafe, RowSafe

\* A step of worker w that writes at most an existing row.
LEMMA WorkerSafe ==
    ASSUME IdsRecorded, NEW w \in Workers, OnlyTask(w), WorkerSure(w)',
           UNCHANGED open, es \subseteq es', qd \subseteq qd', RowsSafe,
           \A d \in Documents : row[d].status = "absent" => row'[d] = row[d]
    PROVE  StepSafe
<1>1. Staged'
  BY DEF IdsRecorded, Staged, StagedAbsent
<1> QED
  BY <1>1 DEF StepSafe

\* A run that ends, having marked its row or not.
LEMMA RunEndsSafe ==
    ASSUME IdsRecorded, NEW w \in Workers, NEW c \in Documents, Release(w),
           \/ UNCHANGED row
           \/ Exists(c) /\ \E s \in Statuses \ {"absent", "deleted"} : RowMarked(c, s),
           UNCHANGED <<open, es, qd>>
    PROVE  StepSafe
<1>1. OnlyTask(w) /\ task'[w].pc = "idle"
  BY ReleaseEffect DEF IdsRecorded, Sound
<1>2. WorkerSure(w)'
  BY <1>1, OutOfRunSure, Literals
<1>3. RowsSafe
  BY SameRowsSafe, MarkedRowsSafe
<1>4. \A d \in Documents : row[d].status = "absent" => row'[d] = row[d]
  BY DEF Exists
<1> QED
  BY <1>1, <1>2, <1>3, <1>4, WorkerSafe

\* A run that goes on within its row, past no call to an engine.
LEMMA RunOnSafe ==
    ASSUME IdsRecorded, NEW w \in Workers, task[w].doc \in Documents,
           row[task[w].doc].status # "absent",
           OnlyTask(w), task'[w].doc = task[w].doc,
           task'[w].pc \notin {"esCommit", "qdCommit"}, RowsSafe,
           \A d \in Documents : row[d].status = "absent" => row'[d] = row[d],
           UNCHANGED open, es \subseteq es', qd \subseteq qd'
    PROVE  StepSafe
  BY RunGoesOnSure, WorkerSafe

\* The first half of process_document.
LEMMA EarlySafe ==
    ASSUME IdsRecorded, NEW w \in Workers,
           Begin(w) \/ Scan(w) \/ ActOnVerdict(w) \/ Extract(w) \/ ReadMetadata(w)
    PROVE  StepSafe
<1> DEFINE c == task[w].doc
<1>1. /\ task[w].pc \in Steps /\ UNCHANGED <<open, es, qd>>
      /\ task \in [Workers -> Task] /\ row \in [Documents -> Row] /\ c \in Documents
  BY Literals DEF Begin, Scan, ActOnVerdict, Extract, ReadMetadata, IdsRecorded, Sound
<1> HIDE DEF c
<1>2. CASE Release(w) /\ UNCHANGED row
  BY <1>1, <1>2, RunEndsSafe
<1>3. CASE Release(w) /\ Fail(c) /\ Exists(c)
  <2>1. RowMarked(c, "failed")
    BY <1>1, <1>3, FailEffect
  <2> QED
    BY <1>1, <1>3, <2>1, RunEndsSafe, Literals
<1>4. ASSUME NEW p \in {"scan", "extract", "read", "es"}, Goto(w, p), Exists(c),
             NEW s \in {"processing", "text_extracted"}, UNCHANGED row \/ SetStatus(c, s)
      PROVE  StepSafe
  <2>1. UNCHANGED row \/ RowMarked(c, s)
    BY <1>1, <1>4, SetStatusEffect, Literals
  <2>2. RowsSafe
    BY <1>1, <1>4, <2>1, SameRowsSafe, MarkedRowsSafe, Literals
  <2>3. \A d \in Documents : row[d].status = "absent" => row'[d] = row[d]
    BY <1>4, <2>1 DEF Exists
  <2>4. Moved(w, p)
    BY <1>1, <1>4, GotoEffect, Literals
  <2>5. row[c].status # "absent" /\ p \notin {"esCommit", "qdCommit"}
    BY <1>4 DEF Exists
  <2> QED
    BY <1>1, <2>2, <2>3, <2>4, <2>5, RunOnSafe DEF c
<1>5. CASE Scan(w) /\ ~RowGone(w)
  <2>1. PICK v \in Verdicts[c] :
           /\ row' = [row EXCEPT ![c].scan = v]
           /\ task' = [task EXCEPT ![w].pc = "verdict", ![w].verdict = v]
    BY <1>5 DEF Scan, c
  <2>2. Exists(c)
    BY <1>5 DEF Scan, c
  <2>3. v \in ScanVerdicts
    BY <1>1, VerdictType
  <2>4. /\ \A x \in Documents \ {c} : row'[x] = row[x]
        /\ row'[c].status = row[c].status
        /\ row'[c].esId = row[c].esId /\ row'[c].qdId = row[c].qdId
    BY <1>1, <2>1, <2>3, ScanEffect
  <2>5. OnlyTask(w) /\ task'[w].pc = "verdict" /\ task'[w].doc = task[w].doc
    BY <1>1, <2>1, <2>3, VerdictEffect, Literals
  <2>6. RowsSafe
    BY <2>2, <2>4 DEF IdsRecorded, RowsSafe, RowSafe, Exists
  <2>7. \A d \in Documents : row[d].status = "absent" => row'[d] = row[d]
    BY <2>2, <2>4 DEF Exists
  <2>8. row[c].status # "absent"
    BY <2>2 DEF Exists
  <2> QED
    BY <1>1, <2>5, <2>6, <2>7, <2>8, RunOnSafe DEF c
<1>6. \/ Release(w) /\ UNCHANGED row
      \/ Release(w) /\ Fail(c) /\ Exists(c)
      \/ Scan(w) /\ ~RowGone(w)
      \/ /\ Exists(c)
         /\ \E p \in {"scan", "extract", "read", "es"} : Goto(w, p)
         /\ UNCHANGED row \/ \E s \in {"processing", "text_extracted"} : SetStatus(c, s)
  BY DEF Begin, Scan, ActOnVerdict, Extract, ReadMetadata, RowGone, c
<1> QED
  BY <1>2, <1>3, <1>4, <1>5, <1>6

\* The calls to the engines.
LEMMA IndexSafe ==
    ASSUME IdsRecorded, NEW w \in Workers, IndexElasticsearch(w) \/ IndexQdrant(w)
    PROVE  StepSafe
<1> DEFINE c == task[w].doc
<1>1. /\ task[w].pc \in {"es", "qd"} /\ UNCHANGED <<open, row>>
      /\ task \in [Workers -> Task] /\ c \in Documents
      /\ es \subseteq es' /\ qd \subseteq qd'
  BY Literals DEF IndexElasticsearch, IndexQdrant, IdsRecorded, Sound
<1>2. row[c].status # "absent"
  BY <1>1, Literals DEF IdsRecorded, WorkerSure
<1>3. RowsSafe /\ \A d \in Documents : row[d].status = "absent" => row'[d] = row[d]
  BY <1>1, SameRowsSafe
<1> HIDE DEF c
<1>4. ASSUME NEW p \in {"qd", "final"}, Goto(w, p) PROVE StepSafe
  <2>1. Moved(w, p)
    BY <1>1, <1>4, GotoEffect, Literals
  <2> QED
    BY <1>1, <1>2, <1>3, <2>1, RunOnSafe DEF c
<1>5. CASE Goto(w, "esCommit") /\ c \in es'
  <2>1. Moved(w, "esCommit")
    BY <1>1, <1>5, GotoEffect, Literals
  <2>2. WorkerSure(w)'
    BY <1>1, <1>2, <1>5, <2>1 DEF WorkerSure, c
  <2> QED
    BY <1>1, <1>3, <2>1, <2>2, WorkerSafe
<1>6. CASE Goto(w, "qdCommit") /\ c \in qd' /\ c \in Textual
  <2>1. Moved(w, "qdCommit")
    BY <1>1, <1>6, GotoEffect, Literals
  <2>2. WorkerSure(w)'
    BY <1>1, <1>2, <1>6, <2>1 DEF WorkerSure, c
  <2> QED
    BY <1>1, <1>3, <2>1, <2>2, WorkerSafe
<1>7. \/ \E p \in {"qd", "final"} : Goto(w, p)
      \/ Goto(w, "esCommit") /\ c \in es'
      \/ Goto(w, "qdCommit") /\ c \in qd' /\ c \in Textual
  BY DEF IndexElasticsearch, IndexQdrant, c
<1> QED
  BY <1>4, <1>5, <1>6, <1>7

\* The commits of the ids.
LEMMA CommitSafe ==
    ASSUME IdsRecorded, NEW w \in Workers,
           CommitElasticsearch(w) \/ SkipQdrant(w) \/ CommitQdrant(w)
    PROVE  StepSafe
<1>0. PICK c \in Documents : c = task[w].doc
  BY Literals DEF CommitElasticsearch, SkipQdrant, CommitQdrant, IdsRecorded, Sound
<1>1. /\ task[w].pc \in Steps \ {"start"} /\ UNCHANGED <<open, es, qd>>
      /\ task \in [Workers -> Task] /\ row \in [Documents -> Row]
  BY Literals DEF CommitElasticsearch, SkipQdrant, CommitQdrant, IdsRecorded, Sound
<1>2. WorkerSure(w) /\ row[c].status # "absent"
  BY <1>0, <1>1 DEF IdsRecorded, WorkerSure
<1>3. CASE RowGone(w)
  BY <1>1, <1>3, RunEndsSafe DEF RowGone
<1>4. ASSUME Exists(c), OnlyTask(w), task'[w].pc \in {"qd", "final"},
             task'[w].doc = task[w].doc, \A x \in Documents \ {c} : row'[x] = row[x],
             RowSafe(c)
      PROVE  StepSafe
  <2>1. RowsSafe
    <3>1. ASSUME NEW x \in Documents, x # c PROVE RowSafe(x)
      BY <1>4, <3>1 DEF IdsRecorded, RowSafe, Exists
    <3> QED
      BY <1>4, <3>1 DEF RowsSafe
  <2>2. \A d \in Documents : row[d].status = "absent" => row'[d] = row[d]
    BY <1>4 DEF Exists
  <2> QED
    BY <1>0, <1>1, <1>2, <1>4, <2>1, <2>2, RunOnSafe, Literals
<1>5. CASE CommitElasticsearch(w) /\ ~RowGone(w)
  <2>1. /\ Exists(c) /\ row' = [row EXCEPT ![c].esId = TRUE]
        /\ task' = [task EXCEPT ![w].pc = "qd", ![w].esOk = TRUE]
    BY <1>0, <1>5 DEF CommitElasticsearch
  <2>2. /\ \A x \in Documents \ {c} : row'[x] = row[x]
        /\ row'[c].esId /\ row'[c].status = row[c].status /\ row'[c].qdId = row[c].qdId
    BY <1>1, <2>1, EsIdEffect
  <2>3. OnlyTask(w) /\ task'[w].pc = "qd" /\ task'[w].doc = task[w].doc
    BY <1>1, <2>1, EsOkEffect, Literals
  <2>4. c \in es
    BY <1>0, <1>2, <1>5 DEF WorkerSure, CommitElasticsearch
  <2>5. RowSafe(c)
    BY <1>1, <2>1, <2>2, <2>4 DEF RowSafe, Exists
  <2> QED
    BY <1>4, <2>1, <2>2, <2>3, <2>5
<1>6. CASE (SkipQdrant(w) \/ CommitQdrant(w)) /\ ~RowGone(w)
  <2>1. PICK b \in BOOLEAN :
           /\ Exists(c) /\ row' = [row EXCEPT ![c].qdId = b]
           /\ task' = [task EXCEPT ![w].pc = "final", ![w].qdOk = TRUE]
           /\ b => task[w].pc = "qdCommit"
           /\ ~b => c \notin Textual
    BY <1>0, <1>6 DEF SkipQdrant, CommitQdrant
  <2>2. /\ \A x \in Documents \ {c} : row'[x] = row[x]
        /\ row'[c].qdId = b /\ row'[c].status = row[c].status /\ row'[c].esId = row[c].esId
    BY <1>1, <2>1, QdIdEffect
  <2>3. OnlyTask(w) /\ task'[w].pc = "final" /\ task'[w].doc = task[w].doc
    BY <1>1, <2>1, QdOkEffect, Literals
  <2>4. b => c \in Textual /\ (c \in qd \/ row[c].qdId)
    BY <1>0, <1>2, <2>1 DEF WorkerSure
  <2>5. ~b => ~row[c].qdId
    BY <1>1, <2>1 DEF IdsRecorded
  <2>6. RowSafe(c)
    BY <1>1, <2>1, <2>2, <2>4, <2>5 DEF RowSafe, Exists
  <2> QED
    BY <1>4, <2>1, <2>2, <2>3, <2>6
<1> QED
  BY <1>3, <1>5, <1>6

\* The end of a run.
LEMMA SettleSafe == ASSUME IdsRecorded, NEW w \in Workers, Settle(w) PROVE StepSafe
<1> DEFINE c == task[w].doc
<1>1. /\ UNCHANGED <<open, es, qd>> /\ Release(w) /\ row \in [Documents -> Row]
      /\ c \in Documents
  BY Literals DEF Settle, RowGone, IdsRecorded, Sound
<1> HIDE DEF c
<1>2. \/ UNCHANGED row
      \/ Exists(c) /\ (SetStatus(c, Outcome(w)) \/ Mark(c, Outcome(w), "other"))
  BY DEF Settle, RowGone, c
<1>3. Outcome(w) \in Statuses \ {"absent", "deleted"}
  BY OutcomeType, Literals
<1>4. UNCHANGED row \/ (Exists(c) /\ RowMarked(c, Outcome(w)))
  BY <1>1, <1>2, <1>3, SetStatusEffect, MarkEffect, Literals
<1> QED
  BY <1>1, <1>3, <1>4, RunEndsSafe

\* The sweep.
LEMMA SweepSafe ==
    ASSUME IdsRecorded, NEW w \in Workers, StartSweep(w) \/ SweepStep(w) PROVE StepSafe
<1>1. task \in [Workers -> Task] /\ row \in [Documents -> Row]
  BY DEF IdsRecorded, Sound
<1>2. UNCHANGED <<open, es, qd>>
  BY DEF StartSweep, SweepStep, SweepPublish, SweepFlip
<1>3. ASSUME NEW list \in SUBSET Documents, UNCHANGED row,
             task' = [task EXCEPT ![w] = [Idle EXCEPT !.pc = "sweep", !.todo = list]]
      PROVE  StepSafe
  <2>1. OnlyTask(w) /\ task'[w].pc = "sweep"
    BY <1>1, <1>3, ListEffect
  <2>2. WorkerSure(w)'
    BY <2>1, OutOfRunSure, Literals
  <2> QED
    BY <1>2, <1>3, <2>1, <2>2, SameRowsSafe, WorkerSafe
<1>4. CASE StartSweep(w)
  <2>1. ASSUME NEW list \in Listed PROVE list \in SUBSET Documents
    BY DEF Listed, AtLimit, Waiting
  <2>2. CASE UNCHANGED task
    BY <1>2, <1>4, <2>2, SameRowsSafe DEF StepSafe, StartSweep, IdsRecorded, Staged, StagedAbsent
  <2> QED
    BY <1>3, <1>4, <2>1, <2>2 DEF StartSweep
<1>5. CASE SweepPublish(w)
  <2>1. task[w].todo \in SUBSET Documents
    BY <1>1 DEF Task
  <2>2. CASE Release(w)
    <3>1. task[w].doc \in Documents /\ UNCHANGED row
      BY <1>5 DEF SweepPublish, IdsRecorded, Sound
    <3> QED
      BY <1>2, <2>2, <3>1, RunEndsSafe
  <2> QED
    BY <1>3, <1>5, <2>1, <2>2 DEF SweepPublish
<1>6. ASSUME NEW d \in Documents, SweepFlip(w, d) PROVE StepSafe
  <2>1. CASE Release(w) /\ UNCHANGED row
    BY <1>2, <2>1, RunEndsSafe
  <2>2. CASE ~(Release(w) /\ UNCHANGED row)
    <3> DEFINE rest == task[w].todo \ {d}
    <3>1. rest \in SUBSET Documents
      BY <1>1 DEF Task
    <3>2. /\ Exists(d) /\ SetStatus(d, "processing")
          /\ task' = [task EXCEPT ![w] = [Idle EXCEPT !.pc = "publish", !.doc = d,
                                             !.todo = rest]]
      BY <1>6, <2>2 DEF SweepFlip
    <3> HIDE DEF rest
    <3>3. OnlyTask(w) /\ task'[w].pc = "publish"
      BY <1>1, <3>1, <3>2, FlipEffect
    <3>4. RowMarked(d, "processing")
      BY <1>1, <3>2, SetStatusEffect, Literals
    <3>5. RowsSafe
      BY <3>2, <3>4, MarkedRowsSafe, Literals
    <3>6. \A x \in Documents : row[x].status = "absent" => row'[x] = row[x]
      BY <3>2, <3>4 DEF Exists
    <3>7. WorkerSure(w)'
      BY <3>3, OutOfRunSure, Literals
    <3> QED
      BY <1>2, <3>3, <3>5, <3>6, <3>7, WorkerSafe
  <2> QED
    BY <2>1, <2>2
<1> QED
  BY <1>4, <1>5, <1>6 DEF SweepStep

\* Every step of the pipeline is safe.
LEMMA PipelineSafe == ASSUME IdsRecorded, [Next]_vars PROVE StepSafe
<1>1. ASSUME NEW w \in Workers, NEW d \in Documents, Take(w, d) PROVE StepSafe
  <2>1. task \in [Workers -> Task] /\ UNCHANGED <<row, open, es, qd>>
    BY <1>1 DEF Take, IdsRecorded, Sound
  <2>2. task' = [task EXCEPT ![w] = [Idle EXCEPT !.pc = "start", !.doc = d]]
    BY <1>1 DEF Take
  <2>3. OnlyTask(w) /\ task'[w].pc = "start"
    BY <2>1, <2>2, TakeEffect
  <2>4. WorkerSure(w)'
    BY <2>3, OutOfRunSure
  <2> QED
    BY <2>1, <2>3, <2>4, SameRowsSafe, WorkerSafe
<1>2. ASSUME NEW w \in Workers, BreakOff(w) PROVE StepSafe
  <2>1. task \in [Workers -> Task] /\ UNCHANGED <<row, open, es, qd>> /\ Release(w)
    BY <1>2 DEF BreakOff, IdsRecorded, Sound
  <2>2. OnlyTask(w) /\ task'[w].pc = "idle"
    BY <2>1, ReleaseEffect
  <2>3. WorkerSure(w)'
    BY <2>2, OutOfRunSure, Literals
  <2> QED
    BY <2>1, <2>2, <2>3, SameRowsSafe, WorkerSafe
<1>3. CASE ScanAll \/ BeatTick \/ FailStuckDocuments \/ UNCHANGED vars
  <2>1. UNCHANGED <<row, open, es, qd, task>>
    BY <1>3 DEF ScanAll, BeatTick, FailStuckDocuments, vars
  <2>2. Staged'
    BY <2>1 DEF IdsRecorded, Staged, StagedAbsent
  <2> QED
    BY <2>1, <2>2, SameRowsSafe DEF StepSafe
<1>4. ASSUME NEW w \in Workers, ProcessStep(w) PROVE StepSafe
  BY <1>4, EarlySafe, IndexSafe, CommitSafe, SettleSafe DEF ProcessStep
<1> QED
  BY <1>1, <1>2, <1>3, <1>4, ApiRequestSafe, ApiFinishSafe, SweepSafe DEF Next

\* They preserve the invariant.
LEMMA PipelineRecorded ==
    ASSUME IdsRecorded, [Next]_vars PROVE IdsRecorded' /\ RowsSafe /\ qd \subseteq qd'
<1>1. StepSafe
  BY PipelineSafe
<1>2. Sound'
  BY PipelineGoesOn DEF IdsRecorded, GoesOn
<1>3. EntriesSafe
  BY <1>1 DEF StepSafe, EntriesSafe
<1> QED
  BY <1>1, <1>2, <1>3, StillRecorded DEF StepSafe

-----------------------------------------------------------------------------
(* What deletions owe.  A deletion that has taken the vectors of a row with *)
(* a qdrant_id either goes on to remove the row or gives back what it had   *)
(* captured; it has captured them unless another one had taken them before. *)

Took(r) == del[r].pc \in {"unlink", "finalize"} /\ del[r].qdId

GivesBack(r) ==
    faults > 0 /\ del[r].pc \in {"restoreEs", "restoreQd"} /\ del[r].inQd

Owing(r) == Took(r) \/ GivesBack(r)

Owed(d) == \E r \in Deleters : Doomed(r) = d /\ Owing(r)

\* A deletion past the lookups that has not captured the vectors of a row with
\* an id.
Blind(r) == /\ del[r].pc \in {"deleteEs", "deleteQd", "unlink", "finalize"}
            /\ del[r].qdId /\ ~del[r].inQd /\ Exists(Doomed(r))

\* Then the one fault has happened, or another deletion holds the vectors, on
\* which only that fault could make it give up.
Foreseen(r) ==
    Blind(r) => \/ faults > 0
                \/ \E x \in Deleters \ {r} : Doomed(x) = Doomed(r) /\ Took(x)

\* An id once read stays in the row as long as there is one.
Known(r) ==
    del[r].pc # "new" /\ del[r].qdId /\ Exists(Doomed(r)) => row[Doomed(r)].qdId

DebtInv ==
    /\ GoneInv /\ IdsRecorded
    /\ \A r \in Deleters : Known(r) /\ Foreseen(r)
    /\ \A d \in Documents : row[d].qdId => d \in qd \/ Owed(d)

\* At most one fault, and none of those that skip the rollback.
OneFaultRolledBack == Faults \cap {"flush", "abort"} = {} /\ MaxFaults <= 1

\* The fault there may be is the first.
LEMMA FirstFault ==
    ASSUME OneFaultRolledBack, GoneInv, NEW kind, Fault(kind)
    PROVE  faults = 0 /\ faults' = 1 /\ kind \notin {"flush", "abort"}
  BY DeletionAssumption DEF OneFaultRolledBack, Fault, GoneInv, DeletionTypeOK

\* Only deletion r has changed, and not the document it is about.
OnlyDel(r) ==
    /\ \A x \in Deleters \ {r} : del'[x] = del[x]
    /\ del[r].pc # "new" => del'[r].doc = del[r].doc

\* Who owed something still does.
LEMMA StillOwed ==
    ASSUME NEW r \in Deleters, OnlyDel(r), faults \in Nat,
           faults' \in {faults, faults + 1}, Owing(r) => Owing(r)',
           NEW d \in Documents, Owed(d)
    PROVE  Owed(d)'
<1>1. PICK x \in Deleters : Doomed(x) = d /\ Owing(x)
  BY DEF Owed
<1>2. del[x].pc # "new"
  BY <1>1 DEF Owing, Took, GivesBack
<1>3. Doomed(x)' = d /\ Owing(x)'
  <2>1. CASE x = r
    BY <1>1, <1>2, <2>1 DEF OnlyDel, Doomed
  <2>2. CASE x # r
    BY <1>1, <2>2 DEF OnlyDel, Doomed, Owing, Took, GivesBack
  <2> QED
    BY <2>1, <2>2
<1> QED
  BY <1>3 DEF Owed

\* Another deletion still has what it foresaw.
LEMMA StillForeseen ==
    ASSUME NEW r \in Deleters, OnlyDel(r), faults \in Nat,
           faults' \in {faults, faults + 1},
           NEW x \in Deleters, x # r, Foreseen(x),
           Exists(Doomed(x))' => Exists(Doomed(x)),
           Took(r) /\ Exists(Doomed(r))' => Took(r)' \/ faults' > 0
    PROVE  Foreseen(x)'
<1>1. del'[x] = del[x]
  BY DEF OnlyDel
<1>2. CASE faults > 0
  BY <1>2 DEF Foreseen, Blind
<1>3. ASSUME NEW y \in Deleters \ {x}, Doomed(y) = Doomed(x), Took(y),
             Exists(Doomed(x))'
      PROVE  faults' > 0 \/ (Doomed(y)' = Doomed(x)' /\ Took(y)')
  <2>1. CASE y = r
    <3>1. del'[r].doc = del[r].doc /\ del[r].doc = del[x].doc
      BY <1>3, <2>1 DEF OnlyDel, Took, Doomed
    <3>2. Exists(Doomed(r))'
      BY <1>1, <1>3, <3>1 DEF Doomed, Exists
    <3> QED
      BY <1>1, <1>3, <2>1, <3>1, <3>2 DEF Doomed
  <2>2. CASE y # r
    BY <1>1, <1>3, <2>2 DEF OnlyDel, Doomed, Took
  <2> QED
    BY <2>1, <2>2
<1> QED
  BY <1>1, <1>2, <1>3 DEF Foreseen, Blind

\* A row does not lose its id to a step of a deletion, unless it goes.
LEMMA StillKnown ==
    ASSUME NEW x \in Deleters, Known(x), DeletionTypeOK, RowsSafe,
           row[Doomed(x)].status # "absent" \/ del[x].pc = "new",
           del'[x].doc = del[x].doc, del'[x].qdId = del[x].qdId,
           del'[x].pc # "new" => del[x].pc # "new"
    PROVE  Known(x)' /\ (del[x].pc # "new" /\ Exists(Doomed(x))' => Exists(Doomed(x)))
<1>1. CASE del[x].pc = "new"
  BY <1>1 DEF Known
<1>2. CASE del[x].pc # "new"
  <2>1. PICK d \in Documents : d = del[x].doc
    BY <1>2 DEF DeletionTypeOK
  <2>2. RowSafe(d) /\ row[d].status # "absent" /\ del'[x].doc = d
    BY <1>2, <2>1 DEF RowsSafe, Doomed
  <2>3. Exists(d)' => Exists(d)
    BY <2>2 DEF RowSafe, Exists
  <2>4. row[d].qdId => row'[d].qdId \/ ~Exists(d)'
    BY <2>2 DEF RowSafe
  <2> QED
    BY <1>2, <2>1, <2>2, <2>3, <2>4 DEF Known, Doomed, Exists
<1> QED
  BY <1>1, <1>2

\* The steps of the pipeline.
LEMMA PipelineDebt ==
    ASSUME DebtInv, [Next]_vars, UNCHANGED <<del, removed, faults>> PROVE DebtInv'
<1>1. GoneInv'
  BY PipelineGone DEF DebtInv
<1>2. IdsRecorded' /\ RowsSafe /\ qd \subseteq qd'
  BY PipelineRecorded DEF DebtInv
<1>3. ASSUME NEW r \in Deleters PROVE Known(r)' /\ Foreseen(r)'
  <2>1. /\ Known(r) /\ Foreseen(r) /\ DeletionTypeOK
        /\ del[r].pc # "new" => row[Doomed(r)].status # "absent"
    BY DEF DebtInv, GoneInv
  <2>2. Known(r)' /\ (del[r].pc # "new" /\ Exists(Doomed(r))' => Exists(Doomed(r)))
    BY <1>2, <2>1, StillKnown
  <2>3. Foreseen(r)'
    BY <2>1, <2>2 DEF Foreseen, Blind, Doomed, Took
  <2> QED
    BY <2>2, <2>3
<1>4. ASSUME NEW d \in Documents, row'[d].qdId PROVE d \in qd' \/ Owed(d)'
  <2>1. row[d].qdId \/ d \in qd
    BY <1>2, <1>4 DEF RowsSafe, RowSafe
  <2>2. Owed(d) => Owed(d)'
    BY DEF Owed, Owing, Took, GivesBack, Doomed
  <2> QED
    BY <1>2, <2>1, <2>2 DEF DebtInv
<1> QED
  BY <1>1, <1>2, <1>3, <1>4 DEF DebtInv

\* The steps of deletion r that write no row.
LEMMA DeletionKeeps ==
    ASSUME DebtInv, GoneInv', NEW r \in Deleters, NEW pc, DelGoesOn(r, pc),
           del[r].pc # "new", UNCHANGED <<row, task, open>>, es \subseteq es',
           faults' \in {faults, faults + 1},
           \A d \in Documents : d \in qd => d \in qd' \/ (d = Doomed(r) /\ del[r].qdId),
           Took(r) => Took(r)' \/ faults' > 0, Foreseen(r)',
           \A d \in Documents : row[d].qdId => d \in qd' \/ Owed(d)'
    PROVE  DebtInv'
<1>1. /\ OnlyDel(r) /\ faults \in Nat /\ RowsSafe /\ DeletionTypeOK
      /\ \A x \in Deleters : del[x].pc # "new" => row[Doomed(x)].status # "absent"
  BY SameRowsSafe DEF DebtInv, GoneInv, DeletionTypeOK, DelGoesOn, OnlyDel
<1>2. IdsRecorded'
  <2>1. EntriesSafe
    BY DEF DebtInv, Known, EntriesSafe
  <2>2. Staged' /\ Sound'
    BY DEF DebtInv, IdsRecorded, Staged, StagedAbsent, Sound
  <2> QED
    BY <1>1, <2>1, <2>2, StillRecorded DEF DebtInv
<1>3. ASSUME NEW x \in Deleters PROVE Known(x)'
  <2>1. /\ del'[x].doc = del[x].doc /\ del'[x].qdId = del[x].qdId
        /\ del'[x].pc # "new" => del[x].pc # "new"
    BY DEF DelGoesOn
  <2> QED
    BY <1>1, <2>1, StillKnown DEF DebtInv
<1>4. ASSUME NEW x \in Deleters PROVE Foreseen(x)'
  <2>1. CASE x # r
    <3>1. Exists(Doomed(x))' => Exists(Doomed(x))
      BY <1>1, <2>1 DEF OnlyDel, Doomed, Exists
    <3> QED
      BY <1>1, <2>1, <3>1, StillForeseen DEF DebtInv
  <2> QED
    BY <2>1
<1> QED
  BY <1>2, <1>3, <1>4 DEF DebtInv

\* A step that takes no vectors and gives none up.
LEMMA DebtKept ==
    ASSUME DebtInv, NEW r \in Deleters, OnlyDel(r), UNCHANGED row, qd \subseteq qd',
           faults' \in {faults, faults + 1}, Owing(r) => Owing(r)'
    PROVE  \A d \in Documents : row[d].qdId => d \in qd' \/ Owed(d)'
  BY StillOwed DEF DebtInv, GoneInv, DeletionTypeOK

\* Before anything is taken.
LEMMA FetchDebt ==
    ASSUME DebtInv, NEW r \in Deleters, NEW d \in Documents, Fetch(r, d) PROVE DebtInv'
<1>1. /\ del \in [Deleters -> Deletion] /\ row \in [Documents -> Row]
      /\ UNCHANGED <<row, task, open, es, qd, faults>> /\ Exists(d) /\ del[r].pc = "new"
      /\ faults \in Nat /\ DeletionTypeOK
  BY DEF Fetch, Busy, pipeline, DebtInv, GoneInv, DeletionTypeOK, Sound
<1>2. row[d].esId \in BOOLEAN /\ row[d].qdId \in BOOLEAN
  BY <1>1 DEF Row
<1>3. /\ \A x \in Deleters \ {r} : del'[x] = del[x]
      /\ del'[r].pc = "checkEs" /\ del'[r].doc = d /\ del'[r].qdId = row[d].qdId
  BY <1>1, <1>2, FetchEffect DEF Fetch
<1>4. GoneInv'
  BY FetchGone DEF DebtInv
<1>5. OnlyDel(r) /\ RowsSafe /\ ~Owing(r)
  BY <1>1, <1>3, SameRowsSafe DEF DebtInv, OnlyDel, Owing, Took, GivesBack
<1>6. IdsRecorded'
  <2>1. EntriesSafe
    BY <1>1 DEF EntriesSafe
  <2>2. Staged' /\ Sound'
    BY <1>1 DEF DebtInv, IdsRecorded, Staged, StagedAbsent, Sound
  <2> QED
    BY <1>1, <1>5, <2>1, <2>2, StillRecorded DEF DebtInv
<1>7. ASSUME NEW x \in Deleters PROVE Known(x)' /\ Foreseen(x)'
  <2>1. CASE x = r
    BY <1>1, <1>3, <2>1 DEF Known, Foreseen, Blind, Doomed
  <2>2. CASE x # r
    <3>1. Known(x)'
      BY <1>1, <1>3, <2>2 DEF DebtInv, Known, Doomed, Exists
    <3>2. Exists(Doomed(x))' => Exists(Doomed(x))
      BY <1>1, <1>3, <2>2 DEF Doomed, Exists
    <3>3. ~Took(r)
      BY <1>5 DEF Owing
    <3> QED
      BY <1>1, <1>5, <2>2, <3>1, <3>2, <3>3, StillForeseen DEF DebtInv
  <2> QED
    BY <2>1, <2>2
<1>8. \A c \in Documents : row[c].qdId => c \in qd' \/ Owed(c)'
  BY <1>1, <1>5, DebtKept
<1> QED
  BY <1>1, <1>4, <1>6, <1>7, <1>8 DEF DebtInv

\* The lookups.
LEMMA CheckElasticsearchDebt ==
    ASSUME DebtInv, NEW r \in Deleters, CheckElasticsearch(r) PROVE DebtInv'
<1>1. /\ del \in [Deleters -> Deletion] /\ del[r].pc = "checkEs"
      /\ UNCHANGED <<row, task, open, es, qd>> /\ faults' \in {faults, faults + 1}
  BY DEF CheckElasticsearch, Busy, Fault, pipeline, DebtInv, GoneInv, DeletionTypeOK
<1>2. DelGoesOn(r, "checkQd")
  <2>1. PICK b : \/ del' = [del EXCEPT ![r] = [@ EXCEPT !.pc = "checkQd", !.inEs = b]]
                    /\ b = (del[r].esId /\ Doomed(r) \in es)
                 \/ Advance(r, "checkQd")
    BY DEF CheckElasticsearch
  <2>2. b \in BOOLEAN \/ Advance(r, "checkQd")
    BY <2>1
  <2> QED
    BY <1>1, <2>1, <2>2, InEsEffect, AdvanceEffect, DeletionLiterals
<1>3. GoneInv'
  BY EarlyDeletion DEF DebtInv
<1>4. OnlyDel(r) /\ ~Took(r) /\ ~Owing(r) /\ Foreseen(r)'
  BY <1>1, <1>2 DEF DelGoesOn, OnlyDel, Owing, Took, GivesBack, Foreseen, Blind
<1>5. \A d \in Documents : row[d].qdId => d \in qd' \/ Owed(d)'
  BY <1>1, <1>4, DebtKept
<1> QED
  BY <1>1, <1>2, <1>3, <1>4, <1>5, DeletionKeeps

\* What is not captured has been taken by another deletion, or the lookup
\* failed.
LEMMA CheckQdrantDebt ==
    ASSUME DebtInv, NEW r \in Deleters, CheckQdrantAndDisk(r) PROVE DebtInv'
<1>1. /\ del \in [Deleters -> Deletion] /\ del[r].pc = "checkQd" /\ faults \in Nat
      /\ UNCHANGED <<row, task, open, es, qd>> /\ faults' \in {faults, faults + 1}
      /\ del[r].doc \in Documents
  BY DEF CheckQdrantAndDisk, Busy, Fault, pipeline, DebtInv, GoneInv, DeletionTypeOK
<1>2. PICK found \in BOOLEAN :
         /\ del' = [del EXCEPT ![r] = [@ EXCEPT !.pc = "deleteEs", !.inQd = found,
                                         !.onDisk = Doomed(r) \in file]]
         /\ \/ found = (del[r].qdId /\ Doomed(r) \in qd) /\ UNCHANGED faults
            \/ faults' = faults + 1
  BY DEF CheckQdrantAndDisk, Fault
<1>3. DelGoesOn(r, "deleteEs") /\ del'[r].inQd = found
  <2>1. (Doomed(r) \in file) \in BOOLEAN
    OBVIOUS
  <2> QED
    BY <1>1, <1>2, <2>1, InQdEffect, DeletionLiterals
<1>4. GoneInv'
  BY EarlyDeletion DEF DebtInv
<1>5. OnlyDel(r) /\ ~Took(r) /\ ~Owing(r)
  BY <1>1, <1>3 DEF DelGoesOn, OnlyDel, Owing, Took, GivesBack
<1>6. Foreseen(r)'
  <2>1. SUFFICES ASSUME Blind(r)', ~(faults' > 0)
        PROVE  \E x \in Deleters \ {r} : Doomed(x)' = Doomed(r)' /\ Took(x)'
    BY DEF Foreseen
  <2>2. PICK d \in Documents : d = del[r].doc
    BY <1>1
  <2>3. /\ del'[r].doc = d /\ Exists(d) /\ del[r].qdId /\ ~found
        /\ UNCHANGED faults /\ faults = 0
    BY <1>1, <1>2, <1>3, <2>1, <2>2 DEF Blind, DelGoesOn, Doomed, Exists
  <2>4. d \notin qd /\ row[d].qdId
    <3>1. found = (del[r].qdId /\ d \in qd)
      <4>1. faults' # faults + 1
        BY <2>3
      <4> QED
        BY <1>2, <2>2, <4>1 DEF Doomed
    <3>2. Known(r)
      BY DEF DebtInv
    <3>3. row[d].qdId
      BY <1>1, <2>2, <2>3, <3>2 DEF Known, Doomed
    <3>4. d \notin qd
      BY <2>3, <3>1, Zenon
    <3> QED
      BY <3>3, <3>4
  <2>5. PICK x \in Deleters : Doomed(x) = d /\ Took(x)
    BY <2>3, <2>4 DEF DebtInv, Owed, Owing, GivesBack
  <2>6. x # r
    BY <1>5, <2>5
  <2> QED
    BY <1>3, <2>2, <2>3, <2>5, <2>6 DEF DelGoesOn, Doomed, Took
<1>7. \A d \in Documents : row[d].qdId => d \in qd' \/ Owed(d)'
  BY <1>1, <1>5, DebtKept
<1> QED
  BY <1>1, <1>3, <1>4, <1>5, <1>6, <1>7, DeletionKeeps

\* Elasticsearch cannot delete; nothing has been taken so far.
LEMMA DeleteElasticsearchDebt ==
    ASSUME DebtInv, NEW r \in Deleters, DeleteElasticsearch(r) PROVE DebtInv'
<1>1. /\ del \in [Deleters -> Deletion] /\ del[r].pc = "deleteEs"
      /\ UNCHANGED <<row, task, open, es, qd, faults>> /\ faults \in Nat
  BY DEF DeleteElasticsearch, Busy, pipeline, DebtInv, GoneInv, DeletionTypeOK
<1>2. PICK pc \in {"restoreEs", "deleteQd"} :
         DelGoesOn(r, pc) /\ del'[r].inQd = del[r].inQd
  <2>1. PICK pc \in {"restoreEs", "deleteQd"} : Advance(r, pc)
    BY DEF DeleteElasticsearch
  <2> QED
    BY <1>1, <2>1, AdvanceEffect, DeletionLiterals
<1>3. GoneInv'
  BY EarlyDeletion DEF DebtInv
<1>4. OnlyDel(r) /\ ~Took(r) /\ ~Owing(r)
  BY <1>1, <1>2 DEF DelGoesOn, OnlyDel, Owing, Took, GivesBack
<1>5. Foreseen(r)'
  <2>1. Foreseen(r)
    BY DEF DebtInv
  <2>2. Blind(r)' => Blind(r)
    BY <1>1, <1>2 DEF DelGoesOn, Blind, Doomed, Exists
  <2> QED
    BY <1>1, <1>2, <2>1, <2>2 DEF DelGoesOn, Foreseen, Doomed, Took
<1>6. \A d \in Documents : row[d].qdId => d \in qd' \/ Owed(d)'
  BY <1>1, <1>4, DebtKept
<1> QED
  BY <1>1, <1>2, <1>3, <1>4, <1>5, <1>6, DeletionKeeps

\* A deletion that foresaw nothing to give back, and fails at the first fault,
\* leaves the vectors to the one that took them.
LEMMA LeftToAnother ==
    ASSUME DebtInv, NEW r \in Deleters, OnlyDel(r), faults = 0, faults' = 1,
           Blind(r), NEW d \in Documents, d = del[r].doc
    PROVE  Owed(d)'
<1>1. PICK x \in Deleters \ {r} : Doomed(x) = Doomed(r) /\ Took(x)
  BY DEF DebtInv, Foreseen
<1>2. Doomed(x)' = d /\ Owing(x)'
  BY <1>1 DEF OnlyDel, Doomed, Owing, Took
<1> QED
  BY <1>2 DEF Owed

\* A row with an id is there.
LEMMA IdMeansRow ==
    ASSUME IdsRecorded, NEW d \in Documents, row[d].qdId PROVE Exists(d)
  BY DEF IdsRecorded

\* A deletion gives up at the first fault, before the row is written.
LEMMA GivesUpDebt ==
    ASSUME DebtInv, GoneInv', NEW r \in Deleters, DelGoesOn(r, "restoreEs"),
           del'[r].inQd = del[r].inQd, faults = 0, faults' = 1,
           UNCHANGED <<row, task, open, es>>,
           \/ del[r].pc = "deleteQd" /\ del[r].qdId /\ qd' \in {qd, qd \ {Doomed(r)}}
           \/ del[r].pc \in {"unlink", "finalize"} /\ UNCHANGED qd
    PROVE  DebtInv'
<1>1. OnlyDel(r) /\ Foreseen(r)'
  BY DEF DelGoesOn, OnlyDel, Foreseen
<1>2. ASSUME NEW d \in Documents, d # del[r].doc, row[d].qdId
      PROVE  d \in qd' \/ Owed(d)'
  <2>1. CASE d \in qd
    BY <1>2, <2>1 DEF Doomed
  <2>2. CASE d \notin qd
    <3>1. PICK x \in Deleters : Doomed(x) = d /\ Owing(x)
      BY <1>2, <2>2 DEF DebtInv, Owed
    <3>2. x # r
      BY <1>2, <3>1 DEF Doomed
    <3>3. Doomed(x)' = d /\ Owing(x)'
      BY <1>1, <3>1, <3>2 DEF OnlyDel, Doomed, Owing, Took, GivesBack
    <3> QED
      BY <3>3 DEF Owed
  <2> QED
    BY <2>1, <2>2
<1>3. ASSUME NEW d \in Documents, d = del[r].doc, row[d].qdId
      PROVE  d \in qd' \/ Owed(d)'
  <2>0. Exists(d)
    BY <1>3, IdMeansRow DEF DebtInv
  <2>1. CASE del[r].qdId /\ del[r].inQd
    <3>1. Doomed(r)' = d /\ Owing(r)'
      BY <1>3, <2>1 DEF DelGoesOn, Doomed, Owing, GivesBack
    <3> QED
      BY <3>1 DEF Owed
  <2>2. CASE del[r].qdId /\ ~del[r].inQd
    <3>1. Blind(r)
      BY <1>3, <2>0, <2>2 DEF Blind, Doomed
    <3> QED
      BY <1>1, <1>3, <3>1, LeftToAnother
  <2>3. CASE ~del[r].qdId
    <3>1. UNCHANGED qd /\ (Owed(d) => Owed(d)')
      <4>1. ~Owing(r)
        BY <2>3 DEF Owing, Took, GivesBack
      <4>2. faults \in Nat /\ faults' \in {faults, faults + 1}
        OBVIOUS
      <4> QED
        BY <1>1, <2>3, <4>1, <4>2, StillOwed
    <3> QED
      BY <1>3, <3>1 DEF DebtInv
  <2> QED
    BY <2>1, <2>2, <2>3
<1>4. \A d \in Documents : d \in qd => d \in qd' \/ (d = Doomed(r) /\ del[r].qdId)
  OBVIOUS
<1>5. \A d \in Documents : row[d].qdId => d \in qd' \/ Owed(d)'
  BY <1>2, <1>3
<1>6. del[r].pc # "new" /\ es \subseteq es' /\ faults' \in {faults, faults + 1}
  OBVIOUS
<1> QED
  BY <1>1, <1>4, <1>5, <1>6, DeletionKeeps

\* The vectors are taken, and owed from then on.
LEMMA DeleteQdrantDebt ==
    ASSUME OneFaultRolledBack, DebtInv, NEW r \in Deleters, DeleteQdrant(r) PROVE DebtInv'
<1>1. /\ del \in [Deleters -> Deletion] /\ del[r].pc = "deleteQd" /\ faults \in Nat
      /\ UNCHANGED <<row, task, open, es>>
  BY DEF DeleteQdrant, Busy, pipeline, DebtInv, GoneInv, DeletionTypeOK
<1>2. GoneInv'
  BY EarlyDeletion DEF DebtInv
<1>3. CASE /\ qd' = IF del[r].qdId THEN qd \ {Doomed(r)} ELSE qd
           /\ Advance(r, "unlink") /\ UNCHANGED faults
  <2>1. DelGoesOn(r, "unlink") /\ del'[r].inQd = del[r].inQd
    BY <1>1, <1>3, AdvanceEffect, DeletionLiterals
  <2>2. OnlyDel(r) /\ ~Owing(r) /\ ~Took(r)
    BY <1>1, <2>1 DEF DelGoesOn, OnlyDel, Owing, Took, GivesBack
  <2>3. Foreseen(r)'
    <3>1. Foreseen(r)
      BY DEF DebtInv
    <3>2. Blind(r)' => Blind(r)
      BY <1>1, <2>1 DEF DelGoesOn, Blind, Doomed, Exists
    <3> QED
      BY <1>3, <2>1, <3>1, <3>2 DEF DelGoesOn, Foreseen, Doomed, Took
  <2>4. ASSUME NEW d \in Documents, row[d].qdId PROVE d \in qd' \/ Owed(d)'
    <3>1. CASE d = Doomed(r) /\ del[r].qdId
      <4>1. Doomed(r)' = d /\ Owing(r)'
        BY <2>1, <3>1 DEF DelGoesOn, Doomed, Owing, Took
      <4> QED
        BY <4>1 DEF Owed
    <3>2. CASE ~(d = Doomed(r) /\ del[r].qdId)
      <4>1. d \in qd => d \in qd'
        BY <1>3, <3>2
      <4>2. Owed(d) => Owed(d)'
        BY <1>1, <1>3, <2>2, StillOwed
      <4> QED
        BY <2>4, <4>1, <4>2 DEF DebtInv
    <3> QED
      BY <3>1, <3>2
  <2>5. \A d \in Documents : d \in qd => d \in qd' \/ (d = Doomed(r) /\ del[r].qdId)
    BY <1>3
  <2> QED
    BY <1>1, <1>2, <1>3, <2>1, <2>2, <2>3, <2>4, <2>5, DeletionKeeps
<1>4. CASE /\ del[r].qdId /\ Fault("delete")
           /\ qd' \in {qd, qd \ {Doomed(r)}} /\ Advance(r, "restoreEs")
  <2>1. faults = 0 /\ faults' = 1
    BY <1>4, FirstFault DEF DebtInv
  <2>2. DelGoesOn(r, "restoreEs") /\ del'[r].inQd = del[r].inQd
    BY <1>1, <1>4, AdvanceEffect, DeletionLiterals
  <2> QED
    BY <1>1, <1>2, <1>4, <2>1, <2>2, GivesUpDebt
<1> QED
  BY <1>3, <1>4 DEF DeleteQdrant

\* The file.
LEMMA UnlinkDebt ==
    ASSUME OneFaultRolledBack, DebtInv, NEW r \in Deleters, Unlink(r) PROVE DebtInv'
<1>1. /\ del \in [Deleters -> Deletion] /\ del[r].pc = "unlink" /\ faults \in Nat
      /\ UNCHANGED <<row, task, open, es, qd>>
  BY DEF Unlink, Busy, pipeline, DebtInv, GoneInv, DeletionTypeOK
<1>2. GoneInv'
  BY UnlinkGone DEF DebtInv
<1>3. CASE Advance(r, "finalize") /\ UNCHANGED faults
  <2>1. DelGoesOn(r, "finalize") /\ del'[r].inQd = del[r].inQd
    BY <1>1, <1>3, AdvanceEffect, DeletionLiterals
  <2>2. OnlyDel(r) /\ (Owing(r) => Owing(r)') /\ (Took(r) => Took(r)')
    BY <1>1, <2>1 DEF DelGoesOn, OnlyDel, Owing, Took, GivesBack
  <2>3. Foreseen(r)'
    <3>1. Foreseen(r)
      BY DEF DebtInv
    <3>2. Blind(r)' => Blind(r)
      BY <1>1, <2>1 DEF DelGoesOn, Blind, Doomed, Exists
    <3> QED
      BY <1>3, <2>1, <3>1, <3>2 DEF DelGoesOn, Foreseen, Doomed, Took
  <2>4. \A d \in Documents : row[d].qdId => d \in qd' \/ Owed(d)'
    BY <1>1, <1>3, <2>2, DebtKept
  <2> QED
    BY <1>1, <1>2, <1>3, <2>1, <2>2, <2>3, <2>4, DeletionKeeps
<1>4. CASE Fault("unlink") /\ Advance(r, "restoreEs")
  <2>1. faults = 0 /\ faults' = 1
    BY <1>4, FirstFault DEF DebtInv
  <2>2. DelGoesOn(r, "restoreEs") /\ del'[r].inQd = del[r].inQd
    BY <1>1, <1>4, AdvanceEffect, DeletionLiterals
  <2> QED
    BY <1>1, <1>2, <2>1, <2>2, GivesUpDebt
<1> QED
  BY <1>3, <1>4 DEF Unlink

\* The row goes, and with it what is owed.
LEMMA RowGoesDebt ==
    ASSUME DebtInv, GoneInv', NEW r \in Deleters, NEW pc \in {"succeeded", "restoreEs"},
           DelGoesOn(r, pc), del'[r].inQd = del[r].inQd, del[r].pc = "finalize",
           RemoveRow(Doomed(r)), UNCHANGED <<task, open, es, qd>>,
           faults' \in {faults, faults + 1}
    PROVE  DebtInv'
<1>1. /\ OnlyDel(r) /\ faults \in Nat /\ DeletionTypeOK
      /\ \A x \in Deleters : del[x].pc # "new" => row[Doomed(x)].status # "absent"
  BY DEF DebtInv, GoneInv, DeletionTypeOK, DelGoesOn, OnlyDel
<1>2. PICK c \in Documents : c = del[r].doc
  BY <1>1 DEF DeletionTypeOK
<1>3. RowsSafe /\ (\A x \in Documents \ {c} : row'[x] = row[x]) /\ ~Exists(c)'
  <2>1. CASE Exists(c)
    <3>1. row' = [row EXCEPT ![c] = Fresh("deleted")]
      BY <1>2, <2>1 DEF RemoveRow, Doomed
    <3>2. row'[c].status = "deleted" /\ \A x \in Documents \ {c} : row'[x] = row[x]
      BY <3>1, FreshEffect, Literals DEF DebtInv, GoneInv, Sound
    <3> QED
      BY <3>1, <3>2, FreshRowsSafe, Literals DEF DebtInv, Exists
  <2>2. CASE ~Exists(c)
    <3>1. UNCHANGED row
      BY <1>2, <2>2 DEF RemoveRow, Doomed
    <3> QED
      BY <2>2, <3>1, SameRowsSafe DEF DebtInv, Exists
  <2> QED
    BY <2>1, <2>2
<1>4. IdsRecorded'
  <2>1. EntriesSafe
    BY DEF EntriesSafe
  <2>2. Staged' /\ Sound'
    <3>1. \A d \in Documents : row[d].status = "absent" => row'[d].status = "absent"
      BY <1>1, <1>2, <1>3 DEF Doomed
    <3> QED
      BY <3>1 DEF DebtInv, GoneInv, IdsRecorded, Staged, StagedAbsent
  <2> QED
    BY <1>3, <2>1, <2>2, StillRecorded DEF DebtInv
<1>5. ASSUME NEW x \in Deleters PROVE Known(x)' /\ Foreseen(x)'
  <2>1. /\ del'[x].doc = del[x].doc /\ del'[x].qdId = del[x].qdId
        /\ del'[x].pc # "new" => del[x].pc # "new"
    BY DEF DelGoesOn
  <2>2. Known(x)' /\ (del[x].pc # "new" /\ Exists(Doomed(x))' => Exists(Doomed(x)))
    BY <1>1, <1>3, <2>1, StillKnown DEF DebtInv
  <2>3. CASE x = r
    BY <1>2, <2>2, <2>3 DEF DelGoesOn, Foreseen, Blind
  <2>4. CASE x # r
    <3>1. Doomed(r)' = c /\ ~Exists(Doomed(r))'
      BY <1>2, <1>3 DEF DelGoesOn, Doomed, Exists
    <3>2. CASE del[x].pc = "new"
      BY <2>2, <2>4, <3>2 DEF DelGoesOn, Foreseen, Blind
    <3>3. CASE del[x].pc # "new"
      BY <1>1, <2>2, <2>4, <3>1, <3>3, StillForeseen DEF DebtInv
    <3> QED
      BY <3>2, <3>3
  <2> QED
    BY <2>3, <2>4
<1>6. ASSUME NEW d \in Documents, row'[d].qdId PROVE d \in qd' \/ Owed(d)'
  <2>1. d # c
    BY <1>3, <1>4, <1>6 DEF IdsRecorded
  <2>2. CASE d \in qd
    BY <2>2
  <2>3. CASE d \notin qd
    <3>1. PICK x \in Deleters : Doomed(x) = d /\ Owing(x)
      BY <1>3, <1>6, <2>1, <2>3 DEF DebtInv, Owed
    <3>2. x # r
      BY <1>2, <2>1, <3>1 DEF Doomed
    <3>3. Doomed(x)' = d /\ Owing(x)'
      BY <1>1, <3>1, <3>2 DEF OnlyDel, Doomed, Owing, Took, GivesBack
    <3> QED
      BY <3>3 DEF Owed
  <2> QED
    BY <2>2, <2>3
<1> QED
  BY <1>4, <1>5, <1>6 DEF DebtInv

\* The row goes, or the flush or the commit fails.
LEMMA FinalizeDebt ==
    ASSUME OneFaultRolledBack, DebtInv, NEW r \in Deleters, Finalize(r) PROVE DebtInv'
<1>1. /\ del \in [Deleters -> Deletion] /\ del[r].pc = "finalize" /\ faults \in Nat
      /\ UNCHANGED <<task, open, es, qd>>
  BY DEF Finalize, Busy, pipeline, DebtInv, GoneInv, DeletionTypeOK
<1>2. GoneInv'
  BY FinalizeGone DEF DebtInv
<1>3. ~Fault("flush")
  BY FirstFault DEF DebtInv
<1>4. CASE RemoveRow(Doomed(r)) /\ Advance(r, "succeeded") /\ UNCHANGED faults
  <2>1. DelGoesOn(r, "succeeded") /\ del'[r].inQd = del[r].inQd
    BY <1>1, <1>4, AdvanceEffect
  <2> QED
    BY <1>1, <1>2, <1>4, <2>1, RowGoesDebt
<1>5. CASE /\ Fault("commit") /\ Advance(r, "restoreEs")
           /\ RemoveRow(Doomed(r)) \/ UNCHANGED <<row, removed>>
  <2>1. faults = 0 /\ faults' = 1
    BY <1>5, FirstFault DEF DebtInv
  <2>2. DelGoesOn(r, "restoreEs") /\ del'[r].inQd = del[r].inQd
    BY <1>1, <1>5, AdvanceEffect, DeletionLiterals
  <2> QED
    BY <1>1, <1>2, <1>5, <2>1, <2>2, RowGoesDebt, GivesUpDebt
<1> QED
  BY <1>3, <1>4, <1>5 DEF Finalize

\* What was captured is given back.
LEMMA RestoreElasticsearchDebt ==
    ASSUME DebtInv, NEW r \in Deleters, RestoreElasticsearch(r) PROVE DebtInv'
<1>1. /\ del \in [Deleters -> Deletion] /\ del[r].pc = "restoreEs" /\ faults \in Nat
      /\ UNCHANGED <<row, task, open, qd>> /\ es \subseteq es'
      /\ faults' \in {faults, faults + 1} /\ Advance(r, "restoreQd")
  BY DEF RestoreElasticsearch, Busy, Fault, pipeline, DebtInv, GoneInv, DeletionTypeOK
<1>2. GoneInv'
  BY LateDeletion DEF DebtInv
<1>3. DelGoesOn(r, "restoreQd") /\ del'[r].inQd = del[r].inQd
  BY <1>1, AdvanceEffect, DeletionLiterals
<1>4. OnlyDel(r) /\ (Owing(r) => Owing(r)') /\ ~Took(r) /\ Foreseen(r)'
  BY <1>1, <1>3 DEF DelGoesOn, OnlyDel, Owing, Took, GivesBack, Foreseen, Blind
<1>5. \A d \in Documents : row[d].qdId => d \in qd' \/ Owed(d)'
  BY <1>1, <1>4, DebtKept
<1> QED
  BY <1>1, <1>2, <1>3, <1>4, <1>5, DeletionKeeps

\* Restoring the vectors fails only when nothing was owed yet.
LEMMA RestoreQdrantDebt ==
    ASSUME OneFaultRolledBack, DebtInv, NEW r \in Deleters, RestoreQdrant(r) PROVE DebtInv'
<1>1. /\ del \in [Deleters -> Deletion] /\ del[r].pc = "restoreQd" /\ faults \in Nat
      /\ UNCHANGED <<row, task, open, es>> /\ qd \subseteq qd'
      /\ faults' \in {faults, faults + 1} /\ Advance(r, "failed")
  BY DEF RestoreQdrant, Busy, Fault, pipeline, DebtInv, GoneInv, DeletionTypeOK
<1>2. GoneInv'
  BY LateDeletion DEF DebtInv
<1>3. DelGoesOn(r, "failed") /\ del'[r].inQd = del[r].inQd
  BY <1>1, AdvanceEffect, DeletionLiterals
<1>4. OnlyDel(r) /\ ~Took(r) /\ Foreseen(r)'
  BY <1>1, <1>3 DEF DelGoesOn, OnlyDel, Took, Foreseen, Blind
<1>5. Owing(r) => Doomed(r) \in qd'
  <2>1. CASE qd' = (IF del[r].inQd THEN qd \cup {Doomed(r)} ELSE qd)
    BY <1>4, <2>1 DEF Owing, GivesBack
  <2>2. CASE Fault("restore")
    BY <1>4, <2>2, FirstFault DEF DebtInv, Owing, GivesBack
  <2> QED
    BY <2>1, <2>2 DEF RestoreQdrant
<1>6. ASSUME NEW d \in Documents, row[d].qdId PROVE d \in qd' \/ Owed(d)'
  <2>1. CASE Owed(d)
    <3>1. PICK x \in Deleters : Doomed(x) = d /\ Owing(x)
      BY <2>1 DEF Owed
    <3>2. CASE x = r
      BY <1>5, <3>1, <3>2
    <3>3. CASE x # r
      <4>1. Doomed(x)' = d /\ Owing(x)'
        BY <1>1, <1>4, <3>1, <3>3 DEF OnlyDel, Doomed, Owing, Took, GivesBack
      <4> QED
        BY <4>1 DEF Owed
    <3> QED
      BY <3>2, <3>3
  <2>2. CASE ~Owed(d)
    BY <1>1, <1>6, <2>2 DEF DebtInv
  <2> QED
    BY <2>1, <2>2
<1> QED
  BY <1>1, <1>2, <1>3, <1>4, <1>6, DeletionKeeps

\* Initially nothing is stored and nothing owed.
LEMMA DebtInit == DeletionInit => DebtInv
<1> SUFFICES ASSUME DeletionInit PROVE DebtInv
  OBVIOUS
<1>1. GoneInv
  BY GoneInit
<1>2. /\ \A d \in Documents : ~row[d].esId /\ ~row[d].qdId
      /\ \A r \in Deleters : del[r].pc = "new"
      /\ \A w \in Workers : task[w].pc = "idle"
      /\ \A d \in Documents : open[d] = "none"
      /\ DOMAIN open = Documents
  BY DEF DeletionInit, Init, Fresh, NewDeletion, Idle
<1>3. IdsRecorded
  BY <1>1, <1>2, Literals DEF GoneInv, IdsRecorded, Staged, StagedAbsent, WorkerSure
<1> QED
  BY <1>1, <1>2, <1>3 DEF DebtInv, Known, Foreseen, Blind

\* Every step keeps the invariant.
LEMMA DebtNext ==
    ASSUME OneFaultRolledBack, DebtInv, [DeletionNext]_delVars PROVE DebtInv'
<1>1. CASE (Next \/ UNCHANGED vars) /\ UNCHANGED <<del, removed, faults>>
  BY <1>1, PipelineDebt
<1>2. ASSUME NEW r \in Deleters, DeletionStep(r) PROVE DebtInv'
  <2>1. ~Abort(r)
    BY FirstFault DEF Abort, DebtInv
  <2> QED
    BY <1>2, <2>1, FetchDebt, CheckElasticsearchDebt, CheckQdrantDebt,
       DeleteElasticsearchDebt, DeleteQdrantDebt, UnlinkDebt, FinalizeDebt,
       RestoreElasticsearchDebt, RestoreQdrantDebt DEF DeletionStep
<1> QED
  BY <1>1, <1>2 DEF DeletionNext, delVars

\* While at most one fault happens, and none that skips the rollback, a
\* document no deletion is working on is as searchable as its ids say.
THEOREM QuietIdsAreBacked ==
    ASSUME OneFaultRolledBack PROVE DeletionSpec => []IdsBackedWhenQuiet
<1>1. DebtInv => IdsBackedWhenQuiet
  <2> SUFFICES ASSUME DebtInv, NEW d \in Documents, Undisturbed(d)
               PROVE  (row[d].esId => d \in es) /\ (row[d].qdId => d \in qd)
    BY DEF IdsBackedWhenQuiet
  <2>1. ~Owed(d)
    BY DeletionLiterals DEF Undisturbed, Owed, Owing, Took, GivesBack
  <2> QED
    BY <2>1 DEF DebtInv, IdsRecorded
<1>2. DebtInv /\ [DeletionNext]_delVars => DebtInv'
  BY DebtNext
<1> QED
  BY DebtInit, <1>1, <1>2, PTL DEF DeletionSpec

=============================================================================
