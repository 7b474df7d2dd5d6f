--------------------------- MODULE AtomicDeletion ---------------------------
(***************************************************************************)
(* AtomicDeletionService: the deletion of one document from the two search *)
(* engines, the disk and the database, while the pipeline goes on.  A      *)
(* deletion captures what it finds, deletes system by system, removes the  *)
(* row, and restores what it captured when a step raises.                  *)
(*                                                                         *)
(* The module extends the pipeline: its rows, files and index entries are  *)
(* the pipeline's, and every step of the pipeline may come in between.     *)
(***************************************************************************)
EXTENDS DocumentPipeline

CONSTANTS
    Deleters,   \* deletion requests
    Faults,     \* what may go wrong in the instance
    MaxFaults   \* bound: how often it may

FaultKinds == {"prepare", "delete", "unlink", "flush", "commit", "restore",
               "abort"}

ASSUME DeletionAssumption == Faults \subseteq FaultKinds /\ MaxFaults \in Nat

VARIABLES
    del,      \* the deletion requests
    removed,  \* documents whose row a deletion removed
    faults    \* faults so far

delVars == <<vars, del, removed, faults>>

Active == {"checkEs", "checkQd", "deleteEs", "deleteQd", "unlink", "finalize",
           "restoreEs", "restoreQd"}

\* esId and qdId as loaded by the fetch; inEs, inQd and onDisk as captured
\* by the prepare phase.
Deletion == [pc : Active \cup {"new", "succeeded", "failed", "aborted"},
             doc : Documents \cup {NoDoc},
             esId : BOOLEAN, qdId : BOOLEAN,
             inEs : BOOLEAN, inQd : BOOLEAN, onDisk : BOOLEAN]

NewDeletion == [pc |-> "new", doc |-> NoDoc, esId |-> FALSE, qdId |-> FALSE,
                inEs |-> FALSE, inQd |-> FALSE, onDisk |-> FALSE]

DeletionTypeOK ==
    /\ del \in [Deleters -> Deletion]
    /\ \A r \in Deleters : del[r].pc # "new" => del[r].doc \in Documents
    /\ removed \subseteq Documents
    /\ faults \in Nat

DeletionInit ==
    /\ Init
    /\ del = [r \in Deleters |-> NewDeletion]
    /\ removed = {}
    /\ faults = 0

-----------------------------------------------------------------------------
Busy(r, pc) == del[r].pc = pc
Doomed(r) == del[r].doc
Advance(r, pc) == del' = [del EXCEPT ![r].pc = pc]

Fault(kind) == /\ kind \in Faults
               /\ faults < MaxFaults
               /\ faults' = faults + 1

pipeline == <<open, queue, sweeps, task, bounds>>

\* Mutant: a row that is not found is not refused.
FetchUnvalidated(r, d) ==
    /\ Busy(r, "new")
    /\ del' = [del EXCEPT ![r] = [NewDeletion EXCEPT
                 !.pc = "checkEs", !.doc = IF Exists(d) THEN d ELSE NoDoc,
                 !.esId = row[d].esId, !.qdId = row[d].qdId]]
    /\ UNCHANGED <<row, file, stores, pipeline, removed, faults>>

\* The row and its ids are read once.  (A document of another tenant is not
\* found, and nothing happens.)
Fetch(r, d) ==
    /\ Busy(r, "new") /\ Exists(d)
    /\ del' = [del EXCEPT ![r] = [NewDeletion EXCEPT
                 !.pc = "checkEs", !.doc = d,
                 !.esId = row[d].esId, !.qdId = row[d].qdId]]
    /\ UNCHANGED <<row, file, stores, pipeline, removed, faults>>

\* A lookup that raises leaves the phase without rollback data.
CheckElasticsearch(r) ==
    /\ Busy(r, "checkEs")
    /\ \/ /\ del' = [del EXCEPT ![r] = [@ EXCEPT !.pc = "checkQd",
                       !.inEs = del[r].esId /\ Doomed(r) \in es]]
          /\ UNCHANGED faults
       \/ del[r].esId /\ Fault("prepare") /\ Advance(r, "checkQd")
    /\ UNCHANGED <<row, file, stores, pipeline, removed>>

\* The vectors, then the local file.  A lookup of the vectors that raises
\* counts as "not there".  The remote object is never found: its key is
\* built with arguments the function does not take, which is caught.
CheckQdrantAndDisk(r) ==
    /\ Busy(r, "checkQd")
    /\ \E found \in BOOLEAN :
          /\ del' = [del EXCEPT ![r] = [@ EXCEPT !.pc = "deleteEs",
                       !.inQd = found, !.onDisk = Doomed(r) \in file]]
          /\ \/ found = (del[r].qdId /\ Doomed(r) \in qd) /\ UNCHANGED faults
             \/ ~found /\ del[r].qdId /\ Fault("prepare")
    /\ UNCHANGED <<row, file, stores, pipeline, removed>>

\* ElasticsearchService has no delete_document: with an elasticsearch_id the
\* call raises.
DeleteElasticsearch(r) ==
    /\ Busy(r, "deleteEs")
    /\ Advance(r, IF del[r].esId THEN "restoreEs" ELSE "deleteQd")
    /\ UNCHANGED <<row, file, stores, pipeline, removed, faults>>

\* A call that raises may have deleted the vectors all the same.
DeleteQdrant(r) ==
    /\ Busy(r, "deleteQd")
    /\ \/ /\ qd' = IF del[r].qdId THEN qd \ {Doomed(r)} ELSE qd
          /\ Advance(r, "unlink") /\ UNCHANGED faults
       \/ /\ del[r].qdId /\ Fault("delete")
          /\ qd' \in {qd, qd \ {Doomed(r)}} /\ Advance(r, "restoreEs")
    /\ UNCHANGED <<row, file, es, pipeline, removed>>

\* Mutant: like the remote object, a file that cannot be deleted is skipped.
UnlinkOrSkip(r) ==
    /\ Busy(r, "unlink") /\ Advance(r, "finalize")
    /\ \/ file' = file \ {Doomed(r)} /\ UNCHANGED faults
       \/ Doomed(r) \in file /\ Fault("unlink") /\ UNCHANGED file
    /\ UNCHANGED <<row, stores, pipeline, removed>>

\* The file, if there still is one.  The remote object is skipped as above.
Unlink(r) ==
    /\ Busy(r, "unlink")
    /\ \/ file' = file \ {Doomed(r)} /\ Advance(r, "finalize") /\ UNCHANGED faults
       \/ /\ Doomed(r) \in file /\ Fault("unlink")
          /\ Advance(r, "restoreEs") /\ UNCHANGED file
    /\ UNCHANGED <<row, stores, pipeline, removed>>

RemoveRow(d) ==
    /\ row' = IF Exists(d) THEN [row EXCEPT ![d] = Fresh("deleted")] ELSE row
    /\ removed' = removed \cup {d}

\* The audit entry and the removal of the row commit together; a row that is
\* gone already is no error.  When the flush raises (a foreign key, a lost
\* connection), the session expires the row and the handler's first use of
\* it raises too: nothing is restored.  A commit that raises may have
\* happened.
Finalize(r) ==
    /\ Busy(r, "finalize")
    /\ \/ RemoveRow(Doomed(r)) /\ Advance(r, "succeeded") /\ UNCHANGED faults
       \/ Fault("flush") /\ Advance(r, "failed") /\ UNCHANGED <<row, removed>>
       \/ /\ Fault("commit") /\ Advance(r, "restoreEs")
          /\ RemoveRow(Doomed(r)) \/ UNCHANGED <<row, removed>>
    /\ UNCHANGED <<file, stores, pipeline>>

\* Rollback, captured system by captured system; a failure is collected and
\* the rest still restored.
RestoreElasticsearch(r) ==
    /\ Busy(r, "restoreEs") /\ Advance(r, "restoreQd")
    /\ \/ /\ es' = IF del[r].inEs THEN es \cup {Doomed(r)} ELSE es
          /\ UNCHANGED faults
       \/ /\ del[r].inEs /\ Fault("restore")
          /\ es' \in {es, es \cup {Doomed(r)}}
    /\ UNCHANGED <<row, file, qd, pipeline, removed>>

\* Mutant: the rollback ends after Elasticsearch.
RestoreQdrantNot(r) ==
    /\ Busy(r, "restoreQd") /\ Advance(r, "failed")
    /\ UNCHANGED <<row, file, stores, pipeline, removed, faults>>

\* A local file is not restored, and for the caller every failure is the
\* same; whether restoring failed as well is only recorded in an audit entry.
RestoreQdrant(r) ==
    /\ Busy(r, "restoreQd") /\ Advance(r, "failed")
    /\ \/ /\ qd' = IF del[r].inQd THEN qd \cup {Doomed(r)} ELSE qd
          /\ UNCHANGED faults
       \/ /\ del[r].inQd /\ Fault("restore")
          /\ qd' \in {qd, qd \cup {Doomed(r)}}
    /\ UNCHANGED <<row, file, es, pipeline, removed>>

\* The API process ends between two steps: nothing is rolled back.
Abort(r) ==
    /\ del[r].pc \in Active
    /\ Fault("abort") /\ Advance(r, "aborted")
    /\ UNCHANGED <<row, file, stores, pipeline, removed>>

DeletionStep(r) ==
    \/ \E d \in Documents : Fetch(r, d)
    \/ CheckElasticsearch(r) \/ CheckQdrantAndDisk(r)
    \/ DeleteElasticsearch(r) \/ DeleteQdrant(r) \/ Unlink(r) \/ Finalize(r)
    \/ RestoreElasticsearch(r) \/ RestoreQdrant(r) \/ Abort(r)

DeletionNext ==
    \/ Next /\ UNCHANGED <<del, removed, faults>>
    \/ \E r \in Deleters : DeletionStep(r)

DeletionSpec == DeletionInit /\ [][DeletionNext]_delVars

-----------------------------------------------------------------------------
(* Safety                                                                  *)

\* The row goes last: when a deletion has removed it, the file is off the
\* disk and stays off, whatever fails, is aborted, or deletes the same
\* document at the same time.
GoneIsUnlinked == removed \cap file = {}

Undisturbed(d) == \A r \in Deleters : Doomed(r) = d => del[r].pc \notin Active

\* Once no deletion of it is under way, a document that is still there is as
\* searchable as its ids say: a deletion that failed has put back what it
\* took, also when runs of the pipeline or a second deletion overlapped.  That
\* is so while at most one thing fails, and not the flush or the request
\* itself, which skip the rollback.
IdsBackedWhenQuiet ==
    \A d \in Documents : Undisturbed(d) => /\ row[d].esId => d \in es
                                           /\ row[d].qdId => d \in qd

-----------------------------------------------------------------------------
(* What docstrings and tests say                                           *)

\* tests/test_atomic_deletion.py:97: the deletion of an indexed document on
\* which nothing fails succeeds.
FailsOnlyOnFault == \A r \in Deleters : Busy(r, "failed") => faults > 0

\* atomic_deletion_service.py:11: if any step fails, the entire operation is
\* rolled back; in particular the file is there again.
FailureRollsBack ==
    \A r \in Deleters :
        Busy(r, "failed") /\ del[r].onDisk /\ Exists(Doomed(r))
            => Doomed(r) \in file

\* atomic_deletion_service.py:4-9: deletion is atomic across the database,
\* both engines and the disk: what is gone is gone everywhere.
GoneIsGoneEverywhere == removed \cap (file \cup es \cup qd) = {}
=============================================================================
