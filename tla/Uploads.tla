------------------------------ MODULE Uploads ------------------------------
(***************************************************************************)
(* Duplicate detection at upload and the files on disk: POST               *)
(* /files/upload, /files/upload/bulk and /files/upload/zip, each of which  *)
(* looks for the hash, stores the bytes and commits the row in separate    *)
(* steps, and the deletions, which fetch a row, unlink its file and commit  *)
(* the removal in separate steps.                                          *)
(*                                                                         *)
(* There is no object storage here: an upload that cannot write its file   *)
(* fails.                                                                  *)
(***************************************************************************)
EXTENDS Naturals, Sequences, FiniteSets

CONSTANTS
    Requests,
    Route,    \* by request: "single", "files" or "folder"
    Tenant,   \* by request: tenant of the user
    Files,    \* by request: contents uploaded, in order
    MaxFaults,    \* bound: files that may be rejected or fail to be written
    MaxDeletions  \* bound: deletions and bulk removals

Routes == {"single", "files", "folder"}

ASSUME UploadAssumption ==
    /\ Route \in [Requests -> Routes] /\ DOMAIN Tenant = Requests
    /\ DOMAIN Files = Requests
    /\ MaxFaults \in Nat /\ MaxDeletions \in Nat
    /\ \A r \in Requests : Len(Files[r]) \in Nat
    /\ \A r \in Requests : Route[r] = "single" => Len(Files[r]) = 1

\* A row is named by the request and the place of its file in it.
Ids == UNION {{r} \X (1..Len(Files[r])) : r \in Requests}

Request(d) == d[1]
Content(d) == Files[d[1]][d[2]]
Single(d) == Route[d[1]] = "single"

\* The handler of single uploads sets no tenant.
Owner(d) == IF Single(d) THEN <<>> ELSE <<Tenant[d[1]]>>

\* Both names are made of the hash and the file's own name or extension, in the
\* directory of the tenant, if any; equal contents here have equal names.
Path(d) == <<Owner(d), Content(d)>>

VARIABLES
    rows,      \* committed rows
    disk,      \* paths of the files in storage
    current,   \* by request: the file it is at
    storing,   \* files stored whose rows are not committed
    spoiled,   \* requests whose database session has failed
    outcome,   \* what the request reports of each file
    fetched,   \* by row, also a removed one: deletions under way that fetched
               \* it and have not come to its file
    unlinked,  \* rows whose own deletion has unlinked the file
    deletions, \* deletions so far
    faulty,    \* history: files that met a fault of their own
    met,       \* history: pairs of one content of which one was checked while
               \* the other was stored
    crossed    \* history: files stored while a deletion of an earlier row of
               \* the same file was under way

deletionVars == <<fetched, unlinked, deletions>>
historyVars == <<faulty, met, crossed>>

uploadVars == <<rows, disk, current, storing, spoiled, outcome, deletionVars,
                historyVars>>

Outcomes == {"none", "stored", "duplicate", "failed"}

UploadTypeOK ==
    /\ rows \subseteq Ids /\ storing \subseteq Ids /\ faulty \subseteq Ids
    /\ fetched \in [Ids -> Nat] /\ unlinked \subseteq rows /\ deletions \in Nat
    /\ rows \cap storing = {}
    /\ disk \subseteq {Path(d) : d \in Ids}
    /\ current \in [Requests -> Nat]
    /\ \A r \in Requests : current[r] \in 1..Len(Files[r]) + 1
    /\ spoiled \subseteq Requests
    /\ outcome \in [Ids -> Outcomes]
    /\ met \subseteq Ids \X Ids /\ crossed \subseteq Ids
    \* A row was reported stored, or failed after a fault, never a duplicate;
    \* nothing is reported before it is decided.
    /\ \A d \in rows : outcome[d] = "stored" \/ (outcome[d] = "failed" /\ d \in faulty)
    /\ \A d \in Ids : fetched[d] > 0 => outcome[d] # "none"
    /\ \A d \in Ids : outcome[d] # "none" <=> d[2] < current[d[1]]

UploadInit ==
    /\ rows = {} /\ disk = {} /\ storing = {} /\ spoiled = {}
    /\ fetched = [d \in Ids |-> 0] /\ unlinked = {} /\ deletions = 0
    /\ current = [r \in Requests |-> 1]
    /\ outcome = [d \in Ids |-> "none"]
    /\ faulty = {} /\ met = {} /\ crossed = {}

-----------------------------------------------------------------------------
\* Mutant: the next file is begun before the row of the last is committed.
AtAlready(d) == d[2] = current[d[1]]

At(d) == d[2] = current[d[1]] /\ d \notin storing

Report(d, what) ==
    /\ outcome' = [outcome EXCEPT ![d] = what]
    /\ current' = [current EXCEPT ![d[1]] = @ + 1]

\* Mutant: single uploads, which set no tenant, look in the user's as well.
MatchesTenant(d, e) == Content(d) = Content(e) /\ Owner(e) = <<Tenant[d[1]]>>

\* Which rows the query for duplicates of d finds: single uploads look among
\* all, the others in their tenant.
Matches(d, e) == Content(d) = Content(e) /\ (Single(d) \/ Owner(d) = Owner(e))

Existing(d) == {e \in rows : Matches(d, e)}

\* An exception in one file.  The handler of several files rolls back, which
\* expires the user it goes on to read; the one of folders does not roll back,
\* and its session accepts nothing more once a statement has failed.
Fail(d, statement) ==
    /\ Report(d, "failed")
    /\ spoiled' = IF Route[d[1]] = "files" \/ (Route[d[1]] = "folder" /\ statement)
                  THEN spoiled \cup {d[1]} ELSE spoiled
    /\ storing' = storing \ {d}

Fault(d) == Cardinality(faulty) < MaxFaults /\ faulty' = faulty \cup {d}

\* The file is too large, or cannot be read.
Reject(d) ==
    /\ At(d) /\ Fault(d) /\ Fail(d, FALSE)
    /\ UNCHANGED <<rows, disk, deletionVars, met, crossed>>

FindDuplicate(d) ==
    /\ At(d) /\ ~(Route[d[1]] = "folder" /\ d[1] \in spoiled)
    /\ Cardinality(Existing(d)) = 1 /\ Report(d, "duplicate")
    /\ UNCHANGED <<rows, disk, storing, spoiled, deletionVars, historyVars>>

\* More than one row: the query for one raises.
FindSeveral(d) ==
    /\ At(d) /\ Cardinality(Existing(d)) > 1
    /\ Fail(d, FALSE) /\ faulty' = faulty \cup {d}
    /\ UNCHANGED <<rows, disk, deletionVars, met, crossed>>

\* Nothing found: the bytes are stored.
Store(d) ==
    /\ At(d) /\ d[1] \notin spoiled /\ Existing(d) = {}
    /\ disk' = disk \cup {Path(d)}
    /\ storing' = storing \cup {d}
    /\ met' = met \cup {<<d, e>> : e \in {e \in storing : Content(e) = Content(d)}}
    /\ crossed' = IF \E e \in Ids : fetched[e] > 0 /\ Path(e) = Path(d)
                  THEN crossed \cup {d} ELSE crossed
    /\ UNCHANGED <<rows, current, spoiled, outcome, deletionVars, faulty>>

\* The session is spoiled: a folder's query fails; several files are stored
\* before the expired user is read.
FailSpoiled(d) ==
    /\ At(d) /\ d[1] \in spoiled
    /\ \/ Route[d[1]] = "folder" /\ UNCHANGED disk
       \/ Route[d[1]] = "files" /\ Existing(d) = {} /\ disk' = disk \cup {Path(d)}
    /\ Fail(d, TRUE)
    /\ UNCHANGED <<rows, deletionVars, historyVars>>

Commit(d) ==
    /\ d \in storing /\ storing' = storing \ {d}
    /\ rows' = rows \cup {d} /\ Report(d, "stored")
    /\ UNCHANGED <<disk, spoiled, deletionVars, historyVars>>

\* The write or the commit fails, the file may stay.  The commit may have taken
\* effect all the same, or what follows it fails, the refresh of the row or
\* the removal of the temporary file: then the row is there.
CommitFails(d) ==
    /\ d \in storing /\ Fault(d) /\ Fail(d, TRUE)
    /\ rows' \in {rows, rows \cup {d}}
    /\ UNCHANGED <<disk, deletionVars, met, crossed>>

-----------------------------------------------------------------------------
(* Deletions                                                               *)

Fetch(d) ==
    /\ d \in rows /\ deletions < MaxDeletions
    /\ fetched' = [fetched EXCEPT ![d] = @ + 1] /\ deletions' = deletions + 1
    /\ UNCHANGED <<rows, disk, current, storing, spoiled, outcome, unlinked,
                   historyVars>>

\* Mutant: the file of a row that is gone is unlinked by somebody else.
UnlinkAfterRow(d) ==
    /\ outcome[d] = "stored" /\ d \notin rows /\ disk' = disk \ {Path(d)}
    /\ UNCHANGED <<rows, current, storing, spoiled, outcome, deletionVars,
                   historyVars>>

\* By the path that was fetched, whether or not the row is still there.  A
\* deletion that fails at the search engines does not come to the file.
Unlink(d) ==
    /\ fetched[d] > 0 /\ fetched' = [fetched EXCEPT ![d] = @ - 1]
    /\ \/ disk' = disk \ {Path(d)} /\ unlinked' = unlinked \cup ({d} \cap rows)
       \/ UNCHANGED <<disk, unlinked>>
    /\ UNCHANGED <<rows, current, storing, spoiled, outcome, deletions,
                   historyVars>>

\* The last commit of a deletion; or the bulk action "delete", which removes
\* the row alone.
Remove(d) ==
    /\ d \in rows /\ rows' = rows \ {d} /\ unlinked' = unlinked \ {d}
    /\ \/ d \in unlinked /\ UNCHANGED deletions
       \/ deletions < MaxDeletions /\ deletions' = deletions + 1
    /\ UNCHANGED <<disk, current, storing, spoiled, outcome, fetched, historyVars>>

-----------------------------------------------------------------------------
FileStep(d) ==
    \/ Reject(d) \/ FindDuplicate(d) \/ FindSeveral(d) \/ Store(d)
    \/ FailSpoiled(d) \/ Commit(d) \/ CommitFails(d)

DeletionStep(d) == Fetch(d) \/ Unlink(d) \/ Remove(d)

\* All requests have been answered.
Quiet == /\ \A r \in Requests : current[r] > Len(Files[r])
         /\ UNCHANGED uploadVars

UploadNext == Quiet \/ \E d \in Ids : FileStep(d) \/ DeletionStep(d)

UploadSpec == UploadInit /\ [][UploadNext]_uploadVars

-----------------------------------------------------------------------------
(* Safety                                                                  *)

Met(d, e) == <<d, e>> \in met \/ <<e, d>> \in met

\* The same content is twice in one scope only when one upload looked for it
\* while another had stored but not committed it: never by one after the other,
\* whatever failed or was deleted before.
DuplicatesMet ==
    \A d, e \in rows : d # e /\ Path(d) = Path(e) => Met(d, e)

\* Names are made of the hash, so rows may share a file, and a deletion unlinks
\* it by name.  Apart from its own deletion, a row can lose its file in two ways
\* only: an upload of the same content met its own, or a deletion of an earlier
\* row of the file was under way when its own was stored (as when two deletions
\* of a document overlap and the file is uploaded again between them).
RowsKeepTheirFiles ==
    \A d \in rows \ unlinked :
        \/ Path(d) \in disk
        \/ d \in crossed
        \/ \E e \in Ids : Path(e) = Path(d) /\ Met(d, e)

\* bulk_upload_service.py:467: one file's failure lets the others continue.
FailureStaysWithItsFile ==
    \A d \in Ids : outcome[d] = "failed" => d \in faulty
=============================================================================
