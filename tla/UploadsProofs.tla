---------------------------- MODULE UploadsProofs ----------------------------
(***************************************************************************)
(* Theorems about Uploads, for any requests on any routes, with any files, *)
(* and any number of faults and deletions.                                 *)
(***************************************************************************)
EXTENDS Uploads, TLAPS

USE UploadAssumption

-----------------------------------------------------------------------------
(* The inductive invariant                                                 *)

\* A file that is stored is the one its request is at.
StoringIsCurrent == \A d \in storing : d[2] = current[d[1]]

\* DuplicatesMet must hold as soon as the second file is stored, when the check
\* was made: its commit looks at nothing.
StoredMet ==
    \A d, e \in rows \cup storing : d # e /\ Path(d) = Path(e) => Met(d, e)

\* d lost its file for a reason RowsKeepTheirFiles names.
Excused(d) == d \in crossed \/ \E e \in Ids : Path(e) = Path(d) /\ Met(d, e)

\* The same of RowsKeepTheirFiles: a deletion may take the file of an upload
\* that has not been committed.
StoredKeepTheirFiles ==
    \A d \in (rows \ unlinked) \cup storing : Path(d) \in disk \/ Excused(d)

\* Who still has to unlink a file threatens only those who are excused.
ThreatsExcused ==
    \A d \in rows \cup storing, e \in Ids :
        fetched[e] > 0 /\ e # d /\ Path(e) = Path(d) => Excused(d)

UploadInv ==
    /\ UploadTypeOK /\ StoringIsCurrent /\ StoredMet
    /\ StoredKeepTheirFiles /\ ThreatsExcused

-----------------------------------------------------------------------------
(* Names of files                                                          *)

\* A name is a request and a place in it.
LEMMA IdParts ==
    ASSUME NEW d \in Ids
    PROVE  /\ d[1] \in Requests /\ d[2] \in 1..Len(Files[d[1]])
           /\ d = <<d[1], d[2]>>
  BY DEF Ids

\* What names the same file is found by the query for duplicates.
LEMMA SamePathMatches ==
    ASSUME NEW d, NEW e, Path(d) = Path(e)
    PROVE  Matches(d, e) /\ Content(d) = Content(e)
  BY DEF Path, Matches

\* A file its request is at has no row and was not reported.
LEMMA AtIsNew ==
    ASSUME UploadTypeOK, StoringIsCurrent, NEW d \in Ids, d[2] = current[d[1]]
    PROVE  /\ outcome[d] = "none" /\ d \notin rows
           /\ \A e \in storing : e[1] = d[1] => e = d
<1>1. outcome[d] = "none"
  BY IdParts DEF UploadTypeOK
<1>2. d \notin rows
  BY <1>1 DEF UploadTypeOK
<1>3. ASSUME NEW e \in storing, e[1] = d[1]
      PROVE  e = d
  <2>1. e \in Ids /\ e[2] = current[e[1]]
    BY DEF UploadTypeOK, StoringIsCurrent
  <2>2. e = <<e[1], e[2]>> /\ d = <<d[1], d[2]>>
    BY <2>1, IdParts
  <2>3. e[2] = d[2]
    BY <1>3, <2>1
  <2> QED
    BY <1>3, <2>2, <2>3
<1> QED
  BY <1>1, <1>2, <1>3

-----------------------------------------------------------------------------
(* What the steps of an upload do                                          *)

\* The report of the file a request is at keeps the types of the two variables
\* it sets.
LEMMA ReportKeepsTypes ==
    ASSUME UploadTypeOK, StoringIsCurrent, NEW d \in Ids, d[2] = current[d[1]],
           NEW what \in Outcomes \ {"none"}, Report(d, what)
    PROVE  /\ current' \in [Requests -> Nat]
           /\ \A r \in Requests : current'[r] \in 1..Len(Files[r]) + 1
           /\ outcome' \in [Ids -> Outcomes] /\ outcome'[d] = what
           /\ \A e \in Ids \ {d} : outcome'[e] = outcome[e]
           /\ \A e \in Ids : outcome'[e] # "none" <=> e[2] < current'[e[1]]
           /\ \A e \in storing \ {d} : e[2] = current'[e[1]]
<1>1. /\ d[1] \in Requests /\ d[2] \in 1..Len(Files[d[1]])
      /\ Len(Files[d[1]]) \in Nat
  BY IdParts
<1>2. /\ current \in [Requests -> Nat] /\ outcome \in [Ids -> Outcomes]
      /\ \A r \in Requests : current[r] \in 1..Len(Files[r]) + 1
  BY DEF UploadTypeOK
<1>3. /\ current'[d[1]] = current[d[1]] + 1
      /\ \A r \in Requests \ {d[1]} : current'[r] = current[r]
      /\ current' \in [Requests -> Nat]
  BY <1>1, <1>2 DEF Report
<1>4. /\ outcome' \in [Ids -> Outcomes] /\ outcome'[d] = what
      /\ \A e \in Ids \ {d} : outcome'[e] = outcome[e]
  BY <1>2 DEF Report
<1>5. ASSUME NEW r \in Requests PROVE current'[r] \in 1..Len(Files[r]) + 1
  <2>1. CASE r = d[1]
    BY <1>1, <1>3, <2>1
  <2>2. CASE r # d[1]
    BY <1>2, <1>3, <2>2
  <2> QED
    BY <2>1, <2>2
<1>6. ASSUME NEW e \in Ids
      PROVE  outcome'[e] # "none" <=> e[2] < current'[e[1]]
  <2>1. outcome[e] # "none" <=> e[2] < current[e[1]]
    BY DEF UploadTypeOK
  <2>2. CASE e = d
    BY <2>2, <1>1, <1>3, <1>4
  <2>3. CASE e # d /\ e[1] = d[1]
    <3>1. e[2] # d[2] /\ e[2] \in Nat
      BY <2>3, IdParts
    <3>2. e[2] < current[d[1]] <=> e[2] < current[d[1]] + 1
      BY <3>1, <1>1, <1>2
    <3> QED
      BY <3>2, <2>1, <2>3, <1>3, <1>4
  <2>4. CASE e[1] # d[1]
    BY <2>4, <2>1, <1>3, <1>4, IdParts
  <2> QED
    BY <2>2, <2>3, <2>4
<1>7. ASSUME NEW e \in storing \ {d}
      PROVE  e[2] = current'[e[1]]
  <2>1. e \in Ids /\ e[2] = current[e[1]]
    BY DEF UploadTypeOK, StoringIsCurrent
  <2>2. e[1] # d[1]
    BY <2>1, AtIsNew
  <2> QED
    BY <2>1, <2>2, <1>3, IdParts
<1> QED
  BY <1>3, <1>4, <1>5, <1>6, <1>7

\* Every failure, of a file that is at its check or being stored: the file may
\* stay on disk, and the row of one being stored in the table.
LEMMA FailKeepsInv ==
    ASSUME UploadInv, NEW d \in Ids, d[2] = current[d[1]],
           NEW statement \in BOOLEAN, Fail(d, statement),
           faulty' \in {faulty, faulty \cup {d}}, disk' \in {disk, disk \cup {Path(d)}},
           \/ UNCHANGED rows
           \/ rows' = rows \cup {d} /\ d \in storing /\ d \in faulty',
           UNCHANGED <<fetched, unlinked, deletions, met, crossed>>
    PROVE  UploadInv'
<1> USE DEF UploadInv
<1>1. d \notin rows
  BY AtIsNew
<1>2. /\ "failed" \in Outcomes \ {"none"} /\ Report(d, "failed")
      /\ storing' = storing \ {d}
  BY DEF Fail, Outcomes
<1>3. UploadTypeOK'
  <2>1. spoiled' \subseteq Requests
    BY IdParts DEF Fail, UploadTypeOK
  <2>2. disk' \subseteq {Path(e) : e \in Ids}
    BY DEF UploadTypeOK
  <2>3. ASSUME NEW e \in rows'
        PROVE  outcome'[e] = "stored" \/ (outcome'[e] = "failed" /\ e \in faulty')
    <3>1. CASE e = d
      BY <3>1, <1>1, <1>2, <2>3, ReportKeepsTypes
    <3>2. CASE e # d
      <4>1. e \in rows /\ e \in Ids
        BY <2>3, <3>2 DEF UploadTypeOK
      <4> QED
        BY <4>1, <3>2, <1>2, ReportKeepsTypes DEF UploadTypeOK
    <3> QED
      BY <3>1, <3>2
  <2>4. ASSUME NEW e \in Ids, fetched'[e] > 0 PROVE outcome'[e] # "none"
    BY <2>4, <1>2, ReportKeepsTypes DEF UploadTypeOK
  <2>5. /\ rows' \subseteq Ids /\ storing' \subseteq Ids /\ faulty' \subseteq Ids
        /\ fetched' \in [Ids -> Nat] /\ unlinked' \subseteq rows' /\ deletions' \in Nat
        /\ rows' \cap storing' = {} /\ met' \subseteq Ids \X Ids /\ crossed' \subseteq Ids
    BY <1>2 DEF UploadTypeOK
  <2> QED
    BY <1>2, <2>1, <2>2, <2>3, <2>4, <2>5, ReportKeepsTypes DEF UploadTypeOK
<1>4. StoringIsCurrent'
  BY <1>2, ReportKeepsTypes DEF StoringIsCurrent
<1>5. /\ rows' \cup storing' \subseteq rows \cup storing
      /\ (rows' \ unlinked') \cup storing' \subseteq (rows \ unlinked) \cup storing
  BY <1>2
<1>6. \A e \in Ids : Excused(e) => Excused(e)'
  BY DEF Excused, Met
<1>7. StoredMet'
  BY <1>5 DEF StoredMet, Met
<1>8. StoredKeepTheirFiles' /\ ThreatsExcused'
  BY <1>5, <1>6 DEF StoredKeepTheirFiles, ThreatsExcused, UploadTypeOK
<1> QED
  BY <1>3, <1>4, <1>7, <1>8

\* The file is reported a duplicate and nothing else changes.
LEMMA FindDuplicateKeepsInv ==
    ASSUME UploadInv, NEW d \in Ids, FindDuplicate(d)
    PROVE  UploadInv'
<1> USE DEF UploadInv
<1>1. /\ d[2] = current[d[1]] /\ d \notin storing
      /\ "duplicate" \in Outcomes \ {"none"} /\ Report(d, "duplicate")
      /\ UNCHANGED <<rows, disk, storing, spoiled, fetched, unlinked, deletions,
                     faulty, met, crossed>>
  BY DEF FindDuplicate, At, Outcomes, deletionVars, historyVars
<1>2. d \notin rows
  BY <1>1, AtIsNew
<1>3. UploadTypeOK'
  <2>1. \A e \in rows : outcome'[e] = outcome[e]
    BY <1>1, <1>2, ReportKeepsTypes DEF UploadTypeOK
  <2>2. \A e \in Ids : fetched[e] > 0 => outcome'[e] # "none"
    BY <1>1, ReportKeepsTypes, ZenonT(40) DEF UploadTypeOK
  <2> QED
    BY <1>1, <2>1, <2>2, ReportKeepsTypes DEF UploadTypeOK
<1>4. StoringIsCurrent'
  BY <1>1, ReportKeepsTypes DEF StoringIsCurrent
<1>5. StoredMet' /\ StoredKeepTheirFiles' /\ ThreatsExcused'
  BY <1>1 DEF StoredMet, StoredKeepTheirFiles, ThreatsExcused, Excused, Met
<1> QED
  BY <1>3, <1>4, <1>5

\* No row of the content is there, so that any other of the same file is being
\* stored, and is met; a deletion that still has to unlink the file is crossed.
LEMMA StoreKeepsInv ==
    ASSUME UploadInv, NEW d \in Ids, Store(d)
    PROVE  UploadInv'
<1> USE DEF UploadInv
<1>1. /\ d[2] = current[d[1]] /\ d \notin storing /\ Existing(d) = {}
      /\ disk' = disk \cup {Path(d)} /\ storing' = storing \cup {d}
      /\ met' = met \cup {<<d, e>> : e \in {e \in storing : Content(e) = Content(d)}}
      /\ crossed' = IF \E e \in Ids : fetched[e] > 0 /\ Path(e) = Path(d)
                    THEN crossed \cup {d} ELSE crossed
      /\ UNCHANGED <<rows, current, spoiled, outcome, fetched, unlinked, deletions,
                     faulty>>
  BY DEF Store, At, deletionVars
<1>2. d \notin rows
  BY <1>1, AtIsNew
<1>3. UploadTypeOK'
  BY <1>1, <1>2, SMTT(30) DEF UploadTypeOK
<1>4. StoringIsCurrent'
  BY <1>1 DEF StoringIsCurrent
<1>5. ASSUME NEW e \in rows \cup storing, Path(e) = Path(d)
      PROVE  <<d, e>> \in met'
  <2>1. Matches(d, e) /\ Content(d) = Content(e)
    BY <1>5, SamePathMatches
  <2>2. e \in storing
    BY <1>1, <2>1 DEF Existing
  <2> QED
    BY <1>1, <2>1, <2>2
<1>6. StoredMet'
  <2> SUFFICES ASSUME NEW a \in rows \cup storing \cup {d},
                      NEW b \in rows \cup storing \cup {d},
                      a # b, Path(a) = Path(b)
               PROVE  <<a, b>> \in met' \/ <<b, a>> \in met'
    BY <1>1 DEF StoredMet, Met
  <2>1. CASE a = d
    BY <2>1, <1>5
  <2>2. CASE b = d
    BY <2>2, <1>5
  <2>3. CASE a # d /\ b # d
    BY <2>3, <1>1 DEF StoredMet, Met
  <2> QED
    BY <2>1, <2>2, <2>3
<1>7. \A e \in Ids : Excused(e) => Excused(e)'
  BY <1>1 DEF Excused, Met
<1>8. StoredKeepTheirFiles'
  BY <1>1, <1>7 DEF StoredKeepTheirFiles, UploadTypeOK
<1>9. ThreatsExcused'
  <2>1. ASSUME NEW e \in Ids, fetched[e] > 0, Path(e) = Path(d) PROVE Excused(d)'
    BY <2>1, <1>1 DEF Excused
  <2> QED
    BY <2>1, <1>1, <1>7 DEF ThreatsExcused, UploadTypeOK
<1> QED
  BY <1>3, <1>4, <1>6, <1>8, <1>9

\* The row of a stored file comes; whom it met was settled when it was stored.
LEMMA CommitKeepsInv ==
    ASSUME UploadInv, NEW d \in Ids, Commit(d)
    PROVE  UploadInv'
<1> USE DEF UploadInv
<1>1. /\ d \in storing /\ storing' = storing \ {d} /\ rows' = rows \cup {d}
      /\ "stored" \in Outcomes \ {"none"} /\ Report(d, "stored")
      /\ UNCHANGED <<disk, spoiled, fetched, unlinked, deletions, faulty, met, crossed>>
  BY DEF Commit, Outcomes, deletionVars, historyVars
<1>2. d[2] = current[d[1]]
  BY <1>1 DEF StoringIsCurrent
<1>3. UploadTypeOK'
  BY <1>1, <1>2, ReportKeepsTypes DEF UploadTypeOK
<1>4. StoringIsCurrent'
  BY <1>1, <1>2, ReportKeepsTypes DEF StoringIsCurrent
<1>5. /\ rows' \cup storing' \subseteq rows \cup storing
      /\ (rows' \ unlinked') \cup storing' \subseteq (rows \ unlinked) \cup storing
  BY <1>1 DEF UploadTypeOK
<1>6. StoredMet'
  BY <1>1, <1>5 DEF StoredMet, Met
<1>7. StoredKeepTheirFiles'
  BY <1>1, <1>5 DEF StoredKeepTheirFiles, Excused, Met
<1>8. ThreatsExcused'
  BY <1>1, <1>5 DEF ThreatsExcused, Excused, Met
<1> QED
  BY <1>3, <1>4, <1>6, <1>7, <1>8

-----------------------------------------------------------------------------
(* What the steps of a deletion do                                         *)

\* What is fetched is a row, whose file only those name that met it.
LEMMA FetchKeepsInv ==
    ASSUME UploadInv, NEW d \in Ids, Fetch(d)
    PROVE  UploadInv'
<1> USE DEF UploadInv
<1>1. /\ d \in rows /\ fetched' = [fetched EXCEPT ![d] = @ + 1]
      /\ deletions' = deletions + 1
      /\ UNCHANGED <<rows, disk, current, storing, spoiled, outcome, unlinked,
                     faulty, met, crossed>>
  BY DEF Fetch, historyVars
<1>2. fetched' \in [Ids -> Nat] /\ \A e \in Ids \ {d} : fetched'[e] = fetched[e]
  BY <1>1 DEF UploadTypeOK
<1>3. UploadTypeOK'
  <2>1. outcome[d] # "none"
    BY <1>1 DEF UploadTypeOK
  <2>2. deletions' \in Nat
    BY <1>1 DEF UploadTypeOK
  <2>3. \A e \in Ids : fetched'[e] > 0 => outcome'[e] # "none"
    BY <1>1, <1>2, <2>1 DEF UploadTypeOK
  <2> QED
    BY <1>1, <1>2, <2>2, <2>3 DEF UploadTypeOK
<1>4. StoringIsCurrent' /\ StoredMet' /\ StoredKeepTheirFiles'
  BY <1>1 DEF StoringIsCurrent, StoredMet, StoredKeepTheirFiles, Excused, Met
<1>5. ThreatsExcused'
  <2> SUFFICES ASSUME NEW e \in rows \cup storing, NEW f \in Ids,
                      fetched'[f] > 0, f # e, Path(f) = Path(e)
               PROVE  Excused(e)
    BY <1>1 DEF ThreatsExcused, Excused, Met
  <2>1. CASE f = d
    BY <2>1, <1>1 DEF StoredMet, Excused
  <2>2. CASE f # d
    BY <2>2, <1>2 DEF ThreatsExcused
  <2> QED
    BY <2>1, <2>2
<1> QED
  BY <1>3, <1>4, <1>5

\* The file goes: of the others that name it, those stored are excused.
LEMMA UnlinkKeepsInv ==
    ASSUME UploadInv, NEW d \in Ids, Unlink(d)
    PROVE  UploadInv'
<1> USE DEF UploadInv
<1>1. /\ fetched[d] > 0 /\ fetched' = [fetched EXCEPT ![d] = @ - 1]
      /\ \/ disk' = disk \ {Path(d)} /\ unlinked' = unlinked \cup ({d} \cap rows)
         \/ UNCHANGED <<disk, unlinked>>
      /\ UNCHANGED <<rows, current, storing, spoiled, outcome, deletions,
                     faulty, met, crossed>>
  BY DEF Unlink, historyVars
<1>2. /\ fetched \in [Ids -> Nat] /\ fetched' \in [Ids -> Nat]
      /\ \A e \in Ids : fetched'[e] > 0 => fetched[e] > 0
  BY <1>1 DEF UploadTypeOK
<1>3. UploadTypeOK'
  BY <1>1, <1>2 DEF UploadTypeOK
<1>4. StoringIsCurrent' /\ StoredMet'
  BY <1>1 DEF StoringIsCurrent, StoredMet, Met
<1>5. ThreatsExcused'
  BY <1>1, <1>2 DEF ThreatsExcused, Excused, Met
<1>6. ASSUME NEW e \in (rows \ unlinked') \cup storing, Path(e) \notin disk'
      PROVE  Excused(e)
  <2>1. e \in (rows \ unlinked) \cup storing /\ e \in Ids
    BY <1>1 DEF UploadTypeOK
  <2>2. CASE Path(e) \notin disk
    BY <2>1, <2>2 DEF StoredKeepTheirFiles
  <2>3. CASE Path(e) \in disk
    <3>1. Path(e) = Path(d) /\ unlinked' = unlinked \cup ({d} \cap rows)
      BY <1>1, <1>6, <2>3
    <3>2. e # d
      <4>1. d \notin storing
        <5>1. outcome[d] # "none"
          BY <1>1 DEF UploadTypeOK
        <5>2. ~(d[2] = current[d[1]])
          BY <5>1, AtIsNew
        <5> QED
          BY <5>2 DEF StoringIsCurrent
      <4> QED
        BY <4>1, <3>1, <1>6
    <3> QED
      BY <3>1, <3>2, <1>1, <2>1 DEF ThreatsExcused
  <2> QED
    BY <2>2, <2>3
<1>7. StoredKeepTheirFiles'
  BY <1>1, <1>6 DEF StoredKeepTheirFiles, Excused, Met
<1> QED
  BY <1>3, <1>4, <1>5, <1>7

\* A row goes, and with it what is said of it.
LEMMA RemoveKeepsInv ==
    ASSUME UploadInv, NEW d \in Ids, Remove(d)
    PROVE  UploadInv'
<1> USE DEF UploadInv
<1>1. /\ rows' = rows \ {d} /\ unlinked' = unlinked \ {d}
      /\ deletions' = deletions \/ deletions' = deletions + 1
      /\ UNCHANGED <<disk, current, storing, spoiled, outcome, fetched,
                     faulty, met, crossed>>
  BY DEF Remove, historyVars
<1>2. UploadTypeOK'
  BY <1>1 DEF UploadTypeOK
<1>3. (rows' \ unlinked') \cup storing' \subseteq (rows \ unlinked) \cup storing
  BY <1>1
<1>4. StoringIsCurrent' /\ StoredMet' /\ StoredKeepTheirFiles' /\ ThreatsExcused'
  BY <1>1, <1>3 DEF StoringIsCurrent, StoredMet, StoredKeepTheirFiles,
                    ThreatsExcused, Excused, Met
<1> QED
  BY <1>2, <1>4

-----------------------------------------------------------------------------
(* Invariance                                                              *)

LEMMA UploadsInit == UploadInit => UploadInv
<1> SUFFICES ASSUME UploadInit PROVE UploadInv
  OBVIOUS
<1>1. UploadTypeOK
  <2>1. \A d \in Ids : outcome[d] = "none" /\ ~(d[2] < current[d[1]])
    BY IdParts DEF UploadInit
  <2> QED
    BY <2>1, SMTT(30) DEF UploadInit, UploadTypeOK, Outcomes
<1>2. StoringIsCurrent /\ StoredMet /\ StoredKeepTheirFiles /\ ThreatsExcused
  BY DEF UploadInit, StoringIsCurrent, StoredMet, StoredKeepTheirFiles, ThreatsExcused
<1> QED
  BY <1>1, <1>2 DEF UploadInv

LEMMA UploadsNext == UploadInv /\ [UploadNext]_uploadVars => UploadInv'
<1> SUFFICES ASSUME UploadInv, [UploadNext]_uploadVars PROVE UploadInv'
  OBVIOUS
<1>1. ASSUME NEW d \in Ids, FileStep(d)
      PROVE  UploadInv'
  <2> USE DEF deletionVars, historyVars
  <2>1. CASE Reject(d)
    BY <2>1, FailKeepsInv DEF Reject, At, Fault
  <2>2. CASE FindDuplicate(d)
    BY <2>2, FindDuplicateKeepsInv
  <2>3. CASE FindSeveral(d)
    BY <2>3, FailKeepsInv DEF FindSeveral, At
  <2>4. CASE Store(d)
    BY <2>4, StoreKeepsInv
  <2>5. CASE FailSpoiled(d)
    BY <2>5, FailKeepsInv DEF FailSpoiled, At
  <2>6. CASE Commit(d)
    BY <2>6, CommitKeepsInv
  <2>7. CASE CommitFails(d)
    <3>1. d[2] = current[d[1]] /\ d \in storing
      BY <2>7 DEF CommitFails, UploadInv, StoringIsCurrent
    <3>2. faulty' = faulty \cup {d} /\ UNCHANGED disk /\ Fail(d, TRUE)
      BY <2>7 DEF CommitFails, Fault
    <3>3. UNCHANGED rows \/ rows' = rows \cup {d}
      BY <2>7 DEF CommitFails
    <3> QED
      BY <2>7, <3>1, <3>2, <3>3, FailKeepsInv DEF CommitFails
  <2> QED
    BY <1>1, <2>1, <2>2, <2>3, <2>4, <2>5, <2>6, <2>7 DEF FileStep
<1>2. ASSUME UNCHANGED uploadVars
      PROVE  UploadInv'
  BY <1>2 DEF uploadVars, deletionVars, historyVars, UploadInv, UploadTypeOK,
              StoringIsCurrent, StoredMet, StoredKeepTheirFiles, ThreatsExcused,
              Excused, Met
<1>3. ASSUME NEW d \in Ids, DeletionStep(d)
      PROVE  UploadInv'
  BY <1>3, FetchKeepsInv, UnlinkKeepsInv, RemoveKeepsInv DEF DeletionStep
<1> QED
  BY <1>1, <1>2, <1>3 DEF UploadNext, Quiet

LEMMA UploadsInvariance == UploadSpec => []UploadInv
  BY UploadsInit, UploadsNext, PTL DEF UploadSpec

-----------------------------------------------------------------------------
(* Theorems                                                                *)

\* Sets and counters of the uploads keep their types; a row was reported stored,
\* or failed after a fault of its own, and a file is reported exactly when its
\* request has passed it.
THEOREM UploadTypeCorrect == UploadSpec => []UploadTypeOK
<1>1. UploadInv => UploadTypeOK
  BY DEF UploadInv
<1> QED
  BY <1>1, UploadsInvariance, PTL

\* Duplicates of a file in one scope come only of two uploads of which one was
\* checked while the other was being stored.
THEOREM DuplicatesOnlyMet == UploadSpec => []DuplicatesMet
<1>1. UploadInv => DuplicatesMet
  BY DEF UploadInv, StoredMet, DuplicatesMet
<1> QED
  BY <1>1, UploadsInvariance, PTL

\* A row keeps its file until its own deletion unlinks it, unless an upload of
\* the content met its own or a deletion of an earlier row of the file was under
\* way when its own was stored.
THEOREM UnmetRowsKeepFiles == UploadSpec => []RowsKeepTheirFiles
<1>1. UploadInv => RowsKeepTheirFiles
  BY DEF UploadInv, StoredKeepTheirFiles, Excused, RowsKeepTheirFiles
<1> QED
  BY <1>1, UploadsInvariance, PTL
=============================================================================
