--------------------------- MODULE DocumentStore ---------------------------
(***************************************************************************)
(* apps/documents and the modules that keep documents in it (staff,        *)
(* students, admissions, reporting): a file in the storage directory, a    *)
(* Document row in the database, and the record that points to the row.    *)
(* The three are written by separate steps, and two scheduled tasks remove *)
(* expired documents and files without a row.                              *)
(***************************************************************************)
EXTENDS Integers, FiniteSets

CONSTANTS Documents, Workers, None

VARIABLES
    files,         \* the file of each storage key: "fresh" until it is an hour old
    rows,          \* Document rows: "kept" without an expiry, "dated" before it, "expired" after
    records,       \* the record of a domain that points to the row: "set", or "null" after SET_NULL
    retention,     \* DocumentSetup.default_retention_days is set
    job,           \* a ReportExportJob: its status and its document
    purged,        \* committed "document.purged" activities of each document
    calls,         \* by worker, the request or task it is in
    interrupted    \* history: the removals a crash cut off after they deleted the file

vars == <<files, rows, records, retention, job, purged, calls, interrupted>>

Ops == {"idle", "uploading", "attaching", "finishing", "failing", "deleting", "detaching", "purging", "listing", "sweeping"}
Call == [op : Ops, doc : Documents \cup {None}, export : BOOLEAN, docs : SUBSET Documents, left : SUBSET Documents]
Idle == [op |-> "idle", doc |-> None, export |-> FALSE, docs |-> {}, left |-> {}]

Init ==
    /\ files = [d \in Documents |-> "unborn"]
    /\ rows = [d \in Documents |-> "none"]
    /\ records = [d \in Documents |-> "none"]
    /\ retention \in BOOLEAN
    /\ job = [status |-> "absent", document |-> None]
    /\ purged = [d \in Documents |-> 0]
    /\ calls = [w \in Workers |-> Idle]
    /\ interrupted = {}

OnDisk(d) == files[d] \in {"fresh", "old"}
Present(d) == rows[d] # "none"
Becomes(w, call) == calls' = [calls EXCEPT ![w] = call]

\* The row's deletion sets every foreign key to it to NULL in its transaction.
WithoutRows(ds) ==
    /\ rows' = [d \in Documents |-> IF d \in ds THEN "none" ELSE rows[d]]
    /\ records' = [d \in Documents |-> IF d \in ds /\ records[d] = "set" THEN "null" ELSE records[d]]
    /\ job' = [job EXCEPT !.document = IF @ \in ds THEN None ELSE @]

----------------------------------------------------------------------------
(* Uploads *)

ConfigureDocumentSetup(dated) ==
    /\ retention' = dated
    /\ UNCHANGED <<files, rows, records, job, purged, calls, interrupted>>

RequestReportExport ==
    /\ job.status = "absent"
    /\ job' = [job EXCEPT !.status = "PENDING"]
    /\ UNCHANGED <<files, rows, records, retention, purged, calls, interrupted>>

\* A lease outlives the task that holds it (DurableWork).
ReapExport ==
    /\ job.status = "PROCESSING"
    /\ \A w \in Workers : ~calls[w].export
    /\ job' = [job EXCEPT !.status = "PENDING"]
    /\ UNCHANGED <<files, rows, records, retention, purged, calls, interrupted>>

\* upload_document streams the file under a new key.
SaveFile(w, d) ==
    /\ calls[w] = Idle
    /\ files[d] = "unborn"
    /\ files' = [files EXCEPT ![d] = "fresh"]
    /\ Becomes(w, [Idle EXCEPT !.op = "uploading", !.doc = d])
    /\ UNCHANGED <<rows, records, retention, job, purged, interrupted>>

\* generate_pending_report_exports claims the job and saves its file.
SaveExport(w, d) ==
    /\ calls[w] = Idle
    /\ job.status = "PENDING"
    /\ files[d] = "unborn"
    /\ job' = [job EXCEPT !.status = "PROCESSING"]
    /\ files' = [files EXCEPT ![d] = "fresh"]
    /\ Becomes(w, [Idle EXCEPT !.op = "uploading", !.doc = d, !.export = TRUE])
    /\ UNCHANGED <<rows, records, retention, purged, interrupted>>

\* An export's retention is fixed; the others take the tenant's at this moment.
CreateDocument(w) ==
    LET call == calls[w] IN
    /\ call.op = "uploading"
    /\ rows' = [rows EXCEPT ![call.doc] = IF call.export \/ retention THEN "dated" ELSE "kept"]
    /\ Becomes(w, [call EXCEPT !.op = "attaching"])
    /\ UNCHANGED <<files, records, retention, job, purged, interrupted>>

\* The row could not be written: the file is deleted again.
CompensateUpload(w) ==
    /\ calls[w].op = "uploading"
    /\ files' = [files EXCEPT ![calls[w].doc] = "gone"]
    /\ Becomes(w, IF calls[w].export THEN [calls[w] EXCEPT !.op = "failing"] ELSE Idle)
    /\ UNCHANGED <<rows, records, retention, job, purged, interrupted>>

\* add_employee_document, add_student_document, add_application_document: the row of the domain.
AttachDocument(w) ==
    LET d == calls[w].doc IN
    /\ calls[w].op = "attaching" /\ ~calls[w].export
    /\ Present(d)
    /\ records' = [records EXCEPT ![d] = "set"]
    /\ Becomes(w, Idle)
    /\ UNCHANGED <<files, rows, retention, job, purged, interrupted>>

\* generate_report_export saves the job's document, in place of an earlier attempt's.
AttachExport(w) ==
    LET d == calls[w].doc IN
    /\ calls[w].op = "attaching" /\ calls[w].export
    /\ Present(d)
    /\ job' = [job EXCEPT !.document = d]
    /\ Becomes(w, [calls[w] EXCEPT !.op = "finishing"])
    /\ UNCHANGED <<files, rows, records, retention, purged, interrupted>>

FinishExport(w) ==
    /\ calls[w].op = "finishing"
    /\ job' = [job EXCEPT !.status = "PROCESSED"]
    /\ Becomes(w, Idle)
    /\ UNCHANGED <<files, rows, records, retention, purged, interrupted>>

\* The export raised: before its file had a row, or at saving the job. It is tried
\* again, or dead-lettered.
FailExport(w) ==
    /\ calls[w].op = "failing" \/ (calls[w].op = "attaching" /\ calls[w].export)
    /\ \E status \in {"PENDING", "FAILED"} : job' = [job EXCEPT !.status = status]
    /\ Becomes(w, Idle)
    /\ UNCHANGED <<files, rows, records, retention, purged, interrupted>>

----------------------------------------------------------------------------
(* Removal *)

\* A domain deletes its document: the file, then the row, then its own record.
DeleteFile(w, d) ==
    /\ calls[w] = Idle
    /\ records[d] = "set"
    /\ files' = [files EXCEPT ![d] = "gone"]
    /\ Becomes(w, [Idle EXCEPT !.op = "deleting", !.doc = d])
    /\ UNCHANGED <<rows, records, retention, job, purged, interrupted>>

Claimed == UNION {calls[w].docs : w \in {v \in Workers : calls[v].op = "purging"}}

DeleteDocumentRow(w) ==
    LET d == calls[w].doc IN
    /\ calls[w].op = "deleting"
    /\ d \notin Claimed
    /\ WithoutRows({d})
    /\ Becomes(w, [calls[w] EXCEPT !.op = "detaching"])
    /\ UNCHANGED <<files, retention, purged, interrupted>>

DeleteRecord(w) ==
    /\ calls[w].op = "detaching"
    /\ records' = [records EXCEPT ![calls[w].doc] = "none"]
    /\ Becomes(w, Idle)
    /\ UNCHANGED <<files, rows, retention, job, purged, interrupted>>

Expire(d) ==
    /\ rows[d] = "dated"
    /\ rows' = [rows EXCEPT ![d] = "expired"]
    /\ UNCHANGED <<files, records, retention, job, purged, calls, interrupted>>

MutantClaimable == {d \in Documents : rows[d] = "expired"}
\* SELECT ... FOR UPDATE SKIP LOCKED
Claimable == {d \in Documents : rows[d] = "expired"} \ Claimed

\* purge_expired_documents: a batch is claimed, each file is deleted, and the rows and
\* the activities commit together at the end.
ClaimExpired(w) ==
    /\ calls[w] = Idle
    /\ Claimable # {}
    /\ Becomes(w, [Idle EXCEPT !.op = "purging", !.docs = Claimable, !.left = Claimable])
    /\ UNCHANGED <<files, rows, records, retention, job, purged, interrupted>>

PurgeFile(w, d) ==
    /\ calls[w].op = "purging"
    /\ d \in calls[w].left
    /\ files' = [files EXCEPT ![d] = "gone"]
    /\ Becomes(w, [calls[w] EXCEPT !.left = @ \ {d}])
    /\ UNCHANGED <<rows, records, retention, job, purged, interrupted>>

CommitPurge(w) ==
    LET batch == calls[w].docs IN
    /\ calls[w].op = "purging" /\ calls[w].left = {}
    /\ WithoutRows(batch)
    /\ purged' = [d \in Documents |-> IF d \in batch THEN purged[d] + 1 ELSE purged[d]]
    /\ Becomes(w, Idle)
    /\ UNCHANGED <<files, retention, interrupted>>

\* The hour passes only for files no upload is writing and no sweep is between its two
\* listings of: both are assumed to take less.
AgeFile(d) ==
    /\ files[d] = "fresh"
    /\ \A w \in Workers : /\ calls[w].op = "uploading" => calls[w].doc # d
                          /\ calls[w].op # "listing"
    /\ files' = [files EXCEPT ![d] = "old"]
    /\ UNCHANGED <<rows, records, retention, job, purged, calls, interrupted>>

MutantSweepable(d) == OnDisk(d)
\* find_orphaned_storage_keys leaves files younger than an hour alone.
Sweepable(d) == files[d] = "old"

\* find_orphaned_storage_keys lists the rows, and then the files.
ListRows(w) ==
    /\ calls[w] = Idle
    /\ Becomes(w, [Idle EXCEPT !.op = "listing", !.docs = {d \in Documents : Present(d)}])
    /\ UNCHANGED <<files, rows, records, retention, job, purged, interrupted>>

ListFiles(w) ==
    /\ calls[w].op = "listing"
    /\ Becomes(w, [calls[w] EXCEPT !.op = "sweeping", !.left = {d \in Documents : Sweepable(d)} \ calls[w].docs])
    /\ UNCHANGED <<files, rows, records, retention, job, purged, interrupted>>

SweepFile(w) ==
    /\ calls[w].op = "sweeping"
    /\ IF calls[w].left = {} THEN Becomes(w, Idle) /\ UNCHANGED files
       ELSE \E d \in calls[w].left : /\ files' = [files EXCEPT ![d] = "gone"]
                                     /\ Becomes(w, [calls[w] EXCEPT !.left = @ \ {d}])
    /\ UNCHANGED <<rows, records, retention, job, purged, interrupted>>

\* The process dies, or a statement fails: an open purge rolls back, all else stays.
Crash(w) ==
    LET call == calls[w] IN
    /\ call # Idle
    /\ interrupted' = interrupted \cup (CASE call.op = "deleting" -> {<<call.doc, "delete">>}
                                          [] call.op = "purging" -> (call.docs \ call.left) \X {"purge"}
                                          [] OTHER -> {})
    /\ Becomes(w, Idle)
    /\ UNCHANGED <<files, rows, records, retention, job, purged>>

Requests(w) ==
    \/ \E d \in Documents : SaveFile(w, d) \/ DeleteFile(w, d)
    \/ CreateDocument(w) \/ CompensateUpload(w) \/ AttachDocument(w) \/ DeleteDocumentRow(w) \/ DeleteRecord(w)
ExportTask(w) == (\E d \in Documents : SaveExport(w, d)) \/ AttachExport(w) \/ FinishExport(w) \/ FailExport(w)
PurgeTask(w) == ClaimExpired(w) \/ (\E d \in Documents : PurgeFile(w, d)) \/ CommitPurge(w)
SweepTask(w) == ListRows(w) \/ ListFiles(w) \/ SweepFile(w)

Next ==
    \/ \E w \in Workers : Requests(w) \/ ExportTask(w) \/ PurgeTask(w) \/ SweepTask(w) \/ Crash(w)
    \/ \E d \in Documents : Expire(d) \/ AgeFile(d)
    \/ \E dated \in BOOLEAN : ConfigureDocumentSetup(dated)
    \/ RequestReportExport \/ ReapExport

Spec == Init /\ [][Next]_vars

----------------------------------------------------------------------------
(* Properties *)

(* The types of the files, rows, records and calls. *)
TypeOK ==
    /\ files \in [Documents -> {"unborn", "fresh", "old", "gone"}]
    /\ rows \in [Documents -> {"none", "kept", "dated", "expired"}]
    /\ records \in [Documents -> {"none", "set", "null"}]
    /\ retention \in BOOLEAN
    /\ job \in [status : {"absent", "PENDING", "PROCESSING", "PROCESSED", "FAILED"}, document : Documents \cup {None}]
    /\ purged \in [Documents -> Nat]
    /\ calls \in [Workers -> Call]
    /\ interrupted \subseteq Documents \X {"delete", "purge"}

\* A row is without its file only while its deletion or purge is under way, or was cut off.
RowsHaveFiles ==
    \A d \in Documents :
        Present(d) /\ ~OnDisk(d) =>
            \/ \E cut \in interrupted : cut[1] = d
            \/ \E w \in Workers : \/ calls[w].op = "deleting" /\ calls[w].doc = d
                                  \/ calls[w].op = "purging" /\ d \in calls[w].docs

PurgedOnce ==
    \A d \in Documents : purged[d] <= 1 /\ (purged[d] = 1 => ~Present(d) /\ ~OnDisk(d) /\ records[d] # "set")

(* A Document row never loses its file to another request: the sweep of orphaned
   files, whose two listings are taken apart, takes neither the file of an upload
   about to get its row nor one whose row is there. And concurrent purges,
   deletions and crashes purge a document at most once, never leaving its row:
   "two concurrent purge runs never double-delete the same row". *)
FilesAndRowsAgree == RowsHaveFiles /\ PurgedOnce

(* purge_expired_documents: "a crash between the two leaves an orphaned physical
   file [...] rather than a DB row pointing at a file that's already gone". *)
PurgeCrashLeavesNoDanglingRow ==
    \A d \in Documents :
        <<d, "purge">> \in interrupted /\ (\A w \in Workers : calls[w] = Idle) => ~(Present(d) /\ ~OnDisk(d))
=============================================================================
