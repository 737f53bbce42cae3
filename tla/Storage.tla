------------------------------- MODULE Storage -------------------------------
(***************************************************************************)
(* The files of one tenant: rows in the database and objects in the store, *)
(* which no transaction spans.  Requests open a document, upload and       *)
(* complete it, delete it or its tender, restore the tender, close the     *)
(* account; a sweep fails abandoned uploads, a purge destroys what was     *)
(* deleted longer ago than the retention window.  Covers the document and  *)
(* tender routers, services/quota.py, services/storage_quota.py,           *)
(* services/deletion.py and the periodic tasks of tasks/documents.py.      *)
(*                                                                         *)
(* A tick is a day: an upload, a signed URL and an access token (an hour   *)
(* each) end within it.                                                    *)
(*                                                                         *)
(* Bounds: MaxTime (ticks).                                                *)
(***************************************************************************)
EXTENDS Integers, FiniteSets, Functions

CONSTANTS
    Docs,           \* documents of the one tender
    Concurrency,    \* complete_upload requests in flight at a time
    Sizes,          \* object sizes a client uploads (positive)
    StorageLimit,   \* the plan's storage_bytes
    DocumentLimit,  \* the plan's documents_per_month
    PendingTtl,     \* upload_pending_ttl_hours
    Retention,      \* data_retention_days
    MaxTime

ASSUME StorageAssumption ==
    /\ IsFiniteSet(Docs) /\ Concurrency \in Nat \ {0}
    /\ Sizes \subseteq Nat \ {0}
    /\ StorageLimit \in Nat /\ DocumentLimit \in Nat
    /\ PendingTtl \in Nat /\ Retention \in Nat
    /\ MaxTime \in Nat

VARIABLES
    now,
    tenderRow,      \* [st : {"live", "deleted", "purged"}, at : time of the deletion]
    closedAt,    \* when the organization was closed, or Never
    doc,         \* [Docs -> Row]: the rows of the document table
    object,      \* [Docs -> size of the stored object, 0 for none]
    signed,      \* documents with a PUT URL that has not run out
    used,        \* usage records of the period
    upload,      \* [Docs -> where the complete_upload that holds the row is]
    sweep,       \* documents the running sweep has selected or failed
    purge,       \* the running purge
    marks        \* (ghost) [Docs -> the gaps the document went through]

storageVars == <<now, tenderRow, closedAt, doc, object, signed, used,
                 upload, sweep, purge, marks>>
tables == <<tenderRow, closedAt, doc, used>>

Never == -1
Time == 0 .. MaxTime
Stamp == Time \cup {Never}

\* "since" is created_at, kept while it matters: as long as the upload is pending.
DocumentRow == [st : {"none", "pending", "uploaded", "failed", "purged"},
        since : Stamp, size : Nat, deletedAt : Stamp, withTender : BOOLEAN]
NoDocumentRow == [st |-> "none", since |-> Never, size |-> 0, deletedAt |-> Never, withTender |-> FALSE]

InTable(d) == doc[d].st \notin {"none", "purged"}
\* The default read filter (db/soft_delete.py) hides what is marked deleted.
Shown(d) == InTable(d) /\ doc[d].deletedAt = Never
Fresh(d) == now - doc[d].since <= PendingTtl
Expired_Inclusive(t, cutoff) == t # Never /\ t <= cutoff
Expired(t, cutoff) == t # Never /\ t < cutoff

CountedIn_UploadedOnly(S) ==
    SumFunctionOnSet([d \in S |-> doc[d].size], {d \in S : Shown(d) /\ doc[d].st = "uploaded"})

\* _counted_bytes_query, restricted to the documents of S.
CountedIn(S) ==
    SumFunctionOnSet([d \in S |-> doc[d].size],
                     {d \in S : Shown(d) /\ (doc[d].st = "uploaded" \/ (doc[d].st = "pending" /\ Fresh(d)))})

\* enforce_storage_quota: the subscription row stays locked from the sum to the commit,
\* so the sum and the write it admits are one step.
Fits(incoming) == CountedIn(Docs) + (IF incoming > 0 THEN incoming ELSE 0) <= StorageLimit

\* enforce_document_quota: no lock.
QuotaLeft == used < DocumentLimit

\* The organization's tokens outlive its closing.
Authorized == closedAt \in {Never, now}

\* The marks that outlive the row.
Lasting == {"accepted", "overlapped", "late", "pastWindow"}

\* complete_upload holds its document FOR UPDATE, so a row has one at most.
NoRequest == [op |-> "idle"]
Locked(d) == upload[d] # NoRequest

-----------------------------------------------------------------------------

StorageInit ==
    /\ now = 0
    /\ tenderRow = [st |-> "live", at |-> Never]
    /\ closedAt = Never
    /\ doc = [d \in Docs |-> NoDocumentRow]
    /\ object = [d \in Docs |-> 0]
    /\ signed = {}
    /\ used = 0
    /\ upload = [d \in Docs |-> NoRequest]
    /\ sweep = [pc |-> "idle", docs |-> {}]
    /\ purge = [pc |-> "idle"]
    /\ marks = [d \in Docs |-> {}]

\* create_document: the tender is read without a lock, so it may have been deleted
\* since (in this tick); storage quota under the lock; the row, with the declared size
\* as its reservation; a signed URL.
CreateDocument(d, declared) ==
    /\ Authorized /\ doc[d].st = "none"
    /\ tenderRow.st = "live" \/ (tenderRow.st = "deleted" /\ tenderRow.at = now)
    /\ QuotaLeft /\ Fits(declared)
    /\ doc' = [doc EXCEPT ![d] = [NoDocumentRow EXCEPT !.st = "pending", !.since = now, !.size = declared]]
    /\ signed' = signed \cup {d}
    /\ marks' = [marks EXCEPT ![d] = (IF tenderRow.st = "deleted" THEN {"raced"} ELSE {})
                             \cup (IF purge.pc = "objects" /\ purge.tender THEN {"pastWindow"} ELSE {})]
    /\ UNCHANGED <<now, tenderRow, closedAt, object, used, upload, sweep, purge>>

\* The same Idempotency-Key again: the row as it is, and a new URL.
RepeatCreate(d) ==
    /\ Authorized /\ tenderRow.st = "live" /\ Shown(d)
    /\ d \notin signed
    /\ signed' = signed \cup {d}
    /\ UNCHANGED <<tables, now, object, upload, sweep, purge, marks>>

\* External: the client's PUT with a URL that is still valid.
Put(d, size) ==
    /\ d \in signed /\ object[d] # size
    /\ object' = [object EXCEPT ![d] = size]
    /\ UNCHANGED <<tables, now, signed, upload, sweep, purge, marks>>

CheckUpload_SizeUnchecked(d) ==
    /\ Authorized /\ Shown(d) /\ ~Locked(d) /\ doc[d].st = "pending"
    /\ upload' = [upload EXCEPT ![d] = [op |-> "checked", size |-> object[d], quota |-> QuotaLeft]]
    /\ UNCHANGED <<tables, now, object, signed, sweep, purge, marks>>

\* complete_upload: lock the row, ask the store for the size, read the document quota.
CheckUpload(d) ==
    /\ Authorized /\ Shown(d) /\ ~Locked(d) /\ doc[d].st = "pending"
    /\ object[d] > 0
    /\ Cardinality({e \in Docs : Locked(e)}) < Concurrency
    /\ upload' = [upload EXCEPT ![d] = [op |-> "checked", size |-> object[d], quota |-> QuotaLeft]]
    /\ UNCHANGED <<tables, now, object, signed, sweep, purge, marks>>

\* Storage quota on the real size, less the row's own reservation.
Accepted(d) == upload[d].quota /\ Fits(upload[d].size - doc[d].size)

\* Accepted: one commit.
AcceptUpload(d) ==
    /\ upload[d].op = "checked" /\ Accepted(d)
    /\ doc' = [doc EXCEPT ![d].st = "uploaded", ![d].since = Never, ![d].size = upload[d].size]
    /\ used' = used + 1
    /\ marks' = [e \in Docs |-> marks[e] \cup
                   (IF e = d THEN {"accepted"} \cup (IF Fresh(d) THEN {} ELSE {"late"})
                    ELSE IF Locked(e) THEN {"overlapped"} ELSE {})]
    /\ upload' = [upload EXCEPT ![d] = NoRequest]
    /\ UNCHANGED <<now, tenderRow, closedAt, object, signed, sweep, purge>>

\* Refused (content or size may also be wrong): the object goes first, inside the
\* transaction (an error there ends it) ...
RejectUpload(d) ==
    /\ upload[d].op = "checked"
    /\ \/ /\ object' = [object EXCEPT ![d] = 0]
          /\ upload' = [upload EXCEPT ![d] = [op |-> "rejected"]]
       \/ /\ upload' = [upload EXCEPT ![d] = NoRequest]
          /\ UNCHANGED object
    /\ UNCHANGED <<tables, now, signed, sweep, purge, marks>>

\* ... then the row, if the commit succeeds.
CommitReject(d) ==
    /\ upload[d].op = "rejected"
    /\ upload' = [upload EXCEPT ![d] = NoRequest]
    /\ \/ doc' = [doc EXCEPT ![d].st = "failed", ![d].since = Never]
       \/ UNCHANGED doc
    /\ UNCHANGED <<now, tenderRow, closedAt, used, object, signed, sweep, purge, marks>>

\* delete_document writes its mark over the row it has read, also when the tender was
\* deleted in between (in this tick).
HideDocument(d) ==
    /\ Authorized /\ InTable(d) /\ ~Locked(d)
    /\ doc[d].deletedAt \in {Never, now}
    /\ doc' = [doc EXCEPT ![d].deletedAt = now]
    /\ marks' = [marks EXCEPT ![d] = IF doc[d].withTender THEN @ ELSE (@ \cap Lasting) \cup {"deletedAlone"}]
    /\ UNCHANGED <<now, tenderRow, closedAt, used, object, signed, upload, sweep, purge>>

WithTender_Keeps == doc

\* The documents the tender takes with it carry withTender.
WithTender == [d \in Docs |-> IF Shown(d) THEN [doc[d] EXCEPT !.deletedAt = now, !.withTender = TRUE] ELSE doc[d]]

HideTender ==
    /\ Authorized /\ tenderRow.st = "live"
    /\ \A d \in Docs : ~Locked(d)
    /\ tenderRow' = [st |-> "deleted", at |-> now]
    /\ doc' = WithTender
    /\ UNCHANGED <<now, closedAt, used, object, signed, upload, sweep, purge, marks>>

\* restore_tender does not look at the retention window; only what went with the
\* tender comes back.
Reopened(d) == doc[d].withTender /\ InTable(d)

BringBackTender ==
    /\ Authorized /\ tenderRow.st = "deleted"
    /\ \A d \in Docs : ~Locked(d)
    /\ tenderRow' = [st |-> "live", at |-> Never]
    /\ doc' = [d \in Docs |-> IF Reopened(d) THEN [doc[d] EXCEPT !.deletedAt = Never, !.withTender = FALSE]
                              ELSE doc[d]]
    /\ marks' = [d \in Docs |-> (marks[d] \ {"raced"}) \cup
                   (IF Reopened(d) THEN {"restored"} ELSE {}) \cup
                   (IF InTable(d) /\ now - tenderRow.at > Retention THEN {"pastWindow"} ELSE {})]
    /\ UNCHANGED <<now, closedAt, used, object, signed, upload, sweep, purge>>

\* close_current_organization marks everything in one transaction.
CloseOrganization ==
    /\ closedAt = Never
    /\ \A d \in Docs : ~Locked(d)
    /\ closedAt' = now
    /\ tenderRow' = IF tenderRow.st = "live" THEN [st |-> "deleted", at |-> now] ELSE tenderRow
    /\ doc' = WithTender
    /\ UNCHANGED <<now, used, object, signed, upload, sweep, purge, marks>>

BeginSweep_AnyAge ==
    /\ sweep.pc = "idle"
    /\ sweep' = [pc |-> "selected", docs |-> {d \in Docs : Shown(d) /\ doc[d].st = "pending"}]
    /\ UNCHANGED <<tables, now, object, signed, upload, purge, marks>>

\* cleanup_stale_uploads selects without a lock ...
BeginSweep ==
    /\ sweep.pc = "idle"
    /\ \E d \in Docs : Shown(d) /\ doc[d].st = "pending" /\ ~Fresh(d)
    /\ sweep' = [pc |-> "selected", docs |-> {d \in Docs : Shown(d) /\ doc[d].st = "pending" /\ ~Fresh(d)}]
    /\ UNCHANGED <<tables, now, object, signed, upload, purge, marks>>

\* ... writes "failed" over what it finds (none of the rows, if one is gone) ...
CommitSweep ==
    /\ sweep.pc = "selected"
    /\ \A d \in sweep.docs : ~Locked(d)
    /\ IF \A d \in sweep.docs : InTable(d)
       THEN /\ doc' = [d \in Docs |-> IF d \in sweep.docs THEN [doc[d] EXCEPT !.st = "failed", !.since = Never] ELSE doc[d]]
            /\ sweep' = [sweep EXCEPT !.pc = "deleting"]
       ELSE UNCHANGED doc /\ sweep' = [pc |-> "idle", docs |-> {}]
    /\ UNCHANGED <<now, tenderRow, closedAt, used, object, signed, upload, purge, marks>>

\* ... and deletes the objects, best effort; the worker may also stop here.
SweepObject(d) ==
    /\ sweep.pc = "deleting" /\ d \in sweep.docs
    /\ sweep' = IF sweep.docs = {d} THEN [pc |-> "idle", docs |-> {}] ELSE [sweep EXCEPT !.docs = @ \ {d}]
    /\ \/ object' = [object EXCEPT ![d] = 0]
       \/ UNCHANGED object
    /\ UNCHANGED <<tables, now, signed, upload, purge, marks>>

SweepCrash ==
    /\ sweep.pc # "idle"
    /\ sweep' = [pc |-> "idle", docs |-> {}]
    /\ UNCHANGED <<tables, now, object, signed, upload, purge, marks>>

\* purge_deleted: collect_purgeable and _documents_of (an active organization), or
\* every document of an organization closed long enough ago.
BeginPurge ==
    LET cutoff == now - Retention
        gone == tenderRow.st = "deleted" /\ Expired(tenderRow.at, cutoff)
        alone == {d \in Docs : InTable(d) /\ Expired(doc[d].deletedAt, cutoff)}
        all == {d \in Docs : InTable(d)}
    IN /\ purge.pc = "idle"
       /\ IF closedAt = Never
          THEN /\ gone \/ alone # {}
               /\ purge' = [pc |-> "objects", tender |-> gone, alone |-> alone,
                            todo |-> IF gone THEN all ELSE alone, failed |-> FALSE]
          ELSE /\ Expired(closedAt, cutoff)
               /\ tenderRow.st # "purged"
               /\ purge' = [pc |-> "objects", tender |-> TRUE, alone |-> {}, todo |-> all, failed |-> FALSE]
       /\ UNCHANGED <<tables, now, object, signed, upload, sweep, marks>>

\* One object after the other, over the network.
PurgeObject(d) ==
    /\ purge.pc = "objects" /\ d \in purge.todo
    /\ object' = [object EXCEPT ![d] = 0]
    /\ purge' = [purge EXCEPT !.todo = @ \ {d}]
    /\ UNCHANGED <<tables, now, signed, upload, sweep, marks>>

PurgeObjectFails(d) ==
    /\ purge.pc = "objects" /\ d \in purge.todo
    /\ purge' = [purge EXCEPT !.todo = @ \ {d}, !.failed = TRUE]
    /\ UNCHANGED <<tables, now, object, signed, upload, sweep, marks>>

Blocked_Never == FALSE

\* The rows that may go: none of a tender with a failed object.
Blocked == purge.failed

CommitPurge ==
    /\ purge.pc = "objects" /\ purge.todo = {}
    /\ \A d \in Docs : ~Locked(d)
    /\ LET all == purge.tender /\ ~Blocked
           gone == IF Blocked THEN {} ELSE IF all THEN Docs ELSE purge.alone
       IN /\ tenderRow' = IF all THEN [st |-> "purged", at |-> Never] ELSE tenderRow
          /\ marks' = [d \in Docs |-> IF d \in gone THEN marks[d] \cap Lasting ELSE marks[d]]
          /\ doc' = [d \in Docs |-> IF d \in gone /\ InTable(d) THEN [NoDocumentRow EXCEPT !.st = "purged"] ELSE doc[d]]
    /\ purge' = [pc |-> "idle"]
    /\ UNCHANGED <<now, closedAt, used, object, signed, upload, sweep>>

PurgeCrash ==
    /\ purge.pc = "objects"
    /\ purge' = [pc |-> "idle"]
    /\ UNCHANGED <<tables, now, object, signed, upload, sweep, marks>>

\* A request lasts less than a tick.
StorageTick ==
    /\ now < MaxTime
    /\ \A d \in Docs : ~Locked(d)
    /\ now' = now + 1
    /\ signed' = {}
    /\ UNCHANGED <<tables, object, upload, sweep, purge, marks>>

StorageNext ==
    \/ \E d \in Docs :
          \/ \E declared \in Sizes \cup {0} : CreateDocument(d, declared)
          \/ RepeatCreate(d)
          \/ HideDocument(d)
          \/ \E size \in Sizes : Put(d, size)
          \/ CheckUpload(d)
          \/ AcceptUpload(d)
          \/ RejectUpload(d)
          \/ CommitReject(d)
          \/ SweepObject(d)
          \/ PurgeObject(d)
          \/ PurgeObjectFails(d)
    \/ HideTender \/ BringBackTender \/ CloseOrganization
    \/ BeginSweep \/ CommitSweep \/ SweepCrash
    \/ BeginPurge \/ CommitPurge \/ PurgeCrash
    \/ StorageTick

StorageSpec == StorageInit /\ [][StorageNext]_storageVars

-----------------------------------------------------------------------------
\* Every variable keeps its type.
StorageTypeOK ==
    /\ now \in Time
    /\ tenderRow \in [st : {"live", "deleted", "purged"}, at : Stamp]
    /\ closedAt \in Stamp
    /\ doc \in [Docs -> DocumentRow]
    /\ object \in [Docs -> {0} \cup Sizes]
    /\ signed \in SUBSET Docs
    /\ used \in Nat
    /\ upload \in [Docs -> {NoRequest} \cup [op : {"checked"}, size : Sizes, quota : BOOLEAN]
                                       \cup [op : {"rejected"}]]
    /\ sweep \in [pc : {"idle", "selected", "deleting"}, docs : SUBSET Docs]
    /\ purge \in {[pc |-> "idle"]} \cup
          [pc : {"objects"}, tender : BOOLEAN, alone : SUBSET Docs, todo : SUBSET Docs, failed : BOOLEAN]
    /\ marks \in [Docs -> SUBSET {"raced", "late", "restored", "pastWindow", "deletedAlone", "accepted", "overlapped"}]

(***************************************************************************)
(* No object without a row: the purge deletes objects before rows and      *)
(* keeps the rows of what it could not delete, so nothing is left in the   *)
(* store that no row names.  Only documents of a tender that was restored  *)
(* after its retention window, under a running purge, may lose their row   *)
(* and keep their object (restore_tender does not look at the window).     *)
(***************************************************************************)
NoOrphanObject ==
    \A d \in Docs : object[d] > 0 => InTable(d) \/ "pastWindow" \in marks[d]

(***************************************************************************)
(* A document that is shown as uploaded has its file, through deletion of  *)
(* its tender, a failing purge and a restore inside the retention window.  *)
(* (A document that raced with the deletion of its tender goes with it.)   *)
(***************************************************************************)
FileKept ==
    Authorized => \A d \in Docs : Shown(d) /\ doc[d].st = "uploaded" /\ marks[d] \cap {"pastWindow", "raced"} = {}
        => object[d] > 0

(***************************************************************************)
(* Both quotas hold however requests overlap.  Storage: declared sizes     *)
(* reserve space, real sizes replace them, the decisions of a tenant are   *)
(* serialised; not counted here are what a restored tender brings back,    *)
(* which is never checked, and uploads completed after PendingTtl, whose   *)
(* reservation is subtracted although it no longer counts.  Documents of   *)
(* the month, read without a lock: exceeded by no more than the uploads    *)
(* that were being completed while another one was accepted.               *)
(***************************************************************************)
QuotasKept ==
    /\ CountedIn({d \in Docs : marks[d] \cap {"late", "restored"} = {}}) <= StorageLimit
    /\ used - Cardinality({d \in Docs : {"accepted", "overlapped"} \subseteq marks[d]}) <= DocumentLimit

(***************************************************************************)
(* What was deleted stays hidden: the documents of a deleted tender, but   *)
(* for one that a create_document running at that moment inserts later;    *)
(* and a document the user deleted on its own, through every deletion and  *)
(* restore of its tender.                                                  *)
(***************************************************************************)
DeletedStaysHidden ==
    \A d \in Docs : Shown(d) =>
        /\ tenderRow.st = "deleted" => "raced" \in marks[d]
        /\ "deletedAlone" \notin marks[d]

(***************************************************************************)
(* The sweep of abandoned uploads fails no accepted upload, unless it was  *)
(* completed after PendingTtl (the sweep writes over what it selected).    *)
(***************************************************************************)
AcceptedStays ==
    \A d \in Docs : doc[d].st = "failed" /\ "accepted" \in marks[d] => "late" \in marks[d]
=============================================================================
