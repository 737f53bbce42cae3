---------------------------- MODULE StorageProofs ----------------------------
(***************************************************************************)
(* What module Storage promises about rows and objects, for any number of  *)
(* documents and concurrent completions, any sizes, retention and quotas.  *)
(* The argument is in three layers: what is hidden and by which deletion;  *)
(* what the sweep of abandoned uploads may hold; and what the purge may    *)
(* destroy: a file goes only when the document is bound to go, by a        *)
(* deletion of itself, its tender or the organization that is older than   *)
(* the retention window.                                                   *)
(*                                                                         *)
(* The quotas rest on the first two layers.  Every step but the opening    *)
(* and the acceptance of an upload takes documents out of the count of     *)
(* bytes; those two are one step with the sum they compare.  The count of  *)
(* documents is read earlier than it is used: RoomSeen says that a request *)
(* that read it still finds room, or was overtaken and is marked as such.  *)
(***************************************************************************)
EXTENDS Storage, SumProofs, FiniteSetTheorems, TLAPS

USE StorageAssumption DEF Never, Time, Stamp

LEMMA DocumentRowFields ==
    ASSUME NEW r \in DocumentRow
    PROVE  /\ r.st \in {"none", "pending", "uploaded", "failed", "purged"} /\ r.since \in Stamp
           /\ r.size \in Nat /\ r.deletedAt \in Stamp /\ r.withTender \in BOOLEAN
BY DEF DocumentRow

LEMMA NoRowType ==
    /\ NoDocumentRow \in DocumentRow
    /\ NoDocumentRow.st = "none" /\ NoDocumentRow.since = Never /\ NoDocumentRow.size = 0
    /\ NoDocumentRow.deletedAt = Never /\ NoDocumentRow.withTender = FALSE
BY DEF DocumentRow, NoDocumentRow

\* What the steps do to a row.
LEMMA RowWrites ==
    ASSUME NEW r \in DocumentRow
    PROVE  /\ \A t \in Stamp : [r EXCEPT !.deletedAt = t] \in DocumentRow
           /\ \A t \in Stamp : LET s == [r EXCEPT !.deletedAt = t]
                IN s.st = r.st /\ s.since = r.since /\ s.deletedAt = t /\ s.withTender = r.withTender
           /\ \A t \in Stamp, b \in BOOLEAN :
                LET s == [r EXCEPT !.deletedAt = t, !.withTender = b]
                IN /\ s \in DocumentRow
                   /\ s.st = r.st /\ s.since = r.since /\ s.deletedAt = t /\ s.withTender = b
           /\ LET s == [r EXCEPT !.st = "failed", !.since = Never]
              IN /\ s \in DocumentRow
                 /\ s.st = "failed" /\ s.deletedAt = r.deletedAt /\ s.withTender = r.withTender
           /\ \A n \in Nat :
                LET s == [r EXCEPT !.st = "uploaded", !.since = Never, !.size = n]
                IN /\ s \in DocumentRow
                   /\ s.st = "uploaded" /\ s.deletedAt = r.deletedAt /\ s.withTender = r.withTender
BY DEF DocumentRow

-----------------------------------------------------------------------------
\* The first layer.  A document that was deleted on its own keeps its date and does not
\* belong to a deletion of the tender; one that went with the tender is no older than that.
LockedShown == \A d \in Docs : Locked(d) => Shown(d) /\ doc[d].st = "pending"
AloneHidden == \A d \in Docs :
    "deletedAlone" \in marks[d] => doc[d].deletedAt # Never /\ ~doc[d].withTender
DeletionPast == tenderRow.st = "deleted" => tenderRow.at # Never /\ tenderRow.at <= now
WentWithTender == \A d \in Docs : InTable(d) /\ doc[d].withTender =>
    /\ tenderRow.st = "deleted"
    /\ doc[d].deletedAt # Never /\ tenderRow.at <= doc[d].deletedAt
PurgedEmpty == tenderRow.st = "purged" => \A d \in Docs : ~InTable(d)

HiddenIInv ==
    /\ StorageTypeOK /\ LockedShown /\ AloneHidden /\ DeletedStaysHidden
    /\ DeletionPast /\ WentWithTender /\ PurgedEmpty

\* The second layer: the sweep holds documents whose time was over when it selected them.
AcceptedNotPending == \A d \in Docs :
    "accepted" \in marks[d] => doc[d].st \in {"uploaded", "failed", "purged"}
SweepSound ==
    /\ sweep.pc = "selected" => \A d \in sweep.docs :
          /\ doc[d].st # "none"
          /\ doc[d].st = "pending" => ~Fresh(d)
          /\ "accepted" \in marks[d] => "late" \in marks[d]
    /\ sweep.pc = "deleting" => \A d \in sweep.docs : doc[d].st \in {"failed", "purged"}

SweepIInv == AcceptedNotPending /\ SweepSound /\ AcceptedStays

\* The third layer.  Bound to go: nothing brings the document back within its window.
Bound(d) ==
    \/ closedAt # Never /\ closedAt < now
    \/ tenderRow.st = "deleted" /\ tenderRow.at < now - Retention
    \/ doc[d].deletedAt # Never /\ doc[d].deletedAt < now - Retention
Marked(d) == "pastWindow" \in marks[d]

\* A document with a valid URL was within reach of a request in this tick.
Reachable(d) ==
    /\ InTable(d) /\ doc[d].deletedAt \in {Never, now} /\ closedAt \in {Never, now}
    /\ tenderRow.st = "live" \/ (tenderRow.st = "deleted" /\ tenderRow.at = now)
SignedReachable == \A d \in signed : Marked(d) \/ Reachable(d)

Target(d) == InTable(d) /\ (purge.tender \/ d \in purge.alone)
PurgeSound == purge.pc = "objects" =>
    /\ \A d \in purge.todo \cup purge.alone : doc[d].st # "none" /\ (InTable(d) => Target(d))
    /\ \A d \in Docs : Target(d) =>
          \/ Marked(d)
          \/ d \notin signed /\ Bound(d) /\ (d \in purge.todo \/ purge.failed \/ object[d] = 0)
FilesBound == \A d \in Docs :
    InTable(d) /\ (doc[d].st = "uploaded" \/ upload[d].op = "checked")
    => object[d] > 0 \/ Marked(d) \/ Bound(d)

ObjectsIInv == SignedReachable /\ PurgeSound /\ FilesBound /\ NoOrphanObject

StorageIInv == HiddenIInv /\ SweepIInv /\ ObjectsIInv

-----------------------------------------------------------------------------
\* Requests on an upload, told apart by op.
LEMMA UploadKinds ==
    ASSUME StorageTypeOK, NEW d \in Docs
    PROVE  /\ upload[d].op \in {"idle", "checked", "rejected"}
           /\ Locked(d) <=> upload[d].op # "idle"
           /\ upload[d].op = "checked" => upload[d].size \in Sizes
<1>1. upload[d] \in {NoRequest} \cup [op : {"checked"}, size : Sizes, quota : BOOLEAN] \cup [op : {"rejected"}]
  BY DEF StorageTypeOK
<1>2. CASE upload[d] = NoRequest
  BY <1>2 DEF NoRequest, Locked
<1>3. CASE upload[d] \in [op : {"checked"}, size : Sizes, quota : BOOLEAN]
  BY <1>3 DEF NoRequest, Locked
<1>4. CASE upload[d] \in [op : {"rejected"}]
  BY <1>4 DEF NoRequest, Locked
<1>5. QED
  BY <1>1, <1>2, <1>3, <1>4

Free(d) == upload' = [upload EXCEPT ![d] = NoRequest]

LEMMA FreeType ==
    ASSUME StorageTypeOK, NEW d \in Docs, Free(d)
    PROVE  /\ upload' \in [Docs -> {NoRequest} \cup [op : {"checked"}, size : Sizes, quota : BOOLEAN]
                                               \cup [op : {"rejected"}]]
           /\ upload'[d] = NoRequest /\ upload'[d].op = "idle"
           /\ \A e \in Docs \ {d} : upload'[e] = upload[e]
BY DEF StorageTypeOK, Free, NoRequest

\* Steps that leave the tables and the marks alone.
LEMMA RequestTypes ==
    ASSUME StorageTypeOK, UNCHANGED <<tables, now, marks>>,
           object' \in [Docs -> {0} \cup Sizes], signed' \in SUBSET Docs,
           upload' \in [Docs -> {NoRequest} \cup [op : {"checked"}, size : Sizes, quota : BOOLEAN]
                                            \cup [op : {"rejected"}]],
           sweep' \in [pc : {"idle", "selected", "deleting"}, docs : SUBSET Docs],
           purge' \in {[pc |-> "idle"]} \cup
              [pc : {"objects"}, tender : BOOLEAN, alone : SUBSET Docs, todo : SUBSET Docs, failed : BOOLEAN]
    PROVE  StorageTypeOK'
BY DEF StorageTypeOK, tables

\* Where the rows are as they were and no request takes a row that is not pending.
LEMMA RowsUntouched ==
    ASSUME HiddenIInv, StorageTypeOK', UNCHANGED <<tables, now, marks>>,
           \A d \in Docs : Locked(d)' => Locked(d) \/ (Shown(d) /\ doc[d].st = "pending")
    PROVE  HiddenIInv'
<1>1. LockedShown'
  BY DEF HiddenIInv, LockedShown, tables, Shown, InTable
<1>2. AloneHidden' /\ DeletedStaysHidden' /\ DeletionPast' /\ WentWithTender' /\ PurgedEmpty'
  BY DEF HiddenIInv, AloneHidden, DeletedStaysHidden, DeletionPast, WentWithTender, PurgedEmpty,
         tables, Shown, InTable
<1>3. QED
  BY <1>1, <1>2 DEF HiddenIInv

LEMMA RepeatCreateHidden == ASSUME HiddenIInv, NEW d \in Docs, RepeatCreate(d) PROVE HiddenIInv'
<1> USE DEF RepeatCreate
<1>1. StorageTypeOK'
  BY RequestTypes DEF HiddenIInv, StorageTypeOK
<1>2. QED
  BY <1>1, RowsUntouched DEF Locked

LEMMA PutHidden == ASSUME HiddenIInv, NEW d \in Docs, NEW size \in Sizes, Put(d, size) PROVE HiddenIInv'
<1> USE DEF Put
<1>1. StorageTypeOK'
  BY RequestTypes DEF HiddenIInv, StorageTypeOK
<1>2. QED
  BY <1>1, RowsUntouched DEF Locked

LEMMA CheckUploadHidden == ASSUME HiddenIInv, NEW d \in Docs, CheckUpload(d) PROVE HiddenIInv'
<1> DEFINE x == [op |-> "checked", size |-> object[d], quota |-> QuotaLeft]
<1>1. x \in [op : {"checked"}, size : Sizes, quota : BOOLEAN]
  BY DEF CheckUpload, HiddenIInv, StorageTypeOK, QuotaLeft
<1>2. upload' = [upload EXCEPT ![d] = x]
      /\ UNCHANGED <<tables, now, object, signed, sweep, purge, marks>>
      /\ Shown(d) /\ doc[d].st = "pending"
  BY DEF CheckUpload
<1> HIDE DEF x
<1>3. StorageTypeOK'
  BY <1>1, <1>2, RequestTypes DEF HiddenIInv, StorageTypeOK
<1>4. \A e \in Docs : e # d => upload'[e] = upload[e]
  BY <1>2 DEF HiddenIInv, StorageTypeOK
<1>5. QED
  BY <1>2, <1>3, <1>4, RowsUntouched DEF Locked

LEMMA RejectUploadHidden == ASSUME HiddenIInv, NEW d \in Docs, RejectUpload(d) PROVE HiddenIInv'
<1>1. PICK x \in {NoRequest} \cup [op : {"rejected"}] :
         /\ upload' = [upload EXCEPT ![d] = x]
         /\ object' = [object EXCEPT ![d] = 0] \/ object' = object
         /\ UNCHANGED <<tables, now, signed, sweep, purge, marks>>
         /\ upload[d].op = "checked"
  BY DEF RejectUpload
<1>2. StorageTypeOK'
  BY <1>1, RequestTypes DEF HiddenIInv, StorageTypeOK
<1>3. \A e \in Docs : e # d => upload'[e] = upload[e]
  BY <1>1 DEF HiddenIInv, StorageTypeOK
<1>4. Locked(d)
  BY <1>1, UploadKinds DEF HiddenIInv
<1>5. QED
  BY <1>1, <1>2, <1>3, <1>4, RowsUntouched DEF Locked

LEMMA SweepHidden ==
    ASSUME HiddenIInv, BeginSweep \/ SweepCrash \/ \E d \in Docs : SweepObject(d)
    PROVE  HiddenIInv'
<1>1. /\ UNCHANGED <<tables, now, signed, upload, purge, marks>>
      /\ object' \in [Docs -> {0} \cup Sizes]
      /\ sweep' \in [pc : {"idle", "selected", "deleting"}, docs : SUBSET Docs]
  <2>1. CASE BeginSweep
    BY <2>1 DEF BeginSweep, HiddenIInv, StorageTypeOK
  <2>2. CASE SweepCrash
    BY <2>2 DEF SweepCrash, HiddenIInv, StorageTypeOK
  <2>3. ASSUME NEW d \in Docs, SweepObject(d)
        PROVE  /\ UNCHANGED <<tables, now, signed, upload, purge, marks>>
               /\ object' \in [Docs -> {0} \cup Sizes]
               /\ sweep' \in [pc : {"idle", "selected", "deleting"}, docs : SUBSET Docs]
    BY <2>3 DEF SweepObject, HiddenIInv, StorageTypeOK
  <2>4. QED
    BY <2>1, <2>2, <2>3
<1>2. StorageTypeOK'
  BY <1>1, RequestTypes DEF HiddenIInv, StorageTypeOK
<1>3. QED
  BY <1>1, <1>2, RowsUntouched DEF Locked

PurgeRecords == [pc : {"objects"}, tender : BOOLEAN, alone : SUBSET Docs, todo : SUBSET Docs, failed : BOOLEAN]

LEMMA PurgeHidden ==
    ASSUME HiddenIInv,
           BeginPurge \/ PurgeCrash \/ \E d \in Docs : PurgeObject(d) \/ PurgeObjectFails(d)
    PROVE  HiddenIInv'
<1> DEFINE Good == /\ UNCHANGED <<tables, now, signed, upload, sweep, marks>>
                   /\ object' \in [Docs -> {0} \cup Sizes]
                   /\ purge' \in {[pc |-> "idle"]} \cup PurgeRecords
<1>1. Good
  <2>1. CASE BeginPurge
    <3>1. /\ UNCHANGED <<tables, now, object, signed, upload, sweep, marks>>
          /\ \E b \in BOOLEAN, alone \in SUBSET Docs, todo \in SUBSET Docs :
                purge' = [pc |-> "objects", tender |-> b, alone |-> alone, todo |-> todo, failed |-> FALSE]
      BY <2>1 DEF BeginPurge, Expired
    <3>2. purge' \in PurgeRecords
      BY <3>1 DEF PurgeRecords
    <3>3. QED
      BY <3>1, <3>2 DEF HiddenIInv, StorageTypeOK
  <2>2. CASE PurgeCrash
    BY <2>2 DEF PurgeCrash, HiddenIInv, StorageTypeOK
  <2>3. ASSUME NEW d \in Docs, PurgeObject(d) \/ PurgeObjectFails(d) PROVE Good
    <3>1. purge.pc = "objects"
      BY <2>3 DEF PurgeObject, PurgeObjectFails
    <3>2. purge \in PurgeRecords
      BY <3>1 DEF HiddenIInv, StorageTypeOK, PurgeRecords
    <3>3. purge' \in PurgeRecords
      BY <2>3, <3>2 DEF PurgeObject, PurgeObjectFails, PurgeRecords
    <3>4. QED
      BY <2>3, <3>3 DEF PurgeObject, PurgeObjectFails, HiddenIInv, StorageTypeOK
  <2>4. QED
    BY <2>1, <2>2, <2>3
<1>2. StorageTypeOK'
  BY <1>1, RequestTypes DEF HiddenIInv, StorageTypeOK, PurgeRecords
<1>3. QED
  BY <1>1, <1>2, RowsUntouched DEF Locked

-----------------------------------------------------------------------------
\* Steps that change rows: what each does to every row, and the types it keeps.
Marks == {"raced", "late", "restored", "pastWindow", "deletedAlone", "accepted", "overlapped"}

\* The row keeps its dates; the state of the tender may change.
SameDates(e) ==
    /\ doc'[e].deletedAt = doc[e].deletedAt /\ doc'[e].withTender = doc[e].withTender
SameRow(e) == doc'[e].st = doc[e].st /\ doc'[e].since = doc[e].since /\ SameDates(e)

LEMMA CreateRows ==
    ASSUME StorageTypeOK, NEW d \in Docs, NEW declared \in Sizes \cup {0}, CreateDocument(d, declared)
    PROVE  /\ StorageTypeOK'
           /\ doc[d].st = "none"
           /\ doc'[d].st = "pending" /\ doc'[d].since = now
           /\ doc'[d].deletedAt = Never /\ doc'[d].withTender = FALSE
           /\ marks'[d] = (IF tenderRow.st = "deleted" THEN {"raced"} ELSE {})
                          \cup (IF purge.pc = "objects" /\ purge.tender THEN {"pastWindow"} ELSE {})
           /\ \A e \in Docs \ {d} : doc'[e] = doc[e] /\ marks'[e] = marks[e]
<1> DEFINE row == [NoDocumentRow EXCEPT !.st = "pending", !.since = now, !.size = declared]
<1>1. now \in Time /\ declared \in Nat
  BY DEF StorageTypeOK
<1>2. row \in DocumentRow /\ row.st = "pending" /\ row.since = now /\ row.deletedAt = Never /\ row.withTender = FALSE
  BY <1>1 DEF DocumentRow, NoDocumentRow
<1>3. doc' = [doc EXCEPT ![d] = row] /\ signed' = signed \cup {d} /\ doc[d].st = "none"
      /\ UNCHANGED <<now, tenderRow, closedAt, object, used, upload, sweep, purge>>
      /\ marks' = [marks EXCEPT ![d] = (IF tenderRow.st = "deleted" THEN {"raced"} ELSE {})
                          \cup (IF purge.pc = "objects" /\ purge.tender THEN {"pastWindow"} ELSE {})]
  BY DEF CreateDocument
<1> HIDE DEF row
<1>4. marks' \in [Docs -> SUBSET Marks]
  BY <1>3 DEF StorageTypeOK, Marks
<1>5. QED
  BY <1>2, <1>3, <1>4 DEF StorageTypeOK, Marks

LEMMA AcceptRows ==
    ASSUME StorageTypeOK, NEW d \in Docs, AcceptUpload(d)
    PROVE  /\ StorageTypeOK'
           /\ upload'[d].op = "idle" /\ ~Locked(d)'
           /\ doc'[d].st = "uploaded" /\ SameDates(d)
           /\ marks[d] \cup {"accepted"} \subseteq marks'[d]
           /\ marks'[d] \subseteq marks[d] \cup {"accepted", "late"}
           /\ ~Fresh(d) => "late" \in marks'[d]
           /\ \A e \in Docs \ {d} :
                /\ doc'[e] = doc[e] /\ upload'[e] = upload[e]
                /\ marks[e] \subseteq marks'[e] /\ marks'[e] \subseteq marks[e] \cup {"overlapped"}
<1> DEFINE size == upload[d].size
           row == [doc[d] EXCEPT !.st = "uploaded", !.since = Never, !.size = size]
<1>1. doc[d] \in DocumentRow /\ size \in Nat
  BY UploadKinds DEF AcceptUpload, StorageTypeOK
<1>2. row \in DocumentRow /\ row.st = "uploaded"
      /\ row.deletedAt = doc[d].deletedAt /\ row.withTender = doc[d].withTender
  <2> HIDE DEF size
  <2>1. QED
    BY <1>1 DEF DocumentRow
<1>3. doc' = [doc EXCEPT ![d] = row]
  BY <1>1 DEF AcceptUpload, StorageTypeOK
<1>4. /\ Free(d) /\ used' = used + 1
      /\ UNCHANGED <<now, tenderRow, closedAt, object, signed, sweep, purge>>
  BY DEF AcceptUpload, Free
<1>5. \A e \in Docs : marks'[e] = marks[e] \cup
                   (IF e = d THEN {"accepted"} \cup (IF Fresh(d) THEN {} ELSE {"late"})
                    ELSE IF Locked(e) THEN {"overlapped"} ELSE {})
  BY DEF AcceptUpload
<1>6. marks' \in [Docs -> SUBSET Marks]
  BY <1>5 DEF AcceptUpload, StorageTypeOK, Marks
<1> HIDE DEF row
<1>7. StorageTypeOK'
  <2>1. doc' \in [Docs -> DocumentRow] /\ used' \in Nat
    BY <1>2, <1>3, <1>4 DEF StorageTypeOK
  <2>2. QED
    BY <2>1, <1>4, <1>6, FreeType DEF StorageTypeOK, Marks
<1>8. doc'[d].st = "uploaded" /\ SameDates(d) /\ \A e \in Docs \ {d} : doc'[e] = doc[e]
  BY <1>2, <1>3 DEF StorageTypeOK, SameDates
<1>9. QED
  BY <1>4, <1>5, <1>7, <1>8, FreeType DEF Locked

LEMMA RejectRows ==
    ASSUME StorageTypeOK, NEW d \in Docs, CommitReject(d)
    PROVE  /\ StorageTypeOK'
           /\ Locked(d) /\ upload'[d].op = "idle" /\ ~Locked(d)'
           /\ doc'[d] = doc[d] \/ doc'[d].st = "failed"
           /\ SameDates(d)
           /\ \A e \in Docs \ {d} : doc'[e] = doc[e] /\ upload'[e] = upload[e]
<1> DEFINE row == [doc[d] EXCEPT !.st = "failed", !.since = Never]
<1>1. doc[d] \in DocumentRow
  BY DEF StorageTypeOK
<1>2. row \in DocumentRow /\ row.st = "failed"
      /\ row.deletedAt = doc[d].deletedAt /\ row.withTender = doc[d].withTender
  BY <1>1, RowWrites
<1>3. doc' = [doc EXCEPT ![d] = row] \/ doc' = doc
  BY <1>1 DEF CommitReject, StorageTypeOK
<1>4. /\ Free(d) /\ upload[d].op = "rejected"
      /\ UNCHANGED <<now, tenderRow, closedAt, used, object, signed, sweep, purge, marks>>
  BY DEF CommitReject, Free
<1>5. Locked(d)
  BY <1>4, UploadKinds
<1>6. CASE doc' = doc
  BY <1>4, <1>5, <1>6, FreeType DEF StorageTypeOK, SameDates, Locked
<1>7. CASE doc' = [doc EXCEPT ![d] = row]
  <2> HIDE DEF row
  <2>1. doc'[d] = row /\ \A e \in Docs \ {d} : doc'[e] = doc[e]
    BY <1>7 DEF StorageTypeOK
  <2>2. doc' \in [Docs -> DocumentRow]
    BY <1>7, <1>2 DEF StorageTypeOK
  <2>3. StorageTypeOK'
    BY <1>4, <2>2, FreeType DEF StorageTypeOK
  <2>4. doc'[d].st = "failed" /\ SameDates(d)
    BY <1>2, <2>1 DEF SameDates
  <2>5. QED
    BY <1>4, <1>5, <2>1, <2>3, <2>4, FreeType DEF Locked
<1>8. QED
  BY <1>3, <1>6, <1>7

LEMMA HideDocumentRows ==
    ASSUME StorageTypeOK, NEW d \in Docs, HideDocument(d)
    PROVE  /\ StorageTypeOK'
           /\ doc'[d].st = doc[d].st /\ doc'[d].since = doc[d].since
           /\ doc'[d].deletedAt = now /\ doc'[d].withTender = doc[d].withTender
           /\ IF doc[d].withTender THEN marks'[d] = marks[d]
              ELSE marks'[d] = (marks[d] \cap Lasting) \cup {"deletedAlone"}
           /\ \A e \in Docs \ {d} : doc'[e] = doc[e] /\ marks'[e] = marks[e]
<1> DEFINE row == [doc[d] EXCEPT !.deletedAt = now]
<1>1. doc[d] \in DocumentRow /\ now \in Stamp
  BY DEF StorageTypeOK
<1>2. row \in DocumentRow /\ row.st = doc[d].st /\ row.since = doc[d].since
      /\ row.deletedAt = now /\ row.withTender = doc[d].withTender
  BY <1>1 DEF DocumentRow
<1>3. doc' = [doc EXCEPT ![d] = row]
      /\ UNCHANGED <<now, tenderRow, closedAt, used, object, signed, upload, sweep, purge>>
      /\ marks' = [marks EXCEPT ![d] = IF doc[d].withTender THEN @ ELSE (@ \cap Lasting) \cup {"deletedAlone"}]
  BY DEF HideDocument
<1> HIDE DEF row
<1>4. marks' \in [Docs -> SUBSET Marks]
  BY <1>3 DEF StorageTypeOK, Marks
<1>5. QED
  BY <1>2, <1>3, <1>4 DEF StorageTypeOK, Marks

\* delete_tender and close_current_organization.
LEMMA WithTenderRows ==
    ASSUME StorageTypeOK, doc' = WithTender, NEW e \in Docs
    PROVE  /\ doc'[e] \in DocumentRow
           /\ doc'[e].st = doc[e].st /\ doc'[e].since = doc[e].since
           /\ Shown(e) => doc'[e].deletedAt = now /\ doc'[e].withTender
           /\ ~Shown(e) => doc'[e] = doc[e]
<1>1. doc[e] \in DocumentRow /\ now \in Stamp
  BY DEF StorageTypeOK
<1>2. doc'[e] = IF Shown(e) THEN [doc[e] EXCEPT !.deletedAt = now, !.withTender = TRUE] ELSE doc[e]
  BY DEF WithTender
<1>3. QED
  BY <1>1, <1>2 DEF DocumentRow

LEMMA WithTenderType ==
    ASSUME StorageTypeOK, doc' = WithTender,
           UNCHANGED <<now, used, object, signed, upload, sweep, purge, marks>>,
           tenderRow' \in [st : {"live", "deleted", "purged"}, at : Stamp],
           closedAt' \in Stamp
    PROVE  StorageTypeOK'
<1>1. doc' \in [Docs -> DocumentRow]
  <2>1. \A e \in Docs : doc'[e] \in DocumentRow
    BY WithTenderRows
  <2>2. doc' = [e \in Docs |-> doc'[e]]
    BY DEF WithTender
  <2>3. QED
    BY <2>1, <2>2
<1>2. QED
  BY <1>1 DEF StorageTypeOK

LEMMA BringBackRows ==
    ASSUME StorageTypeOK, BringBackTender
    PROVE  /\ StorageTypeOK'
           /\ tenderRow'.st = "live"
           /\ \A e \in Docs :
                /\ doc'[e].st = doc[e].st /\ doc'[e].since = doc[e].since
                /\ Reopened(e) => doc'[e].deletedAt = Never /\ ~doc'[e].withTender
                /\ ~Reopened(e) => doc'[e] = doc[e]
                /\ marks[e] \ {"raced"} \subseteq marks'[e]
                /\ marks'[e] \subseteq marks[e] \cup {"restored", "pastWindow"}
                /\ InTable(e) /\ now - tenderRow.at > Retention => "pastWindow" \in marks'[e]
<1>1. ASSUME NEW e \in Docs
      PROVE  /\ doc'[e] \in DocumentRow
             /\ doc'[e].st = doc[e].st /\ doc'[e].since = doc[e].since
             /\ Reopened(e) => doc'[e].deletedAt = Never /\ ~doc'[e].withTender
             /\ ~Reopened(e) => doc'[e] = doc[e]
  <2>1. doc[e] \in DocumentRow
    BY DEF StorageTypeOK
  <2>2. doc'[e] = IF Reopened(e) THEN [doc[e] EXCEPT !.deletedAt = Never, !.withTender = FALSE] ELSE doc[e]
    BY DEF BringBackTender
  <2>3. QED
    BY <2>1, <2>2 DEF DocumentRow
<1>2. ASSUME NEW e \in Docs
      PROVE  marks'[e] = (marks[e] \ {"raced"}) \cup
                   (IF Reopened(e) THEN {"restored"} ELSE {}) \cup
                   (IF InTable(e) /\ now - tenderRow.at > Retention THEN {"pastWindow"} ELSE {})
  BY DEF BringBackTender
<1>3. doc' \in [Docs -> DocumentRow] /\ marks' \in [Docs -> SUBSET Marks]
  <2>1. doc' = [e \in Docs |-> doc'[e]] /\ marks' = [e \in Docs |-> marks'[e]]
    BY DEF BringBackTender
  <2>2. \A e \in Docs : marks'[e] \in SUBSET Marks
    BY <1>2 DEF StorageTypeOK, Marks
  <2>3. QED
    BY <1>1, <2>1, <2>2
<1>4. /\ tenderRow' = [st |-> "live", at |-> Never]
      /\ UNCHANGED <<now, closedAt, used, object, signed, upload, sweep, purge>>
  BY DEF BringBackTender
<1>5. StorageTypeOK'
  BY <1>3, <1>4 DEF StorageTypeOK, Marks
<1>6. QED
  BY <1>1, <1>2, <1>4, <1>5

LEMMA CommitSweepRows ==
    ASSUME StorageTypeOK, CommitSweep
    PROVE  /\ StorageTypeOK' /\ sweep.pc = "selected"
           /\ \A e \in sweep.docs : ~Locked(e)
           /\ UNCHANGED <<now, tenderRow, closedAt, used, object, signed, upload, purge, marks>>
           /\ \/ /\ \A e \in sweep.docs : InTable(e) /\ doc'[e].st = "failed" /\ SameDates(e)
                 /\ \A e \in Docs \ sweep.docs : doc'[e] = doc[e]
                 /\ sweep'.pc = "deleting" /\ sweep'.docs = sweep.docs
              \/ doc' = doc /\ sweep'.pc = "idle"
<1>1. /\ sweep.pc = "selected" /\ \A e \in sweep.docs : ~Locked(e)
      /\ UNCHANGED <<now, tenderRow, closedAt, used, object, signed, upload, purge, marks>>
  BY DEF CommitSweep
<1>2. sweep \in [pc : {"idle", "selected", "deleting"}, docs : SUBSET Docs]
  BY DEF StorageTypeOK
<1>3. CASE \A e \in sweep.docs : InTable(e)
  <2>1. /\ doc' = [e \in Docs |-> IF e \in sweep.docs THEN [doc[e] EXCEPT !.st = "failed", !.since = Never] ELSE doc[e]]
        /\ sweep' = [sweep EXCEPT !.pc = "deleting"]
    BY <1>3 DEF CommitSweep
  <2>2. /\ sweep' \in [pc : {"idle", "selected", "deleting"}, docs : SUBSET Docs]
        /\ sweep'.pc = "deleting" /\ sweep'.docs = sweep.docs
    BY <1>2, <2>1
  <2>3. ASSUME NEW e \in Docs
        PROVE  /\ doc'[e] \in DocumentRow
               /\ IF e \in sweep.docs THEN doc'[e].st = "failed" /\ SameDates(e) ELSE doc'[e] = doc[e]
    <3>1. doc[e] \in DocumentRow
      BY DEF StorageTypeOK
    <3>2. doc'[e] = IF e \in sweep.docs THEN [doc[e] EXCEPT !.st = "failed", !.since = Never] ELSE doc[e]
      BY <2>1
    <3>3. QED
      BY <3>1, <3>2 DEF DocumentRow, SameDates
  <2>4. doc' \in [Docs -> DocumentRow]
    BY <2>1, <2>3
  <2>5. StorageTypeOK'
    BY <1>1, <2>2, <2>4 DEF StorageTypeOK
  <2>6. QED
    BY <1>1, <1>2, <1>3, <2>2, <2>3, <2>5
<1>4. CASE ~(\A e \in sweep.docs : InTable(e))
  <2>1. doc' = doc /\ sweep' = [pc |-> "idle", docs |-> {}]
    BY <1>4 DEF CommitSweep
  <2>2. StorageTypeOK'
    BY <1>1, <2>1 DEF StorageTypeOK
  <2>3. QED
    BY <1>1, <2>1, <2>2
<1>5. QED
  BY <1>3, <1>4

\* What the purge takes: all, what was deleted alone, or nothing.
Gone == IF purge.failed THEN {} ELSE IF purge.tender THEN Docs ELSE purge.alone

LEMMA CommitPurgeRows ==
    ASSUME StorageTypeOK, CommitPurge
    PROVE  /\ StorageTypeOK' /\ Gone \subseteq Docs
           /\ purge.pc = "objects" /\ purge.todo = {} /\ purge'.pc = "idle"
           /\ \A e \in Docs : ~Locked(e)
           /\ UNCHANGED <<now, closedAt, used, object, signed, upload, sweep>>
           /\ IF purge.tender /\ ~purge.failed THEN tenderRow'.st = "purged" /\ Gone = Docs
              ELSE tenderRow' = tenderRow
           /\ \A e \in Docs :
                /\ e \in Gone /\ InTable(e) => doc'[e].st = "purged" /\ doc'[e].deletedAt = Never /\ ~doc'[e].withTender
                /\ ~(e \in Gone /\ InTable(e)) => doc'[e] = doc[e]
                /\ marks'[e] = IF e \in Gone THEN marks[e] \cap Lasting ELSE marks[e]
<1>1. /\ purge.pc = "objects" /\ purge.todo = {} /\ purge' = [pc |-> "idle"]
      /\ \A e \in Docs : ~Locked(e)
      /\ UNCHANGED <<now, closedAt, used, object, signed, upload, sweep>>
      /\ tenderRow' = IF purge.tender /\ ~purge.failed THEN [st |-> "purged", at |-> Never] ELSE tenderRow
      /\ marks' = [e \in Docs |-> IF e \in Gone THEN marks[e] \cap Lasting ELSE marks[e]]
      /\ doc' = [e \in Docs |-> IF e \in Gone /\ InTable(e) THEN [NoDocumentRow EXCEPT !.st = "purged"] ELSE doc[e]]
  BY DEF CommitPurge, Gone, Blocked
<1>2. Gone \subseteq Docs /\ (purge.tender /\ ~purge.failed => Gone = Docs)
  BY <1>1 DEF StorageTypeOK, Gone
<1>3. ASSUME NEW e \in Docs
      PROVE  /\ doc'[e] \in DocumentRow
             /\ e \in Gone /\ InTable(e) => doc'[e].st = "purged" /\ doc'[e].deletedAt = Never /\ ~doc'[e].withTender
             /\ ~(e \in Gone /\ InTable(e)) => doc'[e] = doc[e]
  <2>1. doc[e] \in DocumentRow
    BY DEF StorageTypeOK
  <2>2. doc'[e] = IF e \in Gone /\ InTable(e) THEN [NoDocumentRow EXCEPT !.st = "purged"] ELSE doc[e]
    BY <1>1
  <2> DEFINE row == [NoDocumentRow EXCEPT !.st = "purged"]
  <2>3. row \in DocumentRow /\ row.st = "purged" /\ row.deletedAt = Never /\ row.withTender = FALSE
    BY NoRowType DEF DocumentRow
  <2>4. doc'[e] = IF e \in Gone /\ InTable(e) THEN row ELSE doc[e]
    BY <2>2
  <2> HIDE DEF row
  <2>5. QED
    BY <2>1, <2>3, <2>4
<1>4. doc' \in [Docs -> DocumentRow]
  BY <1>1, <1>3
<1>5. marks' \in [Docs -> SUBSET Marks]
  BY <1>1 DEF StorageTypeOK, Marks
<1>6. StorageTypeOK'
  BY <1>1, <1>4, <1>5 DEF StorageTypeOK, Marks
<1>7. QED
  BY <1>1, <1>2, <1>3, <1>6

-----------------------------------------------------------------------------
\* The first layer, step by step.
LEMMA CreateHidden ==
    ASSUME HiddenIInv, NEW d \in Docs, NEW declared \in Sizes \cup {0}, CreateDocument(d, declared)
    PROVE  HiddenIInv'
<1> USE DEF HiddenIInv
<1>1. /\ StorageTypeOK' /\ doc[d].st = "none"
      /\ doc'[d].st = "pending" /\ doc'[d].deletedAt = Never /\ doc'[d].withTender = FALSE
      /\ marks'[d] \subseteq {"raced", "pastWindow"}
      /\ tenderRow.st = "deleted" => "raced" \in marks'[d]
      /\ \A e \in Docs \ {d} : doc'[e] = doc[e] /\ marks'[e] = marks[e]
  BY CreateRows
<1>2. /\ UNCHANGED <<now, tenderRow, closedAt, upload>>
      /\ tenderRow.st # "purged"
  BY DEF CreateDocument
<1>3. \A e \in Docs : Shown(e)' <=> Shown(e) \/ e = d
  BY <1>1 DEF Shown, InTable
<1>4. \A e \in Docs : Locked(e)' <=> Locked(e)
  BY <1>2 DEF Locked
<1>5. LockedShown'
  BY <1>1, <1>3, <1>4 DEF LockedShown
<1>6. AloneHidden'
  BY <1>1 DEF AloneHidden
<1>7. DeletedStaysHidden'
  BY <1>1, <1>2, <1>3 DEF DeletedStaysHidden
<1>8. DeletionPast' /\ WentWithTender' /\ PurgedEmpty'
  BY <1>1, <1>2 DEF DeletionPast, WentWithTender, PurgedEmpty, InTable
<1>9. QED
  BY <1>1, <1>5, <1>6, <1>7, <1>8

LEMMA AcceptHidden == ASSUME HiddenIInv, NEW d \in Docs, AcceptUpload(d) PROVE HiddenIInv'
<1> USE DEF HiddenIInv
<1>1. /\ StorageTypeOK' /\ ~Locked(d)'
      /\ doc'[d].st = "uploaded" /\ SameDates(d)
      /\ marks'[d] \subseteq marks[d] \cup {"accepted", "late"} /\ marks[d] \subseteq marks'[d]
      /\ \A e \in Docs \ {d} :
           /\ doc'[e] = doc[e] /\ upload'[e] = upload[e]
           /\ marks[e] \subseteq marks'[e] /\ marks'[e] \subseteq marks[e] \cup {"overlapped"}
  BY AcceptRows
<1>2. UNCHANGED <<now, tenderRow, closedAt>> /\ Locked(d)
  BY UploadKinds DEF AcceptUpload
<1>3. InTable(d) /\ Shown(d)
  BY <1>2 DEF LockedShown, Shown
<1>4. \A e \in Docs : /\ Shown(e)' <=> Shown(e)
                      /\ InTable(e)' <=> InTable(e)
                      /\ SameDates(e)
  BY <1>1, <1>3 DEF Shown, InTable, SameDates
<1>5. LockedShown'
  BY <1>1, <1>4 DEF LockedShown, Locked
<1>6. AloneHidden' /\ DeletedStaysHidden'
  <2>1. \A e \in Docs : marks[e] \subseteq marks'[e] /\ ("deletedAlone" \in marks'[e] => "deletedAlone" \in marks[e])
    BY <1>1
  <2>2. QED
    BY <2>1, <1>2, <1>4 DEF AloneHidden, DeletedStaysHidden, SameDates
<1>7. DeletionPast' /\ WentWithTender' /\ PurgedEmpty'
  BY <1>2, <1>4 DEF DeletionPast, WentWithTender, PurgedEmpty, SameDates
<1>8. QED
  BY <1>1, <1>5, <1>6, <1>7

LEMMA RejectHidden == ASSUME HiddenIInv, NEW d \in Docs, CommitReject(d) PROVE HiddenIInv'
<1> USE DEF HiddenIInv
<1>1. /\ StorageTypeOK' /\ Locked(d) /\ ~Locked(d)'
      /\ doc'[d] = doc[d] \/ doc'[d].st = "failed"
      /\ SameDates(d)
      /\ \A e \in Docs \ {d} : doc'[e] = doc[e] /\ upload'[e] = upload[e]
  BY RejectRows
<1>2. UNCHANGED <<now, tenderRow, closedAt, marks>>
  BY DEF CommitReject
<1>3. InTable(d) /\ Shown(d)
  BY <1>1 DEF LockedShown, Shown
<1>4. \A e \in Docs : /\ Shown(e)' <=> Shown(e)
                      /\ InTable(e)' <=> InTable(e)
                      /\ SameDates(e)
  BY <1>1, <1>3 DEF Shown, InTable, SameDates
<1>5. LockedShown'
  BY <1>1, <1>4 DEF LockedShown, Locked
<1>6. AloneHidden' /\ DeletedStaysHidden'
  BY <1>2, <1>4 DEF AloneHidden, DeletedStaysHidden, SameDates
<1>7. DeletionPast' /\ WentWithTender' /\ PurgedEmpty'
  BY <1>2, <1>4 DEF DeletionPast, WentWithTender, PurgedEmpty, SameDates
<1>8. QED
  BY <1>1, <1>5, <1>6, <1>7

LEMMA CommitSweepHidden == ASSUME HiddenIInv, CommitSweep PROVE HiddenIInv'
<1> USE DEF HiddenIInv
<1>1. /\ StorageTypeOK'
      /\ \A e \in sweep.docs : ~Locked(e)
      /\ UNCHANGED <<now, tenderRow, closedAt, upload, marks>>
      /\ \A e \in Docs : \/ doc'[e] = doc[e]
                         \/ e \in sweep.docs /\ InTable(e) /\ doc'[e].st = "failed" /\ SameDates(e)
  BY CommitSweepRows
<1>2. \A e \in Docs : /\ Shown(e)' <=> Shown(e)
                      /\ InTable(e)' <=> InTable(e)
                      /\ SameDates(e)
  BY <1>1 DEF Shown, InTable, SameDates
<1>3. LockedShown'
  <2> SUFFICES ASSUME NEW e \in Docs, Locked(e)' PROVE Shown(e)' /\ doc'[e].st = "pending"
    BY DEF LockedShown
  <2>1. Locked(e)
    BY <1>1 DEF Locked
  <2>2. doc'[e] = doc[e]
    BY <1>1, <2>1
  <2>3. QED
    BY <1>2, <2>1, <2>2 DEF LockedShown
<1>4. AloneHidden' /\ DeletedStaysHidden'
  BY <1>1, <1>2 DEF AloneHidden, DeletedStaysHidden, SameDates
<1>5. DeletionPast' /\ WentWithTender' /\ PurgedEmpty'
  BY <1>1, <1>2 DEF DeletionPast, WentWithTender, PurgedEmpty, SameDates
<1>6. QED
  BY <1>1, <1>3, <1>4, <1>5

LEMMA HideDocumentHidden == ASSUME HiddenIInv, NEW d \in Docs, HideDocument(d) PROVE HiddenIInv'
<1> USE DEF HiddenIInv
<1>1. /\ StorageTypeOK'
      /\ doc'[d].st = doc[d].st /\ doc'[d].deletedAt = now /\ doc'[d].withTender = doc[d].withTender
      /\ doc[d].withTender => marks'[d] = marks[d]
      /\ \A e \in Docs \ {d} : doc'[e] = doc[e] /\ marks'[e] = marks[e]
  BY HideDocumentRows
<1>2. UNCHANGED <<now, tenderRow, closedAt, upload>> /\ ~Locked(d)
  BY DEF HideDocument
<1>3. now \in Nat /\ now # Never /\ doc[d].withTender \in BOOLEAN
  BY DocumentRowFields DEF StorageTypeOK
<1>4. \A e \in Docs : /\ Shown(e)' => Shown(e) /\ e # d
                      /\ InTable(e)' <=> InTable(e)
  BY <1>1, <1>3 DEF Shown, InTable
<1>5. LockedShown'
  BY <1>1, <1>2 DEF LockedShown, Locked, Shown, InTable
<1>6. AloneHidden'
  BY <1>1, <1>3 DEF AloneHidden
<1>7. DeletedStaysHidden'
  BY <1>1, <1>2, <1>4 DEF DeletedStaysHidden
<1>8. DeletionPast' /\ WentWithTender' /\ PurgedEmpty'
  BY <1>1, <1>2, <1>3, <1>4 DEF DeletionPast, WentWithTender, PurgedEmpty
<1>9. QED
  BY <1>1, <1>5, <1>6, <1>7, <1>8

\* Deleting the tender, or closing the organization, hides all that was shown.
LEMMA WithTenderHidden ==
    ASSUME HiddenIInv, HideTender \/ CloseOrganization
    PROVE  HiddenIInv'
<1> USE DEF HiddenIInv
<1>1. /\ doc' = WithTender /\ \A d \in Docs : ~Locked(d)
      /\ UNCHANGED <<now, used, object, signed, upload, sweep, purge, marks>>
      /\ tenderRow' = IF tenderRow.st = "live" THEN [st |-> "deleted", at |-> now] ELSE tenderRow
      /\ closedAt' \in {closedAt, now}
  BY DEF HideTender, CloseOrganization
<1>2. now \in Nat /\ now # Never /\ tenderRow.st \in {"live", "deleted", "purged"}
  BY DEF StorageTypeOK
<1>3. StorageTypeOK'
  <2>1. tenderRow' \in [st : {"live", "deleted", "purged"}, at : Stamp] /\ closedAt' \in Stamp
    BY <1>1 DEF StorageTypeOK
  <2>2. QED
    BY <1>1, <2>1, WithTenderType
<1>4. \A e \in Docs : /\ doc'[e].st = doc[e].st
                      /\ Shown(e) => doc'[e].deletedAt = now /\ doc'[e].withTender
                      /\ ~Shown(e) => doc'[e] = doc[e]
  BY <1>1, WithTenderRows
<1>5. \A e \in Docs : /\ ~Shown(e)'
                      /\ InTable(e)' <=> InTable(e)
  BY <1>2, <1>4 DEF Shown, InTable
<1>6. LockedShown'
  BY <1>1 DEF LockedShown, Locked
<1>7. AloneHidden'
  <2>1. \A e \in Docs : Shown(e) => "deletedAlone" \notin marks[e]
    BY DEF AloneHidden, Shown
  <2>2. QED
    BY <1>1, <1>4, <2>1 DEF AloneHidden
<1>8. DeletedStaysHidden'
  BY <1>5 DEF DeletedStaysHidden
<1>9. tenderRow.st \in {"live", "deleted"} => tenderRow'.st = "deleted" /\ tenderRow'.at # Never /\ tenderRow'.at <= now
  BY <1>1, <1>2 DEF DeletionPast
<1>10. WentWithTender'
  <2> SUFFICES ASSUME NEW e \in Docs, InTable(e), doc'[e].withTender
               PROVE  /\ tenderRow'.st = "deleted"
                      /\ doc'[e].deletedAt # Never /\ tenderRow'.at <= doc'[e].deletedAt
    BY <1>5 DEF WentWithTender
  <2>1. tenderRow.st # "purged"
    BY DEF PurgedEmpty
  <2>2. CASE Shown(e)
    BY <2>1, <2>2, <1>2, <1>4, <1>9
  <2>3. CASE ~Shown(e)
    <3>1. tenderRow.st = "deleted" /\ doc[e].deletedAt # Never /\ tenderRow.at <= doc[e].deletedAt
      BY <2>3, <1>4 DEF WentWithTender
    <3>2. QED
      BY <3>1, <2>3, <1>1, <1>4
  <2>4. QED
    BY <2>2, <2>3
<1>11. DeletionPast' /\ PurgedEmpty'
  BY <1>1, <1>2, <1>5, <1>9 DEF DeletionPast, PurgedEmpty
<1>12. QED
  BY <1>3, <1>6, <1>7, <1>8, <1>10, <1>11

LEMMA BringBackHidden == ASSUME HiddenIInv, BringBackTender PROVE HiddenIInv'
<1> USE DEF HiddenIInv
<1>1. /\ StorageTypeOK' /\ tenderRow'.st = "live"
      /\ \A e \in Docs :
           /\ doc'[e].st = doc[e].st
           /\ Reopened(e) => doc'[e].deletedAt = Never /\ ~doc'[e].withTender
           /\ ~Reopened(e) => doc'[e] = doc[e]
           /\ marks'[e] \subseteq marks[e] \cup {"restored", "pastWindow"}
  BY BringBackRows
<1>2. UNCHANGED upload /\ \A d \in Docs : ~Locked(d)
  BY DEF BringBackTender
<1>3. \A e \in Docs : InTable(e)' <=> InTable(e)
  BY <1>1 DEF InTable
<1>4. \A e \in Docs : "deletedAlone" \in marks'[e] =>
         /\ "deletedAlone" \in marks[e] /\ ~Reopened(e) /\ doc'[e] = doc[e]
  BY <1>1 DEF AloneHidden, Reopened
<1>5. LockedShown'
  BY <1>2 DEF LockedShown, Locked
<1>6. AloneHidden'
  BY <1>4 DEF AloneHidden
<1>7. DeletedStaysHidden'
  BY <1>1, <1>4 DEF DeletedStaysHidden, AloneHidden, Shown
<1>8. \A e \in Docs : InTable(e)' => ~doc'[e].withTender
  BY <1>1, <1>3 DEF Reopened
<1>9. DeletionPast' /\ WentWithTender' /\ PurgedEmpty'
  BY <1>1, <1>8 DEF DeletionPast, WentWithTender, PurgedEmpty
<1>10. QED
  BY <1>1, <1>5, <1>6, <1>7, <1>9

LEMMA CommitPurgeHidden == ASSUME HiddenIInv, CommitPurge PROVE HiddenIInv'
<1> USE DEF HiddenIInv
<1>1. /\ StorageTypeOK'
      /\ UNCHANGED <<now, closedAt, upload>> /\ \A e \in Docs : ~Locked(e)
      /\ IF purge.tender /\ ~purge.failed THEN tenderRow'.st = "purged" /\ Gone = Docs
         ELSE tenderRow' = tenderRow
      /\ \A e \in Docs :
           /\ e \in Gone /\ InTable(e) => doc'[e].st = "purged" /\ ~doc'[e].withTender
           /\ ~(e \in Gone /\ InTable(e)) => doc'[e] = doc[e]
           /\ marks'[e] = IF e \in Gone THEN marks[e] \cap Lasting ELSE marks[e]
  BY CommitPurgeRows
<1>2. \A e \in Docs : InTable(e)' => InTable(e) /\ e \notin Gone /\ doc'[e] = doc[e] /\ marks'[e] = marks[e]
  BY <1>1 DEF InTable
<1>3. LockedShown'
  BY <1>1 DEF LockedShown, Locked
<1>4. AloneHidden'
  <2> SUFFICES ASSUME NEW e \in Docs, "deletedAlone" \in marks'[e]
               PROVE  doc'[e].deletedAt # Never /\ ~doc'[e].withTender
    BY DEF AloneHidden
  <2>1. e \notin Gone
    <3>1. "deletedAlone" \notin Lasting
      BY DEF Lasting
    <3>2. marks'[e] = IF e \in Gone THEN marks[e] \cap Lasting ELSE marks[e]
      BY <1>1
    <3>3. QED
      BY <3>1, <3>2
  <2>2. marks'[e] = marks[e] /\ doc'[e] = doc[e]
    BY <1>1, <2>1
  <2>3. QED
    BY <2>2 DEF AloneHidden
<1>5. \A e \in Docs : InTable(e)' => tenderRow' = tenderRow
  BY <1>1, <1>2
<1>6. DeletedStaysHidden'
  BY <1>2, <1>5 DEF DeletedStaysHidden, Shown
<1>7. DeletionPast'
  BY <1>1 DEF DeletionPast
<1>8. WentWithTender' /\ PurgedEmpty'
  BY <1>2, <1>5 DEF WentWithTender, PurgedEmpty
<1>9. QED
  BY <1>1, <1>3, <1>4, <1>6, <1>7, <1>8

LEMMA TickHidden == ASSUME HiddenIInv, StorageTick PROVE HiddenIInv'
<1> USE DEF HiddenIInv, StorageTick, tables
<1>1. now \in Nat /\ now' \in Time /\ now <= now'
  BY DEF StorageTypeOK
<1>2. tenderRow.at \in Int
  BY DEF StorageTypeOK
<1>3. StorageTypeOK'
  BY <1>1 DEF StorageTypeOK
<1>4. LockedShown' /\ AloneHidden' /\ DeletedStaysHidden' /\ WentWithTender' /\ PurgedEmpty'
  BY DEF LockedShown, Locked, AloneHidden, DeletedStaysHidden, WentWithTender, PurgedEmpty, Shown, InTable
<1>5. DeletionPast'
  BY <1>1, <1>2 DEF DeletionPast
<1>6. QED
  BY <1>3, <1>4, <1>5

LEMMA InitHidden == StorageInit => HiddenIInv
<1> SUFFICES ASSUME StorageInit PROVE HiddenIInv
  OBVIOUS
<1>1. \A d \in Docs : doc[d] = NoDocumentRow /\ marks[d] = {} /\ upload[d] = NoRequest
  BY DEF StorageInit
<1>2. StorageTypeOK
  BY NoRowType DEF StorageInit, StorageTypeOK
<1>3. \A d \in Docs : ~InTable(d) /\ ~Locked(d)
  BY <1>1, NoRowType DEF InTable, Locked
<1>4. tenderRow.st = "live"
  BY DEF StorageInit
<1>5. QED
  BY <1>1, <1>2, <1>3, <1>4
     DEF HiddenIInv, LockedShown, AloneHidden, DeletedStaysHidden, DeletionPast, WentWithTender, PurgedEmpty, Shown

LEMMA NextHidden == ASSUME HiddenIInv, [StorageNext]_storageVars PROVE HiddenIInv'
<1>1. CASE UNCHANGED storageVars
  <2>1. StorageTypeOK'
    BY <1>1 DEF storageVars, HiddenIInv, StorageTypeOK
  <2>2. QED
    BY <1>1, <2>1, RowsUntouched DEF storageVars, tables, Locked
<1>2. ASSUME NEW d \in Docs,
             \/ \E declared \in Sizes \cup {0} : CreateDocument(d, declared)
             \/ RepeatCreate(d) \/ HideDocument(d)
             \/ \E size \in Sizes : Put(d, size)
             \/ CheckUpload(d) \/ AcceptUpload(d) \/ RejectUpload(d) \/ CommitReject(d)
             \/ SweepObject(d) \/ PurgeObject(d) \/ PurgeObjectFails(d)
      PROVE  HiddenIInv'
  BY <1>2, CreateHidden, RepeatCreateHidden, HideDocumentHidden, PutHidden, CheckUploadHidden, AcceptHidden,
     RejectUploadHidden, RejectHidden, SweepHidden, PurgeHidden
<1>3. CASE HideTender \/ BringBackTender \/ CloseOrganization
  BY <1>3, WithTenderHidden, BringBackHidden
<1>4. CASE BeginSweep \/ CommitSweep \/ SweepCrash
  BY <1>4, SweepHidden, CommitSweepHidden
<1>5. CASE BeginPurge \/ CommitPurge \/ PurgeCrash
  BY <1>5, PurgeHidden, CommitPurgeHidden
<1>6. CASE StorageTick
  BY <1>6, TickHidden
<1>7. QED
  BY <1>1, <1>2, <1>3, <1>4, <1>5, <1>6 DEF StorageNext

\* Which rows are hidden, and by which deletion, is known at every moment.
THEOREM HiddenInvariance == StorageSpec => []HiddenIInv
<1>1. HiddenIInv /\ [StorageNext]_storageVars => HiddenIInv'
  BY NextHidden
<1>2. QED
  BY <1>1, InitHidden, PTL DEF StorageSpec

\* Every variable keeps its type, through every interleaving of requests, sweep and purge.
THEOREM StorageTypeCorrect == StorageSpec => []StorageTypeOK
<1>1. HiddenIInv => StorageTypeOK
  BY DEF HiddenIInv
<1>2. QED
  BY <1>1, HiddenInvariance, PTL

\* What was deleted stays hidden: the default read filter never shows a document that the
\* user deleted, through every deletion and restore of its tender.
THEOREM DeletedHidden == StorageSpec => []DeletedStaysHidden
<1>1. HiddenIInv => DeletedStaysHidden
  BY DEF HiddenIInv
<1>2. QED
  BY <1>1, HiddenInvariance, PTL

-----------------------------------------------------------------------------
\* The second layer.  What the sweep knows of a row survives every step that leaves the
\* state of the row alone: time only goes on.
SameSweepFacts ==
    /\ sweep' = sweep
    /\ \A e \in Docs : /\ doc'[e].st = doc[e].st /\ doc'[e].since = doc[e].since
                       /\ "accepted" \in marks'[e] => "accepted" \in marks[e]
                       /\ "late" \in marks[e] => "late" \in marks'[e]

LEMMA Aging ==
    ASSUME HiddenIInv, NEW e \in Docs, doc'[e].since = doc[e].since, now' \in Nat, now <= now', ~Fresh(e)
    PROVE  ~Fresh(e)'
<1>1. doc[e].since \in Int /\ now \in Int
  BY DocumentRowFields DEF HiddenIInv, StorageTypeOK
<1>2. QED
  BY <1>1 DEF Fresh

LEMMA SweepKept ==
    ASSUME HiddenIInv, SweepIInv, SameSweepFacts, now' \in Nat, now <= now'
    PROVE  SweepIInv'
<1>1. AcceptedNotPending'
  BY DEF SweepIInv, AcceptedNotPending, SameSweepFacts
<1>2. SweepSound'
  <2>1. sweep.docs \subseteq Docs
    BY DEF HiddenIInv, StorageTypeOK
  <2>2. \A e \in Docs : ~Fresh(e) => ~Fresh(e)'
    BY Aging DEF SameSweepFacts
  <2>3. QED
    BY <2>1, <2>2 DEF SweepIInv, SweepSound, SameSweepFacts
<1>3. AcceptedStays'
  BY DEF SweepIInv, AcceptedStays, SameSweepFacts
<1>4. QED
  BY <1>1, <1>2, <1>3 DEF SweepIInv

\* The steps that do not touch the state of a row.
LEMMA RequestSweep ==
    ASSUME HiddenIInv, SweepIInv, NEW d \in Docs,
           \/ RepeatCreate(d) \/ HideDocument(d) \/ CheckUpload(d) \/ RejectUpload(d)
           \/ PurgeObject(d) \/ PurgeObjectFails(d)
           \/ \E size \in Sizes : Put(d, size)
    PROVE  SweepIInv'
<1>1. now \in Nat /\ StorageTypeOK
  BY DEF HiddenIInv, StorageTypeOK
<1>2. CASE HideDocument(d)
  <2>1. \A e \in Docs : /\ doc'[e].st = doc[e].st /\ doc'[e].since = doc[e].since
                        /\ "accepted" \in marks'[e] => "accepted" \in marks[e]
                        /\ "late" \in marks[e] => "late" \in marks'[e]
    BY <1>1, <1>2, HideDocumentRows DEF Lasting
  <2>2. now' = now /\ sweep' = sweep
    BY <1>2 DEF HideDocument
  <2>3. QED
    BY <1>1, <2>1, <2>2, SweepKept DEF SameSweepFacts
<1>3. CASE \/ RepeatCreate(d) \/ CheckUpload(d) \/ RejectUpload(d) \/ PurgeObject(d) \/ PurgeObjectFails(d)
           \/ \E size \in Sizes : Put(d, size)
  <2>1. UNCHANGED <<tables, now, sweep, marks>>
    BY <1>3 DEF RepeatCreate, CheckUpload, RejectUpload, PurgeObject, PurgeObjectFails, Put
  <2>2. QED
    BY <1>1, <2>1, SweepKept DEF SameSweepFacts, tables
<1>4. QED
  BY <1>2, <1>3

LEMMA TenantSweep ==
    ASSUME HiddenIInv, SweepIInv,
           \/ HideTender \/ BringBackTender \/ CloseOrganization
           \/ BeginPurge \/ PurgeCrash \/ StorageTick \/ UNCHANGED storageVars
    PROVE  SweepIInv'
<1>1. now \in Nat /\ StorageTypeOK
  BY DEF HiddenIInv, StorageTypeOK
<1>2. CASE HideTender \/ CloseOrganization
  <2>1. doc' = WithTender /\ UNCHANGED <<now, sweep, marks>>
    BY <1>2 DEF HideTender, CloseOrganization
  <2>2. QED
    BY <1>1, <2>1, WithTenderRows, SweepKept DEF SameSweepFacts
<1>3. CASE BringBackTender
  <2>1. \A e \in Docs : /\ doc'[e].st = doc[e].st /\ doc'[e].since = doc[e].since
                        /\ "accepted" \in marks'[e] => "accepted" \in marks[e]
                        /\ "late" \in marks[e] => "late" \in marks'[e]
    BY <1>1, <1>3, BringBackRows
  <2>2. now' = now /\ sweep' = sweep
    BY <1>3 DEF BringBackTender
  <2>3. QED
    BY <1>1, <2>1, <2>2, SweepKept DEF SameSweepFacts
<1>4. CASE BeginPurge \/ PurgeCrash \/ UNCHANGED storageVars
  <2>1. UNCHANGED <<tables, now, sweep, marks>>
    BY <1>4 DEF BeginPurge, PurgeCrash, storageVars, tables
  <2>2. QED
    BY <1>1, <2>1, SweepKept DEF SameSweepFacts, tables
<1>5. CASE StorageTick
  <2>1. UNCHANGED <<tables, sweep, marks>> /\ now' \in Nat /\ now <= now'
    BY <1>1, <1>5 DEF StorageTick
  <2>2. QED
    BY <2>1, SweepKept DEF SameSweepFacts, tables
<1>6. QED
  BY <1>2, <1>3, <1>4, <1>5

\* A new document was never in reach of the sweep.
LEMMA CreateSweep ==
    ASSUME HiddenIInv, SweepIInv, NEW d \in Docs, NEW declared \in Sizes \cup {0}, CreateDocument(d, declared)
    PROVE  SweepIInv'
<1> USE DEF SweepIInv
<1>1. /\ doc[d].st = "none" /\ doc'[d].st = "pending" /\ marks'[d] \subseteq {"raced", "pastWindow"}
      /\ \A e \in Docs \ {d} : doc'[e] = doc[e] /\ marks'[e] = marks[e]
  BY CreateRows DEF HiddenIInv
<1>2. sweep' = sweep /\ now' = now /\ sweep.docs \subseteq Docs
  BY DEF CreateDocument, HiddenIInv, StorageTypeOK
<1>3. AcceptedNotPending' /\ AcceptedStays'
  BY <1>1 DEF AcceptedNotPending, AcceptedStays
<1>4. sweep.pc \in {"selected", "deleting"} => d \notin sweep.docs
  BY <1>1 DEF SweepSound
<1>5. SweepSound'
  BY <1>1, <1>2, <1>4 DEF SweepSound, Fresh
<1>6. QED
  BY <1>3, <1>5

\* An upload accepted while the sweep holds it was late.
LEMMA AcceptSweep == ASSUME HiddenIInv, SweepIInv, NEW d \in Docs, AcceptUpload(d) PROVE SweepIInv'
<1> USE DEF SweepIInv
<1>1. /\ doc'[d].st = "uploaded" /\ (~Fresh(d) => "late" \in marks'[d])
      /\ \A e \in Docs \ {d} : /\ doc'[e] = doc[e]
                               /\ "accepted" \in marks'[e] => "accepted" \in marks[e]
                               /\ "late" \in marks[e] => "late" \in marks'[e]
  BY AcceptRows DEF HiddenIInv
<1>2. sweep' = sweep /\ now' = now /\ sweep.docs \subseteq Docs /\ Locked(d)
  BY UploadKinds DEF AcceptUpload, HiddenIInv, StorageTypeOK
<1>3. doc[d].st = "pending"
  BY <1>2 DEF HiddenIInv, LockedShown
<1>4. AcceptedNotPending' /\ AcceptedStays'
  BY <1>1 DEF AcceptedNotPending, AcceptedStays
<1>5. SweepSound'
  BY <1>1, <1>2, <1>3 DEF SweepSound, Fresh
<1>6. QED
  BY <1>4, <1>5

LEMMA RejectSweep == ASSUME HiddenIInv, SweepIInv, NEW d \in Docs, CommitReject(d) PROVE SweepIInv'
<1> USE DEF SweepIInv
<1>1. /\ Locked(d) /\ (doc'[d] = doc[d] \/ doc'[d].st = "failed")
      /\ \A e \in Docs \ {d} : doc'[e] = doc[e]
  BY RejectRows DEF HiddenIInv
<1>2. UNCHANGED <<sweep, now, marks>> /\ sweep.docs \subseteq Docs
  BY DEF CommitReject, HiddenIInv, StorageTypeOK
<1>3. doc[d].st = "pending" /\ "accepted" \notin marks[d]
  BY <1>1 DEF HiddenIInv, LockedShown, AcceptedNotPending
<1>4. AcceptedNotPending' /\ AcceptedStays'
  BY <1>1, <1>2, <1>3 DEF AcceptedNotPending, AcceptedStays
<1>5. SweepSound'
  BY <1>1, <1>2, <1>3 DEF SweepSound, Fresh
<1>6. QED
  BY <1>4, <1>5

\* The steps of the sweep itself.
LEMMA SweepSweep ==
    ASSUME HiddenIInv, SweepIInv,
           BeginSweep \/ CommitSweep \/ SweepCrash \/ \E d \in Docs : SweepObject(d)
    PROVE  SweepIInv'
<1> USE DEF SweepIInv
<1>1. CASE BeginSweep
  <2>1. /\ UNCHANGED <<tables, now, marks>> /\ sweep'.pc = "selected"
        /\ sweep'.docs = {d \in Docs : Shown(d) /\ doc[d].st = "pending" /\ ~Fresh(d)}
    BY <1>1 DEF BeginSweep
  <2>2. \A d \in Docs : doc[d].st = "pending" => "accepted" \notin marks[d]
    BY DEF AcceptedNotPending
  <2>3. AcceptedNotPending' /\ AcceptedStays'
    BY <2>1 DEF AcceptedNotPending, AcceptedStays, tables
  <2>4. SweepSound'
    BY <2>1, <2>2 DEF SweepSound, tables, Fresh
  <2>5. QED
    BY <2>3, <2>4
<1>2. CASE CommitSweep
  <2>1. /\ UNCHANGED <<now, marks>> /\ sweep.pc = "selected" /\ sweep.docs \subseteq Docs
        /\ \/ /\ \A e \in sweep.docs : doc'[e].st = "failed"
              /\ \A e \in Docs \ sweep.docs : doc'[e] = doc[e]
              /\ sweep'.pc = "deleting" /\ sweep'.docs = sweep.docs
           \/ doc' = doc /\ sweep'.pc = "idle"
    BY <1>2, CommitSweepRows DEF HiddenIInv, StorageTypeOK
  <2>2. \A e \in sweep.docs : "accepted" \in marks[e] => "late" \in marks[e]
    BY <2>1 DEF SweepSound
  <2>3. AcceptedNotPending' /\ AcceptedStays'
    BY <2>1, <2>2 DEF AcceptedNotPending, AcceptedStays
  <2>4. SweepSound'
    BY <2>1 DEF SweepSound
  <2>5. QED
    BY <2>3, <2>4
<1>3. CASE SweepCrash \/ \E d \in Docs : SweepObject(d)
  <2>1. /\ UNCHANGED <<tables, now, marks>>
        /\ sweep'.pc = "idle" \/ (sweep.pc = "deleting" /\ sweep'.pc = "deleting" /\ sweep'.docs \subseteq sweep.docs)
    BY <1>3 DEF SweepCrash, SweepObject, HiddenIInv, StorageTypeOK
  <2>2. AcceptedNotPending' /\ AcceptedStays'
    BY <2>1 DEF AcceptedNotPending, AcceptedStays, tables
  <2>3. SweepSound'
    BY <2>1 DEF SweepSound, tables
  <2>4. QED
    BY <2>2, <2>3
<1>4. QED
  BY <1>1, <1>2, <1>3

LEMMA CommitPurgeSweep == ASSUME HiddenIInv, SweepIInv, CommitPurge PROVE SweepIInv'
<1> USE DEF SweepIInv
<1>1. /\ UNCHANGED <<now, sweep>> /\ sweep.docs \subseteq Docs
      /\ \A e \in Docs : \/ doc'[e].st = "purged"
                         \/ doc'[e] = doc[e]
  BY CommitPurgeRows DEF HiddenIInv, StorageTypeOK
<1>2. \A e \in Docs : /\ "accepted" \in marks'[e] <=> "accepted" \in marks[e]
                      /\ "late" \in marks'[e] <=> "late" \in marks[e]
  <2>1. \A e \in Docs : marks'[e] = marks[e] \/ marks'[e] = marks[e] \cap Lasting
    BY CommitPurgeRows DEF HiddenIInv
  <2>2. "accepted" \in Lasting /\ "late" \in Lasting
    BY DEF Lasting
  <2>3. QED
    BY <2>1, <2>2
<1>3. AcceptedNotPending' /\ AcceptedStays'
  BY <1>1, <1>2 DEF AcceptedNotPending, AcceptedStays
<1>4. SweepSound'
  BY <1>1, <1>2 DEF SweepSound, Fresh
<1>5. QED
  BY <1>3, <1>4

LEMMA NextSweep ==
    ASSUME HiddenIInv, SweepIInv, [StorageNext]_storageVars
    PROVE  SweepIInv'
<1>1. CASE UNCHANGED storageVars
  BY <1>1, TenantSweep
<1>2. ASSUME NEW d \in Docs,
             \/ \E declared \in Sizes \cup {0} : CreateDocument(d, declared)
             \/ RepeatCreate(d) \/ HideDocument(d)
             \/ \E size \in Sizes : Put(d, size)
             \/ CheckUpload(d) \/ AcceptUpload(d) \/ RejectUpload(d) \/ CommitReject(d)
             \/ SweepObject(d) \/ PurgeObject(d) \/ PurgeObjectFails(d)
      PROVE  SweepIInv'
  BY <1>2, CreateSweep, RequestSweep, AcceptSweep, RejectSweep, SweepSweep
<1>3. CASE HideTender \/ BringBackTender \/ CloseOrganization \/ BeginPurge \/ PurgeCrash \/ StorageTick
  BY <1>3, TenantSweep
<1>4. CASE BeginSweep \/ CommitSweep \/ SweepCrash
  BY <1>4, SweepSweep
<1>5. CASE CommitPurge
  BY <1>5, CommitPurgeSweep
<1>6. QED
  BY <1>1, <1>2, <1>3, <1>4, <1>5 DEF StorageNext

LEMMA InitSweep == StorageInit => SweepIInv
<1> SUFFICES ASSUME StorageInit PROVE SweepIInv
  OBVIOUS
<1>1. sweep.pc = "idle" /\ \A d \in Docs : marks[d] = {}
  BY DEF StorageInit
<1>2. QED
  BY <1>1 DEF SweepIInv, AcceptedNotPending, SweepSound, AcceptedStays

\* The sweep of abandoned uploads fails no accepted upload that was completed in time.
THEOREM SweepSparesAccepted == StorageSpec => []AcceptedStays
<1>1. HiddenIInv /\ SweepIInv /\ [StorageNext]_storageVars => (HiddenIInv /\ SweepIInv)'
  BY NextHidden, NextSweep
<1>2. SweepIInv => AcceptedStays
  BY DEF SweepIInv
<1>3. QED
  BY <1>1, <1>2, InitHidden, InitSweep, PTL DEF StorageSpec

-----------------------------------------------------------------------------
\* The third layer.  Whoever needs the file of the document: a reader, or a completion.
Needed(e) == doc[e].st = "uploaded" \/ upload[e].op = "checked"

LEMMA Numbers ==
    ASSUME StorageTypeOK
    PROVE  /\ now \in Nat /\ Retention \in Nat /\ tenderRow.at \in Int /\ closedAt \in Int
           /\ \A e \in Docs : object[e] \in Nat /\ doc[e].deletedAt \in Int
<1>1. now \in Nat /\ tenderRow.at \in Int /\ closedAt \in Int
  BY DEF StorageTypeOK
<1>2. ASSUME NEW e \in Docs PROVE object[e] \in Nat /\ doc[e].deletedAt \in Int
  <2>1. object[e] \in {0} \cup Sizes /\ doc[e] \in DocumentRow
    BY DEF StorageTypeOK
  <2>2. doc[e].deletedAt \in Stamp
    BY <2>1, DocumentRowFields
  <2>3. doc[e].deletedAt \in Int
    BY <2>2
  <2>4. Sizes \subseteq Nat
    OBVIOUS
  <2>5. object[e] \in Nat
    <3>1. CASE object[e] = 0
      BY <3>1
    <3>2. CASE object[e] \in Sizes
      BY <3>2, <2>4
    <3>3. QED
      BY <2>1, <3>1, <3>2
  <2>6. QED
    BY <2>3, <2>5
<1>3. QED
  BY <1>1, <1>2

\* What a request can still reach is not bound to go.
LEMMA ReachableNotBound ==
    ASSUME StorageTypeOK, NEW e \in Docs, Reachable(e)
    PROVE  ~Bound(e)
BY Numbers DEF Reachable, Bound

\* A step under which nothing escapes: a document that was bound to go still is, or it is
\* marked; and an object goes only where nobody needs it.
LEMMA ObjectsKept ==
    ASSUME StorageTypeOK, ObjectsIInv, purge' = purge, signed' \subseteq signed,
           \A e \in Docs :
              /\ InTable(e)' <=> InTable(e)
              /\ doc'[e].st = "none" => doc[e].st = "none"
              /\ Marked(e) => Marked(e)'
              /\ InTable(e) /\ Bound(e) => Bound(e)' \/ Marked(e)'
              /\ e \in signed' /\ Reachable(e) => Reachable(e)'
              /\ Needed(e)' => Needed(e) \/ object[e] > 0
              /\ object'[e] = object[e] \/ (object'[e] = 0 /\ ~Needed(e)')
    PROVE  ObjectsIInv'
<1> USE DEF ObjectsIInv
<1>1. SignedReachable'
  BY DEF SignedReachable, StorageTypeOK
<1>2. PurgeSound'
  <2> SUFFICES ASSUME purge.pc = "objects" PROVE PurgeSound'
    BY DEF PurgeSound
  <2>1. purge.todo \cup purge.alone \subseteq Docs
    BY DEF StorageTypeOK
  <2>2. ASSUME NEW e \in purge.todo \cup purge.alone
        PROVE  doc'[e].st # "none" /\ (InTable(e)' => Target(e)')
    <3>1. e \in Docs /\ doc[e].st # "none" /\ (InTable(e) => Target(e))
      BY <2>1 DEF PurgeSound
    <3>2. QED
      BY <3>1 DEF Target
  <2>3. ASSUME NEW e \in Docs, Target(e)', ~Marked(e)'
        PROVE  e \notin signed' /\ Bound(e)' /\ (e \in purge'.todo \/ purge'.failed \/ object'[e] = 0)
    <3>1. Target(e) /\ ~Marked(e) /\ InTable(e)
      BY <2>3 DEF Target
    <3>2. e \notin signed /\ Bound(e) /\ (e \in purge.todo \/ purge.failed \/ object[e] = 0)
      BY <3>1 DEF PurgeSound
    <3>3. QED
      BY <2>3, <3>1, <3>2
  <2>4. QED
    BY <2>2, <2>3 DEF PurgeSound
<1>3. FilesBound'
  <2> SUFFICES ASSUME NEW e \in Docs, InTable(e)', Needed(e)', ~Marked(e)'
               PROVE  object'[e] > 0 \/ Bound(e)'
    BY DEF FilesBound, Needed
  <2>1. object'[e] = object[e] /\ ~Marked(e) /\ InTable(e)
    OBVIOUS
  <2>2. object[e] > 0 \/ Bound(e)
    BY <2>1 DEF FilesBound, Needed
  <2>3. QED
    BY <2>1, <2>2
<1>4. NoOrphanObject'
  <2> SUFFICES ASSUME NEW e \in Docs, object'[e] > 0 PROVE InTable(e)' \/ Marked(e)'
    BY DEF NoOrphanObject, Marked
  <2>1. object[e] > 0
    BY Numbers
  <2>2. QED
    BY <2>1 DEF NoOrphanObject, Marked
<1>5. QED
  BY <1>1, <1>2, <1>3, <1>4

\* The same, where rows and dates are left alone.
LEMMA ObjectsUntouched ==
    ASSUME StorageTypeOK, ObjectsIInv, UNCHANGED <<tables, now, signed, purge, marks>>,
           \A e \in Docs : /\ Needed(e)' => Needed(e) \/ object[e] > 0
                           /\ object'[e] = object[e] \/ (object'[e] = 0 /\ ~Needed(e)')
    PROVE  ObjectsIInv'
<1>1. \A e \in Docs : /\ InTable(e)' <=> InTable(e)
                      /\ Marked(e)' <=> Marked(e)
                      /\ Bound(e)' <=> Bound(e)
                      /\ Reachable(e)' <=> Reachable(e)
  BY DEF tables, InTable, Marked, Bound, Reachable
<1>2. QED
  BY <1>1, ObjectsKept DEF tables

LEMMA CheckUploadObjects ==
    ASSUME HiddenIInv, ObjectsIInv, NEW d \in Docs, CheckUpload(d)
    PROVE  ObjectsIInv'
<1>1. /\ UNCHANGED <<tables, now, object, signed, purge, marks>> /\ object[d] > 0
      /\ \A e \in Docs \ {d} : upload'[e] = upload[e]
  BY DEF CheckUpload, HiddenIInv, StorageTypeOK
<1>2. \A e \in Docs : Needed(e)' => Needed(e) \/ object[e] > 0
  BY <1>1 DEF Needed, tables
<1>3. QED
  BY <1>1, <1>2, ObjectsUntouched DEF HiddenIInv

LEMMA RejectUploadObjects ==
    ASSUME HiddenIInv, ObjectsIInv, NEW d \in Docs, RejectUpload(d)
    PROVE  ObjectsIInv'
<1>1. /\ UNCHANGED <<tables, now, signed, purge, marks>> /\ upload[d].op = "checked"
      /\ upload'[d].op # "checked"
      /\ \A e \in Docs \ {d} : upload'[e] = upload[e] /\ object'[e] = object[e]
      /\ object'[d] = object[d] \/ object'[d] = 0
  BY DEF RejectUpload, NoRequest, HiddenIInv, StorageTypeOK
<1>2. Locked(d)
  BY <1>1, UploadKinds DEF HiddenIInv
<1>3. doc[d].st = "pending"
  BY <1>2 DEF HiddenIInv, LockedShown
<1>4. \A e \in Docs : /\ Needed(e)' => Needed(e)
                      /\ object'[e] = object[e] \/ (object'[e] = 0 /\ ~Needed(e)')
  BY <1>1, <1>3 DEF Needed, tables
<1>5. QED
  BY <1>1, <1>4, ObjectsUntouched DEF HiddenIInv

\* The objects that the sweep deletes belong to rows that failed.
LEMMA SweepObjects ==
    ASSUME HiddenIInv, SweepIInv, ObjectsIInv,
           BeginSweep \/ SweepCrash \/ (\E d \in Docs : SweepObject(d)) \/ UNCHANGED storageVars
    PROVE  ObjectsIInv'
<1>1. CASE BeginSweep \/ SweepCrash \/ UNCHANGED storageVars
  <2>1. UNCHANGED <<tables, now, object, signed, upload, purge, marks>>
    BY <1>1 DEF BeginSweep, SweepCrash, storageVars, tables
  <2>2. \A e \in Docs : Needed(e)' <=> Needed(e)
    BY <2>1 DEF Needed, tables
  <2>3. QED
    BY <2>1, <2>2, ObjectsUntouched DEF HiddenIInv
<1>2. ASSUME NEW d \in Docs, SweepObject(d) PROVE ObjectsIInv'
  <2>1. /\ UNCHANGED <<tables, now, signed, upload, purge, marks>>
        /\ \A e \in Docs \ {d} : object'[e] = object[e]
        /\ object'[d] = object[d] \/ object'[d] = 0
        /\ sweep.pc = "deleting" /\ d \in sweep.docs
    BY <1>2 DEF SweepObject, HiddenIInv, StorageTypeOK
  <2>2. doc[d].st \in {"failed", "purged"}
    BY <2>1 DEF SweepIInv, SweepSound
  <2>3. ~Locked(d)
    BY <2>2 DEF HiddenIInv, LockedShown
  <2>4. ~Needed(d)
    BY <2>2, <2>3, UploadKinds DEF HiddenIInv, Needed
  <2>5. \A e \in Docs : Needed(e)' <=> Needed(e)
    BY <2>1 DEF Needed, tables
  <2>6. QED
    BY <2>1, <2>4, <2>5, ObjectsUntouched DEF HiddenIInv
<1>3. QED
  BY <1>1, <1>2

LEMMA PutObjects ==
    ASSUME HiddenIInv, ObjectsIInv, NEW d \in Docs, NEW size \in Sizes, Put(d, size)
    PROVE  ObjectsIInv'
<1> USE DEF ObjectsIInv
<1>1. /\ UNCHANGED <<tables, now, signed, upload, purge, marks>>
      /\ d \in signed /\ object'[d] > 0
      /\ \A e \in Docs \ {d} : object'[e] = object[e]
  BY DEF Put, HiddenIInv, StorageTypeOK
<1>2. \A e \in Docs : /\ InTable(e)' <=> InTable(e)
                      /\ Marked(e)' <=> Marked(e)
                      /\ Bound(e)' <=> Bound(e)
                      /\ Reachable(e)' <=> Reachable(e)
                      /\ Target(e)' <=> Target(e)
  BY <1>1 DEF tables, InTable, Marked, Bound, Reachable, Target
<1>3. signed' = signed /\ signed \subseteq Docs /\ purge' = purge /\ doc' = doc /\ upload' = upload
  BY <1>1 DEF HiddenIInv, StorageTypeOK, tables
<1>4. SignedReachable'
  BY <1>2, <1>3 DEF SignedReachable
<1>5. purge.pc = "objects" => purge.todo \cup purge.alone \subseteq Docs
  BY DEF HiddenIInv, StorageTypeOK
<1>6. PurgeSound'
  BY <1>1, <1>2, <1>3, <1>5 DEF PurgeSound
<1>7. FilesBound'
  BY <1>1, <1>2, <1>3 DEF FilesBound
<1>8. NoOrphanObject'
  <2>1. InTable(d) \/ Marked(d)
    BY <1>1, <1>3 DEF SignedReachable, Reachable
  <2>2. QED
    BY <1>1, <1>2, <2>1 DEF NoOrphanObject, Marked
<1>9. QED
  BY <1>4, <1>6, <1>7, <1>8

\* A URL is given for a document that nothing is about to take away.
LEMMA RepeatCreateObjects ==
    ASSUME HiddenIInv, ObjectsIInv, NEW d \in Docs, RepeatCreate(d)
    PROVE  ObjectsIInv'
<1> USE DEF ObjectsIInv
<1>1. /\ UNCHANGED <<tables, now, object, upload, purge, marks>> /\ signed' = signed \cup {d}
      /\ Authorized /\ tenderRow.st = "live" /\ Shown(d)
  BY DEF RepeatCreate
<1>2. \A e \in Docs : /\ InTable(e)' <=> InTable(e)
                      /\ Marked(e)' <=> Marked(e)
                      /\ Bound(e)' <=> Bound(e)
                      /\ Reachable(e)' <=> Reachable(e)
                      /\ Target(e)' <=> Target(e)
  BY <1>1 DEF tables, InTable, Marked, Bound, Reachable, Target
<1>3. signed \subseteq Docs /\ purge' = purge /\ doc' = doc /\ upload' = upload /\ object' = object
  BY <1>1 DEF HiddenIInv, StorageTypeOK, tables
<1>4. Reachable(d)
  BY <1>1 DEF Reachable, Shown, Authorized
<1>5. ~Bound(d)
  BY <1>4, ReachableNotBound DEF HiddenIInv
<1>6. SignedReachable'
  BY <1>1, <1>2, <1>3, <1>4 DEF SignedReachable
<1>7. purge.pc = "objects" => purge.todo \cup purge.alone \subseteq Docs
  BY DEF HiddenIInv, StorageTypeOK
<1>8. PurgeSound'
  BY <1>1, <1>2, <1>3, <1>5, <1>7 DEF PurgeSound
<1>9. FilesBound' /\ NoOrphanObject'
  BY <1>2, <1>3 DEF FilesBound, NoOrphanObject, Marked
<1>10. QED
  BY <1>6, <1>8, <1>9

\* A document created under a running purge of its tender is marked.
LEMMA CreateObjects ==
    ASSUME HiddenIInv, ObjectsIInv, NEW d \in Docs, NEW declared \in Sizes \cup {0}, CreateDocument(d, declared)
    PROVE  ObjectsIInv'
<1> USE DEF ObjectsIInv
<1>1. /\ doc[d].st = "none" /\ doc'[d].st = "pending" /\ doc'[d].deletedAt = Never
      /\ purge.pc = "objects" /\ purge.tender => "pastWindow" \in marks'[d]
      /\ \A e \in Docs \ {d} : doc'[e] = doc[e] /\ marks'[e] = marks[e]
  BY CreateRows DEF HiddenIInv
<1>2. /\ UNCHANGED <<now, tenderRow, closedAt, object, upload, purge>> /\ signed' = signed \cup {d}
      /\ Authorized /\ (tenderRow.st = "live" \/ (tenderRow.st = "deleted" /\ tenderRow.at = now))
  BY DEF CreateDocument
<1>3. ~InTable(d) /\ InTable(d)'
  BY <1>1 DEF InTable
<1>4. ASSUME NEW e \in Docs \ {d}
      PROVE  /\ InTable(e)' <=> InTable(e)
             /\ Marked(e)' <=> Marked(e)
             /\ Bound(e)' <=> Bound(e)
             /\ Reachable(e)' <=> Reachable(e)
             /\ Target(e)' <=> Target(e)
             /\ e \in signed' <=> e \in signed
             /\ doc'[e] = doc[e]
  BY <1>1, <1>2 DEF InTable, Marked, Bound, Reachable, Target
<1>5. signed \subseteq Docs /\ (purge.pc = "objects" => purge.todo \cup purge.alone \subseteq Docs)
  BY DEF HiddenIInv, StorageTypeOK
<1>6. SignedReachable'
  <2>1. Reachable(d)'
    BY <1>1, <1>2, <1>3 DEF Reachable, Authorized
  <2>2. QED
    BY <1>2, <1>4, <1>5, <2>1 DEF SignedReachable
<1>7. PurgeSound'
  <2> SUFFICES ASSUME purge.pc = "objects" PROVE PurgeSound'
    BY <1>2 DEF PurgeSound
  <2>1. d \notin purge.todo \cup purge.alone
    BY <1>1 DEF PurgeSound
  <2>2. Target(d)' => Marked(d)'
    BY <1>1, <1>2, <2>1 DEF Target, Marked
  <2>3. QED
    BY <1>2, <1>4, <1>5, <2>1, <2>2 DEF PurgeSound
<1>8. FilesBound'
  <2>1. ~Locked(d)
    BY <1>1 DEF HiddenIInv, LockedShown
  <2>2. upload'[d].op # "checked"
    BY <1>2, <2>1, UploadKinds DEF HiddenIInv
  <2>3. QED
    BY <1>1, <1>2, <1>4, <2>2 DEF FilesBound
<1>9. NoOrphanObject'
  BY <1>2, <1>3, <1>4 DEF NoOrphanObject, Marked
<1>10. QED
  BY <1>6, <1>7, <1>8, <1>9

LEMMA AcceptObjects == ASSUME HiddenIInv, ObjectsIInv, NEW d \in Docs, AcceptUpload(d) PROVE ObjectsIInv'
<1>1. /\ doc'[d].st = "uploaded" /\ SameDates(d)
      /\ \A e \in Docs \ {d} : doc'[e] = doc[e] /\ upload'[e] = upload[e]
      /\ \A e \in Docs : marks[e] \subseteq marks'[e]
  BY AcceptRows DEF HiddenIInv
<1>2. UNCHANGED <<now, tenderRow, closedAt, object, signed, purge>> /\ upload[d].op = "checked"
  BY DEF AcceptUpload
<1>3. Locked(d)
  BY <1>2, UploadKinds DEF HiddenIInv
<1>4. doc[d].st = "pending"
  BY <1>3 DEF HiddenIInv, LockedShown
<1>5. \A e \in Docs : /\ InTable(e)' <=> InTable(e)
                      /\ doc'[e].st = "none" <=> doc[e].st = "none"
                      /\ SameDates(e)
  BY <1>1, <1>4 DEF InTable, SameDates
<1>6. \A e \in Docs : /\ Marked(e) => Marked(e)'
                      /\ Bound(e) <=> Bound(e)'
                      /\ Reachable(e) <=> Reachable(e)'
                      /\ Needed(e)' => Needed(e)
  BY <1>1, <1>2, <1>5 DEF Marked, Bound, Reachable, Needed, SameDates
<1>7. QED
  BY <1>2, <1>5, <1>6, ObjectsKept DEF HiddenIInv

LEMMA RejectObjects == ASSUME HiddenIInv, ObjectsIInv, NEW d \in Docs, CommitReject(d) PROVE ObjectsIInv'
<1>1. /\ doc'[d] = doc[d] \/ doc'[d].st = "failed"
      /\ SameDates(d) /\ Locked(d) /\ upload'[d].op = "idle"
      /\ \A e \in Docs \ {d} : doc'[e] = doc[e] /\ upload'[e] = upload[e]
  BY RejectRows DEF HiddenIInv
<1>2. UNCHANGED <<now, tenderRow, closedAt, object, signed, purge, marks>>
  BY DEF CommitReject
<1>3. doc[d].st = "pending"
  BY <1>1 DEF HiddenIInv, LockedShown
<1>4. \A e \in Docs : /\ InTable(e)' <=> InTable(e)
                      /\ doc'[e].st = "none" <=> doc[e].st = "none"
                      /\ SameDates(e)
  BY <1>1, <1>3 DEF InTable, SameDates
<1>5. \A e \in Docs : /\ Marked(e) <=> Marked(e)'
                      /\ Bound(e) <=> Bound(e)'
                      /\ Reachable(e) <=> Reachable(e)'
                      /\ Needed(e)' => Needed(e)
  BY <1>1, <1>2, <1>4 DEF Marked, Bound, Reachable, Needed, SameDates
<1>6. QED
  BY <1>2, <1>4, <1>5, ObjectsKept DEF HiddenIInv

LEMMA CommitSweepObjects == ASSUME HiddenIInv, ObjectsIInv, CommitSweep PROVE ObjectsIInv'
<1>1. /\ UNCHANGED <<now, tenderRow, closedAt, object, signed, upload, purge, marks>>
      /\ \A e \in Docs : \/ doc'[e] = doc[e]
                         \/ InTable(e) /\ doc'[e].st = "failed" /\ SameDates(e)
  BY CommitSweepRows DEF HiddenIInv
<1>2. \A e \in Docs : /\ InTable(e)' <=> InTable(e)
                      /\ doc'[e].st = "none" <=> doc[e].st = "none"
                      /\ SameDates(e)
  BY <1>1 DEF InTable, SameDates
<1>3. \A e \in Docs : /\ Marked(e) <=> Marked(e)'
                      /\ Bound(e) <=> Bound(e)'
                      /\ Reachable(e) <=> Reachable(e)'
                      /\ Needed(e)' => Needed(e)
  BY <1>1, <1>2 DEF Marked, Bound, Reachable, Needed, SameDates
<1>4. QED
  BY <1>1, <1>2, <1>3, ObjectsKept DEF HiddenIInv

\* Deletions: what is hidden now is within the window, and nothing that was out of it returns.
LEMMA HideDocumentObjects ==
    ASSUME HiddenIInv, ObjectsIInv, NEW d \in Docs, HideDocument(d)
    PROVE  ObjectsIInv'
<1>1. /\ doc'[d].st = doc[d].st /\ doc'[d].deletedAt = now
      /\ marks'[d] = marks[d] \/ marks'[d] = (marks[d] \cap Lasting) \cup {"deletedAlone"}
      /\ \A e \in Docs \ {d} : doc'[e] = doc[e] /\ marks'[e] = marks[e]
  BY HideDocumentRows DEF HiddenIInv
<1>2. UNCHANGED <<now, tenderRow, closedAt, object, signed, upload, purge>> /\ doc[d].deletedAt \in {Never, now}
  BY DEF HideDocument
<1>3. \A e \in Docs : /\ InTable(e)' <=> InTable(e)
                      /\ doc'[e].st = doc[e].st
                      /\ Needed(e)' <=> Needed(e)
  BY <1>1, <1>2 DEF InTable, Needed
<1>4. \A e \in Docs : Marked(e) => Marked(e)'
  <2>1. "pastWindow" \in Lasting
    BY DEF Lasting
  <2>2. QED
    BY <1>1, <2>1 DEF Marked
<1>5. \A e \in Docs : Bound(e) => Bound(e)'
  <2>1. ~(doc[d].deletedAt # Never /\ doc[d].deletedAt < now - Retention)
    BY <1>2, Numbers DEF HiddenIInv
  <2>2. QED
    BY <1>1, <1>2, <2>1 DEF Bound
<1>6. \A e \in Docs : Reachable(e) => Reachable(e)'
  BY <1>1, <1>2, <1>3 DEF Reachable
<1>7. QED
  BY <1>2, <1>3, <1>4, <1>5, <1>6, ObjectsKept DEF HiddenIInv

LEMMA WithTenderObjects ==
    ASSUME HiddenIInv, ObjectsIInv, HideTender \/ CloseOrganization
    PROVE  ObjectsIInv'
<1>1. /\ doc' = WithTender
      /\ UNCHANGED <<now, object, signed, upload, purge, marks>>
      /\ tenderRow' = IF tenderRow.st = "live" THEN [st |-> "deleted", at |-> now] ELSE tenderRow
      /\ closedAt' = closedAt \/ (closedAt = Never /\ closedAt' = now)
  BY DEF HideTender, CloseOrganization
<1>2. \A e \in Docs : /\ doc'[e].st = doc[e].st
                      /\ Shown(e) => doc'[e].deletedAt = now
                      /\ ~Shown(e) => doc'[e] = doc[e]
  BY <1>1, WithTenderRows DEF HiddenIInv
<1>3. \A e \in Docs : /\ InTable(e)' <=> InTable(e)
                      /\ Needed(e)' <=> Needed(e)
                      /\ Marked(e)' <=> Marked(e)
  BY <1>1, <1>2 DEF InTable, Needed, Marked
<1>4. ASSUME NEW e \in Docs, InTable(e), Bound(e) PROVE Bound(e)'
  <2>1. closedAt # Never /\ closedAt < now => closedAt' # Never /\ closedAt' < now'
    BY <1>1
  <2>2. tenderRow.st = "deleted" /\ tenderRow.at < now - Retention
          => tenderRow'.st = "deleted" /\ tenderRow'.at < now' - Retention
    BY <1>1
  <2>3. doc[e].deletedAt # Never => doc'[e].deletedAt = doc[e].deletedAt
    BY <1>2 DEF Shown
  <2>4. QED
    BY <1>1, <1>4, <2>1, <2>2, <2>3 DEF Bound
<1>5. \A e \in Docs : Reachable(e) => Reachable(e)'
  BY <1>1, <1>2, <1>3 DEF Reachable
<1>6. QED
  BY <1>1, <1>2, <1>3, <1>4, <1>5, ObjectsKept DEF HiddenIInv

\* restore_tender does not look at the window: what was bound to go is marked.
LEMMA BringBackObjects == ASSUME HiddenIInv, ObjectsIInv, BringBackTender PROVE ObjectsIInv'
<1>1. /\ tenderRow'.st = "live"
      /\ \A e \in Docs :
           /\ doc'[e].st = doc[e].st
           /\ Reopened(e) => doc'[e].deletedAt = Never
           /\ ~Reopened(e) => doc'[e] = doc[e]
           /\ marks[e] \ {"raced"} \subseteq marks'[e]
           /\ InTable(e) /\ now - tenderRow.at > Retention => "pastWindow" \in marks'[e]
  BY BringBackRows DEF HiddenIInv
<1>2. UNCHANGED <<now, closedAt, object, signed, upload, purge>> /\ tenderRow.st = "deleted"
  BY DEF BringBackTender
<1>3. \A e \in Docs : /\ InTable(e)' <=> InTable(e)
                      /\ Needed(e)' <=> Needed(e)
                      /\ Marked(e) => Marked(e)'
  BY <1>1, <1>2 DEF InTable, Needed, Marked
<1>4. ASSUME NEW e \in Docs, InTable(e), Bound(e) PROVE Bound(e)' \/ Marked(e)'
  <2> USE Numbers DEF HiddenIInv
  <2>1. tenderRow.at < now - Retention => Marked(e)'
    BY <1>1, <1>4 DEF Marked
  <2>2. CASE closedAt # Never /\ closedAt < now
    BY <2>2, <1>2 DEF Bound
  <2>3. CASE tenderRow.st = "deleted" /\ tenderRow.at < now - Retention
    BY <2>3, <2>1
  <2>4. CASE doc[e].deletedAt # Never /\ doc[e].deletedAt < now - Retention
    <3>1. CASE Reopened(e)
      <4>1. tenderRow.at <= doc[e].deletedAt
        BY <3>1, <1>4 DEF WentWithTender, Reopened
      <4>2. QED
        BY <4>1, <2>4, <2>1
    <3>2. CASE ~Reopened(e)
      BY <3>2, <2>4, <1>1, <1>2 DEF Bound
    <3>3. QED
      BY <3>1, <3>2
  <2>5. QED
    BY <1>4, <2>2, <2>3, <2>4 DEF Bound
<1>5. ASSUME NEW e \in Docs, Reachable(e) PROVE Reachable(e)'
  <2>1. doc'[e].deletedAt \in {doc[e].deletedAt, Never}
    BY <1>1
  <2>2. QED
    BY <1>1, <1>2, <1>3, <1>5, <2>1 DEF Reachable
<1>6. QED
  BY <1>1, <1>2, <1>3, <1>4, <1>5, ObjectsKept DEF HiddenIInv

LEMMA TickObjects == ASSUME HiddenIInv, ObjectsIInv, StorageTick PROVE ObjectsIInv'
<1>1. /\ UNCHANGED <<tables, object, upload, purge, marks>> /\ now' = now + 1 /\ signed' = {}
  BY DEF StorageTick
<1>2. \A e \in Docs : /\ InTable(e)' <=> InTable(e)
                      /\ Needed(e)' <=> Needed(e)
                      /\ Marked(e)' <=> Marked(e)
  BY <1>1 DEF InTable, Needed, Marked, tables
<1>3. \A e \in Docs : Bound(e) => Bound(e)'
  <2>1. UNCHANGED <<doc, tenderRow, closedAt>>
    BY <1>1 DEF tables
  <2>2. QED
    BY <1>1, <2>1, Numbers DEF Bound, HiddenIInv
<1>4. QED
  BY <1>1, <1>2, <1>3, ObjectsKept DEF HiddenIInv, tables

\* The purge itself.  What it selects is bound to go, so no URL for it can be valid.
LEMMA BeginPurgeObjects == ASSUME HiddenIInv, ObjectsIInv, BeginPurge PROVE ObjectsIInv'
<1> USE DEF ObjectsIInv
<1> DEFINE all == {d \in Docs : InTable(d)}
           alone == {d \in Docs : InTable(d) /\ Expired(doc[d].deletedAt, now - Retention)}
<1>1. UNCHANGED <<tables, now, object, signed, upload, marks>>
  BY DEF BeginPurge
<1>2. /\ purge'.pc = "objects"
      /\ \/ /\ purge'.todo = all /\ purge'.alone \subseteq all /\ purge'.tender
            /\ \/ closedAt # Never /\ closedAt < now - Retention
               \/ tenderRow.st = "deleted" /\ tenderRow.at < now - Retention
         \/ ~purge'.tender /\ purge'.todo = alone /\ purge'.alone = alone
  <2> DEFINE gone == tenderRow.st = "deleted" /\ Expired(tenderRow.at, now - Retention)
  <2>1. alone \subseteq all
    OBVIOUS
  <2>2. CASE closedAt # Never
    <3>1. /\ closedAt < now - Retention
          /\ purge' = [pc |-> "objects", tender |-> TRUE, alone |-> {}, todo |-> all, failed |-> FALSE]
      BY <2>2 DEF BeginPurge, Expired
    <3>2. QED
      BY <3>1, <2>2
  <2>3. CASE closedAt = Never
    <3>1. purge' = [pc |-> "objects", tender |-> gone, alone |-> alone,
                    todo |-> IF gone THEN all ELSE alone, failed |-> FALSE]
      BY <2>3 DEF BeginPurge
    <3> HIDE DEF all, alone
    <3>2. CASE gone
      BY <3>1, <3>2, <2>1 DEF Expired
    <3>3. CASE ~gone
      <4> HIDE DEF gone
      <4>1. QED
        BY <3>1, <3>3
    <3>4. QED
      BY <3>2, <3>3
  <2>4. QED
    BY <2>2, <2>3
<1>3. \A e \in Docs : /\ InTable(e)' <=> InTable(e)
                      /\ Marked(e)' <=> Marked(e)
                      /\ Bound(e)' <=> Bound(e)
                      /\ Reachable(e)' <=> Reachable(e)
  BY <1>1 DEF tables, InTable, Marked, Bound, Reachable
<1>4. signed' = signed /\ doc' = doc /\ upload' = upload /\ object' = object /\ signed \subseteq Docs
  BY <1>1 DEF tables, HiddenIInv, StorageTypeOK
<1>5. \A e \in purge'.todo \cup purge'.alone : e \in Docs /\ InTable(e) /\ (purge'.tender \/ e \in purge'.alone)
  BY <1>2
<1>6. \A e \in Docs : Target(e)' => e \in purge'.todo /\ Bound(e)
  <2>1. \A e \in alone : Bound(e)
    BY DEF Bound, Expired
  <2>2. closedAt # Never /\ closedAt < now - Retention => closedAt < now
    BY Numbers DEF HiddenIInv
  <2>3. purge'.tender => \A e \in Docs : Bound(e)
    BY <1>2, <2>2 DEF Bound
  <2>4. QED
    BY <1>2, <1>3, <2>1, <2>3 DEF Target
<1>7. \A e \in signed : Marked(e) \/ ~Bound(e)
  BY <1>4, ReachableNotBound DEF SignedReachable, HiddenIInv
<1>8. PurgeSound'
  <2>1. \A e \in purge'.todo \cup purge'.alone : doc'[e].st # "none" /\ (InTable(e)' => Target(e)')
    BY <1>4, <1>5, <1>3 DEF Target, InTable
  <2>2. \A e \in Docs : Target(e)' =>
          \/ Marked(e)'
          \/ e \notin signed' /\ Bound(e)' /\ (e \in purge'.todo \/ purge'.failed \/ object'[e] = 0)
    BY <1>3, <1>4, <1>6, <1>7
  <2>3. QED
    BY <2>1, <2>2 DEF PurgeSound
<1>9. SignedReachable' /\ FilesBound' /\ NoOrphanObject'
  BY <1>3, <1>4 DEF SignedReachable, FilesBound, NoOrphanObject, Marked
<1>10. QED
  BY <1>8, <1>9

\* An object goes, or the purge knows that it did not.
LEMMA PurgeObjectObjects ==
    ASSUME HiddenIInv, ObjectsIInv, NEW d \in Docs, PurgeObject(d) \/ PurgeObjectFails(d)
    PROVE  ObjectsIInv'
<1> USE DEF ObjectsIInv
<1>1. /\ UNCHANGED <<tables, now, signed, upload, marks>> /\ purge.pc = "objects" /\ d \in purge.todo
      /\ purge \in PurgeRecords
  BY DEF PurgeObject, PurgeObjectFails, HiddenIInv, StorageTypeOK, PurgeRecords
<1>2. /\ purge'.pc = "objects" /\ purge'.tender = purge.tender /\ purge'.alone = purge.alone
      /\ purge'.todo = purge.todo \ {d}
      /\ purge.failed => purge'.failed
      /\ \A e \in Docs \ {d} : object'[e] = object[e]
      /\ \/ object'[d] = 0
         \/ object'[d] = object[d] /\ purge'.failed
  BY <1>1 DEF PurgeObject, PurgeObjectFails, PurgeRecords, HiddenIInv, StorageTypeOK
<1>3. \A e \in Docs : /\ InTable(e)' <=> InTable(e)
                      /\ Marked(e)' <=> Marked(e)
                      /\ Bound(e)' <=> Bound(e)
                      /\ Reachable(e)' <=> Reachable(e)
                      /\ Target(e)' <=> Target(e)
  BY <1>1, <1>2 DEF tables, InTable, Marked, Bound, Reachable, Target
<1>4. /\ signed' = signed /\ doc' = doc /\ upload' = upload /\ signed \subseteq Docs
      /\ purge.todo \cup purge.alone \subseteq Docs
  BY <1>1 DEF tables, HiddenIInv, StorageTypeOK, PurgeRecords
<1>5. PurgeSound'
  <2>1. \A e \in purge'.todo \cup purge'.alone : doc'[e].st # "none" /\ (InTable(e)' => Target(e)')
    BY <1>1, <1>2, <1>3, <1>4 DEF PurgeSound
  <2>2. ASSUME NEW e \in Docs, Target(e)', ~Marked(e)'
        PROVE  e \notin signed' /\ Bound(e)' /\ (e \in purge'.todo \/ purge'.failed \/ object'[e] = 0)
    <3>1. e \notin signed /\ Bound(e) /\ (e \in purge.todo \/ purge.failed \/ object[e] = 0)
      BY <2>2, <1>1, <1>3 DEF PurgeSound
    <3>2. CASE e = d
      BY <3>1, <3>2, <1>2, <1>3, <1>4
    <3>3. CASE e # d
      BY <3>1, <3>3, <1>2, <1>3, <1>4
    <3>4. QED
      BY <3>2, <3>3
  <2>3. QED
    BY <2>1, <2>2 DEF PurgeSound
<1>6. SignedReachable'
  BY <1>3, <1>4 DEF SignedReachable
<1>7. FilesBound'
  <2>1. InTable(d) => Marked(d) \/ Bound(d)
    BY <1>1 DEF PurgeSound
  <2>2. QED
    BY <1>2, <1>3, <1>4, <2>1 DEF FilesBound
<1>8. NoOrphanObject'
  <2>1. \A e \in Docs : object'[e] > 0 => object[e] > 0
    BY <1>2
  <2>2. QED
    BY <1>3, <2>1 DEF NoOrphanObject, Marked
<1>9. QED
  BY <1>5, <1>6, <1>7, <1>8

LEMMA PurgeCrashObjects == ASSUME HiddenIInv, ObjectsIInv, PurgeCrash PROVE ObjectsIInv'
<1> USE DEF ObjectsIInv
<1>1. UNCHANGED <<tables, now, object, signed, upload, marks>> /\ purge'.pc = "idle"
  BY DEF PurgeCrash
<1>2. \A e \in Docs : /\ InTable(e)' <=> InTable(e)
                      /\ Marked(e)' <=> Marked(e)
                      /\ Bound(e)' <=> Bound(e)
                      /\ Reachable(e)' <=> Reachable(e)
  BY <1>1 DEF tables, InTable, Marked, Bound, Reachable
<1>3. signed' = signed /\ doc' = doc /\ upload' = upload /\ object' = object /\ signed \subseteq Docs
  BY <1>1 DEF tables, HiddenIInv, StorageTypeOK
<1>4. PurgeSound'
  BY <1>1 DEF PurgeSound
<1>5. QED
  BY <1>2, <1>3, <1>4 DEF SignedReachable, FilesBound, NoOrphanObject, Marked

\* The rows go last: what a row stood for is gone, or was brought back too late.
LEMMA CommitPurgeObjects == ASSUME HiddenIInv, ObjectsIInv, CommitPurge PROVE ObjectsIInv'
<1> USE DEF ObjectsIInv
<1>1. /\ Gone \subseteq Docs /\ purge.pc = "objects" /\ purge.todo = {} /\ purge'.pc = "idle"
      /\ UNCHANGED <<now, closedAt, object, signed, upload>>
      /\ tenderRow' = tenderRow \/ Gone = Docs
      /\ \A e \in Docs :
           /\ e \in Gone /\ InTable(e) => doc'[e].st = "purged"
           /\ ~(e \in Gone /\ InTable(e)) => doc'[e] = doc[e]
           /\ marks'[e] = marks[e] \/ marks'[e] = marks[e] \cap Lasting
  BY CommitPurgeRows DEF HiddenIInv
<1>2. signed \subseteq Docs
  BY DEF HiddenIInv, StorageTypeOK
<1>3. \A e \in Docs : Marked(e) => Marked(e)'
  <2>1. "pastWindow" \in Lasting
    BY DEF Lasting
  <2>2. QED
    BY <1>1, <2>1 DEF Marked
<1>4. \A e \in Gone : InTable(e) => Target(e) /\ ~purge.failed
  BY <1>1 DEF Gone, Target
<1>5. \A e \in Gone : InTable(e) => Marked(e) \/ (e \notin signed /\ object[e] = 0)
  BY <1>1, <1>4 DEF PurgeSound
<1>6. \A e \in Docs : e \notin Gone \/ ~InTable(e) => (InTable(e)' <=> InTable(e))
  BY <1>1 DEF InTable
<1>7. \A e \in Docs : InTable(e)' => InTable(e) /\ e \notin Gone /\ doc'[e] = doc[e] /\ tenderRow' = tenderRow
  BY <1>1 DEF InTable
<1>8. PurgeSound'
  BY <1>1 DEF PurgeSound
<1>9. SignedReachable'
  <2> SUFFICES ASSUME NEW e \in signed, ~Marked(e)' PROVE Reachable(e)'
    BY <1>1 DEF SignedReachable
  <2>1. e \in Docs /\ ~Marked(e) /\ Reachable(e)
    BY <1>2, <1>3 DEF SignedReachable
  <2>2. e \notin Gone
    BY <1>5, <2>1 DEF Reachable
  <2>3. doc'[e] = doc[e] /\ tenderRow' = tenderRow /\ (InTable(e)' <=> InTable(e))
    BY <1>1, <1>6, <2>1, <2>2
  <2>4. QED
    BY <1>1, <2>1, <2>3 DEF Reachable
<1>10. FilesBound'
  <2> SUFFICES ASSUME NEW e \in Docs, InTable(e)', Needed(e)', ~Marked(e)'
               PROVE  object'[e] > 0 \/ Bound(e)'
    BY DEF FilesBound, Needed
  <2>1. InTable(e) /\ doc'[e] = doc[e] /\ tenderRow' = tenderRow /\ ~Marked(e)
    BY <1>3, <1>7
  <2>2. Needed(e) /\ (Bound(e)' <=> Bound(e))
    BY <1>1, <2>1 DEF Needed, Bound
  <2>3. QED
    BY <1>1, <2>1, <2>2 DEF FilesBound, Needed
<1>11. NoOrphanObject'
  <2> SUFFICES ASSUME NEW e \in Docs, object'[e] > 0, ~Marked(e)' PROVE InTable(e)'
    BY DEF NoOrphanObject, Marked
  <2>1. ~Marked(e) /\ InTable(e) /\ object[e] > 0
    BY <1>1, <1>3 DEF NoOrphanObject, Marked
  <2>2. e \notin Gone
    BY <1>5, <2>1
  <2>3. QED
    BY <1>6, <2>1, <2>2
<1>12. QED
  BY <1>8, <1>9, <1>10, <1>11

LEMMA NextObjects ==
    ASSUME HiddenIInv, SweepIInv, ObjectsIInv, [StorageNext]_storageVars
    PROVE  ObjectsIInv'
<1>1. CASE UNCHANGED storageVars
  BY <1>1, SweepObjects
<1>2. ASSUME NEW d \in Docs,
             \/ \E declared \in Sizes \cup {0} : CreateDocument(d, declared)
             \/ RepeatCreate(d) \/ HideDocument(d)
             \/ \E size \in Sizes : Put(d, size)
             \/ CheckUpload(d) \/ AcceptUpload(d) \/ RejectUpload(d) \/ CommitReject(d)
             \/ SweepObject(d) \/ PurgeObject(d) \/ PurgeObjectFails(d)
      PROVE  ObjectsIInv'
  BY <1>2, CreateObjects, RepeatCreateObjects, HideDocumentObjects, PutObjects, CheckUploadObjects, AcceptObjects,
     RejectUploadObjects, RejectObjects, SweepObjects, PurgeObjectObjects
<1>3. CASE HideTender \/ BringBackTender \/ CloseOrganization
  BY <1>3, WithTenderObjects, BringBackObjects
<1>4. CASE BeginSweep \/ CommitSweep \/ SweepCrash
  BY <1>4, SweepObjects, CommitSweepObjects
<1>5. CASE BeginPurge \/ CommitPurge \/ PurgeCrash
  BY <1>5, BeginPurgeObjects, CommitPurgeObjects, PurgeCrashObjects
<1>6. CASE StorageTick
  BY <1>6, TickObjects
<1>7. QED
  BY <1>1, <1>2, <1>3, <1>4, <1>5, <1>6 DEF StorageNext

LEMMA InitObjects == StorageInit => ObjectsIInv
<1> SUFFICES ASSUME StorageInit PROVE ObjectsIInv
  OBVIOUS
<1>1. signed = {} /\ \A d \in Docs : doc[d] = NoDocumentRow
  BY DEF StorageInit
<1>2. \A d \in Docs : ~InTable(d)
  BY <1>1, NoRowType DEF InTable
<1>3. SignedReachable /\ PurgeSound
  <2>1. purge.pc = "idle"
    BY DEF StorageInit
  <2>2. QED
    BY <1>1, <2>1 DEF SignedReachable, PurgeSound
<1>4. FilesBound /\ NoOrphanObject
  <2>1. \A d \in Docs : object[d] = 0
    BY DEF StorageInit
  <2>2. QED
    BY <1>2, <2>1 DEF FilesBound, NoOrphanObject
<1>5. QED
  BY <1>3, <1>4 DEF ObjectsIInv

\* The three layers hold together: rows and objects agree at every moment.
THEOREM StorageInvariance == StorageSpec => []StorageIInv
<1>1. StorageIInv /\ [StorageNext]_storageVars => StorageIInv'
  BY NextHidden, NextSweep, NextObjects DEF StorageIInv
<1>2. StorageInit => StorageIInv
  BY InitHidden, InitSweep, InitObjects DEF StorageIInv
<1>3. QED
  BY <1>1, <1>2, PTL DEF StorageSpec

\* No object without a row: the purge deletes objects before rows and keeps the rows of what
\* it could not delete, and the sweep and the requests never leave an object behind.
THEOREM NoObjectLost == StorageSpec => []NoOrphanObject
<1>1. StorageIInv => NoOrphanObject
  BY DEF StorageIInv, ObjectsIInv
<1>2. QED
  BY <1>1, StorageInvariance, PTL

\* A document that is shown as uploaded has its file, through deletion of its tender, a
\* failing purge and a restore inside the retention window.
THEOREM UploadedHasFile == StorageSpec => []FileKept
<1>1. ASSUME StorageIInv PROVE FileKept
  <2> SUFFICES ASSUME Authorized, NEW d \in Docs, Shown(d), doc[d].st = "uploaded",
                      marks[d] \cap {"pastWindow", "raced"} = {}
               PROVE  object[d] > 0
    BY DEF FileKept
  <2>1. ~Marked(d) /\ "raced" \notin marks[d]
    BY DEF Marked
  <2>2. object[d] > 0 \/ Bound(d)
    BY <1>1, <2>1 DEF StorageIInv, ObjectsIInv, FilesBound, Shown
  <2>3. tenderRow.st # "deleted"
    BY <1>1, <2>1 DEF StorageIInv, HiddenIInv, DeletedStaysHidden
  <2>4. ~Bound(d)
    BY <1>1, <2>3, Numbers DEF StorageIInv, HiddenIInv, Bound, Shown, Authorized
  <2>5. QED
    BY <2>2, <2>4
<1>2. QED
  BY <1>1, StorageInvariance, PTL

-----------------------------------------------------------------------------
\* The quotas.  What counts towards them, in words of their own.
Counts(d) == Shown(d) /\ (doc[d].st = "uploaded" \/ (doc[d].st = "pending" /\ Fresh(d)))

Counting(S) == {d \in S : Counts(d)}

\* Documents whose size was checked against the quota while it was reserved.
Checked == {d \in Docs : marks[d] \cap {"late", "restored"} = {}}

BytesKept == CountedIn(Checked) <= StorageLimit

\* Uploads that were being completed while another one was accepted.
Overlapping == {d \in Docs : {"accepted", "overlapped"} \subseteq marks[d]}

DocumentsKept == used - Cardinality(Overlapping) <= DocumentLimit

\* A request that found room still has it, unless another one was accepted meanwhile.
RoomSeen == \A d \in Docs :
    upload[d].op = "checked" /\ upload[d].quota /\ "overlapped" \notin marks[d] => used < DocumentLimit

QuotaIInv == HiddenIInv /\ SweepIInv /\ BytesKept /\ DocumentsKept /\ RoomSeen

LEMMA CountedAs == ASSUME NEW S PROVE CountedIn(S) = SumFunctionOnSet([d \in S |-> doc[d].size], Counting(S))
BY DEF CountedIn, Counting, Counts

LEMMA SizeType ==
    ASSUME StorageTypeOK
    PROVE  \A d \in Docs : doc[d].size \in Nat
BY DEF StorageTypeOK, DocumentRow

LEMMA CountedType ==
    ASSUME StorageTypeOK, NEW S \in SUBSET Docs
    PROVE  CountedIn(S) \in Int
<1> DEFINE f == [d \in S |-> doc[d].size]
<1>1. \A d \in Counting(S) : f[d] \in Int
  BY SizeType DEF Counting
<1>2. IsFiniteSet(Counting(S))
  BY FS_Subset DEF Counting
<1>3. CountedIn(S) = SumFunctionOnSet(f, Counting(S))
  BY CountedAs
<1> HIDE DEF f
<1>4. QED
  BY <1>1, <1>2, <1>3, SumType

\* Documents R, each counted with the same size among S, count for no more than S.
LEMMA CountsLess ==
    ASSUME StorageTypeOK, NEW S \in SUBSET Docs, NEW R \in SUBSET Counting(S),
           NEW f, \A d \in R : f[d] = doc[d].size
    PROVE  SumFunctionOnSet(f, R) <= CountedIn(S) /\ SumFunctionOnSet(f, R) \in Int
<1> DEFINE g == [d \in S |-> doc[d].size]
           C == Counting(S)
<1>1. IsFiniteSet(C) /\ R \in SUBSET C /\ IsFiniteSet(R)
  BY FS_Subset DEF Counting
<1>2. /\ \A d \in C : g[d] \in Nat
      /\ \A d \in R : f[d] \in Nat /\ f[d] <= g[d] /\ f[d] \in Int
  BY SizeType DEF Counting
<1>3. CountedIn(S) = SumFunctionOnSet(g, C)
  BY CountedAs
<1> HIDE DEF g, C
<1>4. SumFunctionOnSet(f, R) <= SumFunctionOnSet(g, C)
  BY <1>1, <1>2, SumMonotone
<1>5. SumFunctionOnSet(f, R) \in Int
  BY <1>1, <1>2, SumType
<1>6. QED
  BY <1>3, <1>4, <1>5

\* Documents R and one more.
LEMMA CountsMore ==
    ASSUME StorageTypeOK, NEW S \in SUBSET Docs, NEW d \in Docs, NEW R \in SUBSET Counting(S) \ {d},
           NEW f, f[d] \in Nat, \A e \in R : f[e] = doc[e].size
    PROVE  /\ SumFunctionOnSet(f, R \cup {d}) <= CountedIn(S) + f[d]
           /\ d \in Counting(S) =>
                 SumFunctionOnSet(f, R \cup {d}) <= CountedIn(S) - doc[d].size + f[d]
<1>1. IsFiniteSet(R) /\ d \notin R
  BY FS_Subset DEF Counting
<1>2. \A e \in R : e \in Docs /\ doc[e].size \in Nat
  BY SizeType DEF Counting
<1>3. \A e \in R \cup {d} : f[e] \in Int
  BY <1>2
<1>4. SumFunctionOnSet(f, R \cup {d}) = f[d] + SumFunctionOnSet(f, R)
  BY <1>1, <1>3, SumAdd
<1>5. SumFunctionOnSet(f, R) <= CountedIn(S) /\ SumFunctionOnSet(f, R) \in Int
  BY CountsLess
<1>6. CountedIn(S) \in Int
  BY CountedType
<1>7. ASSUME d \in Counting(S)
      PROVE  SumFunctionOnSet(f, R) <= CountedIn(S) - doc[d].size
  <2> DEFINE g == [e \in S |-> doc[e].size]
             C == Counting(S)
  <2>1. d \in C /\ IsFiniteSet(C) /\ \A e \in C : g[e] \in Nat /\ g[e] \in Int
    BY <1>7, FS_Subset, SizeType DEF Counting
  <2>2. CountedIn(S) = SumFunctionOnSet(g, C)
    BY CountedAs
  <2>3. /\ R \in SUBSET (C \ {d}) /\ g[d] = doc[d].size
        /\ \A e \in R : f[e] \in Nat /\ f[e] <= g[e]
    BY <1>2, <2>1 DEF Counting
  <2> HIDE DEF g, C
  <2>4. SumFunctionOnSet(g, C) = g[d] + SumFunctionOnSet(g, C \ {d})
    BY <2>1, SumRemove
  <2>5. IsFiniteSet(C \ {d}) /\ \A e \in C \ {d} : g[e] \in Nat
    BY <2>1, FS_Subset
  <2>6. SumFunctionOnSet(f, R) <= SumFunctionOnSet(g, C \ {d})
    BY <2>3, <2>5, SumMonotone
  <2>7. SumFunctionOnSet(g, C \ {d}) \in Int
    BY <2>1, <2>5, SumType
  <2>8. g[d] \in Int
    BY <2>1
  <2>9. QED
    BY <1>5, <2>2, <2>3, <2>4, <2>6, <2>7, <2>8
<1>8. d \in Docs /\ doc[d].size \in Nat
  BY SizeType
<1>9. QED
  BY <1>4, <1>5, <1>6, <1>7, <1>8

\* What is counted after a step, as a sum.
LEMMA CountedNext ==
    CountedIn(Checked)' = SumFunctionOnSet([d \in Checked' |-> doc'[d].size], {d \in Checked' : Counts(d)'})
BY DEF CountedIn, Counts

LEMMA CheckedIn == Checked \in SUBSET Docs /\ Checked' \in SUBSET Docs
BY DEF Checked

\* A step that only takes documents out of the count.
LEMMA BytesShrink ==
    ASSUME StorageTypeOK, BytesKept,
           \A e \in Docs : e \in Checked' /\ Counts(e)' => e \in Checked /\ Counts(e) /\ doc'[e] = doc[e]
    PROVE  BytesKept'
<1> DEFINE f == [d \in Checked' |-> doc'[d].size]
           R == {d \in Checked' : Counts(d)'}
<1>1. R \in SUBSET Counting(Checked) /\ \A d \in R : f[d] = doc[d].size
  BY CheckedIn DEF Counting
<1>2. CountedIn(Checked)' = SumFunctionOnSet(f, R)
  BY CountedNext
<1> HIDE DEF f, R
<1>3. SumFunctionOnSet(f, R) <= CountedIn(Checked) /\ SumFunctionOnSet(f, R) \in Int
  BY <1>1, CheckedIn, CountsLess
<1>4. CountedIn(Checked) \in Int
  BY CheckedIn, CountedType
<1>5. CountedIn(Checked)' <= StorageLimit
  BY <1>2, <1>3, <1>4 DEF BytesKept
<1>6. QED
  BY <1>5 DEF BytesKept

\* A step on one document, with the size it has afterwards.
LEMMA BytesGrow ==
    ASSUME StorageTypeOK, BytesKept, NEW d \in Docs, doc'[d].size \in Nat,
           \A e \in Docs \ {d} :
              e \in Checked' /\ Counts(e)' => e \in Checked /\ Counts(e) /\ doc'[e] = doc[e],
           \/ CountedIn(Docs) + doc'[d].size <= StorageLimit
           \/ Counts(d) /\ CountedIn(Docs) - doc[d].size + doc'[d].size <= StorageLimit
    PROVE  BytesKept'
<1>1. CASE d \in Checked' /\ Counts(d)'
  <2> DEFINE f == [e \in Checked' |-> doc'[e].size]
             R == {e \in Checked' \ {d} : Counts(e)'}
  <2>1. R \in SUBSET (Counting(Docs) \ {d}) /\ \A e \in R : f[e] = doc[e].size
    BY CheckedIn DEF Counting
  <2>2. f[d] = doc'[d].size /\ R \cup {d} = {e \in Checked' : Counts(e)'}
    BY <1>1
  <2>3. CountedIn(Checked)' = SumFunctionOnSet(f, R \cup {d})
    BY <2>2, CountedNext
  <2>4. Counts(d) => d \in Counting(Docs)
    BY DEF Counting
  <2> HIDE DEF f, R
  <2>5. /\ SumFunctionOnSet(f, R \cup {d}) <= CountedIn(Docs) + f[d]
        /\ d \in Counting(Docs) =>
              SumFunctionOnSet(f, R \cup {d}) <= CountedIn(Docs) - doc[d].size + f[d]
    BY <2>1, <2>2, CountsMore
  <2>6. CountedIn(Docs) \in Int /\ doc[d].size \in Nat
    BY CountedType, SizeType
  <2>7. SumFunctionOnSet(f, R \cup {d}) \in Int
    <3>1. \A e \in R : e \in Docs /\ f[e] \in Int
      BY <2>1, SizeType DEF Counting
    <3>2. IsFiniteSet(R \cup {d})
      BY <3>1, FS_Subset, StorageAssumption
    <3>3. QED
      BY <2>2, <3>1, <3>2, SumType
  <2>8. SumFunctionOnSet(f, R \cup {d}) <= StorageLimit
    BY <2>2, <2>4, <2>5, <2>6, <2>7
  <2>9. QED
    BY <2>3, <2>8 DEF BytesKept
<1>2. CASE ~ (d \in Checked' /\ Counts(d)')
  BY <1>2, BytesShrink
<1>3. QED
  BY <1>1, <1>2

\* Rows that the default filter hides, or that are failed or gone, do not count.
LEMMA NotCounted ==
    ASSUME NEW d \in Docs, Counts(d)
    PROVE  doc[d].deletedAt = Never /\ doc[d].st \in {"pending", "uploaded"}
BY DEF Counts, Shown

LEMMA NotCountedNext ==
    \A d \in Docs : Counts(d)' => doc'[d].deletedAt = Never /\ doc'[d].st \in {"pending", "uploaded"}
BY DEF Counts, Shown

\* A row that stays as it is counts as long as it did.
LEMMA CountsAsBefore ==
    ASSUME now' = now, NEW d \in Docs, doc'[d] = doc[d]
    PROVE  Counts(d)' <=> Counts(d)
BY DEF Counts, Shown, InTable, Fresh

-----------------------------------------------------------------------------
\* Bytes: every step.
LEMMA TenantBytes ==
    ASSUME StorageTypeOK, BytesKept, doc' = doc, marks' = marks, now' \in {now, now + 1}
    PROVE  BytesKept'
<1>1. ASSUME NEW e \in Docs, e \in Checked' /\ Counts(e)'
      PROVE  e \in Checked /\ Counts(e) /\ doc'[e] = doc[e]
  <2>1. now \in Int /\ now' \in Int /\ now' >= now
    BY DEF StorageTypeOK
  <2>2. doc[e].since \in Int
    BY DEF StorageTypeOK, DocumentRow
  <2>3. Fresh(e)' => Fresh(e)
    BY <2>1, <2>2 DEF Fresh
  <2>4. QED
    BY <1>1, <2>3 DEF Checked, Counts, Shown, InTable
<1>2. QED
  BY <1>1, BytesShrink

LEMMA CreateBytes ==
    ASSUME StorageTypeOK, BytesKept, NEW d \in Docs, NEW declared \in Sizes \cup {0},
           CreateDocument(d, declared)
    PROVE  BytesKept'
<1>1. /\ doc[d].st = "none" /\ Fits(declared) /\ now' = now
      /\ \A e \in Docs \ {d} : doc'[e] = doc[e] /\ marks'[e] = marks[e]
  BY CreateRows DEF CreateDocument
<1>2. declared \in Nat
  OBVIOUS
<1>3. doc'[d].size = declared
  BY DEF CreateDocument, StorageTypeOK, NoDocumentRow
<1>4. CountedIn(Docs) \in Int
  BY CountedType
<1>5. CountedIn(Docs) + declared <= StorageLimit
  BY <1>1, <1>2, <1>4 DEF Fits
<1>6. ASSUME NEW e \in Docs \ {d}, e \in Checked' /\ Counts(e)'
      PROVE  e \in Checked /\ Counts(e) /\ doc'[e] = doc[e]
  BY <1>1, <1>6, CountsAsBefore DEF Checked
<1>7. QED
  BY <1>2, <1>3, <1>5, <1>6, BytesGrow

LEMMA AcceptBytes ==
    ASSUME HiddenIInv, BytesKept, NEW d \in Docs, AcceptUpload(d)
    PROVE  BytesKept'
<1>1. /\ StorageTypeOK /\ now' = now /\ Fits(upload[d].size - doc[d].size) /\ upload[d].op = "checked"
      /\ ~Fresh(d) => "late" \in marks'[d]
      /\ \A e \in Docs \ {d} : doc'[e] = doc[e] /\ marks[e] \subseteq marks'[e]
  BY AcceptRows DEF HiddenIInv, AcceptUpload, Accepted
<1>2. upload[d].size \in Nat /\ doc[d].size \in Nat
  BY <1>1, UploadKinds, SizeType
<1>3. doc'[d].size = upload[d].size
  BY <1>1 DEF AcceptUpload, StorageTypeOK, DocumentRow
<1>4. ASSUME NEW e \in Docs \ {d}, e \in Checked' /\ Counts(e)'
      PROVE  e \in Checked /\ Counts(e) /\ doc'[e] = doc[e]
  BY <1>1, <1>4, CountsAsBefore DEF Checked
<1>5. CountedIn(Docs) \in Int
  BY <1>1, CountedType
<1>6. CASE Fresh(d)
  <2>1. Locked(d)
    BY <1>1, UploadKinds
  <2>2. Counts(d)
    BY <1>6, <2>1 DEF HiddenIInv, LockedShown, Counts
  <2>3. CountedIn(Docs) - doc[d].size + upload[d].size <= StorageLimit
    BY <1>1, <1>2, <1>5 DEF Fits
  <2>4. QED
    BY <1>1, <1>2, <1>3, <1>4, <2>2, <2>3, BytesGrow
<1>7. CASE ~Fresh(d)
  <2>1. d \notin Checked'
    BY <1>1, <1>7 DEF Checked
  <2>2. QED
    BY <1>1, <1>4, <2>1, BytesShrink
<1>8. QED
  BY <1>6, <1>7

LEMMA RejectBytes ==
    ASSUME StorageTypeOK, BytesKept, NEW d \in Docs, CommitReject(d)
    PROVE  BytesKept'
<1>1. /\ now' = now /\ marks' = marks
      /\ doc'[d] = doc[d] \/ doc'[d].st = "failed"
      /\ \A e \in Docs \ {d} : doc'[e] = doc[e]
  BY RejectRows DEF CommitReject
<1>2. ASSUME NEW e \in Docs, e \in Checked' /\ Counts(e)'
      PROVE  e \in Checked /\ Counts(e) /\ doc'[e] = doc[e]
  <2>1. doc'[e].st # "failed"
    BY <1>2, NotCountedNext
  <2>2. doc'[e] = doc[e]
    BY <1>1, <2>1
  <2>3. QED
    BY <1>1, <1>2, <2>2, CountsAsBefore DEF Checked
<1>3. QED
  BY <1>2, BytesShrink

LEMMA HideDocumentBytes ==
    ASSUME StorageTypeOK, BytesKept, NEW d \in Docs, HideDocument(d)
    PROVE  BytesKept'
<1>1. /\ now' = now /\ now # Never /\ doc'[d].deletedAt = now
      /\ \A e \in Docs \ {d} : doc'[e] = doc[e] /\ marks'[e] = marks[e]
  BY HideDocumentRows DEF HideDocument, StorageTypeOK
<1>2. ASSUME NEW e \in Docs, e \in Checked' /\ Counts(e)'
      PROVE  e \in Checked /\ Counts(e) /\ doc'[e] = doc[e]
  <2>1. e # d
    BY <1>1, <1>2, NotCountedNext
  <2>2. QED
    BY <1>1, <1>2, <2>1, CountsAsBefore DEF Checked
<1>3. QED
  BY <1>2, BytesShrink

LEMMA WithTenderBytes ==
    ASSUME StorageTypeOK, BytesKept, HideTender \/ CloseOrganization
    PROVE  BytesKept'
<1>1. doc' = WithTender /\ now' = now /\ marks' = marks /\ now # Never
  BY DEF HideTender, CloseOrganization, StorageTypeOK
<1>2. ASSUME NEW e \in Docs, e \in Checked' /\ Counts(e)'
      PROVE  e \in Checked /\ Counts(e) /\ doc'[e] = doc[e]
  <2>1. doc'[e].deletedAt # now
    BY <1>1, <1>2, NotCountedNext
  <2>2. doc'[e] = doc[e]
    BY <1>1, <2>1, WithTenderRows
  <2>3. QED
    BY <1>1, <1>2, <2>2, CountsAsBefore DEF Checked
<1>3. QED
  BY <1>2, BytesShrink

LEMMA BringBackBytes ==
    ASSUME StorageTypeOK, BytesKept, BringBackTender
    PROVE  BytesKept'
<1>1. /\ now' = now
      /\ \A e \in Docs : /\ Reopened(e) => "restored" \in marks'[e]
                         /\ ~Reopened(e) => doc'[e] = doc[e]
                         /\ marks[e] \ {"raced"} \subseteq marks'[e]
  BY DEF BringBackTender
<1>2. ASSUME NEW e \in Docs, e \in Checked' /\ Counts(e)'
      PROVE  e \in Checked /\ Counts(e) /\ doc'[e] = doc[e]
  <2>1. doc'[e] = doc[e] /\ e \in Checked
    BY <1>1, <1>2 DEF Checked
  <2>2. QED
    BY <1>1, <1>2, <2>1, CountsAsBefore
<1>3. QED
  BY <1>2, BytesShrink

LEMMA CommitSweepBytes ==
    ASSUME StorageTypeOK, BytesKept, CommitSweep
    PROVE  BytesKept'
<1>1. /\ now' = now /\ marks' = marks
      /\ \A e \in Docs : doc'[e] = doc[e] \/ doc'[e].st = "failed"
  BY CommitSweepRows
<1>2. ASSUME NEW e \in Docs, e \in Checked' /\ Counts(e)'
      PROVE  e \in Checked /\ Counts(e) /\ doc'[e] = doc[e]
  <2>1. doc'[e] = doc[e]
    BY <1>1, <1>2, NotCountedNext
  <2>2. QED
    BY <1>1, <1>2, <2>1, CountsAsBefore DEF Checked
<1>3. QED
  BY <1>2, BytesShrink

LEMMA CommitPurgeBytes ==
    ASSUME StorageTypeOK, BytesKept, CommitPurge
    PROVE  BytesKept'
<1>1. /\ now' = now /\ Gone \subseteq Docs
      /\ \A e \in Docs :
           /\ e \in Gone /\ InTable(e) => doc'[e].st = "purged"
           /\ ~(e \in Gone /\ InTable(e)) => doc'[e] = doc[e]
           /\ e \notin Gone => marks'[e] = marks[e]
  BY CommitPurgeRows
<1>2. ASSUME NEW e \in Docs, e \in Checked' /\ Counts(e)'
      PROVE  e \in Checked /\ Counts(e) /\ doc'[e] = doc[e]
  <2>1. doc'[e] = doc[e]
    BY <1>1, <1>2, NotCountedNext
  <2>2. Counts(e)
    BY <1>1, <1>2, <2>1, CountsAsBefore
  <2>3. e \notin Gone
    <3>1. InTable(e)
      BY <2>2 DEF Counts, Shown
    <3>2. doc'[e].st # "purged"
      BY <1>2, NotCountedNext
    <3>3. QED
      BY <1>1, <3>1, <3>2
  <2>4. QED
    BY <1>1, <1>2, <2>1, <2>2, <2>3 DEF Checked
<1>3. QED
  BY <1>2, BytesShrink

\* Steps that leave rows, marks and time alone.
Quiet == doc' = doc /\ marks' = marks /\ now' = now

LEMMA QuietSteps ==
    ASSUME \/ \E d \in Docs : \/ RepeatCreate(d) \/ (\E size \in Sizes : Put(d, size))
                             \/ CheckUpload(d) \/ RejectUpload(d)
                             \/ SweepObject(d) \/ PurgeObject(d) \/ PurgeObjectFails(d)
           \/ BeginSweep \/ SweepCrash \/ BeginPurge \/ PurgeCrash
    PROVE  Quiet /\ used' = used
BY DEF Quiet, tables, RepeatCreate, Put, CheckUpload, RejectUpload, SweepObject, PurgeObject,
       PurgeObjectFails, BeginSweep, SweepCrash, BeginPurge, PurgeCrash

LEMMA NextBytes ==
    ASSUME HiddenIInv, BytesKept, [StorageNext]_storageVars
    PROVE  BytesKept'
<1>1. StorageTypeOK
  BY DEF HiddenIInv
<1>2. CASE UNCHANGED storageVars
  BY <1>1, <1>2, TenantBytes DEF storageVars
<1>3. ASSUME NEW d \in Docs,
             \/ \E declared \in Sizes \cup {0} : CreateDocument(d, declared)
             \/ HideDocument(d) \/ AcceptUpload(d) \/ CommitReject(d)
      PROVE  BytesKept'
  BY <1>1, <1>3, CreateBytes, HideDocumentBytes, AcceptBytes, RejectBytes
<1>4. CASE Quiet
  BY <1>1, <1>4, TenantBytes DEF Quiet
<1>5. CASE HideTender \/ BringBackTender \/ CloseOrganization \/ CommitSweep \/ CommitPurge
  BY <1>1, <1>5, WithTenderBytes, BringBackBytes, CommitSweepBytes, CommitPurgeBytes
<1>6. CASE StorageTick
  BY <1>1, <1>6, TenantBytes DEF StorageTick, tables
<1>7. QED
  BY <1>2, <1>3, <1>4, <1>5, <1>6, QuietSteps DEF StorageNext

-----------------------------------------------------------------------------
\* Documents of the month: every step.
LEMMA OverlappingFinite == IsFiniteSet(Overlapping) /\ Cardinality(Overlapping) \in Nat
<1>1. Overlapping \in SUBSET Docs
  BY DEF Overlapping
<1>2. IsFiniteSet(Overlapping)
  BY <1>1, FS_Subset
<1>3. QED
  BY <1>2, FS_CardinalityType

LEMMA OverlappingFiniteNext == IsFiniteSet(Overlapping') /\ Cardinality(Overlapping') \in Nat
<1>1. Overlapping' \in SUBSET Docs
  BY DEF Overlapping
<1>2. IsFiniteSet(Overlapping')
  BY <1>1, FS_Subset
<1>3. QED
  BY <1>2, FS_CardinalityType

\* A step that accepts no upload and takes no overlap back.
LEMMA DocumentsStay ==
    ASSUME StorageTypeOK, DocumentsKept, RoomSeen, used' = used, Overlapping \subseteq Overlapping',
           \A d \in Docs :
              \/ upload'[d] = upload[d] /\ ("overlapped" \in marks[d] => "overlapped" \in marks'[d])
              \/ upload'[d].op = "checked" /\ upload'[d].quota => used < DocumentLimit
    PROVE  DocumentsKept' /\ RoomSeen'
<1>1. Cardinality(Overlapping) <= Cardinality(Overlapping')
  BY OverlappingFiniteNext, FS_Subset
<1>2. used - Cardinality(Overlapping') <= DocumentLimit
  BY <1>1, OverlappingFinite, OverlappingFiniteNext DEF DocumentsKept, StorageTypeOK
<1>3. DocumentsKept'
  BY <1>2 DEF DocumentsKept
<1>4. RoomSeen'
  BY DEF RoomSeen
<1>5. QED
  BY <1>3, <1>4

LEMMA AcceptDocuments ==
    ASSUME HiddenIInv, SweepIInv, DocumentsKept, RoomSeen, NEW d \in Docs, AcceptUpload(d)
    PROVE  DocumentsKept' /\ RoomSeen'
<1>1. /\ StorageTypeOK /\ upload[d].op = "checked" /\ upload[d].quota /\ used' = used + 1
      /\ upload'[d].op = "idle" /\ marks[d] \cup {"accepted"} \subseteq marks'[d]
      /\ \A e \in Docs \ {d} : upload'[e] = upload[e] /\ marks[e] \subseteq marks'[e]
  BY AcceptRows DEF HiddenIInv, AcceptUpload, Accepted
<1>2. used \in Nat /\ used' = used + 1
  BY <1>1 DEF StorageTypeOK
<1>3. d \notin Overlapping
  <2>1. Locked(d)
    BY <1>1, UploadKinds
  <2>2. doc[d].st = "pending"
    BY <2>1 DEF HiddenIInv, LockedShown
  <2>3. QED
    BY <2>2 DEF SweepIInv, AcceptedNotPending, Overlapping
<1>4. Overlapping \subseteq Overlapping'
  BY <1>1 DEF Overlapping
<1>5. Cardinality(Overlapping) <= Cardinality(Overlapping')
  BY <1>4, OverlappingFiniteNext, FS_Subset
<1>6. used' - Cardinality(Overlapping') <= DocumentLimit
  <2>1. CASE "overlapped" \in marks[d]
    <3>1. Overlapping \cup {d} \subseteq Overlapping'
      BY <1>1, <1>4, <2>1 DEF Overlapping
    <3>2. Cardinality(Overlapping \cup {d}) = Cardinality(Overlapping) + 1
      BY <1>3, OverlappingFinite, FS_AddElement
    <3>3. Cardinality(Overlapping \cup {d}) <= Cardinality(Overlapping')
      BY <3>1, OverlappingFiniteNext, FS_Subset
    <3>4. QED
      BY <1>2, <3>2, <3>3, OverlappingFinite, OverlappingFiniteNext DEF DocumentsKept
  <2>2. CASE "overlapped" \notin marks[d]
    <3>1. used < DocumentLimit
      BY <1>1, <2>2 DEF RoomSeen
    <3>2. QED
      BY <1>2, <3>1, OverlappingFiniteNext
  <2>3. QED
    BY <2>1, <2>2
<1>7. RoomSeen'
  <2> SUFFICES ASSUME NEW e \in Docs, upload'[e].op = "checked", "overlapped" \notin marks'[e]
               PROVE  used' < DocumentLimit
    BY DEF RoomSeen
  <2>1. e # d /\ upload[e].op = "checked"
    BY <1>1
  <2>2. Locked(e)
    BY <1>1, <2>1, UploadKinds
  <2>3. "overlapped" \in marks'[e]
    BY <2>1, <2>2 DEF AcceptUpload
  <2>4. QED
    BY <2>3
<1>8. DocumentsKept'
  BY <1>6 DEF DocumentsKept
<1>9. QED
  BY <1>7, <1>8

LEMMA CreateDocuments ==
    ASSUME HiddenIInv, SweepIInv, DocumentsKept, RoomSeen, NEW d \in Docs,
           NEW declared \in Sizes \cup {0}, CreateDocument(d, declared)
    PROVE  DocumentsKept' /\ RoomSeen'
<1>1. /\ StorageTypeOK /\ used' = used /\ upload' = upload /\ doc[d].st = "none"
      /\ \A e \in Docs \ {d} : marks'[e] = marks[e]
  BY CreateRows DEF HiddenIInv, CreateDocument
<1>2. "accepted" \notin marks[d]
  BY <1>1 DEF SweepIInv, AcceptedNotPending
<1>3. Overlapping \subseteq Overlapping'
  BY <1>1, <1>2 DEF Overlapping
<1>4. upload'[d].op # "checked"
  <2>1. ~Locked(d)
    BY <1>1 DEF HiddenIInv, LockedShown
  <2>2. QED
    BY <1>1, <2>1, UploadKinds
<1>5. QED
  BY <1>1, <1>3, <1>4, DocumentsStay

LEMMA CheckDocuments ==
    ASSUME StorageTypeOK, DocumentsKept, RoomSeen, NEW d \in Docs, CheckUpload(d)
    PROVE  DocumentsKept' /\ RoomSeen'
<1>1. used' = used /\ marks' = marks
  BY DEF CheckUpload, tables
<1>2. Overlapping' = Overlapping
  BY <1>1 DEF Overlapping
<1>3. \A e \in Docs \ {d} : upload'[e] = upload[e]
  BY DEF CheckUpload, StorageTypeOK
<1>4. upload'[d].quota => used < DocumentLimit
  BY DEF CheckUpload, StorageTypeOK, QuotaLeft
<1>5. QED
  BY <1>1, <1>2, <1>3, <1>4, DocumentsStay

\* Steps that free a request, or leave the requests alone, and keep the lasting marks.
LEMMA OtherDocuments ==
    ASSUME StorageTypeOK, DocumentsKept, RoomSeen, used' = used,
           \A e \in Docs : marks[e] \cap Lasting \subseteq marks'[e],
           \A e \in Docs : upload'[e] = upload[e] \/ upload'[e].op # "checked"
    PROVE  DocumentsKept' /\ RoomSeen'
<1>1. Overlapping \subseteq Overlapping'
  BY DEF Overlapping, Lasting
<1>2. \A e \in Docs : "overlapped" \in marks[e] => "overlapped" \in marks'[e]
  BY DEF Lasting
<1>3. QED
  BY <1>1, <1>2, DocumentsStay

LEMMA NextDocuments ==
    ASSUME HiddenIInv, SweepIInv, DocumentsKept, RoomSeen, [StorageNext]_storageVars
    PROVE  DocumentsKept' /\ RoomSeen'
<1>1. StorageTypeOK
  BY DEF HiddenIInv
<1>2. ASSUME NEW d \in Docs, RejectUpload(d) \/ CommitReject(d)
      PROVE  DocumentsKept' /\ RoomSeen'
  <2>1. used' = used /\ marks' = marks
    BY <1>2 DEF RejectUpload, CommitReject, tables
  <2>2. \A e \in Docs : upload'[e] = upload[e] \/ upload'[e].op # "checked"
    BY <1>1, <1>2 DEF RejectUpload, CommitReject, StorageTypeOK, NoRequest
  <2>3. QED
    BY <1>1, <2>1, <2>2, OtherDocuments
<1>3. ASSUME NEW d \in Docs, HideDocument(d)
      PROVE  DocumentsKept' /\ RoomSeen'
  <2>1. used' = used /\ upload' = upload
    BY <1>3 DEF HideDocument
  <2>2. \A e \in Docs : marks[e] \cap Lasting \subseteq marks'[e]
    BY <1>1, <1>3, HideDocumentRows
  <2>3. QED
    BY <1>1, <2>1, <2>2, OtherDocuments
<1>4. CASE BringBackTender
  <2>1. used' = used /\ upload' = upload
    BY <1>4 DEF BringBackTender
  <2>2. \A e \in Docs : marks[e] \cap Lasting \subseteq marks'[e]
    BY <1>4 DEF BringBackTender, Lasting
  <2>3. QED
    BY <1>1, <2>1, <2>2, OtherDocuments
<1>5. CASE CommitPurge
  <2>1. used' = used /\ upload' = upload /\ \A e \in Docs : marks[e] \cap Lasting \subseteq marks'[e]
    BY <1>1, <1>5, CommitPurgeRows
  <2>2. QED
    BY <1>1, <2>1, OtherDocuments
<1>6. CASE marks' = marks /\ upload' = upload /\ used' = used
  BY <1>1, <1>6, OtherDocuments
<1>7. ASSUME NEW d \in Docs,
             \/ RepeatCreate(d) \/ (\E size \in Sizes : Put(d, size))
             \/ SweepObject(d) \/ PurgeObject(d) \/ PurgeObjectFails(d)
      PROVE  DocumentsKept' /\ RoomSeen'
  BY <1>6, <1>7 DEF RepeatCreate, Put, SweepObject, PurgeObject, PurgeObjectFails, tables
<1>8. CASE HideTender \/ CloseOrganization \/ BeginSweep \/ CommitSweep \/ SweepCrash
           \/ BeginPurge \/ PurgeCrash \/ StorageTick \/ UNCHANGED storageVars
  BY <1>6, <1>8 DEF HideTender, CloseOrganization, BeginSweep, CommitSweep, SweepCrash,
                    BeginPurge, PurgeCrash, StorageTick, tables, storageVars
<1>9. QED
  BY <1>1, <1>2, <1>3, <1>4, <1>5, <1>7, <1>8, CreateDocuments, CheckDocuments, AcceptDocuments
     DEF StorageNext

LEMMA InitQuota == StorageInit => BytesKept /\ DocumentsKept /\ RoomSeen
<1> SUFFICES ASSUME StorageInit PROVE BytesKept /\ DocumentsKept /\ RoomSeen
  OBVIOUS
<1>1. \A d \in Docs : ~Counts(d)
  BY NoRowType DEF StorageInit, Counts
<1>2. CountedIn(Checked) = 0
  <2>1. Counting(Checked) = {}
    BY <1>1, CheckedIn DEF Counting
  <2>2. QED
    BY <2>1, CountedAs, SumEmpty
<1>3. BytesKept
  BY <1>2 DEF BytesKept
<1>4. used = 0 /\ \A d \in Docs : upload[d].op = "idle"
  BY DEF StorageInit, NoRequest
<1>5. DocumentsKept /\ RoomSeen
  BY <1>4, OverlappingFinite DEF DocumentsKept, RoomSeen
<1>6. QED
  BY <1>3, <1>5

(***************************************************************************)
(* Both quotas hold however requests overlap: the bytes, because sum and   *)
(* write are one step and a completion replaces its own reservation; the   *)
(* documents of the month up to the uploads that were being completed      *)
(* while another one was accepted (services/quota.py reads without lock).  *)
(***************************************************************************)
THEOREM QuotasHold == StorageSpec => []QuotasKept
<1>1. StorageInit => QuotaIInv
  BY InitHidden, InitSweep, InitQuota DEF QuotaIInv
<1>2. QuotaIInv /\ [StorageNext]_storageVars => QuotaIInv'
  BY NextHidden, NextSweep, NextBytes, NextDocuments DEF QuotaIInv
<1>3. QuotaIInv => QuotasKept
  BY DEF QuotaIInv, QuotasKept, BytesKept, DocumentsKept, Checked, Overlapping
<1>4. QED
  BY <1>1, <1>2, <1>3, PTL DEF StorageSpec
=============================================================================
