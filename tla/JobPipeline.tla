------------------------------ MODULE JobPipeline ------------------------------
(***************************************************************************)
(* The document pipeline: one job row per uploaded document, the Celery    *)
(* messages that announce it, and the worker runs that carry it through    *)
(* parsing, indexing and extracting.                                       *)
(*                                                                         *)
(* Every database transaction that reads a row and later writes it is TWO  *)
(* steps here, a read and a commit: the worker takes no row lock           *)
(* (session.get without FOR UPDATE, READ COMMITTED), and at commit the ORM *)
(* writes only the columns the code assigned.  The API's transactions lock *)
(* their row and are one step.  The broker delivers at least once: a       *)
(* message stays unacknowledged while its run works (task_acks_late) and   *)
(* comes back when the worker process is lost.                             *)
(***************************************************************************)
EXTENDS Naturals, FiniteSets

CONSTANTS
    Jobs,            \* the jobs, each that of one document; all of one tender
    Runs,            \* worker slots, each executing at most one message
    NoJob,           \* the job of an idle slot
    MaxRetries,      \* _MAX_RETRIES of process_document
    Calls,           \* the repeatable calls users make in this instance
    MaxCalls,        \* bound: how many of them
    MaxCrashes,      \* bound: worker processes lost
    LlmEnabled,      \* whether an LLM provider is configured
    Faults,          \* the faults of the environment this instance allows
    Exhausted        \* what Task.retry does when no retry is left: "caught" (it
                     \* raises MaxRetriesExceededError), "escapes" (it raises the
                     \* exception passed as exc), or either

AllFaults == {"raise",    \* a step of a run raises: parser, LLM, database, soft limit
              "quota",    \* the page quota of the period is exceeded
              "kill",     \* the hard time limit kills the run
              "record",   \* writing the error itself fails (and is swallowed)
              "publish"}  \* the broker is down when the API publishes

ASSUME PipelineAssumption ==
    /\ NoJob \notin Jobs
    /\ MaxRetries \in Nat /\ MaxCalls \in Nat /\ MaxCrashes \in Nat
    /\ LlmEnabled \in BOOLEAN
    /\ Calls \subseteq {"repeat", "retry", "delete"}
    /\ Faults \subseteq AllFaults
    /\ Exhausted \subseteq {"caught", "escapes"} /\ Exhausted # {}

-----------------------------------------------------------------------------
(* The job's state machine. *)

JobStatus == {"queued", "parsing", "indexing", "extracting", "review_ready", "failed"}

JOB_TRANSITIONS ==
    {<<"queued", "parsing">>, <<"parsing", "indexing">>, <<"indexing", "extracting">>,
     <<"extracting", "review_ready">>, <<"failed", "queued">>}
    \cup {<<s, "failed">> : s \in {"queued", "parsing", "indexing", "extracting"}}

TERMINAL_JOB_STATUSES == {"review_ready", "failed"}

NEXT_STATUS(s) == CASE s = "parsing"    -> "indexing"
                    [] s = "indexing"   -> "extracting"
                    [] s = "extracting" -> "review_ready"

Phases == {"parsing", "indexing", "extracting"}
\* The tender's status also knows "archived", which no code writes.
TenderStatus == {"draft", "analyzing", "review_ready"}

-----------------------------------------------------------------------------
VARIABLES
    job,         \* job[j]: the row; status "absent" until the upload completes
    elements,    \* elements[j]: number of the parse whose elements are stored; 0 none
    chunks,      \* chunks[j]: the parse the stored chunks were cut from; 0 none
    findings,    \* findings[j]: the parse the stored findings cite; 0 none
    compliance,  \* compliance[j]: the same of the compliance results
    tender,      \* status of the tender of all these documents
    deleted,     \* deleted[j]: "no", "alone" or "with_tender" (soft deletion)
    tenderDeleted,
    queue,       \* queue[j][n]: messages of job j waiting, sent as retry number n
    run,         \* run[r]: what the worker slot r is doing
    calls,       \* repeated user calls so far (bounded)
    crashes,     \* lost worker processes so far (bounded)
    lost,        \* history: jobs a delivery of which was dropped, not sent anew
    duplicated   \* history: jobs that once had two live deliveries

rows == <<job, elements, chunks, findings, compliance, tender>>
data == <<elements, chunks, findings, compliance>>
deletion == <<deleted, tenderDeleted>>
vars == <<rows, deletion, queue, run, calls, crashes, lost, duplicated>>

Row == [status : JobStatus \cup {"absent"}, finished : BOOLEAN, error : BOOLEAN]
NoRow == [status |-> "absent", finished |-> FALSE, error |-> FALSE]
NewRow == [status |-> "queued", finished |-> FALSE, error |-> FALSE]

\* What a transaction has read: the row's status, whether it holds an error
\* message, and the tender's status ("hidden" when it or the document is deleted).
Snapshot == [status : JobStatus \cup {"absent"}, error : BOOLEAN,
             tender : TenderStatus \cup {"hidden"}]
NoSnapshot == [status |-> "absent", error |-> FALSE, tender |-> "hidden"]

Steps == {"idle", "begin", "begin_commit", "phase", "store", "quota", "comply",
          "advance", "advance_commit", "error", "error_commit", "retry", "ack"}

\* The steps inside the try block of process_document.
TrySteps == {"begin", "begin_commit", "phase", "store", "quota", "comply",
             "advance", "advance_commit"}

RunState == [pc : Steps, job : Jobs \cup {NoJob}, retries : 0..MaxRetries,
             phase : JobStatus, seen : Snapshot, gen : Nat, final : BOOLEAN]

Idle == [pc |-> "idle", job |-> NoJob, retries |-> 0, phase |-> "queued",
         seen |-> NoSnapshot, gen |-> 0, final |-> FALSE]

Init ==
    /\ job = [j \in Jobs |-> NoRow]
    /\ elements = [j \in Jobs |-> 0]
    /\ chunks = [j \in Jobs |-> 0]
    /\ findings = [j \in Jobs |-> 0]
    /\ compliance = [j \in Jobs |-> 0]
    /\ tender = "draft"
    /\ deleted = [j \in Jobs |-> "no"]
    /\ tenderDeleted = FALSE
    /\ queue = [j \in Jobs |-> [n \in 0..MaxRetries |-> 0]]
    /\ run = [r \in Runs |-> Idle]
    /\ calls = 0
    /\ crashes = 0
    /\ lost = {}
    /\ duplicated = {}

-----------------------------------------------------------------------------
(* Deliveries.  A delivery is a waiting message or a run that may still     *)
(* touch the rows; a run that only has its acknowledgement left is none.    *)

Live(r) == run[r].pc \notin {"idle", "ack"}
Waiting(j) == \E n \in 0..MaxRetries : queue[j][n] > 0
HasDelivery(j) == Waiting(j) \/ \E r \in Runs : Live(r) /\ run[r].job = j

Send(j, n) == queue' = [queue EXCEPT ![j][n] = @ + 1]
NoteDuplicate(j) == duplicated' = IF HasDelivery(j) THEN duplicated \cup {j} ELSE duplicated

\* The API's publication after its commit: it arrives, or the broker is down.
Publish(j) ==
    \/ Send(j, 0) /\ NoteDuplicate(j) /\ lost' = lost \ {j}
    \/ "publish" \in Faults /\ lost' = lost \cup {j} /\ UNCHANGED <<queue, duplicated>>

UserCall(kind) == kind \in Calls /\ calls < MaxCalls /\ calls' = calls + 1

Visible(j) == deleted[j] = "no"

-----------------------------------------------------------------------------
(* The API. *)

\* complete_upload of a pending document: the row is created, then published.
CompleteUpload(j) ==
    /\ Visible(j) /\ job[j].status = "absent"
    /\ job' = [job EXCEPT ![j] = NewRow]
    /\ Publish(j)
    /\ UNCHANGED <<data, tender, deletion, run, calls, crashes>>

\* complete_upload repeated by the client: a job still queued is published again.
RepeatComplete(j) ==
    /\ UserCall("repeat")
    /\ Visible(j) /\ job[j].status = "queued"
    /\ Publish(j)
    /\ UNCHANGED <<rows, deletion, run, crashes>>

\* Variant: retry_job accepts any terminal job.
Retryable_AnyTerminal(j) == job[j].status \in TERMINAL_JOB_STATUSES
Retryable(j) == job[j].status = "failed"

\* Variant: retry_job forgets to clear the end time.
RequeuedRow_KeepsEnd(j) == [job[j] EXCEPT !.status = "queued", !.error = FALSE]
RequeuedRow(j) == NewRow

\* retry_job: a failed job goes back to queued, without error or end, and is
\* published.
RetryJob(j) ==
    /\ UserCall("retry")
    /\ Retryable(j)
    /\ job' = [job EXCEPT ![j] = RequeuedRow(j)]
    /\ Publish(j)
    /\ UNCHANGED <<data, tender, deletion, run, crashes>>

DeleteDocument(j) ==
    /\ UserCall("delete")
    /\ Visible(j)
    /\ deleted' = [deleted EXCEPT ![j] = "alone"]
    /\ UNCHANGED <<rows, tenderDeleted, queue, run, crashes, lost, duplicated>>

DeleteTender ==
    /\ UserCall("delete")
    /\ ~tenderDeleted
    /\ tenderDeleted' = TRUE
    /\ deleted' = [j \in Jobs |-> IF Visible(j) THEN "with_tender" ELSE deleted[j]]
    /\ UNCHANGED <<rows, queue, run, crashes, lost, duplicated>>

RestoreTender ==
    /\ UserCall("delete")
    /\ tenderDeleted
    /\ tenderDeleted' = FALSE
    /\ deleted' = [j \in Jobs |-> IF deleted[j] = "with_tender" THEN "no" ELSE deleted[j]]
    /\ UNCHANGED <<rows, queue, run, crashes, lost, duplicated>>

-----------------------------------------------------------------------------
(* The broker and the worker process. *)

Deliver(r, j, n) ==
    /\ run[r].pc = "idle" /\ queue[j][n] > 0
    /\ queue' = [queue EXCEPT ![j][n] = @ - 1]
    /\ run' = [run EXCEPT ![r] = [Idle EXCEPT !.pc = "begin", !.job = j, !.retries = n]]
    /\ UNCHANGED <<rows, deletion, calls, crashes, lost, duplicated>>

Ack(r) ==
    /\ run[r].pc = "ack"
    /\ run' = [run EXCEPT ![r] = Idle]
    /\ UNCHANGED <<rows, deletion, queue, calls, crashes, lost, duplicated>>

\* Variant: messages are acknowledged when they are received (task_acks_late off).
Redeliver_AckedEarly(r) == UNCHANGED queue
Redeliver(r) == Send(run[r].job, run[r].retries)

\* The worker process is lost: its message is not acknowledged and comes back
\* (task_acks_late, task_reject_on_worker_lost).
Crash(r) ==
    /\ crashes < MaxCrashes /\ crashes' = crashes + 1
    /\ run[r].pc # "idle"
    /\ Redeliver(r)
    /\ IF Live(r) THEN UNCHANGED duplicated ELSE NoteDuplicate(run[r].job)
    /\ run' = [run EXCEPT ![r] = Idle]
    /\ UNCHANGED <<rows, deletion, calls, lost>>

\* The hard time limit kills a run, whatever it is doing; the message of a run
\* that timed out is acknowledged.
HardTimeLimit(r) ==
    /\ "kill" \in Faults
    /\ Live(r)
    /\ lost' = lost \cup {run[r].job}
    /\ run' = [run EXCEPT ![r] = Idle]
    /\ UNCHANGED <<rows, deletion, queue, calls, crashes, duplicated>>

-----------------------------------------------------------------------------
(* The steps of a run.  Each names the job it works for.                    *)

At(r, j, step) == run[r].pc = step /\ run[r].job = j

Goto(r, step) == run' = [run EXCEPT ![r].pc = step]

Read(j) == [status |-> job[j].status, error |-> job[j].error,
            tender |-> IF Visible(j) /\ ~tenderDeleted THEN tender ELSE "hidden"]

\* The end of a transaction: what it read is forgotten.
Commit(r, step) ==
    run' = [run EXCEPT ![r] = [@ EXCEPT !.pc = step, !.seen = NoSnapshot]]

\* An exception that process_document catches; final when retrying is pointless.
Throw(r, final) ==
    run' = [run EXCEPT ![r] =
        [@ EXCEPT !.pc = "error", !.seen = NoSnapshot, !.gen = 0, !.final = final]]

Environment == <<deletion, calls, crashes, duplicated>>

\* Any step of the try block may raise: the parser, the model, the LLM, the
\* database, the budget admission or the soft time limit.
Raise(r) ==
    /\ "raise" \in Faults
    /\ run[r].pc \in TrySteps
    /\ Throw(r, FALSE)
    /\ UNCHANGED <<rows, Environment, queue, lost>>

\* _begin_run: a terminal job is left alone.
BeginRead(r, j) ==
    /\ At(r, j, "begin")
    /\ IF job[j].status \in TERMINAL_JOB_STATUSES
       THEN Goto(r, "ack")
       ELSE run' = [run EXCEPT ![r] = [@ EXCEPT !.pc = "begin_commit", !.seen = Read(j)]]
    /\ UNCHANGED <<rows, Environment, queue, lost>>

\* _begin_run: a queued job starts parsing, its tender leaves draft; any other
\* job resumes in the phase the row names.
BeginCommit(r, j) ==
    /\ At(r, j, "begin_commit")
    /\ LET seen == run[r].seen
           started == seen.status = "queued"
           phase == IF started THEN "parsing" ELSE seen.status
       IN /\ run' = [run EXCEPT ![r] =
                [@ EXCEPT !.pc = "phase", !.seen = NoSnapshot, !.phase = phase]]
          /\ job' = IF started THEN [job EXCEPT ![j].status = "parsing"] ELSE job
          /\ tender' = IF started /\ seen.tender = "draft" THEN "analyzing" ELSE tender
    /\ UNCHANGED <<data, Environment, queue, lost>>

\* The first transaction of a phase handler: the document must be visible, and
\* indexing needs elements, extracting needs chunks.  The extraction remembers
\* which parse its elements come from, indexing which parse it cuts.
PhaseRead(r, j) ==
    /\ At(r, j, "phase")
    /\ IF \/ ~Visible(j)
          \/ run[r].phase = "indexing" /\ elements[j] = 0
          \/ run[r].phase = "extracting" /\ chunks[j] = 0
       THEN Throw(r, FALSE)
       ELSE run' = [run EXCEPT ![r] = [@ EXCEPT !.pc = "store", !.gen = elements[j]]]
    /\ UNCHANGED <<rows, Environment, queue, lost>>

\* run_parsing_phase, second transaction: the elements are replaced, and with
\* them go the findings that cite them (ON DELETE CASCADE).
StoreElements(r, j) ==
    /\ At(r, j, "store") /\ run[r].phase = "parsing"
    /\ elements' = [elements EXCEPT ![j] = @ + 1]
    /\ findings' = [findings EXCEPT ![j] = 0]
    /\ compliance' = [compliance EXCEPT ![j] = 0]
    /\ run' = [run EXCEPT ![r] = [@ EXCEPT !.pc = "quota", !.gen = 0]]
    /\ UNCHANGED <<job, chunks, tender, Environment, queue, lost>>

\* run_parsing_phase, third transaction: the page quota, a permanent error.
PageQuota(r, j) ==
    /\ At(r, j, "quota")
    /\ \/ Goto(r, "advance")
       \/ "quota" \in Faults /\ Throw(r, TRUE)
    /\ UNCHANGED <<rows, Environment, queue, lost>>

\* Variant: the chunks are computed but their transaction is never committed.
StoreChunks_Uncommitted(r, j) ==
    /\ At(r, j, "store") /\ run[r].phase = "indexing"
    /\ run' = [run EXCEPT ![r] = [@ EXCEPT !.pc = "advance", !.gen = 0]]
    /\ UNCHANGED <<rows, Environment, queue, lost>>

\* run_indexing_phase, second transaction: the chunks are replaced.
StoreChunks(r, j) ==
    /\ At(r, j, "store") /\ run[r].phase = "indexing"
    /\ chunks' = [chunks EXCEPT ![j] = run[r].gen]
    /\ run' = [run EXCEPT ![r] = [@ EXCEPT !.pc = "advance", !.gen = 0]]
    /\ UNCHANGED <<job, elements, findings, compliance, tender, Environment, queue, lost>>

\* _write_findings: the findings are replaced; a finding that cites an element
\* replaced meanwhile breaks its foreign key and the transaction fails.
StoreFindings(r, j) ==
    /\ At(r, j, "store") /\ run[r].phase = "extracting"
    /\ IF ~LlmEnabled
       THEN /\ run' = [run EXCEPT ![r] = [@ EXCEPT !.pc = "advance", !.gen = 0]]
            /\ UNCHANGED findings
       ELSE IF run[r].gen = elements[j]
       THEN findings' = [findings EXCEPT ![j] = run[r].gen] /\ Goto(r, "comply")
       ELSE Throw(r, FALSE) /\ UNCHANGED findings
    /\ UNCHANGED <<job, elements, chunks, compliance, tender, Environment, queue, lost>>

\* Variant: compliance results are written only for documents that have some.
StoreCompliance_OnlyOnce(r, j) ==
    /\ At(r, j, "comply")
    /\ run' = [run EXCEPT ![r] = [@ EXCEPT !.pc = "advance", !.gen = 0]]
    /\ compliance' = [compliance EXCEPT ![j] = IF @ = 0 THEN 0 ELSE run[r].gen]
    /\ UNCHANGED <<job, elements, chunks, findings, tender, Environment, queue, lost>>

\* _run_compliance: a transaction of its own, with the same foreign key.
StoreCompliance(r, j) ==
    /\ At(r, j, "comply")
    /\ IF run[r].gen = elements[j]
       THEN /\ compliance' = [compliance EXCEPT ![j] = run[r].gen]
            /\ run' = [run EXCEPT ![r] = [@ EXCEPT !.pc = "advance", !.gen = 0]]
       ELSE Throw(r, FALSE) /\ UNCHANGED compliance
    /\ UNCHANGED <<job, elements, chunks, findings, tender, Environment, queue, lost>>

\* _advance: the row must allow the run's next status, else the error is final.
AdvanceRead(r, j) ==
    /\ At(r, j, "advance")
    /\ IF <<job[j].status, NEXT_STATUS(run[r].phase)>> \in JOB_TRANSITIONS
       THEN run' = [run EXCEPT ![r] = [@ EXCEPT !.pc = "advance_commit", !.seen = Read(j)]]
       ELSE Throw(r, TRUE)
    /\ UNCHANGED <<rows, Environment, queue, lost>>

\* Variant: the tender is given the job's new status.
TenderAfter_JobStatus(target, seen) == IF seen = "analyzing" THEN target ELSE tender

\* Variant: the tender moves on with the first phase that completes.
TenderAfter_AnyPhase(target, seen) ==
    IF seen = "analyzing" THEN "review_ready" ELSE tender
TenderAfter(target, seen) ==
    IF target = "review_ready" /\ seen = "analyzing" THEN "review_ready" ELSE tender

\* _advance: the status alone is written; the last one also closes the job,
\* clears the error message it saw and moves an analyzing tender on.
AdvanceCommit(r, j) ==
    /\ At(r, j, "advance_commit")
    /\ LET target == NEXT_STATUS(run[r].phase)
           last == target = "review_ready"
           seen == run[r].seen
       IN /\ run' = [run EXCEPT ![r] =
                [@ EXCEPT !.pc = IF last THEN "ack" ELSE "phase",
                          !.seen = NoSnapshot, !.phase = target]]
          /\ job' = [job EXCEPT ![j] =
                [status |-> target,
                 finished |-> last \/ @.finished,
                 error |-> @.error /\ ~(last /\ seen.error)]]
          /\ tender' = TenderAfter(target, seen.tender)
    /\ UNCHANGED <<data, Environment, queue, lost>>

\* _record_error, the read.
ErrorRead(r, j) ==
    /\ At(r, j, "error")
    /\ run' = [run EXCEPT ![r] = [@ EXCEPT !.pc = "error_commit", !.seen = Read(j)]]
    /\ UNCHANGED <<rows, Environment, queue, lost>>

AfterError(r) == IF run[r].final THEN "ack" ELSE "retry"

\* Variant: a final error fails the job whatever its status.
RecordsFailure_Always(r) == run[r].final

\* Variant: the message is recorded, the status is not.
RecordsFailure_MessageOnly(r) == FALSE
RecordsFailure(r) == run[r].final /\ run[r].seen.status \notin TERMINAL_JOB_STATUSES

\* _record_error, the commit: the message always, the status and the end only
\* when the error is final and the row read was not terminal.
ErrorCommit(r, j) ==
    /\ At(r, j, "error_commit")
    /\ job' = [job EXCEPT ![j] =
            [status |-> IF RecordsFailure(r) THEN "failed" ELSE @.status,
             finished |-> RecordsFailure(r) \/ @.finished,
             error |-> TRUE]]
    /\ Commit(r, AfterError(r))
    /\ UNCHANGED <<data, tender, Environment, queue, lost>>

\* _record_error swallows its own failure: nothing is written.
ErrorLost(r, j) ==
    /\ "record" \in Faults
    /\ At(r, j, "error_commit")
    /\ Commit(r, AfterError(r))
    /\ lost' = IF run[r].final THEN lost \cup {j} ELSE lost
    /\ UNCHANGED <<rows, Environment, queue>>

\* self.retry: a new message, one retry further, is sent before this one is
\* acknowledged.
Retry(r, j) ==
    /\ At(r, j, "retry") /\ run[r].retries < MaxRetries
    /\ Send(j, run[r].retries + 1)
    /\ Goto(r, "ack")
    /\ UNCHANGED <<rows, Environment, lost>>

\* self.retry with no retry left.  Caught as MaxRetriesExceededError, the error
\* is recorded as final; raised as the original exception, it leaves the task.
RetriesExhausted(r, j) ==
    /\ At(r, j, "retry") /\ run[r].retries = MaxRetries
    /\ \/ /\ "caught" \in Exhausted
          /\ Throw(r, TRUE) /\ UNCHANGED lost
       \/ /\ "escapes" \in Exhausted
          /\ Goto(r, "ack") /\ lost' = lost \cup {j}
    /\ UNCHANGED <<rows, Environment, queue>>

RunStep(r, j) ==
    \/ BeginRead(r, j) \/ BeginCommit(r, j) \/ PhaseRead(r, j)
    \/ StoreElements(r, j) \/ PageQuota(r, j) \/ StoreChunks(r, j)
    \/ StoreFindings(r, j) \/ StoreCompliance(r, j)
    \/ AdvanceRead(r, j) \/ AdvanceCommit(r, j)
    \/ ErrorRead(r, j) \/ ErrorCommit(r, j) \/ ErrorLost(r, j)
    \/ Retry(r, j) \/ RetriesExhausted(r, j)

-----------------------------------------------------------------------------
ApiStep ==
    \/ DeleteTender \/ RestoreTender
    \/ \E j \in Jobs : CompleteUpload(j) \/ RepeatComplete(j) \/ RetryJob(j) \/ DeleteDocument(j)

FaultStep == \E r \in Runs : Raise(r) \/ Crash(r) \/ HardTimeLimit(r)

WorkerStep(r) ==
    \/ Ack(r)
    \/ \E j \in Jobs : RunStep(r, j) \/ \E n \in 0..MaxRetries : Deliver(r, j, n)

Next == ApiStep \/ FaultStep \/ \E r \in Runs : WorkerStep(r)

Spec == Init /\ [][Next]_vars

\* A worker slot that can proceed does: Celery's prefork processes keep fetching
\* and executing.  Users, faults and crashes owe nothing.
FairSpec == Spec /\ \A r \in Runs : WF_vars(WorkerStep(r))

-----------------------------------------------------------------------------
(* Properties. *)

Unfinished(j) == job[j].status \notin TERMINAL_JOB_STATUSES \cup {"absent"}

\* Every variable keeps its type.
TypeOK ==
    /\ job \in [Jobs -> Row]
    /\ elements \in [Jobs -> Nat] /\ chunks \in [Jobs -> Nat]
    /\ findings \in [Jobs -> Nat] /\ compliance \in [Jobs -> Nat]
    /\ tender \in TenderStatus
    /\ deleted \in [Jobs -> {"no", "alone", "with_tender"}] /\ tenderDeleted \in BOOLEAN
    /\ queue \in [Jobs -> [0..MaxRetries -> Nat]]
    /\ run \in [Runs -> RunState]
    /\ calls \in 0..MaxCalls /\ crashes \in 0..MaxCrashes
    /\ lost \subseteq Jobs /\ duplicated \subseteq Jobs

\* No phase is ever skipped, whatever crashes, retries and duplicate deliveries
\* do: a job that is indexing has its elements, one that is extracting or ready
\* has its chunks too (_advance runs only after the phase's handler).
NoPhaseSkipped ==
    \A j \in Jobs :
        /\ job[j].status \in {"indexing", "extracting", "review_ready"} => elements[j] > 0
        /\ job[j].status \in {"extracting", "review_ready"} => chunks[j] > 0

\* A job whose deliveries never overlapped and that is review_ready shows
\* findings and compliance results that cite the elements now stored, found in
\* chunks cut from those same elements (what the review screen joins).
ReadyIsGrounded ==
    \A j \in Jobs \ duplicated :
        job[j].status = "review_ready" =>
            /\ chunks[j] = elements[j]
            /\ LlmEnabled => findings[j] = elements[j] /\ compliance[j] = elements[j]

\* An unfinished job is never abandoned: a message waits or a run works for it,
\* unless the broker, the hard time limit or a failed error record dropped it.
NoOrphan == \A j \in Jobs \ lost : Unfinished(j) => HasDelivery(j)

\* A job whose deliveries never overlapped has an end time exactly when it is
\* terminal, and says why once it failed.
RowConsistent ==
    \A j \in Jobs \ duplicated :
        /\ job[j].finished <=> job[j].status \in TERMINAL_JOB_STATUSES
        /\ job[j].status = "failed" => job[j].error

\* The rows follow JOB_TRANSITIONS although no transaction of the worker locks
\* them, as long as the job's deliveries never overlapped.
LegalTransitions ==
    [][\A j \in Jobs \ duplicated' :
        job[j].status \notin {"absent", job'[j].status} =>
            <<job[j].status, job'[j].status>> \in JOB_TRANSITIONS]_vars

\* What a user reviews does not change under them: once review_ready, a job stays
\* so and no run touches its elements or findings again, without overlap.
ReadyIsFinal ==
    [][\A j \in Jobs \ duplicated' :
        job[j].status = "review_ready" =>
            /\ job'[j].status = "review_ready" /\ elements'[j] = elements[j]
            /\ findings'[j] = findings[j] /\ compliance'[j] = compliance[j]]_vars

\* A tender is review_ready only when one of its documents has got there.
TenderHasReadyJob ==
    tender = "review_ready" =>
        \E j \in Jobs : job[j].status = "review_ready" \/ j \in duplicated

\* Every unfinished job ends, review_ready or failed, or was dropped.
JobSettles ==
    \A j \in Jobs : Unfinished(j) ~> (~Unfinished(j) \/ j \in lost)

-----------------------------------------------------------------------------
(* What the repository says of the pipeline and the code does not keep.     *)

\* complete_upload: "the task is idempotent, duplicate delivery is safe"; so a
\* review_ready job would show findings that cite its elements.
DuplicateDeliveryIsSafe ==
    \A j \in Jobs : job[j].status = "review_ready" => findings[j] = elements[j]

\* tasks/documents: "when the attempts are used up the job is set to failed"; so
\* no unfinished job would be left without a delivery.
ExhaustedJobFails == \A j \in Jobs : Unfinished(j) => HasDelivery(j)

\* The pipeline's flow test: once its documents are through, the tender is
\* review_ready.
TenderShowsResult ==
    /\ ~tenderDeleted
    /\ \E j \in Jobs : Visible(j) /\ job[j].status = "review_ready"
    /\ \A j \in Jobs : ~Unfinished(j)
    => tender = "review_ready"
=============================================================================
