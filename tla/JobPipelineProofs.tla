--------------------------- MODULE JobPipelineProofs ---------------------------
(***************************************************************************)
(* Theorems about JobPipeline, for any number of jobs, worker slots,       *)
(* retries, user calls, crashes and faults.                                *)
(*                                                                         *)
(* The inductive invariant IInv.  TypeOK is not inductive by itself: what a *)
(* run writes depends on where it stands, so RunsOK says which phase and    *)
(* which snapshot a run at each step may carry and which outputs are then   *)
(* stored, and MessagesOK that messages announce jobs that exist.  With     *)
(* them NoPhaseSkipped is inductive too.  NoOrphan needs a second one,      *)
(* EveryJobAttended: a run may leave its job to itself only when the job    *)
(* ended, a message waits or the drop was noted.  What holds only of jobs   *)
(* whose deliveries never overlapped needs a third, AloneInv: such a job    *)
(* has one delivery, and what its run has read is still what the rows say.  *)
(*                                                                         *)
(* TenderIsEach carries these theorems, and those of StorageProofs, over    *)
(* to MCTender, in which two jobs and two documents share a tender.         *)
(***************************************************************************)
EXTENDS MCTender, TLAPS

\* The steps at which a run is inside a phase.
PhaseSteps == {"phase", "store", "quota", "comply", "advance", "advance_commit"}

\* The outputs that a job may not be without when it has reached status s.
Grounded(j, s) ==
    /\ s \in {"indexing", "extracting", "review_ready"} => elements[j] > 0
    /\ s \in {"extracting", "review_ready"} => chunks[j] > 0

\* What a run at each step knows: its job exists; the row it read when it began
\* was not terminal; it is in a phase whose inputs are stored, and when the
\* phase's handler is through, its output is stored too.
RunOK(r) ==
    /\ run[r].pc # "idle" => run[r].job \in Jobs /\ job[run[r].job].status # "absent"
    /\ run[r].pc = "begin_commit" =>
          /\ run[r].seen.status \in {"queued"} \cup Phases
          /\ Grounded(run[r].job, run[r].seen.status)
    /\ run[r].pc \in PhaseSteps =>
          run[r].phase \in Phases /\ Grounded(run[r].job, run[r].phase)
    /\ run[r].pc = "store" /\ run[r].phase = "indexing" => run[r].gen > 0
    /\ run[r].pc = "quota" => run[r].phase = "parsing" /\ elements[run[r].job] > 0
    /\ run[r].pc = "comply" => run[r].phase = "extracting"
    /\ run[r].pc \in {"advance", "advance_commit"} =>
          Grounded(run[r].job, NEXT_STATUS(run[r].phase))

RunsOK == \A r \in Runs : RunOK(r)

\* Messages announce jobs that exist.
MessagesOK == \A j \in Jobs : Waiting(j) => job[j].status # "absent"

IInv == TypeOK /\ RunsOK /\ MessagesOK /\ NoPhaseSkipped

-----------------------------------------------------------------------------
(* The initial states.                                                      *)

LEMMA IdleTyped == Idle \in RunState
BY PipelineAssumption DEF Idle, RunState, Snapshot, NoSnapshot, JobStatus, Steps

LEMMA InitInvariant == Init => IInv
<1> SUFFICES ASSUME Init PROVE IInv
  OBVIOUS
<1>1. TypeOK
  <2>1. run \in [Runs -> RunState]
    BY IdleTyped DEF Init
  <2>2. job \in [Jobs -> Row]
    BY DEF Init, Row, NoRow
  <2>3. queue \in [Jobs -> [0..MaxRetries -> Nat]]
    BY DEF Init
  <2>4. /\ elements \in [Jobs -> Nat] /\ chunks \in [Jobs -> Nat]
        /\ findings \in [Jobs -> Nat] /\ compliance \in [Jobs -> Nat]
    BY DEF Init
  <2>5. tender \in TenderStatus /\ tenderDeleted \in BOOLEAN
    BY DEF Init, TenderStatus
  <2>6. deleted \in [Jobs -> {"no", "alone", "with_tender"}]
    BY DEF Init
  <2>7. calls \in 0..MaxCalls /\ crashes \in 0..MaxCrashes
    BY PipelineAssumption DEF Init
  <2>8. lost \subseteq Jobs /\ duplicated \subseteq Jobs
    BY DEF Init
  <2>9. QED
    BY <2>1, <2>2, <2>3, <2>4, <2>5, <2>6, <2>7, <2>8 DEF TypeOK
<1>2. RunsOK
  BY DEF Init, RunsOK, RunOK, Idle, PhaseSteps
<1>3. MessagesOK
  BY DEF Init, MessagesOK, Waiting
<1>4. NoPhaseSkipped
  BY DEF Init, NoPhaseSkipped, NoRow
<1>5. QED
  BY <1>1, <1>2, <1>3, <1>4 DEF IInv

-----------------------------------------------------------------------------
(* Types.  What the operators of an action return, then each action.        *)

LEMMA ReadTyped ==
    ASSUME TypeOK, NEW j \in Jobs
    PROVE  Read(j) \in Snapshot
BY DEF TypeOK, Read, Snapshot, Row, TenderStatus

LEMMA SendTyped ==
    ASSUME TypeOK, NEW j \in Jobs, NEW n \in 0..MaxRetries, Send(j, n)
    PROVE  queue' \in [Jobs -> [0..MaxRetries -> Nat]]
<1> DEFINE q == [queue[j] EXCEPT ![n] = queue[j][n] + 1]
<1>1. queue \in [Jobs -> [0..MaxRetries -> Nat]]
  BY DEF TypeOK
<1>2. q \in [0..MaxRetries -> Nat]
  <2>1. queue[j] \in [0..MaxRetries -> Nat]
    BY <1>1
  <2>2. queue[j][n] \in Nat
    BY <2>1, Zenon
  <2>3. queue[j][n] + 1 \in Nat
    BY <2>2
  <2>4. QED
    BY <2>1, <2>3
<1>3. queue' = [queue EXCEPT ![j] = q]
  BY DEF Send
<1>4. QED
  BY <1>1, <1>2, <1>3

LEMMA NoteDuplicateTyped ==
    ASSUME TypeOK, NEW j \in Jobs, NoteDuplicate(j)
    PROVE  duplicated' \subseteq Jobs
BY DEF TypeOK, NoteDuplicate

LEMMA PublishTyped ==
    ASSUME TypeOK, NEW j \in Jobs, Publish(j)
    PROVE  /\ queue' \in [Jobs -> [0..MaxRetries -> Nat]]
           /\ duplicated' \subseteq Jobs
           /\ lost' \subseteq Jobs
<1>1. CASE Send(j, 0) /\ NoteDuplicate(j) /\ lost' = lost \ {j}
  <2>1. 0 \in 0..MaxRetries
    BY PipelineAssumption
  <2>2. queue' \in [Jobs -> [0..MaxRetries -> Nat]]
    BY <1>1, <2>1, SendTyped
  <2>3. QED
    BY <1>1, <2>2, NoteDuplicateTyped DEF TypeOK
<1>2. CASE lost' = lost \cup {j} /\ UNCHANGED <<queue, duplicated>>
  BY <1>2 DEF TypeOK
<1>3. QED
  BY <1>1, <1>2 DEF Publish

\* A step of one run: its record changes, the others keep theirs.
LEMMA RunTyped ==
    ASSUME TypeOK, NEW r \in Runs, NEW x \in RunState, run' = [run EXCEPT ![r] = x]
    PROVE  run' \in [Runs -> RunState]
BY DEF TypeOK

LEMMA GotoTyped ==
    ASSUME TypeOK, NEW r \in Runs, NEW step \in Steps, Goto(r, step)
    PROVE  run' \in [Runs -> RunState]
<1>1. run[r] \in RunState
  BY DEF TypeOK
<1>2. [run[r] EXCEPT !.pc = step] \in RunState
  BY <1>1 DEF RunState
<1>3. QED
  BY <1>2, RunTyped DEF Goto

LEMMA NoSnapshotTyped == NoSnapshot \in Snapshot
BY DEF NoSnapshot, Snapshot

LEMMA ThrowTyped ==
    ASSUME TypeOK, NEW r \in Runs, NEW final \in BOOLEAN, Throw(r, final)
    PROVE  run' \in [Runs -> RunState]
<1> DEFINE x == [run[r] EXCEPT !.pc = "error", !.seen = NoSnapshot, !.gen = 0, !.final = final]
<1>1. run[r] \in RunState
  BY DEF TypeOK
<1>2. x \in RunState
  BY <1>1, NoSnapshotTyped DEF RunState, Steps
<1>3. run' = [run EXCEPT ![r] = x]
  BY DEF Throw
<1>4. QED
  BY <1>2, <1>3, RunTyped

LEMMA CommitTyped ==
    ASSUME TypeOK, NEW r \in Runs, NEW step \in Steps, Commit(r, step)
    PROVE  run' \in [Runs -> RunState]
<1> DEFINE x == [run[r] EXCEPT !.pc = step, !.seen = NoSnapshot]
<1>1. run[r] \in RunState
  BY DEF TypeOK
<1>2. x \in RunState
  BY <1>1, NoSnapshotTyped DEF RunState
<1>3. run' = [run EXCEPT ![r] = x]
  BY DEF Commit
<1>4. QED
  BY <1>2, <1>3, RunTyped

LEMMA ApiTyped == ASSUME IInv, ApiStep PROVE TypeOK'
<1> USE DEF rows, data, deletion
<1>0. TypeOK
  BY DEF IInv
<1>1. CASE DeleteTender \/ RestoreTender
  <2>1. deleted' \in [Jobs -> {"no", "alone", "with_tender"}]
    BY <1>0, <1>1 DEF DeleteTender, RestoreTender, TypeOK
  <2>2. calls' \in 0..MaxCalls
    BY <1>0, <1>1, PipelineAssumption DEF DeleteTender, RestoreTender, UserCall, TypeOK
  <2>3. tenderDeleted' \in BOOLEAN
    BY <1>1 DEF DeleteTender, RestoreTender
  <2>4. QED
    BY <1>0, <1>1, <2>1, <2>2, <2>3 DEF DeleteTender, RestoreTender, TypeOK
<1>2. ASSUME NEW j \in Jobs, CompleteUpload(j) PROVE TypeOK'
  <2>1. job' \in [Jobs -> Row]
    BY <1>0, <1>2 DEF CompleteUpload, TypeOK, NewRow, Row, JobStatus
  <2>2. QED
    BY <1>0, <1>2, <2>1, PublishTyped DEF CompleteUpload, TypeOK
<1>3. ASSUME NEW j \in Jobs, RepeatComplete(j) PROVE TypeOK'
  <2>1. calls' \in 0..MaxCalls
    BY <1>0, <1>3, PipelineAssumption DEF RepeatComplete, UserCall, TypeOK
  <2>2. QED
    BY <1>0, <1>3, <2>1, PublishTyped DEF RepeatComplete, TypeOK
<1>4. ASSUME NEW j \in Jobs, RetryJob(j) PROVE TypeOK'
  <2>1. calls' \in 0..MaxCalls
    BY <1>0, <1>4, PipelineAssumption DEF RetryJob, UserCall, TypeOK
  <2>2. job' \in [Jobs -> Row]
    BY <1>0, <1>4 DEF RetryJob, RequeuedRow, TypeOK, NewRow, Row, JobStatus
  <2>3. QED
    BY <1>0, <1>4, <2>1, <2>2, PublishTyped DEF RetryJob, TypeOK
<1>5. ASSUME NEW j \in Jobs, DeleteDocument(j) PROVE TypeOK'
  <2>1. calls' \in 0..MaxCalls
    BY <1>0, <1>5, PipelineAssumption DEF DeleteDocument, UserCall, TypeOK
  <2>2. deleted' \in [Jobs -> {"no", "alone", "with_tender"}]
    BY <1>0, <1>5 DEF DeleteDocument, TypeOK
  <2>3. QED
    BY <1>0, <1>5, <2>1, <2>2 DEF DeleteDocument, TypeOK
<1>6. QED
  BY <1>1, <1>2, <1>3, <1>4, <1>5 DEF ApiStep

LEMMA FaultTyped == ASSUME IInv, FaultStep PROVE TypeOK'
<1> USE DEF rows, data, deletion
<1>0. TypeOK /\ RunsOK
  BY DEF IInv
<1>1. ASSUME NEW r \in Runs, Raise(r) PROVE TypeOK'
  <2>1. run' \in [Runs -> RunState]
    BY <1>0, <1>1, ThrowTyped DEF Raise
  <2>2. QED
    BY <1>0, <1>1, <2>1 DEF Raise, Environment, TypeOK
<1>2. ASSUME NEW r \in Runs, Crash(r) PROVE TypeOK'
  <2>1. run[r].job \in Jobs /\ run[r].retries \in 0..MaxRetries
    BY <1>0, <1>2 DEF Crash, RunsOK, RunOK, TypeOK, RunState
  <2>2. queue' \in [Jobs -> [0..MaxRetries -> Nat]]
    BY <1>0, <1>2, <2>1, SendTyped DEF Crash, Redeliver
  <2>3. duplicated' \subseteq Jobs
    BY <1>0, <1>2, <2>1, NoteDuplicateTyped DEF Crash, TypeOK
  <2>4. crashes' \in 0..MaxCrashes
    BY <1>0, <1>2, PipelineAssumption DEF Crash, TypeOK
  <2>5. run' \in [Runs -> RunState]
    BY <1>0, <1>2, IdleTyped, RunTyped DEF Crash
  <2>6. QED
    BY <1>0, <1>2, <2>2, <2>3, <2>4, <2>5 DEF Crash, TypeOK
<1>3. ASSUME NEW r \in Runs, HardTimeLimit(r) PROVE TypeOK'
  <2>1. run[r].job \in Jobs
    BY <1>0, <1>3 DEF HardTimeLimit, Live, RunsOK, RunOK
  <2>2. run' \in [Runs -> RunState]
    BY <1>0, <1>3, IdleTyped, RunTyped DEF HardTimeLimit
  <2>3. QED
    BY <1>0, <1>3, <2>1, <2>2 DEF HardTimeLimit, TypeOK
<1>4. QED
  BY <1>1, <1>2, <1>3 DEF FaultStep

\* The fields of a run's record, for the steps that update several of them.
LEMMA RunFields ==
    ASSUME TypeOK, NEW r \in Runs
    PROVE  /\ run[r] \in RunState
           /\ run[r].seen \in Snapshot /\ run[r].phase \in JobStatus
           /\ run[r].gen \in Nat /\ run[r].final \in BOOLEAN
           /\ run[r].retries \in 0..MaxRetries
BY DEF TypeOK, RunState

LEMMA BeginTyped ==
    ASSUME IInv, NEW r \in Runs, NEW j \in Jobs, BeginRead(r, j) \/ BeginCommit(r, j)
    PROVE  TypeOK'
<1> USE DEF rows, data, deletion, Environment
<1>0. TypeOK /\ RunsOK
  BY DEF IInv
<1>1. CASE BeginRead(r, j)
  <2>1. CASE Goto(r, "ack")
    <3>1. run' \in [Runs -> RunState]
      BY <1>0, <2>1, GotoTyped DEF Steps
    <3>2. QED
      BY <1>0, <1>1, <3>1 DEF BeginRead, TypeOK
  <2>2. CASE run' = [run EXCEPT ![r] = [@ EXCEPT !.pc = "begin_commit", !.seen = Read(j)]]
    <3>1. [run[r] EXCEPT !.pc = "begin_commit", !.seen = Read(j)] \in RunState
      BY <1>0, RunFields, ReadTyped DEF RunState, Steps
    <3>2. run' \in [Runs -> RunState]
      BY <1>0, <2>2, <3>1 DEF TypeOK
    <3>3. QED
      BY <1>0, <1>1, <3>2 DEF BeginRead, TypeOK
  <2>3. QED
    BY <1>1, <2>1, <2>2 DEF BeginRead
<1>2. CASE BeginCommit(r, j)
  <2> DEFINE phase == IF run[r].seen.status = "queued" THEN "parsing" ELSE run[r].seen.status
  <2>1. phase \in JobStatus
    BY <1>0, <1>2 DEF BeginCommit, At, RunsOK, RunOK, Phases, JobStatus
  <2>2. [run[r] EXCEPT !.pc = "phase", !.seen = NoSnapshot, !.phase = phase] \in RunState
    BY <1>0, <2>1, RunFields, NoSnapshotTyped DEF RunState, Steps
  <2>3. run' \in [Runs -> RunState]
    BY <1>0, <1>2, <2>2 DEF BeginCommit, TypeOK
  <2>4. job' \in [Jobs -> Row]
    BY <1>0, <1>2 DEF BeginCommit, TypeOK, Row, JobStatus
  <2>5. tender' \in TenderStatus
    BY <1>0, <1>2 DEF BeginCommit, TypeOK, TenderStatus
  <2>6. QED
    BY <1>0, <1>2, <2>3, <2>4, <2>5 DEF BeginCommit, TypeOK
<1>3. QED
  BY <1>1, <1>2

LEMMA PhaseTyped ==
    ASSUME IInv, NEW r \in Runs, NEW j \in Jobs,
           \/ PhaseRead(r, j) \/ StoreElements(r, j) \/ PageQuota(r, j)
           \/ StoreChunks(r, j) \/ StoreFindings(r, j) \/ StoreCompliance(r, j)
    PROVE  TypeOK'
<1> USE DEF rows, data, deletion, Environment
<1>0. TypeOK
  BY DEF IInv
<1>1. run[r] \in RunState /\ run[r].gen \in Nat /\ elements[j] \in Nat
  BY <1>0, RunFields DEF TypeOK
<1>2. ASSUME NEW step \in Steps, NEW gen \in Nat,
             run' = [run EXCEPT ![r] = [@ EXCEPT !.pc = step, !.gen = gen]]
      PROVE  run' \in [Runs -> RunState]
  <2>1. [run[r] EXCEPT !.pc = step, !.gen = gen] \in RunState
    BY <1>1 DEF RunState
  <2>2. QED
    BY <1>0, <1>2, <2>1 DEF TypeOK
<1>3. {"store", "quota", "comply", "advance"} \subseteq Steps
  BY DEF Steps
<1>4. CASE PhaseRead(r, j)
  <2>1. run' \in [Runs -> RunState]
    BY <1>0, <1>1, <1>2, <1>3, <1>4, ThrowTyped DEF PhaseRead
  <2>2. QED
    BY <1>0, <1>4, <2>1 DEF PhaseRead, TypeOK
<1>5. CASE StoreElements(r, j)
  <2>1. run' \in [Runs -> RunState]
    BY <1>2, <1>3, <1>5 DEF StoreElements
  <2>2. QED
    BY <1>0, <1>5, <2>1 DEF StoreElements, TypeOK
<1>6. CASE PageQuota(r, j)
  <2>1. run' \in [Runs -> RunState]
    BY <1>0, <1>3, <1>6, ThrowTyped, GotoTyped DEF PageQuota
  <2>2. QED
    BY <1>0, <1>6, <2>1 DEF PageQuota, TypeOK
<1>7. CASE StoreChunks(r, j)
  <2>1. run' \in [Runs -> RunState]
    BY <1>2, <1>3, <1>7 DEF StoreChunks
  <2>2. QED
    BY <1>0, <1>1, <1>7, <2>1 DEF StoreChunks, TypeOK
<1>8. CASE StoreFindings(r, j)
  <2>1. run' \in [Runs -> RunState]
    BY <1>0, <1>2, <1>3, <1>8, ThrowTyped, GotoTyped DEF StoreFindings
  <2>2. findings' \in [Jobs -> Nat]
    BY <1>0, <1>1, <1>8 DEF StoreFindings, TypeOK
  <2>3. QED
    BY <1>0, <1>8, <2>1, <2>2 DEF StoreFindings, TypeOK
<1>9. CASE StoreCompliance(r, j)
  <2>1. run' \in [Runs -> RunState]
    BY <1>0, <1>2, <1>3, <1>9, ThrowTyped DEF StoreCompliance
  <2>2. compliance' \in [Jobs -> Nat]
    BY <1>0, <1>1, <1>9 DEF StoreCompliance, TypeOK
  <2>3. QED
    BY <1>0, <1>9, <2>1, <2>2 DEF StoreCompliance, TypeOK
<1>10. QED
  BY <1>4, <1>5, <1>6, <1>7, <1>8, <1>9

LEMMA NextStatusTyped ==
    ASSUME NEW p \in Phases
    PROVE  NEXT_STATUS(p) \in {"indexing", "extracting", "review_ready"}
BY DEF Phases, NEXT_STATUS

LEMMA AdvanceTyped ==
    ASSUME IInv, NEW r \in Runs, NEW j \in Jobs, AdvanceRead(r, j) \/ AdvanceCommit(r, j)
    PROVE  TypeOK'
<1> USE DEF rows, data, deletion, Environment
<1> DEFINE target == NEXT_STATUS(run[r].phase)
<1>0. TypeOK /\ RunsOK
  BY DEF IInv
<1>1. CASE AdvanceRead(r, j)
  <2>1. [run[r] EXCEPT !.pc = "advance_commit", !.seen = Read(j)] \in RunState
    BY <1>0, RunFields, ReadTyped DEF RunState, Steps
  <2>2. run' \in [Runs -> RunState]
    BY <1>0, <1>1, <2>1, ThrowTyped DEF AdvanceRead, TypeOK
  <2>3. QED
    BY <1>0, <1>1, <2>2 DEF AdvanceRead, TypeOK
<1>2. CASE AdvanceCommit(r, j)
  <2>1. run[r].phase \in Phases
    BY <1>0, <1>2 DEF AdvanceCommit, At, RunsOK, RunOK, PhaseSteps
  <2>2. target \in {"indexing", "extracting", "review_ready"}
    BY <2>1, NextStatusTyped
  <2> HIDE DEF target
  <2>3. run' = [run EXCEPT ![r] =
                [run[r] EXCEPT !.pc = IF target = "review_ready" THEN "ack" ELSE "phase",
                               !.seen = NoSnapshot, !.phase = target]]
    BY <1>2 DEF AdvanceCommit, target
  <2>4. [run[r] EXCEPT !.pc = IF target = "review_ready" THEN "ack" ELSE "phase",
                       !.seen = NoSnapshot, !.phase = target] \in RunState
    BY <1>0, <2>2, RunFields, NoSnapshotTyped DEF RunState, Steps, JobStatus
  <2>5. run' \in [Runs -> RunState]
    BY <1>0, <2>3, <2>4 DEF TypeOK
  <2>6. job' = [job EXCEPT ![j] =
                [status |-> target,
                 finished |-> target = "review_ready" \/ job[j].finished,
                 error |-> job[j].error /\ ~(target = "review_ready" /\ run[r].seen.error)]]
    BY <1>2 DEF AdvanceCommit, target
  <2>7. job' \in [Jobs -> Row]
    BY <1>0, <2>2, <2>6 DEF TypeOK, Row, JobStatus
  <2>8. tender' \in TenderStatus
    BY <1>0, <1>2 DEF AdvanceCommit, TenderAfter, TypeOK, TenderStatus
  <2>9. QED
    BY <1>0, <1>2, <2>5, <2>7, <2>8 DEF AdvanceCommit, TypeOK
<1>3. QED
  BY <1>1, <1>2

LEMMA ErrorTyped ==
    ASSUME IInv, NEW r \in Runs, NEW j \in Jobs,
           \/ ErrorRead(r, j) \/ ErrorCommit(r, j) \/ ErrorLost(r, j)
           \/ Retry(r, j) \/ RetriesExhausted(r, j)
    PROVE  TypeOK'
<1> USE DEF rows, data, deletion, Environment
<1>0. TypeOK
  BY DEF IInv
<1>1. {"error_commit", "retry", "ack"} \subseteq Steps /\ AfterError(r) \in {"retry", "ack"}
  BY DEF Steps, AfterError
<1>2. CASE ErrorRead(r, j)
  <2>1. [run[r] EXCEPT !.pc = "error_commit", !.seen = Read(j)] \in RunState
    BY <1>0, RunFields, ReadTyped DEF RunState, Steps
  <2>2. QED
    BY <1>0, <1>2, <2>1 DEF ErrorRead, TypeOK
<1>3. CASE ErrorCommit(r, j)
  <2>1. run' \in [Runs -> RunState]
    BY <1>0, <1>1, <1>3, CommitTyped DEF ErrorCommit
  <2>2. job' \in [Jobs -> Row]
    <3>1. RecordsFailure(r) \in BOOLEAN
      BY <1>0, RunFields DEF RecordsFailure
    <3>2. job[j] \in Row
      BY <1>0 DEF TypeOK
    <3>3. [status |-> IF RecordsFailure(r) THEN "failed" ELSE job[j].status,
           finished |-> RecordsFailure(r) \/ job[j].finished,
           error |-> TRUE] \in Row
      BY <3>1, <3>2 DEF Row, JobStatus
    <3>4. QED
      BY <1>0, <1>3, <3>3 DEF ErrorCommit, TypeOK
  <2>3. QED
    BY <1>0, <1>3, <2>1, <2>2 DEF ErrorCommit, TypeOK
<1>4. CASE ErrorLost(r, j)
  <2>1. run' \in [Runs -> RunState]
    BY <1>0, <1>1, <1>4, CommitTyped DEF ErrorLost
  <2>2. lost' \subseteq Jobs
    BY <1>0, <1>4 DEF ErrorLost, TypeOK
  <2>3. QED
    BY <1>0, <1>4, <2>1, <2>2 DEF ErrorLost, TypeOK
<1>5. CASE Retry(r, j)
  <2>1. run[r].retries + 1 \in 0..MaxRetries
    BY <1>0, <1>5, RunFields, PipelineAssumption DEF Retry
  <2>2. queue' \in [Jobs -> [0..MaxRetries -> Nat]]
    BY <1>0, <1>5, <2>1, SendTyped DEF Retry
  <2>3. run' \in [Runs -> RunState]
    BY <1>0, <1>1, <1>5, GotoTyped DEF Retry
  <2>4. QED
    BY <1>0, <1>5, <2>2, <2>3 DEF Retry, TypeOK
<1>6. CASE RetriesExhausted(r, j)
  <2>1. run' \in [Runs -> RunState]
    BY <1>0, <1>1, <1>6, ThrowTyped, GotoTyped DEF RetriesExhausted
  <2>2. lost' \subseteq Jobs
    BY <1>0, <1>6 DEF RetriesExhausted, TypeOK
  <2>3. QED
    BY <1>0, <1>6, <2>1, <2>2 DEF RetriesExhausted, TypeOK
<1>7. QED
  BY <1>2, <1>3, <1>4, <1>5, <1>6

LEMMA DeliveryTyped ==
    ASSUME IInv, NEW r \in Runs,
           Ack(r) \/ \E j \in Jobs, n \in 0..MaxRetries : Deliver(r, j, n)
    PROVE  TypeOK'
<1> USE DEF rows, data, deletion
<1>0. TypeOK
  BY DEF IInv
<1>1. CASE Ack(r)
  <2>1. run' \in [Runs -> RunState]
    BY <1>0, <1>1, IdleTyped, RunTyped DEF Ack
  <2>2. QED
    BY <1>0, <1>1, <2>1 DEF Ack, TypeOK
<1>2. ASSUME NEW j \in Jobs, NEW n \in 0..MaxRetries, Deliver(r, j, n) PROVE TypeOK'
  <2>1. [Idle EXCEPT !.pc = "begin", !.job = j, !.retries = n] \in RunState
    BY IdleTyped DEF RunState, Steps
  <2>2. run' \in [Runs -> RunState]
    BY <1>0, <1>2, <2>1 DEF Deliver, TypeOK
  <2>3. queue \in [Jobs -> [0..MaxRetries -> Nat]] /\ queue[j] \in [0..MaxRetries -> Nat]
    BY <1>0 DEF TypeOK
  <2>4. queue[j][n] \in Nat /\ queue[j][n] > 0
    <3>1. queue[j][n] \in Nat
      BY <2>3, Zenon
    <3>2. QED
      BY <3>1, <1>2 DEF Deliver
  <2>5. queue[j][n] - 1 \in Nat
    BY <2>4
  <2>6. [queue[j] EXCEPT ![n] = queue[j][n] - 1] \in [0..MaxRetries -> Nat]
    BY <2>3, <2>5
  <2>7. queue' = [queue EXCEPT ![j] = [queue[j] EXCEPT ![n] = queue[j][n] - 1]]
    BY <1>2 DEF Deliver
  <2>8. queue' \in [Jobs -> [0..MaxRetries -> Nat]]
    BY <2>3, <2>6, <2>7
  <2>9. QED
    BY <1>0, <1>2, <2>2, <2>8 DEF Deliver, TypeOK
<1>3. QED
  BY <1>1, <1>2

LEMMA StepTyped == IInv /\ [Next]_vars => TypeOK'
<1> SUFFICES ASSUME IInv, [Next]_vars PROVE TypeOK'
  OBVIOUS
<1>1. CASE UNCHANGED vars
  BY <1>1 DEF IInv, TypeOK, vars, rows, deletion
<1>2. ASSUME NEW r \in Runs, WorkerStep(r) PROVE TypeOK'
  <2>1. ASSUME NEW j \in Jobs, RunStep(r, j) PROVE TypeOK'
    BY <2>1, BeginTyped, PhaseTyped, AdvanceTyped, ErrorTyped DEF RunStep
  <2>2. QED
    BY <1>2, <2>1, DeliveryTyped DEF WorkerStep
<1>3. QED
  BY <1>1, <1>2, ApiTyped, FaultTyped DEF Next

-----------------------------------------------------------------------------
(* What only grows: a row is never removed, and once a phase has stored its *)
(* output there is some output, whatever later phases replace it with.      *)

Grows == \A j \in Jobs :
    /\ elements[j] > 0 => elements'[j] > 0
    /\ chunks[j] > 0 => chunks'[j] > 0
    /\ job[j].status # "absent" => job'[j].status # "absent"

LEMMA StepGrows == ASSUME IInv, [Next]_vars PROVE Grows
<1> USE DEF rows, data, deletion, Environment
<1>0. /\ job \in [Jobs -> Row] /\ elements \in [Jobs -> Nat] /\ chunks \in [Jobs -> Nat]
      /\ RunsOK
  BY DEF IInv, TypeOK
<1>1. CASE UNCHANGED vars
  BY <1>1 DEF vars, Grows
<1>2. CASE ApiStep
  <2>1. UNCHANGED data
    BY <1>2 DEF ApiStep, DeleteTender, RestoreTender, CompleteUpload, RepeatComplete,
       RetryJob, DeleteDocument
  <2>2. \A i \in Jobs : job[i].status # "absent" => job'[i].status # "absent"
    BY <1>0, <1>2 DEF ApiStep, DeleteTender, RestoreTender, CompleteUpload,
       RepeatComplete, RetryJob, DeleteDocument, RequeuedRow, NewRow
  <2>3. QED
    BY <2>1, <2>2 DEF Grows
<1>3. CASE FaultStep
  BY <1>3 DEF FaultStep, Raise, Crash, HardTimeLimit, Grows
<1>4. ASSUME NEW r \in Runs, WorkerStep(r) PROVE Grows
  <2>1. CASE Ack(r) \/ \E j \in Jobs, n \in 0..MaxRetries : Deliver(r, j, n)
    BY <2>1 DEF Ack, Deliver, Grows
  <2>2. ASSUME NEW j \in Jobs,
               \/ BeginRead(r, j) \/ PhaseRead(r, j) \/ PageQuota(r, j)
               \/ StoreFindings(r, j) \/ StoreCompliance(r, j) \/ AdvanceRead(r, j)
               \/ ErrorRead(r, j) \/ ErrorLost(r, j) \/ Retry(r, j) \/ RetriesExhausted(r, j)
        PROVE  Grows
    BY <2>2 DEF BeginRead, PhaseRead, PageQuota, StoreFindings, StoreCompliance,
       AdvanceRead, ErrorRead, ErrorLost, Retry, RetriesExhausted, Grows
  <2>3. ASSUME NEW j \in Jobs, BeginCommit(r, j) PROVE Grows
    BY <1>0, <2>3 DEF BeginCommit, Grows
  <2>4. ASSUME NEW j \in Jobs, StoreElements(r, j) PROVE Grows
    BY <1>0, <2>4 DEF StoreElements, Grows
  <2>5. ASSUME NEW j \in Jobs, StoreChunks(r, j) PROVE Grows
    <3>1. run[r].gen > 0
      BY <1>0, <2>5 DEF StoreChunks, At, RunsOK, RunOK
    <3>2. QED
      BY <1>0, <2>5, <3>1 DEF StoreChunks, Grows
  <2>6. ASSUME NEW j \in Jobs, AdvanceCommit(r, j) PROVE Grows
    <3>1. NEXT_STATUS(run[r].phase) # "absent"
      BY <1>0, <2>6, NextStatusTyped DEF AdvanceCommit, At, RunsOK, RunOK, PhaseSteps
    <3>2. \A i \in Jobs : job[i].status # "absent" => job'[i].status # "absent"
      BY <1>0, <2>6, <3>1 DEF AdvanceCommit
    <3>3. QED
      BY <2>6, <3>2 DEF AdvanceCommit, Grows
  <2>7. ASSUME NEW j \in Jobs, ErrorCommit(r, j) PROVE Grows
    BY <1>0, <2>7 DEF ErrorCommit, Grows
  <2>8. QED
    BY <1>4, <2>1, <2>2, <2>3, <2>4, <2>5, <2>6, <2>7 DEF WorkerStep, RunStep
<1>5. QED
  BY <1>1, <1>2, <1>3, <1>4 DEF Next

-----------------------------------------------------------------------------
(* The runs.                                                                *)

LEMMA OtherRunOK ==
    ASSUME IInv, Grows, NEW s \in Runs, run'[s] = run[s]
    PROVE  RunOK(s)'
BY DEF IInv, RunsOK, RunOK, Grows, Grounded, PhaseSteps

\* A run outside its phases keeps its job, that is all RunOK asks.
LEMMA OutsideRunOK ==
    ASSUME IInv, Grows, NEW r \in Runs, run[r].pc # "idle",
           run'[r].job = run[r].job,
           run'[r].pc \in {"error", "error_commit", "retry", "ack"}
    PROVE  RunOK(r)'
BY DEF IInv, RunsOK, RunOK, Grows, PhaseSteps

LEMMA IdleRunOK ==
    ASSUME NEW r \in Runs, run'[r] = Idle
    PROVE  RunOK(r)'
BY DEF RunOK, Idle, PhaseSteps

\* An exception leaves the phase; nothing is changed but the run.
LEMMA ThrowRunOK ==
    ASSUME IInv, Grows, NEW r \in Runs, NEW final \in BOOLEAN, run[r].pc # "idle",
           Throw(r, final)
    PROVE  RunOK(r)'
<1>1. run'[r].pc = "error" /\ run'[r].job = run[r].job
  BY DEF IInv, TypeOK, RunState, Throw
<1>2. QED
  BY <1>1, OutsideRunOK

LEMMA GotoFields ==
    ASSUME TypeOK, NEW r \in Runs, NEW step \in Steps, Goto(r, step)
    PROVE  /\ run'[r].pc = step /\ run'[r].job = run[r].job
           /\ run'[r].phase = run[r].phase /\ run'[r].gen = run[r].gen
BY DEF TypeOK, RunState, Goto

LEMMA BeginRunOK ==
    ASSUME IInv, Grows, NEW r \in Runs, NEW j \in Jobs, BeginRead(r, j) \/ BeginCommit(r, j)
    PROVE  RunOK(r)'
<1>0. /\ run \in [Runs -> RunState] /\ run[r] \in RunState /\ job \in [Jobs -> Row]
      /\ TypeOK /\ RunOK(r) /\ NoPhaseSkipped
  BY DEF IInv, TypeOK, RunsOK
<1>1. run[r].pc # "idle" /\ run[r].job = j /\ job[j].status # "absent"
  BY <1>0 DEF BeginRead, BeginCommit, At, RunOK
<1>2. CASE BeginRead(r, j)
  <2>1. CASE Goto(r, "ack")
    BY <1>0, <1>1, <2>1, GotoFields, OutsideRunOK DEF Steps
  <2>2. CASE /\ job[j].status \notin TERMINAL_JOB_STATUSES
             /\ run' = [run EXCEPT ![r] = [@ EXCEPT !.pc = "begin_commit", !.seen = Read(j)]]
    <3>1. run'[r].pc = "begin_commit" /\ run'[r].job = j /\ run'[r].seen.status = job[j].status
      BY <1>0, <1>1, <2>2 DEF Read, RunState
    <3>2. job[j].status \in {"queued"} \cup Phases
      BY <1>0, <1>1, <2>2 DEF Row, JobStatus, TERMINAL_JOB_STATUSES, Phases
    <3>3. Grounded(j, job[j].status)
      BY <1>0 DEF NoPhaseSkipped, Grounded
    <3>4. QED
      BY <1>1, <3>1, <3>2, <3>3 DEF RunOK, Grows, Grounded, PhaseSteps
  <2>3. QED
    BY <1>2, <2>1, <2>2 DEF BeginRead
<1>3. CASE BeginCommit(r, j)
  <2> DEFINE phase == IF run[r].seen.status = "queued" THEN "parsing" ELSE run[r].seen.status
  <2>1. phase \in Phases /\ Grounded(j, phase)
    BY <1>0, <1>1, <1>3 DEF BeginCommit, At, RunOK, Phases, Grounded
  <2>2. run'[r].pc = "phase" /\ run'[r].job = j /\ run'[r].phase = phase
    BY <1>0, <1>1, <1>3 DEF BeginCommit, RunState
  <2>3. QED
    BY <1>1, <2>1, <2>2 DEF RunOK, Grows, Grounded, PhaseSteps
<1>4. QED
  BY <1>2, <1>3

LEMMA PhaseRunOK ==
    ASSUME IInv, Grows, NEW r \in Runs, NEW j \in Jobs,
           \/ PhaseRead(r, j) \/ StoreElements(r, j) \/ PageQuota(r, j)
           \/ StoreChunks(r, j) \/ StoreFindings(r, j) \/ StoreCompliance(r, j)
    PROVE  RunOK(r)'
<1>0. /\ run \in [Runs -> RunState] /\ run[r] \in RunState
      /\ elements \in [Jobs -> Nat] /\ chunks \in [Jobs -> Nat]
      /\ TypeOK /\ RunOK(r)
  BY DEF IInv, TypeOK, RunsOK
<1>1. /\ run[r].pc \in {"phase", "store", "quota", "comply"} /\ run[r].job = j
      /\ job[j].status # "absent"
      /\ run[r].phase \in Phases /\ Grounded(j, run[r].phase)
  BY <1>0 DEF PhaseRead, StoreElements, PageQuota, StoreChunks, StoreFindings,
     StoreCompliance, At, RunOK, PhaseSteps
<1>2. ASSUME NEW final \in BOOLEAN, Throw(r, final) PROVE RunOK(r)'
  BY <1>1, <1>2, ThrowRunOK
<1>3. Grounded(j, "extracting") => elements'[j] > 0 /\ chunks'[j] > 0
  BY <1>0, <1>1 DEF Grounded, Grows
<1>4. CASE /\ run' = [run EXCEPT ![r] = [@ EXCEPT !.pc = "store", !.gen = elements[j]]]
           /\ ~(run[r].phase = "indexing" /\ elements[j] = 0)
  <2>1. /\ run'[r].pc = "store" /\ run'[r].job = j /\ run'[r].phase = run[r].phase
        /\ run'[r].gen = elements[j]
    BY <1>0, <1>1, <1>4 DEF RunState
  <2>2. run[r].phase = "indexing" => elements[j] > 0
    BY <1>0, <1>1, <1>4
  <2>3. QED
    BY <1>1, <2>1, <2>2 DEF RunOK, Grows, Grounded, PhaseSteps
<1>5. CASE StoreElements(r, j)
  <2>1. run'[r].pc = "quota" /\ run'[r].job = j /\ run'[r].phase = "parsing"
    BY <1>0, <1>1, <1>5 DEF StoreElements, RunState
  <2>2. elements'[j] > 0
    BY <1>0, <1>5 DEF StoreElements
  <2>3. QED
    BY <1>1, <2>1, <2>2 DEF RunOK, Grows, Grounded, PhaseSteps, Phases
<1>6. CASE PageQuota(r, j) /\ ~Throw(r, TRUE)
  <2>1. run'[r].pc = "advance" /\ run'[r].job = j /\ run'[r].phase = run[r].phase
    BY <1>0, <1>1, <1>6, GotoFields DEF PageQuota, Steps
  <2>2. run[r].phase = "parsing" /\ elements[j] > 0
    BY <1>0, <1>1, <1>6 DEF PageQuota, At, RunOK
  <2>3. QED
    BY <1>1, <2>1, <2>2 DEF RunOK, Grows, Grounded, PhaseSteps, Phases, NEXT_STATUS
<1>7. CASE StoreChunks(r, j)
  <2>1. run'[r].pc = "advance" /\ run'[r].job = j /\ run'[r].phase = "indexing"
    BY <1>0, <1>1, <1>7 DEF StoreChunks, RunState
  <2>2. run[r].gen > 0
    BY <1>0, <1>7 DEF StoreChunks, At, RunOK
  <2>3. chunks'[j] > 0 /\ elements'[j] > 0
    BY <1>0, <1>1, <1>7, <2>2 DEF StoreChunks, Grounded
  <2>4. QED
    BY <1>1, <2>1, <2>3 DEF RunOK, Grows, Grounded, PhaseSteps, Phases, NEXT_STATUS
<1>8. CASE /\ run[r].phase = "extracting"
           /\ \/ run' = [run EXCEPT ![r] = [@ EXCEPT !.pc = "advance", !.gen = 0]]
              \/ Goto(r, "comply")
  <2>1. /\ run'[r].pc \in {"comply", "advance"} /\ run'[r].job = j
        /\ run'[r].phase = "extracting"
    <3>1. CASE Goto(r, "comply")
      BY <1>0, <1>1, <1>8, <3>1, GotoFields DEF Steps
    <3>2. CASE run' = [run EXCEPT ![r] = [@ EXCEPT !.pc = "advance", !.gen = 0]]
      BY <1>0, <1>1, <1>8, <3>2 DEF RunState
    <3>3. QED
      BY <1>8, <3>1, <3>2
  <2>2. QED
    BY <1>1, <1>3, <1>8, <2>1 DEF RunOK, Grows, Grounded, PhaseSteps, Phases, NEXT_STATUS
<1>9. CASE StoreCompliance(r, j) /\ ~Throw(r, FALSE)
  <2>1. run[r].phase = "extracting"
    BY <1>0, <1>9 DEF StoreCompliance, At, RunOK
  <2>2. run'[r].pc = "advance" /\ run'[r].job = j /\ run'[r].phase = "extracting"
    BY <1>0, <1>1, <1>9, <2>1 DEF StoreCompliance, RunState
  <2>3. QED
    BY <1>1, <1>3, <2>1, <2>2 DEF RunOK, Grows, Grounded, PhaseSteps, Phases, NEXT_STATUS
<1>10. CASE PhaseRead(r, j)
  BY <1>2, <1>4, <1>10 DEF PhaseRead
<1>11. CASE StoreFindings(r, j)
  BY <1>2, <1>8, <1>11 DEF StoreFindings
<1>12. QED
  BY <1>2, <1>5, <1>6, <1>7, <1>9, <1>10, <1>11

LEMMA AdvanceRunOK ==
    ASSUME IInv, Grows, NEW r \in Runs, NEW j \in Jobs, AdvanceRead(r, j) \/ AdvanceCommit(r, j)
    PROVE  RunOK(r)'
<1> DEFINE target == NEXT_STATUS(run[r].phase)
<1>0. run \in [Runs -> RunState] /\ run[r] \in RunState /\ TypeOK /\ RunOK(r)
  BY DEF IInv, TypeOK, RunsOK
<1>1. /\ run[r].pc \in {"advance", "advance_commit"} /\ run[r].job = j
      /\ job[j].status # "absent"
      /\ run[r].phase \in Phases /\ Grounded(j, run[r].phase) /\ Grounded(j, target)
  BY <1>0 DEF AdvanceRead, AdvanceCommit, At, RunOK, PhaseSteps
<1>2. CASE Throw(r, TRUE)
  BY <1>1, <1>2, ThrowRunOK
<1>3. CASE run' = [run EXCEPT ![r] = [@ EXCEPT !.pc = "advance_commit", !.seen = Read(j)]]
  <2>1. run'[r].pc = "advance_commit" /\ run'[r].job = j /\ run'[r].phase = run[r].phase
    BY <1>0, <1>1, <1>3 DEF RunState
  <2>2. QED
    BY <1>1, <2>1 DEF RunOK, Grows, Grounded, PhaseSteps
<1>4. CASE AdvanceCommit(r, j)
  <2>1. target \in {"indexing", "extracting", "review_ready"}
    BY <1>1, NextStatusTyped
  <2> HIDE DEF target
  <2>2. run' = [run EXCEPT ![r] =
                [run[r] EXCEPT !.pc = IF target = "review_ready" THEN "ack" ELSE "phase",
                               !.seen = NoSnapshot, !.phase = target]]
    BY <1>4 DEF AdvanceCommit, target
  <2>3. /\ run'[r].pc = IF target = "review_ready" THEN "ack" ELSE "phase"
        /\ run'[r].job = j /\ run'[r].phase = target
    BY <1>0, <1>1, <2>2 DEF RunState
  <2>4. QED
    BY <1>1, <2>1, <2>3 DEF RunOK, Grows, Grounded, PhaseSteps, Phases
<1>5. QED
  BY <1>2, <1>3, <1>4 DEF AdvanceRead

LEMMA ErrorRunOK ==
    ASSUME IInv, Grows, NEW r \in Runs, NEW j \in Jobs,
           \/ ErrorRead(r, j) \/ ErrorCommit(r, j) \/ ErrorLost(r, j)
           \/ Retry(r, j) \/ RetriesExhausted(r, j)
    PROVE  RunOK(r)'
<1>0. run \in [Runs -> RunState] /\ run[r] \in RunState /\ TypeOK
  BY DEF IInv, TypeOK
<1>1. run[r].pc # "idle"
  BY DEF ErrorRead, ErrorCommit, ErrorLost, Retry, RetriesExhausted, At
<1>2. AfterError(r) \in {"ack", "retry"}
  BY DEF AfterError
<1>3. CASE Throw(r, TRUE)
  BY <1>1, <1>3, ThrowRunOK
<1>4. CASE ErrorRead(r, j)
  BY <1>0, <1>1, <1>4, OutsideRunOK DEF ErrorRead, RunState
<1>5. CASE Commit(r, AfterError(r))
  <2>1. run'[r].pc = AfterError(r) /\ run'[r].job = run[r].job
    BY <1>0, <1>5 DEF Commit, RunState
  <2>2. QED
    BY <1>1, <1>2, <2>1, OutsideRunOK
<1>6. CASE Goto(r, "ack")
  BY <1>0, <1>1, <1>6, GotoFields, OutsideRunOK DEF Steps
<1>7. QED
  BY <1>3, <1>4, <1>5, <1>6 DEF ErrorCommit, ErrorLost, Retry, RetriesExhausted

LEMMA DeliverRunOK ==
    ASSUME IInv, Grows, NEW r \in Runs, NEW j \in Jobs, NEW n \in 0..MaxRetries,
           Deliver(r, j, n)
    PROVE  RunOK(r)'
<1>1. job'[j].status # "absent"
  BY DEF IInv, MessagesOK, Waiting, Deliver, Grows
<1>2. run'[r].pc = "begin" /\ run'[r].job = j
  BY DEF IInv, TypeOK, Deliver, Idle
<1>3. QED
  BY <1>1, <1>2 DEF RunOK, PhaseSteps

LEMMA StepRuns == ASSUME IInv, [Next]_vars PROVE RunsOK'
<1>0. Grows /\ run \in [Runs -> RunState] /\ RunsOK
  BY StepGrows DEF IInv, TypeOK
<1>1. ASSUME NEW r \in Runs, RunOK(r)',
             \A s \in Runs \ {r} : run'[s] = run[s]
      PROVE  RunsOK'
  BY <1>0, <1>1, OtherRunOK DEF RunsOK
<1>2. CASE UNCHANGED run
  BY <1>0, <1>2, OtherRunOK DEF RunsOK
<1>3. CASE UNCHANGED vars
  BY <1>2, <1>3 DEF vars
<1>4. CASE ApiStep
  BY <1>2, <1>4 DEF ApiStep, DeleteTender, RestoreTender, CompleteUpload,
     RepeatComplete, RetryJob, DeleteDocument
<1>5. ASSUME NEW r \in Runs, Raise(r) \/ Crash(r) \/ HardTimeLimit(r) PROVE RunsOK'
  <2>1. CASE Raise(r)
    <3>1. run[r].pc # "idle" /\ Throw(r, FALSE)
      BY <2>1 DEF Raise, TrySteps
    <3>2. RunOK(r)'
      BY <1>0, <3>1, ThrowRunOK
    <3>3. QED
      BY <1>0, <1>1, <3>1, <3>2 DEF Throw
  <2>2. CASE run' = [run EXCEPT ![r] = Idle]
    BY <1>0, <1>1, <2>2, IdleRunOK
  <2>3. QED
    BY <1>5, <2>1, <2>2 DEF Crash, HardTimeLimit
<1>6. ASSUME NEW r \in Runs, WorkerStep(r) PROVE RunsOK'
  <2>1. CASE Ack(r)
    BY <1>0, <1>1, <2>1, IdleRunOK DEF Ack
  <2>2. ASSUME NEW j \in Jobs, NEW n \in 0..MaxRetries, Deliver(r, j, n) PROVE RunsOK'
    BY <1>0, <1>1, <2>2, DeliverRunOK DEF Deliver
  <2>3. ASSUME NEW j \in Jobs, RunStep(r, j) PROVE RunsOK'
    <3>1. RunOK(r)'
      BY <1>0, <2>3, BeginRunOK, PhaseRunOK, AdvanceRunOK, ErrorRunOK DEF RunStep
    <3>2. \A s \in Runs \ {r} : run'[s] = run[s]
      BY <1>0, <2>3 DEF RunStep, BeginRead, BeginCommit, PhaseRead, StoreElements,
         PageQuota, StoreChunks, StoreFindings, StoreCompliance, AdvanceRead,
         AdvanceCommit, ErrorRead, ErrorCommit, ErrorLost, Retry, RetriesExhausted,
         Throw, Goto, Commit
    <3>3. QED
      BY <1>1, <3>1, <3>2
  <2>4. QED
    BY <1>6, <2>1, <2>2, <2>3 DEF WorkerStep
<1>7. QED
  BY <1>3, <1>4, <1>5, <1>6 DEF Next, FaultStep

-----------------------------------------------------------------------------
(* The messages, and the rows.                                              *)

LEMMA SendWaits ==
    ASSUME TypeOK, NEW j \in Jobs, NEW n \in 0..MaxRetries, Send(j, n), NEW i \in Jobs
    PROVE  Waiting(i)' <=> i = j \/ Waiting(i)
<1>1. queue \in [Jobs -> [0..MaxRetries -> Nat]] /\ queue[j] \in [0..MaxRetries -> Nat]
  BY DEF TypeOK
<1>2. queue[j][n] \in Nat
  BY <1>1, Zenon
<1>3. queue' = [queue EXCEPT ![j] = [queue[j] EXCEPT ![n] = queue[j][n] + 1]]
  BY DEF Send
<1>4. CASE i = j
  <2>1. queue'[j][n] = queue[j][n] + 1
    BY <1>1, <1>3
  <2>2. queue'[j][n] > 0
    BY <1>2, <2>1
  <2>3. QED
    BY <1>4, <2>2 DEF Waiting
<1>5. CASE i # j
  <2>1. queue'[i] = queue[i]
    BY <1>1, <1>3, <1>5
  <2>2. QED
    BY <1>5, <2>1 DEF Waiting
<1>6. QED
  BY <1>4, <1>5

LEMMA DeliverWaits ==
    ASSUME TypeOK, NEW r \in Runs, NEW j \in Jobs, NEW n \in 0..MaxRetries,
           Deliver(r, j, n), NEW i \in Jobs
    PROVE  /\ Waiting(i)' => Waiting(i)
           /\ i # j => (Waiting(i)' <=> Waiting(i))
<1>1. queue \in [Jobs -> [0..MaxRetries -> Nat]]
  BY DEF TypeOK
<1>2. CASE i # j
  BY <1>1, <1>2 DEF Deliver, Waiting
<1>3. CASE i = j
  BY <1>3 DEF Deliver, Waiting
<1>4. QED
  BY <1>2, <1>3

LEMMA StepMessages == ASSUME IInv, [Next]_vars PROVE MessagesOK'
<1>0. Grows /\ TypeOK /\ MessagesOK /\ RunsOK
  BY StepGrows DEF IInv
<1>1. 0 \in 0..MaxRetries
  BY PipelineAssumption
<1>2. ASSUME \A i \in Jobs : Waiting(i)' => Waiting(i) PROVE MessagesOK'
  BY <1>0, <1>2 DEF MessagesOK, Grows
<1>3. ASSUME NEW j \in Jobs, NEW n \in 0..MaxRetries, Send(j, n), job'[j].status # "absent"
      PROVE  MessagesOK'
  BY <1>0, <1>3, SendWaits DEF MessagesOK, Grows
<1>4. ASSUME NEW j \in Jobs, Publish(j), job'[j].status # "absent" PROVE MessagesOK'
  BY <1>1, <1>2, <1>3, <1>4 DEF Publish, Waiting
<1>5. CASE UNCHANGED queue
  BY <1>2, <1>5 DEF Waiting
<1>6. CASE ApiStep
  <2>1. CASE DeleteTender \/ RestoreTender \/ \E j \in Jobs : DeleteDocument(j)
    BY <1>5, <2>1 DEF DeleteTender, RestoreTender, DeleteDocument
  <2>2. ASSUME NEW j \in Jobs, CompleteUpload(j) PROVE MessagesOK'
    BY <1>0, <1>4, <2>2 DEF CompleteUpload, NewRow, TypeOK
  <2>3. ASSUME NEW j \in Jobs, RepeatComplete(j) PROVE MessagesOK'
    BY <1>0, <1>4, <2>3 DEF RepeatComplete, Grows
  <2>4. ASSUME NEW j \in Jobs, RetryJob(j) PROVE MessagesOK'
    BY <1>0, <1>4, <2>4 DEF RetryJob, Retryable, Grows
  <2>5. QED
    BY <1>6, <2>1, <2>2, <2>3, <2>4 DEF ApiStep
<1>7. CASE FaultStep
  <2>1. ASSUME NEW r \in Runs, Crash(r) PROVE MessagesOK'
    <3>1. /\ run[r].job \in Jobs /\ run[r].retries \in 0..MaxRetries
          /\ job'[run[r].job].status # "absent"
      BY <1>0, <2>1, RunFields DEF Crash, RunsOK, RunOK, Grows
    <3>2. QED
      BY <1>3, <2>1, <3>1 DEF Crash, Redeliver
  <2>2. QED
    BY <1>5, <1>7, <2>1 DEF FaultStep, Raise, HardTimeLimit
<1>8. ASSUME NEW r \in Runs, WorkerStep(r) PROVE MessagesOK'
  <2>1. ASSUME NEW j \in Jobs, NEW n \in 0..MaxRetries, Deliver(r, j, n) PROVE MessagesOK'
    BY <1>0, <1>2, <2>1, DeliverWaits
  <2>2. ASSUME NEW j \in Jobs, Retry(r, j) PROVE MessagesOK'
    <3>1. job'[j].status # "absent"
      BY <1>0, <2>2 DEF Retry, At, RunsOK, RunOK, Grows
    <3>2. run[r].retries + 1 \in 0..MaxRetries
      BY <1>0, <2>2, RunFields, PipelineAssumption DEF Retry
    <3>3. QED
      BY <1>3, <2>2, <3>1, <3>2 DEF Retry
  <2>3. ASSUME NEW j \in Jobs, RunStep(r, j), ~Retry(r, j) PROVE UNCHANGED queue
    BY <2>3 DEF RunStep, BeginRead, BeginCommit, PhaseRead, StoreElements, PageQuota,
       StoreChunks, StoreFindings, StoreCompliance, AdvanceRead, AdvanceCommit,
       ErrorRead, ErrorCommit, ErrorLost, RetriesExhausted
  <2>4. CASE Ack(r)
    BY <1>5, <2>4 DEF Ack
  <2>5. QED
    BY <1>5, <1>8, <2>1, <2>2, <2>3, <2>4 DEF WorkerStep
<1>9. CASE UNCHANGED vars
  BY <1>5, <1>9 DEF vars
<1>10. QED
  BY <1>6, <1>7, <1>8, <1>9 DEF Next

LEMMA StepNoPhaseSkipped == ASSUME IInv, [Next]_vars PROVE NoPhaseSkipped'
<1> USE DEF rows, data, deletion, Environment
<1>0. /\ Grows /\ job \in [Jobs -> Row] /\ RunsOK
      /\ \A j \in Jobs : Grounded(j, job[j].status)
  BY StepGrows DEF IInv, TypeOK, NoPhaseSkipped, Grounded
<1>1. ASSUME NEW j \in Jobs, \A i \in Jobs \ {j} : job'[i].status = job[i].status,
             \/ job'[j].status = job[j].status
             \/ Grounded(j, job'[j].status)
      PROVE  NoPhaseSkipped'
  BY <1>0, <1>1 DEF NoPhaseSkipped, Grounded, Grows
<1>2. CASE \A i \in Jobs : job'[i].status = job[i].status
  BY <1>0, <1>2 DEF NoPhaseSkipped, Grounded, Grows
<1>3. CASE ApiStep
  <2>1. ASSUME NEW j \in Jobs, CompleteUpload(j) \/ RetryJob(j) PROVE NoPhaseSkipped'
    <3>1. Grounded(j, "queued")
      BY DEF Grounded
    <3>2. /\ \A i \in Jobs \ {j} : job'[i].status = job[i].status
          /\ job'[j].status = "queued"
      BY <1>0, <2>1 DEF CompleteUpload, RetryJob, RequeuedRow, NewRow
    <3>3. QED
      BY <1>1, <3>1, <3>2
  <2>2. CASE \/ DeleteTender \/ RestoreTender
             \/ \E j \in Jobs : DeleteDocument(j) \/ RepeatComplete(j)
    BY <1>2, <2>2 DEF DeleteTender, RestoreTender, DeleteDocument, RepeatComplete
  <2>3. QED
    BY <1>3, <2>1, <2>2 DEF ApiStep
<1>4. CASE FaultStep
  BY <1>2, <1>4 DEF FaultStep, Raise, Crash, HardTimeLimit
<1>5. ASSUME NEW r \in Runs, WorkerStep(r) PROVE NoPhaseSkipped'
  <2>1. ASSUME NEW j \in Jobs, BeginCommit(r, j) PROVE NoPhaseSkipped'
    BY <1>0, <1>1, <2>1 DEF BeginCommit, Grounded
  <2>2. ASSUME NEW j \in Jobs, AdvanceCommit(r, j) PROVE NoPhaseSkipped'
    <3>1. Grounded(j, NEXT_STATUS(run[r].phase))
      BY <1>0, <2>2 DEF AdvanceCommit, At, RunsOK, RunOK
    <3>2. /\ \A i \in Jobs \ {j} : job'[i].status = job[i].status
          /\ job'[j].status = NEXT_STATUS(run[r].phase)
      BY <1>0, <2>2 DEF AdvanceCommit
    <3>3. QED
      BY <1>1, <3>1, <3>2
  <2>3. ASSUME NEW j \in Jobs, ErrorCommit(r, j) PROVE NoPhaseSkipped'
    <3>1. Grounded(j, "failed")
      BY DEF Grounded
    <3>2. /\ \A i \in Jobs \ {j} : job'[i].status = job[i].status
          /\ job'[j].status \in {job[j].status, "failed"}
      BY <1>0, <2>3 DEF ErrorCommit
    <3>3. QED
      BY <1>1, <3>1, <3>2
  <2>4. ASSUME NEW j \in Jobs, RunStep(r, j),
               ~BeginCommit(r, j), ~AdvanceCommit(r, j), ~ErrorCommit(r, j)
        PROVE  UNCHANGED job
    BY <2>4 DEF RunStep, BeginRead, PhaseRead, StoreElements, PageQuota, StoreChunks,
       StoreFindings, StoreCompliance, AdvanceRead, ErrorRead, ErrorLost, Retry,
       RetriesExhausted
  <2>5. CASE Ack(r) \/ \E j \in Jobs, n \in 0..MaxRetries : Deliver(r, j, n)
    BY <1>2, <2>5 DEF Ack, Deliver
  <2>6. QED
    BY <1>2, <1>5, <2>1, <2>2, <2>3, <2>4, <2>5 DEF WorkerStep
<1>6. CASE UNCHANGED vars
  BY <1>2, <1>6 DEF vars
<1>7. QED
  BY <1>3, <1>4, <1>5, <1>6 DEF Next

-----------------------------------------------------------------------------
(* The theorems.                                                            *)

LEMMA StepInvariant == IInv /\ [Next]_vars => IInv'
BY StepTyped, StepRuns, StepMessages, StepNoPhaseSkipped DEF IInv

\* What holds throughout, for any number of jobs, worker slots and faults: types,
\* what a run at each step carries (_run_pipeline's order of calls), messages only
\* of committed jobs (complete_upload publishes after its commit).
THEOREM Invariance == Spec => []IInv
BY InitInvariant, StepInvariant, PTL DEF Spec

\* Every variable of the pipeline keeps its type, whatever interleaves: no run
\* writes a status the enumeration lacks, no message carries a retry number
\* beyond _MAX_RETRIES.
THEOREM TypeCorrect == Spec => []TypeOK
<1>1. IInv => TypeOK
  BY DEF IInv
<1>2. QED
  BY <1>1, Invariance, PTL

\* A job that is indexing, extracting or ready has what the earlier phases
\* produce, for any number of overlapping deliveries, crashes and retries:
\* _advance follows the phase's handler, and no handler leaves nothing behind.
THEOREM PhasesInOrder == Spec => []NoPhaseSkipped
<1>1. IInv => NoPhaseSkipped
  BY DEF IInv
<1>2. QED
  BY <1>1, Invariance, PTL

-----------------------------------------------------------------------------
(* What a step of run r for job j leaves alone.                             *)

\* Run r works for job j: it may still touch the rows.
Working(r, j) == Live(r) /\ run[r].job = j

\* It works for j before and after, and touches only its own record and job.
LEMMA RunStepFrame ==
    ASSUME IInv, NEW r \in Runs, NEW j \in Jobs, RunStep(r, j)
    PROVE  /\ Working(r, j)
           /\ \A s \in Runs \ {r} : run'[s] = run[s]
           /\ run'[r].job = j
           /\ UNCHANGED duplicated
           /\ \A i \in Jobs \ {j} :
                /\ job'[i] = job[i] /\ queue'[i] = queue[i]
                /\ elements'[i] = elements[i] /\ chunks'[i] = chunks[i]
                /\ findings'[i] = findings[i] /\ compliance'[i] = compliance[i]
<1> USE DEF rows, data, deletion, Environment
<1>0. TypeOK /\ run \in [Runs -> RunState] /\ run[r] \in RunState
  BY DEF IInv, TypeOK
<1>1. /\ job \in [Jobs -> Row] /\ queue \in [Jobs -> [0..MaxRetries -> Nat]]
      /\ elements \in [Jobs -> Nat] /\ chunks \in [Jobs -> Nat]
      /\ findings \in [Jobs -> Nat] /\ compliance \in [Jobs -> Nat]
  BY DEF IInv, TypeOK
<1>2. run[r].pc \notin {"idle", "ack"}
  BY DEF RunStep, BeginRead, BeginCommit, PhaseRead, StoreElements, PageQuota,
     StoreChunks, StoreFindings, StoreCompliance, AdvanceRead, AdvanceCommit,
     ErrorRead, ErrorCommit, ErrorLost, Retry, RetriesExhausted, At
<1>3. run[r].job = j
  BY DEF RunStep, BeginRead, BeginCommit, PhaseRead, StoreElements, PageQuota,
     StoreChunks, StoreFindings, StoreCompliance, AdvanceRead, AdvanceCommit,
     ErrorRead, ErrorCommit, ErrorLost, Retry, RetriesExhausted, At
<1>4. \A s \in Runs \ {r} : run'[s] = run[s]
  BY <1>0 DEF RunStep, BeginRead, BeginCommit, PhaseRead, StoreElements,
     PageQuota, StoreChunks, StoreFindings, StoreCompliance, AdvanceRead,
     AdvanceCommit, ErrorRead, ErrorCommit, ErrorLost, Retry, RetriesExhausted,
     Throw, Goto, Commit
<1>5. run'[r].job = j
  <2>1. CASE BeginRead(r, j) \/ PhaseRead(r, j) \/ StoreElements(r, j)
    <3>1. CASE BeginRead(r, j)
      BY <1>0, <1>3, <3>1 DEF BeginRead, Goto, RunState
    <3>2. CASE PhaseRead(r, j)
      BY <1>0, <1>3, <3>2 DEF PhaseRead, Throw, RunState
    <3>3. CASE StoreElements(r, j)
      BY <1>0, <1>3, <3>3 DEF StoreElements, RunState
    <3>4. QED
      BY <2>1, <3>1, <3>2, <3>3
  <2>2. CASE PageQuota(r, j) \/ StoreChunks(r, j) \/ StoreCompliance(r, j)
    BY <1>0, <1>3, <2>2 DEF PageQuota, StoreChunks, StoreCompliance, Throw, Goto, RunState
  <2>3. CASE StoreFindings(r, j)
    <3>1. CASE Throw(r, FALSE) \/ Goto(r, "comply")
      BY <1>0, <1>3, <3>1 DEF Throw, Goto, RunState
    <3>2. CASE run' = [run EXCEPT ![r] = [@ EXCEPT !.pc = "advance", !.gen = 0]]
      BY <1>0, <1>3, <3>2 DEF RunState
    <3>3. QED
      BY <2>3, <3>1, <3>2 DEF StoreFindings
  <2>4. CASE BeginCommit(r, j)
    BY <1>0, <1>3, <2>4 DEF BeginCommit, RunState
  <2>5. CASE AdvanceCommit(r, j)
    BY <1>0, <1>3, <2>5 DEF AdvanceCommit, RunState
  <2>6. CASE AdvanceRead(r, j) \/ ErrorRead(r, j)
    BY <1>0, <1>3, <2>6 DEF AdvanceRead, ErrorRead, Throw, RunState
  <2>7. CASE ErrorCommit(r, j) \/ ErrorLost(r, j) \/ Retry(r, j) \/ RetriesExhausted(r, j)
    BY <1>0, <1>3, <2>7 DEF ErrorCommit, ErrorLost, Retry, RetriesExhausted,
       Throw, Goto, Commit, RunState
  <2>8. QED
    BY <2>1, <2>2, <2>3, <2>4, <2>5, <2>6, <2>7 DEF RunStep
<1>6. \A i \in Jobs \ {j} : job'[i] = job[i] /\ queue'[i] = queue[i]
  BY <1>1 DEF RunStep, BeginRead, BeginCommit, PhaseRead, StoreElements, PageQuota,
     StoreChunks, StoreFindings, StoreCompliance, AdvanceRead, AdvanceCommit,
     ErrorRead, ErrorCommit, ErrorLost, Retry, RetriesExhausted, Send
<1>7. \A i \in Jobs \ {j} :
          /\ elements'[i] = elements[i] /\ chunks'[i] = chunks[i]
          /\ findings'[i] = findings[i] /\ compliance'[i] = compliance[i]
  BY <1>1 DEF RunStep, BeginRead, BeginCommit, PhaseRead, StoreElements, PageQuota,
     StoreChunks, StoreFindings, StoreCompliance, AdvanceRead, AdvanceCommit,
     ErrorRead, ErrorCommit, ErrorLost, Retry, RetriesExhausted
<1>8. UNCHANGED duplicated
  BY DEF RunStep, BeginRead, BeginCommit, PhaseRead, StoreElements, PageQuota,
     StoreChunks, StoreFindings, StoreCompliance, AdvanceRead, AdvanceCommit,
     ErrorRead, ErrorCommit, ErrorLost, Retry, RetriesExhausted
<1>9. QED
  BY <1>2, <1>3, <1>4, <1>5, <1>6, <1>7, <1>8 DEF Working, Live

-----------------------------------------------------------------------------
(* No orphan.  HasDelivery is too generous to be inductive: a run that has  *)
(* read a terminal row and is about to record a final error counts as a     *)
(* delivery, but will do nothing for a job requeued meanwhile.              *)

Responsible(r) ==
    /\ Live(r)
    /\ ~(/\ run[r].pc = "error_commit" /\ run[r].final
         /\ run[r].seen.status \in TERMINAL_JOB_STATUSES)

Attended(j) == Waiting(j) \/ \E r \in Runs : Responsible(r) /\ run[r].job = j

EveryJobAttended == \A j \in Jobs \ lost : Unfinished(j) => Attended(j)

LEMMA AttendedInit == Init => EveryJobAttended
BY DEF Init, EveryJobAttended, Unfinished, NoRow

\* A step whose run stays responsible, or is not, loses no one else's work.
LEMMA AttendedByOthers ==
    ASSUME EveryJobAttended, NEW j \in Jobs,
           \A i \in Jobs \ {j} :
               /\ Unfinished(i)' => Unfinished(i)
               /\ i \in lost => i \in lost'
               /\ Waiting(i) => Waiting(i)'
               /\ \A r \in Runs : run[r].job = i => run'[r] = run[r],
           j \notin lost' /\ Unfinished(j)' => Attended(j)'
    PROVE  EveryJobAttended'
BY DEF EveryJobAttended, Attended, Responsible, Live, TERMINAL_JOB_STATUSES

\* A step of run r for job j that publishes nothing.
LEMMA AttendedByRun ==
    ASSUME IInv, EveryJobAttended, NEW r \in Runs, NEW j \in Jobs, run[r].job = j,
           \A s \in Runs \ {r} : run'[s] = run[s], run'[r].job = j,
           \A i \in Jobs \ {j} : job'[i] = job[i],
           lost \subseteq lost', UNCHANGED queue,
           \/ Responsible(r)'
           \/ ~Unfinished(j)'
           \/ j \in lost'
    PROVE  EveryJobAttended'
<1>1. j \notin lost' /\ Unfinished(j)' => Attended(j)'
  BY DEF Attended
<1>2. \A i \in Jobs \ {j} :
          /\ Unfinished(i)' => Unfinished(i)
          /\ i \in lost => i \in lost'
          /\ Waiting(i) => Waiting(i)'
          /\ \A s \in Runs : run[s].job = i => run'[s] = run[s]
  BY DEF Unfinished, Waiting
<1>3. QED
  BY <1>1, <1>2, AttendedByOthers

LEMMA AttendedRunStep ==
    ASSUME IInv, EveryJobAttended, NEW r \in Runs, NEW j \in Jobs, RunStep(r, j)
    PROVE  EveryJobAttended'
<1> USE DEF rows, data, deletion, Environment
<1>0. /\ TypeOK /\ run \in [Runs -> RunState] /\ run[r] \in RunState
      /\ job \in [Jobs -> Row] /\ RunOK(r)
  BY DEF IInv, TypeOK, RunsOK
<1>1. run[r].job = j
  BY RunStepFrame DEF Working
<1>2. \A s \in Runs \ {r} : run'[s] = run[s]
  BY RunStepFrame
<1>3. run'[r].job = j
  BY RunStepFrame
<1>4. \A i \in Jobs \ {j} : job'[i] = job[i]
  BY RunStepFrame
<1>5. lost \subseteq lost'
  BY DEF RunStep, BeginRead, BeginCommit, PhaseRead, StoreElements, PageQuota,
     StoreChunks, StoreFindings, StoreCompliance, AdvanceRead, AdvanceCommit,
     ErrorRead, ErrorCommit, ErrorLost, Retry, RetriesExhausted
<1>6. ASSUME UNCHANGED queue, Responsible(r)' \/ ~Unfinished(j)' \/ j \in lost'
      PROVE  EveryJobAttended'
  BY <1>1, <1>2, <1>3, <1>4, <1>5, <1>6, AttendedByRun
<1>7. ASSUME run'[r].pc \in Steps \ {"idle", "ack", "error_commit"} PROVE Responsible(r)'
  BY <1>7 DEF Responsible, Live
<1>8. ASSUME NEW final \in BOOLEAN, Throw(r, final) PROVE Responsible(r)'
  <2>1. run'[r].pc = "error"
    BY <1>0, <1>8 DEF Throw, RunState
  <2>2. QED
    BY <1>7, <2>1 DEF Steps
<1>9. CASE BeginRead(r, j)
  <2>1. CASE job[j].status \in TERMINAL_JOB_STATUSES
    BY <1>6, <1>9, <2>1 DEF BeginRead, Unfinished
  <2>2. CASE run' = [run EXCEPT ![r] = [@ EXCEPT !.pc = "begin_commit", !.seen = Read(j)]]
    <3>1. run'[r].pc = "begin_commit"
      BY <1>0, <2>2 DEF RunState
    <3>2. QED
      BY <1>6, <1>7, <1>9, <3>1 DEF BeginRead, Steps
  <2>3. QED
    BY <1>9, <2>1, <2>2 DEF BeginRead
<1>10. CASE BeginCommit(r, j)
  <2>1. run'[r].pc = "phase"
    BY <1>0, <1>10 DEF BeginCommit, RunState
  <2>2. QED
    BY <1>6, <1>7, <1>10, <2>1 DEF BeginCommit, Steps
<1>11. CASE \/ PhaseRead(r, j) \/ StoreElements(r, j) \/ PageQuota(r, j)
            \/ StoreChunks(r, j) \/ StoreFindings(r, j) \/ StoreCompliance(r, j)
  <2>1. run'[r].pc \in {"error", "store", "quota", "comply", "advance"}
    BY <1>0, <1>11 DEF PhaseRead, StoreElements, PageQuota, StoreChunks, StoreFindings,
       StoreCompliance, Throw, Goto, RunState
  <2>2. UNCHANGED queue
    BY <1>11 DEF PhaseRead, StoreElements, PageQuota, StoreChunks, StoreFindings,
       StoreCompliance
  <2>3. QED
    BY <1>6, <1>7, <2>1, <2>2 DEF Steps
<1>12. CASE AdvanceRead(r, j)
  <2>1. run'[r].pc \in {"error", "advance_commit"}
    BY <1>0, <1>12 DEF AdvanceRead, Throw, RunState
  <2>2. QED
    BY <1>6, <1>7, <1>12, <2>1 DEF AdvanceRead, Steps
<1>13. CASE AdvanceCommit(r, j)
  <2> DEFINE last == NEXT_STATUS(run[r].phase) = "review_ready"
  <2>1. UNCHANGED queue
    BY <1>13 DEF AdvanceCommit
  <2>2. CASE last
    <3>1. job'[j].status = "review_ready"
      BY <1>0, <1>13, <2>2 DEF AdvanceCommit
    <3>2. QED
      BY <1>6, <2>1, <3>1 DEF Unfinished, TERMINAL_JOB_STATUSES
  <2>3. CASE ~last
    <3>1. run'[r].pc = "phase"
      BY <1>0, <1>13, <2>3 DEF AdvanceCommit, RunState
    <3>2. QED
      BY <1>6, <1>7, <2>1, <3>1 DEF Steps
  <2>4. QED
    BY <2>2, <2>3
<1>14. CASE ErrorRead(r, j)
  <2>1. /\ run'[r].pc = "error_commit" /\ run'[r].final = run[r].final
        /\ run'[r].seen.status = job[j].status
    BY <1>0, <1>14 DEF ErrorRead, Read, RunState
  <2>2. Responsible(r)' \/ job[j].status \in TERMINAL_JOB_STATUSES
    BY <2>1 DEF Responsible, Live, TERMINAL_JOB_STATUSES
  <2>3. QED
    BY <1>6, <1>14, <2>2 DEF ErrorRead, Unfinished
<1>15. CASE ErrorLost(r, j) \/ RetriesExhausted(r, j)
  <2>1. run'[r].pc \in {"error", "retry"} \/ j \in lost'
    BY <1>0, <1>15 DEF ErrorLost, RetriesExhausted, AfterError, Commit, Throw, RunState
  <2>2. UNCHANGED queue
    BY <1>15 DEF ErrorLost, RetriesExhausted
  <2>3. QED
    BY <1>6, <1>7, <2>1, <2>2 DEF Steps
<1>16. CASE Retry(r, j)
  <2>1. run[r].retries + 1 \in 0..MaxRetries
    BY <1>0, <1>16, RunFields, PipelineAssumption DEF Retry
  <2>2. \A i \in Jobs : Waiting(i)' <=> i = j \/ Waiting(i)
    BY <1>0, <1>16, <2>1, SendWaits DEF Retry
  <2>3. UNCHANGED <<job, lost>>
    BY <1>16 DEF Retry
  <2>4. QED
    BY <1>1, <1>2, <2>2, <2>3, AttendedByOthers DEF Attended, Unfinished
<1>17. ASSUME ErrorCommit(r, j), ~Unfinished(j)' \/ Responsible(r)' PROVE EveryJobAttended'
  BY <1>6, <1>17 DEF ErrorCommit
<1>18. CASE ErrorCommit(r, j) /\ RecordsFailure(r)
  <2>1. job'[j].status = "failed"
    BY <1>0, <1>18 DEF ErrorCommit
  <2>2. QED
    BY <1>17, <1>18, <2>1 DEF Unfinished, TERMINAL_JOB_STATUSES
<1>19. CASE ErrorCommit(r, j) /\ ~run[r].final
  <2>1. run'[r].pc = "retry"
    BY <1>0, <1>19 DEF ErrorCommit, AfterError, Commit, RunState
  <2>2. QED
    BY <1>7, <1>17, <1>19, <2>1 DEF Steps
<1>20. CASE ErrorCommit(r, j) /\ run[r].final /\ ~RecordsFailure(r)
  <2>1. ~Responsible(r)
    BY <1>20 DEF ErrorCommit, At, RecordsFailure, Responsible
  <2>2. UNCHANGED <<queue, lost>> /\ \A i \in Jobs : job'[i].status = job[i].status
    BY <1>0, <1>20 DEF ErrorCommit
  <2>3. \A i \in Jobs : Attended(i) => Attended(i)'
    BY <1>2, <2>1, <2>2 DEF Attended, Responsible, Live, Waiting, TERMINAL_JOB_STATUSES
  <2>4. QED
    BY <2>2, <2>3 DEF EveryJobAttended, Unfinished
<1>21. QED
  BY <1>9, <1>10, <1>11, <1>12, <1>13, <1>14, <1>15, <1>16, <1>18, <1>19, <1>20 DEF RunStep

LEMMA AttendedApi == ASSUME IInv, EveryJobAttended, ApiStep PROVE EveryJobAttended'
<1> USE DEF rows, data, deletion
<1>0. TypeOK /\ job \in [Jobs -> Row] /\ 0 \in 0..MaxRetries
  BY PipelineAssumption DEF IInv, TypeOK
<1>1. ASSUME NEW j \in Jobs, Publish(j), UNCHANGED run,
             \A i \in Jobs \ {j} : job'[i] = job[i]
      PROVE  EveryJobAttended'
  <2>1. CASE Send(j, 0) /\ lost' = lost \ {j}
    <3>1. \A i \in Jobs : Waiting(i)' <=> i = j \/ Waiting(i)
      BY <1>0, <2>1, SendWaits
    <3>2. QED
      BY <1>1, <2>1, <3>1 DEF EveryJobAttended, Attended, Responsible, Live, Unfinished,
         TERMINAL_JOB_STATUSES
  <2>2. CASE lost' = lost \cup {j} /\ UNCHANGED queue
    BY <1>1, <2>2 DEF EveryJobAttended, Attended, Responsible, Live, Unfinished, Waiting,
       TERMINAL_JOB_STATUSES
  <2>3. QED
    BY <1>1, <2>1, <2>2 DEF Publish
<1>2. ASSUME NEW j \in Jobs, CompleteUpload(j) \/ RepeatComplete(j) \/ RetryJob(j)
      PROVE  EveryJobAttended'
  BY <1>0, <1>1, <1>2 DEF CompleteUpload, RepeatComplete, RetryJob
<1>3. CASE DeleteTender \/ RestoreTender \/ \E j \in Jobs : DeleteDocument(j)
  <2>1. UNCHANGED <<job, queue, run, lost>>
    BY <1>3 DEF DeleteTender, RestoreTender, DeleteDocument
  <2>2. QED
    BY <2>1 DEF EveryJobAttended, Attended, Responsible, Live, Unfinished, Waiting,
       TERMINAL_JOB_STATUSES
<1>4. QED
  BY <1>2, <1>3 DEF ApiStep

LEMMA AttendedFault == ASSUME IInv, EveryJobAttended, FaultStep PROVE EveryJobAttended'
<1> USE DEF rows, data, deletion, Environment
<1>0. TypeOK /\ run \in [Runs -> RunState] /\ RunsOK
  BY DEF IInv, TypeOK
<1>1. ASSUME NEW r \in Runs, Raise(r) PROVE EveryJobAttended'
  <2>1. run'[r].pc = "error" /\ run'[r].job = run[r].job
    BY <1>0, <1>1 DEF Raise, Throw, RunState
  <2>2. /\ \A s \in Runs \ {r} : run'[s] = run[s]
        /\ UNCHANGED <<job, queue, lost>>
    BY <1>0, <1>1 DEF Raise, Throw
  <2>3. Responsible(r)'
    BY <2>1 DEF Responsible, Live
  <2>4. run[r].job \in Jobs
    BY <1>0, <1>1 DEF Raise, TrySteps, RunsOK, RunOK
  <2>5. QED
    BY <2>1, <2>2, <2>3, <2>4, AttendedByRun
<1>2. ASSUME NEW r \in Runs, Crash(r) PROVE EveryJobAttended'
  <2>1. run[r].job \in Jobs /\ run[r].retries \in 0..MaxRetries
    BY <1>0, <1>2, RunFields DEF Crash, RunsOK, RunOK
  <2>2. \A i \in Jobs : Waiting(i)' <=> i = run[r].job \/ Waiting(i)
    BY <1>0, <1>2, <2>1, SendWaits DEF Crash, Redeliver
  <2>3. UNCHANGED <<job, lost>> /\ \A s \in Runs \ {r} : run'[s] = run[s]
    BY <1>0, <1>2 DEF Crash
  <2>4. QED
    BY <2>1, <2>2, <2>3, AttendedByOthers DEF Attended, Unfinished
<1>3. ASSUME NEW r \in Runs, HardTimeLimit(r) PROVE EveryJobAttended'
  <2>1. run[r].job \in Jobs
    BY <1>0, <1>3 DEF HardTimeLimit, Live, RunsOK, RunOK
  <2>2. /\ UNCHANGED <<job, queue>> /\ lost' = lost \cup {run[r].job}
        /\ \A s \in Runs \ {r} : run'[s] = run[s]
    BY <1>0, <1>3 DEF HardTimeLimit
  <2>3. QED
    BY <2>1, <2>2, AttendedByOthers DEF Unfinished, Waiting
<1>4. QED
  BY <1>1, <1>2, <1>3 DEF FaultStep

LEMMA AttendedDelivery ==
    ASSUME IInv, EveryJobAttended, NEW r \in Runs,
           Ack(r) \/ \E j \in Jobs, n \in 0..MaxRetries : Deliver(r, j, n)
    PROVE  EveryJobAttended'
<1> USE DEF rows, data, deletion
<1>0. TypeOK /\ run \in [Runs -> RunState]
  BY DEF IInv, TypeOK
<1>1. CASE Ack(r)
  <2>1. ~Responsible(r) /\ UNCHANGED <<job, queue, lost>>
    BY <1>1 DEF Ack, Responsible, Live
  <2>2. \A s \in Runs \ {r} : run'[s] = run[s]
    BY <1>0, <1>1 DEF Ack
  <2>3. \A i \in Jobs : Attended(i) => Attended(i)'
    BY <2>1, <2>2 DEF Attended, Responsible, Live, Waiting, TERMINAL_JOB_STATUSES
  <2>4. QED
    BY <2>1, <2>3 DEF EveryJobAttended, Unfinished
<1>2. ASSUME NEW j \in Jobs, NEW n \in 0..MaxRetries, Deliver(r, j, n)
      PROVE  EveryJobAttended'
  <2>1. ~Responsible(r) /\ UNCHANGED <<job, lost>>
    BY <1>2 DEF Deliver, Responsible, Live
  <2>2. /\ \A s \in Runs \ {r} : run'[s] = run[s]
        /\ run'[r].pc = "begin" /\ run'[r].job = j
    BY <1>0, <1>2 DEF Deliver, Idle
  <2>3. Attended(j)'
    BY <2>2 DEF Attended, Responsible, Live
  <2>4. \A i \in Jobs \ {j} : Waiting(i) => Waiting(i)'
    BY <1>0, <1>2, DeliverWaits
  <2>5. \A i \in Jobs : Attended(i) => Attended(i)'
    BY <2>1, <2>2, <2>3, <2>4 DEF Attended, Responsible, Live, TERMINAL_JOB_STATUSES
  <2>6. QED
    BY <2>1, <2>5 DEF EveryJobAttended, Unfinished
<1>3. QED
  BY <1>1, <1>2

LEMMA StepAttended ==
    IInv /\ EveryJobAttended /\ [Next]_vars => EveryJobAttended'
<1> SUFFICES ASSUME IInv, EveryJobAttended, [Next]_vars PROVE EveryJobAttended'
  OBVIOUS
<1>1. CASE UNCHANGED vars
  BY <1>1 DEF vars, rows, EveryJobAttended, Attended, Responsible, Live, Unfinished,
     Waiting, TERMINAL_JOB_STATUSES
<1>2. ASSUME NEW r \in Runs, WorkerStep(r) PROVE EveryJobAttended'
  BY <1>2, AttendedRunStep, AttendedDelivery DEF WorkerStep
<1>3. QED
  BY <1>1, <1>2, AttendedApi, AttendedFault DEF Next

\* An unfinished job is never abandoned: unless a delivery of it was dropped
\* (broker down at publication, hard time limit, a final error that could not be
\* recorded, retries that ran out uncaught), a message waits or a run works for it.
THEOREM NeverAbandoned == Spec => []NoOrphan
<1>1. Spec => []EveryJobAttended
  BY AttendedInit, StepAttended, Invariance, PTL DEF Spec
<1>2. EveryJobAttended => NoOrphan
  BY DEF EveryJobAttended, Attended, Responsible, NoOrphan, HasDelivery
<1>3. QED
  BY <1>1, <1>2, PTL

-----------------------------------------------------------------------------
(* Jobs whose deliveries never overlap.  RowConsistent, ReadyIsGrounded,    *)
(* LegalTransitions and ReadyIsFinal need to know that the one run at work  *)
(* for such a job has read what the rows still say: no transaction of the   *)
(* worker locks a row, so only being alone protects what a run has read.    *)

\* One run at work and no message, or at most one message and no run.
OneDelivery(j) ==
    /\ \A r, s \in Runs : Working(r, j) /\ Working(s, j) => r = s
    /\ Waiting(j) => \A r \in Runs : ~Working(r, j)
    /\ \A m, n \in 0..MaxRetries : queue[j][m] > 0 /\ queue[j][n] > 0 => m = n
    /\ \A n \in 0..MaxRetries : queue[j][n] \in {0, 1}

\* The status a run has read, or the phase it is in, is the row's.
KnowsRow(r, j) ==
    /\ run[r].pc = "begin_commit" => run[r].seen.status = job[j].status
    /\ run[r].pc \in PhaseSteps => run[r].phase = job[j].status
    /\ run[r].pc = "error_commit" /\ run[r].seen.status \notin TERMINAL_JOB_STATUSES
         => run[r].seen.status = job[j].status

\* The parse a run works on is the one stored; when the phase's handler is
\* through, the phase's output was made from it.
KnowsOutputs(r, j) ==
    /\ run[r].pc = "store" /\ run[r].phase \in {"indexing", "extracting"}
         => run[r].gen = elements[j]
    /\ run[r].pc = "comply" => run[r].gen = elements[j] /\ findings[j] = elements[j]
    /\ run[r].pc \in {"advance", "advance_commit"} =>
          /\ run[r].phase = "indexing" => chunks[j] = elements[j]
          /\ run[r].phase = "extracting" /\ LlmEnabled
               => findings[j] = elements[j] /\ compliance[j] = elements[j]

RowTrue(j) ==
    /\ job[j].finished <=> job[j].status \in TERMINAL_JOB_STATUSES
    /\ job[j].status = "failed" => job[j].error

OutputsTrue(j) ==
    /\ job[j].status \in {"extracting", "review_ready"} => chunks[j] = elements[j]
    /\ job[j].status = "review_ready" /\ LlmEnabled
         => findings[j] = elements[j] /\ compliance[j] = elements[j]

Undisturbed(j) ==
    /\ OneDelivery(j) /\ RowTrue(j) /\ OutputsTrue(j)
    /\ \A r \in Runs : Working(r, j) => KnowsRow(r, j) /\ KnowsOutputs(r, j)

AloneInv == \A j \in Jobs \ duplicated : Undisturbed(j)

LEMMA AloneInit == Init => AloneInv
<1> SUFFICES ASSUME Init, NEW j \in Jobs PROVE Undisturbed(j)
  BY DEF AloneInv
<1>1. \A r \in Runs : ~Working(r, j)
  BY DEF Init, Working, Live, Idle
<1>2. OneDelivery(j)
  BY <1>1 DEF Init, OneDelivery, Waiting
<1>3. RowTrue(j) /\ OutputsTrue(j)
  BY DEF Init, RowTrue, OutputsTrue, NoRow, TERMINAL_JOB_STATUSES
<1>4. QED
  BY <1>1, <1>2, <1>3 DEF Undisturbed

-----------------------------------------------------------------------------
(* Its steps keep a job undisturbed.                                        *)

\* A job is undisturbed by a step that changes neither its rows nor its messages
\* and starts no run for it.
LEMMA AloneSame ==
    ASSUME NEW j \in Jobs, Undisturbed(j),
           job'[j] = job[j], queue'[j] = queue[j],
           elements'[j] = elements[j], chunks'[j] = chunks[j],
           findings'[j] = findings[j], compliance'[j] = compliance[j],
           \A s \in Runs : Working(s, j)' => Working(s, j) /\ run'[s] = run[s]
    PROVE  Undisturbed(j)'
<1>1. OneDelivery(j)'
  BY DEF Undisturbed, OneDelivery, Waiting
<1>2. RowTrue(j)' /\ OutputsTrue(j)'
  BY DEF Undisturbed, RowTrue, OutputsTrue, TERMINAL_JOB_STATUSES
<1>3. ASSUME NEW s \in Runs, Working(s, j)' PROVE KnowsRow(s, j)' /\ KnowsOutputs(s, j)'
  <2>1. Working(s, j) /\ run'[s] = run[s] /\ KnowsRow(s, j) /\ KnowsOutputs(s, j)
    BY <1>3 DEF Undisturbed
  <2>2. KnowsRow(s, j)'
    BY <2>1 DEF KnowsRow, PhaseSteps, TERMINAL_JOB_STATUSES
  <2>3. KnowsOutputs(s, j)'
    BY <2>1 DEF KnowsOutputs
  <2>4. QED
    BY <2>2, <2>3
<1>4. QED
  BY <1>1, <1>2, <1>3 DEF Undisturbed

\* The job's only run takes a step that sends no message.
LEMMA AloneOwnStep ==
    ASSUME NEW j \in Jobs, Undisturbed(j), NEW r \in Runs, Working(r, j),
           \A s \in Runs \ {r} : run'[s] = run[s],
           queue'[j] = queue[j],
           RowTrue(j)', OutputsTrue(j)',
           Working(r, j)' => KnowsRow(r, j)' /\ KnowsOutputs(r, j)'
    PROVE  Undisturbed(j)'
<1>1. \A s \in Runs : Working(s, j)' => s = r
  BY DEF Undisturbed, OneDelivery, Working, Live
<1>2. OneDelivery(j)'
  BY <1>1 DEF Undisturbed, OneDelivery, Waiting
<1>3. QED
  BY <1>1, <1>2 DEF Undisturbed

\* What the job's only run may assume at each of its steps.
LEMMA AloneFacts ==
    ASSUME IInv, NEW j \in Jobs, Undisturbed(j), NEW r \in Runs, Working(r, j)
    PROVE  /\ run[r].job = j /\ job[j].status # "absent"
           /\ KnowsRow(r, j) /\ KnowsOutputs(r, j) /\ RowTrue(j) /\ OutputsTrue(j)
           /\ run[r].pc = "begin_commit" => run[r].seen.status \in {"queued"} \cup Phases
           /\ run[r].pc \in PhaseSteps => run[r].phase \in Phases
           /\ run[r].pc = "quota" => run[r].phase = "parsing"
           /\ run[r].pc = "comply" => run[r].phase = "extracting"
           /\ \A n \in 0..MaxRetries : queue[j][n] = 0
<1>1. RunOK(r) /\ run[r].job = j /\ run[r].pc # "idle"
  BY DEF IInv, RunsOK, Working, Live
<1>2. ~Waiting(j) /\ OneDelivery(j)
  BY DEF Undisturbed, OneDelivery
<1>3. \A n \in 0..MaxRetries : queue[j][n] = 0
  BY <1>2 DEF Waiting, OneDelivery
<1>4. job[j].status # "absent"
  BY <1>1 DEF RunOK
<1>5. KnowsRow(r, j) /\ KnowsOutputs(r, j) /\ RowTrue(j) /\ OutputsTrue(j)
  BY DEF Undisturbed
<1>6. /\ run[r].pc = "begin_commit" => run[r].seen.status \in {"queued"} \cup Phases
      /\ run[r].pc \in PhaseSteps => run[r].phase \in Phases
      /\ run[r].pc = "quota" => run[r].phase = "parsing"
      /\ run[r].pc = "comply" => run[r].phase = "extracting"
  BY <1>1 DEF RunOK
<1>7. QED
  BY <1>1, <1>3, <1>4, <1>5, <1>6

\* Outside its transactions and phases a run has nothing to remember.
LEMMA AloneForgets ==
    ASSUME NEW j \in Jobs, Undisturbed(j), NEW r \in Runs, Working(r, j),
           \A s \in Runs \ {r} : run'[s] = run[s],
           run'[r].pc \in {"begin", "error", "retry", "ack", "idle"},
           queue'[j] = queue[j], RowTrue(j)', OutputsTrue(j)'
    PROVE  Undisturbed(j)'
<1>1. KnowsRow(r, j)' /\ KnowsOutputs(r, j)'
  BY DEF KnowsRow, KnowsOutputs, PhaseSteps
<1>2. QED
  BY <1>1, AloneOwnStep

\* The rows say what they said when a step changes none of the job's rows.
LEMMA RowsSame ==
    ASSUME NEW j \in Jobs, Undisturbed(j), UNCHANGED <<job, data>>
    PROVE  RowTrue(j)' /\ OutputsTrue(j)'
BY DEF Undisturbed, RowTrue, OutputsTrue, TERMINAL_JOB_STATUSES, data

\* The only message of a job that no run works for.
LEMMA AloneSends ==
    ASSUME TypeOK, NEW j \in Jobs, NEW n \in 0..MaxRetries, Send(j, n),
           \A m \in 0..MaxRetries : queue[j][m] = 0,
           \A s \in Runs : ~Working(s, j)',
           RowTrue(j)', OutputsTrue(j)'
    PROVE  Undisturbed(j)'
<1>1. queue'[j] = [queue[j] EXCEPT ![n] = queue[j][n] + 1] /\ queue[j][n] + 1 = 1
  BY DEF TypeOK, Send
<1>2. queue[j] \in [0..MaxRetries -> Nat]
  BY DEF TypeOK
<1>3. queue'[j][n] = 1 /\ \A m \in 0..MaxRetries \ {n} : queue'[j][m] = 0
  BY <1>1, <1>2, Zenon
<1>4. OneDelivery(j)'
  <2>1. \A m \in 0..MaxRetries : queue'[j][m] \in {0, 1}
    BY <1>3
  <2>2. \A m, k \in 0..MaxRetries : queue'[j][m] > 0 /\ queue'[j][k] > 0 => m = k
    <3>1. \A m \in 0..MaxRetries : queue'[j][m] > 0 => m = n
      BY <1>3
    <3>2. QED
      BY <3>1
  <2>3. QED
    BY <2>1, <2>2 DEF OneDelivery, Waiting
<1>5. QED
  BY <1>4 DEF Undisturbed

LEMMA AloneThrow ==
    ASSUME TypeOK, NEW j \in Jobs, Undisturbed(j), NEW r \in Runs, Working(r, j),
           NEW final \in BOOLEAN, Throw(r, final), UNCHANGED <<job, data, queue>>
    PROVE  Undisturbed(j)'
<1>1. run'[r].pc = "error" /\ \A s \in Runs \ {r} : run'[s] = run[s]
  BY DEF TypeOK, Throw, RunState
<1>2. QED
  BY <1>1, AloneForgets, RowsSame

LEMMA AloneBegin ==
    ASSUME IInv, NEW j \in Jobs, Undisturbed(j), NEW r \in Runs,
           BeginRead(r, j) \/ BeginCommit(r, j)
    PROVE  Undisturbed(j)'
<1> USE DEF rows
<1>0. TypeOK /\ run[r] \in RunState /\ RunStep(r, j)
  BY RunFields DEF IInv, RunStep
<1>1. /\ Working(r, j) /\ \A s \in Runs \ {r} : run'[s] = run[s]
      /\ run'[r].job = j
  BY <1>0, RunStepFrame
<1>2. CASE BeginRead(r, j)
  <2>1. UNCHANGED <<job, data, queue>> /\ RowTrue(j)' /\ OutputsTrue(j)'
    BY <1>2, RowsSame DEF BeginRead, data
  <2>2. CASE run'[r].pc = "ack"
    BY <1>1, <2>1, <2>2, AloneForgets
  <2>3. CASE run' = [run EXCEPT ![r] = [@ EXCEPT !.pc = "begin_commit", !.seen = Read(j)]]
    <3>1. run'[r].pc = "begin_commit" /\ run'[r].seen.status = job[j].status
      BY <1>0, <2>3 DEF TypeOK, RunState, Read
    <3>2. KnowsRow(r, j)' /\ KnowsOutputs(r, j)'
      BY <2>1, <3>1 DEF KnowsRow, KnowsOutputs, PhaseSteps
    <3>3. QED
      BY <1>1, <2>1, <3>2, AloneOwnStep
  <2>4. QED
    BY <1>0, <1>2, <2>2, <2>3, GotoFields DEF BeginRead, Steps
<1>3. CASE BeginCommit(r, j)
  <2> DEFINE phase == IF job[j].status = "queued" THEN "parsing" ELSE job[j].status
  <2>1. /\ run[r].seen.status = job[j].status /\ job[j].status \in {"queued"} \cup Phases
        /\ RowTrue(j) /\ OutputsTrue(j)
    BY <1>1, <1>3, AloneFacts DEF BeginCommit, At, KnowsRow
  <2>2. run'[r].pc = "phase" /\ run'[r].phase = phase
    BY <1>0, <1>3, <2>1 DEF BeginCommit, TypeOK, RunState
  <2>3. job'[j].status = phase /\ job'[j].finished = job[j].finished
    BY <1>0, <1>3, <2>1 DEF BeginCommit, TypeOK, Row
  <2>4. UNCHANGED <<elements, chunks, findings, compliance, queue>>
    BY <1>3 DEF BeginCommit, data
  <2>5. RowTrue(j)'
    BY <2>1, <2>3 DEF RowTrue, TERMINAL_JOB_STATUSES, Phases
  <2>6. OutputsTrue(j)'
    BY <2>1, <2>3, <2>4 DEF OutputsTrue, Phases
  <2>7. KnowsRow(r, j)' /\ KnowsOutputs(r, j)'
    BY <2>2, <2>3 DEF KnowsRow, KnowsOutputs
  <2>8. QED
    BY <1>1, <2>4, <2>5, <2>6, <2>7, AloneOwnStep
<1>4. QED
  BY <1>2, <1>3

LEMMA AlonePhase ==
    ASSUME IInv, NEW j \in Jobs, Undisturbed(j), NEW r \in Runs,
           \/ PhaseRead(r, j) \/ StoreElements(r, j) \/ PageQuota(r, j)
           \/ StoreChunks(r, j) \/ StoreFindings(r, j) \/ StoreCompliance(r, j)
    PROVE  Undisturbed(j)'
<1> USE DEF rows
<1>0. TypeOK /\ run \in [Runs -> RunState] /\ run[r] \in RunState /\ RunStep(r, j)
  BY RunFields DEF IInv, RunStep, TypeOK
<1>1. /\ Working(r, j) /\ \A s \in Runs \ {r} : run'[s] = run[s]
      /\ run'[r].job = j
  BY <1>0, RunStepFrame
<1>2. /\ KnowsRow(r, j) /\ KnowsOutputs(r, j) /\ RowTrue(j) /\ OutputsTrue(j)
      /\ run[r].pc \in PhaseSteps => run[r].phase \in Phases
      /\ run[r].pc = "quota" => run[r].phase = "parsing"
      /\ run[r].pc = "comply" => run[r].phase = "extracting"
  BY <1>1, AloneFacts
<1>3. UNCHANGED <<job, queue>> /\ RowTrue(j)'
  BY <1>2 DEF PhaseRead, StoreElements, PageQuota, StoreChunks, StoreFindings,
     StoreCompliance, RowTrue, TERMINAL_JOB_STATUSES
<1>4. run[r].phase = job[j].status
  BY <1>2 DEF PhaseRead, StoreElements, PageQuota, StoreChunks, StoreFindings,
     StoreCompliance, At, KnowsRow, PhaseSteps
<1>5. ASSUME UNCHANGED data, NEW final \in BOOLEAN, Throw(r, final) PROVE Undisturbed(j)'
  BY <1>0, <1>1, <1>3, <1>5, AloneThrow
<1>6. ASSUME run'[r].pc \in {"store", "quota", "comply", "advance"},
             run'[r].phase = run[r].phase, OutputsTrue(j)', KnowsOutputs(r, j)'
      PROVE  Undisturbed(j)'
  <2>1. KnowsRow(r, j)'
    BY <1>3, <1>4, <1>6 DEF KnowsRow
  <2>2. QED
    BY <1>1, <1>3, <1>6, <2>1, AloneOwnStep
<1>7. CASE PhaseRead(r, j)
  <2>1. UNCHANGED data /\ OutputsTrue(j)'
    BY <1>7, RowsSame DEF PhaseRead, data
  <2>2. CASE run' = [run EXCEPT ![r] = [@ EXCEPT !.pc = "store", !.gen = elements[j]]]
    <3>1. /\ run'[r].pc = "store" /\ run'[r].phase = run[r].phase
          /\ run'[r].gen = elements[j]
      BY <1>0, <2>2 DEF TypeOK, RunState
    <3>2. KnowsOutputs(r, j)'
      BY <2>1, <3>1 DEF KnowsOutputs, data
    <3>3. QED
      BY <1>6, <2>1, <3>1, <3>2
  <2>3. QED
    BY <1>5, <1>7, <2>1, <2>2 DEF PhaseRead
<1>8. CASE StoreElements(r, j)
  <2>1. run'[r].pc = "quota" /\ run'[r].phase = run[r].phase /\ run[r].phase = "parsing"
    BY <1>0, <1>8 DEF StoreElements, TypeOK, RunState
  <2>2. OutputsTrue(j)' /\ KnowsOutputs(r, j)'
    BY <1>3, <1>4, <2>1 DEF OutputsTrue, KnowsOutputs
  <2>3. QED
    BY <1>6, <2>1, <2>2
<1>9. CASE PageQuota(r, j)
  <2>1. UNCHANGED data /\ OutputsTrue(j)' /\ run[r].phase = "parsing"
    BY <1>2, <1>9, RowsSame DEF PageQuota, At, data
  <2>2. CASE Goto(r, "advance")
    <3>1. run'[r].pc = "advance" /\ run'[r].phase = run[r].phase
      BY <1>0, <2>2, GotoFields DEF Steps
    <3>2. KnowsOutputs(r, j)'
      BY <2>1, <3>1 DEF KnowsOutputs
    <3>3. QED
      BY <1>6, <2>1, <3>1, <3>2
  <2>3. QED
    BY <1>5, <1>9, <2>1, <2>2 DEF PageQuota
<1>10. CASE StoreChunks(r, j)
  <2>1. /\ run'[r].pc = "advance" /\ run'[r].phase = run[r].phase
        /\ run[r].phase = "indexing" /\ run[r].gen = elements[j]
    BY <1>0, <1>2, <1>10 DEF StoreChunks, At, TypeOK, RunState, KnowsOutputs
  <2>2. chunks'[j] = elements[j] /\ elements'[j] = elements[j]
    BY <1>0, <1>10, <2>1 DEF StoreChunks, TypeOK
  <2>3. OutputsTrue(j)' /\ KnowsOutputs(r, j)'
    BY <1>3, <1>4, <2>1, <2>2 DEF OutputsTrue, KnowsOutputs
  <2>4. QED
    BY <1>6, <2>1, <2>3
<1>11. CASE StoreFindings(r, j)
  <2>1. /\ run[r].phase = "extracting" /\ run[r].gen = elements[j]
        /\ chunks[j] = elements[j]
    BY <1>2, <1>4, <1>11 DEF StoreFindings, At, KnowsOutputs, OutputsTrue
  <2>2. UNCHANGED <<elements, chunks>>
    BY <1>11 DEF StoreFindings
  <2>3. OutputsTrue(j)'
    BY <1>3, <1>4, <2>1, <2>2 DEF OutputsTrue
  <2>4. CASE ~LlmEnabled
    <3>1. run' = [run EXCEPT ![r] = [@ EXCEPT !.pc = "advance", !.gen = 0]]
      BY <1>11, <2>4 DEF StoreFindings
    <3>2. run'[r].pc = "advance" /\ run'[r].phase = run[r].phase
      BY <1>0, <3>1 DEF RunState
    <3>3. KnowsOutputs(r, j)'
      BY <2>1, <2>4, <3>2 DEF KnowsOutputs
    <3>4. QED
      BY <1>6, <2>3, <3>2, <3>3
  <2>5. CASE LlmEnabled
    <3>1. Goto(r, "comply") /\ findings'[j] = elements[j]
      BY <1>0, <1>11, <2>1, <2>5 DEF StoreFindings, TypeOK
    <3>2. /\ run'[r].pc = "comply" /\ run'[r].phase = run[r].phase
          /\ run'[r].gen = run[r].gen
      BY <1>0, <3>1, GotoFields DEF Steps
    <3>3. KnowsOutputs(r, j)'
      BY <2>1, <2>2, <3>1, <3>2 DEF KnowsOutputs
    <3>4. QED
      BY <1>6, <2>3, <3>2, <3>3
  <2>6. QED
    BY <2>4, <2>5
<1>12. CASE StoreCompliance(r, j)
  <2>1. /\ run[r].phase = "extracting" /\ run[r].gen = elements[j]
        /\ findings[j] = elements[j] /\ chunks[j] = elements[j]
    BY <1>2, <1>4, <1>12 DEF StoreCompliance, At, KnowsOutputs, OutputsTrue
  <2>2. UNCHANGED <<elements, chunks, findings>> /\ compliance'[j] = elements[j]
    BY <1>0, <1>12, <2>1 DEF StoreCompliance, TypeOK
  <2>3. run'[r].pc = "advance" /\ run'[r].phase = run[r].phase
    BY <1>0, <1>12, <2>1 DEF StoreCompliance, RunState
  <2>4. OutputsTrue(j)' /\ KnowsOutputs(r, j)'
    BY <1>3, <1>4, <2>1, <2>2, <2>3 DEF OutputsTrue, KnowsOutputs
  <2>5. QED
    BY <1>6, <2>3, <2>4
<1>13. QED
  BY <1>7, <1>8, <1>9, <1>10, <1>11, <1>12

LEMMA AloneAdvance ==
    ASSUME IInv, NEW j \in Jobs, Undisturbed(j), NEW r \in Runs,
           AdvanceRead(r, j) \/ AdvanceCommit(r, j)
    PROVE  Undisturbed(j)'
<1> USE DEF rows
<1> DEFINE target == NEXT_STATUS(run[r].phase)
<1>0. TypeOK /\ run[r] \in RunState /\ RunStep(r, j)
  BY RunFields DEF IInv, RunStep
<1>1. /\ Working(r, j) /\ \A s \in Runs \ {r} : run'[s] = run[s]
      /\ run'[r].job = j
  BY <1>0, RunStepFrame
<1>2. /\ KnowsRow(r, j) /\ KnowsOutputs(r, j) /\ RowTrue(j) /\ OutputsTrue(j)
      /\ run[r].pc \in PhaseSteps => run[r].phase \in Phases
  BY <1>1, AloneFacts
<1>3. /\ run[r].phase = job[j].status /\ run[r].phase \in Phases
      /\ run[r].pc \in {"advance", "advance_commit"}
  BY <1>2 DEF AdvanceRead, AdvanceCommit, At, KnowsRow, PhaseSteps
<1>4. CASE AdvanceRead(r, j)
  <2>1. UNCHANGED <<job, data, queue>> /\ RowTrue(j)' /\ OutputsTrue(j)'
    BY <1>4, RowsSame DEF AdvanceRead, data
  <2>2. CASE Throw(r, TRUE)
    BY <1>0, <1>1, <2>1, <2>2, AloneThrow
  <2>3. CASE run' = [run EXCEPT ![r] = [@ EXCEPT !.pc = "advance_commit", !.seen = Read(j)]]
    <3>1. run'[r].pc = "advance_commit" /\ run'[r].phase = run[r].phase
      BY <1>0, <2>3 DEF TypeOK, RunState
    <3>2. KnowsRow(r, j)'
      BY <1>3, <2>1, <3>1 DEF KnowsRow
    <3>3. KnowsOutputs(r, j)'
      BY <1>2, <1>3, <2>1, <3>1 DEF KnowsOutputs, data
    <3>4. QED
      BY <1>1, <2>1, <3>2, <3>3, AloneOwnStep
  <2>4. QED
    BY <1>4, <2>2, <2>3 DEF AdvanceRead
<1>5. CASE AdvanceCommit(r, j)
  <2>1. /\ UNCHANGED <<elements, chunks, findings, compliance, queue>>
    BY <1>5 DEF AdvanceCommit, data
  <2>2. /\ job'[j].status = target
        /\ job'[j].finished <=> target = "review_ready" \/ job[j].finished
    <3>1. job[j] \in Row
      BY <1>0 DEF TypeOK
    <3>2. QED
      BY <1>0, <1>5, <3>1 DEF AdvanceCommit, TypeOK, Row
  <2>3. /\ run'[r].pc = (IF target = "review_ready" THEN "ack" ELSE "phase")
        /\ run'[r].phase = target
    BY <1>0, <1>5 DEF AdvanceCommit, TypeOK, RunState
  <2>4. /\ target \in {"indexing", "extracting", "review_ready"}
        /\ target = "extracting" => run[r].phase = "indexing"
        /\ target = "review_ready" => run[r].phase = "extracting"
    BY <1>3 DEF Phases, NEXT_STATUS
  <2> HIDE DEF target
  <2>5. ~job[j].finished
    BY <1>2, <1>3 DEF RowTrue, Phases, TERMINAL_JOB_STATUSES
  <2>6. RowTrue(j)'
    BY <2>2, <2>4, <2>5 DEF RowTrue, TERMINAL_JOB_STATUSES
  <2>7. OutputsTrue(j)'
    BY <1>2, <1>3, <2>1, <2>2, <2>4 DEF OutputsTrue, KnowsOutputs
  <2>8. KnowsRow(r, j)' /\ KnowsOutputs(r, j)'
    BY <2>2, <2>3 DEF KnowsRow, KnowsOutputs, PhaseSteps
  <2>9. QED
    BY <1>1, <2>1, <2>6, <2>7, <2>8, AloneOwnStep
<1>6. QED
  BY <1>4, <1>5

\* RecordsFailure is of the row as it stands: the failure closes an open job.
LEMMA AloneError ==
    ASSUME IInv, NEW j \in Jobs, Undisturbed(j), NEW r \in Runs,
           \/ ErrorRead(r, j) \/ ErrorCommit(r, j) \/ ErrorLost(r, j)
           \/ Retry(r, j) \/ RetriesExhausted(r, j)
    PROVE  Undisturbed(j)'
<1> USE DEF rows
<1>0. TypeOK /\ run \in [Runs -> RunState] /\ run[r] \in RunState /\ RunStep(r, j)
  BY RunFields DEF IInv, RunStep, TypeOK
<1>1. /\ Working(r, j) /\ \A s \in Runs \ {r} : run'[s] = run[s]
      /\ run'[r].job = j
  BY <1>0, RunStepFrame
<1>2. CASE ErrorRead(r, j)
  <2>1. UNCHANGED <<job, data, queue>> /\ RowTrue(j)' /\ OutputsTrue(j)'
    BY <1>2, RowsSame DEF ErrorRead, data
  <2>2. run'[r].pc = "error_commit" /\ run'[r].seen.status = job[j].status
    BY <1>0, <1>2 DEF ErrorRead, RunState, Read
  <2>3. KnowsRow(r, j)' /\ KnowsOutputs(r, j)'
    BY <2>1, <2>2 DEF KnowsRow, KnowsOutputs, PhaseSteps
  <2>4. QED
    BY <1>1, <2>1, <2>3, AloneOwnStep
<1>3. CASE ErrorCommit(r, j)
  <2>1. UNCHANGED <<data, queue>>
    BY <1>3 DEF ErrorCommit, data
  <2>2. /\ job'[j].status = (IF RecordsFailure(r) THEN "failed" ELSE job[j].status)
        /\ job'[j].finished <=> RecordsFailure(r) \/ job[j].finished
        /\ job'[j].error
    BY <1>0, <1>3 DEF ErrorCommit, TypeOK
  <2>3. run'[r].pc \in {"retry", "ack"}
    BY <1>0, <1>3 DEF ErrorCommit, Commit, AfterError, RunState
  <2>4. RowTrue(j) /\ OutputsTrue(j)
    BY DEF Undisturbed
  <2>5. RowTrue(j)'
    BY <2>2, <2>4 DEF RowTrue, TERMINAL_JOB_STATUSES
  <2>6. OutputsTrue(j)'
    BY <2>1, <2>2, <2>4 DEF OutputsTrue, data
  <2>7. QED
    BY <1>1, <2>1, <2>3, <2>5, <2>6, AloneForgets
<1>4. CASE ErrorLost(r, j)
  <2>1. UNCHANGED <<job, data, queue>> /\ RowTrue(j)' /\ OutputsTrue(j)'
    BY <1>4, RowsSame DEF ErrorLost, data
  <2>2. run'[r].pc \in {"retry", "ack"}
    BY <1>0, <1>4 DEF ErrorLost, Commit, AfterError, RunState
  <2>3. QED
    BY <1>1, <2>1, <2>2, AloneForgets
<1>5. CASE Retry(r, j)
  <2>1. /\ run'[r].pc = "ack" /\ \A s \in Runs : ~Working(s, j)'
        /\ UNCHANGED <<job, data>>
    <3>1. run'[r].pc = "ack"
      BY <1>0, <1>5, GotoFields DEF Retry, Steps
    <3>2. \A s \in Runs : Working(s, j) => s = r
      BY <1>1 DEF Undisturbed, OneDelivery
    <3>3. QED
      BY <1>1, <1>5, <3>1, <3>2 DEF Retry, Working, Live, data
  <2>2. run[r].retries + 1 \in 0..MaxRetries /\ \A n \in 0..MaxRetries : queue[j][n] = 0
    BY <1>0, <1>1, <1>5, RunFields, AloneFacts, PipelineAssumption DEF Retry
  <2>3. QED
    BY <1>0, <1>5, <2>1, <2>2, AloneSends, RowsSame DEF Retry
<1>6. CASE RetriesExhausted(r, j)
  <2>1. UNCHANGED <<job, data, queue>> /\ RowTrue(j)' /\ OutputsTrue(j)'
    BY <1>6, RowsSame DEF RetriesExhausted, data
  <2>2. CASE Throw(r, TRUE)
    BY <1>0, <1>1, <2>1, <2>2, AloneThrow
  <2>3. CASE Goto(r, "ack")
    <3>1. run'[r].pc = "ack"
      BY <1>0, <2>3, GotoFields DEF Steps
    <3>2. QED
      BY <1>1, <2>1, <3>1, AloneForgets
  <2>4. QED
    BY <1>6, <2>2, <2>3 DEF RetriesExhausted
<1>7. QED
  BY <1>2, <1>3, <1>4, <1>5, <1>6

LEMMA AloneRunStep ==
    ASSUME IInv, AloneInv, NEW r \in Runs, NEW i \in Jobs, RunStep(r, i)
    PROVE  AloneInv'
<1> SUFFICES ASSUME NEW j \in Jobs, j \notin duplicated' PROVE Undisturbed(j)'
  BY DEF AloneInv
<1>1. Undisturbed(j)
  BY RunStepFrame DEF AloneInv
<1>2. CASE i = j
  BY <1>1, <1>2, AloneBegin, AlonePhase, AloneAdvance, AloneError DEF RunStep
<1>3. CASE i # j
  <2>1. \A s \in Runs : Working(s, j)' => Working(s, j) /\ run'[s] = run[s]
    BY <1>3, RunStepFrame DEF Working, Live
  <2>2. QED
    BY <1>1, <1>3, <2>1, RunStepFrame, AloneSame
<1>4. QED
  BY <1>2, <1>3

LEMMA AlonePublish ==
    ASSUME IInv, AloneInv, NEW i \in Jobs, Publish(i),
           UNCHANGED <<data, run>>, \A j \in Jobs \ {i} : job'[j] = job[j],
           \/ job[i].status \in {"absent", "failed"} /\ job'[i] = NewRow
           \/ job'[i] = job[i]
    PROVE  AloneInv'
<1> USE DEF data
<1> SUFFICES ASSUME NEW j \in Jobs, j \notin duplicated' PROVE Undisturbed(j)'
  BY DEF AloneInv
<1>0. TypeOK /\ queue \in [Jobs -> [0..MaxRetries -> Nat]] /\ 0 \in 0..MaxRetries
  <2>1. TypeOK /\ 0 \in 0..MaxRetries
    BY PipelineAssumption DEF IInv
  <2>2. QED
    BY <2>1 DEF TypeOK
<1>1. Undisturbed(j)
  BY DEF AloneInv, Publish, NoteDuplicate
<1>2. \A s \in Runs : Working(s, j)' <=> Working(s, j)
  BY DEF Working, Live
<1>3. RowTrue(j)' /\ OutputsTrue(j)'
  BY <1>1 DEF Undisturbed, RowTrue, OutputsTrue, NewRow, TERMINAL_JOB_STATUSES
<1>4. CASE i # j
  <2>1. queue'[j] = queue[j]
    BY <1>0, <1>4 DEF Publish, Send
  <2>2. QED
    BY <1>1, <1>2, <1>4, <2>1, AloneSame
<1>5. CASE i = j /\ Send(j, 0) /\ NoteDuplicate(j)
  <2>1. ~HasDelivery(j)
    BY <1>5 DEF NoteDuplicate
  <2>2. \A s \in Runs : ~Working(s, j)'
    BY <1>2, <2>1 DEF HasDelivery, Working
  <2>3. \A n \in 0..MaxRetries : queue[j][n] = 0
    BY <1>1, <2>1 DEF HasDelivery, Waiting, Undisturbed, OneDelivery
  <2>4. QED
    BY <1>0, <1>3, <1>5, <2>2, <2>3, AloneSends
<1>6. CASE i = j /\ UNCHANGED queue /\ job'[j] = job[j]
  BY <1>1, <1>2, <1>6, AloneSame
<1>7. CASE i = j /\ UNCHANGED queue /\ job[j].status \in {"absent", "failed"}
  <2>1. OneDelivery(j)'
    BY <1>1, <1>2, <1>7 DEF Undisturbed, OneDelivery, Waiting
  <2>2. ASSUME NEW s \in Runs, Working(s, j)' PROVE KnowsRow(s, j)' /\ KnowsOutputs(s, j)'
    <3>1. Working(s, j) /\ KnowsRow(s, j) /\ KnowsOutputs(s, j)
      BY <1>1, <1>2, <2>2 DEF Undisturbed
    <3>2. /\ job[j].status # "absent"
          /\ run[s].pc = "begin_commit" => run[s].seen.status \in {"queued"} \cup Phases
          /\ run[s].pc \in PhaseSteps => run[s].phase \in Phases
      BY <1>1, <3>1, AloneFacts
    <3>3. job[j].status = "failed"
      BY <1>7, <3>2
    <3>4. /\ run[s].pc \notin PhaseSteps \cup {"begin_commit"}
          /\ run[s].pc = "error_commit" => run[s].seen.status \in TERMINAL_JOB_STATUSES
      BY <3>1, <3>2, <3>3 DEF KnowsRow, Phases, TERMINAL_JOB_STATUSES
    <3>5. KnowsRow(s, j)'
      BY <3>4 DEF KnowsRow, PhaseSteps, TERMINAL_JOB_STATUSES
    <3>6. KnowsOutputs(s, j)'
      BY <3>4 DEF KnowsOutputs, PhaseSteps
    <3>7. QED
      BY <3>5, <3>6
  <2>3. QED
    BY <1>3, <2>1, <2>2 DEF Undisturbed
<1>8. QED
  BY <1>4, <1>5, <1>6, <1>7 DEF Publish

LEMMA AloneApi == ASSUME IInv, AloneInv, ApiStep PROVE AloneInv'
<1> USE DEF rows, deletion
<1>0. job \in [Jobs -> Row]
  BY DEF IInv, TypeOK
<1>1. CASE DeleteTender \/ RestoreTender \/ \E i \in Jobs : DeleteDocument(i)
  <2>1. UNCHANGED <<job, elements, chunks, findings, compliance, queue, run, duplicated>>
    BY <1>1 DEF DeleteTender, RestoreTender, DeleteDocument
  <2>2. QED
    BY <2>1, AloneSame DEF AloneInv, Working, Live
<1>2. ASSUME NEW i \in Jobs, CompleteUpload(i) \/ RepeatComplete(i) \/ RetryJob(i)
      PROVE  AloneInv'
  <2>1. Publish(i) /\ UNCHANGED <<data, run>> /\ \A j \in Jobs \ {i} : job'[j] = job[j]
    BY <1>0, <1>2 DEF CompleteUpload, RepeatComplete, RetryJob, data
  <2>2. \/ job[i].status \in {"absent", "failed"} /\ job'[i] = NewRow
        \/ job'[i] = job[i]
    BY <1>0, <1>2 DEF CompleteUpload, RepeatComplete, RetryJob, Retryable, RequeuedRow
  <2>3. QED
    BY <2>1, <2>2, AlonePublish
<1>3. QED
  BY <1>1, <1>2 DEF ApiStep

LEMMA AloneFault == ASSUME IInv, AloneInv, FaultStep PROVE AloneInv'
<1> USE DEF rows, deletion
<1>0. /\ TypeOK /\ RunsOK /\ run \in [Runs -> RunState]
      /\ queue \in [Jobs -> [0..MaxRetries -> Nat]]
  BY DEF IInv, TypeOK
<1>1. ASSUME NEW r \in Runs, Raise(r) PROVE AloneInv'
  <2>1. /\ Throw(r, FALSE) /\ UNCHANGED <<job, data, queue, duplicated>> /\ Live(r)
        /\ \A s \in Runs \ {r} : run'[s] = run[s]
        /\ run'[r].job = run[r].job
    <3>1. run[r] \in RunState
      BY <1>0
    <3>2. QED
      BY <1>0, <1>1, <3>1 DEF Raise, Throw, Environment, data, TrySteps, Live, RunState
  <2>2. ASSUME NEW j \in Jobs, Undisturbed(j) PROVE Undisturbed(j)'
    <3>1. CASE run[r].job = j
      BY <1>0, <2>1, <2>2, <3>1, AloneThrow DEF Working
    <3>2. CASE run[r].job # j
      BY <2>1, <2>2, <3>2, AloneSame DEF Working, Live, data
    <3>3. QED
      BY <3>1, <3>2
  <2>3. QED
    BY <2>1, <2>2 DEF AloneInv
<1>2. ASSUME NEW r \in Runs, Crash(r) PROVE AloneInv'
  <2> DEFINE i == run[r].job
  <2>1. i \in Jobs /\ run[r].retries \in 0..MaxRetries
    BY <1>0, <1>2, RunFields DEF Crash, RunsOK, RunOK
  <2>2. /\ Send(i, run[r].retries) /\ UNCHANGED <<job, data>>
        /\ run'[r] = Idle /\ \A s \in Runs \ {r} : run'[s] = run[s]
    BY <1>0, <1>2 DEF Crash, Redeliver, data
  <2>3. \A s \in Runs : s = r => ~Live(s)'
    BY <2>2 DEF Live, Idle
  <2> HIDE DEF i
  <2>4. ASSUME NEW j \in Jobs, j \notin duplicated' PROVE Undisturbed(j)'
    <3>1. Undisturbed(j)
      BY <1>2, <2>4 DEF AloneInv, Crash, NoteDuplicate
    <3>2. CASE i # j
      <4>1. queue'[j] = queue[j]
        BY <1>0, <2>1, <2>2, <3>2 DEF Send
      <4>2. \A s \in Runs : Working(s, j)' => Working(s, j) /\ run'[s] = run[s]
        BY <2>2, <2>3 DEF Working, Live
      <4>3. QED
        BY <2>2, <3>1, <4>1, <4>2, AloneSame DEF data
    <3>3. CASE i = j
      <4>1. ~Waiting(j) /\ \A s \in Runs \ {r} : ~Working(s, j)
        <5>1. CASE Live(r)
          BY <3>1, <3>3, <5>1 DEF i, Undisturbed, OneDelivery, Working
        <5>2. CASE ~Live(r)
          BY <1>2, <2>4, <3>3, <5>2 DEF i, Crash, NoteDuplicate, HasDelivery, Working
        <5>3. QED
          BY <5>1, <5>2
      <4>2. \A n \in 0..MaxRetries : queue[j][n] = 0
        BY <3>1, <4>1 DEF Waiting, Undisturbed, OneDelivery
      <4>3. \A s \in Runs : ~Working(s, j)'
        BY <2>2, <2>3, <4>1 DEF Working, Live
      <4>4. QED
        BY <1>0, <2>1, <2>2, <3>1, <3>3, <4>2, <4>3, AloneSends, RowsSame
    <3>4. QED
      BY <3>2, <3>3
  <2>5. QED
    BY <2>4 DEF AloneInv
<1>3. ASSUME NEW r \in Runs, HardTimeLimit(r) PROVE AloneInv'
  <2>1. /\ UNCHANGED <<job, elements, chunks, findings, compliance, queue, duplicated>>
        /\ run'[r] = Idle /\ \A s \in Runs \ {r} : run'[s] = run[s]
    BY <1>0, <1>3 DEF HardTimeLimit
  <2>2. ~Live(r)'
    BY <2>1 DEF Live, Idle
  <2>3. \A j \in Jobs, s \in Runs : Working(s, j)' => Working(s, j) /\ run'[s] = run[s]
    BY <2>1, <2>2 DEF Working, Live
  <2>4. QED
    BY <2>1, <2>3, AloneSame DEF AloneInv
<1>4. QED
  BY <1>1, <1>2, <1>3 DEF FaultStep

LEMMA AloneDelivery ==
    ASSUME IInv, AloneInv, NEW r \in Runs,
           Ack(r) \/ \E j \in Jobs, n \in 0..MaxRetries : Deliver(r, j, n)
    PROVE  AloneInv'
<1> USE DEF rows, deletion
<1>0. TypeOK /\ run \in [Runs -> RunState] /\ queue \in [Jobs -> [0..MaxRetries -> Nat]]
  BY DEF IInv, TypeOK
<1>1. CASE Ack(r)
  <2>1. /\ UNCHANGED <<job, elements, chunks, findings, compliance, queue, duplicated>>
        /\ run'[r] = Idle /\ \A s \in Runs \ {r} : run'[s] = run[s]
    BY <1>0, <1>1 DEF Ack
  <2>2. ~Live(r)'
    BY <2>1 DEF Live, Idle
  <2>3. \A j \in Jobs, s \in Runs : Working(s, j)' => Working(s, j) /\ run'[s] = run[s]
    BY <2>1, <2>2 DEF Working, Live
  <2>4. QED
    BY <2>1, <2>3, AloneSame DEF AloneInv
<1>2. ASSUME NEW i \in Jobs, NEW n \in 0..MaxRetries, Deliver(r, i, n) PROVE AloneInv'
  <2>1. /\ UNCHANGED <<job, elements, chunks, findings, compliance, duplicated>>
        /\ run'[r].pc = "begin" /\ run'[r].job = i
        /\ \A s \in Runs \ {r} : run'[s] = run[s]
        /\ ~Live(r)
    BY <1>0, <1>2 DEF Deliver, Idle, Live
  <2>2. ASSUME NEW j \in Jobs, Undisturbed(j) PROVE Undisturbed(j)'
    <3>1. CASE i # j
      <4>1. queue'[j] = queue[j]
        BY <1>0, <1>2, <3>1 DEF Deliver
      <4>2. \A s \in Runs : Working(s, j)' => Working(s, j) /\ run'[s] = run[s]
        BY <2>1, <3>1 DEF Working, Live
      <4>3. QED
        BY <2>1, <2>2, <4>1, <4>2, AloneSame
    <3>2. CASE i = j
      <4>1. queue[j][n] > 0 /\ queue'[j] = [queue[j] EXCEPT ![n] = queue[j][n] - 1]
        BY <1>0, <1>2, <3>2 DEF Deliver
      <4>2. queue[j] \in [0..MaxRetries -> Nat]
        BY <1>0
      <4>3. queue[j][n] = 1 /\ \A m \in 0..MaxRetries \ {n} : queue[j][m] = 0
        BY <2>2, <4>1, <4>2 DEF Undisturbed, OneDelivery
      <4>4. \A m \in 0..MaxRetries : queue'[j][m] = 0
        <5>1. queue[j][n] - 1 = 0
          BY <4>3
        <5>2. QED
          BY <4>1, <4>2, <4>3, <5>1, Zenon
      <4>5. \A s \in Runs : Working(s, j)' => s = r
        BY <2>1, <2>2, <4>1 DEF Undisturbed, OneDelivery, Waiting, Working, Live
      <4>6. OneDelivery(j)'
        BY <4>4, <4>5 DEF OneDelivery, Waiting
      <4>7. RowTrue(j)' /\ OutputsTrue(j)'
        BY <2>1, <2>2, RowsSame DEF data
      <4>8. KnowsRow(r, j)' /\ KnowsOutputs(r, j)'
        BY <2>1 DEF KnowsRow, KnowsOutputs, PhaseSteps
      <4>9. QED
        BY <4>5, <4>6, <4>7, <4>8 DEF Undisturbed
    <3>3. QED
      BY <3>1, <3>2
  <2>3. QED
    BY <2>1, <2>2 DEF AloneInv
<1>3. QED
  BY <1>1, <1>2

LEMMA StepAlone == IInv /\ AloneInv /\ [Next]_vars => AloneInv'
<1> SUFFICES ASSUME IInv, AloneInv, [Next]_vars PROVE AloneInv'
  OBVIOUS
<1>1. CASE UNCHANGED vars
  <2>1. UNCHANGED <<job, elements, chunks, findings, compliance, queue, run, duplicated>>
    BY <1>1 DEF vars, rows
  <2>2. QED
    BY <2>1, AloneSame DEF AloneInv, Working, Live
<1>2. ASSUME NEW r \in Runs, WorkerStep(r) PROVE AloneInv'
  BY <1>2, AloneRunStep, AloneDelivery DEF WorkerStep
<1>3. QED
  BY <1>1, <1>2, AloneApi, AloneFault DEF Next

\* Every job whose deliveries never overlapped is undisturbed, throughout.
LEMMA AloneInvariance == Spec => [](IInv /\ AloneInv)
BY InitInvariant, StepInvariant, AloneInit, StepAlone, PTL DEF Spec

\* A job whose deliveries never overlapped has an end time exactly when it is
\* terminal, and says why once it failed (_record_error, _advance, retry_job).
THEOREM RowsTellTheTruth == Spec => []RowConsistent
<1>1. AloneInv => RowConsistent
  BY DEF AloneInv, Undisturbed, RowTrue, RowConsistent
<1>2. QED
  BY <1>1, AloneInvariance, PTL

\* What a ready job shows was made from the elements now stored, however often
\* its phases were retried, if its deliveries never overlapped.
THEOREM ReadyGrounded == Spec => []ReadyIsGrounded
<1>1. AloneInv => ReadyIsGrounded
  BY DEF AloneInv, Undisturbed, OutputsTrue, ReadyIsGrounded
<1>2. QED
  BY <1>1, AloneInvariance, PTL

-----------------------------------------------------------------------------
(* What a step may do to the rows of an undisturbed job.                    *)

\* A legal change of status, and nothing to a job that is ready.
Respects(j) ==
    /\ job[j].status \notin {"absent", job'[j].status} =>
          <<job[j].status, job'[j].status>> \in JOB_TRANSITIONS
    /\ job[j].status = "review_ready" =>
          /\ job'[j].status = "review_ready" /\ elements'[j] = elements[j]
          /\ findings'[j] = findings[j] /\ compliance'[j] = compliance[j]

LEMMA RespectsSame ==
    ASSUME NEW j \in Jobs, job'[j].status = job[j].status, elements'[j] = elements[j],
           findings'[j] = findings[j], compliance'[j] = compliance[j]
    PROVE  Respects(j)
BY DEF Respects

LEMMA OwnStepRespects ==
    ASSUME IInv, NEW j \in Jobs, Undisturbed(j), NEW r \in Runs, RunStep(r, j)
    PROVE  Respects(j)
<1> USE DEF rows, data
<1>0. TypeOK /\ job \in [Jobs -> Row]
  BY DEF IInv, TypeOK
<1>1. /\ KnowsRow(r, j) /\ job[j].status # "absent"
      /\ run[r].pc = "begin_commit" => run[r].seen.status \in {"queued"} \cup Phases
      /\ run[r].pc \in PhaseSteps => run[r].phase \in Phases
      /\ run[r].pc = "comply" => run[r].phase = "extracting"
  BY RunStepFrame, AloneFacts
<1>2. CASE \/ BeginRead(r, j) \/ PhaseRead(r, j) \/ PageQuota(r, j) \/ AdvanceRead(r, j)
           \/ ErrorRead(r, j) \/ ErrorLost(r, j) \/ Retry(r, j) \/ RetriesExhausted(r, j)
           \/ StoreChunks(r, j)
  BY <1>2, RespectsSame DEF BeginRead, PhaseRead, PageQuota, AdvanceRead, ErrorRead,
     ErrorLost, Retry, RetriesExhausted, StoreChunks
<1>3. CASE StoreElements(r, j) \/ StoreFindings(r, j) \/ StoreCompliance(r, j)
  <2>1. UNCHANGED job /\ job[j].status \in Phases
    BY <1>1, <1>3 DEF StoreElements, StoreFindings, StoreCompliance, At, KnowsRow,
       PhaseSteps
  <2>2. QED
    BY <2>1 DEF Respects, Phases
<1>4. CASE BeginCommit(r, j)
  <2>1. job[j].status \in {"queued"} \cup Phases /\ run[r].seen.status = job[j].status
    BY <1>1, <1>4 DEF BeginCommit, At, KnowsRow
  <2>2. job'[j].status = (IF job[j].status = "queued" THEN "parsing" ELSE job[j].status)
    BY <1>0, <1>4, <2>1 DEF BeginCommit, Row
  <2>3. QED
    BY <2>1, <2>2 DEF Respects, Phases, JOB_TRANSITIONS
<1>5. CASE AdvanceCommit(r, j)
  <2>1. run[r].phase = job[j].status /\ job[j].status \in Phases
    BY <1>1, <1>5 DEF AdvanceCommit, At, KnowsRow, PhaseSteps
  <2>2. job'[j].status = NEXT_STATUS(job[j].status)
    BY <1>0, <1>5, <2>1 DEF AdvanceCommit
  <2>3. <<job[j].status, job'[j].status>> \in JOB_TRANSITIONS
    BY <2>1, <2>2 DEF Phases, NEXT_STATUS, JOB_TRANSITIONS
  <2>4. QED
    BY <2>1, <2>3 DEF Respects, Phases
<1>6. CASE ErrorCommit(r, j)
  <2>1. CASE RecordsFailure(r)
    <3>1. run[r].seen.status = job[j].status /\ job[j].status \notin TERMINAL_JOB_STATUSES
      BY <1>1, <1>6, <2>1 DEF ErrorCommit, At, KnowsRow, RecordsFailure
    <3>2. job[j].status \in {"queued", "parsing", "indexing", "extracting"}
      BY <1>0, <1>1, <3>1 DEF Row, JobStatus, TERMINAL_JOB_STATUSES
    <3>3. job'[j].status = "failed"
      BY <1>0, <1>6, <2>1 DEF ErrorCommit
    <3>4. QED
      BY <3>2, <3>3 DEF Respects, JOB_TRANSITIONS
  <2>2. CASE ~RecordsFailure(r)
    <3>1. job'[j].status = job[j].status
      BY <1>0, <1>6, <2>2 DEF ErrorCommit
    <3>2. QED
      BY <1>6, <3>1, RespectsSame DEF ErrorCommit
  <2>3. QED
    BY <2>1, <2>2
<1>7. QED
  BY <1>2, <1>3, <1>4, <1>5, <1>6 DEF RunStep

LEMMA StepRespects ==
    ASSUME IInv, AloneInv, [Next]_vars, NEW j \in Jobs, j \notin duplicated'
    PROVE  Respects(j) /\ j \notin duplicated
<1> USE DEF rows, data, deletion, Environment
<1>0. job \in [Jobs -> Row] /\ NewRow.status = "queued"
  BY DEF IInv, TypeOK, NewRow
<1>1. CASE UNCHANGED vars
  BY <1>1, RespectsSame DEF vars
<1>2. CASE DeleteTender \/ RestoreTender \/ \E i \in Jobs : DeleteDocument(i)
  BY <1>2, RespectsSame DEF DeleteTender, RestoreTender, DeleteDocument
<1>3. ASSUME NEW i \in Jobs, CompleteUpload(i) \/ RepeatComplete(i) \/ RetryJob(i)
      PROVE  Respects(j) /\ j \notin duplicated
  <2>1. UNCHANGED <<elements, findings, compliance>> /\ j \notin duplicated
    BY <1>3 DEF CompleteUpload, RepeatComplete, RetryJob, Publish, NoteDuplicate
  <2>2. \/ job'[j] = job[j]
        \/ job[j].status \in {"absent", "failed"} /\ job'[j].status = "queued"
    BY <1>0, <1>3 DEF CompleteUpload, RepeatComplete, RetryJob, Retryable, RequeuedRow
  <2>3. QED
    BY <2>1, <2>2 DEF Respects, JOB_TRANSITIONS
<1>4. ASSUME NEW r \in Runs, Raise(r) \/ Crash(r) \/ HardTimeLimit(r) \/ Ack(r)
      PROVE  Respects(j) /\ j \notin duplicated
  BY <1>4, RespectsSame DEF Raise, Crash, HardTimeLimit, Ack, NoteDuplicate
<1>5. ASSUME NEW r \in Runs, NEW i \in Jobs, NEW n \in 0..MaxRetries, Deliver(r, i, n)
      PROVE  Respects(j) /\ j \notin duplicated
  BY <1>5, RespectsSame DEF Deliver
<1>6. ASSUME NEW r \in Runs, NEW i \in Jobs, RunStep(r, i)
      PROVE  Respects(j) /\ j \notin duplicated
  <2>1. j \notin duplicated
    BY <1>6, RunStepFrame
  <2>2. CASE i = j
    BY <1>6, <2>1, <2>2, OwnStepRespects DEF AloneInv
  <2>3. CASE i # j
    BY <1>6, <2>1, <2>3, RunStepFrame, RespectsSame
  <2>4. QED
    BY <2>1, <2>2, <2>3
<1>7. QED
  BY <1>1, <1>2, <1>3, <1>4, <1>5, <1>6 DEF Next, ApiStep, FaultStep, WorkerStep

\* The rows follow the state machine although no transaction of the worker locks
\* them, as long as the job's deliveries never overlapped.
THEOREM TransitionsAreLegal == Spec => LegalTransitions
<1>1. IInv /\ AloneInv /\ [Next]_vars =>
        [\A j \in Jobs \ duplicated' :
            job[j].status \notin {"absent", job'[j].status} =>
                <<job[j].status, job'[j].status>> \in JOB_TRANSITIONS]_vars
  BY StepRespects DEF Respects
<1>2. QED
  BY <1>1, AloneInvariance, PTL DEF Spec, LegalTransitions

\* What a user reviews does not change under them: no run touches a job that is
\* ready, nor its elements, findings or compliance results, without overlap.
THEOREM ReadyStays == Spec => ReadyIsFinal
<1>1. IInv /\ AloneInv /\ [Next]_vars =>
        [\A j \in Jobs \ duplicated' :
            job[j].status = "review_ready" =>
                /\ job'[j].status = "review_ready" /\ elements'[j] = elements[j]
                /\ findings'[j] = findings[j] /\ compliance'[j] = compliance[j]]_vars
  BY StepRespects DEF Respects
<1>2. QED
  BY <1>1, AloneInvariance, PTL DEF Spec, ReadyIsFinal

\* The tender becomes ready with a job that does, and that job stays ready.
LEMMA StepTender ==
    ASSUME IInv, AloneInv, [Next]_vars, TenderHasReadyJob
    PROVE  TenderHasReadyJob'
<1> USE DEF rows, data, deletion, Environment
<1>0. job \in [Jobs -> Row]
  BY DEF IInv, TypeOK
<1>1. tender' = "review_ready" =>
        tender = "review_ready" \/ \E j \in Jobs : job'[j].status = "review_ready"
  <2>1. ASSUME NEW r \in Runs, NEW j \in Jobs, AdvanceCommit(r, j),
               tender' = "review_ready", tender # "review_ready"
        PROVE  job'[j].status = "review_ready"
    <3>1. NEXT_STATUS(run[r].phase) = "review_ready"
      BY <2>1 DEF AdvanceCommit, TenderAfter
    <3>2. QED
      BY <1>0, <2>1, <3>1 DEF AdvanceCommit
  <2>2. ASSUME NEW r \in Runs, NEW j \in Jobs, RunStep(r, j)
        PROVE  tender' = "review_ready" => tender = "review_ready" \/ AdvanceCommit(r, j)
    BY <2>2 DEF RunStep, BeginRead, BeginCommit, PhaseRead, StoreElements, PageQuota,
       StoreChunks, StoreFindings, StoreCompliance, AdvanceRead, ErrorRead,
       ErrorCommit, ErrorLost, Retry, RetriesExhausted
  <2>3. ASSUME NEW r \in Runs, NEW j \in Jobs, RunStep(r, j)
        PROVE  tender' = "review_ready" =>
                 tender = "review_ready" \/ \E i \in Jobs : job'[i].status = "review_ready"
    BY <2>1, <2>2, <2>3
  <2>4. CASE UNCHANGED vars
    BY <2>4 DEF vars
  <2>5. CASE ApiStep
    BY <2>5 DEF ApiStep, DeleteTender, RestoreTender, CompleteUpload, RepeatComplete,
       RetryJob, DeleteDocument
  <2>6. CASE FaultStep
    BY <2>6 DEF FaultStep, Raise, Crash, HardTimeLimit
  <2>7. ASSUME NEW r \in Runs,
               Ack(r) \/ \E j \in Jobs, n \in 0..MaxRetries : Deliver(r, j, n)
        PROVE  UNCHANGED tender
    BY <2>7 DEF Ack, Deliver
  <2>8. QED
    BY <2>3, <2>4, <2>5, <2>6, <2>7 DEF Next, WorkerStep
<1>2. ASSUME NEW j \in Jobs, job[j].status = "review_ready" \/ j \in duplicated
      PROVE  job'[j].status = "review_ready" \/ j \in duplicated'
  BY <1>2, StepRespects DEF Respects
<1>3. QED
  BY <1>1, <1>2 DEF TenderHasReadyJob

\* A tender is ready only when one of its documents has got there (or had its
\* deliveries overlap): _advance moves it with the last phase of a job.
THEOREM TenderReadyWithJob == Spec => []TenderHasReadyJob
<1>1. Init => TenderHasReadyJob
  BY DEF Init, TenderHasReadyJob
<1>2. IInv /\ AloneInv /\ [Next]_vars /\ TenderHasReadyJob => TenderHasReadyJob'
  BY StepTender
<1>3. QED
  BY <1>1, <1>2, AloneInvariance, PTL DEF Spec

-----------------------------------------------------------------------------
(* The instance of jobs and documents together.                             *)

(***************************************************************************)
(* A behaviour of two documents of one tender is one of their jobs and one *)
(* of their rows and files: what is proved of each module holds of both    *)
(* together.                                                               *)
(***************************************************************************)
THEOREM TenderIsEach == TenderSpec => Spec /\ StorageSpec
<1>1. TenderInit => Init /\ StorageInit
  BY DEF TenderInit
<1>2. [TenderNext]_<<focus, vars, storageVars>> => [Next]_vars /\ [StorageNext]_storageVars
  BY DEF TenderNext, JobsStep, FilesStep
<1> QED
  BY <1>1, <1>2, PTL DEF TenderSpec, Spec, StorageSpec
=============================================================================
