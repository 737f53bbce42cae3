# TenderIQ in TLA+

A formal model of the TenderIQ backend (`src/apps/api`, `src/apps/worker`,
`src/packages/core`): TLA+ modules translated from the Python source, TLC
configurations that check them on small instances, and proofs for every size of
the parameters. Paths below are relative to `src/`; `W` is
`apps/worker/src/tenderiq_worker`, `A` is `apps/api/src/tenderiq_api`, `R` is
`A/routers/v1`, `C` is `packages/core/src/tenderiq_core`.

## 1. The system

TenderIQ analyses tender documents. A user creates a tender, uploads documents
straight to object storage, and completes each upload; the API then creates a
job row and publishes a Celery message. A worker parses, indexes and extracts;
the findings are reviewed and exported. Around this core stand quotas, a budget
for LLM calls, subscriptions driven by a payment provider's webhooks, sessions
with rotating refresh tokens, e-mailed notices, and retention: soft deletion,
restoration, a sweep of abandoned uploads and a daily purge.

| Component | State | Operations | Where it is hard |
|---|---|---|---|
| Job pipeline (`W/tasks/documents.py`, `W/parsing.py`, `W/indexing.py`, `W/extraction.py`) | job row, parsed elements, chunks, findings, compliance results, tender status; Celery messages | begin, three phases, advance, record an error, retry | at-least-once delivery, overlapping runs, no row locks, several transactions per phase, crashes, time limits |
| Documents and tenders API, quotas (`R/documents.py`, `R/tenders.py`, `C/services/quota.py`, `storage_quota.py`) | document and tender rows, stored object, usage record, reservations of pending uploads | create, complete, delete, restore; early and authoritative quota check | an external object store inside a transaction; repetition by the client; check-then-act; reservations that expire |
| Retention (`C/services/deletion.py`, `W/tasks/documents.py`) | soft-deleted rows, objects, closed organizations | sweep of abandoned uploads, purge | rows and objects in two stores; a restore or a join during a purge; failures half way |
| Billing (`C/services/billing.py`, `R/billing.py`) | subscription row | checkout, change, cancel, resume, webhook, period-end sweep, reconciliation | duplicated, delayed and reordered webhooks; a second source of truth; no row locks |
| Dead letters (`C/services/dead_letter.py`, `R/billing.py`) | one row per failed event, the processed marks and the set behind the metric in Redis | deliver, enqueue, retry, resolve | the provider's retries racing an operator's; Redis written around a commit |
| LLM budget (`C/services/llm_budget.py`, `llm_reservation.py`, `C/llm/cost.py`) | spend rows, Redis reservations with expiry, the buffer of a run | admit, call, book, release | spend and reservations in two stores; Redis outage; month boundary; crashes |
| Sessions (`C/services/refresh_tokens.py`, `R/auth.py`) | token, used mark, family and user sets in Redis | issue, rotate, revoke | several Redis commands per operation; parallel rotation |
| Accounts (`R/auth.py`, `C/services/signup.py`, `one_time_tokens.py`, `rate_limit.py`) | users, waiting list, mailed links, login counters | register, verify, reset, log in | reads and writes in different transactions; a link consumed before the commit |
| Organizations, members, invitations (`R/members.py`, `R/invitations.py`, `R/organizations.py`) | memberships, invitations | change a role, remove, invite, revoke, accept, close, purge | the last administrator is counted without a lock |
| Findings review (`R/findings.py`) | findings, audit log, comments | decide, edit, decide in bulk, comment | requests overlap each other and an extraction that replaces the rows |
| Extraction (`C/agents/*`, `C/llm/client.py`, `W/extraction.py`) | findings of all agents, compliance results | agents in parallel, grounding, two storing transactions | partial failure; retries at three levels |
| Chunking and retrieval (`C/indexing/chunking.py`, `C/retrieval/*`) | chunks, rankings | cut, fuse, rerank, merge | boundaries; an index rewritten between two queries |
| E-mail (`C/email/service.py`, `C/services/*_notifications.py`) | suppressions, claimed keys in Redis | notify, claim, send, bounce | a retry of what was already done; a claim kept although nothing was sent |
| Export, panel, rate limits, front-end, infrastructure | | | read-only, or without state of their own |

How they interact: the API publishes to Celery after its commit; the worker and
the API share the database and nothing else; the pipeline asks the page quota
and the LLM budget before it spends; the tender's status follows its documents'
jobs; soft deletion hides rows from every query of the API and of the worker;
billing writes the plan the quotas read, its refused events become dead letters
and its changes become notices; the worker replaces the findings people review;
the purge removes rows the pipeline may still work on; removing a member or
closing an organization revokes refresh tokens.

What makes each component correct, and the property that says so:

- pipeline: no phase is skipped (`NoPhaseSkipped`); what the review screen shows
  is consistent and stays so (`ReadyIsGrounded`, `ReadyIsFinal`); the rows follow
  the state machine (`LegalTransitions`, `RowConsistent`); no unfinished job is
  abandoned (`NoOrphan`), and every job ends (`JobSettles`);
- documents, quotas, retention: quotas hold however requests overlap
  (`QuotasKept`); an uploaded document has its file (`FileKept`), a file has its
  row (`NoOrphanObject`), what was deleted stays hidden (`DeletedStaysHidden`),
  what was accepted is not swept away (`AcceptedStays`);
- billing: no acknowledged event is lost (`NoEventLost`, `NoSilentLoss`), none is
  written over a newer one (`EventOrder`), the mirror follows the provider
  (`MirrorAgrees`), a paid period is not cut short (`PaidPeriodKept`), a
  cancelled one ends (`CancelledEnds`);
- budget: past the ceiling nothing is admitted, whatever fails (`SpendBounded`);
  when nothing does, a run is admitted only if all estimates fit (`CeilingKept`); no
  cost is dropped (`UsageAccounted`), no reservation stays behind
  (`ReservationsReturned`), and together they implement an atomic account
  (`ImplementsLedger`);
- people: one person has one account (`OnePersonOneAccount`), a refresh token is
  exchanged once (`ExchangedOnce`), what was revoked stays so
  (`RevokedStaysRevoked`), an organization keeps an administrator
  (`LastAdminKept`), nobody returns by an old invitation (`NoStrayInvitation`),
  the purge deletes exactly who belongs nowhere else (`PurgeIsExact`);
- analysis: chunks lose nothing (`ChunksSound`), an agent reads the best of what
  was found (`ContextIsBest`), the stored analysis is of one piece
  (`AnalysisWhole`), decisions and comments follow their findings
  (`ReviewAccounted`, `NoOrphanComment`), an event is mailed once
  (`EventMailedOnce`).

## 2. Modules

| Module | Models | Proofs |
|---|---|---|
| `JobPipeline` | the pipeline, the API calls that touch it, the broker, the worker processes | `JobPipelineProofs` |
| `Storage` | rows and objects of the documents of one tender, quotas, deletion, restoration, sweep, purge, closing | `StorageProofs` |
| `Billing` | the subscription row and its four writers, the payment provider they mirror | `BillingProofs` |
| `DeadLetter` | verified events on their way through webhook, queue and retry | `ServicesProofs` |
| `LlmBudget` | admission, booking, release, expiry, Redis outage | `LlmBudgetProofs` |
| `Ledger` | the atomic account of a month that `LlmBudget` implements | `LlmBudgetProofs` |
| `Sessions` | refresh tokens and families in Redis, one command per step | `AccountsProofs` |
| `Accounts` | registration, links, invitations, login attempts | `AccountsProofs` |
| `Membership` | roles, invitations, the purge of a closed organization | `AccountsProofs` |
| `Review` | decisions and comments beside extractions that replace findings and accounts that are deleted | `ServicesProofs` |
| `Extraction` | agents, grounding, the two storing transactions | `AnalysisProofs` |
| `Chunking` | the loop that cuts elements into chunks | `AnalysisProofs` |
| `Retrieval` | fusion, reranking and merging of an agent's queries | `AnalysisProofs` |
| `Mail` | notices, suppressions, claims, the provider | `ServicesProofs` |
| `SumProofs` | no code: lemmas about sums of functions over finite sets | |
| `MCJobPipeline`, `MCBilling` | symmetry sets for TLC | |
| `MCTender`, `MCAccounts`, `MCServices` | instances of several modules at once (section 3) | `JobPipelineProofs`, `AccountsProofs`, `ServicesProofs` |

Conventions. A transaction that reads without a lock and writes later is two
actions (`Begin...`, `Commit...`), and it writes only the columns it changed, as
the ORM does; one that holds a row lock from its read to its commit is one
action; a Redis command is one action, an operation of several commands several.
Variables marked `(ghost)` record history for a property and are never read by
an action that models code. Where the code leaves a gap, the ghost names it at
the place where it opens, and the property is claimed outside it; section 3
lists what that excludes.

### JobPipeline

State. `job[j]` is the row of `C/models/job.py` (its status, whether it has an
end time and an error message); `elements[j]` numbers the parse whose elements
are stored, `chunks[j]`, `findings[j]` and `compliance[j]` name the parse the
stored chunks, findings and compliance results come from; `tender` is the status
of the tender; `deleted` and `tenderDeleted` the soft deletion. `queue[j][n]`
counts the waiting messages of job `j` sent as retry number `n`, `run[r]` is what
worker slot `r` is doing. `lost` and `duplicated` are history: the jobs a
delivery of which was dropped without another being sent, and the jobs that once
had two live deliveries.

Granularity. The API locks the rows it changes (`with_for_update`), so each of
its operations is one action. The worker locks nothing: a transaction that
reads a row and writes it later is two actions, and its commit writes only the
columns the ORM saw assigned. The two transactions of a phase handler, the quota
check and the status change are separate steps, between which anything may
happen.

| Action | Code |
|---|---|
| `CompleteUpload`, `RepeatComplete` | `complete_upload`, its first success and its repetition while the job is queued |
| `RetryJob` | `retry_job` |
| `DeleteDocument`, `DeleteTender`, `RestoreTender` | the handlers of those names |
| `Deliver`, `Ack`, `Crash`, `HardTimeLimit` | Celery with `task_acks_late`, `task_reject_on_worker_lost` and `task_time_limit` (`W/celery_app.py`) |
| `BeginRead`, `BeginCommit` | `_begin_run` |
| `PhaseRead` | the first transaction of each phase handler |
| `StoreElements`, `PageQuota` | `run_parsing_phase`, second and third transaction |
| `StoreChunks` | `run_indexing_phase`, second transaction |
| `StoreFindings`, `StoreCompliance` | `_write_findings`, `_run_compliance` |
| `AdvanceRead`, `AdvanceCommit` | `_advance` |
| `Raise` | any exception inside the try block of `process_document`, the soft time limit and the LLM budget's refusal among them |
| `ErrorRead`, `ErrorCommit`, `ErrorLost` | `_record_error`, which swallows its own failure |
| `Retry`, `RetriesExhausted` | `self.retry` and what follows when no retry is left |

Outside `src/`: what Celery does with messages. `Task.retry(exc=...)` of the
pinned version raises the exception it was given once no retry is left, not
`MaxRetriesExceededError`; `Exhausted` lets an instance choose either, and the
passing runs allow both.

### Billing

State. `sub` is the row of `C/models/subscription.py` without its identifiers:
plan, status, whether the provider's subscription id is known (`provider`), the
cancellation flag, the period's end, the pending plan and the stamp of the last
event applied. `remote`, `form` and `events` are the provider: its subscription,
the open payment form and the events it sent, `events[n]` stamped `n`.
`processed` are the marks in Redis, `answered` the events it got a 200 for,
`dropped` those never delivered again, `applied` the history of events that a
committed transaction applied. `now` counts days; a calendar month has
`MonthLength` of them.

Granularity. No transaction locks the row. Each is a `txn[t]` that reads (`Begin...`),
perhaps calls the provider (`CallProvider`, `Fetch`, `CallFails`) and commits
(`Commit`, `CommitFails`); what it writes is computed from what it read (`Wanted`), and
the commit writes only the columns that this changed (`Written`), as the ORM does.
A webhook marks and answers after its commit (`Answer`), where the mark, the answer
or both may be lost. `Txns` says how many may be open at once.

| Action or operator | Code (`C/services/billing.py` unless named) |
|---|---|
| `BeginCancel`, `BeginResume` | `schedule_cancellation`, `resume_subscription` |
| `BeginChange`, `Checkout` | `request_plan_change` with and without a subscription at the provider, `start_checkout` |
| `BeginWebhook`, `Outdated`, `ResolveTarget`, `ApplyEvent`, `Answer` | `billing_webhook` (`A/routers/v1/billing.py`), `apply_webhook_event`, `_resolve_target`, `mark_webhook_processed` |
| `BeginSweep`, `ApplyDue` | `apply_due_subscription_changes` and its hourly task |
| `BeginReconcile`, `Fetch`, `Repairs` | `reconcile_subscriptions` and its hourly task |
| `ApplyPlanChange`, `PeriodEnd`, `MonthEnd` | `apply_plan_change`, `_period_end`, `quota.current_period_bounds` |

Outside `src/`: the provider. It is modelled from the calls made to it and from the
event types the code distinguishes: it accepts a cancellation of a running
subscription, a resumption before the period is over, a change of a paid one; it
renews, fails to collect, and ends a cancelled or unpaid subscription when the
period is over. It has one subscription per tenant; a second form paid while the
first payment's webhook is still to come is not followed.

Left out: the manual test provider, which activates at once; the identifiers;
`TRIALING`; events without tenant, plan or stamp; the expiry of the marks after 90
days. What becomes of a refused event is `DeadLetter`.

### Storage

State. `doc[d]` is a document's row (status, size, soft deletion and whether the
tender took it along), `object[d]` the size of the stored object, `signed` the
documents with a URL that still allows a PUT, `tenderRow` and `closedAt` the
tender and the organization, `used` the usage records of the period, `upload[d]`
the `complete_upload` that holds the row, `sweep` and `purge` the two periodic
tasks. The ghost `marks[d]` names the gaps a document went through: `raced`
(inserted into a tender that was being deleted), `late` (completed after its
reservation had run out), `restored`, `pastWindow` (restored or created under a
purge that had already selected the tender), `deletedAlone`, `accepted`,
`overlapped`.

A tick is a day. Everything that takes at most an hour (a request, a signed URL,
an access token) ends within its tick, everything measured in days crosses ticks.
The store and the database share no transaction: a rejected object is deleted in
one step and its row committed, or not, in the next.

| Action | Code |
|---|---|
| `CreateDocument`, `RepeatCreate` | `create_document`, also repeated with its `Idempotency-Key` |
| `Put` | external: the client's upload |
| `CheckUpload`, `AcceptUpload`, `RejectUpload`, `CommitReject` | `complete_upload` up to its quota checks, its acceptance, the deletion of a rejected object, and the commit that follows or fails |
| `HideDocument`, `HideTender`, `BringBackTender` | `delete_document`, `delete_tender`, `restore_tender` |
| `CloseOrganization` | the content part of `close_current_organization` |
| `BeginSweep`, `CommitSweep`, `SweepObject`, `SweepCrash` | `cleanup_stale_uploads` |
| `BeginPurge`, `PurgeObject`, `PurgeObjectFails`, `CommitPurge`, `PurgeCrash` | `purge_deleted`, `purge_tenders`, `delete_objects` |

### LlmBudget and Ledger

`recorded` sums the usage rows per month, `reserved` are the entries of the Redis
hashes, `run[w]` is what a worker does: it has read the spend, runs with a buffer
of costs, flushes, or releases. `ReadSpend` takes the snapshot, `TryReserve` is
the atomic script, `AdmitDegraded` the decision without Redis, `ModelCall` books
into the buffer, `FlushUsage` writes it or counts it as lost, `Release` removes
the reservation of the month it computes then, `BudgetCrash` may come anywhere,
`BudgetTick` lets reservations expire and the month turn. Of the ghosts, `slipped`
marks an admission that a gap named in the docstring of `admit_job_sync` leaves
uncovered, `passed` and `overrun` count the runs whose usage left the spend above the
ceiling and what those cost beyond their estimates, `abandoned` holds the jobs whose
process died, or could not reach Redis, before it gave its reservation back.

A run may cost more than it reserved, and nothing in the code stops it: `ModelCall`
has no bound but `MaxBurned`. `docs/ops/maliyet-tavani.md` measures 24.7 TL against a
reservation of 22.4 and 46.1 against 44.6, and puts the worst case at about 94 TL,
above the 60 TL cap of any reservation. The docstring of `llm_reservation.py` bounds the
excess over the ceiling by concurrency times estimate; `llm_budget.py:203-207` adds
that this means something only while estimates are not below the costs. The model
says both: `SpendBounded` bounds the excess by the estimates of all workers but one
*and* `overrun`, and by `passed <= Cardinality(Workers)` says of how few runs that is
the overrun. `CeilingKept` and the ledger speak of estimates and of the moment of an
admission, which is all that reservations decide.

`Ledger` is one account of a month in which admitting a job, booking its cost and
giving back its estimate are each one step. Under the refinement mapping it holds what
the live entries of the month's hash hold, and the jobs at work are those of the runs that may still
write their costs; every admission must fit beside both, and no entry may go while its
job is at work. `slipped` maps to its `gap`, after which it promises nothing.

Left out: the tier without a limit, for which nothing is decided; calls of unknown
price, which add nothing to the spend; a plan that changes within the month; what a
crashed process spent or a failed write lost, which is in no sum the code compares
(`usageLost` counts the second).

### DeadLetter

One event per letter, any number of requests. `delivered` and `told` are the
provider's side, `letter` the row, `applied` the commits, `processed` and
`pendingSet` Redis. `DeliverEvent` and `RetryLetter` open a request;
`ApplyAttempt`, `ApplyErrs` decide; `MarkEarly` is the retry's mark, set before
the commit (`R/billing.py:607`); `CommitApply` and `CommitApplyFails` end the
transaction; `Enqueue`, `CountLetter`, `CommitEnqueue`, `EnqueueFails` are
`dead_letter.enqueue` with its Redis set. What an event does to a subscription is
`Billing`; here it is a commit that happened.

### Sessions

A step per Redis command: `Present`, `Claim` (SET NX), `Judge`, `Rotate`,
`CheckMember` are one `refresh`; `BeginEnding`, `ReadIndex`, `ReadFamily`,
`DeleteFamily`, `FinishEnding` one revocation, from a logout, a password reset, a
removed member, a closed organization, a detected reuse. `CallFails` is Redis
failing at any of them. The ghosts `survivors` and `missed` are the tokens and
families that a rotation or a login in flight brings back.

### Accounts

Registration in both modes, mailed links, invitations as far as they open accounts, and
the limit on login attempts, each as a step that reads and a step that commits:
`BeginRegister`/`CommitRegister`, `BeginQueue`/`CommitQueue`, `AskForLink`, `MailLink`,
`FollowLink` (GETDEL, before the transaction it is for) and `CommitLink`; `Invite`,
`ReadInvitation` and `OpenInvited` (`accept_invitation`, which opens an account verified
from the start); `TryLogin`, `LoginFails`, `LoginSucceeds`, `WindowEnds`. The unique indexes
decide races.

The limiter is fail-open (`rate_limit.py:50`): `TryLoginUnlimited` is a login whose Redis
commands fail, before the increment or after it, and which goes on either way; a reset
that fails leaves the counter. `waved` counts these attempts, and the limit is claimed for
the others: at most `AttemptLimit` passwords are tried for one person in a window, and
one more for each attempt Redis did not answer for. While Redis is down there is no
limit, as the docstring says. The second counter, by IP address, can only refuse more.

### Membership

`member`, `invite`, `account`, `elsewhere` are rows, `change[r]` the request in
flight. A commit that changes memberships marks every request in flight as raced
(`Overtaken`); `races` records what happened for that reason only. Actions:
`Begin`/`Commit` of `update_member_role`, `remove_member`, `create_invitation`,
`revoke_invitation`, `accept_invitation`; `CloseAccount`; and
`purge_organization_sync` as `BeginOrgPurge`, `CountMemberships` and `DeleteUser`
per user, `CommitOrgPurge`, `OrgPurgeCrash`. `JoinElsewhere` and `LeaveElsewhere` are
memberships of other organizations, which begin and end at any time.

### Review

A finding is a row at a place of the analysis, numbered by the run that wrote it.
Requests read a set of rows and write back the columns that differ
(`BeginPatch`, `BeginBulk`, `CommitReview`); `BeginComment`, `CommitComment` add a
comment without a foreign key; the worker deletes by cascade (`Reparse`), then
replaces findings and assessments (`WriteFindings`, `WriteCompliance`). `AccountDeleted`
is the purge of another organization that deletes a reviewer: the foreign keys of his
findings and log entries become null (`Anonymous`), and what he still had open fails.
`mixed`
are the findings two requests changed at once, `strays` the comments whose
finding went when nobody looked for comments.

### Extraction, Chunking, Retrieval

`Extraction` is one phase from the inside: agents in parallel with the retries of
the graph and of the schema, `GroundItem` (`grounding.py`), `WriteRows` and
`Assess` as the two transactions. `Chunking` is `chunk_elements` and
`_split_text`, one loop iteration per action, on texts of the characters a cut looks
at, in the order it looks for them (`Markers`), and letters. `Retrieval` is `retrieve_for_queries`: any two rankings, their fusion
(1 / (k + rank) times `Unit`, a common multiple of the divisors, so that the scores
are integers; the code adds floats), any scores of the reranker, and a `Reindex` by
another run in between. An order (`Ordered`, `InOrder`) is the sequence of a set's
elements that ascends along it. These three are the pure algorithms; their reference definitions are
the properties.

### Mail

`BeginNotice` reads the administrators, then one `SkipSuppressed`, `ClaimKey`,
`ClaimFails` or `SendUnchecked` per address and `Deliver` or `DeliverFails`;
`Bounce` suppresses. `waived` counts the claims that Redis lost or could not
answer: those may repeat a mail.

## 3. Runs

| Run | Instance | Shows |
|---|---|---|
| `pipeline_overlap` | 1 job, 2 worker slots, 1 retry, 1 crash, 1 repeated complete or requeue, any step may raise | `NoPhaseSkipped` and `NoOrphan` under every overlap; `ReadyIsGrounded`, `RowConsistent`, `LegalTransitions`, `ReadyIsFinal` as long as the deliveries of the job never overlapped |
| `pipeline_tender` | 2 jobs of one tender, 2 slots, no retries, 2 deletions or restorations; and 2 documents of one tender, 2 requests at a time, quotas of one document and one unit, retention and pending window shorter than a day, 2 days | `TenderHasReadyJob`: a tender is never review_ready before one of its documents. `NoOrphanObject`, `QuotasKept`, `FileKept`, `DeletedStaysHidden`, `AcceptedStays` for the files |
| `pipeline_settles` | 1 job, 1 slot, 1 retry, 1 crash, 2 user calls, every fault | `JobSettles`: under fair workers each unfinished job ends or was dropped for one of the named reasons |
| `pipeline_duplicate` | 1 repeated complete, nothing fails | violated: a duplicate delivery erases the findings of a finished job |
| `pipeline_exhausted` | 1 job, 1 slot, steps raise | violated: after the last retry the job stays in its phase with no delivery |
| `pipeline_restore` | a tender deleted and restored around a run | violated: the tender stays draft although its document is ready |
| `billing_mirror` | 1 transaction at a time, 4 events, 3 requests that change the subscription, 2 months, failing commits, lost answers | `NoEventLost`, `MirrorAgrees`, `PaidPeriodKept`: delivery in any order and repeated delivery do no harm by themselves |
| `billing_ends` | the same with 3 events, 1 request, undated events, events and marks lost | `CancelledEnds`: the sweep ends what was cancelled, with or without the provider |
| `billing_order` | 2 transactions at once, 3 events | `EventOrder` violated: of two deliveries handled at once the older one can be written last (that one at a time keeps the order is the theorem `OrderKeptAlone`) |
| `billing_paid` | the first event is lost | violated: paid, and never opened |
| `accounts` | 3 spellings of 2 addresses, 2 links or invitations, 1 slug, 2 attempts with a limit of 1; 3 tokens, 2 families, 1 organization, one revocation, one Redis failure; 2 users, 2 invitations; 2 requests at a time in each | `OnePersonOneAccount`, `ExchangedOnce`, `RevokedStaysRevoked`, `LastAdminKept`, `NoStrayInvitation`, `PurgeIsExact` |
| `services` | 2 workers with 2 jobs, a limit of 2, 2 months; 1 event, 2 requests, 3 deliveries; 2 places, 2 reviewers, 2 review requests, 2 extractions; texts of up to 6 characters with a limit of 4; 3 chunks, 2 queries; 2 agents, 2 phases; 2 addresses, 2 notices, 2 senders | `SpendBounded`, `CeilingKept`, `UsageAccounted`, `ReservationsReturned`, `ImplementsLedger`, `NoSilentLoss`, `ReviewAccounted`, `NoOrphanComment`, `ChunksSound`, `ContextIsBest`, `AnalysisWhole`, `EventMailedOnce` |

Several modules in one run. `MCTender`, `MCAccounts` and `MCServices` check
modules that share no variable. The variable `focus` chooses, in the initial
state, which module a behaviour follows; the variables of the others rest. As
nothing one module does can enable, disable or change a step of another,
every interleaving of them projects to a behaviour of each, and an invariant over
one module's variables loses nothing: the reachable states are the union of the
modules' states instead of their product. Where modules do meet in the code
(removing a member revokes tokens, a retry sends a notice, a phase asks the
budget) each models the other's part as a free choice: a revocation may come at
any time, a notice may be called for at any time, a budget may refuse
(`Faults`).

Bounds of the pipeline. Two slots are enough for two overlapping runs of a job, the smallest
interference there is; a third adds a third copy of the same race. One retry
distinguishes a message that may be retried from one that may not. One crash
per behaviour gives a redelivery at every step. `MaxCalls` limits only calls
users may repeat; the first completion of each upload is free. The tender
instance drops retries and the LLM to afford two jobs that race for one tender.

Bounds of the files. Two documents are needed for one to fail in a purge that
takes the other and for two requests to compete for one quota; a limit of one
makes every second upload reach it. Windows shorter than a tick (`Retention` and
`PendingTtl` 0) put both sides of each window inside two days.

Bounds of billing. Four events are a payment, a cancellation, a resumption and one
more of each kind that undoes or follows it; three requests cancel, resume and
cancel again, or change twice and cancel. The clock passes one end of a period
with the events before and after it. One transaction at a time is not a shortcut
but the question: `billing_mirror` shows that reordering, repetition and partial
failure alone are harmless, `billing_order` what overlap adds, and `NoEventLost`
is proved for any number of transactions. With two at once the sweep, too, can
write FREE over a subscription that was resumed and renewed while it worked, and
a reconciliation can reopen one whose end was delivered meanwhile; the two
properties are therefore claimed only without overlap.

The same holds inside two of the modules: the waiting list shares with the rest of
`Accounts` only the requests in flight, and comments share with reviews nothing that either
writes, so each is followed by itself.

Bounds of accounts and services. Two requests, workers or senders at a time give
every pair of overlapping operations, which is what each race here consists of.
Three tokens are a login, its rotation and a second rotation or login; two
families are one that is revoked and one that is not. Two months let a run start
in one and end in the other. Two estimates of one and two units against a ceiling of two, with four
units spent in all, let a run stay below its estimate, meet it, and pass both it and the
ceiling. One attempt of two is refused, or passes because Redis failed. Six characters with a limit of four and an overlap
of two hold a cut at a line break, at a sentence end (two of them, for their order), and at a
blank, at either edge of a window, and a piece
that starts inside the overlap of the one before. The properties of files, budget,
dead letters, accounts, sessions, memberships, review and mail are also proved for all sizes.

Deadlock checking is off in every run: once the bounded calls are used and every
message is consumed, the model really stops.

What the ghosts exclude. `j \notin duplicated` and `j \notin lost` are not
decoration: the three violated pipeline runs show what happens without them.
`duplicated` is set when a message is published, or comes back, while another
delivery of the job is alive; `lost` when the broker is down at publication, the
hard limit kills a run (Celery acknowledges a task that timed out), a final error
could not be recorded, or the retries run out with the original exception. A
requeue that is published removes the job from `lost`. The ghosts of the other
modules do the same for the gaps listed below, and a property that names one
holds only because it does. Where the gap is a race (a document created in a tender that is
being deleted, a rotation beside a revocation, two changes of administrators, a member who
joins elsewhere during the purge, two reviews of one finding), the property says that
nothing else does the damage; it would not detect the race itself, which the list
below describes.

Fairness. `FairSpec` asks weak fairness of each worker slot's next step: the
prefork processes of Celery keep fetching and executing. Nothing is asked of
users, faults, crashes or the API. The bounds on crashes and calls stand for the
assumption that they are finite in the life of a job. In `Billing` it asks that time
passes, that an open transaction goes on to its end, and, strongly, that the
hourly sweep and reconciliation get to run and one of their commits succeeds: they are
scheduled again every hour, and a database that fails is back one day. Nothing is
asked of the provider, the network or the customer. The other modules claim
safety only.

Every property has a mutant: a definition next to the one it replaces, named after
it with the bug as suffix (`Expired_Inclusive`), that breaks the code in a
plausible way and that the run must catch.

### What the code does not keep

Each of these was met while modelling; the lines are quoted in `PROJECT.json`.
The first five are runs in which TLC finds the statement violated, the others
name the run whose property holds only with the exception they describe.

Pipeline and billing:

- `complete_upload` republishes a queued job because "the task is idempotent,
  duplicate delivery is safe" (`R/documents.py:131-133`). Two runs then
  share the job, and the parse of the slower one deletes the elements, with them by
  cascade the findings, of the job the faster one has finished.
- `W/tasks/documents.py:8` promises that a job whose attempts are used up is set to
  failed. `except MaxRetriesExceededError` is not what `self.retry(exc=exc)` raises.
- `_begin_run` and `_advance` skip a hidden tender; when it is restored, nothing
  makes its status follow.
- `models/subscription.py:49-50` says the stamp keeps an older event from writing over
  a newer one. `apply_webhook_event` compares it without a lock; two deliveries at
  once both pass, and the later commit wins.
- The reconciliation is called the only fallback for a payment whose webhook never
  comes (`W/tasks/documents.py:431-433`), but it skips tenants without the provider's
  subscription id, which only a webhook brings.
- Without a run: a cancellation announced after the sweep already ended the
  subscription sets the flag on a FREE row, against the comment of
  `apply_plan_change`; if the event has no date nothing clears it, and checkout and
  resume are both refused. `_record_error` writes its message whatever the status
  (`W/tasks/documents.py:176`), so a redelivered message can leave an error text on
  a review_ready job. A refusal by the LLM budget is retried like any other failure
  (`W/extraction.py:185`).

Dead letters (`NoSilentLoss`):

- An administrator's retry marks the event processed before its transaction commits;
  when the commit fails the next attempt is a duplicate and resolves the letter
  although nothing was applied.
- A retry that finds its event outdated leaves the letter pending; `DISCARDED` is
  never set. An error of the database in `apply_webhook_event` is answered 500 and
  not enqueued. `dead_letter.py:20-23` says the metric may only be too high, and it
  may be too low as well: the set loses a letter whose resolution is rolled back.

LLM budget (`SpendBounded`, `CeilingKept`):

- `llm_reservation.py:8-9` bounds the excess by concurrency times estimate, without the
  condition of `llm_budget.py:203-207`, which the repository's own measurements break
  (section 2). What a run costs beyond its estimate, nothing bounds.
- Before its reservation a run reads a spend that another run may be about to raise; a
  job delivered twice has one reservation for both runs; a reservation may expire under
  a long run; a run that begins before midnight books into the next month without one.

Files (`FileKept`, `NoOrphanObject`, `DeletedStaysHidden`, `QuotasKept`, `AcceptedStays`):

- `restore_tender` does not look at the retention window, and a running purge does not
  look again: a late restore brings back rows without files.
- `create_document` may insert into a tender whose deletion commits first; restoring
  the tender does not bring the document back (`raced`).
- A member of a closed organization may restore a tender while the access token lasts.
- An upload completed after `upload_pending_ttl_hours` subtracts a reservation that
  was no longer counted, and a restored tender is not charged: either may pass the
  storage limit. The document quota may be passed by as many uploads as were
  completed at once.
- The sweep writes failed over an upload accepted between its read and its write, if
  that upload was completed after its time.

People (`ExchangedOnce`, `RevokedStaysRevoked`, `LastAdminKept`, `NoStrayInvitation`,
`PurgeIsExact`, `OnePersonOneAccount`):

- A rotation in flight adds its token to a family that is being revoked, and a login
  in flight opens one beside the index that is being deleted: both survive.
  `remove_member` and closing revoke before they commit.
- The last-administrator rule counts without a lock; two changes at once remove both.
- An invitation revoked while it is accepted ends as revoked although the member has
  joined; two creations at once leave two pending invitations; accepting does not ask
  whether the organization is still open.
- The purge deletes a user who joins another organization between its count and its
  delete, and leaves the account of one who leaves the other organization in between.
- The limit on login attempts is none while Redis does not answer, which is intended.
- A one-time link is consumed before the transaction it is for: when that fails, the
  link is used and nothing was done.

Analysis, review, mail (`ReviewAccounted`, `NoOrphanComment`, `ChunksSound`,
`AnalysisWhole`, `EventMailedOnce`):

- A bulk decision overwrites an edit that commits between its read and its write, and
  the history forks. A new parse deletes findings by cascade and leaves their comments.
- An early line break in a long element makes the cutting step back to one character
  of progress: a shrinking copy of the same line per character. A heading longer than
  the limit is a chunk of any size.
- A model's refusal, said never to be repeated, is repeated by the graph and by Celery.
- The key of a subscription notice does not name the address, so only the first
  administrator is told; after a retry by an operator nobody is; threshold notices
  claim no key and repeat with every request. A key stays claimed when the provider
  refuses the mail.

## 4. Proofs

Each proof module EXTENDS its components and proves, for every value of the
constants that satisfies their named assumptions, type correctness, the
inductive invariant, and what follows from it. A step of the proof stands for an
action; lemmas say what each kind of step does to the parts of the invariant. Each
invariant was first checked by TLC on the instance of the component's run.

| Module | Theorem | Statement |
|---|---|---|
| `JobPipelineProofs` | `TypeCorrect`, `PhasesInOrder`, `NeverAbandoned` | `TypeOK`, `NoPhaseSkipped`, `NoOrphan` |
| | `TransitionsAreLegal`, `ReadyStays`, `RowsTellTheTruth`, `ReadyGrounded`, `TenderReadyWithJob` | `LegalTransitions`, `ReadyIsFinal`, `RowConsistent`, `ReadyIsGrounded`, `TenderHasReadyJob` |
| | `Invariance` | the inductive invariant |
| | `TenderIsEach` | the instance of two documents of a tender behaves as `JobPipeline` and as `Storage` |
| `BillingProofs` | `TypeCorrect`, `NoEventIsLost` | `TypeOK`, `NoEventLost`, however many deliveries overlap |
| | `OrderKeptAlone`, `MirrorAgreesAlone` | `EventOrder`, `MirrorAgrees`, if `Txns` has at most one element |
| | `PaidPeriodKeptAlone` | `PaidPeriodKept`, if besides the events carry their dates |
| `StorageProofs` | `StorageTypeCorrect`, `DeletedHidden`, `SweepSparesAccepted`, `NoObjectLost`, `UploadedHasFile` | `StorageTypeOK`, `DeletedStaysHidden`, `AcceptedStays`, `NoOrphanObject`, `FileKept` |
| | `QuotasHold` | `QuotasKept` |
| | `HiddenInvariance`, `StorageInvariance` | types and the first layer; all three layers |
| `LlmBudgetProofs` | `SpendIsBounded`, `CeilingHolds`, `ReservationsComeBack`, `UsageIsAccounted` | `SpendBounded`, `CeilingKept`, `ReservationsReturned`, `UsageAccounted` |
| | `ReservationsImplementLedger`, `LedgerKeepsCeiling` | `ImplementsLedger`; `AdmittedWithinCeiling` of the ledger |
| | `BudgetInvariance`, `LedgerInvariance` | the inductive invariants of the bound and of the reservations |
| `AnalysisProofs` | `ContextSound`, `RetrievalTypeCorrect` | `ContextIsBest`, `RetrievalTypeOK` |
| | `AnalysisIsWhole`, `ExtractionTypeCorrect` | `AnalysisWhole`, `ExtractionTypeOK` |
| | `ChunksAreSound`, `ChunkingTypeCorrect` | `ChunksSound`, `ChunkingTypeOK` |
| `AccountsProofs` | `AccountsTypeCorrect`, `PersonHasOneAccount` | `AccountsTypeOK`, `OnePersonOneAccount` |
| | `SessionsTypeCorrect`, `TokenExchangedOnce`, `RevocationLasts` | `SessionsTypeOK`, `ExchangedOnce`, `RevokedStaysRevoked` |
| | `AdminRemains`, `InvitationsUsedUp`, `PurgeDeletesExactly` | `LastAdminKept`, `NoStrayInvitation`, `PurgeIsExact` |
| | `MembershipInvariance` | the inductive invariant of the last three |
| | `TogetherIsEach`, `UsersTypeCorrect` | the instance of the run behaves as each of its modules; `UsersTypeOK` |
| `ServicesProofs` | `NothingLost`, `DeadLetterInvariance` | `NoSilentLoss` and its invariant |
| | `HistoryTold`, `CommentsGo`, `ReviewInvariance` | `ReviewAccounted`, `NoOrphanComment` and their invariant |
| | `MailedOnce`, `MailInvariance` | `EventMailedOnce` and its invariant |
| | `DeadLetterTypeCorrect`, `ReviewTypeCorrect`, `MailTypeCorrect` | the types of the three |
| | `ServicesAreEach`, `ServicesTypeCorrect` | the instance of the run behaves as each of its seven modules; `ServicesTypeOK` |
| `SumProofs` | lemmas | what `SumFunctionOnSet` does when a value or the set changes |

Assumptions on constants, all named in the component's module and evaluated by every
run. Bounds are natural numbers. The assumptions that say
more: `EstimatesPositive` and `ReservationTtl > 0` in the budget (the settings'
defaults are 3600 seconds and a positive estimate per job; a reservation born
expired would protect nothing, and a run free of charge would be admitted past any
ceiling); a month of at least one day; an overlap of chunks
shorter than the limit (`chunk_elements` raises otherwise), documents that are sequences of
elements of three kinds with texts of characters, of any number and length; finite sets
where something is summed or counted (documents, workers, addresses, links, requests,
places of findings); values that mark the absence of something and therefore
name nothing else (`"none"` no slug, `"nobody"` no reviewer, 0 no organization and no
element); one of the agents is that of the requirements; a prompt's block has a first and a last element; and
`Unit` is a common multiple of the divisors of fusion (their product is one).

JobPipeline. `IInv` is `TypeOK /\ RunsOK /\ MessagesOK /\ NoPhaseSkipped`. Types alone are not
inductive: what a run writes depends on where it stands. `RunsOK` therefore says,
per step, which phase and snapshot a run carries and which outputs are stored by
then: a run in a phase has that phase's inputs, a run about to advance has the
phase's output too. It survives the other runs because the stored outputs only
grow (`StepGrows`): no step takes elements or chunks of a job away altogether,
it replaces them. `MessagesOK` says that messages announce jobs that exist (they
are published after the commit). `NoOrphan` is not inductive either: a run about
to acknowledge is no delivery, so the step before must already have settled the
job. `EveryJobAttended` strengthens it: a waiting message, or a run that is
responsible (alive, and not merely about to stop without having recorded a final
error), attends each unfinished job that is not in `lost`. Each step either
changes a run that stays responsible, ends the job, sends a message or puts the
job in `lost`.

The five properties of jobs whose deliveries never overlapped rest on a third
invariant, `AloneInv`: each job outside `duplicated` is `Undisturbed`. It has one
delivery, a message or a run at work (`OneDelivery`); the status that run has read,
or the phase it is in, is the row's (`KnowsRow`), the parse it works on is the one
stored (`KnowsOutputs`), and the row and its outputs agree (`RowTrue`, `OutputsTrue`).
No transaction locks a row, so being alone is all that protects what a run has read:
a step of the job's only run finds the row as it left it, and a step that could bring
a second delivery (a publication, the loss of a process about to acknowledge) either
finds none or puts the job in `duplicated`. `retry_job` is the exception that needs an
argument: after a publication that failed it rewrites the row under a run that may
still be at work; but the row was failed, so that run is past its phases and will
record nothing. `StepRespects` draws the two action properties from it.

Billing. `NoEventLost` speaks of answers; `Attested` says what they go back to: the row's
stamp, every stamp a transaction read and every mark belong to applied events, and
a delivery gets as far as its answer only when its event is covered. Outdated
events are covered because the stamp they lost against is that of an applied one.
`OrderKeptAlone` adds `Alone`: what an open transaction read is still the row, so a
delivery that passed the comparison still passes it at its commit. That invariant
is exactly what a second transaction destroys, and a row lock would restore.
`MirrorAgreesAlone` and `PaidPeriodKeptAlone` add `MirrorInv` to it. `Said` is about the
provider alone: its last event tells the state it is in, and an event with a date
tells the period that is paid. `Mirrors` is what the row holds once it bears the
stamp of that last event. Between the two stands `Meant`: a transaction that called
the provider is ahead of its own row, but then either the provider has said so in an
event the mirror is `Behind` of, or the row allowed what is about to be written.
The first property needs no dates, the second does: an event without a date leaves
the row's period to a guess (`_period_end`).

Storage. Three layers, each proved from the ones below. `HiddenIInv`: which deletion
hides a row (its own, or its tender's, `WentWithTender`), so that a restore shows
only what went with the tender. `SweepIInv`: what the sweep holds was over its time
when selected, so whatever of it has been accepted since was late. `ObjectsIInv`: a
file that is missing belongs to a document that nothing can bring back
(`Bound`: closed, or deleted longer ago than the window) or that is marked; a
document with a valid URL was within reach of a request today, so no purge can have
selected it; and the purge keeps the rows of what it could not delete. None of the
file properties is inductive alone, because the purge deletes objects steps before
it deletes rows. `QuotaIInv` stands on the first two layers. The bytes are a sum over the
rows: `BytesKept` is kept because the sum is read and the row written in one step, and
because a completion gives up its own reservation for what it charges. The documents
are a counter compared without a lock, so its invariant speaks of the uploads that
are being completed: one that found room (`RoomSeen`) still has it unless another was
accepted meanwhile, and then it is counted in `Overlapping`.

LLM budget. `RoomLeft` says that what is out fits under the bound. In hand are the
snapshots with room and the runs that may still write their costs (`Permitted`): not the
reservations, because nothing keeps those while Redis is down. The spend without its
overrun, the estimate of one of them and the largest estimate for each of the others are
together at most the limit plus the largest estimate of all workers but one; without
any of them the spend alone is. What a run cost beyond its estimate is added to the spend and
to `overrun` at once when it passes the ceiling, and below the ceiling needs no bound. Each
run that passes it was in hand when it did and cannot be admitted again, because a positive
estimate no longer fits: so `passed` and those still in hand are together no more than the
workers. `FutureUnspent` lets a month begin with nothing spent.

`LedgerIInv` is about the reservations and holds while nothing has `slipped`: each admitted
run is `Covered` by a live entry of its job, no two runs are of one job (`Apart`), hence the
estimates of the runs sum to at most those of the entries, which the script compared with
the snapshot; and the snapshot still is the spend. From it come `CeilingHolds` and the
refinement, action by action: the script that accepts admits, the write of the usage and
the crash book, release and expiry give back what is not at work, everything else is a
stutter. `ReservationsReturned` needs besides that nobody
reserves in a month to come (`NotAhead`). `UsageIInv` is an equation of
sums: what is recorded, buffered and counted as lost is what was spent, and a step moves
an amount from one to the other (`BuffersFlushed`: a run that releases has no buffer left).

Dead letters. Between its read and its commit a request carries an outcome; `OutcomesTrue`
says what that outcome is evidence of: a duplicate, that the event was applied or is
taken for applied; a stale one, that the subscription has gone past it. `LettersCounted`
includes the letters whose row is being written, `ToldKept` what the provider no longer
sends.

Accounts. The unique indexes work on the address in one spelling, so the account
and queue rows and the counters must be found under that (`RowsCanonical`), and so must
what a request in flight is going to write (`AccountReqSound`). `GuessesCounted` bounds the
passwords tried by what the counter holds and those that were `waved` through. `ByLinkOnly`
counts: the passwords already reset for an address and the requests about to reset one are
together no more than the links followed for it, because following one uses it up
(`LinksSound`). A race for the slug of a new organization is decided by its unique
index (`SlugsApart`).

Sessions. No property of Redis is atomic, so the invariant says what each half-done
operation knows. A token that can be presented has the mark of its first use
(`MarksSound`), because the keys of a token go together; what a rotation
has learned of the mark holds until a revocation deletes it, which marks the call
as raced (`Exchanges`). For the revocations, `ListsSound` and `IndexSound` find every
live token of a family and every family of a user, but for those that were in
flight, and `Ends` says that the families a revocation has set out to delete and those
already revoked are together all that were there when it began. Tokens and families
are drawn anew each time (`Numbered`).

Membership. `Sound` says, per kind of request, what it read that no other commit has
touched: another administrator remains, no pending invitation is missed, the accepted
one is the only one. A commit marks every other request as raced, which is when its
knowledge ends. `PurgeSound` accounts for every former member: still to be looked at,
condemned, gone, or a member elsewhere. `TogetherIsEach` carries the theorems over to the
instance `MCAccounts`, of which each step is one of one module and leaves the variables
of the others alone.

Review. `Accounted` needs, beside the chain of the log, that the log ends in the status
and in the name of the row; a write whose row is what the request had read extends the log
by that step, and the deletion of an account takes the name from row and log alike
(`DeletedReview`). Comments need only that every
replacement of a finding looks at the comments of the row it replaces. The types also say
how long a log may get: a bulk decision extends many at once, and the room it found is
for all of them together, so there is room in each (`LogsFit`).

Mail. A sum over all addresses bounds what one event sends: `MailIInv` counts with the
mails sent those that a call at work is about to hand over, against the one claim
and the claims Redis lost. For thresholds it counts, per address, what a call at work
may still send, against the number of calls.

Retrieval. The scores of the last query say nothing of the context, so `BestFound` speaks
of all hits: what is merged holds, for each chunk, the greatest score any query found it
with. A chunk ranked lower gets less, because `Unit` is a multiple of both divisors
(`Divided`); one that is ranked lower by both indexes therefore comes later in the fusion
(`FusionRespects`), and a query's hits are a prefix of that order (`HitsSound`). That
the order exists at all is `OrderExists`: in a finite set with a strict order each element has
the place after as many as are before it.

Extraction. `AnalysisWhole` is inductive once the types say where the element number of a
finding comes from (`Grounded` for what an agent found, `CitedRows` for the rows) and,
while the requirements are assessed, the rows are those of the agents' findings:
`Assess` reads the agents' items, the property speaks of the rows. `GroundSound` gives the quote
its element, `KeptSound` drops repeated numbers.

Chunking. Of an element's text nothing is known but that `strip` leaves it something that
begins with a letter (`Stripped`) and that a cut lies in its window, behind the window's
start (`CutInside`). So no piece is empty or longer than the limit, and the first piece of an
element is not blank: an element that is cut is in some chunk even where its other
pieces are blanks. What `ChunksSound` says of emitted chunks needs the state of the
loop: the open chunk is as sound as if it were emitted now (`GatheredOK`), it begins where
the emitted ones end (`EmittedOK`), and of the element that is being cut every character
before `start` is in a piece (`AllCovered`). The overlap of two pieces is about one that may not
have been taken yet, so each piece knows where the next one begins (`Followed`).

Instances. `TenderIsEach` and `ServicesAreEach` do for `MCTender` and `MCServices` what
`TogetherIsEach` does for `MCAccounts`: the modules in one run share no variable, a behaviour
of the run is one of each of them, and every theorem above holds of it.

Sums. The sums above (bytes, usage, reservations, mails, logged changes, the characters
of a chunk) range over finite sets of any size. The library's theorems for
that are inductions with an operator as a parameter, which the provers at hand cannot
instantiate. `SumProofs` therefore takes the other way round: if the statement failed for
some set, it would fail for one of which no smaller one fails (`Smallest`, from
the well-ordering of the cardinalities), and taking one element from that set gives
the contradiction. From it come: a sum of naturals is a natural, changing one value
changes the sum by the difference, adding an element adds its value, and a sum is at
most another if each value is, or if the values of the first go one by one to
different places of the second.

Only model-checked. `JobSettles` and `CancelledEnds` are liveness under fairness. Every
invariant and action property of the passing runs is a theorem; `MirrorAgrees`,
`PaidPeriodKept` and `EventOrder` are false for transactions that overlap (section 3), so
their theorems are about `Txns` of one element, as the passing runs are.

## 5. Plan

1. Compositions beyond the free choice: `DeadLetter` with `Billing`, the removal of a
   member with its revocation, extraction with the budget's refusal.
2. The fixes as variants: the subscription row, the count of administrators and the
   tender locked, to show that the exceptions of section 3 close.
3. Liveness of the sweeps and of the purge under the beat schedule.

## 6. Not modelled

- In modelled components: the LLM budget's tier without a limit, unpriced calls and a plan
  changed within the month (section 2); the login counter by IP address; the attempts counter and operation metrics of a job,
  backoff delays (any delay is allowed), `JobNotVisibleError` (jobs are published
  after the commit); access tokens and profile fields; the manual test provider of
  billing, identifiers, `TRIALING`, the expiry of marks after 90 days; creation and
  renaming of a tender, reading lists; the capability profile, a single row that one
  request overwrites; e-mails of links and invitations, which claim no key; the phase
  without an LLM provider.
- Parsing: a chain of libraries on file formats. Prompts, schemas, price tables and
  templates: data without control flow.
- Export, panel, audit, rate limits, metrics, logging, redaction: read-only or
  insert-only, read back by no other component. The lockout of the login is in
  `Accounts`.
- Tenancy: row-level security is the database's; the models are of one tenant, and
  take the transaction boundaries from the session factories.
- Web front-end, generated client, migrations, scripts, evaluation, deployment.

## 7. Running

    tlc -workers 2 -config JobPipelineOverlap.cfg MCJobPipeline
    tlc -workers 2 -config JobPipelineTender.cfg MCTender
    tlc -workers 2 -config BillingMirror.cfg MCBilling
    tlc -workers 2 -config Accounts.cfg MCAccounts
    tlc -workers 2 -config Services.cfg MCServices
    tlapm StorageProofs.tla

The other configurations run with the MC module of the same prefix; each of the
eight proof modules is checked like the last line.
