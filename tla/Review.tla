------------------------------- MODULE Review -------------------------------
(***************************************************************************)
(* The review of one document's findings by a team while a worker may be   *)
(* extracting again: routers/v1/findings.py, the selection of the report   *)
(* in export.py, and the writes of the worker that replace findings.       *)
(* A handler reads rows without a lock and writes, at the end of its       *)
(* transaction, the columns it has changed.  A reviewer's account may be   *)
(* deleted with another organization (deletion.py): the foreign keys that  *)
(* name the reviewer are set to null.                                      *)
(*                                                                         *)
(* Bounds: MaxExtractions, MaxReviews (changes in the logs),               *)
(* MaxComments.                                                            *)
(***************************************************************************)
EXTENDS Integers, Sequences, FiniteSets, Functions

CONSTANTS
    Reviewers, ReviewRequests,
    Extracted,         \* places of requirements, deliverables, risks, timeline events
    Assessed,          \* places of compliance results
    MaxExtractions, MaxReviews, MaxComments

ASSUME ReviewAssumption ==
    /\ "nobody" \notin Reviewers
    /\ IsFiniteSet(Extracted) /\ IsFiniteSet(Assessed)
    /\ {MaxExtractions, MaxReviews, MaxComments} \subseteq Nat

VARIABLES
    finding,     \* [Places -> Finding]; row 0: no finding
    history,     \* [Places -> the audit log of the finding: from, to and actor of each change]
    comments,    \* finding_comment: a set of [place, row]
    review,      \* [ReviewRequests -> the request in flight]
    extraction,  \* the worker
    departed,    \* reviewers whose account was deleted
    mixed,       \* (ghost) places whose finding was changed by overlapping requests
    strays       \* (ghost) comments whose finding went when nobody looked for comments

reviewVars == <<finding, history, comments, review, extraction, departed, mixed, strays>>

Places == Extracted \cup Assessed
Statuses == {"pending", "approved", "edited", "rejected"}
Nobody == "nobody"
Finding == [row : Nat, st : Statuses, by : Reviewers \cup {Nobody}, grounded : BOOLEAN]
NoFinding == [row |-> 0, st |-> "pending", by |-> Nobody, grounded |-> FALSE]
Reading == [op |-> "none"]
Exists(p) == finding[p].row > 0

-----------------------------------------------------------------------------

ReviewInit ==
    /\ finding = [p \in Places |-> NoFinding]
    /\ history = [p \in Places |-> <<>>]
    /\ comments = {} /\ departed = {} /\ mixed = {} /\ strays = {}
    /\ review = [q \in ReviewRequests |-> Reading]
    /\ extraction = [pc |-> "idle", runs |-> 0]

\* (the bound: logged changes and requests in flight)
Logged == SumFunctionOnSet([p \in Places |-> Len(history[p])], Places)
Room == Logged + Cardinality({q \in ReviewRequests : review[q].op = "review"}) < MaxReviews

\* _patch_finding: approve, reject, reset to pending, or edit; a finding without a source
\* is not found, a repeated action changes nothing.
BeginPatch(q, u, p, target) ==
    /\ review[q] = Reading /\ Room /\ u \notin departed
    /\ Exists(p) /\ finding[p].grounded
    /\ target = finding[p].st => target = "edited"
    /\ review' = [review EXCEPT ![q] = [op |-> "review", user |-> u, target |-> target,
                                        read |-> [x \in {p} |-> finding[x]]]]
    /\ UNCHANGED <<finding, history, comments, extraction, departed, mixed, strays>>

\* bulk_review: many at once; approving leaves what was edited.
Reviewable(p, target) ==
    Exists(p) /\ finding[p].st # target /\ ~(target = "approved" /\ finding[p].st = "edited")

BeginBulk(q, u, ps, target) ==
    LET changed == {p \in ps : Reviewable(p, target)} IN
    /\ review[q] = Reading /\ Room /\ u \notin departed
    /\ changed # {}
    /\ review' = [review EXCEPT ![q] = [op |-> "review", user |-> u, target |-> target,
                                        read |-> [x \in changed |-> finding[x]]]]
    /\ UNCHANGED <<finding, history, comments, extraction, departed, mixed, strays>>

\* The columns that differ from what was read are written, the others stay as they are
\* by now.
ReviewerOf(q) == IF review[q].target = "pending" THEN Nobody ELSE review[q].user

Written_KeepsReviewer(q, p) ==
    [finding[p] EXCEPT
        !.st = IF review[q].target # review[q].read[p].st THEN review[q].target ELSE @,
        !.by = IF review[q].target # "pending" THEN review[q].user ELSE @]

Written(q, p) ==
    [finding[p] EXCEPT
        !.st = IF review[q].target # review[q].read[p].st THEN review[q].target ELSE @,
        !.by = IF ReviewerOf(q) # review[q].read[p].by THEN ReviewerOf(q) ELSE @]

\* One row that is gone, or the reviewer's own, fails the whole request.
CommitReview(q) ==
    LET r == review[q]
        ps == DOMAIN r.read
    IN /\ r.op = "review"
       /\ Cardinality(ps) + Logged <= MaxReviews
       /\ IF r.user \notin departed /\ \A p \in ps : finding[p].row = r.read[p].row
          THEN /\ finding' = [p \in Places |-> IF p \in ps THEN Written(q, p) ELSE finding[p]]
               /\ history' = [p \in Places |->
                                IF p \in ps THEN Append(history[p], [from |-> r.read[p].st, to |-> r.target, by |-> r.user])
                                ELSE history[p]]
               /\ mixed' = mixed \cup {p \in ps : finding[p] # r.read[p]}
          ELSE UNCHANGED <<finding, history, mixed>>
       /\ review' = [review EXCEPT ![q] = Reading]
       /\ UNCHANGED <<comments, extraction, departed, strays>>

\* create_finding_comment: no foreign key holds the finding.
BeginComment(q, p) ==
    /\ review[q] = Reading
    /\ Exists(p) /\ Cardinality(comments) < MaxComments
    /\ review' = [review EXCEPT ![q] = [op |-> "comment", place |-> p, row |-> finding[p].row]]
    /\ UNCHANGED <<finding, history, comments, extraction, departed, mixed, strays>>

CommitComment(q) ==
    LET c == [place |-> review[q].place, row |-> review[q].row] IN
    /\ review[q].op = "comment"
    /\ comments' = comments \cup {c}
    /\ strays' = IF finding[c.place].row = c.row THEN strays ELSE strays \cup {c}
    /\ review' = [review EXCEPT ![q] = Reading]
    /\ UNCHANGED <<finding, history, extraction, departed, mixed>>

\* The purge of another organization deletes whoever is no member of this one any more;
\* his findings and log entries name nobody from then on.
Anonymous(r, u) == IF r.by = u THEN [r EXCEPT !.by = Nobody] ELSE r

AccountDeleted(u) ==
    /\ u \notin departed
    /\ departed' = departed \cup {u}
    /\ finding' = [p \in Places |-> Anonymous(finding[p], u)]
    /\ history' = [p \in Places |-> [i \in DOMAIN history[p] |-> Anonymous(history[p][i], u)]]
    /\ UNCHANGED <<comments, review, extraction, mixed, strays>>

-----------------------------------------------------------------------------
\* The worker: parsing deletes the elements and, by cascade, the findings that cite one
\* (the comments stay); a run may also begin with the extraction.
Reparse ==
    /\ extraction.pc = "idle" /\ extraction.runs < MaxExtractions
    /\ extraction' = [extraction EXCEPT !.pc = "extract"]
    /\ finding' = [p \in Places |-> IF finding[p].grounded THEN NoFinding ELSE finding[p]]
    /\ history' = [p \in Places |-> IF finding[p].grounded THEN <<>> ELSE history[p]]
    /\ strays' = strays \cup {c \in comments : finding[c.place].row = c.row /\ finding[c.place].grounded}
    /\ UNCHANGED <<comments, review, departed, mixed>>

\* _delete_stale_comments, then the findings themselves.
StaleComments_None(ps) == {}
StaleComments(ps) == {c \in comments : c.place \in ps /\ c.row = finding[c.place].row}

Replace(ps, present, sourced) ==
    /\ comments' = comments \ StaleComments(ps)
    /\ finding' = [p \in Places |->
                     IF p \notin ps THEN finding[p]
                     ELSE IF p \in present
                          THEN [NoFinding EXCEPT !.row = extraction.runs + 1, !.grounded = p \in sourced]
                          ELSE NoFinding]
    /\ history' = [p \in Places |-> IF p \in ps THEN <<>> ELSE history[p]]
    /\ mixed' = mixed \ ps
    /\ UNCHANGED <<review, departed, strays>>

\* _write_findings, one transaction ...
WriteFindings(present, sourced) ==
    /\ extraction.runs < MaxExtractions
    /\ sourced \subseteq present
    /\ extraction' = [extraction EXCEPT !.pc = "assess"]
    /\ extraction.pc \in {"idle", "extract"}
    /\ Replace(Extracted, present, sourced)

\* ... and _run_compliance another, on the requirements that have a source.
WriteCompliance(present) ==
    /\ extraction.pc = "assess"
    /\ present # {} => \E p \in Extracted : finding[p].grounded
    /\ extraction' = [pc |-> "idle", runs |-> extraction.runs + 1]
    /\ Replace(Assessed, present, present)

ExtractionCrash ==
    /\ extraction.pc # "idle"
    /\ extraction' = [pc |-> "idle", runs |-> extraction.runs + 1]
    /\ UNCHANGED <<finding, history, comments, review, departed, mixed, strays>>

ReviewNext ==
    \/ Reparse \/ ExtractionCrash
    \/ \E present, sourced \in SUBSET Extracted : WriteFindings(present, sourced)
    \/ \E present \in SUBSET Assessed : WriteCompliance(present)
    \/ \E u \in Reviewers : AccountDeleted(u)
    \/ \E q \in ReviewRequests :
          \/ \E u \in Reviewers, target \in Statuses :
                \/ \E p \in Places : BeginPatch(q, u, p, target)
                \/ target \in {"approved", "rejected"} /\ \E ps \in SUBSET Places : BeginBulk(q, u, ps, target)
          \/ CommitReview(q)
          \/ \E p \in Places : BeginComment(q, p)
          \/ CommitComment(q)

ReviewSpec == ReviewInit /\ [][ReviewNext]_reviewVars

-----------------------------------------------------------------------------
\* Every variable keeps its type.
ReviewTypeOK ==
    /\ finding \in [Places -> Finding]
    /\ \A p \in Places : Len(history[p]) <= MaxReviews
    /\ comments \in SUBSET [place : Places, row : Nat] /\ strays \in SUBSET [place : Places, row : Nat]
    /\ mixed \in SUBSET Places /\ departed \in SUBSET Reviewers
    /\ extraction \in [pc : {"idle", "extract", "assess"}, runs : 0 .. MaxExtractions]

(***************************************************************************)
(* Every finding's state is accounted for: its history leads from pending  *)
(* to the status it has, without a gap; what is pending names nobody, and  *)
(* what is not names who made the last change in the history, as long as   *)
(* his account is there: the deletion of an account takes the name from    *)
(* both.  Requests on one finding that overlap may break it: each writes   *)
(* only the columns it changed against what it had read.                   *)
(***************************************************************************)
ReviewAccounted ==
    \A p \in Places \ mixed :
        LET log == <<[from |-> "pending", to |-> "pending", by |-> Nobody]>> \o history[p]
            last == log[Len(log)]
        IN /\ \A i \in 2 .. Len(log) : log[i].from = log[i - 1].to
           /\ last.to = finding[p].st
           /\ finding[p].by = IF finding[p].st = "pending" THEN Nobody ELSE last.by

(***************************************************************************)
(* A comment goes with its finding when an extraction replaces it, as the  *)
(* docstring of FindingComment says.  Left behind are only comments that   *)
(* were being written meanwhile, and those of a finding that a new parse   *)
(* had deleted before: the worker looks for comments of findings it still  *)
(* has.                                                                    *)
(***************************************************************************)
NoOrphanComment ==
    \A c \in comments : finding[c.place].row = c.row \/ c \in strays
=============================================================================
