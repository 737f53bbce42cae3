----------------------------- MODULE DeadLetter -----------------------------
(***************************************************************************)
(* Verified billing events on their way through the webhook, the dead      *)
(* letter queue and an administrator's retry: the row in the database, the *)
(* Redis set behind the operator's metric, the "processed" mark in Redis,  *)
(* and what the provider was told.  What an event does to a subscription   *)
(* is module Billing.  Covers services/dead_letter.py and the webhook and  *)
(* retry handlers of routers/v1/billing.py.                                *)
(*                                                                         *)
(* Bounds: MaxDeliveries (deliveries per event).                           *)
(***************************************************************************)
EXTENDS Integers

CONSTANTS
    Events,
    Handlers,          \* requests in flight at a time
    MaxAttempts,       \* MAX_TRANSIENT_ATTEMPTS
    MaxDeliveries

ASSUME DeadLetterAssumption == MaxAttempts \in Nat /\ MaxDeliveries \in Nat

VARIABLES
    delivered,   \* [Events -> deliveries so far]
    told,        \* events the provider got a final answer for (2xx or 400)
    nature,      \* [Events -> Natures]
    outdated,    \* events the subscription has gone past (occurred_at)
    applied,     \* events whose effect is committed
    processed,   \* the dedup marks in Redis
    letter,      \* [Events -> row of webhook_dead_letter]
    pendingSet,  \* billing:dlq:pending in Redis
    handler,     \* [Handlers -> the request in flight]
    slips        \* (ghost) [Events -> what went wrong between database and Redis]

deadLetterVars == <<delivered, told, nature, outdated, applied, processed, letter,
                    pendingSet, handler, slips>>

\* An event carries occurred_at or not, or no attempt can apply it (unknown tenant,
\* unmapped status).
Natures == {"dated", "undated", "hopeless"}
Letter == [st : {"none", "pending", "resolved"}, attempts : Nat]
NoHandler == [op |-> "idle"]
Slip(e, what) == slips' = [slips EXCEPT ![e] = @ \cup {what}]
Serve(h, state) == handler' = [handler EXCEPT ![h] = state]

-----------------------------------------------------------------------------

DeadLetterInit ==
    /\ delivered = [e \in Events |-> 0]
    /\ told = {} /\ outdated = {} /\ applied = {} /\ processed = {} /\ pendingSet = {}
    /\ nature \in [Events -> Natures]
    /\ letter = [e \in Events |-> [st |-> "none", attempts |-> 0]]
    /\ handler = [h \in Handlers |-> NoHandler]
    /\ slips = [e \in Events |-> {}]

\* External: the provider delivers, again as long as it has no final answer, or when
\* that answer was lost.
DeliverEvent(h, e) ==
    /\ handler[h] = NoHandler /\ delivered[e] < MaxDeliveries
    /\ delivered' = [delivered EXCEPT ![e] = @ + 1]
    /\ Serve(h, [op |-> "webhook", pc |-> "apply", event |-> e])
    /\ UNCHANGED <<told, nature, outdated, applied, processed, letter, pendingSet, slips>>

\* External: a newer event of the tenant is applied.
NewerApplied(e) ==
    /\ e \notin outdated
    /\ outdated' = outdated \cup {e}
    /\ UNCHANGED <<delivered, told, nature, applied, processed, letter, pendingSet, handler, slips>>

\* An administrator retries a letter that is not resolved.
RetryLetter(h, e) ==
    /\ handler[h] = NoHandler
    /\ letter[e].st = "pending"
    /\ Serve(h, [op |-> "retry", pc |-> "apply", event |-> e])
    /\ UNCHANGED <<delivered, told, nature, outdated, applied, processed, letter, pendingSet, slips>>

\* apply_webhook_event: what the event comes to, by now.  An applied event is itself
\* outdated: occurred_at <= last_event_at.
OutcomeOf(e) ==
    IF e \in processed THEN "duplicate"
    ELSE IF nature[e] = "hopeless" THEN "permanent"
    ELSE IF nature[e] = "dated" /\ e \in outdated \cup applied THEN "stale" ELSE "applied"

\* The upsert of enqueue holds the row until its commit.
RowHeld(e) ==
    \E g \in Handlers : handler[g].op = "webhook" /\ handler[g].pc = "queue" /\ handler[g].event = e

\* Which outcomes resolve the letter: resolve_for_event and mark_resolved.
Resolves_Final(op, outcome) == outcome \in {"applied", "duplicate", "stale"}
Resolves(op, outcome) == outcome = "applied" \/ (op = "retry" /\ outcome = "duplicate")

\* The letter's id leaves the Redis set here, before the commit.
ApplyAttempt(h) ==
    LET e == handler[h].event
        op == handler[h].op
        outcome == OutcomeOf(e)
        resolves == Resolves(op, outcome) /\ (op = "retry" \/ letter[e].st = "pending")
    IN /\ op # "idle" /\ handler[h].pc = "apply"
       /\ IF outcome = "permanent"
          THEN /\ Serve(h, IF op = "webhook" THEN [op |-> op, pc |-> "enqueue", event |-> e, kind |-> "permanent"]
                           ELSE NoHandler)
               /\ UNCHANGED pendingSet
          ELSE /\ Serve(h, [op |-> op, pc |-> IF op = "retry" /\ outcome = "applied" THEN "mark" ELSE "commit",
                            event |-> e, outcome |-> outcome, resolves |-> resolves])
               /\ pendingSet' = IF resolves THEN pendingSet \ {e} ELSE pendingSet
       /\ UNCHANGED <<delivered, told, nature, outdated, applied, processed, letter, slips>>

\* A billing error of unknown class counts as transient; a retry just reports it.
ApplyErrs(h) ==
    /\ handler[h].op # "idle" /\ handler[h].pc = "apply"
    /\ Serve(h, IF handler[h].op = "webhook"
                THEN [op |-> "webhook", pc |-> "enqueue", event |-> handler[h].event, kind |-> "transient"]
                ELSE NoHandler)
    /\ UNCHANGED <<delivered, told, nature, outdated, applied, processed, letter, pendingSet, slips>>

\* The retry marks the event processed before its transaction, the dependency's, commits.
MarkEarly(h) ==
    /\ handler[h].op = "retry" /\ handler[h].pc = "mark"
    /\ Serve(h, [handler[h] EXCEPT !.pc = "commit"])
    /\ \/ processed' = processed \cup {handler[h].event}
       \/ UNCHANGED processed
    /\ UNCHANGED <<delivered, told, nature, outdated, applied, letter, pendingSet, slips>>

\* The commit; the webhook marks the event after it (unless Redis fails) and answers.
CommitApply(h) ==
    LET x == handler[h]
        e == x.event
    IN /\ x.op # "idle" /\ x.pc = "commit"
       /\ x.resolves => ~RowHeld(e)
       /\ applied' = IF x.outcome = "applied" THEN applied \cup {e} ELSE applied
       /\ letter' = IF x.resolves THEN [letter EXCEPT ![e].st = "resolved"] ELSE letter
       /\ \/ x.op = "webhook" /\ x.outcome = "applied" /\ processed' = processed \cup {e}
          \/ UNCHANGED processed
       /\ told' = IF x.op = "webhook" THEN told \cup {e} ELSE told
       /\ Serve(h, NoHandler)
       /\ UNCHANGED <<delivered, nature, outdated, pendingSet, slips>>

\* (a retry between its mark and its commit)
MarkedEarly(x) == x.op = "retry" /\ x.pc = "commit" /\ x.outcome = "applied"

\* The commit fails, or the process stops: a server error, and nothing written except
\* in Redis.
CommitApplyFails(h) ==
    LET x == handler[h] IN
    /\ x.op # "idle" /\ x.pc \in {"mark", "commit"}
    /\ slips' = [slips EXCEPT ![x.event] = @ \cup (IF x.resolves THEN {"uncounted"} ELSE {})
                                          \cup (IF MarkedEarly(x) THEN {"markedEarly"} ELSE {})]
    /\ Serve(h, NoHandler)
    /\ UNCHANGED <<delivered, told, nature, outdated, applied, processed, letter, pendingSet>>

\* enqueue: one upsert, and the id into the Redis set (best effort) ...
CountLetter(e) == pendingSet \cup {e}

Enqueue(h) ==
    LET e == handler[h].event IN
    /\ handler[h].op = "webhook" /\ handler[h].pc = "enqueue" /\ ~RowHeld(e)
    /\ Serve(h, [handler[h] EXCEPT !.pc = "queue"])
    /\ \/ pendingSet' = CountLetter(e) /\ UNCHANGED slips
       \/ UNCHANGED pendingSet /\ Slip(e, "uncounted")
    /\ UNCHANGED <<delivered, told, nature, outdated, applied, processed, letter>>

\* ... and its own commit decides the answer: 400 for good, 503 a few times, then 200.
Final(kind, attempts) == kind = "permanent" \/ attempts >= MaxAttempts

CommitEnqueue(h) ==
    LET e == handler[h].event
        attempts == letter[e].attempts + 1
    IN /\ handler[h].op = "webhook" /\ handler[h].pc = "queue"
       /\ letter' = [letter EXCEPT ![e] = [st |-> "pending", attempts |-> attempts]]
       /\ told' = IF Final(handler[h].kind, attempts) THEN told \cup {e} ELSE told
       /\ Serve(h, NoHandler)
       /\ UNCHANGED <<delivered, nature, outdated, applied, processed, pendingSet, slips>>

\* The queue cannot be written either: 503.
EnqueueFails(h) ==
    /\ handler[h].op = "webhook" /\ handler[h].pc \in {"enqueue", "queue"}
    /\ Serve(h, NoHandler)
    /\ UNCHANGED <<delivered, told, nature, outdated, applied, processed, letter, pendingSet, slips>>

DeadLetterNext ==
    \/ \E e \in Events : NewerApplied(e)
    \/ \E h \in Handlers :
          \/ \E e \in Events : DeliverEvent(h, e) \/ RetryLetter(h, e)
          \/ ApplyAttempt(h) \/ ApplyErrs(h) \/ MarkEarly(h)
          \/ CommitApply(h) \/ CommitApplyFails(h)
          \/ Enqueue(h) \/ CommitEnqueue(h) \/ EnqueueFails(h)

DeadLetterSpec == DeadLetterInit /\ [][DeadLetterNext]_deadLetterVars

-----------------------------------------------------------------------------
\* Every variable keeps its type.
DeadLetterTypeOK ==
    /\ delivered \in [Events -> 0 .. MaxDeliveries]
    /\ told \in SUBSET Events /\ nature \in [Events -> Natures] /\ outdated \in SUBSET Events
    /\ applied \in SUBSET Events /\ processed \in SUBSET Events /\ pendingSet \in SUBSET Events
    /\ letter \in [Events -> Letter]
    /\ slips \in [Events -> SUBSET {"uncounted", "markedEarly"}]

\* A retry marks the event processed before it commits; until then, and for good when
\* the commit fails, it is taken for applied.
TakenForApplied(e) ==
    \/ "markedEarly" \in slips[e]
    \/ \E h \in Handlers : handler[h].op = "retry" /\ handler[h].event = e /\ MarkedEarly(handler[h])

\* A pending letter is in the operator's metric, unless Redis failed on it, or a
\* resolution took it out whose commit is still to come or has failed.
Counted(e) ==
    \/ e \in pendingSet \/ "uncounted" \in slips[e]
    \/ \E h \in Handlers : handler[h].op # "idle" /\ handler[h].event = e
                           /\ handler[h].pc \in {"mark", "commit"} /\ handler[h].resolves

(***************************************************************************)
(* No event gets lost in silence: once the provider has its final answer,  *)
(* the event has been applied, or the subscription has gone past it, or it *)
(* waits in the queue; whatever failed on the way, in whatever order.  A   *)
(* letter that waits is counted, and a resolved letter's event has been    *)
(* applied.  (Except that a retry marks the event processed before its     *)
(* commit: when that fails, the next attempt takes it for a duplicate and  *)
(* resolves the letter.)                                                   *)
(***************************************************************************)
NoSilentLoss ==
    /\ \A e \in told :
        \/ e \in applied \/ (nature[e] = "dated" /\ e \in outdated)
        \/ letter[e].st = "pending" \/ TakenForApplied(e)
    /\ \A e \in Events :
        /\ letter[e].st = "pending" => Counted(e)
        /\ letter[e].st = "resolved" => e \in applied \/ TakenForApplied(e)
=============================================================================
