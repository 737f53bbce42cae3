-------------------------------- MODULE Billing --------------------------------
(***************************************************************************)
(* The subscription of one tenant, the mirror TenderIQ keeps of what the   *)
(* payment provider runs, and everything that writes it: the               *)
(* administrator's requests, the provider's webhooks, the hourly sweep of  *)
(* periods that ended and the hourly reconciliation.                       *)
(*                                                                         *)
(* None of these transactions locks the row.  Each reads it, decides on    *)
(* what it read, perhaps calls the provider, and commits; the ORM then     *)
(* writes the columns whose value it changed and leaves the others as they *)
(* have become.  The provider, which is outside the repository, is         *)
(* modelled from the calls made to it and the events it is expected to     *)
(* send: it numbers its events, delivers them in any order, again until    *)
(* they are acknowledged, or never.                                        *)
(***************************************************************************)
EXTENDS Naturals, Sequences

CONSTANTS
    Txns,         \* transactions that may be open at once
    MonthLength,  \* length of a calendar month, and of a paid period
    MaxTime,      \* bound: the clock stops there
    MaxEvents,    \* bound: events the provider sends
    MaxCalls,     \* bound: requests that change a subscription
    Requests,     \* the requests this instance allows
    Dated,        \* whether events carry the end of the paid period
    Faults        \* the faults of the environment this instance allows

AllRequests == {"checkout", "change", "cancel", "resume"}
AllFaults == {"commit",    \* a transaction fails at its commit
              "mark",      \* Redis is down, or the process dies, after the commit
              "answer",    \* the answer to a webhook is lost
              "lost"}      \* an event is never delivered

ASSUME BillingAssumption ==
    /\ MonthLength \in Nat \ {0}
    /\ MaxTime \in Nat /\ MaxEvents \in Nat /\ MaxCalls \in Nat
    /\ Requests \subseteq AllRequests /\ Faults \subseteq AllFaults
    /\ Dated \in BOOLEAN

-----------------------------------------------------------------------------
\* The plan tiers in the order of PLAN_ORDER.
FREE == 0
Tiers == 0..2
Paid == Tiers \ {FREE}
SubscriptionStatus == {"active", "past_due", "canceled"}

NoDate == 0    \* a date column that is NULL; the clock starts at 1

Row == [plan : Tiers, status : SubscriptionStatus, provider : BOOLEAN, cancel : BOOLEAN,
        period_end : Nat, pending : Tiers, last_event : Nat]

\* pending = FREE stands for no pending plan: to fall to FREE is a cancellation.
NewSubscription == [plan |-> FREE, status |-> "active", provider |-> FALSE, cancel |-> FALSE,
                    period_end |-> NoDate, pending |-> FREE, last_event |-> 0]

EventTypes == {"activated", "updated", "renewed", "past_due", "canceled", "resumed", "expired"}
Event == [type : EventTypes, plan : Tiers, period_end : Nat]

Remote == [state : {"none", "active", "unpaid", "canceled", "ended"},
           plan : Tiers, next : Tiers, paid_until : Nat]

Operations == {"cancel", "resume", "revert", "upgrade", "downgrade",
               "webhook", "sweep", "reconcile"}
Txn == [step : {"idle", "call", "commit", "answer"}, op : Operations, read : Row,
        target : Tiers, event : Nat, at : Nat, applied : BOOLEAN]
Idle == [step |-> "idle", op |-> "sweep", read |-> NewSubscription,
         target |-> FREE, event |-> 0, at |-> 0, applied |-> FALSE]

VARIABLES
    now,        \* the clock
    sub,        \* the subscription row
    remote,     \* the subscription at the provider
    form,       \* the tier of the open checkout form; FREE none
    events,     \* events[n]: the event the provider stamped n
    processed,  \* the marks in Redis: events processed
    answered,   \* events the provider got a 200 for: it stops delivering them
    dropped,    \* events that are never delivered (again)
    applied,    \* history: events a committed transaction applied
    txn,        \* txn[t]: an open transaction
    calls       \* requests that change the subscription so far (bounded)

provider == <<remote, form, events>>
delivery == <<processed, answered, dropped, applied>>
vars == <<now, sub, provider, delivery, txn, calls>>

Init ==
    /\ now = 1
    /\ sub = NewSubscription
    /\ remote = [state |-> "none", plan |-> FREE, next |-> FREE, paid_until |-> NoDate]
    /\ form = FREE
    /\ events = <<>>
    /\ processed = {} /\ answered = {} /\ dropped = {} /\ applied = {}
    /\ txn = [t \in Txns |-> Idle]
    /\ calls = 0

-----------------------------------------------------------------------------
(* Pure parts of services/billing.                                          *)

\* current_period_bounds: the end of the calendar month.
MonthEnd(t) == ((t \div MonthLength) + 1) * MonthLength

\* _period_end: the stored date, unless it is missing or past.
PeriodEnd(row, at) == IF row.period_end > at THEN row.period_end ELSE MonthEnd(at)

\* apply_plan_change: FREE has no period, cancellation or pending plan; a paid
\* plan has a period that is not over.
ApplyPlanChange(row, plan, status, at) ==
    IF plan = FREE
    THEN [row EXCEPT !.plan = plan, !.status = status,
                     !.period_end = NoDate, !.cancel = FALSE, !.pending = FREE]
    ELSE [row EXCEPT !.plan = plan, !.status = status, !.period_end = PeriodEnd(row, at)]

\* Variant: a cancellation closes access at once.
ResolveTarget_ClosesAtOnce(row, e, at) ==
    CASE e.type \in {"canceled", "expired"} -> ApplyPlanChange(row, FREE, "canceled", at)
      [] e.type = "past_due" -> ApplyPlanChange(row, row.plan, "past_due", at)
      [] e.type = "resumed"  ->
            [ApplyPlanChange(row, e.plan, "active", at) EXCEPT !.cancel = FALSE]
      [] OTHER -> ApplyPlanChange(row, e.plan, "active", at)

\* _resolve_target and its application: a cancellation keeps the plan until the
\* period ends, only its end closes it, and only resumed takes it back.
ResolveTarget(row, e, at) ==
    CASE e.type = "canceled" ->
            [ApplyPlanChange(row, row.plan, "active", at) EXCEPT !.cancel = TRUE]
      [] e.type = "expired"  ->
            [ApplyPlanChange(row, FREE, "canceled", at) EXCEPT !.cancel = FALSE]
      [] e.type = "past_due" -> ApplyPlanChange(row, row.plan, "past_due", at)
      [] e.type = "resumed"  ->
            [ApplyPlanChange(row, e.plan, "active", at) EXCEPT !.cancel = FALSE]
      [] OTHER -> ApplyPlanChange(row, e.plan, "active", at)

\* Variant: the row is stamped with the time of delivery, not with the event's.
ApplyEvent_StampsNow(row, n, at) ==
    LET target == ResolveTarget(row, events[n], at)
        ended == target.plan = FREE /\ target.status = "canceled"
    IN [target EXCEPT !.provider = TRUE,
                      !.pending = IF ended THEN FREE ELSE @, !.last_event = at]

\* The rest of apply_webhook_event: the provider's date wins, an ended
\* subscription keeps none, and the stamp is remembered.
ApplyEvent(row, n, at) ==
    LET e == events[n]
        target == ResolveTarget(row, e, at)
        ended == target.plan = FREE /\ target.status = "canceled"
    IN [target EXCEPT
          !.provider = TRUE,
          !.period_end = IF ended THEN NoDate ELSE IF e.period_end # NoDate THEN e.period_end ELSE @,
          !.pending = IF ended THEN FREE ELSE @,
          !.last_event = n]

\* apply_due_subscription_changes: a cancellation ends the subscription, else
\* the pending plan becomes the plan of a new period.
ApplyDue(row, at) ==
    IF row.cancel
    THEN [row EXCEPT !.plan = FREE, !.status = "canceled", !.cancel = FALSE,
                     !.pending = FREE, !.period_end = NoDate]
    ELSE [row EXCEPT !.plan = row.pending, !.pending = FREE, !.period_end = MonthEnd(at)]

\* The row as transaction x wants it.
Wanted(x) ==
    CASE x.op = "cancel"    -> [x.read EXCEPT !.cancel = TRUE, !.pending = FREE,
                                              !.period_end = PeriodEnd(x.read, x.at)]
      [] x.op = "resume"    -> [x.read EXCEPT !.cancel = FALSE]
      [] x.op = "revert"    -> [x.read EXCEPT !.pending = FREE]
      [] x.op = "upgrade"   -> [ApplyPlanChange(x.read, x.target, "active", x.at)
                                  EXCEPT !.pending = FREE]
      [] x.op = "downgrade" -> [x.read EXCEPT !.pending = x.target,
                                              !.period_end = PeriodEnd(x.read, x.at)]
      [] x.op = "webhook"   -> ApplyEvent(x.read, x.event, x.at)
      [] x.op = "sweep"     -> ApplyDue(x.read, x.at)
      [] x.op = "reconcile" -> ApplyPlanChange(x.read, x.target, "active", x.at)

\* The commit writes the columns that were changed, over whatever the others are.
Written(read, new, row) ==
    [column \in DOMAIN row |-> IF new[column] # read[column] THEN new[column] ELSE row[column]]

-----------------------------------------------------------------------------
(* Transactions.                                                            *)

Open(t, op, target, step) ==
    txn' = [txn EXCEPT ![t] = [Idle EXCEPT !.step = step, !.op = op, !.read = sub,
                                           !.target = target, !.at = now]]

Close(t) == txn' = [txn EXCEPT ![t] = Idle]

Request(kind) == kind \in Requests /\ calls < MaxCalls /\ calls' = calls + 1

\* The provider is asked only when the tenant has a subscription there.
AskProvider == IF sub.provider THEN "call" ELSE "commit"

\* schedule_cancellation, also when FREE is chosen as the new plan.
BeginCancel(t) ==
    /\ txn[t].step = "idle" /\ Request("cancel")
    /\ sub.plan # FREE /\ ~sub.cancel
    /\ Open(t, "cancel", FREE, AskProvider)
    /\ UNCHANGED <<now, sub, provider, delivery>>

\* resume_subscription: only while the period is not over.
BeginResume(t) ==
    /\ txn[t].step = "idle" /\ Request("resume")
    /\ sub.cancel /\ (sub.period_end = NoDate \/ sub.period_end > now)
    /\ Open(t, "resume", FREE, AskProvider)
    /\ UNCHANGED <<now, sub, provider, delivery>>

\* request_plan_change of a tenant the provider knows: back to the present plan,
\* up at once, or down at the end of the period.
BeginChange(t, p) ==
    /\ txn[t].step = "idle" /\ Request("change")
    /\ ~sub.cancel /\ sub.provider
    /\ \/ p = sub.plan /\ sub.pending # FREE /\ Open(t, "revert", p, "call")
       \/ p > sub.plan /\ Open(t, "upgrade", p, "call")
       \/ p < sub.plan /\ Open(t, "downgrade", p, "call")
    /\ UNCHANGED <<now, sub, provider, delivery>>

\* start_checkout of a tenant the provider does not know: a payment form is
\* opened, nothing is written.  A form opened after a payment whose webhook is
\* still to come is not followed.
Checkout(p) ==
    /\ "checkout" \in Requests
    /\ ~sub.cancel /\ ~sub.provider /\ p # sub.plan
    /\ remote.state = "none"
    /\ form' = p
    /\ UNCHANGED <<now, sub, remote, events, delivery, txn, calls>>

\* Variant: only downgrades are looked for.
BeginSweep_Downgrades(t) ==
    /\ txn[t].step = "idle"
    /\ sub.period_end # NoDate /\ sub.period_end <= now
    /\ sub.pending # FREE
    /\ Open(t, "sweep", FREE, "commit")
    /\ UNCHANGED <<now, sub, provider, delivery, calls>>

\* apply_due_subscription_changes, for this tenant: a date that has come and
\* something to apply.
BeginSweep(t) ==
    /\ txn[t].step = "idle"
    /\ sub.period_end # NoDate /\ sub.period_end <= now
    /\ sub.cancel \/ sub.pending # FREE
    /\ Open(t, "sweep", FREE, "commit")
    /\ UNCHANGED <<now, sub, provider, delivery, calls>>

\* reconcile_subscriptions leaves tenants the provider does not know, and those
\* that cancelled, alone.
BeginReconcile(t) ==
    /\ txn[t].step = "idle"
    /\ sub.provider /\ ~sub.cancel
    /\ Open(t, "reconcile", FREE, "call")
    /\ UNCHANGED <<now, sub, provider, delivery, calls>>

\* Variant: the stamp of the last event is not looked at.
Outdated_Never(n) == FALSE
Outdated(n) == n <= sub.last_event

\* Variant: an event is marked as processed before it is applied.
BeginWebhook_MarksFirst(t, n) ==
    /\ txn[t].step = "idle"
    /\ n \notin answered \cup dropped
    /\ txn' = [txn EXCEPT ![t] =
         [Idle EXCEPT !.step = IF n \in processed \/ Outdated(n) THEN "answer" ELSE "commit",
                      !.op = "webhook", !.read = sub, !.event = n, !.at = now]]
    /\ processed' = processed \cup {n}
    /\ UNCHANGED <<now, sub, provider, answered, dropped, applied, calls>>

\* The webhook handler up to its decision: an event marked as processed or older
\* than the last one applied is answered without effect.
BeginWebhook(t, n) ==
    /\ txn[t].step = "idle"
    /\ n \notin answered \cup dropped
    /\ txn' = [txn EXCEPT ![t] =
         [Idle EXCEPT !.step = IF n \in processed \/ Outdated(n) THEN "answer" ELSE "commit",
                      !.op = "webhook", !.read = sub, !.event = n, !.at = now]]
    /\ UNCHANGED <<now, sub, provider, delivery, calls>>

-----------------------------------------------------------------------------
(* The provider. *)

Emit(type, plan, until) ==
    /\ Len(events) < MaxEvents
    /\ events' = Append(events, [type |-> type, plan |-> plan,
                                 period_end |-> IF Dated THEN until ELSE NoDate])

\* What the provider does with a call; one it does not accept fails.
Cancelled ==
    /\ remote.state \in {"active", "unpaid"}
    /\ remote' = [remote EXCEPT !.state = "canceled"]
    /\ Emit("canceled", remote.plan, remote.paid_until)

Resumed ==
    /\ remote.state = "canceled" /\ now < remote.paid_until
    /\ remote' = [remote EXCEPT !.state = "active"]
    /\ Emit("resumed", remote.plan, remote.paid_until)

PlanChanged(p, immediate) ==
    /\ remote.state = "active"
    /\ IF immediate
       THEN /\ remote' = [remote EXCEPT !.plan = p, !.next = p]
            /\ Emit("updated", p, remote.paid_until)
       ELSE remote' = [remote EXCEPT !.next = p] /\ UNCHANGED events

\* The call of an administrator's request, before anything is written.
CallProvider(t) ==
    /\ txn[t].step = "call"
    /\ \/ txn[t].op = "cancel" /\ Cancelled
       \/ txn[t].op = "resume" /\ Resumed
       \/ txn[t].op = "upgrade" /\ PlanChanged(txn[t].target, TRUE)
       \/ txn[t].op \in {"revert", "downgrade"} /\ PlanChanged(txn[t].target, FALSE)
    /\ txn' = [txn EXCEPT ![t].step = "commit"]
    /\ UNCHANGED <<now, sub, form, delivery, calls>>

\* A call that the provider does not answer, or refuses, ends the request or the
\* round of the reconciliation.  One it carries out without the answer getting
\* through is a call followed by a failed commit.
CallFails(t) ==
    /\ txn[t].step = "call"
    /\ Close(t)
    /\ UNCHANGED <<now, sub, provider, delivery, calls>>

\* The reconciliation only opens access: the provider says active and the mirror
\* does not, or not with this plan.
Repairs(t) ==
    remote.state = "active" /\ (txn[t].read.status # "active" \/ remote.plan # txn[t].read.plan)

\* reconcile_subscriptions fetches the provider's state and compares.
Fetch(t) ==
    /\ txn[t].step = "call" /\ txn[t].op = "reconcile"
    /\ txn' = [txn EXCEPT ![t] =
         IF Repairs(t) THEN [@ EXCEPT !.step = "commit", !.target = remote.plan] ELSE Idle]
    /\ UNCHANGED <<now, sub, provider, delivery, calls>>

-----------------------------------------------------------------------------
Commit(t) ==
    /\ txn[t].step = "commit"
    /\ sub' = Written(txn[t].read, Wanted(txn[t]), sub)
    /\ IF txn[t].op = "webhook"
       THEN /\ txn' = [txn EXCEPT ![t] = [@ EXCEPT !.step = "answer", !.applied = TRUE]]
            /\ applied' = applied \cup {txn[t].event}
       ELSE Close(t) /\ UNCHANGED applied
    /\ UNCHANGED <<now, provider, processed, answered, dropped, calls>>

CommitFails(t) ==
    /\ "commit" \in Faults
    /\ txn[t].step = "commit"
    /\ Close(t)
    /\ UNCHANGED <<now, sub, provider, delivery, calls>>

\* mark_webhook_processed after the commit, then the answer to the provider.
Answer(t) ==
    /\ txn[t].step = "answer"
    /\ LET n == txn[t].event
       IN /\ \/ processed' = IF txn[t].applied THEN processed \cup {n} ELSE processed
             \/ "mark" \in Faults /\ UNCHANGED processed
          /\ \/ answered' = answered \cup {n}
             \/ "answer" \in Faults /\ UNCHANGED answered
    /\ Close(t)
    /\ UNCHANGED <<now, sub, provider, dropped, applied, calls>>

-----------------------------------------------------------------------------
(* What happens at the provider by itself. *)

\* The customer pays for the tier of the form.
Pay ==
    /\ form # FREE /\ remote.state = "none"
    /\ remote' = [state |-> "active", plan |-> form, next |-> form,
                  paid_until |-> now + MonthLength]
    /\ form' = FREE
    /\ Emit("activated", form, now + MonthLength)
    /\ UNCHANGED <<now, sub, delivery, txn, calls>>

PeriodOver == now >= remote.paid_until

\* The next period is paid, with the tier scheduled for it; also late.
Renew ==
    /\ remote.state \in {"active", "unpaid"} /\ PeriodOver
    /\ remote' = [remote EXCEPT !.state = "active", !.plan = remote.next,
                                !.paid_until = now + MonthLength]
    /\ Emit("renewed", remote.next, now + MonthLength)
    /\ UNCHANGED <<now, sub, form, delivery, txn, calls>>

PaymentFails ==
    /\ remote.state = "active" /\ PeriodOver
    /\ remote' = [remote EXCEPT !.state = "unpaid"]
    /\ Emit("past_due", remote.plan, NoDate)
    /\ UNCHANGED <<now, sub, form, delivery, txn, calls>>

\* A cancelled or unpaid subscription ends with its period.
Expire ==
    /\ remote.state \in {"canceled", "unpaid"} /\ PeriodOver
    /\ remote' = [remote EXCEPT !.state = "ended"]
    /\ Emit("expired", remote.plan, NoDate)
    /\ UNCHANGED <<now, sub, form, delivery, txn, calls>>

\* The provider gives up on an event.
Drop(n) ==
    /\ "lost" \in Faults
    /\ n \notin answered \cup dropped
    /\ dropped' = dropped \cup {n}
    /\ UNCHANGED <<now, sub, provider, processed, answered, applied, txn, calls>>

Tick ==
    /\ now < MaxTime
    /\ now' = now + 1
    /\ UNCHANGED <<sub, provider, delivery, txn, calls>>

-----------------------------------------------------------------------------
RequestStep ==
    \/ \E p \in Paid : Checkout(p)
    \/ \E t \in Txns : BeginCancel(t) \/ BeginResume(t) \/ \E p \in Paid : BeginChange(t, p)

ProviderStep == Pay \/ Renew \/ PaymentFails \/ Expire \/ \E n \in 1..Len(events) : Drop(n)

FaultStep == \E t \in Txns : CallFails(t) \/ CommitFails(t)

\* An open transaction goes on.
Proceed(t) == CallProvider(t) \/ Fetch(t) \/ Commit(t) \/ Answer(t)

Deliver(n) == \E t \in Txns : BeginWebhook(t, n)
Sweep == \E t \in Txns : BeginSweep(t)
Reconcile == \E t \in Txns : BeginReconcile(t)

Next ==
    \/ Tick \/ RequestStep \/ ProviderStep \/ FaultStep \/ Sweep \/ Reconcile
    \/ \E n \in 1..Len(events) : Deliver(n)
    \/ \E t \in Txns : Proceed(t)

Spec == Init /\ [][Next]_vars

\* Time passes, a transaction goes on to its end, and the scheduled sweep and reconciliation run: their messages wait until a worker
\* is free, the next hour brings another, and a database that fails is back one day.
FairSpec ==
    /\ Spec
    /\ WF_vars(Tick)
    /\ \A t \in Txns : WF_vars(Proceed(t) \/ CallFails(t))
    /\ SF_vars(Sweep) /\ SF_vars(Reconcile)
    /\ \A op \in {"sweep", "reconcile"} :
         SF_vars(\E t \in Txns : txn[t].op = op /\ Commit(t))

-----------------------------------------------------------------------------
(* Properties. *)

\* Every variable keeps its type; the row's stamp is one the provider gave.
TypeOK ==
    /\ now \in 1..(MaxTime + 1)
    /\ sub \in Row /\ sub.last_event <= Len(events)
    /\ remote \in Remote /\ form \in Tiers
    /\ events \in Seq(Event) /\ Len(events) <= MaxEvents
    /\ processed \cup answered \cup dropped \cup applied \subseteq 1..Len(events)
    /\ txn \in [Txns -> Txn]
    /\ calls \in 0..MaxCalls

\* No event is lost silently: what the provider got a 200 for was applied, or
\* came after a newer one that was.
NoEventLost == \A n \in answered : \E m \in applied : m >= n

\* The provider has nothing left to say and no transaction is open.
Quiet == answered = 1..Len(events) /\ \A t \in Txns : txn[t].step = "idle"

\* Whatever the order the events came in, once all were delivered a subscription
\* cancelled at the provider is on its way to its end in the mirror too, and one
\* that ended there gives no access here.
MirrorAgrees ==
    Quiet => /\ remote.state = "canceled" => sub.cancel \/ sub.plan = FREE
             /\ remote.state = "ended" => sub.plan = FREE

\* What was paid for is not taken away: once the mirror heard all the provider
\* said, the plan goes to FREE only when the period that was paid for is over.
PaidPeriodKept ==
    [][sub'.plan = FREE /\ sub.plan # FREE /\ sub'.last_event = Len(events)
         => now >= remote.paid_until]_vars

\* models/subscription.py: the stamp keeps an older event from writing over what a
\* newer one left.  It holds while transactions do not overlap.
EventOrder == [][sub'.last_event >= sub.last_event]_vars

\* A cancelled subscription ends: at the end of its period the plan becomes FREE,
\* unless the customer resumes.
CancelledEnds ==
    sub.cancel /\ sub.plan # FREE ~> sub.plan = FREE \/ ~sub.cancel \/ sub.period_end > MaxTime

-----------------------------------------------------------------------------
(* What the repository says and the code does not keep. *)

\* reconcile_subscriptions: when the webhook never comes, the reconciliation is the
\* one fallback of "payment taken, access not opened".
PaymentOpensAccess ==
    remote.state = "active" ~> sub.plan # FREE \/ remote.state # "active"
=============================================================================
