----------------------------- MODULE BillingProofs -----------------------------
(***************************************************************************)
(* Theorems about Billing, for any number of transactions that overlap, any *)
(* calendar, any number of events and requests, and every fault.           *)
(*                                                                         *)
(* NoEventLost is about what the provider was answered; why it holds is    *)
(* what the transactions, the row's stamp and the marks in Redis stand     *)
(* for: Attested says that each of them goes back to an event that a       *)
(* committed transaction applied.                                          *)
(***************************************************************************)
EXTENDS Billing, TLAPS

\* n was applied, or a later event was.
Covered(n) == \E m \in applied : m >= n

\* An open delivery is about an event of the provider, and is answered when the
\* event is covered; no other transaction gets as far as an answer, and only
\* other transactions call the provider.
DeliveryOK(x) ==
    /\ x.op = "webhook" /\ x.step # "idle" =>
          /\ x.event \in 1..Len(events)
          /\ x.step \in {"commit", "answer"}
          /\ x.step = "answer" => Covered(x.event)
          /\ x.applied => x.event \in applied
    /\ x.step = "answer" => x.op = "webhook"

\* Nothing speaks of an event that was not applied: not the row, nor what a
\* transaction read of it, nor the marks.
Attested ==
    /\ sub.last_event \in {0} \cup applied
    /\ processed \subseteq applied
    /\ \A t \in Txns : txn[t].read.last_event \in {0} \cup applied
    /\ \A t \in Txns : DeliveryOK(txn[t])

IInv == TypeOK /\ Attested /\ NoEventLost

-----------------------------------------------------------------------------
(* The rows that the pure parts return.                                     *)

LEMMA MonthEndType == ASSUME NEW at \in Nat PROVE MonthEnd(at) \in Nat
BY BillingAssumption DEF MonthEnd

LEMMA PeriodEndType ==
    ASSUME NEW row \in Row, NEW at \in Nat
    PROVE  PeriodEnd(row, at) \in Nat
BY MonthEndType DEF PeriodEnd, Row

LEMMA ApplyPlanChangeType ==
    ASSUME NEW row \in Row, NEW plan \in Tiers, NEW status \in SubscriptionStatus,
           NEW at \in Nat
    PROVE  /\ ApplyPlanChange(row, plan, status, at) \in Row
           /\ ApplyPlanChange(row, plan, status, at).last_event = row.last_event
BY PeriodEndType DEF ApplyPlanChange, Row, Tiers, FREE, NoDate

LEMMA ResolveTargetType ==
    ASSUME NEW row \in Row, NEW e \in Event, NEW at \in Nat
    PROVE  ResolveTarget(row, e, at) \in Row
<1>1. row.plan \in Tiers /\ e.plan \in Tiers /\ FREE \in Tiers
  BY DEF Row, Event, Tiers, FREE
<1>2. \A plan \in Tiers, status \in SubscriptionStatus, flag \in BOOLEAN :
         /\ ApplyPlanChange(row, plan, status, at) \in Row
         /\ [ApplyPlanChange(row, plan, status, at) EXCEPT !.cancel = flag] \in Row
  BY ApplyPlanChangeType DEF Row
<1>3. "active" \in SubscriptionStatus /\ "past_due" \in SubscriptionStatus
      /\ "canceled" \in SubscriptionStatus
  BY DEF SubscriptionStatus
<1> QED
  BY <1>1, <1>2, <1>3 DEF ResolveTarget

LEMMA ApplyEventType ==
    ASSUME NEW row \in Row, NEW n \in 1..Len(events), NEW at \in Nat, events \in Seq(Event)
    PROVE  ApplyEvent(row, n, at) \in Row /\ ApplyEvent(row, n, at).last_event = n
<1> DEFINE target == ResolveTarget(row, events[n], at)
<1>1. events[n] \in Event
  OBVIOUS
<1>2. target \in Row
  BY <1>1, ResolveTargetType
<1>3. events[n].period_end \in Nat
  BY <1>1 DEF Event
<1> HIDE DEF target
<1>4. ApplyEvent(row, n, at) =
        [target EXCEPT
           !.provider = TRUE,
           !.period_end = IF target.plan = FREE /\ target.status = "canceled" THEN NoDate
                          ELSE IF events[n].period_end # NoDate THEN events[n].period_end ELSE @,
           !.pending = IF target.plan = FREE /\ target.status = "canceled" THEN FREE ELSE @,
           !.last_event = n]
  BY DEF ApplyEvent, target
<1> DEFINE end == ApplyEvent(row, n, at).period_end
           pending == ApplyEvent(row, n, at).pending
<1>5. end \in Nat
  BY <1>2, <1>3, <1>4 DEF Row, NoDate
<1>6. pending \in Tiers
  BY <1>2, <1>4 DEF Row, Tiers, FREE
<1>7. ApplyEvent(row, n, at) =
        [plan |-> target.plan, status |-> target.status, provider |-> TRUE,
         cancel |-> target.cancel, period_end |-> end, pending |-> pending,
         last_event |-> n]
  BY <1>2, <1>4 DEF Row
<1>8. ApplyEvent(row, n, at) \in Row
  <2> HIDE DEF end, pending
  <2> QED
    BY <1>2, <1>5, <1>6, <1>7 DEF Row
<1>9. ApplyEvent(row, n, at).last_event = n
  BY <1>2, <1>4 DEF Row
<1> QED
  BY <1>8, <1>9

LEMMA ApplyDueType ==
    ASSUME NEW row \in Row, NEW at \in Nat
    PROVE  ApplyDue(row, at) \in Row /\ ApplyDue(row, at).last_event = row.last_event
<1>1. CASE row.cancel
  <2>1. ApplyDue(row, at) =
          [plan |-> FREE, status |-> "canceled", provider |-> row.provider,
           cancel |-> FALSE, period_end |-> NoDate, pending |-> FREE,
           last_event |-> row.last_event]
    BY <1>1 DEF ApplyDue, Row
  <2> QED
    BY <2>1 DEF Row, Tiers, FREE, NoDate, SubscriptionStatus
<1>2. CASE ~row.cancel
  <2>1. ApplyDue(row, at) =
          [plan |-> row.pending, status |-> row.status, provider |-> row.provider,
           cancel |-> row.cancel, period_end |-> MonthEnd(at), pending |-> FREE,
           last_event |-> row.last_event]
    BY <1>2 DEF ApplyDue, Row
  <2> QED
    BY <2>1, MonthEndType DEF Row, Tiers, FREE
<1> QED
  BY <1>1, <1>2

\* What a transaction wants is a row; only a delivery moves the stamp, to its event.
LEMMA WantedType ==
    ASSUME NEW x \in Txn, events \in Seq(Event), DeliveryOK(x), x.step # "idle"
    PROVE  /\ Wanted(x) \in Row
           /\ Wanted(x).last_event = IF x.op = "webhook" THEN x.event ELSE x.read.last_event
<1>1. x.read \in Row /\ x.at \in Nat /\ x.target \in Tiers /\ x.op \in Operations
  BY DEF Txn
<1>2. PeriodEnd(x.read, x.at) \in Nat
  BY <1>1, PeriodEndType
<1>3. /\ ApplyPlanChange(x.read, x.target, "active", x.at) \in Row
      /\ ApplyPlanChange(x.read, x.target, "active", x.at).last_event = x.read.last_event
  BY <1>1, ApplyPlanChangeType DEF SubscriptionStatus
<1>4. CASE x.op = "webhook"
  <2>1. x.event \in 1..Len(events)
    BY <1>4 DEF DeliveryOK
  <2> QED
    BY <1>1, <1>4, <2>1, ApplyEventType DEF Wanted
<1>5. CASE x.op = "sweep"
  BY <1>1, <1>5, ApplyDueType DEF Wanted
<1>6. CASE x.op \in {"reconcile", "upgrade"}
  BY <1>1, <1>3, <1>6 DEF Wanted, Row, Tiers, FREE
<1>7. CASE x.op = "cancel"
  <2>1. Wanted(x) = [x.read EXCEPT !.cancel = TRUE, !.pending = FREE,
                                   !.period_end = PeriodEnd(x.read, x.at)]
    BY <1>7 DEF Wanted
  <2>2. Wanted(x) =
          [plan |-> x.read.plan, status |-> x.read.status, provider |-> x.read.provider,
           cancel |-> TRUE, period_end |-> PeriodEnd(x.read, x.at), pending |-> FREE,
           last_event |-> x.read.last_event]
    BY <1>1, <2>1 DEF Row
  <2> QED
    BY <1>1, <1>2, <1>7, <2>2 DEF Row, Tiers, FREE
<1>8. CASE x.op = "resume"
  BY <1>1, <1>8 DEF Wanted, Row
<1>9. CASE x.op = "revert"
  BY <1>1, <1>9 DEF Wanted, Row, Tiers, FREE
<1>10. CASE x.op = "downgrade"
  <2>1. Wanted(x) = [x.read EXCEPT !.pending = x.target,
                                   !.period_end = PeriodEnd(x.read, x.at)]
    BY <1>10 DEF Wanted
  <2> QED
    BY <1>1, <1>2, <1>10, <2>1 DEF Row
<1> QED
  BY <1>1, <1>4, <1>5, <1>6, <1>7, <1>8, <1>9, <1>10 DEF Operations

\* Column by column, what a commit leaves is from the row or from what was wanted.
LEMMA WrittenType ==
    ASSUME NEW read \in Row, NEW new \in Row, NEW row \in Row
    PROVE  /\ Written(read, new, row) \in Row
           /\ Written(read, new, row).last_event \in {new.last_event, row.last_event}
BY DEF Written, Row

LEMMA IdleType == Idle \in Txn /\ NewSubscription \in Row
BY DEF Idle, Txn, NewSubscription, Row, Operations, Tiers, FREE, NoDate, SubscriptionStatus

-----------------------------------------------------------------------------
(* The initial state.                                                       *)

LEMMA InitInvariant == Init => IInv
<1> SUFFICES ASSUME Init PROVE IInv
  OBVIOUS
<1>1. /\ now \in 1..(MaxTime + 1) /\ form \in Tiers /\ calls \in 0..MaxCalls
      /\ events \in Seq(Event) /\ Len(events) = 0 /\ Len(events) <= MaxEvents
  BY BillingAssumption DEF Init, Tiers, FREE
<1>2. remote \in Remote
  BY DEF Init, Remote, Tiers, FREE, NoDate
<1>3. sub \in Row /\ sub.last_event = 0 /\ txn \in [Txns -> Txn]
  BY IdleType DEF Init, NewSubscription
<1>4. TypeOK
  BY <1>1, <1>2, <1>3 DEF Init, TypeOK
<1>5. \A t \in Txns : txn[t].read.last_event = 0 /\ txn[t].step = "idle"
  BY DEF Init, Idle, NewSubscription
<1>6. Attested /\ NoEventLost
  BY <1>3, <1>5 DEF Init, Attested, DeliveryOK, NoEventLost
<1> QED
  BY <1>4, <1>6 DEF IInv

-----------------------------------------------------------------------------
(* What the transactions' steps have in common.                             *)

\* Steps that leave the open transactions, the row and the marks alone, and at most
\* let the provider say more.
LEMMA MoreEvents ==
    ASSUME IInv, UNCHANGED <<sub, processed, answered, applied, txn>>,
           events' \in Seq(Event), Len(events) <= Len(events')
    PROVE  Attested' /\ NoEventLost'
<1>1. Len(events) \in Nat /\ Len(events') \in Nat
  BY DEF IInv, TypeOK
<1>2. \A t \in Txns : DeliveryOK(txn[t])'
  BY <1>1 DEF IInv, Attested, DeliveryOK, Covered
<1> QED
  BY <1>2 DEF IInv, Attested, NoEventLost

\* A new transaction of the administrator, the sweep or the reconciliation.
LEMMA OpenStep ==
    ASSUME IInv, NEW t \in Txns, NEW op \in Operations \ {"webhook"}, NEW target \in Tiers,
           NEW step \in {"call", "commit"}, Open(t, op, target, step),
           UNCHANGED <<now, sub, provider, delivery>>
    PROVE  txn' \in [Txns -> Txn] /\ Attested' /\ NoEventLost'
<1> DEFINE x == [Idle EXCEPT !.step = step, !.op = op, !.read = sub,
                             !.target = target, !.at = now]
<1>1. sub \in Row /\ now \in Nat
  BY BillingAssumption DEF IInv, TypeOK
<1>2. x \in Txn
  BY <1>1, IdleType DEF Txn
<1>3. /\ x.read.last_event \in {0} \cup applied
      /\ x.op # "webhook" /\ x.step # "answer"
  <2>1. x.read = sub /\ x.op = op /\ x.step = step
    BY IdleType DEF Txn
  <2> QED
    BY <2>1 DEF IInv, Attested
<1>4. txn' = [txn EXCEPT ![t] = x]
  BY DEF Open
<1> HIDE DEF x
<1>5. txn' \in [Txns -> Txn] /\ \A u \in Txns : txn'[u] = x \/ txn'[u] = txn[u]
  BY <1>2, <1>4 DEF IInv, TypeOK
<1>6. \A u \in Txns : DeliveryOK(txn[u])'
  BY <1>3, <1>5 DEF IInv, Attested, DeliveryOK, Covered, provider, delivery
<1>7. \A u \in Txns : txn'[u].read.last_event \in {0} \cup applied
  BY <1>3, <1>5 DEF IInv, Attested
<1> QED
  BY <1>5, <1>6, <1>7 DEF IInv, Attested, NoEventLost, provider, delivery

\* A transaction that ends without a commit.
LEMMA CloseStep ==
    ASSUME IInv, NEW t \in Txns, Close(t), UNCHANGED <<sub, provider, delivery>>
    PROVE  txn' \in [Txns -> Txn] /\ Attested' /\ NoEventLost'
<1>1. /\ Idle.read.last_event = 0 /\ Idle.step = "idle"
  BY DEF Idle, NewSubscription
<1>2. txn' \in [Txns -> Txn] /\ \A u \in Txns : txn'[u] = Idle \/ txn'[u] = txn[u]
  BY IdleType DEF IInv, TypeOK, Close
<1>3. \A u \in Txns : DeliveryOK(txn[u])'
  BY <1>1, <1>2 DEF IInv, Attested, DeliveryOK, Covered, provider, delivery
<1>4. \A u \in Txns : txn'[u].read.last_event \in {0} \cup applied
  BY <1>1, <1>2 DEF IInv, Attested
<1> QED
  BY <1>2, <1>3, <1>4 DEF IInv, Attested, NoEventLost, provider, delivery

-----------------------------------------------------------------------------
(* The steps.                                                               *)

\* A request, a sweep or a reconciliation begins.
LEMMA BeginInvariant ==
    ASSUME IInv, NEW t \in Txns,
           \/ BeginCancel(t) \/ BeginResume(t) \/ BeginSweep(t) \/ BeginReconcile(t)
           \/ \E p \in Paid : BeginChange(t, p)
    PROVE  IInv'
<1>1. /\ UNCHANGED <<now, sub, provider, delivery>>
      /\ calls' \in 0..MaxCalls
      /\ \E op \in Operations \ {"webhook"}, target \in Tiers, step \in {"call", "commit"} :
            Open(t, op, target, step)
  <2>1. AskProvider \in {"call", "commit"} /\ FREE \in Tiers /\ Paid \subseteq Tiers
    BY DEF AskProvider, Tiers, FREE, Paid
  <2>2. calls \in 0..MaxCalls
    BY DEF IInv, TypeOK
  <2>3. \A kind : Request(kind) => calls' \in 0..MaxCalls
    BY <2>2, BillingAssumption DEF Request
  <2>4. CASE BeginCancel(t)
    BY <2>1, <2>3, <2>4 DEF BeginCancel, Operations
  <2>5. CASE BeginResume(t)
    BY <2>1, <2>3, <2>5 DEF BeginResume, Operations
  <2>6. CASE BeginSweep(t)
    BY <2>1, <2>2, <2>6 DEF BeginSweep, Operations
  <2>7. CASE BeginReconcile(t)
    BY <2>1, <2>2, <2>7 DEF BeginReconcile, Operations
  <2>8. ASSUME NEW p \in Paid, BeginChange(t, p)
        PROVE  /\ UNCHANGED <<now, sub, provider, delivery>> /\ calls' \in 0..MaxCalls
               /\ \E op \in Operations \ {"webhook"}, target \in Tiers,
                     step \in {"call", "commit"} : Open(t, op, target, step)
    BY <2>1, <2>3, <2>8 DEF BeginChange, Operations
  <2> QED
    BY <2>4, <2>5, <2>6, <2>7, <2>8
<1>2. txn' \in [Txns -> Txn] /\ Attested' /\ NoEventLost'
  BY <1>1, OpenStep
<1> QED
  BY <1>1, <1>2 DEF IInv, TypeOK, provider, delivery

\* A transaction that ends without effect.
LEMMA EndInvariant ==
    ASSUME IInv, NEW t \in Txns, CallFails(t) \/ CommitFails(t)
    PROVE  IInv'
<1>1. Close(t) /\ UNCHANGED <<now, sub, provider, delivery, calls>>
  BY DEF CallFails, CommitFails
<1>2. txn' \in [Txns -> Txn] /\ Attested' /\ NoEventLost'
  BY <1>1, CloseStep
<1> QED
  BY <1>1, <1>2 DEF IInv, TypeOK, provider, delivery

\* A delivery begins: what is answered at once was marked, hence applied, or is not
\* later than the row's stamp, which is that of an applied event.
LEMMA BeginWebhookInvariant ==
    ASSUME IInv, NEW t \in Txns, NEW n \in 1..Len(events), BeginWebhook(t, n)
    PROVE  IInv'
<1> DEFINE step == IF n \in processed \/ Outdated(n) THEN "answer" ELSE "commit"
           x == [Idle EXCEPT !.step = step, !.op = "webhook", !.read = sub,
                             !.event = n, !.at = now]
<1>1. txn' = [txn EXCEPT ![t] = x] /\ UNCHANGED <<now, sub, provider, delivery, calls>>
  BY DEF BeginWebhook
<1>2. sub \in Row /\ now \in Nat /\ n \in Nat
  BY BillingAssumption DEF IInv, TypeOK
<1>3. step = "answer" => Covered(n)
  <2>1. CASE n \in processed
    BY <1>2, <2>1 DEF IInv, Attested, Covered
  <2>2. CASE Outdated(n)
    BY <1>2, <2>2 DEF Outdated, Row, IInv, Attested, Covered
  <2> QED
    BY <2>1, <2>2
<1>4. x \in Txn
  BY <1>2, IdleType DEF Txn, Operations
<1>5. /\ x.op = "webhook" /\ x.event = n /\ x.read = sub
      /\ x.step = step /\ step \in {"commit", "answer"} /\ ~x.applied
  <2>1. /\ x.op = "webhook" /\ x.event = n /\ x.read = sub /\ x.step = step
        /\ x.applied = Idle.applied
    BY IdleType DEF Txn
  <2> QED
    BY <2>1 DEF Idle
<1> HIDE DEF x, step
<1>6. txn' \in [Txns -> Txn] /\ \A u \in Txns : txn'[u] = x \/ txn'[u] = txn[u]
  BY <1>1, <1>4 DEF IInv, TypeOK
<1>7. \A u \in Txns : DeliveryOK(txn[u])'
  BY <1>1, <1>3, <1>5, <1>6 DEF IInv, Attested, DeliveryOK, Covered, provider, delivery
<1>8. \A u \in Txns : txn'[u].read.last_event \in {0} \cup applied
  BY <1>5, <1>6 DEF IInv, Attested
<1> QED
  BY <1>1, <1>6, <1>7, <1>8
  DEF IInv, TypeOK, Attested, NoEventLost, provider, delivery

\* What the provider says is one more event.
LEMMA EmitType ==
    ASSUME IInv, NEW type \in EventTypes, NEW plan \in Tiers, NEW until \in Nat,
           Emit(type, plan, until)
    PROVE  events' \in Seq(Event) /\ Len(events') = Len(events) + 1 /\ Len(events') <= MaxEvents
<1> DEFINE e == [type |-> type, plan |-> plan,
                 period_end |-> IF Dated THEN until ELSE NoDate]
<1>1. e \in Event
  BY DEF Event, NoDate
<1>2. events \in Seq(Event) /\ Len(events) < MaxEvents /\ events' = Append(events, e)
  BY DEF Emit, IInv, TypeOK
<1> HIDE DEF e
<1> QED
  BY <1>1, <1>2, BillingAssumption

\* What the provider does by itself.
LEMMA ProviderInvariant ==
    ASSUME IInv, Pay \/ Renew \/ PaymentFails \/ Expire
    PROVE  IInv'
<1>1. /\ UNCHANGED <<now, sub, delivery, txn, calls>>
      /\ remote' \in Remote /\ form' \in Tiers
      /\ \E type \in EventTypes, plan \in Tiers, until \in Nat : Emit(type, plan, until)
  <2>1. /\ remote \in Remote /\ form \in Tiers /\ now + MonthLength \in Nat
        /\ remote.plan \in Tiers /\ remote.next \in Tiers
        /\ FREE \in Tiers /\ NoDate \in Nat
    BY BillingAssumption DEF IInv, TypeOK, Remote, FREE, Tiers, NoDate
  <2>2. CASE Pay
    <3>1. remote' \in Remote /\ form' = FREE /\ Emit("activated", form, now + MonthLength)
      BY <2>1, <2>2 DEF Pay, Remote
    <3> QED
      BY <2>1, <2>2, <3>1 DEF Pay, EventTypes
  <2>3. CASE Renew
    <3>1. remote' \in Remote /\ Emit("renewed", remote.next, now + MonthLength)
      BY <2>1, <2>3 DEF Renew, Remote
    <3> QED
      BY <2>1, <2>3, <3>1 DEF Renew, EventTypes
  <2>4. CASE PaymentFails
    <3>1. remote' \in Remote /\ Emit("past_due", remote.plan, NoDate)
      BY <2>1, <2>4 DEF PaymentFails, Remote
    <3> QED
      BY <2>1, <2>4, <3>1 DEF PaymentFails, EventTypes
  <2>5. CASE Expire
    <3>1. remote' \in Remote /\ Emit("expired", remote.plan, NoDate)
      BY <2>1, <2>5 DEF Expire, Remote
    <3> QED
      BY <2>1, <2>5, <3>1 DEF Expire, EventTypes
  <2> QED
    BY <2>2, <2>3, <2>4, <2>5
<1>2. /\ events' \in Seq(Event) /\ Len(events') = Len(events) + 1
      /\ Len(events') <= MaxEvents
  BY <1>1, EmitType
<1>3. Attested' /\ NoEventLost'
  BY <1>1, <1>2, MoreEvents DEF delivery, IInv, TypeOK
<1> QED
  BY <1>1, <1>2, <1>3 DEF IInv, TypeOK, Row, delivery

\* The provider carries out a call: the transaction goes on to its commit.
LEMMA CallInvariant ==
    ASSUME IInv, NEW t \in Txns, CallProvider(t)
    PROVE  IInv'
<1>1. /\ remote \in Remote /\ txn[t] \in Txn /\ txn[t].target \in Tiers
      /\ remote.plan \in Tiers /\ remote.paid_until \in Nat
      /\ events \in Seq(Event) /\ Len(events) <= MaxEvents
  BY DEF IInv, TypeOK, Txn, Remote
<1>2. /\ txn[t].step = "call" /\ txn[t].op # "webhook"
      /\ UNCHANGED <<now, sub, form, delivery, calls>>
      /\ txn' = [txn EXCEPT ![t].step = "commit"]
  BY DEF CallProvider
<1>3. \A type \in EventTypes, plan \in Tiers, until \in Nat : Emit(type, plan, until) =>
         /\ events' \in Seq(Event) /\ Len(events') = Len(events) + 1
         /\ Len(events') <= MaxEvents
  BY EmitType
<1>4. /\ remote' \in Remote /\ events' \in Seq(Event)
      /\ Len(events) <= Len(events') /\ Len(events') <= MaxEvents
  <2>1. Len(events) \in Nat
    BY <1>1
  <2>2. CASE Cancelled
    <3>1. remote' \in Remote /\ Emit("canceled", remote.plan, remote.paid_until)
      BY <1>1, <2>2 DEF Cancelled, Remote
    <3> QED
      BY <1>1, <1>3, <2>1, <3>1 DEF EventTypes
  <2>3. CASE Resumed
    <3>1. remote' \in Remote /\ Emit("resumed", remote.plan, remote.paid_until)
      BY <1>1, <2>3 DEF Resumed, Remote
    <3> QED
      BY <1>1, <1>3, <2>1, <3>1 DEF EventTypes
  <2>4. CASE PlanChanged(txn[t].target, TRUE)
    <3>1. /\ remote' = [remote EXCEPT !.plan = txn[t].target, !.next = txn[t].target]
          /\ Emit("updated", txn[t].target, remote.paid_until)
      BY <2>4 DEF PlanChanged
    <3>2. remote' \in Remote
      BY <1>1, <3>1 DEF Remote
    <3> QED
      BY <1>1, <1>3, <2>1, <3>1, <3>2 DEF EventTypes
  <2>5. CASE PlanChanged(txn[t].target, FALSE)
    <3>1. remote' = [remote EXCEPT !.next = txn[t].target] /\ UNCHANGED events
      BY <2>5 DEF PlanChanged
    <3>2. remote' \in Remote
      BY <1>1, <3>1 DEF Remote
    <3> QED
      BY <1>1, <2>1, <3>1, <3>2
  <2> QED
    BY <2>2, <2>3, <2>4, <2>5 DEF CallProvider
<1>5. /\ txn' \in [Txns -> Txn]
      /\ \A u \in Txns \ {t} : txn'[u] = txn[u]
      /\ txn'[t].step = "commit" /\ txn'[t].op = txn[t].op /\ txn'[t].read = txn[t].read
  BY <1>1, <1>2 DEF IInv, TypeOK, Txn
<1>6. \A u \in Txns : DeliveryOK(txn[u])'
  <2>1. DeliveryOK(txn[t])'
    BY <1>2, <1>5 DEF DeliveryOK
  <2>2. ASSUME NEW u \in Txns \ {t} PROVE DeliveryOK(txn[u])'
    <3>1. txn'[u] = txn[u] /\ applied' = applied /\ Len(events) \in Nat /\ Len(events') \in Nat
      BY <1>1, <1>2, <1>4, <1>5 DEF delivery
    <3> QED
      BY <1>4, <3>1 DEF IInv, Attested, DeliveryOK, Covered
  <2> QED
    BY <2>1, <2>2
<1>7. \A u \in Txns : txn'[u].read.last_event \in {0} \cup applied
  BY <1>5 DEF IInv, Attested
<1>8. Attested' /\ NoEventLost'
  BY <1>2, <1>6, <1>7 DEF IInv, Attested, NoEventLost, delivery
<1>9. /\ sub.last_event <= Len(events')
      /\ processed \cup answered \cup dropped \cup applied \subseteq 1..Len(events')
  BY <1>4, <1>1 DEF IInv, TypeOK, Row
<1> QED
  BY <1>2, <1>4, <1>5, <1>8, <1>9 DEF IInv, TypeOK, delivery

\* The reconciliation compares: it goes on to a repair or ends.
LEMMA FetchInvariant ==
    ASSUME IInv, NEW t \in Txns, Fetch(t)
    PROVE  IInv'
<1>1. CASE ~Repairs(t)
  <2>1. Close(t) /\ UNCHANGED <<now, sub, provider, delivery, calls>>
    BY <1>1 DEF Fetch, Close
  <2>2. txn' \in [Txns -> Txn] /\ Attested' /\ NoEventLost'
    BY <2>1, CloseStep
  <2> QED
    BY <2>1, <2>2 DEF IInv, TypeOK, provider, delivery
<1>2. CASE Repairs(t)
  <2> DEFINE x == [txn[t] EXCEPT !.step = "commit", !.target = remote.plan]
  <2>1. /\ txn' = [txn EXCEPT ![t] = x] /\ txn[t].op = "reconcile"
        /\ UNCHANGED <<now, sub, provider, delivery, calls>>
    BY <1>2 DEF Fetch, IInv, TypeOK
  <2>2. /\ x \in Txn /\ x.op = txn[t].op /\ x.read = txn[t].read /\ x.step = "commit"
    BY DEF IInv, TypeOK, Txn, Remote
  <2> HIDE DEF x
  <2>3. /\ txn' \in [Txns -> Txn] /\ txn'[t] = x
        /\ \A u \in Txns \ {t} : txn'[u] = txn[u]
    BY <2>1, <2>2 DEF IInv, TypeOK
  <2>4. \A u \in Txns : DeliveryOK(txn[u])'
    BY <2>1, <2>2, <2>3 DEF IInv, Attested, DeliveryOK, Covered, provider, delivery
  <2>5. \A u \in Txns : txn'[u].read.last_event \in {0} \cup applied
    BY <2>2, <2>3 DEF IInv, Attested
  <2> QED
    BY <2>1, <2>3, <2>4, <2>5 DEF IInv, TypeOK, Attested, NoEventLost, provider, delivery
<1> QED
  BY <1>1, <1>2

\* A commit writes a row, and a delivery's event becomes an applied one in the same
\* step in which the row may take its stamp.
LEMMA CommitInvariant ==
    ASSUME IInv, NEW t \in Txns, Commit(t)
    PROVE  IInv'
<1> DEFINE x == txn[t]
<1>1. /\ x \in Txn /\ x.step = "commit" /\ x.read \in Row /\ sub \in Row
      /\ events \in Seq(Event) /\ DeliveryOK(x) /\ Len(events) \in Nat
      /\ sub' = Written(x.read, Wanted(x), sub)
      /\ UNCHANGED <<now, provider, processed, answered, dropped, calls>>
  BY DEF Commit, IInv, TypeOK, Attested, Txn
<1>2. /\ Wanted(x) \in Row
      /\ Wanted(x).last_event = IF x.op = "webhook" THEN x.event ELSE x.read.last_event
  BY <1>1, WantedType
<1>3. sub' \in Row /\ sub'.last_event \in {Wanted(x).last_event, sub.last_event}
  BY <1>1, <1>2, WrittenType
<1>4. CASE x.op = "webhook"
  <2>1. x.event \in 1..Len(events)
    BY <1>1, <1>4 DEF DeliveryOK
  <2> DEFINE y == [x EXCEPT !.step = "answer", !.applied = TRUE]
  <2>2. applied' = applied \cup {x.event} /\ txn' = [txn EXCEPT ![t] = y]
    BY <1>4 DEF Commit
  <2>3. /\ y \in Txn /\ y.op = "webhook" /\ y.step = "answer"
        /\ y.event = x.event /\ y.read = x.read
    BY <1>1, <1>4 DEF Txn
  <2> HIDE DEF y
  <2>4. /\ txn' \in [Txns -> Txn] /\ txn'[t] = y
        /\ \A u \in Txns \ {t} : txn'[u] = txn[u]
    BY <2>2, <2>3 DEF IInv, TypeOK
  <2>5. \E m \in applied' : m >= x.event
    <3>1. x.event \in applied' /\ x.event >= x.event
      BY <1>1, <2>1, <2>2
    <3> QED
      BY <3>1
  <2>6. \A n : Covered(n) => Covered(n)'
    BY <2>2 DEF Covered
  <2>7. \A u \in Txns : DeliveryOK(txn[u])'
    <3>1. DeliveryOK(txn[t])'
      BY <1>1, <2>1, <2>2, <2>3, <2>4, <2>5 DEF DeliveryOK, Covered, provider
    <3>2. ASSUME NEW u \in Txns \ {t} PROVE DeliveryOK(txn[u])'
      BY <1>1, <2>2, <2>4, <2>6 DEF IInv, Attested, DeliveryOK, Covered, provider
    <3> QED
      BY <3>1, <3>2
  <2>8. \A u \in Txns : txn'[u].read.last_event \in {0} \cup applied'
    BY <2>2, <2>3, <2>4 DEF IInv, Attested
  <2>9. sub'.last_event \in {0} \cup applied'
    BY <1>2, <1>3, <1>4, <2>2 DEF IInv, Attested
  <2>10. sub'.last_event <= Len(events) /\ applied' \subseteq 1..Len(events)
    BY <2>1, <2>2, <2>9, <1>1 DEF IInv, TypeOK
  <2>11. NoEventLost'
    BY <1>1, <2>2 DEF IInv, NoEventLost
  <2> QED
    BY <1>1, <1>3, <2>2, <2>4, <2>7, <2>8, <2>9, <2>10, <2>11
    DEF IInv, TypeOK, Attested, provider
<1>5. CASE x.op # "webhook"
  <2>1. Close(t) /\ applied' = applied
    BY <1>5 DEF Commit
  <2>2. Idle.read.last_event = 0 /\ Idle.step = "idle"
    BY DEF Idle, NewSubscription
  <2>3. txn' \in [Txns -> Txn] /\ \A u \in Txns : txn'[u] = Idle \/ txn'[u] = txn[u]
    BY <2>1, IdleType DEF IInv, TypeOK, Close
  <2>4. \A u \in Txns : DeliveryOK(txn[u])'
    BY <1>1, <2>1, <2>2, <2>3 DEF IInv, Attested, DeliveryOK, Covered, provider
  <2>5. \A u \in Txns : txn'[u].read.last_event \in {0} \cup applied
    BY <2>2, <2>3 DEF IInv, Attested
  <2>6. sub'.last_event \in {0} \cup applied
    BY <1>2, <1>3, <1>5 DEF IInv, Attested
  <2>7. sub'.last_event <= Len(events)
    BY <1>1, <2>6 DEF IInv, TypeOK
  <2> QED
    BY <1>1, <1>3, <2>1, <2>3, <2>4, <2>5, <2>6, <2>7
    DEF IInv, TypeOK, Attested, NoEventLost, provider
<1> QED
  BY <1>4, <1>5

\* What is answered, and what is marked, was covered and applied before.
LEMMA AnswerInvariant ==
    ASSUME IInv, NEW t \in Txns, Answer(t)
    PROVE  IInv'
<1> DEFINE n == txn[t].event
<1>1. /\ n \in 1..Len(events) /\ Covered(n)
      /\ txn[t].applied => n \in applied
  BY DEF Answer, IInv, Attested, DeliveryOK
<1>2. /\ processed' \subseteq applied /\ answered' \subseteq answered \cup {n}
      /\ UNCHANGED <<now, sub, provider, dropped, applied, calls>>
  BY <1>1 DEF Answer, IInv, Attested
<1>3. Idle.read.last_event = 0 /\ Idle.step = "idle"
  BY DEF Idle, NewSubscription
<1>4. txn' \in [Txns -> Txn] /\ \A u \in Txns : txn'[u] = Idle \/ txn'[u] = txn[u]
  BY IdleType DEF Answer, Close, IInv, TypeOK
<1>5. \A u \in Txns : DeliveryOK(txn[u])'
  BY <1>2, <1>3, <1>4 DEF IInv, Attested, DeliveryOK, Covered, provider
<1>6. \A u \in Txns : txn'[u].read.last_event \in {0} \cup applied
  BY <1>3, <1>4 DEF IInv, Attested
<1>7. NoEventLost'
  BY <1>1, <1>2 DEF IInv, NoEventLost, Covered
<1>8. processed' \cup answered' \subseteq 1..Len(events)
  BY <1>1, <1>2 DEF IInv, TypeOK
<1> QED
  BY <1>2, <1>4, <1>5, <1>6, <1>7, <1>8 DEF IInv, TypeOK, Attested, provider

LEMMA StepInvariant == IInv /\ [Next]_vars => IInv'
<1> SUFFICES ASSUME IInv, [Next]_vars PROVE IInv'
  OBVIOUS
<1>1. CASE Tick
  <2>1. now' \in 1..(MaxTime + 1)
    BY <1>1, BillingAssumption DEF Tick, IInv, TypeOK
  <2>2. UNCHANGED <<sub, provider, delivery, txn, calls>>
    BY <1>1 DEF Tick
  <2> QED
    BY <2>1, <2>2
    DEF IInv, TypeOK, Attested, DeliveryOK, Covered, NoEventLost, provider, delivery
<1>2. ASSUME NEW p \in Paid, Checkout(p) PROVE IInv'
  <2>1. form' \in Tiers /\ UNCHANGED <<now, sub, remote, events, delivery, txn, calls>>
    BY <1>2 DEF Checkout, Paid
  <2> QED
    BY <2>1 DEF IInv, TypeOK, Attested, DeliveryOK, Covered, NoEventLost, delivery
<1>3. ASSUME NEW n \in 1..Len(events), Drop(n) PROVE IInv'
  <2>1. /\ dropped' = dropped \cup {n}
        /\ UNCHANGED <<now, sub, provider, processed, answered, applied, txn, calls>>
    BY <1>3 DEF Drop
  <2> QED
    BY <2>1 DEF IInv, TypeOK, Attested, DeliveryOK, Covered, NoEventLost, provider
<1>4. CASE RequestStep
  BY <1>2, <1>4, BeginInvariant DEF RequestStep
<1>5. CASE ProviderStep
  BY <1>3, <1>5, ProviderInvariant DEF ProviderStep
<1>6. CASE FaultStep
  BY <1>6, EndInvariant DEF FaultStep
<1>7. CASE Sweep \/ Reconcile
  BY <1>7, BeginInvariant DEF Sweep, Reconcile
<1>8. CASE \E n \in 1..Len(events) : Deliver(n)
  BY <1>8, BeginWebhookInvariant DEF Deliver
<1>9. CASE \E t \in Txns : Proceed(t)
  BY <1>9, CallInvariant, FetchInvariant, CommitInvariant, AnswerInvariant DEF Proceed
<1>10. CASE UNCHANGED vars
  BY <1>10
  DEF IInv, TypeOK, Attested, DeliveryOK, Covered, NoEventLost, vars, provider, delivery
<1> QED
  BY <1>1, <1>4, <1>5, <1>6, <1>7, <1>8, <1>9, <1>10 DEF Next

-----------------------------------------------------------------------------
(* The theorems.                                                            *)

THEOREM InvariantHolds == Spec => []IInv
<1> QED
  BY InitInvariant, StepInvariant, PTL DEF Spec

\* Every variable keeps its type, whatever the requests, events, overlaps and faults.
THEOREM TypeCorrect == Spec => []TypeOK
<1>1. IInv => TypeOK
  BY DEF IInv
<1> QED
  BY <1>1, InvariantHolds, PTL

\* However many deliveries overlap, and whatever fails between the commit, the mark
\* and the answer: an event the provider was told to stop sending was applied, or a
\* later one was.
THEOREM NoEventIsLost == Spec => []NoEventLost
<1>1. IInv => NoEventLost
  BY DEF IInv
<1> QED
  BY <1>1, InvariantHolds, PTL

-----------------------------------------------------------------------------
(* Deliveries that do not overlap.                                          *)

\* An open transaction read the row as it still is, and a delivery about to commit
\* carries a later event than the row's.
Alone ==
    \A t \in Txns : txn[t].step = "commit" =>
        /\ txn[t].read = sub
        /\ txn[t].op = "webhook" => txn[t].event > sub.last_event
AloneInv == IInv /\ Alone /\ \A t \in Txns : txn[t].step = "call" => txn[t].read = sub

LEMMA WrittenAlone ==
    ASSUME NEW row \in Row, NEW new \in Row
    PROVE  Written(row, new, row).last_event = new.last_event
BY DEF Written, Row

LEMMA AloneStep ==
    ASSUME \A t, u \in Txns : t = u, AloneInv, [Next]_vars
    PROVE  AloneInv' /\ (sub'.last_event >= sub.last_event)
<1>1. IInv' /\ sub \in Row /\ events \in Seq(Event) /\ txn \in [Txns -> Txn]
  BY StepInvariant DEF AloneInv, IInv, TypeOK
<1> DEFINE CallOK == \A t \in Txns : txn[t].step = "call" => txn[t].read = sub
<1> SUFFICES Alone' /\ CallOK' /\ sub'.last_event >= sub.last_event
  BY <1>1 DEF AloneInv
<1>2. sub.last_event \in Nat
  BY <1>1 DEF Row
<1>3. CASE UNCHANGED <<sub, txn>>
  BY <1>2, <1>3 DEF AloneInv, Alone
<1>4. ASSUME NEW t \in Txns, UNCHANGED sub, txn' = [txn EXCEPT ![t] = Idle]
      PROVE  Alone' /\ CallOK' /\ sub'.last_event >= sub.last_event
  BY <1>1, <1>2, <1>4 DEF AloneInv, Alone, Idle
<1>5. ASSUME NEW t \in Txns, NEW op \in Operations \ {"webhook"}, NEW target,
             NEW step, Open(t, op, target, step), UNCHANGED sub
      PROVE  Alone' /\ CallOK' /\ sub'.last_event >= sub.last_event
  <2> DEFINE x == [Idle EXCEPT !.step = step, !.op = op, !.read = sub,
                               !.target = target, !.at = now]
  <2>1. x.read = sub /\ x.op = op
    BY IdleType DEF Txn
  <2>2. txn' = [txn EXCEPT ![t] = x]
    BY <1>5 DEF Open
  <2> HIDE DEF x
  <2>3. txn'[t] = x /\ \A u \in Txns : u = t
    BY <1>1, <2>2
  <2> QED
    BY <1>2, <1>5, <2>1, <2>3 DEF Alone
<1>6. ASSUME NEW t \in Txns, BeginCancel(t) \/ BeginResume(t) \/ BeginSweep(t)
                               \/ BeginReconcile(t) \/ \E p \in Paid : BeginChange(t, p)
      PROVE  Alone' /\ CallOK' /\ sub'.last_event >= sub.last_event
  <2>1. UNCHANGED sub /\ \E op \in Operations \ {"webhook"} :
                          \E target, step : Open(t, op, target, step)
    BY <1>6 DEF BeginCancel, BeginResume, BeginSweep, BeginReconcile, BeginChange, Operations
  <2> QED
    BY <1>5, <2>1
<1>7. ASSUME NEW t \in Txns, NEW n \in 1..Len(events), BeginWebhook(t, n)
      PROVE  Alone' /\ CallOK' /\ sub'.last_event >= sub.last_event
  <2> DEFINE step == IF n \in processed \/ Outdated(n) THEN "answer" ELSE "commit"
             x == [Idle EXCEPT !.step = step, !.op = "webhook", !.read = sub,
                               !.event = n, !.at = now]
  <2>1. x.read = sub /\ x.event = n /\ x.step = step
    BY IdleType DEF Txn
  <2>2. step # "call" /\ (step = "commit" => n > sub.last_event)
    BY <1>1, <1>2 DEF Outdated
  <2>3. txn' = [txn EXCEPT ![t] = x] /\ UNCHANGED sub
    BY <1>7 DEF BeginWebhook
  <2> HIDE DEF x, step
  <2>4. txn'[t] = x /\ \A u \in Txns : u = t
    BY <1>1, <2>3
  <2> QED
    BY <1>2, <2>1, <2>2, <2>3, <2>4 DEF Alone
<1>8. ASSUME NEW t \in Txns, CallProvider(t)
      PROVE  Alone' /\ CallOK' /\ sub'.last_event >= sub.last_event
  <2>1. /\ txn' = [txn EXCEPT ![t].step = "commit"] /\ UNCHANGED sub
        /\ txn[t].step = "call" /\ txn[t].op # "webhook"
    BY <1>8 DEF CallProvider
  <2>2. /\ txn'[t].read = txn[t].read /\ txn'[t].op = txn[t].op /\ txn'[t].step = "commit"
        /\ \A u \in Txns : u = t
    BY <1>1, <2>1 DEF Txn
  <2> QED
    BY <1>2, <2>1, <2>2 DEF AloneInv, Alone
<1>9. ASSUME NEW t \in Txns, Fetch(t)
      PROVE  Alone' /\ CallOK' /\ sub'.last_event >= sub.last_event
  <2>1. CASE ~Repairs(t)
    BY <1>4, <1>9, <2>1 DEF Fetch
  <2>2. CASE Repairs(t)
    <3> DEFINE x == [txn[t] EXCEPT !.step = "commit", !.target = remote.plan]
    <3>1. /\ txn' = [txn EXCEPT ![t] = x] /\ UNCHANGED sub
          /\ txn[t].step = "call" /\ txn[t].op = "reconcile"
      BY <1>9, <2>2 DEF Fetch
    <3>2. x.read = txn[t].read /\ x.op = txn[t].op /\ x.step = "commit"
      BY <1>1 DEF Txn
    <3> HIDE DEF x
    <3>3. txn'[t] = x /\ \A u \in Txns : u = t
      BY <1>1, <3>1
    <3> QED
      BY <1>2, <3>1, <3>2, <3>3 DEF AloneInv, Alone
  <2> QED
    BY <2>1, <2>2
<1>10. ASSUME NEW t \in Txns, Commit(t)
       PROVE  Alone' /\ CallOK' /\ sub'.last_event >= sub.last_event
  <2>1. /\ txn[t].step = "commit" /\ txn[t] \in Txn /\ DeliveryOK(txn[t])
        /\ txn[t].read = sub
        /\ txn[t].op = "webhook" => txn[t].event > sub.last_event
    BY <1>1, <1>10 DEF Commit, AloneInv, Alone, IInv, Attested
  <2>2. /\ Wanted(txn[t]) \in Row
        /\ Wanted(txn[t]).last_event >= sub.last_event
    <3>1. /\ Wanted(txn[t]) \in Row
          /\ Wanted(txn[t]).last_event =
                IF txn[t].op = "webhook" THEN txn[t].event ELSE txn[t].read.last_event
      BY <1>1, <2>1, WantedType
    <3>2. txn[t].event \in Nat
      BY <2>1 DEF Txn
    <3> QED
      BY <1>2, <2>1, <3>1, <3>2
  <2>3. sub'.last_event >= sub.last_event
    BY <1>1, <1>10, <2>1, <2>2, WrittenAlone DEF Commit
  <2>4. txn'[t].step \in {"idle", "answer"} /\ \A u \in Txns : u = t
    <3> DEFINE x == [txn[t] EXCEPT !.step = "answer", !.applied = TRUE]
    <3>1. x.step = "answer"
      BY <2>1 DEF Txn
    <3>2. txn' = [txn EXCEPT ![t] = x] \/ txn' = [txn EXCEPT ![t] = Idle]
      BY <1>10 DEF Commit, Close
    <3> HIDE DEF x
    <3>3. txn'[t] = x \/ txn'[t] = Idle
      BY <1>1, <3>2
    <3> QED
      BY <3>1, <3>3 DEF Idle
  <2> QED
    BY <2>3, <2>4 DEF Alone
<1>11. CASE RequestStep
  BY <1>3, <1>6, <1>11 DEF RequestStep, Checkout
<1>12. CASE Tick \/ ProviderStep
  BY <1>3, <1>12 DEF Tick, ProviderStep, Pay, Renew, PaymentFails, Expire, Drop, delivery
<1>13. CASE FaultStep
  BY <1>4, <1>13 DEF FaultStep, CallFails, CommitFails, Close
<1>14. CASE Sweep \/ Reconcile
  BY <1>6, <1>14 DEF Sweep, Reconcile
<1>15. CASE \E n \in 1..Len(events) : Deliver(n)
  BY <1>7, <1>15 DEF Deliver
<1>16. ASSUME NEW t \in Txns, Answer(t)
       PROVE  Alone' /\ CallOK' /\ sub'.last_event >= sub.last_event
  BY <1>4, <1>16 DEF Answer, Close
<1>17. CASE UNCHANGED vars
  BY <1>3, <1>17 DEF vars
<1> QED
  BY <1>8, <1>9, <1>10, <1>11, <1>12, <1>13, <1>14, <1>15, <1>16, <1>17 DEF Next, Proceed

\* Where the transactions on a subscription do not overlap, a late event never writes
\* over a newer one, in whatever order the events come and however often.
THEOREM OrderKeptAlone ==
    ASSUME \A t, u \in Txns : t = u
    PROVE  Spec => EventOrder
<1>1. Init => AloneInv
  BY InitInvariant DEF AloneInv, Alone, Init, Idle
<1>2. AloneInv /\ [Next]_vars => AloneInv'
  BY AloneStep
<1>3. AloneInv /\ [Next]_vars => [sub'.last_event >= sub.last_event]_vars
  BY AloneStep
<1> QED
  BY <1>1, <1>2, <1>3, PTL DEF Spec, EventOrder

-----------------------------------------------------------------------------
(* The mirror, of a subscription whose transactions do not overlap.  A request that *)
(* called the provider writes what the provider is about to announce, so that the   *)
(* row may be ahead of the announcement but, once it has heard the last one, is not *)
(* behind what the announcement says.                                               *)

\* The provider's last event says where the subscription is there, and until when it
\* is paid for, unless that is over.
Said ==
    LET last == events[Len(events)] IN
    /\ remote.state = "canceled" => Len(events) > 0 /\ last.type = "canceled"
    /\ remote.state = "ended" => Len(events) > 0 /\ last.type = "expired"
    /\ Len(events) > 0 /\ last.type = "expired" => remote.state = "ended"
    /\ remote.state \in {"unpaid", "ended"} => now >= remote.paid_until
    /\ Dated => \/ now >= remote.paid_until
                \/ /\ Len(events) > 0 /\ last.period_end = remote.paid_until
                   /\ remote.paid_until # NoDate
    /\ remote.state # "none" => remote.plan # FREE /\ remote.next # FREE
    /\ \A n \in 1..Len(events) : events[n].plan # FREE

\* The mirror has not heard of the provider's last event.
Behind == sub.last_event < Len(events)

\* What an open transaction may still write was allowed by the row it read and, where
\* it called the provider, is about to be said by the provider too.
Meant(x) ==
    /\ x.step # "idle" => x.at <= now
    /\ x.op \in {"upgrade", "reconcile", "downgrade"} /\ x.step = "commit" => x.target # FREE
    /\ x.op \in {"upgrade", "downgrade", "revert"} /\ x.step = "call" => x.target # FREE
    /\ x.op = "upgrade" /\ x.step = "call" => x.read.provider
    /\ x.op \in {"resume", "upgrade"} /\ x.step = "commit" =>
          Behind \/ (x.op = "resume" /\ ~x.read.provider)
    /\ x.op = "downgrade" /\ x.step \in {"call", "commit"} => x.read.plan # FREE
    /\ x.op = "reconcile" /\ x.step = "commit" => Behind \/ remote.state = "active"
    /\ x.op = "sweep" => x.step \in {"idle", "commit"}
    /\ x.op = "sweep" /\ x.step = "commit" =>
          /\ x.read.cancel \/ x.read.pending # FREE
          /\ x.read.period_end # NoDate /\ x.read.period_end <= x.at

\* The row once it has heard everything.
Mirrors ==
    /\ sub.plan = FREE => sub.pending = FREE
    /\ sub.last_event > 0 => sub.provider
    /\ \A m \in applied : m <= sub.last_event
    /\ ~Behind => /\ remote.state = "canceled" => sub.cancel \/ sub.plan = FREE
                  /\ remote.state = "ended" => sub.plan = FREE
                  /\ Dated => now >= remote.paid_until \/ sub.period_end >= remote.paid_until

MirrorInv == Said /\ (\A t \in Txns : Meant(txn[t])) /\ Mirrors

LEMMA WrittenSame ==
    ASSUME NEW row \in Row, NEW new \in Row
    PROVE  Written(row, new, row) = new
BY DEF Written, Row

LEMMA PeriodEndKeeps ==
    ASSUME NEW row \in Row, NEW at \in Nat
    PROVE  row.period_end <= at \/ PeriodEnd(row, at) = row.period_end
BY DEF PeriodEnd, Row

\* What each request, the sweep and the reconciliation want of the row they read.
LEMMA WantedFields ==
    ASSUME NEW x \in Txn, x.op # "webhook",
           x.op \in {"upgrade", "reconcile"} => x.target # FREE
    PROVE  LET read == x.read
               wanted == Wanted(x)
           IN /\ x.op = "sweep" =>
                    /\ read.cancel => wanted.plan = FREE
                    /\ ~read.cancel => wanted.plan = read.pending
                    /\ wanted.pending = FREE
              /\ x.op \in {"upgrade", "reconcile"} => wanted.plan = x.target
              /\ x.op \notin {"sweep", "upgrade", "reconcile"} => wanted.plan = read.plan
              /\ x.op = "cancel" => wanted.cancel
              /\ x.op \notin {"cancel", "resume", "sweep"} => wanted.cancel = read.cancel
              /\ x.op \notin {"sweep", "downgrade"} => wanted.pending \in {FREE, read.pending}
              /\ wanted.provider = read.provider
              /\ x.op # "sweep" => wanted.period_end \in {read.period_end, PeriodEnd(read, x.at)}
<1> DEFINE read == x.read
           wanted == Wanted(x)
<1>1. read \in Row /\ x.op \in Operations /\ x.target \in Tiers /\ x.at \in Nat
  BY DEF Txn
<1>2. CASE x.op = "sweep"
  <2>1. /\ read.cancel =>
             wanted = [read EXCEPT !.plan = FREE, !.status = "canceled", !.cancel = FALSE,
                                   !.pending = FREE, !.period_end = NoDate]
        /\ ~read.cancel =>
             wanted = [read EXCEPT !.plan = read.pending, !.pending = FREE,
                                   !.period_end = MonthEnd(x.at)]
    BY <1>2 DEF Wanted, ApplyDue
  <2>2. /\ wanted.pending = FREE /\ wanted.provider = read.provider
        /\ read.cancel => wanted.plan = FREE
        /\ ~read.cancel => wanted.plan = read.pending
    <3> HIDE DEF wanted
    <3> QED
      BY <1>1, <2>1 DEF Row
  <2> QED
    BY <1>2, <2>2
<1>3. CASE x.op \in {"upgrade", "reconcile"}
  <2> DEFINE planned == [read EXCEPT !.plan = x.target, !.status = "active",
                                     !.period_end = PeriodEnd(read, x.at)]
  <2>1. ApplyPlanChange(read, x.target, "active", x.at) = planned
    BY <1>3 DEF ApplyPlanChange
  <2>2. wanted = IF x.op = "upgrade" THEN [planned EXCEPT !.pending = FREE] ELSE planned
    BY <1>3, <2>1 DEF Wanted
  <2>3. /\ wanted.plan = x.target /\ wanted.cancel = read.cancel
        /\ wanted.provider = read.provider /\ wanted.pending \in {FREE, read.pending}
        /\ wanted.period_end = PeriodEnd(read, x.at)
    <3> HIDE DEF wanted
    <3> QED
      BY <1>1, <2>2 DEF Row
  <2> QED
    BY <1>3, <2>3
<1>4. CASE x.op = "cancel"
  <2>1. wanted = [read EXCEPT !.cancel = TRUE, !.pending = FREE,
                              !.period_end = PeriodEnd(read, x.at)]
    BY <1>4 DEF Wanted
  <2>2. /\ wanted.plan = read.plan /\ wanted.cancel /\ wanted.pending = FREE
        /\ wanted.provider = read.provider /\ wanted.period_end = PeriodEnd(read, x.at)
    <3> HIDE DEF wanted
    <3> QED
      BY <1>1, <2>1 DEF Row
  <2> QED
    BY <1>4, <2>2
<1>5. CASE x.op = "resume"
  <2>1. wanted = [read EXCEPT !.cancel = FALSE]
    BY <1>5 DEF Wanted
  <2>2. /\ wanted.plan = read.plan /\ wanted.pending = read.pending
        /\ wanted.provider = read.provider /\ wanted.period_end = read.period_end
    <3> HIDE DEF wanted
    <3> QED
      BY <1>1, <2>1 DEF Row
  <2> QED
    BY <1>5, <2>2
<1>6. CASE x.op = "revert"
  <2>1. wanted = [read EXCEPT !.pending = FREE]
    BY <1>6 DEF Wanted
  <2>2. /\ wanted.plan = read.plan /\ wanted.pending = FREE /\ wanted.cancel = read.cancel
        /\ wanted.provider = read.provider /\ wanted.period_end = read.period_end
    <3> HIDE DEF wanted
    <3> QED
      BY <1>1, <2>1 DEF Row
  <2> QED
    BY <1>6, <2>2
<1>7. CASE x.op = "downgrade"
  <2>1. wanted = [read EXCEPT !.pending = x.target, !.period_end = PeriodEnd(read, x.at)]
    BY <1>7 DEF Wanted
  <2>2. /\ wanted.plan = read.plan /\ wanted.cancel = read.cancel
        /\ wanted.provider = read.provider /\ wanted.period_end = PeriodEnd(read, x.at)
    <3> HIDE DEF wanted
    <3> QED
      BY <1>1, <2>1 DEF Row
  <2> QED
    BY <1>7, <2>2
<1> QED
  BY <1>1, <1>2, <1>3, <1>4, <1>5, <1>6, <1>7 DEF Operations

\* What a delivery makes of the row.
LEMMA AppliedFields ==
    ASSUME NEW row \in Row, NEW n \in 1..Len(events), NEW at \in Nat, events \in Seq(Event),
           row.plan = FREE => row.pending = FREE
    PROVE  LET e == events[n]
               new == ApplyEvent(row, n, at)
           IN /\ new.provider
              /\ e.type = "expired" => new.plan = FREE
              /\ e.type \in {"canceled", "past_due"} => new.plan = row.plan
              /\ e.type \notin {"expired", "canceled", "past_due"} => new.plan = e.plan
              /\ e.type = "canceled" => new.cancel
              /\ new.plan = FREE => new.pending = FREE
              /\ e.type # "expired" /\ e.period_end # NoDate => new.period_end = e.period_end
<1> DEFINE e == events[n]
           new == ApplyEvent(row, n, at)
           target == ResolveTarget(row, e, at)
<1>1. e \in Event
  OBVIOUS
<1>2. e.plan \in Tiers /\ row.plan \in Tiers /\ e.period_end \in Nat
  BY <1>1 DEF Event, Row
<1>3. \A plan \in Tiers, status \in SubscriptionStatus :
         LET changed == ApplyPlanChange(row, plan, status, at)
         IN /\ changed \in Row /\ changed.plan = plan /\ changed.status = status
            /\ changed.pending = IF plan = FREE THEN FREE ELSE row.pending
  <2> TAKE plan \in Tiers, status \in SubscriptionStatus
  <2>1. ApplyPlanChange(row, plan, status, at) \in Row
    BY ApplyPlanChangeType
  <2> QED
    BY <2>1 DEF ApplyPlanChange, Row
<1>4. /\ target \in Row
      /\ e.type = "expired" => target.plan = FREE /\ target.status = "canceled"
      /\ e.type # "expired" => target.status # "canceled"
      /\ e.type \in {"canceled", "past_due"} => target.plan = row.plan
      /\ e.type \notin {"expired", "canceled", "past_due"} => target.plan = e.plan
      /\ e.type = "canceled" => target.cancel
      /\ target.plan = FREE => target.pending = FREE
  <2> HIDE DEF e
  <2>1. "active" \in SubscriptionStatus /\ "past_due" \in SubscriptionStatus
        /\ "canceled" \in SubscriptionStatus /\ FREE \in Tiers
    BY DEF SubscriptionStatus, Tiers, FREE
  <2>2. CASE e.type = "canceled"
    <3> DEFINE c == ApplyPlanChange(row, row.plan, "active", at)
    <3>1. target = [c EXCEPT !.cancel = TRUE]
      BY <2>2 DEF ResolveTarget
    <3>2. /\ c \in Row /\ c.plan = row.plan /\ c.status = "active"
          /\ c.pending = IF row.plan = FREE THEN FREE ELSE row.pending
      BY <1>2, <1>3, <2>1
    <3> HIDE DEF c, target
    <3>3. /\ target \in Row /\ target.plan = row.plan /\ target.status = "active"
          /\ target.cancel /\ target.pending = c.pending
      BY <3>1, <3>2 DEF Row
    <3> QED
      BY <2>2, <3>2, <3>3
  <2>3. CASE e.type = "expired"
    <3> DEFINE c == ApplyPlanChange(row, FREE, "canceled", at)
    <3>1. target = [c EXCEPT !.cancel = FALSE]
      BY <2>3 DEF ResolveTarget
    <3>2. /\ c \in Row /\ c.plan = FREE /\ c.status = "canceled" /\ c.pending = FREE
      BY <1>3, <2>1
    <3> HIDE DEF c, target
    <3>3. /\ target \in Row /\ target.plan = FREE /\ target.status = "canceled"
          /\ target.pending = FREE
      BY <3>1, <3>2 DEF Row
    <3> QED
      BY <2>3, <3>3
  <2>4. CASE e.type = "past_due"
    <3>1. target = ApplyPlanChange(row, row.plan, "past_due", at)
      BY <2>4 DEF ResolveTarget
    <3>2. /\ target \in Row /\ target.plan = row.plan /\ target.status = "past_due"
          /\ target.pending = IF row.plan = FREE THEN FREE ELSE row.pending
      BY <1>2, <1>3, <2>1, <3>1
    <3> HIDE DEF target
    <3> QED
      BY <2>4, <3>2
  <2>5. CASE e.type \notin {"canceled", "expired", "past_due"}
    <3> DEFINE c == ApplyPlanChange(row, e.plan, "active", at)
    <3>1. target = IF e.type = "resumed" THEN [c EXCEPT !.cancel = FALSE] ELSE c
      BY <2>5 DEF ResolveTarget
    <3>2. /\ c \in Row /\ c.plan = e.plan /\ c.status = "active"
          /\ c.pending = IF e.plan = FREE THEN FREE ELSE row.pending
      BY <1>2, <1>3, <2>1
    <3> HIDE DEF c, target
    <3>3. /\ target \in Row /\ target.plan = e.plan /\ target.status = "active"
          /\ target.pending = c.pending
      BY <3>1, <3>2 DEF Row
    <3> QED
      BY <2>5, <3>2, <3>3
  <2> QED
    BY <2>2, <2>3, <2>4, <2>5
<1> HIDE DEF target
<1> DEFINE ended == target.plan = FREE /\ target.status = "canceled"
<1>5. new = [target EXCEPT
               !.provider = TRUE,
               !.period_end = IF ended THEN NoDate
                              ELSE IF e.period_end # NoDate THEN e.period_end ELSE @,
               !.pending = IF ended THEN FREE ELSE @,
               !.last_event = n]
  BY DEF ApplyEvent, target
<1> HIDE DEF e, new
<1>6. /\ new.provider /\ new.plan = target.plan /\ new.cancel = target.cancel
      /\ new.pending = IF ended THEN FREE ELSE target.pending
      /\ ~ended /\ e.period_end # NoDate => new.period_end = e.period_end
  BY <1>4, <1>5 DEF Row
<1>7. \* the facts of the goal
      /\ new.provider
      /\ e.type = "expired" => new.plan = FREE
      /\ e.type \in {"canceled", "past_due"} => new.plan = row.plan
      /\ e.type \notin {"expired", "canceled", "past_due"} => new.plan = e.plan
      /\ e.type = "canceled" => new.cancel
      /\ new.plan = FREE => new.pending = FREE
      /\ e.type # "expired" /\ e.period_end # NoDate => new.period_end = e.period_end
  BY <1>4, <1>6
<1> QED
  BY <1>7 DEF e, new

\* An event the provider sends is its last one; the mirror has not heard of it.
LEMMA Emitted ==
    ASSUME IInv, NEW type \in EventTypes, NEW plan \in Tiers, NEW until \in Nat,
           Emit(type, plan, until), sub' = sub
    PROVE  /\ Len(events') = Len(events) + 1
           /\ events'[Len(events')].type = type /\ events'[Len(events')].plan = plan
           /\ events'[Len(events')].period_end = IF Dated THEN until ELSE NoDate
           /\ \A n \in 1..Len(events) : events'[n] = events[n]
           /\ Behind'
<1> DEFINE e == [type |-> type, plan |-> plan, period_end |-> IF Dated THEN until ELSE NoDate]
<1>1. events' = Append(events, e) /\ events \in Seq(Event) /\ e \in Event
      /\ sub.last_event <= Len(events) /\ sub.last_event \in Nat
  BY DEF Emit, IInv, TypeOK, Row, Event, NoDate
<1>2. /\ e.type = type /\ e.plan = plan
      /\ e.period_end = IF Dated THEN until ELSE NoDate
  OBVIOUS
<1> HIDE DEF e
<1>3. /\ Len(events') = Len(events) + 1 /\ events'[Len(events')] = e
      /\ \A n \in 1..Len(events) : events'[n] = events[n]
  BY <1>1
<1>4. Behind'
  BY <1>1, <1>3 DEF Behind
<1> QED
  BY <1>2, <1>3, <1>4

\* A step in which the provider announces what it did.
LEMMA EmissionStep ==
    ASSUME IInv, MirrorInv, NEW type \in EventTypes, NEW plan \in Tiers \ {FREE}, NEW until \in Nat,
           Emit(type, plan, until), UNCHANGED <<now, sub, applied>>,
           remote'.state = "canceled" => type = "canceled",
           remote'.state = "ended" <=> type = "expired",
           remote'.state \in {"unpaid", "ended"} => now >= remote'.paid_until,
           Dated => \/ now >= remote'.paid_until
                    \/ until = remote'.paid_until /\ remote'.paid_until # NoDate,
           remote'.plan # FREE, remote'.next # FREE
    PROVE  Said' /\ Behind' /\ Mirrors'
<1>1. /\ Len(events') = Len(events) + 1
      /\ events'[Len(events')].type = type /\ events'[Len(events')].plan = plan
      /\ events'[Len(events')].period_end = IF Dated THEN until ELSE NoDate
      /\ \A n \in 1..Len(events) : events'[n] = events[n]
      /\ Behind'
  BY Emitted
<1>2. Len(events) \in Nat
  BY DEF IInv, TypeOK
<1>3. \A n \in 1..Len(events') : events'[n].plan # FREE
  BY <1>1, <1>2 DEF MirrorInv, Said
<1>4. Len(events') > 0
  BY <1>1, <1>2
<1>5. Said'
  BY <1>1, <1>3, <1>4 DEF Said
<1>6. Mirrors'
  BY <1>1 DEF MirrorInv, Mirrors
<1> QED
  BY <1>1, <1>5, <1>6

\* What the provider does by itself.
LEMMA ProviderMirror ==
    ASSUME IInv, MirrorInv, Pay \/ Renew \/ PaymentFails \/ Expire
    PROVE  MirrorInv'
<1>1. /\ UNCHANGED <<now, sub, applied, txn>>
      /\ remote \in Remote /\ form \in Tiers /\ now \in Nat /\ MonthLength \in Nat \ {0}
  BY BillingAssumption DEF Pay, Renew, PaymentFails, Expire, delivery, IInv, TypeOK
<1>2. /\ remote.plan \in Tiers /\ remote.next \in Tiers /\ remote.paid_until \in Nat
      /\ NoDate \in Nat /\ now + MonthLength \in Nat /\ now + MonthLength # NoDate
      /\ \A d \in Nat : now >= d \/ d # NoDate
  BY <1>1 DEF Remote, NoDate
<1>3. Said' /\ Behind' /\ Mirrors'
  <2>1. CASE Pay
    <3>1. /\ remote' = [state |-> "active", plan |-> form, next |-> form,
                        paid_until |-> now + MonthLength]
          /\ form # FREE /\ Emit("activated", form, now + MonthLength)
      BY <2>1 DEF Pay
    <3>2. /\ remote'.state = "active" /\ remote'.plan = form /\ remote'.next = form
          /\ remote'.paid_until = now + MonthLength
      BY <3>1
    <3> QED
      BY <1>1, <1>2, <3>1, <3>2, EmissionStep DEF EventTypes
  <2>2. CASE Renew
    <3>1. /\ remote' = [remote EXCEPT !.state = "active", !.plan = remote.next,
                                      !.paid_until = now + MonthLength]
          /\ remote.state # "none" /\ Emit("renewed", remote.next, now + MonthLength)
      BY <2>2 DEF Renew
    <3>2. /\ remote'.state = "active" /\ remote'.plan = remote.next /\ remote'.next = remote.next
          /\ remote'.paid_until = now + MonthLength
      BY <1>1, <3>1 DEF Remote
    <3>3. remote.next # FREE
      BY <3>1 DEF MirrorInv, Said
    <3> QED
      BY <1>1, <1>2, <3>1, <3>2, <3>3, EmissionStep DEF EventTypes
  <2>3. CASE PaymentFails
    <3>1. /\ remote' = [remote EXCEPT !.state = "unpaid"]
          /\ remote.state # "none" /\ Emit("past_due", remote.plan, NoDate)
          /\ now >= remote.paid_until
      BY <2>3 DEF PaymentFails, PeriodOver
    <3>2. /\ remote'.state = "unpaid" /\ remote'.plan = remote.plan /\ remote'.next = remote.next
          /\ remote'.paid_until = remote.paid_until
      BY <1>1, <3>1 DEF Remote
    <3>3. remote.plan # FREE /\ remote.next # FREE
      BY <3>1 DEF MirrorInv, Said
    <3> QED
      BY <1>1, <1>2, <3>1, <3>2, <3>3, EmissionStep DEF EventTypes
  <2>4. CASE Expire
    <3>1. /\ remote' = [remote EXCEPT !.state = "ended"]
          /\ remote.state # "none" /\ Emit("expired", remote.plan, NoDate)
          /\ now >= remote.paid_until
      BY <2>4 DEF Expire, PeriodOver
    <3>2. /\ remote'.state = "ended" /\ remote'.plan = remote.plan /\ remote'.next = remote.next
          /\ remote'.paid_until = remote.paid_until
      BY <1>1, <3>1 DEF Remote
    <3>3. remote.plan # FREE /\ remote.next # FREE
      BY <3>1 DEF MirrorInv, Said
    <3> QED
      BY <1>1, <1>2, <3>1, <3>2, <3>3, EmissionStep DEF EventTypes
  <2> QED
    BY <2>1, <2>2, <2>3, <2>4
<1>4. ASSUME NEW t \in Txns PROVE Meant(txn[t])'
  BY <1>1, <1>3 DEF MirrorInv, Meant
<1> QED
  BY <1>3, <1>4 DEF MirrorInv

\* A step that changes neither the row nor what the provider has or said.
LEMMA TxnMirror ==
    ASSUME MirrorInv, UNCHANGED <<now, sub, remote, events, applied>>,
           \A t \in Txns : Meant(txn'[t])
    PROVE  MirrorInv'
<1>1. Said' /\ Mirrors' /\ (Behind' <=> Behind)
  BY DEF MirrorInv, Said, Mirrors, Behind
<1>2. ASSUME NEW t \in Txns PROVE Meant(txn[t])'
  BY <1>1 DEF Meant
<1> QED
  BY <1>1, <1>2 DEF MirrorInv

LEMMA CloseMirror ==
    ASSUME IInv, MirrorInv, NEW t \in Txns, Close(t), UNCHANGED <<now, sub, remote, events, applied>>
    PROVE  MirrorInv'
<1>1. Meant(Idle)
  BY DEF Meant, Idle
<1>2. \A u \in Txns : txn'[u] = Idle \/ txn'[u] = txn[u]
  BY DEF Close, IInv, TypeOK
<1> QED
  BY <1>1, <1>2, TxnMirror DEF MirrorInv

\* A transaction that has just read the row.
LEMMA OpenMirror ==
    ASSUME IInv, MirrorInv, NEW t \in Txns, NEW op \in Operations, NEW target \in Tiers,
           NEW step \in {"call", "commit"}, Open(t, op, target, step),
           UNCHANGED <<now, sub, remote, events, applied>>,
           op \in {"upgrade", "downgrade", "revert"} =>
               target # FREE /\ step = "call" /\ sub.provider,
           op = "downgrade" => sub.plan # FREE,
           op = "resume" /\ step = "commit" => ~sub.provider,
           op = "reconcile" => step = "call",
           op = "sweep" => /\ step = "commit" /\ (sub.cancel \/ sub.pending # FREE)
                           /\ sub.period_end # NoDate /\ sub.period_end <= now
    PROVE  MirrorInv'
<1> DEFINE x == [Idle EXCEPT !.step = step, !.op = op, !.read = sub,
                             !.target = target, !.at = now]
<1>1. x.step = step /\ x.op = op /\ x.read = sub /\ x.target = target /\ x.at = now
  BY IdleType DEF Txn
<1>2. txn' = [txn EXCEPT ![t] = x] /\ now \in Nat
  BY BillingAssumption DEF Open, IInv, TypeOK
<1> HIDE DEF x
<1>3. Meant(x)
  BY <1>1, <1>2 DEF Meant
<1>4. \A u \in Txns : txn'[u] = x \/ txn'[u] = txn[u]
  BY <1>2 DEF IInv, TypeOK
<1> QED
  BY <1>3, <1>4, TxnMirror DEF MirrorInv

LEMMA BeginMirror ==
    ASSUME IInv, MirrorInv, NEW t \in Txns,
           \/ BeginCancel(t) \/ BeginResume(t) \/ BeginSweep(t) \/ BeginReconcile(t)
           \/ \E p \in Paid : BeginChange(t, p)
    PROVE  MirrorInv'
<1>1. UNCHANGED <<now, sub, remote, events, applied>>
  BY DEF BeginCancel, BeginResume, BeginSweep, BeginReconcile, BeginChange, provider, delivery
<1>2. /\ AskProvider \in {"call", "commit"} /\ FREE \in Tiers
      /\ AskProvider = "commit" <=> ~sub.provider
      /\ \A p \in Paid : p \in Tiers /\ p # FREE
      /\ \A op \in {"cancel", "resume", "sweep", "reconcile", "revert", "upgrade", "downgrade"} :
            op \in Operations
  BY DEF AskProvider, Tiers, FREE, Paid, Operations
<1>3. CASE BeginCancel(t)
  <2>1. Open(t, "cancel", FREE, AskProvider)
    BY <1>3 DEF BeginCancel
  <2> QED
    BY <1>1, <1>2, <2>1, OpenMirror
<1>4. CASE BeginResume(t)
  <2>1. Open(t, "resume", FREE, AskProvider)
    BY <1>4 DEF BeginResume
  <2> QED
    BY <1>1, <1>2, <2>1, OpenMirror
<1>5. CASE BeginSweep(t)
  <2>1. /\ Open(t, "sweep", FREE, "commit") /\ (sub.cancel \/ sub.pending # FREE)
        /\ sub.period_end # NoDate /\ sub.period_end <= now
    BY <1>5 DEF BeginSweep
  <2> QED
    BY <1>1, <1>2, <2>1, OpenMirror
<1>6. CASE BeginReconcile(t)
  <2>1. Open(t, "reconcile", FREE, "call")
    BY <1>6 DEF BeginReconcile
  <2> QED
    BY <1>1, <1>2, <2>1, OpenMirror
<1>7. ASSUME NEW p \in Paid, BeginChange(t, p) PROVE MirrorInv'
  <2>1. /\ sub.provider /\ p \in Tiers /\ p # FREE
        /\ \/ Open(t, "revert", p, "call") \/ Open(t, "upgrade", p, "call")
           \/ p < sub.plan /\ Open(t, "downgrade", p, "call")
    BY <1>2, <1>7 DEF BeginChange
  <2>2. p < sub.plan => sub.plan # FREE
    BY DEF Paid, Tiers, FREE
  <2> QED
    BY <1>1, <1>2, <2>1, <2>2, OpenMirror
<1> QED
  BY <1>3, <1>4, <1>5, <1>6, <1>7

LEMMA WebhookMirror ==
    ASSUME IInv, MirrorInv, NEW t \in Txns, NEW n \in 1..Len(events), BeginWebhook(t, n)
    PROVE  MirrorInv'
<1> DEFINE step == IF n \in processed \/ Outdated(n) THEN "answer" ELSE "commit"
           x == [Idle EXCEPT !.step = step, !.op = "webhook", !.read = sub,
                             !.event = n, !.at = now]
<1>1. x.op = "webhook" /\ x.at = now
  BY IdleType DEF Txn
<1>2. /\ txn' = [txn EXCEPT ![t] = x] /\ UNCHANGED <<now, sub, remote, events, applied>>
      /\ now \in Nat
  BY BillingAssumption DEF BeginWebhook, provider, delivery, IInv, TypeOK
<1> HIDE DEF x
<1>3. Meant(x)
  BY <1>1, <1>2 DEF Meant
<1>4. \A u \in Txns : txn'[u] = x \/ txn'[u] = txn[u]
  BY <1>2 DEF IInv, TypeOK
<1> QED
  BY <1>2, <1>3, <1>4, TxnMirror DEF MirrorInv

\* The provider does as it is asked: what the transaction is about to write is about
\* to be announced too.
LEMMA CallMirror ==
    ASSUME \A u, v \in Txns : u = v, IInv, MirrorInv, NEW t \in Txns, CallProvider(t)
    PROVE  MirrorInv'
<1> DEFINE x == [txn[t] EXCEPT !.step = "commit"]
<1>1. /\ txn[t] \in Txn /\ txn[t].step = "call" /\ Meant(txn[t])
      /\ txn' = [txn EXCEPT ![t] = x] /\ UNCHANGED <<now, sub, applied>>
      /\ remote \in Remote /\ now \in Nat
  BY BillingAssumption DEF CallProvider, IInv, TypeOK, MirrorInv, delivery
<1>2. /\ x.step = "commit" /\ x.op = txn[t].op /\ x.read = txn[t].read
      /\ x.target = txn[t].target /\ x.at = txn[t].at
  BY <1>1 DEF Txn
<1> HIDE DEF x
<1>3. txn'[t] = x /\ \A u \in Txns : u = t
  BY <1>1 DEF IInv, TypeOK
<1>4. /\ remote.plan \in Tiers /\ remote.next \in Tiers /\ remote.paid_until \in Nat
      /\ remote.state # "none" => remote.plan # FREE /\ remote.next # FREE
      /\ txn[t].target \in Tiers
      /\ Dated => now >= remote.paid_until \/ remote.paid_until # NoDate
  BY <1>1 DEF Remote, Txn, MirrorInv, Said
<1>5. CASE txn[t].op = "cancel" /\ Cancelled
  <2>1. /\ remote' = [remote EXCEPT !.state = "canceled"] /\ remote.state # "none"
        /\ Emit("canceled", remote.plan, remote.paid_until)
    BY <1>5 DEF Cancelled
  <2>2. /\ remote'.state = "canceled" /\ remote'.plan = remote.plan
        /\ remote'.next = remote.next /\ remote'.paid_until = remote.paid_until
    BY <1>1, <2>1 DEF Remote
  <2>3. Said' /\ Behind' /\ Mirrors'
    BY <1>1, <1>4, <2>1, <2>2, EmissionStep DEF EventTypes
  <2> QED
    BY <1>1, <1>2, <1>3, <1>5, <2>3 DEF MirrorInv, Meant
<1>6. CASE txn[t].op = "resume" /\ Resumed
  <2>1. /\ remote' = [remote EXCEPT !.state = "active"] /\ remote.state # "none"
        /\ Emit("resumed", remote.plan, remote.paid_until)
    BY <1>6 DEF Resumed
  <2>2. /\ remote'.state = "active" /\ remote'.plan = remote.plan
        /\ remote'.next = remote.next /\ remote'.paid_until = remote.paid_until
    BY <1>1, <2>1 DEF Remote
  <2>3. Said' /\ Behind' /\ Mirrors'
    BY <1>1, <1>4, <2>1, <2>2, EmissionStep DEF EventTypes
  <2> QED
    BY <1>1, <1>2, <1>3, <1>6, <2>3 DEF MirrorInv, Meant
<1>7. CASE txn[t].op = "upgrade" /\ PlanChanged(txn[t].target, TRUE)
  <2>1. /\ remote' = [remote EXCEPT !.plan = txn[t].target, !.next = txn[t].target]
        /\ remote.state = "active" /\ Emit("updated", txn[t].target, remote.paid_until)
    BY <1>7 DEF PlanChanged
  <2>2. /\ remote'.state = "active" /\ remote'.plan = txn[t].target
        /\ remote'.next = txn[t].target /\ remote'.paid_until = remote.paid_until
    BY <1>1, <2>1 DEF Remote
  <2>3. txn[t].target # FREE
    BY <1>1, <1>7 DEF Meant
  <2>4. Said' /\ Behind' /\ Mirrors'
    BY <1>1, <1>4, <2>1, <2>2, <2>3, EmissionStep DEF EventTypes
  <2> QED
    BY <1>1, <1>2, <1>3, <1>7, <2>3, <2>4 DEF MirrorInv, Meant
<1>8. CASE txn[t].op \in {"revert", "downgrade"} /\ PlanChanged(txn[t].target, FALSE)
  <2>1. /\ remote' = [remote EXCEPT !.next = txn[t].target] /\ events' = events
    BY <1>8 DEF PlanChanged
  <2>2. /\ remote'.state = remote.state /\ remote'.plan = remote.plan
        /\ remote'.next = txn[t].target /\ remote'.paid_until = remote.paid_until
    BY <1>1, <2>1 DEF Remote
  <2>3. txn[t].target # FREE
    BY <1>1, <1>8 DEF Meant
  <2>4. Said' /\ Mirrors' /\ (Behind' <=> Behind)
    BY <1>1, <2>1, <2>2, <2>3 DEF MirrorInv, Said, Mirrors, Behind
  <2>5. ASSUME NEW u \in Txns PROVE Meant(txn[u])'
    BY <1>1, <1>2, <1>3, <1>8, <2>3, <2>4 DEF Meant
  <2> QED
    BY <2>4, <2>5 DEF MirrorInv
<1> QED
  BY <1>5, <1>6, <1>7, <1>8 DEF CallProvider

LEMMA FetchMirror ==
    ASSUME IInv, MirrorInv, NEW t \in Txns, Fetch(t)
    PROVE  MirrorInv'
<1>1. UNCHANGED <<now, sub, remote, events, applied>> /\ txn[t] \in Txn /\ Meant(txn[t])
      /\ txn[t].op = "reconcile" /\ txn[t].step = "call"
  BY DEF Fetch, provider, delivery, IInv, TypeOK, MirrorInv
<1>2. CASE ~Repairs(t)
  <2>1. Close(t)
    BY <1>2 DEF Fetch, Close
  <2> QED
    BY <1>1, <2>1, CloseMirror
<1>3. CASE Repairs(t)
  <2> DEFINE x == [txn[t] EXCEPT !.step = "commit", !.target = remote.plan]
  <2>1. /\ x.op = "reconcile" /\ x.step = "commit" /\ x.target = remote.plan
        /\ x.at = txn[t].at
    BY <1>1 DEF Txn
  <2>2. txn' = [txn EXCEPT ![t] = x] /\ remote.state = "active" /\ remote.plan # FREE
    BY <1>3 DEF Fetch, Repairs, MirrorInv, Said
  <2> HIDE DEF x
  <2>3. Meant(x)
    BY <1>1, <2>1, <2>2 DEF Meant
  <2>4. \A u \in Txns : txn'[u] = x \/ txn'[u] = txn[u]
    BY <2>2 DEF IInv, TypeOK
  <2> QED
    BY <1>1, <2>3, <2>4, TxnMirror DEF MirrorInv
<1> QED
  BY <1>2, <1>3

\* A commit, alone: the row becomes what the transaction wanted.
LEMMA CommitMirror ==
    ASSUME \A u, v \in Txns : u = v, AloneInv, IInv', MirrorInv, NEW t \in Txns, Commit(t)
    PROVE  /\ MirrorInv'
           /\ Dated /\ sub'.plan = FREE /\ sub.plan # FREE /\ sub'.last_event = Len(events)
                => now >= remote.paid_until
<1> DEFINE x == txn[t]
<1>1. /\ x \in Txn /\ x.step = "commit" /\ x.read = sub /\ Meant(x) /\ DeliveryOK(x)
      /\ sub \in Row /\ events \in Seq(Event) /\ Len(events) \in Nat
      /\ sub.last_event \in Nat /\ sub.last_event <= Len(events)
      /\ sub'.last_event \in Nat /\ sub'.last_event <= Len(events)
      /\ now \in Nat /\ remote.paid_until \in Nat
      /\ x.op = "webhook" => x.event > sub.last_event
      /\ UNCHANGED <<now, remote, events>>
  <2>1. UNCHANGED <<now, remote, events>> /\ x.step = "commit"
    BY DEF Commit, provider
  <2>2. /\ x.read = sub /\ (x.op = "webhook" => x.event > sub.last_event)
    BY <2>1 DEF AloneInv, Alone
  <2>3. /\ x \in Txn /\ DeliveryOK(x) /\ sub \in Row /\ sub' \in Row /\ events \in Seq(Event)
        /\ remote \in Remote /\ now \in Nat
        /\ sub.last_event <= Len(events) /\ sub'.last_event <= Len(events')
    BY BillingAssumption DEF AloneInv, IInv, TypeOK, Attested
  <2> QED
    BY <2>1, <2>2, <2>3 DEF MirrorInv, Row, Remote
<1> DEFINE wanted == Wanted(x)
<1>2. /\ sub' = wanted /\ wanted \in Row
      /\ wanted.last_event = IF x.op = "webhook" THEN x.event ELSE sub.last_event
  <2>1. /\ wanted \in Row
        /\ wanted.last_event = IF x.op = "webhook" THEN x.event ELSE x.read.last_event
    BY <1>1, WantedType
  <2>2. sub' = Written(x.read, wanted, sub)
    BY DEF Commit
  <2> HIDE DEF wanted
  <2> QED
    BY <1>1, <2>1, <2>2, WrittenSame
<1>3. /\ x.at \in Nat /\ x.at <= now
      /\ sub.period_end \in Nat /\ wanted.period_end \in Nat
      /\ sub.plan = FREE => sub.pending = FREE
  BY <1>1, <1>2 DEF Txn, Row, Meant, MirrorInv, Mirrors
<1>4. \A u \in Txns : u = t
  OBVIOUS
<1> DEFINE Heard == /\ sub'.plan = FREE => sub'.pending = FREE
                    /\ sub'.last_event > 0 => sub'.provider
                    /\ \A m \in applied' : m <= sub'.last_event
                    /\ sub'.last_event = Len(events) =>
                          /\ remote.state = "canceled" => sub'.cancel \/ sub'.plan = FREE
                          /\ remote.state = "ended" => sub'.plan = FREE
                          /\ Dated => now >= remote.paid_until
                                      \/ sub'.period_end >= remote.paid_until
           Kept == Dated /\ sub'.plan = FREE /\ sub.plan # FREE /\ sub'.last_event = Len(events)
                     => now >= remote.paid_until
<1>5. ASSUME x.op = "webhook" PROVE Heard /\ Kept
  <2> DEFINE n == x.event
             e == events[n]
  <2>1. n \in 1..Len(events) /\ n > sub.last_event /\ wanted = ApplyEvent(sub, n, x.at)
    BY <1>1, <1>5 DEF DeliveryOK, Wanted
  <2>2. /\ wanted.provider
        /\ e.type = "expired" => wanted.plan = FREE
        /\ e.type \in {"canceled", "past_due"} => wanted.plan = sub.plan
        /\ e.type \notin {"expired", "canceled", "past_due"} => wanted.plan = e.plan
        /\ e.type = "canceled" => wanted.cancel
        /\ wanted.plan = FREE => wanted.pending = FREE
        /\ e.type # "expired" /\ e.period_end # NoDate => wanted.period_end = e.period_end
    <3> HIDE DEF x
    <3> QED
      BY <1>1, <1>3, <2>1, AppliedFields
  <2>3. applied' = applied \cup {n} /\ \A m \in applied : m <= sub.last_event
    BY <1>5 DEF Commit, MirrorInv, Mirrors
  <2>4. n \in Nat /\ applied \subseteq Nat /\ sub'.last_event = n
    BY <1>1, <1>2, <1>5, <2>1 DEF AloneInv, IInv, TypeOK
  <2>5. \A m \in applied' : m <= sub'.last_event
    <3> SUFFICES ASSUME NEW m \in applied' PROVE m <= n
      BY <2>4
    <3> HIDE DEF n
    <3>1. m = n \/ (m \in Nat /\ m <= sub.last_event)
      BY <2>3, <2>4
    <3> QED
      BY <1>1, <2>1, <2>4, <3>1
  <2>6. e.plan # FREE
    BY <2>1 DEF MirrorInv, Said
  <2>7. ASSUME n = Len(events)
        PROVE  /\ remote.state = "canceled" => e.type = "canceled"
               /\ remote.state = "ended" <=> e.type = "expired"
               /\ remote.state = "ended" => now >= remote.paid_until
               /\ Dated => \/ now >= remote.paid_until
                           \/ e.period_end = remote.paid_until /\ e.period_end # NoDate
    BY <1>1, <2>1, <2>7 DEF MirrorInv, Said
  <2> HIDE DEF wanted, x, n, e
  <2>8. Heard
    BY <1>1, <1>2, <2>2, <2>4, <2>5, <2>7
  <2>9. Kept
    BY <1>1, <1>2, <2>2, <2>4, <2>6, <2>7
  <2> QED
    BY <2>8, <2>9
<1>6. ASSUME x.op # "webhook" PROVE Heard /\ Kept
  <2>1. /\ applied' = applied /\ sub'.last_event = sub.last_event
        /\ wanted.provider = sub.provider
        /\ x.op = "sweep" =>
              /\ sub.cancel => wanted.plan = FREE
              /\ ~sub.cancel => wanted.plan = sub.pending
              /\ wanted.pending = FREE
        /\ x.op \in {"upgrade", "reconcile"} => wanted.plan = x.target
        /\ x.op \notin {"sweep", "upgrade", "reconcile"} => wanted.plan = sub.plan
        /\ x.op = "cancel" => wanted.cancel
        /\ x.op \notin {"cancel", "resume", "sweep"} => wanted.cancel = sub.cancel
        /\ x.op \notin {"sweep", "downgrade"} => wanted.pending \in {FREE, sub.pending}
        /\ x.op # "sweep" => wanted.period_end \in {sub.period_end, PeriodEnd(sub, x.at)}
    <3>1. x.op \in {"upgrade", "reconcile"} => x.target # FREE
      BY <1>1 DEF Meant
    <3>2. applied' = applied /\ sub'.last_event = sub.last_event
      BY <1>2, <1>6 DEF Commit
    <3> HIDE DEF x
    <3> QED
      BY <1>1, <1>6, <3>1, <3>2, WantedFields
  <2>2. sub.period_end <= x.at \/ PeriodEnd(sub, x.at) = sub.period_end
    BY <1>1, <1>3, PeriodEndKeeps
  <2>3. /\ x.op \in {"upgrade", "reconcile"} => x.target # FREE
        /\ x.op \in {"resume", "upgrade"} => Behind \/ (x.op = "resume" /\ ~sub.provider)
        /\ x.op = "downgrade" => sub.plan # FREE
        /\ x.op = "reconcile" => Behind \/ remote.state = "active"
        /\ x.op = "sweep" => sub.cancel \/ sub.pending # FREE
        /\ x.op = "sweep" => sub.period_end <= x.at
    BY <1>1 DEF Meant
  <2>4. /\ sub.last_event > 0 => sub.provider
        /\ \A m \in applied : m <= sub.last_event
        /\ ~Behind => /\ remote.state = "canceled" => sub.cancel \/ sub.plan = FREE
                      /\ remote.state = "ended" => sub.plan = FREE
                      /\ Dated => now >= remote.paid_until \/ sub.period_end >= remote.paid_until
    BY DEF MirrorInv, Mirrors
  <2>5. /\ Behind <=> sub.last_event # Len(events)
        /\ remote.state \in {"canceled", "ended"} => Len(events) > 0
    BY <1>1 DEF Behind, MirrorInv, Said
  <2> HIDE DEF wanted, x
  <2>6. Dated /\ ~Behind => now >= remote.paid_until \/ wanted.period_end >= remote.paid_until
    BY <1>1, <1>3, <2>1, <2>2, <2>3, <2>4
  <2>7. wanted.plan = FREE => wanted.pending = FREE
    BY <1>3, <2>1, <2>3
  <2>8. ~Behind => /\ remote.state = "canceled" => wanted.cancel \/ wanted.plan = FREE
                   /\ remote.state = "ended" => wanted.plan = FREE
    BY <1>1, <1>3, <2>1, <2>3, <2>4, <2>5
  <2>9. wanted.plan = FREE /\ sub.plan # FREE => x.op = "sweep"
    BY <2>1, <2>3
  <2>10. Heard
    <3>1. sub'.last_event > 0 => sub'.provider
      BY <1>2, <2>1, <2>4
    <3>2. \A m \in applied' : m <= sub'.last_event
      BY <2>1, <2>4
    <3>3. sub'.last_event = Len(events) => ~Behind
      BY <2>1, <2>5
    <3>4. /\ sub'.plan = wanted.plan /\ sub'.pending = wanted.pending
          /\ (sub'.cancel <=> wanted.cancel) /\ sub'.period_end = wanted.period_end
      BY <1>2
    <3>5. sub'.plan = FREE => sub'.pending = FREE
      BY <2>7, <3>4
    <3>6. sub'.last_event = Len(events) =>
             /\ remote.state = "canceled" => sub'.cancel \/ sub'.plan = FREE
             /\ remote.state = "ended" => sub'.plan = FREE
      <4> SUFFICES ASSUME sub'.last_event = Len(events)
                   PROVE  /\ remote.state = "canceled" => sub'.cancel \/ sub'.plan = FREE
                          /\ remote.state = "ended" => sub'.plan = FREE
        OBVIOUS
      <4>1. ~Behind
        BY <3>3
      <4>2. remote.state = "canceled" => wanted.cancel \/ wanted.plan = FREE
        BY <2>8, <4>1
      <4>3. remote.state = "ended" => wanted.plan = FREE
        BY <2>8, <4>1
      <4> QED
        BY <3>4, <4>2, <4>3
    <3>7. sub'.last_event = Len(events) /\ Dated =>
             now >= remote.paid_until \/ sub'.period_end >= remote.paid_until
      BY <2>6, <3>3, <3>4
    <3> QED
      BY <3>1, <3>2, <3>5, <3>6, <3>7
  <2>11. Kept
    BY <1>1, <1>2, <1>3, <2>1, <2>3, <2>4, <2>5, <2>9
  <2> QED
    BY <2>10, <2>11
<1>7. Said' /\ Mirrors'
  <2>1. Heard
    BY <1>5, <1>6
  <2> HIDE DEF wanted, x
  <2>2. Said'
    BY <1>1 DEF MirrorInv, Said
  <2>3. sub'.last_event < Len(events) \/ sub'.last_event = Len(events)
    BY <1>1
  <2>4. Mirrors'
    BY <1>1, <2>1, <2>3 DEF Mirrors, Behind
  <2> QED
    BY <2>2, <2>4
<1>8. ASSUME NEW u \in Txns PROVE Meant(txn[u])'
  <2> DEFINE y == [x EXCEPT !.step = "answer", !.applied = TRUE]
  <2>1. (txn' = [txn EXCEPT ![t] = y] /\ x.op = "webhook") \/ txn' = [txn EXCEPT ![t] = Idle]
    BY DEF Commit, Close
  <2>2. y.step = "answer" /\ y.op = x.op /\ y.at = x.at
    BY <1>1 DEF Txn
  <2> HIDE DEF y
  <2>3. (txn'[u] = y /\ x.op = "webhook") \/ txn'[u] = Idle
    BY <2>1, <1>4 DEF AloneInv, IInv, TypeOK
  <2>4. CASE txn'[u] = Idle
    BY <2>4 DEF Meant, Idle
  <2>5. CASE txn'[u] = y /\ x.op = "webhook"
    BY <1>1, <1>3, <2>2, <2>5 DEF Meant
  <2> QED
    BY <2>3, <2>4, <2>5
<1>9. Kept
  BY <1>5, <1>6
<1> QED
  BY <1>7, <1>8, <1>9 DEF MirrorInv

\* Where transactions do not overlap, every step keeps the mirror true, and takes the
\* plan to FREE only when what was paid for is over.
LEMMA MirrorStep ==
    ASSUME \A u, v \in Txns : u = v, AloneInv, MirrorInv, [Next]_vars
    PROVE  /\ MirrorInv'
           /\ Dated /\ sub'.plan = FREE /\ sub.plan # FREE /\ sub'.last_event = Len(events)
                => now >= remote.paid_until
<1>1. IInv /\ IInv'
  BY StepInvariant DEF AloneInv
<1> DEFINE Kept == Dated /\ sub'.plan = FREE /\ sub.plan # FREE /\ sub'.last_event = Len(events)
                     => now >= remote.paid_until
<1>2. sub' = sub => Kept
  OBVIOUS
<1>3. CASE Tick
  <2>1. UNCHANGED <<sub, remote, events, applied, txn>> /\ now' = now + 1 /\ now \in Nat
        /\ remote.paid_until \in Nat /\ sub.period_end \in Nat
    BY <1>1, <1>3 DEF Tick, provider, delivery, IInv, TypeOK, Remote, Row
  <2>2. Said' /\ Mirrors' /\ (Behind' <=> Behind)
    BY <2>1 DEF MirrorInv, Said, Mirrors, Behind
  <2>3. ASSUME NEW t \in Txns PROVE Meant(txn[t])'
    <3>1. txn[t].at \in Nat /\ Meant(txn[t])
      BY <1>1 DEF IInv, TypeOK, Txn, MirrorInv
    <3> QED
      BY <2>1, <2>2, <3>1 DEF Meant
  <2> QED
    BY <1>2, <2>1, <2>2, <2>3 DEF MirrorInv
<1>4. CASE (\E p \in Paid : Checkout(p)) \/ \E n \in 1..Len(events) : Drop(n)
  <2>1. UNCHANGED <<now, sub, remote, events, applied, txn>>
    BY <1>4 DEF Checkout, Drop, provider, delivery
  <2> QED
    BY <1>2, <2>1, TxnMirror DEF MirrorInv
<1>5. CASE Pay \/ Renew \/ PaymentFails \/ Expire
  BY <1>1, <1>2, <1>5, ProviderMirror DEF Pay, Renew, PaymentFails, Expire
<1>6. ASSUME NEW t \in Txns,
             \/ BeginCancel(t) \/ BeginResume(t) \/ BeginSweep(t) \/ BeginReconcile(t)
             \/ \E p \in Paid : BeginChange(t, p)
      PROVE  MirrorInv' /\ Kept
  BY <1>1, <1>2, <1>6, BeginMirror
     DEF BeginCancel, BeginResume, BeginSweep, BeginReconcile, BeginChange
<1>7. ASSUME NEW n \in 1..Len(events), Deliver(n) PROVE MirrorInv' /\ Kept
  BY <1>1, <1>2, <1>7, WebhookMirror DEF Deliver, BeginWebhook
<1>8. ASSUME NEW t \in Txns, CallProvider(t) PROVE MirrorInv' /\ Kept
  BY <1>1, <1>2, <1>8, CallMirror DEF CallProvider
<1>9. ASSUME NEW t \in Txns, Fetch(t) PROVE MirrorInv' /\ Kept
  BY <1>1, <1>2, <1>9, FetchMirror DEF Fetch
<1>10. ASSUME NEW t \in Txns, Commit(t) PROVE MirrorInv' /\ Kept
  BY <1>1, <1>10, CommitMirror
<1>11. ASSUME NEW t \in Txns, CallFails(t) \/ CommitFails(t) \/ Answer(t)
       PROVE  MirrorInv' /\ Kept
  <2>1. Close(t) /\ UNCHANGED <<now, sub, remote, events, applied>>
    BY <1>11 DEF CallFails, CommitFails, Answer, provider, delivery
  <2> QED
    BY <1>1, <1>2, <2>1, CloseMirror
<1>12. CASE UNCHANGED vars
  <2>1. UNCHANGED <<now, sub, remote, events, applied, txn>>
    BY <1>12 DEF vars, provider, delivery
  <2> QED
    BY <1>2, <2>1, TxnMirror DEF MirrorInv
<1>13. CASE RequestStep
  BY <1>4, <1>6, <1>13 DEF RequestStep
<1>14. CASE ProviderStep
  BY <1>4, <1>5, <1>14 DEF ProviderStep
<1>15. CASE FaultStep \/ Sweep \/ Reconcile
  BY <1>6, <1>11, <1>15 DEF FaultStep, Sweep, Reconcile
<1>16. ASSUME NEW t \in Txns, Proceed(t) PROVE MirrorInv' /\ Kept
  BY <1>8, <1>9, <1>10, <1>11, <1>16 DEF Proceed
<1> QED
  BY <1>3, <1>7, <1>12, <1>13, <1>14, <1>15, <1>16 DEF Next

LEMMA MirrorInit == Init => MirrorInv
<1> SUFFICES ASSUME Init PROVE MirrorInv
  OBVIOUS
<1>1. /\ now = 1 /\ sub = NewSubscription /\ events = <<>> /\ applied = {}
      /\ remote = [state |-> "none", plan |-> FREE, next |-> FREE, paid_until |-> NoDate]
      /\ txn = [t \in Txns |-> Idle]
  BY DEF Init
<1>2. Said
  BY <1>1 DEF Said, NoDate
<1>3. \A t \in Txns : Meant(txn[t])
  BY <1>1 DEF Meant, Idle
<1>4. Mirrors
  BY <1>1 DEF Mirrors, Behind, NewSubscription, FREE, NoDate
<1> QED
  BY <1>2, <1>3, <1>4 DEF MirrorInv

\* Where the transactions on a subscription do not overlap, the mirror agrees with the
\* provider about a subscription cancelled or ended there, once all events were delivered.
THEOREM MirrorAgreesAlone ==
    ASSUME \A t, u \in Txns : t = u
    PROVE  Spec => []MirrorAgrees
<1>1. Init => AloneInv /\ MirrorInv
  BY InitInvariant, MirrorInit DEF AloneInv, Alone, Init, Idle
<1>2. AloneInv /\ MirrorInv /\ [Next]_vars => AloneInv' /\ MirrorInv'
  BY AloneStep, MirrorStep
<1>3. AloneInv /\ MirrorInv => MirrorAgrees
  <2> SUFFICES ASSUME AloneInv, MirrorInv, Quiet, remote.state \in {"canceled", "ended"}
               PROVE  ~Behind
    BY DEF MirrorAgrees, MirrorInv, Mirrors
  <2>1. Len(events) \in Nat /\ Len(events) > 0 /\ sub.last_event \in Nat
        /\ applied \subseteq Nat
    BY DEF MirrorInv, Said, AloneInv, IInv, TypeOK, Row
  <2>2. Len(events) \in answered
    BY <2>1 DEF Quiet
  <2>3. PICK m \in applied : m >= Len(events)
    BY <2>2 DEF AloneInv, IInv, NoEventLost
  <2>4. m <= sub.last_event
    BY DEF MirrorInv, Mirrors
  <2> QED
    BY <2>1, <2>3, <2>4 DEF Behind
<1> QED
  BY <1>1, <1>2, <1>3, PTL DEF Spec

\* Where they do not overlap and the events carry their dates, the plan goes to FREE only
\* when the period that was paid for is over, as long as the mirror is up to date.
THEOREM PaidPeriodKeptAlone ==
    ASSUME \A t, u \in Txns : t = u, Dated
    PROVE  Spec => PaidPeriodKept
<1>1. Init => AloneInv /\ MirrorInv
  BY InitInvariant, MirrorInit DEF AloneInv, Alone, Init, Idle
<1>2. AloneInv /\ MirrorInv /\ [Next]_vars => AloneInv' /\ MirrorInv'
  BY AloneStep, MirrorStep
<1>3. AloneInv /\ MirrorInv /\ [Next]_vars
        => [sub'.plan = FREE /\ sub.plan # FREE /\ sub'.last_event = Len(events)
              => now >= remote.paid_until]_vars
  BY MirrorStep
<1> QED
  BY <1>1, <1>2, <1>3, PTL DEF Spec, PaidPeriodKept

=============================================================================
