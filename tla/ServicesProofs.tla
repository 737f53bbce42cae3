---------------------------- MODULE ServicesProofs ----------------------------
(***************************************************************************)
(* Theorems about three services that share no state: the webhook dead     *)
(* letters (DeadLetter), the review of findings (Review) and the notices   *)
(* (Mail), each for any number of events, requests, findings, senders and  *)
(* addresses, and every fault of its module; and about the system of all   *)
(* seven service modules that the run checks, of which each behaviour is   *)
(* one of each module.                                                     *)
(***************************************************************************)
EXTENDS MCServices, LlmBudgetProofs, AnalysisProofs

-----------------------------------------------------------------------------
(***************************************************************************)
(* DeadLetter: NoSilentLoss.  What a request in flight carries decides     *)
(* what its commit may claim, so the invariant speaks of the requests: a   *)
(* duplicate is an event that was applied (or taken for applied), a stale  *)
(* one is outdated, and a row that an upsert holds is counted before its   *)
(* commit.                                                                 *)
(***************************************************************************)

Ops == {"webhook", "retry"}
Applying == [op : Ops, pc : {"apply"}, event : Events]
Queueing == [op : {"webhook"}, pc : {"enqueue", "queue"}, event : Events, kind : {"permanent", "transient"}]
Marking == [op : {"retry"}, pc : {"mark"}, event : Events, outcome : {"applied"}, resolves : BOOLEAN]
Committing == [op : Ops, pc : {"commit"}, event : Events,
               outcome : {"applied", "duplicate", "stale"}, resolves : BOOLEAN]
HandlerState == {NoHandler} \cup Applying \cup Queueing \cup Marking \cup Committing

\* The event has been applied, or is taken for applied.
Settled(e) == e \in applied \/ TakenForApplied(e)
Overtaken(e) == nature[e] = "dated" /\ e \in outdated

Types == DeadLetterTypeOK /\ handler \in [Handlers -> HandlerState]

\* What a request about to commit knows of its event.
Knows(x) ==
    /\ x.outcome = "duplicate" => Settled(x.event)
    /\ x.outcome = "stale" => Settled(x.event) \/ Overtaken(x.event)
    /\ x.resolves => x.outcome # "stale"
OutcomesTrue == \A h \in Handlers : handler[h] \in Committing => Knows(handler[h])

ProcessedSettled == \A e \in processed : Settled(e)
ToldKept == \A e \in told : Settled(e) \/ Overtaken(e) \/ letter[e].st = "pending"
LettersCounted == \A e \in Events : letter[e].st = "pending" \/ RowHeld(e) => Counted(e)
ResolvedSettled == \A e \in Events : letter[e].st = "resolved" => Settled(e)

DeadLetterIInv ==
    Types /\ OutcomesTrue /\ ProcessedSettled /\ ToldKept /\ LettersCounted /\ ResolvedSettled

-----------------------------------------------------------------------------
\* The kinds of request are told apart by op and pc.
LEMMA HandlerKinds ==
    ASSUME NEW x \in HandlerState
    PROVE  /\ x = NoHandler <=> x.op = "idle"
           /\ x.op # "idle" /\ x.pc = "apply" => x \in Applying
           /\ x.op # "idle" /\ x.pc \in {"enqueue", "queue"} => x \in Queueing
           /\ x.op # "idle" /\ x.pc = "mark" => x \in Marking
           /\ x.op # "idle" /\ x.pc = "commit" => x \in Committing
           /\ x \in Committing => x.op # "idle" /\ x.pc = "commit"
<1>1. CASE x = NoHandler
  BY <1>1 DEF NoHandler, Committing, Ops
<1>2. CASE x \in Applying
  BY <1>2 DEF Applying, Committing, Ops, NoHandler
<1>3. CASE x \in Queueing
  BY <1>3 DEF Queueing, Committing, Ops, NoHandler
<1>4. CASE x \in Marking
  BY <1>4 DEF Marking, Committing, Ops, NoHandler
<1>5. CASE x \in Committing
  BY <1>5 DEF Committing, Ops, NoHandler
<1>6. QED
  BY <1>1, <1>2, <1>3, <1>4, <1>5 DEF HandlerState

\* One request moves, the others stay as they are.
LEMMA Served ==
    ASSUME NEW h \in Handlers, NEW s \in HandlerState, Types, Serve(h, s)
    PROVE  /\ handler' \in [Handlers -> HandlerState]
           /\ handler'[h] = s
           /\ \A g \in Handlers \ {h} : handler'[g] = handler[g]
BY DEF Types, Serve

LEMMA IInvInit == DeadLetterInit => DeadLetterIInv
<1> SUFFICES ASSUME DeadLetterInit PROVE DeadLetterIInv
  OBVIOUS
<1>1. Types
  BY DeadLetterAssumption DEF DeadLetterInit, Types, DeadLetterTypeOK, HandlerState, Letter
<1>2. \A h \in Handlers : handler[h] = NoHandler /\ handler[h].op = "idle"
  BY DEF DeadLetterInit, NoHandler
<1>3. OutcomesTrue
  BY <1>2 DEF OutcomesTrue, Committing, Ops
<1>4. \A e \in Events : ~RowHeld(e) /\ letter[e].st = "none"
  BY <1>2 DEF DeadLetterInit, RowHeld
<1>5. ProcessedSettled /\ ToldKept /\ LettersCounted /\ ResolvedSettled
  BY <1>4 DEF DeadLetterInit, ProcessedSettled, ToldKept, LettersCounted, ResolvedSettled
<1>6. QED
  BY <1>1, <1>3, <1>5 DEF DeadLetterIInv

-----------------------------------------------------------------------------
\* What a step of one request keeps.
EarlyOf(x, e) == x.op = "retry" /\ x.event = e /\ MarkedEarly(x)
ResolvingOf(x, e) == x.op # "idle" /\ x.event = e /\ x.pc \in {"mark", "commit"} /\ x.resolves
HoldsRow(x, e) == x.op = "webhook" /\ x.pc = "queue" /\ x.event = e

LEMMA Parts ==
    ASSUME NEW e \in Events
    PROVE  /\ Settled(e) <=> (e \in applied \/ "markedEarly" \in slips[e]
                              \/ \E h \in Handlers : EarlyOf(handler[h], e))
           /\ Counted(e) <=> (e \in pendingSet \/ "uncounted" \in slips[e]
                              \/ \E h \in Handlers : ResolvingOf(handler[h], e))
           /\ RowHeld(e) <=> \E h \in Handlers : HoldsRow(handler[h], e)
BY DEF Settled, TakenForApplied, Counted, RowHeld, EarlyOf, ResolvingOf, HoldsRow

LEMMA PartsPrimed ==
    \A e \in Events :
           /\ Settled(e)' <=> (e \in applied' \/ "markedEarly" \in slips'[e]
                              \/ \E h \in Handlers : EarlyOf(handler'[h], e))
           /\ Counted(e)' <=> (e \in pendingSet' \/ "uncounted" \in slips'[e]
                              \/ \E h \in Handlers : ResolvingOf(handler'[h], e))
           /\ RowHeld(e)' <=> \E h \in Handlers : HoldsRow(handler'[h], e)
BY DEF Settled, TakenForApplied, Counted, RowHeld, EarlyOf, ResolvingOf, HoldsRow, MarkedEarly

\* What is settled stays settled, if the request that moves does not drop its mark.
LEMMA SettledStays ==
    ASSUME NEW h \in Handlers,
           \A g \in Handlers \ {h} : handler'[g] = handler[g],
           applied \subseteq applied',
           \A e \in Events : slips[e] \subseteq slips'[e],
           \A e \in Events : EarlyOf(handler[h], e) =>
               e \in applied' \/ "markedEarly" \in slips'[e] \/ EarlyOf(handler'[h], e)
    PROVE  \A e \in Events : Settled(e) => Settled(e)'
<1> TAKE e \in Events
<1>1. CASE \E g \in Handlers : EarlyOf(handler[g], e)
  <2>1. PICK g \in Handlers : EarlyOf(handler[g], e)
    BY <1>1
  <2>2. CASE g = h
    BY <2>1, <2>2, PartsPrimed
  <2>3. CASE g # h
    BY <2>1, <2>3, PartsPrimed
  <2>4. QED
    BY <2>2, <2>3
<1>2. CASE e \in applied \/ "markedEarly" \in slips[e]
  BY <1>2, PartsPrimed
<1>3. QED
  BY <1>1, <1>2, Parts

\* What is counted stays counted, if a resolution goes on or its failure is on record.
LEMMA CountedStays ==
    ASSUME NEW h \in Handlers, NEW e \in Events,
           \A g \in Handlers \ {h} : handler'[g] = handler[g],
           slips[e] \subseteq slips'[e],
           e \in pendingSet => e \in pendingSet' \/ ResolvingOf(handler'[h], e),
           ResolvingOf(handler[h], e) => ResolvingOf(handler'[h], e) \/ "uncounted" \in slips'[e]
    PROVE  Counted(e) => Counted(e)'
<1> SUFFICES ASSUME Counted(e) PROVE Counted(e)'
  OBVIOUS
<1>1. CASE \E g \in Handlers : ResolvingOf(handler[g], e)
  <2>1. PICK g \in Handlers : ResolvingOf(handler[g], e)
    BY <1>1
  <2>2. CASE g = h
    BY <2>1, <2>2, PartsPrimed
  <2>3. CASE g # h
    BY <2>1, <2>3, PartsPrimed
  <2>4. QED
    BY <2>2, <2>3
<1>2. CASE e \in pendingSet \/ "uncounted" \in slips[e]
  BY <1>2, PartsPrimed
<1>3. QED
  BY <1>1, <1>2, Parts

LEMMA OutcomesStay ==
    ASSUME NEW h \in Handlers, Types, OutcomesTrue,
           \A g \in Handlers \ {h} : handler'[g] = handler[g],
           UNCHANGED <<nature, outdated>>,
           \A e \in Events : Settled(e) => Settled(e)',
           handler'[h] \in Committing => Knows(handler[h])'
    PROVE  OutcomesTrue'
<1> SUFFICES ASSUME NEW g \in Handlers, handler'[g] \in Committing
             PROVE  Knows(handler[g])'
  BY DEF OutcomesTrue, Committing, Ops
<1>1. CASE g = h
  BY <1>1
<1>2. CASE g # h
  <2>1. handler'[g] = handler[g] /\ Knows(handler[g]) /\ handler[g].event \in Events
    BY <1>2 DEF OutcomesTrue, Committing
  <2>2. QED
    BY <2>1 DEF Knows, Overtaken
<1>3. QED
  BY <1>1, <1>2

-----------------------------------------------------------------------------
\* A step that only moves a request from or to a place where it claims nothing.
LEMMA QuietStep ==
    ASSUME DeadLetterIInv, NEW h \in Handlers,
           handler' \in [Handlers -> HandlerState],
           \A g \in Handlers \ {h} : handler'[g] = handler[g],
           delivered' \in [Events -> 0 .. MaxDeliveries],
           UNCHANGED <<told, nature, outdated, applied, processed, letter, pendingSet, slips>>,
           \A e \in Events : ~EarlyOf(handler[h], e) /\ ~ResolvingOf(handler[h], e),
           \A e \in Events : ~HoldsRow(handler'[h], e),
           handler'[h] \notin Committing
    PROVE  DeadLetterIInv'
<1> USE DEF DeadLetterIInv
<1>1. Types'
  BY DEF Types, DeadLetterTypeOK
<1>2. \A e \in Events : Settled(e) => Settled(e)'
  BY SettledStays
<1>3. \A e \in Events : Counted(e) => Counted(e)'
  BY CountedStays
<1>4. \A e \in Events : RowHeld(e)' => RowHeld(e)
  BY PartsPrimed, Parts
<1>5. OutcomesTrue'
  BY <1>2, OutcomesStay
<1>6. ProcessedSettled' /\ ToldKept'
  <2>1. processed \subseteq Events /\ told \subseteq Events
    BY DEF Types, DeadLetterTypeOK
  <2>2. QED
    BY <2>1, <1>2 DEF ProcessedSettled, ToldKept, Overtaken
<1>7. LettersCounted'
  BY <1>3, <1>4 DEF LettersCounted
<1>8. ResolvedSettled'
  BY <1>2 DEF ResolvedSettled
<1>9. QED
  BY <1>1, <1>5, <1>6, <1>7, <1>8

\* A request that is neither resolving nor marking claims nothing.
LEMMA ClaimsNothing ==
    ASSUME NEW x \in HandlerState, x.op = "idle" \/ x.pc \in {"apply", "enqueue", "queue"}
    PROVE  /\ \A e \in Events : ~EarlyOf(x, e) /\ ~ResolvingOf(x, e)
           /\ x \notin Committing
BY HandlerKinds DEF EarlyOf, ResolvingOf, MarkedEarly

LEMMA IdleState == NoHandler \in HandlerState /\ NoHandler.op = "idle"
BY DEF HandlerState, NoHandler

LEMMA ApplyState ==
    ASSUME NEW op \in Ops, NEW e \in Events
    PROVE  LET s == [op |-> op, pc |-> "apply", event |-> e]
           IN s \in HandlerState /\ s.op = op /\ s.pc = "apply"
BY DEF HandlerState, Applying

LEMMA QueueState ==
    ASSUME NEW e \in Events, NEW pc \in {"enqueue", "queue"}, NEW kind \in {"permanent", "transient"}
    PROVE  LET s == [op |-> "webhook", pc |-> pc, event |-> e, kind |-> kind]
           IN s \in HandlerState /\ s.op = "webhook" /\ s.pc = pc /\ s.event = e
BY DEF HandlerState, Queueing

LEMMA DeliverStep ==
    ASSUME DeadLetterIInv, NEW h \in Handlers, NEW e \in Events, DeliverEvent(h, e)
    PROVE  DeadLetterIInv'
<1>1. handler[h] \in HandlerState /\ handler[h] = NoHandler /\ Types
  BY DEF DeliverEvent, DeadLetterIInv, Types
<1>2. PICK s : s \in HandlerState /\ s.op = "webhook" /\ s.pc = "apply" /\ Serve(h, s)
  BY ApplyState DEF DeliverEvent, Ops
<1>3. delivered' \in [Events -> 0 .. MaxDeliveries]
  BY <1>1, DeadLetterAssumption DEF DeliverEvent, Types, DeadLetterTypeOK
<1>4. /\ handler' \in [Handlers -> HandlerState]
      /\ handler'[h] = s
      /\ \A g \in Handlers \ {h} : handler'[g] = handler[g]
  BY <1>1, <1>2, Served
<1>5. QED
  BY <1>1, <1>2, <1>3, <1>4, QuietStep, ClaimsNothing, IdleState DEF DeliverEvent, HoldsRow

LEMMA RetryStep ==
    ASSUME DeadLetterIInv, NEW h \in Handlers, NEW e \in Events, RetryLetter(h, e)
    PROVE  DeadLetterIInv'
<1>1. handler[h] \in HandlerState /\ handler[h] = NoHandler /\ Types
  BY DEF RetryLetter, DeadLetterIInv, Types
<1>2. PICK s : s \in HandlerState /\ s.op = "retry" /\ s.pc = "apply" /\ Serve(h, s)
  BY ApplyState DEF RetryLetter, Ops
<1>3. delivered' \in [Events -> 0 .. MaxDeliveries]
  BY <1>1 DEF RetryLetter, Types, DeadLetterTypeOK
<1>4. /\ handler' \in [Handlers -> HandlerState]
      /\ handler'[h] = s
      /\ \A g \in Handlers \ {h} : handler'[g] = handler[g]
  BY <1>1, <1>2, Served
<1>5. QED
  BY <1>1, <1>2, <1>3, <1>4, QuietStep, ClaimsNothing, IdleState DEF RetryLetter, HoldsRow

LEMMA ApplyErrsStep ==
    ASSUME DeadLetterIInv, NEW h \in Handlers, ApplyErrs(h)
    PROVE  DeadLetterIInv'
<1>1. handler[h] \in Applying /\ handler[h] \in HandlerState /\ Types
  BY HandlerKinds DEF ApplyErrs, DeadLetterIInv, Types
<1>2. PICK s : s \in HandlerState /\ (s.op = "idle" \/ (s.op = "webhook" /\ s.pc = "enqueue")) /\ Serve(h, s)
  <2>1. handler[h].event \in Events
    BY <1>1 DEF Applying
  <2>2. CASE handler[h].op = "webhook"
    BY <2>1, <2>2, QueueState DEF ApplyErrs
  <2>3. CASE handler[h].op # "webhook"
    BY <2>3, IdleState DEF ApplyErrs
  <2>4. QED
    BY <2>2, <2>3
<1>3. delivered' \in [Events -> 0 .. MaxDeliveries]
  BY <1>1 DEF ApplyErrs, Types, DeadLetterTypeOK
<1>4. /\ handler' \in [Handlers -> HandlerState]
      /\ handler'[h] = s
      /\ \A g \in Handlers \ {h} : handler'[g] = handler[g]
  BY <1>1, <1>2, Served
<1>5. QED
  BY <1>1, <1>2, <1>3, <1>4, QuietStep, ClaimsNothing DEF ApplyErrs, HoldsRow

LEMMA EnqueueFailsStep ==
    ASSUME DeadLetterIInv, NEW h \in Handlers, EnqueueFails(h)
    PROVE  DeadLetterIInv'
<1>1. handler[h] \in HandlerState /\ Types
  BY DEF DeadLetterIInv, Types
<1>2. delivered' \in [Events -> 0 .. MaxDeliveries]
  BY <1>1 DEF EnqueueFails, Types, DeadLetterTypeOK
<1>3. /\ handler' \in [Handlers -> HandlerState]
      /\ handler'[h] = NoHandler
      /\ \A g \in Handlers \ {h} : handler'[g] = handler[g]
  BY <1>1, IdleState, Served DEF EnqueueFails
<1>4. QED
  BY <1>1, <1>2, <1>3, QuietStep, ClaimsNothing, IdleState DEF EnqueueFails, HoldsRow

\* A newer event makes more events overtaken and touches nothing else.
LEMMA NewerStep ==
    ASSUME DeadLetterIInv, NEW e \in Events, NewerApplied(e)
    PROVE  DeadLetterIInv'
<1> USE DEF NewerApplied, DeadLetterIInv
<1>1. Types'
  BY DEF Types, DeadLetterTypeOK
<1>2. \A d \in Events : /\ Settled(d)' <=> Settled(d)
                        /\ Counted(d)' <=> Counted(d)
                        /\ RowHeld(d)' <=> RowHeld(d)
  BY Parts, PartsPrimed
<1>3. \A d : Overtaken(d) => Overtaken(d)'
  BY DEF Overtaken
<1>4. OutcomesTrue'
  <2> SUFFICES ASSUME NEW g \in Handlers, handler[g] \in Committing PROVE Knows(handler[g])'
    BY DEF OutcomesTrue, Committing, Ops
  <2>1. Knows(handler[g]) /\ handler[g].event \in Events
    BY DEF OutcomesTrue, Committing
  <2>2. QED
    BY <2>1, <1>2, <1>3 DEF Knows
<1>5. ProcessedSettled' /\ ToldKept'
  <2>1. processed \subseteq Events /\ told \subseteq Events
    BY DEF Types, DeadLetterTypeOK
  <2>2. QED
    BY <2>1, <1>2, <1>3 DEF ProcessedSettled, ToldKept
<1>6. LettersCounted' /\ ResolvedSettled'
  BY <1>2 DEF LettersCounted, ResolvedSettled
<1>7. QED
  BY <1>1, <1>4, <1>5, <1>6

-----------------------------------------------------------------------------
\* An attempt that comes to nothing moves on to the queue; any other is about to
\* commit and knows its outcome.
LEMMA ApplyAttemptStep ==
    ASSUME DeadLetterIInv, NEW h \in Handlers, ApplyAttempt(h)
    PROVE  DeadLetterIInv'
<1> USE DEF DeadLetterIInv
<1> DEFINE e == handler[h].event
           op == handler[h].op
           outcome == OutcomeOf(e)
           resolves == Resolves(op, outcome) /\ (op = "retry" \/ letter[e].st = "pending")
<1>1. handler[h] \in Applying /\ handler[h] \in HandlerState /\ handler[h].pc = "apply"
  BY HandlerKinds DEF ApplyAttempt, Types
<1>2. e \in Events /\ op \in Ops
  BY <1>1 DEF Applying
<1>3. UNCHANGED <<delivered, told, nature, outdated, applied, processed, letter, slips>>
  BY DEF ApplyAttempt
<1>4. delivered' \in [Events -> 0 .. MaxDeliveries]
  BY <1>3 DEF Types, DeadLetterTypeOK
<1>5. \A d \in Events : ~EarlyOf(handler[h], d) /\ ~ResolvingOf(handler[h], d)
  BY <1>1, ClaimsNothing
<1>6. CASE outcome = "permanent"
  <2>1. PICK s : s \in HandlerState /\ (s.op = "idle" \/ s.pc = "enqueue") /\ Serve(h, s)
    <3>1. CASE op = "webhook"
      <4>1. Serve(h, [op |-> "webhook", pc |-> "enqueue", event |-> e, kind |-> "permanent"])
        BY <3>1, <1>6 DEF ApplyAttempt
      <4>2. QED
        BY <4>1, <1>2, QueueState
    <3>2. CASE op # "webhook"
      BY <3>2, <1>6, IdleState DEF ApplyAttempt
    <3>3. QED
      BY <3>1, <3>2
  <2>2. /\ handler' \in [Handlers -> HandlerState]
        /\ handler'[h] = s
        /\ \A g \in Handlers \ {h} : handler'[g] = handler[g]
    BY <2>1, Served
  <2>3. pendingSet' = pendingSet
    BY <1>6 DEF ApplyAttempt
  <2>4. \A d \in Events : ~HoldsRow(s, d)
    BY <2>1 DEF HoldsRow
  <2>5. QED
    BY <1>3, <1>4, <1>5, <2>1, <2>2, <2>3, <2>4, QuietStep, ClaimsNothing
<1>7. CASE outcome # "permanent"
  <2> DEFINE pc == IF op = "retry" /\ outcome = "applied" THEN "mark" ELSE "commit"
             s == [op |-> op, pc |-> pc, event |-> e, outcome |-> outcome, resolves |-> resolves]
  <2>1. Serve(h, s) /\ pendingSet' = IF resolves THEN pendingSet \ {e} ELSE pendingSet
    BY <1>7 DEF ApplyAttempt
  <2>2. outcome \in {"applied", "duplicate", "stale"} /\ resolves \in BOOLEAN
    <3>1. outcome \in {"applied", "duplicate", "stale"}
      BY <1>7 DEF OutcomeOf
    <3>2. resolves \in BOOLEAN
      BY DEF Resolves
    <3>3. QED
      BY <3>1, <3>2
  <2>3. /\ s.op = op /\ s.pc = pc /\ s.event = e /\ s.outcome = outcome
        /\ s.resolves = resolves
    OBVIOUS
  <2>4. s \in HandlerState
    <3> HIDE DEF resolves, outcome, e, op
    <3>1. CASE pc = "mark"
      BY <3>1, <1>2, <2>2 DEF HandlerState, Marking
    <3>2. CASE pc = "commit"
      BY <3>2, <1>2, <2>2 DEF HandlerState, Committing
    <3>3. QED
      BY <3>1, <3>2
  <2>5. /\ handler' \in [Handlers -> HandlerState]
        /\ handler'[h] = s
        /\ \A g \in Handlers \ {h} : handler'[g] = handler[g]
    <3> HIDE DEF s
    <3>1. QED
      BY <2>1, <2>4, Served
  <2>6. resolves => ResolvingOf(handler'[h], e)
    BY <2>3, <2>5, <1>2 DEF ResolvingOf, Ops
  <2>7. \A d \in Events : Settled(d) => Settled(d)'
    BY <1>3, <1>5, <2>5, SettledStays
  <2>8. \A d \in Events : Counted(d) => Counted(d)'
    <3> TAKE d \in Events
    <3>1. d \in pendingSet => d \in pendingSet' \/ ResolvingOf(handler'[h], d)
      BY <2>1, <2>6
    <3> HIDE DEF e, op, outcome, resolves, s
    <3>2. QED
      BY <1>3, <1>5, <2>5, <3>1, CountedStays
  <2>9. \A d \in Events : RowHeld(d)' => RowHeld(d)
    <3>1. \A d \in Events : ~HoldsRow(handler'[h], d)
      BY <2>3, <2>5 DEF HoldsRow
    <3>2. QED
      BY <3>1, <2>5, PartsPrimed, Parts
  <2>10. Types'
    BY <1>3, <2>1, <2>5 DEF Types, DeadLetterTypeOK
  <2>11. handler'[h] \in Committing => Knows(handler[h])'
    <3>1. outcome = "duplicate" => Settled(e)
      BY DEF OutcomeOf, ProcessedSettled
    <3>2. outcome = "stale" => Settled(e) \/ Overtaken(e)
      BY DEF OutcomeOf, Settled, Overtaken
    <3>3. resolves => outcome # "stale"
      BY DEF Resolves
    <3>4. handler'[h].event = e /\ handler'[h].outcome = outcome /\ handler'[h].resolves = resolves
      BY <2>3, <2>5
    <3> HIDE DEF e, op, outcome, resolves, s
    <3>5. Overtaken(e) => nature[e] = "dated" /\ e \in outdated
      BY DEF Overtaken
    <3>6. QED
      BY <3>1, <3>2, <3>3, <3>4, <3>5, <2>7, <1>2, <1>3 DEF Knows, Overtaken
  <2>12. OutcomesTrue'
    BY <1>3, <2>5, <2>7, <2>11, OutcomesStay
  <2>13. ProcessedSettled' /\ ToldKept'
    <3>1. processed \subseteq Events /\ told \subseteq Events
      BY DEF Types, DeadLetterTypeOK
    <3>2. QED
      BY <3>1, <1>3, <2>7 DEF ProcessedSettled, ToldKept, Overtaken
  <2>14. LettersCounted' /\ ResolvedSettled'
    BY <1>3, <2>7, <2>8, <2>9 DEF LettersCounted, ResolvedSettled
  <2>15. QED
    BY <2>10, <2>12, <2>13, <2>14
<1>8. QED
  BY <1>6, <1>7

\* The early mark: processed, and taken for applied until the commit.
LEMMA MarkEarlyStep ==
    ASSUME DeadLetterIInv, NEW h \in Handlers, MarkEarly(h)
    PROVE  DeadLetterIInv'
<1> USE DEF DeadLetterIInv
<1> DEFINE s == [handler[h] EXCEPT !.pc = "commit"]
<1>1. handler[h] \in Marking /\ handler[h] \in HandlerState
  BY HandlerKinds DEF MarkEarly, Types
<1> PICK e \in Events : e = handler[h].event
  BY <1>1 DEF Marking
<1>2. e \in Events /\ Serve(h, s)
  BY DEF MarkEarly
<1>3. s = [op |-> "retry", pc |-> "commit", event |-> e, outcome |-> "applied",
           resolves |-> handler[h].resolves]
  BY <1>1 DEF Marking
<1>4. /\ s.op = "retry" /\ s.pc = "commit" /\ s.event = e
      /\ s.outcome = "applied" /\ s.resolves = handler[h].resolves
  BY <1>3
<1>5. s \in HandlerState
  BY <1>1, <1>2, <1>3 DEF HandlerState, Committing, Marking, Ops
<1>6. UNCHANGED <<delivered, told, nature, outdated, applied, letter, pendingSet, slips>>
      /\ processed' \subseteq processed \cup {e}
  BY DEF MarkEarly
<1>7. /\ handler' \in [Handlers -> HandlerState]
      /\ handler'[h] = s
      /\ \A g \in Handlers \ {h} : handler'[g] = handler[g]
  <2> HIDE DEF s
  <2>1. QED
    BY <1>2, <1>5, Served
<1>8. EarlyOf(handler'[h], e)
  BY <1>4, <1>7 DEF EarlyOf, MarkedEarly
<1>9. \A d \in Events : ~EarlyOf(handler[h], d)
  BY <1>1 DEF Marking, EarlyOf, MarkedEarly
<1>10. \A d \in Events : ResolvingOf(handler[h], d) => ResolvingOf(handler'[h], d)
  BY <1>4, <1>7 DEF ResolvingOf
<1>11. \A d \in Events : ~HoldsRow(handler'[h], d)
  BY <1>4, <1>7 DEF HoldsRow
<1> HIDE DEF s
<1>12. \A d \in Events : Settled(d) => Settled(d)'
  BY <1>6, <1>7, <1>9, SettledStays
<1>13. \A d \in Events : Counted(d) => Counted(d)'
  BY <1>6, <1>7, <1>10, CountedStays
<1>14. \A d \in Events : RowHeld(d)' => RowHeld(d)
  BY <1>7, <1>11, PartsPrimed, Parts
<1>15. Settled(e)'
  BY <1>2, <1>8, PartsPrimed
<1>16. Types'
  BY <1>2, <1>6, <1>7 DEF Types, DeadLetterTypeOK
<1>17. handler'[h] \in Committing => Knows(handler[h])'
  BY <1>4, <1>7 DEF Knows
<1>18. OutcomesTrue'
  BY <1>6, <1>7, <1>12, <1>17, OutcomesStay
<1>19. ProcessedSettled' /\ ToldKept'
  <2>1. processed \subseteq Events /\ told \subseteq Events
    BY DEF Types, DeadLetterTypeOK
  <2>2. ProcessedSettled'
    BY <2>1, <1>6, <1>12, <1>15 DEF ProcessedSettled
  <2>3. ToldKept'
    BY <2>1, <1>6, <1>12 DEF ToldKept, Overtaken
  <2>4. QED
    BY <2>2, <2>3
<1>20. LettersCounted' /\ ResolvedSettled'
  BY <1>6, <1>12, <1>13, <1>14 DEF LettersCounted, ResolvedSettled
<1>21. QED
  BY <1>16, <1>18, <1>19, <1>20

\* The commit: what it answers for is applied, settled before, or overtaken; a letter
\* it resolves is not being written by an upsert.
LEMMA CommitApplyStep ==
    ASSUME DeadLetterIInv, NEW h \in Handlers, CommitApply(h)
    PROVE  DeadLetterIInv'
<1> USE DEF DeadLetterIInv
<1> DEFINE x == handler[h]
<1>1. x \in Committing /\ x \in HandlerState
  BY HandlerKinds DEF CommitApply, Types
<1> PICK e \in Events : e = x.event
  BY <1>1 DEF Committing
<1>2. Knows(x)
  BY <1>1 DEF OutcomesTrue
<1>3. x.op \in Ops /\ x.pc = "commit" /\ x.resolves \in BOOLEAN
      /\ x.outcome \in {"applied", "duplicate", "stale"}
  BY <1>1 DEF Committing
<1>4. /\ x.resolves => ~RowHeld(e)
      /\ applied' = IF x.outcome = "applied" THEN applied \cup {e} ELSE applied
      /\ letter' = IF x.resolves THEN [letter EXCEPT ![e].st = "resolved"] ELSE letter
      /\ \/ x.op = "webhook" /\ x.outcome = "applied" /\ processed' = processed \cup {e}
         \/ UNCHANGED processed
      /\ told' = IF x.op = "webhook" THEN told \cup {e} ELSE told
      /\ Serve(h, NoHandler)
      /\ UNCHANGED <<delivered, nature, outdated, pendingSet, slips>>
  BY DEF CommitApply
<1>5. /\ handler' \in [Handlers -> HandlerState]
      /\ handler'[h] = NoHandler
      /\ \A g \in Handlers \ {h} : handler'[g] = handler[g]
  BY <1>4, IdleState, Served
<1>6. \A d \in Events : EarlyOf(x, d) => d \in applied'
  BY <1>4 DEF EarlyOf, MarkedEarly
<1>7. \A d \in Events : ResolvingOf(x, d) => d = e /\ x.resolves
  BY DEF ResolvingOf
<1>8. \A d \in Events : ~HoldsRow(handler'[h], d) /\ handler'[h] \notin Committing
  BY <1>5, IdleState, ClaimsNothing DEF HoldsRow
<1>9. /\ x.outcome = "duplicate" => Settled(e)
      /\ x.outcome = "stale" => Settled(e) \/ Overtaken(e)
      /\ x.resolves => x.outcome # "stale"
  BY <1>2 DEF Knows
<1>10. /\ applied \subseteq applied'
       /\ x.outcome = "applied" => e \in applied'
  BY <1>4
<1>11. \A d \in Events : Settled(d) => Settled(d)'
  BY <1>4, <1>5, <1>6, <1>10, SettledStays
<1>12. \A d \in Events : d # e \/ ~x.resolves => (Counted(d) => Counted(d)')
  BY <1>4, <1>5, <1>7, CountedStays
<1>13. \A d \in Events : RowHeld(d)' => RowHeld(d)
  BY <1>5, <1>8, PartsPrimed, Parts
<1>14. x.outcome = "applied" => Settled(e)'
  BY <1>1, <1>10, PartsPrimed
<1>15. /\ letter' \in [Events -> Letter]
       /\ \A d \in Events : letter'[d].st = IF x.resolves /\ d = e THEN "resolved" ELSE letter[d].st
  <2>1. letter \in [Events -> Letter]
    BY DEF Types, DeadLetterTypeOK
  <2>2. CASE x.resolves
    <3>1. letter' = [letter EXCEPT ![e] = [letter[e] EXCEPT !.st = "resolved"]]
      BY <2>2, <1>4
    <3>2. [letter[e] EXCEPT !.st = "resolved"] \in Letter
          /\ [letter[e] EXCEPT !.st = "resolved"].st = "resolved"
      BY <2>1, <1>1 DEF Letter
    <3>3. QED
      BY <2>1, <2>2, <3>1, <3>2, <1>1
  <2>3. CASE ~x.resolves
    BY <2>1, <2>3, <1>4
  <2>4. QED
    BY <2>2, <2>3, <1>3
<1>16. Types'
  BY <1>1, <1>4, <1>5, <1>15 DEF Types, DeadLetterTypeOK
<1>17. OutcomesTrue'
  BY <1>4, <1>5, <1>8, <1>11, <1>1, OutcomesStay
<1>18. ProcessedSettled'
  <2>1. processed \subseteq Events
    BY DEF Types, DeadLetterTypeOK
  <2>2. QED
    BY <2>1, <1>4, <1>11, <1>14 DEF ProcessedSettled
<1>19. ToldKept'
  <2>1. told \subseteq Events
    BY DEF Types, DeadLetterTypeOK
  <2>2. Settled(e)' \/ Overtaken(e)'
    BY <1>1, <1>3, <1>4, <1>9, <1>11, <1>14 DEF Overtaken
  <2>3. \A d \in told : d # e => Settled(d)' \/ Overtaken(d)' \/ letter'[d].st = "pending"
    BY <2>1, <1>4, <1>11, <1>15 DEF ToldKept, Overtaken
  <2>4. QED
    BY <2>1, <2>2, <2>3, <1>4 DEF ToldKept
<1>20. LettersCounted'
  <2> SUFFICES ASSUME NEW d \in Events, letter'[d].st = "pending" \/ RowHeld(d)'
               PROVE  Counted(d)'
    BY DEF LettersCounted
  <2>1. d # e \/ ~x.resolves
    BY <1>4, <1>13, <1>15
  <2>2. letter[d].st = "pending" \/ RowHeld(d)
    BY <2>1, <1>13, <1>15
  <2>3. QED
    BY <2>1, <2>2, <1>12 DEF LettersCounted
<1>21. ResolvedSettled'
  <2> SUFFICES ASSUME NEW d \in Events, letter'[d].st = "resolved" PROVE Settled(d)'
    BY DEF ResolvedSettled
  <2>1. CASE x.resolves /\ d = e
    BY <2>1, <1>3, <1>9, <1>11, <1>14
  <2>2. CASE ~(x.resolves /\ d = e)
    BY <2>2, <1>11, <1>15 DEF ResolvedSettled
  <2>3. QED
    BY <2>1, <2>2
<1>22. QED
  BY <1>16, <1>17, <1>18, <1>19, <1>20, <1>21

\* A resolution that fails leaves its slip; the row keeps waiting.
LEMMA CommitApplyFailsStep ==
    ASSUME DeadLetterIInv, NEW h \in Handlers, CommitApplyFails(h)
    PROVE  DeadLetterIInv'
<1> USE DEF DeadLetterIInv
<1> DEFINE x == handler[h]
<1>1. x \in Marking \cup Committing /\ x \in HandlerState
  BY HandlerKinds DEF CommitApplyFails, Types
<1> PICK e \in Events : e = x.event
  BY <1>1 DEF Committing, Marking
<1>2. /\ slips' = [slips EXCEPT ![e] = @ \cup (IF x.resolves THEN {"uncounted"} ELSE {})
                                         \cup (IF MarkedEarly(x) THEN {"markedEarly"} ELSE {})]
      /\ Serve(h, NoHandler)
      /\ UNCHANGED <<delivered, told, nature, outdated, applied, processed, letter, pendingSet>>
  BY DEF CommitApplyFails
<1>3. /\ handler' \in [Handlers -> HandlerState]
      /\ handler'[h] = NoHandler
      /\ \A g \in Handlers \ {h} : handler'[g] = handler[g]
  BY <1>2, IdleState, Served
<1>4. /\ slips' \in [Events -> SUBSET {"uncounted", "markedEarly"}]
      /\ \A d \in Events : slips[d] \subseteq slips'[d]
      /\ x.resolves => "uncounted" \in slips'[e]
      /\ MarkedEarly(x) => "markedEarly" \in slips'[e]
  BY <1>2 DEF Types, DeadLetterTypeOK
<1>5. \A d \in Events : EarlyOf(x, d) => "markedEarly" \in slips'[d]
  BY <1>4 DEF EarlyOf
<1>6. \A d \in Events : ResolvingOf(x, d) => "uncounted" \in slips'[d]
  BY <1>4 DEF ResolvingOf
<1>7. \A d \in Events : ~HoldsRow(handler'[h], d) /\ handler'[h] \notin Committing
  BY <1>3, IdleState, ClaimsNothing DEF HoldsRow
<1>8. \A d \in Events : Settled(d) => Settled(d)'
  BY <1>2, <1>3, <1>4, <1>5, SettledStays
<1>9. \A d \in Events : Counted(d) => Counted(d)'
  BY <1>2, <1>3, <1>4, <1>6, CountedStays
<1>10. \A d \in Events : RowHeld(d)' => RowHeld(d)
  BY <1>3, <1>7, PartsPrimed, Parts
<1>11. Types'
  BY <1>2, <1>3, <1>4 DEF Types, DeadLetterTypeOK
<1>12. OutcomesTrue'
  BY <1>2, <1>3, <1>7, <1>8, OutcomesStay
<1>13. ProcessedSettled' /\ ToldKept'
  <2>1. processed \subseteq Events /\ told \subseteq Events
    BY DEF Types, DeadLetterTypeOK
  <2>2. QED
    BY <2>1, <1>2, <1>8 DEF ProcessedSettled, ToldKept, Overtaken
<1>14. LettersCounted' /\ ResolvedSettled'
  BY <1>2, <1>8, <1>9, <1>10 DEF LettersCounted, ResolvedSettled
<1>15. QED
  BY <1>11, <1>12, <1>13, <1>14

\* The upsert counts the row it holds, or leaves a slip.
LEMMA EnqueueStep ==
    ASSUME DeadLetterIInv, NEW h \in Handlers, Enqueue(h)
    PROVE  DeadLetterIInv'
<1> USE DEF DeadLetterIInv
<1> DEFINE s == [handler[h] EXCEPT !.pc = "queue"]
<1>1. handler[h] \in Queueing /\ handler[h] \in HandlerState /\ handler[h].pc = "enqueue"
  BY HandlerKinds DEF Enqueue, Types
<1> PICK e \in Events : e = handler[h].event
  BY <1>1 DEF Queueing
<1>2. /\ Serve(h, s)
      /\ \/ pendingSet' = pendingSet \cup {e} /\ UNCHANGED slips
         \/ UNCHANGED pendingSet /\ slips' = [slips EXCEPT ![e] = @ \cup {"uncounted"}]
      /\ UNCHANGED <<delivered, told, nature, outdated, applied, processed, letter>>
  BY DEF Enqueue, CountLetter, Slip
<1>3. s \in HandlerState /\ s.op = "webhook" /\ s.pc = "queue" /\ s.event = e
  BY <1>1 DEF HandlerState, Queueing
<1> HIDE DEF s
<1>4. /\ handler' \in [Handlers -> HandlerState]
      /\ handler'[h] = s
      /\ \A g \in Handlers \ {h} : handler'[g] = handler[g]
  BY <1>2, <1>3, Served
<1>5. \A d \in Events : ~EarlyOf(handler[h], d) /\ ~ResolvingOf(handler[h], d)
  BY <1>1, ClaimsNothing
<1>6. /\ slips' \in [Events -> SUBSET {"uncounted", "markedEarly"}]
      /\ \A d \in Events : slips[d] \subseteq slips'[d]
      /\ pendingSet \subseteq pendingSet' /\ pendingSet' \subseteq Events
      /\ e \in pendingSet' \/ "uncounted" \in slips'[e]
  BY <1>2 DEF Types, DeadLetterTypeOK
<1>7. \A d \in Events : Settled(d) => Settled(d)'
  BY <1>2, <1>4, <1>5, <1>6, SettledStays
<1>8. \A d \in Events : Counted(d) => Counted(d)'
  BY <1>4, <1>5, <1>6, CountedStays
<1>9. Counted(e)'
  BY <1>6, PartsPrimed
<1>10. \A d \in Events : RowHeld(d)' => RowHeld(d) \/ d = e
  BY <1>3, <1>4, PartsPrimed, Parts DEF HoldsRow
<1>11. Types'
  BY <1>2, <1>4, <1>6 DEF Types, DeadLetterTypeOK
<1>12. OutcomesTrue'
  <2>1. handler'[h] \notin Committing
    BY <1>3, <1>4, ClaimsNothing
  <2>2. QED
    BY <2>1, <1>2, <1>4, <1>7, OutcomesStay
<1>13. ProcessedSettled' /\ ToldKept'
  <2>1. processed \subseteq Events /\ told \subseteq Events
    BY DEF Types, DeadLetterTypeOK
  <2>2. QED
    BY <2>1, <1>2, <1>7 DEF ProcessedSettled, ToldKept, Overtaken
<1>14. LettersCounted' /\ ResolvedSettled'
  BY <1>2, <1>7, <1>8, <1>9, <1>10 DEF LettersCounted, ResolvedSettled
<1>15. QED
  BY <1>11, <1>12, <1>13, <1>14

\* Its commit leaves the row waiting, and counted as it was while the upsert held it.
LEMMA CommitEnqueueStep ==
    ASSUME DeadLetterIInv, NEW h \in Handlers, CommitEnqueue(h)
    PROVE  DeadLetterIInv'
<1> USE DEF DeadLetterIInv
<1>1. handler[h] \in Queueing /\ handler[h] \in HandlerState
      /\ handler[h].op = "webhook" /\ handler[h].pc = "queue"
  BY HandlerKinds DEF CommitEnqueue, Types
<1> PICK e \in Events : e = handler[h].event
  BY <1>1 DEF Queueing
<1> DEFINE row == [st |-> "pending", attempts |-> letter[e].attempts + 1]
<1>2. /\ letter' = [letter EXCEPT ![e] = row]
      /\ told' \subseteq told \cup {e}
      /\ Serve(h, NoHandler)
      /\ UNCHANGED <<delivered, nature, outdated, applied, processed, pendingSet, slips>>
  BY DEF CommitEnqueue
<1>3. row \in Letter /\ row.st = "pending"
  BY DEF Types, DeadLetterTypeOK, Letter
<1> HIDE DEF row
<1>4. /\ handler' \in [Handlers -> HandlerState]
      /\ handler'[h] = NoHandler
      /\ \A g \in Handlers \ {h} : handler'[g] = handler[g]
  BY <1>2, IdleState, Served
<1>5. \A d \in Events : ~EarlyOf(handler[h], d) /\ ~ResolvingOf(handler[h], d)
  BY <1>1, ClaimsNothing
<1>6. /\ letter' \in [Events -> Letter]
      /\ \A d \in Events : letter'[d].st = IF d = e THEN "pending" ELSE letter[d].st
  BY <1>2, <1>3 DEF Types, DeadLetterTypeOK
<1>7. \A d \in Events : Settled(d) => Settled(d)'
  BY <1>2, <1>4, <1>5, SettledStays
<1>8. \A d \in Events : Counted(d) => Counted(d)'
  BY <1>2, <1>4, <1>5, CountedStays
<1>9. RowHeld(e)
  BY <1>1 DEF RowHeld
<1>10. \A d \in Events : RowHeld(d)' => RowHeld(d)
  BY <1>4, IdleState, PartsPrimed, Parts DEF HoldsRow
<1>11. Types'
  BY <1>2, <1>4, <1>6 DEF Types, DeadLetterTypeOK
<1>12. OutcomesTrue'
  <2>1. handler'[h] \notin Committing
    BY <1>4, IdleState, ClaimsNothing
  <2>2. QED
    BY <2>1, <1>2, <1>4, <1>7, OutcomesStay
<1>13. ProcessedSettled' /\ ToldKept'
  <2>1. processed \subseteq Events /\ told \subseteq Events
    BY DEF Types, DeadLetterTypeOK
  <2>2. QED
    BY <2>1, <1>2, <1>6, <1>7 DEF ProcessedSettled, ToldKept, Overtaken
<1>14. LettersCounted' /\ ResolvedSettled'
  BY <1>6, <1>7, <1>8, <1>9, <1>10 DEF LettersCounted, ResolvedSettled
<1>15. QED
  BY <1>11, <1>12, <1>13, <1>14

-----------------------------------------------------------------------------
LEMMA NextStep == DeadLetterIInv /\ [DeadLetterNext]_deadLetterVars => DeadLetterIInv'
<1> SUFFICES ASSUME DeadLetterIInv, [DeadLetterNext]_deadLetterVars PROVE DeadLetterIInv'
  OBVIOUS
<1>1. CASE UNCHANGED deadLetterVars
  <2>1. \A e \in Events : /\ Settled(e)' <=> Settled(e)
                          /\ Counted(e)' <=> Counted(e)
                          /\ RowHeld(e)' <=> RowHeld(e)
    BY <1>1, Parts, PartsPrimed DEF deadLetterVars
  <2>2. Types'
    BY <1>1 DEF DeadLetterIInv, Types, DeadLetterTypeOK, deadLetterVars
  <2>3. OutcomesTrue'
    BY <1>1, <2>1 DEF DeadLetterIInv, OutcomesTrue, Knows, Overtaken, Committing, Ops, deadLetterVars
  <2>4. ProcessedSettled' /\ ToldKept'
    <3>1. processed \subseteq Events /\ told \subseteq Events
      BY DEF DeadLetterIInv, Types, DeadLetterTypeOK
    <3>2. QED
      BY <3>1, <2>1, <1>1 DEF DeadLetterIInv, ProcessedSettled, ToldKept, Overtaken, deadLetterVars
  <2>5. LettersCounted' /\ ResolvedSettled'
    BY <1>1, <2>1 DEF DeadLetterIInv, LettersCounted, ResolvedSettled, deadLetterVars
  <2>6. QED
    BY <2>2, <2>3, <2>4, <2>5 DEF DeadLetterIInv
<1>2. CASE \E e \in Events : NewerApplied(e)
  BY <1>2, NewerStep
<1>3. ASSUME NEW h \in Handlers,
             \/ \E e \in Events : DeliverEvent(h, e) \/ RetryLetter(h, e)
             \/ ApplyAttempt(h) \/ ApplyErrs(h) \/ MarkEarly(h)
             \/ CommitApply(h) \/ CommitApplyFails(h)
             \/ Enqueue(h) \/ CommitEnqueue(h) \/ EnqueueFails(h)
      PROVE  DeadLetterIInv'
  <2>1. CASE \E e \in Events : DeliverEvent(h, e) \/ RetryLetter(h, e)
    BY <2>1, DeliverStep, RetryStep
  <2>2. CASE ApplyAttempt(h) \/ ApplyErrs(h) \/ MarkEarly(h)
    BY <2>2, ApplyAttemptStep, ApplyErrsStep, MarkEarlyStep
  <2>3. CASE CommitApply(h) \/ CommitApplyFails(h)
    BY <2>3, CommitApplyStep, CommitApplyFailsStep
  <2>4. CASE Enqueue(h) \/ CommitEnqueue(h) \/ EnqueueFails(h)
    BY <2>4, EnqueueStep, CommitEnqueueStep, EnqueueFailsStep
  <2>5. QED
    BY <1>3, <2>1, <2>2, <2>3, <2>4
<1>4. QED
  BY <1>1, <1>2, <1>3 DEF DeadLetterNext

(***************************************************************************)
(* The invariant the next theorem rests on: a request knows what its       *)
(* commit will claim (apply_webhook_event's result), whatever other        *)
(* requests do before it commits.                                          *)
(***************************************************************************)
THEOREM DeadLetterInvariance == DeadLetterSpec => []DeadLetterIInv
BY IInvInit, NextStep, PTL DEF DeadLetterSpec

(***************************************************************************)
(* No verified event is lost in silence (services/dead_letter.py, the      *)
(* webhook and retry handlers), for any number of events, deliveries,      *)
(* retries and faults, in any order.                                       *)
(***************************************************************************)
THEOREM NothingLost == DeadLetterSpec => []NoSilentLoss
<1>1. DeadLetterIInv => NoSilentLoss
  <2> SUFFICES ASSUME DeadLetterIInv PROVE NoSilentLoss
    OBVIOUS
  <2>1. \A e \in told : \/ e \in applied \/ (nature[e] = "dated" /\ e \in outdated)
                        \/ letter[e].st = "pending" \/ TakenForApplied(e)
    BY DEF DeadLetterIInv, ToldKept, Settled, Overtaken
  <2>2. \A e \in Events : letter[e].st = "pending" => Counted(e)
    BY DEF DeadLetterIInv, LettersCounted
  <2>3. \A e \in Events : letter[e].st = "resolved" => e \in applied \/ TakenForApplied(e)
    BY DEF DeadLetterIInv, ResolvedSettled, Settled
  <2>4. QED
    BY <2>1, <2>2, <2>3 DEF NoSilentLoss
<1>2. QED
  BY DeadLetterInvariance, <1>1, PTL

\* Letters, marks, events and deliveries keep their types.
THEOREM DeadLetterTypeCorrect == DeadLetterSpec => []DeadLetterTypeOK
<1>1. DeadLetterIInv => DeadLetterTypeOK
  BY DEF DeadLetterIInv, Types
<1>2. QED
  BY <1>1, DeadLetterInvariance, PTL

-----------------------------------------------------------------------------
(***************************************************************************)
(* Review.  A finding nobody changed behind a request's back has a history *)
(* without gaps, because a request that finds the row it had read appends  *)
(* exactly the change it makes, and writes the name it logs; and a comment outlives its finding only    *)
(* where the worker no longer looks for it.                                *)
(***************************************************************************)

Changes == [from : Statuses, to : Statuses, by : Reviewers \cup {Nobody}]

\* What a request has read, and what the log may hold.
ReviewTypes ==
    /\ finding \in [Places -> Finding]
    /\ history \in [Places -> Seq(Changes)]
    /\ \A q \in ReviewRequests :
         review[q].op = "review" =>
            /\ review[q].user \in Reviewers /\ review[q].target \in Statuses
            /\ DOMAIN review[q].read \subseteq Places
            /\ \A p \in DOMAIN review[q].read : review[q].read[p] \in Finding
    /\ \A q \in ReviewRequests : review[q].op = "comment" => review[q].place \in Places /\ review[q].row \in Nat
    /\ review = [q \in ReviewRequests |-> review[q]]
    /\ comments \subseteq [place : Places, row : Nat]

\* The log of one finding, from its beginning as a pending one.
Log(h) == <<[from |-> "pending", to |-> "pending", by |-> Nobody]>> \o h
Unbroken(h) == \A i \in 2 .. Len(Log(h)) : Log(h)[i].from = Log(h)[i - 1].to
EndsIn(h, status) == Log(h)[Len(Log(h))].to = status
LastBy(h) == Log(h)[Len(Log(h))].by

\* Who is named is decided by the status and the log.
Named(f, h) == f.by = IF f.st = "pending" THEN Nobody ELSE LastBy(h)

Accounted == \A p \in Places \ mixed :
    Unbroken(history[p]) /\ EndsIn(history[p], finding[p].st) /\ Named(finding[p], history[p])

ReviewIInv == ReviewTypes /\ Accounted /\ NoOrphanComment

-----------------------------------------------------------------------------
LEMMA LogOf ==
    ASSUME NEW h \in Seq(Changes)
    PROVE  /\ Len(Log(h)) = 1 + Len(h) /\ Len(h) \in Nat
           /\ Log(h)[1] = [from |-> "pending", to |-> "pending", by |-> Nobody]
           /\ \A i \in 2 .. 1 + Len(h) : Log(h)[i] = h[i - 1]
<1> DEFINE x == [from |-> "pending", to |-> "pending", by |-> Nobody]
<1>1. x \in Changes
  BY DEF Changes, Statuses
<1> HIDE DEF x
<1>2. <<x>> \in Seq(Changes) /\ Len(<<x>>) = 1 /\ <<x>>[1] = x /\ Len(h) \in Nat
  BY <1>1
<1>3. Len(<<x>> \o h) = 1 + Len(h)
  BY <1>2, ConcatProperties
<1>4. \A i \in 1 .. 1 + Len(h) : (<<x>> \o h)[i] = IF i <= 1 THEN <<x>>[i] ELSE h[i - 1]
  BY <1>2, ConcatProperties
<1>5. Log(h) = <<x>> \o h
  BY DEF Log, x
<1>6. Len(Log(h)) = 1 + Len(h) /\ Log(h)[1] = x /\ \A i \in 2 .. 1 + Len(h) : Log(h)[i] = h[i - 1]
  BY <1>2, <1>3, <1>4, <1>5
<1>7. QED
  BY <1>2, <1>6 DEF x

LEMMA LogSteps ==
    ASSUME NEW h \in Seq(Changes), NEW e \in Changes
    PROVE  /\ Len(Log(h)) \in Nat \ {0} /\ Len(Log(Append(h, e))) = Len(Log(h)) + 1
           /\ \A i \in 1 .. Len(Log(h)) : Log(Append(h, e))[i] = Log(h)[i]
           /\ Log(Append(h, e))[Len(Log(h)) + 1] = e
<1>1. /\ Append(h, e) \in Seq(Changes) /\ Len(h) \in Nat
      /\ Len(Append(h, e)) = Len(h) + 1
      /\ \A i \in 1 .. Len(h) : Append(h, e)[i] = h[i]
      /\ Append(h, e)[Len(h) + 1] = e
  OBVIOUS
<1>6. PICK g : g = Append(h, e)
  OBVIOUS
<1>7. /\ Len(Log(h)) = 1 + Len(h) /\ Log(h)[1] = [from |-> "pending", to |-> "pending", by |-> Nobody]
      /\ \A i \in 2 .. 1 + Len(h) : Log(h)[i] = h[i - 1]
  BY LogOf
<1>8. g \in Seq(Changes)
  BY <1>1, <1>6
<1>9. /\ Len(Log(g)) = 1 + Len(g) /\ Log(g)[1] = [from |-> "pending", to |-> "pending", by |-> Nobody]
      /\ \A i \in 2 .. 1 + Len(g) : Log(g)[i] = g[i - 1]
  BY <1>8, LogOf
<1>2. Len(Log(h)) = 1 + Len(h) /\ Len(Log(Append(h, e))) = 2 + Len(h)
  BY <1>1, <1>6, <1>7, <1>9
<1>3. ASSUME NEW i \in 1 .. Len(Log(h)) PROVE Log(Append(h, e))[i] = Log(h)[i]
  <2>1. CASE i = 1
    BY <2>1, <1>6, <1>7, <1>9
  <2>2. CASE i # 1
    <3>1. i \in 2 .. 1 + Len(h) /\ i \in 2 .. 1 + Len(Append(h, e)) /\ i - 1 \in 1 .. Len(h)
      BY <2>2, <1>1, <1>2
    <3>2. QED
      BY <3>1, <1>1, <1>6, <1>7, <1>9
  <2>3. QED
    BY <2>1, <2>2
<1>4. Log(Append(h, e))[Len(Log(h)) + 1] = e
  <2>1. Len(h) + 2 \in 2 .. 1 + Len(Append(h, e))
    BY <1>1
  <2>2. Log(Append(h, e))[Len(h) + 2] = Append(h, e)[Len(h) + 2 - 1]
    BY <1>6, <1>9, <2>1
  <2>3. QED
    BY <2>2, <1>1, <1>2
<1>5. QED
  BY <1>1, <1>2, <1>3, <1>4

LEMMA LogGrows ==
    ASSUME NEW h \in Seq(Changes), NEW e \in Changes, Unbroken(h), EndsIn(h, e.from)
    PROVE  Unbroken(Append(h, e)) /\ EndsIn(Append(h, e), e.to) /\ LastBy(Append(h, e)) = e.by
<1> DEFINE n == Len(Log(h))
<1>1. /\ n \in Nat \ {0} /\ Len(Log(Append(h, e))) = n + 1
      /\ \A i \in 1 .. n : Log(Append(h, e))[i] = Log(h)[i]
      /\ Log(Append(h, e))[n + 1] = e
  BY LogSteps
<1>2. \A i \in 2 .. n : Log(h)[i].from = Log(h)[i - 1].to
  BY DEF Unbroken
<1>3. Log(h)[n].to = e.from
  BY DEF EndsIn
<1> HIDE DEF n
<1>4. ASSUME NEW i \in 2 .. n + 1 PROVE Log(Append(h, e))[i].from = Log(Append(h, e))[i - 1].to
  <2>1. CASE i = n + 1
    BY <2>1, <1>1, <1>3
  <2>2. CASE i # n + 1
    <3>1. i \in 2 .. n /\ i \in 1 .. n /\ i - 1 \in 1 .. n
      BY <2>2, <1>1
    <3>2. QED
      BY <3>1, <1>1, <1>2
  <2>3. QED
    BY <2>1, <2>2
<1>5. QED
  BY <1>1, <1>4 DEF Unbroken, EndsIn, LastBy

LEMMA LogBegins == Unbroken(<<>>) /\ EndsIn(<<>>, "pending")
<1>1. <<>> \in Seq(Changes) /\ Len(<<>>) = 0
  OBVIOUS
<1>2. PICK h \in Seq(Changes) : h = <<>>
  BY <1>1
<1>3. Len(Log(h)) = 1 + Len(h) /\ Log(h)[1] = [from |-> "pending", to |-> "pending", by |-> Nobody]
  BY LogOf
<1>4. Len(Log(h)) = 1 /\ Log(h)[1].to = "pending"
  BY <1>1, <1>2, <1>3
<1>5. Unbroken(h) /\ EndsIn(h, "pending")
  BY <1>4 DEF Unbroken, EndsIn
<1>6. QED
  BY <1>2, <1>5

\* When an account is deleted the log loses the name, and nothing else.
Forgotten(g, h, u) == Len(g) = Len(h) /\ \A i \in 1 .. Len(h) : g[i] = Anonymous(h[i], u)

LEMMA Forgets ==
    ASSUME NEW h \in Seq(Changes), NEW u
    PROVE  LET g == [i \in DOMAIN h |-> Anonymous(h[i], u)] IN
           g \in Seq(Changes) /\ Forgotten(g, h, u)
<1> DEFINE n == Len(h)
           g == [i \in DOMAIN h |-> Anonymous(h[i], u)]
<1>1. n \in Nat /\ DOMAIN h = 1 .. n /\ \A i \in 1 .. n : h[i] \in Changes
  OBVIOUS
<1>2. \A e \in Changes : Anonymous(e, u) \in Changes
  BY DEF Anonymous, Changes
<1>3. \A i \in 1 .. n : g[i] = Anonymous(h[i], u) /\ g[i] \in Changes
  BY <1>1, <1>2
<1>4. g \in Seq(Changes) /\ Len(g) = n
  BY <1>1, <1>3
<1>5. QED
  BY <1>3, <1>4 DEF Forgotten

LEMMA LogForgets ==
    ASSUME NEW h \in Seq(Changes), NEW u, NEW g \in Seq(Changes), Forgotten(g, h, u)
    PROVE  /\ Unbroken(h) => Unbroken(g)
           /\ \A status : EndsIn(h, status) => EndsIn(g, status)
           /\ LastBy(g) = IF LastBy(h) = u THEN Nobody ELSE LastBy(h)
<1> DEFINE n == Len(h)
<1>1. n \in Nat /\ DOMAIN h = 1 .. n /\ \A i \in 1 .. n : h[i] \in Changes
  OBVIOUS
<1>2. ASSUME NEW e \in Changes
      PROVE  /\ Anonymous(e, u) \in Changes /\ Anonymous(e, u).from = e.from /\ Anonymous(e, u).to = e.to
             /\ Anonymous(e, u).by = IF e.by = u THEN Nobody ELSE e.by
  BY DEF Anonymous, Changes
<1>3. \A i \in 1 .. n : g[i] = Anonymous(h[i], u) /\ g[i] \in Changes
  BY <1>1, <1>2 DEF Forgotten
<1>4. g \in Seq(Changes) /\ Len(g) = n
  BY DEF Forgotten
<1> HIDE DEF n
<1>5. /\ Len(Log(h)) = 1 + n /\ Len(Log(g)) = 1 + n /\ Log(h)[1] = Log(g)[1]
      /\ Log(h)[1].by = Nobody
      /\ \A i \in 2 .. 1 + n : Log(h)[i] = h[i - 1] /\ Log(g)[i] = g[i - 1]
  <2>1. /\ Len(Log(h)) = 1 + Len(h) /\ Log(h)[1] = [from |-> "pending", to |-> "pending", by |-> Nobody]
        /\ \A i \in 2 .. 1 + Len(h) : Log(h)[i] = h[i - 1]
    BY LogOf
  <2>2. g \in Seq(Changes)
    BY <1>4
  <2>3. /\ Len(Log(g)) = 1 + Len(g) /\ Log(g)[1] = [from |-> "pending", to |-> "pending", by |-> Nobody]
        /\ \A i \in 2 .. 1 + Len(g) : Log(g)[i] = g[i - 1]
    BY <2>2, LogOf
  <2>4. QED
    BY <1>4, <2>1, <2>3 DEF n
<1>6. \A i \in 1 .. 1 + n : /\ Log(g)[i].from = Log(h)[i].from /\ Log(g)[i].to = Log(h)[i].to
                            /\ Log(g)[i].by = IF Log(h)[i].by = u THEN Nobody ELSE Log(h)[i].by
  <2> TAKE i \in 1 .. 1 + n
  <2>1. CASE i = 1
    BY <2>1, <1>5
  <2>2. CASE i # 1
    <3>1. i \in 2 .. 1 + n /\ i - 1 \in 1 .. n
      BY <2>2, <1>1
    <3>2. h[i - 1] \in Changes /\ g[i - 1] = Anonymous(h[i - 1], u)
      BY <3>1, <1>1, <1>3
    <3>3. Log(h)[i] = h[i - 1] /\ Log(g)[i] = Anonymous(h[i - 1], u)
      BY <3>1, <3>2, <1>5
    <3>4. QED
      BY <3>2, <3>3, <1>2
  <2>3. QED
    BY <2>1, <2>2
<1>7. Unbroken(h) => Unbroken(g)
  <2> SUFFICES ASSUME Unbroken(h), NEW i \in 2 .. 1 + n
               PROVE  Log(g)[i].from = Log(g)[i - 1].to
    BY <1>5 DEF Unbroken
  <2>1. i \in 1 .. 1 + n /\ i - 1 \in 1 .. 1 + n
    BY <1>1
  <2>2. Log(h)[i].from = Log(h)[i - 1].to
    BY <1>5 DEF Unbroken
  <2>3. QED
    BY <2>1, <2>2, <1>6
<1>8. 1 + n \in 1 .. 1 + n
  BY <1>1
<1>9. QED
  BY <1>4, <1>5, <1>6, <1>7, <1>8 DEF EndsIn, LastBy, n

-----------------------------------------------------------------------------
LEMMA FindingFields ==
    ASSUME NEW f \in Finding
    PROVE  f.row \in Nat /\ f.st \in Statuses /\ f.by \in Reviewers \cup {Nobody} /\ f.grounded \in BOOLEAN
BY DEF Finding

LEMMA NoFindingFresh == NoFinding \in Finding /\ NoFinding.st = "pending" /\ NoFinding.by = Nobody /\ NoFinding.row = 0
BY DEF NoFinding, Finding, Statuses, Nobody

LEMMA InitReview == ReviewInit => ReviewIInv
<1> SUFFICES ASSUME ReviewInit PROVE ReviewIInv
  OBVIOUS
<1>1. /\ \A p \in Places : finding[p] = NoFinding /\ history[p] = <<>>
      /\ comments = {} /\ \A q \in ReviewRequests : review[q].op = "none"
  BY DEF ReviewInit, Reading
<1>2. ReviewTypes
  BY <1>1, NoFindingFresh DEF ReviewInit, ReviewTypes, Changes
<1>3. Accounted
  BY <1>1, LogBegins, NoFindingFresh DEF Accounted, Named
<1>4. NoOrphanComment
  BY <1>1 DEF NoOrphanComment
<1>5. QED
  BY <1>2, <1>3, <1>4 DEF ReviewIInv

\* Reading changes no row.
LEMMA ReadReview ==
    ASSUME ReviewIInv, ReviewTypes', UNCHANGED <<finding, history, comments, mixed, strays>>
    PROVE  ReviewIInv'
BY DEF ReviewIInv, Accounted, NoOrphanComment

LEMMA BeginReview ==
    ASSUME ReviewIInv, NEW q \in ReviewRequests, NEW u \in Reviewers, NEW target \in Statuses,
           NEW ps \in SUBSET Places,
           review' = [review EXCEPT ![q] = [op |-> "review", user |-> u, target |-> target,
                                            read |-> [x \in ps |-> finding[x]]]],
           UNCHANGED <<finding, history, comments, mixed, strays>>
    PROVE  ReviewIInv'
<1> DEFINE r == [op |-> "review", user |-> u, target |-> target, read |-> [x \in ps |-> finding[x]]]
<1>1. r.op = "review" /\ r.user = u /\ r.target = target /\ DOMAIN r.read = ps
      /\ \A p \in ps : r.read[p] = finding[p]
  OBVIOUS
<1>2. review' = [review EXCEPT ![q] = r]
  OBVIOUS
<1> HIDE DEF r
<1>3. review'[q] = r /\ \A o \in ReviewRequests \ {q} : review'[o] = review[o]
  BY <1>2 DEF ReviewIInv, ReviewTypes
<1>4. review' = [o \in ReviewRequests |-> review'[o]]
  BY <1>2 DEF ReviewIInv, ReviewTypes
<1>5. \A p \in ps : finding[p] \in Finding
  BY DEF ReviewIInv, ReviewTypes
<1>6. ReviewTypes'
  BY <1>1, <1>3, <1>4, <1>5 DEF ReviewIInv, ReviewTypes
<1>7. QED
  BY <1>6, ReadReview

LEMMA BeginCommentReview ==
    ASSUME ReviewIInv, NEW q \in ReviewRequests, NEW p \in Places, BeginComment(q, p)
    PROVE  ReviewIInv'
<1> DEFINE c == [op |-> "comment", place |-> p, row |-> finding[p].row]
<1>1. c.op = "comment" /\ c.place = p /\ c.row = finding[p].row
  OBVIOUS
<1>2. review' = [review EXCEPT ![q] = c] /\ UNCHANGED <<finding, history, comments, mixed, strays>>
  BY DEF BeginComment
<1> HIDE DEF c
<1>3. review'[q] = c /\ (\A o \in ReviewRequests \ {q} : review'[o] = review[o])
      /\ review' = [o \in ReviewRequests |-> review'[o]]
  BY <1>2 DEF ReviewIInv, ReviewTypes
<1>4. finding[p].row \in Nat
  BY FindingFields DEF ReviewIInv, ReviewTypes
<1>5. ReviewTypes'
  BY <1>1, <1>2, <1>3, <1>4 DEF ReviewIInv, ReviewTypes
<1>6. QED
  BY <1>2, <1>5, ReadReview

\* The request is done.
LEMMA RequestDone ==
    ASSUME ReviewTypes, NEW q \in ReviewRequests, review' = [review EXCEPT ![q] = Reading]
    PROVE  /\ review'[q].op = "none"
           /\ \A o \in ReviewRequests \ {q} : review'[o] = review[o]
           /\ review' = [o \in ReviewRequests |-> review'[o]]
BY DEF ReviewTypes, Reading

\* What a request writes over the row it had read.
LEMMA WrittenRow ==
    ASSUME ReviewAssumption, NEW q, NEW p, finding[p] \in Finding, review[q].read[p] \in Finding,
           review[q].user \in Reviewers, review[q].target \in Statuses
    PROVE  /\ Written(q, p) \in Finding /\ Written(q, p).row = finding[p].row
           /\ finding[p] = review[q].read[p] =>
                 Written(q, p).st = review[q].target /\ Written(q, p).by = ReviewerOf(q)
<1> DEFINE st == IF review[q].target # review[q].read[p].st THEN review[q].target ELSE finding[p].st
           by == IF ReviewerOf(q) # review[q].read[p].by THEN ReviewerOf(q) ELSE finding[p].by
<1>1. ReviewerOf(q) \in Reviewers \cup {Nobody}
  BY DEF ReviewerOf
<1>2. st \in Statuses /\ by \in Reviewers \cup {Nobody}
  BY <1>1, FindingFields
<1>3. Written(q, p) = [finding[p] EXCEPT !.st = st, !.by = by]
  BY DEF Written, Finding
<1>4. finding[p] = review[q].read[p] => st = review[q].target /\ by = ReviewerOf(q)
  OBVIOUS
<1> HIDE DEF st, by
<1>5. /\ Written(q, p) \in Finding /\ Written(q, p).row = finding[p].row
      /\ Written(q, p).st = st /\ Written(q, p).by = by
  BY <1>2, <1>3 DEF Finding
<1>6. QED
  BY <1>4, <1>5

LEMMA CommitReviewReview ==
    ASSUME ReviewAssumption, ReviewIInv, NEW q \in ReviewRequests, CommitReview(q)
    PROVE  ReviewIInv'
<1> DEFINE r == review[q]
           ps == DOMAIN r.read
<1>1. /\ r.op = "review" /\ review' = [review EXCEPT ![q] = Reading]
      /\ UNCHANGED <<comments, extraction, strays>>
  BY DEF CommitReview
<1>2. /\ review'[q].op = "none" /\ \A o \in ReviewRequests \ {q} : review'[o] = review[o]
      /\ review' = [o \in ReviewRequests |-> review'[o]]
  BY <1>1, RequestDone DEF ReviewIInv
<1>3. /\ r.user \in Reviewers /\ r.target \in Statuses
      /\ ps \subseteq Places /\ \A p \in ps : r.read[p] \in Finding
  BY <1>1 DEF ReviewIInv, ReviewTypes
<1>4. CASE UNCHANGED <<finding, history, mixed>>
  <2>1. ReviewTypes'
    BY <1>1, <1>2, <1>4 DEF ReviewIInv, ReviewTypes
  <2>2. QED
    BY <1>1, <1>4, <2>1, ReadReview
<1>5. CASE /\ finding' = [p \in Places |-> IF p \in ps THEN Written(q, p) ELSE finding[p]]
           /\ history' = [p \in Places |-> IF p \in ps
                              THEN Append(history[p], [from |-> r.read[p].st, to |-> r.target, by |-> r.user])
                              ELSE history[p]]
           /\ mixed' = mixed \cup {p \in ps : finding[p] # r.read[p]}
  <2>1. ASSUME NEW p \in Places
        PROVE  finding[p] \in Finding /\ history[p] \in Seq(Changes)
    BY DEF ReviewIInv, ReviewTypes
  <2>2. ASSUME NEW p \in ps
        PROVE  /\ p \in Places /\ finding'[p] = Written(q, p)
               /\ finding'[p] \in Finding /\ finding'[p].row = finding[p].row
               /\ finding[p] = r.read[p] => finding'[p].st = r.target /\ finding'[p].by = ReviewerOf(q)
    <3>1. p \in Places /\ finding'[p] = Written(q, p)
      BY <1>3, <1>5
    <3>2. QED
      BY <1>3, <2>1, <3>1, WrittenRow
  <2>3. ASSUME NEW p \in ps
        PROVE  \E e \in Changes : /\ history'[p] = Append(history[p], e)
                                  /\ e.from = r.read[p].st /\ e.to = r.target /\ e.by = r.user
    <3> DEFINE e == [from |-> r.read[p].st, to |-> r.target, by |-> r.user]
    <3>1. e \in Changes
      BY <1>3, FindingFields DEF Changes
    <3>2. history'[p] = Append(history[p], e)
      BY <1>3, <1>5
    <3>3. QED
      BY <3>1, <3>2
  <2>4. \A p \in Places \ ps : finding'[p] = finding[p] /\ history'[p] = history[p]
    BY <1>5
  <2>5. ReviewTypes'
    <3>1. finding' \in [Places -> Finding]
      BY <1>5, <2>1, <2>2, <2>4
    <3>2. history' \in [Places -> Seq(Changes)]
      <4>1. ASSUME NEW p \in Places PROVE history'[p] \in Seq(Changes)
        <5>1. CASE p \in ps
          <6>1. PICK e \in Changes : history'[p] = Append(history[p], e)
            BY <5>1, <2>3
          <6>2. QED
            BY <6>1, <2>1
        <5>2. CASE p \notin ps
          BY <5>2, <2>1, <2>4
        <5>3. QED
          BY <5>1, <5>2
      <4>2. QED
        BY <1>5, <4>1
    <3>3. QED
      BY <3>1, <3>2, <1>1, <1>2 DEF ReviewIInv, ReviewTypes
  <2>6. Accounted'
    <3> SUFFICES ASSUME NEW p \in Places, p \notin mixed'
                 PROVE  /\ Unbroken(history'[p]) /\ EndsIn(history'[p], finding'[p].st)
                        /\ Named(finding'[p], history'[p])
      BY DEF Accounted, Unbroken, EndsIn, LastBy, Named, Log
    <3>1. p \notin mixed /\ Unbroken(history[p]) /\ EndsIn(history[p], finding[p].st) /\ Named(finding[p], history[p])
      BY <1>5 DEF ReviewIInv, Accounted
    <3>2. CASE p \in ps
      <4>1. finding[p] = r.read[p]
        BY <3>2, <1>5
      <4>2. PICK e \in Changes : /\ history'[p] = Append(history[p], e)
                                 /\ e.from = r.read[p].st /\ e.to = r.target /\ e.by = r.user
        BY <3>2, <2>3
      <4>3. Unbroken(history'[p]) /\ EndsIn(history'[p], r.target) /\ LastBy(history'[p]) = r.user
        BY <2>1, <3>1, <4>1, <4>2, LogGrows
      <4>4. Named(finding'[p], history'[p])
        BY <2>2, <3>2, <4>1, <4>3 DEF Named, ReviewerOf
      <4>5. QED
        BY <2>2, <3>2, <4>1, <4>3, <4>4
    <3>3. CASE p \notin ps
      BY <3>1, <3>3, <2>4
    <3>4. QED
      BY <3>2, <3>3
  <2>7. NoOrphanComment'
    <3>1. \A p \in Places : finding'[p].row = finding[p].row
      BY <2>2, <2>4
    <3>2. \A c \in comments : c.place \in Places
      BY DEF ReviewIInv, ReviewTypes
    <3>3. QED
      BY <1>1, <3>1, <3>2 DEF ReviewIInv, NoOrphanComment
  <2>8. QED
    BY <2>5, <2>6, <2>7 DEF ReviewIInv
<1>6. QED
  BY <1>4, <1>5 DEF CommitReview

LEMMA CommitCommentReview ==
    ASSUME ReviewIInv, NEW q \in ReviewRequests, CommitComment(q)
    PROVE  ReviewIInv'
<1> DEFINE c == [place |-> review[q].place, row |-> review[q].row]
<1>1. /\ review[q].op = "comment" /\ comments' = comments \cup {c}
      /\ strays' = IF finding[c.place].row = c.row THEN strays ELSE strays \cup {c}
      /\ review' = [review EXCEPT ![q] = Reading]
      /\ UNCHANGED <<finding, history, extraction, mixed>>
  BY DEF CommitComment
<1>2. c \in [place : Places, row : Nat]
  BY <1>1 DEF ReviewIInv, ReviewTypes
<1>3. /\ review'[q].op = "none" /\ \A o \in ReviewRequests \ {q} : review'[o] = review[o]
      /\ review' = [o \in ReviewRequests |-> review'[o]]
  BY <1>1, RequestDone DEF ReviewIInv
<1> HIDE DEF c
<1>4. ReviewTypes'
  BY <1>1, <1>2, <1>3 DEF ReviewIInv, ReviewTypes
<1>5. Accounted'
  BY <1>1 DEF ReviewIInv, Accounted
<1>6. NoOrphanComment'
  BY <1>1 DEF ReviewIInv, NoOrphanComment
<1>7. QED
  BY <1>4, <1>5, <1>6 DEF ReviewIInv

\* The worker puts other findings in the place of some: they begin without a history.
LEMMA Replaced ==
    ASSUME ReviewIInv, NEW ps \in SUBSET Places, UNCHANGED review,
           finding' \in [Places -> Finding],
           \A p \in Places \ ps : finding'[p] = finding[p],
           \A p \in ps : finding'[p].st = "pending" /\ finding'[p].by = Nobody,
           history' = [p \in Places |-> IF p \in ps THEN <<>> ELSE history[p]],
           mixed \ ps \subseteq mixed',
           comments' \subseteq comments,
           \A c \in comments' : finding[c.place].row = c.row => c.place \notin ps \/ c \in strays',
           strays \subseteq strays'
    PROVE  ReviewIInv'
<1>1. ReviewTypes'
  <2>1. history' \in [Places -> Seq(Changes)]
    BY DEF ReviewIInv, ReviewTypes
  <2>2. comments' \subseteq [place : Places, row : Nat]
    BY DEF ReviewIInv, ReviewTypes
  <2>3. QED
    BY <2>1, <2>2 DEF ReviewIInv, ReviewTypes
<1>2. Accounted'
  <2> SUFFICES ASSUME NEW p \in Places, p \notin mixed'
               PROVE  /\ Unbroken(history'[p]) /\ EndsIn(history'[p], finding'[p].st)
                      /\ Named(finding'[p], history'[p])
    BY DEF Accounted, Unbroken, EndsIn, LastBy, Named, Log
  <2>1. CASE p \in ps
    BY <2>1, LogBegins DEF Named
  <2>2. CASE p \notin ps
    <3>1. finding'[p] = finding[p] /\ history'[p] = history[p] /\ p \notin mixed
      BY <2>2
    <3>2. QED
      BY <3>1 DEF ReviewIInv, Accounted
  <2>3. QED
    BY <2>1, <2>2
<1>3. NoOrphanComment'
  <2> SUFFICES ASSUME NEW c \in comments' PROVE finding'[c.place].row = c.row \/ c \in strays'
    BY DEF NoOrphanComment
  <2>1. c \in comments /\ c.place \in Places
    BY DEF ReviewIInv, ReviewTypes
  <2>2. CASE c \in strays
    BY <2>2
  <2>3. CASE c \notin strays
    <3>1. finding[c.place].row = c.row
      BY <2>1, <2>3 DEF ReviewIInv, NoOrphanComment
    <3>2. QED
      BY <2>1, <3>1
  <2>4. QED
    BY <2>2, <2>3
<1>4. QED
  BY <1>1, <1>2, <1>3 DEF ReviewIInv

\* An account is deleted: rows and logs lose its name together.
LEMMA DeletedReview ==
    ASSUME ReviewAssumption, ReviewIInv, NEW u \in Reviewers, AccountDeleted(u)
    PROVE  ReviewIInv'
<1>1. /\ finding' = [p \in Places |-> Anonymous(finding[p], u)]
      /\ history' = [p \in Places |-> [i \in DOMAIN history[p] |-> Anonymous(history[p][i], u)]]
      /\ UNCHANGED <<comments, review, extraction, mixed, strays>>
  BY DEF AccountDeleted
<1>2. ASSUME NEW p \in Places
      PROVE  /\ finding[p] \in Finding /\ history[p] \in Seq(Changes)
             /\ finding'[p] = Anonymous(finding[p], u)
             /\ history'[p] = [i \in DOMAIN history[p] |-> Anonymous(history[p][i], u)]
  BY <1>1 DEF ReviewIInv, ReviewTypes
<1>3. ASSUME NEW p \in Places
      PROVE  /\ finding'[p] \in Finding /\ finding'[p].row = finding[p].row /\ finding'[p].st = finding[p].st
             /\ finding'[p].by = IF finding[p].by = u THEN Nobody ELSE finding[p].by
  BY <1>2 DEF Anonymous, Finding
<1>4. ASSUME NEW p \in Places
      PROVE  /\ history'[p] \in Seq(Changes)
             /\ Unbroken(history[p]) => Unbroken(history'[p])
             /\ \A status : EndsIn(history[p], status) => EndsIn(history'[p], status)
             /\ LastBy(history'[p]) = IF LastBy(history[p]) = u THEN Nobody ELSE LastBy(history[p])
  <2>1. PICK h \in Seq(Changes) : h = history[p]
    BY <1>2
  <2>2. history'[p] = [i \in DOMAIN h |-> Anonymous(h[i], u)]
    BY <2>1, <1>2
  <2>3. PICK g : g = history'[p]
    OBVIOUS
  <2>4. g \in Seq(Changes) /\ Forgotten(g, h, u)
    BY <2>2, <2>3, Forgets
  <2>5. /\ Unbroken(h) => Unbroken(g)
        /\ \A status : EndsIn(h, status) => EndsIn(g, status)
        /\ LastBy(g) = IF LastBy(h) = u THEN Nobody ELSE LastBy(h)
    BY <2>4, LogForgets
  <2>6. QED
    BY <2>1, <2>3, <2>4, <2>5
<1>5. ReviewTypes'
  <2>1. finding' \in [Places -> Finding] /\ history' \in [Places -> Seq(Changes)]
    BY <1>1, <1>3, <1>4
  <2>2. QED
    BY <1>1, <2>1 DEF ReviewIInv, ReviewTypes
<1>6. Accounted'
  <2> SUFFICES ASSUME NEW p \in Places, p \notin mixed
               PROVE  /\ Unbroken(history'[p]) /\ EndsIn(history'[p], finding'[p].st)
                      /\ Named(finding'[p], history'[p])
    BY <1>1 DEF Accounted, Unbroken, EndsIn, LastBy, Named, Log
  <2>1. Unbroken(history[p]) /\ EndsIn(history[p], finding[p].st) /\ Named(finding[p], history[p])
    BY DEF ReviewIInv, Accounted
  <2>2. QED
    BY <2>1, <1>3, <1>4 DEF Named
<1>7. NoOrphanComment'
  <2>1. \A c \in comments : c.place \in Places
    BY DEF ReviewIInv, ReviewTypes
  <2>2. QED
    BY <1>1, <1>3, <2>1 DEF ReviewIInv, NoOrphanComment
<1>8. QED
  BY <1>5, <1>6, <1>7 DEF ReviewIInv

LEMMA ReparseReview == ASSUME ReviewIInv, Reparse PROVE ReviewIInv'
<1>1. PICK ps \in SUBSET Places : ps = {p \in Places : finding[p].grounded}
  OBVIOUS
<1>2. \A p \in Places : finding[p] \in Finding /\ finding[p].grounded \in BOOLEAN
  BY FindingFields DEF ReviewIInv, ReviewTypes
<1>3. /\ finding' = [p \in Places |-> IF p \in ps THEN NoFinding ELSE finding[p]]
      /\ history' = [p \in Places |-> IF p \in ps THEN <<>> ELSE history[p]]
      /\ strays' = strays \cup {c \in comments : finding[c.place].row = c.row /\ finding[c.place].grounded}
      /\ UNCHANGED <<comments, review, mixed>>
  BY <1>1 DEF Reparse
<1>4. \A c \in comments : c.place \in Places
  BY DEF ReviewIInv, ReviewTypes
<1>5. finding' \in [Places -> Finding]
  BY <1>2, <1>3, NoFindingFresh
<1>6. \A p \in ps : finding'[p].st = "pending" /\ finding'[p].by = Nobody
  BY <1>3, NoFindingFresh
<1>7. QED
  BY <1>1, <1>3, <1>4, <1>5, <1>6, Replaced

LEMMA ReplaceReview ==
    ASSUME ReviewIInv, NEW ps \in SUBSET Places, NEW present, NEW sourced,
           extraction.runs \in Nat, Replace(ps, present, sourced)
    PROVE  ReviewIInv'
<1> DEFINE row(p) == [NoFinding EXCEPT !.row = extraction.runs + 1, !.grounded = p \in sourced]
<1>1. \A p \in Places : row(p) \in Finding /\ row(p).st = "pending" /\ row(p).by = Nobody
  <2> SUFFICES ASSUME NEW p \in Places
               PROVE  row(p) \in Finding /\ row(p).st = "pending" /\ row(p).by = Nobody
    OBVIOUS
  <2>1. \E b \in BOOLEAN : row(p) = [NoFinding EXCEPT !.row = extraction.runs + 1, !.grounded = b]
    <3>1. CASE p \in sourced
      <4>1. (p \in sourced) = TRUE
        BY <3>1
      <4>2. row(p) = [NoFinding EXCEPT !.row = extraction.runs + 1, !.grounded = TRUE]
        BY <4>1
      <4>3. QED
        BY <4>2
    <3>2. CASE p \notin sourced
      <4>1. (p \in sourced) = FALSE
        BY <3>2
      <4>2. row(p) = [NoFinding EXCEPT !.row = extraction.runs + 1, !.grounded = FALSE]
        BY <4>1
      <4>3. QED
        BY <4>2
    <3>3. QED
      BY <3>1, <3>2
  <2>2. PICK b \in BOOLEAN : row(p) = [NoFinding EXCEPT !.row = extraction.runs + 1, !.grounded = b]
    BY <2>1
  <2> HIDE DEF row
  <2>3. "pending" \in Statuses /\ Nobody \in Reviewers \cup {Nobody} /\ extraction.runs + 1 \in Nat
    BY DEF Statuses
  <2>4. row(p) = [row |-> extraction.runs + 1, st |-> "pending", by |-> Nobody, grounded |-> b]
    BY <2>2 DEF NoFinding
  <2>5. QED
    BY <2>3, <2>4 DEF Finding
<1>2. /\ \A p \in Places : finding'[p] = IF p \notin ps THEN finding[p]
                                        ELSE IF p \in present THEN row(p) ELSE NoFinding
      /\ finding' = [p \in Places |-> finding'[p]]
      /\ history' = [p \in Places |-> IF p \in ps THEN <<>> ELSE history[p]]
      /\ comments' = comments \ StaleComments(ps)
      /\ mixed' = mixed \ ps /\ UNCHANGED <<review, strays>>
  BY DEF Replace
<1> HIDE DEF row
<1>3. finding' \in [Places -> Finding]
  <2>1. \A p \in Places : finding[p] \in Finding
    BY DEF ReviewIInv, ReviewTypes
  <2>2. \A p \in Places : finding'[p] \in Finding
    BY <1>1, <1>2, <2>1, NoFindingFresh
  <2>3. QED
    BY <1>2, <2>2
<1>4. \A p \in ps : finding'[p].st = "pending" /\ finding'[p].by = Nobody
  BY <1>1, <1>2, NoFindingFresh
<1>5. \A c \in comments' : finding[c.place].row = c.row => c.place \notin ps
  BY <1>2 DEF StaleComments
<1>6. \A p \in Places \ ps : finding'[p] = finding[p]
  BY <1>2
<1>7. QED
  BY <1>2, <1>3, <1>4, <1>5, <1>6, Replaced

\* The worker counts its runs.
RunsCounted == extraction.runs \in Nat

LEMMA NextReview ==
    ASSUME ReviewAssumption, ReviewIInv, RunsCounted, [ReviewNext]_reviewVars
    PROVE  ReviewIInv' /\ RunsCounted'
<1>1. CASE UNCHANGED reviewVars
  <2>1. ReviewTypes'
    BY <1>1 DEF reviewVars, ReviewIInv, ReviewTypes
  <2>2. QED
    BY <1>1, <2>1, ReadReview DEF reviewVars, RunsCounted
<1>2. CASE Reparse
  BY <1>2, ReparseReview DEF Reparse, RunsCounted
<1>3. CASE ExtractionCrash
  <2>1. ReviewTypes'
    BY <1>3 DEF ExtractionCrash, ReviewIInv, ReviewTypes
  <2>2. QED
    BY <1>3, <2>1, ReadReview DEF ExtractionCrash, RunsCounted
<1>4. ASSUME NEW present \in SUBSET Extracted, NEW sourced \in SUBSET Extracted, WriteFindings(present, sourced)
      PROVE  ReviewIInv' /\ RunsCounted'
  BY <1>4, ReplaceReview DEF WriteFindings, RunsCounted, Places
<1>5. ASSUME NEW present \in SUBSET Assessed, WriteCompliance(present)
      PROVE  ReviewIInv' /\ RunsCounted'
  BY <1>5, ReplaceReview DEF WriteCompliance, RunsCounted, Places
<1>6. ASSUME NEW q \in ReviewRequests, NEW u \in Reviewers, NEW target \in Statuses, NEW p \in Places,
             BeginPatch(q, u, p, target)
      PROVE  ReviewIInv' /\ RunsCounted'
  <2>1. {p} \in SUBSET Places
    OBVIOUS
  <2>2. QED
    BY <1>6, <2>1, BeginReview DEF BeginPatch, RunsCounted
<1>7. ASSUME NEW q \in ReviewRequests, NEW u \in Reviewers, NEW target \in Statuses, NEW ps \in SUBSET Places,
             BeginBulk(q, u, ps, target)
      PROVE  ReviewIInv' /\ RunsCounted'
  <2>1. {p \in ps : Reviewable(p, target)} \in SUBSET Places
    OBVIOUS
  <2>2. QED
    BY <1>7, <2>1, BeginReview DEF BeginBulk, RunsCounted
<1>8. ASSUME NEW q \in ReviewRequests, CommitReview(q) PROVE ReviewIInv' /\ RunsCounted'
  BY <1>8, CommitReviewReview DEF CommitReview, RunsCounted
<1>9. ASSUME NEW q \in ReviewRequests, NEW p \in Places, BeginComment(q, p) PROVE ReviewIInv' /\ RunsCounted'
  BY <1>9, BeginCommentReview DEF BeginComment, RunsCounted
<1>10. ASSUME NEW q \in ReviewRequests, CommitComment(q) PROVE ReviewIInv' /\ RunsCounted'
  BY <1>10, CommitCommentReview DEF CommitComment, RunsCounted
<1>11. ASSUME NEW u \in Reviewers, AccountDeleted(u) PROVE ReviewIInv' /\ RunsCounted'
  BY <1>11, DeletedReview DEF AccountDeleted, RunsCounted
<1>12. QED
  BY <1>1, <1>2, <1>3, <1>4, <1>5, <1>6, <1>7, <1>8, <1>9, <1>10, <1>11 DEF ReviewNext

\* Whatever requests and extractions do to each other, the invariant holds.
THEOREM ReviewInvariance == ReviewSpec => []ReviewIInv
<1>1. ReviewInit => ReviewIInv /\ RunsCounted
  BY InitReview DEF ReviewInit, RunsCounted
<1>2. ReviewIInv /\ RunsCounted /\ [ReviewNext]_reviewVars => ReviewIInv' /\ RunsCounted'
  BY NextReview, ReviewAssumption
<1>3. QED
  BY <1>1, <1>2, PTL DEF ReviewSpec

\* A comment goes with its finding when an extraction replaces it, unless it was being
\* written meanwhile or the finding had gone before.
THEOREM CommentsGo == ReviewSpec => []NoOrphanComment
<1>1. ReviewIInv => NoOrphanComment
  BY DEF ReviewIInv
<1>2. QED
  BY <1>1, ReviewInvariance, PTL

\* Every finding's history leads without a gap from pending to the status it has, and a
\* finding that is not pending names who made the last change, unless two requests
\* changed it at once.
THEOREM HistoryTold == ReviewSpec => []ReviewAccounted
<1>1. ASSUME ReviewIInv PROVE ReviewAccounted
  <2> SUFFICES ASSUME NEW p \in Places \ mixed
               PROVE  /\ \A i \in 2 .. Len(Log(history[p])) :
                             Log(history[p])[i].from = Log(history[p])[i - 1].to
                      /\ Log(history[p])[Len(Log(history[p]))].to = finding[p].st
                      /\ finding[p].by = IF finding[p].st = "pending" THEN Nobody
                                         ELSE Log(history[p])[Len(Log(history[p]))].by
    BY DEF ReviewAccounted, Log
  <2>1. Unbroken(history[p]) /\ EndsIn(history[p], finding[p].st) /\ Named(finding[p], history[p])
    BY <1>1 DEF ReviewIInv, Accounted
  <2>2. QED
    BY <2>1 DEF Unbroken, EndsIn, LastBy, Named
<1>2. QED
  BY <1>1, ReviewInvariance, PTL

\* How far extractions, logged changes, marked places and stray comments may go.
ReviewBounds ==
    /\ extraction \in [pc : {"idle", "extract", "assess"}, runs : 0 .. MaxExtractions]
    /\ extraction.pc # "idle" => extraction.runs < MaxExtractions
    /\ \A p \in Places : Len(history[p]) <= MaxReviews
    /\ mixed \subseteq Places /\ strays \subseteq [place : Places, row : Nat]
    /\ departed \subseteq Reviewers

\* There is room in the log of each finding that a request is about to change.
LEMMA LogsFit ==
    ASSUME ReviewTypes, NEW ps \in SUBSET Places, Cardinality(ps) + Logged <= MaxReviews
    PROVE  \A p \in ps : Len(history[p]) + 1 <= MaxReviews
<1> DEFINE f == [p \in Places |-> Len(history[p])]
<1>1. IsFiniteSet(Places)
  BY ReviewAssumption, FS_Union DEF Places
<1>2. \A p \in Places : f[p] = Len(history[p]) /\ f[p] \in Nat
  BY DEF ReviewTypes
<1>3. Logged = SumFunctionOnSet(f, Places)
  BY DEF Logged
<1> HIDE DEF f
<1> SUFFICES ASSUME NEW p \in ps PROVE Len(history[p]) + 1 <= MaxReviews
  OBVIOUS
<1>4. Logged \in Int
  BY <1>1, <1>2, <1>3, SumType
<1>5. f[p] <= Logged
  <2>1. SumFunctionOnSet(f, {p}) = f[p]
    <3>1. IsFiniteSet({p}) /\ {p} \ {p} = {}
      BY FS_Singleton
    <3>2. SumFunctionOnSet(f, {p}) = f[p] + SumFunctionOnSet(f, {})
      BY <1>2, <3>1, SumRemove
    <3> QED
      BY <1>2, <3>2, SumEmpty
  <2>2. {p} \in SUBSET Places
    OBVIOUS
  <2>3. SumFunctionOnSet(f, {p}) <= SumFunctionOnSet(f, Places)
    BY <1>1, <1>2, <2>2, SumMonotone
  <2> QED
    BY <1>3, <2>1, <2>3
<1>6. Cardinality(ps) \in Nat /\ Cardinality(ps) >= 1
  <2>1. IsFiniteSet(ps) /\ Cardinality(ps) \in Nat
    BY <1>1, FS_Subset, FS_CardinalityType
  <2>2. Cardinality(ps) # 0
    BY <2>1, FS_EmptySet
  <2> QED
    BY <2>1, <2>2
<1> QED
  BY <1>2, <1>4, <1>5, <1>6, ReviewAssumption

LEMMA BoundsStay ==
    ASSUME ReviewBounds, UNCHANGED <<extraction, history, departed, mixed, strays>>
    PROVE  ReviewBounds'
BY DEF ReviewBounds

LEMMA CommitReviewBounds ==
    ASSUME ReviewIInv, ReviewBounds, NEW q \in ReviewRequests, CommitReview(q)
    PROVE  ReviewBounds'
<1> DEFINE r == review[q]
           ps == DOMAIN r.read
<1>1. /\ r.op = "review" /\ UNCHANGED <<extraction, departed, strays>>
      /\ Cardinality(ps) + Logged <= MaxReviews
  BY DEF CommitReview
<1>2. ReviewTypes /\ ps \in SUBSET Places
  BY <1>1 DEF ReviewIInv, ReviewTypes
<1>3. CASE UNCHANGED <<finding, history, mixed>>
  BY <1>1, <1>3, BoundsStay
<1>4. CASE /\ history' = [p \in Places |-> IF p \in ps
                              THEN Append(history[p], [from |-> r.read[p].st, to |-> r.target, by |-> r.user])
                              ELSE history[p]]
           /\ mixed' = mixed \cup {p \in ps : finding[p] # r.read[p]}
  <2>1. \A p \in ps : Len(history[p]) + 1 <= MaxReviews
    BY <1>1, <1>2, LogsFit
  <2>2. ASSUME NEW p \in Places PROVE Len(history'[p]) <= MaxReviews
    <3>1. history[p] \in Seq(Changes) /\ Len(history[p]) <= MaxReviews
      BY <1>2 DEF ReviewTypes, ReviewBounds
    <3>2. CASE p \in ps
      <4>1. \A e : Len(Append(history[p], e)) = Len(history[p]) + 1
        BY <3>1
      <4> QED
        BY <1>4, <2>1, <3>2, <4>1
    <3>3. CASE p \notin ps
      BY <1>4, <3>1, <3>3
    <3> QED
      BY <3>2, <3>3
  <2>3. mixed' \subseteq Places
    BY <1>2, <1>4 DEF ReviewBounds
  <2> QED
    BY <1>1, <2>2, <2>3 DEF ReviewBounds
<1> QED
  BY <1>3, <1>4 DEF CommitReview

LEMMA StepBounds ==
    ASSUME ReviewIInv, ReviewBounds, [ReviewNext]_reviewVars
    PROVE  ReviewBounds'
<1>1. /\ ReviewTypes /\ {MaxExtractions, MaxReviews} \subseteq Nat
      /\ \A p \in Places : history[p] \in Seq(Changes) /\ Len(history[p]) <= MaxReviews
      /\ extraction \in [pc : {"idle", "extract", "assess"}, runs : 0 .. MaxExtractions]
      /\ extraction.pc # "idle" => extraction.runs < MaxExtractions
      /\ mixed \subseteq Places /\ strays \subseteq [place : Places, row : Nat]
      /\ departed \subseteq Reviewers
  BY ReviewAssumption DEF ReviewIInv, ReviewTypes, ReviewBounds
<1>2. CASE UNCHANGED reviewVars
  BY <1>2, BoundsStay DEF reviewVars
<1>3. CASE Reparse
  <2>1. extraction' = [extraction EXCEPT !.pc = "extract"] /\ extraction.runs < MaxExtractions
        /\ UNCHANGED <<departed, mixed>>
    BY <1>3 DEF Reparse
  <2>2. strays' \subseteq [place : Places, row : Nat]
    BY <1>1, <1>3 DEF Reparse, ReviewTypes
  <2>3. \A p \in Places : Len(history'[p]) <= MaxReviews
    <3>1. \A p \in Places : history'[p] \in {<<>>, history[p]}
      BY <1>3 DEF Reparse
    <3> QED
      BY <1>1, <3>1
  <2> QED
    BY <1>1, <2>1, <2>2, <2>3 DEF ReviewBounds
<1>4. ASSUME NEW ps \in SUBSET Places, NEW present, NEW sourced, Replace(ps, present, sourced)
      PROVE  /\ \A p \in Places : Len(history'[p]) <= MaxReviews
             /\ mixed' \subseteq Places /\ strays' \subseteq [place : Places, row : Nat]
             /\ departed' = departed
  <2>1. \A p \in Places : history'[p] \in {<<>>, history[p]}
    BY <1>4 DEF Replace
  <2>2. mixed' \subseteq mixed /\ UNCHANGED <<departed, strays>>
    BY <1>4 DEF Replace
  <2> QED
    BY <1>1, <2>1, <2>2
<1>5. ASSUME NEW present, NEW sourced, WriteFindings(present, sourced)
      PROVE  ReviewBounds'
  <2>1. extraction' = [extraction EXCEPT !.pc = "assess"] /\ extraction.runs < MaxExtractions
    BY <1>5 DEF WriteFindings
  <2>2. Replace(Extracted, present, sourced) /\ Extracted \in SUBSET Places
    BY <1>5 DEF WriteFindings, Places
  <2> QED
    BY <1>1, <1>4, <2>1, <2>2 DEF ReviewBounds
<1>6. ASSUME NEW present, WriteCompliance(present)
      PROVE  ReviewBounds'
  <2>1. extraction' = [pc |-> "idle", runs |-> extraction.runs + 1] /\ extraction.pc = "assess"
    BY <1>6 DEF WriteCompliance
  <2>2. Replace(Assessed, present, present) /\ Assessed \in SUBSET Places
    BY <1>6 DEF WriteCompliance, Places
  <2>3. extraction.runs + 1 \in 0 .. MaxExtractions
    BY <1>1, <2>1
  <2> QED
    BY <1>1, <1>4, <2>1, <2>2, <2>3 DEF ReviewBounds
<1>7. CASE ExtractionCrash
  <2>1. /\ extraction' = [pc |-> "idle", runs |-> extraction.runs + 1] /\ extraction.pc # "idle"
        /\ UNCHANGED <<history, departed, mixed, strays>>
    BY <1>7 DEF ExtractionCrash
  <2>2. extraction.runs + 1 \in 0 .. MaxExtractions
    BY <1>1, <2>1
  <2> QED
    BY <1>1, <2>1, <2>2 DEF ReviewBounds
<1>8. ASSUME NEW q, NEW u, NEW target, NEW p, BeginPatch(q, u, p, target)
      PROVE  ReviewBounds'
  BY <1>8, BoundsStay DEF BeginPatch
<1>9. ASSUME NEW q, NEW u, NEW target, NEW ps, BeginBulk(q, u, ps, target)
      PROVE  ReviewBounds'
  BY <1>9, BoundsStay DEF BeginBulk
<1>10. ASSUME NEW q, NEW p, BeginComment(q, p)
       PROVE  ReviewBounds'
  BY <1>10, BoundsStay DEF BeginComment
<1>11. ASSUME NEW q \in ReviewRequests, CommitComment(q)
       PROVE  ReviewBounds'
  <2> DEFINE c == [place |-> review[q].place, row |-> review[q].row]
  <2>1. c \in [place : Places, row : Nat]
    BY <1>1, <1>11 DEF CommitComment, ReviewTypes
  <2>2. strays' \in {strays, strays \cup {c}} /\ UNCHANGED <<extraction, history, departed, mixed>>
    BY <1>11 DEF CommitComment
  <2> HIDE DEF c
  <2> QED
    BY <1>1, <2>1, <2>2 DEF ReviewBounds
<1>12. ASSUME NEW u \in Reviewers, AccountDeleted(u)
       PROVE  ReviewBounds'
  <2>1. ASSUME NEW p \in Places PROVE Len(history'[p]) <= MaxReviews
    <3>1. history[p] \in Seq(Changes) /\ Len(history[p]) <= MaxReviews
      BY <1>1
    <3>2. history'[p] = [i \in DOMAIN history[p] |-> Anonymous(history[p][i], u)]
      BY <1>12 DEF AccountDeleted
    <3>3. Len(history'[p]) = Len(history[p])
      BY <3>1, <3>2
    <3>4. QED
      BY <3>1, <3>3
  <2>2. departed' = departed \cup {u} /\ UNCHANGED <<extraction, mixed, strays>>
    BY <1>12 DEF AccountDeleted
  <2>3. QED
    BY <1>1, <2>1, <2>2 DEF ReviewBounds
<1>13. QED
  BY <1>2, <1>3, <1>5, <1>6, <1>7, <1>8, <1>9, <1>10, <1>11, <1>12, CommitReviewBounds DEF ReviewNext

\* Findings, their logs, the comments and the worker's runs keep their types and bounds.
THEOREM ReviewTypeCorrect == ReviewSpec => []ReviewTypeOK
<1>1. ReviewInit => ReviewBounds
  <2> SUFFICES ASSUME ReviewInit PROVE ReviewBounds
    OBVIOUS
  <2>1. \A p \in Places : Len(history[p]) = 0
    BY DEF ReviewInit
  <2> QED
    BY <2>1, ReviewAssumption DEF ReviewInit, ReviewBounds
<1>2. ReviewIInv /\ ReviewBounds => ReviewTypeOK
  BY DEF ReviewIInv, ReviewTypes, ReviewBounds, ReviewTypeOK
<1>3. QED
  BY <1>1, <1>2, StepBounds, ReviewInvariance, PTL DEF ReviewSpec

-----------------------------------------------------------------------------
(***************************************************************************)
(* Mail: EventMailedOnce.  What the provider has taken is not enough to    *)
(* count, for a mail that a call has claimed and not yet handed over comes *)
(* on top: the invariant adds those in flight, and says that together they *)
(* do not pass what the claim, and the claims lost, allow.                 *)
(***************************************************************************)

\* What a call of a notifier holds: nothing, whom it has still to serve, or a mail it is
\* about to hand over as well.
Serves == [pc : {"next"}, notice : Notices, todo : SUBSET Addresses]
HandsOver == [pc : {"deliver"}, notice : Notices, todo : SUBSET Addresses, to : Addresses]
SenderType == {Resting} \cup Serves \cup {r \in HandsOver : r.to \notin r.todo}

MailTypes ==
    /\ mailTo \in SUBSET Addresses /\ suppressed \in SUBSET Addresses
    /\ claims \subseteq {EventKey(e) : e \in SubscriptionEvents}
    /\ sender \in [Senders -> SenderType]
    /\ mailed \in [Notices -> [Addresses -> Nat]]
    /\ rounds \in [Notices -> 0 .. MaxRounds] /\ waived \in [Notices -> 0 .. MaxWaived]

\* The mails of notice n to address a that a call may still send, and those of notice n
\* that it is about to hand over.
MayMail(r, n, a) ==
    IF r.pc # "rest" /\ r.notice = n /\ (a \in r.todo \/ (r.pc = "deliver" /\ r.to = a)) THEN 1 ELSE 0
Hands(r, n) == IF r.pc = "deliver" /\ r.notice = n THEN 1 ELSE 0

AllMayMail(n, a) == SumFunctionOnSet([s \in Senders |-> MayMail(sender[s], n, a)], Senders)
AllHand(n) == SumFunctionOnSet([s \in Senders |-> Hands(sender[s], n)], Senders)
Mailed(n) == SumFunctionOnSet(mailed[n], Addresses)
Claimed(n) == IF EventKey(n) \in claims THEN 1 ELSE 0

\* A call mails each address once at most; and of an event, what was mailed or is about
\* to be goes back to the claim, or to one that Redis lost or could not check.
MailIInv ==
    /\ MailTypes
    /\ \A n \in Notices, a \in Addresses : mailed[n][a] + AllMayMail(n, a) <= rounds[n]
    /\ \A e \in SubscriptionEvents : Mailed(e) + AllHand(e) <= Claimed(e) + waived[e]

LEMMA SenderShape ==
    ASSUME NEW r \in SenderType
    PROVE  /\ r.pc \in {"rest", "next", "deliver"}
           /\ r.pc = "rest" <=> r = Resting
           /\ r.pc # "rest" => r.notice \in Notices /\ r.todo \in SUBSET Addresses
           /\ r.pc = "deliver" => r.to \in Addresses /\ r.to \notin r.todo
<1>1. Resting.pc = "rest"
  BY DEF Resting
<1>2. r \in Serves => r.pc = "next" /\ r.notice \in Notices /\ r.todo \in SUBSET Addresses
  BY DEF Serves
<1>3. r \in HandsOver => /\ r.pc = "deliver" /\ r.notice \in Notices
                         /\ r.todo \in SUBSET Addresses /\ r.to \in Addresses
  BY DEF HandsOver
<1> QED
  BY <1>1, <1>2, <1>3 DEF SenderType

\* What one call's step changes in the sums.
LEMMA MayMailMoves ==
    ASSUME MailTypes, NEW s \in Senders, NEW r \in SenderType, NEW n, NEW a,
           sender' = [sender EXCEPT ![s] = r]
    PROVE  /\ AllMayMail(n, a) \in Int
           /\ AllMayMail(n, a)' = AllMayMail(n, a) - MayMail(sender[s], n, a) + MayMail(r, n, a)
<1> DEFINE f == [v \in Senders |-> MayMail(sender[v], n, a)]
           g == [v \in Senders |-> MayMail(sender'[v], n, a)]
<1>1. IsFiniteSet(Senders) /\ \A v \in Senders : sender'[v] = IF v = s THEN r ELSE sender[v]
  BY MailAssumption DEF MailTypes
<1>2. \A x : MayMail(x, n, a) \in Int
  BY DEF MayMail
<1>3. /\ \A v \in Senders : f[v] \in Int /\ g[v] \in Int
      /\ f[s] = MayMail(sender[s], n, a) /\ g[s] = MayMail(r, n, a)
      /\ \A v \in Senders \ {s} : g[v] = f[v]
  BY <1>1, <1>2
<1>4. AllMayMail(n, a) = SumFunctionOnSet(f, Senders)
      /\ AllMayMail(n, a)' = SumFunctionOnSet(g, Senders)
  BY DEF AllMayMail
<1> HIDE DEF f, g
<1> QED
  BY <1>1, <1>3, <1>4, SumChange

\* The same of the mails that calls are about to hand over.
LEMMA HandsMove ==
    ASSUME MailTypes, NEW s \in Senders, NEW r \in SenderType, NEW n,
           sender' = [sender EXCEPT ![s] = r]
    PROVE  /\ AllHand(n) \in Int
           /\ AllHand(n)' = AllHand(n) - Hands(sender[s], n) + Hands(r, n)
<1> DEFINE f == [v \in Senders |-> Hands(sender[v], n)]
           g == [v \in Senders |-> Hands(sender'[v], n)]
<1>1. IsFiniteSet(Senders) /\ \A v \in Senders : sender'[v] = IF v = s THEN r ELSE sender[v]
  BY MailAssumption DEF MailTypes
<1>2. \A x : Hands(x, n) \in Int
  BY DEF Hands
<1>3. /\ \A v \in Senders : f[v] \in Int /\ g[v] \in Int
      /\ f[s] = Hands(sender[s], n) /\ g[s] = Hands(r, n)
      /\ \A v \in Senders \ {s} : g[v] = f[v]
  BY <1>1, <1>2
<1>4. AllHand(n) = SumFunctionOnSet(f, Senders)
      /\ AllHand(n)' = SumFunctionOnSet(g, Senders)
  BY DEF AllHand
<1> HIDE DEF f, g
<1> QED
  BY <1>1, <1>3, <1>4, SumChange

\* The sums are numbers.
LEMMA MailedType ==
    ASSUME MailTypes, NEW n \in Notices
    PROVE  Mailed(n) \in Int
BY MailAssumption, SumType DEF MailTypes, Mailed

LEMMA SumsTyped ==
    ASSUME MailTypes, NEW n, NEW a
    PROVE  AllMayMail(n, a) \in Int /\ AllHand(n) \in Int
<1> DEFINE f == [v \in Senders |-> MayMail(sender[v], n, a)]
           g == [v \in Senders |-> Hands(sender[v], n)]
<1>1. \A v \in Senders : f[v] \in Int /\ g[v] \in Int
  BY DEF MayMail, Hands
<1>2. AllMayMail(n, a) = SumFunctionOnSet(f, Senders) /\ AllHand(n) = SumFunctionOnSet(g, Senders)
  BY DEF AllMayMail, AllHand
<1> HIDE DEF f, g
<1> QED
  BY <1>1, <1>2, MailAssumption, SumType

LEMMA MailInitOK == MailInit => MailIInv
<1> SUFFICES ASSUME MailInit PROVE MailIInv
  OBVIOUS
<1>1. MailTypes
  BY MailAssumption DEF MailInit, MailTypes, SenderType
<1>2. \A v \in Senders : sender[v].pc = "rest"
  BY DEF MailInit, Resting
<1>3. \A n, a : AllMayMail(n, a) = 0 /\ AllHand(n) = 0
  <2> TAKE n, a
  <2> DEFINE f == [v \in Senders |-> MayMail(sender[v], n, a)]
             g == [v \in Senders |-> Hands(sender[v], n)]
  <2>1. \A v \in Senders : f[v] = 0 /\ g[v] = 0
    BY <1>2 DEF MayMail, Hands
  <2>2. AllMayMail(n, a) = SumFunctionOnSet(f, Senders) /\ AllHand(n) = SumFunctionOnSet(g, Senders)
    BY DEF AllMayMail, AllHand
  <2> HIDE DEF f, g
  <2> QED
    BY <2>1, <2>2, MailAssumption, SumZero
<1>4. \A n \in Notices : Mailed(n) = 0 /\ \A a \in Addresses : mailed[n][a] = 0
  BY MailAssumption, SumZero DEF MailInit, Mailed
<1>5. \A n \in Notices : rounds[n] = 0 /\ waived[n] = 0 /\ Claimed(n) = 0
  BY DEF MailInit, Claimed
<1>6. \A e \in SubscriptionEvents : e \in Notices
  BY DEF Notices
<1> QED
  BY <1>1, <1>3, <1>4, <1>5, <1>6 DEF MailIInv

MailedInt == \A n \in Notices : Mailed(n) \in Int

LEMMA MailedNext == MailTypes' => MailedInt'
<1>1. MailTypes => MailedInt
  BY MailedType DEF MailedInt
<1> QED
  BY <1>1, PTL

\* What a call's step has to respect for both counts to hold.
LEMMA CountsKept ==
    ASSUME MailIInv, MailTypes', NEW s \in Senders, NEW r \in SenderType,
           sender' = [sender EXCEPT ![s] = r],
           \A n \in Notices, a \in Addresses :
              mailed'[n][a] + MayMail(r, n, a) + rounds[n]
                <= mailed[n][a] + MayMail(sender[s], n, a) + rounds'[n],
           \A e \in SubscriptionEvents :
              Mailed(e)' + Hands(r, e) + Claimed(e) + waived[e]
                <= Mailed(e) + Hands(sender[s], e) + Claimed(e)' + waived'[e]
    PROVE  MailIInv'
<1>1. MailTypes
  BY DEF MailIInv
<1>2. ASSUME NEW m \in Notices, NEW b \in Addresses
      PROVE  mailed'[m][b] + AllMayMail(m, b)' <= rounds'[m]
  <2>1. /\ AllMayMail(m, b) \in Int
        /\ AllMayMail(m, b)' = AllMayMail(m, b) - MayMail(sender[s], m, b) + MayMail(r, m, b)
    BY <1>1, MayMailMoves
  <2>2. /\ MayMail(sender[s], m, b) \in Int /\ MayMail(r, m, b) \in Int
        /\ mailed[m][b] \in Int /\ mailed'[m][b] \in Int
        /\ rounds[m] \in Int /\ rounds'[m] \in Int
    BY <1>1, MailAssumption DEF MayMail, MailTypes
  <2>3. mailed'[m][b] + MayMail(r, m, b) + rounds[m]
          <= mailed[m][b] + MayMail(sender[s], m, b) + rounds'[m]
    OBVIOUS
  <2>4. mailed[m][b] + AllMayMail(m, b) <= rounds[m]
    BY DEF MailIInv
  <2> QED
    BY <2>1, <2>2, <2>3, <2>4
<1>3. ASSUME NEW e \in SubscriptionEvents
      PROVE  Mailed(e)' + AllHand(e)' <= Claimed(e)' + waived'[e]
  <2>1. e \in Notices
    BY DEF Notices
  <2>2. /\ AllHand(e) \in Int
        /\ AllHand(e)' = AllHand(e) - Hands(sender[s], e) + Hands(r, e)
    BY <1>1, HandsMove
  <2>3. Mailed(e) \in Int /\ Mailed(e)' \in Int
    BY <1>1, <2>1, MailedType, MailedNext DEF MailedInt
  <2>4. /\ Hands(sender[s], e) \in Int /\ Hands(r, e) \in Int
        /\ Claimed(e) \in Int /\ Claimed(e)' \in Int
        /\ waived[e] \in Int /\ waived'[e] \in Int
    BY <1>1, <2>1, MailAssumption DEF Hands, Claimed, MailTypes
  <2>5. Mailed(e)' + Hands(r, e) + Claimed(e) + waived[e]
          <= Mailed(e) + Hands(sender[s], e) + Claimed(e)' + waived'[e]
    OBVIOUS
  <2>6. Mailed(e) + AllHand(e) <= Claimed(e) + waived[e]
    BY DEF MailIInv
  <2> QED
    BY <2>2, <2>3, <2>4, <2>5, <2>6
<1> QED
  BY <1>2, <1>3 DEF MailIInv

\* A call that serves on, and one about to hand a mail over.
GoingOn(n, todo) == [pc |-> "next", notice |-> n, todo |-> todo]
Handing(n, todo, a) == [pc |-> "deliver", notice |-> n, todo |-> todo, to |-> a]

LEMMA ServesOn ==
    ASSUME NEW n \in Notices, NEW todo \in SUBSET Addresses
    PROVE  /\ GoingOn(n, todo) \in SenderType
           /\ \A m, b : MayMail(GoingOn(n, todo), m, b) = IF m = n /\ b \in todo THEN 1 ELSE 0
           /\ \A m : Hands(GoingOn(n, todo), m) = 0
BY DEF GoingOn, SenderType, Serves, MayMail, Hands

LEMMA HandsNext ==
    ASSUME NEW n \in Notices, NEW todo \in SUBSET Addresses, NEW a \in Addresses \ todo
    PROVE  /\ Handing(n, todo, a) \in SenderType
           /\ \A m, b : MayMail(Handing(n, todo, a), m, b)
                          = IF m = n /\ b \in todo \cup {a} THEN 1 ELSE 0
           /\ \A m : Hands(Handing(n, todo, a), m) = IF m = n THEN 1 ELSE 0
BY DEF Handing, SenderType, HandsOver, MayMail, Hands

LEMMA RestsNow ==
    /\ Resting \in SenderType
    /\ \A m, b : MayMail(Resting, m, b) = 0
    /\ \A m : Hands(Resting, m) = 0
BY DEF Resting, SenderType, MayMail, Hands

\* The present call.
LEMMA Present ==
    ASSUME MailTypes, NEW s \in Senders
    PROVE  LET x == sender[s]
           IN /\ x \in SenderType
              /\ x.pc = "next" =>
                    /\ x.notice \in Notices /\ x.todo \in SUBSET Addresses
                    /\ \A m, b : MayMail(x, m, b) = IF m = x.notice /\ b \in x.todo THEN 1 ELSE 0
                    /\ \A m : Hands(x, m) = 0
              /\ x.pc = "deliver" =>
                    /\ x.notice \in Notices /\ x.todo \in SUBSET Addresses
                    /\ x.to \in Addresses \ x.todo
                    /\ \A m, b : MayMail(x, m, b)
                                   = IF m = x.notice /\ b \in x.todo \cup {x.to} THEN 1 ELSE 0
                    /\ \A m : Hands(x, m) = IF m = x.notice THEN 1 ELSE 0
              /\ \A m, b : MayMail(x, m, b) \in {0, 1}
              /\ \A m : Hands(x, m) \in {0, 1}
<1>1. sender[s] \in SenderType
  BY DEF MailTypes
<1> QED
  BY <1>1, SenderShape DEF MayMail, Hands

LEMMA BeginNoticeMail ==
    ASSUME MailIInv, NEW s \in Senders, NEW n \in Notices, BeginNotice(s, n)
    PROVE  MailIInv'
<1> DEFINE r == GoingOn(n, mailTo)
<1>1. MailTypes /\ mailTo \in SUBSET Addresses
  BY DEF MailIInv, MailTypes
<1>2. /\ rounds' = [rounds EXCEPT ![n] = @ + 1] /\ rounds[n] < MaxRounds
      /\ sender' = [sender EXCEPT ![s] = r] /\ sender[s] = Resting
      /\ UNCHANGED <<mailTo, suppressed, claims, mailed, waived>>
  BY DEF BeginNotice, GoingOn
<1>3. /\ r \in SenderType
      /\ \A m, b : MayMail(r, m, b) = IF m = n /\ b \in mailTo THEN 1 ELSE 0
      /\ \A m : Hands(r, m) = 0
  BY <1>1, ServesOn
<1> HIDE DEF r
<1>4. MailTypes'
  BY <1>1, <1>2, <1>3, MailAssumption DEF MailTypes
<1>5. ASSUME NEW m \in Notices, NEW b \in Addresses
      PROVE  mailed'[m][b] + MayMail(r, m, b) + rounds[m]
               <= mailed[m][b] + MayMail(sender[s], m, b) + rounds'[m]
  <2>1. /\ mailed'[m][b] = mailed[m][b] /\ mailed[m][b] \in Nat
        /\ rounds[m] \in Nat /\ rounds'[m] = IF m = n THEN rounds[m] + 1 ELSE rounds[m]
    BY <1>1, <1>2 DEF MailTypes
  <2>2. MayMail(sender[s], m, b) = 0 /\ MayMail(r, m, b) = IF m = n /\ b \in mailTo THEN 1 ELSE 0
    BY <1>2, <1>3, RestsNow
  <2> QED
    BY <2>1, <2>2
<1>6. ASSUME NEW e \in SubscriptionEvents
      PROVE  Mailed(e)' + Hands(r, e) + Claimed(e) + waived[e]
               <= Mailed(e) + Hands(sender[s], e) + Claimed(e)' + waived'[e]
  <2>1. Mailed(e)' = Mailed(e) /\ Claimed(e)' = Claimed(e) /\ waived'[e] = waived[e]
    BY <1>2 DEF Mailed, Claimed
  <2>2. Hands(r, e) = 0 /\ Hands(sender[s], e) = 0
    BY <1>2, <1>3, RestsNow
  <2>3. Mailed(e) \in Int /\ waived[e] \in Int /\ Claimed(e) \in Int
    BY <1>1, MailedType DEF MailTypes, Notices, Claimed
  <2> QED
    BY <2>1, <2>2, <2>3
<1> QED
  BY <1>2, <1>3, <1>4, <1>5, <1>6, CountsKept

\* A step in which a call goes on without a claim: it drops an address, or all of them,
\* or hands over a mail about a threshold; it takes no event's mail up.
LEMMA GoesOn ==
    ASSUME MailIInv, NEW s \in Senders, NEW r \in SenderType,
           sender' = [sender EXCEPT ![s] = r],
           UNCHANGED <<mailTo, suppressed, claims, mailed, rounds, waived>>,
           \A m \in Notices, b \in Addresses : MayMail(r, m, b) <= MayMail(sender[s], m, b),
           \A e \in SubscriptionEvents : Hands(r, e) <= Hands(sender[s], e)
    PROVE  MailIInv'
<1>1. MailTypes
  BY DEF MailIInv
<1>2. MailTypes'
  BY <1>1 DEF MailTypes
<1>3. \A m, b : MayMail(r, m, b) \in Int /\ MayMail(sender[s], m, b) \in Int
  BY DEF MayMail
<1>4. \A m : Hands(r, m) \in Int /\ Hands(sender[s], m) \in Int
  BY DEF Hands
<1>5. ASSUME NEW m \in Notices, NEW b \in Addresses
      PROVE  mailed'[m][b] + MayMail(r, m, b) + rounds[m]
               <= mailed[m][b] + MayMail(sender[s], m, b) + rounds'[m]
  <2>1. mailed[m][b] \in Nat /\ rounds[m] \in Nat
    BY <1>1 DEF MailTypes
  <2>2. MayMail(r, m, b) <= MayMail(sender[s], m, b)
    OBVIOUS
  <2>3. mailed' = mailed /\ rounds' = rounds
    OBVIOUS
  <2> QED
    BY <1>3, <2>1, <2>2, <2>3
<1>6. ASSUME NEW e \in SubscriptionEvents
      PROVE  Mailed(e)' + Hands(r, e) + Claimed(e) + waived[e]
               <= Mailed(e) + Hands(sender[s], e) + Claimed(e)' + waived'[e]
  <2>1. Mailed(e)' = Mailed(e) /\ Claimed(e)' = Claimed(e) /\ waived'[e] = waived[e]
    BY DEF Mailed, Claimed
  <2>2. Hands(r, e) <= Hands(sender[s], e)
    OBVIOUS
  <2>3. Mailed(e) \in Int /\ waived[e] \in Int /\ Claimed(e) \in Int
    BY <1>1, MailedType DEF MailTypes, Notices, Claimed
  <2> QED
    BY <1>4, <2>1, <2>2, <2>3
<1> QED
  BY <1>2, <1>5, <1>6, CountsKept

\* A call serving an address: what it still has to do without it, with and without a
\* mail in its hands.
LEMMA ServesOne ==
    ASSUME MailTypes, NEW s \in Senders, NEW to \in Addresses, Serving(s, to)
    PROVE  LET x == sender[s]
               skips == GoingOn(x.notice, x.todo \ {to})
               hands == Handing(x.notice, x.todo \ {to}, to)
           IN /\ Skipped(s, to) = [sender EXCEPT ![s] = skips] /\ skips \in SenderType
              /\ Delivering(s, to) = [sender EXCEPT ![s] = hands] /\ hands \in SenderType
              /\ x.notice \in Notices
              /\ \A m, b : MayMail(skips, m, b) <= MayMail(x, m, b)
              /\ \A m, b : MayMail(hands, m, b) <= MayMail(x, m, b)
              /\ \A m : Hands(skips, m) = 0 /\ Hands(x, m) = 0
              /\ \A m : Hands(hands, m) = IF m = x.notice THEN 1 ELSE 0
<1> DEFINE x == sender[s]
           skips == GoingOn(x.notice, x.todo \ {to})
           hands == Handing(x.notice, x.todo \ {to}, to)
<1>1. x.pc = "next" /\ to \in x.todo
  BY DEF Serving
<1>2. /\ x.notice \in Notices /\ x.todo \in SUBSET Addresses
      /\ \A m, b : MayMail(x, m, b) = IF m = x.notice /\ b \in x.todo THEN 1 ELSE 0
      /\ \A m : Hands(x, m) = 0
  BY <1>1, Present
<1>3. x \in Serves
  <2>1. x \in SenderType /\ Resting \notin {y \in {x} : y.pc = "next"}
    BY DEF MailTypes, Resting
  <2> QED
    BY <1>1, <2>1 DEF SenderType, HandsOver, Resting
<1>4. [x EXCEPT !.todo = @ \ {to}] = skips
  BY <1>3 DEF Serves, GoingOn
<1>5. /\ Skipped(s, to) = [sender EXCEPT ![s] = skips]
      /\ Delivering(s, to) = [sender EXCEPT ![s] = hands]
  BY <1>4 DEF Skipped, Delivering, Handing
<1>6. /\ x.todo \ {to} \in SUBSET Addresses /\ to \in Addresses \ (x.todo \ {to})
  BY <1>2
<1>7. /\ skips \in SenderType /\ hands \in SenderType
      /\ \A m, b : MayMail(skips, m, b) = IF m = x.notice /\ b \in x.todo \ {to} THEN 1 ELSE 0
      /\ \A m : Hands(skips, m) = 0
      /\ \A m, b : MayMail(hands, m, b)
                     = IF m = x.notice /\ b \in (x.todo \ {to}) \cup {to} THEN 1 ELSE 0
      /\ \A m : Hands(hands, m) = IF m = x.notice THEN 1 ELSE 0
  <2> DEFINE rest == x.todo \ {to}
  <2>1. rest \in SUBSET Addresses /\ to \in Addresses \ rest /\ x.notice \in Notices
    BY <1>2, <1>6
  <2> HIDE DEF x, rest
  <2>2. /\ skips \in SenderType
        /\ \A m, b : MayMail(skips, m, b) = IF m = x.notice /\ b \in rest THEN 1 ELSE 0
        /\ \A m : Hands(skips, m) = 0
    BY <2>1, ServesOn DEF rest
  <2>3. /\ hands \in SenderType
        /\ \A m, b : MayMail(hands, m, b) = IF m = x.notice /\ b \in rest \cup {to} THEN 1 ELSE 0
        /\ \A m : Hands(hands, m) = IF m = x.notice THEN 1 ELSE 0
    BY <2>1, HandsNext DEF rest
  <2> QED
    BY <2>2, <2>3 DEF rest
<1> HIDE DEF skips, hands
<1>8. \A m, b : MayMail(skips, m, b) <= MayMail(x, m, b) /\ MayMail(hands, m, b) <= MayMail(x, m, b)
  <2> TAKE m, b
  <2>1. b \in (x.todo \ {to}) \cup {to} => b \in x.todo
    BY <1>1
  <2> HIDE DEF x
  <2> QED
    BY <1>2, <1>7, <2>1
<1> QED
  BY <1>2, <1>5, <1>7, <1>8 DEF skips, hands

LEMMA SkipMail ==
    ASSUME MailIInv, NEW s \in Senders, NEW to \in Addresses,
           Serving(s, to), sender' = Skipped(s, to),
           UNCHANGED <<mailTo, suppressed, claims, mailed, rounds, waived>>
    PROVE  MailIInv'
<1> DEFINE skips == GoingOn(sender[s].notice, sender[s].todo \ {to})
<1>1. /\ sender' = [sender EXCEPT ![s] = skips] /\ skips \in SenderType
      /\ \A m, b : MayMail(skips, m, b) <= MayMail(sender[s], m, b)
      /\ \A m : Hands(skips, m) = 0 /\ Hands(sender[s], m) = 0
  BY ServesOne DEF MailIInv
<1> HIDE DEF skips
<1>2. \A e \in SubscriptionEvents : Hands(skips, e) <= Hands(sender[s], e)
  BY <1>1
<1> QED
  BY <1>1, <1>2, GoesOn

LEMMA SendUncheckedMail ==
    ASSUME MailIInv, NEW s \in Senders, NEW to \in Addresses, SendUnchecked(s, to)
    PROVE  MailIInv'
<1> DEFINE hands == Handing(sender[s].notice, sender[s].todo \ {to}, to)
<1>1. Serving(s, to) /\ sender[s].notice \in Thresholds
      /\ UNCHANGED <<mailTo, suppressed, claims, mailed, rounds, waived>>
  BY DEF SendUnchecked
<1>2. /\ sender' = [sender EXCEPT ![s] = hands] /\ hands \in SenderType
      /\ \A m, b : MayMail(hands, m, b) <= MayMail(sender[s], m, b)
      /\ \A m : Hands(sender[s], m) = 0
      /\ \A m : Hands(hands, m) = IF m = sender[s].notice THEN 1 ELSE 0
  BY <1>1, ServesOne DEF MailIInv, SendUnchecked
<1> HIDE DEF hands
<1>3. \A e \in SubscriptionEvents : Hands(hands, e) <= Hands(sender[s], e)
  BY <1>1, <1>2, MailAssumption
<1> QED
  BY <1>1, <1>2, <1>3, GoesOn

\* An event's mail is taken up with the claim, or with one that could not be checked.
LEMMA TakeUp ==
    ASSUME MailIInv, NEW s \in Senders, NEW to \in Addresses, Unsuppressed(s, to),
           sender' = Delivering(s, to), UNCHANGED <<mailTo, suppressed, mailed, rounds>>,
           \/ /\ Claimable(sender[s].notice, to)
              /\ claims' = claims \cup {Key(sender[s].notice, to)} /\ waived' = waived
           \/ /\ waived[sender[s].notice] < MaxWaived /\ claims' = claims
              /\ waived' = [waived EXCEPT ![sender[s].notice] = @ + 1]
    PROVE  MailIInv'
<1> DEFINE n == sender[s].notice
           hands == Handing(n, sender[s].todo \ {to}, to)
<1>1. MailTypes /\ Serving(s, to) /\ n \in SubscriptionEvents
  BY DEF MailIInv, Unsuppressed
<1>2. /\ sender' = [sender EXCEPT ![s] = hands] /\ hands \in SenderType
      /\ \A m, b : MayMail(hands, m, b) <= MayMail(sender[s], m, b)
      /\ \A m : Hands(sender[s], m) = 0
      /\ \A m : Hands(hands, m) = IF m = n THEN 1 ELSE 0
  BY <1>1, ServesOne
<1> HIDE DEF hands
<1>3. n \in Notices /\ Key(n, to) = EventKey(n)
  BY <1>1 DEF Notices, Key
<1>4. MailTypes'
  <2>1. claims' \subseteq {EventKey(e) : e \in SubscriptionEvents}
    BY <1>1, <1>3 DEF MailTypes
  <2>2. waived' \in [Notices -> 0 .. MaxWaived]
    <3>1. waived \in [Notices -> 0 .. MaxWaived] /\ waived[n] \in 0 .. MaxWaived
      BY <1>1, <1>3 DEF MailTypes
    <3>2. CASE waived' = [waived EXCEPT ![n] = @ + 1] /\ waived[n] < MaxWaived
      <4>1. waived[n] + 1 \in 0 .. MaxWaived
        BY <3>1, <3>2, MailAssumption
      <4> HIDE DEF n
      <4> QED
        BY <3>1, <3>2, <4>1
    <3> QED
      BY <3>1, <3>2
  <2>3. sender' \in [Senders -> SenderType]
    BY <1>1, <1>2 DEF MailTypes
  <2> QED
    BY <1>1, <2>1, <2>2, <2>3 DEF MailTypes
<1>5. ASSUME NEW m \in Notices, NEW b \in Addresses
      PROVE  mailed'[m][b] + MayMail(hands, m, b) + rounds[m]
               <= mailed[m][b] + MayMail(sender[s], m, b) + rounds'[m]
  <2>1. mailed[m][b] \in Nat /\ rounds[m] \in Nat /\ mailed' = mailed /\ rounds' = rounds
    BY <1>1 DEF MailTypes
  <2>2. MayMail(hands, m, b) \in Int /\ MayMail(sender[s], m, b) \in Int
    BY DEF MayMail
  <2>3. MayMail(hands, m, b) <= MayMail(sender[s], m, b)
    BY <1>2
  <2> QED
    BY <2>1, <2>2, <2>3
<1>6. ASSUME NEW e \in SubscriptionEvents
      PROVE  Mailed(e)' + Hands(hands, e) + Claimed(e) + waived[e]
               <= Mailed(e) + Hands(sender[s], e) + Claimed(e)' + waived'[e]
  <2>1. Mailed(e)' = Mailed(e)
    BY DEF Mailed
  <2>2. Mailed(e) \in Int /\ waived[e] \in Int /\ e \in Notices
    BY <1>1, MailedType, MailAssumption DEF MailTypes, Notices
  <2>3. Hands(sender[s], e) = 0 /\ Hands(hands, e) = IF e = n THEN 1 ELSE 0
    BY <1>2
  <2>4. EventKey(e) = EventKey(n) <=> e = n
    BY DEF EventKey
  <2>5. CASE Claimable(n, to) /\ claims' = claims \cup {EventKey(n)} /\ waived' = waived
    <3>1. EventKey(n) \notin claims
      BY <1>3, <2>5 DEF Claimable
    <3>2. Claimed(e)' = Claimed(e) + Hands(hands, e)
      <4>1. CASE e = n
        BY <2>3, <2>5, <3>1, <4>1 DEF Claimed
      <4>2. CASE e # n
        BY <2>3, <2>4, <2>5, <4>2 DEF Claimed
      <4> QED
        BY <4>1, <4>2
    <3>3. Claimed(e) \in Int
      BY DEF Claimed
    <3> QED
      BY <2>1, <2>2, <2>3, <2>5, <3>2, <3>3
  <2>6. CASE claims' = claims /\ waived' = [waived EXCEPT ![n] = @ + 1]
    <3>1. Claimed(e)' = Claimed(e) /\ Claimed(e) \in Int
      BY <2>6 DEF Claimed
    <3>2. waived'[e] = waived[e] + Hands(hands, e)
      BY <1>1, <1>3, <2>2, <2>3, <2>6 DEF MailTypes
    <3> QED
      BY <2>1, <2>2, <2>3, <3>1, <3>2
  <2> QED
    BY <1>3, <2>5, <2>6
<1> QED
  BY <1>2, <1>4, <1>5, <1>6, CountsKept

LEMMA DeliverMail ==
    ASSUME MailIInv, NEW s \in Senders, Deliver(s)
    PROVE  MailIInv'
<1> DEFINE x == sender[s]
           n == x.notice
           to == x.to
           r == GoingOn(n, x.todo)
<1>1. /\ x.pc = "deliver" /\ mailed' = [mailed EXCEPT ![n][to] = @ + 1]
      /\ sender' = [sender EXCEPT ![s] = r]
      /\ UNCHANGED <<mailTo, suppressed, claims, rounds, waived>>
  BY DEF Deliver, GoingOn
<1>2. MailTypes
  BY DEF MailIInv
<1>3. /\ n \in Notices /\ x.todo \in SUBSET Addresses /\ to \in Addresses \ x.todo
      /\ \A m, b : MayMail(x, m, b) = IF m = n /\ b \in x.todo \cup {to} THEN 1 ELSE 0
      /\ \A m : Hands(x, m) = IF m = n THEN 1 ELSE 0
  BY <1>1, <1>2, Present
<1>4. /\ r \in SenderType
      /\ \A m, b : MayMail(r, m, b) = IF m = n /\ b \in x.todo THEN 1 ELSE 0
      /\ \A m : Hands(r, m) = 0
  <2> HIDE DEF x
  <2> QED
    BY <1>3, ServesOn
<1> DEFINE todo == x.todo
<1> HIDE DEF r, n, to, todo
<1>5. /\ mailed' \in [Notices -> [Addresses -> Nat]]
      /\ \A m \in Notices, b \in Addresses :
            /\ mailed[m][b] \in Nat
            /\ mailed'[m][b] = IF m = n /\ b = to THEN mailed[m][b] + 1 ELSE mailed[m][b]
      /\ \A m \in Notices : m # n => mailed'[m] = mailed[m]
  BY <1>1, <1>2, <1>3 DEF MailTypes
<1>6. MailTypes'
  BY <1>1, <1>2, <1>4, <1>5 DEF MailTypes
<1>7. ASSUME NEW m \in Notices, NEW b \in Addresses
      PROVE  mailed'[m][b] + MayMail(r, m, b) + rounds[m]
               <= mailed[m][b] + MayMail(sender[s], m, b) + rounds'[m]
  <2>1. mailed[m][b] \in Nat /\ rounds[m] \in Nat /\ rounds' = rounds
    BY <1>1, <1>2 DEF MailTypes
  <2>2. mailed'[m][b] = IF m = n /\ b = to THEN mailed[m][b] + 1 ELSE mailed[m][b]
    BY <1>5
  <2>3. /\ MayMail(x, m, b) = IF m = n /\ b \in todo \cup {to} THEN 1 ELSE 0
        /\ MayMail(r, m, b) = IF m = n /\ b \in todo THEN 1 ELSE 0
        /\ to \notin todo
    BY <1>3, <1>4 DEF todo
  <2>4. CASE m = n /\ b = to
    BY <2>1, <2>2, <2>3, <2>4
  <2>5. CASE ~(m = n /\ b = to)
    BY <2>1, <2>2, <2>3, <2>5
  <2> QED
    BY <2>4, <2>5
<1>8. ASSUME NEW e \in SubscriptionEvents
      PROVE  Mailed(e)' + Hands(r, e) + Claimed(e) + waived[e]
               <= Mailed(e) + Hands(sender[s], e) + Claimed(e)' + waived'[e]
  <2>1. e \in Notices
    BY DEF Notices
  <2>2. /\ Claimed(e)' = Claimed(e) /\ Claimed(e) \in Int
        /\ waived'[e] = waived[e] /\ waived[e] \in Int /\ Mailed(e) \in Int
    BY <1>1, <1>2, <2>1, MailedType, MailAssumption DEF Claimed, MailTypes
  <2>3. Mailed(e)' = Mailed(e) + Hands(x, e)
    <3>1. CASE e # n
      BY <1>3, <1>5, <2>1, <2>2, <3>1 DEF Mailed
    <3>2. CASE e = n
      <4> DEFINE f == mailed[n]
                 g == mailed'[n]
      <4>1. /\ \A b \in Addresses : f[b] \in Int
            /\ to \in Addresses /\ g[to] = f[to] + 1
            /\ \A b \in Addresses \ {to} : g[b] = f[b]
        BY <1>3, <1>5
      <4>2. Mailed(e) = SumFunctionOnSet(f, Addresses) /\ Mailed(e)' = SumFunctionOnSet(g, Addresses)
        BY <3>2 DEF Mailed
      <4> HIDE DEF f, g
      <4>3. SumFunctionOnSet(g, Addresses) = SumFunctionOnSet(f, Addresses) - f[to] + g[to]
            /\ SumFunctionOnSet(f, Addresses) \in Int
        <5>1. g[to] \in Int
          BY <4>1
        <5> QED
          BY <4>1, <5>1, MailAssumption, SumChange
      <4> QED
        BY <1>3, <3>2, <4>1, <4>2, <4>3
    <3> QED
      BY <3>1, <3>2
  <2>4. Hands(r, e) = 0 /\ Hands(x, e) \in Int
    BY <1>4 DEF Hands
  <2> QED
    BY <2>2, <2>3, <2>4
<1> QED
  BY <1>1, <1>4, <1>6, <1>7, <1>8, CountsKept

LEMMA DeliverFailsMail ==
    ASSUME MailIInv, NEW s \in Senders, DeliverFails(s)
    PROVE  MailIInv'
<1> DEFINE x == sender[s]
           r == GoingOn(x.notice, x.todo)
<1>1. /\ x.pc = "deliver" /\ sender' = [sender EXCEPT ![s] = r]
      /\ UNCHANGED <<mailTo, suppressed, claims, mailed, rounds, waived>>
  BY DEF DeliverFails, GoingOn
<1>2. /\ x.notice \in Notices /\ x.todo \in SUBSET Addresses
      /\ \A m, b : MayMail(x, m, b) = IF m = x.notice /\ b \in x.todo \cup {x.to} THEN 1 ELSE 0
      /\ \A m : Hands(x, m) = IF m = x.notice THEN 1 ELSE 0
  BY <1>1, Present DEF MailIInv
<1>3. /\ r \in SenderType
      /\ \A m, b : MayMail(r, m, b) = IF m = x.notice /\ b \in x.todo THEN 1 ELSE 0
      /\ \A m : Hands(r, m) = 0
  <2> HIDE DEF x
  <2> QED
    BY <1>2, ServesOn
<1> HIDE DEF r, x
<1>4. /\ \A m \in Notices, b \in Addresses : MayMail(r, m, b) <= MayMail(x, m, b)
      /\ \A e \in SubscriptionEvents : Hands(r, e) <= Hands(x, e)
  BY <1>2, <1>3
<1> QED
  BY <1>1, <1>3, <1>4, GoesOn DEF x

LEMMA EndNoticeMail ==
    ASSUME MailIInv, NEW s \in Senders, EndNotice(s)
    PROVE  MailIInv'
<1>1. /\ \A m, b : MayMail(sender[s], m, b) \in {0, 1}
      /\ \A m : Hands(sender[s], m) \in {0, 1}
  BY Present DEF MailIInv
<1>2. /\ \A m \in Notices, b \in Addresses : MayMail(Resting, m, b) <= MayMail(sender[s], m, b)
      /\ \A e \in SubscriptionEvents : Hands(Resting, e) <= Hands(sender[s], e)
  BY <1>1, RestsNow
<1>3. sender' = [sender EXCEPT ![s] = Resting]
      /\ UNCHANGED <<mailTo, suppressed, claims, mailed, rounds, waived>>
  BY DEF EndNotice
<1> QED
  BY <1>2, <1>3, RestsNow, GoesOn

\* A step that leaves the calls and what was mailed alone: somebody becomes an
\* administrator, an address is suppressed, or a claim is lost.
LEMMA OthersMail ==
    ASSUME MailIInv, MailTypes', UNCHANGED <<sender, mailed, rounds>>,
           \A e \in SubscriptionEvents :
              Claimed(e) + waived[e] <= Claimed(e)' + waived'[e]
    PROVE  MailIInv'
<1>1. ASSUME NEW n, NEW a
      PROVE  AllMayMail(n, a)' = AllMayMail(n, a) /\ AllHand(n)' = AllHand(n) /\ Mailed(n)' = Mailed(n)
  BY DEF AllMayMail, AllHand, Mailed
<1>2. ASSUME NEW n \in Notices, NEW a \in Addresses
      PROVE  mailed'[n][a] + AllMayMail(n, a)' <= rounds'[n]
  BY <1>1 DEF MailIInv
<1>3. ASSUME NEW e \in SubscriptionEvents
      PROVE  Mailed(e)' + AllHand(e)' <= Claimed(e)' + waived'[e]
  <2>1. e \in Notices /\ MailTypes
    BY DEF Notices, MailIInv
  <2>2. /\ Mailed(e) + AllHand(e) <= Claimed(e) + waived[e]
        /\ Claimed(e) + waived[e] <= Claimed(e)' + waived'[e]
    BY DEF MailIInv
  <2>3. /\ Mailed(e) \in Int /\ Claimed(e) \in Int /\ Claimed(e)' \in Int
        /\ waived[e] \in Int /\ waived'[e] \in Int
    BY <2>1, MailedType, MailAssumption DEF Claimed, MailTypes
  <2>4. AllHand(e) \in Int
    BY <2>1, SumsTyped
  <2>5. AllHand(e)' = AllHand(e) /\ Mailed(e)' = Mailed(e)
    BY DEF AllHand, Mailed
  <2> QED
    BY <2>2, <2>3, <2>4, <2>5
<1> QED
  BY <1>2, <1>3 DEF MailIInv

LEMMA LoseClaimMail ==
    ASSUME MailIInv, NEW key \in claims, LoseClaim(key)
    PROVE  MailIInv'
<1>1. MailTypes
  BY DEF MailIInv
<1>2. PICK n \in SubscriptionEvents : key = EventKey(n)
  BY <1>1 DEF MailTypes
<1>3. n \in Notices /\ key.notice = n
  BY <1>2 DEF Notices, EventKey
<1>4. /\ claims' = claims \ {key} /\ waived' = [waived EXCEPT ![n] = @ + 1] /\ waived[n] < MaxWaived
      /\ UNCHANGED <<mailTo, suppressed, sender, mailed, rounds>>
  BY <1>3 DEF LoseClaim
<1>5. waived \in [Notices -> 0 .. MaxWaived] /\ waived[n] + 1 \in 0 .. MaxWaived
  BY <1>1, <1>3, <1>4, MailAssumption DEF MailTypes
<1>6. MailTypes'
  BY <1>1, <1>4, <1>5 DEF MailTypes
<1>7. ASSUME NEW e \in SubscriptionEvents
      PROVE  Claimed(e) + waived[e] <= Claimed(e)' + waived'[e]
  <2>1. e \in Notices /\ waived[e] \in Int
    BY <1>5, MailAssumption DEF Notices
  <2>2. CASE e = n
    BY <1>2, <1>3, <1>4, <1>5, <2>1, <2>2 DEF Claimed
  <2>3. CASE e # n
    <3>1. EventKey(e) # EventKey(n)
      BY <2>3 DEF EventKey
    <3> QED
      BY <1>2, <1>4, <1>5, <2>1, <2>3, <3>1 DEF Claimed
  <2> QED
    BY <2>2, <2>3
<1> QED
  BY <1>4, <1>6, <1>7, OthersMail

LEMMA MailKeeps == MailIInv /\ [MailNext]_mailVars => MailIInv'
<1> SUFFICES ASSUME MailIInv, [MailNext]_mailVars PROVE MailIInv'
  OBVIOUS
<1>1. MailTypes
  BY DEF MailIInv
<1>2. ASSUME NEW s \in Senders, NEW to \in Addresses,
             SkipSuppressed(s, to) \/ ClaimKey(s, to) \/ ClaimFails(s, to) \/ SendUnchecked(s, to)
      PROVE  MailIInv'
  <2>1. CASE SkipSuppressed(s, to)
    BY <2>1, SkipMail DEF SkipSuppressed
  <2>2. CASE ClaimKey(s, to)
    <3>1. Serving(s, to) /\ Unsuppressed(s, to)
          /\ UNCHANGED <<mailTo, suppressed, mailed, rounds, waived>>
      BY <2>2 DEF ClaimKey, Unsuppressed
    <3>2. CASE Claimable(sender[s].notice, to)
      BY <2>2, <3>1, <3>2, TakeUp DEF ClaimKey
    <3>3. CASE ~Claimable(sender[s].notice, to)
      BY <2>2, <3>1, <3>3, SkipMail DEF ClaimKey
    <3> QED
      BY <3>2, <3>3
  <2>3. CASE ClaimFails(s, to)
    BY <2>3, TakeUp DEF ClaimFails
  <2>4. CASE SendUnchecked(s, to)
    BY <2>4, SendUncheckedMail
  <2> QED
    BY <1>2, <2>1, <2>2, <2>3, <2>4
<1>3. ASSUME NEW s \in Senders,
             (\E n \in Notices : BeginNotice(s, n)) \/ Deliver(s) \/ DeliverFails(s) \/ EndNotice(s)
      PROVE  MailIInv'
  BY <1>3, BeginNoticeMail, DeliverMail, DeliverFailsMail, EndNoticeMail
<1>4. ASSUME NEW to \in Addresses, Bounce(to) \/ ChangeAdmins(to)
      PROVE  MailIInv'
  <2>1. UNCHANGED <<claims, sender, mailed, rounds, waived>>
    BY <1>4 DEF Bounce, ChangeAdmins
  <2>2. MailTypes'
    BY <1>1, <1>4 DEF MailTypes, Bounce, ChangeAdmins
  <2>3. ASSUME NEW e \in SubscriptionEvents
        PROVE  Claimed(e) + waived[e] <= Claimed(e)' + waived'[e]
    <3>1. Claimed(e)' = Claimed(e) /\ Claimed(e) \in Int /\ waived[e] \in Int
      BY <1>1, <2>1, MailAssumption DEF Claimed, MailTypes, Notices
    <3> QED
      BY <2>1, <3>1
  <2> QED
    BY <2>1, <2>2, <2>3, OthersMail
<1>5. CASE UNCHANGED mailVars
  <2>1. UNCHANGED <<mailTo, suppressed, claims, sender, mailed, rounds, waived>>
    BY <1>5 DEF mailVars
  <2>2. MailTypes'
    BY <1>1, <2>1 DEF MailTypes
  <2>3. ASSUME NEW e \in SubscriptionEvents
        PROVE  Claimed(e) + waived[e] <= Claimed(e)' + waived'[e]
    <3>1. Claimed(e)' = Claimed(e) /\ Claimed(e) \in Int /\ waived[e] \in Int
      BY <1>1, <2>1, MailAssumption DEF Claimed, MailTypes, Notices
    <3> QED
      BY <2>1, <3>1
  <2> QED
    BY <2>1, <2>2, <2>3, OthersMail
<1> QED
  BY <1>2, <1>3, <1>4, <1>5, LoseClaimMail DEF MailNext

\* Mails about to go out are not fewer than none.
LEMMA SumsPositive ==
    ASSUME MailTypes, NEW n, NEW a
    PROVE  AllMayMail(n, a) >= 0 /\ AllHand(n) >= 0
<1> DEFINE f == [v \in Senders |-> MayMail(sender[v], n, a)]
           g == [v \in Senders |-> Hands(sender[v], n)]
           z == [v \in Senders |-> 0]
<1>1. /\ \A v \in Senders : f[v] \in Nat /\ g[v] \in Nat
      /\ \A v \in Senders : z[v] = 0
  BY DEF MayMail, Hands
<1>2. AllMayMail(n, a) = SumFunctionOnSet(f, Senders) /\ AllHand(n) = SumFunctionOnSet(g, Senders)
  BY DEF AllMayMail, AllHand
<1>3. SumFunctionOnSet(z, Senders) = 0
  BY <1>1, MailAssumption, SumZero
<1> HIDE DEF f, g, z
<1>4. \A v \in Senders : z[v] \in Nat /\ z[v] <= f[v] /\ z[v] <= g[v]
  BY <1>1
<1>5. Senders \in SUBSET Senders
  OBVIOUS
<1>6. SumFunctionOnSet(z, Senders) <= SumFunctionOnSet(f, Senders)
  BY <1>1, <1>4, <1>5, MailAssumption, SumMonotone
<1>7. SumFunctionOnSet(z, Senders) <= SumFunctionOnSet(g, Senders)
  BY <1>1, <1>4, <1>5, MailAssumption, SumMonotone
<1> QED
  BY <1>2, <1>3, <1>6, <1>7

(***************************************************************************)
(* The inductive invariant of the notices.                                 *)
(***************************************************************************)
THEOREM MailInvariance == MailSpec => []MailIInv
<1> QED
  BY MailInitOK, MailKeeps, PTL DEF MailSpec

(***************************************************************************)
(* One mail goes out about a subscription event, and one more for each     *)
(* claim that Redis lost or could not check (send_email,                   *)
(* _claim_idempotency); a threshold is mailed to an address no more often  *)
(* than its notifier was called.                                           *)
(***************************************************************************)
THEOREM MailedOnce == MailSpec => []EventMailedOnce
<1>1. MailIInv => EventMailedOnce
  <2> SUFFICES ASSUME MailIInv PROVE EventMailedOnce
    OBVIOUS
  <2>1. MailTypes
    BY DEF MailIInv
  <2>2. ASSUME NEW e \in SubscriptionEvents
        PROVE  SumFunctionOnSet(mailed[e], Addresses) <= 1 + waived[e]
    <3>1. AllHand(e) \in Int /\ AllHand(e) >= 0
      BY <2>1, SumsTyped, SumsPositive
    <3>2. Mailed(e) \in Int /\ waived[e] \in Int
      BY <2>1, MailedType, MailAssumption DEF MailTypes, Notices
    <3>3. Mailed(e) + AllHand(e) <= Claimed(e) + waived[e] /\ Claimed(e) \in {0, 1}
      BY DEF MailIInv, Claimed
    <3>4. Mailed(e) <= 1 + waived[e]
      BY <3>1, <3>2, <3>3
    <3> QED
      BY <3>4 DEF Mailed
  <2>3. ASSUME NEW t \in Thresholds, NEW a \in Addresses
        PROVE  mailed[t][a] <= rounds[t]
    <3>1. t \in Notices
      BY DEF Notices
    <3>2. mailed[t][a] \in Int /\ rounds[t] \in Int
      BY <2>1, <3>1, MailAssumption DEF MailTypes
    <3>3. AllMayMail(t, a) \in Int /\ AllMayMail(t, a) >= 0
      BY <2>1, SumsTyped, SumsPositive
    <3>4. mailed[t][a] + AllMayMail(t, a) <= rounds[t]
      BY <3>1 DEF MailIInv
    <3> QED
      BY <3>2, <3>3, <3>4
  <2> QED
    BY <2>2, <2>3 DEF EventMailedOnce
<1> QED
  BY <1>1, MailInvariance, PTL

\* Addresses, claims, calls and the counts of what was sent keep their types.
THEOREM MailTypeCorrect == MailSpec => []MailTypeOK
<1>1. MailIInv => MailTypeOK
  <2> SUFFICES ASSUME MailIInv PROVE MailTypeOK
    OBVIOUS
  <2>1. MailTypes /\ MaxRounds \in Nat
    BY MailAssumption DEF MailIInv
  <2>2. ASSUME NEW n \in Notices, NEW a \in Addresses
        PROVE  mailed[n][a] \in 0 .. MaxRounds
    <3>1. mailed[n][a] \in Nat /\ rounds[n] \in 0 .. MaxRounds
      BY <2>1 DEF MailTypes
    <3>2. AllMayMail(n, a) \in Int /\ AllMayMail(n, a) >= 0
      BY <2>1, SumsTyped, SumsPositive
    <3>3. mailed[n][a] + AllMayMail(n, a) <= rounds[n]
      BY DEF MailIInv
    <3> QED
      BY <2>1, <3>1, <3>2, <3>3
  <2>3. \A s \in Senders : sender[s].pc \in {"rest", "next", "deliver"}
    BY <2>1, SenderShape DEF MailTypes
  <2> QED
    BY <2>1, <2>2, <2>3 DEF MailTypeOK, MailTypes
<1> QED
  BY <1>1, MailInvariance, PTL

-----------------------------------------------------------------------------
(* The instance of the seven modules together.                              *)

(***************************************************************************)
(* A behaviour of the run's instance is one of each of its modules: the    *)
(* services share no state, so what is proved of each holds of all         *)
(* together.                                                               *)
(***************************************************************************)
THEOREM ServicesAreEach ==
    ServicesSpec => /\ BudgetSpec /\ DeadLetterSpec /\ ReviewSpec /\ MailSpec
                    /\ ChunkingSpec /\ RetrievalSpec /\ ExtractionSpec
<1>1. ServicesInit => /\ BudgetInit /\ DeadLetterInit /\ ReviewInit /\ MailInit
                      /\ ChunkingInit /\ RetrievalInit /\ ExtractionInit
  BY DEF ServicesInit
<1>2. [ServicesNext]_<<focus, budgetVars, deadLetterVars, reviewVars, chunkingVars,
                       retrievalVars, extractionVars, mailVars>> =>
          /\ [BudgetNext]_budgetVars /\ [DeadLetterNext]_deadLetterVars /\ [ReviewNext]_reviewVars
          /\ [MailNext]_mailVars /\ [ChunkingNext]_chunkingVars
          /\ [RetrievalNext]_retrievalVars /\ [ExtractionNext]_extractionVars
  BY DEF ServicesNext, BudgetStep, DeadLetterStep, ReviewStep, ChunkingStep, RetrievalStep,
         ExtractionStep, MailStep
<1> QED
  BY <1>1, <1>2, PTL DEF ServicesSpec, BudgetSpec, DeadLetterSpec, ReviewSpec, MailSpec,
                         ChunkingSpec, RetrievalSpec, ExtractionSpec

\* Budget, letters, findings, chunks, searches, phases and mails keep their types, all
\* modules together.
THEOREM ServicesTypeCorrect == ServicesSpec => []ServicesTypeOK
<1>1. BudgetIInv => BudgetTypeOK
  BY DEF BudgetIInv
<1>2. /\ BudgetTypeOK /\ DeadLetterTypeOK /\ ReviewTypeOK /\ MailTypeOK
      /\ ChunkingTypeOK /\ RetrievalTypeOK /\ ExtractionTypeOK
      => ServicesTypeOK
  BY DEF ServicesTypeOK
<1> QED
  BY <1>1, <1>2, ServicesAreEach, BudgetInvariance, DeadLetterTypeCorrect, ReviewTypeCorrect,
     MailTypeCorrect, ChunkingTypeCorrect, RetrievalTypeCorrect, ExtractionTypeCorrect, PTL
=============================================================================
