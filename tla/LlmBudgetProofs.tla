--------------------------- MODULE LlmBudgetProofs ---------------------------
(***************************************************************************)
(* Theorems about LlmBudget, for any number of workers and jobs, any plan, *)
(* any prices, any cost of a call and every failure: no more runs than     *)
(* there are workers book usage above the ceiling, the reservations        *)
(* implement the ledger of module Ledger, which admits nothing above the   *)
(* ceiling whoever implements it, no reservation outlives its run without  *)
(* a failure, and every cost is accounted for.                             *)
(*                                                                         *)
(* SpendBounded is not inductive: what the running runs may still cost has *)
(* to fit as well.  RoomLeft says that it does, for the runs admitted or   *)
(* about to be admitted (Permitted): one of them still fits under the      *)
(* bound with its own estimate when all others cost the largest one; and   *)
(* they are as few as the workers that have not passed the ceiling yet.    *)
(*                                                                         *)
(* The ledger speaks of jobs, the admission of the entries.  They meet in  *)
(* Covered (each admitted run has a live entry) and Apart (no two have the *)
(* same job): the jobs then stand for distinct entries, and the sum of     *)
(* what they were promised is no larger than what the script adds up       *)
(* (SumInjection).                                                         *)
(***************************************************************************)
EXTENDS LlmBudget, SumProofs, FiniteSetTheorems, TLAPS

ExcessBound == Limit + ReservationMax * (Cardinality(Workers) - 1)

\* With c recorded, the workers G may each still cost what e says.
RoomFor(c, G, e) ==
    /\ G = {} => c <= ExcessBound
    /\ G # {} => \E w \in G : c + e[w] + ReservationMax * (Cardinality(G) - 1) <= ExcessBound

\* The same with c recorded of which o is beyond the estimates of p runs.
RoomBeside(c, o, p, G, e) ==
    /\ RoomFor(c - o, G, e)
    /\ o <= c
    /\ c <= Limit => p = 0 /\ o = 0
    /\ c > Limit => p + Cardinality(G) <= Cardinality(Workers)

\* Workers that may still book a cost: admitted, or with a snapshot that leaves room.
Permitted ==
    {w \in Workers : \/ w \in Spending
                     \/ run[w].pc = "read" /\ run[w].seen + EstimateOf(run[w].job) <= Limit}

\* What the run of a worker was estimated to cost.
Costs == [w \in Workers |-> IF Busy(w) THEN EstimateOf(run[w].job) ELSE 0]

Spent == recorded[ThisMonth]

RoomLeft == RoomBeside(Spent, overrun, passed, Permitted, Costs)

\* Usage is written in the month it is in: nothing stands in a later one.
FutureUnspent == \A m \in Months : m > ThisMonth => recorded[m] = 0

BudgetIInv == BudgetTypeOK /\ FutureUnspent /\ RoomLeft

-----------------------------------------------------------------------------
(* Estimates, months, and how many workers may hold a permit.               *)

LEMMA EstimateType ==
    ASSUME NEW j \in BudgetJobs
    PROVE  EstimateOf(j) \in 1 .. ReservationMax
<1>1. EstimateOf(j) > 0
  BY EstimatesPositive
<1>2. CASE Pages[j] = UnknownPages
  BY <1>1, <1>2, BudgetAssumption DEF EstimateOf
<1>3. CASE Pages[j] # UnknownPages
  <2>1. Pages[j] \in Nat
    BY <1>3, BudgetAssumption
  <2>2. ReservationFixed + Pages[j] * ReservationPage \in Nat
    BY <2>1, BudgetAssumption
  <2> QED
    BY <1>1, <1>3, <2>2, BudgetAssumption DEF EstimateOf, Smaller
<1> QED
  BY <1>2, <1>3

LEMMA MonthType ==
    ASSUME NEW t \in 0 .. MaxClock
    PROVE  MonthOf(t) \in Months
BY BudgetAssumption DEF MonthOf, Months

LEMMA MonthsPass ==
    ASSUME NEW t \in Nat
    PROVE  MonthOf(t) \in Nat /\ MonthOf(t) <= MonthOf(t + 1)
BY BudgetAssumption DEF MonthOf

LEMMA Monotone ==
    ASSUME NEW a \in Nat, NEW k \in Int, NEW n \in Int, k <= n
    PROVE  a * k \in Int /\ a * k <= a * n
OBVIOUS

LEMMA Fewer ==
    ASSUME NEW G \in SUBSET Workers
    PROVE  /\ IsFiniteSet(G) /\ Cardinality(G) \in Nat
           /\ Cardinality(G) <= Cardinality(Workers)
           /\ Cardinality(G) = 0 <=> G = {}
           /\ ExcessBound \in Int
BY BudgetAssumption, FS_Subset, FS_CardinalityType, FS_EmptySet DEF ExcessBound

-----------------------------------------------------------------------------
(* How the room changes when a permit comes or goes.                        *)

\* Below the limit there is room for all workers but one.
LEMMA RoomBelow ==
    ASSUME NEW c \in Int, c <= Limit, NEW G \in SUBSET Workers, NEW v \in Workers, v \notin G,
           NEW e \in [Workers -> 0 .. ReservationMax]
    PROVE  RoomFor(c, G, e)
<1> DEFINE k == Cardinality(G)
           n == Cardinality(Workers)
<1>1. k \in Nat /\ n \in Nat /\ k + 1 <= n
  <2>1. G \cup {v} \in SUBSET Workers /\ IsFiniteSet(G)
    BY Fewer
  <2>2. Cardinality(G \cup {v}) = k + 1
    BY <2>1, FS_AddElement
  <2> QED
    BY <2>1, <2>2, Fewer, BudgetAssumption, FS_CardinalityType
<1> HIDE DEF k, n
<1>2. /\ ReservationMax * (n - 1) \in Nat /\ ReservationMax * k \in Nat
      /\ ReservationMax * k <= ReservationMax * (n - 1)
      /\ ReservationMax * (k - 1) \in Int
      /\ ReservationMax * k = ReservationMax * (k - 1) + ReservationMax
  BY <1>1, BudgetAssumption
<1>3. c <= Limit + ReservationMax * (n - 1)
  BY <1>2, BudgetAssumption
<1>4. ASSUME NEW w \in G
      PROVE  c + e[w] + ReservationMax * (k - 1) <= Limit + ReservationMax * (n - 1)
  <2>1. e[w] \in Nat /\ e[w] <= ReservationMax
    BY BudgetAssumption
  <2> QED
    BY <1>2, <2>1, BudgetAssumption
<1> QED
  BY <1>3, <1>4 DEF RoomFor, ExcessBound, k, n

LEMMA RoomGrant ==
    ASSUME NEW c \in Nat, NEW G \in SUBSET Workers, NEW w \in Workers, w \notin G,
           NEW e, e[w] \in 0 .. ReservationMax, c + e[w] <= Limit
    PROVE  RoomFor(c, G \cup {w}, e)
<1>1. G \cup {w} \in SUBSET Workers /\ G \cup {w} # {}
  OBVIOUS
<1> DEFINE k == Cardinality(G \cup {w})
           n == Cardinality(Workers)
<1>2. k \in Nat /\ n \in Nat /\ k <= n
  BY <1>1, Fewer, BudgetAssumption, FS_CardinalityType
<1> HIDE DEF k, n
<1>3. ReservationMax * (k - 1) \in Int /\ ReservationMax * (k - 1) <= ReservationMax * (n - 1)
  BY <1>2, Monotone, BudgetAssumption
<1>4. ReservationMax * (n - 1) \in Int
  BY <1>2, Monotone, BudgetAssumption
<1>5. c + e[w] + ReservationMax * (k - 1) <= Limit + ReservationMax * (n - 1)
  BY <1>3, <1>4, BudgetAssumption
<1> QED
  BY <1>1, <1>5 DEF RoomFor, ExcessBound, k, n

\* A permit settled for what it cost, or given back (cost 0).
LEMMA RoomSettle ==
    ASSUME NEW c \in Int, NEW G \in SUBSET Workers, NEW v \in G, NEW cost \in Nat,
           NEW e \in [Workers -> 0 .. ReservationMax], cost <= e[v],
           RoomFor(c, G, e)
    PROVE  RoomFor(c + cost, G \ {v}, e)
<1> DEFINE H == G \ {v}
           g == Cardinality(G)
           h == Cardinality(H)
<1>1. PICK w \in G : c + e[w] + ReservationMax * (g - 1) <= ExcessBound
  BY DEF RoomFor
<1>2. g \in Nat /\ h \in Nat /\ h = g - 1 /\ (h = 0 <=> H = {}) /\ ExcessBound \in Int
  BY Fewer, FS_RemoveElement
<1>3. \A u \in Workers : e[u] \in Nat /\ e[u] <= ReservationMax
  BY BudgetAssumption
<1> DEFINE m == ReservationMax * (h - 1)
           r == ReservationMax * (g - 1)
<1>4. m \in Int /\ r \in Int /\ r = m + ReservationMax
  BY <1>2, BudgetAssumption
<1>6. CASE H = {}
  <2>1. r = 0 /\ w = v
    BY <1>2, <1>6, BudgetAssumption
  <2> HIDE DEF r
  <2>2. c + cost <= ExcessBound
    BY <1>1, <1>2, <1>3, <2>1 DEF r
  <2> QED
    BY <1>6, <2>2 DEF RoomFor
<1>7. CASE H # {}
  <2>1. PICK u \in H : u = w \/ w = v
    BY <1>7
  <2> HIDE DEF m, r, h, g
  <2>2. c + cost + e[u] + m <= ExcessBound
    BY <1>1, <1>2, <1>3, <1>4, <2>1, BudgetAssumption DEF r
  <2> QED
    BY <1>7, <2>2 DEF RoomFor, m, h
<1> QED
  BY <1>6, <1>7

\* The room depends on the estimates of those who hold a permit, and on nothing else.
LEMMA RoomSame ==
    ASSUME NEW c \in Int, NEW d \in Int, NEW G \in SUBSET Workers, NEW e, NEW f,
           \A w \in G : e[w] \in Nat /\ f[w] = e[w], d <= c, RoomFor(c, G, e)
    PROVE  RoomFor(d, G, f)
<1>1. CASE G = {}
  BY <1>1, Fewer DEF RoomFor
<1>2. CASE G # {}
  <2>1. PICK w \in G : c + e[w] + ReservationMax * (Cardinality(G) - 1) <= ExcessBound
    BY <1>2 DEF RoomFor
  <2>2. ReservationMax * (Cardinality(G) - 1) \in Int /\ ExcessBound \in Int
    BY Fewer, BudgetAssumption
  <2>3. d + f[w] + ReservationMax * (Cardinality(G) - 1) <= ExcessBound
    BY <2>1, <2>2
  <2> QED
    BY <1>2, <2>3 DEF RoomFor
<1> QED
  BY <1>1, <1>2

\* Whoever holds a permit leaves the recorded spend under the bound.
LEMMA RoomBounds ==
    ASSUME NEW c \in Int, NEW G \in SUBSET Workers, NEW e \in [Workers -> 0 .. ReservationMax],
           RoomFor(c, G, e)
    PROVE  c <= ExcessBound
<1>1. CASE G = {}
  BY <1>1 DEF RoomFor
<1>2. CASE G # {}
  <2>1. PICK w \in G : c + e[w] + ReservationMax * (Cardinality(G) - 1) <= ExcessBound
    BY <1>2 DEF RoomFor
  <2>2. Cardinality(G) \in Nat /\ Cardinality(G) >= 1 /\ ExcessBound \in Int
    BY <1>2, Fewer
  <2>3. ReservationMax * (Cardinality(G) - 1) \in Nat
    BY <2>2, BudgetAssumption
  <2>4. e[w] \in Nat
    OBVIOUS
  <2> QED
    BY <2>1, <2>2, <2>3, <2>4
<1> QED
  BY <1>1, <1>2

-----------------------------------------------------------------------------
(* The same beside what the runs past the ceiling have cost.                *)

LEMMA BesideGrant ==
    ASSUME NEW c \in Nat, NEW o \in Nat, NEW p \in Nat, NEW G \in SUBSET Workers, NEW e,
           RoomBeside(c, o, p, G, e), NEW w \in Workers, w \notin G, NEW f,
           f[w] \in 0 .. ReservationMax, c + f[w] <= Limit
    PROVE  RoomBeside(c, o, p, G \cup {w}, f)
<1>1. c <= Limit /\ p = 0 /\ o = 0
  BY BudgetAssumption DEF RoomBeside
<1>2. RoomFor(c, G \cup {w}, f)
  BY RoomGrant
<1>3. c - o = c
  BY <1>1
<1>4. RoomFor(c - o, G \cup {w}, f)
  BY <1>2, <1>3
<1> QED
  BY <1>1, <1>4, BudgetAssumption DEF RoomBeside

LEMMA BesideReturn ==
    ASSUME NEW c \in Nat, NEW o \in Nat, NEW p \in Nat, NEW G \in SUBSET Workers, NEW v \in G,
           NEW e \in [Workers -> 0 .. ReservationMax], RoomBeside(c, o, p, G, e)
    PROVE  RoomBeside(c, o, p, G \ {v}, e)
<1>1. 0 <= e[v] /\ c - o \in Int /\ (c - o) + 0 = c - o
  BY BudgetAssumption
<1>2. RoomFor(c - o, G \ {v}, e)
  BY <1>1, RoomSettle DEF RoomBeside
<1>3. Cardinality(G) \in Nat /\ Cardinality(G \ {v}) = Cardinality(G) - 1 /\ Cardinality(Workers) \in Nat
  BY Fewer, FS_RemoveElement, BudgetAssumption, FS_CardinalityType
<1> QED
  BY <1>2, <1>3 DEF RoomBeside

LEMMA BesideSettle ==
    ASSUME NEW c \in Nat, NEW o \in Nat, NEW p \in Nat, NEW G \in SUBSET Workers, NEW v \in G,
           NEW e \in [Workers -> 0 .. ReservationMax], RoomBeside(c, o, p, G, e),
           NEW cost \in Nat, NEW o1, NEW p1,
           IF c + cost > Limit THEN p1 = p + 1 /\ o1 = o + Excess(cost, e[v]) ELSE p1 = p /\ o1 = o
    PROVE  RoomBeside(c + cost, o1, p1, G \ {v}, e)
<1>1. /\ Cardinality(G) \in Nat /\ Cardinality(Workers) \in Nat
      /\ Cardinality(G) <= Cardinality(Workers)
      /\ Cardinality(G \ {v}) = Cardinality(G) - 1
  BY Fewer, FS_RemoveElement, BudgetAssumption, FS_CardinalityType
<1>2. e[v] \in Nat
  BY BudgetAssumption
<1>3. CASE c + cost > Limit
  <2> DEFINE least == Smaller(cost, e[v])
             x == Excess(cost, e[v])
  <2>1. least \in Nat /\ least <= e[v] /\ x \in Nat /\ x + least = cost
    BY <1>2 DEF Smaller, Excess
  <2>2. p1 = p + 1 /\ o1 = o + x
    BY <1>3
  <2> HIDE DEF least, x
  <2>3. RoomFor((c - o) + least, G \ {v}, e)
    <3>1. c - o \in Int /\ RoomFor(c - o, G, e)
      BY DEF RoomBeside
    <3> QED
      BY <2>1, <3>1, RoomSettle
  <2>4. (c - o) + least = (c + cost) - o1 /\ o1 <= c + cost
    BY <2>1, <2>2 DEF RoomBeside
  <2>5. p1 + Cardinality(G \ {v}) <= Cardinality(Workers)
    BY <1>1, <2>2, BudgetAssumption DEF RoomBeside
  <2> QED
    BY <1>3, <2>3, <2>4, <2>5, BudgetAssumption DEF RoomBeside
<1>4. CASE ~ (c + cost > Limit)
  <2>1. c + cost <= Limit /\ c <= Limit
    BY <1>4, BudgetAssumption
  <2>2. p1 = 0 /\ o1 = 0
    BY <1>4, <2>1 DEF RoomBeside
  <2>3. RoomFor(c + cost, G \ {v}, e)
    BY <2>1, RoomBelow
  <2> QED
    BY <1>4, <2>1, <2>2, <2>3 DEF RoomBeside
<1> QED
  BY <1>3, <1>4

\* The estimates of the others do not matter, and a month begins with nothing recorded.
LEMMA BesideSame ==
    ASSUME NEW c \in Nat, NEW o \in Nat, NEW p \in Nat, NEW G \in SUBSET Workers, NEW e, NEW f,
           \A w \in G : e[w] \in Nat /\ f[w] = e[w], RoomBeside(c, o, p, G, e)
    PROVE  RoomBeside(c, o, p, G, f) /\ RoomBeside(0, 0, 0, G, f)
<1>1. c - o \in Int /\ 0 <= c - o
  BY DEF RoomBeside
<1>2. RoomFor(c - o, G, f) /\ RoomFor(0, G, f)
  BY <1>1, RoomSame DEF RoomBeside
<1> QED
  BY <1>2, BudgetAssumption DEF RoomBeside

-----------------------------------------------------------------------------
(* Types, and what a step does to the permits.                              *)

RunType == {Idle} \cup Admitting \cup Working

LEMMA RunShape ==
    ASSUME BudgetTypeOK, NEW w \in Workers
    PROVE  /\ run[w] \in RunType
           /\ run[w].pc = "idle" => run[w] = Idle
           /\ run[w].pc = "read" => run[w] \in Admitting
           /\ run[w].pc \in {"running", "flushing", "releasing"} => run[w] \in Working
           /\ run[w].pc \in {"idle", "read", "running", "flushing", "releasing"}
<1>1. run[w] \in RunType
  BY DEF BudgetTypeOK, RunType
<1> QED
  BY <1>1 DEF RunType, Idle, Admitting, Working

\* Worker w goes on as r.
Becomes(w, r) == run' = [run EXCEPT ![w] = r]

LEMMA RunsTyped ==
    ASSUME BudgetTypeOK, NEW w \in Workers, NEW r \in RunType, Becomes(w, r)
    PROVE  run' \in [Workers -> RunType]
<1>1. run \in [Workers -> RunType]
  BY DEF BudgetTypeOK, RunType
<1> QED
  BY <1>1 DEF Becomes

\* Who holds a permit, and what the others cost, when only w moves.
LEMMA PermitsMove ==
    ASSUME BudgetTypeOK, NEW w \in Workers, NEW r, Becomes(w, r)
    PROVE  /\ Permitted' \ {w} = Permitted \ {w}
           /\ \A v \in Workers \ {w} : Costs'[v] = Costs[v]
           /\ w \in Permitted' <=> ((r.pc = "read" /\ r.seen + EstimateOf(r.job) <= Limit)
                                    \/ r.pc \in {"running", "flushing"})
           /\ Costs'[w] = IF r.pc # "idle" THEN EstimateOf(r.job) ELSE 0
           /\ Permitted \in SUBSET Workers /\ Permitted' \in SUBSET Workers
<1>1. \A v \in Workers : run'[v] = IF v = w THEN r ELSE run[v]
  BY DEF BudgetTypeOK, Becomes
<1>2. \A v \in Workers \ {w} : run'[v] = run[v]
  BY <1>1
<1>3. run'[w] = r
  BY <1>1
<1> QED
  BY <1>2, <1>3 DEF Permitted, Spending, Costs, Busy

\* What a step may do to the permits, to the recorded spend and to what is past the ceiling.
SpendSame == Spent' = Spent /\ passed' = passed /\ overrun' = overrun

Keeps ==
    /\ Permitted' = Permitted
    /\ SpendSame \/ (Spent' = 0 /\ passed' = 0 /\ overrun' = 0)
Grants(w) ==
    /\ w \in Workers \ Permitted /\ Permitted' = Permitted \cup {w}
    /\ Spent + Costs'[w] <= Limit /\ SpendSame
Returns(w) == Permitted' = Permitted \ {w} /\ SpendSame
Settles(w, cost) ==
    /\ Permitted' = Permitted \ {w}
    /\ Spent' = Spent + cost
    /\ IF Spent + cost > Limit
       THEN passed' = passed + 1 /\ overrun' = overrun + Excess(cost, Costs[w])
       ELSE passed' = passed /\ overrun' = overrun

Effect ==
    /\ \A v \in Permitted \cap Permitted' : Costs'[v] = Costs[v]
    /\ \/ Keeps
       \/ \E w \in Workers : Grants(w)
       \/ \E w \in Permitted : Returns(w) \/ \E cost \in Nat : Settles(w, cost)

LEMMA Typed ==
    ASSUME BudgetTypeOK
    PROVE  /\ Costs \in [Workers -> 0 .. ReservationMax]
           /\ Spent \in Nat /\ ThisMonth \in Months
           /\ Permitted \in SUBSET Workers
<1>1. ASSUME NEW w \in Workers, Busy(w)
      PROVE  EstimateOf(run[w].job) \in 0 .. ReservationMax
  <2>1. run[w].job \in BudgetJobs
    BY <1>1, RunShape DEF Busy, Admitting, Working
  <2> QED
    BY <2>1, EstimateType, BudgetAssumption
<1>2. Costs \in [Workers -> 0 .. ReservationMax]
  BY <1>1, BudgetAssumption DEF Costs
<1>3. ThisMonth \in Months
  BY MonthType DEF BudgetTypeOK, ThisMonth
<1> QED
  BY <1>2, <1>3 DEF BudgetTypeOK, Spent, Permitted, Spending

TypedParts ==
    /\ Costs \in [Workers -> 0 .. ReservationMax]
    /\ Spent \in Nat /\ Permitted \in SUBSET Workers
    /\ passed \in Nat /\ overrun \in Nat

LEMMA TypedNext == BudgetTypeOK' => TypedParts'
<1>1. BudgetTypeOK => TypedParts
  BY Typed DEF TypedParts, BudgetTypeOK
<1> QED
  BY <1>1, PTL

\* w moves and nobody's permit changes.
LEMMA Stays ==
    ASSUME BudgetTypeOK, NEW w \in Workers, NEW r, Becomes(w, r), SpendSame,
           w \in Permitted' <=> w \in Permitted,
           w \in Permitted => Costs'[w] = Costs[w]
    PROVE  Effect
<1>1. Permitted' = Permitted
  BY PermitsMove
<1>2. \A v \in Permitted : Costs'[v] = Costs[v]
  BY PermitsMove
<1> QED
  BY <1>1, <1>2 DEF Effect, Keeps

\* w moves and has no permit afterwards.
LEMMA Leaves ==
    ASSUME BudgetTypeOK, NEW w \in Workers, NEW r, Becomes(w, r), w \notin Permitted'
    PROVE  /\ Permitted' = Permitted \ {w}
           /\ \A v \in Permitted \cap Permitted' : Costs'[v] = Costs[v]
BY PermitsMove

\* A run that stops without writing gives its permit back, if it had one.
LEMMA Stops ==
    ASSUME BudgetTypeOK, NEW w \in Workers, NEW r, Becomes(w, r), w \notin Permitted', SpendSame
    PROVE  Effect
<1>1. CASE w \in Permitted
  <2>1. Returns(w)
    BY Leaves DEF Returns
  <2> QED
    BY <1>1, <2>1, Leaves DEF Effect
<1>2. CASE w \notin Permitted
  BY <1>2, Stays
<1> QED
  BY <1>1, <1>2

LEMMA IdleStops ==
    ASSUME BudgetTypeOK, NEW w \in Workers, Becomes(w, Idle), SpendSame
    PROVE  Effect /\ Idle \in RunType
<1>1. Idle.pc = "idle" /\ Idle \in RunType
  BY DEF Idle, RunType
<1>2. w \notin Permitted'
  BY <1>1, PermitsMove
<1> QED
  BY <1>1, <1>2, Stops

\* What a step of a worker has to leave in order.
StepOK == BudgetTypeOK' /\ FutureUnspent' /\ Effect

\* What steps that write no usage leave alone.
Untouched == UNCHANGED <<clock, recorded, usageLost, passed, overrun>>

LEMMA UntouchedOK ==
    ASSUME BudgetTypeOK, FutureUnspent, Untouched,
           run' \in [Workers -> RunType], reserved' \in SUBSET Entry, burned' \in Int,
           slipped' \in BOOLEAN, abandoned' \in SUBSET BudgetJobs
    PROVE  BudgetTypeOK' /\ FutureUnspent' /\ SpendSame
<1>1. BudgetTypeOK'
  BY DEF Untouched, BudgetTypeOK, RunType
<1>2. FutureUnspent' /\ SpendSame
  BY DEF Untouched, FutureUnspent, SpendSame, Spent, ThisMonth
<1> QED
  BY <1>1, <1>2

LEMMA ReadSpendStep ==
    ASSUME BudgetTypeOK, FutureUnspent, NEW w \in Workers, NEW j \in BudgetJobs, ReadSpend(w, j)
    PROVE  StepOK
<1> DEFINE r == [pc |-> "read", job |-> j, seen |-> recorded[ThisMonth], month |-> ThisMonth]
<1>1. Becomes(w, r) /\ Untouched /\ UNCHANGED <<reserved, burned, slipped, abandoned>>
  BY DEF ReadSpend, Becomes, Untouched, pastVars
<1>2. Spent \in Nat /\ ThisMonth \in Months
  BY Typed
<1>3. r \in RunType
  BY <1>2 DEF RunType, Admitting, Spent
<1>4. run' \in [Workers -> RunType]
  BY <1>1, <1>3, RunsTyped
<1>5. BudgetTypeOK' /\ FutureUnspent' /\ SpendSame
  BY <1>1, <1>4, UntouchedOK DEF BudgetTypeOK
<1>6. w \notin Permitted
  BY RunShape DEF ReadSpend, Busy, Permitted, Spending
<1>7. r.pc = "read" /\ r.job = j /\ r.seen = Spent
  BY DEF Spent
<1> HIDE DEF r
<1>8. CASE w \in Permitted'
  <2>1. Spent + Costs'[w] <= Limit
    BY <1>1, <1>7, <1>8, PermitsMove
  <2>2. Grants(w)
    BY <1>1, <1>5, <1>6, <1>8, <2>1, PermitsMove DEF Grants
  <2>3. \A v \in Permitted : Costs'[v] = Costs[v]
    BY <1>1, <1>6, PermitsMove
  <2> QED
    BY <1>5, <2>2, <2>3 DEF StepOK, Effect
<1>9. CASE w \notin Permitted'
  BY <1>1, <1>5, <1>6, <1>9, Stays DEF StepOK
<1> QED
  BY <1>8, <1>9

\* A run that read the spend and still fits has its permit; admission keeps it.
LEMMA AdmissionKeeps ==
    ASSUME BudgetTypeOK, NEW w \in Workers, run[w].pc = "read", FitsAlone(w),
           Becomes(w, Admitted(run[w].job)), SpendSame
    PROVE  Effect /\ Admitted(run[w].job) \in RunType
<1> DEFINE r == Admitted(run[w].job)
<1>1. run[w] \in Admitting
  BY RunShape
<1>2. run[w].job \in BudgetJobs /\ run[w].seen \in Nat
  BY <1>1 DEF Admitting
<1>3. EstimateOf(run[w].job) \in 1 .. ReservationMax
  BY <1>2, EstimateType
<1>4. run[w].seen + EstimateOf(run[w].job) <= Limit
  BY <1>2, <1>3, BudgetAssumption DEF FitsAlone, Remaining
<1>5. w \in Permitted /\ Costs[w] = EstimateOf(run[w].job)
  BY <1>4 DEF Permitted, Costs, Busy
<1>6. r.pc = "running" /\ r.job = run[w].job /\ r \in RunType
  BY <1>2 DEF Admitted, Working, RunType
<1> HIDE DEF r
<1>8. Becomes(w, r)
  BY DEF r
<1>9. w \in Permitted' /\ Costs'[w] = Costs[w]
  BY <1>5, <1>6, <1>8, PermitsMove
<1> QED
  BY <1>5, <1>6, <1>8, <1>9, Stays DEF r

LEMMA TryReserveStep ==
    ASSUME BudgetTypeOK, FutureUnspent, NEW w \in Workers, TryReserve(w)
    PROVE  StepOK
<1> DEFINE j == run[w].job
           kept == {e \in reserved : e.month # run[w].month \/ e.expires > clock}
           entry == [month |-> run[w].month, job |-> j, expires |-> clock + ReservationTtl]
<1>1. run[w] \in Admitting /\ Untouched /\ burned' = burned /\ burned \in Int
  BY RunShape DEF TryReserve, Untouched, pastVars, BudgetTypeOK
<1>2. j \in BudgetJobs /\ run[w].month \in Months
  BY <1>1 DEF Admitting
<1>3. entry \in Entry
  BY <1>2, BudgetAssumption DEF Entry, BudgetTypeOK
<1>4. kept \in SUBSET Entry
  BY DEF BudgetTypeOK
<1>5. SpendSame
  BY <1>1 DEF Untouched, SpendSame, Spent, ThisMonth
<1>6. CASE Accepts(w)
  <2>1. /\ reserved' = {e \in kept : e.month # run[w].month \/ e.job # j} \cup {entry}
        /\ Becomes(w, Admitted(j)) /\ slipped' = (slipped \/ Slips(w))
        /\ abandoned' = abandoned \ {j}
    BY <1>6 DEF TryReserve, Becomes
  <2>2. Effect /\ Admitted(j) \in RunType
    BY <1>5, <1>6, <2>1, AdmissionKeeps DEF Accepts, TryReserve
  <2>3. run' \in [Workers -> RunType]
    BY <2>1, <2>2, RunsTyped
  <2>4. reserved' \in SUBSET Entry
    BY <1>3, <1>4, <2>1
  <2>5. slipped' \in BOOLEAN /\ abandoned' \in SUBSET BudgetJobs
    BY <2>1 DEF Slips, BudgetTypeOK
  <2> QED
    BY <1>1, <2>2, <2>3, <2>4, <2>5, UntouchedOK DEF StepOK
<1>7. CASE ~Accepts(w)
  <2>1. reserved' = kept /\ Becomes(w, Idle) /\ slipped' = slipped /\ abandoned' = abandoned
    BY <1>7 DEF TryReserve, Becomes
  <2>2. Effect /\ run' \in [Workers -> RunType]
    BY <1>5, <2>1, IdleStops, RunsTyped
  <2> QED
    BY <1>1, <1>4, <2>1, <2>2, UntouchedOK DEF StepOK, BudgetTypeOK
<1> QED
  BY <1>6, <1>7

LEMMA AdmitDegradedStep ==
    ASSUME BudgetTypeOK, FutureUnspent, NEW w \in Workers, AdmitDegraded(w)
    PROVE  StepOK
<1>1. Untouched /\ UNCHANGED <<reserved, burned, abandoned>> /\ run[w].pc = "read"
  BY DEF AdmitDegraded, Untouched, pastVars
<1>2. SpendSame
  BY <1>1 DEF Untouched, SpendSame, Spent, ThisMonth
<1>3. CASE FitsAlone(w)
  <2>1. Becomes(w, Admitted(run[w].job)) /\ slipped' = TRUE
    BY <1>3 DEF AdmitDegraded, Becomes
  <2>2. Effect /\ run' \in [Workers -> RunType]
    BY <1>1, <1>2, <1>3, <2>1, AdmissionKeeps, RunsTyped
  <2> QED
    BY <1>1, <2>1, <2>2, UntouchedOK DEF StepOK, BudgetTypeOK
<1>4. CASE ~FitsAlone(w)
  <2>1. Becomes(w, Idle) /\ slipped' = slipped
    BY <1>4 DEF AdmitDegraded, Becomes
  <2>2. Effect /\ run' \in [Workers -> RunType]
    BY <1>2, <2>1, IdleStops, RunsTyped
  <2> QED
    BY <1>1, <2>1, <2>2, UntouchedOK DEF StepOK, BudgetTypeOK
<1> QED
  BY <1>3, <1>4

\* A working run moves on within its job.
LEMMA WorkingMoves ==
    ASSUME BudgetTypeOK, NEW w \in Workers, run[w] \in Working, NEW pc, NEW buffer \in Nat,
           pc \in {"running", "flushing", "releasing"},
           NEW r, r = [pc |-> pc, job |-> run[w].job, buffer |-> buffer], Becomes(w, r)
    PROVE  /\ r \in RunType
           /\ w \in Permitted' <=> pc \in {"running", "flushing"}
           /\ Costs'[w] = EstimateOf(run[w].job) /\ Costs[w] = EstimateOf(run[w].job)
           /\ w \in Permitted <=> run[w].pc \in {"running", "flushing"}
<1>1. run[w].job \in BudgetJobs /\ run[w].pc \in {"running", "flushing", "releasing"}
  BY DEF Working
<1>2. r \in RunType /\ r.pc = pc /\ r.job = run[w].job
  BY <1>1 DEF Working, RunType
<1>4. w \in Permitted' <=> pc \in {"running", "flushing"}
  BY <1>2, PermitsMove
<1>5. Costs'[w] = EstimateOf(run[w].job)
  BY <1>2, PermitsMove
<1>6. Costs[w] = EstimateOf(run[w].job) /\ (w \in Permitted <=> run[w].pc \in {"running", "flushing"})
  BY <1>1 DEF Costs, Busy, Permitted, Spending
<1> QED
  BY <1>2, <1>4, <1>5, <1>6

LEMMA ModelCallStep ==
    ASSUME BudgetTypeOK, FutureUnspent, NEW w \in Workers, ModelCall(w)
    PROVE  StepOK
<1> DEFINE r == [pc |-> "running", job |-> run[w].job, buffer |-> run[w].buffer + 1]
<1>1. run[w] \in Working /\ run[w].pc = "running"
  BY RunShape DEF ModelCall
<1>2. run[w].buffer + 1 \in Nat /\ [run[w] EXCEPT !.buffer = @ + 1] = r
  BY <1>1 DEF Working
<1>3. Becomes(w, r)
  BY <1>2 DEF ModelCall, Becomes
<1>4. Untouched /\ UNCHANGED <<reserved, slipped, abandoned>> /\ burned' \in Int
  BY DEF ModelCall, Untouched, pastVars, BudgetTypeOK
<1>5. r \in RunType /\ w \in Permitted' /\ Costs'[w] = Costs[w] /\ w \in Permitted
  BY <1>1, <1>2, <1>3, WorkingMoves
<1> HIDE DEF r
<1>6. run' \in [Workers -> RunType]
  BY <1>3, <1>5, RunsTyped
<1>7. BudgetTypeOK' /\ FutureUnspent' /\ SpendSame
  BY <1>4, <1>6, UntouchedOK DEF BudgetTypeOK
<1> QED
  BY <1>3, <1>5, <1>7, Stays DEF StepOK

LEMMA PhaseEndsStep ==
    ASSUME BudgetTypeOK, FutureUnspent, NEW w \in Workers, NEW raised \in BOOLEAN, PhaseEnds(w, raised)
    PROVE  StepOK
<1> DEFINE r == [pc |-> "flushing", job |-> run[w].job, buffer |-> run[w].buffer]
<1>1. run[w] \in Working /\ run[w].pc = "running"
  BY RunShape DEF PhaseEnds
<1>2. run[w].buffer \in Nat /\ [run[w] EXCEPT !.pc = "flushing"] = r
  BY <1>1 DEF Working
<1>3. Becomes(w, r)
  BY <1>2 DEF PhaseEnds, Becomes
<1>4. Untouched /\ UNCHANGED <<reserved, burned, slipped, abandoned>>
  BY DEF PhaseEnds, Untouched, pastVars
<1>5. r \in RunType /\ w \in Permitted' /\ Costs'[w] = Costs[w] /\ w \in Permitted
  BY <1>1, <1>2, <1>3, WorkingMoves
<1> HIDE DEF r
<1>6. run' \in [Workers -> RunType]
  BY <1>3, <1>5, RunsTyped
<1>7. BudgetTypeOK' /\ FutureUnspent' /\ SpendSame
  BY <1>4, <1>6, UntouchedOK DEF BudgetTypeOK
<1> QED
  BY <1>3, <1>5, <1>7, Stays DEF StepOK

LEMMA FlushUsageStep ==
    ASSUME BudgetTypeOK, FutureUnspent, NEW w \in Workers, FlushUsage(w)
    PROVE  StepOK
<1> DEFINE r == [pc |-> "releasing", job |-> run[w].job, buffer |-> 0]
           cost == run[w].buffer
<1>1. run[w] \in Working /\ run[w].pc = "flushing"
  BY RunShape DEF FlushUsage
<1>2. cost \in Nat
  BY <1>1 DEF Working
<1>3. Becomes(w, r)
  BY DEF FlushUsage, Becomes
<1>4. UNCHANGED <<clock, reserved, burned, slipped, abandoned>> /\ ThisMonth' = ThisMonth
  BY DEF FlushUsage, ThisMonth
<1>5. r \in RunType /\ w \notin Permitted' /\ w \in Permitted /\ Costs[w] = EstimateOf(run[w].job)
  <2>1. r = [pc |-> "releasing", job |-> run[w].job, buffer |-> 0]
        /\ 0 \in Nat /\ "releasing" \in {"running", "flushing", "releasing"}
    OBVIOUS
  <2> HIDE DEF r
  <2>2. /\ r \in RunType
        /\ w \in Permitted' <=> "releasing" \in {"running", "flushing"}
        /\ Costs[w] = EstimateOf(run[w].job)
        /\ w \in Permitted <=> run[w].pc \in {"running", "flushing"}
    BY <1>1, <1>3, <2>1, WorkingMoves
  <2> QED
    BY <1>1, <2>2
<1> HIDE DEF r
<1>6. run' \in [Workers -> RunType]
  BY <1>3, <1>5, RunsTyped
<1>7. Spent \in Nat /\ ThisMonth \in Months /\ passed \in Nat /\ overrun \in Nat
  BY Typed DEF BudgetTypeOK
<1>8. CASE /\ recorded' = [recorded EXCEPT ![ThisMonth] = @ + cost] /\ usageLost' = usageLost
           /\ Passes(w, recorded[ThisMonth] + cost)
  <2>1. Spent' = Spent + cost
    BY <1>4, <1>7, <1>8 DEF Spent, BudgetTypeOK
  <2>2. recorded' \in [Months -> Nat] /\ \A m \in Months : m # ThisMonth => recorded'[m] = recorded[m]
    BY <1>2, <1>7, <1>8 DEF Spent, BudgetTypeOK
  <2>3. FutureUnspent'
    <3> SUFFICES ASSUME NEW m \in Months, m > ThisMonth
                 PROVE  recorded'[m] = 0
      BY <1>4 DEF FutureUnspent
    <3>1. m # ThisMonth
      BY <1>7, BudgetAssumption, MonthType DEF Months
    <3> QED
      BY <2>2, <3>1 DEF FutureUnspent
  <2>4. IF Spent + cost > Limit
        THEN passed' = passed + 1 /\ overrun' = overrun + Excess(cost, Costs[w])
        ELSE passed' = passed /\ overrun' = overrun
    BY <1>5, <1>8 DEF Passes, Spent, pastVars
  <2>5. passed' \in Nat /\ overrun' \in Nat
    <3>1. EstimateOf(run[w].job) \in Nat
      BY <1>1, EstimateType, BudgetAssumption DEF Working
    <3>2. Excess(cost, Costs[w]) \in Nat
      BY <1>2, <1>5, <3>1 DEF Excess
    <3> QED
      BY <1>7, <2>4, <3>2
  <2>6. BudgetTypeOK'
    BY <1>4, <1>6, <1>8, <2>2, <2>5 DEF BudgetTypeOK, RunType
  <2>7. Settles(w, cost)
    BY <1>3, <1>5, <2>1, <2>4, Leaves DEF Settles
  <2>8. Effect
    BY <1>2, <1>3, <1>5, <2>7, Leaves DEF Effect
  <2> QED
    BY <2>3, <2>6, <2>8 DEF StepOK
<1>9. CASE recorded' = recorded /\ usageLost' = usageLost + cost /\ UNCHANGED pastVars
  <2>1. SpendSame
    BY <1>4, <1>9 DEF SpendSame, Spent, pastVars
  <2>2. BudgetTypeOK' /\ FutureUnspent'
    BY <1>2, <1>4, <1>6, <1>9 DEF BudgetTypeOK, FutureUnspent, RunType, pastVars
  <2> QED
    BY <1>3, <1>5, <2>1, <2>2, Stops DEF StepOK
<1> QED
  BY <1>8, <1>9 DEF FlushUsage

LEMMA ReleaseStep ==
    ASSUME BudgetTypeOK, FutureUnspent, NEW w \in Workers, Release(w)
    PROVE  StepOK
<1>1. Becomes(w, Idle) /\ Untouched /\ UNCHANGED <<burned, slipped>> /\ run[w].job \in BudgetJobs
  BY RunShape DEF Release, Becomes, Untouched, pastVars, Working
<1>2. reserved' \in SUBSET Entry /\ abandoned' \in SUBSET BudgetJobs
  BY <1>1 DEF Release, BudgetTypeOK
<1>3. SpendSame
  BY <1>1 DEF Untouched, SpendSame, Spent, ThisMonth
<1>4. Effect /\ run' \in [Workers -> RunType]
  BY <1>1, <1>3, IdleStops, RunsTyped
<1> QED
  BY <1>1, <1>2, <1>4, UntouchedOK DEF StepOK, BudgetTypeOK

LEMMA BudgetCrashStep ==
    ASSUME BudgetTypeOK, FutureUnspent, NEW w \in Workers, BudgetCrash(w)
    PROVE  StepOK
<1>1. Becomes(w, Idle) /\ Untouched /\ UNCHANGED <<reserved, slipped>>
  BY DEF BudgetCrash, Becomes, Untouched, pastVars
<1>2. InHand(w) => run[w].buffer \in Nat /\ run[w].job \in BudgetJobs
  BY RunShape DEF InHand, Working
<1>3. burned' \in Int /\ abandoned' \in SUBSET BudgetJobs
  BY <1>2 DEF BudgetCrash, BudgetTypeOK
<1>4. SpendSame
  BY <1>1 DEF Untouched, SpendSame, Spent, ThisMonth
<1>5. Effect /\ run' \in [Workers -> RunType]
  BY <1>1, <1>4, IdleStops, RunsTyped
<1> QED
  BY <1>1, <1>3, <1>5, UntouchedOK DEF StepOK, BudgetTypeOK

\* A month comes after the months that are over.
LEMMA TimePasses ==
    ASSUME BudgetTypeOK, BudgetTick
    PROVE  /\ clock' = clock + 1 /\ clock \in Nat /\ clock' \in 0 .. MaxClock
           /\ ThisMonth \in Nat /\ ThisMonth' \in Months /\ ThisMonth' \in Nat
           /\ ThisMonth <= ThisMonth'
           /\ ThisMonth' # ThisMonth => ThisMonth' > ThisMonth
<1>1. clock' = clock + 1 /\ clock \in Nat /\ clock' \in 0 .. MaxClock
  BY BudgetAssumption DEF BudgetTick, BudgetTypeOK
<1>2. ThisMonth \in Nat /\ ThisMonth <= ThisMonth' /\ ThisMonth' \in Months
  BY <1>1, MonthsPass, MonthType DEF ThisMonth
<1>3. ThisMonth' \in Nat
  BY <1>2, BudgetAssumption DEF Months, MonthOf
<1> QED
  BY <1>1, <1>2, <1>3

LEMMA BudgetTickStep ==
    ASSUME BudgetTypeOK, FutureUnspent, BudgetTick
    PROVE  StepOK
<1>1. UNCHANGED <<recorded, reserved, run, usageLost, burned, abandoned>>
  BY DEF BudgetTick
<1>2. /\ clock' \in 0 .. MaxClock /\ ThisMonth \in Nat /\ ThisMonth' \in Nat
      /\ ThisMonth <= ThisMonth' /\ ThisMonth' \in Months
      /\ ThisMonth' # ThisMonth => ThisMonth' > ThisMonth
  BY TimePasses
<1>3. slipped' \in BOOLEAN
  BY DEF BudgetTick, BudgetTypeOK
<1>4. /\ ThisMonth' = ThisMonth => passed' = passed /\ overrun' = overrun
      /\ ThisMonth' # ThisMonth => passed' = 0 /\ overrun' = 0
  BY DEF BudgetTick, ThisMonth, pastVars, MonthOf
<1>5. BudgetTypeOK'
  BY <1>1, <1>2, <1>3, <1>4 DEF BudgetTypeOK
<1>6. FutureUnspent'
  <2> SUFFICES ASSUME NEW m \in Months, m > ThisMonth'
               PROVE  recorded[m] = 0
    BY <1>1 DEF FutureUnspent
  <2>1. m > ThisMonth
    BY <1>2, BudgetAssumption DEF Months, MonthOf
  <2> QED
    BY <2>1 DEF FutureUnspent
<1>7. SpendSame \/ (Spent' = 0 /\ passed' = 0 /\ overrun' = 0)
  <2>1. CASE ThisMonth' = ThisMonth
    BY <1>1, <1>4, <2>1 DEF Spent, SpendSame
  <2>2. CASE ThisMonth' # ThisMonth
    BY <1>1, <1>2, <1>4, <2>2 DEF Spent, FutureUnspent
  <2> QED
    BY <2>1, <2>2
<1>8. Permitted' = Permitted /\ Costs' = Costs
  BY <1>1 DEF Permitted, Spending, Costs, Busy
<1> QED
  BY <1>5, <1>6, <1>7, <1>8 DEF StepOK, Effect, Keeps

LEMMA BudgetStepOK ==
    ASSUME BudgetTypeOK, FutureUnspent, [BudgetNext]_budgetVars
    PROVE  StepOK
<1>1. CASE BudgetNext
  BY <1>1, ReadSpendStep, TryReserveStep, AdmitDegradedStep, ModelCallStep, PhaseEndsStep,
     FlushUsageStep, ReleaseStep, BudgetCrashStep, BudgetTickStep DEF BudgetNext
<1>2. CASE UNCHANGED budgetVars
  BY <1>2 DEF budgetVars, pastVars, StepOK, BudgetTypeOK, FutureUnspent, Effect, Keeps, SpendSame,
              Spent, ThisMonth, Permitted, Spending, Costs, Busy
<1> QED
  BY <1>1, <1>2

-----------------------------------------------------------------------------
(* The inductive invariant.                                                 *)

LEMMA BudgetInitOK == BudgetInit => BudgetIInv
<1> SUFFICES ASSUME BudgetInit
             PROVE  BudgetIInv
  OBVIOUS
<1>1. \A w \in Workers : run[w] = Idle /\ run[w].pc = "idle"
  BY DEF BudgetInit, Idle
<1>2. Permitted = {}
  BY <1>1 DEF Permitted, Spending
<1>3. 0 \in 0 .. MaxClock /\ ThisMonth \in Months
  BY MonthType, BudgetAssumption DEF BudgetInit, ThisMonth
<1>4. BudgetTypeOK
  <2>1. recorded \in [Months -> Nat] /\ reserved \in SUBSET Entry
    BY DEF BudgetInit
  <2>2. run \in [Workers -> {Idle} \cup Admitting \cup Working]
    BY DEF BudgetInit
  <2>3. clock \in 0 .. MaxClock /\ usageLost \in Nat /\ burned \in Int
    BY <1>3 DEF BudgetInit
  <2>4. slipped \in BOOLEAN /\ passed \in Nat /\ overrun \in Nat /\ abandoned \in SUBSET BudgetJobs
    BY DEF BudgetInit
  <2> QED
    BY <2>1, <2>2, <2>3, <2>4 DEF BudgetTypeOK
<1>5. FutureUnspent
  BY DEF BudgetInit, FutureUnspent
<1>6. Spent = 0 /\ passed = 0 /\ overrun = 0 /\ 0 - 0 = 0
  BY <1>3 DEF BudgetInit, Spent
<1>7. 0 <= ExcessBound
  <2> DEFINE n == Cardinality(Workers)
  <2>1. n \in Nat /\ n # 0
    BY BudgetAssumption, FS_CardinalityType, FS_EmptySet
  <2> HIDE DEF n
  <2>2. ReservationMax * (n - 1) \in Nat
    BY <2>1, BudgetAssumption
  <2> QED
    BY <2>2, BudgetAssumption DEF ExcessBound, n
<1>8. RoomFor(Spent - overrun, Permitted, Costs)
  BY <1>2, <1>6, <1>7 DEF RoomFor
<1>9. RoomLeft
  BY <1>6, <1>8, BudgetAssumption DEF RoomLeft, RoomBeside
<1> QED
  BY <1>4, <1>5, <1>9 DEF BudgetIInv

LEMMA RoomKept ==
    ASSUME BudgetTypeOK, BudgetTypeOK', RoomLeft, Effect
    PROVE  RoomLeft'
<1>1. /\ Costs \in [Workers -> 0 .. ReservationMax] /\ Spent \in Nat
      /\ Permitted \in SUBSET Workers /\ passed \in Nat /\ overrun \in Nat
      /\ RoomBeside(Spent, overrun, passed, Permitted, Costs)
  BY Typed DEF RoomLeft, BudgetTypeOK
<1>2. Costs' \in [Workers -> 0 .. ReservationMax] /\ Permitted' \in SUBSET Workers
  BY TypedNext DEF TypedParts
<1>3. \A v \in Permitted \cap Permitted' : Costs[v] \in Nat /\ Costs'[v] = Costs[v]
  BY <1>1, BudgetAssumption DEF Effect
<1>4. RoomBeside(Spent', overrun', passed', Permitted', Costs') => RoomLeft'
  BY DEF RoomLeft, RoomBeside, RoomFor, Spent, ExcessBound
<1>5. CASE Keeps
  <2>1. /\ RoomBeside(Spent, overrun, passed, Permitted, Costs')
        /\ RoomBeside(0, 0, 0, Permitted, Costs')
    BY <1>1, <1>3, <1>5, BesideSame DEF Keeps
  <2> QED
    BY <1>4, <1>5, <2>1 DEF Keeps, SpendSame
<1>6. ASSUME NEW w \in Workers, Grants(w)
      PROVE  RoomLeft'
  <2>1. Costs'[w] \in 0 .. ReservationMax
    BY <1>2
  <2>2. RoomBeside(Spent, overrun, passed, Permitted \cup {w}, Costs')
    BY <1>1, <1>6, <2>1, BesideGrant DEF Grants
  <2> QED
    BY <1>4, <1>6, <2>2 DEF Grants, SpendSame
<1>7. ASSUME NEW c \in Nat, NEW o \in Nat, NEW p \in Nat, NEW w \in Permitted,
             Permitted' = Permitted \ {w}, Spent' = c, overrun' = o, passed' = p,
             RoomBeside(c, o, p, Permitted \ {w}, Costs)
      PROVE  RoomLeft'
  <2>1. RoomBeside(c, o, p, Permitted \ {w}, Costs')
    BY <1>1, <1>3, <1>7, BesideSame
  <2> QED
    BY <1>4, <1>7, <2>1
<1>8. ASSUME NEW w \in Permitted, Returns(w)
      PROVE  RoomLeft'
  <2>1. RoomBeside(Spent, overrun, passed, Permitted \ {w}, Costs)
    BY <1>1, BesideReturn
  <2> QED
    BY <1>1, <1>7, <1>8, <2>1 DEF Returns, SpendSame
<1>9. ASSUME NEW w \in Permitted, NEW cost \in Nat, Settles(w, cost)
      PROVE  RoomLeft'
  <2>1. PICK o \in Nat : overrun' = o
    BY DEF BudgetTypeOK
  <2>2. PICK p \in Nat : passed' = p
    BY DEF BudgetTypeOK
  <2>3. IF Spent + cost > Limit THEN p = passed + 1 /\ o = overrun + Excess(cost, Costs[w])
                                ELSE p = passed /\ o = overrun
    BY <1>9, <2>1, <2>2 DEF Settles
  <2>4. RoomBeside(Spent + cost, o, p, Permitted \ {w}, Costs)
    BY <1>1, <2>3, BesideSettle
  <2>5. Spent + cost \in Nat
    BY <1>1
  <2> QED
    BY <1>7, <1>9, <2>1, <2>2, <2>4, <2>5 DEF Settles
<1> QED
  BY <1>5, <1>6, <1>8, <1>9 DEF Effect

(***************************************************************************)
(* The inductive invariant of the budget: types, no usage in a month to    *)
(* come, room under the bound for what the admitted runs were estimated    *)
(* to cost, and no more of them than may still pass the ceiling.           *)
(***************************************************************************)
THEOREM BudgetInvariance == BudgetSpec => []BudgetIInv
<1>1. BudgetIInv /\ [BudgetNext]_budgetVars => BudgetIInv'
  BY BudgetStepOK, RoomKept DEF BudgetIInv, StepOK
<1> QED
  BY BudgetInitOK, <1>1, PTL DEF BudgetSpec

(***************************************************************************)
(* No more runs than there are workers book usage above the month's        *)
(* ceiling, and the spend exceeds it by no more than the largest estimate  *)
(* of all workers but one and what those runs cost beyond their estimates: *)
(* Redis may be down, snapshots stale, reservations expired, and the month *)
(* may turn during a run (admit_job_sync, try_reserve,                     *)
(* release_job_reservation).                                               *)
(***************************************************************************)
THEOREM SpendIsBounded == BudgetSpec => []SpendBounded
<1>1. BudgetIInv => SpendBounded
  <2> SUFFICES ASSUME BudgetIInv
               PROVE  SpendBounded
    OBVIOUS
  <2>1. /\ Costs \in [Workers -> 0 .. ReservationMax] /\ Spent \in Nat /\ overrun \in Nat /\ passed \in Nat
        /\ Permitted \in SUBSET Workers /\ RoomBeside(Spent, overrun, passed, Permitted, Costs)
    BY Typed DEF BudgetIInv, RoomLeft, BudgetTypeOK
  <2>2. Spent - overrun <= ExcessBound
    <3>1. Spent - overrun \in Int /\ RoomFor(Spent - overrun, Permitted, Costs)
      BY <2>1 DEF RoomBeside
    <3> QED
      BY <2>1, <3>1, RoomBounds
  <2>3. Spent <= ExcessBound + overrun
    BY <2>1, <2>2, Fewer
  <2>4. passed <= Cardinality(Workers)
    <3>1. Cardinality(Permitted) \in Nat /\ Cardinality(Workers) \in Nat
      BY <2>1, Fewer, BudgetAssumption, FS_CardinalityType
    <3> QED
      BY <2>1, <3>1, BudgetAssumption DEF RoomBeside
  <2> QED
    BY <2>3, <2>4 DEF SpendBounded, ExcessBound, Spent
<1> QED
  BY <1>1, BudgetInvariance, PTL

-----------------------------------------------------------------------------
(* Where the cost of the model calls is.                                    *)

\* What a worker in state r has spent and not written yet.
BufferOf(r) == IF r \in Working THEN r.buffer ELSE 0

Buffered == SumFunctionOnSet([w \in Workers |-> BufferOf(run[w])], Workers)
Recorded == SumFunctionOnSet(recorded, Months)

\* A run writes its buffer before it gives its reservation back.
BuffersFlushed == \A w \in Workers : run[w].pc = "releasing" => run[w].buffer = 0

UsageIInv == BudgetTypeOK /\ FutureUnspent /\ BuffersFlushed /\ UsageAccounted

LEMMA BufferType ==
    ASSUME NEW r \in RunType
    PROVE  BufferOf(r) \in Nat
BY DEF BufferOf, Working

LEMMA BufferMoves ==
    ASSUME BudgetTypeOK, BudgetTypeOK', NEW w \in Workers, NEW r, Becomes(w, r)
    PROVE  /\ r \in RunType
           /\ BufferOf(r) \in Nat /\ BufferOf(run[w]) \in Nat /\ Buffered \in Int
           /\ Buffered' = Buffered - BufferOf(run[w]) + BufferOf(r)
<1> DEFINE f == [v \in Workers |-> BufferOf(run[v])]
           g == [v \in Workers |-> BufferOf(run'[v])]
<1>1. run \in [Workers -> RunType] /\ run' \in [Workers -> RunType]
  BY DEF BudgetTypeOK, RunType
<1>2. \A v \in Workers : run'[v] = IF v = w THEN r ELSE run[v]
  BY <1>1 DEF Becomes
<1>3. r \in RunType
  BY <1>1, <1>2
<1>4. \A v \in Workers : f[v] \in Int /\ g[v] \in Int
  BY <1>1, BufferType
<1>5. (\A v \in Workers \ {w} : g[v] = f[v]) /\ f[w] = BufferOf(run[w]) /\ g[w] = BufferOf(r)
  BY <1>2
<1>6. Buffered = SumFunctionOnSet(f, Workers) /\ Buffered' = SumFunctionOnSet(g, Workers)
  BY DEF Buffered
<1> HIDE DEF f, g
<1>7. /\ SumFunctionOnSet(f, Workers) \in Int
      /\ SumFunctionOnSet(g, Workers) = SumFunctionOnSet(f, Workers) - f[w] + g[w]
  BY <1>4, <1>5, SumChange, BudgetAssumption
<1>8. BufferOf(r) \in Nat /\ BufferOf(run[w]) \in Nat
  BY <1>1, <1>3, BufferType
<1> QED
  BY <1>3, <1>5, <1>6, <1>7, <1>8

LEMMA MonthsFinite == IsFiniteSet(Months)
<1>1. MonthOf(MaxClock) \in Int
  BY BudgetAssumption DEF MonthOf
<1> QED
  BY <1>1, FS_Interval DEF Months

LEMMA RecordedType ==
    ASSUME BudgetTypeOK
    PROVE  Recorded \in Int
<1>1. \A m \in Months : recorded[m] \in Int
  BY DEF BudgetTypeOK
<1> QED
  BY <1>1, MonthsFinite, SumType DEF Recorded

LEMMA RecordedAdds ==
    ASSUME BudgetTypeOK, NEW cost \in Nat, recorded' = [recorded EXCEPT ![ThisMonth] = @ + cost]
    PROVE  Recorded' = Recorded + cost
<1> DEFINE m == ThisMonth
           g == [recorded EXCEPT ![m] = @ + cost]
<1>1. m \in Months /\ recorded \in [Months -> Nat]
  BY Typed DEF BudgetTypeOK
<1>2. /\ \A y \in Months : recorded[y] \in Int
      /\ \A y \in Months \ {m} : g[y] = recorded[y]
      /\ g[m] = recorded[m] + cost /\ g[m] \in Int
  BY <1>1
<1>3. Recorded' = SumFunctionOnSet(g, Months)
  BY DEF Recorded, Months, MonthOf
<1> HIDE DEF g, m
<1>4. /\ SumFunctionOnSet(recorded, Months) \in Int
      /\ SumFunctionOnSet(g, Months) = SumFunctionOnSet(recorded, Months) - recorded[m] + g[m]
  BY <1>1, <1>2, MonthsFinite, SumChange
<1>5. recorded[m] \in Int
  BY <1>1, <1>2
<1> QED
  BY <1>2, <1>3, <1>4, <1>5 DEF Recorded

\* Every cost is somewhere, in these words.
LEMMA AccountedAs == UsageAccounted <=> burned = Recorded + usageLost + Buffered
BY DEF UsageAccounted, Recorded, Buffered, BufferOf

LEMMA AccountedAsNext == UsageAccounted' <=> burned' = Recorded' + usageLost' + Buffered'
BY DEF UsageAccounted, Recorded, Buffered, BufferOf

\* What a step of w has to do to the amounts: the difference is booked.
LEMMA Booked ==
    ASSUME BudgetTypeOK, BudgetTypeOK', UsageAccounted, NEW w \in Workers, NEW r, Becomes(w, r),
           NEW a \in Nat, Recorded' = Recorded + a, NEW b \in Nat, usageLost' = usageLost + b,
           burned' = burned + a + b + BufferOf(r) - BufferOf(run[w])
    PROVE  UsageAccounted'
<1>1. burned = Recorded + usageLost + Buffered
  BY AccountedAs
<1>2. /\ BufferOf(r) \in Nat /\ BufferOf(run[w]) \in Nat /\ Buffered \in Int
      /\ Buffered' = Buffered - BufferOf(run[w]) + BufferOf(r)
  BY BufferMoves
<1>3. Recorded \in Int /\ usageLost \in Int /\ burned \in Int
  BY RecordedType DEF BudgetTypeOK
<1>4. burned' = Recorded' + usageLost' + Buffered'
  BY <1>1, <1>2, <1>3
<1> QED
  BY <1>4, AccountedAsNext

LEMMA FlushedMoves ==
    ASSUME BudgetTypeOK, BuffersFlushed, NEW w \in Workers, NEW r, Becomes(w, r),
           r.pc = "releasing" => r.buffer = 0
    PROVE  BuffersFlushed'
<1>1. \A v \in Workers : run'[v] = IF v = w THEN r ELSE run[v]
  BY DEF BudgetTypeOK, Becomes
<1> QED
  BY <1>1 DEF BuffersFlushed

\* A step of w that neither writes nor loses usage.
LEMMA NothingBooked ==
    ASSUME BudgetTypeOK, BudgetTypeOK', UsageIInv, NEW w \in Workers, NEW r, Becomes(w, r),
           r.pc = "releasing" => r.buffer = 0,
           recorded' = recorded, usageLost' = usageLost,
           burned' = burned + BufferOf(r) - BufferOf(run[w])
    PROVE  UsageAccounted' /\ BuffersFlushed'
<1>1. Recorded' = Recorded
  BY DEF Recorded, Months, MonthOf
<1>2. Recorded \in Int /\ usageLost \in Int /\ burned \in Int
  BY RecordedType DEF BudgetTypeOK
<1>3. BufferOf(r) \in Nat /\ BufferOf(run[w]) \in Nat
  BY BufferMoves
<1>4. /\ Recorded' = Recorded + 0 /\ usageLost' = usageLost + 0
      /\ burned' = burned + 0 + 0 + BufferOf(r) - BufferOf(run[w])
  BY <1>1, <1>2, <1>3
<1>5. UsageAccounted'
  BY <1>4, Booked DEF UsageIInv
<1> QED
  BY <1>5, FlushedMoves DEF UsageIInv

LEMMA UsageStep ==
    ASSUME UsageIInv, BudgetTypeOK', NEW w \in Workers,
           \/ \E j \in BudgetJobs : ReadSpend(w, j)
           \/ TryReserve(w) \/ AdmitDegraded(w) \/ ModelCall(w)
           \/ \E raised \in BOOLEAN : PhaseEnds(w, raised)
           \/ FlushUsage(w) \/ Release(w) \/ BudgetCrash(w)
    PROVE  UsageAccounted' /\ BuffersFlushed'
<1> USE DEF UsageIInv
<1>1. BufferOf(Idle) = 0 /\ Idle.pc # "releasing" /\ burned \in Int
  BY DEF BufferOf, Idle, Working, BudgetTypeOK
<1>2. run[w].pc \in {"idle", "read"} => BufferOf(run[w]) = 0
  BY DEF BufferOf, Working
<1>3. BufferOf(run[w]) \in Nat
  BY BufferType, RunShape
<1>4. ASSUME NEW j \in BudgetJobs, ReadSpend(w, j)
      PROVE  UsageAccounted' /\ BuffersFlushed'
  <2> DEFINE r == [pc |-> "read", job |-> j, seen |-> recorded[ThisMonth], month |-> ThisMonth]
  <2>1. Becomes(w, r) /\ r.pc = "read" /\ UNCHANGED <<recorded, usageLost, burned>>
    BY <1>4 DEF ReadSpend, Becomes
  <2>2. run[w].pc = "idle" /\ BufferOf(r) = 0
    BY <1>4 DEF ReadSpend, Busy, BufferOf, Working
  <2> HIDE DEF r
  <2> QED
    BY <1>1, <1>2, <2>1, <2>2, NothingBooked
<1>5. CASE run[w].pc = "read" /\ Becomes(w, Idle) /\ UNCHANGED <<recorded, usageLost, burned>>
  BY <1>1, <1>2, <1>5, NothingBooked
<1>6. CASE /\ run[w].pc = "read" /\ Becomes(w, Admitted(run[w].job))
           /\ UNCHANGED <<recorded, usageLost, burned>>
  <2> DEFINE r == Admitted(run[w].job)
  <2>1. r.pc = "running" /\ BufferOf(r) = 0
    BY DEF Admitted, BufferOf
  <2> HIDE DEF r
  <2>2. Becomes(w, r)
    BY <1>6 DEF r
  <2> QED
    BY <1>1, <1>2, <1>6, <2>1, <2>2, NothingBooked
<1>7. CASE TryReserve(w) \/ AdmitDegraded(w)
  BY <1>5, <1>6, <1>7 DEF TryReserve, AdmitDegraded, Becomes
<1>8. CASE ModelCall(w)
  <2> DEFINE r == [pc |-> "running", job |-> run[w].job, buffer |-> run[w].buffer + 1]
  <2>1. run[w] \in Working /\ run[w].pc = "running"
    BY <1>8, RunShape DEF ModelCall
  <2>2. run[w].job \in BudgetJobs /\ run[w].buffer \in Nat /\ [run[w] EXCEPT !.buffer = @ + 1] = r
    BY <2>1 DEF Working
  <2>3. Becomes(w, r) /\ UNCHANGED <<recorded, usageLost>> /\ burned' = burned + 1
    BY <1>8, <2>2 DEF ModelCall, Becomes
  <2>4. BufferOf(r) = run[w].buffer + 1 /\ BufferOf(run[w]) = run[w].buffer /\ r.pc = "running"
    BY <2>1, <2>2 DEF BufferOf, Working
  <2> HIDE DEF r
  <2>5. burned' = burned + BufferOf(r) - BufferOf(run[w])
    BY <1>1, <2>2, <2>3, <2>4
  <2> QED
    BY <2>3, <2>4, <2>5, NothingBooked
<1>9. ASSUME NEW raised \in BOOLEAN, PhaseEnds(w, raised)
      PROVE  UsageAccounted' /\ BuffersFlushed'
  <2> DEFINE r == [pc |-> "flushing", job |-> run[w].job, buffer |-> run[w].buffer]
  <2>1. run[w] \in Working /\ run[w].pc = "running"
    BY <1>9, RunShape DEF PhaseEnds
  <2>2. run[w].job \in BudgetJobs /\ run[w].buffer \in Nat /\ [run[w] EXCEPT !.pc = "flushing"] = r
    BY <2>1 DEF Working
  <2>3. Becomes(w, r) /\ UNCHANGED <<recorded, usageLost, burned>>
    BY <1>9, <2>2 DEF PhaseEnds, Becomes
  <2>4. BufferOf(r) = run[w].buffer /\ BufferOf(run[w]) = run[w].buffer /\ r.pc = "flushing"
    BY <2>1, <2>2 DEF BufferOf, Working
  <2> HIDE DEF r
  <2>5. burned' = burned + BufferOf(r) - BufferOf(run[w])
    BY <1>1, <2>2, <2>3, <2>4
  <2> QED
    BY <2>3, <2>4, <2>5, NothingBooked
<1>10. CASE FlushUsage(w)
  <2> DEFINE r == [pc |-> "releasing", job |-> run[w].job, buffer |-> 0]
             cost == run[w].buffer
  <2>1. run[w] \in Working /\ run[w].pc = "flushing"
    BY <1>10, RunShape DEF FlushUsage
  <2>2. run[w].job \in BudgetJobs /\ cost \in Nat
    BY <2>1 DEF Working
  <2>3. Becomes(w, r) /\ burned' = burned
    BY <1>10 DEF FlushUsage, Becomes
  <2>4. BufferOf(r) = 0 /\ BufferOf(run[w]) = cost /\ r.buffer = 0
    BY <2>1, <2>2 DEF BufferOf, Working
  <2>5. Recorded \in Int /\ usageLost \in Int
    BY RecordedType DEF BudgetTypeOK
  <2> HIDE DEF r, cost
  <2>6. BuffersFlushed'
    BY <2>3, <2>4, FlushedMoves
  <2>7. /\ burned' = burned + cost + 0 + BufferOf(r) - BufferOf(run[w])
        /\ burned' = burned + 0 + cost + BufferOf(r) - BufferOf(run[w])
    BY <1>1, <2>2, <2>3, <2>4
  <2>8. CASE recorded' = [recorded EXCEPT ![ThisMonth] = @ + cost] /\ usageLost' = usageLost
    <3>1. Recorded' = Recorded + cost
      BY <2>2, <2>8, RecordedAdds
    <3>2. usageLost' = usageLost + 0
      BY <2>5, <2>8
    <3> QED
      BY <2>2, <2>3, <2>6, <2>7, <3>1, <3>2, Booked
  <2>9. CASE recorded' = recorded /\ usageLost' = usageLost + cost
    <3>1. Recorded' = Recorded
      BY <2>9 DEF Recorded, Months, MonthOf
    <3>2. Recorded' = Recorded + 0
      BY <2>5, <3>1
    <3> QED
      BY <2>2, <2>3, <2>6, <2>7, <2>9, <3>2, Booked
  <2> QED
    BY <1>10, <2>8, <2>9 DEF FlushUsage, cost
<1>11. CASE Release(w)
  <2>1. Becomes(w, Idle) /\ UNCHANGED <<recorded, usageLost, burned>> /\ run[w].pc = "releasing"
    BY <1>11 DEF Release, Becomes
  <2>2. BufferOf(run[w]) = 0
    BY <2>1 DEF BuffersFlushed, BufferOf
  <2> QED
    BY <1>1, <2>1, <2>2, NothingBooked
<1>12. CASE BudgetCrash(w)
  <2>1. Becomes(w, Idle) /\ UNCHANGED <<recorded, usageLost>>
    BY <1>12 DEF BudgetCrash, Becomes
  <2>2. burned' = burned - BufferOf(run[w])
    <3>1. CASE run[w].pc = "read"
      BY <1>1, <1>2, <1>12, <3>1 DEF BudgetCrash, InHand
    <3>2. CASE run[w].pc # "read"
      <4>1. run[w] \in Working /\ InHand(w)
        BY <1>12, <3>2, RunShape DEF BudgetCrash, Busy, InHand
      <4> QED
        BY <1>12, <4>1 DEF BudgetCrash, BufferOf
    <3> QED
      BY <3>1, <3>2
  <2>3. burned' = burned + BufferOf(Idle) - BufferOf(run[w])
    BY <1>1, <1>3, <2>2
  <2> QED
    BY <1>1, <2>1, <2>3, NothingBooked
<1> QED
  BY <1>4, <1>7, <1>8, <1>9, <1>10, <1>11, <1>12

(***************************************************************************)
(* What the model calls of runs that did not crash cost is in the usage    *)
(* table, in the counter of lost usage or in a live buffer, whatever the   *)
(* phase raises, the database refuses or another worker does meanwhile     *)
(* (_flush_llm_usage in the finally of the extracting phase).              *)
(***************************************************************************)
THEOREM UsageIsAccounted == BudgetSpec => []UsageAccounted
<1>1. BudgetInit => UsageIInv
  <2> SUFFICES ASSUME BudgetInit
               PROVE  UsageIInv
    OBVIOUS
  <2>1. BudgetTypeOK /\ FutureUnspent
    BY BudgetInitOK DEF BudgetIInv
  <2>2. \A w \in Workers : run[w] = Idle /\ run[w].pc = "idle"
    BY DEF BudgetInit, Idle
  <2>3. \A w \in Workers : [v \in Workers |-> BufferOf(run[v])][w] = 0
    BY <2>2 DEF BufferOf, Idle, Working
  <2>4. Buffered = 0
    BY <2>3, SumZero, BudgetAssumption DEF Buffered
  <2>5. \A m \in Months : recorded[m] = 0
    BY DEF BudgetInit
  <2>6. Recorded = 0
    BY <2>5, SumZero, MonthsFinite DEF Recorded
  <2>7. burned = Recorded + usageLost + Buffered
    BY <2>4, <2>6 DEF BudgetInit
  <2> QED
    BY <2>1, <2>2, <2>7, AccountedAs DEF UsageIInv, BuffersFlushed
<1>2. UsageIInv /\ [BudgetNext]_budgetVars => UsageIInv'
  <2> SUFFICES ASSUME UsageIInv, [BudgetNext]_budgetVars
               PROVE  UsageIInv'
    OBVIOUS
  <2>1. BudgetTypeOK' /\ FutureUnspent'
    BY BudgetStepOK DEF StepOK, UsageIInv
  <2>2. CASE BudgetTick \/ UNCHANGED budgetVars
    <3>1. UNCHANGED <<recorded, run, usageLost, burned>>
      BY <2>2 DEF BudgetTick, budgetVars
    <3>2. Recorded' = Recorded /\ Buffered' = Buffered /\ BuffersFlushed'
      BY <3>1 DEF Recorded, Buffered, Months, MonthOf, UsageIInv, BuffersFlushed
    <3> QED
      BY <2>1, <3>1, <3>2, AccountedAs, AccountedAsNext DEF UsageIInv
  <2>3. CASE ~ (BudgetTick \/ UNCHANGED budgetVars)
    BY <2>1, <2>3, UsageStep DEF BudgetNext, UsageIInv
  <2> QED
    BY <2>2, <2>3
<1>3. UsageIInv => UsageAccounted
  BY DEF UsageIInv
<1> QED
  BY <1>1, <1>2, <1>3, PTL DEF BudgetSpec

-----------------------------------------------------------------------------
(* Admitted runs and the entries that hold their estimates.                 *)

\* What a worker in state r was promised: the estimate of its run.
PromiseOf(r) == IF r.pc \in {"running", "flushing"} THEN EstimateOf(r.job) ELSE 0

Promised == SumFunctionOnSet([w \in Workers |-> PromiseOf(run[w])], Workers)

\* R holds a live entry of job j.
HeldFor(R, j) == \E e \in R : e.month = ThisMonth /\ e.job = j /\ e.expires > clock

\* Every admitted run is held by an entry of its job, and no job is admitted twice.
Covered == \A w \in Spending : HeldFor(reserved, run[w].job)
Apart == \A v, w \in Workers : InHand(v) /\ InHand(w) /\ run[v].job = run[w].job => v = w

\* Nobody reserves in a month to come.
NotAhead ==
    /\ \A e \in reserved : e.month <= ThisMonth
    /\ \A w \in Workers : run[w].pc = "read" => run[w].month <= ThisMonth

LedgerIInv ==
    /\ BudgetTypeOK /\ FutureUnspent /\ NotAhead
    /\ IsFiniteSet(reserved)
    /\ ~slipped => Covered /\ Apart

LEMMA PromiseType ==
    ASSUME NEW r \in RunType
    PROVE  PromiseOf(r) \in Nat
<1>1. CASE r.pc \in {"running", "flushing"}
  <2>1. r.job \in BudgetJobs
    BY <1>1 DEF RunType, Idle, Admitting, Working
  <2> QED
    BY <1>1, <2>1, EstimateType, BudgetAssumption DEF PromiseOf
<1>2. CASE r.pc \notin {"running", "flushing"}
  BY <1>2 DEF PromiseOf
<1> QED
  BY <1>1, <1>2

LEMMA PromiseMoves ==
    ASSUME BudgetTypeOK, BudgetTypeOK', NEW w \in Workers, NEW r, Becomes(w, r)
    PROVE  /\ PromiseOf(r) \in Nat /\ PromiseOf(run[w]) \in Nat /\ Promised \in Int
           /\ Promised' = Promised - PromiseOf(run[w]) + PromiseOf(r)
<1> DEFINE f == [v \in Workers |-> PromiseOf(run[v])]
           g == [v \in Workers |-> PromiseOf(run'[v])]
<1>1. run \in [Workers -> RunType] /\ run' \in [Workers -> RunType]
  BY DEF BudgetTypeOK, RunType
<1>2. \A v \in Workers : run'[v] = IF v = w THEN r ELSE run[v]
  BY <1>1 DEF Becomes
<1>3. r \in RunType
  BY <1>1, <1>2
<1>4. \A v \in Workers : f[v] \in Int /\ g[v] \in Int
  BY <1>1, PromiseType
<1>5. (\A v \in Workers \ {w} : g[v] = f[v]) /\ f[w] = PromiseOf(run[w]) /\ g[w] = PromiseOf(r)
  BY <1>2
<1>6. Promised = SumFunctionOnSet(f, Workers) /\ Promised' = SumFunctionOnSet(g, Workers)
  BY DEF Promised, PromiseOf, EstimateOf
<1> HIDE DEF f, g
<1>7. /\ SumFunctionOnSet(f, Workers) \in Int
      /\ SumFunctionOnSet(g, Workers) = SumFunctionOnSet(f, Workers) - f[w] + g[w]
  BY <1>4, <1>5, SumChange, BudgetAssumption
<1>8. PromiseOf(r) \in Nat /\ PromiseOf(run[w]) \in Nat
  BY <1>1, <1>3, PromiseType
<1> QED
  BY <1>5, <1>6, <1>7, <1>8

\* The entries of other jobs hold at least what the admitted runs were promised.
LEMMA OthersHold ==
    ASSUME BudgetTypeOK, IsFiniteSet(reserved), Covered, Apart,
           NEW w \in Workers, run[w].pc = "read", ~Slips(w)
    PROVE  Promised <= HeldByOthers(w) /\ HeldByOthers(w) \in Int /\ Promised \in Int
<1> DEFINE held == {e \in reserved : /\ e.month = run[w].month
                                     /\ e.expires > clock
                                     /\ e.job # run[w].job}
           g == [e \in reserved |-> EstimateOf(e.job)]
           f == [v \in Workers |-> PromiseOf(run[v])]
           m == [v \in Spending |-> CHOOSE e \in reserved : /\ e.month = ThisMonth
                                                            /\ e.job = run[v].job
                                                            /\ e.expires > clock]
<1>1. run[w].month = ThisMonth /\ \A v \in Workers \ {w} : InHand(v) => run[v].job # run[w].job
  BY DEF Slips
<1>2. \A v \in Spending : v \in Workers /\ InHand(v) /\ run[v].job # run[w].job
  BY <1>1 DEF Spending, InHand
<1>3. ASSUME NEW v \in Spending
      PROVE  m[v] \in held /\ m[v].job = run[v].job
  <2>1. \E e \in reserved : e.month = ThisMonth /\ e.job = run[v].job /\ e.expires > clock
    BY DEF Covered, HeldFor
  <2>2. /\ m[v] \in reserved /\ m[v].month = ThisMonth
        /\ m[v].job = run[v].job /\ m[v].expires > clock
    BY <2>1
  <2> QED
    BY <1>1, <1>2, <2>2
<1>4. \A x, y \in Spending : m[x] = m[y] => x = y
  <2> HIDE DEF m
  <2> QED
    BY <1>2, <1>3 DEF Apart
<1>5. \A e \in reserved : e.job \in BudgetJobs /\ g[e] = EstimateOf(e.job)
  BY DEF BudgetTypeOK, Entry
<1>6. \A e \in held : g[e] \in Nat
  BY <1>5, EstimateType, BudgetAssumption
<1>7. \A v \in Workers : f[v] \in Int /\ (v \notin Spending => f[v] = 0)
  <2> SUFFICES ASSUME NEW v \in Workers
               PROVE  f[v] \in Int /\ (v \notin Spending => f[v] = 0)
    OBVIOUS
  <2>1. PromiseOf(run[v]) \in Nat
    BY PromiseType, RunShape
  <2>2. v \notin Spending => PromiseOf(run[v]) = 0
    BY DEF PromiseOf, Spending
  <2> QED
    BY <2>1, <2>2
<1>8. \A v \in Spending : m[v] \in held /\ f[v] \in Int /\ f[v] <= g[m[v]]
  <2> SUFFICES ASSUME NEW v \in Spending
               PROVE  m[v] \in held /\ f[v] \in Int /\ f[v] <= g[m[v]]
    OBVIOUS
  <2>1. f[v] = EstimateOf(run[v].job)
    BY DEF PromiseOf, Spending
  <2>2. m[v] \in held /\ m[v] \in reserved /\ m[v].job = run[v].job
    BY <1>3
  <2>3. g[m[v]] = EstimateOf(run[v].job) /\ f[v] \in Int
    <3> HIDE DEF g, f, m
    <3> QED
      BY <1>2, <1>5, <1>7, <2>2
  <2> HIDE DEF g, f, m, held
  <2> QED
    BY <2>1, <2>2, <2>3
<1>9. /\ IsFiniteSet(held) /\ Spending \in SUBSET Workers /\ IsFiniteSet(Spending)
      /\ IsFiniteSet(Workers)
  BY FS_Subset, BudgetAssumption DEF Spending
<1>10. Promised = SumFunctionOnSet(f, Workers) /\ HeldByOthers(w) = SumFunctionOnSet(g, held)
  BY DEF Promised, HeldByOthers
<1> HIDE DEF held, f, g, m
<1>11. SumFunctionOnSet(f, Workers) = SumFunctionOnSet(f, Spending)
  BY <1>7, <1>9, SumSupport
<1>12. SumFunctionOnSet(f, Spending) <= SumFunctionOnSet(g, held)
  BY <1>4, <1>6, <1>8, <1>9, SumInjection
<1>13. SumFunctionOnSet(g, held) \in Int
  BY <1>6, <1>9, SumType
<1>14. SumFunctionOnSet(f, Workers) \in Int
  BY <1>7, <1>9, SumType
<1> QED
  BY <1>10, <1>11, <1>12, <1>13, <1>14

\* What the script accepts fits beside everything promised.
LEMMA AdmissionFits ==
    ASSUME BudgetTypeOK, IsFiniteSet(reserved), Covered, Apart,
           NEW w \in Workers, run[w].pc = "read", Accepts(w), ~Slips(w)
    PROVE  Spent + EstimateOf(run[w].job) + Promised <= Limit
<1>1. run[w] \in Admitting /\ run[w].job \in BudgetJobs /\ run[w].seen \in Nat
  BY RunShape DEF Admitting
<1>2. EstimateOf(run[w].job) \in Int /\ EstimateOf(run[w].job) >= 1
  BY <1>1, EstimateType, BudgetAssumption
<1>3. run[w].seen = Spent
  BY DEF Slips, Spent
<1>4. Remaining(w) = Limit - Spent
  BY <1>1, <1>2, <1>3 DEF Accepts, FitsAlone, Remaining
<1>5. HeldByOthers(w) + EstimateOf(run[w].job) <= Limit - Spent
  BY <1>4 DEF Accepts
<1>6. Promised <= HeldByOthers(w) /\ HeldByOthers(w) \in Int /\ Promised \in Int
  BY OthersHold
<1> QED
  BY <1>1, <1>2, <1>3, <1>5, <1>6, BudgetAssumption

-----------------------------------------------------------------------------
(* What a step does to the entries.                                         *)

\* The months are kept in order by a step of w to r in the same month.
LEMMA NotAheadMoves ==
    ASSUME BudgetTypeOK, NotAhead, clock' = clock, NEW w \in Workers, NEW r, Becomes(w, r),
           r.pc = "read" => r.month <= ThisMonth,
           \A e \in reserved' : e \in reserved \/ e.month <= ThisMonth
    PROVE  NotAhead'
<1>1. \A v \in Workers : run'[v] = IF v = w THEN r ELSE run[v]
  BY DEF BudgetTypeOK, Becomes
<1>2. ThisMonth' = ThisMonth
  BY DEF ThisMonth, MonthOf
<1> QED
  BY <1>1, <1>2 DEF NotAhead

\* A step of w to r keeps the admitted runs covered and apart.
LEMMA CoverMoves ==
    ASSUME BudgetTypeOK, Covered, Apart, clock' = clock,
           NEW w \in Workers, NEW r, Becomes(w, r),
           \A v \in Spending \ {w} : HeldFor(reserved, run[v].job) => HeldFor(reserved', run[v].job),
           r.pc \in {"running", "flushing"} => HeldFor(reserved', r.job),
           r.pc \in {"running", "flushing", "releasing"} =>
              \A v \in Workers \ {w} : InHand(v) => run[v].job # r.job
    PROVE  Covered' /\ Apart'
<1>1. \A v \in Workers : run'[v] = IF v = w THEN r ELSE run[v]
  BY DEF BudgetTypeOK, Becomes
<1>2. \A j : HeldFor(reserved, j)' <=> HeldFor(reserved', j)
  BY DEF HeldFor, ThisMonth, MonthOf
<1>3. ASSUME NEW v \in Spending'
      PROVE  HeldFor(reserved', run'[v].job)
  <2>1. CASE v = w
    BY <1>1, <1>3, <2>1 DEF Spending
  <2>2. CASE v # w
    <3>1. v \in Spending \ {w} /\ run'[v] = run[v]
      BY <1>1, <1>3, <2>2 DEF Spending
    <3> QED
      BY <3>1 DEF Covered
  <2> QED
    BY <2>1, <2>2
<1>4. Covered'
  BY <1>3 DEF Covered, HeldFor, ThisMonth, MonthOf
<1>5. Apart'
  <2> SUFFICES ASSUME NEW u \in Workers, NEW v \in Workers, InHand(u)', InHand(v)',
                      run'[v].job = run'[u].job
               PROVE  u = v
    BY DEF Apart
  <2>1. CASE u # w /\ v # w
    BY <1>1, <2>1 DEF Apart, InHand
  <2>2. CASE u = w /\ v # w
    BY <1>1, <2>2 DEF InHand
  <2>3. CASE u # w /\ v = w
    BY <1>1, <2>3 DEF InHand
  <2> QED
    BY <2>1, <2>2, <2>3
<1> QED
  BY <1>4, <1>5

\* What remains to be shown of a step, the types and the months being known.
EntriesOK == NotAhead' /\ IsFiniteSet(reserved') /\ (~slipped' => Covered' /\ Apart')

\* w leaves the entries of the others alone and does not work afterwards.
LEMMA EntriesLeft ==
    ASSUME LedgerIInv, clock' = clock, slipped' = slipped, NEW w \in Workers, NEW r, Becomes(w, r),
           r.pc \in {"idle", "read"}, r.pc = "read" => r.month <= ThisMonth,
           reserved' \subseteq reserved,
           \A v \in Spending \ {w} :
              ~slipped /\ HeldFor(reserved, run[v].job) => HeldFor(reserved', run[v].job)
    PROVE  EntriesOK
<1> USE DEF LedgerIInv
<1>1. NotAhead' /\ IsFiniteSet(reserved')
  BY NotAheadMoves, FS_Subset
<1>2. ~slipped => Covered' /\ Apart'
  BY CoverMoves
<1> QED
  BY <1>1, <1>2 DEF EntriesOK

LEMMA IdleRead == Idle.pc = "idle"
BY DEF Idle

LEMMA EntriesReserved ==
    ASSUME LedgerIInv, NEW w \in Workers, TryReserve(w)
    PROVE  EntriesOK
<1> DEFINE j == run[w].job
           kept == {e \in reserved : e.month # run[w].month \/ e.expires > clock}
           entry == [month |-> run[w].month, job |-> j, expires |-> clock + ReservationTtl]
<1>1. /\ BudgetTypeOK /\ NotAhead /\ IsFiniteSet(reserved)
      /\ run[w].pc = "read" /\ run[w].month <= ThisMonth /\ clock' = clock
      /\ ~slipped => Covered /\ Apart
  BY DEF LedgerIInv, NotAhead, TryReserve
<1>2. IsFiniteSet(kept)
  BY <1>1, FS_Subset
<1>3. CASE ~Accepts(w)
  <2>1. reserved' = kept /\ Becomes(w, Idle) /\ slipped' = slipped
    BY <1>3 DEF TryReserve, Becomes
  <2>2. reserved' \subseteq reserved /\ \A i : HeldFor(reserved, i) => HeldFor(reserved', i)
    BY <2>1 DEF HeldFor
  <2> HIDE DEF kept
  <2> QED
    BY <1>1, <2>1, <2>2, IdleRead, EntriesLeft
<1>4. CASE Accepts(w)
  <2> DEFINE r == Admitted(j)
             others == {e \in kept : e.month # run[w].month \/ e.job # j}
  <2>1. reserved' = others \cup {entry} /\ Becomes(w, r) /\ slipped' = (slipped \/ Slips(w))
    BY <1>4 DEF TryReserve, Becomes
  <2>2. IsFiniteSet(reserved')
    <3>1. IsFiniteSet(others)
      BY <1>2, FS_Subset
    <3> HIDE DEF others, entry
    <3> QED
      BY <2>1, <3>1, FS_AddElement
  <2>3. r.pc = "running" /\ r.job = j
    BY DEF Admitted
  <2>4. NotAhead'
    <3>1. \A e \in reserved' : e \in reserved \/ e.month <= ThisMonth
      BY <1>1, <2>1
    <3> HIDE DEF r, kept, others, entry
    <3> QED
      BY <1>1, <2>1, <2>3, <3>1, NotAheadMoves
  <2>5. ASSUME ~slipped'
        PROVE  Covered' /\ Apart'
    <3>1. ~slipped /\ ~Slips(w)
      BY <2>1, <2>5
    <3>2. /\ run[w].month = ThisMonth
          /\ \A v \in Workers \ {w} : InHand(v) => run[v].job # run[w].job
      BY <3>1 DEF Slips
    <3>3. clock + ReservationTtl > clock
      BY <1>1, BudgetAssumption DEF BudgetTypeOK
    <3>4. HeldFor(reserved', r.job)
      <4>1. /\ entry \in reserved' /\ entry.month = run[w].month /\ entry.job = j
            /\ entry.expires = clock + ReservationTtl
        BY <2>1
      <4> HIDE DEF entry, r, others, kept
      <4> QED
        BY <2>3, <3>2, <3>3, <4>1 DEF HeldFor
    <3>5. ASSUME NEW v \in Spending \ {w}, HeldFor(reserved, run[v].job)
          PROVE  HeldFor(reserved', run[v].job)
      <4>1. run[v].job # j
        BY <3>2 DEF Spending, InHand
      <4>2. PICK e \in reserved : e.month = ThisMonth /\ e.job = run[v].job /\ e.expires > clock
        BY <3>5 DEF HeldFor
      <4>3. e \in reserved'
        BY <2>1, <4>1, <4>2
      <4> QED
        BY <4>2, <4>3 DEF HeldFor
    <3> HIDE DEF r, kept, others, entry
    <3> QED
      BY <1>1, <2>1, <2>3, <3>1, <3>2, <3>4, <3>5, CoverMoves
  <2> QED
    BY <2>2, <2>4, <2>5 DEF EntriesOK
<1> QED
  BY <1>3, <1>4

LEMMA EntriesWorked ==
    ASSUME LedgerIInv, NEW w \in Workers,
           ModelCall(w) \/ (\E raised \in BOOLEAN : PhaseEnds(w, raised)) \/ FlushUsage(w)
    PROVE  EntriesOK
<1>1. clock' = clock /\ reserved' = reserved /\ slipped' = slipped
  BY DEF ModelCall, PhaseEnds, FlushUsage
<1>2. w \in Spending /\ InHand(w) /\ run[w] \in Working
  BY RunShape DEF LedgerIInv, ModelCall, PhaseEnds, FlushUsage, Spending, InHand
<1>3. PICK r : Becomes(w, r) /\ r.job = run[w].job /\ r.pc # "read"
  <2> DEFINE m == [run[w] EXCEPT !.buffer = @ + 1]
             p == [run[w] EXCEPT !.pc = "flushing"]
             f == [pc |-> "releasing", job |-> run[w].job, buffer |-> 0]
  <2>1. /\ m.job = run[w].job /\ m.pc # "read" /\ p.job = run[w].job /\ p.pc # "read"
        /\ f.job = run[w].job /\ f.pc # "read"
    BY <1>2 DEF Working
  <2>2. Becomes(w, m) \/ Becomes(w, p) \/ Becomes(w, f)
    BY DEF ModelCall, PhaseEnds, FlushUsage, Becomes
  <2> HIDE DEF m, p, f
  <2> QED
    BY <2>1, <2>2
<1>4. NotAhead' /\ IsFiniteSet(reserved')
  BY <1>1, <1>3, NotAheadMoves DEF LedgerIInv
<1>5. ASSUME ~slipped
      PROVE  Covered' /\ Apart'
  <2>1. BudgetTypeOK /\ Covered /\ Apart
    BY <1>5 DEF LedgerIInv
  <2>2. HeldFor(reserved', r.job) /\ \A v \in Workers \ {w} : InHand(v) => run[v].job # r.job
    BY <1>1, <1>2, <1>3, <2>1 DEF Covered, Apart
  <2> QED
    BY <1>1, <1>3, <2>1, <2>2, CoverMoves
<1> QED
  BY <1>1, <1>4, <1>5 DEF EntriesOK

LEMMA EntriesReleased ==
    ASSUME LedgerIInv, NEW w \in Workers, Release(w)
    PROVE  EntriesOK
<1>1. Becomes(w, Idle) /\ clock' = clock /\ slipped' = slipped /\ InHand(w)
  BY DEF Release, Becomes, InHand
<1>2. reserved' \subseteq reserved /\ \A e \in reserved : e.job # run[w].job => e \in reserved'
  BY DEF Release
<1>3. ASSUME NEW v \in Spending \ {w}, ~slipped, HeldFor(reserved, run[v].job)
      PROVE  HeldFor(reserved', run[v].job)
  <2>1. run[v].job # run[w].job
    BY <1>1, <1>3 DEF LedgerIInv, Apart, InHand, Spending
  <2> QED
    BY <1>2, <1>3, <2>1 DEF HeldFor
<1> QED
  BY <1>1, <1>2, <1>3, IdleRead, EntriesLeft

LEMMA EntriesTimed ==
    ASSUME LedgerIInv, BudgetTick
    PROVE  EntriesOK
<1>1. UNCHANGED <<recorded, reserved, run>> /\ BudgetTypeOK
  BY DEF BudgetTick, LedgerIInv
<1>2. /\ clock' = clock + 1 /\ clock \in Nat /\ ThisMonth \in Nat /\ ThisMonth' \in Nat
      /\ ThisMonth <= ThisMonth'
  BY <1>1, TimePasses
<1>3. NotAhead'
  <2>1. \A m \in Months : m <= ThisMonth => m <= ThisMonth'
    BY <1>2, BudgetAssumption DEF Months, MonthOf
  <2>2. \A e \in reserved : e.month \in Months
    BY <1>1 DEF BudgetTypeOK, Entry
  <2>3. \A w \in Workers : run[w].pc = "read" => run[w].month \in Months
    BY <1>1, RunShape DEF Admitting
  <2> QED
    BY <1>1, <2>1, <2>2, <2>3 DEF NotAhead, LedgerIInv
<1>4. ASSUME ~slipped'
      PROVE  Covered' /\ Apart'
  <2>1. Covered /\ Apart
    BY <1>4 DEF BudgetTick, LedgerIInv
  <2>2. Apart'
    BY <1>1, <2>1 DEF Apart, InHand
  <2>3. CASE ThisMonth' = ThisMonth
    <3>1. \A e \in reserved, w \in Spending :
             e.month = ThisMonth /\ e.job = run[w].job => ~ (e.expires <= clock + 1)
      BY <1>2, <1>4, <2>3 DEF BudgetTick, ThisMonth, MonthOf
    <3>2. \A e \in reserved : e.expires \in Nat
      BY <1>1 DEF BudgetTypeOK, Entry
    <3>3. ASSUME NEW w \in Spending
          PROVE  HeldFor(reserved, run[w].job)'
      <4>1. PICK e \in reserved : e.month = ThisMonth /\ e.job = run[w].job /\ e.expires > clock
        BY <2>1 DEF Covered, HeldFor
      <4>2. e.expires > clock'
        BY <1>2, <3>1, <3>2, <4>1
      <4> QED
        BY <1>1, <2>3, <4>1, <4>2 DEF HeldFor
    <3> QED
      BY <1>1, <2>2, <3>3 DEF Covered, Spending
  <2>4. CASE ThisMonth' # ThisMonth
    <3>1. Spending = {}
      BY <1>2, <1>4, <2>4 DEF BudgetTick, ThisMonth, MonthOf
    <3> QED
      BY <1>1, <2>2, <3>1 DEF Covered, Spending
  <2> QED
    BY <2>3, <2>4
<1> QED
  BY <1>1, <1>3, <1>4 DEF EntriesOK, LedgerIInv

LEMMA LedgerStepOK ==
    ASSUME LedgerIInv, BudgetNext
    PROVE  LedgerIInv'
<1>1. BudgetTypeOK' /\ FutureUnspent'
  BY BudgetStepOK DEF StepOK, LedgerIInv
<1> SUFFICES EntriesOK
  BY <1>1 DEF LedgerIInv, EntriesOK
<1>2. ASSUME NEW w \in Workers, NEW j \in BudgetJobs, ReadSpend(w, j)
      PROVE  EntriesOK
  <2> DEFINE r == [pc |-> "read", job |-> j, seen |-> recorded[ThisMonth], month |-> ThisMonth]
  <2>1. Becomes(w, r) /\ UNCHANGED <<clock, reserved, slipped>> /\ r.pc = "read" /\ r.month = ThisMonth
    BY <1>2 DEF ReadSpend, Becomes
  <2>2. ThisMonth <= ThisMonth
    BY Typed, BudgetAssumption DEF LedgerIInv, Months, MonthOf
  <2> HIDE DEF r
  <2> QED
    BY <2>1, <2>2, EntriesLeft
<1>3. ASSUME NEW w \in Workers, AdmitDegraded(w)
      PROVE  EntriesOK
  <2>1. UNCHANGED <<clock, reserved>>
    BY <1>3 DEF AdmitDegraded
  <2>2. CASE FitsAlone(w)
    <3>1. Becomes(w, Admitted(run[w].job)) /\ slipped' = TRUE
      BY <1>3, <2>2 DEF AdmitDegraded, Becomes
    <3>2. Admitted(run[w].job).pc # "read"
      BY DEF Admitted
    <3> QED
      BY <2>1, <3>1, <3>2, NotAheadMoves DEF EntriesOK, LedgerIInv
  <2>3. CASE ~FitsAlone(w)
    <3>1. Becomes(w, Idle) /\ slipped' = slipped
      BY <1>3, <2>3 DEF AdmitDegraded, Becomes
    <3> QED
      BY <2>1, <3>1, IdleRead, EntriesLeft
  <2> QED
    BY <2>2, <2>3
<1>4. ASSUME NEW w \in Workers, BudgetCrash(w)
      PROVE  EntriesOK
  <2>1. Becomes(w, Idle) /\ UNCHANGED <<clock, reserved, slipped>>
    BY <1>4 DEF BudgetCrash, Becomes
  <2> QED
    BY <2>1, IdleRead, EntriesLeft
<1> QED
  BY <1>2, <1>3, <1>4, EntriesReserved, EntriesWorked, EntriesReleased, EntriesTimed DEF BudgetNext

(***************************************************************************)
(* The inductive invariant of the reservations: types, no entry of a month *)
(* to come, and, while no gap occurred, a live entry behind each admitted  *)
(* run and a job of its own.                                               *)
(***************************************************************************)
THEOREM LedgerInvariance == BudgetSpec => []LedgerIInv
<1>1. BudgetInit => LedgerIInv
  <2> SUFFICES ASSUME BudgetInit
               PROVE  LedgerIInv
    OBVIOUS
  <2>1. BudgetTypeOK /\ FutureUnspent
    BY BudgetInitOK DEF BudgetIInv
  <2>2. (\A w \in Workers : run[w].pc = "idle") /\ reserved = {}
    BY DEF BudgetInit, Idle
  <2>3. Covered /\ Apart /\ NotAhead /\ IsFiniteSet(reserved)
    BY <2>2, FS_EmptySet DEF Covered, Apart, NotAhead, InHand, Spending
  <2> QED
    BY <2>1, <2>3 DEF LedgerIInv
<1>2. LedgerIInv /\ UNCHANGED budgetVars => LedgerIInv'
  BY DEF budgetVars, pastVars, LedgerIInv, BudgetTypeOK, FutureUnspent, NotAhead, Covered, Apart,
         InHand, HeldFor, Spending, ThisMonth, MonthOf
<1>3. LedgerIInv /\ [BudgetNext]_budgetVars => LedgerIInv'
  BY <1>2, LedgerStepOK
<1> QED
  BY <1>1, <1>3, PTL DEF BudgetSpec

-----------------------------------------------------------------------------
(* What an admission adds up to.                                            *)

\* Only the script admits a run without a gap.
LEMMA AdmissionIs ==
    ASSUME BudgetTypeOK, BudgetNext, NEW w \in Workers,
           run[w].pc = "read", run'[w].pc = "running", ~slipped'
    PROVE  TryReserve(w) /\ Accepts(w)
<1>1. ASSUME NEW v \in Workers, NEW r, Becomes(v, r), v # w \/ r.pc # "running"
      PROVE  FALSE
  <2>1. run'[w] = IF w = v THEN r ELSE run[w]
    BY <1>1 DEF Becomes, BudgetTypeOK
  <2> QED
    BY <1>1, <2>1
<1>2. ~BudgetTick
  BY DEF BudgetTick
<1>3. ASSUME NEW v \in Workers, NEW j \in BudgetJobs, ReadSpend(v, j)
      PROVE  FALSE
  <2> DEFINE r == [pc |-> "read", job |-> j, seen |-> recorded[ThisMonth], month |-> ThisMonth]
  <2>1. Becomes(v, r) /\ r.pc = "read"
    BY <1>3 DEF ReadSpend, Becomes
  <2> HIDE DEF r
  <2> QED
    BY <1>1, <2>1
<1>4. ASSUME NEW v \in Workers, ModelCall(v) \/ \E raised \in BOOLEAN : PhaseEnds(v, raised)
      PROVE  FALSE
  <2>1. v # w
    BY <1>4 DEF ModelCall, PhaseEnds
  <2>2. Becomes(v, [run[v] EXCEPT !.buffer = @ + 1]) \/ Becomes(v, [run[v] EXCEPT !.pc = "flushing"])
    BY <1>4 DEF ModelCall, PhaseEnds, Becomes
  <2> QED
    BY <1>1, <2>1, <2>2
<1>5. ASSUME NEW v \in Workers, FlushUsage(v) \/ Release(v) \/ BudgetCrash(v)
      PROVE  FALSE
  <2> DEFINE r == [pc |-> "releasing", job |-> run[v].job, buffer |-> 0]
  <2>1. (Becomes(v, r) \/ Becomes(v, Idle)) /\ r.pc = "releasing" /\ Idle.pc = "idle"
    BY <1>5 DEF FlushUsage, Release, BudgetCrash, Becomes, Idle
  <2> HIDE DEF r
  <2> QED
    BY <1>1, <2>1
<1>6. ASSUME NEW v \in Workers, AdmitDegraded(v)
      PROVE  FALSE
  <2>1. Becomes(v, Idle)
    BY <1>6 DEF AdmitDegraded, Becomes
  <2> QED
    BY <1>1, <2>1, IdleRead
<1>7. PICK v \in Workers : TryReserve(v)
  BY <1>2, <1>3, <1>4, <1>5, <1>6 DEF BudgetNext
<1>8. (Becomes(v, Admitted(run[v].job)) /\ Accepts(v)) \/ Becomes(v, Idle)
  BY <1>7 DEF TryReserve, Becomes
<1> QED
  BY <1>1, <1>7, <1>8, IdleRead

(***************************************************************************)
(* As long as no gap occurred (an overtaken snapshot, a second delivery of *)
(* a job, Redis down, a reservation outlived by its run, a month turning   *)
(* during a run), a run is admitted only if what is recorded and the       *)
(* estimates of all admitted runs fit under the month's ceiling together,  *)
(* however the workers interleave (try_reserve's script, the write of the  *)
(* usage, the release) and whatever the runs cost.                         *)
(***************************************************************************)
THEOREM CeilingHolds == BudgetSpec => CeilingKept
<1>1. LedgerIInv /\ LedgerIInv' /\ [BudgetNext]_budgetVars =>
        [(\E w \in Workers : run[w].pc = "read" /\ run'[w].pc = "running") /\ ~slipped' =>
            recorded'[ThisMonth]
              + SumFunctionOnSet([w \in Workers |-> IF w \in Spending' THEN EstimateOf(run'[w].job) ELSE 0],
                                 Workers) <= Limit]_budgetVars
  <2> SUFFICES ASSUME LedgerIInv, LedgerIInv', BudgetNext, NEW w \in Workers,
                      run[w].pc = "read", run'[w].pc = "running", ~slipped'
               PROVE  recorded'[ThisMonth]
                        + SumFunctionOnSet([v \in Workers |-> IF v \in Spending' THEN EstimateOf(run'[v].job) ELSE 0],
                                           Workers) <= Limit
    BY DEF budgetVars
  <2>1. BudgetTypeOK /\ BudgetTypeOK' /\ IsFiniteSet(reserved)
    BY DEF LedgerIInv
  <2>2. TryReserve(w) /\ Accepts(w)
    BY <2>1, AdmissionIs
  <2> DEFINE r == Admitted(run[w].job)
  <2>3. Becomes(w, r) /\ ~slipped /\ ~Slips(w) /\ recorded' = recorded
    BY <2>2 DEF TryReserve, Becomes
  <2>4. PromiseOf(run[w]) = 0 /\ PromiseOf(r) = EstimateOf(run[w].job)
    BY DEF PromiseOf, Admitted
  <2>5. Spent + EstimateOf(run[w].job) + Promised <= Limit
    BY <2>1, <2>2, <2>3, AdmissionFits DEF LedgerIInv
  <2> HIDE DEF r
  <2>6. PromiseOf(r) \in Nat /\ Promised \in Int /\ Promised' = Promised - PromiseOf(run[w]) + PromiseOf(r)
    BY <2>1, <2>3, PromiseMoves
  <2>7. Spent \in Int
    BY <2>1, Typed
  <2>8. Spent + Promised' <= Limit
    BY <2>4, <2>5, <2>6, <2>7, BudgetAssumption
  <2>9. [v \in Workers |-> IF v \in Spending' THEN EstimateOf(run'[v].job) ELSE 0]
        = [v \in Workers |-> PromiseOf(run'[v])]
    BY DEF Spending, PromiseOf
  <2>10. Promised' = SumFunctionOnSet([v \in Workers |-> PromiseOf(run'[v])], Workers)
    BY DEF Promised, PromiseOf, EstimateOf
  <2> QED
    BY <2>3, <2>8, <2>9, <2>10 DEF Spent
<1> QED
  BY <1>1, LedgerInvariance, PTL DEF BudgetSpec, CeilingKept

-----------------------------------------------------------------------------
(* The reservations and the ledger.                                         *)

Held == {e.job : e \in {x \in reserved : Live(x)}}
AtWork == {run[w].job : w \in Spending}
Estimates == [j \in BudgetJobs |-> EstimateOf(j)]

\* An instance of Ledger sums as this module does.
LEMMA OneSum == \A f, S : LedgerOf!SumFunctionOnSet(f, S) = SumFunctionOnSet(f, S)
BY DEF LedgerOf!SumFunctionOnSet, SumFunctionOnSet, LedgerOf!FoldFunctionOnSet, FoldFunctionOnSet,
       LedgerOf!MapThenFoldSet, MapThenFoldSet

LEMMA HeldIs == \A j : j \in Held <=> HeldFor(reserved, j)
BY DEF Held, HeldFor, Live

LEMMA HeldNext == \A j : j \in Held' <=> HeldFor(reserved, j)'
BY DEF Held, HeldFor, Live

\* The jobs at work when only w moves.
LEMMA AtWorkMoves ==
    ASSUME BudgetTypeOK, NEW w \in Workers, NEW r, Becomes(w, r)
    PROVE  /\ w \notin Spending /\ r.pc \notin {"running", "flushing"} => AtWork' = AtWork
           /\ w \notin Spending /\ r.pc \in {"running", "flushing"} => AtWork' = AtWork \cup {r.job}
           /\ w \in Spending /\ r.pc \in {"running", "flushing"} /\ r.job = run[w].job => AtWork' = AtWork
           /\ w \in Spending /\ r.pc \notin {"running", "flushing"} /\ Apart =>
                 run[w].job \in AtWork /\ AtWork' = AtWork \ {run[w].job}
<1>1. \A v \in Workers : run'[v] = IF v = w THEN r ELSE run[v]
  BY DEF BudgetTypeOK, Becomes
<1>2. Spending' = IF r.pc \in {"running", "flushing"} THEN Spending \cup {w} ELSE Spending \ {w}
  BY <1>1 DEF Spending
<1>3. CASE w \notin Spending /\ r.pc \notin {"running", "flushing"}
  <2>1. Spending' = Spending /\ \A v \in Spending : run'[v] = run[v]
    BY <1>1, <1>2, <1>3 DEF Spending
  <2> QED
    BY <1>3, <2>1 DEF AtWork
<1>4. CASE w \notin Spending /\ r.pc \in {"running", "flushing"}
  <2>1. Spending' = Spending \cup {w} /\ run'[w] = r /\ \A v \in Spending : run'[v] = run[v]
    BY <1>1, <1>2, <1>4 DEF Spending
  <2> QED
    BY <1>4, <2>1 DEF AtWork
<1>5. CASE w \in Spending /\ r.pc \in {"running", "flushing"} /\ r.job = run[w].job
  <2>1. Spending' = Spending /\ \A v \in Spending : run'[v].job = run[v].job
    BY <1>1, <1>2, <1>5 DEF Spending
  <2> QED
    BY <1>5, <2>1 DEF AtWork
<1>6. CASE w \in Spending /\ r.pc \notin {"running", "flushing"} /\ Apart
  <2>1. Spending' = Spending \ {w} /\ \A v \in Spending \ {w} : run'[v] = run[v] /\ run[v].job # run[w].job
    BY <1>1, <1>2, <1>6 DEF Spending, Apart, InHand
  <2> QED
    BY <1>6, <2>1 DEF AtWork
<1> QED
  BY <1>3, <1>4, <1>5, <1>6

\* The entries of other jobs hold at least the estimates of the other jobs held.
LEMMA HeldFits ==
    ASSUME BudgetTypeOK, IsFiniteSet(reserved), NEW w \in Workers, run[w].pc = "read",
           run[w].month = ThisMonth
    PROVE  /\ SumFunctionOnSet(Estimates, Held \ {run[w].job}) <= HeldByOthers(w)
           /\ SumFunctionOnSet(Estimates, Held \ {run[w].job}) \in Int
           /\ HeldByOthers(w) \in Int
<1> DEFINE j == run[w].job
           live == {e \in reserved : Live(e)}
           held == {e \in reserved : /\ e.month = run[w].month
                                     /\ e.expires > clock
                                     /\ e.job # run[w].job}
           g == [e \in reserved |-> EstimateOf(e.job)]
           S == Held \ {j}
           m == [i \in S |-> CHOOSE e \in held : e.job = i]
           jobOf == [e \in live |-> e.job]
<1>1. IsFiniteSet(held) /\ IsFiniteSet(live)
  BY FS_Subset
<1>2. IsFiniteSet(S)
  <2>1. jobOf \in Surjection(live, Held)
    BY DEF Surjection, Held
  <2>2. IsFiniteSet(Held)
    BY <1>1, <2>1, FS_Surjection
  <2> QED
    BY <2>2, FS_Subset
<1>3. \A e \in reserved : e.job \in BudgetJobs /\ g[e] = EstimateOf(e.job)
  BY DEF BudgetTypeOK, Entry
<1>4. \A i \in BudgetJobs : EstimateOf(i) \in Nat
  BY EstimateType, BudgetAssumption
<1>5. ASSUME NEW i \in S
      PROVE  m[i] \in held /\ m[i].job = i /\ i \in BudgetJobs
  <2>1. \E e \in held : e.job = i
    BY DEF Held, Live
  <2>2. m[i] \in held /\ m[i].job = i
    BY <2>1
  <2> QED
    BY <1>3, <2>2
<1>6. \A i \in S : m[i] \in held /\ Estimates[i] \in Int /\ Estimates[i] <= g[m[i]]
  <2> SUFFICES ASSUME NEW i \in S
               PROVE  m[i] \in held /\ Estimates[i] \in Int /\ Estimates[i] <= g[m[i]]
    OBVIOUS
  <2>1. m[i] \in reserved /\ m[i] \in held /\ m[i].job = i /\ i \in BudgetJobs
    BY <1>5
  <2>2. Estimates[i] = EstimateOf(i) /\ EstimateOf(i) \in Nat
    BY <1>4, <2>1 DEF Estimates
  <2> HIDE DEF m, g, held
  <2>3. g[m[i]] = EstimateOf(i)
    BY <1>3, <2>1
  <2> QED
    BY <2>1, <2>2, <2>3
<1>7. \A x, y \in S : m[x] = m[y] => x = y
  <2> HIDE DEF m
  <2> QED
    BY <1>5
<1>8. \A e \in held : g[e] \in Nat
  BY <1>3, <1>4
<1>9. HeldByOthers(w) = SumFunctionOnSet(g, held)
  BY DEF HeldByOthers
<1> HIDE DEF held, live, g, m, S, jobOf
<1>10. SumFunctionOnSet(Estimates, S) <= SumFunctionOnSet(g, held)
  BY <1>1, <1>2, <1>6, <1>7, <1>8, SumInjection
<1>11. SumFunctionOnSet(g, held) \in Int /\ SumFunctionOnSet(Estimates, S) \in Int
  BY <1>1, <1>2, <1>6, <1>8, SumType
<1> QED
  BY <1>9, <1>10, <1>11 DEF S

\* What a step is for the ledger.
LedgerSame == Spent' = Spent /\ Held' = Held /\ AtWork' = AtWork /\ slipped' = slipped

LedgerMoves ==
    \/ slipped'
    \/ LedgerSame
    \/ /\ ~slipped /\ slipped' = slipped
       /\ \/ \E j \in BudgetJobs : LedgerOf!Admit(j) \/ LedgerOf!Book(j)
          \/ LedgerOf!GiveBack \/ LedgerOf!NewMonth

LEMMA SameHeld ==
    ASSUME clock' = clock, reserved' = reserved
    PROVE  Held' = Held
BY DEF Held, Live, ThisMonth, MonthOf

LEMMA SameSpent ==
    ASSUME clock' = clock, recorded' = recorded
    PROVE  Spent' = Spent
BY DEF Spent, ThisMonth, MonthOf

LEMMA MovesReserve ==
    ASSUME LedgerIInv, NEW w \in Workers, TryReserve(w)
    PROVE  LedgerMoves
<1> DEFINE j == run[w].job
           kept == {e \in reserved : e.month # run[w].month \/ e.expires > clock}
           entry == [month |-> run[w].month, job |-> j, expires |-> clock + ReservationTtl]
<1>1. /\ BudgetTypeOK /\ IsFiniteSet(reserved)
      /\ run[w].pc = "read" /\ clock' = clock /\ recorded' = recorded /\ ThisMonth' = ThisMonth
      /\ w \notin Spending
  BY DEF LedgerIInv, TryReserve, ThisMonth, MonthOf, Spending
<1>2. Spent' = Spent
  BY <1>1, SameSpent
<1>3. CASE ~Accepts(w)
  <2>1. reserved' = kept /\ Becomes(w, Idle) /\ slipped' = slipped
    BY <1>3 DEF TryReserve, Becomes
  <2>2. Held' = Held
    BY <1>1, <2>1 DEF Held, Live
  <2>3. AtWork' = AtWork
    BY <1>1, <2>1, IdleRead, AtWorkMoves
  <2> QED
    BY <1>2, <2>1, <2>2, <2>3 DEF LedgerMoves, LedgerSame
<1>4. CASE Accepts(w) /\ ~slipped'
  <2> DEFINE others == {e \in kept : e.month # run[w].month \/ e.job # j}
             r == Admitted(j)
  <2>0. reserved' = others \cup {entry} /\ Becomes(w, r) /\ slipped' = (slipped \/ Slips(w))
    BY <1>4 DEF TryReserve, Becomes
  <2>14. ~slipped /\ slipped' = slipped /\ ~Slips(w)
    BY <1>1, <1>4, <2>0 DEF BudgetTypeOK
  <2>1. /\ reserved' = others \cup {entry} /\ Becomes(w, r)
        /\ ~slipped /\ slipped' = slipped /\ ~Slips(w) /\ r.pc = "running" /\ r.job = j
    BY <2>0, <2>14 DEF Admitted
  <2>2. run[w].month = ThisMonth /\ run[w].seen = Spent
        /\ \A v \in Workers \ {w} : InHand(v) => run[v].job # j
    BY <2>1 DEF Slips, Spent
  <2>3. j \notin AtWork
    BY <1>1, <2>2 DEF AtWork, Spending, InHand
  <2>4. j \in BudgetJobs /\ run[w].seen \in Nat
    BY <1>1, RunShape DEF Admitting
  <2>5. Held' = Held \cup {j}
    <3>1. clock + ReservationTtl > clock
      BY <1>1, BudgetAssumption DEF BudgetTypeOK
    <3>2. entry.month = ThisMonth /\ entry.job = j /\ entry.expires > clock
      BY <2>2, <3>1
    <3>3. ASSUME NEW i
          PROVE  HeldFor(reserved', i) <=> HeldFor(reserved, i) \/ i = j
      <4>1. ASSUME HeldFor(reserved', i), i # j
            PROVE  HeldFor(reserved, i)
        BY <2>1, <4>1 DEF HeldFor
      <4>2. ASSUME HeldFor(reserved, i), i # j
            PROVE  HeldFor(reserved', i)
        BY <2>1, <4>2 DEF HeldFor
      <4>3. HeldFor(reserved', j)
        <5> HIDE DEF entry
        <5> QED
          BY <2>1, <3>2 DEF HeldFor
      <4> QED
        BY <4>1, <4>2, <4>3
    <3>4. \A i : HeldFor(reserved, i)' <=> HeldFor(reserved', i)
      BY <1>1 DEF HeldFor
    <3> QED
      BY <3>3, <3>4, HeldIs, HeldNext
  <2> HIDE DEF r, entry, others, kept
  <2>6. AtWork' = AtWork \cup {j}
    BY <1>1, <2>1, AtWorkMoves
  <2>7. /\ SumFunctionOnSet(Estimates, Held \ {j}) <= HeldByOthers(w)
        /\ SumFunctionOnSet(Estimates, Held \ {j}) \in Int /\ HeldByOthers(w) \in Int
    BY <1>1, <2>2, HeldFits
  <2>8. EstimateOf(j) \in 1 .. ReservationMax
    BY <2>4, EstimateType
  <2>9. Remaining(w) = Limit - Spent /\ Spent \in Nat
    BY <1>4, <2>2, <2>4, <2>8, BudgetAssumption DEF Accepts, FitsAlone, Remaining
  <2>10. HeldByOthers(w) + EstimateOf(j) <= Limit - Spent
    BY <1>4, <2>9 DEF Accepts
  <2>11. Spent + SumFunctionOnSet(Estimates, Held \ {j}) + EstimateOf(j) <= Limit
    BY <2>7, <2>8, <2>9, <2>10, BudgetAssumption
  <2>12. PICK i \in BudgetJobs : i = j
    BY <2>4
  <2>13. LedgerOf!Admit(i)
    BY <1>2, <2>3, <2>5, <2>6, <2>11, <2>12, OneSum DEF LedgerOf!Admit, Held, AtWork, Spent, Estimates
  <2> QED
    BY <2>1, <2>13 DEF LedgerMoves
<1>5. CASE slipped'
  BY <1>5 DEF LedgerMoves
<1> QED
  BY <1>3, <1>4, <1>5

LEMMA MovesRead ==
    ASSUME LedgerIInv, NEW w \in Workers, (\E j \in BudgetJobs : ReadSpend(w, j)) \/ AdmitDegraded(w)
    PROVE  LedgerMoves
<1>1. /\ BudgetTypeOK /\ clock' = clock /\ recorded' = recorded /\ reserved' = reserved
      /\ w \notin Spending
  BY DEF LedgerIInv, ReadSpend, AdmitDegraded, Spending, Busy
<1>2. Spent' = Spent /\ Held' = Held
  BY <1>1, SameSpent, SameHeld
<1>3. ASSUME NEW j \in BudgetJobs, ReadSpend(w, j)
      PROVE  LedgerMoves
  <2> DEFINE r == [pc |-> "read", job |-> j, seen |-> recorded[ThisMonth], month |-> ThisMonth]
  <2>1. Becomes(w, r) /\ r.pc = "read" /\ slipped' = slipped
    BY <1>3 DEF ReadSpend, Becomes
  <2> HIDE DEF r
  <2>2. AtWork' = AtWork
    BY <1>1, <2>1, AtWorkMoves
  <2> QED
    BY <1>2, <2>1, <2>2 DEF LedgerMoves, LedgerSame
<1>4. CASE AdmitDegraded(w)
  <2>1. slipped' \/ (Becomes(w, Idle) /\ slipped' = slipped)
    BY <1>4 DEF AdmitDegraded, Becomes
  <2>2. CASE Becomes(w, Idle) /\ slipped' = slipped
    BY <1>1, <1>2, <2>2, IdleRead, AtWorkMoves DEF LedgerMoves, LedgerSame
  <2> QED
    BY <2>1, <2>2 DEF LedgerMoves
<1> QED
  BY <1>3, <1>4

LEMMA MovesWork ==
    ASSUME LedgerIInv, NEW w \in Workers,
           ModelCall(w) \/ (\E raised \in BOOLEAN : PhaseEnds(w, raised))
    PROVE  LedgerMoves
<1>1. /\ BudgetTypeOK /\ clock' = clock /\ recorded' = recorded /\ reserved' = reserved
      /\ slipped' = slipped /\ w \in Spending /\ run[w] \in Working
  BY RunShape DEF LedgerIInv, ModelCall, PhaseEnds, Spending
<1>2. Spent' = Spent /\ Held' = Held
  BY <1>1, SameSpent, SameHeld
<1>3. PICK r : Becomes(w, r) /\ r.pc \in {"running", "flushing"} /\ r.job = run[w].job
  <2> DEFINE m == [run[w] EXCEPT !.buffer = @ + 1]
             p == [run[w] EXCEPT !.pc = "flushing"]
  <2>1. /\ m.job = run[w].job /\ p.job = run[w].job
        /\ m.pc = run[w].pc /\ p.pc = "flushing" /\ run[w].pc \in {"running", "flushing"}
    BY <1>1 DEF Working, Spending
  <2>2. Becomes(w, m) \/ Becomes(w, p)
    BY DEF ModelCall, PhaseEnds, Becomes
  <2> HIDE DEF m, p
  <2> QED
    BY <2>1, <2>2
<1>4. AtWork' = AtWork
  BY <1>1, <1>3, AtWorkMoves
<1> QED
  <2>1. LedgerSame
    BY <1>1, <1>2, <1>4 DEF LedgerSame
  <2> QED
    BY <2>1 DEF LedgerMoves

\* The job of w is no more at work, and c is booked.
LEMMA Books ==
    ASSUME LedgerIInv, ~slipped, slipped' = slipped, NEW w \in Spending, NEW r, Becomes(w, r),
           r.pc \notin {"running", "flushing"}, Held' = Held, NEW c \in Nat, Spent' = Spent + c
    PROVE  LedgerMoves
<1>1. BudgetTypeOK /\ Apart /\ w \in Workers
  BY DEF LedgerIInv, Spending
<1>2. run[w].job \in AtWork /\ AtWork' = AtWork \ {run[w].job}
  BY <1>1, AtWorkMoves
<1>3. run[w].job \in BudgetJobs
  BY <1>1, RunShape DEF Spending, Working
<1>4. Spent \in Nat
  BY <1>1, Typed
<1>5. Spent' \in Nat /\ Spent' >= Spent
  BY <1>4
<1>6. PICK i \in BudgetJobs : i = run[w].job
  BY <1>3
<1>7. LedgerOf!Book(i)
  BY <1>2, <1>5, <1>6 DEF LedgerOf!Book, Held, AtWork, Spent
<1> QED
  BY <1>7 DEF LedgerMoves

LEMMA MovesFlush ==
    ASSUME LedgerIInv, NEW w \in Workers, FlushUsage(w)
    PROVE  LedgerMoves
<1> DEFINE r == [pc |-> "releasing", job |-> run[w].job, buffer |-> 0]
<1>1. /\ BudgetTypeOK /\ UNCHANGED <<clock, reserved, slipped>> /\ ThisMonth' = ThisMonth
      /\ w \in Spending /\ run[w] \in Working /\ Becomes(w, r) /\ r.pc = "releasing"
  BY RunShape DEF LedgerIInv, FlushUsage, Spending, ThisMonth, Becomes
<1> HIDE DEF r
<1>2. run[w].buffer \in Nat /\ Spent \in Nat /\ ThisMonth \in Months /\ Held' = Held
  BY <1>1, Typed, SameHeld DEF Working
<1>3. Spent' = Spent + run[w].buffer \/ Spent' = Spent + 0
  BY <1>1, <1>2 DEF FlushUsage, Spent, BudgetTypeOK
<1> QED
  BY <1>1, <1>2, <1>3, Books DEF LedgerMoves

LEMMA MovesCrash ==
    ASSUME LedgerIInv, NEW w \in Workers, BudgetCrash(w)
    PROVE  LedgerMoves
<1>1. /\ BudgetTypeOK /\ Becomes(w, Idle) /\ UNCHANGED <<clock, recorded, reserved, slipped>>
  BY DEF LedgerIInv, BudgetCrash, Becomes
<1>2. Spent' = Spent /\ Held' = Held /\ Spent \in Nat
  BY <1>1, SameSpent, SameHeld, Typed
<1>3. CASE w \in Spending
  <2>1. Spent' = Spent + 0
    BY <1>2
  <2> QED
    BY <1>1, <1>2, <1>3, <2>1, IdleRead, Books DEF LedgerMoves
<1>4. CASE w \notin Spending
  BY <1>1, <1>2, <1>4, IdleRead, AtWorkMoves DEF LedgerMoves, LedgerSame
<1> QED
  BY <1>3, <1>4

\* Some of what is held is given back, all that is at work stays held.
LEMMA GivesBack ==
    ASSUME LedgerIInv, LedgerIInv', ~slipped, slipped' = slipped, Held' \subseteq Held,
           AtWork' = AtWork, Spent' = Spent
    PROVE  LedgerMoves
<1>1. Covered'
  BY DEF LedgerIInv
<1>2. AtWork \subseteq Held'
  BY <1>1, HeldNext DEF Covered, AtWork
<1>3. LedgerOf!GiveBack
  BY <1>2 DEF LedgerOf!GiveBack, Held, AtWork, Spent
<1> QED
  BY <1>3 DEF LedgerMoves

LEMMA MovesRelease ==
    ASSUME LedgerIInv, LedgerIInv', NEW w \in Workers, Release(w)
    PROVE  LedgerMoves
<1>1. /\ BudgetTypeOK /\ Becomes(w, Idle) /\ UNCHANGED <<clock, recorded, slipped>>
      /\ ThisMonth' = ThisMonth /\ reserved' \subseteq reserved /\ w \notin Spending
  BY DEF LedgerIInv, Release, Becomes, ThisMonth, Spending
<1>2. Spent' = Spent /\ AtWork' = AtWork
  BY <1>1, SameSpent, IdleRead, AtWorkMoves
<1>3. Held' \subseteq Held
  BY <1>1 DEF Held, Live
<1> QED
  BY <1>1, <1>2, <1>3, GivesBack DEF LedgerMoves

LEMMA MovesTick ==
    ASSUME LedgerIInv, LedgerIInv', BudgetTick, ~slipped'
    PROVE  LedgerMoves
<1>1. /\ BudgetTypeOK /\ UNCHANGED <<recorded, reserved, run>> /\ ~slipped /\ slipped' = slipped
  BY DEF LedgerIInv, BudgetTick, BudgetTypeOK
<1>2. /\ clock' = clock + 1 /\ clock \in Nat /\ ThisMonth \in Nat /\ ThisMonth' \in Nat
      /\ ThisMonth' \in Months
      /\ ThisMonth' # ThisMonth => ThisMonth' > ThisMonth
  BY <1>1, TimePasses
<1>3. AtWork' = AtWork
  BY <1>1 DEF AtWork, Spending
<1>4. CASE ThisMonth' = ThisMonth
  <2>1. Spent' = Spent
    BY <1>1, <1>4 DEF Spent
  <2>2. \A e \in reserved : e.expires \in Nat
    BY <1>1 DEF BudgetTypeOK, Entry
  <2>3. Held' \subseteq Held
    BY <1>1, <1>2, <1>4, <2>2 DEF Held, Live
  <2> QED
    BY <1>1, <1>3, <2>1, <2>3, GivesBack
<1>5. CASE ThisMonth' # ThisMonth
  <2>1. Spending = {}
    BY <1>2, <1>5 DEF BudgetTick, ThisMonth, MonthOf
  <2>2. AtWork = {}
    BY <2>1 DEF AtWork
  <2>3. Spent' = 0
    <3>1. \A m \in Months : m > ThisMonth => recorded[m] = 0
      BY DEF FutureUnspent, LedgerIInv
    <3>2. PICK m \in Months : m = ThisMonth' /\ m > ThisMonth
      BY <1>2, <1>5
    <3>3. recorded[m] = 0
      BY <3>1, <3>2
    <3>4. Spent' = recorded'[m]
      BY <3>2 DEF Spent
    <3> QED
      BY <1>1, <3>3, <3>4
  <2>4. \A e \in reserved : e.month # ThisMonth'
    <3>1. \A m \in Months : m \in Int
      BY BudgetAssumption DEF Months, MonthOf
    <3>2. \A e \in reserved : e.month \in Months /\ e.month <= ThisMonth
      BY <1>1 DEF BudgetTypeOK, Entry, LedgerIInv, NotAhead
    <3> QED
      BY <1>2, <1>5, <3>1, <3>2
  <2>5. Held' = {}
    BY <1>1, <2>4 DEF Held, Live
  <2>6. LedgerOf!NewMonth
    BY <1>3, <2>2, <2>3, <2>5 DEF LedgerOf!NewMonth, Held, AtWork, Spent
  <2> QED
    BY <1>1, <2>6 DEF LedgerMoves
<1> QED
  BY <1>4, <1>5

(***************************************************************************)
(* Until a gap occurs every step of snapshot, hash and usage table is one  *)
(* step of the atomic ledger: the script that accepts admits the job, the  *)
(* write of its usage or its crash books it, release and expiry give back  *)
(* what is not at work, and everything else is not noticed.                *)
(***************************************************************************)
THEOREM ReservationsImplementLedger == BudgetSpec => ImplementsLedger
<1>1. BudgetInit => LedgerOf!LedgerInit
  <2> SUFFICES ASSUME BudgetInit
               PROVE  LedgerOf!LedgerInit
    OBVIOUS
  <2>1. BudgetTypeOK
    BY BudgetInitOK DEF BudgetIInv
  <2>2. \A w \in Workers : run[w].pc = "idle"
    BY DEF BudgetInit, Idle
  <2>3. Spending = {} /\ recorded[ThisMonth] = 0 /\ reserved = {} /\ slipped = FALSE
    BY <2>1, <2>2, Typed DEF BudgetInit, Spending
  <2> QED
    BY <2>3 DEF LedgerOf!LedgerInit
<1>2. LedgerIInv /\ LedgerIInv' /\ [BudgetNext]_budgetVars => [LedgerOf!LedgerNext]_(LedgerOf!ledgerVars)
  <2> SUFFICES ASSUME LedgerIInv, LedgerIInv', [BudgetNext]_budgetVars
               PROVE  [LedgerOf!LedgerNext]_(LedgerOf!ledgerVars)
    OBVIOUS
  <2>1. LedgerMoves
    <3>1. CASE BudgetTick
      BY <3>1, MovesTick DEF LedgerMoves
    <3>2. CASE UNCHANGED budgetVars
      <4>1. UNCHANGED <<clock, recorded, reserved, run, slipped>>
        BY <3>2 DEF budgetVars
      <4>2. AtWork' = AtWork
        BY <4>1 DEF AtWork, Spending
      <4> QED
        BY <4>1, <4>2, SameSpent, SameHeld DEF LedgerMoves, LedgerSame
    <3> QED
      BY <3>1, <3>2, MovesRead, MovesReserve, MovesWork, MovesFlush, MovesRelease, MovesCrash DEF BudgetNext
  <2>2. CASE slipped'
    BY <2>2 DEF LedgerOf!LedgerNext
  <2>3. CASE LedgerSame
    BY <2>3 DEF LedgerSame, LedgerOf!ledgerVars, Spent, Held, AtWork
  <2>4. CASE /\ ~slipped /\ slipped' = slipped
             /\ \/ \E j \in BudgetJobs : LedgerOf!Admit(j) \/ LedgerOf!Book(j)
                \/ LedgerOf!GiveBack \/ LedgerOf!NewMonth
    BY <2>4 DEF LedgerOf!LedgerNext
  <2> QED
    BY <2>1, <2>2, <2>3, <2>4 DEF LedgerMoves
<1> QED
  BY <1>1, <1>2, LedgerInvariance, PTL DEF BudgetSpec, ImplementsLedger, LedgerOf!LedgerSpec


-----------------------------------------------------------------------------
(* Reservations come back.                                                  *)

\* r is a run that holds its reservation.
Carries(r) == r.pc \in {"running", "flushing", "releasing"}

\* A step of w to r keeps a hand on every live entry.
LEMMA ReturnMoves ==
    ASSUME BudgetTypeOK, ReservationsReturned, clock' = clock, NEW w \in Workers, NEW r, Becomes(w, r),
           \A e \in reserved' : Live(e) => e \in reserved \/ (Carries(r) /\ e.job = r.job),
           \A j \in abandoned : j \in abandoned' \/ (Carries(r) /\ j = r.job),
           InHand(w) => \/ Carries(r) /\ r.job = run[w].job
                        \/ run[w].job \in abandoned'
                        \/ \A e \in reserved' : Live(e) => e.job # run[w].job
    PROVE  ReservationsReturned'
<1>1. \A v \in Workers : run'[v] = IF v = w THEN r ELSE run[v]
  BY DEF BudgetTypeOK, Becomes
<1>2. \A e : Live(e)' <=> Live(e)
  BY DEF Live, ThisMonth, MonthOf
<1>3. Carries(r) => InHand(w)'
  BY <1>1 DEF Carries, InHand
<1>4. ASSUME NEW e \in reserved', Live(e)
      PROVE  e.job \in abandoned' \/ \E v \in Workers : InHand(v)' /\ run'[v].job = e.job
  <2>1. CASE Carries(r) /\ e.job = r.job
    BY <1>1, <1>3, <2>1
  <2>2. CASE e \in reserved /\ ~ (Carries(r) /\ e.job = r.job)
    <3>1. CASE e.job \in abandoned
      BY <2>2, <3>1
    <3>2. CASE \E v \in Workers : InHand(v) /\ run[v].job = e.job
      <4>1. PICK v \in Workers : InHand(v) /\ run[v].job = e.job
        BY <3>2
      <4>2. CASE v # w
        <5>1. InHand(v)' /\ run'[v].job = e.job
          BY <1>1, <4>1, <4>2 DEF InHand
        <5> QED
          BY <5>1
      <4>3. CASE v = w
        BY <1>4, <2>2, <4>1, <4>3
      <4> QED
        BY <4>2, <4>3
    <3> QED
      BY <1>4, <2>2, <3>1, <3>2 DEF ReservationsReturned
  <2> QED
    BY <1>4, <2>1, <2>2
<1> QED
  BY <1>2, <1>4 DEF ReservationsReturned

LEMMA ReturnReserved ==
    ASSUME LedgerIInv, ReservationsReturned, NEW w \in Workers, TryReserve(w)
    PROVE  ReservationsReturned'
<1>1. BudgetTypeOK /\ clock' = clock /\ ~InHand(w)
  BY DEF LedgerIInv, TryReserve, InHand
<1>2. CASE Accepts(w)
  <2> DEFINE r == Admitted(run[w].job)
             entry == [month |-> run[w].month, job |-> run[w].job, expires |-> clock + ReservationTtl]
  <2>1. Becomes(w, r) /\ Carries(r) /\ r.job = run[w].job
    BY <1>2 DEF TryReserve, Becomes, Carries, Admitted
  <2>2. entry.job = run[w].job /\ \A e \in reserved' : e \in reserved \/ e = entry
    BY <1>2 DEF TryReserve
  <2>3. abandoned' = abandoned \ {run[w].job}
    BY <1>2 DEF TryReserve
  <2> HIDE DEF r, entry
  <2>4. \A e \in reserved' : Live(e) => e \in reserved \/ (Carries(r) /\ e.job = r.job)
    BY <2>1, <2>2
  <2>5. \A j \in abandoned : j \in abandoned' \/ (Carries(r) /\ j = r.job)
    BY <2>1, <2>3
  <2> QED
    BY <1>1, <2>1, <2>4, <2>5, ReturnMoves
<1>3. CASE ~Accepts(w)
  <2>1. Becomes(w, Idle) /\ abandoned' = abandoned /\ reserved' \subseteq reserved
    BY <1>3 DEF TryReserve, Becomes
  <2> QED
    BY <1>1, <2>1, ReturnMoves
<1> QED
  BY <1>2, <1>3

\* A step that touches no entry and, if it lets a run go, abandons its job.
LEMMA ReturnKept ==
    ASSUME BudgetTypeOK, ReservationsReturned, clock' = clock, reserved' \subseteq reserved,
           NEW w \in Workers, NEW r, Becomes(w, r), abandoned \subseteq abandoned',
           InHand(w) => (Carries(r) /\ r.job = run[w].job) \/ run[w].job \in abandoned'
    PROVE  ReservationsReturned'
BY ReturnMoves

LEMMA ReturnWorked ==
    ASSUME LedgerIInv, ReservationsReturned, NEW w \in Workers,
           \/ ModelCall(w) \/ (\E raised \in BOOLEAN : PhaseEnds(w, raised)) \/ FlushUsage(w)
    PROVE  ReservationsReturned'
<1>1. BudgetTypeOK /\ clock' = clock /\ reserved' = reserved /\ abandoned' = abandoned
  BY DEF LedgerIInv, ModelCall, PhaseEnds, FlushUsage
<1>2. run[w] \in Working
  BY RunShape DEF LedgerIInv, ModelCall, PhaseEnds, FlushUsage
<1>3. PICK r : Becomes(w, r) /\ Carries(r) /\ r.job = run[w].job
  <2> DEFINE m == [run[w] EXCEPT !.buffer = @ + 1]
             p == [run[w] EXCEPT !.pc = "flushing"]
             f == [pc |-> "releasing", job |-> run[w].job, buffer |-> 0]
  <2>1. /\ m.job = run[w].job /\ Carries(m) /\ p.job = run[w].job /\ Carries(p)
        /\ f.job = run[w].job /\ Carries(f)
    BY <1>2 DEF Working, Carries
  <2>2. Becomes(w, m) \/ Becomes(w, p) \/ Becomes(w, f)
    BY DEF ModelCall, PhaseEnds, FlushUsage, Becomes
  <2> HIDE DEF m, p, f
  <2> QED
    BY <2>1, <2>2
<1> QED
  BY <1>1, <1>3, ReturnKept

LEMMA ReturnReleased ==
    ASSUME LedgerIInv, ReservationsReturned, NEW w \in Workers, Release(w)
    PROVE  ReservationsReturned'
<1>1. BudgetTypeOK /\ clock' = clock /\ Becomes(w, Idle) /\ reserved' \subseteq reserved
  BY DEF LedgerIInv, Release, Becomes
<1>2. CASE /\ reserved' = {e \in reserved : e.job # run[w].job \/ e.month # ThisMonth}
           /\ abandoned' = abandoned
  <2>1. \A e \in reserved' : Live(e) => e.job # run[w].job
    BY <1>2 DEF Live
  <2> QED
    BY <1>1, <1>2, <2>1, ReturnMoves
<1>3. CASE abandoned' = abandoned \cup {run[w].job}
  BY <1>1, <1>3, ReturnKept
<1> QED
  BY <1>2, <1>3 DEF Release

LEMMA ReturnTimed ==
    ASSUME LedgerIInv, ReservationsReturned, BudgetTick
    PROVE  ReservationsReturned'
<1>1. BudgetTypeOK /\ UNCHANGED <<reserved, run, abandoned>>
  BY DEF LedgerIInv, BudgetTick
<1>2. /\ clock' = clock + 1 /\ clock \in Nat /\ ThisMonth \in Nat /\ ThisMonth' \in Nat
      /\ ThisMonth <= ThisMonth'
  BY <1>1, TimePasses
<1>3. ASSUME NEW e \in reserved, Live(e)'
      PROVE  Live(e)
  <2>1. e.expires \in Nat /\ e.month \in Nat /\ e.month <= ThisMonth
    BY <1>1, BudgetAssumption DEF LedgerIInv, NotAhead, BudgetTypeOK, Entry, Months, MonthOf
  <2>2. PICK m : m = ThisMonth' /\ m \in Nat /\ ThisMonth <= m
    BY <1>2
  <2>3. e.month = m /\ e.expires > clock + 1
    BY <1>2, <1>3, <2>2 DEF Live
  <2>4. e.month = ThisMonth
    BY <1>2, <2>1, <2>2, <2>3
  <2> QED
    BY <1>2, <2>1, <2>3, <2>4 DEF Live
<1> QED
  BY <1>1, <1>3 DEF ReservationsReturned, InHand

(***************************************************************************)
(* No reservation outlives its work by an oversight: one the script still  *)
(* counts belongs to a run that will release it, or to a job whose process *)
(* died or could not reach Redis when it had to.                           *)
(***************************************************************************)
THEOREM ReservationsComeBack == BudgetSpec => []ReservationsReturned
<1>1. BudgetInit => ReservationsReturned
  BY DEF BudgetInit, ReservationsReturned
<1>2. LedgerIInv /\ ReservationsReturned /\ [BudgetNext]_budgetVars => ReservationsReturned'
  <2> SUFFICES ASSUME LedgerIInv, ReservationsReturned, [BudgetNext]_budgetVars
               PROVE  ReservationsReturned'
    OBVIOUS
  <2>1. CASE UNCHANGED budgetVars
    BY <2>1 DEF budgetVars, ReservationsReturned, Live, ThisMonth, MonthOf, InHand
  <2>2. ASSUME NEW w \in Workers, NEW j \in BudgetJobs, ReadSpend(w, j)
        PROVE  ReservationsReturned'
    <3> DEFINE r == [pc |-> "read", job |-> j, seen |-> recorded[ThisMonth], month |-> ThisMonth]
    <3>1. /\ Becomes(w, r) /\ UNCHANGED <<clock, reserved, abandoned>> /\ ~InHand(w)
          /\ BudgetTypeOK
      BY <2>2 DEF ReadSpend, Becomes, InHand, Busy, LedgerIInv
    <3> HIDE DEF r
    <3> QED
      BY <3>1, ReturnKept
  <2>3. ASSUME NEW w \in Workers, AdmitDegraded(w)
        PROVE  ReservationsReturned'
    <3>1. UNCHANGED <<clock, reserved, abandoned>> /\ ~InHand(w) /\ BudgetTypeOK
      BY <2>3 DEF AdmitDegraded, InHand, LedgerIInv
    <3>2. PICK r : Becomes(w, r)
      BY <2>3 DEF AdmitDegraded, Becomes
    <3> QED
      BY <3>1, <3>2, ReturnKept
  <2>4. ASSUME NEW w \in Workers, BudgetCrash(w)
        PROVE  ReservationsReturned'
    <3>1. /\ Becomes(w, Idle) /\ UNCHANGED <<clock, reserved>> /\ BudgetTypeOK
          /\ abandoned \subseteq abandoned'
          /\ InHand(w) => run[w].job \in abandoned'
      BY <2>4 DEF BudgetCrash, Becomes, LedgerIInv
    <3> QED
      BY <3>1, ReturnKept
  <2> QED
    BY <2>1, <2>2, <2>3, <2>4, ReturnReserved, ReturnWorked, ReturnReleased, ReturnTimed DEF BudgetNext
<1> QED
  BY <1>1, <1>2, LedgerInvariance, PTL DEF BudgetSpec

-----------------------------------------------------------------------------
(* Any ledger keeps the ceiling.                                            *)

VARIABLES booked, held, atwork, gap

AnyLedger == INSTANCE Ledger WITH
    Jobs <- BudgetJobs,
    Estimate <- [j \in BudgetJobs |-> EstimateOf(j)]

LEMMA AnySum == \A f, S : AnyLedger!SumFunctionOnSet(f, S) = SumFunctionOnSet(f, S)
BY DEF AnyLedger!SumFunctionOnSet, SumFunctionOnSet, AnyLedger!FoldFunctionOnSet, FoldFunctionOnSet,
       AnyLedger!MapThenFoldSet, MapThenFoldSet

\* Until a gap occurs a job at work is one of those set aside.
SetAside ==
    ~gap => /\ booked \in Nat
            /\ IsFiniteSet(held) /\ held \subseteq BudgetJobs
            /\ atwork \subseteq held

(***************************************************************************)
(* The abstract ledger keeps the ceiling: the estimates of all jobs at     *)
(* work fit beside what is booked whenever one is admitted.  Book may make *)
(* the spend what it likes; the next admission then counts it.             *)
(***************************************************************************)
THEOREM LedgerKeepsCeiling == AnyLedger!LedgerSpec => AnyLedger!AdmittedWithinCeiling
<1>1. AnyLedger!LedgerInit => SetAside
  BY FS_EmptySet DEF AnyLedger!LedgerInit, SetAside
<1>2. SetAside /\ [AnyLedger!LedgerNext]_(AnyLedger!ledgerVars) => SetAside'
  <2> SUFFICES ASSUME SetAside, [AnyLedger!LedgerNext]_(AnyLedger!ledgerVars), ~gap'
               PROVE  /\ booked' \in Nat
                      /\ IsFiniteSet(held') /\ held' \subseteq BudgetJobs
                      /\ atwork' \subseteq held'
    BY DEF SetAside
  <2>1. CASE UNCHANGED AnyLedger!ledgerVars
    BY <2>1 DEF AnyLedger!ledgerVars, SetAside
  <2>2. ASSUME ~gap, NEW j \in BudgetJobs, AnyLedger!Admit(j)
        PROVE  /\ booked' \in Nat
               /\ IsFiniteSet(held') /\ held' \subseteq BudgetJobs
               /\ atwork' \subseteq held'
    BY <2>2, FS_AddElement DEF AnyLedger!Admit, SetAside
  <2>3. ASSUME ~gap, NEW j \in BudgetJobs, AnyLedger!Book(j)
        PROVE  /\ booked' \in Nat
               /\ IsFiniteSet(held') /\ held' \subseteq BudgetJobs
               /\ atwork' \subseteq held'
    BY <2>3 DEF AnyLedger!Book, SetAside
  <2>4. ASSUME ~gap, AnyLedger!GiveBack
        PROVE  /\ booked' \in Nat
               /\ IsFiniteSet(held') /\ held' \subseteq BudgetJobs
               /\ atwork' \subseteq held'
    BY <2>4, FS_Subset DEF AnyLedger!GiveBack, SetAside
  <2>5. ASSUME ~gap, AnyLedger!NewMonth
        PROVE  /\ booked' \in Nat
               /\ IsFiniteSet(held') /\ held' \subseteq BudgetJobs
               /\ atwork' \subseteq held'
    BY <2>5, FS_EmptySet DEF AnyLedger!NewMonth, SetAside
  <2> QED
    BY <2>1, <2>2, <2>3, <2>4, <2>5 DEF AnyLedger!LedgerNext
<1>3. SetAside /\ [AnyLedger!LedgerNext]_(AnyLedger!ledgerVars) =>
        [(atwork' \ atwork # {}) /\ ~gap' =>
            booked' + AnyLedger!SumFunctionOnSet([j \in BudgetJobs |-> EstimateOf(j)], atwork') <= Limit
        ]_(AnyLedger!ledgerVars)
  <2> DEFINE est == [j \in BudgetJobs |-> EstimateOf(j)]
  <2> SUFFICES ASSUME SetAside, AnyLedger!LedgerNext, atwork' \ atwork # {}, ~gap'
               PROVE  booked' + SumFunctionOnSet(est, atwork') <= Limit
    BY AnySum DEF AnyLedger!ledgerVars
  <2>1. PICK j \in BudgetJobs : AnyLedger!Admit(j)
    BY DEF AnyLedger!LedgerNext, AnyLedger!Book, AnyLedger!GiveBack, AnyLedger!NewMonth
  <2>2. /\ j \notin atwork /\ atwork' = atwork \cup {j} /\ booked' = booked
        /\ booked + SumFunctionOnSet(est, held \ {j}) + est[j] <= Limit
    BY <2>1, AnySum DEF AnyLedger!Admit
  <2>3. ~gap
    BY DEF AnyLedger!LedgerNext
  <2>4. \A i \in BudgetJobs : est[i] \in Nat
    BY EstimateType, BudgetAssumption
  <2> HIDE DEF est
  <2>5. /\ booked \in Nat /\ IsFiniteSet(held \ {j}) /\ held \subseteq BudgetJobs
        /\ atwork \in SUBSET (held \ {j}) /\ IsFiniteSet(atwork)
    BY <2>2, <2>3, FS_Subset DEF SetAside
  <2>6. SumFunctionOnSet(est, atwork) <= SumFunctionOnSet(est, held \ {j})
    <3>1. \A i \in held \ {j} : est[i] \in Nat
      BY <2>4, <2>5
    <3>2. \A i \in atwork : est[i] \in Nat /\ est[i] <= est[i]
      BY <2>4, <2>5
    <3> QED
      BY <2>5, <3>1, <3>2, SumMonotone
  <2>7. /\ SumFunctionOnSet(est, atwork) \in Int
        /\ SumFunctionOnSet(est, held \ {j}) \in Int
    BY <2>4, <2>5, SumType
  <2>8. SumFunctionOnSet(est, atwork \cup {j}) = est[j] + SumFunctionOnSet(est, atwork)
    BY <2>2, <2>4, <2>5, SumAdd
  <2> QED
    BY <2>2, <2>4, <2>5, <2>6, <2>7, <2>8, BudgetAssumption
<1> QED
  BY <1>1, <1>2, <1>3, PTL DEF AnyLedger!LedgerSpec, AnyLedger!AdmittedWithinCeiling
=============================================================================
