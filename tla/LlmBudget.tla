------------------------------ MODULE LlmBudget ------------------------------
(***************************************************************************)
(* The monthly LLM budget of one tenant: services/llm_budget.py,           *)
(* services/llm_reservation.py, llm/cost.py and the extraction phase of    *)
(* the worker that calls them.  A run reads the month's spend from the     *)
(* usage table, then reserves its estimate in a Redis hash (one atomic     *)
(* script) or, without Redis, decides on the snapshot alone; it buffers    *)
(* what its calls cost, writes the buffer when the phase ends and removes  *)
(* its reservation.  The reading, the reservation, the write and the       *)
(* removal are separate steps of workers that run side by side.  Nothing   *)
(* stops a run at its estimate: what it costs is bounded by nothing here.  *)
(*                                                                         *)
(* Bounds: MaxClock (time), MaxBurned (units spent in all).                *)
(***************************************************************************)
EXTENDS Integers, FiniteSets, Functions

CONSTANTS
    Workers,          \* worker processes
    BudgetJobs,       \* jobs of the tenant in the extracting phase
    Pages,            \* [BudgetJobs -> Nat \cup {UnknownPages}]
    UnknownPages,
    ReservationFixed, \* llm_job_reservation_try
    ReservationPage,  \* llm_job_reservation_page_try
    ReservationMax,   \* llm_job_reservation_max_try
    Limit,            \* the plan's llm_budget_try_per_month
    ReservationTtl,   \* llm_reservation_ttl_seconds, in ticks
    BudgetMonth,      \* ticks in a month
    MaxClock,
    MaxBurned

ASSUME BudgetAssumption ==
    /\ IsFiniteSet(Workers) /\ Workers # {}
    /\ UnknownPages \notin Nat
    /\ Pages \in [BudgetJobs -> Nat \cup {UnknownPages}]
    /\ ReservationFixed \in Nat
    /\ ReservationPage \in Nat
    /\ ReservationMax \in Nat
    /\ Limit \in Nat
    /\ ReservationTtl \in Nat \ {0}
    /\ BudgetMonth \in Nat \ {0}
    /\ MaxClock \in Nat
    /\ MaxBurned \in Nat

VARIABLES
    clock,        \* time
    recorded,     \* [month -> sum of the usage rows]
    reserved,     \* the reservation hashes: a set of Entry
    run,          \* [Workers -> what the worker is doing]
    usageLost,    \* the ops counter of usage that could not be written
    burned,       \* (ghost) what the model calls of runs that did not crash cost
    slipped,      \* (ghost) a run is not covered by a reservation of its own
    passed,       \* (ghost) runs whose usage left the month's spend above the limit
    overrun,      \* (ghost) what these cost beyond their estimates
    abandoned     \* (ghost) jobs whose last reservation nobody came back for

pastVars == <<passed, overrun>>
budgetVars == <<clock, recorded, reserved, run, usageLost, burned, slipped, passed, overrun, abandoned>>

MonthOf(t) == t \div BudgetMonth
Months == 0 .. MonthOf(MaxClock)
ThisMonth == MonthOf(clock)

Smaller(a, b) == IF a <= b THEN a ELSE b
Excess(a, b) == IF a <= b THEN 0 ELSE a - b

\* estimate_job_micros: a fixed part and a part per page, capped; unknown size is
\* never taken for a cheap one.
EstimateOf(j) ==
    IF Pages[j] = UnknownPages THEN ReservationMax
    ELSE Smaller(ReservationFixed + Pages[j] * ReservationPage, ReservationMax)

\* No run is taken to be free of charge: both parts and the cap are positive amounts.
ASSUME EstimatesPositive == \A j \in BudgetJobs : EstimateOf(j) > 0

Entry == [month : Months, job : BudgetJobs, expires : Nat]

Idle == [pc |-> "idle"]
Admitting == [pc : {"read"}, job : BudgetJobs, seen : Nat, month : Months]
Working == [pc : {"running", "flushing", "releasing"}, job : BudgetJobs, buffer : Nat]
Admitted(j) == [pc |-> "running", job |-> j, buffer |-> 0]
Busy(w) == run[w].pc # "idle"
Spending == {w \in Workers : run[w].pc \in {"running", "flushing"}}
InHand(w) == run[w].pc \in {"running", "flushing", "releasing"}
Live(e) == e.month = ThisMonth /\ e.expires > clock

HeldByOthers(w) ==
    SumFunctionOnSet([e \in reserved |-> EstimateOf(e.job)],
                     {e \in reserved : /\ e.month = run[w].month
                                       /\ e.expires > clock
                                       /\ e.job # run[w].job})

-----------------------------------------------------------------------------

BudgetInit ==
    /\ clock = 0
    /\ recorded = [m \in Months |-> 0]
    /\ reserved = {}
    /\ run = [w \in Workers |-> Idle]
    /\ usageLost = 0 /\ burned = 0
    /\ slipped = FALSE
    /\ passed = 0 /\ overrun = 0
    /\ abandoned = {}

\* compute_spend_sync, first in admit_job_sync: the snapshot of the month's spend.
ReadSpend(w, j) ==
    /\ ~Busy(w)
    /\ run' = [run EXCEPT ![w] = [pc |-> "read", job |-> j, seen |-> recorded[ThisMonth],
                                  month |-> ThisMonth]]
    /\ UNCHANGED <<clock, recorded, reserved, usageLost, burned, slipped, pastVars, abandoned>>

\* (a recorded spend beyond the limit leaves nothing, not less than nothing)
Remaining_FullLimit(w) == Limit
Remaining(w) == IF run[w].seen <= Limit THEN Limit - run[w].seen ELSE 0

\* _degraded_decision: as if this were the only run.
FitsAlone(w) == EstimateOf(run[w].job) <= Remaining(w)

Accepts_SpendOnly(w) == FitsAlone(w)

\* The script: forget what expired, add up what other jobs hold, compare, write.  (What
\* does not fit alone does not fit beside others, who hold nothing negative.)
Accepts(w) == FitsAlone(w) /\ HeldByOthers(w) + EstimateOf(run[w].job) <= Remaining(w)

\* (ghost) an admission that the snapshot or the job's single entry does not cover
Slips(w) ==
    \/ run[w].month # ThisMonth \/ run[w].seen # recorded[ThisMonth]
    \/ \E v \in Workers \ {w} : InHand(v) /\ run[v].job = run[w].job

TryReserve(w) ==
    /\ run[w].pc = "read"
    /\ LET j == run[w].job
           kept == {e \in reserved : e.month # run[w].month \/ e.expires > clock}
       IN IF Accepts(w)
          THEN /\ reserved' = {e \in kept : e.month # run[w].month \/ e.job # j} \cup
                     {[month |-> run[w].month, job |-> j, expires |-> clock + ReservationTtl]}
               /\ run' = [run EXCEPT ![w] = Admitted(j)]
               /\ slipped' = (slipped \/ Slips(w))
               /\ abandoned' = abandoned \ {j}
          ELSE /\ reserved' = kept
               /\ run' = [run EXCEPT ![w] = Idle]
               /\ UNCHANGED <<slipped, abandoned>>
    /\ UNCHANGED <<clock, recorded, usageLost, burned, pastVars>>

\* Redis does not answer: the decision is taken on the snapshot alone.
AdmitDegraded(w) ==
    /\ run[w].pc = "read"
    /\ IF FitsAlone(w)
       THEN run' = [run EXCEPT ![w] = Admitted(run[w].job)] /\ slipped' = TRUE
       ELSE run' = [run EXCEPT ![w] = Idle] /\ UNCHANGED slipped
    /\ UNCHANGED <<clock, recorded, reserved, usageLost, burned, pastVars, abandoned>>

\* A model call of the phase: its cost goes to the buffer, below the run's estimate or
\* beyond it.  (A call whose price is unknown adds nothing.)
ModelCall(w) ==
    /\ run[w].pc = "running"
    /\ burned < MaxBurned
    /\ run' = [run EXCEPT ![w].buffer = @ + 1]
    /\ burned' = burned + 1
    /\ UNCHANGED <<clock, recorded, reserved, usageLost, slipped, pastVars, abandoned>>

\* The phase returns or raises: the buffer is written in both cases.
PhaseEnds_FlushesSuccess(w, raised) ==
    /\ run[w].pc = "running"
    /\ run' = [run EXCEPT ![w].pc = IF raised THEN "releasing" ELSE "flushing"]
    /\ UNCHANGED <<clock, recorded, reserved, usageLost, burned, slipped, pastVars, abandoned>>

PhaseEnds(w, raised) ==
    /\ run[w].pc = "running"
    /\ run' = [run EXCEPT ![w].pc = "flushing"]
    /\ UNCHANGED <<clock, recorded, reserved, usageLost, burned, slipped, pastVars, abandoned>>

\* (ghost) The usage of w has made the month's spend what it is.
Passes(w, spend) ==
    IF spend > Limit
    THEN passed' = passed + 1 /\ overrun' = overrun + Excess(run[w].buffer, EstimateOf(run[w].job))
    ELSE UNCHANGED pastVars

\* _flush_llm_usage: one transaction; when it fails the amount is only counted.
FlushUsage(w) ==
    /\ run[w].pc = "flushing"
    /\ run' = [run EXCEPT ![w] = [pc |-> "releasing", job |-> run[w].job, buffer |-> 0]]
    /\ \/ /\ recorded' = [recorded EXCEPT ![ThisMonth] = @ + run[w].buffer]
          /\ Passes(w, recorded[ThisMonth] + run[w].buffer)
          /\ UNCHANGED usageLost
       \/ /\ usageLost' = usageLost + run[w].buffer
          /\ UNCHANGED <<recorded, pastVars>>
    /\ UNCHANGED <<clock, reserved, burned, slipped, abandoned>>

\* release_job_reservation: the month is that of the release; an error is swallowed.
Release_ByPeriodEnd(w) ==
    /\ run[w].pc = "releasing"
    /\ run' = [run EXCEPT ![w] = Idle]
    /\ \/ /\ reserved' = {e \in reserved : e.job # run[w].job \/ e.month # ThisMonth + 1}
          /\ UNCHANGED abandoned
       \/ UNCHANGED reserved /\ abandoned' = abandoned \cup {run[w].job}
    /\ UNCHANGED <<clock, recorded, usageLost, burned, slipped, pastVars>>

Release_WholeHash(w) ==
    /\ run[w].pc = "releasing"
    /\ run' = [run EXCEPT ![w] = Idle]
    /\ \/ reserved' = {e \in reserved : e.month # ThisMonth} /\ UNCHANGED abandoned
       \/ UNCHANGED reserved /\ abandoned' = abandoned \cup {run[w].job}
    /\ UNCHANGED <<clock, recorded, usageLost, burned, slipped, pastVars>>

Release(w) ==
    /\ run[w].pc = "releasing"
    /\ run' = [run EXCEPT ![w] = Idle]
    /\ \/ /\ reserved' = {e \in reserved : e.job # run[w].job \/ e.month # ThisMonth}
          /\ UNCHANGED abandoned
       \/ UNCHANGED reserved /\ abandoned' = abandoned \cup {run[w].job}
    /\ UNCHANGED <<clock, recorded, usageLost, burned, slipped, pastVars>>

\* The process dies: the buffer is gone and nobody removes the reservation.
BudgetCrash(w) ==
    /\ Busy(w)
    /\ run' = [run EXCEPT ![w] = Idle]
    /\ IF InHand(w)
       THEN burned' = burned - run[w].buffer /\ abandoned' = abandoned \cup {run[w].job}
       ELSE UNCHANGED <<burned, abandoned>>
    /\ UNCHANGED <<clock, recorded, reserved, usageLost, slipped, pastVars>>

\* Time passes; the spend of a new month starts from nothing.
BudgetTick ==
    /\ clock < MaxClock
    /\ clock' = clock + 1
    /\ IF MonthOf(clock + 1) = ThisMonth
       THEN /\ slipped' = (slipped \/ \E e \in reserved, w \in Spending :
                               e.month = ThisMonth /\ e.job = run[w].job /\ e.expires <= clock + 1)
            /\ UNCHANGED pastVars
       ELSE /\ slipped' = (slipped \/ Spending # {})
            /\ passed' = 0 /\ overrun' = 0
    /\ UNCHANGED <<recorded, reserved, run, usageLost, burned, abandoned>>

BudgetNext ==
    \/ \E w \in Workers :
          \/ \E j \in BudgetJobs : ReadSpend(w, j)
          \/ TryReserve(w)
          \/ AdmitDegraded(w)
          \/ ModelCall(w)
          \/ \E raised \in BOOLEAN : PhaseEnds(w, raised)
          \/ FlushUsage(w)
          \/ Release(w)
          \/ BudgetCrash(w)
    \/ BudgetTick

BudgetSpec == BudgetInit /\ [][BudgetNext]_budgetVars

-----------------------------------------------------------------------------
\* Every variable keeps its type.
BudgetTypeOK ==
    /\ clock \in 0 .. MaxClock
    /\ recorded \in [Months -> Nat]
    /\ reserved \in SUBSET Entry
    /\ run \in [Workers -> {Idle} \cup Admitting \cup Working]
    /\ usageLost \in Nat /\ burned \in Int
    /\ slipped \in BOOLEAN
    /\ passed \in Nat /\ overrun \in Nat
    /\ abandoned \in SUBSET BudgetJobs

(***************************************************************************)
(* Past the ceiling nothing is admitted: however stale the snapshots, with *)
(* Redis down, reservations expired and the month turning during the runs, *)
(* no more runs than there are workers book their usage above it, and the  *)
(* spend exceeds it by no more than concurrency x estimate (docstring of   *)
(* llm_reservation.py; one estimate less, in fact) and what these few runs *)
(* cost beyond their estimates, which nothing bounds.                      *)
(***************************************************************************)
SpendBounded ==
    /\ passed <= Cardinality(Workers)
    /\ recorded[ThisMonth] <= Limit + ReservationMax * (Cardinality(Workers) - 1) + overrun

(***************************************************************************)
(* While none of the known gaps occurred (a snapshot overtaken by another  *)
(* run's write, a second delivery of the same job, Redis down, a           *)
(* reservation outlived by its run, a month turning), a run is admitted    *)
(* only if what is recorded and the estimates of all admitted runs, its    *)
(* own included, fit under the ceiling together.  This is what             *)
(* reservations are for; it does not depend on what the runs then cost.    *)
(***************************************************************************)
CeilingKept ==
    [][(\E w \in Workers : run[w].pc = "read" /\ run'[w].pc = "running") /\ ~slipped' =>
          recorded'[ThisMonth]
            + SumFunctionOnSet([w \in Workers |-> IF w \in Spending' THEN EstimateOf(run'[w].job) ELSE 0],
                               Workers) <= Limit]_budgetVars

(***************************************************************************)
(* A reservation the script still counts belongs to a job somebody works   *)
(* on, or its process died or could not reach Redis: release removes what  *)
(* try_reserve wrote, under the same month and job, so that no tenant is   *)
(* kept out by work that is long done.                                     *)
(***************************************************************************)
ReservationsReturned ==
    \A e \in reserved :
        Live(e) => e.job \in abandoned \/ \E w \in Workers : InHand(w) /\ run[w].job = e.job

(***************************************************************************)
(* What the calls cost is in the usage table, in the counter of lost usage *)
(* or in the buffer of a live run (or gone with a crashed process): a run  *)
(* that raises is paid for like one that succeeds, and none twice.         *)
(***************************************************************************)
UsageAccounted ==
    burned = SumFunctionOnSet(recorded, Months) + usageLost
               + SumFunctionOnSet([w \in Workers |-> IF run[w] \in Working THEN run[w].buffer ELSE 0],
                                  Workers)

\* The live reservations of the month are what the ledger holds.
LedgerOf == INSTANCE Ledger WITH
    Jobs <- BudgetJobs,
    Estimate <- [j \in BudgetJobs |-> EstimateOf(j)],
    booked <- recorded[ThisMonth],
    held <- {e.job : e \in {x \in reserved : Live(x)}},
    atwork <- {run[w].job : w \in Spending},
    gap <- slipped

(***************************************************************************)
(* Snapshot, hash and usage table implement the atomic ledger of module    *)
(* Ledger, until one of the known gaps occurs.                             *)
(***************************************************************************)
ImplementsLedger == LedgerOf!LedgerSpec
=============================================================================
