-------------------------------- MODULE Ledger --------------------------------
(***************************************************************************)
(* What reservations promise a tenant, without saying how: one account of  *)
(* a month's usage in which admitting a job, booking its cost and giving   *)
(* its estimate back are each one step.  LlmBudget implements it with a    *)
(* snapshot of the usage table, a hash of reservations that expire and     *)
(* workers that crash; a step its reservations do not cover sets gap.      *)
(***************************************************************************)
EXTENDS Integers, Functions

CONSTANTS
    Jobs,
    Estimate,   \* [Jobs -> Nat], what is set aside for a job
    Limit       \* the plan's monthly ceiling

VARIABLES
    booked,     \* usage of the current month
    held,       \* jobs whose estimate is set aside
    atwork,     \* jobs that may still book their cost
    gap         \* the reservations failed to cover a step

ledgerVars == <<booked, held, atwork, gap>>

LedgerInit ==
    /\ booked = 0
    /\ held = {} /\ atwork = {}
    /\ gap = FALSE

\* The ceiling covers what is booked and all that is set aside, the new job included.
Admit(j) ==
    /\ j \notin atwork
    /\ booked + SumFunctionOnSet(Estimate, held \ {j}) + Estimate[j] <= Limit
    /\ held' = held \cup {j}
    /\ atwork' = atwork \cup {j}
    /\ UNCHANGED booked

\* A job costs what it costs, and nothing is booked of one that crashed or whose usage was lost.
Book(j) ==
    /\ j \in atwork
    /\ atwork' = atwork \ {j}
    /\ booked' \in Nat /\ booked' >= booked
    /\ UNCHANGED held

\* Released or expired, but not under a job at work.
GiveBack ==
    /\ held' \in SUBSET held
    /\ atwork \subseteq held'
    /\ UNCHANGED <<booked, atwork>>

NewMonth ==
    /\ atwork = {}
    /\ booked' = 0 /\ held' = {}
    /\ UNCHANGED atwork

LedgerNext ==
    \/ gap'
    \/ /\ ~gap /\ UNCHANGED gap
       /\ \/ \E j \in Jobs : Admit(j) \/ Book(j)
          \/ GiveBack \/ NewMonth

LedgerSpec == LedgerInit /\ [][LedgerNext]_ledgerVars

(***************************************************************************)
(* Whoever implements the ledger never admits a job that the jobs already  *)
(* at work, at their estimates, leave no room for under the ceiling.       *)
(***************************************************************************)
AdmittedWithinCeiling ==
    [][(atwork' \ atwork # {}) /\ ~gap' =>
          booked' + SumFunctionOnSet(Estimate, atwork') <= Limit]_ledgerVars
=============================================================================
