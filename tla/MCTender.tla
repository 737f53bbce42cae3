------------------------------ MODULE MCTender ------------------------------
(***************************************************************************)
(* Two documents of one tender for TLC: their jobs (JobPipeline) and their *)
(* rows and files (Storage).  The two modules share no variable; one       *)
(* behaviour follows one of them, chosen at its start, while the variables *)
(* of the other rest.  Every interleaving of the two projects to           *)
(* behaviours of each, so their invariants lose nothing.                   *)
(***************************************************************************)
EXTENDS JobPipeline, Storage, TLC

VARIABLE focus   \* the module a behaviour follows

TenderInit ==
    /\ focus \in {"jobs", "files"}
    /\ Init /\ StorageInit

JobsStep == focus = "jobs" /\ Next /\ UNCHANGED <<focus, storageVars>>
FilesStep == focus = "files" /\ StorageNext /\ UNCHANGED <<focus, vars>>

TenderNext == JobsStep \/ FilesStep

TenderSpec == TenderInit /\ [][TenderNext]_<<focus, vars, storageVars>>

\* Nothing orders or names documents or their jobs.
TenderSymmetry == Permutations(Jobs)
=============================================================================
