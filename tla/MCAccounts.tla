----------------------------- MODULE MCAccounts -----------------------------
(***************************************************************************)
(* Instances of Accounts, Sessions and Membership for TLC.  The modules    *)
(* share no variable; one behaviour follows one of them, chosen at its     *)
(* start, while the variables of the others rest (see MCTender).  The      *)
(* waiting list shares nothing with the rest of Accounts but the requests  *)
(* in flight, and is followed by itself (SIGNUP_MODE lets a deployment     *)
(* either open accounts or queue them).                                    *)
(***************************************************************************)
EXTENDS Accounts, Sessions, Membership, TLC

VARIABLE focus   \* the module a behaviour follows

Canonical1 == [e \in Spellings |-> IF e = "A@x" THEN "a@x" ELSE e]

UsersInit ==
    /\ focus \in {"accounts", "waitlist", "sessions", "membership"}
    /\ MembershipInit /\ (focus = "membership" \/ account = Users)
    /\ AccountsInit /\ SessionsInit

Queueing(r) == accountReq[r].op = "queue"
Resting(r) == accountReq[r] = NoRequestYet

AccountsStep ==
    /\ focus \in {"accounts", "waitlist"}
    /\ AccountsNext /\ UNCHANGED <<focus, sessionsVars, membershipVars>>
    /\ IF focus = "accounts"
       THEN \A r \in AccountRequests : ~Queueing(r)'
       ELSE \A r \in AccountRequests : (Queueing(r) \/ Resting(r))' /\ UNCHANGED limiterVars
SessionsStep == focus = "sessions" /\ SessionsNext /\ UNCHANGED <<focus, accountsVars, membershipVars>>
MembershipStep == focus = "membership" /\ MembershipNext /\ UNCHANGED <<focus, accountsVars, sessionsVars>>

UsersNext == AccountsStep \/ SessionsStep \/ MembershipStep

UsersSpec == UsersInit /\ [][UsersNext]_<<focus, accountsVars, sessionsVars, membershipVars>>

\* Nothing orders or names requests, links or invitations.
UsersSymmetry == Permutations(Calls) \cup Permutations(Invites)

\* Every variable of the modules keeps its type.
UsersTypeOK ==
    /\ focus \in {"accounts", "waitlist"} => AccountsTypeOK
    /\ focus = "sessions" => SessionsTypeOK
    /\ focus = "membership" => MembershipTypeOK
=============================================================================
