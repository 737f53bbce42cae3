----------------------------- MODULE Membership -----------------------------
(***************************************************************************)
(* The members of one organization and its invitations.  Every handler     *)
(* reads without a lock and writes at the end of its transaction, so a     *)
(* request is a step that reads and a step that commits.  Covers the       *)
(* members, invitations and close routers, services/invitations.py and the *)
(* account part of purge_organization_sync.                                *)
(*                                                                         *)
(* Bounds: Invites (invitations ever sent).                                *)
(***************************************************************************)
EXTENDS Integers, FiniteSets

CONSTANTS
    Users,          \* e-mail addresses, with or without an account
    Founder,        \* the user who registered the organization
    Invites,
    MemberRequests  \* requests in flight at a time

ASSUME MembershipAssumption ==
    Founder \in Users /\ IsFiniteSet(Users)

VARIABLES
    account,      \* users with a row in user_account
    member,       \* [Users -> Role or "none"]
    elsewhere,    \* users who belong to another organization
    orgState,
    invite,       \* [Invites -> Invitation]
    change,       \* [MemberRequests -> the request in flight]
    orgPurge,     \* the purge of the closed organization
    races         \* (ghost) what happened only because requests overlapped

membershipVars == <<account, member, elsewhere, orgState, invite, change, orgPurge, races>>

Roles == {"admin", "member"}        \* "viewer" behaves as "member" here
Invitation == [st : {"unused", "pending", "accepted", "revoked", "deleted"},
               to : Users, role : Roles]
NoChange == [op |-> "idle"]
NoOrgPurge == [pc |-> "idle", todo |-> {}, condemned |-> {}, gone |-> {}]

Admins == {u \in Users : member[u] = "admin"}

\* require_role believes the access token, and a tenant request does not look at the
\* organization: who was an administrator acts on for the life of a token, removed or
\* closed.  The purge comes a retention window after the last token.
ByAdmin == orgState # "purged" /\ orgPurge.pc = "idle"

\* A commit that changes memberships: whoever is in flight has read the past.  Requests
\* on a membership row that is gone will not find it.
Overtaken(r, gone) ==
    [q \in MemberRequests |->
        IF q = r THEN NoChange
        ELSE IF change[q].op \in {"role", "remove"}
             THEN [change[q] EXCEPT !.raced = TRUE, !.row = @ /\ change[q].user \notin gone]
             ELSE IF change[q] # NoChange THEN [change[q] EXCEPT !.raced = TRUE] ELSE NoChange]

Abandon(r) == change' = [change EXCEPT ![r] = NoChange]

-----------------------------------------------------------------------------

MembershipInit ==
    /\ \E known \in SUBSET Users : account = known \cup {Founder}
    /\ member = [u \in Users |-> IF u = Founder THEN "admin" ELSE "none"]
    /\ elsewhere = {}
    /\ orgState = "open"
    /\ invite = [i \in Invites |-> [st |-> "unused", to |-> Founder, role |-> "member"]]
    /\ change = [r \in MemberRequests |-> NoChange]
    /\ orgPurge = NoOrgPurge
    /\ races = {}

\* The count of administrators, read without a lock, when one would lose the role.
SparesLastAdmin_Any(u) == TRUE
SparesLastAdmin(u) == member[u] = "admin" => Cardinality(Admins) > 1

BeginUpdateRole(r, u, role) ==
    /\ ByAdmin /\ change[r] = NoChange
    /\ member[u] \notin {"none", role}
    /\ role # "admin" => SparesLastAdmin(u)
    /\ change' = [change EXCEPT ![r] = [op |-> "role", user |-> u, to |-> role, row |-> TRUE, raced |-> FALSE]]
    /\ UNCHANGED <<account, member, elsewhere, orgState, invite, orgPurge, races>>

BeginRemoveMember(r, u) ==
    /\ ByAdmin /\ change[r] = NoChange
    /\ member[u] # "none" /\ SparesLastAdmin(u)
    /\ change' = [change EXCEPT ![r] = [op |-> "remove", user |-> u, to |-> "none", row |-> TRUE, raced |-> FALSE]]
    /\ UNCHANGED <<account, member, elsewhere, orgState, invite, orgPurge, races>>

\* The row is written by its key: nothing happens when it is gone (an update then fails,
\* a delete warns).  The purge holds the rows it is deleting.
CommitMember(r) ==
    LET c == change[r] IN
    /\ c.op \in {"role", "remove"}
    /\ orgPurge.pc = "idle"
    /\ IF c.row
       THEN /\ member' = [member EXCEPT ![c.user] = c.to]
            /\ change' = Overtaken(r, IF c.op = "remove" THEN {c.user} ELSE {})
            /\ races' = IF c.raced /\ member[c.user] = "admin" THEN races \cup {"admins"} ELSE races
       ELSE Abandon(r) /\ UNCHANGED <<member, races>>
    /\ UNCHANGED <<account, elsewhere, orgState, invite, orgPurge>>

\* create_invitation: the address is no member; the pending invitations it will supersede.
Superseded_None(u) == {}
Superseded(u) == {j \in Invites : invite[j].st = "pending" /\ invite[j].to = u}

BeginInvite(r, i, u, role) ==
    /\ ByAdmin /\ change[r] = NoChange
    /\ invite[i].st = "unused"
    /\ \A q \in MemberRequests : ~(change[q].op = "invite" /\ change[q].new = i)
    /\ member[u] = "none"
    /\ change' = [change EXCEPT ![r] = [op |-> "invite", new |-> i, user |-> u, role |-> role,
                                        stale |-> Superseded(u), raced |-> FALSE]]
    /\ UNCHANGED <<account, member, elsewhere, orgState, invite, orgPurge, races>>

CommitInvite(r) ==
    LET c == change[r] IN
    /\ c.op = "invite"
    /\ invite' = [j \in Invites |->
                    IF j = c.new THEN [st |-> "pending", to |-> c.user, role |-> c.role]
                    ELSE IF j \in c.stale THEN [invite[j] EXCEPT !.st = "revoked"] ELSE invite[j]]
    /\ change' = Overtaken(r, {})
    /\ races' = IF c.raced THEN races \cup {"invites"} ELSE races
    /\ UNCHANGED <<account, member, elsewhere, orgState, orgPurge>>

BeginRevoke(r, i) ==
    /\ ByAdmin /\ change[r] = NoChange
    /\ invite[i].st = "pending"
    /\ change' = [change EXCEPT ![r] = [op |-> "revoke", invite |-> i, raced |-> FALSE]]
    /\ UNCHANGED <<account, member, elsewhere, orgState, invite, orgPurge, races>>

\* Written over whatever the row has become, "accepted" too.
CommitRevoke(r) ==
    LET c == change[r] IN
    /\ c.op = "revoke"
    /\ invite' = [invite EXCEPT ![c.invite].st = "revoked"]
    /\ Abandon(r)
    /\ UNCHANGED <<account, member, elsewhere, orgState, orgPurge, races>>

\* accept_invitation: by whoever has the link; an open organization is not asked for.  One
\* that has expired is one that nobody accepts any more.
Acceptable(i) == invite[i].st = "pending"

BeginAccept(r, i) ==
    /\ change[r] = NoChange
    /\ Acceptable(i)
    /\ change' = [change EXCEPT ![r] = [op |-> "accept", invite |-> i,
                                        opens |-> invite[i].to \notin account,
                                        joins |-> member[invite[i].to] = "none", raced |-> FALSE]]
    /\ UNCHANGED <<account, member, elsewhere, orgState, invite, orgPurge, races>>

\* The rows the accept inserts are unique and refer to rows that exist.
Admissible(c, u) ==
    /\ invite[c.invite].st # "deleted"
    /\ c.opens <=> u \notin account
    /\ c.joins => member[u] = "none"

\* An existing membership keeps its role; the invitation is used up either way.
RoleAfterAccept(c, u) == IF c.joins THEN invite[c.invite].role ELSE member[u]

CommitAccept(r) ==
    LET c == change[r] IN
    /\ c.op = "accept"
    /\ orgPurge.pc = "idle"
    /\ LET u == invite[c.invite].to IN
       IF Admissible(c, u)
       THEN /\ account' = account \cup {u}
            /\ member' = [member EXCEPT ![u] = RoleAfterAccept(c, u)]
            /\ invite' = [invite EXCEPT ![c.invite].st = "accepted"]
            /\ change' = Overtaken(r, {})
            /\ races' = IF c.raced THEN races \cup {"invites"} ELSE races
       ELSE Abandon(r) /\ UNCHANGED <<account, member, invite, races>>
    /\ UNCHANGED <<elsewhere, orgState, orgPurge>>

\* The same user joins another organization (register or accept there).  Only the purge
\* looks at it, so it may wait until the organization is closed.
JoinElsewhere(u) ==
    /\ orgState # "open"
    /\ u \notin elsewhere \cup orgPurge.gone
    /\ account' = account \cup {u}
    /\ elsewhere' = elsewhere \cup {u}
    /\ races' = IF u \in orgPurge.condemned THEN races \cup {"moved"} ELSE races
    /\ UNCHANGED <<member, orgState, invite, change, orgPurge>>

\* He leaves it, or is removed there.
LeaveElsewhere(u) ==
    /\ orgState # "open" /\ u \in elsewhere
    /\ elsewhere' = elsewhere \ {u}
    /\ races' = IF orgPurge.pc = "users" /\ member[u] # "none" /\ u \notin orgPurge.todo
                THEN races \cup {"moved"} ELSE races
    /\ UNCHANGED <<account, member, orgState, invite, change, orgPurge>>

CloseAccount ==
    /\ ByAdmin /\ orgState = "open"
    /\ orgState' = "closed"
    /\ UNCHANGED <<account, member, elsewhere, invite, change, orgPurge, races>>

\* purge_organization_sync, after the retention window: deletes invitations and
\* memberships, then looks at every former member on its own ...
BeginOrgPurge ==
    /\ orgState = "closed" /\ orgPurge.pc = "idle"
    /\ \A r \in MemberRequests : change[r].op \in {"idle", "accept"}
    /\ orgPurge' = [pc |-> "users", todo |-> {u \in Users : member[u] # "none"},
                     condemned |-> {}, gone |-> {}]
    /\ UNCHANGED <<account, member, elsewhere, orgState, invite, change, races>>

OthersOf_Ignored(u) == {}
OthersOf(u) == elsewhere \cap {u}

CountMemberships(u) ==
    /\ orgPurge.pc = "users" /\ u \in orgPurge.todo
    /\ orgPurge' = [orgPurge EXCEPT !.todo = @ \ {u}, !.condemned = IF OthersOf(u) = {} THEN {u} ELSE {}]
    /\ orgPurge.condemned = {}
    /\ UNCHANGED <<account, member, elsewhere, orgState, invite, change, races>>

\* ... and deletes the ones for whom it counted no other membership.
DeleteUser(u) ==
    /\ orgPurge.pc = "users" /\ u \in orgPurge.condemned
    /\ orgPurge' = [orgPurge EXCEPT !.condemned = {}, !.gone = @ \cup {u}]
    /\ UNCHANGED <<account, member, elsewhere, orgState, invite, change, races>>

CommitOrgPurge ==
    /\ orgPurge.pc = "users" /\ orgPurge.todo = {} /\ orgPurge.condemned = {}
    /\ orgState' = "purged"
    /\ account' = account \ orgPurge.gone
    /\ elsewhere' = elsewhere \ orgPurge.gone
    /\ member' = [u \in Users |-> "none"]
    /\ invite' = [i \in Invites |-> [invite[i] EXCEPT !.st = IF @ = "unused" THEN @ ELSE "deleted"]]
    /\ change' = [r \in MemberRequests |->
                    IF change[r].op \in {"role", "remove"} THEN [change[r] EXCEPT !.row = FALSE] ELSE change[r]]
    /\ orgPurge' = NoOrgPurge
    /\ UNCHANGED races

OrgPurgeCrash ==
    /\ orgPurge.pc = "users"
    /\ orgPurge' = NoOrgPurge
    /\ UNCHANGED <<account, member, elsewhere, orgState, invite, change, races>>

MembershipNext ==
    \/ \E u \in Users : JoinElsewhere(u) \/ LeaveElsewhere(u)
                        \/ CountMemberships(u) \/ DeleteUser(u)
    \/ \E r \in MemberRequests :
          \/ \E u \in Users : BeginRemoveMember(r, u) \/ \E role \in Roles : BeginUpdateRole(r, u, role)
          \/ \E i \in Invites : \/ BeginRevoke(r, i) \/ BeginAccept(r, i)
                                \/ \E u \in Users, role \in Roles : BeginInvite(r, i, u, role)
          \/ CommitMember(r) \/ CommitInvite(r) \/ CommitRevoke(r) \/ CommitAccept(r)
    \/ CloseAccount \/ BeginOrgPurge \/ CommitOrgPurge \/ OrgPurgeCrash

MembershipSpec == MembershipInit /\ [][MembershipNext]_membershipVars

-----------------------------------------------------------------------------
\* Every variable keeps its type.
MembershipTypeOK ==
    /\ account \in SUBSET Users /\ elsewhere \in SUBSET account
    /\ member \in [Users -> Roles \cup {"none"}]
    /\ \A u \in Users : member[u] # "none" => u \in account
    /\ orgState \in {"open", "closed", "purged"}
    /\ invite \in [Invites -> Invitation]
    /\ orgPurge \in [pc : {"idle", "users"}, todo : SUBSET Users,
                     condemned : SUBSET Users, gone : SUBSET Users]
    /\ races \in SUBSET {"admins", "invites", "moved"}

(***************************************************************************)
(* An organization that is not purged has an administrator, unless two     *)
(* changes of its members overlapped: update_member_role and remove_member *)
(* count the administrators without a lock.                                *)
(***************************************************************************)
LastAdminKept ==
    orgState # "purged" /\ "admins" \notin races => Admins # {}

(***************************************************************************)
(* A member has no usable invitation left that would bring him back after  *)
(* his removal: create_invitation refuses members and supersedes what is   *)
(* pending, accepting uses the last one up.  Overlapping creates or        *)
(* accepts may leave one.                                                  *)
(***************************************************************************)
NoStrayInvitation ==
    "invites" \notin races =>
        \A i \in Invites : invite[i].st = "pending" => member[invite[i].to] = "none"

(***************************************************************************)
(* The purge of a closed organization deletes exactly the accounts that    *)
(* were left without a membership, unless a member joins or leaves another *)
(* organization after the purge has counted his memberships.               *)
(***************************************************************************)
PurgeIsExact ==
    [][orgState' = "purged" /\ orgState # "purged" /\ "moved" \notin races
       => account' = {u \in account : member[u] = "none" \/ u \in elsewhere}]_membershipVars
=============================================================================
