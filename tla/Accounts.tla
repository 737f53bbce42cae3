------------------------------ MODULE Accounts ------------------------------
(***************************************************************************)
(* How accounts come to be and change: registration (open or onto the      *)
(* waiting list), the e-mailed links that verify an address, reset a       *)
(* password or invite somebody who may have no account yet, and the        *)
(* counter of login attempts, which lets everybody pass while Redis fails. *)
(* A request reads, then writes in a later transaction; the unique indexes *)
(* of the database decide between two that overlap.  Covers the account    *)
(* part of routers/v1/auth.py, services/auth.py, signup.py,                *)
(* one_time_tokens.py, rate_limit.py and invitations.py (what an           *)
(* invitation does to members is in Membership).                           *)
(*                                                                         *)
(* Bounds: Links (ever mailed), MaxAttempts (at a time).                   *)
(***************************************************************************)
EXTENDS Integers, FiniteSets, Functions

CONSTANTS
    Spellings,        \* addresses as people type them
    Canonical,        \* [Spellings -> Spellings], trimmed and in lower case
    Slugs,
    Links,            \* one-time tokens and invitations
    AccountRequests,  \* requests in flight at a time
    AttemptLimit,     \* auth_rate_limit_attempts
    MaxAttempts

ASSUME AccountsAssumption ==
    /\ Spellings # {}
    /\ Canonical \in [Spellings -> Spellings]
    /\ \A e \in Spellings : Canonical[Canonical[e]] = Canonical[e]
    /\ "none" \notin Slugs
    /\ IsFiniteSet(Links) /\ IsFiniteSet(AccountRequests)
    /\ AttemptLimit \in Nat /\ MaxAttempts \in Nat

VARIABLES
    registered,  \* [Spellings -> Account or NoAccount], by the address in the row
    waiting,     \* addresses in waitlist_entry
    link,        \* [Links -> Link]: in Redis (an invitation: its row), and in a mailbox
    followed,    \* (ghost) [Links -> how often it verified, reset or opened an account]
    attempts,    \* the counters in Redis, by the address they are kept for
    guesses,     \* (ghost) [Spellings -> passwords checked for the person since the
                 \* counter last began]
    waved,       \* (ghost) [Spellings -> those of them that no limiter answered for]
    accountReq   \* [AccountRequests -> the request in flight]

limiterVars == <<attempts, guesses, waved>>
accountsVars == <<registered, waiting, link, followed, limiterVars, accountReq>>

\* The slug is that of the organization founded with the account, if one was.
NoAccount == [slug |-> "none", verified |-> FALSE, resets |-> 0]
NoLink == [st |-> "unused", for |-> "verify", to |-> CHOOSE e \in Spellings : TRUE]
NoRequestYet == [op |-> "idle"]
Serves(r, state) == accountReq' = [accountReq EXCEPT ![r] = state]
Has(e) == registered[e] # NoAccount
TakenSlugs == {registered[e].slug : e \in {f \in Spellings : Has(f)}}

\* Attempts that were not forgotten yet.
Tried == SumFunctionOnSet(attempts, Spellings) + SumFunctionOnSet(waved, Spellings)

\* normalize_email: accounts, waiting list and counters go by it.
Normalized_AsTyped(e) == e
Normalized(e) == Canonical[e]

-----------------------------------------------------------------------------
AccountsInit ==
    /\ registered = [e \in Spellings |-> NoAccount]
    /\ waiting = {}
    /\ link = [l \in Links |-> NoLink]
    /\ followed = [l \in Links |-> 0]
    /\ attempts = [e \in Spellings |-> 0]
    /\ guesses = [e \in Spellings |-> 0]
    /\ waved = [e \in Spellings |-> 0]
    /\ accountReq = [r \in AccountRequests |-> NoRequestYet]

\* register in mode "open": address and slug are free, as far as this request sees.
BeginRegister(r, e, slug) ==
    /\ accountReq[r] = NoRequestYet
    /\ ~Has(Normalized(e)) /\ slug \notin TakenSlugs
    /\ Serves(r, [op |-> "register", address |-> Normalized(e), slug |-> slug])
    /\ UNCHANGED <<registered, waiting, link, followed, limiterVars>>

\* The unique indexes turn the loser of a race away; the winner gets a link.
CommitRegister(r) ==
    LET x == accountReq[r] IN
    /\ x.op = "register"
    /\ IF Has(x.address) \/ x.slug \in TakenSlugs
       THEN Serves(r, NoRequestYet) /\ UNCHANGED registered
       ELSE /\ registered' = [registered EXCEPT ![x.address] = [NoAccount EXCEPT !.slug = x.slug]]
            /\ Serves(r, [op |-> "mail", for |-> "verify", to |-> x.address])
    /\ UNCHANGED <<waiting, link, followed, limiterVars>>

\* register in mode "waitlist": a second entry is refused by the index, silently.
BeginQueue(r, e) ==
    /\ accountReq[r] = NoRequestYet
    /\ Normalized(e) \notin waiting
    /\ Serves(r, [op |-> "queue", address |-> Normalized(e)])
    /\ UNCHANGED <<registered, waiting, link, followed, limiterVars>>

CommitQueue(r) ==
    /\ accountReq[r].op = "queue"
    /\ waiting' = waiting \cup {accountReq[r].address}
    /\ Serves(r, NoRequestYet)
    /\ UNCHANGED <<registered, link, followed, limiterVars>>

\* resend_verification by a user not yet verified, forgot_password by anybody.
AskForLink(r, e, for) ==
    /\ accountReq[r] = NoRequestYet
    /\ Has(Normalized(e))
    /\ for = "verify" => ~registered[Normalized(e)].verified
    /\ Serves(r, [op |-> "mail", for |-> for, to |-> Normalized(e)])
    /\ UNCHANGED <<registered, waiting, link, followed, limiterVars>>

\* create_invitation, for whoever is no member yet: an account is not asked for.
Invite(r, e) ==
    /\ accountReq[r] = NoRequestYet
    /\ Serves(r, [op |-> "mail", for |-> "invite", to |-> Normalized(e)])
    /\ UNCHANGED <<registered, waiting, link, followed, limiterVars>>

\* The token goes to Redis, the link to the mailbox, if both work; otherwise it is of no
\* use, and nobody hears of it.
MailLink(r, l) ==
    /\ accountReq[r].op = "mail"
    /\ link[l].st = "unused"
    /\ \/ link' = [link EXCEPT ![l] = [st |-> "mailed", for |-> accountReq[r].for, to |-> accountReq[r].to]]
       \/ link' = [link EXCEPT ![l].st = "used"]
    /\ Serves(r, NoRequestYet)
    /\ UNCHANGED <<registered, waiting, followed, limiterVars>>

\* consume: GETDEL, before the transaction it is for.
FollowLink(r, l) ==
    /\ accountReq[r] = NoRequestYet
    /\ link[l].st = "mailed" /\ link[l].for # "invite"
    /\ link' = [link EXCEPT ![l].st = "used"]
    /\ followed' = [followed EXCEPT ![l] = @ + 1]
    /\ Serves(r, [op |-> link[l].for, to |-> link[l].to])
    /\ UNCHANGED <<registered, waiting, limiterVars>>

CommitLink(r) ==
    LET x == accountReq[r] IN
    /\ x.op \in {"verify", "reset"}
    /\ registered' = IF x.op = "verify" THEN [registered EXCEPT ![x.to].verified = TRUE]
                     ELSE [registered EXCEPT ![x.to].resets = @ + 1]
    /\ Serves(r, NoRequestYet)
    /\ UNCHANGED <<waiting, link, followed, limiterVars>>

\* accept_invitation: the invitation is pending, the account is there or not.
ReadInvitation(r, l) ==
    /\ accountReq[r] = NoRequestYet
    /\ link[l].st = "mailed" /\ link[l].for = "invite"
    /\ Serves(r, [op |-> "accept", link |-> l, to |-> link[l].to, fresh |-> ~Has(link[l].to)])
    /\ UNCHANGED <<registered, waiting, link, followed, limiterVars>>

\* A new account is verified from the start, and founds nothing; the index on the address
\* undoes the whole transaction of the second of two who open it.
OpenInvited(r) ==
    LET x == accountReq[r] IN
    /\ x.op = "accept"
    /\ \/ /\ x.fresh /\ Has(x.to)
          /\ UNCHANGED <<registered, link, followed>>
       \/ /\ x.fresh /\ ~Has(x.to)
          /\ registered' = [registered EXCEPT ![x.to] = [NoAccount EXCEPT !.verified = TRUE]]
          /\ link' = [link EXCEPT ![x.link].st = "used"]
          /\ followed' = [followed EXCEPT ![x.link] = @ + 1]
       \/ /\ ~x.fresh
          /\ link' = [link EXCEPT ![x.link].st = "used"]
          /\ UNCHANGED <<registered, followed>>
    /\ Serves(r, NoRequestYet)
    /\ UNCHANGED <<waiting, limiterVars>>

LinkExpires(l) ==
    /\ link[l].st = "mailed"
    /\ link' = [link EXCEPT ![l].st = "used"]
    /\ UNCHANGED <<registered, waiting, followed, limiterVars, accountReq>>

\* login: INCR, which also answers; beyond the limit no password is looked at.
TryLogin(r, e) ==
    LET key == Normalized(e) IN
    /\ accountReq[r] = NoRequestYet
    /\ Tried < MaxAttempts
    /\ attempts' = [attempts EXCEPT ![key] = @ + 1]
    /\ IF attempts[key] < AttemptLimit
       THEN /\ guesses' = [guesses EXCEPT ![Canonical[e]] = @ + 1]
            /\ Serves(r, [op |-> "login", key |-> key])
       ELSE UNCHANGED <<guesses, accountReq>>
    /\ UNCHANGED <<registered, waiting, link, followed, waved>>

\* Redis fails before it has counted, or after (its answer or the ttl is lost): the
\* attempt goes on, also beyond the limit.
TryLoginUnlimited(r, e) ==
    LET key == Normalized(e) IN
    /\ accountReq[r] = NoRequestYet
    /\ Tried < MaxAttempts
    /\ UNCHANGED attempts \/ attempts' = [attempts EXCEPT ![key] = @ + 1]
    /\ guesses' = [guesses EXCEPT ![Canonical[e]] = @ + 1]
    /\ waved' = [waved EXCEPT ![Canonical[e]] = @ + 1]
    /\ Serves(r, [op |-> "login", key |-> key])
    /\ UNCHANGED <<registered, waiting, link, followed>>

LoginFails(r) ==
    /\ accountReq[r].op = "login"
    /\ Serves(r, NoRequestYet)
    /\ UNCHANGED <<registered, waiting, link, followed, limiterVars>>

\* The counter of e is gone, and with it what it counted.
Counts(e, n) ==
    /\ attempts' = [attempts EXCEPT ![e] = n]
    /\ guesses' = [guesses EXCEPT ![Canonical[e]] = 0]
    /\ waved' = [waved EXCEPT ![Canonical[e]] = 0]

\* The right password deletes the counter, whatever was counted since, if Redis answers.
LoginSucceeds_Decrements(r) ==
    LET key == accountReq[r].key IN
    /\ accountReq[r].op = "login" /\ Has(key)
    /\ Counts(key, attempts[key] - 1) \/ UNCHANGED limiterVars
    /\ Serves(r, NoRequestYet)
    /\ UNCHANGED <<registered, waiting, link, followed>>

LoginSucceeds(r) ==
    LET key == accountReq[r].key IN
    /\ accountReq[r].op = "login" /\ Has(key)
    /\ Counts(key, 0) \/ UNCHANGED limiterVars
    /\ Serves(r, NoRequestYet)
    /\ UNCHANGED <<registered, waiting, link, followed>>

\* The counter's ttl, set by its first increment.
WindowEnds(e) ==
    /\ attempts[e] > 0
    /\ Counts(e, 0)
    /\ UNCHANGED <<registered, waiting, link, followed, accountReq>>

\* A commit fails, Redis or the process is gone; a link that was followed stays used.
AccountRequestFails(r) ==
    /\ accountReq[r] # NoRequestYet
    /\ Serves(r, NoRequestYet)
    /\ UNCHANGED <<registered, waiting, link, followed, limiterVars>>

AccountsNext ==
    \/ \E r \in AccountRequests :
          \/ \E e \in Spellings :
                \/ \E slug \in Slugs : BeginRegister(r, e, slug)
                \/ \E for \in {"verify", "reset"} : AskForLink(r, e, for)
                \/ BeginQueue(r, e) \/ Invite(r, e)
                \/ TryLogin(r, e) \/ TryLoginUnlimited(r, e)
          \/ \E l \in Links : MailLink(r, l) \/ FollowLink(r, l) \/ ReadInvitation(r, l)
          \/ CommitRegister(r) \/ CommitQueue(r) \/ CommitLink(r) \/ OpenInvited(r)
          \/ LoginFails(r) \/ LoginSucceeds(r) \/ AccountRequestFails(r)
    \/ \E l \in Links : LinkExpires(l)
    \/ \E e \in Spellings : WindowEnds(e)

AccountsSpec == AccountsInit /\ [][AccountsNext]_accountsVars

-----------------------------------------------------------------------------
\* Every variable keeps its type.
AccountsTypeOK ==
    /\ registered \in [Spellings -> [slug : Slugs \cup {"none"}, verified : BOOLEAN, resets : Nat]]
    /\ waiting \in SUBSET Spellings
    /\ link \in [Links -> [st : {"unused", "mailed", "used"}, for : {"verify", "reset", "invite"}, to : Spellings]]
    /\ followed \in [Links -> Nat]
    /\ attempts \in [Spellings -> Nat]
    /\ guesses \in [Spellings -> Nat] /\ waved \in [Spellings -> Nat]

FollowedBy(e, for) == {l \in Links : link[l].for = for /\ link[l].to = e /\ followed[l] > 0}
Shown(e) == FollowedBy(e, "verify") \cup FollowedBy(e, "invite")

(***************************************************************************)
(* One person is one account however the address is typed and however      *)
(* requests overlap: one row, an organization of its own, one place on the *)
(* waiting list, one counter of attempts, which lets no more passwords be  *)
(* tried than the limit and the attempts made while Redis failed; and the  *)
(* account is verified or gets a new password only by a link sent to its   *)
(* address (an invitation opens it verified), each link once, also when    *)
(* the transaction after the link fails.                                   *)
(***************************************************************************)
OnePersonOneAccount ==
    /\ \A e, f \in Spellings :
          e # f /\ Has(e) /\ Has(f) =>
             /\ Canonical[e] # Canonical[f]
             /\ registered[e].slug = registered[f].slug => registered[e].slug = "none"
    /\ \A e, f \in waiting : Canonical[e] = Canonical[f] => e = f
    /\ \A e \in Spellings : guesses[e] <= AttemptLimit + waved[e]
    /\ \A l \in Links : followed[l] <= 1
    /\ \A e \in Spellings :
          /\ registered[e].verified => Shown(e) # {}
          /\ registered[e].resets <= Cardinality(FollowedBy(e, "reset"))
=============================================================================
