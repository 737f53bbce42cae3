---------------------------- MODULE AccountsProofs ----------------------------
(***************************************************************************)
(* The promises of modules Accounts, Sessions and Membership for any       *)
(* number of users, addresses, links, tokens, invitations and requests.    *)
(*                                                                         *)
(* Accounts: rows, the waiting list and counters stand under the address   *)
(* in its one spelling, and every change of an account is paid for by a    *)
(* link that was followed, counting the requests that still carry one.     *)
(* Sessions: a token of a family that is not revoked is in the family's    *)
(* set, an open family in the index; the invariant says what a refresh     *)
(* knows of its token and what a revocation has done of what it read.      *)
(* Membership: a request that no commit has overtaken since it read still  *)
(* knows the truth about the members and the invitations; the invariant    *)
(* says what each kind of request knows.                                   *)
(***************************************************************************)
EXTENDS MCAccounts, FiniteSetTheorems, TLAPS

-----------------------------------------------------------------------------
(* Accounts.                                                               *)

Registering == [op : {"register"}, address : Spellings, slug : Slugs]
Mailing == [op : {"mail"}, for : {"verify", "reset", "invite"}, to : Spellings]
Queued == [op : {"queue"}, address : Spellings]
Following == [op : {"verify", "reset"}, to : Spellings]
LoggingIn == [op : {"login"}, key : Spellings]
BeingInvited == [op : {"accept"}, link : Links, to : Spellings, fresh : BOOLEAN]
AccountReqState ==
    {NoRequestYet} \cup Registering \cup Mailing \cup Queued \cup Following \cup LoggingIn \cup BeingInvited

AccountTypes == AccountsTypeOK /\ accountReq \in [AccountRequests -> AccountReqState]

\* Rows, the waiting list and counters stand under the address in its one spelling.
RowsCanonical ==
    /\ \A e \in Spellings : Has(e) => Canonical[e] = e
    /\ \A e \in waiting : Canonical[e] = e
SlugsApart ==
    \A e, f \in Spellings :
        e # f /\ Has(e) /\ Has(f) /\ registered[e].slug = registered[f].slug => registered[e].slug = "none"
GuessesCounted ==
    \A e \in Spellings :
        /\ guesses[e] <= attempts[e] + waved[e] /\ guesses[e] <= AttemptLimit + waved[e]
        /\ attempts[e] > 0 => Canonical[e] = e

\* A link is in the mailbox of somebody who has an account, until it is followed; an
\* invitation has opened an account if it was followed.
LinksSound ==
    \A l \in Links :
        /\ followed[l] = 0 \/ (followed[l] = 1 /\ link[l].st = "used")
        /\ link[l].st = "mailed" /\ link[l].for # "invite" => Has(link[l].to)
        /\ link[l].st = "mailed" /\ link[l].for = "invite" => Canonical[link[l].to] = link[l].to
        /\ followed[l] = 1 /\ link[l].for = "invite" => Has(link[l].to)

\* What a link allows is done once: by now, or by the request that followed it.
Resetting(e) == {r \in AccountRequests : accountReq[r].op = "reset" /\ accountReq[r].to = e}
ByLinkOnly ==
    \A e \in Spellings :
        /\ registered[e].verified => Shown(e) # {}
        /\ registered[e].resets + Cardinality(Resetting(e)) <= Cardinality(FollowedBy(e, "reset"))

\* What a request knows of the rows it is going to write.
AccountReqSound(x) ==
    /\ x.op \in {"register", "queue"} => Canonical[x.address] = x.address
    /\ x.op = "login" => Canonical[x.key] = x.key
    /\ x.op \in {"verify", "reset"} => Has(x.to)
    /\ x.op = "mail" => IF x.for = "invite" THEN Canonical[x.to] = x.to ELSE Has(x.to)
    /\ x.op = "accept" =>
          /\ Canonical[x.to] = x.to
          /\ link[x.link].st # "unused" /\ link[x.link].for = "invite" /\ link[x.link].to = x.to
    /\ x.op = "verify" => FollowedBy(x.to, "verify") # {}
AccountReqsSound == \A r \in AccountRequests : AccountReqSound(accountReq[r])

AccountsIInv ==
    /\ AccountTypes /\ RowsCanonical /\ SlugsApart /\ GuessesCounted
    /\ LinksSound /\ ByLinkOnly /\ AccountReqsSound

LEMMA AccountReqKinds ==
    ASSUME NEW x \in AccountReqState
    PROVE  /\ x.op = "idle" => x = NoRequestYet
           /\ x.op = "register" => x \in Registering
           /\ x.op = "mail" => x \in Mailing
           /\ x.op = "queue" => x \in Queued
           /\ x.op \in {"verify", "reset"} => x \in Following
           /\ x.op = "login" => x \in LoggingIn
           /\ x.op = "accept" => x \in BeingInvited
           /\ x.op \in {"idle", "register", "mail", "queue", "verify", "reset", "login", "accept"}
BY DEF AccountReqState, NoRequestYet, Registering, Mailing, Queued, Following, LoggingIn, BeingInvited

LEMMA AccountFields ==
    ASSUME AccountsTypeOK, NEW e \in Spellings
    PROVE  /\ registered[e].slug \in Slugs \cup {"none"} /\ registered[e].verified \in BOOLEAN
           /\ registered[e].resets \in Nat
           /\ attempts[e] \in Nat /\ guesses[e] \in Nat /\ waved[e] \in Nat
BY DEF AccountsTypeOK

\* A link that was sent stays what it is.
LinksKept ==
    \A l \in Links : link[l].st # "unused" =>
        link'[l].st # "unused" /\ link'[l].for = link[l].for /\ link'[l].to = link[l].to

\* Requests in flight, when one of them moves.
LEMMA AccountReqMoves ==
    ASSUME AccountTypes, AccountReqsSound, NEW r \in AccountRequests, NEW s \in AccountReqState,
           Serves(r, s), AccountReqSound(s)', LinksKept,
           \A e \in Spellings : Has(e) => Has(e)',
           \A e \in Spellings : FollowedBy(e, "verify") \subseteq FollowedBy(e, "verify")'
    PROVE  accountReq' \in [AccountRequests -> AccountReqState] /\ AccountReqsSound'
<1>1. accountReq' = [accountReq EXCEPT ![r] = s] /\ accountReq \in [AccountRequests -> AccountReqState]
  BY DEF Serves, AccountTypes
<1>2. accountReq' \in [AccountRequests -> AccountReqState]
  BY <1>1
<1>3. ASSUME NEW q \in AccountRequests, q # r
      PROVE  AccountReqSound(accountReq[q])'
  <2>1. accountReq'[q] = accountReq[q] /\ accountReq[q] \in AccountReqState
    BY <1>1, <1>3
  <2>2. AccountReqSound(accountReq[q])
    BY DEF AccountReqsSound
  <2>3. /\ accountReq[q].op \in {"mail", "verify", "reset", "accept"} => accountReq[q].to \in Spellings
        /\ accountReq[q].op = "accept" => accountReq[q].link \in Links
    BY <2>1, AccountReqKinds DEF Mailing, Following, BeingInvited
  <2> QED
    BY <2>1, <2>2, <2>3 DEF AccountReqSound, LinksKept
<1>4. accountReq'[r] = s
  BY <1>1
<1>5. AccountReqSound(accountReq[r])'
  BY <1>4 DEF AccountReqSound
<1> QED
  BY <1>2, <1>3, <1>5 DEF AccountReqsSound

LEMMA ResettingFinite ==
    ASSUME NEW e
    PROVE  IsFiniteSet(Resetting(e)) /\ Cardinality(Resetting(e)) \in Nat
<1>1. IsFiniteSet(Resetting(e))
  BY AccountsAssumption, FS_Subset DEF Resetting
<1> QED
  BY <1>1, FS_CardinalityType

LEMMA FollowedByFinite ==
    ASSUME NEW e, NEW for
    PROVE  IsFiniteSet(FollowedBy(e, for)) /\ Cardinality(FollowedBy(e, for)) \in Nat
<1>1. IsFiniteSet(FollowedBy(e, for))
  BY AccountsAssumption, FS_Subset DEF FollowedBy
<1> QED
  BY <1>1, FS_CardinalityType

\* A request that does not go on to reset a password is one less who may.
LEMMA ResettingLeaves ==
    ASSUME AccountTypes, NEW r \in AccountRequests, NEW s, Serves(r, s), s.op # "reset", NEW e
    PROVE  /\ Resetting(e)' = Resetting(e) \ {r}
           /\ Cardinality(Resetting(e)') \in Nat
           /\ Cardinality(Resetting(e)') <= Cardinality(Resetting(e))
           /\ r \in Resetting(e) => Cardinality(Resetting(e)') = Cardinality(Resetting(e)) - 1
<1>1. \A q \in AccountRequests : accountReq'[q] = IF q = r THEN s ELSE accountReq[q]
  BY DEF Serves, AccountTypes
<1>2. Resetting(e)' = Resetting(e) \ {r}
  BY <1>1 DEF Resetting
<1>3. r \in Resetting(e) => Cardinality(Resetting(e) \ {r}) = Cardinality(Resetting(e)) - 1
  BY ResettingFinite, FS_RemoveElement
<1>4. r \notin Resetting(e) => Resetting(e) \ {r} = Resetting(e)
  OBVIOUS
<1>5. IsFiniteSet(Resetting(e)) /\ Cardinality(Resetting(e)) \in Nat
  BY ResettingFinite
<1>6. IsFiniteSet(Resetting(e) \ {r})
  BY <1>5, FS_Subset
<1>7. Cardinality(Resetting(e) \ {r}) \in Nat
  BY <1>6, FS_CardinalityType
<1>8. Cardinality(Resetting(e) \ {r}) <= Cardinality(Resetting(e))
  <2> HIDE DEF Resetting
  <2>1. CASE r \in Resetting(e)
    BY <1>3, <1>5, <2>1
  <2>2. CASE r \notin Resetting(e)
    <3>1. Resetting(e) \ {r} = Resetting(e)
      BY <1>4, <2>2
    <3>2. Cardinality(Resetting(e)) <= Cardinality(Resetting(e))
      BY <1>5
    <3> QED
      BY <3>1, <3>2
  <2> QED
    BY <2>1, <2>2
<1> QED
  BY <1>2, <1>3, <1>7, <1>8

LEMMA LinksUntouched ==
    ASSUME UNCHANGED <<link, followed>>, NEW e, NEW for
    PROVE  FollowedBy(e, for)' = FollowedBy(e, for)
BY DEF FollowedBy

\* A step of r that leaves accounts and links alone.
LEMMA RowsStay ==
    ASSUME AccountsIInv, UNCHANGED <<registered, link, followed>>,
           NEW r \in AccountRequests, NEW s \in AccountReqState, Serves(r, s),
           s.op \notin {"verify", "reset"}, AccountReqSound(s)
    PROVE  /\ accountReq' \in [AccountRequests -> AccountReqState]
           /\ SlugsApart' /\ LinksSound' /\ ByLinkOnly' /\ AccountReqsSound'
           /\ \A e \in Spellings : Has(e)' <=> Has(e)
<1>1. \A e \in Spellings : Has(e)' <=> Has(e)
  BY DEF Has
<1>2. \A e \in Spellings : FollowedBy(e, "verify")' = FollowedBy(e, "verify")
                           /\ FollowedBy(e, "reset")' = FollowedBy(e, "reset")
                           /\ Shown(e)' = Shown(e)
  BY LinksUntouched DEF Shown
<1>3. AccountReqSound(s)'
  BY DEF AccountReqSound, Has
<1>4. accountReq' \in [AccountRequests -> AccountReqState] /\ AccountReqsSound'
  BY <1>1, <1>2, <1>3, AccountReqMoves DEF AccountsIInv, LinksKept
<1>5. SlugsApart' /\ LinksSound'
  BY DEF SlugsApart, LinksSound, Has, AccountsIInv
<1>6. ByLinkOnly'
  <2> SUFFICES ASSUME NEW e \in Spellings
               PROVE  /\ registered[e].verified => Shown(e)' # {}
                      /\ registered[e].resets + Cardinality(Resetting(e)') <= Cardinality(FollowedBy(e, "reset")')
    BY DEF ByLinkOnly
  <2>1. Cardinality(Resetting(e)') \in Nat /\ Cardinality(Resetting(e)') <= Cardinality(Resetting(e))
    BY ResettingLeaves DEF AccountsIInv
  <2>2. registered[e].resets \in Nat
    BY AccountFields DEF AccountsIInv, AccountTypes
  <2>3. /\ registered[e].verified => Shown(e) # {}
        /\ registered[e].resets + Cardinality(Resetting(e)) <= Cardinality(FollowedBy(e, "reset"))
    BY DEF AccountsIInv, ByLinkOnly
  <2> QED
    BY <1>2, <2>1, <2>2, <2>3, ResettingFinite, FollowedByFinite
<1> QED
  BY <1>1, <1>4, <1>5, <1>6

LEMMA RowsStayUnmoved ==
    ASSUME AccountsIInv, UNCHANGED <<registered, link, followed, accountReq>>
    PROVE  /\ SlugsApart' /\ LinksSound' /\ ByLinkOnly' /\ AccountReqsSound'
           /\ \A e \in Spellings : Has(e)' <=> Has(e)
<1>1. \A e \in Spellings : Has(e)' <=> Has(e)
  BY DEF Has
<1>2. SlugsApart' /\ LinksSound'
  BY DEF SlugsApart, LinksSound, Has, AccountsIInv
<1>3. ByLinkOnly'
  BY DEF AccountsIInv, ByLinkOnly, FollowedBy, Shown, Resetting
<1>4. AccountReqsSound'
  BY DEF AccountsIInv, AccountReqsSound, AccountReqSound, FollowedBy, Has
<1> QED
  BY <1>1, <1>2, <1>3, <1>4

\* Reading steps, and those that only give up.
LEMMA AccountReads ==
    ASSUME AccountsIInv, NEW r \in AccountRequests, NEW s \in AccountReqState, Serves(r, s),
           s.op \notin {"verify", "reset"}, AccountReqSound(s),
           UNCHANGED <<registered, waiting, link, followed, attempts, guesses, waved>>
    PROVE  AccountsIInv'
<1>1. /\ accountReq' \in [AccountRequests -> AccountReqState]
      /\ SlugsApart' /\ LinksSound' /\ ByLinkOnly' /\ AccountReqsSound'
  BY RowsStay
<1>2. AccountTypes'
  BY <1>1 DEF AccountsIInv, AccountTypes, AccountsTypeOK
<1>3. RowsCanonical' /\ GuessesCounted'
  BY DEF AccountsIInv, RowsCanonical, GuessesCounted, Has
<1> QED
  BY <1>1, <1>2, <1>3 DEF AccountsIInv

LEMMA CanonicalTwice ==
    ASSUME NEW e \in Spellings
    PROVE  Normalized(e) \in Spellings /\ Canonical[Normalized(e)] = Normalized(e)
           /\ Normalized(e) = Canonical[e]
BY AccountsAssumption DEF Normalized

LEMMA ReadsPreserve ==
    ASSUME AccountsIInv, NEW r \in AccountRequests
    PROVE  /\ \A e \in Spellings, slug \in Slugs : BeginRegister(r, e, slug) => AccountsIInv'
           /\ \A e \in Spellings : BeginQueue(r, e) => AccountsIInv'
           /\ \A e \in Spellings, for \in {"verify", "reset"} : AskForLink(r, e, for) => AccountsIInv'
           /\ \A e \in Spellings : Invite(r, e) => AccountsIInv'
           /\ \A l \in Links : ReadInvitation(r, l) => AccountsIInv'
           /\ LoginFails(r) => AccountsIInv'
           /\ AccountRequestFails(r) => AccountsIInv'
<1>1. ASSUME NEW e \in Spellings, NEW slug \in Slugs, BeginRegister(r, e, slug)
      PROVE  AccountsIInv'
  <2> DEFINE s == [op |-> "register", address |-> Normalized(e), slug |-> slug]
  <2>1. s \in AccountReqState /\ s.op = "register" /\ AccountReqSound(s)
    BY CanonicalTwice DEF AccountReqState, Registering, AccountReqSound
  <2>2. Serves(r, s) /\ UNCHANGED <<registered, waiting, link, followed, attempts, guesses, waved>>
    BY <1>1 DEF BeginRegister, limiterVars
  <2> HIDE DEF s
  <2> QED
    BY <2>1, <2>2, AccountReads
<1>2. ASSUME NEW e \in Spellings, BeginQueue(r, e)
      PROVE  AccountsIInv'
  <2> DEFINE s == [op |-> "queue", address |-> Normalized(e)]
  <2>1. s \in AccountReqState /\ s.op = "queue" /\ AccountReqSound(s)
    BY CanonicalTwice DEF AccountReqState, Queued, AccountReqSound
  <2>2. Serves(r, s) /\ UNCHANGED <<registered, waiting, link, followed, attempts, guesses, waved>>
    BY <1>2 DEF BeginQueue, limiterVars
  <2> HIDE DEF s
  <2> QED
    BY <2>1, <2>2, AccountReads
<1>3. ASSUME NEW e \in Spellings, NEW for \in {"verify", "reset"}, AskForLink(r, e, for)
      PROVE  AccountsIInv'
  <2> DEFINE s == [op |-> "mail", for |-> for, to |-> Normalized(e)]
  <2>1. s \in AccountReqState /\ s.op = "mail" /\ AccountReqSound(s)
    BY <1>3, CanonicalTwice DEF AccountReqState, Mailing, AccountReqSound, AskForLink
  <2>2. Serves(r, s) /\ UNCHANGED <<registered, waiting, link, followed, attempts, guesses, waved>>
    BY <1>3 DEF AskForLink, limiterVars
  <2> HIDE DEF s
  <2> QED
    BY <2>1, <2>2, AccountReads
<1>4. ASSUME LoginFails(r) \/ AccountRequestFails(r)
      PROVE  AccountsIInv'
  <2>1. NoRequestYet \in AccountReqState /\ NoRequestYet.op = "idle" /\ AccountReqSound(NoRequestYet)
    BY DEF AccountReqState, NoRequestYet, AccountReqSound
  <2>2. Serves(r, NoRequestYet) /\ UNCHANGED <<registered, waiting, link, followed, attempts, guesses, waved>>
    BY <1>4 DEF LoginFails, AccountRequestFails, limiterVars
  <2> QED
    BY <2>1, <2>2, AccountReads
<1>5. ASSUME NEW e \in Spellings, Invite(r, e)
      PROVE  AccountsIInv'
  <2> DEFINE s == [op |-> "mail", for |-> "invite", to |-> Normalized(e)]
  <2>1. s \in AccountReqState /\ s.op = "mail" /\ AccountReqSound(s)
    BY CanonicalTwice DEF AccountReqState, Mailing, AccountReqSound
  <2>2. Serves(r, s) /\ UNCHANGED <<registered, waiting, link, followed, attempts, guesses, waved>>
    BY <1>5 DEF Invite, limiterVars
  <2> HIDE DEF s
  <2> QED
    BY <2>1, <2>2, AccountReads
<1>6. ASSUME NEW l \in Links, ReadInvitation(r, l)
      PROVE  AccountsIInv'
  <2> DEFINE s == [op |-> "accept", link |-> l, to |-> link[l].to, fresh |-> ~Has(link[l].to)]
  <2>1. link[l].to \in Spellings /\ link[l].st = "mailed" /\ link[l].for = "invite"
    BY <1>6 DEF ReadInvitation, AccountsIInv, AccountTypes, AccountsTypeOK
  <2>2. Canonical[link[l].to] = link[l].to
    BY <2>1 DEF AccountsIInv, LinksSound
  <2>3. s \in AccountReqState /\ s.op = "accept"
    BY <2>1 DEF AccountReqState, BeingInvited
  <2>4. AccountReqSound(s)
    BY <2>1, <2>2 DEF AccountReqSound
  <2>5. Serves(r, s) /\ UNCHANGED <<registered, waiting, link, followed, attempts, guesses, waved>>
    BY <1>6 DEF ReadInvitation, limiterVars
  <2> HIDE DEF s
  <2> QED
    BY <2>3, <2>4, <2>5, AccountReads
<1> QED
  BY <1>1, <1>2, <1>3, <1>4, <1>5, <1>6

LEMMA QueuePreserves ==
    ASSUME AccountsIInv, NEW r \in AccountRequests, CommitQueue(r)
    PROVE  AccountsIInv'
<1>1. accountReq[r] \in AccountReqState /\ AccountReqSound(accountReq[r]) /\ accountReq[r].op = "queue"
  BY DEF AccountsIInv, AccountTypes, AccountReqsSound, CommitQueue
<1>2. accountReq[r].address \in Spellings /\ Canonical[accountReq[r].address] = accountReq[r].address
  BY <1>1, AccountReqKinds DEF Queued, AccountReqSound
<1>3. /\ Serves(r, NoRequestYet) /\ waiting' = waiting \cup {accountReq[r].address}
      /\ UNCHANGED <<registered, link, followed, attempts, guesses, waved>>
  BY DEF CommitQueue, limiterVars
<1>4. NoRequestYet \in AccountReqState /\ NoRequestYet.op = "idle" /\ AccountReqSound(NoRequestYet)
  BY DEF AccountReqState, NoRequestYet, AccountReqSound
<1>5. /\ accountReq' \in [AccountRequests -> AccountReqState]
      /\ SlugsApart' /\ LinksSound' /\ ByLinkOnly' /\ AccountReqsSound'
  BY <1>3, <1>4, RowsStay
<1>6. AccountTypes'
  BY <1>2, <1>3, <1>5 DEF AccountsIInv, AccountTypes, AccountsTypeOK
<1>7. RowsCanonical'
  BY <1>2, <1>3 DEF AccountsIInv, RowsCanonical, Has
<1>8. GuessesCounted'
  BY <1>3 DEF AccountsIInv, GuessesCounted
<1> QED
  BY <1>5, <1>6, <1>7, <1>8 DEF AccountsIInv

\* Counters.  Their step leaves the rows, the waiting list and the links alone.
LEMMA CountersMove ==
    ASSUME AccountsIInv, UNCHANGED <<registered, waiting, link, followed>>,
           attempts' \in [Spellings -> Nat], guesses' \in [Spellings -> Nat],
           waved' \in [Spellings -> Nat], GuessesCounted',
           \/ UNCHANGED accountReq
           \/ \E r \in AccountRequests, s \in AccountReqState :
                 Serves(r, s) /\ s.op \notin {"verify", "reset"} /\ AccountReqSound(s)
    PROVE  AccountsIInv'
<1>1. accountReq' \in [AccountRequests -> AccountReqState]
      /\ SlugsApart' /\ LinksSound' /\ ByLinkOnly' /\ AccountReqsSound'
  <2>1. CASE UNCHANGED accountReq
    BY <2>1, RowsStayUnmoved DEF AccountsIInv, AccountTypes
  <2>2. CASE \E r \in AccountRequests, s \in AccountReqState :
                 Serves(r, s) /\ s.op \notin {"verify", "reset"} /\ AccountReqSound(s)
    <3>1. PICK r \in AccountRequests, s \in AccountReqState :
                 Serves(r, s) /\ s.op \notin {"verify", "reset"} /\ AccountReqSound(s)
      BY <2>2
    <3> QED
      BY <3>1, RowsStay
  <2> QED
    BY <2>1, <2>2
<1>2. AccountTypes'
  BY <1>1 DEF AccountsIInv, AccountTypes, AccountsTypeOK
<1>3. RowsCanonical'
  BY DEF AccountsIInv, RowsCanonical, Has
<1> QED
  BY <1>1, <1>2, <1>3 DEF AccountsIInv

LEMMA LimiterTypes ==
    ASSUME AccountsIInv
    PROVE  /\ attempts \in [Spellings -> Nat] /\ guesses \in [Spellings -> Nat]
           /\ waved \in [Spellings -> Nat]
           /\ GuessesCounted /\ AttemptLimit \in Nat
BY AccountsAssumption DEF AccountsIInv, AccountTypes, AccountsTypeOK

\* An attempt: counted below the limit, refused, or made while Redis fails.
LEMMA TryLoginPreserves ==
    ASSUME AccountsIInv, NEW r \in AccountRequests, NEW e \in Spellings,
           TryLogin(r, e) \/ TryLoginUnlimited(r, e)
    PROVE  AccountsIInv'
<1> DEFINE key == Normalized(e)
           s == [op |-> "login", key |-> key]
<1>1. key \in Spellings /\ Canonical[key] = key /\ key = Canonical[e]
  BY CanonicalTwice
<1>2. s \in AccountReqState /\ s.op = "login" /\ AccountReqSound(s)
  BY <1>1 DEF AccountReqState, LoggingIn, AccountReqSound
<1>3. /\ attempts \in [Spellings -> Nat] /\ guesses \in [Spellings -> Nat]
      /\ waved \in [Spellings -> Nat] /\ GuessesCounted /\ AttemptLimit \in Nat
  BY LimiterTypes
<1>4. UNCHANGED <<registered, waiting, link, followed>>
  BY DEF TryLogin, TryLoginUnlimited
<1>5. PICK a \in {0, 1}, g \in {0, 1}, u \in {0, 1} :
          /\ attempts' = [attempts EXCEPT ![key] = @ + a]
          /\ guesses' = [guesses EXCEPT ![key] = @ + g]
          /\ waved' = [waved EXCEPT ![key] = @ + u]
          /\ (g <= u /\ UNCHANGED <<attempts, guesses>> /\ a = 0 /\ g = 0) \/ g <= a + u
          /\ g <= u \/ (u = 0 /\ attempts[key] < AttemptLimit)
          /\ Serves(r, s) \/ UNCHANGED accountReq
  <2>1. CASE TryLogin(r, e)
    <3>1. CASE attempts[key] < AttemptLimit
      <4>1. /\ attempts' = [attempts EXCEPT ![key] = @ + 1]
            /\ guesses' = [guesses EXCEPT ![key] = @ + 1]
            /\ waved' = [waved EXCEPT ![key] = @ + 0] /\ Serves(r, s)
        BY <1>1, <1>3, <2>1, <3>1 DEF TryLogin
      <4> QED
        BY <3>1, <4>1
    <3>2. CASE ~(attempts[key] < AttemptLimit)
      <4>1. /\ attempts' = [attempts EXCEPT ![key] = @ + 1]
            /\ guesses' = [guesses EXCEPT ![key] = @ + 0]
            /\ waved' = [waved EXCEPT ![key] = @ + 0] /\ UNCHANGED accountReq
        BY <1>1, <1>3, <2>1, <3>2 DEF TryLogin
      <4> QED
        BY <4>1
    <3> QED
      BY <3>1, <3>2
  <2>2. CASE TryLoginUnlimited(r, e)
    <3>1. /\ guesses' = [guesses EXCEPT ![key] = @ + 1]
          /\ waved' = [waved EXCEPT ![key] = @ + 1] /\ Serves(r, s)
          /\ \/ attempts' = [attempts EXCEPT ![key] = @ + 0]
             \/ attempts' = [attempts EXCEPT ![key] = @ + 1]
      BY <1>1, <1>3, <2>2 DEF TryLoginUnlimited
    <3> QED
      BY <3>1
  <2> QED
    BY <2>1, <2>2
<1> HIDE DEF key, s
<1>6. /\ attempts' \in [Spellings -> Nat] /\ guesses' \in [Spellings -> Nat]
      /\ waved' \in [Spellings -> Nat]
  BY <1>1, <1>3, <1>5
<1>7. ASSUME NEW d \in Spellings
      PROVE  /\ guesses'[d] <= attempts'[d] + waved'[d] /\ guesses'[d] <= AttemptLimit + waved'[d]
             /\ attempts'[d] > 0 => Canonical[d] = d
  <2>1. /\ guesses[d] <= attempts[d] + waved[d] /\ guesses[d] <= AttemptLimit + waved[d]
        /\ attempts[d] > 0 => Canonical[d] = d
    BY <1>3 DEF GuessesCounted
  <2>2. attempts[d] \in Nat /\ guesses[d] \in Nat /\ waved[d] \in Nat
    BY <1>3
  <2>3. CASE d = key
    <3>1. attempts'[d] = attempts[d] + a /\ guesses'[d] = guesses[d] + g /\ waved'[d] = waved[d] + u
      BY <1>1, <1>3, <1>5, <2>3
    <3>2. guesses[d] + g <= attempts[d] + a + (waved[d] + u)
      BY <1>5, <2>1, <2>2
    <3>3. guesses[d] + g <= AttemptLimit + (waved[d] + u)
      BY <1>3, <1>5, <2>1, <2>2, <2>3
    <3> QED
      BY <1>1, <2>3, <3>1, <3>2, <3>3
  <2>4. CASE d # key
    BY <1>1, <1>3, <1>5, <2>1, <2>4
  <2> QED
    BY <2>3, <2>4
<1>8. GuessesCounted'
  BY <1>7 DEF GuessesCounted
<1>9. \/ UNCHANGED accountReq
      \/ \E q \in AccountRequests, t \in AccountReqState :
             Serves(q, t) /\ t.op \notin {"verify", "reset"} /\ AccountReqSound(t)
  BY <1>2, <1>5
<1> QED
  BY <1>4, <1>6, <1>8, <1>9, CountersMove

\* The counter of an address begins anew.
LEMMA CountsAnew ==
    ASSUME AccountsIInv, NEW e \in Spellings, Canonical[e] = e, Counts(e, 0)
    PROVE  /\ attempts' \in [Spellings -> Nat] /\ guesses' \in [Spellings -> Nat]
           /\ waved' \in [Spellings -> Nat] /\ GuessesCounted'
<1>1. /\ attempts \in [Spellings -> Nat] /\ guesses \in [Spellings -> Nat]
      /\ waved \in [Spellings -> Nat] /\ GuessesCounted /\ AttemptLimit \in Nat
  BY LimiterTypes
<1>2. /\ attempts' = [attempts EXCEPT ![e] = 0] /\ guesses' = [guesses EXCEPT ![e] = 0]
      /\ waved' = [waved EXCEPT ![e] = 0]
  BY DEF Counts
<1>3. /\ attempts' \in [Spellings -> Nat] /\ guesses' \in [Spellings -> Nat]
      /\ waved' \in [Spellings -> Nat]
  BY <1>1, <1>2
<1>4. GuessesCounted'
  BY <1>1, <1>2 DEF GuessesCounted
<1> QED
  BY <1>3, <1>4

LEMMA LoginSucceedsPreserves ==
    ASSUME AccountsIInv, NEW r \in AccountRequests, LoginSucceeds(r)
    PROVE  AccountsIInv'
<1>1. accountReq[r] \in AccountReqState /\ AccountReqSound(accountReq[r]) /\ accountReq[r].op = "login"
  BY DEF AccountsIInv, AccountTypes, AccountReqsSound, LoginSucceeds
<1>2. PICK key \in Spellings : key = accountReq[r].key /\ Canonical[key] = key
  BY <1>1, AccountReqKinds DEF LoggingIn, AccountReqSound
<1>3. /\ Counts(key, 0) \/ UNCHANGED <<attempts, guesses, waved>>
      /\ Serves(r, NoRequestYet) /\ UNCHANGED <<registered, waiting, link, followed>>
  BY <1>2 DEF LoginSucceeds, Counts, limiterVars
<1>4. NoRequestYet \in AccountReqState /\ NoRequestYet.op = "idle" /\ AccountReqSound(NoRequestYet)
  BY DEF AccountReqState, NoRequestYet, AccountReqSound
<1>5. CASE Counts(key, 0)
  <2>1. \E q \in AccountRequests, t \in AccountReqState :
               Serves(q, t) /\ t.op \notin {"verify", "reset"} /\ AccountReqSound(t)
    BY <1>3, <1>4
  <2> QED
    BY <1>2, <1>3, <1>5, <2>1, CountsAnew, CountersMove
<1>6. CASE UNCHANGED <<attempts, guesses, waved>>
  BY <1>3, <1>4, <1>6, AccountReads
<1> QED
  BY <1>3, <1>5, <1>6

LEMMA WindowEndsPreserves ==
    ASSUME AccountsIInv, NEW e \in Spellings, WindowEnds(e)
    PROVE  AccountsIInv'
<1>1. Canonical[e] = e
  BY LimiterTypes DEF GuessesCounted, WindowEnds
<1>2. Counts(e, 0) /\ UNCHANGED <<registered, waiting, link, followed, accountReq>>
  BY DEF WindowEnds
<1> QED
  BY <1>1, <1>2, CountsAnew, CountersMove

\* Registration: the row is new, and so is its slug.
LEMMA RegisterPreserves ==
    ASSUME AccountsIInv, NEW r \in AccountRequests, CommitRegister(r)
    PROVE  AccountsIInv'
<1> DEFINE x == accountReq[r]
<1>1. x \in AccountReqState /\ AccountReqSound(x) /\ x.op = "register"
  BY DEF AccountsIInv, AccountTypes, AccountReqsSound, CommitRegister
<1>2. x.address \in Spellings /\ x.slug \in Slugs /\ Canonical[x.address] = x.address
  BY <1>1, AccountReqKinds DEF Registering, AccountReqSound
<1>3. UNCHANGED <<waiting, link, followed, attempts, guesses, waved>>
  BY DEF CommitRegister, limiterVars
<1>4. CASE Has(x.address) \/ x.slug \in TakenSlugs
  <2>1. Serves(r, NoRequestYet) /\ UNCHANGED registered
    BY <1>4 DEF CommitRegister, limiterVars
  <2>2. NoRequestYet \in AccountReqState /\ NoRequestYet.op = "idle" /\ AccountReqSound(NoRequestYet)
    BY DEF AccountReqState, NoRequestYet, AccountReqSound
  <2> QED
    BY <1>3, <2>1, <2>2, AccountReads
<1>5. CASE ~(Has(x.address) \/ x.slug \in TakenSlugs)
  <2>1. PICK a \in Spellings, slug \in Slugs :
             x.address = a /\ x.slug = slug /\ Canonical[a] = a /\ ~Has(a) /\ slug \notin TakenSlugs
    BY <1>2, <1>5
  <2>2. PICK new, s : new = [NoAccount EXCEPT !.slug = slug] /\ s = [op |-> "mail", for |-> "verify", to |-> a]
    OBVIOUS
  <2>3. registered' = [registered EXCEPT ![a] = new] /\ Serves(r, s)
    BY <1>5, <2>1, <2>2 DEF CommitRegister, limiterVars
  <2>4. /\ new \in [slug : Slugs \cup {"none"}, verified : BOOLEAN, resets : Nat]
        /\ new.slug = slug /\ new # NoAccount /\ new.verified = FALSE /\ new.resets = 0
    BY <2>2, AccountsAssumption DEF NoAccount
  <2>5. s \in AccountReqState /\ s.op = "mail" /\ s.for = "verify" /\ s.to = a
    BY <2>2 DEF AccountReqState, Mailing
  <2>6. registered \in [Spellings -> [slug : Slugs \cup {"none"}, verified : BOOLEAN, resets : Nat]]
    BY DEF AccountsIInv, AccountTypes, AccountsTypeOK
  <2>7. \A e \in Spellings : registered'[e] = IF e = a THEN new ELSE registered[e]
    BY <2>3, <2>6
  <2>8. \A e \in Spellings : Has(e)' <=> e = a \/ Has(e)
    BY <2>4, <2>7 DEF Has
  <2>9. \A e \in Spellings : Has(e) => registered[e].slug # slug /\ e # a
    BY <2>1 DEF TakenSlugs
  <2> HIDE DEF x
  <2>10. AccountTypes' /\ AccountReqsSound'
    <3>1. registered' \in [Spellings -> [slug : Slugs \cup {"none"}, verified : BOOLEAN, resets : Nat]]
      BY <2>3, <2>4, <2>6
    <3>2. AccountReqSound(s)'
      <4>1. Has(s.to)'
        BY <2>5, <2>8
      <4> QED
        BY <2>5, <4>1 DEF AccountReqSound
    <3>3. \A e \in Spellings : FollowedBy(e, "verify")' = FollowedBy(e, "verify")
      BY <1>3, LinksUntouched
    <3>5. LinksKept
      BY <1>3 DEF LinksKept
    <3>4. accountReq' \in [AccountRequests -> AccountReqState] /\ AccountReqsSound'
      BY <2>3, <2>5, <2>8, <3>2, <3>3, <3>5, AccountReqMoves DEF AccountsIInv
    <3> QED
      BY <1>3, <3>1, <3>4 DEF AccountsIInv, AccountTypes, AccountsTypeOK
  <2>11. RowsCanonical'
    BY <1>3, <2>1, <2>4, <2>7, <2>8 DEF AccountsIInv, RowsCanonical
  <2>12. SlugsApart'
    BY <2>4, <2>7, <2>8, <2>9 DEF AccountsIInv, SlugsApart
  <2>13. GuessesCounted'
    BY <1>3 DEF AccountsIInv, GuessesCounted
  <2>14. LinksSound'
    BY <1>3, <2>8 DEF AccountsIInv, LinksSound, AccountTypes, AccountsTypeOK
  <2>15. ByLinkOnly'
    <3> SUFFICES ASSUME NEW e \in Spellings
                 PROVE  /\ registered'[e].verified => Shown(e)' # {}
                        /\ registered'[e].resets + Cardinality(Resetting(e)') <= Cardinality(FollowedBy(e, "reset")')
      BY DEF ByLinkOnly
    <3>1. Cardinality(Resetting(e)') \in Nat /\ Cardinality(Resetting(e)') <= Cardinality(Resetting(e))
      BY <2>3, <2>5, ResettingLeaves DEF AccountsIInv
    <3>2. /\ registered[e].verified => Shown(e) # {}
          /\ registered[e].resets + Cardinality(Resetting(e)) <= Cardinality(FollowedBy(e, "reset"))
      BY DEF AccountsIInv, ByLinkOnly
    <3>3. /\ FollowedBy(e, "verify")' = FollowedBy(e, "verify")
          /\ FollowedBy(e, "reset")' = FollowedBy(e, "reset")
          /\ Shown(e)' = Shown(e)
      BY <1>3, LinksUntouched DEF Shown
    <3>4. registered[e].resets \in Nat /\ Cardinality(Resetting(e)) \in Nat /\ Cardinality(FollowedBy(e, "reset")) \in Nat
      BY AccountFields, ResettingFinite, FollowedByFinite DEF AccountsIInv, AccountTypes
    <3>5. registered'[e].verified => registered[e].verified
      BY <2>4, <2>7
    <3>6. registered'[e].resets = registered[e].resets \/ registered'[e].resets = 0
      BY <2>4, <2>7
    <3> QED
      BY <3>1, <3>2, <3>3, <3>4, <3>5, <3>6
  <2> QED
    BY <2>10, <2>11, <2>12, <2>13, <2>14, <2>15 DEF AccountsIInv
<1> QED
  BY <1>4, <1>5

\* A link is sent: nobody has followed it.
LEMMA MailPreserves ==
    ASSUME AccountsIInv, NEW r \in AccountRequests, NEW l \in Links, MailLink(r, l)
    PROVE  AccountsIInv'
<1> DEFINE x == accountReq[r]
<1>1. x \in AccountReqState /\ AccountReqSound(x) /\ x.op = "mail"
  BY DEF AccountsIInv, AccountTypes, AccountReqsSound, MailLink
<1>2. /\ x.to \in Spellings /\ x.for \in {"verify", "reset", "invite"}
      /\ IF x.for = "invite" THEN Canonical[x.to] = x.to ELSE Has(x.to)
  BY <1>1, AccountReqKinds DEF Mailing, AccountReqSound
<1>3. \/ link' = [link EXCEPT ![l] = [st |-> "mailed", for |-> x.for, to |-> x.to]]
      \/ link' = [link EXCEPT ![l].st = "used"]
  BY DEF MailLink
<1>4. Serves(r, NoRequestYet) /\ link[l].st = "unused" /\ UNCHANGED <<registered, waiting, followed, attempts, guesses, waved>>
  BY DEF MailLink, limiterVars
<1>5. NoRequestYet \in AccountReqState /\ NoRequestYet.op = "idle" /\ AccountReqSound(NoRequestYet)'
  BY DEF AccountReqState, NoRequestYet, AccountReqSound
<1> HIDE DEF x
<1>6. link \in [Links -> [st : {"unused", "mailed", "used"}, for : {"verify", "reset", "invite"}, to : Spellings]]
  BY DEF AccountsIInv, AccountTypes, AccountsTypeOK
<1>7. link' \in [Links -> [st : {"unused", "mailed", "used"}, for : {"verify", "reset", "invite"}, to : Spellings]]
  BY <1>2, <1>3, <1>6
<1>8. \A k \in Links : k # l => link'[k] = link[k]
  BY <1>3, <1>6
<1>9. /\ link'[l].st \in {"mailed", "used"}
      /\ link'[l].st = "mailed" => link'[l].for = x.for /\ link'[l].to = x.to
  BY <1>3, <1>6
<1>10. followed[l] = 0 /\ followed \in [Links -> Nat]
  BY <1>4 DEF AccountsIInv, LinksSound, AccountTypes, AccountsTypeOK
<1>11. \A e, for : FollowedBy(e, for)' = FollowedBy(e, for)
  BY <1>4, <1>8, <1>10 DEF FollowedBy
<1>18. \A e \in Spellings : Shown(e)' = Shown(e)
  BY <1>11 DEF Shown
<1>12. (\A e \in Spellings : Has(e)' <=> Has(e)) /\ LinksKept
  BY <1>4, <1>8 DEF Has, LinksKept
<1>13. accountReq' \in [AccountRequests -> AccountReqState] /\ AccountReqsSound'
  BY <1>4, <1>5, <1>11, <1>12, AccountReqMoves DEF AccountsIInv
<1>14. AccountTypes'
  BY <1>4, <1>7, <1>13 DEF AccountsIInv, AccountTypes, AccountsTypeOK
<1>15. RowsCanonical' /\ SlugsApart' /\ GuessesCounted'
  BY <1>4 DEF AccountsIInv, RowsCanonical, SlugsApart, GuessesCounted, Has
<1>16. LinksSound'
  BY <1>2, <1>4, <1>7, <1>8, <1>9, <1>10, <1>12 DEF AccountsIInv, LinksSound
<1>17. ByLinkOnly'
  <2> SUFFICES ASSUME NEW e \in Spellings
               PROVE  /\ registered[e].verified => Shown(e)' # {}
                      /\ registered[e].resets + Cardinality(Resetting(e)') <= Cardinality(FollowedBy(e, "reset")')
    BY <1>4 DEF ByLinkOnly
  <2>1. Cardinality(Resetting(e)') \in Nat /\ Cardinality(Resetting(e)') <= Cardinality(Resetting(e))
    BY <1>4, <1>5, ResettingLeaves DEF AccountsIInv
  <2>2. registered[e].resets \in Nat /\ Cardinality(Resetting(e)) \in Nat /\ Cardinality(FollowedBy(e, "reset")) \in Nat
    BY AccountFields, ResettingFinite, FollowedByFinite DEF AccountsIInv, AccountTypes
  <2>3. /\ registered[e].verified => Shown(e) # {}
        /\ registered[e].resets + Cardinality(Resetting(e)) <= Cardinality(FollowedBy(e, "reset"))
    BY DEF AccountsIInv, ByLinkOnly
  <2> QED
    BY <1>11, <1>18, <2>1, <2>2, <2>3
<1> QED
  BY <1>13, <1>14, <1>15, <1>16, <1>17 DEF AccountsIInv

LEMMA LinkExpiresPreserves ==
    ASSUME AccountsIInv, NEW l \in Links, LinkExpires(l)
    PROVE  AccountsIInv'
<1>1. /\ link' = [link EXCEPT ![l].st = "used"]
      /\ UNCHANGED <<registered, waiting, followed, attempts, guesses, waved, accountReq>>
  BY DEF LinkExpires, limiterVars
<1>2. link \in [Links -> [st : {"unused", "mailed", "used"}, for : {"verify", "reset", "invite"}, to : Spellings]]
  BY DEF AccountsIInv, AccountTypes, AccountsTypeOK
<1>3. link' \in [Links -> [st : {"unused", "mailed", "used"}, for : {"verify", "reset", "invite"}, to : Spellings]]
  BY <1>1, <1>2
<1>4. \A k \in Links : /\ link'[k].for = link[k].for /\ link'[k].to = link[k].to
                       /\ link'[k].st = link[k].st \/ link'[k].st = "used"
                       /\ link[k].st # "unused" => link'[k].st # "unused"
                       /\ link[k].st = "used" => link'[k].st = "used"
  BY <1>1, <1>2 DEF LinkExpires
<1>5. \A e, for : FollowedBy(e, for)' = FollowedBy(e, for)
  BY <1>1, <1>4 DEF FollowedBy
<1>6. AccountTypes'
  BY <1>1, <1>3 DEF AccountsIInv, AccountTypes, AccountsTypeOK
<1>7. RowsCanonical' /\ SlugsApart' /\ GuessesCounted'
  BY <1>1 DEF AccountsIInv, RowsCanonical, SlugsApart, GuessesCounted, Has
<1>8. LinksSound'
  BY <1>1, <1>4 DEF AccountsIInv, LinksSound, Has
<1>11. \A e : Shown(e)' = Shown(e)
  BY <1>5 DEF Shown
<1>9. ByLinkOnly'
  BY <1>1, <1>5, <1>11 DEF AccountsIInv, ByLinkOnly, Resetting
<1>10. AccountReqsSound'
  <2> SUFFICES ASSUME NEW r \in AccountRequests
               PROVE  AccountReqSound(accountReq[r])'
    BY DEF AccountReqsSound
  <2>1. accountReq'[r] = accountReq[r] /\ AccountReqSound(accountReq[r]) /\ accountReq[r] \in AccountReqState
    BY <1>1 DEF AccountsIInv, AccountReqsSound, AccountTypes
  <2>2. accountReq[r].op = "accept" => accountReq[r].link \in Links
    BY <2>1, AccountReqKinds DEF BeingInvited
  <2> QED
    BY <1>1, <1>4, <1>5, <2>1, <2>2 DEF AccountReqSound, Has
<1> QED
  BY <1>6, <1>7, <1>8, <1>9, <1>10 DEF AccountsIInv

\* A link is followed for the first time; the request goes on to do what it allows.
LEMMA FollowPreserves ==
    ASSUME AccountsIInv, NEW r \in AccountRequests, NEW l \in Links, FollowLink(r, l)
    PROVE  AccountsIInv'
<1>1. /\ link \in [Links -> [st : {"unused", "mailed", "used"}, for : {"verify", "reset", "invite"}, to : Spellings]]
      /\ followed \in [Links -> Nat] /\ accountReq \in [AccountRequests -> AccountReqState]
  BY DEF AccountsIInv, AccountTypes, AccountsTypeOK
<1>2. PICK a \in Spellings, kind \in {"verify", "reset"} : link[l].to = a /\ link[l].for = kind
  BY <1>1 DEF FollowLink
<1>3. PICK s : s = [op |-> kind, to |-> a]
  OBVIOUS
<1>4. /\ accountReq[r] = NoRequestYet /\ link[l].st = "mailed"
      /\ link' = [link EXCEPT ![l].st = "used"] /\ followed' = [followed EXCEPT ![l] = @ + 1]
      /\ Serves(r, s) /\ UNCHANGED <<registered, waiting, attempts, guesses, waved>>
  BY <1>2, <1>3 DEF FollowLink, limiterVars
<1>5. followed[l] = 0 /\ Has(a)
  BY <1>2, <1>4 DEF AccountsIInv, LinksSound
<1>6. /\ link' \in [Links -> [st : {"unused", "mailed", "used"}, for : {"verify", "reset", "invite"}, to : Spellings]]
      /\ followed' \in [Links -> Nat]
  BY <1>1, <1>4
<1>7. /\ followed'[l] = 1 /\ link'[l].st = "used" /\ link'[l].to = a /\ link'[l].for = kind
      /\ \A k \in Links : k # l => link'[k] = link[k] /\ followed'[k] = followed[k]
  BY <1>1, <1>2, <1>4, <1>5
<1>8. \A e, for : l \notin FollowedBy(e, for)
  BY <1>5 DEF FollowedBy
<1>9. \A e, for : FollowedBy(e, for)' = IF e = a /\ for = kind THEN FollowedBy(e, for) \cup {l}
                                        ELSE FollowedBy(e, for)
  BY <1>5, <1>7 DEF FollowedBy
<1>18. \A e : Shown(e) \subseteq Shown(e)'
  BY <1>9 DEF Shown
<1>10. (\A e \in Spellings : Has(e)' <=> Has(e)) /\ LinksKept
  BY <1>4, <1>7 DEF Has, LinksKept
<1>11. s \in AccountReqState /\ s.op = kind /\ s.to = a
  BY <1>3 DEF AccountReqState, Following
<1>12. AccountReqSound(s)'
  <2>1. kind = "verify" => FollowedBy(a, "verify")' # {}
    BY <1>9
  <2>2. Has(a)'
    BY <1>5, <1>10
  <2> QED
    BY <1>11, <2>1, <2>2 DEF AccountReqSound
<1>13. accountReq' \in [AccountRequests -> AccountReqState] /\ AccountReqsSound'
  <2>1. \A e \in Spellings : FollowedBy(e, "verify") \subseteq FollowedBy(e, "verify")'
    BY <1>9
  <2> QED
    BY <1>4, <1>10, <1>11, <1>12, <2>1, AccountReqMoves DEF AccountsIInv
<1>14. AccountTypes'
  BY <1>4, <1>6, <1>13 DEF AccountsIInv, AccountTypes, AccountsTypeOK
<1>15. RowsCanonical' /\ SlugsApart' /\ GuessesCounted'
  BY <1>4 DEF AccountsIInv, RowsCanonical, SlugsApart, GuessesCounted, Has
<1>16. LinksSound'
  BY <1>1, <1>2, <1>4, <1>5, <1>7, <1>10 DEF AccountsIInv, LinksSound
<1>17. ByLinkOnly'
  <2> SUFFICES ASSUME NEW e \in Spellings
               PROVE  /\ registered[e].verified => Shown(e)' # {}
                      /\ registered[e].resets + Cardinality(Resetting(e)') <= Cardinality(FollowedBy(e, "reset")')
    BY <1>4 DEF ByLinkOnly
  <2>1. registered[e].resets \in Nat /\ Cardinality(Resetting(e)) \in Nat /\ Cardinality(FollowedBy(e, "reset")) \in Nat
    BY AccountFields, ResettingFinite, FollowedByFinite DEF AccountsIInv, AccountTypes
  <2>2. /\ registered[e].verified => Shown(e) # {}
        /\ registered[e].resets + Cardinality(Resetting(e)) <= Cardinality(FollowedBy(e, "reset"))
    BY DEF AccountsIInv, ByLinkOnly
  <2>3. registered[e].verified => Shown(e)' # {}
    BY <1>18, <2>2
  <2>4. CASE e = a /\ kind = "reset"
    <3>1. \A q \in AccountRequests : accountReq'[q] = IF q = r THEN s ELSE accountReq[q]
      BY <1>1, <1>4 DEF Serves
    <3>2. r \notin Resetting(e)
      BY <1>4 DEF Resetting, NoRequestYet
    <3>3. Resetting(e)' = Resetting(e) \cup {r}
      BY <1>11, <2>4, <3>1 DEF Resetting
    <3>4. Cardinality(Resetting(e) \cup {r}) = Cardinality(Resetting(e)) + 1
      BY <3>2, ResettingFinite, FS_AddElement
    <3>5. Cardinality(FollowedBy(e, "reset") \cup {l}) = Cardinality(FollowedBy(e, "reset")) + 1
      BY <1>8, FollowedByFinite, FS_AddElement
    <3>6. FollowedBy(e, "reset")' = FollowedBy(e, "reset") \cup {l}
      BY <1>9, <2>4
    <3>7. Cardinality(Resetting(e)') = Cardinality(Resetting(e)) + 1
      BY <3>3, <3>4
    <3>8. Cardinality(FollowedBy(e, "reset")') = Cardinality(FollowedBy(e, "reset")) + 1
      BY <3>5, <3>6
    <3>9. registered[e].resets + Cardinality(Resetting(e)') <= Cardinality(FollowedBy(e, "reset")')
      BY <2>1, <2>2, <3>7, <3>8
    <3> QED
      BY <2>3, <3>9
  <2>5. CASE e # a \/ kind # "reset"
    <3>1. \A q \in AccountRequests : accountReq'[q] = IF q = r THEN s ELSE accountReq[q]
      BY <1>1, <1>4 DEF Serves
    <3>2. r \notin Resetting(e)
      BY <1>4 DEF Resetting, NoRequestYet
    <3>3. Resetting(e)' = Resetting(e)
      BY <1>11, <2>5, <3>1, <3>2 DEF Resetting
    <3>4. FollowedBy(e, "reset")' = FollowedBy(e, "reset")
      BY <1>9, <2>5
    <3> QED
      BY <2>2, <2>3, <3>3, <3>4
  <2> QED
    BY <2>4, <2>5
<1> QED
  BY <1>13, <1>14, <1>15, <1>16, <1>17 DEF AccountsIInv

\* What the link allows is done, by the one request that followed it.
LEMMA CommitLinkPreserves ==
    ASSUME AccountsIInv, NEW r \in AccountRequests, CommitLink(r)
    PROVE  AccountsIInv'
<1>1. /\ accountReq[r] \in AccountReqState /\ AccountReqSound(accountReq[r])
      /\ accountReq[r].op \in {"verify", "reset"}
  BY DEF AccountsIInv, AccountTypes, AccountReqsSound, CommitLink
<1>2. PICK a \in Spellings, kind \in {"verify", "reset"} :
          accountReq[r].to = a /\ accountReq[r].op = kind
  BY <1>1, AccountReqKinds DEF Following
<1>3. Has(a) /\ (kind = "verify" => FollowedBy(a, "verify") # {})
  BY <1>1, <1>2 DEF AccountReqSound
<1>4. registered \in [Spellings -> [slug : Slugs \cup {"none"}, verified : BOOLEAN, resets : Nat]]
  BY DEF AccountsIInv, AccountTypes, AccountsTypeOK
<1>5. /\ registered' = IF kind = "verify" THEN [registered EXCEPT ![a].verified = TRUE]
                       ELSE [registered EXCEPT ![a].resets = @ + 1]
      /\ Serves(r, NoRequestYet) /\ UNCHANGED <<waiting, link, followed, attempts, guesses, waved>>
  BY <1>2 DEF CommitLink, limiterVars
<1>6. registered' \in [Spellings -> [slug : Slugs \cup {"none"}, verified : BOOLEAN, resets : Nat]]
  <2>1. CASE kind = "verify"
    BY <1>4, <1>5, <2>1
  <2>2. CASE kind = "reset"
    BY <1>4, <1>5, <2>2
  <2> QED
    BY <2>1, <2>2
<1>7. \A e \in Spellings :
          /\ registered'[e].slug = registered[e].slug
          /\ registered'[e].verified = (registered[e].verified \/ (e = a /\ kind = "verify"))
          /\ registered'[e].resets = IF e = a /\ kind = "reset" THEN registered[e].resets + 1
                                     ELSE registered[e].resets
          /\ e # a => registered'[e] = registered[e]
  <2>1. CASE kind = "verify"
    BY <1>4, <1>5, <2>1
  <2>2. CASE kind = "reset"
    BY <1>4, <1>5, <2>2
  <2> QED
    BY <2>1, <2>2
<1>8. registered[a].resets \in Nat
  BY <1>4
<1>9. (\A e \in Spellings : Has(e)' <=> Has(e)) /\ LinksKept
  <2>1. registered'[a].verified = TRUE \/ registered'[a].resets # 0
    <3>1. PICK n \in Nat : n = registered[a].resets
      BY <1>8
    <3>2. kind = "reset" => registered'[a].resets = n + 1
      BY <1>7, <3>1
    <3>3. kind = "verify" => registered'[a].verified = TRUE
      BY <1>7
    <3>4. n + 1 # 0
      OBVIOUS
    <3> QED
      BY <3>2, <3>3, <3>4
  <2>2. registered'[a] # NoAccount
    BY <2>1 DEF NoAccount
  <2> QED
    BY <1>3, <1>5, <1>7, <2>2 DEF Has, LinksKept
<1>10. \A e, for : FollowedBy(e, for)' = FollowedBy(e, for)
  BY <1>5, LinksUntouched
<1>18. \A e : Shown(e)' = Shown(e)
  BY <1>10 DEF Shown
<1>11. NoRequestYet \in AccountReqState /\ NoRequestYet.op = "idle" /\ AccountReqSound(NoRequestYet)'
  BY DEF AccountReqState, NoRequestYet, AccountReqSound
<1>12. accountReq' \in [AccountRequests -> AccountReqState] /\ AccountReqsSound'
  BY <1>5, <1>9, <1>10, <1>11, AccountReqMoves DEF AccountsIInv
<1>13. AccountTypes'
  BY <1>5, <1>6, <1>12 DEF AccountsIInv, AccountTypes, AccountsTypeOK
<1>14. RowsCanonical' /\ SlugsApart'
  BY <1>5, <1>7, <1>9 DEF AccountsIInv, RowsCanonical, SlugsApart
<1>15. GuessesCounted'
  BY <1>5 DEF AccountsIInv, GuessesCounted
<1>16. LinksSound'
  BY <1>5, <1>9 DEF AccountsIInv, LinksSound, AccountTypes, AccountsTypeOK
<1>17. ByLinkOnly'
  <2> SUFFICES ASSUME NEW e \in Spellings
               PROVE  /\ registered'[e].verified => Shown(e)' # {}
                      /\ registered'[e].resets + Cardinality(Resetting(e)') <= Cardinality(FollowedBy(e, "reset")')
    BY DEF ByLinkOnly
  <2>1. registered[e].resets \in Nat /\ Cardinality(Resetting(e)) \in Nat /\ Cardinality(FollowedBy(e, "reset")) \in Nat
    BY AccountFields, ResettingFinite, FollowedByFinite DEF AccountsIInv, AccountTypes
  <2>2. /\ registered[e].verified => Shown(e) # {}
        /\ registered[e].resets + Cardinality(Resetting(e)) <= Cardinality(FollowedBy(e, "reset"))
    BY DEF AccountsIInv, ByLinkOnly
  <2>3. registered'[e].verified => Shown(e)' # {}
    BY <1>3, <1>7, <1>18, <2>2 DEF Shown
  <2>4. /\ Cardinality(Resetting(e)') \in Nat /\ Cardinality(Resetting(e)') <= Cardinality(Resetting(e))
        /\ r \in Resetting(e) => Cardinality(Resetting(e)') = Cardinality(Resetting(e)) - 1
    BY <1>5, <1>11, ResettingLeaves DEF AccountsIInv
  <2>5. e = a /\ kind = "reset" => r \in Resetting(e)
    BY <1>2 DEF Resetting
  <2>6. FollowedBy(e, "reset")' = FollowedBy(e, "reset")
    BY <1>10
  <2> HIDE DEF Resetting, FollowedBy
  <2>7. CASE e = a /\ kind = "reset"
    BY <1>7, <2>1, <2>2, <2>3, <2>4, <2>5, <2>6, <2>7
  <2>8. CASE ~(e = a /\ kind = "reset")
    BY <1>7, <2>1, <2>2, <2>3, <2>4, <2>6, <2>8
  <2> QED
    BY <2>7, <2>8
<1> QED
  BY <1>12, <1>13, <1>14, <1>15, <1>16, <1>17 DEF AccountsIInv

\* An invitation opens an account, if nobody has opened it in the meantime.
LEMMA OpenInvitedPreserves ==
    ASSUME AccountsIInv, NEW r \in AccountRequests, OpenInvited(r)
    PROVE  AccountsIInv'
<1>1. accountReq[r] \in AccountReqState /\ AccountReqSound(accountReq[r]) /\ accountReq[r].op = "accept"
  BY DEF AccountsIInv, AccountTypes, AccountReqsSound, OpenInvited
<1>2. PICK a \in Spellings, l \in Links, fresh \in BOOLEAN :
          accountReq[r].to = a /\ accountReq[r].link = l /\ accountReq[r].fresh = fresh
  BY <1>1, AccountReqKinds DEF BeingInvited
<1>3. /\ Canonical[a] = a
      /\ link[l].st # "unused" /\ link[l].for = "invite" /\ link[l].to = a
  BY <1>1, <1>2 DEF AccountReqSound
<1>4. /\ link \in [Links -> [st : {"unused", "mailed", "used"}, for : {"verify", "reset", "invite"}, to : Spellings]]
      /\ followed \in [Links -> Nat]
      /\ registered \in [Spellings -> [slug : Slugs \cup {"none"}, verified : BOOLEAN, resets : Nat]]
  BY DEF AccountsIInv, AccountTypes, AccountsTypeOK
<1>5. NoRequestYet \in AccountReqState /\ NoRequestYet.op = "idle"
      /\ AccountReqSound(NoRequestYet) /\ AccountReqSound(NoRequestYet)'
  BY DEF AccountReqState, NoRequestYet, AccountReqSound
<1>6. Serves(r, NoRequestYet) /\ UNCHANGED <<waiting, attempts, guesses, waved>>
  BY DEF OpenInvited, limiterVars
<1>7. CASE UNCHANGED <<registered, link, followed>>
  BY <1>5, <1>6, <1>7, AccountReads
<1>8. CASE /\ ~Has(a) /\ registered' = [registered EXCEPT ![a] = [NoAccount EXCEPT !.verified = TRUE]]
           /\ link' = [link EXCEPT ![l].st = "used"] /\ followed' = [followed EXCEPT ![l] = @ + 1]
  <2>1. PICK new : new = [NoAccount EXCEPT !.verified = TRUE]
    OBVIOUS
  <2>2. /\ new \in [slug : Slugs \cup {"none"}, verified : BOOLEAN, resets : Nat]
        /\ new.slug = "none" /\ new # NoAccount /\ new.resets = 0
    BY <2>1 DEF NoAccount
  <2>3. \A e \in Spellings : registered'[e] = IF e = a THEN new ELSE registered[e]
    BY <1>4, <1>8, <2>1
  <2>4. \A e \in Spellings : Has(e)' <=> e = a \/ Has(e)
    BY <2>2, <2>3 DEF Has
  <2>5. followed[l] = 0
    BY <1>3, <1>8 DEF AccountsIInv, LinksSound
  <2>6. /\ link' \in [Links -> [st : {"unused", "mailed", "used"}, for : {"verify", "reset", "invite"}, to : Spellings]]
        /\ followed' \in [Links -> Nat]
        /\ registered' \in [Spellings -> [slug : Slugs \cup {"none"}, verified : BOOLEAN, resets : Nat]]
    <3>1. /\ link' = [link EXCEPT ![l].st = "used"] /\ followed' = [followed EXCEPT ![l] = @ + 1]
          /\ registered' = [registered EXCEPT ![a] = new]
      BY <1>8, <2>1
    <3>2. followed' \in [Links -> Nat]
      BY <1>4, <3>1
    <3>3. link' \in [Links -> [st : {"unused", "mailed", "used"}, for : {"verify", "reset", "invite"}, to : Spellings]]
      BY <1>4, <3>1
    <3>4. registered' \in [Spellings -> [slug : Slugs \cup {"none"}, verified : BOOLEAN, resets : Nat]]
      BY <1>4, <2>2, <3>1
    <3> QED
      BY <3>2, <3>3, <3>4
  <2>7. /\ followed'[l] = 1 /\ link'[l].st = "used" /\ link'[l].to = a /\ link'[l].for = "invite"
        /\ \A k \in Links : k # l => link'[k] = link[k] /\ followed'[k] = followed[k]
    BY <1>3, <1>4, <1>8, <2>5
  <2>8. \A e, for : FollowedBy(e, for)' = IF e = a /\ for = "invite" THEN FollowedBy(e, for) \cup {l}
                                          ELSE FollowedBy(e, for)
    BY <2>5, <2>7 DEF FollowedBy
  <2>9. (\A e : Shown(e) \subseteq Shown(e)') /\ Shown(a)' # {}
    BY <2>8 DEF Shown
  <2>10. LinksKept
    BY <1>3, <2>7 DEF LinksKept
  <2>11. accountReq' \in [AccountRequests -> AccountReqState] /\ AccountReqsSound'
    BY <1>5, <1>6, <2>4, <2>8, <2>10, AccountReqMoves DEF AccountsIInv
  <2>12. AccountTypes'
    BY <1>6, <2>6, <2>11 DEF AccountsIInv, AccountTypes, AccountsTypeOK
  <2>13. RowsCanonical'
    BY <1>3, <1>6, <2>4 DEF AccountsIInv, RowsCanonical
  <2>14. SlugsApart'
    BY <2>2, <2>3, <2>4 DEF AccountsIInv, SlugsApart
  <2>15. GuessesCounted'
    BY <1>6 DEF AccountsIInv, GuessesCounted
  <2>16. LinksSound'
    BY <1>4, <2>4, <2>7 DEF AccountsIInv, LinksSound
  <2>17. ByLinkOnly'
    <3> SUFFICES ASSUME NEW e \in Spellings
                 PROVE  /\ registered'[e].verified => Shown(e)' # {}
                        /\ registered'[e].resets + Cardinality(Resetting(e)') <= Cardinality(FollowedBy(e, "reset")')
      BY DEF ByLinkOnly
    <3>1. Cardinality(Resetting(e)') \in Nat /\ Cardinality(Resetting(e)') <= Cardinality(Resetting(e))
      BY <1>5, <1>6, ResettingLeaves DEF AccountsIInv
    <3>2. /\ registered[e].verified => Shown(e) # {}
          /\ registered[e].resets + Cardinality(Resetting(e)) <= Cardinality(FollowedBy(e, "reset"))
      BY DEF AccountsIInv, ByLinkOnly
    <3>3. FollowedBy(e, "reset")' = FollowedBy(e, "reset")
      BY <2>8
    <3>4. registered[e].resets \in Nat /\ Cardinality(Resetting(e)) \in Nat /\ Cardinality(FollowedBy(e, "reset")) \in Nat
      BY AccountFields, ResettingFinite, FollowedByFinite DEF AccountsIInv, AccountTypes
    <3>5. registered'[e].verified => Shown(e)' # {}
      BY <2>3, <2>9, <3>2
    <3>6. registered'[e].resets = registered[e].resets \/ registered'[e].resets = 0
      BY <2>2, <2>3
    <3> QED
      BY <3>1, <3>2, <3>3, <3>4, <3>5, <3>6
  <2> QED
    BY <2>11, <2>12, <2>13, <2>14, <2>15, <2>16, <2>17 DEF AccountsIInv
<1>9. CASE link' = [link EXCEPT ![l].st = "used"] /\ UNCHANGED <<registered, followed>>
  <2>1. link' \in [Links -> [st : {"unused", "mailed", "used"}, for : {"verify", "reset", "invite"}, to : Spellings]]
    BY <1>4, <1>9
  <2>2. \A k \in Links : /\ link'[k].for = link[k].for /\ link'[k].to = link[k].to
                         /\ link'[k].st = link[k].st \/ (link'[k].st = "used" /\ link[k].st # "unused")
                         /\ link[k].st = "used" => link'[k].st = "used"
    BY <1>3, <1>4, <1>9
  <2>3. \A e, for : FollowedBy(e, for)' = FollowedBy(e, for)
    BY <1>9, <2>2 DEF FollowedBy
  <2>4. (\A e \in Spellings : Has(e)' <=> Has(e)) /\ LinksKept
    BY <1>9, <2>2 DEF Has, LinksKept
  <2>5. accountReq' \in [AccountRequests -> AccountReqState] /\ AccountReqsSound'
    BY <1>5, <1>6, <2>3, <2>4, AccountReqMoves DEF AccountsIInv
  <2>6. AccountTypes'
    BY <1>6, <1>9, <2>1, <2>5 DEF AccountsIInv, AccountTypes, AccountsTypeOK
  <2>7. RowsCanonical' /\ SlugsApart' /\ GuessesCounted'
    BY <1>6, <1>9, <2>4 DEF AccountsIInv, RowsCanonical, SlugsApart, GuessesCounted
  <2>8. LinksSound'
    BY <1>9, <2>2, <2>4, <1>4 DEF AccountsIInv, LinksSound
  <2>9. ByLinkOnly'
    <3> SUFFICES ASSUME NEW e \in Spellings
                 PROVE  /\ registered[e].verified => Shown(e)' # {}
                        /\ registered[e].resets + Cardinality(Resetting(e)') <= Cardinality(FollowedBy(e, "reset")')
      BY <1>9 DEF ByLinkOnly
    <3>1. Cardinality(Resetting(e)') \in Nat /\ Cardinality(Resetting(e)') <= Cardinality(Resetting(e))
      BY <1>5, <1>6, ResettingLeaves DEF AccountsIInv
    <3>2. registered[e].resets \in Nat /\ Cardinality(Resetting(e)) \in Nat /\ Cardinality(FollowedBy(e, "reset")) \in Nat
      BY AccountFields, ResettingFinite, FollowedByFinite DEF AccountsIInv, AccountTypes
    <3>3. /\ registered[e].verified => Shown(e) # {}
          /\ registered[e].resets + Cardinality(Resetting(e)) <= Cardinality(FollowedBy(e, "reset"))
      BY DEF AccountsIInv, ByLinkOnly
    <3>4. Shown(e)' = Shown(e) /\ FollowedBy(e, "reset")' = FollowedBy(e, "reset")
      BY <2>3 DEF Shown
    <3> QED
      BY <3>1, <3>2, <3>3, <3>4
  <2> QED
    BY <2>5, <2>6, <2>7, <2>8, <2>9 DEF AccountsIInv
<1> QED
  BY <1>2, <1>7, <1>8, <1>9 DEF OpenInvited

LEMMA AccountsBegin == AccountsInit => AccountsIInv
<1> SUFFICES ASSUME AccountsInit PROVE AccountsIInv
  OBVIOUS
<1>1. AccountTypes
  <2>1. NoAccount \in [slug : Slugs \cup {"none"}, verified : BOOLEAN, resets : Nat]
    BY DEF NoAccount
  <2>2. NoLink \in [st : {"unused", "mailed", "used"}, for : {"verify", "reset", "invite"}, to : Spellings]
    BY AccountsAssumption DEF NoLink
  <2>3. NoRequestYet \in AccountReqState
    BY DEF AccountReqState
  <2> QED
    BY <2>1, <2>2, <2>3, AccountsAssumption DEF AccountsInit, AccountTypes, AccountsTypeOK
<1>2. RowsCanonical /\ SlugsApart
  BY DEF AccountsInit, RowsCanonical, SlugsApart, Has
<1>3. GuessesCounted
  BY AccountsAssumption DEF AccountsInit, GuessesCounted
<1>4. LinksSound
  BY DEF AccountsInit, LinksSound, NoLink
<1>5. AccountReqsSound
  BY DEF AccountsInit, AccountReqsSound, AccountReqSound, NoRequestYet
<1>6. ByLinkOnly
  <2> SUFFICES ASSUME NEW e \in Spellings
               PROVE  /\ registered[e].verified => Shown(e) # {}
                      /\ registered[e].resets + Cardinality(Resetting(e)) <= Cardinality(FollowedBy(e, "reset"))
    BY DEF ByLinkOnly
  <2>1. registered[e].verified = FALSE /\ registered[e].resets = 0
    BY DEF AccountsInit, NoAccount
  <2>2. Resetting(e) = {}
    BY DEF AccountsInit, Resetting, NoRequestYet
  <2>3. Cardinality(Resetting(e)) = 0
    BY <2>2, FS_EmptySet
  <2> QED
    BY <2>1, <2>3, FollowedByFinite
<1> QED
  BY <1>1, <1>2, <1>3, <1>4, <1>5, <1>6 DEF AccountsIInv

LEMMA AccountsKeep ==
    ASSUME AccountsIInv, [AccountsNext]_accountsVars
    PROVE  AccountsIInv'
<1>1. CASE UNCHANGED accountsVars
  <2>1. UNCHANGED <<registered, waiting, link, followed, attempts, guesses, waved, accountReq>>
    BY <1>1 DEF accountsVars, limiterVars
  <2>2. SlugsApart' /\ LinksSound' /\ ByLinkOnly' /\ AccountReqsSound'
    BY <2>1, RowsStayUnmoved
  <2>3. AccountTypes'
    BY <2>1 DEF AccountsIInv, AccountTypes, AccountsTypeOK
  <2>4. RowsCanonical' /\ GuessesCounted'
    BY <2>1 DEF AccountsIInv, RowsCanonical, GuessesCounted, Has
  <2> QED
    BY <2>2, <2>3, <2>4 DEF AccountsIInv
<1>2. ASSUME NEW r \in AccountRequests,
             \/ \E e \in Spellings :
                   \/ \E slug \in Slugs : BeginRegister(r, e, slug)
                   \/ \E for \in {"verify", "reset"} : AskForLink(r, e, for)
                   \/ BeginQueue(r, e) \/ Invite(r, e)
                   \/ TryLogin(r, e) \/ TryLoginUnlimited(r, e)
             \/ \E l \in Links : MailLink(r, l) \/ FollowLink(r, l) \/ ReadInvitation(r, l)
             \/ CommitRegister(r) \/ CommitQueue(r) \/ CommitLink(r) \/ OpenInvited(r)
             \/ LoginFails(r) \/ LoginSucceeds(r) \/ AccountRequestFails(r)
      PROVE  AccountsIInv'
  BY <1>2, ReadsPreserve, TryLoginPreserves, MailPreserves, FollowPreserves, RegisterPreserves, QueuePreserves,
     CommitLinkPreserves, OpenInvitedPreserves, LoginSucceedsPreserves
<1>3. ASSUME NEW l \in Links, LinkExpires(l)
      PROVE  AccountsIInv'
  BY <1>3, LinkExpiresPreserves
<1>4. ASSUME NEW e \in Spellings, WindowEnds(e)
      PROVE  AccountsIInv'
  BY <1>4, WindowEndsPreserves
<1> QED
  BY <1>1, <1>2, <1>3, <1>4 DEF AccountsNext

LEMMA AccountsInvariance == AccountsSpec => []AccountsIInv
<1>1. AccountsInit => AccountsIInv
  BY AccountsBegin
<1>2. AccountsIInv /\ [AccountsNext]_accountsVars => AccountsIInv'
  BY AccountsKeep
<1> QED
  BY <1>1, <1>2, PTL DEF AccountsSpec

\* Accounts, links, counters and requests keep their types in every state.
THEOREM AccountsTypeCorrect == AccountsSpec => []AccountsTypeOK
<1>1. AccountsIInv => AccountsTypeOK
  BY DEF AccountsIInv, AccountTypes
<1> QED
  BY <1>1, AccountsInvariance, PTL

\* One person has one account, one place in the queue and one counter, however many
\* requests overlap and however the address is typed; passwords are tried no more often
\* than the limit and the attempts made while Redis failed; an address is verified, an
\* account opened for it or its password changed only by a link, each followed once.
THEOREM PersonHasOneAccount == AccountsSpec => []OnePersonOneAccount
<1>1. AccountsIInv => OnePersonOneAccount
  <2> SUFFICES ASSUME AccountsIInv PROVE OnePersonOneAccount
    OBVIOUS
  <2>1. \A e, f \in Spellings : e # f /\ Has(e) /\ Has(f)
                                => /\ Canonical[e] # Canonical[f]
                                   /\ registered[e].slug = registered[f].slug => registered[e].slug = "none"
    BY DEF AccountsIInv, RowsCanonical, SlugsApart
  <2>2. \A e, f \in waiting : Canonical[e] = Canonical[f] => e = f
    BY DEF AccountsIInv, RowsCanonical
  <2>3. \A e \in Spellings : guesses[e] <= AttemptLimit + waved[e]
    BY DEF AccountsIInv, GuessesCounted
  <2>4. \A l \in Links : followed[l] <= 1
    BY DEF AccountsIInv, LinksSound
  <2>5. ASSUME NEW e \in Spellings
        PROVE  /\ registered[e].verified => Shown(e) # {}
               /\ registered[e].resets <= Cardinality(FollowedBy(e, "reset"))
    <3>1. /\ registered[e].verified => Shown(e) # {}
          /\ registered[e].resets + Cardinality(Resetting(e)) <= Cardinality(FollowedBy(e, "reset"))
      BY DEF AccountsIInv, ByLinkOnly
    <3>2. registered[e].resets \in Nat /\ Cardinality(Resetting(e)) \in Nat /\ Cardinality(FollowedBy(e, "reset")) \in Nat
      BY AccountFields, ResettingFinite, FollowedByFinite DEF AccountsIInv, AccountTypes
    <3> QED
      BY <3>1, <3>2
  <2> QED
    BY <2>1, <2>2, <2>3, <2>4, <2>5 DEF OnePersonOneAccount
<1> QED
  BY <1>1, AccountsInvariance, PTL

-----------------------------------------------------------------------------
(* Sessions.                                                               *)

Issued == {t \in Tokens : born[t] # None}
Opened == {f \in Families : orgOf[f] # None}

\* The shapes of a request in flight.
Refreshing == [op : {"refresh"}, pc : {"claim", "again", "issue", "check"}, token : Tokens, now : Nat, raced : BOOLEAN]
LoggingOn == [op : {"login"}, org : Orgs]
OneFamily == {"logout", "reuse", "denied"}
Indexed == {"reset", "remove", "close"}
EndingShape(x) ==
    /\ {"op", "pc"} \subseteq DOMAIN x
    /\ x.op \in EndSessions /\ x.pc \in {"index", "family", "delete", "end"}
    /\ x.op \in OneFamily => x.pc \in {"family", "delete"}
    /\ x.op \in Indexed => "org" \in DOMAIN x /\ x.org \in Orgs
    /\ x.pc # "index" => "todo" \in DOMAIN x /\ x.todo \in SUBSET Families
    /\ x.op \in Indexed /\ x.pc # "index" =>
          {"seen", "open"} \subseteq DOMAIN x /\ x.seen \in SUBSET Families /\ x.open \in SUBSET Families
    /\ x.pc = "delete" => /\ x.fam \in Families /\ x.fam \in x.todo
                          /\ x.keys \in SUBSET Tokens /\ x.set = x.keys
CallShape(x) == x = NoCall \/ x \in LoggingOn \/ x \in Refreshing \/ EndingShape(x)
CallsShaped == DOMAIN call = Calls /\ \A c \in Calls : CallShape(call[c])

\* Tokens and families are numbered as they come, so none comes twice.
Numbered == \E n, m \in Nat : Issued = 1 .. n /\ Opened = 1 .. m

\* What is kept about a token is about an issued one; a family's set is of its own.
KeysSound ==
    /\ live \subseteq Issued /\ families \subseteq Opened /\ revoked \subseteq Opened
    /\ \A t \in Issued : born[t] \in Opened
    /\ \A t \in Tokens : t \notin Issued => usedAt[t] = Unused /\ firstUse[t] = Unused
    /\ \A f \in Families : \A t \in listed[f] : t \in Issued /\ born[t] = f

\* The mark of a token that can be presented was never deleted.
MarksSound == \A t \in live : usedAt[t] = firstUse[t]

\* A family that is not revoked lists its tokens and is in the index, but for those
\* that were opened while the index was deleted.
ListsSound == \A t \in live : t \in listed[born[t]] \/ born[t] \in revoked
IndexSound == Opened \subseteq families \cup revoked \cup missed

\* What a refresh that was not overtaken by a revocation knows of its token; and a
\* family it goes on with is revoked only if it was.
Exchanges(x) ==
    x \in Refreshing =>
        /\ x.token \in Issued
        /\ born[x.token] \in revoked => x.raced \/ born[x.token] \in missed
        /\ ~x.raced /\ x.pc # "check" => usedAt[x.token] = firstUse[x.token]
        /\ ~x.raced /\ x.pc = "issue" => /\ firstUse[x.token] # Unused
                                         /\ x.now - firstUse[x.token] <= Grace

\* What a call that ends sessions has done of what it read.
Ends(x) ==
    EndingShape(x) =>
        /\ x.pc # "index" => x.todo \subseteq Opened
        /\ x.pc = "delete" => \A t \in x.keys : t \in Issued /\ born[t] = x.fam
        /\ x.op \in {"reset", "close"} /\ x.pc # "index" =>
              /\ x.seen \subseteq x.todo \cup revoked
              /\ x.open \subseteq x.seen \cup revoked \cup missed
              /\ x.open \subseteq Opened
        /\ x.pc = "end" => x.todo = {}
CallsSound == \A c \in Calls : Exchanges(call[c]) /\ Ends(call[c])

SessionsIInv ==
    /\ SessionsTypeOK /\ CallsShaped /\ Numbered /\ KeysSound /\ MarksSound
    /\ ListsSound /\ IndexSound /\ CallsSound /\ RevokedStaysRevoked

LEMMA CallKinds ==
    ASSUME NEW x, CallShape(x)
    PROVE  /\ x.op = "idle" => x = NoCall
           /\ x.op = "login" => x \in LoggingOn
           /\ x.op = "refresh" => x \in Refreshing
           /\ x.op \in EndSessions => EndingShape(x)
BY DEF CallShape, NoCall, LoggingOn, Refreshing, EndingShape, EndSessions

LEMMA Kept ==
    ASSUME CallsShaped, NEW c \in Calls, NEW s, Become(c, s)
    PROVE  DOMAIN call' = Calls /\ call'[c] = s /\ \A d \in Calls : d # c => call'[d] = call[d]
BY DEF CallsShaped, Become

\* A call that moves while Redis and what is remembered of it stay as they are.
LEMMA CallMoves ==
    ASSUME SessionsIInv, NEW c \in Calls, NEW s, Become(c, s), CallShape(s), Exchanges(s), Ends(s),
           UNCHANGED <<redisKeys, tick, ghosts>>,
           endings' \in 0 .. MaxEndings, failures' \in 0 .. MaxFailures, belongs' \in SUBSET Orgs
    PROVE  SessionsIInv'
<1>1. UNCHANGED <<live, born, orgOf, usedAt, listed, families, tick, firstUse, revoked, survivors, missed>>
  BY DEF redisKeys, ghosts
<1>2. DOMAIN call' = Calls /\ call'[c] = s /\ \A d \in Calls : d # c => call'[d] = call[d]
  BY Kept DEF SessionsIInv
<1>3. SessionsTypeOK'
  BY <1>1 DEF SessionsIInv, SessionsTypeOK
<1>4. CallsShaped'
  BY <1>2 DEF SessionsIInv, CallsShaped
<1>5. Issued' = Issued /\ Opened' = Opened
  BY <1>1 DEF Issued, Opened
<1>6. Numbered' /\ KeysSound' /\ MarksSound' /\ ListsSound' /\ IndexSound' /\ RevokedStaysRevoked'
  BY <1>1, <1>5 DEF SessionsIInv, Numbered, KeysSound, MarksSound, ListsSound, IndexSound, RevokedStaysRevoked
<1>7. \A x : Exchanges(x)' <=> Exchanges(x)
  BY <1>1, <1>5 DEF Exchanges
<1>8. \A x : Ends(x)' <=> Ends(x)
  BY <1>1, <1>5 DEF Ends
<1>9. \A d \in Calls : Exchanges(call'[d]) /\ Ends(call'[d])
  BY <1>2 DEF SessionsIInv, CallsSound
<1>10. CallsSound'
  <2>1. ASSUME NEW d \in Calls
        PROVE  Exchanges(call[d])' /\ Ends(call[d])'
    <3>1. PICK x : x = call'[d]
      OBVIOUS
    <3>2. Exchanges(x)' /\ Ends(x)'
      BY <1>7, <1>8, <1>9, <3>1
    <3> QED
      BY <3>1, <3>2 DEF Exchanges, Ends
  <2> QED
    BY <2>1 DEF CallsSound
<1> QED
  BY <1>3, <1>4, <1>6, <1>10 DEF SessionsIInv

\* A state of a call that says nothing of tokens or families.
LEMMA Harmless ==
    /\ CallShape(NoCall) /\ Exchanges(NoCall) /\ Ends(NoCall)
    /\ \A o \in Orgs : CallShape([op |-> "login", org |-> o]) /\ Exchanges([op |-> "login", org |-> o])
                       /\ Ends([op |-> "login", org |-> o])
<1>1. CallShape(NoCall) /\ Exchanges(NoCall) /\ Ends(NoCall)
  BY DEF CallShape, Exchanges, Ends, NoCall, Refreshing, EndingShape, EndSessions
<1>2. ASSUME NEW o \in Orgs
      PROVE  CallShape([op |-> "login", org |-> o]) /\ Exchanges([op |-> "login", org |-> o])
             /\ Ends([op |-> "login", org |-> o])
  BY DEF CallShape, Exchanges, Ends, LoggingOn, Refreshing, EndingShape, EndSessions
<1> QED
  BY <1>1, <1>2

LEMMA CounterTypes ==
    ASSUME SessionsIInv
    PROVE  endings \in 0 .. MaxEndings /\ failures \in 0 .. MaxFailures /\ belongs \in SUBSET Orgs
           /\ tick \in Nat /\ tick * TickLength \in Nat
<1>1. endings \in 0 .. MaxEndings /\ failures \in 0 .. MaxFailures /\ belongs \in SUBSET Orgs /\ tick \in Nat
  BY SessionsAssumption DEF SessionsIInv, SessionsTypeOK
<1>2. tick * TickLength \in Nat
  BY <1>1, SessionsAssumption
<1> QED
  BY <1>1, <1>2

\* Reading the membership, failing at a command.
LEMMA SimpleMoves ==
    ASSUME SessionsIInv, NEW c \in Calls
    PROVE  /\ \A o \in Orgs : ReadMembership(c, o) => SessionsIInv'
           /\ CallFails(c) => SessionsIInv'
<1>1. ASSUME NEW o \in Orgs, ReadMembership(c, o)
      PROVE  SessionsIInv'
  <2>1. /\ Become(c, [op |-> "login", org |-> o]) /\ UNCHANGED <<redisKeys, tick, ghosts>>
        /\ UNCHANGED <<endings, failures, belongs>>
    BY <1>1 DEF ReadMembership, counters
  <2> QED
    BY <2>1, Harmless, CounterTypes, CallMoves
<1>2. ASSUME CallFails(c)
      PROVE  SessionsIInv'
  <2>1. /\ Become(c, NoCall) /\ UNCHANGED <<redisKeys, tick, ghosts>> /\ UNCHANGED endings
        /\ failures < MaxFailures /\ failures' = failures + 1
        /\ belongs' = belongs \/ belongs' = belongs \ {call[c].org}
    BY <1>2 DEF CallFails
  <2>2. endings' \in 0 .. MaxEndings /\ failures' \in 0 .. MaxFailures /\ belongs' \in SUBSET Orgs
    BY <2>1, CounterTypes, SessionsAssumption
  <2> QED
    BY <2>1, <2>2, Harmless, CallMoves
<1> QED
  BY <1>1, <1>2

\* A token in Redis is an issued one of an open family.
LEMMA LiveTokens ==
    ASSUME SessionsIInv, NEW t \in live
    PROVE  /\ t \in Tokens /\ t \in Issued /\ born[t] \in Families /\ born[t] \in Opened
           /\ usedAt[t] = firstUse[t] /\ usedAt[t] \in Int
           /\ born[t] \in revoked => t \in survivors \/ born[t] \in missed
BY DEF SessionsIInv, SessionsTypeOK, KeysSound, MarksSound, RevokedStaysRevoked, Issued, Opened

LEMMA PresentPreserves ==
    ASSUME SessionsIInv, NEW c \in Calls, NEW t \in Tokens, Present(c, t)
    PROVE  SessionsIInv'
<1>1. PICK n, raced : n = tick * TickLength /\ raced = (t \in survivors)
  OBVIOUS
<1>2. PICK s : s = [op |-> "refresh", pc |-> "claim", token |-> t, now |-> n, raced |-> raced]
  OBVIOUS
<1>3. Become(c, s) /\ UNCHANGED <<redisKeys, tick, ghosts>> /\ UNCHANGED <<endings, failures, belongs>> /\ t \in live
  BY <1>1, <1>2 DEF Present, counters
<1>4. s \in Refreshing /\ s.token = t /\ s.pc = "claim" /\ s.raced = (t \in survivors)
  BY <1>1, <1>2, CounterTypes DEF Refreshing
<1>5. CallShape(s) /\ Ends(s)
  BY <1>4 DEF CallShape, Ends, EndingShape, EndSessions, Refreshing
<1>6. Exchanges(s)
  BY <1>3, <1>4, LiveTokens DEF Exchanges
<1> QED
  BY <1>3, <1>5, <1>6, CounterTypes, CallMoves

LEMMA RefreshKnows ==
    ASSUME SessionsIInv, NEW c \in Calls, call[c].op = "refresh"
    PROVE  /\ call[c] \in Refreshing /\ Exchanges(call[c]) /\ call[c].token \in Tokens
           /\ call[c].token \in Issued /\ born[call[c].token] \in Families /\ born[call[c].token] \in Opened
           /\ usedAt[call[c].token] \in Int /\ firstUse[call[c].token] \in Int
<1>1. CallShape(call[c]) /\ Exchanges(call[c])
  BY DEF SessionsIInv, CallsShaped, CallsSound
<1>2. call[c] \in Refreshing
  BY <1>1, CallKinds
<1>3. call[c].token \in Tokens /\ call[c].token \in Issued
  BY <1>1, <1>2 DEF Refreshing, Exchanges
<1> QED
  BY <1>1, <1>2, <1>3 DEF SessionsIInv, SessionsTypeOK, KeysSound, Opened

\* A call that begins to revoke one family.
LEMMA EndingBegins ==
    ASSUME SessionsIInv, NEW op \in OneFamily, NEW f \in Families, f \in Opened, NEW s,
           s = [op |-> op, pc |-> "family", todo |-> {f}]
    PROVE  CallShape(s) /\ Exchanges(s) /\ Ends(s)
<1>1. EndingShape(s) /\ s.op = op /\ s.pc = "family" /\ s.todo = {f}
  BY DEF EndingShape, OneFamily, Indexed, EndSessions
<1>2. CallShape(s)
  BY <1>1 DEF CallShape
<1>3. Exchanges(s)
  BY <1>1 DEF Exchanges, Refreshing, OneFamily
<1>4. Ends(s)
  BY <1>1 DEF Ends, OneFamily
<1> QED
  BY <1>2, <1>3, <1>4

LEMMA JudgePreserves ==
    ASSUME SessionsIInv, NEW c \in Calls, Judge(c)
    PROVE  SessionsIInv'
<1>1. /\ call[c].op = "refresh" /\ call[c].pc = "again"
      /\ UNCHANGED <<redisKeys, tick, ghosts>> /\ UNCHANGED <<endings, failures, belongs>>
  BY DEF Judge, counters
<1>2. PICK x, t, f : x = call[c] /\ t = call[c].token /\ f = born[t]
  OBVIOUS
<1>3. /\ x \in Refreshing /\ Exchanges(x) /\ t \in Tokens /\ x.token = t
      /\ f \in Families /\ f \in Opened /\ usedAt[t] \in Int /\ firstUse[t] \in Int
  BY <1>1, <1>2, RefreshKnows
<1>4. CASE Tolerated(usedAt[t], x.now)
  <2>1. PICK s : s = [x EXCEPT !.pc = "issue"]
    OBVIOUS
  <2>2. Become(c, s)
    BY <1>2, <1>4, <2>1 DEF Judge
  <2>3. /\ s \in Refreshing /\ s.token = t /\ s.raced = x.raced /\ s.now = x.now /\ s.pc = "issue"
        /\ x.now \in Nat
    BY <1>3, <2>1 DEF Refreshing
  <2>4. CallShape(s) /\ Ends(s)
    BY <2>3 DEF CallShape, Ends, EndingShape, EndSessions, Refreshing
  <2>5. Exchanges(s)
    BY <1>1, <1>2, <1>3, <1>4, <2>3 DEF Exchanges, Tolerated
  <2> QED
    BY <1>1, <2>2, <2>4, <2>5, CounterTypes, CallMoves
<1>5. CASE ~Tolerated(usedAt[t], x.now)
  <2>1. PICK s : s = [op |-> "reuse", pc |-> "family", todo |-> {f}]
    OBVIOUS
  <2>2. Become(c, s)
    BY <1>2, <1>5, <2>1 DEF Judge
  <2>3. CallShape(s) /\ Exchanges(s) /\ Ends(s)
    BY <1>3, <2>1, EndingBegins DEF OneFamily
  <2> QED
    BY <1>1, <2>2, <2>3, CounterTypes, CallMoves
<1> QED
  BY <1>4, <1>5

LEMMA CheckPreserves ==
    ASSUME SessionsIInv, NEW c \in Calls, CheckMember(c)
    PROVE  SessionsIInv'
<1>1. /\ call[c].op = "refresh" /\ UNCHANGED <<redisKeys, tick, ghosts>> /\ UNCHANGED <<endings, failures, belongs>>
  BY DEF CheckMember, counters
<1>2. PICK f, s : f = born[call[c].token] /\ s = [op |-> "denied", pc |-> "family", todo |-> {f}]
  OBVIOUS
<1>3. CallShape(s) /\ Exchanges(s) /\ Ends(s)
  BY <1>1, <1>2, RefreshKnows, EndingBegins DEF OneFamily
<1>4. Become(c, NoCall) \/ Become(c, s)
  BY <1>2 DEF CheckMember
<1> QED
  BY <1>1, <1>3, <1>4, Harmless, CounterTypes, CallMoves

LEMMA LogoutPreserves ==
    ASSUME SessionsIInv, NEW c \in Calls, NEW t \in Tokens, Logout(c, t)
    PROVE  SessionsIInv'
<1>1. /\ t \in live /\ UNCHANGED <<redisKeys, tick, ghosts>> /\ UNCHANGED <<failures, belongs>>
      /\ endings < MaxEndings /\ endings' = endings + 1
  BY DEF Logout
<1>2. PICK f, s : f = born[t] /\ s = [op |-> "logout", pc |-> "family", todo |-> {f}]
  OBVIOUS
<1>3. CallShape(s) /\ Exchanges(s) /\ Ends(s)
  BY <1>1, <1>2, LiveTokens, EndingBegins DEF OneFamily
<1>4. Become(c, s)
  BY <1>2 DEF Logout
<1>5. endings' \in 0 .. MaxEndings
  BY <1>1, CounterTypes, SessionsAssumption
<1> QED
  BY <1>1, <1>3, <1>4, <1>5, CounterTypes, CallMoves

LEMMA BeginEndingPreserves ==
    ASSUME SessionsIInv, NEW c \in Calls, NEW op \in {"reset", "remove", "close"}, NEW o \in Orgs, BeginEnding(c, op, o)
    PROVE  SessionsIInv'
<1>1. PICK s : s = [op |-> op, pc |-> "index", org |-> o]
  OBVIOUS
<1>2. /\ Become(c, s) /\ UNCHANGED <<redisKeys, tick, ghosts>> /\ UNCHANGED <<failures, belongs>>
      /\ endings < MaxEndings /\ endings' = endings + 1
  BY <1>1 DEF BeginEnding
<1>3. EndingShape(s) /\ s.op = op /\ s.pc = "index"
  BY <1>1 DEF EndingShape, OneFamily, Indexed, EndSessions
<1>4. CallShape(s) /\ Exchanges(s) /\ Ends(s)
  BY <1>3 DEF CallShape, Exchanges, Ends, Refreshing
<1>5. endings' \in 0 .. MaxEndings
  BY <1>2, CounterTypes, SessionsAssumption
<1> QED
  BY <1>2, <1>4, <1>5, CounterTypes, CallMoves

LEMMA EndingKnows ==
    ASSUME SessionsIInv, NEW c \in Calls, call[c].op \in EndSessions
    PROVE  EndingShape(call[c]) /\ Ends(call[c])
BY CallKinds DEF SessionsIInv, CallsShaped, CallsSound

LEMMA ReadIndexPreserves ==
    ASSUME SessionsIInv, NEW c \in Calls, ReadIndex(c)
    PROVE  SessionsIInv'
<1>1. PICK x : x = call[c]
  OBVIOUS
<1>2. PICK todo, s : /\ todo = {f \in families : Concerned(x.op, f, x.org)}
                     /\ s = [op |-> x.op, org |-> x.org, pc |-> IF todo = {} THEN "end" ELSE "family", todo |-> todo,
                             seen |-> families, open |-> {f \in Families : orgOf[f] # None}]
  OBVIOUS
<1>3. /\ Become(c, s) /\ UNCHANGED <<redisKeys, tick, ghosts>> /\ UNCHANGED <<endings, failures, belongs>>
      /\ x.op \in EndSessions /\ x.pc = "index"
  BY <1>1, <1>2 DEF ReadIndex, counters
<1>4. x.op \in Indexed /\ x.org \in Orgs
  BY <1>1, <1>3, EndingKnows DEF EndingShape, EndSessions, OneFamily, Indexed
<1>5. families \in SUBSET Families /\ families \subseteq Opened /\ Opened \subseteq families \cup revoked \cup missed
  BY DEF SessionsIInv, SessionsTypeOK, KeysSound, IndexSound
<1>6. /\ s.op = x.op /\ s.org = x.org /\ s.pc \in {"end", "family"} /\ s.todo = todo /\ s.seen = families /\ s.open = Opened
      /\ DOMAIN s = {"op", "org", "pc", "todo", "seen", "open"} /\ (s.pc = "end" => todo = {})
      /\ todo \subseteq families /\ (x.op \in {"reset", "close"} => todo = families)
  BY <1>2 DEF Concerned, Opened
<1>7. s.todo \in SUBSET Families /\ s.seen \in SUBSET Families /\ s.open \in SUBSET Families
  BY <1>5, <1>6 DEF Opened
<1>8. EndingShape(s)
  BY <1>4, <1>6, <1>7 DEF EndingShape, Indexed, OneFamily, EndSessions
<1>9. CallShape(s)
  BY <1>8 DEF CallShape
<1>10. Exchanges(s)
  BY <1>4, <1>6 DEF Exchanges, Refreshing, Indexed
<1>11. Ends(s)
  BY <1>5, <1>6 DEF Ends
<1> QED
  BY <1>3, <1>9, <1>10, <1>11, CounterTypes, CallMoves

LEMMA ReadFamilyPreserves ==
    ASSUME SessionsIInv, NEW c \in Calls, NEW f \in Families, ReadFamily(c, f)
    PROVE  SessionsIInv'
<1>1. PICK x : x = call[c]
  OBVIOUS
<1>2. PICK s : s = [k \in (DOMAIN x) \cup {"fam", "keys", "set"} |->
                      CASE k = "pc" -> "delete" [] k = "fam" -> f [] k = "keys" -> Members(f) [] k = "set" -> listed[f]
                        [] OTHER -> x[k]]
  OBVIOUS
<1>3. /\ Become(c, s) /\ UNCHANGED <<redisKeys, tick, ghosts>> /\ UNCHANGED <<endings, failures, belongs>>
      /\ x.op \in EndSessions /\ x.pc = "family" /\ f \in x.todo
  BY <1>1, <1>2 DEF ReadFamily, counters
<1>4. EndingShape(x) /\ Ends(x)
  BY <1>1, <1>3, EndingKnows
<1>5. /\ {"op", "pc", "todo"} \subseteq DOMAIN x /\ x.todo \in SUBSET Families /\ x.todo \subseteq Opened
      /\ x.op \in Indexed => {"org", "seen", "open"} \subseteq DOMAIN x
  BY <1>3, <1>4 DEF EndingShape, Ends
<1>6. /\ DOMAIN s = (DOMAIN x) \cup {"fam", "keys", "set"}
      /\ s.op = x.op /\ s.pc = "delete" /\ s.todo = x.todo /\ s.fam = f /\ s.keys = listed[f] /\ s.set = listed[f]
  BY <1>2, <1>5 DEF Members
<1>7. x.op \in Indexed => s.org = x.org /\ s.seen = x.seen /\ s.open = x.open
  BY <1>2, <1>5
<1>8. listed[f] \in SUBSET Tokens /\ \A t \in listed[f] : t \in Issued /\ born[t] = f
  BY DEF SessionsIInv, SessionsTypeOK, KeysSound
<1>9. EndingShape(s)
  BY <1>3, <1>4, <1>5, <1>6, <1>7, <1>8 DEF EndingShape
<1>10. CallShape(s)
  BY <1>9 DEF CallShape
<1>11. Exchanges(s)
  BY <1>3, <1>6 DEF Exchanges, Refreshing, EndSessions
<1>12. Ends(s)
  <2>1. x.op \in {"reset", "close"} => /\ x.seen \subseteq x.todo \cup revoked
                                       /\ x.open \subseteq x.seen \cup revoked \cup missed
                                       /\ x.open \subseteq Opened
    BY <1>3, <1>4 DEF Ends
  <2> QED
    BY <1>3, <1>5, <1>6, <1>7, <1>8, <2>1 DEF Ends, Indexed
<1> QED
  BY <1>3, <1>10, <1>11, <1>12, CounterTypes, CallMoves

\* Steps that leave every call where it is.
LEMMA TickPreserves ==
    ASSUME SessionsIInv, SessionsTick
    PROVE  SessionsIInv'
<1>1. /\ UNCHANGED <<live, born, orgOf, usedAt, listed, families, belongs, call, endings, failures,
                     firstUse, revoked, survivors, missed>>
      /\ tick < MaxTick /\ tick' = tick + 1
  BY DEF SessionsTick, redisKeys, counters, ghosts
<1>2. SessionsTypeOK'
  BY <1>1, SessionsAssumption DEF SessionsIInv, SessionsTypeOK
<1>3. Issued' = Issued /\ Opened' = Opened
  BY <1>1 DEF Issued, Opened
<1>4. CallsShaped' /\ Numbered' /\ KeysSound' /\ MarksSound' /\ ListsSound' /\ IndexSound' /\ RevokedStaysRevoked'
  BY <1>1, <1>3 DEF SessionsIInv, CallsShaped, Numbered, KeysSound, MarksSound, ListsSound, IndexSound, RevokedStaysRevoked
<1>5. CallsSound'
  BY <1>1, <1>3 DEF SessionsIInv, CallsSound, Exchanges, Ends
<1> QED
  BY <1>2, <1>4, <1>5 DEF SessionsIInv

LEMMA ExpirePreserves ==
    ASSUME SessionsIInv, NEW t \in Tokens, Expire(t)
    PROVE  SessionsIInv'
<1>1. /\ UNCHANGED <<tick, born, orgOf, usedAt, listed, families, belongs, call, endings, failures,
                     firstUse, revoked, survivors, missed>>
      /\ live' = live \ {t}
  BY DEF Expire, counters, ghosts
<1>2. SessionsTypeOK'
  BY <1>1, SessionsAssumption DEF SessionsIInv, SessionsTypeOK
<1>3. Issued' = Issued /\ Opened' = Opened
  BY <1>1 DEF Issued, Opened
<1>4. CallsShaped' /\ Numbered' /\ KeysSound' /\ MarksSound' /\ ListsSound' /\ IndexSound' /\ RevokedStaysRevoked'
  BY <1>1, <1>3 DEF SessionsIInv, CallsShaped, Numbered, KeysSound, MarksSound, ListsSound, IndexSound, RevokedStaysRevoked
<1>5. CallsSound'
  BY <1>1, <1>3 DEF SessionsIInv, CallsSound, Exchanges, Ends
<1> QED
  BY <1>2, <1>4, <1>5 DEF SessionsIInv

\* The mark of the first use is set; a token no revocation has touched gets it once.
LEMMA ClaimPreserves ==
    ASSUME SessionsIInv, NEW c \in Calls, Claim(c)
    PROVE  SessionsIInv'
<1>1. PICK x, t : x = call[c] /\ t = call[c].token
  OBVIOUS
<1>2. /\ x.op = "refresh" /\ x.pc = "claim"
      /\ UNCHANGED <<tick, live, born, orgOf, listed, families, belongs, endings, failures, revoked, survivors, missed>>
  BY <1>1 DEF Claim, counters
<1>3. /\ x \in Refreshing /\ Exchanges(x) /\ t \in Tokens /\ t \in Issued /\ x.token = t
      /\ usedAt[t] \in Int /\ firstUse[t] \in Int
  BY <1>1, <1>2, RefreshKnows
<1>4. CASE usedAt[t] = Unused
  <2>1. PICK s : s = [x EXCEPT !.pc = "issue"]
    OBVIOUS
  <2>2. /\ Become(c, s) /\ usedAt' = [usedAt EXCEPT ![t] = x.now]
        /\ firstUse' = IF firstUse[t] = Unused THEN [firstUse EXCEPT ![t] = x.now] ELSE firstUse
    BY <1>1, <1>4, <2>1 DEF Claim
  <2>3. /\ s \in Refreshing /\ s.token = t /\ s.raced = x.raced /\ s.now = x.now /\ s.pc = "issue" /\ x.now \in Nat
    BY <1>3, <2>1 DEF Refreshing
  <2>4. DOMAIN call' = Calls /\ call'[c] = s /\ \A d \in Calls : d # c => call'[d] = call[d]
    BY <2>2, Kept DEF SessionsIInv
  <2>5. usedAt \in [Tokens -> Int] /\ firstUse \in [Tokens -> Int]
    BY DEF SessionsIInv, SessionsTypeOK
  <2>6. /\ usedAt' \in [Tokens -> Int] /\ firstUse' \in [Tokens -> Int]
        /\ usedAt'[t] = x.now /\ firstUse'[t] = IF firstUse[t] = Unused THEN x.now ELSE firstUse[t]
        /\ \A u \in Tokens : u # t => usedAt'[u] = usedAt[u] /\ firstUse'[u] = firstUse[u]
    BY <1>3, <2>2, <2>3, <2>5
  <2>7. SessionsTypeOK'
    BY <1>2, <2>6 DEF SessionsIInv, SessionsTypeOK
  <2>8. CallsShaped'
    BY <2>3, <2>4 DEF SessionsIInv, CallsShaped, CallShape
  <2>9. Issued' = Issued /\ Opened' = Opened
    BY <1>2 DEF Issued, Opened
  <2>10. Numbered' /\ ListsSound' /\ IndexSound' /\ RevokedStaysRevoked'
    BY <1>2, <2>9 DEF SessionsIInv, Numbered, ListsSound, IndexSound, RevokedStaysRevoked
  <2>11. KeysSound'
    BY <1>2, <1>3, <2>6, <2>9 DEF SessionsIInv, KeysSound
  <2>12. \A u \in Tokens : usedAt[u] = firstUse[u] => usedAt'[u] = firstUse'[u]
    BY <1>4, <2>6
  <2>13. MarksSound'
    BY <1>2, <2>12 DEF SessionsIInv, MarksSound, SessionsTypeOK
  <2>14. x.now # Unused /\ x.now - x.now <= Grace
    BY <2>3, SessionsAssumption DEF Unused
  <2>15. \A u \in Tokens : firstUse[u] # Unused => firstUse'[u] = firstUse[u]
    BY <2>6
  <2>16. ASSUME NEW d \in Calls
         PROVE  Exchanges(call[d])' /\ Ends(call[d])'
    <3>1. Exchanges(call[d]) /\ Ends(call[d])
      BY DEF SessionsIInv, CallsSound
    <3>2. CASE d = c
      <4>1. Exchanges(s)'
        BY <1>2, <1>3, <1>4, <2>3, <2>6, <2>9, <2>14 DEF Exchanges
      <4>2. Ends(s)'
        BY <2>3 DEF Ends, EndingShape, EndSessions, Refreshing
      <4> QED
        BY <2>4, <3>2, <4>1, <4>2 DEF Exchanges, Ends
    <3>3. CASE d # c
      <4>1. PICK y : y = call[d]
        OBVIOUS
      <4>2. Exchanges(y)'
        <5> SUFFICES ASSUME y \in Refreshing
                     PROVE  /\ y.token \in Issued'
                            /\ born'[y.token] \in revoked' => y.raced \/ born'[y.token] \in missed'
                            /\ ~y.raced /\ y.pc # "check" => usedAt'[y.token] = firstUse'[y.token]
                            /\ ~y.raced /\ y.pc = "issue" => /\ firstUse'[y.token] # Unused
                                                             /\ y.now - firstUse'[y.token] <= Grace
          BY DEF Exchanges
        <5>1. y.token \in Tokens
          BY DEF Refreshing
        <5> QED
          BY <1>2, <2>9, <2>12, <2>15, <3>1, <4>1, <5>1 DEF Exchanges
      <4>3. Ends(y)'
        BY <1>2, <2>9, <3>1, <4>1 DEF Ends
      <4> QED
        BY <2>4, <3>3, <4>1, <4>2, <4>3 DEF Exchanges, Ends
    <3> QED
      BY <3>2, <3>3
  <2>17. CallsSound'
    BY <2>16 DEF CallsSound
  <2> QED
    BY <2>7, <2>8, <2>10, <2>11, <2>13, <2>17 DEF SessionsIInv
<1>5. CASE usedAt[t] # Unused
  <2>1. PICK s : s = [x EXCEPT !.pc = "again"]
    OBVIOUS
  <2>2. Become(c, s) /\ UNCHANGED <<redisKeys, tick, ghosts>> /\ UNCHANGED <<endings, failures, belongs>>
    BY <1>1, <1>2, <1>5, <2>1 DEF Claim, redisKeys, ghosts
  <2>3. s \in Refreshing /\ s.token = t /\ s.raced = x.raced /\ s.pc = "again"
    BY <1>3, <2>1 DEF Refreshing
  <2>4. CallShape(s) /\ Ends(s)
    BY <2>3 DEF CallShape, Ends, EndingShape, EndSessions, Refreshing
  <2>5. Exchanges(s)
    BY <1>2, <1>3, <2>3 DEF Exchanges
  <2> QED
    BY <2>2, <2>4, <2>5, CounterTypes, CallMoves
<1> QED
  BY <1>4, <1>5

LEMMA NumbersGrow ==
    ASSUME NEW S, NEW n \in Nat, S = 1 .. n, NEW k, k = 1 + Cardinality(S)
    PROVE  k \notin S /\ k # None /\ S \cup {k} = 1 .. (n + 1)
<1>1. Cardinality(1 .. n) = n
  BY FS_Interval
<1>2. k = n + 1
  BY <1>1
<1> QED
  BY <1>2 DEF None

\* A token is issued into family f of its own or of the call that refreshes.
LEMMA IssuePreserves ==
    ASSUME SessionsIInv, NEW c \in Calls, NEW t \in Tokens, NEW f \in Families, Issue(t, f),
           f \in Opened', orgOf' \in [Families -> Orgs \cup {None}],
           Opened \subseteq Opened', Opened' \subseteq Opened \cup {f}, \E m \in Nat : Opened' = 1 .. m,
           f # None, NEW s, Become(c, s), CallShape(s),
           s \in Refreshing => /\ s.token = t /\ s.pc = "check" /\ (f \in revoked => s.raced \/ f \in missed),
           s.op \notin EndSessions,
           survivors' = survivors \/ survivors' = survivors \cup {t},
           f \in revoked => t \in survivors' \/ f \in missed,
           UNCHANGED <<tick, usedAt, belongs, endings, failures, firstUse, revoked, missed>>
    PROVE  SessionsIInv'
<1>1. /\ t = 1 + Cardinality(Issued) /\ live' = live \cup {t} /\ born' = [born EXCEPT ![t] = f]
      /\ listed' = [listed EXCEPT ![f] = @ \cup {t}] /\ families' = families \cup {f}
  BY DEF Issue, Issued
<1>2. PICK n \in Nat : Issued = 1 .. n
  BY DEF SessionsIInv, Numbered
<1>3. t \notin Issued /\ Issued \cup {t} = 1 .. (n + 1)
  <2>1. t = 1 + Cardinality(Issued) /\ Issued = 1 .. n /\ n \in Nat
    BY <1>1, <1>2
  <2> HIDE DEF Issued
  <2> QED
    BY ONLY <2>1, NumbersGrow
<1>4. born \in [Tokens -> Families \cup {None}] /\ listed \in [Families -> SUBSET Tokens]
  BY DEF SessionsIInv, SessionsTypeOK
<1>5. /\ born'[t] = f /\ \A u \in Tokens : u # t => born'[u] = born[u]
      /\ listed'[f] = listed[f] \cup {t} /\ \A g \in Families : g # f => listed'[g] = listed[g]
  BY <1>1, <1>4
<1>6. Issued' = Issued \cup {t}
  BY <1>5 DEF Issued
<1>7. DOMAIN call' = Calls /\ call'[c] = s /\ \A d \in Calls : d # c => call'[d] = call[d]
  BY Kept DEF SessionsIInv
<1>8. SessionsTypeOK'
  <2>1. born' \in [Tokens -> Families \cup {None}] /\ listed' \in [Families -> SUBSET Tokens]
    BY <1>1, <1>4
  <2>2. live' \in SUBSET Tokens /\ families' \in SUBSET Families /\ survivors' \in SUBSET Tokens
    BY <1>1 DEF SessionsIInv, SessionsTypeOK
  <2> QED
    BY <2>1, <2>2 DEF SessionsIInv, SessionsTypeOK
<1>9. CallsShaped'
  BY <1>7 DEF SessionsIInv, CallsShaped
<1>10. Numbered'
  <2>1. n + 1 \in Nat /\ Issued' = 1 .. (n + 1)
    BY <1>3, <1>6
  <2> QED
    BY <2>1 DEF Numbered
<1>11. KeysSound'
  <2>1. live' \subseteq Issued' /\ families' \subseteq Opened' /\ revoked' \subseteq Opened'
    BY <1>1, <1>6 DEF SessionsIInv, KeysSound
  <2>2. \A u \in Issued' : born'[u] \in Opened'
    BY <1>5, <1>6 DEF SessionsIInv, KeysSound, Issued
  <2>3. \A u \in Tokens : u \notin Issued' => usedAt'[u] = Unused /\ firstUse'[u] = Unused
    BY <1>6 DEF SessionsIInv, KeysSound
  <2>4. ASSUME NEW g \in Families, NEW u \in listed'[g]
        PROVE  u \in Issued' /\ born'[u] = g
    <3>1. CASE u = t
      <4>1. g = f
        <5> SUFFICES ASSUME g # f PROVE FALSE
          OBVIOUS
        <5>1. t \in listed[g]
          BY <1>5, <2>4, <3>1
        <5> QED
          BY <1>3, <5>1 DEF SessionsIInv, KeysSound
      <4> QED
        BY <1>5, <1>6, <3>1, <4>1
    <3>2. CASE u # t
      <4>1. u \in listed[g]
        BY <1>5, <2>4, <3>2
      <4> QED
        BY <1>5, <1>6, <3>2, <4>1 DEF SessionsIInv, KeysSound, Issued
    <3> QED
      BY <3>1, <3>2
  <2> QED
    BY <2>1, <2>2, <2>3, <2>4 DEF KeysSound
<1>12. MarksSound'
  BY <1>1, <1>3 DEF SessionsIInv, MarksSound, KeysSound
<1>13. ListsSound'
  <2>1. ASSUME NEW u \in live, u # t
        PROVE  u \in listed'[born'[u]] \/ born'[u] \in revoked'
    <3>1. u \in Tokens /\ born[u] \in Families /\ (u \in listed[born[u]] \/ born[u] \in revoked)
      BY LiveTokens DEF SessionsIInv, ListsSound
    <3> QED
      BY <1>5, <2>1, <3>1
  <2>2. t \in listed'[born'[t]]
    BY <1>5
  <2> QED
    BY <1>1, <2>1, <2>2 DEF ListsSound
<1>14. IndexSound'
  BY <1>1 DEF SessionsIInv, IndexSound
<1>15. RevokedStaysRevoked'
  <2>1. ASSUME NEW u \in live, u # t, born'[u] \in revoked'
        PROVE  u \in survivors' \/ born'[u] \in missed'
    BY <1>5, <2>1, LiveTokens
  <2>2. born'[t] \in revoked' => t \in survivors' \/ born'[t] \in missed'
    BY <1>5
  <2> QED
    BY <1>1, <2>1, <2>2 DEF RevokedStaysRevoked
<1>16. ASSUME NEW d \in Calls
       PROVE  Exchanges(call[d])' /\ Ends(call[d])'
  <2>1. CASE d = c
    <3>1. Exchanges(s)'
      BY <1>5, <1>6 DEF Exchanges, Refreshing
    <3>2. Ends(s)'
      BY DEF Ends, EndingShape
    <3> QED
      BY <1>7, <2>1, <3>1, <3>2 DEF Exchanges, Ends
  <2>2. CASE d # c
    <3>1. PICK y : y = call[d]
      OBVIOUS
    <3>2. Exchanges(y) /\ Ends(y)
      BY <3>1 DEF SessionsIInv, CallsSound
    <3>3. Exchanges(y)'
      <4>1. y \in Refreshing => y.token \in Issued /\ y.token \in Tokens /\ y.token # t
        BY <1>3, <3>2 DEF Exchanges, Refreshing
      <4> QED
        BY <1>5, <1>6, <3>2, <4>1 DEF Exchanges
    <3>4. Ends(y)'
      <4>1. \A u \in Issued : u \in Tokens /\ u # t
        BY <1>3 DEF Issued
      <4> QED
        BY <1>5, <1>6, <3>2, <4>1 DEF Ends
    <3> QED
      BY <1>7, <2>2, <3>1, <3>3, <3>4 DEF Exchanges, Ends
  <2> QED
    BY <2>1, <2>2
<1>17. CallsSound'
  BY <1>16 DEF CallsSound
<1> QED
  BY <1>8, <1>9, <1>10, <1>11, <1>12, <1>13, <1>14, <1>15, <1>17 DEF SessionsIInv

LEMMA FamiliesNumbered ==
    ASSUME SessionsIInv, NEW f \in Opened
    PROVE  f # None
BY DEF Opened, SessionsIInv, Numbered, None

\* The calls, when family f is deleted with the tokens it had: whoever goes on with a
\* token of f was overtaken.
LEMMA DeletionOvertakes ==
    ASSUME SessionsIInv, NEW c \in Calls, NEW f \in Families, NEW keys \in SUBSET Tokens, NEW s,
           \A t \in keys : born[t] = f,
           call' = [d \in Calls |->
                      IF d = c THEN s
                      ELSE IF call[d].op = "refresh" /\ born[call[d].token] = f THEN [call[d] EXCEPT !.raced = TRUE]
                      ELSE call[d]],
           s \notin Refreshing, CallShape(s), Ends(s)',
           usedAt' = [t \in Tokens |-> IF t \in keys THEN Unused ELSE usedAt[t]],
           revoked' = revoked \cup {f}, Issued' = Issued, Opened' = Opened,
           UNCHANGED <<born, firstUse, missed>>,
           SessionsTypeOK', Numbered', KeysSound', MarksSound', ListsSound', IndexSound', RevokedStaysRevoked'
    PROVE  SessionsIInv'
<1>1. ASSUME NEW d \in Calls
      PROVE  CallShape(call'[d]) /\ Exchanges(call[d])' /\ Ends(call[d])'
  <2>1. CASE d = c
    <3>1. call'[d] = s
      BY <2>1
    <3> QED
      BY <3>1 DEF Exchanges, Ends
  <2>2. CASE d # c /\ call[d].op = "refresh" /\ born[call[d].token] = f
    <3>1. PICK y, z : y = call[d] /\ z = [y EXCEPT !.raced = TRUE]
      OBVIOUS
    <3>2. call'[d] = z
      BY <2>2, <3>1
    <3>3. y \in Refreshing /\ y.token \in Issued
      BY <2>2, <3>1, RefreshKnows
    <3>4. z \in Refreshing /\ z.token = y.token /\ z.raced = TRUE
      BY <3>1, <3>3 DEF Refreshing
    <3>5. Exchanges(z)' /\ CallShape(z)
      BY <3>3, <3>4 DEF Exchanges, CallShape
    <3>6. Ends(z)'
      BY <3>4 DEF Ends, EndingShape, EndSessions, Refreshing
    <3> QED
      BY <3>2, <3>5, <3>6 DEF Exchanges, Ends
  <2>3. CASE d # c /\ ~(call[d].op = "refresh" /\ born[call[d].token] = f)
    <3>1. PICK y : y = call[d]
      OBVIOUS
    <3>2. call'[d] = y
      BY <2>3, <3>1
    <3>3. CallShape(y) /\ Exchanges(y) /\ Ends(y)
      BY <3>1 DEF SessionsIInv, CallsShaped, CallsSound
    <3>4. Exchanges(y)'
      <4> SUFFICES ASSUME y \in Refreshing PROVE Exchanges(y)'
        BY DEF Exchanges
      <4>1. y.op = "refresh" /\ y.token \in Tokens /\ born[y.token] # f
        BY <2>3, <3>1 DEF Refreshing
      <4>2. usedAt'[y.token] = usedAt[y.token]
        BY <4>1
      <4> QED
        BY <3>3, <4>1, <4>2 DEF Exchanges
    <3>5. Ends(y)'
      BY <3>3 DEF Ends
    <3> QED
      BY <3>2, <3>3, <3>4, <3>5 DEF Exchanges, Ends
  <2> QED
    BY <2>1, <2>2, <2>3
<1>2. CallsShaped' /\ CallsSound'
  <2>1. DOMAIN call' = Calls
    OBVIOUS
  <2> QED
    BY <1>1, <2>1 DEF CallsShaped, CallsSound
<1> QED
  BY <1>2 DEF SessionsIInv

LEMMA OpenFamilyPreserves ==
    ASSUME SessionsIInv, NEW c \in Calls, NEW t \in Tokens, NEW f \in Families, OpenFamily(c, t, f)
    PROVE  SessionsIInv'
<1>1. /\ call[c].op = "login" /\ f = 1 + Cardinality(Opened) /\ Issue(t, f) /\ Become(c, NoCall)
      /\ UNCHANGED <<tick, usedAt, belongs, endings, failures, firstUse, revoked, survivors, missed>>
  BY DEF OpenFamily, Opened, counters, ghosts
<1>2. PICK o : o = call[c].org /\ o \in Orgs
  <2>1. call[c] \in LoggingOn
    BY <1>1, CallKinds DEF SessionsIInv, CallsShaped
  <2> QED
    BY <2>1 DEF LoggingOn
<1>3. orgOf' = [orgOf EXCEPT ![f] = o] /\ o # None
  BY <1>2, SessionsAssumption DEF OpenFamily, None
<1>4. PICK m \in Nat : Opened = 1 .. m
  BY DEF SessionsIInv, Numbered
<1>5. f \notin Opened /\ f # None /\ Opened \cup {f} = 1 .. (m + 1)
  <2>1. f = 1 + Cardinality(Opened) /\ Opened = 1 .. m /\ m \in Nat
    BY <1>1, <1>4
  <2> HIDE DEF Opened
  <2> QED
    BY ONLY <2>1, NumbersGrow
<1>6. orgOf \in [Families -> Orgs \cup {None}]
  BY DEF SessionsIInv, SessionsTypeOK
<1>7. orgOf' \in [Families -> Orgs \cup {None}] /\ Opened' = Opened \cup {f}
  BY <1>2, <1>3, <1>6 DEF Opened
<1>8. f \notin revoked
  BY <1>5 DEF SessionsIInv, KeysSound
<1>9. \E k \in Nat : Opened' = 1 .. k
  <2>1. m + 1 \in Nat /\ Opened' = 1 .. (m + 1)
    BY <1>5, <1>7
  <2> QED
    BY <2>1
<1>10. NoCall \notin Refreshing /\ NoCall.op \notin EndSessions
  BY DEF NoCall, Refreshing, EndSessions
<1>11. f \in Opened' /\ Opened \subseteq Opened' /\ Opened' \subseteq Opened \cup {f}
  BY <1>7
<1> QED
  BY <1>1, <1>5, <1>7, <1>8, <1>9, <1>10, <1>11, Harmless, IssuePreserves

LEMMA RotatePreserves ==
    ASSUME SessionsIInv, NEW c \in Calls, NEW t \in Tokens, Rotate(c, t)
    PROVE  SessionsIInv'
<1>1. PICK x, f : x = call[c] /\ f = born[call[c].token]
  OBVIOUS
<1>2. /\ x.op = "refresh" /\ x.pc = "issue" /\ Issue(t, f)
      /\ survivors' = IF x.raced THEN survivors \cup {t} ELSE survivors
      /\ UNCHANGED <<tick, orgOf, usedAt, belongs, endings, failures, firstUse, revoked, missed>>
  BY <1>1 DEF Rotate, counters
<1>3. x \in Refreshing /\ Exchanges(x) /\ f \in Families /\ f \in Opened
  BY <1>1, <1>2, RefreshKnows
<1>4. PICK s : s = [op |-> "refresh", pc |-> "check", token |-> t, now |-> 0, raced |-> x.raced]
  OBVIOUS
<1>5. Become(c, s)
  BY <1>1, <1>4 DEF Rotate
<1>6. s \in Refreshing /\ s.token = t /\ s.pc = "check" /\ s.raced = x.raced /\ s.op = "refresh"
  BY <1>3, <1>4 DEF Refreshing
<1>7. CallShape(s) /\ s.op \notin EndSessions
  BY <1>6 DEF CallShape, EndSessions
<1>8. f \in revoked => x.raced \/ f \in missed
  BY <1>1, <1>3 DEF Exchanges
<1>9. /\ orgOf' \in [Families -> Orgs \cup {None}] /\ f # None
      /\ Opened' = Opened /\ \E m \in Nat : Opened = 1 .. m
  <2>1. f # None
    BY <1>3, FamiliesNumbered
  <2> QED
    BY <1>2, <2>1 DEF SessionsIInv, SessionsTypeOK, Opened, Numbered
<1>10. /\ survivors' = survivors \/ survivors' = survivors \cup {t}
       /\ f \in revoked => t \in survivors' \/ f \in missed
  BY <1>2, <1>8
<1>11. f \in Opened' /\ Opened \subseteq Opened' /\ Opened' \subseteq Opened \cup {f} /\ \E m \in Nat : Opened' = 1 .. m
  BY <1>3, <1>9
<1> QED
  BY <1>2, <1>3, <1>5, <1>6, <1>7, <1>8, <1>9, <1>10, <1>11, IssuePreserves

\* A family is deleted as it was read: what joined it since then survives.
LEMMA DeleteFamilyPreserves ==
    ASSUME SessionsIInv, NEW c \in Calls, DeleteFamily(c)
    PROVE  SessionsIInv'
<1>1. PICK x, f, rest : x = call[c] /\ f = x.fam /\ rest = x.todo \ {f}
  OBVIOUS
<1>2. /\ x.op \in EndSessions /\ x.pc = "delete" /\ live' = live \ x.keys
      /\ usedAt' = [t \in Tokens |-> IF t \in x.keys THEN Unused ELSE usedAt[t]]
      /\ listed' = [listed EXCEPT ![f] = {}]
      /\ revoked' = revoked \cup {f} /\ survivors' = survivors \cup (listed[f] \ x.set)
      /\ UNCHANGED <<tick, born, orgOf, families, belongs, endings, failures, firstUse, missed>>
  BY <1>1 DEF DeleteFamily, counters
<1>3. EndingShape(x) /\ Ends(x)
  BY <1>1, <1>2, EndingKnows
<1>4. /\ f \in Families /\ f \in x.todo /\ x.todo \in SUBSET Families /\ x.todo \subseteq Opened
      /\ x.keys \in SUBSET Tokens /\ x.set = x.keys /\ \A t \in x.keys : t \in Issued /\ born[t] = f
  BY <1>1, <1>2, <1>3 DEF EndingShape, Ends
<1>5. PICK s : s = IF rest # {} \/ x.op \in {"reset", "close", "remove"}
                   THEN [k \in DOMAIN x \ {"fam", "keys", "set"} |->
                           CASE k = "pc" -> IF rest = {} THEN "end" ELSE "family"
                             [] k = "todo" -> rest
                             [] OTHER -> x[k]]
                   ELSE NoCall
  OBVIOUS
<1>6. call' = [d \in Calls |->
                 IF d = c THEN s
                 ELSE IF call[d].op = "refresh" /\ born[call[d].token] = f THEN [call[d] EXCEPT !.raced = TRUE]
                 ELSE call[d]]
  BY <1>1, <1>5 DEF DeleteFamily
<1>7. Issued' = Issued /\ Opened' = Opened
  BY <1>2 DEF Issued, Opened
<1>8. listed \in [Families -> SUBSET Tokens] /\ usedAt \in [Tokens -> Int]
  BY DEF SessionsIInv, SessionsTypeOK
<1>9. listed'[f] = {} /\ (\A g \in Families : g # f => listed'[g] = listed[g])
      /\ listed' \in [Families -> SUBSET Tokens] /\ usedAt' \in [Tokens -> Int]
  BY <1>2, <1>4, <1>8 DEF Unused
<1>10. SessionsTypeOK'
  <2>1. live' \in SUBSET Tokens /\ revoked' \in SUBSET Families /\ survivors' \in SUBSET Tokens
    BY <1>2, <1>4, <1>8 DEF SessionsIInv, SessionsTypeOK
  <2> QED
    BY <1>2, <1>9, <2>1 DEF SessionsIInv, SessionsTypeOK
<1>11. Numbered' /\ IndexSound'
  BY <1>2, <1>7 DEF SessionsIInv, Numbered, IndexSound
<1>12. KeysSound'
  <2>1. \A t \in Tokens : t \notin Issued => usedAt'[t] = Unused /\ firstUse'[t] = Unused
    BY <1>2 DEF SessionsIInv, KeysSound
  <2>2. \A g \in Families : \A t \in listed'[g] : t \in Issued /\ born[t] = g
    BY <1>9 DEF SessionsIInv, KeysSound
  <2> QED
    BY <1>2, <1>4, <1>7, <2>1, <2>2 DEF SessionsIInv, KeysSound
<1>13. MarksSound'
  BY <1>2, LiveTokens DEF MarksSound
<1>14. ListsSound'
  <2> SUFFICES ASSUME NEW t \in live'
               PROVE  t \in listed'[born[t]] \/ born[t] \in revoked'
    BY <1>2 DEF ListsSound
  <2>1. t \in live /\ born[t] \in Families /\ (t \in listed[born[t]] \/ born[t] \in revoked)
    BY <1>2, LiveTokens DEF SessionsIInv, ListsSound
  <2> QED
    BY <1>2, <1>9, <2>1
<1>15. RevokedStaysRevoked'
  <2> SUFFICES ASSUME NEW t \in live', born[t] \in revoked'
               PROVE  t \in survivors' \/ born[t] \in missed
    BY <1>2 DEF RevokedStaysRevoked
  <2>1. t \in live /\ t \notin x.keys /\ (t \in listed[born[t]] \/ born[t] \in revoked)
    BY <1>2 DEF SessionsIInv, ListsSound
  <2>2. CASE born[t] \in revoked
    BY <1>2, <2>1, <2>2, LiveTokens
  <2>3. CASE born[t] \notin revoked
    <3>1. born[t] = f /\ t \in listed[f]
      BY <1>2, <2>1, <2>3
    <3> QED
      BY <1>2, <1>4, <2>1, <3>1
  <2> QED
    BY <2>2, <2>3
<1>16. CASE rest # {} \/ x.op \in {"reset", "close", "remove"}
  <2>1. s = [k \in DOMAIN x \ {"fam", "keys", "set"} |->
               CASE k = "pc" -> IF rest = {} THEN "end" ELSE "family"
                 [] k = "todo" -> rest
                 [] OTHER -> x[k]]
    BY <1>5, <1>16
  <2>2. /\ {"op", "pc", "todo"} \subseteq DOMAIN x
        /\ x.op \in Indexed => {"org", "seen", "open"} \subseteq DOMAIN x
    BY <1>2, <1>3 DEF EndingShape
  <2>3. /\ DOMAIN s = DOMAIN x \ {"fam", "keys", "set"} /\ s.op = x.op /\ s.todo = rest
        /\ s.pc \in {"end", "family"} /\ (s.pc = "end" <=> rest = {})
    BY <2>1, <2>2
  <2>4. x.op \in Indexed => s.org = x.org /\ s.seen = x.seen /\ s.open = x.open
    BY <2>1, <2>2
  <2>5. EndingShape(s)
    <3>1. x.op \in OneFamily => s.pc = "family"
      BY <1>16, <2>3 DEF OneFamily
    <3>2. rest \in SUBSET Families
      BY <1>1, <1>4
    <3> QED
      BY <1>2, <1>3, <2>2, <2>3, <2>4, <3>1, <3>2 DEF EndingShape
  <2>6. /\ s \notin Refreshing /\ CallShape(s)
    BY <1>2, <2>3, <2>5 DEF CallShape, Refreshing, EndSessions
  <2>7. Ends(s)'
    <3>1. x.op \in {"reset", "close"} => /\ x.seen \subseteq x.todo \cup revoked
                                         /\ x.open \subseteq x.seen \cup revoked \cup missed
                                         /\ x.open \subseteq Opened
      BY <1>2, <1>3 DEF Ends
    <3>2. x.todo \subseteq rest \cup {f} /\ rest \subseteq x.todo
      BY <1>1
    <3>3. x.op \in {"reset", "close"} => s.seen = x.seen /\ s.open = x.open
      BY <2>4 DEF Indexed
    <3> QED
      BY <1>2, <1>4, <1>7, <2>3, <3>1, <3>2, <3>3 DEF Ends
  <2> QED
    BY <1>2, <1>4, <1>6, <1>7, <1>10, <1>11, <1>12, <1>13, <1>14, <1>15, <2>6, <2>7, DeletionOvertakes
<1>17. CASE ~(rest # {} \/ x.op \in {"reset", "close", "remove"})
  <2>1. s = NoCall
    BY <1>5, <1>17
  <2>2. s \notin Refreshing /\ CallShape(s)
    BY <2>1, Harmless DEF NoCall, Refreshing
  <2>3. Ends(s)'
    BY <2>1 DEF Ends, EndingShape, NoCall, EndSessions
  <2> QED
    BY <1>2, <1>4, <1>6, <1>7, <1>10, <1>11, <1>12, <1>13, <1>14, <1>15, <2>2, <2>3, DeletionOvertakes
<1> QED
  BY <1>16, <1>17

\* The end of a call that deletes the index: every family it saw is revoked by now.
LEMMA FinishPreserves ==
    ASSUME SessionsIInv, NEW c \in Calls, FinishEnding(c)
    PROVE  SessionsIInv'
<1>1. PICK x : x = call[c]
  OBVIOUS
<1>2. /\ x.op \in EndSessions /\ x.pc = "end" /\ Become(c, NoCall)
      /\ UNCHANGED <<tick, live, born, orgOf, usedAt, listed, endings, failures, firstUse, survivors>>
      /\ belongs' = belongs \/ belongs' = belongs \ {x.org}
  BY <1>1 DEF FinishEnding, counters
<1>3. EndingShape(x) /\ Ends(x)
  BY <1>1, <1>2, EndingKnows
<1>4. belongs' \in SUBSET Orgs
  BY <1>2, CounterTypes
<1>5. CASE ~DropsIndex(x.op)
  <2>1. UNCHANGED <<redisKeys, tick, ghosts>> /\ UNCHANGED <<endings, failures>>
    BY <1>1, <1>2, <1>5 DEF FinishEnding, redisKeys, ghosts
  <2> QED
    BY <1>2, <1>4, <2>1, Harmless, CounterTypes, CallMoves
<1>6. CASE DropsIndex(x.op)
  <2>1. /\ families' = {} /\ missed' = missed \cup (families \ x.seen) /\ revoked' = revoked \cup x.open
    BY <1>1, <1>6 DEF FinishEnding
  <2>2. /\ x.seen \subseteq revoked /\ x.open \subseteq revoked \cup missed /\ x.open \subseteq Opened
        /\ x.open \in SUBSET Families
    BY <1>2, <1>3, <1>6 DEF Ends, EndingShape, DropsIndex, Indexed
  <2>3. DOMAIN call' = Calls /\ call'[c] = NoCall /\ \A d \in Calls : d # c => call'[d] = call[d]
    BY <1>2, Kept DEF SessionsIInv
  <2>4. SessionsTypeOK'
    BY <1>2, <1>4, <2>1, <2>2 DEF SessionsIInv, SessionsTypeOK
  <2>5. CallsShaped'
    BY <2>3, Harmless DEF SessionsIInv, CallsShaped
  <2>6. Issued' = Issued /\ Opened' = Opened
    BY <1>2 DEF Issued, Opened
  <2>7. Numbered' /\ MarksSound'
    BY <1>2, <2>6 DEF SessionsIInv, Numbered, MarksSound
  <2>8. KeysSound'
    BY <1>2, <2>1, <2>2, <2>6 DEF SessionsIInv, KeysSound
  <2>9. ListsSound'
    BY <1>2, <2>1 DEF SessionsIInv, ListsSound
  <2>10. IndexSound'
    BY <2>1, <2>2, <2>6 DEF SessionsIInv, IndexSound
  <2>11. RevokedStaysRevoked'
    BY <1>2, <2>1, <2>2 DEF SessionsIInv, RevokedStaysRevoked
  <2>12. ASSUME NEW d \in Calls
         PROVE  Exchanges(call[d])' /\ Ends(call[d])'
    <3>1. CASE d = c
      <4>1. call'[d] \notin Refreshing /\ ~EndingShape(call'[d])
        BY <2>3, <3>1 DEF NoCall, Refreshing, EndingShape, EndSessions
      <4> QED
        BY <4>1 DEF Exchanges, Ends, EndingShape
    <3>2. CASE d # c
      <4>1. PICK y : y = call[d]
        OBVIOUS
      <4>2. Exchanges(y) /\ Ends(y)
        BY <4>1 DEF SessionsIInv, CallsSound
      <4>3. Exchanges(y)'
        BY <1>2, <2>1, <2>2, <2>6, <4>2 DEF Exchanges
      <4>4. Ends(y)'
        BY <1>2, <2>1, <2>6, <4>2 DEF Ends
      <4> QED
        BY <2>3, <3>2, <4>1, <4>3, <4>4 DEF Exchanges, Ends
    <3> QED
      BY <3>1, <3>2
  <2>13. CallsSound'
    BY <2>12 DEF CallsSound
  <2> QED
    BY <2>4, <2>5, <2>7, <2>8, <2>9, <2>10, <2>11, <2>13 DEF SessionsIInv
<1> QED
  BY <1>5, <1>6

LEMMA SessionsBegin == SessionsInit => SessionsIInv
<1> SUFFICES ASSUME SessionsInit PROVE SessionsIInv
  OBVIOUS
<1>1. SessionsTypeOK
  BY SessionsAssumption DEF SessionsInit, SessionsTypeOK, Unused, None
<1>2. CallsShaped
  BY Harmless DEF SessionsInit, CallsShaped
<1>3. Issued = {} /\ Opened = {}
  BY DEF SessionsInit, Issued, Opened
<1>4. Numbered
  <2>1. Issued = 1 .. 0 /\ Opened = 1 .. 0 /\ 0 \in Nat
    BY <1>3
  <2> QED
    BY <2>1 DEF Numbered
<1>5. KeysSound
  BY <1>3 DEF SessionsInit, KeysSound
<1>6. MarksSound /\ ListsSound /\ IndexSound /\ RevokedStaysRevoked
  BY <1>3 DEF SessionsInit, MarksSound, ListsSound, IndexSound, RevokedStaysRevoked
<1>7. CallsSound
  BY Harmless DEF SessionsInit, CallsSound
<1> QED
  BY <1>1, <1>2, <1>4, <1>5, <1>6, <1>7 DEF SessionsIInv

LEMMA SessionsKeep ==
    ASSUME SessionsIInv, [SessionsNext]_sessionsVars
    PROVE  SessionsIInv'
<1>1. CASE UNCHANGED sessionsVars
  <2>1. UNCHANGED <<tick, live, born, orgOf, usedAt, listed, families, belongs, call, endings,
                    failures, firstUse, revoked, survivors, missed>>
    BY <1>1 DEF sessionsVars
  <2>2. Issued' = Issued /\ Opened' = Opened
    BY <2>1 DEF Issued, Opened
  <2>3. SessionsTypeOK' /\ CallsShaped' /\ Numbered' /\ KeysSound'
    BY <2>1, <2>2 DEF SessionsIInv, SessionsTypeOK, CallsShaped, Numbered, KeysSound
  <2>4. MarksSound' /\ ListsSound' /\ IndexSound' /\ RevokedStaysRevoked'
    BY <2>1, <2>2 DEF SessionsIInv, MarksSound, ListsSound, IndexSound, RevokedStaysRevoked
  <2>5. CallsSound'
    BY <2>1, <2>2 DEF SessionsIInv, CallsSound, Exchanges, Ends
  <2> QED
    BY <2>3, <2>4, <2>5 DEF SessionsIInv
<1>2. CASE SessionsTick \/ \E t \in Tokens : Expire(t)
  BY <1>2, TickPreserves, ExpirePreserves
<1>3. ASSUME NEW c \in Calls,
             \/ Claim(c) \/ Judge(c) \/ CheckMember(c) \/ ReadIndex(c)
             \/ DeleteFamily(c) \/ FinishEnding(c) \/ CallFails(c)
      PROVE  SessionsIInv'
  BY <1>3, ClaimPreserves, JudgePreserves, CheckPreserves, ReadIndexPreserves, DeleteFamilyPreserves, FinishPreserves,
     SimpleMoves
<1>4. ASSUME NEW c \in Calls, NEW o \in Orgs,
             Login(c, o) \/ SwitchOrg(c, o) \/ \E op \in {"reset", "remove", "close"} : BeginEnding(c, op, o)
      PROVE  SessionsIInv'
  <2>1. ReadMembership(c, o) \/ \E op \in {"reset", "remove", "close"} : BeginEnding(c, op, o)
    BY <1>4 DEF Login, SwitchOrg
  <2> QED
    BY <2>1, SimpleMoves, BeginEndingPreserves
<1>5. ASSUME NEW c \in Calls, NEW f \in Families, ReadFamily(c, f) \/ \E t \in Tokens : OpenFamily(c, t, f)
      PROVE  SessionsIInv'
  BY <1>5, ReadFamilyPreserves, OpenFamilyPreserves
<1>6. ASSUME NEW c \in Calls, NEW t \in Tokens, Present(c, t) \/ Rotate(c, t) \/ Logout(c, t)
      PROVE  SessionsIInv'
  BY <1>6, PresentPreserves, RotatePreserves, LogoutPreserves
<1> QED
  BY <1>1, <1>2, <1>3, <1>4, <1>5, <1>6 DEF SessionsNext

LEMMA SessionsInvariance == SessionsSpec => []SessionsIInv
<1>1. SessionsInit => SessionsIInv
  BY SessionsBegin
<1>2. SessionsIInv /\ [SessionsNext]_sessionsVars => SessionsIInv'
  BY SessionsKeep
<1> QED
  BY <1>1, <1>2, PTL DEF SessionsSpec

\* What Redis holds of tokens and families keeps its type in every state.
THEOREM SessionsTypeCorrect == SessionsSpec => []SessionsTypeOK
<1>1. SessionsIInv => SessionsTypeOK
  BY DEF SessionsIInv
<1> QED
  BY <1>1, SessionsInvariance, PTL

\* A refresh token is exchanged again only within the grace period of its first use,
\* whatever was deleted in between, unless a revocation overtook the call.
THEOREM TokenExchangedOnce == SessionsSpec => []ExchangedOnce
<1>1. SessionsIInv => ExchangedOnce
  <2> SUFFICES ASSUME SessionsIInv, NEW c \in Calls,
                      call[c].op = "refresh", call[c].pc = "issue", ~call[c].raced
               PROVE  call[c].now - firstUse[call[c].token] <= Grace
    BY DEF ExchangedOnce
  <2> QED
    BY RefreshKnows DEF Exchanges
<1> QED
  BY <1>1, SessionsInvariance, PTL

\* No token of a revoked family is left in Redis but those of rotations and logins
\* that were in flight when it was revoked.
THEOREM RevocationLasts == SessionsSpec => []RevokedStaysRevoked
<1>1. SessionsIInv => RevokedStaysRevoked
  BY DEF SessionsIInv
<1> QED
  BY <1>1, SessionsInvariance, PTL

-----------------------------------------------------------------------------
(* Membership.                                                             *)

RoleChange == [op : {"role"}, user : Users, to : Roles, row : BOOLEAN, raced : BOOLEAN]
Removal == [op : {"remove"}, user : Users, to : {"none"}, row : BOOLEAN, raced : BOOLEAN]
Inviting == [op : {"invite"}, new : Invites, user : Users, role : Roles,
             stale : SUBSET Invites, raced : BOOLEAN]
Revoking == [op : {"revoke"}, invite : Invites, raced : BOOLEAN]
Accepting == [op : {"accept"}, invite : Invites, opens : BOOLEAN, joins : BOOLEAN, raced : BOOLEAN]
MemberChange == RoleChange \cup Removal
ChangeState == {NoChange} \cup MemberChange \cup Inviting \cup Revoking \cup Accepting

Types == MembershipTypeOK /\ change \in [MemberRequests -> ChangeState]
Pending(j, u) == invite[j].st = "pending" /\ invite[j].to = u

\* What a request that was not overtaken knows: another administrator remains; the
\* invited user is no member and all his pending invitations will be revoked; the
\* accepted invitation is his only one.
Spares(x) ==
    x \in MemberChange /\ ~x.raced /\ x.to # "admin" /\ member[x.user] = "admin"
    => \E v \in Users : v # x.user /\ member[v] = "admin"
Supersedes(x) ==
    x \in Inviting /\ ~x.raced
    => member[x.user] = "none" /\ \A j \in Invites : Pending(j, x.user) => j \in x.stale
UsesUp(x) ==
    x \in Accepting /\ ~x.raced /\ "invites" \notin races
    => \A j \in Invites : Pending(j, invite[x.invite].to) => j = x.invite
RowOf(x) == x \in MemberChange /\ x.row
RowPresent(x) == x \in MemberChange /\ x.row => member[x.user] # "none"
Sound(x) == Spares(x) /\ Supersedes(x) /\ UsesUp(x) /\ RowPresent(x)

RequestsSound == \A r \in MemberRequests : Sound(change[r])
OnePending == "invites" \notin races =>
    \A i, j \in Invites : invite[i].st = "pending" /\ Pending(j, invite[i].to) => i = j

\* The purge has put every member without another membership on its way out.
PurgeSound ==
    orgPurge.pc = "users" /\ "moved" \notin races =>
        /\ \A u \in orgPurge.condemned \cup orgPurge.gone : member[u] # "none" /\ u \notin elsewhere
        /\ \A u \in Users : member[u] # "none" /\ u \notin elsewhere
                            => u \in orgPurge.todo \cup orgPurge.condemned \cup orgPurge.gone
PurgeOneByOne ==
    /\ orgPurge.pc = "idle" => orgPurge = NoOrgPurge
    /\ orgPurge.todo \cup orgPurge.gone \cup orgPurge.condemned \subseteq {u \in Users : member[u] # "none"}
    /\ \A u, v \in orgPurge.condemned : u = v

MembershipIInv ==
    /\ Types /\ RequestsSound
    /\ LastAdminKept /\ NoStrayInvitation /\ OnePending
    /\ PurgeSound /\ PurgeOneByOne

-----------------------------------------------------------------------------
LEMMA Kinds ==
    ASSUME NEW x \in ChangeState
    PROVE  /\ x = NoChange \/ x.op \in {"role", "remove", "invite", "revoke", "accept"}
           /\ x = NoChange => x.op = "idle"
           /\ x.op \in {"role", "remove"} => x \in MemberChange
           /\ x \in MemberChange => x.op \in {"role", "remove"}
           /\ x.op = "invite" => x \in Inviting
           /\ x \in Inviting => x.op = "invite"
           /\ x.op = "revoke" => x \in Revoking
           /\ x.op = "accept" => x \in Accepting
           /\ x \in Accepting => x.op = "accept"
<1>1. CASE x = NoChange
  BY <1>1 DEF NoChange, MemberChange, RoleChange, Removal, Inviting, Accepting
<1>2. CASE x \in MemberChange
  BY <1>2 DEF MemberChange, RoleChange, Removal, Inviting, Accepting, NoChange
<1>3. CASE x \in Inviting
  BY <1>3 DEF MemberChange, RoleChange, Removal, Inviting, Accepting, NoChange
<1>4. CASE x \in Revoking
  BY <1>4 DEF MemberChange, RoleChange, Removal, Inviting, Revoking, Accepting, NoChange
<1>5. CASE x \in Accepting
  BY <1>5 DEF MemberChange, RoleChange, Removal, Inviting, Accepting, NoChange
<1>6. QED
  BY <1>1, <1>2, <1>3, <1>4, <1>5 DEF ChangeState

\* A request that is idle, or overtaken, claims nothing but its row.
LEMMA ClaimsNothing ==
    ASSUME NEW x \in ChangeState, x = NoChange \/ x \in Revoking
    PROVE  x \notin MemberChange /\ x \notin Inviting /\ x \notin Accepting
BY Kinds DEF NoChange, Revoking

\* What a commit does to the requests it overtakes.
LEMMA OvertakenState ==
    ASSUME Types, NEW r \in MemberRequests, NEW gone, change' = Overtaken(r, gone)
    PROVE  /\ change' \in [MemberRequests -> ChangeState]
           /\ change'[r] = NoChange
           /\ \A q \in MemberRequests : change'[q] = NoChange \/ change'[q].raced
           /\ \A q \in MemberRequests : change'[q] \in MemberChange =>
                 /\ change[q] \in MemberChange /\ change'[q].user = change[q].user
                 /\ change'[q].row => change[q].row /\ change[q].user \notin gone
<1>1. /\ change'[r] = NoChange
      /\ DOMAIN change' = MemberRequests
      /\ \A q \in MemberRequests :
            change'[q] = IF q = r THEN NoChange
                         ELSE IF change[q].op \in {"role", "remove"}
                         THEN [change[q] EXCEPT !.raced = TRUE, !.row = @ /\ change[q].user \notin gone]
                         ELSE IF change[q] # NoChange THEN [change[q] EXCEPT !.raced = TRUE] ELSE NoChange
      /\ change' = [q \in MemberRequests |-> change'[q]]
  BY DEF Overtaken
<1> SUFFICES ASSUME NEW q \in MemberRequests
             PROVE  /\ change'[q] \in ChangeState
                    /\ change'[q] = NoChange \/ change'[q].raced
                    /\ change'[q] \in MemberChange =>
                         /\ change[q] \in MemberChange /\ change'[q].user = change[q].user
                         /\ change'[q].row => change[q].row /\ change[q].user \notin gone
  BY <1>1
<1>2. change[q] \in ChangeState
  BY DEF Types
<1>3. CASE q = r \/ change[q] = NoChange
  <2>1. change'[q] = NoChange
    BY <1>1, <1>2, <1>3, Kinds
  <2>2. QED
    BY <2>1, Kinds, ClaimsNothing DEF ChangeState
<1>4. CASE q # r /\ change[q].op \in {"role", "remove"}
  <2>1. change[q] \in MemberChange
    BY <1>2, <1>4, Kinds
  <2>2. change'[q] = [change[q] EXCEPT !.raced = TRUE, !.row = (change[q].row /\ change[q].user \notin gone)]
    BY <1>1, <1>4
  <2>3. (change[q].row /\ change[q].user \notin gone) \in BOOLEAN
    BY <2>1 DEF MemberChange, RoleChange, Removal
  <2>4. CASE change[q] \in RoleChange
    <3>1. change'[q] \in RoleChange /\ change'[q].raced /\ change'[q].user = change[q].user
          /\ change'[q].row = (change[q].row /\ change[q].user \notin gone)
      BY <2>2, <2>3, <2>4 DEF RoleChange
    <3>2. QED
      BY <3>1, <2>1 DEF ChangeState, MemberChange
  <2>5. CASE change[q] \in Removal
    <3>1. change'[q] \in Removal /\ change'[q].raced /\ change'[q].user = change[q].user
          /\ change'[q].row = (change[q].row /\ change[q].user \notin gone)
      BY <2>2, <2>3, <2>5 DEF Removal
    <3>2. QED
      BY <3>1, <2>1 DEF ChangeState, MemberChange
  <2>6. QED
    BY <2>1, <2>4, <2>5 DEF MemberChange
<1>5. CASE q # r /\ change[q] # NoChange /\ change[q].op \notin {"role", "remove"}
  <2>1. change[q] \in Inviting \cup Revoking \cup Accepting
    BY <1>2, <1>5, Kinds
  <2>2. change'[q] = [change[q] EXCEPT !.raced = TRUE]
    BY <1>1, <1>5
  <2>3. /\ change'[q] \in Inviting \cup Revoking \cup Accepting
        /\ change'[q].raced /\ change'[q].op = change[q].op
    <3>1. CASE change[q] \in Inviting
      BY <3>1, <2>2 DEF Inviting
    <3>2. CASE change[q] \in Revoking
      BY <3>2, <2>2 DEF Revoking
    <3>3. CASE change[q] \in Accepting
      BY <3>3, <2>2 DEF Accepting
    <3>4. QED
      BY <2>1, <3>1, <3>2, <3>3
  <2>4. change'[q] \in ChangeState
    BY <2>3 DEF ChangeState
  <2>5. change'[q] \notin MemberChange
    BY <2>3, <2>4, <1>5, Kinds
  <2>6. QED
    BY <2>3, <2>4, <2>5
<1>6. QED
  BY <1>3, <1>4, <1>5

LEMMA IInvInit == MembershipInit => MembershipIInv
<1> SUFFICES ASSUME MembershipInit PROVE MembershipIInv
  OBVIOUS
<1> USE MembershipAssumption
<1>1. Types
  <2>1. account \subseteq Users /\ Founder \in account
    BY DEF MembershipInit
  <2>2. invite \in [Invites -> Invitation]
    BY DEF MembershipInit, Invitation, Roles
  <2>3. NoOrgPurge \in [pc : {"idle", "users"}, todo : SUBSET Users, condemned : SUBSET Users, gone : SUBSET Users]
    BY DEF NoOrgPurge
  <2>4. QED
    BY <2>1, <2>2, <2>3 DEF MembershipInit, Types, MembershipTypeOK, ChangeState, Roles
<1>2. RequestsSound
  BY ClaimsNothing DEF MembershipInit, RequestsSound, Sound, Spares, Supersedes, UsesUp, RowPresent, ChangeState
<1>3. LastAdminKept
  BY DEF MembershipInit, LastAdminKept, Admins
<1>4. NoStrayInvitation /\ OnePending
  BY DEF MembershipInit, NoStrayInvitation, OnePending
<1>5. PurgeSound /\ PurgeOneByOne
  BY DEF MembershipInit, PurgeSound, PurgeOneByOne, NoOrgPurge
<1>6. QED
  BY <1>1, <1>2, <1>3, <1>4, <1>5 DEF MembershipIInv

-----------------------------------------------------------------------------
\* A step that only touches one request.
LEMMA RequestStep ==
    ASSUME MembershipIInv, NEW r \in MemberRequests, NEW x \in ChangeState,
           change' = [change EXCEPT ![r] = x],
           UNCHANGED <<account, member, elsewhere, orgState, invite, orgPurge, races>>,
           Sound(x)
    PROVE  MembershipIInv'
<1> USE DEF MembershipIInv
<1>1. Types'
  BY DEF Types, MembershipTypeOK
<1>2. RequestsSound'
  <2> SUFFICES ASSUME NEW q \in MemberRequests PROVE Sound(change[q])'
    BY DEF RequestsSound
  <2>1. change'[q] = IF q = r THEN x ELSE change[q]
    BY DEF Types
  <2>2. Sound(change'[q])
    BY <2>1 DEF RequestsSound
  <2>3. QED
    BY <2>2 DEF Sound, Spares, Supersedes, UsesUp, RowPresent, Pending
<1>3. LastAdminKept' /\ NoStrayInvitation' /\ OnePending' /\ PurgeSound' /\ PurgeOneByOne'
  BY DEF LastAdminKept, Admins, NoStrayInvitation, OnePending, Pending, PurgeSound, PurgeOneByOne
<1>4. QED
  BY <1>1, <1>2, <1>3

\* More than one administrator: another than u.
LEMMA AnotherAdmin ==
    ASSUME NEW u \in Users, member[u] = "admin", Cardinality(Admins) > 1
    PROVE  \E v \in Users : v # u /\ member[v] = "admin"
<1> SUFFICES ASSUME \A v \in Users : v # u => member[v] # "admin"
             PROVE  FALSE
  OBVIOUS
<1>1. Admins = {u}
  BY DEF Admins
<1>2. Cardinality({u}) = 1
  BY FS_Singleton
<1>3. QED
  BY <1>1, <1>2

LEMMA UpdateRoleStep ==
    ASSUME MembershipIInv, NEW r \in MemberRequests, NEW u \in Users, NEW role \in Roles,
           BeginUpdateRole(r, u, role)
    PROVE  MembershipIInv'
<1> DEFINE x == [op |-> "role", user |-> u, to |-> role, row |-> TRUE, raced |-> FALSE]
<1>1. x \in RoleChange /\ x.user = u /\ x.to = role /\ x.op = "role"
  BY DEF RoleChange
<1>2. x \in ChangeState /\ x \notin Inviting /\ x \notin Accepting
  BY <1>1, Kinds DEF ChangeState, MemberChange
<1>3. change' = [change EXCEPT ![r] = x]
      /\ UNCHANGED <<account, member, elsewhere, orgState, invite, orgPurge, races>>
  BY DEF BeginUpdateRole
<1> HIDE DEF x
<1>4. Spares(x)
  BY <1>1, AnotherAdmin DEF Spares, BeginUpdateRole, SparesLastAdmin
<1>5. RowPresent(x)
  BY <1>1 DEF RowPresent, BeginUpdateRole
<1>6. Sound(x)
  BY <1>2, <1>4, <1>5 DEF Sound, Supersedes, UsesUp
<1>7. QED
  BY <1>2, <1>3, <1>6, RequestStep

LEMMA RemoveStep ==
    ASSUME MembershipIInv, NEW r \in MemberRequests, NEW u \in Users, BeginRemoveMember(r, u)
    PROVE  MembershipIInv'
<1> DEFINE x == [op |-> "remove", user |-> u, to |-> "none", row |-> TRUE, raced |-> FALSE]
<1>1. x \in Removal /\ x.user = u /\ x.op = "remove"
  BY DEF Removal
<1>2. x \in ChangeState /\ x \notin Inviting /\ x \notin Accepting
  BY <1>1, Kinds DEF ChangeState, MemberChange
<1>3. change' = [change EXCEPT ![r] = x]
      /\ UNCHANGED <<account, member, elsewhere, orgState, invite, orgPurge, races>>
  BY DEF BeginRemoveMember
<1> HIDE DEF x
<1>4. Spares(x)
  BY <1>1, AnotherAdmin DEF Spares, BeginRemoveMember, SparesLastAdmin
<1>5. RowPresent(x)
  BY <1>1 DEF RowPresent, BeginRemoveMember
<1>6. Sound(x)
  BY <1>2, <1>4, <1>5 DEF Sound, Supersedes, UsesUp
<1>7. QED
  BY <1>2, <1>3, <1>6, RequestStep

LEMMA InviteStep ==
    ASSUME MembershipIInv, NEW r \in MemberRequests, NEW i \in Invites, NEW u \in Users,
           NEW role \in Roles, BeginInvite(r, i, u, role)
    PROVE  MembershipIInv'
<1>0. PICK stale \in SUBSET Invites : stale = Superseded(u)
  BY DEF Superseded
<1> DEFINE x == [op |-> "invite", new |-> i, user |-> u, role |-> role, stale |-> stale, raced |-> FALSE]
<1>1. x \in Inviting /\ x.user = u /\ x.stale = stale /\ x.op = "invite"
  BY DEF Inviting
<1>2. x \in ChangeState /\ x \notin MemberChange /\ x \notin Accepting
  BY <1>1, Kinds DEF ChangeState
<1>3. change' = [change EXCEPT ![r] = x]
      /\ UNCHANGED <<account, member, elsewhere, orgState, invite, orgPurge, races>>
  BY <1>0 DEF BeginInvite
<1> HIDE DEF x
<1>4. Supersedes(x)
  BY <1>0, <1>1 DEF Supersedes, BeginInvite, Superseded, Pending
<1>5. Sound(x)
  BY <1>2, <1>4 DEF Sound, Spares, UsesUp, RowPresent
<1>6. QED
  BY <1>2, <1>3, <1>5, RequestStep

LEMMA RevokeStep ==
    ASSUME MembershipIInv, NEW r \in MemberRequests, NEW i \in Invites, BeginRevoke(r, i)
    PROVE  MembershipIInv'
<1> DEFINE x == [op |-> "revoke", invite |-> i, raced |-> FALSE]
<1>1. x \in Revoking /\ x \in ChangeState
  BY DEF Revoking, ChangeState
<1>2. change' = [change EXCEPT ![r] = x]
      /\ UNCHANGED <<account, member, elsewhere, orgState, invite, orgPurge, races>>
  BY DEF BeginRevoke
<1> HIDE DEF x
<1>3. Sound(x)
  BY <1>1, ClaimsNothing DEF Sound, Spares, Supersedes, UsesUp, RowPresent
<1>4. QED
  BY <1>1, <1>2, <1>3, RequestStep

LEMMA AcceptStep ==
    ASSUME MembershipIInv, NEW r \in MemberRequests, NEW i \in Invites, BeginAccept(r, i)
    PROVE  MembershipIInv'
<1>0. PICK opens \in BOOLEAN, joins \in BOOLEAN :
        opens = (invite[i].to \notin account) /\ joins = (member[invite[i].to] = "none")
  OBVIOUS
<1> DEFINE x == [op |-> "accept", invite |-> i, opens |-> opens, joins |-> joins, raced |-> FALSE]
<1>1. x \in Accepting /\ x.invite = i /\ x.op = "accept"
  BY DEF Accepting
<1>2. x \in ChangeState /\ x \notin MemberChange /\ x \notin Inviting
  BY <1>1, Kinds DEF ChangeState
<1>3. change' = [change EXCEPT ![r] = x]
      /\ UNCHANGED <<account, member, elsewhere, orgState, invite, orgPurge, races>>
  BY <1>0 DEF BeginAccept
<1> HIDE DEF x
<1>4. UsesUp(x)
  BY <1>1 DEF UsesUp, BeginAccept, Acceptable, MembershipIInv, OnePending, Pending
<1>5. Sound(x)
  BY <1>2, <1>4 DEF Sound, Spares, Supersedes, RowPresent
<1>6. QED
  BY <1>2, <1>3, <1>5, RequestStep

-----------------------------------------------------------------------------
\* A commit overtakes the others: they claim no more than their rows.
LEMMA OvertakingSound ==
    ASSUME MembershipIInv, NEW r \in MemberRequests, NEW gone,
           change' = Overtaken(r, gone),
           \A u \in Users \ gone : member[u] # "none" => member'[u] # "none"
    PROVE  change' \in [MemberRequests -> ChangeState] /\ RequestsSound'
<1>1. Types
  BY DEF MembershipIInv
<1>2. /\ change' \in [MemberRequests -> ChangeState]
      /\ \A q \in MemberRequests : change'[q] = NoChange \/ change'[q].raced
      /\ \A q \in MemberRequests : change'[q] \in MemberChange =>
            /\ change[q] \in MemberChange /\ change'[q].user = change[q].user
            /\ change'[q].row => change[q].row /\ change[q].user \notin gone
  BY <1>1, OvertakenState
<1>3. ASSUME NEW q \in MemberRequests PROVE Sound(change[q])'
  <2>1. change'[q] \in MemberChange \cup Inviting \cup Accepting => change'[q].raced
    BY <1>2, ClaimsNothing
  <2>2. change'[q] \in MemberChange /\ change'[q].row => member'[change'[q].user] # "none"
    <3> SUFFICES ASSUME change'[q] \in MemberChange, change'[q].row
                 PROVE  member'[change'[q].user] # "none"
      OBVIOUS
    <3>1. change[q] \in MemberChange /\ change[q].row /\ change[q].user \in Users \ gone
      BY <1>2 DEF MemberChange, RoleChange, Removal
    <3>2. member[change[q].user] # "none"
      BY <3>1 DEF MembershipIInv, RequestsSound, Sound, RowPresent
    <3>3. QED
      BY <1>2, <3>1, <3>2
  <2>3. QED
    BY <2>1, <2>2 DEF Sound, Spares, Supersedes, UsesUp, RowPresent, MemberChange, RoleChange, Removal, Inviting, Accepting
<1>4. QED
  BY <1>2, <1>3 DEF RequestsSound

\* A request that ends without effect.
LEMMA AbandonStep ==
    ASSUME MembershipIInv, NEW r \in MemberRequests, Abandon(r),
           UNCHANGED <<account, member, elsewhere, orgState, invite, orgPurge, races>>
    PROVE  MembershipIInv'
<1>1. NoChange \in ChangeState /\ Sound(NoChange)
  BY ClaimsNothing DEF ChangeState, Sound, Spares, Supersedes, UsesUp, RowPresent
<1>2. QED
  BY <1>1, RequestStep DEF Abandon

\* One administrator may go when another was seen and nobody changed a membership since.
LEMMA CommitMemberStep ==
    ASSUME MembershipIInv, NEW r \in MemberRequests, CommitMember(r)
    PROVE  MembershipIInv'
<1> USE DEF MembershipIInv
<1> DEFINE c == change[r]
<1>1. c \in MemberChange /\ c.user \in Users /\ c.to \in Roles \cup {"none"}
      /\ (c.op = "role" => c.to \in Roles) /\ c.raced \in BOOLEAN
  BY Kinds DEF CommitMember, Types, MemberChange, RoleChange, Removal
<1>2. CASE ~c.row
  BY <1>2, AbandonStep DEF CommitMember
<1>3. CASE c.row
  <2> PICK gone \in SUBSET Users : gone = IF c.op = "remove" THEN {c.user} ELSE {}
    BY <1>1
  <2>1. /\ member' = [member EXCEPT ![c.user] = c.to]
        /\ change' = Overtaken(r, gone)
        /\ races' = IF c.raced /\ member[c.user] = "admin" THEN races \cup {"admins"} ELSE races
        /\ UNCHANGED <<account, elsewhere, orgState, invite, orgPurge>>
        /\ orgPurge.pc = "idle"
        /\ c.op \in {"role", "remove"}
    BY <1>3 DEF CommitMember
  <2>2. member \in [Users -> Roles \cup {"none"}] /\ member[c.user] # "none"
        /\ Spares(c) /\ RowPresent(c)
    BY <1>1, <1>3 DEF Types, MembershipTypeOK, RequestsSound, Sound, RowPresent
  <2>3. member' \in [Users -> Roles \cup {"none"}]
        /\ \A u \in Users : member'[u] = IF u = c.user THEN c.to ELSE member[u]
    BY <1>1, <2>1, <2>2
  <2>4. \A u \in Users \ gone : member[u] # "none" => member'[u] # "none"
    BY <1>1, <2>1, <2>3 DEF Roles
  <2>5. change' \in [MemberRequests -> ChangeState] /\ RequestsSound'
    BY <2>1, <2>4, OvertakingSound
  <2> USE DEF MembershipTypeOK, Types
  <2>6. \A u \in Users : member'[u] # "none" => member[u] # "none"
    BY <2>2, <2>3
  <2>7. races \subseteq races'
    BY <2>1
  <2>8. Types'
    BY <2>1, <2>3, <2>5, <2>6
  <2>9. LastAdminKept'
    <3> SUFFICES ASSUME orgState # "purged", "admins" \notin races'
                 PROVE  \E v \in Users : member'[v] = "admin"
      BY <2>1 DEF LastAdminKept, Admins
    <3>1. PICK u \in Users : member[u] = "admin"
      BY <2>7 DEF LastAdminKept, Admins
    <3>2. CASE u # c.user
      BY <3>1, <3>2, <2>3
    <3>3. CASE u = c.user /\ c.to = "admin"
      BY <3>3, <2>3
    <3>4. CASE u = c.user /\ c.to # "admin"
      <4>1. ~c.raced
        BY <3>1, <3>4, <2>1
      <4>2. PICK v \in Users : v # c.user /\ member[v] = "admin"
        BY <4>1, <3>1, <3>4, <1>1, <2>2 DEF Spares
      <4>3. QED
        BY <4>2, <2>3
    <3>5. QED
      BY <3>2, <3>3, <3>4
  <2>10. NoStrayInvitation' /\ OnePending'
    <3>1. \A i \in Invites : invite[i].to \in Users
      BY DEF Invitation
    <3>2. QED
      BY <2>1, <2>6, <2>7, <3>1 DEF NoStrayInvitation, OnePending, Pending
  <2>11. PurgeSound' /\ PurgeOneByOne'
    <3>1. ~(orgPurge'.pc = "users")
      BY <2>1
    <3>2. orgPurge = NoOrgPurge
      BY <2>1 DEF PurgeOneByOne
    <3>3. QED
      BY <2>1, <3>1, <3>2 DEF PurgeSound, PurgeOneByOne, NoOrgPurge
  <2>12. QED
    BY <2>5, <2>8, <2>9, <2>10, <2>11
<1>4. QED
  BY <1>2, <1>3

\* An invitation that was not overtaken supersedes all others of its user, who is still
\* no member.
LEMMA CommitInviteStep ==
    ASSUME MembershipIInv, NEW r \in MemberRequests, CommitInvite(r)
    PROVE  MembershipIInv'
<1> USE DEF MembershipIInv
<1> DEFINE c == change[r]
<1>1. c \in Inviting /\ c.new \in Invites /\ c.user \in Users /\ c.role \in Roles
      /\ c.stale \subseteq Invites /\ c.raced \in BOOLEAN
  BY Kinds DEF CommitInvite, Types, Inviting
<1>2. /\ invite' = [j \in Invites |->
                     IF j = c.new THEN [st |-> "pending", to |-> c.user, role |-> c.role]
                     ELSE IF j \in c.stale THEN [invite[j] EXCEPT !.st = "revoked"] ELSE invite[j]]
      /\ change' = Overtaken(r, {})
      /\ races' = IF c.raced THEN races \cup {"invites"} ELSE races
      /\ UNCHANGED <<account, member, elsewhere, orgState, orgPurge>>
  BY DEF CommitInvite
<1>3. change' \in [MemberRequests -> ChangeState] /\ RequestsSound'
  BY <1>2, OvertakingSound
<1>4. invite' \in [Invites -> Invitation]
  <2> SUFFICES ASSUME NEW j \in Invites PROVE invite'[j] \in Invitation
    BY <1>2
  <2>1. invite[j] \in Invitation
    BY DEF Types, MembershipTypeOK
  <2>2. QED
    BY <1>1, <1>2, <2>1 DEF Invitation
<1>5. \A j \in Invites : invite'[j].st = "pending" =>
        \/ j = c.new /\ invite'[j].to = c.user
        \/ /\ j # c.new /\ j \notin c.stale
           /\ invite[j].st = "pending" /\ invite'[j].to = invite[j].to
  <2> SUFFICES ASSUME NEW j \in Invites, invite'[j].st = "pending"
               PROVE  \/ j = c.new /\ invite'[j].to = c.user
                      \/ /\ j # c.new /\ j \notin c.stale
                         /\ invite[j].st = "pending" /\ invite'[j].to = invite[j].to
    OBVIOUS
  <2>1. invite[j] \in Invitation
    BY DEF Types, MembershipTypeOK
  <2>2. CASE j = c.new
    BY <1>2, <2>2
  <2>3. CASE j # c.new /\ j \in c.stale
    <3>1. invite'[j] = [invite[j] EXCEPT !.st = "revoked"]
      BY <1>2, <2>3
    <3>2. invite'[j].st = "revoked"
      BY <3>1, <2>1 DEF Invitation
    <3>3. QED
      BY <3>2
  <2>4. CASE j # c.new /\ j \notin c.stale
    BY <1>2, <2>4
  <2>5. QED
    BY <2>2, <2>3, <2>4
<1>6. races \subseteq races'
  BY <1>2
<1>7. Types'
  BY <1>2, <1>3, <1>4 DEF Types, MembershipTypeOK
<1>8. LastAdminKept' /\ PurgeSound' /\ PurgeOneByOne'
  BY <1>2, <1>6 DEF LastAdminKept, Admins, PurgeSound, PurgeOneByOne
<1>9. NoStrayInvitation' /\ OnePending'
  <2> SUFFICES ASSUME "invites" \notin races' PROVE NoStrayInvitation' /\ OnePending'
    BY DEF NoStrayInvitation, OnePending
  <2>1. ~c.raced /\ "invites" \notin races
    BY <1>2, <1>1
  <2>2. member[c.user] = "none" /\ \A j \in Invites : Pending(j, c.user) => j \in c.stale
    BY <1>1, <2>1 DEF RequestsSound, Sound, Supersedes
  <2>3. NoStrayInvitation'
    BY <1>2, <1>5, <2>1, <2>2 DEF NoStrayInvitation
  <2>4. OnePending'
    <3> SUFFICES ASSUME NEW i \in Invites, NEW j \in Invites, invite'[i].st = "pending",
                        invite'[j].st = "pending", invite'[j].to = invite'[i].to
                 PROVE  i = j
      BY DEF OnePending, Pending
    <3>1. CASE i = c.new \/ j = c.new
      BY <1>5, <2>2, <3>1 DEF Pending
    <3>2. CASE i # c.new /\ j # c.new
      BY <1>5, <2>1, <3>2 DEF OnePending, Pending
    <3>3. QED
      BY <3>1, <3>2
  <2>5. QED
    BY <2>3, <2>4
<1>10. QED
  BY <1>3, <1>7, <1>8, <1>9

\* Revoking takes an invitation away, nothing else.
LEMMA CommitRevokeStep ==
    ASSUME MembershipIInv, NEW r \in MemberRequests, CommitRevoke(r)
    PROVE  MembershipIInv'
<1> USE DEF MembershipIInv
<1>1. change[r] \in Revoking
  BY Kinds DEF CommitRevoke, Types
<1> PICK i \in Invites : i = change[r].invite
  BY <1>1 DEF Revoking
<1>2. /\ invite' = [invite EXCEPT ![i] = [invite[i] EXCEPT !.st = "revoked"]]
      /\ change' = [change EXCEPT ![r] = NoChange]
      /\ UNCHANGED <<account, member, elsewhere, orgState, orgPurge, races>>
  BY DEF CommitRevoke, Abandon
<1>3. invite[i] \in Invitation
  BY DEF Types, MembershipTypeOK
<1>4. [invite[i] EXCEPT !.st = "revoked"] \in Invitation
      /\ [invite[i] EXCEPT !.st = "revoked"].st = "revoked"
      /\ [invite[i] EXCEPT !.st = "revoked"].to = invite[i].to
  BY <1>3 DEF Invitation
<1>5. /\ invite' \in [Invites -> Invitation]
      /\ \A j \in Invites : invite'[j].to = invite[j].to
      /\ \A j \in Invites : invite'[j].st = "pending" => invite[j].st = "pending"
  BY <1>2, <1>4 DEF Types, MembershipTypeOK
<1>6. Types'
  BY <1>2, <1>5 DEF Types, MembershipTypeOK, ChangeState
<1>7. RequestsSound'
  <2> SUFFICES ASSUME NEW q \in MemberRequests PROVE Sound(change[q])'
    BY DEF RequestsSound
  <2>1. change'[q] = IF q = r THEN NoChange ELSE change[q]
    BY <1>2 DEF Types
  <2>2. Sound(change'[q])
    BY <2>1, ClaimsNothing DEF RequestsSound, Sound, Spares, Supersedes, UsesUp, RowPresent, ChangeState
  <2>3. QED
    BY <1>2, <1>5, <2>2 DEF Sound, Spares, Supersedes, UsesUp, RowPresent, Pending, Inviting, Accepting
<1>8. LastAdminKept' /\ PurgeSound' /\ PurgeOneByOne'
  BY <1>2 DEF LastAdminKept, Admins, PurgeSound, PurgeOneByOne
<1>9. NoStrayInvitation' /\ OnePending'
  BY <1>2, <1>5 DEF NoStrayInvitation, OnePending, Pending
<1>10. QED
  BY <1>6, <1>7, <1>8, <1>9

\* Who accepts was no member or keeps his role, and has no other invitation waiting.
LEMMA CommitAcceptStep ==
    ASSUME MembershipIInv, NEW r \in MemberRequests, CommitAccept(r)
    PROVE  MembershipIInv'
<1> USE DEF MembershipIInv
<1> DEFINE c == change[r]
<1>1. c \in Accepting /\ c.joins \in BOOLEAN /\ c.raced \in BOOLEAN
  BY Kinds DEF CommitAccept, Types, Accepting
<1> PICK i \in Invites : i = c.invite
  BY <1>1 DEF Accepting
<1>2. invite[i] \in Invitation
  BY DEF Types, MembershipTypeOK
<1> PICK u \in Users : u = invite[i].to
  BY <1>2 DEF Invitation
<1>3. CASE ~Admissible(c, u)
  BY <1>3, AbandonStep DEF CommitAccept
<1>4. CASE Admissible(c, u)
  <2> DEFINE role == RoleAfterAccept(c, u)
  <2>1. /\ account' = account \cup {u}
        /\ member' = [member EXCEPT ![u] = role]
        /\ invite' = [invite EXCEPT ![i] = [invite[i] EXCEPT !.st = "accepted"]]
        /\ change' = Overtaken(r, {})
        /\ races' = IF c.raced THEN races \cup {"invites"} ELSE races
        /\ UNCHANGED <<elsewhere, orgState, orgPurge>>
        /\ orgPurge.pc = "idle"
    BY <1>4 DEF CommitAccept
  <2>2. role \in Roles \cup {"none"} /\ (role = member[u] \/ member[u] = "none")
    BY <1>2, <1>4 DEF RoleAfterAccept, Admissible, Types, MembershipTypeOK, Invitation
  <2> HIDE DEF role
  <2>3. member' \in [Users -> Roles \cup {"none"}]
        /\ \A v \in Users : member'[v] = member[v] \/ (v = u /\ member[v] = "none")
    BY <2>1, <2>2 DEF Types, MembershipTypeOK
  <2>4. [invite[i] EXCEPT !.st = "accepted"] \in Invitation
        /\ [invite[i] EXCEPT !.st = "accepted"].st = "accepted"
        /\ [invite[i] EXCEPT !.st = "accepted"].to = u
    BY <1>2 DEF Invitation
  <2>5. /\ invite' \in [Invites -> Invitation]
        /\ \A j \in Invites : invite'[j].to = invite[j].to
        /\ \A j \in Invites : invite'[j].st = "pending" => invite[j].st = "pending" /\ j # i
    BY <2>1, <2>4 DEF Types, MembershipTypeOK
  <2>6. change' \in [MemberRequests -> ChangeState] /\ RequestsSound'
    BY <2>1, <2>3, OvertakingSound
  <2>7. races \subseteq races'
    BY <2>1
  <2>8. Types'
    BY <2>1, <2>3, <2>5, <2>6 DEF Types, MembershipTypeOK
  <2>9. LastAdminKept'
    BY <2>1, <2>3, <2>7 DEF LastAdminKept, Admins
  <2>10. NoStrayInvitation' /\ OnePending'
    <3> SUFFICES ASSUME "invites" \notin races' PROVE NoStrayInvitation' /\ OnePending'
      BY DEF NoStrayInvitation, OnePending
    <3>1. ~c.raced /\ "invites" \notin races
      BY <2>1, <1>1
    <3>2. \A j \in Invites : Pending(j, u) => j = i
      BY <1>1, <3>1 DEF RequestsSound, Sound, UsesUp
    <3>3. OnePending'
      BY <2>5, <3>1 DEF OnePending, Pending
    <3>4. NoStrayInvitation'
      <4> SUFFICES ASSUME NEW j \in Invites, invite'[j].st = "pending"
                   PROVE  member'[invite'[j].to] = "none"
        BY DEF NoStrayInvitation
      <4>1. invite[j].st = "pending" /\ invite[j].to # u /\ member[invite[j].to] = "none"
        BY <2>5, <3>1, <3>2 DEF Pending, NoStrayInvitation
      <4>2. invite[j].to \in Users
        BY DEF Types, MembershipTypeOK, Invitation
      <4>3. QED
        BY <2>3, <2>5, <4>1, <4>2
    <3>5. QED
      BY <3>3, <3>4
  <2>11. PurgeSound' /\ PurgeOneByOne'
    <3>1. orgPurge' = NoOrgPurge
      BY <2>1 DEF PurgeOneByOne
    <3>2. QED
      BY <3>1 DEF PurgeSound, PurgeOneByOne, NoOrgPurge
  <2>12. QED
    BY <2>6, <2>8, <2>9, <2>10, <2>11
<1>5. QED
  BY <1>3, <1>4

-----------------------------------------------------------------------------
\* A step that changes no membership, invitation or request leaves what is known of them.
LEMMA KnownStays ==
    ASSUME MembershipIInv, UNCHANGED <<member, invite, change>>,
           races \subseteq races', races' \subseteq races \cup {"moved"},
           orgState = "purged" => orgState' = "purged"
    PROVE  RequestsSound' /\ LastAdminKept' /\ NoStrayInvitation' /\ OnePending'
<1>1. "invites" \in races' => "invites" \in races
  OBVIOUS
<1>2. ASSUME NEW r \in MemberRequests PROVE Sound(change[r])'
  <2>1. Sound(change[r])
    BY DEF MembershipIInv, RequestsSound
  <2>2. QED
    BY <1>1, <2>1 DEF Sound, Spares, Supersedes, UsesUp, RowPresent, Pending
<1>3. QED
  BY <1>1, <1>2 DEF MembershipIInv, RequestsSound, LastAdminKept, Admins, NoStrayInvitation, OnePending, Pending

LEMMA JoinStep ==
    ASSUME MembershipIInv, NEW u \in Users, JoinElsewhere(u)
    PROVE  MembershipIInv'
<1> USE DEF MembershipIInv, JoinElsewhere
<1>1. RequestsSound' /\ LastAdminKept' /\ NoStrayInvitation' /\ OnePending'
  BY KnownStays
<1>2. Types'
  BY DEF Types, MembershipTypeOK
<1>3. PurgeSound' /\ PurgeOneByOne'
  BY DEF PurgeSound, PurgeOneByOne, Types, MembershipTypeOK
<1>4. QED
  BY <1>1, <1>2, <1>3

LEMMA LeaveStep ==
    ASSUME MembershipIInv, NEW u \in Users, LeaveElsewhere(u)
    PROVE  MembershipIInv'
<1> USE DEF MembershipIInv, LeaveElsewhere
<1>1. RequestsSound' /\ LastAdminKept' /\ NoStrayInvitation' /\ OnePending'
  BY KnownStays
<1>2. Types'
  BY DEF Types, MembershipTypeOK
<1>3. PurgeSound' /\ PurgeOneByOne'
  BY DEF PurgeSound, PurgeOneByOne, Types, MembershipTypeOK
<1>4. QED
  BY <1>1, <1>2, <1>3

LEMMA CloseStep == ASSUME MembershipIInv, CloseAccount PROVE MembershipIInv'
<1> USE DEF MembershipIInv, CloseAccount
<1>1. RequestsSound' /\ LastAdminKept' /\ NoStrayInvitation' /\ OnePending'
  BY KnownStays
<1>2. Types' /\ PurgeSound' /\ PurgeOneByOne'
  BY DEF Types, MembershipTypeOK, PurgeSound, PurgeOneByOne
<1>3. QED
  BY <1>1, <1>2

LEMMA PurgeCrashStep == ASSUME MembershipIInv, OrgPurgeCrash PROVE MembershipIInv'
<1> USE DEF MembershipIInv, OrgPurgeCrash
<1>1. RequestsSound' /\ LastAdminKept' /\ NoStrayInvitation' /\ OnePending'
  BY KnownStays
<1>2. Types' /\ PurgeSound' /\ PurgeOneByOne'
  BY DEF Types, MembershipTypeOK, PurgeSound, PurgeOneByOne, NoOrgPurge
<1>3. QED
  BY <1>1, <1>2

LEMMA BeginPurgeStep == ASSUME MembershipIInv, BeginOrgPurge PROVE MembershipIInv'
<1> USE DEF MembershipIInv, BeginOrgPurge
<1>1. RequestsSound' /\ LastAdminKept' /\ NoStrayInvitation' /\ OnePending'
  BY KnownStays
<1>2. Types' /\ PurgeSound' /\ PurgeOneByOne'
  BY DEF Types, MembershipTypeOK, PurgeSound, PurgeOneByOne, NoOrgPurge
<1>3. QED
  BY <1>1, <1>2

LEMMA CountStep ==
    ASSUME MembershipIInv, NEW u \in Users, CountMemberships(u)
    PROVE  MembershipIInv'
<1> USE DEF MembershipIInv, CountMemberships
<1>1. RequestsSound' /\ LastAdminKept' /\ NoStrayInvitation' /\ OnePending'
  BY KnownStays
<1>2. orgPurge \in [pc : {"idle", "users"}, todo : SUBSET Users, condemned : SUBSET Users, gone : SUBSET Users]
  BY DEF Types, MembershipTypeOK
<1>3. PICK condemned \in SUBSET {u} : /\ condemned = IF OthersOf(u) = {} THEN {u} ELSE {}
                                      /\ u \in condemned <=> u \notin elsewhere
  BY DEF OthersOf
<1>4. orgPurge' = [orgPurge EXCEPT !.todo = orgPurge.todo \ {u}, !.condemned = condemned]
  BY <1>3
<1>5. /\ orgPurge'.pc = "users" /\ orgPurge.pc = "users" /\ u \in orgPurge.todo
      /\ orgPurge'.todo = orgPurge.todo \ {u} /\ orgPurge'.condemned = condemned
      /\ orgPurge'.gone = orgPurge.gone /\ orgPurge.condemned = {}
      /\ orgPurge' \in [pc : {"idle", "users"}, todo : SUBSET Users, condemned : SUBSET Users, gone : SUBSET Users]
  BY <1>2, <1>3, <1>4
<1>6. Types'
  BY <1>5 DEF Types, MembershipTypeOK
<1>7. PurgeOneByOne'
  <2>1. orgPurge.todo \cup orgPurge.gone \subseteq {v \in Users : member[v] # "none"} /\ member' = member
    BY DEF PurgeOneByOne
  <2>2. orgPurge'.todo \cup orgPurge'.gone \cup orgPurge'.condemned \subseteq {v \in Users : member'[v] # "none"}
    <3> SUFFICES ASSUME NEW v \in orgPurge'.todo \cup orgPurge'.gone \cup orgPurge'.condemned
                 PROVE  v \in Users /\ member[v] # "none"
      BY <2>1
    <3>1. v \in orgPurge.todo \cup orgPurge.gone
      BY <1>5
    <3>2. QED
      BY <2>1, <3>1
  <2>3. orgPurge'.pc # "idle" /\ \A v, w \in orgPurge'.condemned : v = w
    BY <1>5
  <2>4. QED
    BY <2>2, <2>3 DEF PurgeOneByOne
<1>8. PurgeSound'
  <2> SUFFICES ASSUME "moved" \notin races
               PROVE  /\ \A v \in condemned \cup orgPurge.gone : member[v] # "none" /\ v \notin elsewhere
                      /\ \A v \in Users : member[v] # "none" /\ v \notin elsewhere
                                          => v \in (orgPurge.todo \ {u}) \cup condemned \cup orgPurge.gone
    BY <1>5 DEF PurgeSound
  <2>1. member[u] # "none"
    BY <1>5 DEF PurgeOneByOne
  <2>2. \A v \in orgPurge.gone : member[v] # "none" /\ v \notin elsewhere
    BY <1>5 DEF PurgeSound
  <2>3. \A v \in Users : member[v] # "none" /\ v \notin elsewhere => v \in orgPurge.todo \cup orgPurge.gone
    BY <1>5 DEF PurgeSound
  <2>4. QED
    BY <1>3, <2>1, <2>2, <2>3
<1>9. QED
  BY <1>1, <1>6, <1>7, <1>8

LEMMA DeleteStep ==
    ASSUME MembershipIInv, NEW u \in Users, DeleteUser(u)
    PROVE  MembershipIInv'
<1> USE DEF MembershipIInv, DeleteUser
<1>1. RequestsSound' /\ LastAdminKept' /\ NoStrayInvitation' /\ OnePending'
  BY KnownStays
<1>2. orgPurge \in [pc : {"idle", "users"}, todo : SUBSET Users, condemned : SUBSET Users, gone : SUBSET Users]
  BY DEF Types, MembershipTypeOK
<1>3. /\ orgPurge'.pc = "users" /\ orgPurge.pc = "users" /\ u \in orgPurge.condemned
      /\ orgPurge'.todo = orgPurge.todo /\ orgPurge'.condemned = {}
      /\ orgPurge'.gone = orgPurge.gone \cup {u}
      /\ orgPurge' \in [pc : {"idle", "users"}, todo : SUBSET Users, condemned : SUBSET Users, gone : SUBSET Users]
  BY <1>2
<1>4. \A v \in orgPurge.condemned : v = u
  BY <1>3 DEF PurgeOneByOne
<1>5. Types'
  BY <1>3 DEF Types, MembershipTypeOK
<1>6. PurgeSound' /\ PurgeOneByOne'
  BY <1>3, <1>4 DEF PurgeSound, PurgeOneByOne
<1>7. QED
  BY <1>1, <1>5, <1>6

\* The end of the organization: no member, no invitation, no row for a request to find.
LEMMA CommitPurgeStep == ASSUME MembershipIInv, CommitOrgPurge PROVE MembershipIInv'
<1> USE DEF MembershipIInv, CommitOrgPurge
<1>1. \A u \in Users : member'[u] = "none"
  OBVIOUS
<1>2. ASSUME NEW i \in Invites
      PROVE  /\ invite'[i] \in Invitation
             /\ invite'[i].st # "pending"
  <2>1. invite[i] \in Invitation
    BY DEF Types, MembershipTypeOK
  <2>2. invite'[i] = [invite[i] EXCEPT !.st = IF invite[i].st = "unused" THEN invite[i].st ELSE "deleted"]
    OBVIOUS
  <2>3. QED
    BY <2>1, <2>2 DEF Invitation
<1>3. ASSUME NEW q \in MemberRequests
      PROVE  /\ change'[q] \in ChangeState
             /\ ~RowOf(change'[q])
  <2>1. change[q] \in ChangeState
    BY DEF Types
  <2>2. CASE change[q].op \in {"role", "remove"}
    <3>1. change'[q] = [change[q] EXCEPT !.row = FALSE] /\ change[q] \in MemberChange
      BY <2>1, <2>2, Kinds
    <3>2. (change'[q] \in RoleChange \/ change'[q] \in Removal) /\ ~change'[q].row
      BY <3>1 DEF MemberChange, RoleChange, Removal
    <3>3. QED
      BY <3>2 DEF RowOf, ChangeState, MemberChange
  <2>3. CASE change[q].op \notin {"role", "remove"}
    BY <2>1, <2>3, Kinds DEF RowOf
  <2>4. QED
    BY <2>2, <2>3
<1>4. Types'
  <2>1. NoOrgPurge \in [pc : {"idle", "users"}, todo : SUBSET Users, condemned : SUBSET Users, gone : SUBSET Users]
    BY DEF NoOrgPurge
  <2>2. elsewhere' \subseteq account' /\ account' \subseteq Users
    BY DEF Types, MembershipTypeOK
  <2>3. invite' \in [Invites -> Invitation] /\ change' \in [MemberRequests -> ChangeState]
    BY <1>2, <1>3
  <2>4. QED
    BY <1>1, <2>1, <2>2, <2>3 DEF Types, MembershipTypeOK
<1>5. RequestsSound'
  <2> SUFFICES ASSUME NEW q \in MemberRequests PROVE Sound(change[q])'
    BY DEF RequestsSound
  <2>1. change'[q] \in ChangeState /\ ~RowOf(change'[q])
    BY <1>3
  <2>2. change'[q] \in MemberChange => change'[q].user \in Users
    BY DEF MemberChange, RoleChange, Removal
  <2>3. change'[q] \in Inviting => change'[q].user \in Users
    BY DEF Inviting
  <2>4. QED
    BY <1>1, <1>2, <2>1, <2>2, <2>3 DEF Sound, Spares, Supersedes, UsesUp, RowPresent, RowOf, Pending
<1>6. LastAdminKept' /\ NoStrayInvitation' /\ OnePending'
  BY <1>2 DEF LastAdminKept, NoStrayInvitation, OnePending
<1>7. PurgeSound' /\ PurgeOneByOne'
  BY DEF PurgeSound, PurgeOneByOne, NoOrgPurge
<1>8. QED
  BY <1>4, <1>5, <1>6, <1>7

-----------------------------------------------------------------------------
LEMMA NextStep == MembershipIInv /\ [MembershipNext]_membershipVars => MembershipIInv'
<1> SUFFICES ASSUME MembershipIInv, [MembershipNext]_membershipVars PROVE MembershipIInv'
  OBVIOUS
<1>1. CASE UNCHANGED membershipVars
  <2> USE <1>1 DEF membershipVars, MembershipIInv
  <2>1. RequestsSound' /\ LastAdminKept' /\ NoStrayInvitation' /\ OnePending'
    BY KnownStays
  <2>2. Types' /\ PurgeSound' /\ PurgeOneByOne'
    BY DEF Types, MembershipTypeOK, PurgeSound, PurgeOneByOne
  <2>3. QED
    BY <2>1, <2>2
<1>2. CASE \E u \in Users : JoinElsewhere(u) \/ LeaveElsewhere(u) \/ CountMemberships(u) \/ DeleteUser(u)
  BY <1>2, JoinStep, LeaveStep, CountStep, DeleteStep
<1>3. CASE CloseAccount \/ BeginOrgPurge \/ CommitOrgPurge \/ OrgPurgeCrash
  BY <1>3, CloseStep, BeginPurgeStep, CommitPurgeStep, PurgeCrashStep
<1>4. ASSUME NEW r \in MemberRequests,
             \E u \in Users : BeginRemoveMember(r, u) \/ \E role \in Roles : BeginUpdateRole(r, u, role)
      PROVE  MembershipIInv'
  BY <1>4, RemoveStep, UpdateRoleStep
<1>5. ASSUME NEW r \in MemberRequests, NEW i \in Invites,
             \/ BeginRevoke(r, i) \/ BeginAccept(r, i)
             \/ \E u \in Users, role \in Roles : BeginInvite(r, i, u, role)
      PROVE  MembershipIInv'
  BY <1>5, RevokeStep, AcceptStep, InviteStep
<1>6. ASSUME NEW r \in MemberRequests,
             CommitMember(r) \/ CommitInvite(r) \/ CommitRevoke(r) \/ CommitAccept(r)
      PROVE  MembershipIInv'
  BY <1>6, CommitMemberStep, CommitInviteStep, CommitRevokeStep, CommitAcceptStep
<1>7. QED
  BY <1>1, <1>2, <1>3, <1>4, <1>5, <1>6 DEF MembershipNext

(***************************************************************************)
(* The invariant behind the next theorems: what each request that reads    *)
(* without a lock and commits later (members.py, invitations.py) still     *)
(* knows, as long as no other commit came between.                         *)
(***************************************************************************)
THEOREM MembershipInvariance == MembershipSpec => []MembershipIInv
BY IInvInit, NextStep, PTL DEF MembershipSpec

(***************************************************************************)
(* An open or closed organization keeps an administrator unless changes    *)
(* overlapped (update_member_role, remove_member), for any number of       *)
(* users, requests and invitations.                                        *)
(***************************************************************************)
THEOREM AdminRemains == MembershipSpec => []LastAdminKept
BY MembershipInvariance, PTL DEF MembershipIInv

(***************************************************************************)
(* Whoever is a member has no invitation left to use (create_invitation,   *)
(* accept_invitation), unless invitations of the organization overlapped.  *)
(***************************************************************************)
THEOREM InvitationsUsedUp == MembershipSpec => []NoStrayInvitation
BY MembershipInvariance, PTL DEF MembershipIInv

(***************************************************************************)
(* purge_organization_sync deletes exactly the accounts that belong to no  *)
(* other organization, whatever crashes and requests go before, unless     *)
(* somebody joins or leaves another organization after it counted his      *)
(* memberships.                                                            *)
(***************************************************************************)
THEOREM PurgeDeletesExactly == MembershipSpec => PurgeIsExact
<1>1. MembershipIInv /\ [MembershipNext]_membershipVars =>
        [orgState' = "purged" /\ orgState # "purged" /\ "moved" \notin races
         => account' = {u \in account : member[u] = "none" \/ u \in elsewhere}]_membershipVars
  <2> SUFFICES ASSUME MembershipIInv, [MembershipNext]_membershipVars,
                      orgState' = "purged", orgState # "purged", "moved" \notin races
               PROVE  account' = {u \in account : member[u] = "none" \/ u \in elsewhere}
    OBVIOUS
  <2>1. CommitOrgPurge
    BY DEF MembershipNext, membershipVars, JoinElsewhere, LeaveElsewhere, CountMemberships, DeleteUser,
           BeginRemoveMember, BeginUpdateRole, BeginRevoke, BeginAccept, BeginInvite,
           CommitMember, CommitInvite, CommitRevoke, CommitAccept, CloseAccount, BeginOrgPurge, OrgPurgeCrash
  <2>2. /\ account' = account \ orgPurge.gone /\ account \subseteq Users
        /\ orgPurge.todo = {} /\ orgPurge.condemned = {}
        /\ \A u \in orgPurge.gone : member[u] # "none" /\ u \notin elsewhere
        /\ \A u \in Users : member[u] # "none" /\ u \notin elsewhere => u \in orgPurge.gone
    BY <2>1 DEF CommitOrgPurge, MembershipIInv, PurgeSound, Types, MembershipTypeOK
  <2>3. QED
    BY <2>2
<1>2. QED
  BY MembershipInvariance, <1>1, PTL DEF MembershipSpec, PurgeIsExact

-----------------------------------------------------------------------------
(* The instance of the three modules together.                             *)

(***************************************************************************)
(* A behaviour in which the three take turns is one of each of them: no    *)
(* request of one changes what another keeps (routers auth, members and    *)
(* invitations), so what is proved of each holds of all together.          *)
(***************************************************************************)
THEOREM TogetherIsEach == UsersSpec => AccountsSpec /\ SessionsSpec /\ MembershipSpec
<1>1. UsersInit => AccountsInit /\ SessionsInit /\ MembershipInit
  BY DEF UsersInit
<1>2. [UsersNext]_<<focus, accountsVars, sessionsVars, membershipVars>> =>
          [AccountsNext]_accountsVars /\ [SessionsNext]_sessionsVars /\ [MembershipNext]_membershipVars
  BY DEF UsersNext, AccountsStep, SessionsStep, MembershipStep
<1> QED
  BY <1>1, <1>2, PTL DEF UsersSpec, AccountsSpec, SessionsSpec, MembershipSpec

\* Users, memberships, invitations, tokens and requests in flight keep their types, all
\* modules together.
THEOREM UsersTypeCorrect == UsersSpec => []UsersTypeOK
<1>1. AccountsTypeOK /\ SessionsTypeOK /\ MembershipIInv => UsersTypeOK
  BY DEF UsersTypeOK, MembershipIInv, Types
<1> QED
  BY <1>1, TogetherIsEach, AccountsTypeCorrect, SessionsTypeCorrect, MembershipInvariance, PTL
=============================================================================
