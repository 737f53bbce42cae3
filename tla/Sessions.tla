------------------------------ MODULE Sessions ------------------------------
(***************************************************************************)
(* The refresh tokens of one user in Redis: a record per token, a mark for *)
(* its first use, a set of tokens per family (one login and its rotations) *)
(* and an index of the user's families.  Each command is atomic, no        *)
(* operation is: calls interleave between commands and may lose Redis at   *)
(* any of them.  Covers services/refresh_tokens.py and its callers in the  *)
(* auth, members, invitations and organizations routers.                   *)
(*                                                                         *)
(* Bounds: Tokens and Families (ever issued), MaxTick, MaxEndings (calls   *)
(* that end sessions), MaxFailures (calls that lose Redis).                *)
(***************************************************************************)
EXTENDS Integers, FiniteSets

CONSTANTS
    Tokens, Families,   \* numbers from 1
    Orgs,       \* organizations the user belongs to at first
    Calls,      \* requests in flight at a time
    Grace,      \* refresh_reuse_grace_seconds
    TickLength, \* seconds from one tick to the next
    MaxTick, MaxEndings, MaxFailures

ASSUME SessionsAssumption ==
    /\ 0 \notin Orgs
    /\ Grace \in Nat /\ TickLength \in Nat /\ MaxTick \in Nat
    /\ MaxEndings \in Nat /\ MaxFailures \in Nat

VARIABLES
    tick,
    live,        \* tokens with a record
    born,        \* [Tokens -> the family named in the record, kept after its end]
    orgOf,       \* [Families -> the tenant_id in the records of the family]
    usedAt,      \* [Tokens -> the mark of the first use]
    listed,      \* [Families -> the family's set of tokens]
    families,    \* the user's index of families
    belongs,     \* organizations the user is a member of
    call,        \* [Calls -> the request in flight]
    endings, failures,
    firstUse,    \* (ghost) usedAt, never deleted
    revoked,     \* (ghost) families that were revoked
    survivors,   \* (ghost) tokens of rotations in flight when their family was revoked
    missed       \* (ghost) families opened while the index was being deleted

sessionsVars == <<tick, live, born, orgOf, usedAt, listed, families, belongs, call, endings,
                  failures, firstUse, revoked, survivors, missed>>
counters == <<endings, failures>>
redisKeys == <<live, born, orgOf, usedAt, listed, families>>
ghosts == <<firstUse, revoked, survivors, missed>>

None == 0
Unused == -1
NoCall == [op |-> "idle"]
EndSessions == {"logout", "reset", "remove", "close", "reuse", "denied"}

Become(c, state) == call' = [call EXCEPT ![c] = state]

-----------------------------------------------------------------------------

SessionsInit ==
    /\ tick = 0
    /\ live = {} /\ families = {} /\ belongs = Orgs
    /\ born = [t \in Tokens |-> None]
    /\ orgOf = [f \in Families |-> None]
    /\ usedAt = [t \in Tokens |-> Unused] /\ firstUse = usedAt
    /\ listed = [f \in Families |-> {}]
    /\ call = [c \in Calls |-> NoCall]
    /\ endings = 0 /\ failures = 0
    /\ revoked = {} /\ survivors = {} /\ missed = {}

\* issue_refresh_token, one MULTI/EXEC.  A token is random: they are numbered as they come.
Issue(t, f) ==
    /\ t = 1 + Cardinality({u \in Tokens : born[u] # None})
    /\ live' = live \cup {t}
    /\ born' = [born EXCEPT ![t] = f]
    /\ listed' = [listed EXCEPT ![f] = @ \cup {t}]
    /\ families' = families \cup {f}

\* The membership is read; then a token opens a family.  (The bound: families.)
ReadMembership(c, o) ==
    /\ call[c] = NoCall /\ o \in belongs
    /\ Cardinality({f \in Families : orgOf[f] # None} \cup {d \in Calls : call[d].op = "login"}) < Cardinality(Families)
    /\ Become(c, [op |-> "login", org |-> o])
    /\ UNCHANGED <<redisKeys, tick, belongs, counters, ghosts>>

\* login, and accept_invitation of a new account: anyone with the password.
Login(c, o) == ReadMembership(c, o)

\* switch_org: anyone who has logged in, and the access token of that login still counts.
SwitchOrg(c, o) ==
    /\ \E t \in Tokens : born[t] # None
    /\ ReadMembership(c, o)

OpenFamily(c, t, f) ==
    /\ call[c].op = "login"
    /\ f = 1 + Cardinality({g \in Families : orgOf[g] # None})
    /\ Issue(t, f)
    /\ orgOf' = [orgOf EXCEPT ![f] = call[c].org]
    /\ Become(c, NoCall)
    /\ UNCHANGED <<tick, usedAt, belongs, counters, ghosts>>

\* refresh: the record is read and the time taken ...
Present(c, t) ==
    /\ call[c] = NoCall /\ t \in live
    /\ Become(c, [op |-> "refresh", pc |-> "claim", token |-> t, now |-> tick * TickLength, raced |-> t \in survivors])
    /\ UNCHANGED <<redisKeys, tick, belongs, counters, ghosts>>

\* ... the use is claimed with SET NX ...
Claim(c) ==
    LET t == call[c].token IN
    /\ call[c].op = "refresh" /\ call[c].pc = "claim"
    /\ IF usedAt[t] = Unused
       THEN /\ usedAt' = [usedAt EXCEPT ![t] = call[c].now]
            /\ firstUse' = IF firstUse[t] = Unused THEN [firstUse EXCEPT ![t] = call[c].now] ELSE firstUse
            /\ Become(c, [call[c] EXCEPT !.pc = "issue"])
       ELSE /\ Become(c, [call[c] EXCEPT !.pc = "again"])
            /\ UNCHANGED <<usedAt, firstUse>>
    /\ UNCHANGED <<tick, live, born, orgOf, listed, families, belongs, counters, revoked, survivors, missed>>

\* A second use is a parallel refresh inside the grace period, a stolen token outside.
Tolerated_Always(first, now) == TRUE
Tolerated(first, now) == first # Unused /\ Grace > 0 /\ now - first <= Grace

Judge(c) ==
    LET t == call[c].token IN
    /\ call[c].op = "refresh" /\ call[c].pc = "again"
    /\ IF Tolerated(usedAt[t], call[c].now)
       THEN Become(c, [call[c] EXCEPT !.pc = "issue"])
       ELSE Become(c, [op |-> "reuse", pc |-> "family", todo |-> {born[t]}])
    /\ UNCHANGED <<redisKeys, tick, belongs, counters, ghosts>>

\* ... and the successor joins the family, wherever the family is by now.
Rotate(c, t) ==
    LET f == born[call[c].token] IN
    /\ call[c].op = "refresh" /\ call[c].pc = "issue"
    /\ Issue(t, f)
    /\ survivors' = IF call[c].raced THEN survivors \cup {t} ELSE survivors
    /\ Become(c, [op |-> "refresh", pc |-> "check", token |-> t, now |-> 0, raced |-> call[c].raced])
    /\ UNCHANGED <<tick, orgOf, usedAt, belongs, counters, firstUse, revoked, missed>>

\* Still a member?  If not, revoke_refresh_token with the new token.
CheckMember(c) ==
    LET t == call[c].token IN
    /\ call[c].op = "refresh" /\ call[c].pc = "check"
    /\ Become(c, IF orgOf[born[t]] \in belongs \/ t \notin live THEN NoCall
                 ELSE [op |-> "denied", pc |-> "family", todo |-> {born[t]}])
    /\ UNCHANGED <<redisKeys, tick, belongs, counters, ghosts>>

Logout(c, t) ==
    /\ call[c] = NoCall /\ t \in live
    /\ endings < MaxEndings /\ endings' = endings + 1
    /\ Become(c, [op |-> "logout", pc |-> "family", todo |-> {born[t]}])
    /\ UNCHANGED <<redisKeys, tick, belongs, failures, ghosts>>

\* reset_password (the new password is committed), remove_member and
\* close_current_organization (not committed yet) begin with the index.
BeginEnding(c, op, o) ==
    /\ call[c] = NoCall
    /\ op \in {"remove", "close"} => o \in belongs
    /\ endings < MaxEndings /\ endings' = endings + 1
    /\ Become(c, [op |-> op, pc |-> "index", org |-> o])
    /\ UNCHANGED <<redisKeys, tick, belongs, failures, ghosts>>

\* remove_member revokes the families of its organization, as far as a record tells.
Concerned(op, f, o) == op = "remove" => orgOf[f] = o /\ listed[f] \cap live # {}

ReadIndex(c) ==
    /\ call[c].op \in EndSessions /\ call[c].pc = "index"
    /\ LET x == call[c]
           todo == {f \in families : Concerned(x.op, f, x.org)}
       IN Become(c, [op |-> x.op, org |-> x.org, pc |-> IF todo = {} THEN "end" ELSE "family", todo |-> todo,
                     seen |-> families, open |-> {f \in Families : orgOf[f] # None}])
    /\ UNCHANGED <<redisKeys, tick, belongs, counters, ghosts>>

\* _revoke_family: SMEMBERS ...
Members_NewestOnly(f) == listed[f] \cap {t \in Tokens : usedAt[t] = Unused}
Members(f) == listed[f]

ReadFamily(c, f) ==
    /\ call[c].op \in EndSessions /\ call[c].pc = "family" /\ f \in call[c].todo
    /\ Become(c, [k \in (DOMAIN call[c]) \cup {"fam", "keys", "set"} |->
                    CASE k = "pc" -> "delete" [] k = "fam" -> f [] k = "keys" -> Members(f) [] k = "set" -> listed[f]
                      [] OTHER -> call[c][k]])
    /\ UNCHANGED <<redisKeys, tick, belongs, counters, ghosts>>

\* ... then one DELETE of the records, the marks and the set.
DeleteFamily(c) ==
    LET x == call[c]
        f == x.fam
        rest == x.todo \ {f}
    IN /\ x.op \in EndSessions /\ x.pc = "delete"
       /\ live' = live \ x.keys
       /\ usedAt' = [t \in Tokens |-> IF t \in x.keys THEN Unused ELSE usedAt[t]]
       /\ listed' = [listed EXCEPT ![f] = {}]
       /\ revoked' = revoked \cup {f}
       /\ survivors' = survivors \cup (listed[f] \ x.set)
       /\ call' = [d \in Calls |->
                     IF d = c THEN IF rest # {} \/ x.op \in {"reset", "close", "remove"}
                                   THEN [k \in DOMAIN x \ {"fam", "keys", "set"} |->
                                           CASE k = "pc" -> IF rest = {} THEN "end" ELSE "family"
                                             [] k = "todo" -> rest
                                             [] OTHER -> x[k]]
                                   ELSE NoCall
                     ELSE IF call[d].op = "refresh" /\ born[call[d].token] = f THEN [call[d] EXCEPT !.raced = TRUE]
                     ELSE call[d]]
       /\ UNCHANGED <<tick, born, orgOf, families, belongs, counters, firstUse, missed>>

\* revoke_all_for_user deletes the index, whatever it holds by now; then the commit.
DropsIndex(op) == op \in {"reset", "close"}

FinishEnding(c) ==
    LET x == call[c] IN
    /\ x.op \in EndSessions /\ x.pc = "end"
    /\ IF DropsIndex(x.op)
       THEN /\ families' = {}
            /\ missed' = missed \cup (families \ x.seen)
            /\ revoked' = revoked \cup x.open
       ELSE UNCHANGED <<families, missed, revoked>>
    /\ belongs' = IF x.op \in {"remove", "close"} THEN belongs \ {x.org} ELSE belongs
    /\ Become(c, NoCall)
    /\ UNCHANGED <<tick, live, born, orgOf, usedAt, listed, counters, firstUse, survivors>>

\* Redis fails at a command: a refresh is refused, a logout or reset swallows it,
\* remove_member commits all the same, close rolls back.
CallFails(c) ==
    /\ call[c] # NoCall
    /\ failures < MaxFailures /\ failures' = failures + 1
    /\ belongs' = IF call[c].op = "remove" THEN belongs \ {call[c].org} ELSE belongs
    /\ Become(c, NoCall)
    /\ UNCHANGED <<redisKeys, tick, endings, ghosts>>

\* The record's ttl; marks, sets and index are as old or younger.
Expire(t) ==
    /\ tick = MaxTick /\ t \in live
    /\ live' = live \ {t}
    /\ UNCHANGED <<tick, born, orgOf, usedAt, listed, families, belongs, call, counters, ghosts>>

SessionsTick ==
    /\ tick < MaxTick
    /\ tick' = tick + 1
    /\ UNCHANGED <<redisKeys, belongs, call, counters, ghosts>>

SessionsNext ==
    \/ SessionsTick
    \/ \E t \in Tokens : Expire(t)
    \/ \E c \in Calls :
          \/ Claim(c) \/ Judge(c) \/ CheckMember(c) \/ ReadIndex(c)
          \/ DeleteFamily(c) \/ FinishEnding(c) \/ CallFails(c)
          \/ \E o \in Orgs : Login(c, o) \/ SwitchOrg(c, o) \/ \E op \in {"reset", "remove", "close"} : BeginEnding(c, op, o)
          \/ \E f \in Families : ReadFamily(c, f) \/ \E t \in Tokens : OpenFamily(c, t, f)
          \/ \E t \in Tokens : Present(c, t) \/ Rotate(c, t) \/ Logout(c, t)

SessionsSpec == SessionsInit /\ [][SessionsNext]_sessionsVars

-----------------------------------------------------------------------------
\* Every variable keeps its type.
SessionsTypeOK ==
    /\ tick \in 0 .. MaxTick /\ endings \in 0 .. MaxEndings /\ failures \in 0 .. MaxFailures
    /\ live \in SUBSET Tokens /\ survivors \in SUBSET Tokens
    /\ born \in [Tokens -> Families \cup {None}]
    /\ usedAt \in [Tokens -> Int] /\ firstUse \in [Tokens -> Int]
    /\ orgOf \in [Families -> Orgs \cup {None}] /\ belongs \in SUBSET Orgs
    /\ listed \in [Families -> SUBSET Tokens]
    /\ families \in SUBSET Families /\ revoked \in SUBSET Families /\ missed \in SUBSET Families

(***************************************************************************)
(* A refresh token is exchanged again only when it was presented within    *)
(* the grace period of its first use, also after the family and its marks  *)
(* were deleted; except by a call that read the record before that.        *)
(***************************************************************************)
ExchangedOnce ==
    \A c \in Calls :
        call[c].op = "refresh" /\ call[c].pc = "issue" /\ ~call[c].raced
        => call[c].now - firstUse[call[c].token] <= Grace

(***************************************************************************)
(* After a logout, a detected reuse, a removal or a password reset has run *)
(* through, none of the tokens it was to end works, but those of rotations *)
(* and logins that were in flight.                                         *)
(***************************************************************************)
RevokedStaysRevoked ==
    \A t \in live : born[t] \in revoked => t \in survivors \/ born[t] \in missed
=============================================================================
