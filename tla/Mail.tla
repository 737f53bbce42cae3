-------------------------------- MODULE Mail --------------------------------
(***************************************************************************)
(* The notices a tenant's administrators get: about a subscription event   *)
(* (subscription_notifications.py, called after a webhook, a retry or a    *)
(* cancellation), and about a budget or a storage threshold                *)
(* (budget_notifications.py, storage_notifications.py).  send_email        *)
(* (email/service.py) leaves out a suppressed address, claims the          *)
(* message's key in Redis, and hands it to the provider; the provider's    *)
(* webhook suppresses an address (routers/v1/email_webhook.py).            *)
(*                                                                         *)
(* Bounds: MaxRounds (times a notice is called for), MaxWaived.            *)
(***************************************************************************)
EXTENDS Integers, FiniteSets, Functions

CONSTANTS
    Addresses,           \* of users that are, or become, administrators
    SubscriptionEvents, Thresholds,    \* what is told: an event, or a threshold and its period
    Senders,             \* requests and tasks
    MaxRounds, MaxWaived

ASSUME MailAssumption ==
    /\ IsFiniteSet(Addresses) /\ IsFiniteSet(Senders)
    /\ SubscriptionEvents \cap Thresholds = {}
    /\ MaxRounds \in Nat /\ MaxWaived \in Nat

VARIABLES
    mailTo,       \* addresses of the active administrators
    suppressed,   \* email_suppression
    claims,       \* keys in Redis, email:sent:<key>
    sender,       \* [Senders -> what one call of a notifier is about to do]
    mailed,       \* [Notices -> [Addresses -> mails the provider has taken]]
    rounds,       \* [Notices -> how often the notifier was called]
    waived        \* (ghost) [Notices -> claims that Redis lost or could not check]

mailVars == <<mailTo, suppressed, claims, sender, mailed, rounds, waived>>

Notices == SubscriptionEvents \cup Thresholds
Resting == [pc |-> "rest"]

\* The key of a template: an event's names the kind and the event ...
EventKey(n) == [notice |-> n]
\* ... a threshold's also the address and the period.
ThresholdKey(n, to) == [notice |-> n, to |-> to]

Key(n, to) == IF n \in SubscriptionEvents THEN EventKey(n) ELSE ThresholdKey(n, to)

MailInit ==
    /\ mailTo \in SUBSET Addresses \ {{}}
    /\ suppressed = {} /\ claims = {}
    /\ sender = [s \in Senders |-> Resting]
    /\ mailed = [n \in Notices |-> [a \in Addresses |-> 0]]
    /\ rounds = [n \in Notices |-> 0]
    /\ waived = [n \in Notices |-> 0]

\* The administrators are read once, then served one after the other.
BeginNotice(s, n) ==
    /\ sender[s] = Resting /\ rounds[n] < MaxRounds
    /\ rounds' = [rounds EXCEPT ![n] = @ + 1]
    /\ sender' = [sender EXCEPT ![s] = [pc |-> "next", notice |-> n, todo |-> mailTo]]
    /\ UNCHANGED <<mailTo, suppressed, claims, mailed, waived>>

Serving(s, to) == sender[s].pc = "next" /\ to \in sender[s].todo

Skipped(s, to) == [sender EXCEPT ![s].todo = @ \ {to}]
Delivering(s, to) == [sender EXCEPT ![s] = [pc |-> "deliver", notice |-> @.notice, todo |-> @.todo \ {to}, to |-> to]]

\* is_suppressed, only where the notifier passes its session on.
SkipSuppressed(s, to) ==
    /\ Serving(s, to) /\ sender[s].notice \in SubscriptionEvents
    /\ to \in suppressed
    /\ sender' = Skipped(s, to)
    /\ UNCHANGED <<mailTo, suppressed, claims, mailed, rounds, waived>>

Unsuppressed(s, to) ==
    /\ Serving(s, to) /\ sender[s].notice \in SubscriptionEvents
    /\ to \notin suppressed

Claimable_Always(n, to) == TRUE
Claimable(n, to) == Key(n, to) \notin claims

\* _claim_idempotency: SET NX.
ClaimKey(s, to) ==
    /\ Unsuppressed(s, to)
    /\ LET n == sender[s].notice IN
       IF Claimable(n, to)
       THEN claims' = claims \cup {Key(n, to)} /\ sender' = Delivering(s, to)
       ELSE UNCHANGED claims /\ sender' = Skipped(s, to)
    /\ UNCHANGED <<mailTo, suppressed, mailed, rounds, waived>>

\* Redis cannot be reached: the mail goes out all the same.
ClaimFails(s, to) ==
    /\ Unsuppressed(s, to)
    /\ waived[sender[s].notice] < MaxWaived
    /\ waived' = [waived EXCEPT ![sender[s].notice] = @ + 1]
    /\ sender' = Delivering(s, to)
    /\ UNCHANGED <<mailTo, suppressed, claims, mailed, rounds>>

\* The notifiers of thresholds pass neither the session nor Redis: nothing is checked.
SendUnchecked(s, to) ==
    /\ Serving(s, to) /\ sender[s].notice \in Thresholds
    /\ sender' = Delivering(s, to)
    /\ UNCHANGED <<mailTo, suppressed, claims, mailed, rounds, waived>>

\* The provider takes it, or refuses: that is logged, and the key stays claimed.
Deliver(s) ==
    /\ sender[s].pc = "deliver"
    /\ mailed' = [mailed EXCEPT ![sender[s].notice][sender[s].to] = @ + 1]
    /\ sender' = [sender EXCEPT ![s] = [pc |-> "next", notice |-> @.notice, todo |-> @.todo]]
    /\ UNCHANGED <<mailTo, suppressed, claims, rounds, waived>>

DeliverFails(s) ==
    /\ sender[s].pc = "deliver"
    /\ sender' = [sender EXCEPT ![s] = [pc |-> "next", notice |-> @.notice, todo |-> @.todo]]
    /\ UNCHANGED <<mailTo, suppressed, claims, mailed, rounds, waived>>

\* Done, or the process is gone.
EndNotice(s) ==
    /\ sender[s] # Resting
    /\ sender' = [sender EXCEPT ![s] = Resting]
    /\ UNCHANGED <<mailTo, suppressed, claims, mailed, rounds, waived>>

\* email_webhook: a hard bounce or a complaint about a mail that was sent.
Bounce(to) ==
    /\ to \notin suppressed /\ \E n \in Notices : mailed[n][to] > 0
    /\ suppressed' = suppressed \cup {to}
    /\ UNCHANGED <<mailTo, claims, sender, mailed, rounds, waived>>

\* A member becomes, or is no longer, an administrator.
ChangeAdmins(to) ==
    /\ mailTo' = IF to \in mailTo THEN mailTo \ {to} ELSE mailTo \cup {to}
    /\ UNCHANGED <<suppressed, claims, sender, mailed, rounds, waived>>

\* The claim's seven days are over, or Redis has lost it.
LoseClaim(key) ==
    /\ key \in claims /\ waived[key.notice] < MaxWaived
    /\ claims' = claims \ {key}
    /\ waived' = [waived EXCEPT ![key.notice] = @ + 1]
    /\ UNCHANGED <<mailTo, suppressed, sender, mailed, rounds>>

MailNext ==
    \/ \E s \in Senders :
          \/ \E n \in Notices : BeginNotice(s, n)
          \/ \E to \in Addresses :
                SkipSuppressed(s, to) \/ ClaimKey(s, to) \/ ClaimFails(s, to) \/ SendUnchecked(s, to)
          \/ Deliver(s) \/ DeliverFails(s) \/ EndNotice(s)
    \/ \E to \in Addresses : Bounce(to) \/ ChangeAdmins(to)
    \/ \E key \in claims : LoseClaim(key)

MailSpec == MailInit /\ [][MailNext]_mailVars

-----------------------------------------------------------------------------
\* Every variable keeps its type.
MailTypeOK ==
    /\ mailTo \in SUBSET Addresses /\ suppressed \in SUBSET Addresses
    /\ \A n \in Notices :
          /\ rounds[n] \in 0 .. MaxRounds /\ waived[n] \in 0 .. MaxWaived
          /\ \A a \in Addresses : mailed[n][a] \in 0 .. MaxRounds
    /\ \A s \in Senders : sender[s].pc \in {"rest", "next", "deliver"}

(***************************************************************************)
(* However often an event is delivered, retried or told by two processes   *)
(* at a time, one mail about it goes out, and one more for each claim that *)
(* Redis lost or could not answer: rule 2 of email/service.py.  It is one  *)
(* mail for all administrators together, not one each, because the key     *)
(* does not name the address.  A threshold is told no more often than it   *)
(* is called for, which is all its templates' keys achieve.                *)
(***************************************************************************)
EventMailedOnce ==
    /\ \A e \in SubscriptionEvents :
          SumFunctionOnSet(mailed[e], Addresses) <= 1 + waived[e]
    /\ \A t \in Thresholds, a \in Addresses : mailed[t][a] <= rounds[t]
=============================================================================
