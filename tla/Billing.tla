------------------------------- MODULE Billing -------------------------------
(***************************************************************************)
(* What an account pays for: Stripe Checkout and the Customer Portal, the  *)
(* webhooks that copy a subscription into the accounts row (billing.ts),   *)
(* and the deletion of an account, which cancels its subscription first    *)
(* (account-deletion.ts). BILLING_ENABLED is on; the trial clock at        *)
(* start-up and the reminders are in the module Reminders.                 *)
(*                                                                         *)
(* A handler is split at its awaits, the calls to Stripe. Between two      *)
(* awaits the process runs one handler only. Stripe itself is external: it *)
(* keeps subscriptions, writes an event for each change and delivers every *)
(* event at least once, in any order.                                      *)
(*                                                                         *)
(* accounts.id is a rowid, so the id of the newest account comes back when *)
(* that account is deleted. "owner" numbers the people who signed up and   *)
(* is not in the code: it tells two accounts with one id apart.            *)
(***************************************************************************)
EXTENDS Integers, Sequences, FiniteSets, SequencesExt, FiniteSetsExt

CONSTANTS
  Accts,      \* account ids; they are reused, the smallest free one first
  Exempt,     \* the operator's accounts: billing_exempt, never deleted
  Reqs,       \* checkout requests that may be under way at once
  None,       \* SQL NULL
  TrialLen,   \* BILLING_TRIAL_MONTHS
  MinCarry,   \* MIN_CHECKOUT_TRIAL_MS
  MaxTime,    \* bound: the clock
  MaxOwners,  \* bound: people who sign up
  MaxAsked,   \* bound: checkout requests
  MaxSubs,    \* bound: subscriptions made at Stripe
  MaxEvents,  \* bound: events Stripe writes
  MaxCrashes  \* bound: restarts of the process

Time == 0 .. MaxTime
Owners == 1 .. MaxOwners
SubIds == 1 .. MaxSubs
Statuses == {"active", "unpaid", "canceled"}

ASSUME BillingConstantsOK ==
  /\ Accts \subseteq Nat \ {0} /\ Exempt \subseteq Accts
  /\ TrialLen \in Nat \ {0} /\ MinCarry \in Nat
  /\ {MaxTime, MaxOwners, MaxAsked, MaxSubs, MaxEvents, MaxCrashes} \subseteq Nat
  /\ None \notin Nat

VARIABLES
  now,        \* the clock
  row,        \* accounts: id -> row, None when there is none
  req,        \* checkout requests
  del,        \* account id -> the deletion that runs for it
  customers,  \* Stripe: customer id -> the owner it was made for
  sessions,   \* Stripe: open Checkout sessions
  subs,       \* Stripe: subscriptions, by id
  events,     \* Stripe: events, in the order they were made, and their fate here
  asked,      \* history: how many checkouts were requested
  owners,     \* history: how many people signed up
  gone,       \* history: owners whose account was deleted
  raced,      \* history: owners who had two checkouts or subscriptions at once,
              \* or whose row an earlier owner's request wrote to
  crashes     \* history: how many restarts there were

stripeVars == <<customers, sessions, subs>>
history == <<asked, owners, gone, raced, crashes>>
vars == <<now, row, req, del, stripeVars, events, history>>

Rows == {a \in Accts : row[a] # None}
NewRow(o, trial) ==
  [owner |-> o, trial |-> trial, customer |-> None, sub |-> None, status |-> None,
   updated |-> None]

\* isSubscribed
Subscribed(status) == status = "active"

\* Mutant of Entitled: once there is a status, it decides.
EntitledByStatus(b) ==
  \/ b.owner = 0
  \/ IF b.status = None THEN now < b.trial ELSE Subscribed(b.status)

\* isEntitled, for a row that exists. The operator's rows have owner 0.
Entitled(b) ==
  \/ b.owner = 0
  \/ Subscribed(b.status)
  \/ b.trial = None
  \/ now < b.trial
-----------------------------------------------------------------------------
(* Accounts, the clock and the process.                                    *)

\* createAccount: the id is one more than the largest in the table.
Signup(a) ==
  /\ a - 1 \in Rows \cup {0} /\ \A b \in Rows : b < a
  /\ owners < MaxOwners
  /\ owners' = owners + 1
  /\ row' = [row EXCEPT ![a] = NewRow(owners + 1, now + TrialLen)]
  /\ UNCHANGED <<now, req, del, stripeVars, events, asked, gone, raced, crashes>>

Advance ==
  /\ now < MaxTime
  /\ now' = now + 1
  /\ UNCHANGED <<row, req, del, stripeVars, events, history>>

NoReq == [pc |-> "idle", acct |-> 0, owner |-> 0, cust |-> None, carry |-> None]
NoDel == [pc |-> "idle", sub |-> None, calm |-> FALSE]

\* The requests and deletions that were waiting are gone.
Restarted ==
  /\ crashes < MaxCrashes
  /\ crashes' = crashes + 1
  /\ req' = [r \in Reqs |-> NoReq]
  /\ del' = [a \in Accts |-> NoDel]
-----------------------------------------------------------------------------
(* Checkout.                                                               *)

Live(s) == subs[s].status # "canceled"
LiveOf(o) == {s \in DOMAIN subs : subs[s].owner = o /\ Live(s)}
Buying(o) == (\E r \in Reqs : req[r].owner = o /\ req[r].pc # "idle")
             \/ (\E s \in sessions : s.owner = o)

\* Mutant of CarriedTrial: the trial is not carried into the subscription.
NoCarriedTrial(b) == None

\* trial_end of the Checkout session: what is left of the trial, if Stripe takes it.
CarriedTrial(b) ==
  IF b.trial # None /\ b.trial - now > MinCarry THEN b.trial ELSE None

\* createCheckoutSession and ensureCustomer up to the first await: guards on the
\* row as it is now, and the customer of the row when there is one.
CheckoutRequest(r, a) ==
  LET b == row[a] IN
  /\ req[r].pc = "idle" /\ asked < MaxAsked
  /\ asked' = asked + 1
  /\ row[a] # None /\ a \notin Exempt
  /\ ~Subscribed(b.status)
  /\ req' = [req EXCEPT ![r] =
       [pc |-> IF b.customer = None THEN "customer" ELSE "session", acct |-> a,
        owner |-> b.owner, cust |-> b.customer, carry |-> CarriedTrial(b)]]
  /\ raced' = IF Buying(b.owner) \/ LiveOf(b.owner) # {} THEN raced \cup {b.owner} ELSE raced
  /\ UNCHANGED <<now, row, del, stripeVars, events, owners, gone, crashes>>

\* customers.create answers: the row that has the id by now gets the new customer.
CustomerCreated(r) ==
  LET c == Len(customers) + 1   a == req[r].acct IN
  /\ req[r].pc = "customer"
  /\ customers' = Append(customers, req[r].owner)
  /\ row' = IF row[a] = None THEN row ELSE [row EXCEPT ![a].customer = c]
  /\ req' = [req EXCEPT ![r].pc = "session", ![r].cust = c]
  /\ raced' = IF row[a] # None /\ row[a].owner # req[r].owner
              THEN raced \cup {row[a].owner} ELSE raced
  /\ UNCHANGED <<now, del, sessions, subs, events, asked, owners, gone, crashes>>

\* checkout.sessions.create answers: the owner has the URL of a session.
SessionCreated(r) ==
  /\ req[r].pc = "session"
  /\ sessions' = sessions \cup {[acct |-> req[r].acct, owner |-> req[r].owner,
                                 cust |-> req[r].cust, carry |-> req[r].carry]}
  /\ req' = [req EXCEPT ![r] = NoReq]
  /\ UNCHANGED <<now, row, del, customers, subs, events, history>>

\* Either call to Stripe fails: BillingError, the request is over.
CheckoutFails(r) ==
  /\ req[r].pc # "idle"
  /\ req' = [req EXCEPT ![r] = NoReq]
  /\ UNCHANGED <<now, row, del, stripeVars, events, history>>
-----------------------------------------------------------------------------
(* Stripe.                                                                 *)

LastSec == IF events = <<>> THEN 0 ELSE Last(events).sec

\* The event of a change: "created" counts seconds, so it may be that of the
\* event before. "to" is the owner whose row it was applied to.
Event(type, s, acct, cust, status, sec) ==
  [type |-> type, sub |-> s, acct |-> acct, cust |-> cust, status |-> status,
   sec |-> sec, fate |-> "due", to |-> 0]
Sync(s, acct, cust, status, sec) == Event("subscription", s, acct, cust, status, sec)

\* The owner pays: the session is complete, there is a subscription. Two events.
Subscribe(x, sec) ==
  LET s == Len(subs) + 1 IN
  /\ x \in sessions /\ s \in SubIds /\ Len(events) + 2 <= MaxEvents
  /\ (x.carry # None => x.carry > now)    \* a session is open for a day
  /\ sessions' = sessions \ {x}
  /\ subs' = Append(subs, [owner |-> x.owner, acct |-> x.acct, cust |-> x.cust,
                           status |-> "active",
                           charged |-> IF x.carry = None THEN now ELSE x.carry])
  /\ events' = events \o <<Event("completed", s, x.acct, x.cust, None, sec),
                           Sync(s, x.acct, x.cust, "active", sec)>>
  /\ raced' = IF LiveOf(x.owner) # {} THEN raced \cup {x.owner} ELSE raced
  /\ UNCHANGED <<now, row, req, del, customers, asked, owners, gone, crashes>>

\* A subscription changes and Stripe writes the event.
Changed(s, status, sec) ==
  /\ subs' = [subs EXCEPT ![s].status = status]
  /\ events' = Append(events, Sync(s, subs[s].acct, subs[s].cust, status, sec))

\* A payment fails or succeeds, or Stripe gives up and cancels.
PaymentChange(s, status, sec) ==
  /\ Len(events) < MaxEvents
  /\ Live(s) /\ subs[s].status # status
  /\ Changed(s, status, sec)
  /\ UNCHANGED <<now, row, req, del, customers, sessions, history>>

\* createPortalSession: the portal of the customer in the row, where the owner
\* cancels any subscription of that customer.
PortalCancel(a, s, sec) ==
  /\ row[a] # None /\ row[a].customer = subs[s].cust
  /\ Len(events) < MaxEvents /\ Live(s)
  /\ Changed(s, "canceled", sec)
  /\ UNCHANGED <<now, row, req, del, customers, sessions, history>>
-----------------------------------------------------------------------------
(* handleStripeWebhook.                                                    *)

\* accountIdFrom: the id in the metadata if there is such a row, or else the
\* row of the customer; 0 when there is neither.
AccountIdFrom(e) ==
  IF e.acct \in Rows THEN e.acct
  ELSE LET byCust == {a \in Rows : row[a].customer = e.cust}
       IN  IF byCust = {} THEN 0 ELSE Min(byCust)

\* The WHERE clause of syncSubscription.
Newer(b, e) == b.updated = None \/ b.updated <= e.sec

\* What an event does to a row: checkout.session.completed links, the others copy.
Applied(b, e) ==
  IF e.type = "completed" THEN [b EXCEPT !.customer = e.cust, !.sub = e.sub]
  ELSE IF ~Newer(b, e) THEN b
  ELSE [b EXCEPT !.customer = IF @ = None THEN e.cust ELSE @,
                 !.sub = e.sub, !.status = e.status, !.updated = e.sec]

\* The claim in stripe_events is new, and the event is applied or unmatched.
\* A delivery of an event that was claimed changes nothing; neither does one
\* that fails, as the claim is taken back.
Deliver(i) ==
  LET e == events[i]   a == AccountIdFrom(events[i]) IN
  /\ e.fate = "due"
  /\ events' = [events EXCEPT ![i].fate = IF a = 0 THEN "unmatched" ELSE "applied",
                              ![i].to = IF a = 0 THEN 0 ELSE row[a].owner]
  /\ row' = IF a = 0 THEN row ELSE [row EXCEPT ![a] = Applied(@, e)]
  /\ UNCHANGED <<now, req, del, stripeVars, history>>

\* The process stops between the claim and the UPDATE: what is delivered again
\* is a duplicate.
CrashInWebhook(i) ==
  /\ events[i].fate = "due"
  /\ Restarted
  /\ events' = [events EXCEPT ![i].fate = "lost"]
  /\ UNCHANGED <<now, row, stripeVars, asked, owners, gone, raced>>
-----------------------------------------------------------------------------
(* deleteAccount.                                                          *)

EventsOf(a) == {i \in DOMAIN events : events[i].acct = a}

\* Stripe and the row had the time and the means to agree: the row has every
\* event about the subscriptions of its owner and none about those of another,
\* and no two subscriptions changed in the same second.
Settled(a) ==
  /\ \A i \in EventsOf(a) : (subs[events[i].sub].owner = row[a].owner)
                              <=> (events[i].to = row[a].owner)
  /\ \A i, j \in EventsOf(a) : events[i].sec = events[j].sec => events[i].sub = events[j].sub

\* Mutant of MustCancel: an unpaid subscription is left to Stripe.
MustCancelPaid(b) == b.sub # None /\ Subscribed(b.status)

MustCancel(b) == b.sub # None /\ b.status # "canceled"

\* The transaction: whatever row has this id by now is deleted.
DeleteRows(a, calm) ==
  /\ row' = [row EXCEPT ![a] = None]
  /\ gone' = gone \cup IF row[a] = None THEN {} ELSE {[owner |-> row[a].owner, calm |-> calm]}

\* The row is read. The subscription it names is cancelled first, or else the
\* rows go at once.
DeleteRequest(a) ==
  LET b == row[a]   calm == Settled(a) /\ ~Buying(b.owner) IN
  /\ row[a] # None /\ a \notin Exempt /\ del[a].pc = "idle"
  /\ IF MustCancel(b)
     THEN /\ del' = [del EXCEPT ![a] = [pc |-> "cancel", sub |-> b.sub, calm |-> calm]]
          /\ UNCHANGED <<row, gone>>
     ELSE DeleteRows(a, calm) /\ UNCHANGED del
  /\ UNCHANGED <<now, req, stripeVars, events, asked, owners, raced, crashes>>

\* subscriptions.cancel answers, and the rows go without another await.
CancelAnswers(a, sec) ==
  /\ del[a].pc = "cancel" /\ Live(del[a].sub) /\ Len(events) < MaxEvents
  /\ Changed(del[a].sub, "canceled", sec)
  /\ DeleteRows(a, del[a].calm)
  /\ del' = [del EXCEPT ![a] = NoDel]
  /\ UNCHANGED <<now, req, customers, sessions, asked, owners, raced, crashes>>

\* Stripe does not answer, or refuses as the subscription is cancelled already:
\* AccountDeletionError, nothing is deleted.
CancelRefused(a) ==
  /\ del[a].pc = "cancel"
  /\ del' = [del EXCEPT ![a] = NoDel]
  /\ UNCHANGED <<now, row, req, stripeVars, events, history>>
-----------------------------------------------------------------------------
Init ==
  /\ now = 0
  /\ row = [a \in Accts |-> IF a \in Exempt THEN NewRow(0, None) ELSE None]
  /\ req = [r \in Reqs |-> NoReq]
  /\ del = [a \in Accts |-> NoDel]
  /\ customers = <<>> /\ sessions = {} /\ subs = <<>> /\ events = <<>>
  /\ asked = 0 /\ owners = 0 /\ gone = {} /\ raced = {} /\ crashes = 0

\* The second of the next event: that of the event before, or the one after.
Secs == {LastSec, LastSec + 1}

Stripe ==
  \/ \E x \in sessions, sec \in Secs : Subscribe(x, sec)
  \/ \E s \in DOMAIN subs, sec \in Secs :
       \/ \E status \in Statuses : PaymentChange(s, status, sec)
       \/ \E a \in Accts : PortalCancel(a, s, sec)

Webhook == \E i \in DOMAIN events : Deliver(i) \/ CrashInWebhook(i)

Checkout ==
  \E r \in Reqs : \/ \E a \in Accts : CheckoutRequest(r, a)
                  \/ CustomerCreated(r) \/ SessionCreated(r) \/ CheckoutFails(r)

Deletion ==
  \E a \in Accts : \/ DeleteRequest(a) \/ CancelRefused(a)
                   \/ \E sec \in Secs : CancelAnswers(a, sec)

Next ==
  \/ Advance \/ \E a \in Accts : Signup(a)
  \/ Checkout \/ Stripe \/ Webhook \/ Deletion

Spec == Init /\ [][Next]_vars

-----------------------------------------------------------------------------
(* Properties.                                                             *)

RowType ==
  [owner : 0 .. MaxOwners, trial : Nat \cup {None}, customer : Nat \cup {None},
   sub : SubIds \cup {None}, status : Statuses \cup {None}, updated : Nat \cup {None}]

\* NULL stands for the row that is not there.
ASSUME NoneIsNoRow == None \notin RowType

\* Type invariant: the accounts row, the requests that wait and what Stripe holds.
TypeOK ==
  /\ now \in Time
  /\ row \in [Accts -> RowType \cup {None}]
  /\ \A r \in Reqs : req[r].pc \in {"idle", "customer", "session"}
  /\ \A a \in Accts : del[a].pc \in {"idle", "cancel"}
  /\ \A c \in DOMAIN customers : customers[c] \in Owners
  /\ DOMAIN subs \subseteq SubIds /\ Len(events) <= MaxEvents
  /\ \A i \in DOMAIN events : /\ events[i].sub \in DOMAIN subs
                              /\ events[i].fate \in {"due", "applied", "unmatched", "lost"}
  /\ raced \subseteq Owners /\ asked \in 0 .. MaxAsked /\ owners \in 0 .. MaxOwners /\ crashes \in 0 .. MaxCrashes

\* An owner who bought one subscription and never two at once sees in the row
\* what Stripe has, the customer of the portal included, once the events have
\* arrived, in whatever order, and may use the account while it is paid or the
\* trial lasts. (Events of one second may still leave an older status.)
SettledIsStripe ==
  \A a \in Rows \ Exempt, s \in DOMAIN subs :
    (/\ subs[s].owner = row[a].owner /\ row[a].owner \notin raced
     /\ \A t \in DOMAIN subs : subs[t].owner = subs[s].owner => t = s
     /\ Settled(a) /\ ~Buying(row[a].owner)
     /\ \A i, j \in EventsOf(a) :
          events[i].sec = events[j].sec => events[i].type # events[j].type \/ i = j)
    => /\ row[a].sub = s /\ row[a].customer = subs[s].cust
       /\ row[a].status = subs[s].status
       /\ Entitled(row[a]) <=> (subs[s].status = "active" \/ now < row[a].trial)

\* A subscription bought during the trial is not charged before the trial ends,
\* but for the 48 hours that Stripe does not take (createCheckoutSession).
NoEarlyCharge ==
  \A a \in Rows, s \in DOMAIN subs :
    subs[s].owner = row[a].owner /\ row[a].trial # None
      => subs[s].charged + MinCarry >= row[a].trial

\* An account deleted when Stripe had nothing more to tell about it and nothing
\* else was being bought leaves no subscription that goes on charging.
DeletedNotCharged ==
  \A g \in gone : g.calm /\ g.owner \notin raced => LiveOf(g.owner) = {}

\* What account-deletion.ts:5 says without the conditions: nobody is charged
\* whose data is gone.
NeverChargedWhenGone == \A g \in gone : LiveOf(g.owner) = {}

=============================================================================
