---------------------------- MODULE Billing_proofs ----------------------------
(***************************************************************************)
(* What Billing promises, for every number of accounts, owners, checkouts, *)
(* subscriptions, events and restarts: a trial is carried into what is     *)
(* bought, the row is what Stripe has once the events have arrived, and a  *)
(* deleted account is not charged. Typed is what every state satisfies;    *)
(* Own, Told, Copied, OneAtATime, OneCustomer, Cancelling and GoneQuiet    *)
(* are the parts of the inductive invariant, each with its own section.    *)
(***************************************************************************)
EXTENDS Billing, TLAPS

EventType == [type : {"completed", "subscription"}, sub : SubIds, acct : Accts, cust : Nat,
              status : Statuses \cup {None}, sec : Nat, fate : {"due", "applied", "unmatched", "lost"},
              to : 0 .. MaxOwners]
SubType == [owner : Owners, acct : Accts, cust : Nat, status : Statuses, charged : Nat]
SessionType == [acct : Accts, owner : Owners, cust : Nat, carry : Nat \cup {None}]
ReqType == [pc : {"idle", "customer", "session"}, acct : Accts \cup {0}, owner : 0 .. MaxOwners,
            cust : Nat \cup {None}, carry : Nat \cup {None}]
DelType == [pc : {"idle", "cancel"}, sub : SubIds \cup {None}, calm : BOOLEAN]

\* The row names a customer and a subscription of Stripe; the operator's rows have no trial.
\* o, c and s are how many owners, customers and subscriptions there are.
RowOK(a, b, o, c, s) ==
  /\ b \in RowType /\ b.owner <= o
  /\ b.customer # None => b.customer \in 1 .. c
  /\ b.sub # None => b.sub \in 1 .. s
  /\ IF a \in Exempt THEN b.owner = 0 /\ b.trial = None ELSE b.owner # 0 /\ b.trial # None

RowsOK ==
  /\ row \in [Accts -> RowType \cup {None}] /\ Exempt \subseteq Rows
  /\ \A a \in Rows : RowOK(a, row[a], owners, Len(customers), Len(subs))

ReqOK(x, o, c) ==
  /\ x \in ReqType
  /\ x.pc # "idle" => /\ x.acct \in Accts \ Exempt /\ x.owner \in 1 .. o
                      /\ x.pc = "session" => x.cust \in 1 .. c

ReqsOK == req \in [Reqs -> ReqType] /\ \A r \in Reqs : ReqOK(req[r], owners, Len(customers))

BoughtOK(x, o, c) == x.owner <= o /\ x.cust \in 1 .. c /\ x.acct \notin Exempt

StripeOK ==
  /\ customers \in Seq(Owners)
  /\ sessions \subseteq SessionType /\ \A x \in sessions : BoughtOK(x, owners, Len(customers))
  /\ subs \in Seq(SubType) /\ Len(subs) <= MaxSubs
  /\ \A s \in 1 .. Len(subs) : BoughtOK(subs[s], owners, Len(customers))

\* An event is of a subscription.
EventOK(e, q, o) ==
  e.sub \in 1 .. Len(q) /\ e.acct = q[e.sub].acct /\ e.cust = q[e.sub].cust /\ e.to <= o

EventsOK ==
  /\ events \in Seq(EventType) /\ Len(events) <= MaxEvents
  /\ \A i \in 1 .. Len(events) : EventOK(events[i], subs, owners)

DelsOK ==
  /\ del \in [Accts -> DelType]
  /\ \A a \in Accts : del[a].pc = "cancel" => a \in Rows \ Exempt /\ del[a].sub \in 1 .. Len(subs)

HistoryOK ==
  /\ now \in Time /\ asked \in 0 .. MaxAsked /\ owners \in 0 .. MaxOwners /\ crashes \in 0 .. MaxCrashes
  /\ raced \subseteq Owners /\ gone \subseteq [owner : Nat, calm : BOOLEAN] /\ \A g \in gone : g.owner <= owners

\* A customer is made for one account id, and what is bought for it is for that id.
HomeOK ==
  \E home \in [1 .. Len(customers) -> Accts] :
    /\ \A a \in Rows : row[a].customer # None => home[row[a].customer] = a
    /\ \A r \in Reqs : req[r].pc = "session" => home[req[r].cust] = req[r].acct
    /\ \A x \in sessions : home[x.cust] = x.acct
    /\ \A s \in 1 .. Len(subs) : home[subs[s].cust] = subs[s].acct

Typed == RowsOK /\ ReqsOK /\ StripeOK /\ EventsOK /\ DelsOK /\ HistoryOK /\ HomeOK
-----------------------------------------------------------------------------
LEMMA Constants ==
  /\ None \notin Nat /\ Accts \subseteq Nat \ {0} /\ Exempt \subseteq Accts /\ TrialLen \in Nat /\ MinCarry \in Nat
  /\ MaxTime \in Nat /\ MaxOwners \in Nat /\ MaxAsked \in Nat /\ MaxSubs \in Nat /\ MaxEvents \in Nat
  /\ MaxCrashes \in Nat /\ None \notin RowType
  BY BillingConstantsOK, NoneIsNoRow

LEMMA Records ==
  /\ NoReq \in ReqType /\ NoReq.pc = "idle" /\ NoDel \in DelType /\ NoDel.pc = "idle"
  BY Constants DEF NoReq, NoDel, ReqType, DelType

LEMMA Domains ==
  ASSUME Typed
  PROVE  /\ DOMAIN events = 1 .. Len(events) /\ DOMAIN subs = 1 .. Len(subs) /\ DOMAIN customers = 1 .. Len(customers)
         /\ Len(events) \in Nat /\ Len(subs) \in Nat /\ Len(customers) \in Nat /\ owners \in Nat /\ now \in Nat
         /\ \A i \in 1 .. Len(events) : events[i] \in EventType
         /\ \A s \in 1 .. Len(subs) : subs[s] \in SubType
         /\ \A c \in 1 .. Len(customers) : customers[c] \in Owners
  BY Constants DEF Typed, EventsOK, StripeOK, HistoryOK, Time

LEMMA EventFields ==
  ASSUME Typed, NEW i \in 1 .. Len(events)
  PROVE  /\ events[i].to \in Nat /\ events[i].sec \in Nat /\ events[i].sub \in 1 .. Len(subs)
         /\ events[i].acct = subs[events[i].sub].acct /\ events[i].cust = subs[events[i].sub].cust
         /\ events[i].to <= owners /\ events[i].acct \in Accts \ Exempt /\ events[i].cust \in 1 .. Len(customers)
         /\ events[i] \in EventType
<1>1. events[i] \in EventType /\ EventOK(events[i], subs, owners)
  BY Domains DEF Typed, EventsOK
<1>2. events[i].to \in 0 .. MaxOwners /\ events[i].sec \in Nat /\ events[i].acct \in Accts
  BY <1>1 DEF EventType
<1>3. events[i].to \in Nat
  BY <1>2, Constants
<1>4. BoughtOK(subs[events[i].sub], owners, Len(customers))
  BY <1>1 DEF EventOK, Typed, StripeOK
<1> QED BY <1>1, <1>2, <1>3, <1>4 DEF EventOK, BoughtOK

LEMMA SubFields ==
  ASSUME Typed, NEW s \in 1 .. Len(subs)
  PROVE  /\ subs[s].owner \in Nat /\ subs[s].owner >= 1 /\ subs[s].owner <= owners /\ subs[s].owner \in Owners
         /\ subs[s].cust \in 1 .. Len(customers) /\ subs[s].acct \in Accts \ Exempt
         /\ subs[s].charged \in Nat /\ subs[s].status \in Statuses /\ subs[s] \in SubType
<1>1. subs[s] \in SubType /\ BoughtOK(subs[s], owners, Len(customers))
  BY Domains DEF Typed, StripeOK
<1>2. subs[s].owner \in 1 .. MaxOwners /\ subs[s].acct \in Accts /\ subs[s].charged \in Nat /\ subs[s].status \in Statuses
  BY <1>1 DEF SubType, Owners
<1>3. subs[s].owner \in Nat /\ subs[s].owner >= 1
  BY <1>2, Constants
<1> QED BY <1>1, <1>2, <1>3 DEF BoughtOK, Owners

LEMMA SessionFields ==
  ASSUME Typed, NEW x \in sessions
  PROVE  /\ x.owner \in Nat /\ x.owner >= 1 /\ x.owner <= owners /\ x.owner \in Owners
         /\ x.cust \in 1 .. Len(customers) /\ x.acct \in Accts \ Exempt
         /\ x.carry \in Nat \cup {None} /\ x \in SessionType
<1>1. x \in SessionType /\ BoughtOK(x, owners, Len(customers))
  BY DEF Typed, StripeOK
<1>2. x.owner \in 1 .. MaxOwners /\ x.acct \in Accts /\ x.carry \in Nat \cup {None}
  BY <1>1 DEF SessionType, Owners
<1>3. x.owner \in Nat /\ x.owner >= 1
  BY <1>2, Constants
<1> QED BY <1>1, <1>2, <1>3 DEF BoughtOK, Owners

LEMMA ReqFields ==
  ASSUME Typed, NEW r \in Reqs, req[r].pc # "idle"
  PROVE  /\ req[r].owner \in Nat /\ req[r].owner >= 1 /\ req[r].owner <= owners /\ req[r].owner \in Owners
         /\ req[r].acct \in Accts \ Exempt /\ req[r].pc \in {"customer", "session"}
         /\ req[r].pc = "session" => req[r].cust \in 1 .. Len(customers)
         /\ req[r].carry \in Nat \cup {None} /\ req[r] \in ReqType
<1>1. req[r] \in ReqType /\ ReqOK(req[r], owners, Len(customers))
  BY DEF Typed, ReqsOK
<1>2. req[r].owner \in 0 .. MaxOwners /\ req[r].carry \in Nat \cup {None} /\ req[r].pc \in {"customer", "session"}
  BY <1>1 DEF ReqType
<1>3. req[r].owner \in 1 .. owners /\ owners \in 0 .. MaxOwners
  BY <1>1 DEF ReqOK, Typed, HistoryOK
<1>4. req[r].owner \in Owners
  BY <1>3, Constants DEF Owners
<1> QED BY <1>1, <1>2, <1>3, <1>4, Domains DEF ReqOK

LEMMA RowFields ==
  ASSUME Typed, NEW a \in Accts, row[a] # None
  PROVE  /\ a \in Rows /\ row[a] \in RowType /\ row[a].owner \in Nat /\ row[a].owner <= owners
         /\ row[a].customer # None => row[a].customer \in 1 .. Len(customers)
         /\ row[a].sub # None => row[a].sub \in 1 .. Len(subs)
         /\ a \in Exempt => row[a].owner = 0 /\ row[a].trial = None
         /\ a \notin Exempt => /\ row[a].owner >= 1 /\ row[a].owner \in Owners
                               /\ row[a].trial # None /\ row[a].trial \in Nat
         /\ RowOK(a, row[a], owners, Len(customers), Len(subs))
<1>1. a \in Rows /\ RowOK(a, row[a], owners, Len(customers), Len(subs))
  BY DEF Typed, RowsOK, Rows
<1>2. row[a].owner \in 0 .. MaxOwners /\ row[a].trial \in Nat \cup {None}
  BY <1>1 DEF RowOK, RowType
<1>3. row[a].owner \in Nat /\ (row[a].owner # 0 => row[a].owner >= 1 /\ row[a].owner \in Owners)
  BY <1>2, Constants DEF Owners
<1> QED BY <1>1, <1>2, <1>3 DEF RowOK

LEMMA Appended ==
  ASSUME NEW S, NEW q \in Seq(S), NEW e \in S
  PROVE  /\ Append(q, e) \in Seq(S) /\ Len(Append(q, e)) = Len(q) + 1
         /\ \A i \in 1 .. Len(q) : Append(q, e)[i] = q[i]
         /\ Append(q, e)[Len(q) + 1] = e
  OBVIOUS

LEMMA Replaced ==
  ASSUME NEW S, NEW q \in Seq(S), NEW i \in 1 .. Len(q), NEW e \in S
  PROVE  /\ [q EXCEPT ![i] = e] \in Seq(S) /\ Len([q EXCEPT ![i] = e]) = Len(q)
         /\ [q EXCEPT ![i] = e][i] = e
         /\ \A j \in 1 .. Len(q) : j # i => [q EXCEPT ![i] = e][j] = q[j]
  OBVIOUS

LEMMA AppendedTwo ==
  ASSUME NEW S, NEW q \in Seq(S), NEW e \in S, NEW f \in S
  PROVE  /\ q \o <<e, f>> \in Seq(S) /\ Len(q \o <<e, f>>) = Len(q) + 2
         /\ \A i \in 1 .. Len(q) : (q \o <<e, f>>)[i] = q[i]
         /\ (q \o <<e, f>>)[Len(q) + 1] = e /\ (q \o <<e, f>>)[Len(q) + 2] = f
  OBVIOUS

\* There come to be more owners, customers and subscriptions, never fewer.
Grow ==
  /\ owners \in Nat /\ owners' \in Nat /\ owners <= owners'
  /\ Len(customers) \in Nat /\ Len(customers') \in Nat /\ Len(customers) <= Len(customers')
  /\ Len(subs) \in Nat /\ Len(subs') \in Nat /\ Len(subs) <= Len(subs')

LEMMA RowGrows ==
  ASSUME Grow, NEW a, NEW b, RowOK(a, b, owners, Len(customers), Len(subs))
  PROVE  RowOK(a, b, owners', Len(customers'), Len(subs'))
<1>1. b.owner \in Nat
  BY Constants DEF RowOK, RowType
<1> QED BY <1>1 DEF RowOK, Grow

LEMMA RowsStep ==
  ASSUME Typed, Grow, row' \in [Accts -> RowType \cup {None}],
         \A a \in Accts : \/ row'[a] = row[a] \/ (row'[a] = None /\ a \notin Exempt)
                          \/ RowOK(a, row'[a], owners', Len(customers'), Len(subs'))
  PROVE  RowsOK'
<1>1. ASSUME NEW a \in Accts, row'[a] # None PROVE RowOK(a, row'[a], owners', Len(customers'), Len(subs'))
  <2>1. CASE row'[a] = row[a]
    <3>1. RowOK(a, row[a], owners, Len(customers), Len(subs))
      BY <1>1, <2>1 DEF Typed, RowsOK, Rows
    <3> QED BY <2>1, <3>1, RowGrows
  <2> QED BY <1>1, <2>1
<1>2. ASSUME NEW a \in Exempt PROVE a \in Rows'
  <2>1. a \in Accts /\ row[a] # None
    BY Constants DEF Typed, RowsOK, Rows
  <2>2. row'[a] # None
    <3>1. CASE RowOK(a, row'[a], owners', Len(customers'), Len(subs'))
      BY <3>1, Constants DEF RowOK
    <3> QED BY <2>1, <3>1
  <2> QED BY <2>1, <2>2 DEF Rows
<1> QED BY <1>1, <1>2 DEF RowsOK, Rows

LEMMA ReqsStep ==
  ASSUME Typed, Grow, req' \in [Reqs -> ReqType],
         \A r \in Reqs : req'[r] = req[r] \/ ReqOK(req'[r], owners', Len(customers'))
  PROVE  ReqsOK'
<1>1. ASSUME NEW r \in Reqs PROVE ReqOK(req'[r], owners', Len(customers'))
  <2>1. CASE req'[r] = req[r]
    BY <2>1 DEF Typed, ReqsOK, ReqOK, Grow
  <2> QED BY <2>1
<1> QED BY <1>1 DEF ReqsOK

LEMMA NoReqOK == \A o, c : ReqOK(NoReq, o, c)
  BY Records DEF ReqOK

LEMMA StripeStep ==
  ASSUME Typed, Grow, customers' \in Seq(Owners), sessions' \subseteq SessionType,
         subs' \in Seq(SubType), Len(subs') <= MaxSubs,
         \A x \in sessions' : x \in sessions \/ BoughtOK(x, owners', Len(customers')),
         \A s \in 1 .. Len(subs') :
           \/ s \in 1 .. Len(subs) /\ subs'[s].owner = subs[s].owner /\ subs'[s].cust = subs[s].cust
              /\ subs'[s].acct = subs[s].acct
           \/ BoughtOK(subs'[s], owners', Len(customers'))
  PROVE  StripeOK'
<1>1. ASSUME NEW x \in sessions' PROVE BoughtOK(x, owners', Len(customers'))
  <2>1. CASE x \in sessions
    <3>1. x \in SessionType /\ BoughtOK(x, owners, Len(customers))
      BY <2>1 DEF Typed, StripeOK
    <3>2. x.owner \in Owners /\ x.cust \in Nat
      BY <3>1 DEF SessionType
    <3>3. x.owner \in Nat
      BY <3>2, Constants DEF Owners
    <3> QED BY <3>1, <3>2, <3>3 DEF BoughtOK, Grow
  <2> QED BY <2>1
<1>2. ASSUME NEW s \in 1 .. Len(subs') PROVE BoughtOK(subs'[s], owners', Len(customers'))
  <2>1. CASE s \in 1 .. Len(subs) /\ subs'[s].owner = subs[s].owner /\ subs'[s].cust = subs[s].cust
             /\ subs'[s].acct = subs[s].acct
    <3>1. subs[s] \in SubType /\ BoughtOK(subs[s], owners, Len(customers))
      BY <2>1, Domains DEF Typed, StripeOK
    <3>2. subs[s].owner \in Owners /\ subs[s].cust \in Nat
      BY <3>1 DEF SubType
    <3>3. subs[s].owner \in Nat
      BY <3>2, Constants DEF Owners
    <3>4. BoughtOK(subs[s], owners', Len(customers'))
      BY <3>1, <3>2, <3>3 DEF BoughtOK, Grow
    <3> QED BY <2>1, <3>4 DEF BoughtOK
  <2> QED BY <2>1
<1> QED BY <1>1, <1>2 DEF StripeOK

LEMMA EventsStep ==
  ASSUME Typed, Grow, events' \in Seq(EventType), Len(events') <= MaxEvents,
         \A s \in 1 .. Len(subs) : subs'[s].cust = subs[s].cust /\ subs'[s].acct = subs[s].acct,
         \A i \in 1 .. Len(events') :
           \/ i \in 1 .. Len(events) /\ events'[i].sub = events[i].sub /\ events'[i].acct = events[i].acct
              /\ events'[i].cust = events[i].cust /\ events'[i].to \in {events[i].to} \cup 0 .. owners
           \/ EventOK(events'[i], subs', owners')
  PROVE  EventsOK'
<1>1. ASSUME NEW i \in 1 .. Len(events') PROVE EventOK(events'[i], subs', owners')
  <2>1. CASE i \in 1 .. Len(events) /\ events'[i].sub = events[i].sub /\ events'[i].acct = events[i].acct
             /\ events'[i].cust = events[i].cust /\ events'[i].to \in {events[i].to} \cup 0 .. owners
    <3>0. EventOK(events[i], subs, owners)
      BY <2>1 DEF Typed, EventsOK
    <3>1. EventOK(events[i], subs, owners) /\ events[i].to \in Nat
      BY <2>1, <3>0, EventFields
    <3>2. events[i].sub \in 1 .. Len(subs')
      BY <3>1 DEF EventOK, Grow
    <3>3. events'[i].to <= owners'
      BY <2>1, <3>1 DEF EventOK, Grow
    <3> QED BY <2>1, <3>1, <3>2, <3>3 DEF EventOK
  <2> QED BY <2>1
<1> QED BY <1>1 DEF EventsOK

\* Rows that stay where they were, and subscriptions that only change their status.
LEMMA DelsStep ==
  ASSUME Typed, Grow, del' \in [Accts -> DelType],
         \A a \in Accts : \/ del'[a].pc = "idle"
                          \/ del'[a] = del[a] /\ (a \in Rows => a \in Rows')
                          \/ a \in Rows' \ Exempt /\ del'[a].sub \in 1 .. Len(subs')
  PROVE  DelsOK'
  BY DEF Typed, DelsOK, Grow

LEMMA HomeStays ==
  ASSUME Typed, customers' = customers, req' \in [Reqs -> ReqType],
         \A a \in Rows' : row'[a].customer # None =>
            \/ a \in Rows /\ row'[a].customer = row[a].customer
            \/ \E s \in 1 .. Len(subs) : row'[a].customer = subs[s].cust /\ a = subs[s].acct,
         \A r \in Reqs : \/ req'[r].pc # "session"
                         \/ req[r].pc = "session" /\ req'[r].acct = req[r].acct /\ req'[r].cust = req[r].cust
                         \/ \E a \in Rows : row[a].customer # None /\ req'[r].cust = row[a].customer /\ req'[r].acct = a,
         \A x \in sessions' : \/ x \in sessions
                              \/ \E r \in Reqs : req[r].pc = "session" /\ x.acct = req[r].acct /\ x.cust = req[r].cust,
         \A s \in 1 .. Len(subs') :
           \/ s \in 1 .. Len(subs) /\ subs'[s].cust = subs[s].cust /\ subs'[s].acct = subs[s].acct
           \/ \E x \in sessions : subs'[s].cust = x.cust /\ subs'[s].acct = x.acct
  PROVE  HomeOK'
<1>1. PICK home \in [1 .. Len(customers) -> Accts] :
        /\ \A a \in Rows : row[a].customer # None => home[row[a].customer] = a
        /\ \A r \in Reqs : req[r].pc = "session" => home[req[r].cust] = req[r].acct
        /\ \A x \in sessions : home[x.cust] = x.acct
        /\ \A s \in 1 .. Len(subs) : home[subs[s].cust] = subs[s].acct
  BY DEF Typed, HomeOK
<1>2. \A a \in Rows' : row'[a].customer # None => home[row'[a].customer] = a
  BY <1>1
<1>3. \A r \in Reqs : req'[r].pc = "session" => home[req'[r].cust] = req'[r].acct
  BY <1>1
<1>4. \A x \in sessions' : home[x.cust] = x.acct
  BY <1>1
<1>5. \A s \in 1 .. Len(subs') : home[subs'[s].cust] = subs'[s].acct
  BY <1>1
<1>6. home \in [1 .. Len(customers') -> Accts]
  OBVIOUS
<1> QED BY <1>2, <1>3, <1>4, <1>5, <1>6 DEF HomeOK

\* An event is applied to the row of the account it was made for, or to none.
LEMMA WebhookRow ==
  ASSUME Typed, NEW i \in 1 .. Len(events)
  PROVE  LET a == AccountIdFrom(events[i])
         IN  \/ a = 0 /\ events[i].acct \notin Rows
             \/ a = events[i].acct /\ a \in Rows /\ a \in Accts \ Exempt /\ a # 0
<1> DEFINE e == events[i]
<1>1. e.acct \in Accts \ Exempt /\ e.cust \in Nat /\ e.sub \in 1 .. Len(subs) /\ e.acct # 0
      /\ e.acct = subs[e.sub].acct /\ e.cust = subs[e.sub].cust
  BY EventFields, Domains, Constants
<1>2. CASE e.acct \in Rows
  BY <1>1, <1>2 DEF AccountIdFrom
<1>3. CASE e.acct \notin Rows
  <2>1. PICK home \in [1 .. Len(customers) -> Accts] :
          /\ \A a \in Rows : row[a].customer # None => home[row[a].customer] = a
          /\ \A s \in 1 .. Len(subs) : home[subs[s].cust] = subs[s].acct
    BY DEF Typed, HomeOK
  <2>2. \A a \in Rows : row[a].customer # e.cust
    BY <1>1, <1>3, <2>1, Constants
  <2>3. {a \in Rows : row[a].customer = e.cust} = {}
    BY <2>2
  <2>4. AccountIdFrom(e) = 0
    BY <1>3, <2>3 DEF AccountIdFrom
  <2> QED BY <1>3, <2>4
<1> QED BY <1>2, <1>3

\* What an event does to a row.
LEMMA AppliedRow ==
  ASSUME NEW b \in RowType, NEW e \in EventType
  PROVE  /\ Applied(b, e) \in RowType
         /\ Applied(b, e).owner = b.owner /\ Applied(b, e).trial = b.trial
         /\ e.type = "completed" => /\ Applied(b, e).customer = e.cust /\ Applied(b, e).sub = e.sub
                                    /\ Applied(b, e).status = b.status /\ Applied(b, e).updated = b.updated
         /\ e.type # "completed" /\ ~Newer(b, e) => Applied(b, e) = b
         /\ e.type # "completed" /\ Newer(b, e) =>
              /\ Applied(b, e).customer = (IF b.customer = None THEN e.cust ELSE b.customer)
              /\ Applied(b, e).sub = e.sub /\ Applied(b, e).status = e.status /\ Applied(b, e).updated = e.sec
<1>1. /\ e.cust \in Nat /\ e.sub \in SubIds /\ e.status \in Statuses \cup {None} /\ e.sec \in Nat
  BY DEF EventType
<1>2. CASE e.type = "completed"
  <2>1. Applied(b, e) = [b EXCEPT !.customer = e.cust, !.sub = e.sub]
    BY <1>2 DEF Applied
  <2> QED BY <1>1, <1>2, <2>1 DEF RowType
<1>3. CASE e.type # "completed" /\ ~Newer(b, e)
  <2>1. Applied(b, e) = b
    BY <1>3 DEF Applied
  <2> QED BY <1>3, <2>1
<1>4. CASE e.type # "completed" /\ Newer(b, e)
  <2> DEFINE c == IF b.customer = None THEN e.cust ELSE b.customer
  <2>1. Applied(b, e) = [b EXCEPT !.customer = c, !.sub = e.sub, !.status = e.status, !.updated = e.sec]
    BY <1>4 DEF Applied
  <2>2. c \in Nat \cup {None}
    BY <1>1 DEF RowType
  <2>3. c = (IF b.customer = None THEN e.cust ELSE b.customer)
    OBVIOUS
  <2> HIDE DEF c
  <2>4. /\ Applied(b, e) \in RowType /\ Applied(b, e).owner = b.owner /\ Applied(b, e).trial = b.trial
        /\ Applied(b, e).customer = c /\ Applied(b, e).sub = e.sub /\ Applied(b, e).status = e.status
        /\ Applied(b, e).updated = e.sec
    BY <1>1, <2>1, <2>2 DEF RowType
  <2> QED BY <1>4, <2>3, <2>4
<1> QED BY <1>2, <1>3, <1>4

LEMMA TypedInit == Init => Typed
<1> SUFFICES ASSUME Init PROVE Typed
  OBVIOUS
<1>1. NewRow(0, None) \in RowType
  BY Constants DEF NewRow, RowType
<1>2. \A a \in Accts : row[a] = IF a \in Exempt THEN NewRow(0, None) ELSE None
  BY DEF Init
<1>3. /\ Len(customers) = 0 /\ Len(subs) = 0 /\ Len(events) = 0 /\ owners = 0
      /\ customers \in Seq(Owners) /\ subs \in Seq(SubType) /\ events \in Seq(EventType) /\ sessions = {}
  BY DEF Init
<1>4. RowsOK
  <2>1. row \in [Accts -> RowType \cup {None}]
    BY <1>1 DEF Init
  <2>2. ASSUME NEW a \in Rows PROVE a \in Exempt /\ row[a] = NewRow(0, None)
    BY <1>2, <2>2 DEF Rows
  <2>3. /\ NewRow(0, None).owner = 0 /\ NewRow(0, None).trial = None /\ NewRow(0, None).customer = None
        /\ NewRow(0, None).sub = None
    BY DEF NewRow
  <2>4. Exempt \subseteq Rows
    BY <1>1, <1>2, Constants DEF Rows
  <2> QED BY <1>1, <1>3, <2>1, <2>2, <2>3, <2>4 DEF RowsOK, RowOK
<1>5. ReqsOK
  BY NoReqOK, Records DEF Init, ReqsOK
<1>6. StripeOK
  BY <1>3, Constants DEF StripeOK
<1>7. EventsOK
  BY <1>3, Constants DEF EventsOK
<1>8. DelsOK
  BY Records DEF Init, DelsOK
<1>9. HistoryOK
  BY Constants DEF Init, HistoryOK, Time
<1>10. HomeOK
  <2> DEFINE home == [c \in 1 .. Len(customers) |-> CHOOSE a \in Accts : TRUE]
  <2>0. 1 .. Len(customers) = {}
    BY <1>3
  <2>1. home \in [1 .. Len(customers) -> Accts]
    BY <2>0
  <2>2. \A a \in Rows : row[a].customer = None
    BY <1>2 DEF Rows, NewRow
  <2>3. \A r \in Reqs : req[r].pc = "idle"
    BY Records DEF Init
  <2> HIDE DEF home
  <2>4. 1 .. Len(subs) = {}
    BY <1>3
  <2>5. /\ \A a \in Rows : row[a].customer # None => home[row[a].customer] = a
        /\ \A r \in Reqs : req[r].pc = "session" => home[req[r].cust] = req[r].acct
        /\ \A x \in sessions : home[x.cust] = x.acct
        /\ \A s \in 1 .. Len(subs) : home[subs[s].cust] = subs[s].acct
    BY <1>3, <2>2, <2>3, <2>4
  <2> QED BY <2>1, <2>5 DEF HomeOK
<1> QED BY <1>4, <1>5, <1>6, <1>7, <1>8, <1>9, <1>10 DEF Typed
-----------------------------------------------------------------------------
(* What the actions do, in terms of the parts.                             *)

\* A row keeps its owner and its trial.
RowsKeep == \A a \in Rows' : a \in Rows /\ row'[a].owner = row[a].owner /\ row'[a].trial = row[a].trial

LEMMA SignupTyped ==
  ASSUME Typed, NEW a \in Accts, Signup(a)
  PROVE  /\ Typed' /\ a \notin Rows /\ a \notin Exempt /\ owners' = owners + 1 /\ owners + 1 \in Owners
         /\ row' = [row EXCEPT ![a] = NewRow(owners + 1, now + TrialLen)] /\ row \in [Accts -> RowType \cup {None}]
         /\ UNCHANGED <<now, req, del, customers, sessions, subs, events, asked, gone, raced, crashes>>
<1> DEFINE b == NewRow(owners + 1, now + TrialLen)
<1>1. /\ row' = [row EXCEPT ![a] = b] /\ owners' = owners + 1 /\ owners < MaxOwners
      /\ UNCHANGED <<now, req, del, customers, sessions, subs, events, asked, gone, raced, crashes>>
  BY DEF Signup, stripeVars
<1>2. a \notin Rows /\ a \notin Exempt
  <2>1. a \in Rows => a < a
    BY DEF Signup
  <2>2. ~(a < a)
    BY Constants
  <2> QED BY <2>1, <2>2 DEF Typed, RowsOK
<1>3. owners \in 0 .. MaxOwners /\ owners \in Nat /\ owners + 1 \in 1 .. MaxOwners /\ now \in Nat
  BY <1>1, Domains, Constants DEF Typed, HistoryOK
<1>4. b \in RowType /\ b.owner = owners + 1 /\ b.trial \in Nat /\ b.customer = None /\ b.sub = None
  BY <1>3, Constants DEF NewRow, RowType
<1> HIDE DEF b
<1>5. Grow
  BY <1>1, <1>3, Domains DEF Grow
<1>6. row \in [Accts -> RowType \cup {None}]
  BY DEF Typed, RowsOK
<1>7. row' \in [Accts -> RowType \cup {None}] /\ row'[a] = b /\ \A c \in Accts : c # a => row'[c] = row[c]
  BY <1>1, <1>4, <1>6
<1>8. RowOK(a, b, owners', Len(customers'), Len(subs'))
  BY <1>1, <1>2, <1>3, <1>4, Constants DEF RowOK
<1>9. RowsOK'
  <2>1. \A c \in Accts : \/ row'[c] = row[c] \/ (row'[c] = None /\ c \notin Exempt)
                         \/ RowOK(c, row'[c], owners', Len(customers'), Len(subs'))
    BY <1>7, <1>8
  <2> QED BY <1>5, <1>7, <2>1, RowsStep
<1>10. ReqsOK'
  BY <1>1, <1>5, ReqsStep DEF Typed, ReqsOK
<1>11. StripeOK'
  BY <1>1, <1>5, StripeStep DEF Typed, StripeOK
<1>12. EventsOK'
  BY <1>1, <1>5, EventsStep, EventFields DEF Typed, EventsOK
<1>13. Rows \subseteq Rows'
  BY <1>2, <1>7 DEF Rows
<1>14. DelsOK'
  BY <1>1, <1>5, <1>13, DelsStep DEF Typed, DelsOK
<1>15. HistoryOK'
  <2>1. owners' \in 0 .. MaxOwners
    BY <1>1, <1>3, Constants
  <2>2. \A g \in gone : g.owner \in Nat /\ g.owner <= owners
    BY DEF Typed, HistoryOK
  <2> QED BY <1>1, <1>3, <2>1, <2>2 DEF Typed, HistoryOK
<1>16. HomeOK'
  <2>1. \A c \in Rows' : row'[c].customer # None => c \in Rows /\ row'[c].customer = row[c].customer
    BY <1>4, <1>7 DEF Rows
  <2> QED BY <1>1, <2>1, HomeStays DEF Typed, ReqsOK
<1> QED BY <1>1, <1>2, <1>3, <1>6, <1>9, <1>10, <1>11, <1>12, <1>14, <1>15, <1>16 DEF Typed, Owners, b

\* The parts that a step leaves alone.
LEMMA PartsStay ==
  ASSUME Typed, owners' = owners, Len(customers') = Len(customers) \/ Len(customers') = Len(customers) + 1,
         Len(subs') = Len(subs) \/ Len(subs') = Len(subs) + 1
  PROVE  /\ Grow
         /\ row' = row => RowsOK'
         /\ req' = req \/ req' = [r \in Reqs |-> NoReq] => ReqsOK'
         /\ UNCHANGED stripeVars => StripeOK'
         /\ UNCHANGED <<events, subs>> => EventsOK'
         /\ UNCHANGED <<row, del>> \/ del' = [a \in Accts |-> NoDel] => DelsOK'
<1>1. Grow
  BY Domains DEF Grow
<1>2. ASSUME row' = row PROVE RowsOK'
  <2>1. row' \in [Accts -> RowType \cup {None}]
    BY <1>2 DEF Typed, RowsOK
  <2>2. \A a \in Accts : \/ row'[a] = row[a] \/ (row'[a] = None /\ a \notin Exempt)
                         \/ RowOK(a, row'[a], owners', Len(customers'), Len(subs'))
    BY <1>2
  <2> QED BY <1>1, <2>1, <2>2, RowsStep
<1>3. ASSUME req' = req PROVE ReqsOK'
  <2>1. req' \in [Reqs -> ReqType]
    BY <1>3 DEF Typed, ReqsOK
  <2>2. \A r \in Reqs : req'[r] = req[r]
    BY <1>3
  <2> QED BY <1>1, <2>1, <2>2, ReqsStep
<1>4. ASSUME req' = [r \in Reqs |-> NoReq] PROVE ReqsOK'
  <2>1. req' \in [Reqs -> ReqType] /\ \A r \in Reqs : req'[r] = NoReq
    BY <1>4, Records
  <2> QED BY <2>1, NoReqOK DEF ReqsOK
<1>5. UNCHANGED stripeVars => StripeOK'
  BY <1>1, StripeStep DEF Typed, StripeOK, stripeVars
<1>6. UNCHANGED <<events, subs>> => EventsOK'
  BY <1>1, EventsStep, EventFields DEF Typed, EventsOK
<1>7. ASSUME UNCHANGED <<row, del>> PROVE DelsOK'
  <2>1. del' \in [Accts -> DelType]
    BY <1>7 DEF Typed, DelsOK
  <2>2. \A a \in Accts : del'[a] = del[a] /\ (a \in Rows => a \in Rows')
    BY <1>7 DEF Rows
  <2> QED BY <1>1, <2>1, <2>2, DelsStep
<1>8. ASSUME del' = [a \in Accts |-> NoDel] PROVE DelsOK'
  <2>1. del' \in [Accts -> DelType] /\ \A a \in Accts : del'[a].pc = "idle"
    BY <1>8, Records
  <2> QED BY <2>1 DEF DelsOK
<1> QED BY <1>1, <1>2, <1>3, <1>4, <1>5, <1>6, <1>7, <1>8

LEMMA AdvanceTyped ==
  ASSUME Typed, Advance
  PROVE  /\ Typed' /\ now' = now + 1
         /\ UNCHANGED <<row, req, del, customers, sessions, subs, events, asked, owners, gone, raced, crashes>>
<1>1. /\ now' = now + 1 /\ now < MaxTime
      /\ UNCHANGED <<row, req, del, customers, sessions, subs, events, asked, owners, gone, raced, crashes>>
      /\ UNCHANGED stripeVars
  BY DEF Advance, stripeVars, history
<1>2. HistoryOK'
  BY <1>1, Constants DEF Typed, HistoryOK, Time
<1>3. HomeOK'
  BY <1>1 DEF Typed, HomeOK, Rows
<1> QED BY <1>1, <1>2, <1>3, PartsStay DEF Typed

LEMMA SecsTyped == Typed => LastSec \in Nat /\ Secs \subseteq Nat
<1> SUFFICES ASSUME Typed PROVE LastSec \in Nat
  BY DEF Secs
<1>1. CASE events = <<>>
  BY <1>1 DEF LastSec
<1>2. CASE events # <<>>
  <2>1. Len(events) \in 1 .. Len(events)
    BY <1>2 DEF Typed, EventsOK
  <2>2. events[Len(events)].sec \in Nat
    BY <2>1, EventFields
  <2> QED BY <1>2, <2>2 DEF LastSec, Last
<1> QED BY <1>1, <1>2

LEMMA RequestTyped ==
  ASSUME Typed, NEW r \in Reqs, NEW a \in Accts, CheckoutRequest(r, a)
  PROVE  /\ Typed' /\ row[a] # None /\ a \notin Exempt /\ req[r].pc = "idle"
         /\ \A q \in Reqs : q # r => req'[q] = req[q]
         /\ req'[r].pc = (IF row[a].customer = None THEN "customer" ELSE "session") /\ req'[r].acct = a
         /\ req'[r].owner = row[a].owner /\ req'[r].cust = row[a].customer /\ req'[r].carry = CarriedTrial(row[a])
         /\ raced' = IF Buying(row[a].owner) \/ LiveOf(row[a].owner) # {} THEN raced \cup {row[a].owner} ELSE raced
         /\ UNCHANGED <<now, row, del, customers, sessions, subs, events, owners, gone, crashes>>
<1> DEFINE b == row[a]
           x == [pc |-> IF b.customer = None THEN "customer" ELSE "session", acct |-> a,
                 owner |-> b.owner, cust |-> b.customer, carry |-> CarriedTrial(b)]
<1>1. /\ row[a] # None /\ a \notin Exempt /\ req[r].pc = "idle" /\ asked < MaxAsked /\ asked' = asked + 1
      /\ req' = [req EXCEPT ![r] = x]
      /\ raced' = IF Buying(b.owner) \/ LiveOf(b.owner) # {} THEN raced \cup {b.owner} ELSE raced
      /\ UNCHANGED <<now, row, del, customers, sessions, subs, events, owners, gone, crashes>>
  BY DEF CheckoutRequest, stripeVars
<1>2. /\ b.owner \in Owners /\ b.owner \in Nat /\ b.owner >= 1 /\ b.owner <= owners /\ b.trial \in Nat /\ a \in Rows
      /\ b.customer # None => b.customer \in 1 .. Len(customers)
  BY <1>1, RowFields
<1>3. CarriedTrial(b) \in Nat \cup {None}
  BY <1>2 DEF CarriedTrial
<1>4. x \in ReqType /\ ReqOK(x, owners, Len(customers))
  <2>1. b.customer \in Nat \cup {None} /\ b.owner \in 0 .. MaxOwners /\ owners \in Nat
    BY <1>2, Constants, Domains DEF Owners
  <2>2. x \in ReqType
    BY <1>3, <2>1 DEF ReqType
  <2> QED BY <1>1, <1>2, <2>1, <2>2 DEF ReqOK
<1>5. /\ x.pc = (IF b.customer = None THEN "customer" ELSE "session") /\ x.acct = a /\ x.owner = b.owner
      /\ x.cust = b.customer /\ x.carry = CarriedTrial(b)
  OBVIOUS
<1> HIDE DEF x
<1>6. req' \in [Reqs -> ReqType] /\ req'[r] = x /\ \A q \in Reqs : q # r => req'[q] = req[q]
  BY <1>1, <1>4 DEF Typed, ReqsOK
<1>7. /\ Grow /\ RowsOK' /\ StripeOK' /\ EventsOK' /\ DelsOK'
  BY <1>1, PartsStay DEF stripeVars
<1>8. ReqsOK'
  <2>1. \A q \in Reqs : req'[q] = req[q] \/ ReqOK(req'[q], owners', Len(customers'))
    BY <1>1, <1>4, <1>6
  <2> QED BY <1>6, <1>7, <2>1, ReqsStep
<1>9. HistoryOK'
  <2>1. raced' \subseteq Owners /\ asked' \in 0 .. MaxAsked
    BY <1>1, <1>2, Constants DEF Typed, HistoryOK
  <2> QED BY <1>1, <2>1 DEF Typed, HistoryOK
<1>10. HomeOK'
  <2>1. \A q \in Reqs : \/ req'[q].pc # "session"
                        \/ req[q].pc = "session" /\ req'[q].acct = req[q].acct /\ req'[q].cust = req[q].cust
                        \/ \E c \in Rows : row[c].customer # None /\ req'[q].cust = row[c].customer /\ req'[q].acct = c
    BY <1>2, <1>5, <1>6
  <2> QED BY <1>1, <1>6, <2>1, HomeStays DEF Rows
<1> QED BY <1>1, <1>5, <1>6, <1>7, <1>8, <1>9, <1>10 DEF Typed

LEMMA CustomerTyped ==
  ASSUME Typed, NEW r \in Reqs, CustomerCreated(r)
  PROVE  /\ Typed' /\ req[r].pc = "customer" /\ RowsKeep /\ Rows' = Rows
         /\ Len(customers') = Len(customers) + 1
         /\ \A q \in Reqs : q # r => req'[q] = req[q]
         /\ req'[r].pc = "session" /\ req'[r].cust = Len(customers) + 1 /\ req'[r].acct = req[r].acct
         /\ req'[r].owner = req[r].owner /\ req'[r].carry = req[r].carry
         /\ \A a \in Rows : /\ row'[a].sub = row[a].sub /\ row'[a].status = row[a].status
                            /\ row'[a].updated = row[a].updated
                            /\ row'[a].customer = IF a = req[r].acct THEN Len(customers) + 1 ELSE row[a].customer
         /\ raced' = IF row[req[r].acct] # None /\ row[req[r].acct].owner # req[r].owner
                     THEN raced \cup {row[req[r].acct].owner} ELSE raced
         /\ UNCHANGED <<now, del, sessions, subs, events, asked, owners, gone, crashes>>
<1> DEFINE c == Len(customers) + 1   a == req[r].acct
           x == [req[r] EXCEPT !.pc = "session", !.cust = c]
           b == [row[a] EXCEPT !.customer = c]
<1>1. /\ req[r].pc = "customer" /\ customers' = Append(customers, req[r].owner)
      /\ row' = (IF row[a] = None THEN row ELSE [row EXCEPT ![a].customer = c])
      /\ req' = [req EXCEPT ![r].pc = "session", ![r].cust = c]
      /\ raced' = IF row[a] # None /\ row[a].owner # req[r].owner THEN raced \cup {row[a].owner} ELSE raced
      /\ UNCHANGED <<now, del, sessions, subs, events, asked, owners, gone, crashes>>
  BY DEF CustomerCreated
<1>2. /\ req[r].owner \in Nat /\ req[r].owner \in Owners /\ a \in Accts \ Exempt /\ req[r] \in ReqType
      /\ req[r].owner >= 1 /\ req[r].owner <= owners
  BY <1>1, ReqFields
<1>3. c \in Nat /\ Len(customers) \in Nat /\ owners \in Nat
  BY Domains
<1>4. /\ customers' \in Seq(Owners) /\ Len(customers') = c
  BY <1>1, <1>2, Appended DEF Typed, StripeOK
<1>5. /\ x \in ReqType /\ x.pc = "session" /\ x.cust = c /\ x.acct = a /\ x.owner = req[r].owner /\ x.carry = req[r].carry
  BY <1>2, <1>3 DEF ReqType
<1>6. req' = [req EXCEPT ![r] = x]
  BY <1>1 DEF Typed, ReqsOK
<1>7. row[a] # None => row' = [row EXCEPT ![a] = b]
  BY <1>1 DEF Typed, RowsOK
<1>8. row[a] # None => /\ b \in RowType /\ b.customer = c /\ b.owner = row[a].owner /\ b.trial = row[a].trial /\ b.sub = row[a].sub
                       /\ b.status = row[a].status /\ b.updated = row[a].updated
  BY <1>2, <1>3, RowFields DEF RowType
<1> HIDE DEF x, b
<1>9. req' \in [Reqs -> ReqType] /\ req'[r] = x /\ \A q \in Reqs : q # r => req'[q] = req[q]
  BY <1>5, <1>6 DEF Typed, ReqsOK
<1>10. /\ row' \in [Accts -> RowType \cup {None}] /\ \A d \in Accts : d # a => row'[d] = row[d]
       /\ row[a] # None => row'[a] = b
       /\ row[a] = None => row'[a] = None
  BY <1>1, <1>2, <1>7, <1>8 DEF Typed, RowsOK
<1>11. /\ Grow /\ EventsOK'
  BY <1>1, <1>4, PartsStay
<1>12. ReqsOK'
  <2>1. ReqOK(x, owners', Len(customers'))
    BY <1>1, <1>2, <1>3, <1>4, <1>5 DEF ReqOK
  <2>2. \A q \in Reqs : req'[q] = req[q] \/ ReqOK(req'[q], owners', Len(customers'))
    BY <1>9, <2>1
  <2> QED BY <1>9, <1>11, <2>2, ReqsStep
<1>13. RowsOK'
  <2>1. ASSUME row[a] # None PROVE RowOK(a, b, owners', Len(customers'), Len(subs'))
    <3>1. RowOK(a, row[a], owners, Len(customers), Len(subs))
      BY <1>2, <2>1, RowFields
    <3> QED BY <1>1, <1>2, <1>3, <1>4, <1>8, <2>1, <3>1 DEF RowOK
  <2>2. \A d \in Accts : \/ row'[d] = row[d] \/ (row'[d] = None /\ d \notin Exempt)
                         \/ RowOK(d, row'[d], owners', Len(customers'), Len(subs'))
    BY <1>2, <1>10, <2>1
  <2> QED BY <1>10, <1>11, <2>2, RowsStep
<1>14. Rows' = Rows
  BY <1>2, <1>8, <1>10, Constants DEF Rows
<1>15. StripeOK'
  BY <1>1, <1>4, <1>11, StripeStep DEF Typed, StripeOK
<1>16. DelsOK'
  <2>1. \A d \in Accts : del'[d] = del[d] /\ (d \in Rows => d \in Rows')
    BY <1>1, <1>14
  <2>2. del' \in [Accts -> DelType]
    BY <1>1 DEF Typed, DelsOK
  <2> QED BY <1>11, <2>1, <2>2, DelsStep
<1>17. HistoryOK'
  <2>1. row[a] # None => row[a].owner \in Owners
    BY <1>2, RowFields
  <2>2. raced' \subseteq Owners
    BY <1>1, <2>1 DEF Typed, HistoryOK
  <2> QED BY <1>1, <2>2 DEF Typed, HistoryOK
<1>18. HomeOK'
  <2>1. PICK home \in [1 .. Len(customers) -> Accts] :
          /\ \A d \in Rows : row[d].customer # None => home[row[d].customer] = d
          /\ \A q \in Reqs : req[q].pc = "session" => home[req[q].cust] = req[q].acct
          /\ \A y \in sessions : home[y.cust] = y.acct
          /\ \A s \in 1 .. Len(subs) : home[subs[s].cust] = subs[s].acct
    BY DEF Typed, HomeOK
  <2> DEFINE new == [k \in 1 .. Len(customers') |-> IF k = c THEN a ELSE home[k]]
  <2>2. /\ new \in [1 .. Len(customers') -> Accts] /\ new[c] = a
        /\ \A k \in 1 .. Len(customers) : new[k] = home[k]
    BY <1>2, <1>3, <1>4, <2>1
  <2> HIDE DEF new
  <2>3. ASSUME NEW d \in Rows', row'[d].customer # None PROVE new[row'[d].customer] = d
    <3>1. CASE d = a
      BY <1>2, <1>8, <1>10, <1>14, <2>2, <3>1 DEF Rows
    <3>2. CASE d # a
      <4>1. d \in Rows /\ row'[d] = row[d] /\ d \in Accts
        BY <1>10, <1>14, <3>2 DEF Rows
      <4>2. row[d].customer \in 1 .. Len(customers)
        BY <2>3, <4>1, RowFields DEF Rows
      <4> QED BY <2>1, <2>2, <2>3, <4>1, <4>2
    <3> QED BY <3>1, <3>2
  <2>4. ASSUME NEW q \in Reqs, req'[q].pc = "session" PROVE new[req'[q].cust] = req'[q].acct
    <3>1. CASE q = r
      BY <1>5, <1>9, <2>2, <3>1
    <3>2. CASE q # r
      BY <1>9, <2>1, <2>2, <2>4, <3>2, ReqFields
    <3> QED BY <3>1, <3>2
  <2>5. \A y \in sessions' : new[y.cust] = y.acct
    BY <1>1, <2>1, <2>2, SessionFields
  <2>6. \A s \in 1 .. Len(subs') : new[subs'[s].cust] = subs'[s].acct
    BY <1>1, <2>1, <2>2, SubFields
  <2> QED BY <2>2, <2>3, <2>4, <2>5, <2>6 DEF HomeOK
<1>19. /\ RowsKeep
       /\ \A d \in Rows : /\ row'[d].sub = row[d].sub /\ row'[d].status = row[d].status
                          /\ row'[d].updated = row[d].updated
                          /\ row'[d].customer = IF d = a THEN c ELSE row[d].customer
  BY <1>8, <1>10, <1>14 DEF RowsKeep, Rows
<1> QED BY <1>1, <1>4, <1>5, <1>9, <1>11, <1>12, <1>13, <1>14, <1>15, <1>16, <1>17, <1>18, <1>19 DEF Typed

LEMMA SessionTyped ==
  ASSUME Typed, NEW r \in Reqs, SessionCreated(r)
  PROVE  /\ Typed' /\ req[r].pc = "session"
         /\ \A q \in Reqs : req'[q] = IF q = r THEN NoReq ELSE req[q]
         /\ sessions' = sessions \cup {[acct |-> req[r].acct, owner |-> req[r].owner,
                                        cust |-> req[r].cust, carry |-> req[r].carry]}
         /\ UNCHANGED <<now, row, del, customers, subs, events, asked, owners, gone, raced, crashes>>
<1> DEFINE x == [acct |-> req[r].acct, owner |-> req[r].owner, cust |-> req[r].cust, carry |-> req[r].carry]
<1>1. /\ req[r].pc = "session" /\ sessions' = sessions \cup {x} /\ req' = [req EXCEPT ![r] = NoReq]
      /\ UNCHANGED <<now, row, del, customers, subs, events, asked, owners, gone, raced, crashes>>
  BY DEF SessionCreated, history
<1>2. /\ req[r].owner \in Owners /\ req[r].acct \in Accts \ Exempt /\ req[r].cust \in 1 .. Len(customers)
      /\ req[r].carry \in Nat \cup {None} /\ req[r].owner <= owners
  BY <1>1, ReqFields
<1>3. x \in SessionType /\ BoughtOK(x, owners, Len(customers)) /\ x.acct = req[r].acct /\ x.cust = req[r].cust
  <2>1. req[r].cust \in Nat
    BY <1>2, Domains
  <2> QED BY <1>2, <2>1 DEF SessionType, BoughtOK
<1> HIDE DEF x
<1>4. req' \in [Reqs -> ReqType] /\ \A q \in Reqs : req'[q] = IF q = r THEN NoReq ELSE req[q]
  BY <1>1, Records DEF Typed, ReqsOK
<1>5. /\ Grow /\ RowsOK' /\ EventsOK' /\ DelsOK'
  BY <1>1, PartsStay
<1>6. ReqsOK'
  <2>1. \A q \in Reqs : req'[q] = req[q] \/ ReqOK(req'[q], owners', Len(customers'))
    BY <1>4, NoReqOK
  <2> QED BY <1>4, <1>5, <2>1, ReqsStep
<1>7. StripeOK'
  <2>1. sessions' \subseteq SessionType /\ \A y \in sessions' : y \in sessions \/ BoughtOK(y, owners', Len(customers'))
    BY <1>1, <1>3 DEF Typed, StripeOK
  <2> QED BY <1>1, <1>5, <2>1, StripeStep DEF Typed, StripeOK
<1>8. HistoryOK'
  BY <1>1 DEF Typed, HistoryOK
<1>9. HomeOK'
  <2>1. \A q \in Reqs : \/ req'[q].pc # "session"
                        \/ req[q].pc = "session" /\ req'[q].acct = req[q].acct /\ req'[q].cust = req[q].cust
                        \/ \E c \in Rows : row[c].customer # None /\ req'[q].cust = row[c].customer /\ req'[q].acct = c
    BY <1>4, Records
  <2>2. \A y \in sessions' : \/ y \in sessions
                             \/ \E q \in Reqs : req[q].pc = "session" /\ y.acct = req[q].acct /\ y.cust = req[q].cust
    BY <1>1, <1>3
  <2> QED BY <1>1, <1>4, <2>1, <2>2, HomeStays DEF Rows
<1> QED BY <1>1, <1>4, <1>5, <1>6, <1>7, <1>8, <1>9 DEF Typed, x

LEMMA FailsTyped ==
  ASSUME Typed, NEW r \in Reqs, CheckoutFails(r)
  PROVE  /\ Typed' /\ \A q \in Reqs : req'[q] = IF q = r THEN NoReq ELSE req[q]
         /\ UNCHANGED <<now, row, del, customers, sessions, subs, events, asked, owners, gone, raced, crashes>>
<1>1. /\ req' = [req EXCEPT ![r] = NoReq]
      /\ UNCHANGED <<now, row, del, customers, sessions, subs, events, asked, owners, gone, raced, crashes>>
  BY DEF CheckoutFails, history, stripeVars
<1>2. req' \in [Reqs -> ReqType] /\ \A q \in Reqs : req'[q] = IF q = r THEN NoReq ELSE req[q]
  BY <1>1, Records DEF Typed, ReqsOK
<1>3. /\ Grow /\ RowsOK' /\ StripeOK' /\ EventsOK' /\ DelsOK'
  BY <1>1, PartsStay DEF stripeVars
<1>4. ReqsOK'
  <2>1. \A q \in Reqs : req'[q] = req[q] \/ ReqOK(req'[q], owners', Len(customers'))
    BY <1>2, NoReqOK
  <2> QED BY <1>2, <1>3, <2>1, ReqsStep
<1>5. HistoryOK'
  BY <1>1 DEF Typed, HistoryOK
<1>6. HomeOK'
  <2>1. \A q \in Reqs : \/ req'[q].pc # "session"
                        \/ req[q].pc = "session" /\ req'[q].acct = req[q].acct /\ req'[q].cust = req[q].cust
                        \/ \E c \in Rows : row[c].customer # None /\ req'[q].cust = row[c].customer /\ req'[q].acct = c
    BY <1>2, Records
  <2> QED BY <1>1, <1>2, <2>1, HomeStays DEF Rows
<1> QED BY <1>1, <1>2, <1>3, <1>4, <1>5, <1>6 DEF Typed

LEMMA EventTyped ==
  ASSUME Typed, NEW type \in {"completed", "subscription"}, NEW s \in SubIds, NEW acct \in Accts, NEW cust \in Nat,
         NEW status \in Statuses \cup {None}, NEW sec \in Nat
  PROVE  LET e == Event(type, s, acct, cust, status, sec)
         IN  /\ e \in EventType /\ e.type = type /\ e.sub = s /\ e.acct = acct /\ e.cust = cust /\ e.status = status
             /\ e.sec = sec /\ e.fate = "due" /\ e.to = 0
<1>1. 0 \in 0 .. MaxOwners
  BY Constants
<1> QED BY <1>1 DEF Event, EventType

\* The last event is a change of subscription s to a status, in second sec.
Wrote(s, status, sec) ==
  /\ Len(events') = Len(events) + 1 /\ \A i \in 1 .. Len(events) : events'[i] = events[i]
  /\ LET e == events'[Len(events) + 1]
     IN  /\ e.type = "subscription" /\ e.sub = s /\ e.acct = subs[s].acct /\ e.cust = subs[s].cust
         /\ e.status = status /\ e.sec = sec /\ e.fate = "due" /\ e.to = 0

\* Subscription s changes its status, and nothing else of any subscription changes.
Turned(s, status) ==
  /\ Len(subs') = Len(subs)
  /\ \A t \in 1 .. Len(subs) : /\ subs'[t].owner = subs[t].owner /\ subs'[t].acct = subs[t].acct
                               /\ subs'[t].cust = subs[t].cust /\ subs'[t].charged = subs[t].charged
                               /\ subs'[t].status = IF t = s THEN status ELSE subs[t].status

LEMMA ChangedTyped ==
  ASSUME Typed, NEW s \in 1 .. Len(subs), NEW status \in Statuses, NEW sec \in Nat, Len(events) < MaxEvents,
         Changed(s, status, sec), UNCHANGED <<customers, sessions, owners, req>>,
         \A a \in Rows' : a \in Rows /\ row'[a] = row[a]
  PROVE  Grow /\ ReqsOK' /\ StripeOK' /\ EventsOK' /\ HomeOK' /\ Wrote(s, status, sec) /\ Turned(s, status)
<1> DEFINE e == Sync(s, subs[s].acct, subs[s].cust, status, sec)
           q == [subs[s] EXCEPT !.status = status]
<1>1. subs' = [subs EXCEPT ![s] = q] /\ events' = Append(events, e)
  BY DEF Changed
<1>2. /\ subs[s] \in SubType /\ subs[s].cust \in Nat /\ subs[s].acct \in Accts /\ s \in SubIds
  <2>1. s \in SubIds
    BY Domains, Constants DEF SubIds, Typed, StripeOK
  <2> QED BY <2>1, SubFields, Domains
<1>3. q \in SubType /\ q.owner = subs[s].owner /\ q.acct = subs[s].acct /\ q.cust = subs[s].cust
      /\ q.charged = subs[s].charged /\ q.status = status
  BY <1>2 DEF SubType
<1>4. /\ e \in EventType /\ e.type = "subscription" /\ e.sub = s /\ e.acct = subs[s].acct /\ e.cust = subs[s].cust
      /\ e.status = status /\ e.sec = sec /\ e.fate = "due" /\ e.to = 0
  BY <1>2, EventTyped DEF Sync
<1> HIDE DEF q, e
<1>5. subs \in Seq(SubType) /\ events \in Seq(EventType) /\ Len(subs) \in Nat /\ Len(events) \in Nat /\ MaxEvents \in Nat
  BY Domains, Constants DEF Typed, StripeOK, EventsOK
<1>6. subs' \in Seq(SubType) /\ Len(subs') = Len(subs) /\ subs'[s] = q /\ \A t \in 1 .. Len(subs) : t # s => subs'[t] = subs[t]
  BY <1>1, <1>3, <1>5, Replaced
<1>7. /\ events' \in Seq(EventType) /\ Len(events') = Len(events) + 1 /\ events'[Len(events) + 1] = e
      /\ \A i \in 1 .. Len(events) : events'[i] = events[i]
  BY <1>1, <1>4, <1>5, Appended
<1>8. Wrote(s, status, sec)
  BY <1>4, <1>7 DEF Wrote
<1>9. Turned(s, status)
  BY <1>3, <1>6 DEF Turned
<1>10. Grow /\ ReqsOK'
  BY <1>6, PartsStay
<1>11. StripeOK'
  <2>1. \A t \in 1 .. Len(subs') :
           \/ t \in 1 .. Len(subs) /\ subs'[t].owner = subs[t].owner /\ subs'[t].cust = subs[t].cust
              /\ subs'[t].acct = subs[t].acct
           \/ BoughtOK(subs'[t], owners', Len(customers'))
    BY <1>9 DEF Turned
  <2>2. Len(subs') <= MaxSubs
    BY <1>6 DEF Typed, StripeOK
  <2> QED BY <1>6, <1>10, <2>1, <2>2, StripeStep DEF Typed, StripeOK
<1>12. EventsOK'
  <2>1. \A t \in 1 .. Len(subs) : subs'[t].cust = subs[t].cust /\ subs'[t].acct = subs[t].acct
    BY <1>9 DEF Turned
  <2>2. EventOK(e, subs', owners')
    <3>1. 0 <= owners'
      BY Domains
    <3> QED BY <1>4, <1>6, <2>1, <3>1 DEF EventOK
  <2>3. \A i \in 1 .. Len(events') :
           \/ i \in 1 .. Len(events) /\ events'[i].sub = events[i].sub /\ events'[i].acct = events[i].acct
              /\ events'[i].cust = events[i].cust /\ events'[i].to \in {events[i].to} \cup 0 .. owners
           \/ EventOK(events'[i], subs', owners')
    <3>1. \A i \in 1 .. Len(events') : i \in 1 .. Len(events) \/ i = Len(events) + 1
      BY <1>5, <1>7
    <3> QED BY <1>7, <2>2, <3>1
  <2>4. Len(events') <= MaxEvents
    BY <1>5, <1>7
  <2> QED BY <1>7, <1>10, <2>1, <2>3, <2>4, EventsStep
<1>13. HomeOK'
  <2>1. \A t \in 1 .. Len(subs') :
           \/ t \in 1 .. Len(subs) /\ subs'[t].cust = subs[t].cust /\ subs'[t].acct = subs[t].acct
           \/ \E x \in sessions : subs'[t].cust = x.cust /\ subs'[t].acct = x.acct
    BY <1>9 DEF Turned
  <2> QED BY <2>1, HomeStays DEF Typed, ReqsOK
<1> QED BY <1>8, <1>9, <1>10, <1>11, <1>12, <1>13

\* The parts other than Stripe's that a payment or a cancellation in the portal leaves alone.
LEMMA TurnTyped ==
  ASSUME Typed, NEW s \in 1 .. Len(subs), NEW status \in Statuses, NEW sec \in Nat, Len(events) < MaxEvents,
         Changed(s, status, sec), UNCHANGED <<now, row, req, del, customers, sessions, asked, owners, gone, raced, crashes>>
  PROVE  Typed' /\ Wrote(s, status, sec) /\ Turned(s, status)
<1>1. \A a \in Rows' : a \in Rows /\ row'[a] = row[a]
  BY DEF Rows
<1>2. Grow /\ ReqsOK' /\ StripeOK' /\ EventsOK' /\ HomeOK' /\ Wrote(s, status, sec) /\ Turned(s, status)
  BY <1>1, ChangedTyped
<1>3. RowsOK' /\ DelsOK'
  BY <1>2, PartsStay DEF Turned
<1>4. HistoryOK'
  BY DEF Typed, HistoryOK
<1> QED BY <1>2, <1>3, <1>4 DEF Typed

\* The subscription bought in session x is the last, and so are its two events.
Begun(x, sec) ==
  /\ Len(subs') = Len(subs) + 1 /\ \A s \in 1 .. Len(subs) : subs'[s] = subs[s]
  /\ subs'[Len(subs) + 1].owner = x.owner /\ subs'[Len(subs) + 1].acct = x.acct
  /\ subs'[Len(subs) + 1].cust = x.cust /\ subs'[Len(subs) + 1].status = "active"
  /\ subs'[Len(subs) + 1].charged = IF x.carry = None THEN now ELSE x.carry
  /\ Len(events') = Len(events) + 2 /\ \A i \in 1 .. Len(events) : events'[i] = events[i]
  /\ events'[Len(events) + 1].type = "completed" /\ events'[Len(events) + 2].type = "subscription"
  /\ events'[Len(events) + 1].status = None /\ events'[Len(events) + 2].status = "active"
  /\ \A i \in {Len(events) + 1, Len(events) + 2} :
       /\ events'[i].sub = Len(subs) + 1 /\ events'[i].acct = x.acct /\ events'[i].cust = x.cust
       /\ events'[i].sec = sec /\ events'[i].fate = "due" /\ events'[i].to = 0

LEMMA SubscribeTyped ==
  ASSUME Typed, NEW x \in sessions, NEW sec \in Nat, Subscribe(x, sec)
  PROVE  /\ Typed' /\ sessions' = sessions \ {x}
         /\ x.carry # None => x.carry > now
         /\ Begun(x, sec)
         /\ raced' = IF LiveOf(x.owner) # {} THEN raced \cup {x.owner} ELSE raced
         /\ UNCHANGED <<now, row, req, del, customers, asked, owners, gone, crashes>>
<1> DEFINE s == Len(subs) + 1
           t == [owner |-> x.owner, acct |-> x.acct, cust |-> x.cust, status |-> "active",
                 charged |-> IF x.carry = None THEN now ELSE x.carry]
           e == Event("completed", s, x.acct, x.cust, None, sec)
           f == Sync(s, x.acct, x.cust, "active", sec)
<1>1. /\ s \in SubIds /\ Len(events) + 2 <= MaxEvents
      /\ x.carry # None => x.carry > now
      /\ sessions' = sessions \ {x} /\ subs' = Append(subs, t) /\ events' = events \o <<e, f>>
      /\ raced' = IF LiveOf(x.owner) # {} THEN raced \cup {x.owner} ELSE raced
      /\ UNCHANGED <<now, row, req, del, customers, asked, owners, gone, crashes>>
  BY DEF Subscribe
<1>2. /\ x.owner \in Owners /\ x.acct \in Accts \ Exempt /\ x.cust \in 1 .. Len(customers) /\ x.cust \in Nat
      /\ x.carry \in Nat \cup {None} /\ x.owner <= owners /\ now \in Nat
  BY SessionFields, Domains
<1>3. /\ t \in SubType /\ t.owner = x.owner /\ t.acct = x.acct /\ t.cust = x.cust /\ t.status = "active"
      /\ t.charged = IF x.carry = None THEN now ELSE x.carry
  BY <1>2 DEF SubType, Statuses
<1>4. /\ e \in EventType /\ e.type = "completed" /\ e.sub = s /\ e.acct = x.acct /\ e.cust = x.cust
      /\ e.status = None /\ e.sec = sec /\ e.fate = "due" /\ e.to = 0
  <2>1. x.acct \in Accts /\ None \in Statuses \cup {None} /\ "completed" \in {"completed", "subscription"}
    BY <1>2
  <2>2. 0 \in 0 .. MaxOwners
    BY Constants
  <2> HIDE DEF s
  <2> QED BY <1>1, <1>2, <2>1, <2>2 DEF Event, EventType
<1>5. /\ f \in EventType /\ f.type = "subscription" /\ f.sub = s /\ f.acct = x.acct /\ f.cust = x.cust
      /\ f.status = "active" /\ f.sec = sec /\ f.fate = "due" /\ f.to = 0
  <2>1. x.acct \in Accts /\ "active" \in Statuses \cup {None} /\ "subscription" \in {"completed", "subscription"}
    BY <1>2 DEF Statuses
  <2>2. sec \in Nat /\ s \in SubIds /\ x.cust \in Nat
    BY <1>1, <1>2
  <2>3. f = Event("subscription", s, x.acct, x.cust, "active", sec)
    BY DEF Sync
  <2> HIDE DEF s, f
  <2> QED BY <2>1, <2>2, <2>3, EventTyped
<1> HIDE DEF t, e, f
<1>6. subs \in Seq(SubType) /\ events \in Seq(EventType) /\ Len(subs) \in Nat /\ Len(events) \in Nat
  BY Domains DEF Typed, StripeOK, EventsOK
<1>7. subs' \in Seq(SubType) /\ Len(subs') = s /\ subs'[s] = t /\ \A u \in 1 .. Len(subs) : subs'[u] = subs[u]
  BY <1>1, <1>3, <1>6, Appended
<1>8. /\ events' \in Seq(EventType) /\ Len(events') = Len(events) + 2 /\ events'[Len(events) + 1] = e
      /\ events'[Len(events) + 2] = f /\ \A i \in 1 .. Len(events) : events'[i] = events[i]
  BY <1>1, <1>4, <1>5, <1>6, AppendedTwo
<1>9. Grow /\ ReqsOK' /\ RowsOK' /\ DelsOK'
  BY <1>1, <1>7, PartsStay
<1>10. BoughtOK(t, owners', Len(customers'))
  BY <1>1, <1>2, <1>3 DEF BoughtOK
<1>11. \A u \in 1 .. Len(subs') : u \in 1 .. Len(subs) \/ u = s
  BY <1>6, <1>7
<1>12. StripeOK'
  <2>1. \A u \in 1 .. Len(subs') :
           \/ u \in 1 .. Len(subs) /\ subs'[u].owner = subs[u].owner /\ subs'[u].cust = subs[u].cust
              /\ subs'[u].acct = subs[u].acct
           \/ BoughtOK(subs'[u], owners', Len(customers'))
    BY <1>7, <1>10, <1>11
  <2>2. Len(subs') <= MaxSubs
    BY <1>1, <1>7, Constants DEF SubIds
  <2>3. sessions' \subseteq SessionType /\ \A y \in sessions' : y \in sessions \/ BoughtOK(y, owners', Len(customers'))
    BY <1>1 DEF Typed, StripeOK
  <2>4. customers' \in Seq(Owners)
    BY <1>1 DEF Typed, StripeOK
  <2> QED BY <1>7, <1>9, <2>1, <2>2, <2>3, <2>4, StripeStep
<1>13. EventsOK'
  <2>1. \A u \in 1 .. Len(subs) : subs'[u].cust = subs[u].cust /\ subs'[u].acct = subs[u].acct
    BY <1>7
  <2>2. s \in 1 .. Len(subs') /\ 0 <= owners'
    BY <1>1, <1>6, <1>7, Domains
  <2>3. EventOK(e, subs', owners') /\ EventOK(f, subs', owners')
    BY <1>3, <1>4, <1>5, <1>7, <2>2 DEF EventOK
  <2>4. \A i \in 1 .. Len(events') :
           \/ i \in 1 .. Len(events) /\ events'[i].sub = events[i].sub /\ events'[i].acct = events[i].acct
              /\ events'[i].cust = events[i].cust /\ events'[i].to \in {events[i].to} \cup 0 .. owners
           \/ EventOK(events'[i], subs', owners')
    <3>1. \A i \in 1 .. Len(events') : i \in 1 .. Len(events) \/ i = Len(events) + 1 \/ i = Len(events) + 2
      BY <1>6, <1>8
    <3> QED BY <1>8, <2>3, <3>1
  <2>5. Len(events') <= MaxEvents
    BY <1>1, <1>8
  <2> QED BY <1>8, <1>9, <2>1, <2>4, <2>5, EventsStep
<1>14. HistoryOK'
  <2>1. raced' \subseteq Owners
    BY <1>1, <1>2 DEF Typed, HistoryOK
  <2> QED BY <1>1, <2>1 DEF Typed, HistoryOK
<1>15. HomeOK'
  <2>1. \A u \in 1 .. Len(subs') :
           \/ u \in 1 .. Len(subs) /\ subs'[u].cust = subs[u].cust /\ subs'[u].acct = subs[u].acct
           \/ \E y \in sessions : subs'[u].cust = y.cust /\ subs'[u].acct = y.acct
    BY <1>3, <1>7, <1>11
  <2> QED BY <1>1, <2>1, HomeStays DEF Typed, ReqsOK, Rows
<1>16. Begun(x, sec)
  BY <1>3, <1>4, <1>5, <1>7, <1>8 DEF Begun
<1> QED BY <1>1, <1>9, <1>12, <1>13, <1>14, <1>15, <1>16 DEF Typed

\* Only event i changes, and of it only its fate.
Fated(i) ==
  /\ Len(events') = Len(events) /\ \A j \in 1 .. Len(events) : j # i => events'[j] = events[j]
  /\ events'[i].type = events[i].type /\ events'[i].sub = events[i].sub /\ events'[i].acct = events[i].acct
  /\ events'[i].cust = events[i].cust /\ events'[i].status = events[i].status /\ events'[i].sec = events[i].sec

LEMMA FatedTyped ==
  ASSUME Typed, UNCHANGED <<owners, customers, sessions, subs>>, NEW i \in 1 .. Len(events),
         NEW fate \in {"due", "applied", "unmatched", "lost"}, NEW to \in 0 .. owners,
         events' = [events EXCEPT ![i].fate = fate, ![i].to = to]
  PROVE  EventsOK' /\ Fated(i) /\ events'[i].fate = fate /\ events'[i].to = to
<1> DEFINE e == [events[i] EXCEPT !.fate = fate, !.to = to]
<1>1. events \in Seq(EventType) /\ Len(events) \in Nat /\ events[i] \in EventType
  BY Domains DEF Typed, EventsOK
<1>2. events' = [events EXCEPT ![i] = e]
  <2> DEFINE d == [events[i] EXCEPT !.fate = fate]
             f == [events EXCEPT ![i] = d]
  <2>1. events' = [f EXCEPT ![i] = [f[i] EXCEPT !.to = to]]
    OBVIOUS
  <2>2. f[i] = d
    BY <1>1
  <2>3. e = [d EXCEPT !.to = to]
    OBVIOUS
  <2> HIDE DEF d, e
  <2>4. events' = [f EXCEPT ![i] = e]
    BY <2>1, <2>2, <2>3
  <2>5. [f EXCEPT ![i] = e] = [events EXCEPT ![i] = e]
    BY <1>1
  <2> QED BY <2>4, <2>5
<1>3. to \in 0 .. MaxOwners
  <2>1. owners \in 0 .. MaxOwners /\ owners \in Nat /\ MaxOwners \in Nat
    BY Domains, Constants DEF Typed, HistoryOK
  <2> QED BY <2>1
<1>4. /\ e \in EventType /\ e.type = events[i].type /\ e.sub = events[i].sub /\ e.acct = events[i].acct
      /\ e.cust = events[i].cust /\ e.status = events[i].status /\ e.sec = events[i].sec /\ e.fate = fate /\ e.to = to
  BY <1>1, <1>3 DEF EventType
<1> HIDE DEF e
<1>5. events' \in Seq(EventType) /\ Len(events') = Len(events) /\ events'[i] = e
      /\ \A j \in 1 .. Len(events) : j # i => events'[j] = events[j]
  <2> DEFINE q == [events EXCEPT ![i] = e]
  <2>1. q \in Seq(EventType) /\ Len(q) = Len(events) /\ q[i] = e /\ \A j \in 1 .. Len(events) : j # i => q[j] = events[j]
    BY <1>1, <1>4, Replaced
  <2>2. events' = q
    BY <1>2
  <2> HIDE DEF q
  <2> QED BY ONLY <2>1, <2>2
<1>6. EventsOK'
  <2>1. \A j \in 1 .. Len(events') :
           \/ j \in 1 .. Len(events) /\ events'[j].sub = events[j].sub /\ events'[j].acct = events[j].acct
              /\ events'[j].cust = events[j].cust /\ events'[j].to \in {events[j].to} \cup 0 .. owners
           \/ EventOK(events'[j], subs', owners')
    BY <1>4, <1>5
  <2>2. \A u \in 1 .. Len(subs) : subs'[u].cust = subs[u].cust /\ subs'[u].acct = subs[u].acct
    OBVIOUS
  <2>3. Len(events') <= MaxEvents
    BY <1>5 DEF Typed, EventsOK
  <2>4. Grow
    BY PartsStay
  <2> QED BY <1>5, <2>1, <2>2, <2>3, <2>4, EventsStep
<1> QED BY <1>4, <1>5, <1>6 DEF Fated

LEMMA DeliverTyped ==
  ASSUME Typed, NEW i \in 1 .. Len(events), Deliver(i)
  PROVE  /\ Typed' /\ RowsKeep /\ Rows' = Rows /\ Fated(i) /\ events[i].fate = "due"
         /\ events'[i].to = (IF events[i].acct \in Rows THEN row[events[i].acct].owner ELSE 0)
         /\ events'[i].fate = (IF events[i].acct \in Rows THEN "applied" ELSE "unmatched")
         /\ \A a \in Accts : row'[a] = IF a \in Rows /\ a = events[i].acct THEN Applied(row[a], events[i]) ELSE row[a]
         /\ UNCHANGED <<now, req, del, customers, sessions, subs, asked, owners, gone, raced, crashes>>
<1> DEFINE e == events[i]   a == AccountIdFrom(events[i])
           fate == IF a = 0 THEN "unmatched" ELSE "applied"
           to == IF a = 0 THEN 0 ELSE row[a].owner
<1>1. /\ e.fate = "due" /\ events' = [events EXCEPT ![i].fate = fate, ![i].to = to]
      /\ row' = (IF a = 0 THEN row ELSE [row EXCEPT ![a] = Applied(row[a], e)])
      /\ UNCHANGED <<now, req, del, customers, sessions, subs, asked, owners, gone, raced, crashes>>
  BY DEF Deliver, stripeVars, history
<1>2. \/ a = 0 /\ e.acct \notin Rows
      \/ a = e.acct /\ a \in Rows /\ a \in Accts \ Exempt /\ a # 0
  BY WebhookRow
<1>3. /\ e \in EventType /\ e.cust \in 1 .. Len(customers) /\ e.sub \in 1 .. Len(subs)
      /\ e.acct = subs[e.sub].acct /\ e.cust = subs[e.sub].cust
  BY EventFields
<1>4. /\ fate = (IF e.acct \in Rows THEN "applied" ELSE "unmatched")
      /\ to = (IF e.acct \in Rows THEN row[e.acct].owner ELSE 0)
  BY <1>2
<1>5. fate \in {"due", "applied", "unmatched", "lost"} /\ to \in 0 .. owners
  BY <1>2, RowFields, Domains DEF Rows
<1>6. row \in [Accts -> RowType \cup {None}]
  BY DEF Typed, RowsOK
<1>7. \A b \in Accts : row'[b] = IF b \in Rows /\ b = e.acct THEN Applied(row[b], e) ELSE row[b]
  BY <1>1, <1>2, <1>6
<1> HIDE DEF fate, to, a
<1>8. EventsOK' /\ Fated(i) /\ events'[i].fate = fate /\ events'[i].to = to
  BY <1>1, <1>5, FatedTyped
<1>9. ASSUME NEW b \in Rows, b = e.acct
      PROVE  /\ RowOK(b, row'[b], owners', Len(customers'), Len(subs')) /\ row'[b] \in RowType
             /\ row'[b].owner = row[b].owner /\ row'[b].trial = row[b].trial
             /\ row'[b].customer \in {row[b].customer, e.cust}
  <2>1. /\ b \in Accts /\ row[b] # None /\ row[b] \in RowType /\ RowOK(b, row[b], owners, Len(customers), Len(subs))
    BY RowFields DEF Rows
  <2>2. row'[b] = Applied(row[b], e)
    BY <1>7, <1>9, <2>1
  <2> DEFINE r == Applied(row[b], e)
  <2>3. /\ r \in RowType /\ r.owner = row[b].owner /\ r.trial = row[b].trial
        /\ r.customer \in {row[b].customer, e.cust} /\ r.sub \in {row[b].sub, e.sub}
    <3>1. CASE e.type = "completed"
      BY <1>3, <2>1, <3>1, AppliedRow
    <3>2. CASE e.type # "completed" /\ ~Newer(row[b], e)
      BY <1>3, <2>1, <3>2, AppliedRow
    <3>3. CASE e.type # "completed" /\ Newer(row[b], e)
      BY <1>3, <2>1, <3>3, AppliedRow
    <3> QED BY <3>1, <3>2, <3>3
  <2> HIDE DEF r
  <2>4. RowOK(b, r, owners, Len(customers), Len(subs))
    BY <1>3, <2>1, <2>3 DEF RowOK
  <2> QED BY <1>1, <2>2, <2>3, <2>4 DEF r
<1>10. row' \in [Accts -> RowType \cup {None}]
  <2>1. CASE e.acct \in Rows
    BY <1>1, <1>2, <1>6, <1>9, <2>1
  <2>2. CASE e.acct \notin Rows
    BY <1>1, <1>2, <1>6, <2>2
  <2> QED BY <2>1, <2>2
<1>11. Rows' = Rows
  BY <1>7, <1>9, Constants DEF Rows
<1>12. RowsKeep
  BY <1>7, <1>9, <1>11 DEF RowsKeep, Rows
<1>13. Grow /\ ReqsOK' /\ StripeOK'
  BY <1>1, PartsStay DEF stripeVars
<1>14. RowsOK'
  <2>1. \A b \in Accts : \/ row'[b] = row[b] \/ (row'[b] = None /\ b \notin Exempt)
                         \/ RowOK(b, row'[b], owners', Len(customers'), Len(subs'))
    BY <1>7, <1>9
  <2> QED BY <1>10, <1>13, <2>1, RowsStep
<1>15. DelsOK'
  <2>1. del' \in [Accts -> DelType] /\ \A b \in Accts : del'[b] = del[b] /\ (b \in Rows => b \in Rows')
    BY <1>1, <1>11 DEF Typed, DelsOK
  <2> QED BY <1>13, <2>1, DelsStep
<1>16. HistoryOK'
  BY <1>1 DEF Typed, HistoryOK
<1>17. HomeOK'
  <2>1. \A b \in Rows' : row'[b].customer # None =>
            \/ b \in Rows /\ row'[b].customer = row[b].customer
            \/ \E s \in 1 .. Len(subs) : row'[b].customer = subs[s].cust /\ b = subs[s].acct
    <3> SUFFICES ASSUME NEW b \in Rows'
                 PROVE  \/ b \in Rows /\ row'[b].customer = row[b].customer
                        \/ \E s \in 1 .. Len(subs) : row'[b].customer = subs[s].cust /\ b = subs[s].acct
      OBVIOUS
    <3>1. b \in Rows /\ b \in Accts
      BY <1>11 DEF Rows
    <3>2. CASE b = e.acct
      BY <1>3, <1>9, <3>1, <3>2
    <3>3. CASE b # e.acct
      BY <1>7, <3>1, <3>3
    <3> QED BY <3>2, <3>3
  <2> QED BY <1>1, <2>1, HomeStays DEF Typed, ReqsOK
<1> QED BY <1>1, <1>4, <1>7, <1>8, <1>11, <1>12, <1>13, <1>14, <1>15, <1>16, <1>17 DEF Typed

LEMMA CrashTyped ==
  ASSUME Typed, NEW i \in 1 .. Len(events), CrashInWebhook(i)
  PROVE  /\ Typed' /\ Fated(i) /\ events[i].fate = "due" /\ events'[i].fate = "lost" /\ events'[i].to = events[i].to
         /\ \A r \in Reqs : req'[r] = NoReq
         /\ \A a \in Accts : del'[a] = NoDel
         /\ UNCHANGED <<now, row, customers, sessions, subs, asked, owners, gone, raced>>
<1>1. /\ events[i].fate = "due" /\ crashes < MaxCrashes /\ crashes' = crashes + 1
      /\ req' = [r \in Reqs |-> NoReq] /\ del' = [a \in Accts |-> NoDel]
      /\ events' = [events EXCEPT ![i].fate = "lost"]
      /\ UNCHANGED <<now, row, customers, sessions, subs, asked, owners, gone, raced>>
  BY DEF CrashInWebhook, Restarted, stripeVars
<1>2. events[i] \in EventType /\ events[i].to \in 0 .. owners /\ events \in Seq(EventType)
  BY EventFields, Domains DEF Typed, EventsOK
<1>3. events' = [events EXCEPT ![i].fate = "lost", ![i].to = events[i].to]
  <2>1. [events[i] EXCEPT !.fate = "lost"] = [events[i] EXCEPT !.fate = "lost", !.to = events[i].to]
    BY <1>2 DEF EventType
  <2> QED BY <1>1, <1>2, <2>1
<1>4. EventsOK' /\ Fated(i) /\ events'[i].fate = "lost" /\ events'[i].to = events[i].to
  BY <1>1, <1>2, <1>3, FatedTyped
<1>5. RowsOK' /\ ReqsOK' /\ StripeOK' /\ DelsOK'
  BY <1>1, PartsStay DEF stripeVars
<1>6. HistoryOK'
  BY <1>1, Constants DEF Typed, HistoryOK
<1>7. \A r \in Reqs : req'[r] = NoReq /\ req'[r].pc = "idle"
  BY <1>1, Records
<1>8. HomeOK'
  <2>1. req' \in [Reqs -> ReqType]
    BY <1>5 DEF ReqsOK
  <2>2. \A r \in Reqs : req'[r].pc # "session"
    BY <1>7
  <2> QED BY <1>1, <2>1, <2>2, HomeStays DEF Rows
<1> QED BY <1>1, <1>4, <1>5, <1>6, <1>7, <1>8 DEF Typed

\* Row a is deleted, and its owner is in the history.
Removed(a, calm) ==
  /\ a \in Rows \ Exempt /\ Rows' = Rows \ {a} /\ \A b \in Rows' : row'[b] = row[b]
  /\ gone' = gone \cup {[owner |-> row[a].owner, calm |-> calm]}

LEMMA RemovedTyped ==
  ASSUME Typed, UNCHANGED <<now, asked, owners, raced, crashes>>, NEW a \in Rows \ Exempt, NEW calm \in BOOLEAN, DeleteRows(a, calm)
  PROVE  Removed(a, calm) /\ HistoryOK' /\ (Grow => RowsOK')
<1>1. a \in Accts /\ row[a] # None /\ row[a].owner \in Nat /\ row[a].owner <= owners
  BY RowFields DEF Rows
<1>2. row' = [row EXCEPT ![a] = None] /\ gone' = gone \cup {[owner |-> row[a].owner, calm |-> calm]}
  BY <1>1 DEF DeleteRows
<1>3. /\ row' \in [Accts -> RowType \cup {None}] /\ row'[a] = None
      /\ \A b \in Accts : b # a => row'[b] = row[b]
  BY <1>1, <1>2 DEF Typed, RowsOK
<1>4. Removed(a, calm)
  BY <1>2, <1>3 DEF Removed, Rows
<1>5. HistoryOK'
  BY <1>1, <1>2 DEF Typed, HistoryOK
<1>6. Grow => RowsOK'
  <2>1. \A b \in Accts : \/ row'[b] = row[b] \/ (row'[b] = None /\ b \notin Exempt)
                         \/ RowOK(b, row'[b], owners', Len(customers'), Len(subs'))
    BY <1>3
  <2> QED BY <1>3, <2>1, RowsStep
<1> QED BY <1>4, <1>5, <1>6

LEMMA DeleteTyped ==
  ASSUME Typed, NEW a \in Accts, DeleteRequest(a)
  PROVE  /\ Typed' /\ a \in Rows \ Exempt /\ del[a].pc = "idle"
         /\ \/ /\ MustCancel(row[a]) /\ UNCHANGED <<row, gone>>
               /\ \A b \in Accts : b # a => del'[b] = del[b]
               /\ del'[a].pc = "cancel" /\ del'[a].sub = row[a].sub
               /\ del'[a].calm = (Settled(a) /\ ~Buying(row[a].owner))
            \/ ~MustCancel(row[a]) /\ Removed(a, Settled(a) /\ ~Buying(row[a].owner)) /\ UNCHANGED del
         /\ UNCHANGED <<now, req, customers, sessions, subs, events, asked, owners, raced, crashes>>
<1> DEFINE calm == Settled(a) /\ ~Buying(row[a].owner)
           d == [pc |-> "cancel", sub |-> row[a].sub, calm |-> calm]
<1>1. /\ row[a] # None /\ a \notin Exempt /\ del[a].pc = "idle"
      /\ UNCHANGED <<now, req, customers, sessions, subs, events, asked, owners, raced, crashes>>
  BY DEF DeleteRequest, stripeVars
<1>2. a \in Rows \ Exempt
  BY <1>1 DEF Rows
<1>3. calm \in BOOLEAN
  BY DEF Settled, Buying
<1>4. Grow /\ ReqsOK' /\ StripeOK' /\ EventsOK'
  BY <1>1, PartsStay DEF stripeVars
<1>5. CASE MustCancel(row[a])
  <2>1. del' = [del EXCEPT ![a] = d] /\ UNCHANGED <<row, gone>>
    BY <1>5 DEF DeleteRequest
  <2>2. row[a].sub \in 1 .. Len(subs) /\ row[a].sub \in SubIds
    <3>1. row[a].sub # None
      BY <1>5 DEF MustCancel
    <3>2. row[a].sub \in 1 .. Len(subs) /\ row[a] \in RowType
      BY <1>1, <3>1, RowFields
    <3> QED BY <3>1, <3>2 DEF RowType
  <2>3. d \in DelType /\ d.pc = "cancel" /\ d.sub = row[a].sub /\ d.calm = calm
    BY <1>3, <2>2 DEF DelType
  <2> HIDE DEF d
  <2>4. del' \in [Accts -> DelType] /\ del'[a] = d /\ \A b \in Accts : b # a => del'[b] = del[b]
    BY <2>1, <2>3 DEF Typed, DelsOK
  <2>5. RowsOK' /\ Rows' = Rows
    BY <1>1, <2>1, PartsStay DEF Rows
  <2>6. DelsOK'
    <3>1. \A b \in Accts : \/ del'[b].pc = "idle"
                           \/ del'[b] = del[b] /\ (b \in Rows => b \in Rows')
                           \/ b \in Rows' \ Exempt /\ del'[b].sub \in 1 .. Len(subs')
      BY <1>1, <1>2, <2>2, <2>3, <2>4, <2>5
    <3> QED BY <1>4, <2>4, <3>1, DelsStep
  <2>7. HistoryOK'
    BY <1>1, <2>1 DEF Typed, HistoryOK
  <2>8. HomeOK'
    BY <1>1, <2>1, HomeStays DEF Typed, ReqsOK, Rows
  <2>9. del'[a].calm = calm /\ del'[a].pc = "cancel" /\ del'[a].sub = row[a].sub
    BY <2>3, <2>4
  <2> QED BY <1>1, <1>2, <1>4, <1>5, <2>1, <2>4, <2>5, <2>6, <2>7, <2>8, <2>9 DEF Typed
<1>6. CASE ~MustCancel(row[a])
  <2>1. DeleteRows(a, calm) /\ UNCHANGED del
    BY <1>6 DEF DeleteRequest
  <2> HIDE DEF calm
  <2>2. Removed(a, calm) /\ HistoryOK' /\ RowsOK'
    BY <1>1, <1>2, <1>3, <1>4, <2>1, RemovedTyped
  <2>3. DelsOK'
    <3>1. \A b \in Accts : \/ del'[b].pc = "idle"
                           \/ del'[b] = del[b] /\ (b \in Rows => b \in Rows')
                           \/ b \in Rows' \ Exempt /\ del'[b].sub \in 1 .. Len(subs')
      <4> SUFFICES ASSUME NEW b \in Accts
                   PROVE  del'[b].pc = "idle" \/ (del'[b] = del[b] /\ (b \in Rows => b \in Rows'))
        OBVIOUS
      <4>1. CASE b = a
        BY <1>1, <2>1, <4>1
      <4>2. CASE b # a
        BY <2>1, <2>2, <4>2 DEF Removed
      <4> QED BY <4>1, <4>2
    <3>2. del' \in [Accts -> DelType]
      BY <2>1 DEF Typed, DelsOK
    <3> QED BY <1>4, <3>1, <3>2, DelsStep
  <2>4. HomeOK'
    <3>1. \A b \in Rows' : b \in Rows /\ row'[b] = row[b]
      BY <2>2 DEF Removed
    <3> QED BY <1>1, <3>1, HomeStays DEF Typed, ReqsOK
  <2> QED BY <1>1, <1>2, <1>4, <1>6, <2>1, <2>2, <2>3, <2>4 DEF Typed, calm
<1> QED BY <1>5, <1>6

LEMMA CancelTyped ==
  ASSUME Typed, NEW a \in Accts, NEW sec \in Nat, CancelAnswers(a, sec)
  PROVE  /\ Typed' /\ del[a].pc = "cancel" /\ Live(del[a].sub) /\ del[a].sub \in 1 .. Len(subs)
         /\ Wrote(del[a].sub, "canceled", sec) /\ Turned(del[a].sub, "canceled") /\ Removed(a, del[a].calm)
         /\ \A b \in Accts : del'[b] = IF b = a THEN NoDel ELSE del[b]
         /\ UNCHANGED <<now, req, customers, sessions, asked, owners, raced, crashes>>
<1>1. /\ del[a].pc = "cancel" /\ Live(del[a].sub) /\ Len(events) < MaxEvents
      /\ Changed(del[a].sub, "canceled", sec) /\ DeleteRows(a, del[a].calm) /\ del' = [del EXCEPT ![a] = NoDel]
      /\ UNCHANGED <<now, req, customers, sessions, asked, owners, raced, crashes>>
  BY DEF CancelAnswers
<1>2. a \in Rows \ Exempt /\ del[a].sub \in 1 .. Len(subs) /\ del[a] \in DelType
  BY <1>1 DEF Typed, DelsOK
<1>3. del[a].calm \in BOOLEAN /\ "canceled" \in Statuses
  BY <1>2 DEF DelType, Statuses
<1>4. Removed(a, del[a].calm) /\ HistoryOK' /\ (Grow => RowsOK')
  BY <1>1, <1>2, <1>3, RemovedTyped
<1>5. /\ Grow /\ ReqsOK' /\ StripeOK' /\ EventsOK' /\ HomeOK'
      /\ Wrote(del[a].sub, "canceled", sec) /\ Turned(del[a].sub, "canceled")
  <2>1. \A b \in Rows' : b \in Rows /\ row'[b] = row[b]
    BY <1>4 DEF Removed
  <2> QED BY <1>1, <1>2, <1>3, <2>1, ChangedTyped
<1>6. del' \in [Accts -> DelType] /\ \A b \in Accts : del'[b] = IF b = a THEN NoDel ELSE del[b]
  BY <1>1, Records DEF Typed, DelsOK
<1>7. DelsOK'
  <2>1. \A b \in Accts : \/ del'[b].pc = "idle"
                         \/ del'[b] = del[b] /\ (b \in Rows => b \in Rows')
                         \/ b \in Rows' \ Exempt /\ del'[b].sub \in 1 .. Len(subs')
    BY <1>4, <1>6, Records DEF Removed
  <2> QED BY <1>5, <1>6, <2>1, DelsStep
<1> QED BY <1>1, <1>2, <1>4, <1>5, <1>6, <1>7 DEF Typed

LEMMA RefusedTyped ==
  ASSUME Typed, NEW a \in Accts, CancelRefused(a)
  PROVE  /\ Typed' /\ \A b \in Accts : del'[b] = IF b = a THEN NoDel ELSE del[b]
         /\ UNCHANGED <<now, row, req, customers, sessions, subs, events, asked, owners, gone, raced, crashes>>
<1>1. /\ del' = [del EXCEPT ![a] = NoDel]
      /\ UNCHANGED <<now, row, req, customers, sessions, subs, events, asked, owners, gone, raced, crashes>>
  BY DEF CancelRefused, history, stripeVars
<1>2. del' \in [Accts -> DelType] /\ \A b \in Accts : del'[b] = IF b = a THEN NoDel ELSE del[b]
  BY <1>1, Records DEF Typed, DelsOK
<1>3. /\ Grow /\ RowsOK' /\ ReqsOK' /\ StripeOK' /\ EventsOK'
  BY <1>1, PartsStay DEF stripeVars
<1>4. DelsOK'
  <2>1. \A b \in Accts : \/ del'[b].pc = "idle"
                         \/ del'[b] = del[b] /\ (b \in Rows => b \in Rows')
                         \/ b \in Rows' \ Exempt /\ del'[b].sub \in 1 .. Len(subs')
    BY <1>1, <1>2, Records DEF Rows
  <2> QED BY <1>2, <1>3, <2>1, DelsStep
<1>5. HistoryOK' /\ HomeOK'
  BY <1>1 DEF Typed, HistoryOK, HomeOK, Rows
<1> QED BY <1>1, <1>2, <1>3, <1>4, <1>5 DEF Typed

\* The steps, one for each action, with what their quantifiers range over.
LEMMA Actions ==
  ASSUME Typed, Next
  PROVE  \/ Advance
         \/ \E a \in Accts : Signup(a) \/ DeleteRequest(a) \/ CancelRefused(a)
         \/ \E a \in Accts, sec \in Secs : CancelAnswers(a, sec)
         \/ \E r \in Reqs, a \in Accts : CheckoutRequest(r, a)
         \/ \E r \in Reqs : CustomerCreated(r) \/ SessionCreated(r) \/ CheckoutFails(r)
         \/ \E x \in sessions, sec \in Secs : Subscribe(x, sec)
         \/ \E s \in 1 .. Len(subs), sec \in Secs, status \in Statuses :
              /\ Live(s) /\ Len(events) < MaxEvents /\ Changed(s, status, sec)
              /\ UNCHANGED <<now, row, req, del, customers, sessions, asked, owners, gone, raced, crashes>>
         \/ \E i \in 1 .. Len(events) : Deliver(i) \/ CrashInWebhook(i)
<1>1. DOMAIN events = 1 .. Len(events) /\ DOMAIN subs = 1 .. Len(subs)
  BY Domains
<1>2. ASSUME Checkout
      PROVE  \/ \E r \in Reqs, a \in Accts : CheckoutRequest(r, a)
             \/ \E r \in Reqs : CustomerCreated(r) \/ SessionCreated(r) \/ CheckoutFails(r)
  BY <1>2 DEF Checkout
<1>3. ASSUME Webhook PROVE \E i \in 1 .. Len(events) : Deliver(i) \/ CrashInWebhook(i)
  BY <1>1, <1>3 DEF Webhook
<1>4. ASSUME Deletion
      PROVE  \/ \E a \in Accts : Signup(a) \/ DeleteRequest(a) \/ CancelRefused(a)
             \/ \E a \in Accts, sec \in Secs : CancelAnswers(a, sec)
  BY <1>4 DEF Deletion
<1>5. ASSUME Stripe
      PROVE  \/ \E x \in sessions, sec \in Secs : Subscribe(x, sec)
             \/ \E s \in 1 .. Len(subs), sec \in Secs, status \in Statuses :
                  /\ Live(s) /\ Len(events) < MaxEvents /\ Changed(s, status, sec)
                  /\ UNCHANGED <<now, row, req, del, customers, sessions, asked, owners, gone, raced, crashes>>
  <2>1. ASSUME NEW s \in DOMAIN subs, NEW sec \in Secs, NEW status \in Statuses, PaymentChange(s, status, sec)
        PROVE  /\ Live(s) /\ Len(events) < MaxEvents /\ Changed(s, status, sec)
               /\ UNCHANGED <<now, row, req, del, customers, sessions, asked, owners, gone, raced, crashes>>
    BY <2>1 DEF PaymentChange, history
  <2>2. ASSUME NEW s \in DOMAIN subs, NEW sec \in Secs, NEW a \in Accts, PortalCancel(a, s, sec)
        PROVE  /\ Live(s) /\ Len(events) < MaxEvents /\ Changed(s, "canceled", sec) /\ "canceled" \in Statuses
               /\ UNCHANGED <<now, row, req, del, customers, sessions, asked, owners, gone, raced, crashes>>
    BY <2>2 DEF PortalCancel, history, Statuses
  <2>3. CASE \E x \in sessions, sec \in Secs : Subscribe(x, sec)
    BY <2>3
  <2>4. CASE \E s \in DOMAIN subs, sec \in Secs :
               \/ \E status \in Statuses : PaymentChange(s, status, sec)
               \/ \E a \in Accts : PortalCancel(a, s, sec)
    BY <1>1, <2>1, <2>2, <2>4
  <2> QED BY <1>5, <2>3, <2>4 DEF Stripe
<1> QED BY <1>2, <1>3, <1>4, <1>5 DEF Next

LEMMA TypedStep == Typed /\ [Next]_vars => Typed'
<1> SUFFICES ASSUME Typed, [Next]_vars PROVE Typed'
  OBVIOUS
<1> USE SecsTyped
<1>1. CASE UNCHANGED vars
  BY <1>1 DEF vars, stripeVars, history, Typed, RowsOK, ReqsOK, StripeOK, EventsOK, DelsOK, HistoryOK, HomeOK, Rows
<1>2. CASE Advance
  BY <1>2, AdvanceTyped
<1>3. ASSUME NEW a \in Accts, Signup(a) \/ DeleteRequest(a) \/ CancelRefused(a) PROVE Typed'
  BY <1>3, SignupTyped, DeleteTyped, RefusedTyped
<1>4. ASSUME NEW a \in Accts, NEW sec \in Secs, CancelAnswers(a, sec) PROVE Typed'
  BY <1>4, CancelTyped
<1>5. ASSUME NEW r \in Reqs, NEW a \in Accts, CheckoutRequest(r, a) PROVE Typed'
  BY <1>5, RequestTyped
<1>6. ASSUME NEW r \in Reqs, CustomerCreated(r) \/ SessionCreated(r) \/ CheckoutFails(r) PROVE Typed'
  BY <1>6, CustomerTyped, SessionTyped, FailsTyped
<1>7. ASSUME NEW x \in sessions, NEW sec \in Secs, Subscribe(x, sec) PROVE Typed'
  BY <1>7, SubscribeTyped
<1>8. ASSUME NEW s \in 1 .. Len(subs), NEW sec \in Secs, NEW status \in Statuses,
             Len(events) < MaxEvents, Changed(s, status, sec),
             UNCHANGED <<now, row, req, del, customers, sessions, asked, owners, gone, raced, crashes>>
      PROVE  Typed'
  BY <1>8, TurnTyped
<1>9. ASSUME NEW i \in 1 .. Len(events), Deliver(i) \/ CrashInWebhook(i) PROVE Typed'
  BY <1>9, DeliverTyped, CrashTyped
<1>10. CASE Next
  BY <1>2, <1>3, <1>4, <1>5, <1>6, <1>7, <1>8, <1>9, <1>10, Actions
<1> QED BY <1>1, <1>10
-----------------------------------------------------------------------------
(* Whose the row, the requests and the subscriptions are.                  *)

\* What is left of the trial is carried into what is bought, but for what Stripe does not take.
KeepsTrial(carry, trial) == IF carry = None THEN now + MinCarry >= trial ELSE carry = trial

\* Owners are apart, a deleted one has no row, and what an owner asks for and buys is for his
\* own row and begins with the trial.
Own ==
  /\ \A a, b \in Rows \ Exempt : row[a].owner = row[b].owner => a = b
  /\ \A g \in gone, a \in Rows \ Exempt : g.owner # row[a].owner
  /\ \A a \in Rows \ Exempt :
       /\ \A r \in Reqs : req[r].pc # "idle" /\ req[r].owner = row[a].owner =>
                            req[r].acct = a /\ KeepsTrial(req[r].carry, row[a].trial)
       /\ \A x \in sessions : x.owner = row[a].owner => x.acct = a /\ KeepsTrial(x.carry, row[a].trial)
       /\ \A s \in 1 .. Len(subs) : subs[s].owner = row[a].owner =>
                            subs[s].acct = a /\ subs[s].charged + MinCarry >= row[a].trial
       /\ \A i \in 1 .. Len(events) : events[i].to = row[a].owner => events[i].acct = a

LEMMA OwnStays ==
  ASSUME Typed, Own, RowsKeep, now' \in Nat, now <= now',
         \A r \in Reqs :
           \/ req'[r].pc = "idle"
           \/ req[r].pc # "idle" /\ req'[r].acct = req[r].acct /\ req'[r].owner = req[r].owner /\ req'[r].carry = req[r].carry
           \/ \E a \in Rows \ Exempt : req'[r].acct = a /\ req'[r].owner = row[a].owner /\ req'[r].carry = CarriedTrial(row[a]),
         \A x \in sessions' :
           \/ x \in sessions
           \/ \E r \in Reqs : req[r].pc # "idle" /\ x.acct = req[r].acct /\ x.owner = req[r].owner /\ x.carry = req[r].carry,
         \A s \in 1 .. Len(subs') :
           \/ s \in 1 .. Len(subs) /\ subs'[s].acct = subs[s].acct /\ subs'[s].owner = subs[s].owner
              /\ subs'[s].charged = subs[s].charged
           \/ \E x \in sessions : subs'[s].acct = x.acct /\ subs'[s].owner = x.owner
                                  /\ subs'[s].charged = IF x.carry = None THEN now ELSE x.carry,
         \A i \in 1 .. Len(events') :
           \/ events'[i].to = 0
           \/ i \in 1 .. Len(events) /\ events'[i].acct = events[i].acct /\ events'[i].to = events[i].to
           \/ \E a \in Rows \ Exempt : events'[i].acct = a /\ events'[i].to = row[a].owner,
         \A g \in gone' : \/ g \in gone
                          \/ \E a \in Rows \ Exempt : a \notin Rows' /\ g.owner = row[a].owner
  PROVE  Own'
<1>1. \A a \in Rows' \ Exempt : /\ a \in Rows \ Exempt /\ row'[a].owner = row[a].owner /\ row'[a].trial = row[a].trial
                                /\ row[a].owner >= 1 /\ row[a].owner \in Nat /\ row[a].trial \in Nat
  BY RowFields DEF RowsKeep, Rows
<1>2. \A a, b \in Rows' \ Exempt : row'[a].owner = row'[b].owner => a = b
  BY <1>1 DEF Own
<1>3. \A g \in gone', a \in Rows' \ Exempt : g.owner # row'[a].owner
  BY <1>1 DEF Own
<1>4. now \in Nat /\ MinCarry \in Nat /\ None \notin Nat
  BY Domains, Constants
<1>5. \A c \in Nat \cup {None}, t \in Nat : KeepsTrial(c, t) => IF c = None THEN now' + MinCarry >= t ELSE c = t
  BY <1>4 DEF KeepsTrial
<1>6. ASSUME NEW a \in Rows' \ Exempt, NEW r \in Reqs, req'[r].pc # "idle", req'[r].owner = row'[a].owner
      PROVE  req'[r].acct = a /\ (IF req'[r].carry = None THEN now' + MinCarry >= row'[a].trial ELSE req'[r].carry = row'[a].trial)
  <2>1. CASE req[r].pc # "idle" /\ req'[r].acct = req[r].acct /\ req'[r].owner = req[r].owner /\ req'[r].carry = req[r].carry
    <3>0. req[r].owner = row[a].owner /\ a \in Rows \ Exempt
      BY <1>1, <1>6, <2>1
    <3>1. req[r].acct = a /\ KeepsTrial(req[r].carry, row[a].trial)
      BY <2>1, <3>0, Zenon DEF Own
    <3>2. req[r].carry \in Nat \cup {None}
      BY <2>1, ReqFields
    <3> QED BY <1>1, <1>5, <2>1, <3>1, <3>2
  <2>2. CASE \E b \in Rows \ Exempt : req'[r].acct = b /\ req'[r].owner = row[b].owner /\ req'[r].carry = CarriedTrial(row[b])
    <3>0. PICK b \in Rows \ Exempt : req'[r].acct = b /\ req'[r].owner = row[b].owner /\ req'[r].carry = CarriedTrial(row[b])
      BY <2>2
    <3>a. a \in Rows \ Exempt /\ row[a].owner = row[b].owner
      BY <1>1, <1>6, <3>0
    <3>b. a = b
      BY <3>a, Zenon DEF Own
    <3>1. req'[r].acct = a /\ req'[r].carry = CarriedTrial(row[a])
      BY <3>0, <3>b
    <3>2. KeepsTrial(CarriedTrial(row[a]), row[a].trial) /\ CarriedTrial(row[a]) \in Nat \cup {None}
      BY <1>1, <1>4 DEF KeepsTrial, CarriedTrial
    <3> QED BY <1>1, <1>5, <3>1, <3>2
  <2> QED BY <1>6, <2>1, <2>2
<1>7. ASSUME NEW a \in Rows' \ Exempt, NEW x \in sessions', x.owner = row'[a].owner
      PROVE  x.acct = a /\ (IF x.carry = None THEN now' + MinCarry >= row'[a].trial ELSE x.carry = row'[a].trial)
  <2>1. x.acct = a /\ KeepsTrial(x.carry, row[a].trial) /\ x.carry \in Nat \cup {None}
    <3>1. CASE x \in sessions
      <4>1. x.acct = a /\ KeepsTrial(x.carry, row[a].trial)
        BY <1>1, <1>7, <3>1 DEF Own
      <4> QED BY <3>1, <4>1, SessionFields
    <3>2. CASE \E r \in Reqs : req[r].pc # "idle" /\ x.acct = req[r].acct /\ x.owner = req[r].owner /\ x.carry = req[r].carry
      <4>1. PICK r \in Reqs : req[r].pc # "idle" /\ x.acct = req[r].acct /\ x.owner = req[r].owner /\ x.carry = req[r].carry
        BY <3>2
      <4>2. req[r].acct = a /\ KeepsTrial(req[r].carry, row[a].trial)
        BY <1>1, <1>7, <4>1 DEF Own
      <4> QED BY <4>1, <4>2, ReqFields
    <3> QED BY <3>1, <3>2
  <2> QED BY <1>1, <1>5, <2>1
<1>8. ASSUME NEW a \in Rows' \ Exempt, NEW s \in 1 .. Len(subs'), subs'[s].owner = row'[a].owner
      PROVE  subs'[s].acct = a /\ subs'[s].charged + MinCarry >= row'[a].trial
  <2>1. CASE s \in 1 .. Len(subs) /\ subs'[s].acct = subs[s].acct /\ subs'[s].owner = subs[s].owner
             /\ subs'[s].charged = subs[s].charged
    <3>1. subs[s].owner = row[a].owner /\ a \in Rows \ Exempt /\ row'[a].trial = row[a].trial
      BY <1>1, <1>8, <2>1
    <3>2. subs[s].acct = a /\ subs[s].charged + MinCarry >= row[a].trial
      BY <2>1, <3>1, Zenon DEF Own
    <3> QED BY <2>1, <3>1, <3>2
  <2>2. CASE \E x \in sessions : subs'[s].acct = x.acct /\ subs'[s].owner = x.owner
                                 /\ subs'[s].charged = IF x.carry = None THEN now ELSE x.carry
    <3>1. PICK x \in sessions : subs'[s].acct = x.acct /\ subs'[s].owner = x.owner
                                /\ subs'[s].charged = IF x.carry = None THEN now ELSE x.carry
      BY <2>2
    <3>2. x.acct = a /\ KeepsTrial(x.carry, row[a].trial)
      BY <1>1, <1>8, <3>1 DEF Own
    <3> QED BY <1>1, <1>4, <3>1, <3>2 DEF KeepsTrial
  <2> QED BY <2>1, <2>2
<1>9. ASSUME NEW a \in Rows' \ Exempt, NEW i \in 1 .. Len(events'), events'[i].to = row'[a].owner
      PROVE  events'[i].acct = a
  BY <1>1, <1>9 DEF Own
<1> QED BY <1>2, <1>3, <1>6, <1>7, <1>8, <1>9 DEF Own, KeepsTrial

LEMMA OwnInit == Init => Own
<1> SUFFICES ASSUME Init PROVE Own
  OBVIOUS
<1>1. Rows \ Exempt = {}
  BY DEF Init, Rows
<1> QED BY <1>1 DEF Own

LEMMA OwnStep == Typed /\ Own /\ [Next]_vars => Own'
<1> SUFFICES ASSUME Typed, Own, [Next]_vars PROVE Own'
  OBVIOUS
<1>0. now \in Nat /\ now <= now /\ Secs \subseteq Nat
  BY Domains, SecsTyped
<1>1. CASE UNCHANGED vars
  BY <1>1 DEF vars, stripeVars, history, Own, KeepsTrial, Rows
<1>2. CASE Advance
  <2>1. /\ now' = now + 1
        /\ UNCHANGED <<row, req, del, customers, sessions, subs, events, asked, owners, gone, raced, crashes>>
    BY <1>2, AdvanceTyped
  <2>2. RowsKeep /\ now' \in Nat /\ now <= now'
    BY <1>0, <2>1 DEF RowsKeep, Rows
  <2> QED BY <2>1, <2>2, OwnStays
<1>3. ASSUME NEW a \in Accts, Signup(a) PROVE Own'
  <2>1. /\ a \notin Rows /\ a \notin Exempt
        /\ row' = [row EXCEPT ![a] = NewRow(owners + 1, now + TrialLen)] /\ row \in [Accts -> RowType \cup {None}]
        /\ UNCHANGED <<now, req, del, customers, sessions, subs, events, gone>>
    BY <1>3, SignupTyped
  <2>2. /\ row'[a].owner = owners + 1 /\ \A b \in Accts : b # a => row'[b] = row[b]
        /\ owners \in Nat
    BY <2>1, Domains DEF NewRow
  <2>3. \A b \in Rows' \ Exempt : b = a \/ (b \in Rows \ Exempt /\ row'[b] = row[b] /\ row[b].owner # owners + 1)
    <3>1. \A b \in Rows : row[b].owner \in Nat /\ row[b].owner <= owners
      BY RowFields DEF Rows
    <3> QED BY <2>2, <3>1 DEF Rows
  <2>4. \A r \in Reqs : req'[r].pc # "idle" => req'[r].owner # owners + 1
    BY <2>1, <2>2, ReqFields
  <2>5. \A x \in sessions' : x.owner # owners + 1
    BY <2>1, <2>2, SessionFields
  <2>6. \A s \in 1 .. Len(subs') : subs'[s].owner # owners + 1
    BY <2>1, <2>2, SubFields
  <2>7. \A i \in 1 .. Len(events') : events'[i].to # owners + 1
    BY <2>1, <2>2, EventFields
  <2>8. \A g \in gone' : g.owner # owners + 1
    <3>1. \A g \in gone : g.owner \in Nat /\ g.owner <= owners
      BY DEF Typed, HistoryOK
    <3> QED BY <2>1, <2>2, <3>1
  <2>9. \A b, c \in Rows' \ Exempt : row'[b].owner = row'[c].owner => b = c
    BY <2>2, <2>3 DEF Own
  <2>10. \A g \in gone', b \in Rows' \ Exempt : g.owner # row'[b].owner
    BY <2>1, <2>2, <2>3, <2>8 DEF Own
  <2>11. ASSUME NEW b \in Rows' \ Exempt
         PROVE  /\ \A r \in Reqs : req'[r].pc # "idle" /\ req'[r].owner = row'[b].owner =>
                     req'[r].acct = b /\ KeepsTrial(req'[r].carry, row'[b].trial)
                /\ \A x \in sessions' : x.owner = row'[b].owner => x.acct = b /\ KeepsTrial(x.carry, row'[b].trial)
                /\ \A s \in 1 .. Len(subs') : subs'[s].owner = row'[b].owner =>
                     subs'[s].acct = b /\ subs'[s].charged + MinCarry >= row'[b].trial
                /\ \A i \in 1 .. Len(events') : events'[i].to = row'[b].owner => events'[i].acct = b
    <3>1. CASE b = a
      BY <2>2, <2>4, <2>5, <2>6, <2>7, <3>1
    <3>2. CASE b # a
      BY <2>1, <2>3, <3>2 DEF Own
    <3> QED BY <3>1, <3>2
  <2> QED BY <2>1, <2>9, <2>10, <2>11 DEF Own, KeepsTrial
<1>4. ASSUME NEW a \in Accts, DeleteRequest(a) PROVE Own'
  <2>1. /\ a \in Rows \ Exempt
        /\ \/ UNCHANGED <<row, gone>> \/ \E calm : Removed(a, calm)
        /\ UNCHANGED <<now, req, customers, sessions, subs, events>>
    BY <1>4, DeleteTyped
  <2>2. CASE UNCHANGED <<row, gone>>
    BY <1>0, <2>1, <2>2, OwnStays DEF RowsKeep, Rows
  <2>3. CASE \E calm : Removed(a, calm)
    <3>1. RowsKeep /\ \A g \in gone' : \/ g \in gone
                                       \/ \E b \in Rows \ Exempt : b \notin Rows' /\ g.owner = row[b].owner
      BY <2>3 DEF Removed, RowsKeep
    <3> QED BY <1>0, <2>1, <3>1, OwnStays
  <2> QED BY <2>1, <2>2, <2>3
<1>5. ASSUME NEW a \in Accts, CancelRefused(a) PROVE Own'
  BY <1>0, <1>5, RefusedTyped, OwnStays DEF RowsKeep, Rows
<1>6. ASSUME NEW a \in Accts, NEW sec \in Secs, CancelAnswers(a, sec) PROVE Own'
  <2>1. /\ Wrote(del[a].sub, "canceled", sec) /\ Turned(del[a].sub, "canceled") /\ Removed(a, del[a].calm)
        /\ UNCHANGED <<now, req, sessions>>
    BY <1>0, <1>6, CancelTyped
  <2>2. RowsKeep /\ \A g \in gone' : \/ g \in gone
                                     \/ \E b \in Rows \ Exempt : b \notin Rows' /\ g.owner = row[b].owner
    BY <2>1 DEF Removed, RowsKeep
  <2>3. \A i \in 1 .. Len(events') : events'[i].to = 0 \/ (i \in 1 .. Len(events) /\ events'[i] = events[i])
    BY <2>1, Domains DEF Wrote
  <2>4. \A s \in 1 .. Len(subs') : s \in 1 .. Len(subs) /\ subs'[s].acct = subs[s].acct
                                   /\ subs'[s].owner = subs[s].owner /\ subs'[s].charged = subs[s].charged
    BY <2>1 DEF Turned
  <2> QED BY <1>0, <2>1, <2>2, <2>3, <2>4, OwnStays
<1>7. ASSUME NEW r \in Reqs, NEW a \in Accts, CheckoutRequest(r, a) PROVE Own'
  <2>1. /\ row[a] # None /\ a \notin Exempt /\ \A q \in Reqs : q # r => req'[q] = req[q]
        /\ req'[r].acct = a /\ req'[r].owner = row[a].owner /\ req'[r].carry = CarriedTrial(row[a])
        /\ UNCHANGED <<now, row, customers, sessions, subs, events, gone>>
    BY <1>7, RequestTyped
  <2>2. RowsKeep /\ a \in Rows \ Exempt
    BY <2>1 DEF RowsKeep, Rows
  <2>3. \A q \in Reqs :
           \/ req'[q].pc = "idle"
           \/ req[q].pc # "idle" /\ req'[q].acct = req[q].acct /\ req'[q].owner = req[q].owner /\ req'[q].carry = req[q].carry
           \/ \E b \in Rows \ Exempt : req'[q].acct = b /\ req'[q].owner = row[b].owner /\ req'[q].carry = CarriedTrial(row[b])
    BY <2>1, <2>2
  <2> QED BY <1>0, <2>1, <2>2, <2>3, OwnStays
<1>8. ASSUME NEW r \in Reqs, CustomerCreated(r) PROVE Own'
  <2>1. /\ req[r].pc = "customer" /\ RowsKeep /\ \A q \in Reqs : q # r => req'[q] = req[q]
        /\ req'[r].acct = req[r].acct /\ req'[r].owner = req[r].owner /\ req'[r].carry = req[r].carry
        /\ UNCHANGED <<now, sessions, subs, events, gone>>
    BY <1>8, CustomerTyped
  <2>2. \A q \in Reqs :
           \/ req'[q].pc = "idle"
           \/ req[q].pc # "idle" /\ req'[q].acct = req[q].acct /\ req'[q].owner = req[q].owner /\ req'[q].carry = req[q].carry
    BY <2>1
  <2> QED BY <1>0, <2>1, <2>2, OwnStays
<1>9. ASSUME NEW r \in Reqs, SessionCreated(r) PROVE Own'
  <2>1. /\ req[r].pc = "session" /\ \A q \in Reqs : req'[q] = IF q = r THEN NoReq ELSE req[q]
        /\ sessions' = sessions \cup {[acct |-> req[r].acct, owner |-> req[r].owner,
                                       cust |-> req[r].cust, carry |-> req[r].carry]}
        /\ UNCHANGED <<now, row, subs, events, gone>>
    BY <1>9, SessionTyped
  <2>2. \A q \in Reqs : req'[q].pc = "idle" \/ req'[q] = req[q]
    BY <2>1, Records
  <2>3. \A x \in sessions' :
           \/ x \in sessions
           \/ \E q \in Reqs : req[q].pc # "idle" /\ x.acct = req[q].acct /\ x.owner = req[q].owner /\ x.carry = req[q].carry
    BY <2>1
  <2>4. RowsKeep
    BY <2>1 DEF RowsKeep, Rows
  <2> QED BY <1>0, <2>1, <2>2, <2>3, <2>4, OwnStays
<1>10. ASSUME NEW r \in Reqs, CheckoutFails(r) PROVE Own'
  <2>1. /\ \A q \in Reqs : req'[q] = IF q = r THEN NoReq ELSE req[q]
        /\ UNCHANGED <<now, row, sessions, subs, events, gone>>
    BY <1>10, FailsTyped
  <2>2. \A q \in Reqs : req'[q].pc = "idle" \/ req'[q] = req[q]
    BY <2>1, Records
  <2>3. RowsKeep
    BY <2>1 DEF RowsKeep, Rows
  <2> QED BY <1>0, <2>1, <2>2, <2>3, OwnStays
<1>11. ASSUME NEW x \in sessions, NEW sec \in Secs, Subscribe(x, sec) PROVE Own'
  <2>0. sec \in Nat
    BY <1>0
  <2>1. Begun(x, sec) /\ sessions' = sessions \ {x} /\ UNCHANGED <<now, row, req, gone>>
    BY <1>11, <2>0, SubscribeTyped
  <2>2. \A s \in 1 .. Len(subs') : s \in 1 .. Len(subs) \/ s = Len(subs) + 1
    BY <2>1, Domains DEF Begun
  <2>3. \A i \in 1 .. Len(events') : i \in 1 .. Len(events) \/ i = Len(events) + 1 \/ i = Len(events) + 2
    BY <2>1, Domains DEF Begun
  <2>4. \A i \in 1 .. Len(events') : events'[i].to = 0 \/ (i \in 1 .. Len(events) /\ events'[i] = events[i])
    BY <2>1, <2>3 DEF Begun
  <2>5. \A s \in 1 .. Len(subs') :
           \/ s \in 1 .. Len(subs) /\ subs'[s].acct = subs[s].acct /\ subs'[s].owner = subs[s].owner
              /\ subs'[s].charged = subs[s].charged
           \/ \E y \in sessions : subs'[s].acct = y.acct /\ subs'[s].owner = y.owner
                                  /\ subs'[s].charged = IF y.carry = None THEN now ELSE y.carry
    BY <2>1, <2>2 DEF Begun
  <2>6. RowsKeep
    BY <2>1 DEF RowsKeep, Rows
  <2> QED BY <1>0, <2>1, <2>4, <2>5, <2>6, OwnStays
<1>12. ASSUME NEW s \in 1 .. Len(subs), NEW sec \in Secs, NEW status \in Statuses,
              Len(events) < MaxEvents, Changed(s, status, sec),
              UNCHANGED <<now, row, req, del, customers, sessions, asked, owners, gone, raced, crashes>>
       PROVE  Own'
  <2>1. Wrote(s, status, sec) /\ Turned(s, status)
    BY <1>0, <1>12, TurnTyped
  <2>2. \A i \in 1 .. Len(events') : events'[i].to = 0 \/ (i \in 1 .. Len(events) /\ events'[i] = events[i])
    BY <2>1, Domains DEF Wrote
  <2>3. \A t \in 1 .. Len(subs') : t \in 1 .. Len(subs) /\ subs'[t].acct = subs[t].acct
                                   /\ subs'[t].owner = subs[t].owner /\ subs'[t].charged = subs[t].charged
    BY <2>1 DEF Turned
  <2>4. RowsKeep
    BY <1>12 DEF RowsKeep, Rows
  <2> QED BY <1>0, <1>12, <2>2, <2>3, <2>4, OwnStays
<1>13. ASSUME NEW i \in 1 .. Len(events), Deliver(i) PROVE Own'
  <2>1. /\ RowsKeep /\ Fated(i)
        /\ events'[i].to = (IF events[i].acct \in Rows THEN row[events[i].acct].owner ELSE 0)
        /\ UNCHANGED <<now, req, sessions, subs, gone>>
    BY <1>13, DeliverTyped
  <2>2. events[i].acct \notin Exempt
    BY EventFields
  <2>3. \A j \in 1 .. Len(events') :
           \/ events'[j].to = 0
           \/ j \in 1 .. Len(events) /\ events'[j].acct = events[j].acct /\ events'[j].to = events[j].to
           \/ \E a \in Rows \ Exempt : events'[j].acct = a /\ events'[j].to = row[a].owner
    BY <2>1, <2>2 DEF Fated
  <2> QED BY <1>0, <2>1, <2>3, OwnStays
<1>14. ASSUME NEW i \in 1 .. Len(events), CrashInWebhook(i) PROVE Own'
  <2>1. /\ Fated(i) /\ events'[i].to = events[i].to /\ \A r \in Reqs : req'[r] = NoReq
        /\ UNCHANGED <<now, row, sessions, subs, gone>>
    BY <1>14, CrashTyped
  <2>2. \A j \in 1 .. Len(events') :
           j \in 1 .. Len(events) /\ events'[j].acct = events[j].acct /\ events'[j].to = events[j].to
    BY <2>1 DEF Fated
  <2>3. \A r \in Reqs : req'[r].pc = "idle"
    BY <2>1, Records
  <2>4. RowsKeep
    BY <2>1 DEF RowsKeep, Rows
  <2> QED BY <1>0, <2>1, <2>2, <2>3, <2>4, OwnStays
<1>15. CASE Next
  BY <1>2, <1>3, <1>4, <1>5, <1>6, <1>7, <1>8, <1>9, <1>10, <1>11, <1>12, <1>13, <1>14, <1>15, Actions
<1> QED BY <1>1, <1>15

\* (NoEarlyCharge, Billing.tla) A subscription bought during the trial is not charged before
\* the trial ends, for any number of accounts, checkouts, events and crashes
\* (createCheckoutSession, billing.ts).
THEOREM TrialIsCarried == Spec => []NoEarlyCharge
<1>1. Typed /\ Own => NoEarlyCharge
  <2> SUFFICES ASSUME Typed, Own, NEW a \in Rows, NEW s \in DOMAIN subs, subs[s].owner = row[a].owner, row[a].trial # None
               PROVE  subs[s].charged + MinCarry >= row[a].trial
    BY DEF NoEarlyCharge
  <2>1. a \notin Exempt /\ s \in 1 .. Len(subs)
    BY Domains, RowFields DEF Rows
  <2> QED BY <2>1 DEF Own
<1> QED BY <1>1, TypedInit, TypedStep, OwnInit, OwnStep, PTL DEF Spec

\* Every reachable state of Billing is well typed.
THEOREM BillingTyped == Spec => []TypeOK
<1>1. Typed => TypeOK
  <2> SUFFICES ASSUME Typed PROVE TypeOK
    OBVIOUS
  <2>1. \A r \in Reqs : req[r].pc \in {"idle", "customer", "session"}
    BY DEF Typed, ReqsOK, ReqType
  <2>2. \A a \in Accts : del[a].pc \in {"idle", "cancel"}
    BY DEF Typed, DelsOK, DelType
  <2>3. DOMAIN subs \subseteq SubIds
    BY Domains, Constants DEF Typed, StripeOK, SubIds
  <2>4. \A i \in DOMAIN events : events[i].sub \in DOMAIN subs /\ events[i].fate \in {"due", "applied", "unmatched", "lost"}
    BY Domains, EventFields DEF EventType
  <2>5. \A c \in DOMAIN customers : customers[c] \in Owners
    BY Domains
  <2>6. Len(events) <= MaxEvents /\ row \in [Accts -> RowType \cup {None}]
    BY DEF Typed, EventsOK, RowsOK
  <2> QED BY <2>1, <2>2, <2>3, <2>4, <2>5, <2>6 DEF TypeOK, Typed, HistoryOK
<1> QED BY <1>1, TypedInit, TypedStep, PTL DEF Spec
-----------------------------------------------------------------------------
(* What Stripe tells, and what the rows copy.                              *)

\* What a step does to the subscriptions and the events.
LEMMA Writes ==
  ASSUME Typed, [Next]_vars
  PROVE  \/ UNCHANGED <<events, subs>>
         \/ \E i \in 1 .. Len(events) : Fated(i) /\ events'[i].fate # "due" /\ UNCHANGED subs
         \/ \E s \in 1 .. Len(subs), sec \in Secs, status \in Statuses :
              Live(s) /\ Wrote(s, status, sec) /\ Turned(s, status)
         \/ \E x \in sessions, sec \in Secs : Begun(x, sec)
<1>0. Secs \subseteq Nat
  BY SecsTyped
<1>1. CASE UNCHANGED vars
  BY <1>1 DEF vars, stripeVars
<1>2. CASE Advance
  BY <1>2, AdvanceTyped
<1>3. ASSUME NEW a \in Accts, Signup(a) \/ DeleteRequest(a) \/ CancelRefused(a) PROVE UNCHANGED <<events, subs>>
  BY <1>3, SignupTyped, DeleteTyped, RefusedTyped
<1>4. ASSUME NEW a \in Accts, NEW sec \in Secs, CancelAnswers(a, sec)
      PROVE  \E s \in 1 .. Len(subs), sc \in Secs, status \in Statuses :
               Live(s) /\ Wrote(s, status, sc) /\ Turned(s, status)
  <2>1. "canceled" \in Statuses /\ sec \in Nat
    BY <1>0 DEF Statuses
  <2>2. /\ Live(del[a].sub) /\ del[a].sub \in 1 .. Len(subs)
        /\ Wrote(del[a].sub, "canceled", sec) /\ Turned(del[a].sub, "canceled")
    BY <1>4, <2>1, CancelTyped
  <2> QED BY <2>1, <2>2
<1>5. ASSUME NEW r \in Reqs, NEW a \in Accts, CheckoutRequest(r, a) PROVE UNCHANGED <<events, subs>>
  BY <1>5, RequestTyped
<1>6. ASSUME NEW r \in Reqs, CustomerCreated(r) \/ SessionCreated(r) \/ CheckoutFails(r) PROVE UNCHANGED <<events, subs>>
  BY <1>6, CustomerTyped, SessionTyped, FailsTyped
<1>7. ASSUME NEW x \in sessions, NEW sec \in Secs, Subscribe(x, sec) PROVE Begun(x, sec)
  <2>1. sec \in Nat
    BY <1>0
  <2> QED BY <1>7, <2>1, SubscribeTyped
<1>8. ASSUME NEW s \in 1 .. Len(subs), NEW sec \in Secs, NEW status \in Statuses,
             Len(events) < MaxEvents, Changed(s, status, sec),
             UNCHANGED <<now, row, req, del, customers, sessions, asked, owners, gone, raced, crashes>>
      PROVE  Wrote(s, status, sec) /\ Turned(s, status)
  BY <1>0, <1>8, TurnTyped
<1>9. ASSUME NEW i \in 1 .. Len(events), Deliver(i) \/ CrashInWebhook(i)
      PROVE  Fated(i) /\ events'[i].fate # "due" /\ UNCHANGED subs
  BY <1>9, DeliverTyped, CrashTyped
<1>10. CASE Next
  BY <1>2, <1>3, <1>4, <1>5, <1>6, <1>7, <1>8, <1>9, <1>10, Actions
<1> QED BY <1>1, <1>10

IsSync(i) == events[i].type = "subscription"

\* Events are numbered in the order of their seconds; a cancelled subscription stays so;
\* the last event of a subscription tells its status; an event that is due was not applied.
Sorted == \A i, j \in 1 .. Len(events) : i <= j => events[i].sec <= events[j].sec
Final == \A i \in 1 .. Len(events) : IsSync(i) /\ events[i].status = "canceled" => ~Live(events[i].sub)
Latest(s) ==
  \E i \in 1 .. Len(events) :
    /\ IsSync(i) /\ events[i].sub = s /\ events[i].status = subs[s].status
    /\ \A j \in 1 .. Len(events) : IsSync(j) /\ events[j].sub = s => j <= i
Unapplied == \A i \in 1 .. Len(events) : events[i].fate = "due" => events[i].to = 0

Told == Sorted /\ Final /\ Unapplied /\ \A s \in 1 .. Len(subs) : Latest(s)

LEMMA ToldInit == Init => Told
<1> SUFFICES ASSUME Init PROVE Told
  OBVIOUS
<1>1. Len(events) = 0 /\ Len(subs) = 0
  BY DEF Init
<1>2. 1 .. Len(events) = {} /\ 1 .. Len(subs) = {}
  BY <1>1
<1> QED BY <1>2 DEF Told, Sorted, Final, Unapplied

\* The second of the next event is not before that of an earlier one.
LEMMA NextSec ==
  ASSUME Typed, Sorted, NEW sec \in Secs, NEW i \in 1 .. Len(events)
  PROVE  events[i].sec <= sec
<1>1. Len(events) \in 1 .. Len(events) /\ i <= Len(events)
  BY Domains
<1>2. events[i].sec <= events[Len(events)].sec /\ events[Len(events)].sec \in Nat /\ events[i].sec \in Nat
  BY <1>1, EventFields DEF Sorted
<1>3. LastSec = events[Len(events)].sec
  <2>1. events # <<>>
    BY <1>1
  <2> QED BY <2>1 DEF LastSec, Last
<1> QED BY <1>2, <1>3 DEF Secs

LEMMA ToldStep == Typed /\ Told /\ [Next]_vars => Told'
<1> SUFFICES ASSUME Typed, Told, [Next]_vars PROVE Told'
  OBVIOUS
<1>0. Len(events) \in Nat /\ Len(subs) \in Nat /\ Secs \subseteq Nat
      /\ \A i \in 1 .. Len(events) : events[i].sub \in 1 .. Len(subs) /\ events[i].sec \in Nat
  BY Domains, SecsTyped, EventFields
<1>1. CASE UNCHANGED <<events, subs>>
  BY <1>1 DEF Told, Sorted, Final, Unapplied, Latest, IsSync, Live
<1>2. ASSUME NEW i \in 1 .. Len(events), Fated(i), events'[i].fate # "due", UNCHANGED subs PROVE Told'
  <2>1. /\ Len(events') = Len(events)
        /\ \A j \in 1 .. Len(events) :
             /\ events'[j].type = events[j].type /\ events'[j].sub = events[j].sub
             /\ events'[j].status = events[j].status /\ events'[j].sec = events[j].sec
             /\ events'[j].fate = "due" => events[j].fate = "due" /\ events'[j].to = events[j].to
    BY <1>2 DEF Fated
  <2>2. ASSUME NEW s \in 1 .. Len(subs') PROVE Latest(s)'
    <3>1. PICK k \in 1 .. Len(events) :
            /\ IsSync(k) /\ events[k].sub = s /\ events[k].status = subs[s].status
            /\ \A j \in 1 .. Len(events) : IsSync(j) /\ events[j].sub = s => j <= k
      BY <1>2 DEF Told, Latest
    <3> QED BY <1>2, <2>1, <3>1 DEF Latest, IsSync
  <2>3. (Sorted /\ Final /\ Unapplied)'
    BY <1>2, <2>1 DEF Told, Sorted, Final, Unapplied, Live, IsSync
  <2> QED BY <2>2, <2>3 DEF Told
<1>3. ASSUME NEW s \in 1 .. Len(subs), NEW sec \in Secs, NEW status \in Statuses,
             Live(s), Wrote(s, status, sec), Turned(s, status)
      PROVE  Told'
  <2> DEFINE n == Len(events) + 1
  <2>1. /\ Len(events') = n /\ \A j \in 1 .. n : j \in 1 .. Len(events) \/ j = n
        /\ \A j \in 1 .. Len(events) : events'[j] = events[j] /\ j < n
        /\ n \in 1 .. n /\ n \in Nat
    BY <1>0, <1>3 DEF Wrote
  <2>2. /\ events'[n].type = "subscription" /\ events'[n].sub = s /\ events'[n].status = status
        /\ events'[n].sec = sec /\ events'[n].to = 0
    BY <1>3 DEF Wrote
  <2> HIDE DEF n
  <2>3. Sorted'
    <3>1. \A j \in 1 .. Len(events) : events[j].sec <= sec
      BY NextSec DEF Told
    <3>2. ASSUME NEW j \in 1 .. n, NEW k \in 1 .. n, j <= k PROVE events'[j].sec <= events'[k].sec
      <4>1. CASE k \in 1 .. Len(events)
        <5>1. j \in 1 .. Len(events)
          BY <2>1, <3>2, <4>1
        <5> QED BY <2>1, <3>2, <4>1, <5>1 DEF Told, Sorted
      <4>2. CASE k = n /\ j \in 1 .. Len(events)
        BY <2>1, <2>2, <3>1, <4>2
      <4>3. CASE k = n /\ j = n
        BY <1>0, <2>2, <4>3
      <4> QED BY <2>1, <4>1, <4>2, <4>3
    <3> QED BY <2>1, <3>2 DEF Sorted
  <2>4. Final'
    <3>1. \A t \in 1 .. Len(subs) : ~Live(t) => t # s /\ subs'[t].status = "canceled"
      BY <1>3 DEF Live, Turned
    <3>2. status = "canceled" => subs'[s].status = "canceled"
      BY <1>3 DEF Turned
    <3> QED BY <1>0, <2>1, <2>2, <3>1, <3>2 DEF Told, Final, Live, IsSync
  <2>5. Unapplied'
    BY <2>1, <2>2 DEF Told, Unapplied
  <2>6. ASSUME NEW t \in 1 .. Len(subs') PROVE Latest(t)'
    <3>0. t \in 1 .. Len(subs) /\ subs'[t].status = (IF t = s THEN status ELSE subs[t].status)
      BY <1>3 DEF Turned
    <3>1. CASE t = s
      <4>1. \A j \in 1 .. n : j <= n
        BY <2>1
      <4> QED BY <2>1, <2>2, <3>0, <3>1, <4>1 DEF Latest, IsSync
    <3>2. CASE t # s
      <4>1. PICK i \in 1 .. Len(events) :
              /\ IsSync(i) /\ events[i].sub = t /\ events[i].status = subs[t].status
              /\ \A j \in 1 .. Len(events) : IsSync(j) /\ events[j].sub = t => j <= i
        BY <3>0 DEF Told, Latest
      <4>2. i \in 1 .. n
        BY <1>0, <2>1
      <4>3. \A j \in 1 .. n : events'[j].type = "subscription" /\ events'[j].sub = t => j <= i
        BY <2>1, <2>2, <3>2, <4>1 DEF IsSync
      <4> QED BY <2>1, <3>0, <3>2, <4>1, <4>2, <4>3 DEF Latest, IsSync
    <3> QED BY <3>1, <3>2
  <2> QED BY <2>3, <2>4, <2>5, <2>6 DEF Told
<1>4. ASSUME NEW x \in sessions, NEW sec \in Secs, Begun(x, sec) PROVE Told'
  <2> DEFINE n == Len(events) + 2   s == Len(subs) + 1
  <2>1. /\ Len(events') = n /\ \A j \in 1 .. n : j \in 1 .. Len(events) \/ j = n - 1 \/ j = n
        /\ \A j \in 1 .. Len(events) : events'[j] = events[j] /\ j < n - 1 /\ j \in 1 .. n
        /\ n \in 1 .. n /\ n - 1 \in 1 .. n /\ n \in Nat /\ n - 1 < n /\ ~(n <= n - 1)
        /\ \A j \in 1 .. n : j <= n
    <3>1. Len(events') = Len(events) + 2 /\ \A j \in 1 .. Len(events) : events'[j] = events[j]
      BY <1>4, Zenon DEF Begun
    <3>2. /\ \A j \in 1 .. n : j \in 1 .. Len(events) \/ j = n - 1 \/ j = n
          /\ \A j \in 1 .. Len(events) : j < n - 1 /\ j \in 1 .. n
          /\ n \in 1 .. n /\ n - 1 \in 1 .. n /\ n \in Nat /\ n - 1 < n /\ ~(n <= n - 1)
          /\ \A j \in 1 .. n : j <= n
      BY <1>0
    <3> HIDE DEF n
    <3>3. Len(events') = n
      BY <3>1 DEF n
    <3> QED BY <3>1, <3>2, <3>3
  <2>2. /\ events'[n].type = "subscription" /\ events'[n - 1].type = "completed"
        /\ events'[n].status = "active" /\ events'[n - 1].status = None
        /\ \A i \in {n - 1, n} : events'[i].sub = s /\ events'[i].sec = sec /\ events'[i].to = 0
    <3>1. n - 1 = Len(events) + 1
      BY <1>0
    <3> QED BY <1>4, <3>1 DEF Begun
  <2>3. /\ Len(subs') = s /\ subs'[s].status = "active" /\ \A t \in 1 .. Len(subs) : subs'[t] = subs[t] /\ t # s
        /\ \A t \in 1 .. s : t \in 1 .. Len(subs) \/ t = s
    <3>1. /\ Len(subs') = Len(subs) + 1 /\ subs'[Len(subs) + 1].status = "active"
          /\ \A t \in 1 .. Len(subs) : subs'[t] = subs[t]
      BY <1>4, Zenon DEF Begun
    <3>2. \A t \in 1 .. Len(subs) : t # s
      BY <1>0
    <3>3. \A t \in 1 .. s : t \in 1 .. Len(subs) \/ t = s
      BY <1>0
    <3> QED BY <3>1, <3>2, <3>3
  <2> HIDE DEF n, s
  <2>4. Sorted'
    <3>1. \A j \in 1 .. Len(events) : events[j].sec <= sec
      BY NextSec DEF Told
    <3>2. ASSUME NEW j \in 1 .. n, NEW k \in 1 .. n, j <= k PROVE events'[j].sec <= events'[k].sec
      <4>1. CASE k \in 1 .. Len(events)
        <5>1. j \in 1 .. Len(events)
          BY <2>1, <3>2, <4>1
        <5> QED BY <2>1, <3>2, <4>1, <5>1 DEF Told, Sorted
      <4>2. CASE k \in {n - 1, n} /\ j \in 1 .. Len(events)
        BY <2>1, <2>2, <3>1, <4>2
      <4>3. CASE k \in {n - 1, n} /\ j \in {n - 1, n}
        <5>1. events'[j].sec = sec /\ events'[k].sec = sec /\ sec \in Nat
          BY <1>0, <2>2, <4>3
        <5> QED BY <5>1
      <4> QED BY <2>1, <4>1, <4>2, <4>3
    <3> QED BY <2>1, <3>2 DEF Sorted
  <2>5. Final'
    <3>1. ASSUME NEW j \in 1 .. n, events'[j].type = "subscription", events'[j].status = "canceled"
          PROVE  subs'[events'[j].sub].status = "canceled"
      <4>1. CASE j \in 1 .. Len(events)
        BY <1>0, <2>1, <2>3, <3>1, <4>1 DEF Told, Final, Live, IsSync
      <4>2. j # n /\ j # n - 1
        BY <2>2, <3>1
      <4> QED BY <2>1, <4>1, <4>2
    <3> QED BY <2>1, <3>1 DEF Final, Live, IsSync
  <2>6. Unapplied'
    BY <2>1, <2>2 DEF Told, Unapplied
  <2>7. ASSUME NEW t \in 1 .. Len(subs') PROVE Latest(t)'
    <3>1. CASE t = s
      BY <2>1, <2>2, <2>3, <3>1 DEF Latest, IsSync
    <3>2. CASE t \in 1 .. Len(subs)
      <4>1. PICK i \in 1 .. Len(events) :
              /\ IsSync(i) /\ events[i].sub = t /\ events[i].status = subs[t].status
              /\ \A j \in 1 .. Len(events) : IsSync(j) /\ events[j].sub = t => j <= i
        BY <3>2 DEF Told, Latest
      <4>2. \A j \in 1 .. n : events'[j].type = "subscription" /\ events'[j].sub = t => j <= i
        BY <2>1, <2>2, <2>3, <3>2, <4>1 DEF IsSync
      <4> QED BY <2>1, <2>3, <3>2, <4>1, <4>2 DEF Latest, IsSync
    <3> QED BY <2>3, <3>1, <3>2
  <2> QED BY <2>4, <2>5, <2>6, <2>7 DEF Told
<1> QED BY <1>1, <1>2, <1>3, <1>4, Writes

\* Row a names a subscription that an event of its owner told of; its status is that of the
\* last event of its owner that was applied.
CopyOK(a) ==
  /\ row[a].sub = None => \A i \in 1 .. Len(events) : events[i].to # row[a].owner
  /\ row[a].sub # None => \E i \in 1 .. Len(events) : events[i].to = row[a].owner /\ events[i].sub = row[a].sub
  /\ row[a].updated = None => \A i \in 1 .. Len(events) : IsSync(i) => events[i].to # row[a].owner
  /\ row[a].updated # None =>
       /\ \E i \in 1 .. Len(events) : /\ IsSync(i) /\ events[i].to = row[a].owner
                                      /\ events[i].sec = row[a].updated /\ events[i].status = row[a].status
       /\ \A i \in 1 .. Len(events) : IsSync(i) /\ events[i].to = row[a].owner => events[i].sec <= row[a].updated

Copied == \A a \in Rows \ Exempt : CopyOK(a)

\* New events are not applied yet; the others stay what they are.
EventsKept ==
  /\ \A i \in 1 .. Len(events) :
       /\ i \in 1 .. Len(events') /\ events'[i].type = events[i].type /\ events'[i].sub = events[i].sub
       /\ events'[i].status = events[i].status /\ events'[i].sec = events[i].sec /\ events'[i].to = events[i].to
  /\ \A i \in 1 .. Len(events') : i \in 1 .. Len(events) \/ events'[i].to = 0

LEMMA KeptEvents ==
  ASSUME Typed,
         \/ UNCHANGED events \/ \E i \in 1 .. Len(events) : Fated(i) /\ events'[i].to = events[i].to
         \/ \E s, status, sec : Wrote(s, status, sec)
         \/ \E x, sec : Begun(x, sec)
  PROVE  EventsKept
<1>0. Len(events) \in Nat
  BY Domains
<1>1. CASE UNCHANGED events
  BY <1>1 DEF EventsKept
<1>2. CASE \E i \in 1 .. Len(events) : Fated(i) /\ events'[i].to = events[i].to
  BY <1>2 DEF EventsKept, Fated
<1>3. ASSUME NEW s, NEW status, NEW sec, Wrote(s, status, sec) PROVE EventsKept
  BY <1>0, <1>3 DEF EventsKept, Wrote
<1>4. ASSUME NEW x, NEW sec, Begun(x, sec) PROVE EventsKept
  <2>0. Len(events') = Len(events) + 2
    BY <1>4, Zenon DEF Begun
  <2>1. \A i \in 1 .. Len(events') : i \in 1 .. Len(events) \/ i \in {Len(events) + 1, Len(events) + 2}
    BY <1>0, <2>0
  <2>2. \A i \in 1 .. Len(events) : i \in 1 .. Len(events')
    BY <1>0, <2>0
  <2> QED BY <1>4, <2>1, <2>2 DEF EventsKept, Begun
<1> QED BY <1>1, <1>2, <1>3, <1>4

LEMMA CopiedStays ==
  ASSUME Typed, Copied, EventsKept,
         \A a \in Rows' : /\ a \in Rows /\ row'[a].owner = row[a].owner /\ row'[a].sub = row[a].sub
                          /\ row'[a].status = row[a].status /\ row'[a].updated = row[a].updated
  PROVE  Copied'
<1> SUFFICES ASSUME NEW a \in Rows' \ Exempt PROVE CopyOK(a)'
  BY DEF Copied
<1>1. CopyOK(a) /\ row[a].owner # 0
  <2>1. a \in Rows \ Exempt
    OBVIOUS
  <2>2. row[a].owner >= 1
    BY <2>1, RowFields DEF Rows
  <2> QED BY <2>1, <2>2 DEF Copied
<1>2. row'[a].owner = row[a].owner /\ row'[a].sub = row[a].sub /\ row'[a].status = row[a].status /\ row'[a].updated = row[a].updated
  OBVIOUS
<1>3. \A i \in 1 .. Len(events') : events'[i].to = row[a].owner => i \in 1 .. Len(events)
  BY <1>1 DEF EventsKept
<1> QED BY <1>1, <1>2, <1>3 DEF CopyOK, EventsKept, IsSync

LEMMA CopiedDeliver ==
  ASSUME Typed, Own, Unapplied, Copied, NEW i \in 1 .. Len(events), Deliver(i)
  PROVE  Copied'
<1> DEFINE e == events[i]
<1>1. /\ RowsKeep /\ Rows' = Rows /\ Fated(i) /\ e.fate = "due"
      /\ events'[i].to = (IF e.acct \in Rows THEN row[e.acct].owner ELSE 0)
      /\ \A a \in Accts : row'[a] = IF a \in Rows /\ a = e.acct THEN Applied(row[a], e) ELSE row[a]
  BY DeliverTyped
<1>2. e.to = 0 /\ e \in EventType /\ e.acct \notin Exempt /\ e.sec \in Nat
  BY <1>1, EventFields DEF Unapplied
<1>3. /\ Len(events') = Len(events)
      /\ \A j \in 1 .. Len(events) :
           /\ events'[j].type = events[j].type /\ events'[j].sub = events[j].sub
           /\ events'[j].status = events[j].status /\ events'[j].sec = events[j].sec
           /\ j # i => events'[j].to = events[j].to
  BY <1>1 DEF Fated
<1> SUFFICES ASSUME NEW a \in Rows' \ Exempt PROVE CopyOK(a)'
  BY DEF Copied
<1>4. /\ a \in Rows \ Exempt /\ CopyOK(a) /\ a \in Accts /\ row[a] \in RowType
      /\ row[a].owner # 0 /\ row'[a].owner = row[a].owner
  <2>1. a \in Rows \ Exempt /\ a \in Accts
    BY <1>1 DEF Rows
  <2>2. row[a] \in RowType /\ row[a].owner >= 1
    BY <2>1, RowFields DEF Rows
  <2> QED BY <1>1, <2>1, <2>2 DEF Copied, RowsKeep
<1> DEFINE o == row[a].owner
<1>5. e.to # o /\ \A j \in 1 .. Len(events) : events[j].to = o => j # i
  BY <1>2, <1>4
<1>6. CASE a # e.acct
  <2>1. events'[i].to # o
    BY <1>1, <1>2, <1>4, <1>6 DEF Own
  <2>2. row'[a] = row[a]
    BY <1>1, <1>4, <1>6
  <2>3. \A j \in 1 .. Len(events) : events'[j].to = o <=> events[j].to = o
    BY <1>3, <1>5, <2>1
  <2> QED BY <1>3, <1>4, <2>2, <2>3 DEF CopyOK, IsSync
<1>7. CASE a = e.acct
  <2>1. events'[i].to = o /\ row'[a] = Applied(row[a], e)
    BY <1>1, <1>4, <1>7
  <2>2. \A j \in 1 .. Len(events) : events'[j].to = o <=> (events[j].to = o \/ j = i)
    BY <1>3, <1>5, <2>1
  <2>3. e.sub # None
    <3>1. e.sub \in 1 .. Len(subs)
      BY EventFields
    <3> QED BY <3>1, Constants, Domains
  <2>4. row[a].updated \in Nat \cup {None} /\ \A j \in 1 .. Len(events) : events[j].sec \in Nat
    BY <1>4, EventFields DEF RowType
  <2>5. CASE e.type = "completed"
    <3>1. row'[a].sub = e.sub /\ row'[a].status = row[a].status /\ row'[a].updated = row[a].updated
      BY <1>2, <1>4, <2>1, <2>5, AppliedRow
    <3>2. ~IsSync(i)
      BY <2>5 DEF IsSync
    <3> QED BY <1>3, <1>4, <2>1, <2>2, <2>3, <3>1, <3>2 DEF CopyOK, IsSync
  <2>6. CASE e.type # "completed" /\ ~Newer(row[a], e)
    <3>1. row'[a] = row[a]
      BY <1>2, <1>4, <2>1, <2>6, AppliedRow
    <3>2. row[a].updated # None /\ row[a].updated \in Nat /\ e.sec <= row[a].updated
      BY <1>2, <2>4, <2>6 DEF Newer
    <3>3. row[a].sub # None
      BY <1>4, <3>2 DEF CopyOK
    <3> QED BY <1>3, <1>4, <2>2, <3>1, <3>2, <3>3 DEF CopyOK, IsSync
  <2>7. CASE e.type # "completed" /\ Newer(row[a], e)
    <3>1. row'[a].sub = e.sub /\ row'[a].status = e.status /\ row'[a].updated = e.sec
      BY <1>2, <1>4, <2>1, <2>7, AppliedRow
    <3>2. IsSync(i) /\ e.sec # None
      BY <1>2, <2>7, Constants DEF IsSync, EventType
    <3>3. ASSUME NEW j \in 1 .. Len(events), events[j].type = "subscription", events[j].to = o PROVE events[j].sec <= e.sec
      <4>1. row[a].updated # None /\ events[j].sec <= row[a].updated
        BY <1>4, <3>3 DEF CopyOK, IsSync
      <4>2. row[a].updated <= e.sec
        BY <2>7, <4>1 DEF Newer
      <4> QED BY <1>2, <2>4, <4>1, <4>2
    <3>4. \A j \in 1 .. Len(events') : events'[j].type = "subscription" /\ events'[j].to = o => events'[j].sec <= e.sec
      BY <1>2, <1>3, <2>2, <3>3
    <3>5. /\ i \in 1 .. Len(events') /\ events'[i].type = "subscription" /\ events'[i].to = o /\ events'[i].sec = e.sec
          /\ events'[i].status = e.status /\ events'[i].sub = e.sub
      BY <1>3, <2>1, <3>2 DEF IsSync
    <3> QED BY <1>4, <2>3, <3>1, <3>2, <3>4, <3>5 DEF CopyOK, IsSync
  <2> QED BY <2>5, <2>6, <2>7
<1> QED BY <1>6, <1>7

LEMMA CopiedInit == Init => Copied
<1> SUFFICES ASSUME Init PROVE Copied
  OBVIOUS
<1>1. Rows \ Exempt = {}
  BY DEF Init, Rows
<1> QED BY <1>1 DEF Copied

LEMMA CopiedStep == Typed /\ Own /\ Told /\ Copied /\ [Next]_vars => Copied'
<1> SUFFICES ASSUME Typed, Own, Told, Copied, [Next]_vars PROVE Copied'
  OBVIOUS
<1>0. Secs \subseteq Nat
  BY SecsTyped
<1>1. ASSUME UNCHANGED <<row, events>> PROVE Copied'
  <2>1. EventsKept
    BY <1>1, KeptEvents
  <2> QED BY <1>1, <2>1, CopiedStays DEF Rows
<1>2. CASE UNCHANGED vars
  BY <1>1, <1>2 DEF vars
<1>3. CASE Advance
  BY <1>1, <1>3, AdvanceTyped
<1>4. ASSUME NEW a \in Accts, Signup(a) PROVE Copied'
  <2>1. /\ a \notin Rows /\ a \notin Exempt /\ owners \in Nat
        /\ row' = [row EXCEPT ![a] = NewRow(owners + 1, now + TrialLen)] /\ row \in [Accts -> RowType \cup {None}]
        /\ UNCHANGED events
    BY <1>4, SignupTyped, Domains
  <2> SUFFICES ASSUME NEW b \in Rows' \ Exempt PROVE CopyOK(b)'
    BY DEF Copied
  <2>2. CASE b = a
    <3>1. row'[a].owner = owners + 1 /\ row'[a].sub = None /\ row'[a].updated = None
      BY <2>1 DEF NewRow
    <3>2. \A i \in 1 .. Len(events') : events'[i].to # owners + 1
      BY <2>1, EventFields
    <3> QED BY <2>2, <3>1, <3>2 DEF CopyOK
  <2>3. CASE b # a
    <3>1. b \in Rows \ Exempt /\ row'[b] = row[b]
      BY <2>1, <2>3 DEF Rows
    <3> QED BY <2>1, <3>1 DEF Copied, CopyOK, IsSync
  <2> QED BY <2>2, <2>3
<1>5. ASSUME NEW a \in Accts, DeleteRequest(a) PROVE Copied'
  <2>1. \A b \in Rows' : b \in Rows /\ row'[b] = row[b]
    BY <1>5, DeleteTyped DEF Removed, Rows
  <2>2. UNCHANGED events
    BY <1>5, DeleteTyped
  <2> QED BY <2>1, <2>2, KeptEvents, CopiedStays
<1>6. ASSUME NEW a \in Accts, NEW sec \in Secs, CancelAnswers(a, sec) PROVE Copied'
  <2>1. Wrote(del[a].sub, "canceled", sec) /\ Removed(a, del[a].calm)
    BY <1>0, <1>6, CancelTyped
  <2>2. \A b \in Rows' : b \in Rows /\ row'[b] = row[b]
    BY <2>1 DEF Removed
  <2>3. EventsKept
    BY <2>1, KeptEvents
  <2> QED BY <2>2, <2>3, CopiedStays
<1>7. ASSUME NEW a \in Accts, CancelRefused(a) PROVE Copied'
  BY <1>1, <1>7, RefusedTyped
<1>8. ASSUME NEW r \in Reqs, NEW a \in Accts, CheckoutRequest(r, a) PROVE Copied'
  BY <1>1, <1>8, RequestTyped
<1>9. ASSUME NEW r \in Reqs, CustomerCreated(r) PROVE Copied'
  <2>1. /\ RowsKeep /\ UNCHANGED events /\ Rows' = Rows
        /\ \A a \in Rows : /\ row'[a].sub = row[a].sub /\ row'[a].status = row[a].status
                           /\ row'[a].updated = row[a].updated
    BY <1>9, CustomerTyped
  <2>2. EventsKept
    BY <2>1, KeptEvents
  <2> QED BY <2>1, <2>2, CopiedStays DEF RowsKeep
<1>10. ASSUME NEW r \in Reqs, SessionCreated(r) \/ CheckoutFails(r) PROVE Copied'
  BY <1>1, <1>10, SessionTyped, FailsTyped
<1>11. ASSUME NEW x \in sessions, NEW sec \in Secs, Subscribe(x, sec) PROVE Copied'
  <2>0. sec \in Nat
    BY <1>0
  <2>1. Begun(x, sec) /\ UNCHANGED row
    BY <1>11, <2>0, SubscribeTyped
  <2>2. EventsKept
    BY <2>1, KeptEvents
  <2> QED BY <2>1, <2>2, CopiedStays DEF Rows
<1>12. ASSUME NEW s \in 1 .. Len(subs), NEW sec \in Secs, NEW status \in Statuses,
              Len(events) < MaxEvents, Changed(s, status, sec),
              UNCHANGED <<now, row, req, del, customers, sessions, asked, owners, gone, raced, crashes>>
       PROVE  Copied'
  <2>1. Wrote(s, status, sec)
    BY <1>0, <1>12, TurnTyped
  <2>2. EventsKept
    BY <2>1, KeptEvents
  <2> QED BY <1>12, <2>2, CopiedStays DEF Rows
<1>13. ASSUME NEW i \in 1 .. Len(events), Deliver(i) PROVE Copied'
  BY <1>13, CopiedDeliver DEF Told
<1>14. ASSUME NEW i \in 1 .. Len(events), CrashInWebhook(i) PROVE Copied'
  <2>1. Fated(i) /\ events'[i].to = events[i].to /\ UNCHANGED row
    BY <1>14, CrashTyped
  <2>2. EventsKept
    BY <2>1, KeptEvents
  <2> QED BY <2>1, <2>2, CopiedStays DEF Rows
<1>15. CASE Next
  BY <1>3, <1>4, <1>5, <1>6, <1>7, <1>8, <1>9, <1>10, <1>11, <1>12, <1>13, <1>14, <1>15, Actions
<1> QED BY <1>2, <1>15
-----------------------------------------------------------------------------
(* Who was never buying twice at once.                                     *)

Asks(r, o) == req[r].pc # "idle" /\ req[r].owner = o
Runs(s, o) == subs[s].owner = o /\ Live(s)

\* Owner o has one request, or one session, or one subscription that is not cancelled; and
\* the events of that one come after those of the earlier ones.
AloneOf(o) ==
  /\ \A r, q \in Reqs : Asks(r, o) /\ Asks(q, o) => r = q
  /\ \A x, y \in sessions : x.owner = o /\ y.owner = o => x = y
  /\ \A r \in Reqs, x \in sessions : ~(Asks(r, o) /\ x.owner = o)
  /\ \A s \in 1 .. Len(subs) : Runs(s, o) => /\ \A r \in Reqs : ~Asks(r, o)
                                             /\ \A x \in sessions : x.owner # o
  /\ \A s, t \in 1 .. Len(subs) : Runs(s, o) /\ Runs(t, o) => s = t
  /\ \A i, j \in 1 .. Len(events), s, t \in 1 .. Len(subs) :
       events[i].sub = s /\ events[j].sub = t /\ subs[s].owner = o /\ Runs(t, o) /\ s # t => i < j

OneAtATime == \A o \in Owners \ raced : AloneOf(o)

LEMMA NotBuying ==
  ASSUME Typed, NEW o
  PROVE  /\ ~Buying(o) <=> (\A r \in Reqs : ~Asks(r, o)) /\ \A x \in sessions : x.owner # o
         /\ LiveOf(o) = {} <=> \A s \in 1 .. Len(subs) : ~Runs(s, o)
<1>1. DOMAIN subs = 1 .. Len(subs)
  BY Domains
<1>2. ~Buying(o) <=> (\A r \in Reqs : ~Asks(r, o)) /\ \A x \in sessions : x.owner # o
  BY DEF Buying, Asks
<1>3. LiveOf(o) = {} <=> \A s \in 1 .. Len(subs) : ~Runs(s, o)
  BY <1>1 DEF LiveOf, Runs
<1> QED BY <1>2, <1>3

LEMMA AloneStays ==
  ASSUME Typed, OneAtATime, UNCHANGED subs, raced \subseteq raced', sessions' \subseteq sessions,
         \A r \in Reqs : req'[r].pc = "idle" \/ (req[r].pc # "idle" /\ req'[r].owner = req[r].owner),
         \A i \in 1 .. Len(events') : i \in 1 .. Len(events) /\ events'[i].sub = events[i].sub
  PROVE  OneAtATime'
<1> SUFFICES ASSUME NEW o \in Owners \ raced' PROVE AloneOf(o)'
  BY DEF OneAtATime
<1>1. AloneOf(o)
  BY DEF OneAtATime
<1>2. \A r \in Reqs : Asks(r, o)' => Asks(r, o)
  BY DEF Asks
<1>3. \A s : Runs(s, o)' <=> Runs(s, o)
  BY DEF Runs, Live
<1>4. \A i, j \in 1 .. Len(events'), s, t \in 1 .. Len(subs') :
        events'[i].sub = s /\ events'[j].sub = t /\ subs'[s].owner = o /\ Runs(t, o)' /\ s # t => i < j
  BY <1>1, <1>3 DEF AloneOf
<1>5. \A s \in 1 .. Len(subs') : Runs(s, o)' => /\ \A r \in Reqs : ~Asks(r, o)'
                                                /\ \A x \in sessions' : x.owner # o
  BY <1>1, <1>2, <1>3 DEF AloneOf
<1>6. \A s, t \in 1 .. Len(subs') : Runs(s, o)' /\ Runs(t, o)' => s = t
  BY <1>1, <1>3 DEF AloneOf
<1>7. /\ \A r, q \in Reqs : Asks(r, o)' /\ Asks(q, o)' => r = q
      /\ \A x, y \in sessions' : x.owner = o /\ y.owner = o => x = y
      /\ \A r \in Reqs, x \in sessions' : ~(Asks(r, o)' /\ x.owner = o)
  BY <1>1, <1>2 DEF AloneOf
<1> QED BY <1>4, <1>5, <1>6, <1>7 DEF AloneOf

LEMMA AloneTurns ==
  ASSUME Typed, OneAtATime, UNCHANGED <<req, sessions, raced>>, NEW s \in 1 .. Len(subs), NEW sec, NEW status,
         Live(s), Wrote(s, status, sec), Turned(s, status)
  PROVE  OneAtATime'
<1> SUFFICES ASSUME NEW o \in Owners \ raced' PROVE AloneOf(o)'
  BY DEF OneAtATime
<1>0. Len(events) \in Nat /\ \A i \in 1 .. Len(events) : events[i].sub \in 1 .. Len(subs)
  BY Domains, EventFields
<1>1. AloneOf(o)
  BY DEF OneAtATime
<1>2. \A r \in Reqs : Asks(r, o)' <=> Asks(r, o)
  BY DEF Asks
<1>3. Len(subs') = Len(subs) /\ \A t \in 1 .. Len(subs) : subs'[t].owner = subs[t].owner /\ (Runs(t, o)' => Runs(t, o))
  BY DEF Runs, Live, Turned
<1>4. /\ Len(events') = Len(events) + 1 /\ \A i \in 1 .. Len(events') : i \in 1 .. Len(events) \/ i = Len(events) + 1
      /\ \A i \in 1 .. Len(events) : events'[i] = events[i] /\ i < Len(events) + 1
      /\ events'[Len(events) + 1].sub = s
  BY <1>0 DEF Wrote
<1>5. ASSUME NEW i \in 1 .. Len(events'), NEW j \in 1 .. Len(events'), NEW t \in 1 .. Len(subs'), NEW u \in 1 .. Len(subs'),
             events'[i].sub = t, events'[j].sub = u, subs'[t].owner = o, Runs(u, o)', t # u
      PROVE  i < j
  <2>0. t \in 1 .. Len(subs) /\ u \in 1 .. Len(subs) /\ subs[t].owner = o /\ Runs(u, o)
    BY <1>3, <1>5
  <2>1. CASE i \in 1 .. Len(events) /\ j \in 1 .. Len(events)
    <3>1. events[i].sub = t /\ events[j].sub = u
      BY <1>4, <1>5, <2>1
    <3> QED BY <1>1, <1>5, <2>0, <2>1, <3>1 DEF AloneOf
  <2>2. CASE i = Len(events) + 1 /\ j \in 1 .. Len(events)
    <3>1. t = s /\ Runs(s, o)
      BY <1>4, <1>5, <2>0, <2>2 DEF Runs
    <3> QED BY <1>1, <1>5, <2>0, <3>1 DEF AloneOf
  <2>3. CASE j = Len(events) + 1
    <3>1. i # Len(events) + 1
      BY <1>5, <2>3
    <3> QED BY <1>4, <2>3, <3>1
  <2> QED BY <1>4, <2>1, <2>2, <2>3
<1>6. \A t \in 1 .. Len(subs') : Runs(t, o)' => /\ \A r \in Reqs : ~Asks(r, o)'
                                                /\ \A x \in sessions' : x.owner # o
  BY <1>1, <1>2, <1>3 DEF AloneOf
<1>7. \A t, u \in 1 .. Len(subs') : Runs(t, o)' /\ Runs(u, o)' => t = u
  BY <1>1, <1>3 DEF AloneOf
<1>8. /\ \A r, q \in Reqs : Asks(r, o)' /\ Asks(q, o)' => r = q
      /\ \A x, y \in sessions' : x.owner = o /\ y.owner = o => x = y
      /\ \A r \in Reqs, x \in sessions' : ~(Asks(r, o)' /\ x.owner = o)
  BY <1>1, <1>2 DEF AloneOf
<1> QED BY <1>5, <1>6, <1>7, <1>8 DEF AloneOf

LEMMA AloneRequest ==
  ASSUME Typed, OneAtATime, NEW r \in Reqs, NEW a \in Accts, CheckoutRequest(r, a)
  PROVE  OneAtATime'
<1>1. /\ req[r].pc = "idle" /\ \A q \in Reqs : q # r => req'[q] = req[q]
      /\ req'[r].owner = row[a].owner
      /\ raced' = IF Buying(row[a].owner) \/ LiveOf(row[a].owner) # {} THEN raced \cup {row[a].owner} ELSE raced
      /\ UNCHANGED <<sessions, subs, events>>
  BY RequestTyped
<1> SUFFICES ASSUME NEW o \in Owners \ raced' PROVE AloneOf(o)'
  BY DEF OneAtATime
<1>2. AloneOf(o)
  BY <1>1 DEF OneAtATime
<1>3. \A q \in Reqs : q # r => (Asks(q, o)' <=> Asks(q, o))
  BY <1>1 DEF Asks
<1>4. Asks(r, o)' => row[a].owner = o
  BY <1>1 DEF Asks
<1>5. \A s : Runs(s, o)' <=> Runs(s, o)
  BY <1>1 DEF Runs, Live
<1>6. CASE row[a].owner # o
  <2>1. \A q \in Reqs : Asks(q, o)' => Asks(q, o)
    BY <1>3, <1>4, <1>6
  <2>2. \A i, j \in 1 .. Len(events'), s, t \in 1 .. Len(subs') :
          events'[i].sub = s /\ events'[j].sub = t /\ subs'[s].owner = o /\ Runs(t, o)' /\ s # t => i < j
    BY <1>1, <1>2 DEF AloneOf, Runs, Live
  <2> QED BY <1>1, <1>2, <1>5, <2>1, <2>2 DEF AloneOf
<1>7. CASE row[a].owner = o
  <2>1. ~Buying(o) /\ LiveOf(o) = {}
    BY <1>1, <1>7
  <2>2. (\A q \in Reqs : ~Asks(q, o)) /\ (\A x \in sessions : x.owner # o) /\ \A s \in 1 .. Len(subs) : ~Runs(s, o)
    BY <2>1, NotBuying
  <2>3. \A i, j \in 1 .. Len(events'), s, t \in 1 .. Len(subs') :
          events'[i].sub = s /\ events'[j].sub = t /\ subs'[s].owner = o /\ Runs(t, o)' /\ s # t => i < j
    BY <1>1, <1>2 DEF AloneOf, Runs, Live
  <2> QED BY <1>1, <1>3, <1>5, <2>2, <2>3 DEF AloneOf
<1> QED BY <1>6, <1>7

LEMMA AloneSession ==
  ASSUME Typed, OneAtATime, NEW r \in Reqs, SessionCreated(r)
  PROVE  OneAtATime'
<1> DEFINE y == [acct |-> req[r].acct, owner |-> req[r].owner, cust |-> req[r].cust, carry |-> req[r].carry]
<1>1. /\ req[r].pc = "session" /\ \A q \in Reqs : req'[q] = IF q = r THEN NoReq ELSE req[q]
      /\ sessions' = sessions \cup {y} /\ y.owner = req[r].owner
      /\ UNCHANGED <<subs, events, raced>>
  BY SessionTyped
<1> HIDE DEF y
<1> SUFFICES ASSUME NEW o \in Owners \ raced' PROVE AloneOf(o)'
  BY DEF OneAtATime
<1>2. AloneOf(o)
  BY <1>1 DEF OneAtATime
<1>3. \A q \in Reqs : Asks(q, o)' => q # r /\ Asks(q, o)
  BY <1>1, Records DEF Asks
<1>4. y.owner = o => Asks(r, o)
  BY <1>1 DEF Asks
<1>5. \A s : Runs(s, o)' <=> Runs(s, o)
  BY <1>1 DEF Runs, Live
<1>6. /\ \A q, p \in Reqs : Asks(q, o)' /\ Asks(p, o)' => q = p
      /\ \A x, z \in sessions' : x.owner = o /\ z.owner = o => x = z
      /\ \A q \in Reqs, x \in sessions' : ~(Asks(q, o)' /\ x.owner = o)
  BY <1>1, <1>2, <1>3, <1>4 DEF AloneOf
<1>7. \A s \in 1 .. Len(subs') : Runs(s, o)' => /\ \A q \in Reqs : ~Asks(q, o)'
                                                /\ \A x \in sessions' : x.owner # o
  BY <1>1, <1>2, <1>3, <1>4, <1>5 DEF AloneOf
<1>8. \A i, j \in 1 .. Len(events'), s, t \in 1 .. Len(subs') :
        events'[i].sub = s /\ events'[j].sub = t /\ subs'[s].owner = o /\ Runs(t, o)' /\ s # t => i < j
  BY <1>1, <1>2 DEF AloneOf, Runs, Live
<1>9. \A s, t \in 1 .. Len(subs') : Runs(s, o)' /\ Runs(t, o)' => s = t
  BY <1>1, <1>2, <1>5 DEF AloneOf
<1> QED BY <1>6, <1>7, <1>8, <1>9 DEF AloneOf

LEMMA AloneBuys ==
  ASSUME Typed, OneAtATime, NEW x \in sessions, NEW sec \in Nat, Subscribe(x, sec)
  PROVE  OneAtATime'
<1>1. /\ Begun(x, sec) /\ sessions' = sessions \ {x}
      /\ raced' = IF LiveOf(x.owner) # {} THEN raced \cup {x.owner} ELSE raced
      /\ UNCHANGED req
  BY SubscribeTyped
<1> DEFINE s == Len(subs) + 1
<1>0. Len(events) \in Nat /\ Len(subs) \in Nat /\ \A i \in 1 .. Len(events) : events[i].sub \in 1 .. Len(subs)
  BY Domains, EventFields
<1> SUFFICES ASSUME NEW o \in Owners \ raced' PROVE AloneOf(o)'
  BY DEF OneAtATime
<1>2. AloneOf(o)
  BY <1>1 DEF OneAtATime
<1>3. \A q \in Reqs : Asks(q, o)' <=> Asks(q, o)
  BY <1>1 DEF Asks
<1>4. /\ Len(subs') = s /\ \A t \in 1 .. s : t \in 1 .. Len(subs) \/ t = s
      /\ \A t \in 1 .. Len(subs) : t # s /\ subs'[t] = subs[t]
      /\ subs'[s].owner = x.owner /\ subs'[s].status # "canceled"
  <2>1. subs'[s].owner = x.owner /\ subs'[s].status = "active" /\ Len(subs') = s
    BY <1>1 DEF Begun
  <2>2. \A t \in 1 .. Len(subs) : subs'[t] = subs[t]
    BY <1>1 DEF Begun
  <2>3. \A t \in 1 .. Len(subs) : t # s
    BY <1>0
  <2>4. \A t \in 1 .. s : t \in 1 .. Len(subs) \/ t = s
    BY <1>0
  <2> QED BY <2>1, <2>2, <2>3, <2>4
<1>5. /\ \A i \in 1 .. Len(events') : i \in 1 .. Len(events) \/ i \in {Len(events) + 1, Len(events) + 2}
      /\ \A i \in 1 .. Len(events) : events'[i] = events[i] /\ i < Len(events) + 1 /\ i < Len(events) + 2
      /\ \A i \in {Len(events) + 1, Len(events) + 2} : events'[i].sub = s
  <2>1. Len(events') = Len(events) + 2 /\ \A i \in 1 .. Len(events) : events'[i] = events[i]
    BY <1>1 DEF Begun
  <2>2. \A i \in {Len(events) + 1, Len(events) + 2} : events'[i].sub = s
    BY <1>1 DEF Begun
  <2>3. \A i \in 1 .. Len(events') : i \in 1 .. Len(events) \/ i \in {Len(events) + 1, Len(events) + 2}
    BY <1>0, <2>1
  <2>4. \A i \in 1 .. Len(events) : i < Len(events) + 1 /\ i < Len(events) + 2
    BY <1>0
  <2> QED BY <2>1, <2>2, <2>3, <2>4
<1>6. x.owner = o => \A t \in 1 .. Len(subs) : ~Runs(t, o)
  <2>1. x.owner = o => LiveOf(o) = {}
    BY <1>1
  <2> QED BY <2>1, NotBuying
<1>7. x.owner = o => (\A q \in Reqs : ~Asks(q, o)) /\ \A y \in sessions' : y.owner # o
  BY <1>1, <1>2 DEF AloneOf
<1> HIDE DEF s
<1>8. \A t \in 1 .. Len(subs') : Runs(t, o)' <=> (t \in 1 .. Len(subs) /\ Runs(t, o)) \/ (t = s /\ x.owner = o)
  BY <1>4 DEF Runs, Live
<1>9. /\ \A q, p \in Reqs : Asks(q, o)' /\ Asks(p, o)' => q = p
      /\ \A y, z \in sessions' : y.owner = o /\ z.owner = o => y = z
      /\ \A q \in Reqs, y \in sessions' : ~(Asks(q, o)' /\ y.owner = o)
  BY <1>1, <1>2, <1>3 DEF AloneOf
<1>10. \A t \in 1 .. Len(subs') : Runs(t, o)' => /\ \A q \in Reqs : ~Asks(q, o)'
                                                /\ \A y \in sessions' : y.owner # o
  BY <1>1, <1>2, <1>3, <1>7, <1>8 DEF AloneOf
<1>11. \A t, u \in 1 .. Len(subs') : Runs(t, o)' /\ Runs(u, o)' => t = u
  BY <1>2, <1>6, <1>8 DEF AloneOf
<1>12. ASSUME NEW i \in 1 .. Len(events'), NEW j \in 1 .. Len(events'), NEW t \in 1 .. Len(subs'), NEW u \in 1 .. Len(subs'),
              events'[i].sub = t, events'[j].sub = u, subs'[t].owner = o, Runs(u, o)', t # u
       PROVE  i < j
  <2>1. CASE i \in 1 .. Len(events) /\ j \in 1 .. Len(events)
    <3>1. events[i].sub = t /\ events[j].sub = u
      BY <1>5, <1>12, <2>1
    <3>2. t \in 1 .. Len(subs) /\ u \in 1 .. Len(subs)
      BY <1>0, <2>1, <3>1
    <3>3. subs[t].owner = o /\ Runs(u, o)
      BY <1>4, <1>12, <1>8, <3>2
    <3> QED BY <1>2, <1>12, <2>1, <3>1, <3>2, <3>3 DEF AloneOf
  <2>2. CASE i \in {Len(events) + 1, Len(events) + 2} /\ j \in 1 .. Len(events)
    <3>1. events[j].sub = u /\ t = s
      BY <1>5, <1>12, <2>2
    <3>2. x.owner = o /\ u \in 1 .. Len(subs)
      BY <1>0, <1>4, <1>12, <2>2, <3>1
    <3> QED BY <1>4, <1>6, <1>12, <1>8, <3>2
  <2>3. CASE i \in 1 .. Len(events) /\ j \in {Len(events) + 1, Len(events) + 2}
    BY <1>5, <2>3
  <2>4. CASE i \in {Len(events) + 1, Len(events) + 2} /\ j \in {Len(events) + 1, Len(events) + 2}
    BY <1>5, <1>12, <2>4
  <2> QED BY <1>5, <2>1, <2>2, <2>3, <2>4
<1> QED BY <1>9, <1>10, <1>11, <1>12 DEF AloneOf

LEMMA AloneInit == Init => OneAtATime
<1> SUFFICES ASSUME Init, NEW o \in Owners PROVE AloneOf(o)
  BY DEF OneAtATime
<1>1. Len(events) = 0 /\ Len(subs) = 0 /\ sessions = {} /\ \A r \in Reqs : ~Asks(r, o)
  BY Records DEF Init, Asks
<1>2. 1 .. Len(events) = {} /\ 1 .. Len(subs) = {}
  BY <1>1
<1> QED BY <1>1, <1>2 DEF AloneOf

LEMMA AloneStep == Typed /\ OneAtATime /\ [Next]_vars => OneAtATime'
<1> SUFFICES ASSUME Typed, OneAtATime, [Next]_vars PROVE OneAtATime'
  OBVIOUS
<1>0. Secs \subseteq Nat
  BY SecsTyped
<1>1. ASSUME UNCHANGED <<req, sessions, subs, events, raced>> PROVE OneAtATime'
  BY <1>1, AloneStays
<1>2. CASE UNCHANGED vars
  BY <1>1, <1>2 DEF vars, stripeVars, history
<1>3. CASE Advance
  BY <1>1, <1>3, AdvanceTyped
<1>4. ASSUME NEW a \in Accts, Signup(a) \/ DeleteRequest(a) \/ CancelRefused(a) PROVE OneAtATime'
  BY <1>1, <1>4, SignupTyped, DeleteTyped, RefusedTyped
<1>5. ASSUME NEW a \in Accts, NEW sec \in Secs, CancelAnswers(a, sec) PROVE OneAtATime'
  <2>1. /\ Live(del[a].sub) /\ del[a].sub \in 1 .. Len(subs)
        /\ Wrote(del[a].sub, "canceled", sec) /\ Turned(del[a].sub, "canceled")
        /\ UNCHANGED <<req, sessions, raced>>
    BY <1>0, <1>5, CancelTyped
  <2> QED BY <2>1, AloneTurns
<1>6. ASSUME NEW r \in Reqs, NEW a \in Accts, CheckoutRequest(r, a) PROVE OneAtATime'
  BY <1>6, AloneRequest
<1>7. ASSUME NEW r \in Reqs, CustomerCreated(r) PROVE OneAtATime'
  <2>1. /\ req[r].pc = "customer" /\ \A q \in Reqs : q # r => req'[q] = req[q]
        /\ req'[r].owner = req[r].owner /\ UNCHANGED <<sessions, subs, events>>
        /\ raced \subseteq raced'
    BY <1>7, CustomerTyped
  <2>2. \A q \in Reqs : req'[q].pc = "idle" \/ (req[q].pc # "idle" /\ req'[q].owner = req[q].owner)
    BY <2>1
  <2> QED BY <2>1, <2>2, AloneStays
<1>8. ASSUME NEW r \in Reqs, SessionCreated(r) PROVE OneAtATime'
  BY <1>8, AloneSession
<1>9. ASSUME NEW r \in Reqs, CheckoutFails(r) PROVE OneAtATime'
  <2>1. /\ \A q \in Reqs : req'[q] = IF q = r THEN NoReq ELSE req[q]
        /\ UNCHANGED <<sessions, subs, events, raced>>
    BY <1>9, FailsTyped
  <2>2. \A q \in Reqs : req'[q].pc = "idle" \/ (req[q].pc # "idle" /\ req'[q].owner = req[q].owner)
    BY <2>1, Records
  <2> QED BY <2>1, <2>2, AloneStays
<1>10. ASSUME NEW x \in sessions, NEW sec \in Secs, Subscribe(x, sec) PROVE OneAtATime'
  BY <1>0, <1>10, AloneBuys
<1>11. ASSUME NEW s \in 1 .. Len(subs), NEW sec \in Secs, NEW status \in Statuses, Live(s),
              Len(events) < MaxEvents, Changed(s, status, sec),
              UNCHANGED <<now, row, req, del, customers, sessions, asked, owners, gone, raced, crashes>>
       PROVE  OneAtATime'
  <2>1. Wrote(s, status, sec) /\ Turned(s, status)
    BY <1>0, <1>11, TurnTyped
  <2> QED BY <1>11, <2>1, AloneTurns
<1>12. ASSUME NEW i \in 1 .. Len(events), Deliver(i) PROVE OneAtATime'
  <2>1. Fated(i) /\ UNCHANGED <<req, sessions, subs, raced>>
    BY <1>12, DeliverTyped
  <2>2. \A j \in 1 .. Len(events') : j \in 1 .. Len(events) /\ events'[j].sub = events[j].sub
    BY <2>1 DEF Fated
  <2> QED BY <2>1, <2>2, AloneStays
<1>13. ASSUME NEW i \in 1 .. Len(events), CrashInWebhook(i) PROVE OneAtATime'
  <2>1. Fated(i) /\ UNCHANGED <<sessions, subs, raced>> /\ \A r \in Reqs : req'[r] = NoReq
    BY <1>13, CrashTyped
  <2>2. \A j \in 1 .. Len(events') : j \in 1 .. Len(events) /\ events'[j].sub = events[j].sub
    BY <2>1 DEF Fated
  <2>3. \A r \in Reqs : req'[r].pc = "idle"
    BY <2>1, Records
  <2> QED BY <2>1, <2>2, <2>3, AloneStays
<1>14. CASE Next
  BY <1>3, <1>4, <1>5, <1>6, <1>7, <1>8, <1>9, <1>10, <1>11, <1>12, <1>13, <1>14, Actions
<1> QED BY <1>2, <1>14
-----------------------------------------------------------------------------
(* The customer of the row is the one the owner pays as.                   *)

\* An event of another owner's subscription was applied to the row of o.
Tainted(o) ==
  \E i \in 1 .. Len(events), s \in 1 .. Len(subs) : events[i].to = o /\ events[i].sub = s /\ subs[s].owner # o

\* What owner o of row a asks for and buys, he does as the customer in the row.
Matches(a, o) ==
  /\ \A r \in Reqs : Asks(r, o) => IF req[r].pc = "customer" THEN row[a].customer = None
                                   ELSE req[r].cust = row[a].customer
  /\ \A x \in sessions : x.owner = o => x.cust = row[a].customer
  /\ \A s \in 1 .. Len(subs) : subs[s].owner = o => subs[s].cust = row[a].customer

OneCustomer ==
  \A a \in Rows \ Exempt, o \in Owners : row[a].owner = o => o \in raced \/ Tainted(o) \/ Matches(a, o)

LEMMA TaintStays ==
  ASSUME NEW o \in Owners, Tainted(o), Typed,
         \A i \in 1 .. Len(events) : events[i].to # 0 =>
            i \in 1 .. Len(events') /\ events'[i].to = events[i].to /\ events'[i].sub = events[i].sub,
         \A s \in 1 .. Len(subs) : s \in 1 .. Len(subs') /\ subs'[s].owner = subs[s].owner
  PROVE  Tainted(o)'
<1>1. o # 0
  BY Constants DEF Owners
<1> QED BY <1>1 DEF Tainted

LEMMA CustomerStays ==
  ASSUME Typed, OneCustomer, raced \subseteq raced',
         \A a \in Rows' : a \in Rows /\ row'[a].owner = row[a].owner /\ row'[a].customer = row[a].customer,
         \A i \in 1 .. Len(events) : events[i].to # 0 =>
            i \in 1 .. Len(events') /\ events'[i].to = events[i].to /\ events'[i].sub = events[i].sub,
         \A s \in 1 .. Len(subs) : s \in 1 .. Len(subs') /\ subs'[s].owner = subs[s].owner,
         \A s \in 1 .. Len(subs') :
           \/ s \in 1 .. Len(subs) /\ subs'[s].owner = subs[s].owner /\ subs'[s].cust = subs[s].cust
           \/ \E x \in sessions : subs'[s].owner = x.owner /\ subs'[s].cust = x.cust,
         \A x \in sessions' :
           \/ x \in sessions
           \/ \E r \in Reqs : req[r].pc = "session" /\ x.owner = req[r].owner /\ x.cust = req[r].cust,
         \A r \in Reqs :
           \/ req'[r].pc = "idle"
           \/ req[r].pc # "idle" /\ req'[r].pc = req[r].pc /\ req'[r].owner = req[r].owner /\ req'[r].cust = req[r].cust
           \/ \E a \in Rows \ Exempt :
                /\ req'[r].owner = row[a].owner /\ req'[r].cust = row[a].customer
                /\ req'[r].pc = IF row[a].customer = None THEN "customer" ELSE "session",
         \A a, b \in Rows \ Exempt : row[a].owner = row[b].owner => a = b
  PROVE  OneCustomer'
<1> SUFFICES ASSUME NEW a \in Rows' \ Exempt, NEW o \in Owners, row'[a].owner = o, o \notin raced', ~Tainted(o)'
             PROVE  Matches(a, o)'
  BY DEF OneCustomer
<1>1. a \in Rows \ Exempt /\ row[a].owner = o /\ row'[a].customer = row[a].customer
  OBVIOUS
<1>2. Matches(a, o)
  <2>1. ~Tainted(o)
    BY TaintStays
  <2> QED BY <1>1, <2>1 DEF OneCustomer
<1>3. ASSUME NEW r \in Reqs, req'[r].pc # "idle", req'[r].owner = o
      PROVE  IF req'[r].pc = "customer" THEN row'[a].customer = None ELSE req'[r].cust = row'[a].customer
  <2>1. CASE req[r].pc # "idle" /\ req'[r].pc = req[r].pc /\ req'[r].owner = req[r].owner /\ req'[r].cust = req[r].cust
    BY <1>1, <1>2, <1>3, <2>1 DEF Matches, Asks
  <2>2. CASE \E b \in Rows \ Exempt :
               /\ req'[r].owner = row[b].owner /\ req'[r].cust = row[b].customer
               /\ req'[r].pc = IF row[b].customer = None THEN "customer" ELSE "session"
    <3>1. /\ req'[r].cust = row[a].customer
          /\ req'[r].pc = IF row[a].customer = None THEN "customer" ELSE "session"
      BY <1>1, <1>3, <2>2
    <3> QED BY <1>1, <3>1
  <2> QED BY <1>3, <2>1, <2>2
<1>4. \A x \in sessions' : x.owner = o => x.cust = row'[a].customer
  BY <1>1, <1>2 DEF Matches, Asks
<1>5. \A s \in 1 .. Len(subs') : subs'[s].owner = o => subs'[s].cust = row'[a].customer
  BY <1>1, <1>2 DEF Matches
<1> QED BY <1>3, <1>4, <1>5 DEF Matches, Asks

LEMMA CustomerSet ==
  ASSUME Typed, Own, OneAtATime, OneCustomer, NEW r \in Reqs, CustomerCreated(r)
  PROVE  OneCustomer'
<1> DEFINE c == Len(customers) + 1   b == req[r].acct
<1>1. /\ req[r].pc = "customer" /\ RowsKeep /\ Rows' = Rows
      /\ \A q \in Reqs : q # r => req'[q] = req[q]
      /\ req'[r].pc = "session" /\ req'[r].cust = c /\ req'[r].owner = req[r].owner
      /\ \A a \in Rows : row'[a].customer = IF a = b THEN c ELSE row[a].customer
      /\ raced' = IF row[b] # None /\ row[b].owner # req[r].owner THEN raced \cup {row[b].owner} ELSE raced
      /\ UNCHANGED <<sessions, subs, events>>
  BY CustomerTyped
<1> HIDE DEF c
<1> SUFFICES ASSUME NEW a \in Rows' \ Exempt, NEW o \in Owners, row'[a].owner = o, o \notin raced', ~Tainted(o)'
             PROVE  Matches(a, o)'
  BY DEF OneCustomer
<1>2. a \in Rows \ Exempt /\ row[a].owner = o /\ o \notin raced /\ a \in Accts
  BY <1>1 DEF RowsKeep, Rows
<1>3. Matches(a, o) /\ AloneOf(o)
  <2>1. ~Tainted(o)
    BY <1>1 DEF Tainted
  <2> QED BY <1>2, <2>1 DEF OneCustomer, OneAtATime
<1>4. \A q \in Reqs : q # r => (Asks(q, o)' <=> Asks(q, o))
  BY <1>1 DEF Asks
<1>5. CASE a = b
  <2>1. req[r].owner = o
    BY <1>1, <1>2, <1>5 DEF Rows
  <2>2. Asks(r, o) /\ row[a].customer = None /\ row'[a].customer = c
    BY <1>1, <1>2, <1>3, <1>5, <2>1 DEF Asks, Matches
  <2>3. \A q \in Reqs : Asks(q, o)' => q = r
    BY <1>3, <1>4, <2>2 DEF AloneOf
  <2>4. \A x \in sessions' : x.owner # o
    BY <1>1, <1>3, <2>2 DEF AloneOf
  <2>5. \A s \in 1 .. Len(subs') : subs'[s].owner # o
    <3>1. \A s \in 1 .. Len(subs) : subs[s].cust # None
      BY SubFields, Domains, Constants
    <3> QED BY <1>1, <1>3, <2>2, <3>1 DEF Matches
  <2> QED BY <1>1, <2>2, <2>3, <2>4, <2>5 DEF Matches
<1>6. CASE a # b
  <2>1. req[r].owner # o
    BY <1>1, <1>2, <1>6 DEF Own
  <2>2. \A q \in Reqs : Asks(q, o)' => q # r /\ Asks(q, o)
    BY <1>1, <1>4, <2>1 DEF Asks
  <2>3. row'[a].customer = row[a].customer
    BY <1>1, <1>2, <1>6
  <2> QED BY <1>1, <1>3, <2>2, <2>3 DEF Matches
<1> QED BY <1>5, <1>6

LEMMA CustomerTold ==
  ASSUME Typed, Own, Unapplied, OneCustomer, NEW i \in 1 .. Len(events), Deliver(i)
  PROVE  OneCustomer'
<1> DEFINE e == events[i]
<1>1. /\ RowsKeep /\ Rows' = Rows /\ Fated(i) /\ e.fate = "due"
      /\ events'[i].to = (IF e.acct \in Rows THEN row[e.acct].owner ELSE 0)
      /\ \A a \in Accts : row'[a] = IF a \in Rows /\ a = e.acct THEN Applied(row[a], e) ELSE row[a]
      /\ UNCHANGED <<req, sessions, subs, raced>>
  BY DeliverTyped
<1>2. e.to = 0 /\ e \in EventType /\ e.acct \notin Exempt /\ e.sub \in 1 .. Len(subs) /\ e.cust = subs[e.sub].cust
      /\ e.cust \in Nat
  BY <1>1, EventFields, Domains DEF Unapplied
<1> SUFFICES ASSUME NEW a \in Rows' \ Exempt, NEW o \in Owners, row'[a].owner = o, o \notin raced', ~Tainted(o)'
             PROVE  Matches(a, o)'
  BY DEF OneCustomer
<1>3. a \in Rows \ Exempt /\ row[a].owner = o /\ o \notin raced /\ a \in Accts /\ row[a] \in RowType
  <2>1. a \in Rows \ Exempt /\ row[a].owner = o /\ o \notin raced /\ a \in Accts
    BY <1>1 DEF RowsKeep, Rows
  <2> QED BY <2>1, RowFields DEF Rows
<1>4. Matches(a, o)
  <2>1. /\ \A j \in 1 .. Len(events) : events[j].to # 0 =>
             j \in 1 .. Len(events') /\ events'[j].to = events[j].to /\ events'[j].sub = events[j].sub
        /\ \A s \in 1 .. Len(subs) : s \in 1 .. Len(subs') /\ subs'[s].owner = subs[s].owner
    BY <1>1, <1>2 DEF Fated
  <2>2. ~Tainted(o)
    BY <2>1, TaintStays
  <2> QED BY <1>3, <2>2 DEF OneCustomer
<1>5. row'[a].customer = row[a].customer
  <2>1. CASE a # e.acct
    BY <1>1, <1>3, <2>1
  <2>2. CASE a = e.acct
    <3>1. subs[e.sub].owner = o
      <4>1. events'[i].to = o /\ events'[i].sub = e.sub /\ Len(events') = Len(events)
        BY <1>1, <1>3, <2>2 DEF Fated
      <4> QED BY <1>1, <1>2, <4>1 DEF Tainted
    <3>2. row[a].customer = e.cust /\ row[a].customer # None
      BY <1>2, <1>4, <3>1, Constants DEF Matches
    <3>3. row'[a] = Applied(row[a], e)
      BY <1>1, <1>3, <2>2
    <3>4. CASE e.type = "completed"
      BY <1>2, <1>3, <3>2, <3>3, <3>4, AppliedRow
    <3>5. CASE e.type # "completed" /\ ~Newer(row[a], e)
      BY <1>2, <1>3, <3>2, <3>3, <3>5, AppliedRow
    <3>6. CASE e.type # "completed" /\ Newer(row[a], e)
      BY <1>2, <1>3, <3>2, <3>3, <3>6, AppliedRow
    <3> QED BY <3>4, <3>5, <3>6
  <2> QED BY <2>1, <2>2
<1>6. \A q \in Reqs : Asks(q, o)' <=> Asks(q, o)
  BY <1>1 DEF Asks
<1> QED BY <1>1, <1>4, <1>5, <1>6 DEF Matches

LEMMA CustomerInit == Init => OneCustomer
<1> SUFFICES ASSUME Init PROVE OneCustomer
  OBVIOUS
<1>1. Rows \ Exempt = {}
  BY DEF Init, Rows
<1> QED BY <1>1 DEF OneCustomer

LEMMA CustomerStep == Typed /\ Own /\ Told /\ OneAtATime /\ OneCustomer /\ [Next]_vars => OneCustomer'
<1> SUFFICES ASSUME Typed, Own, Told, OneAtATime, OneCustomer, [Next]_vars PROVE OneCustomer'
  OBVIOUS
<1>0. Secs \subseteq Nat /\ Len(events) \in Nat /\ Len(subs) \in Nat
      /\ \A a, b \in Rows \ Exempt : row[a].owner = row[b].owner => a = b
  BY SecsTyped, Domains DEF Own
<1>1. ASSUME UNCHANGED <<req, sessions, subs, events, raced>>, \A a \in Rows' : a \in Rows /\ row'[a] = row[a] PROVE OneCustomer'
  BY <1>0, <1>1, CustomerStays
<1>2. CASE UNCHANGED vars
  BY <1>1, <1>2 DEF vars, stripeVars, history, Rows
<1>3. CASE Advance
  BY <1>1, <1>3, AdvanceTyped DEF Rows
<1>4. ASSUME NEW a \in Accts, Signup(a) PROVE OneCustomer'
  <2>1. /\ a \notin Rows /\ a \notin Exempt /\ owners \in Nat
        /\ row' = [row EXCEPT ![a] = NewRow(owners + 1, now + TrialLen)] /\ row \in [Accts -> RowType \cup {None}]
        /\ UNCHANGED <<req, sessions, subs, events, raced>>
    BY <1>4, SignupTyped, Domains
  <2> SUFFICES ASSUME NEW b \in Rows' \ Exempt, NEW o \in Owners, row'[b].owner = o, o \notin raced', ~Tainted(o)'
               PROVE  Matches(b, o)'
    BY DEF OneCustomer
  <2>2. CASE b = a
    <3>1. o = owners + 1
      BY <2>1, <2>2 DEF NewRow
    <3>2. \A r \in Reqs : req[r].pc # "idle" => req[r].owner # o
      BY <2>1, <3>1, ReqFields
    <3>3. \A x \in sessions : x.owner # o
      BY <2>1, <3>1, SessionFields
    <3>4. \A s \in 1 .. Len(subs) : subs[s].owner # o
      BY <2>1, <3>1, SubFields
    <3> QED BY <2>1, <3>2, <3>3, <3>4 DEF Matches, Asks
  <2>3. CASE b # a
    <3>1. b \in Rows \ Exempt /\ row'[b] = row[b] /\ ~Tainted(o)
      BY <2>1, <2>3 DEF Rows, Tainted
    <3> QED BY <2>1, <3>1 DEF OneCustomer, Matches, Asks
  <2> QED BY <2>2, <2>3
<1>5. ASSUME NEW a \in Accts, DeleteRequest(a) PROVE OneCustomer'
  <2>1. \A b \in Rows' : b \in Rows /\ row'[b] = row[b]
    BY <1>5, DeleteTyped DEF Removed, Rows
  <2> QED BY <1>1, <1>5, <2>1, DeleteTyped
<1>6. ASSUME NEW a \in Accts, CancelRefused(a) PROVE OneCustomer'
  BY <1>1, <1>6, RefusedTyped DEF Rows
<1>7. ASSUME NEW s \in 1 .. Len(subs), NEW sec, NEW status, Wrote(s, status, sec), Turned(s, status),
             UNCHANGED <<req, sessions, raced>>, \A a \in Rows' : a \in Rows /\ row'[a] = row[a]
      PROVE  OneCustomer'
  <2>1. \A i \in 1 .. Len(events) : i \in 1 .. Len(events') /\ events'[i] = events[i]
    BY <1>0, <1>7 DEF Wrote
  <2>2. \A t \in 1 .. Len(subs) : t \in 1 .. Len(subs') /\ subs'[t].owner = subs[t].owner
    BY <1>7 DEF Turned
  <2>3. \A t \in 1 .. Len(subs') : t \in 1 .. Len(subs) /\ subs'[t].owner = subs[t].owner /\ subs'[t].cust = subs[t].cust
    BY <1>7 DEF Turned
  <2> QED BY <1>0, <1>7, <2>1, <2>2, <2>3, CustomerStays
<1>8. ASSUME NEW a \in Accts, NEW sec \in Secs, CancelAnswers(a, sec) PROVE OneCustomer'
  <2>1. /\ del[a].sub \in 1 .. Len(subs) /\ Removed(a, del[a].calm)
        /\ Wrote(del[a].sub, "canceled", sec) /\ Turned(del[a].sub, "canceled")
        /\ UNCHANGED <<req, sessions, raced>>
    BY <1>0, <1>8, CancelTyped
  <2>2. \A b \in Rows' : b \in Rows /\ row'[b] = row[b]
    BY <2>1 DEF Removed
  <2> QED BY <1>7, <2>1, <2>2
<1>9. ASSUME NEW s \in 1 .. Len(subs), NEW sec \in Secs, NEW status \in Statuses,
             Len(events) < MaxEvents, Changed(s, status, sec),
             UNCHANGED <<now, row, req, del, customers, sessions, asked, owners, gone, raced, crashes>>
      PROVE  OneCustomer'
  <2>1. Wrote(s, status, sec) /\ Turned(s, status)
    BY <1>0, <1>9, TurnTyped
  <2>2. \A b \in Rows' : b \in Rows /\ row'[b] = row[b]
    BY <1>9 DEF Rows
  <2> QED BY <1>7, <1>9, <2>1, <2>2
<1>10. ASSUME NEW r \in Reqs, NEW a \in Accts, CheckoutRequest(r, a) PROVE OneCustomer'
  <2>1. /\ row[a] # None /\ a \notin Exempt /\ \A q \in Reqs : q # r => req'[q] = req[q]
        /\ req'[r].owner = row[a].owner /\ req'[r].cust = row[a].customer
        /\ req'[r].pc = (IF row[a].customer = None THEN "customer" ELSE "session")
        /\ raced \subseteq raced' /\ UNCHANGED <<row, sessions, subs, events>>
    BY <1>10, RequestTyped
  <2>2. a \in Rows \ Exempt
    BY <2>1 DEF Rows
  <2>3. \A q \in Reqs :
           \/ req'[q].pc = "idle"
           \/ req[q].pc # "idle" /\ req'[q].pc = req[q].pc /\ req'[q].owner = req[q].owner /\ req'[q].cust = req[q].cust
           \/ \E b \in Rows \ Exempt :
                /\ req'[q].owner = row[b].owner /\ req'[q].cust = row[b].customer
                /\ req'[q].pc = IF row[b].customer = None THEN "customer" ELSE "session"
    BY <2>1, <2>2
  <2>4. \A b \in Rows' : b \in Rows /\ row'[b] = row[b]
    BY <2>1 DEF Rows
  <2> QED BY <1>0, <2>1, <2>3, <2>4, CustomerStays
<1>11. ASSUME NEW r \in Reqs, CustomerCreated(r) PROVE OneCustomer'
  BY <1>11, CustomerSet
<1>12. ASSUME NEW r \in Reqs, SessionCreated(r) PROVE OneCustomer'
  <2>1. /\ req[r].pc = "session" /\ \A q \in Reqs : req'[q] = IF q = r THEN NoReq ELSE req[q]
        /\ sessions' = sessions \cup {[acct |-> req[r].acct, owner |-> req[r].owner,
                                       cust |-> req[r].cust, carry |-> req[r].carry]}
        /\ UNCHANGED <<row, subs, events, raced>>
    BY <1>12, SessionTyped
  <2>2. \A q \in Reqs : req'[q].pc = "idle" \/ req'[q] = req[q]
    BY <2>1, Records
  <2>3. \A x \in sessions' :
           \/ x \in sessions
           \/ \E q \in Reqs : req[q].pc = "session" /\ x.owner = req[q].owner /\ x.cust = req[q].cust
    BY <2>1
  <2>4. \A b \in Rows' : b \in Rows /\ row'[b] = row[b]
    BY <2>1 DEF Rows
  <2> QED BY <1>0, <2>1, <2>2, <2>3, <2>4, CustomerStays
<1>13. ASSUME NEW r \in Reqs, CheckoutFails(r) PROVE OneCustomer'
  <2>1. /\ \A q \in Reqs : req'[q] = IF q = r THEN NoReq ELSE req[q]
        /\ UNCHANGED <<row, sessions, subs, events, raced>>
    BY <1>13, FailsTyped
  <2>2. \A q \in Reqs : req'[q].pc = "idle" \/ req'[q] = req[q]
    BY <2>1, Records
  <2>3. \A b \in Rows' : b \in Rows /\ row'[b] = row[b]
    BY <2>1 DEF Rows
  <2> QED BY <1>0, <2>1, <2>2, <2>3, CustomerStays
<1>14. ASSUME NEW x \in sessions, NEW sec \in Secs, Subscribe(x, sec) PROVE OneCustomer'
  <2>0. sec \in Nat
    BY <1>0
  <2>1. Begun(x, sec) /\ sessions' = sessions \ {x} /\ raced \subseteq raced' /\ UNCHANGED <<row, req>>
    BY <1>14, <2>0, SubscribeTyped
  <2>2. \A i \in 1 .. Len(events) : i \in 1 .. Len(events') /\ events'[i] = events[i]
    BY <1>0, <2>1 DEF Begun
  <2>3. \A t \in 1 .. Len(subs) : t \in 1 .. Len(subs') /\ subs'[t] = subs[t]
    BY <1>0, <2>1 DEF Begun
  <2>4. \A t \in 1 .. Len(subs') :
           \/ t \in 1 .. Len(subs) /\ subs'[t].owner = subs[t].owner /\ subs'[t].cust = subs[t].cust
           \/ \E y \in sessions : subs'[t].owner = y.owner /\ subs'[t].cust = y.cust
    <3>1. \A t \in 1 .. Len(subs') : t \in 1 .. Len(subs) \/ t = Len(subs) + 1
      BY <1>0, <2>1 DEF Begun
    <3> QED BY <2>1, <2>3, <3>1 DEF Begun
  <2>5. \A b \in Rows' : b \in Rows /\ row'[b] = row[b]
    BY <2>1 DEF Rows
  <2> QED BY <1>0, <2>1, <2>2, <2>3, <2>4, <2>5, CustomerStays
<1>15. ASSUME NEW i \in 1 .. Len(events), Deliver(i) PROVE OneCustomer'
  BY <1>15, CustomerTold DEF Told
<1>16. ASSUME NEW i \in 1 .. Len(events), CrashInWebhook(i) PROVE OneCustomer'
  <2>1. /\ Fated(i) /\ events'[i].to = events[i].to /\ \A r \in Reqs : req'[r] = NoReq
        /\ UNCHANGED <<row, sessions, subs, raced>>
    BY <1>16, CrashTyped
  <2>2. \A j \in 1 .. Len(events) : j \in 1 .. Len(events') /\ events'[j].to = events[j].to /\ events'[j].sub = events[j].sub
    BY <2>1 DEF Fated
  <2>3. \A r \in Reqs : req'[r].pc = "idle"
    BY <2>1, Records
  <2>4. \A b \in Rows' : b \in Rows /\ row'[b] = row[b]
    BY <2>1 DEF Rows
  <2> QED BY <1>0, <2>1, <2>2, <2>3, <2>4, CustomerStays
<1>17. CASE Next
  BY <1>3, <1>4, <1>5, <1>6, <1>8, <1>9, <1>10, <1>11, <1>12, <1>13, <1>14, <1>15, <1>16, <1>17, Actions
<1> QED BY <1>2, <1>17
-----------------------------------------------------------------------------
(* The row and Stripe, once the events have arrived.                       *)

\* In a settled account the events of the owner's subscriptions are those applied to his row.
LEMMA SettledEvents ==
  ASSUME Typed, Own, NEW a \in Rows \ Exempt, Settled(a), NEW i \in 1 .. Len(events)
  PROVE  subs[events[i].sub].owner = row[a].owner <=> events[i].to = row[a].owner
<1>1. events[i].sub \in 1 .. Len(subs) /\ events[i].acct = subs[events[i].sub].acct
  BY EventFields
<1>2. events[i].acct = a => i \in EventsOf(a)
  BY Domains DEF EventsOf
<1>3. subs[events[i].sub].owner = row[a].owner => i \in EventsOf(a)
  BY <1>1, <1>2 DEF Own
<1>4. events[i].to = row[a].owner => i \in EventsOf(a)
  BY <1>2 DEF Own
<1> QED BY <1>3, <1>4 DEF Settled

\* The row of one who bought subscription s: event i is the last of s, event k the one the
\* status in the row was copied from.
LEMMA SettledRow ==
  ASSUME Typed, Own, Told, Copied, NEW a \in Rows \ Exempt, Settled(a),
         NEW s \in 1 .. Len(subs), subs[s].owner = row[a].owner
  PROVE  /\ row[a].sub # None /\ row[a].sub \in 1 .. Len(subs) /\ subs[row[a].sub].owner = row[a].owner
         /\ \E i, k \in EventsOf(a) :
              /\ events[i].type = "subscription" /\ events[i].sub = s /\ events[i].status = subs[s].status
              /\ \A j \in 1 .. Len(events) : IsSync(j) /\ events[j].sub = s => j <= i
              /\ events[k].type = "subscription" /\ subs[events[k].sub].owner = row[a].owner
              /\ events[k].status = row[a].status /\ events[i].sec <= events[k].sec
<1>0. a \in Accts /\ row[a] # None /\ row[a].owner # 0
  <2>1. a \in Accts /\ row[a] # None
    BY DEF Rows
  <2>2. row[a].owner >= 1
    BY <2>1, RowFields
  <2> QED BY <2>1, <2>2
<1>1. PICK i \in 1 .. Len(events) :
        /\ IsSync(i) /\ events[i].sub = s /\ events[i].status = subs[s].status
        /\ \A j \in 1 .. Len(events) : IsSync(j) /\ events[j].sub = s => j <= i
  BY DEF Told, Latest
<1>2. events[i].to = row[a].owner
  BY <1>1, SettledEvents
<1>3. CopyOK(a)
  BY DEF Copied
<1>4. row[a].sub # None /\ row[a].updated # None
  BY <1>1, <1>2, <1>3 DEF CopyOK
<1>5. PICK j \in 1 .. Len(events) : events[j].to = row[a].owner /\ events[j].sub = row[a].sub
  BY <1>3, <1>4 DEF CopyOK
<1>6. subs[row[a].sub].owner = row[a].owner /\ row[a].sub \in 1 .. Len(subs)
  BY <1>5, SettledEvents, EventFields
<1>7. PICK k \in 1 .. Len(events) : /\ IsSync(k) /\ events[k].to = row[a].owner
                                    /\ events[k].sec = row[a].updated /\ events[k].status = row[a].status
  BY <1>3, <1>4 DEF CopyOK
<1>8. subs[events[k].sub].owner = row[a].owner
  BY <1>7, SettledEvents
<1>9. events[i].sec <= events[k].sec
  BY <1>1, <1>2, <1>3, <1>4, <1>7 DEF CopyOK
<1>10. i \in EventsOf(a) /\ k \in EventsOf(a)
  BY <1>2, <1>7, Domains DEF Own, EventsOf
<1> QED BY <1>1, <1>4, <1>6, <1>7, <1>8, <1>9, <1>10 DEF IsSync

\* (SettledIsStripe, Billing.tla) Once the events have arrived, in whatever order, the row of an
\* owner who never bought twice at once is what Stripe has: the subscription, its status and the
\* customer (syncSubscription and handleStripeWebhook, billing.ts).
THEOREM RowIsStripe == Spec => []SettledIsStripe
<1>1. Typed /\ Own /\ Told /\ Copied /\ OneCustomer => SettledIsStripe
  <2> SUFFICES ASSUME Typed, Own, Told, Copied, OneCustomer, NEW a \in Rows \ Exempt, NEW s \in DOMAIN subs,
                      subs[s].owner = row[a].owner, row[a].owner \notin raced,
                      \A t \in DOMAIN subs : subs[t].owner = subs[s].owner => t = s,
                      Settled(a),
                      \A i, j \in EventsOf(a) :
                        events[i].sec = events[j].sec => events[i].type # events[j].type \/ i = j
               PROVE  /\ row[a].sub = s /\ row[a].customer = subs[s].cust
                      /\ row[a].status = subs[s].status
                      /\ Entitled(row[a]) <=> (subs[s].status = "active" \/ now < row[a].trial)
    BY DEF SettledIsStripe
  <2>1. DOMAIN subs = 1 .. Len(subs) /\ DOMAIN events = 1 .. Len(events) /\ s \in 1 .. Len(subs)
    BY Domains
  <2>2. a \in Accts /\ row[a] # None /\ row[a].owner \in Owners /\ row[a].owner # 0 /\ row[a].trial # None
    <3>1. a \in Accts /\ row[a] # None
      BY DEF Rows
    <3>2. row[a].owner >= 1 /\ row[a].owner \in Owners /\ row[a].trial # None
      BY <3>1, RowFields
    <3> QED BY <3>1, <3>2
  <2>3. row[a].sub = s
    BY <2>1, SettledRow
  <2>4. row[a].status = subs[s].status
    <3>1. PICK i, k \in EventsOf(a) :
              /\ events[i].type = "subscription" /\ events[i].sub = s /\ events[i].status = subs[s].status
              /\ \A j \in 1 .. Len(events) : IsSync(j) /\ events[j].sub = s => j <= i
              /\ events[k].type = "subscription" /\ subs[events[k].sub].owner = row[a].owner
              /\ events[k].status = row[a].status /\ events[i].sec <= events[k].sec
      BY <2>1, SettledRow
    <3>2. i \in 1 .. Len(events) /\ k \in 1 .. Len(events)
      BY <2>1 DEF EventsOf
    <3>3. events[k].sub = s
      BY <2>1, <3>1, <3>2, EventFields
    <3>4. k <= i
      BY <3>1, <3>2, <3>3 DEF IsSync
    <3>5. events[k].sec <= events[i].sec
      BY <3>2, <3>4 DEF Told, Sorted
    <3>6. events[i].sec = events[k].sec
      BY <3>1, <3>2, <3>5, EventFields
    <3>7. i = k
      BY <3>1, <3>6
    <3> QED BY <3>1, <3>7
  <2>5. row[a].customer = subs[s].cust
    <3>1. ~Tainted(row[a].owner)
      BY SettledEvents DEF Tainted
    <3>2. Matches(a, row[a].owner)
      BY <2>2, <3>1 DEF OneCustomer
    <3> QED BY <2>1, <3>2 DEF Matches
  <2>6. Entitled(row[a]) <=> (subs[s].status = "active" \/ now < row[a].trial)
    BY <2>2, <2>4 DEF Entitled, Subscribed
  <2> QED BY <2>3, <2>4, <2>5, <2>6
<1> QED BY <1>1, TypedInit, TypedStep, OwnInit, OwnStep, ToldInit, ToldStep, CopiedInit, CopiedStep,
           AloneInit, AloneStep, CustomerInit, CustomerStep, PTL DEF Spec
-----------------------------------------------------------------------------
(* What a deleted account leaves at Stripe.                                *)

\* What is asked for and bought in a step: only an owner with a row asks for something new,
\* and a cancelled subscription stays so.
Flows ==
  /\ raced \subseteq raced'
  /\ \A r \in Reqs : \/ req'[r].pc = "idle"
                     \/ req[r].pc # "idle" /\ req'[r].owner = req[r].owner
                     \/ \E a \in Rows \ Exempt : req'[r].owner = row[a].owner
  /\ \A x \in sessions' : x \in sessions \/ \E r \in Reqs : req[r].pc # "idle" /\ x.owner = req[r].owner
  /\ \A s \in 1 .. Len(subs) : s \in 1 .. Len(subs') /\ subs'[s].owner = subs[s].owner
  /\ \A s \in 1 .. Len(subs') :
       \/ s \in 1 .. Len(subs) /\ subs'[s].owner = subs[s].owner /\ (~Live(s) => subs'[s].status = "canceled")
       \/ \E x \in sessions : subs'[s].owner = x.owner

\* Deletions go on or are over, and no row is deleted.
DelsGoOn ==
  /\ UNCHANGED gone
  /\ \A a \in Accts : del'[a].pc = "idle" \/ del'[a] = del[a]
  /\ \A a \in Rows : a \in Rows' /\ row'[a].owner = row[a].owner

LEMMA FlowsStep ==
  ASSUME Typed, [Next]_vars
  PROVE  /\ Flows
         /\ \/ DelsGoOn
            \/ \E a \in Accts : DeleteRequest(a)
            \/ \E a \in Accts, sec \in Secs : CancelAnswers(a, sec)
<1>0. Secs \subseteq Nat /\ Len(subs) \in Nat
  BY SecsTyped, Domains
<1> DEFINE Dels == \/ DelsGoOn
                   \/ \E a \in Accts : DeleteRequest(a)
                   \/ \E a \in Accts, sec \in Secs : CancelAnswers(a, sec)
<1>1. ASSUME UNCHANGED <<req, sessions, subs>>, raced \subseteq raced' PROVE Flows
  BY <1>1 DEF Flows, Live
<1>2. ASSUME UNCHANGED <<row, gone, del>> PROVE DelsGoOn
  BY <1>2 DEF DelsGoOn, Rows
<1>3. CASE UNCHANGED vars
  BY <1>1, <1>2, <1>3 DEF vars, stripeVars, history
<1>4. CASE Advance
  BY <1>1, <1>2, <1>4, AdvanceTyped
<1>5. ASSUME NEW a \in Accts, Signup(a) PROVE Flows /\ Dels
  <2>1. /\ a \notin Rows /\ UNCHANGED <<req, sessions, subs, raced, gone, del>>
        /\ row' = [row EXCEPT ![a] = NewRow(owners + 1, now + TrialLen)] /\ row \in [Accts -> RowType \cup {None}]
    BY <1>5, SignupTyped
  <2>2. DelsGoOn
    BY <2>1 DEF DelsGoOn, Rows
  <2> QED BY <1>1, <2>1, <2>2
<1>6. ASSUME NEW a \in Accts, DeleteRequest(a) PROVE Flows
  BY <1>1, <1>6, DeleteTyped
<1>7. ASSUME NEW a \in Accts, CancelRefused(a) PROVE Flows /\ Dels
  <2>1. /\ UNCHANGED <<row, req, sessions, subs, raced, gone>> /\ \A b \in Accts : del'[b] = IF b = a THEN NoDel ELSE del[b]
    BY <1>7, RefusedTyped
  <2>2. DelsGoOn
    BY <2>1, Records DEF DelsGoOn, Rows
  <2> QED BY <1>1, <2>1, <2>2
<1>8. ASSUME NEW s \in 1 .. Len(subs), NEW status \in Statuses, Live(s), Turned(s, status),
             UNCHANGED <<req, sessions, raced>>
      PROVE  Flows
  <2>1. \A t \in 1 .. Len(subs') :
          t \in 1 .. Len(subs) /\ subs'[t].owner = subs[t].owner /\ (~Live(t) => subs'[t].status = "canceled")
    BY <1>8 DEF Turned, Live
  <2>2. \A t \in 1 .. Len(subs) : t \in 1 .. Len(subs') /\ subs'[t].owner = subs[t].owner
    BY <1>8 DEF Turned
  <2> QED BY <1>8, <2>1, <2>2 DEF Flows
<1>9. ASSUME NEW a \in Accts, NEW sec \in Secs, CancelAnswers(a, sec) PROVE Flows
  <2>1. /\ Live(del[a].sub) /\ del[a].sub \in 1 .. Len(subs) /\ Turned(del[a].sub, "canceled")
        /\ UNCHANGED <<req, sessions, raced>>
    BY <1>0, <1>9, CancelTyped
  <2> QED BY <1>8, <2>1 DEF Statuses
<1>10. ASSUME NEW r \in Reqs, NEW a \in Accts, CheckoutRequest(r, a) PROVE Flows /\ Dels
  <2>1. /\ row[a] # None /\ a \notin Exempt /\ \A q \in Reqs : q # r => req'[q] = req[q]
        /\ req'[r].owner = row[a].owner /\ raced \subseteq raced'
        /\ UNCHANGED <<row, del, sessions, subs, gone>>
    BY <1>10, RequestTyped
  <2>2. \A q \in Reqs : \/ req'[q].pc = "idle"
                        \/ req[q].pc # "idle" /\ req'[q].owner = req[q].owner
                        \/ \E b \in Rows \ Exempt : req'[q].owner = row[b].owner
    BY <2>1 DEF Rows
  <2> QED BY <1>2, <2>1, <2>2 DEF Flows, Live
<1>11. ASSUME NEW r \in Reqs, CustomerCreated(r) PROVE Flows /\ Dels
  <2>1. /\ req[r].pc = "customer" /\ RowsKeep /\ Rows' = Rows /\ \A q \in Reqs : q # r => req'[q] = req[q]
        /\ req'[r].owner = req[r].owner /\ raced \subseteq raced'
        /\ UNCHANGED <<del, sessions, subs, gone>>
    BY <1>11, CustomerTyped
  <2>2. \A q \in Reqs : req'[q].pc = "idle" \/ (req[q].pc # "idle" /\ req'[q].owner = req[q].owner)
    BY <2>1
  <2>3. DelsGoOn
    BY <2>1 DEF DelsGoOn, RowsKeep
  <2> QED BY <2>1, <2>2, <2>3 DEF Flows, Live
<1>12. ASSUME NEW r \in Reqs, SessionCreated(r) PROVE Flows /\ Dels
  <2>1. /\ req[r].pc = "session" /\ \A q \in Reqs : req'[q] = IF q = r THEN NoReq ELSE req[q]
        /\ sessions' = sessions \cup {[acct |-> req[r].acct, owner |-> req[r].owner,
                                        cust |-> req[r].cust, carry |-> req[r].carry]}
        /\ UNCHANGED <<row, del, subs, gone, raced>>
    BY <1>12, SessionTyped
  <2>2. \A q \in Reqs : req'[q].pc = "idle" \/ (req[q].pc # "idle" /\ req'[q].owner = req[q].owner)
    BY <2>1, Records
  <2>3. \A x \in sessions' : x \in sessions \/ \E q \in Reqs : req[q].pc # "idle" /\ x.owner = req[q].owner
    BY <2>1
  <2> QED BY <1>2, <2>1, <2>2, <2>3 DEF Flows, Live
<1>13. ASSUME NEW r \in Reqs, CheckoutFails(r) PROVE Flows /\ Dels
  <2>1. /\ \A q \in Reqs : req'[q] = IF q = r THEN NoReq ELSE req[q]
        /\ UNCHANGED <<row, del, sessions, subs, gone, raced>>
    BY <1>13, FailsTyped
  <2>2. \A q \in Reqs : req'[q].pc = "idle" \/ (req[q].pc # "idle" /\ req'[q].owner = req[q].owner)
    BY <2>1, Records
  <2> QED BY <1>2, <2>1, <2>2 DEF Flows, Live
<1>14. ASSUME NEW x \in sessions, NEW sec \in Secs, Subscribe(x, sec) PROVE Flows /\ Dels
  <2>0. sec \in Nat
    BY <1>0
  <2>1. /\ Begun(x, sec) /\ sessions' = sessions \ {x} /\ raced \subseteq raced' /\ UNCHANGED <<row, req, del, gone>>
    BY <1>14, <2>0, SubscribeTyped
  <2>2. \A s \in 1 .. Len(subs') : (s \in 1 .. Len(subs) /\ subs'[s] = subs[s]) \/ subs'[s].owner = x.owner
    <3>1. \A s \in 1 .. Len(subs') : s \in 1 .. Len(subs) \/ s = Len(subs) + 1
      BY <1>0, <2>1 DEF Begun
    <3> QED BY <2>1, <3>1 DEF Begun
  <2>3. \A s \in 1 .. Len(subs) : s \in 1 .. Len(subs') /\ subs'[s].owner = subs[s].owner
    BY <1>0, <2>1 DEF Begun
  <2> QED BY <1>2, <2>1, <2>2, <2>3 DEF Flows, Live
<1>15. ASSUME NEW s \in 1 .. Len(subs), NEW sec \in Secs, NEW status \in Statuses, Live(s),
              Len(events) < MaxEvents, Changed(s, status, sec),
              UNCHANGED <<now, row, req, del, customers, sessions, asked, owners, gone, raced, crashes>>
       PROVE  Flows /\ Dels
  <2>1. Turned(s, status)
    BY <1>0, <1>15, TurnTyped
  <2> QED BY <1>2, <1>8, <1>15, <2>1
<1>16. ASSUME NEW i \in 1 .. Len(events), Deliver(i) PROVE Flows /\ Dels
  <2>1. RowsKeep /\ Rows' = Rows /\ UNCHANGED <<req, del, sessions, subs, gone, raced>>
    BY <1>16, DeliverTyped
  <2>2. DelsGoOn
    BY <2>1 DEF DelsGoOn, RowsKeep
  <2> QED BY <1>1, <2>1, <2>2
<1>17. ASSUME NEW i \in 1 .. Len(events), CrashInWebhook(i) PROVE Flows /\ Dels
  <2>1. /\ \A r \in Reqs : req'[r].pc = "idle"
        /\ \A a \in Accts : del'[a].pc = "idle"
        /\ UNCHANGED <<row, sessions, subs, gone, raced>>
    BY <1>17, CrashTyped, Records
  <2>2. DelsGoOn
    BY <2>1 DEF DelsGoOn, Rows
  <2> QED BY <2>1, <2>2 DEF Flows, Live
<1>18. CASE Next
  BY <1>4, <1>5, <1>6, <1>7, <1>9, <1>10, <1>11, <1>12, <1>13, <1>14, <1>15, <1>16, <1>17, <1>18, Actions
<1> QED BY <1>3, <1>18

\* Owner o has no subscription that runs, and nothing that could become one.
Quiet(o) ==
  /\ \A r \in Reqs : ~Asks(r, o)
  /\ \A x \in sessions : x.owner # o
  /\ \A s \in 1 .. Len(subs) : ~Runs(s, o)

\* Owners who went calmly are quiet; a deletion that waits for Stripe cancels what is his.
GoneQuiet == \A g \in gone : g.calm /\ g.owner \notin raced => Quiet(g.owner)
Cancelling ==
  \A a \in Rows \ Exempt : del[a].pc = "cancel" /\ del[a].calm => subs[del[a].sub].owner = row[a].owner

LEMMA QuietStays ==
  ASSUME Flows, NEW o, Quiet(o), \A a \in Rows \ Exempt : row[a].owner # o
  PROVE  Quiet(o)'
<1>1. \A r \in Reqs : ~Asks(r, o)'
  BY DEF Quiet, Asks, Flows
<1>2. \A x \in sessions' : x.owner # o
  BY DEF Quiet, Asks, Flows
<1>3. \A s \in 1 .. Len(subs') : ~Runs(s, o)'
  BY DEF Quiet, Runs, Live, Flows
<1> QED BY <1>1, <1>2, <1>3 DEF Quiet

\* The rows go at once: nothing runs that the row does not say.
LEMMA QuietAtOnce ==
  ASSUME Typed, Own, Told, Copied, NEW a \in Rows \ Exempt, AloneOf(row[a].owner),
         ~MustCancel(row[a]), Settled(a), ~Buying(row[a].owner)
  PROVE  Quiet(row[a].owner)
<1>1. (\A r \in Reqs : ~Asks(r, row[a].owner)) /\ \A x \in sessions : x.owner # row[a].owner
  BY NotBuying
<1>2. ASSUME NEW s \in 1 .. Len(subs), Runs(s, row[a].owner) PROVE FALSE
  <2>1. subs[s].owner = row[a].owner /\ Live(s)
    BY <1>2 DEF Runs
  <2>2. row[a].sub # None
    BY <2>1, SettledRow
  <2>3. row[a].status = "canceled"
    BY <2>2 DEF MustCancel
  <2>4. PICK i, k \in EventsOf(a) :
              /\ events[i].type = "subscription" /\ events[i].sub = s /\ events[i].status = subs[s].status
              /\ \A j \in 1 .. Len(events) : IsSync(j) /\ events[j].sub = s => j <= i
              /\ events[k].type = "subscription" /\ subs[events[k].sub].owner = row[a].owner
              /\ events[k].status = row[a].status /\ events[i].sec <= events[k].sec
    BY <2>1, SettledRow
  <2>5. i \in 1 .. Len(events) /\ k \in 1 .. Len(events)
    BY Domains DEF EventsOf
  <2>6. ~Live(events[k].sub) /\ events[k].sub \in 1 .. Len(subs) /\ events[k].sub # s
    BY <2>1, <2>3, <2>4, <2>5, EventFields DEF Told, Final, IsSync
  <2>7. k < i
    BY <1>2, <2>4, <2>5, <2>6 DEF AloneOf
  <2>8. k <= i
    BY <2>5, <2>7
  <2>9. events[k].sec <= events[i].sec
    BY <2>5, <2>8 DEF Told, Sorted
  <2>10. events[i].sec = events[k].sec
    BY <2>4, <2>5, <2>9, EventFields
  <2> QED BY <2>4, <2>6, <2>10 DEF Settled
<1> QED BY <1>1, <1>2 DEF Quiet

\* The one subscription that runs is cancelled.
LEMMA QuietCancelled ==
  ASSUME NEW s \in 1 .. Len(subs), NEW o, Runs(s, o), AloneOf(o), Turned(s, "canceled"), UNCHANGED <<req, sessions>>
  PROVE  Quiet(o)'
<1>1. (\A r \in Reqs : ~Asks(r, o)) /\ \A x \in sessions : x.owner # o
  BY DEF AloneOf
<1>2. \A t \in 1 .. Len(subs') : ~Runs(t, o)'
  <2> SUFFICES ASSUME NEW t \in 1 .. Len(subs') PROVE ~(subs'[t].owner = o /\ subs'[t].status # "canceled")
    BY DEF Runs, Live
  <2>1. t \in 1 .. Len(subs) /\ subs'[t].owner = subs[t].owner
        /\ subs'[t].status = IF t = s THEN "canceled" ELSE subs[t].status
    BY DEF Turned
  <2>2. CASE t = s
    BY <2>1, <2>2
  <2>3. CASE t # s
    <3>1. ~Runs(t, o)
      BY <2>1, <2>3 DEF AloneOf
    <3> QED BY <2>1, <2>3, <3>1 DEF Runs, Live
  <2> QED BY <2>2, <2>3
<1>3. \A r \in Reqs : ~Asks(r, o)'
  BY <1>1 DEF Asks
<1>4. \A x \in sessions' : x.owner # o
  BY <1>1
<1> QED BY <1>2, <1>3, <1>4 DEF Quiet

LEMMA GoneInit == Init => GoneQuiet /\ Cancelling
<1> SUFFICES ASSUME Init PROVE GoneQuiet /\ Cancelling
  OBVIOUS
<1>1. Rows \ Exempt = {} /\ gone = {}
  BY DEF Init, Rows
<1> QED BY <1>1 DEF GoneQuiet, Cancelling

LEMMA CancellingStep == Typed /\ Own /\ Copied /\ Cancelling /\ [Next]_vars => Cancelling'
<1> SUFFICES ASSUME Typed, Own, Copied, Cancelling, [Next]_vars PROVE Cancelling'
  OBVIOUS
<1>0. Flows /\ Secs \subseteq Nat
  BY FlowsStep, SecsTyped
<1>1. \A a \in Accts : del[a].pc = "cancel" => a \in Rows \ Exempt /\ del[a].sub \in 1 .. Len(subs)
  BY DEF Typed, DelsOK
<1>2. ASSUME NEW a \in Rows' \ Exempt, del'[a].pc = "cancel", del'[a] = del[a], row'[a].owner = row[a].owner, del'[a].calm
      PROVE  subs'[del'[a].sub].owner = row'[a].owner
  <2>1. a \in Rows \ Exempt /\ del[a].sub \in 1 .. Len(subs)
    BY <1>1, <1>2 DEF Rows
  <2> QED BY <1>0, <1>2, <2>1 DEF Cancelling, Flows
<1>3. CASE DelsGoOn
  <2>1. ASSUME NEW a \in Rows' \ Exempt, del'[a].pc = "cancel", del'[a].calm
        PROVE  subs'[del'[a].sub].owner = row'[a].owner
    <3>1. a \in Accts /\ del'[a] = del[a]
      BY <1>3, <2>1 DEF DelsGoOn, Rows
    <3>2. row'[a].owner = row[a].owner
      BY <1>1, <1>3, <2>1, <3>1 DEF DelsGoOn
    <3> QED BY <1>2, <2>1, <3>1, <3>2
  <2> QED BY <2>1 DEF Cancelling
<1>4. ASSUME NEW a \in Accts, DeleteRequest(a) PROVE Cancelling'
  <2>1. a \in Rows \ Exempt /\ UNCHANGED subs
    BY <1>4, DeleteTyped
  <2> SUFFICES ASSUME NEW b \in Rows' \ Exempt, del'[b].pc = "cancel", del'[b].calm
               PROVE  subs'[del'[b].sub].owner = row'[b].owner
    BY DEF Cancelling
  <2>2. CASE /\ MustCancel(row[a]) /\ UNCHANGED <<row, gone>>
             /\ \A c \in Accts : c # a => del'[c] = del[c]
             /\ del'[a].pc = "cancel" /\ del'[a].sub = row[a].sub
             /\ del'[a].calm = (Settled(a) /\ ~Buying(row[a].owner))
    <3>1. CASE b = a
      <4>1. row[a].sub # None /\ Settled(a)
        BY <2>2, <3>1 DEF MustCancel
      <4>2. PICK j \in 1 .. Len(events) : events[j].to = row[a].owner /\ events[j].sub = row[a].sub
        BY <2>1, <4>1 DEF Copied, CopyOK
      <4>3. subs[row[a].sub].owner = row[a].owner
        BY <2>1, <4>1, <4>2, SettledEvents
      <4> QED BY <2>1, <2>2, <3>1, <4>3
    <3>2. CASE b # a
      <4>1. del'[b] = del[b] /\ row'[b].owner = row[b].owner
        BY <2>2, <3>2 DEF Rows
      <4> QED BY <1>2, <4>1
    <3> QED BY <3>1, <3>2
  <2>3. CASE ~MustCancel(row[a]) /\ Removed(a, Settled(a) /\ ~Buying(row[a].owner)) /\ UNCHANGED del
    <3>1. del'[b] = del[b] /\ row'[b].owner = row[b].owner
      BY <2>3 DEF Removed
    <3> QED BY <1>2, <3>1
  <2> QED BY <1>4, <2>2, <2>3, DeleteTyped
<1>5. ASSUME NEW a \in Accts, NEW sec \in Secs, CancelAnswers(a, sec) PROVE Cancelling'
  <2>1. Removed(a, del[a].calm) /\ \A b \in Accts : del'[b] = IF b = a THEN NoDel ELSE del[b]
    BY <1>0, <1>5, CancelTyped
  <2>2. \A b \in Rows' \ Exempt : row'[b] = row[b] /\ del'[b] = del[b]
    BY <2>1 DEF Removed, Rows
  <2> QED BY <1>2, <2>2 DEF Cancelling
<1> QED BY <1>3, <1>4, <1>5, FlowsStep

LEMMA GoneStep ==
  Typed /\ Own /\ Told /\ Copied /\ OneAtATime /\ Cancelling /\ GoneQuiet /\ [Next]_vars => GoneQuiet'
<1> SUFFICES ASSUME Typed, Own, Told, Copied, OneAtATime, Cancelling, GoneQuiet, [Next]_vars,
                    NEW g \in gone', g.calm, g.owner \notin raced'
             PROVE  Quiet(g.owner)'
  BY DEF GoneQuiet
<1>0. Flows /\ Secs \subseteq Nat /\ g.owner \notin raced
  BY FlowsStep, SecsTyped DEF Flows
<1>1. CASE g \in gone
  <2>1. Quiet(g.owner)
    BY <1>0, <1>1 DEF GoneQuiet
  <2>2. \A a \in Rows \ Exempt : row[a].owner # g.owner
    BY <1>1 DEF Own
  <2> QED BY <1>0, <2>1, <2>2, QuietStays
<1>2. ASSUME NEW a \in Accts, DeleteRequest(a), g \notin gone PROVE Quiet(g.owner)'
  <2>1. /\ a \in Rows \ Exempt /\ ~MustCancel(row[a]) /\ g.owner = row[a].owner
        /\ Settled(a) /\ ~Buying(row[a].owner)
        /\ UNCHANGED <<req, sessions, subs>>
    <3>1. ~MustCancel(row[a]) /\ Removed(a, Settled(a) /\ ~Buying(row[a].owner))
      BY <1>2, DeleteTyped
    <3>2. g = [owner |-> row[a].owner, calm |-> Settled(a) /\ ~Buying(row[a].owner)]
      BY <1>2, <3>1 DEF Removed
    <3>3. g.calm = (Settled(a) /\ ~Buying(row[a].owner)) /\ g.owner = row[a].owner
      BY <3>2, Zenon
    <3> QED BY <1>2, <3>1, <3>3, DeleteTyped
  <2>2. AloneOf(row[a].owner)
    <3>1. row[a].owner \in Owners
      BY <2>1, RowFields DEF Rows
    <3> QED BY <1>0, <2>1, <3>1 DEF OneAtATime
  <2>3. Quiet(row[a].owner)
    BY <2>1, <2>2, QuietAtOnce
  <2>4. Quiet(g.owner)
    BY <2>1, <2>3
  <2> QED BY <2>1, <2>4 DEF Quiet, Asks, Runs, Live
<1>3. ASSUME NEW a \in Accts, NEW sec \in Secs, CancelAnswers(a, sec), g \notin gone PROVE Quiet(g.owner)'
  <2>1. /\ del[a].pc = "cancel" /\ Live(del[a].sub) /\ del[a].sub \in 1 .. Len(subs) /\ Turned(del[a].sub, "canceled")
        /\ Removed(a, del[a].calm) /\ UNCHANGED <<req, sessions, raced>>
    BY <1>0, <1>3, CancelTyped
  <2>2. a \in Rows \ Exempt /\ g.owner = row[a].owner /\ del[a].calm
    BY <1>3, <2>1 DEF Removed
  <2>3. Runs(del[a].sub, g.owner)
    BY <2>1, <2>2 DEF Cancelling, Runs
  <2>4. AloneOf(g.owner)
    <3>1. row[a].owner \in Owners
      BY <2>2, RowFields DEF Rows
    <3> QED BY <1>0, <2>2, <3>1 DEF OneAtATime
  <2> QED BY <2>1, <2>3, <2>4, QuietCancelled
<1>4. CASE DelsGoOn
  BY <1>1, <1>4 DEF DelsGoOn
<1> QED BY <1>1, <1>2, <1>3, <1>4, FlowsStep

\* (DeletedNotCharged, Billing.tla) An account deleted when the events had arrived and nothing
\* else was being bought leaves no subscription that goes on charging, whatever Stripe tells
\* while the cancellation waits (deleteAccount, account-deletion.ts).
THEOREM DeletedIsNotCharged == Spec => []DeletedNotCharged
<1>1. Typed /\ GoneQuiet => DeletedNotCharged
  BY NotBuying DEF GoneQuiet, DeletedNotCharged, Quiet
<1>2. Typed /\ Own /\ Told /\ Copied /\ OneAtATime /\ Cancelling /\ GoneQuiet /\ [Next]_vars => GoneQuiet' /\ Cancelling'
  BY GoneStep, CancellingStep
<1> QED BY <1>1, <1>2, TypedInit, TypedStep, OwnInit, OwnStep, ToldInit, ToldStep, CopiedInit, CopiedStep,
           AloneInit, AloneStep, GoneInit, PTL DEF Spec
=============================================================================
