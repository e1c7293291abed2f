-------------------------------- MODULE Gate --------------------------------
(***************************************************************************)
(* From the front door to the mail: signing up and in, the hook of the     *)
(* server that lets a request through (api.ts preHandler, requireAuth.ts), *)
(* the paywall behind it, and what the clients show of it: App.tsx with    *)
(* LoginForm, Signup, Paywall and PlanPicker, or the phone with authStore, *)
(* its sign-in screens and TrialEndedScreen. Calls are answered in any     *)
(* order or fail. Stripe is external: it takes the owner from the page,    *)
(* sends the browser back and the webhook later.                           *)
(*                                                                         *)
(* One owner with one client. What a sign-in on the phone consists of is   *)
(* in Phone, what makes an account entitled in Billing. Two equal calls    *)
(* that have not been answered are one.                                    *)
(***************************************************************************)
EXTENDS Integers, FiniteSets

CONSTANTS
  Tries,      \* how often the page asks for the subscription after a payment
  MaxFaults,  \* bound: calls that fail
  MaxCalls,   \* bound: calls under way
  MaxVisits,  \* bound: loads of the page, starts of the app
  MaxSignIns, \* bound: sessions made
  MaxPayments \* bound: subscriptions bought

ASSUME GateConstantsOK == {Tries, MaxFaults, MaxCalls, MaxVisits, MaxSignIns, MaxPayments} \subseteq Nat

VARIABLES
  account,  \* server: the account, its trial and its subscription
  sessions, \* server: sessions or device rows that are valid
  client,   \* the client that is used
  held,     \* client: the session of its cookie or token, or 0
  screen,   \* client: what is shown
  told,     \* client: the last billing state it was told; for the phone "ended" is locked
  boxes,    \* client: the list of mailboxes has come
  poll,     \* page: the tries after a payment, and what the next waits for
  asks,     \* calls under way
  signIns, visits, faults, payments  \* counts

server == <<account, sessions, signIns>>
shows == <<held, screen, told, boxes, poll>>
counts == <<visits, faults, payments>>
gateVars == <<server, client, shows, asks, counts>>

Web == client = "web"
In == screen = "in"
NoPoll == [tries |-> 0, at |-> "idle", due |-> FALSE]
-----------------------------------------------------------------------------
(* The server. *)

\* What is cancelled at Stripe counts until the server hears of it.
Subscribed == account.plan \in {"known", "cancelled"}
IsEntitled == account.trial \/ Subscribed

\* billingSummary, as far as a client looks at it.
Summary == IF Subscribed THEN "subscribed" ELSE IF account.trial THEN "trial" ELSE "ended"

\* PUBLIC_PREFIXES and PAYWALL_OPEN_PREFIXES.
Public == {"login", "code", "signup"} \cup (IF Web THEN {"logout"} ELSE {})

Open == {"me", "logout", "billing", "poll", "checkout", "portal"}

\* preHandler: sign-in, then the paywall, then the route.
Passed(c, answer) ==
  IF c.kind \in Public THEN answer
  ELSE IF c.cred \notin sessions THEN "401"
  ELSE IF c.kind \notin Open /\ ~IsEntitled THEN "402"
  ELSE answer

Handled(c, answer) ==
  /\ asks' = (asks \ {c}) \cup (IF c.mine THEN {[c EXCEPT !.at = "down", !.answer = answer]} ELSE {})
  /\ UNCHANGED <<client, shows, counts>>

SignedIn(c) ==
  /\ signIns < MaxSignIns /\ signIns' = signIns + 1
  /\ sessions' = sessions \cup {signIns + 1}
  /\ asks' = (asks \ {c}) \cup {[c EXCEPT !.at = "down", !.answer = "ok", !.cred = signIns + 1]}
  /\ UNCHANGED <<client, shows, counts>>

Arrived(c, kinds) == c.at = "up" /\ c.kind \in kinds

\* POST /api/auth/login: no session before the address is confirmed, nor without the code.
ServeSignIn(c) ==
  /\ Arrived(c, {"login", "code"})
  /\ \/ Handled(c, "no") /\ UNCHANGED <<sessions, signIns>>
     \/ /\ account.stage = "confirmed"
        /\ IF account.secured /\ c.kind = "login"
             THEN Handled(c, "totp") /\ UNCHANGED <<sessions, signIns>>
             ELSE SignedIn(c)
  /\ UNCHANGED account

\* POST /api/auth/signup.
ServeSignup(c) ==
  /\ Arrived(c, {"signup"})
  /\ IF account.stage = "none"
       THEN Handled(c, "ok") /\ account' = [account EXCEPT !.stage = "pending", !.trial = TRUE]
       ELSE Handled(c, "no") /\ UNCHANGED account
  /\ UNCHANGED <<sessions, signIns>>

\* POST /api/auth/logout, DELETE /api/auth/devices/me.
ServeSignOut(c) ==
  /\ Arrived(c, {"logout"})
  /\ Handled(c, Passed(c, "ok"))
  /\ sessions' = sessions \ {c.cred}
  /\ UNCHANGED <<account, signIns>>

\* GET /api/auth/me, /api/mailboxes and /api/billing.
ServeAsk(c) ==
  /\ Arrived(c, {"me", "boxes", "billing", "poll"})
  /\ Handled(c, Passed(c, IF c.kind \in {"billing", "poll"} THEN Summary ELSE "ok"))
  /\ UNCHANGED server

\* POST /api/billing/checkout, for who is not subscribed, and /portal, for who has been.
ServeStripe(c) ==
  /\ Arrived(c, {"checkout", "portal"})
  /\ Handled(c, Passed(c, IF c.kind = "portal" \/ ~Subscribed THEN "ok" ELSE "no"))
  /\ UNCHANGED server

Confirm ==
  /\ account.stage = "pending"
  /\ account' = [account EXCEPT !.stage = "confirmed"]
  /\ UNCHANGED <<sessions, signIns, client, shows, asks, counts>>

TrialEnds ==
  /\ account.stage = "confirmed" /\ account.trial
  /\ account' = [account EXCEPT !.trial = FALSE]
  /\ UNCHANGED <<sessions, signIns, client, shows, asks, counts>>

\* The webhook of a payment, or of a subscription that was cancelled.
Webhook ==
  /\ \/ account.plan = "bought" /\ account' = [account EXCEPT !.plan = "known"]
     \/ account.plan = "cancelled" /\ account' = [account EXCEPT !.plan = "none"]
  /\ UNCHANGED <<sessions, signIns, client, shows, asks, counts>>
-----------------------------------------------------------------------------
(* The clients' calls. *)

Ask(kind) == [kind |-> kind, cred |-> held, at |-> "up", answer |-> "none", mine |-> TRUE]
AskWith(kind, cred) == [Ask(kind) EXCEPT !.cred = cred]

\* Of the calls nobody waits for any more, those that the server may still act on.
Left(calls) == {[c EXCEPT !.mine = FALSE] : c \in {d \in calls : d.at = "up" /\ d.kind \in {"signup", "logout"}}}

Sends(new) == asks' = asks \cup new /\ Cardinality(asks') <= MaxCalls
Mine(kinds) == {c \in asks : c.mine /\ c.kind \in kinds}
Idle(kinds) == Mine(kinds) = {}

\* The answer to c, and what is asked next.
Takes(c, kinds, next) ==
  /\ c.mine /\ c.at = "down" /\ c.kind \in kinds
  /\ asks' = (asks \ {c}) \cup next

Unseen == <<server, client, counts>>

\* The page is loaded, or the app is started: calls of before are nobody's.
Visits(ret) ==
  /\ visits < MaxVisits /\ visits' = visits + 1
  /\ screen' = "checking" /\ told' = "nothing" /\ boxes' = FALSE
  /\ poll' = [NoPoll EXCEPT !.due = ret]
  /\ asks' = Left(asks) \cup {Ask("me")}
  /\ UNCHANGED held

Reload ==
  /\ screen \notin {"checkout", "portal"} /\ Visits(FALSE)
  /\ UNCHANGED <<server, client, faults, payments>>

\* Signed in: the page asks for mailboxes and for the billing state, again and again when
\* it came back from a payment; the phone asks for both.
Entered(cred) ==
  {AskWith("boxes", cred), AskWith(IF poll.due THEN "poll" ELSE "billing", cred)}

Enters ==
  /\ screen' = "in"
  /\ poll' = IF poll.due THEN [tries |-> 0, at |-> "asked", due |-> FALSE] ELSE poll

\* App.tsx loadAuthState: who is not signed in is at the front door, but stays in a form.
LoadAuthState(c) ==
  /\ Takes(c, {"me"}, IF c.answer = "ok" THEN Entered(held) ELSE {})
  /\ IF c.answer = "ok"
       THEN Enters
       ELSE screen' = (IF screen = "checking" THEN "landing" ELSE screen) /\ UNCHANGED poll
  /\ UNCHANGED held

\* authStore bootstrap: who has a token is let in without an answer, but not after a 401.
Bootstrap(c) ==
  /\ Takes(c, {"me"}, IF c.answer = "ok" THEN Entered(held) ELSE {})
  /\ screen' = IF c.answer = "ok" \/ (c.answer = "failed" /\ held # 0) THEN "in" ELSE "login"
  /\ held' = IF c.answer = "401" THEN 0 ELSE held
  /\ UNCHANGED poll

WhoAmI ==
  /\ \E c \in asks : IF Web THEN LoadAuthState(c) ELSE Bootstrap(c)
  /\ UNCHANGED <<told, boxes, Unseen>>

GetStarted == screen = "landing" /\ screen' = "login" /\ UNCHANGED <<held, told, boxes, poll, asks, Unseen>>

\* onSwitchToSignup, onSwitchToLogin.
Switches ==
  /\ \/ screen = "login" /\ screen' = "signup"
     \/ screen \in {"signup", "sent"} /\ screen' = "login"
  /\ UNCHANGED <<held, told, boxes, poll, asks, Unseen>>

\* The forms wait for their answer.
SubmitsSignIn ==
  /\ screen \in {"login", "code"} /\ Idle({"login", "code", "me"})
  /\ Sends({Ask(screen)})
  /\ UNCHANGED <<shows, Unseen>>

SubmitsSignup ==
  /\ screen = "signup" /\ Idle({"signup"})
  /\ Sends({Ask("signup")})
  /\ UNCHANGED <<shows, Unseen>>

SignupAnswered ==
  \E c \in asks :
    /\ Takes(c, {"signup"}, {})
    /\ screen' = IF screen = "signup" /\ c.answer = "ok" THEN "sent" ELSE screen
    /\ UNCHANGED <<held, told, boxes, poll, Unseen>>

Coded(c) == IF c.answer = "totp" /\ screen = "login" THEN "code" ELSE screen

\* LoginForm: the page asks who it is before it shows anything.
LoginFormAnswered(c) ==
  /\ Takes(c, {"login", "code"}, IF c.answer = "ok" THEN {AskWith("me", c.cred)} ELSE {})
  /\ held' = IF c.answer = "ok" THEN c.cred ELSE held
  /\ screen' = Coded(c)
  /\ UNCHANGED told

\* authStore login: the phone has asked as part of the sign-in.
LoginAnswered(c) ==
  /\ Takes(c, {"login", "code"}, IF c.answer = "ok" THEN Entered(c.cred) ELSE {})
  /\ IF c.answer = "ok"
       THEN held' = c.cred /\ screen' = "in" /\ told' = "nothing"
       ELSE screen' = Coded(c) /\ UNCHANGED <<held, told>>

SignInAnswered ==
  /\ \E c \in asks : IF Web THEN LoginFormAnswered(c) ELSE LoginAnswered(c)
  /\ UNCHANGED <<boxes, poll, Unseen>>

SignsOut ==
  /\ In /\ Idle({"logout"})
  /\ Sends({Ask("logout")})
  /\ UNCHANGED <<shows, Unseen>>

\* Whatever the server says, nobody is signed in here. The page keeps what it was told, and
\* its cookie unless the answer takes it away ...
PageSignedOut(c) ==
  /\ screen' = "landing"
  /\ held' = IF c.answer = "failed" THEN held ELSE 0
  /\ UNCHANGED told

\* ... the phone keeps nothing.
PhoneSignedOut == screen' = "login" /\ held' = 0 /\ told' = "nothing"

SignedOutHere ==
  /\ \E c \in asks : Takes(c, {"logout"}, {}) /\ (IF Web THEN PageSignedOut(c) ELSE PhoneSignedOut)
  /\ UNCHANGED <<boxes, poll, Unseen>>
-----------------------------------------------------------------------------
(* The wall. *)

Walled == In /\ told = "ended"

\* setBilling; the phone takes nothing from an answer that failed either.
Told(answer) == IF answer \in {"trial", "ended", "subscribed"} THEN answer ELSE told

\* The 401 and 402 signals of the phone's apiClient.
Signalled(c) ==
  IF ~Web /\ c.answer = "401" /\ In
    THEN screen' = "login" /\ held' = 0 /\ told' = "nothing"
    ELSE /\ told' = IF ~Web /\ c.answer = "402" THEN "ended" ELSE Told(c.answer)
         /\ UNCHANGED <<screen, held>>

BillingAnswered ==
  \E c \in asks :
    /\ Takes(c, {"billing"}, {})
    /\ Signalled(c)
    /\ UNCHANGED <<boxes, poll, Unseen>>

\* Mutant of AsksAgain: an answer that fails ends the tries.
AsksAgainIfTold(answer, tries) == tries < Tries /\ answer # "failed"

\* poll: not subscribed yet, or not known.
AsksAgain(answer, tries) == tries < Tries

PollAnswered ==
  \E c \in asks :
    /\ Takes(c, {"poll"}, {})
    /\ told' = Told(c.answer)
    /\ poll' = IF c.answer = "subscribed" THEN [poll EXCEPT !.at = "idle"]
               ELSE [poll EXCEPT !.tries = @ + 1,
                                 !.at = IF AsksAgain(c.answer, poll.tries + 1) THEN "timer" ELSE "idle"]
    /\ UNCHANGED <<held, screen, boxes, Unseen>>

\* setTimeout(poll, 1500).
PollTimer ==
  /\ poll.at = "timer" /\ poll' = [poll EXCEPT !.at = "asked"]
  /\ Sends({Ask("poll")})
  /\ UNCHANGED <<held, screen, told, boxes, Unseen>>

\* The list of mailboxes: the page asks once for it, the phone whenever a screen is mounted.
BoxesAnswered ==
  \E c \in asks :
    /\ Takes(c, {"boxes"}, {})
    /\ Signalled(c)
    /\ boxes' = IF c.answer = "ok" THEN TRUE ELSE IF Web THEN FALSE ELSE boxes
    /\ UNCHANGED <<poll, Unseen>>

PhoneLooks ==
  /\ ~Web /\ In /\ ~Walled /\ Idle({"boxes"})
  /\ Sends({Ask("boxes")})
  /\ UNCHANGED <<shows, Unseen>>

\* TrialEndedScreen: "check again".
ChecksAgain ==
  /\ ~Web /\ Walled /\ Idle({"billing"})
  /\ Sends({Ask("billing")})
  /\ UNCHANGED <<shows, Unseen>>

\* Where the page offers the plans: on the wall, from the banner and in the settings of who
\* is not subscribed, as far as it was told.
PlansOffered == Web /\ In /\ told \in {"nothing", "trial", "ended"}

Chooses ==
  /\ PlansOffered /\ Idle({"checkout"}) /\ payments < MaxPayments
  /\ Sends({Ask("checkout")})
  /\ UNCHANGED <<shows, Unseen>>

OpensPortal ==
  /\ Web /\ In /\ told = "subscribed" /\ Idle({"portal"})
  /\ Sends({Ask("portal")})
  /\ UNCHANGED <<shows, Unseen>>

\* The page is left for Stripe's.
Leaves ==
  \E c \in asks :
    /\ Takes(c, {"checkout", "portal"}, {})
    /\ screen' = IF c.answer = "ok" THEN c.kind ELSE screen
    /\ poll' = IF c.answer = "ok" THEN NoPoll ELSE poll
    /\ UNCHANGED <<held, told, boxes, Unseen>>

AtStripe == screen \in {"checkout", "portal"}

\* At Stripe the owner pays, and the browser comes back with billing=success ...
Bought(a) == [a EXCEPT !.plan = IF @ = "none" THEN "bought" ELSE @]

Pays ==
  /\ payments < MaxPayments /\ payments' = payments + 1
  /\ account' = Bought(account)
  /\ \/ screen = "checkout" /\ Visits(TRUE)
     \* ... or does so in a browser the model does not follow.
     \/ ~Web /\ account.stage = "confirmed" /\ UNCHANGED <<visits, shows, asks>>
  /\ UNCHANGED <<sessions, signIns, client, faults>>

\* ... or cancels a subscription in the portal, or changes nothing.
Cancels ==
  /\ screen = "portal" /\ account.plan = "known" /\ Visits(FALSE)
  /\ account' = [account EXCEPT !.plan = "cancelled"]
  /\ UNCHANGED <<sessions, signIns, client, faults, payments>>

GivesUp == AtStripe /\ Visits(FALSE) /\ UNCHANGED <<server, client, faults, payments>>
-----------------------------------------------------------------------------
\* A call fails, before or after the server has seen it.
Breaks ==
  /\ faults < MaxFaults /\ faults' = faults + 1
  /\ \E c \in asks :
       /\ c.mine /\ c.answer # "failed"
       /\ \E left \in {{}, Left({c})} :
            asks' = (asks \ {c}) \cup left \cup {[c EXCEPT !.at = "down", !.answer = "failed"]}
  /\ UNCHANGED <<server, client, shows, visits, payments>>

Serves ==
  \E c \in asks : ServeSignIn(c) \/ ServeSignup(c) \/ ServeSignOut(c) \/ ServeAsk(c) \/ ServeStripe(c)

Answers ==
  \/ WhoAmI \/ SignupAnswered \/ SignInAnswered \/ SignedOutHere
  \/ BillingAnswered \/ PollAnswered \/ BoxesAnswered \/ Leaves

Owner ==
  \/ Reload \/ GetStarted \/ Switches \/ SubmitsSignIn \/ SubmitsSignup \/ SignsOut
  \/ PhoneLooks \/ ChecksAgain \/ Chooses \/ OpensPortal \/ Pays \/ Cancels \/ GivesUp

GateInit ==
  /\ client \in {"web", "phone"}
  /\ account \in [stage : {"none", "confirmed"}, trial : BOOLEAN, plan : {"none", "known"}, secured : BOOLEAN]
  /\ account.stage = "none" => ~account.trial /\ account.plan = "none"
  /\ sessions = {} /\ held = 0 /\ signIns = 0
  /\ screen = "checking" /\ told = "nothing" /\ boxes = FALSE /\ poll = NoPoll
  /\ asks = {Ask("me")}
  /\ visits = 1 /\ faults = 0 /\ payments = 0

GateNext ==
  Serves \/ Confirm \/ TrialEnds \/ Webhook \/ Answers \/ PollTimer \/ Owner \/ Breaks

\* The server answers, the client takes the answers and the timer runs down. Nobody has to
\* do anything, and neither the trial's end nor a webhook comes for sure.
GateFair == WF_gateVars(Serves) /\ WF_gateVars(Answers) /\ WF_gateVars(PollTimer)

GateSpec == GateInit /\ [][GateNext]_gateVars /\ GateFair
-----------------------------------------------------------------------------
(* Properties *)

(* The type of every variable. *)
GateTypeOK ==
  /\ account \in [stage : {"none", "pending", "confirmed"}, trial : BOOLEAN,
                  plan : {"none", "bought", "known", "cancelled"}, secured : BOOLEAN]
  /\ sessions \subseteq 1 .. signIns /\ held \in 0 .. signIns /\ boxes \in BOOLEAN
  /\ screen \in {"checking", "landing", "login", "code", "signup", "sent", "in", "checkout", "portal"}
  /\ told \in {"nothing", "trial", "ended", "subscribed"}
  /\ poll \in [tries : 0 .. Tries, at : {"idle", "timer", "asked"}, due : BOOLEAN]
  /\ signIns \in 0 .. MaxSignIns /\ faults \in 0 .. MaxFaults /\ visits \in 1 .. MaxVisits /\ payments \in 0 .. MaxPayments

\* The page that waits for the webhook after a payment, and an owner who checks again on
\* the phone, are past the wall once the server knows of the payment, however many of the
\* calls before failed (App.tsx: "The webhook can land a moment after Stripe redirects
\* back; poll briefly"), unless the tries have run out or the session has ended.
WallFalls ==
  /\ (Subscribed /\ poll.at = "timer" /\ poll.tries + MaxFaults - faults < Tries)
       ~> (~Walled \/ ~IsEntitled \/ held \notin sessions)
  /\ (Subscribed /\ ~Web /\ faults = MaxFaults /\ \E c \in Mine({"billing"}) : c.at = "up")
       ~> (~Walled \/ ~IsEntitled \/ held \notin sessions)

\* Who gets past the wall sees the mail ("otherwise every mailbox-scoped panel ... silently
\* won't open", App.tsx). It does not hold: the page asks for the mailboxes only when it is
\* signed in, is told 402, and does not ask again when the wall falls.
PaidSeesMail ==
  (Subscribed /\ poll.at = "timer" /\ faults = MaxFaults) ~> (boxes \/ ~In \/ ~IsEntitled)
=============================================================================
