# A TLA+ model of ZeroSpam

ZeroSpam receives mail over SMTP, lets through what the owner's whitelist allows and quarantines the
rest. Aliases hide the owner's address and may forward to a real inbox; a contact's address comes back
as a *reverse alias*, and a reply to it is relayed to the contact under the alias. The server
(`server/src`) is one Node.js process over one SQLite database and a directory of files. Its clients are
a React page (`web/src`) and a React Native app (`apps/mobile/src`).

This directory specifies the parts of the server and of its clients where order, concurrency and failure
matter, checks them with TLC and proves theorems about them with TLAPS.

## 1. The system

### How it runs

There is one thread. A handler (SMTP callback, HTTP route, timer) runs without interruption up to its
next `await`; SQLite (`node:sqlite`) and the file system are called synchronously. So

* the interleavings are those of the awaits. An action of a model is the code between two of them;
* code without an await is atomic for other handlers but not for a crash, which can stop it between two
  SQL statements outside a transaction, or two file system calls;
* what was read before an await may be stale after it. Most of the hazards are of this kind;
* `setInterval` does not wait for the tick before, so the ticks of a timer overlap when one of them awaits
  for longer than the interval;
* `INTEGER PRIMARY KEY` gives a new row one more than the largest number in use: the number of a deleted
  last row comes back, and whoever still holds it means another row.

A client is one thread too. Its calls to the server run beside each other and are served and answered in
any order; a callback that waits for an answer holds the state of the render it was made in.

Remote MTAs, the outbound relay, DNS, Stripe, Expo, Google and Microsoft are outside. They answer, fail or
time out as they like; a remote MTA offers a message again until it is answered 250 or gives up.

### Components

| component | state | operations | what is hard about it | modelled in |
|---|---|---|---|---|
| SMTP server (`smtp.ts`) | the open transactions | RCPT TO, DATA | transactions interleave at every await; one 250 or 451 for all recipients; a crash loses them all | `Delivery`, `Custody` |
| ingestion (`ingest.ts`, `whitelist.ts`) | `messages`, `attachments`, `messages_fts`, files | `ingest` | recipient resolved before the parser and DNS, used after; six writes without a transaction | `Delivery`, `MailStore` |
| forwarding and replies (`forwarding.ts`) | `forward_targets`, `reverse_aliases`, `outbound_events` | forward, reply, targets and their links, limits | alias row and target number stale after awaits; check-then-act on hourly limits; relay answers lost | `Delivery`, `Aliases` |
| message API (`api.ts`) | folders, rules, aliases | move, bulk, trust, delete, purge, list, search | moves and `expires_at`; rows and files in two stores | `MailStore`, `Webmail` |
| screener (`screener.ts`, `routes/screener.ts`) | `screener_mutes`, rules | allow, allow-domain, reject, list | mutes that run out; mail in the parser during an allow | `MailStore`, `Webmail`, `Pocket` |
| sweeper (`sweeper.ts`, `storage.ts`) | - | periodic deletion | crash between rows and files; must happen eventually | `MailStore` |
| start-up (`db.ts`, `index.ts`) | the schema | migrations, seeds, pending trials | a crash between two statements; must not be repeated for those who came later | `Startup` |
| digest (`digester.ts`, `digest-*.ts`) | `last_digest_sent_at`, failures, `digest_tokens_used` | hourly tick, one-click allow | overlapping ticks, mail that arrives while a digest is sent; claim and effect apart | `Digest`, `MailStore` |
| composing and sending (`sender.ts`, `api.ts`, `ComposePanel.tsx`, `ComposeScreen.tsx`) | drafts, Sent copies, the panel | autosave, send, reply | autosave beside a send; relay before record | `Compose` |
| accounts and addresses (`routes/signup.ts`, `usernames.ts`, `account-deletion.ts`) | `users`, `accounts`, `mailboxes`, `aliases`, `retired_addresses` | sign up, add, delete | one name space over four tables, checked before awaits; reused numbers | `Accounts` |
| authentication (`routes/auth.ts`, `sessions.ts`, `totp.ts`, `requireAuth.ts`) | sessions, devices, seeds | sign in, password, second factor | argon2 between reading a row and using it | `Accounts`, `Phone`, `Gate` |
| billing (`billing.ts`, `routes/billing.ts`) | subscription columns, `stripe_events` | checkout, portal, webhook, deletion | lost, duplicated and reordered events; numbers of accounts reused | `Billing` |
| trial and reminders (`billing.ts`) | `trial_ends_at`, reminder columns | `billingTick` | overlapping ticks; crash between mail and UPDATE | `Reminders`, `Startup`, `Gate` |
| connections (`connection-poller.ts`, `connectors/`, `routes/oauth-*.ts`) | cursor, tokens, status | poll, OAuth callback | overlapping ticks write cursors and tokens back | `Connections` |
| push (`push.ts`, `lib/push.ts`) | `devices.push_token` | notify, tickets, register | an answer about an old token | `Phone` |
| live events (`events.ts`) | the open streams | publish | nothing is kept for a broken stream | `Webmail` |
| web client (`App.tsx`, `components/`) | what is shown | lists, search, bulk, Screener, aliases, compose, paywall | answers out of order, callbacks of old renders | `Webmail`, `Compose`, `Aliases`, `Gate` |
| mobile app (`apps/mobile/src`) | token, query cache, cards | sign in and out, queries and mutations, Screener | signing in and out overlap, the keystore fails; invalidations against fetches under way; the next person on the phone | `Phone`, `Pocket`, `Gate`, `Compose`, `Aliases` |
| mail authentication, audit, configuration, legal pages, tracker scan, deployment | - | - | pure functions, wording and append-only logs | verdicts only, or not |

They interact through the tables and by direct calls: the SMTP server and the poller call `ingest`, which
calls `forwardAliasMessage`; the API, the screener and the digest link change the rules, rows and aliases
that `ingest` reads; the sweeper deletes what they leave in the quarantine; billing decides whether
forwarding is paid for and whether the clients get past the wall. The clients know of the server what their
calls were answered and what the event stream says.

`PROJECT.json` lists every component with its status and every hazard with its line.

## 2. The modules

| module | what it is |
|---|---|
| `Custody` | what a mail server promises its senders: a message is theirs until it is answered, and the server's with every recipient served from then on |
| `Delivery` | SMTP transactions, ingestion, forwarding and replies; refines `Custody` |
| `MailStore` | the rows and files of one mailbox through all handlers that store, move or delete mail, with crashes and the clock |
| `Accounts` | sign-up, sign-in, second factor, mailboxes and aliases, deletion; who holds which address and number |
| `Aliases` | forwarding addresses with their links, alias routes, and the panel and the app that use them |
| `Billing` | checkout, portal, webhooks and deletion against Stripe |
| `Reminders` | the trial of one account and `billingTick`, while the process runs |
| `Startup` | the start of the process over databases of four ages, composed with `Reminders` |
| `Digest` | the digest of one mailbox with overlapping ticks |
| `Connections` | one connected mailbox: callbacks and overlapping polls |
| `Compose` | the compose panel and screen, drafts, send |
| `Phone` | one phone and its device row: signing in and out, push tokens, notifications |
| `Gate` | sign-up to paywall to mail, as the page and the app see it |
| `Webmail` | the lists of the page against other clients, the sweeper and the event stream |
| `Pocket` | the app's query cache, mutations and Screener cards |
| `MC*` | instances for TLC; `MCPanels` composes `Compose` and `Aliases`, `MCTrials` composes `Startup` and `Gate`, which share no state: one of them moves in a behaviour |
| `*_proofs` | theorems: see section 4 |

The comment at the top of each module says what it is about, how it splits the code and what it leaves
out; `map` in `PROJECT.json` names the lines of every definition. What follows is what a reader needs
beyond that.

### Delivery and Custody

*State.* `box`, `whitelist`, `alias`, `target`, `reverse`, `entitled` are the tables; `outbound` counts the
`outbound_events` of the last hour; `session` holds, for each SMTP transaction, where its handler is and the
local variables that live across an await (`env` the envelope, `at` the loop counter, `box` the mailbox
rowid, `row` the alias row, `to` an address); `mta` is what the remote MTA knows; `fate` and `past` are
histories that only properties read.

*Actions.* `Offer`, `RcptTo`, `Abandon` and `Data` are the dialogue. `Data` ends with the reply limit of
all reverse recipients. The loop over the recipients is `Unknown`/`Resolve` for `ingest` up to its
first await, and `Forward`, `StoreParsed`, `RelayTakes`, `Forwarded`, `ForwardFails` after it;
`ReplyRefused`, `ReplyStart`, `ReplyChecked`, `Replied`, `ReplyFails` for a reverse alias; `Accept` answers
250. An exception leads to `Defer`, the 451. `RelayTakes` is the moment the relay has the message: the answer
(`Forwarded`, `Replied`) may still be lost (`ForwardFails`, `ReplyFails` are enabled before and after).
The `Owner` actions are the API calls on aliases, targets, rules and mailboxes, together with sign-ups
of others and the clock, between any two steps. `Crash` drops all transactions.

*Abstractions.* A message is a record of what the parser and `checkAuth` find in it. One account owns all
aliases and targets. `config.aliases.replyRequireDmarc` is on, its default. An hour of `outbound_events`
is a counter that `EventAges` lowers. Aliases and reverse aliases are named by their address, as no alias is
created while the model runs; `AddTarget` and `NewMailbox` reuse rowids.

*Refinement.* `C == INSTANCE Custody WITH ...`: the holder of a message is the remote MTA until the 250,
its copies are those of `fate`. `ImplementsCustody` is `C!Spec`.

### MailStore

One mailbox. As no handler awaits once it touches its rows, at most one (`job`) is running; its
steps are separate only because a crash can come between them. `Arrive` and `Route` frame the await of
`ingest`, during which other handlers run. `Admit` is the transaction the screener and the digest link
share, `DropRows` a deletion with its cascade and trigger. `Crash` includes the next start with the search
backfill of `db.ts`. `rescued`, `deleted`, `allowed`, `rejected` and `acted` are histories.
Files and rows are sets of message ids (`fts`, which has no key, counts entries); the attachments of a
message are one. The folder `sent` and the read and star flags are left out here (`Webmail` has reading).

### Accounts

A request that hashes a password or asks Stripe is two actions; `waiting` keeps the row it read. One number
stands for the account and its user, which are made and deleted together. `late`, `caught` and `rewritten`
are histories of the three ways in which the code lets a stale read through (section 3): the properties
except exactly these, so that they say what holds of everybody else.

### Billing, Reminders, Startup

`owner` numbers the people who have had an account id, so that two accounts with one id can be told apart.
Stripe keeps subscriptions and writes an event for each change, delivered at least once in any order. In
`Startup` every statement of the import of `db.ts` is an action, because a crash may come after each;
`Databases` are the four ages of database that the code provides for.

### Digest, Connections

The mailboxes of a tick are served one after the other; the model follows one, and the others are why a tick
may wait between reading its list and coming to this row. `overlap` records that two ticks were at work at
once. The provider of `Connections` is external: its messages are numbered and a cursor is a number.

### The clients

`Compose`, `Aliases`, `Webmail`, `Pocket` and `Phone` keep the calls under way as a set or a sequence, each
with the state its callback closed over. A text, a list or a cached answer is abstracted to a version or to
the set of changes it shows. In `Phone` signing in, signing
out and starting are chains of calls that may overlap, as nothing in the app keeps them apart: `kept` and `dropped`
remember what the keystore did not delete and which tokens were forgotten without an answer. `Gate` has one owner with
one client. In `Aliases` the mode "both" is
"forward", labels and counts are left out, and the app acts on lists of any age. In `Pocket`
react-query is external: what an invalidation does to a fetch under way is modelled from how the hooks use it.

## 3. What is checked

`tlc -config X.cfg M`, with the module and the cfg of the table (`MCReplies.cfg` is for `MCDelivery`, the
others are named after their module).

| run | cfg | what it shows |
|---|---|---|
| `delivery` | `MCDelivery` | two messages to an alias in two concurrent transactions, with relay errors, a crash, retries and one change by the owner: nothing accepted is lost (`NoSilentLoss`), one attempt makes one copy (`CopiesOnlyByRetry`), the forward limit is passed by one per concurrent transaction at most (`ForwardsBounded`), and the handlers implement `Custody` |
| `replies` | `MCReplies` | the owner answers a contact three times and somebody unauthenticated once, against any one change: `RepliesBounded`, `OutboundOnlyAsAsked`, and under fairness `EveryMessageAnswered` |
| `store` | `MCMailStore` | rows, search entries and files agree as far as a crash allows (`RowsMatchFiles`, `Searchable`); rescued mail stays, allowed senders are out of the quarantine, rejected ones out of the Screener, expired mail goes |
| `accounts` | `MCAccounts` | six requests of two people, two of them waiting at a time: `AddressHeldOnce`, `NothingOfAnother`, `SeedIsConfirmed` |
| `billing` | `MCBilling` | two owners of one account number, two checkouts, four events in any order or lost: `SettledIsStripe`, `NoEarlyCharge`, `DeletedNotCharged` |
| `trials` | `MCTrials` | databases of four ages, starts that stop anywhere, overlapping ticks, mails that fail, also after they went out: `VerifiedByLink`, `RemindedOnce`, `EndedNoticed`; and as a client sees it: `WallFalls` |
| `digest` | `MCDigest` | overlapping ticks while mail arrives in the quarantine, leaves it and is put back, and digests fail, also after they went out: `DigestMissesNothing`, `DigestOnce` |
| `connections` | `MCConnections` | two overlapping polls and a callback: `NothingSkipped`, `IngestedOnce`, `ReconnectHolds` |
| `panels` | `MCPanels` | composing with autosaves, or the Aliases panel and the app beside it: `CalmSendIsExact`, `FailureIsTrue`, `NothingNewerDropped`; `ForwardsToConfirmed` |
| `phone` | `MCPhone` | two sign-ins that may overlap with each other and with signing out, a restart, a call given up, a keystore that fails, a replaced push token: `QuietAfterSignOut`, `NotificationsStayOn`, `StaysSignedOut` |
| `webmail` | `MCWebmail` | folder, mailbox and search change while another client and the sweeper change the mail, with two senders in the Screener: `ListIsTrue`, `NobodySkipped` |
| `pocket` | `MCPocket` | two people on one phone, two changes under way: `OwnMailShown`, `HiddenComesBack` |

The comment at each property says what code it is about; the longest runs (`digest`, `phone`,
`replies`, `trials`, `webmail`) take two to three minutes.

**Mutants.** Each property of a run comes with a mutated operator in its module (named after the operator
with the mistake in its name, and listed in `PROJECT.json`) that makes TLC find the property violated.

**Bounds.** Every bound is a constant with "bound:" in its comment and stands in a guard.

* `delivery`, `replies`: two transactions, messages with up to two recipients, two attempts (one for
  replies), limits of one, one change by the owner: enough for two handlers to be past the same check, for a
  retry to meet a half-served message, and for any table to change under an await. `TargetRows` and
  `BoxRows` are small, which is where a rowid comes back soonest. The transactions are interchangeable, hence the
  symmetry in the runs without liveness.
* `store`: two messages of one sender (a batch, and a message in the parser beside one that is stored), two
  hours with a TTL of one, one crash: the handlers keep nothing in memory, so what a second crash finds is
  what a first one left.
* `accounts`: two people, two names, two seeds and two waiting requests are the smallest instance in which
  a number is reused under a waiting request and in which a name is taken under a check.
* `billing`: two owners of one number with two subscriptions and four events (creation and an update or
  deletion of each).
* `trials`: two ticks, two owners of one account, one crash (so two starts), one mail taken for failed, a clock
  with a moment before, at and after the end of the trial, three tries of the page (8 in the code), one failing call.
* `digest`: two ticks, two messages of which a digest has room for one, two values of `digest_hour`, one crash, one
  digest taken for failed, and a threshold of two, so that a failure is tried again before the digest is turned off.
* `connections`: two ticks, two messages, one crash, two consents.
* `webmail`: two messages of one mailbox, one of them in the Screener from the start: enough for a decision to move
  the position past a sender nobody decided on.
* `phone`: two sign-ins and two calls under way are what it takes for a sign-in to overlap with a sign-out or with
  another; one failure of a call, as the keystore may fail whenever it is used.
* the other client runs: one or two of everything, two or three changes and one failure. What a third call
  under way could do, it does to two others one after the other.

Larger instances that were checked once, with all type invariants: messages with forwards and replies
together under fairness (1.1 million states), two-contact answers (1.4 million), seven requests in `accounts`
(2.3 million), `pocket` with the alias hooks, with two
Screeners, and with lists (up to 3.6 million), `connections` with `MailComesIn` under `FairSpec` (0.5 million).

**Deadlock** is not checked: remote MTAs stop after `MaxTries`, people after their bound, the clock at
`MaxTime`. The liveness properties say what must not get stuck.

**Fairness.** `Delivery!FairSpec` is weak fairness of each transaction's handler after DATA: the parser and
the DNS library return, and the SMTP client has timeouts, so every await ends. `MailStore!FairSpec` is weak
fairness of the running handler (synchronous code ends) and strong fairness of the sweeper, whose timer fires
for ever and, as a handler takes no time, finds the event loop free again and again. `Startup!FairSpec` (as
`TrialsFair`) is weak fairness of the start and of each tick, and strong fairness of the relay taking a mail: it
does not refuse every time it is tried. `GateFair` is weak fairness of the server, of the answers and of the
page's timer; calls may fail, as often as `MaxFaults` says. Nothing is assumed of people, remote
MTAs, Stripe or the clock.

### Where the code does not do what is said of it

The following definitions state what a comment or document says, and are violated. They are not part of a run;
adding one to the cfg named makes TLC show the behaviour.

| definition | cfg | what is said | what happens |
|---|---|---|---|
| `RetryFindsNothingDelivered` | `MCDelivery` | `smtp.ts:75` "so a 451 never leaves half the recipients delivered" | a later recipient's error answers 451 for all; the retry duplicates the earlier copies |
| `ForwardsFollowTheAlias` | `MCDelivery` | `api.ts:1629` "aliases fall back to storing" | a target removed and another added under an await has the same number, and gets the forward |
| `NoOrphanAttachments` | `MCMailStore` | `sweeper.ts:23` "Collect attachment paths *before* deleting" | the bulk delete (`api.ts:921`) does not, and leaves the files |
| `QuarantineExpires` | `MCMailStore` | `README.md:155` "Quarantined mail expires by TTL" | mail moved to the quarantine keeps `expires_at` NULL (`api.ts:800`) |
| `ClaimedLinkActed` | `MCMailStore` | digest design, line 275 "In one transaction" | the link is claimed before the transaction (`api.ts:1732`); a crash between spends it |
| `BackfillIdempotent` | `MCMailStore` | `db.ts:487` "Idempotent" | FTS5 has no key, the INSERT adds a second entry |
| `NeverChargedWhenGone` | `MCBilling` | `account-deletion.ts:5` | a checkout that is open, or an event that has not come, when the account is deleted |
| `SentAsShown` | `MCPanels` | `ComposePanel.tsx:131` "Make sure latest values are persisted" | the PATCH does not carry the mailbox, a changed From is not sent |
| `FormOffersVerified` | `MCPanels` | `AliasManager.tsx:68` "Default the create form to the first verified forwarding address." | removing that address resets the form before the new list is there, and the effect takes it again |
| `HiddenIsDecidedHere` | `MCPocket` | `ScreenerScreen.tsx:88` "bring it back if the request fails" | `hidden` is not kept by mailbox |
| `PaidSeesMail` | `MCTrials` | `App.tsx:174` "otherwise every mailbox-scoped panel ... silently won't open" | the mailboxes are asked for once per sign-in, are told 402, and not again when the wall falls |

The properties of the runs except these and a few more cases, each named in its comment: addresses taken by
`POST /api/mailboxes`, which looks at mailboxes only (`late`); requests that wait while their user is deleted and
his number given to another (`caught`); a sign-in that writes back an older seed (`rewritten`); a reconnection
while a poll with the old tokens is at work (`late` of `Connections`); lists answered out of order
(`stale` of `Webmail`); rows whose token the app dropped without an answer to it, and a token
the keystore did not delete (`dropped`, `kept` of `Phone`); a first fetch that an invalidation does not replace (`Pocket`).

Others were met while modelling and are in the models as they are, without a definition of their own: a reminder
or digest that went out is sent again when the answer of the relay is lost or the copy for Sent fails
(`billing.ts:409`, `digester.ts:234`: the catch leaves the row as it was); mail the owner moves into the quarantine keeps
its `received_at`, so it is in no digest when it is older than the last (`api.ts:800`); an old
database from before accounts never starts (`db.ts:425`, `AddOwner` ends "dead"); a crash between the ALTER and
the UPDATE of `email_verified_at` locks the early users out; a lost answer of `POST /logout` leaves the
cookie; a late 401 signs out a newer token (`authStore.ts:116`); so does the late answer to a sign-out when
somebody has signed in meanwhile (`authStore.ts:107`: the row of the new token stays active with its push token,
and the app may go on as signed in with no token at all); a sign-in under way when signing out signs in again; a
token whose deletion failed signs in at the next start (`secureStore.ts:59`); `PUT` of a push token may overtake
the one that turns it off; a message deleted at the provider stalls its connection; overlapping creates make two
drafts; a Screener decision with a change of mailbox passes over one sender of the other.

## 4. What is proved

TLAPS checks the theorems below for every value of the constants that the ASSUME of the module allows: any
number of transactions, messages, users, ticks, calls and crashes. TLC evaluates the assumptions in every
run.

| module | theorem | property | run |
|---|---|---|---|
| `Delivery_proofs` | `TypesInvariant`, `TypeCorrect` | `TypeOK` | `delivery` |
| | `MailNeverSilentlyLost` | `NoSilentLoss` | `delivery` |
| | `OneCopyPerAttempt` | `CopiesOnlyByRetry` | `delivery` |
| | `HandlersImplementCustody` | `ImplementsCustody` (refinement) | `delivery` |
| | `ForwardLimitHolds` | `ForwardsBounded` | `delivery` |
| | `ReplyLimitHolds` | `RepliesBounded` | `replies` |
| | `NothingElseLeaves` | `OutboundOnlyAsAsked` | `replies` |
| | `ReverseAliasesOwned` | `ReverseHasAlias` | - |
| `Billing_proofs` | `BillingTyped` | `TypeOK` | - |
| | `TrialIsCarried` | `NoEarlyCharge` | `billing` |
| | `RowIsStripe` | `SettledIsStripe` | `billing` |
| | `DeletedIsNotCharged` | `DeletedNotCharged` | `billing` |
| `Mail_proofs` | `StoreTyped` | `TypeOK` | - |
| | `RowsAndFilesAgree` | `RowsMatchFiles` | `store` |
| | `RescuedStays` | `RescuedNeverSwept` | `store` |
| | `AllowedMailIsOut` | `AllowedNotQuarantined` | `store` |
| | `RejectedIsHidden` | `RejectedStaysHidden` | `store` |
| | `SearchFindsAll` | `Searchable` | `store` |
| | `EntriesBounded` | `EntryPerStart` | - |
| | `LinksActOrCrash` | `LinkActsOrCrashed` | - |
| | `WebmailInvariant` | - | - |
| | `WebmailTyped` | `WebmailTypeOK` | - |
| | `ListStaysTrue` | `ListIsTrue` | `webmail` |
| | `NobodyIsSkipped` | `NobodySkipped` | `webmail` |
| `Accounts_proofs` | `AccountsTyped` | `TypeOK` | - |
| | `AddressesApart` | `AddressHeldOnce` | `accounts` |
| | `NumbersStayWhose` | `NothingOfAnother` | `accounts` |
| | `SeedsShown` | `SeedIsConfirmed` | `accounts` |
| | `EmailsApart` | `EmailOnce` | - |
| `Connections_proofs` | `ConnectionsTyped` | `TypeOK` | - |
| | `NoMailJumpedOver` | `NothingSkipped` | `connections` |
| | `ReconnectionHolds` | `ReconnectHolds` | `connections` |
| | `OncePerConsent` | `IngestedOnce` | `connections` |
| `Notices_proofs` | `DigestTyped` | `TypeOK` | - |
| | `NobodyMissed` | `DigestMissesNothing` | `digest` |
| | `OneDigestPerGap` | `DigestOnce` | `digest` |
| | `PhoneInvariant` | - | - |
| | `SignedOutIsQuiet` | `QuietAfterSignOut` | `phone` |
| | `TicketsAreAboutTheirs` | `NotificationsStayOn` | `phone` |
| | `OutStaysOut` | `StaysSignedOut` | `phone` |
| | `PocketInvariant` | - | - |
| | `OwnMailIsShown` | `OwnMailShown` | `pocket` |
| | `HiddenCardsComeBack` | `HiddenComesBack` | `pocket` |
| `Panels_proofs` | `ComposeInvariant` | - | - |
| | `SendIsExact` | `CalmSendIsExact` | `panels` |
| | `FailedIsNotSent` | `FailureIsTrue` | `panels` |
| | `DropsNothingNewer` | `NothingNewerDropped` (action property) | `panels` |
| | `ForwardsOnlyToConfirmed` | `ForwardsToConfirmed` | `panels` |
| `Startup_proofs` | `StartupTyped` | `TypeOK` | - |
| | `PendingStaysPending` | `VerifiedByLink` | `trials` |
| | `OperatorExempt` | `OperatorNotBilled` | - |
| | `RemindersBounded` | `RemindedOnce` | `trials` |

### Assumptions

* `Delivery`: `ConstantsOK` (limits and bounds are positive, there are finitely many transactions, `None` is
  none of the other values), `DatabasesOK` (a starting database has rows of the schema, and its reverse
  aliases belong to aliases), `MailOK` (a message has at least one recipient and at most `MaxRcpts`).
* the others: `...ConstantsOK` of each module: finite sets of actors, naturals where the code has numbers,
  and `None` or `Nil`, which stand for SQL NULL, apart from values (`NoneIsNoRow` of
  `Billing`, `ComposeConstantsOK`: and from rows; `NoneIsNoEntry` of `Pocket`, `NoneIsNoList` of `Webmail`). The
  phone of `Phone` has a push token from the start. A sender of `MailStore` has sent
  something.

### Types

`TypeOK` is seldom inductive. A handler that serves the recipient at index `at` of its envelope
is typed only because the index is inside the envelope, and because what it read before its awaits is still
in the transaction when it resumes: `Inv` of `Delivery_proofs` adds that as `SessionsOK`. In the same way `Typed`
of `Mail_proofs` and `Connections_proofs` says what the running handler and each poll hold; that of
`Accounts_proofs` gives the waiting requests their rows, and every session a user; that of `Startup_proofs` says
that the operator's row is there once its statement has run. There is one lemma per action; what several
actions share (`Defer`, `Settle`, `Store`, a row that is rewritten) is a lemma of its own.

### Delivery

*No silent loss.* `NoSilentLoss` speaks of messages that were answered 250, so it says nothing of the
steps that lead to the answer. `CustodyInv` adds what is true of an open message: it is in one transaction
(`Alone`); every recipient offered so far is in the envelope or was bounced; every recipient that
the loop has passed is served; a copy that the relay has taken is in the record before `sendMail` resolves
(`Kept`); and an address that cannot receive now is in the history (`OffRemembered`). A transaction
moves in one of three ways, each a lemma: it ends (`Ends`), deals with its recipient (`Settles`) or goes on
with it (`GoesOn`). The others keep what they had because the history only grows (`FatesGrow`).

*One copy per attempt.* `CopiesInv` adds `Fresh`: no recipient is twice in an envelope, and one that the loop has
not passed in this attempt has fewer copies than attempts. A step of a transaction is of one of seven kinds;
each kind is shown to keep the invariant and, for the refinement, to be a step of `Custody` or a stutter.

*The limits.* `ForwardsBounded` does not count the transactions that have passed the check and wait for the
relay; `ForwardsInFlight` counts events and such transactions together. `RepliesBounded` is the same with the
recipients that are still owed a reply (`RepliesInFlight`), and needs that a reverse alias in an envelope is
still one (`EnvelopeKnown`), so that the check at the end of DATA misses none.

*What leaves.* `OutboundInv` adds to `OutboundOnlyAsAsked` what a transaction checked before its awaits
(`Asked`), that what the tables allow now is in the history (`AllowedRemembered`), and that a recipient without a
relayed copy was sent nowhere.

### MailStore

A handler stops where a crash finds it, so an invariant of tables and files has to say how far the running
handler has come: `Shape` says it of the rows and files of `job`. `RowsMatchFiles` then needs which messages a
running handler has left with a file and no row; the properties about senders need the rules that were there
when the parser began. `EntriesBounded` and `LinksActOrCrash` say what does hold of `BackfillIdempotent` and
`ClaimedLinkActed`, which are violated (section 3): a start adds one search entry at most (`Entered`: the message ingest is at work
on has none yet), and only a crash keeps a claimed link from its work.

### Webmail

The second part of `Mail_proofs`. The list on the screen is often not true, so the invariant says what sets it right.
`AllStraight` gives every answer the version of the server it was read at: an answer of the present version is the
truth of its place. `Fresh` says that what is shown is true, or an event of the mailbox is on its way, or a fetch for
this place is not answered yet or has an answer at least as new as what is shown; and that each answer that may still
be shown is true, or older than what is shown, or will be corrected by a later one. Two facts keep it: a change of the rows
puts an event on the stream or is one the client could not hear of (`MailMoves`, `HeardFacts`), and what a handler or
an event takes away it replaces by a fetch (`Drops`, `Refetched`). `ListIsTrue` is `Fresh` with nothing under way.

`Cards` says of the Screener that at most one decision is under way for the queue it shows, that this decision is about the
card on top while the owner has not changed the mailbox under it, that one that was answered is in the rules, and that a
queue is asked for once. `Transfers` names where each call of the Screener was before a step, because an answer
that is taken moves the others up in the sequence of calls.

The order of the queue is the work of `LatestFirst`, a `CHOOSE`: `LatestFirstSorts` shows that a finite set of messages has
such an order, with the number of later messages as the place of each.

### Accounts

`AddressHeldOnce` is inductive with the types, because every statement that writes an address either looked in the
same stretch or is counted in `late`. `NothingOfAnother` needs that a waiting request still has a row of its
user, or that the number is in `caught` (`Knows`). `SeedIsConfirmed` needs that of the row a sign-in
read before argon2, too.

### Billing

`Typed` holds more than types: a customer at Stripe is made for one account id (`HomeOK`), so an event finds the row it
was made for or none, although the webhook also looks a row up by its customer. `Own` says that what an owner asks
for and buys is for his own row and starts with his trial; `NoEarlyCharge` follows. The other two need what was told
(`Told`: seconds do not go back, a cancelled subscription stays so, the last event of a subscription has its status),
what was copied (`Copied`: the row has the status of the newest event applied to it), that an owner outside `raced`
has one purchase under way or running (`OneAtATime`), and that he has one customer (`OneCustomer`). With the
events arrived, the newest event applied and the last event of the subscription are then in the same second, and so
the same. For a deletion, `Cancelling` says that what waits to be cancelled is the owner's, and `GoneQuiet` that who
left calmly has no request, session or subscription from which a charge could come.

### Connections, Digest, Phone, Pocket, Aliases, Compose, Startup

*Connections.* `SkipInv` says what the cursors that polls carry across their awaits stand for. `GrantInv` says
that a poll at work has the tokens stored last. `OnceInv` counts, for each message, the chances it still has to
come in: a poll that has it in its list, or a cursor before it. A chance exists at most once at a time, and each one
after the first was paid for by a consent or a crash.

*Digest.* `Accounted` says that what a tick at work has seen in the quarantine is in `listed` or `putBack`, or in the
digest it is sending, so that the time it stores at its end passes over nobody. `OnceInv` says that, while ticks do not
overlap, what this run of the process has sent and not taken for failed is in the row or about to be, that the tick at
work found twelve hours gone by since, and that what was taken for failed is not after the clock.

*Phone* (the second part of `Notices_proofs`). A row of `devices` gets its push token from a call that may arrive long
after the app went on. `Holders` says that the row a call acts for is the one whose token the app holds, was
dropped, or is revoked, and that an answer which ends the use of a token (of a sign-out, or a 401 to a read) finds its row
revoked: the app may then forget that token without a row being left behind, and a token it forgets on
any other answer is among the `dropped`. `Paired` gives each sign-in one row, made by one call, so that overlapping
sign-ins share none. `Intent` says that somebody who has signed out is not signing in and has no token but one the
keystore did not delete, and that a start is alone with its call, so that it finds what that call was sent with.

*Pocket* (the third part). `OwnMailShown` is about settled entries on a screen; `Cached` says the same of all entries,
and of fetches under way: one whose answer will count as fresh has read every answered change, or reads it when
the server serves it (`UpToDate`). Every change that is answered was carried out (`CarriedOut`), and the hook of a
mutation invalidates each key the server's answer to which it may have changed (`AffectedIsInvalidated`). `Cards`
names the call that brings a hidden card back: the last of its hook, and of the person signed in.

*Aliases.* Between an alias and a link that was opened are the target row and its token. An alias points at a
verified row, a verified row has been confirmed, a link whose token is in a row was mailed for that row,
and numbers are given out once. Clients do not occur in the invariant: whatever they send, the routes check.

*Compose* (the first half of `Panels_proofs`). Between a click on Send and the mail is a draft row that the autosave
writes too. `Sender`, `CalmTexts` and `PlainTexts` carry what the click showed along the final PATCH and the send:
whatever is still to be written to that row, by a call under way or by the timer, is what was shown. That no other
call writes it needs `Apart` (only the panel that sends the draft has it, and only one call sends it) and
`Fresh` (a draft of which the panel has not been told yet is named by nobody else). `OneCall` and
`Mailed` lead from what was said of a click back to the one call that was made for it. A step is of
one of six kinds (`ComposeSteps`); each part of the invariant is shown for the kinds, not for the actions.

*Startup.* `GateInv` says which users may be verified at which statement of the start. For reminders `May` is
the set of ticks that may still send a mail of a kind to an owner; mails sent and members of `May`
together are bounded (`MailsBounded`), because marking a row closes it to every tick that has not read it; a mail
that is taken for failed moves its tick out of `May` and is paid for by `lost`.

### What stays with TLC

* Liveness (`EveryMessageAnswered`, `ExpiredIsSwept`, `EndedNoticed`, `WallFalls`): fairness and ENABLED are out of the
  prover's reach.

## 5. What is not modelled

See "components" in `PROJECT.json`. Header rewriting, MIME parsing, DKIM, tracker scanning and the
authentication checks are pure functions of a message, and only their verdicts matter here. The encryption of
tokens and the MACs of links are taken to work. Legal pages, the API description, configuration, the
audit log and deployment hold no state that another part depends on. Of the clients, the settings
dialogs that only show the last answer, the sidebar's counts and the drafts list are left out; of the
server, rate limits, the expiry of sessions and the steps of a TOTP code.

## 6. Plan

1. *(done)* The modules of section 2 with their runs.
2. *(done)* The theorems of section 4.
3. Every safety property of the runs is proved. What could come next are abstract specifications for the Screener and
   for the aliases, in the way `Custody` is one for delivery, with their refinements; and theorems about what does hold
   where section 3 says that a comment does not (`NoOrphanAttachments` without bulk deletes, `QuarantineExpires` for
   mail that nobody moved), like `EntriesBounded` and `LinksActOrCrash`.
