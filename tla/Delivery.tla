------------------------------ MODULE Delivery ------------------------------
(***************************************************************************)
(* Inbound mail: the SMTP server (smtp.ts), the ingestion pipeline         *)
(* (ingest.ts) and alias forwarding with reverse-alias replies             *)
(* (forwarding.ts).                                                        *)
(*                                                                         *)
(* The server is one Node.js process: a handler runs without interruption  *)
(* up to its next await, and SQLite is called synchronously. An action is  *)
(* the code of a handler between two awaits, so the interleavings are      *)
(* those of the awaits: the DATA stream, parsing with the DNS lookups of   *)
(* SPF/DKIM/DMARC, and the outbound relay. The owner's API calls and the   *)
(* clock change the tables between any two such steps, and a crash loses   *)
(* every transaction in progress.                                          *)
(*                                                                         *)
(* A remote MTA keeps a message until it is answered 250 and offers all    *)
(* its open recipients again after a 451 or a lost connection.             *)
(***************************************************************************)
EXTENDS Naturals, Sequences, FiniteSets

CONSTANTS
  Sessions,     \* SMTP transactions that can be open at the same time
  Mail,         \* the messages remote MTAs want to deliver
  Homes,        \* mailbox addresses
  Aliases,      \* alias addresses
  Emails,       \* external addresses: contacts and the owner's real inboxes
  None,         \* SQL NULL, and a row that does not exist
  ForwardMax,   \* config.aliases.forwardMaxPerHour
  ReplyMax,     \* config.aliases.replyMaxPerHour
  BoxRows,      \* bound: rowids the mailboxes table can use
  TargetRows,   \* bound: rowids the forward_targets table can use
  MaxRcpts,     \* bound: recipients of a message
  MaxTries,     \* bound: attempts the remote MTA makes
  MaxEdits,     \* bound: changes the owner makes
  Databases     \* the contents of the tables the server can start with

Kinds == {"forward", "reply"}
Modes == {"store", "forward", "both"}
BoxIds == 1 .. BoxRows
TargetIds == 1 .. TargetRows
Slots == 1 .. MaxRcpts

\* An envelope recipient. A reverse alias is named by the pair it was minted
\* for: its address is a random string, unique to the alias and the contact.
Rcpt ==
  [kind : {"home"}, addr : Homes] \cup
  [kind : {"alias"}, addr : Aliases] \cup
  [kind : {"reverse"}, addr : Aliases, contact : Emails]

\* A message, with what the parser and the authentication checks find in it.
MailRecord ==
  [id : Nat, from : Emails, others : SUBSET Emails, rcpts : Seq(Rcpt),
   dmarcFail : BOOLEAN, authentic : BOOLEAN, looped : BOOLEAN]

AliasRow ==
  [box : BoxIds, mode : Modes, target : TargetIds \cup {None},
   abused : BOOLEAN, expired : BOOLEAN]

TargetRow == [email : Emails, verified : BOOLEAN]

ASSUME ConstantsOK ==
  /\ IsFiniteSet(Sessions) /\ Sessions # {}
  /\ ForwardMax \in Nat \ {0} /\ ReplyMax \in Nat \ {0}
  /\ {BoxRows, TargetRows, MaxRcpts, MaxTries} \subseteq Nat \ {0}
  /\ MaxEdits \in Nat
  /\ None \notin Mail \cup Emails \cup Homes \cup Nat \cup AliasRow \cup TargetRow

ASSUME DatabasesOK ==
  \A d \in Databases :
    /\ d.box \in [BoxIds -> Homes \cup {None}]
    /\ d.whitelist \in [BoxIds -> SUBSET Emails]
    /\ d.alias \in [Aliases -> AliasRow \cup {None}]
    /\ d.target \in [TargetIds -> TargetRow \cup {None}]
    /\ d.reverse \subseteq {r \in Aliases \X Emails : d.alias[r[1]] # None}
    /\ d.entitled \in BOOLEAN

ASSUME MailOK ==
  \A m \in Mail : m \in MailRecord /\ Len(m.rcpts) \in Slots

VARIABLES
  box,        \* mailboxes: rowid -> address
  whitelist,  \* whitelist_rules: mailbox rowid -> senders its rules match
  alias,      \* aliases: address -> row
  target,     \* forward_targets of the account: rowid -> row
  reverse,    \* reverse_aliases: <<alias, contact>>
  entitled,   \* isAccountEntitled of the account
  outbound,   \* outbound_events of the last hour, counted by kind
  session,    \* the SMTP transactions
  mta,        \* what the remote MTA knows of each message
  fate,       \* history: what became of each recipient's copy
  past,       \* history: what the owner has asked for so far
  edits       \* how many changes the owner has made

tables == <<box, whitelist, alias, target, entitled>>
vars == <<tables, reverse, outbound, session, mta, fate, past, edits>>
-----------------------------------------------------------------------------
Idle ==
  [pc |-> "idle", mail |-> None, env |-> <<>>, at |-> 1, offered |-> 0,
   box |-> None, row |-> None, to |-> None, out |-> FALSE]

NoFate ==
  [stored |-> 0, relayed |-> 0, refused |-> FALSE, homes |-> {}, to |-> {}]

Slot(s) == session[s].env[session[s].at]
Current(s) == session[s].mail.rcpts[Slot(s)]

\* The loop of onData moves on to the next recipient of the envelope.
Advance(s) == [session[s] EXCEPT !.pc = "next", !.at = @ + 1, !.box = None,
                                 !.row = None, !.to = None, !.out = FALSE]

Live(a) == alias[a] # None /\ ~alias[a].abused /\ ~alias[a].expired

\* verifiedTargetFor: the verified forwarding address behind a target id.
Verified(t) == t # None /\ target[t] # None /\ target[t].verified

\* findActiveReverseAlias: the address is known and its alias is live.
ActiveReverse(r) == <<r.addr, r.contact>> \in reverse /\ Live(r.addr)
-----------------------------------------------------------------------------
(* What the remote MTA and the history record.                             *)

Defer(s) ==
  /\ mta' = [mta EXCEPT ![session[s].mail].state = "queued"]
  /\ session' = [session EXCEPT ![s] = Idle]

\* The copy for the current recipient is dealt with, and fate changes to f.
Settle(s, f) ==
  /\ fate' = [fate EXCEPT ![session[s].mail][Slot(s)] = f]
  /\ session' = [session EXCEPT ![s] = Advance(s)]
  /\ UNCHANGED mta

FateOf(s) == fate[session[s].mail][Slot(s)]

Refuse(s) == Settle(s, [FateOf(s) EXCEPT !.refused = TRUE])

\* insertMessage: the mailbox rowid was read before the awaits. Without that row
\* the foreign key fails, ingest throws, and the whole message is answered 451.
Store(s) ==
  \/ /\ box[session[s].box] # None
     /\ Settle(s, [FateOf(s) EXCEPT !.stored = @ + 1,
                                    !.homes = @ \cup {box[session[s].box]}])
  \/ /\ box[session[s].box] = None
     /\ Defer(s)
     /\ UNCHANGED fate
-----------------------------------------------------------------------------
(* The SMTP dialogue.                                                      *)

\* MAIL FROM: the remote MTA opens a transaction for a queued message.
Offer(s, m) ==
  /\ session[s].pc = "idle"
  /\ mta[m].state = "queued"
  /\ mta[m].tries < MaxTries
  /\ session' = [session EXCEPT ![s] = [Idle EXCEPT !.pc = "rcpt", !.mail = m,
                                                    !.offered = 1]]
  /\ mta' = [mta EXCEPT ![m].state = "open", ![m].tries = @ + 1]
  /\ UNCHANGED <<tables, reverse, outbound, fate, past, edits>>

Deliverable(r) ==
  \/ r.kind = "home" /\ \E b \in BoxIds : box[b] = r.addr
  \/ r.kind = "alias" /\ Live(r.addr)
  \/ r.kind = "reverse" /\ ActiveReverse(r)

\* onRcptTo for the next recipient that has not bounced yet. A refused one
\* (550) is returned to the author by the remote MTA.
RcptTo(s) ==
  LET m == session[s].mail
      i == session[s].offered
  IN  /\ session[s].pc = "rcpt"
      /\ i <= Len(m.rcpts)
      /\ \/ /\ i \notin mta[m].bounced
            /\ Deliverable(m.rcpts[i])
            /\ session' = [session EXCEPT ![s].env = Append(@, i),
                                          ![s].offered = i + 1]
            /\ UNCHANGED mta
         \/ /\ i \in mta[m].bounced \/ ~Deliverable(m.rcpts[i])
            /\ mta' = [mta EXCEPT ![m].bounced = @ \cup {i}]
            /\ session' = [session EXCEPT ![s].offered = i + 1]
      /\ UNCHANGED <<tables, reverse, outbound, fate, past, edits>>

RcptsDone(s) ==
  session[s].pc = "rcpt" /\ session[s].offered > Len(session[s].mail.rcpts)

\* No recipient was accepted: the remote MTA has returned the whole message.
Abandon(s) ==
  /\ RcptsDone(s) /\ session[s].env = <<>>
  /\ mta' = [mta EXCEPT ![session[s].mail].state = "bounced"]
  /\ session' = [session EXCEPT ![s] = Idle]
  /\ UNCHANGED <<tables, reverse, outbound, fate, past, edits>>

\* replyRateLimited for one of the envelope's reverse aliases.
ReplyLimited(s) ==
  /\ outbound["reply"] >= ReplyMax
  /\ \E k \in 1 .. Len(session[s].env) :
       LET r == session[s].mail.rcpts[session[s].env[k]]
       IN  r.kind = "reverse" /\ ActiveReverse(r)

\* Mutant of Data: no look at the reply limit.
DataUnlimited(s) ==
  /\ RcptsDone(s) /\ session[s].env # <<>>
  /\ session' = [session EXCEPT ![s].pc = "next"]
  /\ UNCHANGED <<tables, reverse, outbound, mta, fate, past, edits>>

\* Mutant of Data: 250 as soon as the stream has been read.
DataAnswersFirst(s) ==
  /\ RcptsDone(s) /\ session[s].env # <<>>
  /\ session' = [session EXCEPT ![s].pc = "next"]
  /\ mta' = [mta EXCEPT ![session[s].mail].state = "accepted"]
  /\ UNCHANGED <<tables, reverse, outbound, fate, past, edits>>

\* onData once the stream has been read: all the reverse recipients are checked
\* against the reply limit before any recipient is processed.
Data(s) ==
  /\ RcptsDone(s) /\ session[s].env # <<>>
  /\ \/ ReplyLimited(s) /\ Defer(s)
     \/ /\ ~ReplyLimited(s)
        /\ session' = [session EXCEPT ![s].pc = "next"]
        /\ UNCHANGED mta
  /\ UNCHANGED <<tables, reverse, outbound, fate, past, edits>>

\* The recipient loop has a recipient left / is over and answers 250.
HasRcpt(s) == session[s].pc = "next" /\ session[s].at <= Len(session[s].env)

Accept(s) ==
  /\ session[s].pc = "next" /\ session[s].at > Len(session[s].env)
  /\ mta' = [mta EXCEPT ![session[s].mail].state = "accepted"]
  /\ session' = [session EXCEPT ![s] = Idle]
  /\ UNCHANGED <<tables, reverse, outbound, fate, past, edits>>
-----------------------------------------------------------------------------
(* ingest: mail to a mailbox or an alias.                                  *)

\* resolveRecipient fails: nothing is stored, and the loop goes on to a 250.
Unknown(s) ==
  /\ HasRcpt(s)
  /\ Current(s).kind # "reverse"
  /\ ~Deliverable(Current(s))
  /\ Refuse(s)
  /\ UNCHANGED <<tables, reverse, outbound, past, edits>>

\* Mutant of Resolve: the linked mailbox's address where its id belongs.
ResolveAddress(s) ==
  LET r == Current(s)
      parsing(b, row) == session' = [session EXCEPT ![s].pc = "parsing",
                                                    ![s].box = b, ![s].row = row]
  IN  /\ HasRcpt(s)
      /\ \/ /\ r.kind = "home"
            /\ \E b \in BoxIds : box[b] = r.addr /\ parsing(b, None)
         \/ /\ r.kind = "alias" /\ Live(r.addr)
            /\ parsing(box[alias[r.addr].box], alias[r.addr])
      /\ UNCHANGED <<tables, reverse, outbound, mta, fate, past, edits>>

\* resolveRecipient: the mailbox and the alias row are read here and used,
\* without another look, after the parser and the DNS lookups have finished.
Resolve(s) ==
  LET r == Current(s)
      parsing(b, row) == session' = [session EXCEPT ![s].pc = "parsing",
                                                    ![s].box = b, ![s].row = row]
  IN  /\ HasRcpt(s)
      /\ \/ /\ r.kind = "home"
            /\ \E b \in BoxIds : box[b] = r.addr /\ parsing(b, None)
         \/ /\ r.kind = "alias" /\ Live(r.addr)
            /\ parsing(alias[r.addr].box, alias[r.addr])
      /\ UNCHANGED <<tables, reverse, outbound, mta, fate, past, edits>>

\* Only whitelisted mail that did not fail DMARC is ever forwarded.
WantsForward(s) ==
  LET m == session[s].mail
  IN  /\ session[s].row # None /\ session[s].row.mode # "store"
      /\ m.from \in whitelist[session[s].box]
      /\ ~m.dmarcFail

\* Mutant of CanForward: without the hourly limit.
CanForwardUnlimited(s) ==
  /\ WantsForward(s)
  /\ ~session[s].mail.looped
  /\ entitled
  /\ Verified(session[s].row.target)
  /\ alias[Current(s).addr] # None

\* The checks of forwardAliasMessage, down to the foreign key of the reverse
\* alias it inserts: the alias row itself must still be there.
CanForward(s) ==
  /\ WantsForward(s)
  /\ ~session[s].mail.looped
  /\ entitled
  /\ Verified(session[s].row.target)
  /\ outbound["forward"] < ForwardMax
  /\ alias[Current(s).addr] # None

\* The sender and every other participant but the alias and the owner get a
\* reverse alias.
Minted(s, to) ==
  reverse \cup {<<Current(s).addr, p>> : p \in {session[s].mail.from} \cup (session[s].mail.others \ {to})}

\* ingest resumes: forward the message; the relay starts.
Forward(s) ==
  LET to == target[session[s].row.target].email
  IN  /\ session[s].pc = "parsing" /\ CanForward(s)
      /\ reverse' = Minted(s, to)
      /\ session' = [session EXCEPT ![s].pc = "relaying", ![s].to = to]
      /\ UNCHANGED <<tables, outbound, mta, fate, past, edits>>

\* ingest resumes: the message is stored, in the inbox or in quarantine.
StoreParsed(s) ==
  /\ session[s].pc = "parsing" /\ ~CanForward(s)
  /\ Store(s)
  /\ UNCHANGED <<tables, reverse, outbound, past, edits>>

\* Mutant of RelayTakes: the mail client retries on its own.
RelayTakesAgain(s) ==
  /\ session[s].pc \in {"relaying", "replying"}
  /\ session' = [session EXCEPT ![s].out = TRUE]
  /\ fate' = [fate EXCEPT ![session[s].mail][Slot(s)].relayed = @ + 1,
                          ![session[s].mail][Slot(s)].to = @ \cup {session[s].to}]
  /\ UNCHANGED <<tables, reverse, outbound, mta, past, edits>>

\* The relay takes the message: from here on the copy is out, whatever answer
\* the server gets or lives to see.
RelayTakes(s) ==
  /\ session[s].pc \in {"relaying", "replying"} /\ ~session[s].out
  /\ session' = [session EXCEPT ![s].out = TRUE]
  /\ fate' = [fate EXCEPT ![session[s].mail][Slot(s)].relayed = @ + 1,
                          ![session[s].mail][Slot(s)].to = @ \cup {session[s].to}]
  /\ UNCHANGED <<tables, reverse, outbound, mta, past, edits>>

\* sendMail resolves: count the forward, and store as well unless the mode
\* that was read before the awaits is "forward".
Forwarded(s) ==
  /\ session[s].pc = "relaying" /\ session[s].out
  /\ outbound' = [outbound EXCEPT !["forward"] = @ + 1]
  /\ \/ session[s].row.mode = "forward" /\ Settle(s, FateOf(s))
     \/ session[s].row.mode = "both" /\ Store(s)
  /\ UNCHANGED <<tables, reverse, past, edits>>

\* Mutant of ForwardFails: the error is logged and the message counts as handled.
ForwardFailsQuietly(s) ==
  /\ session[s].pc = "relaying"
  /\ Settle(s, FateOf(s))
  /\ UNCHANGED <<tables, reverse, outbound, past, edits>>

\* sendMail rejects, before or after the relay took the message: store it.
ForwardFails(s) ==
  /\ session[s].pc = "relaying"
  /\ Store(s)
  /\ UNCHANGED <<tables, reverse, outbound, past, edits>>
-----------------------------------------------------------------------------
(* handleReverseReply: the owner answers a contact through a reverse alias. *)

OwnerOf(a) ==
  IF alias[a] # None /\ Verified(alias[a].target) THEN target[alias[a].target].email
                                                  ELSE None

\* Unknown reverse alias or no verified target: audited and dropped.
ReplyRefused(s) ==
  /\ HasRcpt(s) /\ Current(s).kind = "reverse"
  /\ ~ActiveReverse(Current(s)) \/ OwnerOf(Current(s).addr) = None
  /\ Refuse(s)
  /\ UNCHANGED <<tables, reverse, outbound, past, edits>>

\* The reverse alias and the owner's address are read before the awaits.
ReplyStart(s) ==
  /\ HasRcpt(s) /\ Current(s).kind = "reverse"
  /\ ActiveReverse(Current(s)) /\ OwnerOf(Current(s).addr) # None
  /\ session' = [session EXCEPT ![s].pc = "verifying",
                                ![s].to = OwnerOf(Current(s).addr)]
  /\ UNCHANGED <<tables, reverse, outbound, mta, fate, past, edits>>

\* Mutant of ReplyChecked: the From header alone proves the owner.
ReplyUnsigned(s) ==
  LET m == session[s].mail
  IN  /\ session[s].pc = "verifying"
      /\ \/ /\ m.from = session[s].to
            /\ session' = [session EXCEPT ![s].pc = "replying",
                                          ![s].to = Current(s).contact]
            /\ UNCHANGED <<mta, fate>>
         \/ m.from # session[s].to /\ Refuse(s)
      /\ UNCHANGED <<tables, reverse, outbound, past, edits>>

\* Mutant of ReplyChecked: a rejected reply returns without an answer.
ReplyForgotten(s) ==
  /\ session[s].pc = "verifying"
  /\ session[s].mail.from = session[s].to /\ session[s].mail.authentic
  /\ session' = [session EXCEPT ![s].pc = "replying", ![s].to = Current(s).contact]
  /\ UNCHANGED <<tables, reverse, outbound, mta, fate, past, edits>>

\* Parsed and authenticated: anyone but the owner is audited and dropped.
\* Otherwise the reply is relayed to the contact, without another look at the
\* tables or at the hourly limit.
ReplyChecked(s) ==
  LET m == session[s].mail
  IN  /\ session[s].pc = "verifying"
      /\ \/ /\ m.from = session[s].to /\ m.authentic
            /\ session' = [session EXCEPT ![s].pc = "replying",
                                          ![s].to = Current(s).contact]
            /\ UNCHANGED <<mta, fate>>
         \/ /\ m.from # session[s].to \/ ~m.authentic
            /\ Refuse(s)
      /\ UNCHANGED <<tables, reverse, outbound, past, edits>>

\* sendMail resolves.
Replied(s) ==
  /\ session[s].pc = "replying" /\ session[s].out
  /\ outbound' = [outbound EXCEPT !["reply"] = @ + 1]
  /\ Settle(s, FateOf(s))
  /\ UNCHANGED <<tables, reverse, past, edits>>

\* sendMail rejects: the exception leaves the recipient loop, the message is 451.
ReplyFails(s) ==
  /\ session[s].pc = "replying"
  /\ Defer(s)
  /\ UNCHANGED <<tables, reverse, outbound, fate, past, edits>>

\* The process dies. Tables survive, transactions do not, and the remote MTAs
\* see their connections close before any answer.
Crash ==
  /\ \E s \in Sessions : session[s].pc # "idle"
  /\ session' = [s \in Sessions |-> Idle]
  /\ mta' = [m \in Mail |-> IF mta[m].state = "open"
                            THEN [mta[m] EXCEPT !.state = "queued"] ELSE mta[m]]
  /\ UNCHANGED <<tables, reverse, outbound, fate, past, edits>>
-----------------------------------------------------------------------------
(* The owner's API calls, other accounts and the clock, between two steps   *)
(* of the handlers.                                                         *)

\* History: the addresses that were ever unable to receive, the senders ever
\* trusted, and the real inboxes ever verified, as such and for an alias.
Remembered(p, b, w, a, t) ==
  [off |-> p.off
     \cup {h \in Homes : \A i \in BoxIds : b[i] # h}
     \cup {x \in Aliases : a[x] = None \/ a[x].abused \/ a[x].expired},
   trusted |-> p.trusted \cup UNION {w[i] : i \in BoxIds},
   verified |-> p.verified
     \cup {t[i].email : i \in {j \in TargetIds : t[j] # None /\ t[j].verified}},
   owners |-> p.owners \cup
     {<<x, t[a[x].target].email>> :
        x \in {y \in Aliases : /\ a[y] # None /\ a[y].target # None
                               /\ t[a[y].target] # None
                               /\ t[a[y].target].verified}}]

Edit ==
  /\ edits < MaxEdits
  /\ edits' = edits + 1
  /\ past' = Remembered(past, box', whitelist', alias', target')
  /\ UNCHANGED <<outbound, session, mta, fate>>

SetAlias(a, row) ==
  /\ alias' = [alias EXCEPT ![a] = row]
  /\ UNCHANGED <<box, whitelist, target, reverse, entitled>>

\* PATCH /api/aliases/:id. checkForwardConfig wants a verified target of the
\* account for every mode but "store".
PatchAlias(a, mode, t) ==
  /\ alias[a] # None
  /\ mode = "store" \/ Verified(t)
  /\ t # None => target[t] # None
  /\ SetAlias(a, [alias[a] EXCEPT !.mode = mode, !.target = t])
  /\ Edit

\* POST /api/aliases/:id/abuse and /restore.
FlagAlias(a) ==
  /\ alias[a] # None
  /\ SetAlias(a, [alias[a] EXCEPT !.abused = ~@])
  /\ Edit

\* DELETE /api/aliases/:id, with its reverse aliases (ON DELETE CASCADE).
DeleteAlias(a) ==
  /\ alias[a] # None
  /\ alias' = [alias EXCEPT ![a] = None]
  /\ reverse' = {r \in reverse : r[1] # a}
  /\ UNCHANGED <<box, whitelist, target, entitled>>
  /\ Edit

\* expires_at passes.
ExpireAlias(a) ==
  /\ alias[a] # None /\ ~alias[a].expired
  /\ SetAlias(a, [alias[a] EXCEPT !.expired = TRUE])
  /\ Edit

\* POST /api/forward-targets: the first free rowid, which SQLite takes from the
\* largest one in use, so the id of a deleted row comes back. The address is
\* verified at once when the owner already logs in with it.
AddTarget(t, e, v) ==
  /\ target[t] = None
  /\ \A i \in TargetIds : target[i] # None => i < t
  /\ t > 1 => target[t - 1] # None
  /\ \A i \in TargetIds : target[i] # None => target[i].email # e
  /\ target' = [target EXCEPT ![t] = [email |-> e, verified |-> v]]
  /\ UNCHANGED <<box, whitelist, alias, reverse, entitled>>
  /\ Edit

\* POST /public/forward/verify with the token that was mailed.
VerifyTarget(t) ==
  /\ target[t] # None /\ ~target[t].verified
  /\ target' = [target EXCEPT ![t].verified = TRUE]
  /\ UNCHANGED <<box, whitelist, alias, reverse, entitled>>
  /\ Edit

\* DELETE /api/forward-targets/:id sets the aliases' target to NULL and leaves
\* their mode.
DeleteTarget(t) ==
  /\ target[t] # None
  /\ target' = [target EXCEPT ![t] = None]
  /\ alias' = [a \in Aliases |-> IF alias[a] # None /\ alias[a].target = t
                                 THEN [alias[a] EXCEPT !.target = None] ELSE alias[a]]
  /\ UNCHANGED <<box, whitelist, reverse, entitled>>
  /\ Edit

\* Whitelist rules come and go.
SetRule(b, e) ==
  /\ box[b] # None
  /\ whitelist' = [whitelist EXCEPT ![b] = IF e \in @ THEN @ \ {e} ELSE @ \cup {e}]
  /\ UNCHANGED <<box, alias, target, reverse, entitled>>
  /\ Edit

\* DELETE /api/mailboxes/:id: rules, aliases and reverse aliases go with it.
DeleteMailbox(b) ==
  LET gone == {a \in Aliases : alias[a] # None /\ alias[a].box = b}
  IN  /\ box[b] # None
      /\ box' = [box EXCEPT ![b] = None]
      /\ whitelist' = [whitelist EXCEPT ![b] = {}]
      /\ alias' = [a \in Aliases |-> IF a \in gone THEN None ELSE alias[a]]
      /\ reverse' = {r \in reverse : r[1] \notin gone}
      /\ UNCHANGED <<target, entitled>>
      /\ Edit

\* Somebody signs up. The new mailbox gets the rowid after the largest in use.
NewMailbox(b, h) ==
  /\ box[b] = None
  /\ \A i \in BoxIds : box[i] # None => i < b
  /\ b > 1 => box[b - 1] # None
  /\ \A i \in BoxIds : box[i] # h
  /\ box' = [box EXCEPT ![b] = h]
  /\ UNCHANGED <<whitelist, alias, target, reverse, entitled>>
  /\ Edit

\* The account's trial or subscription ends, or it pays.
Entitle ==
  /\ entitled' = ~entitled
  /\ UNCHANGED <<box, whitelist, alias, target, reverse>>
  /\ Edit

\* The oldest row counted in an hourly limit is now more than an hour old.
EventAges(k) ==
  /\ outbound[k] > 0
  /\ outbound' = [outbound EXCEPT ![k] = @ - 1]
  /\ UNCHANGED <<tables, reverse, session, mta, fate, past, edits>>
-----------------------------------------------------------------------------
Boot(d) ==
  /\ box = d.box /\ whitelist = d.whitelist /\ alias = d.alias
  /\ target = d.target /\ reverse = d.reverse /\ entitled = d.entitled
  /\ past = Remembered([off |-> {}, trusted |-> {}, verified |-> {}, owners |-> {}],
                       d.box, d.whitelist, d.alias, d.target)

Init ==
  /\ \E d \in Databases : Boot(d)
  /\ outbound = [k \in Kinds |-> 0]
  /\ session = [s \in Sessions |-> Idle]
  /\ mta = [m \in Mail |-> [state |-> "queued", tries |-> 0, bounced |-> {}]]
  /\ fate = [m \in Mail |-> [i \in Slots |-> NoFate]]
  /\ edits = 0

\* The handlers from the end of DATA on: they wait for the DNS, the parser and
\* the relay, never for the sender.
Handle(s) ==
  \/ Accept(s) \/ Unknown(s) \/ Resolve(s)
  \/ Forward(s) \/ StoreParsed(s) \/ RelayTakes(s) \/ Forwarded(s) \/ ForwardFails(s)
  \/ ReplyRefused(s) \/ ReplyStart(s) \/ ReplyChecked(s) \/ Replied(s) \/ ReplyFails(s)

Dialogue(s) ==
  (\E m \in Mail : Offer(s, m)) \/ RcptTo(s) \/ Abandon(s) \/ Data(s)

Owner ==
  \/ \E a \in Aliases : \/ FlagAlias(a) \/ DeleteAlias(a) \/ ExpireAlias(a)
                        \/ \E md \in Modes, t \in TargetIds \cup {None} : PatchAlias(a, md, t)
  \/ \E t \in TargetIds : \/ VerifyTarget(t) \/ DeleteTarget(t)
                          \/ \E e \in Emails, v \in BOOLEAN : AddTarget(t, e, v)
  \/ \E b \in BoxIds : \/ DeleteMailbox(b)
                       \/ \E e \in Emails : SetRule(b, e)
                       \/ \E h \in Homes : NewMailbox(b, h)
  \/ Entitle

Next ==
  \/ \E s \in Sessions : Handle(s) \/ Dialogue(s)
  \/ Crash
  \/ Owner
  \/ \E k \in Kinds : EventAges(k)

Spec == Init /\ [][Next]_vars

\* Every await of a handler ends: the parser and the DNS library return, and
\* the SMTP client of the relay reports success or an error, if only a timeout.
FairSpec == Spec /\ \A s \in Sessions : WF_vars(Handle(s))
-----------------------------------------------------------------------------
SessionState ==
  [pc : {"idle", "rcpt", "next", "parsing", "relaying", "verifying", "replying"},
   mail : Mail \cup {None}, env : Seq(Slots), at : Nat \ {0}, offered : Nat,
   box : BoxIds \cup {None}, row : AliasRow \cup {None},
   to : Emails \cup {None}, out : BOOLEAN]

\* The tables hold rows of their schema, and the histories what they record.
TypeOK ==
  /\ box \in [BoxIds -> Homes \cup {None}]
  /\ whitelist \in [BoxIds -> SUBSET Emails]
  /\ alias \in [Aliases -> AliasRow \cup {None}]
  /\ target \in [TargetIds -> TargetRow \cup {None}]
  /\ reverse \subseteq Aliases \X Emails
  /\ entitled \in BOOLEAN
  /\ outbound \in [Kinds -> Nat]
  /\ session \in [Sessions -> SessionState]
  /\ mta \in [Mail -> [state : {"queued", "open", "accepted", "bounced"},
                       tries : Nat, bounced : SUBSET Slots]]
  /\ fate \in [Mail -> [Slots -> [stored : Nat, relayed : Nat, refused : BOOLEAN,
                                  homes : SUBSET Homes, to : SUBSET Emails]]]
  /\ past \in [off : SUBSET (Homes \cup Aliases), trusted : SUBSET Emails,
               verified : SUBSET Emails, owners : SUBSET (Aliases \X Emails)]
  /\ edits \in Nat

\* "Mail is never silently lost": once the server has answered 250 it owns every
\* recipient it accepted. Each has a copy in a mailbox or at a real inbox, or it
\* was dropped on purpose: a reply that was refused and audited, or an address
\* that stopped receiving (blocked, expired, deleted) at some time.
NoSilentLoss ==
  \A m \in Mail : mta[m].state = "accepted" =>
    \A i \in 1 .. Len(m.rcpts) \ mta[m].bounced :
      LET r == m.rcpts[i]
          f == fate[m][i]
      IN  \/ f.stored > 0 \/ f.relayed > 0
          \/ f.refused /\ (r.kind = "reverse" \/ r.addr \in past.off)

\* What leaves the server. A real inbox gets a forward only if the account once
\* proved to own it, from a sender the owner trusted, and never a DMARC failure
\* or a message that was already forwarded. A contact gets a reply only from
\* the authenticated owner of the alias, and only the contact the reverse alias
\* stands for.
OutboundOnlyAsAsked ==
  \A m \in Mail : \A i \in 1 .. Len(m.rcpts) :
    LET r == m.rcpts[i]
        f == fate[m][i]
    IN  f.relayed > 0 =>
          \/ /\ r.kind = "alias"
             /\ f.to \subseteq past.verified
             /\ m.from \in past.trusted
             /\ ~m.dmarcFail /\ ~m.looped
          \/ /\ r.kind = "reverse"
             /\ f.to = {r.contact}
             /\ m.authentic /\ <<r.addr, m.from>> \in past.owners

\* A recipient is served again only because its whole message was offered again:
\* however the awaits interleave, one attempt makes at most one copy of each kind.
CopiesOnlyByRetry ==
  \A m \in Mail : \A i \in Slots :
    fate[m][i].stored <= mta[m].tries /\ fate[m][i].relayed <= mta[m].tries

\* The hourly forward limit is read before the relay and the event is recorded
\* after it, so concurrent transactions can pass it together, but by no more
\* than one forward each.
ForwardsBounded == outbound["forward"] <= ForwardMax + Cardinality(Sessions) - 1

\* The reply limit is only checked at the end of DATA: a transaction that passed
\* it may still send one reply per recipient. (An alias that is switched off at
\* that moment and on again afterwards escapes the check, hence the premise.)
RepliesBounded ==
  past.off \cap Aliases = {} =>
    outbound["reply"] <= ReplyMax + Cardinality(Sessions) * MaxRcpts - 1

\* A reverse alias never outlives its alias, although a handler that read the
\* alias row before its awaits creates reverse aliases after them.
ReverseHasAlias == \A r \in reverse : alias[r[1]] # None

\* Once a message is in the handlers its transaction is answered: every await
\* and every error path leads to a 250 or a 451 (or the connection is lost).
EveryMessageAnswered ==
  \A s \in Sessions : session[s].pc \notin {"idle", "rcpt"} ~> session[s].pc = "idle"

\* The promise of a mail server, which the handlers implement: see Custody.
C == INSTANCE Custody WITH
  Parts <- [m \in Mail |-> 1 .. Len(m.rcpts)],
  holder <- [m \in Mail |-> mta[m].state],
  tries <- [m \in Mail |-> mta[m].tries],
  returned <- [m \in Mail |-> mta[m].bounced],
  copies <- [m \in Mail |-> [i \in 1 .. Len(m.rcpts) |->
               [k \in {"stored", "relayed"} |-> fate[m][i][k]]]],
  refused <- [m \in Mail |-> {i \in 1 .. Len(m.rcpts) : fate[m][i].refused}]

\* Whatever the interleaving of awaits, edits, relay errors and crashes, the
\* handlers of smtp.ts keep a message in its sender's custody until each of its
\* recipients is served, and never touch it after the 250.
ImplementsCustody == C!Spec

\* smtp.ts:75-76: "a 451 never leaves half the recipients delivered (the sender's
\* retry would duplicate them)". When a handler answers 451, no recipient of the
\* message has a copy.
RetryFindsNothingDelivered ==
  [][\A s \in Sessions :
       /\ Data(s) \/ StoreParsed(s) \/ Forwarded(s) \/ ForwardFails(s) \/ ReplyFails(s)
       /\ mta'[session[s].mail].state = "queued"
       => \A i \in Slots : /\ fate[session[s].mail][i].stored = 0
                           /\ fate[session[s].mail][i].relayed = 0]_vars

\* api.ts:1629 and the design's edge case "Target deleted mid-flight. The forward
\* finds no target and falls back to storing": a forward goes to the address the
\* alias pointed to, and to no other one.
ForwardsFollowTheAlias ==
  \A m \in Mail : \A i \in 1 .. Len(m.rcpts) :
    m.rcpts[i].kind = "alias" =>
      \A e \in fate[m][i].to : <<m.rcpts[i].addr, e>> \in past.owners
=============================================================================
