----------------------------- MODULE Connections -----------------------------
(***************************************************************************)
(* A mailbox connected to Gmail or Outlook: the OAuth callback that makes  *)
(* or renews the connection (routes/oauth-gmail.ts, oauth-outlook.ts), and *)
(* the poller that brings its mail in (connection-poller.ts). A tick reads *)
(* all connections, then polls them one by one with several awaits each;   *)
(* setInterval does not wait for the tick before, so ticks overlap. The    *)
(* model follows one mailbox; the others are why a tick may wait.          *)
(*                                                                         *)
(* The provider is external. Its messages are numbered as they arrive, and *)
(* a cursor is the number of the last one it stands for. A grant is what   *)
(* one consent of the owner gave; the owner may revoke it. The backoff     *)
(* after failures (an hour at most) is only why a tick may pass a          *)
(* connection by: it is not counted.                                       *)
(***************************************************************************)
EXTENDS Integers, FiniteSets, TLC

CONSTANTS
  Ticks,      \* ticks that may run at once
  Requests,   \* OAuth callbacks that may be under way at once
  None,       \* no row
  MaxMsgs,    \* bound: messages that arrive at the provider
  MaxGrants,  \* bound: consents the owner gives
  MaxCrashes  \* bound: restarts of the process

Msgs == 1 .. MaxMsgs
Grants == 1 .. MaxGrants

ASSUME ConnectionsConstantsOK ==
  /\ IsFiniteSet(Ticks) /\ IsFiniteSet(Requests)
  /\ {MaxMsgs, MaxGrants, MaxCrashes} \subseteq Nat
  /\ None \notin Nat

VARIABLES
  head,     \* provider: the newest message
  removed,  \* provider: messages deleted there, which its history still lists
  revoked,  \* provider: grants that are no longer valid
  granted,  \* provider: how many grants there are
  mailbox,  \* there is a mailboxes row for the address
  conn,     \* the connections row
  nextId,   \* connections.id is AUTOINCREMENT
  cb,       \* callbacks under way
  poll,     \* the polls of the ticks
  handed,   \* history: how often each message was handed to ingest
  seed,     \* history: the newest cursor a callback has stored
  stored,   \* history: the grant a callback stored last
  late,     \* history: the row was renewed, or made again, during a poll or a callback
  overlap,  \* history: two polls ran at once
  crashes   \* history: how many restarts there were

provider == <<head, removed, revoked, granted>>
history == <<handed, seed, stored, late, overlap, crashes>>
vars == <<provider, mailbox, conn, nextId, cb, poll, history>>

NoPoll == [pc |-> "idle", id |-> 0, cursor |-> 0, grant |-> 0, msgs |-> {}, next |-> 0]
NoCallback == [cursor |-> 0, grant |-> 0]
-----------------------------------------------------------------------------
(* The provider and its owner.                                             *)

Arrives ==
  /\ head < MaxMsgs
  /\ head' = head + 1
  /\ UNCHANGED <<removed, revoked, granted, mailbox, conn, nextId, cb, poll, history>>

Removes(m) ==
  /\ m <= head /\ removed = {}      \* bound: one message is removed
  /\ removed' = removed \cup {m}
  /\ UNCHANGED <<head, revoked, granted, mailbox, conn, nextId, cb, poll, history>>

Revokes(g) ==
  /\ g <= granted /\ g \notin revoked
  /\ revoked' = revoked \cup {g}
  /\ UNCHANGED <<head, removed, granted, mailbox, conn, nextId, cb, poll, history>>

-----------------------------------------------------------------------------
(* The OAuth callback.                                                     *)

\* exchangeCode and verifyIdentity: the tokens of a new grant, and the cursor
\* of the mailbox as it is now (for Outlook, after draining the first delta).
CallbackIdentity(r) ==
  /\ cb[r] = NoCallback /\ granted < MaxGrants
  /\ granted' = granted + 1
  /\ cb' = [cb EXCEPT ![r] = [cursor |-> head, grant |-> granted + 1]]
  /\ UNCHANGED <<head, removed, revoked, mailbox, conn, nextId, poll, history>>

Busy == (\E t \in Ticks : poll[t].pc # "idle") \/ Cardinality({r \in Requests : cb[r] # NoCallback}) > 1

\* Mutant of Upserted: a renewed row keeps its status.
UpsertedAsItWas(r) ==
  IF conn = None
  THEN [id |-> nextId, grant |-> cb[r].grant, cursor |-> cb[r].cursor, status |-> "active"]
  ELSE [conn EXCEPT !.grant = cb[r].grant, !.cursor = cb[r].cursor]

\* upsertConnection
Upserted(r) ==
  IF conn = None
  THEN [id |-> nextId, grant |-> cb[r].grant, cursor |-> cb[r].cursor, status |-> "active"]
  ELSE [conn EXCEPT !.grant = cb[r].grant, !.cursor = cb[r].cursor, !.status = "active"]

\* The transaction: find or make the mailbox, insert or renew the row.
CallbackCommits(r) ==
  /\ cb[r] # NoCallback
  /\ mailbox' = TRUE
  /\ conn' = Upserted(r)
  /\ nextId' = IF conn = None THEN nextId + 1 ELSE nextId
  /\ cb' = [cb EXCEPT ![r] = NoCallback]
  /\ seed' = IF cb[r].cursor > seed THEN cb[r].cursor ELSE seed
  /\ stored' = cb[r].grant
  /\ late' = IF Busy THEN TRUE ELSE late
  /\ UNCHANGED <<provider, poll, handed, overlap, crashes>>

\* DELETE /api/connections/:id; with the mailbox, the row goes by cascade.
Disconnect(withMailbox) ==
  /\ conn # None \/ withMailbox
  /\ mailbox
  /\ conn' = None
  /\ mailbox' = ~withMailbox
  /\ UNCHANGED <<provider, nextId, cb, poll, history>>
-----------------------------------------------------------------------------
(* tick                                                                    *)

\* An active connection whose backoff is over.
Due == conn # None /\ conn.status = "active"

\* The rows are read; what is due is decided from them. The others go first.
TickStarts(t) ==
  /\ poll[t].pc = "idle" /\ Due
  /\ poll' = [poll EXCEPT ![t] = [NoPoll EXCEPT !.pc = "due", !.id = conn.id, !.cursor = conn.cursor]]
  /\ overlap' = IF \E u \in Ticks : poll[u].pc # "idle" THEN TRUE ELSE overlap
  /\ UNCHANGED <<provider, mailbox, conn, nextId, cb, handed, seed, stored, late, crashes>>

\* The row of this poll, if it is still there: every write names its id.
Mine(t) == conn # None /\ conn.id = poll[t].id

\* getDecryptedTokens: the tokens of the row as it is now. Without a mailbox or
\* a row the poll is over.
TokensRead(t) ==
  /\ poll[t].pc = "due"
  /\ poll' = [poll EXCEPT ![t] = IF mailbox /\ Mine(t) THEN [@ EXCEPT !.pc = "fresh", !.grant = conn.grant]
                                 ELSE NoPoll]
  /\ UNCHANGED <<provider, mailbox, conn, nextId, cb, history>>

Valid(t) == poll[t].grant \notin revoked

\* ensureFresh finds enough life in the tokens, or the provider gives new ones
\* under the same grant and persistTokens writes them.
EnsureFresh(t, refreshed) ==
  /\ poll[t].pc = "fresh" /\ (refreshed => Valid(t))
  /\ conn' = IF refreshed /\ Mine(t) THEN [conn EXCEPT !.grant = poll[t].grant] ELSE conn
  /\ poll' = [poll EXCEPT ![t].pc = "fetch"]
  /\ UNCHANGED <<provider, mailbox, nextId, cb, history>>

Listed(t) == (poll[t].cursor + 1) .. head

\* fetchSince: the history from the cursor of the tick, then each message in it.
Fetches(t) ==
  /\ poll[t].pc = "fetch" /\ Valid(t)
  /\ Listed(t) \cap removed = {}
  /\ poll' = [poll EXCEPT ![t].pc = "ingest", ![t].msgs = Listed(t), ![t].next = head]
  /\ UNCHANGED <<provider, mailbox, conn, nextId, cb, history>>

\* A call fails in passing, or fetchSince does as a message it lists is gone:
\* recordPollFailure, and a later tick tries again from the same cursor.
PollFails(t) ==
  /\ poll[t].pc \in {"fresh", "fetch"}
  /\ poll' = [poll EXCEPT ![t] = NoPoll]
  /\ UNCHANGED <<provider, mailbox, conn, nextId, cb, history>>

\* isAuthError: the provider refuses the tokens.
Refused(t) ==
  /\ poll[t].pc \in {"fresh", "fetch"} /\ ~Valid(t)
  /\ conn' = IF Mine(t) THEN [conn EXCEPT !.status = "needs_reconnect"] ELSE conn
  /\ poll' = [poll EXCEPT ![t] = NoPoll]
  /\ UNCHANGED <<provider, mailbox, nextId, cb, history>>

\* The next message goes to ingest; an error of ingest is logged and passed over.
Ingests(t) ==
  /\ poll[t].pc = "ingest"
  /\ \E m \in poll[t].msgs :
       /\ \A n \in poll[t].msgs : m <= n
       /\ handed' = [handed EXCEPT ![m] = @ + 1]
       /\ poll' = [poll EXCEPT ![t].msgs = @ \ {m}]
  /\ UNCHANGED <<provider, mailbox, conn, nextId, cb, seed, stored, late, overlap, crashes>>

\* Mutants of Cursor: the provider's newest; that of the tick, unchanged.
CursorNow(t) == head
CursorKept(t) == poll[t].cursor

\* The nextCursor of fetchSince.
Cursor(t) == poll[t].next

\* recordPollSuccess
Records(t) ==
  /\ poll[t].pc = "ingest" /\ poll[t].msgs = {}
  /\ conn' = IF Mine(t) THEN [conn EXCEPT !.cursor = Cursor(t)] ELSE conn
  /\ poll' = [poll EXCEPT ![t] = NoPoll]
  /\ UNCHANGED <<provider, mailbox, nextId, cb, history>>

Restart ==
  /\ crashes < MaxCrashes
  /\ crashes' = crashes + 1
  /\ poll' = [t \in Ticks |-> NoPoll]
  /\ cb' = [r \in Requests |-> NoCallback]
  /\ UNCHANGED <<provider, mailbox, conn, nextId, handed, seed, stored, late, overlap>>
-----------------------------------------------------------------------------
Init ==
  /\ head = 0 /\ removed = {} /\ revoked = {} /\ granted = 0
  /\ mailbox = FALSE /\ conn = None /\ nextId = 1
  /\ cb = [r \in Requests |-> NoCallback] /\ poll = [t \in Ticks |-> NoPoll]
  /\ handed = [m \in Msgs |-> 0] /\ seed = 0 /\ stored = 0
  /\ late = FALSE /\ overlap = FALSE /\ crashes = 0

\* What the code does by itself once it can.
Step(t) == TokensRead(t) \/ EnsureFresh(t, FALSE) \/ EnsureFresh(t, TRUE) \/ Fetches(t) \/ PollFails(t)
           \/ Refused(t) \/ Ingests(t) \/ Records(t)

Next ==
  \/ Arrives \/ Restart
  \/ \E m \in Msgs : Removes(m)
  \/ \E g \in Grants : Revokes(g)
  \/ \E r \in Requests : CallbackIdentity(r) \/ CallbackCommits(r)
  \/ \E withMailbox \in BOOLEAN : Disconnect(withMailbox)
  \/ \E t \in Ticks : TickStarts(t) \/ Step(t)

Spec == Init /\ [][Next]_vars

\* setInterval starts a tick again and again, each backoff ends, the
\* provider answers, and not every call to it fails in passing.
FairSpec ==
  /\ Spec
  /\ WF_vars(\E t \in Ticks : TickStarts(t))
  /\ \A t \in Ticks : WF_vars(Step(t)) /\ SF_vars(EnsureFresh(t, FALSE)) /\ SF_vars(Fetches(t) \/ Refused(t))
-----------------------------------------------------------------------------
(* Properties.                                                             *)

ConnType == [id : Nat, grant : Grants, cursor : 0 .. MaxMsgs,
             status : {"active", "needs_reconnect"}]
PollType == [pc : {"idle", "due", "fresh", "fetch", "ingest"}, id : Nat, cursor : 0 .. MaxMsgs,
             grant : 0 .. MaxGrants, msgs : SUBSET Msgs, next : 0 .. MaxMsgs]

\* Type invariant: a row has a mailbox, and no poll is of a row to come.
TypeOK ==
  /\ head \in 0 .. MaxMsgs /\ removed \subseteq 1 .. head
  /\ granted \in 0 .. MaxGrants /\ revoked \subseteq 1 .. granted
  /\ mailbox \in BOOLEAN /\ conn \in ConnType \cup {None}
  /\ (conn # None => mailbox /\ conn.id < nextId /\ conn.cursor <= head)
  /\ poll \in [Ticks -> PollType] /\ \A t \in Ticks : poll[t].id < nextId
  /\ cb \in [Requests -> [cursor : 0 .. head, grant : 0 .. granted]]
  /\ handed \in [Msgs -> Nat] /\ seed \in 0 .. head /\ stored \in 0 .. granted
  /\ crashes \in 0 .. MaxCrashes

\* The cursor never stands for a message that was not handed to ingest, but for
\* those that were there when the owner connected: with overlapping ticks, a
\* reconnection during a poll and restarts, no mail is jumped over (tick).
NothingSkipped ==
  conn # None => \A m \in 1 .. conn.cursor : m <= seed \/ handed[m] > 0

\* While ticks do not overlap, a message comes in twice only when the process
\* stopped before the cursor was written, or the owner consented again.
IngestedOnce ==
  ~overlap => \A m \in Msgs : handed[m] <= crashes + granted

\* After the owner connects again, the row has the tokens of the new grant and
\* asks for another reconnection only when that grant is revoked, unless a poll
\* that began before is still at work (upsertConnection, persistTokens).
ReconnectHolds ==
  (conn # None /\ ~late) =>
    conn.grant = stored /\ (conn.status = "needs_reconnect" => stored \in revoked)

\* Mail that arrives at an active connection is handed to ingest, although calls
\* fail and the process restarts. (A message deleted at the provider that its
\* history still lists stops the connection for good.)
MailComesIn ==
  \A m \in Msgs :
    (conn # None /\ conn.cursor < m /\ m <= head)
    ~> \/ handed[m] > 0 \/ conn = None \/ conn.status # "active" \/ conn.cursor >= m
       \/ \E n \in removed : n > conn.cursor
=============================================================================
