------------------------------ MODULE MailStore ------------------------------
(***************************************************************************)
(* The messages of one mailbox: the rows and files that ingest.ts stores,  *)
(* the folders a message moves through (api.ts, routes/screener.ts, the    *)
(* digest link), the screener's mutes, and the sweeper that deletes        *)
(* quarantined mail when its time is up.                                   *)
(*                                                                         *)
(* Every handler here runs to its end without an await once it touches the *)
(* tables, so at most one is running and only a crash can stop it half way.*)
(* A step of a handler is one SQL statement outside a transaction, one     *)
(* transaction, or one file system call: what a crash leaves whole.        *)
(***************************************************************************)
EXTENDS Naturals, FiniteSets

CONSTANTS
  Ids,        \* message ids: nanoid makes a new one for each stored message
  Senders,    \* addresses that have sent something
  Rules,      \* whitelist rules
  None,       \* SQL NULL, and a row that does not exist
  From,       \* the sender of each message
  WithFiles,  \* the messages that have attachments
  Matches,    \* the senders a rule whitelists (matchWhitelist)
  Moves,      \* the senders whose mail moves when the rule is made by an allow
  AddressOf,  \* the rule for exactly one sender
  Ttl,        \* quarantine_ttl_hours of the mailbox
  Sla,        \* screener_sla_hours of the mailbox
  MuteTime,   \* the 30 days of a screener "No"
  MaxTime,    \* bound: the clock
  MaxCrashes  \* bound: crashes

Folders == {"inbox", "quarantine", "trash"}
Time == 0 .. MaxTime

Row == [folder : Folders, received : Time, expires : Nat \cup {None}]

ASSUME StoreConstantsOK ==
  /\ From \in [Ids -> Senders] /\ WithFiles \subseteq Ids
  /\ \A s \in Senders : \E m \in Ids : From[m] = s
  /\ Matches \in [Rules -> SUBSET Senders] /\ Moves \in [Rules -> SUBSET Senders]
  /\ \A r \in Rules : Moves[r] \subseteq Matches[r]
  /\ AddressOf \in [Senders -> Rules]
  /\ \A s \in Senders : Moves[AddressOf[s]] = {s} /\ Matches[AddressOf[s]] = {s}
  /\ {Ttl, Sla, MuteTime} \subseteq Nat \ {0} /\ {MaxTime, MaxCrashes} \subseteq Nat
  /\ None \notin Row \cup Nat

VARIABLES
  open,      \* the mailboxes row exists
  row,       \* messages: id -> row
  attRow,    \* attachments: the messages with rows
  fts,       \* messages_fts: how many entries each message has
  raw,       \* .eml files on disk
  attFile,   \* attachment files on disk
  rules,     \* whitelist_rules
  mute,      \* screener_mutes: sender -> expires_at
  used,      \* digest_tokens_used: the senders whose digest link was claimed
  parsing,   \* ingest calls that wait for the parser and the DNS
  job,       \* the handler that is running
  now,       \* the clock
  crashes,   \* how many crashes there were
  rescued,   \* history: messages that were ever put into the inbox
  deleted,   \* history: messages the owner deleted
  allowed,   \* history: senders allowed and not revoked since
  rejected,  \* history: when each sender was last rejected
  acted      \* history: the senders whose digest link did its work

tables == <<open, row, attRow, fts, rules, mute, used>>
files == <<raw, attFile>>
history == <<rescued, deleted, allowed, rejected, acted>>
vars == <<tables, files, parsing, job, now, crashes, history>>

Rows == {m \in Ids : row[m] # None}
In(folder) == {m \in Rows : row[m].folder = folder}
FromAny(ss) == {m \in Rows : From[m] \in ss}

\* matchWhitelist
Whitelisted(s) == \E r \in rules : s \in Matches[r]
-----------------------------------------------------------------------------
(* The running handler: what it still has to do.                           *)

Idle == [pc |-> "idle", msgs |-> {}, atts |-> {}, folder |-> "inbox"]
Running(pc, ms) == [Idle EXCEPT !.pc = pc, !.msgs = ms]
Free == job.pc = "idle"

\* Mutant of DropRows: without the trigger.
DropRowsIndexed(ms) ==
  /\ row' = [m \in Ids |-> IF m \in ms THEN None ELSE row[m]]
  /\ attRow' = attRow \ ms
  /\ UNCHANGED fts

\* The rows of ms leave the table: attachments rows and the search entries go
\* with them (ON DELETE CASCADE, the messages_fts_ad trigger).
DropRows(ms) ==
  /\ row' = [m \in Ids |-> IF m \in ms THEN None ELSE row[m]]
  /\ attRow' = attRow \ ms
  /\ fts' = [m \in Ids |-> IF m \in ms THEN 0 ELSE fts[m]]

\* Then the files: the .eml files of ms, and the attachments of atts.
Unlinking(ms, atts) ==
  job' = [Idle EXCEPT !.pc = "unlink", !.msgs = ms, !.atts = atts]

\* Mutant of SetFolder: expires_at is left alone by every move.
SetFolderOnly(ms, folder) ==
  [m \in Ids |-> IF m \in ms THEN [row[m] EXCEPT !.folder = folder] ELSE row[m]]

\* A message that leaves the quarantine does not expire any more. One that goes
\* there keeps the expires_at it has.
SetFolder(ms, folder) ==
  [m \in Ids |->
     IF m \notin ms THEN row[m]
     ELSE [row[m] EXCEPT !.folder = folder,
                         !.expires = IF folder = "quarantine" THEN @ ELSE None]]

\* History of a move.
Recorded(ms, folder) ==
  /\ rescued' = IF folder = "inbox" THEN rescued \cup ms ELSE rescued
  /\ allowed' = IF folder = "quarantine" THEN allowed \ {From[m] : m \in ms} ELSE allowed
-----------------------------------------------------------------------------
(* ingest.                                                                 *)

\* resolveRecipient found the mailbox; ingest awaits the parser and the DNS.
Arrive(m) ==
  /\ Free /\ open
  /\ m \notin parsing \cup Rows \cup raw \cup deleted
  /\ parsing' = parsing \cup {m}
  /\ UNCHANGED <<tables, files, job, now, crashes, history>>

\* It resumes: the whitelist decides the folder, and the .eml file is written.
Route(m) ==
  /\ Free /\ m \in parsing
  /\ parsing' = parsing \ {m}
  /\ raw' = raw \cup {m}
  /\ job' = [Running("attachments", {m}) EXCEPT
               !.folder = IF Whitelisted(From[m]) THEN "inbox" ELSE "quarantine"]
  /\ UNCHANGED <<tables, attFile, now, crashes, history>>

SaveAttachments(m) ==
  /\ job.pc = "attachments" /\ m \in job.msgs
  /\ attFile' = attFile \cup ({m} \cap WithFiles)
  /\ job' = [job EXCEPT !.pc = "insert"]
  /\ UNCHANGED <<tables, raw, parsing, now, crashes, history>>

\* Without the mailbox the foreign key fails, and ingest throws.
InsertMessage(m) ==
  /\ job.pc = "insert" /\ m \in job.msgs
  /\ \/ /\ open
        /\ row' = [row EXCEPT ![m] =
             [folder |-> job.folder, received |-> now,
              expires |-> IF job.folder = "quarantine" THEN now + Ttl ELSE None]]
        /\ job' = [job EXCEPT !.pc = "attachment rows"]
        /\ rescued' = IF job.folder = "inbox" THEN rescued \cup {m} ELSE rescued
     \/ ~open /\ job' = Idle /\ UNCHANGED <<row, rescued>>
  /\ UNCHANGED <<open, attRow, fts, rules, mute, used, files, parsing, now, crashes,
                 deleted, allowed, rejected, acted>>

InsertAttachments(m) ==
  /\ job.pc = "attachment rows" /\ m \in job.msgs
  /\ attRow' = attRow \cup ({m} \cap WithFiles)
  /\ job' = [job EXCEPT !.pc = "index"]
  /\ UNCHANGED <<open, row, fts, rules, mute, used, files, parsing, now, crashes, history>>

InsertFts(m) ==
  /\ job.pc = "index" /\ m \in job.msgs
  /\ fts' = [fts EXCEPT ![m] = @ + 1]
  /\ job' = Idle
  /\ UNCHANGED <<open, row, attRow, rules, mute, used, files, parsing, now, crashes, history>>
-----------------------------------------------------------------------------
(* Folders.                                                                *)

\* POST /api/messages/:id/move and the bulk moves. A move to the quarantine
\* leaves expires_at as it is.
Move(ms, folder) ==
  /\ Free /\ ms # {} /\ ms \subseteq Rows
  /\ row' = SetFolder(ms, folder)
  /\ Recorded(ms, folder)
  /\ UNCHANGED <<open, attRow, fts, rules, mute, used, files, parsing, job, now, crashes,
                 deleted, rejected, acted>>

\* POST /api/messages/:id/trust-sender: the rule, then the message.
TrustSender(m) ==
  /\ Free /\ m \in Rows
  /\ rules' = rules \cup {AddressOf[From[m]]}
  /\ job' = Running("trusted", {m})
  /\ UNCHANGED <<open, row, attRow, fts, mute, used, files, parsing, now, crashes, history>>

MoveTrusted ==
  /\ job.pc = "trusted"
  /\ row' = SetFolder(job.msgs, "inbox")
  /\ job' = Idle
  /\ Recorded(job.msgs, "inbox")
  /\ UNCHANGED <<open, attRow, fts, rules, mute, used, files, parsing, now, crashes,
                 deleted, rejected, acted>>

\* The bulk trust-sender: one transaction for the selected messages.
TrustSenders(ms) ==
  /\ Free /\ ms # {} /\ ms \subseteq Rows
  /\ rules' = rules \cup {AddressOf[From[m]] : m \in ms}
  /\ row' = SetFolder(ms, "inbox")
  /\ Recorded(ms, "inbox")
  /\ UNCHANGED <<open, attRow, fts, mute, used, files, parsing, job, now, crashes,
                 deleted, rejected, acted>>

\* POST and DELETE /api/whitelist: no message moves. A rule stands for all rows
\* with its pattern (POST checks for no duplicate, and DELETE takes one row).
AddRule(r) ==
  /\ Free /\ open
  /\ rules' = rules \cup {r}
  /\ UNCHANGED <<open, row, attRow, fts, mute, used, files, parsing, job, now, crashes, history>>

DeleteRule(r) ==
  /\ Free /\ r \in rules
  /\ rules' = rules \ {r}       \* the last of them
  /\ allowed' = allowed \ Matches[r]
  /\ UNCHANGED <<open, row, attRow, fts, mute, used, files, parsing, job, now, crashes,
                 rescued, deleted, rejected, acted>>

\* Mutant of Admit: the rule is made only when there is nothing to move.
AdmitMovesOnly(r) ==
  LET ms == In("quarantine") \cap FromAny(Moves[r])
  IN  /\ rules' = IF ms = {} THEN rules \cup {r} ELSE rules
      /\ row' = SetFolder(ms, "inbox")
      /\ rescued' = rescued \cup ms
      /\ allowed' = allowed \cup Moves[r]
      /\ UNCHANGED <<open, attRow, fts, mute, files, parsing, now, crashes, deleted, rejected>>

\* The transaction of POST /api/screener/allow, allow-domain and the digest link:
\* the rule, and the quarantined mail it is for.
Admit(r) ==
  LET ms == In("quarantine") \cap FromAny(Moves[r])
  IN  /\ rules' = rules \cup {r}
      /\ row' = SetFolder(ms, "inbox")
      /\ rescued' = rescued \cup ms
      /\ allowed' = allowed \cup Moves[r]
      /\ UNCHANGED <<open, attRow, fts, mute, files, parsing, now, crashes, deleted, rejected>>

Allow(r) ==
  /\ Free /\ open
  /\ Admit(r)
  /\ UNCHANGED <<used, job, acted>>

\* Mutant of Reject: INSERT OR IGNORE.
RejectOnce(s) ==
  /\ Free /\ open
  /\ row' = SetFolder(In("quarantine") \cap FromAny({s}), "trash")
  /\ mute' = [mute EXCEPT ![s] = IF @ = None THEN now + MuteTime ELSE @]
  /\ rejected' = [rejected EXCEPT ![s] = now]
  /\ UNCHANGED <<open, attRow, fts, rules, used, files, parsing, job, now, crashes,
                 rescued, deleted, allowed, acted>>

\* POST /api/screener/reject: the batch goes to the trash, the sender is muted.
Reject(s) ==
  /\ Free /\ open
  /\ row' = SetFolder(In("quarantine") \cap FromAny({s}), "trash")
  /\ mute' = [mute EXCEPT ![s] = now + MuteTime]
  /\ rejected' = [rejected EXCEPT ![s] = now]
  /\ UNCHANGED <<open, attRow, fts, rules, used, files, parsing, job, now, crashes,
                 rescued, deleted, allowed, acted>>

\* POST /public/digest/allow claims the link first, in a statement of its own...
Claim(s) ==
  /\ Free /\ open /\ s \notin used
  /\ used' = used \cup {s}
  /\ job' = Running("claimed", {m \in Ids : From[m] = s})
  /\ UNCHANGED <<open, row, attRow, fts, rules, mute, files, parsing, now, crashes, history>>

\* ...and then does what the link is for.
DigestAllow(s) ==
  /\ job.pc = "claimed" /\ job.msgs = {m \in Ids : From[m] = s}
  /\ Admit(AddressOf[s])
  /\ job' = Idle
  /\ acted' = acted \cup {s}
  /\ UNCHANGED used
-----------------------------------------------------------------------------
(* Deletions: first the rows, then the files.                              *)

\* DELETE /api/messages/:id
DeleteMessage(m) ==
  /\ Free /\ m \in Rows
  /\ DropRows({m})
  /\ Unlinking({m}, attRow \cap {m})
  /\ deleted' = deleted \cup {m}
  /\ UNCHANGED <<open, rules, mute, used, files, parsing, now, crashes,
                 rescued, allowed, rejected, acted>>

\* The bulk delete asks for the attachment paths when the rows are gone.
BulkDelete(ms) ==
  /\ Free /\ ms # {} /\ ms \subseteq Rows
  /\ DropRows(ms)
  /\ Unlinking(ms, attRow' \cap ms)
  /\ deleted' = deleted \cup ms
  /\ UNCHANGED <<open, rules, mute, used, files, parsing, now, crashes,
                 rescued, allowed, rejected, acted>>

\* POST /api/quarantine/:mailboxId/purge
Purge ==
  LET ms == In("quarantine")
  IN  /\ Free /\ ms # {}
      /\ DropRows(ms)
      /\ Unlinking(ms, attRow \cap ms)
      /\ deleted' = deleted \cup ms
      /\ UNCHANGED <<open, rules, mute, used, files, parsing, now, crashes,
                     rescued, allowed, rejected, acted>>

\* DELETE /api/mailboxes/:id
DeleteMailbox ==
  /\ Free /\ open
  /\ open' = FALSE
  /\ DropRows(Rows)
  /\ rules' = {}
  /\ mute' = [s \in Senders |-> None]
  /\ Unlinking(Rows, attRow)
  /\ deleted' = deleted \cup Rows
  /\ allowed' = {}
  /\ UNCHANGED <<used, files, parsing, now, crashes, rescued, rejected, acted>>

Expired == {m \in In("quarantine") : row[m].expires # None /\ row[m].expires < now}

\* Mutant of Sweep: the files first, the rows in a later step that never comes.
SweepFilesFirst ==
  /\ Free /\ Expired # {}
  /\ raw' = raw \ Expired
  /\ UNCHANGED <<tables, attFile, parsing, job, now, crashes, history>>

\* A tick of the sweeper.
Sweep ==
  /\ Free /\ Expired # {}
  /\ DropRows(Expired)
  /\ Unlinking(Expired, attRow \cap Expired)
  /\ UNCHANGED <<open, rules, mute, used, files, parsing, now, crashes, history>>

\* deleteRaw and deleteAttachmentFile, file after file.
UnlinkRaw(m) ==
  /\ job.pc = "unlink" /\ m \in job.msgs
  /\ raw' = raw \ {m}
  /\ job' = [job EXCEPT !.msgs = @ \ {m}]
  /\ UNCHANGED <<tables, attFile, parsing, now, crashes, history>>

UnlinkAttachments(m) ==
  /\ job.pc = "unlink" /\ job.msgs = {} /\ m \in job.atts
  /\ attFile' = attFile \ {m}
  /\ job' = [job EXCEPT !.atts = @ \ {m}]
  /\ UNCHANGED <<tables, raw, parsing, now, crashes, history>>

Unlinked ==
  /\ job.pc = "unlink" /\ job.msgs = {} /\ job.atts = {}
  /\ job' = Idle
  /\ UNCHANGED <<tables, files, parsing, now, crashes, history>>
-----------------------------------------------------------------------------
\* An hour passes; a handler takes none.
Tick ==
  /\ Free /\ now < MaxTime
  /\ now' = now + 1
  /\ UNCHANGED <<tables, files, parsing, job, crashes, history>>

\* Mutant of Backfilled: only a database without any entry is indexed.
BackfilledWhenEmpty(f) ==
  IF \A m \in Ids : f[m] = 0
  THEN [m \in Ids |-> IF m \in Rows THEN 1 ELSE 0] ELSE f

\* db.ts at start-up: when some message has no search entry, every message gets one.
Backfilled(f) ==
  IF \E m \in Rows : f[m] = 0
  THEN [m \in Ids |-> IF m \in Rows THEN f[m] + 1 ELSE f[m]] ELSE f

\* The process dies: the running handler stops where it is. Then it starts again.
Crash ==
  /\ crashes < MaxCrashes
  /\ job # Idle \/ parsing # {}
  /\ crashes' = crashes + 1
  /\ job' = Idle
  /\ parsing' = {}
  /\ fts' = Backfilled(fts)
  /\ UNCHANGED <<open, row, attRow, rules, mute, used, files, now, history>>

Init ==
  /\ open = TRUE
  /\ row = [m \in Ids |-> None] /\ fts = [m \in Ids |-> 0]
  /\ attRow = {} /\ raw = {} /\ attFile = {}
  /\ rules = {} /\ used = {}
  /\ mute = [s \in Senders |-> None]
  /\ parsing = {} /\ job = Idle
  /\ now = 0 /\ crashes = 0
  /\ rescued = {} /\ deleted = {} /\ allowed = {} /\ acted = {}
  /\ rejected = [s \in Senders |-> None]

\* The handler that is running, to its end.
Work ==
  \/ \E m \in Ids : \/ SaveAttachments(m) \/ InsertMessage(m)
                    \/ InsertAttachments(m) \/ InsertFts(m)
                    \/ UnlinkRaw(m) \/ UnlinkAttachments(m)
  \/ MoveTrusted \/ Unlinked
  \/ \E s \in Senders : DigestAllow(s)

Requests ==
  \/ \E m \in Ids : Arrive(m) \/ Route(m) \/ TrustSender(m) \/ DeleteMessage(m)
  \/ \E ms \in SUBSET Ids : \/ \E f \in Folders : Move(ms, f)
                            \/ TrustSenders(ms) \/ BulkDelete(ms)
  \/ \E r \in Rules : AddRule(r) \/ DeleteRule(r) \/ Allow(r)
  \/ \E s \in Senders : Reject(s) \/ Claim(s)
  \/ Purge \/ DeleteMailbox

Next == Work \/ Requests \/ Sweep \/ Tick \/ Crash

Spec == Init /\ [][Next]_vars

\* A synchronous handler runs to its end. The sweeper's timer fires again and
\* again, and some of its ticks find no handler running.
FairSpec == Spec /\ WF_vars(Work) /\ SF_vars(Sweep)
-----------------------------------------------------------------------------
TypeOK ==
  /\ open \in BOOLEAN
  /\ row \in [Ids -> Row \cup {None}] /\ fts \in [Ids -> Nat]
  /\ {attRow, raw, attFile, parsing, rescued, deleted} \subseteq SUBSET Ids
  /\ rules \subseteq Rules
  /\ mute \in [Senders -> Nat \cup {None}]
  /\ {used, allowed, acted} \subseteq SUBSET Senders
  /\ rejected \in [Senders -> Time \cup {None}]
  /\ job.pc \in {"idle", "attachments", "insert", "attachment rows", "index",
                 "trusted", "claimed", "unlink"}
  /\ job.msgs \subseteq Ids /\ job.atts \subseteq Ids /\ job.folder \in Folders
  /\ now \in Time /\ crashes \in 0 .. MaxCrashes

\* Whatever a crash interrupts, a row that can be listed has its .eml file, and an
\* attachments row has its file and its message: files are written before their
\* rows and deleted after them.
NoDanglingRows ==
  /\ Rows \subseteq raw
  /\ attRow \subseteq attFile \cap Rows
  /\ \A m \in Ids : fts[m] > 0 => m \in Rows

\* Unless there was a crash, or mail was in the parser when its mailbox was
\* deleted, no handler leaves anything half done: between two handlers every
\* message has its .eml file, its search entry and its attachments rows, and
\* no other message has any of them.
WholeMessages ==
  Free /\ crashes = 0 /\ open =>
    /\ raw = Rows
    /\ fts = [m \in Ids |-> IF m \in Rows THEN 1 ELSE 0]
    /\ attRow = Rows \cap WithFiles

\* Rows, search entries and files agree, as far as a crash allows (storage.ts,
\* sweeper.ts, the AFTER DELETE trigger of db.ts).
RowsMatchFiles == NoDanglingRows /\ WholeMessages

\* Search finds every message, also one whose ingest a crash cut short: between
\* two handlers no message is without an entry.
Searchable == Free => \A m \in Rows : fts[m] > 0

\* db.ts:487 "Idempotent - if the rows already exist, INSERT OR IGNORE skips them":
\* the start-up backfill gives no message a second search entry.
BackfillIdempotent == \A m \in Ids : fts[m] <= 1

\* What does hold of it: a start adds at most one entry to a message.
EntryPerStart == \A m \in Ids : fts[m] <= 1 + crashes

\* sweeper.ts:23 "Collect attachment paths before deleting (CASCADE will remove
\* the rows)": between two handlers no attachment file is left without its message.
NoOrphanAttachments ==
  Free /\ crashes = 0 /\ open => attFile \subseteq Rows

\* Mail the owner or a rule put into the inbox stays until the owner deletes it:
\* the sweeper never takes it, even when it goes back to the quarantine.
RescuedNeverSwept == rescued \subseteq Rows \cup deleted

\* After an allow, from the screener or from the digest, no mail of that sender is
\* in the quarantine, where it would expire: neither what was there, nor what was
\* in the parser at the time, nor what comes later. (Unless the owner moves some
\* back or deletes the rule.)
AllowedNotQuarantined == \A m \in In("quarantine") : From[m] \notin allowed

\* listScreenerMessages
Listed ==
  {m \in In("quarantine") :
     /\ row[m].received + Sla > now
     /\ mute[From[m]] = None \/ mute[From[m]] <= now
     /\ ~Whitelisted(From[m])}

\* A rejected sender does not come back to the screener before the mute time has
\* passed since the last rejection, however often it was rejected before.
RejectedStaysHidden ==
  \A m \in Listed : rejected[From[m]] # None => now >= rejected[From[m]] + MuteTime

\* A digest link is spent on what it says: once it was claimed and its handler is
\* over, its sender was allowed (design 8.2: "In one transaction").
ClaimedLinkActed ==
  Free => used \subseteq acted

\* What does hold of it: only a crash keeps a link that was claimed from its work.
LinkActsOrCrashed == crashes = 0 => ClaimedLinkActed

\* README: "Quarantined mail expires by TTL".
QuarantineExpires == \A m \in In("quarantine") : row[m].expires # None

\* Expired mail does leave the quarantine.
ExpiredIsSwept == \A m \in Ids : m \in Expired ~> m \notin Expired
=============================================================================
