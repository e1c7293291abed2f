---------------------------- MODULE Mail_proofs ----------------------------
(***************************************************************************)
(* Proofs about MailStore, for every number of messages, senders and       *)
(* rules, any rules' matches, any times, and any number of crashes; and    *)
(* about Webmail, for any messages and mailboxes and any order of calls,   *)
(* answers and events.                                                     *)
(*                                                                         *)
(* A handler of MailStore stops where a crash finds it, so an invariant of *)
(* the tables and files has to say how far the running handler has come:   *)
(* each part below is what an invariant of the specification needs to be   *)
(* true of job while the handler is at work.                               *)
(*                                                                         *)
(* The list of the web client is not true at every moment, so its          *)
(* invariant says what will make it true: an event on its way, a fetch     *)
(* that is not answered, or an answer at least as new as the one shown.    *)
(***************************************************************************)
EXTENDS MailStore, Webmail, FiniteSetTheorems, SequenceTheorems, TLAPS

Pcs == {"idle", "attachments", "insert", "attachment rows", "index", "trusted", "claimed", "unlink"}
Job == [pc : Pcs, msgs : SUBSET Ids, atts : SUBSET Ids, folder : Folders]

Typed ==
  /\ open \in BOOLEAN
  /\ row \in [Ids -> Row \cup {None}] /\ fts \in [Ids -> Nat]
  /\ attRow \in SUBSET Ids /\ raw \in SUBSET Ids /\ attFile \in SUBSET Ids
  /\ parsing \in SUBSET Ids /\ rescued \in SUBSET Ids /\ deleted \in SUBSET Ids
  /\ rules \in SUBSET Rules
  /\ mute \in [Senders -> Nat \cup {None}]
  /\ used \in SUBSET Senders /\ allowed \in SUBSET Senders /\ acted \in SUBSET Senders
  /\ rejected \in [Senders -> Time \cup {None}]
  /\ job \in Job
  /\ now \in Time /\ crashes \in 0 .. MaxCrashes

LEMMA Constants ==
  /\ From \in [Ids -> Senders] /\ WithFiles \subseteq Ids
  /\ Matches \in [Rules -> SUBSET Senders] /\ Moves \in [Rules -> SUBSET Senders]
  /\ \A r \in Rules : Moves[r] \subseteq Matches[r]
  /\ AddressOf \in [Senders -> Rules]
  /\ Ttl \in Nat /\ Sla \in Nat /\ MuteTime \in Nat /\ MaxTime \in Nat /\ MaxCrashes \in Nat
  /\ None \notin Row /\ None \notin Nat /\ Time \subseteq Nat
  BY StoreConstantsOK DEF Time

\* Who has a link has sent something.
LEMMA SendersSend == \A s \in Senders : \E m \in Ids : From[m] = s
  BY StoreConstantsOK

LEMMA RowOf ==
  ASSUME Typed
  PROVE  /\ \A m : m \in Rows <=> m \in Ids /\ row[m] # None
         /\ \A m \in Rows : row[m] \in Row
         /\ \A m, f : m \in In(f) <=> m \in Rows /\ row[m].folder = f
  BY DEF Typed, Rows, In

LEMMA IdleTyped ==
  /\ Idle \in Job /\ Idle.pc = "idle"
  /\ Idle = [pc |-> "idle", msgs |-> {}, atts |-> {}, folder |-> "inbox"]
  BY DEF Idle, Job, Pcs, Folders

\* A handler that has begun.
LEMMA RunningTyped ==
  ASSUME NEW pc \in Pcs, NEW ms \in SUBSET Ids
  PROVE  /\ Running(pc, ms) \in Job
         /\ Running(pc, ms).pc = pc /\ Running(pc, ms).msgs = ms
  BY DEF Running, Idle, Job, Folders

\* What a move makes of the rows.
LEMMA SetFolderRows ==
  ASSUME Typed, NEW ms, ms \subseteq Rows, NEW f \in Folders
  PROVE  /\ SetFolder(ms, f) \in [Ids -> Row \cup {None}]
         /\ \A m \in Ids : m \notin ms => SetFolder(ms, f)[m] = row[m]
         /\ \A m \in ms : /\ SetFolder(ms, f)[m] # None
                          /\ SetFolder(ms, f)[m].folder = f
                          /\ SetFolder(ms, f)[m].expires = IF f = "quarantine" THEN row[m].expires ELSE None
<1>1. ASSUME NEW m \in ms
      PROVE  /\ m \in Ids
             /\ SetFolder(ms, f)[m] = [row[m] EXCEPT !.folder = f, !.expires = IF f = "quarantine" THEN @ ELSE None]
  BY <1>1, RowOf DEF SetFolder
<1>2. ASSUME NEW m \in ms
      PROVE  /\ SetFolder(ms, f)[m] \in Row
             /\ SetFolder(ms, f)[m].folder = f
             /\ SetFolder(ms, f)[m].expires = IF f = "quarantine" THEN row[m].expires ELSE None
  <2>1. row[m] \in Row
    BY <1>2, RowOf
  <2> QED BY <1>1, <1>2, <2>1 DEF Row
<1>3. \A m \in Ids : m \notin ms => SetFolder(ms, f)[m] = row[m]
  BY DEF SetFolder
<1>4. \A m \in Ids : SetFolder(ms, f)[m] \in Row \cup {None}
  BY <1>2, <1>3 DEF Typed
<1>5. SetFolder(ms, f) \in [Ids -> Row \cup {None}]
  BY <1>4 DEF SetFolder
<1> QED BY <1>2, <1>3, <1>5, Constants

\* What a deletion makes of the rows.
LEMMA DropRowsTyped ==
  ASSUME Typed, NEW ms, DropRows(ms)
  PROVE  /\ row' \in [Ids -> Row \cup {None}] /\ fts' \in [Ids -> Nat] /\ attRow' = attRow \ ms
         /\ \A m \in Ids : row'[m] = IF m \in ms THEN None ELSE row[m]
         /\ \A m \in Ids : fts'[m] = IF m \in ms THEN 0 ELSE fts[m]
<1>1. /\ \A m \in Ids : row'[m] = IF m \in ms THEN None ELSE row[m]
      /\ \A m \in Ids : fts'[m] = IF m \in ms THEN 0 ELSE fts[m]
      /\ attRow' = attRow \ ms
  BY DEF DropRows
<1>2. row' \in [Ids -> Row \cup {None}]
  BY <1>1 DEF DropRows, Typed
<1>3. fts' \in [Ids -> Nat]
  BY <1>1 DEF DropRows, Typed
<1> QED BY <1>1, <1>2, <1>3

-----------------------------------------------------------------------------
(* Types.                                                                  *)

\* A step that puts mail into another folder, and changes no other row.
LEMMA MoveTyped ==
  ASSUME Typed, NEW ms, ms \subseteq Rows, NEW f \in Folders, row' = SetFolder(ms, f)
  PROVE  row' \in [Ids -> Row \cup {None}] /\ Rows' = Rows
<1>1. SetFolder(ms, f) \in [Ids -> Row \cup {None}]
  BY SetFolderRows
<1>2. \A m \in Ids : m \notin ms => SetFolder(ms, f)[m] = row[m]
  BY SetFolderRows
<1>3. \A m \in ms : SetFolder(ms, f)[m] # None
  BY SetFolderRows
<1>4. ASSUME NEW m \in Ids PROVE row'[m] # None <=> row[m] # None
  <2>1. CASE m \in ms
    BY <1>3, <2>1, RowOf
  <2>2. CASE m \notin ms
    BY <1>2, <2>2
  <2> QED BY <2>1, <2>2
<1> QED BY <1>1, <1>4 DEF Rows

LEMMA RecordedTyped ==
  ASSUME Typed, NEW ms \in SUBSET Ids, NEW f, Recorded(ms, f)
  PROVE  rescued' \in SUBSET Ids /\ allowed' \in SUBSET Senders
<1>1. CASE f = "inbox"
  BY <1>1 DEF Recorded, Typed
<1>2. CASE f = "quarantine"
  BY <1>2 DEF Recorded, Typed
<1>3. CASE f \notin {"inbox", "quarantine"}
  BY <1>3 DEF Recorded, Typed
<1> QED BY <1>1, <1>2, <1>3

LEMMA AdmitTyped ==
  ASSUME Typed, NEW r \in Rules, Admit(r)
  PROVE  /\ row' \in [Ids -> Row \cup {None}] /\ Rows' = Rows /\ rules' \in SUBSET Rules
         /\ rescued' \in SUBSET Ids /\ allowed' \in SUBSET Senders
<1> DEFINE ms == In("quarantine") \cap FromAny(Moves[r])
<1>1. ms \subseteq Rows /\ ms \in SUBSET Ids /\ row' = SetFolder(ms, "inbox")
  BY DEF Admit, In, Rows
<1>2. rules' = rules \cup {r} /\ rescued' = rescued \cup ms /\ allowed' = allowed \cup Moves[r]
  BY DEF Admit
<1> HIDE DEF ms
<1>3. row' \in [Ids -> Row \cup {None}] /\ Rows' = Rows
  BY <1>1, MoveTyped DEF Folders
<1> QED BY <1>1, <1>2, <1>3, Constants DEF Typed

LEMMA UnlinkingTyped ==
  ASSUME NEW ms \in SUBSET Ids, NEW atts \in SUBSET Ids, Unlinking(ms, atts)
  PROVE  job' \in Job /\ job'.pc = "unlink" /\ job'.msgs = ms /\ job'.atts = atts
<1>1. job' = [pc |-> "unlink", msgs |-> ms, atts |-> atts, folder |-> "inbox"]
  BY DEF Unlinking, Idle
<1> QED BY <1>1 DEF Job, Pcs, Folders

\* A handler that goes on: what of job stays as it was.
LEMMA JobMoves ==
  ASSUME job \in Job, NEW pc \in Pcs, job' = [job EXCEPT !.pc = pc]
  PROVE  /\ job' \in Job /\ job'.pc = pc /\ job'.msgs = job.msgs
         /\ job'.atts = job.atts /\ job'.folder = job.folder
  BY DEF Job

LEMMA TypedInit ==
  ASSUME Init
  PROVE  Typed
<1>1. 0 \in Time /\ 0 \in 0 .. MaxCrashes
  BY Constants DEF Time
<1> QED BY <1>1, IdleTyped DEF Init, Typed

LEMMA TypedWork ==
  ASSUME Typed, Work, job.pc = "trusted" => job.msgs \subseteq Rows
  PROVE  Typed'
<1>0. job \in Job /\ now \in Time /\ now \in Nat
  BY Constants DEF Typed
<1>1. ASSUME NEW m \in Ids, SaveAttachments(m) PROVE Typed'
  <2>1. job' \in Job
    BY <1>0, <1>1, JobMoves DEF SaveAttachments, Pcs
  <2> QED BY <1>1, <2>1, Constants DEF SaveAttachments, Typed, tables, history
<1>2. ASSUME NEW m \in Ids, InsertMessage(m) PROVE Typed'
  <2>1. CASE open /\ job' = [job EXCEPT !.pc = "attachment rows"]
    <3> DEFINE new == [folder |-> job.folder, received |-> now,
                       expires |-> IF job.folder = "quarantine" THEN now + Ttl ELSE None]
    <3>1. job' \in Job
      BY <1>0, <2>1, JobMoves DEF Pcs
    <3>2. new \in Row
      BY <1>0, Constants DEF Job, Row
    <3>3. row' = [row EXCEPT ![m] = new] /\ rescued' \in SUBSET Ids
      BY <1>2, <2>1 DEF InsertMessage, Typed
    <3> HIDE DEF new
    <3>4. row' \in [Ids -> Row \cup {None}]
      BY <3>2, <3>3 DEF Typed
    <3> QED BY <1>2, <3>1, <3>3, <3>4 DEF InsertMessage, Typed, files
  <2>2. CASE ~open
    BY <1>2, <2>2, IdleTyped DEF InsertMessage, Typed, files
  <2> QED BY <1>2, <2>1, <2>2 DEF InsertMessage
<1>3. ASSUME NEW m \in Ids, InsertAttachments(m) PROVE Typed'
  <2>1. job' \in Job
    BY <1>0, <1>3, JobMoves DEF InsertAttachments, Pcs
  <2> QED BY <1>3, <2>1 DEF InsertAttachments, Typed, files, history
<1>4. ASSUME NEW m \in Ids, InsertFts(m) PROVE Typed'
  BY <1>4, IdleTyped DEF InsertFts, Typed, files, history
<1>5. ASSUME NEW m \in Ids, UnlinkRaw(m) PROVE Typed'
  <2>1. job' \in Job
    BY <1>0, <1>5 DEF UnlinkRaw, Job
  <2> QED BY <1>5, <2>1 DEF UnlinkRaw, Typed, tables, history
<1>6. ASSUME NEW m \in Ids, UnlinkAttachments(m) PROVE Typed'
  <2>1. job' \in Job
    BY <1>0, <1>6 DEF UnlinkAttachments, Job
  <2> QED BY <1>6, <2>1 DEF UnlinkAttachments, Typed, tables, history
<1>7. ASSUME MoveTrusted PROVE Typed'
  <2>1. row' \in [Ids -> Row \cup {None}] /\ job.msgs \in SUBSET Ids
    BY <1>0, <1>7, MoveTyped DEF MoveTrusted, Folders, Job
  <2>2. rescued' \in SUBSET Ids /\ allowed' \in SUBSET Senders
    BY <1>7, <2>1, RecordedTyped DEF MoveTrusted
  <2> QED BY <1>7, <2>1, <2>2, IdleTyped DEF MoveTrusted, Typed, files
<1>8. CASE Unlinked
  BY <1>8, IdleTyped DEF Unlinked, Typed, tables, files, history
<1>9. ASSUME NEW s \in Senders, DigestAllow(s) PROVE Typed'
  <2>1. AddressOf[s] \in Rules /\ Admit(AddressOf[s])
    BY <1>9, Constants DEF DigestAllow
  <2>2. /\ row' \in [Ids -> Row \cup {None}] /\ rules' \in SUBSET Rules
        /\ rescued' \in SUBSET Ids /\ allowed' \in SUBSET Senders
    BY <2>1, AdmitTyped
  <2> QED BY <1>9, <2>1, <2>2, IdleTyped DEF DigestAllow, Admit, Typed, files
<1> QED BY <1>1, <1>2, <1>3, <1>4, <1>5, <1>6, <1>7, <1>8, <1>9 DEF Work

LEMMA TypedRequests ==
  ASSUME Typed, Requests
  PROVE  Typed'
<1>1. ASSUME NEW m \in Ids, Arrive(m) PROVE Typed'
  BY <1>1 DEF Arrive, Typed, tables, files, history
<1>2. ASSUME NEW m \in Ids, Route(m) PROVE Typed'
  <2>1. job' \in Job
    BY <1>2 DEF Route, Running, Idle, Job, Pcs, Folders
  <2> QED BY <1>2, <2>1 DEF Route, Typed, tables, history
<1>3. ASSUME NEW m \in Ids, TrustSender(m) PROVE Typed'
  <2>1. AddressOf[From[m]] \in Rules
    BY Constants
  <2>2. "trusted" \in Pcs /\ {m} \in SUBSET Ids /\ job' = Running("trusted", {m})
    BY <1>3 DEF TrustSender, Pcs
  <2>3. job' \in Job
    BY <2>2, RunningTyped
  <2> QED BY <1>3, <2>1, <2>3 DEF TrustSender, Typed, files, history
<1>4. ASSUME NEW ms \in SUBSET Ids, NEW f \in Folders, Move(ms, f) PROVE Typed'
  <2>1. /\ row' \in [Ids -> Row \cup {None}]
        /\ rescued' \in SUBSET Ids /\ allowed' \in SUBSET Senders
    BY <1>4, MoveTyped, RecordedTyped DEF Move
  <2> QED BY <1>4, <2>1 DEF Move, Typed, files
<1>5. ASSUME NEW ms \in SUBSET Ids, TrustSenders(ms) PROVE Typed'
  <2>1. /\ row' \in [Ids -> Row \cup {None}]
        /\ rescued' \in SUBSET Ids /\ allowed' \in SUBSET Senders
    BY <1>5, MoveTyped, RecordedTyped DEF TrustSenders, Folders
  <2>2. rules' \in SUBSET Rules
    BY <1>5, Constants DEF TrustSenders, Typed
  <2> QED BY <1>5, <2>1, <2>2 DEF TrustSenders, Typed, files
<1>6. ASSUME NEW r \in Rules, AddRule(r) \/ DeleteRule(r) PROVE Typed'
  BY <1>6 DEF AddRule, DeleteRule, Typed, files, history
<1>7. ASSUME NEW r \in Rules, Allow(r) PROVE Typed'
  <2>1. /\ row' \in [Ids -> Row \cup {None}] /\ rules' \in SUBSET Rules
        /\ rescued' \in SUBSET Ids /\ allowed' \in SUBSET Senders
    BY <1>7, AdmitTyped DEF Allow
  <2> QED BY <1>7, <2>1 DEF Allow, Admit, Typed, files
<1>8. ASSUME NEW s \in Senders, Reject(s) PROVE Typed'
  <2> DEFINE ms == In("quarantine") \cap FromAny({s})
  <2>1. ms \subseteq Rows /\ row' = SetFolder(ms, "trash")
    BY <1>8 DEF Reject, In
  <2> HIDE DEF ms
  <2>2. row' \in [Ids -> Row \cup {None}]
    BY <2>1, MoveTyped DEF Folders
  <2>3. mute' \in [Senders -> Nat \cup {None}]
    BY <1>8, Constants DEF Reject, Typed
  <2> QED BY <1>8, <2>2, <2>3 DEF Reject, Typed, files
<1>9. ASSUME NEW s \in Senders, Claim(s) PROVE Typed'
  <2>1. job' \in Job
    BY <1>9, RunningTyped DEF Claim, Pcs
  <2> QED BY <1>9, <2>1 DEF Claim, Typed, files, history
<1>10. ASSUME NEW ms \in SUBSET Ids, NEW atts \in SUBSET Ids, DropRows(ms), Unlinking(ms, atts)
       PROVE  /\ row' \in [Ids -> Row \cup {None}] /\ fts' \in [Ids -> Nat] /\ attRow' \in SUBSET Ids
              /\ job' \in Job
  BY <1>10, DropRowsTyped, UnlinkingTyped DEF Typed
<1>11. ASSUME NEW m \in Ids, DeleteMessage(m) PROVE Typed'
  <2>1. {m} \in SUBSET Ids /\ attRow \cap {m} \in SUBSET Ids
    OBVIOUS
  <2> QED BY <1>10, <1>11, <2>1 DEF DeleteMessage, Typed, files
<1>12. ASSUME NEW ms \in SUBSET Ids, BulkDelete(ms) PROVE Typed'
  <2>1. attRow' \cap ms \in SUBSET Ids
    OBVIOUS
  <2> QED BY <1>10, <1>12, <2>1 DEF BulkDelete, Typed, files
<1>13. In("quarantine") \in SUBSET Ids /\ Rows \in SUBSET Ids
  BY DEF In, Rows
<1>14. CASE Purge
  BY <1>10, <1>13, <1>14 DEF Purge, Typed, files
<1>15. CASE DeleteMailbox
  <2>1. attRow \in SUBSET Ids /\ mute' \in [Senders -> Nat \cup {None}]
    BY <1>15 DEF Typed, DeleteMailbox
  <2> QED BY <1>10, <1>13, <1>15, <2>1 DEF DeleteMailbox, Typed, files
<1> QED BY <1>1, <1>2, <1>3, <1>4, <1>5, <1>6, <1>7, <1>8, <1>9, <1>11, <1>12, <1>14, <1>15 DEF Requests

LEMMA BackfilledTyped ==
  ASSUME Typed
  PROVE  /\ Backfilled(fts) \in [Ids -> Nat]
         /\ \A m \in Rows : Backfilled(fts)[m] > 0
         /\ \A m \in Ids : m \notin Rows => Backfilled(fts)[m] = fts[m]
<1>1. \A m \in Ids : fts[m] \in Nat /\ fts[m] + 1 \in Nat /\ fts[m] + 1 > 0 /\ (fts[m] # 0 => fts[m] > 0)
  BY DEF Typed
<1>2. Rows \subseteq Ids
  BY DEF Rows
<1>3. CASE \E m \in Rows : fts[m] = 0
  BY <1>1, <1>2, <1>3 DEF Backfilled
<1>4. CASE ~\E m \in Rows : fts[m] = 0
  BY <1>1, <1>2, <1>4 DEF Backfilled, Typed
<1> QED BY <1>3, <1>4

LEMMA TypedOthers ==
  ASSUME Typed, Sweep \/ Tick \/ Crash
  PROVE  Typed'
<1>1. CASE Sweep
  <2>1. Expired \in SUBSET Ids /\ attRow \cap Expired \in SUBSET Ids
    BY DEF Expired, In, Rows
  <2> QED BY <1>1, <2>1, DropRowsTyped, UnlinkingTyped DEF Sweep, Typed, files, history
<1>2. CASE Tick
  <2>1. now' \in Time
    BY <1>2, Constants DEF Tick, Typed, Time
  <2> QED BY <1>2, <2>1 DEF Tick, Typed, tables, files, history
<1>3. CASE Crash
  <2>1. crashes' \in 0 .. MaxCrashes
    BY <1>3, Constants DEF Crash, Typed
  <2> QED BY <1>3, <2>1, BackfilledTyped, IdleTyped DEF Crash, Typed, files, history
<1> QED BY <1>1, <1>2, <1>3
-----------------------------------------------------------------------------
(* How far the running handler has come.                                   *)

Storing == job.pc \in {"attachments", "insert", "attachment rows", "index"}

Shape ==
  /\ \A m \in parsing : m \notin raw /\ m \notin deleted
  /\ Storing => job.msgs \subseteq raw /\ \A k, m \in job.msgs : k = m
  /\ job.pc \in {"attachments", "insert"} => \A m \in job.msgs : m \notin Rows /\ m \notin deleted
  /\ job.pc \in {"insert", "attachment rows"} => job.msgs \cap WithFiles \subseteq attFile
  /\ job.pc \in {"attachment rows", "index", "trusted"} => job.msgs \subseteq Rows
  /\ job.pc = "unlink" => job.msgs \cap Rows = {} /\ job.atts \cap attRow = {}
  /\ ~open => Rows = {}

Inv == Typed /\ Shape /\ NoDanglingRows

LEMMA TypedStep ==
  ASSUME Typed, Shape, [Next]_vars
  PROVE  Typed'
<1>1. CASE UNCHANGED vars
  BY <1>1 DEF Typed, vars, tables, files, history
<1> QED BY <1>1, TypedWork, TypedRequests, TypedOthers DEF Next, Shape

\* A step that only moves mail, or changes what none of the parts above is about.
LEMMA InvMoves ==
  ASSUME Inv, Rows' = Rows, parsing' = parsing, deleted' = deleted, open' = open,
         UNCHANGED <<attRow, fts, files>>, job' = job \/ job'.pc \in {"idle", "claimed"}
  PROVE  (Shape /\ NoDanglingRows)'
<1>1. NoDanglingRows'
  BY DEF Inv, NoDanglingRows, files
<1>2. Shape'
  BY DEF Inv, Shape, Storing, files
<1> QED BY <1>1, <1>2

\* A step that deletes the rows of ms.
LEMMA InvDrops ==
  ASSUME Inv, NEW ms \in SUBSET Ids, NEW atts \in SUBSET Ids, ms \subseteq Rows, DropRows(ms),
         Unlinking(ms, atts), atts \cap attRow \subseteq ms, UNCHANGED <<files, parsing>>,
         deleted' \in {deleted, deleted \cup ms}, open' = open \/ ms = Rows
  PROVE  (Shape /\ NoDanglingRows)'
<1>1. /\ attRow' = attRow \ ms
      /\ \A m \in Ids : row'[m] = IF m \in ms THEN None ELSE row[m]
      /\ \A m \in Ids : fts'[m] = IF m \in ms THEN 0 ELSE fts[m]
      /\ job'.pc = "unlink" /\ job'.msgs = ms /\ job'.atts = atts
  BY DropRowsTyped, UnlinkingTyped DEF Inv
<1>2. Rows' = Rows \ ms
  BY <1>1 DEF Rows
<1>3. NoDanglingRows'
  BY <1>1, <1>2 DEF Inv, NoDanglingRows, files
<1>4. Shape'
  <2>1. \A m \in parsing : m \notin Rows
    BY DEF Inv, Shape, NoDanglingRows
  <2> QED BY <1>1, <1>2, <2>1 DEF Inv, Shape, Storing, files
<1> QED BY <1>3, <1>4

LEMMA InvWork ==
  ASSUME Inv, Work
  PROVE  (Shape /\ NoDanglingRows)'
<1>0. Typed /\ Shape /\ NoDanglingRows /\ job \in Job
  BY DEF Inv, Typed
<1>1. ASSUME NEW m \in Ids, SaveAttachments(m) PROVE (Shape /\ NoDanglingRows)'
  <2>1. /\ job'.pc = "insert" /\ job'.msgs = job.msgs /\ job'.atts = job.atts
        /\ job.pc = "attachments" /\ attFile' = attFile \cup ({m} \cap WithFiles)
    BY <1>0, <1>1, JobMoves DEF SaveAttachments, Pcs
  <2>2. Rows' = Rows
    BY <1>1 DEF SaveAttachments, tables, Rows
  <2>3. job.msgs = {m}
    BY <1>0, <1>1, <2>1 DEF SaveAttachments, Shape, Storing
  <2>4. Shape'
    BY <1>0, <1>1, <2>1, <2>2, <2>3 DEF SaveAttachments, Shape, Storing, tables, history
  <2> QED BY <1>0, <1>1, <2>1, <2>2, <2>4 DEF SaveAttachments, NoDanglingRows, tables
<1>2. ASSUME NEW m \in Ids, InsertMessage(m), open PROVE (Shape /\ NoDanglingRows)'
  <2>1. /\ job'.pc = "attachment rows" /\ job'.msgs = job.msgs /\ job.pc = "insert"
    BY <1>0, <1>2, JobMoves DEF InsertMessage, Pcs
  <2>2. job.msgs = {m} /\ m \in raw /\ (job.msgs \cap WithFiles) \subseteq attFile
    BY <1>0, <1>2, <2>1 DEF InsertMessage, Shape, Storing
  <2>3. row'[m] # None /\ \A k \in Ids : k # m => row'[k] = row[k]
    <3> DEFINE new == [folder |-> job.folder, received |-> now,
                       expires |-> IF job.folder = "quarantine" THEN now + Ttl ELSE None]
    <3>1. new \in Row
      BY <1>0, Constants DEF Job, Row, Typed
    <3>2. row' = [row EXCEPT ![m] = new]
      BY <1>2 DEF InsertMessage
    <3> HIDE DEF new
    <3> QED BY <1>0, <3>1, <3>2, Constants DEF Typed
  <2>4. Rows' = Rows \cup {m}
    BY <2>3 DEF Rows
  <2>5. UNCHANGED <<open, attRow, fts, files, parsing, deleted>>
    BY <1>2 DEF InsertMessage
  <2>6. Shape'
    BY <1>0, <1>2, <2>1, <2>2, <2>4, <2>5 DEF Shape, Storing, files
  <2> QED BY <1>0, <2>2, <2>4, <2>5, <2>6 DEF NoDanglingRows, files
<1>3. ASSUME NEW m \in Ids, InsertMessage(m), ~open PROVE (Shape /\ NoDanglingRows)'
  <2>1. Rows' = Rows /\ job' = Idle
    BY <1>3 DEF InsertMessage, Rows
  <2> QED BY <1>3, <2>1, InvMoves, IdleTyped DEF InsertMessage
<1>4. ASSUME NEW m \in Ids, InsertAttachments(m) PROVE (Shape /\ NoDanglingRows)'
  <2>1. /\ job'.pc = "index" /\ job'.msgs = job.msgs /\ job'.atts = job.atts
        /\ job.pc = "attachment rows" /\ attRow' = attRow \cup ({m} \cap WithFiles)
    BY <1>0, <1>4, JobMoves DEF InsertAttachments, Pcs
  <2>2. Rows' = Rows
    BY <1>4 DEF InsertAttachments, Rows
  <2>3. m \in Rows /\ {m} \cap WithFiles \subseteq attFile
    BY <1>0, <1>4, <2>1 DEF InsertAttachments, Shape
  <2>4. UNCHANGED <<open, fts, files, parsing, deleted>>
    BY <1>4 DEF InsertAttachments, history
  <2>5. Shape'
    BY <1>0, <2>1, <2>2, <2>4 DEF Shape, Storing, files
  <2> QED BY <1>0, <2>1, <2>2, <2>3, <2>4, <2>5 DEF NoDanglingRows, files
<1>5. ASSUME NEW m \in Ids, InsertFts(m) PROVE (Shape /\ NoDanglingRows)'
  <2>1. Rows' = Rows /\ job'.pc = "idle" /\ m \in Rows
    BY <1>0, <1>5, IdleTyped DEF InsertFts, Rows, Shape
  <2>2. \A k \in Ids : k # m => fts'[k] = fts[k]
    BY <1>0, <1>5 DEF InsertFts, Typed
  <2>3. UNCHANGED <<open, attRow, files, parsing, deleted>>
    BY <1>5 DEF InsertFts, history
  <2>4. Shape'
    BY <1>0, <2>1, <2>3 DEF Shape, Storing, files
  <2> QED BY <1>0, <2>1, <2>2, <2>3, <2>4 DEF NoDanglingRows, files
<1>6. ASSUME NEW m \in Ids, UnlinkRaw(m) PROVE (Shape /\ NoDanglingRows)'
  <2>1. /\ job'.pc = "unlink" /\ job'.msgs = job.msgs \ {m} /\ job'.atts = job.atts
        /\ raw' = raw \ {m} /\ m \notin Rows
    BY <1>0, <1>6 DEF UnlinkRaw, Job, Shape
  <2>2. Rows' = Rows /\ UNCHANGED <<open, attRow, fts, attFile, parsing, deleted>>
    BY <1>6 DEF UnlinkRaw, tables, history, Rows
  <2>3. Shape'
    BY <1>0, <1>6, <2>1, <2>2 DEF UnlinkRaw, Shape, Storing
  <2> QED BY <1>0, <2>1, <2>2, <2>3 DEF NoDanglingRows
<1>7. ASSUME NEW m \in Ids, UnlinkAttachments(m) PROVE (Shape /\ NoDanglingRows)'
  <2>1. /\ job'.pc = "unlink" /\ job'.msgs = job.msgs /\ job'.atts = job.atts \ {m}
        /\ attFile' = attFile \ {m} /\ m \notin attRow /\ job.pc = "unlink"
    BY <1>0, <1>7 DEF UnlinkAttachments, Job, Shape
  <2>2. Rows' = Rows /\ UNCHANGED <<open, attRow, fts, raw, parsing, deleted>>
    BY <1>7 DEF UnlinkAttachments, tables, history, Rows
  <2>3. Shape'
    BY <1>0, <2>1, <2>2 DEF Shape, Storing
  <2> QED BY <1>0, <2>1, <2>2, <2>3 DEF NoDanglingRows
<1>8. CASE MoveTrusted
  <2>1. Rows' = Rows
    BY <1>0, <1>8, MoveTyped DEF MoveTrusted, Folders, Shape
  <2> QED BY <1>8, <2>1, InvMoves, IdleTyped DEF MoveTrusted
<1>9. CASE Unlinked
  <2>1. Rows' = Rows
    BY <1>9 DEF Unlinked, tables, Rows
  <2> QED BY <1>9, <2>1, InvMoves, IdleTyped DEF Unlinked, tables, history
<1>10. ASSUME NEW s \in Senders, DigestAllow(s) PROVE (Shape /\ NoDanglingRows)'
  <2>1. AddressOf[s] \in Rules /\ Admit(AddressOf[s])
    BY <1>10, Constants DEF DigestAllow
  <2>2. Rows' = Rows
    BY <1>0, <2>1, AdmitTyped
  <2> QED BY <1>10, <2>1, <2>2, InvMoves, IdleTyped DEF DigestAllow, Admit
<1> QED BY <1>1, <1>2, <1>3, <1>4, <1>5, <1>6, <1>7, <1>8, <1>9, <1>10 DEF Work

LEMMA InvRequests ==
  ASSUME Inv, Requests
  PROVE  (Shape /\ NoDanglingRows)'
<1>0. Typed /\ Shape /\ NoDanglingRows
  BY DEF Inv
<1>1. ASSUME NEW m \in Ids, Arrive(m) PROVE (Shape /\ NoDanglingRows)'
  <2>1. Rows' = Rows
    BY <1>1 DEF Arrive, tables, Rows
  <2> QED BY <1>0, <1>1, <2>1 DEF Arrive, Shape, Storing, NoDanglingRows, tables, files, history, Free
<1>2. ASSUME NEW m \in Ids, Route(m) PROVE (Shape /\ NoDanglingRows)'
  <2>1. Rows' = Rows
    BY <1>2 DEF Route, tables, Rows
  <2>2. job'.pc = "attachments" /\ job'.msgs = {m}
    BY <1>2 DEF Route, Running, Idle
  <2>3. UNCHANGED <<open, attRow, fts, attFile, deleted>> /\ raw' = raw \cup {m} /\ parsing' = parsing \ {m} /\ m \in parsing
    BY <1>2 DEF Route, tables, history
  <2>4. m \notin Rows /\ m \notin deleted
    BY <1>0, <2>3 DEF Shape, NoDanglingRows
  <2>5. Shape'
    BY <1>0, <2>1, <2>2, <2>3, <2>4 DEF Shape, Storing
  <2> QED BY <1>0, <2>1, <2>3, <2>5 DEF NoDanglingRows
<1>3. ASSUME NEW m \in Ids, TrustSender(m) PROVE (Shape /\ NoDanglingRows)'
  <2>1. Rows' = Rows
    BY <1>3 DEF TrustSender, Rows
  <2>2. job'.pc = "trusted" /\ job'.msgs = {m}
    <3>1. "trusted" \in Pcs /\ {m} \in SUBSET Ids /\ job' = Running("trusted", {m})
      BY <1>3 DEF TrustSender, Pcs
    <3> QED BY <3>1, RunningTyped
  <2> QED BY <1>0, <1>3, <2>1, <2>2 DEF TrustSender, Shape, Storing, NoDanglingRows, files, history
<1>4. ASSUME NEW ms \in SUBSET Ids, NEW f \in Folders, Move(ms, f) PROVE (Shape /\ NoDanglingRows)'
  BY <1>0, <1>4, MoveTyped, InvMoves DEF Move
<1>5. ASSUME NEW ms \in SUBSET Ids, TrustSenders(ms) PROVE (Shape /\ NoDanglingRows)'
  BY <1>0, <1>5, MoveTyped, InvMoves DEF TrustSenders, Folders
<1>6. ASSUME NEW r \in Rules, AddRule(r) \/ DeleteRule(r) PROVE (Shape /\ NoDanglingRows)'
  <2>1. Rows' = Rows
    BY <1>6 DEF AddRule, DeleteRule, Rows
  <2> QED BY <1>6, <2>1, InvMoves DEF AddRule, DeleteRule, history
<1>7. ASSUME NEW r \in Rules, Allow(r) PROVE (Shape /\ NoDanglingRows)'
  <2>1. Rows' = Rows
    BY <1>0, <1>7, AdmitTyped DEF Allow
  <2> QED BY <1>7, <2>1, InvMoves DEF Allow, Admit
<1>8. ASSUME NEW s \in Senders, Reject(s) PROVE (Shape /\ NoDanglingRows)'
  <2> DEFINE ms == In("quarantine") \cap FromAny({s})
  <2>1. ms \subseteq Rows /\ row' = SetFolder(ms, "trash")
    BY <1>8 DEF Reject, In
  <2> HIDE DEF ms
  <2>2. Rows' = Rows
    BY <1>0, <2>1, MoveTyped DEF Folders
  <2> QED BY <1>8, <2>2, InvMoves DEF Reject
<1>9. ASSUME NEW s \in Senders, Claim(s) PROVE (Shape /\ NoDanglingRows)'
  <2>1. Rows' = Rows
    BY <1>9 DEF Claim, Rows
  <2>2. job'.pc = "claimed"
    BY <1>9, RunningTyped DEF Claim, Pcs
  <2> QED BY <1>9, <2>1, <2>2, InvMoves DEF Claim, history
<1>10. ASSUME NEW m \in Ids, DeleteMessage(m) PROVE (Shape /\ NoDanglingRows)'
  <2>1. {m} \in SUBSET Ids /\ attRow \cap {m} \in SUBSET Ids
    OBVIOUS
  <2> QED BY <1>10, <2>1, InvDrops DEF DeleteMessage, files
<1>11. ASSUME NEW ms \in SUBSET Ids, BulkDelete(ms) PROVE (Shape /\ NoDanglingRows)'
  <2>1. attRow' \cap ms \in SUBSET Ids /\ (attRow' \cap ms) \cap attRow \subseteq ms
    OBVIOUS
  <2> QED BY <1>11, <2>1, InvDrops DEF BulkDelete, files
<1>12. In("quarantine") \in SUBSET Ids /\ In("quarantine") \subseteq Rows /\ Rows \in SUBSET Ids
  BY DEF In, Rows
<1>13. CASE Purge
  <2>1. attRow \cap In("quarantine") \in SUBSET Ids
    BY <1>12
  <2> QED BY <1>12, <1>13, <2>1, InvDrops DEF Purge, files
<1>14. CASE DeleteMailbox
  <2>1. attRow \in SUBSET Ids /\ attRow \cap attRow \subseteq Rows
    BY <1>0 DEF Typed, NoDanglingRows
  <2> QED BY <1>12, <1>14, <2>1, InvDrops DEF DeleteMailbox, files
<1> QED BY <1>1, <1>2, <1>3, <1>4, <1>5, <1>6, <1>7, <1>8, <1>9, <1>10, <1>11, <1>13, <1>14 DEF Requests

LEMMA InvOthers ==
  ASSUME Inv, Sweep \/ Tick \/ Crash
  PROVE  (Shape /\ NoDanglingRows)'
<1>0. Typed /\ Shape /\ NoDanglingRows
  BY DEF Inv
<1>1. CASE Sweep
  <2>1. Expired \in SUBSET Ids /\ Expired \subseteq Rows /\ attRow \cap Expired \in SUBSET Ids
    BY DEF Expired, In, Rows
  <2> QED BY <1>1, <2>1, InvDrops DEF Sweep, files, history
<1>2. CASE Tick
  <2>1. Rows' = Rows
    BY <1>2 DEF Tick, tables, Rows
  <2> QED BY <1>2, <2>1, InvMoves DEF Tick, tables, history
<1>3. CASE Crash
  <2>1. Rows' = Rows /\ job'.pc = "idle" /\ parsing' = {}
    BY <1>3, IdleTyped DEF Crash, Rows
  <2>2. fts' = Backfilled(fts) /\ UNCHANGED <<open, attRow, files>>
    BY <1>3 DEF Crash
  <2>3. \A m \in Ids : m \notin Rows => fts'[m] = fts[m]
    BY <1>0, <2>2, BackfilledTyped
  <2> QED BY <1>0, <2>1, <2>2, <2>3 DEF Shape, Storing, NoDanglingRows, files
<1> QED BY <1>1, <1>2, <1>3

LEMMA InvInit ==
  ASSUME Init
  PROVE  Inv
<1>1. Typed /\ Rows = {} /\ job.pc = "idle"
  BY TypedInit, IdleTyped DEF Init, Rows
<1> QED BY <1>1 DEF Inv, Init, Shape, Storing, NoDanglingRows

LEMMA InvStep ==
  ASSUME Inv, [Next]_vars
  PROVE  Inv'
<1>1. Typed'
  BY TypedStep DEF Inv
<1>2. CASE UNCHANGED vars
  <2>1. Rows' = Rows
    BY <1>2 DEF vars, tables, Rows
  <2> QED BY <1>1, <1>2, <2>1, InvMoves DEF Inv, vars, tables, history
<1> QED BY <1>1, <1>2, InvWork, InvRequests, InvOthers DEF Next, Inv

LEMMA InvAlways == Spec => []Inv
  BY InvInit, InvStep, PTL DEF Spec

\* Every reachable state of the store is well typed, and so is the running handler.
THEOREM StoreTyped == Spec => []TypeOK
<1>1. Inv => TypeOK
  BY DEF Inv, Typed, TypeOK, Job, Pcs
<1> QED BY <1>1, InvAlways, PTL
-----------------------------------------------------------------------------
(* Rows, search entries and files.                                         *)

\* Which messages a running handler has left with a file and no row, without a
\* search entry, or without their attachments rows.
Whole ==
  crashes = 0 /\ open =>
    /\ raw = Rows \cup IF job.pc \in {"attachments", "insert", "unlink"} THEN job.msgs ELSE {}
    /\ \A m \in Rows : fts[m] = IF job.pc \in {"attachment rows", "index"} /\ m \in job.msgs THEN 0 ELSE 1
    /\ attRow = (Rows \cap WithFiles) \ IF job.pc = "attachment rows" THEN job.msgs ELSE {}

\* A step that only moves mail.
LEMMA WholeMoves ==
  ASSUME Inv, Whole, Rows' = Rows, UNCHANGED <<attRow, fts, raw, crashes>>, open' => open,
         job.pc \notin {"attachments", "insert", "attachment rows", "index", "unlink"},
         job'.pc \notin {"attachments", "insert", "attachment rows", "index", "unlink"}
  PROVE  Whole'
  BY DEF Whole

LEMMA WholeDrops ==
  ASSUME Inv, Whole, NEW ms \in SUBSET Ids, NEW atts \in SUBSET Ids, ms \subseteq Rows, DropRows(ms),
         Unlinking(ms, atts), UNCHANGED <<files, crashes>>, Free, open' => open
  PROVE  Whole'
<1>1. /\ attRow' = attRow \ ms
      /\ \A m \in Ids : row'[m] = IF m \in ms THEN None ELSE row[m]
      /\ \A m \in Ids : fts'[m] = IF m \in ms THEN 0 ELSE fts[m]
      /\ job'.pc = "unlink" /\ job'.msgs = ms
  BY DropRowsTyped, UnlinkingTyped DEF Inv
<1>2. Rows' = Rows \ ms /\ Rows \subseteq Ids
  BY <1>1 DEF Rows
<1>3. SUFFICES ASSUME crashes = 0, open
               PROVE  /\ raw' = Rows' \cup ms
                      /\ \A m \in Rows' : fts'[m] = 1
                      /\ attRow' = Rows' \cap WithFiles
  BY <1>1 DEF Whole
<1>4. raw = Rows /\ (\A m \in Rows : fts[m] = 1) /\ attRow = Rows \cap WithFiles
  BY <1>3 DEF Whole, Free
<1> QED BY <1>1, <1>2, <1>4 DEF files

LEMMA WholeWork ==
  ASSUME Inv, Whole, Work
  PROVE  Whole'
<1>0. Typed /\ Shape /\ NoDanglingRows /\ job \in Job
  BY DEF Inv, Typed
<1>1. ASSUME NEW m \in Ids, SaveAttachments(m) PROVE Whole'
  <2>1. job'.pc = "insert" /\ job'.msgs = job.msgs /\ job.pc = "attachments"
    BY <1>0, <1>1, JobMoves DEF SaveAttachments, Pcs
  <2> QED BY <1>1, <2>1 DEF SaveAttachments, tables, Whole, Rows
<1>2. ASSUME NEW m \in Ids, InsertMessage(m), open PROVE Whole'
  <2>1. /\ job'.pc = "attachment rows" /\ job'.msgs = job.msgs /\ job.pc = "insert"
    BY <1>0, <1>2, JobMoves DEF InsertMessage, Pcs
  <2>2. job.msgs = {m} /\ m \notin Rows
    BY <1>0, <1>2, <2>1 DEF InsertMessage, Shape, Storing
  <2>3. Rows' = Rows \cup {m}
    <3> DEFINE new == [folder |-> job.folder, received |-> now,
                       expires |-> IF job.folder = "quarantine" THEN now + Ttl ELSE None]
    <3>1. new \in Row
      BY <1>0, Constants DEF Job, Row, Typed
    <3>2. row' = [row EXCEPT ![m] = new]
      BY <1>2 DEF InsertMessage
    <3> HIDE DEF new
    <3>3. row'[m] # None /\ \A k \in Ids : k # m => row'[k] = row[k]
      BY <1>0, <3>1, <3>2, Constants DEF Typed
    <3> QED BY <3>3 DEF Rows
  <2>4. fts[m] = 0 /\ m \notin attRow
    <3>1. fts[m] \in Nat /\ ~(fts[m] > 0)
      BY <1>0, <2>2 DEF Typed, NoDanglingRows
    <3> QED BY <1>0, <2>2, <3>1 DEF NoDanglingRows
  <2>5. UNCHANGED <<open, attRow, fts, raw, crashes>>
    BY <1>2 DEF InsertMessage, files
  <2> QED BY <2>1, <2>2, <2>3, <2>4, <2>5 DEF Whole
<1>3. ASSUME NEW m \in Ids, InsertMessage(m), ~open PROVE Whole'
  BY <1>3 DEF InsertMessage, Whole
<1>4. ASSUME NEW m \in Ids, InsertAttachments(m) PROVE Whole'
  <2>1. /\ job'.pc = "index" /\ job'.msgs = job.msgs
        /\ job.pc = "attachment rows" /\ attRow' = attRow \cup ({m} \cap WithFiles)
    BY <1>0, <1>4, JobMoves DEF InsertAttachments, Pcs
  <2>2. Rows' = Rows /\ UNCHANGED <<open, fts, raw, crashes>>
    BY <1>4 DEF InsertAttachments, Rows, files
  <2>3. job.msgs = {m} /\ m \in Rows
    BY <1>0, <1>4, <2>1 DEF InsertAttachments, Shape, Storing
  <2> QED BY <2>1, <2>2, <2>3 DEF Whole
<1>5. ASSUME NEW m \in Ids, InsertFts(m) PROVE Whole'
  <2>1. job'.pc = "idle" /\ job.pc = "index"
    BY <1>5, IdleTyped DEF InsertFts
  <2>2. Rows' = Rows /\ UNCHANGED <<open, attRow, raw, crashes>>
    BY <1>5 DEF InsertFts, Rows, files
  <2>3. job.msgs = {m} /\ m \in Rows
    BY <1>0, <1>5, <2>1 DEF InsertFts, Shape, Storing
  <2>4. fts'[m] = fts[m] + 1 /\ \A k \in Ids : k # m => fts'[k] = fts[k]
    BY <1>0, <1>5 DEF InsertFts, Typed
  <2> QED BY <2>1, <2>2, <2>3, <2>4 DEF Whole, Rows
<1>6. ASSUME NEW m \in Ids, UnlinkRaw(m) PROVE Whole'
  <2>1. /\ job'.pc = "unlink" /\ job'.msgs = job.msgs \ {m} /\ job.pc = "unlink"
        /\ raw' = raw \ {m} /\ m \notin Rows
    BY <1>0, <1>6 DEF UnlinkRaw, Job, Shape
  <2>2. Rows' = Rows /\ UNCHANGED <<open, attRow, fts, crashes>>
    BY <1>6 DEF UnlinkRaw, tables, Rows
  <2> QED BY <2>1, <2>2 DEF Whole
<1>7. ASSUME NEW m \in Ids, UnlinkAttachments(m) PROVE Whole'
  <2>1. job'.pc = "unlink" /\ job'.msgs = job.msgs /\ job.pc = "unlink"
    BY <1>0, <1>7 DEF UnlinkAttachments, Job
  <2> QED BY <1>7, <2>1 DEF UnlinkAttachments, tables, Whole, Rows
<1>8. CASE MoveTrusted
  <2>1. Rows' = Rows
    BY <1>0, <1>8, MoveTyped DEF MoveTrusted, Folders, Shape
  <2> QED BY <1>8, <2>1, WholeMoves, IdleTyped DEF MoveTrusted, files
<1>9. CASE Unlinked
  <2>1. Rows' = Rows /\ job.pc = "unlink" /\ job.msgs = {} /\ job'.pc = "idle"
    BY <1>9, IdleTyped DEF Unlinked, tables, Rows
  <2> QED BY <1>9, <2>1 DEF Unlinked, tables, files, Whole
<1>10. ASSUME NEW s \in Senders, DigestAllow(s) PROVE Whole'
  <2>1. AddressOf[s] \in Rules /\ Admit(AddressOf[s])
    BY <1>10, Constants DEF DigestAllow
  <2>2. Rows' = Rows
    BY <1>0, <2>1, AdmitTyped
  <2> QED BY <1>10, <2>1, <2>2, WholeMoves, IdleTyped DEF DigestAllow, Admit, files
<1> QED BY <1>1, <1>2, <1>3, <1>4, <1>5, <1>6, <1>7, <1>8, <1>9, <1>10 DEF Work

LEMMA WholeRequests ==
  ASSUME Inv, Whole, Requests
  PROVE  Whole'
<1>0. Typed /\ Shape /\ NoDanglingRows
  BY DEF Inv
<1>1. ASSUME NEW m \in Ids, Arrive(m) PROVE Whole'
  BY <1>1 DEF Arrive, tables, files, Whole, Rows
<1>2. ASSUME NEW m \in Ids, Route(m) PROVE Whole'
  <2>1. job'.pc = "attachments" /\ job'.msgs = {m} /\ job.pc = "idle"
    BY <1>2 DEF Route, Running, Idle, Free
  <2>2. Rows' = Rows /\ UNCHANGED <<open, attRow, fts, crashes>> /\ raw' = raw \cup {m}
    BY <1>2 DEF Route, tables, Rows
  <2> QED BY <2>1, <2>2 DEF Whole
<1>3. ASSUME NEW m \in Ids, TrustSender(m) PROVE Whole'
  <2>1. Rows' = Rows
    BY <1>3 DEF TrustSender, Rows
  <2>2. job'.pc = "trusted"
    <3>1. "trusted" \in Pcs /\ {m} \in SUBSET Ids /\ job' = Running("trusted", {m})
      BY <1>3 DEF TrustSender, Pcs
    <3> QED BY <3>1, RunningTyped
  <2> QED BY <1>3, <2>1, <2>2, WholeMoves DEF TrustSender, files, Free
<1>4. ASSUME NEW ms \in SUBSET Ids, NEW f \in Folders, Move(ms, f) PROVE Whole'
  BY <1>0, <1>4, MoveTyped, WholeMoves DEF Move, files, Free
<1>5. ASSUME NEW ms \in SUBSET Ids, TrustSenders(ms) PROVE Whole'
  BY <1>0, <1>5, MoveTyped, WholeMoves DEF TrustSenders, Folders, files, Free
<1>6. ASSUME NEW r \in Rules, AddRule(r) \/ DeleteRule(r) PROVE Whole'
  <2>1. Rows' = Rows
    BY <1>6 DEF AddRule, DeleteRule, Rows
  <2>2. Free /\ UNCHANGED <<open, attRow, fts, raw, crashes, job>>
    BY <1>6 DEF AddRule, DeleteRule, files
  <2> QED BY <2>1, <2>2, WholeMoves DEF Free
<1>7. ASSUME NEW r \in Rules, Allow(r) PROVE Whole'
  <2>1. Rows' = Rows
    BY <1>0, <1>7, AdmitTyped DEF Allow
  <2> QED BY <1>7, <2>1, WholeMoves DEF Allow, Admit, files, Free
<1>8. ASSUME NEW s \in Senders, Reject(s) PROVE Whole'
  <2> DEFINE ms == In("quarantine") \cap FromAny({s})
  <2>1. ms \subseteq Rows /\ row' = SetFolder(ms, "trash")
    BY <1>8 DEF Reject, In
  <2> HIDE DEF ms
  <2>2. Rows' = Rows
    BY <1>0, <2>1, MoveTyped DEF Folders
  <2> QED BY <1>8, <2>2, WholeMoves DEF Reject, files, Free
<1>9. ASSUME NEW s \in Senders, Claim(s) PROVE Whole'
  <2>1. Rows' = Rows
    BY <1>9 DEF Claim, Rows
  <2>2. job'.pc = "claimed"
    BY <1>9, RunningTyped DEF Claim, Pcs
  <2> QED BY <1>9, <2>1, <2>2, WholeMoves DEF Claim, files, Free
<1>10. ASSUME NEW m \in Ids, DeleteMessage(m) PROVE Whole'
  <2>1. {m} \in SUBSET Ids /\ attRow \cap {m} \in SUBSET Ids
    OBVIOUS
  <2> QED BY <1>10, <2>1, WholeDrops DEF DeleteMessage
<1>11. ASSUME NEW ms \in SUBSET Ids, BulkDelete(ms) PROVE Whole'
  <2>1. attRow' \cap ms \in SUBSET Ids
    OBVIOUS
  <2> QED BY <1>11, <2>1, WholeDrops DEF BulkDelete
<1>12. In("quarantine") \in SUBSET Ids /\ In("quarantine") \subseteq Rows /\ Rows \in SUBSET Ids
  BY DEF In, Rows
<1>13. CASE Purge
  <2>1. attRow \cap In("quarantine") \in SUBSET Ids
    BY <1>12
  <2> QED BY <1>12, <1>13, <2>1, WholeDrops DEF Purge
<1>14. CASE DeleteMailbox
  BY <1>14 DEF DeleteMailbox, Whole
<1> QED BY <1>1, <1>2, <1>3, <1>4, <1>5, <1>6, <1>7, <1>8, <1>9, <1>10, <1>11, <1>13, <1>14 DEF Requests

LEMMA WholeOthers ==
  ASSUME Inv, Whole, Sweep \/ Tick \/ Crash
  PROVE  Whole'
<1>1. CASE Sweep
  <2>1. Expired \in SUBSET Ids /\ Expired \subseteq Rows /\ attRow \cap Expired \in SUBSET Ids
    BY DEF Expired, In, Rows
  <2> QED BY <1>1, <2>1, WholeDrops DEF Sweep
<1>2. CASE Tick
  BY <1>2 DEF Tick, tables, files, Whole, Rows
<1>3. CASE Crash
  <2>1. crashes' # 0
    BY <1>3, Constants DEF Crash, Inv, Typed
  <2> QED BY <2>1 DEF Whole
<1> QED BY <1>1, <1>2, <1>3

LEMMA WholeFree ==
  ASSUME Inv, Whole
  PROVE  WholeMessages
<1>1. SUFFICES ASSUME Free, crashes = 0, open
               PROVE  /\ raw = Rows /\ attRow = Rows \cap WithFiles
                      /\ fts = [m \in Ids |-> IF m \in Rows THEN 1 ELSE 0]
  BY DEF WholeMessages
<1>2. raw = Rows /\ attRow = Rows \cap WithFiles /\ \A m \in Rows : fts[m] = 1
  BY <1>1 DEF Whole, Free
<1>3. \A m \in Ids : m \notin Rows => fts[m] = 0
  BY DEF Inv, Typed, NoDanglingRows
<1> QED BY <1>2, <1>3 DEF Inv, Typed

\* Whatever order the handlers come in and wherever crashes stop them, no row is
\* without its file and no attachments row or search entry without its row; and
\* without a crash no handler leaves anything half done (storage.ts, ingest.ts,
\* sweeper.ts, the deletions of api.ts).
THEOREM RowsAndFilesAgree == Spec => []RowsMatchFiles
<1>1. Init => Inv /\ Whole
  BY InvInit, IdleTyped DEF Init, Whole, Rows
<1>2. ASSUME Inv, Whole, [Next]_vars PROVE Whole'
  <2>1. CASE UNCHANGED vars
    BY <1>2, <2>1 DEF vars, tables, files, Whole, Rows
  <2> QED BY <1>2, <2>1, WholeWork, WholeRequests, WholeOthers DEF Next
<1>3. Inv /\ Whole => RowsMatchFiles
  BY WholeFree DEF RowsMatchFiles, Inv
<1> QED BY <1>1, <1>2, <1>3, InvStep, PTL DEF Spec
-----------------------------------------------------------------------------
(* Every step keeps all mail where it is, moves some, deletes some, or     *)
(* stores a message.                                                       *)

KeepsMail == UNCHANGED <<row, rescued, deleted>> /\ allowed' \subseteq allowed

MovesMail(ms, f) ==
  /\ ms \subseteq Rows /\ f \in Folders
  /\ row' = SetFolder(ms, f)
  /\ deleted' = deleted /\ rescued' = IF f = "inbox" THEN rescued \cup ms ELSE rescued
  /\ \/ f # "quarantine" /\ allowed' = allowed
     \/ f = "quarantine" /\ allowed' = allowed \ {From[m] : m \in ms}
     \/ \E r \in Rules : /\ f = "inbox" /\ ms = In("quarantine") \cap FromAny(Moves[r])
                         /\ allowed' = allowed \cup Moves[r]

DropsMail(ms) ==
  /\ ms \subseteq Rows
  /\ DropRows(ms)
  /\ rescued' = rescued /\ allowed' \subseteq allowed
  /\ deleted' = deleted \cup ms \/ (deleted' = deleted /\ ms = Expired)

StoresMail(m) == m \in Ids /\ InsertMessage(m) /\ open

MailStep ==
  \/ KeepsMail
  \/ \E ms, f : MovesMail(ms, f)
  \/ \E ms : DropsMail(ms)
  \/ \E m : StoresMail(m)

LEMMA MovedRows ==
  ASSUME Typed, NEW ms, NEW f, MovesMail(ms, f)
  PROVE  /\ \A m \in Ids : m \notin ms => row'[m] = row[m]
         /\ \A m \in ms : row'[m].folder = f
         /\ \A m \in ms : row'[m].expires = IF f = "quarantine" THEN row[m].expires ELSE None
<1>1. ms \subseteq Rows /\ f \in Folders
  BY DEF MovesMail
<1>2. \A m \in Ids : m \notin ms => SetFolder(ms, f)[m] = row[m]
  BY <1>1, SetFolderRows
<1>3. \A m \in ms : SetFolder(ms, f)[m].folder = f
  BY <1>1, SetFolderRows
<1>4. \A m \in ms : SetFolder(ms, f)[m].expires = IF f = "quarantine" THEN row[m].expires ELSE None
  BY <1>1, SetFolderRows
<1>5. row' = SetFolder(ms, f)
  BY DEF MovesMail
<1> QED BY <1>2, <1>3, <1>4, <1>5

LEMMA RecordedMoves ==
  ASSUME NEW ms, NEW f \in Folders, ms \subseteq Rows, row' = SetFolder(ms, f), Recorded(ms, f), deleted' = deleted
  PROVE  MovesMail(ms, f)
<1>1. CASE f = "quarantine"
  BY <1>1 DEF MovesMail, Recorded
<1>2. CASE f # "quarantine"
  BY <1>2 DEF MovesMail, Recorded
<1> QED BY <1>1, <1>2

LEMMA AdmitMoves ==
  ASSUME NEW r \in Rules, Admit(r)
  PROVE  MovesMail(In("quarantine") \cap FromAny(Moves[r]), "inbox")
<1>1. In("quarantine") \cap FromAny(Moves[r]) \subseteq Rows
  BY DEF In
<1> QED BY <1>1 DEF MovesMail, Admit, Folders

LEMMA MailStepAlways ==
  ASSUME Inv, [Next]_vars
  PROVE  MailStep
<1>0. Typed /\ Shape
  BY DEF Inv
<1>1. CASE UNCHANGED vars
  BY <1>1 DEF vars, tables, history, MailStep, KeepsMail
<1>2. ASSUME NEW m \in Ids,
             \/ SaveAttachments(m) \/ InsertAttachments(m) \/ InsertFts(m) \/ UnlinkRaw(m) \/ UnlinkAttachments(m)
      PROVE  MailStep
  BY <1>2 DEF SaveAttachments, InsertAttachments, InsertFts, UnlinkRaw, UnlinkAttachments, tables, history,
              MailStep, KeepsMail
<1>3. ASSUME NEW m \in Ids, InsertMessage(m) PROVE MailStep
  <2>1. CASE open
    BY <1>3, <2>1 DEF MailStep, StoresMail
  <2>2. CASE ~open
    BY <1>3, <2>2 DEF InsertMessage, MailStep, KeepsMail
  <2> QED BY <2>1, <2>2
<1>4. CASE MoveTrusted
  <2>1. MovesMail(job.msgs, "inbox")
    BY <1>0, <1>4, RecordedMoves DEF MoveTrusted, Shape, Folders
  <2> QED BY <2>1 DEF MailStep
<1>5. CASE Unlinked
  BY <1>5 DEF Unlinked, tables, history, MailStep, KeepsMail
<1>6. ASSUME NEW s \in Senders, DigestAllow(s) PROVE MailStep
  <2>1. AddressOf[s] \in Rules /\ Admit(AddressOf[s])
    BY <1>6, Constants DEF DigestAllow
  <2> QED BY <2>1, AdmitMoves DEF MailStep
<1>7. ASSUME NEW m \in Ids, Arrive(m) \/ Route(m) \/ TrustSender(m) PROVE MailStep
  BY <1>7 DEF Arrive, Route, TrustSender, tables, history, MailStep, KeepsMail
<1>8. ASSUME NEW m \in Ids, DeleteMessage(m) PROVE MailStep
  <2>1. DropsMail({m})
    BY <1>8 DEF DeleteMessage, DropsMail
  <2> QED BY <2>1 DEF MailStep
<1>9. ASSUME NEW ms \in SUBSET Ids, NEW f \in Folders, Move(ms, f) PROVE MailStep
  <2>1. MovesMail(ms, f)
    BY <1>9, RecordedMoves DEF Move
  <2> QED BY <2>1 DEF MailStep
<1>10. ASSUME NEW ms \in SUBSET Ids, TrustSenders(ms) PROVE MailStep
  <2>1. MovesMail(ms, "inbox")
    BY <1>10, RecordedMoves DEF TrustSenders, Folders
  <2> QED BY <2>1 DEF MailStep
<1>11. ASSUME NEW ms \in SUBSET Ids, BulkDelete(ms) PROVE MailStep
  <2>1. DropsMail(ms)
    BY <1>11 DEF BulkDelete, DropsMail
  <2> QED BY <2>1 DEF MailStep
<1>12. ASSUME NEW r \in Rules, AddRule(r) PROVE MailStep
  BY <1>12 DEF AddRule, history, MailStep, KeepsMail
<1>13. ASSUME NEW r \in Rules, DeleteRule(r) PROVE MailStep
  BY <1>13 DEF DeleteRule, MailStep, KeepsMail
<1>14. ASSUME NEW r \in Rules, Allow(r) PROVE MailStep
  BY <1>14, AdmitMoves DEF Allow, MailStep
<1>15. ASSUME NEW s \in Senders, Reject(s) PROVE MailStep
  <2>1. MovesMail(In("quarantine") \cap FromAny({s}), "trash")
    BY <1>15 DEF Reject, MovesMail, In, Folders
  <2> QED BY <2>1 DEF MailStep
<1>16. ASSUME NEW s \in Senders, Claim(s) PROVE MailStep
  BY <1>16 DEF Claim, history, MailStep, KeepsMail
<1>17. CASE Purge
  <2>1. DropsMail(In("quarantine"))
    BY <1>17 DEF Purge, DropsMail, In
  <2> QED BY <2>1 DEF MailStep
<1>18. CASE DeleteMailbox
  <2>1. DropsMail(Rows)
    BY <1>18 DEF DeleteMailbox, DropsMail
  <2> QED BY <2>1 DEF MailStep
<1>19. CASE Sweep
  <2>1. DropsMail(Expired)
    BY <1>19 DEF Sweep, DropsMail, Expired, In, history
  <2> QED BY <2>1 DEF MailStep
<1>20. CASE Tick \/ Crash
  BY <1>20 DEF Tick, Crash, tables, history, MailStep, KeepsMail
<1>21. CASE Work
  BY <1>2, <1>3, <1>4, <1>5, <1>6, <1>21 DEF Work
<1>22. CASE Requests
  BY <1>7, <1>8, <1>9, <1>10, <1>11, <1>12, <1>13, <1>14, <1>15, <1>16, <1>17, <1>18, <1>22 DEF Requests
<1> QED BY <1>1, <1>19, <1>20, <1>21, <1>22 DEF Next

\* What InsertMessage makes of the rows.
LEMMA StoredRow ==
  ASSUME Inv, NEW m, StoresMail(m)
  PROVE  /\ m \in Ids /\ job.msgs = {m} /\ job.pc = "insert" /\ m \notin Rows /\ m \notin deleted
         /\ Rows' = Rows \cup {m} /\ \A k \in Ids : k # m => row'[k] = row[k]
         /\ row'[m].folder = job.folder
         /\ row'[m].expires = IF job.folder = "quarantine" THEN now + Ttl ELSE None
         /\ deleted' = deleted /\ allowed' = allowed
         /\ rescued' = IF job.folder = "inbox" THEN rescued \cup {m} ELSE rescued
<1>1. /\ m \in Ids /\ InsertMessage(m) /\ open /\ Typed /\ Shape /\ job \in Job
  BY DEF StoresMail, Inv, Typed
<1>2. job.msgs = {m} /\ job.pc = "insert" /\ m \notin Rows /\ m \notin deleted
  BY <1>1 DEF InsertMessage, Shape, Storing
<1> DEFINE new == [folder |-> job.folder, received |-> now,
                   expires |-> IF job.folder = "quarantine" THEN now + Ttl ELSE None]
<1>3. /\ new \in Row /\ new.folder = job.folder
      /\ new.expires = IF job.folder = "quarantine" THEN now + Ttl ELSE None
  <2>1. job.folder \in Folders /\ now \in Time
    BY <1>1 DEF Job, Typed
  <2>2. now + Ttl \in Nat
    BY <2>1, Constants
  <2> QED
    BY <2>1, <2>2 DEF Row
<1>4. /\ row' = [row EXCEPT ![m] = new] /\ deleted' = deleted /\ allowed' = allowed
      /\ rescued' = IF job.folder = "inbox" THEN rescued \cup {m} ELSE rescued
  BY <1>1 DEF InsertMessage
<1> HIDE DEF new
<1>5. row'[m] = new /\ row'[m] # None /\ \A k \in Ids : k # m => row'[k] = row[k]
  BY <1>1, <1>3, <1>4, Constants DEF Typed
<1>6. Rows' = Rows \cup {m}
  BY <1>1, <1>5 DEF Rows
<1> QED BY <1>1, <1>2, <1>3, <1>4, <1>5, <1>6
-----------------------------------------------------------------------------
(* Rescued mail.                                                           *)

\* What was once in the inbox has no time at which it expires.
Kept == RescuedNeverSwept /\ \A m \in rescued : m \in Rows => row[m].expires = None

LEMMA KeptStep ==
  ASSUME Inv, Kept, MailStep
  PROVE  Kept'
<1>0. Typed
  BY DEF Inv
<1>1. CASE KeepsMail
  BY <1>1 DEF KeepsMail, Kept, RescuedNeverSwept, Rows
<1>2. ASSUME NEW ms, NEW f, MovesMail(ms, f) PROVE Kept'
  <2>1. ms \subseteq Rows /\ f \in Folders /\ row' = SetFolder(ms, f) /\ Rows' = Rows
    BY <1>0, <1>2, MoveTyped DEF MovesMail
  <2>2. \A m \in ms : row'[m].expires = IF f = "quarantine" THEN row[m].expires ELSE None
    BY <1>0, <1>2, MovedRows
  <2>3. \A m \in Ids : m \notin ms => row'[m] = row[m]
    BY <1>0, <1>2, MovedRows
  <2>4. ASSUME NEW m \in rescued', m \in Rows PROVE row'[m].expires = None
    <3>1. m \in Ids
      BY <2>4 DEF Rows
    <3>2. CASE m \in ms /\ f # "quarantine"
      BY <2>2, <3>2
    <3>3. CASE m \in ms /\ f = "quarantine"
      BY <1>2, <2>2, <2>4, <3>3 DEF MovesMail, Kept
    <3>4. CASE m \notin ms
      BY <1>2, <2>3, <2>4, <3>1, <3>4 DEF MovesMail, Kept
    <3> QED BY <3>2, <3>3, <3>4
  <2> QED BY <1>2, <2>1, <2>4 DEF MovesMail, Kept, RescuedNeverSwept
<1>3. ASSUME NEW ms, DropsMail(ms) PROVE Kept'
  <2>1. \A m \in Ids : row'[m] = IF m \in ms THEN None ELSE row[m]
    BY <1>0, <1>3, DropRowsTyped DEF DropsMail
  <2>2. Rows' = Rows \ ms
    BY <2>1 DEF Rows
  <2>3. ms = Expired => ms \cap rescued = {}
    BY DEF Kept, Expired, In
  <2>4. Rows \subseteq Ids
    BY DEF Rows
  <2> QED BY <1>3, <2>1, <2>2, <2>3, <2>4 DEF DropsMail, Kept, RescuedNeverSwept
<1>4. ASSUME NEW m, StoresMail(m) PROVE Kept'
  <2>1. Rows \subseteq Ids /\ m \notin rescued
    BY <1>4, StoredRow DEF Rows, Kept, RescuedNeverSwept
  <2>2. job.folder # "quarantine" => row'[m].expires = None
    BY <1>4, StoredRow
  <2>3. rescued' = IF job.folder = "inbox" THEN rescued \cup {m} ELSE rescued
    BY <1>4, StoredRow
  <2>4. Rows' = Rows \cup {m} /\ deleted' = deleted /\ \A k \in Ids : k # m => row'[k] = row[k]
    BY <1>4, StoredRow
  <2>5. \A k \in rescued' : k \in Rows' => row'[k].expires = None
    BY <2>1, <2>2, <2>3, <2>4 DEF Kept
  <2> QED BY <2>3, <2>4, <2>5 DEF Kept, RescuedNeverSwept
<1> QED BY <1>1, <1>2, <1>3, <1>4 DEF MailStep

\* Mail that was ever in the inbox is there until the owner deletes it, whatever the
\* sweeper, the moves back to the quarantine and the crashes do (sweeper.ts, api.ts).
THEOREM RescuedStays == Spec => []RescuedNeverSwept
<1>1. Init => Kept
  BY DEF Init, Kept, RescuedNeverSwept
<1>2. Inv /\ Kept /\ [Next]_vars => Kept'
  BY MailStepAlways, KeptStep
<1>3. Kept => RescuedNeverSwept
  BY DEF Kept
<1> QED BY <1>1, <1>2, <1>3, InvAlways, PTL DEF Spec
-----------------------------------------------------------------------------
(* Allowed senders.                                                        *)

\* An allowed sender is whitelisted, and so its mail is not on its way to the quarantine.
AllowedBy ==
  /\ \A s \in allowed : s \in Senders /\ Whitelisted(s)
  /\ job.pc \in {"attachments", "insert"} /\ job.folder = "quarantine" => \A m \in job.msgs : From[m] \notin allowed
  /\ AllowedNotQuarantined

\* The rules grow, and only a rule that goes takes the senders it matched with it.
LEMMA AllowedByRules ==
  ASSUME Inv, \A s \in allowed : s \in Senders /\ Whitelisted(s), [Next]_vars
  PROVE  \A s \in allowed' : s \in Senders /\ Whitelisted(s)'
<1>0. Typed
  BY DEF Inv
<1>1. CASE rules \subseteq rules' /\ allowed' \subseteq allowed
  BY <1>1 DEF Whitelisted
<1>2. ASSUME NEW r \in Rules, Admit(r) PROVE \A s \in allowed' : s \in Senders /\ Whitelisted(s)'
  <2>1. rules' = rules \cup {r} /\ allowed' = allowed \cup Moves[r]
    BY <1>2 DEF Admit
  <2>2. Moves[r] \subseteq Matches[r] /\ Moves[r] \subseteq Senders
    BY Constants
  <2> QED BY <2>1, <2>2 DEF Whitelisted
<1>3. ASSUME NEW ms, NEW f, Recorded(ms, f) PROVE allowed' \subseteq allowed
  BY <1>3 DEF Recorded
<1>4. CASE UNCHANGED vars
  BY <1>1, <1>4 DEF vars, tables, history
<1>5. ASSUME NEW m \in Ids,
             \/ SaveAttachments(m) \/ InsertMessage(m) \/ InsertAttachments(m) \/ InsertFts(m)
             \/ UnlinkRaw(m) \/ UnlinkAttachments(m)
      PROVE  rules' = rules /\ allowed' = allowed
  BY <1>5 DEF SaveAttachments, InsertMessage, InsertAttachments, InsertFts, UnlinkRaw, UnlinkAttachments,
              tables, history
<1>6. CASE MoveTrusted \/ Unlinked
  BY <1>1, <1>3, <1>6 DEF MoveTrusted, Unlinked, tables, history
<1>7. ASSUME NEW s \in Senders, DigestAllow(s) PROVE \A t \in allowed' : t \in Senders /\ Whitelisted(t)'
  BY <1>2, <1>7, Constants DEF DigestAllow
<1>8. CASE Work
  BY <1>1, <1>5, <1>6, <1>7, <1>8 DEF Work
<1>9. ASSUME NEW m \in Ids, Arrive(m) \/ Route(m) \/ TrustSender(m) \/ DeleteMessage(m)
      PROVE  rules \subseteq rules' /\ allowed' = allowed
  BY <1>9 DEF Arrive, Route, TrustSender, DeleteMessage, tables, history
<1>10. ASSUME NEW ms \in SUBSET Ids, (\E f \in Folders : Move(ms, f)) \/ TrustSenders(ms) \/ BulkDelete(ms)
       PROVE  rules \subseteq rules' /\ allowed' \subseteq allowed
  BY <1>3, <1>10 DEF Move, TrustSenders, BulkDelete
<1>11. ASSUME NEW r \in Rules, AddRule(r) PROVE rules \subseteq rules' /\ allowed' = allowed
  BY <1>11 DEF AddRule, history
<1>12. ASSUME NEW r \in Rules, DeleteRule(r) PROVE \A s \in allowed' : s \in Senders /\ Whitelisted(s)'
  <2>1. rules' = rules \ {r} /\ allowed' = allowed \ Matches[r]
    BY <1>12 DEF DeleteRule
  <2> QED BY <2>1 DEF Whitelisted
<1>13. ASSUME NEW r \in Rules, Allow(r) PROVE \A s \in allowed' : s \in Senders /\ Whitelisted(s)'
  BY <1>2, <1>13 DEF Allow
<1>14. ASSUME NEW s \in Senders, Reject(s) \/ Claim(s) PROVE rules' = rules /\ allowed' = allowed
  BY <1>14 DEF Reject, Claim, history
<1>15. CASE Purge
  BY <1>1, <1>15 DEF Purge
<1>16. CASE DeleteMailbox
  BY <1>16 DEF DeleteMailbox
<1>17. CASE Requests
  BY <1>1, <1>9, <1>10, <1>11, <1>12, <1>13, <1>14, <1>15, <1>16, <1>17 DEF Requests
<1>18. CASE Sweep \/ Tick \/ Crash
  BY <1>1, <1>18 DEF Sweep, Tick, Crash, tables, history
<1> QED BY <1>4, <1>8, <1>17, <1>18 DEF Next

\* Only Route decides a folder, and nobody is allowed before the message is stored.
LEMMA AllowedByJob ==
  ASSUME Inv, AllowedBy, [Next]_vars, job'.pc \in {"attachments", "insert"}, job'.folder = "quarantine"
  PROVE  \A m \in job'.msgs : From[m] \notin allowed'
<1>0. Typed /\ job \in Job
  BY DEF Inv, Typed
<1>1. ASSUME NEW m \in Ids, Route(m) PROVE \A k \in job'.msgs : From[k] \notin allowed'
  <2>1. job'.msgs = {m} /\ job'.folder = IF Whitelisted(From[m]) THEN "inbox" ELSE "quarantine"
    BY <1>1 DEF Route, Running, Idle
  <2>2. allowed' = allowed /\ ~Whitelisted(From[m])
    BY <1>1, <2>1 DEF Route, history
  <2> QED BY <2>1, <2>2 DEF AllowedBy
<1>2. ASSUME NEW m \in Ids, SaveAttachments(m) PROVE \A k \in job'.msgs : From[k] \notin allowed'
  <2>1. job'.msgs = job.msgs /\ job'.folder = job.folder /\ job.pc = "attachments"
    BY <1>0, <1>2, JobMoves DEF SaveAttachments, Pcs
  <2>2. allowed' = allowed
    BY <1>2 DEF SaveAttachments, history
  <2> QED BY <2>1, <2>2 DEF AllowedBy
<1>3. CASE job' = job /\ Free
  BY <1>3 DEF Free
<1>4. CASE job'.pc \in {"idle", "attachment rows", "index", "trusted", "claimed", "unlink"}
  BY <1>4
<1>5. ASSUME NEW m \in Ids, InsertMessage(m) \/ InsertAttachments(m) \/ InsertFts(m)
      PROVE  job'.pc \in {"idle", "attachment rows", "index"}
  BY <1>0, <1>5, JobMoves, IdleTyped DEF InsertMessage, InsertAttachments, InsertFts, Pcs
<1>6. ASSUME NEW m \in Ids, UnlinkRaw(m) \/ UnlinkAttachments(m)
      PROVE  job'.pc = "unlink"
  BY <1>0, <1>6 DEF UnlinkRaw, UnlinkAttachments, Job
<1>7. ASSUME MoveTrusted \/ Unlinked \/ \E s \in Senders : DigestAllow(s)
      PROVE  job'.pc = "idle"
  BY <1>7, IdleTyped DEF MoveTrusted, Unlinked, DigestAllow
<1>8. CASE Work
  BY <1>2, <1>4, <1>5, <1>6, <1>7, <1>8 DEF Work
<1>9. ASSUME NEW ms, NEW atts, Unlinking(ms, atts) PROVE job'.pc = "unlink"
  BY <1>9 DEF Unlinking, Idle
<1>10. ASSUME NEW m \in Ids, Arrive(m) PROVE job' = job /\ Free
  BY <1>10 DEF Arrive
<1>11. ASSUME NEW m \in Ids, TrustSender(m) \/ DeleteMessage(m) PROVE job'.pc \in {"trusted", "unlink"}
  BY <1>9, <1>11 DEF TrustSender, DeleteMessage, Running, Idle
<1>12. ASSUME NEW ms \in SUBSET Ids, (\E f \in Folders : Move(ms, f)) \/ TrustSenders(ms) \/ BulkDelete(ms)
       PROVE  (job' = job /\ Free) \/ job'.pc = "unlink"
  BY <1>9, <1>12 DEF Move, TrustSenders, BulkDelete
<1>13. ASSUME NEW r \in Rules, AddRule(r) \/ DeleteRule(r) \/ Allow(r) PROVE job' = job /\ Free
  BY <1>13 DEF AddRule, DeleteRule, Allow
<1>14. ASSUME NEW s \in Senders, Reject(s) PROVE job' = job /\ Free
  BY <1>14 DEF Reject
<1>15. ASSUME NEW s \in Senders, Claim(s) PROVE job'.pc = "claimed"
  BY <1>15, RunningTyped DEF Claim, Pcs
<1>16. ASSUME Purge \/ DeleteMailbox \/ Sweep PROVE job'.pc = "unlink"
  BY <1>9, <1>16 DEF Purge, DeleteMailbox, Sweep
<1>17. CASE Requests
  BY <1>1, <1>3, <1>4, <1>10, <1>11, <1>12, <1>13, <1>14, <1>15, <1>16, <1>17 DEF Requests
<1>18. CASE Tick
  BY <1>3, <1>18 DEF Tick
<1>19. CASE Crash
  BY <1>4, <1>19, IdleTyped DEF Crash
<1>20. CASE UNCHANGED vars
  BY <1>20 DEF vars, history, AllowedBy
<1> QED BY <1>4, <1>8, <1>16, <1>17, <1>18, <1>19, <1>20 DEF Next

LEMMA AllowedMail ==
  ASSUME Inv, AllowedBy, MailStep
  PROVE  AllowedNotQuarantined'
<1>0. Typed
  BY DEF Inv
<1>1. SUFFICES ASSUME NEW m \in Ids, row'[m] # None, row'[m].folder = "quarantine"
               PROVE  From[m] \notin allowed'
  BY DEF AllowedNotQuarantined, In, Rows
<1>2. ASSUME row[m] # None, row[m].folder = "quarantine" PROVE From[m] \notin allowed
  BY <1>2 DEF AllowedBy, AllowedNotQuarantined, In, Rows
<1>3. CASE KeepsMail
  BY <1>1, <1>2, <1>3 DEF KeepsMail
<1>4. ASSUME NEW ms, NEW f, MovesMail(ms, f) PROVE From[m] \notin allowed'
  <2>1. ms \subseteq Rows /\ f \in Folders /\ row' = SetFolder(ms, f)
    BY <1>4 DEF MovesMail
  <2>2. CASE m \in ms
    <3>1. row'[m].folder = f
      BY <1>0, <1>4, <2>2, MovedRows
    <3>2. f = "quarantine" /\ allowed' = allowed \ {From[k] : k \in ms}
      BY <1>1, <1>4, <3>1 DEF MovesMail
    <3> QED BY <2>2, <3>2
  <2>3. CASE m \notin ms
    <3>1. row'[m] = row[m]
      BY <1>0, <1>4, <2>3, MovedRows
    <3>2. row'[m] = row[m] /\ From[m] \notin allowed
      BY <1>1, <1>2, <3>1
    <3>3. m \in In("quarantine")
      BY <1>1, <3>2 DEF In, Rows
    <3>4. ASSUME NEW r \in Rules, ms = In("quarantine") \cap FromAny(Moves[r]), allowed' = allowed \cup Moves[r]
          PROVE  From[m] \notin allowed'
      BY <2>3, <3>2, <3>3, <3>4 DEF FromAny, In
    <3> QED BY <1>4, <3>2, <3>4 DEF MovesMail
  <2> QED BY <2>2, <2>3
<1>5. ASSUME NEW ms, DropsMail(ms) PROVE From[m] \notin allowed'
  <2>1. row'[m] = row[m] /\ allowed' \subseteq allowed
    BY <1>0, <1>1, <1>5, DropRowsTyped DEF DropsMail
  <2> QED BY <1>1, <1>2, <2>1
<1>6. ASSUME NEW k, StoresMail(k) PROVE From[m] \notin allowed'
  <2>1. CASE m = k
    BY <1>1, <1>6, <2>1, StoredRow DEF AllowedBy
  <2>2. CASE m # k
    BY <1>1, <1>2, <1>6, <2>2, StoredRow
  <2> QED BY <2>1, <2>2
<1> QED BY <1>3, <1>4, <1>5, <1>6 DEF MailStep

\* After an allow no mail of that sender is or comes into the quarantine, where it would
\* expire: neither what was there nor what was in the parser (routes/screener.ts, ingest.ts).
THEOREM AllowedMailIsOut == Spec => []AllowedNotQuarantined
<1>1. Init => AllowedBy
  BY IdleTyped DEF Init, AllowedBy, AllowedNotQuarantined
<1>2. ASSUME Inv, AllowedBy, [Next]_vars PROVE AllowedBy'
  <2>1. \A s \in allowed' : s \in Senders /\ Whitelisted(s)'
    BY <1>2, AllowedByRules DEF AllowedBy
  <2>2. AllowedNotQuarantined'
    BY <1>2, AllowedMail, MailStepAlways
  <2> QED BY <1>2, <2>1, <2>2, AllowedByJob DEF AllowedBy
<1>3. AllowedBy => AllowedNotQuarantined
  BY DEF AllowedBy
<1> QED BY <1>1, <1>2, <1>3, InvAlways, PTL DEF Spec
-----------------------------------------------------------------------------
(* Rejected senders.                                                       *)

\* A sender's mute counts from its last rejection; when the mailbox goes there is no mail.
MutedBy == \A s \in Senders : open /\ rejected[s] # None => mute[s] = rejected[s] + MuteTime

LEMMA MutedByStep ==
  ASSUME Inv, MutedBy, [Next]_vars
  PROVE  MutedBy'
<1>0. Typed
  BY DEF Inv
<1>1. CASE UNCHANGED <<open, mute, rejected>>
  BY <1>1 DEF MutedBy
<1>2. CASE UNCHANGED vars
  BY <1>1, <1>2 DEF vars, tables, history
<1>3. ASSUME NEW m \in Ids,
             \/ SaveAttachments(m) \/ InsertMessage(m) \/ InsertAttachments(m) \/ InsertFts(m)
             \/ UnlinkRaw(m) \/ UnlinkAttachments(m)
      PROVE  UNCHANGED <<open, mute, rejected>>
  BY <1>3 DEF SaveAttachments, InsertMessage, InsertAttachments, InsertFts, UnlinkRaw, UnlinkAttachments,
              tables, history
<1>4. ASSUME NEW s \in Senders, MoveTrusted \/ Unlinked \/ DigestAllow(s) PROVE UNCHANGED <<open, mute, rejected>>
  BY <1>4 DEF MoveTrusted, Unlinked, DigestAllow, Admit, tables, history
<1>5. CASE MoveTrusted \/ Unlinked
  BY <1>1, <1>5 DEF MoveTrusted, Unlinked, tables, history
<1>6. CASE Work
  BY <1>1, <1>3, <1>4, <1>5, <1>6 DEF Work
<1>7. ASSUME NEW m \in Ids, Arrive(m) \/ Route(m) \/ TrustSender(m) \/ DeleteMessage(m)
      PROVE  UNCHANGED <<open, mute, rejected>>
  BY <1>7 DEF Arrive, Route, TrustSender, DeleteMessage, tables, history
<1>8. ASSUME NEW ms \in SUBSET Ids, (\E f \in Folders : Move(ms, f)) \/ TrustSenders(ms) \/ BulkDelete(ms)
      PROVE  UNCHANGED <<open, mute, rejected>>
  BY <1>8 DEF Move, TrustSenders, BulkDelete
<1>9. ASSUME NEW r \in Rules, AddRule(r) \/ DeleteRule(r) \/ Allow(r) PROVE UNCHANGED <<open, mute, rejected>>
  BY <1>9 DEF AddRule, DeleteRule, Allow, Admit, history
<1>10. ASSUME NEW s \in Senders, Reject(s) PROVE MutedBy'
  <2>1. mute' = [mute EXCEPT ![s] = now + MuteTime] /\ rejected' = [rejected EXCEPT ![s] = now] /\ open' = open
    BY <1>10 DEF Reject
  <2> QED BY <1>0, <2>1 DEF Typed, MutedBy
<1>11. ASSUME NEW s \in Senders, Claim(s) PROVE UNCHANGED <<open, mute, rejected>>
  BY <1>11 DEF Claim, history
<1>12. CASE Purge
  BY <1>1, <1>12 DEF Purge
<1>13. CASE DeleteMailbox
  BY <1>13 DEF DeleteMailbox, MutedBy
<1>14. CASE Requests
  BY <1>1, <1>7, <1>8, <1>9, <1>10, <1>11, <1>12, <1>13, <1>14 DEF Requests
<1>15. CASE Sweep \/ Tick \/ Crash
  BY <1>1, <1>15 DEF Sweep, Tick, Crash, tables, history
<1> QED BY <1>2, <1>6, <1>14, <1>15 DEF Next

\* A rejected sender stays out of the screener until the mute time has passed since its last
\* rejection, however often it was rejected and whatever else the owner does (routes/screener.ts).
THEOREM RejectedIsHidden == Spec => []RejectedStaysHidden
<1>1. Init => MutedBy
  BY DEF Init, MutedBy
<1>2. Inv /\ MutedBy /\ [Next]_vars => MutedBy'
  BY MutedByStep
<1>3. ASSUME Inv, MutedBy PROVE RejectedStaysHidden
  <2>1. SUFFICES ASSUME NEW m \in Listed, rejected[From[m]] # None
                 PROVE  now >= rejected[From[m]] + MuteTime
    BY DEF RejectedStaysHidden
  <2>2. /\ m \in Rows /\ m \in Ids /\ From[m] \in Senders
        /\ mute[From[m]] = None \/ mute[From[m]] <= now
    BY Constants DEF Listed, In, Rows
  <2>3. open /\ mute[From[m]] = rejected[From[m]] + MuteTime
    BY <1>3, <2>1, <2>2 DEF MutedBy, Inv, Shape
  <2>4. rejected[From[m]] + MuteTime \in Nat /\ now \in Nat
    <3>1. rejected[From[m]] \in Time /\ now \in Time
      BY <1>3, <2>1, <2>2 DEF Inv, Typed
    <3>2. rejected[From[m]] \in Nat /\ now \in Nat /\ MuteTime \in Nat
      BY <3>1, Constants
    <3> QED BY <3>2
  <2> QED BY <2>2, <2>3, <2>4, Constants
<1> QED BY <1>1, <1>2, <1>3, InvAlways, PTL DEF Spec
-----------------------------------------------------------------------------
(* Search.                                                                 *)

\* Only the message that ingest is at work on may be without a search entry.
Indexed == \A m \in Rows : fts[m] > 0 \/ (job.pc \in {"attachment rows", "index"} /\ m \in job.msgs)

LEMMA IndexedStep ==
  ASSUME Inv, Indexed, [Next]_vars
  PROVE  Indexed'
<1>0. Typed /\ Shape /\ job \in Job
  BY DEF Inv, Typed
\* A step of another handler, which makes no row and takes no entry of one that stays.
<1>1. ASSUME job.pc \notin {"attachment rows", "index"}, Rows' \subseteq Rows, \A m \in Rows' : fts'[m] = fts[m]
      PROVE  Indexed'
  BY <1>1 DEF Indexed
<1>2. ASSUME NEW ms, DropRows(ms), Free PROVE Indexed'
  <2>1. \A m \in Ids : (row'[m] = IF m \in ms THEN None ELSE row[m]) /\ (fts'[m] = IF m \in ms THEN 0 ELSE fts[m])
    BY <1>0, <1>2, DropRowsTyped
  <2> QED BY <1>1, <1>2, <2>1 DEF Free, Rows
<1>3. ASSUME job.pc \notin {"attachment rows", "index"}, UNCHANGED <<row, fts>> PROVE Indexed'
  BY <1>1, <1>3 DEF Rows
<1>4. ASSUME NEW ms, NEW f, MovesMail(ms, f), fts' = fts, job.pc \notin {"attachment rows", "index"} PROVE Indexed'
  <2>1. Rows' = Rows
    BY <1>0, <1>4, MoveTyped DEF MovesMail
  <2> QED BY <1>1, <1>4, <2>1
<1>5. CASE UNCHANGED vars
  BY <1>5 DEF vars, tables, Indexed, Rows
<1>6. ASSUME NEW m \in Ids, SaveAttachments(m) \/ UnlinkRaw(m) \/ UnlinkAttachments(m) PROVE Indexed'
  BY <1>3, <1>6 DEF SaveAttachments, UnlinkRaw, UnlinkAttachments, tables
<1>7. ASSUME NEW m \in Ids, InsertMessage(m) PROVE Indexed'
  <2>1. CASE open
    <3>1. job.pc = "insert" /\ job.msgs = {m} /\ Rows' = Rows \cup {m} /\ fts' = fts
      BY <1>7, <2>1, StoredRow DEF StoresMail, InsertMessage
    <3>2. job'.pc = "attachment rows" /\ job'.msgs = {m}
      BY <1>0, <1>7, <2>1, <3>1, JobMoves DEF InsertMessage, Pcs
    <3> QED BY <3>1, <3>2 DEF Indexed
  <2>2. CASE ~open
    BY <1>3, <1>7, <2>2 DEF InsertMessage
  <2> QED BY <2>1, <2>2
<1>8. ASSUME NEW m \in Ids, InsertAttachments(m) PROVE Indexed'
  <2>1. job'.pc = "index" /\ job'.msgs = job.msgs /\ UNCHANGED <<row, fts>>
    BY <1>0, <1>8, JobMoves DEF InsertAttachments, Pcs
  <2> QED BY <2>1 DEF Indexed, Rows
<1>9. ASSUME NEW m \in Ids, InsertFts(m) PROVE Indexed'
  <2>1. row' = row /\ job.msgs = {m}
    BY <1>0, <1>9 DEF InsertFts, Shape, Storing
  <2>2. \A k \in Ids : fts[k] \in Nat /\ fts'[k] = IF k = m THEN fts[k] + 1 ELSE fts[k]
    BY <1>0, <1>9 DEF InsertFts, Typed
  <2>3. ASSUME NEW k \in Rows' PROVE fts'[k] > 0
    <3>1. k \in Ids /\ k \in Rows
      BY <2>1, <2>3 DEF Rows
    <3>2. CASE k = m
      BY <2>2, <3>1, <3>2
    <3>3. CASE k # m
      BY <2>1, <2>2, <3>1, <3>3 DEF Indexed
    <3> QED BY <3>2, <3>3
  <2> QED BY <2>3 DEF Indexed
<1>10. CASE MoveTrusted
  BY <1>0, <1>4, <1>10, RecordedMoves DEF MoveTrusted, Shape, Folders
<1>11. CASE Unlinked
  BY <1>3, <1>11 DEF Unlinked, tables
<1>12. ASSUME NEW s \in Senders, DigestAllow(s) PROVE Indexed'
  BY <1>4, <1>12, AdmitMoves, Constants DEF DigestAllow, Admit
<1>13. ASSUME NEW m \in Ids, Arrive(m) \/ Route(m) \/ TrustSender(m) PROVE Indexed'
  BY <1>3, <1>13 DEF Arrive, Route, TrustSender, tables, Free
<1>14. ASSUME NEW m \in Ids, DeleteMessage(m) PROVE Indexed'
  BY <1>2, <1>14 DEF DeleteMessage
<1>15. ASSUME NEW ms \in SUBSET Ids, NEW f \in Folders, Move(ms, f) PROVE Indexed'
  BY <1>4, <1>15, RecordedMoves DEF Move, Free
<1>16. ASSUME NEW ms \in SUBSET Ids, TrustSenders(ms) PROVE Indexed'
  BY <1>4, <1>16, RecordedMoves DEF TrustSenders, Free, Folders
<1>17. ASSUME NEW ms \in SUBSET Ids, BulkDelete(ms) PROVE Indexed'
  BY <1>2, <1>17 DEF BulkDelete
<1>18. ASSUME NEW r \in Rules, AddRule(r) \/ DeleteRule(r) PROVE Indexed'
  BY <1>3, <1>18 DEF AddRule, DeleteRule, Free
<1>19. ASSUME NEW r \in Rules, Allow(r) PROVE Indexed'
  BY <1>4, <1>19, AdmitMoves DEF Allow, Admit, Free
<1>20. ASSUME NEW s \in Senders, Reject(s) PROVE Indexed'
  <2>1. In("quarantine") \cap FromAny({s}) \subseteq Rows
    BY DEF In
  <2>2. Rows' = Rows /\ fts' = fts /\ Free
    BY <1>0, <1>20, <2>1, MoveTyped DEF Reject, Folders
  <2> QED BY <1>1, <2>2 DEF Free
<1>21. ASSUME NEW s \in Senders, Claim(s) PROVE Indexed'
  BY <1>3, <1>21 DEF Claim, Free
<1>22. CASE Purge \/ DeleteMailbox \/ Sweep
  BY <1>2, <1>22 DEF Purge, DeleteMailbox, Sweep
<1>23. CASE Tick
  BY <1>3, <1>23 DEF Tick, tables, Free
<1>24. CASE Crash
  BY <1>0, <1>24, BackfilledTyped DEF Crash, Indexed, Rows
<1>25. CASE Work
  BY <1>6, <1>7, <1>8, <1>9, <1>10, <1>11, <1>12, <1>25 DEF Work
<1>26. CASE Requests
  BY <1>13, <1>14, <1>15, <1>16, <1>17, <1>18, <1>19, <1>20, <1>21, <1>22, <1>26 DEF Requests
<1> QED BY <1>5, <1>22, <1>23, <1>24, <1>25, <1>26 DEF Next

\* Between two handlers every message has a search entry, also one whose ingest a crash
\* cut short (ingest.ts, the backfill of db.ts).
THEOREM SearchFindsAll == Spec => []Searchable
<1>1. Init => Indexed
  BY DEF Init, Indexed, Rows
<1>2. Inv /\ Indexed /\ [Next]_vars => Indexed'
  BY IndexedStep
<1>3. Indexed => Searchable
  BY DEF Indexed, Searchable, Free
<1> QED BY <1>1, <1>2, <1>3, InvAlways, PTL DEF Spec

\* The message that ingest is at work on has no entry yet, and of the others each start
\* after a crash made one at most.
Entered == EntryPerStart /\ (job.pc \in {"attachment rows", "index"} => \A m \in job.msgs : fts[m] = 0)

LEMMA EnteredStep ==
  ASSUME Inv, Entered, [Next]_vars
  PROVE  Entered'
<1>0. /\ Typed /\ Shape /\ job \in Job /\ job.msgs \subseteq Ids
      /\ crashes \in Nat /\ \A m \in Ids : fts[m] \in Nat /\ fts[m] <= 1 + crashes
  <2>1. Typed /\ Shape /\ job \in Job /\ job.msgs \subseteq Ids
    BY DEF Inv, Typed, Job
  <2>2. crashes \in Nat
    BY <2>1, Constants DEF Typed
  <2>3. \A m \in Ids : fts[m] \in Nat /\ fts[m] <= 1 + crashes
    BY <2>1 DEF Typed, Entered, EntryPerStart
  <2> QED BY <2>1, <2>2, <2>3
\* A step of another handler, which adds no entry.
<1>1. ASSUME job'.pc \notin {"attachment rows", "index"} \/ job' = job,
             crashes' = crashes, \A m \in Ids : fts'[m] = fts[m] \/ fts'[m] = 0
      PROVE  Entered'
  <2>1. ASSUME NEW m \in Ids PROVE fts'[m] <= 1 + crashes
    <3>1. fts[m] <= 1 + crashes /\ 0 <= 1 + crashes
      BY <1>0
    <3> QED BY <1>1, <3>1
  <2>3. EntryPerStart'
    BY <1>1, <2>1 DEF EntryPerStart
  <2>2. job'.pc \in {"attachment rows", "index"} => \A m \in job'.msgs : fts'[m] = 0
    BY <1>0, <1>1 DEF Entered
  <2> QED BY <2>2, <2>3 DEF Entered
<1>2. ASSUME fts' = fts, crashes' = crashes, job'.pc \notin {"attachment rows", "index"} \/ job' = job
      PROVE  Entered'
  BY <1>1, <1>2
<1>3. ASSUME NEW ms, DropRows(ms), NEW atts \in SUBSET Ids, NEW ns \in SUBSET Ids, Unlinking(ns, atts),
             crashes' = crashes
      PROVE  Entered'
  <2>1. \A m \in Ids : fts'[m] = IF m \in ms THEN 0 ELSE fts[m]
    BY <1>0, <1>3, DropRowsTyped
  <2>2. job'.pc = "unlink"
    BY <1>3, UnlinkingTyped
  <2> QED BY <1>1, <1>3, <2>1, <2>2
<1>4. CASE UNCHANGED vars
  BY <1>2, <1>4 DEF vars, tables
<1>5. ASSUME NEW m \in Ids, SaveAttachments(m) PROVE Entered'
  <2>1. job'.pc = "insert"
    BY <1>0, <1>5, JobMoves DEF SaveAttachments, Pcs
  <2> QED BY <1>2, <1>5, <2>1 DEF SaveAttachments, tables
<1>6. ASSUME NEW m \in Ids, InsertMessage(m) PROVE Entered'
  <2>1. CASE open
    <3>1. fts' = fts /\ crashes' = crashes /\ job'.msgs = job.msgs /\ job.pc = "insert"
      BY <1>0, <1>6, <2>1, JobMoves DEF InsertMessage, Pcs
    <3>2. \A k \in job.msgs : fts[k] = 0
      <4>1. \A k \in job.msgs : k \in Ids /\ k \notin Rows
        BY <1>0, <3>1 DEF Shape
      <4>2. \A k \in Ids : fts[k] > 0 => k \in Rows
        BY DEF Inv, NoDanglingRows
      <4> QED BY <1>0, <4>1, <4>2
    <3> QED BY <3>1, <3>2 DEF Entered, EntryPerStart
  <2>2. CASE ~open
    BY <1>2, <1>6, <2>2, IdleTyped DEF InsertMessage
  <2> QED BY <2>1, <2>2
<1>7. ASSUME NEW m \in Ids, InsertAttachments(m) PROVE Entered'
  <2>1. job.pc = "attachment rows" /\ job'.msgs = job.msgs /\ fts' = fts /\ crashes' = crashes
    BY <1>0, <1>7, JobMoves DEF InsertAttachments, Pcs
  <2> QED BY <2>1 DEF Entered, EntryPerStart
<1>8. ASSUME NEW m \in Ids, InsertFts(m) PROVE Entered'
  <2>1. fts[m] = 0 /\ crashes' = crashes /\ job'.pc = "idle"
    BY <1>8, IdleTyped DEF InsertFts, Entered
  <2>2. \A k \in Ids : fts'[k] = IF k = m THEN fts[k] + 1 ELSE fts[k]
    BY <1>0, <1>8 DEF InsertFts, Typed
  <2>3. \A k \in Ids : fts'[k] <= 1 + crashes
    BY <1>0, <2>1, <2>2
  <2> QED BY <2>1, <2>3 DEF Entered, EntryPerStart
<1>9. ASSUME NEW m \in Ids, UnlinkRaw(m) \/ UnlinkAttachments(m) PROVE Entered'
  BY <1>0, <1>2, <1>9 DEF UnlinkRaw, UnlinkAttachments, tables, Job
<1>10. CASE MoveTrusted \/ Unlinked
  BY <1>2, <1>10, IdleTyped DEF MoveTrusted, Recorded, Unlinked, tables
<1>11. ASSUME NEW s \in Senders, DigestAllow(s) PROVE Entered'
  BY <1>2, <1>11, IdleTyped DEF DigestAllow, Admit
<1>12. ASSUME NEW m \in Ids, Arrive(m) PROVE Entered'
  BY <1>2, <1>12 DEF Arrive, tables
<1>13. ASSUME NEW m \in Ids, Route(m) \/ TrustSender(m) PROVE Entered'
  <2>1. job'.pc \in {"attachments", "trusted"}
    BY <1>13 DEF Route, TrustSender, Running, Idle
  <2> QED BY <1>2, <1>13, <2>1 DEF Route, TrustSender, tables
<1>14. ASSUME NEW m \in Ids, DeleteMessage(m) PROVE Entered'
  BY <1>3, <1>14 DEF DeleteMessage
<1>15. ASSUME NEW ms \in SUBSET Ids, NEW f \in Folders, Move(ms, f) PROVE Entered'
  BY <1>2, <1>15 DEF Move, Recorded
<1>16. ASSUME NEW ms \in SUBSET Ids, TrustSenders(ms) PROVE Entered'
  BY <1>2, <1>16 DEF TrustSenders, Recorded
<1>17. ASSUME NEW ms \in SUBSET Ids, BulkDelete(ms) PROVE Entered'
  BY <1>3, <1>17 DEF BulkDelete
<1>18. ASSUME NEW r \in Rules, AddRule(r) \/ DeleteRule(r) \/ Allow(r) PROVE Entered'
  BY <1>2, <1>18 DEF AddRule, DeleteRule, Allow, Admit
<1>19. ASSUME NEW s \in Senders, Reject(s) PROVE Entered'
  BY <1>2, <1>19 DEF Reject
<1>20. ASSUME NEW s \in Senders, Claim(s) PROVE Entered'
  <2>1. {m \in Ids : From[m] = s} \in SUBSET Ids
    OBVIOUS
  <2>2. job'.pc = "claimed"
    BY <1>20, <2>1, RunningTyped DEF Claim, Pcs
  <2> QED BY <1>2, <1>20, <2>2 DEF Claim
<1>21. CASE Purge \/ DeleteMailbox \/ Sweep
  <2>1. Rows \in SUBSET Ids /\ In("quarantine") \in SUBSET Ids /\ Expired \in SUBSET Ids
        /\ attRow \in SUBSET Ids /\ attRow \cap Expired \in SUBSET Ids
    BY <1>0 DEF Rows, In, Expired, Typed
  <2>2. CASE Purge
    BY <1>3, <2>1, <2>2 DEF Purge
  <2>3. CASE DeleteMailbox
    BY <1>3, <2>1, <2>3 DEF DeleteMailbox
  <2>4. CASE Sweep
    BY <1>3, <2>1, <2>4 DEF Sweep
  <2> QED BY <1>21, <2>2, <2>3, <2>4
<1>22. CASE Tick
  BY <1>2, <1>22 DEF Tick, tables
<1>23. CASE Crash
  <2>1. crashes' = crashes + 1 /\ job'.pc = "idle" /\ fts' = Backfilled(fts)
    BY <1>23, IdleTyped DEF Crash
  <2>2. \A m \in Ids : fts'[m] = fts[m] \/ fts'[m] = fts[m] + 1
    BY <1>0, <2>1 DEF Backfilled
  <2>3. \A m \in Ids : fts'[m] <= 1 + crashes'
    BY <1>0, <2>1, <2>2
  <2> QED BY <2>1, <2>3 DEF Entered, EntryPerStart
<1>24. CASE Work
  BY <1>5, <1>6, <1>7, <1>8, <1>9, <1>10, <1>11, <1>24 DEF Work
<1>25. CASE Requests
  BY <1>12, <1>13, <1>14, <1>15, <1>16, <1>17, <1>18, <1>19, <1>20, <1>21, <1>25 DEF Requests
<1> QED BY <1>4, <1>21, <1>22, <1>23, <1>24, <1>25 DEF Next

\* However often the process dies, a start adds no more than one search entry to a message
\* (db.ts: the backfill is not idempotent, but it runs once for each start).
THEOREM EntriesBounded == Spec => []EntryPerStart
<1>1. Init => Entered
  BY IdleTyped DEF Init, Entered, EntryPerStart
<1>2. Inv /\ Entered /\ [Next]_vars => Entered'
  BY EnteredStep
<1>3. Entered => EntryPerStart
  BY DEF Entered
<1> QED BY <1>1, <1>2, <1>3, InvAlways, PTL DEF Spec
-----------------------------------------------------------------------------
(* Links of the digest.                                                    *)

\* A link that was claimed did its work, or its handler is about to.
Promised ==
  crashes = 0 =>
    \A s \in used : s \in acted \/ (job.pc = "claimed" /\ job.msgs = {m \in Ids : From[m] = s})

LEMMA PromisedStep ==
  ASSUME Inv, Promised, [Next]_vars
  PROVE  Promised'
<1>0. used \in SUBSET Senders /\ crashes \in Nat
  BY Constants DEF Inv, Typed
\* A step that has nothing to do with links.
<1>1. ASSUME UNCHANGED <<used, acted, crashes>>, job.pc # "claimed" \/ job' = job PROVE Promised'
  BY <1>1 DEF Promised
<1>2. CASE UNCHANGED vars
  BY <1>1, <1>2 DEF vars, tables, history
<1>3. ASSUME NEW m \in Ids, SaveAttachments(m) \/ InsertMessage(m) \/ InsertAttachments(m) PROVE Promised'
  BY <1>1, <1>3 DEF SaveAttachments, InsertMessage, InsertAttachments, tables, history
<1>4. ASSUME NEW m \in Ids, InsertFts(m) \/ UnlinkRaw(m) \/ UnlinkAttachments(m) PROVE Promised'
  BY <1>1, <1>4 DEF InsertFts, UnlinkRaw, UnlinkAttachments, tables, history
<1>5. CASE MoveTrusted \/ Unlinked
  BY <1>1, <1>5 DEF MoveTrusted, Recorded, Unlinked, tables, history
<1>6. ASSUME NEW s \in Senders, DigestAllow(s) PROVE Promised'
  <2>1. /\ job.pc = "claimed" /\ job.msgs = {m \in Ids : From[m] = s}
        /\ used' = used /\ acted' = acted \cup {s} /\ crashes' = crashes
    BY <1>6 DEF DigestAllow, Admit
  <2>2. PICK m \in Ids : From[m] = s
    BY SendersSend
  <2>3. ASSUME NEW t \in Senders, job.msgs = {k \in Ids : From[k] = t} PROVE t = s
    BY <2>1, <2>2, <2>3
  <2> QED BY <1>0, <2>1, <2>3 DEF Promised
<1>7. ASSUME NEW s \in Senders, Claim(s) PROVE Promised'
  <2>1. job'.pc = "claimed" /\ job'.msgs = {m \in Ids : From[m] = s}
    BY <1>7 DEF Claim, Running, Idle
  <2>2. job.pc # "claimed" /\ used' = used \cup {s} /\ acted' = acted /\ crashes' = crashes
    BY <1>7 DEF Claim, Free, history
  <2> QED BY <2>1, <2>2 DEF Promised
<1>8. ASSUME NEW m \in Ids, Arrive(m) \/ Route(m) \/ TrustSender(m) \/ DeleteMessage(m) PROVE Promised'
  BY <1>1, <1>8 DEF Arrive, Route, TrustSender, DeleteMessage, DropRows, Free, tables, history
<1>9. ASSUME NEW ms \in SUBSET Ids, NEW f \in Folders, Move(ms, f) PROVE Promised'
  BY <1>1, <1>9 DEF Move, Recorded
<1>10. ASSUME NEW ms \in SUBSET Ids, TrustSenders(ms) \/ BulkDelete(ms) PROVE Promised'
  BY <1>1, <1>10 DEF TrustSenders, Recorded, BulkDelete, Free
<1>11. ASSUME NEW r \in Rules, AddRule(r) \/ DeleteRule(r) \/ Allow(r) PROVE Promised'
  BY <1>1, <1>11 DEF AddRule, DeleteRule, Allow, Admit, history
<1>12. ASSUME NEW s \in Senders, Reject(s) PROVE Promised'
  BY <1>1, <1>12 DEF Reject
<1>13. CASE Purge \/ DeleteMailbox \/ Sweep \/ Tick
  BY <1>1, <1>13 DEF Purge, DeleteMailbox, Sweep, Tick, Free, tables, history
<1>14. CASE Crash
  BY <1>0, <1>14 DEF Crash, Promised
<1>15. CASE Work
  BY <1>3, <1>4, <1>5, <1>6, <1>15 DEF Work
<1>16. CASE Requests
  BY <1>7, <1>8, <1>9, <1>10, <1>11, <1>12, <1>13, <1>16 DEF Requests
<1> QED BY <1>2, <1>13, <1>14, <1>15, <1>16 DEF Next

\* Only a crash between the claim of a digest link and its transaction (api.ts:1732) leaves a
\* link spent whose sender was not allowed.
THEOREM LinksActOrCrash == Spec => []LinkActsOrCrashed
<1>1. Init => Promised
  BY DEF Init, Promised
<1>2. Inv /\ Promised /\ [Next]_vars => Promised'
  BY PromisedStep
<1>3. Promised => LinkActsOrCrashed
  BY DEF Promised, LinkActsOrCrashed, ClaimedLinkActed, Free
<1> QED BY <1>1, <1>2, <1>3, InvAlways, PTL DEF Spec

-----------------------------------------------------------------------------
(* The lists of the web client *)

\* What a call can be, and what it can carry.
FetchKinds == {"list", "search", "typed"}
Deeds == {"read", "unread", "trust", "inbox", "trash", "delete", "purge"}
Acts == [ids : SUBSET Msgs, do : Deeds, bulk : BOOLEAN]
Decisions == [ids : SUBSET Msgs, do : {"trust", "reject"}, mount : Nat]
CallType ==
  [kind : Kinds, place : Places,
   with : {NONE} \cup Msgs \cup (Nat \X Boxes) \cup Acts \cup Decisions,
   state : States, ver : Nat,
   answer : {NONE} \cup (SUBSET SummaryType) \cup Seq(Msgs)]
MailType == [Msgs -> [folder : MailFolders \cup {"coming", "gone"}, read : BOOLEAN]]
Opened == [id : Msgs, folder : MailFolders]

\* A call of each kind carries what its handler reads, and so does its answer.
Proper(c) ==
  /\ c.kind = "queue" => c.with \in Nat \X Boxes
  /\ c.kind = "act" => c.with \in Acts
  /\ c.kind = "decide" => c.with \in Decisions
  /\ c.kind = "queue" /\ c.state = "back" => c.answer \in Seq(Msgs)
  /\ c.kind \in FetchKinds \cup {"get"} /\ c.state = "back" => c.answer \in SUBSET SummaryType

\* The calls under way.
Asked == DOMAIN calls

ClientTyped ==
  /\ mail \in MailType /\ decided \in SUBSET Msgs
  /\ stream \in {"opening", "up"} /\ events \in Seq(Boxes)
  /\ place \in Places
  /\ messages \in SUBSET SummaryType /\ results \in (SUBSET SummaryType) \cup {NONE}
  /\ picked \in SUBSET Msgs /\ pane \in Opened \cup {NONE}
  /\ timer \in BOOLEAN /\ stale \in BOOLEAN
  /\ card \in CardType
  /\ calls \in Seq(CallType) /\ \A i \in Asked : Proper(calls[i])
  /\ version \in Nat /\ seen \in Nat

-----------------------------------------------------------------------------
LEMMA WebmailConstants ==
  /\ Msgs \subseteq Nat /\ Matching \subseteq Msgs
  /\ BoxOf \in [Msgs -> Boxes] /\ IsFiniteSet(Msgs) /\ IsFiniteSet(Boxes)
  /\ NONE \notin Boxes /\ \A rows \in SUBSET SummaryType : rows # NONE
  BY WebmailConstantsOK, NoneIsNoList

LEMMA SummaryTyped ==
  ASSUME mail \in MailType
  PROVE  \A m \in Live : /\ Summary(m) \in SummaryType
                         /\ Summary(m).id = m /\ Summary(m).folder = mail[m].folder
  BY DEF MailType, Live, Summary, SummaryType, MailFolders

LEMMA TruthTyped ==
  ASSUME mail \in MailType, NEW b, NEW f
  PROVE  /\ Listing(b, f) \in SUBSET SummaryType /\ Found(b) \in SUBSET SummaryType
         /\ {r.id : r \in Listing(b, f)} \in SUBSET Live
  BY SummaryTyped DEF Listing, Found

\* What Truth says of a place depends on the rows of its mailbox only.
LEMMA TruthIsLocal ==
  ASSUME mail \in MailType, mail' \in MailType, NEW p \in Places,
         \A m \in Msgs : mail'[m] # mail[m] => BoxOf[m] # p.box
  PROVE  Truth(p)' = Truth(p)
<1>1. \A m \in Msgs : BoxOf[m] = p.box => mail'[m] = mail[m]
  OBVIOUS
<1>2. {n \in Live' : BoxOf[n] = p.box /\ mail'[n].folder = p.folder}
        = {n \in Live : BoxOf[n] = p.box /\ mail[n].folder = p.folder}
  BY <1>1 DEF Live
<1>3. {n \in Live' : BoxOf[n] = p.box /\ n \in Matching}
        = {n \in Live : BoxOf[n] = p.box /\ n \in Matching}
  BY <1>1 DEF Live
<1>4. \A m \in Msgs : BoxOf[m] = p.box => Summary(m)' = Summary(m)
  BY <1>1 DEF Summary
<1>5. Listing(p.box, p.folder)' = Listing(p.box, p.folder)
  BY <1>2, <1>4 DEF Listing, Live
<1>6. Found(p.box)' = Found(p.box)
  BY <1>3, <1>4 DEF Found, Live
<1> QED
  BY <1>5, <1>6 DEF Truth

\* A sequence made of a finite set has all of it, and nothing else.
LEMMA SetToSeqCovers ==
  ASSUME NEW S, IsFiniteSet(S)
  PROVE  /\ SetToSeq(S) \in Seq(S)
         /\ \A x \in S : \E i \in DOMAIN SetToSeq(S) : SetToSeq(S)[i] = x
<1> DEFINE n == Cardinality(S)
<1>1. n \in Nat /\ ExistsBijection(1 .. n, S)
  BY FS_CardinalityType
<1>2. PICK g \in [1 .. n -> S] : (\A a, b \in 1 .. n : g[a] = g[b] => a = b) /\ \A x \in S : \E i \in 1 .. n : g[i] = x
  BY <1>1 DEF ExistsBijection, Bijection, Injection, Surjection, IsInjective
<1>3. IsInjective(g)
  BY <1>2 DEF IsInjective
<1>4. SetToSeq(S) \in [1 .. n -> S] /\ IsInjective(SetToSeq(S))
  BY <1>2, <1>3 DEF SetToSeq
<1> DEFINE s == SetToSeq(S)
<1> HIDE DEF s
<1>5. s \in [1 .. n -> S] /\ s \in Seq(S)
  BY <1>1, <1>4 DEF s
<1>6. s \in Injection(1 .. n, S)
  BY <1>4 DEF s, Injection
<1>7. Cardinality(1 .. n) = n
  BY <1>1, FS_Interval
<1>8. s \in Surjection(1 .. n, S)
  BY <1>6, <1>7, FS_Injection
<1> QED
  BY <1>5, <1>8 DEF s, Surjection

\* Every finite set of messages can be put in this order, and LatestFirst does: a message
\* comes after those that are later than it.
LEMMA LatestFirstSorts ==
  ASSUME NEW S, S \subseteq Nat, IsFiniteSet(S)
  PROVE  /\ LatestFirst(S) \in [1 .. Cardinality(S) -> S]
         /\ \A i, j \in 1 .. Cardinality(S) : i < j => LatestFirst(S)[i] > LatestFirst(S)[j]
         /\ LatestFirst(S) \in Seq(S)
<1> DEFINE n == Cardinality(S)
           After(x) == {y \in S : y > x}
           r == [x \in S |-> Cardinality(After(x)) + 1]
<1>1. n \in Nat
  BY FS_CardinalityType
<1>2. \A x \in S : IsFiniteSet(After(x)) /\ Cardinality(After(x)) \in Nat
  BY FS_Subset, FS_CardinalityType
<1>3. ASSUME NEW x \in S
      PROVE  Cardinality(After(x)) + 1 \in 1 .. n
  <2>1. After(x) \in SUBSET S /\ x \notin After(x)
    OBVIOUS
  <2>2. Cardinality(After(x)) <= n /\ (n = Cardinality(After(x)) => S = After(x))
    BY <2>1, FS_Subset
  <2>3. n # Cardinality(After(x))
    BY <2>1, <2>2
  <2> HIDE DEF After, n
  <2> QED
    BY <1>1, <1>2, <2>2, <2>3
<1>4. ASSUME NEW x \in S, NEW y \in S, x < y
      PROVE  Cardinality(After(y)) < Cardinality(After(x))
  <2>1. After(y) \in SUBSET After(x) /\ y \in After(x) /\ y \notin After(y)
    <3>1. x \in Nat /\ y \in Nat /\ y > x
      BY <1>4
    <3>2. \A z \in After(y) : z \in After(x)
      <4>1. \A z \in S : z \in Nat /\ (z > y => z > x)
        BY <3>1
      <4> QED
        BY <4>1
    <3>3. After(y) \in SUBSET After(x)
      BY <3>2
    <3>4. y \in After(x) /\ y \notin After(y)
      BY <3>1
    <3> QED
      BY <3>3, <3>4
  <2>2. /\ Cardinality(After(y)) <= Cardinality(After(x))
        /\ Cardinality(After(x)) = Cardinality(After(y)) => After(x) = After(y)
    BY <1>2, <2>1, FS_Subset
  <2>3. Cardinality(After(x)) # Cardinality(After(y))
    BY <2>1, <2>2
  <2> HIDE DEF After
  <2> QED
    BY <1>2, <2>2, <2>3
<1>5. r \in [S -> 1 .. n] /\ \A x \in S : r[x] = Cardinality(After(x)) + 1
  BY <1>3
<1> HIDE DEF r, After, n
<1>6. \A x, y \in S : x < y => r[y] < r[x]
  BY <1>2, <1>4, <1>5
<1>7. \A x, y \in S : r[x] = r[y] => x = y
  BY <1>2, <1>5, <1>6
<1>8. IsInjective(r)
  BY <1>5, <1>7 DEF IsInjective
<1>9. r \in Injection(S, 1 .. n)
  BY <1>5, <1>8 DEF Injection
<1>10. IsFiniteSet(1 .. n) /\ Cardinality(1 .. n) = n
  BY <1>1, FS_Interval
<1>11. r \in Surjection(S, 1 .. n)
  BY <1>9, <1>10, FS_Injection DEF n
<1> DEFINE q == [i \in 1 .. n |-> CHOOSE x \in S : r[x] = i]
<1>12. ASSUME NEW i \in 1 .. n
       PROVE  q[i] \in S /\ r[q[i]] = i
  BY <1>11 DEF Surjection
<1>13. q \in [1 .. n -> S]
  BY <1>12
<1> HIDE DEF q
<1>14. ASSUME NEW i \in 1 .. n, NEW j \in 1 .. n, i < j
       PROVE  q[i] > q[j]
  <2>1. q[i] \in S /\ q[j] \in S /\ r[q[i]] = i /\ r[q[j]] = j
    BY <1>12
  <2>2. i \in Nat /\ j \in Nat /\ q[i] \in Nat /\ q[j] \in Nat
    <3>1. i \in Nat /\ j \in Nat
      BY <1>1
    <3>2. \A x \in S : x \in Nat
      OBVIOUS
    <3> QED
      BY <2>1, <3>1, <3>2
  <2>3. q[i] # q[j]
    BY <1>14, <2>1, <2>2
  <2>4. ~(q[i] < q[j])
    <3>1. SUFFICES ASSUME q[i] < q[j] PROVE FALSE
      OBVIOUS
    <3>2. r[q[j]] < r[q[i]]
      BY <1>6, <2>1, <3>1
    <3> QED
      BY <1>14, <2>1, <2>2, <3>2
  <2> QED
    BY <2>2, <2>3, <2>4
<1>15. \E f \in [1 .. n -> S] : \A i, j \in DOMAIN f : i < j => f[i] > f[j]
  BY <1>13, <1>14
<1>16. /\ LatestFirst(S) \in [1 .. n -> S]
       /\ \A i, j \in DOMAIN LatestFirst(S) : i < j => LatestFirst(S)[i] > LatestFirst(S)[j]
  BY <1>15 DEF LatestFirst, n
<1>17. LatestFirst(S) \in Seq(S)
  BY <1>1, <1>16
<1> QED
  BY <1>16, <1>17 DEF n

LEMMA RemoveAtFacts ==
  ASSUME NEW T, NEW s \in Seq(T), NEW i \in DOMAIN s
  PROVE  /\ RemoveAt(s, i) \in Seq(T) /\ Len(RemoveAt(s, i)) = Len(s) - 1
         /\ \A j \in 1 .. Len(s) - 1 : RemoveAt(s, i)[j] = s[IF j < i THEN j ELSE j + 1]
<1>1. i \in 1 .. Len(s) /\ Len(s) \in Nat
  OBVIOUS
<1>2. \A j \in 1 .. Len(s) : s[j] \in T
  OBVIOUS
<1> DEFINE a == SubSeq(s, 1, i - 1)
           b == SubSeq(s, i + 1, Len(s))
<1>3. /\ a \in Seq(T) /\ Len(a) = i - 1
      /\ \A j \in 1 .. i - 1 : a[j] = s[j]
  <2>1. \A j \in 1 .. i - 1 : s[j] \in T
    BY <1>1, <1>2
  <2>2. /\ SubSeq(s, 1, i - 1) \in Seq(T)
        /\ Len(SubSeq(s, 1, i - 1)) = IF 1 <= i - 1 THEN (i - 1) - 1 + 1 ELSE 0
        /\ \A j \in 1 .. (i - 1) - 1 + 1 : SubSeq(s, 1, i - 1)[j] = s[1 + j - 1]
    BY <1>1, <2>1, SubSeqProperties
  <2> QED
    BY <1>1, <2>2
<1>4. /\ b \in Seq(T) /\ Len(b) = Len(s) - i
      /\ \A j \in 1 .. Len(s) - i : b[j] = s[i + j]
  <2>1. \A j \in i + 1 .. Len(s) : s[j] \in T
    BY <1>1, <1>2
  <2>2. /\ SubSeq(s, i + 1, Len(s)) \in Seq(T)
        /\ Len(SubSeq(s, i + 1, Len(s))) = IF i + 1 <= Len(s) THEN Len(s) - (i + 1) + 1 ELSE 0
        /\ \A j \in 1 .. Len(s) - (i + 1) + 1 : SubSeq(s, i + 1, Len(s))[j] = s[(i + 1) + j - 1]
    BY <1>1, <2>1, SubSeqProperties
  <2> QED
    BY <1>1, <2>2
<1> HIDE DEF a, b
<1>5. /\ a \o b \in Seq(T) /\ Len(a \o b) = Len(a) + Len(b)
      /\ \A j \in 1 .. Len(a) + Len(b) : (a \o b)[j] = IF j <= Len(a) THEN a[j] ELSE b[j - Len(a)]
  BY <1>3, <1>4, ConcatProperties
<1>6. RemoveAt(s, i) = a \o b
  BY DEF RemoveAt, a, b
<1>7. ASSUME NEW j \in 1 .. Len(s) - 1
      PROVE  (a \o b)[j] = s[IF j < i THEN j ELSE j + 1]
  <2>1. CASE j < i
    BY <2>1, <1>1, <1>3, <1>4, <1>5
  <2>2. CASE ~(j < i)
    <3>1. j - Len(a) \in 1 .. Len(s) - i /\ i + (j - Len(a)) = j + 1
      BY <2>2, <1>1, <1>3
    <3>2. j \in 1 .. Len(a) + Len(b) /\ ~(j <= Len(a))
      BY <2>2, <1>1, <1>3, <1>4
    <3>3. (a \o b)[j] = b[j - Len(a)]
      BY <3>2, <1>5
    <3> QED
      BY <3>1, <3>3, <1>4, <2>2
  <2> QED
    BY <2>1, <2>2
<1>8. Len(a) + Len(b) = Len(s) - 1
  BY <1>1, <1>3, <1>4
<1> QED
  BY <1>5, <1>6, <1>7, <1>8
-----------------------------------------------------------------------------
(* What becomes of the calls under way *)

LEMMA CallFacts ==
  ASSUME NEW kind \in Kinds, NEW p \in Places,
         NEW with \in {NONE} \cup Msgs \cup (Nat \X Boxes) \cup Acts \cup Decisions
  PROVE  /\ Call(kind, p, with) \in CallType
         /\ Call(kind, p, with).kind = kind /\ Call(kind, p, with).place = p
         /\ Call(kind, p, with).with = with /\ Call(kind, p, with).state = "sent"
<1>1. 0 \in Nat /\ "sent" \in States
  BY DEF States
<1>2. NONE \in {NONE} \cup (SUBSET SummaryType) \cup Seq(Msgs)
  OBVIOUS
<1> QED
  BY <1>1, <1>2 DEF Call, CallType

LEMMA FetchFacts ==
  ASSUME NEW p \in Places
  PROVE  /\ Fetch(p) \in CallType /\ Proper(Fetch(p))
         /\ Fetch(p).kind = (IF p.query THEN "search" ELSE "list")
         /\ Fetch(p).kind \in FetchKinds
         /\ Fetch(p).place = p /\ Fetch(p).state = "sent"
<1> DEFINE k == IF p.query THEN "search" ELSE "list"
<1>1. k \in Kinds /\ k \in FetchKinds
  BY DEF Kinds, FetchKinds
<1>2. Fetch(p) = Call(k, p, NONE)
  BY DEF Fetch
<1> HIDE DEF k
<1>3. /\ Fetch(p) \in CallType
      /\ Fetch(p).kind = k /\ Fetch(p).place = p /\ Fetch(p).state = "sent"
  BY <1>1, <1>2, CallFacts
<1> QED
  BY <1>1, <1>3 DEF k, Proper, FetchKinds

LEMMA AppendFacts ==
  ASSUME NEW T, NEW s \in Seq(T), NEW e \in T
  PROVE  /\ Append(s, e) \in Seq(T)
         /\ DOMAIN Append(s, e) = (DOMAIN s) \cup {Len(s) + 1}
         /\ Len(s) + 1 \notin DOMAIN s
         /\ Append(s, e)[Len(s) + 1] = e
         /\ \A i \in DOMAIN s : Append(s, e)[i] = s[i]
  OBVIOUS

\* A handler sends one call more.
LEMMA SentOne ==
  ASSUME ClientTyped, NEW c \in CallType, Proper(c), calls' = Append(calls, c)
  PROVE  /\ calls' \in Seq(CallType) /\ \A i \in Asked' : Proper(calls'[i])
         /\ Asked' = Asked \cup {Len(calls) + 1} /\ Len(calls) + 1 \notin Asked
         /\ calls'[Len(calls) + 1] = c /\ \A i \in Asked : calls'[i] = calls[i]
<1>1. calls \in Seq(CallType) /\ \A i \in Asked : Proper(calls[i])
  BY DEF ClientTyped
<1>2. /\ calls' \in Seq(CallType)
      /\ Asked' = Asked \cup {Len(calls) + 1} /\ Len(calls) + 1 \notin Asked
      /\ calls'[Len(calls) + 1] = c /\ \A i \in Asked : calls'[i] = calls[i]
  BY <1>1, AppendFacts DEF Asked
<1> QED
  BY <1>1, <1>2

\* A call is answered or fails.
LEMMA EditedOne ==
  ASSUME ClientTyped, NEW i \in Asked, NEW c \in CallType, Proper(c),
         calls' = [calls EXCEPT ![i] = c]
  PROVE  /\ calls' \in Seq(CallType) /\ \A j \in Asked' : Proper(calls'[j])
         /\ Asked' = Asked /\ calls'[i] = c
         /\ \A j \in Asked : j # i => calls'[j] = calls[j]
<1>1. calls \in Seq(CallType) /\ \A j \in Asked : Proper(calls[j])
  BY DEF ClientTyped
<1>2. /\ calls' \in Seq(CallType) /\ Asked' = Asked /\ calls'[i] = c
      /\ \A j \in Asked : j # i => calls'[j] = calls[j]
  BY <1>1 DEF Asked
<1> QED
  BY <1>1, <1>2

\* Where a call was before the i-th was taken out.
Origin(i, j) == IF j < i THEN j ELSE j + 1

LEMMA TakenOut ==
  ASSUME ClientTyped, NEW i \in Asked, NEW rest, rest = RemoveAt(calls, i)
  PROVE  /\ rest \in Seq(CallType) /\ \A j \in DOMAIN rest : Proper(rest[j])
         /\ \A j \in DOMAIN rest : Origin(i, j) \in Asked \ {i} /\ rest[j] = calls[Origin(i, j)]
         /\ \A j, k \in DOMAIN rest : Origin(i, j) = Origin(i, k) => j = k
         /\ \A k \in Asked \ {i} : \E j \in DOMAIN rest : rest[j] = calls[k]
<1>1. calls \in Seq(CallType) /\ \A j \in Asked : Proper(calls[j])
  BY DEF ClientTyped
<1>2. Len(calls) \in Nat /\ Asked = 1 .. Len(calls)
  BY <1>1 DEF Asked
<1>3. /\ rest \in Seq(CallType) /\ Len(rest) = Len(calls) - 1
      /\ \A j \in 1 .. Len(calls) - 1 : rest[j] = calls[Origin(i, j)]
  BY <1>1, RemoveAtFacts DEF Asked, Origin
<1>4. DOMAIN rest = 1 .. Len(calls) - 1
  BY <1>3
<1>5. \A j \in 1 .. Len(calls) - 1 : Origin(i, j) \in Asked \ {i}
  BY <1>2 DEF Origin
<1>6. \A j, k \in 1 .. Len(calls) - 1 : Origin(i, j) = Origin(i, k) => j = k
  BY <1>2 DEF Origin
<1>7. ASSUME NEW k \in Asked \ {i}
      PROVE  \E j \in DOMAIN rest : rest[j] = calls[k]
  <2> DEFINE j == IF k < i THEN k ELSE k - 1
  <2>1. j \in 1 .. Len(calls) - 1 /\ Origin(i, j) = k
    BY <1>2 DEF Origin
  <2> QED
    BY <2>1, <1>3, <1>4
<1> QED
  BY <1>1, <1>3, <1>4, <1>5, <1>6, <1>7

LEMMA Refetched ==
  ASSUME NEW rest \in Seq(CallType), \A j \in DOMAIN rest : Proper(rest[j]),
         NEW p \in Places, NEW after, after = RefreshedFrom(rest, p)
  PROVE  /\ after \in Seq(CallType) /\ \A j \in DOMAIN after : Proper(after[j])
         /\ DOMAIN rest \subseteq DOMAIN after
         /\ \A j \in DOMAIN rest : after[j] = rest[j]
         /\ \A j \in (DOMAIN after) \ (DOMAIN rest) : after[j] = Fetch(p)
         /\ p.folder # "screener" => \E j \in DOMAIN after : after[j] = Fetch(p)
<1>1. Fetch(p) \in CallType /\ Proper(Fetch(p))
  BY FetchFacts
<1>2. CASE p.folder = "screener"
  BY <1>2 DEF RefreshedFrom
<1>3. CASE p.folder # "screener"
  <2>1. after = Append(rest, Fetch(p))
    BY <1>3 DEF RefreshedFrom
  <2>2. /\ after \in Seq(CallType)
        /\ DOMAIN after = (DOMAIN rest) \cup {Len(rest) + 1}
        /\ after[Len(rest) + 1] = Fetch(p)
        /\ \A j \in DOMAIN rest : after[j] = rest[j]
    BY <1>1, <2>1, AppendFacts
  <2> QED
    BY <1>1, <2>2
<1> QED
  BY <1>2, <1>3

Reply(c, v, rows) == [c EXCEPT !.state = "back", !.ver = v, !.answer = rows]
Broken(c) == [c EXCEPT !.state = "failed"]
Same(c, d) == c.kind = d.kind /\ c.place = d.place /\ c.with = d.with

LEMMA ReplyFacts ==
  ASSUME NEW c \in CallType, NEW v \in Nat,
         NEW rows \in {NONE} \cup (SUBSET SummaryType) \cup Seq(Msgs)
  PROVE  /\ Reply(c, v, rows) \in CallType /\ Same(Reply(c, v, rows), c)
         /\ Reply(c, v, rows).state = "back" /\ Reply(c, v, rows).ver = v
         /\ Reply(c, v, rows).answer = rows
  BY DEF Reply, CallType, Same, States

LEMMA BrokenFacts ==
  ASSUME NEW c \in CallType
  PROVE  /\ Broken(c) \in CallType /\ Same(Broken(c), c) /\ Broken(c).state = "failed"
         /\ Proper(c) => Proper(Broken(c))
<1>1. Broken(c) \in CallType /\ Same(Broken(c), c) /\ Broken(c).state = "failed"
  BY DEF Broken, CallType, Same, States
<1> QED
  BY <1>1 DEF Proper, Same

LEMMA EditForms ==
  ASSUME ClientTyped, NEW i \in Asked
  PROVE  /\ [calls EXCEPT ![i].state = "failed"] = [calls EXCEPT ![i] = Broken(calls[i])]
         /\ calls[i] \in CallType /\ Proper(calls[i])
<1>1. calls \in Seq(CallType) /\ \A j \in Asked : Proper(calls[j])
  BY DEF ClientTyped
<1>2. calls[i] \in CallType /\ Proper(calls[i])
  BY <1>1 DEF Asked
<1> QED
  BY <1>2 DEF Broken

LEMMA AnswerForm ==
  ASSUME ClientTyped, NEW i \in Asked, NEW v, NEW rows
  PROVE  Answered(i, v, rows) = [calls EXCEPT ![i] = Reply(calls[i], v, rows)]
  BY EditForms DEF Answered, Reply

-----------------------------------------------------------------------------
(* What becomes of the rows *)

LEMMA ChangedRows ==
  ASSUME mail \in MailType, NEW ids, NEW a
  PROVE  /\ Changed(ids, a) \in MailType
         /\ \A m \in Msgs : Changed(ids, a)[m] # mail[m] => m \in ids
<1>1. \A m \in Msgs : mail[m] \in [folder : MailFolders \cup {"coming", "gone"}, read : BOOLEAN]
  BY DEF MailType
<1> DEFINE R == [folder : MailFolders \cup {"coming", "gone"}, read : BOOLEAN]
           F(m) == IF m \notin ids THEN mail[m]
                   ELSE CASE a = "read" -> [mail[m] EXCEPT !.read = TRUE]
                          [] a = "unread" -> [mail[m] EXCEPT !.read = FALSE]
                          [] a \in {"inbox", "trust"} -> [mail[m] EXCEPT !.folder = "inbox"]
                          [] a \in {"trash", "reject"} -> [mail[m] EXCEPT !.folder = "trash"]
                          [] OTHER -> [mail[m] EXCEPT !.folder = "gone"]
<1>2. ASSUME NEW r \in R
      PROVE  /\ [r EXCEPT !.read = TRUE] \in R /\ [r EXCEPT !.read = FALSE] \in R
             /\ [r EXCEPT !.folder = "inbox"] \in R /\ [r EXCEPT !.folder = "trash"] \in R
             /\ [r EXCEPT !.folder = "gone"] \in R
  BY DEF MailFolders
<1>3. ASSUME NEW m \in Msgs
      PROVE  F(m) \in R /\ (m \notin ids => F(m) = mail[m])
  <2>1. /\ mail[m] \in R
        /\ [mail[m] EXCEPT !.read = TRUE] \in R /\ [mail[m] EXCEPT !.read = FALSE] \in R
        /\ [mail[m] EXCEPT !.folder = "inbox"] \in R /\ [mail[m] EXCEPT !.folder = "trash"] \in R
        /\ [mail[m] EXCEPT !.folder = "gone"] \in R
    BY <1>1, <1>2
  <2> HIDE DEF R
  <2> QED
    BY <2>1
<1>4. Changed(ids, a) = [m \in Msgs |-> F(m)]
  BY DEF Changed
<1> HIDE DEF F, R
<1>5. [m \in Msgs |-> F(m)] \in [Msgs -> R] /\ \A m \in Msgs : [n \in Msgs |-> F(n)][m] = F(m)
  BY <1>3
<1>6. MailType = [Msgs -> R]
  BY DEF MailType, R
<1> QED
  BY <1>3, <1>4, <1>5, <1>6

\* A change of the rows of the mailboxes bs, and what the client hears of it.
MailMoves(bs) ==
  /\ mail' \in MailType /\ bs \in SUBSET Boxes
  /\ \A m \in Msgs : mail'[m] # mail[m] => BoxOf[m] \in bs
  /\ version' = version + 1
  /\ Heard(bs)

LEMMA ChangeMoves ==
  ASSUME mail \in MailType, NEW ids \in SUBSET Msgs, NEW a, Change(ids, a)
  PROVE  MailMoves(Published(ids, a))
<1>1. mail' \in MailType /\ \A m \in Msgs : mail'[m] # mail[m] => m \in ids
  BY ChangedRows DEF Change
<1>2. Published(ids, a) \in SUBSET Boxes
  BY WebmailConstants DEF Published
<1> QED
  BY <1>1, <1>2 DEF Change, MailMoves, Published

\* What the client hears of a change is of its place, or it did not listen.
LEMMA HeardFacts ==
  ASSUME ClientTyped, NEW bs \in SUBSET Boxes, Heard(bs)
  PROVE  /\ events' \in Seq(Boxes) /\ stale' \in BOOLEAN /\ UNCHANGED <<stream, messages, results, seen>>
         /\ \A i \in DOMAIN events : i \in DOMAIN events' /\ events'[i] = events[i]
         /\ place.box \in bs => stale' \/ \E i \in DOMAIN events' : events'[i] = place.box
         /\ stale => stale'
<1>1. /\ events \in Seq(Boxes) /\ stream \in {"opening", "up"} /\ stale \in BOOLEAN
  BY DEF ClientTyped
<1>2. IsFiniteSet(bs)
  BY WebmailConstants, FS_Subset
<1>3. /\ SetToSeq(bs) \in Seq(bs)
      /\ \A x \in bs : \E i \in DOMAIN SetToSeq(bs) : SetToSeq(bs)[i] = x
  BY <1>2, SetToSeqCovers
<1> DEFINE s == SetToSeq(bs)
<1> HIDE DEF s
<1>4. s \in Seq(Boxes) /\ \A x \in bs : \E i \in DOMAIN s : s[i] = x
  BY <1>3 DEF s
<1>5. CASE stream = "up"
  <2>1. events' = events \o s
    BY <1>5 DEF Heard, s
  <2>2. /\ events \o s \in Seq(Boxes) /\ Len(events \o s) = Len(events) + Len(s)
        /\ \A i \in 1 .. Len(events) + Len(s) : (events \o s)[i] =
             IF i <= Len(events) THEN events[i] ELSE s[i - Len(events)]
    BY <1>1, <1>4, ConcatProperties
  <2>3. \A i \in DOMAIN events : i \in DOMAIN events' /\ events'[i] = events[i]
    BY <1>1, <1>4, <2>1, <2>2
  <2>4. ASSUME place.box \in bs
        PROVE  \E i \in DOMAIN events' : events'[i] = place.box
    <3>1. PICK k \in DOMAIN s : s[k] = place.box
      BY <2>4, <1>4
    <3>2. Len(events) \in Nat /\ Len(s) \in Nat /\ k \in 1 .. Len(s)
      BY <1>1, <1>4
    <3>3. /\ Len(events) + k \in 1 .. Len(events) + Len(s)
          /\ ~(Len(events) + k <= Len(events)) /\ (Len(events) + k) - Len(events) = k
      BY <3>2
    <3>4. events'[Len(events) + k] = place.box /\ Len(events) + k \in DOMAIN events'
      BY <2>1, <2>2, <3>1, <3>3
    <3> QED
      BY <3>4
  <2> QED
    BY <1>1, <2>1, <2>2, <2>3, <2>4 DEF Heard
<1>6. CASE stream # "up"
  BY <1>1, <1>6 DEF Heard
<1> QED
  BY <1>5, <1>6
-----------------------------------------------------------------------------
(* What the owner's clicks send *)

\* Calls of the kinds K were sent, and nothing else became of the calls.
Sends(K) ==
  /\ calls' \in Seq(CallType) /\ \A i \in Asked' : Proper(calls'[i])
  /\ Asked \subseteq Asked' /\ \A i \in Asked : calls'[i] = calls[i]
  /\ \A i \in Asked' \ Asked :
       calls'[i].kind \in K /\ calls'[i].state = "sent" /\ calls'[i].place = place

LEMMA SendsOne ==
  ASSUME ClientTyped, NEW c \in CallType, Proper(c), c.state = "sent", c.place = place,
         calls' = Append(calls, c)
  PROVE  Sends({c.kind})
  BY SentOne DEF Sends

LEMMA ActSends ==
  ASSUME ClientTyped, NEW ids \in SUBSET Msgs, NEW a \in Deeds, NEW bulk \in BOOLEAN,
         Act(ids, a, bulk)
  PROVE  Sends({"act"}) /\ UNCHANGED <<server, wire, place, shown, timer, card, faults>>
<1> DEFINE w == [ids |-> ids, do |-> a, bulk |-> bulk]
           c == Call("act", place, w)
<1>1. w \in Acts
  BY DEF Acts
<1>2. place \in Places /\ "act" \in Kinds
  BY DEF ClientTyped, Kinds
<1>3. calls' = Append(calls, c)
  BY DEF Act
<1> HIDE DEF w
<1>4. c \in CallType /\ c.kind = "act" /\ c.with = w /\ c.state = "sent" /\ c.place = place
  BY <1>1, <1>2, CallFacts
<1> HIDE DEF c
<1>5. Proper(c)
  BY <1>1, <1>4 DEF Proper, FetchKinds
<1>6. Sends({c.kind})
  BY <1>3, <1>4, <1>5, SendsOne
<1> QED
  BY <1>4, <1>6 DEF Act

LEMMA OpenRowSends ==
  ASSUME ClientTyped, NEW r \in SummaryType, OpenRow(r)
  PROVE  Sends({"get", "act"}) /\ UNCHANGED <<server, wire, place, shown, picked, pane, timer, card, faults>>
<1> DEFINE g == Call("get", place, r.id)
           w == [ids |-> {r.id}, do |-> "read", bulk |-> FALSE]
           c == Call("act", place, w)
<1>0. UNCHANGED <<server, wire, place, shown, picked, pane, timer, card, faults>>
  BY DEF OpenRow
<1>1. r.id \in Msgs /\ w \in Acts
  <2>1. r.id \in Msgs
    BY DEF SummaryType
  <2>2. {r.id} \in SUBSET Msgs /\ "read" \in Deeds
    BY <2>1 DEF Deeds
  <2> QED
    BY <2>1, <2>2 DEF Acts
<1>2. place \in Places /\ "act" \in Kinds /\ "get" \in Kinds /\ calls \in Seq(CallType)
  BY DEF ClientTyped, Kinds
<1>3. calls' = Append(calls, g) \o (IF r.read THEN <<>> ELSE <<c>>)
  BY DEF OpenRow
<1> HIDE DEF w
<1>4. g \in CallType /\ g.kind = "get" /\ g.state = "sent" /\ g.place = place
  BY <1>1, <1>2, CallFacts
<1>5. c \in CallType /\ c.kind = "act" /\ c.with = w /\ c.state = "sent" /\ c.place = place
  BY <1>1, <1>2, CallFacts
<1> HIDE DEF c, g
<1>6. Proper(g) /\ Proper(c)
  BY <1>1, <1>4, <1>5 DEF Proper, FetchKinds
<1>7. Append(calls, g) \in Seq(CallType)
  BY <1>2, <1>4
<1>8. calls' = Append(calls, g) \/ calls' = Append(Append(calls, g), c)
  <2>1. Append(calls, g) \o <<>> = Append(calls, g)
    BY <1>7, ConcatEmptySeq
  <2>2. Append(calls, g) \o <<c>> = Append(Append(calls, g), c)
    BY <1>5, <1>7
  <2> QED
    BY <1>3, <2>1, <2>2
<1>9. \A i \in DOMAIN calls : Proper(calls[i])
  BY DEF ClientTyped, Asked
<1>10. CASE calls' = Append(calls, g)
  <2>1. Sends({g.kind})
    BY <1>4, <1>6, <1>10, SendsOne
  <2> QED
    BY <1>0, <1>4, <2>1 DEF Sends
<1>11. CASE calls' = Append(Append(calls, g), c)
  <2> DEFINE s == Append(calls, g)
  <2>1. /\ s \in Seq(CallType) /\ DOMAIN s = (DOMAIN calls) \cup {Len(calls) + 1}
        /\ s[Len(calls) + 1] = g /\ \A i \in DOMAIN calls : s[i] = calls[i]
    BY <1>2, <1>4, AppendFacts
  <2> HIDE DEF s
  <2>2. calls' = Append(s, c)
    BY <1>11 DEF s
  <2>3. /\ calls' \in Seq(CallType) /\ DOMAIN calls' = (DOMAIN s) \cup {Len(s) + 1}
        /\ calls'[Len(s) + 1] = c /\ \A i \in DOMAIN s : calls'[i] = s[i]
    BY <1>5, <2>1, <2>2, AppendFacts
  <2> QED
    BY <1>0, <1>4, <1>5, <1>6, <1>9, <2>1, <2>3 DEF Sends, Asked
<1> QED
  BY <1>8, <1>10, <1>11

LEMMA VisibleTyped ==
  ASSUME ClientTyped
  PROVE  Visible \in SUBSET SummaryType
  BY DEF ClientTyped, Visible

\* The owner's clicks on rows, on the bar above them and in the pane.
Clicks ==
  (\E r \in Visible : OpenRow(r)) \/ HandleBulk \/ OnRow \/ OnPane \/ OnPurge

LEMMA ClicksSend ==
  ASSUME ClientTyped, Clicks
  PROVE  Sends({"get", "act"}) /\ UNCHANGED <<server, wire, place, shown, picked, pane, timer, card>>
<1>1. Visible \in SUBSET SummaryType
  BY VisibleTyped
<1>2. Sends({"act"}) => Sends({"get", "act"})
  BY DEF Sends
<1>3. CASE \E r \in Visible : OpenRow(r)
  BY <1>1, <1>3, OpenRowSends
<1>4. CASE HandleBulk
  <2>1. PICK a \in BulkActions(place.folder) : Act(picked, a, TRUE)
    BY <1>4 DEF HandleBulk
  <2>2. picked \in SUBSET Msgs /\ a \in Deeds
    BY DEF ClientTyped, BulkActions, Deeds
  <2> QED
    BY <1>2, <1>4, <2>1, <2>2, ActSends DEF HandleBulk
<1>5. CASE OnRow
  <2>1. PICK r \in Visible : \E a \in KeyActions(r) \cup WallActions : Act({r.id}, a, FALSE)
    BY <1>5 DEF OnRow
  <2>3. PICK a \in KeyActions(r) \cup WallActions : Act({r.id}, a, FALSE)
    BY <2>1
  <2>2. {r.id} \in SUBSET Msgs /\ a \in Deeds
    BY <1>1 DEF SummaryType, KeyActions, WallActions, Deeds
  <2> QED
    BY <1>2, <1>5, <2>2, <2>3, ActSends DEF OnRow
<1>6. CASE OnPane
  <2>1. PICK a \in PaneActions(pane.folder) : Act({pane.id}, a, FALSE)
    BY <1>6 DEF OnPane
  <2>2. {pane.id} \in SUBSET Msgs /\ a \in Deeds
    BY <1>6 DEF OnPane, ClientTyped, Opened, PaneActions, Deeds
  <2> QED
    BY <1>2, <1>6, <2>1, <2>2, ActSends DEF OnPane
<1>7. CASE OnPurge
  <2>1. Act({}, "purge", TRUE)
    BY <1>7 DEF OnPurge
  <2>2. {} \in SUBSET Msgs /\ "purge" \in Deeds /\ TRUE \in BOOLEAN
    BY DEF Deeds
  <2> QED
    BY <1>2, <1>7, <2>1, <2>2, ActSends DEF OnPurge
<1> QED
  BY <1>3, <1>4, <1>5, <1>6, <1>7 DEF Clicks

LEMMA DebouncedSends ==
  ASSUME ClientTyped, Debounced
  PROVE  Sends({"typed"})
<1> DEFINE c == Call("typed", place, NONE)
<1>1. place \in Places /\ "typed" \in Kinds
  BY DEF ClientTyped, Kinds
<1>2. calls' = Append(calls, c)
  BY DEF Debounced
<1>3. c \in CallType /\ c.kind = "typed" /\ c.state = "sent" /\ c.place = place
  BY <1>1, CallFacts
<1> HIDE DEF c
<1>4. Proper(c)
  BY <1>3 DEF Proper
<1> QED
  BY <1>2, <1>3, <1>4, SendsOne

LEMMA AskQueueSends ==
  ASSUME ClientTyped, AskQueue
  PROVE  \E c \in CallType : /\ Proper(c) /\ calls' = Append(calls, c)
                             /\ c.kind = "queue" /\ c.state = "sent" /\ c.place = place
                             /\ c.with = <<card.mount, card.box>>
<1> DEFINE w == <<card.mount, card.box>>
           c == Call("queue", place, w)
<1>1. place \in Places /\ "queue" \in Kinds
  BY DEF ClientTyped, Kinds
<1>2. calls' = Append(calls, c) /\ card.box # NONE
  BY DEF AskQueue
<1>3. w \in Nat \X Boxes
  BY <1>2 DEF ClientTyped, CardType
<1> HIDE DEF w
<1>4. c \in CallType /\ c.kind = "queue" /\ c.state = "sent" /\ c.place = place /\ c.with = w
  BY <1>1, <1>3, CallFacts
<1> HIDE DEF c
<1>5. Proper(c)
  BY <1>3, <1>4 DEF Proper, FetchKinds
<1> QED
  BY <1>2, <1>4, <1>5 DEF w

LEMMA DecideSends ==
  ASSUME ClientTyped, Decide
  PROVE  \E c \in CallType : /\ Proper(c) /\ calls' = Append(calls, c)
                             /\ c.kind = "decide" /\ c.state = "sent" /\ c.place = place
                             /\ c.with.ids = {card.queue[card.idx]} /\ c.with.mount = card.mount
<1>1. PICK a \in {"trust", "reject"} :
        calls' = Append(calls, Call("decide", place,
                   [ids |-> {card.queue[card.idx]}, do |-> a, mount |-> card.mount]))
  BY DEF Decide, MayDecide
<1> DEFINE w == [ids |-> {card.queue[card.idx]}, do |-> a, mount |-> card.mount]
           c == Call("decide", place, w)
<1>2. place \in Places /\ "decide" \in Kinds
  BY DEF ClientTyped, Kinds
<1>3. calls' = Append(calls, c) /\ w.ids = {card.queue[card.idx]} /\ w.mount = card.mount
  BY <1>1
<1>4. card.queue \in Seq(Msgs) /\ card.idx \in 1 .. Len(card.queue) /\ card.mount \in Nat
  BY DEF ClientTyped, CardType, Decide, MayDecide
<1>5. w \in Decisions
  BY <1>4 DEF Decisions
<1> HIDE DEF w
<1>6. c \in CallType /\ c.kind = "decide" /\ c.state = "sent" /\ c.place = place /\ c.with = w
  BY <1>2, <1>5, CallFacts
<1> HIDE DEF c
<1>7. Proper(c)
  BY <1>5, <1>6 DEF Proper, FetchKinds
<1> QED
  BY <1>3, <1>6, <1>7

-----------------------------------------------------------------------------
(* Where the client goes *)

LEMMA MountedTyped ==
  ASSUME ClientTyped, NEW p \in Places, NEW again \in BOOLEAN
  PROVE  /\ Mounted(p, again) \in CardType
         /\ p.folder # "screener" =>
              /\ Mounted(p, again).mount = card.mount /\ Mounted(p, again).box = NONE
              /\ ~Mounted(p, again).loaded /\ ~Mounted(p, again).busy
         /\ p.folder = "screener" =>
              /\ Mounted(p, again).box = p.box /\ ~Mounted(p, again).loaded
              /\ Mounted(p, again).mount = IF again THEN card.mount ELSE card.mount + 1
              /\ again => Mounted(p, again).hurried = (card.hurried \/ card.busy)
              /\ again => Mounted(p, again).busy = card.busy
<1>1. card \in CardType /\ card.mount \in Nat /\ p.box \in Boxes
  BY DEF ClientTyped, CardType, Places
<1>2. /\ NoCard \in CardType /\ NoCard.box = NONE /\ ~NoCard.loaded /\ ~NoCard.busy
  BY DEF NoCard, CardType
<1>3. CASE p.folder # "screener"
  <2>1. Mounted(p, again) = [NoCard EXCEPT !.mount = card.mount]
    BY <1>3 DEF Mounted
  <2> QED
    BY <1>1, <1>2, <1>3, <2>1 DEF CardType
<1>4. CASE p.folder = "screener" /\ again
  <2>1. Mounted(p, again) = [card EXCEPT !.box = p.box, !.loaded = FALSE,
                                         !.hurried = card.hurried \/ card.busy]
    BY <1>4 DEF Mounted
  <2>2. (card.hurried \/ card.busy) \in BOOLEAN
    OBVIOUS
  <2> QED
    BY <1>1, <1>4, <2>1, <2>2 DEF CardType
<1>5. CASE p.folder = "screener" /\ ~again
  <2>1. Mounted(p, again) = [NoCard EXCEPT !.box = p.box, !.mount = card.mount + 1]
    BY <1>5 DEF Mounted
  <2>2. card.mount + 1 \in Nat
    BY <1>1
  <2> QED
    BY <1>1, <1>2, <1>5, <2>1, <2>2 DEF CardType
<1> QED
  BY <1>3, <1>4, <1>5
Goes == (\E f \in MailFolders \cup {"screener"} : OnFolder(f)) \/ (\E b \in Boxes : OnMailbox(b))
          \/ OnSearchChange \/ OnDoneForNow

LEMMA GoesSomewhere ==
  ASSUME ClientTyped, Goes
  PROVE  \E p \in Places : /\ Goto(p) /\ Opens(p)
                           /\ picked' \in SUBSET Msgs /\ pane' \in Opened \cup {NONE}
<1>1. place \in Places /\ picked \in SUBSET Msgs /\ pane \in Opened \cup {NONE}
  BY DEF ClientTyped
<1>2. ASSUME NEW f \in MailFolders \cup {"screener"}, OnFolder(f)
      PROVE  \E p \in Places : /\ Goto(p) /\ Opens(p)
                               /\ picked' \in SUBSET Msgs /\ pane' \in Opened \cup {NONE}
  <2> DEFINE p == [place EXCEPT !.folder = f, !.query = FALSE]
  <2>1. p \in Places
    BY <1>1 DEF Places
  <2>2. Goto(p) /\ Opens(p) /\ picked' = {} /\ pane' = NONE
    BY <1>2 DEF OnFolder
  <2> QED
    BY <2>1, <2>2
<1>3. ASSUME NEW b \in Boxes, OnMailbox(b)
      PROVE  \E p \in Places : /\ Goto(p) /\ Opens(p)
                               /\ picked' \in SUBSET Msgs /\ pane' \in Opened \cup {NONE}
  <2> DEFINE p == [place EXCEPT !.box = b]
  <2>1. p \in Places
    BY <1>1 DEF Places
  <2>2. Goto(p) /\ Opens(p) /\ UNCHANGED <<picked, pane>>
    BY <1>3 DEF OnMailbox
  <2> QED
    BY <1>1, <2>1, <2>2
<1>4. ASSUME OnSearchChange
      PROVE  \E p \in Places : /\ Goto(p) /\ Opens(p)
                               /\ picked' \in SUBSET Msgs /\ pane' \in Opened \cup {NONE}
  <2> DEFINE p == [place EXCEPT !.query = ~place.query]
  <2>1. p \in Places /\ p.folder = place.folder /\ p.box = place.box
    BY <1>1 DEF Places
  <2>2. Goto(p) /\ UNCHANGED <<card, picked, pane>>
    BY <1>4 DEF OnSearchChange
  <2>3. Opens(p)
    BY <2>1, <2>2 DEF Opens
  <2> QED
    BY <1>1, <2>1, <2>2, <2>3
<1>5. ASSUME OnDoneForNow
      PROVE  \E p \in Places : /\ Goto(p) /\ Opens(p)
                               /\ picked' \in SUBSET Msgs /\ pane' \in Opened \cup {NONE}
  <2> DEFINE p == [place EXCEPT !.folder = "inbox"]
  <2>1. p \in Places
    BY <1>1 DEF Places, MailFolders
  <2>2. Goto(p) /\ Opens(p) /\ UNCHANGED <<picked, pane>>
    BY <1>5 DEF OnDoneForNow
  <2> QED
    BY <1>1, <2>1, <2>2
<1> QED
  BY <1>2, <1>3, <1>4, <1>5 DEF Goes

LEMMA GotoFacts ==
  ASSUME ClientTyped, NEW p \in Places, Goto(p)
  PROVE  /\ calls' \in Seq(CallType) /\ \A i \in Asked' : Proper(calls'[i])
         /\ Asked \subseteq Asked' /\ \A i \in Asked : calls'[i] = calls[i]
         /\ \A i \in Asked' \ Asked : calls'[i] = Fetch(p)
         /\ p.folder # "screener" => \E i \in Asked' : calls'[i] = Fetch(p)
         /\ results' = ResultsFrom(p) /\ results' \in (SUBSET SummaryType) \cup {NONE}
         /\ place' = p /\ p # place /\ stream' = "opening" /\ events' = <<>> /\ seen' = 0
         /\ UNCHANGED <<mail, decided, version, messages, stale>>
         /\ timer' = (p.query /\ p.folder # "screener")
<1>1. /\ calls \in Seq(CallType) /\ \A i \in DOMAIN calls : Proper(calls[i])
      /\ results \in (SUBSET SummaryType) \cup {NONE}
  BY DEF ClientTyped, Asked
<1>2. calls' = RefreshedFrom(calls, p)
  BY DEF Goto
<1>3. /\ calls' \in Seq(CallType) /\ \A i \in Asked' : Proper(calls'[i])
      /\ Asked \subseteq Asked' /\ \A i \in Asked : calls'[i] = calls[i]
      /\ \A i \in Asked' \ Asked : calls'[i] = Fetch(p)
      /\ p.folder # "screener" => \E i \in Asked' : calls'[i] = Fetch(p)
  BY <1>1, <1>2, Refetched DEF Asked
<1> QED
  BY <1>1, <1>3 DEF Goto, ResultsFrom, server

-----------------------------------------------------------------------------
(* What the server does *)

LEMMA ServeFetchFacts ==
  ASSUME ClientTyped, NEW i \in Asked, ServeFetch(i)
  PROVE  /\ calls[i].state = "sent" /\ calls[i].kind \in FetchKinds \cup {"get", "queue"}
         /\ UNCHANGED <<server, wire, place, shown, picked, pane, timer, card, counters>>
         /\ \E rows : /\ calls' = [calls EXCEPT ![i] = Reply(calls[i], version, rows)]
                      /\ rows \in {NONE} \cup (SUBSET SummaryType) \cup Seq(Msgs)
                      /\ Proper(Reply(calls[i], version, rows))
                      /\ calls[i].kind = "list" => rows = Listing(calls[i].place.box, calls[i].place.folder)
                      /\ calls[i].kind \in {"search", "typed"} => rows = Found(calls[i].place.box)
<1> DEFINE c == calls[i]
           rows == CASE c.kind = "list" -> Listing(c.place.box, c.place.folder)
                     [] c.kind \in {"search", "typed"} -> Found(c.place.box)
                     [] c.kind = "queue" -> Waiting(c.with[2])
                     [] OTHER -> {Summary(m) : m \in {c.with} \cap Live}
<1>1. /\ c.state = "sent" /\ c.kind \in FetchKinds \cup {"get", "queue"}
      /\ calls' = Answered(i, version, rows)
      /\ UNCHANGED <<server, wire, place, shown, picked, pane, timer, card, counters>>
  BY DEF ServeFetch, FetchKinds
<1>2. mail \in MailType /\ version \in Nat
  BY DEF ClientTyped
<1>3. /\ calls' = [calls EXCEPT ![i] = Reply(c, version, rows)]
      /\ c \in CallType /\ Proper(c)
  <2>1. Answered(i, version, rows) = [calls EXCEPT ![i] = Reply(c, version, rows)]
    BY AnswerForm
  <2> QED
    BY <1>1, <2>1, EditForms
<1>4. c.kind \in FetchKinds \cup {"get"} => rows \in SUBSET SummaryType
  BY <1>2, TruthTyped, SummaryTyped DEF FetchKinds
<1>5. c.kind = "queue" => rows \in Seq(Msgs)
  <2>1. ASSUME c.kind = "queue"
        PROVE  rows = LatestFirst({r.id : r \in Listing(c.with[2], "quarantine")} \ decided)
    BY <2>1 DEF Waiting
  <2>2. {r.id : r \in Listing(c.with[2], "quarantine")} \ decided \in SUBSET Msgs
    BY <1>2, TruthTyped DEF Live
  <2> QED
    BY <2>1, <2>2, WebmailConstants, FS_Subset, LatestFirstSorts
<1>6. /\ c.kind = "list" => rows = Listing(c.place.box, c.place.folder)
      /\ c.kind \in {"search", "typed"} => rows = Found(c.place.box)
  OBVIOUS
<1> HIDE DEF rows
<1>7. rows \in {NONE} \cup (SUBSET SummaryType) \cup Seq(Msgs)
  BY <1>1, <1>4, <1>5
<1>8. Proper(Reply(c, version, rows))
  <2> DEFINE d == Reply(c, version, rows)
  <2>1. Same(d, c) /\ d.state = "back" /\ d.answer = rows
    BY <1>2, <1>3, <1>7, ReplyFacts
  <2>2. d.kind = c.kind /\ d.with = c.with
    BY <2>1 DEF Same
  <2> HIDE DEF d
  <2>3. d.kind \in FetchKinds \cup {"get"} => d.answer \in SUBSET SummaryType
    BY <1>4, <2>1, <2>2
  <2>4. d.kind = "queue" => d.answer \in Seq(Msgs) /\ d.with \in Nat \X Boxes
    BY <1>3, <1>5, <2>1, <2>2 DEF Proper
  <2>5. d.kind # "act" /\ d.kind # "decide"
    BY <1>1, <2>2 DEF FetchKinds
  <2>6. Proper(d)
    BY <2>3, <2>4, <2>5 DEF Proper
  <2> QED
    BY <2>6 DEF d
<1> QED
  BY <1>1, <1>3, <1>6, <1>7, <1>8

LEMMA TargetsTyped ==
  ASSUME mail \in MailType, NEW c
  PROVE  Targets(c) \in SUBSET Msgs
<1>1. {r.id : r \in Listing(c.place.box, "quarantine")} \in SUBSET Msgs
  BY TruthTyped DEF Live
<1> QED
  BY <1>1 DEF Targets, Live

\* Only the calls about one message fail of themselves.
LEMMA ServeActFacts ==
  ASSUME ClientTyped, NEW i \in Asked, ServeAct(i)
  PROVE  /\ calls[i].state = "sent" /\ calls[i].kind \in {"act", "decide"}
         /\ UNCHANGED <<place, picked, pane, timer, card, counters>>
         /\ \/ /\ calls' = [calls EXCEPT ![i] = Broken(calls[i])] /\ calls[i].kind = "act"
               /\ UNCHANGED <<server, wire, shown>>
            \/ /\ calls' = [calls EXCEPT ![i] = Reply(calls[i], version + 1, {})]
               /\ Reply(calls[i], version + 1, {}) \in CallType /\ Proper(Reply(calls[i], version + 1, {}))
               /\ \E bs \in SUBSET Boxes : MailMoves(bs)
               /\ decided' \in SUBSET Msgs /\ decided \subseteq decided'
               /\ calls[i].kind = "decide" => calls[i].with.ids \subseteq decided'
<1> DEFINE c == calls[i]
<1>1. c.state = "sent" /\ c.kind \in {"act", "decide"} /\ UNCHANGED <<place, picked, pane, timer, card, counters>>
  BY DEF ServeAct
<1>2. mail \in MailType /\ version \in Nat
  BY DEF ClientTyped
<1>3. c \in CallType /\ Proper(c)
  BY EditForms
<1>4. CASE c.kind = "act" /\ ~c.with.bulk /\ Targets(c) = {}
  <2>1. calls' = [calls EXCEPT ![i].state = "failed"] /\ UNCHANGED <<server, wire, shown>>
    BY <1>4 DEF ServeAct
  <2>2. calls' = [calls EXCEPT ![i] = Broken(c)]
    BY <2>1, EditForms
  <2> QED
    BY <1>1, <1>4, <2>1, <2>2
<1>5. CASE ~(c.kind = "act" /\ ~c.with.bulk /\ Targets(c) = {})
  <2>1. /\ Change(Targets(c), c.with.do)
        /\ decided' = Ruled(c.with.ids, c.with.do)
        /\ calls' = Answered(i, version + 1, {})
    BY <1>5 DEF ServeAct
  <2>2. calls' = [calls EXCEPT ![i] = Reply(c, version + 1, {})]
    BY <2>1, AnswerForm
  <2>3. Targets(c) \in SUBSET Msgs
    BY <1>2, TargetsTyped
  <2>4. MailMoves(Published(Targets(c), c.with.do))
    BY <1>2, <2>1, <2>3, ChangeMoves
  <2>5. Published(Targets(c), c.with.do) \in SUBSET Boxes
    BY <2>4 DEF MailMoves
  <2>6. decided' \in SUBSET Msgs /\ decided \subseteq decided'
    <3>1. decided \in SUBSET Msgs
      BY DEF ClientTyped
    <3>2. c.with.ids \in SUBSET Msgs
      BY <1>1, <1>3 DEF Proper, Acts, Decisions
    <3> QED
      BY <2>1, <3>1, <3>2 DEF Ruled
  <2>7. ASSUME c.kind = "decide"
        PROVE  c.with.ids \subseteq decided'
    <3>1. c.with \in Decisions
      BY <1>3, <2>7 DEF Proper
    <3>2. c.with.do \in {"trust", "reject"}
      BY <3>1 DEF Decisions
    <3> QED
      BY <2>1, <3>2 DEF Ruled
  <2>8. version + 1 \in Nat /\ {} \in SUBSET SummaryType
    BY <1>2
  <2>9. Reply(c, version + 1, {}) \in CallType /\ Same(Reply(c, version + 1, {}), c)
    BY <1>3, <2>8, ReplyFacts
  <2>10. Proper(Reply(c, version + 1, {}))
    BY <1>1, <1>3, <2>9 DEF Proper, Same, FetchKinds
  <2> QED
    BY <1>1, <2>2, <2>4, <2>5, <2>6, <2>7, <2>9, <2>10
<1> QED
  BY <1>4, <1>5

LEMMA ElsewhereFacts ==
  ASSUME ClientTyped, Elsewhere
  PROVE  /\ UNCHANGED <<place, picked, pane, timer, card, calls, faults>>
         /\ \E bs \in SUBSET Boxes : MailMoves(bs)
         /\ decided' \in SUBSET Msgs /\ decided \subseteq decided'
<1>1. mail \in MailType /\ decided \in SUBSET Msgs
  BY DEF ClientTyped
<1>2. UNCHANGED <<place, picked, pane, timer, card, calls, faults>>
  BY DEF Elsewhere
<1>3. Live \subseteq Msgs
  BY DEF Live
<1>4. ASSUME NEW m \in Msgs, NEW f \in {"inbox", "quarantine"},
             mail' = [mail EXCEPT ![m].folder = f], version' = version + 1, Heard({BoxOf[m]})
      PROVE  \E bs \in SUBSET Boxes : MailMoves(bs)
  <2>1. mail' \in MailType /\ \A n \in Msgs : n # m => mail'[n] = mail[n]
    BY <1>1, <1>4 DEF MailType, MailFolders
  <2>2. {BoxOf[m]} \in SUBSET Boxes
    BY WebmailConstants
  <2>3. MailMoves({BoxOf[m]})
    BY <1>4, <2>1, <2>2 DEF MailMoves
  <2> QED
    BY <2>2, <2>3
<1>5. ASSUME NEW m \in Live, NEW a, Change({m}, a)
      PROVE  \E bs \in SUBSET Boxes : MailMoves(bs)
  <2>1. {m} \in SUBSET Msgs
    BY <1>3
  <2>2. MailMoves(Published({m}, a))
    BY <1>1, <1>5, <2>1, ChangeMoves
  <2> QED
    BY <2>2 DEF MailMoves
<1>6. CASE \E m \in Msgs, f \in {"inbox", "quarantine"} :
             /\ mail[m].folder = "coming"
             /\ mail' = [mail EXCEPT ![m].folder = f]
             /\ version' = version + 1 /\ UNCHANGED decided
             /\ Heard({BoxOf[m]})
  BY <1>1, <1>2, <1>4, <1>6
<1>7. CASE \E m \in Live, a \in {"read", "trash", "trust"} :
             Change({m}, a) /\ decided' = Ruled({m}, a)
  BY <1>1, <1>2, <1>3, <1>5, <1>7 DEF Ruled
<1>8. CASE \E m \in Live : mail[m].folder = "quarantine" /\ Change({m}, "delete") /\ UNCHANGED decided
  BY <1>1, <1>2, <1>5, <1>8
<1> QED
  BY <1>6, <1>7, <1>8 DEF Elsewhere
-----------------------------------------------------------------------------
(* What the client makes of an answer *)

\* The i-th call is done with; the calls sent for it, if any, are in new.
Drops(i, new) ==
  /\ calls' \in Seq(CallType) /\ \A j \in Asked' : Proper(calls'[j])
  /\ \A j \in Asked' : \/ calls'[j] \in new
                       \/ Origin(i, j) \in Asked \ {i} /\ calls'[j] = calls[Origin(i, j)]
  /\ \A k \in Asked \ {i} : \E j \in Asked' : calls'[j] = calls[k]

LEMMA OriginInjective ==
  ASSUME NEW i \in Nat, NEW j \in Nat, NEW k \in Nat, Origin(i, j) = Origin(i, k)
  PROVE  j = k
  BY DEF Origin

LEMMA RemoveDrops ==
  ASSUME ClientTyped, NEW i \in Asked, calls' = RemoveAt(calls, i)
  PROVE  Drops(i, {})
  BY TakenOut DEF Drops, Asked

LEMMA RefreshedDrops ==
  ASSUME ClientTyped, NEW i \in Asked, NEW p \in Places, Refreshed(i, p)
  PROVE  /\ Drops(i, {Fetch(p)})
         /\ p.folder # "screener" => \E j \in Asked' : calls'[j] = Fetch(p)
         /\ results' = ResultsFrom(p) /\ results' \in (SUBSET SummaryType) \cup {NONE}
         /\ stale' = (stale \/ p # place) /\ UNCHANGED <<messages, seen>>
<1> DEFINE rest == RemoveAt(calls, i)
<1>1. /\ rest \in Seq(CallType) /\ \A j \in DOMAIN rest : Proper(rest[j])
      /\ \A j \in DOMAIN rest : Origin(i, j) \in Asked \ {i} /\ rest[j] = calls[Origin(i, j)]
      /\ \A k \in Asked \ {i} : \E j \in DOMAIN rest : rest[j] = calls[k]
  BY TakenOut
<1>2. calls' = RefreshedFrom(rest, p)
  BY DEF Refreshed
<1> HIDE DEF rest
<1>3. /\ calls' \in Seq(CallType) /\ \A j \in DOMAIN calls' : Proper(calls'[j])
      /\ DOMAIN rest \subseteq DOMAIN calls'
      /\ \A j \in DOMAIN rest : calls'[j] = rest[j]
      /\ \A j \in (DOMAIN calls') \ (DOMAIN rest) : calls'[j] = Fetch(p)
      /\ p.folder # "screener" => \E j \in DOMAIN calls' : calls'[j] = Fetch(p)
  BY <1>1, <1>2, Refetched
<1>4. Drops(i, {Fetch(p)})
  BY <1>1, <1>3 DEF Drops, Asked
<1>5. results \in (SUBSET SummaryType) \cup {NONE}
  BY DEF ClientTyped
<1> QED
  BY <1>3, <1>4, <1>5 DEF Refreshed, ResultsFrom, Asked

LEMMA EventFacts ==
  ASSUME ClientTyped, Event
  PROVE  /\ calls' \in Seq(CallType) /\ \A i \in Asked' : Proper(calls'[i])
         /\ Asked \subseteq Asked' /\ \A i \in Asked : calls'[i] = calls[i]
         /\ \A i \in Asked' \ Asked : calls'[i] = Fetch(place)
         /\ events' \in Seq(Boxes) /\ results' \in (SUBSET SummaryType) \cup {NONE}
         /\ UNCHANGED <<server, stream, place, messages, seen, stale, picked, pane, timer, card, counters>>
         /\ \/ /\ results' = ResultsFrom(place)
               /\ place.folder # "screener" => \E i \in Asked' : calls'[i] = Fetch(place)
            \/ /\ UNCHANGED <<calls, results>>
               /\ \A i \in DOMAIN events : events[i] = place.box =>
                    \E j \in DOMAIN events' : events'[j] = place.box
<1>1. /\ calls \in Seq(CallType) /\ \A i \in DOMAIN calls : Proper(calls[i])
      /\ results \in (SUBSET SummaryType) \cup {NONE}
      /\ events \in Seq(Boxes) /\ place \in Places
  BY DEF ClientTyped, Asked
<1>2. events # <<>> /\ events' = Tail(events)
  BY DEF Event
<1>3. /\ events' \in Seq(Boxes) /\ Len(events') = Len(events) - 1
      /\ \A i \in 1 .. Len(events') : events'[i] = events[i + 1]
  BY <1>1, <1>2, HeadTailProperties
<1>4. UNCHANGED <<server, stream, place, messages, seen, stale, picked, pane, timer, card, counters>>
  BY DEF Event
<1>5. CASE Head(events) = place.box
  <2>1. calls' = RefreshedFrom(calls, place) /\ results' = ResultsFrom(place)
    BY <1>5 DEF Event
  <2>2. /\ calls' \in Seq(CallType) /\ \A i \in Asked' : Proper(calls'[i])
        /\ Asked \subseteq Asked' /\ \A i \in Asked : calls'[i] = calls[i]
        /\ \A i \in Asked' \ Asked : calls'[i] = Fetch(place)
        /\ place.folder # "screener" => \E i \in Asked' : calls'[i] = Fetch(place)
    BY <1>1, <2>1, Refetched DEF Asked
  <2>3. results' \in (SUBSET SummaryType) \cup {NONE}
    BY <1>1, <2>1 DEF ResultsFrom
  <2> QED
    BY <1>3, <1>4, <2>1, <2>2, <2>3
<1>6. CASE Head(events) # place.box
  <2>1. UNCHANGED <<calls, results>>
    BY <1>6 DEF Event
  <2>2. ASSUME NEW i \in DOMAIN events, events[i] = place.box
        PROVE  \E j \in DOMAIN events' : events'[j] = place.box
    <3>1. i \in 1 .. Len(events) /\ Len(events) \in Nat
      BY <1>1
    <3>2. i # 1
      BY <1>1, <1>2, <1>6, <2>2
    <3>3. i - 1 \in 1 .. Len(events') /\ (i - 1) + 1 = i
      BY <1>3, <3>1, <3>2
    <3>4. i - 1 \in DOMAIN events' /\ events'[i - 1] = place.box
      BY <1>3, <2>2, <3>3
    <3> QED
      BY <3>4
  <2> QED
    BY <1>1, <1>3, <1>4, <2>1, <2>2 DEF Asked
<1> QED
  BY <1>5, <1>6
-----------------------------------------------------------------------------
(* The parts keep their types *)

LEMMA ClientInitTyped ==
  ASSUME WebmailInit
  PROVE  ClientTyped
<1>1. place \in Places /\ calls = <<Fetch(place)>> /\ decided = {}
  BY DEF WebmailInit, Places, MailFolders
<1>2. Fetch(place) \in CallType /\ Proper(Fetch(place))
  BY <1>1, FetchFacts
<1>3. calls \in Seq(CallType) /\ \A i \in Asked : Proper(calls[i])
  BY <1>1, <1>2 DEF Asked
<1>4. card \in CardType
  BY DEF WebmailInit, NoCard, CardType
<1>5. mail \in MailType
  <2>1. [folder : {"inbox", "quarantine", "coming"}, read : {FALSE}]
          \subseteq [folder : MailFolders \cup {"coming", "gone"}, read : BOOLEAN]
    BY DEF MailFolders
  <2> QED
    BY <2>1 DEF WebmailInit, MailType
<1>6. /\ stream = "opening" /\ events = <<>> /\ timer = FALSE /\ stale = FALSE
      /\ version = 0 /\ seen = 0
  BY DEF WebmailInit
<1>8. <<>> \in Seq(Boxes)
  OBVIOUS
<1>7. /\ messages \in SUBSET SummaryType /\ results \in (SUBSET SummaryType) \cup {NONE}
      /\ picked \in SUBSET Msgs /\ pane \in Opened \cup {NONE}
  BY DEF WebmailInit
<1> QED
  BY <1>1, <1>3, <1>4, <1>5, <1>6, <1>7, <1>8 DEF ClientTyped

LEMMA GoesTyped ==
  ASSUME ClientTyped, Goes
  PROVE  ClientTyped'
<1>1. PICK p \in Places : /\ Goto(p) /\ Opens(p)
                          /\ picked' \in SUBSET Msgs /\ pane' \in Opened \cup {NONE}
  BY GoesSomewhere
<1>2. /\ calls' \in Seq(CallType) /\ \A i \in Asked' : Proper(calls'[i])
      /\ results' \in (SUBSET SummaryType) \cup {NONE}
      /\ place' = p /\ stream' = "opening" /\ events' = <<>> /\ seen' = 0
      /\ UNCHANGED <<mail, decided, version, messages, stale>>
      /\ timer' = (p.query /\ p.folder # "screener")
  BY <1>1, GotoFacts
<1>3. card' \in CardType
  <2>1. (place.folder = "screener") \in BOOLEAN
    OBVIOUS
  <2>2. Mounted(p, place.folder = "screener") \in CardType
    BY <2>1, MountedTyped
  <2> QED
    BY <1>1, <2>2 DEF Opens, ClientTyped
<1>4. timer' \in BOOLEAN
  BY <1>2
<1>5. /\ mail \in MailType /\ messages \in SUBSET SummaryType /\ stale \in BOOLEAN
      /\ version \in Nat /\ decided \in SUBSET Msgs
  BY DEF ClientTyped
<1> QED
  BY <1>1, <1>2, <1>3, <1>4, <1>5 DEF ClientTyped

LEMMA ClickTyped ==
  ASSUME ClientTyped, Clicks \/ Debounced \/ AskQueue \/ Decide \/ Listen \/ \E S \in SUBSET Msgs : Pick(S)
  PROVE  ClientTyped'
<1>1. CASE Clicks
  <2>1. Sends({"get", "act"}) /\ UNCHANGED <<server, wire, place, shown, picked, pane, timer, card>>
    BY <1>1, ClicksSend
  <2> QED
    BY <2>1 DEF ClientTyped, Sends, server, wire, shown
<1>2. CASE Debounced
  <2>1. Sends({"typed"})
    BY <1>2, DebouncedSends
  <2> QED
    BY <1>2, <2>1 DEF ClientTyped, Sends, Debounced, server, wire, shown
<1>3. CASE AskQueue
  <2>1. calls' \in Seq(CallType) /\ \A i \in Asked' : Proper(calls'[i])
    BY <1>3, AskQueueSends, SentOne
  <2> QED
    BY <1>3, <2>1 DEF ClientTyped, AskQueue, server, wire, shown
<1>4. CASE Decide
  <2>1. calls' \in Seq(CallType) /\ \A i \in Asked' : Proper(calls'[i])
    BY <1>4, DecideSends, SentOne
  <2>2. card' \in CardType
    BY <1>4 DEF Decide, MayDecide, ClientTyped, CardType
  <2> QED
    BY <1>4, <2>1, <2>2 DEF ClientTyped, Decide, MayDecide, server, wire, shown
<1>5. CASE Listen
  BY <1>5 DEF ClientTyped, Listen, Asked, server, shown
<1>6. CASE \E S \in SUBSET Msgs : Pick(S)
  BY <1>6 DEF ClientTyped, Pick, Asked, server, wire, shown
<1> QED
  BY <1>1, <1>2, <1>3, <1>4, <1>5, <1>6

LEMMA MovesTyped ==
  ASSUME ClientTyped, NEW bs \in SUBSET Boxes, MailMoves(bs),
         UNCHANGED <<place, picked, pane, timer, card>>, decided' \in SUBSET Msgs,
         calls' \in Seq(CallType), \A i \in Asked' : Proper(calls'[i])
  PROVE  ClientTyped'
<1>1. /\ events' \in Seq(Boxes) /\ stale' \in BOOLEAN /\ UNCHANGED <<stream, messages, results, seen>>
  BY HeardFacts DEF MailMoves
<1>2. mail' \in MailType /\ version' = version + 1
  BY DEF MailMoves
<1>3. version' \in Nat
  BY <1>2 DEF ClientTyped
<1> QED
  BY <1>1, <1>2, <1>3 DEF ClientTyped

LEMMA ServerTyped ==
  ASSUME ClientTyped, Elsewhere \/ StreamBreaks \/ \E i \in Asked : ServeFetch(i) \/ ServeAct(i) \/ Lost(i)
  PROVE  ClientTyped'
<1>1. CASE Elsewhere
  <2>1. PICK bs \in SUBSET Boxes : MailMoves(bs)
    BY <1>1, ElsewhereFacts
  <2>2. UNCHANGED <<place, picked, pane, timer, card, calls>> /\ decided' \in SUBSET Msgs
    BY <1>1, ElsewhereFacts
  <2>3. calls' \in Seq(CallType) /\ \A i \in Asked' : Proper(calls'[i])
    BY <2>2 DEF ClientTyped, Asked
  <2> QED
    BY <2>1, <2>2, <2>3, MovesTyped
<1>2. CASE StreamBreaks
  <2>1. events' \in Seq(Boxes) /\ stale' \in BOOLEAN /\ stream' = "opening"
    BY <1>2 DEF StreamBreaks, ClientTyped
  <2> QED
    BY <1>2, <2>1 DEF StreamBreaks, ClientTyped, Asked, server
<1>3. ASSUME NEW i \in Asked, ServeFetch(i)
      PROVE  ClientTyped'
  <2>1. /\ UNCHANGED <<server, wire, place, shown, picked, pane, timer, card, counters>>
        /\ \E rows : /\ calls' = [calls EXCEPT ![i] = Reply(calls[i], version, rows)]
                     /\ rows \in {NONE} \cup (SUBSET SummaryType) \cup Seq(Msgs)
                     /\ Proper(Reply(calls[i], version, rows))
    BY <1>3, ServeFetchFacts
  <2>2. calls[i] \in CallType /\ version \in Nat
    BY EditForms DEF ClientTyped
  <2>3. calls' \in Seq(CallType) /\ \A j \in Asked' : Proper(calls'[j])
    BY <2>1, <2>2, ReplyFacts, EditedOne
  <2> QED
    BY <2>1, <2>3 DEF ClientTyped, server, wire, shown
<1>4. ASSUME NEW i \in Asked, ServeAct(i)
      PROVE  ClientTyped'
  <2>1. UNCHANGED <<place, picked, pane, timer, card>>
    BY <1>4, ServeActFacts
  <2>2. CASE calls' = [calls EXCEPT ![i] = Broken(calls[i])] /\ UNCHANGED <<server, wire, shown>>
    <3>1. calls' \in Seq(CallType) /\ \A j \in Asked' : Proper(calls'[j])
      BY <2>2, EditForms, BrokenFacts, EditedOne
    <3> QED
      BY <2>1, <2>2, <3>1 DEF ClientTyped, server, wire, shown
  <2>3. CASE /\ calls' = [calls EXCEPT ![i] = Reply(calls[i], version + 1, {})]
             /\ Reply(calls[i], version + 1, {}) \in CallType /\ Proper(Reply(calls[i], version + 1, {}))
             /\ decided' \in SUBSET Msgs
             /\ \E bs \in SUBSET Boxes : MailMoves(bs)
    <3>1. calls' \in Seq(CallType) /\ \A j \in Asked' : Proper(calls'[j])
      BY <2>3, EditedOne
    <3> QED
      BY <2>1, <2>3, <3>1, MovesTyped
  <2> QED
    BY <1>4, <2>2, <2>3, ServeActFacts
<1>5. ASSUME NEW i \in Asked, Lost(i)
      PROVE  ClientTyped'
  <2>1. calls' = [calls EXCEPT ![i] = Broken(calls[i])]
    BY <1>5, EditForms DEF Lost
  <2>2. calls' \in Seq(CallType) /\ \A j \in Asked' : Proper(calls'[j])
    BY <2>1, EditForms, BrokenFacts, EditedOne
  <2> QED
    BY <1>5, <2>2 DEF ClientTyped, Lost, server, wire, shown
<1> QED
  BY <1>1, <1>2, <1>3, <1>4, <1>5

LEMMA AnswerTyped ==
  ASSUME ClientTyped,
         Event \/ \E i \in Asked : \/ TakeFetch(i) \/ TakeMessage(i) \/ TakeQueue(i)
                                   \/ TakeAct(i) \/ TakeDecide(i) \/ Failure(i)
  PROVE  ClientTyped'
<1>1. CASE Event
  <2>1. /\ calls' \in Seq(CallType) /\ \A i \in Asked' : Proper(calls'[i])
        /\ events' \in Seq(Boxes) /\ results' \in (SUBSET SummaryType) \cup {NONE}
        /\ UNCHANGED <<server, stream, place, messages, seen, stale, picked, pane, timer, card, counters>>
    BY <1>1, EventFacts
  <2> QED
    BY <2>1 DEF ClientTyped, server
<1>2. ASSUME NEW i \in Asked, TakeFetch(i)
      PROVE  ClientTyped'
  <2> DEFINE c == calls[i]
  <2>1. /\ c.state = "back" /\ c.kind \in FetchKinds
        /\ Shows(c, c.answer) /\ calls' = RemoveAt(calls, i)
        /\ UNCHANGED <<server, wire, place, picked, pane, timer, card, counters>>
    BY <1>2 DEF TakeFetch, FetchKinds
  <2>2. c \in CallType /\ Proper(c)
    BY EditForms
  <2>3. c.answer \in SUBSET SummaryType /\ c.ver \in Nat
    BY <2>1, <2>2 DEF Proper, CallType
  <2>4. calls' \in Seq(CallType) /\ \A j \in Asked' : Proper(calls'[j])
    BY <2>1, RemoveDrops DEF Drops
  <2>5. /\ messages' \in SUBSET SummaryType /\ results' \in (SUBSET SummaryType) \cup {NONE}
        /\ seen' \in Nat /\ stale' \in BOOLEAN
    BY <2>1, <2>3 DEF Shows, ClientTyped
  <2> HIDE DEF c
  <2> QED
    BY <2>1, <2>4, <2>5 DEF ClientTyped, server, wire
<1>3. ASSUME NEW i \in Asked, TakeMessage(i)
      PROVE  ClientTyped'
  <2> DEFINE c == calls[i]
  <2>1. /\ c.state = "back" /\ c.kind = "get"
        /\ pane' = IF c.answer = {} THEN NONE
                   ELSE LET r == CHOOSE r \in c.answer : TRUE
                        IN [id |-> r.id, folder |-> r.folder]
        /\ calls' = RemoveAt(calls, i)
        /\ UNCHANGED <<server, wire, place, shown, picked, timer, card, counters>>
    BY <1>3 DEF TakeMessage
  <2>2. c \in CallType /\ Proper(c)
    BY EditForms
  <2>3. c.answer \in SUBSET SummaryType
    BY <2>1, <2>2 DEF Proper
  <2>4. calls' \in Seq(CallType) /\ \A j \in Asked' : Proper(calls'[j])
    BY <2>1, RemoveDrops DEF Drops
  <2> HIDE DEF c
  <2>5. pane' \in Opened \cup {NONE}
    BY <2>1, <2>3 DEF SummaryType, Opened
  <2> QED
    BY <2>1, <2>4, <2>5 DEF ClientTyped, server, wire, shown
<1>4. ASSUME NEW i \in Asked, TakeQueue(i)
      PROVE  ClientTyped'
  <2> DEFINE c == calls[i]
  <2>1. /\ c.state = "back" /\ c.kind = "queue"
        /\ card' = IF c.with = <<card.mount, card.box>>
                     THEN [card EXCEPT !.queue = c.answer, !.idx = 1, !.loaded = TRUE] ELSE card
        /\ calls' = RemoveAt(calls, i)
        /\ UNCHANGED <<server, wire, place, shown, picked, pane, timer, counters>>
    BY <1>4 DEF TakeQueue
  <2>2. c \in CallType /\ Proper(c)
    BY EditForms
  <2>3. c.answer \in Seq(Msgs)
    BY <2>1, <2>2 DEF Proper
  <2>4. calls' \in Seq(CallType) /\ \A j \in Asked' : Proper(calls'[j])
    BY <2>1, RemoveDrops DEF Drops
  <2> HIDE DEF c
  <2>5. card' \in CardType
    <3>1. card \in CardType
      BY DEF ClientTyped
    <3>2. [card EXCEPT !.queue = c.answer, !.idx = 1, !.loaded = TRUE] \in CardType
      BY <2>3, <3>1, 1 \in Nat \ {0} DEF CardType
    <3> QED
      BY <2>1, <3>1, <3>2
  <2> QED
    BY <2>1, <2>4, <2>5 DEF ClientTyped, server, wire, shown
<1>5. ASSUME NEW i \in Asked, NEW p, p = calls[i].place, Refreshed(i, p)
      PROVE  /\ calls' \in Seq(CallType) /\ \A j \in Asked' : Proper(calls'[j])
             /\ results' \in (SUBSET SummaryType) \cup {NONE} /\ stale' \in BOOLEAN
             /\ UNCHANGED <<messages, seen>>
  <2>1. p \in Places
    BY <1>5, EditForms DEF CallType
  <2>2. /\ Drops(i, {Fetch(p)})
        /\ results' \in (SUBSET SummaryType) \cup {NONE}
        /\ stale' = (stale \/ p # place) /\ UNCHANGED <<messages, seen>>
    BY <1>5, <2>1, RefreshedDrops
  <2> QED
    BY <2>2 DEF Drops, ClientTyped
<1>6. ASSUME NEW i \in Asked, TakeAct(i)
      PROVE  ClientTyped'
  <2>1. /\ picked' \in {picked, {}} /\ Refreshed(i, calls[i].place)
        /\ UNCHANGED <<server, wire, place, pane, timer, card, counters>>
    BY <1>6 DEF TakeAct
  <2> QED
    BY <1>5, <2>1 DEF ClientTyped, server, wire
<1>7. ASSUME NEW i \in Asked, TakeDecide(i)
      PROVE  ClientTyped'
  <2>1. /\ card' \in {card, Decided(calls[i])} /\ Refreshed(i, calls[i].place)
        /\ UNCHANGED <<server, wire, place, picked, pane, timer, counters>>
    BY <1>7 DEF TakeDecide
  <2>2. card \in CardType /\ card.idx + 1 \in Nat \ {0}
    BY DEF ClientTyped, CardType
  <2>3. Decided(calls[i]) \in CardType
    BY <2>2 DEF Decided, CardType
  <2> QED
    BY <1>5, <2>1, <2>2, <2>3 DEF ClientTyped, server, wire
<1>8. ASSUME NEW i \in Asked, Failure(i)
      PROVE  ClientTyped'
  <2>1. /\ calls' = RemoveAt(calls, i)
        /\ results' \in {results, {}} /\ pane' \in {pane, NONE}
        /\ card' \in {card, Undecided(calls[i])}
        /\ stale' = (stale \/ calls[i].kind \in {"list", "search", "typed"})
        /\ UNCHANGED <<server, wire, place, messages, seen, picked, timer, counters>>
    BY <1>8 DEF Failure
  <2>2. card' \in CardType
    BY <2>1 DEF Undecided, ClientTyped, CardType
  <2>3. calls' \in Seq(CallType) /\ \A j \in Asked' : Proper(calls'[j])
    BY <2>1, RemoveDrops DEF Drops
  <2>4. results' \in (SUBSET SummaryType) \cup {NONE} /\ pane' \in Opened \cup {NONE} /\ stale' \in BOOLEAN
    BY <2>1 DEF ClientTyped
  <2> QED
    BY <2>1, <2>2, <2>3, <2>4 DEF ClientTyped, server, wire
<1> QED
  BY <1>1, <1>2, <1>3, <1>4, <1>6, <1>7, <1>8
-----------------------------------------------------------------------------
(* The list on the screen *)

\* A fetch asks for the place of the click that began it, and an answer is what the
\* server said at its version.
Straight(c) ==
  c.kind \in FetchKinds =>
    /\ c.kind = "list" <=> ~c.place.query
    /\ c.state = "back" => c.ver <= version /\ (c.ver = version => c.answer = Truth(c.place))
AllStraight ==
  /\ \A i \in Asked : Straight(calls[i])
  /\ seen <= version /\ (timer => place.query)

\* What is under way and will set right what is shown, or was answered at version v.
Mine(c) == c.kind \in FetchKinds /\ c.place = place
Comes == \E i \in DOMAIN events : events[i] = place.box
Later(c, v) == Mine(c) /\ (c.state # "back" \/ c.ver > v)
AtLeast(c, v) == Mine(c) /\ (c.state # "back" \/ c.ver >= v)
Corrected(v) == Comes \/ \E i \in Asked : Later(calls[i], v)

\* The list shown, and each answer that may yet be shown, is the server's or will be
\* corrected.
Good(c) == Mine(c) /\ c.state = "back" => c.answer = Truth(place) \/ c.ver < seen \/ Corrected(c.ver)
Fresh ==
  ~stale /\ place.folder # "screener" =>
    /\ ~place.query => results = NONE
    /\ Visible = Truth(place) \/ Comes \/ \E i \in Asked : AtLeast(calls[i], seen)
    /\ \A i \in Asked : Good(calls[i])

\* No fetch was answered or forgotten.
Carries ==
  /\ \A i \in Asked : calls[i].kind \in FetchKinds =>
       \E j \in Asked' : Same(calls'[j], calls[i]) /\ (calls'[j] = calls[i] \/ calls'[j].state # "back")
  /\ \A j \in Asked' : calls'[j].kind \in FetchKinds =>
       \/ \E i \in Asked : calls'[j] = calls[i]
       \/ calls'[j].state # "back" /\ (calls'[j].kind = "list" <=> ~calls'[j].place.query)

LEMMA FetchIsStraight ==
  ASSUME NEW p \in Places
  PROVE  Fetch(p).state # "back" /\ (Fetch(p).kind = "list" <=> ~Fetch(p).place.query)
  BY FetchFacts

LEMMA SendsCarries ==
  ASSUME NEW K, Sends(K), K \cap FetchKinds = {}
  PROVE  Carries
  BY DEF Sends, Carries, Same

LEMMA GrowsCarries ==
  ASSUME NEW p \in Places, Asked \subseteq Asked', \A i \in Asked : calls'[i] = calls[i],
         \A i \in Asked' \ Asked : calls'[i] = Fetch(p)
  PROVE  Carries
  BY FetchIsStraight DEF Carries, Same

LEMMA EditCarries ==
  ASSUME ClientTyped, AllStraight, NEW i \in Asked, NEW c \in CallType, Proper(c), Same(c, calls[i]),
         calls' = [calls EXCEPT ![i] = c], c.kind \in FetchKinds => c.state # "back"
  PROVE  Carries
<1>1. /\ Asked' = Asked /\ calls'[i] = c /\ \A j \in Asked : j # i => calls'[j] = calls[j]
  BY EditedOne
<1>2. c.kind \in FetchKinds => (c.kind = "list" <=> ~c.place.query)
  BY DEF AllStraight, Straight, Same
<1>3. ASSUME NEW k \in Asked, calls[k].kind \in FetchKinds
      PROVE  \E j \in Asked' : Same(calls'[j], calls[k]) /\ (calls'[j] = calls[k] \/ calls'[j].state # "back")
  <2>1. CASE k = i
    BY <1>1, <1>3, <2>1 DEF Same
  <2>2. CASE k # i
    BY <1>1, <2>2 DEF Same
  <2> QED
    BY <2>1, <2>2
<1>4. ASSUME NEW j \in Asked', calls'[j].kind \in FetchKinds
      PROVE  \/ \E k \in Asked : calls'[j] = calls[k]
             \/ calls'[j].state # "back" /\ (calls'[j].kind = "list" <=> ~calls'[j].place.query)
  BY <1>1, <1>2, <1>4
<1> QED
  BY <1>3, <1>4 DEF Carries

LEMMA DropsCarries ==
  ASSUME NEW i \in Asked, calls[i].kind \notin FetchKinds, NEW p \in Places,
         NEW new, new \subseteq {Fetch(p)}, Drops(i, new)
  PROVE  Carries
<1>1. ASSUME NEW k \in Asked, calls[k].kind \in FetchKinds
      PROVE  \E j \in Asked' : Same(calls'[j], calls[k]) /\ (calls'[j] = calls[k] \/ calls'[j].state # "back")
  <2>1. k \in Asked \ {i}
    BY <1>1
  <2>2. PICK j \in Asked' : calls'[j] = calls[k]
    BY <2>1 DEF Drops
  <2> QED
    BY <2>2 DEF Same
<1>2. ASSUME NEW j \in Asked', calls'[j].kind \in FetchKinds
      PROVE  \/ \E k \in Asked : calls'[j] = calls[k]
             \/ calls'[j].state # "back" /\ (calls'[j].kind = "list" <=> ~calls'[j].place.query)
  <2>1. CASE calls'[j] \in new
    <3>1. calls'[j] = Fetch(p)
      BY <2>1
    <3> QED
      BY <3>1, FetchIsStraight
  <2>2. CASE calls'[j] \notin new
    BY <2>2 DEF Drops
  <2> QED
    BY <2>1, <2>2
<1> QED
  BY <1>1, <1>2 DEF Carries

LEMMA TruthKept ==
  ASSUME UNCHANGED mail, NEW p
  PROVE  Truth(p)' = Truth(p)
  BY DEF Truth, Listing, Found, Live, Summary

\* With the rows, the versions of the answers are what they were; after a change of
\* the rows every answer is an earlier one.
LEMMA StraightKept ==
  ASSUME ClientTyped, AllStraight, Carries,
         UNCHANGED <<mail, version>> \/ version' = version + 1,
         seen' <= version', timer' => place'.query
  PROVE  AllStraight'
<1> SUFFICES ASSUME NEW j \in Asked', calls'[j].kind \in FetchKinds
             PROVE  Straight(calls[j])'
  BY DEF AllStraight, Straight
<1>1. CASE calls'[j].state # "back" /\ (calls'[j].kind = "list" <=> ~calls'[j].place.query)
  BY <1>1 DEF Straight
<1>2. CASE \E i \in Asked : calls'[j] = calls[i]
  <2>1. PICK i \in Asked : calls'[j] = calls[i]
    BY <1>2
  <2>2. Straight(calls[i]) /\ calls[i].kind \in FetchKinds
    BY <2>1 DEF AllStraight
  <2>3. calls[i].ver \in Nat /\ version \in Nat
    BY EditForms DEF CallType, ClientTyped
  <2>4. CASE UNCHANGED <<mail, version>>
    <3>1. PICK p : p = calls[i].place
      OBVIOUS
    <3>2. Truth(p)' = Truth(p)
      BY <2>4, TruthKept
    <3>3. Truth(calls[j].place)' = Truth(calls[i].place)
      BY <2>1, <3>1, <3>2
    <3> QED
      BY <2>1, <2>2, <2>4, <3>3 DEF Straight
  <2>5. CASE version' = version + 1
    <3>1. calls[i].ver <= version => calls[i].ver <= version' /\ calls[i].ver # version'
      BY <2>3, <2>5
    <3> QED
      BY <2>1, <2>2, <3>1 DEF Straight
  <2> QED
    BY <2>4, <2>5
<1> QED
  BY <1>1, <1>2 DEF Carries

\* What is shown and what corrects it stay.
LEMMA FreshKept ==
  ASSUME ClientTyped, Fresh, Carries, Truth(place)' = Truth(place),
         UNCHANGED <<place, messages, results, seen>>, stale => stale', Comes => Comes'
  PROVE  Fresh'
<1> SUFFICES ASSUME ~stale', place'.folder # "screener"
             PROVE  /\ ~place'.query => results' = NONE
                    /\ Visible' = Truth(place)' \/ Comes' \/ \E i \in Asked' : AtLeast(calls[i], seen)'
                    /\ \A i \in Asked' : Good(calls[i])'
  BY DEF Fresh
<1>1. /\ ~place.query => results = NONE
      /\ Visible = Truth(place) \/ Comes \/ \E i \in Asked : AtLeast(calls[i], seen)
      /\ \A i \in Asked : Good(calls[i])
  BY DEF Fresh
<1>2. Visible' = Visible
  BY DEF Visible
<1>3. ASSUME NEW i \in Asked, Mine(calls[i])
      PROVE  \E j \in Asked' : Mine(calls[j])' /\ (calls'[j] = calls[i] \/ calls'[j].state # "back")
  BY <1>3 DEF Mine, Carries, Same
<1>4. ASSUME NEW i \in Asked, AtLeast(calls[i], seen)
      PROVE  \E j \in Asked' : AtLeast(calls[j], seen)'
  BY <1>3, <1>4 DEF AtLeast
<1>5. ASSUME NEW v, Corrected(v)
      PROVE  Corrected(v)'
  BY <1>3, <1>5 DEF Corrected, Later
<1>6. ASSUME NEW j \in Asked', Mine(calls[j])', calls'[j].state = "back"
      PROVE  calls'[j].answer = Truth(place)' \/ calls'[j].ver < seen' \/ Corrected(calls[j].ver)'
  <2>1. PICK i \in Asked : calls'[j] = calls[i]
    BY <1>6 DEF Mine, Carries
  <2>2. Mine(calls[i]) /\ Good(calls[i])
    BY <1>1, <1>6, <2>1 DEF Mine
  <2>3. calls[i].answer = Truth(place) \/ calls[i].ver < seen \/ Corrected(calls[i].ver)
    BY <1>6, <2>1, <2>2 DEF Good
  <2> QED
    BY <1>5, <2>1, <2>3
<1>7. \A j \in Asked' : Good(calls[j])'
  BY <1>6 DEF Good
<1> QED
  BY <1>1, <1>2, <1>4, <1>7

\* An event or a fetch under way corrects whatever is shown and answered.
LEMMA FreshAnew ==
  ASSUME ~place'.query => results' = NONE,
         \/ Comes'
         \/ place' \in Places /\ \E j \in Asked' : calls'[j] = Fetch(place')
  PROVE  Fresh'
<1>1. CASE Comes'
  BY <1>1 DEF Fresh, Good, Corrected
<1>2. CASE place' \in Places /\ \E j \in Asked' : calls'[j] = Fetch(place')
  <2>1. PICK j \in Asked' : calls'[j] = Fetch(place')
    BY <1>2
  <2>2. Mine(calls[j])' /\ calls'[j].state # "back"
    BY <1>2, <2>1, FetchFacts DEF Mine
  <2>3. \A v : Corrected(v)'
    BY <2>2 DEF Corrected, Later
  <2>4. \A v : AtLeast(calls[j], v)'
    BY <2>2 DEF AtLeast
  <2> QED
    BY <2>3, <2>4 DEF Fresh, Good
<1> QED
  BY <1>1, <1>2
Rest == ClientTyped /\ AllStraight /\ Fresh

\* Everything the list depends on stays as it is.
LEMMA QuietStep ==
  ASSUME Rest, Carries, UNCHANGED <<mail, version, place, messages, results, seen>>,
         stale => stale', Comes => Comes', timer' => timer
  PROVE  AllStraight' /\ Fresh'
<1>1. seen' <= version' /\ (timer' => place'.query)
  BY DEF Rest, AllStraight
<1>2. AllStraight'
  BY <1>1, StraightKept DEF Rest
<1>3. Truth(place)' = Truth(place)
  <2>1. PICK p : p = place
    OBVIOUS
  <2>2. Truth(p)' = Truth(p)
    BY TruthKept
  <2> QED
    BY <2>1, <2>2
<1> QED
  BY <1>2, <1>3, FreshKept DEF Rest

LEMMA MovesFresh ==
  ASSUME Rest, NEW bs \in SUBSET Boxes, MailMoves(bs), UNCHANGED <<place, timer>>, Carries
  PROVE  AllStraight' /\ Fresh'
<1>1. /\ UNCHANGED <<messages, results, seen>>
      /\ stale => stale'
      /\ \A i \in DOMAIN events : i \in DOMAIN events' /\ events'[i] = events[i]
      /\ place.box \in bs => stale' \/ \E i \in DOMAIN events' : events'[i] = place.box
  BY HeardFacts DEF Rest, MailMoves
<1>2. version' = version + 1 /\ version \in Nat /\ seen \in Nat /\ seen <= version /\ place \in Places
  BY DEF Rest, MailMoves, ClientTyped, AllStraight
<1>3. seen' <= version' /\ (timer' => place'.query)
  BY <1>1, <1>2 DEF Rest, AllStraight
<1>4. AllStraight'
  BY <1>2, <1>3, StraightKept DEF Rest
<1>5. CASE place.box \notin bs
  <2>1. PICK p \in Places : p = place
    BY <1>2
  <2>2. Truth(p)' = Truth(p)
    <3>1. mail \in MailType /\ mail' \in MailType
      BY DEF Rest, ClientTyped, MailMoves
    <3>2. \A m \in Msgs : mail'[m] # mail[m] => BoxOf[m] # p.box
      BY <1>5, <2>1 DEF MailMoves
    <3> QED
      BY <3>1, <3>2, TruthIsLocal
  <2>3. Truth(place)' = Truth(place)
    BY <2>1, <2>2
  <2>4. Comes => Comes'
    BY <1>1 DEF Comes
  <2>5. Fresh'
    BY <1>1, <2>3, <2>4, FreshKept DEF Rest
  <2> QED
    BY <1>4, <2>5
<1>6. CASE place.box \in bs
  <2>1. CASE stale' \/ place.folder = "screener"
    BY <1>4, <2>1 DEF Fresh
  <2>2. CASE ~stale' /\ place.folder # "screener"
    <3>1. Comes'
      BY <1>1, <1>6, <2>2 DEF Comes
    <3>2. ~place'.query => results' = NONE
      BY <1>1, <2>2 DEF Rest, Fresh
    <3>3. Fresh'
      BY <3>1, <3>2, FreshAnew
    <3> QED
      BY <1>4, <3>3
  <2> QED
    BY <2>1, <2>2
<1> QED
  BY <1>5, <1>6

\* The server's answer to a fetch is what is true now.
LEMMA AnswerIsTrue ==
  ASSUME Rest, NEW i \in Asked, calls[i].kind \in FetchKinds, ServeFetch(i)
  PROVE  AllStraight' /\ Fresh'
<1> DEFINE c == calls[i]
<1>1. /\ c.state = "sent"
      /\ UNCHANGED <<server, wire, place, shown, picked, pane, timer, card, counters>>
  BY ServeFetchFacts DEF Rest
<1>2. PICK rows : /\ calls' = [calls EXCEPT ![i] = Reply(c, version, rows)]
                  /\ rows \in {NONE} \cup (SUBSET SummaryType) \cup Seq(Msgs)
                  /\ Proper(Reply(c, version, rows))
                  /\ c.kind = "list" => rows = Listing(c.place.box, c.place.folder)
                  /\ c.kind \in {"search", "typed"} => rows = Found(c.place.box)
  BY ServeFetchFacts DEF Rest
<1> DEFINE d == Reply(c, version, rows)
<1>3. c \in CallType /\ version \in Nat /\ seen \in Nat /\ seen <= version
  BY EditForms DEF Rest, ClientTyped, AllStraight
<1>4. /\ d \in CallType /\ Same(d, c) /\ d.state = "back" /\ d.ver = version /\ d.answer = rows
  BY <1>2, <1>3, ReplyFacts
<1>5. /\ Asked' = Asked /\ calls'[i] = d /\ \A j \in Asked : j # i => calls'[j] = calls[j]
  BY <1>2, <1>4, EditedOne DEF Rest
<1> HIDE DEF d
<1>6. c.kind \in FetchKinds /\ Straight(c)
  BY DEF Rest, AllStraight
<1>7. rows = Truth(c.place)
  BY <1>2, <1>6 DEF Straight, Truth, FetchKinds
<1>8. UNCHANGED <<mail, version, place, messages, results, seen, stale, events, timer>>
  BY <1>1 DEF server, wire, shown
<1>9. \A p : Truth(p)' = Truth(p)
  BY <1>8, TruthKept
<1>10. ASSUME NEW j \in Asked'
       PROVE  Straight(calls[j])'
  <2>1. PICK p : p = calls'[j].place
    OBVIOUS
  <2>2. Truth(calls[j].place)' = Truth(p)
    BY <1>9, <2>1
  <2>3. CASE j = i
    <3>1. calls'[j] = d /\ p = c.place
      BY <1>4, <1>5, <2>1, <2>3 DEF Same
    <3> QED
      BY <1>3, <1>4, <1>6, <1>7, <1>8, <2>2, <3>1 DEF Straight, Same
  <2>4. CASE j # i
    <3>1. calls'[j] = calls[j] /\ Straight(calls[j])
      BY <1>5, <2>4 DEF Rest, AllStraight
    <3> QED
      BY <1>8, <2>1, <2>2, <3>1 DEF Straight
  <2> QED
    BY <2>3, <2>4
<1>11. AllStraight'
  BY <1>8, <1>10 DEF Rest, AllStraight
<1>12. ASSUME ~stale', place'.folder # "screener"
       PROVE  /\ ~place'.query => results' = NONE
              /\ Visible' = Truth(place)' \/ Comes' \/ \E j \in Asked' : AtLeast(calls[j], seen)'
              /\ \A j \in Asked' : Good(calls[j])'
  <2>1. /\ ~place.query => results = NONE
        /\ Visible = Truth(place) \/ Comes \/ \E j \in Asked : AtLeast(calls[j], seen)
        /\ \A j \in Asked : Good(calls[j])
    BY <1>8, <1>12 DEF Rest, Fresh
  <2>2. Truth(place)' = Truth(place) /\ Visible' = Visible /\ Comes' = Comes
    <3>1. PICK p : p = place
      OBVIOUS
    <3> QED
      BY <1>8, <1>9, <3>1 DEF Visible, Comes
  <2>3. ASSUME NEW j \in Asked, AtLeast(calls[j], seen)
        PROVE  AtLeast(calls[j], seen)'
    BY <1>3, <1>4, <1>5, <1>8, <2>3 DEF AtLeast, Mine, Same
  <2>4. Mine(c) => d.answer = Truth(place)
    BY <1>4, <1>7 DEF Mine
  <2>5. ASSUME NEW j \in Asked, Mine(calls[j])', calls'[j].state = "back"
        PROVE  calls'[j].answer = Truth(place)' \/ calls'[j].ver < seen' \/ Corrected(calls[j].ver)'
    <3>1. CASE j = i
      BY <1>4, <1>5, <1>8, <2>2, <2>4, <2>5, <3>1 DEF Mine, Same
    <3>2. CASE j # i
      <4>1. calls'[j] = calls[j] /\ Mine(calls[j]) /\ Good(calls[j]) /\ Straight(calls[j])
        BY <1>5, <1>8, <2>1, <2>5, <3>2 DEF Rest, AllStraight, Mine
      <4>2. calls[j].answer = Truth(place) \/ calls[j].ver < seen \/ Comes
              \/ \E k \in Asked : Later(calls[k], calls[j].ver)
        BY <2>5, <4>1 DEF Good, Corrected
      <4>3. calls[j].ver \in Nat /\ calls[j].ver <= version
              /\ (calls[j].ver = version => calls[j].answer = Truth(place))
        BY <2>5, <4>1, EditForms DEF Straight, Mine, CallType, Rest
      <4>4. ASSUME NEW k \in Asked, Later(calls[k], calls[j].ver), calls[j].ver # version
            PROVE  Later(calls'[k], calls[j].ver)
        <5>1. CASE k = i
          BY <1>3, <1>4, <1>5, <4>3, <4>4, <5>1 DEF Later, Mine, Same
        <5>2. CASE k # i
          BY <1>5, <4>4, <5>2
        <5> QED
          BY <5>1, <5>2
      <4>5. \A k \in Asked : Later(calls'[k], calls[j].ver) => Corrected(calls[j].ver)'
        BY <1>5, <1>8, <4>1 DEF Corrected, Later, Mine
      <4> QED
        BY <1>8, <2>2, <4>1, <4>2, <4>3, <4>4, <4>5 DEF Corrected
    <3> QED
      BY <3>1, <3>2
  <2> QED
    BY <1>5, <1>8, <2>1, <2>2, <2>3, <2>5 DEF Good
<1>13. Fresh'
  BY <1>12 DEF Fresh
<1> QED
  BY <1>11, <1>13
LEMMA DropsStraight ==
  ASSUME Rest, NEW i \in Asked, Drops(i, {}), UNCHANGED <<mail, version>>
  PROVE  \A j \in Asked' : Straight(calls[j])'
<1> SUFFICES ASSUME NEW j \in Asked'
             PROVE  Straight(calls[j])'
  OBVIOUS
<1>1. PICK k \in Asked : calls'[j] = calls[k]
  BY DEF Drops
<1>2. Straight(calls[k])
  BY DEF Rest, AllStraight
<1>3. PICK p : p = calls[k].place
  OBVIOUS
<1>4. Truth(p)' = Truth(p)
  BY TruthKept
<1>5. Truth(calls[j].place)' = Truth(calls[k].place)
  BY <1>1, <1>3, <1>4
<1> QED
  BY <1>1, <1>2, <1>5 DEF Straight

\* An answer is shown: it is the truth, or what will correct it is newer and under way.
LEMMA AnswerShown ==
  ASSUME Rest, NEW i \in Asked, TakeFetch(i)
  PROVE  AllStraight' /\ Fresh'
<1> DEFINE c == calls[i]
<1>1. /\ c.state = "back" /\ c.kind \in FetchKinds
      /\ Shows(c, c.answer) /\ calls' = RemoveAt(calls, i)
      /\ UNCHANGED <<server, wire, place, picked, pane, timer, card, counters>>
  BY DEF TakeFetch, FetchKinds
<1>2. UNCHANGED <<mail, version, place, events, timer>>
  BY <1>1 DEF server, wire
<1>3. /\ \A j \in Asked' : Origin(i, j) \in Asked \ {i} /\ calls'[j] = calls[Origin(i, j)]
      /\ \A k \in Asked \ {i} : \E j \in Asked' : calls'[j] = calls[k]
  <2>1. Drops(i, {})
    BY <1>1, RemoveDrops DEF Rest
  <2> QED
    BY <2>1 DEF Drops
<1>4. c \in CallType /\ c.ver \in Nat /\ version \in Nat /\ seen \in Nat /\ seen <= version
  BY EditForms DEF Rest, ClientTyped, AllStraight, CallType
<1>5. /\ c.kind = "list" <=> ~c.place.query
      /\ c.ver <= version /\ (c.ver = version => c.answer = Truth(c.place))
  BY <1>1 DEF Rest, AllStraight, Straight
<1>6. \A p : Truth(p)' = Truth(p)
  BY <1>2, TruthKept
<1>7. \A j \in Asked' : Straight(calls[j])'
  BY <1>1, <1>2, RemoveDrops, DropsStraight DEF Rest
<1>8. seen' <= version'
  BY <1>1, <1>2, <1>4, <1>5 DEF Shows
<1>9. AllStraight'
  BY <1>2, <1>7, <1>8 DEF Rest, AllStraight
<1>10. ASSUME ~stale', place'.folder # "screener"
       PROVE  /\ ~place'.query => results' = NONE
              /\ Visible' = Truth(place)' \/ Comes' \/ \E j \in Asked' : AtLeast(calls[j], seen)'
              /\ \A j \in Asked' : Good(calls[j])'
  <2>1. c.place = place /\ seen <= c.ver /\ seen' = c.ver
    BY <1>1, <1>4, <1>10 DEF Shows
  <2>2. (c.ver = version /\ (c.kind = "list" => results = NONE)) \/ ~stale
    BY <1>1, <1>10, <2>1 DEF Shows
  <2>3. ~stale => /\ ~place.query => results = NONE
                  /\ \A j \in Asked : Good(calls[j])
    BY <1>2, <1>10 DEF Rest, Fresh
  <2>4. c.kind = "list" => results = NONE
    BY <1>5, <2>1, <2>2, <2>3
  <2>5. ~place.query => results' = NONE
    BY <1>1, <1>5, <2>1, <2>4 DEF Shows
  <2>6. c.answer \in SUBSET SummaryType /\ c.answer # NONE
    <3>1. Proper(c)
      BY EditForms DEF Rest
    <3> QED
      BY <1>1, <3>1, WebmailConstants DEF Proper
  <2>7. Visible' = c.answer
    BY <1>1, <2>4, <2>6 DEF Shows, Visible
  <2>8. Truth(place)' = Truth(place) /\ Comes' = Comes
    <3>1. PICK p : p = place
      OBVIOUS
    <3> QED
      BY <1>2, <1>6, <3>1 DEF Comes
  <2>9. Mine(c)
    BY <1>1, <2>1 DEF Mine
  <2>10. ASSUME NEW k \in Asked, Later(calls[k], c.ver)
         PROVE  \E j \in Asked' : AtLeast(calls[j], seen)'
    <3>1. k # i
      BY <1>1, <1>4, <2>10 DEF Later
    <3>2. PICK j \in Asked' : calls'[j] = calls[k]
      BY <1>3, <3>1
    <3>3. calls[k].ver \in Nat
      BY EditForms DEF Rest, CallType
    <3>4. calls[k].state # "back" \/ calls[k].ver >= c.ver
      BY <1>4, <2>10, <3>3 DEF Later
    <3> QED
      BY <1>2, <2>1, <2>10, <3>2, <3>4 DEF AtLeast, Later, Mine
  <2>11. Visible' = Truth(place)' \/ Comes' \/ \E j \in Asked' : AtLeast(calls[j], seen)'
    <3>1. CASE c.ver = version
      BY <1>5, <2>1, <2>7, <2>8, <3>1
    <3>2. CASE c.ver # version
      <4>1. Good(c)
        BY <2>2, <2>3, <3>2
      <4>2. c.answer = Truth(place) \/ c.ver < seen \/ Corrected(c.ver)
        BY <1>1, <2>9, <4>1 DEF Good
      <4>3. ~(c.ver < seen)
        BY <1>4, <2>1
      <4> QED
        BY <2>7, <2>8, <2>10, <4>2, <4>3 DEF Corrected
    <3> QED
      BY <3>1, <3>2
  <2>12. ASSUME NEW j \in Asked', Mine(calls[j])', calls'[j].state = "back"
         PROVE  calls'[j].answer = Truth(place)' \/ calls'[j].ver < seen' \/ Corrected(calls[j].ver)'
    <3>1. PICK k \in Asked \ {i} : calls'[j] = calls[k]
      BY <1>3
    <3> DEFINE d == calls[k]
    <3>2. /\ Mine(d) /\ d.state = "back" /\ d.ver \in Nat /\ Straight(d)
      BY <1>2, <2>12, <3>1, EditForms DEF Rest, AllStraight, Mine, CallType
    <3>3. d.ver <= version /\ (d.ver = version => d.answer = Truth(place))
      BY <3>2 DEF Straight, Mine
    <3> HIDE DEF d
    <3>4. CASE c.ver = version
      <4>1. d.ver = version \/ d.ver < c.ver
        BY <1>4, <3>2, <3>3, <3>4
      <4> QED
        BY <2>1, <2>8, <3>1, <3>3, <4>1 DEF d
    <3>5. CASE c.ver # version
      <4>1. Good(d)
        BY <2>2, <2>3, <3>5 DEF d
      <4>2. d.answer = Truth(place) \/ d.ver < seen \/ Comes \/ \E n \in Asked : Later(calls[n], d.ver)
        BY <3>2, <4>1 DEF Good, Corrected
      <4>3. d.ver < seen => d.ver < c.ver
        BY <1>4, <2>1, <3>2
      <4>4. ASSUME NEW n \in Asked, Later(calls[n], d.ver)
            PROVE  d.ver < c.ver \/ Corrected(calls[j].ver)'
        <5>1. CASE n = i
          BY <1>1, <1>4, <3>2, <4>4, <5>1 DEF Later
        <5>2. CASE n # i
          <6>1. PICK m \in Asked' : calls'[m] = calls[n]
            BY <1>3, <5>2
          <6>2. Later(calls[m], calls[j].ver)'
            BY <1>2, <3>1, <4>4, <6>1 DEF Later, Mine, d
          <6> QED
            BY <6>2 DEF Corrected
        <5> QED
          BY <5>1, <5>2
      <4>5. Comes => Corrected(calls[j].ver)'
        BY <2>8 DEF Corrected
      <4> QED
        BY <2>1, <2>8, <3>1, <4>2, <4>3, <4>4, <4>5 DEF d
    <3> QED
      BY <3>4, <3>5
  <2> QED
    BY <1>2, <2>5, <2>11, <2>12 DEF Good
<1>11. Fresh'
  BY <1>10 DEF Fresh
<1> QED
  BY <1>9, <1>11

LEMMA AgainFresh ==
  ASSUME Rest, NEW i \in Asked, calls[i].kind \notin FetchKinds, Refreshed(i, calls[i].place),
         UNCHANGED <<server, wire, place, timer>>
  PROVE  AllStraight' /\ Fresh'
<1>1. PICK p \in Places : p = calls[i].place
  BY EditForms DEF Rest, CallType
<1>2. /\ Drops(i, {Fetch(p)})
      /\ p.folder # "screener" => \E j \in Asked' : calls'[j] = Fetch(p)
      /\ results' = ResultsFrom(p)
      /\ stale' = (stale \/ p # place) /\ UNCHANGED <<messages, seen>>
  BY <1>1, RefreshedDrops DEF Rest
<1>3. Carries
  BY <1>2, DropsCarries DEF Rest
<1>4. UNCHANGED <<mail, version>> /\ seen' <= version' /\ (timer' => place'.query)
  BY <1>2 DEF server, Rest, AllStraight
<1>5. AllStraight'
  BY <1>3, <1>4, StraightKept DEF Rest
<1>6. CASE stale' \/ place.folder = "screener"
  BY <1>5, <1>6 DEF Fresh
<1>7. CASE ~stale' /\ place.folder # "screener"
  <2>1. p = place
    BY <1>2, <1>7
  <2>2. (~place'.query => results' = NONE) /\ place' \in Places /\ \E j \in Asked' : calls'[j] = Fetch(place')
    BY <1>2, <1>7, <2>1 DEF ResultsFrom
  <2>3. Fresh'
    BY <2>2, FreshAnew
  <2> QED
    BY <1>5, <2>3
<1> QED
  BY <1>6, <1>7
LEMMA IdleCarries ==
  ASSUME UNCHANGED calls
  PROVE  Carries
<1>1. Asked' = Asked /\ calls' = calls
  BY DEF Asked
<1>2. \A i \in Asked : Same(calls[i], calls[i])
  BY DEF Same
<1> QED
  BY <1>1, <1>2 DEF Carries

LEMMA OneCarries ==
  ASSUME ClientTyped, NEW c \in CallType, Proper(c), c.state = "sent", c.place = place,
         calls' = Append(calls, c), c.kind \in FetchKinds => (c.kind = "list" <=> ~place.query)
  PROVE  Carries
<1>1. /\ Asked' = Asked \cup {Len(calls) + 1} /\ Len(calls) + 1 \notin Asked
      /\ calls'[Len(calls) + 1] = c /\ \A i \in Asked : calls'[i] = calls[i]
  BY SentOne
<1>2. \A i \in Asked : Same(calls[i], calls[i])
  BY DEF Same
<1>3. ASSUME NEW i \in Asked, calls[i].kind \in FetchKinds
      PROVE  \E j \in Asked' : Same(calls'[j], calls[i]) /\ (calls'[j] = calls[i] \/ calls'[j].state # "back")
  <2>1. i \in Asked' /\ calls'[i] = calls[i]
    BY <1>1
  <2> QED
    BY <1>2, <2>1
<1>4. ASSUME NEW j \in Asked', calls'[j].kind \in FetchKinds
      PROVE  \/ \E i \in Asked : calls'[j] = calls[i]
             \/ calls'[j].state # "back" /\ (calls'[j].kind = "list" <=> ~calls'[j].place.query)
  BY <1>1, <1>4
<1> QED
  BY <1>3, <1>4 DEF Carries

LEMMA ClickFresh ==
  ASSUME Rest, Clicks \/ Debounced \/ AskQueue \/ Decide \/ Listen \/ \E S \in SUBSET Msgs : Pick(S)
  PROVE  AllStraight' /\ Fresh'
<1>0. \A e : e = events /\ UNCHANGED place /\ events' = e => (Comes => Comes')
  BY DEF Comes
<1>1. CASE Clicks
  <2>1. Sends({"get", "act"}) /\ UNCHANGED <<server, wire, place, shown, timer>>
    BY <1>1, ClicksSend DEF Rest
  <2>2. Carries
    BY <2>1, SendsCarries DEF FetchKinds
  <2>3. UNCHANGED <<mail, version, place, messages, results, seen, stale, events, timer>>
    BY <2>1 DEF server, wire, shown
  <2> QED
    BY <1>0, <2>2, <2>3, QuietStep
<1>2. CASE Debounced
  <2> DEFINE c == Call("typed", place, NONE)
  <2>1. /\ calls' = Append(calls, c) /\ timer /\ ~timer'
        /\ UNCHANGED <<server, wire, place, shown>>
    BY <1>2 DEF Debounced
  <2>2. place \in Places /\ "typed" \in Kinds /\ place.query
    BY <2>1 DEF Rest, ClientTyped, Kinds, AllStraight
  <2>3. c \in CallType /\ c.kind = "typed" /\ c.state = "sent" /\ c.place = place
    BY <2>2, CallFacts
  <2> HIDE DEF c
  <2>4. Proper(c)
    BY <2>3 DEF Proper
  <2>5. Carries
    BY <2>1, <2>2, <2>3, <2>4, OneCarries DEF Rest
  <2>6. UNCHANGED <<mail, version, place, messages, results, seen, stale, events>>
    BY <2>1 DEF server, wire, shown
  <2> QED
    BY <1>0, <2>1, <2>5, <2>6, QuietStep
<1>3. CASE AskQueue
  <2>1. Carries
    BY <1>3, AskQueueSends, OneCarries DEF Rest, FetchKinds
  <2>2. UNCHANGED <<mail, version, place, messages, results, seen, stale, events, timer>>
    BY <1>3 DEF AskQueue, server, wire, shown
  <2> QED
    BY <1>0, <2>1, <2>2, QuietStep
<1>4. CASE Decide
  <2>1. Carries
    BY <1>4, DecideSends, OneCarries DEF Rest, FetchKinds
  <2>2. UNCHANGED <<mail, version, place, messages, results, seen, stale, events, timer>>
    BY <1>4 DEF Decide, MayDecide, server, wire, shown
  <2> QED
    BY <1>0, <2>1, <2>2, QuietStep
<1>5. CASE Listen
  <2>1. UNCHANGED <<mail, version, place, messages, results, seen, stale, events, timer, calls>>
    BY <1>5 DEF Listen, server, shown
  <2> QED
    BY <1>0, <2>1, IdleCarries, QuietStep
<1>6. CASE \E S \in SUBSET Msgs : Pick(S)
  <2>1. UNCHANGED <<mail, version, place, messages, results, seen, stale, events, timer, calls>>
    BY <1>6 DEF Pick, server, wire, shown
  <2> QED
    BY <1>0, <2>1, IdleCarries, QuietStep
<1> QED
  BY <1>1, <1>2, <1>3, <1>4, <1>5, <1>6

LEMMA GoesFresh ==
  ASSUME Rest, Goes \/ Event
  PROVE  AllStraight' /\ Fresh'
<1>1. CASE Goes
  <2>1. PICK p \in Places : Goto(p)
    BY <1>1, GoesSomewhere DEF Rest
  <2>2. /\ Asked \subseteq Asked' /\ \A i \in Asked : calls'[i] = calls[i]
        /\ \A i \in Asked' \ Asked : calls'[i] = Fetch(p)
        /\ p.folder # "screener" => \E i \in Asked' : calls'[i] = Fetch(p)
        /\ results' = ResultsFrom(p) /\ place' = p /\ seen' = 0
        /\ UNCHANGED <<mail, version>> /\ timer' = (p.query /\ p.folder # "screener")
    BY <2>1, GotoFacts DEF Rest
  <2>3. Carries
    BY <2>2, GrowsCarries
  <2>4. seen' <= version' /\ (timer' => place'.query)
    <3>1. version \in Nat
      BY DEF Rest, ClientTyped
    <3>2. seen' <= version'
      BY <2>2, <3>1
    <3>3. timer' => place'.query
      BY <2>2
    <3> QED
      BY <3>2, <3>3
  <2>5. AllStraight'
    BY <2>2, <2>3, <2>4, StraightKept DEF Rest
  <2>6. CASE p.folder = "screener"
    BY <2>2, <2>5, <2>6 DEF Fresh
  <2>7. CASE p.folder # "screener"
    <3>1. (~place'.query => results' = NONE) /\ place' \in Places /\ \E i \in Asked' : calls'[i] = Fetch(place')
      BY <2>2, <2>7 DEF ResultsFrom
    <3>2. Fresh'
      BY <3>1, FreshAnew
    <3> QED
      BY <2>5, <3>2
  <2> QED
    BY <2>6, <2>7
<1>2. CASE Event
  <2>1. /\ Asked \subseteq Asked' /\ \A i \in Asked : calls'[i] = calls[i]
        /\ \A i \in Asked' \ Asked : calls'[i] = Fetch(place)
        /\ UNCHANGED <<server, place, messages, seen, stale, timer>>
        /\ \/ /\ results' = ResultsFrom(place)
              /\ place.folder # "screener" => \E i \in Asked' : calls'[i] = Fetch(place)
           \/ /\ UNCHANGED <<calls, results>>
              /\ \A i \in DOMAIN events : events[i] = place.box =>
                   \E j \in DOMAIN events' : events'[j] = place.box
    BY <1>2, EventFacts DEF Rest
  <2>2. place \in Places /\ UNCHANGED <<mail, version>>
    BY <2>1 DEF Rest, ClientTyped, server
  <2>3. Carries
    BY <2>1, <2>2, GrowsCarries
  <2>4. seen' <= version' /\ (timer' => place'.query)
    BY <2>1, <2>2 DEF Rest, AllStraight
  <2>5. AllStraight'
    BY <2>2, <2>3, <2>4, StraightKept DEF Rest
  <2>6. CASE place.folder = "screener"
    BY <2>1, <2>5, <2>6 DEF Fresh
  <2>7. CASE place.folder # "screener" /\ results' = ResultsFrom(place) /\ \E i \in Asked' : calls'[i] = Fetch(place)
    <3>1. (~place'.query => results' = NONE) /\ place' \in Places /\ \E i \in Asked' : calls'[i] = Fetch(place')
      BY <2>1, <2>2, <2>7 DEF ResultsFrom
    <3>2. Fresh'
      BY <3>1, FreshAnew
    <3> QED
      BY <2>5, <3>2
  <2>8. CASE /\ UNCHANGED <<calls, results>>
             /\ \A i \in DOMAIN events : events[i] = place.box =>
                  \E j \in DOMAIN events' : events'[j] = place.box
    <3>1. Comes => Comes'
      BY <2>1, <2>8 DEF Comes
    <3> QED
      BY <2>1, <2>2, <2>3, <2>8, <3>1, QuietStep
  <2> QED
    BY <2>1, <2>6, <2>7, <2>8
<1> QED
  BY <1>1, <1>2

LEMMA ServerFresh ==
  ASSUME Rest, Elsewhere \/ StreamBreaks \/ \E i \in Asked : ServeFetch(i) \/ ServeAct(i) \/ Lost(i)
  PROVE  AllStraight' /\ Fresh'
<1>0. \A e : e = events /\ UNCHANGED place /\ events' = e => (Comes => Comes')
  BY DEF Comes
<1>1. CASE Elsewhere
  <2>1. PICK bs \in SUBSET Boxes : MailMoves(bs)
    BY <1>1, ElsewhereFacts DEF Rest
  <2>2. UNCHANGED <<place, timer, calls>>
    BY <1>1, ElsewhereFacts DEF Rest
  <2> QED
    BY <2>1, <2>2, IdleCarries, MovesFresh
<1>2. CASE StreamBreaks
  <2>1. UNCHANGED <<mail, version, place, messages, results, seen, timer, calls>>
    BY <1>2 DEF StreamBreaks, server
  <2>2. Carries
    BY <2>1, IdleCarries
  <2>3. stale' = (stale \/ Comes)
    BY <1>2 DEF StreamBreaks, Comes
  <2>4. CASE Comes
    <3>1. AllStraight'
      <4>1. seen' <= version' /\ (timer' => place'.query)
        BY <2>1 DEF Rest, AllStraight
      <4> QED
        BY <2>1, <2>2, <4>1, StraightKept DEF Rest
    <3> QED
      BY <2>3, <2>4, <3>1 DEF Fresh
  <2>5. CASE ~Comes
    BY <2>1, <2>2, <2>3, <2>5, QuietStep
  <2> QED
    BY <2>4, <2>5
<1>3. ASSUME NEW i \in Asked, ServeFetch(i)
      PROVE  AllStraight' /\ Fresh'
  <2>1. CASE calls[i].kind \in FetchKinds
    BY <1>3, <2>1, AnswerIsTrue
  <2>2. CASE calls[i].kind \notin FetchKinds
    <3>1. UNCHANGED <<server, wire, place, shown, timer>>
      BY <1>3, ServeFetchFacts DEF Rest
    <3>2. PICK rows : /\ calls' = [calls EXCEPT ![i] = Reply(calls[i], version, rows)]
                      /\ rows \in {NONE} \cup (SUBSET SummaryType) \cup Seq(Msgs)
                      /\ Proper(Reply(calls[i], version, rows))
      BY <1>3, ServeFetchFacts DEF Rest
    <3>3. calls[i] \in CallType /\ version \in Nat
      BY EditForms DEF Rest, ClientTyped
    <3> DEFINE d == Reply(calls[i], version, rows)
    <3>4. d \in CallType /\ Same(d, calls[i])
      BY <3>2, <3>3, ReplyFacts
    <3>5. d.kind \notin FetchKinds
      BY <2>2, <3>4 DEF Same
    <3> HIDE DEF d
    <3>6. Carries
      BY <3>2, <3>4, <3>5, EditCarries DEF Rest, d
    <3>7. UNCHANGED <<mail, version, place, messages, results, seen, stale, events, timer>>
      BY <3>1 DEF server, wire, shown
    <3> QED
      BY <1>0, <3>6, <3>7, QuietStep
  <2> QED
    BY <2>1, <2>2
<1>4. ASSUME NEW i \in Asked, ServeAct(i)
      PROVE  AllStraight' /\ Fresh'
  <2>1. calls[i].kind \in {"act", "decide"} /\ UNCHANGED <<place, timer>>
    BY <1>4, ServeActFacts DEF Rest
  <2>2. calls[i] \in CallType /\ Proper(calls[i]) /\ version \in Nat
    BY EditForms DEF Rest, ClientTyped
  <2>3. CASE calls' = [calls EXCEPT ![i] = Broken(calls[i])] /\ UNCHANGED <<server, wire, shown>>
    <3>1. Broken(calls[i]) \in CallType /\ Same(Broken(calls[i]), calls[i]) /\ Proper(Broken(calls[i]))
      BY <2>2, BrokenFacts
    <3>2. Broken(calls[i]).kind \notin FetchKinds
      BY <2>1, <3>1 DEF Same, FetchKinds
    <3>3. Carries
      BY <2>3, <3>1, <3>2, EditCarries DEF Rest
    <3>4. UNCHANGED <<mail, version, messages, results, seen, stale, events>>
      BY <2>3 DEF server, wire, shown
    <3> QED
      BY <1>0, <2>1, <3>3, <3>4, QuietStep
  <2>4. CASE /\ calls' = [calls EXCEPT ![i] = Reply(calls[i], version + 1, {})]
             /\ Reply(calls[i], version + 1, {}) \in CallType /\ Proper(Reply(calls[i], version + 1, {}))
             /\ \E bs \in SUBSET Boxes : MailMoves(bs)
    <3> DEFINE d == Reply(calls[i], version + 1, {})
    <3>1. Same(d, calls[i])
      <4>1. version + 1 \in Nat /\ {} \in {NONE} \cup (SUBSET SummaryType) \cup Seq(Msgs)
        BY <2>2
      <4> QED
        BY <2>2, <4>1, ReplyFacts
    <3>2. d.kind \notin FetchKinds
      BY <2>1, <3>1 DEF Same, FetchKinds
    <3> HIDE DEF d
    <3>3. Carries
      BY <2>4, <3>1, <3>2, EditCarries DEF Rest, d
    <3> QED
      BY <2>1, <2>4, <3>3, MovesFresh
  <2> QED
    BY <1>4, <2>3, <2>4, ServeActFacts DEF Rest
<1>5. ASSUME NEW i \in Asked, Lost(i)
      PROVE  AllStraight' /\ Fresh'
  <2>1. /\ calls' = [calls EXCEPT ![i] = Broken(calls[i])]
        /\ UNCHANGED <<server, wire, place, shown, timer>>
    BY <1>5, EditForms DEF Lost, Rest
  <2>2. calls[i] \in CallType /\ Proper(calls[i])
    BY EditForms DEF Rest
  <2>3. /\ Broken(calls[i]) \in CallType /\ Same(Broken(calls[i]), calls[i]) /\ Proper(Broken(calls[i]))
        /\ Broken(calls[i]).state # "back"
    BY <2>2, BrokenFacts
  <2>4. Carries
    BY <2>1, <2>3, EditCarries DEF Rest
  <2>5. UNCHANGED <<mail, version, place, messages, results, seen, stale, events, timer>>
    BY <2>1 DEF server, wire, shown
  <2> QED
    BY <1>0, <2>4, <2>5, QuietStep
<1> QED
  BY <1>1, <1>2, <1>3, <1>4, <1>5

LEMMA AnswerFresh ==
  ASSUME Rest, NEW i \in Asked,
         TakeFetch(i) \/ TakeMessage(i) \/ TakeQueue(i) \/ TakeAct(i) \/ TakeDecide(i) \/ Failure(i)
  PROVE  AllStraight' /\ Fresh'
<1>0. \A e : e = events /\ UNCHANGED place /\ events' = e => (Comes => Comes')
  BY DEF Comes
<1>1. PICK p \in Places : p = place
  BY DEF Rest, ClientTyped
<1>2. ASSUME calls' = RemoveAt(calls, i), calls[i].kind \notin FetchKinds
      PROVE  Carries
  BY <1>1, <1>2, RemoveDrops, DropsCarries DEF Rest
<1>3. CASE TakeMessage(i) \/ TakeQueue(i)
  <2>1. /\ calls' = RemoveAt(calls, i) /\ calls[i].kind \notin FetchKinds
        /\ UNCHANGED <<server, wire, place, shown, timer>>
    BY <1>3 DEF TakeMessage, TakeQueue, FetchKinds
  <2>2. UNCHANGED <<mail, version, place, messages, results, seen, stale, events, timer>>
    BY <2>1 DEF server, wire, shown
  <2> QED
    BY <1>0, <1>2, <2>1, <2>2, QuietStep
<1>4. CASE TakeAct(i) \/ TakeDecide(i)
  <2>1. /\ Refreshed(i, calls[i].place) /\ calls[i].kind \notin FetchKinds
        /\ UNCHANGED <<server, wire, place, timer>>
    BY <1>4 DEF TakeAct, TakeDecide, FetchKinds
  <2> QED
    BY <2>1, AgainFresh
<1>5. CASE Failure(i)
  <2>1. /\ calls' = RemoveAt(calls, i)
        /\ results' = IF calls[i].kind = "typed" THEN {} ELSE results
        /\ stale' = (stale \/ calls[i].kind \in FetchKinds)
        /\ UNCHANGED <<server, wire, place, messages, seen, timer>>
    BY <1>5 DEF Failure, FetchKinds
  <2>2. UNCHANGED <<mail, version, events>>
    BY <2>1 DEF server, wire
  <2>3. CASE calls[i].kind \notin FetchKinds
    <3>1. results' = results
      BY <2>1, <2>3 DEF FetchKinds
    <3> QED
      BY <1>0, <1>2, <2>1, <2>2, <2>3, <3>1, QuietStep
  <2>4. CASE calls[i].kind \in FetchKinds
    <3>1. Drops(i, {})
      BY <2>1, RemoveDrops DEF Rest
    <3>3. \A j \in Asked' : Straight(calls[j])'
      BY <2>2, <3>1, DropsStraight
    <3>4. AllStraight'
      BY <2>1, <2>2, <3>3 DEF Rest, AllStraight
    <3> QED
      BY <2>1, <2>4, <3>4 DEF Fresh
  <2> QED
    BY <2>3, <2>4
<1> QED
  BY <1>3, <1>4, <1>5, AnswerShown
-----------------------------------------------------------------------------
(* The cards of the Screener *)

\* The decision under way is about the card on top, and there is one at most; a queue
\* under way is the one the card waits for.
Cardlike == {"decide", "queue"}
Deciding(c) == c.kind = "decide" /\ c.with.mount = card.mount /\ card.box # NONE
Awaited(c) == c.kind = "queue" /\ c.with = <<card.mount, card.box>>
OnTop(c) == Deciding(c) => card.busy /\ (~card.hurried => card.loaded /\ c.with.ids = {card.queue[card.idx]})
Ruling(c) ==
  c.kind = "decide" =>
    c.with.mount <= card.mount /\ (c.state = "back" => c.with.ids \subseteq decided)
OneDecides ==
  \A i, j \in Asked : Deciding(calls[i]) /\ Deciding(calls[j]) => i = j
OneAsks ==
  \A i, j \in Asked :
    calls[i].kind = "queue" /\ calls[j].kind = "queue" /\ calls[i].with = calls[j].with => i = j
Cards ==
  /\ card.box = IF place.folder = "screener" THEN place.box ELSE NONE
  /\ card.box = NONE => ~card.loaded
  /\ \A i \in Asked : OnTop(calls[i]) /\ Ruling(calls[i])
  /\ OneDecides /\ OneAsks
  /\ card.loaded => \A i \in Asked : ~Awaited(calls[i])
  /\ NobodySkipped

\* Where the calls of the Screener were before the step.
Transfers(h) ==
  /\ \A j \in Asked' : calls'[j].kind \in Cardlike =>
       /\ h[j] \in Asked
       /\ calls'[j].kind = calls[h[j]].kind /\ calls'[j].with = calls[h[j]].with
       /\ calls'[j].kind = "decide" /\ calls'[j].state = "back" =>
            calls[h[j]].state = "back" \/ calls'[j].with.ids \subseteq decided'
  /\ \A j, k \in Asked' :
       calls'[j].kind \in Cardlike /\ calls'[k].kind \in Cardlike /\ h[j] = h[k] => j = k

\* A step that leaves the card alone, and sends none of its calls.
LEMMA CardsKept ==
  ASSUME Cards, NEW h, Transfers(h), UNCHANGED card, decided \subseteq decided',
         place'.folder = place.folder /\ place'.box = place.box
  PROVE  Cards'
<1>1. ASSUME NEW j \in Asked', calls'[j].kind \in Cardlike
      PROVE  /\ h[j] \in Asked
             /\ calls'[j].kind = calls[h[j]].kind /\ calls'[j].with = calls[h[j]].with
             /\ calls'[j].kind = "decide" /\ calls'[j].state = "back" =>
                  calls[h[j]].state = "back" \/ calls'[j].with.ids \subseteq decided'
  BY <1>1 DEF Transfers
<1>2. \A j, k \in Asked' :
        calls'[j].kind \in Cardlike /\ calls'[k].kind \in Cardlike /\ h[j] = h[k] => j = k
  BY DEF Transfers
<1>3. ASSUME NEW j \in Asked'
      PROVE  OnTop(calls[j])'
  <2>1. CASE calls'[j].kind = "decide"
    <3>1. h[j] \in Asked /\ calls'[j].kind = calls[h[j]].kind /\ calls'[j].with = calls[h[j]].with
      BY <1>1, <2>1 DEF Cardlike
    <3>2. OnTop(calls[h[j]])
      BY <3>1 DEF Cards
    <3> QED
      BY <3>1, <3>2 DEF OnTop, Deciding
  <2>2. CASE calls'[j].kind # "decide"
    BY <2>2 DEF OnTop, Deciding
  <2> QED
    BY <2>1, <2>2
<1>4. ASSUME NEW j \in Asked'
      PROVE  Ruling(calls[j])'
  <2>1. CASE calls'[j].kind = "decide"
    <3>1. /\ h[j] \in Asked /\ calls'[j].kind = calls[h[j]].kind /\ calls'[j].with = calls[h[j]].with
          /\ calls'[j].state = "back" =>
               calls[h[j]].state = "back" \/ calls'[j].with.ids \subseteq decided'
      BY <1>1, <2>1 DEF Cardlike
    <3>2. Ruling(calls[h[j]])
      BY <3>1 DEF Cards
    <3> QED
      BY <2>1, <3>1, <3>2 DEF Ruling
  <2>2. CASE calls'[j].kind # "decide"
    BY <2>2 DEF Ruling
  <2> QED
    BY <2>1, <2>2
<1>5. OneDecides'
  <2> SUFFICES ASSUME NEW j \in Asked', NEW k \in Asked', Deciding(calls[j])', Deciding(calls[k])'
               PROVE  j = k
    BY DEF OneDecides
  <2>1. calls'[j].kind = "decide" /\ calls'[k].kind = "decide"
    BY DEF Deciding
  <2>2. h[j] \in Asked /\ h[k] \in Asked /\ Deciding(calls[h[j]]) /\ Deciding(calls[h[k]])
    BY <1>1, <2>1 DEF Deciding, Cardlike
  <2>3. h[j] = h[k]
    BY <2>2 DEF Cards, OneDecides
  <2> QED
    BY <1>2, <2>1, <2>3 DEF Cardlike
<1>6. OneAsks'
  <2> SUFFICES ASSUME NEW j \in Asked', NEW k \in Asked', calls'[j].kind = "queue",
                      calls'[k].kind = "queue", calls'[j].with = calls'[k].with
               PROVE  j = k
    BY DEF OneAsks
  <2>1. /\ h[j] \in Asked /\ h[k] \in Asked /\ calls[h[j]].kind = "queue" /\ calls[h[k]].kind = "queue"
        /\ calls[h[j]].with = calls[h[k]].with
    BY <1>1 DEF Cardlike
  <2>2. h[j] = h[k]
    BY <2>1 DEF Cards, OneAsks
  <2> QED
    BY <1>2, <2>2 DEF Cardlike
<1>7. card'.loaded => \A j \in Asked' : ~Awaited(calls[j])'
  BY <1>1 DEF Cards, Awaited, Cardlike
<1>8. NobodySkipped'
  BY DEF Cards, NobodySkipped
<1>9. /\ card'.box = IF place'.folder = "screener" THEN place'.box ELSE NONE
      /\ card'.box = NONE => ~card'.loaded
  BY DEF Cards
<1> QED
  BY <1>3, <1>4, <1>5, <1>6, <1>7, <1>8, <1>9 DEF Cards

LEMMA GrowsTransfers ==
  ASSUME Asked \subseteq Asked', \A i \in Asked : calls'[i] = calls[i],
         \A i \in Asked' \ Asked : calls'[i].kind \notin Cardlike
  PROVE  \E h : Transfers(h)
<1> DEFINE h == [j \in Asked' |-> j]
<1>1. \A j \in Asked' : h[j] = j
  OBVIOUS
<1> HIDE DEF h
<1>2. Transfers(h)
  BY <1>1 DEF Transfers
<1> QED
  BY <1>2

LEMMA EditTransfers ==
  ASSUME ClientTyped, NEW i \in Asked, NEW c \in CallType, Proper(c), Same(c, calls[i]),
         calls' = [calls EXCEPT ![i] = c],
         c.kind = "decide" /\ c.state = "back" => c.with.ids \subseteq decided'
  PROVE  \E h : Transfers(h)
<1>1. /\ Asked' = Asked /\ calls'[i] = c /\ \A j \in Asked : j # i => calls'[j] = calls[j]
  BY EditedOne
<1> DEFINE h == [j \in Asked |-> j]
<1>2. \A j \in Asked : h[j] = j
  OBVIOUS
<1> HIDE DEF h
<1>3. ASSUME NEW j \in Asked
      PROVE  /\ calls'[j].kind = calls[j].kind /\ calls'[j].with = calls[j].with
             /\ calls'[j].kind = "decide" /\ calls'[j].state = "back" =>
                  calls[j].state = "back" \/ calls'[j].with.ids \subseteq decided'
  <2>1. CASE j = i
    BY <1>1, <2>1 DEF Same
  <2>2. CASE j # i
    BY <1>1, <2>2
  <2> QED
    BY <2>1, <2>2
<1>4. Transfers(h)
  BY <1>1, <1>2, <1>3 DEF Transfers
<1> QED
  BY <1>4

LEMMA DropsTransfers ==
  ASSUME ClientTyped, NEW i \in Asked, NEW p \in Places, NEW new, new \subseteq {Fetch(p)}, Drops(i, new)
  PROVE  \E h : /\ Transfers(h)
                /\ \A j \in Asked' : calls'[j].kind \in Cardlike => h[j] # i
<1> DEFINE h == [j \in Asked' |-> Origin(i, j)]
<1>1. \A j \in Asked' : h[j] = Origin(i, j)
  OBVIOUS
<1> HIDE DEF h
<1>2. Fetch(p).kind \notin Cardlike
  BY FetchFacts DEF Cardlike, FetchKinds
<1>3. ASSUME NEW j \in Asked', calls'[j].kind \in Cardlike
      PROVE  h[j] \in Asked \ {i} /\ calls'[j] = calls[h[j]]
  <2>1. calls'[j] \notin new
    BY <1>2, <1>3
  <2> QED
    BY <1>1, <2>1 DEF Drops
<1>4. i \in Nat /\ \A j \in Asked' : j \in Nat
  BY DEF ClientTyped, Asked, Drops
<1>5. ASSUME NEW j \in Asked', NEW k \in Asked', h[j] = h[k]
      PROVE  j = k
  BY <1>1, <1>4, <1>5, OriginInjective
<1>6. Transfers(h)
  BY <1>3, <1>5 DEF Transfers
<1> QED
  BY <1>3, <1>6
LEMMA DecisionFacts ==
  ASSUME ClientTyped, NEW i \in Asked, calls[i].kind = "decide"
  PROVE  calls[i].with.mount \in Nat
  BY EditForms DEF Proper, Decisions

\* The Screener is opened, closed, or turned to another mailbox.
LEMMA GoesCards ==
  ASSUME ClientTyped, Cards, Goes
  PROVE  Cards'
<1>1. PICK p \in Places : Goto(p) /\ Opens(p)
  BY GoesSomewhere
<1>2. /\ Asked \subseteq Asked' /\ \A i \in Asked : calls'[i] = calls[i]
      /\ \A i \in Asked' \ Asked : calls'[i] = Fetch(p)
      /\ place' = p /\ UNCHANGED decided
  BY <1>1, GotoFacts
<1>3. Fetch(p).kind \notin Cardlike
  BY FetchFacts DEF Cardlike, FetchKinds
<1>4. \A i \in Asked' \ Asked : calls'[i].kind \notin Cardlike
  BY <1>2, <1>3
<1>5. CASE p.folder = place.folder /\ p.box = place.box
  <2>1. card' = card
    BY <1>1, <1>5 DEF Opens
  <2>2. PICK h : Transfers(h)
    BY <1>2, <1>4, GrowsTransfers
  <2> QED
    BY <1>2, <1>5, <2>1, <2>2, CardsKept
<1>6. CASE ~(p.folder = place.folder /\ p.box = place.box)
  <2> DEFINE again == place.folder = "screener"
             new == Mounted(p, again)
  <2>1. card' = new
    BY <1>1, <1>6 DEF Opens
  <2>2. again \in BOOLEAN
    OBVIOUS
  <2>3. /\ new \in CardType
        /\ p.folder # "screener" =>
             /\ new.mount = card.mount /\ new.box = NONE
             /\ ~new.loaded /\ ~new.busy
        /\ p.folder = "screener" =>
             /\ new.box = p.box /\ ~new.loaded
             /\ new.mount = IF again THEN card.mount ELSE card.mount + 1
             /\ again => new.hurried = (card.hurried \/ card.busy)
             /\ again => new.busy = card.busy
    BY <2>2, MountedTyped
  <2> HIDE DEF new
  <2>4. card.mount \in Nat /\ place \in Places /\ NONE \notin Boxes /\ p.box \in Boxes
    BY WebmailConstants DEF ClientTyped, CardType, Places
  <2>5. ASSUME NEW i \in Asked, Deciding(calls[i])', calls'[i] = calls[i]
        PROVE  Deciding(calls[i]) /\ card'.busy /\ card'.hurried
    <3>1. calls[i].kind = "decide" /\ calls[i].with.mount = new.mount /\ new.box # NONE
      BY <2>1, <2>5 DEF Deciding
    <3>2. p.folder = "screener"
      BY <2>3, <3>1
    <3>3. calls[i].with.mount <= card.mount /\ calls[i].with.mount \in Nat
      BY <3>1, DecisionFacts DEF Cards, Ruling
    <3>4. again
      BY <2>3, <2>4, <3>1, <3>2, <3>3
    <3>5. Deciding(calls[i])
      <4>1. card.box = place.box /\ place.box # NONE
        BY <2>4, <3>4 DEF Cards, Places
      <4>2. calls[i].with.mount = card.mount
        BY <2>3, <3>1, <3>2, <3>4
      <4> QED
        BY <3>1, <4>1, <4>2 DEF Deciding
    <3>6. card.busy
      BY <3>5 DEF Cards, OnTop
    <3> QED
      BY <2>1, <2>3, <3>2, <3>4, <3>5, <3>6
  <2>6. ASSUME NEW i \in Asked', Deciding(calls[i])'
        PROVE  i \in Asked /\ calls'[i] = calls[i] /\ Deciding(calls[i]) /\ card'.busy /\ card'.hurried
    <3>1. calls'[i].kind \in Cardlike
      BY <2>6 DEF Deciding, Cardlike
    <3>2. i \in Asked /\ calls'[i] = calls[i]
      BY <1>2, <1>4, <3>1
    <3> QED
      BY <2>5, <2>6, <3>2
  <2>7. \A i \in Asked' : OnTop(calls[i])'
    BY <2>6 DEF OnTop
  <2>8. ASSUME NEW i \in Asked'
        PROVE  Ruling(calls[i])'
    <3>1. CASE calls'[i].kind = "decide"
      <4>1. i \in Asked /\ calls'[i] = calls[i]
        BY <1>2, <1>4, <3>1 DEF Cardlike
      <4>2. Ruling(calls[i]) /\ calls[i].with.mount \in Nat
        BY <3>1, <4>1, DecisionFacts DEF Cards
      <4>3. card'.mount = card.mount \/ card'.mount = card.mount + 1
        BY <2>1, <2>3
      <4>4. calls[i].with.mount <= card'.mount
        BY <2>4, <3>1, <4>1, <4>2, <4>3 DEF Ruling
      <4> QED
        BY <1>2, <3>1, <4>1, <4>2, <4>4 DEF Ruling
    <3>2. CASE calls'[i].kind # "decide"
      BY <3>2 DEF Ruling
    <3> QED
      BY <3>1, <3>2
  <2>9. OneDecides'
    BY <2>6 DEF OneDecides, Cards
  <2>10. OneAsks'
    <3>1. \A i \in Asked' : calls'[i].kind = "queue" => i \in Asked /\ calls'[i] = calls[i]
      BY <1>2, <1>4 DEF Cardlike
    <3> QED
      BY <3>1 DEF OneAsks, Cards
  <2>11. ~card'.loaded
    BY <2>1, <2>3
  <2>12. card'.box = IF place'.folder = "screener" THEN place'.box ELSE NONE
    BY <1>2, <2>1, <2>3
  <2> QED
    BY <2>7, <2>8, <2>9, <2>10, <2>11, <2>12 DEF Cards, NobodySkipped
<1> QED
  BY <1>5, <1>6

LEMMA AskQueueCards ==
  ASSUME ClientTyped, Cards, AskQueue
  PROVE  Cards'
<1>1. PICK c \in CallType : /\ Proper(c) /\ calls' = Append(calls, c)
                            /\ c.kind = "queue" /\ c.with = <<card.mount, card.box>>
  BY AskQueueSends
<1>2. /\ Asked' = Asked \cup {Len(calls) + 1} /\ Len(calls) + 1 \notin Asked
      /\ calls'[Len(calls) + 1] = c /\ \A i \in Asked : calls'[i] = calls[i]
  BY <1>1, SentOne
<1>3. /\ UNCHANGED <<server, place, card>> /\ ~card.loaded
      /\ \A i \in Asked : ~(calls[i].kind = "queue" /\ calls[i].with = <<card.mount, card.box>>)
  BY DEF AskQueue, Asked
<1>4. UNCHANGED <<decided, place, card>>
  BY <1>3 DEF server
<1>5. \A i \in Asked' : OnTop(calls[i])' /\ Ruling(calls[i])'
  <2> SUFFICES ASSUME NEW i \in Asked'
               PROVE  OnTop(calls[i])' /\ Ruling(calls[i])'
    OBVIOUS
  <2>1. CASE i \in Asked
    <3>1. calls'[i] = calls[i] /\ OnTop(calls[i]) /\ Ruling(calls[i])
      BY <1>2, <2>1 DEF Cards
    <3> QED
      BY <1>4, <3>1 DEF OnTop, Ruling, Deciding
  <2>2. CASE i \notin Asked
    BY <1>1, <1>2, <2>2 DEF OnTop, Ruling, Deciding
  <2> QED
    BY <2>1, <2>2
<1>6. OneDecides'
  <2>1. \A i \in Asked' : Deciding(calls[i])' => i \in Asked /\ Deciding(calls[i])
    BY <1>1, <1>2, <1>4 DEF Deciding
  <2> QED
    BY <2>1 DEF OneDecides, Cards
<1>7. OneAsks'
  <2> SUFFICES ASSUME NEW i \in Asked', NEW j \in Asked', calls'[i].kind = "queue",
                      calls'[j].kind = "queue", calls'[i].with = calls'[j].with
               PROVE  i = j
    BY DEF OneAsks
  <2>1. CASE i \in Asked /\ j \in Asked
    BY <1>2, <2>1 DEF OneAsks, Cards
  <2>2. CASE ~(i \in Asked /\ j \in Asked)
    BY <1>1, <1>2, <1>3, <2>2
  <2> QED
    BY <2>1, <2>2
<1> QED
  BY <1>3, <1>4, <1>5, <1>6, <1>7 DEF Cards, NobodySkipped

LEMMA DecideCards ==
  ASSUME ClientTyped, Cards, Decide
  PROVE  Cards'
<1>1. PICK c \in CallType : /\ Proper(c) /\ calls' = Append(calls, c)
                            /\ c.kind = "decide" /\ c.state = "sent"
                            /\ c.with.ids = {card.queue[card.idx]} /\ c.with.mount = card.mount
  BY DecideSends
<1>2. /\ Asked' = Asked \cup {Len(calls) + 1} /\ Len(calls) + 1 \notin Asked
      /\ calls'[Len(calls) + 1] = c /\ \A i \in Asked : calls'[i] = calls[i]
  BY <1>1, SentOne
<1>3. /\ UNCHANGED <<server, place>> /\ card.loaded /\ ~card.busy
      /\ card' = [card EXCEPT !.busy = TRUE]
  BY DEF Decide, MayDecide
<1>4. UNCHANGED <<decided, place>>
  BY <1>3 DEF server
<1>5. card \in CardType /\ card.mount \in Nat
  BY DEF ClientTyped, CardType
<1>6. /\ card'.box = card.box /\ card'.mount = card.mount /\ card'.queue = card.queue
      /\ card'.idx = card.idx /\ card'.busy /\ card'.loaded = card.loaded /\ card'.hurried = card.hurried
  BY <1>3, <1>5 DEF CardType
<1>7. \A i \in Asked : ~Deciding(calls[i])
  BY <1>3 DEF Cards, OnTop
<1>8. \A i \in Asked : ~Deciding(calls[i])' /\ Ruling(calls[i])'
  <2> SUFFICES ASSUME NEW i \in Asked
               PROVE  ~Deciding(calls[i])' /\ Ruling(calls[i])'
    OBVIOUS
  <2>1. calls'[i] = calls[i] /\ ~Deciding(calls[i]) /\ Ruling(calls[i])
    BY <1>2, <1>7 DEF Cards
  <2> QED
    BY <1>4, <1>6, <2>1 DEF Ruling, Deciding
<1>9. \A i \in Asked' : OnTop(calls[i])' /\ Ruling(calls[i])'
  <2> SUFFICES ASSUME NEW i \in Asked'
               PROVE  OnTop(calls[i])' /\ Ruling(calls[i])'
    OBVIOUS
  <2>1. CASE i \in Asked
    BY <1>8, <2>1 DEF OnTop
  <2>2. CASE i \notin Asked
    <3>1. calls'[i] = c
      BY <1>2, <2>2
    <3>2. OnTop(calls[i])'
      BY <1>1, <1>3, <1>6, <3>1 DEF OnTop
    <3>3. c.with.mount <= card'.mount
      BY <1>1, <1>5, <1>6
    <3> QED
      BY <1>1, <3>1, <3>2, <3>3 DEF Ruling
  <2> QED
    BY <2>1, <2>2
<1>10. OneDecides'
  BY <1>2, <1>8 DEF OneDecides
<1>11. OneAsks'
  <2>1. \A i \in Asked' : calls'[i].kind = "queue" => i \in Asked /\ calls'[i] = calls[i]
    BY <1>1, <1>2
  <2> QED
    BY <2>1 DEF OneAsks, Cards
<1>12. \A i \in Asked' : ~Awaited(calls[i])'
  <2>1. \A i \in Asked : ~Awaited(calls[i])
    BY <1>3 DEF Cards
  <2>2. SUFFICES ASSUME NEW i \in Asked'
                 PROVE  ~Awaited(calls[i])'
    OBVIOUS
  <2>3. CASE i \in Asked
    <3>1. calls'[i] = calls[i] /\ card'.mount = card.mount /\ card'.box = card.box
      BY <1>2, <1>6, <2>3
    <3> QED
      BY <2>1, <2>3, <3>1 DEF Awaited
  <2>4. CASE i \notin Asked
    BY <1>1, <1>2, <2>4 DEF Awaited
  <2> QED
    BY <2>3, <2>4
<1>13. NobodySkipped'
  BY <1>4, <1>6 DEF Cards, NobodySkipped
<1>14. /\ card'.box = IF place'.folder = "screener" THEN place'.box ELSE NONE
       /\ card'.box = NONE => ~card'.loaded
  BY <1>4, <1>6 DEF Cards
<1> QED
  BY <1>9, <1>10, <1>11, <1>12, <1>13, <1>14 DEF Cards
LEMMA TakeQueueCards ==
  ASSUME ClientTyped, Cards, NEW i \in Asked, TakeQueue(i)
  PROVE  Cards'
<1> DEFINE c == calls[i]
<1>1. /\ c.kind = "queue" /\ c.state = "back" /\ calls' = RemoveAt(calls, i)
      /\ card' = IF c.with = <<card.mount, card.box>>
                   THEN [card EXCEPT !.queue = c.answer, !.idx = 1, !.loaded = TRUE] ELSE card
      /\ UNCHANGED <<server, place>>
  BY DEF TakeQueue
<1>2. UNCHANGED <<decided, place>>
  BY <1>1 DEF server
<1>3. PICK p \in Places : p = place
  BY DEF ClientTyped
<1>4. PICK h : Transfers(h) /\ \A j \in Asked' : calls'[j].kind \in Cardlike => h[j] # i
  BY <1>1, RemoveDrops, DropsTransfers
<1>5. CASE c.with # <<card.mount, card.box>>
  BY <1>1, <1>2, <1>4, <1>5, CardsKept
<1>6. CASE c.with = <<card.mount, card.box>>
  <2>1. card \in CardType
    BY DEF ClientTyped
  <2>2. /\ card'.box = card.box /\ card'.mount = card.mount /\ card'.idx = 1
        /\ card'.busy = card.busy /\ card'.loaded /\ card'.hurried = card.hurried
    BY <1>1, <1>6, <2>1 DEF CardType
  <2>3. ~card.loaded
    BY <1>1, <1>6 DEF Cards, Awaited
  <2>4. card.box # NONE
    <3>1. c.with \in Nat \X Boxes
      BY <1>1, EditForms DEF Proper
    <3> QED
      BY <1>6, <3>1, WebmailConstants
  <2>5. ASSUME NEW j \in Asked', calls'[j].kind \in Cardlike
        PROVE  /\ h[j] \in Asked \ {i}
               /\ calls'[j].kind = calls[h[j]].kind /\ calls'[j].with = calls[h[j]].with
               /\ calls'[j].kind = "decide" /\ calls'[j].state = "back" =>
                    calls[h[j]].state = "back" \/ calls'[j].with.ids \subseteq decided'
    BY <1>4, <2>5 DEF Transfers
  <2>6. \A j, k \in Asked' :
          calls'[j].kind \in Cardlike /\ calls'[k].kind \in Cardlike /\ h[j] = h[k] => j = k
    BY <1>4 DEF Transfers
  <2>7. ASSUME NEW j \in Asked', calls'[j].kind = "decide"
        PROVE  OnTop(calls[j])' /\ Ruling(calls[j])'
    <3>1. /\ h[j] \in Asked /\ calls[h[j]].kind = "decide" /\ calls'[j].with = calls[h[j]].with
          /\ calls'[j].state = "back" =>
               calls[h[j]].state = "back" \/ calls'[j].with.ids \subseteq decided'
      BY <2>5, <2>7 DEF Cardlike
    <3>2. OnTop(calls[h[j]]) /\ Ruling(calls[h[j]])
      BY <3>1 DEF Cards
    <3>3. OnTop(calls[j])'
      BY <2>2, <2>3, <3>1, <3>2 DEF OnTop, Deciding
    <3>4. Ruling(calls[j])'
      BY <1>2, <2>2, <3>1, <3>2 DEF Ruling
    <3> QED
      BY <3>3, <3>4
  <2>8. \A j \in Asked' : OnTop(calls[j])' /\ Ruling(calls[j])'
    BY <2>7 DEF OnTop, Ruling, Deciding
  <2>9. OneDecides'
    <3> SUFFICES ASSUME NEW j \in Asked', NEW k \in Asked', Deciding(calls[j])', Deciding(calls[k])'
                 PROVE  j = k
      BY DEF OneDecides
    <3>1. calls'[j].kind \in Cardlike /\ calls'[k].kind \in Cardlike
      BY DEF Deciding, Cardlike
    <3>2. h[j] \in Asked /\ h[k] \in Asked /\ Deciding(calls[h[j]]) /\ Deciding(calls[h[k]])
      BY <2>2, <2>5, <3>1 DEF Deciding
    <3> QED
      BY <2>6, <3>1, <3>2 DEF Cards, OneDecides
  <2>10. OneAsks'
    <3> SUFFICES ASSUME NEW j \in Asked', NEW k \in Asked', calls'[j].kind = "queue",
                        calls'[k].kind = "queue", calls'[j].with = calls'[k].with
                 PROVE  j = k
      BY DEF OneAsks
    <3>1. /\ h[j] \in Asked /\ h[k] \in Asked /\ calls[h[j]].kind = "queue" /\ calls[h[k]].kind = "queue"
          /\ calls[h[j]].with = calls[h[k]].with
      BY <2>5 DEF Cardlike
    <3> QED
      BY <2>6, <3>1 DEF Cards, OneAsks, Cardlike
  <2>11. ASSUME NEW j \in Asked', Awaited(calls[j])'
         PROVE  FALSE
    <3>1. calls'[j].kind = "queue" /\ calls'[j].with = c.with
      BY <1>6, <2>2, <2>11 DEF Awaited
    <3>2. h[j] \in Asked \ {i} /\ calls[h[j]].kind = "queue" /\ calls[h[j]].with = c.with
      BY <2>5, <3>1 DEF Cardlike
    <3> QED
      BY <1>1, <3>2 DEF Cards, OneAsks
  <2>12. NobodySkipped'
    BY <2>2 DEF NobodySkipped
  <2>13. /\ card'.box = IF place'.folder = "screener" THEN place'.box ELSE NONE
         /\ card'.box = NONE => ~card'.loaded
    BY <1>2, <2>2, <2>4 DEF Cards
  <2> QED
    BY <2>8, <2>9, <2>10, <2>11, <2>12, <2>13 DEF Cards
<1> QED
  BY <1>5, <1>6

\* The decision on the card on top comes back, done (moved) or failed.
LEMMA DecisionBack ==
  ASSUME ClientTyped, Cards, NEW i \in Asked, Deciding(calls[i]), NEW h, Transfers(h),
         \A j \in Asked' : calls'[j].kind \in Cardlike => h[j] # i,
         UNCHANGED <<decided, place>>, NEW moved \in BOOLEAN,
         card' = IF moved THEN Decided(calls[i]) ELSE Undecided(calls[i]),
         moved => calls[i].state = "back"
  PROVE  Cards'
<1>1. card \in CardType
  BY DEF ClientTyped
<1>2. /\ card'.box = card.box /\ card'.mount = card.mount /\ card'.queue = card.queue
      /\ card'.idx = (IF moved THEN card.idx + 1 ELSE card.idx)
      /\ ~card'.busy /\ card'.loaded = card.loaded /\ card'.hurried = card.hurried
  BY <1>1 DEF CardType, Decided, Undecided
<1>3. ASSUME NEW j \in Asked', calls'[j].kind \in Cardlike
      PROVE  /\ h[j] \in Asked \ {i}
             /\ calls'[j].kind = calls[h[j]].kind /\ calls'[j].with = calls[h[j]].with
             /\ calls'[j].kind = "decide" /\ calls'[j].state = "back" =>
                  calls[h[j]].state = "back" \/ calls'[j].with.ids \subseteq decided'
  BY <1>3 DEF Transfers
<1>4. \A j, k \in Asked' :
        calls'[j].kind \in Cardlike /\ calls'[k].kind \in Cardlike /\ h[j] = h[k] => j = k
  BY DEF Transfers
<1>5. ASSUME NEW j \in Asked', Deciding(calls[j])'
      PROVE  FALSE
  <2>1. calls'[j].kind \in Cardlike
    BY <1>5 DEF Deciding, Cardlike
  <2>2. h[j] \in Asked \ {i} /\ Deciding(calls[h[j]])
    BY <1>2, <1>3, <1>5, <2>1 DEF Deciding
  <2> QED
    BY <2>2 DEF Cards, OneDecides
<1>6. ASSUME NEW j \in Asked'
      PROVE  Ruling(calls[j])'
  <2>1. CASE calls'[j].kind = "decide"
    <3>1. /\ h[j] \in Asked /\ calls[h[j]].kind = "decide" /\ calls'[j].with = calls[h[j]].with
          /\ calls'[j].state = "back" =>
               calls[h[j]].state = "back" \/ calls'[j].with.ids \subseteq decided'
      BY <1>3, <2>1 DEF Cardlike
    <3>2. Ruling(calls[h[j]])
      BY <3>1 DEF Cards
    <3> QED
      BY <1>2, <3>1, <3>2 DEF Ruling
  <2>2. CASE calls'[j].kind # "decide"
    BY <2>2 DEF Ruling
  <2> QED
    BY <2>1, <2>2
<1>7. OneAsks'
  <2> SUFFICES ASSUME NEW j \in Asked', NEW k \in Asked', calls'[j].kind = "queue",
                      calls'[k].kind = "queue", calls'[j].with = calls'[k].with
               PROVE  j = k
    BY DEF OneAsks
  <2>1. /\ h[j] \in Asked /\ h[k] \in Asked /\ calls[h[j]].kind = "queue" /\ calls[h[k]].kind = "queue"
        /\ calls[h[j]].with = calls[h[k]].with
    BY <1>3 DEF Cardlike
  <2> QED
    BY <1>4, <2>1 DEF Cards, OneAsks, Cardlike
<1>8. card'.loaded => \A j \in Asked' : ~Awaited(calls[j])'
  BY <1>2, <1>3 DEF Cards, Awaited, Cardlike
<1>9. ASSUME card'.loaded, ~card'.hurried
      PROVE  \A n \in 1 .. card'.idx - 1 : n \in DOMAIN card'.queue => card'.queue[n] \in decided'
  <2>1. \A n \in 1 .. card.idx - 1 : n \in DOMAIN card.queue => card.queue[n] \in decided
    BY <1>2, <1>9 DEF Cards, NobodySkipped
  <2>2. moved => card.queue[card.idx] \in decided
    <3>1. OnTop(calls[i]) /\ Ruling(calls[i])
      BY DEF Cards
    <3>2. calls[i].with.ids = {card.queue[card.idx]}
      BY <1>2, <1>9, <3>1 DEF OnTop
    <3> QED
      BY <3>1, <3>2 DEF Ruling, Deciding
  <2>3. card.idx \in Nat
    BY <1>1 DEF CardType
  <2>4. \A n \in 1 .. card'.idx - 1 : n \in 1 .. card.idx - 1 \/ (moved /\ n = card.idx)
    BY <1>2, <2>3
  <2> QED
    BY <1>2, <2>1, <2>2, <2>4
<1>10. /\ card'.box = IF place'.folder = "screener" THEN place'.box ELSE NONE
       /\ card'.box = NONE => ~card'.loaded
  BY <1>2 DEF Cards
<1> QED
  BY <1>5, <1>6, <1>7, <1>8, <1>9, <1>10 DEF Cards, OnTop, OneDecides, NobodySkipped

LEMMA AnswerCards ==
  ASSUME ClientTyped, Cards, NEW i \in Asked,
         TakeFetch(i) \/ TakeMessage(i) \/ TakeQueue(i) \/ TakeAct(i) \/ TakeDecide(i) \/ Failure(i)
  PROVE  Cards'
<1>1. PICK p \in Places : p = calls[i].place
  BY EditForms DEF CallType
<1>2. CASE TakeFetch(i) \/ TakeMessage(i)
  <2>1. calls' = RemoveAt(calls, i) /\ UNCHANGED <<server, place, card>>
    BY <1>2 DEF TakeFetch, TakeMessage
  <2>2. PICK h : Transfers(h)
    BY <1>1, <2>1, RemoveDrops, DropsTransfers
  <2> QED
    BY <2>1, <2>2, CardsKept DEF server
<1>3. CASE TakeAct(i)
  <2>1. Refreshed(i, p) /\ UNCHANGED <<server, place, card>>
    BY <1>1, <1>3 DEF TakeAct
  <2>2. PICK h : Transfers(h)
    BY <2>1, RefreshedDrops, DropsTransfers
  <2> QED
    BY <2>1, <2>2, CardsKept DEF server
<1>4. CASE TakeDecide(i)
  <2>1. /\ calls[i].state = "back" /\ calls[i].kind = "decide"
        /\ card' = IF calls[i].with.mount = card.mount /\ card.box # NONE THEN Decided(calls[i]) ELSE card
        /\ Refreshed(i, p) /\ UNCHANGED <<server, place>>
    BY <1>1, <1>4 DEF TakeDecide
  <2>2. PICK h : Transfers(h) /\ \A j \in Asked' : calls'[j].kind \in Cardlike => h[j] # i
    BY <2>1, RefreshedDrops, DropsTransfers
  <2>3. UNCHANGED <<decided, place>>
    BY <2>1 DEF server
  <2>4. CASE Deciding(calls[i])
    <3>1. card' = IF TRUE THEN Decided(calls[i]) ELSE Undecided(calls[i])
      BY <2>1, <2>4 DEF Deciding
    <3> QED
      BY <2>1, <2>2, <2>3, <2>4, <3>1, DecisionBack
  <2>5. CASE ~Deciding(calls[i])
    <3>1. UNCHANGED card
      BY <2>1, <2>5 DEF Deciding
    <3> QED
      BY <2>2, <2>3, <3>1, CardsKept
  <2> QED
    BY <2>4, <2>5
<1>5. CASE Failure(i)
  <2>1. /\ calls' = RemoveAt(calls, i) /\ UNCHANGED <<server, place>>
        /\ card' = IF calls[i].kind = "decide" /\ calls[i].with.mount = card.mount /\ card.box # NONE
                     THEN Undecided(calls[i]) ELSE card
    BY <1>5 DEF Failure
  <2>2. PICK h : Transfers(h) /\ \A j \in Asked' : calls'[j].kind \in Cardlike => h[j] # i
    BY <1>1, <2>1, RemoveDrops, DropsTransfers
  <2>3. UNCHANGED <<decided, place>>
    BY <2>1 DEF server
  <2>4. CASE Deciding(calls[i])
    <3>1. card' = IF FALSE THEN Decided(calls[i]) ELSE Undecided(calls[i])
      BY <2>1, <2>4 DEF Deciding
    <3> QED
      BY <2>2, <2>3, <2>4, <3>1, DecisionBack
  <2>5. CASE ~Deciding(calls[i])
    <3>1. UNCHANGED card
      BY <2>1, <2>5 DEF Deciding
    <3> QED
      BY <2>2, <2>3, <3>1, CardsKept
  <2> QED
    BY <2>4, <2>5
<1> QED
  BY <1>2, <1>3, <1>4, <1>5, TakeQueueCards

LEMMA ServerCards ==
  ASSUME ClientTyped, Cards, Elsewhere \/ StreamBreaks \/ Event \/ \E i \in Asked : ServeFetch(i) \/ ServeAct(i) \/ Lost(i)
  PROVE  Cards'
<1>1. CASE Elsewhere \/ StreamBreaks
  <2>1. UNCHANGED <<place, card, calls>> /\ decided \subseteq decided'
    BY <1>1, ElsewhereFacts DEF StreamBreaks, server
  <2>2. Asked' = Asked
    BY <2>1 DEF Asked
  <2>3. PICK h : Transfers(h)
    BY <2>1, <2>2, GrowsTransfers
  <2> QED
    BY <2>1, <2>3, CardsKept
<1>2. CASE Event
  <2>1. /\ Asked \subseteq Asked' /\ \A i \in Asked : calls'[i] = calls[i]
        /\ \A i \in Asked' \ Asked : calls'[i] = Fetch(place)
        /\ UNCHANGED <<server, place, card>>
    BY <1>2, EventFacts
  <2>2. Fetch(place).kind \notin Cardlike
    BY FetchFacts DEF ClientTyped, Cardlike, FetchKinds
  <2>3. \A i \in Asked' \ Asked : calls'[i].kind \notin Cardlike
    BY <2>1, <2>2
  <2>4. PICK h : Transfers(h)
    BY <2>1, <2>3, GrowsTransfers
  <2> QED
    BY <2>1, <2>4, CardsKept DEF server
<1>3. ASSUME NEW i \in Asked, ServeFetch(i)
      PROVE  Cards'
  <2>1. UNCHANGED <<server, place, card>> /\ calls[i].kind \in FetchKinds \cup {"get", "queue"}
    BY <1>3, ServeFetchFacts
  <2>2. PICK rows : /\ calls' = [calls EXCEPT ![i] = Reply(calls[i], version, rows)]
                    /\ rows \in {NONE} \cup (SUBSET SummaryType) \cup Seq(Msgs)
                    /\ Proper(Reply(calls[i], version, rows))
    BY <1>3, ServeFetchFacts
  <2> DEFINE d == Reply(calls[i], version, rows)
  <2>3. d \in CallType /\ Same(d, calls[i])
    BY <2>2, EditForms, ReplyFacts DEF ClientTyped
  <2>4. d.kind # "decide"
    BY <2>1, <2>3 DEF Same, FetchKinds
  <2> HIDE DEF d
  <2>5. PICK h : Transfers(h)
    BY <2>2, <2>3, <2>4, EditTransfers DEF d
  <2> QED
    BY <2>1, <2>5, CardsKept DEF server
<1>4. ASSUME NEW i \in Asked, ServeAct(i)
      PROVE  Cards'
  <2>1. UNCHANGED <<place, card>>
    BY <1>4, ServeActFacts
  <2>2. calls[i] \in CallType /\ Proper(calls[i]) /\ version \in Nat
    BY EditForms DEF ClientTyped
  <2>3. CASE calls' = [calls EXCEPT ![i] = Broken(calls[i])] /\ UNCHANGED <<server, wire, shown>>
    <3>1. /\ Broken(calls[i]) \in CallType /\ Same(Broken(calls[i]), calls[i]) /\ Proper(Broken(calls[i]))
          /\ Broken(calls[i]).state # "back"
      BY <2>2, BrokenFacts
    <3>2. PICK h : Transfers(h)
      BY <2>3, <3>1, EditTransfers
    <3> QED
      BY <2>1, <2>3, <3>2, CardsKept DEF server
  <2>4. CASE /\ calls' = [calls EXCEPT ![i] = Reply(calls[i], version + 1, {})]
             /\ Reply(calls[i], version + 1, {}) \in CallType /\ Proper(Reply(calls[i], version + 1, {}))
             /\ decided \subseteq decided'
             /\ calls[i].kind = "decide" => calls[i].with.ids \subseteq decided'
    <3> DEFINE d == Reply(calls[i], version + 1, {})
    <3>1. Same(d, calls[i])
      <4>1. version + 1 \in Nat /\ {} \in {NONE} \cup (SUBSET SummaryType) \cup Seq(Msgs)
        BY <2>2
      <4> QED
        BY <2>2, <4>1, ReplyFacts
    <3>2. d.kind = "decide" => d.with.ids \subseteq decided'
      BY <2>4, <3>1 DEF Same
    <3> HIDE DEF d
    <3>3. PICK h : Transfers(h)
      BY <2>4, <3>1, <3>2, EditTransfers DEF d
    <3> QED
      BY <2>1, <2>4, <3>3, CardsKept
  <2> QED
    BY <1>4, <2>3, <2>4, ServeActFacts
<1>5. ASSUME NEW i \in Asked, Lost(i)
      PROVE  Cards'
  <2>1. /\ calls' = [calls EXCEPT ![i] = Broken(calls[i])]
        /\ UNCHANGED <<server, place, card>>
    BY <1>5, EditForms DEF Lost
  <2>2. /\ Broken(calls[i]) \in CallType /\ Same(Broken(calls[i]), calls[i]) /\ Proper(Broken(calls[i]))
        /\ Broken(calls[i]).state # "back"
    BY EditForms, BrokenFacts
  <2>3. PICK h : Transfers(h)
    BY <2>1, <2>2, EditTransfers
  <2> QED
    BY <2>1, <2>3, CardsKept DEF server
<1> QED
  BY <1>1, <1>2, <1>3, <1>4, <1>5

LEMMA ClickCards ==
  ASSUME ClientTyped, Cards, Clicks \/ Debounced \/ Listen \/ \E S \in SUBSET Msgs : Pick(S)
  PROVE  Cards'
<1>1. CASE Clicks \/ Debounced
  <2>1. /\ Asked \subseteq Asked' /\ \A i \in Asked : calls'[i] = calls[i]
        /\ \A i \in Asked' \ Asked : calls'[i].kind \notin Cardlike
    BY <1>1, ClicksSend, DebouncedSends DEF Sends, Cardlike
  <2>2. UNCHANGED <<server, place, card>>
    BY <1>1, ClicksSend DEF Debounced
  <2>3. PICK h : Transfers(h)
    BY <2>1, GrowsTransfers
  <2> QED
    BY <2>2, <2>3, CardsKept DEF server
<1>2. CASE Listen \/ \E S \in SUBSET Msgs : Pick(S)
  <2>1. UNCHANGED <<server, place, card, calls>>
    BY <1>2 DEF Listen, Pick
  <2>2. Asked' = Asked
    BY <2>1 DEF Asked
  <2>3. PICK h : Transfers(h)
    BY <2>1, <2>2, GrowsTransfers
  <2> QED
    BY <2>1, <2>3, CardsKept DEF server
<1> QED
  BY <1>1, <1>2

-----------------------------------------------------------------------------
WebmailInv == ClientTyped /\ AllStraight /\ Fresh /\ Cards

LEMMA WebmailStarts ==
  ASSUME WebmailInit
  PROVE  WebmailInv
<1>1. ClientTyped
  BY ClientInitTyped
<1>2. /\ calls = <<Fetch(place)>> /\ place \in Places /\ place.folder = "inbox" /\ ~place.query
      /\ results = NONE /\ version = 0 /\ seen = 0 /\ timer = FALSE /\ card = NoCard
  BY <1>1 DEF WebmailInit, ClientTyped, Places
<1>3. Asked = {1} /\ calls[1] = Fetch(place)
  BY <1>2 DEF Asked
<1>4. /\ Fetch(place).kind \in FetchKinds /\ Fetch(place).place = place /\ Fetch(place).state = "sent"
      /\ Fetch(place).kind = "list"
  BY <1>2, FetchFacts
<1>5. AllStraight
  BY <1>2, <1>3, <1>4 DEF AllStraight, Straight
<1>6. Fresh
  BY <1>2, <1>3, <1>4 DEF Fresh, Good, AtLeast, Mine
<1>7. NoCard.box = NONE /\ ~NoCard.loaded
  BY DEF NoCard
<1>8. Cards
  BY <1>2, <1>3, <1>4, <1>7
     DEF Cards, OnTop, Ruling, OneDecides, OneAsks, Deciding, NobodySkipped
<1> QED
  BY <1>1, <1>5, <1>6, <1>8 DEF WebmailInv

LEMMA WebmailSteps ==
  ASSUME WebmailInv, WebmailNext
  PROVE  WebmailInv'
<1>1. ClientTyped /\ Cards /\ Rest
  BY DEF WebmailInv, Rest
<1>2. CASE Goes
  BY <1>1, <1>2, GoesTyped, GoesFresh, GoesCards DEF WebmailInv
<1>3. CASE Clicks \/ Debounced \/ Listen \/ \E S \in SUBSET Msgs : Pick(S)
  BY <1>1, <1>3, ClickTyped, ClickFresh, ClickCards DEF WebmailInv
<1>4. CASE AskQueue
  BY <1>1, <1>4, ClickTyped, ClickFresh, AskQueueCards DEF WebmailInv
<1>5. CASE Decide
  BY <1>1, <1>5, ClickTyped, ClickFresh, DecideCards DEF WebmailInv
<1>6. CASE Event
  BY <1>1, <1>6, AnswerTyped, GoesFresh, ServerCards DEF WebmailInv
<1>7. CASE Elsewhere \/ StreamBreaks \/ \E i \in Asked : ServeFetch(i) \/ ServeAct(i) \/ Lost(i)
  BY <1>1, <1>7, ServerTyped, ServerFresh, ServerCards DEF WebmailInv
<1>8. ASSUME NEW i \in Asked,
             TakeFetch(i) \/ TakeMessage(i) \/ TakeQueue(i) \/ TakeAct(i) \/ TakeDecide(i) \/ Failure(i)
      PROVE  WebmailInv'
  BY <1>1, <1>8, AnswerTyped, AnswerFresh, AnswerCards DEF WebmailInv
<1> QED
  BY <1>2, <1>3, <1>4, <1>5, <1>6, <1>7, <1>8 DEF WebmailNext, Goes, Clicks, Asked

LEMMA WebmailStutters ==
  ASSUME WebmailInv, UNCHANGED webmailVars
  PROVE  WebmailInv'
<1>1. ClientTyped /\ Cards /\ Rest
  BY DEF WebmailInv, Rest
<1>2. /\ UNCHANGED <<server, wire, place, shown, picked, pane, timer, card, calls>>
  BY DEF webmailVars
<1>3. UNCHANGED <<mail, decided, version, stream, events, messages, results, seen, stale>>
  BY <1>2 DEF server, wire, shown
<1>4. ClientTyped'
  BY <1>1, <1>2, <1>3 DEF ClientTyped, Asked
<1>5. Carries /\ (Comes => Comes')
  BY <1>2, <1>3, IdleCarries DEF Comes
<1>6. AllStraight' /\ Fresh'
  BY <1>1, <1>2, <1>3, <1>5, QuietStep
<1>7. Cards'
  <2>1. Asked' = Asked
    BY <1>2 DEF Asked
  <2>2. PICK h : Transfers(h)
    BY <1>2, <2>1, GrowsTransfers
  <2> QED
    BY <1>1, <1>2, <1>3, <2>2, CardsKept
<1> QED
  BY <1>4, <1>6, <1>7 DEF WebmailInv

\* WebmailInv holds of every behaviour: the types, the answers that are straight, the
\* list that is true or being corrected, and the card that waits for its own decision.
THEOREM WebmailInvariant == WebmailSpec => []WebmailInv
<1>1. WebmailInv /\ [WebmailNext]_webmailVars => WebmailInv'
  BY WebmailSteps, WebmailStutters
<1> QED
  BY <1>1, WebmailStarts, PTL DEF WebmailSpec

\* The rows, the calls under way and what the screen keeps are of the types the code gives
\* them, whatever comes back and in whatever order.
THEOREM WebmailTyped == WebmailSpec => []WebmailTypeOK
<1>1. WebmailInv => WebmailTypeOK
  <2> SUFFICES ASSUME ClientTyped PROVE WebmailTypeOK
    BY DEF WebmailInv
  <2>1. \A i \in DOMAIN calls : calls[i] \in CallType
    BY DEF ClientTyped
  <2>2. \A i \in DOMAIN calls :
          /\ calls[i].kind \in Kinds /\ calls[i].place \in Places
          /\ calls[i].state \in States /\ calls[i].ver \in Nat
    BY <2>1 DEF CallType
  <2>3. pane = NONE \/ pane \in [id : Msgs, folder : MailFolders]
    BY DEF ClientTyped, Opened
  <2>4. mail \in [Msgs -> [folder : MailFolders \cup {"coming", "gone"}, read : BOOLEAN]]
    BY DEF ClientTyped, MailType
  <2> QED
    BY <2>2, <2>3, <2>4 DEF ClientTyped, WebmailTypeOK
<1> QED
  BY <1>1, WebmailInvariant, PTL

\* The list holds what is true of its place, or what will correct it is on its way; when
\* nothing is, it is true.
LEMMA FreshIsTrue ==
  ASSUME WebmailInv
  PROVE  ListIsTrue
<1> SUFFICES ASSUME Quiet, ~stale, place.folder # "screener"
             PROVE  Visible = Truth(place)
  BY DEF ListIsTrue
<1>1. Visible = Truth(place) \/ Comes \/ \E i \in Asked : AtLeast(calls[i], seen)
  BY DEF WebmailInv, Fresh
<1>2. ~Comes
  BY DEF Quiet, Comes
<1>3. \A i \in Asked : ~AtLeast(calls[i], seen)
  BY DEF Quiet, AtLeast, Mine, FetchKinds, Asked
<1> QED
  BY <1>1, <1>2, <1>3

\* When nothing is under way the list on the screen is the server's, for any messages and
\* mailboxes and however the calls, their answers and the events are interleaved: App's
\* refresh after each handler and each event leaves no change of the server unseen.
THEOREM ListStaysTrue == WebmailSpec => []ListIsTrue
  BY WebmailInvariant, FreshIsTrue, PTL

\* The Screener passes no sender who was not decided on: a card gives way to the next
\* only when the decision that is answered is the one about it (Screener.tsx).
THEOREM NobodyIsSkipped == WebmailSpec => []NobodySkipped
<1>1. WebmailInv => NobodySkipped
  BY DEF WebmailInv, Cards
<1> QED
  BY <1>1, WebmailInvariant, PTL
=============================================================================
