------------------------------- MODULE Compose -------------------------------
(***************************************************************************)
(* Writing and sending a message: the compose panel of the web client with *)
(* its autosave (ComposePanel.tsx), the compose screen of the app          *)
(* (ComposeScreen.tsx), the drafts, reply and send routes (api.ts) and     *)
(* sendMessage (sender.ts).                                                *)
(*                                                                         *)
(* The panel and the server talk by HTTP calls that wait for each other    *)
(* only where the panel awaits them; calls that are under way at the same  *)
(* time arrive in any order. What the panel shows is a version: an edit    *)
(* makes a new one, 0 is an empty panel. "From" is kept apart from it.     *)
(***************************************************************************)
EXTENDS Integers, FiniteSets, Sequences

CONSTANTS
  Boxes,      \* mailboxes of the account
  None,       \* no draft
  MaxEdits,   \* bound: edits
  MaxPanels,  \* bound: times the panel is opened
  MaxDrafts,  \* bound: draft rows made
  MaxClicks   \* bound: clicks on Send

Versions == 0 .. MaxEdits
DraftIds == 1 .. MaxDrafts
Clicks == 1 .. MaxClicks

ASSUME ComposeConstantsOK ==
  /\ IsFiniteSet(Boxes) /\ Boxes # {}
  /\ {MaxEdits, MaxPanels, MaxDrafts, MaxClicks} \subseteq Nat
  /\ None \notin Nat \cup Boxes \cup [box : Boxes, text : Versions]

VARIABLES
  boxes,     \* server: mailboxes rows
  drafts,    \* server: drafts rows
  sentRows,  \* server: rows in the folder "sent" and the mailboxes that trust the recipient
  panel,     \* client: the compose panel
  timer,     \* client: the autosave that waits, with the values it will save
  closing,   \* client: the timer that closes the panel after a send
  pad,       \* app: the compose screen
  calls,     \* HTTP calls under way
  edits,     \* history: how many edits there were
  made,      \* history: how many drafts rows were made
  clicks,    \* history: what the panel showed at each click on Send
  told,      \* history: what the panel said of each click
  mails,     \* history: what the relay took
  reopened,  \* history: a draft was opened while it was being sent
  broken     \* history: the network or the process failed

server == <<boxes, drafts, sentRows>>
client == <<panel, timer, closing, pad>>
history == <<edits, made, clicks, told, mails, reopened, broken>>
vars == <<server, client, calls, history>>

Closed == [open |-> FALSE, no |-> 0, text |-> 0, from |-> None, draft |-> None, busy |-> FALSE]
NoTimer == [text |-> 0, from |-> None, draft |-> None]

\* An HTTP call. "click" is 0 unless it belongs to a click on Send.
Call(kind, click, draft, from, text) ==
  [kind |-> kind, no |-> panel.no, click |-> click, draft |-> draft, from |-> from, text |-> text,
   at |-> "up", ok |-> FALSE]

\* The call c is now where c2 is.
Moves(c, c2) == calls' = (calls \ {c}) \cup {c2}
Answered(c, ok) == Moves(c, [c EXCEPT !.at = "down", !.ok = ok])
-----------------------------------------------------------------------------
(* The panel is opened, edited and closed.                                 *)

OpenNew(b) ==
  /\ ~panel.open /\ panel.no < MaxPanels /\ pad.no = 0   \* bound: one of the clients is used
  /\ panel' = [Closed EXCEPT !.open = TRUE, !.no = panel.no + 1, !.from = b]
  /\ timer' = NoTimer
  /\ UNCHANGED <<server, closing, pad, calls, history>>

\* openIndex in the folder of drafts (App.tsx).
OpenDraft(d) ==
  /\ ~panel.open /\ panel.no < MaxPanels /\ pad.no = 0   \* bound: one of the clients is used
  /\ drafts[d] # None
  /\ panel' = [open |-> TRUE, no |-> panel.no + 1, text |-> drafts[d].text, from |-> drafts[d].box,
               draft |-> d, busy |-> FALSE]
  /\ timer' = NoTimer
  /\ reopened' = (reopened \/ \E c \in calls : c.click > 0 /\ c.draft = d)
  /\ UNCHANGED <<server, closing, pad, calls, edits, made, clicks, told, mails, broken>>

\* Mutant of Effect: a timer is set during a send, too.
EffectWhenBusy(p) == [text |-> p.text, from |-> p.from, draft |-> p.draft]

\* The effect after an edit: the timer before is cleared, and a new one is set
\* unless a send is in flight. It keeps the values of now, the draft id included.
Effect(p) == IF p.busy THEN NoTimer ELSE [text |-> p.text, from |-> p.from, draft |-> p.draft]

\* The owner types, or picks another From.
Edit(b) ==
  /\ panel.open /\ edits < MaxEdits
  /\ edits' = edits + 1
  /\ b # panel.from => panel.text > 0      \* bound: an empty panel keeps its From
  /\ panel' = [panel EXCEPT !.text = edits + 1, !.from = b]
  /\ timer' = Effect(panel')
  /\ UNCHANGED <<server, closing, pad, calls, made, clicks, told, mails, reopened, broken>>

\* onClose, by the owner or by the timer that a send has left behind.
Close ==
  /\ panel.open
  /\ panel' = [panel EXCEPT !.open = FALSE]
  /\ timer' = NoTimer
  /\ UNCHANGED <<server, closing, pad, calls, history>>

ClosesItself ==
  /\ closing
  /\ closing' = FALSE
  /\ panel' = [panel EXCEPT !.open = FALSE]
  /\ timer' = NoTimer
  /\ UNCHANGED <<server, pad, calls, history>>

\* The autosave timer goes off: a new draft, or a change of the one it knows.
Autosave ==
  /\ timer # NoTimer
  /\ timer' = NoTimer
  /\ calls' = calls \cup {IF timer.draft = None THEN Call("create", 0, None, timer.from, timer.text)
                          ELSE Call("patch", 0, timer.draft, timer.from, timer.text)}
  /\ UNCHANGED <<server, panel, closing, pad, history>>

Discard ==
  /\ panel.open /\ panel.draft # None
  /\ calls' = calls \cup {Call("delete", 0, panel.draft, None, 0)}
  /\ UNCHANGED <<server, client, history>>
-----------------------------------------------------------------------------
(* doSend                                                                  *)

\* No call that may still write this draft is under way.
Calm(d) == d # None => ~\E c \in calls : c.kind = "patch" /\ c.draft = d

\* Mutant of FirstCall: the draft is sent as the server has it.
FirstCallSends == Call("send", Len(clicks) + 1, panel.draft, panel.from, panel.text)

\* With a draft, the values shown are written to it first.
FirstCall ==
  Call(IF panel.draft = None THEN "send" ELSE "final", Len(clicks) + 1, panel.draft, panel.from, panel.text)

\* The button is off while a send is under way, and without a recipient.
CanSend == panel.open /\ ~panel.busy /\ panel.text > 0

ClickSend ==
  /\ CanSend /\ Len(clicks) < MaxClicks
  /\ panel' = [panel EXCEPT !.busy = TRUE]
  /\ clicks' = Append(clicks, [text |-> panel.text, from |-> panel.from, calm |-> Calm(panel.draft),
                               kept |-> panel.draft # None => /\ drafts[panel.draft] # None
                                                              /\ drafts[panel.draft].box = panel.from])
  /\ calls' = calls \cup {FirstCall}
  /\ UNCHANGED <<server, timer, closing, pad, edits, made, told, mails, reopened, broken>>

\* The panel that made the call is still there.
Mounted(c) == panel.open /\ panel.no = c.no

\* The await of a call ends. An autosave that failed is passed over.
Returns(c) ==
  /\ c \in calls /\ c.at = "down" /\ c.kind \notin {"prefill", "post"}
  /\ CASE c.kind = "create" /\ c.ok /\ Mounted(c) ->
            /\ panel' = [panel EXCEPT !.draft = c.draft]
            /\ calls' = calls \ {c} /\ UNCHANGED <<timer, closing, told>>
       [] c.kind = "final" /\ c.ok ->
            /\ Moves(c, [c EXCEPT !.kind = "send", !.at = "up", !.ok = FALSE])
            /\ UNCHANGED <<panel, timer, closing, told>>
       [] c.kind \in {"final", "send"} /\ (c.kind = "send" \/ ~c.ok) ->
            /\ told' = [told EXCEPT ![c.click] = IF c.ok THEN "sent" ELSE "failed"]
            /\ panel' = IF Mounted(c) THEN [panel EXCEPT !.busy = FALSE] ELSE panel
            /\ closing' = (closing \/ c.ok)
            /\ calls' = calls \ {c} /\ UNCHANGED timer
       [] c.kind = "delete" /\ c.ok /\ panel.open ->
            /\ panel' = [panel EXCEPT !.open = FALSE] /\ timer' = NoTimer
            /\ calls' = calls \ {c} /\ UNCHANGED <<closing, told>>
       [] OTHER -> calls' = calls \ {c} /\ UNCHANGED <<panel, timer, closing, told>>
  /\ UNCHANGED <<server, pad, edits, made, clicks, mails, reopened, broken>>
-----------------------------------------------------------------------------
(* The compose screen of the app: no drafts, and one call for a message.   *)

NoPad == [open |-> FALSE, no |-> 0, text |-> 0, from |-> None, is |-> "ready", reply |-> None]
PadCall(kind, click, from, text) == [Call(kind, click, None, from, text) EXCEPT !.no = pad'.no]

\* A new message from the active mailbox, or a reply to a message of the mailbox
\* b, which is fetched first.
PadOpens(b, reply) ==
  /\ ~pad.open /\ pad.no < MaxPanels /\ panel.no = 0
  /\ pad' = [NoPad EXCEPT !.open = TRUE, !.no = pad.no + 1, !.from = b,
                         !.is = IF reply THEN "loading" ELSE "ready", !.reply = IF reply THEN b ELSE None]
  /\ calls' = IF reply THEN calls \cup {PadCall("prefill", 0, b, 0)} ELSE calls
  /\ UNCHANGED <<server, panel, timer, closing, history>>

PadEdits ==
  /\ pad.open /\ pad.is = "ready" /\ edits < MaxEdits
  /\ edits' = edits + 1 /\ pad' = [pad EXCEPT !.text = edits + 1]
  /\ UNCHANGED <<server, panel, timer, closing, calls, made, clicks, told, mails, reopened, broken>>

\* The sheet that changes the active mailbox; a reply has its own.
PadPicks(b) ==
  /\ pad.open /\ pad.is = "ready" /\ pad.reply = None /\ b # pad.from
  /\ pad' = [pad EXCEPT !.from = b]
  /\ UNCHANGED <<server, panel, timer, closing, calls, history>>

\* Send, while nothing is loading or being sent.
CanPress == pad.open /\ pad.is = "ready" /\ ~\E c \in calls : c.kind = "post" /\ c.no = pad.no

PadSends ==
  /\ CanPress /\ pad.text > 0 /\ Len(clicks) < MaxClicks
  /\ clicks' = Append(clicks, [text |-> pad.text, from |-> IF pad.reply = None THEN pad.from ELSE pad.reply,
                               calm |-> TRUE, kept |-> TRUE])
  /\ UNCHANGED pad /\ calls' = calls \cup {PadCall("post", Len(clicks) + 1, pad.from, pad.text)}
  /\ UNCHANGED <<server, panel, timer, closing, edits, made, told, mails, reopened, broken>>

\* Back, with "Discard" when something was written. Callbacks of a screen that is gone do not run.
PadLeaves ==
  /\ pad.open /\ pad' = [NoPad EXCEPT !.no = pad.no]
  /\ UNCHANGED <<server, panel, timer, closing, calls, history>>

PadReturns(c) ==
  LET here == pad.open /\ pad.no = c.no IN
  /\ c \in calls /\ c.at = "down" /\ c.kind \in {"prefill", "post"}
  /\ calls' = calls \ {c}
  /\ pad' = IF ~here THEN pad
            ELSE IF c.kind = "prefill" THEN [pad EXCEPT !.is = IF c.ok THEN "ready" ELSE "error", !.from = c.from]
            ELSE IF c.ok THEN [NoPad EXCEPT !.no = pad.no] ELSE pad
  /\ told' = IF c.kind = "post" /\ here THEN [told EXCEPT ![c.click] = IF c.ok THEN "sent" ELSE "failed"] ELSE told
  /\ UNCHANGED <<server, panel, timer, closing, edits, made, clicks, mails, reopened, broken>>
-----------------------------------------------------------------------------
(* The server.                                                             *)

\* GET /api/messages/:id/reply; the message is there as long as its mailbox.
Prefill(c) ==
  /\ c \in calls /\ c.kind = "prefill" /\ c.at = "up"
  /\ Answered(c, c.from \in boxes)
  /\ UNCHANGED <<server, client, history>>

\* POST /api/drafts
Create(c) ==
  /\ c \in calls /\ c.kind = "create" /\ c.at = "up"
  /\ IF c.from \in boxes
     THEN /\ made < MaxDrafts
          /\ made' = made + 1
          /\ drafts' = [drafts EXCEPT ![made + 1] = [box |-> c.from, text |-> c.text]]
          /\ Moves(c, [c EXCEPT !.at = "down", !.ok = TRUE, !.draft = made + 1])
     ELSE Answered(c, FALSE) /\ UNCHANGED <<made, drafts>>
  /\ UNCHANGED <<boxes, sentRows, client, edits, clicks, told, mails, reopened, broken>>

\* PATCH /api/drafts/:id; draftPatch omits the mailbox.
Patch(c) ==
  /\ c \in calls /\ c.kind \in {"patch", "final"} /\ c.at = "up"
  /\ drafts' = IF drafts[c.draft] = None THEN drafts ELSE [drafts EXCEPT ![c.draft].text = c.text]
  /\ IF c.kind = "final" THEN Answered(c, drafts[c.draft] # None)
     ELSE calls' = calls \ {c}              \* the panel makes nothing of this answer
  /\ UNCHANGED <<boxes, sentRows, client, history>>

\* DELETE /api/drafts/:id
Delete(c) ==
  /\ c \in calls /\ c.kind = "delete" /\ c.at = "up"
  /\ drafts' = [drafts EXCEPT ![c.draft] = None]
  /\ Answered(c, drafts[c.draft] # None)
  /\ UNCHANGED <<boxes, sentRows, client, history>>

\* POST /api/drafts/:id/send reads the draft; POST /api/send has it all. Then
\* sendMessage hands the message to the relay.
Send(c) ==
  LET d == c.draft
      found == IF d = None THEN c.from \in boxes ELSE drafts[d] # None
  IN  /\ c \in calls /\ c.kind \in {"send", "post"} /\ c.at = "up"
      /\ IF ~found THEN Answered(c, FALSE)
         ELSE Moves(c, [c EXCEPT !.at = "relay", !.from = IF d = None THEN @ ELSE drafts[d].box,
                                                 !.text = IF d = None THEN @ ELSE drafts[d].text])
      /\ UNCHANGED <<server, client, history>>

RelayTakes(c) ==
  /\ c \in calls /\ c.at = "relay"
  /\ mails' = mails \cup {[click |-> c.click, draft |-> c.draft, from |-> c.from, text |-> c.text]}
  /\ Moves(c, [c EXCEPT !.at = "taken"])
  /\ UNCHANGED <<server, client, edits, made, clicks, told, reopened, broken>>

RelayRefuses(c) ==
  /\ c \in calls /\ c.at = "relay"
  /\ Answered(c, FALSE)
  /\ UNCHANGED <<server, client, history>>

\* Mutant of Fileable: the draft must still be there.
FileableDraft(c) == c.from \in boxes /\ (c.draft # None => drafts[c.draft] # None)

\* The row in "sent" refers to the mailbox.
Fileable(c) == c.from \in boxes

\* The rest of sendMessage: the row in "sent", the draft goes, and the mailbox
\* trusts the recipient.
File(c) ==
  /\ c \in calls /\ c.at = "taken"
  /\ IF Fileable(c)
     THEN /\ sentRows' = sentRows \cup {[click |-> c.click, box |-> c.from]}
          /\ drafts' = IF c.draft = None THEN drafts ELSE [drafts EXCEPT ![c.draft] = None]
     ELSE UNCHANGED <<sentRows, drafts>>
  /\ Answered(c, Fileable(c))
  /\ UNCHANGED <<boxes, client, history>>

\* DELETE /api/mailboxes/:id, by cascade with its messages and drafts.
DeleteMailbox(b) ==
  /\ boxes = Boxes /\ b \in boxes       \* bound: one mailbox is deleted
  /\ boxes' = boxes \ {b}
  /\ drafts' = [d \in DraftIds |-> IF drafts[d] # None /\ drafts[d].box = b THEN None ELSE drafts[d]]
  /\ sentRows' = {s \in sentRows : s.box # b}
  /\ UNCHANGED <<client, calls, history>>

\* A call or its answer is lost, or the process stops while it serves the call.
Lost(c) ==
  /\ ~broken /\ c \in calls                     \* bound: once
  /\ c.at = "down" => c.ok
  /\ broken' = TRUE
  /\ Answered(c, FALSE)
  /\ UNCHANGED <<server, client, edits, made, clicks, told, mails, reopened>>
-----------------------------------------------------------------------------
Init ==
  /\ boxes = Boxes /\ drafts = [d \in DraftIds |-> None] /\ sentRows = {}
  /\ panel = Closed /\ timer = NoTimer /\ closing = FALSE /\ pad = NoPad /\ calls = {}
  /\ edits = 0 /\ made = 0 /\ clicks = <<>> /\ told = [k \in Clicks |-> "nothing"] /\ mails = {}
  /\ reopened = FALSE /\ broken = FALSE

Owner ==
  \/ \E b \in Boxes : OpenNew(b) \/ Edit(b) \/ DeleteMailbox(b)
  \/ \E d \in DraftIds : OpenDraft(d)
  \/ Close \/ Discard \/ ClickSend
  \/ \E b \in Boxes : PadPicks(b) \/ \E reply \in BOOLEAN : PadOpens(b, reply)
  \/ PadEdits \/ PadSends \/ PadLeaves

Client == ClosesItself \/ Autosave \/ \E c \in calls : Returns(c) \/ PadReturns(c) \/ Lost(c)

Server ==
  \E c \in calls : \/ Prefill(c) \/ Create(c) \/ Patch(c) \/ Delete(c) \/ Send(c)
                   \/ RelayTakes(c) \/ RelayRefuses(c) \/ File(c)

Next == Owner \/ Client \/ Server

Spec == Init /\ [][Next]_vars
-----------------------------------------------------------------------------
(* Properties.                                                             *)

\* Type invariant: every call, timer and panel names rows that were made.
TypeOK ==
  /\ boxes \subseteq Boxes
  /\ drafts \in [DraftIds -> [box : boxes, text : 1 .. edits] \cup {None}]
  /\ \A d \in DraftIds : d > made => drafts[d] = None
  /\ panel.draft \in {None} \cup 1 .. made /\ timer.draft \in {None} \cup 1 .. made
  /\ \A c \in calls : c.draft \in {None} \cup 1 .. made /\ c.click <= Len(clicks)
  /\ panel.text <= edits /\ edits \in Versions
  /\ \A s \in sentRows : s.box \in boxes /\ s.click \in 1 .. Len(clicks)

\* What goes out is what the panel showed when the owner clicked Send, although
\* autosaves, edits and other panels go on meanwhile: the text when no autosave
\* was under way at the click, the sender when From had not been changed after
\* the draft was made (doSend).
CalmSendIsExact ==
  \A x \in mails : LET k == clicks[x.click] IN
    /\ k.calm => x.text = k.text \/ reopened
    /\ k.kept => x.from = k.from

\* What the comment in doSend says: the latest values are persisted and then
\* sent, so every mail is what the panel showed.
SentAsShown == \A x \in mails : x.from = clicks[x.click].from

\* When the panel says that a send failed nothing was sent, unless a call or the
\* process broke down or the mailbox was deleted meanwhile: steps after the
\* relay (row, draft, rules) do not fail it (sendMessage).
FailureIsTrue ==
  \A x \in mails : (told[x.click] = "failed" /\ ~broken) => x.from \notin boxes

\* A send deletes the draft after an await; what it deletes is never newer than
\* what it sent, as the panel does not save while it sends. (An autosave may be
\* under way at the click, or the draft opened a second time while it is sent.)
NothingNewerDropped ==
  [][\A d \in DraftIds : (drafts[d] # None /\ drafts'[d] = None) =>
       \/ reopened \/ drafts[d].box \notin boxes'
       \/ \E c \in calls : c.kind = "delete" /\ c.draft = d
       \/ \E x \in mails : x.draft = d /\ (clicks[x.click].calm => x.text >= drafts[d].text)]_vars
=============================================================================
